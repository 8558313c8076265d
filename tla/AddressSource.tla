---------------------------- MODULE AddressSource ----------------------------
(***************************************************************************)
(* What getNewFeeAddress promises its callers: a request gets at most one  *)
(* fee address, keeps it, and never gets one that another request was      *)
(* given.  FeeAddresses implements this specification.                     *)
(***************************************************************************)
CONSTANTS Requests, Addresses, None

VARIABLE given      \* given[r]: the address request r was given, or None

Init == given = [r \in Requests |-> None]

Give(r, a) ==
    /\ given[r] = None
    /\ \A s \in Requests : given[s] # a
    /\ given' = [given EXCEPT ![r] = a]

Next == \E r \in Requests, a \in Addresses : Give(r, a)

Spec == Init /\ [][Next]_given
=============================================================================
