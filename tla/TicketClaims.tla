---------------------------- MODULE TicketClaims ----------------------------
(***************************************************************************)
(* What vspd promises about the tickets it is registered for, whatever     *)
(* handlers, background task, chain, failures and restarts do:             *)
(*                                                                         *)
(*   - a record claims only what the chain has shown;                      *)
(*   - a ticket enters the database without a fee, and only an update of   *)
(*     the record it has can give it one: a late write never brings a      *)
(*     deleted ticket back;                                                *)
(*   - a ticket whose fee was broadcast stays;                             *)
(*   - wallets are given a ticket only once its fee has been paid.         *)
(*                                                                         *)
(* TicketLifecycle implements this specification.                          *)
(***************************************************************************)
CONSTANT Tickets

VARIABLES
    registered, \* the tickets that have a record
    claims,     \* what the record of every ticket claims
    shown,      \* what the chain has shown of every ticket
    voting      \* the tickets a wallet was given

promises == <<registered, claims, shown, voting>>

(* What the chain shows: the purchase is final, a fee transaction for it   *)
(* was passed to dcrd and is final, the ticket is spent.                   *)
OnChain == {"final", "feeSent", "feePaid", "spent"}

Facts == OnChain \cup {"feeGiven"}

(* A record makes its claims in order.                                     *)
InOrder(claim) ==
    /\ "spent" \in claim => "feePaid" \in claim
    /\ "feePaid" \in claim => "feeSent" \in claim
    /\ "feeSent" \in claim => {"feeGiven", "final"} \subseteq claim

Claimable(t) == {claim \in SUBSET Facts : InOrder(claim) /\ claim \cap OnChain \subseteq shown[t]}

Init ==
    /\ registered = {}
    /\ claims = [t \in Tickets |-> {}]
    /\ shown = [t \in Tickets |-> {}]
    /\ voting = {}

(* The chain goes on: what it has shown stays shown.                       *)
Show ==
    /\ shown' \in [Tickets -> SUBSET OnChain]
    /\ \A t \in Tickets : shown[t] \subseteq shown'[t]
    /\ UNCHANGED <<registered, claims, voting>>

Register(t) ==
    /\ t \notin registered
    /\ registered' = registered \cup {t}
    /\ \E claim \in Claimable(t) :
          "feeGiven" \notin claim /\ claims' = [claims EXCEPT ![t] = claim]
    /\ UNCHANGED <<shown, voting>>

Update(t) ==
    /\ t \in registered
    /\ \E claim \in Claimable(t) : claims' = [claims EXCEPT ![t] = claim]
    /\ UNCHANGED <<registered, shown, voting>>

Delete(t) ==
    /\ t \in registered
    /\ "feeSent" \notin shown[t]
    /\ registered' = registered \ {t}
    /\ claims' = [claims EXCEPT ![t] = {}]
    /\ UNCHANGED <<shown, voting>>

(* A wallet is given the ticket; its refusal of a choice may be recorded.  *)
Vote(t) ==
    /\ "feePaid" \in shown[t]
    /\ voting' = voting \cup {t}
    /\ \/ UNCHANGED claims
       \/ t \in registered /\ \E claim \in Claimable(t) : claims' = [claims EXCEPT ![t] = claim]
    /\ UNCHANGED <<registered, shown>>

Next ==
    \/ Show
    \/ \E t \in Tickets : Register(t) \/ Update(t) \/ Delete(t) \/ Vote(t)

Spec == Init /\ [][Next]_promises
=============================================================================
