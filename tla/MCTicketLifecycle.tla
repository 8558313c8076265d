-------------------------- MODULE MCTicketLifecycle --------------------------
(***************************************************************************)
(* Instances of TicketLifecycle for TLC.                                   *)
(***************************************************************************)
EXTENDS TicketLifecycle, TLC

CONSTANTS f1, f2

(* f1 pays a small amount to both addresses, f2 a larger one to the first. *)
TwoFeePayments == (f1 :> <<1, 1>>) @@ (f2 :> <<2, 0>>)

OneFeePayment == (f1 :> <<1, 1>>)

Interchangeable == Permutations(Requests)
=============================================================================
