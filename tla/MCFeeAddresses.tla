--------------------------- MODULE MCFeeAddresses ---------------------------
(* Instances of FeeAddresses for TLC.                                      *)
EXTENDS FeeAddresses, TLC

CONSTANTS r1, r2, r3, k1, k2, k3

(* One key skips an index, one has three invalid children in a row, one    *)
(* has none.                                                               *)
SomeInvalid == (k1 :> {2}) @@ (k2 :> {2, 3, 4}) @@ (k3 :> {})
=============================================================================
