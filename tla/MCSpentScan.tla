----------------------------- MODULE MCSpentScan -----------------------------
(* Instances of SpentScan for TLC.                                         *)
EXTENDS SpentScan, TLC

CONSTANTS t1, t2, s1, s2

TwoScripts == (t1 :> s1 @@ t2 :> s2)

BoughtApart == (t1 :> 1 @@ t2 :> 2)
=============================================================================
