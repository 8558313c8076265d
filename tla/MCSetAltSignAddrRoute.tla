------------------------ MODULE MCSetAltSignAddrRoute ------------------------
(* Instances of SetAltSignAddrRoute for TLC.                               *)
EXTENDS SetAltSignAddrRoute

CONSTANTS r1, r2, a1, a2
=============================================================================
