---------------------------- MODULE MCVoteChanges ----------------------------
(* Instances of VoteChanges for TLC.                                       *)
EXTENDS VoteChanges, TLC

CONSTANTS h1, h2, p1, v1, v2

(* The payment is signed before the vote changes, but may be sent again    *)
(* after them.                                                             *)
SignedAt == (p1 :> 1 @@ v1 :> 2 @@ v2 :> 3)

Symmetric == Permutations(Handlers)
=============================================================================
