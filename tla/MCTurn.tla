------------------------------- MODULE MCTurn -------------------------------
(* The instances of Turn that TLC checks; the .cfg files choose their constants. *)
EXTENDS TurnInvariant
=============================================================================
