---------------------------- MODULE MCTurnOutput ----------------------------
(* TLC instances of TurnOutput: all the bounds are in the .cfg files.      *)
EXTENDS TurnOutput
=============================================================================
