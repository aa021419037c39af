----------------------------- MODULE MCTurnLoop ------------------------------
(* A small instance of TurnLoop.                                             *)
EXTENDS TurnLoop
==============================================================================
