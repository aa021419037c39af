------------------------------ MODULE MCHistory ------------------------------
(* A small instance of History.                                              *)
EXTENDS History
==============================================================================
