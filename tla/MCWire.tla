------------------------------- MODULE MCWire --------------------------------
(****************************************************************************)
(* The small instance of Wire: two callers, bodies of a few bytes, answers  *)
(* of a few blocks, conversations of a few messages.  MCWire.cfg gives all  *)
(* the values.                                                              *)
(****************************************************************************)
EXTENDS Wire

==============================================================================
