----------------------------- MODULE MCSubagents -----------------------------
(* A small instance of Subagents.                                            *)
EXTENDS Subagents
==============================================================================
