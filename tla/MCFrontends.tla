----------------------------- MODULE MCFrontends -----------------------------
(****************************************************************************)
(* The small instance of Frontends: characters of every kind the editor     *)
(* tells apart, and a paste that ends in a combining mark.                  *)
(****************************************************************************)
EXTENDS Frontends

MCTyped == {"wide", "mark", "\n", " "}
MCPastes == {<<"a", "mark">>}
==============================================================================
