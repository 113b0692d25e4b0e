--------------------------- MODULE MCPPDirectives ---------------------------
(* Two names; a body stands for 0 or for another number.                   *)
EXTENDS PPDirectives

CONSTANTS g, h
=============================================================================
