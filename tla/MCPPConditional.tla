-------------------------- MODULE MCPPConditional --------------------------
(***************************************************************************)
(* Values of the constants of PPConditional for TLC.                       *)
(***************************************************************************)
EXTENDS PPConditional

(* int values only: 0, and two values an int tells from 0. *)
IntValues == {0, 1, 3}
=============================================================================
