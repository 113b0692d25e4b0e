--------------------------- MODULE PPDefinitions ---------------------------
(***************************************************************************)
(* What the lines of a translation unit need from the macro table of the   *)
(* preprocessor (part0_pp.c): one history of definitions for the whole     *)
(* unit, whichever file a line stands in.  #undef takes back the latest    *)
(* definition of a name that is in force, and a name means what its latest *)
(* definition in force says.                                               *)
(***************************************************************************)
EXTENDS Integers

CONSTANTS Names, Bodies, NoBody

VARIABLES made,     \* number of definitions made so far
          inForce,  \* those not taken back: [name, body, at]
          answer    \* what the last line that asked for a name was told

vars == <<made, inForce, answer>>

Of(n) == {d \in inForce : d.name = n}
Latest(n) == {d \in Of(n) : \A e \in Of(n) : e.at <= d.at}

Init == made = 0 /\ inForce = {} /\ answer = NoBody

Define(n, b) ==
  /\ made' = made + 1
  /\ inForce' = inForce \cup {[name |-> n, body |-> b, at |-> made + 1]}
  /\ UNCHANGED answer

Undef(n) ==
  /\ inForce' = inForce \ Latest(n)
  /\ UNCHANGED <<made, answer>>

Ask(n) ==
  /\ \/ Of(n) = {} /\ answer' = NoBody
     \/ \E d \in Latest(n) : answer' = d.body
  /\ UNCHANGED <<made, inForce>>

Next == \E n \in Names : Undef(n) \/ Ask(n) \/ \E b \in Bodies : Define(n, b)

Spec == Init /\ [][Next]_vars
=============================================================================
