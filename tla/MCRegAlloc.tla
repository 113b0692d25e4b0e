---------------------------- MODULE MCRegAlloc ----------------------------
(***************************************************************************)
(* Functions for RegAlloc.                                                 *)
(***************************************************************************)
EXTENDS RegAlloc, SequencesExt, FiniteSetsExt

MCTemps == 1 .. 6

Node(op, dst, srcs, float) ==
  [op |-> op, dst |-> dst,
   src1 |-> IF srcs = {} THEN 0 ELSE Min(srcs),
   src2 |-> IF Cardinality(srcs) < 2 THEN 0 ELSE Max(srcs), isFloat |-> float]

UpToTwo(S) == {T \in SUBSET S : Cardinality(T) <= 2}

(* A node that defines d (0: none) from at most two of the names in S; one *)
(* source makes it a copy.                                                 *)
Define(d, S, floats) ==
  {Node(IF Cardinality(s) = 1 /\ d # 0 THEN "copy" ELSE "other", d, s, d \in floats) : s \in UpToTwo(S)}

(* Straight-line functions over five names, first definitions in the order *)
(* n; the last node uses or defines one of them again.                     *)
Lines(n, floats, last) ==
  { <<a, b, c, d, e, f>> :
      a \in Define(n[1], {}, floats), b \in Define(n[2], {n[1]}, floats),
      c \in Define(n[3], {n[1], n[2]}, floats), d \in Define(n[4], {n[1], n[2], n[3]}, floats),
      e \in Define(n[5], {n[1], n[2], n[3], n[4]}, floats), f \in Define(last, Range(n), floats) }

MCFunctions ==
  Lines(<<2, 4, 1, 5, 3>>, {}, 0) \cup Lines(<<1, 2, 3, 4, 5>>, {2, 3, 5}, 1)
    \cup { <<Node("other", 0, {}, FALSE)>> }
=============================================================================
