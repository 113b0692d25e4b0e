--------------------------- MODULE PPConditional ---------------------------
(***************************************************************************)
(* Conditional groups of the preprocessor: the four fields cond_stack,     *)
(* cond_satisfied, cond_else_seen and cond_depth of PPState, and the       *)
(* branches of pp_parse_directive (part0_pp.c) that change them.           *)
(*                                                                         *)
(* The environment chooses the directives: every sequence of #if, #ifdef,  *)
(* #ifndef, #elif, #else and #endif lines is a behaviour.  The value of a  *)
(* controlling expression is abstracted to an integer of Values; the code  *)
(* computes it as a long long and stores it in an int, which AsInt does.   *)
(*                                                                         *)
(* branches is a history variable: for every open group, the truth values  *)
(* of the branches met so far, as C defines them (#else is a true branch). *)
(***************************************************************************)
EXTENDS Integers, Sequences

CONSTANTS
  MaxNesting,    \* last index of the arrays cond_stack, ...: 63 in the code
  MaxBranches,   \* bound of the model: branches per group
  Values,        \* values of controlling expressions (long long)
  IntModulus     \* 2^32: an int keeps the value modulo this

ASSUME NestingAssumption == MaxNesting \in Nat
ASSUME ValuesAssumption == Values \subseteq Nat /\ IntModulus \in Nat \ {0}

VARIABLES
  cond_stack,      \* is the current branch of the group selected?
  cond_satisfied,  \* has a branch of the group been selected already?
  cond_else_seen,  \* has the group had its #else?
  cond_depth,      \* number of open groups; entry 0 is the file itself
  branches         \* history: truth of the branches of each open group

vars == <<cond_stack, cond_satisfied, cond_else_seen, cond_depth, branches>>

Levels == 0 .. MaxNesting

(* A long long result assigned to an int. *)
AsInt(v) == v % IntModulus

(* pp_is_active: every entry up to cond_depth is set. *)
IsActive == \A i \in 0 .. cond_depth : cond_stack[i]

(* The loops of #elif and #else over the entries below the top. *)
ParentActive == \A i \in 0 .. cond_depth - 1 : cond_stack[i]

(* The guard of #elif, #else and #endif; its mutant drops it. *)
InGroupUnchecked == TRUE
InGroup == cond_depth > 0

(* No branch of the innermost group was selected yet; mutant: never asked. *)
UnsatisfiedUnchecked == TRUE
Unsatisfied == ~cond_satisfied[cond_depth]

Init ==
  /\ cond_stack = [i \in Levels |-> i = 0]
  /\ cond_satisfied = [i \in Levels |-> FALSE]
  /\ cond_else_seen = [i \in Levels |-> FALSE]
  /\ cond_depth = 0
  /\ branches = [i \in Levels |-> <<>>]

(* The common part of #if, #ifdef and #ifndef: selected is what the code   *)
(* stores for an active line, holds is the C meaning of the condition.     *)
Open(selected, holds) ==
  /\ cond_depth < MaxNesting
  /\ LET d == cond_depth + 1
     IN  /\ cond_depth' = d
         /\ cond_stack' = [cond_stack EXCEPT ![d] = IsActive /\ selected]
         /\ cond_satisfied' = [cond_satisfied EXCEPT ![d] = IsActive /\ selected]
         /\ cond_else_seen' = [cond_else_seen EXCEPT ![d] = FALSE]
         /\ branches' = [branches EXCEPT ![d] = <<holds>>]

Ifdef(isDefined) == Open(isDefined, isDefined)

Ifndef(isDefined) == Open(~isDefined, ~isDefined)

If(v) == Open(AsInt(v) # 0, v # 0)

(* #elif after #else, or outside a group, only skips its line. *)
Elif(v) ==
  /\ InGroup /\ ~cond_else_seen[cond_depth]
  /\ Len(branches[cond_depth]) < MaxBranches
  /\ LET d == cond_depth
         result == Unsatisfied /\ ParentActive /\ AsInt(v) # 0
     IN  /\ cond_stack' = [cond_stack EXCEPT ![d] = result]
         /\ cond_satisfied' = [cond_satisfied EXCEPT ![d] = @ \/ result]
         /\ branches' = [branches EXCEPT ![d] = Append(@, v # 0)]
  /\ UNCHANGED <<cond_else_seen, cond_depth>>

(* The code does not ask whether the group had an #else before. *)
Else ==
  /\ InGroup
  /\ Len(branches[cond_depth]) < MaxBranches
  /\ LET d == cond_depth
         selected == ParentActive /\ Unsatisfied
     IN  /\ cond_else_seen' = [cond_else_seen EXCEPT ![d] = TRUE]
         /\ cond_stack' = [cond_stack EXCEPT ![d] = selected]
         /\ cond_satisfied' = [cond_satisfied EXCEPT ![d] = @ \/ selected]
         /\ branches' = [branches EXCEPT ![d] = Append(@, TRUE)]
  /\ UNCHANGED cond_depth

(* An #endif outside a group is ignored; cond_stack keeps its stale entry. *)
Endif ==
  /\ InGroup
  /\ cond_satisfied' = [cond_satisfied EXCEPT ![cond_depth] = FALSE]
  /\ cond_else_seen' = [cond_else_seen EXCEPT ![cond_depth] = FALSE]
  /\ cond_depth' = cond_depth - 1
  /\ branches' = [branches EXCEPT ![cond_depth] = <<>>]
  /\ UNCHANGED cond_stack

Next ==
  \/ \E isDefined \in BOOLEAN : Ifdef(isDefined)
  \/ \E isDefined \in BOOLEAN : Ifndef(isDefined)
  \/ \E v \in Values : If(v)
  \/ \E v \in Values : Elif(v)
  \/ Else
  \/ Endif

Spec == Init /\ [][Next]_vars

-----------------------------------------------------------------------------

(* Type invariant.  cond_stack, cond_satisfied and cond_else_seen hold     *)
(* truth values: the code only ever compares them with zero.               *)
TypeOK ==
  /\ cond_stack \in [Levels -> BOOLEAN]
  /\ cond_satisfied \in [Levels -> BOOLEAN]
  /\ cond_else_seen \in [Levels -> BOOLEAN]
  /\ cond_depth \in Levels
  /\ branches \in [Levels -> Seq(BOOLEAN)]

(* The last branch met is the first true one of its group. *)
Selected(b) == b[Len(b)] /\ \A i \in 1 .. Len(b) - 1 : ~b[i]

AllSelected(d) == \A e \in 1 .. d : Selected(branches[e])

(* What C promises of text between two directives (C11 6.10.1p6): it is    *)
(* processed exactly when, in every open group, the branch it stands in is *)
(* the first true one.  pp_is_active is what pp_parse_target_depth asks    *)
(* before it emits text, expands a name or obeys #define, #undef and       *)
(* #include.                                                               *)
ActiveIffSelected == IsActive <=> AllSelected(cond_depth)

(* The inductive invariant behind ActiveIffSelected: group by group, the   *)
(* two flags say what the branches met in it, and around it, say.          *)
GroupInv(d) ==
  /\ branches[d] # <<>>
  /\ cond_stack[d] <=> AllSelected(d)
  /\ cond_satisfied[d] <=>
       AllSelected(d - 1) /\ \E i \in 1 .. Len(branches[d]) : branches[d][i]

IInv ==
  /\ TypeOK
  /\ cond_stack[0]
  /\ \A d \in 1 .. cond_depth : GroupInv(d)
=============================================================================
