------------------------------ MODULE RegAlloc ------------------------------
(***************************************************************************)
(* The register allocator of the IR back end (regalloc.c): live intervals  *)
(* over the node list of one function, then graph colouring with           *)
(* coalescing, simplification and optimistic spilling.  One run of ra_run  *)
(* is one behaviour; a step is one iteration of the outermost loop of its  *)
(* phase.                                                                  *)
(*                                                                         *)
(* A temporary is a number, ordered as strcmp orders the names.  Arrays    *)
(* indexed by interval are functions on temporaries; the order of the      *)
(* array, which qsort fixes, only matters to the scan of the spill phase.  *)
(***************************************************************************)
EXTENDS Integers, Sequences, FiniteSets

CONSTANTS
  Temps,      \* numbers of the temporaries (names %t...)
  Functions,  \* node lists: sequences of [op, dst, src1, src2, isFloat]
  Gprs,       \* length of gpr_colors: 7 in the code
  Xmms        \* length of xmm_colors: 8 in the code

(* An operand that is no temporary (a slot, a label, nothing) is 0. *)
ASSUME TempsAssumption == Temps \subseteq Nat \ {0}

Operands == Temps \cup {0}

Ops == {"copy", "other"}
Nodes == [op : Ops, dst : Operands, src1 : Operands, src2 : Operands, isFloat : BOOLEAN]

ASSUME FunctionsAssumption == Functions \subseteq Seq(Nodes)

ASSUME ColorsAssumption == Gprs \in Nat /\ Xmms \in Nat

VARIABLES
  fn,         \* the function being allocated
  phase,      \* the loop ra_run is in
  pos,        \* node the loop is at
  start, end, isFloat,        \* the intervals, by temporary
  adj, degree, removed, alias, stack, color,  \* locals of chaitin_briggs
  assigned,   \* the result: register of each temporary
  simplified  \* history: temporaries pushed because their degree was low

vars == <<fn, phase, pos, start, end, isFloat, adj, degree, removed, alias,
          stack, color, assigned, simplified>>

intervals == <<start, end, isFloat>>
graph == <<adj, alias>>

None == -1
NoRegister == [xmm |-> FALSE, color |-> None]

Named == DOMAIN start
MentionedUnfiltered(n) == {n.dst, n.src1, n.src2}

Mentioned(n) == {n.dst, n.src1, n.src2} \cap Temps

NoIntervals == [t \in {} |-> 0]

Init ==
  /\ fn \in Functions
  /\ phase = "number"
  /\ pos = 1
  /\ start = NoIntervals /\ end = NoIntervals /\ isFloat = NoIntervals
  /\ adj = <<>> /\ degree = <<>> /\ removed = {} /\ alias = <<>>
  /\ stack = <<>> /\ color = <<>>
  /\ assigned = NoIntervals
  /\ simplified = {}

-----------------------------------------------------------------------------
(* build_intervals *)

(* One node: create the intervals of the names it mentions, extend their   *)
(* end, and note the class of the destination.                             *)
Number ==
  /\ phase = "number" /\ pos <= Len(fn)
  /\ LET n == fn[pos]
         known == Named \cup Mentioned(n)
     IN  /\ start' = [t \in known |-> IF t \in Named THEN start[t] ELSE pos]
         /\ end' = [t \in known |-> IF t \in Mentioned(n) THEN pos ELSE end[t]]
         /\ isFloat' = [t \in known |-> \/ t \in Named /\ isFloat[t]
                                        \/ t = n.dst /\ n.isFloat]
         /\ assigned' = [t \in known |-> NoRegister]
  /\ pos' = pos + 1
  /\ UNCHANGED <<fn, phase, graph, degree, removed, stack, color, simplified>>

(* Nothing is coloured in a function without temporaries. *)
NothingToColor ==
  /\ phase = "number" /\ pos > Len(fn) /\ Named = {}
  /\ phase' = "done"
  /\ UNCHANGED <<fn, pos, intervals, graph, degree, removed, stack, color, assigned, simplified>>

-----------------------------------------------------------------------------
(* chaitin_briggs *)

Overlap(i, j) == start[i] <= end[j] /\ start[j] <= end[i]

NeighborsOneWay(i) ==
  {j \in Named \ {i} : isFloat[i] = isFloat[j] /\ start[i] <= start[j] /\ start[j] <= end[i]}

Neighbors(i) == {j \in Named \ {i} : isFloat[i] = isFloat[j] /\ Overlap(i, j)}

BuildGraph ==
  /\ phase = "number" /\ pos > Len(fn) /\ Named # {}
  /\ adj' = [i \in Named |-> Neighbors(i)]
  /\ degree' = [i \in Named |-> Cardinality(Neighbors(i))]
  /\ alias' = [i \in Named |-> i]
  /\ pos' = 1
  /\ phase' = "coalesce"
  /\ UNCHANGED <<fn, intervals, removed, stack, color, assigned, simplified>>

(* The chain of aliases the code follows is kept short here: alias[t] is   *)
(* the representative of t.                                                *)
CanMerge(n) ==
  /\ n.op = "copy" /\ n.dst \in Temps /\ n.src1 \in Temps
  /\ alias[n.dst] # alias[n.src1]
  /\ isFloat[alias[n.dst]] = isFloat[alias[n.src1]]
  /\ alias[n.src1] \notin adj[alias[n.dst]]

(* Merge v into u: u takes over the neighbours of v. *)
Merge(u, v) ==
  LET new == (adj[v] \ adj[u]) \ {u}
  IN  /\ alias' = [t \in Named |-> IF alias[t] = v THEN u ELSE alias[t]]
      /\ adj' = [t \in Named |-> CASE t = u -> adj[u] \cup new
                                   [] t \in new -> adj[t] \cup {u}
                                   [] OTHER -> adj[t]]
      /\ degree' = [t \in Named |-> CASE t = u -> degree[u] + Cardinality(new)
                                      [] t \in new -> degree[t] + 1
                                      [] OTHER -> degree[t]]
      /\ removed' = removed \cup {v}

Coalesce ==
  /\ phase = "coalesce" /\ pos <= Len(fn)
  /\ IF CanMerge(fn[pos])
     THEN Merge(alias[fn[pos].dst], alias[fn[pos].src1])
     ELSE UNCHANGED <<graph, degree, removed>>
  /\ pos' = pos + 1
  /\ UNCHANGED <<fn, phase, intervals, stack, color, assigned, simplified>>

BeginSimplify ==
  /\ phase = "coalesce" /\ pos > Len(fn)
  /\ phase' = "simplify"
  /\ UNCHANGED <<fn, pos, intervals, graph, degree, removed, stack, color, assigned, simplified>>

Left == Named \ removed

K(t) == IF isFloat[t] THEN Xmms ELSE Gprs

LowDegreeOrEqual == {t \in Left : degree[t] <= K(t)}

LowDegree == {t \in Left : degree[t] < K(t)}

Push(t) ==
  /\ removed' = removed \cup {t}
  /\ stack' = Append(stack, t)
  /\ degree' = [u \in Named |-> IF u \in Left \ {t} /\ u \in adj[t] THEN degree[u] - 1 ELSE degree[u]]
  /\ UNCHANGED <<fn, phase, pos, intervals, graph, color, assigned>>

(* The first name among those of low degree. *)
Simplify ==
  /\ phase = "simplify"
  /\ \E t \in LowDegree :
       /\ \A u \in LowDegree : t <= u
       /\ Push(t)
       /\ simplified' = simplified \cup {t}

(* Highest degree per node of interval; the first name among equals. *)
Length(t) == end[t] - start[t] + 1

SpilledBefore(t, u) ==
  \/ degree[t] * Length(u) > degree[u] * Length(t)
  \/ degree[t] * Length(u) = degree[u] * Length(t) /\ t <= u

(* The array of intervals, whichever order qsort has given the names left. *)
Orders == {order \in [1 .. Cardinality(Left) -> Left] : \A t \in Left : \E i \in DOMAIN order : order[i] = t}

(* The loop that looks for the spill candidate: a best cost kept as a      *)
(* fraction num / den, compared by cross-multiplication, and ties broken   *)
(* by name.                                                                *)
NoTarget == [target |-> 0, num |-> -1, den |-> 1]

CandidateNoTies(best, i) ==
  LET here == [target |-> i, num |-> degree[i], den |-> Length(i)]
  IN  IF best.num = -1 \/ here.num * best.den > best.num * here.den THEN here ELSE best

Candidate(best, i) ==
  LET here == [target |-> i, num |-> degree[i], den |-> Length(i)]
      ours == here.num * best.den
      theirs == best.num * here.den
  IN  IF \/ best.num = -1 \/ ours > theirs
         \/ ours = theirs /\ (best.target = 0 \/ i < best.target)
      THEN here ELSE best

SpillScan(order) ==
  LET best[k \in 0 .. Len(order)] ==
        IF k = 0 THEN NoTarget ELSE Candidate(best[k - 1], order[k])
  IN  best[Len(order)].target

Spill ==
  /\ phase = "simplify" /\ LowDegree = {}
  /\ \E t \in Left :
       /\ \A u \in Left : SpilledBefore(t, u)
       /\ Push(t)
       /\ UNCHANGED simplified

BeginSelect ==
  /\ phase = "simplify" /\ Left = {}
  /\ phase' = "select"
  /\ removed' = {}
  /\ color' = [t \in Named |-> None]
  /\ UNCHANGED <<fn, pos, intervals, graph, degree, stack, assigned, simplified>>

(* Colours no neighbour that was popped before has. *)
Top == stack[Len(stack)]

FreeColors(t) == (0 .. K(t) - 1) \ {color[alias[u]] : u \in removed \cap adj[t]}

Pop ==
  /\ stack' = SubSeq(stack, 1, Len(stack) - 1)
  /\ removed' = removed \cup {Top}
  /\ UNCHANGED <<fn, phase, pos, intervals, graph, degree, assigned, simplified>>

SelectColor ==
  /\ phase = "select" /\ stack # <<>>
  /\ \E c \in FreeColors(Top) :
       /\ \A d \in FreeColors(Top) : c <= d
       /\ color' = [color EXCEPT ![Top] = c]
  /\ Pop

SelectNone ==
  /\ phase = "select" /\ stack # <<>>
  /\ FreeColors(Top) = {}
  /\ color' = [color EXCEPT ![Top] = None]
  /\ Pop

(* Every temporary gets the register of its representative's colour. *)
Register(t) ==
  IF color[alias[t]] = None THEN NoRegister
  ELSE [xmm |-> isFloat[t], color |-> color[alias[t]]]

Assign ==
  /\ phase = "select" /\ stack = <<>>
  /\ assigned' = [t \in Named |-> Register(t)]
  /\ phase' = "done"
  /\ UNCHANGED <<fn, pos, intervals, graph, degree, removed, stack, color, simplified>>

Terminated == phase = "done" /\ UNCHANGED vars

Next ==
  \/ Number \/ NothingToColor
  \/ BuildGraph \/ Coalesce \/ BeginSimplify
  \/ Simplify \/ Spill \/ BeginSelect
  \/ SelectColor \/ SelectNone \/ Assign
  \/ Terminated

Spec == Init /\ [][Next]_vars

(* ra_run is a sequential function: it takes steps until it returns. *)
FairSpec == Spec /\ WF_vars(Next)

-----------------------------------------------------------------------------

Phases == {"number", "coalesce", "simplify", "select", "done"}
Registers == [xmm : BOOLEAN, color : Nat] \cup {NoRegister}

TypeOK ==
  /\ fn \in Seq(Nodes) /\ phase \in Phases /\ pos \in 1 .. Len(fn) + 1
  /\ Named \subseteq Temps
  /\ start \in [Named -> Nat] /\ end \in [Named -> Nat] /\ isFloat \in [Named -> BOOLEAN]
  /\ removed \subseteq Named /\ simplified \subseteq Named
  /\ stack \in Seq(Named)
  /\ phase \in {"coalesce", "simplify", "select"} =>
       /\ adj \in [Named -> SUBSET Named] /\ alias \in [Named -> Named]
       /\ degree \in [Named -> Int]
  /\ phase = "select" => color \in [Named -> Nat \cup {None}]
  /\ assigned \in [Named -> Registers]

(* What allocation is for, in the terms of the node list: from a mention   *)
(* of a temporary to a later one, no node in between writes its register.  *)
(* Intervals, graph, coalescing and colours all have to be right.          *)
ValueSurvives ==
  phase = "done" =>
    \A p, q, r \in DOMAIN fn : p <= q /\ q < r =>
      \A t \in Mentioned(fn[p]) \cap Mentioned(fn[r]) :
        fn[q].dst \in Temps \ {t} /\ assigned[t] # NoRegister =>
          assigned[fn[q].dst] # assigned[t]

(* FORENSIC_024_REGALLOC_DETERMINISM.md: the choice is a total order on    *)
(* cost and name, so the order of the array has no part in it: the scan    *)
(* ends with the name that Spill takes.                                    *)
SpillChoiceIsCanonical ==
  phase = "simplify" /\ LowDegree = {} /\ Left # {} =>
    \A order \in Orders :
      LET t == SpillScan(order) IN t \in Left /\ \A u \in Left : SpilledBefore(t, u)

(* Chaitin-Briggs: a node pushed by the simplify loop always finds a       *)
(* colour; only a node that was pushed as a spill candidate may stay on    *)
(* the stack.  The degrees kept through coalescing and removal are never   *)
(* lower than the number of neighbours that are coloured first.            *)
LowDegreeIsColored ==
  phase = "select" /\ stack # <<>> /\ Top \in simplified => FreeColors(Top) # {}

(* The two names of a copy are mentioned by the same node, their intervals *)
(* are closed, so they overlap there: the coalescing loop never merges.    *)
NothingCoalesced ==
  phase \in {"coalesce", "simplify", "select"} => \A t \in Named : alias[t] = t

(* The inductive invariant of the proofs.  Every node that was numbered lies in the      *)
(* intervals of the names it mentions; the graph is that of the overlaps,  *)
(* with every name its own representative; colours differ along its edges, *)
(* and so do the registers of overlapping names at the end.                *)
Scanned == IF phase = "number" THEN 1 .. pos - 1 ELSE DOMAIN fn

Coloring == phase \in {"coalesce", "simplify", "select"}

IntervalInv ==
  /\ \A q \in Scanned : \A t \in Mentioned(fn[q]) : t \in Named /\ start[t] <= q /\ q <= end[t]
  /\ phase = "number" => \A t \in Named : start[t] < pos

GraphInv ==
  /\ IsFiniteSet(Named)
  /\ Coloring => \A t \in Named : adj[t] = Neighbors(t) /\ alias[t] = t
  /\ phase \in {"number", "coalesce"} => stack = <<>> /\ removed = {} /\ simplified = {}

ColorInv ==
  phase = "select" =>
    \A a \in Named : color[a] # None =>
      /\ a \in removed
      /\ \A b \in Neighbors(a) : color[b] # color[a]

RegisterInv ==
  phase = "done" =>
    \A a, b \in Named : a # b /\ Overlap(a, b) /\ assigned[a] # NoRegister =>
      assigned[b] # assigned[a]

IInv == TypeOK /\ IntervalInv /\ GraphInv /\ ColorInv /\ RegisterInv

(* What LowDegreeIsColored rests on: the degree of a name that is left is  *)
(* the number of its neighbours that are left, so when a name of low       *)
(* degree is pushed, few neighbours will be popped before it.              *)
Below(k) == {stack[j] : j \in 1 .. k}

BriggsInv ==
  /\ phase \in {"coalesce", "simplify"} =>
       \A t \in Left : degree[t] = Cardinality(Neighbors(t) \ removed)
  /\ phase = "simplify" => removed = Below(Len(stack)) /\ simplified \subseteq removed
  /\ phase = "select" => removed \cap Below(Len(stack)) = {}
  /\ \A i, j \in 1 .. Len(stack) : stack[i] = stack[j] => i = j
  /\ \A k \in 1 .. Len(stack), t \in simplified : stack[k] = t =>
       Cardinality(Neighbors(t) \ Below(k)) < K(t)
=============================================================================
