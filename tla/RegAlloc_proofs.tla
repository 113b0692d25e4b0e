-------------------------- MODULE RegAlloc_proofs --------------------------
(***************************************************************************)
(* Proofs about RegAlloc for every function and every number of registers. *)
(***************************************************************************)
EXTENDS RegAlloc, FiniteSetTheorems, SequenceTheorems, WellFoundedInduction, NaturalsInduction, TLAPS

LEMMA NodeTypes ==
  ASSUME fn \in Seq(Nodes), NEW q \in DOMAIN fn
  PROVE  /\ fn[q] \in Nodes /\ q \in Nat /\ q >= 1 /\ q <= Len(fn)
         /\ Mentioned(fn[q]) \subseteq Temps
         /\ IsFiniteSet(Mentioned(fn[q]))
<1>1. fn[q] \in Nodes /\ q \in 1 .. Len(fn) /\ Len(fn) \in Nat
  <2>1. DOMAIN fn = 1 .. Len(fn) /\ Len(fn) \in Nat
    OBVIOUS
  <2>2. q \in 1 .. Len(fn)
    BY <2>1
  <2>3. fn \in Seq(Nodes)
    OBVIOUS
  <2>4. fn[q] \in Nodes
    BY <2>2, <2>3, ElementOfSeq
  <2> QED BY <2>1, <2>2, <2>4
<1>2. IsFiniteSet({fn[q].dst} \cup {fn[q].src1} \cup {fn[q].src2})
  <2>1. IsFiniteSet({fn[q].dst})
    BY FS_Singleton
  <2>2. IsFiniteSet({fn[q].dst} \cup {fn[q].src1})
    BY <2>1, FS_AddElement
  <2> QED BY <2>2, FS_AddElement
<1>3. Mentioned(fn[q]) \in SUBSET ({fn[q].dst} \cup {fn[q].src1} \cup {fn[q].src2})
  BY DEF Mentioned
<1>4. IsFiniteSet(Mentioned(fn[q]))
  BY <1>2, <1>3, FS_Subset
<1> QED BY <1>1, <1>4 DEF Mentioned

LEMMA NeighborFacts ==
  ASSUME TypeOK, NEW a \in Named
  PROVE  /\ Neighbors(a) \subseteq Named
         /\ \A b \in Neighbors(a) : a \in Neighbors(b)
BY DEF Neighbors, Overlap, TypeOK

(* Every action but Number and BuildGraph leaves the intervals alone. *)
LEMMA NumberKeepsInv == ASSUME IInv, Number PROVE IInv'
<1> DEFINE n == fn[pos]
<1>1. pos \in DOMAIN fn /\ pos \in Nat /\ n \in Nodes /\ Mentioned(n) \subseteq Temps /\ IsFiniteSet(Mentioned(n))
  <2>1. pos \in DOMAIN fn
    BY DEF IInv, TypeOK, Number
  <2> QED BY <2>1, NodeTypes DEF IInv, TypeOK
<1>2. /\ Named' = Named \cup Mentioned(n)
      /\ phase' = "number" /\ phase = "number" /\ pos' = pos + 1 /\ pos <= Len(fn) /\ fn' = fn
      /\ UNCHANGED <<stack, removed, simplified>>
  BY DEF Number, Named, graph
<1>3. /\ start' \in [Named' -> Nat] /\ end' \in [Named' -> Nat] /\ isFloat' \in [Named' -> BOOLEAN]
      /\ \A t \in Named : start'[t] = start[t]
      /\ \A t \in Mentioned(n) : start'[t] <= pos /\ end'[t] = pos
      /\ \A t \in Named : end'[t] = pos \/ end'[t] = end[t]
  <2>1. \A t \in Named : start[t] \in Nat /\ end[t] \in Nat /\ start[t] < pos
    BY <1>2 DEF IInv, TypeOK, IntervalInv
  <2>2. /\ start' = [t \in Named' |-> IF t \in Named THEN start[t] ELSE pos]
        /\ end' = [t \in Named' |-> IF t \in Mentioned(n) THEN pos ELSE end[t]]
        /\ isFloat' = [t \in Named' |-> \/ t \in Named /\ isFloat[t]
                                        \/ t = n.dst /\ n.isFloat]
    BY <1>2 DEF Number
  <2> HIDE DEF n
  <2>3. start' \in [Named' -> Nat] /\ end' \in [Named' -> Nat] /\ isFloat' \in [Named' -> BOOLEAN]
    BY <1>1, <1>2, <2>1, <2>2
  <2> QED BY <1>1, <1>2, <2>1, <2>2, <2>3
<1>4. fn \in Seq(Nodes) /\ pos' \in 1 .. Len(fn) + 1
  BY <1>1, <1>2 DEF IInv, TypeOK
<1>5. TypeOK'
  <2>1. Named' \subseteq Temps
    BY <1>1, <1>2 DEF IInv, TypeOK
  <2>2. stack = <<>> /\ removed = {} /\ simplified = {}
    BY <1>2 DEF IInv, GraphInv
  <2>3. stack' \in Seq(Named')
    BY <1>2, <2>2
  <2>4. assigned' \in [Named' -> Registers]
    BY <1>2 DEF Number, Registers
  <2> QED BY <1>2, <1>3, <1>4, <2>1, <2>2, <2>3, <2>4 DEF TypeOK, Phases
<1>6. IntervalInv'
  <2>1. ASSUME NEW q \in 1 .. pos, NEW t \in Mentioned(fn[q])
        PROVE  t \in Named' /\ start'[t] <= q /\ q <= end'[t]
    <3>1. CASE q = pos
      <4>1. t \in Mentioned(n)
        BY <3>1
      <4>2. t \in Named'
        BY <1>2, <4>1
      <4>3. start'[t] <= pos /\ end'[t] = pos
        BY <1>3, <4>1
      <4> QED BY <1>1, <3>1, <4>2, <4>3
    <3>2. CASE q \in 1 .. pos - 1
      <4>1. t \in Named /\ start[t] <= q /\ q <= end[t]
        BY <1>2, <3>2 DEF IInv, IntervalInv, Scanned
      <4>2. start'[t] = start[t] /\ (end'[t] = pos \/ end'[t] = end[t])
        BY <1>3, <4>1
      <4>3. t \in Named'
        BY <1>2, <4>1
      <4>4. q <= pos
        BY <1>1, <3>2
      <4> QED BY <4>1, <4>2, <4>3, <4>4
    <3> QED BY <1>1, <3>1, <3>2
  <2>2. \A t \in Named' : start'[t] < pos'
    <3> SUFFICES ASSUME NEW t \in Named' PROVE start'[t] < pos + 1
      BY <1>2
    <3>1. CASE t \in Named
      <4>1. start[t] < pos /\ start[t] \in Nat
        BY <1>2, <3>1 DEF IInv, IntervalInv, TypeOK
      <4> QED BY <1>1, <1>3, <3>1, <4>1
    <3>2. CASE t \in Mentioned(n)
      <4>1. start'[t] <= pos /\ start'[t] \in Nat
        BY <1>3, <3>2
      <4> QED BY <1>1, <4>1
    <3> QED BY <1>2, <3>1, <3>2
  <2>3. Scanned' = 1 .. pos
    BY <1>1, <1>2 DEF Scanned
  <2> QED BY <1>2, <2>1, <2>2, <2>3 DEF IntervalInv, Mentioned
<1>7. GraphInv'
  <2>1. IsFiniteSet(Named')
    BY <1>1, <1>2, FS_Union DEF IInv, GraphInv
  <2> QED BY <1>2, <2>1 DEF IInv, GraphInv, Coloring
<1> QED BY <1>2, <1>5, <1>6, <1>7 DEF IInv, ColorInv, RegisterInv

(* The other actions leave the function and its intervals alone. *)
Settled == UNCHANGED <<fn, start, end, isFloat>>

LEMMA SettledFacts ==
  ASSUME Settled
  PROVE  /\ Named' = Named
         /\ \A a : Neighbors(a)' = Neighbors(a)
         /\ \A a, b : Overlap(a, b)' <=> Overlap(a, b)
         /\ \A q : Mentioned(fn[q])' = Mentioned(fn[q])
BY DEF Settled, Named, Neighbors, Overlap, Mentioned

LEMMA SettledIntervals ==
  ASSUME IInv, Settled, phase # "number" \/ pos > Len(fn), phase' # "number"
  PROVE  IntervalInv'
<1>1. Scanned' = DOMAIN fn
  BY DEF Settled, Scanned
<1>2. DOMAIN fn \subseteq Scanned
  BY DEF IInv, TypeOK, Scanned
<1> QED BY <1>1, <1>2, SettledFacts DEF Settled, IInv, IntervalInv, Mentioned, Named

LEMMA StartKeepsInv == ASSUME IInv, NothingToColor \/ BuildGraph PROVE IInv'
<1>1. CASE NothingToColor
  <2>1. Settled /\ phase' = "done" /\ phase = "number" /\ pos > Len(fn) /\ Named = {}
        /\ UNCHANGED <<pos, adj, degree, removed, alias, stack, color, assigned, simplified>>
    BY <1>1 DEF NothingToColor, Settled, intervals, graph
  <2>2. TypeOK'
    BY <2>1, SettledFacts DEF IInv, TypeOK, Settled, Phases, Named
  <2>3. IntervalInv'
    BY <2>1, SettledIntervals
  <2> QED BY <2>1, <2>2, <2>3, SettledFacts DEF IInv, GraphInv, ColorInv, RegisterInv, Coloring
<1>2. CASE BuildGraph
  <2>1. /\ Settled /\ phase' = "coalesce" /\ phase = "number" /\ pos > Len(fn)
        /\ UNCHANGED <<removed, stack, color, assigned, simplified>>
        /\ pos' = 1
        /\ adj' = [i \in Named |-> Neighbors(i)]
        /\ degree' = [i \in Named |-> Cardinality(Neighbors(i))]
        /\ alias' = [i \in Named |-> i]
    BY <1>2 DEF BuildGraph, Settled, intervals
  <2>2. \A i \in Named : Neighbors(i) \subseteq Named /\ Cardinality(Neighbors(i)) \in Int
    <3> SUFFICES ASSUME NEW i \in Named
                 PROVE  Neighbors(i) \subseteq Named /\ Cardinality(Neighbors(i)) \in Int
      OBVIOUS
    <3>1. Neighbors(i) \in SUBSET Named
      BY DEF Neighbors
    <3>2. IsFiniteSet(Neighbors(i))
      BY <3>1, FS_Subset DEF IInv, GraphInv
    <3> QED BY <3>1, <3>2, FS_CardinalityType
  <2>3. TypeOK'
    BY <2>1, <2>2, SettledFacts DEF IInv, TypeOK, Settled, Phases, Named
  <2>4. IntervalInv'
    BY <2>1, SettledIntervals
  <2> QED BY <2>1, <2>3, <2>4, SettledFacts DEF IInv, GraphInv, ColorInv, RegisterInv, Coloring
<1> QED BY <1>1, <1>2

(* Both names of a copy are mentioned by the node, so their intervals meet *)
(* there: if they are of one class they are neighbours already.            *)
LEMMA NeverMerges == ASSUME IInv, phase = "coalesce", pos <= Len(fn) PROVE ~CanMerge(fn[pos])
<1> DEFINE n == fn[pos]
<1> SUFFICES ASSUME CanMerge(n) PROVE FALSE
  OBVIOUS
<1>1. pos \in DOMAIN fn
  BY DEF IInv, TypeOK
<1>2. n.dst \in Mentioned(n) /\ n.src1 \in Mentioned(n)
  BY DEF CanMerge, Mentioned
<1>3. pos \in Scanned
  BY <1>1 DEF Scanned
<1>4. /\ n.dst \in Named /\ start[n.dst] <= pos /\ pos <= end[n.dst]
      /\ n.src1 \in Named /\ start[n.src1] <= pos /\ pos <= end[n.src1]
  BY <1>2, <1>3 DEF IInv, IntervalInv
<1>5. Overlap(n.dst, n.src1)
  BY <1>1, <1>4 DEF Overlap, IInv, TypeOK
<1>6. alias[n.dst] = n.dst /\ alias[n.src1] = n.src1 /\ adj[n.dst] = Neighbors(n.dst)
  BY <1>4 DEF IInv, GraphInv, Coloring
<1>7. n.dst # n.src1 /\ isFloat[n.dst] = isFloat[n.src1] /\ n.src1 \notin Neighbors(n.dst)
  BY <1>6 DEF CanMerge
<1> QED BY <1>4, <1>5, <1>7 DEF Neighbors

LEMMA CoalesceKeepsInv == ASSUME IInv, Coalesce PROVE IInv'
<1>1. phase = "coalesce" /\ pos <= Len(fn) /\ ~CanMerge(fn[pos])
  BY NeverMerges DEF Coalesce
<1>2. /\ Settled /\ pos' = pos + 1
      /\ UNCHANGED <<phase, adj, alias, degree, removed, stack, color, assigned, simplified>>
  BY <1>1 DEF Coalesce, Settled, intervals, graph
<1>3. TypeOK'
  BY <1>1, <1>2, SettledFacts DEF IInv, TypeOK, Settled, Phases, Named
<1>4. IntervalInv'
  BY <1>1, <1>2, SettledFacts DEF Settled, IInv, IntervalInv, Scanned, Mentioned, Named
<1> QED BY <1>1, <1>2, <1>3, <1>4, SettledFacts DEF IInv, GraphInv, ColorInv, RegisterInv, Coloring

LEMMA PushKeepsInv ==
  ASSUME IInv, phase = "simplify", NEW t \in Left, Push(t),
         simplified' \subseteq simplified \cup {t}
  PROVE  IInv'
<1>1. /\ Settled
      /\ UNCHANGED <<phase, pos, adj, alias, color, assigned>>
      /\ removed' = removed \cup {t}
      /\ stack' = Append(stack, t)
      /\ degree' = [u \in Named |-> IF u \in Left \ {t} /\ u \in adj[t] THEN degree[u] - 1 ELSE degree[u]]
  BY DEF Push, Settled, intervals, graph
<1>2. t \in Named
  BY DEF Left
<1>3. degree' \in [Named -> Int]
  <2>1. \A u \in Named : degree[u] \in Int
    BY DEF IInv, TypeOK
  <2> QED BY <1>1, <2>1
<1>4. stack' \in Seq(Named)
  BY <1>1, <1>2, AppendProperties DEF IInv, TypeOK
<1>5. TypeOK'
  BY <1>1, <1>2, <1>3, <1>4, SettledFacts DEF IInv, TypeOK, Settled, Phases, Named
<1>6. IntervalInv'
  BY <1>1, SettledIntervals
<1> QED BY <1>1, <1>5, <1>6, SettledFacts DEF IInv, GraphInv, ColorInv, RegisterInv, Coloring

LEMMA PhaseKeepsInv == ASSUME IInv, BeginSimplify \/ BeginSelect PROVE IInv'
<1>1. CASE BeginSimplify
  <2>1. /\ Settled /\ phase = "coalesce" /\ phase' = "simplify"
        /\ UNCHANGED <<pos, adj, alias, degree, removed, stack, color, assigned, simplified>>
    BY <1>1 DEF BeginSimplify, Settled, intervals, graph
  <2>2. TypeOK'
    BY <2>1, SettledFacts DEF IInv, TypeOK, Settled, Phases, Named
  <2>3. IntervalInv'
    BY <2>1, SettledIntervals
  <2> QED BY <2>1, <2>2, <2>3, SettledFacts DEF IInv, GraphInv, ColorInv, RegisterInv, Coloring
<1>2. CASE BeginSelect
  <2>1. /\ Settled /\ phase = "simplify" /\ phase' = "select"
        /\ UNCHANGED <<pos, adj, alias, degree, stack, assigned, simplified>>
        /\ removed' = {} /\ color' = [t \in Named |-> None]
    BY <1>2 DEF BeginSelect, Settled, intervals, graph
  <2>2. TypeOK'
    BY <2>1, SettledFacts DEF IInv, TypeOK, Settled, Phases, Named
  <2>3. IntervalInv'
    BY <2>1, SettledIntervals
  <2> QED BY <2>1, <2>2, <2>3, SettledFacts DEF IInv, GraphInv, ColorInv, RegisterInv, Coloring
<1> QED BY <1>1, <1>2

(* A colour that is free for the top of the stack differs from that of     *)
(* every neighbour coloured before; the others have no colour yet.         *)
LEMMA PopKeepsInv ==
  ASSUME IInv, phase = "select", stack # <<>>, Pop,
         NEW c \in Nat \cup {None}, c # None => c \in FreeColors(Top),
         color' = [color EXCEPT ![Top] = c]
  PROVE  IInv'
<1>1. /\ Settled
      /\ UNCHANGED <<phase, pos, adj, alias, degree, assigned, simplified>>
      /\ removed' = removed \cup {Top}
      /\ stack' = SubSeq(stack, 1, Len(stack) - 1)
  BY DEF Pop, Settled, intervals, graph
<1>2. stack \in Seq(Named) /\ Len(stack) \in Nat /\ Len(stack) >= 1
  BY EmptySeq, LenProperties DEF IInv, TypeOK
<1>3. Top \in Named
  BY <1>2, ElementOfSeq DEF Top
<1>4. stack' \in Seq(Named)
  <2>1. \A i \in 1 .. Len(stack) - 1 : stack[i] \in Named
    BY <1>2, ElementOfSeq
  <2> QED BY <1>1, <1>2, <2>1, SubSeqProperties
<1>5. /\ color \in [Named -> Nat \cup {None}]
      /\ color' \in [Named -> Nat \cup {None}]
      /\ color'[Top] = c
      /\ \A a \in Named : a # Top => color'[a] = color[a]
  BY <1>3 DEF IInv, TypeOK
<1>6. TypeOK'
  BY <1>1, <1>3, <1>4, <1>5, SettledFacts DEF IInv, TypeOK, Settled, Phases, Named
<1>7. IntervalInv'
  BY <1>1, SettledIntervals
<1>8. ColorInv'
  <2> SUFFICES ASSUME NEW a \in Named, color'[a] # None
               PROVE  /\ a \in removed'
                      /\ \A b \in Neighbors(a) : color'[b] # color'[a]
    BY <1>1, SettledFacts DEF ColorInv
  <2>1. \A d \in Named : color[d] # None =>
          d \in removed /\ \A b \in Neighbors(d) : color[b] # color[d]
    BY DEF IInv, ColorInv
  <2>2. a \in removed'
    BY <1>1, <1>5, <2>1
  <2>3. ASSUME NEW b \in Neighbors(a) PROVE color'[b] # color'[a]
    <3>1. b \in Named /\ a \in Neighbors(b) /\ a # b
      BY <2>3, NeighborFacts DEF IInv, Neighbors
    <3>2. \A u \in Neighbors(Top) : color[u] # None /\ c # None => color[u] # c
      <4> SUFFICES ASSUME NEW u \in Neighbors(Top), color[u] # None, c # None
                   PROVE  color[u] # c
        OBVIOUS
      <4>1. u \in Named
        BY <1>3, NeighborFacts DEF IInv
      <4>2. u \in removed /\ u \in adj[Top] /\ alias[u] = u
        BY <1>3, <2>1, <4>1 DEF IInv, GraphInv, Coloring
      <4> QED BY <4>2 DEF FreeColors
    <3>3. CASE a = Top
      BY <1>5, <3>1, <3>2, <3>3
    <3>4. CASE b = Top
      BY <1>5, <3>1, <3>2, <3>4
    <3>5. CASE a # Top /\ b # Top
      BY <1>5, <2>1, <3>1, <3>5
    <3> QED BY <3>3, <3>4, <3>5
  <2> QED BY <2>2, <2>3
<1> QED BY <1>1, <1>6, <1>7, <1>8, SettledFacts DEF IInv, GraphInv, RegisterInv, Coloring

LEMMA AssignKeepsInv == ASSUME IInv, Assign PROVE IInv'
<1>1. /\ Settled /\ phase = "select" /\ phase' = "done"
      /\ UNCHANGED <<pos, adj, alias, degree, removed, stack, color, simplified>>
      /\ assigned' = [t \in Named |-> Register(t)]
  BY DEF Assign, Settled, intervals, graph
<1>2. \A t \in Named :
        /\ alias[t] = t /\ color[t] \in Nat \cup {None} /\ isFloat[t] \in BOOLEAN
        /\ Register(t) = IF color[t] = None THEN NoRegister ELSE [xmm |-> isFloat[t], color |-> color[t]]
  BY <1>1 DEF IInv, GraphInv, TypeOK, Coloring, Register
<1>3. \A t \in Named : Register(t) \in Registers
  <2> SUFFICES ASSUME NEW t \in Named PROVE Register(t) \in Registers
    OBVIOUS
  <2>1. CASE color[t] = None
    BY <1>2, <2>1 DEF Registers
  <2>2. CASE color[t] # None
    <3>1. color[t] \in Nat /\ isFloat[t] \in BOOLEAN
      BY <1>2, <2>2
    <3> QED BY <1>2, <2>2, <3>1 DEF Registers
  <2> QED BY <2>1, <2>2
<1>4. TypeOK'
  BY <1>1, <1>3, SettledFacts DEF IInv, TypeOK, Settled, Phases, Named
<1>5. IntervalInv'
  BY <1>1, SettledIntervals
<1>6. RegisterInv'
  <2> SUFFICES ASSUME NEW a \in Named, NEW b \in Named, a # b, Overlap(a, b),
                      Register(a) # NoRegister
               PROVE  Register(b) # Register(a)
    BY <1>1, SettledFacts DEF RegisterInv
  <2>1. color[a] # None /\ Register(a) = [xmm |-> isFloat[a], color |-> color[a]]
    BY <1>2
  <2>2. CASE color[b] = None
    BY <1>2, <2>2
  <2>3. CASE color[b] # None /\ isFloat[a] # isFloat[b]
    <3>1. Register(b) = [xmm |-> isFloat[b], color |-> color[b]]
      BY <1>2, <2>3
    <3>2. Register(b).xmm # Register(a).xmm
      BY <2>1, <2>3, <3>1
    <3> QED BY <3>2
  <2>4. CASE color[b] # None /\ isFloat[a] = isFloat[b]
    <3>1. Register(b) = [xmm |-> isFloat[b], color |-> color[b]]
      BY <1>2, <2>4
    <3>2. b \in Neighbors(a)
      BY <2>4 DEF Neighbors
    <3>3. color[b] # color[a]
      BY <1>1, <2>1, <3>2 DEF IInv, ColorInv
    <3>4. Register(b).color # Register(a).color
      BY <2>1, <3>1, <3>3
    <3> QED BY <3>4
  <2> QED BY <2>2, <2>3, <2>4
<1> QED BY <1>1, <1>4, <1>5, <1>6, SettledFacts DEF IInv, GraphInv, ColorInv, Coloring

LEMMA InitInv == Init => IInv
<1> SUFFICES ASSUME Init PROVE IInv
  OBVIOUS
<1>1. fn \in Seq(Nodes) /\ Len(fn) \in Nat
  BY FunctionsAssumption, LenProperties DEF Init
<1>2. Named = {}
  BY DEF Init, Named, NoIntervals
<1>3. /\ start \in [Named -> Nat] /\ end \in [Named -> Nat] /\ isFloat \in [Named -> BOOLEAN]
      /\ assigned \in [Named -> Registers]
  BY <1>2 DEF Init, NoIntervals
<1>4. TypeOK
  BY <1>1, <1>2, <1>3 DEF Init, TypeOK, Phases
<1>5. Scanned = {}
  BY DEF Init, Scanned
<1> QED BY <1>2, <1>4, <1>5, FS_EmptySet DEF Init, IInv, IntervalInv, GraphInv, ColorInv, RegisterInv, Coloring

LEMMA NextInv == IInv /\ [Next]_vars => IInv'
<1> SUFFICES ASSUME IInv, [Next]_vars PROVE IInv'
  OBVIOUS
<1>1. CASE Number
  BY <1>1, NumberKeepsInv
<1>2. CASE NothingToColor \/ BuildGraph
  BY <1>2, StartKeepsInv
<1>3. CASE Coalesce
  BY <1>3, CoalesceKeepsInv
<1>4. CASE BeginSimplify \/ BeginSelect
  BY <1>4, PhaseKeepsInv
<1>5. CASE Simplify
  <2>1. PICK t \in LowDegree : Push(t) /\ simplified' = simplified \cup {t}
    BY <1>5 DEF Simplify
  <2> QED BY <1>5, <2>1, PushKeepsInv DEF Simplify, LowDegree
<1>6. CASE Spill
  BY <1>6, PushKeepsInv DEF Spill
<1>7. CASE SelectColor
  <2>1. PICK c \in FreeColors(Top) : color' = [color EXCEPT ![Top] = c]
    BY <1>7 DEF SelectColor
  <2>2. c \in Nat
    BY <2>1 DEF FreeColors
  <2> QED BY <1>7, <2>1, <2>2, PopKeepsInv DEF SelectColor
<1>8. CASE SelectNone
  BY <1>8, PopKeepsInv DEF SelectNone
<1>9. CASE Assign
  BY <1>9, AssignKeepsInv
<1>10. CASE UNCHANGED vars
  <2>1. Settled /\ UNCHANGED <<phase, pos, adj, degree, removed, alias, stack, color, assigned, simplified>>
    BY <1>10 DEF vars, Settled
  <2> QED BY <2>1, SettledFacts DEF IInv, TypeOK, IntervalInv, Scanned, GraphInv, ColorInv, RegisterInv,
                                    Coloring, Settled, Named, Mentioned
<1> QED BY <1>1, <1>2, <1>3, <1>4, <1>5, <1>6, <1>7, <1>8, <1>9, <1>10 DEF Next, Terminated

THEOREM Invariant == Spec => []IInv
BY InitInv, NextInv, PTL DEF Spec

(* The types of the intervals, the graph and the registers are kept, for   *)
(* every function and every number of registers.                           *)
THEOREM TypeCorrect == Spec => []TypeOK
<1>1. IInv => TypeOK
  BY DEF IInv
<1> QED BY <1>1, Invariant, PTL

(* No register is written between two mentions of the temporary in it.     *)
THEOREM ValuesSurvive == Spec => []ValueSurvives
<1>1. IInv => ValueSurvives
  <2> SUFFICES ASSUME IInv, phase = "done",
                      NEW p \in DOMAIN fn, NEW q \in DOMAIN fn, NEW r \in DOMAIN fn, p <= q, q < r,
                      NEW t \in Mentioned(fn[p]) \cap Mentioned(fn[r]),
                      fn[q].dst \in Temps \ {t}, assigned[t] # NoRegister
               PROVE  assigned[fn[q].dst] # assigned[t]
    BY DEF ValueSurvives
  <2>1. Scanned = DOMAIN fn
    BY DEF Scanned
  <2>2. t \in Named /\ start[t] <= p /\ r <= end[t]
    BY <2>1 DEF IInv, IntervalInv
  <2>3. fn[q].dst \in Mentioned(fn[q])
    BY DEF Mentioned
  <2>4. fn[q].dst \in Named /\ start[fn[q].dst] <= q /\ q <= end[fn[q].dst]
    BY <2>1, <2>3 DEF IInv, IntervalInv
  <2>5. p \in Nat /\ q \in Nat /\ r \in Nat
    BY NodeTypes DEF IInv, TypeOK
  <2>6. Overlap(t, fn[q].dst)
    BY <2>2, <2>4, <2>5 DEF Overlap, IInv, TypeOK
  <2> QED BY <2>2, <2>4, <2>6 DEF IInv, RegisterInv
<1> QED BY <1>1, Invariant, PTL

(* The coalescing loop merges nothing, whatever copies the function has.   *)
THEOREM CoalescingIsIdle == Spec => []NothingCoalesced
<1>1. IInv => NothingCoalesced
  BY DEF IInv, GraphInv, Coloring, NothingCoalesced
<1> QED BY <1>1, Invariant, PTL

-----------------------------------------------------------------------------
(* The guarantee of the simplify loop.                                     *)

LEMMA FiniteNeighbors ==
  ASSUME IInv, NEW t \in Named, NEW S
  PROVE  IsFiniteSet(Neighbors(t) \ S) /\ Cardinality(Neighbors(t) \ S) \in Nat
<1>1. Neighbors(t) \ S \in SUBSET Named
  BY DEF Neighbors
<1>2. IsFiniteSet(Neighbors(t) \ S)
  BY <1>1, FS_Subset DEF IInv, GraphInv
<1> QED BY <1>2, FS_CardinalityType

(* Removing one name lowers the count of its neighbours by one. *)
LEMMA DegreeAfterPush ==
  ASSUME IInv, phase = "simplify", NEW t \in Left, NEW u \in Left \ {t}
  PROVE  Cardinality(Neighbors(u) \ (removed \cup {t})) =
           IF u \in adj[t] THEN Cardinality(Neighbors(u) \ removed) - 1
                           ELSE Cardinality(Neighbors(u) \ removed)
<1>1. t \in Named /\ u \in Named /\ t \notin removed
  BY DEF Left
<1>2. u \in adj[t] <=> t \in Neighbors(u)
  BY <1>1, NeighborFacts DEF IInv, GraphInv, Coloring
<1>3. Neighbors(u) \ (removed \cup {t}) = (Neighbors(u) \ removed) \ {t}
  OBVIOUS
<1>4. IsFiniteSet(Neighbors(u) \ removed)
  BY <1>1, FiniteNeighbors
<1>5. t \in Neighbors(u) \ removed <=> u \in adj[t]
  BY <1>1, <1>2
<1> QED BY <1>3, <1>4, <1>5, FS_RemoveElement

LEMMA PushKeepsBriggs ==
  ASSUME IInv, BriggsInv, phase = "simplify", NEW t \in Left, Push(t),
         \/ simplified' = simplified /\ t \notin simplified
         \/ simplified' = simplified \cup {t} /\ degree[t] < K(t)
  PROVE  BriggsInv'
<1>0. stack \in Seq(Named) /\ t \in Named /\ Len(stack) \in Nat
  BY LenProperties DEF IInv, TypeOK, Left
<1> PICK n \in Nat : n = Len(stack)
  BY <1>0
<1>1. /\ Settled
      /\ UNCHANGED <<phase, adj, alias>>
      /\ removed' = removed \cup {t}
      /\ stack' = Append(stack, t)
      /\ degree' = [u \in Named |-> IF u \in Left \ {t} /\ u \in adj[t] THEN degree[u] - 1 ELSE degree[u]]
  BY DEF Push, Settled, intervals, graph
<1>2. stack \in Seq(Named) /\ t \in Named /\ n \in Nat
  BY <1>0
<1>3. Len(stack') = n + 1 /\ stack'[n + 1] = t /\ \A i \in 1 .. n : stack'[i] = stack[i]
  BY <1>1, <1>2, AppendProperties
<1>4. \A k \in 1 .. n : Below(k)' = Below(k)
  BY <1>2, <1>3 DEF Below
<1>5. removed = Below(n) /\ simplified \subseteq removed
  BY DEF BriggsInv
<1>6. Below(n + 1)' = removed \cup {t}
  <2>1. 1 .. n + 1 = (1 .. n) \cup {n + 1}
    BY <1>2
  <2> QED BY <1>3, <1>5, <2>1 DEF Below
<1>7. \A u \in Left' : degree'[u] = Cardinality(Neighbors(u)' \ removed')
  <2>1. Left' = Left \ {t}
    BY <1>1, SettledFacts DEF Left
  <2>2. ASSUME NEW u \in Left \ {t}
        PROVE  degree'[u] = Cardinality(Neighbors(u) \ (removed \cup {t}))
    <3>1. u \in Named /\ degree[u] = Cardinality(Neighbors(u) \ removed)
      BY DEF BriggsInv, Left
    <3> QED BY <1>1, <3>1, DegreeAfterPush
  <2>3. \A u \in Left' : Neighbors(u)' = Neighbors(u)
    BY <1>1, SettledFacts
  <2> QED BY <1>1, <2>1, <2>2, <2>3
<1>8. removed' = Below(Len(stack))' /\ simplified' \subseteq removed'
  BY <1>1, <1>3, <1>5, <1>6 DEF Below
<1>9. \A i, j \in 1 .. Len(stack') : stack'[i] = stack'[j] => i = j
  <2>1. t \notin Below(n)
    BY <1>5 DEF Left
  <2>2. \A i \in 1 .. n : stack[i] # t
    BY <2>1 DEF Below
  <2>3. \A i, j \in 1 .. n : stack[i] = stack[j] => i = j
    BY DEF BriggsInv
  <2> SUFFICES ASSUME NEW i \in 1 .. n + 1, NEW j \in 1 .. n + 1, stack'[i] = stack'[j]
               PROVE  i = j
    BY <1>3
  <2>4. CASE i \in 1 .. n /\ j \in 1 .. n
    BY <1>3, <2>3, <2>4
  <2>5. CASE i = n + 1 /\ j = n + 1
    BY <2>5
  <2>6. CASE i = n + 1 /\ j \in 1 .. n
    BY <1>3, <2>2, <2>6
  <2>7. CASE i \in 1 .. n /\ j = n + 1
    BY <1>3, <2>2, <2>7
  <2> QED BY <1>2, <2>4, <2>5, <2>6, <2>7
<1>10. ASSUME NEW k \in 1 .. n + 1, NEW s \in simplified', stack'[k] = s
       PROVE  Cardinality(Neighbors(s) \ Below(k)') < K(s)
  <2>1. CASE k \in 1 .. n
    <3>1. s = stack[k] /\ s \in removed
      BY <1>3, <1>5, <1>10, <2>1 DEF Below
    <3>2. s \in simplified
      BY <1>10, <3>1 DEF Left
    <3> QED BY <1>4, <2>1, <3>1, <3>2 DEF BriggsInv
  <2>2. CASE k = n + 1
    <3>1. s = t
      BY <1>3, <1>10, <2>2
    <3>2. degree[t] < K(t) /\ degree[t] = Cardinality(Neighbors(t) \ removed)
      BY <1>10, <3>1 DEF BriggsInv
    <3>3. Neighbors(t) \ (removed \cup {t}) = Neighbors(t) \ removed
      BY DEF Neighbors
    <3> QED BY <1>6, <2>2, <3>1, <3>2, <3>3
  <2> QED BY <1>2, <2>1, <2>2
<1>11. \A s : Neighbors(s)' = Neighbors(s) /\ K(s)' = K(s)
  BY <1>1, SettledFacts DEF K, Settled
<1>12. \A k \in 1 .. Len(stack'), s \in simplified' : stack'[k] = s =>
         Cardinality(Neighbors(s)' \ Below(k)') < K(s)'
  BY <1>3, <1>10, <1>11
<1> QED BY <1>1, <1>7, <1>8, <1>9, <1>12 DEF BriggsInv

(* A low-degree name has fewer coloured neighbours than there are colours. *)
LEMMA ColorIsFree ==
  ASSUME IInv, BriggsInv, phase = "select", stack # <<>>, Top \in simplified
  PROVE  FreeColors(Top) # {}
<1> DEFINE n == Len(stack)
           met == removed \cap adj[Top]
           used == {color[alias[u]] : u \in met}
<1>1. stack \in Seq(Named) /\ n \in Nat /\ n >= 1 /\ n \in 1 .. n
  BY EmptySeq, LenProperties DEF IInv, TypeOK
<1>2. Top \in Named /\ adj[Top] = Neighbors(Top) /\ K(Top) \in Nat
  BY <1>1, ElementOfSeq, ColorsAssumption DEF Top, IInv, GraphInv, Coloring, K
<1>3. Cardinality(Neighbors(Top) \ Below(n)) < K(Top)
  BY <1>1 DEF BriggsInv, Top
<1>4. met \in SUBSET (Neighbors(Top) \ Below(n))
  BY <1>2 DEF BriggsInv
<1>5. IsFiniteSet(met) /\ Cardinality(met) < K(Top) /\ Cardinality(met) \in Nat
  <2>1. IsFiniteSet(Neighbors(Top) \ Below(n)) /\ Cardinality(Neighbors(Top) \ Below(n)) \in Nat
    BY <1>2, FiniteNeighbors
  <2>2. IsFiniteSet(met) /\ Cardinality(met) <= Cardinality(Neighbors(Top) \ Below(n))
    BY <1>4, <2>1, FS_Subset
  <2> QED BY <1>2, <1>3, <2>1, <2>2, FS_CardinalityType
<1>6. IsFiniteSet(used) /\ Cardinality(used) <= Cardinality(met)
  <2> DEFINE f == [u \in met |-> color[alias[u]]]
  <2>1. f \in Surjection(met, used)
    BY DEF Surjection
  <2> QED BY <1>5, <2>1, FS_Surjection
<1>7. Cardinality(0 .. K(Top) - 1) = K(Top) /\ IsFiniteSet(0 .. K(Top) - 1)
  <2>1. K(Top) - 1 \in Int /\ ~(0 > K(Top) - 1)
    BY <1>2, <1>5
  <2>2. Cardinality(0 .. K(Top) - 1) = (K(Top) - 1) - 0 + 1 /\ IsFiniteSet(0 .. K(Top) - 1)
    BY <2>1, FS_Interval
  <2> QED BY <1>2, <2>2
<1> SUFFICES ASSUME FreeColors(Top) = {} PROVE FALSE
  OBVIOUS
<1>8. 0 .. K(Top) - 1 \in SUBSET used
  BY DEF FreeColors
<1>9. Cardinality(0 .. K(Top) - 1) <= Cardinality(used)
  BY <1>6, <1>8, FS_Subset
<1> QED BY <1>2, <1>5, <1>6, <1>7, <1>9, FS_CardinalityType

LEMMA PopKeepsBriggs ==
  ASSUME IInv, BriggsInv, phase = "select", stack # <<>>, Pop
  PROVE  BriggsInv'
<1>0. stack \in Seq(Named) /\ Len(stack) \in Nat \ {0}
  BY EmptySeq DEF IInv, TypeOK
<1> PICK n \in Nat \ {0} : n = Len(stack)
  BY <1>0
<1>1. /\ Settled
      /\ UNCHANGED <<phase, adj, alias, degree, simplified>>
      /\ removed' = removed \cup {stack[n]}
      /\ stack' = SubSeq(stack, 1, n - 1)
  BY DEF Pop, Settled, intervals, graph, Top
<1>2. Len(stack') = n - 1 /\ \A i \in 1 .. n - 1 : stack'[i] = stack[i]
  BY <1>0, <1>1
<1>3. \A k \in 1 .. n - 1 : Below(k)' = Below(k)
  BY <1>2 DEF Below
<1>4. \A i, j \in 1 .. n : stack[i] = stack[j] => i = j
  BY DEF BriggsInv
<1>5. removed' \cap Below(Len(stack))' = {}
  <2>1. Below(Len(stack))' = {stack[j] : j \in 1 .. n - 1}
    BY <1>2 DEF Below
  <2>2. removed \cap {stack[j] : j \in 1 .. n} = {}
    BY DEF BriggsInv, Below
  <2>3. \A j \in 1 .. n - 1 : j \in 1 .. n /\ j # n /\ n \in 1 .. n
    OBVIOUS
  <2> QED BY <1>1, <1>4, <2>1, <2>2, <2>3
<1>6. \A i, j \in 1 .. Len(stack') : stack'[i] = stack'[j] => i = j
  BY <1>2, <1>4
<1>7. \A s : Neighbors(s)' = Neighbors(s) /\ K(s)' = K(s)
  BY <1>1, SettledFacts DEF K, Settled
<1>8. \A k \in 1 .. Len(stack'), s \in simplified' : stack'[k] = s =>
         Cardinality(Neighbors(s)' \ Below(k)') < K(s)'
  <2> SUFFICES ASSUME NEW k \in 1 .. n - 1, NEW s \in simplified, stack[k] = s
               PROVE  Cardinality(Neighbors(s) \ Below(k)) < K(s)
    BY <1>1, <1>2, <1>3, <1>7
  <2>1. k \in 1 .. Len(stack)
    OBVIOUS
  <2> QED BY <2>1 DEF BriggsInv
<1> QED BY <1>1, <1>5, <1>6, <1>8 DEF BriggsInv

LEMMA NextBriggs == IInv /\ BriggsInv /\ [Next]_vars => BriggsInv'
<1> SUFFICES ASSUME IInv, BriggsInv, [Next]_vars PROVE BriggsInv'
  OBVIOUS
<1>1. CASE Number \/ NothingToColor
  <2>1. stack' = stack /\ stack = <<>> /\ phase' \in {"number", "done"}
    BY <1>1 DEF Number, NothingToColor, IInv, GraphInv
  <2> QED BY <2>1 DEF BriggsInv
<1>2. CASE BuildGraph
  <2>1. /\ Settled /\ phase' = "coalesce" /\ stack' = stack /\ stack = <<>> /\ removed' = removed /\ removed = {}
        /\ degree' = [i \in Named |-> Cardinality(Neighbors(i))]
    BY <1>2 DEF BuildGraph, Settled, intervals, IInv, GraphInv
  <2>2. \A t \in Left' : degree'[t] = Cardinality(Neighbors(t)' \ removed')
    BY <2>1, SettledFacts DEF Left
  <2> QED BY <2>1, <2>2 DEF BriggsInv
<1>3. CASE Coalesce
  <2>1. phase = "coalesce" /\ ~CanMerge(fn[pos])
    BY <1>3, NeverMerges DEF Coalesce
  <2>2. Settled /\ UNCHANGED <<phase, degree, removed, stack>> /\ stack = <<>>
    BY <1>3, <2>1 DEF Coalesce, Settled, intervals, IInv, GraphInv
  <2>3. \A t \in Left' : degree'[t] = Cardinality(Neighbors(t)' \ removed')
    BY <2>1, <2>2, SettledFacts DEF Left, BriggsInv
  <2> QED BY <2>1, <2>2, <2>3 DEF BriggsInv
<1>4. CASE BeginSimplify
  <2>1. /\ Settled /\ UNCHANGED <<degree, removed, stack, simplified>>
        /\ stack = <<>> /\ removed = {} /\ simplified = {}
        /\ phase = "coalesce" /\ phase' = "simplify"
    BY <1>4 DEF BeginSimplify, Settled, intervals, IInv, GraphInv
  <2>2. \A t \in Left' : degree'[t] = Cardinality(Neighbors(t)' \ removed')
    BY <2>1, SettledFacts DEF Left, BriggsInv
  <2>3. Below(Len(stack))' = {}
    BY <2>1 DEF Below
  <2> QED BY <2>1, <2>2, <2>3 DEF BriggsInv
<1>5. CASE Simplify
  <2>1. PICK t \in LowDegree : Push(t) /\ simplified' = simplified \cup {t}
    BY <1>5 DEF Simplify
  <2> QED BY <1>5, <2>1, PushKeepsBriggs DEF Simplify, LowDegree
<1>6. CASE Spill
  <2>1. PICK t \in Left : Push(t) /\ simplified' = simplified
    BY <1>6 DEF Spill
  <2>2. t \notin simplified
    BY <1>6 DEF Spill, BriggsInv, Left
  <2> QED BY <1>6, <2>1, <2>2, PushKeepsBriggs DEF Spill
<1>7. CASE BeginSelect
  <2>1. /\ Settled /\ UNCHANGED <<stack, simplified>>
        /\ removed' = {} /\ phase' = "select"
    BY <1>7 DEF BeginSelect, Settled, intervals
  <2>2. \A s : Neighbors(s)' = Neighbors(s) /\ K(s)' = K(s)
    BY <2>1, SettledFacts DEF K, Settled
  <2>3. \A k : Below(k)' = Below(k)
    BY <2>1 DEF Below
  <2> QED BY <2>1, <2>2, <2>3 DEF BriggsInv
<1>8. CASE SelectColor \/ SelectNone
  BY <1>8, PopKeepsBriggs DEF SelectColor, SelectNone
<1>9. CASE Assign
  <2>1. stack' = stack /\ stack = <<>> /\ phase' = "done"
    BY <1>9 DEF Assign
  <2> QED BY <2>1 DEF BriggsInv
<1>10. CASE UNCHANGED vars
  <2>1. Settled /\ UNCHANGED <<phase, degree, removed, stack, simplified>>
    BY <1>10 DEF vars, Settled
  <2>2. \A s : Neighbors(s)' = Neighbors(s) /\ K(s)' = K(s)
    BY <2>1, SettledFacts DEF K, Settled
  <2>3. \A k : Below(k)' = Below(k)
    BY <2>1 DEF Below
  <2>4. Left' = Left
    BY <2>1, SettledFacts DEF Left
  <2> QED BY <2>1, <2>2, <2>3, <2>4 DEF BriggsInv
<1> QED BY <1>1, <1>2, <1>3, <1>4, <1>5, <1>6, <1>7, <1>8, <1>9, <1>10 DEF Next, Terminated

(* A name that was pushed with a low degree is never left on the stack of  *)
(* the function: select finds a colour for it.                             *)
THEOREM SimplifiedGetRegisters == Spec => []LowDegreeIsColored
<1>1. Init => BriggsInv
  BY DEF Init, BriggsInv
<1>2. IInv /\ BriggsInv => LowDegreeIsColored
  BY ColorIsFree DEF LowDegreeIsColored
<1> QED BY <1>1, <1>2, NextBriggs, Invariant, PTL DEF Spec
-----------------------------------------------------------------------------
(* The scan of the spill phase.                                            *)

(* An interval ends where it starts or behind.                             *)
Proper == \A t \in Named : start[t] <= end[t]

(* Only Number changes intervals, and it moves their ends to the right.    *)
LEMMA IntervalsProper == Spec => []Proper
<1>1. Init => Proper
  BY DEF Init, Proper, Named, NoIntervals
<1>2. IInv /\ Proper /\ [Next]_vars => Proper'
  <2> SUFFICES ASSUME IInv, Proper, [Next]_vars PROVE Proper'
    OBVIOUS
  <2>1. CASE Number
    <3> DEFINE n == fn[pos]
    <3>1. /\ Named' = Named \cup Mentioned(n)
          /\ start' = [t \in Named' |-> IF t \in Named THEN start[t] ELSE pos]
          /\ end' = [t \in Named' |-> IF t \in Mentioned(n) THEN pos ELSE end[t]]
      BY <2>1 DEF Number, Named
    <3>2. \A t \in Named : start[t] \in Nat /\ end[t] \in Nat /\ start[t] < pos
      BY <2>1 DEF IInv, TypeOK, IntervalInv, Number
    <3>3. pos \in Nat
      BY DEF IInv, TypeOK
    <3> HIDE DEF n
    <3> QED BY <3>1, <3>2, <3>3 DEF Proper
  <2>2. CASE UNCHANGED intervals
    BY <2>2 DEF Proper, Named, intervals
  <2> QED
    BY <2>1, <2>2 DEF Next, vars, NothingToColor, BuildGraph, Coalesce, BeginSimplify, Simplify, Spill,
       Push, BeginSelect, SelectColor, SelectNone, Pop, Assign, Terminated, intervals
<1> QED BY <1>1, <1>2, Invariant, PTL DEF Spec

(* What the order of the candidates rests on: fractions with positive      *)
(* denominators, compared by cross-multiplication, are ordered.            *)
LEMMA FractionsOrdered ==
  ASSUME NEW a \in Int, NEW b \in Int, NEW c \in Int,
         NEW x \in Nat \ {0}, NEW y \in Nat \ {0}, NEW z \in Nat \ {0},
         a * y >= b * x, b * z >= c * y
  PROVE  /\ a * z >= c * x
         /\ a * y > b * x \/ b * z > c * y => a * z > c * x
<1>1. /\ (a * y) * z \in Int /\ (b * x) * z \in Int /\ (c * y) * x \in Int
      /\ (a * y) * z = (a * z) * y /\ (b * x) * z = (b * z) * x /\ (c * y) * x = (c * x) * y
      /\ a * y \in Int /\ b * x \in Int /\ b * z \in Int /\ c * y \in Int /\ a * z \in Int /\ c * x \in Int
  BY SMTT(30)
<1>2. \A u, v \in Int, w \in Nat \ {0} :
        (u >= v => u * w >= v * w) /\ (u > v => u * w > v * w)
        /\ (u * w >= v * w => u >= v) /\ (u * w > v * w => u > v)
  BY SMTT(30)
<1> DEFINE ay == a * y  bx == b * x  bz == b * z  cy == c * y  az == a * z  cx == c * x
<1>3. /\ ay * z = az * y /\ bx * z = bz * x /\ cy * x = cx * y
      /\ ay \in Int /\ bx \in Int /\ bz \in Int /\ cy \in Int /\ az \in Int /\ cx \in Int
      /\ ay * z \in Int /\ bx * z \in Int /\ cy * x \in Int
  BY <1>1
<1>4. ay >= bx /\ bz >= cy
  OBVIOUS
<1> SUFFICES az >= cx /\ (ay > bx \/ bz > cy => az > cx)
  OBVIOUS
<1> HIDE DEF ay, bx, bz, cy, az, cx
<1>5. ay * z >= bx * z /\ (ay > bx => ay * z > bx * z)
  BY <1>2, <1>3, <1>4
<1>6. bz * x >= cy * x /\ (bz > cy => bz * x > cy * x)
  BY <1>2, <1>3, <1>4
<1>7. az * y >= cx * y /\ (ay > bx \/ bz > cy => az * y > cx * y)
  BY <1>3, <1>5, <1>6
<1> QED BY <1>2, <1>3, <1>7

(* The names that are left have a degree and a positive length.            *)
LEMMA LeftFacts ==
  ASSUME IInv, BriggsInv, Proper, phase = "simplify", NEW t \in Left
  PROVE  /\ t \in Named /\ t \in Nat \ {0}
         /\ degree[t] \in Nat /\ Length(t) \in Nat \ {0}
<1>1. t \in Named /\ t \in Nat \ {0}
  BY TempsAssumption DEF Left, IInv, TypeOK
<1>2. degree[t] \in Nat
  <2>1. degree[t] = Cardinality(Neighbors(t) \ removed)
    BY DEF BriggsInv
  <2>2. Cardinality(Neighbors(t) \ removed) \in Nat
    BY <1>1, FiniteNeighbors
  <2> QED BY <2>1, <2>2
<1>3. start[t] \in Nat /\ end[t] \in Nat /\ start[t] <= end[t]
  BY <1>1 DEF IInv, TypeOK, Proper
<1> QED BY <1>1, <1>2, <1>3 DEF Length

-----------------------------------------------------------------------------
(* A set of numbers has a least one.                                       *)
LEMMA Least ==
  ASSUME NEW M \in SUBSET Nat, M # {}
  PROVE  \E m \in M : \A k \in M : m <= k
<1> DEFINE R == OpToRel(<, Nat)
<1>1. PICK m \in M : \A k \in M : <<k, m>> \notin R
  <2> HIDE DEF R
  <2>1. IsWellFoundedOn(R, Nat)
    BY NatLessThanWellFounded DEF R
  <2> QED
    BY <2>1, WFMin
<1>2. \A k \in M : ~(k < m)
  BY <1>1 DEF OpToRel
<1> QED
  BY <1>2

(* Induction up to L, for the set of numbers that have some property. *)
LEMMA StepByStep ==
  ASSUME NEW L \in Nat, NEW H \in SUBSET (0 .. L), 0 \in H,
         \A n \in 0 .. L : n \in H /\ n < L => n + 1 \in H
  PROVE  H = 0 .. L
<1> DEFINE M == (0 .. L) \ H
<1> SUFFICES ASSUME M # {} PROVE FALSE
  OBVIOUS
<1>1. PICK m \in M : \A k \in M : m <= k
  <2>1. M \in SUBSET Nat
    OBVIOUS
  <2> HIDE DEF M
  <2> QED
    BY <2>1, Least
<1>2. m \in 1 .. L
  BY <1>1
<1>3. m - 1 \in 0 .. L /\ m - 1 < L /\ m - 1 + 1 = m /\ ~(m <= m - 1)
  BY <1>2
<1>4. m - 1 \in H
  BY <1>1, <1>3
<1>5. m \in H
  BY <1>3, <1>4
<1> QED
  BY <1>1, <1>5

(* f goes from a through L steps, of which n is given by G with n. *)
Follows(f, A, a, G, L) ==
  f \in [0 .. L -> A] /\ f[0] = a /\ \A n \in 1 .. L : f[n] = G[<<n, f[n - 1]>>]

(* Whatever the steps are, there is such an f.                             *)
LEMMA Recursion ==
  ASSUME NEW A, NEW a \in A, NEW L \in Nat, NEW G \in [(1 .. L) \X A -> A]
  PROVE  \E f : Follows(f, A, a, G, L)
<1> DEFINE H == {n \in 0 .. L : \E f : Follows(f, A, a, G, n)}
<1>1. 0 \in H
  <2> DEFINE f == [i \in 0 .. 0 |-> a]
  <2>1. f \in [0 .. 0 -> A] /\ f[0] = a /\ \A i \in 1 .. 0 : f[i] = G[<<i, f[i - 1]>>]
    OBVIOUS
  <2> HIDE DEF f
  <2>2. Follows(f, A, a, G, 0)
    BY <2>1 DEF Follows
  <2> QED
    BY <2>2
<1>2. ASSUME NEW n \in 0 .. L, n \in H, n < L PROVE n + 1 \in H
  <2>1. PICK f : Follows(f, A, a, G, n)
    BY <1>2
  <2>2. f \in [0 .. n -> A] /\ f[0] = a /\ \A i \in 1 .. n : f[i] = G[<<i, f[i - 1]>>]
    BY <2>1 DEF Follows
  <2> DEFINE g == [i \in 0 .. (n + 1) |-> IF i = n + 1 THEN G[<<n + 1, f[n]>>] ELSE f[i]]
  <2>3. n \in Nat /\ n + 1 \in 1 .. L /\ n + 1 \in 0 .. L /\ f[n] \in A
    BY <1>2, <2>2
  <2>4. G[<<n + 1, f[n]>>] \in A
    BY <2>3
  <2>5. g \in [0 .. (n + 1) -> A]
    BY <2>2, <2>3, <2>4
  <2>6. g[0] = a
    BY <2>2, <2>3
  <2>7. ASSUME NEW i \in 1 .. (n + 1) PROVE g[i] = G[<<i, g[i - 1]>>]
    <3>1. CASE i = n + 1
      <4>1. i - 1 = n /\ g[i - 1] = f[n] /\ g[i] = G[<<n + 1, f[n]>>]
        BY <2>3, <3>1
      <4> QED
        BY <3>1, <4>1
    <3>2. CASE i # n + 1
      <4>1. i \in 1 .. n /\ i - 1 \in 0 .. n /\ i - 1 # n + 1
        BY <2>3, <3>2
      <4>2. g[i] = f[i] /\ g[i - 1] = f[i - 1]
        BY <2>3, <3>2, <4>1
      <4> QED
        BY <2>2, <4>1, <4>2
    <3> QED
      BY <3>1, <3>2
  <2> HIDE DEF g
  <2>8. Follows(g, A, a, G, n + 1)
    BY <2>5, <2>6, <2>7 DEF Follows
  <2> QED
    BY <2>3, <2>8
<1>3. L \in H
  <2>1. H \in SUBSET (0 .. L)
    OBVIOUS
  <2> HIDE DEF H
  <2>2. H = 0 .. L
    BY <1>1, <1>2, <2>1, StepByStep
  <2> QED
    BY <2>2
<1> QED
  BY <1>3

(* To be spilled before another is a total order.                          *)
LEMMA SpillOrder ==
  ASSUME IInv, BriggsInv, Proper, phase = "simplify", NEW t \in Left, NEW u \in Left, NEW v \in Left
  PROVE  /\ SpilledBefore(t, t)
         /\ SpilledBefore(t, u) \/ SpilledBefore(u, t)
         /\ SpilledBefore(t, u) /\ SpilledBefore(u, v) => SpilledBefore(t, v)
<1> DEFINE dt == degree[t]  du == degree[u]  dv == degree[v]
           lt == Length(t)  lu == Length(u)  lv == Length(v)
<1>1. /\ dt \in Nat /\ du \in Nat /\ dv \in Nat
      /\ lt \in Nat \ {0} /\ lu \in Nat \ {0} /\ lv \in Nat \ {0}
      /\ t \in Nat /\ u \in Nat /\ v \in Nat
  BY LeftFacts
<1>2. /\ SpilledBefore(t, u) <=> dt * lu > du * lt \/ (dt * lu = du * lt /\ t <= u)
      /\ SpilledBefore(u, t) <=> du * lt > dt * lu \/ (du * lt = dt * lu /\ u <= t)
      /\ SpilledBefore(u, v) <=> du * lv > dv * lu \/ (du * lv = dv * lu /\ u <= v)
      /\ SpilledBefore(t, v) <=> dt * lv > dv * lt \/ (dt * lv = dv * lt /\ t <= v)
      /\ SpilledBefore(t, t)
  BY <1>1 DEF SpilledBefore
<1> HIDE DEF dt, du, dv, lt, lu, lv
<1>3. /\ dt * lu \in Int /\ du * lt \in Int /\ du * lv \in Int
      /\ dv * lu \in Int /\ dt * lv \in Int /\ dv * lt \in Int
  BY <1>1
<1>4. SpilledBefore(t, u) \/ SpilledBefore(u, t)
  BY <1>1, <1>2, <1>3
<1>5. ASSUME SpilledBefore(t, u), SpilledBefore(u, v) PROVE SpilledBefore(t, v)
  <2>1. dt * lu >= du * lt /\ du * lv >= dv * lu
    BY <1>2, <1>3, <1>5
  <2>2. /\ dt * lv >= dv * lt
        /\ dt * lu > du * lt \/ du * lv > dv * lu => dt * lv > dv * lt
    BY <1>1, <2>1, FractionsOrdered
  <2>3. dt * lu > du * lt \/ du * lv > dv * lu \/ t <= v
    BY <1>1, <1>2, <1>3, <1>5
  <2> QED BY <1>2, <1>3, <2>2, <2>3
<1> QED BY <1>2, <1>4, <1>5

(* One turn of the loop keeps the better of two candidates.                *)
Held(t) == [target |-> t, num |-> degree[t], den |-> Length(t)]

LEMMA BetterIsKept ==
  ASSUME IInv, BriggsInv, Proper, phase = "simplify", NEW t \in Left, NEW u \in Left
  PROVE  /\ Candidate(NoTarget, u) = Held(u)
         /\ Candidate(Held(t), u) = IF SpilledBefore(t, u) THEN Held(t) ELSE Held(u)
<1> DEFINE dt == degree[t]  du == degree[u]  lt == Length(t)  lu == Length(u)
<1>1. /\ dt \in Nat /\ du \in Nat /\ lt \in Nat \ {0} /\ lu \in Nat \ {0}
      /\ t \in Nat \ {0} /\ u \in Nat \ {0}
  BY LeftFacts
<1>2. Candidate(NoTarget, u) = Held(u)
  BY DEF Candidate, NoTarget, Held
<1>3. Candidate(Held(t), u) =
        IF dt = -1 \/ du * lt > dt * lu \/ (du * lt = dt * lu /\ (t = 0 \/ u < t)) THEN Held(u) ELSE Held(t)
  BY DEF Candidate, Held
<1>4. SpilledBefore(t, u) <=> dt * lu > du * lt \/ (dt * lu = du * lt /\ t <= u)
  BY DEF SpilledBefore
<1> HIDE DEF dt, du, lt, lu
<1>5. dt * lu \in Int /\ du * lt \in Int
  BY <1>1
<1>6. CASE t = u
  <2>1. Held(t) = Held(u)
    BY <1>6
  <2> QED BY <1>2, <1>3, <2>1
<1>7. CASE t # u
  BY <1>1, <1>2, <1>3, <1>4, <1>5, <1>7
<1> QED BY <1>6, <1>7

(* The scan ends with the first of all that are left, whatever the order   *)
(* of the array.                                                           *)
LEMMA ScanFindsFirst ==
  ASSUME IInv, BriggsInv, Proper, phase = "simplify", NEW order \in Orders, Left # {}
  PROVE  LET t == SpillScan(order) IN t \in Left /\ \A u \in Left : SpilledBefore(t, u)
<1> DEFINE n == Len(order)
           A == {NoTarget} \cup {Held(t) : t \in Left}
           One(k, c) == Candidate(c, order[k])
           G == [p \in (1 .. n) \X A |-> One(p[1], p[2])]
           best[k \in 0 .. n] == IF k = 0 THEN NoTarget ELSE Candidate(best[k - 1], order[k])
<1>1. /\ n \in Nat /\ n > 0 /\ \A i \in 1 .. n : order[i] \in Left
      /\ \A u \in Left : \E i \in 1 .. n : order[i] = u
  <2>1. IsFiniteSet(Left) /\ Cardinality(Left) \in Nat
    BY FS_Subset, FS_CardinalityType DEF IInv, GraphInv, Left
  <2>2. order \in [1 .. Cardinality(Left) -> Left] /\ \A t \in Left : \E i \in DOMAIN order : order[i] = t
    BY DEF Orders
  <2>3. n = Cardinality(Left) /\ DOMAIN order = 1 .. n
    BY <2>1, <2>2
  <2> QED BY <2>1, <2>2, <2>3
<1>2. SpillScan(order) = best[n].target
  BY DEF SpillScan
<1> HIDE DEF n
<1>3. \A k \in 1 .. n : One(k, NoTarget) \in A /\ \A t \in Left : One(k, Held(t)) \in A
  BY <1>1, BetterIsKept
<1>4. G \in [(1 .. n) \X A -> A] /\ NoTarget \in A
  <2>1. \A k \in 1 .. n : \A c \in A : One(k, c) \in A
    BY <1>3
  <2> HIDE DEF One
  <2> QED BY <2>1
<1>5. best[0] = NoTarget /\ \A k \in 1 .. n : best[k] = One(k, best[k - 1])
  <2>1. PICK f : Follows(f, A, NoTarget, G, n)
    <3> HIDE DEF G, A
    <3> QED BY <1>1, <1>4, Recursion
  <2>2. f \in [0 .. n -> A] /\ f[0] = NoTarget /\ \A k \in 1 .. n : f[k] = G[<<k, f[k - 1]>>]
    BY <2>1 DEF Follows
  <2>3. \A k \in 1 .. n : k - 1 \in 0 .. n
    BY <1>1
  <2>4. \A k \in 1 .. n : f[k] = One(k, f[k - 1])
    <3> HIDE DEF One, A
    <3> QED BY <2>2, <2>3
  <2>5. f = [k \in 0 .. n |-> IF k = 0 THEN NoTarget ELSE One(k, f[k - 1])]
    <3> HIDE DEF One, A
    <3>1. \A k \in 0 .. n : f[k] = IF k = 0 THEN NoTarget ELSE One(k, f[k - 1])
      <4>1. \A k \in 0 .. n : k # 0 => k \in 1 .. n
        BY <1>1
      <4> QED BY <2>2, <2>4, <4>1
    <3> QED BY <2>2, <3>1
  <2>6. best = [k \in 0 .. n |-> IF k = 0 THEN NoTarget ELSE One(k, best[k - 1])]
    <3>1. f = [k \in 0 .. n |-> IF k = 0 THEN NoTarget ELSE Candidate(f[k - 1], order[k])]
      BY <2>5
    <3> QED BY <3>1
  <2> HIDE DEF best, One
  <2>7. 0 \in 0 .. n /\ \A k \in 1 .. n : k \in 0 .. n /\ k # 0
    BY <1>1
  <2> QED BY <2>6, <2>7
<1> HIDE DEF best
<1> DEFINE P(k) == \E t \in Left : /\ best[k] = Held(t)
                                   /\ \A i \in 1 .. k : SpilledBefore(t, order[i])
<1>6. P(1)
  <2>1. best[1] = Held(order[1])
    BY <1>1, <1>5, BetterIsKept
  <2> QED BY <1>1, <2>1, SpillOrder
<1>7. ASSUME NEW k \in 1 .. n, k < n, P(k) PROVE P(k + 1)
  <2>1. PICK t \in Left : best[k] = Held(t) /\ \A i \in 1 .. k : SpilledBefore(t, order[i])
    BY <1>7
  <2> DEFINE u == order[k + 1]
  <2>2. k + 1 \in 1 .. n /\ u \in Left /\ best[k + 1] = Candidate(best[k], u)
    <3>1. k + 1 \in 1 .. n /\ k + 1 - 1 = k
      BY <1>1, <1>7
    <3> QED BY <1>1, <1>5, <3>1
  <2> HIDE DEF u
  <2>3. best[k + 1] = IF SpilledBefore(t, u) THEN Held(t) ELSE Held(u)
    BY <2>1, <2>2, BetterIsKept
  <2>4. \A i \in 1 .. k + 1 : i \in 1 .. k \/ (i = k + 1 /\ order[i] = u)
    BY <1>7 DEF u
  <2>5. CASE SpilledBefore(t, u)
    <3>1. \A i \in 1 .. k + 1 : SpilledBefore(t, order[i])
      BY <2>1, <2>4, <2>5
    <3> QED BY <2>3, <2>5, <3>1
  <2>6. CASE ~SpilledBefore(t, u)
    <3>1. SpilledBefore(u, t) /\ SpilledBefore(u, u)
      BY <2>2, <2>6, SpillOrder
    <3>2. \A i \in 1 .. k : order[i] \in Left /\ SpilledBefore(u, order[i])
      <4>1. \A i \in 1 .. k : order[i] \in Left
        BY <1>1, <1>7
      <4> QED BY <2>1, <2>2, <3>1, <4>1, SpillOrder
    <3>3. \A i \in 1 .. k + 1 : SpilledBefore(u, order[i])
      BY <2>4, <3>1, <3>2
    <3> QED BY <2>2, <2>3, <2>6, <3>3
  <2> QED BY <2>5, <2>6
<1>8. P(n)
  <2> DEFINE H == {k \in 0 .. n : k = 0 \/ P(k)}
  <2>1. 0 \in H /\ H \in SUBSET (0 .. n)
    BY <1>1
  <2>2. \A k \in 0 .. n : k \in H /\ k < n => k + 1 \in H
    <3> SUFFICES ASSUME NEW k \in 0 .. n, k = 0 \/ P(k), k < n PROVE k + 1 \in 0 .. n /\ P(k + 1)
      OBVIOUS
    <3>1. k + 1 \in 0 .. n
      BY <1>1
    <3>2. CASE k = 0
      <4>1. k + 1 = 1
        BY <3>2
      <4> HIDE DEF P
      <4> QED BY <1>6, <3>1, <4>1
    <3>3. CASE k # 0
      <4> HIDE DEF P
      <4>1. k \in 1 .. n
        BY <3>3
      <4> QED BY <1>7, <3>1, <3>3, <4>1
    <3> QED BY <3>2, <3>3
  <2> HIDE DEF H
  <2>3. H = 0 .. n
    BY <1>1, <2>1, <2>2, StepByStep
  <2> HIDE DEF P
  <2>4. n \in 0 .. n
    BY <1>1
  <2> QED BY <1>1, <2>3, <2>4 DEF H
<1>9. PICK t \in Left : best[n] = Held(t) /\ \A i \in 1 .. n : SpilledBefore(t, order[i])
  BY <1>8
<1>10. best[n].target = t
  BY <1>9 DEF Held
<1> QED BY <1>1, <1>2, <1>9, <1>10

(* The spill candidate is the same for every order of the interval array.  *)
THEOREM SpillChoiceCanonical == Spec => []SpillChoiceIsCanonical
<1>1. Init => BriggsInv
  BY DEF Init, BriggsInv
<1>2. IInv /\ BriggsInv /\ Proper => SpillChoiceIsCanonical
  BY ScanFindsFirst DEF SpillChoiceIsCanonical
<1> QED BY <1>1, <1>2, NextBriggs, IntervalsProper, Invariant, PTL DEF Spec
=============================================================================
