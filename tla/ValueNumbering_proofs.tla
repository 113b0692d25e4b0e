----------------------- MODULE ValueNumbering_proofs -----------------------
(***************************************************************************)
(* What TLAPS proves of modules Dominance and ValueNumbering for every     *)
(* function and for all sizes of the arrays.                               *)
(*                                                                         *)
(* Dominance.  The relation is defined by sets closed under the edges      *)
(* instead of paths, so no induction over paths is needed.  One half of    *)
(* DominatorsExact (Complete) holds in every state of the iteration: a set *)
(* never loses a real dominator.  The other half holds once a sweep has    *)
(* changed nothing: then every set satisfies its equation (Settled), and   *)
(* the blocks whose set lacks d are closed without d.  That the immediate  *)
(* dominator is the closest one follows from the chain that the dominators *)
(* of a block form.  That a dominator has been executed goes through       *)
(* BlockAt, the block a node lies in: the nodes that a run can reach around *)
(* a node lie in blocks that a closed set holds (NoWayAround).             *)
(*                                                                         *)
(* Value numbering.  GvnInv says what the walk over the tree is: the       *)
(* activations are a path from the entry (OnPath) and none of them hangs   *)
(* below a block still to be visited (Apart).  On it rest the table        *)
(* (TableInv), the copies (CopyInv) and that none is missed (CompleteInv). *)
(* That the passes end is shown by a tuple of numbers (Left) that every    *)
(* step lowers in the lexicographic order.                                 *)
(*                                                                         *)
(* An induction over numbers or cardinalities takes a least counterexample *)
(* (lemma Least).                                                          *)
(***************************************************************************)
EXTENDS ValueNumbering, FiniteSetTheorems, WellFoundedInduction, TLAPS

\* The blocks and sets are there from the wiring on.
Wired == phase \in {"sweep", "tree"} \/ (phase = "done" /\ blockCount # 0)

Shape ==
    /\ code \in Seq(Node) /\ Len(code) > 0
    /\ phase \in {"cut", "wire", "sweep", "tree", "done"}
    /\ blockCount \in 0 .. MaxBlocks
    /\ phase = "cut" => blockCount = 0
    /\ phase \in {"wire", "sweep", "tree"} => blockCount # 0
    /\ at \in 1 .. (MaxBlocks + 1)
    /\ phase = "sweep" => at <= blockCount
    /\ changed \in BOOLEAN
    /\ Wired => /\ dom \in [Blocks -> SUBSET Blocks]
                /\ pred \in [Blocks -> SUBSET Blocks]

\* No set has lost a real dominator; the entry has only itself.
Complete ==
    Wired => /\ dom[0] = {0}
             /\ \A b \in Blocks : b \in dom[b]
             /\ \A d \in Blocks : \A S \in SUBSET Blocks :
                    ClosedWithout(S, d) => \A b \in Blocks \ S : d \in dom[b]

\* What has been visited in a sweep without changes satisfies its equation.
Settled ==
    /\ phase = "sweep" /\ ~changed => \A b \in 1 .. (at - 1) : dom[b] = NewDom(b)
    /\ Wired /\ phase # "sweep" => \A b \in Blocks \ {0} : dom[b] = NewDom(b)

IInv == Shape /\ Complete /\ Settled

-----------------------------------------------------------------------------
\* The number of labels is a number, and the head of the list opens a block.
LEMMA HeadCountType ==
    ASSUME code \in Seq(Node), Len(code) > 0
    PROVE  HeadCount \in Nat /\ HeadCount > 0
<1> DEFINE H == {h \in 1 .. Len(code) : Opens(h)}
<1>1. Len(code) \in Nat
    OBVIOUS
<1>2. IsFiniteSet(1 .. Len(code))
    BY <1>1, FS_Interval
<1>3. IsFiniteSet(H)
    BY <1>2, FS_Subset
<1>4. 1 \in H
    BY <1>1 DEF Opens
<1>5. Cardinality(H) \in Nat /\ Cardinality(H) # 0
    <2>1. Cardinality(H) \in Nat
        BY <1>3, FS_CardinalityType
    <2>2. Cardinality(H) # 0
        BY <1>3, <1>4, FS_EmptySet
    <2> QED BY <2>1, <2>2
<1>6. HeadCount = Cardinality(H)
    <2>1. Len(code) + 1 - 1 = Len(code)
        BY <1>1
    <2> QED BY <2>1 DEF HeadCount, HeadsBefore
<1> HIDE DEF H
<1> QED BY <1>5, <1>6

LEMMA InitShape == Init => IInv
<1> SUFFICES ASSUME Init PROVE IInv
    OBVIOUS
<1>1. code \in Seq(Node) /\ code # << >>
    BY ProgramsAreNodeLists DEF Init
<1>2. Len(code) > 0
    BY <1>1
<1>3. phase = "cut" /\ blockCount = 0 /\ at = 1 /\ changed = FALSE
    BY DEF Init
<1>4. ~Wired
    BY <1>3 DEF Wired
<1>5. Shape
    <2>1. 0 \in 0 .. MaxBlocks /\ 1 \in 1 .. (MaxBlocks + 1) /\ FALSE \in BOOLEAN
        BY LimitsArePositive
    <2> QED BY <1>1, <1>2, <1>3, <1>4, <2>1 DEF Shape
<1>6. Complete
    BY <1>4 DEF Complete
<1>7. Settled
    BY <1>3, <1>4 DEF Settled
<1> QED BY <1>5, <1>6, <1>7 DEF IInv

-----------------------------------------------------------------------------
LEMMA NewDomType ==
    ASSUME NEW b \in Blocks PROVE NewDom(b) \in SUBSET Blocks
BY DEF NewDom

\* A visit keeps the real dominators: a block that a closed set leaves out is
\* no root, and its predecessors are left out too.
LEMMA NewDomComplete ==
    ASSUME Shape, Complete, Wired,
           NEW x \in Blocks \ {0}, NEW d \in Blocks, NEW S \in SUBSET Blocks,
           ClosedWithout(S, d), x \notin S
    PROVE  d \in NewDom(x)
<1>1. CASE d = x
    BY <1>1 DEF NewDom
<1>2. CASE d # x
    <2>1. x \notin Roots
        BY <1>2 DEF ClosedWithout
    <2>2. pred[x] # {}
        BY <2>1 DEF Roots
    <2>3. pred[x] \cap S = {}
        BY <1>2 DEF ClosedWithout
    <2>4. pred[x] \subseteq Blocks
        BY DEF Shape
    <2>5. \A p \in pred[x] : d \in dom[p]
        BY <2>3, <2>4 DEF Complete
    <2> QED BY <2>2, <2>5 DEF NewDom
<1> QED BY <1>1, <1>2

LEMMA VisitStep == IInv /\ Visit => IInv'
<1> SUFFICES ASSUME IInv, Visit PROVE IInv'
    OBVIOUS
<1> USE DEF IInv
<1>1. Wired /\ Wired' /\ phase = "sweep" /\ phase' = "sweep"
    BY DEF Visit, Wired
<1>2. Blocks' = Blocks /\ pred' = pred /\ blockCount' = blockCount /\ code' = code
    BY DEF Visit, Blocks
<1>3. at \in Blocks \ {0} /\ at \in Nat /\ blockCount \in Nat
    BY LimitsArePositive DEF Visit, Blocks, Shape
<1>4. dom \in [Blocks -> SUBSET Blocks]
    BY <1>1 DEF Shape
<1>5. NewDom(at) \in SUBSET Blocks
    BY <1>3, NewDomType
<1>6. dom' = [dom EXCEPT ![at] = NewDom(at)]
    BY DEF Visit
<1>7. dom' \in [Blocks -> SUBSET Blocks]
    BY <1>3, <1>4, <1>5, <1>6
<1>8. Shape'
    <2>1. at' = at + 1 /\ at < blockCount /\ blockCount \in 0 .. MaxBlocks
        BY DEF Visit, Shape
    <2>2. at' \in 1 .. (MaxBlocks + 1) /\ at' <= blockCount
        BY <2>1, <1>3, LimitsArePositive
    <2>3. changed' \in BOOLEAN
        BY DEF Visit
    <2> QED BY <1>1, <1>2, <1>7, <2>2, <2>3 DEF Shape
<1>9. Complete'
    <2>1. dom'[0] = {0}
        BY <1>1, <1>3, <1>4, <1>6 DEF Complete, Blocks
    <2>2. \A b \in Blocks : b \in dom'[b]
        BY <1>1, <1>3, <1>4, <1>6 DEF Complete, NewDom
    <2>3. ASSUME NEW d \in Blocks, NEW S \in SUBSET Blocks, ClosedWithout(S, d),
                 NEW b \in Blocks \ S
          PROVE  d \in dom'[b]
        <3>1. CASE b = at
            BY <3>1, <2>3, <1>1, <1>3, <1>4, <1>6, NewDomComplete
        <3>2. CASE b # at
            BY <3>2, <2>3, <1>1, <1>4, <1>6 DEF Complete
        <3> QED BY <3>1, <3>2
    <2>4. \A S, d : ClosedWithout(S, d)' <=> ClosedWithout(S, d)
        BY <1>2 DEF ClosedWithout, Roots
    <2>5. \A d \in Blocks : \A S \in SUBSET Blocks :
              ClosedWithout(S, d)' => \A b \in Blocks \ S : d \in dom'[b]
        BY <2>3, <2>4
    <2> QED BY <1>2, <2>1, <2>2, <2>5 DEF Complete
<1>10. Settled'
    <2>1. SUFFICES ASSUME ~changed', NEW b \in 1 .. (at' - 1)
                   PROVE  dom'[b] = NewDom(b)'
        BY <1>1 DEF Settled
    <2>2. ~changed /\ NewDom(at) = dom[at]
        BY <2>1 DEF Visit
    <2>3. dom' = dom
        BY <2>2, <1>4, <1>6
    <2>4. NewDom(b)' = NewDom(b)
        BY <2>3, <1>2 DEF NewDom
    <2>5. b \in 1 .. (at - 1) \/ b = at
        BY <1>3 DEF Visit
    <2> QED BY <1>1, <2>2, <2>3, <2>4, <2>5 DEF Settled
<1> QED BY <1>8, <1>9, <1>10

LEMMA WireStep == IInv /\ Wire => IInv'
<1> SUFFICES ASSUME IInv, Wire PROVE IInv'
    OBVIOUS
<1> USE DEF IInv
<1>1. phase' = "sweep" /\ at' = 1 /\ changed' = FALSE /\ blockCount' = blockCount
      /\ code' = code /\ blockCount # 0 /\ blockCount \in 0 .. MaxBlocks
    BY DEF Wire, Shape
<1>2. Blocks' = Blocks /\ 0 \in Blocks /\ blockCount \in Nat /\ blockCount >= 1
    BY <1>1, LimitsArePositive DEF Blocks
<1>3. dom' = [b \in Blocks |-> IF b = 0 THEN {0} ELSE Blocks]
    BY DEF Wire
<1>4. pred' \in [Blocks -> SUBSET Blocks]
    BY DEF Wire, Kept
<1>5. dom' \in [Blocks -> SUBSET Blocks]
    BY <1>2, <1>3
<1>6. Wired'
    BY <1>1 DEF Wired
<1>7. Shape'
    BY <1>1, <1>2, <1>4, <1>5, LimitsArePositive DEF Shape
<1>8. Complete'
    <2>1. dom'[0] = {0} /\ \A b \in Blocks : b \in dom'[b]
        BY <1>2, <1>3
    <2>2. ASSUME NEW d \in Blocks, NEW S \in SUBSET Blocks, ClosedWithout(S, d)',
                 NEW b \in Blocks \ S
          PROVE  d \in dom'[b]
        <3>1. CASE b = 0
            <4>1. 0 \in Roots'
                BY <1>2 DEF Roots
            <4>2. d = 0
                BY <4>1, <2>2, <3>1 DEF ClosedWithout
            <4> QED BY <4>2, <3>1, <2>1
        <3>2. CASE b # 0
            BY <3>2, <1>3
        <3> QED BY <3>1, <3>2
    <2> QED BY <2>1, <2>2, <1>2 DEF Complete
<1>9. Settled'
    <2>1. 1 .. (at' - 1) = {}
        BY <1>1
    <2> QED BY <1>1, <2>1 DEF Settled
<1> QED BY <1>7, <1>8, <1>9

\* A step that leaves the sets and the edges alone keeps what is known of them.
LEMMA SameSets ==
    ASSUME Complete, Wired, Wired',
           UNCHANGED <<blockCount, pred, dom>>
    PROVE  Complete'
<1>1. Blocks' = Blocks /\ Roots' = Roots
    BY DEF Blocks, Roots
<1>2. \A S, d : ClosedWithout(S, d)' <=> ClosedWithout(S, d)
    BY <1>1 DEF ClosedWithout
<1> QED BY <1>1, <1>2 DEF Complete

LEMMA Step == IInv /\ [Next]_vars => IInv'
<1> SUFFICES ASSUME IInv, [Next]_vars PROVE IInv'
    OBVIOUS
<1> USE DEF IInv
<1>1. CASE Partition
    <2>1. HeadCount \in Nat /\ HeadCount > 0
        BY HeadCountType DEF Shape
    <2>2. blockCount' \in 0 .. MaxBlocks /\ blockCount' # 0
        BY <1>1, <2>1, LimitsArePositive DEF Partition
    <2>3. ~Wired' /\ phase' = "wire"
        BY <1>1 DEF Partition, Wired
    <2>4. Shape'
        BY <1>1, <2>2, <2>3 DEF Partition, Shape
    <2> QED BY <2>3, <2>4 DEF Complete, Settled
<1>2. CASE TooManyBlocks
    <2>1. ~Wired' /\ phase' = "done" /\ blockCount' = 0
        BY <1>2 DEF TooManyBlocks, Wired, Shape
    <2>2. Shape'
        BY <1>2, <2>1, LimitsArePositive DEF TooManyBlocks, Shape
    <2> QED BY <2>1, <2>2 DEF Complete, Settled
<1>3. CASE Wire
    BY <1>3, WireStep
<1>4. CASE Visit
    BY <1>4, VisitStep
<1>5. CASE SweepAgain
    <2>1. Wired /\ Wired' /\ phase' = "sweep" /\ at' = 1
        BY <1>5 DEF SweepAgain, Wired
    <2>2. UNCHANGED <<blockCount, pred, dom>> /\ Blocks' = Blocks
        BY <1>5 DEF SweepAgain, Blocks
    <2>3. Shape'
        <3>1. 1 <= blockCount /\ 1 \in 1 .. (MaxBlocks + 1)
            BY <1>5, LimitsArePositive DEF Shape, SweepAgain
        <3> QED BY <1>5, <2>1, <2>2, <3>1 DEF SweepAgain, Shape
    <2>4. 1 .. (at' - 1) = {}
        BY <2>1
    <2>5. Settled'
        BY <2>1, <2>4 DEF Settled
    <2> QED BY <2>1, <2>2, <2>3, <2>5, SameSets
<1>6. CASE ExtractIdom
    <2>1. Wired /\ Wired' /\ phase = "sweep" /\ phase' = "tree" /\ ~changed /\ at = blockCount
        BY <1>6 DEF ExtractIdom, Wired
    <2>2. UNCHANGED <<blockCount, pred, dom, at, changed, code>> /\ Blocks' = Blocks
        BY <1>6 DEF ExtractIdom, Blocks
    <2>3. Shape'
        BY <2>1, <2>2 DEF Shape
    <2>4. Settled'
        <3>1. \A b \in Blocks \ {0} : b \in 1 .. (at - 1)
            BY <2>1, LimitsArePositive DEF Blocks, Shape
        <3>2. \A b \in Blocks \ {0} : dom[b] = NewDom(b)
            BY <3>1, <2>1 DEF Settled
        <3>3. \A b : NewDom(b)' = NewDom(b)
            BY <2>2 DEF NewDom
        <3> QED BY <2>1, <2>2, <3>2, <3>3 DEF Settled
    <2> QED BY <2>1, <2>2, <2>3, <2>4, SameSets
<1>7. CASE BuildTree
    <2>1. Wired /\ phase = "tree" /\ phase' = "done"
        BY <1>7 DEF BuildTree, Wired
    <2>2. UNCHANGED <<blockCount, pred, dom, at, changed, code>> /\ Blocks' = Blocks
        BY <1>7 DEF BuildTree, Blocks
    <2>3. Wired'
        BY <2>1, <2>2 DEF Wired, Shape
    <2>4. Shape'
        BY <2>1, <2>2, <2>3 DEF Shape
    <2>5. Settled'
        <3>1. \A b : NewDom(b)' = NewDom(b)
            BY <2>2 DEF NewDom
        <3> QED BY <2>1, <2>2, <2>3, <3>1 DEF Settled
    <2> QED BY <2>1, <2>2, <2>3, <2>4, <2>5, SameSets
<1>8. CASE UNCHANGED vars
    <2>1. UNCHANGED <<blockCount, pred, dom, at, changed, code, phase>> /\ Blocks' = Blocks
        BY <1>8 DEF vars, Blocks
    <2>2. Wired' <=> Wired
        BY <2>1 DEF Wired
    <2>3. Shape'
        BY <2>1, <2>2 DEF Shape
    <2>4. \A b : NewDom(b)' = NewDom(b)
        BY <2>1 DEF NewDom
    <2>5. Settled'
        BY <2>1, <2>2, <2>4 DEF Settled
    <2>6. Complete'
        BY <2>1, <2>2, SameSets DEF Complete
    <2> QED BY <2>3, <2>5, <2>6
<1> QED
    BY <1>1, <1>2, <1>3, <1>4, <1>5, <1>6, <1>7, <1>8 DEF Next, Analyse, Finished

LEMMA Invariant == Spec => []IInv
BY InitShape, Step, PTL DEF Spec

-----------------------------------------------------------------------------
(* Every function, any limits: the variables of the pass stay within their *)
(* arrays.                                                                 *)
THEOREM TypeCorrect == Spec => []TypeOK
<1>1. IInv => TypeOK
    BY DEF IInv, Shape, TypeOK, Wired
<1> QED BY <1>1, Invariant, PTL

(* ir_dominance.c:264-312.  When the iteration stops, the set of a block   *)
(* is the set of its dominators.                                           *)
LEMMA FixedPointIsDominance ==
    ASSUME IInv, Wired, phase # "sweep", NEW b \in Blocks, NEW d \in Blocks
    PROVE  d \in dom[b] <=> Dominates(d, b)
<1>1. ASSUME Dominates(d, b) PROVE d \in dom[b]
    BY <1>1 DEF Dominates, IInv, Complete
<1>2. ASSUME d \in dom[b] PROVE Dominates(d, b)
    <2> DEFINE S == {x \in Blocks : d \notin dom[x]}
    <2>1. SUFFICES ASSUME d # b PROVE ClosedWithout(S, d)
        BY <1>2 DEF Dominates
    <2>2. dom[0] = {0} /\ \A x \in Blocks \ {0} : dom[x] = NewDom(x)
        BY DEF IInv, Complete, Settled
    <2>3. Roots \ {d} \subseteq S
        <3> SUFFICES ASSUME NEW x \in Roots, x # d PROVE x \in S
            OBVIOUS
        <3>1. CASE x = 0
            BY <3>1, <2>2 DEF Roots
        <3>2. CASE x # 0
            <4>1. dom[x] = NewDom(x) /\ pred[x] = {}
                BY <3>2, <2>2 DEF Roots
            <4>2. d \notin NewDom(x)
                BY <4>1 DEF NewDom
            <4> QED BY <4>1, <4>2 DEF Roots
        <3> QED BY <3>1, <3>2
    <2>4. ASSUME NEW x \in Blocks \ {d}, pred[x] \cap S # {} PROVE x \in S
        <3>1. CASE x = 0
            BY <3>1, <2>2
        <3>2. CASE x # 0
            <4>1. dom[x] = NewDom(x)
                BY <3>2, <2>2
            <4>2. d \notin NewDom(x)
                BY <2>4 DEF NewDom
            <4> QED BY <4>1, <4>2
        <3> QED BY <3>1, <3>2
    <2> QED BY <2>3, <2>4 DEF ClosedWithout
<1> QED BY <1>1, <1>2

THEOREM FixedPointExact == Spec => []DominatorsExact
<1>1. IInv => DominatorsExact
    <2> SUFFICES ASSUME IInv, Computed, NEW b \in Blocks, NEW d \in Blocks
                 PROVE  d \in dom[b] <=> Dominates(d, b)
        BY DEF DominatorsExact
    <2>1. Wired /\ phase # "sweep"
        BY DEF Computed, Wired, IInv, Shape
    <2> QED BY <2>1, FixedPointIsDominance
<1> QED BY <1>1, Invariant, PTL

-----------------------------------------------------------------------------
\* No set is smaller than its equation allows, so the next visit cannot add to it.
Descending == Wired => \A b \in Blocks \ {0} : NewDom(b) \subseteq dom[b]

LEMMA VisitShrinks ==
    ASSUME IInv, Descending, Visit
    PROVE  Blocks' = Blocks /\ \A b \in Blocks : dom'[b] \subseteq dom[b]
<1>1. Wired /\ Blocks' = Blocks /\ dom' = [dom EXCEPT ![at] = NewDom(at)]
    BY DEF Visit, Wired, Blocks
<1>2. at \in Blocks \ {0}
    BY LimitsArePositive DEF Visit, Blocks, IInv, Shape
<1>3. dom \in [Blocks -> SUBSET Blocks]
    BY <1>1 DEF IInv, Shape
<1> QED BY <1>1, <1>2, <1>3 DEF Descending

LEMMA DescendingStep == IInv /\ Descending /\ [Next]_vars => Descending'
<1> SUFFICES ASSUME IInv, Descending, [Next]_vars PROVE Descending'
    OBVIOUS
<1>1. CASE Visit
    <2>1. Wired /\ Blocks' = Blocks /\ pred' = pred /\ dom' = [dom EXCEPT ![at] = NewDom(at)]
        BY <1>1 DEF Visit, Wired, Blocks
    <2>2. \A b \in Blocks : dom'[b] \subseteq dom[b]
        BY <1>1, VisitShrinks
    <2>3. dom \in [Blocks -> SUBSET Blocks] /\ pred \in [Blocks -> SUBSET Blocks]
        BY <2>1 DEF IInv, Shape
    <2>4. ASSUME NEW b \in Blocks \ {0} PROVE NewDom(b)' \subseteq dom'[b]
        <3>1. NewDom(b)' \subseteq NewDom(b)
            BY <2>1, <2>2, <2>3 DEF NewDom
        <3>2. CASE b = at
            BY <3>1, <3>2, <2>1, <2>3
        <3>3. CASE b # at
            BY <3>1, <3>3, <2>1, <2>3 DEF Descending
        <3> QED BY <3>2, <3>3
    <2> QED BY <2>1, <2>4 DEF Descending
<1>2. CASE Wire
    <2>1. Blocks' = Blocks /\ dom' = [b \in Blocks |-> IF b = 0 THEN {0} ELSE Blocks]
        BY <1>2 DEF Wire, Blocks
    <2>2. ASSUME NEW b \in Blocks \ {0} PROVE NewDom(b)' \subseteq dom'[b]
        BY <2>1 DEF NewDom
    <2> QED BY <2>1, <2>2 DEF Descending
<1>3. CASE ~Wired'
    BY <1>3 DEF Descending
<1>4. CASE Wired' /\ Wired /\ UNCHANGED <<blockCount, pred, dom>>
    <2>1. Blocks' = Blocks /\ \A b : NewDom(b)' = NewDom(b)
        BY <1>4 DEF Blocks, NewDom
    <2> QED BY <1>4, <2>1 DEF Descending
<1>5. CASE Partition \/ TooManyBlocks
    BY <1>5, <1>3 DEF Partition, TooManyBlocks, Wired, IInv, Shape
<1>6. CASE SweepAgain \/ ExtractIdom \/ BuildTree \/ UNCHANGED vars
    <2>1. UNCHANGED <<blockCount, pred, dom>>
        BY <1>6 DEF SweepAgain, ExtractIdom, BuildTree, vars
    <2>2. Wired' => Wired
        BY <1>6 DEF SweepAgain, ExtractIdom, BuildTree, vars, Wired
    <2> QED BY <2>1, <2>2, <1>3, <1>4
<1> QED BY <1>1, <1>2, <1>5, <1>6 DEF Next, Analyse, Finished

(* ir_dominance.c:281-312.  A sweep only takes dominators away, so the     *)
(* iteration cannot go on longer than there is something to take away.     *)
THEOREM SweepsShrink == Spec => SetsShrink
<1>1. Init => Descending
    BY DEF Init, Descending, Wired
<1>2. IInv /\ Descending /\ [Next]_vars
        => [phase = "sweep" => \A b \in Blocks : dom'[b] \subseteq dom[b]]_vars
    <2> SUFFICES ASSUME IInv, Descending, [Next]_vars, phase = "sweep", NEW b \in Blocks
                 PROVE  dom'[b] \subseteq dom[b]
        OBVIOUS
    <2>1. CASE Visit
        BY <2>1, VisitShrinks
    <2>2. CASE ~Visit
        <3>1. dom' = dom
            BY <2>2 DEF Next, Analyse, Finished, Partition, TooManyBlocks, Wire,
                        SweepAgain, ExtractIdom, BuildTree, vars
        <3> QED BY <3>1
    <2> QED BY <2>1, <2>2
<1> QED BY <1>1, <1>2, Invariant, DescendingStep, PTL DEF Spec, SetsShrink

-----------------------------------------------------------------------------
(* The dominance relation, for any edges: it is transitive, and the        *)
(* dominators of a block that control can reach form a chain.              *)

LEMMA Transitive ==
    ASSUME NEW d, NEW c, NEW b, Dominates(d, c), Dominates(c, b)
    PROVE  Dominates(d, b)
<1>1. CASE d = c \/ c = b
    BY <1>1
<1>2. CASE d # c /\ c # b
    <2>1. PICK S \in SUBSET Blocks : ClosedWithout(S, d) /\ c \notin S
        BY <1>2 DEF Dominates
    <2>2. PICK T \in SUBSET Blocks : ClosedWithout(T, c) /\ b \notin T
        BY <1>2 DEF Dominates
    <2>3. Roots \ {d} \subseteq S \cap T
        BY <2>1, <2>2 DEF ClosedWithout
    <2>4. \A x \in Blocks \ {d} : pred[x] \cap (S \cap T) # {} => x \in S \cap T
        BY <2>1, <2>2 DEF ClosedWithout
    <2>5. ClosedWithout(S \cap T, d)
        BY <2>3, <2>4 DEF ClosedWithout
    <2> QED BY <2>2, <2>5 DEF Dominates
<1> QED BY <1>1, <1>2

LEMMA Chain ==
    ASSUME NEW c \in Blocks, NEW d \in Blocks, NEW b \in Blocks,
           Dominates(c, b), Dominates(d, b), c # b, d # b, ~Dominates(-1, b)
    PROVE  Dominates(c, d) \/ Dominates(d, c)
<1>1. PICK S \in SUBSET Blocks : ClosedWithout(S, c) /\ b \notin S
    BY DEF Dominates
<1>2. PICK T \in SUBSET Blocks : ClosedWithout(T, d) /\ b \notin T
    BY DEF Dominates
<1>3. SUFFICES ASSUME d \in S, c \in T PROVE FALSE
    BY <1>1, <1>2 DEF Dominates
<1>4. Roots \ {-1} \subseteq S \cup T
    BY <1>1, <1>2, <1>3 DEF ClosedWithout
<1>5. ASSUME NEW x \in Blocks \ {-1}, pred[x] \cap (S \cup T) # {} PROVE x \in S \cup T
    <2>1. CASE pred[x] \cap S # {}
        BY <2>1, <1>1, <1>3 DEF ClosedWithout
    <2>2. CASE pred[x] \cap T # {}
        BY <2>2, <1>2, <1>3 DEF ClosedWithout
    <2> QED BY <1>5, <2>1, <2>2
<1>6. ClosedWithout(S \cup T, -1)
    BY <1>4, <1>5 DEF ClosedWithout
<1> QED BY <1>1, <1>2, <1>6 DEF Dominates

-----------------------------------------------------------------------------
(* A set of numbers has a least member; a bounded one, by some measure, a  *)
(* member of the greatest measure.                                         *)
LEMMA Least ==
    ASSUME NEW M \in SUBSET Nat, M # {}
    PROVE  \E m \in M : \A k \in M : m <= k
<1> DEFINE R == OpToRel(<, Nat)
<1>1. PICK m \in M : \A k \in M : <<k, m>> \notin R
    <2> HIDE DEF R
    <2>1. IsWellFoundedOn(R, Nat)
        BY NatLessThanWellFounded DEF R
    <2> QED BY <2>1, WFMin
<1>2. \A k \in M : ~(k < m)
    BY <1>1 DEF OpToRel
<1> QED BY <1>2

LEMMA GreatestMeasure ==
    ASSUME NEW E, E # {}, NEW w, NEW bound \in Nat, \A e \in E : w[e] \in 0 .. bound
    PROVE  \E d \in E : \A e \in E : w[e] <= w[d]
<1> DEFINE M == {bound - w[e] : e \in E}
<1>1. M \in SUBSET Nat /\ M # {}
    OBVIOUS
<1>2. PICK m \in M : \A k \in M : m <= k
    <2> HIDE DEF M
    <2> QED BY <1>1, Least
<1>3. PICK d \in E : m = bound - w[d]
    BY <1>2
<1>4. ASSUME NEW e \in E PROVE w[e] <= w[d]
    <2>1. bound - w[d] <= bound - w[e]
        BY <1>2, <1>3
    <2>2. w[e] \in Nat /\ w[d] \in Nat
        OBVIOUS
    <2> QED BY <2>1, <2>2
<1> QED BY <1>4

(* What the search for the immediate dominator returns.                    *)
LEMMA ClosestFacts ==
    ASSUME Shape, Wired, NEW b \in Blocks, dom[b] \ {b} # {}
    PROVE  /\ Closest(b) \in dom[b] \ {b}
           /\ \A e \in dom[b] \ {b} : Cardinality(dom[e]) <= Cardinality(dom[Closest(b)])
<1> DEFINE others == dom[b] \ {b}
           w == [e \in others |-> Cardinality(dom[e])]
           First(d) == \A e \in others : \/ Cardinality(dom[d]) > Cardinality(dom[e])
                                         \/ Cardinality(dom[d]) = Cardinality(dom[e]) /\ d <= e
<1>1. dom \in [Blocks -> SUBSET Blocks] /\ blockCount \in Nat
    BY LimitsArePositive DEF Shape
<1>2. IsFiniteSet(Blocks) /\ Cardinality(Blocks) \in Nat
    BY <1>1, FS_Interval, FS_CardinalityType DEF Blocks
<1>3. ASSUME NEW e \in others PROVE w[e] \in 0 .. Cardinality(Blocks)
    <2>1. dom[e] \subseteq Blocks
        BY <1>1
    <2> QED BY <2>1, <1>2, FS_Subset, FS_CardinalityType
<1>4. PICK d \in others : \A e \in others : w[e] <= w[d]
    <2> HIDE DEF w, others
    <2>1. others # {}
        BY DEF others
    <2> QED BY <2>1, <1>2, <1>3, GreatestMeasure
<1> DEFINE best == {e \in others : w[e] = w[d]}
<1>5. best \in SUBSET Nat /\ best # {}
    BY <1>1 DEF Blocks
<1>6. PICK m \in best : \A k \in best : m <= k
    <2> HIDE DEF best
    <2> QED BY <1>5, Least
<1>7. First(m)
    <2> SUFFICES ASSUME NEW e \in others
                 PROVE  \/ w[m] > w[e]
                        \/ w[m] = w[e] /\ m <= e
        OBVIOUS
    <2>1. w[e] \in Nat /\ w[d] \in Nat /\ w[m] = w[d] /\ w[e] <= w[d]
        BY <1>2, <1>3, <1>4, <1>6
    <2>2. w[e] = w[d] => m <= e
        BY <1>6
    <2> QED BY <2>1, <2>2
<1>8. Closest(b) = CHOOSE c \in others : First(c)
    BY DEF Closest
<1>9. Closest(b) \in others /\ First(Closest(b))
    <2>1. m \in others
        OBVIOUS
    <2> HIDE DEF First, others
    <2> QED BY <1>7, <1>8, <2>1
<1>10. ASSUME NEW e \in others PROVE Cardinality(dom[e]) <= Cardinality(dom[Closest(b)])
    <2>1. \A x \in others : Cardinality(dom[x]) \in Nat
        BY <1>2, <1>3
    <2>2. First(Closest(b)) /\ Closest(b) \in others
        BY <1>9
    <2> HIDE DEF others, w, best
    <2>3. Cardinality(dom[Closest(b)]) \in Nat /\ Cardinality(dom[e]) \in Nat
        BY <2>1, <2>2
    <2> QED BY <2>2, <2>3
<1> QED BY <1>9, <1>10

\* What the pass has put into idom, from the moment it stops sweeping.
Picked ==
    Wired /\ phase # "sweep" =>
        idom = [b \in Blocks |-> IF b = 0 \/ dom[b] = {b} THEN -1 ELSE Closest(b)]

LEMMA PickedStep == IInv /\ Picked /\ [Next]_vars => Picked'
<1> SUFFICES ASSUME IInv, Picked, [Next]_vars, Wired', phase' # "sweep"
             PROVE  idom' = [b \in Blocks' |-> IF b = 0 \/ dom'[b] = {b} THEN -1 ELSE Closest(b)']
    BY DEF Picked
<1>1. CASE Partition \/ TooManyBlocks
    BY <1>1 DEF Partition, TooManyBlocks, Wired, IInv, Shape
<1>2. CASE Wire \/ Visit \/ SweepAgain
    BY <1>2 DEF Wire, Visit, SweepAgain
<1>3. CASE ExtractIdom
    <2>1. Blocks' = Blocks /\ dom' = dom /\ \A b : Closest(b)' = Closest(b)
        BY <1>3 DEF ExtractIdom, Blocks, Closest
    <2> QED BY <1>3, <2>1 DEF ExtractIdom
<1>4. CASE BuildTree \/ UNCHANGED vars
    <2>1. Blocks' = Blocks /\ dom' = dom /\ idom' = idom /\ \A b : Closest(b)' = Closest(b)
        BY <1>4 DEF BuildTree, vars, Blocks, Closest
    <2>2. Wired /\ phase # "sweep"
        BY <1>4 DEF BuildTree, vars, Wired, IInv, Shape
    <2> QED BY <2>1, <2>2 DEF Picked
<1> QED BY <1>1, <1>2, <1>3, <1>4 DEF Next, Analyse, Finished

LEMMA IdomPicked == Spec => []Picked
<1>1. Init => Picked
    BY DEF Init, Picked, Wired
<1> QED BY <1>1, PickedStep, Invariant, PTL DEF Spec

LEMMA PickedIsClosest ==
    ASSUME IInv, Picked, Wired, phase # "sweep",
           NEW b \in Blocks \ {0}, ~Dominates(-1, b), dom[b] # {b}
    PROVE  /\ idom[b] \in dom[b] \ {b}
           /\ \A d \in dom[b] \ {b} : Dominates(d, idom[b])
<1> DEFINE c == Closest(b)
<1>1. idom[b] = c
    BY DEF Picked
<1>2. Shape /\ b \in dom[b] /\ dom \in [Blocks -> SUBSET Blocks]
    BY DEF IInv, Complete, Shape
<1>3. c \in dom[b] \ {b} /\ \A e \in dom[b] \ {b} : Cardinality(dom[e]) <= Cardinality(dom[c])
    BY <1>2, ClosestFacts
<1> HIDE DEF c
<1>4. ASSUME NEW d \in dom[b] \ {b}, ~Dominates(d, c) PROVE FALSE
    <2>1. d \in Blocks /\ c \in Blocks
        BY <1>2, <1>3
    <2>2. Dominates(c, d)
        BY <1>3, <1>4, <2>1, Chain, FixedPointIsDominance
    <2>3. dom[c] \subseteq dom[d]
        <3> SUFFICES ASSUME NEW x \in dom[c] PROVE x \in dom[d]
            OBVIOUS
        <3>1. x \in Blocks
            BY <1>2, <2>1
        <3>2. Dominates(x, c)
            BY <3>1, <2>1, FixedPointIsDominance
        <3> QED BY <3>1, <3>2, <2>1, <2>2, Transitive, FixedPointIsDominance
    <2>4. d \in dom[d] /\ d \notin dom[c]
        BY <1>4, <2>1, FixedPointIsDominance DEF IInv, Complete
    <2>5. IsFiniteSet(dom[d])
        <3>1. IsFiniteSet(Blocks)
            BY FS_Interval, LimitsArePositive DEF Blocks, Shape, IInv
        <3> QED BY <3>1, <2>1, <1>2, FS_Subset
    <2>6. Cardinality(dom[c]) \in Nat /\ Cardinality(dom[d]) \in Nat
          /\ Cardinality(dom[c]) < Cardinality(dom[d])
        BY <2>3, <2>4, <2>5, FS_Subset, FS_CardinalityType
    <2> QED BY <1>3, <1>4, <2>6
<1> QED BY <1>1, <1>3, <1>4

(* ir_dominance.c:314-338.  The immediate dominator of a block that the    *)
(* graph leads to is the one that all its other dominators dominate: its   *)
(* dominators form a chain, and the dominators of the members of a chain   *)
(* are fewer the higher up it stands.                                      *)
THEOREM ImmediateDominatorClosest == Spec => []ImmediateIsClosest
<1>1. IInv /\ Picked => ImmediateIsClosest
    <2> SUFFICES ASSUME IInv, Picked, Computed, NEW b \in Blocks \ {0}, ~Dominates(-1, b)
                 PROVE  IF dom[b] = {b} THEN idom[b] = -1
                        ELSE /\ idom[b] \in dom[b] \ {b}
                             /\ \A d \in dom[b] \ {b} : Dominates(d, idom[b])
        BY DEF ImmediateIsClosest
    <2>1. Wired /\ phase # "sweep"
        BY DEF Computed, Wired
    <2>2. CASE dom[b] = {b}
        BY <2>1, <2>2 DEF Picked
    <2>3. CASE dom[b] # {b}
        BY <2>1, <2>3, PickedIsClosest
    <2> QED BY <2>2, <2>3
<1> QED BY <1>1, Invariant, IdomPicked, PTL

-----------------------------------------------------------------------------
(* The blocks cover the list: node k stands in the block of the last head  *)
(* up to k.                                                                *)
BlockAt(k) == HeadsBefore(k + 1) - 1
LastOf(b) == IF b = HeadCount - 1 THEN Len(code) ELSE BlockHead(b + 1) - 1

CodeOK == code \in Seq(Node) /\ Len(code) > 0

LEMMA HeadsFinite ==
    ASSUME CodeOK, NEW k \in 1 .. (Len(code) + 1)
    PROVE  IsFiniteSet({h \in 1 .. (k - 1) : Opens(h)})
<1>1. IsFiniteSet(1 .. (k - 1))
    BY FS_Interval DEF CodeOK
<1> QED BY <1>1, FS_Subset

LEMMA HeadsBeforeType ==
    ASSUME CodeOK, NEW k \in 1 .. (Len(code) + 1)
    PROVE  HeadsBefore(k) \in Nat /\ (k = 1 => HeadsBefore(k) = 0)
<1>1. k = 1 => {h \in 1 .. (k - 1) : Opens(h)} = {}
    BY DEF CodeOK
<1> QED BY <1>1, HeadsFinite, FS_CardinalityType, FS_EmptySet DEF HeadsBefore

LEMMA HeadsBeforeNext ==
    ASSUME CodeOK, NEW k \in Nodes
    PROVE  HeadsBefore(k + 1) = IF Opens(k) THEN HeadsBefore(k) + 1 ELSE HeadsBefore(k)
<1> DEFINE H(j) == {h \in 1 .. (j - 1) : Opens(h)}
<1>1. Len(code) \in Nat /\ k \in Nat /\ k >= 1
    BY DEF CodeOK, Nodes
<1>2. IsFiniteSet(H(k)) /\ k \notin H(k)
    BY <1>1, HeadsFinite DEF Nodes
<1>3. 1 .. (k + 1 - 1) = (1 .. (k - 1)) \cup {k}
    BY <1>1
<1>4. CASE Opens(k)
    <2>1. H(k + 1) = H(k) \cup {k}
        BY <1>3, <1>4
    <2> QED BY <1>2, <1>4, <2>1, FS_AddElement DEF HeadsBefore
<1>5. CASE ~Opens(k)
    <2>1. H(k + 1) = H(k)
        BY <1>3, <1>5
    <2> QED BY <1>5, <2>1 DEF HeadsBefore
<1> QED BY <1>4, <1>5

LEMMA HeadsBeforeMonotone ==
    ASSUME CodeOK, NEW j \in 1 .. (Len(code) + 1), NEW k \in 1 .. (Len(code) + 1), j <= k
    PROVE  HeadsBefore(j) <= HeadsBefore(k)
<1>1. {h \in 1 .. (j - 1) : Opens(h)} \subseteq {h \in 1 .. (k - 1) : Opens(h)}
    BY DEF CodeOK
<1> QED BY <1>1, HeadsFinite, FS_Subset DEF HeadsBefore

LEMMA BlockHeadFacts ==
    ASSUME CodeOK, NEW b \in 0 .. (HeadCount - 1)
    PROVE  BlockHead(b) \in Nodes /\ Opens(BlockHead(b)) /\ HeadsBefore(BlockHead(b)) = b
<1> DEFINE E == {k \in Nodes : HeadsBefore(k) <= b}
           w == [k \in E |-> k]
<1>1. Len(code) \in Nat /\ HeadCount \in Nat /\ b \in Nat /\ b < HeadCount
    BY HeadCountType DEF CodeOK
<1>2. 1 \in E
    <2>1. 1 \in Nodes /\ 1 \in 1 .. (Len(code) + 1)
        BY <1>1 DEF CodeOK, Nodes
    <2> QED BY <1>1, <2>1, HeadsBeforeType
<1>3. \A k \in E : w[k] \in 0 .. Len(code)
    BY <1>1 DEF Nodes
<1>4. PICK k \in E : \A e \in E : w[e] <= w[k]
    <2> HIDE DEF E, w
    <2> QED BY <1>1, <1>2, <1>3, GreatestMeasure
<1>5. k \in Nodes /\ HeadsBefore(k) <= b /\ k \in 1 .. (Len(code) + 1) /\ k + 1 \in 1 .. (Len(code) + 1)
    BY <1>1 DEF Nodes
<1>6. HeadsBefore(k + 1) > b
    <2>1. CASE k = Len(code)
        BY <2>1, <1>1 DEF HeadCount
    <2>2. CASE k # Len(code)
        <3>1. k + 1 \in Nodes /\ ~(k + 1 <= k)
            BY <2>2, <1>1, <1>5 DEF Nodes
        <3>2. k + 1 \notin E
            BY <1>4, <3>1
        <3> QED BY <3>1, <3>2, <1>1, <1>5, HeadsBeforeType
    <2> QED BY <2>1, <2>2
<1>7. Opens(k) /\ HeadsBefore(k) = b
    BY <1>1, <1>5, <1>6, HeadsBeforeNext, HeadsBeforeType
<1> QED BY <1>5, <1>7 DEF BlockHead

LEMMA BlockIsRange ==
    ASSUME CodeOK, NEW b \in 0 .. (HeadCount - 1)
    PROVE  /\ LastOf(b) \in Nodes /\ BlockHead(b) <= LastOf(b)
           /\ \A k \in Nodes : k \in BlockHead(b) .. LastOf(b) <=> BlockAt(k) = b
<1>1. Len(code) \in Nat /\ HeadCount \in Nat /\ b \in Nat /\ b < HeadCount
    BY HeadCountType DEF CodeOK
<1> DEFINE h == BlockHead(b)
           g == BlockHead(b + 1)
<1>2. h \in Nodes /\ Opens(h) /\ HeadsBefore(h) = b
    BY BlockHeadFacts
<1>3. HeadsBefore(h + 1) = b + 1
    BY <1>2, HeadsBeforeNext
<1>4. b # HeadCount - 1 => /\ g \in Nodes /\ Opens(g) /\ HeadsBefore(g) = b + 1
                           /\ HeadsBefore(g + 1) = b + 2
    <2> SUFFICES ASSUME b # HeadCount - 1
                 PROVE  /\ g \in Nodes /\ Opens(g) /\ HeadsBefore(g) = b + 1
                        /\ HeadsBefore(g + 1) = b + 2
        OBVIOUS
    <2>1. b + 1 \in 0 .. (HeadCount - 1)
        BY <1>1
    <2>2. g \in Nodes /\ Opens(g) /\ HeadsBefore(g) = b + 1
        BY <2>1, BlockHeadFacts
    <2>3. HeadsBefore(g + 1) = b + 1 + 1
        BY <2>2, HeadsBeforeNext
    <2> QED BY <2>2, <2>3, <1>1
<1> HIDE DEF h, g
<1>5. \A k \in Nodes : k \in Nat /\ k <= Len(code) /\ k \in 1 .. (Len(code) + 1) /\ k + 1 \in 1 .. (Len(code) + 1)
    BY <1>1 DEF Nodes
<1>6. b # HeadCount - 1 => h < g
    <2> SUFFICES ASSUME b # HeadCount - 1, g <= h PROVE FALSE
        BY <1>2, <1>4, <1>5
    <2>1. HeadsBefore(g) <= HeadsBefore(h)
        BY <1>2, <1>4, <1>5, HeadsBeforeMonotone
    <2> QED BY <2>1, <1>1, <1>2, <1>4
<1>7. LastOf(b) \in Nodes /\ h <= LastOf(b)
    BY <1>1, <1>2, <1>4, <1>5, <1>6 DEF LastOf, g, Nodes
<1>8. ASSUME NEW k \in Nodes PROVE k \in h .. LastOf(b) <=> BlockAt(k) = b
    <2>1. HeadsBefore(k + 1) \in Nat
        BY <1>5, HeadsBeforeType
    <2>2. k >= h => HeadsBefore(k + 1) >= b + 1
        BY <1>2, <1>3, <1>5, HeadsBeforeMonotone
    <2>3. k < h => HeadsBefore(k + 1) <= b
        BY <1>2, <1>5, HeadsBeforeMonotone
    <2>4. CASE b = HeadCount - 1
        <3>1. HeadsBefore(k + 1) <= HeadCount
            BY <1>1, <1>5, HeadsBeforeMonotone DEF HeadCount
        <3>2. LastOf(b) = Len(code)
            BY <2>4 DEF LastOf
        <3> QED BY <2>1, <2>2, <2>3, <2>4, <3>1, <3>2, <1>1, <1>2, <1>5 DEF BlockAt
    <2>5. CASE b # HeadCount - 1
        <3>1. LastOf(b) = g - 1
            BY <2>5 DEF LastOf, g
        <3>2. k < g => HeadsBefore(k + 1) <= b + 1
            BY <2>5, <1>4, <1>5, HeadsBeforeMonotone
        <3>3. k >= g => HeadsBefore(k + 1) >= b + 2
            BY <2>5, <1>4, <1>5, HeadsBeforeMonotone
        <3> DEFINE n == HeadsBefore(k + 1)
        <3>4. h \in Nat /\ g \in Nat /\ k \in Nat /\ b \in Nat /\ n \in Nat
            BY <2>1, <2>5, <1>1, <1>2, <1>4, <1>5
        <3>5. k \in h .. LastOf(b) <=> (h <= k /\ k < g)
            BY <3>1, <3>4
        <3>6. BlockAt(k) = b <=> n = b + 1
            BY <3>4 DEF BlockAt
        <3>7. /\ k >= h => n >= b + 1
              /\ k < h => n <= b
              /\ k < g => n <= b + 1
              /\ k >= g => n >= b + 2
            BY <2>2, <2>3, <3>2, <3>3
        <3> HIDE DEF n
        <3>8. (h <= k /\ k < g) <=> n = b + 1
            BY <3>4, <3>7
        <3> QED BY <3>5, <3>6, <3>8
    <2> QED BY <2>4, <2>5
<1> QED BY <1>7, <1>8 DEF h

LEMMA BlockAtType ==
    ASSUME CodeOK, NEW k \in Nodes
    PROVE  BlockAt(k) \in 0 .. (HeadCount - 1)
<1>1. Len(code) \in Nat /\ k \in Nat /\ 1 \in Nodes /\ 1 <= k /\ k <= Len(code)
    BY DEF CodeOK, Nodes
<1>2. HeadsBefore(1 + 1) = 1
    <2>1. HeadsBefore(1) = 0
        BY <1>1, HeadsBeforeType
    <2> QED BY <1>1, <2>1, HeadsBeforeNext DEF Opens
<1>3. HeadsBefore(1 + 1) <= HeadsBefore(k + 1) /\ HeadsBefore(k + 1) <= HeadCount
    BY <1>1, HeadsBeforeMonotone DEF HeadCount
<1>4. HeadsBefore(k + 1) \in Nat /\ HeadCount \in Nat
    BY <1>1, HeadsBeforeType, HeadCountType DEF CodeOK
<1> QED BY <1>2, <1>3, <1>4 DEF BlockAt

\* What the cutting has stored.
Cut ==
    phase # "cut" /\ blockCount # 0 =>
        /\ blockCount = HeadCount
        /\ first = [b \in Blocks |-> BlockHead(b)]
        /\ last = [b \in Blocks |-> LastOf(b)]

\* The tree, once it is built.
Hung ==
    phase = "done" /\ blockCount # 0 =>
        children = [b \in Blocks |-> Kept({c \in Blocks \ {0} : idom[c] = b}, MaxChildren)]

\* The edges, from the wiring on.
Edges ==
    Wired => pred = [b \in Blocks |-> Kept({c \in Blocks : b \in LeadsTo(c)}, MaxPreds)]

DomInv == IInv /\ Picked /\ Cut /\ Hung /\ Edges

LEMMA CutStep == IInv /\ Cut /\ [Next]_vars => Cut'
<1> SUFFICES ASSUME IInv, Cut, [Next]_vars, phase' # "cut", blockCount' # 0
             PROVE  /\ blockCount' = HeadCount'
                    /\ first' = [b \in Blocks' |-> BlockHead(b)']
                    /\ last' = [b \in Blocks' |-> LastOf(b)']
    BY DEF Cut
<1>1. code' = code
    BY DEF Next, Analyse, Finished, Partition, TooManyBlocks, Wire, Visit, SweepAgain,
           ExtractIdom, BuildTree, vars
<1>2. HeadCount' = HeadCount /\ \A b : BlockHead(b)' = BlockHead(b) /\ LastOf(b)' = LastOf(b)
    BY <1>1 DEF HeadCount, HeadsBefore, BlockHead, LastOf, Opens, Nodes
<1>3. CASE Partition
    <2>1. Blocks' = 0 .. (HeadCount - 1) /\ blockCount' = HeadCount
        BY <1>3 DEF Partition, Blocks
    <2>2. last' = [b \in Blocks' |-> LastOf(b)]
        BY <1>3, <2>1 DEF Partition, LastOf
    <2> QED BY <1>2, <1>3, <2>1, <2>2 DEF Partition
<1>4. CASE TooManyBlocks
    BY <1>4 DEF TooManyBlocks, IInv, Shape
<1>5. CASE Wire \/ Visit \/ SweepAgain \/ ExtractIdom \/ BuildTree \/ UNCHANGED vars
    <2>1. UNCHANGED <<blockCount, first, last>> /\ phase # "cut" /\ Blocks' = Blocks
        BY <1>5 DEF Wire, Visit, SweepAgain, ExtractIdom, BuildTree, vars, Blocks
    <2> QED BY <1>2, <2>1 DEF Cut
<1> QED BY <1>3, <1>4, <1>5 DEF Next, Analyse, Finished

LEMMA HungStep == IInv /\ Hung /\ [Next]_vars => Hung'
<1> SUFFICES ASSUME IInv, Hung, [Next]_vars, phase' = "done", blockCount' # 0
             PROVE  children' = [b \in Blocks' |-> Kept({c \in Blocks' \ {0} : idom'[c] = b}, MaxChildren)]
    BY DEF Hung
<1>1. CASE BuildTree
    <2>1. Blocks' = Blocks /\ idom' = idom
        BY <1>1 DEF BuildTree, Blocks
    <2> QED BY <1>1, <2>1 DEF BuildTree
<1>2. CASE TooManyBlocks
    BY <1>2 DEF TooManyBlocks, IInv, Shape
<1>3. CASE Partition \/ Wire \/ Visit \/ SweepAgain \/ ExtractIdom
    BY <1>3 DEF Partition, Wire, Visit, SweepAgain, ExtractIdom
<1>4. CASE UNCHANGED vars
    <2>1. Blocks' = Blocks /\ idom' = idom /\ children' = children /\ phase = "done" /\ blockCount # 0
        BY <1>4 DEF vars, Blocks
    <2> QED BY <2>1 DEF Hung
<1> QED BY <1>1, <1>2, <1>3, <1>4 DEF Next, Analyse, Finished

LEMMA EdgesStep == IInv /\ Edges /\ [Next]_vars => Edges'
<1> SUFFICES ASSUME IInv, Edges, [Next]_vars, Wired'
             PROVE  pred' = [b \in Blocks' |-> Kept({c \in Blocks' : b \in LeadsTo(c)'}, MaxPreds)]
    BY DEF Edges
<1>1. CASE Partition \/ TooManyBlocks
    BY <1>1 DEF Partition, TooManyBlocks, Wired, IInv, Shape
<1>2. CASE Wire \/ Visit \/ SweepAgain \/ ExtractIdom \/ BuildTree \/ UNCHANGED vars
    <2>1. UNCHANGED <<code, blockCount, first, last>> /\ Blocks' = Blocks
        BY <1>2 DEF Wire, Visit, SweepAgain, ExtractIdom, BuildTree, vars, Blocks
    <2>2. \A c : LeadsTo(c)' = LeadsTo(c)
        BY <2>1 DEF LeadsTo, FindBlockByLabel, Bears
    <2>3. CASE Wire
        BY <2>1, <2>2, <2>3 DEF Wire
    <2>4. CASE ~Wire
        <3>1. pred' = pred /\ Wired
            BY <1>2, <2>4 DEF Visit, SweepAgain, ExtractIdom, BuildTree, vars, Wired, IInv, Shape
        <3> QED BY <2>1, <2>2, <3>1 DEF Edges
    <2> QED BY <2>3, <2>4
<1> QED BY <1>1, <1>2 DEF Next, Analyse, Finished

LEMMA DomInit == Init => DomInv
<1> SUFFICES ASSUME Init PROVE Picked /\ Cut /\ Hung /\ Edges
    BY InitShape DEF DomInv
<1> QED BY DEF Init, Picked, Cut, Hung, Edges, Wired

LEMMA DomStep == DomInv /\ [Next]_vars => DomInv'
BY Step, PickedStep, CutStep, HungStep, EdgesStep DEF DomInv

LEMMA DomInvariant == Spec => []DomInv
BY DomInit, DomStep, PTL DEF Spec

-----------------------------------------------------------------------------
(* What a run of the function reaches: the recursion of RunsWithout has a  *)
(* solution, and a set that is closed under the flow contains it.          *)
Iterates(f, A, a, G, L) ==
    f \in [0 .. L -> A] /\ f = [i \in 0 .. L |-> IF i = 0 THEN a ELSE G[f[i - 1]]]

LEMMA Iteration ==
    ASSUME NEW A, NEW a \in A, NEW G \in [A -> A], NEW L \in Nat
    PROVE  \E f : Iterates(f, A, a, G, L)
<1> DEFINE E(n) == \E f \in [0 .. n -> A] : f[0] = a /\ \A i \in 1 .. n : f[i] = G[f[i - 1]]
           M == {n \in Nat : ~E(n)}
<1>1. E(0)
    <2> DEFINE f == [i \in 0 .. 0 |-> a]
    <2>1. f \in [0 .. 0 -> A] /\ f[0] = a /\ \A i \in 1 .. 0 : f[i] = G[f[i - 1]]
        OBVIOUS
    <2> HIDE DEF f
    <2> QED BY <2>1
<1>2. ASSUME NEW n \in Nat, E(n) PROVE E(n + 1)
    <2>1. PICK f \in [0 .. n -> A] : f[0] = a /\ \A i \in 1 .. n : f[i] = G[f[i - 1]]
        BY <1>2
    <2> DEFINE g == [i \in 0 .. (n + 1) |-> IF i = n + 1 THEN G[f[n]] ELSE f[i]]
    <2>2. G[f[n]] \in A
        BY <2>1
    <2>3. g \in [0 .. (n + 1) -> A]
        BY <2>1, <2>2
    <2>4. g[0] = a
        BY <2>1
    <2>5. \A i \in 1 .. (n + 1) : g[i] = G[g[i - 1]]
        BY <2>1
    <2> HIDE DEF g
    <2> QED BY <2>3, <2>4, <2>5
<1>3. M = {}
    <2> SUFFICES ASSUME M # {} PROVE FALSE
        OBVIOUS
    <2>1. PICK m \in M : \A k \in M : m <= k
        <3>1. M \in SUBSET Nat
            OBVIOUS
        <3> HIDE DEF M
        <3> QED BY <3>1, Least
    <2>2. m # 0 /\ m \in Nat
        BY <1>1
    <2>3. m - 1 \in Nat /\ m - 1 + 1 = m /\ ~(m <= m - 1)
        BY <2>2
    <2>4. E(m - 1)
        <3> HIDE DEF E
        <3> QED BY <2>1, <2>3
    <2>5. E(m)
        <3> HIDE DEF E, M
        <3> QED BY <1>2, <2>3, <2>4
    <2> QED BY <2>5
<1>4. E(L)
    <2> HIDE DEF E
    <2> QED BY <1>3
<1>5. PICK f \in [0 .. L -> A] : f[0] = a /\ \A i \in 1 .. L : f[i] = G[f[i - 1]]
    BY <1>4
<1>6. f = [i \in 0 .. L |-> IF i = 0 THEN a ELSE G[f[i - 1]]]
    BY <1>5
<1> QED BY <1>6 DEF Iterates

LEMMA RunsStayInside ==
    ASSUME CodeOK, NEW taken, NEW d, NEW C \in SUBSET Nodes, {1} \ {d} \subseteq C,
           \A k \in C : Flow(k, taken) \ {d} \subseteq C
    PROVE  RunsWithout(d, taken) \subseteq C
<1> DEFINE reached[i \in 0 .. Len(code)] ==
              IF i = 0 THEN {1} \ {d}
              ELSE LET R == reached[i - 1] IN R \cup ((UNION {Flow(k, taken) : k \in R}) \ {d})
           G == [R \in SUBSET C |-> R \cup ((UNION {Flow(k, taken) : k \in R}) \ {d})]
<1>1. Len(code) \in Nat
    BY DEF CodeOK
<1>2. G \in [SUBSET C -> SUBSET C]
    <2> SUFFICES ASSUME NEW R \in SUBSET C, NEW x \in (UNION {Flow(k, taken) : k \in R}) \ {d}
                 PROVE  x \in C
        OBVIOUS
    <2>1. PICK k \in R : x \in Flow(k, taken)
        OBVIOUS
    <2>2. k \in C /\ x # d
        OBVIOUS
    <2> HIDE DEF G
    <2> QED BY <2>1, <2>2
<1>3. PICK f \in [0 .. Len(code) -> SUBSET C] :
          f = [i \in 0 .. Len(code) |-> IF i = 0 THEN {1} \ {d} ELSE G[f[i - 1]]]
    <2> DEFINE A == SUBSET C
               a == {1} \ {d}
    <2>1. a \in A /\ G \in [A -> A]
        BY <1>2
    <2>2. \E f : Iterates(f, A, a, G, Len(code))
        <3> HIDE DEF G, A, a
        <3> QED BY <1>1, <2>1, Iteration
    <2> QED BY <2>2 DEF Iterates
<1>4. f = [i \in 0 .. Len(code) |->
              IF i = 0 THEN {1} \ {d}
              ELSE LET R == f[i - 1] IN R \cup ((UNION {Flow(k, taken) : k \in R}) \ {d})]
    <2>1. \A i \in 0 .. Len(code) : i # 0 => f[i - 1] \in SUBSET C
        BY <1>1
    <2> QED BY <1>3, <2>1
<1>5. reached = [i \in 0 .. Len(code) |->
              IF i = 0 THEN {1} \ {d}
              ELSE LET R == reached[i - 1] IN R \cup ((UNION {Flow(k, taken) : k \in R}) \ {d})]
    BY <1>4
<1> DEFINE M == {i \in 0 .. Len(code) : ~(reached[i] \subseteq C)}
<1>6. M = {}
    <2> SUFFICES ASSUME M # {} PROVE FALSE
        OBVIOUS
    <2> HIDE DEF reached
    <2>1. M \in SUBSET Nat
        BY <1>1
    <2>2. PICK m \in M : \A k \in M : m <= k
        <3> HIDE DEF M
        <3> QED BY <2>1, Least
    <2>3. CASE m = 0
        BY <2>3, <1>5
    <2>4. CASE m # 0
        <3>1. m \in 0 .. Len(code) /\ m - 1 \in 0 .. Len(code) /\ ~(m <= m - 1)
            BY <1>1, <2>4
        <3>2. reached[m - 1] \subseteq C
            BY <2>2, <3>1
        <3>3. reached[m] = reached[m - 1] \cup ((UNION {Flow(k, taken) : k \in reached[m - 1]}) \ {d})
            BY <1>5, <2>4, <3>1
        <3>4. reached[m] \subseteq C
            <4> SUFFICES ASSUME NEW x \in (UNION {Flow(k, taken) : k \in reached[m - 1]}) \ {d}
                         PROVE  x \in C
                BY <3>2, <3>3
            <4>1. PICK k \in reached[m - 1] : x \in Flow(k, taken)
                OBVIOUS
            <4> QED BY <3>2, <4>1
        <3> QED BY <3>4
    <2> QED BY <2>3, <2>4
<1>7. reached[Len(code)] \subseteq C
    <2>1. Len(code) \in 0 .. Len(code)
        BY <1>1
    <2> HIDE DEF reached
    <2> QED BY <1>6, <2>1
<1> QED BY <1>7 DEF RunsWithout

-----------------------------------------------------------------------------
(* Dominance of blocks and the flow between nodes.  The pass looks at the  *)
(* last node of a block only, so the runs it speaks of are those that take *)
(* no branch from the middle of a block.  It takes the first block that    *)
(* bears a label, and has room for MaxPreds predecessors: the functions    *)
(* are those in which no label is used twice (the lowering numbers them)   *)
(* and no block has more predecessors than there is room for.              *)
LabelsUnique ==
    \A j, k \in Nodes :
        code[j].op = "label" /\ code[k].op = "label" /\ code[j].label = code[k].label => j = k

PredsFit == \A b \in Blocks : Cardinality({c \in Blocks : b \in LeadsTo(c)}) <= MaxPreds

\* Nothing is dropped from a set that there is room for.
LEMMA KeptAll ==
    ASSUME NEW S, IsFiniteSet(S), S \subseteq Int, NEW room \in Nat, Cardinality(S) <= room
    PROVE  Kept(S, room) = S
<1> SUFFICES ASSUME NEW x \in S PROVE Cardinality({y \in S : y < x}) < room
    BY DEF Kept
<1>1. x \notin {y \in S : y < x} /\ {y \in S : y < x} \subseteq S
    OBVIOUS
<1> DEFINE T == {y \in S : y < x}
<1>2. Cardinality(T) \in Nat /\ Cardinality(S) \in Nat /\ Cardinality(T) < Cardinality(S)
    <2> HIDE DEF T
    <2> QED BY <1>1, FS_Subset, FS_CardinalityType DEF T
<1> QED BY <1>2

LEMMA HeadUnique ==
    ASSUME CodeOK, NEW k \in Nodes, Opens(k)
    PROVE  BlockHead(BlockAt(k)) = k
<1>1. BlockAt(k) \in 0 .. (HeadCount - 1)
    BY BlockAtType
<1> DEFINE h == BlockHead(BlockAt(k))
<1>2. h \in Nodes /\ Opens(h) /\ HeadsBefore(h) = BlockAt(k)
    BY <1>1, BlockHeadFacts
<1> HIDE DEF h
<1>3. Len(code) \in Nat /\ h \in 1 .. (Len(code) + 1) /\ h + 1 \in 1 .. (Len(code) + 1)
      /\ k \in 1 .. (Len(code) + 1) /\ k + 1 \in 1 .. (Len(code) + 1)
    BY <1>2 DEF CodeOK, Nodes
<1>4. /\ HeadsBefore(k) \in Nat /\ HeadsBefore(k + 1) = HeadsBefore(k) + 1
      /\ HeadsBefore(h) \in Nat /\ HeadsBefore(h + 1) = HeadsBefore(h) + 1
    BY <1>2, <1>3, HeadsBeforeType, HeadsBeforeNext
<1>5. HeadsBefore(k) = HeadsBefore(h)
    BY <1>2, <1>4 DEF BlockAt
<1>6. ~(h + 1 <= k) /\ ~(k + 1 <= h)
    BY <1>3, <1>4, <1>5, HeadsBeforeMonotone
<1> QED BY <1>3, <1>6 DEF h

\* Control goes on inside a block, or from its end to the head of a successor.
LEMMA FlowFollowsEdges ==
    ASSUME DomInv, Wired, LabelsUnique, PredsFit, NEW k \in Nodes, NEW j \in Flow(k, BlockEnds)
    PROVE  /\ j \in Nodes
           /\ \/ j = k + 1 /\ BlockAt(j) = BlockAt(k)
              \/ /\ k = LastOf(BlockAt(k)) /\ j = BlockHead(BlockAt(j))
                 /\ BlockAt(k) \in pred[BlockAt(j)]
<1>1. CodeOK /\ Len(code) \in Nat
    BY DEF DomInv, IInv, Shape, CodeOK
<1>2. j \in Nodes
    BY DEF Flow, LabelNode
<1>3. /\ blockCount = HeadCount /\ Blocks = 0 .. (HeadCount - 1)
      /\ first = [b \in Blocks |-> BlockHead(b)] /\ last = [b \in Blocks |-> LastOf(b)]
    BY DEF DomInv, Cut, Wired, Blocks, IInv, Shape
<1> DEFINE x == BlockAt(k)
           y == BlockAt(j)
<1>4. x \in Blocks /\ y \in Blocks
    BY <1>1, <1>2, <1>3, BlockAtType
<1>5. CASE j = k + 1 /\ ~Opens(j)
    <2>1. y = x
        BY <1>1, <1>2, <1>5, HeadsBeforeNext DEF BlockAt
    <2> QED BY <1>2, <1>5, <2>1
<1>6. CASE ~(j = k + 1 /\ ~Opens(j))
    <2>1. Opens(j)
        BY <1>6 DEF Flow, LabelNode, Opens
    <2>2. BlockHead(y) = j /\ first[y] = j
        BY <1>1, <1>2, <1>3, <1>4, <2>1, HeadUnique
    <2>3. k \in BlockEnds \/ (k + 1 \in Nodes /\ Opens(k + 1))
        BY <1>2, <2>1 DEF Flow
    <2>4. last[x] = k
        <3>1. CASE k \in BlockEnds
            <4>1. PICK b \in Blocks : k = LastOf(b)
                BY <3>1, <1>3 DEF BlockEnds
            <4>2. k \in BlockHead(b) .. LastOf(b)
                <5>1. BlockHead(b) \in BlockHead(b) .. LastOf(b) /\ BlockHead(b) \in Nat
                    BY <1>1, <1>3, BlockHeadFacts, BlockIsRange DEF Nodes
                <5> QED BY <4>1, <5>1, <1>1 DEF Nodes
            <4>3. x = b
                BY <1>1, <1>3, <4>2, BlockIsRange
            <4> QED BY <4>1, <4>3, <1>3
        <3>2. CASE k + 1 \in Nodes /\ Opens(k + 1)
            <4>1. k + 1 \in Nodes
                BY <3>2
            <4>2. BlockAt(k + 1) = x + 1
                <5>1. HeadsBefore(k + 1 + 1) = HeadsBefore(k + 1) + 1
                    BY <1>1, <3>2, <4>1, HeadsBeforeNext
                <5>2. HeadsBefore(k + 1) \in Nat
                    BY <1>1, <4>1, HeadsBeforeType DEF Nodes
                <5> QED BY <5>1, <5>2 DEF BlockAt
            <4>3. x + 1 \in Blocks /\ BlockHead(x + 1) = k + 1
                <5>1. BlockAt(k + 1) \in Blocks
                    BY <1>1, <1>3, <4>1, BlockAtType
                <5>2. BlockHead(BlockAt(k + 1)) = k + 1
                    BY <1>1, <3>2, <4>1, HeadUnique
                <5> QED BY <5>1, <5>2, <4>2
            <4>4. x # HeadCount - 1
                BY <1>3, <1>4, <4>3, <1>1, HeadCountType DEF CodeOK
            <4>5. LastOf(x) = k
                BY <4>3, <4>4, <1>1 DEF LastOf, Nodes
            <4> QED BY <4>5, <1>3, <1>4
        <3> QED BY <2>3, <3>1, <3>2
    <2>5. y \in LeadsTo(x)
        <3>1. CASE j \in LabelNode(code[k].label) /\ code[k].op \in {"br", "br_if"}
            <4>1. Bears(y, code[k].label)
                BY <2>2, <3>1 DEF Bears, LabelNode
            <4>2. ASSUME NEW c \in 0 .. (y - 1), Bears(c, code[k].label) PROVE FALSE
                <5>1. c \in Blocks /\ c # y
                    BY <1>1, <1>3, <1>4, HeadCountType DEF CodeOK
                <5>2. BlockHead(c) \in Nodes /\ first[c] = BlockHead(c)
                      /\ BlockHead(c) \in BlockHead(c) .. LastOf(c)
                    BY <1>1, <1>3, <5>1, BlockHeadFacts, BlockIsRange DEF Nodes
                <5>3. BlockAt(BlockHead(c)) = c
                    BY <1>1, <1>3, <5>1, <5>2, BlockIsRange
                <5>4. BlockHead(c) = j
                    BY <3>1, <4>2, <5>2, <1>2 DEF Bears, LabelsUnique, LabelNode
                <5> QED BY <5>1, <5>3, <5>4
            <4>3. y \in FindBlockByLabel(code[k].label)
                BY <1>4, <4>1, <4>2 DEF FindBlockByLabel
            <4> QED BY <2>4, <3>1, <4>3 DEF LeadsTo
        <3>2. CASE j = k + 1 /\ code[k].op \notin {"br", "ret"}
            <4>1. y = x + 1
                <5>1. HeadsBefore(j + 1) = HeadsBefore(j) + 1 /\ HeadsBefore(j) \in Nat
                    BY <1>1, <1>2, <2>1, HeadsBeforeNext, HeadsBeforeType DEF Nodes
                <5> QED BY <5>1, <3>2 DEF BlockAt
            <4> QED BY <1>4, <2>4, <3>2, <4>1 DEF LeadsTo
        <3> QED BY <3>1, <3>2 DEF Flow
    <2>6. pred[y] = {c \in Blocks : y \in LeadsTo(c)}
        <3>1. IsFiniteSet(Blocks) /\ Blocks \subseteq Int
            BY <1>1, <1>3, HeadCountType, FS_Interval DEF CodeOK
        <3> DEFINE S == {c \in Blocks : y \in LeadsTo(c)}
        <3>2. IsFiniteSet(S) /\ S \subseteq Int /\ Cardinality(S) <= MaxPreds /\ MaxPreds \in Nat
            BY <1>4, <3>1, FS_Subset, LimitsArePositive DEF PredsFit
        <3>3. Kept(S, MaxPreds) = S
            <4> HIDE DEF S
            <4> QED BY <3>2, KeptAll
        <3> QED BY <1>4, <3>3 DEF DomInv, Edges
    <2> QED BY <1>2, <1>3, <1>4, <2>2, <2>4, <2>5, <2>6
<1> QED BY <1>5, <1>6

\* A run that never executes node m stays in the blocks that are reached
\* without the block of m, and in what stands before m in that block.
LEMMA NoWayAround ==
    ASSUME DomInv, Wired, LabelsUnique, PredsFit, NEW m \in Nodes,
           NEW S \in SUBSET Blocks, ClosedWithout(S, BlockAt(m))
    PROVE  RunsWithout(m, BlockEnds) \subseteq
               {k \in Nodes : \/ BlockAt(k) \in S \ {BlockAt(m)}
                              \/ BlockAt(k) = BlockAt(m) /\ k < m}
<1> DEFINE d == BlockAt(m)
           C == {k \in Nodes : BlockAt(k) \in S \ {d} \/ (BlockAt(k) = d /\ k < m)}
<1>1. CodeOK /\ Len(code) \in Nat /\ 1 \in Nodes
    BY DEF DomInv, IInv, Shape, CodeOK, Nodes
<1>2. Blocks = 0 .. (HeadCount - 1) /\ HeadCount \in Nat
    BY <1>1, HeadCountType DEF CodeOK, DomInv, Cut, Wired, Blocks, IInv, Shape
<1>3. \A k \in Nodes : BlockAt(k) \in Blocks
    BY <1>1, <1>2, BlockAtType
<1>4. {1} \ {m} \subseteq C
    <2>1. BlockAt(1) = 0
        <3>1. HeadsBefore(1 + 1) = 1
            BY <1>1, HeadsBeforeNext, HeadsBeforeType DEF Opens, Nodes
        <3> QED BY <3>1 DEF BlockAt
    <2>2. 0 \in Roots
        BY <1>1, <1>3, <2>1 DEF Roots
    <2>3. d # 0 => 0 \in S
        BY <2>2 DEF ClosedWithout
    <2>4. m # 1 => 1 < m
        BY <1>1 DEF Nodes
    <2> QED BY <1>1, <2>1, <2>3, <2>4
<1>5. BlockHead(d) <= m /\ m <= LastOf(d)
    <2>1. m \in BlockHead(d) .. LastOf(d)
        BY <1>1, <1>2, <1>3, BlockIsRange
    <2> QED BY <2>1
<1>6. ASSUME NEW k \in C, NEW j \in Flow(k, BlockEnds), j # m PROVE j \in C
    <2>1. /\ j \in Nodes
          /\ \/ j = k + 1 /\ BlockAt(j) = BlockAt(k)
             \/ /\ k = LastOf(BlockAt(k)) /\ j = BlockHead(BlockAt(j))
                /\ BlockAt(k) \in pred[BlockAt(j)]
        BY FlowFollowsEdges
    <2>2. CASE j = k + 1 /\ BlockAt(j) = BlockAt(k)
        BY <1>1, <1>6, <2>1, <2>2 DEF Nodes
    <2> HIDE DEF d
    <2>3. CASE j = BlockHead(BlockAt(j)) /\ BlockAt(j) = d
        <3>1. j <= m
            BY <1>5, <2>3
        <3> QED BY <1>1, <1>6, <2>1, <2>3, <3>1 DEF Nodes
    <2>4. CASE /\ k = LastOf(BlockAt(k)) /\ BlockAt(j) # d
               /\ BlockAt(k) \in pred[BlockAt(j)]
        <3>1. CASE BlockAt(k) \in S
            <4>1. BlockAt(j) \in S
                BY <3>1, <2>1, <2>4, <1>3 DEF ClosedWithout, d
            <4> QED BY <2>1, <2>4, <4>1
        <3>2. CASE BlockAt(k) = d /\ k < m
            <4>1. m <= k
                BY <1>5, <2>4, <3>2
            <4> QED BY <1>1, <3>2, <4>1 DEF Nodes
        <3> QED BY <3>1, <3>2
    <2> QED BY <2>1, <2>2, <2>3, <2>4
<1> HIDE DEF C
<1>7. RunsWithout(m, BlockEnds) \subseteq C
    BY <1>1, <1>4, <1>6, RunsStayInside DEF C
<1> QED BY <1>7 DEF C

\* n stands behind m in its block, or in another block that the block of m dominates.
Behind(m, n) ==
    \/ BlockAt(m) = BlockAt(n) /\ m < n
    \/ BlockAt(m) \in dom[BlockAt(n)] \ {BlockAt(n)}

\* Inside a block no hypothesis is needed: it is entered at its head only.
LEMMA SameBlockExecuted ==
    ASSUME CodeOK, NEW taken, NEW m \in Nodes, NEW n \in Nodes, BlockAt(m) = BlockAt(n), m < n
    PROVE  n \notin RunsWithout(m, taken)
<1> DEFINE C == {k \in Nodes : BlockAt(k) # BlockAt(m) \/ k < m}
<1>1. Len(code) \in Nat /\ 1 \in Nodes
    BY DEF CodeOK, Nodes
<1>2. {1} \ {m} \subseteq C
    BY <1>1 DEF Nodes
<1>3. ASSUME NEW k \in C, NEW j \in Flow(k, taken), j # m PROVE j \in C
    <2>1. j \in Nodes
        BY DEF Flow, LabelNode
    <2>2. CASE Opens(j)
        <3>1. BlockHead(BlockAt(j)) = j
            BY <2>1, <2>2, HeadUnique
        <3>2. CASE BlockAt(j) = BlockAt(m)
            <4>1. BlockAt(m) \in 0 .. (HeadCount - 1)
                BY BlockAtType
            <4>2. m \in BlockHead(BlockAt(m)) .. LastOf(BlockAt(m))
                BY <4>1, BlockIsRange
            <4> QED BY <1>1, <1>3, <2>1, <3>1, <3>2, <4>2 DEF Nodes
        <3> QED BY <2>1, <3>2
    <2>3. CASE ~Opens(j)
        <3>1. j = k + 1
            BY <2>3 DEF Flow, LabelNode, Opens
        <3>2. BlockAt(j) = BlockAt(k)
            BY <2>1, <2>3, <3>1, HeadsBeforeNext DEF BlockAt
        <3> QED BY <1>1, <1>3, <2>1, <3>1, <3>2 DEF Nodes
    <2> QED BY <2>2, <2>3
<1>4. RunsWithout(m, taken) \subseteq C
    <2> HIDE DEF C
    <2>1. C \in SUBSET Nodes
        BY DEF C
    <2> QED BY <1>2, <1>3, <2>1, RunsStayInside
<1> QED BY <1>1, <1>4 DEF Nodes

LEMMA BehindExecuted ==
    ASSUME DomInv, Wired, phase # "sweep", LabelsUnique, PredsFit,
           NEW m \in Nodes, NEW n \in Nodes, Behind(m, n)
    PROVE  n \notin RunsWithout(m, BlockEnds)
<1>1. CodeOK
    BY DEF DomInv, IInv, Shape, CodeOK
<1>2. CASE BlockAt(m) = BlockAt(n) /\ m < n
    BY <1>1, <1>2, SameBlockExecuted
<1>3. CASE BlockAt(m) \in dom[BlockAt(n)] \ {BlockAt(n)}
    <2>1. Blocks = 0 .. (HeadCount - 1)
        BY DEF DomInv, Cut, Wired, Blocks, IInv, Shape
    <2>2. BlockAt(m) \in Blocks /\ BlockAt(n) \in Blocks
        BY <1>1, <2>1, BlockAtType
    <2>3. Dominates(BlockAt(m), BlockAt(n))
        BY <1>3, <2>2, FixedPointIsDominance DEF DomInv
    <2>4. PICK S \in SUBSET Blocks : ClosedWithout(S, BlockAt(m)) /\ BlockAt(n) \notin S
        BY <1>3, <2>3 DEF Dominates
    <2>5. n \in RunsWithout(m, BlockEnds) =>
             \/ BlockAt(n) \in S \ {BlockAt(m)}
             \/ BlockAt(n) = BlockAt(m) /\ n < m
        BY <2>4, NoWayAround
    <2> QED BY <1>3, <2>4, <2>5
<1> QED BY <1>2, <1>3 DEF Behind

(* ir_dominance.c:11-13.  Whatever branches a function has, a run that     *)
(* comes to a block without having executed all of a block that dominates  *)
(* it has taken a branch from the middle of a block: any other run that    *)
(* avoids the dominator stays in a set of blocks closed without it.        *)
THEOREM DominatorsExecuted == Spec => [](LabelsUnique /\ PredsFit => DominanceIsExecution)
<1>1. DomInv => (LabelsUnique /\ PredsFit => DominanceIsExecution)
    <2> SUFFICES ASSUME DomInv, LabelsUnique, PredsFit, Computed,
                        NEW b \in Blocks, NEW d \in dom[b] \ {b}, NEW m \in first[d] .. last[d]
                 PROVE  first[b] \notin RunsWithout(m, BlockEnds)
        BY DEF DominanceIsExecution, Executed
    <2>1. Wired /\ phase # "sweep" /\ CodeOK
        BY DEF Computed, Wired, DomInv, IInv, Shape, CodeOK
    <2>2. /\ Blocks = 0 .. (HeadCount - 1)
          /\ first = [x \in Blocks |-> BlockHead(x)] /\ last = [x \in Blocks |-> LastOf(x)]
        BY <2>1 DEF DomInv, Cut, Wired, Blocks, IInv, Shape
    <2>3. d \in Blocks
        BY <2>1 DEF DomInv, IInv, Shape
    <2>4. BlockHead(b) \in Nodes /\ BlockHead(d) \in Nodes /\ LastOf(d) \in Nodes
        BY <2>1, <2>2, <2>3, BlockHeadFacts, BlockIsRange
    <2>5. m \in Nodes /\ BlockAt(m) = d
        <3>1. m \in Nodes
            BY <2>2, <2>3, <2>4 DEF Nodes
        <3> QED BY <3>1, <2>1, <2>2, <2>3, BlockIsRange
    <2>6. BlockAt(BlockHead(b)) = b
        <3>1. BlockHead(b) \in BlockHead(b) .. LastOf(b)
            BY <2>1, <2>2, <2>4, BlockIsRange DEF Nodes
        <3> QED BY <3>1, <2>1, <2>2, <2>4, BlockIsRange
    <2>7. Behind(m, BlockHead(b))
        BY <2>5, <2>6 DEF Behind
    <2> QED BY <2>1, <2>2, <2>4, <2>5, <2>7, BehindExecuted
<1> QED BY <1>1, DomInvariant, PTL

-----------------------------------------------------------------------------
(* The tree.  A block that control can reach is a node of it in the right  *)
(* place; of the others at most one is, and it has no children.            *)
Reached(b) == ~Dominates(-1, b)

TreeDone == DomInv /\ phase = "done" /\ blockCount # 0

LEMMA TreeFacts ==
    ASSUME TreeDone
    PROVE  /\ IInv /\ Shape /\ Picked /\ CodeOK /\ Wired /\ phase # "sweep"
           /\ blockCount \in Nat /\ 0 \in Blocks /\ -1 \notin Blocks
           /\ IsFiniteSet(Blocks)
           /\ dom \in [Blocks -> SUBSET Blocks]
           /\ Blocks = 0 .. (HeadCount - 1)
           /\ first = [b \in Blocks |-> BlockHead(b)] /\ last = [b \in Blocks |-> LastOf(b)]
<1>1. IInv /\ Shape /\ Picked /\ CodeOK /\ Wired /\ phase # "sweep"
    BY DEF TreeDone, DomInv, IInv, Shape, CodeOK, Wired
<1>2. blockCount \in Nat /\ 0 \in Blocks /\ -1 \notin Blocks
    BY <1>1, LimitsArePositive DEF TreeDone, Shape, Blocks
<1>3. IsFiniteSet(Blocks)
    BY <1>2, FS_Interval DEF Blocks
<1> QED BY <1>1, <1>2, <1>3 DEF TreeDone, DomInv, Cut, Shape, Blocks

LEMMA RootReached == ASSUME TreeDone PROVE Reached(0)
<1>1. 0 \in Roots /\ -1 # 0
    BY TreeFacts DEF Roots
<1> QED BY <1>1 DEF Reached, Dominates, ClosedWithout

LEMMA Antisymmetric ==
    ASSUME NEW b \in Blocks, Reached(b), NEW c \in Blocks, c # b, -1 \notin Blocks
    PROVE  ~(Dominates(b, c) /\ Dominates(c, b))
<1> SUFFICES ASSUME Dominates(b, c), Dominates(c, b) PROVE FALSE
    OBVIOUS
<1>1. PICK S \in SUBSET Blocks : ClosedWithout(S, b) /\ c \notin S
    BY DEF Dominates
<1>2. PICK T \in SUBSET Blocks : ClosedWithout(T, c) /\ b \notin T
    BY DEF Dominates
<1>3. Roots \subseteq S \cap T
    BY <1>1, <1>2 DEF ClosedWithout
<1>4. \A x \in Blocks : pred[x] \cap (S \cap T) # {} => x \in S \cap T
    BY <1>1, <1>2 DEF ClosedWithout
<1>5. ClosedWithout(S \cap T, -1)
    BY <1>3, <1>4 DEF ClosedWithout
<1> QED BY <1>2, <1>5 DEF Reached, Dominates

LEMMA UnreachedSet ==
    ASSUME TreeDone, NEW b \in Blocks, ~Reached(b)
    PROVE  dom[b] = Blocks
<1>1. PICK S \in SUBSET Blocks : ClosedWithout(S, -1) /\ b \notin S
    BY TreeFacts DEF Reached, Dominates
<1>2. ASSUME NEW d \in Blocks PROVE d \in dom[b]
    <2>1. ClosedWithout(S, d)
        <3>1. -1 \notin Blocks
            BY TreeFacts
        <3>2. -1 \notin Roots
            BY <3>1 DEF Roots
        <3> QED BY <1>1, <3>1, <3>2 DEF ClosedWithout
    <2>2. Dominates(d, b)
        BY <1>1, <2>1 DEF Dominates
    <2> QED BY <2>2, TreeFacts, FixedPointIsDominance
<1> QED BY <1>2, TreeFacts

LEMMA ChildFacts ==
    ASSUME TreeDone, NEW b \in Blocks, NEW c \in children[b]
    PROVE  /\ c \in Blocks \ {0} /\ idom[c] = b /\ b \in dom[c] /\ b # c
           /\ Dominates(b, c)
           /\ \A e \in dom[c] \ {c} : Cardinality(dom[e]) <= Cardinality(dom[b])
<1>1. c \in Blocks \ {0} /\ idom[c] = b
    <2>1. children[b] = Kept({x \in Blocks \ {0} : idom[x] = b}, MaxChildren)
        BY DEF TreeDone, DomInv, Hung
    <2> QED BY <2>1 DEF Kept
<1>2. dom[c] # {c} /\ b = Closest(c)
    BY <1>1, TreeFacts DEF Picked
<1>3. c \in dom[c]
    BY <1>1, TreeFacts DEF IInv, Complete
<1>4. /\ b \in dom[c] \ {c}
      /\ \A e \in dom[c] \ {c} : Cardinality(dom[e]) <= Cardinality(dom[b])
    BY <1>1, <1>2, <1>3, TreeFacts, ClosestFacts
<1> QED BY <1>1, <1>4, TreeFacts, FixedPointIsDominance

LEMMA ChildLower ==
    ASSUME TreeDone, NEW b \in Blocks, Reached(b), NEW c \in children[b]
    PROVE  /\ dom[b] \subseteq dom[c] /\ c \notin dom[b]
           /\ Cardinality(dom[b]) < Cardinality(dom[c])
<1>1. c \in Blocks /\ Dominates(b, c) /\ b # c
    BY ChildFacts
<1>2. ASSUME NEW x \in dom[b] PROVE x \in dom[c]
    <2>1. x \in Blocks
        BY TreeFacts
    <2>2. Dominates(x, b)
        BY <2>1, TreeFacts, FixedPointIsDominance
    <2>3. Dominates(x, c)
        BY <1>1, <2>2, Transitive
    <2> QED BY <1>1, <2>1, <2>3, TreeFacts, FixedPointIsDominance
<1>3. c \notin dom[b]
    BY <1>1, TreeFacts, Antisymmetric, FixedPointIsDominance
<1>4. c \in dom[c] /\ IsFiniteSet(dom[c])
    BY <1>1, TreeFacts, FS_Subset DEF IInv, Complete
<1>5. Cardinality(dom[b]) < Cardinality(dom[c])
    BY <1>2, <1>3, <1>4, FS_Subset, FS_CardinalityType
<1> QED BY <1>2, <1>3, <1>5

LEMMA ReachedChild ==
    ASSUME TreeDone, NEW b \in Blocks, NEW c \in children[b], Reached(c)
    PROVE  dom[c] = dom[b] \cup {c}
<1>1. c \in Blocks \ {0} /\ idom[c] = b /\ b \in dom[c] /\ b # c /\ Dominates(b, c)
    BY ChildFacts
<1>2. ASSUME NEW x \in dom[c] \ {c} PROVE x \in dom[b]
    <2>1. x \in Blocks /\ dom[c] # {c}
        BY <1>1, TreeFacts
    <2>2. Dominates(x, b)
        BY <1>1, <2>1, TreeFacts, PickedIsClosest DEF Reached
    <2> QED BY <2>1, <2>2, TreeFacts, FixedPointIsDominance
<1>3. ASSUME NEW x \in dom[b] PROVE x \in dom[c]
    <2>1. x \in Blocks
        BY TreeFacts
    <2>2. Dominates(x, c)
        BY <1>1, <2>1, TreeFacts, FixedPointIsDominance, Transitive
    <2> QED BY <1>1, <2>1, <2>2, TreeFacts, FixedPointIsDominance
<1>4. c \in dom[c]
    BY <1>1, TreeFacts DEF IInv, Complete
<1> QED BY <1>2, <1>3, <1>4

LEMMA UnreachedChild ==
    ASSUME TreeDone, NEW b \in Blocks, Reached(b), NEW c \in children[b], ~Reached(c)
    PROVE  children[c] = {}
<1> SUFFICES ASSUME NEW e \in children[c] PROVE FALSE
    OBVIOUS
<1>1. c \in Blocks /\ c # b /\ Dominates(b, c)
    BY ChildFacts
<1>2. e \in Blocks /\ e # c /\ Dominates(c, e)
    BY <1>1, ChildFacts
<1>3. ~Reached(e)
    BY <1>1, <1>2, Transitive DEF Reached
<1>4. dom[c] = Blocks /\ dom[e] = Blocks
    BY <1>1, <1>2, <1>3, UnreachedSet
<1>5. Cardinality(dom[e]) <= Cardinality(dom[b])
    BY <1>2, <1>4, ChildFacts
<1>6. Cardinality(dom[b]) < Cardinality(dom[c])
    BY ChildLower
<1>7. Cardinality(Blocks) \in Nat /\ Cardinality(dom[b]) \in Nat
    BY TreeFacts, FS_Subset, FS_CardinalityType
<1> QED BY <1>4, <1>5, <1>6, <1>7

\* The blocks that hang below c, c itself included.
Below(c) == {c} \cup {x \in Blocks \ {0} : idom[x] \in Blocks /\ Reached(idom[x]) /\ c \in dom[idom[x]]}

LEMMA BelowChild ==
    ASSUME TreeDone, NEW b \in Blocks, Reached(b), NEW c \in children[b]
    PROVE  Below(c) \subseteq Below(b) /\ b \notin Below(c)
<1>1. c \in Blocks \ {0} /\ idom[c] = b /\ b \in dom[c] /\ b # c /\ Dominates(b, c)
    BY ChildFacts
<1>2. b \in dom[b]
    BY TreeFacts DEF IInv, Complete
<1>3. ASSUME NEW x \in Below(c) PROVE x \in Below(b)
    <2>1. CASE x = c
        BY <2>1, <1>1, <1>2 DEF Below
    <2>2. CASE x # c
        <3>1. x \in Blocks \ {0} /\ idom[x] \in Blocks /\ Reached(idom[x]) /\ c \in dom[idom[x]]
            BY <2>2, <1>3 DEF Below
        <3>2. Dominates(b, idom[x])
            BY <1>1, <3>1, TreeFacts, FixedPointIsDominance, Transitive
        <3>3. b \in dom[idom[x]]
            BY <3>1, <3>2, TreeFacts, FixedPointIsDominance
        <3> QED BY <3>1, <3>3 DEF Below
    <2> QED BY <2>1, <2>2
<1>4. ASSUME b \in Below(c) PROVE FALSE
    <2>1. b \in Blocks \ {0} /\ idom[b] \in Blocks /\ c \in dom[idom[b]]
        BY <1>1, <1>4 DEF Below
    <2>2. idom[b] \in dom[b]
        <3>1. dom[b] # {b} /\ idom[b] = Closest(b)
            BY <2>1, TreeFacts DEF Picked
        <3> QED BY <1>2, <2>1, <3>1, TreeFacts, ClosestFacts
    <2>3. Dominates(c, b)
        BY <1>1, <2>1, <2>2, TreeFacts, FixedPointIsDominance, Transitive
    <2> QED BY <1>1, <2>3, TreeFacts, Antisymmetric
<1> QED BY <1>3, <1>4

LEMMA BelowReached ==
    ASSUME TreeDone, NEW b \in Blocks, Reached(b), NEW d \in dom[b]
    PROVE  b \in Below(d)
<1>1. CASE d = b
    BY <1>1 DEF Below
<1>2. CASE d # b
    <2>1. b # 0 /\ d \in Blocks /\ b \in dom[b]
        BY <1>2, TreeFacts DEF IInv, Complete
    <2>2. dom[b] # {b}
        BY <1>2
    <2>3. idom[b] \in dom[b] \ {b} /\ Dominates(d, idom[b])
        BY <1>2, <2>1, <2>2, TreeFacts, PickedIsClosest DEF Reached
    <2>4. idom[b] \in Blocks /\ Dominates(idom[b], b)
        BY <2>3, TreeFacts, FixedPointIsDominance
    <2>5. Reached(idom[b])
        BY <2>4, Transitive DEF Reached
    <2>6. d \in dom[idom[b]]
        BY <2>1, <2>3, <2>4, TreeFacts, FixedPointIsDominance
    <2> QED BY <2>1, <2>4, <2>5, <2>6 DEF Below
<1> QED BY <1>1, <1>2

-----------------------------------------------------------------------------
(* The state of the numbering.                                             *)
Activations == [block : Blocks, mark : Nat, todo : SUBSET Blocks]

GvnShape ==
    /\ stage \in {"dominance", "dce", "start", "tree", "linear", "finished", "crashed"}
    /\ stage # "dominance" => phase = "done"
    /\ own \in BOOLEAN
    /\ live \subseteq Nodes
    /\ copyOf \in [Nodes -> 0 .. Len(code)]
    /\ here \in 0 .. Len(code)
    /\ scope \in Seq({code[n].expr : n \in Nodes})
    /\ \A e \in DOMAIN table : /\ table[e] \in Nodes /\ code[table[e]].expr = e
                               /\ e # NoExpr
    /\ stage \in {"dominance", "dce", "start"} =>
          copyOf = [n \in Nodes |-> 0] /\ DOMAIN table = {} /\ scope = << >>
    /\ stage = "tree" => own /\ blockCount # 0
    /\ stage # "tree" => walk = << >>
    /\ stage = "linear" => here \in live \cup {0} /\ (own => blockCount = 0)

\* The activations are a path in the tree that starts at the entry.
OnPath ==
    /\ walk \in Seq(Activations)
    /\ walk # << >> => walk[1].block = 0
    /\ \A i \in 1 .. Len(walk) : /\ walk[i].todo \subseteq children[walk[i].block]
                                 /\ walk[i].todo # {} => Reached(walk[i].block)
                                 /\ i <= Cardinality(dom[walk[i].block])
                                 /\ walk[i].mark <= Len(scope)
    /\ \A i \in 1 .. Len(walk) : i < Len(walk) =>
          Reached(walk[i].block) /\ walk[i + 1].block \in children[walk[i].block]
    /\ \A i, j \in 1 .. Len(walk) : i < j =>
          /\ walk[i].block \in dom[walk[j].block] /\ walk[i].block # walk[j].block
          /\ walk[i].mark <= walk[j].mark

\* What is still to be visited does not hold what is being visited.
Apart ==
    \A i, j \in 1 .. Len(walk) : \A d \in walk[i].todo : walk[j].block \notin Below(d)

\* The pointer of the block loop stays in the block while the node that stops it
\* is in the list.
Inside ==
    here # 0 => /\ walk # << >>
                /\ last[Top.block] \in live => BlockAt(here) = Top.block

Walking == stage = "tree" => OnPath /\ Apart /\ Inside

LEMMA FollowingFacts ==
    ASSUME CodeOK, live \subseteq Nodes, NEW n \in Nat
    PROVE  \/ /\ Following(n) \in live /\ Following(n) > n
              /\ \A k \in live : k > n => Following(n) <= k
           \/ Following(n) = 0 /\ \A k \in live : ~(k > n)
<1> DEFINE after == {m \in live : m > n}
<1>1. after \in SUBSET Nat
    <2>1. Len(code) \in Nat
        BY DEF CodeOK
    <2>2. Nodes \subseteq Nat
        BY <2>1 DEF Nodes
    <2> QED BY <2>2
<1>2. CASE after = {}
    BY <1>2 DEF Following
<1>3. CASE after # {}
    <2>1. \E m \in after : \A k \in after : m <= k
        <3> HIDE DEF after
        <3> QED BY <1>1, <1>3, Least
    <2>2. Following(n) = CHOOSE m \in after : \A k \in after : m <= k
        BY <1>3 DEF Following
    <2>3. Following(n) \in after /\ \A k \in after : Following(n) <= k
        <3> HIDE DEF after
        <3> QED BY <2>1, <2>2
    <2> QED BY <2>3
<1> QED BY <1>2, <1>3

LEMMA TreeState ==
    ASSUME DomInv, GvnShape, stage = "tree"
    PROVE  TreeDone /\ CodeOK /\ \A b \in Blocks : first[b] \in Nodes /\ last[b] \in Nodes
<1>1. TreeDone
    BY DEF GvnShape, TreeDone
<1>2. \A b \in Blocks : BlockHead(b) \in Nodes /\ LastOf(b) \in Nodes
    BY <1>1, TreeFacts, BlockHeadFacts, BlockIsRange
<1> QED BY <1>1, <1>2, TreeFacts

LEMMA PathTypes ==
    ASSUME OnPath, walk # << >>
    PROVE  /\ Len(walk) \in Nat /\ Len(walk) \in 1 .. Len(walk)
           /\ Top = walk[Len(walk)] /\ Top \in Activations
           /\ \A i \in 1 .. Len(walk) : walk[i] \in Activations
                                        /\ walk[i].block \in Blocks /\ walk[i].todo \subseteq Blocks
                                        /\ walk[i].mark \in Nat
<1>1. walk \in Seq(Activations)
    BY DEF OnPath
<1>2. Len(walk) \in Nat /\ Len(walk) # 0
    BY <1>1
<1>3. \A i \in 1 .. Len(walk) : walk[i] \in Activations
    BY <1>1
<1> QED BY <1>2, <1>3 DEF Top, Activations

LEMMA MarkWithin ==
    ASSUME GvnShape, OnPath, walk # << >>
    PROVE  Top.mark \in 0 .. Len(scope) /\ Len(scope) \in Nat
<1>1. Top.mark \in Nat /\ Top.mark <= Len(scope)
    BY PathTypes DEF OnPath
<1>2. Len(scope) \in Nat
    BY DEF GvnShape
<1> QED BY <1>1, <1>2

\* The passes before numbering, and the dominance pass in particular, do not
\* know of its variables.
LEMMA GvnDomStep ==
    [GvnNext]_<<vars, gvnVars>> => [Next]_vars
BY DEF GvnNext, Pass, AnalyseThis, AnalyseOthers, DeadCode, Number, Scan, WalkTree, NumberNode,
       ReadFreedNode, FollowOverwrittenLink, WalkChild, PopScope, TreeWalked, ScanList, ScanNode,
       ListScanned, Next

LEMMA GvnCodeStays == [GvnNext]_<<vars, gvnVars>> => code' = code
BY GvnDomStep DEF Next, Analyse, Finished, Partition, TooManyBlocks, Wire, Visit, SweepAgain,
       ExtractIdom, BuildTree, vars

\* Looking up a node: it becomes a copy of the node in the table, or is entered.
LEMMA LookupShape ==
    ASSUME CodeOK, GvnShape, NEW n \in Nodes, Pure(n), Lookup(n)
    PROVE  /\ copyOf' \in [Nodes -> 0 .. Len(code)]
           /\ scope' \in Seq({code[k].expr : k \in Nodes})
           /\ \A e \in DOMAIN table' : /\ table'[e] \in Nodes /\ code[table'[e]].expr = e
                                       /\ e # NoExpr
<1>1. CASE code[n].expr \in DOMAIN table
    <2>1. table[code[n].expr] \in 0 .. Len(code)
        BY <1>1 DEF GvnShape, Nodes, CodeOK
    <2>2. /\ copyOf' = [copyOf EXCEPT ![n] = table[code[n].expr]]
          /\ table' = table /\ scope' = scope
        BY <1>1 DEF Lookup
    <2> QED BY <2>1, <2>2 DEF GvnShape
<1>2. CASE code[n].expr \notin DOMAIN table
    <2>1. /\ copyOf' = copyOf
          /\ table' = [e \in DOMAIN table \cup {code[n].expr} |->
                          IF e = code[n].expr THEN n ELSE table[e]]
          /\ scope' = Append(scope, code[n].expr) \/ scope' = scope
        BY <1>2 DEF Lookup
    <2>2. scope' \in Seq({code[k].expr : k \in Nodes})
        <3> DEFINE X == {code[k].expr : k \in Nodes}
        <3>1. scope \in Seq(X) /\ code[n].expr \in X
            BY DEF GvnShape
        <3> HIDE DEF X
        <3>2. Append(scope, code[n].expr) \in Seq(X)
            BY <3>1
        <3> QED BY <2>1, <3>1, <3>2 DEF X
    <2> QED BY <2>1, <2>2 DEF GvnShape, Pure
<1> QED BY <1>1, <1>2

LEMMA ShapeStep ==
    ASSUME DomInv, GvnShape, Walking, [GvnNext]_<<vars, gvnVars>>
    PROVE  GvnShape'
<1>1. code' = code /\ Nodes' = Nodes /\ CodeOK /\ Len(code) \in Nat
    BY GvnCodeStays DEF Nodes, DomInv, IInv, Shape, CodeOK
<1>0. live \cup {0} \subseteq 0 .. Len(code)
    BY <1>1 DEF GvnShape, Nodes
<1>2. CASE AnalyseThis
    BY <1>1, <1>2 DEF AnalyseThis, gvnVars, GvnShape
<1>3. CASE AnalyseOthers
    BY <1>1, <1>3 DEF AnalyseOthers, GvnShape, vars
<1>4. CASE DeadCode
    BY <1>1, <1>4 DEF DeadCode, GvnShape, vars
<1>5. CASE WalkTree
    <2>1. TreeDone
        BY <1>5 DEF WalkTree, GvnShape, TreeDone
    <2>2. first[0] \in Nodes
        BY <2>1, TreeFacts, BlockHeadFacts
    <2> QED BY <1>1, <1>5, <2>2 DEF WalkTree, GvnShape, vars, Nodes
<1>6. CASE NumberNode
    <2>1. here \in Nodes
        BY <1>6 DEF NumberNode, GvnShape
    <2>2. Following(here) \in live \cup {0}
        BY <1>1, <2>1, FollowingFacts DEF GvnShape, Nodes
    <2>3. here' \in 0 .. Len(code)
        BY <1>0, <1>6, <2>2 DEF NumberNode, Onward
    <2>4. CASE Pure(here) /\ Lookup(here)
        BY <1>1, <1>6, <2>1, <2>3, <2>4, LookupShape DEF NumberNode, GvnShape, vars
    <2>5. CASE UNCHANGED <<copyOf, table, scope>>
        BY <1>1, <1>6, <2>3, <2>5 DEF NumberNode, GvnShape, vars
    <2> QED BY <1>6, <2>4, <2>5 DEF NumberNode
<1>7. CASE ReadFreedNode
    <2>1. here' \in 0 .. Len(code)
        BY <1>1, <1>7 DEF ReadFreedNode, GvnShape
    <2> QED BY <1>1, <1>7, <2>1 DEF ReadFreedNode, GvnShape, vars
<1>15. CASE FollowOverwrittenLink
    <2>1. 0 \in 0 .. Len(code)
        BY <1>1
    <2> QED BY <1>1, <1>15, <2>1 DEF FollowOverwrittenLink, GvnShape, vars
<1>8. CASE WalkChild
    <2>1. PICK c \in Top.todo : here' = first[c]
        BY <1>8 DEF WalkChild
    <2>2. stage = "tree" /\ walk # << >>
        BY <1>8 DEF WalkChild
    <2>3. walk \in Seq(Activations) /\ Len(walk) \in 1 .. Len(walk)
        BY <2>2 DEF Walking, OnPath
    <2>6. Top \in Activations
        BY <2>3 DEF Top
    <2>4. c \in Blocks
        BY <2>1, <2>6 DEF Activations
    <2>5. first[c] \in Nodes
        BY <2>2, <2>4, TreeState
    <2> QED BY <1>1, <1>8, <2>1, <2>5 DEF WalkChild, GvnShape, vars, Nodes
<1>9. CASE PopScope
    <2>1. \A e \in DOMAIN table' : e \in DOMAIN table /\ table'[e] = table[e]
        BY <1>9 DEF PopScope
    <2>2. scope' \in Seq({code[n].expr : n \in Nodes})
        <3> DEFINE X == {code[n].expr : n \in Nodes}
        <3>1. scope \in Seq(X) /\ scope' = SubSeq(scope, 1, Top.mark) /\ Top.mark \in 0 .. Len(scope)
            BY <1>9, MarkWithin DEF PopScope, GvnShape, Walking
        <3> HIDE DEF X
        <3>2. scope' \in Seq(X)
            BY <3>1
        <3> QED BY <3>2 DEF X
    <2> QED BY <1>1, <1>9, <2>1, <2>2 DEF PopScope, GvnShape, vars
<1>10. CASE TreeWalked
    BY <1>1, <1>10 DEF TreeWalked, GvnShape, vars
<1>11. CASE ScanList
    <2>1. Following(0) \in live \cup {0}
        BY <1>1, FollowingFacts DEF GvnShape
    <2>2. here' \in live \cup {0} /\ here' \in 0 .. Len(code)
        BY <1>0, <1>11, <2>1 DEF ScanList
    <2> QED BY <1>1, <1>11, <2>2 DEF ScanList, GvnShape, vars
<1>12. CASE ScanNode
    <2>1. here \in Nodes
        BY <1>12 DEF ScanNode, GvnShape
    <2>2. Following(here) \in live \cup {0}
        BY <1>1, <2>1, FollowingFacts DEF GvnShape, Nodes
    <2>3. here' \in live \cup {0} /\ here' \in 0 .. Len(code)
        BY <1>0, <1>12, <2>2 DEF ScanNode
    <2>4. CASE Pure(here) /\ Lookup(here)
        BY <1>1, <1>12, <2>1, <2>3, <2>4, LookupShape DEF ScanNode, GvnShape, vars
    <2>5. CASE UNCHANGED <<copyOf, table, scope>>
        BY <1>1, <1>12, <2>3, <2>5 DEF ScanNode, GvnShape, vars
    <2>6. CASE table' = Empty /\ UNCHANGED <<copyOf, scope>>
        BY <1>1, <1>12, <2>3, <2>6 DEF ScanNode, GvnShape, vars, Empty
    <2> QED BY <1>12, <2>4, <2>5, <2>6 DEF ScanNode
<1>13. CASE ListScanned
    BY <1>1, <1>13 DEF ListScanned, GvnShape, vars
<1>14. CASE UNCHANGED <<vars, gvnVars>>
    BY <1>1, <1>14 DEF GvnShape, vars, gvnVars
<1> QED BY <1>2, <1>3, <1>4, <1>5, <1>6, <1>7, <1>8, <1>9, <1>10, <1>11, <1>12, <1>13, <1>14,
        <1>15 DEF GvnNext, Pass, Number, Scan

-----------------------------------------------------------------------------
(* The walk.  A new activation is that of a child of the innermost one.    *)
LEMMA ChildActivation ==
    ASSUME DomInv, GvnShape, Walking, WalkChild
    PROVE  \E c \in Top.todo :
              /\ c \in Blocks /\ c \in children[Top.block] /\ Reached(Top.block)
              /\ here' = first[c]
              /\ walk' \in Seq(Activations) /\ Len(walk') = Len(walk) + 1
              /\ \A i \in 1 .. Len(walk) :
                    /\ walk'[i].block = walk[i].block /\ walk'[i].mark = walk[i].mark
                    /\ walk'[i].todo \subseteq walk[i].todo
              /\ c \notin walk'[Len(walk)].todo
              /\ walk'[Len(walk) + 1] = Activation(c)
<1>1. stage = "tree" /\ walk # << >> /\ OnPath
    BY DEF WalkChild, Walking
<1>2. PICK c \in Top.todo :
          /\ walk' = Append([walk EXCEPT ![Len(walk)].todo = @ \ {c}], Activation(c))
          /\ here' = first[c]
    BY DEF WalkChild
<1> DEFINE L == Len(walk)
           a == [walk[L] EXCEPT !.todo = @ \ {c}]
           w == [walk EXCEPT ![L] = a]
<1>3. L \in Nat /\ L \in 1 .. L /\ walk[L] \in Activations /\ walk \in Seq(Activations)
      /\ Top = walk[L] /\ TreeDone
    BY <1>1, PathTypes, TreeState DEF OnPath
<1>4. /\ a \in Activations /\ a.block = walk[L].block /\ a.mark = walk[L].mark
      /\ a.todo = walk[L].todo \ {c}
    BY <1>3 DEF Activations
<1>5. c \in Blocks /\ c \in children[Top.block] /\ Reached(Top.block)
    BY <1>1, <1>3 DEF OnPath, Activations
<1>6. Activation(c) \in Activations
    <2>1. children[c] = Kept({x \in Blocks \ {0} : idom[x] = c}, MaxChildren)
        BY <1>3, <1>5 DEF TreeDone, DomInv, Hung
    <2>2. children[c] \subseteq Blocks
        BY <2>1 DEF Kept
    <2>3. Len(scope) \in Nat
        BY DEF GvnShape
    <2> QED BY <1>5, <2>2, <2>3 DEF Activation, Activations
<1>7. walk' = Append(w, Activation(c))
    BY <1>2
<1> HIDE DEF a
<1>8. w \in Seq(Activations) /\ Len(w) = L /\ w[L] = a /\ \A i \in 1 .. L : i # L => w[i] = walk[i]
    BY <1>3, <1>4
<1> HIDE DEF w, L
<1>9. /\ walk' \in Seq(Activations) /\ Len(walk') = L + 1 /\ walk'[L + 1] = Activation(c)
      /\ \A i \in 1 .. L : walk'[i] = w[i]
    BY <1>3, <1>6, <1>7, <1>8
<1>10. ASSUME NEW i \in 1 .. L
       PROVE  /\ walk'[i].block = walk[i].block /\ walk'[i].mark = walk[i].mark
              /\ walk'[i].todo \subseteq walk[i].todo
    <2>1. CASE i = L
        BY <2>1, <1>3, <1>4, <1>8, <1>9
    <2>2. CASE i # L
        BY <2>2, <1>8, <1>9
    <2> QED BY <2>1, <2>2
<1>11. c \notin walk'[L].todo
    BY <1>3, <1>4, <1>8, <1>9
<1> QED BY <1>2, <1>5, <1>9, <1>10, <1>11 DEF L

LEMMA StartPath == ASSUME DomInv, GvnShape, WalkTree PROVE OnPath' /\ Apart'
<1>1. TreeDone
    BY DEF WalkTree, GvnShape, TreeDone
<1>2. /\ walk' = <<Activation(0)>> /\ scope' = scope /\ Len(scope) = 0 /\ dom' = dom
      /\ Blocks' = Blocks /\ children' = children /\ idom' = idom /\ pred' = pred
    BY DEF WalkTree, GvnShape, vars, Blocks
<1>3. Activation(0) \in Activations /\ Activation(0).todo \subseteq children[0]
    <2>1. children[0] = Kept({x \in Blocks \ {0} : idom[x] = 0}, MaxChildren)
        BY <1>1, TreeFacts DEF TreeDone, DomInv, Hung
    <2>2. children[0] \subseteq Blocks
        BY <2>1 DEF Kept
    <2> QED BY <1>1, <1>2, <2>2, TreeFacts DEF Activation, Activations
<1>4. walk' \in Seq(Activations') /\ Len(walk') = 1 /\ walk'[1] = Activation(0)
    BY <1>2, <1>3 DEF Activations
<1>5. Activation(0).block = 0 /\ Activation(0).todo = children[0] /\ Activation(0).mark = 0
    BY <1>2 DEF Activation
<1>6. 1 <= Cardinality(dom[0])
    <2>1. dom[0] = {0}
        BY <1>1, TreeFacts DEF IInv, Complete
    <2> QED BY <2>1, FS_Singleton
<1>7. Reached(0) /\ (\A b : Reached(b)' = Reached(b)) /\ \A b : Below(b)' = Below(b)
    <2>1. \A b : Reached(b)' = Reached(b)
        BY <1>2 DEF Reached, Dominates, ClosedWithout, Roots
    <2> QED BY <1>1, <1>2, <2>1, RootReached DEF Below
<1>8. OnPath'
    BY <1>2, <1>3, <1>4, <1>5, <1>6, <1>7 DEF OnPath
<1>9. Apart'
    <2> SUFFICES ASSUME NEW d \in children[0] PROVE 0 \notin Below(d)
        BY <1>4, <1>5, <1>7 DEF Apart
    <2> QED BY <1>1, <1>7, TreeFacts, BelowChild
<1> QED BY <1>8, <1>9

\* What the numbering steps leave alone.
LEMMA GvnFrame ==
    ASSUME UNCHANGED vars
    PROVE  /\ Blocks' = Blocks /\ Nodes' = Nodes /\ Activations' = Activations
           /\ (\A b : Reached(b)' = Reached(b)) /\ \A b : Below(b)' = Below(b)
           /\ \A m, n : Behind(m, n)' = Behind(m, n)
           /\ \A n : BlockAt(n)' = BlockAt(n)
<1>1. Blocks' = Blocks /\ Nodes' = Nodes /\ Roots' = Roots
    BY DEF vars, Blocks, Nodes, Roots
<1>2. \A b : Reached(b)' = Reached(b)
    BY <1>1 DEF vars, Reached, Dominates, ClosedWithout
<1>3. \A n : BlockAt(n)' = BlockAt(n)
    BY DEF vars, BlockAt, HeadsBefore, Opens
<1> QED BY <1>1, <1>2, <1>3 DEF vars, Activations, Below, Behind

LEMMA ChildPath == ASSUME DomInv, GvnShape, Walking, WalkChild PROVE OnPath' /\ Apart'
<1>1. stage = "tree" /\ walk # << >> /\ OnPath /\ Apart /\ TreeDone /\ UNCHANGED vars /\ scope' = scope
    BY TreeState DEF WalkChild, Walking
<1>2. PICK c \in Top.todo :
          /\ c \in Blocks /\ c \in children[Top.block] /\ Reached(Top.block)
          /\ walk' \in Seq(Activations) /\ Len(walk') = Len(walk) + 1
          /\ \A i \in 1 .. Len(walk) :
                /\ walk'[i].block = walk[i].block /\ walk'[i].mark = walk[i].mark
                /\ walk'[i].todo \subseteq walk[i].todo
          /\ c \notin walk'[Len(walk)].todo
          /\ walk'[Len(walk) + 1] = Activation(c)
    BY ChildActivation
<1> DEFINE L == Len(walk)
           b == walk[L].block
<1>3. L \in Nat /\ L \in 1 .. L /\ Top = walk[L] /\ b \in Blocks
      /\ \A i \in 1 .. L : walk[i].block \in Blocks /\ walk[i].mark \in Nat /\ walk[i].todo \subseteq Blocks
    BY <1>1, PathTypes
<1>4. /\ children' = children /\ dom' = dom /\ Blocks' = Blocks /\ Activations' = Activations
      /\ (\A x : Reached(x)' = Reached(x)) /\ \A x : Below(x)' = Below(x)
    BY <1>1, GvnFrame DEF vars
<1>5. Activation(c).block = c /\ Activation(c).mark = Len(scope) /\ Activation(c).todo = children[c]
    BY DEF Activation
<1>6. /\ dom[b] \subseteq dom[c] /\ c \notin dom[b] /\ Cardinality(dom[b]) < Cardinality(dom[c])
      /\ b \in dom[c] /\ Below(c) \subseteq Below(b) /\ b \notin Below(c)
    BY <1>1, <1>2, <1>3, ChildLower, ChildFacts, BelowChild
<1>7. children[c] # {} => Reached(c)
    BY <1>1, <1>2, <1>3, UnreachedChild
<1>8. \A i \in 1 .. L : walk[i].block \in dom[c] /\ walk[i].block # c
    <2> SUFFICES ASSUME NEW i \in 1 .. L PROVE walk[i].block \in dom[c] /\ walk[i].block # c
        OBVIOUS
    <2>1. i = L \/ walk[i].block \in dom[b]
        BY <1>1, <1>3 DEF OnPath
    <2> QED BY <1>6, <2>1, ChildFacts, <1>1, <1>2, <1>3
<1>9. L + 1 <= Cardinality(dom[c])
    <2>1. L <= Cardinality(dom[b])
        BY <1>1, <1>3 DEF OnPath
    <2>2. Cardinality(dom[b]) \in Nat /\ Cardinality(dom[c]) \in Nat
        BY <1>1, <1>2, <1>3, TreeFacts, FS_Subset, FS_CardinalityType
    <2> QED BY <1>3, <1>6, <2>1, <2>2
<1>10. Len(scope) \in Nat /\ \A i \in 1 .. L : walk[i].mark <= Len(scope)
    BY <1>1, MarkWithin DEF OnPath
<1> HIDE DEF L, b
<1>11. 1 .. Len(walk') = (1 .. L) \cup {L + 1} /\ L \in Nat /\ L # 0
    BY <1>2, <1>3 DEF L
<1>12. OnPath'
    <2>1. walk' \in Seq(Activations') /\ walk'[1].block = 0
        BY <1>1, <1>2, <1>3, <1>4 DEF OnPath, L
    <2>2. ASSUME NEW i \in 1 .. Len(walk')
          PROVE  /\ walk'[i].todo \subseteq children[walk'[i].block]
                 /\ walk'[i].todo # {} => Reached(walk'[i].block)
                 /\ i <= Cardinality(dom[walk'[i].block])
                 /\ walk'[i].mark <= Len(scope)
        <3>1. CASE i = L + 1
            BY <3>1, <1>2, <1>5, <1>7, <1>9, <1>10 DEF L
        <3>2. CASE i \in 1 .. L
            BY <3>2, <1>1, <1>2 DEF OnPath, L
        <3> QED BY <3>1, <3>2, <1>11
    <2>3. ASSUME NEW i \in 1 .. L
          PROVE  Reached(walk'[i].block) /\ walk'[i + 1].block \in children[walk'[i].block]
        <3>1. CASE i = L
            BY <3>1, <1>2, <1>3, <1>5 DEF L
        <3>2. CASE i # L
            <4>1. i + 1 \in 1 .. L /\ i < L
                BY <3>2, <1>11
            <4>2. walk'[i].block = walk[i].block /\ walk'[i + 1].block = walk[i + 1].block
                BY <1>2, <4>1 DEF L
            <4> QED BY <1>1, <4>1, <4>2 DEF OnPath, L
        <3> QED BY <3>1, <3>2
    <2>4. ASSUME NEW i \in 1 .. Len(walk'), NEW j \in 1 .. Len(walk'), i < j
          PROVE  /\ walk'[i].block \in dom[walk'[j].block] /\ walk'[i].block # walk'[j].block
                 /\ walk'[i].mark <= walk'[j].mark
        <3>0. i \in 1 .. L
            BY <1>11, <2>4
        <3>1. CASE j = L + 1
            BY <3>0, <3>1, <1>2, <1>5, <1>8, <1>10 DEF L
        <3>2. CASE j \in 1 .. L
            BY <3>0, <3>2, <2>4, <1>1, <1>2 DEF OnPath, L
        <3> QED BY <3>1, <3>2, <1>11
    <2>5. \A i \in 1 .. Len(walk') : i < Len(walk') => i \in 1 .. L
        BY <1>11, <1>2 DEF L
    <2> QED BY <1>1, <1>4, <2>1, <2>2, <2>3, <2>4, <2>5 DEF OnPath
<1>13. Apart'
    <2> SUFFICES ASSUME NEW i \in 1 .. Len(walk'), NEW j \in 1 .. Len(walk'), NEW d \in walk'[i].todo
                 PROVE  walk'[j].block \notin Below(d)
        BY <1>4 DEF Apart
    <2>1. CASE i \in 1 .. L /\ j \in 1 .. L
        BY <2>1, <1>1, <1>2 DEF Apart, L
    <2>2. CASE i \in 1 .. L /\ j = L + 1
        <3>1. d \in walk[i].todo /\ walk'[j].block = c
            BY <2>2, <1>2, <1>5 DEF L
        <3>2. d # c
            <4>1. CASE i = L
                BY <4>1, <1>2 DEF L
            <4>2. CASE i # L
                <5>1. i < L /\ L \in 1 .. Len(walk) /\ i \in 1 .. Len(walk)
                    BY <2>2, <4>2, <1>3 DEF L
                <5>2. c # d
                    <6>1. idom[c] = b
                        BY <1>1, <1>2, <1>3, ChildFacts DEF b, L
                    <6>2. d \in children[walk[i].block] /\ walk[i].block \in Blocks
                        BY <1>1, <1>3, <3>1, <5>1 DEF OnPath, L
                    <6>3. idom[d] = walk[i].block
                        BY <1>1, <6>2, ChildFacts
                    <6>4. walk[i].block # b
                        BY <1>1, <5>1 DEF OnPath, b, L
                    <6> QED BY <6>1, <6>3, <6>4
                <5> QED BY <5>2
            <4> QED BY <4>1, <4>2
        <3>3. ASSUME c \in Below(d) PROVE FALSE
            <4>1. idom[c] = b
                BY <1>1, <1>2, <1>3, ChildFacts DEF b, L
            <4>2. d \in dom[b]
                BY <3>2, <3>3, <4>1 DEF Below
            <4>3. b \in Below(d)
                BY <4>2, <1>1, <1>2, <1>3, BelowReached DEF b, L
            <4> QED BY <4>3, <3>1, <2>2, <1>1, <1>3 DEF Apart, b, L
        <3> QED BY <3>1, <3>3
    <2>3. CASE i = L + 1
        <3>1. d \in children[c] /\ Reached(c)
            BY <2>3, <1>2, <1>5, <1>7 DEF L
        <3>2. Below(d) \subseteq Below(c) /\ c \notin Below(d)
            BY <3>1, <1>1, <1>2, BelowChild
        <3>3. CASE j \in 1 .. L
            <4>1. walk[j].block \notin Below(c)
                BY <3>3, <1>1, <1>2, <1>3 DEF Apart, L
            <4> QED BY <4>1, <3>2, <3>3, <1>2 DEF L
        <3>4. CASE j = L + 1
            BY <3>2, <3>4, <1>2, <1>5 DEF L
        <3> QED BY <3>3, <3>4, <1>11
    <2> QED BY <2>1, <2>2, <2>3, <1>11
<1> QED BY <1>12, <1>13

LEMMA PopPath == ASSUME DomInv, GvnShape, Walking, PopScope PROVE OnPath' /\ Apart'
<1>1. stage = "tree" /\ walk # << >> /\ OnPath /\ Apart /\ UNCHANGED vars
    BY DEF PopScope, Walking
<1>2. /\ children' = children /\ dom' = dom /\ Activations' = Activations
      /\ (\A x : Reached(x)' = Reached(x)) /\ \A x : Below(x)' = Below(x)
    BY <1>1, GvnFrame DEF vars
<1> DEFINE L == Len(walk)
<1>3. L \in Nat /\ L \in 1 .. L /\ Top = walk[L] /\ walk \in Seq(Activations)
    BY <1>1, PathTypes DEF OnPath
<1>4. /\ walk' \in Seq(Activations) /\ Len(walk') = L - 1
      /\ \A i \in 1 .. (L - 1) : walk'[i] = walk[i]
    <2>1. walk' = SubSeq(walk, 1, L - 1)
        BY DEF PopScope
    <2> HIDE DEF L
    <2>2. L = Len(walk) /\ L - 1 \in 0 .. Len(walk)
        BY <1>3 DEF L
    <2> QED BY <2>1, <2>2, <1>3
<1>5. Len(scope') = walk[L].mark
    <2>1. scope' = SubSeq(scope, 1, walk[L].mark) /\ walk[L].mark \in 0 .. Len(scope)
        BY <1>1, <1>3, MarkWithin DEF PopScope
    <2> QED BY <2>1 DEF GvnShape
<1> HIDE DEF L
<1>6. \A i \in 1 .. Len(walk') : i \in 1 .. L /\ i < L /\ walk'[i] = walk[i]
    BY <1>3, <1>4
<1>7. \A i \in 1 .. Len(walk') : i < Len(walk') => i + 1 \in 1 .. Len(walk') /\ walk'[i + 1] = walk[i + 1]
    BY <1>3, <1>4
<1>8. OnPath'
    <2>1. walk' \in Seq(Activations') /\ (walk' # << >> => walk'[1].block = 0)
        <3>1. walk' # << >> => 1 \in 1 .. Len(walk')
            BY <1>3, <1>4
        <3> QED BY <1>1, <1>2, <1>4, <1>6, <3>1 DEF OnPath
    <2>2. \A i \in 1 .. Len(walk') : /\ walk'[i].todo \subseteq children[walk'[i].block]
                                     /\ walk'[i].todo # {} => Reached(walk'[i].block)
                                     /\ i <= Cardinality(dom[walk'[i].block])
                                     /\ walk'[i].mark <= Len(scope')
        BY <1>1, <1>3, <1>5, <1>6 DEF OnPath, L
    <2>3. \A i \in 1 .. Len(walk') : i < Len(walk') =>
             Reached(walk'[i].block) /\ walk'[i + 1].block \in children[walk'[i].block]
        BY <1>1, <1>6, <1>7 DEF OnPath, L
    <2>4. \A i, j \in 1 .. Len(walk') : i < j =>
             /\ walk'[i].block \in dom[walk'[j].block] /\ walk'[i].block # walk'[j].block
             /\ walk'[i].mark <= walk'[j].mark
        BY <1>1, <1>6 DEF OnPath, L
    <2> QED BY <1>2, <2>1, <2>2, <2>3, <2>4 DEF OnPath
<1>9. Apart'
    BY <1>1, <1>2, <1>6 DEF Apart, L
<1> QED BY <1>8, <1>9

LEMMA GraphBlocks ==
    ASSUME TreeDone
    PROVE  /\ Nodes = 1 .. Len(code) /\ Len(code) \in Nat
           /\ \A b \in Blocks : /\ first[b] \in Nodes /\ last[b] \in Nodes
                                /\ first[b] <= last[b]
                                /\ BlockAt(first[b]) = b /\ BlockAt(last[b]) = b
                                /\ \A n \in Nodes : n \in first[b] .. last[b] <=> BlockAt(n) = b
<1>1. TreeDone /\ CodeOK
    BY TreeFacts
<1>2. /\ Blocks = 0 .. (HeadCount - 1)
      /\ first = [b \in Blocks |-> BlockHead(b)] /\ last = [b \in Blocks |-> LastOf(b)]
    BY <1>1, TreeFacts
<1>3. Nodes = 1 .. Len(code) /\ Len(code) \in Nat
    BY <1>1 DEF Nodes, CodeOK
<1>4. ASSUME NEW b \in Blocks
      PROVE  /\ first[b] \in Nodes /\ last[b] \in Nodes /\ first[b] <= last[b]
             /\ \A n \in Nodes : n \in first[b] .. last[b] <=> BlockAt(n) = b
    <2>1. b \in 0 .. (HeadCount - 1) /\ first[b] = BlockHead(b) /\ last[b] = LastOf(b)
        BY <1>2
    <2> QED BY <1>1, <2>1, BlockIsRange, BlockHeadFacts
<1>5. ASSUME NEW b \in Blocks
      PROVE  first[b] \in first[b] .. last[b] /\ last[b] \in first[b] .. last[b]
    BY <1>3, <1>4
<1> QED BY <1>3, <1>4, <1>5

LEMMA TreeBlocks ==
    ASSUME DomInv, GvnShape, stage = "tree"
    PROVE  /\ Nodes = 1 .. Len(code) /\ Len(code) \in Nat
           /\ \A b \in Blocks : /\ first[b] \in Nodes /\ last[b] \in Nodes
                                /\ first[b] <= last[b]
                                /\ BlockAt(first[b]) = b /\ BlockAt(last[b]) = b
                                /\ \A n \in Nodes : n \in first[b] .. last[b] <=> BlockAt(n) = b
BY TreeState, GraphBlocks

\* Where the block loop goes next, from a node of the list or a freed one.
LEMMA OnwardFacts ==
    ASSUME DomInv, GvnShape, OnPath, Inside, NumberNode \/ ReadFreedNode, last[Top.block] \in live
    PROVE  /\ here \in Nodes /\ here # 0 /\ walk # << >> /\ BlockAt(here) = Top.block
           /\ here' # 0 => here' \in Nodes /\ here' > here /\ BlockAt(here') = Top.block
           /\ \A n \in live : /\ BlockAt(n) = Top.block
                              /\ here' # 0 => n < here'
                              => n <= here
<1>1. stage = "tree" /\ live \subseteq Nodes /\ CodeOK /\ Nodes = 1 .. Len(code) /\ Len(code) \in Nat
    BY TreeState, TreeBlocks DEF NumberNode, ReadFreedNode, GvnShape
<1>2. here \in Nodes /\ here # 0
    <2>1. here \in 0 .. Len(code) /\ (here \in live \/ here # 0)
        BY DEF NumberNode, ReadFreedNode, GvnShape
    <2>2. here \in live => here \in 1 .. Len(code)
        BY <1>1
    <2> QED BY <1>1, <2>1, <2>2
<1>3. walk # << >> /\ BlockAt(here) = Top.block
    BY <1>2 DEF Inside
<1> DEFINE b == Top.block
<1>4. b \in Blocks
    BY <1>3, PathTypes DEF Activations
<1>5. /\ \A n \in Nodes : n \in first[b] .. last[b] <=> BlockAt(n) = b
      /\ first[b] \in Nodes /\ last[b] \in Nodes
    BY <1>1, <1>4, TreeBlocks
<1>6. here \in first[b] .. last[b] /\ here <= last[b] /\ first[b] <= here
    BY <1>2, <1>3, <1>5
<1>7. CASE here = last[b] /\ here' = 0
    BY <1>1, <1>2, <1>3, <1>5, <1>7
<1>8. CASE /\ here # last[b] /\ here' \in Nodes /\ here' > here /\ here' <= last[b]
           /\ \A k \in live : k > here => here' <= k
    <2>1. here' \in first[b] .. last[b]
        BY <1>1, <1>2, <1>5, <1>6, <1>8
    <2>2. BlockAt(here') = b
        BY <1>5, <1>8, <2>1
    <2>3. \A n \in live : n < here' => n <= here
        <3>1. \A n \in live : n \in Int
            BY <1>1
        <3>2. here' \in Int /\ here \in Int
            BY <1>1, <1>2, <1>8
        <3> QED BY <1>8, <3>1, <3>2
    <2> QED BY <1>1, <1>2, <1>3, <1>8, <2>2, <2>3
<1>9. CASE NumberNode
    <2>1. here \in Nat /\ here' = IF here = last[b] THEN 0 ELSE Following(here)
        BY <1>1, <1>2, <1>9 DEF NumberNode, Onward
    <2>2. CASE here # last[b]
        <3>1. last[b] > here
            BY <1>1, <1>5, <1>6, <2>2
        <3>2. /\ Following(here) \in live /\ Following(here) > here
              /\ \A k \in live : k > here => Following(here) <= k
            BY <1>1, <2>1, <3>1, FollowingFacts
        <3> QED BY <1>1, <1>8, <2>1, <2>2, <3>1, <3>2
    <2> QED BY <1>7, <2>1, <2>2
<1>10. CASE ReadFreedNode
    <2>1. here # last[b] /\ here < last[b]
        BY <1>1, <1>5, <1>6, <1>10 DEF ReadFreedNode
    <2>2. here' = here + 1 /\ here' <= last[b] /\ here' \in Nodes
        BY <1>1, <1>2, <1>5, <1>10, <2>1 DEF ReadFreedNode
    <2>3. \A k \in live : k > here => here' <= k
        BY <1>1, <1>2, <2>2
    <2> QED BY <1>1, <1>2, <1>8, <2>1, <2>2, <2>3
<1> QED BY <1>9, <1>10

LEMMA SamePath ==
    ASSUME GvnShape, OnPath, Apart, UNCHANGED <<vars, walk>>,
           scope' = scope \/ \E e : scope' = Append(scope, e)
    PROVE  OnPath' /\ Apart'
<1>1. /\ children' = children /\ dom' = dom /\ Activations' = Activations /\ walk' = walk
      /\ (\A x : Reached(x)' = Reached(x)) /\ \A x : Below(x)' = Below(x)
    BY GvnFrame DEF vars
<1>2. Len(scope) \in Nat /\ (Len(scope') = Len(scope) \/ Len(scope') = Len(scope) + 1)
    BY DEF GvnShape
<1>3. \A i \in 1 .. Len(walk) : walk[i].mark \in Nat
    BY PathTypes
<1>4. \A i \in 1 .. Len(walk) : walk[i].mark <= Len(scope')
    BY <1>2, <1>3 DEF OnPath
<1> QED BY <1>1, <1>4 DEF OnPath, Apart

LEMMA InsideStep ==
    ASSUME DomInv, GvnShape, Walking, [GvnNext]_<<vars, gvnVars>>, stage' = "tree"
    PROVE  Inside'
<1>1. CASE WalkTree
    <2>1. TreeDone /\ walk' = <<Activation(0)>> /\ here' = first[0] /\ UNCHANGED vars
        BY <1>1 DEF WalkTree, GvnShape, TreeDone
    <2>2. Len(walk') = 1 /\ walk'[1].block = 0 /\ walk' # << >>
        BY <2>1 DEF Activation
    <2>3. 0 \in Blocks /\ BlockAt(first[0]) = 0
        BY <2>1, TreeFacts, GraphBlocks
    <2> QED BY <2>1, <2>2, <2>3, GvnFrame DEF Inside, Top
<1>2. CASE WalkChild
    <2>1. stage = "tree" /\ walk # << >> /\ OnPath /\ UNCHANGED vars
        BY <1>2 DEF WalkChild, Walking
    <2>2. PICK c \in Blocks : /\ here' = first[c] /\ Len(walk') = Len(walk) + 1
                              /\ walk'[Len(walk) + 1] = Activation(c)
        BY <1>2, ChildActivation
    <2>3. Len(walk) \in Nat
        BY <2>1 DEF OnPath
    <2>4. Top'.block = c /\ walk' # << >>
        BY <2>2, <2>3 DEF Activation, Top
    <2>5. BlockAt(first[c]) = c
        BY <2>1, TreeBlocks
    <2> QED BY <2>1, <2>2, <2>4, <2>5, GvnFrame DEF Inside
<1>3. CASE PopScope
    BY <1>3 DEF PopScope, Inside
<1>4. CASE NumberNode \/ ReadFreedNode
    <2>1. /\ OnPath /\ Inside /\ UNCHANGED <<vars, live, walk>> /\ here # 0
        BY <1>4, TreeBlocks DEF NumberNode, ReadFreedNode, Walking, GvnShape
    <2>2. /\ last' = last /\ (\A n : BlockAt(n)' = BlockAt(n)) /\ Top' = Top /\ walk # << >>
        BY <2>1, GvnFrame DEF vars, Top, Inside
    <2>3. ASSUME last[Top.block] \in live, here' # 0 PROVE BlockAt(here') = Top.block
        BY <1>4, <2>1, <2>3, OnwardFacts
    <2> QED BY <2>1, <2>2, <2>3 DEF Inside
<1>5. CASE UNCHANGED <<vars, gvnVars>>
    <2>1. /\ Inside /\ UNCHANGED <<live, walk, here, last>> /\ Top' = Top
          /\ \A n : BlockAt(n)' = BlockAt(n)
        BY <1>5, GvnFrame DEF vars, gvnVars, Top, Walking
    <2> QED BY <2>1 DEF Inside
<1>6. CASE AnalyseThis \/ AnalyseOthers \/ DeadCode \/ TreeWalked \/ FollowOverwrittenLink \/ Scan
    BY <1>6 DEF AnalyseThis, AnalyseOthers, DeadCode, TreeWalked, FollowOverwrittenLink, Scan,
                ScanList, ScanNode, ListScanned, gvnVars, GvnShape
<1> QED BY <1>1, <1>2, <1>3, <1>4, <1>5, <1>6 DEF GvnNext, Pass, Number

LEMMA WalkingStep ==
    ASSUME DomInv, GvnShape, Walking, [GvnNext]_<<vars, gvnVars>>
    PROVE  Walking'
<1> SUFFICES ASSUME stage' = "tree" PROVE OnPath' /\ Apart'
    BY InsideStep DEF Walking
<1>1. CASE WalkTree
    BY <1>1, StartPath
<1>2. CASE WalkChild
    BY <1>2, ChildPath
<1>3. CASE PopScope
    BY <1>3, PopPath
<1>4. CASE NumberNode \/ ReadFreedNode \/ UNCHANGED <<vars, gvnVars>>
    <2>1. UNCHANGED <<vars, walk>> /\ stage = "tree"
        BY <1>4 DEF NumberNode, ReadFreedNode, gvnVars
    <2>2. scope' = scope \/ \E e : scope' = Append(scope, e)
        BY <1>4 DEF NumberNode, ReadFreedNode, gvnVars, Lookup
    <2> QED BY <2>1, <2>2, SamePath DEF Walking
<1>5. CASE AnalyseThis \/ AnalyseOthers \/ DeadCode \/ TreeWalked \/ FollowOverwrittenLink \/ Scan
    BY <1>5 DEF AnalyseThis, AnalyseOthers, DeadCode, TreeWalked, FollowOverwrittenLink, Scan,
                ScanList, ScanNode, ListScanned, gvnVars
<1> QED BY <1>1, <1>2, <1>3, <1>4, <1>5 DEF GvnNext, Pass, Number

-----------------------------------------------------------------------------
(* The walk as a whole.                                                    *)
GvnInv == DomInv /\ GvnShape /\ Walking

LEMMA GvnInitInv == GvnInit => GvnInv
<1> SUFFICES ASSUME GvnInit PROVE GvnInv
    OBVIOUS
<1>1. DomInv
    BY DomInit DEF GvnInit
<1>2. CodeOK
    BY <1>1 DEF DomInv, IInv, Shape, CodeOK
<1>3. GvnShape
    <2>1. copyOf \in [Nodes -> 0 .. Len(code)] /\ here \in 0 .. Len(code)
        BY <1>2 DEF GvnInit, CodeOK
    <2>2. DOMAIN table = {} /\ scope = << >> /\ walk = << >>
        BY DEF GvnInit, Empty
    <2>3. /\ stage = "dominance" /\ own \in BOOLEAN /\ live \subseteq Nodes
          /\ copyOf = [n \in Nodes |-> 0]
        BY DEF GvnInit
    <2>4. scope \in Seq({code[n].expr : n \in Nodes})
        BY <2>2
    <2> QED BY <2>1, <2>2, <2>3, <2>4 DEF GvnShape
<1>4. Walking
    BY DEF GvnInit, Walking
<1> QED BY <1>1, <1>3, <1>4 DEF GvnInv

LEMMA GvnStep == GvnInv /\ [GvnNext]_<<vars, gvnVars>> => GvnInv'
BY GvnDomStep, DomStep, ShapeStep, WalkingStep DEF GvnInv

LEMMA GvnInvariant == GvnSpec => []GvnInv
BY GvnInitInv, GvnStep, PTL DEF GvnSpec

\* Value numbering keeps to its types, for every program and every limit: a
\* copy names a node, only expressions of pure nodes are in the table, and the
\* recursion of gvn_walk_domtree is never deeper than there are blocks, also
\* where the tree hangs a block that cannot be reached from the entry.  The block
\* loop stays in its block whatever dce has freed of it, except the last node.
THEOREM NumberingTyped == GvnSpec => []GvnTypeOK
<1>1. ASSUME GvnInv PROVE GvnTypeOK
    <2>1. GvnShape /\ DomInv /\ Walking
        BY <1>1 DEF GvnInv
    <2>2. DOMAIN table \subseteq {code[n].expr : n \in Nodes} \ {NoExpr}
        <3> SUFFICES ASSUME NEW e \in DOMAIN table
                     PROVE  e \in {code[n].expr : n \in Nodes} \ {NoExpr}
            OBVIOUS
        <3>1. table[e] \in Nodes /\ code[table[e]].expr = e /\ e # NoExpr
            BY <2>1 DEF GvnShape
        <3> QED BY <3>1
    <2>3. Len(walk) <= blockCount
        <3>1. blockCount \in Nat
            BY <2>1, LimitsArePositive DEF DomInv, IInv, Shape
        <3>2. CASE walk = << >>
            BY <3>1, <3>2
        <3>3. CASE walk # << >>
            <4>1. stage = "tree" /\ OnPath
                BY <2>1, <3>3 DEF GvnShape, Walking
            <4>2. TreeDone
                BY <2>1, <4>1, TreeState
            <4> DEFINE b == walk[Len(walk)].block
            <4>3. b \in Blocks /\ Len(walk) \in Nat
                BY <4>1, <3>3, PathTypes
            <4>4. dom[b] \subseteq Blocks /\ IsFiniteSet(Blocks)
                BY <4>2, <4>3, TreeFacts
            <4>5. Cardinality(dom[b]) <= Cardinality(Blocks) /\ Cardinality(dom[b]) \in Nat
                BY <4>4, FS_Subset, FS_CardinalityType
            <4>6. Cardinality(Blocks) = blockCount
                <5>1. 0 \in Int /\ blockCount - 1 \in Int /\ 0 <= blockCount - 1
                    BY <3>1, <4>2 DEF TreeDone
                <5>2. Cardinality(0 .. (blockCount - 1)) = blockCount - 1 - 0 + 1
                    BY <5>1, FS_Interval
                <5> QED BY <5>2, <3>1 DEF Blocks
            <4>7. Len(walk) <= Cardinality(dom[b])
                BY <4>1, <3>3, PathTypes DEF OnPath
            <4> QED BY <4>3, <4>5, <4>6, <4>7, <3>1
        <3> QED BY <3>2, <3>3
    <2>4. ASSUME stage = "tree", here # 0, last[Top.block] \in live
          PROVE  here \in first[Top.block] .. last[Top.block]
        <3>1. OnPath /\ walk # << >> /\ BlockAt(here) = Top.block
            BY <2>1, <2>4 DEF Walking, Inside
        <3>2. Top.block \in Blocks
            BY <3>1, PathTypes
        <3>3. here \in Nodes
            BY <2>1, <2>4, TreeBlocks DEF GvnShape
        <3> QED BY <2>1, <2>4, <3>1, <3>2, <3>3, TreeBlocks
    <2> QED BY <2>1, <2>2, <2>3, <2>4 DEF GvnTypeOK, GvnShape
<1> QED BY <1>1, GvnInvariant, PTL

-----------------------------------------------------------------------------
(* The table and the scopes inside the walk.                               *)
\* The stack and the table hold the same expressions, each once.
Stacked ==
    /\ DOMAIN table = {scope[p] : p \in 1 .. Len(scope)}
    /\ \A p, q \in 1 .. Len(scope) : p < q => scope[p] # scope[q]

\* What has been looked at of the i-th block of the path.
Seen(i, n) == BlockAt(n) = walk[i].block /\ (i = Len(walk) /\ here # 0 => n < here)

\* An entry stands above the mark of the block it comes from and not above the next.
Placed ==
    \A p \in 1 .. Len(scope) :
        /\ table[scope[p]] \in live /\ copyOf[table[scope[p]]] = 0
        /\ \E i \in 1 .. Len(walk) :
              /\ Seen(i, table[scope[p]])
              /\ walk[i].mark < p
              /\ i < Len(walk) => p <= walk[i + 1].mark

\* Nothing that has been looked at is missing.
Filled ==
    \A n \in live : \A i \in 1 .. Len(walk) :
        code[n].expr # NoExpr /\ copyOf[n] = 0 /\ Seen(i, n)
        => code[n].expr \in DOMAIN table /\ table[code[n].expr] = n

TableRight == Stacked /\ Placed /\ Filled

TableInv == stage = "tree" /\ EndsKept => TableRight

\* The blocks of a path differ.
LEMMA PathDistinct ==
    ASSUME OnPath, NEW i \in 1 .. Len(walk), NEW j \in 1 .. Len(walk),
           walk[i].block = walk[j].block
    PROVE  i = j
<1>1. Len(walk) \in Nat
    BY DEF OnPath
<1>2. ~(i < j) /\ ~(j < i)
    BY DEF OnPath
<1> QED BY <1>1, <1>2

LEMMA StartTable == ASSUME DomInv, GvnShape, WalkTree PROVE TableRight'
<1>1. /\ stage = "start" /\ UNCHANGED <<vars, live, copyOf, table, scope>> /\ here' = first[0]
      /\ walk' = <<Activation(0)>> /\ own /\ blockCount > 0 /\ stage' = "tree"
    BY DEF WalkTree
<1>2. DOMAIN table = {} /\ scope = << >> /\ live \subseteq Nodes
    BY <1>1 DEF GvnShape
<1>3. Len(walk') = 1 /\ walk'[1].block = 0 /\ walk' # << >>
    BY <1>1 DEF Activation
<1>4. TreeDone /\ CodeOK
    BY <1>1 DEF TreeDone, GvnShape, CodeOK, DomInv, IInv, Shape
<1>5. /\ 0 \in Blocks /\ Blocks = 0 .. (HeadCount - 1)
      /\ first[0] = BlockHead(0)
    BY <1>4, TreeFacts
<1>6. /\ first[0] \in Nodes /\ LastOf(0) \in Nodes /\ first[0] <= LastOf(0)
      /\ \A n \in Nodes : n \in first[0] .. LastOf(0) <=> BlockAt(n) = 0
    BY <1>4, <1>5, BlockIsRange, BlockHeadFacts
<1>8. /\ code' = code /\ \A n : BlockAt(n)' = BlockAt(n)
    BY <1>1, GvnFrame DEF vars
<1>9. first[0] \in first[0] .. LastOf(0) /\ \A n \in Nodes : BlockAt(n) = 0 => ~(n < first[0])
    BY <1>4, <1>6 DEF Nodes, CodeOK
<1>11. Stacked' /\ Placed'
    BY <1>1, <1>2 DEF Stacked, Placed
<1>12. Filled'
    <2> SUFFICES ASSUME NEW n \in live, Seen(1, n)' PROVE FALSE
        BY <1>1, <1>3 DEF Filled
    <2>1. BlockAt(n) = 0 /\ (here' # 0 => n < first[0])
        BY <1>1, <1>3, <1>8 DEF Seen
    <2>2. first[0] # 0
        BY <1>4, <1>6 DEF Nodes, CodeOK
    <2> QED BY <1>1, <1>2, <1>9, <2>1, <2>2
<1> QED BY <1>11, <1>12 DEF TableRight

LEMMA ChildTable ==
    ASSUME DomInv, GvnShape, Walking, TableRight, WalkChild
    PROVE  TableRight'
<1>1. /\ stage = "tree" /\ here = 0 /\ walk # << >> /\ OnPath
      /\ UNCHANGED <<vars, live, copyOf, table, scope>> /\ live \subseteq Nodes
    BY DEF WalkChild, Walking, GvnShape
<1> DEFINE L == Len(walk)
<1>2. PICK c \in Blocks :
        /\ here' = first[c] /\ Len(walk') = L + 1
        /\ \A i \in 1 .. L : walk'[i].block = walk[i].block /\ walk'[i].mark = walk[i].mark
        /\ walk'[L + 1] = Activation(c)
    BY ChildActivation
<1>3. L \in Nat
    BY <1>1 DEF OnPath
<1>4. walk'[L + 1].block = c /\ walk'[L + 1].mark = Len(scope) /\ walk' # << >>
    BY <1>2, <1>3 DEF Activation
<1>5. /\ Nodes = 1 .. Len(code) /\ Len(code) \in Nat /\ first[c] \in Nodes /\ first[c] # 0
      /\ BlockAt(first[c]) = c /\ \A n \in Nodes : BlockAt(n) = c => ~(n < first[c])
    <2>1. /\ Nodes = 1 .. Len(code) /\ Len(code) \in Nat /\ first[c] \in Nodes /\ last[c] \in Nodes
          /\ BlockAt(first[c]) = c
          /\ \A n \in Nodes : n \in first[c] .. last[c] <=> BlockAt(n) = c
        BY <1>1, TreeBlocks
    <2> QED BY <2>1
<1>7. code' = code /\ \A n : BlockAt(n)' = BlockAt(n)
    BY <1>1, GvnFrame DEF vars
<1>8. Len(scope) \in Nat /\ Len(scope') = Len(scope)
    BY <1>1 DEF GvnShape
<1> HIDE DEF L
<1>9. ASSUME NEW i \in 1 .. L, NEW n PROVE Seen(i, n)' <=> Seen(i, n)
    <2>1. i # Len(walk')
        BY <1>2, <1>3
    <2> QED BY <2>1, <1>1, <1>2, <1>7 DEF Seen
<1>11. Stacked'
    BY <1>1 DEF Stacked, TableRight
<1>12. Placed'
    <2> SUFFICES ASSUME NEW p \in 1 .. Len(scope), NEW t, t = table[scope[p]]
                 PROVE  /\ t \in live /\ copyOf[t] = 0
                        /\ \E i \in 1 .. Len(walk') :
                              /\ Seen(i, t)'
                              /\ walk'[i].mark < p
                              /\ i < Len(walk') => p <= walk'[i + 1].mark
        BY <1>1 DEF Placed, Seen
    <2>1. /\ t \in live /\ copyOf[t] = 0
          /\ \E i \in 1 .. Len(walk) :
                /\ Seen(i, t)
                /\ walk[i].mark < p
                /\ i < Len(walk) => p <= walk[i + 1].mark
        BY DEF Placed, TableRight
    <2>2. PICK i \in 1 .. L : /\ Seen(i, t) /\ walk[i].mark < p
                              /\ i < L => p <= walk[i + 1].mark
        BY <2>1 DEF L
    <2>3. i \in 1 .. Len(walk') /\ Seen(i, t)' /\ walk'[i].mark < p
        BY <1>2, <1>3, <1>9, <2>2
    <2>4. p <= walk'[i + 1].mark
        <3>1. CASE i = L
            BY <3>1, <1>4, <1>8
        <3>2. CASE i # L
            BY <3>2, <2>2, <1>2, <1>3
        <3> QED BY <3>1, <3>2
    <2> QED BY <2>1, <2>3, <2>4
<1>13. Filled'
    <2> SUFFICES ASSUME NEW n \in live, NEW i \in 1 .. Len(walk'),
                        code[n].expr # NoExpr, copyOf[n] = 0, Seen(i, n)'
                 PROVE  code[n].expr \in DOMAIN table /\ table[code[n].expr] = n
        BY <1>1, <1>7 DEF Filled
    <2>1. CASE i \in 1 .. L
        BY <2>1, <1>9 DEF Filled, TableRight, L
    <2>2. CASE i = L + 1
        BY <2>2, <1>1, <1>2, <1>4, <1>5, <1>7 DEF Seen
    <2> QED BY <2>1, <2>2, <1>2, <1>3
<1> QED BY <1>11, <1>12, <1>13 DEF TableRight

LEMMA PopTable ==
    ASSUME DomInv, GvnShape, Walking, TableRight, PopScope
    PROVE  TableRight'
<1>1. /\ stage = "tree" /\ here = 0 /\ here' = 0 /\ walk # << >> /\ OnPath
      /\ UNCHANGED <<vars, live, copyOf>>
      /\ Stacked /\ Placed /\ Filled
    BY DEF PopScope, Walking, TableRight
<1> DEFINE L == Len(walk)
           M == Top.mark
           forgotten == {scope[i] : i \in (M + 1) .. Len(scope)}
<1>2. L \in Nat /\ L \in 1 .. L /\ Top = walk[L] /\ walk \in Seq(Activations)
    BY <1>1, PathTypes DEF OnPath
<1>3. M \in 0 .. Len(scope) /\ Len(scope) \in Nat /\ scope \in Seq({code[n].expr : n \in Nodes})
    BY <1>1, MarkWithin DEF GvnShape
<1>4. walk' = SubSeq(walk, 1, L - 1) /\ scope' = SubSeq(scope, 1, M)
      /\ table' = [e \in DOMAIN table \ forgotten |-> table[e]]
    BY DEF PopScope
<1>5. code' = code /\ \A n : BlockAt(n)' = BlockAt(n)
    BY <1>1, GvnFrame DEF vars
<1>6. \A i \in 1 .. L : walk[i].mark \in Nat
    BY <1>1, PathTypes
<1>7. L = Len(walk) /\ M = walk[L].mark
    BY <1>2
<1>8. \A p \in (M + 1) .. Len(scope) : scope[p] \in forgotten
    OBVIOUS
<1>9. \A e \in forgotten : \E p \in (M + 1) .. Len(scope) : e = scope[p]
    OBVIOUS
<1> HIDE DEF L, M, forgotten
<1>10. Len(walk') = L - 1 /\ \A i \in 1 .. (L - 1) : walk'[i] = walk[i]
    BY <1>2, <1>4, <1>7
<1>11. Len(scope') = M /\ \A i \in 1 .. M : scope'[i] = scope[i]
    BY <1>3, <1>4
<1>12. ASSUME NEW p \in 1 .. Len(scope), scope[p] \in forgotten PROVE p > M
    <2>1. PICK q \in (M + 1) .. Len(scope) : scope[p] = scope[q]
        BY <1>9, <1>12
    <2>2. q \in 1 .. Len(scope)
        BY <1>3, <2>1
    <2>3. p = q
        BY <1>1, <1>3, <2>1, <2>2 DEF Stacked
    <2> QED BY <2>3, <1>3
<1>13. ASSUME NEW i \in 1 .. (L - 1), NEW n PROVE Seen(i, n)' <=> Seen(i, n)
    BY <1>1, <1>2, <1>5, <1>10 DEF Seen
<1>15. Stacked'
    <2>1. DOMAIN table' = DOMAIN table \ forgotten
        BY <1>4
    <2>2. DOMAIN table = {scope[p] : p \in 1 .. Len(scope)}
        BY <1>1 DEF Stacked
    <2>3. ASSUME NEW e \in DOMAIN table' PROVE \E p \in 1 .. Len(scope') : e = scope'[p]
        <3>1. PICK p \in 1 .. Len(scope) : e = scope[p]
            BY <2>1, <2>2
        <3>2. ~(p \in (M + 1) .. Len(scope))
            BY <2>1, <3>1, <1>8
        <3>3. p \in 1 .. M
            BY <3>1, <3>2, <1>3
        <3> QED BY <3>1, <3>3, <1>11
    <2>4. ASSUME NEW p \in 1 .. Len(scope') PROVE scope'[p] \in DOMAIN table'
        <3>1. p \in 1 .. M /\ p \in 1 .. Len(scope) /\ scope'[p] = scope[p]
            BY <1>3, <1>11
        <3>2. scope[p] \notin forgotten
            BY <3>1, <1>12, <1>3
        <3> QED BY <2>1, <2>2, <3>1, <3>2
    <2>5. DOMAIN table' = {scope'[p] : p \in 1 .. Len(scope')}
        BY <2>3, <2>4
    <2>6. \A p, q \in 1 .. Len(scope') : p < q => scope'[p] # scope'[q]
        BY <1>1, <1>3, <1>11 DEF Stacked
    <2> QED BY <2>5, <2>6 DEF Stacked
<1>16. Placed'
    <2> SUFFICES ASSUME NEW p \in 1 .. Len(scope'), NEW t, t = table'[scope'[p]]
                 PROVE  /\ t \in live /\ copyOf[t] = 0
                        /\ \E i \in 1 .. Len(walk') :
                              /\ Seen(i, t)'
                              /\ walk'[i].mark < p
                              /\ i < Len(walk') => p <= walk'[i + 1].mark
        BY <1>1 DEF Placed, Seen
    <2>1. p \in 1 .. M /\ p \in 1 .. Len(scope) /\ scope'[p] = scope[p]
        BY <1>3, <1>11
    <2>2. scope[p] \notin forgotten
        BY <2>1, <1>12, <1>3
    <2>3. t = table[scope[p]]
        <3>1. scope[p] \in DOMAIN table
            BY <1>1, <2>1 DEF Stacked
        <3> QED BY <3>1, <2>1, <2>2, <1>4
    <2>4. /\ t \in live /\ copyOf[t] = 0
          /\ \E i \in 1 .. Len(walk) :
                /\ Seen(i, t)
                /\ walk[i].mark < p
                /\ i < Len(walk) => p <= walk[i + 1].mark
        BY <1>1, <2>1, <2>3 DEF Placed
    <2>5. PICK i \in 1 .. L : /\ Seen(i, t) /\ walk[i].mark < p
                              /\ i < L => p <= walk[i + 1].mark
        BY <2>4, <1>7
    <2>6. i # L
        BY <2>1, <2>5, <1>3, <1>7
    <2>7. i \in 1 .. (L - 1) /\ i \in 1 .. Len(walk')
        BY <2>5, <2>6, <1>2, <1>10
    <2>8. Seen(i, t)' /\ walk'[i].mark < p
        BY <2>5, <2>7, <1>10, <1>13
    <2>9. i < Len(walk') => p <= walk'[i + 1].mark
        <3> SUFFICES ASSUME i < Len(walk') PROVE p <= walk'[i + 1].mark
            OBVIOUS
        <3>1. i + 1 \in 1 .. (L - 1) /\ i < L
            BY <2>7, <1>2, <1>10
        <3> QED BY <3>1, <2>5, <1>10
    <2> QED BY <2>4, <2>7, <2>8, <2>9
<1>17. Filled'
    <2> SUFFICES ASSUME NEW n \in live, NEW i \in 1 .. Len(walk'),
                        code[n].expr # NoExpr, copyOf[n] = 0, Seen(i, n)'
                 PROVE  code[n].expr \in DOMAIN table' /\ table'[code[n].expr] = n
        BY <1>1, <1>5 DEF Filled
    <2>1. i \in 1 .. (L - 1) /\ i \in 1 .. L
        BY <1>2, <1>10
    <2>2. Seen(i, n)
        BY <2>1, <1>13
    <2>3. code[n].expr \in DOMAIN table /\ table[code[n].expr] = n
        BY <2>1, <2>2, <1>1, <1>7 DEF Filled
    <2>4. PICK p \in 1 .. Len(scope) : scope[p] = code[n].expr
        BY <2>3, <1>1 DEF Stacked
    <2>5. \E j \in 1 .. Len(walk) : /\ Seen(j, table[scope[p]])
                                    /\ j < Len(walk) => p <= walk[j + 1].mark
        BY <1>1 DEF Placed
    <2>6. PICK j \in 1 .. L : Seen(j, n) /\ (j < L => p <= walk[j + 1].mark)
        BY <2>3, <2>4, <2>5, <1>7
    <2>7. walk[j].block = walk[i].block
        BY <2>2, <2>6 DEF Seen
    <2>8. j = i
        BY <2>1, <2>6, <2>7, <1>1, <1>7, PathDistinct
    <2>9. p <= walk[i + 1].mark /\ i + 1 \in 1 .. L
        BY <2>1, <2>6, <2>8, <1>2
    <2>10. walk[i + 1].mark <= walk[L].mark
        <3>1. CASE i + 1 = L
            BY <3>1, <2>9, <1>6
        <3>2. CASE i + 1 # L
            <4>1. i + 1 < L /\ i + 1 \in 1 .. Len(walk) /\ L \in 1 .. Len(walk)
                BY <3>2, <2>9, <1>2, <1>7
            <4> QED BY <4>1, <1>1 DEF OnPath
        <3> QED BY <3>1, <3>2
    <2>11. p <= M
        BY <2>9, <2>10, <1>6, <1>2, <1>7
    <2>12. scope[p] \notin forgotten
        BY <2>11, <1>12, <1>3
    <2> QED BY <2>3, <2>4, <2>12, <1>4
<1> QED BY <1>15, <1>16, <1>17 DEF TableRight

\* Where dce has left the ends of the blocks, the loop stays in its block.
LEMMA NumberingStaysInside ==
    ASSUME DomInv, GvnShape, Walking, EndsKept, NumberNode \/ ReadFreedNode
    PROVE  /\ OnPath /\ Apart
           /\ here \in Nodes /\ here # 0 /\ walk # << >> /\ BlockAt(here) = Top.block
           /\ here' # 0 => here' \in Nodes /\ here' > here /\ BlockAt(here') = Top.block
           /\ \A n \in live : /\ BlockAt(n) = Top.block
                              /\ here' # 0 => n < here'
                              => n <= here
<1>1. OnPath /\ Apart /\ Inside
    BY DEF Walking, NumberNode, ReadFreedNode
<1>2. here # 0
    <2>1. stage = "tree" /\ live \subseteq Nodes
        BY DEF NumberNode, ReadFreedNode, GvnShape
    <2>2. 0 \notin Nodes
        BY <2>1, TreeBlocks
    <2> QED BY <2>1, <2>2 DEF NumberNode, ReadFreedNode
<1>3. last[Top.block] \in live
    <2>1. walk # << >>
        BY <1>1, <1>2 DEF Inside
    <2> QED BY <1>1, <2>1, PathTypes DEF EndsKept
<1> QED BY <1>1, <1>3, OnwardFacts

\* Passing over a freed node changes nothing: no node of the list is between it
\* and the next.
LEMMA FreedTable ==
    ASSUME DomInv, GvnShape, Walking, TableRight, EndsKept, ReadFreedNode
    PROVE  TableRight'
<1>1. /\ here \notin live /\ live \subseteq Nodes /\ Stacked /\ Placed /\ Filled
      /\ UNCHANGED <<vars, live, copyOf, table, scope, walk>>
    BY DEF ReadFreedNode, TableRight, GvnShape
<1>2. /\ OnPath /\ here \in Nodes /\ here # 0 /\ walk # << >>
      /\ here' # 0 => here' \in Nodes /\ here' > here
      /\ \A n \in live : BlockAt(n) = Top.block /\ (here' # 0 => n < here') => n <= here
    BY NumberingStaysInside
<1>3. code' = code /\ \A n : BlockAt(n)' = BlockAt(n)
    BY <1>1, GvnFrame DEF vars
<1>4. \A n \in Nodes : n \in Int
    <2>1. stage = "tree"
        BY DEF ReadFreedNode
    <2> QED BY <2>1, TreeBlocks
<1>5. ASSUME NEW i \in 1 .. Len(walk), NEW n \in live PROVE Seen(i, n)' <=> Seen(i, n)
    <2>1. CASE i = Len(walk)
        <3>1. walk[i] = Top /\ walk' = walk
            BY <2>1, <1>1 DEF Top
        <3>2. n \in Int /\ here \in Int /\ n # here /\ (here' # 0 => here' \in Int)
            BY <1>1, <1>2, <1>4
        <3>3. BlockAt(n) = Top.block => ((here' # 0 => n < here') <=> n < here)
            BY <1>2, <3>2
        <3> QED BY <2>1, <3>1, <3>3, <1>2, <1>3 DEF Seen
    <2>2. CASE i # Len(walk)
        BY <2>2, <1>1, <1>3 DEF Seen
    <2> QED BY <2>1, <2>2
<1>6. Stacked'
    BY <1>1 DEF Stacked
<1>7. Placed'
    <2> SUFFICES ASSUME NEW p \in 1 .. Len(scope), NEW t, t = table[scope[p]]
                 PROVE  /\ t \in live /\ copyOf[t] = 0
                        /\ \E i \in 1 .. Len(walk) :
                              /\ Seen(i, t)'
                              /\ walk[i].mark < p
                              /\ i < Len(walk) => p <= walk[i + 1].mark
        BY <1>1 DEF Placed, Seen
    <2>1. /\ t \in live /\ copyOf[t] = 0
          /\ \E i \in 1 .. Len(walk) :
                /\ Seen(i, t)
                /\ walk[i].mark < p
                /\ i < Len(walk) => p <= walk[i + 1].mark
        BY <1>1 DEF Placed
    <2> QED BY <2>1, <1>5
<1>8. Filled'
    <2> SUFFICES ASSUME NEW n \in live, NEW i \in 1 .. Len(walk),
                        code[n].expr # NoExpr, copyOf[n] = 0, Seen(i, n)'
                 PROVE  code[n].expr \in DOMAIN table /\ table[code[n].expr] = n
        BY <1>1, <1>3 DEF Filled
    <2> QED BY <1>1, <1>5 DEF Filled
<1> QED BY <1>6, <1>7, <1>8 DEF TableRight

LEMMA NumberTable ==
    ASSUME DomInv, GvnShape, Walking, TableRight, EndsKept, NumberNode
    PROVE  TableRight'
<1>1. /\ stage = "tree" /\ here \in live /\ live \subseteq Nodes
      /\ UNCHANGED <<vars, stage, own, live, walk>> /\ here' = Onward(here)
      /\ Stacked /\ Placed /\ Filled
      /\ copyOf \in [Nodes -> 0 .. Len(code)]
    BY DEF NumberNode, TableRight, GvnShape
<1>2. Nodes = 1 .. Len(code) /\ Len(code) \in Nat /\ here \in Nodes /\ here # 0
    BY <1>1, TreeBlocks
<1>3. OnPath /\ walk # << >> /\ BlockAt(here) = Top.block
    BY NumberingStaysInside
<1> DEFINE L == Len(walk)
<1>4. L \in Nat /\ L \in 1 .. Len(walk) /\ Top = walk[L] /\ Len(walk') = L /\ L = Len(walk)
    BY <1>1, <1>3, PathTypes DEF OnPath
<1>5. code' = code /\ walk' = walk /\ live' = live /\ (\A n : BlockAt(n)' = BlockAt(n))
      /\ Top' = Top
    BY <1>1, GvnFrame DEF vars, Top
<1>6. /\ here' # 0 => here' \in Nodes /\ here' > here /\ BlockAt(here') = Top.block
      /\ \A n \in live : BlockAt(n) = Top.block /\ (here' # 0 => n < here') => n <= here
    BY NumberingStaysInside
<1>7. Len(scope) \in Nat /\ scope \in Seq({code[n].expr : n \in Nodes})
    BY DEF GvnShape
<1>8. \A e \in DOMAIN table : table[e] \in Nodes /\ code[table[e]].expr = e /\ e # NoExpr
    BY DEF GvnShape
<1> HIDE DEF L
<1>15. /\ here \in Int /\ (here' # 0 => here' \in Int) /\ \A n \in live : n \in Int
    <2>1. \A n \in live : n \in 1 .. Len(code)
        BY <1>1, <1>2
    <2>2. here' # 0 => here' \in 1 .. Len(code)
        BY <1>2, <1>6
    <2> QED BY <2>1, <2>2, <1>1
\* What had been looked at still is; the only addition is the node itself.
<1>9. ASSUME NEW i \in 1 .. L, NEW n \in live
      PROVE  /\ Seen(i, n) => Seen(i, n)'
             /\ Seen(i, n)' /\ n # here => Seen(i, n)
    <2>1. CASE i = L
        <3>1. Seen(i, n) <=> BlockAt(n) = Top.block /\ n < here
            BY <2>1, <1>2, <1>4 DEF Seen
        <3>2. Seen(i, n)' <=> BlockAt(n) = Top.block /\ (here' # 0 => n < here')
            BY <2>1, <1>4, <1>5 DEF Seen
        <3> QED BY <3>1, <3>2, <1>6, <1>15
    <2>2. CASE i # L
        BY <2>2, <1>4, <1>5 DEF Seen
    <2> QED BY <2>1, <2>2
<1>10. ASSUME NEW h, h = here, NEW l, l = L PROVE Seen(l, h)'
    <2>1. Seen(l, h)' <=> BlockAt(h) = Top.block /\ (here' # 0 => h < here')
        BY <1>4, <1>5, <1>10 DEF Seen
    <2> QED BY <2>1, <1>3, <1>6, <1>10, <1>15
<1>11. \A p \in 1 .. Len(scope) : table[scope[p]] # here
    <2> SUFFICES ASSUME NEW p \in 1 .. Len(scope), table[scope[p]] = here PROVE FALSE
        OBVIOUS
    <2>1. PICK i \in 1 .. Len(walk) : Seen(i, here)
        BY <1>1 DEF Placed
    <2>2. walk[i].block = walk[L].block
        BY <2>1, <1>3, <1>4 DEF Seen
    <2>3. i = L
        BY <2>2, <1>3, <1>4, PathDistinct
    <2> QED BY <2>1, <2>3, <1>2, <1>4 DEF Seen
<1>13. CASE ~Pure(here) \/ code[here].expr \in DOMAIN table
    <2>1. UNCHANGED <<table, scope>> /\ \A n \in Nodes : n # here => copyOf'[n] = copyOf[n]
        <3>1. CASE ~Pure(here)
            BY <3>1 DEF NumberNode
        <3>2. CASE Pure(here)
            <4>1. Lookup(here)
                BY <3>2 DEF NumberNode
            <4>2. copyOf' = [copyOf EXCEPT ![here] = table[code[here].expr]] /\ UNCHANGED <<table, scope>>
                BY <4>1, <1>13, <3>2 DEF Lookup
            <4> QED BY <4>2, <1>1
        <3> QED BY <3>1, <3>2
    <2>2. ~(code[here].expr # NoExpr /\ copyOf'[here] = 0)
        <3>1. CASE ~Pure(here)
            BY <3>1 DEF NumberNode, Pure
        <3>2. CASE Pure(here)
            <4>1. Lookup(here) /\ code[here].expr \in DOMAIN table
                BY <3>2, <1>13 DEF NumberNode
            <4>2. copyOf' = [copyOf EXCEPT ![here] = table[code[here].expr]]
                BY <4>1 DEF Lookup
            <4>3. copyOf'[here] \in Nodes
                BY <4>1, <4>2, <1>1, <1>2, <1>8
            <4> QED BY <4>3, <1>2
        <3> QED BY <3>1, <3>2
    <2>3. Stacked'
        BY <2>1, <1>1 DEF Stacked
    <2>4. Placed'
        <3> SUFFICES ASSUME NEW p \in 1 .. Len(scope), NEW t, t = table[scope[p]]
                     PROVE  /\ t \in live /\ copyOf'[t] = 0
                            /\ \E i \in 1 .. L :
                                  /\ Seen(i, t)'
                                  /\ walk[i].mark < p
                                  /\ i < L => p <= walk[i + 1].mark
            BY <1>4, <1>5, <2>1 DEF Placed, Seen
        <3>1. /\ t \in live /\ copyOf[t] = 0
              /\ \E i \in 1 .. L :
                    /\ Seen(i, t)
                    /\ walk[i].mark < p
                    /\ i < L => p <= walk[i + 1].mark
            BY <1>1, <1>4 DEF Placed
        <3> QED BY <3>1, <2>1, <1>1, <1>9, <1>11
    <2>5. Filled'
        <3> SUFFICES ASSUME NEW n \in live, NEW i \in 1 .. L,
                            code[n].expr # NoExpr, copyOf'[n] = 0, Seen(i, n)'
                     PROVE  code[n].expr \in DOMAIN table /\ table[code[n].expr] = n
            BY <1>4, <1>5, <2>1 DEF Filled
        <3>1. n # here
            BY <2>2
        <3> QED BY <3>1, <2>1, <1>1, <1>4, <1>9 DEF Filled
    <2> QED BY <2>3, <2>4, <2>5 DEF TableRight
<1>14. CASE Pure(here) /\ code[here].expr \notin DOMAIN table
    <2> DEFINE x == code[here].expr
    <2>1. /\ table' = [e \in DOMAIN table \cup {x} |-> IF e = x THEN here ELSE table[e]]
          /\ scope' = Append(scope, x) /\ copyOf' = copyOf
        BY <1>1, <1>14 DEF NumberNode, Lookup
    <2>10. copyOf' = copyOf
        BY <2>1
    <2>2. x \notin DOMAIN table /\ copyOf[here] = 0
        BY <1>14 DEF Pure
    <2> HIDE DEF x
    <2>3. /\ Len(scope') = Len(scope) + 1 /\ scope'[Len(scope) + 1] = x
          /\ \A p \in 1 .. Len(scope) : scope'[p] = scope[p]
        BY <2>1, <1>7
    <2>4. DOMAIN table = {scope[p] : p \in 1 .. Len(scope)}
        BY <1>1 DEF Stacked
    <2>5. ASSUME NEW p \in 1 .. Len(scope) PROVE scope[p] \in DOMAIN table /\ table'[scope[p]] = table[scope[p]]
        BY <2>1, <2>2, <2>4
    <2>6. table'[x] = here /\ DOMAIN table' = DOMAIN table \cup {x}
        BY <2>1
    <2>7. Stacked'
        <3>1. ASSUME NEW e \in DOMAIN table' PROVE \E p \in 1 .. Len(scope') : e = scope'[p]
            <4>1. CASE e = x
                BY <4>1, <2>3, <1>7
            <4>2. CASE e # x
                <5>1. PICK p \in 1 .. Len(scope) : e = scope[p]
                    BY <3>1, <4>2, <2>4, <2>6
                <5> QED BY <5>1, <2>3, <1>7
            <4> QED BY <4>1, <4>2
        <3>2. ASSUME NEW p \in 1 .. Len(scope') PROVE scope'[p] \in DOMAIN table'
            <4>1. CASE p = Len(scope) + 1
                BY <4>1, <2>3, <2>6
            <4>2. CASE p # Len(scope) + 1
                <5>1. p \in 1 .. Len(scope)
                    BY <4>2, <2>3, <1>7
                <5> QED BY <5>1, <2>3, <2>5, <2>6
            <4> QED BY <4>1, <4>2
        <3>3. DOMAIN table' = {scope'[p] : p \in 1 .. Len(scope')}
            BY <3>1, <3>2
        <3>4. ASSUME NEW p \in 1 .. Len(scope'), NEW q \in 1 .. Len(scope'), p < q
              PROVE  scope'[p] # scope'[q]
            <4>1. p \in 1 .. Len(scope)
                BY <3>4, <2>3, <1>7
            <4>2. CASE q = Len(scope) + 1
                BY <4>1, <4>2, <2>2, <2>3, <2>5
            <4>3. CASE q # Len(scope) + 1
                <5>1. q \in 1 .. Len(scope)
                    BY <4>3, <2>3, <1>7
                <5> QED BY <4>1, <5>1, <3>4, <2>3, <1>1 DEF Stacked
            <4> QED BY <4>2, <4>3
        <3> QED BY <3>3, <3>4 DEF Stacked
    <2>8. Placed'
        <3> SUFFICES ASSUME NEW p \in 1 .. Len(scope'), NEW t, t = table'[scope'[p]]
                     PROVE  /\ t \in live /\ copyOf[t] = 0
                            /\ \E i \in 1 .. L :
                                  /\ Seen(i, t)'
                                  /\ walk[i].mark < p
                                  /\ i < L => p <= walk[i + 1].mark
            BY <1>4, <1>5, <2>10 DEF Placed, Seen
        <3>1. CASE p = Len(scope) + 1
            <4>1. t = here
                BY <3>1, <2>3, <2>6
            <4>2. walk[L].mark < p
                BY <3>1, <1>3, <1>4, MarkWithin
            <4>3. ~(L < L)
                BY <1>4
            <4>4. PICK l : l = L
                OBVIOUS
            <4>5. Seen(l, t)'
                BY <4>1, <4>4, <1>10
            <4> QED BY <4>1, <4>2, <4>3, <4>4, <4>5, <1>1, <1>4, <2>2
        <3>2. CASE p # Len(scope) + 1
            <4>1. p \in 1 .. Len(scope)
                BY <3>2, <2>3, <1>7
            <4>2. t = table[scope[p]]
                BY <4>1, <2>3, <2>5
            <4>3. /\ t \in live /\ copyOf[t] = 0
                  /\ \E i \in 1 .. L :
                        /\ Seen(i, t)
                        /\ walk[i].mark < p
                        /\ i < L => p <= walk[i + 1].mark
                BY <4>1, <4>2, <1>1, <1>4 DEF Placed
            <4> QED BY <4>3, <1>9
        <3> QED BY <3>1, <3>2
    <2>9. Filled'
        <3> SUFFICES ASSUME NEW n \in live, NEW i \in 1 .. L,
                            code[n].expr # NoExpr, copyOf[n] = 0, Seen(i, n)'
                     PROVE  code[n].expr \in DOMAIN table' /\ table'[code[n].expr] = n
            BY <1>4, <1>5, <2>1 DEF Filled
        <3>1. CASE n = here
            BY <3>1, <2>6 DEF x
        <3>2. CASE n # here
            <4>1. code[n].expr \in DOMAIN table /\ table[code[n].expr] = n
                BY <3>2, <1>1, <1>4, <1>9 DEF Filled
            <4>2. code[n].expr # x
                BY <4>1, <2>2
            <4> QED BY <4>1, <4>2, <2>1
        <3> QED BY <3>1, <3>2
    <2> QED BY <2>7, <2>8, <2>9 DEF TableRight
<1> QED BY <1>13, <1>14

LEMMA TableStep ==
    ASSUME DomInv, GvnShape, Walking, TableInv, [GvnNext]_<<vars, gvnVars>>
    PROVE  TableInv'
<1> SUFFICES ASSUME stage' = "tree", EndsKept' PROVE TableRight'
    BY DEF TableInv
<1>1. ASSUME stage = "tree" \/ WalkTree, UNCHANGED <<vars, live>> PROVE EndsKept
    BY <1>1, GvnFrame DEF EndsKept, vars
<1>2. CASE WalkTree
    BY <1>2, StartTable
<1>3. CASE WalkChild
    BY <1>1, <1>3, ChildTable DEF WalkChild, TableInv
<1>4. CASE PopScope
    BY <1>1, <1>4, PopTable DEF PopScope, TableInv
<1>5. CASE NumberNode
    BY <1>1, <1>5, NumberTable DEF NumberNode, TableInv
<1>6. CASE ReadFreedNode
    BY <1>1, <1>6, FreedTable DEF ReadFreedNode, TableInv
<1>7. CASE UNCHANGED <<vars, gvnVars>>
    <2>1. stage = "tree" /\ EndsKept /\ TableRight
        BY <1>1, <1>7 DEF gvnVars, TableInv
    <2>2. UNCHANGED <<code, live, copyOf, table, scope, walk, here>>
          /\ (\A n : BlockAt(n)' = BlockAt(n)) /\ Top' = Top
        BY <1>7, GvnFrame DEF vars, gvnVars, Top
    <2>3. \A i, n : Seen(i, n)' <=> Seen(i, n)
        BY <2>2 DEF Seen
    <2>5. Stacked'
        BY <2>1, <2>2 DEF TableRight, Stacked
    <2>6. Placed'
        BY <2>1, <2>2, <2>3 DEF TableRight, Placed
    <2>7. Filled'
        BY <2>1, <2>2, <2>3 DEF TableRight, Filled
    <2> QED BY <2>5, <2>6, <2>7 DEF TableRight
<1>8. CASE AnalyseThis \/ AnalyseOthers \/ DeadCode \/ TreeWalked \/ FollowOverwrittenLink \/ Scan
    BY <1>8 DEF AnalyseThis, AnalyseOthers, DeadCode, TreeWalked, FollowOverwrittenLink, Scan,
                ScanList, ScanNode, ListScanned, gvnVars
<1> QED BY <1>2, <1>3, <1>4, <1>5, <1>6, <1>7, <1>8 DEF GvnNext, Pass, Number

\* Inside a block the table of value numbering holds exactly what the blocks on
\* the way down to it have inserted, for every program whose block edges dce has
\* left and for every limit: gvn_scope_pop takes away what the block it leaves
\* has inserted, all of it, and nothing of the blocks above.
THEOREM TableHoldsTheWayDown == GvnSpec => []TableIsTheWayDown
<1>1. GvnInit => TableInv
    BY DEF GvnInit, TableInv
<1>2. GvnInv /\ TableInv /\ [GvnNext]_<<vars, gvnVars>> => TableInv'
    BY TableStep DEF GvnInv
<1>3. ASSUME GvnInv, TableInv PROVE TableIsTheWayDown
    <2> SUFFICES ASSUME stage = "tree", EndsKept, NEW n \in Nodes
                 PROVE  (\E e \in DOMAIN table : table[e] = n)
                        <=> /\ n \in live /\ code[n].expr # NoExpr /\ copyOf[n] = 0
                            /\ \E i \in 1 .. Len(walk) :
                                  /\ n \in first[walk[i].block] .. last[walk[i].block]
                                  /\ i = Len(walk) /\ here # 0 => n < here
        BY DEF TableIsTheWayDown
    <2>1. DomInv /\ GvnShape /\ Walking /\ OnPath /\ Stacked /\ Placed /\ Filled
        BY <1>3 DEF GvnInv, TableInv, TableRight, Walking
    <2>2. ASSUME NEW i \in 1 .. Len(walk)
          PROVE  Seen(i, n) <=> /\ n \in first[walk[i].block] .. last[walk[i].block]
                                /\ i = Len(walk) /\ here # 0 => n < here
        <3>1. walk # << >>
            BY <2>1 DEF OnPath
        <3>2. walk[i].block \in Blocks
            BY <2>1, <3>1, PathTypes
        <3> QED BY <3>2, <2>1, TreeBlocks DEF Seen
    <2>3. ASSUME NEW e \in DOMAIN table, table[e] = n
          PROVE  /\ n \in live /\ code[n].expr # NoExpr /\ copyOf[n] = 0
                 /\ \E i \in 1 .. Len(walk) : Seen(i, n)
        <3>1. PICK p \in 1 .. Len(scope) : e = scope[p]
            BY <2>1 DEF Stacked
        <3>2. /\ table[scope[p]] \in live /\ copyOf[table[scope[p]]] = 0
              /\ \E i \in 1 .. Len(walk) : Seen(i, table[scope[p]])
            BY <2>1 DEF Placed
        <3>3. code[n].expr # NoExpr
            BY <2>1, <2>3 DEF GvnShape
        <3> QED BY <3>1, <3>2, <3>3, <2>3
    <2>4. ASSUME n \in live, code[n].expr # NoExpr, copyOf[n] = 0,
                 NEW i \in 1 .. Len(walk), Seen(i, n)
          PROVE  \E e \in DOMAIN table : table[e] = n
        BY <2>1, <2>4 DEF Filled
    <2> QED BY <2>2, <2>3, <2>4
<1> QED BY <1>1, <1>2, <1>3, GvnInvariant, PTL DEF GvnSpec

-----------------------------------------------------------------------------
(* The copies.                                                             *)
\* Where a copy reads from, for a relation that says "before".
Copies(before(_, _)) ==
    \A n \in Nodes : copyOf[n] # 0 =>
        /\ copyOf[n] \in live /\ copyOf[copyOf[n]] = 0
        /\ code[copyOf[n]].expr = code[n].expr
        /\ before(copyOf[n], n)

Earlier(m, n) == BlockAt(m) = BlockAt(n) /\ m < n

\* What the walk has still to look at.
Pending(n) ==
    \/ \E i \in 1 .. Len(walk) : \E d \in walk[i].todo : BlockAt(n) \in Below(d)
    \/ here # 0 /\ BlockAt(n) = Top.block /\ n >= here

\* It takes no part in a copy.
Untouched(n) == copyOf[n] = 0 /\ \A k \in Nodes : copyOf[k] # n

Fresh == \A n \in Nodes : Pending(n) => Untouched(n)

\* dce keeps every label (is_side_effect, ir_pass_manager.c:52-60).
LabelsStay == \A n \in Nodes : code[n].op = "label" => ~code[n].unread

LabelsLive == \A n \in Nodes : code[n].op = "label" => n \in live

\* The scan of the list: the table holds nodes of the block it is in.
Scanned ==
    /\ \A e \in DOMAIN table :
          /\ table[e] \in live /\ copyOf[table[e]] = 0
          /\ here # 0 => /\ table[e] < here
                         /\ code[here].op # "label" => BlockAt(table[e]) = BlockAt(here)
    /\ \A n \in Nodes : copyOf[n] # 0 /\ here # 0 => n < here

CopyInv ==
    /\ stage \in {"dominance", "dce"} => live = Nodes
    /\ stage = "tree" /\ EndsKept => Copies(Behind) /\ Fresh
    /\ stage \in {"start", "linear"} /\ LabelsStay => LabelsLive
    /\ stage = "linear" /\ LabelsStay => Copies(Earlier) /\ Scanned
    /\ stage = "finished" /\ own /\ blockCount # 0 /\ EndsKept => Copies(Behind)
    /\ stage = "finished" /\ ~(own /\ blockCount # 0) /\ LabelsStay => Copies(Earlier)

\* No block starts between two nodes of different blocks: they are not different.
LEMMA SameBlockBetween ==
    ASSUME CodeOK, NEW j \in Nodes, NEW k \in Nodes, j <= k,
           \A h \in (j + 1) .. k : ~Opens(h)
    PROVE  BlockAt(j) = BlockAt(k)
<1>1. Nodes = 1 .. Len(code) /\ Len(code) \in Nat
    BY DEF Nodes, CodeOK
<1> DEFINE b == BlockAt(k)
<1>2. b \in 0 .. (HeadCount - 1)
    BY BlockAtType
<1>3. /\ BlockHead(b) \in Nodes /\ Opens(BlockHead(b))
      /\ LastOf(b) \in Nodes
      /\ \A n \in Nodes : n \in BlockHead(b) .. LastOf(b) <=> BlockAt(n) = b
    BY <1>2, BlockIsRange, BlockHeadFacts
<1>4. k \in BlockHead(b) .. LastOf(b)
    BY <1>3
<1> HIDE DEF b
<1>5. BlockHead(b) <= j
    <2> SUFFICES ASSUME ~(BlockHead(b) <= j) PROVE FALSE
        OBVIOUS
    <2>1. BlockHead(b) \in (j + 1) .. k
        BY <1>1, <1>3, <1>4
    <2> QED BY <2>1, <1>3
<1>6. j \in BlockHead(b) .. LastOf(b)
    BY <1>1, <1>3, <1>4, <1>5
<1> QED BY <1>3, <1>6 DEF b

\* The scan of the list finds the expressions of the block it is in.
LEMMA ScanCopies ==
    ASSUME DomInv, GvnShape, LabelsLive, Copies(Earlier), Scanned, ScanNode
    PROVE  Copies(Earlier)' /\ Scanned'
<1>1. /\ here # 0 /\ here \in live /\ live \subseteq Nodes /\ CodeOK
      /\ UNCHANGED <<vars, live>> /\ here' = Following(here)
      /\ copyOf \in [Nodes -> 0 .. Len(code)]
    BY DEF ScanNode, GvnShape, DomInv, IInv, Shape, CodeOK
<1>2. Nodes = 1 .. Len(code) /\ Len(code) \in Nat /\ here \in Nodes /\ here \in Nat
    BY <1>1 DEF Nodes, CodeOK
<1>3. code' = code /\ Nodes' = Nodes /\ \A n : BlockAt(n)' = BlockAt(n)
    BY <1>1, GvnFrame DEF vars
<1>4. \A m, n : Earlier(m, n)' <=> Earlier(m, n)
    BY <1>3 DEF Earlier
<1>5. /\ here' # 0 => here' \in live /\ here' > here
      /\ \A k \in live : k > here => here' # 0 /\ here' <= k
    BY <1>1, <1>2, FollowingFacts
<1>6. \A e \in DOMAIN table : table[e] \in Nodes /\ code[table[e]].expr = e /\ e # NoExpr
    BY DEF GvnShape
<1>11. (here' # 0 => here' \in Int) /\ \A n \in Nodes : n \in Int
    <2>1. here' # 0 => here' \in Nodes
        BY <1>1, <1>5
    <2> QED BY <2>1, <1>2
<1>7. ASSUME here' # 0, code[here'].op # "label" PROVE BlockAt(here) = BlockAt(here')
    <2>1. here' \in Nodes /\ here \in Nodes /\ here <= here'
        <3>1. here' \in Nodes /\ here' > here
            BY <1>1, <1>5, <1>7
        <3> QED BY <3>1, <1>2, <1>11, <1>7
    <2>2. ASSUME NEW h \in (here + 1) .. here', Opens(h) PROVE FALSE
        <3>1. h \in Nodes /\ h # 1 /\ h > here
            BY <1>2, <2>1
        <3>2. code[h].op = "label"
            BY <3>1, <2>2 DEF Opens
        <3>3. here' <= h /\ h <= here'
            BY <3>1, <3>2, <1>2, <1>5, <2>1 DEF LabelsLive
        <3>4. h = here'
            BY <3>3, <3>1, <2>1, <1>2
        <3> QED BY <3>2, <3>4, <1>7
    <2> QED BY <1>1, <2>1, <2>2, SameBlockBetween
<1>8. CASE code[here].op = "label"
    <2>1. table' = Empty /\ copyOf' = copyOf
        BY <1>8 DEF ScanNode
    <2>2. Copies(Earlier)'
        BY <2>1, <1>1, <1>3, <1>4 DEF Copies
    <2>3. \A n \in Nodes : copyOf[n] # 0 /\ here' # 0 => n < here'
        BY <1>1, <1>2, <1>5 DEF Scanned
    <2>4. DOMAIN table' = {}
        BY <2>1 DEF Empty
    <2> QED BY <2>1, <2>2, <2>3, <2>4, <1>3 DEF Scanned
<1>9. CASE code[here].op # "label" /\ ~Pure(here)
    <2>1. table' = table /\ copyOf' = copyOf
        BY <1>9 DEF ScanNode
    <2>2. Copies(Earlier)'
        BY <2>1, <1>1, <1>3, <1>4 DEF Copies
    <2>3. \A n \in Nodes : copyOf[n] # 0 /\ here' # 0 => n < here'
        BY <1>1, <1>2, <1>5 DEF Scanned
    <2>4. ASSUME NEW e \in DOMAIN table
          PROVE  /\ table[e] \in live /\ copyOf[table[e]] = 0
                 /\ here' # 0 => /\ table[e] < here'
                                 /\ code[here'].op # "label" => BlockAt(table[e]) = BlockAt(here')
        <3>1. /\ table[e] \in live /\ copyOf[table[e]] = 0
              /\ table[e] < here /\ BlockAt(table[e]) = BlockAt(here)
            BY <1>1, <1>9 DEF Scanned
        <3> QED BY <3>1, <1>1, <1>2, <1>5, <1>6, <1>7, <1>11
    <2> QED BY <2>1, <2>2, <2>3, <2>4, <1>1, <1>3 DEF Scanned
<1>10. CASE code[here].op # "label" /\ Pure(here)
    <2>1. Lookup(here) /\ stage = "linear"
        BY <1>10 DEF ScanNode
    <2>2. copyOf[here] = 0
        BY <1>10 DEF Pure
    <2>3. ASSUME NEW e \in DOMAIN table
          PROVE  /\ table[e] \in live /\ copyOf[table[e]] = 0 /\ table[e] # here
                 /\ table[e] < here /\ BlockAt(table[e]) = BlockAt(here)
        BY <1>1, <1>2, <1>6, <1>10 DEF Scanned
    <2>4. \A n \in Nodes : copyOf[n] # 0 => n < here
        BY <1>1 DEF Scanned
    <2>5. \A n \in Nodes : copyOf[n] # here
        <3> SUFFICES ASSUME NEW n \in Nodes, copyOf[n] = here PROVE FALSE
            OBVIOUS
        <3>1. n < here /\ here < n
            BY <1>1, <2>4 DEF Copies, Earlier
        <3> QED BY <3>1, <1>2
    <2>6. CASE code[here].expr \in DOMAIN table
        <3> DEFINE m == table[code[here].expr]
        <3>1. copyOf' = [copyOf EXCEPT ![here] = m] /\ table' = table
            BY <2>1, <2>6 DEF Lookup
        <3>2. /\ m \in live /\ copyOf[m] = 0 /\ m # here /\ m < here /\ BlockAt(m) = BlockAt(here)
              /\ code[m].expr = code[here].expr /\ m \in Nodes
            BY <2>3, <2>6, <1>6
        <3> HIDE DEF m
        <3>3. copyOf'[here] = m /\ \A n \in Nodes : n # here => copyOf'[n] = copyOf[n]
            BY <3>1, <1>1, <1>2
        <3>4. ASSUME NEW n \in Nodes, copyOf'[n] # 0
              PROVE  /\ copyOf'[n] \in live /\ copyOf'[copyOf'[n]] = 0
                     /\ code[copyOf'[n]].expr = code[n].expr
                     /\ Earlier(copyOf'[n], n)
            <4>1. CASE n = here
                BY <4>1, <3>2, <3>3 DEF Earlier
            <4>2. CASE n # here
                BY <4>2, <3>3, <3>4, <2>5, <1>1 DEF Copies
            <4> QED BY <4>1, <4>2
        <3>5. Copies(Earlier)'
            BY <3>4, <1>1, <1>3, <1>4 DEF Copies
        <3>6. \A n \in Nodes : copyOf'[n] # 0 /\ here' # 0 => n < here'
            BY <3>2, <3>3, <2>4, <1>2, <1>5, <1>11
        <3>7. ASSUME NEW e \in DOMAIN table
              PROVE  /\ table[e] \in live /\ copyOf'[table[e]] = 0
                     /\ here' # 0 => /\ table[e] < here'
                                     /\ code[here'].op # "label" => BlockAt(table[e]) = BlockAt(here')
            BY <2>3, <3>3, <1>2, <1>5, <1>6, <1>7, <1>11
        <3> QED BY <3>1, <3>5, <3>6, <3>7, <1>1, <1>3 DEF Scanned
    <2>7. CASE code[here].expr \notin DOMAIN table
        <3> DEFINE x == code[here].expr
        <3>1. /\ copyOf' = copyOf
              /\ table' = [e \in DOMAIN table \cup {x} |-> IF e = x THEN here ELSE table[e]]
            BY <2>1, <2>7 DEF Lookup
        <3> HIDE DEF x
        <3>2. Copies(Earlier)'
            BY <3>1, <1>1, <1>3, <1>4 DEF Copies
        <3>3. \A n \in Nodes : copyOf'[n] # 0 /\ here' # 0 => n < here'
            BY <3>1, <2>4, <1>2, <1>5, <1>11
        <3>4. ASSUME NEW e \in DOMAIN table'
              PROVE  /\ table'[e] \in live /\ copyOf[table'[e]] = 0
                     /\ here' # 0 => /\ table'[e] < here'
                                     /\ code[here'].op # "label" => BlockAt(table'[e]) = BlockAt(here')
            <4>1. CASE e = x
                BY <4>1, <3>1, <2>2, <1>1, <1>2, <1>5, <1>7
            <4>2. CASE e # x
                BY <4>2, <3>1, <2>3, <1>2, <1>5, <1>6, <1>7, <1>11
            <4> QED BY <4>1, <4>2
        <3> QED BY <3>1, <3>2, <3>3, <3>4, <1>1, <1>3 DEF Scanned
    <2> QED BY <2>6, <2>7
<1> QED BY <1>8, <1>9, <1>10

\* Entering a child takes what is below it from what is still to be visited.
LEMMA ChildPending ==
    ASSUME DomInv, GvnShape, Walking, WalkChild, OnPath', NEW n \in Nodes, Pending(n)'
    PROVE  Pending(n)
<1>1. /\ stage = "tree" /\ here = 0 /\ walk # << >> /\ OnPath /\ UNCHANGED <<vars, scope>>
    BY DEF WalkChild, Walking
<1>2. TreeDone
    BY <1>1, TreeState
<1> DEFINE L == Len(walk)
           b == Top.block
<1>3. PICK c \in Top.todo :
        /\ c \in Blocks /\ c \in children[b] /\ Reached(b) /\ here' = first[c]
        /\ Len(walk') = L + 1
        /\ \A i \in 1 .. L : walk'[i].todo \subseteq walk[i].todo
        /\ walk'[L + 1] = Activation(c)
    BY ChildActivation
<1>4. L \in Nat /\ L \in 1 .. Len(walk) /\ Top = walk[L] /\ walk' # << >> /\ Top' = walk'[L + 1]
      /\ b \in Blocks
    BY <1>1, <1>3, PathTypes DEF OnPath, Top
<1>5. Top'.block = c /\ walk'[L + 1].todo = children[c] /\ walk'[L + 1].block = c
    BY <1>3, <1>4 DEF Activation
<1>6. /\ (\A x : Below(x)' = Below(x)) /\ (\A x : Reached(x)' = Reached(x)) /\ BlockAt(n)' = BlockAt(n)
    BY <1>1, GvnFrame DEF vars
<1> HIDE DEF L, b
<1>7. c \in Below(c)
    BY DEF Below
<1>8. ASSUME BlockAt(n) \in Below(c) PROVE Pending(n)
    BY <1>3, <1>4, <1>8 DEF Pending
<1>9. CASE \E i \in 1 .. Len(walk') : \E d \in walk'[i].todo : BlockAt(n) \in Below(d)
    <2>1. PICK i \in 1 .. Len(walk') : \E d \in walk'[i].todo : BlockAt(n) \in Below(d)
        BY <1>9
    <2>2. PICK d \in walk'[i].todo : BlockAt(n) \in Below(d)
        BY <2>1
    <2>3. CASE i \in 1 .. L
        <3>1. d \in walk[i].todo /\ i \in 1 .. Len(walk)
            BY <2>2, <2>3, <1>3, <1>4
        <3> QED BY <3>1, <2>2 DEF Pending
    <2>4. CASE i = L + 1
        <3>1. d \in children[c]
            BY <2>2, <2>4, <1>5
        <3>2. Reached(c)
            <4>1. \A j \in 1 .. Len(walk') : walk'[j].todo # {} => Reached(walk[j].block)'
                BY DEF OnPath
            <4>2. \A j \in 1 .. Len(walk') : walk'[j].block = c /\ walk'[j].todo # {} => Reached(c)'
                BY <4>1 DEF Reached, Dominates
            <4>3. Reached(c)'
                BY <4>2, <2>1, <2>2, <2>4, <1>5
            <4> QED BY <4>3, <1>6
        <3>3. Below(d) \subseteq Below(c)
            BY <3>1, <3>2, <1>2, <1>3, BelowChild
        <3> QED BY <3>3, <2>2, <1>8
    <2> QED BY <2>3, <2>4, <1>3, <1>4
<1>10. CASE here' # 0 /\ BlockAt(n) = Top'.block
    BY <1>10, <1>5, <1>7, <1>8
<1> QED BY <1>9, <1>10, <1>6 DEF Pending

\* A copy reads from a node that is behind it, and neither of them is looked at again.
LEMMA NumberCopies ==
    ASSUME DomInv, GvnShape, Walking, TableRight, EndsKept, Copies(Behind), Fresh, NumberNode
    PROVE  Copies(Behind)' /\ Fresh'
<1>1. /\ stage = "tree" /\ here \in live /\ live \subseteq Nodes
      /\ UNCHANGED <<vars, stage, own, live, walk>> /\ here' = Onward(here)
      /\ Placed /\ Stacked
      /\ copyOf \in [Nodes -> 0 .. Len(code)]
    BY DEF NumberNode, TableRight, GvnShape
<1>2. Nodes = 1 .. Len(code) /\ Len(code) \in Nat /\ here \in Nodes /\ here # 0
    BY <1>1, TreeBlocks
<1>3. OnPath /\ Apart /\ walk # << >> /\ BlockAt(here) = Top.block
    BY NumberingStaysInside
<1> DEFINE L == Len(walk)
<1>4. L \in Nat /\ L \in 1 .. Len(walk) /\ Top = walk[L] /\ L = Len(walk)
    BY <1>1, <1>3, PathTypes DEF OnPath
<1>5. code' = code /\ walk' = walk /\ live' = live /\ Nodes' = Nodes /\ Top' = Top
      /\ (\A n : BlockAt(n)' = BlockAt(n)) /\ (\A x : Below(x)' = Below(x))
      /\ \A m, n : Behind(m, n)' <=> Behind(m, n)
    BY <1>1, GvnFrame DEF vars, Top
<1>6. here' # 0 => here' \in Nodes /\ here' > here /\ BlockAt(here') = Top.block
    BY NumberingStaysInside
<1>7. \A e \in DOMAIN table : table[e] \in Nodes /\ code[table[e]].expr = e /\ e # NoExpr
    BY DEF GvnShape
<1> HIDE DEF L
<1>8. ASSUME NEW n \in Nodes, Pending(n)' PROVE Pending(n) /\ n # here
    <2>1. CASE \E i \in 1 .. Len(walk) : \E d \in walk[i].todo : BlockAt(n) \in Below(d)
        <3>1. n # here
            BY <2>1, <1>3, <1>4 DEF Apart
        <3> QED BY <2>1, <3>1 DEF Pending
    <2>2. CASE here' # 0 /\ BlockAt(n) = Top.block /\ n >= here'
        <3>1. n > here
            <4>1. here' \in Nodes
                BY <2>2, <1>1, <1>6
            <4>2. here' \in Int /\ here \in Int /\ n \in Int
                BY <4>1, <1>2
            <4> QED BY <4>1, <4>2, <2>2, <1>6
        <3> QED BY <3>1, <2>2, <1>2 DEF Pending
    <2> QED BY <1>5, <1>8, <2>1, <2>2 DEF Pending
<1>9. Pending(here)
    BY <1>2, <1>3 DEF Pending
<1>10. Untouched(here)
    BY <1>2, <1>9 DEF Fresh
<1>11. CASE copyOf' = copyOf
    <2>1. Copies(Behind)'
        BY <1>11, <1>1, <1>5 DEF Copies
    <2>2. Fresh'
        BY <1>11, <1>5, <1>8 DEF Fresh, Untouched
    <2> QED BY <2>1, <2>2
<1>12. CASE copyOf' # copyOf
    <2> DEFINE m == table[code[here].expr]
    <2>1. Pure(here) /\ Lookup(here)
        BY <1>12 DEF NumberNode
    <2>2. code[here].expr \in DOMAIN table /\ copyOf' = [copyOf EXCEPT ![here] = m]
        BY <2>1, <1>12 DEF Lookup
    <2>3. PICK p \in 1 .. Len(scope) : scope[p] = code[here].expr
        BY <2>2, <1>1 DEF Stacked
    <2>4. /\ m \in live /\ copyOf[m] = 0 /\ m \in Nodes /\ code[m].expr = code[here].expr
          /\ \E i \in 1 .. Len(walk) : Seen(i, m)
        BY <2>2, <2>3, <1>1, <1>7 DEF Placed
    <2> HIDE DEF m
    <2>5. PICK i \in 1 .. Len(walk) : Seen(i, m)
        BY <2>4
    <2>6. BlockAt(m) = walk[i].block /\ (i = L => m < here)
        BY <2>5, <1>2, <1>4 DEF Seen
    <2>7. Behind(m, here)
        <3>1. CASE i = L
            BY <3>1, <2>6, <1>3, <1>4 DEF Behind
        <3>2. CASE i # L
            <4>1. i < L
                BY <3>2, <1>4
            <4>2. walk[i].block \in dom[walk[L].block] /\ walk[i].block # walk[L].block
                BY <4>1, <1>3, <1>4 DEF OnPath
            <4> QED BY <4>2, <2>6, <1>3, <1>4 DEF Behind
        <3> QED BY <3>1, <3>2
    <2>8. m # here
        <3>1. ~(here < here)
            BY <1>2
        <3>2. ~Behind(here, here)
            BY <3>1 DEF Behind
        <3> QED BY <2>7, <3>2
    <2>9. ~Pending(m)
        <3>1. ASSUME NEW j \in 1 .. Len(walk), NEW d \in walk[j].todo, BlockAt(m) \in Below(d) PROVE FALSE
            BY <3>1, <2>6, <1>3 DEF Apart
        <3>2. ASSUME BlockAt(m) = Top.block PROVE m < here
            <4>1. i = L
                BY <3>2, <2>6, <1>3, <1>4, PathDistinct
            <4> QED BY <4>1, <2>6
        <3>3. m \in Nat /\ here \in Nat
            BY <2>4, <1>2
        <3> QED BY <3>1, <3>2, <3>3 DEF Pending
    <2>10. copyOf'[here] = m /\ \A n \in Nodes : n # here => copyOf'[n] = copyOf[n]
        BY <2>2, <1>1, <1>2
    <2>11. ASSUME NEW n \in Nodes, copyOf'[n] # 0
           PROVE  /\ copyOf'[n] \in live /\ copyOf'[copyOf'[n]] = 0
                  /\ code[copyOf'[n]].expr = code[n].expr
                  /\ Behind(copyOf'[n], n)
        <3>1. CASE n = here
            BY <3>1, <2>4, <2>7, <2>8, <2>10
        <3>2. CASE n # here
            <4>1. /\ copyOf'[n] = copyOf[n] /\ copyOf[n] # here
                  /\ copyOf[n] \in live /\ copyOf[copyOf[n]] = 0
                  /\ code[copyOf[n]].expr = code[n].expr /\ Behind(copyOf[n], n)
                BY <3>2, <2>10, <2>11, <1>10 DEF Copies, Untouched
            <4> QED BY <4>1, <2>10, <1>1
        <3> QED BY <3>1, <3>2
    <2>12. Copies(Behind)'
        BY <2>11, <1>5 DEF Copies
    <2>13. ASSUME NEW n \in Nodes, Pending(n)'
           PROVE  copyOf'[n] = 0 /\ \A k \in Nodes : copyOf'[k] # n
        <3>1. Pending(n) /\ n # here
            BY <2>13, <1>8
        <3>2. copyOf[n] = 0 /\ \A k \in Nodes : copyOf[k] # n
            BY <3>1 DEF Fresh, Untouched
        <3>3. n # m
            BY <3>1, <2>9
        <3> QED BY <3>1, <3>2, <3>3, <2>10
    <2>14. Fresh'
        BY <2>13, <1>5 DEF Fresh, Untouched
    <2> QED BY <2>12, <2>14
<1> QED BY <1>11, <1>12

LEMMA TreeCopies ==
    ASSUME DomInv, GvnShape, Walking, Walking', TableInv, CopyInv, [GvnNext]_<<vars, gvnVars>>,
           stage' = "tree", EndsKept'
    PROVE  Copies(Behind)' /\ Fresh'
<1>1. ASSUME stage = "tree" \/ WalkTree, UNCHANGED <<vars, live>> PROVE EndsKept
    BY <1>1, GvnFrame DEF EndsKept, vars
<1>2. ASSUME UNCHANGED vars
      PROVE  /\ code' = code /\ Nodes' = Nodes
             /\ (\A n : BlockAt(n)' = BlockAt(n)) /\ (\A x : Below(x)' = Below(x))
             /\ \A m, n : Behind(m, n)' <=> Behind(m, n)
    BY <1>2, GvnFrame DEF vars
<1>3. CASE WalkTree
    <2>1. copyOf = [n \in Nodes |-> 0] /\ copyOf' = copyOf /\ UNCHANGED vars
        BY <1>3 DEF WalkTree, GvnShape
    <2>2. CodeOK
        BY DEF DomInv, IInv, Shape, CodeOK
    <2>3. 0 \notin Nodes
        BY <2>2 DEF Nodes, CodeOK
    <2>4. Copies(Behind)'
        BY <2>1, <1>2 DEF Copies
    <2>5. Fresh'
        BY <2>1, <2>3, <1>2 DEF Fresh, Untouched
    <2> QED BY <2>4, <2>5
<1>4. ASSUME stage = "tree", UNCHANGED <<vars, live, copyOf>>,
             \A n \in Nodes : Pending(n)' => Pending(n)
      PROVE  Copies(Behind)' /\ Fresh'
    <2>1. Copies(Behind) /\ Fresh
        BY <1>1, <1>4 DEF CopyInv
    <2>2. Copies(Behind)'
        BY <2>1, <1>2, <1>4 DEF Copies
    <2>3. Fresh'
        BY <2>1, <1>2, <1>4 DEF Fresh, Untouched
    <2> QED BY <2>2, <2>3
<1>5. CASE WalkChild
    <2>1. stage = "tree" /\ UNCHANGED <<vars, live, copyOf>> /\ OnPath'
        BY <1>5 DEF WalkChild, Walking
    <2> QED BY <2>1, <1>4, <1>5, ChildPending
<1>6. CASE PopScope
    <2>1. /\ stage = "tree" /\ UNCHANGED <<vars, live, copyOf>> /\ OnPath /\ walk # << >>
          /\ walk' = SubSeq(walk, 1, Len(walk) - 1) /\ here' = 0
        BY <1>6 DEF PopScope, Walking
    <2>2. walk \in Seq(Activations) /\ Len(walk) \in Nat /\ Len(walk) # 0
        BY <2>1 DEF OnPath
    <2>3. \A i \in 1 .. Len(walk') : i \in 1 .. Len(walk) /\ walk'[i] = walk[i]
        BY <2>1, <2>2
    <2>4. \A n \in Nodes : Pending(n)' => Pending(n)
        BY <2>1, <2>3, <1>2 DEF Pending
    <2> QED BY <2>1, <2>4, <1>4
<1>7. CASE NumberNode
    <2>1. stage = "tree" /\ UNCHANGED <<vars, live>>
        BY <1>7 DEF NumberNode
    <2>2. EndsKept
        BY <2>1, <1>1
    <2> QED BY <2>1, <2>2, <1>7, NumberCopies DEF TableInv, CopyInv
<1>8. CASE ReadFreedNode
    <2>1. stage = "tree" /\ UNCHANGED <<vars, live, copyOf, walk>>
        BY <1>8 DEF ReadFreedNode
    <2>2. here \in Nodes /\ here # 0 /\ (here' # 0 => here' \in Nodes /\ here' > here)
        BY <1>1, <1>8, <2>1, NumberingStaysInside
    <2>3. \A n \in Nodes : n \in Int
        BY <2>1, TreeBlocks
    <2>4. \A n \in Nodes : Pending(n)' => Pending(n)
        <3>1. \A n \in Nodes : here' # 0 /\ n >= here' => n >= here
            BY <2>2, <2>3
        <3> QED BY <2>1, <2>2, <3>1, <1>2 DEF Pending, Top
    <2> QED BY <2>1, <2>4, <1>4
<1>9. CASE UNCHANGED <<vars, gvnVars>>
    <2>1. stage = "tree" /\ UNCHANGED <<vars, live, copyOf, walk, here>>
        BY <1>9 DEF gvnVars
    <2>2. \A n \in Nodes : Pending(n)' => Pending(n)
        BY <2>1, <1>2 DEF Pending, Top
    <2> QED BY <2>1, <2>2, <1>4
<1>10. CASE AnalyseThis \/ AnalyseOthers \/ DeadCode \/ TreeWalked \/ FollowOverwrittenLink \/ Scan
    BY <1>10 DEF AnalyseThis, AnalyseOthers, DeadCode, TreeWalked, FollowOverwrittenLink, Scan,
                 ScanList, ScanNode, ListScanned, gvnVars
<1> QED BY <1>3, <1>5, <1>6, <1>7, <1>8, <1>9, <1>10 DEF GvnNext, Pass, Number

LEMMA LinearCopies ==
    ASSUME DomInv, GvnShape, CopyInv, [GvnNext]_<<vars, gvnVars>>
    PROVE  /\ stage' \in {"dominance", "dce"} => live' = Nodes'
           /\ stage' \in {"start", "linear"} /\ LabelsStay' => LabelsLive'
           /\ stage' = "linear" /\ LabelsStay' => Copies(Earlier)' /\ Scanned'
<1>1. code' = code /\ Nodes' = Nodes /\ (LabelsStay' <=> LabelsStay)
    <2>1. code' = code
        BY GvnCodeStays
    <2> QED BY <2>1 DEF Nodes, LabelsStay
<1>2. ASSUME UNCHANGED vars
      PROVE  /\ (\A n : BlockAt(n)' = BlockAt(n)) /\ \A m, n : Earlier(m, n)' <=> Earlier(m, n)
    BY <1>2, GvnFrame DEF vars, Earlier
<1>3. ASSUME UNCHANGED live, LabelsLive PROVE LabelsLive'
    BY <1>1, <1>3 DEF LabelsLive
<1>4. CASE DeadCode
    <2>1. stage = "dce" /\ stage' = "start" /\ live = Nodes
        BY <1>4 DEF DeadCode, CopyInv
    <2>2. live' = live \/ live' = {n \in live : ~code[n].unread}
        BY <1>4 DEF DeadCode
    <2>3. ASSUME LabelsStay PROVE LabelsLive'
        BY <2>1, <2>2, <2>3, <1>1 DEF LabelsStay, LabelsLive
    <2> QED BY <2>1, <2>3, <1>1
<1>5. CASE AnalyseThis \/ AnalyseOthers
    <2>1. stage = "dominance" /\ live' = live /\ stage' \in {"dominance", "dce"}
        BY <1>5 DEF AnalyseThis, AnalyseOthers, gvnVars
    <2> QED BY <2>1, <1>1 DEF CopyInv
<1>6. CASE ScanList
    <2>1. /\ stage = "start" /\ stage' = "linear" /\ UNCHANGED <<vars, live, copyOf, table, scope>>
        BY <1>6 DEF ScanList
    <2>2. copyOf' = [n \in Nodes |-> 0] /\ DOMAIN table' = {}
        BY <2>1 DEF GvnShape
    <2>3. Copies(Earlier)' /\ Scanned'
        BY <2>2, <1>1 DEF Copies, Scanned
    <2>4. LabelsStay => LabelsLive
        BY <2>1 DEF CopyInv
    <2> QED BY <2>1, <2>3, <2>4, <1>1, <1>3
<1>7. CASE ScanNode
    <2>1. stage = "linear" /\ stage' = "linear" /\ live' = live
        BY <1>7 DEF ScanNode
    <2>2. LabelsStay => LabelsLive /\ Copies(Earlier) /\ Scanned
        BY <2>1 DEF CopyInv
    <2>3. LabelsStay => Copies(Earlier)' /\ Scanned'
        BY <2>2, <1>7, ScanCopies
    <2> QED BY <2>1, <2>2, <2>3, <1>1, <1>3
<1>8. CASE UNCHANGED <<vars, gvnVars>>
    <2>1. /\ UNCHANGED <<stage, live, copyOf, table, here>>
          /\ (\A n : BlockAt(n)' = BlockAt(n)) /\ \A m, n : Earlier(m, n)' <=> Earlier(m, n)
        BY <1>8, <1>2 DEF gvnVars
    <2>2. stage = "linear" /\ LabelsStay => Copies(Earlier) /\ Scanned
        BY DEF CopyInv
    <2>3. ASSUME stage = "linear", LabelsStay PROVE Copies(Earlier)'
        BY <2>1, <2>2, <2>3, <1>1 DEF Copies
    <2>4. ASSUME stage = "linear", LabelsStay PROVE Scanned'
        BY <2>1, <2>2, <2>4, <1>1 DEF Scanned
    <2>5. stage' \in {"start", "linear"} /\ LabelsStay' => LabelsLive'
        BY <2>1, <1>1, <1>3 DEF CopyInv
    <2>6. stage' \in {"dominance", "dce"} => live' = Nodes'
        BY <2>1, <1>1 DEF CopyInv
    <2> QED BY <2>1, <2>3, <2>4, <2>5, <2>6, <1>1
<1>9. CASE Number \/ ListScanned
    BY <1>9 DEF Number, WalkTree, NumberNode, ReadFreedNode, FollowOverwrittenLink, WalkChild,
                PopScope, TreeWalked, ListScanned
<1> QED BY <1>4, <1>5, <1>6, <1>7, <1>8, <1>9 DEF GvnNext, Pass, Scan

LEMMA FinishedCopies ==
    ASSUME DomInv, GvnShape, CopyInv, [GvnNext]_<<vars, gvnVars>>, stage' = "finished"
    PROVE  /\ own' /\ blockCount' # 0 /\ EndsKept' => Copies(Behind)'
           /\ ~(own' /\ blockCount' # 0) /\ LabelsStay' => Copies(Earlier)'
<1>1. /\ stage \in {"tree", "linear", "finished"} /\ UNCHANGED <<vars, live, copyOf, own>>
      /\ (stage = "tree" => own /\ blockCount # 0)
      /\ (stage = "linear" => (own => blockCount = 0))
    <2>1. CASE TreeWalked \/ ListScanned \/ UNCHANGED <<vars, gvnVars>>
        BY <2>1 DEF TreeWalked, ListScanned, gvnVars, GvnShape, GvnNext, Pass, Number, Scan,
            AnalyseThis, AnalyseOthers, DeadCode, WalkTree, NumberNode, ReadFreedNode,
            FollowOverwrittenLink, WalkChild, PopScope, ScanList, ScanNode
    <2>2. CASE \/ AnalyseThis \/ AnalyseOthers \/ DeadCode \/ WalkTree \/ NumberNode
               \/ ReadFreedNode \/ FollowOverwrittenLink \/ WalkChild \/ PopScope
               \/ ScanList \/ ScanNode
        BY <2>2 DEF gvnVars, GvnShape,
            AnalyseThis, AnalyseOthers, DeadCode, WalkTree, NumberNode, ReadFreedNode,
            FollowOverwrittenLink, WalkChild, PopScope, ScanList, ScanNode
    <2> QED BY <2>1, <2>2 DEF GvnNext, Pass, Number, Scan
<1>2. /\ code' = code /\ Nodes' = Nodes /\ blockCount' = blockCount
      /\ (EndsKept' <=> EndsKept) /\ (LabelsStay' <=> LabelsStay)
      /\ (\A m, n : Behind(m, n)' <=> Behind(m, n)) /\ \A m, n : Earlier(m, n)' <=> Earlier(m, n)
    BY <1>1, GvnFrame DEF vars, EndsKept, LabelsStay, Earlier
<1>3. ASSUME Copies(Behind) PROVE Copies(Behind)'
    BY <1>1, <1>2, <1>3 DEF Copies
<1>4. ASSUME Copies(Earlier) PROVE Copies(Earlier)'
    BY <1>1, <1>2, <1>4 DEF Copies
<1>5. own /\ blockCount # 0 /\ EndsKept => Copies(Behind)
    BY <1>1 DEF CopyInv
<1>6. ~(own /\ blockCount # 0) /\ LabelsStay => Copies(Earlier)
    BY <1>1 DEF CopyInv
<1> QED BY <1>1, <1>2, <1>3, <1>4, <1>5, <1>6

LEMMA CopyStep ==
    ASSUME GvnInv, TableInv, CopyInv, [GvnNext]_<<vars, gvnVars>>
    PROVE  CopyInv'
<1>1. DomInv /\ GvnShape /\ Walking /\ Walking'
    BY WalkingStep DEF GvnInv
<1>2. stage' = "tree" /\ EndsKept' => Copies(Behind)' /\ Fresh'
    BY <1>1, TreeCopies
<1>3. /\ stage' \in {"dominance", "dce"} => live' = Nodes'
      /\ stage' \in {"start", "linear"} /\ LabelsStay' => LabelsLive'
      /\ stage' = "linear" /\ LabelsStay' => Copies(Earlier)' /\ Scanned'
    BY <1>1, LinearCopies
<1>4. stage' = "finished" =>
         /\ own' /\ blockCount' # 0 /\ EndsKept' => Copies(Behind)'
         /\ ~(own' /\ blockCount' # 0) /\ LabelsStay' => Copies(Earlier)'
    BY <1>1, FinishedCopies
<1> QED BY <1>2, <1>3, <1>4 DEF CopyInv

\* A node that was rewritten as a copy reads another node that is still there
\* and computes the expression itself, for every program and every limit; and a
\* run that reaches the copy has executed it: any run where the list was scanned,
\* a run that takes no branch from the middle of a block where the tree was
\* walked.  The hypotheses are those of DominatorsExecuted where the walk uses the
\* graph, and that dce keeps labels (its is_side_effect says so) where the scan of
\* the list relies on them.
THEOREM CopiesReadComputed ==
    GvnSpec => []((own => LabelsUnique /\ PredsFit) /\ LabelsStay => CopiesAreComputed)
<1>1. GvnInit => TableInv /\ CopyInv
    BY DEF GvnInit, TableInv, CopyInv
<1>2. GvnInv /\ TableInv /\ CopyInv /\ [GvnNext]_<<vars, gvnVars>> => TableInv' /\ CopyInv'
    BY TableStep, CopyStep DEF GvnInv
<1>3. ASSUME GvnInv, CopyInv, own => LabelsUnique /\ PredsFit, LabelsStay
      PROVE  CopiesAreComputed
    <2> SUFFICES ASSUME stage = "finished", own => EndsKept, NEW n \in Nodes, copyOf[n] # 0
                 PROVE  /\ copyOf[n] # n
                        /\ copyOf[n] \in live /\ copyOf[copyOf[n]] = 0
                        /\ code[copyOf[n]].expr = code[n].expr
                        /\ own /\ blockCount > 0 => n \notin RunsWithout(copyOf[n], BlockEnds)
                        /\ ~(own /\ blockCount > 0) => n \notin RunsWithout(copyOf[n], Branches)
        BY DEF CopiesAreComputed
    <2>1. DomInv /\ live \subseteq Nodes /\ CodeOK /\ phase = "done" /\ blockCount \in Nat
        BY <1>3, LimitsArePositive DEF GvnInv, GvnShape, DomInv, IInv, Shape, CodeOK
    <2>2. CASE own /\ blockCount # 0
        <3>1. Copies(Behind)
            BY <2>2, <1>3 DEF CopyInv
        <3>2. Wired
            BY <2>1, <2>2 DEF Wired
        <3>3. Behind(copyOf[n], n)
            BY <3>1 DEF Copies
        <3>4. copyOf[n] # n
            <4>1. n \in Int
                BY <2>1 DEF Nodes, CodeOK
            <4> QED BY <3>3, <4>1 DEF Behind
        <3>5. copyOf[n] \in Nodes /\ n \notin RunsWithout(copyOf[n], BlockEnds)
            BY <3>1, <3>2, <3>3, <2>1, <2>2, <1>3, BehindExecuted DEF Copies
        <3> QED BY <3>1, <3>4, <3>5, <2>1, <2>2 DEF Copies
    <2>3. CASE ~(own /\ blockCount # 0)
        <3>1. Copies(Earlier)
            BY <2>3, <1>3 DEF CopyInv
        <3>2. BlockAt(copyOf[n]) = BlockAt(n) /\ copyOf[n] < n /\ copyOf[n] \in Nodes
            BY <3>1, <2>1 DEF Copies, Earlier
        <3>3. copyOf[n] # n
            BY <3>2, <2>1 DEF Nodes, CodeOK
        <3>4. n \notin RunsWithout(copyOf[n], Branches)
            BY <3>2, <2>1, SameBlockExecuted
        <3> QED BY <3>1, <3>3, <3>4, <2>1, <2>3 DEF Copies
    <2> QED BY <2>2, <2>3
<1> QED BY <1>1, <1>2, <1>3, GvnInvariant, PTL DEF GvnSpec

-----------------------------------------------------------------------------
(* Completeness: nothing is computed twice.                                *)
\* No list of children is cut off.
ChildrenFit == \A b \in Blocks : Cardinality({c \in Blocks \ {0} : idom[c] = b}) <= MaxChildren

\* Below every block hangs, through one of its children, all that it dominates.
LEMMA CoverChild ==
    ASSUME TreeDone, ChildrenFit, NEW b \in Blocks, NEW x \in Blocks, Reached(x),
           b \in dom[x], b # x
    PROVE  \E d \in children[b] : x \in Below(d)
<1>1. /\ IInv /\ Picked /\ Shape /\ Wired /\ phase # "sweep" /\ IsFiniteSet(Blocks)
      /\ dom \in [Blocks -> SUBSET Blocks] /\ -1 \notin Blocks /\ dom[0] = {0}
      /\ \A y \in Blocks : y \in dom[y]
    BY TreeFacts DEF IInv, Complete
<1>2. \A e, y \in Blocks : e \in dom[y] <=> Dominates(e, y)
    BY <1>1, FixedPointIsDominance
<1> DEFINE E == {e \in dom[x] \ {b} : b \in dom[e]}
           M == {Cardinality(dom[e]) : e \in E}
<1>3. E \subseteq Blocks /\ x \in E
    BY <1>1
<1>4. \A e \in Blocks : IsFiniteSet(dom[e]) /\ Cardinality(dom[e]) \in Nat
    <2> TAKE e \in Blocks
    <2>1. IsFiniteSet(dom[e])
        BY <1>1, FS_Subset
    <2> QED BY <2>1, FS_CardinalityType
<1>5. M \in SUBSET Nat /\ M # {}
    BY <1>3, <1>4
<1> HIDE DEF M, E
<1>6. PICK l \in M : \A k \in M : l <= k
    BY <1>5, Least
<1>7. PICK d \in E : \A e \in E : Cardinality(dom[d]) <= Cardinality(dom[e])
    BY <1>6 DEF M
<1>8. d \in Blocks /\ d \in dom[x] /\ d # b /\ b \in dom[d] /\ Reached(d)
    <2>1. d \in Blocks /\ d \in dom[x] /\ d # b /\ b \in dom[d]
        BY <1>3 DEF E
    <2>2. Reached(d)
        BY <2>1, <1>2, Transitive DEF Reached
    <2> QED BY <2>1, <2>2
<1>9. d # 0 /\ dom[d] # {d}
    BY <1>1, <1>8
<1>10. /\ idom[d] \in dom[d] \ {d}
       /\ \A e \in dom[d] \ {d} : Dominates(e, idom[d])
    BY <1>1, <1>8, <1>9, PickedIsClosest DEF Reached
<1>11. idom[d] = b
    <2> SUFFICES ASSUME idom[d] # b PROVE FALSE
        OBVIOUS
    <2> DEFINE a == idom[d]
    <2>1. a \in Blocks /\ a \in dom[d] /\ a # d
        BY <1>1, <1>8, <1>10
    <2>2. b \in dom[a]
        BY <2>1, <1>2, <1>8, <1>10
    <2> HIDE DEF a
    <2>3. a \in dom[x]
        BY <2>1, <1>2, <1>8, Transitive
    <2>4. a \in E
        BY <2>2, <2>3 DEF E, a
    <2>5. dom[a] \subseteq dom[d]
        BY <2>1, <1>1, <1>2, <1>8, Transitive
    <2>6. d \notin dom[a]
        BY <2>1, <1>1, <1>2, <1>8, Antisymmetric
    <2>7. Cardinality(dom[a]) < Cardinality(dom[d])
        <3>1. dom[a] # dom[d]
            BY <2>6, <1>1, <1>8
        <3> QED BY <3>1, <2>1, <2>5, <1>4, <1>8, FS_Subset
    <2> QED BY <2>1, <2>4, <2>7, <1>4, <1>7, <1>8
<1>12. d \in children[b]
    <2> DEFINE S == {c \in Blocks \ {0} : idom[c] = b}
    <2>1. S \subseteq Int /\ IsFiniteSet(S)
        <3>1. S \subseteq Blocks /\ S \subseteq Int
            BY DEF Blocks
        <3> QED BY <3>1, <1>1, FS_Subset
    <2>2. Cardinality(S) <= MaxChildren
        BY DEF ChildrenFit
    <2>3. d \in S
        BY <1>8, <1>9, <1>11
    <2> HIDE DEF S
    <2>4. Kept(S, MaxChildren) = S
        BY <2>1, <2>2, LimitsArePositive, KeptAll
    <2>5. children[b] = Kept(S, MaxChildren)
        BY DEF S, TreeDone, DomInv, Hung
    <2> QED BY <2>3, <2>4, <2>5
<1>13. x \in Below(d)
    BY <1>8, BelowReached
<1> QED BY <1>12, <1>13

\* The path to a block that can be reached goes through all its dominators.
PathComplete ==
    \A j \in 1 .. Len(walk) :
        Reached(walk[j].block) => dom[walk[j].block] \subseteq {walk[i].block : i \in 1 .. j}

Repeated(n) ==
    /\ code[n].expr # NoExpr
    /\ 0 \in dom[BlockAt(n)] /\ Reached(BlockAt(n))
    /\ \E m \in live : /\ code[m].expr = code[n].expr
                       /\ \/ BlockAt(m) = BlockAt(n) /\ m < n
                          \/ BlockAt(m) \in dom[BlockAt(n)] \ {BlockAt(n)}

RepeatsCopied == \A n \in live : Repeated(n) /\ ~Pending(n) => copyOf[n] # 0

CompleteInv ==
    /\ stage = "tree" => PathComplete
    /\ stage = "tree" /\ EndsKept /\ ChildrenFit => RepeatsCopied
    /\ stage = "finished" /\ own /\ blockCount # 0 /\ EndsKept /\ ChildrenFit =>
          \A n \in live : Repeated(n) => copyOf[n] # 0

LEMMA PathCompleteStep ==
    ASSUME DomInv, GvnShape, Walking, stage = "tree" => PathComplete,
           [GvnNext]_<<vars, gvnVars>>, stage' = "tree"
    PROVE  PathComplete'
<1>1. CASE WalkTree
    <2>1. /\ walk' = <<Activation(0)>> /\ UNCHANGED vars /\ TreeDone
        BY <1>1 DEF WalkTree, TreeDone, GvnShape
    <2>2. Len(walk') = 1 /\ walk'[1].block = 0
        BY <2>1 DEF Activation
    <2>3. dom' = dom /\ dom[0] = {0}
        BY <2>1, TreeFacts DEF vars, IInv, Complete
    <2>4. \A j \in 1 .. Len(walk') : j = 1
        BY <2>2
    <2>5. 1 \in 1 .. 1
        OBVIOUS
    <2> QED BY <2>2, <2>3, <2>4, <2>5 DEF PathComplete
<1>2. CASE WalkChild
    <2>1. /\ stage = "tree" /\ walk # << >> /\ OnPath /\ UNCHANGED vars /\ TreeDone /\ PathComplete
        BY <1>2, TreeState DEF WalkChild, Walking
    <2> DEFINE L == Len(walk)
    <2>2. PICK c \in Top.todo :
            /\ c \in Blocks /\ c \in children[Top.block] /\ Reached(Top.block)
            /\ Len(walk') = L + 1
            /\ \A i \in 1 .. L : walk'[i].block = walk[i].block
            /\ walk'[L + 1] = Activation(c)
        BY <1>2, ChildActivation
    <2>3. L \in Nat /\ L \in 1 .. Len(walk) /\ Top = walk[L] /\ walk'[L + 1].block = c
          /\ Top.block \in Blocks
        BY <2>1, <2>2, PathTypes DEF OnPath, Activation
    <2>4. dom' = dom /\ \A x : Reached(x)' = Reached(x)
        BY <2>1, GvnFrame DEF vars
    <2> HIDE DEF L
    <2> SUFFICES ASSUME NEW j \in 1 .. Len(walk'), Reached(walk'[j].block), NEW x \in dom[walk'[j].block]
                 PROVE  \E i \in 1 .. j : x = walk'[i].block
        BY <2>4 DEF PathComplete
    <2>5. CASE j \in 1 .. L
        <3>1. \E i \in 1 .. j : x = walk[i].block
            BY <2>1, <2>2, <2>5 DEF PathComplete, L
        <3>2. \A i \in 1 .. j : i \in 1 .. L
            BY <2>3, <2>5
        <3> QED BY <3>1, <3>2, <2>2
    <2>6. CASE j = L + 1
        <3>1. dom[c] = dom[Top.block] \cup {c}
            BY <2>1, <2>2, <2>3, <2>6, ReachedChild
        <3>2. CASE x = c
            BY <3>2, <2>3, <2>6
        <3>3. CASE x \in dom[Top.block]
            <4>1. \E i \in 1 .. L : x = walk[i].block
                BY <3>3, <2>1, <2>2, <2>3 DEF PathComplete
            <4>2. \A i \in 1 .. L : i \in 1 .. j
                BY <2>3, <2>6
            <4> QED BY <4>1, <4>2, <2>2
        <3> QED BY <3>1, <3>2, <3>3, <2>3, <2>6
    <2> QED BY <2>2, <2>3, <2>5, <2>6
<1>3. CASE PopScope
    <2>1. /\ stage = "tree" /\ OnPath /\ UNCHANGED vars /\ PathComplete /\ walk # << >>
          /\ walk' = SubSeq(walk, 1, Len(walk) - 1)
        BY <1>3 DEF PopScope, Walking
    <2>2. walk \in Seq(Activations) /\ Len(walk) \in Nat /\ Len(walk) # 0
        BY <2>1 DEF OnPath
    <2>3. \A i \in 1 .. Len(walk') : i \in 1 .. Len(walk) /\ walk'[i] = walk[i]
        BY <2>1, <2>2
    <2>4. \A j \in 1 .. Len(walk') : \A i \in 1 .. j : i \in 1 .. Len(walk')
        BY <2>1, <2>2
    <2>5. dom' = dom /\ \A x : Reached(x)' = Reached(x)
        BY <2>1, GvnFrame DEF vars
    <2> SUFFICES ASSUME NEW j \in 1 .. Len(walk'), Reached(walk'[j].block), NEW x \in dom[walk'[j].block]
                 PROVE  \E i \in 1 .. j : x = walk'[i].block
        BY <2>5 DEF PathComplete
    <2>6. \E i \in 1 .. j : x = walk[i].block
        BY <2>1, <2>3 DEF PathComplete
    <2> QED BY <2>3, <2>4, <2>6
<1>4. CASE NumberNode \/ ReadFreedNode \/ UNCHANGED <<vars, gvnVars>>
    <2>1. stage = "tree" /\ UNCHANGED vars /\ walk' = walk
        BY <1>4 DEF NumberNode, ReadFreedNode, gvnVars
    <2>2. dom' = dom /\ \A x : Reached(x)' = Reached(x)
        BY <2>1, GvnFrame DEF vars
    <2> QED BY <2>1, <2>2 DEF PathComplete
<1>5. CASE AnalyseThis \/ AnalyseOthers \/ DeadCode \/ TreeWalked \/ FollowOverwrittenLink \/ Scan
    BY <1>5 DEF AnalyseThis, AnalyseOthers, DeadCode, TreeWalked, FollowOverwrittenLink, Scan,
                ScanList, ScanNode, ListScanned, gvnVars
<1> QED BY <1>1, <1>2, <1>3, <1>4, <1>5 DEF GvnNext, Pass, Number

\* What has been looked at on the way down is in the table, copies included.
LEMMA KnownOnTheWay ==
    ASSUME DomInv, GvnShape, Walking, stage = "tree", TableRight, Copies(Behind), PathComplete,
           NEW i \in 1 .. Len(walk), Reached(walk[i].block),
           NEW n \in live, Seen(i, n), code[n].expr # NoExpr
    PROVE  code[n].expr \in DOMAIN table
<1>1. /\ OnPath /\ Filled /\ live \subseteq Nodes /\ here \in Int
      /\ Nodes = 1 .. Len(code) /\ Len(code) \in Nat
    BY TreeBlocks DEF Walking, TableRight, GvnShape
<1>2. Len(walk) \in Nat
    BY <1>1 DEF OnPath
<1>3. CASE copyOf[n] = 0
    BY <1>1, <1>3 DEF Filled
<1>4. CASE copyOf[n] # 0
    <2> DEFINE m == copyOf[n]
    <2>1. m \in live /\ copyOf[m] = 0 /\ code[m].expr = code[n].expr /\ Behind(m, n)
        BY <1>1, <1>4 DEF Copies
    <2> HIDE DEF m
    <2>2. CASE BlockAt(m) = BlockAt(n) /\ m < n
        <3>1. Seen(i, m)
            <4>1. \A k \in live : k \in Int
                BY <1>1
            <4>2. here \in Int /\ m \in Int /\ n \in Int
                BY <4>1, <1>1, <2>1
            <4> QED BY <4>2, <2>2 DEF Seen
        <3> QED BY <3>1, <2>1, <1>1 DEF Filled
    <2>3. CASE BlockAt(m) \in dom[BlockAt(n)] \ {BlockAt(n)}
        <3>1. BlockAt(n) = walk[i].block
            BY DEF Seen
        <3>2. PICK j \in 1 .. i : BlockAt(m) = walk[j].block
            BY <2>3, <3>1 DEF PathComplete
        <3>3. j # i /\ j \in 1 .. Len(walk)
            BY <2>3, <3>1, <3>2, <1>2
        <3>4. j # Len(walk)
            BY <3>2, <3>3, <1>2
        <3>5. Seen(j, m)
            BY <3>2, <3>4 DEF Seen
        <3> QED BY <3>3, <3>5, <2>1, <1>1 DEF Filled
    <2> QED BY <2>1, <2>2, <2>3 DEF Behind
<1> QED BY <1>3, <1>4

\* At the start all that the entry dominates is still to be looked at.
LEMMA StartRepeats ==
    ASSUME DomInv, GvnShape, WalkTree, ChildrenFit
    PROVE  RepeatsCopied'
<1>1. /\ stage = "start" /\ UNCHANGED <<vars, live, copyOf, table, scope>> /\ here' = first[0]
      /\ walk' = <<Activation(0)>> /\ TreeDone /\ live \subseteq Nodes
    BY DEF WalkTree, TreeDone, GvnShape
<1>2. /\ Len(walk') = 1 /\ walk'[1].block = 0 /\ walk'[1].todo = children[0] /\ Top' = walk'[1]
    BY <1>1 DEF Activation, Top
<1>3. /\ 0 \in Blocks /\ CodeOK /\ Blocks = 0 .. (HeadCount - 1)
    BY <1>1, TreeFacts
<1>4. /\ Nodes = 1 .. Len(code) /\ Len(code) \in Nat /\ first[0] \in Nodes
      /\ \A n \in Nodes : n \in first[0] .. last[0] <=> BlockAt(n) = 0
    BY <1>1, <1>3, GraphBlocks
<1>5. /\ code' = code /\ dom' = dom /\ (\A n : BlockAt(n)' = BlockAt(n))
      /\ (\A x : Below(x)' = Below(x)) /\ \A x : Reached(x)' = Reached(x)
    BY <1>1, GvnFrame DEF vars
<1> SUFFICES ASSUME NEW n \in live, Repeated(n)', ~Pending(n)' PROVE FALSE
    BY <1>1 DEF RepeatsCopied
<1>6. 0 \in dom[BlockAt(n)] /\ Reached(BlockAt(n)) /\ BlockAt(n) \in Blocks
    <2>1. BlockAt(n) \in Blocks
        BY <1>1, <1>3, BlockAtType
    <2> QED BY <2>1, <1>5 DEF Repeated
<1>7. CASE BlockAt(n) = 0
    <2>1. n >= first[0] /\ first[0] # 0
        BY <1>1, <1>4, <1>7
    <2> QED BY <2>1, <1>1, <1>2, <1>5, <1>7 DEF Pending
<1>8. CASE BlockAt(n) # 0
    <2>1. PICK d \in children[0] : BlockAt(n) \in Below(d)
        BY <1>1, <1>3, <1>6, <1>8, CoverChild
    <2>2. 1 \in 1 .. Len(walk') /\ d \in walk'[1].todo
        BY <1>2, <2>1
    <2> QED BY <2>1, <2>2, <1>5 DEF Pending
<1> QED BY <1>7, <1>8

\* Entering a child loses nothing that is still to be looked at.
LEMMA ChildRepeats ==
    ASSUME DomInv, GvnShape, Walking, WalkChild, ChildrenFit, RepeatsCopied
    PROVE  RepeatsCopied'
<1>1. /\ stage = "tree" /\ here = 0 /\ walk # << >> /\ OnPath
      /\ UNCHANGED <<vars, live, copyOf>> /\ live \subseteq Nodes
    BY DEF WalkChild, Walking, GvnShape
<1>2. TreeDone
    BY <1>1, TreeState
<1> DEFINE L == Len(walk)
<1>3. PICK c \in Top.todo :
        /\ walk' = Append([walk EXCEPT ![L].todo = @ \ {c}], Activation(c))
        /\ here' = first[c]
    BY DEF WalkChild
<1>4. /\ L \in Nat /\ L \in 1 .. Len(walk) /\ Top = walk[L] /\ walk \in Seq(Activations)
      /\ L = Len(walk) /\ Top.block \in Blocks /\ walk[L].todo \subseteq Blocks
      /\ walk[L].todo \subseteq children[walk[L].block]
      /\ \A i \in 1 .. L : walk[i] \in Activations
    BY <1>1, PathTypes DEF OnPath
<1> HIDE DEF L
<1>5. c \in Blocks
    BY <1>3, <1>4
<1> DEFINE w == [walk EXCEPT ![L].todo = @ \ {c}]
<1>6. /\ Len(w) = L /\ w \in Seq(Activations)
      /\ \A i \in 1 .. L : w[i].todo = IF i = L THEN walk[i].todo \ {c} ELSE walk[i].todo
    <2>1. [walk[L] EXCEPT !.todo = @ \ {c}] \in Activations
        BY <1>4 DEF Activations
    <2>2. w = [walk EXCEPT ![L] = [walk[L] EXCEPT !.todo = @ \ {c}]]
        BY <1>4
    <2>3. Len(w) = L /\ w \in Seq(Activations)
        BY <2>1, <2>2, <1>4
    <2>4. [walk[L] EXCEPT !.todo = @ \ {c}].todo = walk[L].todo \ {c}
        BY <1>4 DEF Activations
    <2> HIDE DEF w
    <2>5. w[L] = [walk[L] EXCEPT !.todo = @ \ {c}] /\ \A i \in 1 .. L : i # L => w[i] = walk[i]
        <3> DEFINE a == [walk[L] EXCEPT !.todo = @ \ {c}]
        <3>1. w = [walk EXCEPT ![L] = a]
            BY <2>2
        <3> HIDE DEF a
        <3>2. DOMAIN walk = 1 .. L
            BY <1>4
        <3>3. w[L] = a /\ \A i \in 1 .. L : i # L => w[i] = walk[i]
            BY <3>1, <3>2, <1>4
        <3> QED BY <3>3 DEF a
    <2> QED BY <2>3, <2>4, <2>5
<1>7. /\ Len(walk') = L + 1 /\ walk'[L + 1] = Activation(c) /\ Top' = walk'[L + 1]
      /\ \A i \in 1 .. L : walk'[i].todo = IF i = L THEN walk[i].todo \ {c} ELSE walk[i].todo
    <2> HIDE DEF w
    <2>1. walk' = Append(w, Activation(c))
        BY <1>3 DEF w
    <2>2. Len(walk') = L + 1 /\ walk'[L + 1] = Activation(c) /\ \A i \in 1 .. L : walk'[i] = w[i]
        BY <2>1, <1>4, <1>6
    <2> QED BY <2>2, <1>6 DEF Top
<1> HIDE DEF w
<1>8. walk'[L + 1].block = c /\ walk'[L + 1].todo = children[c]
    BY <1>7 DEF Activation
<1>9. /\ code' = code /\ dom' = dom /\ (\A n : BlockAt(n)' = BlockAt(n))
      /\ (\A x : Below(x)' = Below(x)) /\ \A x : Reached(x)' = Reached(x)
    BY <1>1, GvnFrame DEF vars
<1>10. ASSUME NEW n \in live, Reached(BlockAt(n)), Pending(n) PROVE Pending(n)'
    <2> DEFINE x == BlockAt(n)
    <2>1. PICK i \in 1 .. L : \E d \in walk[i].todo : x \in Below(d)
        BY <1>1, <1>4, <1>10 DEF Pending
    <2>2. PICK d \in walk[i].todo : x \in Below(d)
        BY <2>1
    <2>3. x \in Blocks
        BY <1>1, <1>2, BlockAtType, TreeFacts
    <2> HIDE DEF x
    <2>4. CASE ~(i = L /\ d = c)
        <3>1. i \in 1 .. Len(walk')
            BY <1>4, <1>7
        <3>2. d \in walk'[i].todo
            BY <2>2, <2>4, <1>7
        <3> QED BY <3>1, <3>2, <2>2, <1>9 DEF Pending, x
    <2>5. CASE i = L /\ d = c /\ x = c
        <3>1. /\ first[c] \in Nodes /\ Nodes = 1 .. Len(code) /\ Len(code) \in Nat
              /\ n \in Nodes /\ (n \in first[c] .. last[c] <=> x = c)
            BY <1>1, <1>2, <1>5, GraphBlocks DEF x
        <3>2. here' # 0 /\ n >= here'
            BY <3>1, <2>5, <1>3
        <3> QED BY <3>2, <2>5, <1>7, <1>8, <1>9 DEF Pending, x
    <2>6. CASE i = L /\ d = c /\ x # c
        <3>1. x \in Blocks \ {0} /\ idom[x] \in Blocks /\ Reached(idom[x]) /\ c \in dom[idom[x]]
            BY <2>2, <2>6 DEF Below
        <3>2. /\ IInv /\ Picked /\ Wired /\ phase # "sweep" /\ -1 \notin Blocks
              /\ \A e, y \in Blocks : e \in dom[y] <=> Dominates(e, y)
            BY <1>2, TreeFacts, FixedPointIsDominance
        <3>3. c \in dom[x]
            <4>1. CASE dom[x] = {x}
                <5>1. idom[x] = -1
                    BY <4>1, <3>1, <3>2 DEF Picked
                <5> QED BY <5>1, <3>1, <3>2
            <4>2. CASE dom[x] # {x}
                <5>1. idom[x] \in dom[x]
                    BY <4>2, <3>1, <3>2, <1>10, PickedIsClosest DEF Reached, x
                <5> QED BY <5>1, <3>1, <3>2, <1>5, <2>3, Transitive
            <4> QED BY <4>1, <4>2
        <3>4. PICK e \in children[c] : x \in Below(e)
            BY <3>3, <2>3, <2>6, <1>2, <1>5, <1>10, CoverChild DEF x
        <3>5. L + 1 \in 1 .. Len(walk') /\ e \in walk'[L + 1].todo
            BY <3>4, <1>4, <1>7, <1>8
        <3> QED BY <3>4, <3>5, <1>9 DEF Pending, x
    <2> QED BY <2>4, <2>5, <2>6
<1>11. ASSUME NEW n \in live, Repeated(n)', ~Pending(n)' PROVE copyOf[n] # 0
    <2>1. Repeated(n) /\ Reached(BlockAt(n))
        BY <1>1, <1>9, <1>11 DEF Repeated
    <2> QED BY <2>1, <1>10, <1>11 DEF RepeatsCopied
<1> QED BY <1>1, <1>11 DEF RepeatsCopied

\* Looking at a node that repeats an expression makes it a copy.
LEMMA NumberRepeats ==
    ASSUME DomInv, GvnShape, Walking, TableRight, EndsKept, Copies(Behind), PathComplete,
           NumberNode, RepeatsCopied
    PROVE  RepeatsCopied'
<1>1. /\ stage = "tree" /\ here \in live /\ live \subseteq Nodes
      /\ UNCHANGED <<vars, stage, own, live, walk>> /\ here' = Onward(here)
      /\ copyOf \in [Nodes -> 0 .. Len(code)]
    BY DEF NumberNode, TableRight, GvnShape
<1>2. Nodes = 1 .. Len(code) /\ Len(code) \in Nat /\ here \in Nodes /\ here # 0
    BY <1>1, TreeBlocks
<1>3. OnPath /\ Apart /\ walk # << >> /\ BlockAt(here) = Top.block
    BY NumberingStaysInside
<1> DEFINE L == Len(walk)
<1>4. L \in Nat /\ L \in 1 .. Len(walk) /\ Top = walk[L] /\ L = Len(walk)
    BY <1>1, <1>3, PathTypes DEF OnPath
<1>5. /\ code' = code /\ dom' = dom /\ walk' = walk /\ live' = live /\ Top' = Top
      /\ (\A n : BlockAt(n)' = BlockAt(n)) /\ (\A x : Below(x)' = Below(x))
      /\ \A x : Reached(x)' = Reached(x)
    BY <1>1, GvnFrame DEF vars, Top
<1>6. /\ here' # 0 => here' \in Nodes
      /\ \A n \in live : BlockAt(n) = Top.block /\ (here' # 0 => n < here') => n <= here
    BY NumberingStaysInside
<1>7. \A n \in Nodes : Repeated(n)' <=> Repeated(n)
    BY <1>5 DEF Repeated
<1> HIDE DEF L
<1>8. ASSUME NEW n \in live, Pending(n), ~Pending(n)' PROVE n = here
    <2>1. here # 0 /\ BlockAt(n) = Top.block /\ n >= here
        BY <1>5, <1>8 DEF Pending
    <2>2. ~(here' # 0 /\ n >= here')
        BY <1>5, <1>8, <2>1 DEF Pending
    <2>3. here' # 0 => n < here'
        <3>1. n \in Nat /\ (here' # 0 => here' \in Nat)
            BY <1>1, <1>2, <1>6
        <3> QED BY <2>2, <3>1
    <2> QED BY <2>1, <2>3, <1>6, <1>1, <1>2
<1>9. Pending(here)
    BY <1>2, <1>3 DEF Pending
<1>10. ASSUME NEW n \in live, Repeated(n), copyOf[n] # 0 PROVE copyOf'[n] # 0
    <2>1. CASE ~Pure(here)
        BY <2>1, <1>10 DEF NumberNode
    <2>2. CASE Pure(here)
        <3>1. Lookup(here) /\ copyOf[here] = 0
            BY <2>2 DEF NumberNode, Pure
        <3>2. n # here
            BY <3>1, <1>10
        <3> QED BY <3>1, <3>2, <1>10, <1>1 DEF Lookup
    <2> QED BY <2>1, <2>2
<1>11. ASSUME Repeated(here) PROVE copyOf'[here] # 0
    <2>1. code[here].expr # NoExpr /\ Reached(Top.block)
        BY <1>3, <1>11 DEF Repeated
    <2>2. PICK m \in live : /\ code[m].expr = code[here].expr
                            /\ \/ BlockAt(m) = BlockAt(here) /\ m < here
                               \/ BlockAt(m) \in dom[BlockAt(here)] \ {BlockAt(here)}
        BY <1>11 DEF Repeated
    <2>3. \E i \in 1 .. Len(walk) : Reached(walk[i].block) /\ Seen(i, m)
        <3>1. CASE BlockAt(m) = BlockAt(here) /\ m < here
            BY <3>1, <2>1, <1>3, <1>4 DEF Seen
        <3>2. CASE BlockAt(m) \in dom[BlockAt(here)] \ {BlockAt(here)}
            <4>1. PICK i \in 1 .. L : BlockAt(m) = walk[i].block
                BY <3>2, <2>1, <1>3, <1>4 DEF PathComplete
            <4>2. i # L /\ i < L /\ i \in 1 .. Len(walk)
                BY <3>2, <4>1, <1>3, <1>4
            <4>3. Reached(walk[i].block)
                BY <4>2, <1>3, <1>4 DEF OnPath
            <4> QED BY <4>1, <4>2, <4>3, <1>4 DEF Seen
        <3> QED BY <2>2, <3>1, <3>2
    <2>4. code[here].expr \in DOMAIN table
        BY <2>1, <2>2, <2>3, <1>1, KnownOnTheWay
    <2>5. CASE Pure(here)
        <3>1. copyOf' = [copyOf EXCEPT ![here] = table[code[here].expr]]
            BY <2>4, <2>5 DEF NumberNode, Lookup
        <3>2. table[code[here].expr] \in Nodes
            BY <2>4 DEF GvnShape
        <3> QED BY <3>1, <3>2, <1>1, <1>2
    <2>6. CASE ~Pure(here)
        BY <2>1, <2>6 DEF NumberNode, Pure
    <2> QED BY <2>5, <2>6
<1>12. ASSUME NEW n \in live, Repeated(n)', ~Pending(n)' PROVE copyOf'[n] # 0
    <2>1. Repeated(n)
        BY <1>1, <1>7, <1>12
    <2>2. CASE Pending(n)
        BY <2>1, <2>2, <1>8, <1>11, <1>12
    <2>3. CASE ~Pending(n)
        BY <2>1, <2>3, <1>10 DEF RepeatsCopied
    <2> QED BY <2>2, <2>3
<1> QED BY <1>5, <1>12 DEF RepeatsCopied

LEMMA CompleteStep ==
    ASSUME GvnInv, TableInv, CopyInv, CompleteInv, [GvnNext]_<<vars, gvnVars>>
    PROVE  CompleteInv'
<1>1. DomInv /\ GvnShape /\ Walking /\ Walking'
    BY WalkingStep DEF GvnInv
<1>2. stage' = "tree" => PathComplete'
    BY <1>1, PathCompleteStep DEF CompleteInv
<1>3. ASSUME UNCHANGED <<vars, live>>
      PROVE  /\ code' = code /\ dom' = dom /\ (EndsKept' <=> EndsKept)
             /\ (ChildrenFit' <=> ChildrenFit)
             /\ (\A n : BlockAt(n)' = BlockAt(n)) /\ (\A x : Below(x)' = Below(x))
             /\ (\A n : Repeated(n)' <=> Repeated(n))
    <2>1. /\ code' = code /\ dom' = dom /\ idom' = idom /\ first' = first /\ last' = last /\ live' = live
          /\ Blocks' = Blocks
          /\ (\A n : BlockAt(n)' = BlockAt(n)) /\ (\A x : Below(x)' = Below(x))
          /\ \A x : Reached(x)' = Reached(x)
        BY <1>3, GvnFrame DEF vars
    <2> QED BY <2>1 DEF EndsKept, ChildrenFit, Repeated
<1>4. ASSUME stage' = "tree", EndsKept', ChildrenFit' PROVE RepeatsCopied'
    <2>1. ASSUME stage = "tree", UNCHANGED <<vars, live, copyOf>>,
                 \A n \in live : Pending(n) => Pending(n)'
          PROVE  RepeatsCopied'
        <3>1. RepeatsCopied
            BY <1>3, <1>4, <2>1 DEF CompleteInv
        <3> QED BY <3>1, <1>3, <2>1 DEF RepeatsCopied
    <2>2. CASE WalkTree
        <3>1. ChildrenFit
            BY <1>3, <1>4, <2>2 DEF WalkTree
        <3> QED BY <3>1, <1>1, <2>2, StartRepeats
    <2>3. CASE WalkChild
        <3>1. stage = "tree" /\ EndsKept /\ ChildrenFit
            BY <1>3, <1>4, <2>3 DEF WalkChild
        <3> QED BY <3>1, <1>1, <2>3, ChildRepeats DEF CompleteInv
    <2>4. CASE NumberNode
        <3>1. stage = "tree" /\ EndsKept /\ ChildrenFit
            BY <1>3, <1>4, <2>4 DEF NumberNode
        <3> QED BY <3>1, <1>1, <2>4, NumberRepeats DEF CompleteInv, TableInv, CopyInv
    <2>5. CASE PopScope
        <3>1. /\ stage = "tree" /\ UNCHANGED <<vars, live, copyOf>> /\ OnPath /\ walk # << >>
              /\ walk' = SubSeq(walk, 1, Len(walk) - 1) /\ here = 0 /\ Top.todo = {}
              /\ Top = walk[Len(walk)]
            BY <1>1, <2>5 DEF PopScope, Walking, Top
        <3>2. walk \in Seq(Activations) /\ Len(walk) \in Nat /\ Len(walk) # 0
            BY <3>1 DEF OnPath
        <3>3. \A i \in 1 .. Len(walk) : i # Len(walk) => i \in 1 .. Len(walk') /\ walk'[i] = walk[i]
            BY <3>1, <3>2
        <3>4. ASSUME NEW n \in live, Pending(n) PROVE Pending(n)'
            <4>1. PICK i \in 1 .. Len(walk) : \E d \in walk[i].todo : BlockAt(n) \in Below(d)
                BY <3>1, <3>4 DEF Pending
            <4>2. i # Len(walk)
                BY <4>1, <3>1
            <4> QED BY <4>1, <4>2, <3>1, <3>3, <1>3 DEF Pending
        <3> QED BY <3>1, <3>4, <2>1
    <2>6. CASE ReadFreedNode
        <3>1. /\ stage = "tree" /\ UNCHANGED <<vars, live, copyOf, walk>> /\ here \notin live
              /\ live \subseteq Nodes
            BY <1>1, <2>6 DEF ReadFreedNode, GvnShape
        <3>2. EndsKept
            BY <3>1, <1>3, <1>4
        <3>3. /\ here \in Nodes /\ here # 0 /\ (here' # 0 => here' \in Nodes)
              /\ \A n \in live : BlockAt(n) = Top.block /\ (here' # 0 => n < here') => n <= here
            BY <1>1, <2>6, <3>2, NumberingStaysInside
        <3>4. \A n \in Nodes : n \in Int
            BY <1>1, <3>1, TreeBlocks
        <3>5. ASSUME NEW n \in live, BlockAt(n) = Top.block, n >= here PROVE here' # 0 /\ n >= here'
            <4>1. n \in Int /\ here \in Int /\ n # here
                BY <3>1, <3>3, <3>4
            <4>2. ~(n <= here)
                BY <4>1, <3>5
            <4>3. here' # 0 /\ ~(n < here')
                BY <4>2, <3>3, <3>5
            <4>4. here' \in Int
                BY <4>3, <3>3, <3>4
            <4> QED BY <4>1, <4>3, <4>4
        <3>6. \A n \in live : Pending(n) => Pending(n)'
            BY <3>1, <3>5, <1>3 DEF Pending, Top
        <3> QED BY <3>1, <3>6, <2>1
    <2>7. CASE UNCHANGED <<vars, gvnVars>>
        <3>1. stage = "tree" /\ UNCHANGED <<vars, live, copyOf, walk, here>>
            BY <1>4, <2>7 DEF gvnVars
        <3>2. \A n \in live : Pending(n) => Pending(n)'
            BY <3>1, <1>3 DEF Pending, Top
        <3> QED BY <3>1, <3>2, <2>1
    <2>8. CASE AnalyseThis \/ AnalyseOthers \/ DeadCode \/ TreeWalked \/ FollowOverwrittenLink \/ Scan
        BY <1>4, <2>8 DEF AnalyseThis, AnalyseOthers, DeadCode, TreeWalked, FollowOverwrittenLink,
                    Scan, ScanList, ScanNode, ListScanned, gvnVars
    <2> QED BY <2>2, <2>3, <2>4, <2>5, <2>6, <2>7, <2>8 DEF GvnNext, Pass, Number
<1>5. ASSUME stage' = "finished", own', blockCount' # 0, EndsKept', ChildrenFit',
             NEW n \in live', Repeated(n)'
      PROVE  copyOf'[n] # 0
    <2>1. CASE TreeWalked
        <3>1. /\ stage = "tree" /\ walk = << >> /\ UNCHANGED <<vars, live, copyOf>>
            BY <2>1 DEF TreeWalked
        <3>2. EndsKept /\ ChildrenFit /\ Repeated(n) /\ n \in live
            BY <3>1, <1>3, <1>5
        <3>3. here = 0
            BY <3>1, <1>1 DEF Walking, Inside
        <3>4. ~Pending(n)
            BY <3>1, <3>3 DEF Pending
        <3> QED BY <3>1, <3>2, <3>4 DEF CompleteInv, RepeatsCopied
    <2>2. CASE ListScanned
        BY <2>2, <1>5, <1>1 DEF ListScanned, GvnShape, vars
    <2>3. CASE UNCHANGED <<vars, gvnVars>>
        <3>1. stage = "finished" /\ UNCHANGED <<vars, live, copyOf, own>> /\ own /\ blockCount # 0
            BY <2>3, <1>5 DEF gvnVars, vars
        <3> QED BY <3>1, <1>3, <1>5 DEF CompleteInv
    <2>4. CASE \/ AnalyseThis \/ AnalyseOthers \/ DeadCode \/ WalkTree \/ NumberNode
               \/ ReadFreedNode \/ FollowOverwrittenLink \/ WalkChild \/ PopScope
               \/ ScanList \/ ScanNode
        BY <2>4, <1>5 DEF gvnVars,
            AnalyseThis, AnalyseOthers, DeadCode, WalkTree, NumberNode, ReadFreedNode,
            FollowOverwrittenLink, WalkChild, PopScope, ScanList, ScanNode
    <2> QED BY <2>1, <2>2, <2>3, <2>4 DEF GvnNext, Pass, Number, Scan
<1> QED BY <1>2, <1>4, <1>5 DEF CompleteInv

\* When the walk is over, no node below the entry computes again what a node
\* that dominates it has computed, for every program and every limit for which
\* no list of children was cut off at DOM_MAX_CHILDREN.
THEOREM NothingLeftTwice == GvnSpec => [](ChildrenFit => NothingComputedTwice)
<1>1. GvnInit => TableInv /\ CopyInv /\ CompleteInv
    BY DEF GvnInit, TableInv, CopyInv, CompleteInv
<1>2. GvnInv /\ TableInv /\ CopyInv /\ CompleteInv /\ [GvnNext]_<<vars, gvnVars>>
      => TableInv' /\ CopyInv' /\ CompleteInv'
    BY TableStep, CopyStep, CompleteStep DEF GvnInv
<1>3. ASSUME GvnInv, CompleteInv, ChildrenFit PROVE NothingComputedTwice
    <2> SUFFICES ASSUME stage = "finished", own, blockCount > 0, EndsKept,
                        NEW m \in live, code[m].expr # NoExpr,
                        NEW n \in live, code[n].expr # NoExpr,
                        Before(m, n), code[m].expr = code[n].expr,
                        0 \in dom[BlockOf(n)], Reached(BlockOf(n))
                 PROVE  copyOf[n] # 0
        BY DEF NothingComputedTwice, Reached
    <2>1. TreeDone /\ live \subseteq Nodes
        BY <1>3 DEF GvnInv, TreeDone, GvnShape
    <2>2. ASSUME NEW k \in live PROVE BlockOf(k) = BlockAt(k)
        <3>1. BlockAt(k) \in Blocks
            BY <2>1, BlockAtType, TreeFacts
        <3>2. \A b \in Blocks : k \in first[b] .. last[b] <=> BlockAt(k) = b
            BY <2>1, GraphBlocks
        <3> QED BY <3>1, <3>2 DEF BlockOf
    <2>3. Repeated(n)
        BY <2>2 DEF Before, Repeated
    <2> QED BY <2>3, <2>1, <1>3 DEF CompleteInv, TreeDone
<1> QED BY <1>1, <1>2, <1>3, GvnInvariant, PTL DEF GvnSpec

-----------------------------------------------------------------------------
(* Going up.  The immediate dominator of a block the graph leads to is led *)
(* to as well, and has the block's other dominators.                       *)
LEMMA UpFacts ==
    ASSUME TreeDone, NEW b \in Blocks, Reached(b)
    PROVE  /\ b \in dom[b] /\ IsFiniteSet(dom[b])
           /\ \/ Up(b) = -1 /\ dom[b] = {b}
              \/ /\ Up(b) \in Blocks /\ Reached(Up(b))
                 /\ b \notin dom[Up(b)] /\ dom[b] = dom[Up(b)] \cup {b}
<1>1. b # -1 /\ Up(b) = idom[b]
    BY TreeFacts DEF Up
<1>2. b \in dom[b] /\ dom[b] \subseteq Blocks /\ IsFiniteSet(dom[b])
    BY TreeFacts, FS_Subset DEF IInv, Complete
<1>3. dom[0] = {0}
    <2>1. ASSUME NEW d \in dom[0], d # 0 PROVE FALSE
        <3>1. d \in Blocks /\ Dominates(d, 0)
            BY <2>1, TreeFacts, FixedPointIsDominance
        <3>2. 0 \in Roots
            BY TreeFacts DEF Roots
        <3> QED BY <2>1, <3>1, <3>2 DEF Dominates, ClosedWithout
    <2>2. 0 \in dom[0]
        BY TreeFacts DEF IInv, Complete
    <2> QED BY <2>1, <2>2
<1>4. CASE dom[b] = {b}
    <2>1. idom[b] = -1
        BY <1>4, TreeFacts DEF Picked
    <2> QED BY <1>1, <1>2, <1>4, <2>1
<1>5. CASE dom[b] # {b}
    <2> DEFINE u == idom[b]
    <2>1. b \in Blocks \ {0}
        BY <1>3, <1>5
    <2>2. u \in dom[b] \ {b} /\ \A d \in dom[b] \ {b} : Dominates(d, u)
        BY <1>5, <2>1, TreeFacts, PickedIsClosest DEF Reached
    <2> HIDE DEF u
    <2>3. u \in Blocks /\ u # b /\ Dominates(u, b)
        BY <1>2, <2>2, TreeFacts, FixedPointIsDominance
    <2>4. b \notin dom[u]
        BY <2>3, TreeFacts, Antisymmetric, FixedPointIsDominance
    <2>5. Reached(u)
        BY <2>3, <2>4, UnreachedSet
    <2>6. ASSUME NEW d \in dom[b] \ {b} PROVE d \in dom[u]
        BY <1>2, <2>2, <2>3, TreeFacts, FixedPointIsDominance
    <2>7. ASSUME NEW d \in dom[u] PROVE d \in dom[b]
        <3>1. d \in Blocks
            BY <2>3, TreeFacts
        <3>2. Dominates(d, u)
            BY <2>3, <2>7, <3>1, TreeFacts, FixedPointIsDominance
        <3>3. Dominates(d, b)
            BY <2>3, <3>1, <3>2, Transitive
        <3> QED BY <3>1, <3>3, TreeFacts, FixedPointIsDominance
    <2>8. dom[b] = dom[u] \cup {b}
        BY <1>2, <2>6, <2>7
    <2> QED BY <1>1, <1>2, <2>3, <2>4, <2>5, <2>8 DEF u
<1> QED BY <1>4, <1>5

LEMMA ClimbFacts ==
    ASSUME TreeDone, NEW b \in Blocks
    PROVE  /\ Climb(b)[0] = b
           /\ \A i \in 1 .. blockCount : Climb(b)[i] = Up(Climb(b)[i - 1])
<1> DEFINE A == Blocks \cup {-1}
           G == [x \in A |-> Up(x)]
           climb[i \in 0 .. blockCount] == IF i = 0 THEN b ELSE Up(climb[i - 1])
<1>1. blockCount \in Nat /\ -1 \notin Blocks
    BY TreeFacts
<1>2. ASSUME NEW x \in A PROVE Up(x) \in A
    <2>1. CASE x = -1
        BY <2>1 DEF Up
    <2>2. CASE x # -1
        <3>1. x \in Blocks /\ Up(x) = idom[x]
            BY <2>2 DEF Up
        <3>2. CASE x = 0 \/ dom[x] = {x}
            BY <3>1, <3>2, TreeFacts DEF Picked
        <3>3. CASE x # 0 /\ dom[x] # {x}
            <4>1. idom[x] = Closest(x)
                BY <3>1, <3>3, TreeFacts DEF Picked
            <4>2. x \in dom[x] /\ dom[x] \subseteq Blocks
                BY <3>1, TreeFacts DEF IInv, Complete
            <4>3. Closest(x) \in dom[x] \ {x}
                BY <3>1, <3>3, <4>2, TreeFacts, ClosestFacts
            <4> QED BY <3>1, <4>1, <4>2, <4>3
        <3> QED BY <3>2, <3>3
    <2> QED BY <2>1, <2>2
<1>3. PICK f \in [0 .. blockCount -> A] :
          f = [i \in 0 .. blockCount |-> IF i = 0 THEN b ELSE G[f[i - 1]]]
    <2>1. b \in A /\ G \in [A -> A]
        BY <1>2
    <2>2. \E f : Iterates(f, A, b, G, blockCount)
        <3> HIDE DEF G, A
        <3> QED BY <1>1, <2>1, Iteration
    <2> QED BY <2>2 DEF Iterates
<1>4. f = [i \in 0 .. blockCount |-> IF i = 0 THEN b ELSE Up(f[i - 1])]
    <2>1. \A i \in 0 .. blockCount : i # 0 => f[i - 1] \in A
        BY <1>1
    <2> HIDE DEF A
    <2> QED BY <1>3, <2>1
<1>5. climb = [i \in 0 .. blockCount |-> IF i = 0 THEN b ELSE Up(climb[i - 1])]
    BY <1>4
<1>6. Climb(b) = climb
    BY DEF Climb
<1> HIDE DEF climb
<1>7. \A i \in 0 .. blockCount : climb[i] = IF i = 0 THEN b ELSE Up(climb[i - 1])
    BY <1>5
<1>8. 0 \in 0 .. blockCount /\ \A i \in 1 .. blockCount : i \in 0 .. blockCount /\ i # 0
    BY <1>1
<1> QED BY <1>6, <1>7, <1>8

LEMMA ClimbingPasses ==
    ASSUME TreeDone, NEW b \in Blocks, Reached(b)
    PROVE  /\ Climb(b)[blockCount] = -1
           /\ {Climb(b)[i] : i \in 0 .. blockCount} \ {-1} = dom[b]
<1> DEFINE N == blockCount
           c == Climb(b)
           Passed(i) == {c[j] : j \in 0 .. (i - 1)} \ {-1}
           Right(i) ==
               \/ c[i] = -1 /\ Passed(i) = dom[b]
               \/ /\ c[i] \in Blocks /\ Reached(c[i])
                  /\ dom[b] = Passed(i) \cup dom[c[i]]
                  /\ Cardinality(dom[c[i]]) + i <= Cardinality(dom[b])
           M == {i \in 0 .. N : ~Right(i)}
<1>1. N \in Nat /\ -1 \notin Blocks /\ c[0] = b /\ \A i \in 1 .. N : c[i] = Up(c[i - 1])
    BY TreeFacts, ClimbFacts
<1>2. Cardinality(dom[b]) \in Nat /\ Cardinality(dom[b]) <= N
    <2>1. Cardinality(Blocks) = N
        BY <1>1, FS_Interval DEF Blocks
    <2>2. dom[b] \subseteq Blocks
        BY TreeFacts
    <2> QED BY <2>1, <2>2, TreeFacts, FS_Subset, FS_CardinalityType
<1> HIDE DEF c
<1>3. Right(0)
    <2>1. Passed(0) = {}
        OBVIOUS
    <2> QED BY <1>1, <1>2, <2>1
<1>4. ASSUME NEW i \in 0 .. N, i # N, Right(i) PROVE Right(i + 1)
    <2>1. i + 1 \in 1 .. N /\ i + 1 - 1 = i /\ c[i + 1] = Up(c[i]) /\ i \in Nat
        BY <1>1, <1>4
    <2>2. Passed(i + 1) = Passed(i) \cup ({c[i]} \ {-1})
        <3>1. 0 .. (i + 1 - 1) = 0 .. (i - 1) \cup {i}
            BY <2>1
        <3> QED BY <3>1
    <2> HIDE DEF Passed
    <2>3. CASE c[i] = -1
        <3>1. Passed(i) = dom[b]
            BY <1>1, <1>4, <2>3
        <3>2. c[i + 1] = -1
            BY <2>1, <2>3 DEF Up
        <3> QED BY <2>2, <2>3, <3>1, <3>2
    <2>4. CASE c[i] # -1
        <3> DEFINE x == c[i]
        <3>1. x \in Blocks /\ Reached(x) /\ dom[b] = Passed(i) \cup dom[x]
              /\ Cardinality(dom[x]) + i <= Cardinality(dom[b])
            BY <1>4, <2>4
        <3>2. Passed(i + 1) = Passed(i) \cup {x}
            BY <2>2, <2>4
        <3>3. c[i + 1] = Up(x)
            BY <2>1
        <3> HIDE DEF x
        <3>4. CASE Up(x) = -1 /\ dom[x] = {x}
            BY <3>1, <3>2, <3>3, <3>4
        <3>5. CASE /\ Up(x) \in Blocks /\ Reached(Up(x))
                   /\ x \notin dom[Up(x)] /\ dom[x] = dom[Up(x)] \cup {x}
            <4>1. dom[b] = Passed(i + 1) \cup dom[Up(x)]
                BY <3>1, <3>2, <3>5
            <4>2. IsFiniteSet(dom[x]) /\ IsFiniteSet(dom[Up(x)])
                BY <3>1, <3>5, UpFacts
            <4>3. /\ Cardinality(dom[x]) \in Nat /\ Cardinality(dom[Up(x)]) \in Nat
                  /\ Cardinality(dom[Up(x)]) < Cardinality(dom[x])
                BY <3>5, <4>2, FS_Subset, FS_CardinalityType
            <4>4. Cardinality(dom[Up(x)]) + (i + 1) <= Cardinality(dom[b])
                BY <1>2, <2>1, <3>1, <4>3
            <4> QED BY <3>3, <3>5, <4>1, <4>4
        <3> QED BY <3>1, <3>4, <3>5, UpFacts
    <2> QED BY <2>3, <2>4
<1>5. M = {}
    <2> SUFFICES ASSUME M # {} PROVE FALSE
        OBVIOUS
    <2>1. PICK m \in M : \A k \in M : m <= k
        <3>1. M \in SUBSET Nat
            BY <1>1
        <3> HIDE DEF M
        <3> QED BY <3>1, Least
    <2> HIDE DEF Right
    <2>2. m \in 0 .. N /\ ~Right(m) /\ m # 0
        BY <1>3, <2>1
    <2>3. m - 1 \in 0 .. N /\ m - 1 # N /\ m - 1 + 1 = m /\ ~(m <= m - 1)
        BY <1>1, <2>2
    <2>4. Right(m - 1)
        BY <2>1, <2>3
    <2>5. Right(m - 1 + 1)
        BY <1>4, <2>3, <2>4
    <2> QED BY <2>2, <2>3, <2>5
<1>6. Right(N)
    <2>1. N \in 0 .. N
        BY <1>1
    <2> HIDE DEF Right
    <2> QED BY <1>5, <2>1
<1>7. c[N] = -1 /\ Passed(N) = dom[b]
    <2> SUFFICES ASSUME c[N] \in Blocks, Reached(c[N]), Cardinality(dom[c[N]]) + N <= Cardinality(dom[b])
                 PROVE  FALSE
        BY <1>6
    <2>1. c[N] \in dom[c[N]] /\ IsFiniteSet(dom[c[N]])
        BY UpFacts
    <2>2. Cardinality(dom[c[N]]) \in Nat /\ Cardinality(dom[c[N]]) # 0
        BY <2>1, FS_CardinalityType, FS_EmptySet
    <2> QED BY <1>1, <1>2, <2>2
<1>8. {c[i] : i \in 0 .. N} \ {-1} = Passed(N)
    <2>1. 0 .. N = 0 .. (N - 1) \cup {N}
        BY <1>1
    <2> HIDE DEF N
    <2> QED BY <1>7, <2>1
<1> QED BY <1>7, <1>8 DEF c

(* ir_dominance.c:27-36.  dom_dominates ends and is right for every block  *)
(* that the graph leads to: it comes by the dominators of the block only,  *)
(* and by all of them.                                                     *)
THEOREM ClimbingIsDominance == Spec => []DominanceByClimbing
<1>1. DomInv => DominanceByClimbing
    <2> SUFFICES ASSUME DomInv, phase = "done", blockCount > 0, NEW b \in Blocks, Reached(b)
                 PROVE  /\ Climb(b)[blockCount] = -1
                        /\ {Climb(b)[i] : i \in 0 .. blockCount} \ {-1} = {d \in Blocks : Dominates(d, b)}
        BY DEF DominanceByClimbing, Reached
    <2>1. TreeDone
        <3>1. blockCount # 0
            BY DEF DomInv, IInv, Shape
        <3> QED BY <3>1 DEF TreeDone
    <2>2. dom[b] = {d \in Blocks : Dominates(d, b)}
        BY <2>1, TreeFacts, FixedPointIsDominance
    <2> QED BY <2>1, <2>2, ClimbingPasses
<1> QED BY <1>1, DomInvariant, PTL

-----------------------------------------------------------------------------
(* The end of the numbering.  What is left to do, the weightiest first:    *)
(* the stages; in the dominance pass its phases, what a sweep can take     *)
(* away, whether another sweep is due and the blocks left in this one; in  *)
(* the tree the blocks still to come, the activations and the nodes left.  *)
ToCome == UNION {Below(d) : d \in UNION {walk[i].todo : i \in 1 .. Len(walk)}}

Ahead == IF here = 0 THEN 0 ELSE Len(code) + 1 - here

SetPairs == {p \in Blocks \X Blocks : p[2] \in dom[p[1]]}

PhaseLeft == [cut |-> 4, wire |-> 3, sweep |-> 2, tree |-> 1, done |-> 0]

Left ==
    CASE stage = "dominance" /\ phase = "sweep" ->
            <<5, 2, Cardinality(SetPairs), IF changed THEN 1 ELSE 0, blockCount - at>>
      [] stage = "dominance" /\ phase # "sweep" -> <<5, PhaseLeft[phase], 0, 0, 0>>
      [] stage = "dce" -> <<4, 0, 0, 0, 0>>
      [] stage = "start" -> <<3, 0, 0, 0, 0>>
      [] stage = "tree" ->
            <<2, Cardinality(ToCome), Len(walk), Ahead, 0>>
      [] stage = "linear" -> <<2, 0, 0, Ahead, 0>>
      [] OTHER -> <<0, 0, 0, 0, 0>>

\* The order of such tuples in which no tuple has endlessly many below it.
Lower(p, q) == \E i \in 1 .. 5 : p[i] < q[i] /\ \A j \in 1 .. (i - 1) : p[j] = q[j]

\* ir_pass_manager.c:827-874.  Each step of the passes leaves less to do: the
\* sweeps, the walk and the pass over the list come to an end, whatever nodes
\* dce has freed (a freed node leads to the one behind it or to the end).
StepsRunOut ==
    [][Pass => Left \in Nat \X Nat \X Nat \X Nat \X Nat /\ Lower(Left', Left)]_<<vars, gvnVars>>

LEMMA LowerFacts ==
    ASSUME NEW a, NEW b, NEW c, NEW d, NEW e, NEW v, NEW w, NEW x, NEW y, NEW z,
           \/ a < v
           \/ a = v /\ b < w
           \/ a = v /\ b = w /\ c < x
           \/ a = v /\ b = w /\ c = x /\ d < y
           \/ a = v /\ b = w /\ c = x /\ d = y /\ e < z
    PROVE  Lower(<<a, b, c, d, e>>, <<v, w, x, y, z>>)
<1> DEFINE p == <<a, b, c, d, e>>
           q == <<v, w, x, y, z>>
<1>1. /\ p[1] = a /\ p[2] = b /\ p[3] = c /\ p[4] = d /\ p[5] = e
      /\ q[1] = v /\ q[2] = w /\ q[3] = x /\ q[4] = y /\ q[5] = z
    OBVIOUS
<1> HIDE DEF p, q
<1>2. \E i \in 1 .. 5 : p[i] < q[i] /\ \A j \in 1 .. (i - 1) : p[j] = q[j]
    <2>1. CASE a < v
        BY <1>1, <2>1
    <2>2. CASE a = v /\ b < w
        BY <1>1, <2>2
    <2>3. CASE a = v /\ b = w /\ c < x
        BY <1>1, <2>3
    <2>4. CASE a = v /\ b = w /\ c = x /\ d < y
        BY <1>1, <2>4
    <2>5. CASE a = v /\ b = w /\ c = x /\ d = y /\ e < z
        BY <1>1, <2>5
    <2> QED BY <2>1, <2>2, <2>3, <2>4, <2>5
<1> QED BY <1>2 DEF Lower, p, q

\* What is counted is finite.
LEMMA LeftTypes ==
    ASSUME GvnInv
    PROVE  /\ phase = "sweep" => IsFiniteSet(SetPairs) /\ Cardinality(SetPairs) \in Nat
                                 /\ blockCount - at \in Nat
           /\ stage = "tree" => /\ ToCome \subseteq Blocks /\ IsFiniteSet(ToCome)
                                /\ Cardinality(ToCome) \in Nat /\ Len(walk) \in Nat
           /\ Ahead \in Nat
           /\ PhaseLeft[phase] \in Nat
<1>1. DomInv /\ IInv /\ Shape /\ GvnShape /\ Walking /\ CodeOK
    BY DEF GvnInv, DomInv, IInv, Shape, CodeOK
<1>2. blockCount \in Nat /\ IsFiniteSet(Blocks)
    <2>1. blockCount \in Nat
        BY <1>1, LimitsArePositive DEF Shape
    <2> QED BY <2>1, FS_Interval DEF Blocks
<1>3. ASSUME phase = "sweep" PROVE IsFiniteSet(SetPairs) /\ blockCount - at \in Nat
    <2>1. IsFiniteSet(Blocks \X Blocks)
        BY <1>2, FS_Product
    <2>2. SetPairs \subseteq Blocks \X Blocks
        BY DEF SetPairs
    <2>3. blockCount - at \in Nat
        BY <1>1, <1>2, <1>3, LimitsArePositive DEF Shape
    <2> QED BY <2>1, <2>2, <2>3, FS_Subset
<1>4. ASSUME stage = "tree" PROVE ToCome \subseteq Blocks /\ Len(walk) \in Nat
    <2>1. OnPath /\ walk \in Seq(Activations)
        BY <1>1, <1>4 DEF Walking, OnPath
    <2>2. ASSUME NEW i \in 1 .. Len(walk) PROVE walk[i].todo \subseteq Blocks
        <3>1. walk[i] \in Activations
            BY <2>1
        <3> QED BY <3>1 DEF Activations
    <2>3. \A d \in Blocks : Below(d) \subseteq Blocks
        BY DEF Below
    <2> QED BY <2>1, <2>2, <2>3 DEF ToCome
<1>5. Ahead \in Nat
    BY <1>1 DEF Ahead, GvnShape, CodeOK
<1>6. PhaseLeft[phase] \in Nat
    BY <1>1 DEF PhaseLeft, Shape
<1>7. stage = "tree" => IsFiniteSet(ToCome)
    BY <1>2, <1>4, FS_Subset
<1> QED BY <1>3, <1>4, <1>5, <1>6, <1>7, FS_CardinalityType

LEMMA LeftType ==
    ASSUME GvnInv
    PROVE  Left \in Nat \X Nat \X Nat \X Nat \X Nat
<1>1. /\ stage \in {"dominance", "dce", "start", "tree", "linear", "finished", "crashed"}
      /\ changed \in BOOLEAN
    BY DEF GvnInv, GvnShape, DomInv, IInv, Shape
<1>2. CASE stage = "dominance" /\ phase = "sweep"
    BY <1>2, LeftTypes DEF Left
<1>3. CASE stage = "dominance" /\ phase # "sweep"
    BY <1>3, LeftTypes DEF Left
<1>4. CASE stage = "tree"
    BY <1>4, LeftTypes DEF Left
<1>5. CASE stage = "linear"
    BY <1>5, LeftTypes DEF Left
<1>6. CASE stage \in {"dce", "start", "finished", "crashed"}
    BY <1>6 DEF Left
<1> QED BY <1>1, <1>2, <1>3, <1>4, <1>5, <1>6

\* A part of a finite set has no more members, and fewer if it is not all.
LEMMA Fewer ==
    ASSUME NEW S, IsFiniteSet(S), NEW T \in SUBSET S
    PROVE  /\ Cardinality(T) \in Nat /\ Cardinality(S) \in Nat
           /\ Cardinality(T) < Cardinality(S) \/ T = S
BY FS_Subset, FS_CardinalityType

-----------------------------------------------------------------------------
\* The dominance pass.
LEMMA DominanceLower ==
    ASSUME GvnInv, Descending, AnalyseThis
    PROVE  Lower(Left', Left)
<1>1. stage = "dominance" /\ stage' = "dominance" /\ IInv /\ Shape
    BY DEF AnalyseThis, gvnVars, GvnInv, DomInv, IInv
<1>2. CASE Visit
    <2>1. /\ phase = "sweep" /\ phase' = "sweep" /\ blockCount' = blockCount /\ at' = at + 1
          /\ changed' = (changed \/ NewDom(at) # dom[at]) /\ at < blockCount
          /\ dom' = [dom EXCEPT ![at] = NewDom(at)]
        BY <1>2 DEF Visit
    <2>2. Blocks' = Blocks /\ \A b \in Blocks : dom'[b] \subseteq dom[b]
        BY <1>1, <1>2, VisitShrinks
    <2>3. SetPairs' \subseteq SetPairs
        BY <2>2 DEF SetPairs
    <2>4. /\ IsFiniteSet(SetPairs) /\ Cardinality(SetPairs) \in Nat
          /\ Cardinality(SetPairs') \in Nat
          /\ Cardinality(SetPairs') < Cardinality(SetPairs) \/ SetPairs' = SetPairs
        BY <2>1, <2>3, LeftTypes, Fewer
    <2>5. /\ Left = <<5, 2, Cardinality(SetPairs), IF changed THEN 1 ELSE 0, blockCount - at>>
          /\ Left' = <<5, 2, Cardinality(SetPairs'), IF changed' THEN 1 ELSE 0, blockCount' - at'>>
        BY <1>1, <2>1 DEF Left
    <2>6. CASE SetPairs' # SetPairs
        BY <2>4, <2>5, <2>6, LowerFacts
    <2>7. CASE SetPairs' = SetPairs
        <3>1. at \in Blocks /\ dom \in [Blocks -> SUBSET Blocks] /\ at \in Nat /\ blockCount \in Nat
            BY <1>1, <2>1, LimitsArePositive DEF Shape, Blocks, Wired
        <3>2. NewDom(at) = dom[at]
            <4>1. dom'[at] = NewDom(at) /\ dom'[at] \subseteq dom[at]
                BY <2>1, <2>2, <3>1
            <4>2. ASSUME NEW d \in dom[at] PROVE d \in dom'[at]
                <5>1. <<at, d>> \in SetPairs
                    BY <3>1 DEF SetPairs
                <5>2. <<at, d>> \in SetPairs'
                    BY <2>7, <5>1
                <5> QED BY <5>2 DEF SetPairs
            <4> QED BY <4>1, <4>2
        <3>3. changed' = changed /\ blockCount' - at' < blockCount - at
            <4>1. changed' = changed
                BY <1>1, <2>1, <3>2 DEF Shape
            <4> QED BY <2>1, <3>1, <4>1
        <3> QED BY <2>5, <2>7, <3>3, LowerFacts
    <2> QED BY <2>6, <2>7
<1>3. CASE SweepAgain
    <2>1. /\ phase = "sweep" /\ phase' = "sweep" /\ changed /\ ~changed'
          /\ UNCHANGED <<blockCount, dom>>
        BY <1>3 DEF SweepAgain
    <2>2. SetPairs' = SetPairs
        BY <2>1 DEF SetPairs, Blocks
    <2>3. /\ Left = <<5, 2, Cardinality(SetPairs), 1, blockCount - at>>
          /\ Left' = <<5, 2, Cardinality(SetPairs), 0, blockCount' - at'>>
        BY <1>1, <2>1, <2>2 DEF Left
    <2> QED BY <2>3, LowerFacts
<1>4. CASE ExtractIdom
    <2>1. phase = "sweep" /\ phase' = "tree"
        BY <1>4 DEF ExtractIdom
    <2>2. /\ Left = <<5, 2, Cardinality(SetPairs), IF changed THEN 1 ELSE 0, blockCount - at>>
          /\ Left' = <<5, 1, 0, 0, 0>>
        BY <1>1, <2>1 DEF Left, PhaseLeft
    <2> QED BY <2>2, LowerFacts
<1>5. CASE Wire
    <2>1. phase = "wire" /\ phase' = "sweep"
        BY <1>5 DEF Wire
    <2>2. /\ Left = <<5, 3, 0, 0, 0>>
          /\ Left' = <<5, 2, Cardinality(SetPairs'), IF changed' THEN 1 ELSE 0, blockCount' - at'>>
        BY <1>1, <2>1 DEF Left, PhaseLeft
    <2> QED BY <2>2, LowerFacts
<1>6. CASE Partition \/ TooManyBlocks \/ BuildTree
    <2>1. \/ phase = "cut" /\ phase' = "wire"
          \/ phase = "cut" /\ phase' = "done"
          \/ phase = "tree" /\ phase' = "done"
        BY <1>6 DEF Partition, TooManyBlocks, BuildTree
    <2>2. Left = <<5, PhaseLeft[phase], 0, 0, 0>> /\ Left' = <<5, PhaseLeft[phase'], 0, 0, 0>>
        BY <1>1, <2>1 DEF Left
    <2>3. PhaseLeft[phase'] < PhaseLeft[phase]
        BY <2>1 DEF PhaseLeft
    <2> QED BY <2>2, <2>3, LowerFacts
<1> QED BY <1>2, <1>3, <1>4, <1>5, <1>6 DEF AnalyseThis, Analyse

\* The walk comes to a child: what hangs below it, and it itself, was to come;
\* it itself no longer is.
LEMMA ChildLowers ==
    ASSUME GvnInv, WalkChild
    PROVE  ToCome' \subseteq ToCome /\ ToCome' # ToCome
<1>1. DomInv /\ GvnShape /\ Walking /\ stage = "tree" /\ walk # << >> /\ OnPath /\ Apart /\ TreeDone /\ UNCHANGED vars
    BY TreeState DEF GvnInv, WalkChild, Walking
<1>2. PICK c \in Top.todo :
          /\ c \in Blocks /\ c \in children[Top.block] /\ Reached(Top.block)
          /\ walk' \in Seq(Activations) /\ Len(walk') = Len(walk) + 1
          /\ \A i \in 1 .. Len(walk) :
                /\ walk'[i].block = walk[i].block /\ walk'[i].mark = walk[i].mark
                /\ walk'[i].todo \subseteq walk[i].todo
          /\ c \notin walk'[Len(walk)].todo
          /\ walk'[Len(walk) + 1] = Activation(c)
    BY <1>1, ChildActivation
<1> DEFINE L == Len(walk)
<1>3. L \in Nat /\ L \in 1 .. L /\ Top = walk[L] /\ Top.block \in Blocks
      /\ 1 .. Len(walk') = (1 .. L) \cup {L + 1}
    BY <1>1, <1>2, PathTypes
<1>4. (\A x : Below(x)' = Below(x)) /\ children' = children /\ Apart'
    BY <1>1, GvnFrame, ChildPath DEF vars
<1>5. walk'[L + 1].block = c /\ walk'[L + 1].todo = children[c]
    BY <1>2 DEF Activation
<1>6. children[c] # {} => Reached(c)
    BY <1>1, <1>2, <1>3, UnreachedChild
<1> HIDE DEF L
<1>7. c \in ToCome
    <2>1. c \in walk[L].todo /\ c \in Below(c)
        BY <1>2, <1>3 DEF Below
    <2> QED BY <1>3, <2>1 DEF ToCome, L
<1>8. c \notin ToCome'
    <2> SUFFICES ASSUME NEW i \in 1 .. Len(walk'), NEW d \in walk'[i].todo, c \in Below(d) PROVE FALSE
        BY <1>4 DEF ToCome
    <2>1. L + 1 \in 1 .. Len(walk')
        BY <1>3
    <2> QED BY <1>4, <1>5, <2>1 DEF Apart
<1>9. ToCome' \subseteq ToCome
    <2> SUFFICES ASSUME NEW i \in 1 .. Len(walk'), NEW d \in walk'[i].todo PROVE Below(d) \subseteq ToCome
        BY <1>4 DEF ToCome
    <2>1. CASE i \in 1 .. L
        BY <1>2, <2>1 DEF ToCome, L
    <2>2. CASE i = L + 1
        <3>1. Below(d) \subseteq Below(c)
            BY <1>1, <1>2, <1>5, <1>6, <2>2, BelowChild
        <3>2. Below(c) \subseteq ToCome
            BY <1>2, <1>3 DEF ToCome, L
        <3> QED BY <3>1, <3>2
    <2> QED BY <1>3, <2>1, <2>2
<1> QED BY <1>7, <1>8, <1>9

\* The walk over the tree and the pass over the list.
LEMMA NumberingLower ==
    ASSUME GvnInv, GvnInv', Number \/ Scan
    PROVE  Lower(Left', Left)
<1>1. /\ GvnShape /\ CodeOK /\ Len(code) \in Nat /\ here \in 0 .. Len(code) /\ live \subseteq Nodes
      /\ code' = code /\ here' \in 0 .. Len(code) /\ Nodes = 1 .. Len(code)
    <2>1. code' = code
        BY GvnCodeStays DEF GvnNext, Pass
    <2>2. GvnShape /\ GvnShape' /\ CodeOK
        BY DEF GvnInv, DomInv, IInv, Shape, CodeOK
    <2>3. here \in 0 .. Len(code) /\ live \subseteq Nodes
        BY <2>2 DEF GvnShape
    <2>4. here' \in 0 .. Len(code')
        BY <2>2 DEF GvnShape
    <2>5. Len(code) \in Nat
        BY <2>2 DEF CodeOK
    <2> QED BY <2>1, <2>2, <2>3, <2>4, <2>5 DEF Nodes
<1>2. ASSUME here # 0, here' = 0 \/ here' > here PROVE Ahead' < Ahead
    BY <1>1, <1>2 DEF Ahead
<1>3. CASE WalkTree \/ ScanList
    <2>1. stage = "start" /\ stage' \in {"tree", "linear"}
        BY <1>3 DEF WalkTree, ScanList
    <2>2. /\ Left = <<3, 0, 0, 0, 0>>
          /\ stage' = "tree" => Left' = <<2, Cardinality(ToCome'), Len(walk'), Ahead', 0>>
          /\ stage' = "linear" => Left' = <<2, 0, 0, Ahead', 0>>
        BY <2>1 DEF Left
    <2> QED BY <2>1, <2>2, LowerFacts
<1>4. CASE TreeWalked \/ FollowOverwrittenLink \/ ListScanned
    <2>1. stage \in {"tree", "linear"} /\ stage' \in {"finished", "crashed"}
        BY <1>4 DEF TreeWalked, FollowOverwrittenLink, ListScanned
    <2>2. /\ Left' = <<0, 0, 0, 0, 0>>
          /\ stage = "tree" => Left = <<2, Cardinality(ToCome), Len(walk), Ahead, 0>>
          /\ stage = "linear" => Left = <<2, 0, 0, Ahead, 0>>
        BY <2>1 DEF Left
    <2> QED BY <2>1, <2>2, LowerFacts
<1>5. CASE ScanNode
    <2>1. stage = "linear" /\ stage' = "linear" /\ here # 0 /\ here' = Following(here)
        BY <1>5 DEF ScanNode
    <2>2. Ahead' < Ahead
        BY <1>1, <1>2, <2>1, FollowingFacts
    <2>3. Left = <<2, 0, 0, Ahead, 0>> /\ Left' = <<2, 0, 0, Ahead', 0>>
        BY <2>1 DEF Left
    <2> QED BY <2>2, <2>3, LowerFacts
<1>6. ASSUME stage = "tree", stage' = "tree"
      PROVE  /\ Left = <<2, Cardinality(ToCome), Len(walk), Ahead, 0>>
             /\ Left' = <<2, Cardinality(ToCome'), Len(walk'), Ahead', 0>>
    BY <1>6 DEF Left
<1>7. ASSUME UNCHANGED <<vars, walk>> PROVE ToCome' = ToCome
    BY <1>7, GvnFrame DEF ToCome
<1>8. CASE NumberNode
    <2>1. /\ stage = "tree" /\ stage' = "tree" /\ here \in live /\ here' = Onward(here)
          /\ UNCHANGED <<vars, live, walk>>
        BY <1>8 DEF NumberNode
    <2>2. here # 0 /\ (here' = 0 \/ (here' > here /\ here' \in live))
        BY <1>1, <2>1, FollowingFacts DEF Onward
    <2>3. ToCome' = ToCome /\ walk' = walk /\ Ahead' < Ahead
        BY <1>2, <1>7, <2>1, <2>2
    <2> QED BY <1>6, <2>1, <2>3, LowerFacts
<1>9. CASE ReadFreedNode
    <2>1. /\ stage = "tree" /\ stage' = "tree" /\ here # 0 /\ (here' = 0 \/ here' = here + 1)
          /\ UNCHANGED <<vars, live, walk>>
        BY <1>9 DEF ReadFreedNode
    <2>2. here' = 0 \/ here' > here
        BY <1>1, <2>1
    <2>3. ToCome' = ToCome /\ walk' = walk /\ Ahead' < Ahead
        BY <1>2, <1>7, <2>1, <2>2
    <2> QED BY <1>6, <2>1, <2>3, LowerFacts
<1>10. CASE WalkChild
    <2>1. stage = "tree" /\ stage' = "tree"
        BY <1>10 DEF WalkChild
    <2>2. Cardinality(ToCome') < Cardinality(ToCome)
        BY <1>10, <2>1, ChildLowers, LeftTypes, Fewer
    <2> QED BY <1>6, <2>1, <2>2, LowerFacts
<1>11. CASE PopScope
    <2>1. /\ stage = "tree" /\ stage' = "tree" /\ walk # << >> /\ UNCHANGED vars
          /\ walk' = SubSeq(walk, 1, Len(walk) - 1) /\ OnPath
        BY <1>11 DEF PopScope, GvnInv, Walking
    <2>2. /\ Len(walk) \in Nat /\ Len(walk') = Len(walk) - 1
          /\ \A i \in 1 .. Len(walk') : i \in 1 .. Len(walk) /\ walk'[i] = walk[i]
        <3>1. walk \in Seq(Activations)
            BY <2>1 DEF OnPath
        <3>2. Len(walk) \in Nat /\ Len(walk) > 0
            BY <3>1, <2>1
        <3>3. walk' \in Seq(Activations) /\ Len(walk') = Len(walk) - 1
            <4>1. walk' = SubSeq(walk, 1, Len(walk) - 1) /\ Len(walk) - 1 \in 0 .. Len(walk)
                BY <2>1, <3>2
            <4> DEFINE n == Len(walk) - 1
            <4>2. n \in Int /\ \A i \in 1 .. n : walk[i] \in Activations
                BY <3>1, <3>2
            <4>3. walk' = SubSeq(walk, 1, n) /\ n \in 0 .. Len(walk)
                BY <4>1
            <4> HIDE DEF n
            <4>4. walk' \in Seq(Activations) /\ Len(walk') = IF 1 <= n THEN n - 1 + 1 ELSE 0
                BY <4>2, <4>3, <3>1
            <4>5. Len(walk') = n
                BY <4>2, <4>3, <4>4, <3>2
            <4> QED BY <4>4, <4>5 DEF n
        <3>4. \A i \in 1 .. Len(walk') : i \in 1 .. Len(walk) /\ walk'[i] = walk[i]
            <4>1. walk' = SubSeq(walk, 1, Len(walk) - 1) /\ Len(walk) - 1 \in 0 .. Len(walk)
                BY <2>1, <3>2
            <4> QED BY <4>1, <3>1, <3>2, <3>3
        <3> QED BY <3>2, <3>3, <3>4
    <2>3. ToCome' \subseteq ToCome
        BY <2>1, <2>2, GvnFrame DEF ToCome
    <2>4. Cardinality(ToCome') < Cardinality(ToCome) \/ ToCome' = ToCome
        BY <2>1, <2>3, LeftTypes, Fewer
    <2> QED BY <1>6, <2>1, <2>2, <2>4, LowerFacts
<1> QED BY <1>3, <1>4, <1>5, <1>8, <1>9, <1>10, <1>11 DEF Number, Scan

LEMMA StepsLower ==
    ASSUME GvnInv, GvnInv', Descending, Pass
    PROVE  Lower(Left', Left)
<1>1. CASE AnalyseThis
    BY <1>1, DominanceLower
<1>2. CASE AnalyseOthers
    <2>1. stage = "dominance" /\ phase = "done" /\ stage' = "dce"
        BY <1>2 DEF AnalyseOthers
    <2>2. Left = <<5, 0, 0, 0, 0>> /\ Left' = <<4, 0, 0, 0, 0>>
        BY <2>1 DEF Left, PhaseLeft
    <2> QED BY <2>2, LowerFacts
<1>3. CASE DeadCode
    <2>1. stage = "dce" /\ stage' = "start"
        BY <1>3 DEF DeadCode
    <2>2. Left = <<4, 0, 0, 0, 0>> /\ Left' = <<3, 0, 0, 0, 0>>
        BY <2>1 DEF Left
    <2> QED BY <2>2, LowerFacts
<1> QED BY <1>1, <1>2, <1>3, NumberingLower DEF Pass

(* ir_pass_manager.c:827-874, ir_dominance.c:281-312.  No run of the       *)
(* passes goes on for ever: every step leaves less to do, in an order in   *)
(* which no sequence descends without end.                                 *)
THEOREM NumberingRunsOut == GvnSpec => StepsRunOut
<1>1. GvnInit => Descending
    BY DEF GvnInit, Init, Descending, Wired
<1>2. GvnInv /\ Descending /\ [GvnNext]_<<vars, gvnVars>> => Descending'
    BY GvnDomStep, DescendingStep DEF GvnInv, DomInv
<1>3. GvnInv /\ GvnInv' /\ Descending /\ [GvnNext]_<<vars, gvnVars>>
        => [Pass => Left \in Nat \X Nat \X Nat \X Nat \X Nat /\ Lower(Left', Left)]_<<vars, gvnVars>>
    BY LeftType, StepsLower
<1> QED BY <1>1, <1>2, <1>3, GvnInvariant, PTL DEF GvnSpec, StepsRunOut
=============================================================================
