-------------------------- MODULE LocalScan_proofs --------------------------
(***************************************************************************)
(* That two locals share a register only when they are apart, and that the *)
(* code therefore reads what was last written, for every set of functions  *)
(* and every number of registers.                                          *)
(*                                                                         *)
(* WalkInv says what the walk keeps: an interval covers the mentions of    *)
(* its local, and every finished loop that mentions it.  ScanInv says what *)
(* the scan keeps: intervals in one register follow each other.  RunInv    *)
(* says where what is left to execute was visited by the walk: no local    *)
(* whose value has been lost is reached by it before it is written again.  *)
(***************************************************************************)
EXTENDS LocalScan, SequenceTheorems, WellFoundedInduction, TLAPS

Waiting(v) == v \in ra_locals

Placed(v) == assigned_reg[v] # NoReg

MentionsCovered ==
  /\ \A m \in seen : /\ m[2] <= pseudo_pc
                     /\ live_start[m[1]] # 0
                     /\ live_start[m[1]] > 0 => m[2] \in live_start[m[1]] .. live_end[m[1]]
  /\ \A m, n \in seen : m[2] = n[2] => m = n

LoopsCovered ==
  /\ \A l \in loops : l[2] <= pseudo_pc
  /\ \A l \in loops, m \in seen :
       (Waiting(m[1]) \/ Placed(m[1])) /\ live_start[m[1]] > 0 /\ m[2] \in l[1] .. l[2] =>
         live_start[m[1]] <= l[1] /\ l[2] <= live_end[m[1]]

WalkInv ==
  /\ \A v \in Symbols : Waiting(v) => live_start[v] # 0
  /\ \A v \in addressed : live_start[v] = -1
  /\ phase = "walk" => /\ \A v \in Symbols : live_start[v] > 0 => Waiting(v) \/ Full
                       /\ \A v \in Symbols : ~Placed(v)

ScanInv ==
  /\ phase # "walk" =>
       \A v \in Symbols :
         Waiting(v) \/ Placed(v) => live_start[v] > 0 /\ v \in Scalars /\ ~InParamSlot(v)
  /\ \A v \in Symbols : Placed(v) => ~Waiting(v) /\ live_end[v] <= active_ends[assigned_reg[v]]
  /\ \A v, w \in Symbols : Placed(v) /\ Waiting(w) => live_start[v] <= live_start[w]
  /\ \A v, w \in Symbols :
       v # w /\ Placed(v) /\ assigned_reg[v] = assigned_reg[w] =>
         live_end[v] <= live_start[w] \/ live_end[w] <= live_start[v]

IInv ==
  prog \in Programs /\ LocalScanTypeOK /\ MentionsCovered /\ LoopsCovered /\ WalkInv /\ ScanInv

-----------------------------------------------------------------------------
(* The walk follows pointers of the table only. *)
LEMMA KidType ==
  ASSUME prog \in Programs, NEW n \in DOMAIN prog, NEW f \in Fields
  PROVE  Kid(n, f) \in Seq(DOMAIN prog)
<1>1. CASE f \in DOMAIN prog[n]
  <2>1. f \in Fields \cap DOMAIN prog[n]
    BY <1>1
  <2>2. prog[n][f] \in DOMAIN prog
    BY <2>1, ProgramsAssumption, Zenon
  <2> DEFINE p == prog[n][f]
             D == DOMAIN prog
  <2>3. p \in D
    BY <2>2
  <2> HIDE DEF p, D
  <2>4. <<p>> \in Seq(D)
    BY <2>3
  <2> QED
    BY <1>1, <2>4 DEF Kid, p, D
<1>2. CASE f \notin DOMAIN prog[n]
  BY <1>2 DEF Kid
<1> QED
  BY <1>1, <1>2

LEMMA ListType ==
  ASSUME prog \in Programs, NEW n \in DOMAIN prog, NEW f \in {"stmts", "args"}
  PROVE  List(n, f) \in Seq(DOMAIN prog)
<1>1. CASE f \in DOMAIN prog[n]
  <2>1. f \in {"stmts", "args"} \cap DOMAIN prog[n]
    BY <1>1
  <2>2. prog[n][f] \in Seq(DOMAIN prog)
    BY <2>1, ProgramsAssumption, Zenon
  <2> QED
    BY <1>1, <2>2, Zenon DEF List
<1>2. CASE f \notin DOMAIN prog[n]
  BY <1>2 DEF List
<1> QED
  BY <1>1, <1>2

LEMMA ConcatType ==
  ASSUME NEW S, NEW s \in Seq(S), NEW t \in Seq(S)
  PROVE  s \o t \in Seq(S)
OBVIOUS

LEMMA ChildrenType ==
  ASSUME prog \in Programs, NEW n \in DOMAIN prog
  PROVE  /\ LoopParts(n) \in Seq(DOMAIN prog)
         /\ Children(n) \in Seq(DOMAIN prog)
<1>1. \A f \in Fields : Kid(n, f) \in Seq(DOMAIN prog)
  BY KidType
<1>2. List(n, "stmts") \in Seq(DOMAIN prog) /\ List(n, "args") \in Seq(DOMAIN prog)
  BY ListType
<1>3. Operands(n) \in Seq(DOMAIN prog)
  <2>1. Kid(n, "rhs") \in Seq(DOMAIN prog) /\ Kid(n, "lhs") \in Seq(DOMAIN prog)
    BY <1>1 DEF Fields
  <2> QED
    BY <2>1, ConcatType DEF Operands
<1>4. LoopParts(n) \in Seq(DOMAIN prog)
  BY <1>1, ConcatType DEF LoopParts, Fields
<1>5. Children(n) \in Seq(DOMAIN prog)
  <2>1. Operands(n) \o Kid(n, "cond") \in Seq(DOMAIN prog)
    BY <1>1, <1>3, ConcatType DEF Fields
  <2>2. Operands(n) \o Kid(n, "cond") \o Kid(n, "then_body") \in Seq(DOMAIN prog)
    BY <1>1, <2>1, ConcatType DEF Fields
  <2>3. Operands(n) \o Kid(n, "cond") \o Kid(n, "then_body") \o Kid(n, "else_body")
          \in Seq(DOMAIN prog)
    BY <1>1, <2>2, ConcatType DEF Fields
  <2>4. Operands(n) \o Kid(n, "cond") \o Kid(n, "then_body") \o Kid(n, "else_body")
          \o Kid(n, "init") \in Seq(DOMAIN prog)
    BY <1>1, <2>3, ConcatType DEF Fields
  <2>5. Operands(n) \o Kid(n, "cond") \o Kid(n, "then_body") \o Kid(n, "else_body")
          \o Kid(n, "init") \o Kid(n, "inc") \in Seq(DOMAIN prog)
    BY <1>1, <2>4, ConcatType DEF Fields
  <2>6. Operands(n) \o Kid(n, "cond") \o Kid(n, "then_body") \o Kid(n, "else_body")
          \o Kid(n, "init") \o Kid(n, "inc") \o Kid(n, "body") \in Seq(DOMAIN prog)
    BY <1>1, <2>5, ConcatType DEF Fields
  <2> QED
    BY <1>2, <2>6, ConcatType DEF Children
<1> QED
  BY <1>4, <1>5

(* What is left to visit keeps its type when the children of its head are  *)
(* put in the place of the head.                                           *)
LEMMA TodoType ==
  ASSUME prog \in Programs, LocalScanTypeOK, todo # <<>>,
         NEW s \in Seq(DOMAIN prog \cup {i \in Int : i < 0})
  PROVE  s \o Tail(todo) \in Seq(DOMAIN prog \cup {i \in Int : i < 0})
BY ConcatType DEF LocalScanTypeOK

LEMMA HeadIsNode ==
  ASSUME prog \in Programs, LocalScanTypeOK, NEW kinds, Visiting(kinds)
  PROVE  Here \in DOMAIN prog /\ prog[Here].kind \in kinds
BY DEF LocalScanTypeOK, Visiting, Here

-----------------------------------------------------------------------------
LEMMA InitInv == Init => IInv
<1> SUFFICES ASSUME Init PROVE IInv
  OBVIOUS
<1>1. prog \in Programs /\ 1 \in DOMAIN prog
  BY ProgramsAssumption DEF Init
<1>2. LocalScanTypeOK
  BY <1>1, SymbolsAssumption DEF Init, LocalScanTypeOK, Regs, NoReg
<1>3. MentionsCovered /\ LoopsCovered /\ WalkInv
  BY DEF Init, MentionsCovered, LoopsCovered, WalkInv, Waiting, Placed
<1>4. ScanInv
  BY DEF Init, ScanInv, Waiting, Placed
<1> QED
  BY <1>1, <1>2, <1>3, <1>4 DEF IInv

(* A step that leaves the allocator alone. *)
LEMMA Outside ==
  ASSUME IInv, UNCHANGED <<prog, phase, walked, scanned>>
  PROVE  IInv'
<1>1. LocalScanTypeOK'
  BY DEF IInv, LocalScanTypeOK, walked, scanned
<1>2. MentionsCovered' /\ LoopsCovered'
  BY DEF IInv, MentionsCovered, LoopsCovered, walked, scanned, Waiting, Placed
<1>3. WalkInv' /\ ScanInv'
  BY DEF IInv, WalkInv, ScanInv, walked, scanned, Waiting, Placed, Full, InParamSlot
<1> QED
  BY <1>1, <1>2, <1>3 DEF IInv

(* A node that is no variable, and no address: only a number goes by. *)
LEMMA Numbered ==
  ASSUME IInv, pseudo_pc' = pseudo_pc + 1, LocalScanTypeOK',
         UNCHANGED <<prog, phase, live_end, addressed, seen, loops, scanned>>
  PROVE  IInv'
<1>1. MentionsCovered' /\ LoopsCovered'
  BY DEF IInv, LocalScanTypeOK, MentionsCovered, LoopsCovered, scanned, Waiting, Placed
<1>2. WalkInv' /\ ScanInv'
  BY DEF IInv, WalkInv, ScanInv, scanned, Waiting, Placed, Full, InParamSlot
<1> QED
  BY <1>1, <1>2 DEF IInv

LEMMA VisitLoopInv == IInv /\ VisitLoop => IInv'
<1> SUFFICES ASSUME IInv, VisitLoop PROVE IInv'
  OBVIOUS
<1>1. Here \in DOMAIN prog /\ todo # <<>>
  BY HeadIsNode DEF IInv, VisitLoop, Visiting
<1>2. LoopParts(Here) \in Seq(DOMAIN prog)
  BY <1>1, ChildrenType DEF IInv
<1> DEFINE Items == DOMAIN prog \cup {i \in Int : i < 0}
<1>3. LoopParts(Here) \in Seq(Items)
  BY <1>2
<1>4. pseudo_pc \in Nat
  BY DEF IInv, LocalScanTypeOK
<1>5. <<-(pseudo_pc + 1)>> \in Seq(Items)
  <2> DEFINE e == -(pseudo_pc + 1)
  <2>1. e \in Items
    BY <1>4
  <2> HIDE DEF e, Items
  <2>2. <<e>> \in Seq(Items)
    BY <2>1
  <2> QED
    BY <2>2 DEF e
<1>6. LoopParts(Here) \o <<-(pseudo_pc + 1)>> \in Seq(Items)
  BY <1>3, <1>5, ConcatType
<1>7. todo' \in Seq(Items)
  BY <1>1, <1>6, TodoType DEF IInv, VisitLoop
<1>8. LocalScanTypeOK'
  BY <1>4, <1>7 DEF IInv, VisitLoop, LocalScanTypeOK, scanned
<1> QED
  BY <1>8, Numbered DEF VisitLoop

LEMMA VisitOtherInv == IInv /\ VisitOther => IInv'
<1> SUFFICES ASSUME IInv, VisitOther PROVE IInv'
  OBVIOUS
<1>1. Here \in DOMAIN prog /\ todo # <<>>
  BY HeadIsNode DEF IInv, VisitOther, Visiting
<1>2. Children(Here) \in Seq(DOMAIN prog \cup {i \in Int : i < 0})
  BY <1>1, ChildrenType DEF IInv
<1>3. todo' \in Seq(DOMAIN prog \cup {i \in Int : i < 0})
  BY <1>1, <1>2, TodoType DEF IInv, VisitOther
<1>4. LocalScanTypeOK'
  BY <1>3 DEF IInv, VisitOther, LocalScanTypeOK, scanned
<1> QED
  BY <1>4, Numbered DEF VisitOther

LEMMA LeaveLoopInv == IInv /\ LeaveLoop => IInv'
<1> SUFFICES ASSUME IInv, LeaveLoop PROVE IInv'
  OBVIOUS
<1> DEFINE first == -Here
           Inside(v) == v \in ra_locals /\ live_end[v] >= first
<1> USE DEF IInv
<1>1. Here \in Int /\ Here < 0 /\ first \in Nat /\ first > 0
  BY ProgramsAssumption DEF LeaveLoop, LocalScanTypeOK, Here
<1>2. /\ live_end' = [v \in Symbols |-> IF Inside(v) THEN pseudo_pc ELSE live_end[v]]
      /\ live_start' = [v \in Symbols |-> IF Inside(v) /\ live_start[v] >= first
                                          THEN first ELSE live_start[v]]
      /\ loops' = loops \cup {<<first, pseudo_pc>>}
  BY DEF LeaveLoop, LocalScanTypeOK
<1>3. /\ phase = "walk" /\ todo # <<>> /\ todo' = Tail(todo)
      /\ UNCHANGED <<prog, phase, pseudo_pc, addressed, seen, ra_locals, active_ends, assigned_reg>>
  BY DEF LeaveLoop
<1> HIDE DEF first
<1>0. ASSUME NEW v \in Symbols
       PROVE  /\ live_start[v] \in Nat \cup {-1} /\ live_end[v] \in Nat /\ pseudo_pc \in Nat
              /\ live_start[v] > 0 => live_start[v] <= live_end[v] /\ live_end[v] <= pseudo_pc
              /\ live_end'[v] = IF Inside(v) THEN pseudo_pc ELSE live_end[v]
              /\ live_start'[v] = IF Inside(v) /\ live_start[v] >= first
                                 THEN first ELSE live_start[v]
  <2>1. live_start \in [Symbols -> Nat \cup {-1}] /\ live_end \in [Symbols -> Nat]
    BY DEF LocalScanTypeOK
  <2>2. live_start[v] > 0 => live_end[v] \in live_start[v] .. pseudo_pc
    BY DEF LocalScanTypeOK
  <2>3. live_start[v] \in Nat \cup {-1} /\ live_end[v] \in Nat /\ pseudo_pc \in Nat
    BY <2>1 DEF LocalScanTypeOK
  <2> QED
    BY <1>2, <2>2, <2>3
<1>4. LocalScanTypeOK'
  <2>1. todo' \in Seq(DOMAIN prog \cup {i \in Int : i < 0})
    BY <1>3 DEF LocalScanTypeOK
  <2>2. live_start' \in [Symbols -> Nat \cup {-1}] /\ live_end' \in [Symbols -> Nat]
    BY <1>1, <1>2 DEF LocalScanTypeOK
  <2>3. \A v \in Symbols : live_start'[v] > 0 => live_end'[v] \in live_start'[v] .. pseudo_pc
    BY <1>1, <1>0
  <2>4. loops' \subseteq Nat \X Nat
    BY <1>1, <1>2 DEF LocalScanTypeOK
  <2> QED
    BY <1>3, <2>1, <2>2, <2>3, <2>4 DEF LocalScanTypeOK
<1>5. \A v \in Symbols : /\ live_start[v] # 0 <=> live_start'[v] # 0
                         /\ live_start[v] > 0 <=> live_start'[v] > 0
                         /\ live_start'[v] <= live_start[v]
                         /\ live_start[v] > 0 => live_end[v] <= live_end'[v]
  BY <1>1, <1>0
<1>6. MentionsCovered'
  <2>1. ASSUME NEW m \in seen
        PROVE  /\ m[2] <= pseudo_pc' /\ live_start'[m[1]] # 0
               /\ live_start'[m[1]] > 0 => m[2] \in live_start'[m[1]] .. live_end'[m[1]]
    <3>1. /\ m[1] \in Symbols /\ m[2] \in Nat /\ m[2] <= pseudo_pc /\ live_start[m[1]] # 0
          /\ live_start[m[1]] > 0 => m[2] \in live_start[m[1]] .. live_end[m[1]]
      BY DEF MentionsCovered, LocalScanTypeOK
    <3> QED
      BY <1>1, <1>3, <1>0, <3>1
  <2> QED
    BY <1>3, <2>1 DEF MentionsCovered
<1>7. LoopsCovered'
  <2>1. \A l \in loops' : l[2] <= pseudo_pc'
    BY <1>2, <1>3 DEF LoopsCovered, LocalScanTypeOK
  <2>2. ASSUME NEW l \in loops', NEW m \in seen', Waiting(m[1])' \/ Placed(m[1])',
               live_start'[m[1]] > 0, m[2] \in l[1] .. l[2]
        PROVE  live_start'[m[1]] <= l[1] /\ l[2] <= live_end'[m[1]]
    <3>1. /\ m \in seen /\ m[1] \in Symbols /\ live_start[m[1]] > 0
          /\ m[2] \in live_start[m[1]] .. live_end[m[1]]
      BY <1>3, <1>5, <2>2 DEF LocalScanTypeOK, MentionsCovered
    <3>2. Waiting(m[1]) /\ Waiting(m[1])'
      BY <1>3, <2>2, <3>1 DEF Waiting, Placed, WalkInv
    <3>3. CASE l \in loops
      <4>1. live_start[m[1]] <= l[1] /\ l[2] <= live_end[m[1]]
        BY <2>2, <3>1, <3>2, <3>3 DEF LoopsCovered
      <4>2. l[1] \in Nat /\ l[2] \in Nat
        BY <3>3 DEF LocalScanTypeOK
      <4>3. l[2] <= pseudo_pc
        BY <3>3 DEF LoopsCovered
      <4> QED
        BY <1>1, <1>0, <3>1, <4>1, <4>2, <4>3
    <3>4. CASE l = <<first, pseudo_pc>>
      <4>1. m[2] >= first /\ m[2] \in Nat
        BY <1>1, <2>2, <3>1, <3>4 DEF LocalScanTypeOK
      <4>2. Inside(m[1])
        BY <1>1, <3>1, <3>2, <4>1 DEF LocalScanTypeOK, Waiting
      <4>3. live_start'[m[1]] <= first /\ live_end'[m[1]] = pseudo_pc
        BY <1>1, <1>0, <3>1, <4>2
      <4> QED
        BY <3>4, <4>3 DEF LocalScanTypeOK
    <3> QED
      BY <1>2, <2>2, <3>3, <3>4
  <2> QED
    BY <2>1, <2>2 DEF LoopsCovered
<1>8. WalkInv'
  <2>1. \A v \in addressed : live_start'[v] = -1
    BY <1>1, <1>2 DEF WalkInv, LocalScanTypeOK
  <2> QED
    BY <1>3, <1>5, <2>1 DEF WalkInv, Waiting, Placed, Full, LocalScanTypeOK
<1>9. ScanInv'
  <2>1. \A v \in Symbols : ~Placed(v) /\ ~Placed(v)'
    BY <1>3 DEF WalkInv, Placed
  <2> QED
    BY <1>3, <2>1 DEF ScanInv, Placed
<1> QED
  BY <1>3, <1>4, <1>6, <1>7, <1>8, <1>9

LEMMA VisitVarInv == IInv /\ VisitVar => IInv'
<1> SUFFICES ASSUME IInv, VisitVar PROVE IInv'
  OBVIOUS
<1> USE DEF IInv
<1> DEFINE v == prog[Here].sym
           pc == pseudo_pc + 1
<1>1. Here \in DOMAIN prog /\ todo # <<>> /\ v \in Symbols
  <2>1. Here \in DOMAIN prog /\ prog[Here].kind = "var" /\ todo # <<>>
    BY HeadIsNode DEF VisitVar, Visiting
  <2> QED
    BY <2>1, ProgramsAssumption
<1>2. /\ phase = "walk" /\ pseudo_pc' = pc /\ seen' = seen \cup {<<v, pc>>}
      /\ todo' = Children(Here) \o Tail(todo)
      /\ UNCHANGED <<prog, phase, addressed, loops, active_ends, assigned_reg>>
  BY DEF VisitVar, Visiting
<1>3. \/ live_start[v] = -1 /\ UNCHANGED <<live_start, live_end, ra_locals>>
      \/ /\ live_start[v] # -1
         /\ live_start' = [live_start EXCEPT ![v] = IF live_start[v] = 0 THEN pc ELSE live_start[v]]
         /\ live_end' = [live_end EXCEPT ![v] = pc]
         /\ ra_locals' = IF Full THEN ra_locals ELSE ra_locals \cup {v}
  BY DEF VisitVar
<1> HIDE DEF v, pc
<1>4. pseudo_pc \in Nat /\ pc \in Nat /\ pc = pseudo_pc + 1
  BY DEF LocalScanTypeOK, pc
<1>5. ASSUME NEW w \in Symbols
      PROVE  /\ live_start[w] \in Nat \cup {-1} /\ live_end[w] \in Nat
             /\ live_start[w] > 0 => live_start[w] <= live_end[w] /\ live_end[w] <= pseudo_pc
             /\ w # v => live_start'[w] = live_start[w] /\ live_end'[w] = live_end[w]
             /\ live_start[v] = -1 => live_start'[v] = -1 /\ live_end'[v] = live_end[v]
             /\ live_start[v] = 0 => live_start'[v] = pc /\ live_end'[v] = pc
             /\ live_start[v] > 0 => live_start'[v] = live_start[v] /\ live_end'[v] = pc
  <2>1. live_start \in [Symbols -> Nat \cup {-1}] /\ live_end \in [Symbols -> Nat]
    BY DEF LocalScanTypeOK
  <2>2. live_start[w] > 0 => live_end[w] \in live_start[w] .. pseudo_pc
    BY DEF LocalScanTypeOK
  <2>3. live_start[w] \in Nat \cup {-1} /\ live_end[w] \in Nat
    BY <2>1
  <2>4. w # v => live_start'[w] = live_start[w] /\ live_end'[w] = live_end[w]
    BY <1>3, <2>1
  <2>5. /\ live_start[v] = -1 => live_start'[v] = -1 /\ live_end'[v] = live_end[v]
        /\ live_start[v] = 0 => live_start'[v] = pc /\ live_end'[v] = pc
        /\ live_start[v] > 0 => live_start'[v] = live_start[v] /\ live_end'[v] = pc
    BY <1>1, <1>3, <2>1
  <2> QED
    BY <1>4, <2>2, <2>3, <2>4, <2>5
<1>6. /\ live_start[v] \in Nat \cup {-1}
      /\ live_start'[v] # 0
      /\ live_start'[v] > 0 <=> live_start[v] # -1
      /\ live_start'[v] > 0 => live_start'[v] <= pc /\ live_end'[v] = pc
  BY <1>1, <1>4, <1>5
<1>7. LocalScanTypeOK'
  <2>1. todo' \in Seq(DOMAIN prog \cup {i \in Int : i < 0})
    <3>1. Children(Here) \in Seq(DOMAIN prog)
      BY <1>1, ChildrenType
    <3>2. Children(Here) \in Seq(DOMAIN prog \cup {i \in Int : i < 0})
      BY <3>1
    <3> QED
      BY <1>1, <1>2, <3>2, TodoType
  <2>2. live_start' \in [Symbols -> Nat \cup {-1}] /\ live_end' \in [Symbols -> Nat]
    BY <1>3, <1>4 DEF LocalScanTypeOK
  <2>3. \A w \in Symbols : live_start'[w] > 0 => live_end'[w] \in live_start'[w] .. pseudo_pc'
    BY <1>1, <1>2, <1>4, <1>5, <1>6
  <2>4. seen' \subseteq Symbols \X Nat
    BY <1>1, <1>2, <1>4 DEF LocalScanTypeOK
  <2>5. ra_locals' \subseteq Symbols
    BY <1>1, <1>3 DEF LocalScanTypeOK
  <2> QED
    BY <1>2, <1>4, <2>1, <2>2, <2>3, <2>4, <2>5 DEF LocalScanTypeOK
<1>8. MentionsCovered'
  <2>1. ASSUME NEW m \in seen'
        PROVE  /\ m[2] <= pseudo_pc' /\ live_start'[m[1]] # 0
               /\ live_start'[m[1]] > 0 => m[2] \in live_start'[m[1]] .. live_end'[m[1]]
    <3>1. CASE m \in seen
      <4>1. /\ m[1] \in Symbols /\ m[2] \in Nat /\ m[2] <= pseudo_pc /\ live_start[m[1]] # 0
            /\ live_start[m[1]] > 0 => m[2] \in live_start[m[1]] .. live_end[m[1]]
        BY <3>1 DEF MentionsCovered, LocalScanTypeOK
      <4> QED
        BY <1>2, <1>4, <1>5, <1>6, <4>1
    <3>2. CASE m = <<v, pc>>
      BY <1>2, <1>4, <1>6, <3>2, <1>7 DEF LocalScanTypeOK
    <3> QED
      BY <1>2, <3>1, <3>2
  <2>2. ASSUME NEW m \in seen', NEW n \in seen', m[2] = n[2] PROVE m = n
    <3>1. \A x \in seen : x[2] \in Nat /\ x[2] <= pseudo_pc
      BY DEF MentionsCovered, LocalScanTypeOK
    <3> QED
      BY <1>2, <1>4, <2>2, <3>1 DEF MentionsCovered
  <2> QED
    BY <2>1, <2>2 DEF MentionsCovered
<1>9. LoopsCovered'
  <2>1. \A l \in loops' : l[2] <= pseudo_pc'
    BY <1>2, <1>4 DEF LoopsCovered, LocalScanTypeOK
  <2>2. ASSUME NEW l \in loops', NEW m \in seen', Waiting(m[1])' \/ Placed(m[1])',
               live_start'[m[1]] > 0, m[2] \in l[1] .. l[2]
        PROVE  live_start'[m[1]] <= l[1] /\ l[2] <= live_end'[m[1]]
    <3>1. l \in loops /\ l[1] \in Nat /\ l[2] \in Nat /\ l[2] <= pseudo_pc
      BY <1>2 DEF LoopsCovered, LocalScanTypeOK
    <3>2. m \in seen /\ m[1] \in Symbols /\ m[2] \in Nat
      BY <1>2, <1>4, <2>2, <3>1 DEF LocalScanTypeOK
    <3>3. live_start[m[1]] # 0
      BY <3>2 DEF MentionsCovered
    <3>4. live_start[m[1]] > 0
      BY <1>5, <2>2, <3>2, <3>3
    <3>5. Waiting(m[1])
      BY <1>2, <1>3, <2>2, <3>2, <3>4 DEF WalkInv, Waiting, Placed
    <3>6. live_start[m[1]] <= l[1] /\ l[2] <= live_end[m[1]]
      BY <2>2, <3>1, <3>2, <3>4, <3>5 DEF LoopsCovered
    <3> QED
      BY <1>4, <1>5, <3>1, <3>2, <3>4, <3>6
  <2> QED
    BY <2>1, <2>2 DEF LoopsCovered
<1>10. WalkInv'
  <2>1. \A w \in Symbols : Waiting(w)' => live_start'[w] # 0
    BY <1>3, <1>5, <1>6 DEF WalkInv, Waiting
  <2>2. \A w \in addressed' : live_start'[w] = -1
    BY <1>2, <1>5, <1>6 DEF WalkInv, LocalScanTypeOK
  <2>3. \A w \in Symbols : live_start'[w] > 0 => Waiting(w)' \/ Full'
    <3>1. CASE Full
      <4>1. ra_locals' = ra_locals
        BY <1>3, <3>1
      <4> QED
        BY <3>1, <4>1 DEF Full
    <3>2. CASE ~Full
      <4>1. \A w \in Symbols : live_start[w] > 0 => Waiting(w)
        BY <1>2, <3>2 DEF WalkInv
      <4>2. live_start'[v] > 0 => v \in ra_locals'
        BY <1>3, <1>6, <3>2
      <4> QED
        BY <1>3, <1>5, <4>1, <4>2 DEF Waiting
    <3> QED
      BY <3>1, <3>2
  <2> QED
    BY <1>2, <2>1, <2>2, <2>3 DEF WalkInv, Placed
<1>11. ScanInv'
  <2>1. \A w \in Symbols : ~Placed(w) /\ ~Placed(w)'
    BY <1>2 DEF WalkInv, Placed
  <2> QED
    BY <1>2, <2>1 DEF ScanInv, Placed
<1> QED
  BY <1>2, <1>7, <1>8, <1>9, <1>10, <1>11

LEMMA VisitAddrInv == IInv /\ VisitAddr => IInv'
<1> SUFFICES ASSUME IInv, VisitAddr PROVE IInv'
  OBVIOUS
<1> USE DEF IInv
<1> DEFINE v == prog[prog[Here].lhs].sym
<1>1. Here \in DOMAIN prog /\ todo # <<>> /\ v \in Symbols
  <2>1. Here \in DOMAIN prog /\ prog[Here].kind = "addr" /\ todo # <<>>
    BY HeadIsNode DEF VisitAddr, Visiting
  <2>2. "lhs" \in DOMAIN prog[Here] /\ prog[prog[Here].lhs].kind = "var"
    BY <2>1, ProgramsAssumption
  <2>3. prog[Here]["lhs"] \in DOMAIN prog
    <3>1. "lhs" \in Fields \cap DOMAIN prog[Here]
      BY <2>2 DEF Fields
    <3> QED
      BY <2>1, <3>1, ProgramsAssumption, Zenon
  <2> QED
    BY <2>1, <2>2, <2>3, ProgramsAssumption
<1>2. /\ phase = "walk" /\ pseudo_pc' = pseudo_pc + 1
      /\ live_start' = [live_start EXCEPT ![v] = -1] /\ addressed' = addressed \cup {v}
      /\ todo' = Children(Here) \o Tail(todo)
      /\ UNCHANGED <<prog, phase, live_end, seen, loops, ra_locals, active_ends, assigned_reg>>
  BY DEF VisitAddr, Visiting
<1> HIDE DEF v
<1>3. live_start \in [Symbols -> Nat \cup {-1}] /\ pseudo_pc \in Nat
  BY DEF LocalScanTypeOK
<1>4. live_start'[v] = -1 /\ \A w \in Symbols : w # v => live_start'[w] = live_start[w]
  BY <1>1, <1>2, <1>3
<1>5. LocalScanTypeOK'
  <2>1. todo' \in Seq(DOMAIN prog \cup {i \in Int : i < 0})
    <3>1. Children(Here) \in Seq(DOMAIN prog)
      BY <1>1, ChildrenType
    <3>2. Children(Here) \in Seq(DOMAIN prog \cup {i \in Int : i < 0})
      BY <3>1
    <3> QED
      BY <1>1, <1>2, <3>2, TodoType
  <2>2. live_start' \in [Symbols -> Nat \cup {-1}]
    BY <1>1, <1>2, <1>3
  <2>3. \A w \in Symbols : live_start'[w] > 0 => live_end'[w] \in live_start'[w] .. pseudo_pc'
    BY <1>2, <1>3, <1>4 DEF LocalScanTypeOK
  <2> QED
    BY <1>1, <1>2, <2>1, <2>2, <2>3 DEF LocalScanTypeOK
<1>6. MentionsCovered'
  <2>1. ASSUME NEW m \in seen
        PROVE  /\ m[2] <= pseudo_pc' /\ live_start'[m[1]] # 0
               /\ live_start'[m[1]] > 0 => m[2] \in live_start'[m[1]] .. live_end'[m[1]]
    BY <1>2, <1>3, <1>4 DEF MentionsCovered, LocalScanTypeOK
  <2> QED
    BY <1>2, <2>1 DEF MentionsCovered
<1>7. LoopsCovered'
  BY <1>2, <1>3, <1>4 DEF LoopsCovered, LocalScanTypeOK, Waiting, Placed
<1>8. WalkInv'
  BY <1>1, <1>2, <1>3, <1>4 DEF WalkInv, LocalScanTypeOK, Waiting, Placed, Full
<1>9. ScanInv'
  <2>1. \A w \in Symbols : ~Placed(w) /\ ~Placed(w)'
    BY <1>2 DEF WalkInv, Placed
  <2> QED
    BY <1>2, <2>1 DEF ScanInv, Placed
<1> QED
  BY <1>2, <1>5, <1>6, <1>7, <1>8, <1>9

LEMMA SelectInv == IInv /\ Select => IInv'
<1> SUFFICES ASSUME IInv, Select PROVE IInv'
  OBVIOUS
<1> USE DEF IInv
<1>1. /\ phase = "walk" /\ phase' = "scan"
      /\ ra_locals' = {v \in ra_locals : Eligible(v)}
      /\ live_start' = [v \in Symbols |-> IF v \in ra_locals /\ ~Eligible(v) THEN -1 ELSE live_start[v]]
      /\ UNCHANGED <<prog, todo, pseudo_pc, live_end, addressed, seen, loops, active_ends, assigned_reg>>
  BY DEF Select, walked
<1>2. live_start \in [Symbols -> Nat \cup {-1}] /\ ra_locals \subseteq Symbols
  BY DEF LocalScanTypeOK
<1>3. ASSUME NEW v \in Symbols
      PROVE  /\ live_start[v] \in Nat \cup {-1} /\ live_start'[v] \in Nat \cup {-1}
             /\ live_start'[v] = live_start[v] \/ live_start'[v] = -1
             /\ v \in ra_locals' => v \in ra_locals /\ Eligible(v) /\ live_start'[v] = live_start[v]
  BY <1>1, <1>2
<1>4. LocalScanTypeOK'
  <2>1. live_start' \in [Symbols -> Nat \cup {-1}]
    BY <1>1, <1>2
  <2>2. \A v \in Symbols : live_start'[v] > 0 => live_end'[v] \in live_start'[v] .. pseudo_pc'
    BY <1>1, <1>3 DEF LocalScanTypeOK
  <2> QED
    BY <1>1, <2>1, <2>2 DEF LocalScanTypeOK
<1>5. MentionsCovered'
  <2>1. ASSUME NEW m \in seen
        PROVE  /\ live_start'[m[1]] # 0
               /\ live_start'[m[1]] > 0 => m[2] \in live_start'[m[1]] .. live_end'[m[1]]
    BY <1>1, <1>3 DEF MentionsCovered, LocalScanTypeOK
  <2> QED
    BY <1>1, <2>1 DEF MentionsCovered
<1>6. \A v \in Symbols : ~Placed(v) /\ ~Placed(v)'
  BY <1>1 DEF WalkInv, Placed
<1>7. LoopsCovered'
  BY <1>1, <1>3, <1>6 DEF LoopsCovered, LocalScanTypeOK, Waiting
<1>8. WalkInv'
  BY <1>1, <1>3, <1>6 DEF WalkInv, LocalScanTypeOK, Waiting
<1>9. ScanInv'
  <2>1. \A v \in Symbols : Waiting(v)' => live_start'[v] > 0 /\ v \in Scalars /\ ~InParamSlot(v)
    BY <1>3 DEF WalkInv, Eligible, Waiting
  <2> QED
    BY <1>6, <2>1 DEF ScanInv, InParamSlot, Placed
<1> QED
  BY <1>1, <1>4, <1>5, <1>7, <1>8, <1>9

LEMMA ScanStepInv == IInv /\ Scan => IInv'
<1> SUFFICES ASSUME IInv, Scan PROVE IInv'
  OBVIOUS
<1> USE DEF IInv
<1>1. PICK v \in ra_locals :
        /\ \A w \in ra_locals : Before(v, w)
        /\ \/ \E r \in Regs :
                /\ FreeAt(r, v) /\ \A q \in Regs : FreeAt(q, v) => r <= q
                /\ active_ends' = [active_ends EXCEPT ![r] = live_end[v]]
                /\ assigned_reg' = [assigned_reg EXCEPT ![v] = r]
           \/ /\ \A r \in Regs : ~FreeAt(r, v)
              /\ UNCHANGED <<active_ends, assigned_reg>>
        /\ ra_locals' = ra_locals \ {v}
  BY DEF Scan
<1>2. /\ phase = "scan"
      /\ UNCHANGED <<prog, phase, todo, pseudo_pc, live_start, live_end, addressed, seen, loops>>
  BY DEF Scan, walked
<1>3. /\ live_start \in [Symbols -> Nat \cup {-1}] /\ live_end \in [Symbols -> Nat]
      /\ active_ends \in [Regs -> Nat] /\ assigned_reg \in [Symbols -> Regs \cup {NoReg}]
      /\ ra_locals \subseteq Symbols /\ v \in Symbols /\ NoReg \notin Regs
  BY SymbolsAssumption DEF LocalScanTypeOK, Regs, NoReg
<1>4. ~Placed(v) /\ live_start[v] > 0 /\ live_start[v] <= live_end[v]
  BY <1>1, <1>2, <1>3 DEF ScanInv, Waiting, LocalScanTypeOK
<1>5. \A w \in ra_locals : live_start[v] <= live_start[w]
  BY <1>1, <1>3 DEF Before
<1>6. CASE UNCHANGED <<active_ends, assigned_reg>>
  <2>1. LocalScanTypeOK'
    BY <1>1, <1>2, <1>6 DEF LocalScanTypeOK
  <2>2. MentionsCovered' /\ LoopsCovered'
    BY <1>1, <1>2, <1>6 DEF MentionsCovered, LoopsCovered, Waiting, Placed
  <2>3. WalkInv'
    BY <1>1, <1>2, <1>6 DEF WalkInv, Waiting
  <2>4. ScanInv'
    BY <1>1, <1>2, <1>6 DEF ScanInv, Waiting, Placed, InParamSlot
  <2> QED
    BY <1>2, <2>1, <2>2, <2>3, <2>4
<1>7. ASSUME NEW r \in Regs, FreeAt(r, v),
             active_ends' = [active_ends EXCEPT ![r] = live_end[v]],
             assigned_reg' = [assigned_reg EXCEPT ![v] = r]
      PROVE  IInv'
  <2>1. /\ assigned_reg'[v] = r /\ active_ends'[r] = live_end[v]
        /\ \A w \in Symbols : w # v => assigned_reg'[w] = assigned_reg[w]
        /\ \A q \in Regs : q # r => active_ends'[q] = active_ends[q]
        /\ active_ends[r] <= live_start[v]
    BY <1>3, <1>7 DEF FreeAt
  <2>2. LocalScanTypeOK'
    BY <1>1, <1>2, <1>3, <1>7 DEF LocalScanTypeOK
  <2>3. \A w \in Symbols : w # v => (Placed(w)' <=> Placed(w)) /\ (Waiting(w)' <=> Waiting(w))
    BY <1>1, <2>1 DEF Placed, Waiting
  <2>4. Waiting(v) /\ v \notin ra_locals'
    BY <1>1 DEF Waiting
  <2>5. MentionsCovered' /\ WalkInv'
    BY <1>1, <1>2, <2>3, <2>4 DEF MentionsCovered, WalkInv, Waiting
  <2>6. LoopsCovered'
    <3>1. ASSUME NEW l \in loops, NEW m \in seen, Waiting(m[1])' \/ Placed(m[1])',
                 live_start[m[1]] > 0, m[2] \in l[1] .. l[2]
          PROVE  live_start[m[1]] <= l[1] /\ l[2] <= live_end[m[1]]
      <4>1. m[1] \in Symbols
        BY DEF LocalScanTypeOK
      <4>2. Waiting(m[1]) \/ Placed(m[1])
        BY <2>3, <2>4, <3>1, <4>1, <1>2 DEF Waiting, Placed
      <4> QED
        BY <3>1, <4>2 DEF LoopsCovered
    <3> QED
      BY <1>2, <3>1 DEF LoopsCovered
  <2>7. ASSUME NEW w \in Symbols, w # v, Placed(w)
        PROVE  /\ ~Waiting(w) /\ live_end[w] <= active_ends[assigned_reg[w]]
               /\ assigned_reg[w] \in Regs /\ live_start[w] <= live_start[v]
               /\ assigned_reg[w] = r => live_end[w] <= live_start[v]
    <3>1. ~Waiting(w) /\ live_end[w] <= active_ends[assigned_reg[w]]
      BY <2>7 DEF ScanInv
    <3>2. assigned_reg[w] \in Regs
      BY <1>3, <2>7 DEF Placed
    <3>3. live_start[w] <= live_start[v]
      BY <1>3, <2>4, <2>7 DEF ScanInv
    <3>4. assigned_reg[w] = r => live_end[w] <= live_start[v]
      BY <1>3, <2>1, <3>1
    <3> QED
      BY <3>1, <3>2, <3>3, <3>4
  <2>8. \A w \in Symbols : Waiting(w)' \/ Placed(w)' =>
                            live_start[w] > 0 /\ w \in Scalars /\ ~InParamSlot(w)
    BY <1>2, <1>3, <2>3, <2>4 DEF ScanInv
  <2>9. ASSUME NEW w \in Symbols, Placed(w)'
        PROVE  ~Waiting(w)' /\ live_end[w] <= active_ends'[assigned_reg'[w]]
    <3>1. CASE w = v
      BY <1>3, <2>1, <2>4, <3>1 DEF Waiting
    <3>2. CASE w # v
      <4>1. Placed(w)
        BY <2>3, <2>9, <3>2
      <4>2. CASE assigned_reg[w] = r
        BY <1>3, <1>4, <2>1, <2>3, <2>7, <3>2, <4>1, <4>2
      <4>3. CASE assigned_reg[w] # r
        BY <2>1, <2>3, <2>7, <3>2, <4>1, <4>3
      <4> QED
        BY <4>2, <4>3
    <3> QED
      BY <3>1, <3>2
  <2>10. ASSUME NEW u \in Symbols, NEW w \in Symbols, Placed(u)', Waiting(w)'
         PROVE  live_start[u] <= live_start[w]
    <3>1. w \in ra_locals /\ w # v
      BY <1>1, <2>10 DEF Waiting
    <3>2. CASE u = v
      BY <1>5, <3>1, <3>2
    <3>3. CASE u # v
      BY <2>3, <2>10, <3>1, <3>3 DEF ScanInv, Waiting
    <3> QED
      BY <3>2, <3>3
  <2>11. ASSUME NEW u \in Symbols, NEW w \in Symbols, u # w, Placed(u)',
                assigned_reg'[u] = assigned_reg'[w]
         PROVE  live_end[u] <= live_start[w] \/ live_end[w] <= live_start[u]
    <3>1. CASE u = v
      <4>1. w # v /\ assigned_reg[w] = r /\ Placed(w)
        BY <1>3, <2>1, <2>11, <3>1 DEF Placed
      <4> QED
        BY <2>7, <3>1, <4>1
    <3>2. CASE w = v
      <4>1. u # v /\ assigned_reg[u] = r /\ Placed(u)
        BY <1>3, <2>1, <2>11, <3>2 DEF Placed
      <4> QED
        BY <2>7, <3>2, <4>1
    <3>3. CASE u # v /\ w # v
      <4>1. Placed(u) /\ assigned_reg[u] = assigned_reg[w]
        BY <2>1, <2>3, <2>11, <3>3
      <4> QED
        BY <2>11, <4>1 DEF ScanInv
    <3> QED
      BY <3>1, <3>2, <3>3
  <2>12. ScanInv'
    BY <1>2, <2>8, <2>9, <2>10, <2>11 DEF ScanInv, InParamSlot
  <2> QED
    BY <1>2, <2>2, <2>5, <2>6, <2>12
<1> QED
  BY <1>1, <1>6, <1>7

LEMMA EmitInv == IInv /\ Emit => IInv'
<1> SUFFICES ASSUME IInv, Emit PROVE IInv'
  OBVIOUS
<1>1. /\ phase = "scan" /\ phase' = "run" /\ prog' = prog
      /\ UNCHANGED <<walked, scanned>>
  BY DEF Emit
<1>2. LocalScanTypeOK'
  BY <1>1 DEF IInv, LocalScanTypeOK, walked, scanned
<1>3. MentionsCovered' /\ LoopsCovered'
  BY <1>1 DEF IInv, MentionsCovered, LoopsCovered, walked, scanned, Waiting, Placed
<1>4. WalkInv' /\ ScanInv'
  BY <1>1 DEF IInv, WalkInv, ScanInv, walked, scanned, Waiting, Placed, InParamSlot
<1> QED
  BY <1>1, <1>2, <1>3, <1>4 DEF IInv

LEMMA NextInv == IInv /\ [Next]_vars => IInv'
<1> SUFFICES ASSUME IInv, [Next]_vars PROVE IInv'
  OBVIOUS
<1>1. CASE UNCHANGED vars
  BY <1>1, Outside DEF vars
<1>2. CASE NextStatement \/ Execute \/ JumpBack \/ Read \/ Store \/ FallThrough
             \/ BreakOrContinue \/ Goto \/ Done
  <2>1. UNCHANGED <<prog, phase, walked, scanned>>
    BY <1>2 DEF NextStatement, Execute, JumpBack, Read, Store, FallThrough, BreakOrContinue,
                Goto, Done, vars
  <2> QED
    BY <2>1, Outside
<1> QED
  BY <1>1, <1>2, VisitLoopInv, LeaveLoopInv, VisitVarInv, VisitAddrInv, VisitOtherInv, SelectInv,
     ScanStepInv, EmitInv DEF Next

-----------------------------------------------------------------------------
LEMMA Inductive == Spec => []IInv
BY InitInv, NextInv, PTL DEF Spec

(* The walk and the scan keep their types, and intervals are sound, for    *)
(* every function.                                                         *)
THEOREM TypeCorrect == Spec => []LocalScanTypeOK
<1>1. IInv => LocalScanTypeOK
  BY DEF IInv
<1> QED
  BY <1>1, Inductive, PTL

(* Two locals of compute_liveness that get one register are apart.         *)
LEMMA IntervalsApart ==
  ASSUME IInv, NEW v \in Symbols, NEW w \in Symbols, v # w, Placed(v), Placed(w),
         live_end[v] <= live_start[w]
  PROVE  Precedes(v, w) /\ \A loop \in loops : ~Meet(v, w, loop) /\ ~Meet(w, v, loop)
<1> USE DEF IInv
<1>1. ASSUME NEW m \in seen, NEW n \in seen, m[1] = v, n[1] = w
      PROVE  /\ m[2] \in Nat /\ n[2] \in Nat /\ m[2] < n[2]
             /\ live_start[v] > 0 /\ live_start[w] > 0
             /\ m[2] <= live_end[v] /\ live_start[w] <= n[2]
  <2>1. live_start[v] > 0 /\ live_start[w] > 0
    BY DEF ScanInv, WalkInv, Placed
  <2>2. m[2] \in Nat /\ n[2] \in Nat /\ m # n
    BY <1>1 DEF LocalScanTypeOK
  <2>3. m[2] # n[2]
    BY <2>2 DEF MentionsCovered
  <2>4. m[2] \in live_start[v] .. live_end[v] /\ n[2] \in live_start[w] .. live_end[w]
    BY <1>1, <2>1 DEF MentionsCovered
  <2>5. live_end[v] \in Nat /\ live_start[w] \in Int /\ live_start[v] \in Int
    BY DEF LocalScanTypeOK
  <2> QED
    BY <2>1, <2>2, <2>3, <2>4, <2>5
<1>2. Precedes(v, w)
  BY <1>1 DEF Precedes
<1>3. ASSUME NEW l \in loops, NEW m \in seen, NEW n \in seen, m[1] = v, n[1] = w,
             m[2] \in l[1] .. l[2], n[2] \in l[1] .. l[2]
      PROVE  FALSE
  <2>1. live_start[v] > 0 /\ live_start[w] > 0 /\ m[2] < n[2]
    BY <1>1, <1>3
  <2>2. l[2] <= live_end[v] /\ live_start[w] <= l[1]
    BY <1>3, <2>1 DEF LoopsCovered
  <2>3. l[1] \in Nat /\ l[2] \in Nat /\ live_end[v] \in Nat /\ live_start[w] \in Int
    BY DEF LocalScanTypeOK
  <2> QED
    BY <1>1, <1>3, <2>1, <2>2, <2>3
<1> QED
  BY <1>2, <1>3 DEF Meet

LEMMA SharersInv == IInv => SharersMeetInNoLoop
<1> SUFFICES ASSUME IInv, NEW v \in Symbols, NEW w \in Symbols, v # w,
                    assigned_reg[v] # NoReg, assigned_reg[v] = assigned_reg[w]
             PROVE  /\ Precedes(v, w) \/ Precedes(w, v)
                    /\ \A loop \in loops : ~Meet(v, w, loop)
  BY DEF SharersMeetInNoLoop
<1>1. live_end[v] <= live_start[w] \/ live_end[w] <= live_start[v]
  BY DEF IInv, ScanInv, Placed
<1>2. Placed(v) /\ Placed(w)
  BY DEF Placed
<1> QED
  BY <1>1, <1>2, IntervalsApart

(* Locals that share a register are apart, in the text and in every loop.  *)
THEOREM SharersApart == Spec => []SharersMeetInNoLoop
BY SharersInv, Inductive, PTL

LEMMA ParamsAreSymbols == Params \subseteq Symbols
BY SymbolsAssumption DEF Params, Symbols

(* The slots of parameters of a word each follow each other, so the i-th   *)
(* of them lies at -8i: take the least i for which it does not.            *)
LEMMA Least ==
  ASSUME NEW M \in SUBSET Nat, M # {}
  PROVE  \E m \in M : \A k \in M : m <= k
<1> DEFINE R == OpToRel(<, Nat)
<1>1. PICK m \in M : \A k \in M : <<k, m>> \notin R
  <2> HIDE DEF R
  <2>1. IsWellFoundedOn(R, Nat)
    BY NatLessThanWellFounded DEF R
  <2> QED
    BY <2>1, WFMin
<1>2. \A k \in M : ~(k < m)
  BY <1>1 DEF OpToRel
<1> QED
  BY <1>2

LEMMA SlotsOfWords ==
  ASSUME NEW n \in DOMAIN Declared, \A j \in 1 .. n : Words[Declared[j]] = 1
  PROVE  \A i \in 1 .. n : Offset[Declared[i]] = -(8 * i)
<1> DEFINE M == {i \in 1 .. n : Offset[Declared[i]] # -(8 * i)}
<1>1. n \in Nat /\ n >= 1 /\ 1 .. n \subseteq DOMAIN Declared
  BY SymbolsAssumption
<1>2. \A i \in DOMAIN Declared : Declared[i] \in Symbols /\ Offset[Declared[i]] \in Int
  BY SymbolsAssumption DEF Symbols
<1>3. ASSUME M # {} PROVE FALSE
  <2>1. PICK m \in M : \A k \in M : m <= k
    <3> M \in SUBSET Nat
      BY <1>1
    <3> HIDE DEF M
    <3> QED
      BY <1>3, Least
  <2>2. m \in 1 .. n /\ m \in DOMAIN Declared /\ Words[Declared[m]] = 1
    BY <1>1
  <2>3. Offset[Declared[m]] = (IF m = 1 THEN 0 ELSE Offset[Declared[m - 1]]) - 8 * Words[Declared[m]]
    BY <2>2, OffsetsAssumption DEF LaidOut
  <2>4. CASE m = 1
    BY <2>2, <2>3, <2>4
  <2>5. CASE m # 1
    <3>1. m - 1 \in 1 .. n /\ m - 1 \in DOMAIN Declared /\ m - 1 \notin M
      BY <1>1, <2>1, <2>2, <2>5
    <3>2. Offset[Declared[m - 1]] = -(8 * (m - 1))
      BY <3>1
    <3> QED
      BY <2>2, <2>3, <2>5, <3>2
  <2> QED
    BY <2>4, <2>5
<1> QED
  BY <1>3

LEMMA ParamsInSlots ==
  ASSUME NEW v \in Params, v \in Scalars, BehindWords(v)
  PROVE  InParamSlot(v)
<1>1. PICK n \in 1 .. NumParams : Declared[n] = v
  BY DEF Params
<1>2. n \in DOMAIN Declared /\ n \in Nat /\ NumParams \in Nat
  BY SymbolsAssumption
<1>3. \A j \in 1 .. n : Words[Declared[j]] = 1
  <2> SUFFICES ASSUME NEW j \in 1 .. n PROVE Words[Declared[j]] = 1
    OBVIOUS
  <2>1. j \in DOMAIN Declared
    BY <1>2, SymbolsAssumption
  <2>2. CASE j = n
    BY <1>1, <2>2, SymbolsAssumption
  <2>3. CASE j < n
    BY <1>1, <1>2, <2>1, <2>3 DEF BehindWords
  <2> QED
    BY <1>2, <2>2, <2>3
<1>4. Offset[v] = -(8 * n)
  BY <1>1, <1>2, <1>3, SlotsOfWords
<1> QED
  BY <1>1, <1>2, <1>4 DEF InParamSlot

(* Registers go to scalars whose address is nowhere taken, and to no       *)
(* parameter that only words stand before: it lies in a slot that the test *)
(* of allocate_registers knows.                                            *)
LEMMA PlainInv == IInv => OnlyPlainLocalsInRegisters
<1> SUFFICES ASSUME IInv, NEW v \in Symbols, Placed(v)
             PROVE  v \in Scalars \ addressed /\ (v \in Params => ~BehindWords(v))
  BY DEF OnlyPlainLocalsInRegisters, Placed
<1>1. v \in Scalars \ addressed /\ ~InParamSlot(v)
  BY DEF IInv, ScanInv, WalkInv, Placed
<1> QED
  BY <1>1, ParamsInSlots

THEOREM OnlyPlain == Spec => []OnlyPlainLocalsInRegisters
BY PlainInv, Inductive, PTL

-----------------------------------------------------------------------------
(* The run follows the walk.  A trail t is what the walk leaves behind:    *)
(* the node visited at each number, and how many entries of todo lay       *)
(* behind it then.  When the walk is over, the numbers at which the parts  *)
(* of a node and all below them were visited follow each other, and those  *)
(* below a loop lie in its interval.                                       *)
(* What hangs below a node, in the order of the walk. *)
Parts(n) == IF prog[n].kind \in Loops THEN LoopParts(n) ELSE Children(n)

(* The entry at which a loop ends. *)
Marks(n) == IF prog[n].kind \in Loops THEN 1 ELSE 0

(* How many entries of todo lie behind the i-th part of the node visited   *)
(* at number k.                                                            *)
Depth(t, k, i) == t[k].rest + Marks(t[k].node) + Len(Parts(t[k].node)) - i

(* The i-th part of the node visited at k still waits in td. *)
Ahead(t, pc, td, k, i) ==
  /\ Depth(t, k, i) < Len(td) /\ td[Len(td) - Depth(t, k, i)] = Parts(t[k].node)[i]
  /\ \A l \in k + 1 .. pc : t[l].rest > Depth(t, k, i)

(* It was visited at j. *)
IsVisit(t, k, i, j) ==
  /\ t[j].node = Parts(t[k].node)[i] /\ t[j].rest = Depth(t, k, i)
  /\ \A l \in k + 1 .. j - 1 : t[l].rest > Depth(t, k, i)

Visited(t, pc, k, i) == \E j \in k + 1 .. pc : IsVisit(t, k, i, j)

(* The end of the loop visited at k still waits, or has been passed. *)
LoopOpen(t, pc, td, k) ==
  /\ t[k].rest < Len(td) /\ td[Len(td) - t[k].rest] = -k
  /\ \A l \in k + 1 .. pc : t[l].rest > t[k].rest

LoopClosed(t, pc, td, lp, k) ==
  \E e \in k .. pc : /\ <<k, e>> \in lp
                     /\ e < pc => t[e + 1].rest < t[k].rest
                     /\ e = pc => Len(td) <= t[k].rest

(* What has been visited by number pc, and what td holds of its parts. *)
Trail(t, pc, td, sn, lp) ==
  /\ t \in [2 .. pc -> [node : DOMAIN prog, rest : Nat]]
  /\ pc = 1 => td = <<1>>
  /\ pc >= 2 => t[2].node = 1
  /\ \A k \in 2 .. pc : prog[t[k].node].kind = "var" => <<prog[t[k].node].sym, k>> \in sn
  /\ \A k \in 2 .. pc : \A i \in DOMAIN Parts(t[k].node) :
       Ahead(t, pc, td, k, i) \/ Visited(t, pc, k, i)
  /\ \A k \in 2 .. pc : prog[t[k].node].kind \in Loops =>
       LoopOpen(t, pc, td, k) \/ LoopClosed(t, pc, td, lp, k)

(* ud is td with the parts of n in the place of its head. *)
Pushes(n, pc, td, ud) ==
  /\ Len(ud) = Len(Parts(n)) + Marks(n) + Len(td) - 1
  /\ \A i \in DOMAIN Parts(n) : ud[i] = Parts(n)[i]
  /\ \A d \in 0 .. Len(td) - 2 : ud[Len(ud) - d] = td[Len(td) - d]
  /\ prog[n].kind \in Loops => ud[Len(Parts(n)) + 1] = -(pc + 1)

LEMMA PartsType ==
  ASSUME prog \in Programs, NEW n \in DOMAIN prog
  PROVE  /\ Parts(n) \in Seq(DOMAIN prog) /\ Len(Parts(n)) \in Nat
         /\ DOMAIN Parts(n) = 1 .. Len(Parts(n)) /\ Marks(n) \in {0, 1}
<1>1. Parts(n) \in Seq(DOMAIN prog)
  BY ChildrenType DEF Parts
<1> QED
  BY <1>1 DEF Marks

LEMMA DepthType ==
  ASSUME prog \in Programs, NEW pc \in Nat, NEW t \in [2 .. pc -> [node : DOMAIN prog, rest : Nat]],
         NEW k \in 2 .. pc, NEW i \in DOMAIN Parts(t[k].node)
  PROVE  Depth(t, k, i) \in Nat /\ t[k].rest \in Nat /\ Depth(t, k, i) >= t[k].rest
<1>1. t[k].node \in DOMAIN prog /\ t[k].rest \in Nat
  OBVIOUS
<1>2. /\ Len(Parts(t[k].node)) \in Nat /\ DOMAIN Parts(t[k].node) = 1 .. Len(Parts(t[k].node))
      /\ Marks(t[k].node) \in {0, 1}
  BY <1>1, PartsType
<1> QED
  BY <1>1, <1>2 DEF Depth

LEMMA VisitTrail ==
  ASSUME prog \in Programs, NEW pc \in Nat \ {0}, NEW td \in Seq(Int), NEW ud \in Seq(Int),
         NEW sn, NEW un, NEW lp, NEW t, Trail(t, pc, td, sn, lp), td # <<>>,
         NEW n \in DOMAIN prog, td[1] = n, Pushes(n, pc, td, ud), sn \subseteq un,
         prog[n].kind = "var" => <<prog[n].sym, pc + 1>> \in un
  PROVE  \E u : Trail(u, pc + 1, ud, un, lp)
<1> DEFINE here == [node |-> n, rest |-> Len(td) - 1]
           u == [l \in 2 .. pc + 1 |-> IF l = pc + 1 THEN here ELSE t[l]]
<1>1. /\ Len(td) \in Nat /\ Len(td) >= 1 /\ Len(ud) \in Nat
      /\ t \in [2 .. pc -> [node : DOMAIN prog, rest : Nat]]
  BY DEF Trail
<1>2. /\ u \in [2 .. pc + 1 -> [node : DOMAIN prog, rest : Nat]]
      /\ u[pc + 1].node = n /\ u[pc + 1].rest = Len(td) - 1 /\ \A l \in 2 .. pc : u[l] = t[l]
  BY <1>1
<1> HIDE DEF u
<1>a. \A l \in 2 .. pc : t[l].rest \in Nat /\ u[l].rest = t[l].rest /\ u[l].node = t[l].node
  BY <1>1, <1>2
<1>3. \A k \in 2 .. pc : \A i : Depth(u, k, i) = Depth(t, k, i)
  BY <1>2 DEF Depth
<1>4. /\ Len(Parts(n)) \in Nat /\ DOMAIN Parts(n) = 1 .. Len(Parts(n)) /\ Marks(n) \in {0, 1}
  BY PartsType
<1>5. (pc + 1 = 1 => ud = <<1>>) /\ u[2].node = 1
  <2>1. CASE pc = 1
    BY <1>2, <2>1 DEF Trail
  <2>2. CASE pc # 1
    BY <1>2, <2>2 DEF Trail
  <2> QED
    BY <2>1, <2>2
<1>6. ASSUME NEW k \in 2 .. pc + 1, prog[u[k].node].kind = "var"
      PROVE  <<prog[u[k].node].sym, k>> \in un
  <2>1. CASE k = pc + 1
    BY <1>2, <1>6, <2>1
  <2>2. CASE k \in 2 .. pc
    BY <1>2, <1>6, <2>2 DEF Trail
  <2> QED
    BY <2>1, <2>2
<1>7. ASSUME NEW k \in 2 .. pc + 1, NEW i \in DOMAIN Parts(u[k].node)
      PROVE  Ahead(u, pc + 1, ud, k, i) \/ Visited(u, pc + 1, k, i)
  <2>1. CASE k = pc + 1
    <3>1. i \in 1 .. Len(Parts(n)) /\ Depth(u, k, i) = Len(td) - 1 + Marks(n) + Len(Parts(n)) - i
      BY <1>2, <1>4, <2>1 DEF Depth
    <3>2. Depth(u, k, i) = Len(ud) - i
      BY <1>1, <1>4, <3>1 DEF Pushes
    <3>3. Depth(u, k, i) < Len(ud) /\ Len(ud) - Depth(u, k, i) = i
      BY <1>1, <3>1, <3>2
    <3>4. ud[i] = Parts(u[k].node)[i]
      BY <1>2, <1>7, <2>1 DEF Pushes
    <3> QED
      BY <2>1, <3>3, <3>4 DEF Ahead
  <2>2. CASE k \in 2 .. pc
    <3> DEFINE d == Depth(t, k, i)
    <3>1. u[k] = t[k] /\ Depth(u, k, i) = d /\ i \in DOMAIN Parts(t[k].node)
      BY <1>2, <1>3, <1>7, <2>2
    <3>2. d \in Nat
      BY <1>1, <2>2, <3>1, DepthType
    <3> HIDE DEF d
    <3>3. CASE Visited(t, pc, k, i)
      <4>1. PICK j \in k + 1 .. pc : IsVisit(t, k, i, j)
        BY <3>3 DEF Visited
      <4>2. j \in 2 .. pc /\ j \in k + 1 .. pc + 1 /\ \A l \in k + 1 .. j - 1 : l \in 2 .. pc
        BY <2>2, <4>1
      <4>3. /\ t[j].node = Parts(t[k].node)[i] /\ t[j].rest = d
            /\ \A l \in k + 1 .. j - 1 : t[l].rest > d
        BY <4>1 DEF IsVisit, d
      <4>4. /\ u[j].node = Parts(u[k].node)[i] /\ u[j].rest = d
            /\ \A l \in k + 1 .. j - 1 : u[l].rest > d
        BY <1>a, <3>1, <4>2, <4>3
      <4> QED
        BY <3>1, <4>2, <4>4 DEF Visited, IsVisit
    <3>4. CASE Ahead(t, pc, td, k, i)
      <4>1. d < Len(td) /\ td[Len(td) - d] = Parts(t[k].node)[i] /\ \A l \in k + 1 .. pc : t[l].rest > d
        BY <3>4 DEF Ahead, d
      <4>2. \A l \in k + 1 .. pc : u[l].rest > d
        <5>1. \A l \in k + 1 .. pc : l \in 2 .. pc
          BY <2>2
        <5> QED
          BY <1>a, <4>1, <5>1
      <4>3. CASE d = Len(td) - 1
        <5>1. IsVisit(u, k, i, pc + 1)
          BY <1>1, <1>2, <2>2, <3>1, <4>1, <4>2, <4>3, pc + 1 - 1 = pc DEF IsVisit
        <5> QED
          BY <2>2, <5>1 DEF Visited
      <4>4. CASE d < Len(td) - 1
        <5>1. d \in 0 .. Len(td) - 2
          BY <1>1, <3>2, <4>4
        <5>2. ud[Len(ud) - d] = td[Len(td) - d] /\ d < Len(ud)
          BY <1>1, <1>4, <5>1, SMTT(30) DEF Pushes
        <5>3. \A l \in k + 1 .. pc + 1 : u[l].rest > d
          <6>1. u[pc + 1].rest > d
            BY <1>1, <1>2, <3>2, <4>4
          <6>2. \A l \in k + 1 .. pc + 1 : l \in k + 1 .. pc \/ l = pc + 1
            BY <2>2
          <6> QED
            BY <4>2, <6>1, <6>2
        <5> QED
          BY <3>1, <4>1, <5>2, <5>3 DEF Ahead
      <4> QED
        BY <1>1, <3>2, <4>1, <4>3, <4>4
    <3> QED
      BY <2>2, <3>1, <3>3, <3>4 DEF Trail
  <2> QED
    BY <2>1, <2>2
<1>8. ASSUME NEW k \in 2 .. pc + 1, prog[u[k].node].kind \in Loops
      PROVE  LoopOpen(u, pc + 1, ud, k) \/ LoopClosed(u, pc + 1, ud, lp, k)
  <2>1. CASE k = pc + 1
    <3>1. Marks(n) = 1 /\ ud[Len(Parts(n)) + 1] = -(pc + 1)
      BY <1>2, <1>8, <2>1 DEF Marks, Pushes
    <3>2. Len(ud) = Len(Parts(n)) + Len(td)
      BY <1>1, <1>4, <3>1 DEF Pushes
    <3>3. Len(ud) - u[k].rest = Len(Parts(n)) + 1 /\ u[k].rest < Len(ud)
      BY <1>1, <1>2, <1>4, <2>1, <3>2
    <3> QED
      BY <2>1, <3>1, <3>3 DEF LoopOpen
  <2>2. CASE k \in 2 .. pc
    <3>1. u[k] = t[k] /\ t[k].rest \in Nat
      BY <1>1, <1>2, <2>2
    <3>2. CASE LoopOpen(t, pc, td, k)
      <4>1. t[k].rest < Len(td) /\ td[Len(td) - t[k].rest] = -k /\ \A l \in k + 1 .. pc : t[l].rest > t[k].rest
        BY <3>2 DEF LoopOpen
      <4>2. t[k].rest # Len(td) - 1
        <5>1. td[1] > 0
          BY ProgramsAssumption
        <5> QED
          BY <1>1, <2>2, <4>1, <5>1
      <4>3. t[k].rest \in 0 .. Len(td) - 2
        <5>1. Len(td) \in Nat
          BY <1>1
        <5>2. t[k].rest \in Nat /\ t[k].rest < Len(td)
          BY <3>1, <4>1
        <5>3. \A r, L \in Nat : r < L /\ r # L - 1 => r \in 0 .. L - 2
          OBVIOUS
        <5> QED
          BY <4>2, <5>1, <5>2, <5>3
      <4>4. ud[Len(ud) - t[k].rest] = td[Len(td) - t[k].rest] /\ t[k].rest < Len(ud)
        <5>1. \A d \in 0 .. Len(td) - 2 : ud[Len(ud) - d] = td[Len(td) - d]
          BY DEF Pushes
        <5>2. Len(td) - 2 < Len(ud)
          BY <1>1, <1>4 DEF Pushes
        <5> QED
          <6>1. ud[Len(ud) - t[k].rest] = td[Len(td) - t[k].rest]
            BY <4>3, <5>1
          <6>2. t[k].rest <= Len(td) - 2 /\ t[k].rest \in Int
            BY <4>3
          <6> QED
            BY <1>1, <5>2, <6>1, <6>2
      <4>5. \A l \in k + 1 .. pc + 1 : u[l].rest > t[k].rest
        <5>1. \A l \in k + 1 .. pc : u[l].rest > t[k].rest
          BY <1>a, <2>2, <4>1
        <5>2. u[pc + 1].rest > t[k].rest
          BY <1>1, <1>2, <4>3
        <5> QED
          <6>1. \A l \in k + 1 .. pc + 1 : l \in k + 1 .. pc \/ l = pc + 1
            BY <2>2
          <6> QED
            BY <5>1, <5>2, <6>1
      <4> QED
        BY <3>1, <4>1, <4>4, <4>5 DEF LoopOpen
    <3>3. CASE LoopClosed(t, pc, td, lp, k)
      <4>1. PICK e \in k .. pc : /\ <<k, e>> \in lp
                                 /\ e < pc => t[e + 1].rest < t[k].rest
                                 /\ e = pc => Len(td) <= t[k].rest
        BY <3>3 DEF LoopClosed
      <4>2. u[e + 1].rest < u[k].rest
        <5>1. CASE e = pc
          BY <1>1, <1>2, <3>1, <4>1, <5>1
        <5>2. CASE e < pc
          <6>1. e + 1 \in 2 .. pc
            BY <2>2, <5>2
          <6> QED
            BY <1>a, <3>1, <4>1, <5>2, <6>1
        <5> QED
          BY <4>1, <5>1, <5>2
      <4>3. e \in k .. pc + 1 /\ e < pc + 1 /\ e # pc + 1
        BY <2>2, <4>1
      <4> QED
        BY <4>1, <4>2, <4>3 DEF LoopClosed
    <3> QED
      BY <1>8, <2>2, <3>1, <3>2, <3>3 DEF Trail
  <2> QED
    BY <2>1, <2>2
<1>9. Trail(u, pc + 1, ud, un, lp)
  BY <1>2, <1>5, <1>6, <1>7, <1>8 DEF Trail
<1> QED
  BY <1>9

LEMMA LeaveTrail ==
  ASSUME prog \in Programs, NEW pc \in Nat \ {0}, NEW td \in Seq(Int), NEW sn, NEW lp, NEW t,
         Trail(t, pc, td, sn, lp), td # <<>>, td[1] < 0
  PROVE  Trail(t, pc, Tail(td), sn, lp \cup {<<-td[1], pc>>})
<1> DEFINE ud == Tail(td)
           up == lp \cup {<<-td[1], pc>>}
<1>1. /\ Len(td) \in Nat /\ Len(td) >= 1 /\ Len(ud) = Len(td) - 1
      /\ \A d \in 0 .. Len(td) - 2 : ud[Len(ud) - d] = td[Len(td) - d]
  <2>1. Len(td) \in Nat /\ Len(td) >= 1 /\ Len(ud) = Len(td) - 1
    OBVIOUS
  <2>2. \A i \in 1 .. Len(td) - 1 : ud[i] = td[i + 1]
    OBVIOUS
  <2> QED
    BY <2>1, <2>2
<1>2. t \in [2 .. pc -> [node : DOMAIN prog, rest : Nat]]
  BY DEF Trail
<1> HIDE DEF ud, up
<1>3. pc # 1
  <2>1. ASSUME pc = 1 PROVE FALSE
    BY <2>1 DEF Trail
  <2> QED
    BY <2>1
<1>4. ASSUME NEW k \in 2 .. pc, NEW i \in DOMAIN Parts(t[k].node)
      PROVE  Ahead(t, pc, ud, k, i) \/ Visited(t, pc, k, i)
  <2>1. Depth(t, k, i) \in Nat
    BY <1>2, DepthType
  <2>2. CASE Ahead(t, pc, td, k, i)
    <3>1. Depth(t, k, i) < Len(td) /\ td[Len(td) - Depth(t, k, i)] = Parts(t[k].node)[i]
      BY <2>2 DEF Ahead
    <3>2. Parts(t[k].node)[i] > 0
      <4>1. t[k].node \in DOMAIN prog
        BY <1>2
      <4>2. Parts(t[k].node)[i] \in DOMAIN prog
        BY <4>1, PartsType
      <4>3. DOMAIN prog \subseteq Nat \ {0}
        BY ProgramsAssumption
      <4> QED
        BY <4>2, <4>3
    <3>3. Depth(t, k, i) # Len(td) - 1
      <4>1. ASSUME Depth(t, k, i) = Len(td) - 1 PROVE FALSE
        <5>1. Len(td) - Depth(t, k, i) = 1
          BY <1>1, <4>1
        <5> QED
          BY <3>1, <3>2, <5>1
      <4> QED
        BY <4>1
    <3>4. Depth(t, k, i) \in 0 .. Len(td) - 2
      BY <1>1, <2>1, <3>1, <3>3
    <3>5. ud[Len(ud) - Depth(t, k, i)] = td[Len(td) - Depth(t, k, i)] /\ Depth(t, k, i) < Len(ud)
      BY <1>1, <3>4
    <3> QED
      BY <2>2, <3>5 DEF Ahead
  <2> QED
    BY <2>2 DEF Trail
<1>5. ASSUME NEW k \in 2 .. pc, prog[t[k].node].kind \in Loops
      PROVE  LoopOpen(t, pc, ud, k) \/ LoopClosed(t, pc, ud, up, k)
  <2>1. t[k].rest \in Nat
    BY <1>2
  <2>2. CASE LoopOpen(t, pc, td, k)
    <3>1. t[k].rest < Len(td) /\ td[Len(td) - t[k].rest] = -k
      BY <2>2 DEF LoopOpen
    <3>2. CASE t[k].rest = Len(td) - 1
      <4>1. td[1] = -k
        BY <1>1, <3>1, <3>2
      <4>2. <<k, pc>> \in up /\ Len(ud) <= t[k].rest
        BY <1>1, <3>2, <4>1 DEF up
      <4>3. pc \in k .. pc /\ ~(pc < pc)
        OBVIOUS
      <4> QED
        BY <4>2, <4>3, Zenon DEF LoopClosed
    <3>3. CASE t[k].rest < Len(td) - 1
      <4>1. t[k].rest \in 0 .. Len(td) - 2
        BY <1>1, <2>1, <3>3
      <4>2. ud[Len(ud) - t[k].rest] = td[Len(td) - t[k].rest] /\ t[k].rest < Len(ud)
        <5>1. ud[Len(ud) - t[k].rest] = td[Len(td) - t[k].rest]
          BY <1>1, <4>1
        <5>2. Len(ud) = Len(td) - 1 /\ Len(td) \in Nat
          BY <1>1
        <5> QED
          BY <4>1, <5>1, <5>2
      <4> QED
        BY <2>2, <4>2 DEF LoopOpen
    <3>4. Len(td) \in Int
      BY <1>1
    <3>5. t[k].rest = Len(td) - 1 \/ t[k].rest < Len(td) - 1
      BY <2>1, <3>1, <3>4
    <3> QED
      BY <3>2, <3>3, <3>5, Zenon
  <2>3. CASE LoopClosed(t, pc, td, lp, k)
    <3>1. Len(td) <= t[k].rest => Len(ud) <= t[k].rest
      BY <1>1, <2>1
    <3> QED
      BY <2>3, <3>1 DEF LoopClosed, up
  <2> QED
    BY <1>5, <2>2, <2>3 DEF Trail
<1> QED
  BY <1>2, <1>3, <1>4, <1>5 DEF Trail, ud, up

TrailInv(t) == Trail(t, pseudo_pc, todo, seen, loops)

LEMMA SameTrail ==
  ASSUME NEW t, NEW pc, NEW td, NEW sn, NEW lp, prog' = prog, Trail(t, pc, td, sn, lp)
  PROVE  Trail(t, pc, td, sn, lp)'
<1>1. \A n : Parts(n)' = Parts(n) /\ Marks(n)' = Marks(n)
  BY DEF Parts, Marks, LoopParts, Children, Operands, Kid, List
<1>2. \A k, i : Depth(t, k, i)' = Depth(t, k, i)
  BY <1>1 DEF Depth
<1> QED
  BY <1>1, <1>2 DEF Trail, Ahead, Visited, IsVisit, LoopOpen, LoopClosed

LEMMA TodoIsInt ==
  ASSUME prog \in Programs, LocalScanTypeOK
  PROVE  todo \in Seq(Int)
<1>1. DOMAIN prog \subseteq Int
  BY ProgramsAssumption
<1>2. todo \in Seq(DOMAIN prog \cup {i \in Int : i < 0})
  BY DEF LocalScanTypeOK
<1> QED
  BY <1>1, <1>2

Replaced(a, b, td, ud) == td # <<>> /\ ud = (a \o b) \o Tail(td)

InFront(a, b, td, ud) ==
  /\ Len(ud) = Len(a) + Len(b) + Len(td) - 1
  /\ \A i \in 1 .. Len(a) : ud[i] = a[i]
  /\ \A i \in 1 .. Len(b) : ud[Len(a) + i] = b[i]
  /\ \A d \in 0 .. Len(td) - 2 : ud[Len(ud) - d] = td[Len(td) - d]

LEMMA Pushing ==
  ASSUME NEW a \in Seq(Int), NEW b \in Seq(Int), NEW td \in Seq(Int), NEW u, Replaced(a, b, td, u)
  PROVE  InFront(a, b, td, u)
<1> DEFINE s == a \o b
           r == Tail(td)
<1>0. td # <<>> /\ u = s \o r
  BY DEF Replaced
<1>1. /\ Len(td) \in Nat /\ Len(td) >= 1 /\ r \in Seq(Int) /\ Len(r) = Len(td) - 1
      /\ \A i \in 1 .. Len(td) - 1 : r[i] = td[i + 1]
  BY <1>0
<1>2. /\ s \in Seq(Int) /\ Len(s) = Len(a) + Len(b) /\ Len(a) \in Nat /\ Len(b) \in Nat
      /\ \A i \in 1 .. Len(a) : s[i] = a[i]
      /\ \A i \in 1 .. Len(b) : s[Len(a) + i] = b[i]
  OBVIOUS
<1> HIDE DEF s, r
<1>3. /\ Len(u) = Len(s) + Len(r)
      /\ \A i \in 1 .. Len(s) : u[i] = s[i]
      /\ \A i \in 1 .. Len(r) : u[Len(s) + i] = r[i]
  <2>1. s \in Seq(Int) /\ r \in Seq(Int)
    BY <1>1, <1>2
  <2> QED
    BY <1>0, <2>1
<1>4. Len(u) = Len(a) + Len(b) + Len(td) - 1
  BY <1>1, <1>2, <1>3
<1>5. ASSUME NEW i \in 1 .. Len(a) PROVE u[i] = a[i]
  <2>1. i \in 1 .. Len(s)
    BY <1>2
  <2> QED
    BY <1>2, <1>3, <2>1
<1>6. ASSUME NEW i \in 1 .. Len(b) PROVE u[Len(a) + i] = b[i]
  <2>1. Len(a) + i \in 1 .. Len(s)
    BY <1>2
  <2> QED
    BY <1>2, <1>3, <2>1
<1>7. ASSUME NEW d \in 0 .. Len(td) - 2
      PROVE  u[Len(u) - d] = td[Len(td) - d]
  <2> DEFINE i == Len(td) - 1 - d
  <2>1. i \in 1 .. Len(r) /\ i \in 1 .. Len(td) - 1 /\ i + 1 = Len(td) - d
        /\ Len(u) - d = Len(s) + i
    BY <1>1, <1>2, <1>4
  <2> HIDE DEF i
  <2>2. u[Len(s) + i] = r[i] /\ r[i] = td[i + 1]
    BY <1>1, <1>3, <2>1
  <2> QED
    BY <2>1, <2>2
<1> QED
  BY <1>4, <1>5, <1>6, <1>7 DEF InFront

LEMMA VisitKeepsTrail ==
  ASSUME IInv, NEW t, TrailInv(t), prog' = prog, loops' = loops, pseudo_pc' = pseudo_pc + 1,
         todo # <<>>, Here \in DOMAIN prog, seen \subseteq seen',
         prog[Here].kind = "var" => <<prog[Here].sym, pseudo_pc + 1>> \in seen',
         NEW mark \in Seq(Int), Len(mark) = Marks(Here),
         prog[Here].kind \in Loops => mark[1] = -(pseudo_pc + 1),
         todo' = (Parts(Here) \o mark) \o Tail(todo), todo' \in Seq(Int), pseudo_pc # 0
  PROVE  \E u : TrailInv(u)'
<1>1. todo \in Seq(Int) /\ prog \in Programs /\ pseudo_pc \in Nat \ {0}
  BY TodoIsInt DEF IInv, LocalScanTypeOK
<1>2. Parts(Here) \in Seq(DOMAIN prog) /\ DOMAIN prog \subseteq Int /\ DOMAIN Parts(Here) = 1 .. Len(Parts(Here))
  BY <1>1, PartsType, ProgramsAssumption
<1>3. Parts(Here) \in Seq(Int)
  BY <1>2
<1>4. PICK ud \in Seq(Int) : ud = todo'
  OBVIOUS
<1>5. PICK un : un = seen'
  OBVIOUS
<1>6. PICK n \in DOMAIN prog : n = Here
  OBVIOUS
<1>7. todo[1] = n
  BY <1>1, <1>6 DEF Here
<1>8. Pushes(n, pseudo_pc, todo, ud)
  <2>1. PICK ps \in Seq(Int) : ps = Parts(Here)
    BY <1>3
  <2>2. PICK td \in Seq(Int) : td = todo
    BY <1>1
  <2>3. ud = (ps \o mark) \o Tail(td) /\ td # <<>>
    BY <1>4, <2>1, <2>2
  <2>4. /\ Len(ud) = Len(ps) + Len(mark) + Len(td) - 1
        /\ \A i \in 1 .. Len(ps) : ud[i] = ps[i]
        /\ \A i \in 1 .. Len(mark) : ud[Len(ps) + i] = mark[i]
        /\ \A d \in 0 .. Len(td) - 2 : ud[Len(ud) - d] = td[Len(td) - d]
    <3>1. Replaced(ps, mark, td, ud)
      BY <2>3 DEF Replaced
    <3>2. ps \in Seq(Int) /\ mark \in Seq(Int) /\ td \in Seq(Int)
      OBVIOUS
    <3>3. InFront(ps, mark, td, ud)
      BY <3>1, <3>2, Pushing, Zenon
    <3> QED
      BY <3>3, Zenon DEF InFront
  <2>5. prog[n].kind \in Loops => ud[Len(ps) + 1] = -(pseudo_pc + 1)
    <3>1. prog[n].kind \in Loops => 1 \in 1 .. Len(mark)
      BY <1>6 DEF Marks
    <3> QED
      BY <1>6, <2>4, <3>1
  <2>6. Len(mark) = Marks(n) /\ Parts(n) = ps /\ DOMAIN Parts(n) = 1 .. Len(ps)
    BY <1>2, <1>6, <2>1
  <2> QED
    <3>1. /\ Len(ud) = Len(Parts(n)) + Marks(n) + Len(todo) - 1
          /\ \A i \in DOMAIN Parts(n) : ud[i] = Parts(n)[i]
      BY <2>2, <2>4, <2>6
    <3>2. \A d \in 0 .. Len(todo) - 2 : ud[Len(ud) - d] = todo[Len(todo) - d]
      BY <2>2, <2>4
    <3>3. prog[n].kind \in Loops => ud[Len(Parts(n)) + 1] = -(pseudo_pc + 1)
      BY <2>5, <2>6
    <3> QED
      BY <3>1, <3>2, <3>3 DEF Pushes
<1>9. PICK pc \in Nat \ {0} : pc = pseudo_pc
  BY <1>1
<1>10. PICK td \in Seq(Int) : td = todo
  BY <1>1
<1>11. PICK lp : lp = loops
  OBVIOUS
<1>12. PICK sn : sn = seen
  OBVIOUS
<1>13. /\ Trail(t, pc, td, sn, lp) /\ td # <<>> /\ td[1] = n /\ Pushes(n, pc, td, ud)
       /\ sn \subseteq un /\ (prog[n].kind = "var" => <<prog[n].sym, pc + 1>> \in un)
  BY <1>5, <1>6, <1>7, <1>8, <1>9, <1>10, <1>11, <1>12 DEF TrailInv
<1>14. PICK u : Trail(u, pc + 1, ud, un, lp)
  BY <1>1, <1>13, VisitTrail
<1>15. Trail(u, pc + 1, ud, un, lp)'
  BY <1>14, SameTrail
<1>16. TrailInv(u)'
  BY <1>4, <1>5, <1>9, <1>11, <1>15 DEF TrailInv
<1> QED
  BY <1>16

LEMMA WalkTrail ==
  ASSUME IInv, IInv', NEW t, TrailInv(t), pseudo_pc > 0,
         VisitLoop \/ VisitVar \/ VisitAddr \/ VisitOther
  PROVE  \E u : TrailInv(u)'
<1>1. /\ todo # <<>> /\ Here \in DOMAIN prog
      /\ prog' = prog /\ loops' = loops /\ pseudo_pc' = pseudo_pc + 1
  <2>1. \E kinds : Visiting(kinds)
    BY DEF VisitLoop, VisitVar, VisitAddr, VisitOther
  <2> QED
    BY <2>1, HeadIsNode DEF IInv, VisitLoop, VisitVar, VisitAddr, VisitOther, Visiting, scanned
<1>2. /\ seen \subseteq seen'
      /\ prog[Here].kind = "var" => <<prog[Here].sym, pseudo_pc + 1>> \in seen'
  BY DEF VisitLoop, VisitVar, VisitAddr, VisitOther, Visiting, Loops
<1>3. todo' \in Seq(Int)
  <2>1. prog' \in Programs /\ LocalScanTypeOK'
    BY DEF IInv
  <2>2. DOMAIN prog' \subseteq Int
    BY <2>1, ProgramsAssumption
  <2>3. todo' \in Seq(DOMAIN prog' \cup {i \in Int : i < 0})
    BY <2>1 DEF LocalScanTypeOK
  <2> QED
    BY <2>2, <2>3
<1>a. pseudo_pc # 0
  BY DEF IInv, LocalScanTypeOK
<1>4. CASE VisitLoop
  <2>1. prog[Here].kind \in Loops /\ todo' = (LoopParts(Here) \o <<-(pseudo_pc + 1)>>) \o Tail(todo)
    <3>1. LoopParts(Here) \in Seq(Int) /\ <<-(pseudo_pc + 1)>> \in Seq(Int) /\ Tail(todo) \in Seq(Int)
      <4>1. pseudo_pc \in Nat
        BY DEF IInv, LocalScanTypeOK
      <4>2. LoopParts(Here) \in Seq(DOMAIN prog) /\ DOMAIN prog \subseteq Int
        BY <1>1, ChildrenType, ProgramsAssumption DEF IInv
      <4>3. todo \in Seq(Int)
        BY TodoIsInt DEF IInv
      <4> QED
        BY <1>1, <4>1, <4>2, <4>3
    <3>2. todo' = LoopParts(Here) \o <<-(pseudo_pc + 1)>> \o Tail(todo)
      BY <1>4 DEF VisitLoop
    <3> QED
      BY <1>4, <3>2 DEF VisitLoop, Visiting
  <2>2. PICK mark : mark \in Seq(Int) /\ mark = <<-(pseudo_pc + 1)>> /\ Len(mark) = 1
    <3>1. -(pseudo_pc + 1) \in Int
      BY DEF IInv, LocalScanTypeOK
    <3>2. <<-(pseudo_pc + 1)>> \in Seq(Int) /\ Len(<<-(pseudo_pc + 1)>>) = 1
      BY <3>1
    <3> QED
      BY <3>2
  <2>3. /\ Len(mark) = Marks(Here) /\ (prog[Here].kind \in Loops => mark[1] = -(pseudo_pc + 1))
        /\ todo' = (Parts(Here) \o mark) \o Tail(todo)
    BY <2>1, <2>2 DEF Marks, Parts
  <2> QED
    BY <1>1, <1>2, <1>3, <2>2, <2>3, <1>a, VisitKeepsTrail, Zenon
<1>5. CASE VisitVar \/ VisitAddr \/ VisitOther
  <2>1. prog[Here].kind \notin Loops /\ todo' = Children(Here) \o Tail(todo)
    BY <1>5 DEF VisitVar, VisitAddr, VisitOther, Visiting, Loops
  <2>2. PICK mark : mark \in Seq(Int) /\ mark = <<>> /\ Len(mark) = 0
    <3>1. <<>> \in Seq(Int) /\ Len(<<>>) = 0
      OBVIOUS
    <3> QED
      BY <3>1
  <2>3. Children(Here) \in Seq(DOMAIN prog)
    BY <1>1, ChildrenType DEF IInv
  <2>4. Children(Here) \o mark = Children(Here)
    BY <2>2, <2>3
  <2>5. /\ Len(mark) = Marks(Here) /\ (prog[Here].kind \in Loops => mark[1] = -(pseudo_pc + 1))
        /\ todo' = (Parts(Here) \o mark) \o Tail(todo)
    BY <2>1, <2>2, <2>4 DEF Marks, Parts
  <2> QED
    BY <1>1, <1>2, <1>3, <2>2, <2>5, <1>a, VisitKeepsTrail, Zenon
<1> QED
  BY <1>4, <1>5

LEMMA LoopTrail ==
  ASSUME IInv, NEW t, TrailInv(t), pseudo_pc > 0, LeaveLoop
  PROVE  TrailInv(t)'
<1>1. PICK pc \in Nat \ {0} : pc = pseudo_pc
  BY DEF IInv, LocalScanTypeOK
<1>2. PICK td \in Seq(Int) : td = todo
  BY TodoIsInt DEF IInv
<1>3. PICK lp : lp = loops
  OBVIOUS
<1>4. PICK sn : sn = seen
  OBVIOUS
<1>5. /\ todo # <<>> /\ Here < 0 /\ todo' = Tail(todo) /\ prog' = prog /\ pseudo_pc' = pseudo_pc
      /\ seen' = seen /\ loops' = loops \cup {<<-Here, pseudo_pc>>}
  BY DEF LeaveLoop
<1>6. td # <<>> /\ td[1] = Here /\ td[1] < 0 /\ Trail(t, pc, td, sn, lp) /\ prog \in Programs
  BY <1>1, <1>2, <1>3, <1>4, <1>5 DEF Here, TrailInv, IInv
<1>7. Trail(t, pc, Tail(td), sn, lp \cup {<<-td[1], pc>>})
  BY <1>6, LeaveTrail
<1>8. Trail(t, pc, Tail(td), sn, lp \cup {<<-td[1], pc>>})'
  BY <1>5, <1>7, SameTrail
<1> QED
  BY <1>1, <1>2, <1>3, <1>4, <1>5, <1>6, <1>8 DEF TrailInv

(* What is visited at number l hangs below the node visited at number k. *)
Within(t, pc, k, l) == l \in k .. pc /\ \A j \in k + 1 .. l : t[j].rest >= t[k].rest

LEMMA WithinTrans ==
  ASSUME NEW pc \in Nat, NEW t, \A l \in 2 .. pc : t[l].rest \in Nat, NEW k \in 2 .. pc, NEW l, NEW m,
         Within(t, pc, k, l), Within(t, pc, l, m)
  PROVE  Within(t, pc, k, m)
<1>1. /\ l \in k .. pc /\ m \in l .. pc /\ \A j \in k + 1 .. l : t[j].rest >= t[k].rest
      /\ \A j \in l + 1 .. m : t[j].rest >= t[l].rest
  BY DEF Within
<1>2. t[l].rest >= t[k].rest
  <2>1. CASE l = k
    BY <2>1
  <2>2. CASE l # k
    <3>1. l \in k + 1 .. l
      BY <1>1, <2>2
    <3> QED
      BY <1>1, <3>1
  <2> QED
    BY <2>1, <2>2
<1>3. ASSUME NEW j \in k + 1 .. m PROVE t[j].rest >= t[k].rest
  <2>1. j \in 2 .. pc /\ l \in 2 .. pc
    BY <1>1
  <2>2. CASE j \in k + 1 .. l
    BY <1>1, <2>2
  <2>3. CASE j \in l + 1 .. m
    <3>1. t[j].rest >= t[l].rest
      BY <1>1, <2>3
    <3>2. t[j].rest \in Nat /\ t[l].rest \in Nat /\ t[k].rest \in Nat
      BY <2>1
    <3> QED
      BY <1>2, <3>1, <3>2
  <2> QED
    BY <1>1, <2>2, <2>3
<1>4. m \in k .. pc
  BY <1>1
<1> QED
  BY <1>3, <1>4 DEF Within

(* The parts of the node visited at k are visited at at, one after the    *)
(* other.                                                                  *)
WalkedOver(t, pc, k, at) ==
  /\ at \in [DOMAIN Parts(t[k].node) -> 2 .. pc]
  /\ \A i \in DOMAIN Parts(t[k].node) :
       /\ t[at[i]].node = Parts(t[k].node)[i] /\ Within(t, pc, k, at[i])
       /\ \A j \in DOMAIN Parts(t[k].node) : i < j =>
            \A l : Within(t, pc, at[i], l) => l < at[j]

LEMMA TrailType ==
  ASSUME NEW pc, NEW t, NEW td, NEW sn, NEW lp, Trail(t, pc, td, sn, lp)
  PROVE  \A l \in 2 .. pc : t[l].rest \in Nat /\ t[l].node \in DOMAIN prog
BY DEF Trail

(* When the walk is over, the parts of every node have been visited, one   *)
(* after the other with all that hangs below them.                         *)
LEMMA PartsVisited ==
  ASSUME prog \in Programs, NEW pc \in Nat, NEW t, NEW sn, NEW lp, Trail(t, pc, <<>>, sn, lp),
         NEW k \in 2 .. pc
  PROVE  \E at : WalkedOver(t, pc, k, at)
<1> DEFINE n == t[k].node
           D == DOMAIN Parts(n)
           at == [i \in D |-> CHOOSE j \in k + 1 .. pc : IsVisit(t, k, i, j)]
<1>0. t \in [2 .. pc -> [node : DOMAIN prog, rest : Nat]] /\ n \in DOMAIN prog
  BY DEF Trail
<1>1. D = 1 .. Len(Parts(n)) /\ Len(Parts(n)) \in Nat
  BY <1>0, PartsType
<1>2. ASSUME NEW i \in D PROVE \E j \in k + 1 .. pc : IsVisit(t, k, i, j)
  <2>1. ~Ahead(t, pc, <<>>, k, i)
    <3>1. Depth(t, k, i) \in Nat
      BY <1>0, DepthType
    <3>2. Len(<<>>) = 0
      OBVIOUS
    <3> QED
      BY <3>1, <3>2 DEF Ahead
  <2>2. Visited(t, pc, k, i)
    BY <2>1 DEF Trail
  <2> QED
    BY <2>2 DEF Visited
<1>3. ASSUME NEW i \in D
      PROVE  at[i] \in k + 1 .. pc /\ IsVisit(t, k, i, at[i])
  BY <1>2
<1> HIDE DEF at
<1>4. ASSUME NEW i \in D
      PROVE  /\ at[i] \in k + 1 .. pc /\ at[i] \in 2 .. pc /\ t[at[i]].node = Parts(n)[i]
             /\ t[at[i]].rest = Depth(t, k, i) /\ t[k].rest \in Nat
             /\ Depth(t, k, i) \in Nat /\ Depth(t, k, i) >= t[k].rest
             /\ \A l \in k + 1 .. at[i] - 1 : t[l].rest > Depth(t, k, i)
  <2>1. Depth(t, k, i) \in Nat /\ t[k].rest \in Nat /\ Depth(t, k, i) >= t[k].rest
    BY <1>0, DepthType
  <2> QED
    BY <1>3, <2>1 DEF IsVisit
<1>5. ASSUME NEW i \in D PROVE Within(t, pc, k, at[i])
  <2>1. ASSUME NEW j \in k + 1 .. at[i] PROVE t[j].rest >= t[k].rest
    <3>1. CASE j = at[i]
      BY <1>4, <3>1
    <3>2. CASE j # at[i]
      <4>1. j \in k + 1 .. at[i] - 1 /\ j \in 2 .. pc
        BY <1>4, <3>2
      <4>2. t[j].rest > Depth(t, k, i) /\ t[j].rest \in Nat
        BY <1>0, <1>4, <4>1
      <4> QED
        BY <1>4, <4>2
    <3> QED
      BY <3>1, <3>2
  <2>2. at[i] \in k .. pc
    BY <1>4
  <2> QED
    BY <2>1, <2>2 DEF Within
<1>6. ASSUME NEW i \in D, NEW j \in D, i < j, NEW l, Within(t, pc, at[i], l)
      PROVE  l < at[j]
  <2>1. Depth(t, k, j) < Depth(t, k, i)
    <3>1. Marks(n) \in {0, 1}
      BY DEF Marks
    <3>2. t[k].rest \in Int
      BY <1>4
    <3> QED
      BY <1>1, <1>6, <3>1, <3>2 DEF Depth
  <2>2. at[i] < at[j]
    <3>1. SUFFICES ASSUME ~(at[i] < at[j]) PROVE FALSE
      OBVIOUS
    <3>2. CASE at[i] = at[j]
      BY <1>4, <2>1, <3>2
    <3>3. CASE at[j] < at[i]
      <4>1. at[j] \in k + 1 .. at[i] - 1
        BY <1>4, <3>3
      <4>2. t[at[j]].rest > Depth(t, k, i) /\ t[at[j]].rest = Depth(t, k, j)
        BY <1>4, <4>1
      <4> QED
        BY <1>4, <2>1, <4>2
    <3> QED
      BY <1>4, <3>1, <3>2, <3>3
  <2>3. l \in at[i] .. pc /\ \A m \in at[i] + 1 .. l : t[m].rest >= t[at[i]].rest
    BY <1>6 DEF Within
  <2>4. SUFFICES ASSUME ~(l < at[j]) PROVE FALSE
    OBVIOUS
  <2>5. at[j] \in at[i] + 1 .. l
    BY <1>4, <2>2, <2>3, <2>4
  <2>6. t[at[j]].rest >= t[at[i]].rest
    BY <2>3, <2>5
  <2> QED
    BY <1>4, <2>1, <2>6
<1>7. at \in [D -> 2 .. pc]
  BY <1>4 DEF at
<1>8. WalkedOver(t, pc, k, at)
  BY <1>4, <1>5, <1>6, <1>7 DEF WalkedOver
<1> QED
  BY <1>8

LEMMA WithinLoop ==
  ASSUME prog \in Programs, NEW pc \in Nat, NEW t, NEW sn, NEW lp, Trail(t, pc, <<>>, sn, lp),
         NEW k \in 2 .. pc, prog[t[k].node].kind \in Loops
  PROVE  \E p \in lp : \A l : Within(t, pc, k, l) => l \in p[1] .. p[2]
<1>1. t \in [2 .. pc -> [node : DOMAIN prog, rest : Nat]]
  BY DEF Trail
<1>2. ~LoopOpen(t, pc, <<>>, k)
  <2>1. t[k].rest \in Nat /\ Len(<<>>) = 0
    BY <1>1
  <2> QED
    BY <2>1 DEF LoopOpen
<1>3. LoopClosed(t, pc, <<>>, lp, k)
  BY <1>2 DEF Trail
<1>4. PICK e \in k .. pc : <<k, e>> \in lp /\ (e < pc => t[e + 1].rest < t[k].rest)
  BY <1>3 DEF LoopClosed
<1>5. ASSUME NEW l, Within(t, pc, k, l) PROVE l \in k .. e
  <2>1. l \in k .. pc /\ \A j \in k + 1 .. l : t[j].rest >= t[k].rest
    BY <1>5 DEF Within
  <2>2. SUFFICES ASSUME l > e PROVE FALSE
    BY <1>4, <2>1
  <2>3. e + 1 \in k + 1 .. l /\ e < pc /\ e + 1 \in 2 .. pc
    BY <1>4, <2>1, <2>2
  <2>4. t[e + 1].rest >= t[k].rest /\ t[e + 1].rest < t[k].rest
    BY <1>4, <2>1, <2>3
  <2>5. t[e + 1].rest \in Nat /\ t[k].rest \in Nat
    BY <1>1, <2>3
  <2> QED
    BY <2>4, <2>5
<1>6. <<k, e>>[1] = k /\ <<k, e>>[2] = e
  OBVIOUS
<1> QED
  BY <1>4, <1>5, <1>6

-----------------------------------------------------------------------------
(* What is left to execute is placed on the trail: each entry stands for a *)
(* visit, and whatever comes later is visited later, or in a loop with it. *)
Entries == [does : {"node", "put", "again", "resume", "endswitch"}, node : DOMAIN prog \cup {0}]

Active(e) == e.does \in {"node", "put", "again"}

(* What an entry of kont can still store. *)
Changes(e) == e.does \in {"put", "again"} \/ (e.does = "node" /\ Composite(e.node))

Fits(t, e, k) ==
  Active(e) => /\ t[k].node = e.node
               /\ e.does = "put" => prog[e.node].kind = "var"
               /\ e.does = "again" => prog[e.node].kind \in Loops

(* The entry e, placed at k, may come to what is visited at l. *)
Reaches(t, pc, e, k, l) == Active(e) /\ Within(t, pc, k, l)

(* The number m is visited behind l or in a loop with it. *)
Follow(lp, l, m) ==
  l < m \/ \E p \in lp : l \in p[1] .. p[2] /\ m \in p[1] .. p[2]

(* The entries of R stand for the visits sp, in order. *)
Placing(t, pc, lp, R, sp) ==
  /\ sp \in [DOMAIN R -> 2 .. pc]
  /\ \A i \in DOMAIN R : Fits(t, R[i], sp[i])
  /\ \A i, j \in DOMAIN R : i < j /\ Changes(R[i]) =>
       \A l, m : Reaches(t, pc, R[i], sp[i], l) /\ Reaches(t, pc, R[j], sp[j], m) => Follow(lp, l, m)

(* R reaches nothing but what hangs below the visit k. *)
Inside(t, pc, R, sp, k) ==
  \A i \in DOMAIN R : \A l : Reaches(t, pc, R[i], sp[i], l) => Within(t, pc, k, l)

Unfolds(t, pc, lp, k, code) ==
  code \in Seq(Entries) /\ \E sp : Placing(t, pc, lp, code, sp) /\ Inside(t, pc, code, sp, k)

(* code consists of the parts of n with the numbers ix, and of entries     *)
(* that are no parts and have the number 0.                                *)
FromParts(n, code, ix) ==
  /\ code \in Seq(Entries) /\ ix \in [DOMAIN code -> 0 .. Len(Parts(n))]
  /\ \A i \in DOMAIN code :
       IF ix[i] = 0
       THEN \/ code[i].does \in {"resume", "endswitch"}
            \/ code[i].does = "again" /\ code[i].node = n /\ prog[n].kind \in Loops
       ELSE /\ code[i].does \in {"node", "put"} /\ code[i].node = Parts(n)[ix[i]]
            /\ code[i].does = "put" => prog[code[i].node].kind = "var"
  /\ \/ prog[n].kind \in Loops
     \/ \A i, j \in DOMAIN code : i < j /\ Changes(code[i]) /\ ix[j] > 0 => ix[i] < ix[j]

LEMMA FromPartsUnfolds ==
  ASSUME prog \in Programs, NEW pc \in Nat, NEW t, NEW sn, NEW lp, Trail(t, pc, <<>>, sn, lp),
         NEW k \in 2 .. pc, NEW code, NEW ix, FromParts(t[k].node, code, ix)
  PROVE  Unfolds(t, pc, lp, k, code)
<1> DEFINE n == t[k].node
           D == DOMAIN code
<1>1. PICK at : WalkedOver(t, pc, k, at)
  BY PartsVisited
<1> DEFINE sp == [i \in D |-> IF ix[i] = 0 THEN k ELSE at[ix[i]]]
<1>2. /\ code \in Seq(Entries) /\ ix \in [D -> 0 .. Len(Parts(n))]
      /\ \A i \in D :
           IF ix[i] = 0
           THEN \/ code[i].does \in {"resume", "endswitch"}
                \/ code[i].does = "again" /\ code[i].node = n /\ prog[n].kind \in Loops
           ELSE /\ code[i].does \in {"node", "put"} /\ code[i].node = Parts(n)[ix[i]]
                /\ code[i].does = "put" => prog[code[i].node].kind = "var"
  BY DEF FromParts
<1>3. n \in DOMAIN prog /\ DOMAIN Parts(n) = 1 .. Len(Parts(n)) /\ Len(Parts(n)) \in Nat
  BY TrailType, PartsType
<1>4. ASSUME NEW i \in D, ix[i] # 0
      PROVE  /\ ix[i] \in DOMAIN Parts(n) /\ sp[i] = at[ix[i]] /\ sp[i] \in 2 .. pc
             /\ t[sp[i]].node = Parts(n)[ix[i]] /\ Within(t, pc, k, sp[i])
  <2>1. ix[i] \in DOMAIN Parts(n)
    BY <1>2, <1>3, <1>4
  <2> QED
    BY <1>1, <1>4, <2>1 DEF WalkedOver
<1>5. ASSUME NEW i \in D, ix[i] = 0 PROVE sp[i] = k
  BY <1>5
<1> HIDE DEF sp
<1>6. sp \in [D -> 2 .. pc]
  <2>1. \A i \in D : sp[i] \in 2 .. pc
    BY <1>4, <1>5
  <2> QED
    BY <2>1 DEF sp
<1>7. ASSUME NEW i \in D PROVE Fits(t, code[i], sp[i])
  BY <1>2, <1>4, <1>5 DEF Fits, Active
<1>8. ASSUME NEW i \in D, NEW l, Reaches(t, pc, code[i], sp[i], l)
      PROVE  Within(t, pc, k, l)
  <2>1. CASE ix[i] = 0
    BY <1>5, <1>8, <2>1 DEF Reaches
  <2>2. CASE ix[i] # 0
    <3>1. Within(t, pc, k, sp[i]) /\ Within(t, pc, sp[i], l)
      BY <1>4, <1>8, <2>2 DEF Reaches
    <3> QED
      BY <3>1, TrailType, WithinTrans
  <2> QED
    BY <2>1, <2>2
<1>9. ASSUME NEW i \in D, NEW j \in D, i < j, Changes(code[i]), NEW l, NEW m,
             Reaches(t, pc, code[i], sp[i], l), Reaches(t, pc, code[j], sp[j], m)
      PROVE  Follow(lp, l, m)
  <2>1. CASE prog[n].kind \in Loops
    <3>1. PICK p \in lp : \A x : Within(t, pc, k, x) => x \in p[1] .. p[2]
      BY <2>1, WithinLoop
    <3> QED
      BY <1>8, <1>9, <3>1 DEF Follow
  <2>2. CASE prog[n].kind \notin Loops
    <3>1. ix[j] # 0 /\ ix[i] # 0
      BY <1>2, <1>9, <2>2 DEF Reaches, Active, Changes
    <3>2. ix[j] \in Nat /\ ix[j] > 0
      BY <1>2, <3>1
    <3>3. ix[i] < ix[j]
      BY <1>9, <2>2, <3>2 DEF FromParts
    <3>4. Within(t, pc, at[ix[i]], l) /\ Within(t, pc, at[ix[j]], m)
      BY <1>4, <1>9, <3>1 DEF Reaches
    <3>5. l < at[ix[j]]
      BY <1>1, <1>4, <3>1, <3>3, <3>4 DEF WalkedOver
    <3>6. m \in at[ix[j]] .. pc /\ at[ix[j]] \in 2 .. pc
      BY <1>4, <3>1, <3>4 DEF Within
    <3>7. l \in at[ix[i]] .. pc /\ at[ix[i]] \in 2 .. pc
      BY <1>4, <3>1, <3>4 DEF Within
    <3>8. l < m
      BY <3>5, <3>6, <3>7
    <3> QED
      BY <3>8 DEF Follow
  <2> QED
    BY <2>1, <2>2
<1>10. Placing(t, pc, lp, code, sp)
  BY <1>6, <1>7, <1>9 DEF Placing
<1>11. Inside(t, pc, code, sp, k)
  BY <1>8 DEF Inside
<1> QED
  BY <1>2, <1>10, <1>11 DEF Unfolds

-----------------------------------------------------------------------------
(* The code of every node is placed on its parts.                          *)
(* code is made of the parts of n behind lo and up to hi. *)
Piece(n, code, lo, hi) ==
  \E ix : FromParts(n, code, ix) /\ \A i \in DOMAIN code : ix[i] = 0 \/ (lo < ix[i] /\ ix[i] <= hi)

LEMMA Join ==
  ASSUME prog \in Programs, NEW n \in DOMAIN prog, NEW c, NEW d,
         NEW a1, NEW b1 \in Nat, NEW a2 \in Nat, NEW b2, Piece(n, c, a1, b1), Piece(n, d, a2, b2),
         b1 <= a2 \/ prog[n].kind \in Loops \/ \A i \in DOMAIN c : ~Changes(c[i])
  PROVE  Piece(n, c \o d, 0, Len(Parts(n)))
<1>1. PICK x : FromParts(n, c, x) /\ \A i \in DOMAIN c : x[i] = 0 \/ (a1 < x[i] /\ x[i] <= b1)
  BY DEF Piece
<1>2. PICK y : FromParts(n, d, y) /\ \A i \in DOMAIN d : y[i] = 0 \/ (a2 < y[i] /\ y[i] <= b2)
  BY DEF Piece
<1> DEFINE N == Len(Parts(n))
           e == c \o d
           z == [i \in DOMAIN e |-> IF i <= Len(c) THEN x[i] ELSE y[i - Len(c)]]
<1>3. N \in Nat
  BY PartsType
<1>4. c \in Seq(Entries) /\ d \in Seq(Entries) /\ x \in [DOMAIN c -> 0 .. N] /\ y \in [DOMAIN d -> 0 .. N]
  BY <1>1, <1>2 DEF FromParts
<1>5. /\ Len(c) \in Nat /\ Len(d) \in Nat /\ DOMAIN c = 1 .. Len(c) /\ DOMAIN d = 1 .. Len(d)
      /\ e \in Seq(Entries) /\ DOMAIN e = 1 .. Len(c) + Len(d)
      /\ \A i \in 1 .. Len(c) : e[i] = c[i]
      /\ \A i \in 1 .. Len(d) : e[Len(c) + i] = d[i]
  BY <1>4
<1> HIDE DEF e, N
<1>6. \A i \in DOMAIN e : z[i] = IF i <= Len(c) THEN x[i] ELSE y[i - Len(c)]
  OBVIOUS
<1>z. z = [i \in DOMAIN e |-> z[i]]
  OBVIOUS
<1> HIDE DEF z
<1>7. ASSUME NEW i \in DOMAIN e
      PROVE  \/ i \in DOMAIN c /\ z[i] = x[i] /\ e[i] = c[i]
             \/ i - Len(c) \in DOMAIN d /\ z[i] = y[i - Len(c)] /\ e[i] = d[i - Len(c)] /\ i > Len(c)
  <2>1. CASE i <= Len(c)
    BY <1>5, <1>6, <2>1
  <2>2. CASE i > Len(c)
    <3>1. i - Len(c) \in 1 .. Len(d) /\ Len(c) + (i - Len(c)) = i /\ ~(i <= Len(c))
      BY <1>5, <2>2
    <3> QED
      BY <1>5, <1>6, <2>2, <3>1
  <2> QED
    BY <1>5, <2>1, <2>2
<1>8. ASSUME NEW i \in DOMAIN e
      PROVE  /\ z[i] \in 0 .. N
             /\ IF z[i] = 0
                THEN \/ e[i].does \in {"resume", "endswitch"}
                     \/ e[i].does = "again" /\ e[i].node = n /\ prog[n].kind \in Loops
                ELSE /\ e[i].does \in {"node", "put"} /\ e[i].node = Parts(n)[z[i]]
                     /\ e[i].does = "put" => prog[e[i].node].kind = "var"
  <2>1. CASE i \in DOMAIN c /\ z[i] = x[i] /\ e[i] = c[i]
    BY <1>1, <1>4, <2>1 DEF FromParts
  <2>2. CASE i - Len(c) \in DOMAIN d /\ z[i] = y[i - Len(c)] /\ e[i] = d[i - Len(c)]
    <3> DEFINE j == i - Len(c)
    <3>1. j \in DOMAIN d /\ z[i] = y[j] /\ e[i] = d[j]
      BY <2>2
    <3> HIDE DEF j
    <3> QED
      BY <1>2, <1>4, <3>1 DEF FromParts
  <2> QED
    BY <1>7, <2>1, <2>2
<1>9. ASSUME prog[n].kind \notin Loops, NEW i \in DOMAIN e, NEW j \in DOMAIN e, i < j, Changes(e[i]), z[j] > 0
      PROVE  z[i] < z[j]
  <2>1. CASE i \in DOMAIN c /\ z[i] = x[i] /\ e[i] = c[i] /\ j \in DOMAIN c /\ z[j] = x[j]
    BY <1>1, <1>9, <2>1 DEF FromParts
  <2>2. CASE i > Len(c) /\ j > Len(c)
    <3> DEFINE i2 == i - Len(c)
               j2 == j - Len(c)
    <3>1. i2 \in DOMAIN d /\ j2 \in DOMAIN d /\ z[i] = y[i2] /\ e[i] = d[i2] /\ z[j] = y[j2]
      BY <1>5, <1>7, <2>2
    <3>2. i2 < j2
      BY <1>5, <1>9, <2>2
    <3> HIDE DEF i2, j2
    <3> QED
      BY <1>2, <1>9, <3>1, <3>2 DEF FromParts
  <2>3. CASE i \in DOMAIN c /\ z[i] = x[i] /\ e[i] = c[i]
             /\ j - Len(c) \in DOMAIN d /\ z[j] = y[j - Len(c)]
    <3>1. b1 <= a2
      BY <1>9, <2>3
    <3>2. z[i] \in 0 .. N /\ z[j] \in 0 .. N
      BY <1>8
    <3>3. z[i] <= b1
      BY <1>1, <2>3, <3>2
    <3>4. a2 < z[j]
      <4> DEFINE k == j - Len(c)
      <4>1. k \in DOMAIN d /\ z[j] = y[k] /\ y[k] # 0
        BY <1>9, <2>3
      <4> HIDE DEF k
      <4> QED
        BY <1>2, <4>1
    <3> QED
      BY <1>3, <3>1, <3>2, <3>3, <3>4
  <2> QED
    BY <1>5, <1>7, <1>9, <2>1, <2>2, <2>3
<1>10. z \in [DOMAIN e -> 0 .. N]
  BY <1>8, <1>z
<1>11. FromParts(n, e, z)
  BY <1>5, <1>8, <1>9, <1>10 DEF FromParts, N
<1>12. \A i \in DOMAIN e : z[i] = 0 \/ (0 < z[i] /\ z[i] <= N)
  <2>1. \A v \in 0 .. N : v = 0 \/ (0 < v /\ v <= N)
    BY <1>3
  <2> QED
    BY <1>8, <2>1
<1> QED
  BY <1>11, <1>12 DEF Piece, e, N

(* The sequence s stands in p from the place o on. *)
Stands(p, s, o) == o \in Nat /\ \A i \in 1 .. Len(s) : o + i \in 1 .. Len(p) /\ p[o + i] = s[i]

LEMMA CodeType ==
  ASSUME prog \in Programs, NEW s \in Seq(DOMAIN prog)
  PROVE  /\ Code(s) \in Seq(Entries) /\ Len(Code(s)) = Len(s) /\ DOMAIN Code(s) = 1 .. Len(s)
         /\ \A i \in 1 .. Len(s) : /\ Code(s)[i] = Entry("node", s[i])
                                   /\ Code(s)[i].does = "node" /\ Code(s)[i].node = s[i]
<1>1. DOMAIN s = 1 .. Len(s) /\ Len(s) \in Nat /\ \A i \in 1 .. Len(s) : s[i] \in DOMAIN prog
  OBVIOUS
<1>2. \A m \in DOMAIN prog : /\ Entry("node", m) \in Entries
                             /\ Entry("node", m).does = "node" /\ Entry("node", m).node = m
  BY DEF Entry, Entries
<1>3. Code(s) = [i \in 1 .. Len(s) |-> Entry("node", s[i])]
  BY <1>1 DEF Code
<1>4. Code(s) \in [1 .. Len(s) -> Entries]
  BY <1>1, <1>2, <1>3
<1> QED
  BY <1>1, <1>2, <1>3, <1>4

LEMMA StandsPiece ==
  ASSUME prog \in Programs, NEW n \in DOMAIN prog, NEW s \in Seq(DOMAIN prog), NEW o, Stands(Parts(n), s, o)
  PROVE  Piece(n, Code(s), o, o + Len(s))
<1> DEFINE c == Code(s)
           x == [i \in 1 .. Len(s) |-> o + i]
<1>1. /\ c \in Seq(Entries) /\ DOMAIN c = 1 .. Len(s)
      /\ \A i \in 1 .. Len(s) : c[i].does = "node" /\ c[i].node = s[i]
  BY CodeType
<1>2. o \in Nat /\ \A i \in 1 .. Len(s) : o + i \in 1 .. Len(Parts(n)) /\ Parts(n)[o + i] = s[i]
  BY DEF Stands
<1>3. Len(s) \in Nat /\ Len(Parts(n)) \in Nat
  BY PartsType
<1>4. \A i \in 1 .. Len(s) : x[i] = o + i
  OBVIOUS
<1>5. x \in [DOMAIN c -> 0 .. Len(Parts(n))]
  BY <1>1, <1>2, <1>3
<1> HIDE DEF c, x
<1>6. \A i \in 1 .. Len(s) : x[i] # 0 /\ o < x[i] /\ x[i] <= o + Len(s) /\ Parts(n)[x[i]] = s[i]
  BY <1>2, <1>3, <1>4
<1>7. \A i, j \in 1 .. Len(s) : i < j => x[i] < x[j]
  BY <1>2, <1>3, <1>4
<1>8. FromParts(n, c, x)
  BY <1>1, <1>5, <1>6, <1>7 DEF FromParts
<1> QED
  BY <1>1, <1>6, <1>8 DEF Piece, c

LEMMA PutPiece ==
  ASSUME prog \in Programs, NEW n \in DOMAIN prog, prog[n].kind \in {"assign", "compound"}, NEW o,
         Stands(Parts(n), Kid(n, "lhs"), o)
  PROVE  Piece(n, Put(n), o, o + 1)
<1> DEFINE m == prog[n].lhs
           c == <<Entry("put", m)>>
           x == [i \in {1} |-> o + 1]
<1>1. "lhs" \in DOMAIN prog[n] /\ prog[m].kind = "var" /\ m \in DOMAIN prog
  BY ProgramsAssumption DEF Fields
<1>2. Kid(n, "lhs") = <<m>>
  BY <1>1 DEF Kid
<1>3. o \in Nat /\ o + 1 \in 1 .. Len(Parts(n)) /\ Parts(n)[o + 1] = m
  <2>1. 1 \in 1 .. Len(Kid(n, "lhs")) /\ Kid(n, "lhs")[1] = m
    BY <1>2
  <2> QED
    BY <2>1 DEF Stands
<1>4. Entry("put", m) \in Entries /\ Entry("put", m).does = "put" /\ Entry("put", m).node = m
  BY <1>1 DEF Entry, Entries
<1>5. /\ c \in Seq(Entries) /\ DOMAIN c = {1} /\ c[1] = Entry("put", m)
  BY <1>4
<1>6. x \in [DOMAIN c -> 0 .. Len(Parts(n))] /\ x[1] = o + 1 /\ o + 1 # 0
  BY <1>3, <1>5
<1> HIDE DEF c, x
<1>7. FromParts(n, c, x)
  <2>1. \A i, j \in DOMAIN c : ~(i < j)
    BY <1>5
  <2> QED
    BY <1>1, <1>3, <1>4, <1>5, <1>6, <2>1 DEF FromParts
<1>8. \A i \in DOMAIN c : o < x[i] /\ x[i] <= o + 1
  BY <1>3, <1>5, <1>6
<1>9. Put(n) = c
  BY DEF Put, c
<1> QED
  BY <1>7, <1>8, <1>9 DEF Piece

LEMMA MarkPiece ==
  ASSUME prog \in Programs, NEW n \in DOMAIN prog, NEW e \in Entries,
         e.does \in {"resume", "endswitch"}
           \/ (e.does = "again" /\ e.node = n /\ prog[n].kind \in Loops),
         NEW lo, NEW hi
  PROVE  Piece(n, <<e>>, lo, hi)
<1> DEFINE c == <<e>>
           x == [i \in {1} |-> 0]
<1>1. c \in Seq(Entries) /\ DOMAIN c = {1} /\ c[1] = e /\ x[1] = 0
  OBVIOUS
<1>2. x \in [DOMAIN c -> 0 .. Len(Parts(n))]
  BY <1>1, PartsType
<1> HIDE DEF c, x
<1>3. \A i, j \in DOMAIN c : ~(i < j)
  BY <1>1
<1>4. FromParts(n, c, x)
  BY <1>1, <1>2, <1>3 DEF FromParts
<1> QED
  BY <1>1, <1>4 DEF Piece, c

LEMMA ArgumentsPiece ==
  ASSUME prog \in Programs, NEW n \in DOMAIN prog, NEW o, Stands(Parts(n), List(n, "args"), o),
         \A i \in DOMAIN List(n, "args") : ~Composite(List(n, "args")[i])
  PROVE  Piece(n, Code(Arguments(n)), o, o + Len(List(n, "args")))
<1> DEFINE s == List(n, "args")
           r == Arguments(n)
           c == Code(r)
           x == [i \in 1 .. Len(s) |-> o + (Len(s) + 1 - i)]
<1>1. s \in Seq(DOMAIN prog) /\ Len(s) \in Nat /\ DOMAIN s = 1 .. Len(s) /\ Len(Parts(n)) \in Nat
  BY ListType, PartsType
<1>2. r = [i \in 1 .. Len(s) |-> s[Len(s) + 1 - i]]
  BY <1>1, Zenon DEF Arguments
<1>3. \A i \in 1 .. Len(s) : Len(s) + 1 - i \in 1 .. Len(s) /\ s[Len(s) + 1 - i] \in DOMAIN prog
  BY <1>1
<1>4. r \in Seq(DOMAIN prog) /\ Len(r) = Len(s) /\ \A i \in 1 .. Len(s) : r[i] = s[Len(s) + 1 - i]
  <2>1. r \in [1 .. Len(s) -> DOMAIN prog]
    BY <1>2, <1>3
  <2> QED
    BY <1>1, <1>2, <2>1
<1>5. o \in Nat /\ \A i \in 1 .. Len(s) : o + i \in 1 .. Len(Parts(n)) /\ Parts(n)[o + i] = s[i]
  BY DEF Stands
<1> HIDE DEF s, r
<1>6. /\ c \in Seq(Entries) /\ DOMAIN c = 1 .. Len(s)
      /\ \A i \in 1 .. Len(s) : c[i].does = "node" /\ c[i].node = r[i]
  BY <1>4, CodeType
<1>7. \A i \in 1 .. Len(s) : x[i] = o + (Len(s) + 1 - i)
  OBVIOUS
<1>8. x \in [1 .. Len(s) -> 0 .. Len(Parts(n))]
  <2>1. ASSUME NEW i \in 1 .. Len(s) PROVE o + (Len(s) + 1 - i) \in 0 .. Len(Parts(n))
    <3>1. o + (Len(s) + 1 - i) \in 1 .. Len(Parts(n))
      BY <1>3, <1>5
    <3> QED
      BY <1>1, <3>1
  <2> QED
    BY <2>1
<1> HIDE DEF c, x
<1>9. \A i \in 1 .. Len(s) : x[i] # 0 /\ o < x[i] /\ x[i] <= o + Len(s) /\ Parts(n)[x[i]] = r[i]
  <2> TAKE i \in 1 .. Len(s)
  <2> DEFINE j == Len(s) + 1 - i
  <2>1. j \in 1 .. Len(s) /\ x[i] = o + j /\ r[i] = s[j]
    BY <1>3, <1>4, <1>7
  <2> HIDE DEF j
  <2> QED
    BY <1>1, <1>5, <2>1
<1>10. \A i \in 1 .. Len(s) : ~Changes(c[i])
  <2>1. \A i \in 1 .. Len(s) : ~Composite(r[i])
    BY <1>1, <1>3, <1>4 DEF s
  <2> QED
    BY <1>6, <2>1 DEF Changes
<1>11. FromParts(n, c, x)
  BY <1>6, <1>8, <1>9, <1>10 DEF FromParts
<1> QED
  BY <1>6, <1>9, <1>11 DEF Piece, c, r, s

LEMMA StandsLeft ==
  ASSUME NEW S, NEW p \in Seq(S), NEW q \in Seq(S), NEW s, Len(s) \in Nat, NEW o, Stands(p, s, o)
  PROVE  Stands(p \o q, s, o)
<1>1. /\ Len(p) \in Nat /\ Len(q) \in Nat /\ Len(p \o q) = Len(p) + Len(q)
      /\ \A i \in 1 .. Len(p) : (p \o q)[i] = p[i]
  OBVIOUS
<1> QED
  BY <1>1 DEF Stands

LEMMA StandsRight ==
  ASSUME NEW S, NEW p \in Seq(S), NEW q \in Seq(S)
  PROVE  Stands(p \o q, q, Len(p))
<1>1. /\ Len(p) \in Nat /\ Len(q) \in Nat /\ Len(p \o q) = Len(p) + Len(q)
      /\ \A i \in 1 .. Len(q) : (p \o q)[Len(p) + i] = q[i]
  OBVIOUS
<1> QED
  BY <1>1 DEF Stands

LEMMA StandsAll ==
  ASSUME NEW S, NEW p \in Seq(S)
  PROVE  Stands(p, p, 0)
BY DEF Stands

(* p is followed by q at the end of r. *)
LEMMA Extend ==
  ASSUME NEW S, NEW p \in Seq(S), NEW q \in Seq(S)
  PROVE  /\ p \o q \in Seq(S) /\ Len(p \o q) = Len(p) + Len(q) /\ Len(p) \in Nat /\ Len(q) \in Nat
         /\ Stands(p \o q, q, Len(p))
         /\ \A s, o : Len(s) \in Nat /\ Stands(p, s, o) => Stands(p \o q, s, o)
BY StandsLeft, StandsRight

LEMMA LoopPlaces ==
  ASSUME prog \in Programs, NEW n \in DOMAIN prog, prog[n].kind \in Loops,
         NEW f \in {"cond", "body", "init", "inc"}
  PROVE  \E o : Stands(Parts(n), Kid(n, f), o)
<1> DEFINE S == DOMAIN prog
           c == Kid(n, "cond")
           b == Kid(n, "body")
           i == Kid(n, "init")
           k == Kid(n, "inc")
<1>1. c \in Seq(S) /\ b \in Seq(S) /\ i \in Seq(S) /\ k \in Seq(S)
  BY KidType DEF Fields
<1>2. Parts(n) = ((c \o b) \o i) \o k
  BY DEF Parts, LoopParts
<1> HIDE DEF c, b, i, k, S
<1> DEFINE p == c \o b
           q == p \o i
<1>3. p \in Seq(S) /\ Stands(p, c, 0) /\ Stands(p, b, Len(c)) /\ Len(c) \in Nat /\ Len(b) \in Nat
  BY <1>1, StandsAll, Extend
<1> HIDE DEF p
<1>4. /\ q \in Seq(S) /\ Stands(q, c, 0) /\ Stands(q, b, Len(c)) /\ Stands(q, i, Len(p)) /\ Len(i) \in Nat
  BY <1>1, <1>3, Extend
<1> HIDE DEF q
<1>5. /\ Stands(q \o k, c, 0) /\ Stands(q \o k, b, Len(c)) /\ Stands(q \o k, i, Len(p))
      /\ Stands(q \o k, k, Len(q))
  BY <1>1, <1>3, <1>4, Extend
<1>6. Parts(n) = q \o k
  BY <1>2 DEF p, q
<1> QED
  BY <1>5, <1>6 DEF c, b, i, k

(* Where the parts that are executed stand among the children of a node    *)
(* that is no loop.                                                        *)
ChildPlaces(n, oc, ot, oe, ob, os, oa) ==
  /\ Stands(Parts(n), Operands(n), 0)
  /\ Stands(Parts(n), Kid(n, "cond"), oc)
  /\ Stands(Parts(n), Kid(n, "then_body"), ot) /\ oc + Len(Kid(n, "cond")) <= ot
  /\ Stands(Parts(n), Kid(n, "else_body"), oe) /\ oc + Len(Kid(n, "cond")) <= oe
  /\ Stands(Parts(n), Kid(n, "body"), ob) /\ oc + Len(Kid(n, "cond")) <= ob
  /\ Stands(Parts(n), List(n, "stmts"), os)
  /\ Stands(Parts(n), List(n, "args"), oa) /\ Len(Operands(n)) <= oa

LEMMA ChildrenPlaced ==
  ASSUME prog \in Programs, NEW n \in DOMAIN prog, prog[n].kind \notin Loops
  PROVE  \E oc, ot, oe, ob, os, oa : ChildPlaces(n, oc, ot, oe, ob, os, oa)
<1> DEFINE S == DOMAIN prog
           a == Operands(n)
           c == Kid(n, "cond")
           t == Kid(n, "then_body")
           e == Kid(n, "else_body")
           i == Kid(n, "init")
           k == Kid(n, "inc")
           b == Kid(n, "body")
           l == List(n, "stmts")
           g == List(n, "args")
<1>1. /\ c \in Seq(S) /\ t \in Seq(S) /\ e \in Seq(S) /\ i \in Seq(S) /\ k \in Seq(S) /\ b \in Seq(S)
      /\ Kid(n, "lhs") \in Seq(S) /\ Kid(n, "rhs") \in Seq(S)
  BY KidType DEF Fields
<1>2. a \in Seq(S) /\ l \in Seq(S) /\ g \in Seq(S)
  BY <1>1, ListType, ConcatType DEF Operands
<1> DEFINE p1 == a \o c
           p2 == p1 \o t
           p3 == p2 \o e
           p4 == p3 \o i
           p5 == p4 \o k
           p6 == p5 \o b
           p7 == p6 \o l
           p8 == p7 \o g
<1>3. Parts(n) = p8
  BY DEF Parts, Children
<1>4. Len(a) \in Nat /\ Len(c) \in Nat /\ Len(t) \in Nat /\ Len(e) \in Nat /\ Len(b) \in Nat /\ Len(l) \in Nat
  BY <1>1, <1>2
<1> HIDE DEF S, a, c, t, e, i, k, b, l, g
<1>5. /\ p1 \in Seq(S) /\ Stands(p1, a, 0) /\ Stands(p1, c, Len(a)) /\ Len(p1) = Len(a) + Len(c)
  BY <1>1, <1>2, <1>4, StandsAll, Extend
<1> HIDE DEF p1
<1>6. /\ p2 \in Seq(S) /\ Stands(p2, a, 0) /\ Stands(p2, c, Len(a)) /\ Stands(p2, t, Len(p1))
      /\ Len(p2) = Len(p1) + Len(t)
  BY <1>1, <1>4, <1>5, Extend
<1> HIDE DEF p2
<1>7. /\ p3 \in Seq(S) /\ Stands(p3, a, 0) /\ Stands(p3, c, Len(a)) /\ Stands(p3, t, Len(p1))
      /\ Stands(p3, e, Len(p2)) /\ Len(p3) = Len(p2) + Len(e)
  BY <1>1, <1>4, <1>6, Extend
<1> HIDE DEF p3
<1>8. /\ p4 \in Seq(S) /\ Stands(p4, a, 0) /\ Stands(p4, c, Len(a)) /\ Stands(p4, t, Len(p1))
      /\ Stands(p4, e, Len(p2)) /\ Len(p4) = Len(p3) + Len(i) /\ Len(i) \in Nat
  BY <1>1, <1>4, <1>7, Extend
<1> HIDE DEF p4
<1>9. /\ p5 \in Seq(S) /\ Stands(p5, a, 0) /\ Stands(p5, c, Len(a)) /\ Stands(p5, t, Len(p1))
      /\ Stands(p5, e, Len(p2)) /\ Len(p5) = Len(p4) + Len(k) /\ Len(k) \in Nat
  BY <1>1, <1>4, <1>8, Extend
<1> HIDE DEF p5
<1>10. /\ p6 \in Seq(S) /\ Stands(p6, a, 0) /\ Stands(p6, c, Len(a)) /\ Stands(p6, t, Len(p1))
       /\ Stands(p6, e, Len(p2)) /\ Stands(p6, b, Len(p5)) /\ Len(p6) = Len(p5) + Len(b)
  BY <1>1, <1>4, <1>9, Extend
<1> HIDE DEF p6
<1>11. /\ p7 \in Seq(S) /\ Stands(p7, a, 0) /\ Stands(p7, c, Len(a)) /\ Stands(p7, t, Len(p1))
       /\ Stands(p7, e, Len(p2)) /\ Stands(p7, b, Len(p5)) /\ Stands(p7, l, Len(p6))
       /\ Len(p7) = Len(p6) + Len(l)
  BY <1>2, <1>4, <1>10, Extend
<1> HIDE DEF p7
<1>12. /\ Stands(p8, a, 0) /\ Stands(p8, c, Len(a)) /\ Stands(p8, t, Len(p1))
       /\ Stands(p8, e, Len(p2)) /\ Stands(p8, b, Len(p5)) /\ Stands(p8, l, Len(p6))
       /\ Stands(p8, g, Len(p7))
  BY <1>2, <1>4, <1>11, Extend
<1> HIDE DEF p8
<1>s. /\ Len(p1) = Len(a) + Len(c) /\ Len(p2) = Len(p1) + Len(t) /\ Len(p3) = Len(p2) + Len(e)
      /\ Len(p4) = Len(p3) + Len(i) /\ Len(p5) = Len(p4) + Len(k) /\ Len(p6) = Len(p5) + Len(b)
      /\ Len(p7) = Len(p6) + Len(l) /\ Len(i) \in Nat /\ Len(k) \in Nat
  BY <1>5, <1>6, <1>7, <1>8, <1>9, <1>10, <1>11, Zenon
<1>13. /\ Len(a) + Len(c) <= Len(p1) /\ Len(a) + Len(c) <= Len(p2) /\ Len(a) + Len(c) <= Len(p5)
       /\ Len(a) <= Len(p7)
       /\ Len(p1) \in Nat /\ Len(p2) \in Nat /\ Len(p5) \in Nat /\ Len(p6) \in Nat /\ Len(p7) \in Nat
  <2>1. Len(p1) \in Nat /\ Len(a) + Len(c) <= Len(p1)
    BY <1>s, <1>4
  <2>2. Len(p2) \in Nat /\ Len(a) + Len(c) <= Len(p2)
    BY <1>s, <1>4, <2>1
  <2>3. Len(p3) \in Nat /\ Len(a) + Len(c) <= Len(p3)
    BY <1>s, <1>4, <2>2
  <2>4. Len(p4) \in Nat /\ Len(a) + Len(c) <= Len(p4)
    BY <1>s, <1>4, <2>3
  <2>5. Len(p5) \in Nat /\ Len(a) + Len(c) <= Len(p5)
    BY <1>s, <1>4, <2>4
  <2>6. Len(p6) \in Nat /\ Len(a) + Len(c) <= Len(p6)
    BY <1>s, <1>4, <2>5
  <2>7. Len(p7) \in Nat /\ Len(a) + Len(c) <= Len(p7)
    BY <1>s, <1>4, <2>6
  <2>8. Len(a) <= Len(p7)
    BY <1>4, <2>7
  <2> QED
    BY <2>1, <2>2, <2>5, <2>6, <2>7, <2>8
<1>14. ChildPlaces(n, Len(a), Len(p1), Len(p2), Len(p5), Len(p6), Len(p7))
  BY <1>3, <1>12, <1>13 DEF ChildPlaces, a, c, t, e, b, l, g
<1> DEFINE x1 == Len(a)
           x2 == Len(p1)
           x3 == Len(p2)
           x4 == Len(p5)
           x5 == Len(p6)
           x6 == Len(p7)
<1>15. ChildPlaces(n, x1, x2, x3, x4, x5, x6)
  BY <1>14
<1> HIDE DEF x1, x2, x3, x4, x5, x6
<1> QED
  BY <1>15

LEMMA CodeJoin ==
  ASSUME prog \in Programs, NEW s \in Seq(DOMAIN prog), NEW u \in Seq(DOMAIN prog)
  PROVE  Code(s \o u) = Code(s) \o Code(u)
<1>1. s \o u \in Seq(DOMAIN prog) /\ Len(s) \in Nat /\ Len(u) \in Nat /\ Len(s \o u) = Len(s) + Len(u)
  OBVIOUS
<1>2. /\ Code(s) \in Seq(Entries) /\ Len(Code(s)) = Len(s)
      /\ Code(u) \in Seq(Entries) /\ Len(Code(u)) = Len(u)
      /\ Code(s \o u) \in Seq(Entries) /\ Len(Code(s \o u)) = Len(s) + Len(u)
  BY <1>1, CodeType
<1>3. ASSUME NEW i \in 1 .. Len(s) + Len(u) PROVE Code(s \o u)[i] = (Code(s) \o Code(u))[i]
  <2>1. Code(s \o u)[i] = Entry("node", (s \o u)[i])
    BY <1>1, CodeType
  <2>2. CASE i \in 1 .. Len(s)
    <3>1. (s \o u)[i] = s[i] /\ (Code(s) \o Code(u))[i] = Code(s)[i]
      BY <1>1, <1>2, <2>2
    <3> QED
      BY <2>1, <2>2, <3>1, CodeType
  <2>3. CASE i \notin 1 .. Len(s)
    <3> DEFINE j == i - Len(s)
    <3>1. j \in 1 .. Len(u) /\ i = Len(s) + j
      BY <1>1, <2>3
    <3> HIDE DEF j
    <3>2. (s \o u)[Len(s) + j] = u[j]
      BY <3>1
    <3>3. (Code(s) \o Code(u))[Len(s) + j] = Code(u)[j]
      BY <1>2, <3>1
    <3>4. Code(u)[j] = Entry("node", u[j])
      BY <3>1, CodeType
    <3> QED
      BY <2>1, <3>1, <3>2, <3>3, <3>4
  <2> QED
    BY <2>2, <2>3
<1>4. Code(s) \o Code(u) \in Seq(Entries) /\ Len(Code(s) \o Code(u)) = Len(s) + Len(u)
  <2>1. /\ Code(s) \o Code(u) \in Seq(Entries)
        /\ Len(Code(s) \o Code(u)) = Len(Code(s)) + Len(Code(u))
    BY <1>2, Extend
  <2> QED
    BY <1>2, <2>1
<1> QED
  BY <1>2, <1>3, <1>4, SeqEqual

LEMMA QuietCode ==
  ASSUME prog \in Programs, NEW s \in Seq(DOMAIN prog), \A i \in 1 .. Len(s) : ~Composite(s[i])
  PROVE  \A i \in DOMAIN Code(s) : ~Changes(Code(s)[i])
BY CodeType DEF Changes

LEMMA QuietJoin ==
  ASSUME NEW c \in Seq(Entries), NEW d \in Seq(Entries), \A i \in DOMAIN c : ~Changes(c[i]),
         \A i \in DOMAIN d : ~Changes(d[i])
  PROVE  \A i \in DOMAIN (c \o d) : ~Changes((c \o d)[i])
<1>1. /\ Len(c) \in Nat /\ Len(d) \in Nat /\ DOMAIN c = 1 .. Len(c) /\ DOMAIN d = 1 .. Len(d)
      /\ DOMAIN (c \o d) = 1 .. Len(c) + Len(d)
      /\ \A i \in 1 .. Len(c) : (c \o d)[i] = c[i]
      /\ \A i \in 1 .. Len(d) : (c \o d)[Len(c) + i] = d[i]
  OBVIOUS
<1> TAKE i \in DOMAIN (c \o d)
<1>2. CASE i \in 1 .. Len(c)
  BY <1>1, <1>2
<1>3. CASE i \notin 1 .. Len(c)
  <2>1. i - Len(c) \in 1 .. Len(d) /\ i = Len(c) + (i - Len(c))
    BY <1>1, <1>3
  <2> QED
    BY <1>1, <2>1
<1> QED
  BY <1>2, <1>3

LEMMA PieceUnfolds ==
  ASSUME prog \in Programs, NEW pc \in Nat, NEW t, NEW sn, NEW lp, Trail(t, pc, <<>>, sn, lp),
         NEW k \in 2 .. pc, NEW code, NEW lo, NEW hi, Piece(t[k].node, code, lo, hi)
  PROVE  Unfolds(t, pc, lp, k, code)
BY FromPartsUnfolds DEF Piece

LEMMA KidFacts ==
  ASSUME NEW n, NEW f
  PROVE  /\ f \in DOMAIN prog[n] => Len(Kid(n, f)) = 1 /\ Kid(n, f)[1] = prog[n][f]
         /\ f \notin DOMAIN prog[n] => Kid(n, f) = <<>> /\ Len(Kid(n, f)) = 0
BY DEF Kid

LEMMA OperandPlaces ==
  ASSUME prog \in Programs, NEW n \in DOMAIN prog, prog[n].kind \notin Loops
  PROVE  /\ Kid(n, "lhs") \in Seq(DOMAIN prog) /\ Kid(n, "rhs") \in Seq(DOMAIN prog)
         /\ Operands(n) \in Seq(DOMAIN prog)
         /\ prog[n].kind = "assign" =>
              Stands(Parts(n), Kid(n, "rhs"), 0) /\ Stands(Parts(n), Kid(n, "lhs"), Len(Kid(n, "rhs")))
         /\ prog[n].kind # "assign" =>
              Stands(Parts(n), Kid(n, "lhs"), 0) /\ Stands(Parts(n), Kid(n, "rhs"), Len(Kid(n, "lhs")))
         /\ Len(Kid(n, "lhs")) <= Len(Operands(n))
<1> DEFINE S == DOMAIN prog
           l == Kid(n, "lhs")
           r == Kid(n, "rhs")
<1>1. l \in Seq(S) /\ r \in Seq(S)
  BY KidType DEF Fields
<1>2. Operands(n) = IF prog[n].kind = "assign" THEN r \o l ELSE l \o r
  BY DEF Operands
<1>3. PICK oc, ot, oe, ob, os, oa : ChildPlaces(n, oc, ot, oe, ob, os, oa)
  BY ChildrenPlaced
<1>4. Stands(Parts(n), Operands(n), 0)
  BY <1>3 DEF ChildPlaces
<1> HIDE DEF S, l, r
<1>5. /\ Len(l) \in Nat /\ Len(r) \in Nat /\ r \o l \in Seq(S) /\ l \o r \in Seq(S)
      /\ Len(r \o l) = Len(r) + Len(l) /\ Len(l \o r) = Len(l) + Len(r)
      /\ \A i \in 1 .. Len(r) : (r \o l)[i] = r[i] /\ (l \o r)[Len(l) + i] = r[i]
      /\ \A i \in 1 .. Len(l) : (l \o r)[i] = l[i] /\ (r \o l)[Len(r) + i] = l[i]
  BY <1>1
<1>6. ASSUME prog[n].kind = "assign" PROVE Stands(Parts(n), r, 0) /\ Stands(Parts(n), l, Len(r))
  <2>1. Stands(Parts(n), r \o l, 0)
    BY <1>2, <1>4, <1>6
  <2>2. \A i \in 1 .. Len(r) + Len(l) : 0 + i \in 1 .. Len(Parts(n)) /\ Parts(n)[0 + i] = (r \o l)[i]
    BY <1>5, <2>1 DEF Stands
  <2>3. \A i \in 1 .. Len(r) : i \in 1 .. Len(r) + Len(l)
    BY <1>5
  <2>4. \A i \in 1 .. Len(l) : Len(r) + i \in 1 .. Len(r) + Len(l) /\ 0 + (Len(r) + i) = Len(r) + i
    BY <1>5
  <2> QED
    BY <1>5, <2>2, <2>3, <2>4 DEF Stands
<1>7. ASSUME prog[n].kind # "assign" PROVE Stands(Parts(n), l, 0) /\ Stands(Parts(n), r, Len(l))
  <2>1. Stands(Parts(n), l \o r, 0)
    BY <1>2, <1>4, <1>7
  <2>2. \A i \in 1 .. Len(l) + Len(r) : 0 + i \in 1 .. Len(Parts(n)) /\ Parts(n)[0 + i] = (l \o r)[i]
    BY <1>5, <2>1 DEF Stands
  <2>3. \A i \in 1 .. Len(l) : i \in 1 .. Len(l) + Len(r)
    BY <1>5
  <2>4. \A i \in 1 .. Len(r) : Len(l) + i \in 1 .. Len(l) + Len(r) /\ 0 + (Len(l) + i) = Len(l) + i
    BY <1>5
  <2> QED
    BY <1>5, <2>2, <2>3, <2>4 DEF Stands
<1>8. Len(l) <= Len(Operands(n)) /\ Operands(n) \in Seq(S)
  BY <1>2, <1>5
<1> QED
  BY <1>1, <1>6, <1>7, <1>8 DEF S, l, r

(* What a node that is executed in one place may do, before it is known    *)
(* where: every code is a piece of the node.                               *)
Whole(n, code) == \E lo, hi \in Nat : Piece(n, code, lo, hi)

LEMMA EmptyPiece ==
  ASSUME prog \in Programs, NEW n \in DOMAIN prog
  PROVE  Piece(n, <<>>, 0, 0)
<1> DEFINE x == [i \in {} |-> 0]
<1>1. <<>> \in Seq(Entries) /\ DOMAIN <<>> = {}
  OBVIOUS
<1>2. x \in [DOMAIN <<>> -> 0 .. Len(Parts(n))]
  BY <1>1
<1> HIDE DEF x
<1>3. FromParts(n, <<>>, x)
  BY <1>1, <1>2 DEF FromParts
<1> QED
  BY <1>1, <1>3 DEF Piece

LEMMA PlacedPiece ==
  ASSUME prog \in Programs, NEW n \in DOMAIN prog, NEW s \in Seq(DOMAIN prog), NEW o, Stands(Parts(n), s, o)
  PROVE  o \in Nat /\ Len(s) \in Nat /\ o + Len(s) \in Nat /\ Piece(n, Code(s), o, o + Len(s)) /\ Whole(n, Code(s))
<1>1. o \in Nat /\ Len(s) \in Nat /\ o + Len(s) \in Nat
  BY DEF Stands
<1>2. Piece(n, Code(s), o, o + Len(s))
  BY StandsPiece
<1> QED
  BY <1>1, <1>2 DEF Whole

LEMMA LoopJoin ==
  ASSUME prog \in Programs, NEW n \in DOMAIN prog, prog[n].kind \in Loops, NEW c, NEW d, Whole(n, c), Whole(n, d)
  PROVE  Whole(n, c \o d)
<1>1. PICK a1 \in Nat, b1 \in Nat : Piece(n, c, a1, b1)
  BY DEF Whole
<1>2. PICK a2 \in Nat, b2 \in Nat : Piece(n, d, a2, b2)
  BY DEF Whole
<1>3. Piece(n, c \o d, 0, Len(Parts(n)))
  BY <1>1, <1>2, Join
<1> QED
  BY <1>3, PartsType DEF Whole

LEMMA LoopMarks ==
  ASSUME prog \in Programs, NEW n \in DOMAIN prog, prog[n].kind \in Loops
  PROVE  Whole(n, Again(n)) /\ Whole(n, Resume)
<1>1. Entry("again", n) \in Entries /\ Entry("again", n).does = "again" /\ Entry("again", n).node = n
  BY DEF Entry, Entries
<1>2. Entry("resume", 0) \in Entries /\ Entry("resume", 0).does = "resume"
  BY DEF Entry, Entries
<1>3. Piece(n, <<Entry("again", n)>>, 0, 0)
  BY <1>1, MarkPiece
<1>4. Piece(n, <<Entry("resume", 0)>>, 0, 0)
  BY <1>2, MarkPiece
<1> QED
  BY <1>3, <1>4 DEF Whole, Again, Resume

LEMMA LoopKid ==
  ASSUME prog \in Programs, NEW n \in DOMAIN prog, prog[n].kind \in Loops, NEW f \in {"cond", "body", "init", "inc"}
  PROVE  Whole(n, Code(Kid(n, f))) /\ Kid(n, f) \in Seq(DOMAIN prog)
<1>1. Kid(n, f) \in Seq(DOMAIN prog)
  BY KidType DEF Fields
<1>2. PICK o : Stands(Parts(n), Kid(n, f), o)
  BY LoopPlaces
<1> QED
  BY <1>1, <1>2, PlacedPiece

(* What a loop does in a turn, and when it is left. *)
LEMMA TurnPiece ==
  ASSUME prog \in Programs, NEW n \in DOMAIN prog, prog[n].kind \in Loops
  PROVE  /\ Whole(n, Turn(n)) /\ Whole(n, Exit(n))
         /\ Whole(n, Code(Kid(n, "init")) \o Again(n))
<1> DEFINE b == Code(Kid(n, "body"))
           c == Code(Kid(n, "cond"))
           k == Code(Kid(n, "inc"))
           i == Code(Kid(n, "init"))
<1>1. Whole(n, b) /\ Whole(n, c) /\ Whole(n, k) /\ Whole(n, i)
  BY LoopKid
<1>2. Whole(n, Again(n)) /\ Whole(n, Resume)
  BY LoopMarks
<1>3. Code(Kid(n, "cond") \o Kid(n, "body")) = c \o b
  <2>1. Kid(n, "cond") \in Seq(DOMAIN prog) /\ Kid(n, "body") \in Seq(DOMAIN prog)
    BY LoopKid
  <2> QED
    BY <2>1, CodeJoin
<1> HIDE DEF b, c, k, i
<1>4. Whole(n, ((b \o Resume) \o c) \o Again(n))
  <2>1. Whole(n, b \o Resume)
    BY <1>1, <1>2, LoopJoin
  <2>2. Whole(n, (b \o Resume) \o c)
    BY <1>1, <2>1, LoopJoin
  <2> QED
    BY <1>2, <2>2, LoopJoin
<1>5. Whole(n, (((c \o b) \o Resume) \o k) \o Again(n))
  <2>1. Whole(n, c \o b)
    BY <1>1, LoopJoin
  <2>2. Whole(n, (c \o b) \o Resume)
    BY <1>2, <2>1, LoopJoin
  <2>3. Whole(n, ((c \o b) \o Resume) \o k)
    BY <1>1, <2>2, LoopJoin
  <2> QED
    BY <1>2, <2>3, LoopJoin
<1>6. Whole(n, Turn(n))
  BY <1>3, <1>4, <1>5 DEF Turn, b, c, k
<1>7. Whole(n, <<>>)
  BY EmptyPiece DEF Whole
<1>8. Whole(n, Exit(n))
  BY <1>1, <1>7 DEF Exit, c
<1>9. Whole(n, i \o Again(n))
  BY <1>1, <1>2, LoopJoin
<1> QED
  BY <1>6, <1>8, <1>9 DEF i

LEMMA OperandPieces ==
  ASSUME prog \in Programs, NEW n \in DOMAIN prog, prog[n].kind \notin Loops
  PROVE  /\ Whole(n, Code(Operands(n)))
         /\ prog[n].kind = "assign" => Whole(n, Code(Kid(n, "rhs")) \o Put(n))
         /\ prog[n].kind = "compound" /\ ~OutOfOrder(n) =>
              Whole(n, Code(Kid(n, "rhs") \o Kid(n, "lhs")) \o Put(n))
<1> DEFINE S == DOMAIN prog
           l == Kid(n, "lhs")
           r == Kid(n, "rhs")
           N == Len(Parts(n))
<1>1. /\ l \in Seq(S) /\ r \in Seq(S) /\ Operands(n) \in Seq(S) /\ N \in Nat
      /\ prog[n].kind = "assign" => Stands(Parts(n), r, 0) /\ Stands(Parts(n), l, Len(r))
      /\ prog[n].kind # "assign" => Stands(Parts(n), l, 0) /\ Stands(Parts(n), r, Len(l))
  BY OperandPlaces, PartsType
<1>2. Whole(n, Code(Operands(n)))
  <2>1. PICK oc, ot, oe, ob, os, oa : ChildPlaces(n, oc, ot, oe, ob, os, oa)
    BY ChildrenPlaced
  <2>2. Stands(Parts(n), Operands(n), 0)
    BY <2>1 DEF ChildPlaces
  <2> QED
    BY <1>1, <2>2, PlacedPiece
<1> HIDE DEF l, r, N
<1>3. ASSUME prog[n].kind = "assign" PROVE Whole(n, Code(r) \o Put(n))
  <2>1. Len(r) \in Nat /\ 0 + Len(r) \in Nat /\ 0 + Len(r) <= Len(r) /\ Piece(n, Code(r), 0, 0 + Len(r))
    BY <1>1, <1>3, PlacedPiece
  <2>2. Piece(n, Put(n), Len(r), Len(r) + 1)
    BY <1>1, <1>3, PutPiece DEF l
  <2>3. Piece(n, Code(r) \o Put(n), 0, N)
    BY <2>1, <2>2, Join DEF N
  <2> QED
    BY <1>1, <2>3 DEF Whole
<1>4. ASSUME prog[n].kind = "compound", ~OutOfOrder(n) PROVE Whole(n, Code(r \o l) \o Put(n))
  <2>1. Stands(Parts(n), l, 0) /\ Stands(Parts(n), r, Len(l)) /\ prog[n].kind \in {"assign", "compound"}
    BY <1>1, <1>4
  <2>2. Piece(n, Code(l), 0, 0 + Len(l)) /\ Piece(n, Code(r), Len(l), Len(l) + Len(r)) /\ Len(l) + Len(r) \in Nat
    BY <1>1, <2>1, PlacedPiece
  <2>3. \A i \in 1 .. Len(r) : ~Composite(r[i])
    <3>1. CASE "rhs" \in DOMAIN prog[n]
      <4>1. Len(r) = 1 /\ r[1] = prog[n].rhs /\ ~Composite(prog[n].rhs)
        BY <1>4, <3>1, KidFacts DEF r, OutOfOrder
      <4> QED
        BY <4>1
    <3>2. CASE "rhs" \notin DOMAIN prog[n]
      BY <3>2, KidFacts DEF r
    <3> QED
      BY <3>1, <3>2
  <2>4. \A i \in 1 .. Len(l) : ~Composite(l[i])
    <3>1. "lhs" \in DOMAIN prog[n] /\ prog[prog[n].lhs].kind = "var"
      BY <1>4, ProgramsAssumption
    <3>2. Len(l) = 1 /\ l[1] = prog[n].lhs
      BY <3>1, KidFacts DEF l
    <3> QED
      BY <3>1, <3>2 DEF Composite
  <2>5. /\ \A i \in DOMAIN Code(r) : ~Changes(Code(r)[i])
        /\ \A i \in DOMAIN Code(l) : ~Changes(Code(l)[i])
    BY <1>1, <2>3, <2>4, QuietCode
  <2>6. Code(r) \in Seq(Entries) /\ Code(l) \in Seq(Entries) /\ Code(r \o l) = Code(r) \o Code(l)
    BY <1>1, CodeType, CodeJoin
  <2>7. \A i \in DOMAIN (Code(r) \o Code(l)) : ~Changes((Code(r) \o Code(l))[i])
    BY <2>5, <2>6, QuietJoin
  <2>8. 0 \in Nat
    OBVIOUS
  <2>9. Piece(n, Code(r) \o Code(l), 0, N)
    BY <2>2, <2>5, <2>8, Join DEF N
  <2>10. Piece(n, Put(n), 0, 0 + 1)
    BY <1>4, <2>1, PutPiece DEF l
  <2>11. Piece(n, (Code(r) \o Code(l)) \o Put(n), 0, N)
    BY <1>1, <2>7, <2>8, <2>9, <2>10, Join DEF N
  <2> QED
    BY <1>1, <2>6, <2>8, <2>11 DEF Whole
<1> QED
  BY <1>2, <1>3, <1>4 DEF l, r

LEMMA CallPiece ==
  ASSUME prog \in Programs, NEW n \in DOMAIN prog, prog[n].kind = "call", ~OutOfOrder(n)
  PROVE  Whole(n, Code(Kid(n, "lhs") \o Arguments(n)))
<1> DEFINE S == DOMAIN prog
           l == Kid(n, "lhs")
           g == List(n, "args")
           N == Len(Parts(n))
<1>0. prog[n].kind \notin Loops /\ prog[n].kind # "assign"
  BY DEF Loops
<1>1. l \in Seq(S) /\ N \in Nat /\ Stands(Parts(n), l, 0) /\ Len(l) <= Len(Operands(n)) /\ Operands(n) \in Seq(S)
  BY <1>0, OperandPlaces, PartsType
<1>2. PICK oc, ot, oe, ob, os, oa : ChildPlaces(n, oc, ot, oe, ob, os, oa)
  BY <1>0, ChildrenPlaced
<1>3. Stands(Parts(n), g, oa) /\ Len(Operands(n)) <= oa /\ g \in Seq(S)
  BY <1>2, ListType DEF ChildPlaces
<1>4. \A i \in DOMAIN g : ~Composite(g[i])
  <2>1. "args" \in DOMAIN prog[n] => g = prog[n].args
    BY DEF List
  <2>2. "args" \notin DOMAIN prog[n] => DOMAIN g = {}
    BY DEF List
  <2> QED
    BY <2>1, <2>2 DEF OutOfOrder
<1>5. Arguments(n) \in Seq(S)
  <2>1. Arguments(n) = [i \in 1 .. Len(g) |-> g[Len(g) + 1 - i]]
    BY <1>3 DEF Arguments
  <2>2. \A i \in 1 .. Len(g) : g[Len(g) + 1 - i] \in S
    <3>1. \A i \in 1 .. Len(g) : Len(g) + 1 - i \in 1 .. Len(g)
      BY <1>3
    <3> QED
      BY <1>3, <3>1
  <2>3. Arguments(n) \in [1 .. Len(g) -> S]
    BY <2>1, <2>2
  <2> QED
    BY <1>3, <2>3
<1>6. Piece(n, Code(Arguments(n)), oa, oa + Len(g))
  BY <1>3, <1>4, ArgumentsPiece
<1>7. Piece(n, Code(l), 0, 0 + Len(l)) /\ 0 + Len(l) \in Nat
  BY <1>1, PlacedPiece
<1>8. oa \in Nat /\ 0 + Len(l) <= oa
  <2>1. oa \in Nat
    BY <1>3 DEF Stands
  <2>2. Len(l) \in Nat /\ Len(Operands(n)) \in Nat
    BY <1>1
  <2> QED
    BY <1>1, <1>3, <2>1, <2>2
<1> HIDE DEF l, g, N
<1>9. Piece(n, Code(l) \o Code(Arguments(n)), 0, N)
  BY <1>6, <1>7, <1>8, Join DEF N
<1>10. Code(l \o Arguments(n)) = Code(l) \o Code(Arguments(n))
  BY <1>1, <1>5, CodeJoin
<1> QED
  BY <1>1, <1>9, <1>10 DEF Whole, l

LEMMA BranchPieces ==
  ASSUME prog \in Programs, NEW n \in DOMAIN prog, prog[n].kind \notin Loops
  PROVE  /\ Whole(n, Code(List(n, "stmts")))
         /\ \A f \in {"then_body", "else_body"} : Whole(n, Code(Kid(n, "cond") \o Kid(n, f)))
         /\ Whole(n, Code(Kid(n, "cond")) \o Code(Kid(n, "body")))
<1> DEFINE S == DOMAIN prog
           c == Kid(n, "cond")
           N == Len(Parts(n))
<1>1. PICK oc, ot, oe, ob, os, oa : ChildPlaces(n, oc, ot, oe, ob, os, oa)
  BY ChildrenPlaced
<1>2. c \in Seq(S) /\ List(n, "stmts") \in Seq(S) /\ N \in Nat
  BY KidType, ListType, PartsType DEF Fields
<1>3. Whole(n, Code(List(n, "stmts")))
  BY <1>1, <1>2, PlacedPiece DEF ChildPlaces
<1>4. Piece(n, Code(c), oc, oc + Len(c)) /\ oc + Len(c) \in Nat
  BY <1>1, <1>2, PlacedPiece DEF ChildPlaces
<1> HIDE DEF c, N
<1>5. ASSUME NEW f \in Fields, NEW o, Stands(Parts(n), Kid(n, f), o), oc + Len(c) <= o
      PROVE  Whole(n, Code(c) \o Code(Kid(n, f))) /\ Code(c \o Kid(n, f)) = Code(c) \o Code(Kid(n, f))
  <2>1. Kid(n, f) \in Seq(S)
    BY KidType
  <2>2. Piece(n, Code(Kid(n, f)), o, o + Len(Kid(n, f))) /\ o \in Nat
    BY <1>5, <2>1, PlacedPiece
  <2>3. Piece(n, Code(c) \o Code(Kid(n, f)), 0, N)
    BY <1>4, <1>5, <2>2, Join DEF N
  <2>4. Code(c \o Kid(n, f)) = Code(c) \o Code(Kid(n, f))
    BY <1>2, <2>1, CodeJoin
  <2> QED
    BY <1>2, <2>3, <2>4 DEF Whole
<1>6. "then_body" \in Fields /\ "else_body" \in Fields /\ "body" \in Fields
  BY DEF Fields
<1>7. /\ Stands(Parts(n), Kid(n, "then_body"), ot) /\ oc + Len(c) <= ot
      /\ Stands(Parts(n), Kid(n, "else_body"), oe) /\ oc + Len(c) <= oe
      /\ Stands(Parts(n), Kid(n, "body"), ob) /\ oc + Len(c) <= ob
  BY <1>1 DEF ChildPlaces, c
<1>8. Whole(n, Code(c \o Kid(n, "then_body"))) /\ Whole(n, Code(c \o Kid(n, "else_body")))
  BY <1>5, <1>6, <1>7
<1>9. Whole(n, Code(c) \o Code(Kid(n, "body")))
  BY <1>5, <1>6, <1>7
<1> QED
  BY <1>3, <1>8, <1>9 DEF c

-----------------------------------------------------------------------------
(* Codes that have been placed: parts of them, and one before another.     *)
(* Q stands in R from the place o on. *)
StandsIn(R, Q, o) ==
  /\ o \in Nat /\ DOMAIN R \subseteq Int /\ DOMAIN Q \subseteq Nat
  /\ \A i \in DOMAIN Q : o + i \in DOMAIN R /\ Q[i] = R[o + i]

Moved(Q, o, sp, sq) == \A i \in DOMAIN Q : sq[i] = sp[o + i]

(* What is left of a code that has been placed stays placed. *)
LEMMA PlacingPart ==
  ASSUME NEW t, NEW pc, NEW lp, NEW R, NEW sp, Placing(t, pc, lp, R, sp), NEW Q, NEW o, StandsIn(R, Q, o)
  PROVE  \E sq : Placing(t, pc, lp, Q, sq) /\ Moved(Q, o, sp, sq)
<1> DEFINE q == [i \in DOMAIN Q |-> sp[o + i]]
<1>0. /\ o \in Nat /\ DOMAIN R \subseteq Int /\ DOMAIN Q \subseteq Nat
      /\ \A i \in DOMAIN Q : o + i \in DOMAIN R /\ Q[i] = R[o + i]
  BY DEF StandsIn
<1>1. /\ sp \in [DOMAIN R -> 2 .. pc]
      /\ \A i \in DOMAIN R : Fits(t, R[i], sp[i])
      /\ \A i, j \in DOMAIN R : i < j /\ Changes(R[i]) =>
           \A l, m : Reaches(t, pc, R[i], sp[i], l) /\ Reaches(t, pc, R[j], sp[j], m) => Follow(lp, l, m)
  BY DEF Placing
<1>2. \A i \in DOMAIN Q : q[i] = sp[o + i] /\ Q[i] = R[o + i] /\ o + i \in DOMAIN R
  BY <1>0
<1>3. q \in [DOMAIN Q -> 2 .. pc]
  BY <1>0, <1>1
<1>4. \A i, j \in DOMAIN Q : i < j => o + i < o + j
  BY <1>0
<1> HIDE DEF q
<1>5. \A i \in DOMAIN Q : Fits(t, Q[i], q[i])
  BY <1>1, <1>2
<1>6. ASSUME NEW i \in DOMAIN Q, NEW j \in DOMAIN Q, i < j, Changes(Q[i]), NEW l, NEW m,
             Reaches(t, pc, Q[i], q[i], l), Reaches(t, pc, Q[j], q[j], m)
      PROVE  Follow(lp, l, m)
  <2>1. PICK x \in DOMAIN R : x = o + i
    BY <1>2
  <2>2. PICK y \in DOMAIN R : y = o + j
    BY <1>2
  <2>3. x < y
    BY <1>4, <1>6, <2>1, <2>2
  <2>4. Changes(R[x]) /\ Reaches(t, pc, R[x], sp[x], l) /\ Reaches(t, pc, R[y], sp[y], m)
    BY <1>2, <1>6, <2>1, <2>2
  <2> QED
    BY <1>1, <2>3, <2>4
<1>7. Placing(t, pc, lp, Q, q)
  BY <1>3, <1>5, <1>6 DEF Placing
<1>8. Moved(Q, o, sp, q)
  BY <1>2 DEF Moved
<1> QED
  BY <1>7, <1>8

(* The numbers sp and sq of two codes, one after the other. *)
Along(n, N, sp, sq) == [i \in 1 .. N |-> IF i <= n THEN sp[i] ELSE sq[i - n]]

Chained(c, d, e) ==
  /\ Len(c) \in Nat /\ Len(d) \in Nat
  /\ DOMAIN c = 1 .. Len(c) /\ DOMAIN d = 1 .. Len(d) /\ DOMAIN e = 1 .. Len(c) + Len(d)
  /\ \A i \in 1 .. Len(c) : e[i] = c[i]
  /\ \A i \in 1 .. Len(d) : e[Len(c) + i] = d[i]

LEMMA ChainedConcat ==
  ASSUME NEW S, NEW c \in Seq(S), NEW d \in Seq(S)
  PROVE  Chained(c, d, c \o d) /\ c \o d \in Seq(S)
BY DEF Chained

(* Nothing d reaches comes before what c changes. *)
Leads(t, pc, lp, c, sp, d, sq) ==
  \A i \in DOMAIN c, j \in DOMAIN d : Changes(c[i]) =>
    \A l, m : Reaches(t, pc, c[i], sp[i], l) /\ Reaches(t, pc, d[j], sq[j], m) => Follow(lp, l, m)

FromBoth(c, sp, d, sq, e, z) ==
  \A i \in DOMAIN e : \/ \E j \in DOMAIN c : e[i] = c[j] /\ z[i] = sp[j]
                      \/ \E j \in DOMAIN d : e[i] = d[j] /\ z[i] = sq[j]

(* Two codes that have been placed, one before the other. *)
LEMMA PlacingJoin ==
  ASSUME NEW t, NEW pc, NEW lp, NEW c, NEW d, NEW e, Chained(c, d, e), NEW sp, NEW sq,
         Placing(t, pc, lp, c, sp), Placing(t, pc, lp, d, sq), Leads(t, pc, lp, c, sp, d, sq)
  PROVE  \E z : Placing(t, pc, lp, e, z) /\ FromBoth(c, sp, d, sq, e, z)
<1> DEFINE z == Along(Len(c), Len(c) + Len(d), sp, sq)
<1>1. /\ Len(c) \in Nat /\ Len(d) \in Nat
      /\ DOMAIN c = 1 .. Len(c) /\ DOMAIN d = 1 .. Len(d) /\ DOMAIN e = 1 .. Len(c) + Len(d)
      /\ \A i \in 1 .. Len(c) : e[i] = c[i]
      /\ \A i \in 1 .. Len(d) : e[Len(c) + i] = d[i]
  BY DEF Chained
<1>2. z = [i \in DOMAIN e |-> IF i <= Len(c) THEN sp[i] ELSE sq[i - Len(c)]]
  BY <1>1 DEF Along
<1>3. /\ sp \in [DOMAIN c -> 2 .. pc] /\ sq \in [DOMAIN d -> 2 .. pc]
      /\ \A i \in DOMAIN c : Fits(t, c[i], sp[i])
      /\ \A i \in DOMAIN d : Fits(t, d[i], sq[i])
      /\ \A i, j \in DOMAIN c : i < j /\ Changes(c[i]) =>
           \A l, m : Reaches(t, pc, c[i], sp[i], l) /\ Reaches(t, pc, c[j], sp[j], m) => Follow(lp, l, m)
      /\ \A i, j \in DOMAIN d : i < j /\ Changes(d[i]) =>
           \A l, m : Reaches(t, pc, d[i], sq[i], l) /\ Reaches(t, pc, d[j], sq[j], m) => Follow(lp, l, m)
  BY DEF Placing
<1> HIDE DEF z
<1>4. \A i \in DOMAIN e : z[i] = IF i <= Len(c) THEN sp[i] ELSE sq[i - Len(c)]
  BY <1>2
<1>5. ASSUME NEW i \in DOMAIN e
      PROVE  \/ i \in DOMAIN c /\ z[i] = sp[i] /\ e[i] = c[i]
             \/ \E j \in DOMAIN d : i = Len(c) + j /\ z[i] = sq[j] /\ e[i] = d[j]
  <2>1. CASE i <= Len(c)
    BY <1>1, <1>4, <2>1
  <2>2. CASE ~(i <= Len(c))
    <3>1. PICK j : j = i - Len(c)
      OBVIOUS
    <3>2. j \in 1 .. Len(d) /\ i = Len(c) + j
      BY <1>1, <2>2, <3>1
    <3>3. z[i] = sq[j]
      BY <1>4, <2>2, <3>1
    <3> QED
      BY <1>1, <3>2, <3>3
  <2> QED
    BY <2>1, <2>2
<1>6. \A i \in DOMAIN e : z[i] \in 2 .. pc /\ Fits(t, e[i], z[i])
  BY <1>3, <1>5
<1>7. z \in [DOMAIN e -> 2 .. pc]
  BY <1>2, <1>6
<1>8. ASSUME NEW i \in DOMAIN e, NEW j \in DOMAIN e, i < j, Changes(e[i]), NEW l, NEW m,
             Reaches(t, pc, e[i], z[i], l), Reaches(t, pc, e[j], z[j], m)
      PROVE  Follow(lp, l, m)
  <2>1. CASE i \in DOMAIN c /\ z[i] = sp[i] /\ e[i] = c[i]
    <3>1. CASE j \in DOMAIN c /\ z[j] = sp[j] /\ e[j] = c[j]
      BY <1>3, <1>8, <2>1, <3>1
    <3>2. CASE \E y \in DOMAIN d : j = Len(c) + y /\ z[j] = sq[y] /\ e[j] = d[y]
      BY <1>8, <2>1, <3>2 DEF Leads
    <3> QED
      BY <1>5, <3>1, <3>2
  <2>2. CASE \E x \in DOMAIN d : i = Len(c) + x /\ z[i] = sq[x] /\ e[i] = d[x]
    <3>1. PICK x \in DOMAIN d : i = Len(c) + x /\ z[i] = sq[x] /\ e[i] = d[x]
      BY <2>2
    <3>2. ~(j \in DOMAIN c)
      BY <1>1, <1>8, <3>1
    <3>3. PICK y \in DOMAIN d : j = Len(c) + y /\ z[j] = sq[y] /\ e[j] = d[y]
      BY <1>5, <3>2
    <3>4. x < y
      BY <1>1, <1>8, <3>1, <3>3
    <3> QED
      BY <1>3, <1>8, <3>1, <3>3, <3>4
  <2> QED
    BY <1>5, <2>1, <2>2
<1>9. Placing(t, pc, lp, e, z)
  BY <1>6, <1>7, <1>8 DEF Placing
<1>10. FromBoth(c, sp, d, sq, e, z)
  BY <1>5 DEF FromBoth
<1> QED
  BY <1>9, <1>10

LEMMA WholeUnfolds ==
  ASSUME prog \in Programs, NEW pc \in Nat, NEW t, NEW sn, NEW lp, Trail(t, pc, <<>>, sn, lp),
         NEW k \in 2 .. pc, NEW code, Whole(t[k].node, code)
  PROVE  Unfolds(t, pc, lp, k, code)
BY PieceUnfolds DEF Whole

(* The statements of a switch from a case label on. *)
LEMMA SelectedPiece ==
  ASSUME prog \in Programs, NEW n \in DOMAIN prog, prog[n].kind = "switch", NEW s \in Selected(n)
  PROVE  prog[n].body \in DOMAIN prog /\ Whole(prog[n].body, s) /\ s \in Seq(Entries)
<1> DEFINE b == prog[n].body
           p == List(b, "stmts")
           S == DOMAIN prog
           e == Entry("endswitch", n)
<1>1. b \in S
  BY ProgramsAssumption DEF Fields
<1>2. p \in Seq(S)
  BY <1>1, ListType
<1> HIDE DEF b
<1>3. Whole(b, <<>>) /\ <<>> \in Seq(Entries)
  BY <1>1, EmptyPiece DEF Whole
<1>4. CASE s = <<>>
  BY <1>1, <1>3, <1>4 DEF b
<1>5. ASSUME NEW i \in DOMAIN p, s = Code(SubSeq(p, i, Len(p))) \o <<e>>
      PROVE  Whole(b, s) /\ s \in Seq(Entries)
  <2> DEFINE q == SubSeq(p, i, Len(p))
  <2>1. prog[b].kind \notin Loops
    <3>1. ASSUME prog[b].kind \in Loops PROVE FALSE
      <4>1. "stmts" \notin DOMAIN prog[b]
        BY <1>1, <3>1, ProgramsAssumption
      <4>2. p = <<>>
        BY <4>1 DEF List
      <4> QED
        BY <1>5, <4>2
    <3> QED
      BY <3>1
  <2>2. PICK oc, ot, oe, ob, os, oa : ChildPlaces(b, oc, ot, oe, ob, os, oa)
    BY <1>1, <2>1, ChildrenPlaced
  <2>3. Stands(Parts(b), p, os)
    BY <2>2 DEF ChildPlaces
  <2>4. i \in 1 .. Len(p) /\ Len(p) \in Nat
    BY <1>2
  <2>5. q \in Seq(S) /\ Len(q) = Len(p) + 1 - i /\ \A j \in 1 .. Len(q) : q[j] = p[i + j - 1]
    BY <1>2, <2>4
  <2> HIDE DEF q, p
  <2>6. Stands(Parts(b), q, os + i - 1)
    <3>1. os \in Nat /\ \A j \in 1 .. Len(p) : os + j \in 1 .. Len(Parts(b)) /\ Parts(b)[os + j] = p[j]
      BY <2>3 DEF Stands
    <3>2. os + i - 1 \in Nat
      BY <2>4, <3>1
    <3>3. ASSUME NEW j \in 1 .. Len(q)
          PROVE  os + i - 1 + j \in 1 .. Len(Parts(b)) /\ Parts(b)[os + i - 1 + j] = q[j]
      <4> DEFINE h == i + j - 1
      <4>1. h \in 1 .. Len(p) /\ os + h = os + i - 1 + j
        BY <2>4, <2>5, <3>1
      <4>2. q[j] = p[h]
        BY <2>5
      <4> HIDE DEF h
      <4> QED
        BY <3>1, <4>1, <4>2
    <3> QED
      BY <3>2, <3>3 DEF Stands
  <2>7. PICK lo \in Nat, hi \in Nat : Piece(b, Code(q), lo, hi)
    BY <1>1, <2>5, <2>6, PlacedPiece DEF Whole
  <2>8. e \in Entries /\ e.does = "endswitch"
    BY DEF Entry, Entries
  <2>9. Piece(b, <<e>>, hi, hi)
    BY <1>1, <2>8, MarkPiece
  <2>10. Piece(b, Code(q) \o <<e>>, 0, Len(Parts(b)))
    BY <1>1, <2>7, <2>9, Join
  <2>11. Code(q) \o <<e>> \in Seq(Entries)
    <3>1. <<e>> \in Seq(Entries) /\ Code(q) \in Seq(Entries)
      BY <2>5, <2>8, CodeType
    <3> QED
      BY <3>1, ConcatType
  <2> QED
    BY <1>1, <1>5, <2>10, <2>11, PartsType DEF Whole, q
<1>6. s = <<>> \/ \E i \in DOMAIN p : s = Code(SubSeq(p, i, Len(p))) \o <<e>>
  BY DEF Selected, b
<1> QED
  BY <1>1, <1>4, <1>5, <1>6 DEF b

(* Something in R may come to it. *)
Pending(t, pc, R, sp, l) == \E i \in DOMAIN R : Reaches(t, pc, R[i], sp[i], l)

LEMMA SwitchUnfolds ==
  ASSUME prog \in Programs, NEW pc \in Nat, NEW t, NEW sn, NEW lp, Trail(t, pc, <<>>, sn, lp),
         NEW k \in 2 .. pc, prog[t[k].node].kind = "switch", NEW s \in Selected(t[k].node)
  PROVE  Unfolds(t, pc, lp, k, Code(Kid(t[k].node, "cond")) \o s)
<1> DEFINE n == t[k].node
           b == prog[n].body
           c == Code(Kid(n, "cond"))
           d == Code(Kid(n, "body"))
           e == c \o d
<1>1. n \in DOMAIN prog
  BY TrailType
<1>2. b \in DOMAIN prog /\ Whole(b, s) /\ s \in Seq(Entries)
  BY <1>1, SelectedPiece
<1>3. /\ c \in Seq(Entries) /\ d \in Seq(Entries) /\ Len(d) = 1 /\ d[1].does = "node" /\ d[1].node = b
  <2>1. Kid(n, "cond") \in Seq(DOMAIN prog) /\ Kid(n, "body") \in Seq(DOMAIN prog)
    BY <1>1, KidType DEF Fields
  <2>2. "body" \in DOMAIN prog[n]
    BY <1>1, ProgramsAssumption
  <2>3. Len(Kid(n, "body")) = 1 /\ Kid(n, "body")[1] = b
    BY <2>2, KidFacts
  <2>4. 1 \in 1 .. Len(Kid(n, "body"))
    BY <2>3
  <2> QED
    BY <2>1, <2>3, <2>4, CodeType
<1>4. Whole(n, e)
  <2>1. prog[n].kind \notin Loops
    BY DEF Loops
  <2> QED
    BY <1>1, <2>1, BranchPieces
<1>5. PICK sp : Placing(t, pc, lp, e, sp) /\ Inside(t, pc, e, sp, k)
  BY <1>4, WholeUnfolds DEF Unfolds
<1> HIDE DEF c, d, b, n
<1>6. Chained(c, d, e)
  BY <1>3, ChainedConcat
<1> HIDE DEF e
<1>7. /\ Len(c) \in Nat /\ DOMAIN c = 1 .. Len(c) /\ DOMAIN e = 1 .. Len(c) + 1
      /\ \A i \in 1 .. Len(c) : e[i] = c[i]
      /\ e[Len(c) + 1] = d[1]
  BY <1>3, <1>6 DEF Chained
<1> DEFINE last == Len(c) + 1
           kb == sp[last]
<1>8. last \in DOMAIN e /\ \A i \in DOMAIN c : i \in DOMAIN e /\ i < last /\ e[i] = c[i]
  BY <1>7
<1>9. kb \in 2 .. pc /\ t[kb].node = b /\ Active(e[last])
  <2>1. Active(e[last]) /\ e[last].node = b
    BY <1>3, <1>7 DEF Active
  <2> QED
    BY <1>5, <1>8, <2>1 DEF Placing, Fits
<1>10. PICK sq : Placing(t, pc, lp, s, sq) /\ Inside(t, pc, s, sq, kb)
  BY <1>2, <1>9, WholeUnfolds DEF Unfolds
<1> HIDE DEF last, kb
<1>11. PICK sc : Placing(t, pc, lp, c, sc) /\ Moved(c, 0, sp, sc)
  <2>1. StandsIn(e, c, 0)
    BY <1>7 DEF StandsIn
  <2> QED
    BY <1>5, <2>1, PlacingPart
<1>12. \A i \in DOMAIN c : sc[i] = sp[i]
  BY <1>7, <1>11 DEF Moved
<1>13. \A j \in DOMAIN s : \A m : Reaches(t, pc, s[j], sq[j], m) => Reaches(t, pc, e[last], sp[last], m)
  BY <1>9, <1>10 DEF Inside, Reaches, kb
<1>a. ASSUME NEW i \in DOMAIN c, NEW j \in DOMAIN s, Changes(c[i]), NEW l, NEW m,
             Reaches(t, pc, c[i], sc[i], l), Reaches(t, pc, s[j], sq[j], m)
      PROVE  Follow(lp, l, m)
  <2>1. Reaches(t, pc, e[last], sp[last], m) /\ Reaches(t, pc, e[i], sp[i], l)
    BY <1>8, <1>12, <1>13, <1>a
  <2> QED
    BY <1>5, <1>8, <1>a, <2>1 DEF Placing
<1>14. Leads(t, pc, lp, c, sc, s, sq)
  BY <1>a DEF Leads
<1>15. Chained(c, s, c \o s) /\ c \o s \in Seq(Entries)
  BY <1>2, <1>3, ChainedConcat
<1>16. PICK f : f = c \o s
  OBVIOUS
<1>17. PICK z : Placing(t, pc, lp, f, z) /\ FromBoth(c, sc, s, sq, f, z)
  <2>1. Chained(c, s, f)
    BY <1>15, <1>16
  <2> QED
    BY <1>10, <1>11, <1>14, <2>1, PlacingJoin
<1>18. Inside(t, pc, f, z, k)
  <2> SUFFICES ASSUME NEW i \in DOMAIN f, NEW l, Reaches(t, pc, f[i], z[i], l) PROVE Within(t, pc, k, l)
    BY DEF Inside
  <2>1. CASE \E j \in DOMAIN c : f[i] = c[j] /\ z[i] = sc[j]
    BY <1>5, <1>8, <1>12, <2>1 DEF Inside
  <2>2. CASE \E j \in DOMAIN s : f[i] = s[j] /\ z[i] = sq[j]
    BY <1>5, <1>8, <1>13, <2>2 DEF Inside
  <2> QED
    BY <1>17, <2>1, <2>2 DEF FromBoth
<1> QED
  BY <1>15, <1>16, <1>17, <1>18 DEF Unfolds, c, n

(* Whatever the code of a node does is placed below the visit of the node, *)
(* unless its operands are out of order.                                   *)
LEMMA UnfoldPlaced ==
  ASSUME prog \in Programs, NEW pc \in Nat, NEW t, NEW sn, NEW lp, Trail(t, pc, <<>>, sn, lp),
         NEW k \in 2 .. pc, NEW code \in Unfold(t[k].node), ~OutOfOrder(t[k].node)
  PROVE  Unfolds(t, pc, lp, k, code)
<1> DEFINE n == t[k].node
           kind == prog[n].kind
<1>1. n \in DOMAIN prog
  BY TrailType
<1>2. CASE kind = "switch"
  <2>1. \E s \in Selected(n) : code = Code(Kid(n, "cond")) \o s
    BY <1>2 DEF Unfold
  <2> QED
    BY <1>2, <2>1, SwitchUnfolds
<1>3. CASE kind \in {"while", "for"}
  <2>1. kind \in Loops /\ code = Code(Kid(n, "init")) \o Again(n)
    BY <1>3 DEF Unfold, Loops
  <2> QED
    BY <1>1, <2>1, TurnPiece, WholeUnfolds
<1>4. CASE kind = "do"
  <2>1. kind \in Loops /\ code = Turn(n)
    BY <1>4 DEF Unfold, Loops
  <2> QED
    BY <1>1, <2>1, TurnPiece, WholeUnfolds
<1>5. CASE kind = "assign"
  <2>1. kind \notin Loops /\ code = Code(Kid(n, "rhs")) \o Put(n)
    BY <1>5 DEF Unfold, Loops
  <2> QED
    BY <1>1, <1>5, <2>1, OperandPieces, WholeUnfolds
<1>6. CASE kind = "compound"
  <2>1. kind \notin Loops /\ code = Code(Kid(n, "rhs") \o Kid(n, "lhs")) \o Put(n)
    BY <1>6 DEF Unfold, Loops
  <2> QED
    BY <1>1, <1>6, <2>1, OperandPieces, WholeUnfolds
<1>7. CASE kind = "call"
  <2>1. code = Code(Kid(n, "lhs") \o Arguments(n))
    BY <1>7 DEF Unfold
  <2> QED
    BY <1>1, <1>7, <2>1, CallPiece, WholeUnfolds
<1>8. CASE kind \in {"num", "expr", "label", "case"}
  <2>1. kind \notin Loops /\ code = Code(Operands(n))
    BY <1>8 DEF Unfold, Loops
  <2> QED
    BY <1>1, <2>1, OperandPieces, WholeUnfolds
<1>9. CASE kind = "addr"
  <2>1. code = <<>>
    BY <1>9 DEF Unfold
  <2> QED
    BY <1>1, <2>1, EmptyPiece, PieceUnfolds
<1>10. CASE kind = "block"
  <2>1. kind \notin Loops /\ code = Code(List(n, "stmts"))
    BY <1>10 DEF Unfold, Loops
  <2> QED
    BY <1>1, <2>1, BranchPieces, WholeUnfolds
<1>11. CASE kind = "if"
  <2>1. /\ kind \notin Loops
        /\ \E branch \in {"then_body", "else_body"} : code = Code(Kid(n, "cond") \o Kid(n, branch))
    BY <1>11 DEF Unfold, Loops
  <2> QED
    BY <1>1, <2>1, BranchPieces, WholeUnfolds
<1>12. CASE kind \notin {"switch", "while", "for", "do", "assign", "compound", "call", "num", "expr",
                         "label", "case", "addr", "block", "if"}
  BY <1>12 DEF Unfold
<1> QED
  BY <1>2, <1>3, <1>4, <1>5, <1>6, <1>7, <1>8, <1>9, <1>10, <1>11, <1>12

-----------------------------------------------------------------------------
(* What is left to execute, when its head gives way to code, when entries  *)
(* are dropped and when the next statement begins.                         *)
(* R2 is placed, and reaches nothing that R does not reach. *)
Shrinks(t, pc, lp, R, sp, R2, sq) ==
  Placing(t, pc, lp, R2, sq) /\ \A l : Pending(t, pc, R2, sq, l) => Pending(t, pc, R, sp, l)

LEMMA PartShrinks ==
  ASSUME NEW t, NEW pc, NEW lp, NEW R, NEW sp, Placing(t, pc, lp, R, sp), NEW Q, NEW o, StandsIn(R, Q, o)
  PROVE  \E sq : Shrinks(t, pc, lp, R, sp, Q, sq)
<1>1. PICK sq : Placing(t, pc, lp, Q, sq) /\ Moved(Q, o, sp, sq)
  BY PlacingPart
<1>2. \A l : Pending(t, pc, Q, sq, l) => Pending(t, pc, R, sp, l)
  BY <1>1 DEF Pending, Moved, StandsIn
<1> QED
  BY <1>1, <1>2 DEF Shrinks

(* The head of R gives way to a code below the visit it is placed at. *)
LEMMA HeadShrinks ==
  ASSUME NEW t, NEW pc, NEW lp, NEW R, NEW sp, Placing(t, pc, lp, R, sp),
         NEW N \in Nat, DOMAIN R = 1 .. N + 1, Active(R[1]),
         NEW code, Unfolds(t, pc, lp, sp[1], code),
         Changes(R[1]) \/ \A i \in DOMAIN code : ~Changes(code[i]),
         NEW d, DOMAIN d = 1 .. N, \A i \in 1 .. N : d[i] = R[1 + i],
         NEW R2, Chained(code, d, R2)
  PROVE  \E sq : Shrinks(t, pc, lp, R, sp, R2, sq)
<1>1. PICK sc : Placing(t, pc, lp, code, sc) /\ Inside(t, pc, code, sc, sp[1])
  BY DEF Unfolds
<1>2. \A i \in DOMAIN d : 1 + i \in DOMAIN R /\ d[i] = R[1 + i] /\ 1 < 1 + i
  OBVIOUS
<1>3. PICK sd : Placing(t, pc, lp, d, sd) /\ Moved(d, 1, sp, sd)
  <2>1. StandsIn(R, d, 1)
    BY <1>2 DEF StandsIn
  <2> QED
    BY <2>1, PlacingPart
<1>4. \A i \in DOMAIN d : sd[i] = sp[1 + i]
  BY <1>3 DEF Moved
<1>5. 1 \in DOMAIN R
  OBVIOUS
<1>6. \A i \in DOMAIN code : \A l : Reaches(t, pc, code[i], sc[i], l) => Reaches(t, pc, R[1], sp[1], l)
  BY <1>1 DEF Inside, Reaches
<1>7. ASSUME NEW i \in DOMAIN code, NEW j \in DOMAIN d, Changes(code[i]), NEW l, NEW m,
             Reaches(t, pc, code[i], sc[i], l), Reaches(t, pc, d[j], sd[j], m)
      PROVE  Follow(lp, l, m)
  <2>1. Changes(R[1]) /\ Reaches(t, pc, R[1], sp[1], l)
    BY <1>6, <1>7
  <2>2. PICK x \in DOMAIN R : x = 1 + j /\ 1 < x
    BY <1>2
  <2>3. Reaches(t, pc, R[x], sp[x], m)
    BY <1>2, <1>4, <1>7, <2>2
  <2> QED
    BY <1>5, <2>1, <2>2, <2>3 DEF Placing
<1>8. Leads(t, pc, lp, code, sc, d, sd)
  BY <1>7 DEF Leads
<1>9. PICK z : Placing(t, pc, lp, R2, z) /\ FromBoth(code, sc, d, sd, R2, z)
  BY <1>1, <1>3, <1>8, PlacingJoin
<1>10. ASSUME NEW l, Pending(t, pc, R2, z, l) PROVE Pending(t, pc, R, sp, l)
  <2>1. PICK i \in DOMAIN R2 : Reaches(t, pc, R2[i], z[i], l)
    BY <1>10 DEF Pending
  <2>2. CASE \E j \in DOMAIN code : R2[i] = code[j] /\ z[i] = sc[j]
    BY <1>5, <1>6, <2>1, <2>2 DEF Pending
  <2>3. CASE \E j \in DOMAIN d : R2[i] = d[j] /\ z[i] = sd[j]
    BY <1>2, <1>4, <2>1, <2>3 DEF Pending
  <2> QED
    BY <1>9, <2>2, <2>3 DEF FromBoth
<1> QED
  BY <1>9, <1>10 DEF Shrinks

(* What is left to execute: kont, then the statements of the body behind   *)
(* the one that runs.                                                      *)
RestOf(ko, tp) ==
  [i \in 1 .. Len(ko) + Len(Body) - tp |-> IF i <= Len(ko) THEN ko[i] ELSE Entry("node", Body[tp + i - Len(ko)])]

LEMMA BodyType ==
  ASSUME prog \in Programs
  PROVE  /\ 1 \in DOMAIN prog /\ prog[1].kind = "block" /\ Body = List(1, "stmts")
         /\ Body \in Seq(DOMAIN prog) /\ Len(Body) \in Nat /\ DOMAIN Body = 1 .. Len(Body)
<1>1. 1 \in DOMAIN prog /\ prog[1].kind = "block" /\ "stmts" \in DOMAIN prog[1]
  BY ProgramsAssumption
<1>2. Body = List(1, "stmts")
  BY <1>1 DEF Body, List
<1>3. Body \in Seq(DOMAIN prog)
  BY <1>1, <1>2, ListType
<1> QED
  BY <1>1, <1>2, <1>3

RestFacts(ko, tp, R) ==
  /\ R \in Seq(Entries) /\ Len(R) = Len(ko) + Len(Body) - tp
  /\ Len(ko) \in Nat /\ tp \in 0 .. Len(Body) /\ Len(Body) \in Nat
  /\ DOMAIN R = 1 .. Len(ko) + Len(Body) - tp
  /\ \A i \in 1 .. Len(ko) : i \in DOMAIN R /\ R[i] = ko[i]
  /\ \A i \in tp + 1 .. Len(Body) :
       Len(ko) + i - tp \in DOMAIN R /\ R[Len(ko) + i - tp] = Entry("node", Body[i])
  /\ \A i \in DOMAIN R : i \in 1 .. Len(ko) \/ \E j \in tp + 1 .. Len(Body) : i = Len(ko) + j - tp

LEMMA RestIs ==
  ASSUME prog \in Programs, NEW ko \in Seq(Entries), NEW tp \in 0 .. Len(Body)
  PROVE  RestFacts(ko, tp, RestOf(ko, tp))
<1> DEFINE R == RestOf(ko, tp)
           N == Len(Body)
           K == Len(ko)
<1>1. N \in Nat /\ K \in Nat
  BY BodyType
<1>2. R = [i \in 1 .. K + N - tp |-> IF i <= K THEN ko[i] ELSE Entry("node", Body[tp + i - K])]
  BY DEF RestOf
<1> HIDE DEF R, N, K
<1>3. DOMAIN R = 1 .. K + N - tp
  BY <1>2
<1>4. \A i \in 1 .. K : i \in DOMAIN R /\ R[i] = ko[i]
  <2>1. \A i \in 1 .. K : i \in 1 .. K + N - tp /\ i <= K
    BY <1>1 DEF N
  <2> QED
    BY <1>2, <1>3, <2>1
<1>5. ASSUME NEW i \in tp + 1 .. N
      PROVE  K + i - tp \in DOMAIN R /\ R[K + i - tp] = Entry("node", Body[i])
  <2> DEFINE j == K + i - tp
  <2>1. j \in 1 .. K + N - tp /\ ~(j <= K) /\ tp + j - K = i
    BY <1>1 DEF N
  <2> HIDE DEF j
  <2>2. j \in DOMAIN R /\ R[j] = Entry("node", Body[i])
    BY <1>2, <1>3, <2>1
  <2> QED
    BY <2>2 DEF j
<1>6. ASSUME NEW i \in DOMAIN R PROVE i \in 1 .. K \/ \E j \in tp + 1 .. N : i = K + j - tp
  <2>1. CASE i <= K
    BY <1>1, <1>3, <2>1
  <2>2. CASE ~(i <= K)
    <3>1. i + tp - K \in tp + 1 .. N /\ i = K + (i + tp - K) - tp
      BY <1>1, <1>3, <2>2 DEF N
    <3> QED
      BY <3>1
  <2> QED
    BY <2>1, <2>2
<1>7. R \in Seq(Entries) /\ Len(R) = K + N - tp
  <2>1. ASSUME NEW i \in DOMAIN R PROVE R[i] \in Entries
    <3>1. CASE i \in 1 .. K
      BY <1>4, <3>1 DEF K
    <3>2. CASE \E j \in tp + 1 .. N : i = K + j - tp
      <4>1. PICK j \in tp + 1 .. N : i = K + j - tp
        BY <3>2
      <4>2. j \in 1 .. N
        BY <1>1 DEF N
      <4>3. Body[j] \in DOMAIN prog
        BY <4>2, BodyType DEF N
      <4>4. Entry("node", Body[j]) \in Entries
        BY <4>3 DEF Entry, Entries
      <4> QED
        BY <1>5, <4>1, <4>4
    <3> QED
      BY <1>6, <3>1, <3>2
  <2>2. PICK M \in Nat : M = K + N - tp
    BY <1>1 DEF N
  <2>3. R \in [1 .. M -> Entries]
    BY <1>2, <1>3, <2>1, <2>2
  <2>4. R \in Seq(Entries) /\ Len(R) = M
    BY <2>3
  <2> QED
    BY <2>2, <2>4
<1> QED
  BY <1>1, <1>3, <1>4, <1>5, <1>6, <1>7 DEF RestFacts, N, K, R

(* k2 is ko without its first d entries. *)
SuffixOf(ko, k2, d) ==
  d \in Nat /\ Len(k2) + d = Len(ko) /\ \A i \in 1 .. Len(k2) : k2[i] = ko[d + i]

LEMMA RestSuffix ==
  ASSUME prog \in Programs, NEW ko \in Seq(Entries), NEW tp \in 0 .. Len(Body), NEW k2 \in Seq(Entries), NEW d,
         SuffixOf(ko, k2, d)
  PROVE  StandsIn(RestOf(ko, tp), RestOf(k2, tp), d)
<1>1. PICK R : R = RestOf(ko, tp)
  OBVIOUS
<1>2. PICK Q : Q = RestOf(k2, tp)
  OBVIOUS
<1>3. RestFacts(ko, tp, R) /\ RestFacts(k2, tp, Q)
  BY <1>1, <1>2, RestIs
<1> DEFINE N == Len(Body)
           K == Len(ko)
           L == Len(k2)
<1>4. /\ N \in Nat /\ K \in Nat /\ L \in Nat /\ tp \in 0 .. N
      /\ DOMAIN R = 1 .. K + N - tp /\ DOMAIN Q = 1 .. L + N - tp
  BY <1>3 DEF RestFacts
<1>5. d \in Nat /\ L + d = K /\ \A i \in 1 .. L : k2[i] = ko[d + i]
  BY DEF SuffixOf
<1>a. /\ \A i \in 1 .. K : R[i] = ko[i]
      /\ \A i \in tp + 1 .. N : R[K + i - tp] = Entry("node", Body[i])
      /\ \A i \in 1 .. L : Q[i] = k2[i]
      /\ \A i \in tp + 1 .. N : Q[L + i - tp] = Entry("node", Body[i])
      /\ \A i \in DOMAIN Q : i \in 1 .. L \/ \E j \in tp + 1 .. N : i = L + j - tp
  BY <1>3 DEF RestFacts
<1> HIDE DEF N, K, L
<1>6. ASSUME NEW i \in DOMAIN Q PROVE d + i \in DOMAIN R /\ Q[i] = R[d + i]
  <2>1. d + i \in DOMAIN R
    BY <1>4, <1>5
  <2>2. CASE i \in 1 .. L
    <3>1. d + i \in 1 .. K
      BY <1>4, <1>5, <2>2
    <3> QED
      BY <1>5, <1>a, <2>1, <2>2, <3>1
  <2>3. CASE \E j \in tp + 1 .. N : i = L + j - tp
    <3>1. PICK j \in tp + 1 .. N : i = L + j - tp
      BY <2>3
    <3>2. d + i = K + j - tp
      BY <1>4, <1>5, <3>1
    <3> QED
      BY <1>a, <2>1, <3>1, <3>2
  <2> QED
    BY <1>a, <2>2, <2>3
<1>7. DOMAIN R \subseteq Int /\ DOMAIN Q \subseteq Nat
  BY <1>4
<1>8. StandsIn(R, Q, d)
  BY <1>5, <1>6, <1>7 DEF StandsIn
<1> QED
  BY <1>1, <1>2, <1>8

LEMMA RestJump ==
  ASSUME prog \in Programs, NEW ko \in Seq(Entries), NEW tp \in 0 .. Len(Body), NEW i \in tp + 1 .. Len(Body),
         NEW k2, k2 = Code(<<Body[i]>>)
  PROVE  /\ \E o : StandsIn(RestOf(ko, tp), RestOf(k2, i), o)
         /\ k2 \in Seq(Entries) /\ i \in 0 .. Len(Body)
<1>1. PICK R : R = RestOf(ko, tp)
  OBVIOUS
<1>2. PICK Q : Q = RestOf(k2, i)
  OBVIOUS
<1> DEFINE N == Len(Body)
           K == Len(ko)
<1>a. N \in Nat /\ K \in Nat /\ \A j \in 1 .. N : Body[j] \in DOMAIN prog
  BY BodyType
<1>c. tp \in 0 .. N /\ i \in tp + 1 .. N
  OBVIOUS
<1>b. i \in 1 .. N /\ i \in 0 .. N
  BY <1>a
<1>3. k2 \in Seq(Entries) /\ Len(k2) = 1 /\ k2[1] = Entry("node", Body[i])
  <2>1. PICK b \in DOMAIN prog : b = Body[i]
    BY <1>a, <1>b
  <2>2. <<b>> \in Seq(DOMAIN prog) /\ Len(<<b>>) = 1 /\ <<b>>[1] = b /\ 1 \in 1 .. Len(<<b>>)
    OBVIOUS
  <2>3. Code(<<b>>) \in Seq(Entries) /\ Len(Code(<<b>>)) = 1 /\ Code(<<b>>)[1] = Entry("node", b)
    BY <2>2, CodeType
  <2> QED
    BY <2>1, <2>3
<1>4. RestFacts(ko, tp, R) /\ RestFacts(k2, i, Q)
  BY <1>1, <1>2, <1>3, <1>b, RestIs
<1>5. /\ DOMAIN R = 1 .. K + N - tp /\ DOMAIN Q = 1 .. 1 + N - i
      /\ \A j \in tp + 1 .. N : R[K + j - tp] = Entry("node", Body[j])
      /\ Q[1] = k2[1]
      /\ \A j \in i + 1 .. N : Q[1 + j - i] = Entry("node", Body[j])
  <2>1. /\ DOMAIN R = 1 .. K + N - tp
        /\ \A j \in tp + 1 .. N : R[K + j - tp] = Entry("node", Body[j])
    BY <1>4 DEF RestFacts
  <2>2. /\ DOMAIN Q = 1 .. Len(k2) + N - i
        /\ \A j \in 1 .. Len(k2) : Q[j] = k2[j]
        /\ \A j \in i + 1 .. N : Q[Len(k2) + j - i] = Entry("node", Body[j])
    BY <1>4 DEF RestFacts
  <2>3. Q[1] = k2[1]
    BY <1>3, <2>2
  <2> HIDE DEF N, K
  <2> QED
    BY <1>3, <2>1, <2>2, <2>3
<1> DEFINE o == K + i - tp - 1
<1> HIDE DEF N, K
<1>6. o \in Nat
  <2>1. K \in Nat /\ i \in Int /\ tp \in Int /\ i >= tp + 1
    BY <1>a, <1>c
  <2> QED
    BY <2>1
<1>7. ASSUME NEW x \in DOMAIN Q PROVE o + x \in DOMAIN R /\ Q[x] = R[o + x]
  <2> DEFINE j == i + x - 1
  <2>1. j \in tp + 1 .. N /\ o + x = K + j - tp /\ o + x \in DOMAIN R
    <3>1. x \in 1 .. 1 + N - i
      BY <1>5
    <3>2. j \in tp + 1 .. N /\ o + x = K + j - tp
      BY <1>a, <1>c, <3>1
    <3>3. o + x \in 1 .. K + N - tp
      BY <1>a, <1>c, <3>1
    <3> QED
      BY <1>5, <3>2, <3>3
  <2>2. Q[x] = Entry("node", Body[j])
    <3>1. CASE x = 1
      BY <1>3, <1>5, <1>b, <3>1
    <3>2. CASE x # 1
      <4>1. j \in i + 1 .. N /\ 1 + j - i = x
        BY <1>5, <1>a, <1>b, <3>2
      <4> HIDE DEF j
      <4> QED
        BY <1>5, <4>1
    <3> QED
      BY <3>1, <3>2
  <2> HIDE DEF j, o
  <2> QED
    BY <1>5, <2>1, <2>2
<1>8. DOMAIN R \subseteq Int /\ DOMAIN Q \subseteq Nat
  BY <1>5, <1>a
<1> HIDE DEF o
<1>9. StandsIn(R, Q, o)
  BY <1>6, <1>7, <1>8 DEF StandsIn
<1> QED
  BY <1>1, <1>2, <1>3, <1>9, <1>b DEF N

(* The head of what is left gives way to code. *)
Heads(R, d, code, R2) ==
  \E N \in Nat : /\ DOMAIN R = 1 .. N + 1 /\ DOMAIN d = 1 .. N /\ \A i \in 1 .. N : d[i] = R[1 + i]
                 /\ Chained(code, d, R2)

LEMMA RestHead ==
  ASSUME prog \in Programs, NEW ko \in Seq(Entries), ko # <<>>, NEW tp \in 0 .. Len(Body), NEW code \in Seq(Entries),
         NEW k2, k2 = code \o Tail(ko)
  PROVE  /\ \E d : Heads(RestOf(ko, tp), d, code, RestOf(k2, tp))
         /\ RestOf(ko, tp)[1] = ko[1] /\ 1 \in DOMAIN RestOf(ko, tp) /\ k2 \in Seq(Entries)
<1>1. PICK R : R = RestOf(ko, tp)
  OBVIOUS
<1>2. PICK Q : Q = RestOf(k2, tp)
  OBVIOUS
<1>3. PICK d : d = RestOf(Tail(ko), tp)
  OBVIOUS
<1>4. PICK kt \in Seq(Entries) : kt = Tail(ko)
  <2>1. Tail(ko) \in Seq(Entries)
    OBVIOUS
  <2> QED
    BY <2>1
<1>5. Len(ko) \in Nat /\ Len(ko) >= 1 /\ Len(kt) = Len(ko) - 1 /\ \A i \in 1 .. Len(kt) : kt[i] = ko[1 + i]
  BY <1>4
<1>6. /\ k2 \in Seq(Entries) /\ Len(k2) = Len(code) + Len(kt) /\ Len(code) \in Nat
      /\ DOMAIN code = 1 .. Len(code)
      /\ \A i \in 1 .. Len(code) : k2[i] = code[i]
      /\ \A i \in 1 .. Len(kt) : k2[Len(code) + i] = kt[i]
  BY <1>4
<1>7. RestFacts(ko, tp, R) /\ RestFacts(k2, tp, Q) /\ RestFacts(kt, tp, d)
  BY <1>1, <1>2, <1>3, <1>4, <1>6, RestIs
<1> DEFINE N == Len(Body)
           K == Len(kt)
           C == Len(code)
<1>8. N \in Nat /\ K \in Nat /\ C \in Nat /\ tp \in 0 .. N /\ Len(ko) = K + 1 /\ Len(k2) = C + K
  BY <1>5, <1>6, <1>7 DEF RestFacts
<1>9. /\ DOMAIN R = 1 .. K + 1 + N - tp /\ DOMAIN Q = 1 .. C + K + N - tp /\ DOMAIN d = 1 .. K + N - tp
      /\ \A i \in 1 .. K + 1 : i \in DOMAIN R /\ R[i] = ko[i]
      /\ \A i \in 1 .. C + K : Q[i] = k2[i]
      /\ \A i \in tp + 1 .. N : Q[C + K + i - tp] = Entry("node", Body[i])
  BY <1>7, <1>8 DEF RestFacts
<1>10. StandsIn(R, d, 1)
  <2>1. SuffixOf(ko, kt, 1)
    BY <1>5 DEF SuffixOf
  <2>2. StandsIn(RestOf(ko, tp), RestOf(kt, tp), 1)
    BY <2>1, RestSuffix
  <2> QED
    BY <1>1, <1>3, <1>4, <2>2
<1> HIDE DEF N, K, C
<1>11. ASSUME NEW i \in DOMAIN d PROVE Q[C + i] = d[i]
  <2>1. i \in 1 .. K \/ \E j \in tp + 1 .. N : i = K + j - tp
    BY <1>7 DEF RestFacts, K, N
  <2>2. CASE i \in 1 .. K
    <3>1. C + i \in 1 .. C + K
      BY <1>8, <2>2
    <3>2. Q[C + i] = k2[C + i] /\ k2[C + i] = kt[i]
      BY <1>6, <1>9, <2>2, <3>1 DEF K, C
    <3>3. d[i] = kt[i]
      BY <1>7, <2>2 DEF RestFacts, K
    <3> QED
      BY <3>2, <3>3
  <2>3. CASE \E j \in tp + 1 .. N : i = K + j - tp
    <3>1. PICK j \in tp + 1 .. N : i = K + j - tp
      BY <2>3
    <3>2. C + i = C + K + j - tp
      BY <1>8, <3>1
    <3>3. d[i] = Entry("node", Body[j])
      BY <1>7, <3>1 DEF RestFacts, K, N
    <3> QED
      BY <1>9, <3>1, <3>2, <3>3
  <2> QED
    BY <2>1, <2>2, <2>3
<1> DEFINE M == K + N - tp
<1>12. M \in Nat /\ DOMAIN R = 1 .. M + 1 /\ DOMAIN d = 1 .. M /\ DOMAIN Q = 1 .. C + M
  <2>1. M \in Nat /\ M + 1 = K + 1 + N - tp /\ C + M = C + K + N - tp
    BY <1>8
  <2> QED
    BY <1>9, <2>1
<1>13. \A i \in 1 .. C : Q[i] = code[i]
  <2>1. \A i \in 1 .. C : i \in 1 .. C + K
    BY <1>8
  <2> QED
    BY <1>6, <1>9, <2>1 DEF C
<1> HIDE DEF M
<1>14. DOMAIN d = 1 .. Len(d) /\ Len(d) = M
  BY <1>7, <1>12 DEF RestFacts, M, K, N
<1>15. Chained(code, d, Q)
  BY <1>6, <1>11, <1>12, <1>13, <1>14 DEF Chained, C
<1>16. Heads(R, d, code, Q)
  <2>1. \A i \in 1 .. M : d[i] = R[1 + i]
    BY <1>10, <1>12 DEF StandsIn
  <2> QED
    BY <1>12, <1>15, <2>1 DEF Heads
<1>17. 1 \in DOMAIN R /\ R[1] = ko[1]
  BY <1>8, <1>9
<1> QED
  BY <1>1, <1>2, <1>6, <1>16, <1>17

-----------------------------------------------------------------------------
(* The registers while the code runs.                                      *)
Sharing(v, w) == v # w /\ Placed(v) /\ assigned_reg[v] = assigned_reg[w]

(* Once a local has been stored or has a register, what precedes it in     *)
(* that register is not reached any more.                                  *)
DoneWith(t, pc, R, sp, wr, ho) ==
  \A u, x \in Symbols :
    Sharing(u, x) /\ Precedes(x, u) /\ (u \in wr \ Params \/ ho[assigned_reg[u]] = u) =>
      \A l : Pending(t, pc, R, sp, l) => <<x, l>> \notin seen

(* A local is lost only to one that it precedes. *)
LostToLater(wr, ho) ==
  \A v \in wr \ Params :
    Placed(v) /\ ho[assigned_reg[v]] # v =>
      \E w \in Symbols : ho[assigned_reg[v]] = w /\ Sharing(v, w) /\ Precedes(v, w)

Orderly(t, pc, lp, R, sp, wr, ho) ==
  Placing(t, pc, lp, R, sp) /\ DoneWith(t, pc, R, sp, wr, ho) /\ LostToLater(wr, ho) /\ wr \subseteq Symbols

LEMMA StaysOrderly ==
  ASSUME NEW t, NEW pc, NEW lp, NEW R, NEW sp, NEW wr, NEW ho, Orderly(t, pc, lp, R, sp, wr, ho),
         NEW R2, NEW sq, Shrinks(t, pc, lp, R, sp, R2, sq)
  PROVE  Orderly(t, pc, lp, R2, sq, wr, ho)
<1>1. DoneWith(t, pc, R2, sq, wr, ho)
  BY DEF Orderly, Shrinks, DoneWith
<1> QED
  BY <1>1 DEF Orderly, Shrinks

(* The mention of the local that the head of what is left reads or stores. *)
LEMMA HeadMention ==
  ASSUME NEW pc \in Nat, NEW t, NEW sn, NEW lp, Trail(t, pc, <<>>, sn, lp), NEW R, NEW sp,
         Placing(t, pc, lp, R, sp), 1 \in DOMAIN R, R[1].does \in {"node", "put"},
         prog[R[1].node].kind = "var" \/ R[1].does = "put"
  PROVE  /\ sp[1] \in 2 .. pc /\ <<prog[R[1].node].sym, sp[1]>> \in sn /\ Reaches(t, pc, R[1], sp[1], sp[1])
         /\ prog[R[1].node].kind = "var" /\ R[1].node \in DOMAIN prog
<1>1. sp[1] \in 2 .. pc /\ Fits(t, R[1], sp[1])
  BY DEF Placing
<1>2. t[sp[1]].node = R[1].node /\ prog[R[1].node].kind = "var" /\ Active(R[1])
  BY <1>1 DEF Fits, Active
<1>3. <<prog[t[sp[1]].node].sym, sp[1]>> \in sn /\ t[sp[1]].node \in DOMAIN prog
  <2>1. prog[t[sp[1]].node].kind = "var"
    BY <1>2
  <2> QED
    BY <1>1, <2>1 DEF Trail
<1>4. Within(t, pc, sp[1], sp[1])
  <2>1. sp[1] \in sp[1] .. pc /\ sp[1] + 1 .. sp[1] = {}
    BY <1>1
  <2> QED
    BY <2>1 DEF Within
<1> QED
  BY <1>1, <1>2, <1>3, <1>4 DEF Reaches

(* The head of what is left reads v, whose register holds another local. *)
Misses(R, v, wr, ho) ==
  /\ R[1].does = "node" /\ prog[R[1].node].kind = "var" /\ v = prog[R[1].node].sym
  /\ v \in wr /\ assigned_reg[v] # NoReg /\ ho[assigned_reg[v]] # v

(* A local that is read and lost is a parameter. *)
LEMMA ReadFinds ==
  ASSUME NEW pc \in Nat, NEW t, NEW lp, Trail(t, pc, <<>>, seen, lp), prog \in Programs, LocalScanTypeOK, NEW R, NEW sp,
         NEW wr, NEW ho, Orderly(t, pc, lp, R, sp, wr, ho), 1 \in DOMAIN R, NEW v, Misses(R, v, wr, ho)
  PROVE  v \in Params
<1>0. /\ R[1].does = "node" /\ prog[R[1].node].kind = "var" /\ v = prog[R[1].node].sym
      /\ v \in wr /\ assigned_reg[v] # NoReg /\ ho[assigned_reg[v]] # v
  BY DEF Misses
<1>1. SUFFICES ASSUME v \notin Params PROVE FALSE
  OBVIOUS
<1>2. Placing(t, pc, lp, R, sp) /\ DoneWith(t, pc, R, sp, wr, ho) /\ LostToLater(wr, ho) /\ v \in Symbols
  BY <1>0 DEF Orderly
<1>3. <<v, sp[1]>> \in seen /\ Reaches(t, pc, R[1], sp[1], sp[1])
  BY <1>0, <1>2, HeadMention
<1>4. Pending(t, pc, R, sp, sp[1])
  BY <1>3 DEF Pending
<1>5. PICK w \in Symbols : ho[assigned_reg[v]] = w /\ Sharing(v, w) /\ Precedes(v, w)
  BY <1>0, <1>1, <1>2 DEF LostToLater, Placed
<1>6. Sharing(w, v) /\ ho[assigned_reg[w]] = w
  BY <1>5 DEF Sharing, Placed
<1> QED
  BY <1>2, <1>3, <1>4, <1>5, <1>6 DEF DoneWith

Stored(v, ho) == [r \in Regs |-> IF r = assigned_reg[v] THEN v ELSE ho[r]]

(* A store keeps the order: what precedes the local in its register is     *)
(* visited before the store, and no loop leads back to it.                 *)
LEMMA StoreOrderly ==
  ASSUME IInv, NEW pc \in Nat, NEW t, Trail(t, pc, <<>>, seen, loops), NEW R, NEW sp,
         NEW wr, NEW ho, Orderly(t, pc, loops, R, sp, wr, ho), 1 \in DOMAIN R, R[1].does = "put",
         NEW v, v = prog[R[1].node].sym, NEW R2, StandsIn(R, R2, 1), 0 \notin DOMAIN R2
  PROVE  \E sq : Orderly(t, pc, loops, R2, sq, wr \cup {v}, Stored(v, ho))
<1>1. Placing(t, pc, loops, R, sp) /\ DoneWith(t, pc, R, sp, wr, ho) /\ LostToLater(wr, ho) /\ wr \subseteq Symbols
  BY DEF Orderly
<1>2. /\ sp[1] \in 2 .. pc /\ <<v, sp[1]>> \in seen /\ Reaches(t, pc, R[1], sp[1], sp[1])
      /\ prog[R[1].node].kind = "var" /\ R[1].node \in DOMAIN prog
  BY <1>1, HeadMention
<1>3. v \in Symbols
  BY <1>2, ProgramsAssumption DEF IInv
<1>4. PICK sq : Placing(t, pc, loops, R2, sq) /\ Moved(R2, 1, sp, sq)
  BY <1>1, PlacingPart
<1>5. ASSUME NEW l, Pending(t, pc, R2, sq, l)
      PROVE  Pending(t, pc, R, sp, l) /\ Follow(loops, sp[1], l)
  <2>1. PICK i \in DOMAIN R2 : Reaches(t, pc, R2[i], sq[i], l)
    BY <1>5 DEF Pending
  <2>2. 1 + i \in DOMAIN R /\ R2[i] = R[1 + i] /\ sq[i] = sp[1 + i] /\ i \in Nat /\ DOMAIN R \subseteq Int
    BY <1>4 DEF StandsIn, Moved
  <2>3. i # 0
    BY <2>1
  <2>4. PICK j \in DOMAIN R : j = 1 + i /\ 1 < j
    BY <2>2, <2>3
  <2>5. Reaches(t, pc, R[j], sp[j], l)
    BY <2>1, <2>2, <2>4
  <2>6. Changes(R[1])
    BY DEF Changes
  <2> QED
    BY <1>1, <1>2, <2>4, <2>5, <2>6 DEF Pending, Placing
<1>6. ASSUME NEW x \in Symbols, Sharing(v, x), Precedes(x, v), NEW l, Pending(t, pc, R2, sq, l),
             <<x, l>> \in seen
      PROVE  FALSE
  <2>1. l \in Nat /\ sp[1] \in Nat
    BY <1>2, <1>6 DEF IInv, LocalScanTypeOK
  <2>2. l < sp[1]
    <3>1. <<x, l>>[1] = x /\ <<x, l>>[2] = l /\ <<v, sp[1]>>[1] = v /\ <<v, sp[1]>>[2] = sp[1]
      OBVIOUS
    <3> QED
      BY <1>2, <1>6, <3>1 DEF Precedes
  <2>3. PICK p \in loops : sp[1] \in p[1] .. p[2] /\ l \in p[1] .. p[2]
    BY <1>5, <1>6, <2>1, <2>2 DEF Follow
  <2>4. Meet(v, x, p)
    <3>1. <<x, l>>[1] = x /\ <<x, l>>[2] = l /\ <<v, sp[1]>>[1] = v /\ <<v, sp[1]>>[2] = sp[1]
      OBVIOUS
    <3> QED
      BY <1>2, <1>6, <2>3, <3>1 DEF Meet
  <2> QED
    BY <1>3, <1>6, <2>4, SharersInv DEF SharersMeetInNoLoop, Sharing, Placed
<1> DEFINE w2 == wr \cup {v}
           h2 == Stored(v, ho)
<1>7. \A u \in Symbols : Placed(u) => h2[assigned_reg[u]] = IF assigned_reg[u] = assigned_reg[v] THEN v
                                                           ELSE ho[assigned_reg[u]]
  <2>1. \A u \in Symbols : Placed(u) => assigned_reg[u] \in Regs
    BY DEF IInv, LocalScanTypeOK, Placed
  <2> QED
    BY <2>1 DEF Stored
<1> HIDE DEF h2
<1>8. DoneWith(t, pc, R2, sq, w2, h2)
  <2> SUFFICES ASSUME NEW u \in Symbols, NEW x \in Symbols, Sharing(u, x), Precedes(x, u),
                      u \in w2 \ Params \/ h2[assigned_reg[u]] = u, NEW l, Pending(t, pc, R2, sq, l),
                      <<x, l>> \in seen
               PROVE  FALSE
    BY DEF DoneWith
  <2>1. CASE u = v
    BY <1>6, <2>1
  <2>2. CASE u # v
    <3>1. u \in wr \ Params \/ ho[assigned_reg[u]] = u
      BY <1>7, <2>2 DEF Sharing
    <3> QED
      BY <1>1, <1>5, <3>1 DEF DoneWith
  <2> QED
    BY <2>1, <2>2
<1>9. LostToLater(w2, h2)
  <2> SUFFICES ASSUME NEW u \in w2 \ Params, Placed(u), h2[assigned_reg[u]] # u
               PROVE  \E w \in Symbols : h2[assigned_reg[u]] = w /\ Sharing(u, w) /\ Precedes(u, w)
    BY DEF LostToLater
  <2>0. u \in Symbols
    BY <1>1, <1>3
  <2>1. CASE assigned_reg[u] = assigned_reg[v]
    <3>1. h2[assigned_reg[u]] = v /\ u # v /\ u \in wr \ Params
      BY <1>7, <2>0, <2>1
    <3>2. Sharing(u, v)
      BY <2>1, <3>1 DEF Sharing
    <3>3. ~Precedes(v, u)
      <4>1. ASSUME Precedes(v, u) PROVE FALSE
        <5>1. Pending(t, pc, R, sp, sp[1])
          BY <1>2 DEF Pending
        <5> QED
          BY <1>1, <1>2, <1>3, <2>0, <3>1, <3>2, <4>1, <5>1 DEF DoneWith
      <4> QED
        BY <4>1
    <3>4. Precedes(u, v)
      BY <1>3, <2>0, <3>2, <3>3, SharersInv DEF SharersMeetInNoLoop, Sharing, Placed
    <3> QED
      BY <1>3, <3>1, <3>2, <3>4
  <2>2. CASE assigned_reg[u] # assigned_reg[v]
    <3>1. u # v /\ u \in wr \ Params /\ h2[assigned_reg[u]] = ho[assigned_reg[u]]
      BY <1>7, <2>0, <2>2
    <3> QED
      BY <1>1, <3>1 DEF LostToLater
  <2> QED
    BY <2>1, <2>2
<1>10. Orderly(t, pc, loops, R2, sq, w2, h2)
  BY <1>1, <1>3, <1>4, <1>8, <1>9 DEF Orderly
<1> QED
  BY <1>10 DEF h2

-----------------------------------------------------------------------------
(* The invariant of the run, and its steps.                                *)
Untouched ==
  kont = <<>> /\ top = 0 /\ holds = [r \in Regs |-> NoSymbol] /\ written = Params /\ misread = {}

RunOK(t) ==
  /\ kont \in Seq(Entries) /\ top \in 0 .. Len(Body) /\ misread \subseteq Params
  /\ \E sp : Orderly(t, pseudo_pc, loops, RestOf(kont, top), sp, written, holds)

RunInv ==
  \E t : /\ TrailInv(t) /\ pseudo_pc > 0
         /\ phase # "walk" => todo = <<>>
         /\ phase # "run" => Untouched
         /\ phase = "run" /\ strayed = {} => RunOK(t)

LEMMA RunInit == Init => RunInv
<1> SUFFICES ASSUME Init PROVE RunInv
  OBVIOUS
<1> DEFINE t == [k \in 2 .. 1 |-> [node |-> 1, rest |-> 0]]
<1>1. pseudo_pc = 1 /\ todo = <<1>> /\ phase = "walk" /\ Untouched /\ seen = {} /\ loops = {}
  BY DEF Init, Untouched
<1>2. 2 .. 1 = {}
  OBVIOUS
<1>3. t \in [2 .. 1 -> [node : DOMAIN prog, rest : Nat]]
  BY <1>2
<1> HIDE DEF t
<1>4. Trail(t, 1, <<1>>, seen, loops)
  BY <1>2, <1>3 DEF Trail
<1>5. TrailInv(t) /\ pseudo_pc > 0
  BY <1>1, <1>4 DEF TrailInv
<1> QED
  BY <1>1, <1>5 DEF RunInv

(* Everything the walk does leaves the run untouched. *)
LEMMA RunWalk ==
  ASSUME IInv, IInv', RunInv, VisitLoop \/ LeaveLoop \/ VisitVar \/ VisitAddr \/ VisitOther
  PROVE  RunInv'
<1>1. PICK t : TrailInv(t) /\ pseudo_pc > 0 /\ (phase # "run" => Untouched)
  BY DEF RunInv
<1>2. phase = "walk" /\ phase' = "walk" /\ Untouched' /\ pseudo_pc' > 0
  <2>1. phase = "walk" /\ phase' = "walk" /\ UNCHANGED ran /\ (pseudo_pc' = pseudo_pc \/ pseudo_pc' = pseudo_pc + 1)
    BY DEF VisitLoop, LeaveLoop, VisitVar, VisitAddr, VisitOther, Visiting
  <2>2. Untouched'
    BY <1>1, <2>1 DEF Untouched, ran
  <2>3. pseudo_pc \in Nat
    BY DEF IInv, LocalScanTypeOK
  <2> QED
    BY <1>1, <2>1, <2>2, <2>3
<1>3. \E u : TrailInv(u)'
  <2>1. CASE VisitLoop \/ VisitVar \/ VisitAddr \/ VisitOther
    BY <1>1, <2>1, WalkTrail
  <2>2. CASE LeaveLoop
    BY <1>1, <2>2, LoopTrail
  <2> QED
    BY <2>1, <2>2
<1> QED
  BY <1>2, <1>3 DEF RunInv

(* A step of the run that keeps the order. *)
LEMMA SameOrderly ==
  ASSUME NEW t, NEW pc, NEW lp, NEW ko, NEW tp, NEW sp, NEW wr, NEW ho,
         Orderly(t, pc, lp, RestOf(ko, tp), sp, wr, ho), prog' = prog, seen' = seen, assigned_reg' = assigned_reg
  PROVE  Orderly(t, pc, lp, RestOf(ko, tp), sp, wr, ho)'
<1>1. RestOf(ko, tp)' = RestOf(ko, tp)
  BY DEF RestOf, Body
<1>2. \A e : Changes(e)' = Changes(e)
  BY DEF Changes, Composite
<1>3. \A e, k : Fits(t, e, k)' = Fits(t, e, k)
  BY DEF Fits
<1>4. PICK R : R = RestOf(ko, tp)
  OBVIOUS
<1>5. Orderly(t, pc, lp, R, sp, wr, ho)
  BY <1>4
<1>6. Orderly(t, pc, lp, R, sp, wr, ho)'
  <2>1. Placing(t, pc, lp, R, sp)'
    BY <1>2, <1>3, <1>5 DEF Orderly, Placing
  <2>2. DoneWith(t, pc, R, sp, wr, ho)'
    BY <1>5 DEF Orderly, DoneWith, Sharing, Placed, Precedes
  <2>3. LostToLater(wr, ho)'
    BY <1>5 DEF Orderly, LostToLater, Sharing, Placed, Precedes
  <2> QED
    BY <1>5, <2>1, <2>2, <2>3 DEF Orderly
<1> QED
  BY <1>1, <1>4, <1>6

RunsOn(t, ko, tp, sp, wr, ho) ==
  /\ ko \in Seq(Entries) /\ tp \in 0 .. Len(Body)
  /\ Orderly(t, pseudo_pc, loops, RestOf(ko, tp), sp, wr, ho)

LEMMA RunStep ==
  ASSUME NEW t, TrailInv(t), pseudo_pc > 0, todo = <<>>, phase = "run",
         UNCHANGED <<prog, phase, walked, scanned>>,
         strayed' = {} =>
           misread' \subseteq Params /\ \E sp : RunsOn(t, kont', top', sp, written', holds')
  PROVE  RunInv'
<1>1. /\ prog' = prog /\ phase' = "run" /\ todo' = <<>> /\ pseudo_pc' = pseudo_pc /\ seen' = seen
      /\ loops' = loops /\ assigned_reg' = assigned_reg
  BY DEF walked, scanned
<1>2. TrailInv(t)'
  <2>1. PICK pc : pc = pseudo_pc
    OBVIOUS
  <2>2. PICK td : td = todo
    OBVIOUS
  <2>3. PICK sn : sn = seen
    OBVIOUS
  <2>4. PICK lp : lp = loops
    OBVIOUS
  <2>5. Trail(t, pc, td, sn, lp)
    BY <2>1, <2>2, <2>3, <2>4 DEF TrailInv
  <2>6. Trail(t, pc, td, sn, lp)'
    BY <1>1, <2>5, SameTrail
  <2> QED
    BY <1>1, <2>1, <2>2, <2>3, <2>4, <2>6 DEF TrailInv
<1>3. ASSUME strayed' = {} PROVE RunOK(t)'
  <2>1. PICK ko : ko = kont'
    OBVIOUS
  <2>2. PICK tp : tp = top'
    OBVIOUS
  <2>3. PICK wr : wr = written'
    OBVIOUS
  <2>4. PICK ho : ho = holds'
    OBVIOUS
  <2>5. misread' \subseteq Params /\ \E sp : RunsOn(t, ko, tp, sp, wr, ho)
    BY <1>3, <2>1, <2>2, <2>3, <2>4
  <2>6. PICK sp : RunsOn(t, ko, tp, sp, wr, ho)
    BY <2>5
  <2>7. PICK pc : pc = pseudo_pc
    OBVIOUS
  <2>8. PICK lp : lp = loops
    OBVIOUS
  <2>9. Orderly(t, pc, lp, RestOf(ko, tp), sp, wr, ho)
    BY <2>6, <2>7, <2>8 DEF RunsOn
  <2>10. Orderly(t, pc, lp, RestOf(ko, tp), sp, wr, ho)'
    BY <1>1, <2>9, SameOrderly
  <2>11. kont' \in Seq(Entries)' /\ top' \in 0 .. Len(Body)'
    BY <1>1, <2>1, <2>2, <2>6 DEF RunsOn, Entries, Body
  <2>12. Orderly(t, pseudo_pc, loops, RestOf(kont, top), sp, written, holds)'
    BY <1>1, <2>1, <2>2, <2>3, <2>4, <2>7, <2>8, <2>10
  <2> QED
    BY <2>5, <2>11, <2>12 DEF RunOK
<1>4. pseudo_pc' > 0
  BY <1>1
<1> QED
  BY <1>1, <1>2, <1>3, <1>4 DEF RunInv

LEMMA RunsOnFrom ==
  ASSUME prog \in Programs, NEW t, NEW R, NEW sp, NEW wr, NEW ho,
         Orderly(t, pseudo_pc, loops, R, sp, wr, ho),
         NEW ko \in Seq(Entries), NEW tp \in 0 .. Len(Body), NEW o, StandsIn(R, RestOf(ko, tp), o)
  PROVE  \E sq : RunsOn(t, ko, tp, sq, wr, ho)
<1>1. PICK Q : Q = RestOf(ko, tp)
  OBVIOUS
<1>2. PICK pc : pc = pseudo_pc
  OBVIOUS
<1>3. PICK lp : lp = loops
  OBVIOUS
<1>4. Orderly(t, pc, lp, R, sp, wr, ho) /\ Placing(t, pc, lp, R, sp) /\ StandsIn(R, Q, o)
  BY <1>1, <1>2, <1>3 DEF Orderly
<1>5. PICK sq : Shrinks(t, pc, lp, R, sp, Q, sq)
  BY <1>4, PartShrinks
<1>6. Orderly(t, pc, lp, Q, sq, wr, ho)
  BY <1>4, <1>5, StaysOrderly
<1> QED
  BY <1>1, <1>2, <1>3, <1>6 DEF RunsOn

(* Code that the head of kont gives way to. *)
LEMMA RunsInto ==
  ASSUME IInv, NEW t, TrailInv(t), todo = <<>>, RunOK(t), kont # <<>>, NEW code,
         Active(kont[1]), \A k \in 2 .. pseudo_pc : Fits(t, kont[1], k) => Unfolds(t, pseudo_pc, loops, k, code),
         Changes(kont[1]) \/ \A i \in DOMAIN code : ~Changes(code[i])
  PROVE  \E sp : RunsOn(t, code \o Tail(kont), top, sp, written, holds)
<1>1. PICK ko \in Seq(Entries) : ko = kont
  BY DEF RunOK
<1>2. PICK tp \in 0 .. Len(Body) : tp = top
  BY DEF RunOK
<1>3. PICK pc \in Nat : pc = pseudo_pc
  BY DEF IInv, LocalScanTypeOK
<1>4. PICK lp : lp = loops
  OBVIOUS
<1>5. PICK wr : wr = written
  OBVIOUS
<1>6. PICK ho : ho = holds
  OBVIOUS
<1>7. PICK k2 : k2 = code \o Tail(ko)
  OBVIOUS
<1>8. PICK R : R = RestOf(ko, tp)
  OBVIOUS
<1>9. PICK Q : Q = RestOf(k2, tp)
  OBVIOUS
<1>10. PICK sp : Orderly(t, pc, lp, R, sp, wr, ho)
  BY <1>1, <1>2, <1>3, <1>4, <1>5, <1>6, <1>8 DEF RunOK
<1>15. Placing(t, pc, lp, R, sp)
  BY <1>10 DEF Orderly
<1>11. R[1] = ko[1] /\ 1 \in DOMAIN R
  <2>1. 1 \in 1 .. Len(ko)
    BY <1>1
  <2> QED
    BY <1>8, <2>1, RestIs DEF RestFacts, IInv
<1>14. Active(R[1]) /\ (Changes(R[1]) \/ \A i \in DOMAIN code : ~Changes(code[i]))
  BY <1>1, <1>11
<1>16. Unfolds(t, pc, lp, sp[1], code)
  <2>1. sp[1] \in 2 .. pc /\ Fits(t, R[1], sp[1])
    BY <1>11, <1>15 DEF Placing
  <2> QED
    BY <1>1, <1>3, <1>4, <1>11, <2>1
<1>a. code \in Seq(Entries)
  BY <1>16 DEF Unfolds
<1>12. (\E d : Heads(R, d, code, Q)) /\ k2 \in Seq(Entries)
  BY <1>1, <1>7, <1>8, <1>9, <1>a, RestHead DEF IInv
<1>b. PICK d : Heads(R, d, code, Q)
  BY <1>12
<1>13. PICK N \in Nat : /\ DOMAIN R = 1 .. N + 1 /\ DOMAIN d = 1 .. N /\ \A i \in 1 .. N : d[i] = R[1 + i]
                        /\ Chained(code, d, Q)
  BY <1>b DEF Heads
<1>17. PICK sq : Shrinks(t, pc, lp, R, sp, Q, sq)
  BY <1>13, <1>14, <1>15, <1>16, HeadShrinks
<1>18. Orderly(t, pc, lp, Q, sq, wr, ho)
  BY <1>10, <1>17, StaysOrderly
<1>19. RunsOn(t, k2, tp, sq, wr, ho)
  BY <1>3, <1>4, <1>9, <1>12, <1>18 DEF RunsOn
<1> QED
  BY <1>1, <1>2, <1>5, <1>6, <1>7, <1>19

(* A step that drops the first entries of kont. *)
LEMMA RunsPast ==
  ASSUME IInv, NEW t, RunOK(t), NEW k2 \in Seq(Entries), NEW d, SuffixOf(kont, k2, d)
  PROVE  \E sp : RunsOn(t, k2, top, sp, written, holds)
<1>1. PICK ko \in Seq(Entries) : ko = kont
  BY DEF RunOK
<1>2. PICK tp \in 0 .. Len(Body) : tp = top
  BY DEF RunOK
<1>3. PICK wr : wr = written
  OBVIOUS
<1>4. PICK ho : ho = holds
  OBVIOUS
<1>5. StandsIn(RestOf(ko, tp), RestOf(k2, tp), d)
  BY <1>1, RestSuffix DEF IInv
<1>6. PICK R : R = RestOf(ko, tp)
  OBVIOUS
<1>7. PICK sp : Orderly(t, pseudo_pc, loops, R, sp, wr, ho)
  BY <1>1, <1>2, <1>3, <1>4, <1>6 DEF RunOK
<1>8. prog \in Programs /\ StandsIn(R, RestOf(k2, tp), d)
  BY <1>5, <1>6 DEF IInv
<1>9. \E sq : RunsOn(t, k2, tp, sq, wr, ho)
  BY <1>7, <1>8, RunsOnFrom
<1> QED
  BY <1>2, <1>3, <1>4, <1>9

LEMMA TailIsSuffix ==
  ASSUME NEW S, NEW s \in Seq(S), s # <<>>
  PROVE  Tail(s) \in Seq(S) /\ SuffixOf(s, Tail(s), 1)
<1>1. /\ Tail(s) \in Seq(S) /\ Len(s) \in Nat /\ Len(s) >= 1 /\ Len(Tail(s)) = Len(s) - 1
      /\ \A i \in 1 .. Len(s) - 1 : Tail(s)[i] = s[1 + i]
  OBVIOUS
<1> QED
  BY <1>1 DEF SuffixOf

(* Before the run and between its steps nothing that counts changes. *)
LEMMA RunIdle ==
  ASSUME RunInv, UNCHANGED <<prog, walked, ran>>, phase # "run", phase' # "run",
         phase' # "walk" => todo = <<>>
  PROVE  RunInv'
<1>1. PICK t : TrailInv(t) /\ pseudo_pc > 0 /\ Untouched
  BY DEF RunInv
<1>2. TrailInv(t)' /\ pseudo_pc' > 0
  <2>1. PICK pc : pc = pseudo_pc
    OBVIOUS
  <2>2. PICK td : td = todo
    OBVIOUS
  <2>3. PICK sn : sn = seen
    OBVIOUS
  <2>4. PICK lp : lp = loops
    OBVIOUS
  <2>5. Trail(t, pc, td, sn, lp)
    BY <1>1, <2>1, <2>2, <2>3, <2>4 DEF TrailInv
  <2>6. Trail(t, pc, td, sn, lp)'
    BY <2>5, SameTrail
  <2> QED
    BY <1>1, <2>1, <2>2, <2>3, <2>4, <2>6 DEF TrailInv, walked
<1>3. Untouched'
  BY <1>1 DEF Untouched, ran
<1>4. phase' # "walk" => todo' = <<>>
  BY DEF walked
<1> QED
  BY <1>2, <1>3, <1>4 DEF RunInv

RunsFrom(t) ==
  /\ TrailInv(t) /\ pseudo_pc > 0 /\ todo = <<>> /\ phase = "run"
  /\ strayed = {} => RunOK(t)

LEMMA RunBegins ==
  ASSUME IInv, RunInv, Emit
  PROVE  RunInv'
<1>1. phase = "scan" /\ phase' = "run" /\ UNCHANGED <<prog, walked, scanned, ran>>
  BY DEF Emit
<1>2. PICK t : TrailInv(t) /\ pseudo_pc > 0 /\ Untouched /\ todo = <<>>
  BY <1>1 DEF RunInv
<1>3. PICK pc \in Nat : pc = pseudo_pc
  BY DEF IInv, LocalScanTypeOK
<1>4. PICK lp : lp = loops
  OBVIOUS
<1>5. PICK sn : sn = seen
  OBVIOUS
<1>6. Trail(t, pc, <<>>, sn, lp) /\ prog \in Programs
  BY <1>2, <1>3, <1>4, <1>5 DEF TrailInv, IInv
<1>7. pc >= 2 /\ t[2].node = 1
  <2>1. pc # 1
    <3>1. <<>> # <<1>>
      OBVIOUS
    <3> QED
      BY <1>6, <3>1 DEF Trail
  <2> QED
    BY <1>2, <1>3, <1>6, <2>1 DEF Trail
<1>8. 2 \in 2 .. pc
  BY <1>7
<1>9. Body = List(1, "stmts") /\ Body \in Seq(DOMAIN prog) /\ 1 \in DOMAIN prog /\ prog[1].kind \notin Loops
      /\ Len(Body) \in Nat
  BY <1>6, BodyType DEF Loops
<1>10. Whole(1, Code(Body))
  BY <1>6, <1>9, BranchPieces
<1>11. PICK sp : Placing(t, pc, lp, Code(Body), sp)
  BY <1>6, <1>7, <1>8, <1>10, WholeUnfolds DEF Unfolds
<1>12. PICK R : R = Code(Body)
  OBVIOUS
<1>13. PICK Q : Q = RestOf(<<>>, 0)
  OBVIOUS
<1>14. <<>> \in Seq(Entries) /\ Len(<<>>) = 0 /\ 0 \in 0 .. Len(Body)
  BY <1>9
<1>15. StandsIn(R, Q, 0)
  <2>1. RestFacts(<<>>, 0, Q)
    BY <1>6, <1>13, <1>14, RestIs
  <2>2. /\ DOMAIN Q = 1 .. 0 + Len(Body) - 0
        /\ \A i \in 0 + 1 .. Len(Body) : Q[0 + i - 0] = Entry("node", Body[i])
    BY <1>14, <2>1 DEF RestFacts
  <2>3. DOMAIN R = 1 .. Len(Body) /\ \A i \in 1 .. Len(Body) : R[i] = Entry("node", Body[i])
    BY <1>6, <1>9, <1>12, CodeType
  <2>4. DOMAIN Q = 1 .. Len(Body) /\ \A i \in 1 .. Len(Body) : Q[i] = Entry("node", Body[i])
    BY <1>9, <2>2
  <2> QED
    BY <1>9, <2>3, <2>4 DEF StandsIn
<1>16. PICK sq : Shrinks(t, pc, lp, R, sp, Q, sq)
  BY <1>11, <1>12, <1>15, PartShrinks
<1>17. PICK wr : wr = written
  OBVIOUS
<1>18. PICK ho : ho = holds
  OBVIOUS
<1>19. Orderly(t, pc, lp, Q, sq, wr, ho)
  <2>1. wr = Params /\ ho = [r \in Regs |-> NoSymbol]
    BY <1>2, <1>17, <1>18 DEF Untouched
  <2>2. \A u \in Symbols : Placed(u) => ho[assigned_reg[u]] # u
    <3>1. \A u \in Symbols : Placed(u) => assigned_reg[u] \in Regs
      BY DEF IInv, LocalScanTypeOK, Placed
    <3> QED
      BY <2>1, <3>1, SymbolsAssumption
  <2>3. DoneWith(t, pc, Q, sq, wr, ho)
    BY <2>1, <2>2 DEF DoneWith, Sharing
  <2>4. LostToLater(wr, ho)
    BY <2>1 DEF LostToLater
  <2> QED
    BY <1>16, <2>1, <2>3, <2>4, ParamsAreSymbols DEF Orderly, Shrinks
<1>20. prog' = prog /\ seen' = seen /\ assigned_reg' = assigned_reg /\ loops' = loops /\ pseudo_pc' = pseudo_pc
       /\ todo' = <<>> /\ kont' = <<>> /\ top' = 0 /\ misread' = {} /\ written' = written /\ holds' = holds
  BY <1>1, <1>2 DEF walked, scanned, ran, Untouched
<1>21. Trail(t, pc, <<>>, sn, lp)'
  BY <1>6, <1>20, SameTrail
<1>22. TrailInv(t)'
  BY <1>3, <1>4, <1>5, <1>20, <1>21 DEF TrailInv
<1>23. Orderly(t, pc, lp, RestOf(<<>>, 0), sq, wr, ho)'
  <2>1. Orderly(t, pc, lp, RestOf(<<>>, 0), sq, wr, ho)
    BY <1>13, <1>19
  <2> QED
    BY <1>20, <2>1, SameOrderly
<1>24. RunOK(t)'
  <2>1. Orderly(t, pseudo_pc, loops, RestOf(kont, top), sq, written, holds)'
    BY <1>3, <1>4, <1>17, <1>18, <1>20, <1>23
  <2>2. kont' \in Seq(Entries)' /\ top' \in 0 .. Len(Body)' /\ misread' \subseteq Params
    BY <1>9, <1>14, <1>20 DEF Entries, Body
  <2> QED
    BY <2>1, <2>2 DEF RunOK
<1> QED
  BY <1>1, <1>2, <1>20, <1>22, <1>24 DEF RunInv

(* To a statement of the body behind the one that runs. *)
LEMMA RunsAhead ==
  ASSUME IInv, NEW t, RunOK(t), NEW i \in top + 1 .. Len(Body)
  PROVE  \E sp : RunsOn(t, Code(<<Body[i]>>), i, sp, written, holds)
<1>1. PICK ko \in Seq(Entries) : ko = kont
  BY DEF RunOK
<1>2. PICK tp \in 0 .. Len(Body) : tp = top
  BY DEF RunOK
<1>3. PICK wr : wr = written
  OBVIOUS
<1>4. PICK ho : ho = holds
  OBVIOUS
<1>5. PICK k2 : k2 = Code(<<Body[i]>>)
  OBVIOUS
<1>6. PICK j \in tp + 1 .. Len(Body) : j = i
  BY <1>2
<1>7. /\ \E o : StandsIn(RestOf(ko, tp), RestOf(k2, j), o)
      /\ k2 \in Seq(Entries) /\ j \in 0 .. Len(Body)
  BY <1>5, <1>6, RestJump DEF IInv
<1>8. PICK R : R = RestOf(ko, tp)
  OBVIOUS
<1>9. PICK sp : Orderly(t, pseudo_pc, loops, R, sp, wr, ho)
  BY <1>1, <1>2, <1>3, <1>4, <1>8 DEF RunOK
<1>10. PICK o : StandsIn(R, RestOf(k2, j), o)
  BY <1>7, <1>8
<1>11. prog \in Programs
  BY DEF IInv
<1>12. \E sq : RunsOn(t, k2, j, sq, wr, ho)
  BY <1>7, <1>9, <1>10, <1>11, RunsOnFrom
<1> QED
  BY <1>3, <1>4, <1>5, <1>6, <1>12

LEMMA KontHead ==
  ASSUME NEW t, RunOK(t), kont # <<>>
  PROVE  Now = kont[1] /\ Now \in Entries /\ Tail(kont) \in Seq(Entries) /\ SuffixOf(kont, Tail(kont), 1)
<1>1. kont \in Seq(Entries)
  BY DEF RunOK
<1> QED
  BY <1>1, TailIsSuffix DEF Now

(* Steps that only drop entries of kont. *)
LEMMA FallThroughRuns ==
  ASSUME IInv, NEW t, RunsFrom(t), FallThrough \/ BreakOrContinue
  PROVE  RunInv'
<1>1. /\ UNCHANGED <<prog, phase, walked, scanned>> /\ strayed' = strayed /\ misread' = misread
      /\ top' = top /\ written' = written /\ holds' = holds /\ kont # <<>>
  BY DEF FallThrough, BreakOrContinue, Running, Doing
<1>2. ASSUME strayed' = {} PROVE misread' \subseteq Params /\ \E sp : RunsOn(t, kont', top', sp, written', holds')
  <2>1. RunOK(t)
    BY <1>1, <1>2 DEF RunsFrom
  <2>2. kont \in Seq(Entries) /\ misread' \subseteq Params
    BY <1>1, <2>1 DEF RunOK
  <2>3. PICK k2 : k2 = kont'
    OBVIOUS
  <2>4. k2 \in Seq(Entries) /\ \E d : SuffixOf(kont, k2, d)
    <3>1. CASE FallThrough
      <4>1. kont' = Tail(kont)
        BY <3>1 DEF FallThrough
      <4> QED
        BY <1>1, <2>1, <2>3, <4>1, KontHead
    <3>2. CASE BreakOrContinue
      <4>1. PICK i \in DOMAIN kont : kont' = SubSeq(kont, i + 1, Len(kont))
        BY <3>2 DEF BreakOrContinue
      <4>2. Len(kont) \in Nat /\ i \in 1 .. Len(kont)
        BY <2>2
      <4>3. /\ SubSeq(kont, i + 1, Len(kont)) \in Seq(Entries)
            /\ Len(SubSeq(kont, i + 1, Len(kont))) = Len(kont) - i
            /\ \A j \in 1 .. Len(kont) - i : SubSeq(kont, i + 1, Len(kont))[j] = kont[i + j]
        <5>1. i + 1 \in 1 .. Len(kont) + 1
          BY <4>2
        <5>2. PICK a \in 1 .. Len(kont) + 1 : a = i + 1
          BY <5>1
        <5>3. PICK q : q = SubSeq(kont, a, Len(kont))
          OBVIOUS
        <5>4. q \in Seq(Entries) /\ Len(q) = Len(kont) + 1 - a /\ \A j \in 1 .. Len(q) : q[j] = kont[a + j - 1]
          BY <2>2, <4>2, <5>3
        <5>5. Len(q) = Len(kont) - i
          BY <4>2, <5>2, <5>4
        <5>6. \A j \in 1 .. Len(q) : a + j - 1 = i + j
          BY <4>2, <5>2
        <5> QED
          BY <5>2, <5>3, <5>4, <5>5, <5>6
      <4>4. SuffixOf(kont, k2, i)
        <5>1. Len(k2) = Len(kont) - i /\ \A j \in 1 .. Len(kont) - i : k2[j] = kont[i + j]
          BY <2>3, <4>1, <4>3
        <5>2. Len(k2) + i = Len(kont) /\ i \in Nat
          BY <4>2, <5>1
        <5> QED
          BY <5>1, <5>2 DEF SuffixOf
      <4> QED
        BY <2>3, <4>1, <4>3, <4>4
    <3> QED
      BY <3>1, <3>2
  <2>5. PICK d : SuffixOf(kont, k2, d)
    BY <2>4
  <2>6. \E sp : RunsOn(t, k2, top, sp, written, holds)
    BY <2>1, <2>4, <2>5, RunsPast
  <2> QED
    BY <1>1, <2>2, <2>3, <2>6
<1> QED
  BY <1>1, <1>2, RunStep DEF RunsFrom

LEMMA AheadRuns ==
  ASSUME IInv, NEW t, RunsFrom(t), NextStatement \/ Goto
  PROVE  RunInv'
<1>1. /\ UNCHANGED <<prog, phase, walked, scanned>> /\ misread' = misread
      /\ written' = written /\ holds' = holds
  BY DEF NextStatement, Goto
<1>2. ASSUME strayed' = {} PROVE misread' \subseteq Params /\ \E sp : RunsOn(t, kont', top', sp, written', holds')
  <2>1. strayed = {}
    BY <1>2 DEF NextStatement, Goto
  <2>2. RunOK(t) /\ misread' \subseteq Params /\ top \in 0 .. Len(Body)
    BY <1>1, <2>1 DEF RunsFrom, RunOK
  <2>3. Len(Body) \in Nat /\ DOMAIN Body = 1 .. Len(Body)
    BY BodyType DEF IInv
  <2>4. PICK i \in top + 1 .. Len(Body) : top' = i /\ kont' = Code(<<Body[i]>>)
    <3>1. CASE NextStatement
      <4>1. top < Len(Body) /\ top' = top + 1 /\ kont' = Code(<<Body[top + 1]>>)
        BY <3>1 DEF NextStatement
      <4> QED
        BY <2>2, <2>3, <4>1
    <3>2. CASE Goto
      <4>1. PICK i \in DOMAIN Body : /\ kont' = Code(<<Body[i]>>) /\ top' = i
                                     /\ strayed' = IF i <= top THEN strayed \cup {"goto"} ELSE strayed
        BY <3>2 DEF Goto
      <4>2. ~(i <= top)
        BY <1>2, <4>1
      <4>3. i \in top + 1 .. Len(Body)
        BY <2>2, <2>3, <4>2
      <4> QED
        BY <4>1, <4>3
    <3> QED
      BY <3>1, <3>2
  <2>5. \E sp : RunsOn(t, Code(<<Body[i]>>), i, sp, written, holds)
    BY <2>2, RunsAhead
  <2> QED
    BY <1>1, <2>2, <2>4, <2>5
<1> QED
  BY <1>1, <1>2, RunStep DEF RunsFrom

(* A number has no operands, and every other node may change something. *)
LEMMA QuietNumber ==
  ASSUME prog \in Programs, NEW e \in Entries, e.does = "node", e.node \in DOMAIN prog,
         prog[e.node].kind # "var", NEW code \in Unfold(e.node)
  PROVE  Changes(e) \/ \A i \in DOMAIN code : ~Changes(code[i])
<1>1. CASE prog[e.node].kind = "num"
  <2>1. {"lhs", "rhs"} \cap DOMAIN prog[e.node] = {}
    BY <1>1, ProgramsAssumption
  <2>2. "lhs" \notin DOMAIN prog[e.node] /\ "rhs" \notin DOMAIN prog[e.node]
    BY <2>1
  <2>3. Operands(e.node) = <<>> \o <<>>
    BY <1>1, <2>2 DEF Operands, Kid
  <2>4. DOMAIN Operands(e.node) = {}
    BY <2>3
  <2>5. code = Code(Operands(e.node))
    BY <1>1 DEF Unfold
  <2>6. DOMAIN code = {}
    BY <2>4, <2>5 DEF Code
  <2> QED
    BY <2>6
<1>2. CASE prog[e.node].kind # "num"
  BY <1>2 DEF Changes, Composite
<1> QED
  BY <1>1, <1>2

LEMMA ExecuteRuns ==
  ASSUME IInv, NEW t, RunsFrom(t), Execute
  PROVE  RunInv'
<1>1. /\ UNCHANGED <<prog, phase, walked, scanned>> /\ misread' = misread
      /\ top' = top /\ written' = written /\ holds' = holds /\ kont # <<>>
      /\ Now.does = "node" /\ prog[Now.node].kind \in Kinds \ {"var", "break", "continue", "goto"}
      /\ strayed' = IF OutOfOrder(Now.node) THEN strayed \cup {"order"} ELSE strayed
  BY DEF Execute, Running, Doing
<1>2. PICK code \in Unfold(Now.node) : kont' = code \o Tail(kont)
  BY DEF Execute
<1>3. ASSUME strayed' = {} PROVE misread' \subseteq Params /\ \E sp : RunsOn(t, kont', top', sp, written', holds')
  <2>1. strayed = {} /\ ~OutOfOrder(Now.node)
    BY <1>1, <1>3
  <2>2. RunOK(t) /\ misread' \subseteq Params
    BY <1>1, <2>1 DEF RunsFrom, RunOK
  <2>3. Now = kont[1] /\ Now \in Entries
    BY <1>1, <2>2, KontHead
  <2>4. Active(kont[1])
    BY <1>1, <2>3 DEF Active
  <2>5. PICK pc \in Nat : pc = pseudo_pc
    BY DEF IInv, LocalScanTypeOK
  <2>6. PICK lp : lp = loops
    OBVIOUS
  <2>7. PICK sn : sn = seen
    OBVIOUS
  <2>8. Trail(t, pc, <<>>, sn, lp) /\ prog \in Programs
    BY <2>5, <2>6, <2>7 DEF RunsFrom, TrailInv, IInv
  <2>9. ASSUME NEW k \in 2 .. pc, Fits(t, kont[1], k) PROVE Unfolds(t, pc, lp, k, code)
    <3>1. t[k].node = Now.node
      BY <2>3, <2>4, <2>9 DEF Fits
    <3>2. code \in Unfold(t[k].node) /\ ~OutOfOrder(t[k].node)
      BY <2>1, <3>1
    <3> QED
      BY <2>8, <3>2, UnfoldPlaced
  <2>10. Now.node \in DOMAIN prog \/ Now.node = 0
    BY <2>3 DEF Entries
  <2>11. PICK sp : Placing(t, pc, lp, RestOf(kont, top), sp)
    BY <2>2, <2>5, <2>6 DEF RunOK, Orderly
  <2>12. Now.node \in DOMAIN prog
    <3>1. RestFacts(kont, top, RestOf(kont, top))
      BY <2>2, <2>8, RestIs DEF RunOK
    <3>2. 1 \in 1 .. Len(kont)
      BY <1>1, <2>2 DEF RunOK
    <3>3. 1 \in DOMAIN RestOf(kont, top) /\ RestOf(kont, top)[1] = kont[1]
      BY <3>1, <3>2 DEF RestFacts
    <3>4. sp[1] \in 2 .. pc /\ Fits(t, kont[1], sp[1])
      BY <2>11, <3>3 DEF Placing
    <3>5. t[sp[1]].node = Now.node
      BY <2>3, <2>4, <3>4 DEF Fits
    <3> QED
      BY <2>8, <3>4, <3>5, TrailType
  <2>13. Changes(kont[1]) \/ \A i \in DOMAIN code : ~Changes(code[i])
    BY <1>1, <2>3, <2>8, <2>12, QuietNumber
  <2>14. \A k \in 2 .. pseudo_pc : Fits(t, kont[1], k) => Unfolds(t, pseudo_pc, loops, k, code)
    BY <2>5, <2>6, <2>9
  <2>15. todo = <<>> /\ TrailInv(t)
    BY DEF RunsFrom
  <2>16. \E s : RunsOn(t, code \o Tail(kont), top, s, written, holds)
    BY <1>1, <2>2, <2>4, <2>13, <2>14, <2>15, RunsInto
  <2> QED
    BY <1>1, <1>2, <2>2, <2>16
<1> QED
  BY <1>1, <1>3, RunStep DEF RunsFrom

LEMMA JumpBackRuns ==
  ASSUME IInv, NEW t, RunsFrom(t), JumpBack
  PROVE  RunInv'
<1>1. /\ UNCHANGED <<prog, phase, walked, scanned>> /\ misread' = misread /\ strayed' = strayed
      /\ top' = top /\ written' = written /\ holds' = holds /\ kont # <<>> /\ Now.does = "again"
  BY DEF JumpBack, Doing
<1>2. PICK code \in {Turn(Now.node), Exit(Now.node)} : kont' = code \o Tail(kont)
  BY DEF JumpBack
<1>3. ASSUME strayed' = {} PROVE misread' \subseteq Params /\ \E sp : RunsOn(t, kont', top', sp, written', holds')
  <2>1. RunOK(t) /\ misread' \subseteq Params
    BY <1>1, <1>3 DEF RunsFrom, RunOK
  <2>2. Now = kont[1] /\ Active(kont[1]) /\ Changes(kont[1])
    BY <1>1, <2>1, KontHead DEF Active, Changes
  <2>3. PICK pc \in Nat : pc = pseudo_pc
    BY DEF IInv, LocalScanTypeOK
  <2>4. PICK lp : lp = loops
    OBVIOUS
  <2>5. PICK sn : sn = seen
    OBVIOUS
  <2>6. Trail(t, pc, <<>>, sn, lp) /\ prog \in Programs
    BY <2>3, <2>4, <2>5 DEF RunsFrom, TrailInv, IInv
  <2>7. ASSUME NEW k \in 2 .. pc, Fits(t, kont[1], k) PROVE Unfolds(t, pc, lp, k, code)
    <3>1. t[k].node = Now.node /\ prog[Now.node].kind \in Loops
      BY <1>1, <2>2, <2>7 DEF Fits
    <3>2. Now.node \in DOMAIN prog
      BY <2>6, <3>1, TrailType
    <3>3. Whole(t[k].node, code)
      BY <2>6, <3>1, <3>2, TurnPiece
    <3> QED
      BY <2>6, <3>3, WholeUnfolds
  <2>8. \A k \in 2 .. pseudo_pc : Fits(t, kont[1], k) => Unfolds(t, pseudo_pc, loops, k, code)
    BY <2>3, <2>4, <2>7
  <2>9. todo = <<>> /\ TrailInv(t)
    BY DEF RunsFrom
  <2>10. \E s : RunsOn(t, code \o Tail(kont), top, s, written, holds)
    BY <1>1, <2>1, <2>2, <2>8, <2>9, RunsInto
  <2> QED
    BY <1>1, <1>2, <2>1, <2>10
<1> QED
  BY <1>1, <1>3, RunStep DEF RunsFrom

(* The head of kont, and how it is placed. *)
HeadPlaced(t, pc, lp, sn, R, sp, wr, ho) ==
  /\ Orderly(t, pc, lp, R, sp, wr, ho) /\ 1 \in DOMAIN R /\ R[1] = kont[1]
  /\ Trail(t, pc, <<>>, sn, lp)

LEMMA KontPlaced ==
  ASSUME IInv, NEW t, RunsFrom(t), RunOK(t), kont # <<>>, NEW R, R = RestOf(kont, top)
  PROVE  \E sp : HeadPlaced(t, pseudo_pc, loops, seen, R, sp, written, holds)
<1>1. PICK sp : Orderly(t, pseudo_pc, loops, R, sp, written, holds)
  BY DEF RunOK
<1>2. RestFacts(kont, top, R)
  BY RestIs DEF RunOK, IInv
<1>3. 1 \in 1 .. Len(kont)
  BY DEF RunOK
<1>4. 1 \in DOMAIN R /\ R[1] = kont[1]
  BY <1>2, <1>3 DEF RestFacts
<1>5. Trail(t, pseudo_pc, <<>>, seen, loops)
  BY DEF RunsFrom, TrailInv
<1>6. HeadPlaced(t, pseudo_pc, loops, seen, R, sp, written, holds)
  BY <1>1, <1>4, <1>5 DEF HeadPlaced
<1> QED
  BY <1>6

LEMMA ReadRuns ==
  ASSUME IInv, NEW t, RunsFrom(t), Read
  PROVE  RunInv'
<1> DEFINE v == prog[Now.node].sym
<1>1. /\ UNCHANGED <<prog, phase, walked, scanned>> /\ strayed' = strayed
      /\ top' = top /\ written' = written /\ holds' = holds /\ kont # <<>> /\ kont' = Tail(kont)
      /\ Now.does = "node" /\ prog[Now.node].kind = "var"
      /\ misread' = IF v \in written /\ assigned_reg[v] # NoReg /\ holds[assigned_reg[v]] # v
                    THEN misread \cup {v} ELSE misread
  BY DEF Read, Running, Doing
<1> HIDE DEF v
<1>2. ASSUME strayed' = {} PROVE misread' \subseteq Params /\ \E sp : RunsOn(t, kont', top', sp, written', holds')
  <2>1. RunOK(t) /\ misread \subseteq Params
    BY <1>1, <1>2 DEF RunsFrom, RunOK
  <2>2. Now = kont[1] /\ Tail(kont) \in Seq(Entries) /\ SuffixOf(kont, Tail(kont), 1)
    BY <1>1, <2>1, KontHead
  <2>3. \E sp : RunsOn(t, Tail(kont), top, sp, written, holds)
    BY <2>1, <2>2, RunsPast
  <2>4. ASSUME v \in written, assigned_reg[v] # NoReg, holds[assigned_reg[v]] # v PROVE v \in Params
    <3>1. PICK R : R = RestOf(kont, top)
      OBVIOUS
    <3>2. PICK sp : HeadPlaced(t, pseudo_pc, loops, seen, R, sp, written, holds)
      BY <1>1, <2>1, <3>1, KontPlaced
    <3>3. PICK pc \in Nat : pc = pseudo_pc
      BY DEF IInv, LocalScanTypeOK
    <3>4. PICK lp : lp = loops
      OBVIOUS
    <3>5. PICK wr : wr = written
      OBVIOUS
    <3>6. PICK ho : ho = holds
      OBVIOUS
    <3>7. /\ Orderly(t, pc, lp, R, sp, wr, ho) /\ 1 \in DOMAIN R /\ R[1] = kont[1]
          /\ Trail(t, pc, <<>>, seen, lp)
      BY <3>2, <3>3, <3>4, <3>5, <3>6 DEF HeadPlaced
    <3>8. PICK w : w = v
      OBVIOUS
    <3>9. Misses(R, w, wr, ho)
      BY <1>1, <2>2, <2>4, <3>5, <3>6, <3>7, <3>8 DEF v, Misses
    <3>10. prog \in Programs /\ LocalScanTypeOK
      BY DEF IInv
    <3>11. w \in Params
      BY <3>7, <3>9, <3>10, ReadFinds, Zenon
    <3> QED
      BY <3>8, <3>11
  <2>5. misread' \subseteq Params
    BY <1>1, <2>1, <2>4
  <2> QED
    BY <1>1, <2>3, <2>5
<1> QED
  BY <1>1, <1>2, RunStep DEF RunsFrom

LEMMA StoreRuns ==
  ASSUME IInv, NEW t, RunsFrom(t), Store
  PROVE  RunInv'
<1> DEFINE v == prog[Now.node].sym
<1>1. /\ UNCHANGED <<prog, phase, walked, scanned>> /\ strayed' = strayed /\ misread' = misread
      /\ top' = top /\ kont # <<>> /\ kont' = Tail(kont) /\ Now.does = "put"
      /\ written' = written \cup {v}
      /\ holds' = [r \in Regs |-> IF r = assigned_reg[v] THEN v ELSE holds[r]]
  BY DEF Store, Doing
<1> HIDE DEF v
<1>2. ASSUME strayed' = {} PROVE misread' \subseteq Params /\ \E sp : RunsOn(t, kont', top', sp, written', holds')
  <2>1. RunOK(t) /\ misread' \subseteq Params
    BY <1>1, <1>2 DEF RunsFrom, RunOK
  <2>2. Now = kont[1] /\ Tail(kont) \in Seq(Entries) /\ SuffixOf(kont, Tail(kont), 1)
    BY <1>1, <2>1, KontHead
  <2>3. PICK R : R = RestOf(kont, top)
    OBVIOUS
  <2>4. PICK sp : HeadPlaced(t, pseudo_pc, loops, seen, R, sp, written, holds)
    BY <1>1, <2>1, <2>3, KontPlaced
  <2>5. PICK pc \in Nat : pc = pseudo_pc
    BY DEF IInv, LocalScanTypeOK
  <2>6. PICK wr : wr = written
    OBVIOUS
  <2>7. PICK ho : ho = holds
    OBVIOUS
  <2>8. /\ Orderly(t, pc, loops, R, sp, wr, ho) /\ 1 \in DOMAIN R /\ R[1] = kont[1]
        /\ Trail(t, pc, <<>>, seen, loops)
    BY <2>4, <2>5, <2>6, <2>7 DEF HeadPlaced
  <2>9. PICK w : w = v
    OBVIOUS
  <2>10. R[1].does = "put" /\ w = prog[R[1].node].sym
    BY <1>1, <2>2, <2>8, <2>9 DEF v
  <2>11. PICK ko \in Seq(Entries) : ko = kont
    BY <2>1 DEF RunOK
  <2>12. PICK tp \in 0 .. Len(Body) : tp = top
    BY <2>1 DEF RunOK
  <2>13. PICK k2 \in Seq(Entries) : k2 = Tail(kont)
    BY <2>2
  <2>14. PICK R2 : R2 = RestOf(k2, tp)
    OBVIOUS
  <2>15. StandsIn(R, R2, 1)
    <3>1. SuffixOf(ko, k2, 1)
      BY <2>2, <2>11, <2>13
    <3>2. StandsIn(RestOf(ko, tp), RestOf(k2, tp), 1)
      BY <3>1, RestSuffix DEF IInv
    <3> QED
      BY <2>3, <2>11, <2>12, <2>14, <3>2
  <2>16. 0 \notin DOMAIN R2
    <3>1. DOMAIN R2 = 1 .. Len(k2) + Len(Body) - tp
      BY <2>14 DEF RestOf
    <3> QED
      BY <3>1
  <2>17. PICK sq : Orderly(t, pc, loops, R2, sq, wr \cup {w}, Stored(w, ho))
    BY <2>8, <2>10, <2>15, <2>16, StoreOrderly
  <2>18. written' = wr \cup {w} /\ holds' = Stored(w, ho) /\ kont' = k2 /\ top' = tp
    BY <1>1, <2>6, <2>7, <2>9, <2>12, <2>13 DEF Stored
  <2>19. RunsOn(t, k2, tp, sq, wr \cup {w}, Stored(w, ho))
    BY <2>5, <2>14, <2>17 DEF RunsOn
  <2> QED
    BY <2>1, <2>18, <2>19
<1> QED
  BY <1>1, <1>2, RunStep DEF RunsFrom

LEMMA RunSame ==
  ASSUME IInv, RunInv, UNCHANGED vars
  PROVE  RunInv'
<1>1. UNCHANGED <<prog, phase, walked, scanned>> /\ UNCHANGED ran
  BY DEF vars
<1>2. CASE phase # "run"
  <2>1. phase' # "run" /\ (phase' # "walk" => todo = <<>>)
    BY <1>1, <1>2 DEF RunInv
  <2> QED
    BY <1>1, <1>2, <2>1, RunIdle
<1>3. CASE phase = "run"
  <2>1. PICK t : TrailInv(t) /\ pseudo_pc > 0 /\ todo = <<>> /\ (strayed = {} => RunOK(t))
    BY <1>3 DEF RunInv
  <2>2. kont' = kont /\ top' = top /\ written' = written /\ holds' = holds /\ misread' = misread /\ strayed' = strayed
    BY <1>1 DEF ran
  <2>3. ASSUME strayed' = {} PROVE misread' \subseteq Params /\ \E sp : RunsOn(t, kont', top', sp, written', holds')
    BY <2>1, <2>2, <2>3 DEF RunOK, RunsOn
  <2> QED
    BY <1>1, <1>3, <2>1, <2>3, RunStep
<1> QED
  BY <1>2, <1>3

LEMMA RunNext == IInv /\ IInv' /\ RunInv /\ [Next]_vars => RunInv'
<1> SUFFICES ASSUME IInv, IInv', RunInv, [Next]_vars PROVE RunInv'
  OBVIOUS
<1>1. CASE UNCHANGED vars \/ Done
  BY <1>1, RunSame DEF Done
<1>2. CASE VisitLoop \/ LeaveLoop \/ VisitVar \/ VisitAddr \/ VisitOther
  BY <1>2, RunWalk
<1>3. CASE Select
  <2>1. /\ phase = "walk" /\ phase' = "scan" /\ todo = <<>> /\ UNCHANGED <<prog, walked, ran>>
    BY <1>3 DEF Select
  <2> QED
    BY <2>1, RunIdle
<1>4. CASE Scan
  <2>1. phase = "scan" /\ phase' = "scan" /\ UNCHANGED <<prog, walked, ran>>
    BY <1>4 DEF Scan
  <2>2. todo = <<>>
    BY <2>1 DEF RunInv
  <2> QED
    BY <2>1, <2>2, RunIdle
<1>5. CASE Emit
  BY <1>5, RunBegins
<1>6. CASE NextStatement \/ Execute \/ JumpBack \/ Read \/ Store \/ FallThrough \/ BreakOrContinue \/ Goto
  <2>1. phase = "run"
    BY <1>6 DEF NextStatement, Execute, JumpBack, Read, Store, FallThrough, BreakOrContinue, Goto, Running, Doing
  <2>2. PICK t : RunsFrom(t)
    BY <2>1 DEF RunInv, RunsFrom
  <2> QED
    BY <1>6, <2>2, AheadRuns, ExecuteRuns, JumpBackRuns, ReadRuns, StoreRuns, FallThroughRuns
<1> QED
  BY <1>1, <1>2, <1>3, <1>4, <1>5, <1>6 DEF Next

(* Only a local in a register is misread. *)
MisreadInv ==
  /\ phase # "run" => misread = {}
  /\ \A v \in misread : Placed(v)

LEMMA MisreadNext ==
  ASSUME IInv, MisreadInv, [Next]_vars
  PROVE  MisreadInv'
<1>1. CASE VisitLoop \/ LeaveLoop \/ VisitVar \/ VisitAddr \/ VisitOther \/ Select
  BY <1>1 DEF MisreadInv, VisitLoop, LeaveLoop, VisitVar, VisitAddr, VisitOther, Select, Visiting, ran
<1>2. CASE Scan \/ Emit
  BY <1>2 DEF MisreadInv, Scan, Emit, ran
<1>3. CASE NextStatement \/ Execute \/ JumpBack \/ Store \/ FallThrough \/ BreakOrContinue \/ Goto
           \/ Done \/ UNCHANGED vars
  BY <1>3 DEF MisreadInv, NextStatement, Execute, JumpBack, Store, FallThrough, BreakOrContinue,
     Goto, Done, vars, ran, scanned, Placed
<1>4. CASE Read
  <2> DEFINE v == prog[Now.node].sym
  <2>1. /\ misread' = misread \/ (misread' = misread \cup {v} /\ assigned_reg[v] # NoReg)
        /\ phase = "run" /\ phase' = phase /\ assigned_reg' = assigned_reg
    BY <1>4 DEF Read, Running, Doing, scanned
  <2> QED
    BY <2>1 DEF MisreadInv, Placed
<1> QED
  BY <1>1, <1>2, <1>3, <1>4 DEF Next

(* A local is read with the value last stored to it, as long as the        *)
(* function has not strayed from the order of the walk, but for parameters *)
(* that stand behind an aggregate.                                         *)
THEOREM ReadsAreFaithful == Spec => []ReadsSeeTheLastWrite
<1>1. IInv /\ RunInv /\ MisreadInv => ReadsSeeTheLastWrite
  <2> SUFFICES ASSUME IInv, RunInv, MisreadInv, strayed = {}, NEW v \in misread
               PROVE  v \in Params /\ ~BehindWords(v)
    BY DEF ReadsSeeTheLastWrite
  <2>1. v \in Params
    BY DEF RunInv, RunOK, Untouched
  <2>2. v \in Symbols /\ Placed(v)
    BY <2>1, ParamsAreSymbols DEF MisreadInv
  <2> QED
    BY <2>1, <2>2, PlainInv DEF OnlyPlainLocalsInRegisters, Placed
<1>2. IInv /\ RunInv /\ MisreadInv /\ [Next]_vars => IInv' /\ RunInv' /\ MisreadInv'
  BY NextInv, RunNext, MisreadNext
<1>3. Init => IInv /\ RunInv /\ MisreadInv
  BY InitInv, RunInit DEF Init, MisreadInv
<1> QED
  BY <1>1, <1>2, <1>3, PTL DEF Spec
=============================================================================
