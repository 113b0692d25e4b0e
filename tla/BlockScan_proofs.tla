-------------------------- MODULE BlockScan_proofs --------------------------
(***************************************************************************)
(* That a register belongs to one value from its definition to the last    *)
(* place that mentions it, and to the end of the function if the value     *)
(* enters a loop, for every set of functions and every number of registers.*)
(*                                                                         *)
(* NumberInv says what the numbering keeps, LoopInv what the extension     *)
(* over loops achieves, ScanInv what the scan keeps: in each register the  *)
(* intervals follow each other.                                            *)
(*                                                                         *)
(* And that the emitted code reads every value that is not exposed from a  *)
(* register that holds it.  For that the intervals are compared with the   *)
(* places where a value is needed: NeededInside says that they contain     *)
(* them, and RunInv that a needed value is in its register.                *)
(***************************************************************************)
EXTENDS BlockScan, FiniteSetTheorems, WellFoundedInduction, TLAPS

HasRegister(v) == phys_reg[v] # NoReg

CursorOK ==
  /\ cursor \in Nat \X Nat
  /\ phase = "layout" => cursor = <<1, 1>>
  /\ cursor[1] \in DOMAIN order => cursor[2] \in DOMAIN Code(order[cursor[1]])

NumberInv ==
  /\ \A m \in mentions : m[2] <= last_use[m[1]]
  /\ \A u, v \in Values : u # v /\ def_seq[u] >= 0 => def_seq[u] # def_seq[v]

LoopInv ==
  phase \in {"scan", "run"} =>
    \A v \in Values, h \in Headers, m \in mentions :
      m[1] = v /\ def_seq[v] >= 0 /\ def_seq[v] < lscan_seq[h] /\ m[2] >= lscan_seq[h] =>
        last_use[v] = LastSeq

ScanInv ==
  /\ phase \in {"layout", "number", "loops"} =>
       intervals = {} /\ active = {} /\ \A v \in Values : ~HasRegister(v)
  /\ \A v \in intervals : def_seq[v] >= 0
  /\ \A v \in Values : HasRegister(v) => def_seq[v] >= 0 /\ v \notin intervals
  /\ \A u, v \in Values :
       HasRegister(u) /\ v \in intervals =>
         def_seq[u] <= def_seq[v] /\ (u \notin active => End(u) < def_seq[v])
  /\ \A u, v \in Values :
       u # v /\ HasRegister(v) /\ phys_reg[u] = phys_reg[v] /\ def_seq[v] <= def_seq[u] =>
         End(v) < def_seq[u]

IInv ==
  prog \in Programs /\ BlockScanTypeOK /\ CursorOK /\ NumberInv /\ LoopInv /\ ScanInv

-----------------------------------------------------------------------------
LEMMA CodeType ==
  ASSUME prog \in Programs, NEW b \in DOMAIN prog
  PROVE  /\ Len(Code(b)) \in Nat \ {0} /\ DOMAIN Code(b) = 1 .. Len(Code(b))
         /\ \A i \in DOMAIN Code(b) : /\ Code(b)[i].dst \in Values \cup {Nothing}
                                      /\ Operands(Code(b)[i]) \subseteq Values
<1>1. Len(prog[b].code) \in Nat \ {0} /\ DOMAIN prog[b].code = 1 .. Len(prog[b].code)
  BY ProgramsAssumption, Zenon
<1>2. ASSUME NEW i \in DOMAIN prog[b].code
      PROVE  /\ prog[b].code[i].dst \in Values \cup {Nothing}
             /\ Operands(prog[b].code[i]) \subseteq Values
  <2> DEFINE ins == prog[b].code[i]
  <2>1. /\ ins.dst \in Values \cup {Nothing} /\ ins.uses \subseteq Values
        /\ \A q \in DOMAIN ins.from : ins.from[q] \in Values
    BY <1>2, ProgramsAssumption, Zenon
  <2> HIDE DEF ins
  <2>2. Operands(ins) \subseteq Values
    BY <2>1 DEF Operands
  <2> QED
    BY <2>1, <2>2 DEF ins
<1> QED
  BY <1>1, <1>2 DEF Code

LEMMA SuccType ==
  ASSUME prog \in Programs, NEW b \in DOMAIN prog, NEW i \in DOMAIN Succs(b)
  PROVE  Succs(b)[i] \in DOMAIN prog
BY ProgramsAssumption, Zenon DEF Succs

(* The run changes nothing the invariant speaks of. *)
LEMMA RunKeeps ==
  ASSUME IInv, UNCHANGED <<prog, phase, placed, numbered, last_use, scanned>>
  PROVE  IInv'
<1>1. BlockScanTypeOK'
  BY DEF IInv, BlockScanTypeOK, placed, numbered, scanned, Unplaced, LastSeq
<1>2. CursorOK' /\ NumberInv'
  BY DEF IInv, CursorOK, NumberInv, placed, numbered, Code
<1>3. LoopInv'
  BY DEF IInv, LoopInv, placed, numbered, Headers, Succs, LastSeq
<1>4. ScanInv'
  BY DEF IInv, ScanInv, numbered, scanned, HasRegister, End
<1> QED
  BY <1>1, <1>2, <1>3, <1>4 DEF IInv

LEMMA InitHolds == Init => IInv
<1> SUFFICES ASSUME Init PROVE IInv
  OBVIOUS
<1> USE ValuesAssumption
<1>1. 1 \in DOMAIN prog
  BY ProgramsAssumption, Zenon DEF Init
<1>2. BlockScanTypeOK
  BY <1>1 DEF Init, BlockScanTypeOK, NoReg, Regs, LastSeq
<1>3. CursorOK /\ NumberInv /\ LoopInv
  BY DEF Init, CursorOK, NumberInv, LoopInv
<1>4. ScanInv
  BY DEF Init, ScanInv, HasRegister
<1> QED
  BY <1>2, <1>3, <1>4 DEF Init, IInv

-----------------------------------------------------------------------------
(* The layout *)

LEMMA Placed ==
  ASSUME IInv, phase = "layout", phase' = phase, NEW b \in Unplaced,
         order' = Append(order, b), order = <<>> => b = 1,
         UNCHANGED <<prog, numbered, last_use, scanned>>
  PROVE  IInv'
<1>1. b \in DOMAIN prog /\ \A k \in DOMAIN order : order[k] # b
  BY DEF Unplaced
<1>2. order \in Seq(DOMAIN prog) /\ prog \in Programs
  BY DEF IInv, BlockScanTypeOK
<1>3. /\ order' \in Seq(DOMAIN prog)
      /\ \A k, m \in DOMAIN order' : order'[k] = order'[m] => k = m
      /\ order'[1] = 1
  <2>1. (order = <<>> \/ order[1] = 1) /\ \A k, m \in DOMAIN order : order[k] = order[m] => k = m
    BY DEF IInv, BlockScanTypeOK
  <2> QED
    BY <1>1, <1>2, <2>1
<1>4. BlockScanTypeOK'
  BY <1>3 DEF IInv, BlockScanTypeOK, numbered, scanned, LastSeq
<1>5. CursorOK'
  <2>1. order'[1] \in DOMAIN prog'
    BY <1>1, <1>2, <1>3, 1 \in DOMAIN order'
  <2>2. 1 \in DOMAIN Code(order'[1])
    BY <1>2, <2>1, CodeType
  <2>3. (1 \in DOMAIN Code(order[1]))'
    BY <2>2 DEF Code
  <2> QED
    BY <2>3 DEF IInv, CursorOK, numbered
<1>6. NumberInv' /\ LoopInv'
  BY DEF IInv, NumberInv, LoopInv, numbered
<1>7. ScanInv'
  BY DEF IInv, ScanInv, numbered, scanned, HasRegister, End
<1> QED
  BY <1>2, <1>4, <1>5, <1>6, <1>7 DEF IInv

LEMMA PropagateKeeps == IInv /\ Propagate => IInv'
<1> SUFFICES ASSUME IInv, Propagate PROVE IInv'
  OBVIOUS
<1>1. prog \in Programs /\ order = <<>>
  BY DEF IInv, Propagate
<1>2. 1 \in DOMAIN prog
  BY <1>1, ProgramsAssumption, Zenon
<1>3. 1 \in Unplaced
  BY <1>1, <1>2 DEF Unplaced
<1>4. order' = Append(order, 1)
  BY DEF Propagate
<1> QED
  BY <1>3, <1>4, Placed DEF Propagate

LEMMA ExtendChainKeeps == IInv /\ ExtendChain => IInv'
<1> SUFFICES ASSUME IInv, ExtendChain PROVE IInv'
  OBVIOUS
<1>1. PICK b \in Unplaced : order' = Append(order, b)
  BY DEF ExtendChain, Open
<1> QED
  BY <1>1, Placed DEF ExtendChain

LEMMA StartChainKeeps == IInv /\ StartChain => IInv'
<1> SUFFICES ASSUME IInv, StartChain PROVE IInv'
  OBVIOUS
<1>1. PICK b \in Unplaced : order' = Append(order, b)
  BY DEF StartChain
<1> QED
  BY <1>1, Placed DEF StartChain

LEMMA LayoutDoneKeeps == IInv /\ LayoutDone => IInv'
<1> SUFFICES ASSUME IInv, LayoutDone PROVE IInv'
  OBVIOUS
<1>1. BlockScanTypeOK'
  BY DEF IInv, LayoutDone, BlockScanTypeOK, placed, numbered, scanned, Unplaced, LastSeq
<1>2. CursorOK' /\ NumberInv' /\ LoopInv'
  BY DEF IInv, LayoutDone, CursorOK, NumberInv, LoopInv, placed, numbered, Code
<1>3. ScanInv'
  BY DEF IInv, LayoutDone, ScanInv, numbered, scanned, HasRegister, End
<1> QED
  BY <1>1, <1>2, <1>3 DEF IInv, LayoutDone

-----------------------------------------------------------------------------
(* The numbering *)

LEMMA NumberInstrKeeps == IInv /\ NumberInstr => IInv'
<1> SUFFICES ASSUME IInv, NumberInstr PROVE IInv'
  OBVIOUS
<1> DEFINE b == order[cursor[1]]
           ins == Code(b)[cursor[2]]
<1>1. /\ phase = "number" /\ cursor[1] \in DOMAIN order
      /\ lscan_seq' = IF cursor[2] = 1 THEN [lscan_seq EXCEPT ![b] = seq] ELSE lscan_seq
      /\ last_use' = [v \in Values |-> IF v \in Operands(ins) THEN seq ELSE last_use[v]]
      /\ def_seq' = [v \in Values |-> IF v = ins.dst THEN seq ELSE def_seq[v]]
      /\ mentions' = mentions \cup {<<v, seq>> : v \in Operands(ins)}
      /\ cursor' = IF cursor[2] < Len(Code(b)) THEN <<cursor[1], cursor[2] + 1>> ELSE <<cursor[1] + 1, 1>>
      /\ seq' = seq + 1
      /\ UNCHANGED <<prog, phase, order, intervals, active, phys_reg>>
  BY DEF NumberInstr, Numbering, placed, scanned
<1>2. /\ prog \in Programs /\ order \in Seq(DOMAIN prog) /\ b \in DOMAIN prog
      /\ cursor \in Nat \X Nat /\ cursor[2] \in DOMAIN Code(b)
      /\ seq \in Nat /\ mentions \subseteq Values \X Nat
      /\ def_seq \in [Values -> Int] /\ last_use \in [Values -> Int]
      /\ \A v \in Values : def_seq[v] \in -1 .. seq - 1 /\ last_use[v] \in -1 .. LastSeq
  BY <1>1 DEF IInv, BlockScanTypeOK, CursorOK
<1>3. /\ Len(Code(b)) \in Nat \ {0} /\ DOMAIN Code(b) = 1 .. Len(Code(b))
      /\ Operands(ins) \subseteq Values
  BY <1>2, CodeType
<1> HIDE DEF ins
<1>4. /\ def_seq' \in [Values -> Int] /\ last_use' \in [Values -> Int]
      /\ \A v \in Values : def_seq'[v] \in -1 .. seq /\ last_use'[v] \in -1 .. seq
  BY <1>1, <1>2, <1>3 DEF LastSeq
<1>5. BlockScanTypeOK'
  <2>1. lscan_seq' \in [DOMAIN prog' -> Nat]
    BY <1>1, <1>2 DEF IInv, BlockScanTypeOK
  <2>2. mentions' \subseteq Values \X Nat
    BY <1>1, <1>2, <1>3
  <2>3. Unplaced' = {}
    BY <1>1 DEF IInv, BlockScanTypeOK, Unplaced
  <2>4. seq' \in Nat /\ seq' - 1 = seq /\ LastSeq' = seq
    BY <1>1, <1>2 DEF LastSeq
  <2>5. \A v \in Values : def_seq'[v] \in -1 .. seq' - 1 /\ last_use'[v] \in -1 .. LastSeq'
    BY <1>4, <2>4
  <2> QED
    BY <1>1, <1>4, <2>1, <2>2, <2>3, <2>4, <2>5 DEF IInv, BlockScanTypeOK
<1>6. CursorOK'
  <2>1. CASE cursor[2] < Len(Code(b))
    <3>1. cursor' = <<cursor[1], cursor[2] + 1>> /\ cursor[2] + 1 \in DOMAIN Code(b)
      BY <1>1, <1>2, <1>3, <2>1
    <3>2. (Code(order[cursor[1]]))' = Code(b)
      BY <1>1, <3>1 DEF Code
    <3> QED
      BY <1>1, <1>2, <3>1, <3>2 DEF CursorOK
  <2>2. CASE ~(cursor[2] < Len(Code(b)))
    <3>1. cursor' = <<cursor[1] + 1, 1>>
      BY <1>1, <2>2
    <3>2. ASSUME cursor[1] + 1 \in DOMAIN order
          PROVE  1 \in DOMAIN Code(order[cursor[1] + 1])
      BY <1>2, <3>2, CodeType, order[cursor[1] + 1] \in DOMAIN prog
    <3>3. (Code(order[cursor[1]]))' = Code(order[cursor[1] + 1])
      BY <1>1, <3>1 DEF Code
    <3> QED
      BY <1>1, <1>2, <3>1, <3>2, <3>3 DEF CursorOK
  <2> QED
    BY <2>1, <2>2
<1>7. NumberInv'
  <2>1. ASSUME NEW m \in mentions' PROVE m[2] <= last_use'[m[1]]
    <3>1. CASE m \in mentions
      BY <1>1, <1>2, <3>1 DEF IInv, NumberInv, LastSeq
    <3>2. CASE \E v \in Operands(ins) : m = <<v, seq>>
      BY <1>1, <1>2, <1>3, <3>2
    <3> QED
      BY <1>1, <3>1, <3>2
  <2>2. ASSUME NEW u \in Values, NEW v \in Values, u # v, def_seq'[u] >= 0
        PROVE  def_seq'[u] # def_seq'[v]
    BY <1>1, <1>2, <2>2 DEF IInv, NumberInv
  <2> QED
    BY <2>1, <2>2 DEF NumberInv
<1>8. LoopInv' /\ ScanInv'
  BY <1>1 DEF IInv, LoopInv, ScanInv, HasRegister
<1> QED
  BY <1>1, <1>2, <1>5, <1>6, <1>7, <1>8 DEF IInv

LEMMA FixPhisKeeps == IInv /\ FixPhis => IInv'
<1> SUFFICES ASSUME IInv, FixPhis PROVE IInv'
  OBVIOUS
<1>1. /\ phase = "number" /\ phase' = "loops"
      /\ last_use' = [v \in Values |-> IF v \in PhiSources /\ Inverted(v) THEN LastSeq ELSE last_use[v]]
      /\ UNCHANGED <<prog, order, cursor, seq, lscan_seq, def_seq, mentions, intervals, active, phys_reg>>
  BY DEF FixPhis, placed, numbered, scanned
<1>2. /\ seq \in Nat /\ last_use \in [Values -> Int] /\ mentions \subseteq Values \X Nat
      /\ \A v \in Values : last_use[v] \in -1 .. LastSeq
  BY DEF IInv, BlockScanTypeOK
<1>3. \A v \in Values : last_use'[v] \in -1 .. LastSeq /\ last_use[v] <= last_use'[v]
  BY <1>1, <1>2 DEF LastSeq
<1>4. BlockScanTypeOK'
  BY <1>1, <1>3 DEF IInv, BlockScanTypeOK, Unplaced, LastSeq
<1>5. CursorOK' /\ LoopInv'
  BY <1>1 DEF IInv, CursorOK, LoopInv, Code
<1>6. NumberInv'
  BY <1>1, <1>2, <1>3 DEF IInv, NumberInv
<1>7. ScanInv'
  BY <1>1 DEF IInv, ScanInv, HasRegister
<1> QED
  BY <1>1, <1>4, <1>5, <1>6, <1>7 DEF IInv

LEMMA FixLoopsKeeps == IInv /\ FixLoops => IInv'
<1> SUFFICES ASSUME IInv, FixLoops PROVE IInv'
  OBVIOUS
<1>1. /\ phase = "loops" /\ phase' = "scan"
      /\ last_use' = [v \in Values |-> IF \E h \in Headers : Entering(v, h) THEN LastSeq ELSE last_use[v]]
      /\ intervals' = {v \in Values : def_seq[v] >= 0}
      /\ UNCHANGED <<prog, order, cursor, seq, lscan_seq, def_seq, mentions, active, phys_reg>>
  BY DEF FixLoops, placed, numbered
<1>2. /\ seq \in Nat /\ last_use \in [Values -> Int] /\ mentions \subseteq Values \X Nat
      /\ \A v \in Values : last_use[v] \in -1 .. LastSeq
      /\ order \in Seq(DOMAIN prog) /\ lscan_seq \in [DOMAIN prog -> Nat]
      /\ def_seq \in [Values -> Int]
  BY DEF IInv, BlockScanTypeOK
<1>3. \A v \in Values : last_use'[v] \in -1 .. LastSeq /\ last_use[v] <= last_use'[v]
  BY <1>1, <1>2 DEF LastSeq
<1>4. BlockScanTypeOK'
  BY <1>1, <1>3 DEF IInv, BlockScanTypeOK, Unplaced, LastSeq
<1>5. CursorOK'
  BY <1>1 DEF IInv, CursorOK, Code
<1>6. NumberInv'
  BY <1>1, <1>2, <1>3 DEF IInv, NumberInv
<1>7. LoopInv'
  <2>1. Headers' = Headers /\ LastSeq' = LastSeq
    BY <1>1 DEF Headers, Succs, LastSeq
  <2>2. ASSUME NEW v \in Values, NEW h \in Headers, NEW m \in mentions,
               m[1] = v, def_seq[v] >= 0, def_seq[v] < lscan_seq[h], m[2] >= lscan_seq[h]
        PROVE  last_use'[v] = LastSeq
    <3>1. m[2] <= last_use[v]
      BY <2>2 DEF IInv, NumberInv
    <3>2. lscan_seq[h] \in Nat
      BY <1>2 DEF Headers
    <3>3. Entering(v, h)
      BY <1>2, <2>2, <3>1, <3>2 DEF Entering
    <3> QED
      BY <1>1, <3>3
  <2> QED
    BY <1>1, <2>1, <2>2 DEF LoopInv
<1>8. ScanInv'
  BY <1>1 DEF IInv, ScanInv, HasRegister
<1> QED
  BY <1>1, <1>4, <1>5, <1>6, <1>7, <1>8 DEF IInv

-----------------------------------------------------------------------------
(* The scan *)

LEMMA SkipAllocaKeeps == IInv /\ SkipAlloca => IInv'
<1> SUFFICES ASSUME IInv, SkipAlloca PROVE IInv'
  OBVIOUS
<1>1. /\ phase = "scan" /\ intervals' \subseteq intervals
      /\ UNCHANGED <<prog, phase, order, cursor, seq, lscan_seq, def_seq, last_use, mentions, active, phys_reg>>
  BY DEF SkipAlloca, Current, placed, numbered
<1>2. BlockScanTypeOK'
  BY <1>1 DEF IInv, BlockScanTypeOK, Unplaced, LastSeq
<1>3. CursorOK' /\ NumberInv'
  BY <1>1 DEF IInv, CursorOK, NumberInv, Code
<1>4. LoopInv'
  BY <1>1 DEF IInv, LoopInv, Headers, Succs, LastSeq
<1>5. ScanInv'
  BY <1>1 DEF IInv, ScanInv, HasRegister, End
<1> QED
  BY <1>1, <1>2, <1>3, <1>4, <1>5 DEF IInv

LEMMA ScanKeeps == IInv /\ Scan => IInv'
<1> SUFFICES ASSUME IInv, Scan PROVE IInv'
  OBVIOUS
<1>1. PICK v \in Values :
        /\ Current(v)
        /\ intervals' = intervals \ {v}
        /\ \/ \E r \in Free(v) :
                /\ phys_reg' = [phys_reg EXCEPT ![v] = r]
                /\ active' = Unexpired(v) \cup {v}
           \/ active' = Unexpired(v) /\ UNCHANGED phys_reg
  BY DEF Scan
<1>2. /\ phase = "scan"
      /\ UNCHANGED <<prog, phase, order, cursor, seq, lscan_seq, def_seq, last_use, mentions>>
  BY DEF Scan, Current, placed, numbered
<1>3. /\ v \in intervals /\ \A w \in intervals : def_seq[v] <= def_seq[w]
      /\ intervals \subseteq Values /\ active \subseteq Values
      /\ phys_reg \in [Values -> Regs \cup {NoReg}]
      /\ def_seq \in [Values -> Int] /\ last_use \in [Values -> Int]
  BY <1>1 DEF IInv, BlockScanTypeOK, Current
<1>4. \A w \in Values : End(w) \in Int /\ End(w)' = End(w)
  BY <1>2, <1>3 DEF End
<1>5. BlockScanTypeOK'
  <2>1. /\ intervals' \subseteq Values /\ active' \subseteq Values
        /\ phys_reg' \in [Values -> Regs \cup {NoReg}]
    BY <1>1, <1>3 DEF Unexpired, Free
  <2> QED
    BY <1>2, <2>1 DEF IInv, BlockScanTypeOK, Unplaced, LastSeq
<1>6. CursorOK' /\ NumberInv'
  BY <1>2 DEF IInv, CursorOK, NumberInv, Code
<1>7. LoopInv'
  BY <1>2 DEF IInv, LoopInv, Headers, Succs, LastSeq
<1>8. /\ def_seq[v] >= 0 /\ ~HasRegister(v)
      /\ \A w \in intervals : def_seq[w] >= 0
      /\ \A u \in Values : HasRegister(u) =>
            def_seq[u] >= 0 /\ def_seq[u] < def_seq[v] /\ u \notin intervals
      /\ \A u \in Values, w \in intervals :
            HasRegister(u) => def_seq[u] <= def_seq[w] /\ (u \notin active => End(u) < def_seq[w])
  BY <1>3 DEF IInv, ScanInv, NumberInv
<1>9. \A u \in Values : HasRegister(u) /\ u \notin Unexpired(v) => End(u) < def_seq[v]
  BY <1>3, <1>4, <1>8 DEF Unexpired
<1>10. ScanInv'
  <2>1. CASE \E r \in Free(v) : /\ phys_reg' = [phys_reg EXCEPT ![v] = r]
                                /\ active' = Unexpired(v) \cup {v}
    <3>1. PICK r \in Free(v) : /\ phys_reg' = [phys_reg EXCEPT ![v] = r]
                               /\ active' = Unexpired(v) \cup {v}
      BY <2>1
    <3>2. /\ r # NoReg /\ \A u \in Unexpired(v) : phys_reg[u] # r
          /\ phys_reg'[v] = r /\ \A u \in Values \ {v} : phys_reg'[u] = phys_reg[u]
      BY <1>3, <3>1 DEF Free, Regs, NoReg
    <3>3. \A u \in Values : HasRegister(u)' => u = v \/ HasRegister(u)
      BY <3>2 DEF HasRegister
    <3>4. ASSUME NEW u \in Values, HasRegister(u)'
          PROVE  def_seq'[u] >= 0 /\ u \notin intervals'
      BY <1>1, <1>2, <1>8, <3>3, <3>4
    <3>5. ASSUME NEW u \in Values, NEW w \in intervals', HasRegister(u)'
          PROVE  def_seq'[u] <= def_seq'[w] /\ (u \notin active' => End(u)' < def_seq'[w])
      <4>1. w \in intervals /\ def_seq[v] <= def_seq[w] /\ w \in Values
        BY <1>1, <1>3
      <4>2. CASE u = v
        BY <1>2, <3>1, <4>1, <4>2
      <4>3. CASE u # v /\ HasRegister(u)
        BY <1>2, <1>3, <1>4, <1>8, <1>9, <3>1, <4>1, <4>3
      <4> QED
        BY <3>3, <3>5, <4>2, <4>3
    <3>6. ASSUME NEW u \in Values, NEW w \in Values,
                 u # w, HasRegister(w)', phys_reg'[u] = phys_reg'[w], def_seq'[w] <= def_seq'[u]
          PROVE  End(w)' < def_seq'[u]
      <4>1. HasRegister(u)'
        BY <3>6 DEF HasRegister
      <4>2. CASE u = v
        <5>1. HasRegister(w) /\ w \notin Unexpired(v)
          BY <3>2, <3>3, <3>6, <4>2
        <5> QED
          BY <1>2, <1>4, <1>9, <4>2, <5>1
      <4>3. CASE w = v
        BY <1>2, <1>3, <1>8, <3>3, <3>6, <4>1, <4>3
      <4>4. CASE u # v /\ w # v
        <5>1. HasRegister(w) /\ phys_reg[u] = phys_reg[w] /\ def_seq[w] <= def_seq[u]
          BY <1>2, <3>2, <3>3, <3>6, <4>4
        <5>2. End(w) < def_seq[u]
          BY <3>6, <5>1 DEF IInv, ScanInv
        <5> QED
          BY <1>2, <1>4, <5>2
      <4> QED
        BY <4>2, <4>3, <4>4
    <3>7. \A w \in intervals' : def_seq'[w] >= 0
      BY <1>1, <1>2, <1>8
    <3> QED
      BY <1>2, <3>4, <3>5, <3>6, <3>7 DEF ScanInv
  <2>2. CASE active' = Unexpired(v) /\ UNCHANGED phys_reg
    <3>1. \A u \in Values : HasRegister(u)' <=> HasRegister(u)
      BY <2>2 DEF HasRegister
    <3>2. ASSUME NEW u \in Values, NEW w \in intervals', HasRegister(u)
          PROVE  def_seq[u] <= def_seq[w] /\ (u \notin active' => End(u) < def_seq[w])
      <4>1. w \in intervals /\ def_seq[v] <= def_seq[w] /\ w \in Values
        BY <1>1, <1>3
      <4> QED
        BY <1>3, <1>4, <1>8, <1>9, <2>2, <3>2, <4>1
    <3>3. ASSUME NEW u \in Values, NEW w \in Values,
                 u # w, HasRegister(w), phys_reg[u] = phys_reg[w], def_seq[w] <= def_seq[u]
          PROVE  End(w) < def_seq[u]
      BY <3>3 DEF IInv, ScanInv
    <3> QED
      BY <1>1, <1>2, <1>4, <1>8, <2>2, <3>1, <3>2, <3>3 DEF ScanInv
  <2> QED
    BY <1>1, <2>1, <2>2
<1> QED
  BY <1>2, <1>5, <1>6, <1>7, <1>10 DEF IInv

LEMMA EmitKeeps == IInv /\ Emit => IInv'
<1> SUFFICES ASSUME IInv, Emit PROVE IInv'
  OBVIOUS
<1>1. /\ phase = "scan" /\ phase' = "run"
      /\ UNCHANGED <<prog, order, cursor, seq, lscan_seq, def_seq, last_use, mentions, intervals, active, phys_reg>>
  BY DEF Emit, placed, numbered, scanned
<1>2. BlockScanTypeOK'
  BY <1>1 DEF IInv, BlockScanTypeOK, Unplaced, LastSeq
<1>3. CursorOK' /\ NumberInv'
  BY <1>1 DEF IInv, CursorOK, NumberInv, Code
<1>4. LoopInv'
  BY <1>1 DEF IInv, LoopInv, Headers, Succs, LastSeq
<1>5. ScanInv'
  BY <1>1 DEF IInv, ScanInv, HasRegister, End
<1> QED
  BY <1>1, <1>2, <1>3, <1>4, <1>5 DEF IInv

-----------------------------------------------------------------------------
THEOREM Inductive == Spec => []IInv
<1>1. IInv /\ [Next]_vars => IInv'
  <2> SUFFICES ASSUME IInv, [Next]_vars PROVE IInv'
    OBVIOUS
  <2>1. CASE Propagate \/ ExtendChain \/ StartChain \/ LayoutDone
    BY <2>1, PropagateKeeps, ExtendChainKeeps, StartChainKeeps, LayoutDoneKeeps
  <2>2. CASE NumberInstr \/ FixPhis \/ FixLoops
    BY <2>2, NumberInstrKeeps, FixPhisKeeps, FixLoopsKeeps
  <2>3. CASE SkipAlloca \/ Scan \/ Emit
    BY <2>3, SkipAllocaKeeps, ScanKeeps, EmitKeeps
  <2>4. CASE Compute
    BY <2>4, RunKeeps DEF Compute
  <2>5. CASE Call
    BY <2>5, RunKeeps DEF Call
  <2>6. CASE Branch
    BY <2>6, RunKeeps DEF Branch
  <2>7. CASE Return
    BY <2>7, RunKeeps DEF Return
  <2>8. CASE UNCHANGED vars
    BY <2>8, RunKeeps DEF vars
  <2> QED
    BY <2>1, <2>2, <2>3, <2>4, <2>5, <2>6, <2>7, <2>8 DEF Next
<1> QED
  BY InitHolds, <1>1, PTL DEF Spec

(* The layout places every block once and the tables keep their types.     *)
THEOREM TypeCorrect == Spec => []BlockScanTypeOK
<1>1. IInv => BlockScanTypeOK
  BY DEF IInv
<1> QED
  BY Inductive, <1>1, PTL

(* ir_asm_linear_scan gives the register of a value to no other before the *)
(* last place that mentions it.                                            *)
THEOREM RegistersExclusive == Spec => []NoDefinitionBetween
<1>1. IInv => NoDefinitionBetween
  <2> SUFFICES ASSUME IInv, NEW u \in Values, NEW v \in Values, NEW m \in mentions,
                      u # v, HasRegister(v), phys_reg[u] = phys_reg[v],
                      m[1] = v, def_seq[u] >= def_seq[v]
               PROVE  def_seq[u] > m[2]
    BY DEF NoDefinitionBetween, HasRegister
  <2>1. def_seq \in [Values -> Int] /\ last_use \in [Values -> Int] /\ m[2] \in Nat
    BY DEF IInv, BlockScanTypeOK
  <2>2. End(v) < def_seq[u]
    BY <2>1 DEF IInv, ScanInv
  <2>3. m[2] <= last_use[v]
    BY DEF IInv, NumberInv
  <2> QED
    BY <2>1, <2>2, <2>3 DEF End
<1> QED
  BY Inductive, <1>1, PTL

(* What ir_asm_number_and_liveness does for loops is enough for a value    *)
(* that enters one to keep its register to the end of the function.        *)
THEOREM LoopValuesStay == Spec => []LoopValuesKept
<1>1. IInv => LoopValuesKept
  <2> SUFFICES ASSUME IInv, NEW v \in Values, NEW h \in Headers, NEW m \in mentions,
                      NEW u \in Values, HasRegister(v), def_seq[v] < lscan_seq[h],
                      m[1] = v, m[2] >= lscan_seq[h], u # v, phys_reg[u] = phys_reg[v]
               PROVE  def_seq[u] < def_seq[v]
    BY DEF LoopValuesKept, HasRegister
  <2>1. /\ def_seq \in [Values -> Int] /\ last_use \in [Values -> Int] /\ seq \in Nat
        /\ def_seq[u] \in -1 .. seq - 1
    BY DEF IInv, BlockScanTypeOK
  <2>2. phase \in {"scan", "run"} /\ def_seq[v] >= 0
    BY DEF IInv, ScanInv, BlockScanTypeOK
  <2>3. last_use[v] = LastSeq
    BY <2>2 DEF IInv, LoopInv
  <2>4. def_seq[v] <= def_seq[u] => End(v) < def_seq[u]
    BY DEF IInv, ScanInv
  <2> QED
    BY <2>1, <2>2, <2>3, <2>4 DEF End, LastSeq
<1> QED
  BY Inductive, <1>1, PTL
-----------------------------------------------------------------------------
(* The numbers.  SeqInv says what the numbering has done when it has come  *)
(* to the cursor; UseInv that the end of an interval is a place that       *)
(* mentions the value, until FixPhis and FixLoops move it; PhiInv and      *)
(* EnterInv what these two achieve.                                        *)

(* Instruction i of the k-th block has been numbered. *)
Passed(k, i) == k < cursor[1] \/ (k = cursor[1] /\ i < cursor[2])

Defines(b, i, v) == i \in DOMAIN Code(b) /\ Code(b)[i].dst = v

Numbered(k, i) ==
  /\ Number(order[k], i) < seq
  /\ \A v \in Values : Defines(order[k], i, v) => def_seq[v] = Number(order[k], i)
  /\ \A v \in Operands(Code(order[k])[i]) : <<v, Number(order[k], i)>> \in mentions

SeqInv ==
  /\ cursor[1] \in 1 .. Len(order) + 1 \/ order = <<>>
  /\ \A k \in DOMAIN order : \A i \in DOMAIN Code(order[k]) : Passed(k, i) => Numbered(k, i)
  /\ phase = "number" /\ cursor[1] \in DOMAIN order /\ cursor[2] # 1 =>
       Number(order[cursor[1]], cursor[2]) = seq
  /\ \A k, m \in DOMAIN order :
       k < m /\ Passed(m, 1) => lscan_seq[order[k]] + Len(Code(order[k])) <= lscan_seq[order[m]]
  /\ \A v \in Values : def_seq[v] >= 0 =>
       \E k \in DOMAIN order : \E i \in DOMAIN Code(order[k]) : Passed(k, i) /\ Defines(order[k], i, v)
  /\ phase \in {"loops", "scan", "run"} => cursor[1] = Len(order) + 1

UseInv ==
  phase \in {"layout", "number"} =>
    \A v \in Values : last_use[v] >= 0 => <<v, last_use[v]>> \in mentions

PhiInv ==
  phase \in {"loops", "scan", "run"} =>
    \A v \in PhiSources :
      def_seq[v] >= 0 /\ (\A m \in mentions : m[1] = v => m[2] < def_seq[v]) => last_use[v] = LastSeq

EnterInv ==
  phase \in {"scan", "run"} =>
    \A v \in Values, h \in Headers : Entering(v, h) => last_use[v] = LastSeq

NInv == IInv /\ SeqInv /\ UseInv /\ PhiInv /\ EnterInv

LEMMA DefinedOnce ==
  ASSUME prog \in Programs, NEW v \in Values, NEW b \in DOMAIN prog, NEW c \in DOMAIN prog,
         NEW i, NEW j, Defines(b, i, v), Defines(c, j, v)
  PROVE  b = c /\ i = j
<1>1. v # Nothing
  BY ValuesAssumption
<1>2. i \in DOMAIN prog[b].code /\ j \in DOMAIN prog[c].code
      /\ prog[b].code[i].dst = v /\ prog[c].code[j].dst = v
  BY DEF Defines, Code
<1>3. \A d \in DOMAIN prog : \A k \in DOMAIN prog[d].code :
        prog[d].code[k].dst = prog[b].code[i].dst => d = b /\ k = i
  BY <1>1, <1>2, SSAAssumption
<1> QED
  BY <1>2, <1>3

(* The phases that leave the numbers alone. *)
LEMMA NumbersKept ==
  ASSUME NInv, UNCHANGED <<prog, order, cursor, seq, lscan_seq, def_seq, mentions>>,
         phase # "layout", phase' \notin {"layout", "number"},
         phase' \in {"loops", "scan", "run"} => cursor[1] = Len(order) + 1
  PROVE  SeqInv' /\ UseInv'
<1>1. SeqInv'
  BY DEF NInv, SeqInv, Passed, Numbered, Number, Defines, Code
<1> QED
  BY <1>1 DEF UseInv

LEMMA OrderType ==
  ASSUME IInv
  PROVE  /\ prog \in Programs /\ Len(order) \in Nat /\ DOMAIN order = 1 .. Len(order)
         /\ cursor \in Nat \X Nat /\ seq \in Nat
         /\ \A k \in DOMAIN order :
              /\ order[k] \in DOMAIN prog /\ lscan_seq[order[k]] \in Nat
              /\ Len(Code(order[k])) \in Nat \ {0} /\ DOMAIN Code(order[k]) = 1 .. Len(Code(order[k]))
<1>1. /\ prog \in Programs /\ order \in Seq(DOMAIN prog) /\ cursor \in Nat \X Nat /\ seq \in Nat
      /\ lscan_seq \in [DOMAIN prog -> Nat]
  BY DEF IInv, BlockScanTypeOK, CursorOK
<1>2. Len(order) \in Nat /\ DOMAIN order = 1 .. Len(order) /\ \A k \in DOMAIN order : order[k] \in DOMAIN prog
  BY <1>1
<1>3. ASSUME NEW k \in DOMAIN order
      PROVE  Len(Code(order[k])) \in Nat \ {0} /\ DOMAIN Code(order[k]) = 1 .. Len(Code(order[k]))
  BY <1>1, <1>2, <1>3, CodeType
<1> QED
  BY <1>1, <1>2, <1>3

LEMMA PlacedNumbers ==
  ASSUME NInv, IInv', phase = "layout", phase' = phase,
         UNCHANGED <<prog, cursor, seq, lscan_seq, def_seq, mentions, last_use>>
  PROVE  SeqInv' /\ UseInv' /\ PhiInv' /\ EnterInv'
<1>1. cursor = <<1, 1>> /\ cursor[1] = 1 /\ cursor[2] = 1
  BY DEF NInv, IInv, CursorOK
<1>2. PICK o : o = order'
  OBVIOUS
<1>3. prog \in Programs /\ o \in Seq(DOMAIN prog)
  BY <1>2 DEF NInv, IInv, BlockScanTypeOK
<1>4. ASSUME NEW k \in DOMAIN o, NEW i \in DOMAIN Code(o[k]) PROVE ~Passed(k, i)
  <2>1. k \in 1 .. Len(o) /\ Len(o) \in Nat /\ o[k] \in DOMAIN prog
    BY <1>3, <1>4
  <2>2. i \in 1 .. Len(Code(o[k])) /\ Len(Code(o[k])) \in Nat
    BY <1>3, <1>4, <2>1, CodeType
  <2>3. k >= 1 /\ i >= 1 /\ k \in Int /\ i \in Int
    BY <2>1, <2>2
  <2> QED
    BY <1>1, <2>3 DEF Passed
<1>5. \A k \in DOMAIN order' : \A i \in DOMAIN (Code(order[k]))' : ~Passed(k, i)'
  BY <1>2, <1>4 DEF Code, Passed
<1>6. \A k \in DOMAIN order' : ~Passed(k, 1)'
  <2>1. \A k \in DOMAIN o : k >= 1 /\ k \in Int
    BY <1>3
  <2> QED
    BY <1>1, <1>2, <2>1 DEF Passed
<1>7. \A v \in Values : ~(def_seq[v] >= 0)
  <2>1. order \in Seq(DOMAIN prog)
    BY DEF NInv, IInv, BlockScanTypeOK
  <2>2. ASSUME NEW k \in DOMAIN order, NEW i \in DOMAIN Code(order[k]) PROVE ~Passed(k, i)
    <3>1. k \in 1 .. Len(order) /\ Len(order) \in Nat /\ order[k] \in DOMAIN prog
      BY <2>1, <2>2
    <3>2. i \in 1 .. Len(Code(order[k])) /\ Len(Code(order[k])) \in Nat
      BY <1>3, <2>2, <3>1, CodeType
    <3>3. k >= 1 /\ i >= 1 /\ k \in Int /\ i \in Int
      BY <3>1, <3>2
    <3> QED
      BY <1>1, <3>3 DEF Passed
  <2> QED
    BY <2>2 DEF NInv, SeqInv
<1>8. cursor[1] \in 1 .. Len(o) + 1
  BY <1>1, <1>3
<1>9. SeqInv'
  <2>1. \A k \in DOMAIN order' : \A i \in DOMAIN (Code(order[k]))' : Passed(k, i)' => Numbered(k, i)'
    BY <1>5
  <2>2. \A v \in Values : ~(def_seq'[v] >= 0)
    BY <1>7
  <2>3. phase' \notin {"number", "loops", "scan", "run"}
    OBVIOUS
  <2>4. cursor'[1] \in 1 .. Len(order') + 1
    BY <1>2, <1>8
  <2> QED
    BY <1>6, <2>1, <2>2, <2>3, <2>4 DEF SeqInv
<1>10. UseInv' /\ PhiInv' /\ EnterInv'
  BY DEF NInv, UseInv, PhiInv, EnterInv
<1> QED
  BY <1>9, <1>10

LEMMA NumberInstrNumbers ==
  ASSUME NInv, IInv', NumberInstr
  PROVE  SeqInv' /\ UseInv' /\ PhiInv' /\ EnterInv'
<1> DEFINE K == cursor[1]
           I == cursor[2]
           b == order[K]
           ins == Code(b)[I]
<1>1. /\ phase = "number" /\ K \in DOMAIN order
      /\ lscan_seq' = IF I = 1 THEN [lscan_seq EXCEPT ![b] = seq] ELSE lscan_seq
      /\ last_use' = [v \in Values |-> IF v \in Operands(ins) THEN seq ELSE last_use[v]]
      /\ def_seq' = [v \in Values |-> IF v = ins.dst THEN seq ELSE def_seq[v]]
      /\ mentions' = mentions \cup {<<v, seq>> : v \in Operands(ins)}
      /\ cursor' = IF I < Len(Code(b)) THEN <<K, I + 1>> ELSE <<K + 1, 1>>
      /\ seq' = seq + 1
      /\ UNCHANGED <<prog, phase, order>>
  BY DEF NumberInstr, Numbering, placed, scanned
<1>2. /\ prog \in Programs /\ Len(order) \in Nat /\ DOMAIN order = 1 .. Len(order) /\ seq \in Nat
      /\ \A k \in DOMAIN order :
           /\ order[k] \in DOMAIN prog /\ lscan_seq[order[k]] \in Nat
           /\ Len(Code(order[k])) \in Nat \ {0} /\ DOMAIN Code(order[k]) = 1 .. Len(Code(order[k]))
      /\ \A k, m \in DOMAIN order : order[k] = order[m] => k = m
  BY OrderType DEF NInv, IInv, BlockScanTypeOK
<1>3. /\ K \in Nat /\ I \in Nat /\ I \in DOMAIN Code(b) /\ b \in DOMAIN prog
      /\ lscan_seq \in [DOMAIN prog -> Nat]
      /\ def_seq \in [Values -> Int] /\ last_use \in [Values -> Int]
  BY <1>1, <1>2 DEF NInv, IInv, BlockScanTypeOK, CursorOK
<1>4. /\ \A k \in DOMAIN order : \A i \in DOMAIN Code(order[k]) : Passed(k, i) => Numbered(k, i)
      /\ I # 1 => Number(b, I) = seq
      /\ \A k, m \in DOMAIN order :
           k < m /\ Passed(m, 1) => lscan_seq[order[k]] + Len(Code(order[k])) <= lscan_seq[order[m]]
      /\ \A v \in Values : def_seq[v] >= 0 =>
           \E k \in DOMAIN order : \E i \in DOMAIN Code(order[k]) : Passed(k, i) /\ Defines(order[k], i, v)
      /\ \A v \in Values : last_use[v] >= 0 => <<v, last_use[v]>> \in mentions
  BY <1>1 DEF NInv, SeqInv, UseInv
<1> HIDE DEF ins
<1>5. /\ cursor'[1] = (IF I < Len(Code(b)) THEN K ELSE K + 1)
      /\ cursor'[2] = (IF I < Len(Code(b)) THEN I + 1 ELSE 1)
  BY <1>1
<1> HIDE DEF K, I, b
<1>6. \A k \in DOMAIN order, i \in Nat :
        i >= 1 /\ (k = K => i <= Len(Code(b))) =>
          (Passed(k, i)' <=> Passed(k, i) \/ (k = K /\ i = I))
  <2> SUFFICES ASSUME NEW k \in DOMAIN order, NEW i \in Nat, i >= 1, k = K => i <= Len(Code(b))
               PROVE  Passed(k, i)' <=> Passed(k, i) \/ (k = K /\ i = I)
    OBVIOUS
  <2>1. k \in Nat /\ Len(Code(b)) \in Nat /\ I \in 1 .. Len(Code(b))
    BY <1>1, <1>2, <1>3 DEF b
  <2>2. Passed(k, i) <=> (k < K \/ (k = K /\ i < I))
    BY DEF Passed, K, I
  <2>3. Passed(k, i)' <=> (k < cursor'[1] \/ (k = cursor'[1] /\ i < cursor'[2]))
    BY DEF Passed
  <2>4. CASE I < Len(Code(b))
    <3>1. Passed(k, i)' <=> (k < K \/ (k = K /\ i < I + 1))
      BY <1>5, <2>3, <2>4
    <3> QED
      BY <1>3, <2>1, <2>2, <3>1
  <2>5. CASE ~(I < Len(Code(b)))
    <3>1. Passed(k, i)' <=> (k < K + 1 \/ (k = K + 1 /\ i < 1))
      BY <1>5, <2>3, <2>5
    <3> QED
      BY <1>3, <2>1, <2>2, <2>5, <3>1
  <2> QED
    BY <2>4, <2>5
<1>7. /\ lscan_seq'[b] + I - 1 = seq /\ lscan_seq'[b] \in Nat
      /\ \A k \in DOMAIN order : k # K \/ I # 1 => lscan_seq'[order[k]] = lscan_seq[order[k]]
  <2>1. CASE I = 1
    <3>1. lscan_seq' = [lscan_seq EXCEPT ![b] = seq]
      BY <1>1, <2>1
    <3>2. lscan_seq'[b] = seq /\ \A c \in DOMAIN prog : c # b => lscan_seq'[c] = lscan_seq[c]
      BY <1>3, <3>1
    <3>3. \A k \in DOMAIN order : k # K => order[k] # b /\ order[k] \in DOMAIN prog
      BY <1>1, <1>2 DEF b, K
    <3> QED
      BY <1>2, <2>1, <3>2, <3>3
  <2>2. CASE I # 1
    <3>1. lscan_seq' = lscan_seq
      BY <1>1, <2>2 DEF I
    <3>2. lscan_seq[b] + I - 1 = seq
      BY <1>4, <2>2 DEF Number
    <3> QED
      BY <1>3, <3>1, <3>2
  <2> QED
    BY <2>1, <2>2
<1>8. \A k \in DOMAIN order, i \in Nat : i >= 1 /\ Passed(k, i) => lscan_seq'[order[k]] = lscan_seq[order[k]]
  <2> SUFFICES ASSUME NEW k \in DOMAIN order, NEW i \in Nat, i >= 1, Passed(k, i)
               PROVE  k # K \/ I # 1
    BY <1>7
  <2>1. k < K \/ (k = K /\ i < I)
    BY DEF Passed, K, I
  <2> QED
    BY <1>2, <1>3, <2>1
<1>9. \A k \in DOMAIN order : (Code(order[k]))' = Code(order[k]) /\ order'[k] = order[k]
  BY <1>1 DEF Code
<1>10. ASSUME NEW k \in DOMAIN order, NEW i \in DOMAIN Code(order[k]), Passed(k, i)'
       PROVE  Numbered(k, i)'
  <2>1. i \in Nat /\ i >= 1 /\ i <= Len(Code(order[k])) /\ (k = K => i <= Len(Code(b)))
    BY <1>2, <1>10 DEF b
  <2>2. Number(order[k], i)' = lscan_seq'[order[k]] + i - 1
    BY <1>9 DEF Number
  <2>3. CASE Passed(k, i)
    <3>1. Number(order[k], i)' = Number(order[k], i)
      BY <1>8, <2>1, <2>2, <2>3 DEF Number
    <3>2. Numbered(k, i)
      BY <1>4, <2>3
    <3>3. Number(order[k], i) \in Int
      BY <1>2, <2>1 DEF Number
    <3>4. Number(order[k], i) < seq + 1
      BY <1>2, <3>2, <3>3 DEF Numbered
    <3>5. \A v \in Values : Defines(order[k], i, v) => def_seq'[v] = Number(order[k], i)
      <4> SUFFICES ASSUME NEW v \in Values, Defines(order[k], i, v) PROVE v # ins.dst
        BY <1>1, <3>2 DEF Numbered
      <4>1. CASE v = ins.dst
        <5>1. Defines(b, I, v)
          BY <1>3, <4>1 DEF Defines, ins, b, I, K
        <5>2. order[k] = b /\ i = I
          BY <1>2, <1>3, <5>1, DefinedOnce
        <5>3. k = K
          BY <1>1, <1>2, <5>2 DEF b, K
        <5> QED
          BY <1>3, <2>3, <5>2, <5>3 DEF Passed, K, I
      <4> QED
        BY <4>1
    <3>6. \A v \in Operands(Code(order[k])[i]) : <<v, Number(order[k], i)>> \in mentions'
      BY <1>1, <3>2 DEF Numbered
    <3> QED
      BY <1>1, <1>9, <3>1, <3>4, <3>5, <3>6 DEF Numbered, Defines, Operands
  <2>4. CASE k = K /\ i = I
    <3>1. Number(order[k], i)' = seq
      BY <1>7, <2>2, <2>4 DEF b
    <3>2. seq < seq'
      BY <1>1, <1>2
    <3>3. Code(order[k])[i] = ins
      BY <2>4 DEF ins, b, K, I
    <3>4. \A v \in Values : Defines(order[k], i, v) => def_seq'[v] = seq
      BY <1>1, <3>3 DEF Defines
    <3>5. \A v \in Operands(ins) : <<v, seq>> \in mentions'
      BY <1>1
    <3> QED
      BY <1>9, <3>1, <3>2, <3>3, <3>4, <3>5 DEF Numbered, Defines, Operands
  <2> QED
    BY <1>6, <1>10, <2>1, <2>3, <2>4
<1>11. ASSUME phase' = "number", cursor'[1] \in DOMAIN order', cursor'[2] # 1
       PROVE  (Number(order[cursor[1]], cursor[2]))' = seq'
  <2>1. I < Len(Code(b)) /\ cursor'[1] = K /\ cursor'[2] = I + 1
    BY <1>5, <1>11
  <2>2. order'[cursor'[1]] = b
    BY <1>1, <2>1 DEF b, K
  <2>3. (Number(order[cursor[1]], cursor[2]))' = lscan_seq'[b] + (I + 1) - 1
    BY <2>1, <2>2 DEF Number
  <2>4. lscan_seq'[b] \in Nat /\ I \in Nat /\ seq' = seq + 1 /\ lscan_seq'[b] + I - 1 = seq
    BY <1>1, <1>3, <1>7
  <2>5. lscan_seq'[b] + (I + 1) - 1 = seq'
    BY <1>2, <2>4
  <2> QED
    BY <2>3, <2>5
<1>12. ASSUME NEW k \in DOMAIN order, NEW m \in DOMAIN order, k < m, Passed(m, 1)'
       PROVE  lscan_seq'[order[k]] + Len(Code(order[k])) <= lscan_seq'[order[m]]
  <2>1. m = K => 1 <= Len(Code(b))
    BY <1>1, <1>2 DEF b
  <2>2. CASE Passed(m, 1)
    <3>1. lscan_seq'[order[m]] = lscan_seq[order[m]]
      BY <1>8, <2>2
    <3>2. k < K
      BY <1>2, <1>3, <1>12, <2>2 DEF Passed, K
    <3>3. lscan_seq'[order[k]] = lscan_seq[order[k]]
      BY <1>2, <1>3, <1>7, <3>2
    <3> QED
      BY <1>4, <1>12, <2>2, <3>1, <3>3
  <2>3. CASE m = K /\ I = 1
    <3>1. lscan_seq'[order[m]] = seq
      BY <1>2, <1>7, <2>3 DEF b
    <3>2. lscan_seq'[order[k]] = lscan_seq[order[k]]
      BY <1>2, <1>3, <1>7, <1>12, <2>3
    <3> DEFINE n == Len(Code(order[k]))
    <3>3. n \in DOMAIN Code(order[k]) /\ n \in Nat /\ Passed(k, n)
      BY <1>2, <1>12, <2>3 DEF Passed, K
    <3>4. Number(order[k], n) < seq
      BY <1>4, <3>3 DEF Numbered
    <3>5. lscan_seq[order[k]] + n - 1 < seq /\ lscan_seq[order[k]] \in Nat
      BY <1>2, <3>4 DEF Number
    <3> QED
      BY <1>2, <3>1, <3>2, <3>3, <3>5
  <2> QED
    BY <1>6, <1>12, <2>1, <2>2, <2>3
<1>13. ASSUME NEW v \in Values, def_seq'[v] >= 0
       PROVE  \E k \in DOMAIN order : \E i \in DOMAIN Code(order[k]) : Passed(k, i)' /\ Defines(order[k], i, v)
  <2>1. CASE v = ins.dst
    <3>1. I \in DOMAIN Code(order[K]) /\ Code(order[K])[I].dst = v /\ I >= 1 /\ I <= Len(Code(b))
      BY <1>1, <1>2, <1>3, <2>1 DEF ins, b
    <3>2. PICK k \in DOMAIN order, i \in Nat : k = K /\ i = I
      BY <1>1, <1>3 DEF K
    <3>3. Passed(k, i)'
      BY <1>6, <3>1, <3>2
    <3> QED
      BY <3>1, <3>2, <3>3 DEF Defines
  <2>2. CASE v # ins.dst
    <3>1. def_seq[v] >= 0
      BY <1>1, <1>13, <2>2
    <3>2. PICK k \in DOMAIN order : \E i \in DOMAIN Code(order[k]) : Passed(k, i) /\ Defines(order[k], i, v)
      BY <1>4, <3>1
    <3>3. PICK i \in DOMAIN Code(order[k]) : Passed(k, i) /\ Defines(order[k], i, v)
      BY <3>2
    <3>4. i \in Nat /\ i >= 1 /\ (k = K => i <= Len(Code(b)))
      BY <1>2 DEF b
    <3>5. Passed(k, i)'
      BY <1>6, <3>3, <3>4
    <3> QED
      BY <3>3, <3>5
  <2> QED
    BY <2>1, <2>2
<1>14. cursor'[1] \in 1 .. Len(order) + 1
  BY <1>1, <1>2, <1>3, <1>5 DEF K
<1>15. SeqInv'
  <2>1. \A k \in DOMAIN order' : \A i \in DOMAIN (Code(order[k]))' : Passed(k, i)' => Numbered(k, i)'
    BY <1>1, <1>9, <1>10
  <2>2. \A k, m \in DOMAIN order' :
          k < m /\ Passed(m, 1)' =>
            lscan_seq'[order'[k]] + Len((Code(order[k]))') <= lscan_seq'[order'[m]]
    BY <1>1, <1>9, <1>12
  <2>3. \A v \in Values : def_seq'[v] >= 0 =>
          \E k \in DOMAIN order' : \E i \in DOMAIN (Code(order[k]))' :
            Passed(k, i)' /\ Defines(order[k], i, v)'
    <3>1. \A k \in DOMAIN order : \A i, v : Defines(order[k], i, v)' <=> Defines(order[k], i, v)
      BY <1>9 DEF Defines
    <3> QED
      BY <1>1, <1>9, <1>13, <3>1
  <2>4. phase' \notin {"loops", "scan", "run"} /\ cursor'[1] \in 1 .. Len(order') + 1
    BY <1>1, <1>14
  <2> QED
    BY <1>1, <1>11, <2>1, <2>2, <2>3, <2>4 DEF SeqInv
<1>16. UseInv'
  <2> SUFFICES ASSUME NEW v \in Values, last_use'[v] >= 0 PROVE <<v, last_use'[v]>> \in mentions'
    BY DEF UseInv
  <2>1. CASE v \in Operands(ins)
    BY <1>1, <2>1
  <2>2. CASE v \notin Operands(ins)
    BY <1>1, <1>4, <2>2
  <2> QED
    BY <2>1, <2>2
<1>17. PhiInv' /\ EnterInv'
  BY <1>1 DEF PhiInv, EnterInv
<1> QED
  BY <1>15, <1>16, <1>17

LEMMA OrderNotEmpty ==
  ASSUME IInv, phase # "layout" PROVE order # <<>>
<1>1. Unplaced = {} /\ prog \in Programs
  BY DEF IInv, BlockScanTypeOK
<1>2. 1 \in DOMAIN prog
  BY <1>1, ProgramsAssumption, Zenon
<1> QED
  BY <1>1, <1>2 DEF Unplaced

LEMMA FixPhisNumbers ==
  ASSUME NInv, IInv', FixPhis
  PROVE  SeqInv' /\ UseInv' /\ PhiInv' /\ EnterInv'
<1>1. /\ phase = "number" /\ phase' = "loops" /\ cursor[1] \notin DOMAIN order
      /\ last_use' = [v \in Values |-> IF v \in PhiSources /\ Inverted(v) THEN LastSeq ELSE last_use[v]]
      /\ UNCHANGED <<prog, order, cursor, seq, lscan_seq, def_seq, mentions>>
  BY DEF FixPhis, Numbering, placed, numbered
<1>2. cursor[1] = Len(order) + 1
  <2>1. cursor[1] \in 1 .. Len(order) + 1 /\ Len(order) \in Nat /\ DOMAIN order = 1 .. Len(order)
    BY <1>1, OrderNotEmpty, OrderType DEF NInv, SeqInv
  <2> QED
    BY <1>1, <2>1
<1>3. SeqInv' /\ UseInv'
  BY <1>1, <1>2, NumbersKept
<1>4. PhiInv'
  <2>1. PhiSources' = PhiSources /\ LastSeq' = LastSeq
    BY <1>1 DEF PhiSources, LastSeq, Blocks, Phis, Code, Operands
  <2>2. ASSUME NEW v \in PhiSources, def_seq[v] >= 0,
               \A m \in mentions : m[1] = v => m[2] < def_seq[v]
        PROVE  last_use'[v] = LastSeq
    <3>1. v \in Values /\ def_seq[v] \in Int /\ last_use[v] \in Int
      BY DEF PhiSources, NInv, IInv, BlockScanTypeOK
    <3>2. last_use[v] >= 0 => last_use[v] < def_seq[v]
      <4> SUFFICES ASSUME last_use[v] >= 0 PROVE last_use[v] < def_seq[v]
        OBVIOUS
      <4>1. <<v, last_use[v]>> \in mentions
        BY <1>1, <3>1 DEF NInv, UseInv
      <4> QED
        BY <2>2, <4>1
    <3>3. Inverted(v)
      BY <2>2, <3>1, <3>2 DEF Inverted
    <3> QED
      BY <1>1, <3>1, <3>3
  <2> QED
    BY <1>1, <2>1, <2>2 DEF PhiInv
<1>5. EnterInv'
  BY <1>1 DEF EnterInv
<1> QED
  BY <1>3, <1>4, <1>5

LEMMA FixLoopsNumbers ==
  ASSUME NInv, IInv', FixLoops
  PROVE  SeqInv' /\ UseInv' /\ PhiInv' /\ EnterInv'
<1>1. /\ phase = "loops" /\ phase' = "scan"
      /\ last_use' = [v \in Values |-> IF \E h \in Headers : Entering(v, h) THEN LastSeq ELSE last_use[v]]
      /\ UNCHANGED <<prog, order, cursor, seq, lscan_seq, def_seq, mentions>>
  BY DEF FixLoops, placed, numbered
<1>2. SeqInv' /\ UseInv'
  <2>1. cursor[1] = Len(order) + 1
    BY <1>1 DEF NInv, SeqInv
  <2> QED
    BY <1>1, <2>1, NumbersKept
<1>3. LastSeq' = LastSeq /\ Headers' = Headers /\ PhiSources' = PhiSources
  BY <1>1 DEF LastSeq, Headers, Succs, PhiSources, Blocks, Phis, Code, Operands
<1>4. PhiInv'
  <2>1. ASSUME NEW v \in PhiSources, def_seq[v] >= 0,
               \A m \in mentions : m[1] = v => m[2] < def_seq[v]
        PROVE  last_use'[v] = LastSeq
    <3>1. v \in Values
      BY DEF PhiSources
    <3>2. last_use[v] = LastSeq
      BY <1>1, <2>1 DEF NInv, PhiInv
    <3> QED
      BY <1>1, <3>1, <3>2
  <2> QED
    BY <1>1, <1>3, <2>1 DEF PhiInv
<1>5. EnterInv'
  <2>1. ASSUME NEW v \in Values, NEW h \in Headers, Entering(v, h)' PROVE last_use'[v] = LastSeq
    <3>1. CASE \E g \in Headers : Entering(v, g)
      BY <1>1, <3>1
    <3>2. CASE ~\E g \in Headers : Entering(v, g)
      <4>1. last_use'[v] = last_use[v]
        BY <1>1, <3>2
      <4>2. Entering(v, h)
        BY <1>1, <2>1, <4>1 DEF Entering
      <4> QED
        BY <3>2, <4>2
    <3> QED
      BY <3>1, <3>2
  <2> QED
    BY <1>1, <1>3, <2>1 DEF EnterInv
<1> QED
  BY <1>2, <1>4, <1>5

LEMMA RestNumbers ==
  ASSUME NInv, UNCHANGED <<prog, order, cursor, seq, lscan_seq, def_seq, mentions, last_use>>,
         \/ phase' = phase
         \/ phase = "layout" /\ phase' = "number"
         \/ phase = "scan" /\ phase' = "run"
  PROVE  SeqInv' /\ UseInv' /\ PhiInv' /\ EnterInv'
<1>1. SeqInv'
  <2>1. phase = "layout" => cursor[2] = 1
    BY DEF NInv, IInv, CursorOK
  <2> QED
    BY <2>1 DEF NInv, SeqInv, Passed, Numbered, Number, Defines, Code
<1>2. UseInv'
  BY DEF NInv, UseInv
<1>3. PhiInv'
  <2>1. LastSeq' = LastSeq /\ PhiSources' = PhiSources
    BY DEF LastSeq, PhiSources, Blocks, Phis, Code, Operands
  <2> QED
    BY <2>1 DEF NInv, PhiInv
<1>4. EnterInv'
  <2>1. LastSeq' = LastSeq /\ Headers' = Headers
    BY DEF LastSeq, Headers, Succs
  <2>2. \A v \in Values, h \in Headers : Entering(v, h)' <=> Entering(v, h)
    BY DEF Entering
  <2> QED
    BY <2>1, <2>2 DEF NInv, EnterInv
<1> QED
  BY <1>1, <1>2, <1>3, <1>4

LEMMA InitNumbers == Init => SeqInv /\ UseInv /\ PhiInv /\ EnterInv
<1> SUFFICES ASSUME Init PROVE SeqInv /\ UseInv /\ PhiInv /\ EnterInv
  OBVIOUS
<1>1. order = <<>> /\ phase = "layout" /\ \A v \in Values : def_seq[v] = -1 /\ last_use[v] = -1
  BY DEF Init
<1> QED
  BY <1>1 DEF SeqInv, UseInv, PhiInv, EnterInv

LEMMA NumbersStay == NInv /\ IInv' /\ [Next]_vars => NInv'
<1> SUFFICES ASSUME NInv, IInv', [Next]_vars PROVE SeqInv' /\ UseInv' /\ PhiInv' /\ EnterInv'
  BY DEF NInv
<1>1. CASE Propagate \/ ExtendChain \/ StartChain
  <2>1. /\ phase = "layout" /\ phase' = phase
        /\ UNCHANGED <<prog, cursor, seq, lscan_seq, def_seq, mentions, last_use>>
    BY <1>1 DEF Propagate, ExtendChain, StartChain, numbered
  <2> QED
    BY <2>1, PlacedNumbers
<1>2. CASE NumberInstr
  BY <1>2, NumberInstrNumbers
<1>3. CASE FixPhis
  BY <1>3, FixPhisNumbers
<1>4. CASE FixLoops
  BY <1>4, FixLoopsNumbers
<1>5. CASE LayoutDone \/ SkipAlloca \/ Scan \/ Emit
  <2>1. /\ UNCHANGED <<prog, order, cursor, seq, lscan_seq, def_seq, mentions, last_use>>
        /\ \/ phase' = phase
           \/ phase = "layout" /\ phase' = "number"
           \/ phase = "scan" /\ phase' = "run"
    BY <1>5 DEF LayoutDone, SkipAlloca, Scan, Emit, placed, numbered
  <2> QED
    BY <2>1, RestNumbers
<1>6. CASE Compute \/ Call \/ Branch \/ Return \/ UNCHANGED vars
  <2>1. UNCHANGED <<prog, order, cursor, seq, lscan_seq, def_seq, mentions, last_use>> /\ phase' = phase
    BY <1>6 DEF Compute, Call, Branch, Return, vars, placed, numbered
  <2> QED
    BY <2>1, RestNumbers
<1> QED
  BY <1>1, <1>2, <1>3, <1>4, <1>5, <1>6 DEF Next

(* The numbering, FixPhis and FixLoops do what SeqInv, UseInv, PhiInv and  *)
(* EnterInv say.                                                           *)
THEOREM NumbersHold == Spec => []NInv
<1>1. Init => SeqInv /\ UseInv /\ PhiInv /\ EnterInv
  BY InitNumbers
<1>2. IInv /\ SeqInv /\ UseInv /\ PhiInv /\ EnterInv => NInv
  BY DEF NInv
<1>3. NInv /\ IInv' /\ [Next]_vars => NInv'
  BY NumbersStay
<1>4. Init => NInv
  BY InitHolds, <1>1, <1>2
<1> QED
  BY Inductive, <1>3, <1>4, PTL DEF Spec
-----------------------------------------------------------------------------
(* What LiveInto computes: the recursion has a solution, it has come to a  *)
(* standstill after as many steps as there are blocks, and it finds        *)
(* nothing that is not forced.                                             *)

DefinedIn(v) == {b \in Blocks : \E i \in DOMAIN Code(b) : Code(b)[i].dst = v}

ReadIn(v) == {b \in Blocks : \E i \in DOMAIN Code(b) : v \in Code(b)[i].uses} \cup CopiedIn(v)

LeadsTo(X) == {b \in Blocks : \E k \in DOMAIN Succs(b) : Succs(b)[k] \in X}

Grown(X, v) == (X \cup LeadsTo(X)) \ DefinedIn(v)

(* f goes through the stages of the recursion. *)
Stages(f, v) ==
  /\ f \in [0 .. Len(order) -> SUBSET Blocks]
  /\ f[0] = ReadIn(v) \ DefinedIn(v)
  /\ \A n \in 1 .. Len(order) : f[n] = Grown(f[n - 1], v)
  /\ LiveInto(v) = f[Len(order)]

Iterates(f, A, a, G, L) ==
  f \in [0 .. L -> A] /\ f[0] = a /\ \A n \in 1 .. L : f[n] = G[f[n - 1]]

LEMMA Least ==
  ASSUME NEW M \in SUBSET Nat, M # {}
  PROVE  \E m \in M : \A k \in M : m <= k
<1> DEFINE R == OpToRel(<, Nat)
<1>1. PICK m \in M : \A k \in M : <<k, m>> \notin R
  <2> HIDE DEF R
  <2>1. IsWellFoundedOn(R, Nat)
    BY NatLessThanWellFounded DEF R
  <2> QED
    BY <2>1, WFMin
<1>2. \A k \in M : ~(k < m)
  BY <1>1 DEF OpToRel
<1> QED
  BY <1>2

(* Induction up to L, for the set of numbers that have some property. *)
LEMMA StepByStep ==
  ASSUME NEW L \in Nat, NEW H \in SUBSET (0 .. L), 0 \in H,
         \A n \in 0 .. L : n \in H /\ n < L => n + 1 \in H
  PROVE  H = 0 .. L
<1> DEFINE M == (0 .. L) \ H
<1> SUFFICES ASSUME M # {} PROVE FALSE
  OBVIOUS
<1>1. PICK m \in M : \A k \in M : m <= k
  <2>1. M \in SUBSET Nat
    OBVIOUS
  <2> HIDE DEF M
  <2> QED
    BY <2>1, Least
<1>2. m \in 1 .. L
  BY <1>1
<1>3. m - 1 \in 0 .. L /\ m - 1 < L /\ m - 1 + 1 = m /\ ~(m <= m - 1)
  BY <1>2
<1>4. m - 1 \in H
  BY <1>1, <1>3
<1>5. m \in H
  BY <1>3, <1>4
<1> QED
  BY <1>1, <1>5

LEMMA Iteration ==
  ASSUME NEW A, NEW a \in A, NEW G \in [A -> A], NEW L \in Nat
  PROVE  \E f : Iterates(f, A, a, G, L)
<1> DEFINE H == {n \in 0 .. L : \E f : Iterates(f, A, a, G, n)}
<1>1. 0 \in H
  <2> DEFINE f == [i \in 0 .. 0 |-> a]
  <2>1. f \in [0 .. 0 -> A] /\ f[0] = a /\ \A i \in 1 .. 0 : f[i] = G[f[i - 1]]
    OBVIOUS
  <2> HIDE DEF f
  <2>2. Iterates(f, A, a, G, 0)
    BY <2>1 DEF Iterates
  <2> QED
    BY <2>2
<1>2. ASSUME NEW n \in 0 .. L, n \in H, n < L PROVE n + 1 \in H
  <2>1. PICK f : Iterates(f, A, a, G, n)
    BY <1>2
  <2>2. f \in [0 .. n -> A] /\ f[0] = a /\ \A i \in 1 .. n : f[i] = G[f[i - 1]]
    BY <2>1 DEF Iterates
  <2> DEFINE g == [i \in 0 .. (n + 1) |-> IF i = n + 1 THEN G[f[n]] ELSE f[i]]
  <2>3. G[f[n]] \in A /\ n \in Nat /\ n + 1 \in 0 .. L
    BY <1>2, <2>2
  <2>4. g \in [0 .. (n + 1) -> A]
    BY <2>2, <2>3
  <2>5. g[0] = a
    BY <2>2, <2>3
  <2>6. \A i \in 1 .. (n + 1) : g[i] = G[g[i - 1]]
    BY <2>2, <2>3
  <2> HIDE DEF g
  <2>7. Iterates(g, A, a, G, n + 1)
    BY <2>4, <2>5, <2>6 DEF Iterates
  <2> QED
    BY <2>3, <2>7
<1>3. L \in H
  <2>1. H \in SUBSET (0 .. L)
    OBVIOUS
  <2> HIDE DEF H
  <2>2. H = 0 .. L
    BY <1>1, <1>2, <2>1, StepByStep
  <2> QED
    BY <2>2
<1> QED
  BY <1>3

LEMMA LiveStages ==
  ASSUME Len(order) \in Nat, NEW v
  PROVE  \E f : Stages(f, v)
<1> DEFINE defines == {b \in Blocks : \E i \in DOMAIN Code(b) : Code(b)[i].dst = v}
           reads == {b \in Blocks : \E i \in DOMAIN Code(b) : v \in Code(b)[i].uses} \cup CopiedIn(v)
           leads(to) == {b \in Blocks : \E k \in DOMAIN Succs(b) : Succs(b)[k] \in to}
           live[n \in 0 .. Len(order)] ==
             (IF n = 0 THEN reads ELSE live[n - 1] \cup leads(live[n - 1])) \ defines
           G == [X \in SUBSET Blocks |-> Grown(X, v)]
           a == ReadIn(v) \ DefinedIn(v)
<1>1. LiveInto(v) = live[Len(order)]
  BY DEF LiveInto
<1>2. defines = DefinedIn(v) /\ reads = ReadIn(v) /\ \A X : leads(X) = LeadsTo(X)
  BY DEF DefinedIn, ReadIn, LeadsTo
<1>3. a \in SUBSET Blocks /\ G \in [SUBSET Blocks -> SUBSET Blocks]
  BY DEF ReadIn, CopiedIn, Grown, LeadsTo
<1> HIDE DEF defines, reads, leads
<1>4. PICK f : Iterates(f, SUBSET Blocks, a, G, Len(order))
  <2> HIDE DEF a, G
  <2> QED
    BY <1>3, Iteration
<1>5. /\ f \in [0 .. Len(order) -> SUBSET Blocks] /\ f[0] = a
      /\ \A n \in 1 .. Len(order) : f[n] = G[f[n - 1]]
  BY <1>4 DEF Iterates
<1>6. \A n \in 1 .. Len(order) : f[n] = Grown(f[n - 1], v)
  <2>1. \A n \in 1 .. Len(order) : f[n - 1] \in SUBSET Blocks
    BY <1>5
  <2> QED
    BY <1>5, <2>1
<1>7. f = [n \in 0 .. Len(order) |->
             (IF n = 0 THEN reads ELSE f[n - 1] \cup leads(f[n - 1])) \ defines]
  <2>1. \A n \in 0 .. Len(order) :
          f[n] = (IF n = 0 THEN reads ELSE f[n - 1] \cup leads(f[n - 1])) \ defines
    <3> SUFFICES ASSUME NEW n \in 0 .. Len(order)
                 PROVE  f[n] = (IF n = 0 THEN reads ELSE f[n - 1] \cup leads(f[n - 1])) \ defines
      OBVIOUS
    <3>1. CASE n = 0
      BY <1>2, <1>5, <3>1
    <3>2. CASE n # 0
      <4>1. n \in 1 .. Len(order)
        BY <3>2
      <4> QED
        BY <1>2, <1>6, <3>2, <4>1 DEF Grown
    <3> QED
      BY <3>1, <3>2
  <2> QED
    BY <1>5, <2>1
<1>8. live = [n \in 0 .. Len(order) |->
                (IF n = 0 THEN reads ELSE live[n - 1] \cup leads(live[n - 1])) \ defines]
  BY <1>7
<1> HIDE DEF live
<1>9. live[0] = a /\ \A n \in 1 .. Len(order) : live[n] = Grown(live[n - 1], v)
  <2>1. \A n \in 0 .. Len(order) :
          live[n] = (IF n = 0 THEN reads ELSE live[n - 1] \cup leads(live[n - 1])) \ defines
    BY <1>8
  <2>2. live[0] = reads \ defines
    BY <2>1
  <2>3. ASSUME NEW n \in 1 .. Len(order)
        PROVE  live[n] = (live[n - 1] \cup leads(live[n - 1])) \ defines
    <3>1. n \in 0 .. Len(order) /\ n # 0
      OBVIOUS
    <3> QED
      BY <2>1, <3>1
  <2> QED
    BY <1>2, <2>2, <2>3 DEF Grown
<1>10. live \in [0 .. Len(order) -> SUBSET Blocks]
  <2> DEFINE H == {n \in 0 .. Len(order) : live[n] \in SUBSET Blocks}
  <2>1. 0 \in H
    BY <1>3, <1>9
  <2>2. ASSUME NEW n \in 0 .. Len(order), n \in H, n < Len(order) PROVE n + 1 \in H
    <3>1. n + 1 \in 1 .. Len(order) /\ n + 1 - 1 = n
      BY <2>2
    <3>2. live[n + 1] = Grown(live[n], v)
      BY <1>9, <3>1
    <3> QED
      BY <2>2, <3>1, <3>2 DEF Grown, LeadsTo
  <2>3. H = 0 .. Len(order)
    <3>1. H \in SUBSET (0 .. Len(order))
      OBVIOUS
    <3> HIDE DEF H
    <3> QED
      BY <2>1, <2>2, <3>1, StepByStep
  <2>4. \A n \in 0 .. Len(order) : live[n] \in SUBSET Blocks
    BY <2>3
  <2> QED
    BY <1>8, <2>4
<1> QED
  BY <1>1, <1>9, <1>10 DEF Stages

LEMMA BlocksFinite ==
  ASSUME Len(order) \in Nat, DOMAIN order = 1 .. Len(order)
  PROVE  IsFiniteSet(Blocks) /\ Cardinality(Blocks) \in Nat /\ Cardinality(Blocks) <= Len(order)
<1> DEFINE N == Len(order)
           f == [k \in 1 .. N |-> order[k]]
<1>1. IsFiniteSet(1 .. N) /\ Cardinality(1 .. N) = N
  <2>1. N \in Nat
    OBVIOUS
  <2>2. 1 \in Int /\ N \in Int
    BY <2>1
  <2> HIDE DEF N
  <2>3. IsFiniteSet(1 .. N) /\ Cardinality(1 .. N) = IF 1 > N THEN 0 ELSE N - 1 + 1
    BY <2>2, FS_Interval
  <2> QED
    BY <2>1, <2>3
<1>2. f \in Surjection(1 .. N, Blocks)
  <2>1. f \in [1 .. N -> Blocks] /\ \A b \in Blocks : \E k \in 1 .. N : f[k] = b
    BY DEF Blocks
  <2> QED
    BY <2>1 DEF Surjection
<1>3. IsFiniteSet(Blocks) /\ Cardinality(Blocks) <= Cardinality(1 .. N)
  <2> HIDE DEF f, N
  <2> QED
    BY <1>1, <1>2, FS_Surjection
<1> QED
  BY <1>1, <1>3, FS_CardinalityType

(* A block of which a successor is among those that v is live into is one  *)
(* itself, unless it defines v: there are not more stages than blocks.     *)
LEMMA LiveClosed ==
  ASSUME Len(order) \in Nat, DOMAIN order = 1 .. Len(order), NEW v
  PROVE  /\ LiveInto(v) \in SUBSET (Blocks \ DefinedIn(v))
         /\ ReadIn(v) \ DefinedIn(v) \subseteq LiveInto(v)
         /\ LeadsTo(LiveInto(v)) \ DefinedIn(v) \subseteq LiveInto(v)
<1> DEFINE N == Len(order)
<1>1. PICK f : Stages(f, v)
  BY LiveStages
<1>2. /\ f \in [0 .. N -> SUBSET Blocks] /\ f[0] = ReadIn(v) \ DefinedIn(v)
      /\ \A n \in 1 .. N : f[n] = Grown(f[n - 1], v)
      /\ LiveInto(v) = f[N]
  BY <1>1 DEF Stages
<1>3. \A n \in 0 .. N : f[n] \cap DefinedIn(v) = {}
  <2> SUFFICES ASSUME NEW n \in 0 .. N PROVE f[n] \cap DefinedIn(v) = {}
    OBVIOUS
  <2>1. CASE n = 0
    BY <1>2, <2>1
  <2>2. CASE n # 0
    <3>1. n \in 1 .. N
      BY <2>2
    <3> QED
      BY <1>2, <3>1 DEF Grown
  <2> QED
    BY <2>1, <2>2
<1>4. \A n \in 0 .. N : n < N => n + 1 \in 0 .. N /\ f[n + 1] = Grown(f[n], v) /\ f[n] \subseteq f[n + 1]
  <2> SUFFICES ASSUME NEW n \in 0 .. N, n < N
               PROVE  n + 1 \in 0 .. N /\ f[n + 1] = Grown(f[n], v) /\ f[n] \subseteq f[n + 1]
    OBVIOUS
  <2>1. n + 1 \in 1 .. N /\ n + 1 - 1 = n /\ n + 1 \in 0 .. N
    OBVIOUS
  <2>2. f[n + 1] = Grown(f[n], v)
    BY <1>2, <2>1
  <2> QED
    BY <1>3, <2>1, <2>2 DEF Grown
<1>5. f[0] \subseteq f[N]
  <2> DEFINE H == {n \in 0 .. N : f[0] \subseteq f[n]}
  <2>1. 0 \in H /\ H \in SUBSET (0 .. N)
    OBVIOUS
  <2>2. \A n \in 0 .. N : n \in H /\ n < N => n + 1 \in H
    BY <1>4
  <2>3. H = 0 .. N
    <3> HIDE DEF H, N
    <3> QED
      BY <2>1, <2>2, StepByStep DEF N
  <2> QED
    BY <2>3
<1>6. IsFiniteSet(Blocks) /\ Cardinality(Blocks) \in Nat /\ Cardinality(Blocks) <= N
  BY BlocksFinite
<1>7. \A n \in 0 .. N : IsFiniteSet(f[n]) /\ Cardinality(f[n]) \in Nat
  <2> SUFFICES ASSUME NEW n \in 0 .. N PROVE IsFiniteSet(f[n]) /\ Cardinality(f[n]) \in Nat
    OBVIOUS
  <2>1. f[n] \in SUBSET Blocks
    BY <1>2
  <2>2. IsFiniteSet(f[n])
    BY <1>6, <2>1, FS_Subset
  <2> QED
    BY <2>2, FS_CardinalityType
<1>8. Grown(f[N], v) = f[N] \/ Cardinality(f[N]) >= N
  <2> DEFINE H == {n \in 0 .. N : Grown(f[n], v) = f[n] \/ Cardinality(f[n]) >= n}
  <2>1. 0 \in H
    BY <1>7
  <2>2. ASSUME NEW n \in 0 .. N, n \in H, n < N PROVE n + 1 \in H
    <3>1. n + 1 \in 0 .. N /\ f[n + 1] = Grown(f[n], v) /\ f[n] \subseteq f[n + 1]
      BY <1>4, <2>2
    <3>2. CASE f[n + 1] = f[n]
      <4>1. Grown(f[n + 1], v) = f[n + 1]
        BY <3>1, <3>2
      <4> QED
        BY <3>1, <4>1
    <3>3. CASE f[n + 1] # f[n]
      <4>1. Cardinality(f[n]) >= n
        BY <2>2, <3>1, <3>3
      <4>2. IsFiniteSet(f[n + 1]) /\ Cardinality(f[n]) \in Nat /\ Cardinality(f[n + 1]) \in Nat
        BY <1>7, <3>1
      <4>3. f[n] \in SUBSET f[n + 1]
        BY <3>1
      <4>4. /\ Cardinality(f[n]) <= Cardinality(f[n + 1])
            /\ Cardinality(f[n + 1]) = Cardinality(f[n]) => f[n + 1] = f[n]
        BY <4>2, <4>3, FS_Subset
      <4>5. Cardinality(f[n + 1]) >= n + 1
        BY <3>3, <4>1, <4>2, <4>4
      <4> QED
        BY <3>1, <4>5
    <3> QED
      BY <3>2, <3>3
  <2>3. H = 0 .. N
    <3>1. H \in SUBSET (0 .. N)
      OBVIOUS
    <3> HIDE DEF H, N
    <3> QED
      BY <2>1, <2>2, <3>1, StepByStep DEF N
  <2>4. N \in H
    BY <2>3
  <2> QED
    BY <2>4
<1>9. Grown(f[N], v) \subseteq f[N]
  <2>1. CASE Grown(f[N], v) = f[N]
    BY <2>1
  <2>2. CASE Cardinality(f[N]) >= N
    <3>1. f[N] \in SUBSET Blocks /\ Cardinality(f[N]) \in Nat
      BY <1>2, <1>7
    <3>2. /\ Cardinality(f[N]) <= Cardinality(Blocks)
          /\ Cardinality(Blocks) = Cardinality(f[N]) => Blocks = f[N]
      BY <1>6, <3>1, FS_Subset
    <3>3. f[N] = Blocks
      BY <1>6, <2>2, <3>1, <3>2
    <3> QED
      BY <3>3 DEF Grown, LeadsTo
  <2> QED
    BY <1>8, <2>1, <2>2
<1>10. f[N] \in SUBSET (Blocks \ DefinedIn(v))
  BY <1>2, <1>3
<1> QED
  BY <1>2, <1>5, <1>9, <1>10 DEF Grown

(* A set with the blocks that read v, and with every block from which one  *)
(* that v is live into and that is in the set can be reached in a step.    *)
LEMMA LiveLeast ==
  ASSUME Len(order) \in Nat, DOMAIN order = 1 .. Len(order), NEW v, NEW S,
         ReadIn(v) \ DefinedIn(v) \subseteq S,
         \A t \in S \cap LiveInto(v) : LeadsTo({t}) \ DefinedIn(v) \subseteq S
  PROVE  LiveInto(v) \subseteq S
<1> DEFINE N == Len(order)
<1>1. PICK f : Stages(f, v)
  BY LiveStages
<1>2. /\ f \in [0 .. N -> SUBSET Blocks] /\ f[0] = ReadIn(v) \ DefinedIn(v)
      /\ \A n \in 1 .. N : f[n] = Grown(f[n - 1], v)
      /\ LiveInto(v) = f[N]
  BY <1>1 DEF Stages
<1>3. \A n \in 0 .. N : n < N => n + 1 \in 0 .. N /\ f[n + 1] = Grown(f[n], v)
  <2> SUFFICES ASSUME NEW n \in 0 .. N, n < N
               PROVE  n + 1 \in 0 .. N /\ f[n + 1] = Grown(f[n], v)
    OBVIOUS
  <2>1. n + 1 \in 1 .. N /\ n + 1 - 1 = n /\ n + 1 \in 0 .. N
    OBVIOUS
  <2> QED
    BY <1>2, <2>1
<1>4. \A n \in 0 .. N : f[n] \cap DefinedIn(v) = {}
  <2> SUFFICES ASSUME NEW n \in 0 .. N PROVE f[n] \cap DefinedIn(v) = {}
    OBVIOUS
  <2>1. CASE n = 0
    BY <1>2, <2>1
  <2>2. CASE n # 0
    <3>1. n \in 1 .. N
      BY <2>2
    <3> QED
      BY <1>2, <3>1 DEF Grown
  <2> QED
    BY <2>1, <2>2
<1>5. \A n \in 0 .. N : f[n] \subseteq LiveInto(v)
  <2> DEFINE H == {n \in 0 .. N : f[N - n] \subseteq f[N]}
  <2>1. 0 \in H
    OBVIOUS
  <2>2. ASSUME NEW n \in 0 .. N, n \in H, n < N PROVE n + 1 \in H
    <3>1. N - (n + 1) \in 0 .. N /\ N - (n + 1) < N /\ N - (n + 1) + 1 = N - n /\ n + 1 \in 0 .. N
      BY <2>2
    <3>2. f[N - n] = Grown(f[N - (n + 1)], v)
      BY <1>3, <3>1
    <3>3. f[N - (n + 1)] \subseteq f[N - n]
      BY <1>4, <3>1, <3>2 DEF Grown
    <3> QED
      BY <2>2, <3>1, <3>3
  <2>3. H = 0 .. N
    <3>1. H \in SUBSET (0 .. N)
      OBVIOUS
    <3> HIDE DEF H, N
    <3> QED
      BY <2>1, <2>2, <3>1, StepByStep DEF N
  <2>4. \A n \in 0 .. N : N - n \in 0 .. N /\ N - (N - n) = n
    OBVIOUS
  <2> QED
    BY <1>2, <2>3, <2>4
<1>6. f[N] \subseteq S
  <2> DEFINE H == {n \in 0 .. N : f[n] \subseteq S}
  <2>1. 0 \in H
    BY <1>2
  <2>2. ASSUME NEW n \in 0 .. N, n \in H, n < N PROVE n + 1 \in H
    <3>1. n + 1 \in 0 .. N /\ f[n + 1] = Grown(f[n], v)
      BY <1>3, <2>2
    <3>2. f[n] \subseteq S \cap LiveInto(v)
      BY <1>5, <2>2
    <3>3. ASSUME NEW b \in LeadsTo(f[n]) \ DefinedIn(v) PROVE b \in S
      <4>1. PICK k \in DOMAIN Succs(b) : Succs(b)[k] \in f[n]
        BY <3>3 DEF LeadsTo
      <4>2. b \in LeadsTo({Succs(b)[k]})
        BY <3>3, <4>1 DEF LeadsTo
      <4> QED
        BY <3>2, <3>3, <4>1, <4>2
    <3>4. f[n + 1] \subseteq S
      BY <2>2, <3>1, <3>3 DEF Grown
    <3> QED
      BY <3>1, <3>4
  <2>3. H = 0 .. N
    <3>1. H \in SUBSET (0 .. N)
      OBVIOUS
    <3> HIDE DEF H, N
    <3> QED
      BY <2>1, <2>2, <3>1, StepByStep DEF N
  <2> QED
    BY <2>3
<1> QED
  BY <1>2, <1>6
-----------------------------------------------------------------------------
(* The run.  Laid puts together what the phases before have left; from it  *)
(* and from ScanInv follows that no other value is put into the register   *)
(* of a value that is needed, unless the value is exposed.                 *)

Laid ==
  /\ Blocks = DOMAIN prog /\ 1 \in Blocks
  /\ \A b \in Blocks :
       /\ lscan_seq[b] \in Nat /\ lscan_seq[1] <= lscan_seq[b]
       /\ Len(Code(b)) \in Nat \ {0} /\ DOMAIN Code(b) = 1 .. Len(Code(b))
  /\ \A b \in Blocks : \A i \in DOMAIN Code(b) :
       /\ Number(b, i) \in Nat /\ Number(b, i) <= LastSeq
       /\ \A v \in Values : Defines(b, i, v) => def_seq[v] = Number(b, i)
       /\ \A v \in Operands(Code(b)[i]) : <<v, Number(b, i)>> \in mentions
  /\ \A v \in Values : def_seq[v] >= 0 => \E b \in Blocks : \E i \in DOMAIN Code(b) : Defines(b, i, v)
  /\ \A b, c \in Blocks :
       b # c => \/ lscan_seq[b] + Len(Code(b)) <= lscan_seq[c]
                \/ lscan_seq[c] + Len(Code(c)) <= lscan_seq[b]
  /\ \A b \in Blocks : \A k \in DOMAIN Succs(b) :
       /\ Succs(b)[k] \in Blocks \ {b}
       /\ lscan_seq[Succs(b)[k]] < lscan_seq[b] => Succs(b)[k] \in Headers

(* Value v is needed before instruction i of block b. *)
NotDefinedFrom(v, b, i) == \A j \in DOMAIN Code(b) : j >= i => Code(b)[j].dst # v

UsedFrom(v, b, i) == \E j \in DOMAIN Code(b) : j >= i /\ v \in Code(b)[j].uses

LiveOut(v, b) == b \in CopiedIn(v) \/ \E k \in DOMAIN Succs(b) : Succs(b)[k] \in LiveInto(v)

LiveAt(v, b, i) == NotDefinedFrom(v, b, i) /\ (UsedFrom(v, b, i) \/ LiveOut(v, b))

Kept(v) == HasRegister(v) /\ ~Exposed(v)

RunInv ==
  /\ pc[1] \in DOMAIN prog /\ pc[2] \in DOMAIN Code(pc[1])
  /\ phase # "run" => pc = <<1, 1>> /\ lost = {}
  /\ phase = "run" =>
       \A v \in Values : Kept(v) /\ LiveAt(v, pc[1], pc[2]) => holds[phys_reg[v]] = v
  /\ \A v \in lost : Exposed(v)

Allocated == phase \in {"scan", "run"}

LEMMA LaidOut == NInv /\ Allocated => Laid
<1> SUFFICES ASSUME NInv, Allocated PROVE Laid
  OBVIOUS
<1>1. /\ prog \in Programs /\ Len(order) \in Nat /\ DOMAIN order = 1 .. Len(order)
      /\ seq \in Nat
      /\ \A k \in DOMAIN order :
           /\ order[k] \in DOMAIN prog /\ lscan_seq[order[k]] \in Nat
           /\ Len(Code(order[k])) \in Nat \ {0} /\ DOMAIN Code(order[k]) = 1 .. Len(Code(order[k]))
  BY OrderType DEF NInv
<1>2. /\ cursor[1] = Len(order) + 1 /\ Unplaced = {} /\ order # <<>> /\ order[1] = 1
  BY OrderNotEmpty DEF NInv, SeqInv, Allocated, IInv, BlockScanTypeOK
<1>3. Blocks = DOMAIN prog /\ 1 \in DOMAIN order /\ 1 \in Blocks
  <2>1. Blocks = DOMAIN prog
    <3>1. \A b \in Blocks : b \in DOMAIN prog
      BY <1>1 DEF Blocks
    <3>2. \A b \in DOMAIN prog : b \in Blocks
      BY <1>2 DEF Blocks, Unplaced
    <3> QED
      BY <3>1, <3>2
  <2>2. order \in Seq(DOMAIN prog)
    BY DEF NInv, IInv, BlockScanTypeOK
  <2>3. 1 \in DOMAIN order
    BY <1>1, <1>2, <2>2
  <2> QED
    BY <1>2, <2>1, <2>3 DEF Blocks
<1>4. \A k \in DOMAIN order : \A i \in DOMAIN Code(order[k]) : Passed(k, i) /\ Numbered(k, i)
  <2>1. \A k \in DOMAIN order : \A i : Passed(k, i)
    BY <1>1, <1>2 DEF Passed
  <2> QED
    BY <2>1 DEF NInv, SeqInv
<1>5. \A k, m \in DOMAIN order :
        k < m => lscan_seq[order[k]] + Len(Code(order[k])) <= lscan_seq[order[m]]
  <2>1. \A m \in DOMAIN order : 1 \in DOMAIN Code(order[m])
    BY <1>1
  <2> QED
    BY <1>4, <2>1 DEF NInv, SeqInv
<1>6. \A b \in Blocks : \E k \in DOMAIN order : order[k] = b
  BY DEF Blocks
<1>7. ASSUME NEW b \in Blocks
      PROVE  /\ lscan_seq[b] \in Nat /\ lscan_seq[1] <= lscan_seq[b]
             /\ Len(Code(b)) \in Nat \ {0} /\ DOMAIN Code(b) = 1 .. Len(Code(b))
  <2>1. PICK k \in DOMAIN order : order[k] = b
    BY <1>6
  <2>2. CASE k = 1
    BY <1>1, <1>2, <2>1, <2>2
  <2>3. CASE k # 1
    <3>1. 1 < k /\ k \in Nat
      BY <1>1, <2>3
    <3>2. lscan_seq[order[1]] + Len(Code(order[1])) <= lscan_seq[order[k]]
      BY <1>3, <1>5, <3>1
    <3>3. lscan_seq[1] \in Nat /\ Len(Code(1)) \in Nat /\ lscan_seq[1] + Len(Code(1)) <= lscan_seq[b]
      BY <1>1, <1>2, <1>3, <2>1, <3>2
    <3> QED
      BY <1>1, <2>1, <3>3
  <2> QED
    BY <2>2, <2>3
<1>8. ASSUME NEW b \in Blocks, NEW i \in DOMAIN Code(b)
      PROVE  /\ Number(b, i) \in Nat /\ Number(b, i) <= LastSeq
             /\ \A v \in Values : Defines(b, i, v) => def_seq[v] = Number(b, i)
             /\ \A v \in Operands(Code(b)[i]) : <<v, Number(b, i)>> \in mentions
  <2>1. PICK k \in DOMAIN order : order[k] = b
    BY <1>6
  <2>2. Numbered(k, i)
    BY <1>4, <1>8, <2>1
  <2>3. Number(b, i) \in Nat
    BY <1>7, <1>8 DEF Number
  <2>4. Number(b, i) < seq
    BY <2>1, <2>2 DEF Numbered
  <2>5. Number(b, i) <= LastSeq
    BY <1>1, <2>3, <2>4 DEF LastSeq
  <2> QED
    BY <2>1, <2>2, <2>3, <2>5 DEF Numbered
<1>9. ASSUME NEW v \in Values, def_seq[v] >= 0
      PROVE  \E b \in Blocks : \E i \in DOMAIN Code(b) : Defines(b, i, v)
  BY <1>9 DEF NInv, SeqInv, Blocks
<1>10. ASSUME NEW b \in Blocks, NEW c \in Blocks, b # c
       PROVE  \/ lscan_seq[b] + Len(Code(b)) <= lscan_seq[c]
              \/ lscan_seq[c] + Len(Code(c)) <= lscan_seq[b]
  <2>1. PICK k \in DOMAIN order : order[k] = b
    BY <1>6
  <2>2. PICK m \in DOMAIN order : order[m] = c
    BY <1>6
  <2>3. k < m \/ m < k
    BY <1>1, <1>10, <2>1, <2>2
  <2> QED
    BY <1>5, <2>1, <2>2, <2>3
<1>11. ASSUME NEW b \in Blocks, NEW k \in DOMAIN Succs(b)
       PROVE  /\ Succs(b)[k] \in Blocks \ {b}
              /\ lscan_seq[Succs(b)[k]] < lscan_seq[b] => Succs(b)[k] \in Headers
  <2> DEFINE t == Succs(b)[k]
  <2>1. t \in DOMAIN prog \ {b}
    BY <1>1, <1>3, ProgramsAssumption, Zenon DEF Succs
  <2>2. PICK m \in DOMAIN order : order[m] = b
    BY <1>6
  <2>3. PICK n \in DOMAIN order : order[n] = t
    BY <1>3, <1>6, <2>1
  <2>4. ASSUME lscan_seq[t] < lscan_seq[b] PROVE m > n
    <3>1. m # n /\ m \in Nat /\ n \in Nat
      BY <1>1, <2>1, <2>2, <2>3
    <3>2. ~(m < n)
      <4> SUFFICES ASSUME m < n PROVE FALSE
        OBVIOUS
      <4>1. lscan_seq[b] + Len(Code(b)) <= lscan_seq[t]
        BY <1>5, <2>2, <2>3
      <4> QED
        BY <1>3, <1>7, <2>1, <2>4, <4>1
    <3> QED
      BY <3>1, <3>2
  <2>5. ASSUME m > n PROVE t \in Headers
    BY <2>2, <2>3, <2>5 DEF Headers
  <2> QED
    BY <1>3, <2>1, <2>4, <2>5
<1> QED
  BY <1>3, <1>7, <1>8, <1>9, <1>10, <1>11 DEF Laid

LEMMA NumbersDiffer ==
  ASSUME Laid, NEW b \in Blocks, NEW c \in Blocks, NEW i \in DOMAIN Code(b), NEW j \in DOMAIN Code(c),
         Number(b, i) = Number(c, j)
  PROVE  b = c /\ i = j
<1>1. /\ lscan_seq[b] \in Nat /\ Len(Code(b)) \in Nat /\ i \in 1 .. Len(Code(b))
      /\ lscan_seq[c] \in Nat /\ Len(Code(c)) \in Nat /\ j \in 1 .. Len(Code(c))
      /\ lscan_seq[b] + i - 1 = lscan_seq[c] + j - 1
  BY DEF Laid, Number
<1>2. b # c => \/ lscan_seq[b] + Len(Code(b)) <= lscan_seq[c]
               \/ lscan_seq[c] + Len(Code(c)) <= lscan_seq[b]
  BY DEF Laid
<1>3. b = c
  BY <1>1, <1>2
<1> QED
  BY <1>1, <1>3

LEMMA UsesAreOperands ==
  ASSUME prog \in Programs, NEW b \in DOMAIN prog, NEW i \in DOMAIN Code(b), NEW v \in Code(b)[i].uses
  PROVE  v \in Operands(Code(b)[i])
<1>1. Code(b)[i].op = "phi" => Code(b)[i].uses = {}
  BY SSAAssumption DEF Code
<1> QED
  BY <1>1 DEF Operands

(* A block that does not define a value and from which the value is needed. *)
LEMMA NeededBlock ==
  ASSUME NInv, Laid, NEW v, NEW b \in Blocks, NEW i,
         b \notin DefinedIn(v), UsedFrom(v, b, i) \/ LiveOut(v, b)
  PROVE  b \in LiveInto(v)
<1>1. /\ ReadIn(v) \ DefinedIn(v) \subseteq LiveInto(v)
      /\ LeadsTo(LiveInto(v)) \ DefinedIn(v) \subseteq LiveInto(v)
  BY OrderType, LiveClosed DEF NInv
<1>2. CASE UsedFrom(v, b, i) \/ b \in CopiedIn(v)
  <2>1. b \in ReadIn(v)
    BY <1>2 DEF UsedFrom, ReadIn
  <2> QED
    BY <1>1, <2>1
<1>3. CASE \E k \in DOMAIN Succs(b) : Succs(b)[k] \in LiveInto(v)
  <2>1. b \in LeadsTo(LiveInto(v))
    BY <1>3 DEF LeadsTo
  <2> QED
    BY <1>1, <2>1
<1> QED
  BY <1>2, <1>3 DEF LiveOut

(* An interval reaches every block that ends in a copy of the value. *)
LEMMA ReachesCopies ==
  ASSUME NInv, Allocated, Laid, NEW v \in Values, ~Exposed(v), def_seq[v] >= 0, NEW b \in CopiedIn(v)
  PROVE  last_use[v] >= Number(b, Len(Code(b)))
<1>1. b \in Blocks /\ ~Behind(b, v)
  BY DEF CopiedIn, Exposed
<1>2. Number(b, Len(Code(b))) \in Nat /\ Number(b, Len(Code(b))) <= LastSeq
  BY <1>1 DEF Laid
<1>3. last_use[v] \in Int /\ def_seq[v] \in Int /\ mentions \subseteq Values \X Nat /\ LastSeq \in Nat
  BY DEF NInv, IInv, BlockScanTypeOK, LastSeq
<1>4. CASE \E m \in mentions : m[1] = v /\ ~(m[2] < Number(b, Len(Code(b))))
  <2>1. PICK m \in mentions : m[1] = v /\ ~(m[2] < Number(b, Len(Code(b))))
    BY <1>4
  <2>2. m[2] <= last_use[v] /\ m[2] \in Nat
    BY <1>3, <2>1 DEF NInv, IInv, NumberInv
  <2> QED
    BY <1>2, <1>3, <2>1, <2>2
<1>5. CASE ~\E m \in mentions : m[1] = v /\ m[2] >= def_seq[v]
  <2>1. v \in PhiSources
    <3>1. PICK k \in DOMAIN Succs(b) : \E i \in Copied(b, Succs(b)[k]) : Code(Succs(b)[k])[i].from[b] = v
      BY DEF CopiedIn
    <3>2. PICK i \in Copied(b, Succs(b)[k]) : Code(Succs(b)[k])[i].from[b] = v
      BY <3>1
    <3>3. Succs(b)[k] \in Blocks
      BY <1>1, <3>1 DEF Laid
    <3>4. i \in Phis(Succs(b)[k]) /\ v \in Operands(Code(Succs(b)[k])[i])
      BY <3>2 DEF Copied, Phis, Operands
    <3> QED
      BY <3>3, <3>4 DEF PhiSources
  <2>2. \A m \in mentions : m[1] = v => m[2] < def_seq[v]
    BY <1>3, <1>5
  <2>3. last_use[v] = LastSeq
    BY <2>1, <2>2 DEF NInv, PhiInv, Allocated
  <2> QED
    BY <1>2, <2>3
<1> QED
  BY <1>1, <1>4, <1>5 DEF Behind

(* An interval reaches every block that the value is live into. *)
LEMMA ReachesLiveBlocks ==
  ASSUME NInv, Allocated, Laid, NEW v \in Values, ~Exposed(v), def_seq[v] >= 0
  PROVE  \A c \in LiveInto(v) : c \in Blocks /\ def_seq[v] < lscan_seq[c] /\ lscan_seq[c] <= last_use[v]
<1>1. /\ last_use[v] \in Int /\ def_seq[v] \in Int /\ LastSeq \in Nat
      /\ Len(order) \in Nat /\ DOMAIN order = 1 .. Len(order)
  BY OrderType DEF NInv, IInv, BlockScanTypeOK, LastSeq
<1>2. LiveInto(v) \in SUBSET (Blocks \ DefinedIn(v))
  BY <1>1, LiveClosed
<1>3. ASSUME NEW c \in LiveInto(v) PROVE c \in Blocks /\ lscan_seq[c] \in Nat /\ def_seq[v] < lscan_seq[c]
  <2>1. c \in Blocks /\ c \notin DefinedIn(v)
    BY <1>2
  <2>2. PICK b \in Blocks : \E i \in DOMAIN Code(b) : Defines(b, i, v)
    BY DEF Laid
  <2>3. PICK i \in DOMAIN Code(b) : Defines(b, i, v)
    BY <2>2
  <2>4. def_seq[v] = Number(b, i)
    BY <2>3 DEF Laid
  <2>5. 1 \in DOMAIN Code(c) /\ lscan_seq[c] = Number(c, 1) /\ lscan_seq[c] \in Nat
    BY <2>1 DEF Laid, Number
  <2>6. b # c
    BY <2>1, <2>3 DEF Defines, DefinedIn
  <2>7. def_seq[v] # lscan_seq[c]
    BY <2>1, <2>4, <2>5, <2>6, NumbersDiffer
  <2>8. ~(lscan_seq[c] < def_seq[v])
    BY DEF Exposed
  <2> QED
    BY <1>1, <2>1, <2>5, <2>7, <2>8
<1> DEFINE S == {c \in Blocks : lscan_seq[c] <= last_use[v]}
<1>4. ReadIn(v) \ DefinedIn(v) \subseteq S
  <2> SUFFICES ASSUME NEW c \in ReadIn(v) PROVE c \in S
    OBVIOUS
  <2>1. CASE c \in CopiedIn(v)
    <3>1. c \in Blocks
      BY <2>1 DEF CopiedIn
    <3>2. last_use[v] >= Number(c, Len(Code(c)))
      BY <2>1, ReachesCopies
    <3>3. lscan_seq[c] \in Nat /\ Len(Code(c)) \in Nat \ {0}
      BY <3>1 DEF Laid
    <3>4. lscan_seq[c] <= Number(c, Len(Code(c))) /\ Number(c, Len(Code(c))) \in Int
      BY <3>3 DEF Number
    <3> QED
      BY <1>1, <3>1, <3>2, <3>3, <3>4
  <2>2. CASE c \in Blocks /\ \E i \in DOMAIN Code(c) : v \in Code(c)[i].uses
    <3>1. PICK i \in DOMAIN Code(c) : v \in Code(c)[i].uses
      BY <2>2
    <3>2. v \in Operands(Code(c)[i])
      BY <2>2, <3>1, UsesAreOperands DEF NInv, IInv, Laid
    <3>3. <<v, Number(c, i)>> \in mentions /\ Number(c, i) \in Nat
      BY <2>2, <3>1, <3>2 DEF Laid
    <3>4. Number(c, i) <= last_use[v]
      BY <3>3 DEF NInv, IInv, NumberInv
    <3>5. lscan_seq[c] \in Nat /\ i \in Nat /\ i >= 1
      BY <2>2, <3>1 DEF Laid
    <3>6. lscan_seq[c] <= Number(c, i)
      BY <3>5 DEF Number
    <3> QED
      BY <1>1, <2>2, <3>3, <3>4, <3>5, <3>6
  <2> QED
    BY <2>1, <2>2 DEF ReadIn
<1>5. ASSUME NEW t \in S \cap LiveInto(v), NEW c \in LeadsTo({t}) PROVE c \in S
  <2>1. PICK k \in DOMAIN Succs(c) : Succs(c)[k] = t
    BY DEF LeadsTo
  <2>2. c \in Blocks /\ lscan_seq[c] \in Nat /\ lscan_seq[c] <= LastSeq
    <3>1. c \in Blocks
      BY DEF LeadsTo
    <3>2. 1 \in DOMAIN Code(c) /\ Number(c, 1) = lscan_seq[c] /\ lscan_seq[c] \in Nat
      BY <3>1 DEF Laid, Number
    <3> QED
      BY <3>1, <3>2 DEF Laid
  <2>3. /\ t \in Blocks /\ lscan_seq[t] \in Nat
        /\ def_seq[v] < lscan_seq[t] /\ lscan_seq[t] <= last_use[v]
    BY <1>3
  <2>4. CASE lscan_seq[t] < lscan_seq[c]
    <3>1. t \in Headers
      BY <2>1, <2>2, <2>4 DEF Laid
    <3>2. Entering(v, t)
      BY <1>1, <2>3 DEF Entering
    <3>3. last_use[v] = LastSeq
      BY <3>1, <3>2 DEF NInv, EnterInv, Allocated
    <3> QED
      BY <2>2, <3>3
  <2>5. CASE ~(lscan_seq[t] < lscan_seq[c])
    BY <1>1, <2>2, <2>3, <2>5
  <2> QED
    BY <2>4, <2>5
<1>6. LiveInto(v) \subseteq S
  <2> HIDE DEF S
  <2> QED
    BY <1>1, <1>4, <1>5, LiveLeast
<1> QED
  BY <1>3, <1>6

(* An interval contains, with the definition before it, every place behind *)
(* which the value is needed.                                              *)
LEMMA NeededInside ==
  ASSUME NInv, Allocated, Laid, NEW v \in Values, ~Exposed(v), def_seq[v] >= 0,
         NEW b \in Blocks, NEW i \in DOMAIN Code(b), i < Len(Code(b)), Code(b)[i].dst # v,
         LiveAt(v, b, i + 1)
  PROVE  def_seq[v] < Number(b, i) /\ Number(b, i) < last_use[v]
<1> DEFINE n == Number(b, i)
           L == Len(Code(b))
<1>1. /\ last_use[v] \in Int /\ def_seq[v] \in Int /\ LastSeq \in Nat /\ prog \in Programs
  BY DEF NInv, IInv, BlockScanTypeOK, LastSeq
<1>2. /\ lscan_seq[b] \in Nat /\ L \in Nat \ {0} /\ DOMAIN Code(b) = 1 .. L /\ Blocks = DOMAIN prog
      /\ n \in Nat /\ i \in 1 .. L /\ L \in DOMAIN Code(b)
  BY DEF Laid
<1>3. n < Number(b, L) /\ Number(b, L) <= LastSeq /\ Number(b, L) \in Nat
  <2>1. Number(b, L) <= LastSeq /\ Number(b, L) \in Nat
    BY <1>2 DEF Laid
  <2> QED
    BY <1>2, <2>1 DEF Number
<1>4. lscan_seq[b] <= n
  BY <1>2 DEF Number
<1>5. UsedFrom(v, b, i + 1) \/ LiveOut(v, b)
  BY DEF LiveAt
<1> HIDE DEF n, L
<1>6. def_seq[v] < n
  <2>1. PICK c \in Blocks : \E j \in DOMAIN Code(c) : Defines(c, j, v)
    BY DEF Laid
  <2>2. PICK j \in DOMAIN Code(c) : Defines(c, j, v)
    BY <2>1
  <2>3. def_seq[v] = Number(c, j)
    BY <2>2 DEF Laid
  <2>4. CASE c = b
    <3>1. ~(j >= i + 1) /\ j # i
      BY <2>2, <2>4 DEF LiveAt, NotDefinedFrom, Defines
    <3>2. j \in 1 .. L
      BY <1>2, <2>4
    <3>3. j < i
      BY <1>2, <3>1, <3>2
    <3> QED
      BY <1>2, <2>3, <2>4, <3>2, <3>3 DEF Number, n
  <2>5. CASE c # b
    <3>1. b \notin DefinedIn(v)
      <4> SUFFICES ASSUME b \in DefinedIn(v) PROVE FALSE
        OBVIOUS
      <4>1. PICK k \in DOMAIN Code(b) : Code(b)[k].dst = v
        BY DEF DefinedIn
      <4>2. Defines(b, k, v)
        BY <4>1 DEF Defines
      <4> QED
        BY <1>1, <1>2, <2>2, <2>5, <4>2, DefinedOnce
    <3>2. b \in LiveInto(v)
      BY <1>5, <3>1, NeededBlock
    <3>3. def_seq[v] < lscan_seq[b]
      BY <3>2, ReachesLiveBlocks
    <3> QED
      BY <1>1, <1>2, <1>4, <3>3
  <2> QED
    BY <2>4, <2>5
<1>7. n < last_use[v]
  <2>1. CASE UsedFrom(v, b, i + 1)
    <3>1. PICK j \in DOMAIN Code(b) : j >= i + 1 /\ v \in Code(b)[j].uses
      BY <2>1 DEF UsedFrom
    <3>2. v \in Operands(Code(b)[j])
      BY <1>1, <1>2, <3>1, UsesAreOperands
    <3>3. <<v, Number(b, j)>> \in mentions /\ Number(b, j) \in Nat
      BY <3>2 DEF Laid
    <3>4. Number(b, j) <= last_use[v]
      BY <3>3 DEF NInv, IInv, NumberInv
    <3>5. n < Number(b, j)
      BY <1>2, <3>1 DEF Number, n
    <3> QED
      BY <1>1, <1>2, <3>3, <3>4, <3>5
  <2>2. CASE b \in CopiedIn(v)
    <3>1. last_use[v] >= Number(b, L)
      BY <2>2, ReachesCopies DEF L
    <3> QED
      BY <1>1, <1>2, <1>3, <3>1
  <2>3. CASE \E k \in DOMAIN Succs(b) : Succs(b)[k] \in LiveInto(v)
    <3>1. PICK k \in DOMAIN Succs(b) : Succs(b)[k] \in LiveInto(v)
      BY <2>3
    <3> DEFINE t == Succs(b)[k]
    <3>2. /\ t \in Blocks \ {b} /\ lscan_seq[t] \in Nat
          /\ lscan_seq[t] < lscan_seq[b] => t \in Headers
      BY <3>1 DEF Laid
    <3>3. def_seq[v] < lscan_seq[t] /\ lscan_seq[t] <= last_use[v]
      BY <3>1, ReachesLiveBlocks
    <3>4. Len(Code(t)) \in Nat \ {0}
      BY <3>2 DEF Laid
    <3>5. \/ lscan_seq[b] + L <= lscan_seq[t]
          \/ lscan_seq[t] + Len(Code(t)) <= lscan_seq[b]
      BY <3>2 DEF Laid, L
    <3> HIDE DEF t
    <3>6. CASE lscan_seq[b] + L <= lscan_seq[t]
      <4>1. n < lscan_seq[t]
        BY <1>2, <3>2, <3>6 DEF Number, n
      <4> QED
        BY <1>1, <1>2, <3>2, <3>3, <4>1
    <3>7. CASE lscan_seq[t] + Len(Code(t)) <= lscan_seq[b]
      <4>1. t \in Headers
        BY <1>2, <3>2, <3>4, <3>7
      <4>2. Entering(v, t)
        BY <1>1, <3>2, <3>3 DEF Entering
      <4>3. last_use[v] = LastSeq
        BY <4>1, <4>2 DEF NInv, EnterInv, Allocated
      <4> QED
        BY <1>1, <1>2, <1>3, <4>3
    <3> QED
      BY <3>5, <3>6, <3>7
  <2> QED
    BY <1>5, <2>1, <2>2, <2>3 DEF LiveOut
<1> QED
  BY <1>6, <1>7 DEF n

(* What is computed does not go to the register of a value that is needed  *)
(* afterwards.                                                             *)
LEMMA OtherRegister ==
  ASSUME NInv, Allocated, Laid, NEW v \in Values, Kept(v),
         NEW b \in Blocks, NEW i \in DOMAIN Code(b), i < Len(Code(b)),
         NEW u \in Values, Code(b)[i].dst = u, u # v, LiveAt(v, b, i + 1)
  PROVE  phys_reg[u] # phys_reg[v]
<1>1. HasRegister(v) /\ ~Exposed(v) /\ def_seq[v] >= 0
  BY DEF Kept, NInv, IInv, ScanInv
<1>2. def_seq[v] < Number(b, i) /\ Number(b, i) < last_use[v]
  BY <1>1, NeededInside
<1>3. def_seq[u] = Number(b, i)
  BY DEF Laid, Defines
<1>4. /\ def_seq[v] \in Int /\ last_use[v] \in Int /\ Number(b, i) \in Nat
  BY DEF NInv, IInv, BlockScanTypeOK, Laid
<1> SUFFICES ASSUME phys_reg[u] = phys_reg[v] PROVE FALSE
  OBVIOUS
<1>5. End(v) < def_seq[u]
  BY <1>1, <1>2, <1>3, <1>4 DEF NInv, IInv, ScanInv
<1> QED
  BY <1>2, <1>3, <1>4, <1>5 DEF End

(* A call saves the register of a value that is needed afterwards, but not *)
(* that of its own result.                                                 *)
LEMMA SavedAcross ==
  ASSUME NInv, Allocated, Laid, pc[1] \in Blocks, pc[2] \in DOMAIN Code(pc[1]),
         pc[2] < Len(Code(pc[1])), NEW v \in Values, Kept(v), LiveAt(v, pc[1], pc[2] + 1)
  PROVE  /\ Code(pc[1])[pc[2]].dst # v /\ phys_reg[v] \in CallerSaved => Saved(phys_reg[v])
         /\ Code(pc[1])[pc[2]].dst = v => ~Saved(phys_reg[v])
<1> DEFINE b == pc[1]
           i == pc[2]
<1>1. HasRegister(v) /\ ~Exposed(v) /\ def_seq[v] >= 0
  BY DEF Kept, NInv, IInv, ScanInv
<1>2. ASSUME Code(b)[i].dst # v, phys_reg[v] \in CallerSaved PROVE Saved(phys_reg[v])
  <2>1. def_seq[v] < Number(b, i) /\ Number(b, i) < last_use[v]
    BY <1>1, <1>2, NeededInside
  <2> QED
    BY <1>2, <2>1 DEF Saved
<1>3. ASSUME Code(b)[i].dst = v, Saved(phys_reg[v]) PROVE FALSE
  <2>1. PICK w \in Values : /\ phys_reg[w] = phys_reg[v]
                            /\ def_seq[w] < Number(b, i) /\ last_use[w] > Number(b, i)
    BY <1>3 DEF Saved
  <2>2. def_seq[v] = Number(b, i) /\ Number(b, i) \in Nat
    BY <1>3 DEF Laid, Defines
  <2>3. def_seq[w] \in Int /\ last_use[w] \in Int
    BY DEF NInv, IInv, BlockScanTypeOK
  <2>4. HasRegister(w) /\ w # v
    BY <1>1, <2>1, <2>2, <2>3 DEF HasRegister
  <2>5. End(w) < def_seq[v]
    BY <2>1, <2>2, <2>3, <2>4 DEF NInv, IInv, ScanInv
  <2> QED
    BY <2>1, <2>2, <2>3, <2>5 DEF End
<1> QED
  BY <1>2, <1>3

LEMMA LiveIntoSame ==
  ASSUME UNCHANGED <<prog, order>>, NEW v
  PROVE  LiveInto(v)' = LiveInto(v) /\ CopiedIn(v)' = CopiedIn(v)
<1>1. LiveInto(v)' = LiveInto(v)
  BY DEF LiveInto, CopiedIn, Copied, Blocks, Phis, Code, Succs
<1>2. CopiedIn(v)' = CopiedIn(v)
  BY DEF CopiedIn, Copied, Blocks, Phis, Code, Succs
<1> QED
  BY <1>1, <1>2

LEMMA ExposedSame ==
  ASSUME UNCHANGED <<prog, order, lscan_seq, def_seq, last_use, mentions>>, NEW v
  PROVE  Exposed(v)' <=> Exposed(v)
<1>1. LiveInto(v)' = LiveInto(v) /\ CopiedIn(v)' = CopiedIn(v)
  BY LiveIntoSame
<1>2. \A b : Behind(b, v)' <=> Behind(b, v)
  BY DEF Behind, Number, Code
<1>3. Overtaken(v)' <=> Overtaken(v)
  BY DEF Overtaken, Blocks, Phis, Code, End
<1> QED
  BY <1>1, <1>2, <1>3 DEF Exposed

LEMMA LiveAtSame ==
  ASSUME UNCHANGED <<prog, order>>, NEW v, NEW b, NEW i
  PROVE  LiveAt(v, b, i)' <=> LiveAt(v, b, i)
<1>1. LiveInto(v)' = LiveInto(v) /\ CopiedIn(v)' = CopiedIn(v)
  BY LiveIntoSame
<1> QED
  BY <1>1 DEF LiveAt, NotDefinedFrom, UsedFrom, LiveOut, Code, Succs

(* What a step of the run leaves alone. *)
StepKeeps ==
  /\ phase = "run" /\ phase' = phase
  /\ UNCHANGED <<prog, order, lscan_seq, def_seq, last_use, mentions, phys_reg>>

LEMMA RunStep ==
  ASSUME RunInv, StepKeeps,
         pc'[1] \in DOMAIN prog, pc'[2] \in DOMAIN Code(pc'[1]),
         \A v \in Values : Kept(v) /\ LiveAt(v, pc'[1], pc'[2]) => holds'[phys_reg[v]] = v,
         \A v \in lost' : v \in lost \/ Exposed(v)
  PROVE  RunInv'
<1> USE DEF StepKeeps
<1>1. \A v : Exposed(v)' <=> Exposed(v)
  BY ExposedSame
<1>2. \A v : Kept(v)' <=> Kept(v)
  BY <1>1 DEF Kept, HasRegister
<1>3. PICK b, i : b = pc'[1] /\ i = pc'[2]
  OBVIOUS
<1>4. \A v : LiveAt(v, pc[1], pc[2])' <=> LiveAt(v, b, i)
  <2>1. \A v : LiveAt(v, b, i)' <=> LiveAt(v, b, i)
    BY LiveAtSame
  <2>2. \A v : LiveAt(v, pc[1], pc[2])' <=> LiveAt(v, b, i)'
    BY <1>3 DEF LiveAt, NotDefinedFrom, UsedFrom, LiveOut
  <2> QED
    BY <2>1, <2>2
<1>5. \A v \in lost' : Exposed(v)'
  BY <1>1 DEF RunInv
<1>6. pc'[2] \in DOMAIN (Code(pc[1]))'
  BY DEF Code
<1>7. \A v \in Values : Kept(v)' /\ LiveAt(v, pc[1], pc[2])' => holds'[phys_reg'[v]] = v
  BY <1>2, <1>3, <1>4
<1> QED
  BY <1>5, <1>6, <1>7 DEF RunInv

(* What the code at the place of the run reads is intact or exposed. *)
LEMMA ReadIntact ==
  ASSUME NInv, RunInv, phase = "run", NEW v \in Values,
         \/ v \in Now.uses
         \/ Now.op = "br" /\ pc[1] \in CopiedIn(v)
  PROVE  Intact(v) \/ Exposed(v)
<1> DEFINE b == pc[1]
           i == pc[2]
<1>1. b \in DOMAIN prog /\ i \in DOMAIN Code(b) /\ prog \in Programs
      /\ Len(Code(b)) \in Nat /\ DOMAIN Code(b) = 1 .. Len(Code(b))
  BY CodeType DEF RunInv, NInv, IInv
<1>2. ASSUME HasRegister(v), ~Exposed(v) PROVE holds[phys_reg[v]] = v
  <2>1. v # Nothing
    BY ValuesAssumption
  <2>2. CASE v \in Now.uses
    <3>1. NotDefinedFrom(v, b, i)
      <4> SUFFICES ASSUME NEW j \in DOMAIN Code(b), j >= i, Code(b)[j].dst = v PROVE FALSE
        BY DEF NotDefinedFrom
      <4>1. i <= j /\ v \in Code(b)[i].uses
        BY <1>1, <2>2 DEF Now
      <4>2. v \notin Code(b)[i].uses
        BY <1>1, <2>1, <4>1, SSAAssumption DEF Code
      <4> QED
        BY <4>1, <4>2
    <3>2. UsedFrom(v, b, i)
      BY <1>1, <2>2 DEF UsedFrom, Now
    <3> QED
      BY <1>2, <3>1, <3>2 DEF RunInv, LiveAt, Kept
  <2>3. CASE Now.op = "br" /\ b \in CopiedIn(v)
    <3>1. i = Len(Code(b)) /\ Code(b)[i].dst = Nothing
      BY <1>1, <2>3, ProgramsAssumption, SSAAssumption DEF Now, Code
    <3>2. NotDefinedFrom(v, b, i)
      BY <1>1, <2>1, <3>1 DEF NotDefinedFrom
    <3> QED
      BY <1>2, <2>3, <3>2 DEF RunInv, LiveAt, LiveOut, Kept
  <2> QED
    BY <2>2, <2>3
<1> QED
  BY <1>2 DEF Intact, HasRegister

-----------------------------------------------------------------------------
(* The actions of the run *)

LEMMA EmitHolds ==
  ASSUME NInv, RunInv, Emit
  PROVE  RunInv'
<1>1. /\ phase = "scan" /\ phase' = "run"
      /\ UNCHANGED <<prog, order, lscan_seq, def_seq, last_use, mentions, phys_reg, pc, holds, lost>>
  BY DEF Emit, placed, numbered, scanned, ran
<1>2. Laid /\ prog \in Programs
  BY <1>1, LaidOut DEF Allocated, NInv, IInv
<1>3. pc[1] = 1 /\ pc[2] = 1 /\ lost = {}
  BY <1>1 DEF RunInv
<1>4. ASSUME NEW v \in Values, Kept(v), LiveAt(v, 1, 1) PROVE FALSE
  <2>1. HasRegister(v) /\ ~Exposed(v) /\ def_seq[v] >= 0
    BY <1>4 DEF Kept, NInv, IInv, ScanInv
  <2>2. 1 \in Blocks /\ DOMAIN Code(1) = 1 .. Len(Code(1)) /\ Len(Code(1)) \in Nat \ {0}
        /\ lscan_seq[1] \in Nat
    BY <1>2 DEF Laid
  <2>3. 1 \notin DefinedIn(v)
    <3> SUFFICES ASSUME NEW j \in DOMAIN Code(1), Code(1)[j].dst = v PROVE FALSE
      BY DEF DefinedIn
    <3>1. j >= 1
      BY <2>2
    <3> QED
      BY <1>4, <3>1 DEF LiveAt, NotDefinedFrom
  <2>4. 1 \in LiveInto(v)
    BY <1>2, <1>4, <2>2, <2>3, NeededBlock DEF LiveAt
  <2>5. def_seq[v] < lscan_seq[1]
    BY <1>1, <1>2, <2>1, <2>4, ReachesLiveBlocks DEF Allocated
  <2>6. PICK b \in Blocks : \E i \in DOMAIN Code(b) : Defines(b, i, v)
    BY <1>2, <2>1 DEF Laid
  <2>7. PICK i \in DOMAIN Code(b) : Defines(b, i, v)
    BY <2>6
  <2>8. /\ def_seq[v] = Number(b, i) /\ i \in 1 .. Len(Code(b)) /\ Len(Code(b)) \in Nat
        /\ lscan_seq[b] \in Nat /\ lscan_seq[1] <= lscan_seq[b]
    BY <1>2, <2>7 DEF Laid
  <2> QED
    BY <2>2, <2>5, <2>8 DEF Number
<1>5. \A v : Kept(v)' <=> Kept(v)
  <2>1. \A v : Exposed(v)' <=> Exposed(v)
    BY <1>1, ExposedSame
  <2> QED
    BY <1>1, <2>1 DEF Kept, HasRegister
<1>6. \A v : LiveAt(v, 1, 1)' <=> LiveAt(v, 1, 1)
  BY <1>1, LiveAtSame
<1>7. \A v \in Values : ~(Kept(v)' /\ LiveAt(v, pc[1], pc[2])')
  <2>1. pc'[1] = 1 /\ pc'[2] = 1
    BY <1>1, <1>3
  <2>2. \A v : LiveAt(v, pc[1], pc[2])' <=> LiveAt(v, 1, 1)'
    BY <2>1 DEF LiveAt, NotDefinedFrom, UsedFrom, LiveOut
  <2> QED
    BY <1>4, <1>5, <1>6, <2>2
<1>8. pc'[1] \in DOMAIN prog' /\ pc'[2] \in DOMAIN (Code(pc[1]))'
  BY <1>1 DEF RunInv, Code
<1> QED
  BY <1>1, <1>3, <1>7, <1>8 DEF RunInv

(* An instruction that is not a branch. *)
LEMMA ForwardHolds ==
  ASSUME NInv, RunInv, StepKeeps, Now.op # "br",
         pc' = <<pc[1], pc[2] + 1>>, Read(Now.uses),
         \A v \in Values : HasRegister(v) /\ Now.dst = v /\ ~(Now.op = "call" /\ Saved(phys_reg[v])) => holds'[phys_reg[v]] = v,
         \A v \in Values :
           /\ HasRegister(v) /\ Now.dst # v
           /\ \A u \in Values : Now.dst = u => phys_reg[u] # phys_reg[v]
           /\ Now.op = "call" /\ phys_reg[v] \in CallerSaved => Saved(phys_reg[v])
           => holds'[phys_reg[v]] = holds[phys_reg[v]]
  PROVE  RunInv'
<1> DEFINE b == pc[1]
           i == pc[2]
<1>1. Laid /\ Allocated /\ phase = "run" /\ prog \in Programs
  BY LaidOut DEF StepKeeps, Allocated, NInv, IInv
<1>2. /\ b \in DOMAIN prog /\ b \in Blocks /\ i \in DOMAIN Code(b)
      /\ Len(Code(b)) \in Nat \ {0} /\ DOMAIN Code(b) = 1 .. Len(Code(b))
  BY <1>1 DEF RunInv, Laid
<1>3. i < Len(Code(b)) /\ i + 1 \in DOMAIN Code(b)
  <2>1. i # Len(Code(b))
    BY <1>1, <1>2, ProgramsAssumption DEF Now, Code
  <2> QED
    BY <1>2, <2>1
<1>4. pc'[1] = b /\ pc'[2] = i + 1
  OBVIOUS
<1>5. Now.dst \in Values \cup {Nothing} /\ Now.uses \subseteq Values
  <2>1. Now.dst \in Values \cup {Nothing} /\ Operands(Now) \subseteq Values
    BY <1>1, <1>2, CodeType DEF Now
  <2>2. \A v \in Now.uses : v \in Operands(Now)
    BY <1>1, <1>2, UsesAreOperands DEF Now
  <2> QED
    BY <2>1, <2>2
<1>6. ASSUME NEW v \in Values, Kept(v), LiveAt(v, b, i + 1) PROVE holds'[phys_reg[v]] = v
  <2>1. HasRegister(v) /\ Code(b)[i] = Now
    BY <1>6 DEF Kept, Now
  <2>2. CASE Now.dst = v
    <3>1. ~Saved(phys_reg[v])
      BY <1>1, <1>2, <1>3, <1>6, <2>1, <2>2, SavedAcross
    <3> QED
      BY <2>1, <2>2, <3>1
  <2>3. CASE Now.dst # v
    <3>1. \A u \in Values : Now.dst = u => phys_reg[u] # phys_reg[v]
      BY <1>1, <1>2, <1>3, <1>6, <2>1, <2>3, OtherRegister
    <3>2. phys_reg[v] \in CallerSaved => Saved(phys_reg[v])
      BY <1>1, <1>2, <1>3, <1>6, <2>1, <2>3, SavedAcross
    <3>3. holds'[phys_reg[v]] = holds[phys_reg[v]]
      BY <2>1, <2>3, <3>1, <3>2
    <3>4. LiveAt(v, b, i)
      <4>1. NotDefinedFrom(v, b, i)
        <5> SUFFICES ASSUME NEW j \in DOMAIN Code(b), j >= i, Code(b)[j].dst = v PROVE FALSE
          BY DEF NotDefinedFrom
        <5>1. j # i
          BY <2>1, <2>3
        <5>2. j >= i + 1
          BY <1>2, <5>1
        <5> QED
          BY <1>6, <5>2 DEF LiveAt, NotDefinedFrom
      <4>2. UsedFrom(v, b, i) \/ LiveOut(v, b)
        <5>1. UsedFrom(v, b, i + 1) => UsedFrom(v, b, i)
          BY <1>2 DEF UsedFrom
        <5> QED
          BY <1>6, <5>1 DEF LiveAt
      <4> QED
        BY <4>1, <4>2 DEF LiveAt
    <3>5. holds[phys_reg[v]] = v
      BY <1>1, <1>6, <3>4 DEF RunInv
    <3> QED
      BY <3>3, <3>5
  <2> QED
    BY <2>2, <2>3
<1>7. ASSUME NEW v \in lost' PROVE v \in lost \/ Exposed(v)
  <2>1. v \in lost \/ (v \in Now.uses /\ ~Intact(v))
    BY <1>7 DEF Read
  <2>2. ASSUME v \in Now.uses, ~Intact(v) PROVE Exposed(v)
    BY <1>1, <1>5, <2>2, ReadIntact
  <2> QED
    BY <2>1, <2>2
<1> QED
  BY <1>2, <1>3, <1>4, <1>6, <1>7, RunStep

LEMMA ComputeHolds ==
  ASSUME NInv, RunInv, Compute
  PROVE  RunInv'
<1>1. /\ phase = "run" /\ Now.op \in {"op", "alloca"}
      /\ Read(Now.uses) /\ holds' = Put(Now.dst) /\ pc' = <<pc[1], pc[2] + 1>>
      /\ UNCHANGED <<prog, phase, order, lscan_seq, def_seq, last_use, mentions, phys_reg>>
  BY DEF Compute, Running, placed, numbered, scanned
<1>2. StepKeeps
  BY <1>1 DEF StepKeeps
<1>3. \A v \in Values : v # Nothing /\ (HasRegister(v) => phys_reg[v] \in Regs)
  BY ValuesAssumption DEF HasRegister, NInv, IInv, BlockScanTypeOK
<1>4. \A r \in Regs : holds'[r] = (IF Now.dst # Nothing /\ phys_reg[Now.dst] = r THEN Now.dst ELSE holds[r])
  BY <1>1 DEF Put
<1>5. Now.dst \in Values \cup {Nothing}
  BY CodeType DEF RunInv, Now, NInv, IInv
<1>6. Now.op # "br" /\ Now.op # "call"
  BY <1>1
<1>7. ASSUME NEW v \in Values, HasRegister(v), Now.dst = v PROVE holds'[phys_reg[v]] = v
  BY <1>3, <1>4, <1>7
<1>8. ASSUME NEW v \in Values, HasRegister(v), Now.dst # v,
             \A u \in Values : Now.dst = u => phys_reg[u] # phys_reg[v]
      PROVE  holds'[phys_reg[v]] = holds[phys_reg[v]]
  BY <1>3, <1>4, <1>5, <1>8
<1> QED
  BY <1>1, <1>2, <1>6, <1>7, <1>8, ForwardHolds

LEMMA CallHolds ==
  ASSUME NInv, RunInv, Call
  PROVE  RunInv'
<1>1. /\ phase = "run" /\ Now.op = "call"
      /\ Read(Now.uses) /\ pc' = <<pc[1], pc[2] + 1>>
      /\ holds' = [r \in Regs |-> IF Saved(r) THEN holds[r]
                                  ELSE IF Now.dst # Nothing /\ phys_reg[Now.dst] = r THEN Now.dst
                                  ELSE IF r \in CallerSaved THEN Nothing ELSE holds[r]]
      /\ UNCHANGED <<prog, phase, order, lscan_seq, def_seq, last_use, mentions, phys_reg>>
  BY DEF Call, Running, placed, numbered, scanned
<1>2. StepKeeps
  BY <1>1 DEF StepKeeps
<1>3. \A v \in Values : v # Nothing /\ (HasRegister(v) => phys_reg[v] \in Regs)
  BY ValuesAssumption DEF HasRegister, NInv, IInv, BlockScanTypeOK
<1>4. \A r \in Regs :
        holds'[r] = (IF Saved(r) THEN holds[r]
                     ELSE IF Now.dst # Nothing /\ phys_reg[Now.dst] = r THEN Now.dst
                     ELSE IF r \in CallerSaved THEN Nothing ELSE holds[r])
  BY <1>1
<1>5. Now.dst \in Values \cup {Nothing}
  BY CodeType DEF RunInv, Now, NInv, IInv
<1>6. Now.op # "br"
  BY <1>1
<1>7. ASSUME NEW v \in Values, HasRegister(v), Now.dst = v, ~Saved(phys_reg[v])
      PROVE  holds'[phys_reg[v]] = v
  BY <1>3, <1>4, <1>7
<1>8. ASSUME NEW v \in Values, HasRegister(v), Now.dst # v,
             \A u \in Values : Now.dst = u => phys_reg[u] # phys_reg[v],
             phys_reg[v] \in CallerSaved => Saved(phys_reg[v])
      PROVE  holds'[phys_reg[v]] = holds[phys_reg[v]]
  BY <1>3, <1>4, <1>5, <1>8
<1> QED
  BY <1>1, <1>2, <1>6, <1>7, <1>8, ForwardHolds

(* The phis are the first instructions of a block. *)
LEMMA PhisFirst ==
  ASSUME prog \in Programs, NEW t \in DOMAIN prog
  PROVE  /\ Cardinality(Phis(t)) \in Nat /\ Phis(t) = 1 .. Cardinality(Phis(t))
         /\ Cardinality(Phis(t)) < Len(Code(t))
<1> DEFINE L == Len(Code(t))
           P == Phis(t)
<1>1. L \in Nat \ {0} /\ DOMAIN Code(t) = 1 .. L
  BY CodeType
<1>2. P \subseteq 1 .. L /\ \A i \in P : \A j \in 1 .. i - 1 : j \in P
  <2>1. P \subseteq 1 .. L
    BY <1>1 DEF Phis
  <2>2. ASSUME NEW i \in P, NEW j \in 1 .. i - 1 PROVE j \in P
    <3>1. i \in DOMAIN prog[t].code /\ prog[t].code[i].op = "phi"
      BY DEF Phis, Code
    <3>2. prog[t].code[j].op = "phi"
      BY <3>1, SSAAssumption
    <3>3. j \in 1 .. L
      BY <1>1, <2>1
    <3> QED
      BY <1>1, <3>2, <3>3 DEF Phis, Code
  <2> QED
    BY <2>1, <2>2
<1>3. L \notin P
  <2>1. L \in DOMAIN prog[t].code /\ L = Len(prog[t].code)
    BY <1>1 DEF Code
  <2>2. prog[t].code[L].op = "br"
    BY <2>1, ProgramsAssumption
  <2> QED
    BY <2>2 DEF Phis, Code
<1>4. PICK p \in Nat : p < L /\ P = 1 .. p
  <2> DEFINE M == {m \in 1 .. L : m \notin P}
  <2> HIDE DEF P, L
  <2>1. M \in SUBSET Nat /\ L \in M
    BY <1>1, <1>3
  <2>2. PICK m \in M : \A k \in M : m <= k
    <3> HIDE DEF M
    <3> QED
      BY <2>1, Least
  <2>3. m \in 1 .. L /\ m \notin P /\ m - 1 \in Nat /\ m - 1 < L
    BY <1>1, <2>2
  <2>4. \A k \in 1 .. m - 1 : k \in P
    <3> SUFFICES ASSUME NEW k \in 1 .. m - 1, k \notin P PROVE FALSE
      OBVIOUS
    <3>1. k \in 1 .. L /\ ~(m <= k)
      BY <1>1, <2>3
    <3> QED
      BY <2>2, <3>1
  <2>5. \A k \in P : k \in 1 .. m - 1
    <3> SUFFICES ASSUME NEW k \in P, k \notin 1 .. m - 1 PROVE FALSE
      OBVIOUS
    <3>1. k \in 1 .. L /\ k >= m
      BY <1>1, <1>2, <2>3
    <3>2. k # m
      BY <2>3
    <3>3. m \in 1 .. k - 1
      BY <2>3, <3>1, <3>2
    <3> QED
      BY <1>2, <2>3, <3>3
  <2>6. P = 1 .. m - 1
    BY <2>4, <2>5
  <2> QED
    BY <2>3, <2>6
<1>5. Cardinality(P) = p
  <2>1. 1 \in Int /\ p \in Int
    BY <1>4
  <2> HIDE DEF P
  <2>2. Cardinality(1 .. p) = IF 1 > p THEN 0 ELSE p - 1 + 1
    BY <2>1, FS_Interval
  <2> QED
    BY <1>4, <2>2
<1> QED
  BY <1>4, <1>5

(* The copies at a branch give every value of a phi its register. *)
LEMMA CopiesHold ==
  ASSUME NInv, Allocated, Laid, prog \in Programs, NEW b \in Blocks, NEW k \in DOMAIN Succs(b),
         NEW t, t = Succs(b)[k], NEW v \in Values, Kept(v),
         LiveAt(v, t, Cardinality(Phis(t)) + 1),
         t \in LiveInto(v) => holds[phys_reg[v]] = v
  PROVE  PutPhis(b, t)[phys_reg[v]] = v
<1> DEFINE p == Cardinality(Phis(t))
           r == phys_reg[v]
           into == {i \in Copied(b, t) : phys_reg[Code(t)[i].dst] = r}
<1>1. t \in Blocks /\ t \in DOMAIN prog /\ b \in DOMAIN prog
  BY DEF Laid
<1>2. /\ p \in Nat /\ Phis(t) = 1 .. p /\ p < Len(Code(t))
      /\ Len(Code(t)) \in Nat \ {0} /\ DOMAIN Code(t) = 1 .. Len(Code(t))
  BY <1>1, PhisFirst, CodeType
<1>3. HasRegister(v) /\ ~Exposed(v) /\ r \in Regs /\ v # Nothing
  BY ValuesAssumption DEF Kept, HasRegister, NInv, IInv, BlockScanTypeOK
<1>4. PutPhis(b, t)[r] =
        IF into = {} THEN holds[r] ELSE Code(t)[CHOOSE i \in into : \A j \in into : i <= j].dst
  BY <1>3 DEF PutPhis
<1>5. \A i \in Phis(t) : i \in Copied(b, t) /\ Code(t)[i].dst \in Values
  <2> SUFFICES ASSUME NEW i \in Phis(t) PROVE b \in DOMAIN Code(t)[i].from /\ Code(t)[i].dst \in Values
    BY DEF Copied
  <2>1. i \in DOMAIN prog[t].code /\ prog[t].code[i].op = "phi" /\ prog[b].succs[k] = t
        /\ k \in DOMAIN prog[b].succs
    BY DEF Phis, Code, Succs
  <2>2. prog[t].code[i].dst # Nothing /\ b \in DOMAIN prog[t].code[i].from
    BY <1>1, <2>1, SSAAssumption
  <2>3. prog[t].code[i].dst \in Values \cup {Nothing}
    BY <1>1, <2>1, CodeType DEF Code
  <2> QED
    BY <2>2, <2>3 DEF Code
<1> HIDE DEF p
<1>6. CASE \E i \in Phis(t) : Code(t)[i].dst = v
  <2>1. PICK i \in Phis(t) : Code(t)[i].dst = v
    BY <1>6
  <2>2. i \in into /\ into \subseteq 1 .. p
    BY <1>2, <1>5, <2>1 DEF Copied
  <2>3. PICK m \in into : \A j \in into : m <= j
    <3>1. into \in SUBSET Nat /\ into # {}
      BY <2>2
    <3> HIDE DEF into
    <3> QED
      BY <3>1, Least
  <2>4. (CHOOSE n \in into : \A j \in into : n <= j) = m
    <3>1. \A n \in into : (\A j \in into : n <= j) => n = m
      BY <2>2, <2>3
    <3> HIDE DEF into
    <3> QED
      BY <2>3, <3>1
  <2> DEFINE w == Code(t)[m].dst
  <2>5. m \in Phis(t) /\ w \in Values /\ phys_reg[w] = r /\ m <= i /\ m \in 1 .. p /\ i \in 1 .. p
    BY <1>2, <1>5, <2>2, <2>3 DEF Copied
  <2>6. w = v
    <3> SUFFICES ASSUME w # v PROVE FALSE
      OBVIOUS
    <3>1. m < i /\ m \in DOMAIN Code(t) /\ i \in DOMAIN Code(t)
      BY <1>2, <2>1, <2>5
    <3>2. def_seq[w] = Number(t, m) /\ def_seq[v] = Number(t, i)
      <4>1. Defines(t, m, w) /\ Defines(t, i, v)
        BY <2>1, <3>1 DEF Defines
      <4> HIDE DEF w
      <4> QED
        BY <1>1, <2>5, <3>1, <4>1 DEF Laid
    <3>3. lscan_seq[t] \in Nat
      BY <1>1 DEF Laid
    <3>4. def_seq[w] <= def_seq[v]
      BY <1>2, <2>5, <3>1, <3>2, <3>3 DEF Number
    <3>5. HasRegister(w)
      BY <1>3, <2>5 DEF HasRegister
    <3>6. End(w) < def_seq[v]
      BY <2>5, <3>4, <3>5 DEF NInv, IInv, ScanInv
    <3>7. Overtaken(v)
      BY <1>1, <2>1, <2>5, <3>1, <3>6 DEF Overtaken
    <3> QED
      BY <1>3, <3>7 DEF Exposed
  <2>7. into # {}
    BY <2>2
  <2> QED
    BY <1>4, <2>4, <2>6, <2>7
<1>7. CASE ~\E i \in Phis(t) : Code(t)[i].dst = v
  <2>1. into = {}
    <3> SUFFICES ASSUME NEW j \in into PROVE FALSE
      OBVIOUS
    <3> DEFINE u == Code(t)[j].dst
    <3>1. j \in Phis(t) /\ j \in 1 .. p /\ u \in Values /\ u # v /\ phys_reg[u] = phys_reg[v]
      BY <1>2, <1>5, <1>7 DEF Copied
    <3>2. j \in DOMAIN Code(t) /\ j < Len(Code(t))
      BY <1>2, <3>1
    <3>3. LiveAt(v, t, j + 1)
      <4>1. NotDefinedFrom(v, t, j + 1)
        <5> SUFFICES ASSUME NEW i \in DOMAIN Code(t), i >= j + 1, Code(t)[i].dst = v PROVE FALSE
          BY DEF NotDefinedFrom
        <5>1. i \notin Phis(t)
          BY <1>7
        <5>2. i >= p + 1
          BY <1>2, <5>1
        <5> QED
          BY <5>2 DEF LiveAt, NotDefinedFrom, p
      <4>2. UsedFrom(v, t, p + 1) => UsedFrom(v, t, j + 1)
        BY <1>2, <3>1 DEF UsedFrom
      <4> QED
        BY <4>1, <4>2 DEF LiveAt, p
    <3> QED
      BY <1>1, <3>1, <3>2, <3>3, OtherRegister
  <2>2. t \notin DefinedIn(v)
    <3> SUFFICES ASSUME NEW i \in DOMAIN Code(t), Code(t)[i].dst = v PROVE FALSE
      BY DEF DefinedIn
    <3>1. i \notin Phis(t)
      BY <1>7
    <3>2. i >= p + 1
      BY <1>2, <3>1
    <3> QED
      BY <3>2 DEF LiveAt, NotDefinedFrom, p
  <2>3. t \in LiveInto(v)
    BY <1>1, <2>2, NeededBlock DEF LiveAt
  <2> QED
    BY <1>4, <2>1, <2>3
<1> QED
  BY <1>6, <1>7

LEMMA BranchHolds ==
  ASSUME NInv, RunInv, Branch
  PROVE  RunInv'
<1>1. /\ phase = "run" /\ Now.op = "br"
      /\ UNCHANGED <<prog, phase, order, lscan_seq, def_seq, last_use, mentions, phys_reg>>
  BY DEF Branch, Running, placed, numbered, scanned
<1> DEFINE b == pc[1]
<1>2. PICK k \in DOMAIN Succs(b) :
        /\ Read(Now.uses \cup {Code(Succs(b)[k])[i].from[b] : i \in Copied(b, Succs(b)[k])})
        /\ holds' = PutPhis(b, Succs(b)[k])
        /\ pc' = <<Succs(b)[k], Cardinality(Phis(Succs(b)[k])) + 1>>
  BY DEF Branch
<1> DEFINE t == Succs(b)[k]
           q == Cardinality(Phis(t)) + 1
<1>3. StepKeeps /\ Allocated /\ prog \in Programs
  BY <1>1 DEF StepKeeps, Allocated, NInv, IInv
<1>4. Laid
  BY <1>3, LaidOut
<1>5. b \in DOMAIN prog /\ b \in Blocks /\ t \in DOMAIN prog /\ t \in Blocks
  BY <1>4 DEF RunInv, Laid
<1>6. q \in DOMAIN Code(t)
  BY <1>3, <1>5, PhisFirst, CodeType
<1>7. pc'[1] = t /\ pc'[2] = q
  BY <1>2
<1>8. /\ pc[2] \in DOMAIN Code(b) /\ Len(Code(b)) \in Nat \ {0} /\ DOMAIN Code(b) = 1 .. Len(Code(b))
  BY <1>3, <1>5, CodeType DEF RunInv
<1>9. pc[2] = Len(Code(b)) /\ Now.dst = Nothing /\ Now.uses \subseteq Values
  <2>1. pc[2] = Len(Code(b)) /\ Now.dst = Nothing
    BY <1>1, <1>3, <1>5, <1>8, ProgramsAssumption, SSAAssumption DEF Now, Code
  <2>2. Operands(Now) \subseteq Values
    BY <1>3, <1>5, <1>8, CodeType DEF Now
  <2>3. Operands(Now) = Now.uses
    BY <1>1 DEF Operands
  <2> QED
    BY <2>1, <2>2, <2>3
<1>10. ASSUME NEW v \in Values, Kept(v), LiveAt(v, t, q) PROVE holds'[phys_reg[v]] = v
  <2>1. ASSUME t \in LiveInto(v) PROVE holds[phys_reg[v]] = v
    <3>1. NotDefinedFrom(v, b, pc[2])
      <4>1. v # Nothing
        BY ValuesAssumption
      <4> QED
        BY <1>8, <1>9, <4>1 DEF NotDefinedFrom, Now
    <3>2. LiveOut(v, b)
      BY <2>1 DEF LiveOut
    <3> QED
      BY <1>1, <1>10, <3>1, <3>2 DEF RunInv, LiveAt
  <2>2. PutPhis(b, t)[phys_reg[v]] = v
    BY <1>3, <1>4, <1>5, <1>10, <2>1, CopiesHold
  <2> QED
    BY <1>2, <2>2
<1>11. ASSUME NEW v \in lost' PROVE v \in lost \/ Exposed(v)
  <2>1. v \in lost \/ /\ ~Intact(v)
                      /\ v \in Now.uses \/ \E i \in Copied(b, t) : v = Code(t)[i].from[b]
    BY <1>2, <1>11 DEF Read
  <2>2. ASSUME ~Intact(v), v \in Now.uses PROVE Exposed(v)
    BY <1>1, <1>9, <2>2, ReadIntact
  <2>3. ASSUME ~Intact(v), NEW i \in Copied(b, t), v = Code(t)[i].from[b] PROVE Exposed(v)
    <3>1. b \in CopiedIn(v)
      BY <1>5, <2>3 DEF CopiedIn
    <3>2. v \in Values
      <4>1. i \in DOMAIN Code(t) /\ Code(t)[i].op = "phi" /\ b \in DOMAIN Code(t)[i].from
        BY <2>3 DEF Copied, Phis
      <4>2. Operands(Code(t)[i]) \subseteq Values
        BY <1>3, <1>5, <4>1, CodeType
      <4> QED
        BY <2>3, <4>1, <4>2 DEF Operands
    <3> QED
      BY <1>1, <2>3, <3>1, <3>2, ReadIntact
  <2> QED
    BY <2>1, <2>2, <2>3
<1> QED
  BY <1>3, <1>5, <1>6, <1>7, <1>10, <1>11, RunStep

LEMMA ReturnHolds ==
  ASSUME NInv, RunInv, Return
  PROVE  RunInv'
<1>1. /\ phase = "run" /\ Now.op = "br" /\ Read(Now.uses)
      /\ UNCHANGED <<prog, phase, order, lscan_seq, def_seq, last_use, mentions, phys_reg, pc, holds>>
  BY DEF Return, Running, placed, numbered, scanned
<1>2. StepKeeps
  BY <1>1 DEF StepKeeps
<1>3. Now.uses \subseteq Values
  <2>1. Operands(Now) \subseteq Values
    BY CodeType DEF Now, RunInv, NInv, IInv
  <2> QED
    BY <1>1, <2>1 DEF Operands
<1>4. ASSUME NEW v \in lost' PROVE v \in lost \/ Exposed(v)
  <2>1. v \in lost \/ (v \in Now.uses /\ ~Intact(v))
    BY <1>1, <1>4 DEF Read
  <2>2. ASSUME v \in Now.uses, ~Intact(v) PROVE Exposed(v)
    BY <1>1, <1>3, <2>2, ReadIntact
  <2> QED
    BY <2>1, <2>2
<1>5. pc'[1] = pc[1] /\ pc'[2] = pc[2]
  BY <1>1
<1>6. pc[1] \in DOMAIN prog /\ pc[2] \in DOMAIN Code(pc[1])
  BY DEF RunInv
<1>7. \A v \in Values : Kept(v) /\ LiveAt(v, pc[1], pc[2]) => holds'[phys_reg[v]] = v
  BY <1>1 DEF RunInv
<1> QED
  BY <1>2, <1>4, <1>5, <1>6, <1>7, RunStep

(* Before the run nothing is held and nothing read. *)
LEMMA BeforeRun ==
  ASSUME RunInv, phase' # "run", UNCHANGED <<prog, ran>>, phase # "run"
  PROVE  RunInv'
BY DEF RunInv, ran, Code

LEMMA InitRun == Init => RunInv
<1> SUFFICES ASSUME Init PROVE RunInv
  OBVIOUS
<1>1. prog \in Programs /\ pc = <<1, 1>> /\ lost = {} /\ phase = "layout"
  BY DEF Init
<1>2. 1 \in DOMAIN prog
  BY <1>1, ProgramsAssumption, Zenon
<1>3. 1 \in DOMAIN Code(1)
  BY <1>1, <1>2, CodeType
<1> QED
  BY <1>1, <1>2, <1>3 DEF RunInv

LEMMA RunStays == NInv /\ RunInv /\ [Next]_vars => RunInv'
<1> SUFFICES ASSUME NInv, RunInv, [Next]_vars PROVE RunInv'
  OBVIOUS
<1>1. CASE Propagate \/ ExtendChain \/ StartChain \/ LayoutDone \/ NumberInstr \/ FixPhis \/ FixLoops
           \/ SkipAlloca \/ Scan
  <2>1. phase' # "run" /\ phase # "run" /\ UNCHANGED <<prog, ran>>
    BY <1>1 DEF Propagate, ExtendChain, StartChain, LayoutDone, NumberInstr, Numbering, FixPhis, FixLoops,
                SkipAlloca, Scan, Current
  <2> QED
    BY <2>1, BeforeRun
<1>2. CASE Emit
  BY <1>2, EmitHolds
<1>3. CASE Compute
  BY <1>3, ComputeHolds
<1>4. CASE Call
  BY <1>4, CallHolds
<1>5. CASE Branch
  BY <1>5, BranchHolds
<1>6. CASE Return
  BY <1>6, ReturnHolds
<1>7. CASE UNCHANGED vars
  <2>1. UNCHANGED <<prog, phase, order, lscan_seq, def_seq, last_use, mentions, phys_reg, pc, holds, lost>>
    BY <1>7 DEF vars, placed, numbered, scanned, ran
  <2>2. CASE phase = "run"
    <3>1. StepKeeps
      BY <2>1, <2>2 DEF StepKeeps
    <3>2. /\ pc'[1] = pc[1] /\ pc'[2] = pc[2]
          /\ pc[1] \in DOMAIN prog /\ pc[2] \in DOMAIN Code(pc[1])
      BY <2>1 DEF RunInv
    <3>3. \A v \in Values : Kept(v) /\ LiveAt(v, pc[1], pc[2]) => holds'[phys_reg[v]] = v
      BY <2>1, <2>2 DEF RunInv
    <3> QED
      BY <2>1, <3>1, <3>2, <3>3, RunStep
  <2>3. CASE phase # "run"
    BY <2>1, <2>3, BeforeRun DEF ran
  <2> QED
    BY <2>2, <2>3
<1> QED
  BY <1>1, <1>2, <1>3, <1>4, <1>5, <1>6, <1>7 DEF Next

(* Whatever way the branches go, the code that ir_asm_lower_insn and       *)
(* ir_asm_emit_phi_edge_copy emit reads every value that is not exposed    *)
(* from a register that still holds it, across loops, calls and copies to  *)
(* phis.                                                                   *)
THEOREM NotExposedNotLost == Spec => []OnlyExposedLost
<1>1. RunInv => OnlyExposedLost
  BY DEF RunInv, OnlyExposedLost
<1>2. NInv /\ RunInv /\ [Next]_vars => RunInv'
  BY RunStays
<1>3. Init => RunInv
  BY InitRun
<1> QED
  BY NumbersHold, <1>1, <1>2, <1>3, PTL DEF Spec
=============================================================================
