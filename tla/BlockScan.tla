------------------------------ MODULE BlockScan ------------------------------
(***************************************************************************)
(* Block layout and registers in the optimising back end of the AST path   *)
(* (compiler_passes.c): pgo_reorder_pass orders the blocks of a function   *)
(* by their estimated frequency, ir_asm_number_and_liveness numbers the    *)
(* instructions in that order and keeps one interval per value,            *)
(* ir_asm_linear_scan hands out registers.  Then the emitted code runs.    *)
(*                                                                         *)
(* A function is a sequence of blocks, the entry first: its instructions,  *)
(* its successors and the probability of each.  It is in SSA form, every   *)
(* block can be reached, and the last instruction of a block is its branch *)
(* or return.  A value without a register has a stack slot of its own.     *)
(***************************************************************************)
EXTENDS Integers, Sequences, FiniteSets

CONSTANTS
  Programs,      \* functions
  Values,        \* numbers of virtual registers
  NumRegs,       \* N_PHYS_REGS: 7 in the code
  CallerSaved,   \* registers a call does not preserve: r10 and r11
  Parts,         \* a probability is a number of this many parts
  One            \* the frequency 1.0, so large that frequencies are whole

Nothing == 0

Regs == 0 .. NumRegs - 1

NoReg == -1

Ops == {"phi", "op", "call", "alloca", "br"}

ASSUME ValuesAssumption ==
  /\ Values \subseteq Nat \ {Nothing} /\ NumRegs \in Nat /\ CallerSaved \subseteq Nat
  /\ Parts \in Nat \ {0} /\ One \in Nat

(* A phi has in "from" a value for each predecessor.  No block is its own  *)
(* successor.                                                              *)
ASSUME ProgramsAssumption ==
  \A p \in Programs :
    /\ 1 \in DOMAIN p /\ DOMAIN p \subseteq Nat
    /\ \A b \in DOMAIN p :
         /\ \A i \in DOMAIN p[b].succs :
              /\ p[b].succs[i] \in DOMAIN p \ {b} /\ p[b].prob[i] \in 0 .. Parts
              /\ \A j \in DOMAIN p[b].succs : p[b].succs[i] = p[b].succs[j] => i = j
         /\ Len(p[b].code) \in Nat \ {0} /\ DOMAIN p[b].code = 1 .. Len(p[b].code)
         /\ \A i \in DOMAIN p[b].code :
              LET ins == p[b].code[i]
              IN  /\ ins.op \in Ops /\ (ins.op = "br" <=> i = Len(p[b].code))
                  /\ ins.dst \in Values \cup {Nothing} /\ ins.uses \subseteq Values
                  /\ \A q \in DOMAIN ins.from : ins.from[q] \in Values

(* SSA form: a value is defined in one place, and used behind it in its    *)
(* block; the phis come first and have a value for every predecessor; a    *)
(* branch defines nothing.                                                 *)
ASSUME SSAAssumption ==
  \A p \in Programs : \A b \in DOMAIN p : \A i \in DOMAIN p[b].code :
    LET ins == p[b].code[i]
    IN  /\ ins.op = "br" => ins.dst = Nothing
        /\ ins.op = "phi" =>
             /\ ins.dst # Nothing /\ ins.uses = {}
             /\ \A j \in 1 .. i - 1 : p[b].code[j].op = "phi"
             /\ \A q \in DOMAIN p : \A k \in DOMAIN p[q].succs :
                  p[q].succs[k] = b => q \in DOMAIN ins.from
        /\ ins.dst # Nothing =>
             \A c \in DOMAIN p : \A j \in DOMAIN p[c].code :
               /\ p[c].code[j].dst = ins.dst => c = b /\ j = i
               /\ c = b /\ j <= i => ins.dst \notin p[c].code[j].uses

VARIABLES
  prog,                 \* the function
  phase,                \* layout, number, loops, scan, run
  exec_freq, order,     \* frequency of each block; the blocks placed so far
  cursor, seq,          \* place in the order and instruction to be numbered; its number
  lscan_seq,            \* number of the first instruction of each block
  def_seq, last_use,
  mentions,             \* history: numbers at which a value is an operand
  intervals, active,    \* values still to be scanned; intervals that have not ended
  phys_reg,
  pc, holds,            \* block and instruction that runs; value each register holds
  lost                  \* history: values read from a register that did not hold them

placed == <<exec_freq, order>>
numbered == <<cursor, seq, lscan_seq, def_seq, mentions>>
scanned == <<intervals, active, phys_reg>>
ran == <<pc, holds, lost>>
vars == <<prog, phase, placed, numbered, last_use, scanned, ran>>

Init ==
  /\ prog \in Programs
  /\ phase = "layout"
  /\ exec_freq = [b \in DOMAIN prog |-> 0] /\ order = <<>>
  /\ cursor = <<1, 1>> /\ seq = 0
  /\ lscan_seq = [b \in DOMAIN prog |-> 0]
  /\ def_seq = [v \in Values |-> -1] /\ last_use = [v \in Values |-> -1]
  /\ mentions = {}
  /\ intervals = {} /\ active = {} /\ phys_reg = [v \in Values |-> NoReg]
  /\ pc = <<1, 1>> /\ holds = [r \in Regs |-> Nothing] /\ lost = {}

-----------------------------------------------------------------------------
(* pgo_reorder_pass *)

Succs(b) == prog[b].succs

Passes == 3

(* What an edge of b hands on: nothing but the edge to s counts. *)
Flow(b, s, frequency) ==
  IF \E i \in DOMAIN Succs(b) : Succs(b)[i] = s
  THEN LET i == CHOOSE i \in DOMAIN Succs(b) : Succs(b)[i] = s
           probability == IF Len(Succs(b)) = 1 THEN Parts ELSE prog[b].prob[i]
       IN  (frequency * probability) \div Parts
  ELSE 0

(* Frequencies after n visits: the blocks are visited in the order of      *)
(* their numbers, three times over, and add to what is there.              *)
Frequencies ==
  LET N == Len(prog)
      after[n \in 0 .. Passes * N] ==
        IF n = 0 THEN [b \in DOMAIN prog |-> IF b = 1 THEN One ELSE 0]
        ELSE LET b == ((n - 1) % N) + 1
                 before == after[n - 1]
             IN  [s \in DOMAIN prog |-> before[s] + Flow(b, s, before[b])]
  IN  after[Passes * N]

Propagate ==
  /\ phase = "layout" /\ order = <<>>
  /\ exec_freq' = Frequencies
  /\ order' = <<1>>
  /\ UNCHANGED <<prog, phase, numbered, last_use, scanned, ran>>

Unplaced == {b \in DOMAIN prog : \A k \in DOMAIN order : order[k] # b}

(* Mutant: a successor that has been placed is placed again. *)
OpenPlaced == DOMAIN Succs(order[Len(order)])

(* Successors that can extend the chain. *)
Open == LET succs == Succs(order[Len(order)]) IN {i \in DOMAIN succs : succs[i] \in Unplaced}

(* A successor of the greatest frequency, the first of them. *)
ExtendChain ==
  /\ phase = "layout" /\ order # <<>>
  /\ LET succs == Succs(order[Len(order)])
         freq(i) == exec_freq[succs[i]]
     IN  \E i \in Open :
           /\ \A j \in Open : freq(j) < freq(i) \/ (freq(j) = freq(i) /\ i <= j)
           /\ order' = Append(order, succs[i])
  /\ UNCHANGED <<prog, phase, exec_freq, numbered, last_use, scanned, ran>>

StartChain ==
  /\ phase = "layout" /\ order # <<>> /\ Open = {}
  /\ \E b \in Unplaced :
       /\ \A c \in Unplaced :
            exec_freq[c] < exec_freq[b] \/ (exec_freq[c] = exec_freq[b] /\ b <= c)
       /\ order' = Append(order, b)
  /\ UNCHANGED <<prog, phase, exec_freq, numbered, last_use, scanned, ran>>

LayoutDone ==
  /\ phase = "layout" /\ order # <<>> /\ Unplaced = {}
  /\ phase' = "number"
  /\ UNCHANGED <<prog, placed, numbered, last_use, scanned, ran>>

-----------------------------------------------------------------------------
(* ir_asm_number_and_liveness *)

Code(b) == prog[b].code

Operands(ins) ==
  IF ins.op = "phi" THEN {ins.from[q] : q \in DOMAIN ins.from} ELSE ins.uses

Numbering == phase = "number" /\ cursor[1] \in DOMAIN order

NumberInstr ==
  /\ Numbering
  /\ LET b == order[cursor[1]]
         i == cursor[2]
         ins == Code(b)[i]
     IN  /\ lscan_seq' = IF i = 1 THEN [lscan_seq EXCEPT ![b] = seq] ELSE lscan_seq
         /\ last_use' = [v \in Values |-> IF v \in Operands(ins) THEN seq ELSE last_use[v]]
         /\ def_seq' = [v \in Values |-> IF v = ins.dst THEN seq ELSE def_seq[v]]
         /\ mentions' = mentions \cup {<<v, seq>> : v \in Operands(ins)}
         /\ cursor' = IF i < Len(Code(b)) THEN <<cursor[1], i + 1>> ELSE <<cursor[1] + 1, 1>>
  /\ seq' = seq + 1
  /\ UNCHANGED <<prog, phase, placed, scanned, ran>>

LastSeq == IF seq > 0 THEN seq - 1 ELSE 0

Blocks == {order[k] : k \in DOMAIN order}

Phis(b) == {i \in DOMAIN Code(b) : Code(b)[i].op = "phi"}

PhiSources == {v \in Values : \E b \in Blocks : \E i \in Phis(b) : v \in Operands(Code(b)[i])}

(* Mutant: only sources that nothing mentions. *)
InvertedUnmentioned(v) == def_seq[v] >= 0 /\ last_use[v] < 0

Inverted(v) == def_seq[v] >= 0 /\ last_use[v] < def_seq[v]

(* A phi source that is defined behind the last place that mentions it     *)
(* lives to the end of the function.                                       *)
FixPhis ==
  /\ phase = "number" /\ ~Numbering
  /\ last_use' = [v \in Values |-> IF v \in PhiSources /\ Inverted(v) THEN LastSeq ELSE last_use[v]]
  /\ phase' = "loops"
  /\ UNCHANGED <<prog, placed, numbered, scanned, ran>>

(* Blocks with a predecessor further down. *)
Headers ==
  {order[k] : k \in {k \in DOMAIN order :
     \E m \in DOMAIN order : m > k /\ \E i \in DOMAIN Succs(order[m]) : Succs(order[m])[i] = order[k]}}

(* Mutant: only those mentioned behind the first instruction. *)
EnteringStrict(v, h) == def_seq[v] >= 0 /\ def_seq[v] < lscan_seq[h] /\ last_use[v] > lscan_seq[h]

(* A value defined before a loop and mentioned at its first instruction or *)
(* later.                                                                  *)
Entering(v, h) == def_seq[v] >= 0 /\ def_seq[v] < lscan_seq[h] /\ last_use[v] >= lscan_seq[h]

FixLoops ==
  /\ phase = "loops"
  /\ last_use' = [v \in Values |-> IF \E h \in Headers : Entering(v, h) THEN LastSeq ELSE last_use[v]]
  /\ intervals' = {v \in Values : def_seq[v] >= 0}
  /\ phase' = "scan"
  /\ UNCHANGED <<prog, placed, numbered, active, phys_reg, ran>>

-----------------------------------------------------------------------------
(* ir_asm_linear_scan *)

End(v) == IF last_use[v] >= 0 THEN last_use[v] ELSE def_seq[v]

IsAlloca(v) == \E b \in Blocks : \E i \in DOMAIN Code(b) : Code(b)[i].op = "alloca" /\ Code(b)[i].dst = v

(* Intervals come in the order they start; no two start at one place.      *)
Current(v) == phase = "scan" /\ v \in intervals /\ \A w \in intervals : def_seq[v] <= def_seq[w]

SkipAlloca ==
  /\ \E v \in Values : Current(v) /\ IsAlloca(v) /\ intervals' = intervals \ {v}
  /\ UNCHANGED <<prog, phase, placed, numbered, last_use, active, phys_reg, ran>>

(* Mutant: an interval may end where the next begins. *)
UnexpiredStrict(v) == {u \in active : End(u) > def_seq[v]}

Unexpired(v) == {u \in active : End(u) >= def_seq[v]}

Free(v) == {r \in Regs : \A u \in Unexpired(v) : phys_reg[u] # r}

Scan ==
  /\ \E v \in Values :
       /\ Current(v) /\ ~IsAlloca(v)
       /\ intervals' = intervals \ {v}
       /\ \/ \E r \in Free(v) :
               /\ \A q \in Free(v) : r <= q
               /\ phys_reg' = [phys_reg EXCEPT ![v] = r]
               /\ active' = Unexpired(v) \cup {v}
          \/ /\ Free(v) = {}
             /\ active' = Unexpired(v)
             /\ UNCHANGED phys_reg
  /\ UNCHANGED <<prog, phase, placed, numbered, last_use, ran>>

Emit ==
  /\ phase = "scan" /\ intervals = {}
  /\ phase' = "run"
  /\ UNCHANGED <<prog, placed, numbered, last_use, scanned, ran>>

-----------------------------------------------------------------------------
(* The emitted code.  A phi is no code: its value is copied by the branch  *)
(* that leads to it.                                                       *)

Number(b, i) == lscan_seq[b] + i - 1

Now == Code(pc[1])[pc[2]]

Running(ops) == phase = "run" /\ Now.op \in ops

Intact(v) == phys_reg[v] # NoReg => holds[phys_reg[v]] = v

Read(values) == lost' = lost \cup {v \in values : ~Intact(v)}

Put(v) == [r \in Regs |-> IF v # Nothing /\ phys_reg[v] = r THEN v ELSE holds[r]]

Compute ==
  /\ Running({"op", "alloca"})
  /\ Read(Now.uses)
  /\ holds' = Put(Now.dst)
  /\ pc' = <<pc[1], pc[2] + 1>>
  /\ UNCHANGED <<prog, phase, placed, numbered, last_use, scanned>>

(* Registers a call saves: some interval of the register contains it. *)
Saved(r) ==
  LET here == Number(pc[1], pc[2])
  IN  r \in CallerSaved /\ \E v \in Values : phys_reg[v] = r /\ def_seq[v] < here /\ last_use[v] > here

Call ==
  /\ Running({"call"})
  /\ Read(Now.uses)
  /\ holds' = [r \in Regs |-> IF Saved(r) THEN holds[r]
                              ELSE IF Now.dst # Nothing /\ phys_reg[Now.dst] = r THEN Now.dst
                              ELSE IF r \in CallerSaved THEN Nothing ELSE holds[r]]
  /\ pc' = <<pc[1], pc[2] + 1>>
  /\ UNCHANGED <<prog, phase, placed, numbered, last_use, scanned>>

(* The phis of block t that have a value for block b. *)
Copied(b, t) == {i \in Phis(t) : b \in DOMAIN Code(t)[i].from}

(* All sources are read, then the targets are written, the first phi last. *)
PutPhis(b, t) == [r \in Regs |->
  LET into == {i \in Copied(b, t) : phys_reg[Code(t)[i].dst] = r}
  IN  IF into = {} THEN holds[r] ELSE Code(t)[CHOOSE i \in into : \A j \in into : i <= j].dst]

Branch ==
  /\ Running({"br"})
  /\ LET b == pc[1]
     IN  \E k \in DOMAIN Succs(b) :
           LET t == Succs(b)[k]
           IN  /\ Read(Now.uses \cup {Code(t)[i].from[b] : i \in Copied(b, t)})
               /\ holds' = PutPhis(b, t)
               /\ pc' = <<t, Cardinality(Phis(t)) + 1>>
  /\ UNCHANGED <<prog, phase, placed, numbered, last_use, scanned>>

Return ==
  /\ Running({"br"}) /\ Succs(pc[1]) = <<>>
  /\ Read(Now.uses)
  /\ UNCHANGED <<prog, phase, placed, numbered, last_use, scanned, pc, holds>>

Next ==
  \/ Propagate \/ ExtendChain \/ StartChain \/ LayoutDone
  \/ NumberInstr \/ FixPhis \/ FixLoops
  \/ SkipAlloca \/ Scan \/ Emit
  \/ Compute \/ Call \/ Branch \/ Return

Spec == Init /\ [][Next]_vars

-----------------------------------------------------------------------------
(* Every block is placed once, the entry first, before the numbering       *)
(* starts, and the numbering, the scan and the run keep their types.       *)
BlockScanTypeOK ==
  /\ phase \in {"layout", "number", "loops", "scan", "run"}
  /\ order \in Seq(DOMAIN prog)
  /\ \A k, m \in DOMAIN order : order[k] = order[m] => k = m
  /\ order # <<>> => order[1] = 1
  /\ phase # "layout" => Unplaced = {}
  /\ seq \in Nat
  /\ lscan_seq \in [DOMAIN prog -> Nat]
  /\ def_seq \in [Values -> Int] /\ last_use \in [Values -> Int]
  /\ \A v \in Values : def_seq[v] \in -1 .. seq - 1 /\ last_use[v] \in -1 .. LastSeq
  /\ mentions \subseteq Values \X Nat
  /\ intervals \subseteq Values /\ active \subseteq Values
  /\ phys_reg \in [Values -> Regs \cup {NoReg}]

(* From the place that defines a value to any later place that mentions    *)
(* it, its register is no other value's.                                   *)
NoDefinitionBetween ==
  \A u, v \in Values :
    u # v /\ phys_reg[v] # NoReg /\ phys_reg[u] = phys_reg[v] =>
      \A m \in mentions : m[1] = v /\ def_seq[u] >= def_seq[v] => def_seq[u] > m[2]

(* The fix for loops: a value that enters one, be it for the last time in  *)
(* the order of the blocks, keeps its register for the rest of the         *)
(* function.                                                               *)
LoopValuesKept ==
  \A v \in Values, h \in Headers :
    /\ phys_reg[v] # NoReg /\ def_seq[v] < lscan_seq[h]
    /\ \E m \in mentions : m[1] = v /\ m[2] >= lscan_seq[h]
    => \A u \in Values : u # v /\ phys_reg[u] = phys_reg[v] => def_seq[u] < def_seq[v]

(* The blocks that end in a copy of value v to a phi. *)
CopiedIn(v) ==
  {b \in Blocks : \E k \in DOMAIN Succs(b) :
     \E i \in Copied(b, Succs(b)[k]) : Code(Succs(b)[k])[i].from[b] = v}

(* The blocks that value v is live into. *)
LiveInto(v) ==
  LET defines == {b \in Blocks : \E i \in DOMAIN Code(b) : Code(b)[i].dst = v}
      reads == {b \in Blocks : \E i \in DOMAIN Code(b) : v \in Code(b)[i].uses} \cup CopiedIn(v)
      leads(to) == {b \in Blocks : \E k \in DOMAIN Succs(b) : Succs(b)[k] \in to}
      live[n \in 0 .. Len(order)] ==
        (IF n = 0 THEN reads ELSE live[n - 1] \cup leads(live[n - 1])) \ defines
  IN  live[Len(order)]

(* The branch of block b lies behind all that mentions v, of which some is *)
(* not before the definition.                                              *)
Behind(b, v) ==
  /\ \E m \in mentions : m[1] = v /\ m[2] >= def_seq[v]
  /\ \A m \in mentions : m[1] = v => m[2] < Number(b, Len(Code(b)))

(* Value v is that of a phi, and the interval of a phi before it in the    *)
(* same block has ended: the two may have one register, and the copies     *)
(* leave it to the first.                                                  *)
Overtaken(v) ==
  \E b \in Blocks : \E i, j \in Phis(b) :
    j < i /\ Code(b)[i].dst = v /\ End(Code(b)[j].dst) < def_seq[v]

(* A value is exposed when the layout puts a block into which it is live   *)
(* before the one that defines it, when it is copied to a phi behind all   *)
(* that mentions it, unless that is all before the definition, or when the *)
(* copies to a phi of its block can take its register.                     *)
Exposed(v) ==
  \/ \E b \in LiveInto(v) : lscan_seq[b] < def_seq[v]
  \/ \E b \in CopiedIn(v) : Behind(b, v)
  \/ Overtaken(v)

(* Whatever way the branches go, a value that is not exposed is read from  *)
(* a register that still holds it.                                         *)
OnlyExposedLost == \A v \in lost : Exposed(v)

(* compiler_passes.c:6033: the interval of a value that is used in a loop  *)
(* is extended to the end of the function, "pessimizes regalloc but        *)
(* provably correct"                                                       *)
NothingLost == lost = {}
=============================================================================
