------------------------------ MODULE Promotion ------------------------------
(***************************************************************************)
(* Promotion of locals to registers in the optimising back end of the AST  *)
(* path (compiler_passes.c): dominators over the reverse postorder, escape *)
(* analysis, insertion of phis at the iterated dominance frontier,         *)
(* renaming along the dominator tree, replacement and removal.  Then the   *)
(* function runs, as it was and as it is now, side by side.                *)
(*                                                                         *)
(* A function is a sequence of blocks, the entry first, with instructions  *)
(* in SSA form.  Its locals are allocas in the entry, named by the         *)
(* register that holds their address; the first ones are its parameters.   *)
(* What an instruction computes is not modelled: a number that is the same *)
(* in both executions.  A load or a store is of 1, 2, 4 or 8 bytes; what   *)
(* the low bytes of a value make when they are loaded again is Extended.   *)
(***************************************************************************)
EXTENDS Integers, Sequences, FiniteSets

CONSTANTS
  Programs,        \* functions
  NumRegs,         \* registers of the functions, the locals included
  Numbers,         \* what an instruction can compute
  Extended,        \* a value that was cut to a width and extended to 64 bits
  MaxBlocks,       \* MAX_BLOCKS, the entries of the stack of the search
  MaxChildren,     \* MAX_IDOM_CHILDREN
  MaxFrontier,     \* MAX_DF_PER_BLOCK
  MaxPhiSources    \* MAX_PHI_SOURCES

None == 0

Junk == -1

Widths == {1, 2, 4, 8}

Ops == {"alloca", "load", "store", "op", "call", "copy", "phi", "br", "ret"}

ASSUME BoundsAssumption ==
  /\ NumRegs \in Nat /\ Numbers \subseteq Nat \ (0 .. NumRegs)
  /\ MaxBlocks \in Nat /\ MaxChildren \in Nat /\ MaxFrontier \in Nat /\ MaxPhiSources \in Nat

(* Part of an address is a number. *)
ASSUME ExtendedAssumption ==
  Extended \in [Widths \ {8} -> [Numbers \cup 1 .. NumRegs -> Numbers]]

(* A store has the value and the pointer in src, a phi a value for each    *)
(* predecessor in from.  The bytes that a load or a store moves are imm.   *)
Instructions ==
  {ins \in [op : Ops, dst : 0 .. NumRegs, src : Seq(1 .. NumRegs),
             from : Seq(Nat \X (1 .. NumRegs)), imm : Widths] :
     /\ ins.op \in {"load", "copy"} => Len(ins.src) = 1
     /\ ins.op = "store" => Len(ins.src) = 2}

(* The entry has no predecessor, and each local one alloca. *)
ASSUME ProgramsAssumption ==
  \A p \in Programs :
    /\ p.params \in Nat /\ p.blocks \in Seq([code : Seq(Instructions), succs : Seq(Nat)])
    /\ 1 \in DOMAIN p.blocks
    /\ \A i, j \in DOMAIN p.blocks[1].code :
         LET ins == p.blocks[1].code[i]
             other == p.blocks[1].code[j]
         IN  ins.op = "alloca" /\ other.op = "alloca" /\ ins.dst = other.dst => i = j
    /\ \A b \in DOMAIN p.blocks : \A k \in DOMAIN p.blocks[b].succs :
         LET t == p.blocks[b].succs[k]
         IN  /\ t \in DOMAIN p.blocks \ {1}
             /\ \A i \in DOMAIN p.blocks[t].code :
                  LET ins == p.blocks[t].code[i]
                  IN  ins.op = "phi" => \E j \in DOMAIN ins.from : ins.from[j][1] = b

(* The functions have fewer branch targets than the stack of the search    *)
(* has entries.  The search puts each on the stack once, so its test       *)
(* top + 1 < MAX_BLOCKS never fails.                                       *)
ASSUME SearchStackAssumption ==
  \A p \in Programs :
    Cardinality(UNION {{<<b, k>> : k \in DOMAIN p.blocks[b].succs} : b \in DOMAIN p.blocks}) + 1 < MaxBlocks

VARIABLES
  prog, phase,            \* the function; escape, order, promote, rename, rewrite, run
  stack, visited, rpo,    \* depth-first search; the blocks in reverse postorder
  idom,                   \* immediate dominators
  escapes, todo,          \* locals that must stay in memory; those still to be looked at
  code,                   \* the blocks as rewritten; what is removed is Gone
  phis, n_regs,           \* phis inserted, one for each local and block; registers in use
  repl,                   \* what stands for the target of a load
  pc,                     \* block and instruction that runs
  before, after,          \* registers of the two executions
  memory,                 \* what was stored last in each local, and the bytes of it that were
  wrong,                  \* registers that were read, or copied to a phi, and did not hold what they should
  passed,                 \* history: locals whose address a call has received
  cut                     \* history: locals that have returned something else than was stored last

search == <<stack, visited, rpo>>
rewritten == <<code, phis, n_regs, repl>>
ran == <<pc, before, after, memory, wrong, passed, cut>>
vars == <<prog, phase, search, idom, todo, escapes, rewritten, ran>>

Blocks == DOMAIN prog.blocks
Succs(b) == {prog.blocks[b].succs[k] : k \in DOMAIN prog.blocks[b].succs}
Preds(b) == {p \in Blocks : b \in Succs(p)}
Source(b) == prog.blocks[b].code

(* The blocks of a set, those a step leads to from them, and so on: with   *)
(* as many rounds as there are blocks nothing is left to add.              *)
Closure(from, step) ==
  LET closure[n \in 0 .. Len(prog.blocks)] ==
        IF n = 0 THEN from ELSE LET c == closure[n - 1] IN c \cup UNION {step[b] : b \in c}
  IN  closure[Len(prog.blocks)]

(* The allocas of the entry. *)
AllLocals(p) ==
  LET entry == p.blocks[1].code
      locals[i \in 0 .. Len(entry)] ==
        IF i = 0 THEN <<>>
        ELSE IF entry[i].op = "alloca" THEN Append(locals[i - 1], entry[i].dst) ELSE locals[i - 1]
  IN  locals[Len(entry)]

Locals == AllLocals(prog)

Init ==
  /\ prog \in Programs
  /\ phase = "escape"
  /\ stack = <<[block |-> 1, expanded |-> FALSE]>> /\ visited = {} /\ rpo = <<>>
  /\ idom = [b \in Blocks |-> IF b = 1 THEN 1 ELSE None]
  /\ escapes = {} /\ todo = AllLocals(prog)
  /\ code = [b \in Blocks |-> Source(b)]
  /\ phis = {} /\ n_regs = NumRegs /\ repl = [r \in {} |-> None]
  /\ pc = <<1, 1>> /\ before = [r \in 1 .. NumRegs |-> Junk] /\ after = <<>>
  /\ memory = [r \in 1 .. NumRegs |-> [value |-> Junk, width |-> 8]]
  /\ wrong = {} /\ passed = {} /\ cut = {}

-----------------------------------------------------------------------------
(* escape_analysis_pass *)

Reachable == Closure({1}, [b \in Blocks |-> Succs(b)])

Places == UNION {{<<b, i>> : i \in DOMAIN Source(b)} : b \in Reachable}

LocalSet == {Locals[k] : k \in DOMAIN Locals}

(* The local whose address an instruction hands on, given what is known of *)
(* its operands.  A source of a phi that points to no local is passed over *)
(* when it comes first, and makes the result ambiguous when it comes later.*)
HandedOn(ins, known) ==
  LET merged[k \in 0 .. Len(ins.from)] ==
        IF k = 0 THEN None
        ELSE LET aid == merged[k - 1]
                 source == ins.from[k]
             IN  IF source[1] \notin Reachable THEN aid
                 ELSE IF aid \in {None, known[source[2]]} THEN known[source[2]] ELSE None
  IN  CASE ins.op = "copy" -> known[ins.src[1]]
        [] ins.op = "phi" -> merged[Len(ins.from)]
        [] OTHER -> None

(* What is known after a round in which the addresses are handed on. *)
Round(known) ==
  LET Defining(r) == {at \in Places : Source(at[1])[at[2]].dst = r}
      Definition(r) == CHOOSE at \in Defining(r) : TRUE
  IN  [r \in 1 .. NumRegs |->
         IF r \in LocalSet THEN r
         ELSE IF Defining(r) = {} THEN None
         ELSE HandedOn(Source(Definition(r)[1])[Definition(r)[2]], known)]

(* points_to: the local whose address a register holds.  There are rounds  *)
(* until nothing changes; what hands addresses on forms no cycles before   *)
(* promotion, so there are no more of them than registers.                 *)
PointsTo ==
  LET target[n \in 0 .. NumRegs] ==
        IF n = 0 THEN [r \in 1 .. NumRegs |-> IF r \in LocalSet THEN r ELSE None]
        ELSE Round(target[n - 1])
  IN  target[NumRegs]

Reads(ins) == {ins.src[k] : k \in DOMAIN ins.src}

(* Returned, passed to a call, or stored where no local is known to be. *)
Escaping ==
  LET target == PointsTo
      leaks(ins) == IF ins.op \in {"ret", "call"} THEN Reads(ins)
                    ELSE IF ins.op = "store" /\ target[ins.src[2]] = None THEN {ins.src[1]}
                    ELSE {}
  IN  {target[r] : r \in UNION {leaks(Source(at[1])[at[2]]) : at \in Places}} \ {None}

Parameters == {Locals[k] : k \in {k \in DOMAIN Locals : k <= prog.params}}

Analyse ==
  /\ phase = "escape"
  /\ escapes' = Escaping \cup Parameters
  /\ phase' = "order"
  /\ UNCHANGED <<prog, search, idom, todo, rewritten, ran>>

-----------------------------------------------------------------------------
(* licm_compute_rpo *)

Top == stack[Len(stack)]
Below == SubSeq(stack, 1, Len(stack) - 1)

(* The successors not yet visited, the first on top. *)
Pushed(b) ==
  LET succs == prog.blocks[b].succs
      pushed[k \in 0 .. Len(succs)] ==
        IF k = 0 THEN <<>>
        ELSE LET s == succs[Len(succs) + 1 - k]
             IN  IF s \in visited \cup {b} THEN pushed[k - 1]
                 ELSE Append(pushed[k - 1], [block |-> s, expanded |-> FALSE])
  IN  pushed[Len(succs)]

Searching == phase = "order" /\ stack # <<>>

Expand ==
  /\ Searching /\ ~Top.expanded
  /\ IF Top.block \in visited
     THEN stack' = Below /\ UNCHANGED visited
     ELSE /\ visited' = visited \cup {Top.block}
          /\ stack' = Below \o <<[Top EXCEPT !.expanded = TRUE]>> \o Pushed(Top.block)
  /\ UNCHANGED <<prog, phase, rpo, idom, todo, escapes, rewritten, ran>>

Leave ==
  /\ Searching /\ Top.expanded
  /\ rpo' = <<Top.block>> \o rpo
  /\ stack' = Below
  /\ UNCHANGED <<prog, phase, visited, idom, todo, escapes, rewritten, ran>>

-----------------------------------------------------------------------------
(* licm_compute_doms *)

Position(b) == CHOOSE k \in DOMAIN rpo : rpo[k] = b

(* Of two blocks the one further from the entry goes up the tree. *)
StepUp(tree, b) ==
  IF b[1] = b[2] THEN b
  ELSE IF Position(b[1]) > Position(b[2]) THEN <<tree[b[1]], b[2]>>
  ELSE <<b[1], tree[b[2]]>>

(* Until they meet: each step brings one of them closer to the entry. *)
Intersect(tree, b1, b2) ==
  LET walk[n \in 0 .. 2 * Len(rpo)] == IF n = 0 THEN <<b1, b2>> ELSE StepUp(tree, walk[n - 1])
  IN  walk[2 * Len(rpo)][1]

(* Mutant: any predecessor, not what they have in common. *)
AnyPred(tree, b) == CHOOSE p \in Preds(b) : tree[p] # None

(* What the predecessors placed so far have in common. *)
NewIdom(tree, b) ==
  LET common[p \in 0 .. Len(prog.blocks)] ==
        IF p = 0 THEN None
        ELSE LET found == common[p - 1]
             IN  IF p \notin Preds(b) \/ tree[p] = None THEN found
                 ELSE IF found = None THEN p ELSE Intersect(tree, p, found)
  IN  common[Len(prog.blocks)]

(* The tree after one more round over the blocks in their order. *)
Swept ==
  LET sweep[n \in 0 .. Len(rpo) - 1] ==
        IF n = 0 THEN idom
        ELSE LET tree == sweep[n - 1] IN [tree EXCEPT ![rpo[n + 1]] = NewIdom(tree, rpo[n + 1])]
  IN  sweep[Len(rpo) - 1]

Sweep ==
  /\ phase = "order" /\ stack = <<>>
  /\ idom' = Swept
  /\ phase' = IF Swept = idom THEN "promote" ELSE phase
  /\ UNCHANGED <<prog, search, todo, escapes, rewritten, ran>>

-----------------------------------------------------------------------------
(* compute_dominance_frontiers *)

(* The blocks above b in the tree, b first, that are below the immediate   *)
(* dominator of y.                                                         *)
Runners(b, y) ==
  LET up[r \in Blocks] ==
        IF r = idom[y] THEN {} ELSE {r} \cup (IF idom[r] = None THEN {} ELSE up[idom[r]])
  IN  up[b]

AllFrontier(b) == {y \in Reachable : \E p \in Preds(y) : b \in Runners(p, y)}

(* The list of a block takes the first ones only. *)
Frontier(b) ==
  LET all == AllFrontier(b)
  IN  {y \in all : Cardinality({z \in all : z < y}) < MaxFrontier}

-----------------------------------------------------------------------------
(* scalar_promotion_pass and multi_block_mem2reg_one *)

Loads(b, x) == {i \in DOMAIN code[b] : code[b][i].op = "load" /\ code[b][i].src[1] = x}
Stores(b, x) == {i \in DOMAIN code[b] : code[b][i].op = "store" /\ code[b][i].src[2] = x}

Promotable(x) == x \notin escapes /\ \E b \in Reachable : Stores(b, x) # {}

(* Mutant: only the loads. *)
LoadsInOneBlock(x) == \A b \in Reachable \ {1} : Loads(b, x) = {}

(* All loads and stores are in the block of the alloca. *)
SingleBlock(x) == \A b \in Reachable \ {1} : Loads(b, x) = {} /\ Stores(b, x) = {}

Local == Head(todo)

PassOver ==
  /\ phase = "promote" /\ todo # <<>> /\ ~Promotable(Local)
  /\ todo' = Tail(todo)
  /\ UNCHANGED <<prog, phase, search, idom, escapes, rewritten, ran>>

(* What stands for what stands for r, and so on. *)
Resolve(with, r) ==
  LET through[n \in 0 .. n_regs] ==
        IF n = 0 THEN r
        ELSE LET q == through[n - 1] IN IF q \in DOMAIN with THEN with[q] ELSE q
  IN  through[n_regs]

With(f, r, s) == [q \in DOMAIN f \cup {r} |-> IF q = r THEN s ELSE f[q]]

(* What is known behind instruction i of the entry: the value that was     *)
(* stored last, and what the loads stand for.                              *)
Passed(i, w) ==
  IF i \in Stores(1, Local) THEN [w EXCEPT !.value = Resolve(w.repl, code[1][i].src[1])]
  ELSE IF i \in Loads(1, Local) /\ w.value # None
  THEN [w EXCEPT !.repl = With(w.repl, code[1][i].dst, w.value)]
  ELSE w

(* One block: each load stands for what was stored last, which itself may  *)
(* be the target of a load that is being replaced.                         *)
Walk ==
  /\ phase = "promote" /\ todo # <<>> /\ Promotable(Local) /\ SingleBlock(Local)
  /\ LET walk[i \in 0 .. Len(code[1])] ==
           IF i = 0 THEN [value |-> None, repl |-> repl] ELSE Passed(i, walk[i - 1])
     IN  repl' = walk[Len(code[1])].repl
  /\ phase' = "rewrite"
  /\ UNCHANGED <<prog, search, idom, escapes, todo, code, phis, n_regs, ran>>

(* Mutant: the frontiers of the blocks that define the local, no further. *)
FrontierOnce(x) ==
  LET defining == {1} \cup {b \in Reachable : Stores(b, x) # {}}
  IN  defining \cup UNION {Frontier(b) : b \in defining}

(* The blocks that need a phi: those that define the local, and the        *)
(* frontiers of those that need one.                                       *)
NeedPhi(x) ==
  Closure({1} \cup {b \in Reachable : Stores(b, x) # {}}, [b \in Blocks |-> Frontier(b)])

(* Mutant: one register for all phis of a local. *)
SameReg(b, placed) == n_regs + 1

(* The phis get new registers in the order of their blocks. *)
FreshReg(b, placed) == n_regs + Cardinality({c \in placed : c <= b})

PlacePhis ==
  /\ phase = "promote" /\ todo # <<>> /\ Promotable(Local) /\ ~SingleBlock(Local)
  /\ LET placed == {b \in NeedPhi(Local) : Cardinality(Preds(b)) <= MaxPhiSources}
         Phi(b) == [block |-> b, local |-> Local,
                    dst |-> FreshReg(b, placed),
                    from |-> [p \in Preds(b) |-> None]]
     IN  /\ phis' = phis \cup {Phi(b) : b \in placed}
         /\ n_regs' = n_regs + Cardinality(placed)
  /\ phase' = "rename"
  /\ UNCHANGED <<prog, search, idom, escapes, todo, code, repl, ran>>

AllChildren(b) == {c \in Blocks \ {b} : idom[c] = b}

(* The list of children takes the first ones only. *)
Children(b) ==
  {c \in AllChildren(b) : Cardinality({d \in AllChildren(b) : d < c}) < MaxChildren}

(* The blocks mem2reg_rename_rec comes to. *)
Renamed == Closure({1}, [b \in Blocks |-> Children(b)])

(* The top of the stack of renaming where block b starts, given the tops   *)
(* at the ends of the blocks above it, and before instruction i of b.      *)
AtStart(b, x, end) ==
  LET own == {phi \in phis : phi.block = b /\ phi.local = x}
  IN  IF own # {} THEN (CHOOSE phi \in own : TRUE).dst ELSE IF b = 1 \/ idom[b] = None THEN None ELSE end[idom[b]]

AtPlace(b, i, x, end) ==
  LET stores == {j \in Stores(b, x) : j < i}
      last == CHOOSE j \in stores : \A k \in stores : k <= j
  IN  IF stores # {} THEN code[b][last].src[1] ELSE AtStart(b, x, end)

(* The tops at the ends of the blocks. *)
AtEnd(x) == LET end[b \in Blocks] == AtPlace(b, Len(code[b]) + 1, x, end) IN end

RenameTree ==
  /\ phase = "rename"
  /\ LET end == AtEnd(Local)
         loads == UNION {{<<b, i>> : i \in Loads(b, Local)} : b \in Renamed}
         Value(at) == AtPlace(at[1], at[2], Local, end)
         valid == {at \in loads : Value(at) # None}
         targets == {code[at[1]][at[2]].dst : at \in valid}
     IN  /\ phis' = {IF phi.local = Local
                     THEN [phi EXCEPT !.from = [p \in DOMAIN phi.from |-> IF p \in Renamed THEN end[p] ELSE None]]
                     ELSE phi : phi \in phis}
         /\ repl' = [r \in DOMAIN repl \cup targets |->
                       IF r \in targets
                       THEN Value(CHOOSE at \in valid : code[at[1]][at[2]].dst = r)
                       ELSE repl[r]]
  /\ phase' = "rewrite"
  /\ UNCHANGED <<prog, search, idom, escapes, todo, code, n_regs, ran>>

Gone == [op |-> "gone", dst |-> None, src |-> <<>>, from |-> <<>>, imm |-> 8]

(* What stands for r, by one step only. *)
Replaced(r) == IF r \in DOMAIN repl THEN repl[r] ELSE r

Rewritten(ins) ==
  [ins EXCEPT !.src = [k \in DOMAIN ins.src |-> Replaced(ins.src[k])],
              !.from = [k \in DOMAIN ins.from |-> <<ins.from[k][1], Replaced(ins.from[k][2])>>]]

IsAccess(ins, x) ==
  \/ ins.op = "load" /\ ins.src[1] = x
  \/ ins.op = "store" /\ ins.src[2] = x
  \/ ins.op = "alloca" /\ ins.dst = x

(* Uses of the replaced registers are rewritten, in the block of a single  *)
(* block's local or everywhere; then its loads, its stores and its alloca  *)
(* go.                                                                     *)
Rewrite ==
  /\ phase = "rewrite"
  /\ LET single == SingleBlock(Local)
         scope == IF single THEN {1} ELSE Reachable
         goes(ins) == IsAccess(IF single THEN ins ELSE Rewritten(ins), Local)
         loaded == {code[1][i].dst : i \in Loads(1, Local)}
     IN  /\ code' = [b \in Blocks |->
                       IF b \in scope
                       THEN [i \in DOMAIN code[b] |->
                               IF goes(code[b][i]) THEN Gone ELSE Rewritten(code[b][i])]
                       ELSE code[b]]
         /\ phis' = {IF phi.block \in scope
                     THEN [phi EXCEPT !.from = [p \in DOMAIN phi.from |-> Replaced(phi.from[p])]]
                     ELSE phi : phi \in phis}
         /\ repl' = IF single THEN [r \in DOMAIN repl \ loaded |-> repl[r]] ELSE repl
  /\ todo' = Tail(todo)
  /\ phase' = "promote"
  /\ UNCHANGED <<prog, search, idom, escapes, n_regs, ran>>

-----------------------------------------------------------------------------
(* The function before and after, in step.  What was uninitialised before  *)
(* may be anything after.  They part at the first wrong read.              *)

Start ==
  /\ phase = "promote" /\ todo = <<>>
  /\ after' = [r \in 1 .. n_regs |-> Junk]
  /\ phase' = "run"
  /\ UNCHANGED <<prog, search, idom, escapes, todo, rewritten, pc, before, memory, wrong, passed, cut>>

Old == Source(pc[1])[pc[2]]
New == code[pc[1]][pc[2]]

Running(ops) == phase = "run" /\ wrong = {} /\ pc[2] \in DOMAIN Source(pc[1]) /\ Old.op \in ops

After(r) == IF r = None THEN Junk ELSE after[r]

Differs(old, r) == old # Junk /\ After(r) # old

Misread ==
  {New.src[k] : k \in {k \in DOMAIN New.src : Differs(before[Old.src[k]], New.src[k])}}

Put(registers, r, v) == IF r = None THEN registers ELSE [registers EXCEPT ![r] = v]

Define(v) ==
  /\ before' = Put(before, Old.dst, v)
  /\ after' = Put(after, New.dst, v)

Advance ==
  /\ pc' = <<pc[1], pc[2] + 1>>
  /\ UNCHANGED <<prog, phase, search, idom, escapes, todo, rewritten>>

Compute ==
  /\ Running({"op", "call"})
  /\ \E v \in Numbers : Define(v)
  /\ wrong' = Misread
  /\ passed' = IF Old.op = "call"
               THEN passed \cup ({before[r] : r \in Reads(Old)} \cap LocalSet) ELSE passed
  /\ Advance /\ UNCHANGED <<memory, cut>>

Alloca ==
  /\ Running({"alloca"})
  /\ Define(Old.dst)
  /\ Advance /\ UNCHANGED <<memory, wrong, passed, cut>>

Copy ==
  /\ Running({"copy"})
  /\ Define(before[Old.src[1]])
  /\ wrong' = Misread
  /\ Advance /\ UNCHANGED <<memory, passed, cut>>

(* The low bytes of a value, extended. *)
Fitted(w, v) == IF w = 8 \/ v = Junk THEN v ELSE Extended[w][v]

(* What a load of w bytes can make of a local: bytes that the last store   *)
(* did not write are not followed.                                         *)
Contents(x, w) == IF w <= memory[x].width THEN {Fitted(w, memory[x].value)} ELSE Numbers

Load ==
  /\ Running({"load"})
  /\ LET x == before[Old.src[1]]
         at == {x} \cap LocalSet
     IN  /\ \E v \in IF at # {} THEN Contents(x, Old.imm) ELSE Numbers : Define(v)
         /\ cut' = cut \cup {y \in at : Contents(y, Old.imm) # {memory[y].value}}
  /\ wrong' = Misread
  /\ Advance /\ UNCHANGED <<memory, passed>>

Store ==
  /\ Running({"store"})
  /\ memory' = IF before[Old.src[2]] \in LocalSet
               THEN [memory EXCEPT ![before[Old.src[2]]] = [value |-> before[Old.src[1]], width |-> Old.imm]]
               ELSE memory
  /\ wrong' = Misread
  /\ Advance /\ UNCHANGED <<before, after, passed, cut>>

(* What the phi that is instruction i of block t takes from block b. *)
Taken(blocks, b, t, i) ==
  LET from == blocks[t][i].from
  IN  (CHOOSE s \in {from[k] : k \in DOMAIN from} : s[1] = b)[2]

(* All phis of the next block take their values at once. *)
Branch ==
  /\ Running({"br"})
  /\ LET b == pc[1]
     IN  \E t \in Succs(b) :
           LET new == {phi \in phis : phi.block = t}
               old == {i \in DOMAIN Source(t) : Source(t)[i].op = "phi"}
               Was(i) == before[Taken([c \in Blocks |-> Source(c)], b, t, i)]
               Is(r) == {i \in old : Source(t)[i].dst = r}
           IN  /\ before' = [r \in DOMAIN before |->
                               IF Is(r) # {} THEN Was(CHOOSE i \in Is(r) : TRUE) ELSE before[r]]
               /\ after' = [r \in DOMAIN after |->
                              IF Is(r) # {} THEN After(Taken(code, b, t, CHOOSE i \in Is(r) : TRUE))
                              ELSE IF \E phi \in new : phi.dst = r
                              THEN After((CHOOSE phi \in new : phi.dst = r).from[b])
                              ELSE after[r]]
               /\ wrong' = Misread
                    \cup {Taken(code, b, t, i) : i \in {i \in old : Differs(Was(i), Taken(code, b, t, i))}}
                    \cup {phi.from[b] : phi \in {phi \in new : Differs(memory[phi.local].value, phi.from[b])}}
               /\ pc' = <<t, 1 + Cardinality(old)>>
  /\ UNCHANGED <<prog, phase, search, idom, escapes, todo, rewritten, memory, passed, cut>>

Return ==
  /\ Running({"ret"})
  /\ wrong' = Misread
  /\ Advance /\ UNCHANGED <<before, after, memory, passed, cut>>

Halt ==
  /\ phase = "run" /\ (wrong # {} \/ pc[2] \notin DOMAIN Source(pc[1]))
  /\ UNCHANGED vars

Next ==
  \/ Analyse \/ Expand \/ Leave \/ Sweep
  \/ PassOver \/ Walk \/ PlacePhis \/ RenameTree \/ Rewrite
  \/ Start \/ Compute \/ Alloca \/ Copy \/ Load \/ Store \/ Branch \/ Return \/ Halt

Spec == Init /\ [][Next]_vars

-----------------------------------------------------------------------------
Promoted == {x \in LocalSet : \A i \in DOMAIN code[1] : ~(code[1][i].op = "alloca" /\ code[1][i].dst = x)}

(* The registers whose definition has been removed. *)
Removed == {Source(at[1])[at[2]].dst : at \in {at \in Places : code[at[1]][at[2]].op = "gone"}} \ {None}

(* The function stays in SSA form: the registers of the inserted phis are  *)
(* new, and no two have the same.                                          *)
PhisFresh ==
  \A phi \in phis :
    /\ phi.dst \in NumRegs + 1 .. n_regs
    /\ \A other \in phis : other.dst = phi.dst => other.block = phi.block /\ other.local = phi.local

(* The order is one of the blocks found, each of which leaves the stack    *)
(* once, and a phi has a source for each predecessor.                      *)
PromotionTypeOK ==
  /\ phase \in {"escape", "order", "promote", "rename", "rewrite", "run"}
  /\ \A k, m \in DOMAIN rpo : rpo[k] \in visited /\ (rpo[k] = rpo[m] => k = m)
  /\ visited \subseteq Reachable
  /\ idom \in [Blocks -> Blocks \cup {None}]
  /\ escapes \subseteq LocalSet
  /\ \A r \in DOMAIN repl : repl[r] \in 1 .. n_regs
  /\ PhisFresh
  /\ \A phi \in phis : phi.local \in LocalSet \ escapes /\ phi.from \in [Preds(phi.block) -> 0 .. n_regs]
  /\ wrong \subseteq 0 .. n_regs /\ passed \subseteq LocalSet

(* Every path from the entry to b goes through d. *)
Dominates(d, b) == b \notin Closure({1} \ {d}, [c \in Blocks |-> Succs(c) \ {d}])

(* The rounds end with the immediate dominators, for loops with two        *)
(* entries too: idom of a block dominates it, and whatever else dominates  *)
(* the block dominates its idom.                                           *)
IdomExact ==
  phase = "promote" =>
    \A b \in Reachable \ {1} :
      /\ idom[b] # b /\ Dominates(idom[b], b)
      /\ \A d \in Reachable \ {b} : Dominates(d, b) => Dominates(d, idom[b])

(* No block has more predecessors than a phi has sources, more children    *)
(* than their list, or more blocks in its frontier than theirs.            *)
WithinLimits ==
  \A b \in Reachable :
    /\ Cardinality(Preds(b)) <= MaxPhiSources
    /\ Cardinality(AllChildren(b)) <= MaxChildren
    /\ Cardinality(AllFrontier(b)) <= MaxFrontier

(* Within these limits the phis that are placed are enough: renaming comes *)
(* to every block that can run, and whatever way leads into a block that   *)
(* has no phi of the local, the value on top of the stack at the end of    *)
(* the block above it in the tree is the one that is on top at the end of  *)
(* the block the way comes from.                                           *)
PhisSuffice ==
  phase = "rename" /\ WithinLimits =>
    /\ Renamed = Reachable
    /\ \A b \in Reachable : \A t \in Succs(b) :
         (\A phi \in phis : phi.block = t => phi.local # Local)
           => AtStart(t, Local, AtEnd(Local)) = AtEnd(Local)[b]

(* What has been loaded from the locals that are promoted is what was      *)
(* stored last.  In memory a value is cut to the width of the store and    *)
(* extended by the load; promotion passes the whole register on.  After    *)
(* int x = 300; char c; c = x; the value of c is 44 before promotion and   *)
(* 300 after it, and so for an int that overflows.                         *)
ValuesFit == cut \cap Promoted = {}

(* Within the limits, and as long as what is stored fits, promotion puts   *)
(* no wrong value into any register.  An inserted phi holds what was       *)
(* stored last where it stands, and so does what is read instead of a      *)
(* local.  All that can be wrong is that a register is read whose          *)
(* definition has been removed.  This is for functions in which no local   *)
(* holds an address of a local that is copied: repl replaces by one step,  *)
(* and the stale address of one local can make a store through it look     *)
(* like a store to the local.                                              *)
OnlyRemovedWrong == wrong # {} /\ WithinLimits /\ ValuesFit => wrong \subseteq Removed

AllIns == {Source(at[1])[at[2]] : at \in Places}

FromOf(ins) == {ins.from[k][2] : k \in DOMAIN ins.from}

(* The address of a local is used for more than to load and to store.      *)
AddressUsed ==
  \E ins \in AllIns :
    LocalSet \cap (FromOf(ins) \cup
      (CASE ins.op = "load" -> {} [] ins.op = "store" -> {ins.src[1]} [] OTHER -> Reads(ins))) # {}

(* What is loaded in a block is used in that block. *)
LoadsStayHome ==
  \A at, to \in Places :
    LET load == Source(at[1])[at[2]]
        ins == Source(to[1])[to[2]]
    IN  load.op = "load" /\ to[1] # at[1] => load.dst \notin Reads(ins) \cup FromOf(ins)

(* The locals copied to local x, and those copied to them, and so on. *)
Moves ==
  {<<m[1].src[1], m[2].src[2]>> :
     m \in {m \in AllIns \X AllIns : m[1].op = "load" /\ m[2].op = "store" /\ m[2].src[1] = m[1].dst}}

MovedTo(x) ==
  LET above[n \in 0 .. Cardinality(LocalSet)] ==
        LET a == IF n = 0 THEN {x} ELSE above[n - 1]
        IN  (IF n = 0 THEN {} ELSE a) \cup {m[1] : m \in {m \in Moves : m[2] \in a}}
  IN  above[Cardinality(LocalSet)]

OutsideEntry(x) == \E at \in Places : at[1] # 1 /\ IsAccess(Source(at[1])[at[2]], x)

(* Locals are only loaded and stored, a value loaded is used in its block, *)
(* no local is copied to itself, be it by way of others, and none that is  *)
(* local to the entry is copied to one that is not.                        *)
Simple ==
  /\ ~AddressUsed /\ LoadsStayHome
  /\ \A x \in LocalSet : x \notin MovedTo(x)
  /\ \A m \in Moves : OutsideEntry(m[1]) \/ ~OutsideEntry(m[2])

(* Such a function does after promotion what it did before, whatever way   *)
(* its branches go, as long as what it stores fits the locals.  Each of    *)
(* the conditions is needed.                                               *)
SimpleFunctionsAgree == wrong # {} /\ WithinLimits /\ ValuesFit => ~Simple

(* What promotion takes out of a function is loads, stores and allocas:    *)
(* every other instruction stays where it was and defines what it defined, *)
(* with other operands.                                                    *)
OnlyAccessesGo ==
  \A b \in Blocks : \A i \in DOMAIN Source(b) :
    LET was == Source(b)[i]
        is == code[b][i]
    IN  \/ is.op = "gone" /\ was.op \in {"alloca", "load", "store"}
        \/ is.op = was.op /\ is.dst = was.dst /\ DOMAIN is.src = DOMAIN was.src

(* A local that must stay in memory, a parameter for one, keeps its slot.  *)
EscapingKeepsSlot ==
  \A b \in Blocks : \A i \in DOMAIN Source(b) :
    Source(b)[i].op = "alloca" /\ Source(b)[i].dst \in escapes => code[b][i].op = "alloca"

(* courtroom/repro_mem2reg.c:13, of a local whose address goes by way of   *)
(* another local to a call: "If promoted to a register, 'x' will corrupt   *)
(* because opaque_sink mutates it."                                        *)
PassedStaysInMemory == passed \cap Promoted = {}
=============================================================================
