------------------------------ MODULE LocalScan ------------------------------
(***************************************************************************)
(* Registers for the locals of a function, as codegen_func does it on the  *)
(* direct path (part4.c): compute_liveness numbers the nodes of the syntax *)
(* tree and keeps one interval per local, allocate_registers scans the     *)
(* intervals in the order they start and hands out five callee-saved       *)
(* registers.  Then the generated code runs.                               *)
(*                                                                         *)
(* A function is the table of its nodes, the body first; a node, which is  *)
(* a statement or an expression, is a record with the fields of struct     *)
(* Node the walk follows, without those that are null, and a pointer to a  *)
(* node is its place in the table.  The recursion of the walk is todo, the *)
(* nodes still to be visited, with an entry where a loop ends.  What the   *)
(* code generator makes of the tree is kont, what is left to execute:      *)
(* conditions go either way.                                               *)
(***************************************************************************)
EXTENDS Integers, Sequences, FiniteSets

CONSTANTS
  Declared,      \* the locals of the function in order, the parameters first
  NumParams,     \* func->num_params
  Words,         \* the words of eight bytes each of them takes
  Offset,        \* stack_offset of each
  Scalars,       \* those of an integer or pointer type
  Programs,      \* functions
  MaxLocals,     \* length of ra_locals: 1024 in the code
  NumRegs        \* registers get_callee_reg names: 5 in the code

Symbols == {Declared[i] : i \in DOMAIN Declared}

Params == {Declared[i] : i \in 1 .. NumParams}

NoSymbol == "none"

Loops == {"while", "for", "do"}

Kinds == Loops \cup {"var", "addr", "num", "expr", "assign", "compound", "call", "block",
                     "if", "switch", "case", "label", "goto", "break", "continue"}

Regs == 0 .. NumRegs - 1

NoReg == -1

ASSUME SymbolsAssumption ==
  /\ Declared \in Seq(Symbols) /\ NumParams \in 0 .. Len(Declared)
  /\ \A i, j \in DOMAIN Declared : Declared[i] = Declared[j] => i = j
  /\ Words \in [Symbols -> Nat \ {0}] /\ Offset \in [Symbols -> Int]
  /\ Scalars \subseteq Symbols /\ \A v \in Scalars : Words[v] = 1
  /\ MaxLocals \in Nat /\ NumRegs \in Nat /\ NoSymbol \notin Symbols

(* Where the parser puts them (scope_add_local): each behind all that were *)
(* declared before, with as many words as it needs.  The prologue counts   *)
(* the same way when it stores the parameters (part4.c:4028-4034), unless  *)
(* a pointer to the result comes in ahead of them.                         *)
LaidOut ==
  \A i \in DOMAIN Declared :
    Offset[Declared[i]] = (IF i = 1 THEN 0 ELSE Offset[Declared[i - 1]]) - 8 * Words[Declared[i]]

ASSUME OffsetsAssumption == LaidOut

Fields == {"lhs", "rhs", "cond", "then_body", "else_body", "init", "inc", "body"}

(* What the parser makes (part3.c, parse_stmt): a switch has a body, a     *)
(* loop has no list of statements, and a number has no operands.           *)
ASSUME ProgramsAssumption ==
  \A t \in Programs :
    /\ 1 \in DOMAIN t /\ DOMAIN t \subseteq Nat \ {0}
    /\ t[1].kind = "block" /\ "stmts" \in DOMAIN t[1]
    /\ \A n \in DOMAIN t :
         /\ t[n].kind \in Kinds
         /\ \A f \in Fields \cap DOMAIN t[n] : t[n][f] \in DOMAIN t
         /\ \A f \in {"stmts", "args"} \cap DOMAIN t[n] : t[n][f] \in Seq(DOMAIN t)
         /\ t[n].kind = "var" => t[n].sym \in Symbols
         /\ t[n].kind \in {"addr", "assign", "compound"} =>
              "lhs" \in DOMAIN t[n] /\ t[t[n].lhs].kind = "var"
         /\ t[n].kind = "num" => {"lhs", "rhs"} \cap DOMAIN t[n] = {}
         /\ t[n].kind = "switch" => "body" \in DOMAIN t[n]
         /\ t[n].kind \in Loops => "stmts" \notin DOMAIN t[n]

VARIABLES
  prog,         \* the function
  phase,        \* walk, scan, run
  todo,         \* nodes compute_liveness has still to visit
  pseudo_pc, live_start, live_end,
  ra_locals,    \* the locals the walk met
  active_ends, assigned_reg,
  top, kont,    \* statement of the body that runs, and what is left of it
  holds,        \* local whose value a register holds
  written,      \* locals that have a value
  addressed, seen, loops,  \* history: of the walk
  misread, strayed         \* history: of the run

walked == <<todo, pseudo_pc, live_end, addressed, seen, loops>>
scanned == <<live_start, ra_locals, active_ends, assigned_reg>>
ran == <<top, kont, holds, written, misread, strayed>>
vars == <<prog, phase, walked, scanned, ran>>

Init ==
  /\ prog \in Programs
  /\ phase = "walk"
  /\ todo = <<1>>
  /\ pseudo_pc = 1
  /\ live_start = [v \in Symbols |-> 0] /\ live_end = [v \in Symbols |-> 0]
  /\ ra_locals = {}
  /\ active_ends = [r \in Regs |-> 0]
  /\ assigned_reg = [v \in Symbols |-> NoReg]
  /\ top = 0 /\ kont = <<>>
  /\ holds = [r \in Regs |-> NoSymbol]
  /\ written = Params
  /\ addressed = {} /\ seen = {} /\ loops = {}
  /\ misread = {} /\ strayed = {}

-----------------------------------------------------------------------------
(* compute_liveness *)

Kid(n, f) == IF f \in DOMAIN prog[n] THEN <<prog[n][f]>> ELSE <<>>

List(n, f) == IF f \in DOMAIN prog[n] THEN prog[n][f] ELSE <<>>

LoopPartsNoInc(n) == Kid(n, "cond") \o Kid(n, "body") \o Kid(n, "init")

LoopParts(n) == Kid(n, "cond") \o Kid(n, "body") \o Kid(n, "init") \o Kid(n, "inc")

Operands(n) ==
  IF prog[n].kind = "assign"
  THEN Kid(n, "rhs") \o Kid(n, "lhs") ELSE Kid(n, "lhs") \o Kid(n, "rhs")

(* The order in which the walk visits what hangs below a node that is no   *)
(* loop.  The cases of a switch, visited last, hold only jumps to labels.  *)
Children(n) ==
  Operands(n) \o Kid(n, "cond") \o Kid(n, "then_body") \o Kid(n, "else_body")
    \o Kid(n, "init") \o Kid(n, "inc") \o Kid(n, "body") \o List(n, "stmts") \o List(n, "args")

Here == Head(todo)

Visiting(kinds) == phase = "walk" /\ todo # <<>> /\ Here > 0 /\ prog[Here].kind \in kinds

(* The end of a loop whose first number is n is the entry -n of todo.      *)
VisitLoop ==
  /\ Visiting(Loops)
  /\ pseudo_pc' = pseudo_pc + 1
  /\ todo' = LoopParts(Here) \o <<-(pseudo_pc + 1)>> \o Tail(todo)
  /\ UNCHANGED <<prog, phase, live_end, addressed, seen, loops, scanned, ran>>

LeaveLoopKeepingStart ==
  /\ phase = "walk" /\ todo # <<>> /\ Here < 0
  /\ LET inside == {v \in ra_locals : live_end[v] >= -Here}
     IN  /\ live_end' = [v \in Symbols |-> IF v \in inside THEN pseudo_pc ELSE live_end[v]]
         /\ loops' = loops \cup {<<-Here, pseudo_pc>>}
  /\ todo' = Tail(todo)
  /\ UNCHANGED <<prog, phase, pseudo_pc, live_start, addressed, seen, ra_locals, active_ends,
                 assigned_reg, ran>>

(* Whoever lives on in the loop lives through it. *)
LeaveLoop ==
  /\ phase = "walk" /\ todo # <<>> /\ Here < 0
  /\ LET loop_start == -Here
         inside == {v \in ra_locals : live_end[v] >= loop_start}
     IN  /\ live_end' = [v \in Symbols |-> IF v \in inside THEN pseudo_pc ELSE live_end[v]]
         /\ live_start' = [v \in Symbols |-> IF v \in inside /\ live_start[v] >= loop_start
                                            THEN loop_start ELSE live_start[v]]
         /\ loops' = loops \cup {<<loop_start, pseudo_pc>>}
  /\ todo' = Tail(todo)
  /\ UNCHANGED <<prog, phase, pseudo_pc, addressed, seen, ra_locals, active_ends, assigned_reg, ran>>

Full == Cardinality(ra_locals) >= MaxLocals

VisitVarStartOrEnd ==
  /\ Visiting({"var"})
  /\ LET v == prog[Here].sym
         pc == pseudo_pc + 1
     IN  /\ CASE live_start[v] = -1 -> UNCHANGED <<live_start, live_end, ra_locals>>
              [] live_start[v] = 0 -> /\ live_start' = [live_start EXCEPT ![v] = pc]
                                      /\ ra_locals' = IF Full THEN ra_locals ELSE ra_locals \cup {v}
                                      /\ UNCHANGED live_end
              [] OTHER -> live_end' = [live_end EXCEPT ![v] = pc] /\ UNCHANGED <<live_start, ra_locals>>
         /\ pseudo_pc' = pc
         /\ seen' = seen \cup {<<v, pc>>}
  /\ todo' = Children(Here) \o Tail(todo)
  /\ UNCHANGED <<prog, phase, addressed, loops, active_ends, assigned_reg, ran>>

VisitVar ==
  /\ Visiting({"var"})
  /\ LET v == prog[Here].sym
         pc == pseudo_pc + 1
     IN  /\ IF live_start[v] = -1
            THEN UNCHANGED <<live_start, live_end, ra_locals>>
            ELSE /\ live_start' = [live_start EXCEPT ![v] = IF @ = 0 THEN pc ELSE @]
                 /\ live_end' = [live_end EXCEPT ![v] = pc]
                 /\ ra_locals' = IF Full THEN ra_locals ELSE ra_locals \cup {v}
         /\ pseudo_pc' = pc
         /\ seen' = seen \cup {<<v, pc>>}
  /\ todo' = Children(Here) \o Tail(todo)
  /\ UNCHANGED <<prog, phase, addressed, loops, active_ends, assigned_reg, ran>>

(* A local whose address is taken gets no register. *)
VisitAddr ==
  /\ Visiting({"addr"})
  /\ LET v == prog[prog[Here].lhs].sym
     IN  /\ live_start' = [live_start EXCEPT ![v] = -1]
         /\ addressed' = addressed \cup {v}
  /\ pseudo_pc' = pseudo_pc + 1
  /\ todo' = Children(Here) \o Tail(todo)
  /\ UNCHANGED <<prog, phase, live_end, seen, loops, ra_locals, active_ends, assigned_reg, ran>>

VisitOther ==
  /\ Visiting(Kinds \ (Loops \cup {"var", "addr"}))
  /\ pseudo_pc' = pseudo_pc + 1
  /\ todo' = Children(Here) \o Tail(todo)
  /\ UNCHANGED <<prog, phase, live_end, addressed, seen, loops, scanned, ran>>

-----------------------------------------------------------------------------
(* allocate_registers *)

InParamSlotUnscaled(v) == Offset[v] >= -NumParams /\ Offset[v] < 0

(* Taken for the slot of a parameter: as many words as there are           *)
(* parameters, whatever words these need.                                  *)
InParamSlot(v) == Offset[v] >= -(NumParams * 8) /\ Offset[v] < 0

Eligible(v) == live_start[v] # -1 /\ ~InParamSlot(v) /\ v \in Scalars

Select ==
  /\ phase = "walk" /\ todo = <<>>
  /\ ra_locals' = {v \in ra_locals : Eligible(v)}
  /\ live_start' = [v \in Symbols |-> IF v \in ra_locals /\ ~Eligible(v) THEN -1 ELSE live_start[v]]
  /\ phase' = "scan"
  /\ UNCHANGED <<prog, walked, active_ends, assigned_reg, ran>>

(* The order the locals are sorted in.  Names decide between equal         *)
(* offsets, which no two locals in scope have.                             *)
Before(v, w) ==
  live_start[v] < live_start[w] \/ (live_start[v] = live_start[w] /\ Offset[v] <= Offset[w])

FreeAt(r, v) == active_ends[r] <= live_start[v]

Scan ==
  /\ phase = "scan"
  /\ \E v \in ra_locals :
       /\ \A w \in ra_locals : Before(v, w)
       /\ \/ \E r \in Regs :
               /\ FreeAt(r, v) /\ \A q \in Regs : FreeAt(q, v) => r <= q
               /\ active_ends' = [active_ends EXCEPT ![r] = live_end[v]]
               /\ assigned_reg' = [assigned_reg EXCEPT ![v] = r]
          \/ /\ \A r \in Regs : ~FreeAt(r, v)
             /\ UNCHANGED <<active_ends, assigned_reg>>
       /\ ra_locals' = ra_locals \ {v}
  /\ UNCHANGED <<prog, phase, walked, live_start, ran>>

Emit ==
  /\ phase = "scan" /\ ra_locals = {}
  /\ phase' = "run"
  /\ UNCHANGED <<prog, walked, scanned, ran>>

-----------------------------------------------------------------------------
(* The generated code.  An entry of kont is a node to execute, a store to  *)
(* a local, the jump back of a loop, or one of the places jumps go to: the *)
(* place a continue jumps to and the end of a switch.                      *)

Entry(does, n) == [does |-> does, node |-> n]

Code(nodes) == [i \in DOMAIN nodes |-> Entry("node", nodes[i])]

Put(n) == <<Entry("put", prog[n].lhs)>>

Again(n) == <<Entry("again", n)>>

Resume == <<Entry("resume", 0)>>

(* Call arguments are evaluated last to first. *)
Arguments(n) ==
  LET args == List(n, "args") IN [i \in DOMAIN args |-> args[Len(args) + 1 - i]]

(* One turn of a loop; a do loop tests last. *)
Turn(n) ==
  IF prog[n].kind = "do"
  THEN Code(Kid(n, "body")) \o Resume \o Code(Kid(n, "cond")) \o Again(n)
  ELSE Code(Kid(n, "cond") \o Kid(n, "body")) \o Resume \o Code(Kid(n, "inc")) \o Again(n)

Exit(n) == IF prog[n].kind = "do" THEN <<>> ELSE Code(Kid(n, "cond"))

(* A switch goes to one of the case labels of its block, or past it. *)
Selected(n) ==
  LET stmts == List(prog[n].body, "stmts")
  IN  {<<>>} \cup {Code(SubSeq(stmts, i, Len(stmts))) \o <<Entry("endswitch", n)>> :
                     i \in {j \in DOMAIN stmts : prog[stmts[j]].kind = "case"}}

(* What the code of a node may do: a branch can go either way. *)
Unfold(n) ==
  LET kind == prog[n].kind
  IN  CASE kind = "assign" -> {Code(Kid(n, "rhs")) \o Put(n)}
        [] kind = "compound" -> {Code(Kid(n, "rhs") \o Kid(n, "lhs")) \o Put(n)}
        [] kind = "call" -> {Code(Kid(n, "lhs") \o Arguments(n))}
        [] kind \in {"num", "expr", "label", "case"} -> {Code(Operands(n))}
        [] kind = "addr" -> {<<>>}
        [] kind = "block" -> {Code(List(n, "stmts"))}
        [] kind = "if" -> {Code(Kid(n, "cond") \o Kid(n, branch)) : branch \in {"then_body", "else_body"}}
        [] kind \in {"while", "for"} -> {Code(Kid(n, "init")) \o Again(n)}
        [] kind = "do" -> {Turn(n)}
        [] kind = "switch" -> {Code(Kid(n, "cond")) \o s : s \in Selected(n)}
        [] OTHER -> {}

Now == Head(kont)

Doing(what) == phase = "run" /\ kont # <<>> /\ Now.does = what

Running(kinds) == Doing("node") /\ prog[Now.node].kind \in kinds

Body == prog[1].stmts

NextStatement ==
  /\ phase = "run" /\ kont = <<>> /\ top < Len(Body)
  /\ top' = top + 1
  /\ kont' = Code(<<Body[top + 1]>>)
  /\ UNCHANGED <<prog, phase, walked, scanned, holds, written, misread, strayed>>

Composite(n) == prog[n].kind \notin {"var", "num"}

(* Operands that are not evaluated in the order they are visited in. *)
OutOfOrder(n) ==
  \/ prog[n].kind = "compound" /\ Composite(prog[n].rhs)
  \/ \E i \in DOMAIN List(n, "args") : Composite(prog[n].args[i])

Execute ==
  /\ Running(Kinds \ {"var", "break", "continue", "goto"})
  /\ \E code \in Unfold(Now.node) : kont' = code \o Tail(kont)
  /\ strayed' = IF OutOfOrder(Now.node) THEN strayed \cup {"order"} ELSE strayed
  /\ UNCHANGED <<prog, phase, walked, scanned, top, holds, written, misread>>

JumpBack ==
  /\ Doing("again")
  /\ \E code \in {Turn(Now.node), Exit(Now.node)} : kont' = code \o Tail(kont)
  /\ UNCHANGED <<prog, phase, walked, scanned, top, holds, written, misread, strayed>>

Read ==
  /\ Running({"var"})
  /\ LET v == prog[Now.node].sym
         lost == v \in written /\ assigned_reg[v] # NoReg /\ holds[assigned_reg[v]] # v
     IN  misread' = IF lost THEN misread \cup {v} ELSE misread
  /\ kont' = Tail(kont)
  /\ UNCHANGED <<prog, phase, walked, scanned, top, holds, written, strayed>>

Store ==
  /\ Doing("put")
  /\ LET v == prog[Now.node].sym
     IN  /\ holds' = [r \in Regs |-> IF r = assigned_reg[v] THEN v ELSE holds[r]]
         /\ written' = written \cup {v}
  /\ kont' = Tail(kont)
  /\ UNCHANGED <<prog, phase, walked, scanned, top, misread, strayed>>

FallThrough ==
  /\ Doing("resume") \/ Doing("endswitch")
  /\ kont' = Tail(kont)
  /\ UNCHANGED <<prog, phase, walked, scanned, top, holds, written, misread, strayed>>

(* Where the innermost label of its kind lies. *)
Target(n) == IF prog[n].kind = "break" THEN {"again", "endswitch"} ELSE {"resume"}

BreakOrContinue ==
  /\ Running({"break", "continue"})
  /\ \E i \in DOMAIN kont :
       /\ kont[i].does \in Target(Now.node)
       /\ \A j \in 1 .. (i - 1) : kont[j].does \notin Target(Now.node)
       /\ kont' = SubSeq(kont, i + 1, Len(kont))
  /\ UNCHANGED <<prog, phase, walked, scanned, top, holds, written, misread, strayed>>

(* To a label on a statement of the body of the function itself. *)
Goto ==
  /\ Running({"goto"})
  /\ \E i \in DOMAIN Body :
       /\ prog[Body[i]].kind = "label" /\ prog[Body[i]].name = prog[Now.node].name
       /\ kont' = Code(<<Body[i]>>)
       /\ top' = i
       /\ strayed' = IF i <= top THEN strayed \cup {"goto"} ELSE strayed
  /\ UNCHANGED <<prog, phase, walked, scanned, holds, written, misread>>

Done ==
  /\ phase = "run" /\ kont = <<>> /\ top = Len(Body)
  /\ UNCHANGED vars

Next ==
  \/ VisitLoop \/ LeaveLoop \/ VisitVar \/ VisitAddr \/ VisitOther
  \/ Select \/ Scan \/ Emit
  \/ NextStatement \/ Execute \/ JumpBack \/ Read \/ Store \/ FallThrough
  \/ BreakOrContinue \/ Goto \/ Done

Spec == Init /\ [][Next]_vars

-----------------------------------------------------------------------------
(* The walk and the scan keep their types, and an interval that has begun  *)
(* is not empty and ends no later than the walk has come.                  *)
LocalScanTypeOK ==
  /\ phase \in {"walk", "scan", "run"}
  /\ todo \in Seq(DOMAIN prog \cup {i \in Int : i < 0})
  /\ pseudo_pc \in Nat
  /\ live_start \in [Symbols -> Nat \cup {-1}] /\ live_end \in [Symbols -> Nat]
  /\ \A v \in Symbols : live_start[v] > 0 => live_end[v] \in live_start[v] .. pseudo_pc
  /\ ra_locals \subseteq Symbols
  /\ active_ends \in [Regs -> Nat]
  /\ assigned_reg \in [Symbols -> Regs \cup {NoReg}]
  /\ addressed \subseteq Symbols
  /\ seen \subseteq Symbols \X Nat /\ loops \subseteq Nat \X Nat

(* Every mention of v in the tree comes before every mention of w. *)
Precedes(v, w) ==
  \A m, n \in seen : m[1] = v /\ n[1] = w => m[2] < n[2]

Meet(v, w, loop) ==
  \E m, n \in seen : /\ m[1] = v /\ n[1] = w
                     /\ m[2] \in loop[1] .. loop[2] /\ n[2] \in loop[1] .. loop[2]

(* Two locals share a register only when one is done with before the other *)
(* begins, and no loop mentions both of them: neither straight on nor by   *)
(* the jump back of a loop does the code come from one to the other and    *)
(* back.                                                                   *)
SharersMeetInNoLoop ==
  \A v, w \in Symbols :
    v # w /\ assigned_reg[v] # NoReg /\ assigned_reg[v] = assigned_reg[w] =>
      /\ Precedes(v, w) \/ Precedes(w, v)
      /\ \A loop \in loops : ~Meet(v, w, loop)

(* All that was declared before v takes a word each. *)
BehindWords(v) ==
  \A i, j \in DOMAIN Declared : Declared[i] = v /\ j < i => Words[Declared[j]] = 1

(* Registers go to locals of a scalar type whose address is taken nowhere  *)
(* in the function, before or after the mention, and to no parameter that  *)
(* the prologue stores to the stack, as long as no aggregate of several    *)
(* words stands before it.  Behind such an aggregate the limit of          *)
(* part4.c:3802 is too low, and a parameter does get a register, against   *)
(* "never alloc parameters for safety" (3819).                             *)
OnlyPlainLocalsInRegisters ==
  \A v \in Symbols :
    assigned_reg[v] # NoReg => /\ v \in Scalars \ addressed
                               /\ v \in Params => ~BehindWords(v)

(* A local kept in a register is read with the value last stored to it,    *)
(* however conditions go, as long as the function has not jumped back by a *)
(* goto or evaluated operands in an order other than the walk's.  Nothing  *)
(* loads the register that a parameter behind an aggregate gets: that one  *)
(* is lost.                                                                *)
ReadsSeeTheLastWrite ==
  strayed = {} => \A v \in misread : v \in Params /\ ~BehindWords(v)
=============================================================================
