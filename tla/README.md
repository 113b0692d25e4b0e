# TLA+ models of ZCC

ZCC is a self-hosting C compiler for x86-64. This directory holds TLA+ modules
of the parts of it in which one piece of state is changed from many places in
an order that matters, the TLC configurations that check them on small
instances, and theorems about them that TLAPS proves for every instance.
Every definition is translated from the C source; `PROJECT.json` ("map") names
the lines each one stands for. Line numbers below are those of the source.

1. [The system](#1-the-system)
2. [The modules](#2-the-modules-and-the-code)
3. [The runs](#3-the-runs)
4. [The proofs](#4-the-proofs)
5. [What the models say about the code](#5-what-the-models-say-about-the-code)
6. [What is not modelled](#6-what-is-not-modelled-and-why)
7. [The plan](#7-the-plan)

## 1. The system

`make` concatenates `part1.c`, `part0_pp.c`, `part2.c` ... `regalloc.c` (the
variable PARTS of the Makefile) to one file and links it with the optimiser
passes (PASSES). Nothing runs concurrently: the compiler is one thread that
goes through phases.

    text -> preprocessor -> lexer -> parser -> AST
                                                |-> code generator (direct) ------------> assembly
                                                |-> optimising back end of the AST path -> assembly
                                                `-> IR bridge -> pass manager -> regalloc
                                                                          -> x86-64 lowering -> assembly

What is hard here is therefore not interleaving of threads but state that is
shared by code that does not see each other: the stack of input frames of the
preprocessor, which looking one character ahead changes; flags kept in parallel
arrays across any sequence of directives; static arrays that survive from one
function to the next; pointers into a list from which a later pass frees nodes;
bookkeeping (degrees, probe sequences, scopes) that is updated incrementally
and must equal what a computation from scratch would give; intervals of numbers
that stand for the liveness of values in a graph with loops; and fixed limits
that are met in the middle of an operation.

### Inventory

| Component | State | Operations | What makes it correct | Here |
|---|---|---|---|---|
| Preprocessor, conditional groups (`part0_pp.c` 422-428, 886-960) | `cond_stack`, `cond_satisfied`, `cond_else_seen`, `cond_depth` | `#if` `#ifdef` `#ifndef` `#elif` `#else` `#endif`; `pp_is_active` | exactly the first true branch of each open group is processed; a group does not disturb those around it | modelled |
| Preprocessor, macro expansion (243-330, 1017-1465) | `input_stack` with `pos`, `src`; `active` flag of each macro; `pop_barrier`; output buffer; the C stack of `pp_parse_target_depth` and `pp_expand_ident` | `pp_peek`, `pp_next`, `pp_push_input`, `pp_parse_ident`, `pp_expand_ident` | the output is that of the standard's algorithm; a macro is hidden exactly while its text is read; a call reads its own arguments; expansion ends | partly |
| Preprocessor, directives and macro table (324-347, 544-655, 878-1015) | list of macros with flags; a copy of it for each open header | `#define`, `#undef`, `#include`; the other directives keep nothing | redefinition and removal act on the right entry; a header defines and undefines for the files that include it, and leaves their conditional groups alone | partly |
| Preprocessor, `#if` evaluator (657-876) | position in a string | recursive descent over `long long` | C's value for the expression, short circuits included | planned |
| Memory, types, symbols and scopes (`part1.c`) | arena, hash-chained scopes | push/pop scope, add/find symbol | the innermost declaration is found; leaving a scope restores the outer ones | planned |
| Lexer (`part2.c`), parser (`part3.c`) | position, current token | next token, one function per production | the tree is the program's | no |
| Code generator, direct path: registers for locals (`part4.c` 3685-3905) | an interval for each local, the list `ra_locals`, the end of the last interval in each register | `compute_liveness`, `allocate_registers` | no register is overwritten while a local in it is needed, around loops too; a local whose address is taken stays in memory | modelled |
| Code generator, direct path: the rest (`part4.c`) | registers in use, stack depth | one function per node kind, `push_reg`, `pop_reg` | pushes and pops match on every path; the stack is aligned at calls | planned |
| Driver and assembly peephole (`part5.c`) | lines of assembly | window rewriting | behaviour of the code is kept | planned |
| IR and its bridge (`ir.h`, `ir_bridge.h`, `ir_emit_dispatch.h`, `ir.c`) | node list of each function | constructors | inputs of the next four | no |
| IR optimiser, dominance (`ir_dominance.c`) | one static graph: blocks, edges, dominator sets, `idom`, children | `dom_build_cfg`, `dom_compute_idom`, `dom_build_tree` | the sets are the dominance relation of executions; the tree is one | modelled |
| IR optimiser, value numbering (`ir_pass_manager.c` 540-875, 1016-1043) | table of expressions with a scope stack; the node list | `gvn_walk_domtree`, `gvn_process_block`, the fallback over the list; dce as it bears on them | a copy reads a name that has been computed and still is; nothing is missed on the way down; it ends | modelled |
| its hash table (549-771) | open-addressing table, stack of filled slots, marks | lookup-or-insert, push, pop | a dictionary with scopes | modelled |
| IR optimiser, other passes (`ir_pass_manager.c`) | node list | constant folding, strength reduction, copy propagation, load and store elimination | each keeps the meaning of the function | planned |
| SSA construction and destruction (`ir_ssa.c`) | frontiers, version stacks | phi insertion, renaming, removal | every use reads the definition that reaches it | no, section 6 |
| IR back end, register allocator (`regalloc.c`) | intervals, interference graph, stack of names, colours | `build_intervals`, `chaitin_briggs` | no register is overwritten while its value is needed; cheap names always get one; the result does not depend on array order | modelled |
| IR back end, lowering (`ir_to_x86.c`) | spill slots, frame, scratch registers | one case per opcode | the frame holds what was put there; calls keep what is live | planned |
| Optimising back end: block layout and registers (`compiler_passes.c` 2155-2296, 5917-6130, 6181-6332, 6618-6675, 6861-6929) | frequency and place of each block; `def_seq`, `last_use`; intervals in use | `pgo_reorder_pass`, `ir_asm_number_and_liveness`, `ir_asm_linear_scan`, copies for phis, saving around calls | whatever way the branches go, a value is read from a register that still holds it | modelled |
| Optimising back end: promotion of locals (`compiler_passes.c` 422-580, 1521-2119) | what each register points to; reverse postorder, `licm_idom`, frontiers, children; `repl`; the instructions | `escape_analysis_pass`, `scalar_promotion_pass`, `multi_block_mem2reg_one`, `mem2reg_rename_rec` | the function does what it did: where a local was read, the register that stands for it holds its contents | modelled |
| Optimising back end: the other passes before the layout (`compiler_passes.c`, `compiler_passes_ir.c`) | a second IR in SSA form | lowering, loop-invariant motion, load elimination, folding | each keeps the meaning of the function | planned |
| Analysis passes (`ir_pass_taint.c`, `ir_pass_warden.c`, `ir_pass_healer.c`, `ir_symbolic_cfg.c`, `ir_vuln_tag.c`) | reports | | | no |
| EVM lifter and back ends (`evm_lifter.c`, `ir_to_evm.c`, `ir_evm_stack.c`, `evm_peephole_optimizer.c`) | abstract stack per block | lift, lower, rewrite | stack heights agree where blocks meet | later |
| Rust front end, ARM back end, telemetry, scripts | | | | no |

Interactions that the models follow: text is emitted, names are expanded and
`#define` is obeyed only while `pp_is_active` (the variables of
PPConditional are part of PPDirectives, whose table its conditions ask). The pass manager runs each pass over all
functions before the next (1016), so the graph that value numbering finds is
the one of the last function, and the node list has been through dead code
elimination: ValueNumbering extends Dominance by these steps. Value numbering
stores expressions in the table of ScopedTable. The allocator gets the node
list that the passes leave. Layout, numbering, scan and emission of the
optimising back end are one module, because each relies on the order the one
before leaves; so are the walk over the tree, the scan and the generated code of
the direct path.

`PROJECT.json` lists the hazards, each at its line, and for each the properties
that catch it going wrong or the reason why none does yet.

## 2. The modules and the code

| Module | Models | Composed with |
|---|---|---|
| `PPConditional` | the conditional directives | |
| `PPDirectives` | the macro table, `#define`, `#undef`, `#include` | EXTENDS `PPConditional`, implements `PPDefinitions` |
| `PPDefinitions` | abstract: one history of definitions | |
| `PPExpand` | macro expansion character run by character run | reference algorithm in `MCPPExpand` |
| `Dominance` | the dominance pass | |
| `ValueNumbering` | pass manager order, dce, gvn | EXTENDS `Dominance` |
| `ScopedTable` | gvn's hash table with rollback | implements `ScopedDictionary` |
| `ScopedDictionary` | abstract: a dictionary that restores what it knew | |
| `RegAlloc` | interval construction and Chaitin-Briggs colouring | |
| `LocalScan` | intervals and registers of locals on the direct path, and the run of the code | |
| `Promotion` | escape analysis, dominators and promotion of locals to registers in the optimising back end, and the run of the code before and after | |
| `BlockScan` | block layout, numbering, linear scan of the optimising back end, and the run of the code | |
| `*_proofs` | theorems of the module of that name | |
| `MC*` | constants for TLC | |

**PPConditional.** The four arrays are variables of the same names. One action
per directive; `Ifdef`, `Ifndef` and `If` share `Open` as the code shares its
tail. `AsInt` is the assignment of the `long long` result to the `int` array.
The code's quirks are kept: `#else` is accepted twice, `#elif` after `#else`
skips its line, `#endif` leaves the entry of `cond_stack` behind. The history
variable `branches` records what C needs to say which branch is selected.
`MaxNesting` is the last index of the arrays (63 in the code, which does not
check it; the model stops there).

**PPDirectives.** `macros` is the table of the file that is being read, entries
with their `active` flag as in the code; the four arrays of PPConditional are that
file's. `includers` holds the PPState of each file that waits. A step is a line:
the environment chooses it, in any file, so every source text up to the bounds is
a behaviour. `Include` copies the table and starts fresh groups, `EndOfHeader` is
everything `pp_process_include` does after `pp_parse` returns. The predefined
names and those of `-D` go through `pp_add_macro` like any other: they are the
first `Define` steps. A body is the number that it stands for in a condition, and
a condition is one name; `answer` records what the last look-up said. `crashed` is
the use of the null pointer that a full table returns. A header that is not found
changes a counter that nobody reads, so it is not a step.

**PPExpand.** `frames` is `input_stack` with the current input on top; `pp_peek`
(pop exhausted frames down to the barrier, reactivate their macros) is the
operator `Peeked` with `Reactivated`, and every action that looks at a
character contains it, as every caller does. `mode` says at which read the C
code stands; `calls` is the part of the C stack that matters, one record per
function-like call whose arguments are being expanded (macro, arguments, saved
output, saved barrier, depth of the frame the argument was pushed on). A step is
one character or one action between two reads. A run of identifier characters is
one atom; an identifier is a sequence of them because `pp_parse_ident` reads on
across the end of a frame. `Parameter` is the first parameter of a name, where the
code's search stops. The field `frame` of `call` is history: how many frames there
were when a function-like name was looked up. `RestoredInPlace`, `TextsRemain`,
`NamesEndInside` and `TextsMatched` are conditions on states that the theorems have as
hypotheses (section 4). Left out: strings, comments, the operator `#`,
`defined`, `__attribute__`; directives do not occur inside the text.

**Dominance.** Blocks are numbers, sets of bits are sets, pointers to nodes are
positions in the list. Cutting, wiring, picking immediate dominators and
building the tree have no visible intermediate state and are one action each;
the fixed point is one action per visited block, in place, with the flag
`changed`. `Kept` is what arrays of a fixed size keep. Labels that the code does
not find give no edge. `Dominates` defines dominance by closed sets of blocks and
`Runs`/`RunsWithout` define what executions show, node by node, independent of
the blocks; of the branches they take all (`Branches`), or those at the ends of blocks
(`BlockEnds`), the only ones whose edges the pass wires.

**ValueNumbering.** `stage` is the place of the pass manager: the dominance pass
on this function (the actions of Dominance), the same on the functions after it
(`own` is whether the graph is still this function's), `DeadCode` (nodes that
nobody reads leave `live`), then gvn over the tree (`walk` is the C stack of
`gvn_walk_domtree`, `here` the node pointer of `gvn_process_block`) or the
fallback over the list. If the first node of a block has been freed, the loop takes
it for no expression and goes on by the link that is still in it (`ReadFreedNode`), or
the allocator has written over the link and the process ends
(`FollowOverwrittenLink`; section 5). The pipeline is that with
`ZCC_OPT_MEM2REG=0`, without the SSA passes.

**ScopedTable.** Slots, keys, the stack of filled slots and the marks as in the
code. The 64-bit hash is the slot it selects; a clash of the hash is decided by
the comparison of the five fields as in the code. The refinement mapping reads
the dictionary off the stack: `known` is the pairs of all stacked slots, `saved`
those below each mark.

**RegAlloc.** A name `%tN` is its place in the order of `strcmp`; arrays over
intervals are functions on names. One action per iteration of the outermost loop
of each phase. Ties are broken by name in the code, so each choice is
deterministic here too. `SpillScan` is the scan for the spill candidate, a fold over
the interval array in any order, and is compared with the total order
`SpilledBefore` the action uses. Left out: `used[]`, which mirrors
`assigned`, and the growth of the interval array.

**LocalScan.** A function is the table of its syntax-tree nodes; the fields of a
node are those of `struct Node`. `todo` is what the recursion of
`compute_liveness` has still to visit, and an entry `-n` in it is the end of
loop n, where the intervals of the locals on the list are widened over the loop.
`live_start` is 0 before the first mention and -1 once the address is taken, as
in the code. `Select` filters the list, `Before` is the order of the sort, `Scan`
gives one local a register or none. Then the code runs: `kont` is what is
left to execute of the tree as `codegen_stmt` and `codegen_expr` emit it,
conditions go either way, a `switch` is a jump to one of its labels. A goto goes
to a label of the function's own body. `Offset` puts the locals where the
parser does (`scope_add_local`), each behind all declared before with as many words
as it needs (`LaidOut`), and `InParamSlot` is the test of the code, which takes a
parameter for one word. `return` is left out: what a
function does before it is a prefix of what it does without it. `addressed`,
`seen` and `loops` record what the tree says, `misread` which locals were read
with another's value, and `strayed` the two things the scheme does not
provide for (section 5). `ProgramsAssumption` says what the parser guarantees of
a table: pointers lead to nodes of it, a mention has its symbol, a `switch` has a
body, a loop no list of statements, a number no operands; it need not be a tree. With `backend_ops` set there are four registers
instead of five and nothing else differs.

**Promotion.** A function is a sequence of blocks; a local is the register of its
alloca in the entry, where `get_or_create_var` puts all of them, each with a register
of its own (`next_reg++`, 2478). `Analyse` is the
whole of escape analysis, `Expand` and `Leave` are one turn each of the search
that gives the reverse postorder, `Sweep` is one round of `licm_compute_doms`.
Then the locals are taken one by one: `PassOver`, or `Walk` and `Rewrite` when
all accesses are in the entry, or `PlacePhis`, `RenameTree` and `Rewrite`. The
stack of renaming is read off the tree: its top at the start of a block is the top
at the end of the block above. `repl` is shared by all locals of the function, as
in the code, and `Rewritten` replaces by one step. What is unlinked leaves `Gone` in
its place, so an instruction keeps its position and the two versions can be
executed in step: `before` and `after` are their registers, `memory` holds the
locals of the first, and `wrong` collects the registers that were read, or copied
to a phi, and did not hold what they should; there the execution stops. A read of
an uninitialised local may give anything. A load and a store have the width of the
lowering (`imm`): a store puts that many bytes in memory, a load extends that many
(`Extended`), and what replaces a load is the whole register, as in the code. The
history `cut` records the locals that have returned something else than was last
stored in them. What an instruction computes is any number, the
same in both versions. Address arithmetic on locals (`OP_GEP`) is left out.

**BlockScan.** A function is a sequence of blocks in SSA form. `Propagate` is the
whole of `propagate_exec_freq`, three sweeps over the blocks; `ExtendChain` and
`StartChain` place one block each. `NumberInstr` is one instruction of the
numbering; `FixPhis` and `FixLoops` are the two repairs behind it, for phis and
for loops; `Scan` is one interval. An interval that has ended leaves `active` and
the value keeps its `phys_reg`, as in the code. A value without a register has a
slot of its own. The run follows any branch: a phi is copied at the end of the
edge, all sources first; a call saves the caller-saved registers that `Saved`
finds in use. What an instruction computes is left out: `holds` says which
value was last written to a register, and `lost` collects the values that were
read after another had replaced them. Blocks that cannot be reached are neither
laid out nor numbered in the code, and are not in the model. No block is its own
successor; the lowering makes none. `SSAAssumption` is what the passes before the
layout deliver: one definition of a value, used behind it in its block, the phis
first and with a source for every predecessor.

A definition whose comment begins with "Mutant" is a plausible mistake in the
definition below it, used only to show that a property notices it.

## 3. The runs

| Run | Instance | Result |
|---|---|---|
| `pp_conditional` | groups nested three deep, up to four branches, expression values 0, 1, 3 | `TypeOK`, `ActiveIffSelected` hold; 89,240 states |
| `pp_directives` | a file and two headers inside each other, two names, two bodies, two entries in the table, one level of groups | `TableTypeOK`, `TablesAgree`, `ImplementsDefinitions` hold; 480,944 states |
| `pp_expand` | some 5,400 programs: object- and function-like macros, mutual and self reference, nested calls, pasting, unclosed calls, five frames filled and overfilled | types, `HiddenWhileOnStack`, `OwnNameIsHidden`, `ScanResumesBehindName`, `OutputIsStandard`, `ArgumentStaysInside`, `ExpansionEnds` hold; 75,569 states |
| `regalloc` | some 20,000 straight-line functions over five names of one or two classes, two and one registers | `TypeOK`, `ValueSurvives`, `LowDegreeIsColored`, `SpillChoiceIsCanonical` hold; 532,227 states |
| `gvn` | some 15,000 functions of an entry and up to three labelled blocks, every way to end a block, if, if-else and loops as the bridge lowers them, branches in mid-block, two expressions, nodes that dce frees, one function with too many blocks | the properties of Dominance and of ValueNumbering hold; 600,341 states |
| `dominance_midblock` | if, if-else and loops as the bridge lowers them | `DominanceIsExecutionAlways` violated |
| `scoped_table` | three slots, four keys that share homes and wrap around, three scopes | `TypeOK`, `EverythingFindable`, `ImplementsDictionary` hold; 28,896 states |
| `localscan` | some 8,300 functions over two locals, an aggregate, and parameters before and behind it, one register, two entries in the list | `LocalScanTypeOK`, `SharersMeetInNoLoop`, `OnlyPlainLocalsInRegisters`, `ReadsSeeTheLastWrite` hold; 397,974 states |
| `blockscan` | 3,936 functions of up to eight blocks and eight values, three registers of which one is caller-saved | `BlockScanTypeOK`, `NoDefinitionBetween`, `LoopValuesKept`, `OnlyExposedLost` hold; 144,931 states |
| `blockscan_lost` | a loop in an else branch, the odds as the lowering gives them | `NothingLost` violated |
| `promotion` | 2,380 functions of up to eight blocks over two locals, with copies between them, values used in other blocks, chars, addresses taken and selected; phis of two sources, four children, frontiers of two | `PromotionTypeOK`, `IdomExact`, `OnlyRemovedWrong`, `SimpleFunctionsAgree` hold; 795,460 states |
| `promotion_escape` | a local whose address goes through another local | `PassedStaysInMemory` violated |

What the properties say:

* `ActiveIffSelected`: text is processed iff it is in the first true branch of
  every open group, whatever the groups inside and around it do.
* `ImplementsDefinitions`: to the lines of all files together, the tables that are
  copied and copied back are one history of definitions and removals, and every
  condition is told what it says. `TablesAgree`: an index means the same entry in
  the tables of all open files, on which the copying back relies.
* `OutputIsStandard` compares the final text with a separate recursive
  definition of the hide-set algorithm on tokens (`Expand` in `MCPPExpand`), for
  balanced texts and up to white space. `HiddenWhileOnStack` ties the flags to
  the frames at every step. `ArgumentStaysInside`: while an argument is
  expanded, the frame below the barrier does not move.
* `ValueSurvives` is stated on the node list: between two mentions of a name no
  other node writes its register. Intervals, graph, coalescing and colouring all
  have to be right. `LowDegreeIsColored` is the Chaitin-Briggs guarantee and
  rests on the incrementally kept degrees.
* `DominatorsExact`, `ImmediateIsClosest`: the fixed point is the dominance
  relation of the graph, and the immediate dominator its closest member.
  `DominanceIsExecution`: on every run that takes no branch from the middle of a
  block, a dominating block has been executed to its last node whenever control
  arrives; `DominanceIsExecutionAlways` says it of all runs, and is violated.
* `CopiesAreComputed`: a copy reads from a node that still computes the same
  expression and has been executed on every run that arrives: on all runs where the
  list was scanned, and where the tree was walked on those that take no branch from the
  middle of a block.
  `TableIsTheWayDown`: the table holds what the blocks on the way down have put
  in, no more and no less. `NothingComputedTwice`: no redundancy is missed.
* `ReadsSeeTheLastWrite` compares, at each read of a local in a register along
  each execution, the register's content with the last value stored; it is about
  executions, where the walk only sees numbers. `SharersMeetInNoLoop` is the
  reason: two locals in one register are mentioned one after the other and never
  in one loop. `OnlyPlainLocalsInRegisters`: the mark that a local's address is
  taken survives the widening of intervals, whatever comes first, and a parameter gets
  a register only behind an aggregate of several words (section 5). The exception is of
  the words that were declared (`BehindWords`), not of the slot the code computes.
* `OnlyExposedLost`: along every path a value is read from a register that still
  holds it, or it is one of three kinds named by `Exposed`: the layout has put a
  block into which it is live before the one that defines it, or it is copied
  to a phi behind all else that mentions it, or it is a phi and the interval of
  one before it in its block ends before its own begins. The scheme is right for
  every other value, so a repair has to treat these three kinds and no more.
  `NoDefinitionBetween` and `LoopValuesKept` are what the scan and the repair for
  loops guarantee in terms of numbers.
* `OnlyRemovedWrong`: along every path, an inserted phi holds what its local
  contains where it stands, and what is read instead of a local is its contents, as
  long as what is stored fits (`ValuesFit`: no promoted local has returned something
  else than was last stored in it; for what happens otherwise see section 5).
  All that can be wrong is a register whose definition promotion has removed. So phi
  insertion and renaming are right; replacing the uses is what is not complete. This
  holds where no local holds the address of another that is copied, as in the
  programs of the run; section 5 says what happens otherwise.
  `SimpleFunctionsAgree` says for which functions it is, again as long as values fit:
  locals are only loaded and
  stored, a loaded value is used in its own block, no local is copied to itself by
  way of others, and none that is local to the entry is copied to one that is not.
  Each of these conditions is needed: without any one of them the run fails.
  `IdomExact`: the rounds in reverse postorder end with the immediate dominators,
  for loops with two entries as well.

**Bounds.** Three nested groups give a group with one inside and one around it;
the code treats all levels alike, and the theorem removes the bound. Four
branches allow `#if #elif #else #elif` and a second `#else`. Two entries in the
table are one name redefined, an older definition uncovered, an entry of the
header behind one of the includer, and a table that is full; two headers let a
removal travel through a file that has no part in it. Texts of up to five
atoms and the tables of `MCPPExpand` contain a call in a replacement text, in an
argument, across the end of a frame, and one that is hidden; five frames are
reached and exceeded at each of the three places that push. Two registers and
five names force simplification, optimistic colouring and actual spills in both
classes. Three labelled blocks give every kind of loop, diamond, irreducible
cycle and dead block; `MaxBlocks = 4` is one below what the largest function of
the run needs. Three slots and four keys make the table full and wrap around.
`IntModulus = 4` stands for 2^32 and the values keep a low bit (section 5).
`MaxOut` cuts no program of the passing run. Two locals and one register make
every pair of locals compete; the list of two entries is full when the parameter
comes third; loops of each kind, nested and left by `break` or `continue`, are
entered more than once because nothing bounds the run. In `blockscan` the
branches get odds of 1, 5 and 9 in ten: 5 is what the lowering gives an if, 9 a
loop, and a profile any. Three registers run out in each of the families of
functions, and the caller-saved one is in the middle, as r10 and r11 are. The
functions contain no dead values, since the passes before remove them.
Frequencies are whole numbers with `One = 1000000`: no more than six branches
follow each other in three sweeps, so the division by ten is exact and ties are
those of the code.
In `promotion` a phi has room for two sources, the list of children for four and that
of a frontier for two, where the code has 32: graphs with three predecessors, with
five children and with three nested do-while loops exceed them, and the properties
are stated for those within (`WithinLimits`). The stack of the search has
`MaxBlocks = 32` entries, where the code has 8192; the guard `top + 1 < MAX_BLOCKS`
(449) never fails as long as there are fewer branch targets, which
`SearchStackAssumption` says. Numbers are 44 and 300: what a char makes of 300 is 44. Three places
of each graph take every combination of seven bodies, among them a store, an
update, and copies in either direction, so a value needs a phi at one join, at
several, or at none.

**Scope of `gvn`.** Functions with branches in mid-block are in the run, lowered as the
bridge does it and in other places; on them `DominanceIsExecution` and the tree part
of `CopiesAreComputed` speak of the runs that do not take these branches, since that
is all the graph knows of (section 5).
Where the tree is walked, `CopiesAreComputed`, `TableIsTheWayDown` and
`NothingComputedTwice` are stated where dce has not freed the last node of a block
(`EndsKept`): past a freed one the loop over a block runs on. That the loop stays in the
block while the node that stops it is in the list, whatever else has been freed, is
part of `GvnTypeOK`.

**Fairness.** `FairSpec` of PPExpand and `GvnSpec` assume weak fairness of the
step of the program: the compiler is one thread that takes its next step as long
as it has one. Nothing else is assumed. The other passing runs check safety only.
Deadlock is checked in all passing runs: the end of a run is an explicit
`Terminated` or `Finished` step, or the function's return, so a state without a
successor is an error.

## 4. The proofs

All proofs hold for every value of the constants that satisfies the named
assumptions (`...Assumption` in the modules), which TLC evaluates in the runs.

| Module | Theorem | Says |
|---|---|---|
| `PPDirectives_proofs` | `TypeCorrect`, `FlagsFollowBranches`, `TextFollowsConditions` | of the conditional groups: `ActiveIffSelected` for every nesting bound and number of branches, if no condition is truncated to zero |
| | `TablesTyped`, `TablesStayAligned`, `CopiedTablesAreOneHistory` | the properties of `pp_directives` for every set of names and bodies, table size and depth of inclusion |
| `PPExpand_proofs` | `HiddenExactlyOnStack` | `HiddenWhileOnStack` for every macro table, every text, and every depth of the stack |
| | `OwnNameStaysHidden` | for every table, text and depth: `OwnNameIsHidden` at every look-up before which no text that the name began in has been dropped (`TextsRemain`) |
| | `NamesAreLeftBehind` | for every table, text, depth and history: `ScanResumesBehindName` whenever the search for a parenthesis ends in the frame it began in (`RestoredInPlace`) |
| | `TypesHold` | `TypeOK` for every table, text and depth, as long as that is so of every search |
| | `ArgumentsStayInside` | `ArgumentStaysInside` for every table, text and depth, as long as `RestoredInPlace`, `NamesEndInside` and `TextsMatched` |
| `RegAlloc_proofs` | `TypeCorrect`, `ValuesSurvive`, `CoalescingIsIdle`, `SimplifiedGetRegisters` | `TypeOK`, `ValueSurvives` and `LowDegreeIsColored`, and that nothing is coalesced (`NothingCoalesced`), for every function and every number of registers |
| | `SpillChoiceCanonical` | `SpillChoiceIsCanonical`: the candidate is the same for every order of the interval array |
| `ValueNumbering_proofs` | `TypeCorrect`, `FixedPointExact`, `SweepsShrink`, `ImmediateDominatorClosest` | of the graph: `DominatorsExact`, that no visit adds to a set (`SetsShrink`), and `ImmediateIsClosest`, for every function and every limit |
| | `ClimbingIsDominance` | `DominanceByClimbing`: from a block the graph leads to, going up `idom` ends and comes by its dominators, no more and no less, for every function and every limit |
| | `DominatorsExecuted` | `DominanceIsExecution` for every function whose labels are unique (`LabelsUnique`) and whose predecessors fit (`PredsFit`), wherever its branches stand |
| | `NumberingTyped`, `TableHoldsTheWayDown` | `GvnTypeOK` and `TableIsTheWayDown` for every set of functions and every limit |
| | `CopiesReadComputed` | `CopiesAreComputed` for every set of functions, wherever their branches stand: when the graph is the function's own it needs `LabelsUnique` and `PredsFit`, and dce has to leave labels (`LabelsStay`) |
| | `NothingLeftTwice` | `NothingComputedTwice` for every set of functions whose trees fit the arrays of children (`ChildrenFit`) |
| | `NumberingRunsOut` | each step of the passes leaves less to do (`StepsRunOut`): none of their loops, sweeps and walks is endless, for every set of functions and every limit |
| `LocalScan_proofs` | `TypeCorrect`, `SharersApart`, `OnlyPlain` | `SharersMeetInNoLoop` and `OnlyPlainLocalsInRegisters` for every function, number of locals, registers and length of the list |
| | `ReadsAreFaithful` | `ReadsSeeTheLastWrite` for the same functions and every execution of them |
| `Promotion_proofs` | `PromotionKeepsTheRest`, `EscapingStaysInMemory` | promotion removes loads, stores and allocas and nothing else, and never the alloca of a local that escapes or of a parameter, for every set of functions and every limit |
| | `DominatorsFound`, `PromotionTyped` | `IdomExact`: the rounds end with the immediate dominators of every graph; `PromotionTypeOK`, with it that no inserted phi takes a register that is in use |
| | `PhisSufficient` | `PhisSuffice`: within the limits on predecessors, children and frontiers (`WithinLimits`) renaming comes to every block, and on no way into a block without a phi does it carry a value that is not the one the way brings, for every graph |
| `BlockScan_proofs` | `TypeCorrect`, `RegistersExclusive`, `LoopValuesStay` | `NoDefinitionBetween` and `LoopValuesKept` for every function, odds and number of registers |
| | `NumbersHold`, `NotExposedNotLost` | `OnlyExposedLost` for every function in SSA form, odds and number of registers, and what the numbers, intervals and phi sources have to do with the layout |
| `ScopedTable_proofs` | `TypeCorrect`, `RollbackKeepsFindable`, `RollbackIsComplete`, `TableRefinesDictionary` | the table implements the dictionary for every size, hash and set of keys |

The arguments:

* **Conditional groups.** `ActiveIffSelected` alone is not inductive: it does not
  say what `cond_satisfied` records, which decides the next `#elif`. `IInv` adds,
  group by group, that `cond_stack` says whether all branches up to here are
  selected and `cond_satisfied` whether some branch of the group was true while
  the groups around it were selected. Groups below the top are carried over by one
  frame lemma. The hypothesis `NoTruncationToZero` is needed (section 5).
* **Nested tables.** Only the end of a header is difficult: the table is put
  together from the includer's entries, the header's new ones and the header's
  flags. `TablesAgree` says that this is the header's table again
  (`HeaderTableStays`), so the step is a stutter of the history. The look-up is a
  choice of the greatest index, which exists because the set is finite
  (`Greatest`), and is the latest definition in force (`LatestFound`).
* **Macro expansion.** `HiddenWhileOnStack` is not inductive at one place: a
  function-like macro is looked up when its name is read and hidden when its
  arguments have been expanded, and these may invoke and hide the same macro.
  `ExpandInv` adds that the frames of a call under way lie at or below the frame
  the barrier protects and that its macro is not among them (`Below`), that
  barriers and depths of suspended calls fit into each other (`Nested`), and that
  the innermost call's macro is visible whenever its text may be pushed
  (`Innermost`). Reading only cuts the stack above the barrier (`ReadCuts`,
  `CutsKeep`), and the drain at the end of an argument cuts exactly what may hide the
  macro. What a text is does not matter to the proof, nor where in it a frame
  stands, so the programs `pp_expand` leaves out are covered.
* **Names at the end of a text.** Every read peeks, and peeking pops what has run out:
  what goes wrong with names does so where one ends the text it is in. Whether a run
  gets there depends on what is expanded where, so the hypotheses are about what
  happens in a run, not about tables: nothing is assumed of how a replacement text or an
  argument ends, and tables such as `#define __inline__ inline` are covered.
  `OwnNameStaysHidden` says that dropping the text a name began in, between its first
  character and its look-up, is the only way to have it replaced by a macro it comes from:
  `HiddenWhileOnStack` gives it as long as the texts remain. `ListInv` says
  that texts, arguments and output are lists, whatever a table puts in them, and
  follows a function-like name to the parenthesis behind it: while the frame it was
  read from is the current one only blanks have been read since, and once that frame is
  gone the stack stays below it (`LeftBehind`). So where the search ends with as many
  frames as it began with, it ends in the same frame (`NamesAreLeftBehind`), and no
  position ever leaves its text (`AllPositioned`, `TypesHold`). Both events are needed:
  TLC finds `OwnNameIsHidden` violated with `#define g g`, `ScanResumesBehindName` with
  `f` and a blank for g, and a position outside its text with `1+1+f` and a blank
  (section 5).
* **The scan of an argument.** What keeps it from running on into the text behind the
  call are parentheses. `InsideInv` counts them: what the output of the scan leaves open
  (`Height`), and the level of a call being read, add up to what the frames above
  the one the argument was pushed on have opened so far (`InnerSum`), and the scans that
  wait for an inner one are in balance in the same way (`OuterSums`). Every step moves
  both sides alike: a read by the character read (`ReadOpens`), a name that is no
  invocation by nothing, since only blanks are read again (`RestoreMoves`), a push by
  nothing, since what is pushed closes what it opens, also after the arguments are in
  (`SubstitutedWhole`, by induction over the list that is put together). A call being
  read therefore still has its closing parenthesis in these frames. A name that comes
  to their end is not continued by what lies below (`InsideIdent`). So wherever the
  code reads, it reads above that frame (`StaysInside`, `NotLeft`). The hypotheses are
  again on what a run does: `TextsMatched` of the replacement texts on the stack,
  `NamesEndInside` of what stands behind a call whose argument ends in a name, and
  `RestoredInPlace`. Each is needed: TLC finds `ArgumentStaysInside` violated in runs
  with the other two, `TextsMatched` dropped with `#define g f(` and the text `f(g)()`,
  `NamesEndInside` with `f(f)()`, `#define g f` and `f(g)()`, or `f(g)a`,
  `RestoredInPlace` with `f` and a blank for g and `f(g)+1`. The programs of
  `pp_expand` meet all three in every state, but for the one table with `#define g f(`.

* **Allocation.** `IInv` says in turn: numbered nodes lie in the intervals of the
  names they mention; the graph is the overlap graph and every name its own
  representative; colours differ along edges among popped names; registers of
  overlapping names differ. Closed intervals make the two names of a copy overlap,
  so `NeverMerges` shows that the coalescing loop does nothing, and the rest of
  the proof does not need merged names. `BriggsInv` adds that the degree of a
  name that is left is the number of its neighbours left, and that a name pushed
  at low degree has fewer than K neighbours below it on the stack; counting
  (`FreeColors` is not empty) uses the theorems about finite sets. The spill scan
  keeps the better of two candidates at each step; priorities compared by
  cross-multiplication, ties by name, are a total order on the names that are left, so
  what a fold keeps does not depend on the order it visits them in.
* **Fixed point.** Dominance is defined by sets closed under the edges, so no
  induction over paths is needed. `Complete` (a set never loses a real dominator)
  holds in every state; `Settled` (what a sweep without a change has visited
  satisfies its equation) holds at the end, and then the blocks whose set lacks d
  are closed without d. `SweepsShrink` needs `Descending`: no set is smaller than
  its equation allows.
* **Chains of dominators.** `ImmediateIsClosest` says that the block with the
  largest set is dominated by all others. Two dominators of a block dominate one
  another (`DominatorsExact` and a set that avoids both), so sets along the chain
  grow strictly, and the largest belongs to the closest. Its set is the block's without
  the block (`UpFacts`), so the climb of `dom_dominates` takes the dominators off one by
  one and is through before the blocks are.
* **Graph and executions.** `Runs` is a least fixed point, given by a recursive
  function; `LeastNumber`, the least-number principle derived from well-founded
  induction, replaces induction over it. A node of the list is run exactly if its
  block is reached in the graph, by the branches at the ends of blocks. A run that avoids a node of
  a dominating block stays in a set of blocks that is closed without it
  (`NoWayAround`), and so never comes to what it dominates, unless it takes a branch from
  the middle of a block (section 5). Labels have to be unique, which they are as the
  lowering numbers them, and no predecessor may have been dropped (`PredsFit`; the array
  has 32 entries).
* **Numbering.** `GvnInv` says that the walk is a path of the tree (`OnPath`) whose
  blocks have not been entered from elsewhere (`Apart`): the graph may be another
  function's, so nothing about the code is needed. `TableInv` says that the scopes
  lie on each other as the blocks do (`Stacked`), that an entry lies in the scope of
  its block (`Placed`), and that what has been passed is in the table (`Filled`).
  `CopyInv` adds what a copy reads: an entry earlier in the block or in a block that
  dominates it, which by `NoWayAround` every such run has executed. The scan of the
  list, used if there is no graph, empties its table at labels, hence `LabelsStay`
  (`ir_pass_manager.c` 52-60 keeps them). `CompleteInv` says that the blocks behind
  which the walk has gone hold no repetition.
* **The end of numbering.** `Left` is a tuple of five numbers. In the dominance pass
  they are the stage, the phase, the members of all sets (`SetPairs`), whether another
  sweep is due, and the blocks left in this one: a sweep that is repeated has taken
  something from a set, since none grows (`Descending`). In the walk they are the stage,
  the blocks that still hang below the activations (`ToCome`, which needs `Apart`), the
  activations, and the nodes ahead. Every
  step lowers the tuple in the lexicographic order, in which nothing descends for ever.
  That is what `NumberingEnds` needs besides its fairness. A freed node leads to the one
  that followed it in the whole list, or the process ends.
* **Table.** Findability is not inductive: emptying a slot could cut a probe
  sequence. `Chain` says that the slots probed before the one an expression went
  to were filled earlier, so they are on the stack below it and are emptied later.
  `Stacked` and `Distinct` give `RollbackComplete` by counting. Every action of
  the table is an action of the dictionary under the mapping.
* **Registers of locals.** `MentionsCovered` says that an interval contains the
  mentions of its local, `LoopsCovered` that an interval which meets a closed loop
  contains it, and `WalkInv` that a local which is not on the list has no interval
  unless the list is full, so that nothing misses the widening. `ScanInv` says that
  intervals in one register follow each other; two intervals that touch do so
  at one number, which belongs to one mention. That two locals never meet in a
  loop follows: the intervals of both would contain it.
* **The run of locals.** The walk sees numbers, the run sees nodes, and a node may be
  reached more than once. A trail (`Trail`) says which node was visited at each
  number and how much was left to visit behind it; from that, the parts of a
  node were visited one after the other (`WalkedOver`), and all that hangs below
  a loop in its interval. `Placing` gives each entry of `kont`, and each statement
  of the body still to come, a visit: what comes later was visited later, or both
  lie in one loop (`Follow`). The code of every kind of node is so placed on its
  parts (`Unfolds`); reordered operands are the ones `strayed` marks. `RunInv` says
  that once a local has its register, what precedes it there is no longer
  reached (`DoneWith`), and that a local is lost only to one that it precedes
  (`LostToLater`). A read of a lost local would be reached, which contradicts the
  first; `SharersMeetInNoLoop` gives both after a jump back. A `break`, a `continue`
  and the labels of a `switch` drop entries, which disturbs nothing.
* **Block layout and registers.** `NumberInv` says that no two values are defined
  at one number and that `last_use` is no earlier than any mention; the two
  repairs only raise it. `LoopInv` says what the second achieves. `ScanInv` is one
  sided: of two values in a register the later starts behind the end of the
  earlier. It needs that intervals are scanned in the order they start and that
  one which is no longer active ends before those still to come.
* **The run of the code.** `NInv` ties the numbers to the layout: a value's number is
  that of the place that defines it, the numbers of a block lie together, the places
  passed are mentioned, and the repairs have reached their phi sources and the
  values that enter loops. `LiveInto` is a recursion over the blocks; it stands still
  after as many rounds as there are blocks, since every round before adds one
  (`LiveClosed`), and what it ends with is the least such set (`LiveLeast`). With
  both, `NeededInside` says that the interval of a value that is not exposed
  contains every place behind which an execution may still read it: inside its own
  block, in a block laid out behind it, or around a loop whose header it enters
  (`ReachesLiveBlocks`, `ReachesCopies`). `RunInv` then says that what is needed from
  here on is still in its register: whoever is written here has its definition
  here, and `NoDefinitionBetween` keeps it out of the register. The copies at the end of
  an edge are the one place where several values are written at once, hence the third
  kind of exposed value. The proof does not assume that uses are dominated by
  definitions.
* **Promotion.** `CodeInv` says that each place has its instruction or nothing, that
  nothing changes before the analysis is through, and that a local that is being
  renamed or rewritten has passed its test (`Chosen`). `Rewrite` is the only step
  that changes instructions (`RewriteCode`): rewriting keeps what an instruction
  does and defines (`RewrittenKeeps`), so what goes is an access of the chosen local.
* **Immediate dominators.** The search puts every reachable block in the order once
  (`OnceEach`), pushed by one that comes before it or is still open (`Pushers`), and
  forgets no successor (`Remembered`); so a block that
  dominates another comes before it in the order (`DominatorFirst`). The rounds keep a tree
  in which a block hangs on an earlier one that all its other dominators dominate
  (`TreeInv`). `Intersect` climbs to a block that is above both and is dominated by
  whatever dominates both (`InCommon`). In a round without change each block hangs
  above all its predecessors, so no path leads around what it hangs on
  (`ExactFacts`). Nothing is assumed of the graph, which may be irreducible.
* **Types of promotion.** A phi gets the next register, counted by the blocks placed
  before it (`FreshReg`); counting shows that no two are the same and none is in
  use. Renaming is a recursion down the tree of dominators, and what it puts in for a
  load is a register of the function, by the order in which the blocks are left.
* **Enough phis.** `PhiInv` says that no local comes up twice and that the phis of the one
  being renamed stand exactly at its iterated frontier. On the way from the end of a
  block b up the tree to the block that t hangs on, t a successor of b, every block has t
  in its frontier (`Runners`). If t has no phi, none of them needs one, so none stores to
  the local or has a phi, and the top of the stack is the same all the way (`SameTop`, by
  a least block in the order at which it is not): what renaming finds at the start of t
  is what b ends with. `RenamedFacts` says that the walk comes to every block, which is
  where the room for children is needed; phis with too many predecessors and frontiers
  of more blocks than their list takes (`ListsComplete`) are the other reasons for
  `WithinLimits`. TLC finds `PhisSuffice` violated when the frontier is not
  iterated, and when `WithinLimits` is dropped; it holds in all states of `promotion`.
  This is the part of `OnlyRemovedWrong` that concerns where phis stand; what they
  hold along an execution, and the uses that are replaced, stay with TLC.

**Model-checked only.** Liveness (`ExpansionEnds`, `NumberingEnds`) and anything
that needs ENABLED. Of PPExpand: `OutputIsStandard`, whose reference is a recursive
operator. `OnlyRemovedWrong` is violated by some functions (section 5).
`SimpleFunctionsAgree` would need an invariant that relates the rest of an execution
to the graph.

## 5. What the models say about the code

Three runs end in a violation; each is a finding in `PROJECT.json` with the lines.

1. `dominance_midblock`: the comments of `ir_dominance.c` (109-113, 130) say that a block
   starts behind every branch; the code opens one at a label only (131-135), and takes
   edges from the last node of a block (172-205). The bridge puts a branch in mid-block
   for every if, loop and switch (`part4.c` 3374, 3415, 3451, 3542-3580), so its edge is
   missing, and the then-part is said to dominate what follows. Value numbering may then
   copy, at the join, from a name that was computed in the then-part only;
   `CopiesAreComputed` speaks of the runs without such branches for that reason.
2. `blockscan_lost`: the layout can put a loop before its preheader. A value
   hoisted there then has an interval of one point, and its register is given
   away inside the loop. A loop in an else branch is enough.
3. `promotion_escape`: storing the address of a local in another local is no escape,
   and what is loaded from there points to nothing. The first local is promoted
   although a call receives its address; the store of the address then names a
   register that nothing defines. `courtroom/repro_mem2reg.c` (13) says what must
   not happen, and its functions crash or return 0 when they are compiled this way.

More disagreements are visible in the models and have no run of their own:

* A value that is needed after a call can be kept in r10, r11 or an xmm register:
  `gpr_colors` and `xmm_colors` (`regalloc.c` 260) are offered to any interval, and
  lowering (`ir_to_x86.c` 524-537) saves none of them. Six values kept across a
  call are enough; `regalloc.h` 16 calls these registers "safe within fn".
* `part4.c` 3819 says "never alloc parameters for safety", but parameters are told by
  their offset at eight bytes each (3802) and an aggregate takes its size; one behind it
  gets a register that nothing loads, since the prologue stores it to the stack
  (4028-4067). The functions `Parameters` of `MCLocalScan` contain such reads:
  `OnlyPlainLocalsInRegisters` and `ReadsSeeTheLastWrite` except parameters behind an
  aggregate of several words (`BehindWords`), and without the exception the run
  violates both.
* Promotion ignores widths. A store puts the low bytes of a register in memory, and a
  load extends them (`compiler_passes.c` 6576-6617); what replaces the load is the
  register (1801-1816, 1918-1927). After `int x = 300; char c; c = x;` the value of c
  is 44 before promotion and 300 after it, since the lowering passes over casts (3359).
  The same goes for an int that overflows, for a compound assignment, which moves eight
  bytes whatever the type (4347, 4395), and for two locals of one name and different
  types, which share a slot (2456-2469). `ValuesFit` excludes these runs of the
  functions `Chars`; without it `promotion` violates both properties.
* A local whose accesses are all in the entry is replaced in the entry only
  (`compiler_passes.c` 1822); a value loaded there and used in another block, as
  the left operand of `x + (k ? 1 : 4)`, is lost. Without `LoadsStayHome` the run
  `promotion` shows it, and compiled code returns garbage.
* Replacement goes by one step (2070), and the value that stands for a load may be a
  load that is being removed itself: `x = y; y = x; n = y`, or `y = x` where x is
  local to the entry and y is not. The last two conditions of `Simple`.
* `sink(c ? &x : &y)`: the comment on a phi that may point to either says
  "conservative: mark escape" (1570), but it is only marked as pointing nowhere (1580),
  so neither local escapes.
* A removed store may not have been one. With X and Y used in another block as well,
  let the entry store &Y in X, load r4 from X, store r4 in X, load r5 from X and
  store r6 through r5. Promoting X replaces r5 by r4, one step of two; when Y is
  rewritten, the list still says that r4 stands for &Y, and the store through r4 is
  removed as if it were one to Y, which renaming has never seen. A later read of Y is
  given the value before. `OnlyRemovedWrong` fails for such functions, and for a
  local that holds its own address.
* A block with more than 32 predecessors gets no phi (2029), a block of the tree
  with more than 32 children loses the rest (1883), and a block with more than 32
  others in its frontier drops them (539, 570). With the limits two, four and two the
  run violates `OnlyRemovedWrong` where it is not restricted to `WithinLimits`; a loop
  with 34 breaks, compiled, returns a stale value.
* With `#define g g` the text `g ;` is expanded without end: `pp_parse_ident`
  looks one character behind the name, `pp_peek` pops the exhausted frame and makes
  `g` active again, and only then is `g` looked up. The comment at
  `part0_pp.c` 1385 calls this "Standard C preprocessor hide-set logic". As a program
  of `pp_expand` it violates `OwnNameIsHidden`.
* The barrier "before pushing arg stream" (`part0_pp.c` 1252) is one frame too low; a
  function-like name at the end of an argument finds its parenthesis behind the
  call. With `#define f(x) x+1` the text `f(f)(2)` violates `ArgumentStaysInside`.
* dce frees nodes the graph points to (`ir_pass_manager.c` 141). A freed node that is the first of a
  block usually leads on: its opcode is overwritten, its link still the one it had. The
  allocator keeps seven freed nodes of a size that way; from the eighth on the link
  holds a size, and following it ends the process (`FollowOverwrittenLink`). If the
  freed node is the last of its block, nothing stops the loop over the block, and it
  numbers the blocks behind with the names of this one: hence `EndsKept`.
* The blocks of an unreachable loop get each other as immediate dominators;
  following `idom` from one of them never ends (`IdomIsTree`).
* A goto backwards widens no interval in `compute_liveness`, and compound
  assignments (`part4.c` 847) and calls (2963) evaluate their operands in another
  order than the walk numbers them: a local in a register is then read after
  another has replaced it. `strayed` marks these executions, and without it
  `ReadsSeeTheLastWrite` is violated.
* The repair called CG-IR-005 (`compiler_passes.c` 6005) extends a phi source only if
  its last mention lies before its definition. A source with one ordinary mention
  behind the definition is read by the copy at the end of its edge when its interval
  has ended: the second disjunct of `Exposed`.
* The phis of a block are numbered one after the other, but
  `ir_asm_emit_phi_edge_copy` (6294-6331) fills all of them at the end of the edge. If
  the second of three phis takes the previous value of the first, as in
  `while (y) { t = g(z); y = x; x = z = t; }` with the phis in the order x, y, z, the
  first ends before the third begins; both get one register, and z is overwritten.
  This is the third disjunct of `Exposed`; it came out of the attempt to prove
  `OnlyExposedLost` without it.
* `#if 4294967296` is false, because the value is stored in an `int`: adding a
  multiple of `IntModulus` to `Values` violates `ActiveIffSelected`, and the
  theorem carries the hypothesis that excludes it.
* `#undef` of a name that was defined twice brings the first definition back
  (`PPDefinitions!Undef`); in C the name is undefined afterwards. Redefinition
  never reuses an entry, so a table of 8192 fills up with them, and the next
  `#define` uses a null pointer (`DefineInFullTable`).
* A header that is not found is called a hard error (572), but `include_errors` is
  never read: the compiler goes on and ends with success.
* When a function-like name turns out not to be a call, `saved_pos` (1102) is
  assigned to whichever frame is current by then. With `#define f(x) x` and `g`
  defined as `f` and a blank, `+g;` violates `ScanResumesBehindName`; the programs of
  `pp_expand` do not end a replacement text in such a name.
* Copy coalescing never merges anything (theorem `CoalescingIsIdle`).
* A predecessor that does not fit the array of 32 is dropped: with `MaxPreds = 2`
  the model violates `DominanceIsExecution`.

Everything else holds as the code intends. In particular the table with rollback,
which looks as if emptying slots could break probing, is right, and is proved so.

## 6. What is not modelled and why

* Lexer and parser: pure text processing and recursive descent; breadth of syntax,
  no state that several steps share. A test reaches it.
* IR constructors, printing, analysis passes, telemetry: no effect on the code
  that is emitted, or no behaviour beyond storing a field.
* Values and arithmetic of IR nodes: gvn compares fields, the allocator names;
  neither computes. Constant folding will need them (section 7).
* The hash of gvn, the names of temporaries, the text of identifiers: abstracted
  to what is compared.
* The hidden pointer to a result in memory, which the prologue puts ahead of the
  parameters (`part4.c` 4015-4024), so that each lies a word below where the parser has
  put it. LocalScan has functions without one.
* Indirect calls in BlockScan. The emission loads the callee from `src[0]` (6911), but the
  conversion of the syntax tree drops the expression of the callee (3114-3135), so no
  call has one.
* Control flow in the allocator: `build_intervals` does not look at it, so
  `ValueSurvives` is about list order. A name live around a loop is the subject of
  the planned composition with lowering.
* SSA passes of `ir_ssa.c`: the pass manager hands `ir_pass_ssa` a function
  (`ir_pass_manager.c` 1026) where it takes a module (`ir_ssa.c` 306), and no phi is
  linked into the node list; there is no defined behaviour to translate.
* What instructions compute, in LocalScan and BlockScan: a register holds a value,
  by name. Loop-invariant motion and load elimination, which with promotion decide
  what the values of BlockScan are, come before it and are not modelled.
* Pointers in Promotion: an address is that of a local or none, `OP_GEP` is left out,
  and calls do not write to the locals they receive; that they may is what
  `PassedStaysInMemory` is about. The limits of 256 allocas and of 256 removals in
  a block are not reached by the instance.
* Overflow of `num * max_den` in the spill scan, and of the word index in the bit
  sets at 512 blocks: far above any instance TLC can run.
* Rust and ARM prototypes, scripts.

## 7. The plan

In this order; each step brings the properties of the table in section 1.

1. **Directives and expansion together**: parameter lists, and the text between
   the lines of PPDirectives expanded by PPExpand, whose frames decide which names
   a condition finds active.
2. **PPExpression**: the `#if` evaluator as recursive functions over expression
   trees, with 64-bit wrap-around, against C's rules.
3. **LocalPasses**: the remaining passes of the pass manager as rewritings of
   straight-line code with an evaluator that says what they must keep; dce as the
   backward chain it is; then the pipeline in the order of `ir_pm_run_default`.
4. **Lowering**, composed with RegAlloc: spill slots, scratch registers, calls,
   and execution along branches and loops instead of list order.
5. **Promotion composed with BlockScan**: the code that Promotion leaves as the
   function that BlockScan lays out, so that registers are compared with locals.
6. **Load elimination** (5645-5722) and **loop-invariant motion** (828-890) of the same
   file, on functions with stores through pointers and with divisions.
7. **Scopes** of `part1.c` and the evaluation-stack discipline of `part4.c`.
8. The abstract stack of the EVM lifter.

Where runs compete for room, a new passing run replaces the narrowest violation
run, and what that showed moves to the list in section 5.

Theorems worth proving next: `SimpleFunctionsAgree`, by an invariant that says of each
block which register holds each local at its start, for which `PhisSufficient` is the
step from block to block; the invariants of lowering.
