--------------------------- MODULE ValueNumbering ---------------------------
(***************************************************************************)
(* Global value numbering and what happens to a function between the       *)
(* dominance pass and it (src/ir_pass_manager.c).  The pass manager runs   *)
(* one pass over all functions before the next pass: when numbering        *)
(* starts, the blocks of the one static graph are those of the last        *)
(* function of the module, and dead code elimination has unlinked and      *)
(* freed nodes that the graph may still point to.  Numbering walks the     *)
(* dominator tree with a table of the expressions seen on the way down,    *)
(* and rewrites a node whose expression is in the table as a copy.         *)
(*                                                                         *)
(* The pipeline is the one without the SSA passes (ZCC_OPT_MEM2REG=0).     *)
(* An expression is the five fields the table compares.  Names are         *)
(* assigned once, so a node stands for the name it defines.  The table is  *)
(* modelled by what it holds and by its scope stack; its slots and probe   *)
(* sequences are the subject of module ScopedTable.                        *)
(***************************************************************************)
EXTENDS Dominance

CONSTANTS NoExpr,           \* the node is not pure
          EliminateDeadCode \* dce is registered before gvn

VARIABLES
    stage,      \* where the pass manager is with this function
    own,        \* cfg->fn == fn: no later function replaced the graph
    live,       \* the nodes still in the list; the others are freed
    copyOf,     \* node -> the node it was rewritten to copy, 0: none
    table,      \* expression -> the node that computes it
    scope,      \* s_gvn_scope_stack: the expressions in order of insertion
    walk,       \* the activations of gvn_walk_domtree, innermost last
    here        \* the node the block loop looks at, 0: past the last one

gvnVars == <<stage, own, live, copyOf, table, scope, walk, here>>

Empty == [e \in {} |-> 0]

\* Mutant: opcodes are not looked at.
PureAnything(n) == copyOf[n] = 0

Pure(n) == code[n].expr # NoExpr /\ copyOf[n] = 0

\* Mutant: the loop that does not advance.
FollowingOrSame(n) ==
    LET after == {m \in live : m >= n}
    IN IF after = {} THEN 0 ELSE CHOOSE m \in after : \A k \in after : m <= k

\* n->next: the next node that is still linked.
Following(n) ==
    LET after == {m \in live : m > n}
    IN IF after = {} THEN 0 ELSE CHOOSE m \in after : \A k \in after : m <= k

-----------------------------------------------------------------------------
(* Before numbering.                                                       *)
AnalyseThis ==
    /\ stage = "dominance"
    /\ Analyse
    /\ UNCHANGED gvnVars

\* The functions after this one go through the dominance pass.
AnalyseOthers ==
    /\ stage = "dominance"
    /\ phase = "done"
    /\ own' \in BOOLEAN
    /\ stage' = "dce"
    /\ UNCHANGED <<vars, live, copyOf, table, scope, walk, here>>

\* A node nobody reads is unlinked and freed, wherever it stands in its block.
DeadCode ==
    /\ stage = "dce"
    /\ live' = IF EliminateDeadCode THEN {n \in live : ~code[n].unread} ELSE live
    /\ stage' = "start"
    /\ UNCHANGED <<vars, own, copyOf, table, scope, walk, here>>

-----------------------------------------------------------------------------
(* The walk over the dominator tree.                                       *)
\* Mutant: the mark of a block is not set when the block is entered.
ActivationUnmarked(b) == [block |-> b, mark |-> 0, todo |-> children[b]]

Activation(b) == [block |-> b, mark |-> Len(scope), todo |-> children[b]]

WalkTree ==
    /\ stage = "start"
    /\ own /\ blockCount > 0
    /\ walk' = <<Activation(0)>>
    /\ here' = first[0]
    /\ stage' = "tree"
    /\ UNCHANGED <<vars, own, live, copyOf, table, scope>>

Top == walk[Len(walk)]

\* Where the block loop goes from node n: `last' stops it, as does the end of the list.
Onward(n) == IF n = last[Top.block] THEN 0 ELSE Following(n)

Lookup(n) ==
    IF code[n].expr \in DOMAIN table
    THEN /\ copyOf' = [copyOf EXCEPT ![n] = table[code[n].expr]]
         /\ UNCHANGED <<table, scope>>
    ELSE /\ table' = [e \in DOMAIN table \cup {code[n].expr} |->
                         IF e = code[n].expr THEN n ELSE table[e]]
         /\ scope' = IF stage = "tree" THEN Append(scope, code[n].expr) ELSE scope
         /\ UNCHANGED copyOf

NumberNode ==
    /\ stage = "tree"
    /\ here \in live
    /\ IF Pure(here) THEN Lookup(here) ELSE UNCHANGED <<copyOf, table, scope>>
    /\ here' = Onward(here)
    /\ UNCHANGED <<vars, stage, own, live, walk>>

(* The first node of the block has been freed.  free overwrites the first  *)
(* bytes of a node, where the opcode is: the loop takes no such node for   *)
(* an expression.  The link at its end stays what it was when dce freed    *)
(* it, the node that followed in the whole list, which may be freed too;   *)
(* but once the allocator's cache of the size is full (seven nodes with    *)
(* glibc) the link holds a size, and using it ends the process, its        *)
(* activations with it.                                                    *)
ReadFreedNode ==
    /\ stage = "tree"
    /\ here # 0 /\ here \notin live
    /\ here' = IF here = last[Top.block] \/ here = Len(code) THEN 0 ELSE here + 1
    /\ UNCHANGED <<vars, stage, own, live, copyOf, table, scope, walk>>

FollowOverwrittenLink ==
    /\ stage = "tree"
    /\ here # 0 /\ here \notin live /\ here # last[Top.block]
    /\ walk' = << >>
    /\ here' = 0
    /\ stage' = "crashed"
    /\ UNCHANGED <<vars, own, live, copyOf, table, scope>>

WalkChild ==
    /\ stage = "tree"
    /\ here = 0 /\ walk # << >>
    /\ \E c \in Top.todo :
          /\ \A d \in Top.todo : c <= d
          /\ walk' = Append([walk EXCEPT ![Len(walk)].todo = @ \ {c}], Activation(c))
          /\ here' = first[c]
    /\ UNCHANGED <<vars, stage, own, live, copyOf, table, scope>>

\* Mutants: leaving a block without the rollback, or with one entry left.
PopNothing ==
    /\ stage = "tree"
    /\ here = 0 /\ walk # << >>
    /\ Top.todo = {}
    /\ walk' = SubSeq(walk, 1, Len(walk) - 1)
    /\ UNCHANGED <<vars, stage, own, live, copyOf, table, scope, here>>

PopAllButOne ==
    /\ stage = "tree"
    /\ here = 0 /\ walk # << >>
    /\ Top.todo = {}
    /\ scope' = SubSeq(scope, 1, Top.mark)
    /\ LET forgotten == {scope[i] : i \in (Top.mark + 2) .. Len(scope)}
       IN table' = [e \in DOMAIN table \ forgotten |-> table[e]]
    /\ walk' = SubSeq(walk, 1, Len(walk) - 1)
    /\ UNCHANGED <<vars, stage, own, live, copyOf, here>>

\* gvn_scope_pop forgets what was inserted since the matching push.
PopScope ==
    /\ stage = "tree"
    /\ here = 0 /\ walk # << >>
    /\ Top.todo = {}
    /\ scope' = SubSeq(scope, 1, Top.mark)
    /\ LET forgotten == {scope[i] : i \in (Top.mark + 1) .. Len(scope)}
       IN table' = [e \in DOMAIN table \ forgotten |-> table[e]]
    /\ walk' = SubSeq(walk, 1, Len(walk) - 1)
    /\ UNCHANGED <<vars, stage, own, live, copyOf, here>>

TreeWalked ==
    /\ stage = "tree"
    /\ walk = << >>
    /\ stage' = "finished"
    /\ UNCHANGED <<vars, own, live, copyOf, table, scope, walk, here>>

-----------------------------------------------------------------------------
(* The fallback when the graph is another function's: one pass over the    *)
(* list that forgets everything at a label.                                *)
ScanList ==
    /\ stage = "start"
    /\ ~own \/ blockCount = 0
    /\ here' = Following(0)
    /\ stage' = "linear"
    /\ UNCHANGED <<vars, own, live, copyOf, table, scope, walk>>

ScanNode ==
    /\ stage = "linear"
    /\ here # 0
    /\ \/ /\ code[here].op = "label"
          /\ table' = Empty
          /\ UNCHANGED <<copyOf, scope>>
       \/ /\ code[here].op # "label"
          /\ IF Pure(here) THEN Lookup(here) ELSE UNCHANGED <<copyOf, table, scope>>
    /\ here' = Following(here)
    /\ UNCHANGED <<vars, stage, own, live, walk>>

ListScanned ==
    /\ stage = "linear"
    /\ here = 0
    /\ stage' = "finished"
    /\ UNCHANGED <<vars, own, live, copyOf, table, scope, walk, here>>

-----------------------------------------------------------------------------
GvnInit ==
    /\ Init
    /\ stage = "dominance"
    /\ own = FALSE
    /\ live = Nodes
    /\ copyOf = [n \in Nodes |-> 0]
    /\ table = Empty
    /\ scope = << >>
    /\ walk = << >>
    /\ here = 0

Number ==
    \/ WalkTree
    \/ NumberNode
    \/ ReadFreedNode
    \/ FollowOverwrittenLink
    \/ WalkChild
    \/ PopScope
    \/ TreeWalked
Scan == ScanList \/ ScanNode \/ ListScanned
Pass == AnalyseThis \/ AnalyseOthers \/ DeadCode \/ Number \/ Scan

GvnNext == Pass \/ (stage \in {"finished", "crashed"} /\ UNCHANGED <<vars, gvnVars>>)

GvnSpec == GvnInit /\ [][GvnNext]_<<vars, gvnVars>> /\ WF_<<vars, gvnVars>>(Pass)

-----------------------------------------------------------------------------
(* Types of the walk and the table.  The pointer of the block loop stays   *)
(* in its block as long as the node that stops it, last, is in the list:   *)
(* if dce has freed that node the loop runs on into the blocks behind.     *)
GvnTypeOK ==
    /\ stage \in {"dominance", "dce", "start", "tree", "linear", "finished", "crashed"}
    /\ own \in BOOLEAN
    /\ live \subseteq Nodes
    /\ copyOf \in [Nodes -> 0 .. Len(code)]
    /\ DOMAIN table \subseteq {code[n].expr : n \in Nodes} \ {NoExpr}
    /\ Len(walk) <= blockCount
    /\ here \in 0 .. Len(code)
    /\ stage = "tree" /\ here # 0 /\ last[Top.block] \in live =>
          here \in first[Top.block] .. last[Top.block]

\* dce has left the nodes that stop the block loop.
EndsKept == \A b \in Blocks : last[b] \in live

\* ir_pass_manager.c:788-798.  The node a copy reads from is another one, still
\* computes the expression itself, and has been executed on every run that
\* arrives at the copy: of all runs where the list is scanned, of those that
\* take no branch from the middle of a block where the tree is walked.
CopiesAreComputed ==
    stage = "finished" /\ (own => EndsKept) => \A n \in Nodes : copyOf[n] # 0 =>
        /\ copyOf[n] # n
        /\ copyOf[n] \in live /\ copyOf[copyOf[n]] = 0
        /\ code[copyOf[n]].expr = code[n].expr
        /\ LET taken == IF own /\ blockCount > 0 THEN BlockEnds ELSE Branches
           IN n \in Runs(taken) => n \notin RunsWithout(copyOf[n], taken)

\* ir_pass_manager.c:756-771, 805-825.  Inside a block the table holds exactly
\* what the blocks on the way down to it have inserted: a scope that is popped
\* takes its own entries with it and nothing else.
TableIsTheWayDown ==
    stage = "tree" /\ EndsKept =>
        \A n \in Nodes :
            (\E e \in DOMAIN table : table[e] = n)
            <=> /\ n \in live /\ code[n].expr # NoExpr /\ copyOf[n] = 0
                /\ \E i \in 1 .. Len(walk) :
                      /\ n \in first[walk[i].block] .. last[walk[i].block]
                      /\ i = Len(walk) /\ here # 0 => n < here

\* ir_pass_manager.c:805-825.  When the walk is over, no node below the entry is
\* computed again although a dominating node has the same expression.
BlockOf(n) == CHOOSE b \in Blocks : n \in first[b] .. last[b]

Before(m, n) ==
    IF BlockOf(m) = BlockOf(n) THEN m < n ELSE BlockOf(m) \in dom[BlockOf(n)]

NothingComputedTwice ==
    stage = "finished" /\ own /\ blockCount > 0 /\ EndsKept =>
        \A m, n \in {k \in live : code[k].expr # NoExpr} :
            /\ Before(m, n) /\ code[m].expr = code[n].expr
            /\ 0 \in dom[BlockOf(n)] /\ ~Dominates(-1, BlockOf(n))
            => copyOf[n] # 0

\* ir_pass_manager.c:827-874: numbering comes to an end whatever the passes
\* before it have done to the list, unless an overwritten link ends it first.
NumberingEnds == <>(stage \in {"finished", "crashed"})
=============================================================================
