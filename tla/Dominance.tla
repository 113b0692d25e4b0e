----------------------------- MODULE Dominance -----------------------------
(***************************************************************************)
(* The dominance pass of the IR optimiser (src/ir_dominance.c): it cuts    *)
(* the node list of one function into basic blocks, wires the edges,       *)
(* computes the set of dominators of every block by iterating to a fixed   *)
(* point, picks the immediate dominators out of the sets and builds the    *)
(* tree that global value numbering walks.                                 *)
(*                                                                         *)
(* Blocks are numbered from 0, the entry, as in the source.  A node is     *)
(* what the pass looks at: its opcode, and the label it defines or jumps   *)
(* to.  The pass allocates nothing and calls nobody, so the passes over    *)
(* the list that have no visible intermediate state (cutting, wiring,      *)
(* picking, attaching) are one action each, and the sweeps of the fixed    *)
(* point are one action per block.  dom_order, which nothing reads, is     *)
(* left out.                                                               *)
(***************************************************************************)
EXTENDS Integers, Sequences, FiniteSets

CONSTANTS Node,         \* IR nodes: records with an op and a label, at least
          Programs,     \* the functions analysed: non-empty lists of nodes
          MaxBlocks,    \* DOM_MAX_BLOCKS
          MaxPreds,     \* DOM_MAX_PREDS
          MaxChildren   \* DOM_MAX_CHILDREN

Operations == {"label", "br", "br_if", "ret", "plain"}

ASSUME NodesHaveOperations == \A node \in Node : node.op \in Operations

ASSUME ProgramsAreNodeLists ==
    \A program \in Programs :
        program # << >> /\ program \in Seq(Node)

ASSUME LimitsArePositive ==
    MaxBlocks \in Nat \ {0} /\ MaxPreds \in Nat \ {0} /\ MaxChildren \in Nat \ {0}

VARIABLES
    code,         \* the node list of the function, fn->head onwards
    phase,        \* what the pass does next
    blockCount,   \* cfg->block_count
    first, last,  \* the first and the last node of every block
    pred, succ,   \* the edges of every block
    dom,          \* s_dom_sets
    at, changed,  \* the position in the sweep, and whether it changed a set
    idom,         \* -1: none
    children      \* the blocks that hang below a block in the tree

vars == <<code, phase, blockCount, first, last, pred, succ, dom, at, changed, idom, children>>

Blocks == 0 .. (blockCount - 1)
Nodes == 1 .. Len(code)

-----------------------------------------------------------------------------
(* Cutting the list.  Only a label opens a block.                          *)
Opens(k) == k = 1 \/ code[k].op = "label"
HeadsBefore(k) == Cardinality({h \in 1 .. (k - 1) : Opens(h)})
BlockHead(b) == CHOOSE k \in Nodes : Opens(k) /\ HeadsBefore(k) = b
HeadCount == HeadsBefore(Len(code) + 1)

Partition ==
    /\ phase = "cut"
    /\ HeadCount <= MaxBlocks
    /\ blockCount' = HeadCount
    /\ first' = [b \in 0 .. (HeadCount - 1) |-> BlockHead(b)]
    /\ last' = [b \in 0 .. (HeadCount - 1) |->
                   IF b = HeadCount - 1 THEN Len(code) ELSE BlockHead(b + 1) - 1]
    /\ phase' = "wire"
    /\ UNCHANGED <<code, pred, succ, dom, at, changed, idom, children>>

\* The pass gives up; block_count keeps the 0 it was cleared to.
TooManyBlocks ==
    /\ phase = "cut"
    /\ HeadCount > MaxBlocks
    /\ phase' = "done"
    /\ UNCHANGED <<code, blockCount, first, last, pred, succ, dom, at, changed, idom, children>>

-----------------------------------------------------------------------------
(* Wiring the edges.  The last node alone decides where a block leads to.  *)
Bears(b, l) == code[first[b]].op = "label" /\ code[first[b]].label = l
FindBlockByLabel(l) == {b \in Blocks : Bears(b, l) /\ \A c \in 0 .. (b - 1) : ~Bears(c, l)}

\* Mutant: a conditional branch without its fall-through edge.
LeadsToTargetOnly(b) ==
    LET end == code[last[b]] IN
    IF end.op \in {"br", "br_if"} THEN FindBlockByLabel(end.label)
    ELSE IF end.op = "ret" THEN {} ELSE {b + 1} \cap Blocks

LeadsTo(b) ==
    LET end == code[last[b]] IN
    (IF end.op \in {"br", "br_if"} THEN FindBlockByLabel(end.label) ELSE {})
    \cup (IF end.op \in {"br", "ret"} THEN {} ELSE {b + 1} \cap Blocks)

\* The members of a set that a full array has room for: the lowest ones.
Kept(S, room) == {x \in S : Cardinality({y \in S : y < x}) < room}

\* Mutant: sets that start one bit too long.
WireOneTooLong ==
    /\ phase = "wire"
    /\ succ' = [b \in Blocks |-> LeadsTo(b)]
    /\ pred' = [b \in Blocks |-> Kept({c \in Blocks : b \in LeadsTo(c)}, MaxPreds)]
    /\ dom' = [b \in Blocks |-> IF b = 0 THEN {0} ELSE 0 .. blockCount]
    /\ phase' = "sweep"
    /\ at' = 1
    /\ changed' = FALSE
    /\ UNCHANGED <<code, blockCount, first, last, idom, children>>

Wire ==
    /\ phase = "wire"
    /\ succ' = [b \in Blocks |-> LeadsTo(b)]
    /\ pred' = [b \in Blocks |-> Kept({c \in Blocks : b \in LeadsTo(c)}, MaxPreds)]
    /\ dom' = [b \in Blocks |-> IF b = 0 THEN {0} ELSE Blocks]
    /\ phase' = "sweep"
    /\ at' = 1
    /\ changed' = FALSE
    /\ UNCHANGED <<code, blockCount, first, last, idom, children>>

-----------------------------------------------------------------------------
(* The fixed point.                                                        *)
NewDom(b) ==
    {b} \cup {d \in Blocks : pred[b] # {} /\ \A p \in pred[b] : d \in dom[p]}

\* Mutant: the last visit alone decides whether there is another sweep.
VisitForgetful ==
    /\ phase = "sweep"
    /\ at < blockCount
    /\ dom' = [dom EXCEPT ![at] = NewDom(at)]
    /\ changed' = (NewDom(at) # dom[at])
    /\ at' = at + 1
    /\ UNCHANGED <<code, phase, blockCount, first, last, pred, succ, idom, children>>

Visit ==
    /\ phase = "sweep"
    /\ at < blockCount
    /\ dom' = [dom EXCEPT ![at] = NewDom(at)]
    /\ changed' = (changed \/ NewDom(at) # dom[at])
    /\ at' = at + 1
    /\ UNCHANGED <<code, phase, blockCount, first, last, pred, succ, idom, children>>

SweepAgain ==
    /\ phase = "sweep"
    /\ at = blockCount
    /\ changed
    /\ at' = 1
    /\ changed' = FALSE
    /\ UNCHANGED <<code, phase, blockCount, first, last, pred, succ, dom, idom, children>>

\* Mutant: the dominator that has the fewest dominators.
Farthest(b) ==
    LET others == dom[b] \ {b} IN
    CHOOSE d \in others : \A e \in others : Cardinality(dom[d]) <= Cardinality(dom[e])

\* The first of the other dominators that has the most dominators itself.
Closest(b) ==
    LET others == dom[b] \ {b} IN
    CHOOSE d \in others :
        \A e \in others : \/ Cardinality(dom[d]) > Cardinality(dom[e])
                          \/ Cardinality(dom[d]) = Cardinality(dom[e]) /\ d <= e

ExtractIdom ==
    /\ phase = "sweep"
    /\ at = blockCount
    /\ ~changed
    /\ idom' = [b \in Blocks |-> IF b = 0 \/ dom[b] = {b} THEN -1 ELSE Closest(b)]
    /\ phase' = "tree"
    /\ UNCHANGED <<code, blockCount, first, last, pred, succ, dom, at, changed, children>>

BuildTree ==
    /\ phase = "tree"
    /\ children' = [b \in Blocks |-> Kept({c \in Blocks \ {0} : idom[c] = b}, MaxChildren)]
    /\ phase' = "done"
    /\ UNCHANGED <<code, blockCount, first, last, pred, succ, dom, at, changed, idom>>

-----------------------------------------------------------------------------
Init ==
    /\ code \in Programs
    /\ phase = "cut"
    /\ blockCount = 0
    /\ first = [b \in {} |-> 0]
    /\ last = [b \in {} |-> 0]
    /\ pred = [b \in {} |-> {}]
    /\ succ = [b \in {} |-> {}]
    /\ dom = [b \in {} |-> {}]
    /\ at = 1
    /\ changed = FALSE
    /\ idom = [b \in {} |-> 0]
    /\ children = [b \in {} |-> {}]

Analyse ==
    \/ Partition
    \/ TooManyBlocks
    \/ Wire
    \/ Visit
    \/ SweepAgain
    \/ ExtractIdom
    \/ BuildTree

Finished == phase = "done" /\ UNCHANGED vars

Next == Analyse \/ Finished

Spec == Init /\ [][Next]_vars

-----------------------------------------------------------------------------
TypeOK ==
    /\ code \in Seq(Node)
    /\ phase \in {"cut", "wire", "sweep", "tree", "done"}
    /\ blockCount \in 0 .. MaxBlocks
    /\ at \in 1 .. (MaxBlocks + 1)
    /\ changed \in BOOLEAN
    /\ phase \in {"sweep", "tree"} =>
          /\ DOMAIN dom = Blocks /\ DOMAIN pred = Blocks
          /\ \A b \in Blocks : dom[b] \subseteq Blocks /\ pred[b] \subseteq Blocks

(***************************************************************************)
(* What "d dominates b" means, said without paths.  A set is closed        *)
(* without d if it holds the blocks control can start from, except d, and  *)
(* every block except d that an edge leads to from it.  The smallest such  *)
(* set is what can be reached without passing d, so d dominates what some  *)
(* closed set leaves out.  Control starts at the entry and, as far as the  *)
(* pass can tell, at a block without predecessors.                         *)
(***************************************************************************)
Roots == {b \in Blocks : b = 0 \/ pred[b] = {}}

ClosedWithout(S, d) ==
    /\ Roots \ {d} \subseteq S
    /\ \A b \in Blocks \ {d} : pred[b] \cap S # {} => b \in S

Dominates(d, b) == d = b \/ \E S \in SUBSET Blocks : ClosedWithout(S, d) /\ b \notin S

\* The sets are complete and no longer change.
Computed == phase = "tree"

\* ir_dominance.c:264-312.  When the iteration stops, the set of a block holds
\* its dominators, no more and no less: the order of the blocks, the sharing of one
\* static array and the in-place update lose nothing, and stopping at the
\* first sweep without a change is not too early.
DominatorsExact ==
    Computed => \A b, d \in Blocks : d \in dom[b] <=> Dominates(d, b)

(***************************************************************************)
(* Control between nodes, read off the opcodes: a node is followed by the  *)
(* next one, by the label it jumps to, or by both.  Of the branches the    *)
(* set says which may be taken: all of them, as the program does, or those *)
(* at the ends of the blocks, the only ones whose edges the pass wires.    *)
(***************************************************************************)
Branches == Nodes
BlockEnds == {last[b] : b \in Blocks}

LabelNode(l) == {k \in Nodes : code[k].op = "label" /\ code[k].label = l}

Flow(k, taken) ==
    (IF code[k].op \in {"br", "br_if"} /\ k \in taken THEN LabelNode(code[k].label) ELSE {})
    \cup (IF code[k].op \in {"br", "ret"} THEN {} ELSE {k + 1} \cap Nodes)

\* The nodes that runs come to when node d stops them.
RunsWithout(d, taken) ==
    LET reached[i \in 0 .. Len(code)] ==
            IF i = 0 THEN {1} \ {d}
            ELSE LET R == reached[i - 1] IN R \cup ((UNION {Flow(k, taken) : k \in R}) \ {d})
    IN reached[Len(code)]

Runs(taken) == RunsWithout(0, taken)      \* no node is number 0

Executed(taken) ==
    Computed => \A b \in Blocks : \A d \in dom[b] \ {b} :
        first[b] \in Runs(taken) =>
            \A m \in first[d] .. last[d] : first[b] \notin RunsWithout(m, taken)

\* ir_dominance.c:11-13.  On every run that takes no branch from the middle of
\* a block, all of a block that dominates another has been executed whenever
\* control arrives at the other one: the claim value numbering rests on.
DominanceIsExecution == Executed(BlockEnds)

\* ir_dominance.c:109-113, 130.  A new block starts behind every branch, so the
\* claim holds of all runs: what the comments say, and the code does not do.
DominanceIsExecutionAlways == Executed(Branches)

\* ir_dominance.c:314-338.  The immediate dominator of a block that the graph
\* leads to (no set closed without anything leaves it out) is the one that all
\* its other dominators dominate.
ImmediateIsClosest ==
    Computed => \A b \in Blocks \ {0} :
        ~Dominates(-1, b)
        => IF dom[b] = {b} THEN idom[b] = -1
           ELSE /\ idom[b] \in dom[b] \ {b}
                /\ \A d \in dom[b] \ {b} : Dominates(d, idom[b])

\* ir_dominance.c:27-36.  The blocks that dom_dominates comes by when it goes
\* from b to immediate dominators, and -1 when there is no other.
Up(b) == IF b = -1 THEN -1 ELSE idom[b]

Climb(b) ==
    LET climb[i \in 0 .. blockCount] == IF i = 0 THEN b ELSE Up(climb[i - 1])
    IN climb

\* ir_dominance.c:27-36.  The loop of dom_dominates comes to an end.
IdomIsTree ==
    phase = "done" /\ blockCount > 0 => \A b \in Blocks : Climb(b)[blockCount] = -1

\* ir_dominance.c:27-36.  From a block that the graph leads to, it does, and the
\* blocks it comes by are the dominators of that block, no more and no less.
DominanceByClimbing ==
    phase = "done" /\ blockCount > 0 => \A b \in Blocks :
        ~Dominates(-1, b) =>
            /\ Climb(b)[blockCount] = -1
            /\ {Climb(b)[i] : i \in 0 .. blockCount} \ {-1} = {d \in Blocks : Dominates(d, b)}

\* A sweep only takes dominators away, which is why the iteration ends.
SetsShrink ==
    [][phase = "sweep" => \A b \in Blocks : dom'[b] \subseteq dom[b]]_vars
=============================================================================
