-------------------------- MODULE MCValueNumbering --------------------------
(***************************************************************************)
(* Functions for TLC: an entry block and up to three labelled blocks, with *)
(* every way to end a block, nodes that compute one of two expressions,    *)
(* and nodes that dead code elimination frees.                             *)
(***************************************************************************)
EXTENDS ValueNumbering

CONSTANTS l1, l2, l3, l4, e1, e2

MCNode == [op : Operations, label : {l1, l2, l3, l4}, expr : {e1, e2, NoExpr}, unread : BOOLEAN]

N(o, l) == [op |-> o, label |-> l, expr |-> NoExpr, unread |-> FALSE]
Store == N("plain", l1)
Compute(e, u) == [Store EXCEPT !.expr = e, !.unread = u]
Load == [Store EXCEPT !.unread = TRUE]      \* a load nobody reads

Ends == {<< >>, <<N("ret", l1)>>}
        \cup {<<N(o, l)>> : o \in {"br", "br_if"}, l \in {l1, l2, l3}}

Body(b, e) == <<N("label", b), Compute(e, FALSE)>>

\* Every node that dce can free stands between two that it cannot.
TidyPrograms ==
    {<<Store, Compute(e1, u), Compute(e1, FALSE)>> \o e[1] \o Body(l1, x[1]) \o e[2]
        \o Body(l2, x[2]) \o e[3] \o Body(l3, x[3]) \o e[4] :
        u \in BOOLEAN, x \in [1 .. 3 -> {e1, e2}],
        e \in {f \in [1 .. 4 -> Ends] : /\ f[1] # <<N("ret", l1)>>
                                        /\ f[3] \in {<< >>, <<N("br", l1)>>, <<N("br_if", l2)>>}
                                        /\ f[4] \in {<< >>, <<N("br", l1)>>}}}

\* A node that dce frees may be the first or the last of a block.
Bodies(b) == {<<N("label", b)>> \o m : m \in {<< >>, <<Load>>, <<Compute(e1, FALSE)>>, <<Compute(e1, FALSE), Load>>}}

AnyPrograms ==
    {h \o e[1] \o b1 \o e[2] \o b2 \o e[3] :
        h \in {<<Load>>, <<Load, Compute(e1, FALSE)>>, <<Store, Load>>, <<Compute(e1, TRUE)>>},
        b1 \in Bodies(l1), b2 \in Bodies(l2),
        e \in {f \in [1 .. 3 -> Ends \ {<<N(o, l3)>> : o \in {"br", "br_if"}}] :
                  f[3] \in {<< >>, <<N("br_if", l1)>>}}}

\* The graphs alone, with any end of the entry block and of the last block; a
\* function that is itself the body of a loop; and one with too many blocks.
Graphs ==
    {<<Store>> \o e[1] \o <<N("label", l1)>> \o e[2] \o <<N("label", l2)>> \o e[3]
        \o <<N("label", l3)>> \o e[4] : e \in [1 .. 4 -> Ends]}
    \cup {<<N("label", l1), N("br_if", l3), N("label", l2), N("br", l1), N("label", l3)>>,
          <<Store, N("label", l1), N("label", l2), N("label", l3), N("label", l4)>>}

\* What the lowering emits (part4.c:3374-3432): the branch around a part of a
\* statement stands in the middle of a block.
If(l, then) == <<N("br_if", l)>> \o then \o <<N("label", l)>>
IfElse(l, m, then, else) == <<N("br_if", l)>> \o then \o <<N("br", m), N("label", l)>> \o else \o <<N("label", m)>>
While(l, m, body) == <<N("label", l), N("br_if", m)>> \o body \o <<N("br", l), N("label", m)>>

Simple == {<<Compute(e1, FALSE)>>, <<Compute(e2, FALSE)>>, <<Load, Compute(e1, FALSE)>>,
           <<Compute(e1, FALSE), N("ret", l1)>>}

LoweredPrograms ==
    {<<Store>> \o s \o <<Compute(e1, FALSE)>> :
        s \in {If(l1, a) : a \in Simple}
          \cup {If(l1, a \o If(l2, b)) : a, b \in Simple}
          \cup {IfElse(l1, l2, a, b) : a, b \in Simple}
          \cup {If(l3, IfElse(l1, l2, a, b)) : a, b \in Simple}
          \cup {While(l1, l2, a \o If(l3, b) \o a) : a, b \in Simple}
          \cup {a \o While(l1, l2, b \o <<N("br_if", l2)>> \o a) : a, b \in Simple}}

\* Branches in the middle of a block that no statement is lowered to.
MidPrograms ==
    {<<Store>> \o m[1] \o <<Compute(e1, FALSE)>> \o e[1] \o <<N("label", l1)>> \o m[2]
        \o <<Compute(x, FALSE)>> \o e[2] \o Body(l2, e1) \o e[3] :
        x \in {e1, e2},
        m \in [1 .. 2 -> {<< >>, <<N("br_if", l1)>>, <<N("br_if", l2)>>, <<N("br", l2)>>}],
        e \in {f \in [1 .. 3 -> {<< >>, <<N("ret", l1)>>, <<N("br", l2)>>, <<N("br_if", l1)>>}] :
                  f[3] \in {<< >>, <<N("br_if", l1)>>}}}

AllPrograms == TidyPrograms \cup AnyPrograms \cup Graphs \cup LoweredPrograms \cup MidPrograms
=============================================================================
