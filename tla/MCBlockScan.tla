---------------------------- MODULE MCBlockScan ----------------------------
(***************************************************************************)
(* Functions for BlockScan, in the blocks and in the order in which the    *)
(* lowering of the syntax tree creates them; a preheader comes last.       *)
(***************************************************************************)
EXTENDS BlockScan, TLC

Ins(op, dst, uses) == [op |-> op, dst |-> dst, uses |-> uses, from |-> <<>>]
Op(dst, uses) == Ins("op", dst, uses)
Phi(dst, from) == [Ins("phi", dst, {}) EXCEPT !.from = from]
Br(uses) == <<Ins("br", Nothing, uses)>>

Block(code, succs, prob) == [code |-> code, succs |-> succs, prob |-> prob]
Jump(code, b) == Block(code \o Br({}), <<b>>, <<Parts>>)
Choice(code, use, b, c, n) == Block(code \o Br(use), <<b, c>>, <<n, Parts - n>>)
Ret(use) == Block(Br(use), <<>>, <<>>)

(* The lowering gives 5 to an if and 9 to a loop, a profile anything. *)
Odds == {1, 5, 9}

(* A while loop with two phis; 5 and 6 are computed in the body. *)
While(x, y, c, s, u, kind, e, n) ==
  << Jump(<<Op(1, {}), Op(2, {})>>, 2),
     Choice(<<Phi(3, (1 :> 1) @@ (3 :> x)), Phi(4, (1 :> 2) @@ (3 :> y))>>, c, 3, 4, n),
     Jump(<<Op(5, s), Ins(kind, 6, u)>>, 2),
     Ret(e) >>

Whiles ==
  {While(x, y, c, s, u, kind, e, n) :
     x \in {3, 4, 5, 6}, y \in {2, 3, 5, 6}, c \in {{3}, {4}}, s \in {{}, {1}, {3}, {4}},
     u \in {{1}, {3}, {4}, {5}}, kind \in {"op", "call"}, e \in {{1}, {3}, {4}}, n \in Odds}

(* A loop in the else branch; its preheader, block 8, computes 2, which    *)
(* the loop may use.                                                       *)
LoopInElse(t, h, z, n, m) ==
  << Choice(<<Op(1, {})>>, {1}, 2, 4, n),
     Jump(<<Op(3, {})>>, 3),
     Block(<<Phi(6, (2 :> 3) @@ (7 :> z))>> \o Br({6}), <<>>, <<>>),
     Jump(<<>>, 8),
     Choice(<<Phi(4, (8 :> 1) @@ (6 :> 5))>>, {4}, 6, 7, m),
     Jump(<<Op(5, t)>>, 5),
     Jump(IF z = 7 THEN <<Op(7, h)>> ELSE <<>>, 3),
     Jump(<<Op(2, {})>>, 5) >>

LoopsInElse ==
  {LoopInElse(t, h, z, n, m) :
     t \in {{4}, {2, 4}, {1, 4}}, h \in {{}, {2}, {4}}, z \in {1, 2, 4, 7}, n \in Odds, m \in Odds}

(* An if in a while loop; its then part goes on to the end of the body, to *)
(* the head of the loop or out of the loop.                                *)
IfInWhile(s, kind, u, x, y, c, to, e, n, m) ==
  LET body == (1 :> 1) @@ (6 :> x) @@ (IF to = 2 THEN 5 :> y ELSE <<>>)
      merge == (3 :> 3) @@ (IF to = 6 THEN 5 :> y ELSE <<>>)
      exit == (2 :> 3) @@ (IF to = 4 THEN 5 :> y ELSE <<>>)
  IN  << Jump(<<Op(1, {}), Op(2, {})>>, 2),
         Choice(<<Phi(3, body)>>, {3}, 3, 4, n),
         Choice(<<Op(4, s)>>, c, 5, 6, m),
         Block(<<Phi(8, exit)>> \o Br(e), <<>>, <<>>),
         Jump(<<Ins(kind, 5, u)>>, to),
         Jump(<<Phi(6, merge), Op(7, {6})>>, 2) >>

IfsInWhile ==
  {IfInWhile(s, kind, u, x, y, c, to, e, n, m) :
     s \in {{2}, {3}}, kind \in {"op", "call"}, u \in {{1}, {3}, {4}}, x \in {3, 4, 6, 7},
     y \in {3, 4, 5}, c \in {{2}, {4}}, to \in {2, 4, 6}, e \in {{1}, {8}}, n \in Odds, m \in {1, 5}}

(* A while loop in a while loop. *)
Nested(h, c, s, x, kind, u, y, e, n) ==
  << Jump(<<Op(1, {}), Op(2, {})>>, 2),
     Choice(<<Phi(3, (1 :> 1) @@ (7 :> y))>>, h, 3, 4, n),
     Jump(<<Op(4, {3})>>, 5),
     Block(Br(e), <<>>, <<>>),
     Choice(<<Phi(5, (3 :> 4) @@ (6 :> x))>>, c, 6, 7, 9),
     Jump(<<Op(6, s)>>, 5),
     Jump(<<Ins(kind, 7, u)>>, 2) >>

Nests ==
  {Nested(h, c, s, x, kind, u, y, e, n) :
     h \in {{2}, {3}}, c \in {{2}, {3}, {5}}, s \in {{1}, {4}, {5}}, x \in {4, 5, 6},
     kind \in {"op", "call"}, u \in {{3}, {4}, {5}}, y \in {4, 5, 7}, e \in {{1}, {3}}, n \in {5, 9}}

(* An if with a call on one side or the other, two phis where they meet,   *)
(* and a local in memory.                                                  *)
Diamond(k, s, l, u, x, y, z, e, n) ==
  << Choice(<<Ins("alloca", 1, {}), Op(2, {1}), Op(3, {1})>>, {2}, 2, 4, n),
     Jump(<<Ins(k, 4, s)>>, 3),
     Block(<<Phi(5, (2 :> 4) @@ (4 :> x)), Phi(6, (2 :> y) @@ (4 :> z)), Op(7, {5, 6})>>
             \o Br(e), <<>>, <<>>),
     Jump(<<Ins(l, 8, u)>>, 3) >>

Diamonds ==
  {Diamond(k, s, l, u, x, y, z, e, n) :
     k \in {"op", "call"}, s \in {{1}, {2}}, l \in {"op", "call"}, u \in {{2}, {3}},
     x \in {2, 3, 8}, y \in {2, 4}, z \in {3, 8}, e \in {{1, 7}, {2, 7}}, n \in Odds}

(* A while loop with three phis, the second of which takes the value that  *)
(* the first had before.                                                   *)
Lag(x, y, c, e, n) ==
  << Jump(<<Op(1, {}), Op(2, {})>>, 2),
     Choice(<<Phi(3, (1 :> 1) @@ (3 :> x)), Phi(4, (1 :> 1) @@ (3 :> 3)), Phi(5, (1 :> 2) @@ (3 :> y))>>, c, 3, 4, n),
     Jump(<<Op(7, {5})>>, 2),
     Ret(e) >>

Lags ==
  {Lag(x, y, c, e, n) : x \in {5, 7}, y \in {5, 7}, c \in {{4}, {5}}, e \in {{4}, {4, 5}}, n \in Odds}

(* The passes before leave nothing that neither a branch nor a call needs. *)
Needed(p) ==
  LET read(b, values) == UNION {Operands(p[b].code[i]) : i \in {i \in DOMAIN p[b].code :
                           p[b].code[i].op \in {"br", "call"} \/ p[b].code[i].dst \in values}}
      needed[n \in 0 .. Cardinality(Values)] ==
        IF n = 0 THEN {}
        ELSE LET before == needed[n - 1] IN UNION {read(b, before) : b \in DOMAIN p}
  IN  needed[Cardinality(Values)]

NothingDead(p) ==
  LET needed == Needed(p)
  IN  \A b \in DOMAIN p : \A i \in DOMAIN p[b].code :
        p[b].code[i].op \in {"op", "phi"} => p[b].code[i].dst \in needed

AllPrograms ==
  {p \in Whiles : NothingDead(p)} \cup {p \in LoopsInElse : NothingDead(p)} \cup {p \in IfsInWhile : NothingDead(p)}
    \cup {p \in Nests : NothingDead(p)} \cup {p \in Diamonds : NothingDead(p)}
    \cup {p \in Lags : NothingDead(p)}

(* The loop in the else branch with the odds of the lowering. *)
DefaultLoops ==
  {p \in {LoopInElse(t, {}, z, 5, 9) : t \in {{4}, {2, 4}}, z \in {1, 4, 7}} : NothingDead(p)}
=============================================================================
