---------------------------- MODULE MCLocalScan ----------------------------
(***************************************************************************)
(* Functions for LocalScan: trees over two locals, one register.           *)
(***************************************************************************)
EXTENDS LocalScan, SequencesExt

CONSTANTS a, b, p, q, g

(* Three parameters, q, the aggregate g of two words, p; then two locals.  *)
MCDeclared == <<q, g, p, a, b>>

MCWords == [v \in {q, g, p, a, b} |-> IF v = g THEN 2 ELSE 1]

MCOffset ==
  LET taken(i) == FoldLeft(LAMBDA n, v : n + MCWords[v], 0, SubSeq(MCDeclared, 1, i))
  IN  [v \in Range(MCDeclared) |-> -8 * taken(CHOOSE i \in 1 .. 5 : MCDeclared[i] = v)]

(* Trees, by their fields that point to nodes and their lists of nodes. *)
Tree(kind, kids) == [node |-> [kind |-> kind], kids |-> kids, list |-> <<>>, of |-> "none"]

Num == Tree("num", <<>>)
Var(v) == [Num EXCEPT !.node = [kind |-> "var", sym |-> v]]
Addr(v) == Tree("addr", <<<<"lhs", Var(v)>>>>)
Assign(v, x) == Tree("assign", <<<<"lhs", Var(v)>>, <<"rhs", x>>>>)
Set(v) == Assign(v, Num)
Compound(v, x) == Tree("compound", <<<<"lhs", Var(v)>>, <<"rhs", x>>>>)
Sum(x, y) == Tree("expr", <<<<"lhs", x>>, <<"rhs", y>>>>)
Call(x, y) == [Tree("call", <<>>) EXCEPT !.list = <<x, y>>, !.of = "args"]
Block(s) == [Tree("block", <<>>) EXCEPT !.list = s, !.of = "stmts"]
IfElse(c, x, y) == Tree("if", <<<<"cond", c>>, <<"then_body", x>>, <<"else_body", y>>>>)
While(c, x) == Tree("while", <<<<"cond", c>>, <<"body", x>>>>)
Do(x, c) == Tree("do", <<<<"cond", c>>, <<"body", x>>>>)
For(i, c, k, x) == Tree("for", <<<<"init", i>>, <<"cond", c>>, <<"inc", k>>, <<"body", x>>>>)
Switch(c, x) == Tree("switch", <<<<"cond", c>>, <<"body", x>>>>)
Case(x) == Tree("case", <<<<"lhs", x>>>>)
Label(l, x) == [Tree("label", <<<<"lhs", x>>>>) EXCEPT !.node = [kind |-> "label", name |-> l]]
GotoLabel(l) == [Num EXCEPT !.node = [kind |-> "goto", name |-> l]]
Break == Tree("break", <<>>)
Continue == Tree("continue", <<>>)

(* The table of a tree whose root has the number k. *)
RECURSIVE Table(_, _)
Table(t, k) ==
  LET place(acc, x) == [rows |-> acc.rows \o Table(x, k + 1 + Len(acc.rows)),
                        at |-> Append(acc.at, k + 1 + Len(acc.rows))]
      K == Len(t.kids)
      below == FoldLeft(place, [rows |-> <<>>, at |-> <<>>], [i \in 1 .. K |-> t.kids[i][2]] \o t.list)
      fields == [f \in {t.kids[i][1] : i \in 1 .. K} |->
                   below.at[CHOOSE i \in 1 .. K : t.kids[i][1] = f]]
      lists == IF t.of = "none" THEN <<>> ELSE t.of :> SubSeq(below.at, K + 1, Len(below.at))
  IN  <<t.node @@ fields @@ lists>> \o below.rows

Leaf == {Var(a), Var(b), Set(a), Set(b)}
Leaf1 == Leaf \cup {Assign(a, Var(b)), Sum(Var(a), Var(b)), Num}

Loop1(x, y, z) == {While(x, Block(<<y, z>>)), Do(Block(<<y, z>>), x), For(z, x, Num, y), For(Num, x, z, y)}

OneLoop ==
  UNION {{Block(<<s, l, t>>) : l \in Loop1(x, y, z)} :
           s \in Leaf, t \in Leaf, x \in {Var(a), Num}, y \in Leaf, z \in Leaf}

(* A loop that is left or cut short, under a condition. *)
Broken ==
  UNION {{Block(<<s, l, t>>) : l \in Loop1(x, IfElse(Num, j, y), z)} :
           s \in {Set(a)}, t \in Leaf, x \in {Var(a), Var(b), Num}, y \in Leaf,
           z \in Leaf, j \in {Break, Continue}}

Nested ==
  {Block(<<s, While(w, Block(<<x, Do(y, Num), z>>)), t>>) :
     s \in Leaf, w \in {Num, Var(b)}, x \in Leaf, y \in Leaf, z \in Leaf, t \in {Num, Var(a)}}

Switched ==
  {Block(<<s, While(Num, Switch(w, Block(<<Case(x), y, Case(z), Break>>))), t>>) :
     s \in Leaf, w \in {Num, Var(b)}, x \in Leaf, y \in Leaf \cup {Break, Continue}, z \in Leaf,
     t \in {Num, Var(a)}}

Jumps ==
  {Block(<<s, Label("l", x), y, IfElse(Num, GotoLabel("l"), GotoLabel("m")), z, Label("m", t)>>) :
     s \in Leaf, x \in Leaf, y \in Leaf, z \in Leaf, t \in Leaf}

Orders ==
  {Block(<<s, Compound(v, x), t>>) : s \in Leaf, v \in {a, b}, x \in Leaf1, t \in Leaf}
    \cup {Block(<<s, Call(x, y), t>>) : s \in Leaf, x \in Leaf1, y \in Leaf1, t \in Leaf}

Addressed ==
  UNION {{Block(<<s, While(Num, Block(<<x, y>>)), z>>)} :
     s \in Leaf, x \in Leaf \cup {Addr(a)}, y \in {Var(b), Addr(a)}, z \in {Addr(b), Addr(a), Var(b)}}

(* A parameter is mentioned first, then the locals. *)
Parameters ==
  UNION {{Block(<<Assign(a, x), y, z, t>>) : x \in {Var(v), Num}, y \in {Var(v), Set(v)},
            z \in {Var(b), Set(b), Var(v)}, t \in {Var(a), Var(v)}} : v \in {p, q}}

Tables(trees) == {Table(t, 1) : t \in trees}

AllPrograms ==
  UNION {Tables(OneLoop), Tables(Broken), Tables(Nested), Tables(Switched), Tables(Jumps),
         Tables(Orders), Tables(Addressed), Tables(Parameters)}
=============================================================================
