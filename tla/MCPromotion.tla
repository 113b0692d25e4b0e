---------------------------- MODULE MCPromotion ----------------------------
(***************************************************************************)
(* Functions for Promotion, as the lowering of the syntax tree and the     *)
(* passes before leave them: locals X and Y, of which X comes first, and   *)
(* two registers for each place of the graph that does something.          *)
(***************************************************************************)
EXTENDS Promotion, TLC

X == 1
Y == 2

(* An int that is 300 and one that a char can hold.  A char makes 44 of    *)
(* 300; part of an address is a number too.                                *)
TwoNumbers == {44, 300}
LowBytes == [w \in {1, 2, 4} |-> [v \in TwoNumbers \cup 1 .. 16 |-> IF w > 1 /\ v = 300 THEN 300 ELSE 44]]

Ins(op, dst, src) == [op |-> op, dst |-> dst, src |-> src, from |-> <<>>, imm |-> 8]
Slot(x) == Ins("alloca", x, <<>>)
Op(r, src) == Ins("op", r, src)

(* X and Y are ints. *)
Wide(ins, x) == [ins EXCEPT !.imm = IF x \in {X, Y} THEN 4 ELSE 8]
LoadOf(r, x) == Wide(Ins("load", r, <<x>>), x)
StoreTo(r, x) == Wide(Ins("store", None, <<r, x>>), x)
Use(src) == Ins("op", None, src)
Phi(r, from) == [Ins("phi", r, <<>>) EXCEPT !.from = from]

Block(body, succs) == [code |-> body, succs |-> succs]
Jump(body, b) == Block(Append(body, Ins("br", None, <<>>)), <<b>>)
Fork(body, b, c) == Block(Append(body, Ins("br", None, <<>>)), <<b, c>>)
ForkOn(r, body, b, c) == Block(Append(body, Ins("br", None, <<r>>)), <<b, c>>)
Ret(body) == Block(Append(body, Ins("ret", None, <<>>)), <<>>)

(* What can stand at a place: registers 2k + 1 and 2k + 2 are its own.     *)
Set(k, x) == <<Op(2 * k + 1, <<>>), StoreTo(2 * k + 1, x)>>
Get(k, x) == <<LoadOf(2 * k + 1, x), Use(<<2 * k + 1>>)>>
Step(k, x) == <<LoadOf(2 * k + 1, x), Op(2 * k + 2, <<2 * k + 1>>), StoreTo(2 * k + 2, x)>>
Move(k, x, y) == <<LoadOf(2 * k + 1, x), StoreTo(2 * k + 1, y)>>
MoveUse(k, x, y) == Move(k, x, y) \o <<LoadOf(2 * k + 2, y), Use(<<2 * k + 2>>)>>

Bodies(k) ==
  {<<>>, Set(k, X), Step(k, X), Get(k, X), MoveUse(k, X, Y), MoveUse(k, Y, X), Move(k, X, X)}

Entry == <<Slot(X), Slot(Y)>>
Both == Entry \o Set(1, X) \o Set(2, Y)

Function(blocks) == [params |-> 0, blocks |-> blocks]

Diamond(a, b, c) == Function(<<Fork(Both, 2, 3), Jump(a, 4), Jump(b, 4), Ret(c)>>)
While(a, b, c) == Function(<<Jump(Both, 2), Fork(a, 3, 4), Jump(b, 2), Ret(c)>>)

(* A loop with a break. *)
Break(a, b, c) ==
  Function(<<Jump(Both, 2), Fork(a, 3, 5), Fork(b, 4, 5), Jump(c, 2), Ret(Get(6, X) \o Get(7, Y))>>)

(* With two breaks the exit has three predecessors. *)
Breaks(a, b, c) ==
  Function(<<Jump(Both, 2), Fork(a, 3, 5), Fork(b, 4, 5), Fork(c, 2, 5), Ret(Get(6, X) \o Get(7, Y))>>)

(* A loop with two entries. *)
Goto(a, b, c) == Function(<<Fork(Both, 2, 3), Fork(a, 3, 4), Fork(b, 2, 4), Ret(c)>>)

(* Leaving by a return, with a branch behind it that nothing reaches. *)
Early(a, b, c) == Function(<<Fork(Both, 2, 3), Ret(a), Jump(b, 4), Ret(c), Jump(<<>>, 4)>>)

(* A while loop in a while loop. *)
Nested(a, b, c) ==
  Function(<<Jump(Both, 2), Fork(a, 3, 4), Jump(<<>>, 5), Ret(Get(6, X) \o Get(7, Y)),
             Fork(b, 6, 7), Jump(c, 5), Jump(<<>>, 2)>>)

(* Labels that two branches each lead to; the entry has five children. *)
Labels(a, b, c) ==
  Function(<<Fork(Both, 2, 3), Fork(a, 4, 5), Fork(<<>>, 5, 4), Jump(b, 6), Jump(c, 6), Ret(Get(6, X) \o Get(7, Y))>>)

Graphs ==
  UNION {{Diamond(a, b, c), While(a, b, c), Break(a, b, c), Goto(a, b, c), Early(a, b, c), Nested(a, b, c)} :
           a \in Bodies(3), b \in Bodies(4), c \in Bodies(5)}

ManyWays ==
  UNION {{Breaks(a, b, c), Labels(a, b, c)} :
           a \in {<<>>, Set(3, X)}, b \in {Step(4, X), MoveUse(4, X, Y)}, c \in {Step(5, X), Set(5, Y)}}

(* Three loops that end with their tests, each in the next: from the       *)
(* innermost there are ways back to the heads of all three.                *)
DoNested(a, b, c) ==
  Function(<<Jump(Both, 2), Jump(<<>>, 3), Jump(a, 4), Jump(b, 5),
             Fork(c, 4, 6), Fork(<<>>, 3, 7), Fork(<<>>, 2, 8), Ret(Get(6, X) \o Get(7, Y))>>)

DoLoops ==
  {DoNested(a, b, c) : a \in {<<>>, Set(3, X)}, b \in {<<>>, Get(4, X), Set(4, Y)}, c \in {Step(5, X), MoveUse(5, X, Y)}}

(* X is a char that is loaded and stored as one, or in a compound          *)
(* assignment as eight bytes, or as the int of the same name that another  *)
(* scope declares.                                                         *)
Retyped(p, load, store) ==
  [p EXCEPT !.blocks =
     [b \in DOMAIN p.blocks |->
        [p.blocks[b] EXCEPT !.code =
           [i \in DOMAIN p.blocks[b].code |->
              LET ins == p.blocks[b].code[i]
              IN  IF ins.op = "load" /\ ins.src[1] = X THEN [ins EXCEPT !.imm = load]
                  ELSE IF ins.op = "store" /\ ins.src[2] = X THEN [ins EXCEPT !.imm = store]
                  ELSE ins]]]]

Chars ==
  {Retyped(p, w[1], w[2]) :
     p \in UNION {{Diamond(a, b, c), While(a, b, c)} :
                    a \in {<<>>, Step(3, X), MoveUse(3, X, Y)}, b \in {<<>>, Set(4, X), Step(4, X)},
                    c \in {Get(5, X), MoveUse(5, Y, X)}},
     w \in {<<1, 1>>, <<1, 8>>, <<4, 1>>}}

(* X is loaded in one block and the value used in another, as the operand  *)
(* of a conditional expression is.                                         *)
Across(a, b, c, r) ==
  Function(<<Fork(Both \o a \o <<LoadOf(9, X), Use(<<9>>)>>, 2, 3), Jump(b, 4), Jump(c, 4),
             Ret(<<Phi(10, <<<<2, 3>>, <<3, r>>>>), Use(<<r>>), Use(<<10>>)>>)>>)

Acrosses ==
  {Across(a, b, c, r) : r \in {3, 9}, a \in Bodies(5), b \in {<<>>, Set(6, X), Set(6, Y)}, c \in {<<>>, Get(7, Y), Step(7, X)}}

(* P gets the address of X and may be passed to a call; Q, the first       *)
(* alloca, is a parameter.                                                 *)
P == 15
Q == 16

AddressTaken(a, b, c) ==
  [params |-> 1,
   blocks |-> <<ForkOn(14, <<Slot(Q), Slot(X), Slot(Y), Slot(P)>> \o Set(2, X) \o <<StoreTo(X, P)>> \o a
                               \o <<LoadOf(14, Q)>>, 2, 3),
                Jump(b, 4), Jump(c, 4), Ret(Get(6, X))>>]

Call(src) == <<Ins("call", None, src)>>
Through(k, r) == <<Op(2 * k + 1, <<>>), StoreTo(2 * k + 1, r)>>
Pointer(k, then) == <<LoadOf(2 * k + 1, P)>> \o then

AddressesTaken ==
  {AddressTaken(a, b, c) :
     a \in {<<>>, Call(<<X>>), <<LoadOf(13, Q), StoreTo(X, 13)>>},
     b \in {<<>>, Pointer(3, Call(<<7>>)), Pointer(3, Through(5, 7)), Pointer(3, <<LoadOf(8, 7), Use(<<8>>)>>)},
     c \in {<<>>, Set(4, X), Move(4, X, Y)}}

(* A conditional expression that selects an address. *)
Selected(r, s, then) ==
  Function(<<Fork(Both, 2, 3), Jump(<<Op(9, <<>>)>>, 4), Jump(<<Ins("copy", 10, <<Y>>)>>, 4),
             Ret(<<Phi(11, <<<<2, r>>, <<3, s>>>>)>> \o then \o Get(6, X) \o <<LoadOf(12, Y), Use(<<12>>)>>)>>)

Selects ==
  {Selected(r, s, then) :
     r \in {X, 9}, s \in {X, 10, 5}, then \in {Call(<<11>>), <<StoreTo(3, 11)>>, <<LoadOf(7, 11), Use(<<7>>)>>, <<Ins("ret", None, <<11>>)>>}}

AllFunctions == Graphs \cup ManyWays \cup DoLoops \cup Chars \cup Acrosses \cup AddressesTaken \cup Selects
=============================================================================
