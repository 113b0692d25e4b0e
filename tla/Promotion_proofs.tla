-------------------------- MODULE Promotion_proofs --------------------------
(***************************************************************************)
(* What promotion leaves alone, for every set of functions and all limits: *)
(* instructions other than accesses, the slots of the locals that escape,  *)
(* and the registers that are in use when phis are inserted; that the      *)
(* rounds find the immediate dominators; the types of the state; and that  *)
(* the phis at the iterated dominance frontier are enough.  For the last,  *)
(* PhiInv says which phis have been placed; where the tree is gone up      *)
(* through blocks that need no phi the top of the stack stays the same     *)
(* (SameTop); and renaming comes to every block (RenamedFacts).            *)
(***************************************************************************)
EXTENDS Promotion, TLAPS, FiniteSetTheorems, WellFoundedInduction, NaturalsInduction, SequenceTheorems

IsIns(ins) ==
  ins = [op |-> ins.op, dst |-> ins.dst, src |-> ins.src, from |-> ins.from, imm |-> ins.imm]

(* The code keeps its shape, and each place its instruction or nothing. *)
Shape ==
  /\ prog \in Programs
  /\ DOMAIN code = Blocks
  /\ \A b \in Blocks : DOMAIN code[b] = DOMAIN Source(b) /\ \A i \in DOMAIN Source(b) : IsIns(code[b][i])

(* While a local is renamed and rewritten, it is one that may go. *)
Chosen == phase \in {"rename", "rewrite"} => Head(todo) \notin escapes

(* Before the analysis has said which locals escape, nothing is rewritten. *)
Untouched == phase = "escape" => \A b \in Blocks : code[b] = Source(b)

CodeInv == Shape /\ Chosen /\ Untouched /\ OnlyAccessesGo /\ EscapingKeepsSlot

-----------------------------------------------------------------------------
LEMMA InitCode == Init => CodeInv
<1> SUFFICES ASSUME Init PROVE CodeInv
  OBVIOUS
<1>1. prog \in Programs /\ phase = "escape" /\ escapes = {} /\ code = [b \in Blocks |-> Source(b)]
  BY DEF Init
<1>2. ASSUME NEW b \in Blocks, NEW i \in DOMAIN Source(b)
      PROVE  Source(b)[i] \in Instructions
  <2> DEFINE T == [code : Seq(Instructions), succs : Seq(Nat)]
  <2>1. prog.blocks \in Seq(T)
    BY <1>1, ProgramsAssumption
  <2>2. prog.blocks[b] \in T
    <3> HIDE DEF T
    <3> QED
      BY <1>2, <2>1 DEF Blocks
  <2>3. Source(b) \in Seq(Instructions)
    BY <2>2 DEF Source
  <2> QED BY <1>2, <2>3
<1>3. ASSUME NEW ins \in Instructions PROVE IsIns(ins) /\ ins.op # "gone"
  BY DEF Instructions, IsIns, Ops
<1>4. Shape
  BY <1>1, <1>2, <1>3 DEF Shape
<1>5. OnlyAccessesGo /\ EscapingKeepsSlot
  BY <1>1 DEF OnlyAccessesGo, EscapingKeepsSlot
<1> QED BY <1>1, <1>4, <1>5 DEF CodeInv, Chosen, Untouched

(* Rewriting changes operands only. *)
LEMMA RewrittenKeeps ==
  ASSUME NEW ins, IsIns(ins)
  PROVE  /\ IsIns(Rewritten(ins)) /\ Rewritten(ins).op = ins.op /\ Rewritten(ins).dst = ins.dst
         /\ DOMAIN Rewritten(ins).src = DOMAIN ins.src
<1> DEFINE src == [k \in DOMAIN ins.src |-> Replaced(ins.src[k])]
           from == [k \in DOMAIN ins.from |-> <<ins.from[k][1], Replaced(ins.from[k][2])>>]
<1>1. Rewritten(ins) = [ins EXCEPT !.src = src, !.from = from]
  BY DEF Rewritten
<1>2. DOMAIN src = DOMAIN ins.src
  OBVIOUS
<1> HIDE DEF src, from
<1>3. Rewritten(ins) = [op |-> ins.op, dst |-> ins.dst, src |-> src, from |-> from, imm |-> ins.imm]
  BY <1>1 DEF IsIns
<1> QED BY <1>2, <1>3 DEF IsIns

(* The one action that changes the code. *)
LEMMA RewriteCode ==
  ASSUME CodeInv, Rewrite
  PROVE  CodeInv'
<1> DEFINE single == SingleBlock(Local)
           scope == IF single THEN {1} ELSE Reachable
           goes(ins) == IsAccess(IF single THEN ins ELSE Rewritten(ins), Local)
<1>1. /\ code' = [b \in Blocks |->
                    IF b \in scope
                    THEN [i \in DOMAIN code[b] |->
                            IF goes(code[b][i]) THEN Gone ELSE Rewritten(code[b][i])]
                    ELSE code[b]]
      /\ phase = "rewrite" /\ phase' = "promote"
      /\ prog' = prog /\ escapes' = escapes
  BY Zenon DEF Rewrite
<1>2. Blocks' = Blocks /\ \A b : Source(b)' = Source(b)
  BY <1>1 DEF Blocks, Source
<1>3. ASSUME NEW b \in Blocks, NEW i \in DOMAIN Source(b)
      PROVE  /\ code'[b][i] \in {code[b][i], Gone, Rewritten(code[b][i])}
             /\ DOMAIN code'[b] = DOMAIN code[b]
             /\ code'[b][i] = Gone => goes(code[b][i]) \/ code[b][i] = Gone
                                        \/ Rewritten(code[b][i]) = Gone
  <2> HIDE DEF scope, goes
  <2> QED BY <1>1, <1>3 DEF CodeInv, Shape
<1>4. IsIns(Gone) /\ Gone.op = "gone"
  BY DEF Gone, IsIns
<1>5. ASSUME NEW b \in Blocks, NEW i \in DOMAIN Source(b)
      PROVE  /\ IsIns(code'[b][i])
             /\ \/ /\ code'[b][i].op = code[b][i].op /\ code'[b][i].dst = code[b][i].dst
                   /\ DOMAIN code'[b][i].src = DOMAIN code[b][i].src
                \/ code'[b][i].op = "gone" /\ IsAccess(code[b][i], Local)
                \/ code'[b][i].op = "gone" /\ IsAccess(Rewritten(code[b][i]), Local)
  <2>1. IsIns(code[b][i])
    BY <1>5 DEF CodeInv, Shape
  <2>2. CASE code'[b][i] # Gone
    BY <1>3, <1>5, <2>1, <2>2, RewrittenKeeps
  <2>3. CASE code'[b][i] = Gone
    BY <1>3, <1>4, <1>5, <2>1, <2>3, RewrittenKeeps
  <2> QED BY <2>2, <2>3
<1>6. Shape'
  BY <1>1, <1>2, <1>3, <1>5 DEF CodeInv, Shape
<1>7. ASSUME NEW b \in Blocks, NEW i \in DOMAIN Source(b)
      PROVE  \/ /\ code'[b][i].op = code[b][i].op /\ code'[b][i].dst = code[b][i].dst
                /\ DOMAIN code'[b][i].src = DOMAIN code[b][i].src
             \/ /\ code'[b][i].op = "gone" /\ code[b][i].op \in {"load", "store", "alloca"}
                /\ code[b][i].op = "alloca" => code[b][i].dst = Local
  <2>1. IsIns(code[b][i])
    BY <1>7 DEF CodeInv, Shape
  <2>2. Rewritten(code[b][i]).op = code[b][i].op /\ Rewritten(code[b][i]).dst = code[b][i].dst
    BY <2>1, RewrittenKeeps
  <2> QED BY <1>5, <1>7, <2>2 DEF IsAccess
<1>8. ASSUME NEW b \in Blocks, NEW i \in DOMAIN Source(b)
      PROVE  \/ code'[b][i].op = "gone" /\ Source(b)[i].op \in {"alloca", "load", "store"}
             \/ /\ code'[b][i].op = Source(b)[i].op /\ code'[b][i].dst = Source(b)[i].dst
                /\ DOMAIN code'[b][i].src = DOMAIN Source(b)[i].src
  <2>1. \/ code[b][i].op = "gone" /\ Source(b)[i].op \in {"alloca", "load", "store"}
        \/ /\ code[b][i].op = Source(b)[i].op /\ code[b][i].dst = Source(b)[i].dst
           /\ DOMAIN code[b][i].src = DOMAIN Source(b)[i].src
    BY <1>8 DEF CodeInv, OnlyAccessesGo
  <2>2. CASE code'[b][i].op = code[b][i].op /\ code'[b][i].dst = code[b][i].dst
             /\ DOMAIN code'[b][i].src = DOMAIN code[b][i].src
    BY <2>1, <2>2
  <2>3. CASE code'[b][i].op = "gone" /\ code[b][i].op \in {"load", "store", "alloca"}
    BY <2>1, <2>3
  <2> QED BY <1>7, <1>8, <2>2, <2>3
<1>9. OnlyAccessesGo'
  BY <1>1, <1>2, <1>8 DEF OnlyAccessesGo
<1>10. ASSUME NEW b \in Blocks, NEW i \in DOMAIN Source(b),
              Source(b)[i].op = "alloca", Source(b)[i].dst \in escapes
       PROVE  code'[b][i].op = "alloca"
  <2>1. code[b][i].op = "alloca" /\ code[b][i].dst = Source(b)[i].dst
    <3>1. code[b][i].op = "alloca"
      BY <1>10 DEF CodeInv, EscapingKeepsSlot
    <3> QED BY <1>10, <3>1 DEF CodeInv, OnlyAccessesGo
  <2>2. Local \notin escapes
    BY <1>1 DEF CodeInv, Chosen, Local
  <2> QED BY <1>7, <1>10, <2>1, <2>2
<1>11. EscapingKeepsSlot'
  BY <1>1, <1>2, <1>10 DEF EscapingKeepsSlot
<1> QED BY <1>1, <1>6, <1>9, <1>11 DEF CodeInv, Chosen, Untouched

(* Every other step leaves the code as it is; the analysis comes first, and *)
(* a local that is renamed has passed the test.                             *)
LEMMA NextCode ==
  ASSUME CodeInv, [Next]_vars
  PROVE  CodeInv'
<1> USE DEF CodeInv
<1>1. CASE Analyse
  <2>1. prog' = prog /\ code' = code /\ phase = "escape" /\ phase' = "order"
    BY <1>1 DEF Analyse, rewritten
  <2> QED BY <2>1 DEF Shape, Chosen, Untouched, OnlyAccessesGo, EscapingKeepsSlot, Blocks, Source
<1>2. CASE Rewrite
  BY <1>2, RewriteCode
<1>3. ASSUME prog' = prog, code' = code, escapes' = escapes,
             phase' = "escape" => phase = "escape",
             phase' \in {"rename", "rewrite"} => Head(todo)' \notin escapes
      PROVE  CodeInv'
  BY <1>3 DEF Shape, Chosen, Untouched, OnlyAccessesGo, EscapingKeepsSlot, Blocks, Source
<1>4. CASE Expand \/ Leave
  <2>1. prog' = prog /\ code' = code /\ escapes' = escapes /\ phase' = phase /\ phase = "order"
    BY <1>4 DEF Expand, Leave, Searching, rewritten
  <2> QED BY <1>3, <2>1
<1>5. CASE Sweep
  <2>1. prog' = prog /\ code' = code /\ escapes' = escapes /\ phase' \in {"order", "promote"}
    BY <1>5 DEF Sweep, rewritten
  <2> QED BY <1>3, <2>1
<1>6. CASE PassOver
  <2>1. prog' = prog /\ code' = code /\ escapes' = escapes /\ phase' = "promote"
    BY <1>6 DEF PassOver, rewritten
  <2> QED BY <1>3, <2>1
<1>7. CASE Walk
  <2>1. /\ prog' = prog /\ code' = code /\ escapes' = escapes /\ todo' = todo
        /\ phase' = "rewrite" /\ Local \notin escapes
    BY <1>7, Zenon DEF Walk, Promotable
  <2> QED BY <1>3, <2>1 DEF Local
<1>8. CASE PlacePhis
  <2>1. /\ prog' = prog /\ code' = code /\ escapes' = escapes /\ todo' = todo
        /\ phase' = "rename" /\ Local \notin escapes
    BY <1>8, Zenon DEF PlacePhis, Promotable
  <2> QED BY <1>3, <2>1 DEF Local
<1>9. CASE RenameTree
  <2>1. /\ prog' = prog /\ code' = code /\ escapes' = escapes /\ todo' = todo
        /\ phase' = "rewrite" /\ phase = "rename"
    BY <1>9, Zenon DEF RenameTree
  <2> QED BY <1>3, <2>1 DEF Chosen
<1>10. CASE Start
  <2>1. prog' = prog /\ code' = code /\ escapes' = escapes /\ phase' = "run"
    BY <1>10 DEF Start, rewritten
  <2> QED BY <1>3, <2>1
<1>11. CASE Compute \/ Alloca \/ Copy \/ Load \/ Store \/ Branch \/ Return
  <2>1. prog' = prog /\ code' = code /\ escapes' = escapes /\ phase' = phase /\ phase = "run"
    BY <1>11, Zenon DEF Compute, Alloca, Copy, Load, Store, Branch, Return, Advance, Running, rewritten
  <2> QED BY <1>3, <2>1
<1>12. CASE Halt \/ UNCHANGED vars
  <2>1. prog' = prog /\ code' = code /\ escapes' = escapes /\ phase' = phase /\ todo' = todo
    BY <1>12 DEF Halt, vars, rewritten
  <2> QED BY <1>3, <2>1 DEF Chosen
<1> QED BY <1>1, <1>2, <1>4, <1>5, <1>6, <1>7, <1>8, <1>9, <1>10, <1>11, <1>12 DEF Next

(* Promotion removes loads, stores and allocas and nothing else: no other  *)
(* instruction is lost, moved or made to define something else.            *)
THEOREM PromotionKeepsTheRest == Spec => []OnlyAccessesGo
<1>1. CodeInv => OnlyAccessesGo
  BY DEF CodeInv
<1> QED BY <1>1, InitCode, NextCode, PTL DEF Spec

(* What escape analysis finds to escape, and every parameter, is in memory *)
(* to the end.                                                             *)
THEOREM EscapingStaysInMemory == Spec => []EscapingKeepsSlot
<1>1. CodeInv => EscapingKeepsSlot
  BY DEF CodeInv
<1> QED BY <1>1, InitCode, NextCode, PTL DEF Spec

-----------------------------------------------------------------------------
(* A set of numbers has a least one.                                       *)
LEMMA Least ==
  ASSUME NEW M \in SUBSET Nat, M # {}
  PROVE  \E m \in M : \A k \in M : m <= k
<1> DEFINE R == OpToRel(<, Nat)
<1>1. PICK m \in M : \A k \in M : <<k, m>> \notin R
  <2> HIDE DEF R
  <2>1. IsWellFoundedOn(R, Nat)
    BY NatLessThanWellFounded DEF R
  <2> QED
    BY <2>1, WFMin
<1>2. \A k \in M : ~(k < m)
  BY <1>1 DEF OpToRel
<1> QED
  BY <1>2

(* Induction up to L, for the set of numbers that have some property. *)
LEMMA StepByStep ==
  ASSUME NEW L \in Nat, NEW H \in SUBSET (0 .. L), 0 \in H,
         \A n \in 0 .. L : n \in H /\ n < L => n + 1 \in H
  PROVE  H = 0 .. L
<1> DEFINE M == (0 .. L) \ H
<1> SUFFICES ASSUME M # {} PROVE FALSE
  OBVIOUS
<1>1. PICK m \in M : \A k \in M : m <= k
  <2>1. M \in SUBSET Nat
    OBVIOUS
  <2> HIDE DEF M
  <2> QED
    BY <2>1, Least
<1>2. m \in 1 .. L
  BY <1>1
<1>3. m - 1 \in 0 .. L /\ m - 1 < L /\ m - 1 + 1 = m /\ ~(m <= m - 1)
  BY <1>2
<1>4. m - 1 \in H
  BY <1>1, <1>3
<1>5. m \in H
  BY <1>3, <1>4
<1> QED
  BY <1>1, <1>5

(* f goes from a through L steps, of which n is given by G with n. *)
Follows(f, A, a, G, L) ==
  f \in [0 .. L -> A] /\ f[0] = a /\ \A n \in 1 .. L : f[n] = G[<<n, f[n - 1]>>]

(* Whatever the steps are, there is such an f.                             *)
LEMMA Recursion ==
  ASSUME NEW A, NEW a \in A, NEW L \in Nat, NEW G \in [(1 .. L) \X A -> A]
  PROVE  \E f : Follows(f, A, a, G, L)
<1> DEFINE H == {n \in 0 .. L : \E f : Follows(f, A, a, G, n)}
<1>1. 0 \in H
  <2> DEFINE f == [i \in 0 .. 0 |-> a]
  <2>1. f \in [0 .. 0 -> A] /\ f[0] = a /\ \A i \in 1 .. 0 : f[i] = G[<<i, f[i - 1]>>]
    OBVIOUS
  <2> HIDE DEF f
  <2>2. Follows(f, A, a, G, 0)
    BY <2>1 DEF Follows
  <2> QED
    BY <2>2
<1>2. ASSUME NEW n \in 0 .. L, n \in H, n < L PROVE n + 1 \in H
  <2>1. PICK f : Follows(f, A, a, G, n)
    BY <1>2
  <2>2. f \in [0 .. n -> A] /\ f[0] = a /\ \A i \in 1 .. n : f[i] = G[<<i, f[i - 1]>>]
    BY <2>1 DEF Follows
  <2> DEFINE g == [i \in 0 .. (n + 1) |-> IF i = n + 1 THEN G[<<n + 1, f[n]>>] ELSE f[i]]
  <2>3. n \in Nat /\ n + 1 \in 1 .. L /\ n + 1 \in 0 .. L /\ f[n] \in A
    BY <1>2, <2>2
  <2>4. G[<<n + 1, f[n]>>] \in A
    BY <2>3
  <2>5. g \in [0 .. (n + 1) -> A]
    BY <2>2, <2>3, <2>4
  <2>6. g[0] = a
    BY <2>2, <2>3
  <2>7. ASSUME NEW i \in 1 .. (n + 1) PROVE g[i] = G[<<i, g[i - 1]>>]
    <3>1. CASE i = n + 1
      <4>1. i - 1 = n /\ g[i - 1] = f[n] /\ g[i] = G[<<n + 1, f[n]>>]
        BY <2>3, <3>1
      <4> QED
        BY <3>1, <4>1
    <3>2. CASE i # n + 1
      <4>1. i \in 1 .. n /\ i - 1 \in 0 .. n /\ i - 1 # n + 1
        BY <2>3, <3>2
      <4>2. g[i] = f[i] /\ g[i - 1] = f[i - 1]
        BY <2>3, <3>2, <4>1
      <4> QED
        BY <2>2, <4>1, <4>2
    <3> QED
      BY <3>1, <3>2
  <2> HIDE DEF g
  <2>8. Follows(g, A, a, G, n + 1)
    BY <2>5, <2>6, <2>7 DEF Follows
  <2> QED
    BY <2>3, <2>8
<1>3. L \in H
  <2>1. H \in SUBSET (0 .. L)
    OBVIOUS
  <2> HIDE DEF H
  <2>2. H = 0 .. L
    BY <1>1, <1>2, <2>1, StepByStep
  <2> QED
    BY <2>2
<1> QED
  BY <1>3

(* What satisfies the equations is such an f. *)
LEMMA RecursionType ==
  ASSUME NEW A, NEW a \in A, NEW L \in Nat, NEW G \in [(1 .. L) \X A -> A], NEW f,
         f = [n \in 0 .. L |-> f[n]], f[0] = a,
         \A n \in 1 .. L : f[n - 1] \in A => f[n] = G[<<n, f[n - 1]>>]
  PROVE  Follows(f, A, a, G, L)
<1> DEFINE H == {n \in 0 .. L : f[n] \in A}
<1>1. H = 0 .. L
  <2>1. 0 \in H /\ H \in SUBSET (0 .. L)
    OBVIOUS
  <2>2. ASSUME NEW n \in 0 .. L, n \in H, n < L PROVE n + 1 \in H
    <3>1. n + 1 \in 1 .. L /\ n + 1 - 1 = n /\ n + 1 \in 0 .. L /\ f[n] \in A
      BY <2>2
    <3>2. f[n + 1] = G[<<n + 1, f[n]>>]
      <4> DEFINE m == n + 1
      <4>1. m \in 1 .. L /\ m - 1 = n
        BY <3>1
      <4>2. f[m - 1] \in A
        BY <3>1, <4>1
      <4> HIDE DEF m
      <4>3. f[m] = G[<<m, f[m - 1]>>]
        BY <4>1, <4>2
      <4> QED
        BY <4>1, <4>3 DEF m
    <3>3. <<n + 1, f[n]>> \in (1 .. L) \X A
      BY <3>1
    <3>4. G[<<n + 1, f[n]>>] \in A
      BY <3>3
    <3> QED
      BY <3>1, <3>2, <3>4
  <2> HIDE DEF H
  <2> QED
    BY <2>1, <2>2, StepByStep
<1>2. \A n \in 0 .. L : f[n] \in A
  BY <1>1
<1>3. f \in [0 .. L -> A]
  BY <1>2
<1>4. \A n \in 1 .. L : n - 1 \in 0 .. L
  OBVIOUS
<1>5. \A n \in 1 .. L : f[n] = G[<<n, f[n - 1]>>]
  BY <1>2, <1>4
<1> QED
  BY <1>3, <1>5 DEF Follows

-----------------------------------------------------------------------------
(* Sets of blocks that grow until nothing is added. *)
Spreads(f, B, a, G, N) ==
  f \in [0 .. N -> SUBSET B] /\ f[0] = a /\ \A n \in 1 .. N : f[n] = G[f[n - 1]]

(* c is the least set that takes in a and what G adds to its parts. *)
IsLeast(c, B, a, G) ==
  /\ c \in SUBSET B /\ a \subseteq c /\ G[c] = c
  /\ \A S : a \subseteq S /\ (\A X \in SUBSET B : X \subseteq S => G[X] \subseteq S) => c \subseteq S

(* With as many rounds as there are blocks nothing is left to add, and     *)
(* what has been added is in every set that takes in the first ones and    *)
(* what is added to its parts.                                             *)
LEMMA Spread ==
  ASSUME NEW B, IsFiniteSet(B), NEW N \in Nat, Cardinality(B) <= N,
         NEW a \in SUBSET B, NEW G \in [SUBSET B -> SUBSET B], \A X \in SUBSET B : X \subseteq G[X],
         NEW f, Spreads(f, B, a, G, N)
  PROVE  IsLeast(f[N], B, a, G)
<1>1. f \in [0 .. N -> SUBSET B] /\ f[0] = a /\ \A n \in 1 .. N : f[n] = G[f[n - 1]]
  BY DEF Spreads
<1>2. ASSUME NEW n \in 0 .. N, n < N
      PROVE  n + 1 \in 0 .. N /\ f[n + 1] = G[f[n]] /\ f[n] \subseteq f[n + 1]
  <2>1. n + 1 \in 1 .. N /\ n + 1 - 1 = n /\ n + 1 \in 0 .. N
    BY <1>2
  <2>2. f[n + 1] = G[f[n]] /\ f[n] \in SUBSET B
    BY <1>1, <2>1
  <2> QED
    BY <2>1, <2>2
<1>3. a \subseteq f[N]
  <2> DEFINE H == {n \in 0 .. N : a \subseteq f[n]}
  <2>1. 0 \in H /\ H \in SUBSET (0 .. N)
    BY <1>1
  <2>2. \A n \in 0 .. N : n \in H /\ n < N => n + 1 \in H
    BY <1>2
  <2>3. H = 0 .. N
    <3> HIDE DEF H
    <3> QED
      BY <2>1, <2>2, StepByStep
  <2> QED
    BY <2>3
<1>4. \A n \in 0 .. N : IsFiniteSet(f[n]) /\ Cardinality(f[n]) \in Nat
  <2> SUFFICES ASSUME NEW n \in 0 .. N PROVE IsFiniteSet(f[n]) /\ Cardinality(f[n]) \in Nat
    OBVIOUS
  <2>1. f[n] \in SUBSET B
    BY <1>1
  <2>2. IsFiniteSet(f[n])
    BY <2>1, FS_Subset
  <2> QED
    BY <2>2, FS_CardinalityType
<1>5. G[f[N]] = f[N] \/ Cardinality(f[N]) >= N
  <2> DEFINE H == {n \in 0 .. N : G[f[n]] = f[n] \/ Cardinality(f[n]) >= n}
  <2>1. 0 \in H
    BY <1>4
  <2>2. ASSUME NEW n \in 0 .. N, n \in H, n < N PROVE n + 1 \in H
    <3>1. n + 1 \in 0 .. N /\ f[n + 1] = G[f[n]] /\ f[n] \subseteq f[n + 1]
      BY <1>2, <2>2
    <3>2. CASE f[n + 1] = f[n]
      <4>1. G[f[n + 1]] = f[n + 1]
        BY <3>1, <3>2
      <4> QED
        BY <3>1, <4>1
    <3>3. CASE f[n + 1] # f[n]
      <4>1. Cardinality(f[n]) >= n
        BY <2>2, <3>1, <3>3
      <4>2. IsFiniteSet(f[n + 1]) /\ Cardinality(f[n]) \in Nat /\ Cardinality(f[n + 1]) \in Nat
        BY <1>4, <3>1
      <4>3. f[n] \in SUBSET f[n + 1]
        BY <3>1
      <4>4. /\ Cardinality(f[n]) <= Cardinality(f[n + 1])
            /\ Cardinality(f[n + 1]) = Cardinality(f[n]) => f[n + 1] = f[n]
        BY <4>2, <4>3, FS_Subset
      <4>5. Cardinality(f[n + 1]) >= n + 1
        BY <3>3, <4>1, <4>2, <4>4
      <4> QED
        BY <3>1, <4>5
    <3> QED
      BY <3>2, <3>3
  <2>3. H = 0 .. N
    <3>1. H \in SUBSET (0 .. N)
      OBVIOUS
    <3> HIDE DEF H
    <3> QED
      BY <2>1, <2>2, <3>1, StepByStep
  <2>4. N \in H
    BY <2>3
  <2> QED
    BY <2>4
<1>6. f[N] \in SUBSET B
  BY <1>1
<1>7. G[f[N]] = f[N]
  <2>1. CASE Cardinality(f[N]) >= N
    <3>1. Cardinality(f[N]) \in Nat /\ Cardinality(B) \in Nat
      BY <1>4, FS_CardinalityType
    <3>2. /\ Cardinality(f[N]) <= Cardinality(B)
          /\ Cardinality(B) = Cardinality(f[N]) => B = f[N]
      BY <1>6, <3>1, FS_Subset
    <3>3. f[N] = B
      BY <2>1, <3>1, <3>2
    <3>4. G[f[N]] \in SUBSET B /\ f[N] \subseteq G[f[N]]
      BY <1>6
    <3> QED
      BY <3>3, <3>4
  <2> QED
    BY <1>5, <2>1
<1>8. ASSUME NEW S, a \subseteq S, \A X \in SUBSET B : X \subseteq S => G[X] \subseteq S
      PROVE  f[N] \subseteq S
  <2> DEFINE H == {n \in 0 .. N : f[n] \subseteq S}
  <2>1. 0 \in H /\ H \in SUBSET (0 .. N)
    BY <1>1, <1>8
  <2>2. ASSUME NEW n \in 0 .. N, n \in H, n < N PROVE n + 1 \in H
    <3>1. f[n] \in SUBSET B /\ f[n] \subseteq S
      BY <1>1, <2>2
    <3> QED
      BY <1>2, <1>8, <2>2, <3>1
  <2>3. H = 0 .. N
    <3> HIDE DEF H
    <3> QED
      BY <2>1, <2>2, StepByStep
  <2> QED
    BY <2>3
<1> QED
  BY <1>3, <1>6, <1>7, <1>8 DEF IsLeast

(* The equations have a solution, and it is one of these. *)
LEMMA SpreadExists ==
  ASSUME NEW B, NEW N \in Nat, NEW a \in SUBSET B, NEW G \in [SUBSET B -> SUBSET B]
  PROVE  \E f : Spreads(f, B, a, G, N)
<1> DEFINE A == SUBSET B
           F == [p \in (1 .. N) \X A |-> G[p[2]]]
<1>1. F \in [(1 .. N) \X A -> A] /\ a \in A
  OBVIOUS
<1>2. PICK f : Follows(f, A, a, F, N)
  <2> HIDE DEF A, F
  <2> QED
    BY <1>1, Recursion
<1>3. f \in [0 .. N -> A] /\ f[0] = a /\ \A n \in 1 .. N : f[n] = F[<<n, f[n - 1]>>]
  BY <1>2 DEF Follows
<1>4. \A n \in 1 .. N : f[n - 1] \in A
  BY <1>3
<1>5. \A n \in 1 .. N : f[n] = G[f[n - 1]]
  BY <1>3, <1>4
<1> QED
  BY <1>3, <1>5 DEF Spreads

(* What satisfies the equations spreads.                                   *)
LEMMA SpreadType ==
  ASSUME NEW B, NEW N \in Nat, NEW a \in SUBSET B, NEW G \in [SUBSET B -> SUBSET B], NEW f,
         f = [n \in 0 .. N |-> f[n]], f[0] = a,
         \A n \in 1 .. N : f[n - 1] \in SUBSET B => f[n] = G[f[n - 1]]
  PROVE  Spreads(f, B, a, G, N)
<1> DEFINE A == SUBSET B
           F == [p \in (1 .. N) \X A |-> G[p[2]]]
<1>1. F \in [(1 .. N) \X A -> A] /\ a \in A
  OBVIOUS
<1>2. \A n \in 1 .. N : f[n - 1] \in A => f[n] = F[<<n, f[n - 1]>>]
  OBVIOUS
<1>3. Follows(f, A, a, F, N)
  <2> HIDE DEF A, F
  <2> QED
    BY <1>1, <1>2, RecursionType
<1>4. f \in [0 .. N -> A]
  BY <1>3 DEF Follows
<1>5. \A n \in 1 .. N : f[n - 1] \in A
  BY <1>4
<1> QED
  BY <1>4, <1>5 DEF Spreads

-----------------------------------------------------------------------------
(* The blocks of a function, and where they lead.                          *)
LEMMA BlocksFacts ==
  ASSUME prog \in Programs
  PROVE  /\ Len(prog.blocks) \in Nat /\ Blocks = 1 .. Len(prog.blocks)
         /\ IsFiniteSet(Blocks) /\ Cardinality(Blocks) = Len(prog.blocks)
         /\ 1 \in Blocks
         /\ \A b \in Blocks : /\ Source(b) \in Seq(Instructions) /\ prog.blocks[b].succs \in Seq(Nat)
                              /\ Succs(b) \subseteq Blocks \ {1}
<1> DEFINE T == [code : Seq(Instructions), succs : Seq(Nat)]
<1>1. prog.blocks \in Seq(T) /\ 1 \in DOMAIN prog.blocks
  BY ProgramsAssumption
<1>2. Len(prog.blocks) \in Nat /\ Blocks = 1 .. Len(prog.blocks) /\ 1 \in Blocks
  <2> HIDE DEF T
  <2> QED
    BY <1>1 DEF Blocks
<1>3. ASSUME NEW b \in Blocks
      PROVE  Source(b) \in Seq(Instructions) /\ prog.blocks[b].succs \in Seq(Nat)
  <2>1. prog.blocks[b] \in T
    <3> HIDE DEF T
    <3> QED
      BY <1>1, <1>3 DEF Blocks
  <2> QED
    BY <2>1 DEF Source
<1>4. ASSUME NEW b \in Blocks, NEW t \in Succs(b) PROVE t \in Blocks \ {1}
  <2>1. PICK k \in DOMAIN prog.blocks[b].succs : t = prog.blocks[b].succs[k]
    BY <1>4 DEF Succs
  <2>2. prog.blocks[b].succs[k] \in DOMAIN prog.blocks \ {1}
    BY <1>4, <2>1, ProgramsAssumption DEF Blocks
  <2> QED
    BY <2>1, <2>2 DEF Blocks
<1>5. IsFiniteSet(1 .. Len(prog.blocks)) /\ Cardinality(1 .. Len(prog.blocks)) = Len(prog.blocks)
  BY <1>2, FS_Interval
<1> QED
  BY <1>2, <1>3, <1>4, <1>5

(* What is reached from a set of blocks contains it and what a step leads  *)
(* to from its members, and is the least set of that kind.                 *)
LEMMA ClosureFacts ==
  ASSUME prog \in Programs, NEW from \in SUBSET Blocks, NEW step \in [Blocks -> SUBSET Blocks]
  PROVE  /\ Closure(from, step) \subseteq Blocks /\ from \subseteq Closure(from, step)
         /\ \A b \in Closure(from, step) : step[b] \subseteq Closure(from, step)
         /\ \A S : from \subseteq S /\ (\A b \in Blocks : b \in S => step[b] \subseteq S)
                     => Closure(from, step) \subseteq S
<1> DEFINE N == Len(prog.blocks)
           Grow(c) == c \cup UNION {step[b] : b \in c}
           G == [X \in SUBSET Blocks |-> Grow(X)]
           closure[n \in 0 .. N] ==
             IF n = 0 THEN from
             ELSE LET c == closure[n - 1] IN c \cup UNION {step[b] : b \in c}
<1>1. Closure(from, step) = closure[N]
  BY DEF Closure
<1>2. N \in Nat /\ IsFiniteSet(Blocks) /\ Cardinality(Blocks) <= N
  BY BlocksFacts
<1>3. G \in [SUBSET Blocks -> SUBSET Blocks]
  <2> SUFFICES ASSUME NEW X \in SUBSET Blocks PROVE Grow(X) \in SUBSET Blocks
    OBVIOUS
  <2> QED
    OBVIOUS
<1>4. PICK f : Spreads(f, Blocks, from, G, N)
  <2> HIDE DEF G, N
  <2> QED
    BY <1>2, <1>3, SpreadExists
<1>5. /\ f \in [0 .. N -> SUBSET Blocks] /\ f[0] = from
      /\ \A n \in 1 .. N : f[n] = G[f[n - 1]]
  BY <1>4 DEF Spreads
<1>6. f = [n \in 0 .. N |->
             IF n = 0 THEN from ELSE LET c == f[n - 1] IN c \cup UNION {step[b] : b \in c}]
  <2>1. ASSUME NEW n \in 1 .. N PROVE f[n] = Grow(f[n - 1])
    <3>1. f[n - 1] \in SUBSET Blocks
      BY <1>5
    <3> QED
      BY <1>5, <3>1
  <2>2. \A n \in 0 .. N :
          f[n] = IF n = 0 THEN from ELSE LET c == f[n - 1] IN c \cup UNION {step[b] : b \in c}
    <3> SUFFICES ASSUME NEW n \in 0 .. N
                 PROVE  f[n] = IF n = 0 THEN from ELSE Grow(f[n - 1])
      OBVIOUS
    <3>1. CASE n = 0
      BY <1>5, <3>1
    <3>2. CASE n # 0
      <4>1. n \in 1 .. N
        BY <3>2
      <4> QED
        BY <2>1, <3>2, <4>1
    <3> QED
      BY <3>1, <3>2
  <2> QED
    BY <1>5, <2>2
<1>7. closure = [n \in 0 .. N |->
                   IF n = 0 THEN from
                   ELSE LET c == closure[n - 1] IN c \cup UNION {step[b] : b \in c}]
  BY <1>6
<1> HIDE DEF closure
<1>8. closure[0] = from /\ \A n \in 1 .. N : closure[n] = Grow(closure[n - 1])
  <2>1. \A n \in 0 .. N : closure[n] = IF n = 0 THEN from ELSE Grow(closure[n - 1])
    BY <1>7
  <2>2. 0 \in 0 .. N
    BY <1>2
  <2>3. ASSUME NEW n \in 1 .. N PROVE closure[n] = Grow(closure[n - 1])
    <3>1. n \in 0 .. N /\ n # 0
      OBVIOUS
    <3> QED
      BY <2>1, <3>1
  <2> QED
    BY <2>1, <2>2, <2>3
<1>9. Spreads(closure, Blocks, from, G, N)
  <2>1. \A n \in 1 .. N : closure[n - 1] \in SUBSET Blocks => closure[n] = G[closure[n - 1]]
    BY <1>8
  <2>2. closure = [n \in 0 .. N |-> closure[n]]
    BY <1>7
  <2> HIDE DEF G, N, Grow
  <2> QED
    BY <1>2, <1>3, <1>8, <2>1, <2>2, SpreadType
<1>10. \A X \in SUBSET Blocks : X \subseteq G[X]
  OBVIOUS
<1>11. IsLeast(closure[N], Blocks, from, G)
  <2>1. from \in SUBSET Blocks
    OBVIOUS
  <2> HIDE DEF G, N, Grow
  <2> QED
    BY <1>2, <1>3, <1>9, <1>10, <2>1, Spread
<1>12. \A b \in closure[N] : step[b] \subseteq closure[N]
  <2>1. Grow(closure[N]) = closure[N]
    BY <1>11 DEF IsLeast
  <2> HIDE DEF N
  <2> QED
    BY <2>1
<1>13. ASSUME NEW S, from \subseteq S, \A b \in Blocks : b \in S => step[b] \subseteq S
       PROVE  closure[N] \subseteq S
  <2>1. ASSUME NEW X \in SUBSET Blocks, X \subseteq S PROVE G[X] \subseteq S
    <3>1. G[X] = Grow(X)
      BY <2>1
    <3>2. \A b \in X : step[b] \subseteq S
      BY <1>13, <2>1
    <3> QED
      BY <2>1, <3>1, <3>2
  <2> HIDE DEF G, N
  <2> QED
    BY <1>11, <1>13, <2>1, Zenon DEF IsLeast
<1> QED
  <2> DEFINE C == closure[N]
  <2>1. C \in SUBSET Blocks /\ from \subseteq C /\ \A b \in C : step[b] \subseteq C
    BY <1>11, <1>12 DEF IsLeast
  <2>2. \A S : from \subseteq S /\ (\A b \in Blocks : b \in S => step[b] \subseteq S) => C \subseteq S
    BY <1>13
  <2>3. Closure(from, step) = C
    BY <1>1
  <2> HIDE DEF C
  <2> QED
    BY <2>1, <2>2, <2>3

-----------------------------------------------------------------------------
(* The blocks that can be reached are those of the least set that contains *)
(* the entry and the successors of its members.                            *)
LEMMA ReachableFacts ==
  ASSUME prog \in Programs
  PROVE  /\ Reachable \subseteq Blocks /\ 1 \in Reachable
         /\ \A b \in Reachable : Succs(b) \subseteq Reachable
         /\ \A S : 1 \in S /\ (\A b \in Blocks : b \in S => Succs(b) \subseteq S) => Reachable \subseteq S
<1> DEFINE step == [b \in Blocks |-> Succs(b)]
<1>1. step \in [Blocks -> SUBSET Blocks] /\ {1} \in SUBSET Blocks
  <2>1. \A b \in Blocks : Succs(b) \in SUBSET Blocks
    BY BlocksFacts
  <2> QED
    BY <2>1, BlocksFacts
<1>2. Reachable = Closure({1}, step)
  BY DEF Reachable
<1>3. \A b \in Blocks : step[b] = Succs(b)
  OBVIOUS
<1> HIDE DEF step
<1>4. /\ Reachable \subseteq Blocks /\ {1} \subseteq Reachable
      /\ \A b \in Reachable : step[b] \subseteq Reachable
      /\ \A S : {1} \subseteq S /\ (\A b \in Blocks : b \in S => step[b] \subseteq S) => Reachable \subseteq S
  BY <1>1, <1>2, ClosureFacts
<1> QED
  BY <1>3, <1>4

(* The blocks that are reached without going through d. *)
Avoiding(d) == Closure({1} \ {d}, [c \in Blocks |-> Succs(c) \ {d}])

(* The blocks reached without d: the least set that has the entry and what *)
(* its blocks lead to.                                                     *)
LEMMA AvoidingFacts ==
  ASSUME prog \in Programs, NEW d
  PROVE  /\ Avoiding(d) \subseteq Blocks \ {d} /\ (d # 1 => 1 \in Avoiding(d))
         /\ \A b \in Avoiding(d) : Succs(b) \ {d} \subseteq Avoiding(d)
         /\ \A S : {1} \ {d} \subseteq S /\ (\A b \in Blocks : b \in S => Succs(b) \ {d} \subseteq S)
                     => Avoiding(d) \subseteq S
         /\ \A b : Dominates(d, b) <=> b \notin Avoiding(d)
<1> DEFINE step == [b \in Blocks |-> Succs(b) \ {d}]
<1>1. step \in [Blocks -> SUBSET Blocks] /\ {1} \ {d} \in SUBSET Blocks
  BY BlocksFacts
<1>2. Avoiding(d) = Closure({1} \ {d}, step)
  BY DEF Avoiding
<1>3. \A b \in Blocks : step[b] = Succs(b) \ {d}
  OBVIOUS
<1>4. \A b : Dominates(d, b) <=> b \notin Avoiding(d)
  BY DEF Dominates, Avoiding
<1> HIDE DEF step
<1>5. /\ Avoiding(d) \subseteq Blocks /\ {1} \ {d} \subseteq Avoiding(d)
      /\ \A b \in Avoiding(d) : step[b] \subseteq Avoiding(d)
      /\ \A S : {1} \ {d} \subseteq S /\ (\A b \in Blocks : b \in S => step[b] \subseteq S)
                  => Avoiding(d) \subseteq S
  BY <1>1, <1>2, ClosureFacts
<1>6. Avoiding(d) \subseteq Blocks \ {d}
  <2> DEFINE S == Blocks \ {d}
  <2>1. {1} \ {d} \subseteq S /\ \A b \in Blocks : b \in S => step[b] \subseteq S
    BY <1>1, <1>3
  <2> HIDE DEF S
  <2>2. Avoiding(d) \subseteq S
    BY <1>5, <2>1
  <2> QED
    BY <2>2 DEF S
<1> QED
  BY <1>3, <1>4, <1>5, <1>6

(* What dominates a block, other than itself, dominates its predecessors;  *)
(* only the entry dominates the entry.                                     *)
LEMMA DominatesFacts ==
  ASSUME prog \in Programs, NEW d
  PROVE  /\ Dominates(d, d) /\ (Dominates(d, 1) => d = 1)
         /\ \A t \in Blocks \ {d}, p \in Blocks : Dominates(d, t) /\ t \in Succs(p) => Dominates(d, p)
BY AvoidingFacts, BlocksFacts

-----------------------------------------------------------------------------
(* What is pushed: the successors that are neither visited nor b.          *)
LEMMA PushedFacts ==
  ASSUME prog \in Programs, NEW b \in Blocks
  PROVE  /\ Pushed(b) \in Seq([block : Succs(b), expanded : {FALSE}])
         /\ \A s \in Succs(b) : s \in visited \cup {b} \/ \E k \in DOMAIN Pushed(b) : Pushed(b)[k].block = s
<1> DEFINE succs == prog.blocks[b].succs
           L == Len(succs)
           T == [block : Succs(b), expanded : {FALSE}]
           One(k, w) == LET s == succs[L + 1 - k]
                        IN  IF s \in visited \cup {b} THEN w
                            ELSE Append(w, [block |-> s, expanded |-> FALSE])
           G == [p \in (1 .. L) \X Seq(T) |-> One(p[1], p[2])]
           pushed[k \in 0 .. L] == IF k = 0 THEN <<>> ELSE One(k, pushed[k - 1])
<1>1. Pushed(b) = pushed[L]
  BY DEF Pushed
<1>2. L \in Nat /\ \A k \in 1 .. L : succs[L + 1 - k] \in Succs(b)
  <2>1. succs \in Seq(Nat)
    BY BlocksFacts
  <2>2. L \in Nat /\ DOMAIN succs = 1 .. L
    BY <2>1
  <2>3. \A k \in 1 .. L : L + 1 - k \in 1 .. L
    BY <2>2
  <2> QED
    BY <2>2, <2>3 DEF Succs
<1>3. G \in [(1 .. L) \X Seq(T) -> Seq(T)] /\ <<>> \in Seq(T)
  <2>1. ASSUME NEW k \in 1 .. L, NEW w \in Seq(T) PROVE One(k, w) \in Seq(T)
    <3>1. [block |-> succs[L + 1 - k], expanded |-> FALSE] \in T
      BY <1>2
    <3> HIDE DEF T
    <3> QED
      BY <3>1
  <2> HIDE DEF T, L, One
  <2> QED
    BY <2>1
<1>4. PICK f : Follows(f, Seq(T), <<>>, G, L)
  <2> HIDE DEF G, L, T
  <2> QED
    BY <1>2, <1>3, Recursion
<1>5. f \in [0 .. L -> Seq(T)] /\ f[0] = <<>> /\ \A k \in 1 .. L : f[k] = One(k, f[k - 1])
  <2>1. f \in [0 .. L -> Seq(T)] /\ f[0] = <<>> /\ \A k \in 1 .. L : f[k] = G[<<k, f[k - 1]>>]
    BY <1>4 DEF Follows
  <2>2. \A k \in 1 .. L : f[k - 1] \in Seq(T)
    <3> HIDE DEF L, T
    <3> QED
      BY <1>2, <2>1
  <2>3. \A k \in 1 .. L : G[<<k, f[k - 1]>>] = One(k, f[k - 1])
    <3> HIDE DEF One, L, T
    <3> QED
      BY <2>2
  <2> HIDE DEF One, G
  <2> QED
    BY <2>1, <2>3
<1>6. f = [k \in 0 .. L |-> IF k = 0 THEN <<>> ELSE One(k, f[k - 1])]
  <2> HIDE DEF One
  <2>1. \A k \in 0 .. L : f[k] = IF k = 0 THEN <<>> ELSE One(k, f[k - 1])
    <3> SUFFICES ASSUME NEW k \in 0 .. L PROVE f[k] = IF k = 0 THEN <<>> ELSE One(k, f[k - 1])
      OBVIOUS
    <3>1. k # 0 => k \in 1 .. L
      OBVIOUS
    <3> QED
      BY <1>5, <3>1
  <2> QED
    BY <1>5, <2>1
<1>7. pushed = [k \in 0 .. L |-> IF k = 0 THEN <<>> ELSE One(k, pushed[k - 1])]
  <2> HIDE DEF One
  <2> QED
    BY <1>6
<1> HIDE DEF pushed
<1>8. pushed[0] = <<>> /\ \A k \in 1 .. L : pushed[k] = One(k, pushed[k - 1])
  <2> HIDE DEF One
  <2>1. \A k \in 0 .. L : pushed[k] = IF k = 0 THEN <<>> ELSE One(k, pushed[k - 1])
    BY <1>7
  <2>2. 0 \in 0 .. L /\ \A k \in 1 .. L : k \in 0 .. L /\ k # 0
    BY <1>2
  <2> QED
    BY <2>1, <2>2
<1>9. pushed \in [0 .. L -> Seq(T)]
  <2>1. \A k \in 1 .. L : pushed[k - 1] \in Seq(T) => pushed[k] = G[<<k, pushed[k - 1]>>]
    <3> HIDE DEF One, L, T
    <3> QED
      BY <1>8
  <2>2. pushed = [k \in 0 .. L |-> pushed[k]]
    <3> HIDE DEF One
    <3> QED
      BY <1>7
  <2>3. Follows(pushed, Seq(T), <<>>, G, L)
    <3> HIDE DEF G, L, T, One
    <3> QED
      BY <1>2, <1>3, <1>8, <2>1, <2>2, RecursionType
  <2> QED
    BY <2>3 DEF Follows
<1>10. \A n \in 0 .. L : \A k \in 1 .. n :
         succs[L + 1 - k] \in visited \cup {b} \/ \E i \in DOMAIN pushed[n] : pushed[n][i].block = succs[L + 1 - k]
  <2> DEFINE In(n) == \A k \in 1 .. n :
                succs[L + 1 - k] \in visited \cup {b} \/ \E i \in DOMAIN pushed[n] : pushed[n][i].block = succs[L + 1 - k]
             H == {n \in 0 .. L : In(n)}
  <2>1. 0 \in H /\ H \in SUBSET (0 .. L)
    BY <1>2
  <2>2. ASSUME NEW n \in 0 .. L, n \in H, n < L PROVE n + 1 \in H
    <3> DEFINE m == n + 1
               s == succs[L + 1 - m]
    <3>1. m \in 1 .. L /\ m - 1 = n /\ m \in 0 .. L
      BY <1>2, <2>2
    <3>2. pushed[m] = One(m, pushed[n]) /\ pushed[n] \in Seq(T)
      <4> HIDE DEF m, One, T
      <4> QED
        BY <1>8, <1>9, <3>1
    <3>3. pushed[m] = IF s \in visited \cup {b} THEN pushed[n]
                      ELSE Append(pushed[n], [block |-> s, expanded |-> FALSE])
      BY <3>2
    <3>4. \A i \in DOMAIN pushed[n] : i \in DOMAIN pushed[m] /\ pushed[m][i] = pushed[n][i]
      <4> HIDE DEF m, T, s
      <4> QED
        BY <3>2, <3>3
    <3>5. s \in visited \cup {b} \/ \E i \in DOMAIN pushed[m] : pushed[m][i].block = s
      <4> SUFFICES ASSUME s \notin visited \cup {b} PROVE \E i \in DOMAIN pushed[m] : pushed[m][i].block = s
        OBVIOUS
      <4> DEFINE e == [block |-> s, expanded |-> FALSE]
      <4>1. pushed[m] = Append(pushed[n], e)
        BY <3>3
      <4>2. e.block = s /\ e \in T
        BY <1>2, <3>1
      <4> HIDE DEF e, m, T, s, One
      <4>3. \E i \in DOMAIN pushed[m] : pushed[m][i] = e
        <5> DEFINE w == pushed[n]
        <5>1. w \in Seq(T)
          BY <3>2
        <5>2. pushed[m] = Append(w, e)
          BY <4>1
        <5> HIDE DEF w
        <5>3. Len(w) + 1 \in DOMAIN Append(w, e) /\ Append(w, e)[Len(w) + 1] = e
          BY <4>2, <5>1
        <5> QED
          BY <5>2, <5>3
      <4>4. PICK i \in DOMAIN pushed[m] : pushed[m][i] = e
        BY <4>3
      <4> QED
        BY <4>2, <4>4
    <3>6. In(m)
      <4> SUFFICES ASSUME NEW k \in 1 .. m
                   PROVE  succs[L + 1 - k] \in visited \cup {b} \/ \E i \in DOMAIN pushed[m] : pushed[m][i].block = succs[L + 1 - k]
        OBVIOUS
      <4>1. CASE k = m
        BY <3>5, <4>1
      <4>2. CASE k # m
        <5>1. k \in 1 .. n
          BY <3>1, <4>2
        <5>2. In(n)
          BY <2>2
        <5>3. succs[L + 1 - k] \in visited \cup {b} \/ \E i \in DOMAIN pushed[n] : pushed[n][i].block = succs[L + 1 - k]
          BY <5>1, <5>2
        <5> HIDE DEF m, In, L
        <5> QED
          BY <3>4, <5>3
      <4> QED
        BY <4>1, <4>2
    <3> HIDE DEF In
    <3> QED
      BY <3>1, <3>6
  <2>3. H = 0 .. L
    <3> HIDE DEF H
    <3> QED
      BY <1>2, <2>1, <2>2, StepByStep
  <2> QED
    BY <2>3
<1>11. ASSUME NEW s \in Succs(b)
       PROVE  s \in visited \cup {b} \/ \E i \in DOMAIN pushed[L] : pushed[L][i].block = s
  <2>1. DOMAIN succs = 1 .. L
    BY BlocksFacts
  <2>2. PICK j \in 1 .. L : s = succs[j]
    BY <1>11, <2>1 DEF Succs
  <2>3. L + 1 - j \in 1 .. L /\ L + 1 - (L + 1 - j) = j /\ L \in 0 .. L
    BY <1>2
  <2> QED
    BY <1>10, <2>2, <2>3
<1>12. pushed[L] \in Seq(T)
  <2>1. L \in 0 .. L
    BY <1>2
  <2> QED
    BY <1>9, <2>1
<1> QED
  <2> DEFINE P == pushed[L]
  <2>1. P \in Seq(T) /\ \A s \in Succs(b) : s \in visited \cup {b} \/ \E i \in DOMAIN P : P[i].block = s
    BY <1>11, <1>12
  <2>2. Pushed(b) = P
    BY <1>1
  <2> HIDE DEF P
  <2> QED
    BY <2>1, <2>2

-----------------------------------------------------------------------------
Entries == [block : Reachable, expanded : BOOLEAN]

IsOpen(j) == j \in DOMAIN stack /\ stack[j].expanded

InOrder(b) == \E k \in DOMAIN rpo : rpo[k] = b

(* A visited block is on the stack until it is in the order, once. *)
OnceEach ==
  /\ \A k, m \in DOMAIN rpo : rpo[k] = rpo[m] => k = m
  /\ \A j : IsOpen(j) =>
       /\ stack[j].block \in visited /\ ~InOrder(stack[j].block)
       /\ \A m : IsOpen(m) /\ stack[m].block = stack[j].block => m = j
  /\ \A b \in visited : InOrder(b) \/ \E j : IsOpen(j) /\ stack[j].block = b

(* A block on the stack has been pushed by one that is open below it, and  *)
(* one in the order by one that comes earlier in it or is still open.      *)
Pushers ==
  /\ \A j \in DOMAIN stack :
       stack[j].block = 1 \/ \E m : IsOpen(m) /\ m < j /\ stack[j].block \in Succs(stack[m].block)
  /\ \A k \in DOMAIN rpo :
       \/ rpo[k] = 1
       \/ \E m \in DOMAIN rpo : m < k /\ rpo[k] \in Succs(rpo[m])
       \/ \E j : IsOpen(j) /\ rpo[k] \in Succs(stack[j].block)

(* No successor is forgotten. *)
Remembered ==
  /\ 1 \in visited \/ \E j \in DOMAIN stack : stack[j].block = 1
  /\ \A k \in DOMAIN rpo : Succs(rpo[k]) \subseteq visited
  /\ \A j : IsOpen(j) =>
       \A s \in Succs(stack[j].block) :
         s \in visited \/ \E m \in DOMAIN stack : m > j /\ stack[m].block = s

SearchInv ==
  /\ prog \in Programs
  /\ stack \in Seq(Entries) /\ visited \subseteq Reachable /\ rpo \in Seq(visited)
  /\ OnceEach /\ Pushers /\ Remembered

LEMMA InitSearch == Init => SearchInv
<1> SUFFICES ASSUME Init PROVE SearchInv
  OBVIOUS
<1>1. /\ prog \in Programs /\ visited = {} /\ rpo = <<>>
      /\ stack = <<[block |-> 1, expanded |-> FALSE]>>
  BY DEF Init
<1>2. 1 \in Reachable
  BY <1>1, ReachableFacts
<1>3. stack \in Seq(Entries) /\ rpo \in Seq(visited)
  BY <1>1, <1>2 DEF Entries
<1>4. DOMAIN rpo = {} /\ DOMAIN stack = {1} /\ stack[1].block = 1 /\ ~stack[1].expanded
  BY <1>1
<1>5. \A j : ~IsOpen(j)
  BY <1>4 DEF IsOpen
<1> QED
  BY <1>1, <1>3, <1>4, <1>5 DEF SearchInv, OnceEach, Pushers, Remembered

(* What is on top of the stack, and what is left below it.                 *)
LEMMA TopFacts ==
  ASSUME SearchInv, stack # <<>>
  PROVE  /\ Len(stack) \in Nat /\ Len(stack) \in DOMAIN stack /\ DOMAIN stack = 1 .. Len(stack)
         /\ Top = stack[Len(stack)] /\ Top \in Entries
         /\ Below \in Seq(Entries) /\ DOMAIN Below = 1 .. (Len(stack) - 1)
         /\ \A j \in 1 .. (Len(stack) - 1) : Below[j] = stack[j]
<1>1. stack \in Seq(Entries)
  BY DEF SearchInv
<1>2. Len(stack) \in Nat /\ Len(stack) # 0 /\ DOMAIN stack = 1 .. Len(stack)
  BY <1>1
<1> DEFINE n == Len(stack) - 1
<1>3. n \in Nat /\ 1 + n - 1 = n /\ n <= Len(stack)
  BY <1>2
<1>4. Below = SubSeq(stack, 1, n)
  BY DEF Below
<1> HIDE DEF n
<1>5. Below \in Seq(Entries) /\ Len(Below) = n /\ \A j \in 1 .. n : Below[j] = stack[j]
  BY <1>1, <1>2, <1>3, <1>4
<1> QED
  BY <1>1, <1>2, <1>5 DEF Top, n

(* What a step does to a stack and an order that keep the invariant. *)
LEMMA PopSearch ==
  ASSUME SearchInv, stack # <<>>, ~Top.expanded, Top.block \in visited,
         stack' = Below, UNCHANGED <<prog, rpo, visited>>
  PROVE  SearchInv'
<1> DEFINE n == Len(stack)
<1>1. /\ n \in Nat /\ n >= 1 /\ DOMAIN stack = 1 .. n /\ DOMAIN stack' = 1 .. (n - 1)
      /\ stack' \in Seq(Entries) /\ \A j \in 1 .. (n - 1) : stack'[j] = stack[j]
  BY TopFacts
<1>2. ~stack[n].expanded /\ stack[n].block \in visited
  BY TopFacts
<1> HIDE DEF n
<1>3. \A j : IsOpen(j)' <=> IsOpen(j)
  BY <1>1, <1>2 DEF IsOpen
<1>4. \A j : IsOpen(j) => stack'[j] = stack[j] /\ j \in 1 .. (n - 1)
  BY <1>1, <1>2 DEF IsOpen
<1>5. Reachable' = Reachable /\ Entries' = Entries /\ \A b : Succs(b)' = Succs(b)
  BY DEF Reachable, Closure, Blocks, Succs, Entries
<1>6. \A b : InOrder(b)' <=> InOrder(b)
  BY DEF InOrder
<1>7. OnceEach'
  BY <1>3, <1>4, <1>6 DEF SearchInv, OnceEach
<1>8. Pushers'
  <2>1. ASSUME NEW j \in DOMAIN stack'
        PROVE  (stack[j].block = 1 \/ \E m : IsOpen(m) /\ m < j /\ stack[j].block \in Succs(stack[m].block))'
    <3>1. j \in DOMAIN stack /\ stack'[j] = stack[j]
      BY <1>1, <2>1
    <3> QED
      BY <1>3, <1>4, <1>5, <3>1 DEF SearchInv, Pushers
  <2>2. ASSUME NEW k \in DOMAIN rpo
        PROVE  \/ rpo[k] = 1
               \/ \E m \in DOMAIN rpo : m < k /\ rpo[k] \in Succs(rpo[m])
               \/ \E j : IsOpen(j)' /\ rpo[k] \in Succs(stack'[j].block)
    BY <1>3, <1>4, <2>2 DEF SearchInv, Pushers
  <2> QED
    BY <1>5, <2>1, <2>2 DEF Pushers
<1>9. Remembered'
  <2>1. 1 \in visited \/ \E j \in DOMAIN stack' : stack'[j].block = 1
    <3>1. CASE 1 \in visited
      BY <3>1
    <3>2. CASE 1 \notin visited
      <4>1. PICK j \in DOMAIN stack : stack[j].block = 1
        BY <3>2 DEF SearchInv, Remembered
      <4>2. j \in 1 .. (n - 1)
        BY <1>1, <1>2, <3>2, <4>1
      <4> QED
        BY <1>1, <4>1, <4>2
    <3> QED
      BY <3>1, <3>2
  <2>2. ASSUME NEW j, IsOpen(j), NEW s \in Succs(stack[j].block)
        PROVE  s \in visited \/ \E m \in DOMAIN stack' : m > j /\ stack'[m].block = s
    <3>1. CASE s \in visited
      BY <3>1
    <3>2. CASE s \notin visited
      <4>1. PICK m \in DOMAIN stack : m > j /\ stack[m].block = s
        BY <2>2, <3>2 DEF SearchInv, Remembered
      <4>2. m \in 1 .. (n - 1)
        BY <1>1, <1>2, <3>2, <4>1
      <4> QED
        BY <1>1, <4>1, <4>2
    <3> QED
      BY <3>1, <3>2
  <2> QED
    BY <1>3, <1>4, <1>5, <2>1, <2>2 DEF SearchInv, Remembered
<1> QED
  BY <1>1, <1>5, <1>7, <1>8, <1>9 DEF SearchInv

(* A block that leaves the stack goes to the front of the order.           *)
LEMMA LeaveSearch ==
  ASSUME SearchInv, stack # <<>>, Top.expanded,
         stack' = Below, rpo' = <<Top.block>> \o rpo, UNCHANGED <<prog, visited>>
  PROVE  SearchInv'
<1>0. SUFFICES ASSUME NEW n, n = Len(stack), NEW b, b = stack[n].block PROVE SearchInv'
  OBVIOUS
<1>1. /\ n \in Nat /\ n >= 1 /\ DOMAIN stack = 1 .. n /\ DOMAIN stack' = 1 .. (n - 1)
      /\ stack' \in Seq(Entries) /\ \A j \in 1 .. (n - 1) : stack'[j] = stack[j]
  BY <1>0, TopFacts
<1>2. stack[n].expanded /\ rpo' = <<b>> \o rpo
  BY <1>0, TopFacts
<1>3. \A j : IsOpen(j)' <=> IsOpen(j) /\ j # n
  BY <1>1 DEF IsOpen
<1>4. \A j : IsOpen(j)' => stack'[j] = stack[j] /\ j \in 1 .. (n - 1)
  BY <1>1 DEF IsOpen
<1>5. Reachable' = Reachable /\ Entries' = Entries /\ \A c : Succs(c)' = Succs(c)
  BY DEF Reachable, Closure, Blocks, Succs, Entries
<1>6. IsOpen(n) /\ b \in visited /\ ~InOrder(b) /\ \A m : IsOpen(m) /\ stack[m].block = b => m = n
  BY <1>0, <1>1, <1>2 DEF IsOpen, SearchInv, OnceEach
<1>7. /\ rpo' \in Seq(visited) /\ DOMAIN rpo' = 1 .. (Len(rpo) + 1) /\ DOMAIN rpo = 1 .. Len(rpo)
      /\ Len(rpo) \in Nat /\ rpo'[1] = b /\ \A k \in 1 .. Len(rpo) : rpo'[k + 1] = rpo[k]
      /\ \A k \in 2 .. (Len(rpo) + 1) : rpo'[k] = rpo[k - 1]
  <2>1. rpo \in Seq(visited) /\ <<b>> \in Seq(visited) /\ Len(<<b>>) = 1 /\ <<b>>[1] = b
    BY <1>6 DEF SearchInv
  <2> QED
    BY <1>2, <2>1
<1>8. \A k \in DOMAIN rpo' : k = 1 \/ (k - 1 \in DOMAIN rpo /\ rpo'[k] = rpo[k - 1])
  <2>1. \A k \in 1 .. (Len(rpo) + 1) : k = 1 \/ (k \in 2 .. (Len(rpo) + 1) /\ k - 1 \in 1 .. Len(rpo))
    BY <1>7
  <2> QED
    BY <1>7, <2>1
<1>9. \A k \in DOMAIN rpo : k + 1 \in DOMAIN rpo' /\ rpo'[k + 1] = rpo[k]
  BY <1>7
<1>10. \A c : InOrder(c)' <=> InOrder(c) \/ c = b
  <2>1. ASSUME NEW c, InOrder(c)' PROVE InOrder(c) \/ c = b
    <3>1. PICK k \in DOMAIN rpo' : rpo'[k] = c
      BY <2>1 DEF InOrder
    <3> QED
      BY <1>7, <1>8, <3>1 DEF InOrder
  <2>2. ASSUME NEW c, InOrder(c) PROVE InOrder(c)'
    <3>1. PICK k \in DOMAIN rpo : rpo[k] = c
      BY <2>2 DEF InOrder
    <3>2. k + 1 \in DOMAIN rpo' /\ rpo'[k + 1] = c
      BY <1>9, <3>1
    <3> QED
      BY <3>2 DEF InOrder
  <2>3. InOrder(b)'
    <3>1. 1 \in DOMAIN rpo'
      BY <1>7
    <3> QED
      BY <1>7, <3>1 DEF InOrder
  <2> QED
    BY <2>1, <2>2, <2>3
<1>11. OnceEach'
  <2>1. ASSUME NEW k \in DOMAIN rpo', NEW m \in DOMAIN rpo', rpo'[k] = rpo'[m] PROVE k = m
    <3>1. \A i \in DOMAIN rpo : rpo[i] # b
      BY <1>6 DEF InOrder
    <3>2. CASE k = 1 \/ m = 1
      BY <1>7, <1>8, <2>1, <3>1, <3>2
    <3>3. CASE k # 1 /\ m # 1
      <4>1. /\ k - 1 \in DOMAIN rpo /\ m - 1 \in DOMAIN rpo /\ rpo[k - 1] = rpo[m - 1]
            /\ k \in Nat /\ m \in Nat
        BY <1>7, <1>8, <2>1, <3>3
      <4>2. k - 1 = m - 1
        BY <4>1 DEF SearchInv, OnceEach
      <4> QED
        BY <4>1, <4>2
    <3> QED
      BY <3>2, <3>3
  <2>2. ASSUME NEW j, IsOpen(j)'
        PROVE  /\ stack'[j].block \in visited /\ (~InOrder(stack[j].block))'
               /\ \A m : IsOpen(m)' /\ stack'[m].block = stack'[j].block => m = j
    <3>1. IsOpen(j) /\ j # n /\ stack'[j] = stack[j]
      BY <1>3, <1>4, <2>2
    <3>2. /\ stack[j].block \in visited /\ ~InOrder(stack[j].block)
          /\ \A m : IsOpen(m) /\ stack[m].block = stack[j].block => m = j
      BY <3>1 DEF SearchInv, OnceEach
    <3>3. stack[j].block # b
      BY <1>6, <3>1
    <3> QED
      <4>1. (~InOrder(stack[j].block))'
        <5>1. ASSUME InOrder(stack[j].block)' PROVE FALSE
          <6>1. PICK k \in DOMAIN rpo' : rpo'[k] = stack'[j].block
            BY <5>1 DEF InOrder
          <6>2. InOrder(stack[j].block) \/ stack[j].block = b
            BY <1>7, <1>8, <3>1, <6>1 DEF InOrder
          <6> QED
            BY <3>2, <3>3, <6>2
        <5> QED
          BY <5>1
      <4> QED
        BY <1>3, <1>4, <3>1, <3>2, <4>1
  <2>3. ASSUME NEW c \in visited
        PROVE  InOrder(c)' \/ \E j : IsOpen(j)' /\ stack'[j].block = c
    <3>1. CASE InOrder(c) \/ c = b
      BY <1>10, <3>1
    <3>2. CASE ~InOrder(c) /\ c # b
      <4>1. PICK j : IsOpen(j) /\ stack[j].block = c
        BY <2>3, <3>2 DEF SearchInv, OnceEach
      <4>2. j # n
        BY <1>0, <3>2, <4>1
      <4> QED
        BY <1>3, <1>4, <4>1, <4>2
    <3> QED
      BY <3>1, <3>2
  <2>4. visited' = visited
    OBVIOUS
  <2> QED
    BY <2>1, <2>2, <2>3, <2>4 DEF OnceEach
<1>12. Pushers'
  <2>1. ASSUME NEW j \in DOMAIN stack'
        PROVE  stack'[j].block = 1 \/ \E m : IsOpen(m)' /\ m < j /\ stack'[j].block \in Succs(stack'[m].block)
    <3>1. j \in DOMAIN stack /\ stack'[j] = stack[j] /\ j \in 1 .. (n - 1)
      BY <1>1, <2>1
    <3>2. CASE stack[j].block = 1
      BY <3>1, <3>2
    <3>3. CASE stack[j].block # 1
      <4>1. PICK m : IsOpen(m) /\ m < j /\ stack[j].block \in Succs(stack[m].block)
        BY <3>1, <3>3 DEF SearchInv, Pushers
      <4>2. m # n
        BY <1>1, <3>1, <4>1
      <4> QED
        BY <1>3, <1>4, <3>1, <4>1, <4>2
    <3> QED
      BY <3>2, <3>3
  <2>2. ASSUME NEW k \in DOMAIN rpo'
        PROVE  \/ rpo'[k] = 1
               \/ \E m \in DOMAIN rpo' : m < k /\ rpo'[k] \in Succs(rpo'[m])
               \/ \E j : IsOpen(j)' /\ rpo'[k] \in Succs(stack'[j].block)
    <3>1. CASE k = 1
      <4>1. b = 1 \/ \E m : IsOpen(m) /\ m < n /\ b \in Succs(stack[m].block)
        BY <1>0, <1>1 DEF SearchInv, Pushers
      <4>2. \A m : IsOpen(m) /\ m < n => IsOpen(m)' /\ stack'[m] = stack[m]
        BY <1>1, <1>3, <1>4
      <4> QED
        BY <1>7, <3>1, <4>1, <4>2
    <3>2. CASE k # 1
      <4>1. k - 1 \in DOMAIN rpo /\ rpo'[k] = rpo[k - 1] /\ k \in Nat
        BY <1>7, <1>8, <3>2
      <4>2. \/ rpo[k - 1] = 1
            \/ \E m \in DOMAIN rpo : m < k - 1 /\ rpo[k - 1] \in Succs(rpo[m])
            \/ \E j : IsOpen(j) /\ rpo[k - 1] \in Succs(stack[j].block)
        BY <4>1 DEF SearchInv, Pushers
      <4>3. CASE rpo[k - 1] = 1
        BY <4>1, <4>3
      <4>4. ASSUME NEW m \in DOMAIN rpo, m < k - 1, rpo[k - 1] \in Succs(rpo[m])
            PROVE  \E i \in DOMAIN rpo' : i < k /\ rpo'[k] \in Succs(rpo'[i])
        <5>1. m + 1 \in DOMAIN rpo' /\ rpo'[m + 1] = rpo[m] /\ m \in Nat
          BY <1>7, <1>9, <4>4
        <5>2. m + 1 < k
          BY <4>1, <4>4, <5>1
        <5> QED
          BY <4>1, <4>4, <5>1, <5>2
      <4>5. ASSUME NEW j, IsOpen(j), rpo[k - 1] \in Succs(stack[j].block)
            PROVE  \/ \E i \in DOMAIN rpo' : i < k /\ rpo'[k] \in Succs(rpo'[i])
                   \/ \E i : IsOpen(i)' /\ rpo'[k] \in Succs(stack'[i].block)
        <5>1. CASE j = n
          <6>1. 1 \in DOMAIN rpo' /\ rpo'[1] = stack[j].block /\ 1 < k
            BY <1>7, <2>2, <3>2, <5>1, <1>0
          <6> QED
            BY <4>1, <4>5, <6>1
        <5>2. CASE j # n
          BY <1>3, <1>4, <4>1, <4>5, <5>2
        <5> QED
          BY <5>1, <5>2
      <4> QED
        BY <4>2, <4>3, <4>4, <4>5
    <3> QED
      BY <3>1, <3>2
  <2> QED
    BY <1>5, <2>1, <2>2 DEF Pushers
<1>13. Remembered'
  <2>1. 1 \in visited \/ \E j \in DOMAIN stack' : stack'[j].block = 1
    <3>1. CASE 1 \in visited
      BY <3>1
    <3>2. CASE 1 \notin visited
      <4>1. PICK j \in DOMAIN stack : stack[j].block = 1
        BY <3>2 DEF SearchInv, Remembered
      <4>2. j \in 1 .. (n - 1)
        BY <1>1, <1>6, <3>2, <4>1, <1>0
      <4> QED
        BY <1>1, <4>1, <4>2
    <3> QED
      BY <3>1, <3>2
  <2>2. ASSUME NEW s \in Succs(b) PROVE s \in visited
    <3>1. s \in visited \/ \E m \in DOMAIN stack : m > n /\ stack[m].block = s
      BY <1>0, <1>6, <2>2 DEF SearchInv, Remembered
    <3> QED
      BY <1>1, <3>1
  <2>3. ASSUME NEW k \in DOMAIN rpo' PROVE Succs(rpo'[k]) \subseteq visited
    BY <1>7, <1>8, <2>2, <2>3 DEF SearchInv, Remembered
  <2>4. ASSUME NEW j, IsOpen(j)', NEW s \in Succs(stack'[j].block)
        PROVE  s \in visited \/ \E m \in DOMAIN stack' : m > j /\ stack'[m].block = s
    <3>1. IsOpen(j) /\ stack'[j] = stack[j] /\ j \in 1 .. (n - 1)
      BY <1>3, <1>4, <2>4
    <3>2. CASE s \in visited
      BY <3>2
    <3>3. CASE s \notin visited
      <4>1. PICK m \in DOMAIN stack : m > j /\ stack[m].block = s
        BY <2>4, <3>1, <3>3 DEF SearchInv, Remembered
      <4>2. m \in 1 .. (n - 1)
        BY <1>1, <1>6, <3>3, <4>1, <1>0
      <4> QED
        BY <1>1, <4>1, <4>2
    <3> QED
      BY <3>2, <3>3
  <2> QED
    BY <1>5, <2>1, <2>3, <2>4 DEF Remembered
<1> QED
  BY <1>1, <1>5, <1>7, <1>11, <1>12, <1>13 DEF SearchInv

(* A block that is visited stays on the stack, open, with its successors   *)
(* above it.                                                               *)
LEMMA ExpandSearch ==
  ASSUME SearchInv, stack # <<>>, ~Top.expanded, Top.block \notin visited,
         stack' = Below \o <<[Top EXCEPT !.expanded = TRUE]>> \o Pushed(Top.block),
         visited' = visited \cup {Top.block}, UNCHANGED <<prog, rpo>>
  PROVE  SearchInv'
<1>0. SUFFICES ASSUME NEW n, n = Len(stack), NEW b, b = stack[n].block PROVE SearchInv'
  OBVIOUS
<1> DEFINE e == [Top EXCEPT !.expanded = TRUE]
           P == Pushed(b)
<1>1. /\ n \in Nat /\ n >= 1 /\ DOMAIN stack = 1 .. n /\ Top = stack[n] /\ Top \in Entries
      /\ Below \in Seq(Entries) /\ Len(Below) = n - 1 /\ \A j \in 1 .. (n - 1) : Below[j] = stack[j]
  <2>1. /\ n \in Nat /\ n \in DOMAIN stack /\ DOMAIN stack = 1 .. n /\ Top = stack[n] /\ Top \in Entries
        /\ Below \in Seq(Entries) /\ DOMAIN Below = 1 .. (n - 1) /\ \A j \in 1 .. (n - 1) : Below[j] = stack[j]
    BY <1>0, TopFacts
  <2>2. n >= 1 /\ n - 1 \in Nat
    BY <2>1
  <2>3. Len(Below) = n - 1
    BY <2>1, <2>2
  <2> QED
    BY <2>1, <2>2, <2>3
<1>2. b \in Reachable /\ b \in Blocks /\ Reachable \subseteq Blocks /\ Succs(b) \subseteq Reachable
  <2>1. b \in Reachable /\ prog \in Programs
    BY <1>0, <1>1 DEF Entries, SearchInv
  <2> QED
    BY <2>1, ReachableFacts
<1>3. e \in Entries /\ e.block = b /\ e.expanded
  BY <1>0, <1>1 DEF Entries
<1>4. /\ P \in Seq([block : Succs(b), expanded : {FALSE}])
      /\ \A s \in Succs(b) : s \in visited \cup {b} \/ \E k \in DOMAIN P : P[k].block = s
  BY <1>2, PushedFacts DEF SearchInv
<1>5. /\ P \in Seq(Entries) /\ Len(P) \in Nat /\ DOMAIN P = 1 .. Len(P)
      /\ \A k \in 1 .. Len(P) : P[k].block \in Succs(b) /\ ~P[k].expanded
  <2> DEFINE T == [block : Succs(b), expanded : {FALSE}]
  <2>1. P \in Seq(T)
    BY <1>4
  <2>2. T \subseteq Entries /\ \A t \in T : t.block \in Succs(b) /\ ~t.expanded
    BY <1>2 DEF Entries
  <2> HIDE DEF T, P
  <2>3. Len(P) \in Nat /\ DOMAIN P = 1 .. Len(P) /\ \A k \in 1 .. Len(P) : P[k] \in T
    BY <2>1
  <2> QED
    BY <2>1, <2>2, <2>3
<1>6. stack' = Below \o <<e>> \o P
  BY <1>0, <1>1
<1> HIDE DEF e, P
<1>7. /\ stack' \in Seq(Entries) /\ DOMAIN stack' = 1 .. (n + Len(P)) /\ stack'[n] = e
      /\ \A j \in 1 .. (n - 1) : stack'[j] = stack[j]
      /\ \A k \in 1 .. Len(P) : stack'[n + k] = P[k]
  <2> DEFINE w == Below \o <<e>>
  <2>1. w \in Seq(Entries) /\ Len(w) = n /\ w[n] = e /\ \A j \in 1 .. (n - 1) : w[j] = Below[j]
    BY <1>1, <1>3
  <2>2. stack' = w \o P
    BY <1>6
  <2> HIDE DEF w
  <2>3. /\ w \o P \in Seq(Entries) /\ Len(w \o P) = n + Len(P)
        /\ \A j \in 1 .. n : (w \o P)[j] = w[j]
        /\ \A k \in 1 .. Len(P) : (w \o P)[n + k] = P[k]
    <3>1. /\ w \o P \in Seq(Entries) /\ Len(w \o P) = n + Len(P)
          /\ \A m \in 1 .. (n + Len(P)) : (w \o P)[m] = IF m <= n THEN w[m] ELSE P[m - n]
      BY <1>5, <2>1, ConcatProperties
    <3>2. \A m \in 1 .. n : m \in 1 .. (n + Len(P)) /\ m <= n
      BY <1>1, <1>5
    <3>3. ASSUME NEW k \in 1 .. Len(P) PROVE (w \o P)[n + k] = P[k]
      <4> DEFINE m == n + k
      <4>2. m \in 1 .. (n + Len(P)) /\ ~(m <= n) /\ m - n = k
        BY <1>1, <1>5, <3>3
      <4> HIDE DEF m
      <4>3. (w \o P)[m] = P[k]
        BY <3>1, <4>2
      <4> QED
        BY <4>3 DEF m
    <3>4. \A m \in 1 .. n : (w \o P)[m] = w[m]
      BY <3>1, <3>2
    <3> QED
      BY <3>1, <3>3, <3>4
  <2>4. DOMAIN stack' = 1 .. (n + Len(P)) /\ n \in 1 .. n /\ \A j \in 1 .. (n - 1) : j \in 1 .. n
    <3>1. stack' \in Seq(Entries) /\ Len(stack') = n + Len(P)
      BY <2>2, <2>3
    <3>2. DOMAIN stack' = 1 .. Len(stack')
      BY <3>1
    <3> QED
      BY <1>1, <3>1, <3>2
  <2> QED
    BY <1>1, <2>1, <2>2, <2>3, <2>4
<1>8. \A j \in DOMAIN stack' : j \in 1 .. (n - 1) \/ j = n \/ (j - n \in 1 .. Len(P) /\ stack'[j] = P[j - n])
  <2>1. ASSUME NEW j \in DOMAIN stack', j \notin 1 .. (n - 1), j # n
        PROVE  j - n \in 1 .. Len(P) /\ stack'[j] = P[j - n]
    <3>1. j - n \in 1 .. Len(P) /\ n + (j - n) = j
      BY <1>1, <1>5, <1>7, <2>1
    <3>2. stack'[n + (j - n)] = P[j - n]
      BY <1>7, <3>1
    <3> QED
      BY <3>1, <3>2
  <2> QED
    BY <2>1
<1>9. ~stack[n].expanded /\ b \notin visited /\ b = stack[n].block /\ visited' = visited \cup {b}
  BY <1>0, <1>1
<1>10. \A j : IsOpen(j)' <=> IsOpen(j) \/ j = n
  <2>1. ASSUME NEW j, IsOpen(j)' PROVE IsOpen(j) \/ j = n
    <3>1. j \in DOMAIN stack' /\ stack'[j].expanded
      BY <2>1 DEF IsOpen
    <3>2. CASE j \in 1 .. (n - 1)
      BY <1>1, <1>7, <3>1, <3>2 DEF IsOpen
    <3>3. CASE j - n \in 1 .. Len(P) /\ stack'[j] = P[j - n]
      BY <1>5, <3>1, <3>3
    <3> QED
      BY <1>8, <3>1, <3>2, <3>3
  <2>2. ASSUME NEW j, IsOpen(j) PROVE IsOpen(j)'
    <3>1. j \in 1 .. (n - 1) /\ j \in 1 .. (n + Len(P)) /\ stack[j].expanded
      BY <1>1, <1>5, <1>9, <2>2 DEF IsOpen
    <3> QED
      BY <1>7, <3>1 DEF IsOpen
  <2>3. IsOpen(n)'
    <3>1. n \in 1 .. (n + Len(P))
      BY <1>1, <1>5
    <3> QED
      BY <1>3, <1>7, <3>1 DEF IsOpen
  <2> QED
    BY <2>1, <2>2, <2>3
<1>11. \A j : IsOpen(j) => stack'[j] = stack[j] /\ j \in 1 .. (n - 1)
  BY <1>1, <1>7, <1>9 DEF IsOpen
<1>12. stack'[n].block = b
  BY <1>3, <1>7
<1>13. Reachable' = Reachable /\ Entries' = Entries /\ \A c : Succs(c)' = Succs(c)
  BY DEF Reachable, Closure, Blocks, Succs, Entries
<1>14. \A c : InOrder(c)' <=> InOrder(c)
  BY DEF InOrder
<1>15. ~InOrder(b)
  <2>1. \A k \in DOMAIN rpo : rpo[k] \in visited
    BY DEF SearchInv
  <2> QED
    BY <1>9, <2>1 DEF InOrder
<1>16. OnceEach'
  <2>1. ASSUME NEW j, IsOpen(j)'
        PROVE  /\ stack'[j].block \in visited' /\ (~InOrder(stack[j].block))'
               /\ \A m : IsOpen(m)' /\ stack'[m].block = stack'[j].block => m = j
    <3>1. \A m : IsOpen(m) => stack'[m].block \in visited
      BY <1>11 DEF SearchInv, OnceEach
    <3>2. CASE j = n
      <4>1. (~InOrder(stack[j].block))'
        BY <1>12, <1>15, <3>2 DEF InOrder
      <4> QED
        BY <1>9, <1>10, <1>12, <3>1, <3>2, <4>1
    <3>3. CASE j # n
      <4>1. IsOpen(j) /\ stack'[j] = stack[j]
        BY <1>10, <1>11, <2>1, <3>3
      <4>2. /\ stack[j].block \in visited /\ ~InOrder(stack[j].block)
            /\ \A m : IsOpen(m) /\ stack[m].block = stack[j].block => m = j
        BY <4>1 DEF SearchInv, OnceEach
      <4>3. (~InOrder(stack[j].block))'
        BY <4>1, <4>2 DEF InOrder
      <4> QED
        BY <1>9, <1>10, <1>11, <1>12, <4>1, <4>2, <4>3
    <3> QED
      BY <3>2, <3>3
  <2>2. ASSUME NEW c \in visited' PROVE InOrder(c) \/ \E j : IsOpen(j)' /\ stack'[j].block = c
    BY <1>9, <1>10, <1>11, <1>12, <2>2 DEF SearchInv, OnceEach
  <2> QED
    BY <1>14, <2>1, <2>2 DEF SearchInv, OnceEach
<1>17. Pushers'
  <2>1. ASSUME NEW j \in DOMAIN stack'
        PROVE  stack'[j].block = 1 \/ \E m : IsOpen(m)' /\ m < j /\ stack'[j].block \in Succs(stack'[m].block)
    <3>1. CASE j \in 1 .. (n - 1) \/ j = n
      <4>1. j \in DOMAIN stack /\ stack'[j].block = stack[j].block
        BY <1>1, <1>7, <1>9, <1>12, <3>1
      <4> QED
        BY <1>10, <1>11, <4>1 DEF SearchInv, Pushers
    <3>2. CASE j - n \in 1 .. Len(P) /\ stack'[j] = P[j - n]
      <4>1. stack'[j].block \in Succs(stack'[n].block) /\ IsOpen(n)'
        BY <1>5, <1>10, <1>12, <3>2
      <4>2. n < j
        BY <1>1, <1>5, <1>7, <2>1, <3>2
      <4> QED
        BY <4>1, <4>2
    <3> QED
      BY <1>8, <2>1, <3>1, <3>2
  <2>2. ASSUME NEW k \in DOMAIN rpo
        PROVE  \/ rpo[k] = 1
               \/ \E m \in DOMAIN rpo : m < k /\ rpo[k] \in Succs(rpo[m])
               \/ \E j : IsOpen(j)' /\ rpo[k] \in Succs(stack'[j].block)
    BY <1>10, <1>11, <2>2 DEF SearchInv, Pushers
  <2> QED
    BY <1>13, <2>1, <2>2 DEF Pushers
<1>18. Remembered'
  <2>1. 1 \in visited' \/ \E j \in DOMAIN stack' : stack'[j].block = 1
    <3>1. CASE 1 \in visited
      BY <1>9, <3>1
    <3>2. CASE 1 \notin visited
      <4>1. PICK j \in DOMAIN stack : stack[j].block = 1
        BY <3>2 DEF SearchInv, Remembered
      <4>2. j \in 1 .. (n + Len(P)) /\ (j = n \/ j \in 1 .. (n - 1))
        BY <1>1, <1>5, <4>1
      <4>3. stack'[j].block = 1
        BY <1>7, <1>9, <1>12, <4>1, <4>2
      <4> QED
        BY <1>7, <4>2, <4>3
    <3> QED
      BY <3>1, <3>2
  <2>2. ASSUME NEW j, IsOpen(j)', NEW s \in Succs(stack'[j].block)
        PROVE  s \in visited' \/ \E m \in DOMAIN stack' : m > j /\ stack'[m].block = s
    <3>1. CASE j = n
      <4>1. s \in visited' \/ \E k \in DOMAIN P : P[k].block = s
        BY <1>4, <1>9, <1>12, <2>2, <3>1
      <4>2. ASSUME NEW k \in DOMAIN P, P[k].block = s PROVE \E m \in DOMAIN stack' : m > j /\ stack'[m].block = s
        <5>1. n + k \in 1 .. (n + Len(P)) /\ n + k > n /\ k \in 1 .. Len(P)
          BY <1>1, <1>5, <4>2
        <5>2. n + k \in DOMAIN stack' /\ n + k > j /\ stack'[n + k].block = s
          BY <1>7, <3>1, <4>2, <5>1
        <5> QED
          BY <5>2
      <4> QED
        BY <4>1, <4>2
    <3>2. CASE j # n
      <4>1. IsOpen(j) /\ stack'[j] = stack[j]
        BY <1>10, <1>11, <2>2, <3>2
      <4>2. s \in visited \/ \E m \in DOMAIN stack : m > j /\ stack[m].block = s
        BY <2>2, <4>1 DEF SearchInv, Remembered
      <4>3. \A m \in DOMAIN stack : m \in DOMAIN stack' /\ stack'[m].block = stack[m].block
        BY <1>1, <1>5, <1>7, <1>9, <1>12
      <4> QED
        BY <1>9, <4>2, <4>3
    <3> QED
      BY <3>1, <3>2
  <2>3. \A k \in DOMAIN rpo : Succs(rpo[k]) \subseteq visited'
    BY <1>9 DEF SearchInv, Remembered
  <2> QED
    BY <1>13, <2>1, <2>2, <2>3 DEF Remembered
<1>19. visited' \subseteq Reachable /\ rpo \in Seq(visited')
  <2>1. \A k \in 1 .. Len(rpo) : rpo[k] \in visited'
    BY <1>9 DEF SearchInv
  <2>2. rpo \in Seq(visited) /\ visited \subseteq visited'
    BY <1>9 DEF SearchInv
  <2> QED
    BY <1>2, <1>9, <2>1, <2>2 DEF SearchInv
<1> QED
  BY <1>7, <1>13, <1>16, <1>17, <1>18, <1>19 DEF SearchInv

-----------------------------------------------------------------------------
LEMMA StepSearch ==
  ASSUME SearchInv, [Next]_vars
  PROVE  SearchInv'
<1>1. ASSUME UNCHANGED <<prog, search>> PROVE SearchInv'
  <2>1. prog' = prog /\ stack' = stack /\ visited' = visited /\ rpo' = rpo
    BY <1>1 DEF search
  <2>2. Reachable' = Reachable /\ Entries' = Entries /\ \A b : Succs(b)' = Succs(b)
    BY <2>1 DEF Reachable, Closure, Blocks, Succs, Entries
  <2>3. /\ prog \in Programs /\ stack \in Seq(Entries) /\ visited \subseteq Reachable /\ rpo \in Seq(visited)
        /\ OnceEach /\ Pushers /\ Remembered
    BY DEF SearchInv
  <2>4. OnceEach'
    BY <2>1, <2>3 DEF OnceEach, IsOpen, InOrder
  <2>5. Pushers'
    BY <2>1, <2>2, <2>3 DEF Pushers, IsOpen
  <2>6. Remembered'
    BY <2>1, <2>2, <2>3 DEF Remembered, IsOpen
  <2> QED
    BY <2>1, <2>2, <2>3, <2>4, <2>5, <2>6 DEF SearchInv
<1>2. CASE Expand
  <2>1. stack # <<>> /\ ~Top.expanded /\ UNCHANGED <<prog, rpo>>
    BY <1>2 DEF Expand, Searching
  <2>2. CASE Top.block \in visited
    BY <1>2, <2>1, <2>2, PopSearch DEF Expand
  <2>3. CASE Top.block \notin visited
    BY <1>2, <2>1, <2>3, ExpandSearch DEF Expand
  <2> QED
    BY <2>2, <2>3
<1>3. CASE Leave
  BY <1>3, LeaveSearch DEF Leave, Searching
<1>4. CASE UNCHANGED vars
  BY <1>1, <1>4 DEF vars
<1>5. CASE Analyse \/ Sweep \/ PassOver \/ Walk \/ PlacePhis \/ RenameTree \/ Rewrite \/ Start
  BY <1>1, <1>5 DEF Analyse, Sweep, PassOver, Walk, PlacePhis, RenameTree, Rewrite, Start
<1>6. CASE Compute \/ Alloca \/ Copy \/ Load \/ Store \/ Return
  BY <1>1, <1>6 DEF Compute, Alloca, Copy, Load, Store, Return, Advance, search
<1>7. CASE Branch
  BY <1>1, <1>7 DEF Branch, search
<1>8. CASE Halt
  BY <1>4, <1>8 DEF Halt
<1> QED
  BY <1>2, <1>3, <1>4, <1>5, <1>6, <1>7, <1>8 DEF Next

(* When the stack is empty the order is one of the blocks that can be      *)
(* reached, the entry first, and every other comes behind a predecessor.   *)
LEMMA OrderFacts ==
  ASSUME SearchInv, stack = <<>>
  PROVE  /\ prog \in Programs /\ rpo \in Seq(Reachable) /\ Len(rpo) \in Nat /\ 1 \in DOMAIN rpo
         /\ DOMAIN rpo = 1 .. Len(rpo) /\ rpo[1] = 1
         /\ \A k, m \in DOMAIN rpo : rpo[k] = rpo[m] => k = m
         /\ \A k \in DOMAIN rpo : rpo[k] \in Reachable
         /\ \A b \in Reachable : \E k \in DOMAIN rpo : rpo[k] = b
         /\ \A k \in DOMAIN rpo : k # 1 => \E m \in DOMAIN rpo : m < k /\ rpo[k] \in Succs(rpo[m])
<1>1. /\ prog \in Programs /\ visited \subseteq Reachable /\ rpo \in Seq(visited)
      /\ OnceEach /\ Pushers /\ Remembered
  BY DEF SearchInv
<1>2. DOMAIN stack = {} /\ \A j : ~IsOpen(j)
  BY DEF IsOpen
<1>3. 1 \in visited /\ \A b \in visited : \E k \in DOMAIN rpo : rpo[k] = b
  BY <1>1, <1>2 DEF Remembered, OnceEach, InOrder
<1>4. Reachable \subseteq visited
  <2>1. \A b \in visited : Succs(b) \subseteq visited
    BY <1>1, <1>3 DEF Remembered
  <2> QED
    BY <1>1, <1>3, <2>1, ReachableFacts
<1>5. visited = Reachable
  BY <1>1, <1>4
<1>6. Len(rpo) \in Nat /\ DOMAIN rpo = 1 .. Len(rpo) /\ \A k \in DOMAIN rpo : rpo[k] \in visited
  BY <1>1
<1>7. \A k \in DOMAIN rpo : rpo[k] = 1 \/ \E m \in DOMAIN rpo : m < k /\ rpo[k] \in Succs(rpo[m])
  BY <1>1, <1>2 DEF Pushers
<1>8. 1 \in DOMAIN rpo /\ rpo[1] = 1
  <2>1. 1 \in DOMAIN rpo
    BY <1>3, <1>6
  <2>2. \A m \in DOMAIN rpo : ~(m < 1)
    BY <1>6
  <2> QED
    BY <1>7, <2>1, <2>2
<1>9. \A k, m \in DOMAIN rpo : rpo[k] = rpo[m] => k = m
  BY <1>1 DEF OnceEach
<1> QED
  BY <1>1, <1>3, <1>5, <1>6, <1>7, <1>8, <1>9

(* The place of a block in the order.                                      *)
LEMMA PositionFacts ==
  ASSUME SearchInv, stack = <<>>
  PROVE  /\ \A b \in Reachable : Position(b) \in 1 .. Len(rpo) /\ rpo[Position(b)] = b
         /\ \A k \in 1 .. Len(rpo) : rpo[k] \in Reachable /\ Position(rpo[k]) = k
         /\ Position(1) = 1 /\ Len(rpo) \in Nat
<1>1. ASSUME NEW b \in Reachable PROVE Position(b) \in 1 .. Len(rpo) /\ rpo[Position(b)] = b
  BY <1>1, OrderFacts DEF Position
<1>2. ASSUME NEW k \in 1 .. Len(rpo) PROVE rpo[k] \in Reachable /\ Position(rpo[k]) = k
  BY <1>1, <1>2, OrderFacts
<1>3. 1 \in 1 .. Len(rpo) /\ rpo[1] = 1
  BY OrderFacts
<1> QED
  BY <1>1, <1>2, <1>3, OrderFacts

-----------------------------------------------------------------------------
(* A block comes behind what dominates it. *)
LEMMA DominatorFirst ==
  ASSUME SearchInv, stack = <<>>, NEW d \in Reachable, NEW b \in Reachable, Dominates(d, b)
  PROVE  Position(d) <= Position(b)
<1> DEFINE L == Len(rpo)
           Late == {k \in 1 .. L : Dominates(d, rpo[k]) /\ ~(Position(d) <= k)}
<1>1. L \in Nat /\ prog \in Programs /\ Position(d) \in 1 .. L /\ Position(b) \in 1 .. L
  BY PositionFacts, OrderFacts
<1>2. ASSUME Late # {} PROVE FALSE
  <2>1. PICK k \in Late : \A m \in Late : k <= m
    <3>1. Late \in SUBSET Nat
      BY <1>1
    <3> HIDE DEF Late
    <3> QED
      BY <1>2, <3>1, Least
  <2>2. k \in 1 .. L /\ Dominates(d, rpo[k]) /\ ~(Position(d) <= k) /\ Position(rpo[k]) = k
    BY <2>1, PositionFacts
  <2>3. rpo[k] # d
    BY <1>1, <2>2
  <2>4. k # 1
    <3>1. k = 1 => Dominates(d, 1)
      BY <2>2, OrderFacts
    <3>2. k = 1 => rpo[k] = 1
      BY OrderFacts
    <3> QED
      BY <1>1, <2>3, <3>1, <3>2, DominatesFacts
  <2>5. PICK m \in 1 .. L : m < k /\ rpo[k] \in Succs(rpo[m])
    BY <2>2, <2>4, OrderFacts
  <2>6. rpo[k] \in Blocks \ {d} /\ rpo[m] \in Blocks
    BY <1>1, <2>2, <2>3, OrderFacts, PositionFacts, ReachableFacts
  <2>7. Dominates(d, rpo[m])
    BY <1>1, <2>2, <2>5, <2>6, DominatesFacts
  <2>8. ~(Position(d) <= m)
    BY <1>1, <2>2, <2>5
  <2> QED
    BY <2>1, <2>2, <2>5, <2>7, <2>8
<1>3. rpo[Position(b)] = b
  BY PositionFacts
<1> QED
  BY <1>1, <1>2, <1>3

-----------------------------------------------------------------------------
(* The blocks that have their place in a tree. *)
OnTree(tree) == {b \in Reachable : tree[b] # None}

(* A tree of dominators found so far: what hangs on a block comes behind   *)
(* it, and whatever else dominates it dominates the block it hangs on.     *)
TreeInv(tree) ==
  /\ tree \in [Blocks -> Blocks \cup {None}] /\ tree[1] = 1
  /\ \A b \in Blocks : tree[b] # None => b \in Reachable /\ tree[b] \in OnTree(tree)
  /\ \A b \in OnTree(tree) \ {1} :
       /\ Position(tree[b]) < Position(b)
       /\ \A d \in Reachable \ {b} : Dominates(d, b) => Dominates(d, tree[b])

(* d is c or above c in the tree. *)
Above(tree, c, d) ==
  \A S \in SUBSET Blocks : c \in S /\ (\A x \in S : tree[x] # None => tree[x] \in S) => d \in S

(* A block is above itself, and so on up the tree.                         *)
LEMMA AboveFacts ==
  ASSUME NEW tree, NEW c \in Blocks
  PROVE  /\ Above(tree, c, c)
         /\ \A d : Above(tree, c, d) /\ tree[d] # None => Above(tree, c, tree[d])
         /\ \A d, e : Above(tree, c, d) /\ Above(tree, d, e) => Above(tree, c, e)
         /\ \A d : Above(tree, c, d) /\ tree[c] # None => d = c \/ Above(tree, tree[c], d)
<1>1. Above(tree, c, c)
  BY DEF Above
<1>2. ASSUME NEW d, Above(tree, c, d), tree[d] # None PROVE Above(tree, c, tree[d])
  BY <1>2 DEF Above
<1>3. ASSUME NEW d, NEW e, Above(tree, c, d), Above(tree, d, e) PROVE Above(tree, c, e)
  BY <1>3 DEF Above
<1>4. ASSUME NEW d, Above(tree, c, d), tree[c] # None, d # c PROVE Above(tree, tree[c], d)
  <2> SUFFICES ASSUME NEW S \in SUBSET Blocks, tree[c] \in S,
                      \A x \in S : tree[x] # None => tree[x] \in S
               PROVE  d \in S
    BY DEF Above
  <2> DEFINE T == S \cup {c}
  <2>1. T \in SUBSET Blocks /\ c \in T /\ \A x \in T : tree[x] # None => tree[x] \in T
    OBVIOUS
  <2>2. d \in T
    <3> HIDE DEF T
    <3> QED
      BY <1>4, <2>1 DEF Above
  <2> QED
    BY <1>4, <2>2
<1> QED
  BY <1>1, <1>2, <1>3, <1>4

(* Of two different blocks on the tree the one further from the entry goes *)
(* up; what is above both, or dominates both, stays so.                    *)
LEMMA StepUpFacts ==
  ASSUME SearchInv, stack = <<>>, NEW tree, TreeInv(tree),
         NEW b \in OnTree(tree), NEW c \in OnTree(tree), NEW next, next = StepUp(tree, <<b, c>>)
  PROVE  /\ next \in OnTree(tree) \X OnTree(tree)
         /\ b = c => next = <<b, c>>
         /\ b # c => Position(next[1]) + Position(next[2]) < Position(b) + Position(c)
         /\ Position(next[1]) <= Position(b) /\ Position(next[2]) <= Position(c)
         /\ Above(tree, b, next[1]) /\ Above(tree, c, next[2])
         /\ \A d \in Reachable : Dominates(d, b) /\ Dominates(d, c) => Dominates(d, next[1]) /\ Dominates(d, next[2])
<1>1. /\ Reachable \subseteq Blocks /\ b \in Reachable /\ c \in Reachable
      /\ tree[b] # None /\ tree[c] # None
  BY ReachableFacts DEF OnTree, SearchInv
<1>2. /\ tree[b] \in OnTree(tree) /\ tree[c] \in OnTree(tree)
      /\ tree[b] \in Reachable /\ tree[c] \in Reachable
  BY <1>1 DEF TreeInv, OnTree
<1>3. /\ Position(b) \in Nat /\ Position(c) \in Nat /\ Position(b) >= 1 /\ Position(c) >= 1
      /\ Position(tree[b]) \in Nat /\ Position(tree[c]) \in Nat
      /\ Position(1) = 1 /\ (Position(b) = Position(c) => b = c)
  BY <1>1, <1>2, PositionFacts
<1>4. /\ Above(tree, b, b) /\ Above(tree, c, c) /\ Above(tree, b, tree[b]) /\ Above(tree, c, tree[c])
  BY <1>1, AboveFacts
<1>5. CASE b = c
  <2>1. next = <<b, c>>
    BY <1>5 DEF StepUp
  <2> QED
    BY <1>3, <1>4, <1>5, <2>1
<1>6. CASE b # c /\ Position(b) > Position(c)
  <2>1. next = <<tree[b], c>>
    BY <1>6 DEF StepUp
  <2>2. b # 1
    BY <1>3, <1>6
  <2>3. Position(tree[b]) < Position(b)
    BY <2>2 DEF TreeInv
  <2>4. ASSUME NEW d \in Reachable, Dominates(d, b), Dominates(d, c) PROVE Dominates(d, tree[b])
    <3>1. d # b
      <4>1. Position(d) <= Position(c)
        BY <1>1, <2>4, DominatorFirst
      <4> QED
        BY <1>3, <1>6, <4>1
    <3> QED
      BY <2>2, <2>4, <3>1 DEF TreeInv
  <2> QED
    BY <1>2, <1>3, <1>4, <1>6, <2>1, <2>3, <2>4
<1>7. CASE b # c /\ ~(Position(b) > Position(c))
  <2>1. next = <<b, tree[c]>>
    BY <1>7 DEF StepUp
  <2>2. Position(b) < Position(c) /\ c # 1
    BY <1>3, <1>7
  <2>3. Position(tree[c]) < Position(c)
    BY <2>2 DEF TreeInv
  <2>4. ASSUME NEW d \in Reachable, Dominates(d, b), Dominates(d, c) PROVE Dominates(d, tree[c])
    <3>1. d # c
      <4>1. Position(d) <= Position(b)
        BY <1>1, <2>4, DominatorFirst
      <4> QED
        BY <1>3, <2>2, <4>1
    <3> QED
      BY <2>2, <2>4, <3>1 DEF TreeInv
  <2> QED
    BY <1>2, <1>3, <1>4, <1>7, <2>1, <2>2, <2>3, <2>4
<1> QED
  BY <1>5, <1>6, <1>7

-----------------------------------------------------------------------------
(* What b and c have in common in the tree. *)
InCommon(tree, b, c, d) ==
  /\ d \in OnTree(tree) /\ Above(tree, b, d) /\ Above(tree, c, d)
  /\ Position(d) <= Position(b) /\ Position(d) <= Position(c)
  /\ \A e \in Reachable : Dominates(e, b) /\ Dominates(e, c) => Dominates(e, d)

(* Two blocks of the tree meet in one that is above both, and below        *)
(* whatever is above both.                                                 *)
LEMMA IntersectFacts ==
  ASSUME SearchInv, stack = <<>>, NEW tree, TreeInv(tree), NEW b1 \in OnTree(tree), NEW b2 \in OnTree(tree)
  PROVE  InCommon(tree, b1, b2, Intersect(tree, b1, b2))
<1> DEFINE L == 2 * Len(rpo)
           A == OnTree(tree) \X OnTree(tree)
           a == <<b1, b2>>
           G == [p \in (1 .. L) \X A |-> StepUp(tree, p[2])]
           walk[n \in 0 .. L] == IF n = 0 THEN <<b1, b2>> ELSE StepUp(tree, walk[n - 1])
<1>1. L \in Nat /\ a \in A
  BY OrderFacts
<1>2. \A w \in A : StepUp(tree, w) \in A
  <2>1. ASSUME NEW w \in A PROVE StepUp(tree, w) \in A
    <3>1. w = <<w[1], w[2]>> /\ w[1] \in OnTree(tree) /\ w[2] \in OnTree(tree)
      OBVIOUS
    <3>2. StepUp(tree, <<w[1], w[2]>>) \in A
      BY <3>1, StepUpFacts
    <3> QED
      BY <3>1, <3>2
  <2> QED
    BY <2>1
<1>3. G \in [(1 .. L) \X A -> A]
  <2> HIDE DEF A, L
  <2> QED
    BY <1>2
<1>4. PICK f : Follows(f, A, a, G, L)
  <2> HIDE DEF A, G, L, a
  <2> QED
    BY <1>1, <1>3, Recursion
<1>5. f \in [0 .. L -> A] /\ f[0] = a /\ \A n \in 1 .. L : f[n] = StepUp(tree, f[n - 1])
  <2>1. f \in [0 .. L -> A] /\ f[0] = a /\ \A n \in 1 .. L : f[n] = G[<<n, f[n - 1]>>]
    BY <1>4 DEF Follows
  <2>2. \A n \in 1 .. L : f[n - 1] \in A
    BY <2>1
  <2> HIDE DEF A, L, a
  <2> QED
    BY <2>1, <2>2
<1>6. f = [n \in 0 .. L |-> IF n = 0 THEN <<b1, b2>> ELSE StepUp(tree, f[n - 1])]
  <2>1. ASSUME NEW n \in 0 .. L PROVE f[n] = IF n = 0 THEN <<b1, b2>> ELSE StepUp(tree, f[n - 1])
    <3>1. n # 0 => n \in 1 .. L
      OBVIOUS
    <3> QED
      BY <1>5, <3>1
  <2> HIDE DEF A, L
  <2> QED
    BY <1>5, <2>1
<1>7. walk = [n \in 0 .. L |-> IF n = 0 THEN <<b1, b2>> ELSE StepUp(tree, walk[n - 1])]
  BY <1>6
<1>8. Intersect(tree, b1, b2) = walk[L][1]
  BY DEF Intersect
<1> HIDE DEF walk
<1>9. walk[0] = a /\ \A n \in 1 .. L : walk[n] = StepUp(tree, walk[n - 1])
  <2>1. 0 \in 0 .. L /\ \A n \in 1 .. L : n \in 0 .. L /\ n # 0
    BY <1>1
  <2> HIDE DEF L
  <2> QED
    BY <1>7, <2>1
<1> DEFINE Good(n) ==
             /\ walk[n] \in A /\ Above(tree, b1, walk[n][1]) /\ Above(tree, b2, walk[n][2])
             /\ Position(walk[n][1]) <= Position(b1) /\ Position(walk[n][2]) <= Position(b2)
             /\ \A e \in Reachable : Dominates(e, b1) /\ Dominates(e, b2)
                   => Dominates(e, walk[n][1]) /\ Dominates(e, walk[n][2])
             /\ walk[n][1] = walk[n][2] \/ Position(walk[n][1]) + Position(walk[n][2]) <= L - n
           H == {n \in 0 .. L : Good(n)}
<1>10. \A b \in OnTree(tree) : b \in Blocks /\ b \in Reachable /\ Position(b) \in Nat /\ Position(b) >= 1 /\ Position(b) <= Len(rpo)
  BY PositionFacts, ReachableFacts DEF OnTree, SearchInv
<1>11. 0 \in H
  <2>1. Position(b1) + Position(b2) <= L - 0
    BY <1>10, OrderFacts
  <2>2. Above(tree, b1, b1) /\ Above(tree, b2, b2) /\ Position(b1) <= Position(b1) /\ Position(b2) <= Position(b2)
    BY <1>10, AboveFacts
  <2>3. walk[0] = <<b1, b2>>
    BY <1>9
  <2>4. Good(0)
    BY <2>1, <2>2, <2>3
  <2> HIDE DEF Good, L
  <2> QED
    BY <1>1, <2>4
<1>12. ASSUME NEW n \in 0 .. L, n \in H, n < L PROVE n + 1 \in H
  <2> DEFINE b == walk[n][1]
             c == walk[n][2]
             m == n + 1
             next == walk[m]
  <2>1. Good(n)
    BY <1>12
  <2>2. m \in 1 .. L /\ m - 1 = n /\ m \in 0 .. L /\ n \in Nat
    BY <1>1, <1>12
  <2>3. walk[n] = <<b, c>> /\ b \in OnTree(tree) /\ c \in OnTree(tree)
    BY <2>1
  <2>4. next = StepUp(tree, <<b, c>>)
    <3> HIDE DEF m
    <3>1. walk[m] = StepUp(tree, walk[m - 1])
      BY <1>9, <2>2
    <3> QED
      BY <2>2, <2>3, <3>1
  <2> HIDE DEF b, c, m, next
  <2>5. /\ next \in A
        /\ b = c => next = <<b, c>>
        /\ b # c => Position(next[1]) + Position(next[2]) < Position(b) + Position(c)
        /\ Position(next[1]) <= Position(b) /\ Position(next[2]) <= Position(c)
        /\ Above(tree, b, next[1]) /\ Above(tree, c, next[2])
        /\ \A d \in Reachable : Dominates(d, b) /\ Dominates(d, c) => Dominates(d, next[1]) /\ Dominates(d, next[2])
    BY <2>3, <2>4, StepUpFacts
  <2>6. /\ Above(tree, b1, b) /\ Above(tree, b2, c)
        /\ Position(b) <= Position(b1) /\ Position(c) <= Position(b2)
        /\ \A e \in Reachable : Dominates(e, b1) /\ Dominates(e, b2) => Dominates(e, b) /\ Dominates(e, c)
        /\ b = c \/ Position(b) + Position(c) <= L - n
    BY <2>1 DEF b, c
  <2>7. next[1] \in OnTree(tree) /\ next[2] \in OnTree(tree)
    BY <2>5
  <2>8. /\ Position(b) \in Nat /\ Position(c) \in Nat /\ Position(b1) \in Nat /\ Position(b2) \in Nat
        /\ Position(next[1]) \in Nat /\ Position(next[2]) \in Nat /\ b1 \in Blocks /\ b2 \in Blocks
    BY <1>10, <2>3, <2>7
  <2>9. Above(tree, b1, next[1]) /\ Above(tree, b2, next[2])
    BY <2>5, <2>6, <2>8, AboveFacts
  <2>10. Position(next[1]) <= Position(b1) /\ Position(next[2]) <= Position(b2)
    BY <2>5, <2>6, <2>8
  <2>11. next[1] = next[2] \/ Position(next[1]) + Position(next[2]) <= L - m
    <3>1. CASE b = c
      BY <2>5, <3>1
    <3>2. CASE b # c
      <4>1. Position(next[1]) + Position(next[2]) < Position(b) + Position(c) /\ Position(b) + Position(c) <= L - n
        BY <2>5, <2>6, <3>2
      <4>2. m = n + 1 /\ L \in Int /\ n \in Int
        BY <1>1, <2>2 DEF m
      <4> HIDE DEF L
      <4> QED
        BY <2>8, <4>1, <4>2
    <3> QED
      BY <3>1, <3>2
  <2>12. \A e \in Reachable : Dominates(e, b1) /\ Dominates(e, b2) => Dominates(e, next[1]) /\ Dominates(e, next[2])
    BY <2>5, <2>6
  <2>13. Good(m)
    BY <2>5, <2>9, <2>10, <2>11, <2>12 DEF next
  <2> HIDE DEF Good
  <2>14. m \in H
    BY <2>2, <2>13
  <2> QED
    BY <2>14 DEF m
<1>13. L \in H
  <2>1. H \in SUBSET (0 .. L)
    OBVIOUS
  <2> HIDE DEF H, L
  <2>2. H = 0 .. L
    BY <1>1, <1>11, <1>12, <2>1, StepByStep
  <2> QED
    BY <1>1, <2>2
<1>14. Good(L)
  BY <1>13
<1> DEFINE b == walk[L][1]
           c == walk[L][2]
<1>15. b \in OnTree(tree) /\ c \in OnTree(tree) /\ (b = c \/ Position(b) + Position(c) <= L - L)
  BY <1>14
<1>16. b = c
  <2> HIDE DEF b, c, L
  <2> QED
    BY <1>1, <1>10, <1>15
<1> QED
  BY <1>8, <1>14, <1>16 DEF InCommon

-----------------------------------------------------------------------------
PlacedPreds(tree, b, n) == {p \in Preds(b) : tree[p] # None /\ p <= n}

(* What a set of blocks on the tree have in common. *)
AllInCommon(tree, blocks, d) ==
  /\ d \in OnTree(tree)
  /\ \A p \in blocks : Above(tree, p, d) /\ Position(d) <= Position(p)
  /\ \A e \in Reachable : (\A p \in blocks : Dominates(e, p)) => Dominates(e, d)

(* What the predecessors placed so far have in common, for all of them.    *)
LEMMA NewIdomFacts ==
  ASSUME SearchInv, stack = <<>>, NEW tree, TreeInv(tree), NEW b \in Blocks,
         \E p \in Preds(b) : tree[p] # None
  PROVE  AllInCommon(tree, {p \in Preds(b) : tree[p] # None}, NewIdom(tree, b))
<1> DEFINE N == Len(prog.blocks)
           A == OnTree(tree) \cup {None}
           One(p, found) == IF p \notin Preds(b) \/ tree[p] = None THEN found
                            ELSE IF found = None THEN p ELSE Intersect(tree, p, found)
           G == [w \in (1 .. N) \X A |-> One(w[1], w[2])]
           common[p \in 0 .. N] ==
             IF p = 0 THEN None
             ELSE LET found == common[p - 1]
                  IN  IF p \notin Preds(b) \/ tree[p] = None THEN found
                      ELSE IF found = None THEN p ELSE Intersect(tree, p, found)
<1>1. /\ N \in Nat /\ None \in A /\ Blocks = 1 .. N /\ Reachable \subseteq Blocks /\ None \notin Blocks
      /\ \A p \in Preds(b) : p \in Blocks /\ (tree[p] # None => p \in OnTree(tree))
  <2>1. prog \in Programs
    BY DEF SearchInv
  <2>2. N \in Nat /\ Blocks = 1 .. N /\ Reachable \subseteq Blocks
    BY <2>1, BlocksFacts, ReachableFacts
  <2>3. \A p \in Preds(b) : p \in Blocks /\ (tree[p] # None => p \in OnTree(tree))
    BY DEF Preds, TreeInv, OnTree
  <2> QED
    BY <2>2, <2>3 DEF None
<1>2. \A p \in 1 .. N, found \in A : One(p, found) \in A
  <2>1. ASSUME NEW p \in 1 .. N, NEW found \in A, p \in Preds(b), tree[p] # None, found # None
        PROVE  Intersect(tree, p, found) \in A
    BY <1>1, <2>1, IntersectFacts DEF InCommon
  <2> QED
    BY <1>1, <2>1
<1> HIDE DEF A
<1>3. G \in [(1 .. N) \X A -> A]
  <2> HIDE DEF N, One
  <2> QED
    BY <1>2
<1>4. PICK f : Follows(f, A, None, G, N)
  <2> HIDE DEF G, N
  <2> QED
    BY <1>1, <1>3, Recursion
<1>5. f \in [0 .. N -> A] /\ f[0] = None /\ \A p \in 1 .. N : f[p] = One(p, f[p - 1])
  <2>1. f \in [0 .. N -> A] /\ f[0] = None /\ \A n \in 1 .. N : f[n] = G[<<n, f[n - 1]>>]
    BY <1>4 DEF Follows
  <2>2. \A n \in 1 .. N : f[n - 1] \in A
    BY <2>1
  <2> HIDE DEF N, One
  <2> QED
    BY <2>1, <2>2
<1>6. f = [p \in 0 .. N |-> IF p = 0 THEN None ELSE One(p, f[p - 1])]
  <2> HIDE DEF One
  <2>1. ASSUME NEW p \in 0 .. N PROVE f[p] = IF p = 0 THEN None ELSE One(p, f[p - 1])
    <3>1. p # 0 => p \in 1 .. N
      OBVIOUS
    <3> QED
      BY <1>5, <3>1
  <2> QED
    BY <1>5, <2>1
<1>7. common = [p \in 0 .. N |-> IF p = 0 THEN None ELSE One(p, common[p - 1])]
  <2>1. \A g : g = [p \in 0 .. N |-> IF p = 0 THEN None ELSE One(p, g[p - 1])]
               <=> g = [p \in 0 .. N |->
                          IF p = 0 THEN None
                          ELSE LET found == g[p - 1]
                               IN  IF p \notin Preds(b) \/ tree[p] = None THEN found
                                   ELSE IF found = None THEN p ELSE Intersect(tree, p, found)]
    OBVIOUS
  <2> QED
    BY <1>6
<1>8. NewIdom(tree, b) = common[N]
  BY DEF NewIdom
<1> HIDE DEF common
<1>9. common[0] = None /\ \A p \in 1 .. N : common[p] = One(p, common[p - 1])
  <2>1. 0 \in 0 .. N /\ \A p \in 1 .. N : p \in 0 .. N /\ p # 0
    BY <1>1
  <2> HIDE DEF N, One
  <2> QED
    BY <1>7, <2>1
<1> DEFINE Good(n) ==
             LET blocks == PlacedPreds(tree, b, n)
             IN  IF blocks = {} THEN common[n] = None ELSE AllInCommon(tree, blocks, common[n])
           H == {n \in 0 .. N : Good(n)}
<1>10. 0 \in H
  <2>1. PlacedPreds(tree, b, 0) = {}
    BY <1>1 DEF PlacedPreds
  <2> QED
    BY <1>1, <1>9, <2>1
<1>11. ASSUME NEW n \in 0 .. N, n \in H, n < N PROVE n + 1 \in H
  <2> DEFINE m == n + 1
             found == common[n]
             blocks == PlacedPreds(tree, b, n)
  <2>1. Good(n)
    BY <1>11
  <2>2. m \in 1 .. N /\ m - 1 = n /\ m \in 0 .. N
    BY <1>1, <1>11
  <2>3. common[m] = One(m, found)
    <3> HIDE DEF m, One
    <3>1. common[m] = One(m, common[m - 1])
      BY <1>9, <2>2
    <3> QED
      BY <2>2, <3>1
  <2>4. \A p \in Blocks : p <= m <=> p <= n \/ p = m
    BY <1>1, <1>11
  <2> HIDE DEF m
  <2>5. CASE m \notin Preds(b) \/ tree[m] = None
    <3>1. PlacedPreds(tree, b, m) = blocks /\ common[m] = found
      BY <1>1, <2>3, <2>4, <2>5 DEF PlacedPreds
    <3>2. Good(m)
      BY <2>1, <3>1
    <3> HIDE DEF Good
    <3> QED
      BY <2>2, <3>2 DEF m
  <2>6. CASE m \in Preds(b) /\ tree[m] # None
    <3>1. PlacedPreds(tree, b, m) = blocks \cup {m} /\ m \in OnTree(tree) /\ m \in Blocks
      BY <1>1, <2>2, <2>4, <2>6 DEF PlacedPreds
    <3>2. AllInCommon(tree, blocks \cup {m}, common[m])
      <4>1. CASE blocks = {}
        <5>1. common[m] = m
          BY <2>1, <2>3, <2>6, <4>1
        <5>2. Above(tree, m, m) /\ Position(m) <= Position(m)
          BY <3>1, AboveFacts, PositionFacts DEF OnTree
        <5> QED
          BY <3>1, <4>1, <5>1, <5>2 DEF AllInCommon
      <4>2. CASE blocks # {}
        <5>1. AllInCommon(tree, blocks, found)
          BY <2>1, <4>2
        <5>2. found \in OnTree(tree) /\ found # None
          BY <1>1, <5>1 DEF AllInCommon, OnTree
        <5>3. common[m] = Intersect(tree, m, found)
          BY <2>3, <2>6, <5>2
        <5> DEFINE r == Intersect(tree, m, found)
        <5>4. InCommon(tree, m, found, r)
          BY <3>1, <5>2, IntersectFacts
        <5> HIDE DEF r, found, blocks
        <5>5. r \in OnTree(tree) /\ Above(tree, m, r) /\ Position(r) <= Position(m)
          BY <5>4 DEF InCommon
        <5>6. ASSUME NEW p \in blocks PROVE Above(tree, p, r) /\ Position(r) <= Position(p)
          <6>1. Above(tree, p, found) /\ Position(found) <= Position(p) /\ Above(tree, found, r) /\ Position(r) <= Position(found)
            BY <5>1, <5>4, <5>6 DEF AllInCommon, InCommon
          <6>2. p \in Blocks /\ p \in Reachable
            BY <1>1, <5>6 DEF blocks, PlacedPreds, OnTree
          <6>3. Position(p) \in Nat /\ Position(found) \in Nat /\ Position(r) \in Nat
            BY <5>2, <5>5, <6>2, PositionFacts DEF OnTree
          <6> QED
            BY <6>1, <6>2, <6>3, AboveFacts
        <5>7. ASSUME NEW e \in Reachable, \A p \in blocks \cup {m} : Dominates(e, p) PROVE Dominates(e, r)
          <6>1. Dominates(e, found) /\ Dominates(e, m)
            BY <5>1, <5>7 DEF AllInCommon
          <6> QED
            BY <5>4, <6>1 DEF InCommon
        <5>8. AllInCommon(tree, blocks \cup {m}, r)
          BY <5>5, <5>6, <5>7 DEF AllInCommon
        <5> QED
          BY <5>3, <5>8 DEF r
      <4> QED
        BY <4>1, <4>2
    <3>3. Good(m)
      BY <3>1, <3>2
    <3> HIDE DEF Good
    <3> QED
      BY <2>2, <3>3 DEF m
  <2> QED
    BY <2>5, <2>6
<1>12. N \in H
  <2>1. H \in SUBSET (0 .. N)
    OBVIOUS
  <2> HIDE DEF H, N
  <2>2. H = 0 .. N
    BY <1>1, <1>10, <1>11, <2>1, StepByStep
  <2> QED
    BY <1>1, <2>2
<1>13. PlacedPreds(tree, b, N) = {p \in Preds(b) : tree[p] # None}
  BY <1>1 DEF PlacedPreds
<1> QED
  BY <1>8, <1>12, <1>13

-----------------------------------------------------------------------------
(* The tree is one of dominators, and the first n + 1 blocks of the order  *)
(* are on it.                                                              *)
Begun(tree, n) == TreeInv(tree) /\ \A k \in 1 .. n + 1 : tree[rpo[k]] # None

PlacedAt(tree, b) == [tree EXCEPT ![b] = NewIdom(tree, b)]

(* One more block is placed.                                               *)
LEMMA PlaceNext ==
  ASSUME SearchInv, stack = <<>>, NEW n \in 1 .. (Len(rpo) - 1), NEW tree, Begun(tree, n - 1)
  PROVE  Begun(PlacedAt(tree, rpo[n + 1]), n) /\ NewIdom(tree, rpo[n + 1]) \in Blocks
<1> DEFINE b == rpo[n + 1]
           d == NewIdom(tree, b)
           next == PlacedAt(tree, b)
<1>1. /\ n \in Nat /\ Len(rpo) \in Nat /\ n + 1 \in DOMAIN rpo /\ n + 1 # 1 /\ prog \in Programs
      /\ Reachable \subseteq Blocks /\ None \notin Blocks /\ DOMAIN rpo = 1 .. Len(rpo)
      /\ n - 1 + 1 = n
  <2>1. prog \in Programs /\ Len(rpo) \in Nat /\ DOMAIN rpo = 1 .. Len(rpo)
    BY OrderFacts
  <2>2. Blocks = 1 .. Len(prog.blocks) /\ Reachable \subseteq Blocks
    BY <2>1, BlocksFacts, ReachableFacts
  <2>3. n \in Nat /\ n + 1 \in 1 .. Len(rpo) /\ n + 1 # 1 /\ n - 1 + 1 = n
    BY <2>1
  <2> QED
    BY <2>1, <2>2, <2>3 DEF None
<1>2. TreeInv(tree) /\ \A k \in 1 .. n : tree[rpo[k]] # None
  BY <1>1 DEF Begun
<1>3. b \in Reachable /\ b \in Blocks /\ b # 1 /\ Position(b) = n + 1
  <2>1. rpo[n + 1] # rpo[1] /\ rpo[1] = 1 /\ rpo[n + 1] \in Reachable
    BY <1>1, OrderFacts
  <2> QED
    BY <1>1, <2>1, PositionFacts
<1>4. PICK m \in DOMAIN rpo : m < n + 1 /\ b \in Succs(rpo[m])
  BY <1>1, OrderFacts
<1>5. m \in 1 .. n /\ rpo[m] \in Blocks /\ rpo[m] \in Preds(b) /\ tree[rpo[m]] # None /\ Position(rpo[m]) = m
  <2>1. m \in 1 .. n /\ rpo[m] \in Blocks /\ Position(rpo[m]) = m
    BY <1>1, <1>4, OrderFacts, PositionFacts
  <2> QED
    BY <1>2, <1>4, <2>1 DEF Preds
<1>6. AllInCommon(tree, {p \in Preds(b) : tree[p] # None}, d)
  BY <1>2, <1>3, <1>5, NewIdomFacts
<1> HIDE DEF b, d
<1>7. d \in OnTree(tree) /\ d \in Reachable /\ d \in Blocks /\ tree[d] # None /\ Position(d) <= m /\ Position(d) \in Nat
  <2>1. d \in OnTree(tree) /\ Position(d) <= Position(rpo[m])
    BY <1>5, <1>6 DEF AllInCommon
  <2> QED
    BY <1>1, <1>5, <2>1, PositionFacts DEF OnTree
<1>8. Position(d) < Position(b)
  BY <1>1, <1>3, <1>5, <1>7
<1>9. ASSUME NEW e \in Reachable \ {b}, Dominates(e, b) PROVE Dominates(e, d)
  <2>1. \A p \in Preds(b) : Dominates(e, p)
    BY <1>1, <1>3, <1>9, DominatesFacts DEF Preds
  <2> QED
    BY <1>6, <2>1 DEF AllInCommon
<1>10. /\ tree \in [Blocks -> Blocks \cup {None}] /\ tree[1] = 1
       /\ \A c \in Blocks : tree[c] # None => c \in Reachable /\ tree[c] \in OnTree(tree)
       /\ \A c \in OnTree(tree) \ {1} :
            /\ Position(tree[c]) < Position(c)
            /\ \A e \in Reachable \ {c} : Dominates(e, c) => Dominates(e, tree[c])
  BY <1>2 DEF TreeInv
<1>11. /\ next \in [Blocks -> Blocks \cup {None}] /\ next[b] = d
       /\ \A c \in Blocks : c # b => next[c] = tree[c]
  BY <1>3, <1>7, <1>10 DEF PlacedAt, d
<1> HIDE DEF next
<1>12. OnTree(next) = OnTree(tree) \cup {b}
  BY <1>1, <1>3, <1>7, <1>11 DEF OnTree
<1>13. next[1] = 1
  BY <1>3, <1>10, <1>11, BlocksFacts, <1>1
<1>14. ASSUME NEW c \in Blocks, next[c] # None PROVE c \in Reachable /\ next[c] \in OnTree(next)
  BY <1>3, <1>7, <1>10, <1>11, <1>12, <1>14
<1>15. ASSUME NEW c \in OnTree(next) \ {1}
       PROVE  /\ Position(next[c]) < Position(c)
              /\ \A e \in Reachable \ {c} : Dominates(e, c) => Dominates(e, next[c])
  <2>1. CASE c = b
    BY <1>8, <1>9, <1>11, <2>1
  <2>2. CASE c # b
    <3>1. c \in OnTree(tree) \ {1} /\ c \in Blocks
      BY <1>1, <1>12, <1>15, <2>2 DEF OnTree
    <3> QED
      BY <1>10, <1>11, <2>2, <3>1
  <2> QED
    BY <2>1, <2>2
<1>16. TreeInv(next)
  BY <1>11, <1>13, <1>14, <1>15 DEF TreeInv
<1>17. ASSUME NEW k \in 1 .. n + 1 PROVE next[rpo[k]] # None
  <2>1. CASE k = n + 1
    BY <1>1, <1>7, <1>11, <2>1 DEF b
  <2>2. CASE k # n + 1
    <3>1. k \in 1 .. n /\ k \in DOMAIN rpo
      BY <1>1, <1>17, <2>2
    <3>2. tree[rpo[k]] # None /\ rpo[k] \in Blocks
      BY <1>1, <1>2, <3>1, OrderFacts
    <3>3. next[rpo[k]] = tree[rpo[k]] \/ next[rpo[k]] = d
      BY <1>11, <3>2
    <3> QED
      BY <1>1, <1>7, <3>2, <3>3
  <2> QED
    BY <2>1, <2>2
<1>18. Begun(next, n)
  BY <1>16, <1>17 DEF Begun
<1> QED
  BY <1>7, <1>18 DEF b, d, next

(* After a round all blocks are on the tree, and if the round has changed  *)
(* nothing each hangs on what its predecessors have in common.             *)
LEMMA SweptFacts ==
  ASSUME SearchInv, stack = <<>>, TreeInv(idom)
  PROVE  /\ TreeInv(Swept)
         /\ Swept = idom =>
              /\ \A b \in Reachable : idom[b] # None
              /\ \A b \in Reachable \ {1} : idom[b] = NewIdom(idom, b)
<1> DEFINE L == Len(rpo) - 1
           V == [Blocks -> Blocks \cup {None}]
           G == [p \in (1 .. L) \X V |-> IF Begun(p[2], p[1] - 1) THEN PlacedAt(p[2], rpo[p[1] + 1]) ELSE p[2]]
           sweep[n \in 0 .. L] ==
             IF n = 0 THEN idom
             ELSE LET tree == sweep[n - 1] IN [tree EXCEPT ![rpo[n + 1]] = NewIdom(tree, rpo[n + 1])]
<1>1. L \in Nat /\ idom \in V /\ Begun(idom, 0)
  <2>1. L \in Nat /\ rpo[1] = 1
    BY OrderFacts
  <2>2. idom \in V /\ idom[1] = 1
    BY DEF TreeInv
  <2>3. \A k \in 1 .. 0 + 1 : k = 1
    OBVIOUS
  <2> QED
    BY <2>1, <2>2, <2>3 DEF Begun, None
<1>2. \A t : Begun(t, 0) => t \in V
  BY DEF Begun, TreeInv
<1>3. \A n \in 1 .. L, t \in V : Begun(t, n - 1) => Begun(PlacedAt(t, rpo[n + 1]), n) /\ PlacedAt(t, rpo[n + 1]) \in V
  BY PlaceNext DEF Begun, TreeInv
<1>4. G \in [(1 .. L) \X V -> V]
  <2>1. \A p \in (1 .. L) \X V :
          (IF Begun(p[2], p[1] - 1) THEN PlacedAt(p[2], rpo[p[1] + 1]) ELSE p[2]) \in V
    <3> HIDE DEF V, L
    <3> QED
      BY <1>3
  <2> HIDE DEF V, L
  <2> QED
    BY <2>1
<1>5. PICK f : Follows(f, V, idom, G, L)
  <2> HIDE DEF G, L, V
  <2> QED
    BY <1>1, <1>4, Recursion
<1>6. /\ f \in [0 .. L -> V] /\ f[0] = idom
      /\ \A n \in 1 .. L : Begun(f[n - 1], n - 1) => f[n] = PlacedAt(f[n - 1], rpo[n + 1])
  <2>1. f \in [0 .. L -> V] /\ f[0] = idom /\ \A n \in 1 .. L : f[n] = G[<<n, f[n - 1]>>]
    BY <1>5 DEF Follows
  <2>2. \A n \in 1 .. L : f[n - 1] \in V
    BY <1>1, <2>1
  <2> HIDE DEF L, V
  <2> QED
    BY <2>1, <2>2
<1>7. \A n \in 0 .. L : Begun(f[n], n)
  <2> DEFINE H == {n \in 0 .. L : Begun(f[n], n)}
  <2>1. 0 \in H /\ H \in SUBSET (0 .. L)
    BY <1>1, <1>6
  <2>2. ASSUME NEW n \in 0 .. L, n \in H, n < L PROVE n + 1 \in H
    <3> DEFINE m == n + 1
    <3>1. m \in 1 .. L /\ m - 1 = n /\ m \in 0 .. L /\ f[n] \in V /\ Begun(f[n], n)
      BY <1>1, <1>6, <2>2
    <3> HIDE DEF m, V, L
    <3>2. f[m] = PlacedAt(f[m - 1], rpo[m + 1]) /\ f[m - 1] = f[n]
      BY <1>6, <3>1
    <3>3. Begun(f[m], m)
      BY <1>3, <3>1, <3>2
    <3> QED
      BY <3>1, <3>3 DEF m
  <2> HIDE DEF H, L
  <2>3. H = 0 .. L
    BY <1>1, <2>1, <2>2, StepByStep
  <2> QED
    BY <2>3 DEF H
<1>8. \A n \in 1 .. L : f[n] = PlacedAt(f[n - 1], rpo[n + 1])
  <2>1. \A n \in 1 .. L : n - 1 \in 0 .. L
    BY <1>1
  <2> HIDE DEF L, V
  <2> QED
    BY <1>6, <1>7, <2>1
<1>9. f = [n \in 0 .. L |-> IF n = 0 THEN idom ELSE PlacedAt(f[n - 1], rpo[n + 1])]
  <2>1. ASSUME NEW n \in 0 .. L PROVE f[n] = IF n = 0 THEN idom ELSE PlacedAt(f[n - 1], rpo[n + 1])
    <3>1. n # 0 => n \in 1 .. L
      OBVIOUS
    <3> QED
      BY <1>6, <1>8, <3>1
  <2> HIDE DEF L, V
  <2> QED
    BY <1>6, <2>1
<1>10. sweep = [n \in 0 .. L |-> IF n = 0 THEN idom ELSE PlacedAt(sweep[n - 1], rpo[n + 1])]
  <2>1. \A g : g = [n \in 0 .. L |-> IF n = 0 THEN idom ELSE PlacedAt(g[n - 1], rpo[n + 1])]
               <=> g = [n \in 0 .. L |->
                          IF n = 0 THEN idom
                          ELSE LET tree == g[n - 1] IN [tree EXCEPT ![rpo[n + 1]] = NewIdom(tree, rpo[n + 1])]]
    BY DEF PlacedAt
  <2> QED
    BY <1>9, <2>1
<1>11. Swept = sweep[L]
  BY DEF Swept
<1> HIDE DEF sweep
<1>12. sweep[0] = idom /\ \A n \in 1 .. L : sweep[n] = PlacedAt(sweep[n - 1], rpo[n + 1])
  <2>1. 0 \in 0 .. L /\ \A n \in 1 .. L : n \in 0 .. L /\ n # 0
    BY <1>1
  <2> HIDE DEF L
  <2> QED
    BY <1>10, <2>1
<1>13. \A n \in 0 .. L : Begun(sweep[n], n)
  <2> DEFINE H == {n \in 0 .. L : Begun(sweep[n], n)}
  <2>1. 0 \in H /\ H \in SUBSET (0 .. L)
    BY <1>1, <1>12
  <2>2. ASSUME NEW n \in 0 .. L, n \in H, n < L PROVE n + 1 \in H
    <3> DEFINE m == n + 1
    <3>1. m \in 1 .. L /\ m - 1 = n /\ m \in 0 .. L /\ Begun(sweep[n], n) /\ sweep[n] \in V
      BY <1>1, <2>2 DEF Begun, TreeInv
    <3> HIDE DEF m, V, L
    <3>2. sweep[m] = PlacedAt(sweep[m - 1], rpo[m + 1]) /\ sweep[m - 1] = sweep[n]
      BY <1>12, <3>1
    <3>3. Begun(sweep[m], m)
      BY <1>3, <3>1, <3>2
    <3> QED
      BY <3>1, <3>3 DEF m
  <2> HIDE DEF H, L
  <2>3. H = 0 .. L
    BY <1>1, <2>1, <2>2, StepByStep
  <2> QED
    BY <2>3 DEF H
<1>14. Begun(Swept, L)
  <2>1. L \in 0 .. L
    BY <1>1
  <2> QED
    BY <1>11, <1>13, <2>1
<1> HIDE DEF V, G
<1>15. ASSUME Swept = idom
       PROVE  \A n \in 0 .. L : sweep[n] = idom
  <2>2. ASSUME NEW n \in 1 .. L
        PROVE  /\ rpo[n + 1] \in Blocks
               /\ \A k \in 1 .. Len(rpo) : k # n + 1 => sweep[n][rpo[k]] = sweep[n - 1][rpo[k]]
               /\ sweep[n - 1] \in [Blocks -> Blocks \cup {None}]
    <3>1. n + 1 \in DOMAIN rpo /\ DOMAIN rpo = 1 .. Len(rpo) /\ n - 1 \in 0 .. L
      BY <1>1, <2>2, OrderFacts
    <3>2. sweep[n - 1] \in [Blocks -> Blocks \cup {None}]
      BY <1>13, <3>1 DEF Begun, TreeInv
    <3>3. Reachable \subseteq Blocks /\ \A k \in 1 .. Len(rpo) : rpo[k] \in Reachable
      BY <3>1, OrderFacts, ReachableFacts
    <3>4. \A k \in 1 .. Len(rpo) : k # n + 1 => rpo[k] # rpo[n + 1]
      BY <3>1, OrderFacts
    <3> QED
      BY <1>12, <3>1, <3>2, <3>3, <3>4 DEF PlacedAt
  (* What is placed at n is not changed afterwards. *)
  <2>3. ASSUME NEW n \in 1 .. L PROVE \A m \in 0 .. L : m >= n => sweep[m][rpo[n + 1]] = sweep[n][rpo[n + 1]]
    <3> DEFINE H == {m \in 0 .. L : m >= n => sweep[m][rpo[n + 1]] = sweep[n][rpo[n + 1]]}
    <3>1. 0 \in H /\ H \in SUBSET (0 .. L)
      BY <1>1, <2>3
    <3>2. ASSUME NEW i \in 0 .. L, i \in H, i < L PROVE i + 1 \in H
      <4> DEFINE m == i + 1
      <4>1. m \in 1 .. L /\ m - 1 = i /\ m \in 0 .. L /\ (m >= n => m = n \/ (i >= n /\ n + 1 # m + 1))
        BY <1>1, <3>2
      <4>2. n + 1 \in 1 .. Len(rpo)
        BY <1>1, OrderFacts
      <4> HIDE DEF m
      <4>3. n + 1 # m + 1 => sweep[m][rpo[n + 1]] = sweep[i][rpo[n + 1]]
        <5>1. \A k \in 1 .. Len(rpo) : k # m + 1 => sweep[m][rpo[k]] = sweep[m - 1][rpo[k]]
          BY <2>2, <4>1
        <5> QED
          BY <4>1, <4>2, <5>1
      <4>4. m >= n => sweep[m][rpo[n + 1]] = sweep[n][rpo[n + 1]]
        BY <3>2, <4>1, <4>3
      <4>5. m \in H
        BY <4>1, <4>4
      <4> QED
        BY <4>5 DEF m
    <3> HIDE DEF H, L
    <3>3. H = 0 .. L
      BY <1>1, <3>1, <3>2, StepByStep
    <3> QED
      BY <3>3 DEF H
  <2>4. \A n \in 1 .. L : sweep[n][rpo[n + 1]] = idom[rpo[n + 1]]
    <3> SUFFICES ASSUME NEW n \in 1 .. L PROVE sweep[n][rpo[n + 1]] = idom[rpo[n + 1]]
      OBVIOUS
    <3>1. L \in 0 .. L /\ L >= n
      BY <1>1
    <3> HIDE DEF L
    <3>2. sweep[L][rpo[n + 1]] = sweep[n][rpo[n + 1]]
      BY <2>3, <3>1
    <3> QED
      BY <1>11, <1>15, <3>2
  <2> DEFINE H == {n \in 0 .. L : sweep[n] = idom}
  <2>5. 0 \in H /\ H \in SUBSET (0 .. L)
    BY <1>1, <1>12
  <2>6. ASSUME NEW i \in 0 .. L, i \in H, i < L PROVE i + 1 \in H
    <3> DEFINE m == i + 1
    <3>1. m \in 1 .. L /\ m - 1 = i /\ m \in 0 .. L /\ sweep[i] = idom
      BY <1>1, <2>6
    <3> HIDE DEF m
    <3>2. sweep[m] = PlacedAt(idom, rpo[m + 1])
      BY <1>12, <3>1
    <3>3. sweep[m][rpo[m + 1]] = idom[rpo[m + 1]] /\ rpo[m + 1] \in Blocks /\ idom \in [Blocks -> Blocks \cup {None}]
      BY <1>1, <2>2, <2>4, <3>1 DEF V
    <3>4. sweep[m] = idom
      BY <3>2, <3>3 DEF PlacedAt
    <3> QED
      BY <3>1, <3>4 DEF m
  <2> HIDE DEF H, L
  <2>7. H = 0 .. L
    BY <1>1, <2>5, <2>6, StepByStep
  <2> QED
    BY <2>7 DEF H
<1>16. ASSUME Swept = idom, NEW b \in Reachable \ {1} PROVE idom[b] = NewIdom(idom, b)
  <2> DEFINE m == Position(b) - 1
  <2>1. Position(b) \in 1 .. Len(rpo) /\ rpo[Position(b)] = b /\ Position(b) # 1
    BY PositionFacts, OrderFacts
  <2>2. m \in 1 .. L /\ m + 1 = Position(b) /\ m \in 0 .. L /\ m - 1 \in 0 .. L
    BY <1>1, <2>1
  <2> HIDE DEF m
  <2>3. sweep[m] = idom /\ sweep[m - 1] = idom
    BY <1>15, <1>16, <2>2
  <2>4. idom = PlacedAt(idom, b)
    BY <1>12, <2>1, <2>2, <2>3
  <2>5. b \in Blocks
    BY OrderFacts, ReachableFacts
  <2> QED
    BY <1>1, <2>4, <2>5 DEF PlacedAt, V
<1>17. ASSUME Swept = idom, NEW b \in Reachable PROVE idom[b] # None
  <2>1. Position(b) \in 1 .. L + 1 /\ rpo[Position(b)] = b
    BY PositionFacts
  <2> QED
    BY <1>14, <1>17, <2>1 DEF Begun
<1> QED
  BY <1>14, <1>16, <1>17 DEF Begun

-----------------------------------------------------------------------------
(* Each block hangs on what dominates it, and on the nearest such block. *)
Exact ==
  \A b \in Reachable \ {1} :
    /\ idom[b] # b /\ Dominates(idom[b], b)
    /\ \A d \in Reachable \ {b} : Dominates(d, b) => Dominates(d, idom[b])

(* A tree that a round leaves as it is: each block hangs on its immediate  *)
(* dominator.                                                              *)
LEMMA ExactFacts ==
  ASSUME SearchInv, stack = <<>>, TreeInv(idom), \A b \in Reachable : idom[b] # None,
         \A b \in Reachable \ {1} : idom[b] = NewIdom(idom, b)
  PROVE  Exact
<1>1. /\ prog \in Programs /\ Reachable \subseteq Blocks /\ 1 \in Reachable
      /\ \A b \in Reachable : Succs(b) \subseteq Reachable \ {1}
      /\ OnTree(idom) = Reachable
  BY OrderFacts, ReachableFacts, BlocksFacts DEF OnTree
<1>2. ASSUME NEW t \in Reachable \ {1}, NEW p \in Reachable, t \in Succs(p)
      PROVE  Above(idom, p, idom[t])
  <2>1. p \in Preds(t) /\ idom[p] # None /\ t \in Blocks
    BY <1>1, <1>2 DEF Preds
  <2>2. AllInCommon(idom, {q \in Preds(t) : idom[q] # None}, NewIdom(idom, t))
    BY <2>1, NewIdomFacts
  <2> QED
    BY <2>1, <2>2, <1>2 DEF AllInCommon
<1>3. ASSUME NEW b \in Reachable \ {1} PROVE Dominates(idom[b], b)
  <2> DEFINE d == idom[b]
             S == {c \in Reachable : ~Above(idom, c, d)}
  <2>1. 1 # d => 1 \in S
    <3>1. {1} \in SUBSET Blocks /\ 1 \in {1} /\ \A x \in {1} : idom[x] # None => idom[x] \in {1}
      BY <1>1 DEF TreeInv
    <3>2. Above(idom, 1, d) => d \in {1}
      BY <3>1 DEF Above
    <3> QED
      BY <1>1, <3>2
  <2>2. ASSUME NEW c \in S, NEW t \in Succs(c) \ {d} PROVE t \in S
    <3>1. c \in Reachable /\ t \in Reachable \ {1} /\ t \in Blocks /\ c \in Blocks /\ idom[t] # None
      BY <1>1, <2>2
    <3>2. ASSUME Above(idom, t, d) PROVE FALSE
      <4> HIDE DEF d
      <4>1. Above(idom, idom[t], d)
        BY <2>2, <3>1, <3>2, AboveFacts
      <4>2. Above(idom, c, idom[t])
        BY <1>2, <2>2, <3>1
      <4>3. Above(idom, c, d)
        BY <3>1, <4>1, <4>2, AboveFacts
      <4> QED
        BY <2>2, <4>3
    <3> QED
      BY <3>1, <3>2
  <2>3. Avoiding(d) \subseteq S
    <3>1. {1} \ {d} \subseteq S /\ \A c \in Blocks : c \in S => Succs(c) \ {d} \subseteq S
      BY <2>1, <2>2
    <3> HIDE DEF S
    <3> QED
      BY <1>1, <3>1, AvoidingFacts
  <2>4. Above(idom, b, d)
    <3>1. b \in Blocks /\ idom[b] # None
      BY <1>1
    <3> QED
      BY <3>1, AboveFacts
  <2> QED
    BY <1>1, <2>3, <2>4, AvoidingFacts
<1>4. ASSUME NEW b \in Reachable \ {1}
      PROVE  idom[b] # b /\ \A d \in Reachable \ {b} : Dominates(d, b) => Dominates(d, idom[b])
  <2>1. Position(idom[b]) < Position(b) /\ \A d \in Reachable \ {b} : Dominates(d, b) => Dominates(d, idom[b])
    BY <1>1 DEF TreeInv
  <2>2. Position(b) \in Nat
    BY PositionFacts
  <2> QED
    BY <2>1, <2>2
<1> QED
  BY <1>3, <1>4 DEF Exact

-----------------------------------------------------------------------------
(* The invariant of the search and of the rounds.                          *)
OrderInv ==
  /\ SearchInv /\ TreeInv(idom)
  /\ stack # <<>> => \A b \in Blocks \ {1} : idom[b] = None
  /\ phase \notin {"escape", "order"} =>
       /\ stack = <<>> /\ Exact
       /\ \A b \in Reachable : idom[b] # None

LEMMA InitOrder == Init => OrderInv
<1> SUFFICES ASSUME Init PROVE OrderInv
  OBVIOUS
<1>1. prog \in Programs /\ phase = "escape" /\ idom = [b \in Blocks |-> IF b = 1 THEN 1 ELSE None]
  BY DEF Init
<1>2. 1 \in Blocks /\ 1 \in Reachable /\ Reachable \subseteq Blocks /\ 1 # None
  BY <1>1, BlocksFacts, ReachableFacts DEF None
<1>3. OnTree(idom) = {1}
  BY <1>1, <1>2 DEF OnTree
<1>4. TreeInv(idom)
  BY <1>1, <1>2, <1>3 DEF TreeInv
<1> QED
  BY <1>1, <1>4, InitSearch DEF OrderInv

LEMMA StepOrder ==
  ASSUME OrderInv, [Next]_vars
  PROVE  OrderInv'
<1>1. /\ SearchInv /\ TreeInv(idom)
      /\ stack # <<>> => \A b \in Blocks \ {1} : idom[b] = None
      /\ phase \notin {"escape", "order"} =>
           /\ stack = <<>> /\ Exact
           /\ \A b \in Reachable : idom[b] # None
  BY DEF OrderInv
<1>2. SearchInv'
  BY <1>1, StepSearch
<1>3. ASSUME prog' = prog
      PROVE  /\ Reachable' = Reachable /\ Blocks' = Blocks
             /\ \A d, b : Dominates(d, b)' = Dominates(d, b)
  BY <1>3 DEF Reachable, Dominates, Closure, Blocks, Succs
<1>4. ASSUME UNCHANGED <<prog, search, idom>>,
             phase' \in {"escape", "order"} \/ phase \notin {"escape", "order"}
      PROVE  OrderInv'
  <2>1. prog' = prog /\ stack' = stack /\ rpo' = rpo /\ idom' = idom
    BY <1>4 DEF search
  <2>2. \A b : Position(b)' = Position(b)
    BY <2>1 DEF Position
  <2>3. TreeInv(idom)'
    BY <1>1, <1>3, <2>1, <2>2 DEF TreeInv, OnTree
  <2>4. Exact' <=> Exact
    BY <1>3, <2>1 DEF Exact
  <2> QED
    BY <1>1, <1>2, <1>3, <1>4, <2>1, <2>3, <2>4 DEF OrderInv
<1>5. CASE Expand \/ Leave
  <2>1. stack # <<>> /\ phase = "order" /\ phase' = "order" /\ UNCHANGED <<prog, idom>>
    BY <1>5 DEF Expand, Leave, Searching
  <2>2. \A b \in Blocks \ {1} : idom[b] = None
    BY <1>1, <2>1
  <2>3. OnTree(idom)' \subseteq {1} /\ Reachable \subseteq Blocks /\ 1 \in Blocks /\ 1 \in Reachable
    BY <1>1, <1>3, <2>1, <2>2, ReachableFacts, BlocksFacts DEF OnTree, SearchInv
  <2>4. 1 \in OnTree(idom)'
    BY <1>1, <1>3, <2>1, <2>3 DEF OnTree, TreeInv, None
  <2>5. TreeInv(idom)'
    BY <1>1, <1>3, <2>1, <2>2, <2>3, <2>4 DEF TreeInv
  <2> QED
    BY <1>2, <1>3, <2>1, <2>2, <2>5 DEF OrderInv
<1>6. CASE Sweep
  <2>1. /\ stack = <<>> /\ UNCHANGED <<prog, search>> /\ idom' = Swept /\ phase = "order"
        /\ phase' = IF Swept = idom THEN "promote" ELSE phase
    BY <1>6 DEF Sweep
  <2>2. prog' = prog /\ stack' = stack /\ rpo' = rpo
    BY <2>1 DEF search
  <2>3. \A b : Position(b)' = Position(b)
    BY <2>2 DEF Position
  <2>4. TreeInv(Swept)
    BY <1>1, <2>1, SweptFacts
  <2>5. TreeInv(idom)'
    <3> DEFINE t == Swept
    <3>1. idom' = t /\ TreeInv(t)
      BY <2>1, <2>4
    <3> HIDE DEF t
    <3> QED
      BY <1>3, <2>2, <2>3, <3>1 DEF TreeInv, OnTree
  <2>6. CASE Swept = idom
    <3>1. idom' = idom /\ Exact /\ \A b \in Reachable : idom[b] # None
      BY <1>1, <2>1, <2>6, SweptFacts, ExactFacts
    <3>2. Exact'
      BY <1>3, <2>2, <3>1 DEF Exact
    <3> QED
      BY <1>1, <1>2, <1>3, <2>1, <2>2, <2>5, <3>1, <3>2 DEF OrderInv
  <2>7. CASE Swept # idom
    BY <1>2, <2>1, <2>2, <2>5, <2>7 DEF OrderInv
  <2> QED
    BY <2>6, <2>7
<1>7. CASE Analyse
  BY <1>4, <1>7 DEF Analyse
<1>8. CASE PassOver \/ Walk \/ PlacePhis \/ RenameTree \/ Rewrite \/ Start
  BY <1>4, <1>8 DEF PassOver, Walk, PlacePhis, RenameTree, Rewrite, Start
<1>9. CASE Compute \/ Alloca \/ Copy \/ Load \/ Store \/ Return
  BY <1>4, <1>9 DEF Compute, Alloca, Copy, Load, Store, Return, Advance, Running
<1>10. CASE Branch
  BY <1>4, <1>10 DEF Branch, Running
<1>11. CASE Halt \/ UNCHANGED vars
  BY <1>4, <1>11 DEF Halt, vars
<1> QED
  BY <1>5, <1>6, <1>7, <1>8, <1>9, <1>10, <1>11 DEF Next

LEMMA OrderAlways == Spec => []OrderInv
<1>1. Init => OrderInv
  BY InitOrder
<1>2. OrderInv /\ [Next]_vars => OrderInv'
  BY StepOrder
<1> QED
  BY <1>1, <1>2, PTL DEF Spec

(* The rounds end with the immediate dominators, whatever the loops of the *)
(* function: two entries, or a predecessor that comes later in the order.  *)
THEOREM DominatorsFound == Spec => []IdomExact
<1>1. OrderInv => IdomExact
  BY DEF OrderInv, IdomExact, Exact
<1> QED
  BY <1>1, OrderAlways, PTL

-----------------------------------------------------------------------------
(* What stands in a block of the function. *)
LEMMA SourceFacts ==
  ASSUME prog \in Programs
  PROVE  \A b \in Blocks : \A i \in DOMAIN Source(b) :
           LET ins == Source(b)[i]
           IN  /\ ins \in Instructions
               /\ ins.dst \in 0 .. NumRegs /\ ins.src \in Seq(1 .. NumRegs) /\ Reads(ins) \subseteq 1 .. NumRegs
               /\ ins.from \in Seq(Nat \X (1 .. NumRegs))
               /\ ins.op \in {"load", "copy"} => Len(ins.src) = 1 /\ ins.src[1] \in 1 .. NumRegs
               /\ ins.op = "store" => Len(ins.src) = 2 /\ ins.src[1] \in 1 .. NumRegs /\ ins.src[2] \in 1 .. NumRegs
<1> SUFFICES ASSUME NEW b \in Blocks, NEW i \in DOMAIN Source(b)
             PROVE  LET ins == Source(b)[i]
                    IN  /\ ins \in Instructions
                        /\ ins.dst \in 0 .. NumRegs /\ ins.src \in Seq(1 .. NumRegs) /\ Reads(ins) \subseteq 1 .. NumRegs
                        /\ ins.from \in Seq(Nat \X (1 .. NumRegs))
                        /\ ins.op \in {"load", "copy"} => Len(ins.src) = 1 /\ ins.src[1] \in 1 .. NumRegs
                        /\ ins.op = "store" => Len(ins.src) = 2 /\ ins.src[1] \in 1 .. NumRegs /\ ins.src[2] \in 1 .. NumRegs
  OBVIOUS
<1> DEFINE ins == Source(b)[i]
<1>1. ins \in Instructions
  <2>1. Source(b) \in Seq(Instructions)
    BY BlocksFacts
  <2> QED
    BY <2>1
<1>2. /\ ins.dst \in 0 .. NumRegs /\ ins.src \in Seq(1 .. NumRegs) /\ ins.from \in Seq(Nat \X (1 .. NumRegs))
      /\ ins.op \in {"load", "copy"} => Len(ins.src) = 1
      /\ ins.op = "store" => Len(ins.src) = 2
  <2> HIDE DEF ins
  <2> QED
    BY <1>1 DEF Instructions
<1> HIDE DEF ins
<1>3. DOMAIN ins.src = 1 .. Len(ins.src) /\ \A k \in 1 .. Len(ins.src) : ins.src[k] \in 1 .. NumRegs
  <2> DEFINE R == 1 .. NumRegs
  <2>1. ins.src \in Seq(R)
    BY <1>2
  <2> HIDE DEF R
  <2>2. DOMAIN ins.src = 1 .. Len(ins.src) /\ \A k \in 1 .. Len(ins.src) : ins.src[k] \in R
    BY <2>1
  <2> QED
    BY <2>2 DEF R
<1>4. Reads(ins) \subseteq 1 .. NumRegs
  BY <1>2, <1>3 DEF Reads
<1> QED
  BY <1>1, <1>2, <1>3, <1>4 DEF ins

(* The locals are a sequence of registers, each of them once. *)
LEMMA LocalsFacts ==
  ASSUME prog \in Programs
  PROVE  /\ Locals \in Seq(LocalSet) /\ LocalSet \subseteq 0 .. NumRegs
         /\ \A k, m \in DOMAIN Locals : Locals[k] = Locals[m] => k = m
<1> DEFINE entry == prog.blocks[1].code
           L == Len(entry)
           A == Seq(0 .. NumRegs)
           One(i, w) == IF entry[i].op = "alloca" THEN Append(w, entry[i].dst) ELSE w
           G == [p \in (1 .. L) \X A |-> One(p[1], p[2])]
           locals[i \in 0 .. L] ==
             IF i = 0 THEN <<>>
             ELSE IF entry[i].op = "alloca" THEN Append(locals[i - 1], entry[i].dst) ELSE locals[i - 1]
<1>1. Locals = locals[L]
  BY DEF Locals, AllLocals
<1>2. L \in Nat /\ \A i \in 1 .. L : entry[i].dst \in 0 .. NumRegs
  <2>1. 1 \in Blocks /\ Source(1) = entry /\ Source(1) \in Seq(Instructions)
    BY BlocksFacts DEF Source
  <2>2. DOMAIN entry = 1 .. L /\ L \in Nat
    BY <2>1
  <2> QED
    BY <2>1, <2>2, SourceFacts
<1>3. G \in [(1 .. L) \X A -> A] /\ <<>> \in A
  <2>1. ASSUME NEW i \in 1 .. L, NEW w \in A PROVE One(i, w) \in A
    <3> DEFINE R == 0 .. NumRegs
    <3>1. entry[i].dst \in R /\ w \in Seq(R)
      BY <1>2
    <3> HIDE DEF R, entry
    <3>2. Append(w, entry[i].dst) \in Seq(R)
      BY <3>1
    <3> QED
      BY <3>2 DEF R
  <2> HIDE DEF A, L, One
  <2>2. G \in [(1 .. L) \X A -> A]
    BY <2>1
  <2> QED
    BY <2>2 DEF A
<1>4. PICK f : Follows(f, A, <<>>, G, L)
  <2> HIDE DEF G, L, A
  <2> QED
    BY <1>2, <1>3, Recursion
<1>5. f \in [0 .. L -> A] /\ f[0] = <<>> /\ \A k \in 1 .. L : f[k] = One(k, f[k - 1])
  <2>1. f \in [0 .. L -> A] /\ f[0] = <<>> /\ \A k \in 1 .. L : f[k] = G[<<k, f[k - 1]>>]
    BY <1>4 DEF Follows
  <2>2. \A k \in 1 .. L : f[k - 1] \in A
    <3> HIDE DEF L, A
    <3> QED
      BY <1>2, <2>1
  <2>3. \A k \in 1 .. L : G[<<k, f[k - 1]>>] = One(k, f[k - 1])
    <3> HIDE DEF One, L, A
    <3> QED
      BY <2>2
  <2> HIDE DEF One, G
  <2> QED
    BY <2>1, <2>3
<1>6. f = [k \in 0 .. L |-> IF k = 0 THEN <<>> ELSE One(k, f[k - 1])]
  <2> HIDE DEF One
  <2>1. \A k \in 0 .. L : f[k] = IF k = 0 THEN <<>> ELSE One(k, f[k - 1])
    <3> SUFFICES ASSUME NEW k \in 0 .. L PROVE f[k] = IF k = 0 THEN <<>> ELSE One(k, f[k - 1])
      OBVIOUS
    <3>1. k # 0 => k \in 1 .. L
      OBVIOUS
    <3> QED
      BY <1>5, <3>1
  <2> QED
    BY <1>5, <2>1
<1>7. locals = [k \in 0 .. L |-> IF k = 0 THEN <<>> ELSE One(k, locals[k - 1])]
  <2>1. f = [k \in 0 .. L |-> IF k = 0 THEN <<>> ELSE
               IF entry[k].op = "alloca" THEN Append(f[k - 1], entry[k].dst) ELSE f[k - 1]]
    BY <1>6
  <2> QED
    BY <2>1
<1> HIDE DEF locals
<1>8. locals[0] = <<>> /\ \A k \in 1 .. L : locals[k] = One(k, locals[k - 1])
  <2> HIDE DEF One
  <2>1. \A k \in 0 .. L : locals[k] = IF k = 0 THEN <<>> ELSE One(k, locals[k - 1])
    BY <1>7
  <2>2. 0 \in 0 .. L /\ \A k \in 1 .. L : k \in 0 .. L /\ k # 0
    BY <1>2
  <2> QED
    BY <2>1, <2>2
<1>9. locals \in [0 .. L -> A]
  <2>1. \A k \in 1 .. L : locals[k - 1] \in A => locals[k] = G[<<k, locals[k - 1]>>]
    <3> HIDE DEF One, L, A
    <3> QED
      BY <1>8
  <2>2. locals = [k \in 0 .. L |-> locals[k]]
    <3> HIDE DEF One
    <3> QED
      BY <1>7
  <2>3. Follows(locals, A, <<>>, G, L)
    <3> HIDE DEF G, L, A, One
    <3> QED
      BY <1>2, <1>3, <1>8, <2>1, <2>2, RecursionType
  <2> QED
    BY <2>3 DEF Follows
<1>10. Locals \in A
  BY <1>1, <1>2, <1>9
<1>11. \A s, R : s \in Seq(R) => /\ s \in Seq({s[k] : k \in DOMAIN s})
                                   /\ {s[k] : k \in DOMAIN s} \subseteq R
  OBVIOUS
<1>12. \A k, m \in DOMAIN Locals : Locals[k] = Locals[m] => k = m
  <2> DEFINE From(w, n) == \A k \in DOMAIN w : \E i \in 1 .. n : entry[i].op = "alloca" /\ entry[i].dst = w[k]
             Once(w) == \A k, m \in DOMAIN w : w[k] = w[m] => k = m
             H == {n \in 0 .. L : From(locals[n], n) /\ Once(locals[n])}
  <2>1. 0 \in H
    <3>1. DOMAIN locals[0] = {}
      BY <1>8
    <3> QED
      BY <1>2, <3>1
  <2>2. ASSUME NEW n \in 0 .. L, n \in H, n < L PROVE n + 1 \in H
    <3> DEFINE w == locals[n]
               v == locals[n + 1]
               m == n + 1
               ins == entry[m]
    <3>1. w \in Seq(0 .. NumRegs) /\ From(w, n) /\ Once(w) /\ m \in 1 .. L /\ m - 1 = n
      BY <1>2, <1>9, <2>2
    <3>2. v = IF ins.op = "alloca" THEN Append(w, ins.dst) ELSE w
      <4>1. locals[m] = One(m, locals[m - 1])
        BY <1>8, <3>1
      <4> QED
        BY <3>1, <4>1
    <3>3. \A i \in 1 .. n : i \in 1 .. m /\ i # m /\ i \in 1 .. L
      BY <1>2, <3>1
    <3>4. CASE ins.op # "alloca"
      <4>1. From(w, m)
        <5> HIDE DEF w, m, locals, entry
        <5> QED
          BY <3>1, <3>3
      <4>2. v = w
        BY <3>2, <3>4
      <4>3. From(v, m) /\ Once(v)
        <5> HIDE DEF w, v, m, locals, entry, From, Once
        <5> QED
          BY <3>1, <4>1, <4>2
      <4> QED
        BY <1>2, <3>1, <4>3
    <3>5. CASE ins.op = "alloca"
      <4>1. \A k \in DOMAIN w : w[k] # ins.dst
        <5> SUFFICES ASSUME NEW k \in DOMAIN w, w[k] = ins.dst PROVE FALSE
          OBVIOUS
        <5>1. PICK i \in 1 .. n : entry[i].op = "alloca" /\ entry[i].dst = ins.dst
          BY <3>1
        <5>2. i \in DOMAIN entry /\ m \in DOMAIN entry /\ i # m
          <6>1. DOMAIN entry = 1 .. L
            <7>1. Source(1) = entry /\ Source(1) \in Seq(Instructions)
              BY BlocksFacts DEF Source
            <7> QED
              BY <7>1
          <6> QED
            BY <3>1, <3>3, <6>1
        <5> QED
          BY <3>5, <5>1, <5>2, ProgramsAssumption
      <4> DEFINE R == 0 .. NumRegs
      <4>2. w \in Seq(R) /\ ins.dst \in R
        BY <1>2, <3>1
      <4> HIDE DEF R, ins, w
      <4>3. /\ DOMAIN v = 1 .. Len(w) + 1 /\ DOMAIN w = 1 .. Len(w) /\ Len(w) \in Nat
            /\ \A k \in 1 .. Len(w) : v[k] = w[k]
            /\ v[Len(w) + 1] = ins.dst
        BY <3>2, <3>5, <4>2
      <4> HIDE DEF v
      <4>4. \A k \in DOMAIN v : k \in DOMAIN w \/ k = Len(w) + 1
        BY <4>3
      <4>5. From(v, m)
        <5>1. m \in 1 .. m
          BY <3>1
        <5>2. entry[m].op = "alloca" /\ entry[m].dst = ins.dst
          BY <3>5 DEF ins
        <5> HIDE DEF m, entry, L
        <5>3. ASSUME NEW k \in DOMAIN v PROVE \E i \in 1 .. m : entry[i].op = "alloca" /\ entry[i].dst = v[k]
          <6>1. CASE k = Len(w) + 1
            BY <4>3, <5>1, <5>2, <6>1
          <6>2. CASE k \in DOMAIN w
            <7>1. PICK i \in 1 .. n : entry[i].op = "alloca" /\ entry[i].dst = w[k]
              BY <3>1, <6>2 DEF w
            <7> QED
              BY <3>3, <4>3, <6>2, <7>1
          <6> QED
            BY <4>4, <6>1, <6>2
        <5> QED
          BY <5>3
      <4>6. Once(v)
        <5> SUFFICES ASSUME NEW k \in DOMAIN v, NEW j \in DOMAIN v, v[k] = v[j] PROVE k = j
          OBVIOUS
        <5>1. CASE k \in DOMAIN w /\ j \in DOMAIN w
          BY <3>1, <4>3, <5>1 DEF w
        <5> QED
          BY <4>1, <4>3, <4>4, <5>1
      <4> QED
        BY <1>2, <3>1, <4>5, <4>6 DEF v
    <3> QED
      BY <3>4, <3>5
  <2>3. L \in H
    <3>1. H \in SUBSET (0 .. L)
      OBVIOUS
    <3> HIDE DEF H, L
    <3> QED
      BY <1>2, <2>1, <2>2, <3>1, StepByStep
  <2> QED
    BY <1>1, <2>3
<1> QED
  BY <1>10, <1>11, <1>12 DEF LocalSet

-----------------------------------------------------------------------------
(* An instruction hands on the address of a local or none. *)
LEMMA HandedOnType ==
  ASSUME prog \in Programs, NEW b \in Blocks, NEW i \in DOMAIN Source(b),
         NEW known \in [1 .. NumRegs -> LocalSet \cup {None}]
  PROVE  HandedOn(Source(b)[i], known) \in LocalSet \cup {None}
<1> DEFINE ins == Source(b)[i]
           L == Len(ins.from)
           A == LocalSet \cup {None}
           One(k, aid) == LET source == ins.from[k]
                          IN  IF source[1] \notin Reachable THEN aid
                              ELSE IF aid \in {None, known[source[2]]} THEN known[source[2]] ELSE None
           G == [p \in (1 .. L) \X A |-> One(p[1], p[2])]
           merged[k \in 0 .. L] ==
             IF k = 0 THEN None
             ELSE LET aid == merged[k - 1]
                      source == ins.from[k]
                  IN  IF source[1] \notin Reachable THEN aid
                      ELSE IF aid \in {None, known[source[2]]} THEN known[source[2]] ELSE None
<1>1. /\ ins.op = "copy" => ins.src[1] \in 1 .. NumRegs
      /\ L \in Nat /\ \A k \in 1 .. L : ins.from[k][2] \in 1 .. NumRegs
  <2>1. ins.op = "copy" => ins.src[1] \in 1 .. NumRegs
    BY SourceFacts
  <2> DEFINE T == Nat \X (1 .. NumRegs)
  <2>2. ins.from \in Seq(T)
    BY SourceFacts
  <2> HIDE DEF ins, T
  <2>3. L \in Nat /\ \A k \in 1 .. L : ins.from[k] \in T
    BY <2>2
  <2> QED
    BY <2>1, <2>3 DEF T
<1>2. G \in [(1 .. L) \X A -> A] /\ None \in A
  <2>1. ASSUME NEW k \in 1 .. L, NEW aid \in A PROVE One(k, aid) \in A
    <3> HIDE DEF ins
    <3> QED
      BY <1>1
  <2> HIDE DEF A, L, One
  <2>2. G \in [(1 .. L) \X A -> A]
    BY <2>1
  <2> QED
    BY <2>2 DEF A
<1>3. PICK f : Follows(f, A, None, G, L)
  <2> HIDE DEF G, L, A
  <2> QED
    BY <1>1, <1>2, Recursion
<1>4. f \in [0 .. L -> A] /\ f[0] = None /\ \A k \in 1 .. L : f[k] = One(k, f[k - 1])
  <2>1. f \in [0 .. L -> A] /\ f[0] = None /\ \A k \in 1 .. L : f[k] = G[<<k, f[k - 1]>>]
    BY <1>3 DEF Follows
  <2>2. \A k \in 1 .. L : f[k - 1] \in A
    <3> HIDE DEF L, A
    <3> QED
      BY <1>1, <2>1
  <2>3. \A k \in 1 .. L : G[<<k, f[k - 1]>>] = One(k, f[k - 1])
    <3> HIDE DEF One, L, A
    <3> QED
      BY <2>2
  <2> HIDE DEF One, G
  <2> QED
    BY <2>1, <2>3
<1>5. f = [k \in 0 .. L |-> IF k = 0 THEN None ELSE One(k, f[k - 1])]
  <2> HIDE DEF One
  <2>1. \A k \in 0 .. L : f[k] = IF k = 0 THEN None ELSE One(k, f[k - 1])
    <3> SUFFICES ASSUME NEW k \in 0 .. L PROVE f[k] = IF k = 0 THEN None ELSE One(k, f[k - 1])
      OBVIOUS
    <3>1. k # 0 => k \in 1 .. L
      OBVIOUS
    <3> QED
      BY <1>4, <3>1
  <2> QED
    BY <1>4, <2>1
<1>6. merged = [k \in 0 .. L |-> IF k = 0 THEN None ELSE One(k, merged[k - 1])]
  <2>1. f = [k \in 0 .. L |-> IF k = 0 THEN None ELSE
               LET aid == f[k - 1]
                   source == ins.from[k]
               IN  IF source[1] \notin Reachable THEN aid
                   ELSE IF aid \in {None, known[source[2]]} THEN known[source[2]] ELSE None]
    BY <1>5
  <2> QED
    BY <2>1
<1> HIDE DEF merged
<1>7. merged[0] = None /\ \A k \in 1 .. L : merged[k] = One(k, merged[k - 1])
  <2> HIDE DEF One
  <2>1. \A k \in 0 .. L : merged[k] = IF k = 0 THEN None ELSE One(k, merged[k - 1])
    BY <1>6
  <2>2. 0 \in 0 .. L /\ \A k \in 1 .. L : k \in 0 .. L /\ k # 0
    BY <1>1
  <2> QED
    BY <2>1, <2>2
<1>8. merged \in [0 .. L -> A]
  <2>1. \A k \in 1 .. L : merged[k - 1] \in A => merged[k] = G[<<k, merged[k - 1]>>]
    <3> HIDE DEF One, L, A
    <3> QED
      BY <1>7
  <2>2. merged = [k \in 0 .. L |-> merged[k]]
    <3> HIDE DEF One
    <3> QED
      BY <1>6
  <2>3. Follows(merged, A, None, G, L)
    <3> HIDE DEF G, L, A, One
    <3> QED
      BY <1>1, <1>2, <1>7, <2>1, <2>2, RecursionType
  <2> QED
    BY <2>3 DEF Follows
<1>9. merged[L] \in A
  BY <1>1, <1>8
<1>10. HandedOn(ins, known) = CASE ins.op = "copy" -> known[ins.src[1]]
                                [] ins.op = "phi" -> merged[L]
                                [] OTHER -> None
  BY DEF HandedOn, merged
<1>11. HandedOn(ins, known) \in A
  <2> HIDE DEF ins, L
  <2>1. ins.op = "copy" => known[ins.src[1]] \in A
    BY <1>1
  <2> QED
    BY <1>9, <1>10, <2>1
<1> QED
  BY <1>11

-----------------------------------------------------------------------------
(* A round keeps to the locals. *)
LEMMA RoundType ==
  ASSUME prog \in Programs, NEW known \in [1 .. NumRegs -> LocalSet \cup {None}]
  PROVE  Round(known) \in [1 .. NumRegs -> LocalSet \cup {None}]
<1> DEFINE Defining(r) == {at \in Places : Source(at[1])[at[2]].dst = r}
           Definition(r) == CHOOSE at \in Defining(r) : TRUE
           Found(r) == IF r \in LocalSet THEN r
                       ELSE IF Defining(r) = {} THEN None
                       ELSE HandedOn(Source(Definition(r)[1])[Definition(r)[2]], known)
<1>1. \A at \in Places : at[1] \in Blocks /\ at[2] \in DOMAIN Source(at[1])
  BY ReachableFacts DEF Places
<1>2. ASSUME NEW r \in 1 .. NumRegs PROVE Found(r) \in LocalSet \cup {None}
  <2>1. CASE Defining(r) # {} /\ r \notin LocalSet
    <3> DEFINE at == Definition(r)
    <3>1. at \in Places
      BY <2>1
    <3>2. at[1] \in Blocks /\ at[2] \in DOMAIN Source(at[1])
      <4> HIDE DEF at
      <4> QED
        BY <1>1, <3>1
    <3>3. HandedOn(Source(at[1])[at[2]], known) \in LocalSet \cup {None}
      <4> HIDE DEF at
      <4> QED
        BY <3>2, HandedOnType
    <3> QED
      BY <2>1, <3>3
  <2> HIDE DEF Definition
  <2>2. CASE Defining(r) = {} \/ r \in LocalSet
    BY <2>2
  <2> QED
    BY <2>1, <2>2
<1>3. Round(known) = [r \in 1 .. NumRegs |-> Found(r)]
  BY DEF Round
<1> HIDE DEF Found
<1> QED
  BY <1>2, <1>3

(* A register holds the address of a local, or none is known. *)
LEMMA PointsToType ==
  ASSUME prog \in Programs
  PROVE  PointsTo \in [1 .. NumRegs -> LocalSet \cup {None}]
<1> DEFINE L == NumRegs
           A == [1 .. NumRegs -> LocalSet \cup {None}]
           first == [r \in 1 .. NumRegs |-> IF r \in LocalSet THEN r ELSE None]
           One(k, known) == Round(known)
           G == [p \in (1 .. L) \X A |-> One(p[1], p[2])]
           target[k \in 0 .. L] ==
             IF k = 0 THEN [r \in 1 .. NumRegs |-> IF r \in LocalSet THEN r ELSE None]
             ELSE Round(target[k - 1])
<1>1. L \in Nat
  BY BoundsAssumption
<1>2. G \in [(1 .. L) \X A -> A] /\ first \in A
  <2>1. ASSUME NEW k \in 1 .. L, NEW known \in A PROVE One(k, known) \in A
    BY RoundType
  <2>2. G \in [(1 .. L) \X A -> A]
    <3> HIDE DEF A, L, One
    <3> QED
      BY <2>1
  <2> QED
    BY <2>2
<1>3. PICK f : Follows(f, A, first, G, L)
  <2> HIDE DEF G, L, A
  <2> QED
    BY <1>1, <1>2, Recursion
<1>4. f \in [0 .. L -> A] /\ f[0] = first /\ \A k \in 1 .. L : f[k] = One(k, f[k - 1])
  <2>1. f \in [0 .. L -> A] /\ f[0] = first /\ \A k \in 1 .. L : f[k] = G[<<k, f[k - 1]>>]
    BY <1>3 DEF Follows
  <2>2. \A k \in 1 .. L : f[k - 1] \in A
    <3> HIDE DEF L, A
    <3> QED
      BY <1>1, <2>1
  <2>3. \A k \in 1 .. L : G[<<k, f[k - 1]>>] = One(k, f[k - 1])
    <3> HIDE DEF One, L, A
    <3> QED
      BY <2>2
  <2> HIDE DEF One, G
  <2> QED
    BY <2>1, <2>3
<1>5. f = [k \in 0 .. L |-> IF k = 0 THEN first ELSE One(k, f[k - 1])]
  <2> HIDE DEF One
  <2>1. \A k \in 0 .. L : f[k] = IF k = 0 THEN first ELSE One(k, f[k - 1])
    <3> SUFFICES ASSUME NEW k \in 0 .. L PROVE f[k] = IF k = 0 THEN first ELSE One(k, f[k - 1])
      OBVIOUS
    <3>1. k # 0 => k \in 1 .. L
      OBVIOUS
    <3> QED
      BY <1>4, <3>1
  <2> QED
    BY <1>4, <2>1
<1>6. target = [k \in 0 .. L |-> IF k = 0 THEN first ELSE One(k, target[k - 1])]
  <2>1. f = [k \in 0 .. L |-> IF k = 0 THEN first ELSE
               Round(f[k - 1])]
    BY <1>5
  <2> QED
    BY <2>1
<1> HIDE DEF target
<1>7. target[0] = first /\ \A k \in 1 .. L : target[k] = One(k, target[k - 1])
  <2> HIDE DEF One
  <2>1. \A k \in 0 .. L : target[k] = IF k = 0 THEN first ELSE One(k, target[k - 1])
    BY <1>6
  <2>2. 0 \in 0 .. L /\ \A k \in 1 .. L : k \in 0 .. L /\ k # 0
    BY <1>1
  <2> QED
    BY <2>1, <2>2
<1>8. target \in [0 .. L -> A]
  <2>1. \A k \in 1 .. L : target[k - 1] \in A => target[k] = G[<<k, target[k - 1]>>]
    <3> HIDE DEF One, L, A
    <3> QED
      BY <1>7
  <2>2. target = [k \in 0 .. L |-> target[k]]
    <3> HIDE DEF One
    <3> QED
      BY <1>6
  <2>3. Follows(target, A, first, G, L)
    <3> HIDE DEF G, L, A, One
    <3> QED
      BY <1>1, <1>2, <1>7, <2>1, <2>2, RecursionType
  <2> QED
    BY <2>3 DEF Follows
<1>9. PointsTo = target[L]
  BY DEF PointsTo, target
<1> QED
  BY <1>1, <1>8, <1>9

(* What escapes is a local. *)
LEMMA EscapingType ==
  ASSUME prog \in Programs
  PROVE  Escaping \cup Parameters \subseteq LocalSet
<1> DEFINE leaks(ins) == IF ins.op \in {"ret", "call"} THEN Reads(ins)
                         ELSE IF ins.op = "store" /\ PointsTo[ins.src[2]] = None THEN {ins.src[1]}
                         ELSE {}
<1>1. ASSUME NEW at \in Places PROVE leaks(Source(at[1])[at[2]]) \subseteq 1 .. NumRegs
  <2>1. at[1] \in Blocks /\ at[2] \in DOMAIN Source(at[1])
    BY ReachableFacts DEF Places
  <2> DEFINE ins == Source(at[1])[at[2]]
  <2>2. Reads(ins) \subseteq 1 .. NumRegs /\ (ins.op = "store" => ins.src[1] \in 1 .. NumRegs)
    BY <2>1, SourceFacts
  <2> HIDE DEF ins
  <2>3. leaks(ins) \subseteq 1 .. NumRegs
    BY <2>2
  <2> QED
    BY <2>3 DEF ins
<1>2. Escaping = {PointsTo[r] : r \in UNION {leaks(Source(at[1])[at[2]]) : at \in Places}} \ {None}
  BY DEF Escaping
<1>3. Parameters \subseteq LocalSet
  BY DEF Parameters, LocalSet
<1> HIDE DEF leaks
<1> QED
  BY <1>1, <1>2, <1>3, PointsToType

-----------------------------------------------------------------------------
(* What can stand for registers of the function. *)
Standing == UNION {[D -> 1 .. n_regs] : D \in SUBSET (0 .. NumRegs)}

(* A phi has a source for each predecessor of its block. *)
IsPhi(phi) ==
  /\ phi = [block |-> phi.block, local |-> phi.local, dst |-> phi.dst, from |-> phi.from]
  /\ phi.block \in Blocks /\ phi.local \in LocalSet \ escapes
  /\ phi.from \in [Preds(phi.block) -> 0 .. n_regs]

(* The operands are registers, and a phi keeps its predecessors. *)
Operands ==
  \A b \in Blocks : \A i \in DOMAIN Source(b) :
    LET was == Source(b)[i]
        is == code[b][i]
    IN  /\ \A k \in DOMAIN is.src : is.src[k] \in 1 .. n_regs
        /\ \A k \in DOMAIN is.from : is.from[k][2] \in 1 .. n_regs
        /\ is.op = "phi" => DOMAIN is.from = DOMAIN was.from
                              /\ \A k \in DOMAIN is.from : is.from[k][1] = was.from[k][1]

Typed ==
  /\ phase \in {"escape", "order", "promote", "rename", "rewrite", "run"}
  /\ n_regs \in Nat /\ NumRegs <= n_regs
  /\ escapes \subseteq LocalSet /\ todo \in Seq(LocalSet)
  /\ phase \in {"rename", "rewrite"} => todo # <<>>
  /\ Operands /\ repl \in Standing
  /\ (phase = "escape" => phis = {}) /\ PhisFresh /\ \A phi \in phis : IsPhi(phi)
  /\ pc[1] \in Blocks /\ wrong \subseteq 0 .. n_regs /\ passed \subseteq LocalSet

-----------------------------------------------------------------------------
(* What an access of a local reads and defines. *)
LEMMA AccessFacts ==
  ASSUME CodeInv, Operands
  PROVE  \A x : \A b \in Blocks :
           /\ Loads(b, x) \subseteq DOMAIN Source(b) /\ Stores(b, x) \subseteq DOMAIN Source(b)
           /\ \A i \in Loads(b, x) : code[b][i].dst \in 0 .. NumRegs
           /\ \A i \in Stores(b, x) : code[b][i].src[1] \in 1 .. n_regs
<1> SUFFICES ASSUME NEW x, NEW b \in Blocks
             PROVE  /\ Loads(b, x) \subseteq DOMAIN Source(b) /\ Stores(b, x) \subseteq DOMAIN Source(b)
                    /\ \A i \in Loads(b, x) : code[b][i].dst \in 0 .. NumRegs
                    /\ \A i \in Stores(b, x) : code[b][i].src[1] \in 1 .. n_regs
  OBVIOUS
<1>1. prog \in Programs /\ DOMAIN code[b] = DOMAIN Source(b)
  BY DEF CodeInv, Shape
<1>2. Loads(b, x) \subseteq DOMAIN Source(b) /\ Stores(b, x) \subseteq DOMAIN Source(b)
  BY <1>1 DEF Loads, Stores
<1>3. ASSUME NEW i \in Loads(b, x) PROVE code[b][i].dst \in 0 .. NumRegs
  <2>1. code[b][i].op = "load" /\ i \in DOMAIN Source(b)
    BY <1>2 DEF Loads
  <2>2. code[b][i].dst = Source(b)[i].dst
    BY <2>1 DEF CodeInv, OnlyAccessesGo
  <2> QED
    BY <1>1, <2>1, <2>2, SourceFacts
<1>4. ASSUME NEW i \in Stores(b, x) PROVE code[b][i].src[1] \in 1 .. n_regs
  <2>1. code[b][i].op = "store" /\ i \in DOMAIN Source(b)
    BY <1>2 DEF Stores
  <2>2. Source(b)[i].op = "store" /\ DOMAIN code[b][i].src = DOMAIN Source(b)[i].src
    BY <2>1 DEF CodeInv, OnlyAccessesGo
  <2>3. Source(b)[i].src \in Seq(1 .. NumRegs) /\ Len(Source(b)[i].src) = 2
    BY <1>1, <2>1, <2>2, SourceFacts
  <2>4. 1 \in DOMAIN code[b][i].src
    BY <2>2, <2>3
  <2> QED
    BY <2>1, <2>4 DEF Operands
<1> QED
  BY <1>2, <1>3, <1>4

(* What stands for a register in the end is one. *)
LEMMA ResolveType ==
  ASSUME n_regs \in Nat, NEW with \in Standing, NEW r \in 1 .. n_regs
  PROVE  Resolve(with, r) \in 1 .. n_regs
<1> DEFINE L == n_regs
           A == 1 .. n_regs
           One(k, q) == IF q \in DOMAIN with THEN with[q] ELSE q
           G == [p \in (1 .. L) \X A |-> One(p[1], p[2])]
           through[k \in 0 .. L] ==
             IF k = 0 THEN r
             ELSE LET q == through[k - 1] IN IF q \in DOMAIN with THEN with[q] ELSE q
<1>1. L \in Nat
  OBVIOUS
<1>2. G \in [(1 .. L) \X A -> A] /\ r \in A
  <2>1. ASSUME NEW k \in 1 .. L, NEW q \in A PROVE One(k, q) \in A
    BY DEF Standing
  <2>2. G \in [(1 .. L) \X A -> A]
    <3> HIDE DEF A, L, One
    <3> QED
      BY <2>1
  <2> QED
    BY <2>2
<1>3. PICK f : Follows(f, A, r, G, L)
  <2> HIDE DEF G, L, A
  <2> QED
    BY <1>1, <1>2, Recursion
<1>4. f \in [0 .. L -> A] /\ f[0] = r /\ \A k \in 1 .. L : f[k] = One(k, f[k - 1])
  <2>1. f \in [0 .. L -> A] /\ f[0] = r /\ \A k \in 1 .. L : f[k] = G[<<k, f[k - 1]>>]
    BY <1>3 DEF Follows
  <2>2. \A k \in 1 .. L : f[k - 1] \in A
    <3> HIDE DEF L, A
    <3> QED
      BY <1>1, <2>1
  <2>3. \A k \in 1 .. L : G[<<k, f[k - 1]>>] = One(k, f[k - 1])
    <3> HIDE DEF One, L, A
    <3> QED
      BY <2>2
  <2> HIDE DEF One, G
  <2> QED
    BY <2>1, <2>3
<1>5. f = [k \in 0 .. L |-> IF k = 0 THEN r ELSE One(k, f[k - 1])]
  <2> HIDE DEF One
  <2>1. \A k \in 0 .. L : f[k] = IF k = 0 THEN r ELSE One(k, f[k - 1])
    <3> SUFFICES ASSUME NEW k \in 0 .. L PROVE f[k] = IF k = 0 THEN r ELSE One(k, f[k - 1])
      OBVIOUS
    <3>1. k # 0 => k \in 1 .. L
      OBVIOUS
    <3> QED
      BY <1>4, <3>1
  <2> QED
    BY <1>4, <2>1
<1>6. through = [k \in 0 .. L |-> IF k = 0 THEN r ELSE One(k, through[k - 1])]
  <2>1. f = [k \in 0 .. L |-> IF k = 0 THEN r ELSE
               LET q == f[k - 1] IN IF q \in DOMAIN with THEN with[q] ELSE q]
    BY <1>5
  <2> QED
    BY <2>1
<1> HIDE DEF through
<1>7. through[0] = r /\ \A k \in 1 .. L : through[k] = One(k, through[k - 1])
  <2> HIDE DEF One
  <2>1. \A k \in 0 .. L : through[k] = IF k = 0 THEN r ELSE One(k, through[k - 1])
    BY <1>6
  <2>2. 0 \in 0 .. L /\ \A k \in 1 .. L : k \in 0 .. L /\ k # 0
    BY <1>1
  <2> QED
    BY <2>1, <2>2
<1>8. through \in [0 .. L -> A]
  <2>1. \A k \in 1 .. L : through[k - 1] \in A => through[k] = G[<<k, through[k - 1]>>]
    <3> HIDE DEF One, L, A
    <3> QED
      BY <1>7
  <2>2. through = [k \in 0 .. L |-> through[k]]
    <3> HIDE DEF One
    <3> QED
      BY <1>6
  <2>3. Follows(through, A, r, G, L)
    <3> HIDE DEF G, L, A, One
    <3> QED
      BY <1>1, <1>2, <1>7, <2>1, <2>2, RecursionType
  <2> QED
    BY <2>3 DEF Follows
<1>9. Resolve(with, r) = through[L]
  BY DEF Resolve, through
<1> QED
  BY <1>1, <1>8, <1>9

(* One more register for which something stands. *)
LEMMA WithType ==
  ASSUME NEW with \in Standing, NEW r \in 0 .. NumRegs, NEW s \in 1 .. n_regs
  PROVE  With(with, r, s) \in Standing
<1>1. PICK D \in SUBSET (0 .. NumRegs) : with \in [D -> 1 .. n_regs]
  BY DEF Standing
<1> DEFINE E == D \cup {r}
<1>2. E \in SUBSET (0 .. NumRegs) /\ DOMAIN with = D
  BY <1>1
<1>3. With(with, r, s) \in [E -> 1 .. n_regs]
  BY <1>1, <1>2 DEF With
<1> QED
  BY <1>2, <1>3 DEF Standing

LEMMA PassedType ==
  ASSUME CodeInv, Operands, n_regs \in Nat, NEW i \in Nat, NEW w \in [value : 0 .. n_regs, repl : Standing]
  PROVE  Passed(i, w) \in [value : 0 .. n_regs, repl : Standing]
<1> USE DEF None
<1>1. 1 \in Blocks
  BY BlocksFacts DEF CodeInv, Shape
<1>2. CASE i \in Stores(1, Local)
  <2> DEFINE v == Resolve(w.repl, code[1][i].src[1])
  <2>1. v \in 1 .. n_regs
    BY <1>1, <1>2, AccessFacts, ResolveType
  <2>2. Passed(i, w) = [w EXCEPT !.value = v]
    BY <1>2 DEF Passed
  <2> HIDE DEF v
  <2> QED
    BY <2>1, <2>2
<1>3. CASE i \notin Stores(1, Local) /\ i \in Loads(1, Local) /\ w.value # None
  <2> DEFINE f == With(w.repl, code[1][i].dst, w.value)
  <2>1. f \in Standing
    BY <1>1, <1>3, AccessFacts, WithType
  <2>2. Passed(i, w) = [w EXCEPT !.repl = f]
    BY <1>3 DEF Passed
  <2> HIDE DEF f
  <2> QED
    BY <2>1, <2>2
<1>4. CASE i \notin Stores(1, Local) /\ ~(i \in Loads(1, Local) /\ w.value # None)
  BY <1>4 DEF Passed
<1> QED
  BY <1>2, <1>3, <1>4

(* What the walk through one block finds to stand for loads.               *)
LEMMA WalkType ==
  ASSUME CodeInv, Typed, Walk
  PROVE  repl' \in Standing
<1> DEFINE L == Len(code[1])
           A == [value : 0 .. n_regs, repl : Standing]
           start == [value |-> None, repl |-> repl]
           One(i, w) == Passed(i, w)
           G == [p \in (1 .. L) \X A |-> One(p[1], p[2])]
           walk[k \in 0 .. L] == IF k = 0 THEN [value |-> None, repl |-> repl] ELSE Passed(k, walk[k - 1])
<1>1. L \in Nat
  <2>1. DOMAIN code[1] = DOMAIN Source(1) /\ Source(1) \in Seq(Instructions)
    BY BlocksFacts DEF CodeInv, Shape
  <2> QED
    BY <2>1
<1>2. G \in [(1 .. L) \X A -> A] /\ start \in A
  <2>1. ASSUME NEW k \in 1 .. L, NEW w \in A PROVE One(k, w) \in A
    BY PassedType DEF Typed
  <2>2. G \in [(1 .. L) \X A -> A]
    <3> HIDE DEF A, L, One
    <3> QED
      BY <2>1
  <2> QED
    BY <2>2 DEF Typed, None
<1>3. PICK f : Follows(f, A, start, G, L)
  <2> HIDE DEF G, L, A
  <2> QED
    BY <1>1, <1>2, Recursion
<1>4. f \in [0 .. L -> A] /\ f[0] = start /\ \A k \in 1 .. L : f[k] = One(k, f[k - 1])
  <2>1. f \in [0 .. L -> A] /\ f[0] = start /\ \A k \in 1 .. L : f[k] = G[<<k, f[k - 1]>>]
    BY <1>3 DEF Follows
  <2>2. \A k \in 1 .. L : f[k - 1] \in A
    <3> HIDE DEF L, A
    <3> QED
      BY <1>1, <2>1
  <2>3. \A k \in 1 .. L : G[<<k, f[k - 1]>>] = One(k, f[k - 1])
    <3> HIDE DEF One, L, A
    <3> QED
      BY <2>2
  <2> HIDE DEF One, G
  <2> QED
    BY <2>1, <2>3
<1>5. f = [k \in 0 .. L |-> IF k = 0 THEN start ELSE One(k, f[k - 1])]
  <2> HIDE DEF One
  <2>1. \A k \in 0 .. L : f[k] = IF k = 0 THEN start ELSE One(k, f[k - 1])
    <3> SUFFICES ASSUME NEW k \in 0 .. L PROVE f[k] = IF k = 0 THEN start ELSE One(k, f[k - 1])
      OBVIOUS
    <3>1. k # 0 => k \in 1 .. L
      OBVIOUS
    <3> QED
      BY <1>4, <3>1
  <2> QED
    BY <1>4, <2>1
<1>6. walk = [k \in 0 .. L |-> IF k = 0 THEN start ELSE One(k, walk[k - 1])]
  <2>1. f = [k \in 0 .. L |-> IF k = 0 THEN start ELSE
               Passed(k, f[k - 1])]
    BY <1>5
  <2> QED
    BY <2>1
<1> HIDE DEF walk
<1>7. walk[0] = start /\ \A k \in 1 .. L : walk[k] = One(k, walk[k - 1])
  <2> HIDE DEF One
  <2>1. \A k \in 0 .. L : walk[k] = IF k = 0 THEN start ELSE One(k, walk[k - 1])
    BY <1>6
  <2>2. 0 \in 0 .. L /\ \A k \in 1 .. L : k \in 0 .. L /\ k # 0
    BY <1>1
  <2> QED
    BY <2>1, <2>2
<1>8. walk \in [0 .. L -> A]
  <2>1. \A k \in 1 .. L : walk[k - 1] \in A => walk[k] = G[<<k, walk[k - 1]>>]
    <3> HIDE DEF One, L, A
    <3> QED
      BY <1>7
  <2>2. walk = [k \in 0 .. L |-> walk[k]]
    <3> HIDE DEF One
    <3> QED
      BY <1>6
  <2>3. Follows(walk, A, start, G, L)
    <3> HIDE DEF G, L, A, One
    <3> QED
      BY <1>1, <1>2, <1>7, <2>1, <2>2, RecursionType
  <2> QED
    BY <2>3 DEF Follows
<1>9. repl' = walk[L].repl
  BY DEF Walk, walk
<1>10. walk[L] \in A
  BY <1>1, <1>8
<1> QED
  BY <1>9, <1>10

-----------------------------------------------------------------------------
(* How many of a set of numbers are not above one of them. *)
LEMMA CountFacts ==
  ASSUME NEW P \in SUBSET Nat, IsFiniteSet(P)
  PROVE  /\ \A b \in P : Cardinality({c \in P : c <= b}) \in 1 .. Cardinality(P)
         /\ \A b, d \in P : Cardinality({c \in P : c <= b}) = Cardinality({c \in P : c <= d}) => b = d
<1> DEFINE Low(b) == {c \in P : c <= b}
<1>1. ASSUME NEW b \in P
      PROVE  /\ IsFiniteSet(Low(b)) /\ Cardinality(Low(b)) \in Nat
             /\ Cardinality(Low(b)) <= Cardinality(P) /\ Cardinality(Low(b)) # 0
  <2>1. Low(b) \subseteq P /\ b \in Low(b)
    OBVIOUS
  <2> HIDE DEF Low
  <2> QED
    BY <2>1, FS_Subset, FS_CardinalityType, FS_EmptySet
<1>2. ASSUME NEW b \in P, NEW d \in P, b < d PROVE Cardinality(Low(b)) # Cardinality(Low(d))
  <2>1. Low(b) \subseteq Low(d) /\ Low(b) # Low(d)
    <3>1. Low(b) \subseteq Low(d)
      <4>1. ASSUME NEW c \in P, c <= b PROVE c <= d
        <5>1. c \in Nat /\ b \in Nat /\ d \in Nat
          OBVIOUS
        <5> QED
          BY <1>2, <4>1, <5>1
      <4> QED
        BY <4>1
    <3>2. d \in Low(d) /\ d \notin Low(b)
      BY <1>2
    <3> QED
      BY <3>1, <3>2
  <2>2. IsFiniteSet(Low(d))
    BY <1>1
  <2> HIDE DEF Low
  <2> QED
    BY <2>1, <2>2, FS_Subset
<1>3. Cardinality(P) \in Nat
  BY FS_CardinalityType
<1>4. ASSUME NEW b \in P PROVE Cardinality(Low(b)) \in 1 .. Cardinality(P)
  <2> HIDE DEF Low
  <2> QED
    BY <1>1, <1>3
<1>5. ASSUME NEW b \in P, NEW d \in P, Cardinality(Low(b)) = Cardinality(Low(d)) PROVE b = d
  <2>1. ~(b < d) /\ ~(d < b)
    <3> HIDE DEF Low
    <3> QED
      BY <1>2, <1>5
  <2> QED
    BY <2>1
<1> QED
  BY <1>4, <1>5

(* New phis: each gets a register of its own that was not in use. *)
LEMMA PlacePhisTyped ==
  ASSUME CodeInv, Typed, PlacePhis
  PROVE  PhisFresh' /\ (\A phi \in phis' : IsPhi(phi)') /\ n_regs' \in Nat /\ n_regs <= n_regs'
<1> DEFINE placed == {b \in NeedPhi(Local) : Cardinality(Preds(b)) <= MaxPhiSources}
           Phi(b) == [block |-> b, local |-> Local, dst |-> FreshReg(b, placed),
                      from |-> [p \in Preds(b) |-> None]]
           M == Cardinality(placed)
<1>1. /\ phis' = phis \cup {Phi(b) : b \in placed} /\ n_regs' = n_regs + M
      /\ todo # <<>> /\ Promotable(Local) /\ prog' = prog /\ escapes' = escapes
  BY DEF PlacePhis
<1>2. /\ prog \in Programs /\ n_regs \in Nat /\ NumRegs \in Nat /\ NumRegs <= n_regs
      /\ PhisFresh /\ \A phi \in phis : IsPhi(phi)
  BY BoundsAssumption DEF CodeInv, Shape, Typed
<1>3. Local \in LocalSet \ escapes
  BY <1>1 DEF Typed, Promotable, Local
<1>4. placed \subseteq Blocks
  <2> DEFINE from == {1} \cup {b \in Reachable : Stores(b, Local) # {}}
             step == [b \in Blocks |-> Frontier(b)]
  <2>1. from \in SUBSET Blocks /\ step \in [Blocks -> SUBSET Blocks]
    BY <1>2, ReachableFacts, BlocksFacts DEF Frontier, AllFrontier
  <2>2. NeedPhi(Local) = Closure(from, step)
    BY DEF NeedPhi
  <2> HIDE DEF from, step
  <2> QED
    BY <1>2, <2>1, <2>2, ClosureFacts
<1>5. /\ placed \subseteq Nat /\ IsFiniteSet(placed) /\ M \in Nat
  <2> HIDE DEF placed
  <2> QED
    BY <1>2, <1>4, BlocksFacts, FS_Subset, FS_CardinalityType
<1>6. /\ \A b \in placed : FreshReg(b, placed) \in n_regs + 1 .. n_regs + M
      /\ \A b, d \in placed : FreshReg(b, placed) = FreshReg(d, placed) => b = d
  <2> HIDE DEF placed
  <2>1. /\ \A b \in placed : Cardinality({c \in placed : c <= b}) \in 1 .. M
        /\ \A b, d \in placed : Cardinality({c \in placed : c <= b}) = Cardinality({c \in placed : c <= d}) => b = d
    BY <1>5, CountFacts
  <2> HIDE DEF M
  <2>2. \A b \in placed : FreshReg(b, placed) \in n_regs + 1 .. n_regs + M
    BY <1>2, <1>5, <2>1 DEF FreshReg
  <2>3. ASSUME NEW b \in placed, NEW d \in placed, FreshReg(b, placed) = FreshReg(d, placed) PROVE b = d
    <3>1. Cardinality({c \in placed : c <= b}) \in 1 .. M /\ Cardinality({c \in placed : c <= d}) \in 1 .. M
      BY <2>1
    <3>2. Cardinality({c \in placed : c <= b}) = Cardinality({c \in placed : c <= d})
      BY <1>2, <1>5, <2>3, <3>1 DEF FreshReg
    <3> QED
      BY <2>1, <3>2
  <2> QED
    BY <2>2, <2>3
<1>7. \A b \in placed : /\ Phi(b).block = b /\ Phi(b).local = Local /\ Phi(b).dst = FreshReg(b, placed)
                        /\ Phi(b).from = [p \in Preds(b) |-> None]
                        /\ Phi(b) = [block |-> Phi(b).block, local |-> Phi(b).local, dst |-> Phi(b).dst, from |-> Phi(b).from]
  <2> HIDE DEF placed
  <2> QED
    OBVIOUS
<1> HIDE DEF placed, Phi, M
<1>8. PhisFresh'
  <2>1. ASSUME NEW phi \in phis' PROVE phi.dst \in NumRegs + 1 .. n_regs'
    <3>1. CASE phi \in phis
      BY <1>1, <1>2, <1>5, <3>1 DEF PhisFresh
    <3>2. CASE \E b \in placed : phi = Phi(b)
      <4>1. PICK b \in placed : phi = Phi(b)
        BY <3>2
      <4>2. phi.dst \in n_regs + 1 .. n_regs + M
        BY <1>6, <1>7, <4>1
      <4> QED
        BY <1>1, <1>2, <1>5, <4>2
    <3> QED
      BY <1>1, <3>1, <3>2
  <2>2. ASSUME NEW phi \in phis', NEW other \in phis', other.dst = phi.dst
        PROVE  other.block = phi.block /\ other.local = phi.local
    <3>1. \A p \in phis' : p \in phis \/ \E b \in placed : p = Phi(b)
      BY <1>1
    <3>2. CASE phi \in phis /\ other \in phis
      BY <1>2, <2>2, <3>2 DEF PhisFresh
    <3>3. \A p \in phis : p.dst \in NumRegs + 1 .. n_regs
      BY <1>2 DEF PhisFresh
    <3>4. \A b \in placed : Phi(b).dst \in n_regs + 1 .. n_regs + M
      BY <1>6, <1>7
    <3>5. \A p \in phis : \A b \in placed : p.dst # Phi(b).dst
      <4> SUFFICES ASSUME NEW p \in phis, NEW b \in placed PROVE p.dst # Phi(b).dst
        OBVIOUS
      <4>1. p.dst \in NumRegs + 1 .. n_regs /\ Phi(b).dst \in n_regs + 1 .. n_regs + M
        BY <3>3, <3>4
      <4> QED
        BY <1>2, <1>5, <4>1
    <3>6. CASE \E b, d \in placed : phi = Phi(b) /\ other = Phi(d)
      <4>1. PICK b \in placed, d \in placed : phi = Phi(b) /\ other = Phi(d)
        BY <3>6
      <4>2. /\ phi.dst = FreshReg(b, placed) /\ phi.block = b /\ phi.local = Local
            /\ other.dst = FreshReg(d, placed) /\ other.block = d /\ other.local = Local
        BY <1>7, <4>1
      <4>3. b = d
        BY <1>6, <2>2, <4>2
      <4> QED
        BY <4>2, <4>3
    <3> QED
      BY <2>2, <3>1, <3>2, <3>5, <3>6
  <2> QED
    BY <2>1, <2>2 DEF PhisFresh
<1>9. ASSUME NEW phi \in phis' PROVE IsPhi(phi)'
  <2>1. Blocks' = Blocks /\ LocalSet' = LocalSet /\ \A b : Preds(b)' = Preds(b)
    BY <1>1 DEF Blocks, LocalSet, Locals, AllLocals, Preds, Succs
  <2>2. n_regs' \in Nat /\ n_regs <= n_regs' /\ escapes' = escapes
    BY <1>1, <1>2, <1>5
  <2>3. CASE phi \in phis
    <3>1. /\ phi = [block |-> phi.block, local |-> phi.local, dst |-> phi.dst, from |-> phi.from]
          /\ phi.block \in Blocks /\ phi.local \in LocalSet \ escapes
          /\ phi.from \in [Preds(phi.block) -> 0 .. n_regs]
      BY <1>2, <2>3 DEF IsPhi
    <3>2. phi.from \in [Preds(phi.block) -> 0 .. n_regs']
      BY <1>2, <2>2, <3>1
    <3> QED
      BY <2>1, <2>2, <3>1, <3>2 DEF IsPhi
  <2>4. CASE \E b \in placed : phi = Phi(b)
    <3>1. PICK b \in placed : phi = Phi(b)
      BY <2>4
    <3>2. phi.from = [p \in Preds(phi.block) |-> None]
      BY <1>7, <3>1
    <3>3. phi.from \in [Preds(phi.block) -> 0 .. n_regs']
      BY <2>2, <3>2 DEF None
    <3> QED
      BY <1>3, <1>4, <1>7, <2>1, <2>2, <3>1, <3>3 DEF IsPhi
  <2> QED
    BY <1>1, <2>3, <2>4
<1> QED
  BY <1>1, <1>2, <1>5, <1>8, <1>9

-----------------------------------------------------------------------------
(* Each of S is in K, where own says what it has, or hangs on another one, *)
(* which has a lower rank.                                                 *)
Hangs(S, A, K, own, up, rank, N) ==
  /\ K \in SUBSET S /\ own \in [S -> A] /\ up \in [S -> S]
  /\ N \in Nat /\ rank \in [S -> 0 .. N] /\ \A b \in S \ K : rank[up[b]] < rank[b]

(* What is handed down in this way exists, and ...                         *)
LEMMA TreeRecursion ==
  ASSUME NEW S, NEW A, NEW K, NEW own, NEW up, NEW rank, NEW N, Hangs(S, A, K, own, up, rank, N)
  PROVE  \E f \in [S -> A] : \A b \in S : f[b] = IF b \in K THEN own[b] ELSE f[up[b]]
<1> USE DEF Hangs
<1> DEFINE Upto(f, n) == \A b \in S : rank[b] < n => f[b] = IF b \in K THEN own[b] ELSE f[up[b]]
           H == {n \in 0 .. N + 1 : \E f \in [S -> A] : Upto(f, n)}
<1>1. 0 \in H
  <2>1. Upto(own, 0)
    OBVIOUS
  <2> QED
    BY <2>1
<1>2. ASSUME NEW n \in 0 .. N + 1, n \in H, n < N + 1 PROVE n + 1 \in H
  <2>1. PICK f \in [S -> A] : Upto(f, n)
    BY <1>2
  <2> DEFINE g == [b \in S |-> IF b \in K THEN own[b] ELSE f[up[b]]]
  <2>2. g \in [S -> A]
    OBVIOUS
  <2>3. ASSUME NEW b \in S, rank[b] < n + 1 PROVE g[b] = IF b \in K THEN own[b] ELSE g[up[b]]
    <3>1. CASE b \notin K
      <4>1. up[b] \in S /\ rank[up[b]] < n
        <5>1. rank[up[b]] < rank[b] /\ rank[b] \in Nat /\ rank[up[b]] \in Nat /\ up[b] \in S
          BY <3>1
        <5> QED
          BY <2>3, <5>1
      <4>2. f[up[b]] = g[up[b]]
        BY <2>1, <4>1
      <4> QED
        BY <3>1, <4>2
    <3> QED
      BY <3>1
  <2>4. Upto(g, n + 1)
    BY <2>3
  <2> HIDE DEF g, Upto
  <2> QED
    BY <1>2, <2>2, <2>4
<1>3. N + 1 \in H
  <2>1. H \in SUBSET (0 .. N + 1) /\ N + 1 \in Nat
    OBVIOUS
  <2> DEFINE L == N + 1
  <2>2. \A n \in 0 .. L : n \in H /\ n < L => n + 1 \in H
    BY <1>2
  <2> HIDE DEF H, L
  <2>3. H = 0 .. L
    BY <1>1, <2>1, <2>2, StepByStep DEF L
  <2> QED
    BY <2>1, <2>3 DEF L
<1>4. PICK f \in [S -> A] : Upto(f, N + 1)
  BY <1>3
<1>5. \A b \in S : f[b] = IF b \in K THEN own[b] ELSE f[up[b]]
  BY <1>4
<1> QED
  BY <1>5

(* ... has the type of what it comes from.                                 *)
LEMMA TreeRecursionType ==
  ASSUME NEW S, NEW A, NEW K, NEW own, NEW up, NEW rank, NEW N, Hangs(S, A, K, own, up, rank, N),
         NEW f, \A b \in S : f[b] = IF b \in K THEN own[b] ELSE f[up[b]]
  PROVE  \A b \in S : f[b] \in A
<1> USE DEF Hangs
<1> DEFINE H == {n \in 0 .. N : \A b \in S : rank[b] <= n => f[b] \in A}
<1>1. 0 \in H
  <2>1. ASSUME NEW b \in S, rank[b] <= 0 PROVE f[b] \in A
    <3>1. b \in K
      <4>1. up[b] \in S /\ rank[up[b]] \in 0 .. N /\ rank[b] \in 0 .. N
        OBVIOUS
      <4> QED
        BY <2>1, <4>1
    <3> QED
      BY <3>1
  <2> QED
    BY <2>1
<1>2. ASSUME NEW n \in 0 .. N, n \in H, n < N PROVE n + 1 \in H
  <2>1. ASSUME NEW b \in S, rank[b] <= n + 1 PROVE f[b] \in A
    <3>1. CASE b \notin K
      <4>1. up[b] \in S /\ rank[up[b]] \in 0 .. N /\ rank[b] \in 0 .. N /\ rank[up[b]] < rank[b]
        BY <3>1
      <4>2. rank[up[b]] <= n
        BY <2>1, <4>1
      <4>3. f[up[b]] \in A
        BY <1>2, <4>1, <4>2
      <4> QED
        BY <3>1, <4>3
    <3> QED
      BY <3>1
  <2> QED
    BY <1>2, <2>1
<1>3. N \in H
  <2>1. H \in SUBSET (0 .. N)
    OBVIOUS
  <2> HIDE DEF H
  <2> QED
    BY <1>1, <1>2, <2>1, StepByStep
<1> QED
  BY <1>3

-----------------------------------------------------------------------------
(* What the top of the stack of renaming is at place i of a block where    *)
(* the block itself says so.                                               *)
Settled(b, i, x) ==
  \/ {j \in Stores(b, x) : j < i} # {} \/ {phi \in phis : phi.block = b /\ phi.local = x} # {}
  \/ b = 1 \/ idom[b] = None

OwnTop(b, i, x) ==
  LET stores == {j \in Stores(b, x) : j < i}
      own == {phi \in phis : phi.block = b /\ phi.local = x}
      last == CHOOSE j \in stores : \A k \in stores : k <= j
  IN  IF stores # {} THEN code[b][last].src[1]
      ELSE IF own # {} THEN (CHOOSE phi \in own : TRUE).dst ELSE None

(* Elsewhere it is what it is at the end of the block above.               *)
LEMMA AtPlaceFacts ==
  ASSUME CodeInv, Typed, NEW b \in Blocks, NEW i, NEW x
  PROVE  /\ OwnTop(b, i, x) \in 0 .. n_regs
         /\ \A end : AtPlace(b, i, x, end) = IF Settled(b, i, x) THEN OwnTop(b, i, x) ELSE end[idom[b]]
<1> DEFINE stores == {j \in Stores(b, x) : j < i}
           own == {phi \in phis : phi.block = b /\ phi.local = x}
           last == CHOOSE j \in stores : \A k \in stores : k <= j
<1>1. ASSUME stores # {} PROVE last \in stores
  <2>1. stores \subseteq DOMAIN Source(b) /\ Source(b) \in Seq(Instructions)
    BY AccessFacts, BlocksFacts DEF CodeInv, Shape, Typed
  <2>2. Len(Source(b)) \in Nat /\ DOMAIN Source(b) = 1 .. Len(Source(b))
    BY <2>1
  <2> DEFINE L == Len(Source(b))
             M == {L - j : j \in stores}
  <2> HIDE DEF stores
  <2>3. stores \subseteq 1 .. L /\ L \in Nat
    BY <2>1, <2>2
  <2> HIDE DEF L
  <2>4. M \in SUBSET Nat /\ M # {}
    <3>1. \A j \in 1 .. L : L - j \in Nat
      BY <2>3
    <3>2. \A j \in stores : L - j \in Nat
      BY <2>3, <3>1
    <3> QED
      BY <1>1, <3>2
  <2>5. PICK m \in M : \A k \in M : m <= k
    <3> HIDE DEF M
    <3> QED
      BY <2>4, Least
  <2>6. PICK j \in stores : m = L - j
    BY <2>5
  <2>7. \A k \in stores : k <= j
    <3> SUFFICES ASSUME NEW k \in stores PROVE k <= j
      OBVIOUS
    <3>1. L - j <= L - k
      BY <2>5, <2>6
    <3> QED
      BY <2>3, <3>1
  <2> QED
    BY <2>6, <2>7
<1>2. OwnTop(b, i, x) \in 0 .. n_regs
  <2>1. CASE stores # {}
    <3>1. last \in Stores(b, x)
      BY <1>1, <2>1
    <3>2. code[b][last].src[1] \in 1 .. n_regs
      <4> HIDE DEF last
      <4> QED
        BY <3>1, AccessFacts DEF Typed
    <3>3. OwnTop(b, i, x) = code[b][last].src[1]
      BY <2>1 DEF OwnTop
    <3> QED
      BY <3>2, <3>3 DEF Typed
  <2>2. CASE stores = {} /\ own # {}
    <3> DEFINE phi == CHOOSE phi \in own : TRUE
    <3>1. phi \in phis
      BY <2>2
    <3>2. OwnTop(b, i, x) = phi.dst
      BY <2>2 DEF OwnTop
    <3> HIDE DEF phi
    <3> QED
      BY <3>1, <3>2, BoundsAssumption DEF Typed, PhisFresh
  <2>3. CASE stores = {} /\ own = {}
    <3>1. OwnTop(b, i, x) = None
      BY <2>3 DEF OwnTop
    <3> QED
      BY <3>1 DEF None, Typed
  <2> QED
    BY <2>1, <2>2, <2>3
<1>3. ASSUME NEW end
      PROVE  AtPlace(b, i, x, end) = IF Settled(b, i, x) THEN OwnTop(b, i, x) ELSE end[idom[b]]
  <2>1. CASE stores # {}
    BY <2>1 DEF AtPlace, Settled, OwnTop
  <2>2. CASE stores = {}
    <3>1. AtPlace(b, i, x, end) = AtStart(b, x, end)
      BY <2>2 DEF AtPlace
    <3> QED
      BY <2>2, <3>1 DEF AtStart, Settled, OwnTop
  <2> QED
    BY <2>1, <2>2
<1> QED
  BY <1>2, <1>3

-----------------------------------------------------------------------------
(* The tops of the stack at the ends of the blocks: each is what the block *)
(* itself says, or what the block above it says.                           *)
LEMMA AtEndFacts ==
  ASSUME CodeInv, OrderInv, Typed, stack = <<>>, NEW x
  PROVE  /\ AtEnd(x) \in [Blocks -> 0 .. n_regs]
         /\ \A b \in Blocks : AtEnd(x)[b] = AtPlace(b, Len(code[b]) + 1, x, AtEnd(x))
<1> DEFINE A == 0 .. n_regs
           K == {b \in Blocks : Settled(b, Len(code[b]) + 1, x)}
           own == [b \in Blocks |-> OwnTop(b, Len(code[b]) + 1, x)]
           up == [b \in Blocks |-> IF idom[b] = None THEN b ELSE idom[b]]
           rank == [b \in Blocks |-> IF b \in Reachable THEN Position(b) ELSE 0]
           N == Len(rpo)
           end[b \in Blocks] == AtPlace(b, Len(code[b]) + 1, x, end)
<1>1. prog \in Programs /\ stack = <<>> /\ SearchInv /\ TreeInv(idom) /\ n_regs \in Nat
  BY DEF CodeInv, Shape, OrderInv, Typed
<1>2. K \in SUBSET Blocks /\ own \in [Blocks -> A]
  <2>1. \A b \in Blocks : OwnTop(b, Len(code[b]) + 1, x) \in A
    BY AtPlaceFacts
  <2> HIDE DEF A
  <2> QED
    BY <2>1
<1>3. up \in [Blocks -> Blocks] /\ N \in Nat /\ rank \in [Blocks -> 0 .. N]
  <2>1. up \in [Blocks -> Blocks]
    BY <1>1 DEF TreeInv
  <2>2. N \in Nat /\ \A b \in Reachable : Position(b) \in 1 .. N
    BY <1>1, PositionFacts
  <2>3. \A b \in Blocks : (IF b \in Reachable THEN Position(b) ELSE 0) \in 0 .. N
    <3> HIDE DEF N
    <3> QED
      BY <2>2
  <2> HIDE DEF N
  <2> QED
    BY <2>1, <2>2, <2>3
<1>4. \A b \in Blocks \ K : rank[up[b]] < rank[b]
  <2> SUFFICES ASSUME NEW b \in Blocks \ K PROVE rank[up[b]] < rank[b]
    OBVIOUS
  <2>1. b # 1 /\ idom[b] # None
    BY DEF Settled
  <2>2. b \in OnTree(idom) \ {1} /\ idom[b] \in Reachable /\ idom[b] \in Blocks /\ b \in Reachable
    BY <1>1, <2>1, ReachableFacts DEF TreeInv, OnTree
  <2>3. Position(idom[b]) < Position(b)
    BY <1>1, <2>2 DEF TreeInv
  <2> QED
    BY <2>1, <2>2, <2>3
<1>5. ASSUME NEW f
      PROVE  \A b \in Blocks : AtPlace(b, Len(code[b]) + 1, x, f) =
                                 IF b \in K THEN own[b] ELSE f[idom[b]]
  BY AtPlaceFacts
<1>6. \A b \in Blocks \ K : up[b] = idom[b]
  BY DEF Settled
<1>7. Hangs(Blocks, A, K, own, up, rank, N)
  <2> HIDE DEF A, K, own, up, rank, N
  <2> QED
    BY <1>2, <1>3, <1>4 DEF Hangs
<1>8. PICK f \in [Blocks -> A] : \A b \in Blocks : f[b] = IF b \in K THEN own[b] ELSE f[up[b]]
  <2> HIDE DEF A, K, own, up, rank, N
  <2> QED
    BY <1>7, TreeRecursion
<1>9. f = [b \in Blocks |-> AtPlace(b, Len(code[b]) + 1, x, f)]
  <2> HIDE DEF A, K, own, up
  <2>1. \A b \in Blocks : AtPlace(b, Len(code[b]) + 1, x, f) = IF b \in K THEN own[b] ELSE f[up[b]]
    BY <1>5, <1>6
  <2>2. \A b \in Blocks : f[b] = IF b \in K THEN own[b] ELSE f[up[b]]
    BY <1>8
  <2> QED
    BY <1>8, <2>1, <2>2
<1>10. end = [b \in Blocks |-> AtPlace(b, Len(code[b]) + 1, x, end)]
  BY <1>9
<1> HIDE DEF end
<1>11. end \in [Blocks -> A]
  <2> HIDE DEF A, K, own, up, rank, N
  <2>1. \A b \in Blocks : end[b] = AtPlace(b, Len(code[b]) + 1, x, end)
    BY <1>10
  <2>2. \A b \in Blocks : end[b] = IF b \in K THEN own[b] ELSE end[up[b]]
    BY <1>5, <1>6, <2>1
  <2>3. \A b \in Blocks : end[b] \in A
    BY <1>7, <2>2, TreeRecursionType
  <2> QED
    BY <1>10, <2>3
<1>12. AtEnd(x) = end
  BY DEF AtEnd, end
<1>13. \A b \in Blocks : end[b] = AtPlace(b, Len(code[b]) + 1, x, end)
  BY <1>10
<1> QED
  BY <1>11, <1>12, <1>13

-----------------------------------------------------------------------------
(* Renaming finds a register, or none, for what comes from a predecessor,  *)
(* and a register for each load that it replaces.                          *)
LEMMA RenameTreeTyped ==
  ASSUME CodeInv, OrderInv, Typed, RenameTree
  PROVE  repl' \in Standing /\ PhisFresh' /\ \A phi \in phis' : IsPhi(phi)'
<1> DEFINE A == 0 .. n_regs
           end == AtEnd(Local)
           loads == UNION {{<<b, i>> : i \in Loads(b, Local)} : b \in Renamed}
           Value(at) == AtPlace(at[1], at[2], Local, end)
           valid == {at \in loads : Value(at) # None}
           targets == {code[at[1]][at[2]].dst : at \in valid}
<1>1. /\ prog \in Programs /\ phase = "rename" /\ stack = <<>> /\ SearchInv /\ TreeInv(idom)
      /\ prog' = prog /\ escapes' = escapes /\ n_regs' = n_regs /\ code' = code
      /\ n_regs \in Nat
  BY DEF CodeInv, Shape, OrderInv, Typed, RenameTree
<1>11. end \in [Blocks -> A]
  BY <1>1, AtEndFacts
<1> HIDE DEF end
<1>12. \A b \in Blocks : Len(code[b]) \in Nat /\ DOMAIN code[b] = DOMAIN Source(b)
  <2>1. \A b \in Blocks : DOMAIN code[b] = DOMAIN Source(b) /\ Source(b) \in Seq(Instructions)
    BY <1>1, BlocksFacts DEF CodeInv, Shape
  <2> QED
    BY <2>1
<1>13. Renamed \subseteq Blocks
  <2> DEFINE step == [b \in Blocks |-> Children(b)]
  <2>1. {1} \in SUBSET Blocks /\ step \in [Blocks -> SUBSET Blocks]
    BY <1>1, BlocksFacts DEF Children, AllChildren
  <2>2. Renamed = Closure({1}, step)
    BY DEF Renamed
  <2> HIDE DEF step
  <2> QED
    BY <1>1, <2>1, <2>2, ClosureFacts
<1>14. ASSUME NEW at \in loads
       PROVE  Value(at) \in A /\ code[at[1]][at[2]].dst \in 0 .. NumRegs
  <2>1. PICK b \in Renamed : \E j \in Loads(b, Local) : at = <<b, j>>
    OBVIOUS
  <2>5. PICK i \in Loads(b, Local) : at = <<b, i>>
    BY <2>1
  <2>2. b \in Blocks /\ at[1] = b /\ at[2] = i
    BY <1>13, <2>1, <2>5
  <2>3. code[b][i].dst \in 0 .. NumRegs
    BY <2>1, <2>2, AccessFacts DEF Typed
  <2>4. AtPlace(b, i, Local, end) \in A
    <3>1. OwnTop(b, i, Local) \in A
      BY <2>2, AtPlaceFacts
    <3>2. AtPlace(b, i, Local, end) = IF Settled(b, i, Local) THEN OwnTop(b, i, Local) ELSE end[idom[b]]
      BY <2>2, AtPlaceFacts
    <3>3. ~Settled(b, i, Local) => idom[b] \in Blocks
      BY <1>1, <2>2 DEF Settled, TreeInv
    <3> HIDE DEF A
    <3> QED
      BY <1>11, <3>1, <3>2, <3>3
  <2> QED
    BY <2>2, <2>3, <2>4
<1>15. /\ phis' = {IF phi.local = Local
                   THEN [phi EXCEPT !.from = [p \in DOMAIN phi.from |-> IF p \in Renamed THEN end[p] ELSE None]]
                   ELSE phi : phi \in phis}
       /\ repl' = [r \in DOMAIN repl \cup targets |->
                     IF r \in targets
                     THEN Value(CHOOSE at \in valid : code[at[1]][at[2]].dst = r)
                     ELSE repl[r]]
  BY DEF RenameTree, end
<1>16. repl' \in Standing
  <2>1. PICK D \in SUBSET (0 .. NumRegs) : repl \in [D -> 1 .. n_regs]
    BY DEF Typed, Standing
  <2>2. targets \in SUBSET (0 .. NumRegs)
    <3> HIDE DEF loads, Value
    <3> QED
      BY <1>14
  <2>3. ASSUME NEW r \in targets
        PROVE  Value(CHOOSE at \in valid : code[at[1]][at[2]].dst = r) \in 1 .. n_regs
    <3> DEFINE c == CHOOSE at \in valid : code[at[1]][at[2]].dst = r
    <3> HIDE DEF loads, Value
    <3>1. \E at \in valid : code[at[1]][at[2]].dst = r
      BY <2>3
    <3>2. c \in valid
      <4> HIDE DEF valid
      <4> QED
        BY <3>1
    <3>3. c \in loads /\ Value(c) # None
      BY <3>2
    <3> HIDE DEF c
    <3>4. Value(c) \in 1 .. n_regs
      BY <1>14, <3>3 DEF None
    <3> QED
      BY <3>4 DEF c
  <2> DEFINE E == D \cup targets
             Best(r) == Value(CHOOSE at \in valid : code[at[1]][at[2]].dst = r)
  <2>4. \A r \in targets : Best(r) \in 1 .. n_regs
    BY <2>3
  <2>5. repl' = [r \in E |-> IF r \in targets THEN Best(r) ELSE repl[r]]
    <3>1. DOMAIN repl = D
      BY <2>1
    <3> HIDE DEF valid, targets, Value
    <3> QED
      BY <1>15, <3>1
  <2> HIDE DEF targets, Best
  <2>6. repl' \in [E -> 1 .. n_regs] /\ E \in SUBSET (0 .. NumRegs)
    BY <2>1, <2>2, <2>4, <2>5
  <2> HIDE DEF E
  <2> QED
    BY <2>6 DEF Standing
<1> DEFINE Filled(phi) ==
             IF phi.local = Local
             THEN [phi EXCEPT !.from = [p \in DOMAIN phi.from |-> IF p \in Renamed THEN end[p] ELSE None]]
             ELSE phi
<1>17. ASSUME NEW phi \in phis
       PROVE  /\ Filled(phi).block = phi.block /\ Filled(phi).local = phi.local /\ Filled(phi).dst = phi.dst
              /\ IsPhi(Filled(phi))
  <2>1. IsPhi(phi)
    BY DEF Typed
  <2> DEFINE from == [p \in DOMAIN phi.from |-> IF p \in Renamed THEN end[p] ELSE None]
  <2>2. from \in [Preds(phi.block) -> A]
    <3>1. None \in A
      BY <1>1 DEF None
    <3>2. DOMAIN phi.from = Preds(phi.block)
      BY <2>1 DEF IsPhi
    <3> HIDE DEF A
    <3> QED
      BY <1>11, <1>13, <3>1, <3>2
  <2>3. CASE phi.local = Local
    <3>1. Filled(phi) = [phi EXCEPT !.from = from]
      BY <2>3
    <3> HIDE DEF from, Filled
    <3>2. Filled(phi) = [block |-> phi.block, local |-> phi.local, dst |-> phi.dst, from |-> from]
      BY <2>1, <3>1 DEF IsPhi
    <3> QED
      BY <2>1, <2>2, <3>2 DEF IsPhi
  <2>4. CASE phi.local # Local
    BY <2>1, <2>4
  <2> QED
    BY <2>3, <2>4
<1>18. phis' = {Filled(phi) : phi \in phis}
  BY <1>15
<1> HIDE DEF Filled
<1>19. PhisFresh'
  BY <1>1, <1>17, <1>18 DEF PhisFresh, Typed
<1>20. ASSUME NEW phi \in phis' PROVE IsPhi(phi)'
  <2>1. IsPhi(phi)
    BY <1>17, <1>18
  <2>2. Blocks' = Blocks /\ LocalSet' = LocalSet /\ \A b : Preds(b)' = Preds(b)
    BY <1>1 DEF Blocks, LocalSet, Locals, AllLocals, Preds, Succs
  <2> QED
    BY <1>1, <2>1, <2>2 DEF IsPhi
<1> QED
  BY <1>16, <1>19, <1>20

-----------------------------------------------------------------------------
LEMMA SameFunction ==
  ASSUME prog' = prog
  PROVE  /\ Blocks' = Blocks /\ LocalSet' = LocalSet
         /\ \A b : Source(b)' = Source(b) /\ Preds(b)' = Preds(b)
BY DEF Blocks, Source, LocalSet, Locals, AllLocals, Preds, Succs

(* What stands for a register is one. *)
LEMMA ReplacedType ==
  ASSUME repl \in Standing
  PROVE  /\ \A r \in 1 .. n_regs : Replaced(r) \in 1 .. n_regs
         /\ \A r \in 0 .. n_regs : n_regs \in Nat => Replaced(r) \in 0 .. n_regs
<1>1. PICK D \in SUBSET (0 .. NumRegs) : repl \in [D -> 1 .. n_regs]
  BY DEF Standing
<1> QED
  BY <1>1 DEF Replaced

(* Rewriting leaves registers as operands. *)
LEMMA RewriteTyped ==
  ASSUME CodeInv, Typed, Rewrite
  PROVE  /\ Operands' /\ repl' \in Standing /\ todo' \in Seq(LocalSet)
         /\ PhisFresh' /\ \A phi \in phis' : IsPhi(phi)'
<1> DEFINE single == SingleBlock(Local)
           scope == IF single THEN {1} ELSE Reachable
           goes(ins) == IsAccess(IF single THEN ins ELSE Rewritten(ins), Local)
           loaded == {code[1][i].dst : i \in Loads(1, Local)}
           Source1(phi) == IF phi.block \in scope
                           THEN [phi EXCEPT !.from = [p \in DOMAIN phi.from |-> Replaced(phi.from[p])]]
                           ELSE phi
<1>1. /\ code' = [b \in Blocks |->
                    IF b \in scope
                    THEN [i \in DOMAIN code[b] |->
                            IF goes(code[b][i]) THEN Gone ELSE Rewritten(code[b][i])]
                    ELSE code[b]]
      /\ phis' = {Source1(phi) : phi \in phis}
      /\ repl' = IF single THEN [r \in DOMAIN repl \ loaded |-> repl[r]] ELSE repl
      /\ todo' = Tail(todo)
      /\ phase = "rewrite" /\ phase' = "promote"
      /\ prog' = prog /\ escapes' = escapes /\ n_regs' = n_regs
  BY Zenon DEF Rewrite
<1>2. /\ Blocks' = Blocks /\ LocalSet' = LocalSet
      /\ \A b : Source(b)' = Source(b) /\ Preds(b)' = Preds(b)
  BY <1>1, SameFunction
<1>3. /\ todo \in Seq(LocalSet) /\ todo # <<>> /\ n_regs \in Nat /\ NumRegs <= n_regs
      /\ Operands /\ repl \in Standing /\ PhisFresh /\ \A phi \in phis : IsPhi(phi)
  BY <1>1 DEF Typed
<1>4. todo' \in Seq(LocalSet)
  BY <1>1, <1>3
<1>5. repl' \in Standing
  <2>1. PICK D \in SUBSET (0 .. NumRegs) : repl \in [D -> 1 .. n_regs]
    BY <1>3 DEF Standing
  <2> DEFINE E == D \ loaded
  <2>2. E \in SUBSET (0 .. NumRegs) /\ [r \in E |-> repl[r]] \in [E -> 1 .. n_regs]
    BY <2>1
  <2>3. DOMAIN repl = D
    BY <2>1
  <2> HIDE DEF single, loaded
  <2> QED
    BY <1>1, <1>3, <2>2, <2>3 DEF Standing
<1>6. Operands'
  <2> SUFFICES ASSUME NEW b \in Blocks, NEW i \in DOMAIN Source(b)
               PROVE  LET was == Source(b)[i]
                          is == code'[b][i]
                      IN  /\ \A k \in DOMAIN is.src : is.src[k] \in 1 .. n_regs
                          /\ \A k \in DOMAIN is.from : is.from[k][2] \in 1 .. n_regs
                          /\ is.op = "phi" => DOMAIN is.from = DOMAIN was.from
                                                /\ \A k \in DOMAIN is.from : is.from[k][1] = was.from[k][1]
    <3>1. n_regs' = n_regs
      BY <1>1
    <3> HIDE DEF scope, goes, Source1
    <3> QED
      BY <1>2, <3>1 DEF Operands
  <2> DEFINE old == code[b][i]
             was == Source(b)[i]
  <2>1. code'[b][i] \in {old, Gone, Rewritten(old)}
    <3> HIDE DEF scope, goes
    <3> QED
      BY <1>1 DEF CodeInv, Shape
  <2>2. /\ IsIns(old)
        /\ \A k \in DOMAIN old.src : old.src[k] \in 1 .. n_regs
        /\ \A k \in DOMAIN old.from : old.from[k][2] \in 1 .. n_regs
        /\ old.op = "phi" => DOMAIN old.from = DOMAIN was.from
                              /\ \A k \in DOMAIN old.from : old.from[k][1] = was.from[k][1]
    BY <1>3 DEF Operands, CodeInv, Shape
  <2> HIDE DEF old, was
  <2> DEFINE src == [k \in DOMAIN old.src |-> Replaced(old.src[k])]
             from == [k \in DOMAIN old.from |-> <<old.from[k][1], Replaced(old.from[k][2])>>]
             new == Rewritten(old)
  <2>3. new.src = src /\ new.from = from /\ new.op = old.op
    <3>1. new = [old EXCEPT !.src = src, !.from = from]
      BY DEF Rewritten
    <3> HIDE DEF src, from, new
    <3>2. new = [op |-> old.op, dst |-> old.dst, src |-> src, from |-> from, imm |-> old.imm]
      BY <2>2, <3>1 DEF IsIns
    <3> QED
      BY <3>2
  <2>4. /\ \A k \in DOMAIN src : src[k] \in 1 .. n_regs
        /\ \A k \in DOMAIN from : from[k][2] \in 1 .. n_regs /\ from[k][1] = old.from[k][1]
        /\ DOMAIN from = DOMAIN old.from
    BY <1>3, <2>2, ReplacedType
  <2> HIDE DEF src, from, new
  <2>5. Gone.src = <<>> /\ Gone.from = <<>> /\ Gone.op = "gone" /\ DOMAIN <<>> = {}
    BY DEF Gone
  <2>6. CASE code'[b][i] = old
    BY <2>2, <2>6 DEF was
  <2>7. CASE code'[b][i] = Gone
    BY <2>5, <2>7
  <2>8. CASE code'[b][i] = new
    BY <2>2, <2>3, <2>4, <2>8 DEF was
  <2> QED
    BY <2>1, <2>6, <2>7, <2>8 DEF new
<1>7. ASSUME NEW phi \in phis
      PROVE  /\ Source1(phi).block = phi.block /\ Source1(phi).local = phi.local /\ Source1(phi).dst = phi.dst
             /\ IsPhi(Source1(phi))
  <2>1. IsPhi(phi)
    BY <1>3
  <2> DEFINE from == [p \in DOMAIN phi.from |-> Replaced(phi.from[p])]
  <2>2. from \in [Preds(phi.block) -> 0 .. n_regs]
    BY <1>3, <2>1, ReplacedType DEF IsPhi
  <2>3. CASE phi.block \in scope
    <3>1. Source1(phi) = [phi EXCEPT !.from = from]
      BY <2>3
    <3> HIDE DEF from, Source1
    <3>2. Source1(phi) = [block |-> phi.block, local |-> phi.local, dst |-> phi.dst, from |-> from]
      BY <2>1, <3>1 DEF IsPhi
    <3> QED
      BY <2>1, <2>2, <3>2 DEF IsPhi
  <2>4. CASE phi.block \notin scope
    BY <2>1, <2>4
  <2> QED
    BY <2>3, <2>4
<1> HIDE DEF Source1
<1>8. PhisFresh'
  BY <1>1, <1>3, <1>7 DEF PhisFresh
<1>9. ASSUME NEW phi \in phis' PROVE IsPhi(phi)'
  BY <1>1, <1>2, <1>7 DEF IsPhi
<1> QED
  BY <1>4, <1>5, <1>6, <1>8, <1>9

-----------------------------------------------------------------------------
(* What a step of the function changes is registers, memory and what is    *)
(* recorded of them.                                                       *)
LEMMA MisreadType ==
  ASSUME CodeInv, Typed, pc[2] \in DOMAIN Source(pc[1])
  PROVE  Misread \subseteq 0 .. n_regs
<1>1. \A k \in DOMAIN New.src : New.src[k] \in 1 .. n_regs
  BY DEF Typed, Operands, New
<1> QED
  BY <1>1 DEF Misread, Typed

LEMMA StepTyped ==
  ASSUME CodeInv, Typed, Advance, wrong' \in {wrong, Misread}, pc[2] \in DOMAIN Source(pc[1]),
         passed' \in {passed, passed \cup ({before[r] : r \in Reads(Old)} \cap LocalSet)}
  PROVE  Typed'
<1>1. /\ prog' = prog /\ phase' = phase /\ escapes' = escapes /\ todo' = todo /\ code' = code /\ phis' = phis
      /\ n_regs' = n_regs /\ repl' = repl /\ pc'[1] = pc[1]
  BY DEF Advance, rewritten
<1>2. /\ Blocks' = Blocks /\ LocalSet' = LocalSet
      /\ \A b : Source(b)' = Source(b) /\ Preds(b)' = Preds(b)
  BY <1>1, SameFunction
<1>3. wrong' \subseteq 0 .. n_regs /\ passed' \subseteq LocalSet
  BY MisreadType DEF Typed
<1>4. Operands' /\ PhisFresh' /\ Standing' = Standing
  BY <1>1, <1>2 DEF Typed, Operands, PhisFresh, Standing
<1>5. \A phi : IsPhi(phi)' <=> IsPhi(phi)
  BY <1>1, <1>2 DEF IsPhi
<1> QED
  BY <1>1, <1>2, <1>3, <1>4, <1>5 DEF Typed

(* A phi has a source for each predecessor of its block.                   *)
LEMMA PhiSources ==
  ASSUME prog \in Programs, NEW b \in Blocks, NEW t \in Succs(b),
         NEW i \in DOMAIN Source(t), Source(t)[i].op = "phi"
  PROVE  \E j \in DOMAIN Source(t)[i].from : Source(t)[i].from[j][1] = b
<1>1. PICK k \in DOMAIN prog.blocks[b].succs : t = prog.blocks[b].succs[k]
  BY DEF Succs
<1> DEFINE Sourced(c, u) ==
             \A m \in DOMAIN prog.blocks[u].code :
               LET ins == prog.blocks[u].code[m]
               IN  ins.op = "phi" => \E j \in DOMAIN ins.from : ins.from[j][1] = c
<1>2. \A c \in DOMAIN prog.blocks : \A n \in DOMAIN prog.blocks[c].succs :
        LET u == prog.blocks[c].succs[n]
        IN  u \in DOMAIN prog.blocks \ {1} /\ Sourced(c, u)
  BY ProgramsAssumption
<1>3. Sourced(b, t)
  <2> HIDE DEF Sourced
  <2> QED
    BY <1>1, <1>2 DEF Blocks
<1> QED
  BY <1>3 DEF Source

(* A phi has a source for each predecessor of its block, so what a branch  *)
(* copies comes from registers.                                            *)
LEMMA BranchTyped ==
  ASSUME CodeInv, Typed, Branch
  PROVE  Typed'
<1> DEFINE b == pc[1]
<1>1. PICK t \in Succs(b) :
        LET new == {phi \in phis : phi.block = t}
            old == {i \in DOMAIN Source(t) : Source(t)[i].op = "phi"}
            Was(i) == before[Taken([c \in Blocks |-> Source(c)], b, t, i)]
        IN  /\ wrong' = Misread
                 \cup {Taken(code, b, t, i) : i \in {i \in old : Differs(Was(i), Taken(code, b, t, i))}}
                 \cup {phi.from[b] : phi \in {phi \in new : Differs(memory[phi.local].value, phi.from[b])}}
            /\ pc' = <<t, 1 + Cardinality(old)>>
  BY DEF Branch
<1>2. /\ prog \in Programs /\ b \in Blocks /\ t \in Blocks /\ b \in Preds(t)
      /\ pc[2] \in DOMAIN Source(pc[1])
  <2>1. prog \in Programs /\ b \in Blocks /\ pc[2] \in DOMAIN Source(pc[1])
    BY DEF CodeInv, Shape, Typed, Branch, Running
  <2>2. t \in Blocks
    BY <1>1, <2>1, BlocksFacts
  <2> QED
    BY <2>1, <2>2 DEF Preds
<1>3. ASSUME NEW i \in DOMAIN Source(t), Source(t)[i].op = "phi"
      PROVE  Taken(code, b, t, i) \in 0 .. n_regs
  <2> DEFINE was == Source(t)[i]
             is == code[t][i]
  <2>1. \E j \in DOMAIN was.from : was.from[j][1] = b
    BY <1>1, <1>2, <1>3, PhiSources
  <2>2. is.op = "phi"
    BY <1>2, <1>3 DEF CodeInv, OnlyAccessesGo
  <2>3. /\ DOMAIN is.from = DOMAIN was.from /\ \A k \in DOMAIN is.from : is.from[k][1] = was.from[k][1]
        /\ \A k \in DOMAIN is.from : is.from[k][2] \in 1 .. n_regs
    BY <1>2, <1>3, <2>2 DEF Typed, Operands
  <2> HIDE DEF was, is
  <2> DEFINE S == {is.from[k] : k \in DOMAIN is.from}
             s == CHOOSE s \in S : s[1] = b
  <2>4. \E e \in S : e[1] = b
    BY <2>1, <2>3
  <2>5. s \in S
    <3> HIDE DEF S
    <3> QED
      BY <2>4
  <2>6. \A e \in S : e[2] \in 1 .. n_regs
    BY <2>3
  <2>7. Taken(code, b, t, i) = s[2]
    BY DEF Taken, is
  <2> HIDE DEF s, S
  <2> QED
    BY <2>5, <2>6, <2>7 DEF Typed
<1>4. ASSUME NEW phi \in phis, phi.block = t PROVE phi.from[b] \in 0 .. n_regs
  BY <1>2, <1>4 DEF Typed, IsPhi
<1>5. wrong' \subseteq 0 .. n_regs
  <2>1. Misread \subseteq 0 .. n_regs
    BY <1>2, MisreadType
  <2> HIDE DEF b
  <2> QED
    BY <1>1, <1>3, <1>4, <2>1
<1>6. /\ prog' = prog /\ phase' = phase /\ escapes' = escapes /\ todo' = todo /\ code' = code /\ phis' = phis
      /\ n_regs' = n_regs /\ repl' = repl /\ passed' = passed
  BY DEF Branch, rewritten
<1>7. /\ Blocks' = Blocks /\ LocalSet' = LocalSet
      /\ \A c : Source(c)' = Source(c) /\ Preds(c)' = Preds(c)
  BY <1>6, SameFunction
<1>8. Operands' /\ PhisFresh' /\ Standing' = Standing /\ pc'[1] = t
  BY <1>1, <1>6, <1>7 DEF Typed, Operands, PhisFresh, Standing
<1>9. \A phi : IsPhi(phi)' <=> IsPhi(phi)
  BY <1>6, <1>7 DEF IsPhi
<1> QED
  BY <1>2, <1>5, <1>6, <1>7, <1>8, <1>9 DEF Typed

-----------------------------------------------------------------------------
LEMMA InitTyped == Init => Typed
<1> SUFFICES ASSUME Init PROVE Typed
  OBVIOUS
<1>1. /\ prog \in Programs /\ phase = "escape" /\ escapes = {} /\ todo = Locals
      /\ code = [b \in Blocks |-> Source(b)] /\ phis = {} /\ n_regs = NumRegs /\ repl = [r \in {} |-> None]
      /\ pc = <<1, 1>> /\ wrong = {} /\ passed = {}
  BY DEF Init, Locals
<1>2. todo \in Seq(LocalSet) /\ 1 \in Blocks
  BY <1>1, LocalsFacts, BlocksFacts
<1>3. Operands
  <2> SUFFICES ASSUME NEW b \in Blocks, NEW i \in DOMAIN Source(b)
               PROVE  LET is == Source(b)[i]
                      IN  /\ \A k \in DOMAIN is.src : is.src[k] \in 1 .. NumRegs
                          /\ \A k \in DOMAIN is.from : is.from[k][2] \in 1 .. NumRegs
    BY <1>1 DEF Operands
  <2> DEFINE is == Source(b)[i]
             R == 1 .. NumRegs
  <2>1. is.src \in Seq(R) /\ is.from \in Seq(Nat \X R)
    BY <1>1, SourceFacts
  <2> HIDE DEF is, R
  <2>2. /\ \A k \in DOMAIN is.src : is.src[k] \in R
        /\ \A k \in DOMAIN is.from : is.from[k] \in Nat \X R
    BY <2>1
  <2> QED
    BY <2>2 DEF is, R
<1>4. repl \in Standing
  <2>1. repl \in [{} -> 1 .. n_regs] /\ {} \in SUBSET (0 .. NumRegs)
    BY <1>1
  <2> QED
    BY <2>1 DEF Standing
<1>5. PhisFresh
  BY <1>1 DEF PhisFresh
<1> QED
  BY <1>1, <1>2, <1>3, <1>4, <1>5, BoundsAssumption DEF Typed

LEMMA StepTypes ==
  ASSUME CodeInv, OrderInv, Typed, [Next]_vars
  PROVE  Typed'
<1>1. ASSUME prog' = prog, code' = code, n_regs' = n_regs
      PROVE  Operands' /\ Standing' = Standing
  BY <1>1, SameFunction DEF Typed, Operands, Standing
<1>2. ASSUME prog' = prog, escapes' = escapes, phis' = phis, n_regs' = n_regs
      PROVE  PhisFresh' /\ \A phi \in phis' : IsPhi(phi)'
  BY <1>2, SameFunction DEF Typed, PhisFresh, IsPhi
<1>3. CASE Analyse
  <2>1. /\ phase = "escape" /\ phase' = "order" /\ escapes' = Escaping \cup Parameters
        /\ UNCHANGED <<prog, todo, rewritten, ran>>
    BY <1>3 DEF Analyse
  <2>2. escapes' \subseteq LocalSet
    BY <2>1, EscapingType DEF CodeInv, Shape
  <2>3. phis' = {} /\ PhisFresh'
    BY <2>1 DEF Typed, rewritten, PhisFresh
  <2>4. Operands' /\ Standing' = Standing
    BY <1>1, <2>1 DEF rewritten
  <2> QED
    BY <2>1, <2>2, <2>3, <2>4, SameFunction DEF Typed, rewritten, ran
<1>4. CASE Expand \/ Leave \/ Sweep
  <2>1. /\ phase = "order" /\ phase' \in {"order", "promote"}
        /\ UNCHANGED <<prog, todo, escapes, rewritten, ran>>
    BY <1>4 DEF Expand, Leave, Sweep, Searching
  <2>2. Operands' /\ Standing' = Standing /\ PhisFresh' /\ \A phi \in phis' : IsPhi(phi)'
    BY <1>1, <1>2, <2>1 DEF rewritten
  <2> QED
    BY <2>1, <2>2, SameFunction DEF Typed, rewritten, ran
<1>5. CASE PassOver
  <2>1. /\ phase = "promote" /\ phase' = phase /\ todo # <<>> /\ todo' = Tail(todo)
        /\ UNCHANGED <<prog, escapes, rewritten, ran>>
    BY <1>5 DEF PassOver
  <2>2. Operands' /\ Standing' = Standing /\ PhisFresh' /\ \A phi \in phis' : IsPhi(phi)'
    BY <1>1, <1>2, <2>1 DEF rewritten
  <2>3. todo' \in Seq(LocalSet)
    BY <2>1 DEF Typed
  <2> QED
    BY <2>1, <2>2, <2>3, SameFunction DEF Typed, rewritten, ran
<1>6. CASE Walk
  <2>1. /\ phase' = "rewrite" /\ todo # <<>>
        /\ UNCHANGED <<prog, escapes, todo, code, phis, n_regs, ran>>
    BY <1>6 DEF Walk
  <2>2. Operands' /\ Standing' = Standing /\ PhisFresh' /\ \A phi \in phis' : IsPhi(phi)'
    BY <1>1, <1>2, <2>1
  <2>3. repl' \in Standing
    BY <1>6, WalkType
  <2> QED
    BY <2>1, <2>2, <2>3, SameFunction DEF Typed, ran
<1>7. CASE PlacePhis
  <2>1. /\ phase' = "rename" /\ todo # <<>>
        /\ UNCHANGED <<prog, escapes, todo, code, repl, ran>>
    BY <1>7 DEF PlacePhis
  <2>2. PhisFresh' /\ (\A phi \in phis' : IsPhi(phi)') /\ n_regs' \in Nat /\ n_regs <= n_regs'
    BY <1>7, PlacePhisTyped
  <2>3. n_regs \in Nat /\ NumRegs \in Nat /\ NumRegs <= n_regs'
    BY <2>2, BoundsAssumption DEF Typed
  <2>4. 1 .. n_regs \subseteq 1 .. n_regs' /\ 0 .. n_regs \subseteq 0 .. n_regs'
    BY <2>2, <2>3
  <2>5. Operands'
    <3> DEFINE R == 1 .. n_regs
               S == 1 .. n_regs'
    <3>1. \A b \in Blocks : \A i \in DOMAIN Source(b) :
            LET was == Source(b)[i]
                is == code[b][i]
            IN  /\ \A k \in DOMAIN is.src : is.src[k] \in R
                /\ \A k \in DOMAIN is.from : is.from[k][2] \in R
                /\ is.op = "phi" => DOMAIN is.from = DOMAIN was.from
                                      /\ \A k \in DOMAIN is.from : is.from[k][1] = was.from[k][1]
      BY DEF Typed, Operands
    <3>2. R \subseteq S
      BY <2>4
    <3> SUFFICES \A b \in Blocks : \A i \in DOMAIN Source(b) :
                   LET was == Source(b)[i]
                       is == code[b][i]
                   IN  /\ \A k \in DOMAIN is.src : is.src[k] \in S
                       /\ \A k \in DOMAIN is.from : is.from[k][2] \in S
                       /\ is.op = "phi" => DOMAIN is.from = DOMAIN was.from
                                             /\ \A k \in DOMAIN is.from : is.from[k][1] = was.from[k][1]
      BY <2>1, SameFunction DEF Operands
    <3> HIDE DEF R, S
    <3> QED
      BY <3>1, <3>2
  <2>6. repl' \in Standing'
    <3>1. PICK D \in SUBSET (0 .. NumRegs) : repl \in [D -> 1 .. n_regs]
      BY DEF Typed, Standing
    <3>2. repl' \in [D -> 1 .. n_regs']
      BY <2>1, <2>4, <3>1
    <3> QED
      BY <3>2 DEF Standing
  <2>7. wrong' \subseteq 0 .. n_regs' /\ pc' = pc /\ passed' = passed
    BY <2>1, <2>4 DEF Typed, ran
  <2> QED
    BY <2>1, <2>2, <2>3, <2>5, <2>6, <2>7, SameFunction DEF Typed
<1>8. CASE RenameTree
  <2>1. /\ phase = "rename" /\ phase' = "rewrite"
        /\ UNCHANGED <<prog, escapes, todo, code, n_regs, ran>>
    BY <1>8 DEF RenameTree
  <2>2. repl' \in Standing /\ PhisFresh' /\ \A phi \in phis' : IsPhi(phi)'
    BY <1>8, RenameTreeTyped
  <2>3. Operands' /\ Standing' = Standing
    BY <1>1, <2>1
  <2> QED
    BY <2>1, <2>2, <2>3, SameFunction DEF Typed, ran
<1>9. CASE Rewrite
  <2>1. phase' = "promote" /\ UNCHANGED <<prog, escapes, n_regs, ran>>
    BY <1>9 DEF Rewrite
  <2>2. /\ Operands' /\ repl' \in Standing /\ todo' \in Seq(LocalSet)
        /\ PhisFresh' /\ \A phi \in phis' : IsPhi(phi)'
    BY <1>9, RewriteTyped
  <2>3. Standing' = Standing
    BY <2>1 DEF Standing
  <2> QED
    BY <2>1, <2>2, <2>3, SameFunction DEF Typed, ran
<1>10. CASE Start
  <2>1. /\ phase' = "run" /\ UNCHANGED <<prog, escapes, todo, rewritten, pc, wrong, passed>>
    BY <1>10 DEF Start
  <2>2. Operands' /\ Standing' = Standing /\ PhisFresh' /\ \A phi \in phis' : IsPhi(phi)'
    BY <1>1, <1>2, <2>1 DEF rewritten
  <2> QED
    BY <2>1, <2>2, SameFunction DEF Typed, rewritten
<1>11. CASE Compute \/ Alloca \/ Copy \/ Load \/ Store \/ Return
  <2>1. /\ Advance /\ pc[2] \in DOMAIN Source(pc[1]) /\ wrong' \in {wrong, Misread}
        /\ passed' \in {passed, passed \cup ({before[r] : r \in Reads(Old)} \cap LocalSet)}
    <3>1. CASE Compute
      BY <3>1 DEF Compute, Running
    <3>2. CASE Alloca
      BY <3>2 DEF Alloca, Running
    <3>3. CASE Copy
      BY <3>3 DEF Copy, Running
    <3>4. CASE Load
      BY <3>4 DEF Load, Running
    <3>5. CASE Store
      BY <3>5 DEF Store, Running
    <3>6. CASE Return
      BY <3>6 DEF Return, Running
    <3> QED
      BY <1>11, <3>1, <3>2, <3>3, <3>4, <3>5, <3>6
  <2> QED
    BY <2>1, StepTyped
<1>12. CASE Branch
  BY <1>12, BranchTyped
<1>13. CASE Halt \/ UNCHANGED vars
  <2>1. UNCHANGED vars
    BY <1>13 DEF Halt
  <2>2. Operands' /\ Standing' = Standing /\ PhisFresh' /\ \A phi \in phis' : IsPhi(phi)'
    BY <1>1, <1>2, <2>1 DEF vars, rewritten
  <2> QED
    BY <2>1, <2>2, SameFunction DEF Typed, vars, rewritten, ran
<1> QED
  BY <1>3, <1>4, <1>5, <1>6, <1>7, <1>8, <1>9, <1>10, <1>11, <1>12, <1>13 DEF Next

LEMMA TypedAlways == Spec => [](CodeInv /\ OrderInv /\ Typed)
<1>1. Init => CodeInv /\ OrderInv /\ Typed
  BY InitCode, InitOrder, InitTyped
<1>2. CodeInv /\ OrderInv /\ Typed /\ [Next]_vars => (CodeInv /\ OrderInv /\ Typed)'
  BY NextCode, StepOrder, StepTypes
<1> QED
  BY <1>1, <1>2, PTL DEF Spec

(* The phis of a function have registers of their own, renaming gives each *)
(* of them a register or none for every predecessor, and what is read, is  *)
(* replaced or goes wrong is a register of the function.                   *)
THEOREM PromotionTyped == Spec => []PromotionTypeOK
<1>1. CodeInv /\ OrderInv /\ Typed => PromotionTypeOK
  <2> SUFFICES ASSUME CodeInv, OrderInv, Typed PROVE PromotionTypeOK
    OBVIOUS
  <2>1. \A k, m \in DOMAIN rpo : rpo[k] \in visited /\ (rpo[k] = rpo[m] => k = m)
    <3>1. rpo \in Seq(visited) /\ \A k, m \in DOMAIN rpo : rpo[k] = rpo[m] => k = m
      BY DEF OrderInv, SearchInv, OnceEach
    <3> QED
      BY <3>1
  <2>2. visited \subseteq Reachable /\ idom \in [Blocks -> Blocks \cup {None}]
    BY DEF OrderInv, SearchInv, TreeInv
  <2>3. \A r \in DOMAIN repl : repl[r] \in 1 .. n_regs
    BY DEF Typed, Standing
  <2>4. \A phi \in phis : phi.local \in LocalSet \ escapes /\ phi.from \in [Preds(phi.block) -> 0 .. n_regs]
    BY DEF Typed, IsPhi
  <2> QED
    BY <2>1, <2>2, <2>3, <2>4 DEF PromotionTypeOK, Typed
<1> QED
  BY <1>1, TypedAlways, PTL
-----------------------------------------------------------------------------
(* What the phis of a local depend on. *)
LEMMA SameNeed ==
  ASSUME UNCHANGED <<prog, idom, code>>, NEW x
  PROVE  NeedPhi(x)' = NeedPhi(x) /\ \A b : Preds(b)' = Preds(b)
BY DEF NeedPhi, Frontier, AllFrontier, Runners, Stores, Closure, Reachable, Preds, Succs, Blocks
-----------------------------------------------------------------------------
(* The way up the tree from b, as far as the block that y hangs on.        *)
LEMMA RunnersFacts ==
  ASSUME prog \in Programs, idom \in [Blocks -> Blocks \cup {None}], NEW y \in Blocks, NEW b \in Blocks,
         b # idom[y]
  PROVE  /\ b \in Runners(b, y)
         /\ idom[b] # None => Runners(idom[b], y) \subseteq Runners(b, y)
<1> DEFINE m == idom[y]
           Step(S) == \A x \in S : x # m /\ idom[x] # None /\ idom[x] # m => idom[x] \in S
           Way(r) == {c \in Blocks : \A S \in SUBSET Blocks : r \in S /\ Step(S) => c \in S}
           Up(f) == [r \in Blocks |->
                       IF r = m THEN {} ELSE {r} \cup (IF idom[r] = None THEN {} ELSE f[idom[r]])]
           g == [r \in Blocks |-> IF r = m THEN {} ELSE Way(r)]
           up[r \in Blocks] ==
             IF r = idom[y] THEN {} ELSE {r} \cup (IF idom[r] = None THEN {} ELSE up[idom[r]])
<1>1. ASSUME NEW r \in Blocks, r # m
      PROVE  Way(r) = {r} \cup (IF idom[r] = None THEN {} ELSE g[idom[r]])
  <2>1. r \in Way(r)
    OBVIOUS
  <2>2. CASE idom[r] = None \/ idom[r] = m
    <3>1. {r} \in SUBSET Blocks /\ Step({r})
      BY <1>1, <2>2
    <3>2. Way(r) \subseteq {r}
      <4> HIDE DEF Step
      <4> QED
        BY <3>1
    <3>3. idom[r] = None \/ g[idom[r]] = {}
      BY <2>2
    <3> HIDE DEF Way, g
    <3> QED
      BY <2>1, <3>2, <3>3
  <2>3. CASE idom[r] # None /\ idom[r] # m
    <3> DEFINE q == idom[r]
    <3>1. q \in Blocks /\ g[q] = Way(q)
      BY <2>3
    <3>2. ASSUME NEW c \in Way(r), c # r PROVE c \in Way(q)
      <4> SUFFICES ASSUME NEW S \in SUBSET Blocks, q \in S, Step(S) PROVE c \in S
        BY <3>2
      <4>1. S \cup {r} \in SUBSET Blocks /\ Step(S \cup {r})
        OBVIOUS
      <4>2. c \in S \cup {r}
        <5> HIDE DEF Step
        <5> QED
          BY <3>2, <4>1
      <4> QED
        BY <3>2, <4>2
    <3>3. ASSUME NEW c \in Way(q) PROVE c \in Way(r)
      <4> SUFFICES ASSUME NEW S \in SUBSET Blocks, r \in S, Step(S) PROVE c \in S
        BY <3>3
      <4>1. q \in S
        BY <1>1, <2>3
      <4> HIDE DEF Step
      <4> QED
        BY <3>3, <4>1
    <3> HIDE DEF Way, g
    <3> QED
      BY <2>1, <2>3, <3>1, <3>2, <3>3
  <2> QED
    BY <2>2, <2>3
<1>2. g = Up(g)
  <2> HIDE DEF Way
  <2> SUFFICES \A r \in Blocks :
                 g[r] = IF r = m THEN {} ELSE {r} \cup (IF idom[r] = None THEN {} ELSE g[idom[r]])
    OBVIOUS
  <2> QED
    BY <1>1
<1>3. up = Up(up)
  <2> HIDE DEF Way
  <2>1. \E f : f = Up(f)
    <3> HIDE DEF g, Up
    <3> QED
      BY <1>2
  <2> HIDE DEF g
  <2> QED
    BY <2>1
<1>4. Runners(b, y) = up[b] /\ Runners(idom[b], y) = up[idom[b]]
  BY DEF Runners
<1> HIDE DEF up
<1>5. up[b] = {b} \cup (IF idom[b] = None THEN {} ELSE up[idom[b]])
  <2> HIDE DEF g, Way
  <2> QED
    BY <1>3
<1> QED
  BY <1>4, <1>5

(* The blocks that need a phi are the entry, those with a store, and those *)
(* at the frontier of one that needs a phi.                                *)
LEMMA NeedPhiFacts ==
  ASSUME prog \in Programs, NEW x
  PROVE  /\ NeedPhi(x) \subseteq Reachable /\ NeedPhi(x) \subseteq Blocks /\ 1 \in NeedPhi(x)
         /\ \A b \in Reachable : Stores(b, x) # {} => b \in NeedPhi(x)
         /\ \A b \in NeedPhi(x) : Frontier(b) \subseteq NeedPhi(x)
<1> DEFINE from == {1} \cup {b \in Reachable : Stores(b, x) # {}}
           step == [b \in Blocks |-> Frontier(b)]
<1>1. /\ from \in SUBSET Blocks /\ step \in [Blocks -> SUBSET Blocks]
      /\ from \subseteq Reachable /\ \A b \in Blocks : step[b] \subseteq Reachable
  BY ReachableFacts, BlocksFacts DEF Frontier, AllFrontier
<1>2. NeedPhi(x) = Closure(from, step)
  BY DEF NeedPhi
<1>3. \A b \in Blocks : step[b] = Frontier(b)
  OBVIOUS
<1>4. /\ Closure(from, step) \subseteq Blocks /\ from \subseteq Closure(from, step)
      /\ \A b \in Closure(from, step) : step[b] \subseteq Closure(from, step)
      /\ Closure(from, step) \subseteq Reachable
  <2> HIDE DEF from, step
  <2> QED
    BY <1>1, ClosureFacts
<1> HIDE DEF step
<1> QED
  BY <1>2, <1>3, <1>4

-----------------------------------------------------------------------------
(* No local is looked at twice, and none that is still to be looked at has *)
(* phis already; those of the local that is renamed are all there.         *)
EachOnce == \A k, m \in DOMAIN todo : todo[k] = todo[m] => k = m

Coming ==
  IF phase \in {"rename", "rewrite"} THEN {todo[k] : k \in DOMAIN todo \ {1}} ELSE {todo[k] : k \in DOMAIN todo}

Placed ==
  phase = "rename" =>
    /\ \A b \in NeedPhi(Local) : Cardinality(Preds(b)) <= MaxPhiSources =>
         \E phi \in phis : phi.block = b /\ phi.local = Local
    /\ \A phi \in phis : phi.local = Local => phi.block \in NeedPhi(Local)

PhiInv ==
  /\ EachOnce
  /\ \A phi \in phis : phi.local \notin Coming
  /\ Placed

LEMMA InitPhi == Init => PhiInv
<1> SUFFICES ASSUME Init PROVE PhiInv
  OBVIOUS
<1>1. prog \in Programs /\ todo = Locals /\ phis = {} /\ phase = "escape"
  BY DEF Init, Locals
<1> QED
  BY <1>1, LocalsFacts DEF PhiInv, EachOnce, Placed

(* What is left when the first local has been dealt with. *)
LEMMA TailFacts ==
  ASSUME todo \in Seq(LocalSet), todo # <<>>, EachOnce, todo' = Tail(todo)
  PROVE  /\ EachOnce'
         /\ {todo'[k] : k \in DOMAIN todo'} = {todo[k] : k \in DOMAIN todo \ {1}}
         /\ Local \notin {todo[k] : k \in DOMAIN todo \ {1}}
         /\ {todo[k] : k \in DOMAIN todo \ {1}} \subseteq {todo[k] : k \in DOMAIN todo}
<1>1. /\ Len(todo) \in Nat /\ Len(todo) # 0 /\ DOMAIN todo = 1 .. Len(todo)
      /\ DOMAIN todo' = 1 .. Len(todo) - 1 /\ \A k \in 1 .. Len(todo) - 1 : todo'[k] = todo[k + 1]
      /\ Local = todo[1]
  BY DEF Local
<1>2. EachOnce'
  <2> SUFFICES ASSUME NEW k \in DOMAIN todo', NEW m \in DOMAIN todo', todo'[k] = todo'[m] PROVE k = m
    BY DEF EachOnce
  <2>1. k + 1 \in DOMAIN todo /\ m + 1 \in DOMAIN todo /\ todo[k + 1] = todo[m + 1]
    BY <1>1
  <2>2. k + 1 = m + 1
    BY <2>1 DEF EachOnce
  <2> QED
    BY <1>1, <2>2
<1>3. {todo'[k] : k \in DOMAIN todo'} = {todo[k] : k \in DOMAIN todo \ {1}}
  <2>1. \A k \in DOMAIN todo' : k + 1 \in DOMAIN todo \ {1} /\ todo'[k] = todo[k + 1]
    BY <1>1
  <2>2. \A k \in DOMAIN todo \ {1} : k - 1 \in DOMAIN todo' /\ todo'[k - 1] = todo[k]
    BY <1>1
  <2> QED
    BY <2>1, <2>2
<1>4. Local \notin {todo[k] : k \in DOMAIN todo \ {1}}
  BY <1>1 DEF EachOnce
<1> QED
  BY <1>2, <1>3, <1>4

LEMMA StepPhi ==
  ASSUME CodeInv, Typed, PhiInv, [Next]_vars
  PROVE  PhiInv'
<1>1. ASSUME UNCHANGED <<todo, phis>>, phase' \notin {"rename", "rewrite"}, phase \notin {"rename", "rewrite"}
      PROVE  PhiInv'
  <2>1. Coming' = Coming
    BY <1>1 DEF Coming
  <2> QED
    BY <1>1, <2>1 DEF PhiInv, EachOnce, Placed
<1>2. CASE Analyse \/ Expand \/ Leave \/ Sweep \/ Start
  BY <1>1, <1>2 DEF Analyse, Expand, Leave, Sweep, Start, Searching, rewritten
<1>3. CASE Compute \/ Alloca \/ Copy \/ Load \/ Store \/ Return
  BY <1>1, <1>3 DEF Compute, Alloca, Copy, Load, Store, Return, Advance, Running, rewritten
<1>4. CASE Branch
  BY <1>1, <1>4 DEF Branch, Running, rewritten
<1>5. CASE Halt \/ UNCHANGED vars
  <2>1. UNCHANGED vars
    BY <1>5 DEF Halt
  <2>2. UNCHANGED <<prog, phase, todo, phis, idom, code>>
    BY <2>1 DEF vars, rewritten
  <2>3. Local' = Local /\ Coming' = Coming /\ EachOnce'
    BY <2>2 DEF Local, Coming, PhiInv, EachOnce
  <2>4. NeedPhi(Local)' = NeedPhi(Local) /\ \A b : Preds(b)' = Preds(b)
    BY <2>2, <2>3, SameNeed
  <2> QED
    BY <2>2, <2>3, <2>4 DEF PhiInv, Placed
<1>6. CASE PassOver
  <2>1. phase = "promote" /\ phase' = phase /\ todo # <<>> /\ todo' = Tail(todo) /\ phis' = phis
    BY <1>6 DEF PassOver, rewritten
  <2>2. EachOnce' /\ Coming' \subseteq Coming
    BY <2>1, TailFacts DEF Typed, PhiInv, Coming
  <2> QED
    BY <2>1, <2>2 DEF PhiInv, Placed
<1>7. CASE Walk
  <2>1. phase = "promote" /\ phase' = "rewrite" /\ todo # <<>> /\ todo' = todo /\ phis' = phis
    BY <1>7 DEF Walk
  <2>2. EachOnce' /\ Coming' \subseteq Coming
    BY <2>1 DEF PhiInv, EachOnce, Coming
  <2> QED
    BY <2>1, <2>2 DEF PhiInv, Placed
<1>8. CASE PlacePhis
  <2> DEFINE placed == {b \in NeedPhi(Local) : Cardinality(Preds(b)) <= MaxPhiSources}
             Phi(b) == [block |-> b, local |-> Local, dst |-> FreshReg(b, placed),
                        from |-> [p \in Preds(b) |-> None]]
  <2>1. /\ phase = "promote" /\ phase' = "rename" /\ todo # <<>> /\ phis' = phis \cup {Phi(b) : b \in placed}
        /\ UNCHANGED <<prog, idom, todo, code>>
    BY <1>8 DEF PlacePhis
  <2>2. Local' = Local /\ EachOnce'
    BY <2>1 DEF Local, PhiInv, EachOnce
  <2>3. NeedPhi(Local)' = NeedPhi(Local) /\ \A b : Preds(b)' = Preds(b)
    BY <2>1, <2>2, SameNeed
  <2>4. \A b \in placed : Phi(b).block = b /\ Phi(b).local = Local
    OBVIOUS
  <2> HIDE DEF Phi
  <2>5. Local \in Coming /\ Local \notin Coming' /\ Coming' \subseteq Coming
    <3>1. /\ Local \notin {todo[k] : k \in DOMAIN todo \ {1}}
          /\ Coming = {todo[k] : k \in DOMAIN todo} /\ Coming' = {todo[k] : k \in DOMAIN todo \ {1}}
      <4>1. Local = todo[1] /\ 1 \in DOMAIN todo
        BY <2>1 DEF Local, Typed
      <4>2. Local \notin {todo[k] : k \in DOMAIN todo \ {1}}
        BY <4>1 DEF PhiInv, EachOnce
      <4> QED
        BY <2>1, <4>2 DEF Coming
    <3>2. Local \in {todo[k] : k \in DOMAIN todo}
      BY <2>1 DEF Local, Typed
    <3> QED
      BY <3>1, <3>2
  <2>6. \A phi \in phis : phi.local # Local
    BY <2>5 DEF PhiInv
  <2>7. \A phi \in phis' : phi.local \notin Coming'
    BY <2>1, <2>4, <2>5 DEF PhiInv
  <2>8. Placed'
    BY <2>1, <2>2, <2>3, <2>4, <2>6 DEF Placed
  <2> QED
    BY <2>2, <2>7, <2>8 DEF PhiInv
<1>9. CASE RenameTree
  <2>1. /\ phase = "rename" /\ phase' = "rewrite" /\ todo' = todo
        /\ \A phi \in phis' : \E was \in phis : phi.local = was.local
    <3> DEFINE from(phi) == [p \in DOMAIN phi.from |-> IF p \in Renamed THEN AtEnd(Local)[p] ELSE None]
    <3>1. /\ phase = "rename" /\ phase' = "rewrite" /\ todo' = todo
          /\ phis' = {IF phi.local = Local THEN [phi EXCEPT !.from = from(phi)] ELSE phi : phi \in phis}
      BY <1>9 DEF RenameTree
    <3> HIDE DEF from
    <3>2. \A phi \in phis : [phi EXCEPT !.from = from(phi)].local = phi.local
      BY DEF Typed, IsPhi
    <3> QED
      BY <3>1, <3>2
  <2>2. EachOnce' /\ Coming' = Coming
    BY <2>1 DEF PhiInv, EachOnce, Coming
  <2> QED
    BY <2>1, <2>2 DEF PhiInv, Placed
<1>10. CASE Rewrite
  <2>1. /\ phase = "rewrite" /\ phase' = "promote" /\ todo # <<>> /\ todo' = Tail(todo)
        /\ \A phi \in phis' : \E was \in phis : phi.local = was.local
    <3> DEFINE scope == IF SingleBlock(Local) THEN {1} ELSE Reachable
               from(phi) == [p \in DOMAIN phi.from |-> Replaced(phi.from[p])]
    <3>1. /\ phase = "rewrite" /\ phase' = "promote" /\ todo' = Tail(todo)
          /\ phis' = {IF phi.block \in scope THEN [phi EXCEPT !.from = from(phi)] ELSE phi : phi \in phis}
      BY <1>10 DEF Rewrite
    <3> HIDE DEF from, scope
    <3>2. \A phi \in phis : [phi EXCEPT !.from = from(phi)].local = phi.local
      BY DEF Typed, IsPhi
    <3> QED
      BY <3>1, <3>2 DEF Typed
  <2>2. EachOnce' /\ Coming' = Coming
    BY <2>1, TailFacts DEF Typed, PhiInv, Coming
  <2> QED
    BY <2>1, <2>2 DEF PhiInv, Placed
<1> QED
  BY <1>2, <1>3, <1>4, <1>5, <1>6, <1>7, <1>8, <1>9, <1>10 DEF Next

(* A list that is long enough takes all. *)
LEMMA ListTakesAll ==
  ASSUME NEW all, all \subseteq Nat, IsFiniteSet(all), NEW N \in Nat, Cardinality(all) <= N
  PROVE  {c \in all : Cardinality({d \in all : d < c}) < N} = all
<1> SUFFICES ASSUME NEW c \in all PROVE Cardinality({d \in all : d < c}) < N
  OBVIOUS
<1> DEFINE less == {d \in all : d < c}
<1>1. less \subseteq all /\ less # all
  OBVIOUS
<1> HIDE DEF less
<1>2. IsFiniteSet(less) /\ Cardinality(less) <= Cardinality(all) /\ Cardinality(less) # Cardinality(all)
  BY <1>1, FS_Subset
<1>3. Cardinality(all) \in Nat /\ Cardinality(less) \in Nat
  BY <1>2, FS_CardinalityType
<1>4. Cardinality(less) < N
  BY <1>2, <1>3
<1> QED
  BY <1>4 DEF less

(* Within the limits no list is cut short. *)
LEMMA ListsComplete ==
  ASSUME prog \in Programs, WithinLimits, NEW b \in Reachable
  PROVE  Children(b) = AllChildren(b) /\ Frontier(b) = AllFrontier(b)
<1>1. IsFiniteSet(Blocks) /\ Blocks \subseteq Nat /\ Reachable \subseteq Blocks
  BY BlocksFacts, ReachableFacts
<1>2. MaxChildren \in Nat /\ MaxFrontier \in Nat
  BY BoundsAssumption
<1>3. Children(b) = AllChildren(b)
  <2> DEFINE all == AllChildren(b)
  <2>1. all \subseteq Nat /\ IsFiniteSet(all) /\ Cardinality(all) <= MaxChildren
    BY <1>1, FS_Subset DEF AllChildren, WithinLimits
  <2>2. Children(b) = {c \in all : Cardinality({d \in all : d < c}) < MaxChildren}
    BY DEF Children
  <2> HIDE DEF all
  <2>3. Children(b) = all
    BY <1>2, <2>1, <2>2, ListTakesAll
  <2> QED
    BY <2>3 DEF all
<1>4. Frontier(b) = AllFrontier(b)
  <2> DEFINE all == AllFrontier(b)
  <2>1. all \subseteq Nat /\ IsFiniteSet(all) /\ Cardinality(all) <= MaxFrontier
    BY <1>1, FS_Subset DEF AllFrontier, WithinLimits
  <2>2. Frontier(b) = {c \in all : Cardinality({d \in all : d < c}) < MaxFrontier}
    BY DEF Frontier
  <2> HIDE DEF all
  <2>3. Frontier(b) = all
    BY <1>2, <2>1, <2>2, ListTakesAll
  <2> QED
    BY <2>3 DEF all
<1> QED
  BY <1>3, <1>4

(* Renaming comes to every block that can run. *)
LEMMA RenamedFacts ==
  ASSUME CodeInv, OrderInv, stack = <<>>, Exact, \A b \in Reachable : idom[b] # None, WithinLimits
  PROVE  Renamed = Reachable
<1> DEFINE step == [b \in Blocks |-> Children(b)]
           L == Len(rpo)
           Missed == {k \in 1 .. L : rpo[k] \notin Renamed}
<1>1. prog \in Programs /\ SearchInv /\ TreeInv(idom) /\ Reachable \subseteq Blocks /\ 1 \in Reachable
  BY ReachableFacts DEF CodeInv, Shape, OrderInv
<1>2. {1} \in SUBSET Blocks /\ step \in [Blocks -> SUBSET Blocks]
  BY <1>1, BlocksFacts DEF Children, AllChildren
<1>3. Renamed = Closure({1}, step)
  BY DEF Renamed
<1>4. \A b \in Blocks : step[b] = Children(b)
  OBVIOUS
<1> HIDE DEF step
<1>5. /\ Renamed \subseteq Blocks /\ 1 \in Renamed /\ \A b \in Renamed : Children(b) \subseteq Renamed
      /\ \A S : {1} \subseteq S /\ (\A b \in Blocks : b \in S => step[b] \subseteq S) => Renamed \subseteq S
  BY <1>1, <1>2, <1>3, <1>4, ClosureFacts
<1>6. Renamed \subseteq Reachable
  <2>1. ASSUME NEW b \in Blocks, NEW c \in Children(b) PROVE c \in Reachable
    <3>1. c \in Blocks /\ idom[c] = b /\ b # None
      BY <1>1, BlocksFacts DEF Children, AllChildren, None
    <3> QED
      BY <1>1, <3>1 DEF TreeInv
  <2>2. \A b \in Blocks : step[b] \subseteq Reachable
    BY <1>4, <2>1
  <2> QED
    BY <1>1, <1>5, <2>2
<1>7. ASSUME NEW b \in Reachable PROVE Children(b) = AllChildren(b)
  BY <1>1, <1>7, ListsComplete
<1>8. ASSUME Missed # {} PROVE FALSE
  <2>1. PICK k \in Missed : \A j \in Missed : k <= j
    <3>1. Missed \in SUBSET Nat
      OBVIOUS
    <3> HIDE DEF Missed
    <3> QED
      BY <1>8, <3>1, Least
  <2>2. k \in 1 .. L /\ rpo[k] \notin Renamed /\ rpo[k] \in Reachable /\ Position(rpo[k]) = k
    BY <1>1, <2>1, PositionFacts
  <2> DEFINE b == rpo[k]
             d == idom[b]
  <2>3. b # 1 /\ b \in OnTree(idom) \ {1}
    BY <1>5, <2>2 DEF OnTree
  <2>4. /\ d \in Reachable /\ d # b /\ Position(d) < Position(b)
        /\ Position(d) \in 1 .. L /\ rpo[Position(d)] = d
    <3>1. d \in OnTree(idom) /\ Position(d) < Position(b) /\ d # b
      BY <1>1, <2>2, <2>3 DEF TreeInv, Exact
    <3> QED
      BY <1>1, <3>1, PositionFacts DEF OnTree
  <2>5. d \in Renamed
    BY <2>1, <2>2, <2>4
  <2>6. b \in AllChildren(d)
    BY <1>1, <2>2, <2>4 DEF AllChildren
  <2> QED
    BY <1>5, <1>7, <2>2, <2>4, <2>5, <2>6
<1>9. Reachable \subseteq Renamed
  <2> SUFFICES ASSUME NEW b \in Reachable PROVE b \in Renamed
    OBVIOUS
  <2>1. Position(b) \in 1 .. L /\ rpo[Position(b)] = b
    BY <1>1, PositionFacts
  <2> QED
    BY <1>8, <2>1
<1> QED
  BY <1>6, <1>9

(* Where the tree is gone up through blocks that need no phi, the top of   *)
(* the stack stays what it is.                                             *)
LEMMA SameTop ==
  ASSUME CodeInv, OrderInv, Typed, stack = <<>>, \A b \in Reachable : idom[b] # None,
         NEW x, \A phi \in phis : phi.local = x => phi.block \in NeedPhi(x),
         NEW t \in Reachable, NEW m, m = idom[t], m \in Reachable,
         NEW p \in Reachable, Dominates(m, p), Runners(p, t) \cap NeedPhi(x) = {}
  PROVE  AtEnd(x)[p] = AtEnd(x)[m]
<1> DEFINE L == Len(rpo)
           Apart(b) == /\ Dominates(m, b) /\ Runners(b, t) \cap NeedPhi(x) = {}
                       /\ AtEnd(x)[b] # AtEnd(x)[m]
           Bad == {k \in 1 .. L : Apart(rpo[k])}
<1>1. prog \in Programs /\ SearchInv /\ TreeInv(idom) /\ Reachable \subseteq Blocks /\ 1 \in Reachable
  BY ReachableFacts DEF CodeInv, Shape, OrderInv
<1>2. ASSUME Bad # {} PROVE FALSE
  <2>1. PICK k \in Bad : \A j \in Bad : k <= j
    <3>1. Bad \in SUBSET Nat
      OBVIOUS
    <3> HIDE DEF Bad
    <3> QED
      BY <1>2, <3>1, Least
  <2> DEFINE b == rpo[k]
             d == idom[b]
  <2>2. k \in 1 .. L /\ Apart(b) /\ b \in Reachable /\ b \in Blocks /\ Position(b) = k /\ b # m
    BY <1>1, <2>1, PositionFacts
  <2> HIDE DEF b, Bad
  <2>3. b \in Runners(b, t) /\ Runners(d, t) \subseteq Runners(b, t)
    BY <1>1, <2>2, RunnersFacts DEF TreeInv
  <2>4. b \notin NeedPhi(x)
    BY <2>2, <2>3
  <2>5. b # 1 /\ Stores(b, x) = {} /\ \A phi \in phis : phi.block = b => phi.local # x
    BY <1>1, <2>2, <2>4, NeedPhiFacts
  <2>6. AtEnd(x)[b] = AtEnd(x)[d]
    <3>1. ~Settled(b, Len(code[b]) + 1, x)
      BY <2>2, <2>5 DEF Settled
    <3> QED
      BY <2>2, <3>1, AtEndFacts, AtPlaceFacts
  <2>7. b \in OnTree(idom) \ {1}
    BY <2>2, <2>5 DEF OnTree
  <2>8. d \in Reachable /\ Position(d) < k /\ Dominates(m, d)
    BY <1>1, <2>2, <2>7 DEF TreeInv, OnTree
  <2>9. Position(d) \in 1 .. L /\ rpo[Position(d)] = d
    BY <1>1, <2>8, PositionFacts
  <2>10. Apart(d)
    BY <2>2, <2>3, <2>6, <2>8
  <2>11. Position(d) \in Bad
    BY <2>9, <2>10 DEF Bad
  <2> QED
    BY <2>1, <2>2, <2>8, <2>9, <2>11
<1>3. Position(p) \in 1 .. L /\ rpo[Position(p)] = p
  BY <1>1, PositionFacts
<1> QED
  BY <1>2, <1>3

(* The frontiers of the frontiers are enough: behind every edge without a  *)
(* phi there is on top of the stack what was there before it.              *)
LEMMA PhisAreEnough ==
  ASSUME CodeInv, OrderInv, Typed, PhiInv
  PROVE  PhisSuffice
<1> SUFFICES ASSUME phase = "rename", WithinLimits PROVE PhisSuffice
  BY DEF PhisSuffice
<1>1. /\ prog \in Programs /\ SearchInv /\ TreeInv(idom) /\ Reachable \subseteq Blocks /\ 1 \in Reachable
      /\ stack = <<>> /\ Exact /\ \A b \in Reachable : idom[b] # None
  BY ReachableFacts DEF CodeInv, Shape, OrderInv
<1>2. Renamed = Reachable
  BY <1>1, RenamedFacts
<1>3. ASSUME NEW b \in Reachable, NEW t \in Succs(b), \A phi \in phis : phi.block = t => phi.local # Local
      PROVE  AtStart(t, Local, AtEnd(Local)) = AtEnd(Local)[b]
  <2> DEFINE m == idom[t]
  <2>1. t \in Reachable \ {1} /\ t \in Blocks /\ b \in Preds(t)
    BY <1>1, BlocksFacts, ReachableFacts DEF Preds
  <2>2. m \in Reachable /\ m # None /\ Dominates(m, b)
    <3>1. m # t /\ Dominates(m, t) /\ m \in Reachable
      BY <1>1, <2>1 DEF Exact, TreeInv, OnTree
    <3> QED
      BY <1>1, <2>1, <3>1, DominatesFacts
  <2>3. t \notin NeedPhi(Local)
    BY <1>3, <2>1 DEF PhiInv, Placed, WithinLimits
  <2>4. Runners(b, t) \cap NeedPhi(Local) = {}
    <3> SUFFICES ASSUME NEW r \in NeedPhi(Local), r \in Runners(b, t) PROVE FALSE
      OBVIOUS
    <3>1. t \in AllFrontier(r) /\ r \in Reachable
      BY <1>1, <2>1, NeedPhiFacts DEF AllFrontier
    <3>2. t \in Frontier(r)
      BY <1>1, <3>1, ListsComplete
    <3> QED
      BY <1>1, <2>3, <3>2, NeedPhiFacts
  <2>5. AtEnd(Local)[b] = AtEnd(Local)[m]
    <3>1. \A phi \in phis : phi.local = Local => phi.block \in NeedPhi(Local)
      BY DEF PhiInv, Placed
    <3> QED
      BY <1>1, <2>1, <2>2, <2>4, <3>1, SameTop
  <2>6. AtStart(t, Local, AtEnd(Local)) = AtEnd(Local)[m]
    <3>1. {phi \in phis : phi.block = t /\ phi.local = Local} = {}
      BY <1>3
    <3> QED
      BY <2>1, <2>2, <3>1 DEF AtStart
  <2> QED
    BY <2>5, <2>6
<1> QED
  BY <1>2, <1>3 DEF PhisSuffice

(* For every flow graph in which no block has more predecessors, children  *)
(* in the tree or blocks in its frontier than the arrays take              *)
(* (WithinLimits), the phis at the iterated dominance frontier are enough: *)
(* on no way into a block without one does renaming carry a value that is  *)
(* not the one the way brings.                                             *)
THEOREM PhisSufficient == Spec => []PhisSuffice
<1> DEFINE Inv == CodeInv /\ OrderInv /\ Typed
<1>1. Init => PhiInv
  BY InitPhi
<1>2. PhiInv /\ Inv /\ [Next]_vars => PhiInv'
  BY StepPhi
<1>3. PhiInv /\ Inv => PhisSuffice
  BY PhisAreEnough
<1>4. Spec => []Inv
  BY TypedAlways
<1> HIDE DEF Inv
<1> QED
  BY <1>1, <1>2, <1>3, <1>4, PTL DEF Spec
=============================================================================
