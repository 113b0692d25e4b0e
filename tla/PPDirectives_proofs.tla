------------------------ MODULE PPDirectives_proofs ------------------------
(***************************************************************************)
(* What TLAPS proves of the directive layer of the preprocessor.           *)
(*                                                                         *)
(* Of module PPConditional, for every nesting bound and every set of       *)
(* values an int can tell from zero: the three flags of every open group   *)
(* follow the directives read since it was opened.                         *)
(*                                                                         *)
(* Of module PPDirectives, for every set of names and bodies, every table  *)
(* size and every depth of inclusion: the tables keep their types, the     *)
(* tables of nested files agree, and together they implement one history   *)
(* of definitions.  Only the end of a header is difficult: the table is    *)
(* put together from the includer's entries and the header's flags, and    *)
(* that it is the header's table again is what TablesAgree says.  So the   *)
(* type invariant and TablesAgree are inductive together, and the          *)
(* refinement needs both.                                                  *)
(***************************************************************************)
EXTENDS PPDirectives, FiniteSetTheorems, TLAPS

-----------------------------------------------------------------------------
(* The groups of conditional lines. *)

(* The values for which storing the long long result in an int loses       *)
(* nothing that matters: no non-zero value becomes zero.                   *)
NoTruncationToZero == \A v \in Values : AsInt(v) = 0 <=> v = 0

(* Types, step by step: also used where the conditional lines are part of  *)
(* a larger program.                                                       *)
LEMMA TypeInit == Init => TypeOK
BY NestingAssumption DEF Init, TypeOK, Levels

LEMMA TypeStep == TypeOK /\ [Next]_vars => TypeOK'
<1> SUFFICES ASSUME TypeOK, [Next]_vars PROVE TypeOK'
  OBVIOUS
<1> USE NestingAssumption, ValuesAssumption DEF TypeOK, Levels
<1>1. ASSUME NEW s \in BOOLEAN, NEW h \in BOOLEAN, Open(s, h) PROVE TypeOK'
  <2>1. IsActive \in BOOLEAN
    BY DEF IsActive
  <2> QED BY <1>1, <2>1 DEF Open
<1>2. ASSUME NEW v \in Values, Elif(v) PROVE TypeOK'
  <2>1. /\ (v # 0) \in BOOLEAN
        /\ (AsInt(v) # 0) \in BOOLEAN
        /\ ParentActive \in BOOLEAN
    BY DEF ParentActive
  <2> QED BY <1>2, <2>1 DEF Elif, InGroup, Unsatisfied
<1>3. CASE Else
  <2>1. ParentActive \in BOOLEAN
    BY DEF ParentActive
  <2> QED BY <1>3, <2>1 DEF Else, InGroup, Unsatisfied
<1>4. CASE Endif
  BY <1>4 DEF Endif, InGroup
<1>5. CASE UNCHANGED vars
  BY <1>5 DEF vars
<1> QED BY <1>1, <1>2, <1>3, <1>4, <1>5 DEF Next, Ifdef, Ifndef, If

(* The flags, the depth and the history keep their types.                  *)
THEOREM TypeCorrect == Spec => []TypeOK
<1> QED BY TypeInit, TypeStep, PTL DEF Spec

(* GroupInv of a level speaks of entries up to that level only, so a step  *)
(* that changes entries above it leaves it true.                           *)
LEMMA GroupInvFrame ==
  ASSUME NEW d \in Nat \ {0}, GroupInv(d),
         cond_stack'[d] = cond_stack[d],
         cond_satisfied'[d] = cond_satisfied[d],
         \A i \in 1 .. d : branches'[i] = branches[i]
  PROVE  GroupInv(d)'
<1>1. \A e \in 1 .. d : Selected(branches'[e]) <=> Selected(branches[e])
  OBVIOUS
<1>2. /\ (\A e \in 1 .. d : Selected(branches'[e])) <=> AllSelected(d)
      /\ (\A e \in 1 .. d - 1 : Selected(branches'[e])) <=> AllSelected(d - 1)
  BY <1>1 DEF AllSelected
<1>3. branches'[d] = branches[d]
  OBVIOUS
<1> QED BY <1>2, <1>3 DEF GroupInv, AllSelected, Selected

(* The two questions the code asks of cond_stack, answered by the history. *)
LEMMA ActiveByHistory ==
  ASSUME IInv
  PROVE  /\ IsActive <=> AllSelected(cond_depth)
         /\ cond_depth > 0 => (ParentActive <=> AllSelected(cond_depth - 1))
<1> USE NestingAssumption DEF IInv, TypeOK, Levels
<1>1. ASSUME NEW d \in 0 .. cond_depth
      PROVE  (\A i \in 0 .. d : cond_stack[i]) <=> AllSelected(d)
  <2>1. \A i \in 1 .. d : cond_stack[i] <=> AllSelected(i)
    BY DEF GroupInv
  <2>2. ASSUME NEW i \in 1 .. d, AllSelected(d) PROVE AllSelected(i)
    BY <2>2 DEF AllSelected
  <2>3. CASE d = 0
    BY <2>3 DEF AllSelected
  <2>4. CASE d > 0
    <3>1. AllSelected(d) => \A i \in 0 .. d : cond_stack[i]
      <4> SUFFICES ASSUME AllSelected(d), NEW i \in 0 .. d PROVE cond_stack[i]
        OBVIOUS
      <4>1. CASE i = 0
        BY <4>1
      <4>2. CASE i \in 1 .. d
        BY <4>2, <2>1, <2>2
      <4> QED BY <4>1, <4>2
    <3>2. cond_stack[d] => AllSelected(d)
      BY <2>1, <2>4
    <3> QED BY <3>1, <3>2
  <2> QED BY <2>3, <2>4
<1>2. cond_depth \in 0 .. cond_depth /\ (cond_depth > 0 => cond_depth - 1 \in 0 .. cond_depth)
  OBVIOUS
<1>3. (\A i \in 0 .. cond_depth : cond_stack[i]) <=> AllSelected(cond_depth)
  BY <1>1, <1>2
<1>4. ASSUME cond_depth > 0
      PROVE  (\A i \in 0 .. cond_depth - 1 : cond_stack[i]) <=> AllSelected(cond_depth - 1)
  BY <1>1, <1>2, <1>4
<1> QED BY <1>3, <1>4 DEF IsActive, ParentActive

LEMMA OpenPreserves ==
  ASSUME IInv, NEW s \in BOOLEAN, Open(s, s),
         NEW d \in 1 .. cond_depth'
  PROVE  GroupInv(d)'
<1> USE NestingAssumption DEF IInv, TypeOK, Levels
<1>1. /\ cond_depth' = cond_depth + 1
      /\ cond_depth + 1 \in Levels
      /\ \A i \in 0 .. cond_depth : /\ cond_stack'[i] = cond_stack[i]
                                    /\ cond_satisfied'[i] = cond_satisfied[i]
                                    /\ branches'[i] = branches[i]
  BY DEF Open
<1>2. CASE d \in 1 .. cond_depth
  BY <1>1, <1>2, GroupInvFrame
<1>3. CASE d = cond_depth + 1
  <2>1. /\ cond_stack'[d] <=> (IsActive /\ s)
        /\ cond_satisfied'[d] <=> (IsActive /\ s)
        /\ branches'[d] = <<s>>
    BY <1>1, <1>3 DEF Open
  <2>2. (Selected(<<s>>) <=> s) /\ ((\E i \in 1 .. Len(<<s>>) : <<s>>[i]) <=> s)
    BY DEF Selected
  <2>3. (\A e \in 1 .. d - 1 : Selected(branches'[e])) <=> IsActive
    BY <1>1, <1>3, ActiveByHistory DEF AllSelected
  <2>4. (\A e \in 1 .. d : Selected(branches'[e]))
          <=> (\A e \in 1 .. d - 1 : Selected(branches'[e])) /\ Selected(branches'[d])
    OBVIOUS
  <2> QED BY <2>1, <2>2, <2>3, <2>4 DEF GroupInv, AllSelected, Selected
<1> QED BY <1>1, <1>2, <1>3

(* #elif and #else: the group gets one more branch b, and is selected now  *)
(* when its surroundings are active, no branch was selected and b holds.   *)
LEMMA BranchPreserves ==
  ASSUME IInv, cond_depth > 0, NEW b \in BOOLEAN,
         cond_depth' = cond_depth,
         cond_stack' = [cond_stack EXCEPT ![cond_depth] =
                          ~cond_satisfied[cond_depth] /\ ParentActive /\ b],
         cond_satisfied' = [cond_satisfied EXCEPT ![cond_depth] =
                          @ \/ (~cond_satisfied[cond_depth] /\ ParentActive /\ b)],
         branches' = [branches EXCEPT ![cond_depth] = Append(@, b)],
         NEW d \in 1 .. cond_depth'
  PROVE  GroupInv(d)'
<1> USE NestingAssumption DEF IInv, TypeOK, Levels
<1>1. d \in 1 .. cond_depth /\ GroupInv(d)
  OBVIOUS
<1>2. CASE d < cond_depth
  BY <1>1, <1>2, GroupInvFrame
<1>3. CASE d = cond_depth
  <2>1. PICK B \in Seq(BOOLEAN) : B = branches[d] /\ B # <<>>
    BY <1>1 DEF GroupInv
  <2>2. branches'[d] = Append(B, b)
    BY <1>3, <2>1
  <2>3. /\ Append(B, b) # <<>>
        /\ Selected(Append(B, b)) <=> b /\ ~\E i \in 1 .. Len(B) : B[i]
        /\ (\E i \in 1 .. Len(Append(B, b)) : Append(B, b)[i])
              <=> b \/ \E i \in 1 .. Len(B) : B[i]
    BY DEF Selected
  <2>4. /\ cond_stack'[d] <=> (~cond_satisfied[d] /\ ParentActive /\ b)
        /\ cond_satisfied'[d] <=> (cond_satisfied[d] \/ (ParentActive /\ b))
    BY <1>3
  <2>5. ParentActive <=> AllSelected(d - 1)
    BY <1>3, ActiveByHistory
  <2>6. cond_satisfied[d] <=> AllSelected(d - 1) /\ \E i \in 1 .. Len(B) : B[i]
    BY <1>1, <2>1 DEF GroupInv
  <2>7. (\A e \in 1 .. d - 1 : Selected(branches'[e])) <=> AllSelected(d - 1)
    BY <1>3 DEF AllSelected
  <2>8. (\A e \in 1 .. d : Selected(branches'[e]))
          <=> (\A e \in 1 .. d - 1 : Selected(branches'[e])) /\ Selected(branches'[d])
    BY <1>1
  <2>9. /\ cond_stack'[d] <=> \A e \in 1 .. d : Selected(branches'[e])
        /\ cond_satisfied'[d] <=>
             /\ \A e \in 1 .. d - 1 : Selected(branches'[e])
             /\ \E i \in 1 .. Len(branches'[d]) : branches'[d][i]
    BY <2>2, <2>3, <2>4, <2>5, <2>6, <2>7, <2>8
  <2> QED BY <2>2, <2>3, <2>9 DEF GroupInv, AllSelected, Selected
<1> QED BY <1>1, <1>2, <1>3

(* While no condition is truncated to zero, the flags of every open group  *)
(* agree with the branches met in it and around it: the strengthening of   *)
(* ActiveIffSelected that every directive preserves.                       *)
THEOREM FlagsFollowBranches ==
  ASSUME NoTruncationToZero PROVE Spec => []IInv
<1>1. Init => IInv
  BY NestingAssumption DEF Init, IInv, TypeOK, Levels
<1>2. TypeOK' /\ IInv /\ [Next]_vars => IInv'
  <2> SUFFICES ASSUME TypeOK', IInv, [Next]_vars PROVE IInv'
    OBVIOUS
  <2>1. cond_stack'[0]
    <3> USE NestingAssumption DEF IInv, TypeOK, Levels
    <3>1. ASSUME NEW s, NEW h, Open(s, h) PROVE cond_stack'[0]
      BY <3>1 DEF Open
    <3>2. ASSUME NEW v, Elif(v) PROVE cond_stack'[0]
      BY <3>2 DEF Elif, InGroup, Unsatisfied
    <3>3. CASE Else
      BY <3>3 DEF Else, InGroup, Unsatisfied
    <3>5. CASE Endif
      BY <3>5 DEF Endif, InGroup
    <3>4. CASE UNCHANGED vars
      BY <3>4 DEF vars
    <3> QED BY <3>1, <3>2, <3>3, <3>4, <3>5 DEF Next, Ifdef, Ifndef, If
  <2>2. ASSUME NEW d \in 1 .. cond_depth' PROVE GroupInv(d)'
    <3>1. ASSUME NEW s \in BOOLEAN, Ifdef(s) \/ Ifndef(s) PROVE GroupInv(d)'
      BY <3>1, OpenPreserves DEF Ifdef, Ifndef
    <3>2. ASSUME NEW v \in Values, If(v) PROVE GroupInv(d)'
      <4> DEFINE b == v # 0
      <4>1. b \in BOOLEAN /\ (AsInt(v) # 0) = b
        BY DEF NoTruncationToZero
      <4>2. Open(b, b)
        BY <3>2, <4>1 DEF If
      <4> HIDE DEF b
      <4> QED BY <4>1, <4>2, OpenPreserves
    <3>3. ASSUME NEW v \in Values, Elif(v) PROVE GroupInv(d)'
      <4> DEFINE b == v # 0
      <4>1. b \in BOOLEAN /\ (AsInt(v) # 0) = b
        BY DEF NoTruncationToZero
      <4>2. /\ cond_depth > 0
            /\ cond_depth' = cond_depth
            /\ cond_stack' = [cond_stack EXCEPT ![cond_depth] =
                          ~cond_satisfied[cond_depth] /\ ParentActive /\ b]
            /\ cond_satisfied' = [cond_satisfied EXCEPT ![cond_depth] =
                          @ \/ (~cond_satisfied[cond_depth] /\ ParentActive /\ b)]
            /\ branches' = [branches EXCEPT ![cond_depth] = Append(@, b)]
        BY <3>3, <4>1 DEF Elif, InGroup, Unsatisfied
      <4> HIDE DEF b
      <4> QED BY <4>1, <4>2, BranchPreserves
    <3>4. CASE Else
      <4>1. (ParentActive /\ ~cond_satisfied[cond_depth])
              = (~cond_satisfied[cond_depth] /\ ParentActive /\ TRUE)
        OBVIOUS
      <4>2. /\ cond_depth > 0
            /\ cond_depth' = cond_depth
            /\ cond_stack' = [cond_stack EXCEPT ![cond_depth] =
                          ~cond_satisfied[cond_depth] /\ ParentActive /\ TRUE]
            /\ cond_satisfied' = [cond_satisfied EXCEPT ![cond_depth] =
                          @ \/ (~cond_satisfied[cond_depth] /\ ParentActive /\ TRUE)]
            /\ branches' = [branches EXCEPT ![cond_depth] = Append(@, TRUE)]
        BY <3>4, <4>1 DEF Else, InGroup, Unsatisfied
      <4> QED BY <4>2, BranchPreserves
    <3>5. CASE Endif
      <4>1. /\ d \in 1 .. cond_depth /\ d # cond_depth
            /\ cond_depth \in Levels
            /\ cond_stack' = cond_stack
            /\ cond_satisfied'[d] = cond_satisfied[d]
            /\ \A i \in 1 .. d : branches'[i] = branches[i]
        <5> USE NestingAssumption DEF IInv, TypeOK, Levels
        <5>1. cond_depth' = cond_depth - 1 /\ cond_depth > 0 /\ cond_depth \in Levels
          BY <3>5 DEF Endif, InGroup
        <5>2. d \in 1 .. cond_depth /\ d # cond_depth
          BY <5>1
        <5>3. cond_stack' = cond_stack
          BY <3>5 DEF Endif, InGroup
        <5>4. cond_satisfied'[d] = cond_satisfied[d]
          BY <3>5, <5>1, <5>2 DEF Endif, InGroup
        <5>5. \A i \in 1 .. d : branches'[i] = branches[i]
          BY <3>5, <5>1, <5>2 DEF Endif, InGroup
        <5> QED BY <5>1, <5>2, <5>3, <5>4, <5>5
      <4>2. GroupInv(d)
        BY <4>1 DEF IInv
      <4> QED BY <4>1, <4>2, GroupInvFrame
    <3>6. CASE UNCHANGED vars
      BY <3>6, GroupInvFrame DEF IInv, vars
    <3> QED BY <3>1, <3>2, <3>3, <3>4, <3>5, <3>6 DEF Next
  <2> QED BY <2>1, <2>2 DEF IInv
<1> QED BY <1>1, <1>2, TypeCorrect, PTL DEF Spec

(* Text is processed exactly when it stands in the first true branch of    *)
(* every open group, for every nesting bound.                              *)
THEOREM TextFollowsConditions ==
  ASSUME NoTruncationToZero PROVE Spec => []ActiveIffSelected
<1>1. IInv => ActiveIffSelected
  BY ActiveByHistory DEF ActiveIffSelected
<1> QED BY <1>1, FlagsFollowBranches, PTL

-----------------------------------------------------------------------------
(* The macro tables. *)

Waiting ==
  [macros : Seq(Entry), cond_stack : [Levels -> BOOLEAN], cond_satisfied : [Levels -> BOOLEAN],
   cond_else_seen : [Levels -> BOOLEAN], cond_depth : Levels, branches : [Levels -> Seq(BOOLEAN)]]

TableInv ==
  /\ TypeOK
  /\ TableTypeOK
  /\ includers \in Seq(Waiting)
  /\ TablesAgree

-----------------------------------------------------------------------------
(* A set of positions of a list has a last member.                         *)
LEMMA Greatest ==
  ASSUME NEW L \in Nat, NEW E \in SUBSET (1 .. L), E # {}
  PROVE  \E k \in E : \A j \in E : j <= k
<1> DEFINE R == OpToRel(<, Nat)
           M == {k \in Nat : L - k \in E}
<1>1. PICK i \in E : TRUE
  OBVIOUS
<1>2. L - i \in M
  OBVIOUS
<1>3. PICK m \in M : \A k \in M : <<k, m>> \notin R
  <2> HIDE DEF M
  <2>1. M \subseteq Nat /\ M # {}
    BY <1>2 DEF M
  <2> HIDE DEF R
  <2>2. IsWellFoundedOn(R, Nat)
    BY NatLessThanWellFounded DEF R
  <2> QED BY <2>1, <2>2, WFMin
<1>4. \A k \in M : ~(k < m)
  BY <1>3 DEF OpToRel
<1>5. L - m \in E
  OBVIOUS
<1>6. ASSUME NEW j \in E PROVE j <= L - m
  <2>1. L - j \in M /\ L - j \in Nat /\ m \in Nat
    OBVIOUS
  <2>2. ~(L - j < m)
    BY <1>4, <2>1
  <2> QED BY <2>1, <2>2
<1> QED BY <1>5, <1>6

(* The search gives the last active entry of the name, if there is one.    *)
LEMMA FindMacroFacts ==
  ASSUME macros \in Seq(Entry), NEW n
  PROVE  /\ Entries(n) = {} => FindMacro(n) = 0
         /\ Entries(n) # {} => /\ FindMacro(n) \in Entries(n)
                               /\ \A j \in Entries(n) : j <= FindMacro(n)
<1>1. CASE Entries(n) = {}
  BY <1>1 DEF FindMacro
<1>2. CASE Entries(n) # {}
  <2>1. Len(macros) \in Nat /\ Entries(n) \subseteq 1 .. Len(macros)
    BY DEF Entries
  <2>2. \E k \in Entries(n) : \A j \in Entries(n) : j <= k
    BY <1>2, <2>1, Greatest
  <2> QED BY <1>2, <2>2 DEF FindMacro
<1> QED BY <1>1, <1>2

LEMMA LookupTypes ==
  ASSUME TableTypeOK, NEW n \in Names
  PROVE  /\ ValueOf(n) \in Values
         /\ BodyOf(n) \in Bodies \cup {NoBody}
<1>1. macros \in Seq(Entry)
  BY DEF TableTypeOK
<1>2. CASE Entries(n) = {}
  BY <1>1, <1>2, FindMacroFacts, BodiesAssumption DEF ValueOf, BodyOf
<1>3. CASE Entries(n) # {}
  <2>1. FindMacro(n) \in DOMAIN macros
    BY <1>1, <1>3, FindMacroFacts DEF Entries
  <2>2. macros[FindMacro(n)] \in Entry
    BY <1>1, <2>1
  <2>3. FindMacro(n) # 0
    BY <1>1, <2>1
  <2> QED BY <2>2, <2>3, BodiesAssumption DEF ValueOf, BodyOf, Entry
<1> QED BY <1>2, <1>3

(* A conditional line is a step of PPConditional and leaves the tables.    *)
LEMMA ConditionalStep ==
  ASSUME TableInv, ConditionalLine
  PROVE  /\ Next
         /\ UNCHANGED <<macros, includers, crashed>>
         /\ answer' = answer \/ \E n \in Names : answer' = BodyOf(n)
<1>1. \A n \in Names : ValueOf(n) \in Values
  BY LookupTypes DEF TableInv
<1>2. CASE ElseOrEndifLine
  BY <1>2 DEF ElseOrEndifLine, tableVars, Next
<1>3. ASSUME NEW n \in Names, IfdefLine(n)
      PROVE  Next /\ UNCHANGED <<macros, includers, crashed>> /\ answer' = BodyOf(n)
  BY <1>3 DEF IfdefLine, Next
<1>4. ASSUME NEW n \in Names, IfLine(n)
      PROVE  /\ Next /\ UNCHANGED <<macros, includers, crashed>>
             /\ answer' = answer \/ answer' = BodyOf(n)
  BY <1>1, <1>4 DEF IfLine, Next
<1>5. ASSUME NEW n \in Names, ElifLine(n)
      PROVE  /\ Next /\ UNCHANGED <<macros, includers, crashed>>
             /\ answer' = answer \/ answer' = BodyOf(n)
  BY <1>1, <1>5 DEF ElifLine, Next
<1> QED BY <1>2, <1>3, <1>4, <1>5 DEF ConditionalLine

-----------------------------------------------------------------------------
(* The table that the end of a header puts together is the header's.       *)
LEMMA HeaderTableStays ==
  ASSUME TableInv, EndOfHeader PROVE macros' = macros
<1> DEFINE L == Len(macros)
<1>1. includers # <<>> /\ includers \in Seq(Waiting) /\ macros \in Seq(Entry) /\ L <= MaxMacros
  BY DEF EndOfHeader, TableInv, TableTypeOK
<1>2. Len(includers) \in DOMAIN includers
  BY <1>1
<1>3. /\ Len(Own) <= L
      /\ \A i \in DOMAIN Own : Own[i].name = macros[i].name /\ Own[i].body = macros[i].body
      /\ Own \in Seq(Entry)
  <2>1. Own = includers[Len(includers)].macros
    BY DEF Own, Suspended
  <2>2. includers[Len(includers)] \in Waiting
    BY <1>1, <1>2
  <2>3. Own \in Seq(Entry)
    BY <2>1, <2>2 DEF Waiting
  <2> QED BY <1>2, <2>1, <2>3 DEF TableInv, TablesAgree
<1>4. Copied = L
  BY <1>1, LimitsAssumption DEF Copied
<1>5. macros = [i \in 1 .. L |-> macros[i]]
  BY <1>1
<1>6. ASSUME NEW i \in 1 .. L
      PROVE  [(IF i <= Len(Own) THEN Own[i] ELSE macros[i]) EXCEPT !.active = macros[i].active] = macros[i]
  <2>1. macros[i] \in Entry
    BY <1>1
  <2>2. CASE i <= Len(Own)
    <3>1. i \in DOMAIN Own
      BY <1>3, <2>2
    <3>2. Own[i] \in Entry /\ Own[i].name = macros[i].name /\ Own[i].body = macros[i].body
      BY <1>3, <3>1
    <3> QED BY <2>1, <2>2, <3>2 DEF Entry
  <2>3. CASE ~(i <= Len(Own))
    BY <2>1, <2>3 DEF Entry
  <2> QED BY <2>2, <2>3
<1>7. CopiedBack = [i \in 1 .. L |-> macros[i]]
  BY <1>4, <1>6 DEF CopiedBack
<1> QED BY <1>5, <1>7 DEF EndOfHeader

-----------------------------------------------------------------------------
(* The invariant, action by action.                                        *)
LEMMA InitInv == FileInit => TableInv
<1> SUFFICES ASSUME FileInit PROVE TableInv
  OBVIOUS
<1>1. TypeOK
  BY TypeInit DEF FileInit
<1>2. macros = <<>> /\ includers = <<>> /\ answer = NoBody /\ crashed = FALSE
  BY DEF FileInit
<1>3. macros \in Seq(Entry) /\ Len(macros) = 0 /\ includers \in Seq(Waiting) /\ Len(includers) = 0
  BY <1>2
<1>4. ASSUME NEW k \in DOMAIN includers PROVE FALSE
  <2>1. DOMAIN includers = 1 .. Len(includers) /\ Len(includers) = 0
    BY <1>2, <1>3
  <2> QED BY <2>1
<1>5. TableTypeOK
  <2>1. Len(macros) <= MaxMacros /\ answer \in Bodies \cup {NoBody}
    BY <1>2, <1>3, LimitsAssumption
  <2>2. crashed \in BOOLEAN /\ ~crashed
    BY <1>2
  <2>3. \A k \in DOMAIN includers : includers[k].macros \in Seq(Entry)
    BY <1>4
  <2> QED BY <1>3, <2>1, <2>2, <2>3 DEF TableTypeOK
<1>6. TablesAgree
  BY <1>4 DEF TablesAgree
<1> QED BY <1>1, <1>3, <1>5, <1>6 DEF TableInv

(* Lines that keep every entry's name and body.                            *)
LEMMA TableLineStep == ASSUME TableInv, ~crashed, TableLine PROVE TableInv'
<1>1. UNCHANGED <<groups, includers, answer, crashed>>
  BY DEF TableLine, Undef, Define, groups, vars
<1>2. TypeOK'
  BY <1>1, TypeStep DEF TableInv, groups
<1> DEFINE Kept ==
      /\ macros' \in Seq(Entry) /\ Len(macros') <= MaxMacros
      /\ Len(macros) <= Len(macros')
      /\ \A i \in 1 .. Len(macros) : /\ macros'[i].name = macros[i].name
                                     /\ macros'[i].body = macros[i].body
<1>3. Kept
  <2>1. macros \in Seq(Entry) /\ Len(macros) <= MaxMacros /\ Len(macros) \in Nat
    BY DEF TableInv, TableTypeOK
  <2>2. ASSUME NEW n \in Names, NEW b \in Bodies, Define(n, b)
        PROVE  Kept
    <3>1. [name |-> n, body |-> b, active |-> TRUE] \in Entry
      BY DEF Entry
    <3>2. Len(macros) < MaxMacros
      BY <2>2 DEF Define
    <3>3. macros' = Append(macros, [name |-> n, body |-> b, active |-> TRUE])
      BY <2>2 DEF Define
    <3> QED BY <2>1, <3>1, <3>2, <3>3, LimitsAssumption
  <2>3. ASSUME NEW n \in Names, Undef(n)
        PROVE  Kept
    <3>1. macros' = [i \in 1 .. Len(macros) |->
                       [macros[i] EXCEPT !.active = @ /\ i # FindMacro(n)]]
      BY <2>1, <2>3 DEF Undef
    <3>2. \A i \in 1 .. Len(macros) :
             /\ macros'[i] \in Entry
             /\ macros'[i].name = macros[i].name /\ macros'[i].body = macros[i].body
      <4>1. ASSUME NEW i \in 1 .. Len(macros)
            PROVE  /\ macros'[i] \in Entry
                   /\ macros'[i].name = macros[i].name /\ macros'[i].body = macros[i].body
        <5>1. macros[i] \in Entry
          BY <2>1
        <5>2. macros'[i] = [macros[i] EXCEPT !.active = macros[i].active /\ i # FindMacro(n)]
          BY <3>1
        <5>3. (macros[i].active /\ i # FindMacro(n)) \in BOOLEAN
          OBVIOUS
        <5> QED BY <5>1, <5>2, <5>3 DEF Entry
      <4> QED BY <4>1
    <3>3. macros' \in [1 .. Len(macros) -> Entry]
      BY <3>1, <3>2
    <3>4. macros' \in Seq(Entry) /\ Len(macros') = Len(macros)
      BY <2>1, <3>3
    <3> QED BY <2>1, <3>2, <3>4
  <2> QED BY <2>2, <2>3 DEF TableLine
<1>4. TablesAgree'
  <2>1. ASSUME NEW k \in DOMAIN includers, NEW i \in DOMAIN includers[k].macros
        PROVE  /\ i \in 1 .. Len(macros)
               /\ includers[k].macros[i].name = macros[i].name
               /\ includers[k].macros[i].body = macros[i].body
    <3>1. Len(includers[k].macros) <= Len(macros) /\ includers[k].macros \in Seq(Entry)
      BY DEF TableInv, TablesAgree, TableTypeOK
    <3>2. Len(macros) \in Nat
      BY DEF TableInv, TableTypeOK
    <3> QED BY <3>1, <3>2 DEF TableInv, TablesAgree
  <2>2. \A k \in DOMAIN includers : Len(includers[k].macros) <= Len(macros')
    <3>1. \A k \in DOMAIN includers : Len(includers[k].macros) <= Len(macros)
                                      /\ Len(includers[k].macros) \in Nat
      BY DEF TableInv, TablesAgree, TableTypeOK
    <3>2. Len(macros) \in Nat /\ Len(macros') \in Nat
      BY <1>3 DEF TableInv, TableTypeOK
    <3> QED BY <1>3, <3>1, <3>2
  <2> QED BY <1>1, <1>3, <2>1, <2>2 DEF TablesAgree
<1> QED BY <1>1, <1>2, <1>3, <1>4 DEF TableInv, TableTypeOK

LEMMA ConditionalInv == ASSUME TableInv, ConditionalLine PROVE TableInv'
<1>1. Next /\ UNCHANGED <<macros, includers, crashed>>
  BY ConditionalStep
<1>2. TypeOK'
  BY <1>1, TypeStep DEF TableInv
<1>3. answer' \in Bodies \cup {NoBody}
  BY ConditionalStep, LookupTypes DEF TableInv, TableTypeOK
<1> QED BY <1>1, <1>2, <1>3 DEF TableInv, TableTypeOK, TablesAgree

LEMMA IncludeInv == ASSUME TableInv, Include PROVE TableInv'
<1> DEFINE w == [macros |-> macros, cond_stack |-> cond_stack, cond_satisfied |-> cond_satisfied,
                 cond_else_seen |-> cond_else_seen, cond_depth |-> cond_depth, branches |-> branches]
<1>1. includers' = Append(includers, w) /\ UNCHANGED <<macros, answer, crashed>>
  BY DEF Include
<1>2. TypeOK'
  BY NestingAssumption DEF Include, TypeOK, Levels
<1>3. w \in Waiting
  BY DEF Waiting, TableInv, TypeOK, TableTypeOK
<1>4. includers' \in Seq(Waiting)
  BY <1>1, <1>3 DEF TableInv
<1>5. \A k \in DOMAIN includers' :
         \/ k \in DOMAIN includers /\ includers'[k] = includers[k]
         \/ includers'[k] = w
  BY <1>1, <1>3 DEF TableInv
<1>6. w.macros = macros /\ macros \in Seq(Entry)
  BY DEF TableInv, TableTypeOK
<1>7. \A k \in DOMAIN includers' : includers'[k].macros \in Seq(Entry)
  BY <1>5, <1>6 DEF TableInv, TableTypeOK
<1>8. TablesAgree'
  BY <1>1, <1>5, <1>6 DEF TableInv, TablesAgree
<1> QED BY <1>1, <1>2, <1>4, <1>7, <1>8 DEF TableInv, TableTypeOK

LEMMA HeaderInv == ASSUME TableInv, EndOfHeader PROVE TableInv'
<1>1. macros' = macros /\ UNCHANGED <<answer, crashed>>
  BY HeaderTableStays DEF EndOfHeader
<1>2. /\ includers # <<>> /\ includers \in Seq(Waiting)
      /\ includers' = SubSeq(includers, 1, Len(includers) - 1)
  BY DEF EndOfHeader, TableInv
<1>3. Suspended \in Waiting
  BY <1>2 DEF Suspended
<1>4. TypeOK'
  BY <1>3 DEF EndOfHeader, Waiting, TypeOK
<1>5. /\ includers' \in Seq(Waiting)
      /\ \A k \in DOMAIN includers' : k \in DOMAIN includers /\ includers'[k] = includers[k]
  BY <1>2
<1> QED BY <1>1, <1>4, <1>5 DEF TableInv, TableTypeOK, TablesAgree

LEMMA StepInv == TableInv /\ [FileNext]_<<groups, tableVars>> => TableInv'
<1> SUFFICES ASSUME TableInv, [FileNext]_<<groups, tableVars>> PROVE TableInv'
  OBVIOUS
<1>1. CASE DefineInFullTable
  <2>1. /\ UNCHANGED <<groups, macros, includers, answer>>
        /\ crashed' \in BOOLEAN
        /\ Len(macros) = MaxMacros
    BY <1>1 DEF DefineInFullTable
  <2>2. TypeOK'
    BY <2>1, TypeStep DEF TableInv, groups
  <2> QED BY <2>1, <2>2 DEF TableInv, TableTypeOK, TablesAgree
<1>2. CASE UNCHANGED <<groups, tableVars>>
  <2>1. TypeOK'
    BY <1>2, TypeStep DEF TableInv, groups
  <2> QED BY <1>2, <2>1 DEF TableInv, TableTypeOK, TablesAgree, tableVars
<1> QED BY <1>1, <1>2, TableLineStep, ConditionalInv, IncludeInv, HeaderInv DEF FileNext, ReadLine

LEMMA Invariant == FileSpec => []TableInv
<1> QED BY InitInv, StepInv, PTL DEF FileSpec

(* Tables, answers and the tables of waiting files keep their types, the   *)
(* table never outgrows its array, and a null entry is used only when the  *)
(* array is full.                                                          *)
THEOREM TablesTyped == FileSpec => []TableTypeOK
<1>1. TableInv => TableTypeOK
  BY DEF TableInv
<1> QED BY <1>1, Invariant, PTL

(* Index i is the same entry in the tables of all open files.              *)
THEOREM TablesStayAligned == FileSpec => []TablesAgree
<1>1. TableInv => TablesAgree
  BY DEF TableInv
<1> QED BY <1>1, Invariant, PTL

-----------------------------------------------------------------------------
(* The definitions in force of a name are its active entries.              *)
LEMMA InForceOf ==
  ASSUME macros \in Seq(Entry), NEW n
  PROVE  Definitions!Of(n) = {Definition(i) : i \in Entries(n)}
<1>1. Definitions!Of(n) = {d \in InForce : d.name = n}
  BY DEF Definitions!Of
<1>2. ASSUME NEW i \in DOMAIN macros PROVE Definition(i).name = macros[i].name
  BY DEF Definition
<1> QED BY <1>1, <1>2 DEF InForce, Entries

(* The latest of them is the one that the search finds.                    *)
LEMMA LatestFound ==
  ASSUME macros \in Seq(Entry), NEW n
  PROVE  Definitions!Latest(n) =
           IF Entries(n) = {} THEN {} ELSE {Definition(FindMacro(n))}
<1>1. Definitions!Latest(n) = {d \in Definitions!Of(n) : \A e \in Definitions!Of(n) : e.at <= d.at}
  BY DEF Definitions!Latest
<1>2. CASE Entries(n) = {}
  BY <1>1, <1>2, InForceOf
<1>3. CASE Entries(n) # {}
  <2>1. FindMacro(n) \in Entries(n) /\ \A j \in Entries(n) : j <= FindMacro(n)
    BY <1>3, FindMacroFacts
  <2>2. \A i \in Entries(n) : i \in Nat /\ Definition(i).at = i
    BY DEF Definition, Entries
  <2>3. ASSUME NEW i \in Entries(n), \A j \in Entries(n) : j <= i PROVE i = FindMacro(n)
    BY <2>1, <2>2, <2>3
  <2>4. \A d : d \in Definitions!Latest(n) <=>
               \E i \in Entries(n) : d = Definition(i) /\ \A j \in Entries(n) : j <= i
    BY <1>1, <2>2, InForceOf
  <2> QED BY <1>3, <2>1, <2>3, <2>4
<1> QED BY <1>2, <1>3

LEMMA DefineImplements ==
  ASSUME TableInv, NEW n \in Names, NEW b \in Bodies, Define(n, b)
  PROVE  Definitions!Define(n, b)
<1> DEFINE e == [name |-> n, body |-> b, active |-> TRUE]
<1>1. macros \in Seq(Entry) /\ e \in Entry /\ Len(macros) \in Nat
  BY DEF TableInv, TableTypeOK, Entry
<1>2. PICK L \in Nat : L = Len(macros)
  BY <1>1
<1>3. /\ Len(macros') = L + 1 /\ DOMAIN macros' = 1 .. L + 1 /\ DOMAIN macros = 1 .. L
      /\ macros'[L + 1] = e
      /\ \A i \in 1 .. L : macros'[i] = macros[i]
      /\ UNCHANGED answer
  BY <1>1, <1>2 DEF Define
<1>4. \A i \in 1 .. L : Definition(i)' = Definition(i)
  BY <1>3 DEF Definition
<1>5. Definition(L + 1)' = [name |-> n, body |-> b, at |-> L + 1]
  BY <1>3 DEF Definition
<1>6. InForce' = InForce \cup {[name |-> n, body |-> b, at |-> L + 1]}
  <2>1. \A d : d \in InForce' <=> \E i \in 1 .. L + 1 : macros'[i].active /\ d = Definition(i)'
    BY <1>3 DEF InForce
  <2>2. \A d : d \in InForce <=> \E i \in 1 .. L : macros[i].active /\ d = Definition(i)
    BY <1>3 DEF InForce
  <2>3. \A i \in 1 .. L + 1 : i \in 1 .. L \/ i = L + 1
    OBVIOUS
  <2>4. L + 1 \in 1 .. L + 1 /\ \A i \in 1 .. L : i \in 1 .. L + 1
    OBVIOUS
  <2>5. macros'[L + 1].active = TRUE
    BY <1>3
  <2> QED BY <1>3, <1>4, <1>5, <2>1, <2>2, <2>3, <2>4, <2>5
<1> QED BY <1>2, <1>3, <1>6 DEF Definitions!Define

LEMMA UndefImplements ==
  ASSUME TableInv, NEW n \in Names, Undef(n)
  PROVE  Definitions!Undef(n)
<1> DEFINE L == Len(macros)
           k == FindMacro(n)
<1>1. macros \in Seq(Entry) /\ L \in Nat /\ DOMAIN macros = 1 .. L
  BY DEF TableInv, TableTypeOK
<1>2. /\ macros' = [i \in 1 .. L |-> [macros[i] EXCEPT !.active = @ /\ i # k]]
      /\ UNCHANGED answer
  BY <1>1 DEF Undef
<1>3. DOMAIN macros' = 1 .. L /\ Len(macros') = L
  BY <1>1, <1>2
<1>4. ASSUME NEW i \in 1 .. L
      PROVE  /\ Definition(i)' = Definition(i)
             /\ macros'[i].active <=> macros[i].active /\ i # k
  <2>1. macros[i] \in Entry
    BY <1>1
  <2>2. macros'[i] = [macros[i] EXCEPT !.active = macros[i].active /\ i # k]
    BY <1>2
  <2>3. /\ macros'[i].name = macros[i].name /\ macros'[i].body = macros[i].body
        /\ macros'[i].active = (macros[i].active /\ i # k)
    BY <2>1, <2>2 DEF Entry
  <2> QED BY <2>3 DEF Definition
<1>5. \A d : d \in InForce' <=> \E i \in 1 .. L : macros[i].active /\ i # k /\ d = Definition(i)
  BY <1>3, <1>4 DEF InForce
<1>6. \A d : d \in InForce <=> \E i \in 1 .. L : macros[i].active /\ d = Definition(i)
  BY <1>1 DEF InForce
<1>7. \A i, j : Definition(i) = Definition(j) => i = j
  BY DEF Definition
<1>8. InForce' = InForce \ Definitions!Latest(n)
  <2>1. CASE Entries(n) = {}
    <3>1. k = 0 /\ Definitions!Latest(n) = {}
      BY <1>1, <2>1, FindMacroFacts, LatestFound
    <3>2. \A i \in 1 .. L : i # k
      BY <1>1, <3>1
    <3> QED BY <1>5, <1>6, <3>1, <3>2
  <2>2. CASE Entries(n) # {}
    <3>1. k \in Entries(n) /\ Definitions!Latest(n) = {Definition(k)}
      BY <1>1, <2>2, FindMacroFacts, LatestFound
    <3> QED BY <1>5, <1>6, <1>7, <3>1
  <2> QED BY <2>1, <2>2
<1> QED BY <1>2, <1>3, <1>8 DEF Definitions!Undef

LEMMA AnswerImplements ==
  ASSUME TableInv, NEW n \in Names, answer' = BodyOf(n), UNCHANGED macros
  PROVE  Definitions!Ask(n)
<1>1. macros \in Seq(Entry) /\ InForce' = InForce
  BY DEF TableInv, TableTypeOK, InForce, Definition
<1>2. CASE Entries(n) = {}
  <2>1. FindMacro(n) = 0 /\ Definitions!Of(n) = {}
    BY <1>1, <1>2, FindMacroFacts, InForceOf
  <2> QED BY <1>1, <2>1 DEF BodyOf, Definitions!Ask
<1>3. CASE Entries(n) # {}
  <2>1. FindMacro(n) \in Entries(n) /\ Definitions!Latest(n) = {Definition(FindMacro(n))}
    BY <1>1, <1>3, FindMacroFacts, LatestFound
  <2>2. FindMacro(n) # 0
    BY <1>1, <2>1 DEF Entries
  <2>3. Definition(FindMacro(n)).body = BodyOf(n)
    BY <2>2 DEF Definition, BodyOf
  <2> QED BY <1>1, <2>1, <2>3 DEF Definitions!Ask
<1> QED BY <1>2, <1>3

(* Steps that leave the table and the answer are stutters.                 *)
LEMMA QuietStep == ASSUME UNCHANGED <<macros, answer>> PROVE UNCHANGED Definitions!vars
<1> QED BY DEF Definitions!vars, InForce, Definition

LEMMA StepImplements ==
  TableInv /\ [FileNext]_<<groups, tableVars>> => [Definitions!Next]_Definitions!vars
<1> SUFFICES ASSUME TableInv, [FileNext]_<<groups, tableVars>>
             PROVE  [Definitions!Next]_Definitions!vars
  OBVIOUS
<1>1. CASE TableLine
  BY <1>1, DefineImplements, UndefImplements DEF TableLine, Definitions!Next
<1>2. CASE ConditionalLine
  BY <1>2, ConditionalStep, AnswerImplements, QuietStep DEF Definitions!Next
<1>3. CASE EndOfHeader
  BY <1>3, HeaderTableStays, QuietStep DEF EndOfHeader
<1>4. CASE Include \/ DefineInFullTable \/ UNCHANGED <<groups, tableVars>>
  BY <1>4, QuietStep DEF Include, DefineInFullTable, tableVars
<1> QED BY <1>1, <1>2, <1>3, <1>4 DEF FileNext, ReadLine

(* The copied tables of nested files are one history of definitions: what  *)
(* a header defines and undefines holds for the later lines of all files   *)
(* that wait for it.                                                       *)
THEOREM CopiedTablesAreOneHistory == FileSpec => ImplementsDefinitions
<1>1. FileInit => Definitions!Init
  <2> SUFFICES ASSUME FileInit PROVE Definitions!Init
    OBVIOUS
  <2>1. macros = <<>> /\ answer = NoBody
    BY DEF FileInit
  <2>2. Len(macros) = 0 /\ DOMAIN macros = 1 .. 0
    BY <2>1
  <2>3. InForce = {}
    BY <2>2 DEF InForce
  <2> QED BY <2>1, <2>2, <2>3 DEF Definitions!Init
<1> QED BY <1>1, Invariant, StepImplements, PTL DEF FileSpec, ImplementsDefinitions, Definitions!Spec
=============================================================================
