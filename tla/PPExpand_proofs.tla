-------------------------- MODULE PPExpand_proofs --------------------------
(***************************************************************************)
(* What TLAPS proves of module PPExpand for every macro table, every text  *)
(* and every depth of the stacks: that a macro is hidden exactly while its *)
(* replacement text is being read, without any condition; and the types,   *)
(* that a macro's own name stays hidden, that scanning resumes behind a    *)
(* name that is not an invocation, and that the expansion of an argument   *)
(* never reads the text behind its call, each up to the one event of       *)
(* pp_peek that undoes it.  The events (RestoredInPlace, TextsRemain,      *)
(* NamesEndInside) are conditions on what a run does, not on what the      *)
(* macros and texts are: nothing is said about how texts end.              *)
(*                                                                         *)
(* HiddenWhileOnStack alone is not inductive.  A function-like macro is    *)
(* looked up when its name is read, but hidden only after its arguments    *)
(* have been expanded, and those may invoke and hide the same macro.  The  *)
(* invariant says why it is visible again by then: the frames of a         *)
(* suspended call lie below the barrier of the scan of its argument, where *)
(* nothing is popped, the macro is not among them (Suspended), and the     *)
(* scan drains all others.  What the texts are does not matter there, so   *)
(* the frames are known as lists of records only (IsList, IsFrame).        *)
(*                                                                         *)
(* The second invariant, ListInv, says that texts, arguments and output    *)
(* are lists, whatever a table puts in them, and follows a function-like   *)
(* name to the parenthesis behind it: while the frame the name was read    *)
(* from is the current one, only blanks have been read since, and once it  *)
(* has been popped the stack stays below it (LeftBehind).  Positions stay  *)
(* within their texts (AllPositioned) only if none is put back in a frame  *)
(* it was not read from, so that part is carried separately.               *)
(*                                                                         *)
(* The third, InsideInv, is why the scan of an argument does not run on:   *)
(* the parentheses that its output and the call being read leave open are  *)
(* those that its frames have opened so far (InnerSum), so the one that    *)
(* closes the call is still to come in one of these frames; and a call     *)
(* that begins where the argument has ended puts its position back where   *)
(* it is (InsideIdent).  The scans that wait for it are in balance in the  *)
(* same way (OuterSums).                                                   *)
(***************************************************************************)
EXTENDS PPExpand, WellFoundedInduction, TLAPS

(* The sequences of the model, whatever they hold.                         *)
IsList(s) == \E S : s \in Seq(S)

LEMMA ListFacts ==
  ASSUME NEW s, IsList(s)
  PROVE  Len(s) \in Nat /\ DOMAIN s = 1 .. Len(s) /\ (s = <<>> <=> Len(s) = 0)
BY DEF IsList

LEMMA AppendList ==
  ASSUME NEW s, IsList(s), NEW e
  PROVE  /\ IsList(Append(s, e)) /\ Len(Append(s, e)) = Len(s) + 1
         /\ \A i \in 1 .. Len(s) : Append(s, e)[i] = s[i]
         /\ Append(s, e)[Len(s) + 1] = e
<1>1. PICK S : s \in Seq(S)
  BY DEF IsList
<1>2. s \in Seq(S \cup {e}) /\ e \in S \cup {e}
  <2>1. \A i \in 1 .. Len(s) : s[i] \in S \cup {e}
    BY <1>1
  <2> QED BY <1>1, <2>1
<1> DEFINE T == S \cup {e}
<1> HIDE DEF T
<1>3. s \in Seq(T) /\ e \in T
  BY <1>2 DEF T
<1>4. Append(s, e) \in Seq(T)
  BY <1>3
<1> QED BY <1>3, <1>4 DEF IsList

LEMMA CutList ==
  ASSUME NEW s, IsList(s), NEW n \in 0 .. Len(s)
  PROVE  /\ IsList(SubSeq(s, 1, n)) /\ Len(SubSeq(s, 1, n)) = n
         /\ \A i \in 1 .. n : SubSeq(s, 1, n)[i] = s[i]
<1>1. PICK S : s \in Seq(S)
  BY DEF IsList
<1>2. SubSeq(s, 1, n) \in Seq(S)
  BY <1>1
<1> QED BY <1>1, <1>2 DEF IsList

LEMMA FunctionIsList ==
  ASSUME NEW n \in Nat, NEW T, NEW f \in [1 .. n -> T]
  PROVE  f \in Seq(T) /\ Len(f) = n
OBVIOUS

Replaced(s, n, e) == [s EXCEPT ![n] = e]

LEMMA ReplaceInList ==
  ASSUME NEW s, IsList(s), NEW n \in 1 .. Len(s), NEW e,
         NEW t, t = Replaced(s, n, e)
  PROVE  /\ IsList(t) /\ Len(t) = Len(s) /\ t[n] = e
         /\ \A i \in 1 .. Len(s) : i # n => t[i] = s[i]
<1>1. PICK S : s \in Seq(S)
  BY DEF IsList
<1> DEFINE T == S \cup {e}
<1>2. Len(s) \in Nat /\ DOMAIN s = 1 .. Len(s)
  BY <1>1
<1>3. t = [i \in 1 .. Len(s) |-> IF i = n THEN e ELSE s[i]]
  BY <1>2 DEF Replaced
<1>4. \A i \in 1 .. Len(s) : (IF i = n THEN e ELSE s[i]) \in T
  BY <1>1
<1> HIDE DEF T
<1>5. t \in [1 .. Len(s) -> T]
  BY <1>3, <1>4
<1>6. t \in Seq(T) /\ Len(t) = Len(s)
  BY <1>2, <1>5, FunctionIsList
<1>8. IsList(t)
  BY <1>6 DEF IsList
<1>9. t[n] = e /\ \A i \in 1 .. Len(s) : i # n => t[i] = s[i]
  BY <1>3
<1> QED BY <1>6, <1>8, <1>9

LEMMA FrontList ==
  ASSUME NEW s, IsList(s), s # <<>>
  PROVE  /\ IsList(Front(s)) /\ Len(Front(s)) = Len(s) - 1
         /\ \A i \in 1 .. Len(s) - 1 : Front(s)[i] = s[i]
<1>1. Len(s) - 1 \in 0 .. Len(s)
  BY ListFacts
<1> QED BY <1>1, CutList DEF Front

LEMMA ConcatList ==
  ASSUME NEW s, IsList(s), NEW t, IsList(t)
  PROVE  IsList(s \o t) /\ Len(s \o t) = Len(s) + Len(t)
<1>1. PICK S : s \in Seq(S)
  BY DEF IsList
<1>2. PICK T : t \in Seq(T)
  BY DEF IsList
<1> DEFINE U == S \cup T
<1>3. s \in Seq(U) /\ t \in Seq(U)
  <2>1. (\A i \in 1 .. Len(s) : s[i] \in U) /\ \A i \in 1 .. Len(t) : t[i] \in U
    BY <1>1, <1>2
  <2> HIDE DEF U
  <2> QED BY <1>1, <1>2, <2>1
<1> HIDE DEF U
<1>4. s \o t \in Seq(U)
  BY <1>3
<1> QED BY <1>3, <1>4 DEF IsList

(* The least-number principle, and the greatest of a bounded set.          *)
LEMMA LeastNumber ==
  ASSUME NEW M \in SUBSET Nat, M # {}
  PROVE  \E m \in M : \A k \in M : m <= k
<1> DEFINE R == OpToRel(<, Nat)
<1>1. PICK m \in M : \A k \in M : <<k, m>> \notin R
  <2> HIDE DEF R
  <2>1. IsWellFoundedOn(R, Nat)
    BY NatLessThanWellFounded DEF R
  <2> QED BY <2>1, WFMin
<1>2. \A k \in M : ~(k < m)
  BY <1>1 DEF OpToRel
<1> QED BY <1>2

LEMMA MaxFacts ==
  ASSUME NEW S \in SUBSET Nat, S # {}, NEW b \in Nat, \A x \in S : x <= b
  PROVE  Max(S) \in S /\ \A x \in S : Max(S) >= x
<1> DEFINE D == {b - x : x \in S}
<1>1. D \in SUBSET Nat /\ D # {}
  <2>1. \A x \in S : b - x \in Nat
    <3> TAKE x \in S
    <3>1. x \in Nat /\ x <= b
      OBVIOUS
    <3> QED BY <3>1
  <2>2. PICK x \in S : TRUE
    OBVIOUS
  <2>3. b - x \in D
    BY <2>2
  <2> QED BY <2>1, <2>3
<1> HIDE DEF D
<1>2. PICK d \in D : \A e \in D : d <= e
  BY <1>1, LeastNumber
<1>3. PICK m \in S : d = b - m
  BY DEF D
<1>4. \A x \in S : m >= x
  <2> TAKE x \in S
  <2>1. b - x \in D
    BY DEF D
  <2> QED BY <1>2, <1>3, <2>1
<1>5. \E m1 \in S : \A x \in S : m1 >= x
  BY <1>4
<1> QED BY <1>5 DEF Max

-----------------------------------------------------------------------------
(* The invariant *)

IsFrame(f) == f = [src |-> f.src, pos |-> f.pos, macro |-> f.macro]

IsCall(c) ==
  c = [macro |-> c.macro, savedPos |-> c.savedPos, frame |-> c.frame,
       level |-> c.level, args |-> c.args]

IsSuspended(c) ==
  c = [macro |-> c.macro, args |-> c.args, expanded |-> c.expanded,
       depth |-> c.depth, out |-> c.out, barrier |-> c.barrier]

(* A stack of input frames.                                                *)
IsStack(s) ==
  /\ IsList(s)
  /\ \A i \in 1 .. Len(s) : IsFrame(s[i]) /\ s[i].macro \in {None} \cup DOMAIN macros

Table ==
  /\ \E n \in Nat : DOMAIN macros = 1 .. n
  /\ active \in [DOMAIN macros -> BOOLEAN]

Stacks ==
  /\ IsStack(frames)
  /\ barrier \in Nat /\ barrier < Len(frames) /\ Len(frames) <= MaxFrames + 1

Calls ==
  /\ IsList(calls)
  /\ \A k \in 1 .. Len(calls) :
       /\ IsSuspended(calls[k]) /\ calls[k].macro \in DOMAIN macros
       /\ calls[k].barrier \in Nat /\ calls[k].depth \in Nat

(* The macro of the call that is being read has not been hidden yet.       *)
Reading ==
  mode \in {"paren", "args"} =>
    IsCall(call) /\ call.macro \in DOMAIN macros /\ active[call.macro]

(* A suspended call of which an argument is being scanned: its frames are  *)
(* below the barrier, and its macro is not among them.                     *)
Scanning(k) == k < Len(calls) \/ mode # "expandArg"

Below ==
  \A k \in 1 .. Len(calls) : Scanning(k) =>
    /\ calls[k].barrier < calls[k].depth /\ calls[k].depth <= barrier + 1
    /\ \A i \in 1 .. calls[k].depth : frames[i].macro # calls[k].macro

Nested ==
  /\ \A k \in 2 .. Len(calls) : calls[k].barrier = calls[k - 1].depth - 1
  /\ \A j, k \in 1 .. Len(calls) : j < k => calls[j].depth <= calls[k].barrier + 1

Innermost ==
  /\ mode = "expandArg" => calls # <<>> /\ active[Pending.macro] /\ barrier = Pending.barrier
  /\ mode # "expandArg" /\ calls # <<>> => barrier = Pending.depth - 1

Suspended == mode # "abort" => Below /\ Nested /\ Innermost

(* HiddenWhileOnStack of any flags and any stack.                          *)
Hides(act, s) ==
  /\ \A m \in DOMAIN macros : ~act[m] <=> \E i \in 1 .. Len(s) : s[i].macro = m
  /\ \A i, j \in 1 .. Len(s) : s[i].macro = s[j].macro /\ s[i].macro # None => i = j

ExpandInv ==
  Table /\ Stacks /\ Calls /\ Reading /\ Suspended /\ Hides(active, frames)

-----------------------------------------------------------------------------
(* Cutting and growing the stack *)

(* t is s cut to n frames; the positions may differ.                       *)
CutTo(t, s, n) ==
  IsList(t) /\ Len(t) = n /\ \A i \in 1 .. n : IsFrame(t[i]) /\ t[i].macro = s[i].macro

(* The flags when the frames of s above n have been popped.                *)
Revived(act, s, n) ==
  [m \in DOMAIN act |-> act[m] \/ \E i \in n + 1 .. Len(s) : s[i].macro = m]

LEMMA NoneIsNoMacro == ASSUME Table PROVE None \notin DOMAIN macros
BY DEF Table, None

LEMMA CutHides ==
  ASSUME None \notin DOMAIN macros,
         NEW act \in [DOMAIN macros -> BOOLEAN], NEW s, IsStack(s), Hides(act, s),
         NEW n \in 1 .. Len(s), NEW t, CutTo(t, s, n)
  PROVE  /\ IsStack(t) /\ Len(t) = n /\ Hides(Revived(act, s, n), t)
         /\ Revived(act, s, n) \in [DOMAIN macros -> BOOLEAN]
         /\ \A m \in DOMAIN macros : act[m] => Revived(act, s, n)[m]
<1> DEFINE r == Revived(act, s, n)
<1>1. DOMAIN act = DOMAIN macros
  OBVIOUS
<1>2. Len(s) \in Nat
  BY ListFacts DEF IsStack
<1>3. r = [m \in DOMAIN macros |-> act[m] \/ \E i \in n + 1 .. Len(s) : s[i].macro = m]
  BY <1>1, Zenon DEF Revived
<1>4. \A m \in DOMAIN macros :
        r[m] = (act[m] \/ \E i \in n + 1 .. Len(s) : s[i].macro = m)
  BY <1>3, Zenon
<1> HIDE DEF r
<1>5. Len(t) = n /\ IsList(t) /\ \A i \in 1 .. n : IsFrame(t[i]) /\ t[i].macro = s[i].macro
  BY DEF CutTo
<1>6. \A i \in 1 .. n : i \in 1 .. Len(s)
  BY <1>2
<1>7. IsStack(t)
  BY <1>5, <1>6 DEF IsStack
<1>8. r \in [DOMAIN macros -> BOOLEAN]
  BY <1>3, Zenon
<1>9. ASSUME NEW m \in DOMAIN macros
      PROVE  ~r[m] <=> \E i \in 1 .. n : t[i].macro = m
  <2>1. ~act[m] <=> \E i \in 1 .. Len(s) : s[i].macro = m
    BY <1>9, Zenon DEF Hides
  <2>2. m # None => \A i, j \in 1 .. Len(s) : s[i].macro = m /\ s[j].macro = m => i = j
    BY DEF Hides
  <2>3. r[m] = (act[m] \/ \E i \in n + 1 .. Len(s) : s[i].macro = m)
    BY <1>4
  <2>4. (\E i \in 1 .. n : t[i].macro = m) <=> \E i \in 1 .. n : s[i].macro = m
    BY <1>5
  <2>5. (\E i \in 1 .. Len(s) : s[i].macro = m)
          <=> \/ \E i \in 1 .. n : s[i].macro = m
              \/ \E i \in n + 1 .. Len(s) : s[i].macro = m
    <3>1. \A i \in 1 .. Len(s) : i \in 1 .. n \/ i \in n + 1 .. Len(s)
      BY <1>2
    <3>2. \A i \in n + 1 .. Len(s) : i \in 1 .. Len(s)
      BY <1>2
    <3> QED BY <1>6, <3>1, <3>2
  <2>6. m # None /\ (\E i \in 1 .. n : s[i].macro = m)
          => ~ \E i \in n + 1 .. Len(s) : s[i].macro = m
    <3>1. \A i \in 1 .. n : \A j \in n + 1 .. Len(s) : i # j /\ j \in 1 .. Len(s)
      BY <1>2
    <3> QED BY <1>6, <2>2, <3>1
  <2>7. m # None
    BY <1>9
  <2> QED BY <2>1, <2>3, <2>4, <2>5, <2>6, <2>7, Zenon
<1>10. \A i, j \in 1 .. n : t[i].macro = t[j].macro /\ t[i].macro # None => i = j
  <2>1. \A i, j \in 1 .. Len(s) : s[i].macro = s[j].macro /\ s[i].macro # None => i = j
    BY Zenon DEF Hides
  <2> QED BY <1>5, <1>6, <2>1, Zenon
<1>11. Hides(r, t)
  BY <1>5, <1>9, <1>10, Zenon DEF Hides
<1> QED BY <1>4, <1>5, <1>7, <1>8, <1>11, Zenon DEF r

Pushed(s, text, m) == Append(s, [src |-> text, pos |-> 1, macro |-> m])

Hiding(act, m) == IF m = None THEN act ELSE [act EXCEPT ![m] = FALSE]

LEMMA PushHides ==
  ASSUME None \notin DOMAIN macros,
         NEW act \in [DOMAIN macros -> BOOLEAN], NEW s, IsStack(s), Hides(act, s),
         NEW m \in {None} \cup DOMAIN macros, m # None => act[m], NEW text,
         NEW t, t = Pushed(s, text, m), NEW r, r = Hiding(act, m)
  PROVE  /\ IsStack(t) /\ Len(t) = Len(s) + 1 /\ \A i \in 1 .. Len(s) : t[i] = s[i]
         /\ r \in [DOMAIN macros -> BOOLEAN] /\ Hides(r, t)
<1> DEFINE f == [src |-> text, pos |-> 1, macro |-> m]
<1>1. IsFrame(f) /\ f.macro = m
  BY DEF IsFrame
<1> HIDE DEF f
<1>2. t = Append(s, f)
  BY DEF f, Pushed
<1>3. IsList(s) /\ Len(s) \in Nat
  BY ListFacts DEF IsStack
<1>4. IsList(t) /\ Len(t) = Len(s) + 1 /\ (\A i \in 1 .. Len(s) : t[i] = s[i])
      /\ t[Len(s) + 1] = f
  BY <1>2, <1>3, AppendList
<1>5. \A i \in 1 .. Len(t) : i \in 1 .. Len(s) \/ i = Len(s) + 1
  BY <1>3, <1>4
<1>6. (\A i \in 1 .. Len(s) : i \in 1 .. Len(t)) /\ Len(s) + 1 \in 1 .. Len(t)
  BY <1>3, <1>4
<1>7. IsStack(t)
  BY <1>1, <1>4, <1>5, Zenon DEF IsStack
<1>8. r \in [DOMAIN macros -> BOOLEAN]
  BY Zenon DEF Hiding
<1>9. \A x \in DOMAIN macros : ~r[x] <=> ~act[x] \/ x = m
  <2>1. CASE m = None
    BY <2>1, Zenon DEF Hiding
  <2>2. CASE m # None
    <3>1. m \in DOMAIN macros /\ r = [act EXCEPT ![m] = FALSE]
      BY <2>2, Zenon DEF Hiding
    <3> QED BY <3>1, Zenon
  <2> QED BY <2>1, <2>2, Zenon
<1>10. ASSUME NEW x \in DOMAIN macros
       PROVE  ~r[x] <=> \E i \in 1 .. Len(t) : t[i].macro = x
  <2>1. ~act[x] <=> \E i \in 1 .. Len(s) : s[i].macro = x
    BY Zenon DEF Hides
  <2>2. (\E i \in 1 .. Len(t) : t[i].macro = x)
          <=> (\E i \in 1 .. Len(s) : s[i].macro = x) \/ m = x
    BY <1>1, <1>4, <1>5, <1>6, Zenon
  <2> QED BY <1>9, <2>1, <2>2, Zenon
<1>11. ASSUME NEW i \in 1 .. Len(t), NEW j \in 1 .. Len(t),
              t[i].macro = t[j].macro, t[i].macro # None
       PROVE  i = j
  <2>1. \A a, b \in 1 .. Len(s) : s[a].macro = s[b].macro /\ s[a].macro # None => a = b
    BY Zenon DEF Hides
  <2>2. m # None => \A a \in 1 .. Len(s) : s[a].macro # m
    <3> SUFFICES ASSUME m # None PROVE \A a \in 1 .. Len(s) : s[a].macro # m
      OBVIOUS
    <3>1. m \in DOMAIN macros /\ act[m]
      BY Zenon
    <3> QED BY <3>1, Zenon DEF Hides
  <2>3. CASE i = Len(s) + 1 /\ j = Len(s) + 1
    BY <2>3
  <2>4. CASE i \in 1 .. Len(s) /\ j \in 1 .. Len(s)
    BY <1>4, <1>11, <2>1, <2>4, Zenon
  <2>5. CASE i \in 1 .. Len(s) /\ j = Len(s) + 1
    BY <1>1, <1>4, <1>11, <2>2, <2>5, Zenon
  <2>6. CASE i = Len(s) + 1 /\ j \in 1 .. Len(s)
    BY <1>1, <1>4, <1>11, <2>2, <2>6, Zenon
  <2> QED BY <1>5, <2>3, <2>4, <2>5, <2>6, Zenon
<1>12. Hides(r, t)
  BY <1>10, <1>11, Zenon DEF Hides
<1> QED BY <1>4, <1>7, <1>8, <1>12

(* pp_peek keeps the frames up to the barrier and cuts the stack; what it  *)
(* makes active is what it pops.                                           *)
LEMMA PeekCuts ==
  ASSUME Stacks
  PROVE  /\ KeptFrames \in barrier + 1 .. Len(frames)
         /\ CutTo(Peeked, frames, KeptFrames)
         /\ Reactivated = Revived(active, frames, KeptFrames)
<1>1. IsList(frames) /\ Len(frames) \in Nat /\ barrier \in Nat /\ barrier + 1 <= Len(frames)
  BY ListFacts DEF Stacks, IsStack
<1>2. KeptFrames \in barrier + 1 .. Len(frames)
  <2> DEFINE S == {barrier + 1} \cup {i \in barrier + 1 .. Len(frames) : ~Exhausted(frames[i])}
  <2>1. \A x \in S : x \in barrier + 1 .. Len(frames)
    BY <1>1
  <2>2. S \in SUBSET Nat /\ S # {} /\ \A x \in S : x <= Len(frames)
    <3>1. barrier + 1 \in S
      OBVIOUS
    <3> HIDE DEF S
    <3> QED BY <1>1, <2>1, <3>1
  <2>3. KeptFrames = Max(S)
    BY DEF KeptFrames
  <2> HIDE DEF S
  <2> QED BY <1>1, <2>1, <2>2, <2>3, MaxFacts
<1>3. KeptFrames \in 0 .. Len(frames)
  BY <1>1, <1>2
<1>4. CutTo(Peeked, frames, KeptFrames)
  <2> DEFINE n == KeptFrames
  <2> HIDE DEF n
  <2>1. n \in 0 .. Len(frames)
    BY <1>3 DEF n
  <2>2. \A i \in 1 .. n : i \in 1 .. Len(frames)
    BY <1>1, <2>1
  <2>3. Peeked = SubSeq(frames, 1, n)
    BY DEF Peeked, n
  <2>4. IsList(Peeked) /\ Len(Peeked) = n /\ \A i \in 1 .. n : Peeked[i] = frames[i]
    BY <1>1, <2>1, <2>3, CutList
  <2>5. \A i \in 1 .. n : IsFrame(frames[i])
    BY <2>2 DEF Stacks, IsStack
  <2>6. CutTo(Peeked, frames, n)
    BY <2>4, <2>5, Zenon DEF CutTo
  <2> QED BY <2>6 DEF n
<1>5. Reactivated = Revived(active, frames, KeptFrames)
  BY Zenon DEF Reactivated, Revived, PoppedMacros
<1> QED BY <1>2, <1>4, <1>5

(* Moving within the current frame.                                        *)
LEMMA MovedCut ==
  ASSUME NEW s, NEW n \in Nat, n > 0, NEW t, CutTo(t, s, n), NEW p
  PROVE  CutTo([t EXCEPT ![Len(t)].pos = p], s, n)
<1>1. IsList(t) /\ Len(t) = n /\ \A i \in 1 .. n : IsFrame(t[i]) /\ t[i].macro = s[i].macro
  BY DEF CutTo
<1>2. n \in 1 .. Len(t)
  BY <1>1
<1>9. PICK e : e = [t[n] EXCEPT !.pos = p]
  OBVIOUS
<1>3. IsFrame(e) /\ e.macro = t[n].macro
  <2>1. IsFrame(t[n])
    BY <1>1, <1>2
  <2>2. e = [src |-> t[n].src, pos |-> p, macro |-> t[n].macro]
    <3> DEFINE a == t[n].src
               b == t[n].pos
               c == t[n].macro
    <3>1. t[n] = [src |-> a, pos |-> b, macro |-> c]
      BY <2>1 DEF IsFrame
    <3> HIDE DEF a, b, c
    <3>2. e = [src |-> a, pos |-> p, macro |-> c]
      BY <1>9, <3>1
    <3> QED BY <3>2 DEF a, c
  <2> QED BY <2>2 DEF IsFrame
<1>4. [t EXCEPT ![Len(t)].pos = p] = Replaced(t, n, e)
  BY <1>1, <1>9 DEF Replaced
<1>7. PICK u : u = Replaced(t, n, e)
  OBVIOUS
<1>5. IsList(u) /\ Len(u) = Len(t) /\ u[n] = e /\ \A i \in 1 .. Len(t) : i # n => u[i] = t[i]
  <2>1. IsList(t)
    BY <1>1
  <2> QED BY <1>2, <1>7, <2>1, ReplaceInList
<1>6. \A i \in 1 .. n : IsFrame(u[i]) /\ u[i].macro = s[i].macro
  BY <1>1, <1>2, <1>3, <1>5
<1>8. CutTo(u, s, n)
  BY <1>1, <1>5, <1>6 DEF CutTo
<1> QED BY <1>4, <1>7, <1>8

-----------------------------------------------------------------------------
(* What a step does to the stack *)

Cuts(n) ==
  /\ n \in barrier + 1 .. Len(frames)
  /\ CutTo(frames', frames, n)
  /\ active' = Revived(active, frames, n)

LEMMA ReadCuts ==
  ASSUME Stacks, NEW p,
         \/ frames' = Peeked
         \/ frames' = [Peeked EXCEPT ![Len(Peeked)].pos = p],
         active' = Reactivated
  PROVE  Cuts(KeptFrames)
<1>1. /\ KeptFrames \in barrier + 1 .. Len(frames)
      /\ CutTo(Peeked, frames, KeptFrames)
      /\ Reactivated = Revived(active, frames, KeptFrames)
  BY PeekCuts
<1> DEFINE n == KeptFrames
           t == Peeked
<1>2. n \in Nat /\ n > 0
  BY <1>1, ListFacts DEF Stacks, IsStack
<1> HIDE DEF n, t
<1>3. CutTo(t, frames, n)
  BY <1>1 DEF n, t
<1>4. CutTo([t EXCEPT ![Len(t)].pos = p], frames, n)
  BY <1>2, <1>3, MovedCut
<1>5. CutTo(frames', frames, n)
  <2>1. frames' = t \/ frames' = [t EXCEPT ![Len(t)].pos = p]
    BY DEF t
  <2> QED BY <1>3, <1>4, <2>1
<1> QED BY <1>1, <1>5 DEF Cuts, n

LEMMA CutsKeep ==
  ASSUME Table, Stacks, Hides(active, frames), NEW n, Cuts(n), macros' = macros
  PROVE  /\ Table' /\ IsStack(frames)' /\ Hides(active, frames)'
         /\ Len(frames') = n /\ n \in barrier + 1 .. Len(frames)
         /\ n <= MaxFrames + 1 /\ barrier < n
         /\ \A m \in DOMAIN macros : active[m] => active'[m]
         /\ \A i \in 1 .. n : frames'[i].macro = frames[i].macro
<1>1. None \notin DOMAIN macros
  BY NoneIsNoMacro
<1>2. /\ active \in [DOMAIN macros -> BOOLEAN] /\ IsStack(frames)
      /\ barrier \in Nat /\ Len(frames) \in Nat /\ Len(frames) <= MaxFrames + 1
  BY ListFacts DEF Table, Stacks, IsStack
<1>3. n \in barrier + 1 .. Len(frames)
  BY DEF Cuts
<1>4. n \in 1 .. Len(frames) /\ n <= MaxFrames + 1 /\ barrier < n
  BY <1>2, <1>3, BoundsAssumption
<1>5. CutTo(frames', frames, n)
  BY DEF Cuts
<1> DEFINE r == Revived(active, frames, n)
<1>6. active' = r
  BY DEF Cuts
<1> HIDE DEF r
<1>7. /\ IsStack(frames') /\ Len(frames') = n /\ Hides(r, frames')
      /\ r \in [DOMAIN macros -> BOOLEAN]
      /\ \A m \in DOMAIN macros : active[m] => r[m]
  BY <1>1, <1>2, <1>4, <1>5, CutHides DEF r
<1>8. Table'
  BY <1>6, <1>7 DEF Table
<1>9. IsStack(frames)'
  BY <1>7 DEF IsStack
<1>10. Hides(active, frames)'
  BY <1>6, <1>7 DEF Hides
<1>11. \A i \in 1 .. n : frames'[i].macro = frames[i].macro
  BY <1>5 DEF CutTo
<1> QED BY <1>3, <1>4, <1>6, <1>7, <1>8, <1>9, <1>10, <1>11

(* A step that only reads, outside the expansion of arguments.             *)
LEMMA ReadKeeps ==
  ASSUME ExpandInv, NEW n, Cuts(n), UNCHANGED <<macros, barrier, calls>>,
         mode \in {"scan", "ident", "paren", "args"},
         mode' \in {"scan", "ident", "paren", "args", "done"}, Reading'
  PROVE  ExpandInv'
<1>1. Table /\ Stacks /\ Calls /\ Suspended /\ Hides(active, frames)
  BY DEF ExpandInv
<1>2. /\ Table' /\ IsStack(frames)' /\ Hides(active, frames)'
      /\ Len(frames') = n /\ n \in barrier + 1 .. Len(frames)
      /\ n <= MaxFrames + 1 /\ barrier < n
      /\ \A i \in 1 .. n : frames'[i].macro = frames[i].macro
  BY <1>1, CutsKeep
<1>3. Stacks'
  BY <1>1, <1>2 DEF Stacks
<1>4. Calls'
  BY <1>1 DEF Calls, IsList, IsSuspended
<1>5. Below /\ Nested /\ Innermost
  BY <1>1 DEF Suspended
<1>6. Below'
  <2> SUFFICES ASSUME NEW k \in 1 .. Len(calls)
               PROVE  /\ calls[k].barrier < calls[k].depth /\ calls[k].depth <= barrier + 1
                      /\ \A i \in 1 .. calls[k].depth : frames'[i].macro # calls[k].macro
    BY DEF Below, Scanning
  <2>1. /\ calls[k].barrier < calls[k].depth /\ calls[k].depth <= barrier + 1
        /\ \A i \in 1 .. calls[k].depth : frames[i].macro # calls[k].macro
    BY <1>5 DEF Below, Scanning
  <2>2. calls[k].depth \in Nat /\ barrier \in Nat /\ n \in Int
    <3>1. Len(frames) \in Nat
      BY <1>1, ListFacts DEF Stacks, IsStack
    <3> QED BY <1>1, <1>2, <3>1 DEF Calls, Stacks
  <2>3. \A i \in 1 .. calls[k].depth : i \in 1 .. n
    <3> HIDE DEF Cuts
    <3> DEFINE d == calls[k].depth
    <3>1. d \in Nat /\ d <= barrier + 1 /\ barrier < n
      BY <1>2, <2>1, <2>2
    <3> HIDE DEF d
    <3>2. \A i \in 1 .. d : i \in 1 .. n
      BY <2>2, <3>1
    <3> QED BY <3>2 DEF d
  <2> QED BY <1>2, <2>1, <2>3
<1>7. Nested'
  BY <1>5 DEF Nested
<1>8. Innermost'
  BY <1>5 DEF Innermost, Pending
<1> QED BY <1>2, <1>3, <1>4, <1>6, <1>7, <1>8 DEF ExpandInv, Suspended

(* pp_find_macro finds an active macro of that name or none.               *)
LEMMA FoundIsActive ==
  ASSUME NEW size \in Nat, DOMAIN macros = 1 .. size, NEW flags, NEW name
  PROVE  LET m == FindMacro(flags, name)
         IN  m = None \/ (m \in DOMAIN macros /\ flags[m] /\ macros[m].name = name)
<1> DEFINE A == {m \in DOMAIN macros : flags[m] /\ macros[m].name = name}
           S == {None} \cup A
<1>6. \A x \in A : x \in DOMAIN macros /\ flags[x] /\ macros[x].name = name
  <2> TAKE x \in A
  <2>1. flags[x] /\ macros[x].name = name
    BY Zenon
  <2> QED BY <2>1
<1>7. FindMacro(flags, name) = Max(S)
  BY DEF FindMacro
<1> HIDE DEF A
<1>5. \A x \in S : x = None \/ (x \in DOMAIN macros /\ flags[x] /\ macros[x].name = name)
  BY <1>6
<1>1. \A x \in S : x \in Nat /\ x <= size
  <2>1. \A x \in S : x = 0 \/ x \in 1 .. size
    BY <1>5 DEF None
  <2> HIDE DEF S
  <2> QED BY <2>1
<1>2. None \in S
  OBVIOUS
<1> HIDE DEF S
<1>4. Max(S) \in S
  BY <1>1, <1>2, MaxFacts
<1> QED BY <1>4, <1>5, <1>7, Zenon

LEMMA FoundFacts ==
  ASSUME Table, Found # None
  PROVE  Found \in DOMAIN macros /\ Reactivated[Found] /\ macros[Found].name = ident
<1>1. PICK size \in Nat : DOMAIN macros = 1 .. size
  BY DEF Table
<1> DEFINE flags == Reactivated
<1> HIDE DEF flags
<1>2. Found = FindMacro(flags, ident)
  BY DEF Found, flags
<1>3. Found = None \/ (Found \in DOMAIN macros /\ flags[Found] /\ macros[Found].name = ident)
  BY <1>1, <1>2, FoundIsActive
<1> QED BY <1>3 DEF flags

-----------------------------------------------------------------------------
(* The steps *)

LEMMA InitHides == Init => ExpandInv
<1> SUFFICES ASSUME Init PROVE ExpandInv
  OBVIOUS
<1>1. PICK p \in Programs :
        /\ macros = p.macros
        /\ active = [m \in DOMAIN p.macros |-> TRUE]
        /\ frames = <<[src |-> p.text, pos |-> 1, macro |-> None]>>
  BY DEF Init
<1>2. barrier = 0 /\ mode = "scan" /\ calls = <<>>
  BY DEF Init
<1>3. Table
  <2> DEFINE T == {p.macros[i] : i \in DOMAIN p.macros}
  <2>1. p.macros \in Seq(T)
    BY ProgramsAssumption DEF IsText
  <2> HIDE DEF T
  <2>2. DOMAIN p.macros = 1 .. Len(p.macros) /\ Len(p.macros) \in Nat
    BY <2>1
  <2>3. active \in [DOMAIN macros -> BOOLEAN]
    BY <1>1, Zenon
  <2> QED BY <1>1, <2>2, <2>3 DEF Table
<1>4. None \notin DOMAIN macros
  BY <1>3, NoneIsNoMacro
<1>5. IsList(frames) /\ Len(frames) = 1 /\ IsFrame(frames[1]) /\ frames[1].macro = None
  <2> DEFINE f == [src |-> p.text, pos |-> 1, macro |-> None]
  <2>1. IsFrame(f) /\ f.macro = None
    BY DEF IsFrame
  <2> HIDE DEF f
  <2>2. frames = <<f>>
    BY <1>1 DEF f
  <2>3. frames \in Seq({f}) /\ Len(frames) = 1 /\ frames[1] = f
    BY <2>2
  <2> QED BY <2>1, <2>3 DEF IsList
<1>6. Stacks
  <2>1. \A i \in 1 .. Len(frames) : i = 1
    BY <1>5
  <2>2. IsStack(frames)
    BY <1>5, <2>1, Zenon DEF IsStack
  <2> QED BY <1>2, <1>5, <2>2, BoundsAssumption DEF Stacks
<1>7. Len(calls) = 0 /\ IsList(calls)
  <2>1. calls \in Seq({0})
    BY <1>2
  <2> QED BY <1>2, <2>1 DEF IsList
<1>8. Calls
  BY <1>7 DEF Calls
<1>9. Reading
  BY <1>2 DEF Reading
<1>10. Suspended
  <2>1. Below
    BY <1>7 DEF Below
  <2>2. Nested
    BY <1>7 DEF Nested
  <2>3. Innermost
    BY <1>2 DEF Innermost
  <2> QED BY <2>1, <2>2, <2>3 DEF Suspended
<1>11. Hides(active, frames)
  <2>1. \A i \in 1 .. Len(frames) : i = 1
    BY <1>5
  <2>2. \A m \in DOMAIN macros : active[m]
    BY <1>1
  <2>3. \A m \in DOMAIN macros : ~ \E i \in 1 .. Len(frames) : frames[i].macro = m
    BY <1>4, <1>5, <2>1, Zenon
  <2>4. \A i, j \in 1 .. Len(frames) : i = j
    BY <1>5
  <2> QED BY <2>2, <2>3, <2>4, Zenon DEF Hides
<1> QED BY <1>3, <1>6, <1>8, <1>9, <1>10, <1>11 DEF ExpandInv

(* The actions that only read.                                             *)
Reads ==
  \/ ScanOther \/ ScanIdent \/ ReadIdent \/ Finish \/ EmitIdent
  \/ BeginCall \/ SkipWhitespace \/ NotAnInvocation \/ OpenParen \/ ReadArg

LEMMA ReadsHide == ExpandInv /\ Reads => ExpandInv'
<1> SUFFICES ASSUME ExpandInv, Reads PROVE ExpandInv'
  OBVIOUS
<1>1. /\ UNCHANGED <<macros, barrier, calls>>
      /\ mode \in {"scan", "ident", "paren", "args"}
      /\ mode' \in {"scan", "ident", "paren", "args", "done"}
  BY DEF Reads, ScanOther, ScanIdent, ReadIdent, Finish, EmitIdent, BeginCall,
         SkipWhitespace, NotAnInvocation, OpenParen, ReadArg, IdentRead
<1>2. /\ active' = Reactivated
      /\ \/ frames' = Peeked
         \/ frames' = [Peeked EXCEPT ![Len(Peeked)].pos = Peeked[Len(Peeked)].pos + 1]
         \/ frames' = [Peeked EXCEPT ![Len(Peeked)].pos = call.savedPos]
  <2>1. CASE ScanOther \/ ReadIdent \/ SkipWhitespace \/ OpenParen \/ ReadArg
    <3>1. Read
      BY <2>1 DEF ScanOther, ReadIdent, SkipWhitespace, OpenParen, ReadArg
    <3> QED BY <3>1, Zenon DEF Read, Advanced
  <2>2. CASE ScanIdent \/ Finish \/ EmitIdent \/ BeginCall
    <3>1. Peek
      BY <2>2 DEF ScanIdent, Finish, EmitIdent, BeginCall
    <3> QED BY <3>1, Zenon DEF Peek
  <2>3. CASE NotAnInvocation
    BY <2>3, Zenon DEF NotAnInvocation, RestoredPosition
  <2> QED BY <2>1, <2>2, <2>3 DEF Reads
<1>3. Table /\ Stacks /\ Hides(active, frames)
  BY DEF ExpandInv
<1>4. Cuts(KeptFrames)
  BY <1>2, <1>3, ReadCuts
<1>5. PICK n : Cuts(n)
  BY <1>4
<1>6. \A m \in DOMAIN macros : active[m] => active'[m]
  BY <1>1, <1>3, <1>5, CutsKeep
<1>7. Reading'
  <2> SUFFICES ASSUME mode' \in {"paren", "args"}
               PROVE  IsCall(call') /\ call'.macro \in DOMAIN macros /\ active'[call'.macro]
    BY <1>1 DEF Reading
  <2>1. CASE BeginCall
    <3>1. /\ Found # None
          /\ call' = [NoCall EXCEPT !.macro = Found, !.savedPos = SavedPosition, !.frame = Len(Peeked)]
      BY <2>1 DEF BeginCall
    <3>2. Found \in DOMAIN macros /\ Reactivated[Found]
      BY <1>3, <3>1, FoundFacts
    <3> DEFINE m == Found
               p == SavedPosition
               n0 == Len(Peeked)
    <3> HIDE DEF m, p, n0
    <3>3. call' = [NoCall EXCEPT !.macro = m, !.savedPos = p, !.frame = n0]
      BY <3>1 DEF m, p, n0
    <3>4. call' = [macro |-> m, savedPos |-> p, frame |-> n0, level |-> 0, args |-> <<>>]
      BY <3>3 DEF NoCall
    <3>5. IsCall(call') /\ call'.macro = m
      BY <3>4 DEF IsCall
    <3> QED BY <1>2, <3>2, <3>5 DEF m
  <2>2. CASE mode \in {"paren", "args"} /\ IsCall(call') /\ call'.macro = call.macro
    <3>1. call.macro \in DOMAIN macros /\ active[call.macro]
      BY <2>2 DEF ExpandInv, Reading
    <3> QED BY <1>6, <2>2, <3>1
  <2>3. CASE mode \in {"paren", "args"} /\ (OpenParen \/ ReadArg)
    <3> DEFINE a == call.macro
               b == call.savedPos
               fr == call.frame
               c == call.level
               d == call.args
    <3>1. call = [macro |-> a, savedPos |-> b, frame |-> fr, level |-> c, args |-> d]
      BY <2>3 DEF ExpandInv, Reading, IsCall
    <3> HIDE DEF a, b, fr, c, d
    <3>2. \E x, y : call' = [macro |-> a, savedPos |-> b, frame |-> fr, level |-> x, args |-> y]
      <4>1. CASE OpenParen
        <5>1. call' = [call EXCEPT !.args = << <<>> >>]
          BY <4>1 DEF OpenParen
        <5> QED BY <3>1, <5>1
      <4>2. CASE ReadArg
        <5>1. \/ \E y : call' = [call EXCEPT !.args = y]
              \/ \E x, k, y : call' = [call EXCEPT !.args[k] = y, !.level = x]
          BY <4>2, Zenon DEF ReadArg
        <5> QED BY <3>1, <5>1
      <4> QED BY <2>3, <4>1, <4>2
    <3>3. PICK x, y : call' = [macro |-> a, savedPos |-> b, frame |-> fr, level |-> x, args |-> y]
      BY <3>2
    <3>4. IsCall(call') /\ call'.macro = a
      BY <3>3 DEF IsCall
    <3> QED BY <2>2, <2>3, <3>4 DEF a
  <2>4. CASE SkipWhitespace
    <3>1. mode = "paren" /\ call' = call
      BY <2>4 DEF SkipWhitespace
    <3>2. IsCall(call)
      BY <3>1 DEF ExpandInv, Reading
    <3> QED BY <2>2, <3>1, <3>2
  <2>5. ~(ScanOther \/ ScanIdent \/ ReadIdent \/ Finish \/ EmitIdent \/ NotAnInvocation)
    BY DEF ScanOther, ScanIdent, ReadIdent, Finish, EmitIdent, NotAnInvocation
  <2>6. OpenParen \/ ReadArg => mode \in {"paren", "args"}
    BY DEF OpenParen, ReadArg
  <2> QED BY <2>1, <2>3, <2>4, <2>5, <2>6 DEF Reads
<1> QED BY <1>1, <1>5, <1>7, ReadKeeps

(* Ending with an error keeps everything else.                             *)
LEMMA TooDeepHides == ExpandInv /\ TooDeep => ExpandInv'
<1> SUFFICES ASSUME ExpandInv, TooDeep PROVE ExpandInv'
  OBVIOUS
<1>1. mode' = "abort"
      /\ UNCHANGED <<macros, active, frames, barrier, out, ident, origin, call, calls>>
  BY DEF TooDeep
<1>2. Table' /\ Stacks' /\ Calls' /\ Hides(active, frames)'
  BY <1>1 DEF ExpandInv, Table, Stacks, Calls, Hides, IsStack, IsList, IsFrame, IsSuspended
<1>3. Reading' /\ Suspended'
  BY <1>1 DEF Reading, Suspended
<1> QED BY <1>2, <1>3 DEF ExpandInv

(* The frames of a call whose argument is being scanned stay below.        *)
LEMMA StaysBelow ==
  ASSUME Stacks, Calls, Below, NEW k \in 1 .. Len(calls), Scanning(k),
         NEW top \in Nat, top > barrier,
         NEW t, \A i \in 1 .. top : t[i].macro = frames[i].macro
  PROVE  /\ calls[k].barrier \in Nat /\ calls[k].depth \in Nat
         /\ calls[k].barrier < calls[k].depth /\ calls[k].depth <= barrier + 1
         /\ \A i \in 1 .. calls[k].depth : t[i].macro # calls[k].macro
<1> DEFINE d == calls[k].depth
           b == calls[k].barrier
<1>1. d \in Nat /\ b \in Nat
  BY DEF Calls
<1>2. b < d /\ d <= barrier + 1 /\ \A i \in 1 .. d : frames[i].macro # calls[k].macro
  BY DEF Below
<1>3. barrier \in Nat
  BY DEF Stacks
<1> HIDE DEF d, b
<1>4. \A i \in 1 .. d : i \in 1 .. top
  BY <1>1, <1>2, <1>3
<1>5. \A i \in 1 .. d : t[i].macro # calls[k].macro
  BY <1>2, <1>4
<1> QED BY <1>1, <1>2, <1>5 DEF d, b

LEMMA ExpandObjectHides == ExpandInv /\ ExpandObject => ExpandInv'
<1> SUFFICES ASSUME ExpandInv, ExpandObject PROVE ExpandInv'
  OBVIOUS
<1>1. CASE TooDeep
  BY <1>1, TooDeepHides
<1>2. CASE ~TooDeep
  <2>1. /\ mode = "ident" /\ mode' = "scan" /\ Found # None /\ CanPush(Peeked)
        /\ active' = [Reactivated EXCEPT ![Found] = FALSE]
        /\ PushInput(Peeked, macros[Found].body, Found)
        /\ UNCHANGED <<macros, barrier, calls>>
    BY <1>2 DEF ExpandObject, IdentRead
  <2>2. Table /\ Stacks /\ Calls /\ Below /\ Nested /\ Innermost /\ Hides(active, frames)
    BY <2>1 DEF ExpandInv, Suspended
  <2>3. None \notin DOMAIN macros
    BY <2>2, NoneIsNoMacro
  <2>4. Found \in DOMAIN macros /\ Reactivated[Found]
    BY <2>1, <2>2, FoundFacts
  <2> DEFINE n == KeptFrames
             s == Peeked
             r == Reactivated
             m == Found
             text == macros[Found].body
  <2>5. n \in barrier + 1 .. Len(frames) /\ CutTo(s, frames, n) /\ r = Revived(active, frames, n)
    BY <2>2, PeekCuts
  <2>6. /\ frames' = Pushed(s, text, m)
        /\ active' = [r EXCEPT ![m] = FALSE] /\ m \in DOMAIN macros /\ r[m] /\ Len(s) <= MaxFrames
    BY <2>1, <2>4 DEF PushInput, CanPush, Pushed
  <2> HIDE DEF n, s, r, m, text
  <2>7. active \in [DOMAIN macros -> BOOLEAN] /\ IsStack(frames)
        /\ Len(frames) \in Nat /\ barrier \in Nat
    BY <2>2, ListFacts DEF Table, Stacks, IsStack
  <2>8. n \in 1 .. Len(frames) /\ n \in Nat /\ barrier < n
    BY <2>5, <2>7
  <2>9. /\ IsStack(s) /\ Len(s) = n /\ Hides(Revived(active, frames, n), s)
        /\ Revived(active, frames, n) \in [DOMAIN macros -> BOOLEAN]
    BY <2>2, <2>3, <2>5, <2>7, <2>8, CutHides
  <2>10. Hides(r, s) /\ r \in [DOMAIN macros -> BOOLEAN]
    BY <2>5, <2>9
  <2>11. m # None
    BY <2>3, <2>6
  <2>12. active' = Hiding(r, m)
    BY <2>6, <2>11 DEF Hiding
  <2>13. /\ IsStack(frames') /\ Len(frames') = n + 1 /\ \A i \in 1 .. n : frames'[i] = s[i]
         /\ active' \in [DOMAIN macros -> BOOLEAN] /\ Hides(active', frames')
    <3>1. m \in {None} \cup DOMAIN macros /\ (m # None => r[m])
      BY <2>6
    <3>2. PICK t : t = frames'
      OBVIOUS
    <3>3. PICK a : a = active'
      OBVIOUS
    <3>4. t = Pushed(s, text, m) /\ a = Hiding(r, m) /\ IsStack(s) /\ Len(s) = n
      BY <2>6, <2>9, <2>12, <3>2, <3>3
    <3>5. /\ IsStack(t) /\ Len(t) = Len(s) + 1 /\ \A i \in 1 .. Len(s) : t[i] = s[i]
          /\ a \in [DOMAIN macros -> BOOLEAN] /\ Hides(a, t)
      BY <2>3, <2>10, <3>1, <3>4, PushHides
    <3> QED BY <3>2, <3>3, <3>4, <3>5
  <2>14. Table' /\ IsStack(frames)' /\ Hides(active, frames)'
    BY <2>1, <2>2, <2>13 DEF Table, IsStack, Hides
  <2>15. Stacks'
    <3>1. n <= MaxFrames
      BY <2>6, <2>9
    <3> QED BY <2>1, <2>7, <2>8, <2>13, <2>14, <3>1, BoundsAssumption DEF Stacks
  <2>16. Calls' /\ Nested'
    BY <2>1, <2>2 DEF Calls, Nested, IsList, IsSuspended
  <2>17. \A i \in 1 .. n : frames'[i].macro = frames[i].macro
    BY <2>5, <2>13 DEF CutTo
  <2>18. Below'
    <3> SUFFICES ASSUME NEW k \in 1 .. Len(calls)
                 PROVE  /\ calls[k].barrier < calls[k].depth /\ calls[k].depth <= barrier + 1
                        /\ \A i \in 1 .. calls[k].depth : frames'[i].macro # calls[k].macro
      BY <2>1 DEF Below, Scanning
    <3>1. Scanning(k)
      BY <2>1 DEF Scanning
    <3>2. PICK t : t = frames'
      OBVIOUS
    <3> QED BY <2>2, <2>8, <2>17, <3>1, <3>2, StaysBelow
  <2>19. Innermost' /\ Reading'
    BY <2>1, <2>2 DEF Innermost, Reading, Pending
  <2> QED BY <2>14, <2>15, <2>16, <2>18, <2>19 DEF ExpandInv, Suspended
<1> QED BY <1>1, <1>2

LEMMA SubstituteHides == ExpandInv /\ Substitute => ExpandInv'
<1> SUFFICES ASSUME ExpandInv, Substitute PROVE ExpandInv'
  OBVIOUS
<1>1. CASE TooDeep
  BY <1>1, TooDeepHides
<1>2. CASE ~TooDeep
  <2> DEFINE m == Pending.macro
             text == Substituted(Pending.macro, Pending.expanded)
             L == Len(calls)
  <2>1. /\ mode = "expandArg" /\ mode' = "scan" /\ Len(frames) <= MaxFrames
        /\ active' = [active EXCEPT ![m] = FALSE]
        /\ frames' = Pushed(frames, text, m)
        /\ calls' = Front(calls)
        /\ UNCHANGED <<macros, barrier>>
    BY <1>2 DEF Substitute, PushInput, CanPush, Pushed
  <2>2. Table /\ Stacks /\ Calls /\ Below /\ Nested /\ Innermost /\ Hides(active, frames)
    BY <2>1 DEF ExpandInv, Suspended
  <2>3. None \notin DOMAIN macros
    BY <2>2, NoneIsNoMacro
  <2>4. calls # <<>> /\ active[m] /\ barrier = Pending.barrier
    BY <2>1, <2>2 DEF Innermost
  <2>5. L \in Nat /\ L >= 1 /\ IsList(calls)
    <3>1. IsList(calls)
      BY <2>2 DEF Calls
    <3> QED BY <2>4, <3>1, ListFacts
  <2>6. Pending = calls[L]
    BY DEF Pending, Last
  <2>7. m \in DOMAIN macros
    BY <2>2, <2>5, <2>6 DEF Calls
  <2>8. active \in [DOMAIN macros -> BOOLEAN] /\ IsStack(frames)
        /\ Len(frames) \in Nat /\ barrier \in Nat /\ barrier < Len(frames)
    BY <2>2, ListFacts DEF Table, Stacks, IsStack
  <2>9. IsList(Front(calls)) /\ Len(Front(calls)) = L - 1
        /\ \A k \in 1 .. L - 1 : Front(calls)[k] = calls[k]
    BY <2>4, <2>5, FrontList
  <2> HIDE DEF m, text, L
  <2>10. Len(calls') = L - 1 /\ IsList(calls') /\ \A k \in 1 .. L - 1 : calls'[k] = calls[k]
    BY <2>1, <2>9
  <2>11. \A k \in 1 .. L - 1 : k \in 1 .. L /\ k < L
    BY <2>5
  <2>12. m # None /\ active' = Hiding(active, m)
    BY <2>1, <2>3, <2>7 DEF Hiding
  <2>13. /\ IsStack(frames') /\ Len(frames') = Len(frames) + 1
         /\ \A i \in 1 .. Len(frames) : frames'[i] = frames[i]
         /\ active' \in [DOMAIN macros -> BOOLEAN] /\ Hides(active', frames')
    <3>1. m \in {None} \cup DOMAIN macros /\ (m # None => active[m])
      BY <2>4, <2>7
    <3>2. PICK t : t = frames'
      OBVIOUS
    <3>3. PICK a : a = active'
      OBVIOUS
    <3>4. t = Pushed(frames, text, m) /\ a = Hiding(active, m)
      BY <2>1, <2>12, <3>2, <3>3
    <3>5. /\ IsStack(t) /\ Len(t) = Len(frames) + 1
          /\ \A i \in 1 .. Len(frames) : t[i] = frames[i]
          /\ a \in [DOMAIN macros -> BOOLEAN] /\ Hides(a, t)
      BY <2>2, <2>3, <2>8, <3>1, <3>4, PushHides
    <3> QED BY <3>2, <3>3, <3>5
  <2>14. Table' /\ IsStack(frames)' /\ Hides(active, frames)'
    BY <2>1, <2>2, <2>13 DEF Table, IsStack, Hides
  <2>15. Stacks'
    BY <2>1, <2>8, <2>13, <2>14, BoundsAssumption DEF Stacks
  <2>16. Calls'
    <3>1. \A k \in 1 .. L - 1 :
            /\ IsSuspended(calls[k]) /\ calls[k].macro \in DOMAIN macros
            /\ calls[k].barrier \in Nat /\ calls[k].depth \in Nat
      BY <2>2, <2>11 DEF Calls, L
    <3> QED BY <2>1, <2>10, <3>1 DEF Calls, IsList, IsSuspended
  <2>17. Nested'
    <3>1. \A k \in 2 .. L - 1 : calls'[k].barrier = calls'[k - 1].depth - 1
      <4> TAKE k \in 2 .. L - 1
      <4>1. k \in 2 .. L /\ k \in 1 .. L - 1 /\ k - 1 \in 1 .. L - 1
        BY <2>5
      <4>2. calls[k].barrier = calls[k - 1].depth - 1
        BY <2>2, <4>1 DEF Nested, L
      <4> QED BY <2>10, <4>1, <4>2
    <3>2. \A j, k \in 1 .. L - 1 : j < k => calls'[j].depth <= calls'[k].barrier + 1
      <4>1. \A j, k \in 1 .. L : j < k => calls[j].depth <= calls[k].barrier + 1
        BY <2>2 DEF Nested, L
      <4> QED BY <2>10, <2>11, <4>1
    <3> QED BY <2>10, <3>1, <3>2 DEF Nested
  <2>18. Below'
    <3> SUFFICES ASSUME NEW k \in 1 .. L - 1
                 PROVE  /\ calls[k].barrier < calls[k].depth /\ calls[k].depth <= barrier + 1
                        /\ \A i \in 1 .. calls[k].depth : frames'[i].macro # calls[k].macro
      BY <2>1, <2>10 DEF Below, Scanning
    <3>1. Scanning(k) /\ k \in 1 .. Len(calls)
      BY <2>11 DEF Scanning, L
    <3>2. PICK t : t = frames'
      OBVIOUS
    <3>3. \A i \in 1 .. Len(frames) : t[i].macro = frames[i].macro
      BY <2>13, <3>2
    <3>4. Stacks /\ Calls /\ Below /\ Len(frames) \in Nat /\ Len(frames) > barrier
      BY <2>2, <2>8
    <3>5. /\ calls[k].barrier < calls[k].depth /\ calls[k].depth <= barrier + 1
          /\ \A i \in 1 .. calls[k].depth : t[i].macro # calls[k].macro
      BY <3>1, <3>3, <3>4, StaysBelow
    <3> QED BY <3>2, <3>5
  <2>19. Innermost'
    <3> SUFFICES ASSUME calls' # <<>> PROVE barrier' = Pending'.depth - 1
      BY <2>1 DEF Innermost
    <3>1. L - 1 >= 1
      BY <2>5, <2>10, ListFacts
    <3>2. L \in 2 .. L /\ L - 1 \in 1 .. L - 1
      BY <2>5, <3>1
    <3>3. calls[L].barrier = calls[L - 1].depth - 1
      BY <2>2, <3>2 DEF Nested, L
    <3>4. Pending' = calls'[L - 1]
      BY <2>10 DEF Pending, Last
    <3> QED BY <2>1, <2>4, <2>6, <2>10, <3>2, <3>3, <3>4
  <2>20. Reading'
    BY <2>1 DEF Reading
  <2> QED BY <2>14, <2>15, <2>16, <2>17, <2>18, <2>19, <2>20 DEF ExpandInv, Suspended
<1> QED BY <1>1, <1>2

LEMMA EndArgsHides == ExpandInv /\ EndArgs => ExpandInv'
<1> SUFFICES ASSUME ExpandInv, EndArgs PROVE ExpandInv'
  OBVIOUS
<1> DEFINE L == Len(calls)
           actual == ActualArgs
           c == [macro |-> call.macro, args |-> actual, expanded |-> <<>>, depth |-> 0,
                 out |-> out, barrier |-> barrier]
<1>1. /\ mode = "args" /\ mode' = "expandArg" /\ calls' = Append(calls, c)
      /\ UNCHANGED <<macros, barrier>> /\ active' = Reactivated
      /\ \/ frames' = Peeked
         \/ frames' = [Peeked EXCEPT ![Len(Peeked)].pos = Peeked[Len(Peeked)].pos + 1]
  <2>1. Read \/ Peek
    BY DEF EndArgs
  <2>2. /\ active' = Reactivated
        /\ \/ frames' = Peeked
           \/ frames' = [Peeked EXCEPT ![Len(Peeked)].pos = Peeked[Len(Peeked)].pos + 1]
    BY <2>1, Zenon DEF Read, Peek, Advanced
  <2> HIDE DEF actual
  <2>3. mode = "args" /\ mode' = "expandArg" /\ UNCHANGED <<macros, barrier>>
    BY DEF EndArgs
  <2>4. calls' = Append(calls, c)
    BY Zenon DEF EndArgs, actual
  <2> QED BY <2>2, <2>3, <2>4
<1> HIDE DEF actual
<1>2. /\ IsSuspended(c) /\ c.macro = call.macro /\ c.depth = 0 /\ c.barrier = barrier
  BY DEF IsSuspended
<1> HIDE DEF c
<1>3. Table /\ Stacks /\ Calls /\ Below /\ Nested /\ Innermost /\ Hides(active, frames)
  BY <1>1 DEF ExpandInv, Suspended
<1>4. call.macro \in DOMAIN macros /\ active[call.macro]
  BY <1>1 DEF ExpandInv, Reading
<1>5. PICK n : Cuts(n)
  BY <1>1, <1>3, ReadCuts
<1>6. /\ Table' /\ IsStack(frames)' /\ Hides(active, frames)'
      /\ Len(frames') = n /\ n \in barrier + 1 .. Len(frames)
      /\ n <= MaxFrames + 1 /\ barrier < n
      /\ active'[call.macro]
      /\ \A i \in 1 .. n : frames'[i].macro = frames[i].macro
  BY <1>1, <1>3, <1>4, <1>5, CutsKeep
<1>7. Stacks'
  BY <1>1, <1>3, <1>6 DEF Stacks
<1>8. IsList(calls) /\ L \in Nat /\ barrier \in Nat
  BY <1>3, ListFacts DEF Calls, Stacks
<1>9. /\ IsList(calls') /\ Len(calls') = L + 1 /\ (\A k \in 1 .. L : calls'[k] = calls[k])
      /\ calls'[L + 1] = c
  BY <1>1, <1>8, AppendList
<1> DEFINE old == 1 .. L
<1>10. \A k \in 1 .. L + 1 : k \in old \/ k = L + 1
  BY <1>8
<1>11. \A k \in old : k \in 1 .. Len(calls) /\ calls'[k] = calls[k] /\ Scanning(k)
  BY <1>1, <1>9 DEF Scanning
<1>12. Calls'
  <2>1. \A k \in old : /\ IsSuspended(calls[k]) /\ calls[k].macro \in DOMAIN macros
                       /\ calls[k].barrier \in Nat /\ calls[k].depth \in Nat
    BY <1>3 DEF Calls
  <2> QED BY <1>1, <1>2, <1>4, <1>8, <1>9, <1>10, <1>11, <2>1 DEF Calls, IsList, IsSuspended
<1>13. \A k \in old :
          /\ calls[k].barrier \in Nat /\ calls[k].depth \in Nat
          /\ calls[k].barrier < calls[k].depth /\ calls[k].depth <= barrier + 1
          /\ \A i \in 1 .. calls[k].depth : frames'[i].macro # calls[k].macro
  <2> TAKE k \in old
  <2>1. PICK t : t = frames'
    OBVIOUS
  <2>2. \A i \in 1 .. n : t[i].macro = frames[i].macro
    BY <1>6, <2>1
  <2>3. n \in Nat /\ n > barrier
    BY <1>6, <1>8
  <2>4. k \in 1 .. Len(calls) /\ Scanning(k)
    BY <1>11
  <2> HIDE DEF old
  <2> QED BY <1>3, <2>1, <2>2, <2>3, <2>4, StaysBelow
<1>14. Below'
  <2> SUFFICES ASSUME NEW k \in 1 .. L + 1, k < L + 1
               PROVE  /\ calls'[k].barrier < calls'[k].depth /\ calls'[k].depth <= barrier + 1
                      /\ \A i \in 1 .. calls'[k].depth : frames'[i].macro # calls'[k].macro
    BY <1>1, <1>9 DEF Below, Scanning
  <2>1. k \in old
    BY <1>10
  <2> QED BY <1>11, <1>13, <2>1
<1>15. Nested'
  <2>1. \A k \in 2 .. L + 1 : calls'[k].barrier = calls'[k - 1].depth - 1
    <3> TAKE k \in 2 .. L + 1
    <3>1. k - 1 \in old
      BY <1>8
    <3>2. CASE k = L + 1
      <4>1. k - 1 = L
        BY <1>8, <3>2
      <4>2. calls # <<>>
        BY <1>8, <3>1, <4>1, ListFacts
      <4>3. barrier = calls[L].depth - 1
        BY <1>1, <1>3, <4>2 DEF Innermost, Pending, Last
      <4> QED BY <1>2, <1>9, <1>11, <3>1, <3>2, <4>1, <4>3
    <3>3. CASE k # L + 1
      <4>1. k \in old /\ k \in 2 .. Len(calls)
        BY <1>8, <3>3
      <4>2. calls[k].barrier = calls[k - 1].depth - 1
        BY <1>3, <4>1 DEF Nested
      <4> QED BY <1>11, <3>1, <4>1, <4>2
    <3> QED BY <3>2, <3>3
  <2>2. \A j, k \in 1 .. L + 1 : j < k => calls'[j].depth <= calls'[k].barrier + 1
    <3> TAKE j, k \in 1 .. L + 1
    <3> HAVE j < k
    <3>1. j \in old
      BY <1>8
    <3>2. CASE k = L + 1
      BY <1>2, <1>9, <1>11, <1>13, <3>1, <3>2
    <3>3. CASE k # L + 1
      <4>1. k \in old
        BY <1>10, <3>3
      <4>2. calls[j].depth <= calls[k].barrier + 1
        BY <1>3, <1>11, <3>1, <4>1 DEF Nested
      <4> QED BY <1>11, <3>1, <4>1, <4>2
    <3> QED BY <3>2, <3>3
  <2> QED BY <1>9, <2>1, <2>2 DEF Nested
<1>16. Innermost'
  <2>1. calls' # <<>>
    BY <1>8, <1>9, ListFacts
  <2>2. Pending' = c
    BY <1>9 DEF Pending, Last
  <2> QED BY <1>1, <1>2, <1>6, <2>1, <2>2 DEF Innermost
<1>17. Reading'
  BY <1>1 DEF Reading
<1> QED BY <1>6, <1>7, <1>12, <1>14, <1>15, <1>16, <1>17 DEF ExpandInv, Suspended

(* A step that sets fields of the innermost suspended call.                *)
LEMMA PendingIsLast ==
  ASSUME Calls, calls # <<>>
  PROVE  /\ IsList(calls) /\ Len(calls) \in Nat /\ Len(calls) \in 1 .. Len(calls)
         /\ Pending = calls[Len(calls)] /\ IsSuspended(Pending) /\ Pending.macro \in DOMAIN macros
         /\ Pending.barrier \in Nat /\ Pending.depth \in Nat
<1>1. IsList(calls) /\ Len(calls) \in Nat /\ Len(calls) # 0
  BY ListFacts DEF Calls
<1>2. Len(calls) \in 1 .. Len(calls)
  BY <1>1
<1>3. Pending = calls[Len(calls)]
  BY DEF Pending, Last
<1> QED BY <1>1, <1>2, <1>3 DEF Calls

WithDepth(c, d) == [c EXCEPT !.depth = d]
WithExpanded(c, x) == [c EXCEPT !.expanded = x]

LEMMA SetPending ==
  ASSUME NEW c, IsSuspended(c), NEW d, NEW x
  PROVE  LET depth == WithDepth(c, d)
             expanded == WithExpanded(c, x)
         IN  /\ IsSuspended(depth) /\ depth.macro = c.macro /\ depth.barrier = c.barrier
             /\ depth.depth = d
             /\ IsSuspended(expanded) /\ expanded.macro = c.macro
             /\ expanded.barrier = c.barrier /\ expanded.depth = c.depth
<1> DEFINE m == c.macro
           a == c.args
           y == c.expanded
           z == c.depth
           o == c.out
           b == c.barrier
           depth == WithDepth(c, d)
           expanded == WithExpanded(c, x)
<1>1. c = [macro |-> m, args |-> a, expanded |-> y, depth |-> z, out |-> o, barrier |-> b]
  BY DEF IsSuspended
<1> HIDE DEF m, a, y, z, o, b
<1>2. depth = [macro |-> m, args |-> a, expanded |-> y, depth |-> d, out |-> o, barrier |-> b]
  BY <1>1 DEF WithDepth
<1>3. expanded = [macro |-> m, args |-> a, expanded |-> x, depth |-> z, out |-> o, barrier |-> b]
  BY <1>1 DEF WithExpanded
<1> HIDE DEF depth, expanded
<1>4. IsSuspended(depth) /\ depth.macro = m /\ depth.barrier = b /\ depth.depth = d
  BY <1>2 DEF IsSuspended
<1>5. /\ IsSuspended(expanded) /\ expanded.macro = m /\ expanded.barrier = b
      /\ expanded.depth = z
  BY <1>3 DEF IsSuspended
<1> QED BY <1>4, <1>5 DEF depth, expanded, m, b, z

(* The bookkeeping that NextArg and FinishArg share: one field of the      *)
(* innermost call changes, its barrier and macro do not.                   *)
LEMMA PendingReplaced ==
  ASSUME Calls, Nested, calls # <<>>, macros' = macros,
         NEW e, IsSuspended(e), e.macro = Pending.macro, e.barrier = Pending.barrier,
         e.depth \in Nat, calls' = Replaced(calls, Len(calls), e)
  PROVE  /\ Calls' /\ Nested' /\ Len(calls') = Len(calls) /\ calls'[Len(calls)] = e
         /\ calls' # <<>> /\ Pending' = e
         /\ \A k \in 1 .. Len(calls) : k # Len(calls) => calls'[k] = calls[k]
<1> DEFINE L == Len(calls)
<1>1. /\ IsList(calls) /\ L \in Nat /\ L \in 1 .. L /\ Pending = calls[L]
      /\ Pending.macro \in DOMAIN macros /\ Pending.barrier \in Nat
  BY PendingIsLast
<1>2. PICK t : t = calls'
  OBVIOUS
<1>3. IsList(t) /\ Len(t) = L /\ t[L] = e /\ \A k \in 1 .. L : k # L => t[k] = calls[k]
  <2>1. t = Replaced(calls, L, e)
    BY <1>2
  <2>2. PICK s, n : s = calls /\ n = L
    OBVIOUS
  <2>3. t = Replaced(s, n, e) /\ IsList(s) /\ n \in 1 .. Len(s)
    BY <1>1, <2>1, <2>2
  <2>4. IsList(t) /\ Len(t) = Len(s) /\ t[n] = e /\ \A k \in 1 .. Len(s) : k # n => t[k] = s[k]
    BY <2>3, ReplaceInList
  <2> QED BY <2>2, <2>4
<1>4. \A k \in 1 .. L : t[k].macro = calls[k].macro /\ t[k].barrier = calls[k].barrier
  BY <1>1, <1>3
<1>5. Calls'
  <2>1. \A k \in 1 .. L : /\ IsSuspended(calls[k]) /\ calls[k].macro \in DOMAIN macros
                          /\ calls[k].barrier \in Nat /\ calls[k].depth \in Nat
    BY DEF Calls
  <2>2. \A k \in 1 .. L : /\ IsSuspended(t[k]) /\ t[k].macro \in DOMAIN macros
                          /\ t[k].barrier \in Nat /\ t[k].depth \in Nat
    <3> TAKE k \in 1 .. L
    <3>1. CASE k = L
      BY <1>1, <1>3, <3>1
    <3>2. CASE k # L
      BY <1>3, <2>1, <3>2
    <3> QED BY <3>1, <3>2
  <2> HIDE DEF L
  <2> QED BY <1>2, <1>3, <2>2 DEF Calls, IsList, IsSuspended
<1>6. Nested'
  <2>1. \A k \in 2 .. L : t[k].barrier = t[k - 1].depth - 1
    <3> TAKE k \in 2 .. L
    <3>1. k \in 1 .. L /\ k - 1 \in 1 .. L /\ k - 1 # L
      BY <1>1
    <3>2. calls[k].barrier = calls[k - 1].depth - 1
      BY DEF Nested
    <3> QED BY <1>3, <1>4, <3>1, <3>2
  <2>2. \A j, k \in 1 .. L : j < k => t[j].depth <= t[k].barrier + 1
    <3> TAKE j, k \in 1 .. L
    <3> HAVE j < k
    <3>1. j # L
      BY <1>1
    <3>2. calls[j].depth <= calls[k].barrier + 1
      BY DEF Nested
    <3> QED BY <1>3, <1>4, <3>1, <3>2
  <2> HIDE DEF L
  <2> QED BY <1>2, <1>3, <2>1, <2>2 DEF Nested
<1>7. t # <<>>
  BY <1>1, <1>3, ListFacts
<1>8. Pending' = e
  BY <1>2, <1>3 DEF Pending, Last
<1> QED BY <1>2, <1>3, <1>5, <1>6, <1>7, <1>8

LEMMA NextArgHides == ExpandInv /\ NextArg => ExpandInv'
<1> SUFFICES ASSUME ExpandInv, NextArg PROVE ExpandInv'
  OBVIOUS
<1>1. CASE TooDeep
  BY <1>1, TooDeepHides
<1>2. CASE ~TooDeep
  <2> DEFINE text == Pending.args[Len(Pending.expanded) + 1]
             L == Len(calls)
             d == Len(frames)
             e == WithDepth(Pending, d)
  <2>1. /\ mode = "expandArg" /\ mode' = "scan" /\ Len(frames) <= MaxFrames
        /\ calls' = [calls EXCEPT ![L].depth = d] /\ barrier' = d - 1
        /\ frames' = Pushed(frames, text, None)
        /\ UNCHANGED <<macros, active>>
    BY <1>2 DEF NextArg, PushInput, CanPush, Pushed, RaisedBarrier
  <2>2. Table /\ Stacks /\ Calls /\ Below /\ Nested /\ Innermost /\ Hides(active, frames)
    BY <2>1 DEF ExpandInv, Suspended
  <2>3. None \notin DOMAIN macros
    BY <2>2, NoneIsNoMacro
  <2>4. calls # <<>> /\ active[Pending.macro] /\ barrier = Pending.barrier
    BY <2>1, <2>2 DEF Innermost
  <2>5. /\ IsList(calls) /\ L \in Nat /\ L \in 1 .. L /\ Pending = calls[L]
        /\ IsSuspended(Pending) /\ Pending.macro \in DOMAIN macros
    BY <2>2, <2>4, PendingIsLast
  <2>6. active \in [DOMAIN macros -> BOOLEAN] /\ IsStack(frames)
        /\ d \in Nat /\ barrier \in Nat /\ barrier < d /\ d <= MaxFrames
    BY <2>1, <2>2, ListFacts DEF Table, Stacks, IsStack
  <2>7. calls' = Replaced(calls, L, e)
    <3> HIDE DEF d
    <3> QED BY <2>1, <2>5 DEF Replaced, WithDepth
  <2>8. IsSuspended(e) /\ e.macro = Pending.macro /\ e.barrier = Pending.barrier /\ e.depth = d
    BY <2>5, SetPending
  <2> HIDE DEF e, text
  <2>9. /\ Calls' /\ Nested' /\ Len(calls') = L /\ calls'[L] = e
        /\ calls' # <<>> /\ Pending' = e
        /\ \A k \in 1 .. L : k # L => calls'[k] = calls[k]
    BY <2>1, <2>2, <2>4, <2>6, <2>7, <2>8, PendingReplaced
  <2>10. /\ IsStack(frames)' /\ Len(frames') = d + 1
         /\ \A i \in 1 .. d : frames'[i] = frames[i]
         /\ Hides(active, frames)'
    <3>1. PICK t : t = frames'
      OBVIOUS
    <3>2. t = Pushed(frames, text, None) /\ active = Hiding(active, None)
      BY <2>1, <3>1 DEF Hiding
    <3>3. /\ IsStack(t) /\ Len(t) = Len(frames) + 1
          /\ \A i \in 1 .. Len(frames) : t[i] = frames[i]
          /\ Hides(active, t)
      BY <2>2, <2>3, <2>6, <3>2, PushHides
    <3> QED BY <2>1, <3>1, <3>3 DEF IsStack, Hides
  <2>11. Table'
    BY <2>1, <2>2 DEF Table
  <2>12. Stacks'
    BY <2>1, <2>6, <2>10, BoundsAssumption DEF Stacks
  <2>13. Below'
    <3> SUFFICES ASSUME NEW k \in 1 .. L
                 PROVE  /\ calls'[k].barrier < calls'[k].depth /\ calls'[k].depth <= d - 1 + 1
                        /\ \A i \in 1 .. calls'[k].depth : frames'[i].macro # calls'[k].macro
      BY <2>1, <2>9 DEF Below, Scanning
    <3>1. CASE k = L
      <4>1. calls'[k] = e
        BY <2>9, <3>1
      <4>2. \A i \in 1 .. d : frames[i].macro # Pending.macro
        BY <2>2, <2>4, <2>5, Zenon DEF Hides
      <4> QED BY <2>4, <2>6, <2>8, <2>10, <4>1, <4>2
    <3>2. CASE k # L
      <4>1. k \in 1 .. Len(calls) /\ Scanning(k) /\ calls'[k] = calls[k]
        BY <2>5, <2>9, <3>2 DEF Scanning
      <4>2. PICK t : t = frames'
        OBVIOUS
      <4>3. \A i \in 1 .. d : t[i].macro = frames[i].macro
        BY <2>10, <4>2
      <4>4. d \in Nat /\ d > barrier
        BY <2>6
      <4>5. /\ calls[k].barrier \in Nat /\ calls[k].depth \in Nat
            /\ calls[k].barrier < calls[k].depth /\ calls[k].depth <= barrier + 1
            /\ \A i \in 1 .. calls[k].depth : t[i].macro # calls[k].macro
        <5> HIDE DEF L, d
        <5> QED BY <2>2, <4>1, <4>3, <4>4, StaysBelow
      <4> QED BY <2>6, <4>1, <4>2, <4>5
    <3> QED BY <3>1, <3>2
  <2>14. Innermost'
    BY <2>1, <2>8, <2>9 DEF Innermost
  <2>15. Reading'
    BY <2>1 DEF Reading
  <2> QED BY <2>9, <2>10, <2>11, <2>12, <2>13, <2>14, <2>15 DEF ExpandInv, Suspended
<1> QED BY <1>1, <1>2

LEMMA FinishArgHides == ExpandInv /\ FinishArg => ExpandInv'
<1> SUFFICES ASSUME ExpandInv, FinishArg PROVE ExpandInv'
  OBVIOUS
<1> DEFINE L == Len(calls)
           x == Append(Pending.expanded, out)
           e == WithExpanded(Pending, x)
           n == barrier + 1
<1>1. /\ mode = "scan" /\ mode' = "expandArg" /\ calls # <<>> /\ barrier' = Pending.barrier
      /\ frames' = SubSeq(Peeked, 1, n)
      /\ active' = [m \in DOMAIN active |->
                      Reactivated[m] \/ \E i \in n + 1 .. Len(Peeked) : Peeked[i].macro = m]
      /\ macros' = macros
  BY DEF FinishArg, DrainTo
<1>2. Table /\ Stacks /\ Calls /\ Below /\ Nested /\ Innermost /\ Hides(active, frames)
  BY <1>1 DEF ExpandInv, Suspended
<1>3. /\ IsList(calls) /\ L \in Nat /\ L \in 1 .. L /\ Pending = calls[L]
      /\ IsSuspended(Pending) /\ Pending.macro \in DOMAIN macros
      /\ Pending.barrier \in Nat /\ Pending.depth \in Nat
  BY <1>1, <1>2, PendingIsLast
<1>4. barrier = Pending.depth - 1
  BY <1>1, <1>2 DEF Innermost
<1>5. active \in [DOMAIN macros -> BOOLEAN] /\ IsStack(frames) /\ IsList(frames)
      /\ Len(frames) \in Nat /\ barrier \in Nat /\ barrier < Len(frames)
      /\ Len(frames) <= MaxFrames + 1
  BY <1>2, ListFacts DEF Table, Stacks, IsStack
<1>6. Cuts(n)
  <2> DEFINE K == KeptFrames
             s == Peeked
  <2>1. /\ K \in barrier + 1 .. Len(frames) /\ CutTo(s, frames, K)
        /\ Reactivated = Revived(active, frames, K)
    BY <1>2, PeekCuts
  <2> HIDE DEF K, s
  <2>2. IsList(s) /\ Len(s) = K /\ \A i \in 1 .. K : IsFrame(s[i]) /\ s[i].macro = frames[i].macro
    BY <2>1 DEF CutTo
  <2>3. n \in 0 .. Len(s) /\ n \in barrier + 1 .. Len(frames) /\ \A i \in 1 .. n : i \in 1 .. K
    BY <1>5, <2>1, <2>2
  <2>4. CutTo(frames', frames, n)
    <3>1. frames' = SubSeq(s, 1, n)
      BY <1>1 DEF s
    <3>2. /\ IsList(SubSeq(s, 1, n)) /\ Len(SubSeq(s, 1, n)) = n
          /\ \A i \in 1 .. n : SubSeq(s, 1, n)[i] = s[i]
      BY <2>2, <2>3, CutList
    <3> HIDE DEF n
    <3> QED BY <2>2, <2>3, <3>1, <3>2 DEF CutTo
  <2>5. active' = Revived(active, frames, n)
    <3>1. \A m \in DOMAIN active :
            (\E i \in n + 1 .. Len(frames) : frames[i].macro = m)
              <=> \/ \E i \in K + 1 .. Len(frames) : frames[i].macro = m
                  \/ \E i \in n + 1 .. K : s[i].macro = m
      <4>1. \A i \in n + 1 .. Len(frames) :
              i \in K + 1 .. Len(frames) \/ (i \in n + 1 .. K /\ i \in 1 .. K)
        BY <1>5, <2>1
      <4>2. (\A i \in K + 1 .. Len(frames) : i \in n + 1 .. Len(frames))
            /\ \A i \in n + 1 .. K : i \in n + 1 .. Len(frames) /\ i \in 1 .. K
        BY <1>5, <2>1
      <4> HIDE DEF n
      <4> QED BY <2>2, <4>1, <4>2
    <3>2. \A m \in DOMAIN active :
            Reactivated[m] = (active[m] \/ \E i \in K + 1 .. Len(frames) : frames[i].macro = m)
      BY <2>1, Zenon DEF Revived
    <3>3. active' = [m \in DOMAIN active |->
                      Reactivated[m] \/ \E i \in n + 1 .. K : s[i].macro = m]
      BY <1>1, <2>2 DEF s
    <3> HIDE DEF n
    <3>4. \A m \in DOMAIN active :
            (Reactivated[m] \/ \E i \in n + 1 .. K : s[i].macro = m)
              = (active[m] \/ \E i \in n + 1 .. Len(frames) : frames[i].macro = m)
      BY <3>1, <3>2, Zenon
    <3> QED BY <3>3, <3>4, Zenon DEF Revived
  <2> QED BY <2>3, <2>4, <2>5 DEF Cuts
<1>7. /\ Table' /\ IsStack(frames)' /\ Hides(active, frames)'
      /\ Len(frames') = n
      /\ \A i \in 1 .. n : frames'[i].macro = frames[i].macro
  BY <1>1, <1>2, <1>6, CutsKeep
<1>8. calls' = Replaced(calls, L, e)
  <2>1. calls' = [calls EXCEPT ![L] = [calls[L] EXCEPT !.expanded = Append(calls[L].expanded, out)]]
    BY Zenon DEF FinishArg
  <2> QED BY <1>3, <2>1 DEF Replaced, WithExpanded
<1>9. /\ IsSuspended(e) /\ e.macro = Pending.macro /\ e.barrier = Pending.barrier
      /\ e.depth = Pending.depth
  <2> HIDE DEF x
  <2> QED BY <1>3, SetPending
<1> HIDE DEF e, x
<1>10. /\ Calls' /\ Nested' /\ Len(calls') = L /\ calls'[L] = e
       /\ calls' # <<>> /\ Pending' = e
       /\ \A k \in 1 .. L : k # L => calls'[k] = calls[k]
  BY <1>1, <1>2, <1>3, <1>8, <1>9, PendingReplaced
<1>11. /\ Pending.barrier < Pending.depth /\ Pending.depth <= barrier + 1
       /\ \A i \in 1 .. Pending.depth : frames'[i].macro # Pending.macro
  <2>1. PICK t : t = frames'
    OBVIOUS
  <2>2. Scanning(L) /\ L \in 1 .. Len(calls) /\ n \in Nat /\ n > barrier
    BY <1>1, <1>3, <1>5 DEF Scanning
  <2>3. \A i \in 1 .. n : t[i].macro = frames[i].macro
    BY <1>7, <2>1
  <2> HIDE DEF L, n
  <2>4. /\ calls[L].barrier < calls[L].depth /\ calls[L].depth <= barrier + 1
        /\ \A i \in 1 .. calls[L].depth : t[i].macro # calls[L].macro
    BY <1>2, <2>2, <2>3, StaysBelow
  <2> QED BY <1>3, <2>1, <2>4
<1>12. Stacks'
  <2>1. n <= MaxFrames + 1 /\ Pending.barrier < n
    BY <1>3, <1>4, <1>5, <1>11, BoundsAssumption
  <2> QED BY <1>1, <1>3, <1>7, <2>1 DEF Stacks
<1>13. active'[Pending.macro]
  <2>1. \A i \in 1 .. Len(frames') : frames'[i].macro # Pending.macro
    <3>1. Pending.depth = n
      BY <1>3, <1>4, <1>5
    <3> QED BY <1>7, <1>11, <3>1
  <2>2. ~active'[Pending.macro] <=> \E i \in 1 .. Len(frames') : frames'[i].macro = Pending.macro
    <3>1. \A m \in DOMAIN macros : ~active'[m] <=> \E i \in 1 .. Len(frames') : frames'[i].macro = m
      BY <1>1, <1>7 DEF Hides
    <3> QED BY <1>3, <3>1, Zenon
  <2> QED BY <2>1, <2>2, Zenon
<1>14. Innermost'
  BY <1>1, <1>9, <1>10, <1>13 DEF Innermost
<1>15. Below'
  <2> SUFFICES ASSUME NEW k \in 1 .. L, k < L
               PROVE  /\ calls'[k].barrier < calls'[k].depth
                      /\ calls'[k].depth <= Pending.barrier + 1
                      /\ \A i \in 1 .. calls'[k].depth : frames'[i].macro # calls'[k].macro
    BY <1>1, <1>10 DEF Below, Scanning
  <2>1. k \in 1 .. Len(calls) /\ Scanning(k) /\ calls'[k] = calls[k]
    BY <1>3, <1>10 DEF Scanning
  <2>2. PICK t : t = frames'
    OBVIOUS
  <2>3. \A i \in 1 .. n : t[i].macro = frames[i].macro
    BY <1>7, <2>2
  <2>4. n \in Nat /\ n > barrier
    BY <1>5
  <2>5. calls[k].depth <= calls[L].barrier + 1
    BY <1>2, <1>3 DEF Nested
  <2>6. /\ calls[k].barrier < calls[k].depth
        /\ \A i \in 1 .. calls[k].depth : t[i].macro # calls[k].macro
    <3> HIDE DEF L, n
    <3> QED BY <1>2, <2>1, <2>3, <2>4, StaysBelow
  <2> QED BY <1>3, <2>1, <2>2, <2>5, <2>6
<1>16. Reading'
  BY <1>1 DEF Reading
<1> QED BY <1>7, <1>10, <1>12, <1>14, <1>15, <1>16 DEF ExpandInv, Suspended

LEMMA StepHides == ExpandInv /\ [Next]_vars => ExpandInv'
<1> SUFFICES ASSUME ExpandInv, [Next]_vars PROVE ExpandInv'
  OBVIOUS
<1>1. CASE Reads
  BY <1>1, ReadsHide
<1>2. CASE ExpandObject
  BY <1>2, ExpandObjectHides
<1>3. CASE EndArgs
  BY <1>3, EndArgsHides
<1>4. CASE NextArg
  BY <1>4, NextArgHides
<1>5. CASE FinishArg
  BY <1>5, FinishArgHides
<1>6. CASE Substitute
  BY <1>6, SubstituteHides
<1>7. CASE UNCHANGED vars
  BY <1>7 DEF vars, ExpandInv, Table, Stacks, Calls, Reading, Suspended, Below, Nested, Innermost,
     Hides, IsStack, IsList, IsFrame, IsSuspended, IsCall, Scanning, Pending
<1> QED BY <1>1, <1>2, <1>3, <1>4, <1>5, <1>6, <1>7 DEF Next, Terminated, Reads

-----------------------------------------------------------------------------

(* Whatever macros a program defines and however its calls nest, a macro   *)
(* is inactive exactly while its replacement text is on the input stack,   *)
(* and it is there once: neither pp_peek, nor the drain at the end of an   *)
(* argument, nor an argument that invokes the macro of the call it is read *)
(* for, loses or doubles a reactivation (pp_push_input, pp_peek,           *)
(* pp_expand_ident).                                                       *)
THEOREM HiddenExactlyOnStack == Spec => []HiddenWhileOnStack
<1>1. ExpandInv => HiddenWhileOnStack
  <2> SUFFICES ASSUME ExpandInv PROVE HiddenWhileOnStack
    OBVIOUS
  <2>1. DOMAIN frames = 1 .. Len(frames) /\ None \notin DOMAIN macros
    BY NoneIsNoMacro, ListFacts DEF ExpandInv, Stacks, IsStack
  <2>2. Hides(active, frames)
    BY DEF ExpandInv
  <2>3. ASSUME NEW m \in DOMAIN macros
        PROVE  ~active[m] <=> m \in BeingExpanded(frames)
    <3>1. ~active[m] <=> \E i \in DOMAIN frames : frames[i].macro = m
      BY <2>1, <2>2, Zenon DEF Hides
    <3>2. m # None
      BY <2>1
    <3> QED BY <3>1, <3>2, Zenon DEF BeingExpanded
  <2>4. \A i, j \in DOMAIN frames :
          frames[i].macro = frames[j].macro /\ frames[i].macro # None => i = j
    BY <2>1, <2>2, Zenon DEF Hides
  <2> QED BY <2>3, <2>4, Zenon DEF HiddenWhileOnStack
<1> QED BY <1>1, InitHides, StepHides, PTL DEF Spec

-----------------------------------------------------------------------------
(* Lists put together                                                      *)

(* Induction up to L, for the set of numbers that have some property.      *)
LEMMA StepByStep ==
  ASSUME NEW L \in Nat, NEW H \in SUBSET (0 .. L), 0 \in H,
         \A n \in 0 .. L : n \in H /\ n < L => n + 1 \in H
  PROVE  H = 0 .. L
<1> DEFINE M == (0 .. L) \ H
<1> SUFFICES ASSUME M # {} PROVE FALSE
  OBVIOUS
<1>1. PICK m \in M : \A k \in M : m <= k
  <2>1. M \in SUBSET Nat
    OBVIOUS
  <2> HIDE DEF M
  <2> QED
    BY <2>1, LeastNumber
<1>2. m \in 1 .. L
  BY <1>1
<1>3. m - 1 \in 0 .. L /\ m - 1 < L /\ m - 1 + 1 = m /\ ~(m <= m - 1)
  BY <1>2
<1>4. m - 1 \in H
  BY <1>1, <1>3
<1>5. m \in H
  BY <1>3, <1>4
<1> QED
  BY <1>1, <1>5

(* f goes from a through L steps, of which n is given by G with n. *)
Follows(f, A, a, G, L) ==
  f \in [0 .. L -> A] /\ f[0] = a /\ \A n \in 1 .. L : f[n] = G[<<n, f[n - 1]>>]

(* Whatever the steps are, there is such an f.                             *)
LEMMA Recursion ==
  ASSUME NEW A, NEW a \in A, NEW L \in Nat, NEW G \in [(1 .. L) \X A -> A]
  PROVE  \E f : Follows(f, A, a, G, L)
<1> DEFINE H == {n \in 0 .. L : \E f : Follows(f, A, a, G, n)}
<1>1. 0 \in H
  <2> DEFINE f == [i \in 0 .. 0 |-> a]
  <2>1. f \in [0 .. 0 -> A] /\ f[0] = a /\ \A i \in 1 .. 0 : f[i] = G[<<i, f[i - 1]>>]
    OBVIOUS
  <2> HIDE DEF f
  <2>2. Follows(f, A, a, G, 0)
    BY <2>1 DEF Follows
  <2> QED
    BY <2>2
<1>2. ASSUME NEW n \in 0 .. L, n \in H, n < L PROVE n + 1 \in H
  <2>1. PICK f : Follows(f, A, a, G, n)
    BY <1>2
  <2>2. f \in [0 .. n -> A] /\ f[0] = a /\ \A i \in 1 .. n : f[i] = G[<<i, f[i - 1]>>]
    BY <2>1 DEF Follows
  <2> DEFINE g == [i \in 0 .. (n + 1) |-> IF i = n + 1 THEN G[<<n + 1, f[n]>>] ELSE f[i]]
  <2>3. n \in Nat /\ n + 1 \in 1 .. L /\ n + 1 \in 0 .. L /\ f[n] \in A
    BY <1>2, <2>2
  <2>4. G[<<n + 1, f[n]>>] \in A
    BY <2>3
  <2>5. g \in [0 .. (n + 1) -> A]
    BY <2>2, <2>3, <2>4
  <2>6. g[0] = a
    BY <2>2, <2>3
  <2>7. ASSUME NEW i \in 1 .. (n + 1) PROVE g[i] = G[<<i, g[i - 1]>>]
    <3>1. CASE i = n + 1
      <4>1. i - 1 = n /\ g[i - 1] = f[n] /\ g[i] = G[<<n + 1, f[n]>>]
        BY <2>3, <3>1
      <4> QED
        BY <3>1, <4>1
    <3>2. CASE i # n + 1
      <4>1. i \in 1 .. n /\ i - 1 \in 0 .. n /\ i - 1 # n + 1
        BY <2>3, <3>2
      <4>2. g[i] = f[i] /\ g[i - 1] = f[i - 1]
        BY <2>3, <3>2, <4>1
      <4> QED
        BY <2>2, <4>1, <4>2
    <3> QED
      BY <3>1, <3>2
  <2> HIDE DEF g
  <2>8. Follows(g, A, a, G, n + 1)
    BY <2>5, <2>6, <2>7 DEF Follows
  <2> QED
    BY <2>3, <2>8
<1>3. L \in H
  <2>1. H \in SUBSET (0 .. L)
    OBVIOUS
  <2> HIDE DEF H
  <2>2. H = 0 .. L
    BY <1>1, <1>2, <2>1, StepByStep
  <2> QED
    BY <2>2
<1> QED
  BY <1>3

(* The texts of a program are lists.                                       *)
LEMMA TextIsList == ASSUME NEW s, IsText(s) PROVE IsList(s)
BY DEF IsText, IsList

(* Lists put together, one after the other.                                *)
LEMMA FlattenSteps ==
  ASSUME NEW seqs, IsList(seqs), \A i \in 1 .. Len(seqs) : IsList(seqs[i])
  PROVE  /\ seqs = <<>> => FlattenSeq(seqs) = <<>>
         /\ seqs # <<>> =>
              \E f, U : /\ FlattenSeq(seqs) = f[Len(seqs)]
                       /\ \A i \in 1 .. Len(seqs) :
                            /\ f[i] \in Seq(U) /\ seqs[i] \in Seq(U)
                            /\ f[i] = IF i = 1 THEN seqs[i] ELSE f[i - 1] \o seqs[i]
<1>1. Len(seqs) \in Nat /\ (seqs = <<>> <=> Len(seqs) = 0)
  BY ListFacts
<1>2. CASE seqs = <<>>
  <2>1. FlattenSeq(seqs) = seqs
    BY <1>1, <1>2 DEF FlattenSeq
  <2> QED BY <1>2, <2>1
<1>3. CASE seqs # <<>>
  <2> DEFINE n == Len(seqs)
             U == UNION {{seqs[i][j] : j \in 1 .. Len(seqs[i])} : i \in 1 .. n}
             A == Seq(U)
             One(i, x) == IF i = 1 THEN seqs[i] ELSE x \o seqs[i]
             G == [p \in (1 .. n) \X A |-> One(p[1], p[2])]
             flatten[i \in 1 .. n] == IF i = 1 THEN seqs[i] ELSE flatten[i - 1] \o seqs[i]
  <2>1. n \in Nat /\ n # 0
    BY <1>1, <1>3
  <2>2. FlattenSeq(seqs) = flatten[n]
    BY <2>1 DEF FlattenSeq
  <2> HIDE DEF n
  <2>3. \A i \in 1 .. n : seqs[i] \in A
    <3> SUFFICES ASSUME NEW i \in 1 .. n PROVE seqs[i] \in A
      OBVIOUS
    <3>1. PICK S : seqs[i] \in Seq(S)
      BY DEF IsList, n
    <3>2. \A j \in 1 .. Len(seqs[i]) : seqs[i][j] \in U
      OBVIOUS
    <3> HIDE DEF U
    <3> QED BY <3>1, <3>2
  <2>4. \A i \in 1 .. n, x \in A : One(i, x) \in A
    <3> HIDE DEF U
    <3> QED BY <2>3
  <2>5. G \in [(1 .. n) \X A -> A] /\ <<>> \in A
    <3> HIDE DEF One
    <3>1. <<>> \in A
      OBVIOUS
    <3> HIDE DEF A
    <3> QED BY <2>4, <3>1
  <2>6. PICK f : Follows(f, A, <<>>, G, n)
    <3> HIDE DEF G, A
    <3> QED BY <2>1, <2>5, Recursion
  <2>7. f \in [0 .. n -> A] /\ f[0] = <<>> /\ \A k \in 1 .. n : f[k] = One(k, f[k - 1])
    <3>1. f \in [0 .. n -> A] /\ f[0] = <<>> /\ \A k \in 1 .. n : f[k] = G[<<k, f[k - 1]>>]
      BY <2>6 DEF Follows
    <3>2. \A k \in 1 .. n : k - 1 \in 0 .. n
      BY <2>1
    <3> HIDE DEF One, A
    <3> QED BY <3>1, <3>2
  <2> DEFINE g == [i \in 1 .. n |-> f[i]]
  <2>8. g = [i \in 1 .. n |-> IF i = 1 THEN seqs[i] ELSE g[i - 1] \o seqs[i]]
    <3>1. \A i \in 1 .. n : i = 1 \/ i - 1 \in 1 .. n
      BY <2>1
    <3>2. \A i \in 1 .. n : g[i] = IF i = 1 THEN seqs[i] ELSE g[i - 1] \o seqs[i]
      BY <2>7, <3>1
    <3> HIDE DEF g
    <3>3. g = [i \in 1 .. n |-> g[i]]
      BY DEF g
    <3> QED BY <3>2, <3>3
  <2>9. flatten = [i \in 1 .. n |-> IF i = 1 THEN seqs[i] ELSE flatten[i - 1] \o seqs[i]]
    <3> HIDE DEF g
    <3> QED BY <2>8
  <2> HIDE DEF flatten, A, U
  <2>10. \A i \in 1 .. n : flatten[i] = IF i = 1 THEN seqs[i] ELSE flatten[i - 1] \o seqs[i]
    BY <2>9
  <2>11. \A k \in 1 .. n : flatten[k] \in A
    <3> DEFINE H == {k \in 0 .. n : k = 0 \/ flatten[k] \in A}
    <3>1. 0 \in H /\ H \in SUBSET (0 .. n)
      BY <2>1
    <3>2. \A k \in 0 .. n : k \in H /\ k < n => k + 1 \in H
      <4> SUFFICES ASSUME NEW k \in 0 .. n, k = 0 \/ flatten[k] \in A, k < n
                   PROVE  k + 1 \in 0 .. n /\ flatten[k + 1] \in A
        OBVIOUS
      <4>1. k + 1 \in 1 .. n /\ k + 1 - 1 = k /\ k + 1 \in 0 .. n
        BY <2>1
      <4>2. flatten[k + 1] = IF k = 0 THEN seqs[k + 1] ELSE flatten[k] \o seqs[k + 1]
        BY <2>10, <4>1
      <4>3. seqs[k + 1] \in A
        BY <2>3, <4>1
      <4>4. \A x, y \in A : x \o y \in A
        BY DEF A
      <4> QED BY <4>1, <4>2, <4>3, <4>4
    <3> HIDE DEF H
    <3>3. H = 0 .. n
      BY <2>1, <3>1, <3>2, StepByStep
    <3>4. \A k \in 1 .. n : k \in 0 .. n /\ k # 0
      BY <2>1
    <3> QED BY <3>3, <3>4 DEF H
  <2>12. \A i \in 1 .. n : flatten[i] \in Seq(U) /\ seqs[i] \in Seq(U)
    BY <2>3, <2>11 DEF A
  <2> QED BY <1>3, <2>2, <2>10, <2>12 DEF n
<1> QED BY <1>2, <1>3

(* What is put together is a list.                                         *)
LEMMA FlattenList ==
  ASSUME NEW seqs, IsList(seqs), \A i \in 1 .. Len(seqs) : IsList(seqs[i])
  PROVE  IsList(FlattenSeq(seqs))
<1>1. Len(seqs) \in Nat /\ (seqs = <<>> <=> Len(seqs) = 0)
  BY ListFacts
<1>2. CASE seqs = <<>>
  <2>1. FlattenSeq(seqs) = <<>>
    BY <1>2, FlattenSteps
  <2>2. <<>> \in Seq({})
    OBVIOUS
  <2> QED BY <2>1, <2>2 DEF IsList
<1>3. CASE seqs # <<>>
  <2>1. Len(seqs) \in 1 .. Len(seqs)
    BY <1>1, <1>3
  <2>2. PICK flatten, U : /\ FlattenSeq(seqs) = flatten[Len(seqs)]
                          /\ \A i \in 1 .. Len(seqs) : flatten[i] \in Seq(U)
    BY <1>3, FlattenSteps
  <2> QED BY <2>1, <2>2 DEF IsList
<1> QED BY <1>2, <1>3

-----------------------------------------------------------------------------
(* Texts and positions *)

(* The backends that do arithmetic cannot read the string of one blank.   *)
Blank == " "

(* A frame, wherever it stands, and one that stands in its text or right   *)
(* behind it.                                                              *)
ListFrame(f) == IsList(f.src) /\ f.pos \in Nat /\ 1 <= f.pos

Positioned(f) == ListFrame(f) /\ f.pos <= Len(f.src) + 1

ListFrames == \A i \in 1 .. Len(frames) : ListFrame(frames[i])

AllPositioned == \A i \in 1 .. Len(frames) : Positioned(frames[i])

Fits(o) == IsList(o) /\ Len(o) <= MaxOut

ListCall(c) ==
  /\ Fits(c.out)
  /\ IsList(c.args) /\ \A i \in 1 .. Len(c.args) : IsList(c.args[i])
  /\ IsList(c.expanded) /\ \A i \in 1 .. Len(c.expanded) : IsList(c.expanded[i])

ListCalls ==
  /\ \A k \in 1 .. Len(calls) : ListCall(calls[k])
  /\ mode = "args" =>
       IsList(call.args) /\ call.args # <<>> /\ \A i \in 1 .. Len(call.args) : IsList(call.args[i])

ListIdent == IsList(ident) /\ origin \subseteq DOMAIN macros

(* Between a name and what follows it nothing but blanks has been read.    *)
Blanks(src, first, pos) ==
  first \in Nat /\ 1 <= first /\ first <= pos /\ \A i \in first .. pos - 1 : src[i] = Blank

Behind(f) == Blanks(f.src, call.savedPos, f.pos)

(* A parenthesis is looked for in the frame the name was read from, or in  *)
(* one below it once that has run out, which is then gone for good.        *)
LeftBehind ==
  mode = "paren" =>
    /\ call.frame \in Nat /\ Len(frames) <= call.frame
    /\ call.savedPos \in Nat /\ 1 <= call.savedPos
    /\ Len(frames) = call.frame => Behind(frames[Len(frames)])

Modes == {"scan", "ident", "paren", "args", "expandArg", "done", "abort"}

Bodies == \A m \in DOMAIN macros : IsList(macros[m].body) /\ IsList(macros[m].params)

ListInv ==
  Bodies /\ ListFrames /\ Fits(out) /\ ListCalls /\ ListIdent /\ LeftBehind /\ mode \in Modes

-----------------------------------------------------------------------------
(* What a read does to the frames *)

(* What pp_peek leaves: the frames up to the last one that has something   *)
(* to read, or up to the barrier.                                          *)
LEMMA PeekFacts ==
  ASSUME Stacks
  PROVE  /\ KeptFrames \in barrier + 1 .. Len(frames) /\ KeptFrames \in 1 .. Len(frames)
         /\ IsList(Peeked) /\ Len(Peeked) = KeptFrames
         /\ \A i \in 1 .. KeptFrames : Peeked[i] = frames[i]
         /\ KeptFrames = barrier + 1 \/ ~Exhausted(frames[KeptFrames])
<1>1. IsList(frames) /\ Len(frames) \in Nat /\ barrier \in Nat /\ barrier + 1 <= Len(frames)
  BY ListFacts DEF Stacks, IsStack
<1> DEFINE S == {barrier + 1} \cup {i \in barrier + 1 .. Len(frames) : ~Exhausted(frames[i])}
<1>2. \A x \in S : x \in barrier + 1 .. Len(frames)
  BY <1>1
<1>3. S \in SUBSET Nat /\ S # {} /\ \A x \in S : x <= Len(frames)
  <2>1. barrier + 1 \in S
    OBVIOUS
  <2> HIDE DEF S
  <2> QED BY <1>1, <1>2, <2>1
<1>4. KeptFrames = Max(S)
  BY DEF KeptFrames
<1>5. \A x \in S : x = barrier + 1 \/ ~Exhausted(frames[x])
  OBVIOUS
<1> HIDE DEF S
<1>6. KeptFrames \in S
  BY <1>1, <1>3, <1>4, MaxFacts
<1>7. KeptFrames \in barrier + 1 .. Len(frames)
  BY <1>2, <1>6
<1>8. KeptFrames \in 1 .. Len(frames) /\ KeptFrames \in 0 .. Len(frames)
  BY <1>1, <1>7
<1>9. IsList(Peeked) /\ Len(Peeked) = KeptFrames /\ \A i \in 1 .. KeptFrames : Peeked[i] = frames[i]
  <2> DEFINE n == KeptFrames
  <2>1. n \in 0 .. Len(frames)
    BY <1>8
  <2> HIDE DEF n
  <2>2. IsList(SubSeq(frames, 1, n)) /\ Len(SubSeq(frames, 1, n)) = n
        /\ \A i \in 1 .. n : SubSeq(frames, 1, n)[i] = frames[i]
    BY <1>1, <2>1, CutList
  <2> QED BY <2>2 DEF n, Peeked
<1> QED BY <1>5, <1>6, <1>7, <1>8, <1>9

(* The frames after a step are those up to n, the position of the n-th is p. *)
Shape(n, p) ==
  /\ IsList(frames') /\ Len(frames') = n
  /\ \A i \in 1 .. n : frames'[i].src = frames[i].src /\ frames'[i].macro = frames[i].macro
  /\ \A i \in 1 .. n - 1 : frames'[i] = frames[i]
  /\ frames'[n].pos = p

(* The frames after a peek, and after a move within the current frame.     *)
LEMMA PeekShape ==
  ASSUME Stacks, frames' = Peeked
  PROVE  Shape(KeptFrames, frames[KeptFrames].pos)
<1> DEFINE n == KeptFrames
           t == Peeked
<1>1. n \in Nat /\ n \in 1 .. n /\ IsList(t) /\ Len(t) = n /\ \A i \in 1 .. n : t[i] = frames[i]
  BY PeekFacts DEF Stacks
<1> HIDE DEF n, t
<1>2. frames' = t
  BY DEF t
<1>3. \A i \in 1 .. n - 1 : i \in 1 .. n
  BY <1>1
<1>4. Shape(n, frames[n].pos)
  BY <1>1, <1>2, <1>3 DEF Shape
<1> QED BY <1>4 DEF n

LEMMA MoveShape ==
  ASSUME Stacks, NEW p, frames' = [Peeked EXCEPT ![Len(Peeked)].pos = p]
  PROVE  Shape(KeptFrames, p)
<1> DEFINE n == KeptFrames
           t == Peeked
<1>1. n \in Nat /\ n \in 1 .. n /\ IsList(t) /\ Len(t) = n /\ \A i \in 1 .. n : t[i] = frames[i]
  BY PeekFacts DEF Stacks
<1>2. \A i \in 1 .. n : IsFrame(frames[i])
  BY PeekFacts DEF Stacks, IsStack
<1>3. frames' = [t EXCEPT ![Len(t)].pos = p]
  OBVIOUS
<1> HIDE DEF n, t
<1>4. PICK e : e = [t[n] EXCEPT !.pos = p]
  OBVIOUS
<1>5. e.src = t[n].src /\ e.macro = t[n].macro /\ e.pos = p
  <2> DEFINE a == t[n].src
             b == t[n].pos
             c == t[n].macro
  <2>1. t[n] = [src |-> a, pos |-> b, macro |-> c]
    BY <1>1, <1>2 DEF IsFrame
  <2> HIDE DEF a, b, c
  <2>2. e = [src |-> a, pos |-> p, macro |-> c]
    BY <1>4, <2>1
  <2> QED BY <2>2 DEF a, c
<1>6. PICK u : u = Replaced(t, n, e)
  OBVIOUS
<1>7. IsList(u) /\ Len(u) = Len(t) /\ u[n] = e /\ \A i \in 1 .. Len(t) : i # n => u[i] = t[i]
  <2>1. n \in 1 .. Len(t)
    BY <1>1
  <2> QED BY <1>1, <1>6, <2>1, ReplaceInList
<1>8. frames' = u
  BY <1>1, <1>3, <1>4, <1>6 DEF Replaced
<1>9. \A i \in 1 .. n - 1 : i \in 1 .. n /\ i # n
  BY <1>1
<1>10. Shape(n, p)
  BY <1>1, <1>5, <1>7, <1>8, <1>9 DEF Shape
<1> QED BY <1>10 DEF n

(* What the next character says about the current frame.                   *)
LEMMA CharFacts ==
  ASSUME Stacks, ListFrames
  PROVE  LET f == frames[KeptFrames]
         IN  /\ Last(Peeked) = f /\ ListFrame(f)
             /\ Char # EndOfInput => f.pos <= Len(f.src) /\ Char = f.src[f.pos]
<1>1. Last(Peeked) = frames[KeptFrames] /\ KeptFrames \in 1 .. Len(frames)
  <2>1. KeptFrames \in 1 .. KeptFrames
    BY PeekFacts
  <2> QED BY <2>1, PeekFacts DEF Last
<1>2. ListFrame(frames[KeptFrames])
  BY <1>1 DEF ListFrames
<1>3. Char # EndOfInput => ~Exhausted(frames[KeptFrames]) /\ Char = frames[KeptFrames].src[frames[KeptFrames].pos]
  BY <1>1 DEF Char
<1>4. ~Exhausted(frames[KeptFrames]) => frames[KeptFrames].pos <= Len(frames[KeptFrames].src)
  <2> DEFINE f == frames[KeptFrames]
  <2>1. IsList(f.src) /\ f.pos \in Nat
    BY <1>2 DEF ListFrame
  <2> HIDE DEF f
  <2>2. Len(f.src) \in Nat
    BY <2>1, ListFacts
  <2>3. ~Exhausted(f) => f.pos <= Len(f.src)
    BY <2>1, <2>2 DEF Exhausted
  <2> QED BY <2>3 DEF f
<1> QED BY <1>1, <1>2, <1>3, <1>4

(* What a cut of the stack leaves of the frames.                           *)
LEMMA ShapeKeeps ==
  ASSUME Stacks, ListFrames, NEW n \in 1 .. Len(frames), NEW p \in Nat, 1 <= p, Shape(n, p)
  PROVE  /\ ListFrames'
         /\ AllPositioned /\ p <= Len(frames[n].src) + 1 => AllPositioned'
<1>1. \A i \in 1 .. n : i \in 1 .. Len(frames)
  BY ListFacts DEF Stacks, IsStack
<1>2. \A i \in 1 .. n : i \in 1 .. n - 1 \/ i = n
  OBVIOUS
<1>3. \A i \in 1 .. n : ListFrame(frames'[i])
  BY <1>1, <1>2 DEF Shape, ListFrames, ListFrame
<1>4. ListFrames'
  BY <1>3 DEF Shape, ListFrames, ListFrame, IsList
<1>5. ASSUME AllPositioned, p <= Len(frames[n].src) + 1
      PROVE  AllPositioned'
  <2>1. \A i \in 1 .. n : frames'[i].pos <= Len(frames'[i].src) + 1
    BY <1>1, <1>2, <1>5 DEF Shape, AllPositioned, Positioned
  <2> QED BY <1>3, <2>1 DEF Shape, AllPositioned, Positioned, ListFrame, IsList
<1> QED BY <1>4, <1>5

(* The actions that read move within the current frame, unless a position  *)
(* is put back in a frame it was not read from.                            *)
LEMMA ReadsShape ==
  ASSUME ExpandInv, ListInv, Reads
  PROVE  \E p \in Nat : /\ 1 <= p /\ Shape(KeptFrames, p)
                        /\ ReadIdent \/ SkipWhitespace => p = frames[KeptFrames].pos + 1
                        /\ ScanIdent \/ BeginCall => p = frames[KeptFrames].pos
                        /\ AllPositioned /\ RestoredInPlace => p <= Len(frames[KeptFrames].src) + 1
<1> DEFINE n == KeptFrames
           f == frames[KeptFrames]
<1>1. Stacks /\ ListFrames /\ Len(frames) \in Nat
  BY ListFacts DEF ExpandInv, ListInv, Stacks, IsStack
<1>2. /\ Last(Peeked) = f /\ ListFrame(f) /\ (Char # EndOfInput => f.pos <= Len(f.src))
      /\ n \in 1 .. Len(frames) /\ Len(Peeked) = n
  BY <1>1, CharFacts, PeekFacts
<1>3. f.pos \in Nat /\ 1 <= f.pos /\ Len(f.src) \in Nat
  BY <1>2, ListFacts DEF ListFrame
<1>4. AllPositioned => f.pos <= Len(f.src) + 1
  BY <1>2 DEF AllPositioned, Positioned
<1>5. CASE ScanOther \/ ReadIdent \/ SkipWhitespace \/ OpenParen \/ ReadArg
  <2>1. Char # EndOfInput /\ frames' = Advanced
    BY <1>5, NamesAssumption DEF ScanOther, ReadIdent, SkipWhitespace, OpenParen, ReadArg, InTarget, Read, EndOfInput
  <2>2. frames' = [Peeked EXCEPT ![Len(Peeked)].pos = Peeked[Len(Peeked)].pos + 1]
    BY <2>1, Zenon DEF Advanced
  <2>3. Peeked[Len(Peeked)] = f
    BY <1>2 DEF Last
  <2>4. frames' = [Peeked EXCEPT ![Len(Peeked)].pos = f.pos + 1]
    BY <2>2, <2>3
  <2>5. Shape(n, f.pos + 1)
    BY <1>1, <2>4, MoveShape
  <2>6. f.pos + 1 \in Nat /\ 1 <= f.pos + 1 /\ f.pos + 1 <= Len(f.src) + 1
    BY <1>2, <1>3, <2>1
  <2>7. ~(ScanIdent \/ BeginCall)
    BY <1>5, NamesAssumption DEF ScanOther, ReadIdent, SkipWhitespace, OpenParen, ReadArg, ScanIdent, BeginCall, IdentRead
  <2> HIDE DEF f, n
  <2> QED BY <2>5, <2>6, <2>7 DEF f, n
<1>6. CASE ScanIdent \/ Finish \/ EmitIdent \/ BeginCall
  <2>1. frames' = Peeked
    BY <1>6 DEF ScanIdent, Finish, EmitIdent, BeginCall, Peek
  <2>2. Shape(n, f.pos)
    BY <1>1, <2>1, PeekShape
  <2>3. ~(ReadIdent \/ SkipWhitespace)
    BY <1>6 DEF ScanIdent, Finish, EmitIdent, BeginCall, IdentRead, ReadIdent, SkipWhitespace
  <2> HIDE DEF f, n
  <2> QED BY <1>3, <1>4, <2>2, <2>3 DEF f, n
<1>7. CASE NotAnInvocation
  <2>1. /\ mode = "paren" /\ Char \notin {" ", "("}
        /\ frames' = [Peeked EXCEPT ![Len(Peeked)].pos = call.savedPos]
    BY <1>7 DEF NotAnInvocation, RestoredPosition
  <2>2. /\ call.frame \in Nat /\ Len(frames) <= call.frame /\ call.savedPos \in Nat /\ 1 <= call.savedPos
        /\ Len(frames) = call.frame => Behind(frames[Len(frames)])
    BY <2>1 DEF ListInv, LeftBehind
  <2>3. Shape(n, call.savedPos)
    BY <1>1, <2>1, MoveShape
  <2>4. ASSUME AllPositioned, RestoredInPlace PROVE call.savedPos <= Len(f.src) + 1
    <3>1. n = call.frame
      BY <1>2, <2>1, <2>4, Zenon DEF RestoredInPlace
    <3>2. n = Len(frames)
      BY <1>1, <1>2, <2>2, <3>1
    <3>3. call.savedPos <= f.pos
      BY <2>2, <3>1, <3>2 DEF Behind, Blanks
    <3> QED BY <1>3, <1>4, <2>2, <2>4, <3>3
  <2>5. ~(ReadIdent \/ SkipWhitespace \/ ScanIdent \/ BeginCall)
    BY <1>7 DEF NotAnInvocation, ScanIdent, BeginCall, IdentRead, ReadIdent, SkipWhitespace
  <2> HIDE DEF f, n
  <2> QED BY <2>2, <2>3, <2>4, <2>5 DEF f, n
<1> QED BY <1>5, <1>6, <1>7 DEF Reads

(* What a step that only reads puts out is within the bound.               *)
LEMMA ReadsOut ==
  ASSUME ListInv, Reads
  PROVE  Fits(out)'
<1>1. IsList(out) /\ IsList(ident) /\ Len(out) \in Nat /\ Len(ident) \in Nat /\ Len(out) <= MaxOut
  BY ListFacts DEF ListInv, Fits, ListIdent
<1>2. MaxOut \in Nat
  BY BoundsAssumption
<1>3. CASE ScanOther
  <2>1. out' = Append(out, Char) /\ Len(out) < MaxOut
    BY <1>3 DEF ScanOther
  <2>2. PICK c : c = Char
    OBVIOUS
  <2>3. out' = Append(out, c)
    BY <2>1, <2>2
  <2>4. IsList(Append(out, c)) /\ Len(Append(out, c)) = Len(out) + 1
    BY <1>1, AppendList
  <2>5. IsList(out') /\ Len(out') <= MaxOut
    BY <1>1, <1>2, <2>1, <2>3, <2>4
  <2> QED BY <2>5 DEF Fits, IsList
<1>4. CASE EmitIdent \/ NotAnInvocation
  <2>1. out' = out \o ident /\ Len(out) + Len(ident) <= MaxOut
    BY <1>4 DEF EmitIdent, NotAnInvocation
  <2>2. IsList(out \o ident) /\ Len(out \o ident) = Len(out) + Len(ident)
    BY <1>1, ConcatList
  <2>3. IsList(out') /\ Len(out') <= MaxOut
    BY <2>1, <2>2
  <2> QED BY <2>3 DEF Fits, IsList
<1>5. CASE ScanIdent \/ ReadIdent \/ Finish \/ BeginCall \/ SkipWhitespace \/ OpenParen \/ ReadArg
  <2>1. out' = out
    BY <1>5 DEF ScanIdent, ReadIdent, Finish, BeginCall, SkipWhitespace, OpenParen, ReadArg
  <2> QED BY <2>1 DEF ListInv, Fits, IsList
<1> QED BY <1>3, <1>4, <1>5 DEF Reads

(* The arguments of the call that is being read.                           *)
LEMMA ReadsArgs ==
  ASSUME ExpandInv, ListInv, Reads, mode' = "args"
  PROVE  IsList(call'.args) /\ call'.args # <<>> /\ \A i \in 1 .. Len(call'.args) : IsList(call'.args[i])
<1>1. OpenParen \/ ReadArg
  BY DEF Reads, ScanOther, ScanIdent, ReadIdent, Finish, EmitIdent, BeginCall, SkipWhitespace, NotAnInvocation
<1> DEFINE a == call.macro
           b == call.savedPos
           fr == call.frame
           c == call.level
           d == call.args
<1>2. mode \in {"paren", "args"} /\ call = [macro |-> a, savedPos |-> b, frame |-> fr, level |-> c, args |-> d]
  BY <1>1 DEF OpenParen, ReadArg, ExpandInv, Reading, IsCall
<1>3. IsList(<<>>)
  <2>1. <<>> \in Seq({})
    OBVIOUS
  <2> QED BY <2>1 DEF IsList
<1>4. CASE OpenParen
  <2> HIDE DEF a, b, fr, c, d
  <2>1. call' = [call EXCEPT !.args = << <<>> >>]
    BY <1>4 DEF OpenParen
  <2>2. call'.args = << <<>> >>
    BY <1>2, <2>1
  <2>3. << <<>> >> \in Seq({<<>>}) /\ Len(<< <<>> >>) = 1 /\ << <<>> >>[1] = <<>> /\ << <<>> >> # <<>>
    OBVIOUS
  <2>4. IsList(<< <<>> >>)
    BY <2>3 DEF IsList
  <2> QED BY <1>3, <2>2, <2>3, <2>4
<1>5. CASE ReadArg
  <2>1. mode = "args" /\ IsList(d) /\ d # <<>> /\ \A i \in 1 .. Len(d) : IsList(d[i])
    BY <1>5 DEF ReadArg, ListInv, ListCalls
  <2>2. Len(d) \in Nat /\ Len(d) \in 1 .. Len(d)
    BY <2>1, ListFacts
  <2>3. PICK ch : ch = Char
    OBVIOUS
  <2>4. \/ call' = [call EXCEPT !.args = Append(call.args, <<>>)]
        \/ \E x : call' = [call EXCEPT !.args[Len(call.args)] = Append(call.args[Len(call.args)], ch), !.level = x]
    BY <1>5, <2>3, Zenon DEF ReadArg
  <2> HIDE DEF a, b, fr, c, d
  <2>5. CASE call' = [call EXCEPT !.args = Append(call.args, <<>>)]
    <3>1. call'.args = Append(d, <<>>)
      BY <1>2, <2>5
    <3>2. /\ IsList(Append(d, <<>>)) /\ Len(Append(d, <<>>)) = Len(d) + 1
          /\ \A i \in 1 .. Len(d) : Append(d, <<>>)[i] = d[i]
          /\ Append(d, <<>>)[Len(d) + 1] = <<>>
      BY <2>1, AppendList
    <3>3. \A i \in 1 .. Len(d) + 1 : i \in 1 .. Len(d) \/ i = Len(d) + 1
      BY <2>2
    <3>4. Append(d, <<>>) # <<>>
      BY <2>2, <3>2, ListFacts
    <3> QED BY <1>3, <2>1, <3>1, <3>2, <3>3, <3>4
  <2>6. CASE \E x : call' = [call EXCEPT !.args[Len(call.args)] = Append(call.args[Len(call.args)], ch), !.level = x]
    <3>1. PICK e : e = Append(d[Len(d)], ch)
      OBVIOUS
    <3>2. PICK u : u = Replaced(d, Len(d), e)
      OBVIOUS
    <3>3. PICK x : call' = [call EXCEPT !.args[Len(call.args)] = Append(call.args[Len(call.args)], ch), !.level = x]
      BY <2>6
    <3>4. call.args = d
      BY <1>2
    <3>5. call' = [call EXCEPT !.args[Len(d)] = e, !.level = x]
      BY <3>1, <3>3, <3>4
    <3>6. call'.args = u
      BY <1>2, <3>2, <3>5 DEF Replaced
    <3>7. IsList(u) /\ Len(u) = Len(d) /\ u[Len(d)] = e /\ \A i \in 1 .. Len(d) : i # Len(d) => u[i] = d[i]
      <4>1. PICK k : k = Len(d)
        OBVIOUS
      <4>2. u = Replaced(d, k, e) /\ k \in 1 .. Len(d)
        BY <2>2, <3>2, <4>1
      <4>3. IsList(u) /\ Len(u) = Len(d) /\ u[k] = e /\ \A i \in 1 .. Len(d) : i # k => u[i] = d[i]
        BY <2>1, <4>2, ReplaceInList
      <4> QED BY <4>1, <4>3
    <3>8. IsList(e)
      <4>1. PICK y : y = d[Len(d)]
        OBVIOUS
      <4>2. IsList(y) /\ e = Append(y, ch)
        BY <2>1, <2>2, <3>1, <4>1
      <4> QED BY <4>2, AppendList
    <3>9. u # <<>>
      BY <2>2, <3>7, ListFacts
    <3> QED BY <2>1, <3>6, <3>7, <3>8, <3>9
  <2> QED BY <2>4, <2>5, <2>6
<1> QED BY <1>1, <1>4, <1>5

(* A list with a position in it is not empty.                              *)
LEMMA NotEmpty ==
  ASSUME NEW s, IsList(s), NEW i \in 1 .. Len(s)
  PROVE  s # <<>>
BY ListFacts

(* Reading leaves the macro table and the barrier as they are.             *)
LEMMA ReadsTable ==
  ASSUME Reads
  PROVE  UNCHANGED <<macros, barrier, calls>>
BY DEF Reads, ScanOther, ScanIdent, ReadIdent, Finish, EmitIdent, BeginCall, SkipWhitespace,
   NotAnInvocation, OpenParen, ReadArg

(* The identifier that is being read, and where it began.                  *)
LEMMA ReadsIdent ==
  ASSUME ExpandInv, ListInv, Reads
  PROVE  ListIdent'
<1>1. Stacks /\ ListIdent /\ macros' = macros
  BY ReadsTable DEF ExpandInv, ListInv
<1>2. CASE ScanIdent
  <2>1. ident' = <<>> /\ origin' = BeingExpanded(Peeked)
    BY <1>2 DEF ScanIdent
  <2>2. IsList(ident')
    <3>1. <<>> \in Seq({})
      OBVIOUS
    <3> QED BY <2>1, <3>1 DEF IsList
  <2>3. /\ IsList(Peeked) /\ Len(Peeked) \in 1 .. Len(frames) /\ Len(frames) \in Nat
        /\ \A i \in 1 .. Len(Peeked) : Peeked[i] = frames[i]
    BY <1>1, PeekFacts, ListFacts DEF Stacks, IsStack
  <2>4. ASSUME NEW m \in origin' PROVE m \in DOMAIN macros
    <3>1. m # None
      BY <2>1, <2>4 DEF BeingExpanded
    <3>2. PICK i \in DOMAIN Peeked : Peeked[i].macro = m
      BY <2>1, <2>4 DEF BeingExpanded
    <3>3. i \in 1 .. Len(Peeked)
      BY <2>3, <3>2, ListFacts
    <3>4. frames[i].macro = m /\ i \in 1 .. Len(frames)
      BY <2>3, <3>2, <3>3
    <3> QED BY <1>1, <3>1, <3>4 DEF Stacks, IsStack
  <2> QED BY <1>1, <2>2, <2>4 DEF ListIdent, IsList
<1>3. CASE ReadIdent
  <2>1. ident' = Append(ident, Char) /\ origin' = origin
    BY <1>3 DEF ReadIdent
  <2>2. PICK c : c = Char
    OBVIOUS
  <2>3. IsList(ident')
    BY <1>1, <2>1, <2>2, AppendList DEF ListIdent
  <2> QED BY <1>1, <2>1, <2>3 DEF ListIdent, IsList
<1>4. CASE ScanOther \/ Finish \/ EmitIdent \/ BeginCall \/ SkipWhitespace \/ NotAnInvocation \/ OpenParen \/ ReadArg
  <2>1. UNCHANGED <<ident, origin>>
    BY <1>4 DEF ScanOther, Finish, EmitIdent, BeginCall, SkipWhitespace, NotAnInvocation, OpenParen, ReadArg
  <2> QED BY <1>1, <2>1 DEF ListIdent, IsList
<1> QED BY <1>2, <1>3, <1>4 DEF Reads

(* About stretches of blanks.                                              *)
LEMMA BlankIsText == Blank # EndOfInput
BY Zenon DEF Blank, EndOfInput

LEMMA NoBlanks == ASSUME NEW s, NEW p \in Nat, 1 <= p PROVE Blanks(s, p, p)
BY DEF Blanks

LEMMA MoreBlanks ==
  ASSUME NEW s, NEW first, NEW p \in Nat, Blanks(s, first, p), s[p] = Blank
  PROVE  Blanks(s, first, p + 1)
BY DEF Blanks

(* Looking for the parenthesis reads blanks of the frame the name was read *)
(* from, or has left it.                                                   *)
LEMMA ReadsParen ==
  ASSUME ExpandInv, ListInv, Reads
  PROVE  LeftBehind'
<1> DEFINE n == KeptFrames
           f == frames[KeptFrames]
<1>1. Stacks /\ ListFrames /\ LeftBehind
  BY DEF ExpandInv, ListInv
<1>2. PICK p \in Nat : /\ Shape(n, p)
                       /\ SkipWhitespace => p = f.pos + 1
                       /\ BeginCall => p = f.pos
  BY ReadsShape
<1>3. n \in 1 .. Len(frames) /\ Len(frames) \in Nat /\ Len(Peeked) = n
  BY <1>1, PeekFacts, ListFacts DEF Stacks, IsStack
<1>4. ListFrame(f) /\ (Char # EndOfInput => Char = f.src[f.pos]) /\ Last(Peeked) = f
  BY <1>1, CharFacts
<1>5. f.pos \in Nat /\ 1 <= f.pos
  BY <1>4 DEF ListFrame
<1>6. Len(frames') = n /\ frames'[n].pos = p /\ frames'[n].src = f.src
  BY <1>2, <1>3 DEF Shape
<1>7. Behind(frames[Len(frames)])' <=> Blanks(f.src, call'.savedPos, p)
  BY <1>6 DEF Behind, Blanks
<1>8. CASE BeginCall
  <2>1. call' = [NoCall EXCEPT !.macro = Found, !.savedPos = SavedPosition, !.frame = Len(Peeked)]
    BY <1>8 DEF BeginCall
  <2>2. SavedPosition = f.pos
    BY <1>4 DEF SavedPosition
  <2> HIDE DEF n, f
  <2>3. call'.savedPos = f.pos /\ call'.frame = n
    BY <1>3, <2>1, <2>2 DEF NoCall
  <2>4. p = f.pos
    BY <1>2, <1>8
  <2>5. Behind(frames[Len(frames)])'
    BY <1>5, <1>7, <2>3, <2>4, NoBlanks
  <2> QED BY <1>3, <1>5, <1>6, <2>3, <2>5 DEF LeftBehind
<1>9. CASE SkipWhitespace
  <2>1. mode = "paren" /\ Char = Blank /\ call' = call
    BY <1>9, Zenon DEF SkipWhitespace, Blank
  <2>2. /\ call.frame \in Nat /\ Len(frames) <= call.frame /\ call.savedPos \in Nat /\ 1 <= call.savedPos
        /\ Len(frames) = call.frame => Behind(frames[Len(frames)])
    BY <1>1, <2>1 DEF LeftBehind
  <2>3. p = f.pos + 1 /\ f.src[f.pos] = Blank
    BY <1>2, <1>4, <1>9, <2>1, BlankIsText
  <2>4. n = call.frame => Behind(frames[Len(frames)])'
    <3> SUFFICES ASSUME n = call.frame PROVE Blanks(f.src, call.savedPos, p)
      BY <1>7, <2>1
    <3>1. n = Len(frames)
      BY <1>3, <2>2
    <3>2. Blanks(f.src, call.savedPos, f.pos)
      BY <2>2, <3>1 DEF Behind
    <3> HIDE DEF n, f
    <3> QED BY <1>5, <2>3, <3>2, MoreBlanks
  <2> HIDE DEF n, f
  <2> QED BY <1>3, <1>6, <2>1, <2>2, <2>4 DEF LeftBehind
<1>10. CASE ScanOther \/ Finish \/ EmitIdent \/ ScanIdent \/ ReadIdent \/ NotAnInvocation \/ OpenParen \/ ReadArg
  <2>1. mode' # "paren"
    BY <1>10 DEF ScanOther, Finish, EmitIdent, ScanIdent, ReadIdent, NotAnInvocation, OpenParen, ReadArg
  <2> QED BY <2>1 DEF LeftBehind
<1> QED BY <1>8, <1>9, <1>10 DEF Reads

(* The invariant is kept by the actions that only read.                    *)
LEMMA ReadsList ==
  ASSUME ExpandInv, ListInv, Reads
  PROVE  ListInv' /\ (AllPositioned /\ RestoredInPlace => AllPositioned')
<1>1. PICK p \in Nat : /\ 1 <= p /\ Shape(KeptFrames, p)
                       /\ AllPositioned /\ RestoredInPlace => p <= Len(frames[KeptFrames].src) + 1
  BY ReadsShape
<1>2. UNCHANGED <<macros, barrier, calls>> /\ mode' \in Modes
  BY DEF Reads, ScanOther, ScanIdent, ReadIdent, Finish, EmitIdent, BeginCall, SkipWhitespace,
     NotAnInvocation, OpenParen, ReadArg, IdentRead, Modes
<1>3. Stacks /\ ListFrames /\ ListCalls /\ Bodies
  BY DEF ExpandInv, ListInv
<1>4. KeptFrames \in 1 .. Len(frames)
  BY <1>3, PeekFacts
<1>5. ListFrames' /\ (AllPositioned /\ RestoredInPlace => AllPositioned')
  BY <1>1, <1>3, <1>4, ShapeKeeps
<1>6. ListCalls'
  <2>1. \A k \in 1 .. Len(calls') : ListCall(calls[k])'
    BY <1>2, <1>3 DEF ListCalls, ListCall, Fits, IsList
  <2>2. mode' = "args" =>
          IsList(call'.args) /\ call'.args # <<>> /\ \A i \in 1 .. Len(call'.args) : IsList(call'.args[i])
    BY ReadsArgs
  <2> QED BY <2>1, <2>2 DEF ListCalls, IsList
<1>7. Bodies'
  BY <1>2, <1>3 DEF Bodies, IsList
<1>8. Fits(out)' /\ ListIdent' /\ LeftBehind'
  BY ReadsOut, ReadsIdent, ReadsParen
<1> QED BY <1>2, <1>5, <1>6, <1>7, <1>8 DEF ListInv, Modes

(* A push of a text.                                                       *)
LEMMA PushList ==
  ASSUME NEW s, IsList(s), \A i \in 1 .. Len(s) : ListFrame(s[i]),
         NEW text, IsList(text), NEW m, frames' = Pushed(s, text, m)
  PROVE  /\ ListFrames' /\ ((\A i \in 1 .. Len(s) : Positioned(s[i])) => AllPositioned')
         /\ IsList(frames') /\ Len(frames') = Len(s) + 1
         /\ \A i \in 1 .. Len(s) : frames'[i] = s[i]
         /\ frames'[Len(s) + 1].src = text /\ frames'[Len(s) + 1].pos = 1 /\ frames'[Len(s) + 1].macro = m
<1> DEFINE f == [src |-> text, pos |-> 1, macro |-> m]
<1>1. f.src = text /\ f.pos = 1 /\ f.macro = m
  OBVIOUS
<1> HIDE DEF f
<1>2. frames' = Append(s, f)
  BY DEF f, Pushed
<1>3. /\ IsList(frames') /\ Len(frames') = Len(s) + 1 /\ \A i \in 1 .. Len(s) : frames'[i] = s[i]
      /\ frames'[Len(s) + 1] = f
  BY <1>2, AppendList
<1>4. Len(s) \in Nat /\ Len(text) \in Nat
  BY ListFacts
<1>5. \A i \in 1 .. Len(s) + 1 : i \in 1 .. Len(s) \/ i = Len(s) + 1
  BY <1>4
<1>6. Positioned(f) /\ ListFrame(f)
  BY <1>1, <1>4 DEF Positioned, ListFrame
<1>7. \A i \in 1 .. Len(s) + 1 : ListFrame(frames'[i])
  BY <1>3, <1>5, <1>6
<1>8. (\A i \in 1 .. Len(s) : Positioned(s[i])) => \A i \in 1 .. Len(s) + 1 : Positioned(frames'[i])
  BY <1>3, <1>5, <1>6
<1>9. ListFrames'
  BY <1>3, <1>7 DEF ListFrames, ListFrame, IsList
<1>10. (\A i \in 1 .. Len(s) : Positioned(s[i])) => AllPositioned'
  BY <1>3, <1>8 DEF AllPositioned, Positioned, ListFrame, IsList
<1> QED BY <1>1, <1>3, <1>9, <1>10

(* What the actions outside identifiers and calls leave alone.             *)
LEMMA OutsideList ==
  ASSUME ListInv, UNCHANGED <<macros, ident, origin>>,
         mode' \in {"scan", "expandArg", "done", "abort"},
         \A k \in 1 .. Len(calls') : ListCall(calls'[k])
  PROVE  Bodies' /\ ListIdent' /\ LeftBehind' /\ ListCalls' /\ mode' \in Modes
<1>1. Bodies'
  BY DEF ListInv, Bodies, IsList
<1>2. ListIdent'
  BY DEF ListInv, ListIdent, IsList
<1>3. LeftBehind'
  BY DEF LeftBehind
<1>4. ListCalls'
  BY DEF ListCalls, ListCall, Fits, IsList
<1> QED BY <1>1, <1>2, <1>3, <1>4 DEF Modes

(* Ending with an error keeps everything else.                             *)
LEMMA TooDeepList ==
  ASSUME ListInv, TooDeep
  PROVE  ListInv' /\ (AllPositioned => AllPositioned')
<1>1. mode' = "abort" /\ UNCHANGED <<macros, active, frames, barrier, out, ident, origin, call, calls>>
  BY DEF TooDeep
<1>2. \A k \in 1 .. Len(calls') : ListCall(calls'[k])
  BY <1>1 DEF ListInv, ListCalls
<1>3. ListFrames' /\ (AllPositioned => AllPositioned') /\ Fits(out)'
  BY <1>1 DEF ListInv, ListFrames, AllPositioned, Positioned, ListFrame, Fits, IsList
<1>4. Bodies' /\ ListIdent' /\ LeftBehind' /\ ListCalls' /\ mode' \in Modes
  BY <1>1, <1>2, OutsideList
<1> QED BY <1>3, <1>4 DEF ListInv, Modes

(* An object-like macro: its text is pushed as it is.                      *)
LEMMA ExpandObjectList ==
  ASSUME ExpandInv, ListInv, ExpandObject
  PROVE  ListInv' /\ (AllPositioned => AllPositioned')
<1>1. CASE TooDeep
  BY <1>1, TooDeepList
<1>2. CASE ~TooDeep
  <2> DEFINE n == KeptFrames
             s == Peeked
             m == Found
             text == macros[Found].body
  <2>1. /\ mode = "ident" /\ m # None /\ mode' = "scan" /\ frames' = Pushed(s, text, m)
        /\ UNCHANGED <<macros, barrier, out, ident, origin, call, calls>>
    BY <1>2 DEF ExpandObject, IdentRead, PushInput, Pushed
  <2>2. Table /\ Stacks /\ ListFrames /\ Fits(out) /\ ListCalls /\ Calls /\ Bodies
    BY DEF ExpandInv, ListInv
  <2>3. IsList(s) /\ Len(s) = n /\ (\A i \in 1 .. n : s[i] = frames[i]) /\ n \in 1 .. Len(frames)
    BY <2>2, PeekFacts
  <2>4. m \in DOMAIN macros
    BY <2>1, <2>2, FoundFacts DEF ExpandInv
  <2>5. IsList(text)
    BY <2>2, <2>4 DEF Bodies
  <2> HIDE DEF n, s, m, text
  <2>6. \A i \in 1 .. n : i \in 1 .. Len(frames)
    BY <2>2, <2>3, ListFacts DEF Stacks, IsStack
  <2>7. \A i \in 1 .. Len(s) : ListFrame(s[i]) /\ (AllPositioned => Positioned(s[i]))
    BY <2>2, <2>3, <2>6 DEF ListFrames, AllPositioned
  <2>8. ListFrames' /\ (AllPositioned => AllPositioned')
    BY <2>1, <2>3, <2>5, <2>7, PushList
  <2>9. Bodies' /\ ListIdent' /\ LeftBehind' /\ ListCalls' /\ mode' \in Modes
    <3>1. \A k \in 1 .. Len(calls') : ListCall(calls'[k])
      BY <2>1, <2>2 DEF ListCalls
    <3> QED BY <2>1, <3>1, OutsideList
  <2>10. Fits(out)'
    BY <2>1, <2>2 DEF Fits, IsList
  <2> QED BY <2>8, <2>9, <2>10 DEF ListInv, Modes
<1> QED BY <1>1, <1>2

(* Small lists, and lists made by a function.                              *)
LEMMA SingleList == \A e : IsList(<<e>>) /\ IsList(<<>>)
<1> TAKE e
<1>1. <<e>> \in Seq({e}) /\ <<>> \in Seq({})
  OBVIOUS
<1> QED BY <1>1 DEF IsList

LEMMA MadeList ==
  ASSUME NEW n \in Nat, NEW f, f = [i \in 1 .. n |-> f[i]]
  PROVE  IsList(f) /\ Len(f) = n
<1> DEFINE T == {f[i] : i \in 1 .. n}
<1>1. f \in [1 .. n -> T]
  OBVIOUS
<1> HIDE DEF T
<1>2. f \in Seq(T) /\ Len(f) = n
  BY <1>1, FunctionIsList
<1> QED BY <1>2 DEF IsList

(* What an atom of a replacement text becomes.                             *)
LEMMA ReplacementFacts ==
  ASSUME NEW params, IsList(params), NEW expanded, NEW atom,
         \A i \in 1 .. Len(expanded) : IsList(expanded[i])
  PROVE  IsList(Replacement(params, expanded, atom))
<1> DEFINE i == Parameter(params, atom)
           r == Replacement(params, expanded, atom)
<1>1. r = IF i \in DOMAIN params /\ i <= Len(expanded) THEN expanded[i]
          ELSE IF atom = "##" THEN <<>> ELSE <<atom>>
  BY DEF Replacement
<1>2. Len(params) \in Nat /\ DOMAIN params = 1 .. Len(params)
  BY ListFacts
<1> HIDE DEF i, r
<1>3. CASE i \in DOMAIN params /\ i <= Len(expanded)
  <2>1. i \in Nat /\ 1 <= i
    BY <1>2, <1>3
  <2>2. r = expanded[i]
    BY <1>1, <1>3
  <2>3. i \in 1 .. Len(expanded)
    BY <1>3, <2>1
  <2> QED BY <2>2, <2>3 DEF r
<1>4. CASE ~(i \in DOMAIN params /\ i <= Len(expanded))
  BY <1>1, <1>4, SingleList DEF r
<1> QED BY <1>3, <1>4

(* The substituted text is a text.                                         *)
LEMMA SubstitutedList ==
  ASSUME Bodies, NEW m \in DOMAIN macros, NEW expanded,
         \A i \in 1 .. Len(expanded) : IsList(expanded[i])
  PROVE  IsList(Substituted(m, expanded))
<1> DEFINE body == macros[m].body
           params == macros[m].params
           n == Len(body)
           seqs == [i \in DOMAIN body |-> Replacement(params, expanded, body[i])]
<1>1. Substituted(m, expanded) = FlattenSeq(seqs)
  BY DEF Substituted
<1>2. IsList(body) /\ IsList(params)
  BY DEF Bodies
<1> HIDE DEF body, params, n
<1>3. n \in Nat /\ DOMAIN body = 1 .. n
  BY <1>2, ListFacts DEF n
<1>4. \A i \in 1 .. n : seqs[i] = Replacement(params, expanded, body[i])
  BY <1>3, Zenon
<1>5. IsList(seqs) /\ Len(seqs) = n
  <2>1. seqs = [i \in 1 .. n |-> seqs[i]]
    BY <1>3, <1>4, Zenon
  <2> HIDE DEF seqs
  <2> QED BY <1>3, <2>1, MadeList
<1> HIDE DEF seqs
<1>6. \A i \in 1 .. Len(seqs) : IsList(seqs[i])
  BY <1>2, <1>4, <1>5, ReplacementFacts
<1> QED BY <1>1, <1>5, <1>6, FlattenList

(* The end of a call: the substituted text is pushed.                      *)
LEMMA SubstituteList ==
  ASSUME ExpandInv, ListInv, Substitute
  PROVE  ListInv' /\ (AllPositioned => AllPositioned')
<1>1. CASE TooDeep
  BY <1>1, TooDeepList
<1>2. CASE ~TooDeep
  <2> DEFINE L == Len(calls)
             m == Pending.macro
             text == Substituted(Pending.macro, Pending.expanded)
  <2>1. /\ mode = "expandArg" /\ mode' = "scan" /\ frames' = Pushed(frames, text, m)
        /\ calls' = Front(calls) /\ UNCHANGED <<macros, barrier, out, ident, origin, call>>
    BY <1>2 DEF Substitute, PushInput, Pushed
  <2>2. Table /\ Stacks /\ ListFrames /\ Fits(out) /\ ListCalls /\ Calls /\ Bodies /\ calls # <<>>
    BY <2>1 DEF ExpandInv, ListInv, Suspended, Innermost
  <2>3. L \in Nat /\ L \in 1 .. L /\ Pending = calls[L] /\ m \in DOMAIN macros /\ IsList(calls)
    BY <2>2, PendingIsLast
  <2>4. \A i \in 1 .. Len(Pending.expanded) : IsList(Pending.expanded[i])
    BY <2>2, <2>3 DEF ListCalls, ListCall
  <2>5. IsList(text)
    BY <2>2, <2>3, <2>4, SubstitutedList
  <2>6. Len(calls') = L - 1 /\ \A k \in 1 .. L - 1 : calls'[k] = calls[k]
    BY <2>1, <2>2, <2>3, FrontList
  <2>7. IsList(frames)
    BY <2>2 DEF Stacks, IsStack
  <2> HIDE DEF L, m, text
  <2>8. ListFrames' /\ (AllPositioned => AllPositioned')
    BY <2>1, <2>2, <2>5, <2>7, PushList DEF ListFrames, AllPositioned
  <2>9. \A k \in 1 .. L - 1 : k \in 1 .. L
    BY <2>3
  <2>10. Bodies' /\ ListIdent' /\ LeftBehind' /\ ListCalls' /\ mode' \in Modes
    <3>1. \A k \in 1 .. Len(calls') : ListCall(calls'[k])
      BY <2>2, <2>6, <2>9 DEF ListCalls, L
    <3> QED BY <2>1, <3>1, OutsideList
  <2>11. Fits(out)'
    BY <2>1, <2>2 DEF Fits, IsList
  <2> QED BY <2>8, <2>10, <2>11 DEF ListInv, Modes
<1> QED BY <1>1, <1>2

(* The least of a set of numbers.                                          *)
LEMMA MinFacts ==
  ASSUME NEW S \in SUBSET Nat, S # {}
  PROVE  Min(S) \in S /\ \A x \in S : Min(S) <= x
<1>1. \E m \in S : \A x \in S : m <= x
  BY LeastNumber
<1> QED BY <1>1 DEF Min

(* What is between the first and the last atom that is no blank.           *)
LEMMA StripFacts ==
  ASSUME NEW arg, IsList(arg)
  PROVE  IsList(Strip(arg))
<1> DEFINE solid == {i \in DOMAIN arg : arg[i] # Blank}
           a == Min(solid)
           b == Max(solid)
<1>1. Strip(arg) = IF solid = {} THEN <<>> ELSE SubSeq(arg, a, b)
  BY Zenon DEF Strip, Blank
<1>2. PICK S : arg \in Seq(S)
  BY DEF IsList
<1>3. Len(arg) \in Nat /\ DOMAIN arg = 1 .. Len(arg)
  BY ListFacts
<1>4. solid \in SUBSET Nat /\ \A x \in solid : x <= Len(arg) /\ x \in 1 .. Len(arg)
  BY <1>3
<1> HIDE DEF solid
<1>5. CASE solid = {}
  BY <1>1, <1>5, SingleList
<1>6. CASE solid # {}
  <2>1. a \in solid /\ b \in solid /\ b >= a
    BY <1>3, <1>4, <1>6, MinFacts, MaxFacts
  <2>2. a \in 1 .. Len(arg) /\ b \in 1 .. Len(arg)
    BY <1>4, <2>1
  <2>3. Strip(arg) = SubSeq(arg, a, b)
    BY <1>1, <1>6
  <2> HIDE DEF a, b
  <2>4. SubSeq(arg, a, b) \in Seq(S)
    BY <1>2, <1>3, <2>1, <2>2
  <2> QED BY <2>3, <2>4 DEF IsList
<1> QED BY <1>5, <1>6

(* The arguments of a complete call.                                       *)
LEMMA ActualArgsFacts ==
  ASSUME ListInv, mode = "args"
  PROVE  IsList(ActualArgs) /\ \A i \in 1 .. Len(ActualArgs) : IsList(ActualArgs[i])
<1> DEFINE given == call.args
           counted == IF \/ Char = EndOfInput
                         \/ Last(given) = <<>> /\ macros[call.macro].params = <<>>
                      THEN Front(given) ELSE given
           args == [i \in DOMAIN counted |-> Strip(counted[i])]
<1>1. ActualArgs = args
  BY DEF ActualArgs
<1>2. IsList(given) /\ given # <<>> /\ \A i \in 1 .. Len(given) : IsList(given[i])
  BY DEF ListInv, ListCalls
<1>3. Len(given) \in Nat
  BY <1>2, ListFacts
<1> HIDE DEF given
<1>4. IsList(counted) /\ \A i \in 1 .. Len(counted) : IsList(counted[i])
  <2>1. CASE counted = given
    BY <1>2, <2>1
  <2>2. CASE counted = Front(given)
    <3>1. IsList(Front(given)) /\ Len(Front(given)) = Len(given) - 1
          /\ \A i \in 1 .. Len(given) - 1 : Front(given)[i] = given[i]
      BY <1>2, FrontList
    <3>2. \A i \in 1 .. Len(given) - 1 : i \in 1 .. Len(given)
      BY <1>3
    <3> HIDE DEF counted
    <3> QED BY <1>2, <2>2, <3>1, <3>2
  <2> QED BY <2>1, <2>2
<1> HIDE DEF counted
<1>5. Len(counted) \in Nat /\ DOMAIN counted = 1 .. Len(counted)
  BY <1>4, ListFacts
<1>6. \A i \in 1 .. Len(counted) : args[i] = Strip(counted[i])
  BY <1>5, Zenon
<1>7. IsList(args) /\ Len(args) = Len(counted)
  <2>1. args = [i \in 1 .. Len(counted) |-> args[i]]
    BY <1>5, <1>6, Zenon
  <2> HIDE DEF args
  <2> QED BY <1>5, <2>1, MadeList
<1> HIDE DEF args
<1>8. \A i \in 1 .. Len(args) : IsList(args[i])
  BY <1>4, <1>6, <1>7, StripFacts
<1> QED BY <1>1, <1>7, <1>8


(* The arguments are complete: the call is suspended.                      *)
LEMMA EndArgsList ==
  ASSUME ExpandInv, ListInv, EndArgs
  PROVE  ListInv' /\ (AllPositioned => AllPositioned')
<1> DEFINE n == KeptFrames
           f == frames[KeptFrames]
           L == Len(calls)
           args == ActualArgs
           b == barrier
           o == out
           m == call.macro
           c == [macro |-> m, args |-> args, expanded |-> <<>>, depth |-> 0, out |-> o, barrier |-> b]
<1>1. /\ mode = "args" /\ mode' = "expandArg"
      /\ (Char = ")" /\ frames' = Advanced) \/ frames' = Peeked
      /\ calls' = Append(calls, c) /\ UNCHANGED <<macros, barrier, out, ident, origin>>
  BY DEF EndArgs, Read, Peek
<1>2. Stacks /\ ListFrames /\ Fits(out) /\ ListCalls /\ Calls
  BY DEF ExpandInv, ListInv
<1>3. /\ n \in 1 .. Len(frames)
      /\ Last(Peeked) = f /\ ListFrame(f) /\ (Char # EndOfInput => f.pos <= Len(f.src))
  BY <1>2, PeekFacts, CharFacts
<1>4. /\ f.pos \in Nat /\ 1 <= f.pos /\ Len(f.src) \in Nat
      /\ AllPositioned => f.pos <= Len(f.src) + 1
  BY <1>3, ListFacts DEF ListFrame, AllPositioned, Positioned
<1>5. PICK p \in Nat : 1 <= p /\ Shape(n, p) /\ (AllPositioned => p <= Len(f.src) + 1)
  <2>1. CASE frames' = Peeked
    <3>1. Shape(n, f.pos)
      BY <1>2, <2>1, PeekShape
    <3> QED BY <1>4, <3>1
  <2>2. CASE Char = ")" /\ frames' = Advanced
    <3>1. frames' = [Peeked EXCEPT ![Len(Peeked)].pos = Peeked[Len(Peeked)].pos + 1]
      BY <2>2, Zenon DEF Advanced
    <3>2. Peeked[Len(Peeked)] = f
      BY <1>3 DEF Last
    <3>3. Shape(n, f.pos + 1)
      BY <1>2, <3>1, <3>2, MoveShape
    <3>4. f.pos + 1 \in Nat /\ 1 <= f.pos + 1 /\ f.pos + 1 <= Len(f.src) + 1
      BY <1>3, <1>4, <2>2 DEF EndOfInput
    <3> QED BY <3>3, <3>4
  <2> QED BY <1>1, <2>1, <2>2
<1>6. ListFrames' /\ (AllPositioned => AllPositioned')
  BY <1>2, <1>3, <1>5, ShapeKeeps
<1>7. ListCall(c)
  <2>1. IsList(args) /\ \A i \in 1 .. Len(args) : IsList(args[i])
    BY <1>1, ActualArgsFacts
  <2>2. c.args = args /\ c.expanded = <<>> /\ c.out = out
    OBVIOUS
  <2> HIDE DEF args, c
  <2>3. Fits(c.out) /\ IsList(c.args) /\ \A i \in 1 .. Len(c.args) : IsList(c.args[i])
    BY <1>2, <2>1, <2>2
  <2>4. IsList(c.expanded)
    BY <2>2, SingleList
  <2>5. \A i \in 1 .. Len(c.expanded) : FALSE
    BY <2>2
  <2> QED BY <2>3, <2>4, <2>5, Zenon DEF ListCall
<1> HIDE DEF c, args
<1>8. L \in Nat /\ Len(calls') = L + 1 /\ calls'[L + 1] = c /\ \A k \in 1 .. L : calls'[k] = calls[k]
  BY <1>1, <1>2, AppendList, ListFacts DEF Calls
<1>9. \A k \in 1 .. L + 1 : k = L + 1 \/ (k \in 1 .. L /\ k < L + 1)
  BY <1>8
<1>10. Bodies' /\ ListIdent' /\ LeftBehind' /\ ListCalls' /\ mode' \in Modes
  <2>1. \A k \in 1 .. Len(calls') : ListCall(calls'[k])
    BY <1>2, <1>7, <1>8, <1>9 DEF ListCalls
  <2> QED BY <1>1, <2>1, OutsideList
<1>11. Fits(out)'
  BY <1>1, <1>2 DEF Fits, IsList
<1> QED BY <1>6, <1>10, <1>11 DEF ListInv, Modes

(* The fields of a suspended call that a step leaves alone.                *)
LEMMA SetPendingRest ==
  ASSUME NEW c, IsSuspended(c), NEW d, NEW x
  PROVE  LET depth == WithDepth(c, d)
             expanded == WithExpanded(c, x)
         IN  /\ depth.args = c.args /\ depth.expanded = c.expanded /\ depth.out = c.out
             /\ expanded.args = c.args /\ expanded.expanded = x /\ expanded.out = c.out
<1> DEFINE m == c.macro
           a == c.args
           y == c.expanded
           z == c.depth
           o == c.out
           b == c.barrier
           depth == WithDepth(c, d)
           expanded == WithExpanded(c, x)
<1>1. c = [macro |-> m, args |-> a, expanded |-> y, depth |-> z, out |-> o, barrier |-> b]
  BY DEF IsSuspended
<1> HIDE DEF m, a, y, z, o, b
<1>2. depth = [macro |-> m, args |-> a, expanded |-> y, depth |-> d, out |-> o, barrier |-> b]
  BY <1>1 DEF WithDepth
<1>3. expanded = [macro |-> m, args |-> a, expanded |-> x, depth |-> z, out |-> o, barrier |-> b]
  BY <1>1 DEF WithExpanded
<1> HIDE DEF depth, expanded
<1>4. depth.args = a /\ depth.expanded = y /\ depth.out = o
  BY <1>2
<1>5. expanded.args = a /\ expanded.expanded = x /\ expanded.out = o
  BY <1>3
<1> QED BY <1>4, <1>5 DEF depth, expanded, a, y, o

(* An argument is pushed above the frames its barrier protects.            *)
LEMMA NextArgList ==
  ASSUME ExpandInv, ListInv, NextArg
  PROVE  ListInv' /\ (AllPositioned => AllPositioned')
<1>1. CASE TooDeep
  BY <1>1, TooDeepList
<1>2. CASE ~TooDeep
  <2> DEFINE k1 == Len(Pending.expanded) + 1
             text == Pending.args[k1]
             L == Len(calls)
             d == Len(frames)
             e == WithDepth(Pending, d)
  <2>1. /\ mode = "expandArg" /\ mode' = "scan" /\ Len(Pending.expanded) < Len(Pending.args)
        /\ calls' = [calls EXCEPT ![L].depth = d] /\ barrier' = d - 1 /\ out' = <<>>
        /\ frames' = Pushed(frames, text, None)
        /\ UNCHANGED <<macros, ident, origin>>
    BY <1>2 DEF NextArg, PushInput, Pushed, RaisedBarrier
  <2>2. Stacks /\ Calls /\ Nested /\ Innermost /\ ListFrames /\ ListCalls
    BY <2>1 DEF ExpandInv, Suspended, ListInv
  <2>3. calls # <<>>
    BY <2>1, <2>2 DEF Innermost
  <2>4. /\ L \in Nat /\ L \in 1 .. L /\ Pending = calls[L] /\ IsSuspended(Pending)
        /\ ListCall(Pending)
    BY <2>2, <2>3, PendingIsLast DEF ListCalls
  <2>5. IsList(frames) /\ d \in Nat
    BY <2>2, ListFacts DEF Stacks, IsStack
  <2>6. IsList(text)
    <3>1. Len(Pending.expanded) \in Nat /\ Len(Pending.args) \in Nat
      BY <2>4, ListFacts DEF ListCall
    <3>2. k1 \in 1 .. Len(Pending.args)
      BY <2>1, <3>1
    <3> HIDE DEF k1
    <3> QED BY <2>4, <3>2 DEF ListCall
  <2>7. calls' = Replaced(calls, L, e)
    <3> HIDE DEF d
    <3> QED BY <2>1, <2>4 DEF Replaced, WithDepth
  <2>8. /\ IsSuspended(e) /\ e.macro = Pending.macro /\ e.barrier = Pending.barrier /\ e.depth = d
        /\ e.args = Pending.args /\ e.expanded = Pending.expanded /\ e.out = Pending.out
    BY <2>4, SetPending, SetPendingRest
  <2> HIDE DEF e, text
  <2>9. Len(calls') = L /\ calls'[L] = e /\ \A k \in 1 .. L : k # L => calls'[k] = calls[k]
    BY <2>1, <2>2, <2>3, <2>5, <2>7, <2>8, PendingReplaced
  <2>10. ListFrames' /\ (AllPositioned => AllPositioned')
    BY <2>1, <2>2, <2>5, <2>6, PushList DEF ListFrames, AllPositioned
  <2>11. ListCall(e)
    BY <2>4, <2>8, Zenon DEF ListCall
  <2>12. Bodies' /\ ListIdent' /\ LeftBehind' /\ ListCalls' /\ mode' \in Modes
    <3>1. \A k \in 1 .. Len(calls') : ListCall(calls'[k])
      BY <2>2, <2>9, <2>11 DEF ListCalls
    <3> QED BY <2>1, <3>1, OutsideList
  <2>13. Fits(out)'
    <3>1. Len(<<>>) = 0
      OBVIOUS
    <3> QED BY <2>1, <3>1, SingleList, BoundsAssumption DEF Fits, IsList
  <2> QED BY <2>10, <2>12, <2>13 DEF ListInv, Modes
<1> QED BY <1>1, <1>2

(* The scan of an argument ends: the stack is cut to the barrier, and the  *)
(* call outside is scanned again.                                          *)
LEMMA FinishArgList ==
  ASSUME ExpandInv, ListInv, FinishArg
  PROVE  ListInv' /\ (AllPositioned => AllPositioned')
<1> DEFINE L == Len(calls)
           x == Append(Pending.expanded, out)
           e == WithExpanded(Pending, x)
           n == barrier + 1
           K == KeptFrames
           s == Peeked
<1>1. /\ mode = "scan" /\ mode' = "expandArg" /\ calls # <<>> /\ barrier' = Pending.barrier
      /\ out' = Pending.out /\ frames' = SubSeq(s, 1, n)
      /\ UNCHANGED <<macros, ident, origin>>
  BY DEF FinishArg, DrainTo
<1>2. Stacks /\ Calls /\ Nested /\ ListFrames /\ ListCalls /\ Fits(out)
  BY <1>1 DEF ExpandInv, Suspended, ListInv
<1>3. /\ L \in Nat /\ L \in 1 .. L /\ Pending = calls[L] /\ IsSuspended(Pending)
      /\ Pending.depth \in Nat /\ ListCall(Pending)
  BY <1>1, <1>2, PendingIsLast DEF ListCalls
<1>4. Len(frames) \in Nat /\ barrier \in Nat /\ barrier < Len(frames)
  BY <1>2, ListFacts DEF Stacks, IsStack
<1>5. K \in barrier + 1 .. Len(frames) /\ IsList(s) /\ Len(s) = K /\ \A i \in 1 .. K : s[i] = frames[i]
  BY <1>2, PeekFacts
<1> HIDE DEF K, s
<1>6. Len(frames') = n /\ \A i \in 1 .. n : frames'[i] = frames[i]
  <2>1. n \in 0 .. Len(s) /\ \A i \in 1 .. n : i \in 1 .. K
    BY <1>4, <1>5
  <2>2. Len(SubSeq(s, 1, n)) = n /\ \A i \in 1 .. n : SubSeq(s, 1, n)[i] = s[i]
    BY <1>5, <2>1, CutList
  <2> HIDE DEF n
  <2> QED BY <1>1, <1>5, <2>1, <2>2
<1>7. ListFrames' /\ (AllPositioned => AllPositioned')
  <2>1. \A i \in 1 .. n : i \in 1 .. Len(frames)
    BY <1>4
  <2>2. \A i \in 1 .. n : ListFrame(frames'[i]) /\ (AllPositioned => Positioned(frames'[i]))
    BY <1>2, <1>6, <2>1 DEF ListFrames, AllPositioned
  <2> HIDE DEF n
  <2>3. ListFrames'
    BY <1>6, <2>2 DEF ListFrames, ListFrame, IsList
  <2>4. AllPositioned => AllPositioned'
    BY <1>6, <2>2 DEF AllPositioned, Positioned, ListFrame, IsList
  <2> QED BY <2>3, <2>4
<1>8. calls' = Replaced(calls, L, e)
  <2>1. calls' = [calls EXCEPT ![L] = [calls[L] EXCEPT !.expanded = Append(calls[L].expanded, out)]]
    BY Zenon DEF FinishArg
  <2> QED BY <1>3, <2>1 DEF Replaced, WithExpanded
<1>9. /\ IsSuspended(e) /\ e.macro = Pending.macro /\ e.barrier = Pending.barrier
      /\ e.depth = Pending.depth /\ e.args = Pending.args /\ e.expanded = x /\ e.out = Pending.out
  <2> HIDE DEF x
  <2> QED BY <1>3, SetPending, SetPendingRest
<1>10. IsList(x) /\ \A i \in 1 .. Len(x) : IsList(x[i])
  <2>1. IsList(Pending.expanded) /\ IsList(out) /\ \A i \in 1 .. Len(Pending.expanded) : IsList(Pending.expanded[i])
    BY <1>2, <1>3 DEF ListCall, Fits
  <2> DEFINE y == Pending.expanded
  <2> HIDE DEF y
  <2>2. /\ IsList(Append(y, out)) /\ Len(Append(y, out)) = Len(y) + 1 /\ Len(y) \in Nat
        /\ (\A i \in 1 .. Len(y) : Append(y, out)[i] = y[i]) /\ Append(y, out)[Len(y) + 1] = out
    BY <2>1, AppendList, ListFacts DEF y
  <2>3. \A i \in 1 .. Len(y) + 1 : i \in 1 .. Len(y) \/ i = Len(y) + 1
    BY <2>2
  <2>4. \A i \in 1 .. Len(y) : IsList(y[i])
    BY <2>1 DEF y
  <2>5. \A i \in 1 .. Len(Append(y, out)) : IsList(Append(y, out)[i])
    BY <2>1, <2>2, <2>3, <2>4
  <2> QED BY <2>2, <2>5 DEF y
<1> HIDE DEF e, x
<1>11. Len(calls') = L /\ calls'[L] = e /\ \A k \in 1 .. L : k # L => calls'[k] = calls[k]
  BY <1>1, <1>2, <1>3, <1>8, <1>9, PendingReplaced
<1>12. ListCall(e)
  BY <1>3, <1>9, <1>10, Zenon DEF ListCall
<1>13. Bodies' /\ ListIdent' /\ LeftBehind' /\ ListCalls' /\ mode' \in Modes
  <2>1. \A k \in 1 .. Len(calls') : ListCall(calls'[k])
    BY <1>2, <1>11, <1>12 DEF ListCalls
  <2> QED BY <1>1, <2>1, OutsideList
<1>14. Fits(out)'
  BY <1>1, <1>3 DEF ListCall, Fits, IsList
<1> QED BY <1>7, <1>13, <1>14 DEF ListInv, Modes

(* The program's text is all there is at first.                            *)
LEMMA InitList == Init => ListInv /\ AllPositioned
<1> SUFFICES ASSUME Init PROVE ListInv /\ AllPositioned
  OBVIOUS
<1>1. PICK p \in Programs :
        /\ macros = p.macros
        /\ frames = <<[src |-> p.text, pos |-> 1, macro |-> None]>>
  BY DEF Init
<1>2. barrier = 0 /\ mode = "scan" /\ calls = <<>> /\ out = <<>> /\ ident = <<>> /\ origin = {}
  BY DEF Init
<1>3. Bodies
  <2> SUFFICES ASSUME NEW m \in DOMAIN macros PROVE IsList(macros[m].body) /\ IsList(macros[m].params)
    BY DEF Bodies
  <2>1. IsText(macros[m].params) /\ IsText(macros[m].body)
    BY <1>1, ProgramsAssumption
  <2> QED BY <2>1, TextIsList
<1>4. Len(frames) = 1 /\ frames[1].src = p.text /\ frames[1].pos = 1
  BY <1>1
<1>5. ListFrames /\ AllPositioned
  <2>1. IsList(p.text)
    BY <1>1, ProgramsAssumption, TextIsList
  <2>2. Len(p.text) \in Nat
    BY <2>1, ListFacts
  <2>3. \A i \in 1 .. Len(frames) : i = 1
    BY <1>4
  <2>4. ListFrame(frames[1]) /\ Positioned(frames[1])
    BY <1>4, <2>1, <2>2 DEF ListFrame, Positioned
  <2> QED BY <2>3, <2>4 DEF ListFrames, AllPositioned
<1>6. Len(calls) = 0 /\ Len(out) = 0 /\ IsList(out) /\ IsList(ident)
  BY <1>2, SingleList
<1>7. ListCalls
  <2>1. \A k \in 1 .. Len(calls) : FALSE
    BY <1>6
  <2> QED BY <1>2, <2>1 DEF ListCalls
<1>8. Fits(out)
  BY <1>6, BoundsAssumption DEF Fits
<1>9. ListIdent /\ LeftBehind
  BY <1>2, <1>6 DEF ListIdent, LeftBehind
<1> QED BY <1>2, <1>3, <1>5, <1>7, <1>8, <1>9 DEF ListInv, Modes

(* The macro table does not change.                                        *)
LEMMA TableStays == [Next]_vars => macros' = macros
<1>1. Reads => macros' = macros
  BY ReadsTable
<1>2. ExpandObject => macros' = macros
  BY DEF ExpandObject, TooDeep
<1>3. EndArgs => macros' = macros
  BY DEF EndArgs
<1>4. NextArg => macros' = macros
  BY DEF NextArg, TooDeep
<1>5. FinishArg => macros' = macros
  BY DEF FinishArg
<1>6. Substitute => macros' = macros
  BY DEF Substitute, TooDeep
<1>7. UNCHANGED vars => macros' = macros
  BY DEF vars
<1> QED BY <1>1, <1>2, <1>3, <1>4, <1>5, <1>6, <1>7 DEF Next, Terminated, Reads

(* Texts and lists stay what they are, and positions stay in their texts   *)
(* as long as none is put back in a frame it was not read from.            *)
LEMMA StepList ==
  ASSUME ExpandInv, ListInv, [Next]_vars
  PROVE  ListInv' /\ (AllPositioned /\ RestoredInPlace => AllPositioned')
<1>1. CASE Reads
  BY <1>1, ReadsList
<1>2. CASE ExpandObject
  BY <1>2, ExpandObjectList
<1>3. CASE EndArgs
  BY <1>3, EndArgsList
<1>4. CASE NextArg
  BY <1>4, NextArgList
<1>5. CASE FinishArg
  BY <1>5, FinishArgList
<1>6. CASE Substitute
  BY <1>6, SubstituteList
<1>7. CASE UNCHANGED vars
  <2>1. UNCHANGED <<macros, active, frames, barrier, out, mode, ident, origin, call, calls>>
    BY <1>7 DEF vars
  <2>2. Bodies' /\ ListFrames' /\ Fits(out)' /\ mode' \in Modes
    BY <2>1 DEF ListInv, Bodies, ListFrames, ListFrame, Fits, IsList
  <2>3. ListCalls'
    BY <2>1 DEF ListInv, ListCalls, ListCall, Fits, IsList
  <2>4. ListIdent' /\ LeftBehind'
    BY <2>1 DEF ListInv, ListIdent, LeftBehind, Behind, Blanks, IsList
  <2>5. AllPositioned => AllPositioned'
    BY <2>1 DEF AllPositioned, Positioned, ListFrame, IsList
  <2> QED BY <2>2, <2>3, <2>4, <2>5 DEF ListInv, Modes
<1> QED BY <1>1, <1>2, <1>3, <1>4, <1>5, <1>6, <1>7 DEF Next, Terminated, Reads

-----------------------------------------------------------------------------
(* What the invariants say of the properties *)

LEMMA PositionedTypes == ASSUME ExpandInv, ListInv, AllPositioned PROVE TypeOK
<1>1. Table /\ Stacks /\ Fits(out) /\ mode \in Modes /\ origin \subseteq DOMAIN macros
  BY DEF ExpandInv, ListInv, ListIdent
<1>2. IsStack(frames) /\ Len(frames) \in Nat /\ DOMAIN frames = 1 .. Len(frames)
  BY <1>1, ListFacts DEF Stacks, IsStack
<1>3. ASSUME NEW i \in DOMAIN frames
      PROVE  frames[i].macro \in {None} \cup DOMAIN macros /\ frames[i].pos \in 1 .. Len(frames[i].src) + 1
  <2>1. i \in 1 .. Len(frames)
    BY <1>2
  <2>2. frames[i].macro \in {None} \cup DOMAIN macros
    BY <1>2, <2>1 DEF IsStack
  <2>3. Positioned(frames[i])
    BY <2>1 DEF AllPositioned
  <2>4. /\ frames[i].pos \in Nat /\ 1 <= frames[i].pos /\ frames[i].pos <= Len(frames[i].src) + 1
        /\ IsList(frames[i].src)
    BY <2>3 DEF Positioned, ListFrame
  <2>5. Len(frames[i].src) \in Nat
    BY <2>4, ListFacts
  <2>6. frames[i].pos \in 1 .. Len(frames[i].src) + 1
    BY <2>4, <2>5
  <2> QED BY <2>2, <2>6
<1>4. barrier \in 0 .. Len(frames) - 1 /\ Len(frames) <= MaxFrames + 1 /\ Len(out) <= MaxOut
  BY <1>1, <1>2 DEF Stacks, Fits
<1> QED BY <1>1, <1>3, <1>4 DEF TypeOK, Table, Modes

(* What pp_peek leaves is hidden, and what is hidden is not found.         *)
LEMMA FoundNotRead ==
  ASSUME ExpandInv, Found # None
  PROVE  Found \notin BeingExpanded(Peeked)
<1> DEFINE n == KeptFrames
           t == Peeked
           r == Reactivated
           m == Found
<1>1. Table /\ Stacks /\ Hides(active, frames)
  BY DEF ExpandInv
<1>2. m \in DOMAIN macros /\ r[m]
  BY <1>1, FoundFacts
<1>3. n \in 1 .. Len(frames) /\ CutTo(t, frames, n) /\ r = Revived(active, frames, n)
  BY <1>1, PeekCuts, PeekFacts
<1> HIDE DEF n, r, t, m
<1>4. Hides(r, t) /\ Len(t) = n /\ IsList(t)
  BY <1>1, <1>3, CutHides, NoneIsNoMacro DEF Table, Stacks, CutTo
<1>5. DOMAIN t = 1 .. Len(t)
  BY <1>4, ListFacts
<1>6. ~ \E i \in 1 .. Len(t) : t[i].macro = m
  BY <1>2, <1>4, Zenon DEF Hides
<1>7. m \notin {t[i].macro : i \in DOMAIN t}
  BY <1>5, <1>6, Zenon
<1> QED BY <1>7 DEF BeingExpanded, t, m

(* The frame a name was read from is the current one when it turns out to  *)
(* be no invocation.                                                       *)
LEMMA NameLeftBehind ==
  ASSUME ExpandInv, ListInv, RestoredInPlace
  PROVE  ScanResumesBehindName
<1>0. \A x \in Nat : \A n \in 1 .. x : x <= n => n = x
  OBVIOUS
<1> SUFFICES ASSUME mode = "paren", Char \notin {" ", "("}
             PROVE  LET f == Last(Peeked)
                    IN  /\ call.savedPos <= f.pos
                        /\ \A i \in call.savedPos .. f.pos - 1 : f.src[i] = " "
  BY Zenon DEF ScanResumesBehindName
<1>1. Stacks /\ ListFrames /\ LeftBehind /\ Len(frames) \in Nat
  BY ListFacts DEF ExpandInv, ListInv, Stacks, IsStack
<1>2. KeptFrames = call.frame /\ KeptFrames \in 1 .. Len(frames)
  <2>1. Len(Peeked) = call.frame
    BY Zenon DEF RestoredInPlace
  <2>2. Len(Peeked) = KeptFrames /\ KeptFrames \in 1 .. Len(frames)
    BY <1>1, PeekFacts
  <2> QED BY <2>1, <2>2
<1>3. call.frame = Len(frames) /\ Behind(frames[Len(frames)])
  <2>1. Len(frames) <= call.frame /\ (Len(frames) = call.frame => Behind(frames[Len(frames)]))
    BY <1>1, Zenon DEF LeftBehind
  <2> QED BY <1>0, <1>1, <1>2, <2>1, Zenon
<1>4. Last(Peeked) = frames[Len(frames)]
  BY <1>1, <1>2, <1>3, CharFacts
<1> DEFINE f == Last(Peeked)
<1>5. Blanks(f.src, call.savedPos, f.pos)
  BY <1>3, <1>4 DEF Behind
<1> HIDE DEF f
<1>6. call.savedPos <= f.pos /\ \A i \in call.savedPos .. f.pos - 1 : f.src[i] = Blank
  BY <1>5 DEF Blanks
<1> QED BY <1>6, Zenon DEF f, Blank

(* For every table, every text and every depth of the stacks: as long as   *)
(* the search for the parenthesis of a call ends in the frame the name was *)
(* read from, positions stay within their texts.  Frames stay within       *)
(* MaxFrames, the output within its bound, and only macros of the table    *)
(* are called, hidden or popped (PPState, pp_push_input, pp_expand_ident). *)
THEOREM TypesHold == Spec /\ []RestoredInPlace => []TypeOK
<1> DEFINE I == ExpandInv /\ ListInv /\ AllPositioned
<1>1. Init => I
  BY InitHides, InitList
<1>2. I /\ RestoredInPlace /\ [Next]_vars => I'
  BY StepHides, StepList
<1>3. I => TypeOK
  BY PositionedTypes
<1> HIDE DEF I
<1> QED BY <1>1, <1>2, <1>3, PTL DEF Spec

(* For every table: a name is replaced by a macro whose text it comes from *)
(* only if pp_peek dropped that text between the name's first character    *)
(* and its look-up.  Nothing else makes the macro active again: not the    *)
(* scans of arguments inside, the calls that end in them, or the drain of  *)
(* what they leave (pp_peek, pp_find_macro, pp_expand_ident).              *)
THEOREM OwnNameStaysHidden == Spec => [](TextsRemain => OwnNameIsHidden)
<1>1. ExpandInv => (TextsRemain => OwnNameIsHidden)
  BY FoundNotRead DEF TextsRemain, OwnNameIsHidden
<1>2. Init => ExpandInv
  BY InitHides
<1>3. ExpandInv /\ [Next]_vars => ExpandInv'
  BY StepHides
<1> QED BY <1>1, <1>2, <1>3, PTL DEF Spec

(* For every table and every earlier history: when the search for the      *)
(* parenthesis ends in the frame the name was read from, the position that *)
(* pp_expand_ident puts back is that of the character behind the name, and *)
(* only blanks are read again.                                             *)
THEOREM NamesAreLeftBehind == Spec => [](RestoredInPlace => ScanResumesBehindName)
<1> DEFINE I == ExpandInv /\ ListInv
<1>1. Init => I
  BY InitHides, InitList
<1>2. I /\ [Next]_vars => I'
  BY StepHides, StepList
<1>3. I => (RestoredInPlace => ScanResumesBehindName)
  BY NameLeftBehind
<1> HIDE DEF I
<1> QED BY <1>1, <1>2, <1>3, PTL DEF Spec

-----------------------------------------------------------------------------
(* Sums and parentheses *)

(* g sums up what f says of 1 to n.                                        *)
IsSum(g, f, n) ==
  g \in [0 .. n -> Int] /\ g[0] = 0 /\ \A i \in 1 .. n : g[i] = g[i - 1] + f[i]

(* There is such a function, and whatever is defined like one is one.      *)
LEMMA SumExists ==
  ASSUME NEW n \in Nat, NEW f \in [1 .. n -> Int]
  PROVE  /\ \E g : g = [i \in 0 .. n |-> IF i = 0 THEN 0 ELSE g[i - 1] + f[i]]
         /\ \A g : g = [i \in 0 .. n |-> IF i = 0 THEN 0 ELSE g[i - 1] + f[i]] => IsSum(g, f, n)
<1> DEFINE G == [p \in (1 .. n) \X Int |-> p[2] + f[p[1]]]
<1>1. G \in [(1 .. n) \X Int -> Int]
  OBVIOUS
<1>2. \A i \in 1 .. n, x \in Int : G[<<i, x>>] = x + f[i]
  OBVIOUS
<1> HIDE DEF G
<1>3. PICK g : Follows(g, Int, 0, G, n)
  <2>1. 0 \in Int
    OBVIOUS
  <2> DEFINE Z == Int
  <2> HIDE DEF Z
  <2>2. \E g : Follows(g, Z, 0, G, n)
    BY <1>1, <2>1, Recursion DEF Z
  <2> QED BY <2>2 DEF Z
<1>4. g \in [0 .. n -> Int] /\ g[0] = 0 /\ \A i \in 1 .. n : g[i] = G[<<i, g[i - 1]>>]
  BY <1>3 DEF Follows
<1>5. \A i \in 0 .. n : g[i] = IF i = 0 THEN 0 ELSE g[i - 1] + f[i]
  <2>0. \A i \in 0 .. n : i = 0 \/ i \in 1 .. n
    OBVIOUS
  <2> SUFFICES ASSUME NEW i \in 1 .. n PROVE i # 0 /\ g[i] = g[i - 1] + f[i]
    BY <1>4, <2>0
  <2>1. i - 1 \in 0 .. n
    OBVIOUS
  <2>2. g[i - 1] \in Int
    BY <1>4, <2>1
  <2>3. g[i] = G[<<i, g[i - 1]>>] /\ G[<<i, g[i - 1]>>] = g[i - 1] + f[i]
    BY <1>2, <1>4, <2>2
  <2> QED BY <2>3
<1>6. g = [i \in 0 .. n |-> IF i = 0 THEN 0 ELSE g[i - 1] + f[i]]
  BY <1>4, <1>5
<1>7. ASSUME NEW h, h = [i \in 0 .. n |-> IF i = 0 THEN 0 ELSE h[i - 1] + f[i]]
      PROVE  IsSum(h, f, n)
  <2> DEFINE H == {i \in 0 .. n : h[i] \in Int}
  <2>0. \A i \in 0 .. n : h[i] = IF i = 0 THEN 0 ELSE h[i - 1] + f[i]
    BY <1>7, Zenon
  <2>1. 0 \in H /\ H \in SUBSET (0 .. n)
    BY <2>0
  <2>2. ASSUME NEW i \in 0 .. n, i \in H, i < n PROVE i + 1 \in H
    <3>1. i + 1 \in 1 .. n /\ i + 1 \in 0 .. n /\ i + 1 # 0 /\ i + 1 - 1 = i
      BY <2>2
    <3>2. h[i + 1] = h[i] + f[i + 1]
      BY <2>0, <3>1
    <3> QED BY <2>2, <3>1, <3>2
  <2>3. H = 0 .. n
    <3> HIDE DEF H
    <3> QED BY <2>1, <2>2, StepByStep
  <2>4. \A i \in 0 .. n : h[i] \in Int
    BY <2>3
  <2>5. DOMAIN h = 0 .. n
    BY <1>7, Zenon
  <2>6. h = [i \in 0 .. n |-> h[i]]
    BY <1>7, <2>0, Zenon
  <2>7. h \in [0 .. n -> Int]
    BY <2>4, <2>6
  <2>8. \A i \in 1 .. n : i \in 0 .. n /\ i # 0
    OBVIOUS
  <2> QED BY <2>0, <2>7, <2>8 DEF IsSum
<1> QED BY <1>6, <1>7

(* What e says of 1 to m is what f says of the m numbers behind a.         *)
Within(e, m, f, a) == \A i \in 1 .. m : f[a + i] = e[i]

(* Two sums over the same numbers, of which one begins behind a.           *)
LEMMA SumShift ==
  ASSUME NEW n \in Nat, NEW m \in Nat, NEW a \in Nat, a + m <= n,
         NEW f, NEW e \in [1 .. m -> Int], NEW g, NEW h, IsSum(g, f, n), IsSum(h, e, m),
         Within(e, m, f, a)
  PROVE  \A i \in 0 .. m : g[a + i] = g[a] + h[i]
<1> DEFINE H == {i \in 0 .. m : g[a + i] = g[a] + h[i]}
<1>1. 0 \in H /\ H \in SUBSET (0 .. m)
  <2>1. a \in 0 .. n /\ a + 0 = a
    OBVIOUS
  <2> QED BY <2>1 DEF IsSum
<1>2. ASSUME NEW i \in 0 .. m, i \in H, i < m PROVE i + 1 \in H
  <2>1. i + 1 \in 1 .. m /\ i + 1 \in 0 .. m /\ i + 1 - 1 = i
    BY <1>2
  <2>2. a + (i + 1) \in 1 .. n /\ a + (i + 1) - 1 = a + i /\ a + i \in 0 .. n /\ a \in 0 .. n
    BY <1>2
  <2>3. g[a + (i + 1)] = g[a + i] + f[a + (i + 1)] /\ h[i + 1] = h[i] + e[i + 1]
    BY <2>1, <2>2 DEF IsSum
  <2>4. f[a + (i + 1)] = e[i + 1] /\ g[a + i] = g[a] + h[i]
    BY <1>2, <2>1 DEF Within
  <2>5. g[a + i] \in Int /\ g[a] \in Int /\ h[i] \in Int /\ h[i + 1] \in Int /\ g[a + (i + 1)] \in Int
    <3>1. a + (i + 1) \in 0 .. n
      BY <2>2
    <3> QED BY <2>1, <2>2, <3>1 DEF IsSum
  <2>6. e[i + 1] \in Int
    BY <2>1
  <2>7. \A u, v, w, x \in Int : u = v + w => u + x = v + (w + x)
    OBVIOUS
  <2>8. g[a + i] + e[i + 1] = g[a] + (h[i] + e[i + 1])
    BY <2>4, <2>5, <2>6, <2>7
  <2>9. g[a + (i + 1)] = g[a] + h[i + 1]
    BY <2>3, <2>4, <2>8
  <2> QED BY <2>1, <2>9
<1>3. H = 0 .. m
  <2> HIDE DEF H
  <2> QED BY <1>1, <1>2, StepByStep
<1> QED BY <1>3

(* A sum of what is not negative rises, a sum of zeros stays.              *)
LEMMA SumRises ==
  ASSUME NEW n \in Nat, NEW f \in [1 .. n -> Int], NEW g, IsSum(g, f, n), NEW a \in 0 .. n, NEW b \in a .. n,
         \A i \in a + 1 .. b : f[i] >= 0
  PROVE  g[a] <= g[b]
<1> DEFINE H == {i \in 0 .. b - a : g[a] <= g[a + i]}
<1>1. 0 \in H /\ H \in SUBSET (0 .. b - a) /\ b - a \in Nat
  BY DEF IsSum
<1>2. ASSUME NEW i \in 0 .. b - a, i \in H, i < b - a PROVE i + 1 \in H
  <2>1. a + (i + 1) \in 1 .. n /\ a + (i + 1) - 1 = a + i /\ a + i \in 0 .. n /\ a + (i + 1) \in a + 1 .. b
        /\ a + (i + 1) \in 0 .. n /\ i + 1 \in 0 .. b - a
    BY <1>2
  <2>2. g[a + (i + 1)] = g[a + i] + f[a + (i + 1)] /\ f[a + (i + 1)] >= 0 /\ f[a + (i + 1)] \in Int
    BY <2>1 DEF IsSum
  <2>3. g[a + i] \in Int /\ g[a] \in Int
    BY <2>1 DEF IsSum
  <2> QED BY <1>2, <2>1, <2>2, <2>3
<1>3. H = 0 .. b - a
  <2> HIDE DEF H
  <2> QED BY <1>1, <1>2, StepByStep
<1>4. b - a \in 0 .. b - a /\ a + (b - a) = b
  OBVIOUS
<1> QED BY <1>3, <1>4

LEMMA SumStays ==
  ASSUME NEW n \in Nat, NEW f \in [1 .. n -> Int], NEW g, IsSum(g, f, n), NEW a \in 0 .. n, NEW b \in a .. n,
         \A i \in a + 1 .. b : f[i] = 0
  PROVE  g[a] = g[b]
<1> DEFINE H == {i \in 0 .. b - a : g[a] = g[a + i]}
<1>1. 0 \in H /\ H \in SUBSET (0 .. b - a) /\ b - a \in Nat
  BY DEF IsSum
<1>2. ASSUME NEW i \in 0 .. b - a, i \in H, i < b - a PROVE i + 1 \in H
  <2>1. a + (i + 1) \in 1 .. n /\ a + (i + 1) - 1 = a + i /\ a + i \in 0 .. n /\ a + (i + 1) \in a + 1 .. b
        /\ a + (i + 1) \in 0 .. n /\ i + 1 \in 0 .. b - a
    BY <1>2
  <2>2. g[a + (i + 1)] = g[a + i] + f[a + (i + 1)] /\ f[a + (i + 1)] = 0
    BY <2>1 DEF IsSum
  <2>3. g[a + i] \in Int /\ g[a] \in Int
    BY <2>1 DEF IsSum
  <2> QED BY <1>2, <2>1, <2>2, <2>3
<1>3. H = 0 .. b - a
  <2> HIDE DEF H
  <2> QED BY <1>1, <1>2, StepByStep
<1>4. b - a \in 0 .. b - a /\ a + (b - a) = b
  OBVIOUS
<1> QED BY <1>3, <1>4

(* The parentheses of the atoms of a text. *)
Turns(s) == [i \in 1 .. Len(s) |-> Opens(s[i])]

LEMMA NestingFacts ==
  ASSUME NEW s, IsList(s)
  PROVE  Turns(s) \in [1 .. Len(s) -> Int] /\ IsSum(Nesting(s), Turns(s), Len(s))
<1> DEFINE n == Len(s)
           f == Turns(s)
           open[i \in 0 .. n] == IF i = 0 THEN 0 ELSE open[i - 1] + Opens(s[i])
<1>1. n \in Nat
  BY ListFacts
<1>2. f \in [1 .. n -> Int] /\ \A i \in 1 .. n : f[i] = Opens(s[i])
  <2>1. \A i \in 1 .. n : Opens(s[i]) \in Int
    BY DEF Opens
  <2> HIDE DEF n
  <2> QED BY <2>1 DEF Turns, n
<1>3. Nesting(s) = open
  BY DEF Nesting
<1> HIDE DEF n, f
<1>4. /\ \E g : g = [i \in 0 .. n |-> IF i = 0 THEN 0 ELSE g[i - 1] + f[i]]
      /\ \A g : g = [i \in 0 .. n |-> IF i = 0 THEN 0 ELSE g[i - 1] + f[i]] => IsSum(g, f, n)
  BY <1>1, <1>2, SumExists
<1>5. \A g : [i \in 0 .. n |-> IF i = 0 THEN 0 ELSE g[i - 1] + f[i]] = [i \in 0 .. n |-> IF i = 0 THEN 0 ELSE g[i - 1] + Opens(s[i])]
  <2> TAKE g
  <2>1. \A i \in 0 .. n : i # 0 => i \in 1 .. n
    BY <1>1
  <2>2. \A i \in 0 .. n : (IF i = 0 THEN 0 ELSE g[i - 1] + f[i]) = IF i = 0 THEN 0 ELSE g[i - 1] + Opens(s[i])
    BY <1>2, <2>1
  <2> QED BY <2>2, Zenon
<1>6. open = [i \in 0 .. n |-> IF i = 0 THEN 0 ELSE open[i - 1] + Opens(s[i])]
  <2>1. PICK g : g = [i \in 0 .. n |-> IF i = 0 THEN 0 ELSE g[i - 1] + f[i]]
    BY <1>4
  <2>2. g = [i \in 0 .. n |-> IF i = 0 THEN 0 ELSE g[i - 1] + Opens(s[i])]
    BY <1>5, <2>1
  <2> QED BY <2>2
<1> HIDE DEF open
<1>7. IsSum(open, f, n)
  BY <1>4, <1>5, <1>6
<1> QED BY <1>2, <1>3, <1>7 DEF n, f

LEMMA NestingSteps ==
  ASSUME NEW s, IsList(s)
  PROVE  /\ Nesting(s)[0] = 0 /\ \A i \in 0 .. Len(s) : Nesting(s)[i] \in Int
         /\ \A i \in 1 .. Len(s) : Nesting(s)[i] = Nesting(s)[i - 1] + Opens(s[i])
<1> DEFINE g == Nesting(s)
           f == Turns(s)
           n == Len(s)
<1>1. IsSum(g, f, n)
  BY NestingFacts
<1>2. \A i \in 1 .. n : f[i] = Opens(s[i])
  BY DEF Turns
<1> HIDE DEF g, f, n
<1>3. g[0] = 0 /\ (\A i \in 0 .. n : g[i] \in Int) /\ \A i \in 1 .. n : g[i] = g[i - 1] + Opens(s[i])
  BY <1>1, <1>2 DEF IsSum
<1> QED BY <1>3 DEF g, n

(* A text within another one, behind the a-th atom.                        *)
LEMMA NestingShift ==
  ASSUME NEW s, IsList(s), NEW t, IsList(t), NEW a \in Nat, a + Len(t) <= Len(s),
         Within(t, Len(t), s, a)
  PROVE  \A i \in 0 .. Len(t) : Nesting(s)[a + i] = Nesting(s)[a] + Nesting(t)[i]
<1> DEFINE g == Nesting(s)
           h == Nesting(t)
           f == Turns(s)
           e == Turns(t)
           n == Len(s)
           m == Len(t)
<1>1. n \in Nat /\ m \in Nat /\ IsSum(g, f, n) /\ IsSum(h, e, m) /\ e \in [1 .. m -> Int]
  BY ListFacts, NestingFacts
<1>2. Within(e, m, f, a)
  <2> SUFFICES ASSUME NEW i \in 1 .. m PROVE f[a + i] = e[i]
    BY DEF Within
  <2>1. a + i \in 1 .. n
    BY <1>1
  <2>2. f[a + i] = Opens(s[a + i]) /\ e[i] = Opens(t[i]) /\ s[a + i] = t[i]
    BY <2>1 DEF Turns, Within
  <2> QED BY <2>2
<1>3. a + m <= n
  OBVIOUS
<1> HIDE DEF g, h, f, e, n, m
<1>4. \A i \in 0 .. m : g[a + i] = g[a] + h[i]
  BY <1>1, <1>2, <1>3, SumShift
<1> QED BY <1>4 DEF g, h, m

(* Atoms that are no parentheses change nothing.                           *)
LEMMA NestingStays ==
  ASSUME NEW s, IsList(s), NEW a \in 0 .. Len(s), NEW b \in a .. Len(s),
         \A i \in a + 1 .. b : Opens(s[i]) = 0
  PROVE  Nesting(s)[a] = Nesting(s)[b]
<1> DEFINE g == Nesting(s)
           f == Turns(s)
           n == Len(s)
<1>1. n \in Nat /\ IsSum(g, f, n) /\ f \in [1 .. n -> Int]
  BY ListFacts, NestingFacts
<1>2. \A i \in a + 1 .. b : f[i] = 0
  <2> SUFFICES ASSUME NEW i \in a + 1 .. b PROVE f[i] = 0
    OBVIOUS
  <2>1. i \in 1 .. n
    BY <1>1
  <2> QED BY <2>1 DEF Turns
<1>3. a \in 0 .. n /\ b \in a .. n
  OBVIOUS
<1> HIDE DEF g, f, n
<1>4. g[a] = g[b]
  BY <1>1, <1>2, <1>3, SumStays
<1> QED BY <1>4 DEF g

(* A text that closes no parenthesis it has not opened, and has no end of  *)
(* the input in it; and one that closes all of them.                       *)
Height(s) == Nesting(s)[Len(s)]

Partial(s) ==
  /\ IsList(s) /\ \A i \in 0 .. Len(s) : Nesting(s)[i] >= 0
  /\ \A i \in 1 .. Len(s) : s[i] # EndOfInput

Whole(s) == Partial(s) /\ Height(s) = 0

LEMMA HeightFacts ==
  ASSUME NEW s, Partial(s)
  PROVE  Height(s) \in Int /\ Height(s) >= 0 /\ Len(s) \in Nat
<1>1. Len(s) \in Nat /\ Len(s) \in 0 .. Len(s)
  BY ListFacts DEF Partial
<1> QED BY <1>1, NestingSteps DEF Partial, Height

LEMMA EmptyWhole == Whole(<<>>)
<1>1. IsList(<<>>) /\ Len(<<>>) = 0
  BY SingleList
<1>2. PICK s : s = <<>>
  OBVIOUS
<1>3. Nesting(s)[0] = 0 /\ Len(s) = 0 /\ IsList(s)
  BY <1>1, <1>2, NestingSteps
<1>4. \A i \in 0 .. Len(s) : i = 0
  BY <1>3
<1>5. \A i \in 1 .. Len(s) : FALSE
  BY <1>3
<1>6. Whole(s)
  BY <1>3, <1>4, <1>5 DEF Whole, Partial, Height
<1> QED BY <1>2, <1>6

(* A text after an atom.                                                   *)
LEMMA PartialAppend ==
  ASSUME NEW s, Partial(s), NEW c, c # EndOfInput, Height(s) + Opens(c) >= 0
  PROVE  Partial(Append(s, c)) /\ Height(Append(s, c)) = Height(s) + Opens(c)
<1> DEFINE n == Len(s)
<1>0. PICK t : t = Append(s, c)
  OBVIOUS
<1>1. n \in Nat /\ IsList(s) /\ IsList(t) /\ Len(t) = n + 1 /\ t[n + 1] = c /\ \A i \in 1 .. n : t[i] = s[i]
  BY <1>0, AppendList, ListFacts DEF Partial
<1>2. \A i \in 0 .. n : Nesting(t)[i] = Nesting(s)[i]
  <2>1. 0 + n <= Len(t) /\ Within(s, n, t, 0)
    BY <1>1 DEF Within
  <2>2. \A i \in 0 .. n : Nesting(t)[0 + i] = Nesting(t)[0] + Nesting(s)[i]
    BY <1>1, <2>1, NestingShift
  <2>3. Nesting(t)[0] = 0 /\ \A i \in 0 .. n : Nesting(s)[i] \in Int /\ 0 + i = i
    BY <1>1, NestingSteps
  <2> HIDE DEF n
  <2> QED BY <2>2, <2>3
<1>3. Nesting(t)[n + 1] = Nesting(s)[n] + Opens(c)
  <2>1. n + 1 \in 1 .. Len(t) /\ n + 1 - 1 = n /\ n \in 0 .. n
    BY <1>1
  <2> QED BY <1>1, <1>2, <2>1, NestingSteps
<1>4. \A i \in 0 .. n + 1 : i \in 0 .. n \/ i = n + 1
  BY <1>1
<1>5. \A i \in 1 .. n + 1 : i \in 1 .. n \/ i = n + 1
  BY <1>1
<1>6. Nesting(t)[n + 1] >= 0
  BY <1>3 DEF Height
<1>7. \A i \in 0 .. n + 1 : Nesting(t)[i] >= 0
  BY <1>2, <1>4, <1>6 DEF Partial
<1>8. \A i \in 1 .. n + 1 : t[i] # EndOfInput
  BY <1>1, <1>5 DEF Partial
<1>9. Partial(t) /\ Height(t) = Height(s) + Opens(c)
  BY <1>1, <1>3, <1>7, <1>8 DEF Partial, Height
<1> QED BY <1>0, <1>9

LEMMA ConcatAtoms ==
  ASSUME NEW s, IsList(s), NEW t, IsList(t)
  PROVE  /\ \A i \in 1 .. Len(s) : (s \o t)[i] = s[i]
         /\ \A i \in 1 .. Len(t) : (s \o t)[Len(s) + i] = t[i]
<1>1. PICK S : s \in Seq(S)
  BY DEF IsList
<1>2. PICK T : t \in Seq(T)
  BY DEF IsList
<1> DEFINE U == S \cup T
<1>3. s \in Seq(U) /\ t \in Seq(U)
  <2>1. (\A i \in 1 .. Len(s) : s[i] \in U) /\ \A i \in 1 .. Len(t) : t[i] \in U
    BY <1>1, <1>2
  <2> HIDE DEF U
  <2> QED BY <1>1, <1>2, <2>1
<1> HIDE DEF U
<1> QED BY <1>3

(* One text after another.                                                 *)
LEMMA PartialConcat ==
  ASSUME NEW s, Partial(s), NEW t, Partial(t)
  PROVE  Partial(s \o t) /\ Height(s \o t) = Height(s) + Height(t)
<1> DEFINE n == Len(s)
           m == Len(t)
<1>0. PICK u : u = s \o t
  OBVIOUS
<1>1. /\ n \in Nat /\ m \in Nat /\ IsList(s) /\ IsList(t) /\ IsList(u) /\ Len(u) = n + m
      /\ \A i \in 1 .. n : u[i] = s[i]
      /\ \A i \in 1 .. m : u[n + i] = t[i]
  BY <1>0, ConcatList, ConcatAtoms, ListFacts DEF Partial
<1>2. \A i \in 0 .. n : Nesting(u)[i] = Nesting(s)[i]
  <2>1. 0 + n <= Len(u) /\ Within(s, n, u, 0)
    BY <1>1 DEF Within
  <2>2. \A i \in 0 .. n : Nesting(u)[0 + i] = Nesting(u)[0] + Nesting(s)[i]
    BY <1>1, <2>1, NestingShift
  <2>3. Nesting(u)[0] = 0 /\ \A i \in 0 .. n : Nesting(s)[i] \in Int /\ 0 + i = i
    BY <1>1, NestingSteps
  <2> HIDE DEF n
  <2> QED BY <2>2, <2>3
<1>3. \A i \in 0 .. m : Nesting(u)[n + i] = Nesting(s)[n] + Nesting(t)[i]
  <2>1. \A i \in 0 .. m : Nesting(u)[n + i] = Nesting(u)[n] + Nesting(t)[i]
    <3>1. PICK a : a = n
      OBVIOUS
    <3>2. a \in Nat /\ a + m <= Len(u) /\ Within(t, m, u, a)
      BY <1>1, <3>1 DEF Within
    <3>3. \A i \in 0 .. m : Nesting(u)[a + i] = Nesting(u)[a] + Nesting(t)[i]
      BY <1>1, <3>2, NestingShift
    <3> QED BY <3>1, <3>3
  <2>2. n \in 0 .. n
    BY <1>1
  <2> QED BY <1>2, <2>1, <2>2
<1>4. \A i \in 0 .. n + m : i \in 0 .. n \/ \E j \in 0 .. m : i = n + j
  <2> TAKE i \in 0 .. n + m
  <2>1. i <= n \/ (i - n \in 0 .. m /\ i = n + (i - n))
    BY <1>1
  <2> QED BY <2>1
<1>5. \A i \in 1 .. n + m : i \in 1 .. n \/ \E j \in 1 .. m : i = n + j
  <2> TAKE i \in 1 .. n + m
  <2>1. i <= n \/ (i - n \in 1 .. m /\ i = n + (i - n))
    BY <1>1
  <2> QED BY <2>1
<1>6. \A j \in 0 .. m : Nesting(s)[n] + Nesting(t)[j] >= 0
  <2> TAKE j \in 0 .. m
  <2>1. Nesting(s)[n] \in Int /\ Nesting(t)[j] \in Int /\ n \in 0 .. n
    BY <1>1, NestingSteps
  <2>2. Nesting(s)[n] >= 0 /\ Nesting(t)[j] >= 0
    BY <2>1 DEF Partial
  <2> QED BY <2>1, <2>2
<1>7. \A i \in 0 .. n + m : Nesting(u)[i] >= 0
  BY <1>2, <1>3, <1>4, <1>6 DEF Partial
<1>8. \A i \in 1 .. n + m : u[i] # EndOfInput
  BY <1>1, <1>5 DEF Partial
<1>9. m \in 0 .. m
  BY <1>1
<1>10. Partial(u) /\ Height(u) = Height(s) + Height(t)
  BY <1>1, <1>3, <1>7, <1>8, <1>9 DEF Partial, Height
<1> QED BY <1>0, <1>10

(* Texts without parentheses.                                              *)
LEMMA NeutralWhole ==
  ASSUME NEW s, IsList(s), \A i \in 1 .. Len(s) : Opens(s[i]) = 0 /\ s[i] # EndOfInput
  PROVE  Whole(s)
<1>1. Len(s) \in Nat /\ Nesting(s)[0] = 0
  BY ListFacts, NestingSteps
<1>2. \A i \in 0 .. Len(s) : Nesting(s)[i] = 0
  <2> TAKE i \in 0 .. Len(s)
  <2>1. 0 \in 0 .. Len(s) /\ i \in 0 .. Len(s) /\ \A j \in 0 + 1 .. i : j \in 1 .. Len(s)
    BY <1>1
  <2> QED BY <1>1, <2>1, NestingStays
<1>3. Len(s) \in 0 .. Len(s)
  BY <1>1
<1> QED BY <1>2, <1>3 DEF Whole, Partial, Height

LEMMA NameOpens == ASSUME NEW c \in Names PROVE Opens(c) = 0 /\ c # EndOfInput
BY NamesAssumption, Zenon DEF Opens, EndOfInput

LEMMA NamesWhole ==
  ASSUME NEW s, IsList(s), \A i \in 1 .. Len(s) : s[i] \in Names
  PROVE  Whole(s)
BY NameOpens, NeutralWhole

LEMMA BlankOpens == Opens(Blank) = 0 /\ Opens(EndOfInput) = 0
BY Zenon DEF Opens, Blank, EndOfInput

(* The blanks around an argument hold no parentheses.                      *)
LEMMA StripWhole ==
  ASSUME NEW arg, Whole(arg)
  PROVE  Whole(Strip(arg))
<1> DEFINE solid == {i \in DOMAIN arg : arg[i] # Blank}
           a == Min(solid)
           b == Max(solid)
           L == Len(arg)
<1>1. Strip(arg) = IF solid = {} THEN <<>> ELSE SubSeq(arg, a, b)
  BY Zenon DEF Strip, Blank
<1>2. IsList(arg) /\ Partial(arg) /\ Nesting(arg)[L] = 0
  BY DEF Whole, Partial, Height
<1>3. L \in Nat /\ DOMAIN arg = 1 .. L
  BY <1>2, ListFacts
<1>4. /\ solid \in SUBSET Nat /\ \A x \in solid : x <= L /\ x \in 1 .. L
      /\ \A x \in 1 .. L : x \notin solid => Opens(arg[x]) = 0
  BY <1>3, BlankOpens
<1> HIDE DEF solid
<1>5. CASE solid = {}
  <2>1. Strip(arg) = <<>>
    BY <1>1, <1>5
  <2> QED BY <2>1, EmptyWhole
<1>6. CASE solid # {}
  <2>1. a \in solid /\ b \in solid /\ b >= a /\ \A x \in solid : a <= x /\ x <= b
    BY <1>3, <1>4, <1>6, MinFacts, MaxFacts
  <2>2. a \in 1 .. L /\ b \in 1 .. L
    BY <1>4, <2>1
  <2>3. Strip(arg) = SubSeq(arg, a, b)
    BY <1>1, <1>6
  <2>4. PICK S : arg \in Seq(S)
    BY <1>2 DEF IsList
  <2>5. PICK t : t = SubSeq(arg, a, b)
    OBVIOUS
  <2>6. \A i \in 1 .. a - 1 : i \in 1 .. L /\ i \notin solid
    BY <1>3, <2>1, <2>2
  <2>7. \A i \in b + 1 .. L : i \in 1 .. L /\ i \notin solid
    BY <1>3, <2>1, <2>2
  <2> HIDE DEF a, b
  <2>8. IsList(t) /\ Len(t) = b - a + 1 /\ \A i \in 1 .. b - a + 1 : t[i] = arg[a - 1 + i]
    <3>1. t \in Seq(S) /\ Len(t) = b - a + 1
      BY <2>1, <2>2, <2>4, <2>5
    <3>2. \A i \in 1 .. b - a + 1 : t[i] = arg[a - 1 + i]
      BY <2>1, <2>2, <2>4, <2>5
    <3> QED BY <3>1, <3>2 DEF IsList
  <2> DEFINE m == b - a + 1
             c == a - 1
  <2>9. m \in Nat /\ c \in Nat /\ c + m = b /\ c + m <= L
    BY <1>3, <2>1, <2>2
  <2>10. Nesting(arg)[c] = 0
    <3>1. 0 \in 0 .. L /\ c \in 0 .. L /\ \A i \in 0 + 1 .. c : i \in 1 .. a - 1
      BY <1>3, <2>2
    <3>2. \A i \in 0 + 1 .. c : Opens(arg[i]) = 0
      BY <1>4, <2>6, <3>1
    <3>3. Nesting(arg)[0] = Nesting(arg)[c]
      BY <1>2, <3>1, <3>2, NestingStays
    <3> QED BY <1>2, <3>3, NestingSteps
  <2>11. Nesting(arg)[b] = 0
    <3>1. b \in 0 .. L /\ L \in b .. L
      BY <1>3, <2>2
    <3>2. \A i \in b + 1 .. L : Opens(arg[i]) = 0
      BY <1>4, <2>7
    <3>3. Nesting(arg)[b] = Nesting(arg)[L]
      BY <1>2, <3>1, <3>2, NestingStays
    <3> QED BY <1>2, <3>3
  <2>12. Len(t) = m /\ Within(t, m, arg, c)
    BY <2>8 DEF Within
  <2>13. \A i \in 0 .. m : c + i \in 0 .. L
    BY <1>3, <2>9
  <2>14. \A i \in 1 .. m : c + i \in 1 .. L /\ t[i] = arg[c + i]
    BY <1>3, <2>8, <2>9
  <2> HIDE DEF m, c
  <2>15. \A i \in 0 .. m : Nesting(arg)[c + i] = Nesting(arg)[c] + Nesting(t)[i]
    <3>1. Len(t) = m /\ c + Len(t) <= Len(arg) /\ Within(t, Len(t), arg, c)
      BY <2>9, <2>12
    <3>2. \A i \in 0 .. Len(t) : Nesting(arg)[c + i] = Nesting(arg)[c] + Nesting(t)[i]
      BY <1>2, <2>8, <2>9, <3>1, NestingShift
    <3> QED BY <3>1, <3>2
  <2>16. \A i \in 0 .. m : Nesting(t)[i] \in Int
    BY <2>8, <2>12, NestingSteps
  <2>17. \A i \in 0 .. m : Nesting(t)[i] = Nesting(arg)[c + i]
    BY <2>10, <2>15, <2>16
  <2>18. \A i \in 0 .. m : Nesting(t)[i] >= 0
    BY <1>2, <2>13, <2>17 DEF Partial
  <2>19. m \in 0 .. m
    BY <2>9
  <2>20. Nesting(t)[m] = 0
    BY <2>9, <2>11, <2>17, <2>19
  <2>21. \A i \in 1 .. m : t[i] # EndOfInput
    BY <1>2, <2>14 DEF Partial
  <2> QED BY <2>3, <2>5, <2>8, <2>12, <2>18, <2>20, <2>21 DEF Whole, Partial, Height
<1> QED BY <1>5, <1>6

(* A replacement text whose parameters are replaced by whole texts.        *)
LEMMA FlattenWhole ==
  ASSUME NEW body, Partial(body), NEW seqs, IsList(seqs), Len(seqs) = Len(body),
         \A i \in 1 .. Len(body) :
           (Whole(seqs[i]) /\ Opens(body[i]) = 0) \/ seqs[i] = <<body[i]>>
  PROVE  Partial(FlattenSeq(seqs)) /\ Height(FlattenSeq(seqs)) = Height(body)
<1> DEFINE n == Len(body)
<1>1. n \in Nat /\ IsList(body) /\ Nesting(body)[0] = 0
  BY ListFacts, NestingSteps DEF Partial
<1>2. \A i \in 1 .. n : IsList(seqs[i])
  BY SingleList DEF Whole, Partial
<1>3. seqs = <<>> <=> n = 0
  BY ListFacts
<1>4. CASE n = 0
  <2>1. FlattenSeq(seqs) = <<>>
    BY <1>2, <1>3, <1>4, FlattenSteps
  <2>2. Height(body) = 0
    BY <1>1, <1>4 DEF Height
  <2> QED BY <2>1, <2>2, EmptyWhole DEF Whole
<1>5. CASE n # 0
  <2>1. PICK f, U : /\ FlattenSeq(seqs) = f[n]
                    /\ \A i \in 1 .. n :
                         /\ f[i] \in Seq(U) /\ seqs[i] \in Seq(U)
                         /\ f[i] = IF i = 1 THEN seqs[i] ELSE f[i - 1] \o seqs[i]
    BY <1>2, <1>3, <1>5, FlattenSteps
  <2> DEFINE H == {k \in 0 .. n : k = 0 \/ (Partial(f[k]) /\ Height(f[k]) = Nesting(body)[k])}
  <2>2. 0 \in H /\ H \in SUBSET (0 .. n)
    BY <1>1
  <2>3. ASSUME NEW k \in 0 .. n, k \in H, k < n PROVE k + 1 \in H
    <3> DEFINE s == IF k = 0 THEN <<>> ELSE f[k]
               j == k + 1
               c == body[k + 1]
               t == seqs[k + 1]
    <3>1. j \in 1 .. n /\ j \in 0 .. n /\ j - 1 = k /\ (k # 0 => k \in 1 .. n) /\ (j = 1 <=> k = 0)
      BY <1>1, <2>3
    <3>2. s \in Seq(U) /\ t \in Seq(U)
      BY <2>1, <3>1
    <3>3. Partial(s) /\ Height(s) = Nesting(body)[k]
      <4>1. Partial(<<>>) /\ Height(<<>>) = 0
        BY EmptyWhole DEF Whole
      <4> QED BY <1>1, <2>3, <4>1
    <3>4. f[j] = s \o t
      <4>1. \A x \in Seq(U) : <<>> \o x = x
        OBVIOUS
      <4>2. k # 0 => f[j] = f[k] \o t
        BY <2>1, <3>1
      <4>3. k = 0 => f[j] = t
        BY <2>1, <3>1
      <4> QED BY <3>2, <4>1, <4>2, <4>3
    <3>5. Nesting(body)[j] = Nesting(body)[k] + Opens(c) /\ Nesting(body)[j] >= 0 /\ c # EndOfInput
      BY <1>1, <3>1, NestingSteps DEF Partial
    <3>6. Nesting(body)[k] \in Int
      BY <1>1, NestingSteps
    <3>7. (Whole(t) /\ Opens(c) = 0) \/ t = <<c>>
      BY <3>1
    <3>8. \A x \in Seq(U) : Append(x, c) = x \o <<c>>
      OBVIOUS
    <3> HIDE DEF s, t, c
    <3>9. Partial(f[j]) /\ Height(f[j]) = Nesting(body)[j]
      <4>1. CASE Whole(t) /\ Opens(c) = 0
        BY <3>3, <3>4, <3>5, <3>6, <4>1, PartialConcat DEF Whole
      <4>2. CASE t = <<c>>
        <5>1. f[j] = Append(s, c)
          BY <3>2, <3>4, <3>8, <4>2
        <5> QED BY <3>3, <3>5, <5>1, PartialAppend
      <4> QED BY <3>7, <4>1, <4>2
    <3> QED BY <3>1, <3>9
  <2>4. H = 0 .. n
    <3> HIDE DEF H
    <3> QED BY <1>1, <2>2, <2>3, StepByStep
  <2>5. n \in H
    BY <1>1, <2>4
  <2> QED BY <1>5, <2>1, <2>5 DEF Height
<1> QED BY <1>4, <1>5

-----------------------------------------------------------------------------
(* What the frames have opened *)

(* The parentheses of a frame that are open at its position, and those of  *)
(* the first frames of a stack.                                            *)
OpenIn(f) == Nesting(f.src)[f.pos - 1]

Opened(s) ==
  LET sum[n \in 0 .. Len(s)] == IF n = 0 THEN 0 ELSE sum[n - 1] + OpenIn(s[n])
  IN  sum

Counted(s) == IsList(s) /\ \A i \in 1 .. Len(s) : OpenIn(s[i]) \in Int

Counts(s) == [i \in 1 .. Len(s) |-> OpenIn(s[i])]

LEMMA OpenedFacts ==
  ASSUME NEW s, Counted(s)
  PROVE  /\ Len(s) \in Nat /\ Counts(s) \in [1 .. Len(s) -> Int] /\ IsSum(Opened(s), Counts(s), Len(s))
         /\ \A i \in 0 .. Len(s) : Opened(s)[i] \in Int
         /\ \A i \in 1 .. Len(s) : Opened(s)[i] = Opened(s)[i - 1] + OpenIn(s[i])
<1> DEFINE n == Len(s)
           f == Counts(s)
           sum[i \in 0 .. n] == IF i = 0 THEN 0 ELSE sum[i - 1] + OpenIn(s[i])
<1>1. n \in Nat
  BY ListFacts DEF Counted
<1>2. f \in [1 .. n -> Int] /\ \A i \in 1 .. n : f[i] = OpenIn(s[i])
  BY DEF Counts, Counted
<1>3. Opened(s) = sum
  BY DEF Opened
<1> HIDE DEF n, f
<1>4. /\ \E g : g = [i \in 0 .. n |-> IF i = 0 THEN 0 ELSE g[i - 1] + f[i]]
      /\ \A g : g = [i \in 0 .. n |-> IF i = 0 THEN 0 ELSE g[i - 1] + f[i]] => IsSum(g, f, n)
  BY <1>1, <1>2, SumExists
<1>5. \A g : [i \in 0 .. n |-> IF i = 0 THEN 0 ELSE g[i - 1] + f[i]] = [i \in 0 .. n |-> IF i = 0 THEN 0 ELSE g[i - 1] + OpenIn(s[i])]
  <2> TAKE g
  <2>1. \A i \in 0 .. n : i # 0 => i \in 1 .. n
    BY <1>1
  <2>2. \A i \in 0 .. n : (IF i = 0 THEN 0 ELSE g[i - 1] + f[i]) = IF i = 0 THEN 0 ELSE g[i - 1] + OpenIn(s[i])
    BY <1>2, <2>1
  <2> QED BY <2>2, Zenon
<1>6. sum = [i \in 0 .. n |-> IF i = 0 THEN 0 ELSE sum[i - 1] + OpenIn(s[i])]
  <2>1. PICK g : g = [i \in 0 .. n |-> IF i = 0 THEN 0 ELSE g[i - 1] + f[i]]
    BY <1>4
  <2>2. g = [i \in 0 .. n |-> IF i = 0 THEN 0 ELSE g[i - 1] + OpenIn(s[i])]
    BY <1>5, <2>1
  <2> QED BY <2>2
<1> HIDE DEF sum
<1>7. IsSum(sum, f, n)
  BY <1>4, <1>5, <1>6
<1>8. (\A i \in 0 .. n : sum[i] \in Int) /\ \A i \in 1 .. n : sum[i] = sum[i - 1] + OpenIn(s[i])
  BY <1>2, <1>7 DEF IsSum
<1> QED BY <1>1, <1>2, <1>3, <1>7, <1>8 DEF n, f

(* Stacks that agree up to the n-th frame.                                 *)
LEMMA OpenedSame ==
  ASSUME NEW s, Counted(s), NEW t, Counted(t), NEW n \in Nat, n <= Len(s), n <= Len(t),
         \A i \in 1 .. n : OpenIn(t[i]) = OpenIn(s[i])
  PROVE  \A i \in 0 .. n : Opened(t)[i] = Opened(s)[i]
<1> DEFINE H == {i \in 0 .. n : Opened(t)[i] = Opened(s)[i]}
<1>1. /\ IsSum(Opened(s), Counts(s), Len(s)) /\ IsSum(Opened(t), Counts(t), Len(t))
      /\ Len(s) \in Nat /\ Len(t) \in Nat
      /\ \A i \in 1 .. Len(s) : Opened(s)[i] = Opened(s)[i - 1] + OpenIn(s[i])
      /\ \A i \in 1 .. Len(t) : Opened(t)[i] = Opened(t)[i - 1] + OpenIn(t[i])
  BY OpenedFacts
<1>2. 0 \in H /\ H \in SUBSET (0 .. n)
  BY <1>1 DEF IsSum
<1>3. ASSUME NEW i \in 0 .. n, i \in H, i < n PROVE i + 1 \in H
  <2>1. i + 1 \in 1 .. n /\ i + 1 \in 0 .. n /\ i + 1 \in 1 .. Len(s) /\ i + 1 \in 1 .. Len(t) /\ i + 1 - 1 = i
    BY <1>1, <1>3
  <2>2. Opened(t)[i] = Opened(s)[i] /\ OpenIn(t[i + 1]) = OpenIn(s[i + 1])
    BY <1>3, <2>1
  <2> QED BY <1>1, <2>1, <2>2
<1>4. H = 0 .. n
  <2> HIDE DEF H
  <2> QED BY <1>2, <1>3, StepByStep
<1> QED BY <1>4

(* Cutting a stack to n frames, where what goes has opened nothing, and a  *)
(* move within the n-th.                                                   *)
LEMMA OpenedMove ==
  ASSUME NEW s, Counted(s), NEW t, Counted(t), NEW n \in 1 .. Len(s), Len(t) = n,
         \A i \in 1 .. n - 1 : t[i] = s[i],
         \A i \in n + 1 .. Len(s) : OpenIn(s[i]) = 0
  PROVE  /\ \A i \in 0 .. n - 1 : Opened(t)[i] = Opened(s)[i]
         /\ Opened(t)[n] = Opened(s)[Len(s)] - OpenIn(s[n]) + OpenIn(t[n])
<1>1. Len(s) \in Nat /\ n - 1 \in Nat /\ n - 1 <= Len(s) /\ n - 1 <= Len(t) /\ n \in 1 .. Len(t)
      /\ n - 1 \in 0 .. Len(s) /\ n \in 0 .. Len(s) /\ Len(s) \in n .. Len(s) /\ n - 1 \in 0 .. n - 1
  BY OpenedFacts
<1>2. \A i \in 0 .. n - 1 : Opened(t)[i] = Opened(s)[i]
  BY <1>1, OpenedSame
<1>3. Opened(s)[n] = Opened(s)[Len(s)]
  <2>1. Counts(s) \in [1 .. Len(s) -> Int] /\ IsSum(Opened(s), Counts(s), Len(s))
    BY OpenedFacts
  <2>2. \A i \in n + 1 .. Len(s) : Counts(s)[i] = 0
    <3> TAKE i \in n + 1 .. Len(s)
    <3>1. i \in 1 .. Len(s)
      BY <1>1
    <3> QED BY <3>1 DEF Counts
  <2> QED BY <1>1, <2>1, <2>2, SumStays
<1>4. /\ Opened(s)[n] = Opened(s)[n - 1] + OpenIn(s[n]) /\ Opened(t)[n] = Opened(t)[n - 1] + OpenIn(t[n])
      /\ Opened(s)[n - 1] \in Int /\ OpenIn(s[n]) \in Int /\ OpenIn(t[n]) \in Int
  BY <1>1, OpenedFacts DEF Counted
<1>5. Opened(t)[n - 1] = Opened(s)[n - 1]
  BY <1>1, <1>2
<1> QED BY <1>2, <1>3, <1>4, <1>5

LEMMA OpenedPrime == Opened(frames)' = Opened(frames')
BY DEF Opened, OpenIn, Nesting, Opens

LEMMA WholePrime ==
  /\ Partial(out)' <=> Partial(out')
  /\ Height(out)' = Height(out')
BY DEF Partial, IsList, Height, Nesting, Opens, EndOfInput

-----------------------------------------------------------------------------
(* Frames that stand in their texts *)

TextInv == ListInv /\ AllPositioned

(* What the theorem about arguments takes for granted in every state.      *)
Settled == RestoredInPlace /\ NamesEndInside /\ TextsMatched

LEMMA StepText ==
  ASSUME ExpandInv, TextInv, RestoredInPlace, [Next]_vars
  PROVE  TextInv'
BY StepList DEF TextInv

LEMMA TextChar ==
  ASSUME Stacks, AllPositioned
  PROVE  LET f == frames[KeptFrames]
         IN  /\ Last(Peeked) = f /\ Positioned(f)
             /\ Char # EndOfInput => f.pos <= Len(f.src) /\ Char = f.src[f.pos]
<1>1. ListFrames
  BY DEF AllPositioned, Positioned, ListFrames
<1>2. KeptFrames \in 1 .. Len(frames)
  BY PeekFacts
<1>3. Positioned(frames[KeptFrames])
  BY <1>2 DEF AllPositioned
<1> QED BY <1>1, <1>3, CharFacts

LEMMA TextShape ==
  ASSUME Stacks, AllPositioned, NEW n \in 1 .. Len(frames), NEW p \in Nat, 1 <= p,
         p <= Len(frames[n].src) + 1, Shape(n, p)
  PROVE  AllPositioned'
<1>1. ListFrames
  BY DEF AllPositioned, Positioned, ListFrames
<1> QED BY <1>1, ShapeKeeps

(* What follows an argument does not continue a name that ends it.         *)
LEMMA EndsInside ==
  ASSUME NamesEndInside, calls # <<>>, Len(Peeked) = barrier + 1
  PROVE  (mode = "ident" => Char \notin Names) /\ (mode = "paren" => Char # Blank /\ Char # "(")
BY Zenon DEF NamesEndInside, Blank

(* What is read in search of a parenthesis.                                *)
LEMMA ParenReads ==
  ASSUME SkipWhitespace \/ OpenParen
  PROVE  Read /\ mode = "paren" /\ Char \in {Blank, "("}
<1>1. SkipWhitespace => Read /\ mode = "paren" /\ Char = Blank
  BY Zenon DEF SkipWhitespace, Blank
<1>2. OpenParen => Read /\ mode = "paren" /\ Char = "("
  BY Zenon DEF OpenParen
<1> QED BY <1>1, <1>2

-----------------------------------------------------------------------------
(* The invariant of the scan of an argument.                               *)

(* What a text leaves open, and more, is what the frames of s above lo and *)
(* up to hi have opened.                                                   *)
Balanced(text, more, s, lo, hi) ==
  Partial(text) /\ Height(text) + more = Opened(s)[hi] - Opened(s)[lo]

WholeTexts(texts) == \A i \in 1 .. Len(texts) : Whole(texts[i])

(* What is pushed closes the parentheses it opens.                         *)
WholeFrames(s) == \A i \in 2 .. Len(s) : Whole(s[i].src)

WholeCalls(cs) == \A k \in 1 .. Len(cs) : WholeTexts(cs[k].args) /\ WholeTexts(cs[k].expanded)

(* The argument being read is as deep as the level that is counted.        *)
WholeArgs(m, c) ==
  /\ m = "paren" => c.level = 0
  /\ m = "args" =>
       /\ c.level \in Nat
       /\ \A i \in 1 .. Len(c.args) :
            Partial(c.args[i]) /\ Height(c.args[i]) = IF i = Len(c.args) THEN c.level ELSE 0

(* The output of a scan that stands still, and that of the innermost one.  *)
OuterSums(m, s, cs) ==
  \A k \in 2 .. Len(cs) :
    Balanced(cs[k].out, 0, s, cs[k].barrier + 1,
             IF k < Len(cs) \/ m # "expandArg" THEN cs[k].depth ELSE Len(s))

More(m, c) == IF m = "args" THEN c.level + 1 ELSE 0

InnerSum(m, s, cs, b, o, c) ==
  /\ cs # <<>> /\ m \in {"scan", "ident", "paren", "args"} =>
       Balanced(o, More(m, c), s, b + 1, Len(s))
  /\ m = "expandArg" => o = cs[Len(cs)].out

(* A name holds no parentheses, and the position behind one that is called *)
(* at the end of an argument is where the text goes on.                    *)
InsideIdent(m, s, cs, b, name, c) ==
  /\ m \in {"ident", "paren"} => \A i \in 1 .. Len(name) : name[i] \in Names
  /\ cs # <<>> /\ m = "paren" /\ Len(s) = b + 1 => s[b + 1].pos = c.savedPos

(* The replacement texts have no end of the input in them, and parameters  *)
(* are identifiers.                                                        *)
Readable(table) ==
  \A m \in DOMAIN table :
    /\ \A i \in 1 .. Len(table[m].body) : table[m].body[i] # EndOfInput
    /\ \A i \in 1 .. Len(table[m].params) : table[m].params[i] \in Names

Inside(m, s, cs, b, o, c, name) ==
  m # "abort" =>
    /\ WholeFrames(s) /\ WholeCalls(cs) /\ WholeArgs(m, c)
    /\ OuterSums(m, s, cs) /\ InnerSum(m, s, cs, b, o, c)
    /\ InsideIdent(m, s, cs, b, name, c)

InsideInv ==
  Readable(macros) /\ Inside(mode, frames, calls, barrier, out, call, ident)

LEMMA InsidePrime ==
  InsideInv' <=>
    Readable(macros') /\ Inside(mode', frames', calls', barrier', out', call', ident')
BY DEF InsideInv, Readable, Inside, WholeFrames, WholeCalls, WholeArgs, OuterSums, InnerSum, More, InsideIdent,
       WholeTexts, Balanced, Whole, Partial, IsList, Height, Nesting, Opens, Opened, OpenIn, EndOfInput, Exhausted

(* A stack of frames that stand in their texts.                            *)
Standing(s) == IsList(s) /\ \A i \in 1 .. Len(s) : Positioned(s[i])

LEMMA StandingCounted ==
  ASSUME NEW s, Standing(s)
  PROVE  Counted(s) /\ \A i \in 1 .. Len(s) : s[i].pos - 1 \in 0 .. Len(s[i].src) /\ IsList(s[i].src)
<1> SUFFICES ASSUME NEW i \in 1 .. Len(s)
             PROVE  OpenIn(s[i]) \in Int /\ s[i].pos - 1 \in 0 .. Len(s[i].src) /\ IsList(s[i].src)
  BY DEF Counted, Standing
<1> DEFINE f == s[i]
<1>1. IsList(f.src) /\ f.pos \in Nat /\ 1 <= f.pos /\ f.pos <= Len(f.src) + 1
  BY DEF Standing, Positioned, ListFrame
<1> HIDE DEF f
<1>2. f.pos - 1 \in 0 .. Len(f.src)
  BY <1>1, ListFacts
<1>3. OpenIn(f) \in Int
  BY <1>1, <1>2, NestingSteps DEF OpenIn
<1> QED BY <1>1, <1>2, <1>3 DEF f

(* The frames above others have opened what they have not closed, and a    *)
(* frame that has run out has closed all.                                  *)
LEMMA FramesOpen ==
  ASSUME NEW s, Standing(s), WholeFrames(s), NEW i \in 2 .. Len(s)
  PROVE  OpenIn(s[i]) \in Int /\ OpenIn(s[i]) >= 0 /\ (Exhausted(s[i]) => OpenIn(s[i]) = 0)
<1> DEFINE f == s[i]
<1>1. i \in 1 .. Len(s)
  OBVIOUS
<1>2. Whole(f.src) /\ f.pos - 1 \in 0 .. Len(f.src) /\ IsList(f.src) /\ f.pos \in Nat /\ OpenIn(f) \in Int
  BY <1>1, StandingCounted DEF WholeFrames, Standing, Positioned, ListFrame, Counted
<1>3. Exhausted(f) => f.pos > Len(f.src)
  BY DEF Exhausted
<1> HIDE DEF f
<1>4. OpenIn(f) >= 0
  BY <1>2 DEF OpenIn, Whole, Partial
<1>5. ASSUME Exhausted(f) PROVE OpenIn(f) = 0
  <2>1. f.pos - 1 = Len(f.src)
    BY <1>2, <1>3, <1>5, ListFacts
  <2> QED BY <1>2, <2>1 DEF OpenIn, Whole, Height
<1> QED BY <1>2, <1>4, <1>5 DEF f

LEMMA StackRises ==
  ASSUME NEW s, Standing(s), WholeFrames(s), NEW a \in 1 .. Len(s), NEW b \in a .. Len(s)
  PROVE  /\ Opened(s)[a] \in Int /\ Opened(s)[b] \in Int
         /\ Opened(s)[a] <= Opened(s)[b]
         /\ (\A i \in a + 1 .. b : Exhausted(s[i])) => Opened(s)[a] = Opened(s)[b]
<1> DEFINE n == Len(s)
           f == Counts(s)
           g == Opened(s)
<1>1. n \in Nat /\ f \in [1 .. n -> Int] /\ IsSum(g, f, n) /\ \A i \in 0 .. n : g[i] \in Int
  BY StandingCounted, OpenedFacts
<1>2. a \in 0 .. n /\ b \in a .. n /\ b \in 0 .. n
  BY <1>1
<1>3. \A i \in a + 1 .. b : i \in 1 .. n /\ i \in 2 .. n
  BY <1>1
<1>4. \A i \in a + 1 .. b : f[i] >= 0 /\ (Exhausted(s[i]) => f[i] = 0)
  <2> TAKE i \in a + 1 .. b
  <2>1. f[i] = OpenIn(s[i])
    BY <1>3 DEF Counts
  <2>2. i \in 2 .. Len(s)
    BY <1>3
  <2> QED BY <2>1, <2>2, FramesOpen
<1> HIDE DEF n, f, g
<1>5. g[a] <= g[b]
  BY <1>1, <1>2, <1>4, SumRises
<1>6. (\A i \in a + 1 .. b : Exhausted(s[i])) => g[a] = g[b]
  BY <1>1, <1>2, <1>4, SumStays
<1> QED BY <1>1, <1>2, <1>5, <1>6 DEF g

(* What pp_peek pops has run out.                                          *)
LEMMA PeekPops ==
  ASSUME Stacks
  PROVE  \A i \in KeptFrames + 1 .. Len(frames) : Exhausted(frames[i])
<1>1. IsList(frames) /\ Len(frames) \in Nat /\ barrier \in Nat /\ barrier + 1 <= Len(frames)
  BY ListFacts DEF Stacks, IsStack
<1> DEFINE S == {barrier + 1} \cup {i \in barrier + 1 .. Len(frames) : ~Exhausted(frames[i])}
<1>2. \A x \in S : x \in barrier + 1 .. Len(frames)
  BY <1>1
<1>3. S \in SUBSET Nat /\ S # {} /\ \A x \in S : x <= Len(frames)
  <2>1. barrier + 1 \in S
    OBVIOUS
  <2> HIDE DEF S
  <2> QED BY <1>1, <1>2, <2>1
<1>4. KeptFrames = Max(S)
  BY DEF KeptFrames
<1>5. \A i \in barrier + 1 .. Len(frames) : i \notin S => Exhausted(frames[i])
  OBVIOUS
<1> HIDE DEF S
<1>6. KeptFrames \in S /\ \A x \in S : KeptFrames >= x
  BY <1>1, <1>3, <1>4, MaxFacts
<1>7. KeptFrames \in barrier + 1 .. Len(frames)
  BY <1>2, <1>6
<1>8. \A i \in KeptFrames + 1 .. Len(frames) : i \in barrier + 1 .. Len(frames) /\ ~(KeptFrames >= i)
  BY <1>1, <1>7
<1> QED BY <1>5, <1>6, <1>8

(* A read.                                                                 *)
LEMMA ForwardShape ==
  ASSUME ExpandInv, TextInv, Read, Char # EndOfInput
  PROVE  /\ Shape(KeptFrames, frames[KeptFrames].pos + 1)
         /\ frames[KeptFrames].pos + 1 \in Nat
         /\ frames[KeptFrames].pos + 1 <= Len(frames[KeptFrames].src) + 1
<1> DEFINE n == KeptFrames
           f == frames[KeptFrames]
<1>1. Stacks /\ AllPositioned
  BY DEF ExpandInv, TextInv, ListInv
<1>2. Last(Peeked) = f /\ Positioned(f) /\ f.pos <= Len(f.src)
  BY <1>1, TextChar
<1>3. f.pos \in Nat /\ Len(f.src) \in Nat
  BY <1>2, ListFacts DEF Positioned, ListFrame
<1>4. frames' = [Peeked EXCEPT ![Len(Peeked)].pos = Peeked[Len(Peeked)].pos + 1]
  BY Zenon DEF Read, Advanced
<1>5. Peeked[Len(Peeked)] = f
  BY <1>2 DEF Last
<1>6. frames' = [Peeked EXCEPT ![Len(Peeked)].pos = f.pos + 1]
  BY <1>4, <1>5
<1>7. Shape(n, f.pos + 1)
  BY <1>1, <1>6, MoveShape
<1> HIDE DEF n, f
<1>8. f.pos + 1 \in Nat /\ f.pos + 1 <= Len(f.src) + 1
  BY <1>2, <1>3
<1> QED BY <1>7, <1>8 DEF n, f

(* The frames up to the barrier keep what the suspended calls have put out *)
(* in balance.                                                             *)
LEMMA OuterStay ==
  ASSUME ExpandInv, mode # "abort", OuterSums(mode, frames, calls), NEW k \in 2 .. Len(calls), Scanning(k),
         NEW t, \A i \in 0 .. barrier + 1 : Opened(t)[i] = Opened(frames)[i]
  PROVE  Balanced(calls[k].out, 0, t, calls[k].barrier + 1, calls[k].depth)
<1>1. Calls /\ Below /\ Stacks /\ barrier \in Nat
  BY DEF ExpandInv, Suspended, Stacks
<1>2. Len(calls) \in Nat /\ k \in 1 .. Len(calls)
  BY <1>1, ListFacts DEF Calls
<1>3. calls[k].barrier \in Nat /\ calls[k].depth \in Nat /\ calls[k].barrier < calls[k].depth /\ calls[k].depth <= barrier + 1
  BY <1>1, <1>2 DEF Calls, Below
<1> DEFINE c == calls[k]
<1>4. Balanced(c.out, 0, frames, c.barrier + 1, c.depth)
  BY DEF OuterSums, Scanning
<1> HIDE DEF c
<1>5. c.barrier + 1 \in 0 .. barrier + 1 /\ c.depth \in 0 .. barrier + 1
  BY <1>1, <1>3 DEF c
<1>6. Balanced(c.out, 0, t, c.barrier + 1, c.depth)
  BY <1>4, <1>5 DEF Balanced
<1> QED BY <1>6 DEF c

(* A step that reads, in the argument or not at all, moves what the frames *)
(* have opened by what it reads.                                           *)
LEMMA MoveSums ==
  ASSUME ExpandInv, TextInv, mode \notin {"expandArg", "abort"}, WholeFrames(frames),
         OuterSums(mode, frames, calls), UNCHANGED <<macros, barrier>>,
         NEW n, n = KeptFrames, NEW p \in Nat, 1 <= p, p <= Len(frames[n].src) + 1, Shape(n, p),
         calls # <<>> => n # barrier + 1 \/ p = frames[n].pos
  PROVE  /\ Standing(frames') /\ Len(frames') = n /\ WholeFrames(frames')
         /\ \A k \in 2 .. Len(calls) : Balanced(calls[k].out, 0, frames', calls[k].barrier + 1, calls[k].depth)
         /\ calls # <<>> =>
              /\ Opened(frames')[barrier + 1] = Opened(frames)[barrier + 1]
              /\ Opened(frames')[n] = Opened(frames)[Len(frames)] - OpenIn(frames[n]) + OpenIn(frames'[n])
<1>1. Stacks /\ AllPositioned /\ IsList(frames)
  BY DEF ExpandInv, TextInv, ListInv, Stacks, IsStack
<1>2. /\ n \in barrier + 1 .. Len(frames) /\ n \in 1 .. Len(frames) /\ barrier \in Nat /\ Len(frames) \in Nat
      /\ \A i \in n + 1 .. Len(frames) : Exhausted(frames[i])
  BY <1>1, PeekFacts, PeekPops, ListFacts DEF Stacks
<1>3. Standing(frames)
  BY <1>1 DEF Standing, AllPositioned
<1>4. AllPositioned'
  BY <1>1, <1>2, TextShape
<1>5. /\ IsList(frames') /\ Len(frames') = n /\ frames'[n].pos = p
      /\ \A i \in 1 .. n : frames'[i].src = frames[i].src /\ frames'[i].macro = frames[i].macro
      /\ \A i \in 1 .. n - 1 : frames'[i] = frames[i]
  BY DEF Shape
<1>6. Standing(frames')
  <2>2. \A i \in 1 .. Len(frames') : Positioned(frames[i])'
    BY <1>4 DEF AllPositioned
  <2>3. \A i \in 1 .. Len(frames') : Positioned(frames[i])' <=> Positioned(frames'[i])
    BY DEF Positioned, ListFrame, IsList
  <2> QED BY <1>5, <2>2, <2>3 DEF Standing
<1>7. WholeFrames(frames')
  <2>1. \A i \in 2 .. n : i \in 2 .. Len(frames) /\ i \in 1 .. n
    BY <1>2
  <2> QED BY <1>5, <2>1 DEF WholeFrames
<1>8. Counted(frames) /\ Counted(frames')
  BY <1>3, <1>6, StandingCounted
<1>9. ASSUME calls # <<>> PROVE \A i \in 0 .. barrier + 1 : Opened(frames')[i] = Opened(frames)[i]
  <2>1. ASSUME NEW i \in 1 .. barrier + 1 PROVE OpenIn(frames'[i]) = OpenIn(frames[i])
    <3>1. CASE i # n
      <4>1. i \in 1 .. n - 1
        BY <1>2, <3>1
      <4> QED BY <1>5, <4>1
    <3>2. CASE i = n
      <4>1. n = barrier + 1
        BY <1>2, <3>2
      <4>2. p = frames[n].pos
        BY <1>9, <4>1
      <4>3. frames'[n].src = frames[n].src
        BY <1>2, <1>5
      <4> QED BY <1>5, <3>2, <4>2, <4>3 DEF OpenIn
    <3> QED BY <3>1, <3>2
  <2>2. barrier + 1 \in Nat /\ barrier + 1 <= Len(frames) /\ barrier + 1 <= Len(frames')
    BY <1>2, <1>5
  <2> QED BY <1>8, <2>1, <2>2, OpenedSame
<1>10. ASSUME NEW k \in 2 .. Len(calls)
       PROVE  Balanced(calls[k].out, 0, frames', calls[k].barrier + 1, calls[k].depth)
  <2>1. calls # <<>>
    <3>1. IsList(calls)
      BY DEF ExpandInv, Calls
    <3> QED BY <3>1, ListFacts
  <2>2. Scanning(k)
    BY DEF Scanning
  <2> QED BY <1>9, <2>1, <2>2, OuterStay
<1>11. Opened(frames')[n] = Opened(frames)[Len(frames)] - OpenIn(frames[n]) + OpenIn(frames'[n])
  <2>1. \A i \in n + 1 .. Len(frames) : OpenIn(frames[i]) = 0
    <3> TAKE i \in n + 1 .. Len(frames)
    <3>1. i \in 2 .. Len(frames)
      BY <1>2
    <3> QED BY <1>2, <1>3, <3>1, FramesOpen
  <2> QED BY <1>2, <1>5, <1>8, <2>1, OpenedMove
<1>12. barrier + 1 \in 0 .. barrier + 1
  BY <1>2
<1> QED BY <1>5, <1>6, <1>7, <1>9, <1>10, <1>11, <1>12

(* Where a scan of an argument reads, the argument has not run out: the    *)
(* scan stops before, names and blanks are read only within it, and a      *)
(* call is complete when the parentheses are closed.                       *)
LEMMA StaysInside ==
  ASSUME ExpandInv, TextInv, InsideInv, Settled, calls # <<>>,
         \/ mode = "scan" /\ InTarget
         \/ mode = "ident" /\ Char \in Names
         \/ mode = "paren" /\ Char \in {Blank, "("}
         \/ mode = "args"
  PROVE  /\ KeptFrames \in barrier + 2 .. Len(frames) /\ ~Exhausted(frames[KeptFrames])
         /\ Char # EndOfInput
<1> DEFINE n == KeptFrames
           f == frames[KeptFrames]
<1>1. Stacks /\ AllPositioned /\ Innermost /\ mode \notin {"expandArg", "abort"}
  BY DEF ExpandInv, TextInv, ListInv, Suspended
<1>2. /\ n \in barrier + 1 .. Len(frames) /\ n \in 1 .. Len(frames) /\ Len(Peeked) = n
      /\ barrier \in Nat /\ Len(frames) \in Nat
      /\ (n = barrier + 1 \/ ~Exhausted(f))
      /\ \A i \in n + 1 .. Len(frames) : Exhausted(frames[i])
  BY <1>1, PeekFacts, PeekPops, ListFacts DEF Stacks, IsStack
<1>3. /\ WholeFrames(frames) /\ WholeArgs(mode, call)
      /\ InnerSum(mode, frames, calls, barrier, out, call)
      /\ InsideIdent(mode, frames, calls, barrier, ident, call)
  BY <1>1 DEF InsideInv, Inside
<1>4. Last(Peeked) = f /\ Positioned(f) /\ (Char # EndOfInput => f.pos <= Len(f.src) /\ Char = f.src[f.pos])
  BY <1>1, TextChar
<1>5. n # barrier + 1
  <2> SUFFICES ASSUME n = barrier + 1 PROVE FALSE
    OBVIOUS
  <2>1. CASE mode = "scan" /\ InTarget
    <3>1. n >= Last(calls).depth + 1 /\ Last(calls) = Pending
      BY <1>2, <2>1 DEF InTarget, TargetFrames, Pending
    <3>2. barrier = Pending.depth - 1 /\ Pending.depth \in Nat
      <4>1. barrier = Pending.depth - 1
        BY <1>1, <2>1 DEF Innermost
      <4>2. Pending.depth \in Nat
        BY PendingIsLast DEF ExpandInv
      <4> QED BY <4>1, <4>2
    <3> HIDE DEF n
    <3> QED BY <1>2, <3>1, <3>2
  <2>2. CASE mode = "ident" /\ Char \in Names
    BY <1>2, <2>2, EndsInside DEF Settled
  <2>3. CASE mode = "paren" /\ Char \in {Blank, "("}
    <3>1. Char # Blank /\ Char # "("
      BY <1>2, <2>3, EndsInside DEF Settled
    <3> QED BY <2>3, <3>1
  <2>4. CASE mode = "args"
    <3>1. Standing(frames)
      BY <1>1 DEF Standing, AllPositioned, Stacks, IsStack
    <3>2. barrier + 1 \in 1 .. Len(frames) /\ Len(frames) \in barrier + 1 .. Len(frames)
      BY <1>2
    <3>3. Opened(frames)[barrier + 1] = Opened(frames)[Len(frames)] /\ Opened(frames)[barrier + 1] \in Int
      <4> HIDE DEF n
      <4> QED BY <1>2, <1>3, <3>1, <3>2, StackRises
    <3>4. /\ Partial(out) /\ call.level \in Nat
          /\ Height(out) + (call.level + 1) = Opened(frames)[Len(frames)] - Opened(frames)[barrier + 1]
      BY <1>3, <2>4 DEF InnerSum, Balanced, WholeArgs, More
    <3>5. Height(out) \in Int /\ Height(out) >= 0
      BY <3>4, HeightFacts
    <3> QED BY <3>3, <3>4, <3>5
  <2> QED BY <2>1, <2>2, <2>3, <2>4
<1>6. n \in barrier + 2 .. Len(frames) /\ ~Exhausted(f)
  <2> HIDE DEF n, f
  <2> QED BY <1>2, <1>5
<1>7. Char # EndOfInput
  <2>1. Char = f.src[f.pos]
    BY <1>4, <1>6 DEF Char
  <2>2. n \in 2 .. Len(frames)
    BY <1>2, <1>6
  <2>3. Whole(f.src)
    BY <1>3, <2>2 DEF WholeFrames
  <2>4. ~(f.pos > Len(f.src)) /\ f.pos \in Nat /\ 1 <= f.pos /\ Len(f.src) \in Nat
    <3>1. ~(f.pos > Len(f.src))
      BY <1>6 DEF Exhausted
    <3> QED BY <1>4, <3>1, ListFacts DEF Positioned, ListFrame
  <2> HIDE DEF f
  <2>5. f.pos \in 1 .. Len(f.src)
    BY <2>4
  <2> QED BY <2>1, <2>3, <2>5 DEF Whole, Partial
<1> QED BY <1>6, <1>7

(* The character read is counted.                                          *)
LEMMA ReadOpens ==
  ASSUME ExpandInv, TextInv, Char # EndOfInput, Shape(KeptFrames, frames[KeptFrames].pos + 1)
  PROVE  /\ OpenIn(frames'[KeptFrames]) = OpenIn(frames[KeptFrames]) + Opens(Char)
         /\ OpenIn(frames[KeptFrames]) \in Int
<1> DEFINE n == KeptFrames
           f == frames[KeptFrames]
<1>1. Stacks /\ AllPositioned
  BY DEF ExpandInv, TextInv, ListInv
<1>2. Positioned(f) /\ f.pos <= Len(f.src) /\ Char = f.src[f.pos]
  BY <1>1, TextChar
<1>3. n \in 1 .. n
  BY <1>1, PeekFacts DEF Stacks
<1>4. frames'[n].src = f.src /\ frames'[n].pos = f.pos + 1
  BY <1>3 DEF Shape
<1> HIDE DEF n, f
<1>5. IsList(f.src) /\ f.pos \in Nat /\ 1 <= f.pos /\ Len(f.src) \in Nat
  BY <1>2, ListFacts DEF Positioned, ListFrame
<1>6. f.pos \in 1 .. Len(f.src) /\ f.pos + 1 - 1 = f.pos /\ f.pos - 1 \in 0 .. Len(f.src)
  BY <1>2, <1>5
<1>7. Nesting(f.src)[f.pos] = Nesting(f.src)[f.pos - 1] + Opens(f.src[f.pos])
  BY <1>5, <1>6, NestingSteps
<1>8. Nesting(f.src)[f.pos - 1] \in Int
  BY <1>5, <1>6, NestingSteps
<1> QED BY <1>2, <1>4, <1>6, <1>7, <1>8 DEF OpenIn, n, f

-----------------------------------------------------------------------------
(* The actions that only read                                              *)

(* The move of a step that reads: up to the n-th frame, to p in it, past   *)
(* what opens d.                                                           *)
Moves(n, p, d) ==
  /\ n = KeptFrames /\ p \in Nat /\ 1 <= p /\ p <= Len(frames[n].src) + 1 /\ Shape(n, p)
  /\ calls # <<>> => n # barrier + 1 \/ p = frames[n].pos
  /\ d \in Int /\ OpenIn(frames'[n]) = OpenIn(frames[n]) + d

LEMMA MoveRises ==
  ASSUME ExpandInv, TextInv, InsideInv, mode \in {"scan", "ident", "paren", "args"}, calls # <<>>,
         UNCHANGED <<macros, barrier>>, NEW n, NEW p, NEW d, Moves(n, p, d)
  PROVE  /\ Partial(out) /\ Height(out) \in Int /\ Height(out) + More(mode, call) + d >= 0
         /\ Height(out) + More(mode, call) + d = Opened(frames')[n] - Opened(frames')[barrier + 1]
         /\ More(mode, call) \in Int
<1>1. /\ WholeFrames(frames) /\ WholeArgs(mode, call) /\ OuterSums(mode, frames, calls)
      /\ InnerSum(mode, frames, calls, barrier, out, call)
  BY DEF InsideInv, Inside
<1>2. Stacks /\ AllPositioned
  BY DEF ExpandInv, TextInv, ListInv
<1>3. n \in barrier + 1 .. Len(frames) /\ n \in 1 .. Len(frames) /\ barrier \in Nat /\ Len(frames) \in Nat
  BY <1>2, PeekFacts, ListFacts DEF Stacks, IsStack, Moves
<1>4. /\ Standing(frames') /\ Len(frames') = n /\ WholeFrames(frames')
      /\ Opened(frames')[barrier + 1] = Opened(frames)[barrier + 1]
      /\ Opened(frames')[n] = Opened(frames)[Len(frames)] - OpenIn(frames[n]) + OpenIn(frames'[n])
  BY <1>1, MoveSums DEF Moves
<1>5. Standing(frames)
  BY <1>2 DEF Standing, AllPositioned, Stacks, IsStack
<1>6. More(mode, call) \in Int
  BY <1>1 DEF More, WholeArgs
<1>7. Partial(out) /\ Height(out) + More(mode, call) = Opened(frames)[Len(frames)] - Opened(frames)[barrier + 1]
  BY <1>1 DEF InnerSum, Balanced
<1>8. Height(out) \in Int
  BY <1>7, HeightFacts
<1>9. Opened(frames)[Len(frames)] \in Int /\ Opened(frames)[barrier + 1] \in Int /\ OpenIn(frames[n]) \in Int
  <2>1. Len(frames) \in 0 .. Len(frames) /\ barrier + 1 \in 0 .. Len(frames)
    BY <1>3
  <2> QED BY <1>3, <1>5, <2>1, StandingCounted, OpenedFacts DEF Counted
<1>10. /\ Opened(frames')[barrier + 1] <= Opened(frames')[n]
       /\ Opened(frames')[barrier + 1] \in Int /\ Opened(frames')[n] \in Int
  <2>1. barrier + 1 \in 1 .. Len(frames') /\ n \in barrier + 1 .. Len(frames')
    BY <1>3, <1>4
  <2> QED BY <1>4, <2>1, StackRises
<1>11. d \in Int /\ OpenIn(frames'[n]) = OpenIn(frames[n]) + d
  BY DEF Moves
<1>12. Height(out) + More(mode, call) + d = Opened(frames')[n] - Opened(frames')[barrier + 1]
  BY <1>4, <1>6, <1>7, <1>8, <1>9, <1>11
<1> QED BY <1>6, <1>7, <1>8, <1>10, <1>12

LEMMA MoveInside ==
  ASSUME ExpandInv, TextInv, InsideInv, mode \in {"scan", "ident", "paren", "args"},
         mode' \in {"scan", "ident", "paren", "args", "done"},
         UNCHANGED <<macros, barrier, calls>>, NEW n, NEW p, NEW d, Moves(n, p, d),
         WholeArgs(mode', call'),
         calls # <<>> => Partial(out') /\ Height(out') + More(mode', call') = Height(out) + More(mode, call) + d,
         InsideIdent(mode', frames', calls, barrier, ident', call')
  PROVE  InsideInv'
<1>1. /\ WholeFrames(frames) /\ OuterSums(mode, frames, calls) /\ WholeCalls(calls) /\ Readable(macros)
  BY DEF InsideInv, Inside
<1>2. /\ Len(frames') = n /\ WholeFrames(frames')
      /\ \A k \in 2 .. Len(calls) : Balanced(calls[k].out, 0, frames', calls[k].barrier + 1, calls[k].depth)
  BY <1>1, MoveSums DEF Moves
<1>3. OuterSums(mode', frames', calls')
  BY <1>2 DEF OuterSums
<1>4. InnerSum(mode', frames', calls', barrier', out', call')
  <2> SUFFICES ASSUME calls # <<>> PROVE Balanced(out', More(mode', call'), frames', barrier + 1, Len(frames'))
    BY DEF InnerSum
  <2>1. Height(out) + More(mode, call) + d = Opened(frames')[n] - Opened(frames')[barrier + 1]
    BY MoveRises
  <2> QED BY <1>2, <2>1 DEF Balanced
<1> QED BY <1>1, <1>2, <1>3, <1>4, InsidePrime DEF Inside

LEMMA ForwardMoves ==
  ASSUME ExpandInv, TextInv, InsideInv, Settled, Read, Char # EndOfInput,
         \/ mode = "scan" /\ InTarget
         \/ mode = "ident" /\ Char \in Names
         \/ mode = "paren" /\ Char \in {Blank, "("}
         \/ mode = "args"
  PROVE  Moves(KeptFrames, frames[KeptFrames].pos + 1, Opens(Char))
<1>1. Stacks /\ AllPositioned
  BY DEF ExpandInv, TextInv, ListInv
<1>2. /\ Shape(KeptFrames, frames[KeptFrames].pos + 1)
      /\ frames[KeptFrames].pos + 1 \in Nat
      /\ frames[KeptFrames].pos + 1 <= Len(frames[KeptFrames].src) + 1
  BY ForwardShape
<1>3. OpenIn(frames'[KeptFrames]) = OpenIn(frames[KeptFrames]) + Opens(Char)
  BY <1>2, ReadOpens
<1>4. calls # <<>> => KeptFrames # barrier + 1
  <2>1. barrier \in Nat
    BY <1>1 DEF Stacks
  <2>2. calls # <<>> => KeptFrames \in barrier + 2 .. Len(frames)
    BY StaysInside
  <2> QED BY <2>1, <2>2
<1>5. frames[KeptFrames].pos \in Nat
  BY <1>1, TextChar DEF Positioned, ListFrame
<1>6. 1 <= frames[KeptFrames].pos + 1
  BY <1>5
<1>7. Opens(Char) \in Int
  BY DEF Opens
<1> QED BY <1>2, <1>3, <1>4, <1>6, <1>7 DEF Moves

LEMMA PeekMoves ==
  ASSUME ExpandInv, TextInv, Peek
  PROVE  /\ Moves(KeptFrames, frames[KeptFrames].pos, 0)
         /\ frames'[KeptFrames].pos = frames[KeptFrames].pos /\ frames'[KeptFrames].src = frames[KeptFrames].src
         /\ Len(frames') = KeptFrames
<1>1. Stacks /\ AllPositioned /\ Standing(frames)
  BY DEF ExpandInv, TextInv, ListInv, Standing, AllPositioned, Stacks, IsStack
<1>2. Shape(KeptFrames, frames[KeptFrames].pos)
  BY <1>1, PeekShape DEF Peek
<1>3. KeptFrames \in 1 .. Len(frames)
  BY <1>1, PeekFacts
<1> DEFINE n == KeptFrames
           f == frames[KeptFrames]
<1>4. f.pos \in Nat /\ 1 <= f.pos /\ f.pos <= Len(f.src) + 1
  BY <1>1, <1>3, TextChar DEF Positioned, ListFrame
<1>5. OpenIn(f) \in Int
  BY <1>1, <1>3, StandingCounted DEF Counted
<1>6. frames'[n].pos = f.pos /\ frames'[n].src = f.src /\ Len(frames') = n
  <2>1. n \in 1 .. n
    BY <1>3
  <2> QED BY <1>2, <2>1 DEF Shape
<1>7. OpenIn(frames'[n]) = OpenIn(f) + 0
  BY <1>5, <1>6 DEF OpenIn
<1> QED BY <1>2, <1>4, <1>6, <1>7 DEF Moves

LEMMA ParenOpens ==
  Opens("(") = 1 /\ Opens(")") = -1 /\ Opens(",") = 0 /\ "(" # EndOfInput
BY Zenon DEF Opens, EndOfInput

LEMMA ScanOtherInside ==
  ASSUME ExpandInv, TextInv, InsideInv, Settled, ScanOther
  PROVE  InsideInv'
<1>1. /\ mode = "scan" /\ InTarget /\ Read /\ out' = Append(out, Char) /\ mode' = "scan"
      /\ Char # EndOfInput /\ UNCHANGED <<macros, barrier, calls, ident, call>>
  BY DEF ScanOther, InTarget
<1>2. PICK n, p, d : Moves(n, p, d) /\ d = Opens(Char)
  BY <1>1, ForwardMoves
<1>3. WholeArgs(mode', call') /\ InsideIdent(mode', frames', calls, barrier, ident', call')
  BY <1>1 DEF WholeArgs, InsideIdent
<1>4. ASSUME calls # <<>>
      PROVE  Partial(out') /\ Height(out') + More(mode', call') = Height(out) + More(mode, call) + d
  <2>1. Partial(out) /\ Height(out) \in Int /\ Height(out) + More(mode, call) + d >= 0
    BY <1>1, <1>2, <1>4, MoveRises
  <2>2. More(mode, call) = 0 /\ More(mode', call') = 0 /\ d \in Int
    BY <1>1, <1>2 DEF More, Moves
  <2>3. Partial(Append(out, Char)) /\ Height(Append(out, Char)) = Height(out) + d
    <3>1. Height(out) + d >= 0
      BY <2>1, <2>2
    <3> QED BY <1>1, <1>2, <2>1, <3>1, PartialAppend
  <2> QED BY <1>1, <2>1, <2>2, <2>3
<1> QED BY <1>1, <1>2, <1>3, <1>4, MoveInside

LEMMA ScanIdentInside ==
  ASSUME ExpandInv, TextInv, InsideInv, Settled, ScanIdent
  PROVE  InsideInv'
<1>1. /\ mode = "scan" /\ InTarget /\ Peek /\ mode' = "ident" /\ ident' = <<>>
      /\ UNCHANGED <<macros, barrier, out, calls, call>>
  BY DEF ScanIdent
<1>2. PICK n, p : Moves(n, p, 0) /\ n = KeptFrames /\ Len(frames') = n
                  /\ frames'[n].pos = frames[n].pos /\ frames'[n].src = frames[n].src
  BY <1>1, PeekMoves
<1>3. WholeArgs(mode', call')
  BY <1>1 DEF WholeArgs
<1>4. InsideIdent(mode', frames', calls, barrier, ident', call')
  <2>1. \A i \in 1 .. Len(ident') : FALSE
    BY <1>1
  <2> QED BY <1>1, <2>1 DEF InsideIdent
<1>5. ASSUME calls # <<>>
      PROVE  Partial(out') /\ Height(out') + More(mode', call') = Height(out) + More(mode, call) + 0
  <2>1. Partial(out) /\ Height(out) \in Int
    BY <1>1, <1>2, <1>5, MoveRises
  <2>2. More(mode, call) = 0 /\ More(mode', call') = 0
    BY <1>1 DEF More
  <2> QED BY <1>1, <2>1, <2>2
<1> QED BY <1>1, <1>2, <1>3, <1>4, <1>5, MoveInside

LEMMA FinishInside ==
  ASSUME ExpandInv, TextInv, InsideInv, Finish
  PROVE  InsideInv'
<1>1. /\ mode = "scan" /\ calls = <<>> /\ Peek /\ mode' = "done"
      /\ UNCHANGED <<macros, barrier, out, ident, calls, call>>
  BY DEF Finish
<1>2. PICK n, p : Moves(n, p, 0)
  BY <1>1, PeekMoves
<1>3. WholeArgs(mode', call') /\ InsideIdent(mode', frames', calls, barrier, ident', call')
  BY <1>1 DEF WholeArgs, InsideIdent
<1> QED BY <1>1, <1>2, <1>3, MoveInside

LEMMA ReadIdentInside ==
  ASSUME ExpandInv, TextInv, InsideInv, Settled, ReadIdent
  PROVE  InsideInv'
<1>1. /\ mode = "ident" /\ Char \in Names /\ Read /\ mode' = "ident" /\ ident' = Append(ident, Char)
      /\ UNCHANGED <<macros, barrier, out, calls, call>>
  BY DEF ReadIdent
<1>2. Char # EndOfInput /\ Opens(Char) = 0
  BY <1>1, NameOpens
<1>3. PICK n, p : Moves(n, p, 0) /\ n = KeptFrames /\ p = frames[n].pos + 1
  BY <1>1, <1>2, ForwardMoves
<1>4. WholeArgs(mode', call')
  BY <1>1 DEF WholeArgs
<1>5. Stacks /\ AllPositioned /\ IsList(ident)
  BY DEF ExpandInv, TextInv, ListInv, ListIdent
<1>6. /\ WholeFrames(frames)
      /\ InsideIdent(mode, frames, calls, barrier, ident, call)
  BY <1>1 DEF InsideInv, Inside
<1> DEFINE c == Char
           L == Len(ident)
<1>10. /\ L \in Nat /\ Len(ident') = L + 1 /\ ident'[L + 1] = c
       /\ \A i \in 1 .. L : ident'[i] = ident[i]
  BY <1>1, <1>5, AppendList, ListFacts
<1> HIDE DEF c, L
<1>11. \A i \in 1 .. L + 1 : i \in 1 .. L \/ i = L + 1
  BY <1>10
<1>13. \A i \in 1 .. Len(ident') : ident'[i] \in Names
  <2>1. \A i \in 1 .. L : ident[i] \in Names
    BY <1>1, <1>6 DEF InsideIdent, L
  <2>2. c \in Names
    BY <1>1 DEF c
  <2> QED BY <1>10, <1>11, <2>1, <2>2
<1>15. InsideIdent(mode', frames', calls, barrier, ident', call')
  BY <1>1, <1>13 DEF InsideIdent
<1>16. ASSUME calls # <<>>
       PROVE  Partial(out') /\ Height(out') + More(mode', call') = Height(out) + More(mode, call) + 0
  <2>1. Partial(out) /\ Height(out) \in Int
    BY <1>1, <1>3, <1>16, MoveRises
  <2>2. More(mode, call) = 0 /\ More(mode', call') = 0
    BY <1>1 DEF More
  <2> QED BY <1>1, <2>1, <2>2
<1> QED BY <1>1, <1>3, <1>4, <1>15, <1>16, MoveInside

(* The name that is put out opens nothing.                                 *)
LEMMA NameOut ==
  ASSUME TextInv, InsideInv, mode \in {"ident", "paren"}, Partial(out)
  PROVE  Partial(out \o ident) /\ Height(out \o ident) = Height(out) /\ Height(out) \in Int
<1>1. IsList(ident) /\ \A i \in 1 .. Len(ident) : ident[i] \in Names
  BY DEF TextInv, ListInv, ListIdent, InsideInv, Inside, InsideIdent
<1>2. Whole(ident)
  BY <1>1, NamesWhole
<1>3. Partial(out \o ident) /\ Height(out \o ident) = Height(out) + Height(ident)
  BY <1>2, PartialConcat DEF Whole
<1>4. Height(out) \in Int /\ Height(ident) = 0
  BY <1>2, HeightFacts DEF Whole
<1> QED BY <1>3, <1>4

LEMMA EmitIdentInside ==
  ASSUME ExpandInv, TextInv, InsideInv, EmitIdent
  PROVE  InsideInv'
<1>1. /\ mode = "ident" /\ Peek /\ mode' = "scan" /\ out' = out \o ident
      /\ UNCHANGED <<macros, barrier, calls, ident, call>>
  BY DEF EmitIdent, IdentRead
<1>2. PICK n, p : Moves(n, p, 0)
  BY <1>1, PeekMoves
<1>3. WholeArgs(mode', call') /\ InsideIdent(mode', frames', calls, barrier, ident', call')
  BY <1>1 DEF WholeArgs, InsideIdent
<1>4. ASSUME calls # <<>>
      PROVE  Partial(out') /\ Height(out') + More(mode', call') = Height(out) + More(mode, call) + 0
  <2>1. Partial(out)
    BY <1>1, <1>2, <1>4, MoveRises
  <2>2. Partial(out') /\ Height(out') = Height(out) /\ Height(out) \in Int
    BY <1>1, <2>1, NameOut
  <2>3. More(mode, call) = 0 /\ More(mode', call') = 0
    BY <1>1 DEF More
  <2> QED BY <2>2, <2>3
<1> QED BY <1>1, <1>2, <1>3, <1>4, MoveInside

(* The position saved for a call is the one it begins at.                  *)
LEMMA BeginCallInside ==
  ASSUME ExpandInv, TextInv, InsideInv, BeginCall
  PROVE  InsideInv'
<1>1. /\ mode = "ident" /\ Found # None /\ macros[Found].isFunctionLike /\ Peek /\ mode' = "paren"
      /\ call' = [NoCall EXCEPT !.macro = Found, !.savedPos = SavedPosition, !.frame = Len(Peeked)]
      /\ UNCHANGED <<macros, barrier, out, calls, ident>>
  BY DEF BeginCall, IdentRead
<1>2. PICK n, p : /\ Moves(n, p, 0) /\ n = KeptFrames /\ Len(frames') = n
                  /\ frames'[n].pos = frames[n].pos
  BY <1>1, PeekMoves
<1>3. call'.level = 0 /\ call'.savedPos = SavedPosition
  <2> DEFINE x == Found
             y == SavedPosition
             z == Len(Peeked)
  <2>1. call' = [NoCall EXCEPT !.macro = x, !.savedPos = y, !.frame = z]
    BY <1>1
  <2> HIDE DEF x, y, z
  <2>2. call'.level = 0 /\ call'.savedPos = y
    BY <2>1 DEF NoCall
  <2> QED BY <2>2 DEF y
<1>4. InsideIdent(mode, frames, calls, barrier, ident, call) /\ Stacks /\ Table /\ IsList(ident)
  BY <1>1 DEF InsideInv, Inside, ExpandInv, TextInv, ListInv, ListIdent
<1>5. SavedPosition = frames[n].pos
  <2>1. Last(Peeked) = frames[KeptFrames]
    BY <1>4, TextChar DEF TextInv
  <2> QED BY <1>2, <2>1 DEF SavedPosition
<1>6. WholeArgs(mode', call')
  BY <1>1, <1>3 DEF WholeArgs
<1>7. InsideIdent(mode', frames', calls, barrier, ident', call')
  BY <1>1, <1>2, <1>3, <1>4, <1>5 DEF InsideIdent
<1>8. ASSUME calls # <<>>
      PROVE  Partial(out') /\ Height(out') + More(mode', call') = Height(out) + More(mode, call) + 0
  <2>1. Partial(out) /\ Height(out) \in Int
    BY <1>1, <1>2, <1>8, MoveRises
  <2>2. More(mode, call) = 0 /\ More(mode', call') = 0
    BY <1>1 DEF More
  <2> QED BY <1>1, <2>1, <2>2
<1> QED BY <1>1, <1>2, <1>6, <1>7, <1>8, MoveInside

LEMMA SkipWhitespaceInside ==
  ASSUME ExpandInv, TextInv, InsideInv, Settled, SkipWhitespace
  PROVE  InsideInv'
<1>0. mode = "paren" /\ Char = Blank
  BY Zenon DEF SkipWhitespace, Blank
<1>1. /\ mode = "paren" /\ Read /\ mode' = "paren"
      /\ UNCHANGED <<macros, barrier, out, calls, ident, call>>
  BY DEF SkipWhitespace
<1>2. Char # EndOfInput /\ Opens(Char) = 0
  BY <1>0, BlankIsText, BlankOpens
<1>3. PICK n, p : Moves(n, p, 0) /\ n = KeptFrames
  BY <1>0, <1>1, <1>2, ForwardMoves
<1>4. /\ WholeArgs(mode, call) /\ InsideIdent(mode, frames, calls, barrier, ident, call)
      /\ Stacks
  BY <1>1 DEF InsideInv, Inside, ExpandInv
<1>5. WholeArgs(mode', call')
  BY <1>1, <1>4 DEF WholeArgs
<1>6. ASSUME calls # <<>> PROVE Len(frames') # barrier + 1
  <2>1. n \in barrier + 2 .. Len(frames)
    BY <1>0, <1>3, <1>6, StaysInside
  <2>2. Len(frames') = n
    BY <1>3 DEF Moves, Shape
  <2>3. barrier \in Nat
    BY <1>4 DEF Stacks
  <2> QED BY <2>1, <2>2, <2>3
<1>7. InsideIdent(mode', frames', calls, barrier, ident', call')
  BY <1>1, <1>4, <1>6 DEF InsideIdent
<1>8. ASSUME calls # <<>>
      PROVE  Partial(out') /\ Height(out') + More(mode', call') = Height(out) + More(mode, call) + 0
  <2>1. Partial(out) /\ Height(out) \in Int
    BY <1>1, <1>3, <1>8, MoveRises
  <2>2. More(mode, call) = 0 /\ More(mode', call') = 0
    BY <1>1 DEF More
  <2> QED BY <1>1, <2>1, <2>2
<1> QED BY <1>1, <1>3, <1>5, <1>7, <1>8, MoveInside

(* Going back over the blanks behind a name takes no parenthesis back.     *)
LEMMA RestoreMoves ==
  ASSUME ExpandInv, TextInv, InsideInv, Settled, NotAnInvocation
  PROVE  Moves(KeptFrames, call.savedPos, 0)
<1> DEFINE n == KeptFrames
           f == frames[KeptFrames]
           q == call.savedPos
<1>1. mode = "paren" /\ frames' = [Peeked EXCEPT ![Len(Peeked)].pos = call.savedPos]
  BY DEF NotAnInvocation, RestoredPosition
<1>2. /\ Stacks /\ AllPositioned /\ Len(frames) <= call.frame
      /\ Len(frames) = call.frame => Behind(frames[Len(frames)])
      /\ InsideIdent(mode, frames, calls, barrier, ident, call)
  BY <1>1 DEF ExpandInv, TextInv, ListInv, LeftBehind, InsideInv, Inside
<1>3. n = Len(frames) /\ n \in 1 .. n /\ Len(frames) = call.frame
  <2>1. Len(Peeked) = call.frame
    BY Zenon DEF Settled, RestoredInPlace, NotAnInvocation
  <2>2. Len(Peeked) = n /\ n \in 1 .. Len(frames) /\ Len(frames) \in Nat
    BY <1>2, PeekFacts, ListFacts DEF Stacks, IsStack
  <2> QED BY <1>2, <2>1, <2>2
<1>4. Positioned(f)
  BY <1>2, TextChar
<1>5. Shape(n, q)
  BY <1>1, <1>2, MoveShape
<1>6. frames'[n].src = f.src /\ frames'[n].pos = q
  BY <1>3, <1>5 DEF Shape
<1>7. Blanks(f.src, q, f.pos)
  BY <1>2, <1>3 DEF Behind
<1>8. calls # <<>> => n # barrier + 1 \/ q = f.pos
  BY <1>1, <1>2, <1>3 DEF InsideIdent
<1> HIDE DEF n, f, q
<1>9. /\ q \in Nat /\ 1 <= q /\ q <= f.pos /\ f.pos \in Nat /\ f.pos <= Len(f.src) + 1
      /\ IsList(f.src) /\ Len(f.src) \in Nat
      /\ \A i \in q .. f.pos - 1 : f.src[i] = Blank
  BY <1>4, <1>7, ListFacts DEF Blanks, Positioned, ListFrame
<1>10. q - 1 \in 0 .. Len(f.src) /\ f.pos - 1 \in q - 1 .. Len(f.src) /\ f.pos - 1 \in 0 .. Len(f.src)
  BY <1>9
<1>11. \A i \in q - 1 + 1 .. f.pos - 1 : Opens(f.src[i]) = 0
  <2> TAKE i \in q - 1 + 1 .. f.pos - 1
  <2>1. i \in q .. f.pos - 1
    BY <1>9
  <2> QED BY <1>9, <2>1, BlankOpens
<1>12. Nesting(f.src)[q - 1] = Nesting(f.src)[f.pos - 1] /\ Nesting(f.src)[f.pos - 1] \in Int
  BY <1>9, <1>10, <1>11, NestingStays, NestingSteps
<1>13. OpenIn(frames'[n]) = OpenIn(f) + 0
  BY <1>6, <1>12 DEF OpenIn
<1>14. q <= Len(f.src) + 1
  BY <1>9
<1> QED BY <1>5, <1>8, <1>9, <1>13, <1>14 DEF Moves, n, f, q

LEMMA NotAnInvocationInside ==
  ASSUME ExpandInv, TextInv, InsideInv, Settled, NotAnInvocation
  PROVE  InsideInv'
<1>1. /\ mode = "paren" /\ mode' = "scan" /\ out' = out \o ident
      /\ UNCHANGED <<macros, barrier, calls, ident>>
  BY DEF NotAnInvocation
<1>2. PICK n, p : Moves(n, p, 0)
  BY RestoreMoves
<1>3. WholeArgs(mode', call') /\ InsideIdent(mode', frames', calls, barrier, ident', call')
  BY <1>1 DEF WholeArgs, InsideIdent
<1>4. ASSUME calls # <<>>
      PROVE  Partial(out') /\ Height(out') + More(mode', call') = Height(out) + More(mode, call) + 0
  <2>1. Partial(out)
    BY <1>1, <1>2, <1>4, MoveRises
  <2>2. Partial(out') /\ Height(out') = Height(out) /\ Height(out) \in Int
    BY <1>1, <2>1, NameOut
  <2>3. More(mode, call) = 0 /\ More(mode', call') = 0
    BY <1>1 DEF More
  <2> QED BY <2>2, <2>3
<1> QED BY <1>1, <1>2, <1>3, <1>4, MoveInside

LEMMA OpenParenInside ==
  ASSUME ExpandInv, TextInv, InsideInv, Settled, OpenParen
  PROVE  InsideInv'
<1>1. /\ mode = "paren" /\ Char = "(" /\ Read /\ mode' = "args" /\ call' = [call EXCEPT !.args = << <<>> >>]
      /\ UNCHANGED <<macros, barrier, out, calls, ident>>
  BY DEF OpenParen
<1>2. Char # EndOfInput /\ Opens(Char) = 1
  BY <1>1, ParenOpens
<1>3. PICK n, p : Moves(n, p, 1)
  BY <1>1, <1>2, ForwardMoves
<1>4. IsCall(call) /\ call.level = 0
  BY <1>1 DEF InsideInv, Inside, WholeArgs, ExpandInv, Reading
<1> DEFINE a == call.macro
           b == call.savedPos
           c == call.level
           e == call.args
           g == call.frame
<1>5. call = [macro |-> a, savedPos |-> b, frame |-> g, level |-> c, args |-> e]
  BY <1>4 DEF IsCall
<1> HIDE DEF a, b, c, e, g
<1>6. call'.level = 0 /\ call'.args = << <<>> >>
  BY <1>1, <1>4, <1>5
<1>7. WholeArgs(mode', call')
  <2>1. Len(call'.args) = 1 /\ call'.args[1] = <<>>
    BY <1>6
  <2>2. Partial(<<>>) /\ Height(<<>>) = 0
    BY EmptyWhole DEF Whole
  <2>3. \A i \in 1 .. Len(call'.args) : i = 1
    BY <2>1
  <2> QED BY <1>1, <1>6, <2>1, <2>2, <2>3 DEF WholeArgs
<1>8. InsideIdent(mode', frames', calls, barrier, ident', call')
  BY <1>1 DEF InsideIdent
<1>9. ASSUME calls # <<>>
      PROVE  Partial(out') /\ Height(out') + More(mode', call') = Height(out) + More(mode, call) + 1
  <2>1. Partial(out) /\ Height(out) \in Int
    BY <1>1, <1>3, <1>9, MoveRises
  <2>2. More(mode, call) = 0 /\ More(mode', call') = 1
    BY <1>1, <1>6 DEF More
  <2> QED BY <1>1, <2>1, <2>2
<1> QED BY <1>1, <1>3, <1>7, <1>8, <1>9, MoveInside

(* The level of the argument that is being read follows its parentheses,   *)
(* and a comma between arguments is read at level 0.                       *)
LEMMA ReadArgCall ==
  ASSUME ExpandInv, TextInv, WholeArgs(mode, call), ReadArg
  PROVE  WholeArgs("args", call') /\ call'.level = call.level + Opens(Char) /\ call.level \in Int
<1> DEFINE a == call.macro
           b == call.savedPos
           v == call.level
           e == call.args
           g == call.frame
           x == CASE Char = "(" -> call.level + 1 [] Char = ")" -> call.level - 1 [] OTHER -> call.level
<1>1. mode = "args" /\ Char # EndOfInput /\ ~(Char = ")" /\ call.level = 0)
  BY DEF ReadArg
<1>2. call = [macro |-> a, savedPos |-> b, frame |-> g, level |-> v, args |-> e]
  BY <1>1 DEF ExpandInv, Reading, IsCall
<1>3. IsList(e) /\ e # <<>> /\ \A i \in 1 .. Len(e) : IsList(e[i])
  BY <1>1 DEF TextInv, ListInv, ListCalls
<1>4. Len(e) \in Nat /\ Len(e) \in 1 .. Len(e)
  BY <1>3, ListFacts
<1>5. /\ v \in Nat
      /\ \A i \in 1 .. Len(e) : Partial(e[i]) /\ Height(e[i]) = IF i = Len(e) THEN v ELSE 0
  BY <1>1 DEF WholeArgs
<1>6. PICK ch : ch = Char
  OBVIOUS
<1>7. x = v + Opens(ch) /\ x \in Nat
  <2>1. CASE ch = "("
    <3>1. x = v + 1
      BY <1>6, <2>1
    <3>2. Opens(ch) = 1
      BY <2>1, ParenOpens
    <3> HIDE DEF x, v
    <3> QED BY <1>5, <3>1, <3>2
  <2>2. CASE ch = ")"
    <3>1. x = v - 1 /\ Opens(ch) = -1 /\ v # 0
      BY <1>1, <1>6, <2>2, ParenOpens
    <3> QED BY <1>5, <3>1
  <2>3. CASE ch # "(" /\ ch # ")"
    <3>1. x = v /\ Opens(ch) = 0
      BY <1>6, <2>3 DEF Opens
    <3> QED BY <1>5, <3>1
  <2> QED BY <2>1, <2>2, <2>3
<1>8. \/ Char = "," /\ call.level = 0 /\ call' = [call EXCEPT !.args = Append(call.args, <<>>)]
      \/ call' = [call EXCEPT !.args[Len(call.args)] = Append(call.args[Len(call.args)], Char), !.level = x]
  BY DEF ReadArg
<1>9. \/ ch = "," /\ v = 0 /\ call' = [call EXCEPT !.args = Append(call.args, <<>>)]
      \/ call' = [call EXCEPT !.args[Len(call.args)] = Append(call.args[Len(call.args)], ch), !.level = x]
  BY <1>6, <1>8, Zenon
<1> HIDE DEF a, b, v, e, g, x
<1>10. CASE ch = "," /\ v = 0 /\ call' = [call EXCEPT !.args = Append(call.args, <<>>)]
  <2>1. call'.args = Append(e, <<>>) /\ call'.level = v
    BY <1>2, <1>10
  <2>2. /\ Len(Append(e, <<>>)) = Len(e) + 1
        /\ \A i \in 1 .. Len(e) : Append(e, <<>>)[i] = e[i]
        /\ Append(e, <<>>)[Len(e) + 1] = <<>>
    BY <1>3, AppendList
  <2>3. \A i \in 1 .. Len(e) + 1 : (i \in 1 .. Len(e) /\ i # Len(e) + 1) \/ i = Len(e) + 1
    BY <1>4
  <2>4. Partial(<<>>) /\ Height(<<>>) = 0
    BY EmptyWhole DEF Whole
  <2>5. \A i \in 1 .. Len(e) : Height(e[i]) = 0
    BY <1>5, <1>10
  <2>6. \A i \in 1 .. Len(e) + 1 : Partial(Append(e, <<>>)[i]) /\ Height(Append(e, <<>>)[i]) = 0
    BY <1>5, <2>2, <2>3, <2>4, <2>5
  <2>7. Opens(ch) = 0
    BY <1>10, ParenOpens
  <2>8. \A i \in 1 .. Len(call'.args) : Partial(call'.args[i]) /\ Height(call'.args[i]) = IF i = Len(call'.args) THEN call'.level ELSE 0
    BY <1>10, <2>1, <2>2, <2>6
  <2>9. call'.level = v + Opens(ch) /\ call'.level \in Nat
    BY <1>5, <2>1, <2>7
  <2> QED BY <1>2, <1>5, <1>6, <2>8, <2>9 DEF WholeArgs, v
<1>11. CASE call' = [call EXCEPT !.args[Len(call.args)] = Append(call.args[Len(call.args)], ch), !.level = x]
  <2>1. PICK k : k = Len(e)
    OBVIOUS
  <2>2. PICK y : y = e[k]
    OBVIOUS
  <2>3. PICK z : z = Append(y, ch)
    OBVIOUS
  <2>4. PICK u : u = Replaced(e, k, z)
    OBVIOUS
  <2>5. call'.args = u /\ call'.level = x
    <3>1. call.args = e
      BY <1>2
    <3>2. call' = [call EXCEPT !.args[k] = z, !.level = x]
      BY <1>11, <2>1, <2>2, <2>3, <3>1
    <3> QED BY <1>2, <2>4, <3>2 DEF Replaced
  <2>6. Len(u) = Len(e) /\ u[k] = z /\ \A i \in 1 .. Len(e) : i # k => u[i] = e[i]
    <3>1. k \in 1 .. Len(e)
      BY <1>4, <2>1
    <3> QED BY <1>3, <2>4, <3>1, ReplaceInList
  <2>7. Partial(y) /\ Height(y) = v
    BY <1>4, <1>5, <2>1, <2>2
  <2>8. Partial(z) /\ Height(z) = x
    <3>1. Height(y) + Opens(ch) >= 0 /\ Height(y) + Opens(ch) = x /\ ch # EndOfInput
      BY <1>1, <1>6, <1>7, <2>7
    <3> QED BY <2>3, <2>7, <3>1, PartialAppend
  <2>9. \A i \in 1 .. Len(u) : Partial(u[i]) /\ Height(u[i]) = IF i = Len(u) THEN x ELSE 0
    BY <1>5, <2>1, <2>6, <2>8
  <2> QED BY <1>2, <1>5, <1>6, <1>7, <2>5, <2>9 DEF WholeArgs, v
<1> QED BY <1>9, <1>10, <1>11

LEMMA ReadArgInside ==
  ASSUME ExpandInv, TextInv, InsideInv, Settled, ReadArg
  PROVE  InsideInv'
<1>1. /\ mode = "args" /\ Char # EndOfInput /\ Read /\ mode' = "args"
      /\ UNCHANGED <<macros, barrier, out, calls, ident>>
  BY DEF ReadArg
<1>2. PICK n, p, d : Moves(n, p, d) /\ d = Opens(Char)
  BY <1>1, ForwardMoves
<1>3. WholeArgs(mode, call)
  BY <1>1 DEF InsideInv, Inside
<1>4. WholeArgs("args", call') /\ call'.level = call.level + d /\ call.level \in Int /\ d \in Int
  BY <1>2, <1>3, ReadArgCall DEF Moves
<1>5. InsideIdent(mode', frames', calls, barrier, ident', call')
  BY <1>1 DEF InsideIdent
<1>6. ASSUME calls # <<>>
      PROVE  Partial(out') /\ Height(out') + More(mode', call') = Height(out) + More(mode, call) + d
  <2>1. Partial(out) /\ Height(out) \in Int
    BY <1>1, <1>2, <1>6, MoveRises
  <2>2. More(mode, call) = call.level + 1 /\ More(mode', call') = call.level + d + 1
    BY <1>1, <1>4 DEF More
  <2> QED BY <1>1, <1>4, <2>1, <2>2
<1> QED BY <1>1, <1>2, <1>4, <1>5, <1>6, MoveInside

-----------------------------------------------------------------------------
(* The actions that push                                                   *)

LEMMA StandingPrime ==
  ASSUME Stacks', AllPositioned', macros' = macros
  PROVE  Standing(frames')
<1>2. IsList(frames')
  <2>1. IsList(frames)' <=> IsList(frames')
    BY DEF IsList
  <2> QED BY <2>1 DEF Stacks, IsStack
<1>3. \A i \in 1 .. Len(frames') : Positioned(frames[i])'
  BY DEF AllPositioned
<1>4. \A i \in 1 .. Len(frames') : Positioned(frames[i])' <=> Positioned(frames'[i])
  BY DEF Positioned, ListFrame, IsList
<1> QED BY <1>2, <1>3, <1>4 DEF Standing

(* A whole text on top of the stack, from which only frames that have run  *)
(* out are gone.                                                           *)
LEMMA PushSums ==
  ASSUME ExpandInv, TextInv, ExpandInv', TextInv', macros' = macros, WholeFrames(frames),
         NEW n \in barrier + 1 .. Len(frames), \A i \in n + 1 .. Len(frames) : Exhausted(frames[i]),
         Len(frames') = n + 1, \A i \in 1 .. n : frames'[i] = frames[i],
         frames'[n + 1].pos = 1, Whole(frames'[n + 1].src)
  PROVE  /\ WholeFrames(frames')
         /\ \A i \in 0 .. n : Opened(frames')[i] = Opened(frames)[i]
         /\ Opened(frames')[n + 1] = Opened(frames)[Len(frames)]
         /\ Opened(frames)[n] = Opened(frames)[Len(frames)] /\ Opened(frames)[n] \in Int
<1>1. Standing(frames) /\ barrier \in Nat /\ Len(frames) \in Nat
  BY ListFacts DEF ExpandInv, TextInv, ListInv, Standing, AllPositioned, Stacks, IsStack
<1>2. Standing(frames')
  BY StandingPrime DEF ExpandInv, TextInv, ListInv
<1>3. n \in Nat /\ n \in 1 .. Len(frames) /\ Len(frames) \in n .. Len(frames) /\ n <= Len(frames) /\ n <= Len(frames')
  BY <1>1
<1>4. WholeFrames(frames')
  <2>1. \A i \in 2 .. n + 1 : i = n + 1 \/ (i \in 1 .. n /\ i \in 2 .. Len(frames))
    BY <1>3
  <2> QED BY <2>1 DEF WholeFrames
<1>5. \A i \in 0 .. n : Opened(frames')[i] = Opened(frames)[i]
  <2>1. \A i \in 1 .. n : OpenIn(frames'[i]) = OpenIn(frames[i])
    OBVIOUS
  <2> QED BY <1>1, <1>2, <1>3, <2>1, StandingCounted, OpenedSame
<1>6. Opened(frames)[n] = Opened(frames)[Len(frames)] /\ Opened(frames)[n] \in Int
  BY <1>1, <1>3, StackRises
<1>7. Opened(frames')[n + 1] = Opened(frames')[n] + OpenIn(frames'[n + 1])
  <2>1. n + 1 \in 1 .. Len(frames') /\ n + 1 - 1 = n
    BY <1>3
  <2> QED BY <1>2, <2>1, StandingCounted, OpenedFacts
<1>8. OpenIn(frames'[n + 1]) = 0
  <2> DEFINE f == frames'[n + 1]
  <2>1. IsList(f.src) /\ f.pos = 1
    BY DEF Whole, Partial
  <2> HIDE DEF f
  <2>2. OpenIn(f) = 0
    BY <2>1, NestingSteps DEF OpenIn
  <2> QED BY <2>2 DEF f
<1>9. n \in 0 .. n
  BY <1>3
<1> QED BY <1>4, <1>5, <1>6, <1>7, <1>8, <1>9

(* A replacement text that is pushed closes what it opens.                 *)
LEMMA BodyWhole ==
  ASSUME TextInv, Readable(macros), macros' = macros, TextsMatched', NEW m \in DOMAIN macros, m # None,
         NEW s, IsList(s), NEW text, frames' = Pushed(s, text, m)
  PROVE  Whole(macros[m].body)
<1> DEFINE e == [src |-> text, pos |-> 1, macro |-> m]
<1>1. e.macro = m
  OBVIOUS
<1> HIDE DEF e
<1>2. IsList(frames') /\ Len(frames') = Len(s) + 1 /\ frames'[Len(s) + 1] = e
  BY AppendList DEF Pushed, e
<1>3. Len(s) + 1 \in DOMAIN frames'
  BY <1>2, ListFacts
<1>4. \A j \in DOMAIN frames' : frames'[j].macro # None => Matched(macros'[frames'[j].macro].body)
  BY DEF TextsMatched, Matched, Nesting, Opens
<1>5. IsList(macros[m].body) /\ Matched(macros[m].body)
  BY <1>1, <1>2, <1>3, <1>4 DEF TextInv, ListInv, Bodies
<1>6. \A j \in 1 .. Len(macros[m].body) : macros[m].body[j] # EndOfInput
  BY DEF Readable
<1> QED BY <1>5, <1>6 DEF Whole, Partial, Height, Matched

LEMMA ExpandObjectInside ==
  ASSUME ExpandInv, TextInv, InsideInv, ExpandInv', TextInv', TextsMatched', ExpandObject, ~TooDeep
  PROVE  InsideInv'
<1> DEFINE n == KeptFrames
           s == Peeked
           m == Found
           text == macros[Found].body
<1>1. /\ mode = "ident" /\ m # None /\ mode' = "scan" /\ frames' = Pushed(s, text, m)
      /\ UNCHANGED <<macros, barrier, out, ident, call, calls>>
  BY DEF ExpandObject, IdentRead, PushInput, Pushed
<1>2. Table /\ Stacks /\ IsList(calls)
  BY DEF ExpandInv, Calls
<1>3. /\ IsList(s) /\ Len(s) = n /\ (\A i \in 1 .. n : s[i] = frames[i])
      /\ n \in barrier + 1 .. Len(frames) /\ \A i \in n + 1 .. Len(frames) : Exhausted(frames[i])
      /\ barrier \in Nat
  BY <1>2, PeekFacts, PeekPops DEF Stacks
<1>4. /\ WholeFrames(frames) /\ OuterSums(mode, frames, calls) /\ WholeCalls(calls) /\ Readable(macros)
      /\ InnerSum(mode, frames, calls, barrier, out, call)
  BY <1>1 DEF InsideInv, Inside
<1>5. Whole(text)
  BY <1>1, <1>2, <1>3, <1>4, FoundFacts, BodyWhole
<1> HIDE DEF n, s, m, text
<1>6. /\ Len(frames') = n + 1 /\ \A i \in 1 .. n : frames'[i] = frames[i]
      /\ frames'[n + 1] = [src |-> text, pos |-> 1, macro |-> m]
  BY <1>1, <1>3, AppendList DEF Pushed
<1>7. frames'[n + 1].pos = 1 /\ Whole(frames'[n + 1].src)
  BY <1>1, <1>5, <1>6
<1>8. /\ WholeFrames(frames')
      /\ \A i \in 0 .. n : Opened(frames')[i] = Opened(frames)[i]
      /\ Opened(frames')[n + 1] = Opened(frames)[Len(frames)]
  BY <1>1, <1>3, <1>4, <1>6, <1>7, PushSums
<1>9. \A i \in 0 .. barrier + 1 : i \in 0 .. n
  BY <1>3
<1>10. OuterSums(mode', frames', calls')
  <2> SUFFICES ASSUME NEW k \in 2 .. Len(calls)
               PROVE  Balanced(calls[k].out, 0, frames', calls[k].barrier + 1, calls[k].depth)
    BY <1>1 DEF OuterSums
  <2>1. Scanning(k) /\ mode # "abort"
    BY <1>1 DEF Scanning
  <2> QED BY <1>4, <1>8, <1>9, <2>1, OuterStay
<1>11. InnerSum(mode', frames', calls', barrier', out', call')
  <2> SUFFICES ASSUME calls # <<>> PROVE Balanced(out, More("scan", call'), frames', barrier + 1, n + 1)
    BY <1>1, <1>6 DEF InnerSum
  <2>1. Balanced(out, 0, frames, barrier + 1, Len(frames))
    BY <1>1, <1>4 DEF InnerSum, More
  <2>2. barrier + 1 \in 0 .. barrier + 1
    BY <1>3
  <2>3. Opened(frames')[barrier + 1] = Opened(frames)[barrier + 1]
    BY <1>8, <1>9, <2>2
  <2>4. More("scan", call') = 0
    BY DEF More
  <2> QED BY <1>8, <2>1, <2>3, <2>4 DEF Balanced
<1>12. WholeArgs(mode', call') /\ InsideIdent(mode', frames', calls', barrier', ident', call')
  BY <1>1 DEF WholeArgs, InsideIdent
<1> QED BY <1>1, <1>4, <1>8, <1>10, <1>11, <1>12, InsidePrime DEF Inside

(* What an atom of a replacement text becomes: a parameter a whole text,   *)
(* ## nothing, and every other atom itself.                                *)
LEMMA ReplacementWhole ==
  ASSUME NEW params, IsList(params), \A i \in 1 .. Len(params) : params[i] \in Names,
         NEW expanded, WholeTexts(expanded), NEW atom
  PROVE  LET r == Replacement(params, expanded, atom)
         IN  (Whole(r) /\ Opens(atom) = 0) \/ r = <<atom>>
<1> DEFINE i == Parameter(params, atom)
           r == Replacement(params, expanded, atom)
           S == {Len(params) + 1} \cup {j \in DOMAIN params : params[j] = atom}
<1>1. r = IF i \in DOMAIN params /\ i <= Len(expanded) THEN expanded[i]
          ELSE IF atom = "##" THEN <<>> ELSE <<atom>>
  BY DEF Replacement
<1>2. Len(params) \in Nat /\ DOMAIN params = 1 .. Len(params)
  BY ListFacts
<1>3. i = Min(S)
  BY DEF Parameter
<1>4. S \in SUBSET Nat /\ S # {} /\ \A x \in S : x = Len(params) + 1 \/ (x \in 1 .. Len(params) /\ params[x] = atom)
  BY <1>2
<1> HIDE DEF S, i, r
<1>5. i \in S
  BY <1>3, <1>4, MinFacts
<1>6. CASE i \in DOMAIN params /\ i <= Len(expanded)
  <2>1. i \in 1 .. Len(params) /\ i # Len(params) + 1
    BY <1>2, <1>6
  <2>2. params[i] = atom
    BY <1>4, <1>5, <2>1
  <2>3. Opens(atom) = 0
    BY <2>1, <2>2, NameOpens
  <2>4. r = expanded[i] /\ i \in 1 .. Len(expanded)
    BY <1>1, <1>6, <2>1
  <2> QED BY <2>3, <2>4 DEF WholeTexts, r
<1>7. CASE ~(i \in DOMAIN params /\ i <= Len(expanded)) /\ atom = "##"
  <2>1. Opens("##") = 0
    BY DEF Opens
  <2>2. r = <<>>
    BY <1>1, <1>7
  <2> QED BY <1>7, <2>1, <2>2, EmptyWhole DEF r
<1>8. CASE ~(i \in DOMAIN params /\ i <= Len(expanded)) /\ atom # "##"
  BY <1>1, <1>8 DEF r
<1> QED BY <1>6, <1>7, <1>8

LEMMA SubstitutedWhole ==
  ASSUME TextInv, Readable(macros), NEW m \in DOMAIN macros, Whole(macros[m].body),
         NEW expanded, WholeTexts(expanded)
  PROVE  Whole(Substituted(m, expanded))
<1> DEFINE body == macros[m].body
           params == macros[m].params
           n == Len(body)
           seqs == [i \in DOMAIN body |-> Replacement(params, expanded, body[i])]
           text == Substituted(m, expanded)
<1>1. text = FlattenSeq(seqs)
  BY DEF Substituted
<1>2. Whole(body) /\ IsList(body) /\ IsList(params) /\ \A i \in 1 .. Len(params) : params[i] \in Names
  BY DEF TextInv, ListInv, Bodies, Readable
<1> HIDE DEF body, params, n, text
<1>3. n \in Nat /\ DOMAIN body = 1 .. n
  BY <1>2, ListFacts DEF n
<1>4. \A i \in 1 .. n : seqs[i] = Replacement(params, expanded, body[i])
  BY <1>3, Zenon
<1>5. IsList(seqs) /\ Len(seqs) = n
  <2>1. seqs = [i \in 1 .. n |-> seqs[i]]
    BY <1>3, <1>4, Zenon
  <2> HIDE DEF seqs
  <2> QED BY <1>3, <2>1, MadeList
<1> HIDE DEF seqs
<1>6. \A i \in 1 .. n : (Whole(seqs[i]) /\ Opens(body[i]) = 0) \/ seqs[i] = <<body[i]>>
  <2> TAKE i \in 1 .. n
  <2>1. LET r == Replacement(params, expanded, body[i])
        IN  (Whole(r) /\ Opens(body[i]) = 0) \/ r = <<body[i]>>
    BY <1>2, ReplacementWhole
  <2> QED BY <1>4, <2>1
<1>7. Partial(FlattenSeq(seqs)) /\ Height(FlattenSeq(seqs)) = Height(body)
  BY <1>2, <1>5, <1>6, FlattenWhole DEF Whole, n
<1> QED BY <1>1, <1>2, <1>7 DEF Whole, text

LEMMA SubstituteInside ==
  ASSUME ExpandInv, TextInv, InsideInv, ExpandInv', TextInv', TextsMatched', Substitute, ~TooDeep
  PROVE  InsideInv'
<1> DEFINE n == Len(frames)
           L == Len(calls)
           m == Pending.macro
           text == Substituted(Pending.macro, Pending.expanded)
<1>1. /\ mode = "expandArg" /\ mode' = "scan" /\ frames' = Pushed(frames, text, m)
      /\ calls' = Front(calls) /\ UNCHANGED <<macros, barrier, out, ident, call>>
  BY DEF Substitute, PushInput, Pushed
<1>2. Table /\ Stacks /\ Calls /\ Nested /\ calls # <<>> /\ barrier = Pending.barrier
  BY <1>1 DEF ExpandInv, Suspended, Innermost
<1>3. L \in Nat /\ L \in 1 .. L /\ Pending = calls[L] /\ m \in DOMAIN macros /\ IsList(calls)
  BY <1>2, PendingIsLast
<1>4. /\ WholeFrames(frames) /\ OuterSums(mode, frames, calls) /\ WholeCalls(calls) /\ Readable(macros)
      /\ InnerSum(mode, frames, calls, barrier, out, call)
  BY <1>1 DEF InsideInv, Inside
<1>5. Whole(text)
  <2>1. WholeTexts(Pending.expanded)
    BY <1>3, <1>4 DEF WholeCalls
  <2>2. IsList(frames) /\ m # None
    BY <1>2, <1>3, NoneIsNoMacro DEF Stacks, IsStack
  <2>3. Whole(macros[m].body)
    BY <1>1, <1>3, <1>4, <2>2, BodyWhole
  <2> QED BY <1>3, <1>4, <2>1, <2>3, SubstitutedWhole
<1>6. Len(calls') = L - 1 /\ \A k \in 1 .. L - 1 : calls'[k] = calls[k]
  BY <1>1, <1>2, <1>3, FrontList
<1>7. IsList(frames) /\ n \in Nat /\ barrier \in Nat /\ barrier < n
  BY <1>2, ListFacts DEF Stacks, IsStack
<1>8. m # None
  BY <1>2, <1>3, NoneIsNoMacro
<1> HIDE DEF L, m, text, n
<1>9. /\ Len(frames') = n + 1 /\ \A i \in 1 .. n : frames'[i] = frames[i]
      /\ frames'[n + 1] = [src |-> text, pos |-> 1, macro |-> m]
  BY <1>1, <1>7, AppendList DEF Pushed, n
<1>10. frames'[n + 1].pos = 1 /\ Whole(frames'[n + 1].src)
  BY <1>5, <1>8, <1>9
<1>11. /\ WholeFrames(frames')
       /\ \A i \in 0 .. n : Opened(frames')[i] = Opened(frames)[i]
       /\ Opened(frames')[n + 1] = Opened(frames)[Len(frames)]
  <2>1. n \in barrier + 1 .. Len(frames) /\ \A i \in n + 1 .. Len(frames) : FALSE
    BY <1>7 DEF n
  <2> QED BY <1>1, <1>4, <1>9, <1>10, <2>1, PushSums
<1>12. \A i \in 0 .. barrier + 1 : i \in 0 .. n
  BY <1>7
<1>13. \A k \in 1 .. L - 1 : k \in 1 .. L /\ k < L /\ Scanning(k)
  BY <1>3 DEF Scanning, L
<1>14. OuterSums(mode', frames', calls')
  <2> SUFFICES ASSUME NEW k \in 2 .. L - 1
               PROVE  Balanced(calls[k].out, 0, frames', calls[k].barrier + 1, calls[k].depth)
    <3>1. \A k \in 2 .. L - 1 : calls'[k] = calls[k]
      BY <1>3, <1>6
    <3> QED BY <1>1, <1>6, <3>1 DEF OuterSums
  <2>1. k \in 1 .. L - 1
    OBVIOUS
  <2>2. Scanning(k) /\ mode # "abort" /\ k \in 2 .. Len(calls)
    BY <1>1, <1>3, <1>13, <2>1 DEF L
  <2> QED BY <1>4, <1>11, <1>12, <2>2, OuterStay
<1>15. InnerSum(mode', frames', calls', barrier', out', call')
  <2> SUFFICES ASSUME calls' # <<>> PROVE Balanced(out, More("scan", call'), frames', barrier + 1, n + 1)
    BY <1>1, <1>9 DEF InnerSum
  <2>1. L \in 2 .. Len(calls)
    <3>1. IsList(calls')
      BY <1>1, <1>2, <1>3, FrontList
    <3>2. L - 1 # 0
      BY <1>6, <3>1, ListFacts
    <3>3. L \in 2 .. L
      BY <1>3, <3>2
    <3> QED BY <3>3 DEF L
  <2>2. Balanced(calls[L].out, 0, frames, calls[L].barrier + 1, Len(frames))
    BY <1>1, <1>4, <2>1 DEF OuterSums, L
  <2>3. out = calls[L].out /\ barrier = calls[L].barrier
    BY <1>1, <1>2, <1>3, <1>4 DEF InnerSum, L
  <2>4. Opened(frames')[barrier + 1] = Opened(frames)[barrier + 1]
    <3>1. barrier + 1 \in 0 .. barrier + 1
      BY <1>7
    <3> QED BY <1>11, <1>12, <3>1
  <2>5. More("scan", call') = 0
    BY DEF More
  <2> QED BY <1>11, <2>2, <2>3, <2>4, <2>5 DEF Balanced
<1>16. WholeArgs(mode', call') /\ InsideIdent(mode', frames', calls', barrier', ident', call')
  BY <1>1 DEF WholeArgs, InsideIdent
<1>17. WholeCalls(calls')
  BY <1>4, <1>6, <1>13 DEF WholeCalls, L
<1> QED BY <1>1, <1>4, <1>11, <1>14, <1>15, <1>16, <1>17, InsidePrime DEF Inside

(* The scan of an argument begins with nothing put out and nothing open.   *)
LEMMA NextArgInside ==
  ASSUME ExpandInv, TextInv, InsideInv, ExpandInv', TextInv', NextArg, ~TooDeep
  PROVE  InsideInv'
<1> DEFINE k1 == Len(Pending.expanded) + 1
           text == Pending.args[k1]
           L == Len(calls)
           d == Len(frames)
           e == WithDepth(Pending, d)
<1>1. /\ mode = "expandArg" /\ mode' = "scan" /\ Len(Pending.expanded) < Len(Pending.args)
      /\ calls' = [calls EXCEPT ![L].depth = d] /\ barrier' = d - 1 /\ out' = <<>>
      /\ frames' = Pushed(frames, text, None)
      /\ UNCHANGED <<macros, ident, call>>
  BY DEF NextArg, PushInput, Pushed, RaisedBarrier
<1>2. Stacks /\ Calls /\ Nested /\ ListCalls /\ calls # <<>> /\ barrier = Pending.barrier
  BY <1>1 DEF ExpandInv, Suspended, TextInv, ListInv, Innermost
<1>3. /\ L \in Nat /\ L \in 1 .. L /\ Pending = calls[L] /\ IsSuspended(Pending)
      /\ ListCall(Pending)
  BY <1>2, PendingIsLast DEF ListCalls
<1>4. /\ WholeFrames(frames) /\ OuterSums(mode, frames, calls) /\ WholeCalls(calls) /\ Readable(macros)
  BY <1>1 DEF InsideInv, Inside
<1>5. IsList(frames) /\ d \in Nat /\ barrier \in Nat /\ barrier < d
  BY <1>2, ListFacts DEF Stacks, IsStack
<1>6. k1 \in 1 .. Len(Pending.args) /\ k1 \in DOMAIN Pending.args
  <2>1. Len(Pending.expanded) \in Nat /\ Len(Pending.args) \in Nat /\ DOMAIN Pending.args = 1 .. Len(Pending.args)
    BY <1>3, ListFacts DEF ListCall
  <2> QED BY <1>1, <2>1
<1>7. L \in DOMAIN calls
  BY <1>2, <1>3, ListFacts DEF Calls
<1> HIDE DEF k1
<1>8. Whole(text)
  BY <1>3, <1>4, <1>6 DEF WholeCalls, WholeTexts
<1>10. calls' = Replaced(calls, L, e)
  <2> HIDE DEF d
  <2> QED BY <1>1, <1>3 DEF Replaced, WithDepth
<1>11. /\ IsSuspended(e) /\ e.macro = Pending.macro /\ e.barrier = Pending.barrier /\ e.depth = d
       /\ e.args = Pending.args /\ e.expanded = Pending.expanded /\ e.out = Pending.out
  BY <1>3, SetPending, SetPendingRest
<1> HIDE DEF e, text
<1>12. Len(calls') = L /\ calls'[L] = e /\ \A k \in 1 .. L : k # L => calls'[k] = calls[k]
  BY <1>1, <1>2, <1>5, <1>10, <1>11, PendingReplaced
<1>13. /\ Len(frames') = d + 1 /\ \A i \in 1 .. d : frames'[i] = frames[i]
       /\ frames'[d + 1] = [src |-> text, pos |-> 1, macro |-> None]
  BY <1>1, <1>5, AppendList DEF Pushed
<1>14. frames'[d + 1].pos = 1 /\ Whole(frames'[d + 1].src)
  BY <1>8, <1>13
<1>15. /\ WholeFrames(frames')
       /\ \A i \in 0 .. d : Opened(frames')[i] = Opened(frames)[i]
       /\ Opened(frames')[d + 1] = Opened(frames)[d] /\ Opened(frames)[d] \in Int
  <2>1. PICK n : n = d
    OBVIOUS
  <2>2. n \in barrier + 1 .. Len(frames) /\ \A i \in n + 1 .. Len(frames) : FALSE
    BY <1>5, <2>1
  <2>3. Len(frames') = n + 1 /\ (\A i \in 1 .. n : frames'[i] = frames[i])
        /\ frames'[n + 1].pos = 1 /\ Whole(frames'[n + 1].src)
    BY <1>13, <1>14, <2>1
  <2>4. /\ WholeFrames(frames')
        /\ \A i \in 0 .. n : Opened(frames')[i] = Opened(frames)[i]
        /\ Opened(frames')[n + 1] = Opened(frames)[Len(frames)]
        /\ Opened(frames)[n] = Opened(frames)[Len(frames)] /\ Opened(frames)[n] \in Int
    BY <1>1, <1>4, <2>2, <2>3, PushSums
  <2> QED BY <2>1, <2>4
<1> HIDE DEF L, d
<1>16. OuterSums(mode', frames', calls')
  <2> SUFFICES ASSUME NEW k \in 2 .. L
               PROVE  Balanced(calls'[k].out, 0, frames', calls'[k].barrier + 1, calls'[k].depth)
    BY <1>1, <1>12 DEF OuterSums
  <2>1. CASE k = L
    <3>1. Balanced(calls[L].out, 0, frames, calls[L].barrier + 1, d)
      <4>1. L \in 2 .. Len(calls) /\ ~(L < Len(calls))
        BY <2>1 DEF L
      <4> QED BY <1>1, <1>4, <4>1 DEF OuterSums, d
    <3>2. calls'[k].out = calls[L].out /\ calls'[k].barrier = barrier /\ calls'[k].depth = d /\ calls[L].barrier = barrier
      BY <1>2, <1>3, <1>11, <1>12, <2>1
    <3>3. barrier + 1 \in 0 .. d /\ d \in 0 .. d
      BY <1>5
    <3> QED BY <1>15, <3>1, <3>2, <3>3 DEF Balanced
  <2>2. CASE k # L
    <3>1. k \in 1 .. L /\ k \in 2 .. Len(calls) /\ k < L
      BY <1>3, <2>2 DEF L
    <3>2. calls'[k] = calls[k] /\ Scanning(k) /\ mode # "abort"
      BY <1>1, <1>12, <2>2, <3>1 DEF Scanning, L
    <3>3. \A i \in 0 .. barrier + 1 : i \in 0 .. d
      BY <1>5
    <3>4. Balanced(calls[k].out, 0, frames', calls[k].barrier + 1, calls[k].depth)
      BY <1>4, <1>15, <3>1, <3>2, <3>3, OuterStay
    <3> QED BY <3>2, <3>4
  <2> QED BY <2>1, <2>2
<1>17. InnerSum(mode', frames', calls', barrier', out', call')
  <2>1. Balanced(<<>>, 0, frames', d, d + 1)
    <3>1. Partial(<<>>) /\ Height(<<>>) = 0
      BY EmptyWhole DEF Whole
    <3>2. Opened(frames')[d] = Opened(frames)[d]
      <4>1. d \in 0 .. d
        BY <1>5
      <4> QED BY <1>15, <4>1
    <3>3. 0 + 0 = Opened(frames')[d + 1] - Opened(frames')[d]
      BY <1>15, <3>2
    <3> QED BY <3>1, <3>3 DEF Balanced
  <2>2. barrier' + 1 = d
    BY <1>1, <1>5
  <2> QED BY <1>1, <1>13, <2>1, <2>2 DEF InnerSum, More
<1>18. WholeArgs(mode', call') /\ InsideIdent(mode', frames', calls', barrier', ident', call')
  BY <1>1 DEF WholeArgs, InsideIdent
<1>19. WholeCalls(calls')
  <2>1. \A k \in 1 .. L : k = L \/ (k # L /\ k \in 1 .. Len(calls))
    BY DEF L
  <2>2. WholeTexts(calls[L].args) /\ WholeTexts(calls[L].expanded)
    BY <1>3, <1>4 DEF WholeCalls, L
  <2> QED BY <1>3, <1>4, <1>11, <1>12, <2>1, <2>2 DEF WholeCalls
<1> QED BY <1>1, <1>4, <1>15, <1>16, <1>17, <1>18, <1>19, InsidePrime DEF Inside

(* The scan of an argument stops where the argument has run out, and what  *)
(* it has put out by then closes the parentheses it opens.                 *)
LEMMA ArgumentEnds ==
  ASSUME ExpandInv, TextInv, InsideInv, mode = "scan", calls # <<>>, ~InTarget
  PROVE  KeptFrames = barrier + 1 /\ Whole(out)
<1> DEFINE n == KeptFrames
           f == frames[KeptFrames]
<1>1. Stacks /\ AllPositioned /\ Standing(frames) /\ Innermost /\ Calls
  BY DEF ExpandInv, TextInv, ListInv, Suspended, Standing, AllPositioned, Stacks, IsStack
<1>2. /\ n \in barrier + 1 .. Len(frames) /\ n \in 1 .. Len(frames) /\ Len(Peeked) = n
      /\ barrier \in Nat /\ Len(frames) \in Nat
      /\ (n = barrier + 1 \/ ~Exhausted(f))
      /\ \A i \in n + 1 .. Len(frames) : Exhausted(frames[i])
  BY <1>1, PeekFacts, PeekPops, ListFacts DEF Stacks, IsStack
<1>3. WholeFrames(frames) /\ InnerSum(mode, frames, calls, barrier, out, call)
  BY DEF InsideInv, Inside
<1>4. barrier = Pending.depth - 1 /\ Pending.depth \in Nat
  BY <1>1, PendingIsLast DEF Innermost
<1>5. n < Pending.depth + 1 \/ Char = EndOfInput
  BY <1>2, <1>4 DEF InTarget, TargetFrames, Pending
<1>6. n = barrier + 1
  <2> SUFFICES ASSUME n # barrier + 1 PROVE FALSE
    OBVIOUS
  <2>1. ~Exhausted(f)
    BY <1>2
  <2>2. n \in 2 .. Len(frames) /\ ~(n < Pending.depth + 1)
    <3> HIDE DEF n
    <3> QED BY <1>2, <1>4
  <2>3. Last(Peeked) = f /\ Positioned(f)
    BY <1>1, TextChar
  <2>4. Char = f.src[f.pos]
    BY <2>1, <2>3 DEF Char
  <2>5. Whole(f.src)
    BY <1>3, <2>2 DEF WholeFrames
  <2>6. ~(f.pos > Len(f.src)) /\ f.pos \in Nat /\ 1 <= f.pos /\ Len(f.src) \in Nat
    <3>1. ~(f.pos > Len(f.src))
      BY <2>1 DEF Exhausted
    <3> QED BY <2>3, <3>1, ListFacts DEF Positioned, ListFrame
  <2>7. Char = EndOfInput
    BY <1>5, <2>2
  <2> HIDE DEF f
  <2>8. f.pos \in 1 .. Len(f.src)
    BY <2>6
  <2> QED BY <2>4, <2>5, <2>7, <2>8 DEF Whole, Partial
<1> HIDE DEF n
<1>7. Opened(frames)[barrier + 1] = Opened(frames)[Len(frames)] /\ Opened(frames)[barrier + 1] \in Int
  <2>1. barrier + 1 \in 1 .. Len(frames) /\ Len(frames) \in barrier + 1 .. Len(frames)
    BY <1>2
  <2>2. \A i \in barrier + 1 + 1 .. Len(frames) : Exhausted(frames[i])
    BY <1>2, <1>6
  <2> QED BY <1>1, <1>3, <2>1, <2>2, StackRises
<1>8. Partial(out) /\ Height(out) + 0 = Opened(frames)[Len(frames)] - Opened(frames)[barrier + 1]
  BY <1>3 DEF InnerSum, Balanced, More
<1>9. Height(out) \in Int
  BY <1>8, HeightFacts
<1>10. Height(out) = 0
  BY <1>7, <1>8, <1>9
<1> QED BY <1>6, <1>8, <1>10 DEF Whole, n

LEMMA FinishArgInside ==
  ASSUME ExpandInv, TextInv, InsideInv, ExpandInv', TextInv', FinishArg
  PROVE  InsideInv'
<1> DEFINE L == Len(calls)
           x == Append(Pending.expanded, out)
           e == WithExpanded(Pending, x)
           n == barrier + 1
           s == Peeked
<1>1. /\ mode = "scan" /\ mode' = "expandArg" /\ calls # <<>> /\ ~InTarget /\ barrier' = Pending.barrier
      /\ out' = Pending.out /\ frames' = SubSeq(s, 1, n)
      /\ UNCHANGED <<macros, ident, call>>
  BY DEF FinishArg, DrainTo
<1>2. Stacks /\ AllPositioned /\ Calls /\ Nested /\ Innermost /\ ListCalls
  BY <1>1 DEF ExpandInv, Suspended, TextInv, ListInv
<1>3. /\ L \in Nat /\ L \in 1 .. L /\ Pending = calls[L] /\ IsSuspended(Pending)
      /\ Pending.barrier \in Nat /\ Pending.depth \in Nat /\ ListCall(Pending) /\ barrier = Pending.depth - 1
  BY <1>1, <1>2, PendingIsLast DEF ListCalls, Innermost
<1>4. /\ WholeFrames(frames) /\ OuterSums(mode, frames, calls) /\ WholeCalls(calls) /\ Readable(macros)
  BY <1>1 DEF InsideInv, Inside
<1>5. barrier \in Nat /\ barrier < Len(frames) /\ Len(frames) \in Nat
  BY <1>2, ListFacts DEF Stacks, IsStack
<1>6. KeptFrames = n /\ Whole(out)
  BY <1>1, ArgumentEnds
<1>7. Len(frames') = n /\ \A i \in 1 .. n : frames'[i] = frames[i]
  <2>1. IsList(s) /\ Len(s) = n /\ \A i \in 1 .. n : s[i] = frames[i]
    BY <1>2, <1>6, PeekFacts
  <2> HIDE DEF s
  <2>2. n \in 0 .. Len(s)
    BY <1>5, <2>1
  <2>3. Len(SubSeq(s, 1, n)) = n /\ \A i \in 1 .. n : SubSeq(s, 1, n)[i] = s[i]
    BY <2>1, <2>2, CutList
  <2> HIDE DEF n
  <2> QED BY <1>1, <2>1, <2>3
<1>8. calls' = Replaced(calls, L, e)
  <2>1. calls' = [calls EXCEPT ![L] = [calls[L] EXCEPT !.expanded = Append(calls[L].expanded, out)]]
    BY Zenon DEF FinishArg
  <2> QED BY <1>3, <2>1 DEF Replaced, WithExpanded
<1>9. /\ IsSuspended(e) /\ e.macro = Pending.macro /\ e.barrier = Pending.barrier
      /\ e.depth = Pending.depth /\ e.args = Pending.args /\ e.expanded = x /\ e.out = Pending.out
  <2> HIDE DEF x
  <2> QED BY <1>3, SetPending, SetPendingRest
<1>10. WholeTexts(Pending.args) /\ WholeTexts(Pending.expanded)
  BY <1>3, <1>4 DEF WholeCalls
<1>11. WholeTexts(x)
  <2>1. IsList(Pending.expanded)
    BY <1>3 DEF ListCall
  <2> DEFINE y == Pending.expanded
  <2> HIDE DEF y
  <2>2. /\ Len(Append(y, out)) = Len(y) + 1 /\ Len(y) \in Nat
        /\ (\A i \in 1 .. Len(y) : Append(y, out)[i] = y[i]) /\ Append(y, out)[Len(y) + 1] = out
    BY <2>1, AppendList, ListFacts DEF y
  <2>3. \A i \in 1 .. Len(y) + 1 : i \in 1 .. Len(y) \/ i = Len(y) + 1
    BY <2>2
  <2>4. \A i \in 1 .. Len(y) : Whole(y[i])
    BY <1>10 DEF y, WholeTexts
  <2>5. \A i \in 1 .. Len(Append(y, out)) : Whole(Append(y, out)[i])
    BY <1>6, <2>2, <2>3, <2>4
  <2> QED BY <2>5 DEF y, WholeTexts
<1> HIDE DEF e, x
<1>12. Len(calls') = L /\ calls'[L] = e /\ \A k \in 1 .. L : k # L => calls'[k] = calls[k]
  BY <1>1, <1>2, <1>3, <1>8, <1>9, PendingReplaced
<1>13. \A i \in 0 .. barrier + 1 : Opened(frames')[i] = Opened(frames)[i]
  <2>1. Counted(frames) /\ Counted(frames')
    <3>1. Standing(frames)
      BY <1>2 DEF Standing, AllPositioned, Stacks, IsStack
    <3>2. Standing(frames')
      BY <1>1, StandingPrime DEF ExpandInv, TextInv, ListInv
    <3> QED BY <3>1, <3>2, StandingCounted
  <2>2. n \in Nat /\ n <= Len(frames) /\ n <= Len(frames')
    BY <1>5, <1>7
  <2>3. \A i \in 1 .. n : OpenIn(frames'[i]) = OpenIn(frames[i])
    BY <1>7
  <2> HIDE DEF n
  <2>4. \A i \in 0 .. n : Opened(frames')[i] = Opened(frames)[i]
    BY <2>1, <2>2, <2>3, OpenedSame
  <2> QED BY <2>4 DEF n
<1> HIDE DEF L
<1>14. \A k \in 1 .. L : calls'[k].out = calls[k].out /\ calls'[k].barrier = calls[k].barrier /\ calls'[k].depth = calls[k].depth
  BY <1>3, <1>9, <1>12
<1>15. OuterSums(mode', frames', calls')
  <2> SUFFICES ASSUME NEW k \in 2 .. L
               PROVE  Balanced(calls[k].out, 0, frames', calls[k].barrier + 1,
                               IF k < L THEN calls[k].depth ELSE Len(frames'))
    <3>1. \A k \in 2 .. L : k \in 1 .. L
      OBVIOUS
    <3> QED BY <1>1, <1>12, <1>14, <3>1 DEF OuterSums
  <2>1. k \in 2 .. Len(calls) /\ Scanning(k) /\ mode # "abort"
    BY <1>1 DEF Scanning, L
  <2>2. Balanced(calls[k].out, 0, frames', calls[k].barrier + 1, calls[k].depth)
    BY <1>4, <1>13, <2>1, OuterStay
  <2>3. k < L \/ k = L
    BY <1>3
  <2>4. k = L => Len(frames') = calls[k].depth
    BY <1>3, <1>7
  <2> QED BY <2>2, <2>3, <2>4
<1>16. InnerSum(mode', frames', calls', barrier', out', call')
  BY <1>1, <1>9, <1>12 DEF InnerSum
<1>17. WholeArgs(mode', call') /\ InsideIdent(mode', frames', calls', barrier', ident', call')
  BY <1>1 DEF WholeArgs, InsideIdent
<1>18. WholeCalls(calls')
  <2>1. \A k \in 1 .. L : k = L \/ (k # L /\ k \in 1 .. Len(calls))
    BY DEF L
  <2> QED BY <1>4, <1>9, <1>10, <1>11, <1>12, <2>1 DEF WholeCalls
<1>19. WholeFrames(frames')
  <2>1. \A i \in 2 .. n : i \in 1 .. n /\ i \in 2 .. Len(frames)
    BY <1>5
  <2> QED BY <1>4, <1>7, <2>1 DEF WholeFrames
<1> QED BY <1>1, <1>4, <1>15, <1>16, <1>17, <1>18, <1>19, InsidePrime DEF Inside

(* The arguments that count close the parentheses they open.               *)
LEMMA ActualArgsWhole ==
  ASSUME TextInv, mode = "args", WholeArgs(mode, call), Char = EndOfInput \/ call.level = 0
  PROVE  WholeTexts(ActualArgs)
<1> DEFINE given == call.args
           short == \/ Char = EndOfInput
                    \/ Last(given) = <<>> /\ macros[call.macro].params = <<>>
           counted == IF short THEN Front(given) ELSE given
           args == [i \in DOMAIN counted |-> Strip(counted[i])]
<1>1. ActualArgs = args
  BY DEF ActualArgs
<1>2. IsList(given) /\ given # <<>>
  BY DEF TextInv, ListInv, ListCalls
<1>3. Len(given) \in Nat
  BY <1>2, ListFacts
<1>4. \A i \in 1 .. Len(given) : Partial(given[i]) /\ Height(given[i]) = IF i = Len(given) THEN call.level ELSE 0
  BY DEF WholeArgs
<1>5. ~short => call.level = 0
  OBVIOUS
<1> HIDE DEF given, short
<1>6. IsList(counted) /\ \A i \in 1 .. Len(counted) : Whole(counted[i])
  <2>1. CASE ~short
    <3>1. counted = given
      BY <2>1
    <3>2. \A i \in 1 .. Len(given) : Whole(given[i])
      BY <1>4, <1>5, <2>1 DEF Whole
    <3> HIDE DEF counted
    <3> QED BY <1>2, <3>1, <3>2
  <2>2. CASE short
    <3>1. IsList(Front(given)) /\ Len(Front(given)) = Len(given) - 1
          /\ \A i \in 1 .. Len(given) - 1 : Front(given)[i] = given[i]
      BY <1>2, FrontList
    <3>2. \A i \in 1 .. Len(given) - 1 : i \in 1 .. Len(given) /\ i # Len(given)
      BY <1>3
    <3>3. counted = Front(given)
      BY <2>2
    <3>4. \A i \in 1 .. Len(given) - 1 : Whole(given[i])
      BY <1>4, <3>2 DEF Whole
    <3> HIDE DEF counted
    <3> QED BY <3>1, <3>3, <3>4
  <2> QED BY <2>1, <2>2
<1> HIDE DEF counted
<1>7. Len(counted) \in Nat /\ DOMAIN counted = 1 .. Len(counted)
  BY <1>6, ListFacts
<1>8. \A i \in 1 .. Len(counted) : args[i] = Strip(counted[i])
  BY <1>7, Zenon
<1>9. Len(args) = Len(counted)
  <2>1. args = [i \in 1 .. Len(counted) |-> args[i]]
    BY <1>7, <1>8, Zenon
  <2> HIDE DEF args
  <2> QED BY <1>7, <2>1, MadeList
<1> HIDE DEF args
<1>10. \A i \in 1 .. Len(args) : Whole(args[i])
  BY <1>6, <1>8, <1>9, StripWhole
<1> QED BY <1>1, <1>10 DEF WholeTexts

(* A call that is complete is suspended with its parentheses closed, and   *)
(* within an argument it is never the end of the input that completes it.  *)
LEMMA EndArgsInside ==
  ASSUME ExpandInv, TextInv, InsideInv, Settled, EndArgs
  PROVE  InsideInv'
<1> DEFINE L == Len(calls)
           args == ActualArgs
           b == barrier
           o == out
           m == call.macro
           c == [macro |-> m, args |-> args, expanded |-> <<>>, depth |-> 0, out |-> o, barrier |-> b]
<1>1. /\ mode = "args" /\ mode' = "expandArg"
      /\ (Char = ")" /\ call.level = 0 /\ Read) \/ (Char = EndOfInput /\ Peek)
      /\ calls' = Append(calls, c) /\ UNCHANGED <<macros, barrier, out, ident>>
  <2>1. ")" # EndOfInput
    BY Zenon DEF EndOfInput
  <2> HIDE DEF c
  <2>2. Char = ")" \/ Char = EndOfInput
    BY Zenon DEF EndArgs, EndOfInput
  <2>3. /\ mode = "args" /\ mode' = "expandArg" /\ (Char = ")" => call.level = 0)
        /\ (IF Char = ")" THEN Read ELSE Peek) /\ calls' = Append(calls, c) /\ UNCHANGED <<macros, barrier, out, ident>>
    BY DEF EndArgs, c
  <2> QED BY <2>1, <2>2, <2>3
<1>2. /\ WholeFrames(frames) /\ OuterSums(mode, frames, calls) /\ WholeCalls(calls) /\ Readable(macros)
      /\ WholeArgs(mode, call)
  BY <1>1 DEF InsideInv, Inside
<1>3. IsList(calls) /\ L \in Nat
  BY ListFacts DEF ExpandInv, Calls
<1>4. PICK n, p, d : Moves(n, p, d) /\ (calls # <<>> => d = -1 /\ call.level = 0)
  <2>1. CASE Char = ")" /\ call.level = 0 /\ Read
    <3>1. Char # EndOfInput
      BY <2>1, Zenon DEF EndOfInput
    <3>2. Moves(KeptFrames, frames[KeptFrames].pos + 1, Opens(Char))
      BY <1>1, <2>1, <3>1, ForwardMoves
    <3>3. Opens(Char) = -1
      BY <2>1, ParenOpens
    <3> QED BY <2>1, <3>2, <3>3
  <2>2. CASE Char = EndOfInput /\ Peek
    <3>1. calls = <<>>
      BY <1>1, <2>2, StaysInside
    <3> QED BY <2>2, <3>1, PeekMoves
  <2> QED BY <1>1, <2>1, <2>2
<1>5. WholeTexts(args)
  BY <1>1, <1>2, ActualArgsWhole
<1>6. c.args = args /\ c.expanded = <<>> /\ c.out = out /\ c.barrier = barrier
  OBVIOUS
<1> HIDE DEF c, args, o, b, m
<1>7. Len(calls') = L + 1 /\ calls'[L + 1] = c /\ \A k \in 1 .. L : calls'[k] = calls[k]
  BY <1>1, <1>3, AppendList
<1>8. \A k \in 1 .. L + 1 : k = L + 1 \/ (k \in 1 .. L /\ k < L + 1)
  BY <1>3
<1>9. WholeCalls(calls')
  <2>1. WholeTexts(<<>>)
    <3>1. \A i \in 1 .. Len(<<>>) : FALSE
      OBVIOUS
    <3> QED BY <3>1 DEF WholeTexts
  <2> QED BY <1>2, <1>5, <1>6, <1>7, <1>8, <2>1 DEF WholeCalls
<1> HIDE DEF L
<1>10. OuterSums(mode', frames', calls')
  <2> SUFFICES ASSUME NEW k \in 2 .. L + 1
               PROVE  Balanced(calls'[k].out, 0, frames', calls'[k].barrier + 1,
                               IF k < L + 1 THEN calls'[k].depth ELSE Len(frames'))
    BY <1>1, <1>7 DEF OuterSums
  <2>1. CASE k < L + 1
    <3>1. k \in 2 .. Len(calls) /\ k \in 1 .. L
      BY <1>3, <2>1 DEF L
    <3>2. UNCHANGED <<macros, barrier>> /\ mode \notin {"expandArg", "abort"}
      BY <1>1
    <3>3. Balanced(calls[k].out, 0, frames', calls[k].barrier + 1, calls[k].depth)
      BY <1>2, <1>4, <3>1, <3>2, MoveSums DEF Moves
    <3> QED BY <1>7, <2>1, <3>1, <3>3
  <2>2. CASE k = L + 1
    <3>1. calls # <<>>
      <4>1. L # 0
        BY <1>3, <2>2
      <4> QED BY <1>3, <4>1, ListFacts DEF L
    <3>2. /\ Partial(out) /\ Height(out) \in Int
          /\ Height(out) + More(mode, call) + d = Opened(frames')[n] - Opened(frames')[barrier + 1]
      BY <1>1, <1>4, <3>1, MoveRises
    <3>3. More(mode, call) = 1 /\ d = -1
      BY <1>1, <1>4, <3>1 DEF More
    <3>4. Height(out) + 0 = Opened(frames')[n] - Opened(frames')[barrier + 1]
      <4>1. Height(out) + More(mode, call) + d = Height(out) + 0
        BY <3>2, <3>3
      <4> QED BY <3>2, <4>1
    <3>5. Len(frames') = n
      BY <1>4 DEF Moves, Shape
    <3>6. ~(k < L + 1)
      BY <1>3, <2>2
    <3> QED BY <1>6, <1>7, <2>2, <3>2, <3>4, <3>5, <3>6 DEF Balanced
  <2> QED BY <1>3, <2>1, <2>2
<1>11. InnerSum(mode', frames', calls', barrier', out', call')
  BY <1>1, <1>6, <1>7 DEF InnerSum
<1>12. WholeArgs(mode', call') /\ InsideIdent(mode', frames', calls', barrier', ident', call')
  BY <1>1 DEF WholeArgs, InsideIdent
<1>13. WholeFrames(frames')
  BY <1>1, <1>2, <1>4, MoveSums DEF Moves
<1> QED BY <1>1, <1>2, <1>9, <1>10, <1>11, <1>12, <1>13, InsidePrime DEF Inside

(* Nothing is called at first.                                             *)
LEMMA InitInside == Init => InsideInv
<1> SUFFICES ASSUME Init PROVE InsideInv
  OBVIOUS
<1>1. PICK p \in Programs :
        /\ macros = p.macros
        /\ frames = <<[src |-> p.text, pos |-> 1, macro |-> None]>>
  BY DEF Init
<1>2. mode = "scan" /\ calls = <<>>
  BY DEF Init
<1>3. Readable(macros)
  <2> SUFFICES ASSUME NEW m \in DOMAIN macros
               PROVE  /\ \A i \in 1 .. Len(macros[m].body) : macros[m].body[i] # EndOfInput
                      /\ \A i \in 1 .. Len(macros[m].params) : macros[m].params[i] \in Names
    BY DEF Readable
  <2>1. /\ IsText(macros[m].params) /\ IsText(macros[m].body)
        /\ \A j \in DOMAIN macros[m].params : macros[m].params[j] \in Names
        /\ \A j \in DOMAIN macros[m].body : macros[m].body[j] # ""
    BY <1>1, ProgramsAssumption
  <2>2. DOMAIN macros[m].params = 1 .. Len(macros[m].params) /\ DOMAIN macros[m].body = 1 .. Len(macros[m].body)
    BY <2>1, TextIsList, ListFacts
  <2> QED BY <2>1, <2>2, Zenon DEF EndOfInput
<1>4. WholeFrames(frames)
  <2>1. Len(frames) = 1
    BY <1>1
  <2>2. \A i \in 2 .. Len(frames) : FALSE
    BY <2>1
  <2> QED BY <2>2 DEF WholeFrames
<1>5. WholeCalls(calls) /\ OuterSums(mode, frames, calls)
  <2>1. Len(calls) = 0
    BY <1>2
  <2>2. (\A k \in 1 .. Len(calls) : FALSE) /\ \A k \in 2 .. Len(calls) : FALSE
    BY <2>1
  <2> QED BY <2>2, Zenon DEF WholeCalls, OuterSums
<1>6. WholeArgs(mode, call)
  BY <1>2 DEF WholeArgs
<1>7. InnerSum(mode, frames, calls, barrier, out, call)
  BY <1>2 DEF InnerSum
<1>8. InsideIdent(mode, frames, calls, barrier, ident, call)
  BY <1>2 DEF InsideIdent
<1> QED BY <1>3, <1>4, <1>5, <1>6, <1>7, <1>8 DEF InsideInv, Inside

LEMMA StepInside ==
  ASSUME ExpandInv, TextInv, InsideInv, Settled, TextsMatched', [Next]_vars
  PROVE  InsideInv'
<1>0. ExpandInv' /\ TextInv'
  BY StepHides, StepText DEF Settled
<1>1. CASE ScanOther
  BY <1>1, ScanOtherInside
<1>2. CASE ScanIdent
  BY <1>2, ScanIdentInside
<1>3. CASE ReadIdent
  BY <1>3, ReadIdentInside
<1>4. CASE Finish
  BY <1>4, FinishInside
<1>5. CASE EmitIdent
  BY <1>5, EmitIdentInside
<1>6. CASE BeginCall
  BY <1>6, BeginCallInside
<1>7. CASE SkipWhitespace
  BY <1>7, SkipWhitespaceInside
<1>8. CASE NotAnInvocation
  BY <1>8, NotAnInvocationInside
<1>9. CASE OpenParen
  BY <1>9, OpenParenInside
<1>10. CASE ReadArg
  BY <1>10, ReadArgInside
<1>11. CASE EndArgs
  BY <1>11, EndArgsInside
<1>12. CASE TooDeep
  <2>1. mode' = "abort" /\ macros' = macros
    BY <1>12 DEF TooDeep
  <2>2. Readable(macros')
    BY <2>1 DEF InsideInv
  <2> QED BY <2>1, <2>2, InsidePrime DEF Inside
<1>13. CASE ExpandObject /\ ~TooDeep
  BY <1>0, <1>13, ExpandObjectInside
<1>14. CASE NextArg /\ ~TooDeep
  BY <1>0, <1>14, NextArgInside
<1>15. CASE FinishArg
  BY <1>0, <1>15, FinishArgInside
<1>16. CASE Substitute /\ ~TooDeep
  BY <1>0, <1>16, SubstituteInside
<1>17. CASE UNCHANGED vars
  <2>1. UNCHANGED <<macros, active, frames, barrier, out, mode, ident, origin, call, calls>>
    BY <1>17 DEF vars
    <2> QED BY <2>1, InsidePrime DEF InsideInv
<1> QED BY <1>1, <1>2, <1>3, <1>4, <1>5, <1>6, <1>7, <1>8, <1>9, <1>10, <1>11, <1>12, <1>13, <1>14, <1>15, <1>16, <1>17
        DEF Next, Terminated

(* The frame an argument is expanded on is not read, popped or moved       *)
(* before the expansion is complete.                                       *)
LEMMA NotLeft ==
  ASSUME ExpandInv, TextInv, InsideInv, Settled, [Next]_vars, calls # <<>>, mode # "expandArg"
  PROVE  frames'[barrier + 1] = frames[barrier + 1]
<1> DEFINE n == KeptFrames
           s == Peeked
<1>1. Stacks /\ barrier \in Nat
  BY DEF ExpandInv, Stacks
<1>2. n \in barrier + 1 .. Len(frames) /\ IsList(s) /\ Len(s) = n /\ \A i \in 1 .. n : s[i] = frames[i]
  BY <1>1, PeekFacts
<1>3. barrier + 1 \in 1 .. n
  BY <1>1, <1>2
<1>4. ASSUME Peek PROVE frames'[barrier + 1] = frames[barrier + 1]
  BY <1>2, <1>3, <1>4 DEF Peek
<1>5. ASSUME NEW p, Shape(n, p), n \in barrier + 2 .. Len(frames) PROVE frames'[barrier + 1] = frames[barrier + 1]
  <2>1. barrier + 1 \in 1 .. n - 1
    BY <1>1, <1>5
  <2> QED BY <1>5, <2>1 DEF Shape
<1>6. ASSUME Read,
             \/ mode = "scan" /\ InTarget
             \/ mode = "ident" /\ Char \in Names
             \/ mode = "paren" /\ Char \in {Blank, "("}
             \/ mode = "args"
      PROVE  frames'[barrier + 1] = frames[barrier + 1]
  <2>1. n \in barrier + 2 .. Len(frames) /\ Char # EndOfInput
    BY <1>6, StaysInside
  <2>2. Shape(n, frames[n].pos + 1)
    BY <1>6, <2>1, ForwardShape
  <2> QED BY <1>5, <2>1, <2>2
<1>7. CASE ScanOther \/ ReadIdent \/ SkipWhitespace \/ OpenParen \/ ReadArg
  BY <1>6, <1>7, ParenReads DEF ScanOther, ReadIdent, ReadArg
<1>8. CASE ScanIdent \/ Finish \/ EmitIdent \/ BeginCall
  BY <1>4, <1>8 DEF ScanIdent, Finish, EmitIdent, BeginCall
<1>9. CASE EndArgs
  BY <1>4, <1>6, <1>9 DEF EndArgs
<1>10. CASE NotAnInvocation
  <2>1. mode = "paren" /\ frames' = [Peeked EXCEPT ![Len(Peeked)].pos = call.savedPos]
    BY <1>10 DEF NotAnInvocation, RestoredPosition
  <2>2. Shape(n, call.savedPos) /\ (n # barrier + 1 \/ call.savedPos = frames[n].pos)
    BY <1>10, RestoreMoves DEF Moves
  <2>3. CASE n # barrier + 1
    <3>1. n \in barrier + 2 .. Len(frames)
      BY <1>1, <1>2, <2>3
    <3> QED BY <1>5, <2>2, <3>1
  <2>4. CASE n = barrier + 1
    <3>1. /\ frames'[n].src = frames[n].src /\ frames'[n].macro = frames[n].macro /\ frames'[n].pos = frames[n].pos
          /\ Len(frames') = n /\ n \in 1 .. n /\ n \in 1 .. Len(frames)
      BY <1>1, <1>2, <1>3, <2>2, <2>4 DEF Shape
    <3>2. IsFrame(frames[n])
      BY <1>1, <3>1 DEF Stacks, IsStack
    <3>3. Stacks'
      BY StepHides DEF ExpandInv
    <3>4. IsFrame(frames'[n])
      BY <3>1, <3>3 DEF Stacks, IsStack, IsFrame
    <3> QED BY <2>4, <3>1, <3>2, <3>4 DEF IsFrame
  <2> QED BY <2>3, <2>4
<1>11. CASE TooDeep
  BY <1>11 DEF TooDeep
<1>12. CASE ExpandObject /\ ~TooDeep
  <2>1. PICK text, m : frames' = Pushed(s, text, m)
    BY <1>12 DEF ExpandObject, PushInput, Pushed
  <2> HIDE DEF n, s
  <2>2. frames'[barrier + 1] = s[barrier + 1]
    BY <1>2, <1>3, <2>1, AppendList DEF Pushed
  <2> QED BY <1>2, <1>3, <2>2
<1>13. CASE NextArg \/ Substitute
  BY <1>13 DEF NextArg, Substitute
<1>14. CASE FinishArg
  <2> DEFINE k == barrier + 1
  <2>1. frames' = SubSeq(s, 1, k)
    BY <1>14 DEF FinishArg, DrainTo
  <2>2. k \in 0 .. Len(s) /\ k \in 1 .. k /\ k \in 1 .. n
    BY <1>1, <1>2
  <2> HIDE DEF k, n, s
  <2>3. frames'[k] = frames[k]
    BY <1>2, <2>1, <2>2, CutList
  <2> QED BY <2>3 DEF k
<1>15. CASE UNCHANGED vars
  BY <1>15 DEF vars
<1> QED BY <1>7, <1>8, <1>9, <1>10, <1>11, <1>12, <1>13, <1>14, <1>15 DEF Next, Terminated

(* For every table, every text and every depth of the calls, three things  *)
(* apart, the expansion of an argument never reads the text behind the     *)
(* call: the frame the argument was pushed on is neither moved nor popped  *)
(* before the scan of the argument returns, through all the calls, scans   *)
(* and pushed texts inside it (pp_parse_target_depth, the barrier of       *)
(* pp_expand_ident).  The three: replacement texts on the stack close the  *)
(* parentheses they open, no name or call that ends an argument is         *)
(* continued by the text behind the call, and the search for a parenthesis *)
(* ends in the frame it began in.                                          *)
THEOREM ArgumentsStayInside ==
  Spec /\ [](RestoredInPlace /\ NamesEndInside /\ TextsMatched) => ArgumentStaysInside
<1> DEFINE I == ExpandInv /\ TextInv /\ InsideInv
           Stays == calls # <<>> /\ mode # "expandArg" => frames'[barrier + 1] = frames[barrier + 1]
<1>1. Init => I
  BY InitHides, InitList, InitInside DEF TextInv
<1>2. I /\ Settled /\ Settled' /\ [Next]_vars => I'
  <2>1. Settled' => TextsMatched'
    BY DEF Settled
  <2> QED BY <2>1, StepHides, StepText, StepInside DEF Settled
<1>3. I /\ Settled /\ [Next]_vars => Stays
  BY NotLeft
<1>4. RestoredInPlace /\ NamesEndInside /\ TextsMatched => Settled
  BY DEF Settled
<1> HIDE DEF I, Stays
<1>5. Spec /\ [](RestoredInPlace /\ NamesEndInside /\ TextsMatched) => [][Stays]_vars
  BY <1>1, <1>2, <1>3, <1>4, PTL DEF Spec
<1> QED BY <1>5 DEF Stays, ArgumentStaysInside
=============================================================================
