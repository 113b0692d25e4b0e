------------------------- MODULE ScopedTable_proofs -------------------------
(***************************************************************************)
(* What TLAPS proves of module ScopedTable for every table size, hash and  *)
(* set of keys: its type invariant, that everything stored can be found,   *)
(* that the rollback is complete, and that the table implements module     *)
(* ScopedDictionary.                                                       *)
(*                                                                         *)
(* The strengthening that makes findability inductive is Chain: the slots  *)
(* probed before the one an expression went to were all filled EARLIER, so *)
(* they are still filled as long as the expression itself is on the stack. *)
(***************************************************************************)
EXTENDS ScopedTable, FiniteSetTheorems, FunctionTheorems, TLAPS

Top == Len(stack)

\* The stack lists the occupied slots, each of them once.
Stacked ==
    /\ \A s \in Slots : s \in occupied <=> \E j \in 1 .. Top : stack[j] = s
    /\ \A i, j \in 1 .. Top : stack[i] = stack[j] => i = j

\* The marks of the open scopes go up the stack.
Marked ==
    /\ \A i \in 1 .. Len(marks) : marks[i] \in 0 .. Top
    /\ \A i, j \in 1 .. Len(marks) : i <= j => marks[i] <= marks[j]

Earlier(j, s) == \E i \in 1 .. (j - 1) : stack[i] = s

Chain ==
    \A j \in 1 .. Top : \E p \in Slots :
        /\ Probe(key[stack[j]], p) = stack[j]
        /\ \A q \in 0 .. (p - 1) : Earlier(j, Probe(key[stack[j]], q))

\* No key is stored twice.
Distinct == \A i, j \in 1 .. Top : key[stack[i]] = key[stack[j]] => i = j

IInv == TypeOK /\ Stacked /\ Marked /\ Chain /\ Distinct

-----------------------------------------------------------------------------
\* A set that is listed without repetition is as large as the list is long.
LEMMA ListCardinality ==
    ASSUME NEW n \in Nat, NEW T, NEW f \in [1 .. n -> T],
           \A t \in T : \E i \in 1 .. n : f[i] = t,
           \A i, j \in 1 .. n : f[i] = f[j] => i = j
    PROVE  IsFiniteSet(T) /\ Cardinality(T) = n
<1>1. IsFiniteSet(1 .. n) /\ Cardinality(1 .. n) = n
    BY FS_Interval
<1>2. f \in Surjection(1 .. n, T)
    BY DEF Surjection
<1>3. f \in Injection(1 .. n, T)
    BY DEF Injection, IsInjective
<1> QED BY <1>1, <1>2, <1>3, FS_Surjection

\* Probing stays within the table and visits every slot.
LEMMA ProbeType ==
    ASSUME NEW k \in Keys, NEW i \in Slots PROVE Probe(k, i) \in Slots
<1>1. Home[k] \in Slots
    BY HomeAssumption
<1> QED BY <1>1, SizesAssumption DEF Probe, Slots

LEMMA ProbeOnto ==
    ASSUME NEW k \in Keys, NEW s \in Slots
    PROVE  \E i \in Slots : Probe(k, i) = s
<1>1. Home[k] \in Slots
    BY HomeAssumption
<1> DEFINE i == IF s >= Home[k] THEN s - Home[k] ELSE s - Home[k] + TableSize
<1>2. i \in Slots /\ Probe(k, i) = s
    BY <1>1, SizesAssumption DEF Probe, Slots
<1> QED BY <1>2

LEMMA StackType ==
    ASSUME IInv
    PROVE  /\ Top \in Nat
           /\ \A j \in 1 .. Top : stack[j] \in Slots /\ stack[j] \in occupied
           /\ occupied = {stack[j] : j \in 1 .. Top}
           /\ Len(marks) \in Nat
<1>1. Top \in Nat /\ \A j \in 1 .. Top : stack[j] \in Slots
    BY DEF IInv, TypeOK, Top
<1>2. occupied \subseteq Slots
    BY DEF IInv, TypeOK
<1> QED BY <1>1, <1>2 DEF IInv, Stacked, TypeOK

LEMMA StackIsOccupied ==
    ASSUME IInv PROVE RollbackComplete
<1>1. occupied = {stack[j] : j \in 1 .. Top} /\ Top \in Nat
    BY StackType
<1>2. \A i, j \in 1 .. Top : stack[i] = stack[j] => i = j
    BY DEF IInv, Stacked
<1> DEFINE f == [j \in 1 .. Top |-> stack[j]]
<1>3. f \in [1 .. Top -> occupied]
    BY <1>1
<1>4. \A t \in occupied : \E i \in 1 .. Top : f[i] = t
    BY <1>1
<1>5. \A i, j \in 1 .. Top : f[i] = f[j] => i = j
    BY <1>2
<1>6. Cardinality(occupied) = Top
    <2> HIDE DEF f
    <2> QED BY <1>1, <1>3, <1>4, <1>5, ListCardinality
<1> QED BY <1>1, <1>6 DEF RollbackComplete, Top

\* While a slot is free the stack has room: it never overflows.
LEMMA StackHasRoom ==
    ASSUME IInv, NEW s \in Slots, s \notin occupied
    PROVE  Top < ScopeMax
<1>1. IsFiniteSet(Slots) /\ Cardinality(Slots) = TableSize
    BY SizesAssumption, FS_Interval DEF Slots
<1>2. occupied \in SUBSET Slots /\ occupied # Slots
    BY DEF IInv, TypeOK
<1>3. IsFiniteSet(occupied) /\ Cardinality(occupied) \in Nat
    BY <1>1, <1>2, FS_Subset, FS_CardinalityType
<1>4. Cardinality(occupied) <= TableSize /\ Cardinality(occupied) # TableSize
    BY <1>1, <1>2, FS_Subset
<1>5. Cardinality(occupied) = Top
    BY StackIsOccupied DEF RollbackComplete, Top
<1> QED BY <1>3, <1>4, <1>5, SizesAssumption, ScopeHoldsTable

\* Every stored expression is found where probing for it arrives first.
LEMMA Findable ==
    ASSUME IInv, NEW j \in 1 .. Top
    PROVE  \E p \in Slots :
               Probe(key[stack[j]], p) = stack[j] /\ Passes(key[stack[j]], p)
<1> DEFINE k == key[stack[j]]
<1>1. PICK p \in Slots : /\ Probe(k, p) = stack[j]
                         /\ \A q \in 0 .. (p - 1) : Earlier(j, Probe(k, q))
    BY DEF IInv, Chain
<1>2. ASSUME NEW q \in 0 .. (p - 1)
      PROVE  Probe(k, q) \in occupied /\ ~Matches(k, Probe(k, q))
    <2>1. PICK i \in 1 .. (j - 1) : stack[i] = Probe(k, q)
        BY <1>1, <1>2 DEF Earlier
    <2>2. i \in 1 .. Top /\ i # j
        BY <2>1, StackType
    <2>3. stack[i] \in occupied /\ key[stack[i]] # k
        BY <2>2, StackType DEF IInv, Distinct
    <2> QED BY <2>1, <2>3 DEF Matches
<1> HIDE DEF k
<1>3. Passes(k, p)
    BY <1>2 DEF Passes
<1> QED BY <1>1, <1>3 DEF k

\* A search that gets as far as probe i and does not end there with a match
\* proves that the key is not stored.
LEMMA MissMeansAbsent ==
    ASSUME IInv, NEW k \in Keys, NEW i \in 0 .. TableSize, Passes(k, i),
           i \in Slots => Probe(k, i) \notin occupied,
           NEW j \in 1 .. Top
    PROVE  key[stack[j]] # k
<1> SUFFICES ASSUME key[stack[j]] = k PROVE FALSE
    OBVIOUS
<1>1. PICK p \in Slots : Probe(k, p) = stack[j] /\ Passes(k, p)
    BY Findable
<1>2. stack[j] \in occupied
    BY StackType
<1>3. p \in Nat /\ i \in Nat /\ p < TableSize
    BY SizesAssumption DEF Slots
<1>4. CASE p < i
    <2>1. p \in 0 .. (i - 1)
        BY <1>3, <1>4
    <2>2. ~Matches(k, Probe(k, p))
        BY <2>1 DEF Passes
    <2> QED BY <2>2, <1>1, <1>2 DEF Matches
<1>5. CASE i <= p
    <2>1. i \in Slots
        BY <1>3, <1>5, SizesAssumption DEF Slots
    <2>2. CASE i = p
        BY <2>1, <2>2, <1>1, <1>2
    <2>3. CASE i # p
        <3>1. i \in 0 .. (p - 1)
            BY <2>3, <1>3, <1>5
        <3> QED BY <3>1, <2>1, <1>1 DEF Passes
    <2> QED BY <2>2, <2>3
<1> QED BY <1>3, <1>4, <1>5

-----------------------------------------------------------------------------
LEMMA InitIInv == Init => IInv
<1> SUFFICES ASSUME Init PROVE IInv
    OBVIOUS
<1>1. Len(stack) = 0 /\ Len(marks) = 0
    BY DEF Init
<1>2. TypeOK
    BY DEF Init, TypeOK
<1>3. 1 .. Top = {} /\ 1 .. Len(marks) = {}
    BY <1>1 DEF Top
<1>4. Stacked
    BY <1>3 DEF Stacked, Init
<1> QED BY <1>2, <1>3, <1>4 DEF IInv, Marked, Chain, Distinct

LEMMA PushStep == IInv /\ Push => IInv'
<1> SUFFICES ASSUME IInv, Push PROVE IInv'
    OBVIOUS
<1>1. UNCHANGED <<occupied, key, dst, stack, answer>> /\ Top' = Top
      /\ marks' = Append(marks, Top)
    BY DEF Push, Top
<1>2. Top \in Nat /\ marks \in Seq(Nat)
    BY StackType DEF IInv, TypeOK
<1>3. TypeOK'
    BY <1>1, <1>2 DEF IInv, TypeOK
<1>4. Stacked' /\ Distinct'
    BY <1>1 DEF IInv, Stacked, Distinct
<1>5. Chain'
    BY <1>1 DEF IInv, Chain, Earlier, Probe
<1>6. Marked'
    <2>1. Len(marks') = Len(marks) + 1
        BY <1>1, <1>2
    <2>2. \A i \in 1 .. Len(marks') :
              marks'[i] = IF i <= Len(marks) THEN marks[i] ELSE Top
        BY <1>1, <1>2
    <2>3. \A i \in 1 .. Len(marks) : marks[i] \in 0 .. Top
        BY DEF IInv, Marked
    <2>4. \A i \in 1 .. Len(marks') : marks'[i] \in 0 .. Top
        BY <2>1, <2>2, <2>3, <1>2
    <2>5. ASSUME NEW i \in 1 .. Len(marks'), NEW j \in 1 .. Len(marks'), i <= j
          PROVE  marks'[i] <= marks'[j]
        <3>1. CASE j <= Len(marks)
            BY <3>1, <2>1, <2>2, <2>5, <1>2 DEF IInv, Marked
        <3>2. CASE j > Len(marks)
            BY <3>2, <2>1, <2>2, <2>4, <2>5, <1>2
        <3> QED BY <3>1, <3>2, <2>1, <1>2
    <2> QED BY <1>1, <2>4, <2>5 DEF Marked
<1> QED BY <1>3, <1>4, <1>5, <1>6 DEF IInv

LEMMA Prefix ==
    ASSUME NEW S, NEW s \in Seq(S), NEW n \in 0 .. Len(s)
    PROVE  /\ SubSeq(s, 1, n) \in Seq(S)
           /\ Len(SubSeq(s, 1, n)) = n
           /\ \A i \in 1 .. n : SubSeq(s, 1, n)[i] = s[i]
<1>1. Len(s) \in Nat /\ n \in Nat
    OBVIOUS
<1>2. Len(SubSeq(s, 1, n)) = n
    BY <1>1
<1>3. \A i \in 1 .. n : SubSeq(s, 1, n)[i] = s[i]
    BY <1>1
<1>4. SubSeq(s, 1, n) \in Seq(S)
    BY <1>1
<1> QED BY <1>2, <1>3, <1>4

LEMMA PopStep == IInv /\ Pop => IInv'
<1> SUFFICES ASSUME IInv, Pop PROVE IInv'
    OBVIOUS
<1>1. marks \in Seq(Nat) /\ marks # << >> /\ stack \in Seq(Slots) /\ Top \in Nat
    BY StackType DEF Pop, IInv, TypeOK
<1>2. Len(marks) \in 1 .. Len(marks) /\ Len(marks) \in Nat
    BY <1>1
<1>3. PICK m \in 0 .. Top : m = marks[Len(marks)]
    BY <1>2 DEF IInv, Marked
<1>4. /\ occupied' = occupied \ {stack[j] : j \in (m + 1) .. Top}
      /\ stack' = SubSeq(stack, 1, m)
      /\ marks' = SubSeq(marks, 1, Len(marks) - 1)
      /\ UNCHANGED <<key, dst, answer>>
    BY <1>3 DEF Pop, Top
<1>5. stack' \in Seq(Slots) /\ Len(stack') = m /\ \A j \in 1 .. m : stack'[j] = stack[j]
    BY <1>1, <1>3, <1>4, Prefix DEF Top
<1>6. /\ marks' \in Seq(Nat) /\ Len(marks') = Len(marks) - 1
      /\ \A i \in 1 .. (Len(marks) - 1) : marks'[i] = marks[i]
    <2>1. Len(marks) - 1 \in 0 .. Len(marks)
        BY <1>2
    <2> QED BY <1>1, <1>4, <2>1, Prefix
<1>7. Top' = m /\ m \in Nat /\ 1 .. m \subseteq 1 .. Top
    BY <1>1, <1>3, <1>5 DEF Top
<1>8. TypeOK'
    BY <1>4, <1>5, <1>6 DEF IInv, TypeOK
<1>9. Stacked'
    <2>1. ASSUME NEW s \in Slots
          PROVE  s \in occupied' <=> \E j \in 1 .. m : stack[j] = s
        <3>1. s \in occupied <=> \E j \in 1 .. Top : stack[j] = s
            BY DEF IInv, Stacked
        <3>2. \A i, j \in 1 .. Top : stack[i] = stack[j] => i = j
            BY DEF IInv, Stacked
        <3>3. \A j \in 1 .. Top : j \in 1 .. m \/ j \in (m + 1) .. Top
            BY <1>1, <1>7
        <3>4. \A j \in (m + 1) .. Top : j \in 1 .. Top /\ j \notin 1 .. m
            BY <1>1, <1>7
        <3> QED BY <3>1, <3>2, <3>3, <3>4, <1>4, <1>7
    <2>2. \A i, j \in 1 .. m : stack'[i] = stack'[j] => i = j
        BY <1>5, <1>7 DEF IInv, Stacked
    <2> QED BY <2>1, <2>2, <1>5, <1>7 DEF Stacked
<1>10. Marked'
    <2>1. \A i \in 1 .. Len(marks') : i \in 1 .. Len(marks) /\ i <= Len(marks) /\ marks'[i] = marks[i]
        BY <1>6, <1>2
    <2>2. \A i \in 1 .. Len(marks') : marks'[i] \in 0 .. m
        <3> SUFFICES ASSUME NEW i \in 1 .. Len(marks') PROVE marks[i] \in 0 .. m
            BY <2>1
        <3>1. marks[i] <= m /\ marks[i] \in 0 .. Top
            BY <2>1, <1>2, <1>3 DEF IInv, Marked
        <3> QED BY <3>1, <1>3
    <2>3. \A i, j \in 1 .. Len(marks') : i <= j => marks'[i] <= marks'[j]
        BY <2>1 DEF IInv, Marked
    <2> QED BY <2>2, <2>3, <1>7 DEF Marked
<1>11. Chain'
    <2> SUFFICES ASSUME NEW j \in 1 .. m
                 PROVE  \E p \in Slots :
                            /\ Probe(key[stack[j]], p) = stack[j]
                            /\ \A q \in 0 .. (p - 1) : Earlier(j, Probe(key[stack[j]], q))'
        BY <1>4, <1>5, <1>7 DEF Chain, Probe
    <2>1. PICK p \in Slots :
              /\ Probe(key[stack[j]], p) = stack[j]
              /\ \A q \in 0 .. (p - 1) : Earlier(j, Probe(key[stack[j]], q))
        BY <1>7 DEF IInv, Chain
    <2>2. ASSUME NEW s, Earlier(j, s) PROVE \E i \in 1 .. (j - 1) : stack'[i] = s
        <3>1. \A i \in 1 .. (j - 1) : i \in 1 .. m
            BY <1>7
        <3> QED BY <2>2, <3>1, <1>5 DEF Earlier
    <2>3. \A q \in 0 .. (p - 1) : Earlier(j, Probe(key[stack[j]], q))'
        BY <2>1, <2>2, <1>4, <1>5 DEF Earlier, Probe
    <2> QED BY <2>1, <2>3
<1>12. Distinct'
    BY <1>4, <1>5, <1>7 DEF IInv, Distinct
<1> QED BY <1>8, <1>9, <1>10, <1>11, <1>12 DEF IInv

\* What an insertion changes: one free slot becomes the top of the stack.
LEMMA InsertEffect ==
    ASSUME IInv, NEW k \in Keys, NEW n \in Names, Insert(k, n)
    PROVE  \E i \in Slots : \E t \in Slots :
              /\ t = Probe(k, i) /\ t \notin occupied /\ Passes(k, i)
              /\ occupied' = occupied \cup {t}
              /\ key' = [key EXCEPT ![t] = k]
              /\ dst' = [dst EXCEPT ![t] = n]
              /\ stack' \in Seq(Slots) /\ Top' = Top + 1
              /\ stack'[Top + 1] = t
              /\ \A j \in 1 .. Top : stack'[j] = stack[j] /\ stack[j] # t
                                    /\ key[stack[j]] # k
              /\ marks' = marks /\ answer' = NoName
<1>1. PICK i \in Slots :
          /\ Passes(k, i)
          /\ Probe(k, i) \notin occupied
          /\ occupied' = occupied \cup {Probe(k, i)}
          /\ key' = [key EXCEPT ![Probe(k, i)] = k]
          /\ dst' = [dst EXCEPT ![Probe(k, i)] = n]
          /\ stack' = IF Len(stack) < ScopeMax THEN Append(stack, Probe(k, i)) ELSE stack
    BY DEF Insert
<1>2. PICK t \in Slots : t = Probe(k, i)
    BY ProbeType
<1>3. stack' = Append(stack, t)
    BY <1>1, <1>2, StackHasRoom DEF Top
<1>4. stack \in Seq(Slots) /\ Top \in Nat
    BY StackType DEF IInv, TypeOK
<1>5. stack' \in Seq(Slots) /\ Top' = Top + 1 /\ stack'[Top + 1] = t
    BY <1>3, <1>4 DEF Top
<1>6. \A j \in 1 .. Top : stack'[j] = stack[j]
    BY <1>3, <1>4 DEF Top
<1>7. \A j \in 1 .. Top : stack[j] # t
    BY <1>1, <1>2, StackType
<1>8. \A j \in 1 .. Top : key[stack[j]] # k
    <2>1. i \in 0 .. TableSize
        BY SizesAssumption DEF Slots
    <2> QED BY <1>1, <2>1, MissMeansAbsent
<1>9. marks' = marks /\ answer' = NoName
    BY DEF Insert
<1> QED BY <1>1, <1>2, <1>5, <1>6, <1>7, <1>8, <1>9

LEMMA InsertStep ==
    ASSUME IInv, NEW k \in Keys, NEW n \in Names, Insert(k, n) PROVE IInv'
<1>1. PICK i \in Slots, t \in Slots :
              /\ t = Probe(k, i) /\ t \notin occupied /\ Passes(k, i)
              /\ occupied' = occupied \cup {t}
              /\ key' = [key EXCEPT ![t] = k]
              /\ dst' = [dst EXCEPT ![t] = n]
              /\ stack' \in Seq(Slots) /\ Top' = Top + 1
              /\ stack'[Top + 1] = t
              /\ \A j \in 1 .. Top : stack'[j] = stack[j] /\ stack[j] # t
                                    /\ key[stack[j]] # k
              /\ marks' = marks /\ answer' = NoName
    BY InsertEffect
<1>2. PICK N \in Nat : N = Top
    BY StackType
<1>3. \A j \in 1 .. N : stack[j] \in Slots /\ stack[j] \in occupied
    BY <1>2, StackType
<1>4. \A j \in 1 .. (N + 1) : j \in 1 .. N \/ j = N + 1
    BY <1>2
<1>5. key \in [Slots -> Keys] /\ dst \in [Slots -> Names] /\ occupied \subseteq Slots
    BY DEF IInv, TypeOK
<1>6. key'[t] = k /\ \A s \in Slots \ {t} : key'[s] = key[s]
    BY <1>1, <1>5
<1>7. \A j \in 1 .. N : key'[stack'[j]] = key[stack[j]] /\ stack'[j] = stack[j]
    BY <1>1, <1>2, <1>3, <1>6
<1>8. TypeOK'
    BY <1>1, <1>5 DEF IInv, TypeOK
<1>9. Stacked'
    <2>1. ASSUME NEW s \in Slots
          PROVE  s \in occupied' <=> \E j \in 1 .. (N + 1) : stack'[j] = s
        <3>1. s \in occupied <=> \E j \in 1 .. N : stack[j] = s
            BY <1>2 DEF IInv, Stacked
        <3>2. (\E j \in 1 .. (N + 1) : stack'[j] = s)
                <=> (\E j \in 1 .. N : stack[j] = s) \/ s = t
            BY <1>1, <1>2, <1>4, <1>7
        <3> QED BY <3>1, <3>2, <1>1
    <2>2. ASSUME NEW a \in 1 .. (N + 1), NEW b \in 1 .. (N + 1), stack'[a] = stack'[b]
          PROVE  a = b
        <3>1. CASE a \in 1 .. N /\ b \in 1 .. N
            BY <3>1, <2>2, <1>2, <1>7 DEF IInv, Stacked
        <3>2. CASE a = N + 1 \/ b = N + 1
            BY <3>2, <2>2, <1>1, <1>2, <1>4, <1>7
        <3> QED BY <3>1, <3>2, <1>4
    <2> QED BY <2>1, <2>2, <1>1, <1>2 DEF Stacked
<1>10. Marked'
    <2>1. \A a \in 1 .. Len(marks) : marks[a] \in 0 .. (N + 1)
        BY <1>2 DEF IInv, Marked
    <2> QED BY <2>1, <1>1, <1>2 DEF IInv, Marked
<1>11. Chain'
    <2> SUFFICES ASSUME NEW j \in 1 .. (N + 1)
                 PROVE  \E p \in Slots :
                            /\ Probe(key'[stack'[j]], p) = stack'[j]
                            /\ \A q \in 0 .. (p - 1) :
                                  \E a \in 1 .. (j - 1) : stack'[a] = Probe(key'[stack'[j]], q)
        BY <1>1, <1>2 DEF Chain, Earlier, Probe
    <2>1. CASE j \in 1 .. N
        <3>1. PICK p \in Slots :
                  /\ Probe(key[stack[j]], p) = stack[j]
                  /\ \A q \in 0 .. (p - 1) : Earlier(j, Probe(key[stack[j]], q))
            BY <2>1, <1>2 DEF IInv, Chain
        <3>2. \A a \in 1 .. (j - 1) : a \in 1 .. N
            BY <2>1
        <3>3. ASSUME NEW q \in 0 .. (p - 1)
              PROVE  \E a \in 1 .. (j - 1) : stack'[a] = Probe(key[stack[j]], q)
            BY <3>1, <3>2, <1>7 DEF Earlier
        <3> QED BY <3>1, <3>3, <2>1, <1>7
    <2>2. CASE j = N + 1
        <3>1. key'[stack'[j]] = k /\ stack'[j] = t
            BY <2>2, <1>1, <1>2, <1>6
        <3>2. ASSUME NEW q \in 0 .. (i - 1)
              PROVE  \E a \in 1 .. (j - 1) : stack'[a] = Probe(k, q)
            <4>1. q \in Slots
                BY SizesAssumption DEF Slots
            <4>2. Probe(k, q) \in occupied /\ Probe(k, q) \in Slots
                BY <1>1, <4>1, ProbeType DEF Passes
            <4>3. PICK a \in 1 .. N : stack[a] = Probe(k, q)
                BY <4>2, <1>2 DEF IInv, Stacked
            <4>4. a \in 1 .. (j - 1) /\ stack'[a] = Probe(k, q)
                BY <4>3, <2>2, <1>7
            <4> QED BY <4>4
        <3> QED BY <3>1, <3>2, <1>1
    <2> QED BY <2>1, <2>2, <1>4
<1>12. Distinct'
    <2> SUFFICES ASSUME NEW a \in 1 .. (N + 1), NEW b \in 1 .. (N + 1),
                        key'[stack'[a]] = key'[stack'[b]]
                 PROVE  a = b
        BY <1>1, <1>2 DEF Distinct
    <2>1. CASE a \in 1 .. N /\ b \in 1 .. N
        BY <2>1, <1>2, <1>7 DEF IInv, Distinct
    <2>2. CASE a = N + 1 \/ b = N + 1
        <3>1. key'[stack'[N + 1]] = k
            BY <1>1, <1>2, <1>6
        <3>2. \A c \in 1 .. N : key'[stack'[c]] # k
            BY <1>1, <1>2, <1>7
        <3> QED BY <2>2, <3>1, <3>2, <1>4
    <2> QED BY <2>1, <2>2, <1>4
<1> QED BY <1>8, <1>9, <1>10, <1>11, <1>12 DEF IInv

\* Lookups that insert nothing.
LEMMA ReadStep ==
    ASSUME IInv, UNCHANGED <<occupied, key, dst, stack, marks>>, answer' \in Names \cup {NoName}
    PROVE  IInv'
<1>1. TypeOK' /\ Stacked' /\ Marked' /\ Chain' /\ Distinct'
    BY DEF IInv, TypeOK, Stacked, Marked, Chain, Earlier, Distinct, Probe, Top
<1> QED BY <1>1 DEF IInv

LEMMA Step == IInv /\ [Next]_vars => IInv'
<1> SUFFICES ASSUME IInv, [Next]_vars PROVE IInv'
    OBVIOUS
<1>1. CASE Push
    BY <1>1, PushStep
<1>2. CASE Pop
    BY <1>2, PopStep
<1>3. CASE \E k \in Keys : Hit(k)
    <2>1. PICK k \in Keys : Hit(k)
        BY <1>3
    <2>2. answer' \in Names
        BY <2>1, ProbeType DEF Hit, IInv, TypeOK
    <2> QED BY <2>1, <2>2, ReadStep DEF Hit
<1>4. CASE \E k \in Keys : TableFull(k)
    BY <1>4, ReadStep DEF TableFull
<1>5. CASE \E k \in Keys : \E n \in Names : Insert(k, n)
    BY <1>5, InsertStep
<1>6. CASE UNCHANGED vars
    BY <1>6, ReadStep DEF vars, IInv, TypeOK
<1> QED BY <1>1, <1>2, <1>3, <1>4, <1>5, <1>6 DEF Next

LEMMA Invariant == Spec => []IInv
BY InitIInv, Step, PTL DEF Spec

-----------------------------------------------------------------------------
(* Any table size, hash and depth: the table, its stack and its marks keep *)
(* their types; in particular no slot outside the array is written.        *)
THEOREM TypeCorrect == Spec => []TypeOK
<1>1. IInv => TypeOK
    BY DEF IInv
<1> QED BY <1>1, Invariant, PTL

(* ir_pass_manager.c:713-751, 764-771.  Emptying slots on leaving a scope  *)
(* never hides an expression that is still stored.                         *)
THEOREM RollbackKeepsFindable == Spec => []EverythingFindable
<1>1. IInv => EverythingFindable
    <2> SUFFICES ASSUME IInv, NEW s \in occupied
                 PROVE  \E i \in Slots : Probe(key[s], i) = s /\ Passes(key[s], i)
        BY DEF EverythingFindable
    <2>1. PICK j \in 1 .. Top : stack[j] = s
        BY StackType
    <2> QED BY <2>1, Findable
<1> QED BY <1>1, Invariant, PTL

(* ir_pass_manager.c:734-741.  The scope stack holds every occupied slot;  *)
(* "rollback may be incomplete" is never reported.                         *)
THEOREM RollbackIsComplete == Spec => []RollbackComplete
<1>1. IInv => RollbackComplete
    BY StackIsOccupied
<1> QED BY <1>1, Invariant, PTL

-----------------------------------------------------------------------------
(* The refinement.  Pairs(m) is what was known after m insertions; a step  *)
(* that keeps the lower part of the stack keeps what it stands for.        *)
Saved == [i \in 1 .. Len(marks) |-> Pairs(marks[i])]

\* A key that is not on the stack has no pair.
LEMMA AbsentComputesNothing ==
    ASSUME IInv, NEW k \in Keys, \A j \in 1 .. Top : key[stack[j]] # k
    PROVE  Dictionary!Computes(k) = {}
BY DEF Dictionary!Computes, Pairs, Top

\* The same with the variables as parameters, to speak of two states.
PairsOf(kk, dd, ss, m) == {<<kk[ss[j]], dd[ss[j]]>> : j \in 1 .. m}

LEMMA SavedNow ==
    /\ Pairs(Len(stack)) = PairsOf(key, dst, stack, Len(stack))
    /\ Saved = [i \in 1 .. Len(marks) |-> PairsOf(key, dst, stack, marks[i])]
BY DEF Pairs, PairsOf, Saved

LEMMA SavedNext ==
    /\ Pairs(Len(stack))' = PairsOf(key', dst', stack', Len(stack'))
    /\ Saved' = [i \in 1 .. Len(marks') |-> PairsOf(key', dst', stack', marks'[i])]
BY DEF Pairs, PairsOf, Saved

\* What lies below a mark stands for the same pairs after a step that leaves
\* the stack below it, and the slots on it, alone.
LEMMA SamePairs ==
    ASSUME NEW n \in Nat, NEW m \in 0 .. n,
           \A j \in 1 .. n : stack'[j] = stack[j] /\ key'[stack[j]] = key[stack[j]]
                                                 /\ dst'[stack[j]] = dst[stack[j]]
    PROVE  PairsOf(key', dst', stack', m) = PairsOf(key, dst, stack, m)
<1>1. \A j \in 1 .. m : j \in 1 .. n
    OBVIOUS
<1> QED BY <1>1 DEF PairsOf

LEMMA PushRefines ==
    ASSUME IInv, Push PROVE Dictionary!Enter
<1>1. UNCHANGED <<occupied, key, dst, stack, answer>> /\ marks' = Append(marks, Len(stack))
    BY DEF Push
<1>2. PICK D \in Nat : D = Len(marks)
    BY StackType
<1>3. marks \in Seq(Nat)
    BY DEF IInv, TypeOK
<1>4. Len(marks') = D + 1 /\ marks'[D + 1] = Len(stack) /\ \A i \in 1 .. D : marks'[i] = marks[i]
    BY <1>1, <1>2, <1>3
<1>5. Pairs(Len(stack))' = Pairs(Len(stack))
    BY <1>1 DEF Pairs
<1>6. Saved' = [i \in 1 .. (D + 1) |-> IF i <= D THEN Saved[i] ELSE Pairs(Len(stack))]
    <2>1. Saved' = [i \in 1 .. (D + 1) |-> PairsOf(key, dst, stack, marks'[i])]
        BY <1>1, <1>4, SavedNext
    <2>2. ASSUME NEW i \in 1 .. (D + 1)
          PROVE  PairsOf(key, dst, stack, marks'[i])
                    = IF i <= D THEN Saved[i] ELSE Pairs(Len(stack))
        <3>1. CASE i <= D
            BY <3>1, <1>2, <1>4, SavedNow
        <3>2. CASE i > D
            <4>1. i = D + 1
                BY <3>2
            <4> QED BY <4>1, <1>4, SavedNow
        <3> QED BY <3>1, <3>2
    <2> QED BY <2>1, <2>2
<1> QED BY <1>1, <1>2, <1>4, <1>5, <1>6 DEF Dictionary!Enter, Saved

LEMMA PopRefines ==
    ASSUME IInv, Pop PROVE Dictionary!Leave
<1>1. marks \in Seq(Nat) /\ marks # << >> /\ stack \in Seq(Slots) /\ Top \in Nat
    BY StackType DEF Pop, IInv, TypeOK
<1>2. PICK D \in Nat : D = Len(marks) /\ D > 0
    BY <1>1
<1>3. PICK m \in 0 .. Top : m = marks[D]
    BY <1>2 DEF IInv, Marked
<1>4. /\ stack' = SubSeq(stack, 1, m)
      /\ marks' = SubSeq(marks, 1, D - 1)
      /\ UNCHANGED <<key, dst, answer>>
    BY <1>2, <1>3 DEF Pop, Top
<1>5. Len(stack') = m /\ \A j \in 1 .. m : stack'[j] = stack[j]
    BY <1>1, <1>3, <1>4, Prefix DEF Top
<1>6. Len(marks') = D - 1 /\ \A i \in 1 .. (D - 1) : marks'[i] = marks[i]
    BY <1>1, <1>2, <1>4, Prefix
<1>7. \A x \in 0 .. m : PairsOf(key', dst', stack', x) = PairsOf(key, dst, stack, x)
    <2>1. m \in Nat
        BY <1>1, <1>3
    <2> QED BY <2>1, <1>4, <1>5, SamePairs
<1>8. \A i \in 1 .. D : marks[i] \in 0 .. m
    <2> SUFFICES ASSUME NEW i \in 1 .. D PROVE marks[i] \in 0 .. m
        OBVIOUS
    <2>1. marks[i] \in 0 .. Top /\ marks[i] <= marks[D]
        BY <1>2 DEF IInv, Marked
    <2> QED BY <2>1, <1>3
<1>9. Pairs(Len(stack))' = Saved[D]
    <2>1. Pairs(Len(stack))' = PairsOf(key', dst', stack', m)
        BY <1>5, SavedNext
    <2>2. Saved[D] = PairsOf(key, dst, stack, m)
        BY <1>2, <1>3, SavedNow
    <2>3. m \in 0 .. m
        BY <1>3, <1>1
    <2> QED BY <2>1, <2>2, <2>3, <1>7
<1>10. Saved' = [i \in 1 .. (D - 1) |-> Saved[i]]
    <2>1. Saved' = [i \in 1 .. (D - 1) |-> PairsOf(key', dst', stack', marks'[i])]
        BY <1>6, SavedNext
    <2>2. ASSUME NEW i \in 1 .. (D - 1)
          PROVE  PairsOf(key', dst', stack', marks'[i]) = Saved[i]
        <3>1. i \in 1 .. D /\ marks'[i] = marks[i]
            BY <1>2, <1>6
        <3> QED BY <3>1, <1>2, <1>7, <1>8, SavedNow
    <2> QED BY <2>1, <2>2
<1> QED BY <1>2, <1>4, <1>6, <1>9, <1>10 DEF Dictionary!Leave, Saved

LEMMA HitRefines ==
    ASSUME IInv, NEW k \in Keys, Hit(k) PROVE Dictionary!Find(k)
<1>1. PICK i \in Slots : Passes(k, i) /\ Matches(k, Probe(k, i)) /\ answer' = dst[Probe(k, i)]
    BY DEF Hit
<1>2. UNCHANGED <<occupied, key, dst, stack, marks>>
    BY DEF Hit
<1>3. PICK j \in 1 .. Top : stack[j] = Probe(k, i)
    BY <1>1, StackType DEF Matches
<1>4. key[stack[j]] = k /\ dst[stack[j]] = answer' /\ answer' \in Names
    BY <1>1, <1>3, ProbeType DEF Matches, IInv, TypeOK
<1>5. <<k, answer'>> \in Pairs(Len(stack))
    BY <1>3, <1>4 DEF Pairs, Top
<1>6. answer' \in Dictionary!Computes(k)
    BY <1>4, <1>5 DEF Dictionary!Computes
<1>7. Pairs(Len(stack))' = Pairs(Len(stack)) /\ Saved' = Saved /\ Len(marks') = Len(marks)
    BY <1>2 DEF Pairs, Saved
<1> QED BY <1>6, <1>7 DEF Dictionary!Find, Saved

LEMMA InsertRefines ==
    ASSUME IInv, NEW k \in Keys, NEW n \in Names, Insert(k, n)
    PROVE  Dictionary!Remember(k, n)
<1>1. PICK i \in Slots, t \in Slots :
              /\ t = Probe(k, i) /\ t \notin occupied /\ Passes(k, i)
              /\ occupied' = occupied \cup {t}
              /\ key' = [key EXCEPT ![t] = k]
              /\ dst' = [dst EXCEPT ![t] = n]
              /\ stack' \in Seq(Slots) /\ Top' = Top + 1
              /\ stack'[Top + 1] = t
              /\ \A j \in 1 .. Top : stack'[j] = stack[j] /\ stack[j] # t
                                    /\ key[stack[j]] # k
              /\ marks' = marks /\ answer' = NoName
    BY InsertEffect
<1>2. PICK N \in Nat : N = Top
    BY StackType
<1>3. key \in [Slots -> Keys] /\ dst \in [Slots -> Names]
    BY DEF IInv, TypeOK
<1>4. \A j \in 1 .. N : stack'[j] = stack[j] /\ key'[stack[j]] = key[stack[j]]
                                            /\ dst'[stack[j]] = dst[stack[j]]
    BY <1>1, <1>2, <1>3, StackType
<1>5. \A x \in 0 .. N : PairsOf(key', dst', stack', x) = PairsOf(key, dst, stack, x)
    BY <1>4, SamePairs
<1>6. Pairs(Len(stack))' = Pairs(Len(stack)) \cup {<<k, n>>}
    <2>1. Pairs(Len(stack))' = PairsOf(key', dst', stack', N + 1)
        BY <1>1, <1>2, SavedNext DEF Top
    <2>2. Pairs(Len(stack)) = PairsOf(key', dst', stack', N)
        BY <1>2, <1>5, SavedNow DEF Top
    <2>3. key'[stack'[N + 1]] = k /\ dst'[stack'[N + 1]] = n
        BY <1>1, <1>2, <1>3
    <2>4. 1 .. (N + 1) = (1 .. N) \cup {N + 1}
        BY <1>2
    <2> QED BY <2>1, <2>2, <2>3, <2>4 DEF PairsOf
<1>7. Saved' = Saved
    <2>1. \A a \in 1 .. Len(marks) : marks[a] \in 0 .. N
        BY <1>2 DEF IInv, Marked
    <2> QED BY <2>1, <1>1, <1>5, SavedNow, SavedNext
<1>8. Dictionary!Computes(k) = {}
    BY <1>1, AbsentComputesNothing
<1> QED BY <1>1, <1>6, <1>7, <1>8 DEF Dictionary!Remember, Saved

\* When nothing can be inserted every slot is taken, each by a pair of its own.
LEMMA FullRefines ==
    ASSUME IInv, NEW k \in Keys, TableFull(k) PROVE Dictionary!Decline(k)
<1>1. Passes(k, TableSize) /\ answer' = NoName /\ UNCHANGED <<occupied, key, dst, stack, marks>>
    BY DEF TableFull
<1>2. \A j \in 1 .. Top : key[stack[j]] # k
    <2>1. TableSize \in 0 .. TableSize /\ TableSize \notin Slots
        BY SizesAssumption DEF Slots
    <2> QED BY <1>1, <2>1, MissMeansAbsent
<1>3. occupied = Slots
    <2>1. ASSUME NEW s \in Slots PROVE s \in occupied
        <3>1. PICK i \in Slots : Probe(k, i) = s
            BY ProbeOnto
        <3>2. i \in 0 .. (TableSize - 1)
            BY DEF Slots
        <3> QED BY <3>1, <3>2, <1>1 DEF Passes
    <2> QED BY <2>1 DEF IInv, TypeOK
<1>4. Top = TableSize
    <2>1. Cardinality(Slots) = TableSize
        BY SizesAssumption, FS_Interval DEF Slots
    <2> QED BY <2>1, <1>3, StackIsOccupied DEF RollbackComplete, Top
<1>5. Cardinality(Pairs(Top)) = Top
    <2> DEFINE f == [j \in 1 .. Top |-> <<key[stack[j]], dst[stack[j]]>>]
    <2>1. f \in [1 .. Top -> Pairs(Top)] /\ \A t \in Pairs(Top) : \E j \in 1 .. Top : f[j] = t
        BY DEF Pairs
    <2>2. \A i, j \in 1 .. Top : f[i] = f[j] => i = j
        BY DEF IInv, Distinct
    <2>3. Top \in Nat
        BY StackType
    <2> HIDE DEF f
    <2> QED BY <2>1, <2>2, <2>3, ListCardinality
<1>6. Dictionary!Computes(k) = {}
    BY <1>2, AbsentComputesNothing
<1>7. Pairs(Len(stack))' = Pairs(Len(stack)) /\ Saved' = Saved /\ Len(marks') = Len(marks)
    BY <1>1 DEF Pairs, Saved
<1>8. Cardinality(Pairs(Len(stack))) = TableSize
    BY <1>4, <1>5 DEF Top
<1>9. answer' = NoName /\ UNCHANGED <<Pairs(Len(stack)), Len(marks), [i \in 1 .. Len(marks) |-> Pairs(marks[i])]>>
    BY <1>1, <1>7 DEF Saved
<1>10. Dictionary!Cardinality(Pairs(Len(stack))) = TableSize
    BY <1>8 DEF Cardinality, Dictionary!Cardinality
<1> QED BY <1>6, <1>9, <1>10 DEF Dictionary!Decline

(* ir_pass_manager.c:713-771.  The table is a dictionary that, on leaving  *)
(* a scope, knows what it knew when the scope was entered; it declines to  *)
(* remember only when every slot is taken.                                 *)
THEOREM TableRefinesDictionary == Spec => ImplementsDictionary
<1>1. Init => Dictionary!Init
    <2> SUFFICES ASSUME Init PROVE Dictionary!Init
        OBVIOUS
    <2>1. Len(stack) = 0 /\ Len(marks) = 0 /\ answer = NoName
        BY DEF Init
    <2>2. 1 .. Len(stack) = {} /\ 1 .. Len(marks) = {}
        BY <2>1
    <2>3. Pairs(Len(stack)) = {}
        BY <2>2 DEF Pairs
    <2>4. Saved = [i \in {} |-> {}]
        BY <2>2 DEF Saved
    <2> QED BY <2>1, <2>3, <2>4 DEF Dictionary!Init, Saved
<1>2. IInv /\ [Next]_vars => [Dictionary!Next]_(Dictionary!vars)
    <2> SUFFICES ASSUME IInv, [Next]_vars PROVE [Dictionary!Next]_(Dictionary!vars)
        OBVIOUS
    <2>1. CASE Push
        BY <2>1, PushRefines DEF Dictionary!Next
    <2>2. CASE Pop
        BY <2>2, PopRefines DEF Dictionary!Next
    <2>3. CASE \E k \in Keys : Hit(k)
        BY <2>3, HitRefines DEF Dictionary!Next
    <2>4. CASE \E k \in Keys : TableFull(k)
        BY <2>4, FullRefines DEF Dictionary!Next
    <2>5. CASE \E k \in Keys : \E n \in Names : Insert(k, n)
        BY <2>5, InsertRefines DEF Dictionary!Next
    <2>6. CASE UNCHANGED vars
        <3>1. UNCHANGED <<key, dst, stack, marks, answer>>
            BY <2>6 DEF vars
        <3>2. Pairs(Len(stack))' = Pairs(Len(stack)) /\ Saved' = Saved
              /\ Len(marks)' = Len(marks) /\ answer' = answer
            BY <3>1 DEF Pairs, Saved
        <3> QED BY <3>2 DEF Dictionary!vars, Saved
    <2> QED BY <2>1, <2>2, <2>3, <2>4, <2>5, <2>6 DEF Next
<1> QED BY <1>1, <1>2, Invariant, PTL DEF Spec, ImplementsDictionary, Dictionary!Spec
=============================================================================
