---------------------------- MODULE ScopedTable ----------------------------
(***************************************************************************)
(* The hash table of global value numbering (src/ir_pass_manager.c): open  *)
(* addressing with linear probing in a fixed array, and a stack of the     *)
(* slots that were filled, from which leaving a scope empties the slots    *)
(* again.  Emptying a slot of an open-addressing table would break the     *)
(* probe sequences that run through it; that it does not here is because   *)
(* slots are emptied in the reverse order of filling.                      *)
(*                                                                         *)
(* A key is the five fields that gvn_keys_match compares; its hash decides *)
(* the slot where probing starts.                                          *)
(***************************************************************************)
EXTENDS Integers, Sequences, FiniteSets

CONSTANTS Keys, Names, NoName,
          TableSize,   \* GVN_TABLE_SIZE
          ScopeMax,    \* GVN_SCOPE_MAX
          MaxDepth,    \* bound: DOM_MAX_BLOCKS, the blocks on the way down
          Home         \* key -> the slot of its hash

Slots == 0 .. (TableSize - 1)

ASSUME SizesAssumption ==
    TableSize \in Nat \ {0} /\ ScopeMax \in Nat /\ MaxDepth \in Nat

\* ir_pass_manager.c:554 and 702: the stack has room for every slot.
ASSUME ScopeHoldsTable == TableSize <= ScopeMax

ASSUME HomeAssumption == Home \in [Keys -> Slots]
ASSUME NoNameAssumption == NoName \notin Names

VARIABLES
    occupied,   \* the slots whose occupied flag is set
    key, dst,   \* what the slots hold, or held before they were emptied
    stack,      \* s_gvn_scope_stack below s_gvn_scope_top
    marks,      \* s_gvn_scope_marks of the open blocks, outermost first
    answer      \* what the last lookup returned

vars == <<occupied, key, dst, stack, marks, answer>>

\* Mutant: probing that does not wrap around.
ProbeToEnd(k, i) ==
    LET s == Home[k] + i IN s

Probe(k, i) ==
    LET s == Home[k] + i IN IF s < TableSize THEN s ELSE s - TableSize

Matches(k, s) == s \in occupied /\ key[s] = k

\* Mutant: probing that does not stop at an empty slot.
PassesOverEmpty(k, i) == \A j \in 0 .. (i - 1) : ~Matches(k, Probe(k, j))

\* The search for k gets as far as probe number i.
Passes(k, i) == \A j \in 0 .. (i - 1) : Probe(k, j) \in occupied /\ ~Matches(k, Probe(k, j))

Push ==
    /\ Len(marks) < MaxDepth
    /\ marks' = Append(marks, Len(stack))
    /\ UNCHANGED <<occupied, key, dst, stack, answer>>

Hit(k) ==
    /\ marks # << >>
    /\ \E i \in Slots :
          /\ Passes(k, i)
          /\ Matches(k, Probe(k, i))
          /\ answer' = dst[Probe(k, i)]
    /\ UNCHANGED <<occupied, key, dst, stack, marks>>

Insert(k, n) ==
    /\ marks # << >>
    /\ \E i \in Slots :
          /\ Passes(k, i)
          /\ Probe(k, i) \notin occupied
          /\ occupied' = occupied \cup {Probe(k, i)}
          /\ key' = [key EXCEPT ![Probe(k, i)] = k]
          /\ dst' = [dst EXCEPT ![Probe(k, i)] = n]
          /\ stack' = IF Len(stack) < ScopeMax THEN Append(stack, Probe(k, i)) ELSE stack
    /\ answer' = NoName
    /\ UNCHANGED marks

TableFull(k) ==
    /\ marks # << >>
    /\ Passes(k, TableSize)
    /\ answer' = NoName
    /\ UNCHANGED <<occupied, key, dst, stack, marks>>

\* Mutant: a scope that empties the oldest slots instead of the newest.
PopOldest ==
    /\ marks # << >>
    /\ LET mark == marks[Len(marks)] IN
          /\ occupied' = occupied \ {stack[j] : j \in 1 .. (Len(stack) - mark)}
          /\ stack' = SubSeq(stack, Len(stack) - mark + 1, Len(stack))
    /\ marks' = SubSeq(marks, 1, Len(marks) - 1)
    /\ UNCHANGED <<key, dst, answer>>

Pop ==
    /\ marks # << >>
    /\ LET mark == marks[Len(marks)] IN
          /\ occupied' = occupied \ {stack[j] : j \in (mark + 1) .. Len(stack)}
          /\ stack' = SubSeq(stack, 1, mark)
    /\ marks' = SubSeq(marks, 1, Len(marks) - 1)
    /\ UNCHANGED <<key, dst, answer>>

\* gvn_clear; the fields of the slots are left over from another function.
Init ==
    /\ occupied = {}
    /\ key \in [Slots -> Keys]
    /\ dst \in [Slots -> Names]
    /\ stack = << >>
    /\ marks = << >>
    /\ answer = NoName

Next ==
    \/ Push
    \/ Pop
    \/ \E k \in Keys : Hit(k) \/ TableFull(k) \/ \E n \in Names : Insert(k, n)

Spec == Init /\ [][Next]_vars

-----------------------------------------------------------------------------
TypeOK ==
    /\ occupied \subseteq Slots
    /\ key \in [Slots -> Keys]
    /\ dst \in [Slots -> Names]
    /\ stack \in Seq(Slots)
    /\ marks \in Seq(Nat)
    /\ answer \in Names \cup {NoName}

\* ir_pass_manager.c:713-751.  Every stored expression is found by probing from
\* its home slot: no empty slot and no slot with the same key comes before it.
EverythingFindable ==
    \A s \in occupied : \E i \in Slots : Probe(key[s], i) = s /\ Passes(key[s], i)

\* ir_pass_manager.c:734-741.  The "scope stack overflow" branch is never
\* taken: every occupied slot is on the stack, once.
RollbackComplete ==
    /\ occupied = {stack[j] : j \in 1 .. Len(stack)}
    /\ Cardinality(occupied) = Len(stack)

\* The dictionary that the table stands for: known after the first m insertions.
Pairs(m) == {<<key[stack[j]], dst[stack[j]]>> : j \in 1 .. m}

Dictionary == INSTANCE ScopedDictionary WITH
    known <- Pairs(Len(stack)),
    depth <- Len(marks),
    saved <- [i \in 1 .. Len(marks) |-> Pairs(marks[i])],
    Capacity <- TableSize

\* ir_pass_manager.c:713-771.  The table with rollback behaves like a dictionary
\* that restores what it knew.
ImplementsDictionary == Dictionary!Spec
=============================================================================
