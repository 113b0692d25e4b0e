-------------------------- MODULE ScopedDictionary --------------------------
(***************************************************************************)
(* What global value numbering needs from its table (src/                  *)
(* ir_pass_manager.c, gvn_scope_push, gvn_lookup_or_insert_scoped and      *)
(* gvn_scope_pop): a dictionary that answers with the name that computes   *)
(* an expression, and that on leaving a scope knows again exactly what it  *)
(* knew when the scope was entered.  Only a full dictionary may decline to *)
(* remember.                                                               *)
(***************************************************************************)
EXTENDS Integers, FiniteSets

CONSTANTS Keys, Names, NoName, Capacity

VARIABLES known,   \* the <<expression, name>> pairs that can be found
          depth,   \* the number of open scopes
          saved,   \* what was known when each open scope was entered
          answer   \* what the last lookup returned

vars == <<known, depth, saved, answer>>

Computes(k) == {n \in Names : <<k, n>> \in known}

Init ==
    /\ known = {}
    /\ depth = 0
    /\ saved = [i \in {} |-> {}]
    /\ answer = NoName

Enter ==
    /\ depth' = depth + 1
    /\ saved' = [i \in 1 .. (depth + 1) |-> IF i <= depth THEN saved[i] ELSE known]
    /\ UNCHANGED <<known, answer>>

Find(k) ==
    /\ answer' \in Computes(k)
    /\ UNCHANGED <<known, depth, saved>>

Remember(k, n) ==
    /\ Computes(k) = {}
    /\ known' = known \cup {<<k, n>>}
    /\ answer' = NoName
    /\ UNCHANGED <<depth, saved>>

Decline(k) ==
    /\ Computes(k) = {}
    /\ Cardinality(known) = Capacity
    /\ answer' = NoName
    /\ UNCHANGED <<known, depth, saved>>

Leave ==
    /\ depth > 0
    /\ known' = saved[depth]
    /\ depth' = depth - 1
    /\ saved' = [i \in 1 .. (depth - 1) |-> saved[i]]
    /\ UNCHANGED answer

Next ==
    \/ Enter
    \/ Leave
    \/ \E k \in Keys : Find(k) \/ Decline(k) \/ \E n \in Names : Remember(k, n)

Spec == Init /\ [][Next]_vars
=============================================================================
