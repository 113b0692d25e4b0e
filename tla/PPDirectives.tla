---------------------------- MODULE PPDirectives ----------------------------
(***************************************************************************)
(* The lines of a source file and of the headers it includes: the macro    *)
(* table of PPState, #define, #undef, #include and the conditional lines   *)
(* of PPConditional, whose conditions ask the table (part0_pp.c).          *)
(*                                                                         *)
(* The environment chooses the lines, in every file.  pp_process_include   *)
(* gives a header a PPState of its own: a copy of the table and fresh      *)
(* conditional groups.  The state of the file being read is in macros and  *)
(* the variables of PPConditional; includers holds the states of the files *)
(* that wait.  A controlling expression is one name: the number its body   *)
(* stands for, or 0.  A file that is not found only changes a counter that *)
(* nobody reads, so it is not a step.                                      *)
(***************************************************************************)
EXTENDS PPConditional

CONSTANTS
  Names, Bodies, NoBody,
  MaxMacros,   \* PP_MAX_MACROS
  MaxIncludes  \* bound of the model: headers open at a time

ASSUME BodiesAssumption == Bodies \cup {0} \subseteq Values /\ NoBody \notin Bodies
ASSUME LimitsAssumption == MaxMacros \in Nat /\ MaxIncludes \in Nat

VARIABLES
  macros,     \* the table of the file being read: [name, body, active]
  includers,  \* the states of the waiting files, outermost first
  answer,     \* history: what the last look-up of a name gave
  crashed     \* a null pointer has been used

groups == vars
tableVars == <<macros, includers, answer, crashed>>

Entry == [name : Names, body : Bodies, active : BOOLEAN]

(* pp_find_macro: the last active entry; 0 if there is none. *)
Entries(n) == {i \in DOMAIN macros : macros[i].active /\ macros[i].name = n}

(* Mutant: the search goes up the table. *)
FindFirst(n) ==
  IF Entries(n) = {} THEN 0 ELSE CHOOSE i \in Entries(n) : \A j \in Entries(n) : i <= j

FindMacro(n) ==
  IF Entries(n) = {} THEN 0 ELSE CHOOSE i \in Entries(n) : \A j \in Entries(n) : j <= i

BodyOf(n) == IF FindMacro(n) = 0 THEN NoBody ELSE macros[FindMacro(n)].body

(* A name in a condition: its replacement text is evaluated, or it is 0.   *)
ValueOf(n) == IF FindMacro(n) = 0 THEN 0 ELSE macros[FindMacro(n)].body

-----------------------------------------------------------------------------
(* Mutant: one entry too many. *)
DefineAtLimit(n, b) ==
  /\ IsActive /\ Len(macros) <= MaxMacros
  /\ macros' = Append(macros, [name |-> n, body |-> b, active |-> TRUE])
  /\ UNCHANGED <<groups, includers, answer, crashed>>

(* #define never looks for an older entry of the name. *)
Define(n, b) ==
  /\ IsActive /\ Len(macros) < MaxMacros
  /\ macros' = Append(macros, [name |-> n, body |-> b, active |-> TRUE])
  /\ UNCHANGED <<groups, includers, answer, crashed>>

(* pp_add_macro returns 0 and #define uses it. *)
DefineInFullTable ==
  /\ IsActive /\ Len(macros) = MaxMacros
  /\ crashed' = TRUE
  /\ UNCHANGED <<groups, macros, includers, answer>>

(* Mutant: the entry is taken out of the table. *)
UndefAndClose(n) ==
  /\ IsActive
  /\ macros' = SubSeq(macros, 1, FindMacro(n) - 1) \o
               SubSeq(macros, FindMacro(n) + 1, Len(macros))
  /\ UNCHANGED <<groups, includers, answer, crashed>>

Undef(n) ==
  /\ IsActive
  /\ macros' = [i \in DOMAIN macros |->
                  [macros[i] EXCEPT !.active = @ /\ i # FindMacro(n)]]
  /\ UNCHANGED <<groups, includers, answer, crashed>>

-----------------------------------------------------------------------------
(* #ifdef asks for its name even where it is skipped. *)
IfdefLine(n) ==
  /\ Ifdef(FindMacro(n) # 0) \/ Ifndef(FindMacro(n) # 0)
  /\ answer' = BodyOf(n)
  /\ UNCHANGED <<macros, includers, crashed>>

IfLine(n) ==
  /\ If(ValueOf(n))
  /\ answer' = IF IsActive THEN BodyOf(n) ELSE answer
  /\ UNCHANGED <<macros, includers, crashed>>

ElifLine(n) ==
  /\ Elif(ValueOf(n))
  /\ answer' = IF Unsatisfied /\ ParentActive THEN BodyOf(n) ELSE answer
  /\ UNCHANGED <<macros, includers, crashed>>

ElseOrEndifLine == (Else \/ Endif) /\ UNCHANGED tableVars

-----------------------------------------------------------------------------
(* pp_process_include: the header starts with a copy of the table. *)
Include ==
  /\ IsActive /\ Len(includers) < MaxIncludes
  /\ includers' = Append(includers,
       [macros |-> macros, cond_stack |-> cond_stack, cond_satisfied |-> cond_satisfied,
        cond_else_seen |-> cond_else_seen, cond_depth |-> cond_depth, branches |-> branches])
  /\ cond_stack' = [i \in Levels |-> i = 0]
  /\ cond_satisfied' = [i \in Levels |-> FALSE]
  /\ cond_else_seen' = [i \in Levels |-> FALSE]
  /\ cond_depth' = 0
  /\ branches' = [i \in Levels |-> <<>>]
  /\ UNCHANGED <<macros, answer, crashed>>

(* The end of a header, wherever its groups stand: what it added is copied *)
(* behind the includer's own entries, as far as there is room, and all     *)
(* active flags are taken over.                                            *)
Suspended == includers[Len(includers)]
Own == Suspended.macros

Copied == IF Len(macros) < MaxMacros THEN Len(macros) ELSE MaxMacros

(* Mutants: the flags or the new entries are not copied. *)
CopiedBackNoFlags ==
  [i \in 1 .. Copied |-> IF i <= Len(Own) THEN Own[i] ELSE macros[i]]

CopiedBackOwn ==
  [i \in 1 .. Len(Own) |-> [Own[i] EXCEPT !.active = macros[i].active]]

CopiedBack ==
  [i \in 1 .. Copied |->
     [(IF i <= Len(Own) THEN Own[i] ELSE macros[i]) EXCEPT !.active = macros[i].active]]

EndOfHeader ==
  /\ includers # <<>>
  /\ macros' = CopiedBack
  /\ cond_stack' = Suspended.cond_stack
  /\ cond_satisfied' = Suspended.cond_satisfied
  /\ cond_else_seen' = Suspended.cond_else_seen
  /\ cond_depth' = Suspended.cond_depth
  /\ branches' = Suspended.branches
  /\ includers' = SubSeq(includers, 1, Len(includers) - 1)
  /\ UNCHANGED <<answer, crashed>>

-----------------------------------------------------------------------------
FileInit ==
  /\ Init
  /\ macros = <<>>
  /\ includers = <<>>
  /\ answer = NoBody
  /\ crashed = FALSE

TableLine == \E n \in Names : Undef(n) \/ \E b \in Bodies : Define(n, b)
ConditionalLine == ElseOrEndifLine \/ \E n \in Names : IfdefLine(n) \/ IfLine(n) \/ ElifLine(n)

ReadLine ==
  \/ TableLine \/ DefineInFullTable
  \/ ConditionalLine
  \/ Include \/ EndOfHeader

FileNext ==
  \/ ~crashed /\ ReadLine
  \/ crashed /\ UNCHANGED <<groups, tableVars>>

FileSpec == FileInit /\ [][FileNext]_<<groups, tableVars>>

-----------------------------------------------------------------------------
(* Types and limits.  The table never outgrows its array, and the null     *)
(* result of pp_add_macro is used by no #define but one that finds the     *)
(* array full: that a long enough file gets there is what the code does.   *)
TableTypeOK ==
  /\ macros \in Seq(Entry)
  /\ Len(macros) <= MaxMacros
  /\ answer \in Bodies \cup {NoBody}
  /\ crashed \in BOOLEAN
  /\ crashed => Len(macros) = MaxMacros
  /\ \A k \in DOMAIN includers : includers[k].macros \in Seq(Entry)

(* part0_pp.c:598-617.  The tables of the files that wait and the one of   *)
(* the file being read stay the same table but for its end and its flags:  *)
(* index i means the same entry in all, which the copying back relies on.  *)
TablesAgree ==
  \A k \in DOMAIN includers :
    /\ Len(includers[k].macros) <= Len(macros)
    /\ \A i \in DOMAIN includers[k].macros :
         /\ includers[k].macros[i].name = macros[i].name
         /\ includers[k].macros[i].body = macros[i].body

(* part0_pp.c:324-347, 544-617.  To the lines of all files together the    *)
(* copied tables are one history of definitions: a header defines and      *)
(* undefines for its includer as if its lines stood in place of the        *)
(* #include, and the includer's later lines, and those of the includer's   *)
(* includer, are told so.                                                  *)
Definition(i) == [name |-> macros[i].name, body |-> macros[i].body, at |-> i]
InForce == {Definition(i) : i \in {j \in DOMAIN macros : macros[j].active}}

Definitions == INSTANCE PPDefinitions WITH made <- Len(macros), inForce <- InForce

ImplementsDefinitions == Definitions!Spec
=============================================================================
