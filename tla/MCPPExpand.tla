----------------------------- MODULE MCPPExpand -----------------------------
(***************************************************************************)
(* Programs for PPExpand, and the reference they are compared with: the    *)
(* expansion algorithm of the C standard with hide sets on tokens.  The    *)
(* reference joins the operands of ## by dropping it; the programs paste   *)
(* names that are not macros, before and after pasting.                    *)
(***************************************************************************)
EXTENDS PPExpand

MCNames == {"f", "g", "h", "x", "y", "a"}

Object(n, body) == [name |-> <<n>>, isFunctionLike |-> FALSE, params |-> <<>>, body |-> body]
Function(n, params, body) == [name |-> <<n>>, isFunctionLike |-> TRUE, params |-> params, body |-> body]

-----------------------------------------------------------------------------
(* The reference.  A token is an atom with the macros it is hidden from.   *)

Blank(ts) == SelectSeq(ts, LAMBDA t : t # " ")

Tokens(atoms, hidden) == [i \in DOMAIN atoms |-> [atom |-> atoms[i], hide |-> hidden]]
Hide(ts, hidden) == [i \in DOMAIN ts |-> [ts[i] EXCEPT !.hide = @ \cup hidden]]

Defined(ms, t) == {m \in DOMAIN ms : ms[m].name = <<t.atom>>} \ t.hide

Depths(ts) ==
  [i \in DOMAIN ts |->
     Cardinality({j \in 1 .. i : ts[j].atom = "("}) - Cardinality({j \in 1 .. i : ts[j].atom = ")"})]

(* Position of the parenthesis that closes the one at ts[1]; 0 if none. *)
Closing(ts) ==
  LET d == Depths(ts) IN Min({i \in DOMAIN ts : d[i] = 0} \cup {Len(ts) + 1})

(* The arguments between ts[1] and its closing parenthesis. *)
Arguments(ts) ==
  LET d == Depths(ts)
      commas == {i \in 2 .. Closing(ts) - 1 : ts[i].atom = "," /\ d[i] = 1}
      ends == SetToSortSeq({1, Closing(ts)} \cup commas, <)
  IN  [k \in 1 .. Len(ends) - 1 |-> SubSeq(ts, ends[k] + 1, ends[k + 1] - 1)]

RECURSIVE Expand(_, _)
Expand(ms, ts) ==
  IF ts = <<>> THEN <<>> ELSE
  LET t == Head(ts)
      rest == Tail(ts)
      found == Defined(ms, t)
      m == CHOOSE i \in found : TRUE
      isCall == rest # <<>> /\ Head(rest).atom = "(" /\ Closing(rest) <= Len(rest)
      args == Arguments(rest)
      expanded == [k \in DOMAIN args |-> Expand(ms, args[k])]
      replace(atom) ==
        IF \E k \in DOMAIN ms[m].params : ms[m].params[k] = atom /\ k <= Len(args)
        THEN expanded[CHOOSE k \in DOMAIN ms[m].params : ms[m].params[k] = atom]
        ELSE Tokens(IF atom = "##" THEN <<>> ELSE <<atom>>, {})
      result == FlattenSeq([k \in DOMAIN ms[m].body |-> replace(ms[m].body[k])])
  IN  CASE found = {} -> <<t>> \o Expand(ms, rest)
        [] found # {} /\ ~ms[m].isFunctionLike ->
             Expand(ms, Hide(Tokens(ms[m].body, {}), t.hide \cup {m}) \o rest)
        [] found # {} /\ ms[m].isFunctionLike /\ isCall ->
             Expand(ms, Hide(result, (t.hide \cap rest[Closing(rest)].hide) \cup {m})
                          \o SubSeq(rest, Closing(rest) + 1, Len(rest)))
        [] OTHER -> <<t>> \o Expand(ms, rest)

Atoms(ts) == [i \in DOMAIN ts |-> ts[i].atom]

(* Every parenthesis of the text is closed.                                *)
Balanced(text) ==
  LET d(i) == Cardinality({j \in 1 .. i : text[j] = "("}) - Cardinality({j \in 1 .. i : text[j] = ")"})
  IN  d(Len(text)) = 0 /\ \A i \in DOMAIN text : d(i) >= 0

(* The output is what the C algorithm gives for the whole text, up to      *)
(* white space, if no call is left open.  frames[1] still holds the text.  *)
OutputIsStandard ==
  mode = "done" /\ Balanced(frames[1].src) =>
    Blank(out) = Blank(Atoms(Expand(macros, Tokens(Blank(frames[1].src), {}))))

-----------------------------------------------------------------------------
(* Programs that keep to what the scanner supports: identifiers are        *)
(* separated, in the text and where a call ends, and the name of a         *)
(* function-like macro ends neither a replacement text nor an argument.    *)

Separated(text) ==
  \A i \in 1 .. Len(text) - 1 :
    /\ text[i + 1] \in MCNames => text[i] \notin MCNames \cup {")"}
    /\ text[i] = "f" => text[i + 1] \notin {")", ","}
    /\ text[i] = "f" /\ i + 2 <= Len(text) => ~(text[i + 1] = " " /\ text[i + 2] \in {")", ","})

Texts(atoms, n) == {t \in BoundedSeq(atoms, n) : Separated(t) /\ Balanced(t)}

CallTables ==
  { << Object("g", gb), Function("f", <<"x">>, fb) >> :
      gb \in { <<"1">>, <<"f", "(", "1", ")">>, <<"(", "a", ")">>, <<>> },
      fb \in { <<"x">>, <<"[", "x", " ", "x", "]">>, <<"1", "+", "g", "+">>, <<"(", "f", "(", "x", ")", ")">> } }

CallPrograms ==
  {[macros |-> ms, text |-> t] : ms \in CallTables, t \in Texts({"f", "g", "(", ")", " "}, 5)}

(* Two parameters, an expansion whose parenthesis is in the text behind,   *)
(* a pasted name, and nested calls.                                        *)
PairTable ==
  << Object("g", <<"f", "(">>), Function("f", <<"x", "y">>, <<"y", "-", "x">>),
     Function("h", <<"x">>, <<"(", "x", "##", "a", ")">>) >>

PairPrograms ==
  {[macros |-> PairTable, text |-> t] :
     t \in { <<"f", "(", "1", ",", "f", "(", "2", ",", "3", ")", ")">>,
             <<"f", "(", "(", "1", ",", "2", ")", ",", "a", ")">>,
             <<"g", "1", ",", "2", ")">>,
             <<"f", "(", "h", "(", "y", ")", ",", "h", "(", "1", ")", ")">> } }

ObjectTables ==
  { << Object("g", gb), Object("h", hb) >> :
      gb \in { <<"(", "g", ")">>, <<"(", "h", ")">>, <<"h", "+", "g", "+">>, <<>> },
      hb \in { <<"[", "g", "]">>, <<"h", "+">>, <<"1">>, <<"g", " ", "h", "+">> } }

ObjectPrograms ==
  {[macros |-> ms, text |-> t] : ms \in ObjectTables,
     t \in {t \in BoundedSeq({"g", "h", "+"}, 4) : Separated(t)}}

(* Calls that the text does not close, alone and in an argument.           *)
OpenPrograms ==
  {[macros |-> ms, text |-> t] : ms \in CallTables,
     t \in {t \in BoundedSeq({"f", "g", "(", ")"}, 4) : Separated(t) /\ ~Balanced(t)}}

(* Five names inside each other, as many frames as the runs have, and in   *)
(* the innermost one more: an object, a call without and with an argument. *)
DeepTable(last, inmost) ==
  << Object("g", <<"(", "h", ")">>), Object("h", <<"[", "x", "]">>),
     Object("x", <<"<", "y", ">">>), Object("y", <<"-", "a", "-">>),
     Object("a", inmost), last >>

DeepPrograms ==
  {[macros |-> ms, text |-> <<"h", "+", "g", "+">>] :
     ms \in { DeepTable(Object("f", <<"1">>), <<"+", "f", "+">>),
              DeepTable(Function("f", <<>>, <<"1">>), <<"+", "f", "(", ")", "+">>),
              DeepTable(Function("f", <<"x">>, <<"x">>), <<"+", "f", "(", "1", ")", "+">>) }}

SupportedPrograms ==
  CallPrograms \cup PairPrograms \cup ObjectPrograms \cup OpenPrograms \cup DeepPrograms
=============================================================================
