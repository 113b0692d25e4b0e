------------------------------ MODULE PPExpand ------------------------------
(***************************************************************************)
(* Macro expansion in the preprocessor (part0_pp.c): the stack of input    *)
(* frames, the hide flags of the macros, and the C call stack of           *)
(* pp_parse_target_depth / pp_expand_ident, one step per character read.   *)
(*                                                                         *)
(* Text is a sequence of atoms.  An atom of Names is a run of identifier   *)
(* characters; the identifier pp_parse_ident reads is a sequence of them,  *)
(* because it goes on reading in the frame below when a frame runs out.    *)
(* " " is a space or tab; every other atom is a character or a literal     *)
(* that is copied through.  Left out: strings and comments, the operator # *)
(* and the names "defined" and "__attribute__".  Directives have modules   *)
(* of their own, so the macro table only changes in its active flags here. *)
(***************************************************************************)
EXTENDS Integers, Sequences, SequencesExt, FiniteSetsExt

CONSTANTS
  Names,      \* identifier atoms
  Programs,   \* set of [macros, text]: the inputs
  MaxFrames,  \* entries of input_stack: 32 in the code
  MaxOut      \* bound of the model: atoms of output before a run is cut

IsText(s) == s \in Seq({s[i] : i \in DOMAIN s})

(* The macro table is a list.  A macro: is it function-like, its           *)
(* parameters, which are identifiers, its replacement text.  No atom of it *)
(* is "", which stands for the end of the input.                           *)
ASSUME ProgramsAssumption ==
  \A p \in Programs :
     /\ IsText(p.macros) /\ IsText(p.text)
     /\ \A i \in DOMAIN p.macros :
          /\ DOMAIN p.macros[i] = {"name", "isFunctionLike", "params", "body"}
          /\ IsText(p.macros[i].params) /\ IsText(p.macros[i].body)
          /\ \A j \in DOMAIN p.macros[i].params : p.macros[i].params[j] \in Names
          /\ \A j \in DOMAIN p.macros[i].body : p.macros[i].body[j] # ""

(* The characters of identifiers are none of those the scanner looks for. *)
ASSUME NamesAssumption == Names \cap {"", " ", "(", ")", ",", "##"} = {}

ASSUME BoundsAssumption == MaxFrames \in Nat \ {0} /\ MaxOut \in Nat

VARIABLES
  macros,   \* the macro table of the program (constant during a run)
  active,   \* the active flag of every macro
  frames,   \* current input and the saved ones below it: [src, pos, macro]
  barrier,  \* pop_barrier
  out,      \* the current output buffer
  mode,     \* where in the C code the next character is read
  ident,    \* pp_parse_ident: the identifier read so far
  origin,   \* history: macros being expanded where ident began
  call,     \* the function-like call being read: [macro, savedPos, frame, level,
            \* args]; frame is history: how many frames there were at its name
  calls     \* suspended calls whose arguments are being expanded

vars == <<macros, active, frames, barrier, out, mode, ident, origin, call, calls>>

None == 0
NoCall == [macro |-> None, savedPos |-> 0, frame |-> 0, level |-> 0, args |-> <<>>]

Exhausted(f) == f.pos > Len(f.src)

(* pp_peek first pops the frames that have run out, down to the barrier,   *)
(* and a popped frame's macro becomes active again.                        *)
KeptFrames ==
  Max({barrier + 1} \cup {i \in barrier + 1 .. Len(frames) : ~Exhausted(frames[i])})

Peeked == SubSeq(frames, 1, KeptFrames)

PoppedMacros == {frames[i].macro : i \in KeptFrames + 1 .. Len(frames)}

(* Mutants: one flag forgotten, and one popped frame that clears them all. *)
ReactivatedNone == active
ReactivatedAll == [m \in DOMAIN active |-> active[m] \/ PoppedMacros \ {None} # {}]

Reactivated == [m \in DOMAIN active |-> active[m] \/ m \in PoppedMacros]

(* The character pp_peek returns; "" stands for the 0 of the end of input. *)
EndOfInput == ""
Char == LET f == Last(Peeked) IN IF Exhausted(f) THEN EndOfInput ELSE f.src[f.pos]

Advanced == [Peeked EXCEPT ![Len(Peeked)].pos = @ + 1]

(* pp_peek alone, and pp_next: a peek and a step of the current frame.     *)
Peek == frames' = Peeked /\ active' = Reactivated
Read == frames' = Advanced /\ active' = Reactivated

(* pp_find_macro: the last active entry of that name; None if there is none *)
FindMacro(flags, name) ==
  Max({None} \cup {m \in DOMAIN macros : flags[m] /\ macros[m].name = name})

(* Macros whose replacement text is being read at the current position.    *)
BeingExpanded(stack) == {stack[i].macro : i \in DOMAIN stack} \ {None}

(* The frame below which pp_parse_target_depth returns: the one the        *)
(* argument was pushed on.  The outermost call never returns that way.     *)
TargetFramesOneLess == IF calls = <<>> THEN 1 ELSE Last(calls).depth

TargetFrames == IF calls = <<>> THEN 1 ELSE Last(calls).depth + 1

Init ==
  /\ \E p \in Programs :
       /\ macros = p.macros
       /\ active = [m \in DOMAIN p.macros |-> TRUE]
       /\ frames = <<[src |-> p.text, pos |-> 1, macro |-> None]>>
  /\ barrier = 0
  /\ out = <<>>
  /\ mode = "scan"
  /\ ident = <<>>
  /\ origin = {}
  /\ call = NoCall
  /\ calls = <<>>

-----------------------------------------------------------------------------
(* pp_parse_target_depth *)

InTarget == Len(Peeked) >= TargetFrames /\ Char # EndOfInput

(* Anything that is not an identifier is copied to the output. *)
ScanOther ==
  /\ mode = "scan" /\ InTarget /\ Char \notin Names
  /\ Len(out) < MaxOut
  /\ Read
  /\ out' = Append(out, Char)
  /\ UNCHANGED <<macros, barrier, mode, ident, origin, call, calls>>

ScanIdent ==
  /\ mode = "scan" /\ InTarget /\ Char \in Names
  /\ Peek
  /\ mode' = "ident"
  /\ ident' = <<>>
  /\ origin' = BeingExpanded(Peeked)
  /\ UNCHANGED <<macros, barrier, out, call, calls>>

(* The outermost loop ends with the input. *)
Finish ==
  /\ mode = "scan" /\ calls = <<>> /\ Char = EndOfInput
  /\ Peek
  /\ mode' = "done"
  /\ UNCHANGED <<macros, barrier, out, ident, origin, call, calls>>

(* pp_parse_ident: it peeks after every character, so a frame that ends in *)
(* an identifier is popped before the identifier is looked up.             *)
ReadIdent ==
  /\ mode = "ident" /\ Char \in Names
  /\ Read
  /\ ident' = Append(ident, Char)
  /\ UNCHANGED <<macros, barrier, out, mode, origin, call, calls>>

-----------------------------------------------------------------------------
(* pp_expand_ident *)

IdentRead == mode = "ident" /\ Char \notin Names

Found == FindMacro(Reactivated, ident)

EmitIdent ==
  /\ IdentRead /\ Found = None
  /\ Len(out) + Len(ident) <= MaxOut
  /\ Peek
  /\ out' = out \o ident
  /\ mode' = "scan"
  /\ UNCHANGED <<macros, barrier, ident, origin, call, calls>>

(* pp_push_input; the code exits when the stack of frames is full. *)
CanPushOneMore(stack) == Len(stack) <= MaxFrames + 1

CanPush(stack) == Len(stack) <= MaxFrames

PushInput(stack, text, m) == frames' = Append(stack, [src |-> text, pos |-> 1, macro |-> m])

TooDeep ==
  /\ mode' = "abort"
  /\ UNCHANGED <<macros, active, frames, barrier, out, ident, origin, call, calls>>

ExpandObject ==
  /\ IdentRead /\ Found # None /\ ~macros[Found].isFunctionLike
  /\ \/ /\ CanPush(Peeked)
        /\ active' = [Reactivated EXCEPT ![Found] = FALSE]
        /\ PushInput(Peeked, macros[Found].body, Found)
        /\ mode' = "scan"
        /\ UNCHANGED <<macros, barrier, out, ident, origin, call, calls>>
     \/ ~CanPush(Peeked) /\ TooDeep

(* A function-like name: remember the position and look for "(". *)
SavedBehindNext == Last(Peeked).pos + 1
SavedBeforeName == Last(Peeked).pos - Len(ident)

SavedPosition == Last(Peeked).pos

BeginCall ==
  /\ IdentRead /\ Found # None /\ macros[Found].isFunctionLike
  /\ Peek
  /\ mode' = "paren"
  /\ call' = [NoCall EXCEPT !.macro = Found, !.savedPos = SavedPosition,
                            !.frame = Len(Peeked)]
  /\ UNCHANGED <<macros, barrier, out, ident, origin, calls>>

SkipWhitespaceStuck ==
  /\ mode = "paren" /\ Char = " "
  /\ Peek
  /\ UNCHANGED <<macros, barrier, out, mode, ident, origin, call, calls>>

SkipWhitespace ==
  /\ mode = "paren" /\ Char = " "
  /\ Read
  /\ UNCHANGED <<macros, barrier, out, mode, ident, origin, call, calls>>

(* Not an invocation: the saved position goes to the frame that is current *)
(* now, whichever frame that is.                                           *)
RestoredPosition == [Peeked EXCEPT ![Len(Peeked)].pos = call.savedPos]

NotAnInvocation ==
  /\ mode = "paren" /\ Char \notin {" ", "("}
  /\ Len(out) + Len(ident) <= MaxOut
  /\ frames' = RestoredPosition /\ active' = Reactivated
  /\ out' = out \o ident
  /\ mode' = "scan"
  /\ call' = NoCall
  /\ UNCHANGED <<macros, barrier, ident, origin, calls>>

OpenParen ==
  /\ mode = "paren" /\ Char = "("
  /\ Read
  /\ mode' = "args"
  /\ call' = [call EXCEPT !.args = << <<>> >>]
  /\ UNCHANGED <<macros, barrier, out, ident, origin, calls>>

(* One character of the arguments. *)
ReadArg ==
  /\ mode = "args" /\ Char # EndOfInput
  /\ ~(Char = ")" /\ call.level = 0)
  /\ Read
  /\ call' =
       IF Char = "," /\ call.level = 0
       THEN [call EXCEPT !.args = Append(@, <<>>)]
       ELSE [call EXCEPT !.args[Len(call.args)] = Append(@, Char),
                         !.level = CASE Char = "(" -> @ + 1
                                     [] Char = ")" -> @ - 1
                                     [] OTHER -> @]
  /\ UNCHANGED <<macros, barrier, out, mode, ident, origin, calls>>

(* Leading and trailing white space of an argument is dropped. *)
Strip(arg) ==
  LET solid == {i \in DOMAIN arg : arg[i] # " "}
  IN  IF solid = {} THEN <<>> ELSE SubSeq(arg, Min(solid), Max(solid))

(* The call is complete: the arguments that count, stripped.  At the end   *)
(* of the input the argument being read does not count.                    *)
ActualArgs ==
  LET counted == IF \/ Char = EndOfInput
                    \/ Last(call.args) = <<>> /\ macros[call.macro].params = <<>>
                 THEN Front(call.args) ELSE call.args
  IN  [i \in DOMAIN counted |-> Strip(counted[i])]

EndArgs ==
  /\ mode = "args" /\ Char \in {")", EndOfInput}
  /\ Char = ")" => call.level = 0
  /\ IF Char = ")" THEN Read ELSE Peek
  /\ mode' = "expandArg"
  /\ calls' = Append(calls, [macro |-> call.macro, args |-> ActualArgs,
                             expanded |-> <<>>, depth |-> 0,
                             out |-> out, barrier |-> barrier])
  /\ call' = NoCall
  /\ UNCHANGED <<macros, barrier, out, ident, origin>>

(* Pre-expansion of the next argument: raise the barrier, redirect the     *)
(* output, push the argument and scan it.                                  *)
Pending == Last(calls)

RaisedBarrier == Len(frames) - 1

NextArg ==
  /\ mode = "expandArg" /\ Len(Pending.expanded) < Len(Pending.args)
  /\ \/ /\ CanPush(frames)
        /\ calls' = [calls EXCEPT ![Len(calls)].depth = Len(frames)]
        /\ barrier' = RaisedBarrier
        /\ out' = <<>>
        /\ PushInput(frames, Pending.args[Len(Pending.expanded) + 1], None)
        /\ mode' = "scan"
        /\ UNCHANGED <<macros, active, ident, origin, call>>
     \/ ~CanPush(frames) /\ TooDeep

(* The scan of an argument returns when the frame it was pushed on is      *)
(* current again; what is left above the barrier is drained.               *)
DrainTo == barrier + 1

FinishArgForgotten ==
  /\ mode = "scan" /\ calls # <<>> /\ ~InTarget
  /\ frames' = SubSeq(Peeked, 1, DrainTo)
  /\ out' = Pending.out
  /\ barrier' = Pending.barrier
  /\ mode' = "expandArg"
  /\ UNCHANGED <<macros, active, ident, origin, call, calls>>

FinishArg ==
  /\ mode = "scan" /\ calls # <<>> /\ ~InTarget
  /\ frames' = SubSeq(Peeked, 1, DrainTo)
  /\ active' = [m \in DOMAIN active |->
                  Reactivated[m] \/ \E i \in DrainTo + 1 .. Len(Peeked) : Peeked[i].macro = m]
  /\ calls' = [calls EXCEPT ![Len(calls)].expanded = Append(@, out)]
  /\ out' = Pending.out
  /\ barrier' = Pending.barrier
  /\ mode' = "expandArg"
  /\ UNCHANGED <<macros, ident, origin, call>>

(* Parameters that have an argument are replaced by its expansion, the     *)
(* first one of a name that is given twice; the atoms on both sides of ##  *)
(* become neighbours.  Blanks beside ##, which the code drops, are left    *)
(* out of the replacement texts.                                           *)
Parameter(params, atom) ==
  Min({Len(params) + 1} \cup {i \in DOMAIN params : params[i] = atom})

Replacement(params, expanded, atom) ==
  LET i == Parameter(params, atom)
  IN  IF i \in DOMAIN params /\ i <= Len(expanded) THEN expanded[i]
      ELSE IF atom = "##" THEN <<>> ELSE <<atom>>

SubstitutedRaw(m, expanded) ==
  FlattenSeq([i \in DOMAIN macros[m].body |->
                Replacement(macros[m].params, Pending.args, macros[m].body[i])])

Substituted(m, expanded) ==
  FlattenSeq([i \in DOMAIN macros[m].body |->
                Replacement(macros[m].params, expanded, macros[m].body[i])])

(* Hide the macro and read its replacement text. *)
Substitute ==
  /\ mode = "expandArg" /\ Len(Pending.expanded) = Len(Pending.args)
  /\ \/ /\ CanPush(frames)
        /\ active' = [active EXCEPT ![Pending.macro] = FALSE]
        /\ PushInput(frames, Substituted(Pending.macro, Pending.expanded), Pending.macro)
        /\ calls' = Front(calls)
        /\ mode' = "scan"
        /\ UNCHANGED <<macros, barrier, out, ident, origin, call>>
     \/ ~CanPush(frames) /\ TooDeep

(* The process has written its output, or exited with an error. *)
Terminated == mode \in {"done", "abort"} /\ UNCHANGED vars

Next ==
  \/ ScanOther \/ ScanIdent \/ ReadIdent \/ Finish
  \/ EmitIdent \/ ExpandObject \/ BeginCall
  \/ SkipWhitespace \/ NotAnInvocation \/ OpenParen \/ ReadArg \/ EndArgs
  \/ NextArg \/ FinishArg \/ Substitute
  \/ Terminated

Spec == Init /\ [][Next]_vars

(* The preprocessor is a sequential program: it takes steps until it ends. *)
FairSpec == Spec /\ WF_vars(Next)

-----------------------------------------------------------------------------

TypeOK ==
  /\ active \in [DOMAIN macros -> BOOLEAN]
  /\ barrier \in 0 .. Len(frames) - 1
  /\ \A i \in DOMAIN frames :
       /\ frames[i].macro \in {None} \cup DOMAIN macros
       /\ frames[i].pos \in 1 .. Len(frames[i].src) + 1
  /\ Len(frames) <= MaxFrames + 1
  /\ mode \in {"scan", "ident", "paren", "args", "expandArg", "done", "abort"}
  /\ origin \subseteq DOMAIN macros
  /\ Len(out) <= MaxOut

(* A macro is hidden exactly while its replacement text is on the stack of *)
(* frames, once: no path through peek, the nested argument scans and the   *)
(* force-drain loses or doubles a reactivation.                            *)
HiddenWhileOnStack ==
  /\ \A m \in DOMAIN macros : ~active[m] <=> m \in BeingExpanded(frames)
  /\ \A i, j \in DOMAIN frames :
       frames[i].macro = frames[j].macro /\ frames[i].macro # None => i = j

(* C11 6.10.3.4p2, the "Standard C preprocessor hide-set logic" of         *)
(* pp_expand_ident: a name that comes from a macro's own replacement text  *)
(* is not replaced by that macro again.                                    *)
OwnNameIsHidden == IdentRead /\ Found # None => Found \notin origin

(* A function-like name that is not an invocation is put out and scanning  *)
(* goes on behind it: nothing but white space is read a second time, and   *)
(* nothing is skipped.                                                     *)
ScanResumesBehindName ==
  mode = "paren" /\ Char \notin {" ", "("} =>
    LET f == Last(Peeked)
    IN  /\ call.savedPos <= f.pos
        /\ \A i \in call.savedPos .. f.pos - 1 : f.src[i] = " "

(* C11 6.10.3.1p1, "Raise barrier before pushing arg stream": an argument  *)
(* is expanded as if it were the rest of the file, so its expansion never  *)
(* reads the text behind the call.                                         *)
ArgumentStaysInside ==
  [][calls # <<>> /\ mode # "expandArg" =>
       frames'[barrier + 1] = frames[barrier + 1]]_vars

(* Events of pp_peek, which drops the frames that have run out before it   *)
(* reads a character.  The text behind a function-like name, in which "("  *)
(* is looked for, has not run out: the position that is put back belongs   *)
(* to it.                                                                  *)
RestoredInPlace ==
  mode = "paren" /\ Char \notin {" ", "("} => Len(Peeked) = call.frame

(* The texts that were being read where a name begins are still there when *)
(* it is looked up.                                                        *)
TextsRemain == origin \subseteq BeingExpanded(Peeked)

(* An argument does not run out in a name, or in the blanks behind a       *)
(* function-like name, that what follows the call would continue.          *)
NamesEndInside ==
  calls # <<>> /\ Len(Peeked) = barrier + 1 =>
    /\ mode = "ident" => Char \notin Names
    /\ mode = "paren" => Char \notin {" ", "("}

(* How many of the parentheses of a text are open behind each atom.        *)
Opens(atom) == IF atom = "(" THEN 1 ELSE IF atom = ")" THEN -1 ELSE 0

Nesting(text) ==
  LET open[i \in 0 .. Len(text)] == IF i = 0 THEN 0 ELSE open[i - 1] + Opens(text[i])
  IN  open

Matched(text) ==
  Nesting(text)[Len(text)] = 0 /\ \A i \in 0 .. Len(text) : Nesting(text)[i] >= 0

(* Every replacement text on the stack closes the parentheses it opens.    *)
TextsMatched ==
  \A i \in DOMAIN frames :
     frames[i].macro # None => Matched(macros[frames[i].macro].body)

(* Expansion ends, for every program of the run. *)
ExpansionEnds == <>(mode \in {"done", "abort"})
=============================================================================
