---------------------------- MODULE TerminalText ----------------------------
(***************************************************************************)
(* The text protocols of the terminals: markers of the working directory in  *)
(* shell output, Guacamole instructions, and the command lines recognised    *)
(* in what the user types.  Text arrives in pieces cut anywhere, and what is *)
(* made of it should not depend on where.                                    *)
(*                                                                         *)
(* A character is a string of its own.  "s" "t" is the start of a marker,    *)
(* "e" its end; "esc", "cr", "^C" and "del" are keys.  What guacd sends are   *)
(* bytes: a character is one of them, but "é" is "c3" "a9".                   *)
(***************************************************************************)
EXTENDS Integers, Sequences, FiniteSets, SequencesExt

CONSTANTS
    MaxText    \* bound: characters of a text

ASSUME TextAssumption == MaxText \in Nat

VARIABLES
    textKind,    \* "cwd", "guac", "keys": which protocol; "words": a command line
    textWhole,   \* the whole text
    textRest,    \* what has not been read
    textKept,    \* pending_output, pending, command_buffer: kept for the next piece
    textOut,     \* cleaned output, instructions, or commands
    textPaths,   \* changed working directories
    textCut      \* history: a piece ended inside the start of a marker, an escape, or a
                 \* character of several bytes

textVars == <<textKind, textWhole, textRest, textKept, textOut, textPaths, textCut>>

\* First position of c in s from i on, 0 if there is none.
Find(s, c, i) == LET at == {k \in i..Len(s) : s[k] = c} IN
                 IF at = {} THEN 0 ELSE CHOOSE k \in at : \A j \in at : k <= j
From(s, i) == SubSeq(s, i, Len(s))
----------------------------------------------------------------------------
(* Markers of the working directory. *)

StartAt(s) == LET at == {k \in 1..Len(s) - 1 : s[k] = "s" /\ s[k + 1] = "t"} IN
              IF at = {} THEN 0 ELSE CHOOSE k \in at : \A j \in at : k <= j

Blank(path) == \A k \in DOMAIN path : path[k] = " "

\* strip_cwd_markers_with_pending
RECURSIVE StripMarkers(_)
StripMarkers(s) ==
    LET start == StartAt(s)
        end == IF start = 0 THEN 0 ELSE Find(s, "e", start + 2)
    IN  IF start = 0 THEN [cleaned |-> s, paths |-> <<>>, pending |-> <<>>]
        ELSE IF end = 0
        THEN [cleaned |-> SubSeq(s, 1, start - 1), paths |-> <<>>, pending |-> From(s, start)]
        ELSE LET path == SubSeq(s, start + 2, end - 1)
                 rest == StripMarkers(From(s, end + 1))
             IN  [cleaned |-> SubSeq(s, 1, start - 1) \o rest.cleaned,
                  paths   |-> (IF Blank(path) THEN <<>> ELSE <<path>>) \o rest.paths,
                  pending |-> rest.pending]

\* filter_changed_cwd_paths: the last path known is the last of `known`.
FilterChanged(known, paths) ==
    FoldLeft(LAMBDA acc, p : IF acc # <<>> /\ Last(acc) = p THEN acc ELSE Append(acc, p),
             known, paths)
----------------------------------------------------------------------------
(* Guacamole instructions: elements with their length, "," between, ";" after. *)

Digit == [n \in 0..3 |-> <<"0", "1", "2", "3">>[n + 1]]
ToNumber(s) == IF Len(s) = 1 /\ \E n \in 0..3 : Digit[n] = s[1]
               THEN CHOOSE n \in 0..3 : Digit[n] = s[1] ELSE -1

\* guacamole_element, guacamole_instruction
Element(value) == <<Digit[Len(value)], ".">> \o value
Instruction(elements) ==
    FoldLeft(LAMBDA acc, v : IF acc = <<>> THEN Element(v) ELSE acc \o <<",">> \o Element(v),
             <<>>, elements) \o <<";">>

\* Mutant: the first ";" ends the instruction.
RECURSIVE FirstEnd(_, _)
FirstEnd(s, i) == IF Find(s, ";", i) = 0 THEN 0 ELSE Find(s, ";", i) + 1

\* find_guacamole_instruction_end from position i: the position after the end,
\* 0 when the text is incomplete, -1 when it is no instruction.
RECURSIVE InstructionEnd(_, _)
InstructionEnd(s, i) ==
    LET dot == Find(s, ".", i)
        length == ToNumber(SubSeq(s, i, dot - 1))
        stop == dot + 1 + length
    IN  IF i > Len(s) \/ dot = 0 THEN 0
        ELSE IF length = -1 THEN -1
        ELSE IF stop > Len(s) THEN 0
        ELSE IF s[stop] = ";" THEN stop + 1
        ELSE IF s[stop] = "," THEN InstructionEnd(s, stop + 1)
        ELSE -1

\* split_complete_guacamole_messages
RECURSIVE SplitInstructions(_)
SplitInstructions(s) ==
    LET end == InstructionEnd(s, 1) IN
    IF end <= 0 THEN [messages |-> <<>>, pending |-> s, bad |-> end = -1]
    ELSE LET rest == SplitInstructions(From(s, end)) IN
         [rest EXCEPT !.messages = <<SubSeq(s, 1, end - 1)>> \o @]

\* parse_guacamole_instruction
RECURSIVE ParseElements(_)
ParseElements(s) ==
    LET dot == Find(s, ".", 1)
        stop == dot + 1 + ToNumber(SubSeq(s, 1, dot - 1))
        value == SubSeq(s, dot + 1, stop - 1)
    IN  IF s[stop] = ";" THEN <<value>> ELSE <<value>> \o ParseElements(From(s, stop + 1))
\* The bytes of a text, and what decode("utf-8", errors="replace") makes of bytes: those
\* of a character that is not there as a whole become one replacement each.
Bytes(s) == FlattenSeq([k \in DOMAIN s |-> IF s[k] = "é" THEN <<"c3", "a9">> ELSE <<s[k]>>])
Decode(bytes) ==
    LET joined == FoldLeft(LAMBDA acc, b : IF b = "a9" /\ acc # <<>> /\ Last(acc) = "c3"
                                           THEN Append(Front(acc), "é") ELSE Append(acc, b),
                           <<>>, bytes)
    IN [k \in DOMAIN joined |-> IF joined[k] \in {"c3", "a9"} THEN "?" ELSE joined[k]]
----------------------------------------------------------------------------
(* What the user types. *)

Strip(line) == LET dense == {k \in DOMAIN line : line[k] # " "} IN
    IF dense = {} THEN <<>>
    ELSE SubSeq(line, CHOOSE k \in dense : \A j \in dense : k <= j,
                      CHOOSE k \in dense : \A j \in dense : k >= j)

TypeKey(acc, c) ==
    IF acc.escape THEN [acc EXCEPT !.escape = c \notin {"a", "~"}]
    ELSE CASE c = "esc" -> [acc EXCEPT !.escape = TRUE]
           [] c = "cr"  -> [acc EXCEPT !.buffer = <<>>,
                              !.commands = IF Strip(acc.buffer) = <<>> THEN @
                                           ELSE Append(@, Strip(acc.buffer))]
           [] c = "^C"  -> [acc EXCEPT !.buffer = <<>>, !.commands = Append(@, <<"^C">>)]
           [] c = "del" -> [acc EXCEPT !.buffer = IF @ = <<>> THEN @ ELSE Front(@)]
           [] OTHER     -> [acc EXCEPT !.buffer = Append(@, c)]

\* Mutant: a line begins anew with each piece of input.
TypePieces(buffer, data) ==
    FoldLeft(TypeKey, [buffer |-> <<>>, commands |-> <<>>, escape |-> FALSE], data)

\* command_buffer_after_input; escape: the piece ended inside an escape sequence.
TypeKeys(buffer, data) ==
    FoldLeft(TypeKey, [buffer |-> buffer, commands |-> <<>>, escape |-> FALSE], data)
----------------------------------------------------------------------------
(* Command lines that start a full-screen or interactive program. *)

Wrappers == {"sudo", "env", "timeout", "nohup"}
Options  == {"-u", "-s", "-x"}
WithArgument == [w \in Wrappers |-> CASE w \in {"sudo", "env"} -> {"-u"}
                                      [] w = "timeout" -> {"-s"} [] OTHER -> {}]

\* skip_options: options from position i on, those of `withArgument` with theirs.
RECURSIVE SkipOptions(_, _, _)
SkipOptions(words, i, withArgument) ==
    IF i > Len(words) \/ words[i] \notin Options THEN i
    ELSE SkipOptions(words, IF words[i] \in withArgument /\ i < Len(words) THEN i + 2 ELSE i + 1,
                     withArgument)

RECURSIVE SkipEnv(_, _)
SkipEnv(words, i) ==
    IF i > Len(words) \/ words[i] \notin Options \cup {"A=1"} THEN i
    ELSE IF words[i] = "A=1" THEN SkipEnv(words, i + 1)
    ELSE SkipEnv(words, IF words[i] = "-u" /\ i < Len(words) THEN i + 2 ELSE i + 1)

\* Mutant: the duration after timeout is taken for the command.
SkipNoDuration(words, i, wrapper) ==
    IF wrapper = "env" THEN SkipEnv(words, i) ELSE SkipOptions(words, i, WithArgument[wrapper])

\* skip_command_wrapper_arguments
SkipArguments(words, i, wrapper) ==
    LET next == SkipOptions(words, i, WithArgument[wrapper]) IN
    CASE wrapper = "env" -> SkipEnv(words, i)
      [] wrapper = "timeout" -> IF next <= Len(words) THEN next + 1 ELSE next
      [] OTHER -> next

RECURSIVE CommandWord(_, _)
CommandWord(words, i) ==
    IF i > Len(words) THEN "" ELSE
    IF words[i] \in Wrappers THEN CommandWord(words, SkipArguments(words, i + 1, words[i]))
    ELSE words[i]

\* is_interactive_terminal_command
IsInteractive(words) == CommandWord(words, 1) = "vim"
----------------------------------------------------------------------------
Alphabet == [cwd  |-> {"s", "t", "e", "x", " "},
             keys |-> {"a", "~", " ", "esc", "cr", "^C", "del"},
             words |-> Wrappers \cup Options \cup {"A=1", "10", "vim"}]
Values == {<<>>, <<"a">>, <<";">>, <<"1", ".">>, <<",", ";">>, <<"é">>, <<"é", ";">>}
InstructionLists == {<<a>> : a \in {<<v>> : v \in Values} \cup (Values \X Values)} \cup
                    {<<<<v>>, <<u>>>> : v \in Values, u \in Values}
Encode(list) == FlattenSeq([k \in DOMAIN list |-> Instruction(list[k])])

TextInit ==
    /\ textKind \in {"cwd", "guac", "keys", "words"}
    /\ CASE textKind = "guac" -> textWhole \in {Bytes(Encode(l)) : l \in InstructionLists}
         [] textKind = "words" -> textWhole \in SeqOf(Alphabet.words, MaxText - 2)
         [] OTHER -> textWhole \in SeqOf(Alphabet[textKind], MaxText)
    /\ textRest = textWhole
    /\ textKept = <<>> /\ textOut = <<>> /\ textPaths = <<>> /\ textCut = FALSE

\* _read_ssh_output: the kept text and the new piece are searched for markers.
ReadShell(piece) ==
    LET got == StripMarkers(textKept \o piece) IN
    /\ textKind = "cwd"
    /\ textOut' = textOut \o got.cleaned
    /\ textKept' = got.pending
    /\ textPaths' = FilterChanged(textPaths, got.paths)
    /\ textCut' = (textCut \/ (got.cleaned # <<>> /\ got.pending = <<>> /\ Last(got.cleaned) = "s"))

\* _read_guacd_output: each piece is decoded on its own; complete instructions are
\* forwarded, the rest is kept.  What is no instruction ends the reader, and with it goes
\* what the piece had completed.
ReadGuacd(piece) ==
    LET text == textKept \o Decode(piece)
        got == SplitInstructions(text) IN
    /\ textKind = "guac" /\ ~SplitInstructions(textKept).bad
    /\ textOut' = IF got.bad THEN textOut ELSE textOut \o got.messages
    /\ textKept' = IF got.bad THEN text ELSE got.pending
    /\ textCut' = (textCut \/ Last(piece) = "c3")
    /\ UNCHANGED textPaths

\* _record_input
ReadKeys(piece) ==
    LET got == TypeKeys(textKept, piece) IN
    /\ textKind = "keys"
    /\ textOut' = textOut \o got.commands
    /\ textKept' = got.buffer
    /\ textCut' = (textCut \/ got.escape)
    /\ UNCHANGED textPaths

ReadPiece ==
    \E n \in 1..Len(textRest) :
      /\ ReadShell(SubSeq(textRest, 1, n)) \/ ReadGuacd(SubSeq(textRest, 1, n))
           \/ ReadKeys(SubSeq(textRest, 1, n))
      /\ textRest' = From(textRest, n + 1)
      /\ UNCHANGED <<textKind, textWhole>>

TextNext == ReadPiece
TextSpec == TextInit /\ [][TextNext]_textVars
----------------------------------------------------------------------------
(* Properties. *)

Read == SubSeq(textWhole, 1, Len(textWhole) - Len(textRest))

\* Wherever the text is cut, what has been read gives what it would give in one
\* piece: output without its markers, the paths that changed, the command lines;
\* unless a piece ended inside the start of a marker or an escape sequence.
PiecesDoNotMatter ==
    ~textCut =>
      /\ textKind = "cwd" =>
           LET once == StripMarkers(Read) IN
           /\ textOut = once.cleaned /\ textKept = once.pending
           /\ textPaths = FilterChanged(<<>>, once.paths)
      /\ textKind = "keys" =>
           LET once == TypeKeys(<<>>, Read) IN textOut = once.commands /\ textKept = once.buffer

\* Guacamole instructions are forwarded whole, in order, and none is taken for
\* malformed, whatever characters their values hold; reading one back gives its
\* elements.  Not so when a piece ended inside a character: its halves are decoded apart.
InstructionsWhole ==
    textKind = "guac" /\ ~textCut =>
      /\ ~SplitInstructions(textKept).bad
      /\ \E list \in InstructionLists :
           /\ textWhole = Bytes(Encode(list))
           /\ Len(textOut) <= Len(list)
           /\ \A k \in DOMAIN textOut :
                textOut[k] = Instruction(list[k]) /\ ParseElements(textOut[k]) = list[k]
           /\ textRest = <<>> => Len(textOut) = Len(list)

\* A wrapper with its options and arguments hides no interactive program.
WrappersTransparent ==
    textKind = "words" /\ textWhole # <<>> /\ Head(textWhole) \notin Options \cup {"A=1"} =>
      \A prefix \in {<<"nohup">>, <<"sudo", "-x", "-u", "10">>, <<"env", "-x", "A=1">>,
                     <<"timeout", "-s", "-x", "10">>} :
        IsInteractive(prefix \o textWhole) = IsInteractive(textWhole)
=============================================================================
