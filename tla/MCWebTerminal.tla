--------------------------- MODULE MCWebTerminal ---------------------------
(* Constants for checking the parts of the web terminal other than its pool.
   They share nothing: a behaviour is one of the part it begins with. *)
EXTENDS WebTerminal, HostReadings, TerminalText

CONSTANTS s1, s2, w1, w2

TwoSavers      == {s1, s2}
TwoWebRequests == {w1, w2}
FewCounters    == {0, 1, 5}
----------------------------------------------------------------------------
VARIABLE part   \* the component this behaviour is about

Vars == <<termVars, deskVars, webVars, fileVars, remoteVars, readingVars, textVars, part>>
Parts == {"terminal", "desktop", "http", "files", "saves", "readings", "text"}

\* The parts a behaviour is not about stay in one of their initial states.
Init ==
    /\ part \in Parts
    /\ TermInit /\ DeskInit
    /\ TextInit     /\ (part # "text" => textKind = "words" /\ textWhole = <<>>)
    /\ ReadingsInit /\ (part # "readings" => listing = [root |-> "/", names |-> <<>>])
    /\ FileInit     /\ (part # "files" => op.existed = {} /\ op.move /\ op.overwrite
                                          /\ \A i \in Items : item[i].kind = "file")
    /\ RemoteInit   /\ (part # "saves" => dest = Old)
    /\ WebInit      /\ (part # "http" => \A r \in WebRequests : webReq[r].kind = "plain")

TerminalStep == /\ part = "terminal" /\ TermNext
                /\ UNCHANGED <<deskVars, webVars, fileVars, remoteVars, readingVars, textVars, part>>
DesktopStep  == /\ part = "desktop" /\ DeskNext
                /\ UNCHANGED <<termVars, webVars, fileVars, remoteVars, readingVars, textVars, part>>
HttpStep     == /\ part = "http" /\ WebNext
                /\ UNCHANGED <<termVars, deskVars, fileVars, remoteVars, readingVars, textVars, part>>
FilesStep    == /\ part = "files" /\ FileNext
                /\ UNCHANGED <<termVars, deskVars, webVars, remoteVars, readingVars, textVars, part>>
SavesStep    == /\ part = "saves" /\ RemoteNext
                /\ UNCHANGED <<termVars, deskVars, webVars, fileVars, readingVars, textVars, part>>
HostStep     == /\ part = "readings" /\ ReadingsNext
                /\ UNCHANGED <<termVars, deskVars, webVars, fileVars, remoteVars, textVars, part>>
TextStep     == /\ part = "text" /\ TextNext
                /\ UNCHANGED <<termVars, deskVars, webVars, fileVars, remoteVars, readingVars, part>>

Next == TerminalStep \/ DesktopStep \/ HttpStep \/ FilesStep \/ SavesStep \/ HostStep \/ TextStep

\* TermFairness and DeskFairness, of a behaviour about the terminal or the desktop.
Fairness ==
    /\ WF_termVars(part = "terminal" /\ HandlerStep) /\ WF_termVars(part = "terminal" /\ ReaderStep)
    /\ SF_termVars(part = "terminal" /\ NoticeEnd)
    /\ WF_deskVars(part = "desktop" /\ DeskHandlerStep) /\ WF_deskVars(part = "desktop" /\ DeskReaderStep)

Spec == Init /\ [][Next]_Vars /\ Fairness
----------------------------------------------------------------------------
(* Properties of the parts that one name stands for in the configuration. *)

\* Readings of a host are what the host says, within their bounds.
ReadingsHonest == part = "readings" => ReadingsTypeOK /\ LogsHonest /\ FiguresInRange /\ ParentUndoesJoin

\* Texts are understood the same however they are cut.
TextsWhole == part = "text" => PiecesDoNotMatter /\ InstructionsWhole /\ WrappersTransparent

\* What hosts and browsers write is understood as it was meant.
TextsUnderstood == ReadingsHonest /\ TextsWhole

\* Terminals of either kind are shut down once their browser has left or their
\* login has ended.
TerminalsShutDown == TerminalShutsDown /\ DeskShutsDown
============================================================================
