---------------------------- MODULE RemoteDesktop ----------------------------
(***************************************************************************)
(* One remote desktop: a websocket consumer between the browser and the     *)
(* guacd gateway, a reader thread, and the TerminalSession row that both     *)
(* write through one shared object.  Beside them the command that removes    *)
(* recordings past their retention, and the deletion of the host, which takes *)
(* the row along: saves of some of its fields then raise.                    *)
(***************************************************************************)
EXTENDS Naturals

VARIABLES
    deskSocket,   \* the websocket: "open", "closed" by the server, "left" by the browser
    deskLogin,    \* the login session of the user is valid
    guacd,        \* connection to guacd: "none", "open", "ended" (by guacd), "closed"
    deskHandler,  \* what the consumer thread does
    deskReader,   \* reader thread; part: bytes of an incomplete instruction
    deskRow,      \* status: of the shared object and stored ("gone" with its host)
    recording,    \* asked: of guacd; row: recording_file is stored; file: it is on disk;
                  \* old: past its retention
    cleaner,      \* the removal command
    deskFate      \* history: what went wrong

deskVars == <<deskSocket, deskLogin, guacd, deskHandler, deskReader, deskRow, recording,
              cleaner, deskFate>>

RowStatus == {"none", "connected", "error", "closed"}

DeskTypeOK ==
    /\ deskSocket \in {"open", "closed", "left"} /\ deskLogin \in BOOLEAN
    /\ guacd \in {"none", "open", "ended", "closed"}
    /\ deskHandler \in {"connect", "handshake", "saveError", "live", "join", "close",
                        "mark", "saveClose", "over"}
    /\ deskReader \in [pc : {"none", "loop", "recv", "end", "saveError", "shut", "over"},
                       part : BOOLEAN, stop : BOOLEAN]
    /\ deskRow \in [object : RowStatus, stored : RowStatus \cup {"gone"}]
    /\ deskRow.stored = "none" <=> deskRow.object = "none"
    /\ recording \in [asked : BOOLEAN, row : BOOLEAN, file : BOOLEAN, old : BOOLEAN]
    /\ cleaner \in {"idle", "unlink", "clear"}
    /\ deskFate \subseteq {"late", "abandoned", "unsaved", "killed"}

DeskInit ==
    /\ deskSocket = "open" /\ deskLogin = TRUE /\ guacd = "none"
    /\ deskHandler = "connect"
    /\ deskReader = [pc |-> "none", part |-> FALSE, stop |-> FALSE]
    /\ deskRow = [object |-> "none", stored |-> "none"]
    /\ recording = [asked |-> FALSE, row |-> FALSE, file |-> FALSE, old |-> FALSE]
    /\ cleaner = "idle" /\ deskFate = {}

DeskAlive == "killed" \notin deskFate
DeskAt(pc) == DeskAlive /\ deskHandler = pc
DeskReads(pc) == DeskAlive /\ deskReader.pc = pc
DeskShut == IF deskSocket = "open" THEN "closed" ELSE deskSocket
RowGone == deskRow.stored = "gone"
Elsewhere == <<recording, cleaner>>
----------------------------------------------------------------------------
(* The consumer. *)

\* Not logged in, no permission, no such host: close; nothing was stored.
RefuseDesk ==
    /\ DeskAt("connect")
    /\ deskSocket' = DeskShut /\ deskHandler' = "live"
    /\ UNCHANGED <<deskLogin, guacd, deskReader, deskRow, deskFate, Elsewhere>>

\* create_rdp_terminal_session stores the row before guacd is asked.
CreateDesk ==
    /\ DeskAt("connect") /\ deskLogin
    /\ deskRow' = [object |-> "connected", stored |-> "connected"]
    /\ \E enabled \in BOOLEAN : recording' = [recording EXCEPT !.asked = enabled, !.row = enabled]
    /\ deskHandler' = "handshake"
    /\ UNCHANGED <<deskSocket, deskLogin, guacd, deskReader, cleaner, deskFate>>

\* guacd answers ready: it records from now on, as the object says, and the reader starts.
Handshake ==
    /\ DeskAt("handshake")
    /\ guacd' = "open" /\ deskHandler' = "live"
    /\ deskReader' = [deskReader EXCEPT !.pc = "loop"]
    /\ recording' = [recording EXCEPT !.file = recording.asked]
    /\ UNCHANGED <<deskSocket, deskLogin, deskRow, cleaner, deskFate>>

\* guacd cannot be reached or gives a wrong answer.
HandshakeFails ==
    /\ DeskAt("handshake")
    /\ deskRow' = [deskRow EXCEPT !.object = "error"] /\ deskHandler' = "saveError"
    /\ UNCHANGED <<deskSocket, deskLogin, guacd, deskReader, deskFate, Elsewhere>>

\* Another exception leaves connect, such as a timeout of an answer or a host deleted
\* before the row is stored: the disconnect handler never runs.
HandshakeRaises ==
    /\ DeskAt("connect") \/ DeskAt("handshake")
    /\ deskHandler' = "over" /\ deskSocket' = DeskShut
    /\ deskFate' = deskFate \cup {"abandoned"}
    /\ UNCHANGED <<deskLogin, guacd, deskReader, deskRow, Elsewhere>>

\* Input for guacd cannot be sent.
SendFails ==
    /\ DeskAt("live") /\ deskSocket = "open" /\ guacd = "ended"
    /\ deskRow' = [deskRow EXCEPT !.object = "error"] /\ deskHandler' = "saveError"
    /\ UNCHANGED <<deskSocket, deskLogin, guacd, deskReader, deskFate, Elsewhere>>

SaveDeskError ==
    /\ DeskAt("saveError") /\ ~RowGone
    /\ deskRow' = [deskRow EXCEPT !.stored = deskRow.object]
    /\ deskSocket' = DeskShut /\ deskHandler' = "live"
    /\ UNCHANGED <<deskLogin, guacd, deskReader, deskFate, Elsewhere>>

\* The row is gone: the save raises out of the handler, and no other will run.
SaveDeskFails ==
    /\ DeskAt("saveError") /\ RowGone
    /\ deskHandler' = "over" /\ deskSocket' = DeskShut
    /\ deskFate' = deskFate \cup {"abandoned"}
    /\ UNCHANGED <<deskLogin, guacd, deskReader, deskRow, Elsewhere>>

DisconnectDesk ==
    /\ DeskAt("live") /\ deskSocket # "open"
    /\ deskReader' = [deskReader EXCEPT !.stop = TRUE]
    /\ guacd' = IF guacd = "none" THEN "none" ELSE "closed"
    /\ deskHandler' = "join"
    /\ UNCHANGED <<deskSocket, deskLogin, deskRow, deskFate, Elsewhere>>

\* The reader is waited for, at most one second.
JoinDesk ==
    /\ DeskAt("join")
    /\ deskHandler' = IF deskRow.object = "none" THEN "over" ELSE "close"
    /\ deskFate' = IF deskReader.pc \in {"none", "over"} THEN deskFate ELSE deskFate \cup {"late"}
    /\ UNCHANGED <<deskSocket, deskLogin, guacd, deskReader, deskRow, Elsewhere>>

\* Mutant: every session ends closed.
CloseAnyDesk ==
    /\ DeskAt("close")
    /\ deskHandler' = "mark"
    /\ UNCHANGED <<deskSocket, deskLogin, guacd, deskReader, deskRow, deskFate, Elsewhere>>

\* _close_session: a session with an error stays so ...
CloseDesk ==
    /\ DeskAt("close")
    /\ deskHandler' = IF deskRow.object = "error" THEN "saveClose" ELSE "mark"
    /\ UNCHANGED <<deskSocket, deskLogin, guacd, deskReader, deskRow, deskFate, Elsewhere>>

\* ... any other is closed, whatever the reader has made of it since.
MarkClosed ==
    /\ DeskAt("mark")
    /\ deskRow' = [deskRow EXCEPT !.object = "closed"] /\ deskHandler' = "saveClose"
    /\ UNCHANGED <<deskSocket, deskLogin, guacd, deskReader, deskFate, Elsewhere>>

SaveClose ==
    /\ DeskAt("saveClose")
    /\ deskRow' = IF RowGone THEN deskRow ELSE [deskRow EXCEPT !.stored = deskRow.object]
    /\ deskHandler' = "over"
    /\ UNCHANGED <<deskSocket, deskLogin, guacd, deskReader, deskFate, Elsewhere>>
----------------------------------------------------------------------------
(* The reader thread. *)

\* Each turn checks the stop event and the login.
DeskTurn ==
    /\ DeskReads("loop")
    /\ deskReader' = [deskReader EXCEPT !.pc = IF deskReader.stop THEN "end"
                                               ELSE IF deskLogin THEN "recv" ELSE "over"]
    /\ deskSocket' = IF ~deskReader.stop /\ ~deskLogin THEN DeskShut ELSE deskSocket
    /\ UNCHANGED <<deskLogin, guacd, deskHandler, deskRow, deskFate, Elsewhere>>

\* Complete instructions go to the browser, the rest waits; or nothing came for a second.
Forward ==
    /\ DeskReads("recv") /\ guacd = "open"
    /\ \E part \in BOOLEAN : deskReader' = [deskReader EXCEPT !.pc = "loop", !.part = part]
    /\ UNCHANGED <<deskSocket, deskLogin, guacd, deskHandler, deskRow, deskFate, Elsewhere>>

\* guacd has ended, sent no instruction, or the browser cannot be reached.
StopForwarding ==
    /\ DeskReads("recv")
    /\ \E part \in BOOLEAN :
         /\ part => deskReader.part \/ guacd = "open"
         /\ deskReader' = [deskReader EXCEPT !.pc = "end", !.part = part]
    /\ UNCHANGED <<deskSocket, deskLogin, guacd, deskHandler, deskRow, deskFate, Elsewhere>>

\* The disconnect handler has taken the connection away.
ReaderRaises ==
    /\ DeskReads("recv") /\ guacd = "closed"
    /\ deskReader' = [deskReader EXCEPT !.pc = "over"]
    /\ UNCHANGED <<deskSocket, deskLogin, guacd, deskHandler, deskRow, deskFate, Elsewhere>>

MarkIncomplete ==
    /\ DeskReads("end")
    /\ IF deskReader.part /\ ~deskReader.stop
       THEN /\ deskRow' = [deskRow EXCEPT !.object = "error"]
            /\ deskReader' = [deskReader EXCEPT !.pc = "saveError"]
       ELSE /\ deskReader' = [deskReader EXCEPT !.pc = "shut"] /\ UNCHANGED deskRow
    /\ UNCHANGED <<deskSocket, deskLogin, guacd, deskHandler, deskFate, Elsewhere>>

SaveIncomplete ==
    /\ DeskReads("saveError") /\ ~RowGone
    /\ deskRow' = [deskRow EXCEPT !.stored = deskRow.object]
    /\ deskReader' = [deskReader EXCEPT !.pc = "shut"]
    /\ UNCHANGED <<deskSocket, deskLogin, guacd, deskHandler, deskFate, Elsewhere>>

\* The row is gone: the exception ends the thread before it closes the websocket.
SaveIncompleteFails ==
    /\ DeskReads("saveError") /\ RowGone
    /\ deskReader' = [deskReader EXCEPT !.pc = "over"]
    /\ deskFate' = deskFate \cup {"unsaved"}
    /\ UNCHANGED <<deskSocket, deskLogin, guacd, deskHandler, deskRow, Elsewhere>>

\* Mutant: only an incomplete instruction closes the websocket.
ShutIncomplete ==
    /\ DeskReads("shut")
    /\ deskSocket' = IF deskReader.stop \/ ~deskReader.part THEN deskSocket ELSE DeskShut
    /\ deskReader' = [deskReader EXCEPT !.pc = "over"]
    /\ UNCHANGED <<deskLogin, guacd, deskHandler, deskRow, deskFate, Elsewhere>>

ShutDesk ==
    /\ DeskReads("shut")
    /\ deskSocket' = IF deskReader.stop THEN deskSocket ELSE DeskShut
    /\ deskReader' = [deskReader EXCEPT !.pc = "over"]
    /\ UNCHANGED <<deskLogin, guacd, deskHandler, deskRow, deskFate, Elsewhere>>
----------------------------------------------------------------------------
(* cleanup_expired_rdp_recordings, which may be stopped between any two steps. *)

SelectExpired ==
    /\ cleaner = "idle" /\ recording.row /\ recording.old
    /\ cleaner' = "unlink"
    /\ UNCHANGED <<deskSocket, deskLogin, guacd, deskHandler, deskReader, deskRow, recording,
                   deskFate>>

\* Mutant: the row forgets the recording before the file is removed.
UnlinkLater ==
    /\ cleaner = "unlink"
    /\ recording' = [recording EXCEPT !.row = FALSE] /\ cleaner' = "clear"
    /\ UNCHANGED <<deskSocket, deskLogin, guacd, deskHandler, deskReader, deskRow, deskFate>>

Unlink ==
    /\ cleaner = "unlink"
    /\ recording' = [recording EXCEPT !.file = FALSE] /\ cleaner' = "clear"
    /\ UNCHANGED <<deskSocket, deskLogin, guacd, deskHandler, deskReader, deskRow, deskFate>>

\* The field of the row is emptied; a row that is gone makes the command stop.
ForgetRecording ==
    /\ cleaner = "clear"
    /\ recording' = [recording EXCEPT !.row = FALSE] /\ cleaner' = "idle"
    /\ UNCHANGED <<deskSocket, deskLogin, guacd, deskHandler, deskReader, deskRow, deskFate>>

CleanerStops ==
    /\ cleaner # "idle" /\ cleaner' = "idle"
    /\ UNCHANGED <<deskSocket, deskLogin, guacd, deskHandler, deskReader, deskRow, recording,
                   deskFate>>
----------------------------------------------------------------------------
(* Around them. *)

\* The retention is at least a day: far longer than a handshake.
Expire ==
    /\ deskHandler \notin {"connect", "handshake"} /\ ~recording.old
    /\ recording' = [recording EXCEPT !.old = TRUE]
    /\ UNCHANGED <<deskSocket, deskLogin, guacd, deskHandler, deskReader, deskRow, cleaner,
                   deskFate>>

\* The host is deleted and its sessions with it; the file of the recording is not.
DeleteDesk ==
    /\ deskRow.stored \notin {"none", "gone"}
    /\ deskRow' = [deskRow EXCEPT !.stored = "gone"]
    /\ recording' = [recording EXCEPT !.row = FALSE]
    /\ UNCHANGED <<deskSocket, deskLogin, guacd, deskHandler, deskReader, cleaner, deskFate>>

DeskLeaves ==
    /\ DeskAlive /\ deskSocket = "open" /\ deskSocket' = "left"
    /\ UNCHANGED <<deskLogin, guacd, deskHandler, deskReader, deskRow, deskFate, Elsewhere>>

DeskLogout ==
    /\ DeskAlive /\ deskLogin /\ deskLogin' = FALSE
    /\ UNCHANGED <<deskSocket, guacd, deskHandler, deskReader, deskRow, deskFate, Elsewhere>>

GuacdEnds ==
    /\ DeskAlive /\ guacd = "open" /\ guacd' = "ended"
    /\ UNCHANGED <<deskSocket, deskLogin, deskHandler, deskReader, deskRow, deskFate, Elsewhere>>

DeskStops ==
    /\ DeskAlive /\ deskFate' = deskFate \cup {"killed"}
    /\ UNCHANGED <<deskSocket, deskLogin, guacd, deskHandler, deskReader, deskRow, Elsewhere>>

DeskHandlerStep ==
    \/ RefuseDesk \/ CreateDesk \/ Handshake \/ HandshakeFails \/ HandshakeRaises
    \/ SaveDeskError \/ SaveDeskFails \/ DisconnectDesk \/ JoinDesk \/ CloseDesk \/ MarkClosed
    \/ SaveClose
DeskReaderStep ==
    \/ DeskTurn \/ Forward \/ StopForwarding \/ ReaderRaises
    \/ MarkIncomplete \/ SaveIncomplete \/ SaveIncompleteFails \/ ShutDesk
DeskAround ==
    \/ SendFails \/ SelectExpired \/ Unlink \/ ForgetRecording \/ CleanerStops
    \/ Expire \/ DeleteDesk \/ DeskLeaves \/ DeskLogout \/ GuacdEnds \/ DeskStops

DeskNext == DeskHandlerStep \/ DeskReaderStep \/ DeskAround
DeskSpec == DeskInit /\ [][DeskNext]_deskVars
\* Both threads run on: every wait of theirs has a timeout.
DeskFairness == WF_deskVars(DeskHandlerStep) /\ WF_deskVars(DeskReaderStep)
----------------------------------------------------------------------------
(* Properties. *)

\* An error stored with a session is not replaced when the session ends, unless
\* the reader was still busy then; the row may only be deleted.
DeskErrorStays ==
    [][deskRow.stored = "error" /\ "late" \notin deskFate
         => deskRow'.stored \in {"error", "gone"}]_deskVars

\* A recording on disk can be found from its session as long as there is one, even when
\* the removal is stopped half way.  The deletion of the host leaves the file behind.
RecordingFindable == recording.file => recording.row \/ RowGone

\* A desktop whose browser has left, or whose login or gateway has ended, is shut
\* down: connection closed, row closed or in error or deleted; unless a handler or the
\* reader had raised, over a timeout or a deleted row, or the server was stopped.
DeskShutsDown ==
    (deskSocket # "open" \/ ~deskLogin \/ guacd = "ended")
      ~> \/ deskSocket # "open" /\ guacd \in {"none", "closed"} /\ deskRow.stored # "connected"
         \/ deskFate \cap {"abandoned", "unsaved", "killed"} # {}
=============================================================================
