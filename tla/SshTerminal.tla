----------------------------- MODULE SshTerminal -----------------------------
(***************************************************************************)
(* One SSH terminal: the handlers of its websocket consumer run one at a    *)
(* time, the reader thread beside them.  Both write the audit: the recorded *)
(* transcript, and for every command the output that came after it.         *)
(*                                                                         *)
(* Outputs and commands are numbered.  The websocket is "open" until the    *)
(* server closes it or the browser leaves ("left"); then the disconnect     *)
(* handler runs.                                                            *)
(***************************************************************************)
EXTENDS Naturals, Sequences, FiniteSets

CONSTANTS
    MaxOutputs,    \* bound: outputs of the shell
    MaxCommands    \* bound: commands entered

ASSUME TerminalAssumption == MaxOutputs \in Nat /\ MaxCommands \in Nat

VARIABLES
    socket,     \* the websocket
    login,      \* the login session of the user is valid
    conn,       \* SSH connection and channel: "none", "open", "ended" (by the host), "closed"
    handler,    \* what the consumer thread does
    reader,     \* reader thread
    audit,      \* self.session, pending_command_audit, pending_command_output_chunks
    rows,       \* TerminalSession row, its transcript, TerminalCommandAudit outputs
    screen,     \* outputs: received, alternate screen, shown to the browser, transcript_chunks
    fate        \* history: what went wrong

termVars == <<socket, login, conn, handler, reader, audit, rows, screen, fate>>

Outputs  == 1..MaxOutputs
Commands == 1..MaxCommands
HandlerPC == {"connect", "setup", "live", "save", "reset", "create", "send",
              "stop", "join", "lastSave", "lastReset", "close", "over"}
ReaderPC  == {"none", "loop", "read", "record", "save", "reset", "show", "over"}

TermTypeOK ==
    /\ socket \in {"open", "closed", "left"}
    /\ login \in BOOLEAN
    /\ conn \in {"none", "open", "ended", "closed"}
    /\ handler \in [pc : HandlerPC, command : 0..MaxCommands]
    /\ reader \in [pc : ReaderPC, output : 0..MaxOutputs, stop : BOOLEAN]
    /\ audit \in [on : BOOLEAN, pending : 0..MaxCommands, chunks : Seq(Outputs)]
    /\ audit.pending = 0 => audit.chunks = <<>>
    /\ ~audit.on => audit.pending = 0
    /\ rows \in [session : {"none", "connected", "closed"}, transcript : SUBSET Outputs,
                 outputs : [Commands -> Seq(Outputs)]]
    /\ screen \in [received : 0..MaxOutputs, alternate : BOOLEAN, shown : SUBSET Outputs,
                   transcript : SUBSET Outputs]
    /\ fate \subseteq {"late", "tangled", "unaudited", "abandoned", "killed", "cleared"}

TermInit ==
    /\ socket = "open" /\ login = TRUE /\ conn = "none"
    /\ handler = [pc |-> "connect", command |-> 0]
    /\ reader = [pc |-> "none", output |-> 0, stop |-> FALSE]
    /\ audit = [on |-> FALSE, pending |-> 0, chunks |-> <<>>]
    /\ rows = [session |-> "none", transcript |-> {}, outputs |-> [c \in Commands |-> <<>>]]
    /\ screen = [received |-> 0, alternate |-> FALSE, shown |-> {}, transcript |-> {}]
    /\ fate = {}

Alive == "killed" \notin fate
HandlerAt(pc) == Alive /\ handler.pc = pc
ReaderAt(pc)  == Alive /\ reader.pc = pc
\* self.close() of either thread.
Shut == IF socket = "open" THEN "closed" ELSE socket
NoAudit == [on |-> FALSE, pending |-> 0, chunks |-> <<>>]
\* One thread is between saving the collected output and forgetting it.
Flushing == {t \in {"handler", "reader"} :
               IF t = "handler" THEN handler.pc \in {"reset", "lastReset"} ELSE reader.pc = "reset"}
Tangle(t) == IF audit.on /\ Flushing \ {t} # {} THEN fate \cup {"tangled"} ELSE fate
----------------------------------------------------------------------------
(* The consumer. *)

\* Not logged in, no permission, no such host, or no connection: error and close.
Refuse ==
    /\ HandlerAt("connect")
    /\ socket' = Shut /\ handler' = [handler EXCEPT !.pc = "live"]
    /\ UNCHANGED <<login, conn, reader, audit, rows, screen, fate>>

\* The shell is open; the session is audited unless the user is exempt or the
\* row cannot be stored.
Open ==
    /\ HandlerAt("connect") /\ login
    /\ conn' = "open" /\ handler' = [handler EXCEPT !.pc = "setup"]
    /\ \E on \in BOOLEAN :
         /\ audit' = [audit EXCEPT !.on = on]
         /\ rows' = [rows EXCEPT !.session = IF on THEN "connected" ELSE "none"]
    /\ UNCHANGED <<socket, login, reader, screen, fate>>

\* First output, hook, and the reader starts.
StartReader ==
    /\ HandlerAt("setup")
    /\ handler' = [handler EXCEPT !.pc = "live"] /\ reader' = [reader EXCEPT !.pc = "loop"]
    /\ UNCHANGED <<socket, login, conn, audit, rows, screen, fate>>

\* Entering a container raises when the channel has ended: connect is left by
\* an exception and the disconnect handler never runs.
SetupRaises ==
    /\ HandlerAt("setup") /\ conn = "ended"
    /\ handler' = [handler EXCEPT !.pc = "over"] /\ socket' = Shut
    /\ fate' = fate \cup {"abandoned"}
    /\ UNCHANGED <<login, conn, reader, audit, rows, screen>>

\* A message after the login has ended: error and close.
RejectInput ==
    /\ HandlerAt("live") /\ socket = "open" /\ ~login /\ conn # "none"
    /\ socket' = Shut
    /\ UNCHANGED <<login, conn, handler, reader, audit, rows, screen, fate>>

\* A command line: audited unless a full-screen program is shown.
EnterCommand ==
    /\ HandlerAt("live") /\ socket = "open" /\ login /\ reader.pc # "none"
    /\ handler.command < MaxCommands
    /\ handler' = [pc |-> IF audit.on /\ ~screen.alternate THEN "save" ELSE "send",
                   command |-> handler.command + 1]
    /\ UNCHANGED <<socket, login, conn, reader, audit, rows, screen, fate>>

Collected == audit.pending # 0 /\ audit.chunks # <<>>
Flush(outputs) == IF Collected THEN [outputs EXCEPT ![audit.pending] = @ \o audit.chunks]
                  ELSE outputs
\* Where the handler goes on when nothing is left to forget.
Onward == CASE handler.pc \in {"save", "reset"} -> "create"
            [] handler.pc \in {"lastSave", "lastReset"} -> "close"

\* _flush_pending_audit_output saves the collected output of the command before ...
SaveOutput ==
    /\ HandlerAt("save") \/ HandlerAt("lastSave")
    /\ rows' = [rows EXCEPT !.outputs = Flush(@)]
    /\ handler' = [handler EXCEPT !.pc = IF ~Collected THEN Onward
                                         ELSE IF @ = "save" THEN "reset" ELSE "lastReset"]
    /\ fate' = Tangle("handler")
    /\ UNCHANGED <<socket, login, conn, reader, audit, screen>>

\* Mutant: the output saved is not forgotten.
ResetNothing ==
    /\ HandlerAt("reset") \/ HandlerAt("lastReset")
    /\ handler' = [handler EXCEPT !.pc = Onward] /\ fate' = Tangle("handler")
    /\ UNCHANGED <<socket, login, conn, reader, audit, rows, screen>>

\* ... and forgets it.
ResetOutput ==
    /\ HandlerAt("reset") \/ HandlerAt("lastReset")
    /\ audit' = [audit EXCEPT !.chunks = <<>>]
    /\ handler' = [handler EXCEPT !.pc = Onward] /\ fate' = Tangle("handler")
    /\ UNCHANGED <<socket, login, conn, reader, rows, screen>>

\* Mutant: an interactive command forgets the command before it, not its output.
CreateKeepsChunks ==
    /\ HandlerAt("create")
    /\ \E interactive \in BOOLEAN :
         audit' = [audit EXCEPT !.pending = IF audit.on /\ ~interactive THEN handler.command ELSE 0]
    /\ handler' = [handler EXCEPT !.pc = "send"]
    /\ UNCHANGED <<socket, login, conn, reader, rows, screen, fate>>

\* The audit of the command; an interactive one collects no output.
CreateAudit ==
    /\ HandlerAt("create")
    /\ \/ /\ audit' = [audit EXCEPT !.pending = IF audit.on THEN handler.command ELSE 0]
          /\ UNCHANGED fate
       \/ /\ audit' = [audit EXCEPT !.pending = 0, !.chunks = <<>>]
          /\ fate' = IF audit.chunks = <<>> THEN Tangle("handler") ELSE fate \cup {"cleared"}
    /\ handler' = [handler EXCEPT !.pc = "send"]
    /\ UNCHANGED <<socket, login, conn, reader, rows, screen>>

\* send_data: error and close when the channel has ended.
SendCommand ==
    /\ HandlerAt("send")
    /\ handler' = [handler EXCEPT !.pc = "live"]
    /\ socket' = IF conn = "open" THEN socket ELSE Shut
    /\ UNCHANGED <<login, conn, reader, audit, rows, screen, fate>>

\* disconnect: the reader is told to stop, the connection closed ...
Disconnect ==
    /\ HandlerAt("live") /\ socket # "open"
    /\ reader' = [reader EXCEPT !.stop = TRUE]
    /\ conn' = IF conn = "none" THEN "none" ELSE "closed"
    /\ handler' = [handler EXCEPT !.pc = "join"]
    /\ UNCHANGED <<socket, login, audit, rows, screen, fate>>

\* Mutant: the reader is not waited for.
JoinNobody ==
    /\ HandlerAt("join")
    /\ handler' = [handler EXCEPT !.pc = IF audit.on THEN "lastSave" ELSE "over"]
    /\ UNCHANGED <<socket, login, conn, reader, audit, rows, screen, fate>>

\* ... it is waited for, at most one second ...
JoinReader ==
    /\ HandlerAt("join")
    /\ handler' = [handler EXCEPT !.pc = IF audit.on THEN "lastSave" ELSE "over"]
    /\ fate' = IF reader.pc \in {"none", "over"} THEN fate ELSE fate \cup {"late"}
    /\ UNCHANGED <<socket, login, conn, reader, audit, rows, screen>>

\* ... and _close_session stores status and transcript, if the audit still runs.
CloseSession ==
    /\ HandlerAt("close")
    /\ rows' = IF audit.on THEN [rows EXCEPT !.session = "closed", !.transcript = screen.transcript]
               ELSE rows
    /\ handler' = [handler EXCEPT !.pc = "over"]
    /\ UNCHANGED <<socket, login, conn, reader, audit, screen, fate>>
----------------------------------------------------------------------------
(* The reader thread. *)

\* while not stop_reader.is_set()
TakeTurn ==
    /\ ReaderAt("loop") /\ ~reader.stop
    /\ reader' = [reader EXCEPT !.pc = "read"]
    /\ UNCHANGED <<socket, login, conn, handler, audit, rows, screen, fate>>

\* Output of the shell, which a closed channel may still hold; markers of the
\* working directory are taken out before it is kept.
ReadOutput ==
    /\ ReaderAt("read") /\ screen.received < MaxOutputs
    /\ screen' = [screen EXCEPT !.received = @ + 1, !.transcript = @ \cup {screen.received + 1}]
    /\ reader' = [reader EXCEPT !.pc = "record", !.output = screen.received + 1]
    /\ UNCHANGED <<socket, login, conn, handler, audit, rows, fate>>

\* Nothing to read yet.
ReadNothing ==
    /\ ReaderAt("read") /\ conn = "open"
    /\ reader' = [reader EXCEPT !.pc = "loop"]
    /\ UNCHANGED <<socket, login, conn, handler, audit, rows, screen, fate>>

\* _record_output: entering or leaving a full-screen program drops what was
\* collected; other output is collected for the pending command.
RecordOutput ==
    /\ ReaderAt("record")
    /\ \/ /\ audit.on
          /\ \E next \in BOOLEAN :
               /\ next \/ screen.alternate
               /\ screen' = [screen EXCEPT !.alternate = next]
          /\ audit' = [audit EXCEPT !.pending = 0, !.chunks = <<>>]
          /\ fate' = IF audit.chunks = <<>> THEN Tangle("reader") ELSE fate \cup {"cleared"}
          /\ reader' = [reader EXCEPT !.pc = "show"]
       \/ /\ ~screen.alternate \/ ~audit.on
          /\ \E full \in BOOLEAN :
               reader' = [reader EXCEPT !.pc = IF full /\ audit.pending # 0 THEN "save" ELSE "show"]
          /\ audit' = IF audit.pending = 0 THEN audit
                      ELSE [audit EXCEPT !.chunks = Append(@, reader.output)]
          /\ fate' = IF audit.pending = 0 THEN fate ELSE Tangle("reader")
          /\ UNCHANGED screen
    /\ UNCHANGED <<socket, login, conn, handler, rows>>

\* The reader flushes when enough is collected, in the same two steps.
SaveByReader ==
    /\ ReaderAt("save")
    /\ rows' = [rows EXCEPT !.outputs = Flush(@)]
    /\ reader' = [reader EXCEPT !.pc = IF Collected THEN "reset" ELSE "show"]
    /\ fate' = Tangle("reader")
    /\ UNCHANGED <<socket, login, conn, handler, audit, screen>>

ResetByReader ==
    /\ ReaderAt("reset")
    /\ audit' = [audit EXCEPT !.chunks = <<>>]
    /\ reader' = [reader EXCEPT !.pc = "show"]
    /\ fate' = Tangle("reader")
    /\ UNCHANGED <<socket, login, conn, handler, rows, screen>>

\* To the browser; when that fails the reader stops.
ShowOutput ==
    /\ ReaderAt("show")
    /\ IF socket = "open"
       THEN /\ screen' = [screen EXCEPT !.shown = @ \cup {reader.output}]
            /\ reader' = [reader EXCEPT !.pc = "loop"]
       ELSE /\ reader' = [reader EXCEPT !.pc = "loop", !.stop = TRUE] /\ UNCHANGED screen
    /\ UNCHANGED <<socket, login, conn, handler, audit, rows, fate>>

\* Mutant: the reader forgets to close the socket of a user that has left.
NoteAndStop ==
    /\ ReaderAt("read") /\ (~login \/ conn \in {"ended", "closed"})
    /\ reader' = [reader EXCEPT !.pc = "over"]
    /\ UNCHANGED <<socket, login, conn, handler, audit, rows, screen, fate>>

\* The login or the channel has ended: closed is sent and the socket closed.
NoticeEnd ==
    /\ ReaderAt("read") /\ (~login \/ conn \in {"ended", "closed"})
    /\ reader' = [reader EXCEPT !.pc = "over"] /\ socket' = Shut
    /\ UNCHANGED <<login, conn, handler, audit, rows, screen, fate>>

\* The terminal was idle for too long.
IdleTimeout ==
    /\ ReaderAt("read")
    /\ reader' = [reader EXCEPT !.pc = "over"] /\ socket' = Shut
    /\ UNCHANGED <<login, conn, handler, audit, rows, screen, fate>>

StopReader ==
    /\ ReaderAt("loop") /\ reader.stop
    /\ reader' = [reader EXCEPT !.pc = "over"]
    /\ UNCHANGED <<socket, login, conn, handler, audit, rows, screen, fate>>
----------------------------------------------------------------------------
(* Around it. *)

\* A failing save turns the audit off for good; the session row stays as it is.
DisableAudit ==
    /\ Alive /\ audit.on /\ (handler.pc \in {"save", "create"} \/ reader.pc \in {"record", "save"})
    /\ audit' = NoAudit
    /\ fate' = fate \cup {"unaudited"}
    /\ UNCHANGED <<socket, login, conn, handler, reader, rows, screen>>

BrowserLeaves ==
    /\ Alive /\ socket = "open"
    /\ socket' = "left"
    /\ UNCHANGED <<login, conn, handler, reader, audit, rows, screen, fate>>

Logout ==
    /\ Alive /\ login
    /\ login' = FALSE
    /\ UNCHANGED <<socket, conn, handler, reader, audit, rows, screen, fate>>

ChannelEnds ==
    /\ Alive /\ conn = "open"
    /\ conn' = "ended"
    /\ UNCHANGED <<socket, login, handler, reader, audit, rows, screen, fate>>

\* The server process stops: nothing puts the row right afterwards.
ServerStops ==
    /\ Alive /\ fate' = fate \cup {"killed"}
    /\ UNCHANGED <<socket, login, conn, handler, reader, audit, rows, screen>>

HandlerStep ==
    \/ Refuse \/ Open \/ StartReader \/ SetupRaises
    \/ SaveOutput \/ ResetOutput \/ CreateAudit \/ SendCommand
    \/ Disconnect \/ JoinReader \/ CloseSession
ReaderStep ==
    \/ TakeTurn \/ ReadOutput \/ ReadNothing \/ RecordOutput \/ SaveByReader \/ ResetByReader \/ ShowOutput
    \/ NoticeEnd \/ StopReader
Around ==
    \/ EnterCommand \/ RejectInput \/ IdleTimeout \/ DisableAudit
    \/ BrowserLeaves \/ Logout \/ ChannelEnds \/ ServerStops

TermNext == HandlerStep \/ ReaderStep \/ Around
TermSpec == TermInit /\ [][TermNext]_termVars
\* Both threads run on; the reader's second check of the login is not put off
\* for ever by output.
TermFairness == WF_termVars(HandlerStep) /\ WF_termVars(ReaderStep) /\ SF_termVars(NoticeEnd)
FairTerm == TermSpec /\ TermFairness
----------------------------------------------------------------------------
(* Properties. *)

\* The stored transcript of a closed session holds all the browser was shown, and
\* all the shell wrote unless the reader was still busy when the session was closed.
TranscriptComplete ==
    rows.session = "closed" =>
      /\ screen.shown \subseteq rows.transcript
      /\ "late" \notin fate => 1..screen.received \subseteq rows.transcript

Rising(outputs)  == \A i, j \in DOMAIN outputs : i < j => outputs[i] < outputs[j]
Before(one, two) == \A i \in DOMAIN one, j \in DOMAIN two : one[i] < two[j]

\* The output collected for commands is stored once and in the order it came,
\* unless one thread touched it while the other was storing it.
OutputAuditedInOrder ==
    Flushing = {} /\ fate \cap {"tangled", "unaudited"} = {} =>
      /\ Rising(audit.chunks)
      /\ \A c \in Commands :
           /\ Rising(rows.outputs[c]) /\ Before(rows.outputs[c], audit.chunks)
           /\ \A d \in (c + 1)..MaxCommands : Before(rows.outputs[c], rows.outputs[d])

\* A terminal whose browser has left, or whose login or shell has ended, is shut
\* down: connection closed, session row closed; unless connect had raised, the
\* audit had failed or the server was stopped.
TerminalShutsDown ==
    (socket # "open" \/ ~login \/ conn = "ended")
      ~> \/ socket # "open" /\ conn \in {"none", "closed"} /\ rows.session # "connected"
         \/ fate \cap {"abandoned", "unaudited", "killed"} # {}
=============================================================================
