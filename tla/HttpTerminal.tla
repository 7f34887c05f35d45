---------------------------- MODULE HttpTerminal ----------------------------
(***************************************************************************)
(* A terminal session over plain requests: creating it opens an SSH shell    *)
(* kept in LIVE_TERMINALS, and each command request sends to that shell,     *)
(* reads what comes within its time, and stores audit and transcript.  The   *)
(* requests of one session are not kept apart.                               *)
(*                                                                         *)
(* A command is named by the request that sends it.                          *)
(***************************************************************************)
EXTENDS Naturals, FiniteSets

CONSTANTS
    WebRequests    \* command requests of the session

VARIABLES
    webLive,     \* the session is in LIVE_TERMINALS
    webLink,     \* its SSH connection: "none", "open", "ended" (by the host), "closed"
    webShell,    \* commands the shell has yet to answer, and output not yet read
    webRow,      \* TerminalSession: status, transcript (commands); audits and their outputs
    webReq,      \* the requests: pc, kind, transcript read at the start, output read
    webFate      \* history: leaked connection, overlapping requests, slow answers

webVars == <<webLive, webLink, webShell, webRow, webReq, webFate>>

WebKinds == {"plain", "clear", "exit"}
WebPC == {"new", "run", "read", "save", "store", "done", "failed"}

WebTypeOK ==
    /\ webLive \in BOOLEAN /\ webLink \in {"none", "open", "ended", "closed"}
    /\ webShell \in [asked : SUBSET WebRequests, output : SUBSET WebRequests]
    /\ webRow \in [status : {"none", "active", "closed"}, audited : BOOLEAN,
                   transcript : SUBSET WebRequests, audits : SUBSET WebRequests,
                   outputs : [WebRequests -> SUBSET WebRequests]]
    /\ webReq \in [WebRequests -> [pc : WebPC, kind : WebKinds,
                                   transcript : SUBSET WebRequests, output : SUBSET WebRequests]]
    /\ webFate \subseteq {"leaked", "overlap", "slow"}
    /\ webLive => webLink # "none" /\ webRow.status # "none"

WebInit ==
    /\ webLive = FALSE /\ webLink = "none"
    /\ webShell = [asked |-> {}, output |-> {}]
    /\ webRow = [status |-> "none", audited |-> FALSE, transcript |-> {},
                 audits |-> {}, outputs |-> [r \in WebRequests |-> {}]]
    /\ webReq \in [WebRequests -> {[pc |-> "new", kind |-> k, transcript |-> {}, output |-> {}] :
                                     k \in WebKinds}]
    /\ webFate = {}

Running == {r \in WebRequests : webReq[r].pc \in {"run", "read", "save", "store"}}
----------------------------------------------------------------------------
\* create_terminal_session: the shell is opened and greets ...
OpenShell ==
    /\ webRow.status = "none" /\ webLink = "none"
    /\ webLink' = "open"
    /\ UNCHANGED <<webLive, webShell, webRow, webReq, webFate>>

\* ... the row is stored, and the connection is known by the row's id ...
StoreSession ==
    /\ webRow.status = "none" /\ webLink \in {"open", "ended"} /\ "leaked" \notin webFate
    /\ \E audited \in BOOLEAN : webRow' = [webRow EXCEPT !.status = "active", !.audited = audited]
    /\ webLive' = TRUE
    /\ UNCHANGED <<webLink, webShell, webReq, webFate>>

\* ... or reading or storing fails, and the connection stays open unknown.
CreateFails ==
    /\ webRow.status = "none" /\ webLink \in {"open", "ended"} /\ "leaked" \notin webFate
    /\ webFate' = webFate \cup {"leaked"}
    /\ UNCHANGED <<webLive, webLink, webShell, webRow, webReq>>

\* A command request reads the session row.
StartCommand(r) ==
    /\ webReq[r].pc = "new" /\ webRow.status # "none"
    /\ webReq' = [webReq EXCEPT ![r].pc = IF webReq[r].kind = "clear" THEN "save" ELSE "run",
                                ![r].transcript = webRow.transcript]
    /\ webFate' = IF Running = {} THEN webFate ELSE webFate \cup {"overlap"}
    /\ UNCHANGED <<webLive, webLink, webShell, webRow>>

\* run_live_terminal_command: without a connection the answer only says so.
SendToShell(r) ==
    /\ webReq[r].pc = "run"
    /\ IF webLive
       THEN /\ webReq' = [webReq EXCEPT ![r].pc = "read"]
            /\ webShell' = IF webLink = "open" THEN [webShell EXCEPT !.asked = @ \cup {r}] ELSE webShell
       ELSE /\ webReq' = [webReq EXCEPT ![r].pc = "save"] /\ UNCHANGED webShell
    /\ UNCHANGED <<webLive, webLink, webRow, webFate>>

\* The shell answers a command; exit ends it.
ShellAnswers(r) ==
    /\ r \in webShell.asked /\ webLink = "open"
    /\ webShell' = [asked |-> webShell.asked \ {r}, output |-> webShell.output \cup {r}]
    /\ webLink' = IF webReq[r].kind = "exit" THEN "ended" ELSE "open"
    /\ UNCHANGED <<webLive, webRow, webReq, webFate>>

ShellEnds ==
    /\ webLink = "open" /\ webLink' = "ended"
    /\ UNCHANGED <<webLive, webShell, webRow, webReq, webFate>>

\* Mutant: the output taken is not removed.
TakeCopy(r) ==
    /\ webReq' = [webReq EXCEPT ![r].pc = "save", ![r].output = webShell.output]
    /\ UNCHANGED webShell
    /\ webFate' = IF r \in webShell.asked THEN webFate \cup {"slow"} ELSE webFate

\* read_available: all there is; the answer to this command may come too late.
Take(r) ==
    /\ webReq' = [webReq EXCEPT ![r].pc = "save", ![r].output = webShell.output]
    /\ webShell' = [webShell EXCEPT !.output = {}]
    /\ webFate' = IF r \in webShell.asked THEN webFate \cup {"slow"} ELSE webFate

\* Mutant: exit leaves the connection to the shell's own end.
ReadAndKeep(r) ==
    /\ webReq[r].pc = "read" /\ webLink # "closed"
    /\ Take(r)
    /\ LET over == webLink = "ended" IN
         /\ webLink' = IF over THEN "closed" ELSE webLink
         /\ webLive' = (webLive /\ ~over)
    /\ UNCHANGED webRow

\* What has come is taken, whoever asked for it; after an exit, or when the
\* channel is closed, the connection is closed and forgotten.
ReadFromShell(r) ==
    /\ webReq[r].pc = "read" /\ webLink # "closed"
    /\ Take(r)
    /\ LET over == webReq[r].kind = "exit" \/ webLink = "ended" IN
         /\ webLink' = IF over THEN "closed" ELSE webLink
         /\ webLive' = (webLive /\ ~over)
    /\ UNCHANGED webRow

\* Sending or reading fails: the connection is forgotten and closed.
ShellFails(r) ==
    /\ webReq[r].pc = "read" /\ webLink \in {"ended", "closed"}
    /\ webReq' = [webReq EXCEPT ![r].pc = "save"]
    /\ webLink' = "closed" /\ webLive' = FALSE
    /\ UNCHANGED <<webShell, webRow, webFate>>

\* create_command_audit: the audit with its output is committed ...
AuditCommand(r) ==
    /\ webReq[r].pc = "save"
    /\ webRow' = IF webRow.audited
                 THEN [webRow EXCEPT !.audits = @ \cup {r}, !.outputs[r] = webReq[r].output]
                 ELSE webRow
    /\ webReq' = [webReq EXCEPT ![r].pc = "store"]
    /\ UNCHANGED <<webLive, webLink, webShell, webFate>>

\* Mutant: the transcript stored is the one of this command.
StoreAlone(r) ==
    /\ webReq[r].pc = "store"
    /\ webRow' = [webRow EXCEPT !.transcript = IF webRow.audited THEN {r} ELSE @,
                                !.status = IF webReq[r].kind = "exit" THEN "closed" ELSE @]
    /\ webReq' = [webReq EXCEPT ![r].pc = "done"]
    /\ UNCHANGED <<webLive, webLink, webShell, webFate>>

\* ... then session.save: the transcript as read at the start with this command
\* added; an exit, found running or not, closes the session.
StoreCommand(r) ==
    /\ webReq[r].pc = "store"
    /\ webRow' = [webRow EXCEPT !.transcript = IF webRow.audited THEN webReq[r].transcript \cup {r} ELSE @,
                                !.status = IF webReq[r].kind = "exit" THEN "closed" ELSE @]
    /\ webReq' = [webReq EXCEPT ![r].pc = "done"]
    /\ UNCHANGED <<webLive, webLink, webShell, webFate>>

\* Either of the two fails: the answer is an error, and what was committed stays.
StoreFails(r) ==
    /\ webReq[r].pc \in {"save", "store"}
    /\ webReq' = [webReq EXCEPT ![r].pc = "failed"]
    /\ UNCHANGED <<webLive, webLink, webShell, webRow, webFate>>

\* The server process stops and starts: connections and requests are gone.
WebRestart ==
    /\ webLink' = IF webLink = "none" THEN "none" ELSE "closed"
    /\ webLive' = FALSE /\ webShell' = [asked |-> {}, output |-> {}]
    /\ webReq' = [r \in WebRequests |-> IF r \in Running THEN [webReq[r] EXCEPT !.pc = "failed"] ELSE webReq[r]]
    /\ UNCHANGED <<webRow, webFate>>

WebCommand(r) ==
    \/ StartCommand(r) \/ SendToShell(r) \/ ShellAnswers(r) \/ ReadFromShell(r)
    \/ ShellFails(r) \/ AuditCommand(r) \/ StoreCommand(r) \/ StoreFails(r)

WebNext ==
    \/ OpenShell \/ StoreSession \/ CreateFails \/ ShellEnds \/ WebRestart
    \/ \E r \in WebRequests : WebCommand(r)
WebSpec == WebInit /\ [][WebNext]_webVars
----------------------------------------------------------------------------
(* Properties. *)

\* A closed session has no connection, and no request that began before the exit
\* opens it again.
ExitIsFinal ==
    [][webRow'.status = "closed" => ~webLive' /\ webLink' \in {"none", "closed"}
       /\ (webRow.status = "closed" => webRow'.status = "closed")]_webVars

\* When commands were sent one after another and answered in time, an audit has the
\* output of its own command, every command answered without error is in the transcript,
\* and what is in the transcript is audited.  A failure, or a stop, between the two
\* commits leaves an audit that the transcript does not show.
OneAfterAnother ==
    webFate \cap {"overlap", "slow"} = {} /\ webRow.audited =>
      \A r \in WebRequests :
        /\ webRow.outputs[r] \subseteq {r}
        /\ webReq[r].pc = "done" => r \in webRow.transcript
        /\ r \in webRow.transcript => r \in webRow.audits
=============================================================================
