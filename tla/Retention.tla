------------------------------ MODULE Retention ------------------------------
(* backend/system_management: cleanup_expired_logs of services.py, the command
   cleanup_logs, views/logs.py, validate_log_retention_value; the rows of
   web_terminal/models.py that are removed.

   A pass of the cleanup, started by a timer of the host, removes what is older than
   the days set, kind after kind, each in a transaction of its own, while terminals
   go on writing.  Login logs are treated as operation logs are and left out.  An
   audit is of a command or of a file. *)
EXTENDS Naturals, FiniteSets

CONSTANTS
    LastDay,               \* bound: days
    MaxPasses,             \* bound: passes of the cleanup
    TermSessions, Audits, Logs,  \* bound: rows
    NoSession

ASSUME RetentionAssumption ==
    NoSession \notin TermSessions /\ LastDay \in Nat \ {0} /\ MaxPasses \in Nat

VARIABLES
    day,
    setting,    \* days the rows of a kind are kept; 0: for ever
    termRow,    \* TerminalSession rows
    auditRow,   \* TerminalCommandAudit and TerminalFileAudit rows
    logRow,     \* OperationLog rows
    pass,       \* the cleanup; audits is a history: those there were when it looked at the sessions
    kept        \* history: sessions the pass had a reason to keep

retentionVars == <<day, setting, termRow, auditRow, logRow, pass, kept>>

Days    == 0..LastDay
Settings == {"logs", "sessions", "command", "file", "recording"}
RowStates == {"free", "live", "gone"}
TermRow  == [is : RowStates, born : Days, file : BOOLEAN]
AuditRow == [is : RowStates, born : Days, kind : {"command", "file"}, of : TermSessions \cup {NoSession}]
LogRow   == [is : RowStates, born : Days]
GoneTerm  == [is |-> "gone", born |-> 0, file |-> FALSE]
GoneAudit == [is |-> "gone", born |-> 0, kind |-> "file", of |-> NoSession]
GoneLog   == [is |-> "gone", born |-> 0]
Passing  == {"idle", "logs", "sessions", "collected", "command", "file", "recording", "ok", "error"}

RetentionTypeOK ==
    /\ day \in Days /\ setting \in [Settings -> Days]
    /\ termRow \in [TermSessions -> TermRow] /\ auditRow \in [Audits -> AuditRow]
    /\ logRow \in [Logs -> LogRow]
    /\ pass \in [pc : Passing, nr : 0..MaxPasses, now : Days, days : [Settings -> Days],
                 picked : SUBSET TermSessions, audits : SUBSET Audits]
    /\ kept \subseteq TermSessions
    \* a command has its session: the foreign key
    /\ \A a \in Audits : auditRow[a].is = "live" /\ auditRow[a].kind = "command"
                           => auditRow[a].of \in TermSessions /\ termRow[auditRow[a].of].is = "live"

Has(s) == {a \in Audits : auditRow[a].is = "live" /\ auditRow[a].of = s}
----------------------------------------------------------------------------
(* Rows are written. *)

OpenTerminal(s) == \E file \in BOOLEAN :
    /\ termRow[s].is = "free"
    /\ termRow' = [termRow EXCEPT ![s] = [is |-> "live", born |-> day, file |-> file]]
    /\ UNCHANGED <<logRow, day, setting, auditRow, pass, kept>>

\* record_operation_log; _delete_logs, by ids or all of them. 
WriteLogRow(l) ==
    /\ logRow[l].is = "free" /\ logRow' = [logRow EXCEPT ![l] = [is |-> "live", born |-> day]]
    /\ UNCHANGED <<day, setting, termRow, auditRow, pass, kept>>
DeleteLogs(l) ==
    /\ logRow[l].is = "live" /\ logRow' = [logRow EXCEPT ![l] = GoneLog]
    /\ UNCHANGED <<day, setting, termRow, auditRow, pass, kept>>

\* create_command_audit; record_file_audit, whose session may be none.
WriteAudit(a) == \E kind \in {"command", "file"}, s \in TermSessions \cup {NoSession} :
    /\ auditRow[a].is = "free"
    /\ IF s = NoSession THEN kind = "file" ELSE termRow[s].is = "live"
    /\ auditRow' = [auditRow EXCEPT ![a] = [is |-> "live", born |-> day, kind |-> kind, of |-> s]]
    /\ UNCHANGED <<logRow, day, setting, termRow, pass, kept>>

\* managed_host_detail: a host goes with its sessions and its audits, of sessions or not.
DeleteHost == \E gone \in SUBSET TermSessions, loose \in SUBSET Audits :
    /\ gone # {} \/ loose # {}
    /\ \A s \in gone : termRow[s].is = "live"
    /\ \A a \in loose : auditRow[a].is = "live" /\ auditRow[a].of = NoSession
    /\ termRow' = [s \in TermSessions |-> IF s \in gone THEN GoneTerm ELSE termRow[s]]
    /\ auditRow' = [a \in Audits |->
         IF auditRow[a].is = "live" /\ (a \in loose \/ auditRow[a].of \in gone)
         THEN GoneAudit ELSE auditRow[a]]
    /\ UNCHANGED <<logRow, day, setting, pass, kept>>

NextDay == /\ day < LastDay /\ day' = day + 1
           /\ UNCHANGED <<logRow, setting, termRow, auditRow, pass, kept>>

\* validate_log_retention_value: any of the days from 0 to the greatest.
\* Bound: of audits of commands, while a pass is under way.
SaveSetting == \E k \in {"command"}, d \in Days :
    /\ pass.pc \notin {"idle", "ok", "error"} /\ d # setting[k] /\ setting' = [setting EXCEPT ![k] = d]
    /\ UNCHANGED <<logRow, day, termRow, auditRow, pass, kept>>
----------------------------------------------------------------------------
(* The pass: one step a kind. *)

PassTo(pc) == pass' = [pass EXCEPT !.pc = pc]

\* get_log_retention_setting is read once, but for the recordings'.
StartPass ==
    /\ pass.pc \in {"idle", "ok", "error"}
    /\ pass.nr < MaxPasses
    /\ pass' = [pc |-> "logs", nr |-> pass.nr + 1, now |-> day, days |-> setting, picked |-> {},
                audits |-> {}]
    /\ kept' = {} /\ UNCHANGED <<logRow, day, setting, termRow, auditRow>>

\* retention_cutoff: created before now less the days.
TooOld(born, k) == pass.days[k] > 0 /\ born + pass.days[k] < pass.now

CleanLogs ==
    /\ pass.pc = "logs" /\ PassTo("sessions")
    /\ logRow' = [l \in Logs |->
                    IF logRow[l].is = "live" /\ TooOld(logRow[l].born, "logs")
                    THEN GoneLog ELSE logRow[l]]
    /\ UNCHANGED <<day, setting, termRow, auditRow, kept>>

\* Mutant: sessions go by their age alone.
AnyBare(s) == ~termRow[s].file
\* A session without recording and without audits.
Bare(s) == ~termRow[s].file /\ Has(s) = {}

Old == {s \in TermSessions : termRow[s].is = "live" /\ TooOld(termRow[s].born, "sessions")}

\* QuerySet.delete looks for the sessions ...
CollectSessions ==
    /\ pass.pc = "sessions"
    /\ pass' = [pass EXCEPT !.pc = "collected", !.picked = {s \in Old : Bare(s)},
                            !.audits = {a \in Audits : auditRow[a].is = "live"}]
    /\ kept' = {s \in Old : termRow[s].file \/ Has(s) # {}}
    /\ UNCHANGED <<logRow, day, setting, termRow, auditRow>>

\* ... then, in one transaction, deletes the commands they have by now, takes them from
\* the files they have by now, and deletes them.
DeleteSessions ==
    LET TheirsNow == {a \in Audits : auditRow[a].is = "live" /\ auditRow[a].of \in pass.picked} IN
    /\ pass.pc = "collected" /\ PassTo("command")
    /\ termRow' = [s \in TermSessions |-> IF s \in pass.picked THEN GoneTerm ELSE termRow[s]]
    /\ auditRow' = [a \in Audits |->
         IF a \notin TheirsNow THEN auditRow[a]
         ELSE IF auditRow[a].kind = "file" THEN [auditRow[a] EXCEPT !.of = NoSession]
         ELSE GoneAudit]
    /\ UNCHANGED <<logRow, day, setting, kept>>

\* Mutant: audits of files are passed over.
AfterCommands == "recording"
NextKind == "file"

CleanAudits == \E kind \in {"command", "file"} :
    /\ pass.pc = kind /\ PassTo(IF kind = "command" THEN NextKind ELSE "recording")
    /\ auditRow' = [a \in Audits |->
         IF auditRow[a].is = "live" /\ auditRow[a].kind = kind /\ TooOld(auditRow[a].born, kind)
         THEN GoneAudit ELSE auditRow[a]]
    /\ UNCHANGED <<logRow, day, setting, termRow, kept>>

\* cleanup_expired_rdp_recordings reads its days anew; the files are RemoteDesktop's.
CleanRecordings ==
    /\ pass.pc = "recording" /\ PassTo("ok")
    /\ termRow' = [s \in TermSessions |->
         IF setting["recording"] > 0 /\ termRow[s].born + setting["recording"] < pass.now
         THEN [termRow[s] EXCEPT !.file = FALSE] ELSE termRow[s]]
    /\ UNCHANGED <<logRow, day, setting, auditRow, kept>>

\* The process of the command stops, or the database refuses: a command that came between
\* the statements of DeleteSessions has a session that is gone.
StopPass == /\ pass.pc \notin {"idle", "ok", "error"} /\ PassTo("error")
            /\ UNCHANGED <<logRow, day, setting, termRow, auditRow, kept>>
----------------------------------------------------------------------------
RetentionInit ==
    /\ day = 0 /\ setting \in [Settings -> 0..1]
    /\ termRow = [s \in TermSessions |-> [is |-> "free", born |-> 0, file |-> FALSE]]
    /\ auditRow = [a \in Audits |-> [is |-> "free", born |-> 0, kind |-> "file", of |-> NoSession]]
    /\ logRow = [l \in Logs |-> [is |-> "free", born |-> 0]]
    /\ pass = [pc |-> "idle", nr |-> 0, now |-> 0, days |-> setting, picked |-> {}, audits |-> {}]
    /\ kept = {}

RetentionNext ==
    \/ NextDay \/ DeleteHost \/ SaveSetting \/ StartPass \/ CleanLogs \/ CollectSessions \/ DeleteSessions
    \/ CleanAudits \/ CleanRecordings \/ StopPass
    \/ \E l \in Logs : WriteLogRow(l) \/ DeleteLogs(l)
    \/ \E s \in TermSessions : OpenTerminal(s)
    \/ \E a \in Audits : WriteAudit(a)

RetentionSpec == RetentionInit /\ [][RetentionNext]_retentionVars
----------------------------------------------------------------------------
(* Properties. *)

\* A pass removes an audit only when it is older than the days set for its own kind: never
\* with its session, whose days may be fewer, but if it was written after the pass had
\* looked at the session and found none.
AuditsOutliveSessions ==
    [][pass' # pass => \A a \in Audits : auditRow[a].is = "live" /\ auditRow'[a].is = "gone"
         => \/ TooOld(auditRow[a].born, auditRow[a].kind)
            \/ pass.pc = "collected" /\ a \notin pass.audits]_retentionVars

\* After a pass that ended well nothing is left that had to go when it began: sessions that
\* stayed had a recording or audits when it looked, and go with the next pass.
PassCleans == pass.pc = "ok" =>
    /\ \A l \in Logs : logRow[l].is = "live" => ~TooOld(logRow[l].born, "logs")
    /\ \A a \in Audits : auditRow[a].is = "live" => ~TooOld(auditRow[a].born, auditRow[a].kind)
    /\ Old \subseteq kept
=============================================================================
