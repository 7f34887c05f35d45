--------------------------- MODULE BulkExecution ---------------------------
(***************************************************************************)
(* Bulk execution: a task runs one shell command, or uploads some files,   *)
(* on many hosts.  Creating it starts a thread of the server process (the  *)
(* runner), which hands the hosts to a pool of at most Forks jobs.  Other  *)
(* requests cancel, inspect, list and delete tasks meanwhile, and the      *)
(* first listing after a restart fails the tasks found running.            *)
(*                                                                         *)
(* A request that reads a row and writes it later is two or three actions, *)
(* remembered in view[v].  The runner and its jobs work on their own       *)
(* copies and save single fields; a save of a deleted row raises, a queryset *)
(* update of one does nothing.                                             *)
(*                                                                         *)
(* Left out: texts, outputs, exit codes (a job ends in "won" or "lost",    *)
(* as run_plain_shell_result judges it), permissions, the check that the   *)
(* remote file is new.                                                     *)
(***************************************************************************)
EXTENDS Naturals, FiniteSets

CONSTANTS
    Tasks,        \* bound: tasks ever created
    Hosts,        \* managed hosts with SSH credentials
    MaxFiles,     \* bound: files of an upload
    Forks,        \* BULK_EXECUTION_FORKS
    TaskKinds,    \* what the users create, a subset of {"shell", "upload"}
    Views,        \* slots for API requests in flight
    ViewKinds,    \* bound: which requests are made, of "cancel", "detail",
                  \* "list", "delete", "host" (the removal of a host)
    MaxCrashes    \* bound: stops of the server process

ASSUME BulkAssumption ==
    /\ IsFiniteSet(Hosts)
    /\ MaxFiles \in Nat \ {0} /\ Forks \in Nat \ {0} /\ MaxCrashes \in Nat
    /\ TaskKinds \subseteq {"shell", "upload"}
    /\ ViewKinds \subseteq {"cancel", "detail", "list", "delete", "host"}

Files == 1..MaxFiles

VARIABLES
    task,     \* BulkExecutionTask rows
    result,   \* BulkExecutionResult rows: task -> host -> status
    item,     \* BulkExecutionTransferItem rows: task -> file -> host -> status
    hosts,    \* the ManagedHost rows that still exist
    runner,   \* the thread of each task
    job,      \* the pool job of each task and host
    view,     \* requests in flight
    checked,  \* _interrupted_tasks_checked of this server process
    crashes,  \* stops so far
    effect,   \* history: task -> file -> hosts where it took effect
    late      \* history: effects begun after the cancellation was saved

vars == <<task, result, item, hosts, runner, job, view, checked, crashes, effect, late>>
rows == <<task, result, item>>
past == <<effect, late>>

Final      == {"success", "failed", "skipped"}
Unfinished == {"pending", "running"}
Progress   == Final \cup Unfinished \cup {"none"}
Status     == {"none", "queued", "running", "completed", "failed", "canceled", "deleted"}

RunnerPC == {"none", "start", "open", "file", "pool", "aggregate", "judge", "close",
             "over", "lost"}
JobPC    == {"idle", "check", "begin", "exec", "won", "lost", "done", "canceled", "raised"}
Reapable == {"done", "canceled", "raised"}
ViewPC   == {"ready", "skip", "cancel", "flag", "counts", "marktasks", "markresults"}

\* The counters of the task list: finished results by how they ended.
CountsOf(res) == [s \in Final |-> Cardinality({h \in Hosts : res[h] = s})]
NoCounts      == [s \in Final |-> 0]

TaskRow == [status : Status, kind : {"shell", "upload"}, cancel : BOOLEAN,
            counts : [Final -> 0..Cardinality(Hosts)]]
Runner  == [pc : RunnerPC, targets : SUBSET Hosts, file : 0..MaxFiles,
            pending : SUBSET Hosts, canceled : BOOLEAN, verdict : Status]
View    == [pc : ViewPC, ids : SUBSET Tasks, counts : [Final -> 0..Cardinality(Hosts)]]

NoTask   == [status |-> "none", kind |-> "shell", cancel |-> FALSE, counts |-> NoCounts]
NoRunner == [pc |-> "none", targets |-> {}, file |-> 0, pending |-> {},
             canceled |-> FALSE, verdict |-> "none"]
Ready    == [pc |-> "ready", ids |-> {}, counts |-> NoCounts]

TypeOK ==
    /\ task \in [Tasks -> TaskRow]
    /\ result \in [Tasks -> [Hosts -> Progress]]
    /\ item \in [Tasks -> [Files -> [Hosts -> Progress]]]
    /\ hosts \subseteq Hosts
    /\ runner \in [Tasks -> Runner]
    /\ job \in [Tasks -> [Hosts -> JobPC]]
    /\ view \in [Views -> View]
    /\ checked \in BOOLEAN
    /\ crashes \in 0..MaxCrashes
    /\ effect \in [Tasks -> [Files -> SUBSET Hosts]]
    /\ late \in [Tasks -> Nat]

Init ==
    /\ task = [t \in Tasks |-> NoTask]
    /\ result = [t \in Tasks |-> [h \in Hosts |-> "none"]]
    /\ item = [t \in Tasks |-> [f \in Files |-> [h \in Hosts |-> "none"]]]
    /\ hosts = Hosts
    /\ runner = [t \in Tasks |-> NoRunner]
    /\ job = [t \in Tasks |-> [h \in Hosts |-> "idle"]]
    /\ view = [v \in Views |-> Ready]
    /\ checked = FALSE
    /\ crashes = 0
    /\ effect = [t \in Tasks |-> [f \in Files |-> {}]]
    /\ late = [t \in Tasks |-> 0]

-----------------------------------------------------------------------------
(* Rows *)

Exists(t)   == task[t].status \notin {"none", "deleted"}
IsUpload(t) == task[t].kind = "upload"
FilesOf(t)  == IF IsUpload(t) THEN Files ELSE {1}

\* Mutant of CancelRequested: the flag is never seen.
NeverCanceled(t) == FALSE

CancelRequested(t) == Exists(t) /\ task[t].cancel

\* A queryset update: the rows in a status of "from" get the status "to".
Marked(res, from, to) == [h \in Hosts |-> IF res[h] \in from THEN to ELSE res[h]]
MarkItems(t, from, to) ==
    item' = [item EXCEPT ![t] = [f \in Files |-> Marked(item[t][f], from, to)]]

\* A result is saved and the counters are refreshed from all of them.
SaveResult(t, h, status) ==
    /\ result' = [result EXCEPT ![t][h] = status]
    /\ task' = [task EXCEPT ![t].counts = CountsOf([result[t] EXCEPT ![h] = status])]
    /\ UNCHANGED item

\* The item of the current file is saved; the result follows in the end.
SaveItem(t, h, status) ==
    /\ item' = [item EXCEPT ![t][runner[t].file][h] = status]
    /\ UNCHANGED <<task, result>>

SaveOutcome(t, h, status) ==
    IF IsUpload(t) THEN SaveItem(t, h, status) ELSE SaveResult(t, h, status)

RunnerAt(t, pc) == runner[t].pc = pc
RunnerTo(t, pc) == runner' = [runner EXCEPT ![t].pc = pc]
JobAt(t, h, pc) == job[t][h] = pc
JobTo(t, h, pc) == job' = [job EXCEPT ![t][h] = pc]
ViewAt(v, pc)   == view[v].pc = pc
Respond(v)      == view' = [view EXCEPT ![v] = Ready]
Width(t)        == IF Cardinality(runner[t].targets) < Forks
                     THEN Cardinality(runner[t].targets) ELSE Forks
Working(t)      == {h \in Hosts : job[t][h] # "idle"}

-----------------------------------------------------------------------------
(* POST tasks: the rows in one transaction, then the thread. *)

Create(t, kind) ==
    /\ task[t].status = "none" /\ hosts # {}
    /\ task' = [task EXCEPT ![t] = [NoTask EXCEPT !.status = "queued", !.kind = kind]]
    /\ result' = [result EXCEPT ![t] = [h \in Hosts |-> IF h \in hosts THEN "pending"
                                                                       ELSE "none"]]
    /\ item' = IF kind = "upload"
                 THEN [item EXCEPT ![t] = [f \in Files |-> result'[t]]]
                 ELSE item
    /\ RunnerTo(t, "start")
    /\ UNCHANGED <<hosts, job, view, checked, crashes, past>>

-----------------------------------------------------------------------------
(* run_bulk_execution_task *)

\* "running", whatever the status is by now; the cancellation flag stays.
Start(t) ==
    /\ RunnerAt(t, "start")
    /\ IF Exists(t)
         THEN task' = [task EXCEPT ![t].status = "running"] /\ RunnerTo(t, "open")
         ELSE UNCHANGED task /\ RunnerTo(t, "over")
    /\ UNCHANGED <<result, item, hosts, job, view, checked, crashes, past>>

\* The hosts that are left become the targets; without any the task has failed.
Open(t) ==
    /\ RunnerAt(t, "open")
    /\ LET there == {h \in hosts : result[t][h] # "none"} IN
         IF there = {}
           THEN /\ result' = [result EXCEPT ![t] = Marked(@, Unfinished, "skipped")]
                /\ runner' = [runner EXCEPT ![t].pc = "close", ![t].verdict = "failed"]
           ELSE /\ result' = IF IsUpload(t) THEN result
                             ELSE [result EXCEPT ![t] = [h \in Hosts |->
                                     IF @[h] # "none" /\ h \notin there THEN "skipped"
                                                                       ELSE @[h]]]
                /\ runner' = [runner EXCEPT ![t] =
                                [@ EXCEPT !.targets = there, !.file = 1,
                                          !.pending = IF IsUpload(t) THEN {} ELSE there,
                                          !.pc = IF IsUpload(t) THEN "file" ELSE "pool"]]
    /\ UNCHANGED <<task, item, hosts, job, view, checked, crashes, past>>

\* The next file of an upload; it is skipped on the hosts that are gone.
OpenFile(t) ==
    /\ RunnerAt(t, "file")
    /\ IF CancelRequested(t)
         THEN /\ runner' = [runner EXCEPT ![t].pc = "judge", ![t].canceled = TRUE]
              /\ UNCHANGED item
         ELSE /\ runner' = [runner EXCEPT ![t].pc = "pool",
                              ![t].pending = IF Exists(t) THEN @ \cup runner[t].targets ELSE @]
              /\ item' = [item EXCEPT ![t][runner[t].file] = [h \in Hosts |->
                            IF @[h] # "none" /\ h \notin runner[t].targets
                              THEN "skipped" ELSE @[h]]]
    /\ UNCHANGED <<task, result, hosts, job, view, checked, crashes, past>>

\* The pool takes another host while it has room ...
Submit(t, h) ==
    /\ RunnerAt(t, "pool") /\ h \in runner[t].pending
    /\ ~CancelRequested(t)
    /\ Cardinality(Working(t)) < Width(t)
    /\ runner' = [runner EXCEPT ![t].pending = @ \ {h}]
    /\ JobTo(t, h, "check")
    /\ UNCHANGED <<rows, hosts, view, checked, crashes, past>>

\* ... and drops the waiting ones once a cancellation is seen.
DropPending(t) ==
    /\ RunnerAt(t, "pool") /\ runner[t].pending # {}
    /\ CancelRequested(t)
    /\ runner' = [runner EXCEPT ![t].pending = {}, ![t].canceled = TRUE]
    /\ IF IsUpload(t)
         THEN /\ item' = [item EXCEPT ![t][runner[t].file] = [h \in Hosts |->
                            IF h \in runner[t].pending THEN "skipped" ELSE @[h]]]
              /\ UNCHANGED result
         ELSE /\ result' = [result EXCEPT ![t] = [h \in Hosts |->
                              IF h \in runner[t].pending /\ @[h] = "pending"
                                THEN "skipped" ELSE @[h]]]
              /\ UNCHANGED item
    /\ UNCHANGED <<task, hosts, job, view, checked, crashes, past>>

\* Mutant of Reap: a job that ended by cancellation stays in the pool.
ReapOthers(t, h) ==
    /\ RunnerAt(t, "pool") /\ job[t][h] \in {"done", "raised"}
    /\ JobTo(t, h, "idle")
    /\ UNCHANGED <<rows, hosts, runner, view, checked, crashes, past>>

\* A job is over.  An exception, which only a deleted row causes, ends the pool
\* of a command; the pool of a file ignores it unless it has one place only.
Reap(t, h) ==
    /\ RunnerAt(t, "pool") /\ job[t][h] \in Reapable
    /\ JobTo(t, h, "idle")
    /\ LET stop == JobAt(t, h, "raised") /\ (~IsUpload(t) \/ Width(t) = 1) IN
         runner' = [runner EXCEPT
                      ![t].canceled = @ \/ JobAt(t, h, "canceled") \/ CancelRequested(t),
                      ![t].pending = IF stop THEN {} ELSE @,
                      ![t].verdict = IF stop THEN "failed" ELSE @]
    /\ UNCHANGED <<rows, hosts, view, checked, crashes, past>>

PoolDone(t) ==
    /\ RunnerAt(t, "pool") /\ runner[t].pending = {} /\ Working(t) = {}
    /\ LET r == runner[t] IN
         IF r.verdict = "failed" THEN RunnerTo(t, "close")
         ELSE IF r.canceled \/ ~IsUpload(t) THEN RunnerTo(t, "judge")
         ELSE IF r.file = MaxFiles THEN RunnerTo(t, "aggregate")
         ELSE runner' = [runner EXCEPT ![t].pc = "file", ![t].file = @ + 1]
    /\ UNCHANGED <<rows, hosts, job, view, checked, crashes, past>>

\* Mutant of Aggregated: one file that arrived is enough.
AggregatedAny(t, h) ==
    IF \E f \in Files : item[t][f][h] = "success" THEN "success"
    ELSE IF \A f \in Files : item[t][f][h] = "skipped" THEN "skipped" ELSE "failed"

\* What the items of a host make of its result.
Aggregated(t, h) ==
    IF \A f \in Files : item[t][f][h] = "success" THEN "success"
    ELSE IF \A f \in Files : item[t][f][h] = "skipped" THEN "skipped" ELSE "failed"

Aggregate(t) ==
    /\ RunnerAt(t, "aggregate")
    /\ result' = [result EXCEPT ![t] = [h \in Hosts |->
                    IF @[h] = "none" THEN "none" ELSE Aggregated(t, h)]]
    /\ RunnerTo(t, "judge")
    /\ UNCHANGED <<task, item, hosts, job, view, checked, crashes, past>>

\* Mutant of Judge: what a cancellation left open stays open.
JudgeOnly(t) ==
    /\ RunnerAt(t, "judge")
    /\ runner' = [runner EXCEPT ![t].pc = "close",
                    ![t].verdict = IF runner[t].canceled THEN "canceled" ELSE "completed"]
    /\ UNCHANGED <<rows, hosts, job, view, checked, crashes, past>>

\* The flag is read once more; what is still open is closed, then judged.
Judge(t) ==
    /\ RunnerAt(t, "judge")
    /\ IF Exists(t)
         THEN LET canceled == runner[t].canceled \/ task[t].cancel
                  rest     == IF canceled THEN "skipped" ELSE "failed"
                  closed   == Marked(result[t], Unfinished, rest) IN
              /\ result' = [result EXCEPT ![t] = closed]
              /\ MarkItems(t, Unfinished, rest)
              /\ runner' = [runner EXCEPT ![t].pc = "close",
                              ![t].verdict = IF canceled THEN "canceled"
                                             ELSE IF \E h \in Hosts : closed[h] = "failed"
                                               THEN "failed" ELSE "completed"]
         ELSE /\ runner' = [runner EXCEPT ![t].pc = "close", ![t].verdict = "failed"]
              /\ UNCHANGED <<result, item>>
    /\ UNCHANGED <<task, hosts, job, view, checked, crashes, past>>

\* The finally clause; on a deleted task it raises and the thread is over.
Close(t) ==
    /\ RunnerAt(t, "close")
    /\ task' = IF Exists(t)
                 THEN [task EXCEPT ![t].status = runner[t].verdict,
                                   ![t].counts = CountsOf(result[t])]
                 ELSE task
    /\ RunnerTo(t, "over")
    /\ UNCHANGED <<result, item, hosts, job, view, checked, crashes, past>>

-----------------------------------------------------------------------------
(* run_plain_shell_result and run_upload_transfer *)

Check(t, h) ==
    /\ JobAt(t, h, "check")
    /\ IF ~Exists(t) THEN JobTo(t, h, "raised") /\ UNCHANGED rows
       ELSE IF CancelRequested(t)
              THEN JobTo(t, h, "canceled") /\ SaveOutcome(t, h, "skipped")
              ELSE JobTo(t, h, "begin") /\ UNCHANGED rows
    /\ UNCHANGED <<hosts, runner, view, checked, crashes, past>>

\* The rows are read again and marked running, whatever they hold.
Begin(t, h) ==
    /\ JobAt(t, h, "begin")
    /\ IF ~Exists(t) THEN JobTo(t, h, "raised") /\ UNCHANGED rows
       ELSE IF h \notin hosts
              THEN JobTo(t, h, "done") /\ SaveOutcome(t, h, "skipped")
              ELSE /\ JobTo(t, h, "exec")
                   /\ result' = [result EXCEPT ![t][h] = "running"]
                   /\ item' = IF IsUpload(t)
                                THEN [item EXCEPT ![t][runner[t].file][h] = "running"]
                                ELSE item
                   /\ UNCHANGED task
    /\ UNCHANGED <<hosts, runner, view, checked, crashes, past>>

\* The command runs on the host, or the file is sent to it.
Execute(t, h) ==
    /\ JobAt(t, h, "exec")
    /\ \/ /\ JobTo(t, h, "won")
          /\ effect' = [effect EXCEPT ![t][runner[t].file] = @ \cup {h}]
       \/ JobTo(t, h, "lost") /\ UNCHANGED effect
    /\ late' = [late EXCEPT ![t] = IF task[t].cancel THEN @ + 1 ELSE @]
    /\ UNCHANGED <<rows, hosts, runner, view, checked, crashes>>

\* Mutant of SaveJob: the status of a task is used for a result.
SaveAsCompleted(t, h) ==
    /\ job[t][h] \in {"won", "lost"} /\ Exists(t)
    /\ JobTo(t, h, "done") /\ SaveOutcome(t, h, "completed")
    /\ UNCHANGED <<hosts, runner, view, checked, crashes, past>>

SaveJob(t, h) ==
    /\ job[t][h] \in {"won", "lost"}
    /\ IF Exists(t)
         THEN /\ JobTo(t, h, "done")
              /\ SaveOutcome(t, h, IF JobAt(t, h, "won") THEN "success" ELSE "failed")
         ELSE JobTo(t, h, "raised") /\ UNCHANGED rows
    /\ UNCHANGED <<hosts, runner, view, checked, crashes, past>>

-----------------------------------------------------------------------------
(* Requests on a task *)

\* POST cancel reads the status: a queued task is canceled here and now, a
\* running one is flagged.
Cancel(v, t) ==
    /\ ViewAt(v, "ready") /\ task[t].status \in {"queued", "running"}
    /\ view' = [view EXCEPT ![v].ids = {t},
                  ![v].pc = IF task[t].status = "queued" THEN "skip" ELSE "flag"]
    /\ UNCHANGED <<rows, hosts, runner, job, checked, crashes, past>>

\* First the results, and the counters ...
SkipResults(v, t) ==
    /\ ViewAt(v, "skip") /\ view[v].ids = {t}
    /\ IF Exists(t)
         THEN LET closed == Marked(result[t], Unfinished, "skipped") IN
              /\ result' = [result EXCEPT ![t] = closed]
              /\ task' = [task EXCEPT ![t].counts = CountsOf(closed)]
              /\ view' = [view EXCEPT ![v].pc = "cancel", ![v].counts = CountsOf(closed)]
         ELSE Respond(v) /\ UNCHANGED <<task, result>>
    /\ UNCHANGED <<item, hosts, runner, job, checked, crashes, past>>

\* ... then the task, whatever has become of it.
SaveCanceled(v, t) ==
    /\ ViewAt(v, "cancel") /\ view[v].ids = {t}
    /\ task' = IF Exists(t)
                 THEN [task EXCEPT ![t] = [@ EXCEPT !.status = "canceled", !.cancel = TRUE,
                                                    !.counts = view[v].counts]]
                 ELSE task
    /\ Respond(v)
    /\ UNCHANGED <<result, item, hosts, runner, job, checked, crashes, past>>

SaveFlag(v, t) ==
    /\ ViewAt(v, "flag") /\ view[v].ids = {t}
    /\ task' = IF Exists(t) THEN [task EXCEPT ![t].cancel = TRUE] ELSE task
    /\ Respond(v)
    /\ UNCHANGED <<result, item, hosts, runner, job, checked, crashes, past>>

\* GET task: the counters are computed, then saved.
Detail(v, t) ==
    /\ ViewAt(v, "ready") /\ Exists(t)
    /\ view' = [view EXCEPT ![v] = [pc |-> "counts", ids |-> {t},
                                    counts |-> CountsOf(result[t])]]
    /\ UNCHANGED <<rows, hosts, runner, job, checked, crashes, past>>

SaveCounts(v, t) ==
    /\ ViewAt(v, "counts") /\ view[v].ids = {t}
    /\ task' = IF Exists(t) THEN [task EXCEPT ![t].counts = view[v].counts] ELSE task
    /\ Respond(v)
    /\ UNCHANGED <<result, item, hosts, runner, job, checked, crashes, past>>

\* GET tasks: the first listing of this process looks for interrupted tasks,
\* fails them, and then their running results.
List(v) ==
    /\ ViewAt(v, "ready") /\ ~checked
    /\ view' = [view EXCEPT ![v].pc = "marktasks",
                  ![v].ids = {t \in Tasks : task[t].status = "running"}]
    /\ UNCHANGED <<rows, hosts, runner, job, checked, crashes, past>>

MarkTasks(v) ==
    /\ ViewAt(v, "marktasks")
    /\ task' = [t \in Tasks |-> IF t \in view[v].ids /\ Exists(t)
                                  THEN [task[t] EXCEPT !.status = "failed"] ELSE task[t]]
    /\ view' = [view EXCEPT ![v].pc = "markresults"]
    /\ UNCHANGED <<result, item, hosts, runner, job, checked, crashes, past>>

MarkResults(v) ==
    /\ ViewAt(v, "markresults")
    /\ result' = [t \in Tasks |-> IF t \in view[v].ids
                                    THEN Marked(result[t], {"running"}, "failed")
                                    ELSE result[t]]
    /\ checked' = TRUE
    /\ Respond(v)
    /\ UNCHANGED <<task, item, hosts, runner, job, crashes, past>>

\* DELETE task, in any status; its results and items go with it.
Delete(t) ==
    /\ Exists(t)
    /\ task' = [task EXCEPT ![t].status = "deleted"]
    /\ result' = [result EXCEPT ![t] = [h \in Hosts |-> "none"]]
    /\ item' = [item EXCEPT ![t] = [f \in Files |-> [h \in Hosts |-> "none"]]]
    /\ UNCHANGED <<hosts, runner, job, view, checked, crashes, past>>

\* A host is removed in host management.
RemoveHost(h) ==
    /\ h \in hosts
    /\ hosts' = hosts \ {h}
    /\ UNCHANGED <<rows, runner, job, view, checked, crashes, past>>

\* The server process stops and is started again; its threads are daemons.
Restart ==
    /\ crashes < MaxCrashes
    /\ crashes' = crashes + 1
    /\ runner' = [t \in Tasks |-> IF runner[t].pc \in {"none", "over"}
                                    THEN runner[t] ELSE [runner[t] EXCEPT !.pc = "lost"]]
    /\ job' = [t \in Tasks |-> [h \in Hosts |-> "idle"]]
    /\ view' = [v \in Views |-> Ready]
    /\ checked' = FALSE
    /\ UNCHANGED <<rows, hosts, past>>

-----------------------------------------------------------------------------

RunnerStep(t) ==
    \/ Start(t) \/ Open(t) \/ OpenFile(t) \/ DropPending(t) \/ PoolDone(t)
    \/ Aggregate(t) \/ Judge(t) \/ Close(t)
    \/ \E h \in Hosts : Submit(t, h) \/ Reap(t, h)

JobStep(t, h) == Check(t, h) \/ Begin(t, h) \/ Execute(t, h) \/ SaveJob(t, h)

ViewStep(v) ==
    \/ \E t \in Tasks : \/ SkipResults(v, t) \/ SaveCanceled(v, t) \/ SaveFlag(v, t)
                        \/ SaveCounts(v, t)
    \/ MarkTasks(v) \/ MarkResults(v)

UserStep ==
    \/ \E t \in Tasks, kind \in TaskKinds : Create(t, kind)
    \/ \E v \in Views, t \in Tasks : \/ "cancel" \in ViewKinds /\ Cancel(v, t)
                                     \/ "detail" \in ViewKinds /\ Detail(v, t)
    \/ \E v \in Views : "list" \in ViewKinds /\ List(v)
    \/ \E t \in Tasks : "delete" \in ViewKinds /\ Delete(t)
    \/ \E h \in Hosts : "host" \in ViewKinds /\ RemoveHost(h)

Next ==
    \/ UserStep \/ Restart
    \/ \E t \in Tasks : RunnerStep(t) \/ \E h \in Hosts : JobStep(t, h)
    \/ \E v \in Views : ViewStep(v)

Spec == Init /\ [][Next]_vars

\* Threads run on while the process lives.  Nothing is assumed of users and
\* requests, and nothing of a command on a host: its timeout only bounds how long
\* a read may wait, so one that keeps writing is never ended.
FairSpec ==
    /\ Spec
    /\ \A t \in Tasks :
         /\ WF_vars(RunnerStep(t))
         /\ \A h \in Hosts : WF_vars(Check(t, h) \/ Begin(t, h) \/ SaveJob(t, h))

-----------------------------------------------------------------------------
(* Properties *)

\* "The task stops after the current command or file transfer": once the
\* cancellation is saved, no more effects begin than there were jobs under way.
StopsAfterCurrent == \A t \in Tasks : late[t] <= Forks

\* A task reported completed did its work on every host that still exists,
\* although cancellations and restart marks may have written its results.
CompletedMeansDone ==
    \A t \in Tasks : task[t].status = "completed" =>
        \A h \in hosts, f \in FilesOf(t) : result[t][h] # "none" => h \in effect[t][f]

\* When the runner is over nothing of its task is left open, for the results
\* that concurrent requests wrote too.  (An upload that found no host at all
\* keeps its items pending.)
NothingLeftOpen ==
    \A t \in Tasks : RunnerAt(t, "over") =>
        \A h \in Hosts : /\ result[t][h] \notin Unfinished
                         /\ \A f \in Files : runner[t].targets # {} =>
                                               item[t][f][h] \notin Unfinished

\* No command runs on for ever.
CommandsEnd == \A t \in Tasks, h \in Hosts : []<>(job[t][h] # "exec")

\* While the process lives and the hosts end their commands, every task comes to
\* an end: no order of exceptions, cancellations and deletions leaves the runner
\* waiting for its pool.
Settles == CommandsEnd =>
    \A t \in Tasks : task[t].status \in {"queued", "running"}
                       ~> task[t].status \notin {"queued", "running"} \/ crashes > 0

\* What a text of the repository says and the code does not do.

\* "Service restarted while the task was running": a task failed with these
\* words is not being executed by the process that says so.
InterruptedByRestart ==
    [][\A v \in Views, t \in Tasks :
          MarkTasks(v) /\ t \in view[v].ids /\ Exists(t)
             => runner[t].pc \in {"none", "over", "lost"}]_vars
=============================================================================
