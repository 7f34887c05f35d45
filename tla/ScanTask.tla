------------------------------ MODULE ScanTask ------------------------------
(***************************************************************************)
(* Security scans: a task scans its target hosts one after the other in a  *)
(* thread of the server process.  Requests cancel a task, start a second   *)
(* thread for its failed targets, delete it, or list the tasks, which after *)
(* a restart fails those found running.                                    *)
(*                                                                         *)
(* A thread works on the copies of rows it has read and saves single       *)
(* fields; a save of a deleted row raises.  The findings of a target are   *)
(* counted by the attempts that stored some.                               *)
(***************************************************************************)
EXTENDS Naturals, FiniteSets

CONSTANTS
    Scans,          \* bound: tasks ever created
    LastTarget,     \* target rows of a task, numbered in the order of their ids
    Threads,        \* bound: threads at a time
    ScanViews,      \* slots for requests in flight
    Removable,      \* bound: targets whose host may be deleted
    MaxRetries,     \* bound: retries of one task
    MaxScanCrashes  \* bound: stops of the server process

ASSUME ScanAssumption ==
    /\ LastTarget \in Nat \ {0} /\ Scans # {}
    /\ Removable \subseteq 1..LastTarget
    /\ MaxRetries \in Nat /\ MaxScanCrashes \in Nat

VARIABLES
    scan,       \* ScanTask rows
    target,     \* ScanTargetResult rows of each task
    gone,       \* targets whose host was deleted (host is NULL)
    thread,     \* run_scan_task threads
    scanView,   \* requests in flight
    marked,     \* _interrupted_tasks_checked of this process
    scanCrashes,
    retries,    \* retries of each task, for the bound
    raced,      \* history: the task met a stale write, a second thread or a stop
    overlapped  \* history: two requests prepared a retry of the task at a time

scanVars == <<scan, target, gone, thread, scanView, marked, scanCrashes, retries, raced,
              overlapped>>

Targets      == 1..LastTarget
ScanStatus   == {"none", "queued", "running", "completed", "failed", "canceled", "deleted"}
TargetStatus == {"pending", "running", "completed", "failed", "skipped"}
ScanEnded    == {"completed", "failed", "canceled"}
TargetEnded  == {"completed", "failed", "skipped"}
Counters     == [done : 0..Cardinality(Targets), failed : 0..Cardinality(Targets),
                 risk : Nat]
ThreadPC     == {"none", "get", "open", "fetch", "loop", "scan", "save", "count",
                 "verdict", "lastCount", "close"}

ScanRow   == [status : ScanStatus, cancel : BOOLEAN, counts : Counters]
TargetRow == [status : TargetStatus, findings : Nat, risk : Nat]
ThreadRow == [pc : ThreadPC, scan : Scans, retry : BOOLEAN, todo : SUBSET Targets,
              seen : [Targets -> TargetStatus], at : Targets, cancel : BOOLEAN,
              verdict : ScanStatus, counts : Counters]
ViewRow   == [pc : {"idle", "cancel", "clear", "reset", "queue", "start"}, scan : Scans, status : ScanStatus,
              ids : SUBSET Targets]
NoCounters == [done |-> 0, failed |-> 0, risk |-> 0]
NewTarget  == [status |-> "pending", findings |-> 0, risk |-> 0]
NoThread   == [pc |-> "none", scan |-> CHOOSE t \in Scans : TRUE, retry |-> FALSE, todo |-> {},
               seen |-> [x \in Targets |-> "pending"], at |-> CHOOSE x \in Targets : TRUE,
               cancel |-> FALSE, verdict |-> "none", counts |-> NoCounters]
Idle       == [pc |-> "idle", scan |-> CHOOSE t \in Scans : TRUE, status |-> "none", ids |-> {}]

ScanTypeOK ==
    /\ scan \in [Scans -> ScanRow]
    /\ target \in [Scans -> [Targets -> TargetRow]]
    /\ gone \subseteq Scans \X Targets
    /\ thread \in [Threads -> ThreadRow]
    /\ scanView \in [ScanViews -> ViewRow]
    /\ marked \in BOOLEAN /\ scanCrashes \in 0..MaxScanCrashes
    /\ retries \in [Scans -> 0..MaxRetries]
    /\ raced \in [Scans -> BOOLEAN] /\ overlapped \in [Scans -> BOOLEAN]

ScanInit ==
    /\ scan = [t \in Scans |-> [status |-> "none", cancel |-> FALSE, counts |-> NoCounters]]
    /\ target = [t \in Scans |-> [x \in Targets |-> NewTarget]]
    /\ gone = {}
    /\ thread = [r \in Threads |-> NoThread]
    /\ scanView = [v \in ScanViews |-> Idle]
    /\ marked = FALSE
    /\ scanCrashes = 0
    /\ retries = [t \in Scans |-> 0]
    /\ raced = [t \in Scans |-> FALSE] /\ overlapped = [t \in Scans |-> FALSE]

Present(t) == scan[t].status \notin {"none", "deleted"}
Working(t) == {r \in Threads : thread[r].pc # "none" /\ thread[r].scan = t}
Having(t, S) == {x \in Targets : target[t][x].status \in S}

Findings(t) == LET upTo[n \in 0..LastTarget] ==
                     IF n = 0 THEN 0 ELSE upTo[n - 1] + target[t][n].findings
               IN upTo[LastTarget]

\* finding_counts over the findings of a task, and how many targets ended.
CountersOf(t) == [done |-> Cardinality(Having(t, TargetEnded)),
                  failed |-> Cardinality(Having(t, {"failed"})),
                  risk |-> Findings(t)]

At(r, pc) == thread[r].pc = pc /\ Present(thread[r].scan)
----------------------------------------------------------------------------
(* The thread: run_scan_task. *)

\* ScanTask.objects.get
GetTask(r) ==
    /\ At(r, "get")
    /\ thread' = [thread EXCEPT ![r].pc = "open", ![r].cancel = scan[thread[r].scan].cancel]
    /\ UNCHANGED <<scan, target, gone, scanView, marked, scanCrashes, retries, raced, overlapped>>

\* Running; the flag as it was read, or cleared for a retry.
OpenTask(r) ==
    /\ At(r, "open")
    /\ scan' = [scan EXCEPT ![thread[r].scan].status = "running",
                            ![thread[r].scan].cancel = ~thread[r].retry /\ thread[r].cancel]
    /\ thread' = [thread EXCEPT ![r].pc = "fetch", ![r].cancel = FALSE]
    /\ UNCHANGED <<target, gone, scanView, marked, scanCrashes, retries, raced, overlapped>>

\* Mutant: a retry scans every target.
FetchAllTargets(r) ==
    /\ At(r, "fetch")
    /\ thread' = [thread EXCEPT ![r].pc = "loop", ![r].todo = Targets,
                    ![r].seen = [x \in Targets |-> target[thread[r].scan][x].status]]
    /\ UNCHANGED <<scan, target, gone, scanView, marked, scanCrashes, retries, raced, overlapped>>

\* Mutant: the rows to retry are read for a first scan too.
FetchListed(r) ==
    /\ At(r, "fetch")
    /\ thread' = [thread EXCEPT ![r].pc = "loop",
                    ![r].seen = [x \in Targets |-> target[thread[r].scan][x].status]]
    /\ UNCHANGED <<scan, target, gone, scanView, marked, scanCrashes, retries, raced, overlapped>>

\* The rows of the loop are read at its start, all or those to retry.
FetchTargets(r) ==
    /\ At(r, "fetch")
    /\ thread' = [thread EXCEPT ![r].pc = "loop",
                    ![r].todo = IF thread[r].retry THEN @ ELSE Targets,
                    ![r].seen = [x \in Targets |-> target[thread[r].scan][x].status]]
    /\ UNCHANGED <<scan, target, gone, scanView, marked, scanCrashes, retries, raced, overlapped>>

IsNextTarget(r, x) == x \in thread[r].todo /\ \A y \in thread[r].todo : x <= y

\* Mutant: a skipped target takes the status of the task.
SkipAsCanceled(r, x) ==
    LET t == thread[r].scan IN
    /\ At(r, "loop") /\ IsNextTarget(r, x) /\ scan[t].cancel
    /\ thread' = [thread EXCEPT ![r].todo = @ \ {x}]
    /\ target' = [target EXCEPT ![t][x].status = "canceled"]
    /\ UNCHANGED <<scan, gone, scanView, marked, scanCrashes, retries, raced, overlapped>>

\* The flag is set: the host is skipped unless its row, as fetched, had ended.
SkipTarget(r, x) ==
    LET t == thread[r].scan IN
    /\ At(r, "loop") /\ IsNextTarget(r, x) /\ scan[t].cancel
    /\ thread' = [thread EXCEPT ![r].todo = @ \ {x}]
    /\ target' = IF thread[r].seen[x] \in {"completed", "failed"} THEN target
                 ELSE [target EXCEPT ![t][x].status = "skipped"]
    /\ UNCHANGED <<scan, gone, scanView, marked, scanCrashes, retries, raced, overlapped>>

\* scan_target_result up to its first save; a host that is gone fails at once.
BeginTarget(r, x) ==
    LET t == thread[r].scan IN
    /\ At(r, "loop") /\ IsNextTarget(r, x) /\ ~scan[t].cancel
    /\ IF <<t, x>> \in gone
       THEN /\ target' = [target EXCEPT ![t][x].status = "failed"]
            /\ thread' = [thread EXCEPT ![r].todo = @ \ {x}, ![r].pc = "count"]
       ELSE /\ target' = [target EXCEPT ![t][x].status = "running"]
            /\ thread' = [thread EXCEPT ![r].todo = @ \ {x}, ![r].pc = "scan", ![r].at = x]
    /\ UNCHANGED <<scan, gone, scanView, marked, scanCrashes, retries, raced, overlapped>>

\* The modules store what they find; an exception stores one more finding.
Collect(r) ==
    /\ At(r, "scan")
    /\ \E found, fails \in BOOLEAN :
         /\ target' = [target EXCEPT ![thread[r].scan][thread[r].at].findings =
                                        IF found \/ fails THEN @ + 1 ELSE @]
         /\ thread' = [thread EXCEPT ![r].pc = "save",
                         ![r].verdict = IF fails THEN "failed" ELSE "completed"]
    /\ UNCHANGED <<scan, gone, scanView, marked, scanCrashes, retries, raced, overlapped>>

\* The finally block: counts of the target and its status.
SaveTarget(r) ==
    LET t == thread[r].scan  x == thread[r].at IN
    /\ At(r, "save")
    /\ target' = [target EXCEPT ![t][x].status = thread[r].verdict,
                                ![t][x].risk = target[t][x].findings]
    /\ thread' = [thread EXCEPT ![r].pc = "count", ![r].verdict = "none", ![r].at = NoThread.at]
    /\ UNCHANGED <<scan, gone, scanView, marked, scanCrashes, retries, raced, overlapped>>

\* refresh_task_counts between two targets counts and saves; the step is one,
\* since the thread's last refresh comes after all of them.
CountTask(r) ==
    /\ At(r, "count")
    /\ scan' = [scan EXCEPT ![thread[r].scan].counts = CountersOf(thread[r].scan)]
    /\ thread' = [thread EXCEPT ![r].pc = "loop"]
    /\ UNCHANGED <<target, gone, scanView, marked, scanCrashes, retries, raced, overlapped>>

\* Mutant: failed targets do not fail the task.
JudgeOpenOnly(r) ==
    LET t == thread[r].scan IN
    /\ At(r, "loop") /\ thread[r].todo = {}
    /\ thread' = [thread EXCEPT ![r].seen = NoThread.seen,
          ![r].pc = IF scan[t].cancel THEN "lastCount" ELSE "verdict",
          ![r].verdict = IF scan[t].cancel THEN "canceled" ELSE "completed"]
    /\ UNCHANGED <<scan, target, gone, scanView, marked, scanCrashes, retries, raced, overlapped>>

\* The end of the loop: canceled, or the first query of final_task_status.
JudgeTask(r) ==
    LET t == thread[r].scan IN
    /\ At(r, "loop") /\ thread[r].todo = {}
    /\ thread' = [thread EXCEPT ![r].seen = NoThread.seen,
          ![r].pc = IF scan[t].cancel THEN "lastCount" ELSE "verdict",
          ![r].verdict = IF scan[t].cancel THEN "canceled"
                         ELSE IF Having(t, {"failed"}) # {} THEN "failed" ELSE "completed"]
    /\ UNCHANGED <<scan, target, gone, scanView, marked, scanCrashes, retries, raced, overlapped>>

\* Its second query: with a target still open the task stays running.
FinalTaskStatus(r) ==
    /\ At(r, "verdict")
    /\ thread' = [thread EXCEPT ![r].pc = "lastCount",
          ![r].verdict = IF Having(thread[r].scan, {"pending", "running"}) # {}
                         THEN "running" ELSE @]
    /\ UNCHANGED <<scan, target, gone, scanView, marked, scanCrashes, retries, raced, overlapped>>

\* The finally block counts for the last time ...
LastCount(r) ==
    /\ At(r, "lastCount")
    /\ thread' = [thread EXCEPT ![r].pc = "close", ![r].counts = CountersOf(thread[r].scan)]
    /\ UNCHANGED <<scan, target, gone, scanView, marked, scanCrashes, retries, raced, overlapped>>

\* ... and saves the counts, and once more with the status.
CloseTask(r) ==
    /\ At(r, "close")
    /\ scan' = [scan EXCEPT ![thread[r].scan].status = thread[r].verdict,
                            ![thread[r].scan].counts = thread[r].counts]
    /\ thread' = [thread EXCEPT ![r] = NoThread]
    /\ UNCHANGED <<target, gone, scanView, marked, scanCrashes, retries, raced, overlapped>>

\* A deleted row: every read or save of it raises, also in the handlers.
LoseTask(r) ==
    /\ thread[r].pc # "none" /\ ~Present(thread[r].scan)
    /\ thread' = [thread EXCEPT ![r] = NoThread]
    /\ UNCHANGED <<scan, target, gone, scanView, marked, scanCrashes, retries, raced, overlapped>>
----------------------------------------------------------------------------
(* Requests. *)

Start(t, ids, retry) ==
    LET free == {r \in Threads : thread[r].pc = "none"}
        r == CHOOSE r \in free : TRUE IN
      /\ free # {}
      /\ thread' = [thread EXCEPT ![r] = [NoThread EXCEPT !.pc = "get", !.scan = t,
                                            !.retry = retry, !.todo = ids]]

CreateScan(t) ==
    /\ scan[t].status = "none"
    /\ scan' = [scan EXCEPT ![t].status = "queued"]
    /\ Start(t, {}, FALSE)
    /\ UNCHANGED <<target, gone, scanView, marked, scanCrashes, retries, raced, overlapped>>

\* scan_task_cancel reads the row and checks its status ...
CancelScan(v, t) ==
    /\ scanView[v].pc = "idle" /\ scan[t].status \in {"queued", "running"}
    /\ scanView' = [scanView EXCEPT ![v] = [Idle EXCEPT !.pc = "cancel", !.scan = t,
                      !.status = IF scan[t].status = "queued" THEN "canceled" ELSE "running"]]
    /\ UNCHANGED <<scan, target, gone, thread, marked, scanCrashes, retries, raced, overlapped>>

\* ... and saves flag and status, whatever the row is by then.
SaveCancel(v) ==
    LET t == scanView[v].scan IN
    /\ scanView[v].pc = "cancel"
    /\ IF Present(t)
       THEN /\ scan' = [scan EXCEPT ![t].cancel = TRUE, ![t].status = scanView[v].status]
            /\ raced' = [raced EXCEPT ![t] = @ \/ scan[t].status #
                            (IF scanView[v].status = "canceled" THEN "queued" ELSE "running")]
       ELSE UNCHANGED <<scan, raced>>
    /\ scanView' = [scanView EXCEPT ![v] = Idle]
    /\ UNCHANGED <<target, gone, thread, marked, scanCrashes, retries, overlapped>>

\* prepare_failed_targets_for_retry reads the failed targets; nothing keeps a
\* second request from reading them too before the first has reset them.
RetryFailed(v, t) ==
    LET ids == Having(t, {"failed"}) IN
    /\ scanView[v].pc = "idle" /\ Present(t) /\ ids # {}
    /\ retries[t] < MaxRetries /\ \E r \in Threads : thread[r].pc = "none"
    /\ retries' = [retries EXCEPT ![t] = @ + 1]
    /\ overlapped' = [overlapped EXCEPT ![t] = @ \/
                        \E w \in ScanViews : scanView[w].pc \in {"clear", "reset"} /\ scanView[w].scan = t]
    /\ scanView' = [scanView EXCEPT ![v] = [Idle EXCEPT !.pc = "clear", !.scan = t, !.ids = ids]]
    /\ UNCHANGED <<scan, target, gone, thread, marked, scanCrashes, raced>>

\* Mutant: the findings of the failed scan stay.
KeepFindings(v) ==
    /\ scanView[v].pc = "clear" /\ Present(scanView[v].scan)
    /\ scanView' = [scanView EXCEPT ![v].pc = "reset"]
    /\ UNCHANGED <<scan, target, gone, thread, marked, scanCrashes, retries, raced, overlapped>>

\* The findings of the targets read are deleted ...
ClearFindings(v) ==
    LET t == scanView[v].scan IN
    /\ scanView[v].pc = "clear" /\ Present(t)
    /\ target' = [target EXCEPT ![t] = [x \in Targets |->
                    IF x \in scanView[v].ids THEN [@[x] EXCEPT !.findings = 0] ELSE @[x]]]
    /\ scanView' = [scanView EXCEPT ![v].pc = "reset"]
    /\ UNCHANGED <<scan, gone, thread, marked, scanCrashes, retries, raced, overlapped>>

\* ... and these targets become pending, whatever they are by then.
ResetTargets(v) ==
    LET t == scanView[v].scan IN
    /\ scanView[v].pc = "reset" /\ Present(t)
    /\ target' = [target EXCEPT ![t] = [x \in Targets |->
                    IF x \in scanView[v].ids THEN [@[x] EXCEPT !.status = "pending", !.risk = 0]
                    ELSE @[x]]]
    /\ scanView' = [scanView EXCEPT ![v].pc = "queue"]
    /\ UNCHANGED <<scan, gone, thread, marked, scanCrashes, retries, raced, overlapped>>

QueueRetry(v) ==
    LET t == scanView[v].scan IN
    /\ scanView[v].pc = "queue" /\ Present(t)
    /\ scan' = [scan EXCEPT ![t].status = "queued", ![t].cancel = FALSE]
    /\ raced' = [raced EXCEPT ![t] = @ \/ Working(t) # {}]
    /\ scanView' = [scanView EXCEPT ![v].pc = "start"]
    /\ UNCHANGED <<target, gone, thread, marked, scanCrashes, retries, overlapped>>

\* Refreshes the counts and starts a thread, also beside one that is running.
StartRetry(v) ==
    LET t == scanView[v].scan IN
    /\ scanView[v].pc = "start" /\ Present(t)
    /\ scan' = [scan EXCEPT ![t].counts = CountersOf(t)]
    /\ raced' = [raced EXCEPT ![t] = @ \/ Working(t) # {}]
    /\ Start(t, scanView[v].ids, TRUE)
    /\ scanView' = [scanView EXCEPT ![v] = Idle]
    /\ UNCHANGED <<target, gone, marked, scanCrashes, retries, overlapped>>

RetryLosesTask(v) ==
    /\ scanView[v].pc \in {"clear", "reset", "queue", "start"} /\ ~Present(scanView[v].scan)
    /\ scanView' = [scanView EXCEPT ![v] = Idle]
    /\ UNCHANGED <<scan, target, gone, thread, marked, scanCrashes, retries, raced, overlapped>>

\* Rows of targets and findings go with the task.
DeleteScan(t) ==
    /\ Present(t)
    /\ scan' = [scan EXCEPT ![t] = [status |-> "deleted", cancel |-> FALSE, counts |-> NoCounters]]
    /\ target' = [target EXCEPT ![t] = [x \in Targets |-> NewTarget]]
    /\ UNCHANGED <<gone, thread, scanView, marked, scanCrashes, retries, raced, overlapped>>

\* Deleting a managed host sets the reference of its target to NULL.
HostDeleted(t, x) ==
    /\ Present(t) /\ x \in Removable /\ <<t, x>> \notin gone
    /\ gone' = gone \cup {<<t, x>>}
    /\ UNCHANGED <<scan, target, thread, scanView, marked, scanCrashes, retries, raced, overlapped>>

\* mark_interrupted_tasks: the first list or summary request of the process.
MarkInterrupted ==
    /\ ~marked
    /\ scan' = [t \in Scans |-> IF scan[t].status = "running"
                                THEN [scan[t] EXCEPT !.status = "failed"] ELSE scan[t]]
    /\ marked' = TRUE
    /\ UNCHANGED <<target, gone, thread, scanView, scanCrashes, retries, raced, overlapped>>

\* The server process stops and starts again: its threads and requests are lost.
ServerRestart ==
    /\ scanCrashes < MaxScanCrashes
    /\ scanCrashes' = scanCrashes + 1
    /\ thread' = [r \in Threads |-> NoThread]
    /\ scanView' = [v \in ScanViews |-> Idle]
    /\ marked' = FALSE
    /\ raced' = [t \in Scans |-> raced[t] \/ Present(t)]
    /\ UNCHANGED <<scan, target, gone, retries, overlapped>>

ThreadStep(r) ==
    \/ GetTask(r) \/ OpenTask(r) \/ FetchTargets(r)
    \/ \E x \in Targets : SkipTarget(r, x) \/ BeginTarget(r, x)
    \/ Collect(r) \/ SaveTarget(r) \/ CountTask(r)
    \/ JudgeTask(r) \/ FinalTaskStatus(r) \/ LastCount(r) \/ CloseTask(r) \/ LoseTask(r)

RetryStep(v) == ClearFindings(v) \/ ResetTargets(v) \/ QueueRetry(v) \/ StartRetry(v) \/ RetryLosesTask(v)

ScanRequest ==
    \/ \E t \in Scans : CreateScan(t) \/ DeleteScan(t)
    \/ \E t \in Scans, x \in Targets : HostDeleted(t, x)
    \/ \E v \in ScanViews, t \in Scans : CancelScan(v, t) \/ RetryFailed(v, t)
    \/ \E v \in ScanViews : SaveCancel(v) \/ RetryStep(v)
    \/ MarkInterrupted

ScanNext == ScanRequest \/ ServerRestart \/ \E r \in Threads : ThreadStep(r)

ScanSpec == ScanInit /\ [][ScanNext]_scanVars
\* A thread runs on while the process lives, a retry that has begun is carried out.
ScanFairness == /\ \A r \in Threads : WF_scanVars(ThreadStep(r))
                /\ \A v \in ScanViews : WF_scanVars(RetryStep(v))
FairScan == ScanSpec /\ ScanFairness
----------------------------------------------------------------------------
(* Properties. *)

\* No host is scanned by two threads at a time, although a retry may run
\* beside the scan (views.py scan_task_retry_failed checks no status), unless
\* two requests prepared a retry of the task at a time: both then read the same
\* failed targets, and each starts a thread for them.
OneScannerPerTarget ==
    \A r, q \in Threads :
      /\ r # q /\ thread[r].scan = thread[q].scan /\ ~overlapped[thread[r].scan]
      /\ thread[r].pc \in {"scan", "save"} /\ thread[q].pc \in {"scan", "save"}
      => thread[r].at # thread[q].at

\* What a target shows is what its last scan found: a retry has removed the
\* findings of the scan before it and nobody adds to them later, unless two
\* requests prepared a retry of the task at a time.
FindingsOfOneScan ==
    \A t \in Scans, x \in Targets : ~overlapped[t] =>
      /\ target[t][x].findings <= 1
      /\ target[t][x].status = "completed" => target[t][x].risk = target[t][x].findings

\* A completed task has scanned or, cancelled earlier, skipped every host, and
\* shows the counts of its targets and findings, unless a second thread, a second
\* retry, a stop or a stale cancellation came between.
CompletedMeansScanned ==
    \A t \in Scans :
      scan[t].status = "completed" /\ ~raced[t] /\ ~overlapped[t] =>
        /\ Having(t, {"completed", "skipped"}) = Targets
        /\ scan[t].counts = CountersOf(t)

\* A task does not stay queued or running for ever, unless a second thread, a
\* second retry, a stop or a stale cancellation came between.
ScanSettles ==
    \A t \in Scans : scan[t].status \in {"queued", "running"}
        ~> (scan[t].status \notin {"queued", "running"} \/ raced[t] \/ overlapped[t])
=============================================================================
