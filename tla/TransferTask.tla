--------------------------- MODULE TransferTask ---------------------------
(***************************************************************************)
(* The life of a database transfer task: the rows of DatabaseTransferTask, *)
(* the API handlers that write them, the worker processes that claim and   *)
(* execute them, and the files both sides share.                           *)
(*                                                                         *)
(* A row write (transfers.update) saves the fields it names and nothing    *)
(* else, whatever the row holds by then: a handler that read the row,      *)
(* worked for a while and writes afterwards is therefore two actions, the  *)
(* first remembered in req[r].  Cancellation and claiming are conditional  *)
(* updates on (status, stage) and are single actions.                      *)
(*                                                                         *)
(* Left out: progress figures, error texts, notifications, audit records,  *)
(* who may call what.  A refused call (permission, policy, bad input) is a *)
(* call that does not happen; a policy revoked during execution is Fault.  *)
(***************************************************************************)
EXTENDS Naturals, FiniteSets

CONSTANTS
    MaxTasks,        \* bound: rows ever created; a row's id is its creation order
    Workers,         \* processes running run_database_transfer_worker
    Requests,        \* slots for API requests in flight
    Kinds,           \* what the users ask for, a subset of AllKinds
    LegacyRows,      \* bound: rows left by a release that had CSV/ZIP dumps
    MaxCrashes,      \* bound: worker processes killed from outside
    Clocks,          \* bound: which deadlines may pass, of "timeout", "retention"
    SerialRequests   \* TRUE: one request at a time works on a task (the
                     \* browser's busy flag); FALSE: any number of them

AllKinds == {"export",   \* any export
             "dump",     \* table or database import, inspected by a worker
             "redis",    \* import of keys, inspected inline
             "small",    \* queries / connections import, inspected inline
             "tableop"}  \* structure / data sync and copy between tables

ASSUME TransferAssumption ==
    /\ MaxTasks \in Nat \ {0} /\ MaxCrashes \in Nat
    /\ LegacyRows \in 0..MaxTasks
    /\ Kinds \subseteq AllKinds
    /\ Clocks \subseteq {"timeout", "retention"}
    /\ SerialRequests \in BOOLEAN

Tasks  == 1..MaxTasks
NoTask == 0

Active   == {"uploading", "inspecting", "awaiting_confirmation", "queued",
             "running", "cancel_requested"}
Finished == {"cancelled", "succeeded", "failed", "expired"}
Status   == Active \cup Finished \cup {"none", "deleted"}
\* The stages some condition of the code compares with; the others are "other".
Stage    == {"validating", "inspection_queued", "other"}

VARIABLES
    task,         \* the table: id -> row
    file,         \* DATABASE_TRANSFER_DIR: id -> which of its files exist
    worker,       \* each worker process: where it is and the row it holds
    req,          \* each request slot: where the handler is, its row, its source row
    connections,  \* whether the DatabaseAsset rows still exist
    crashes,      \* worker crashes so far
    ledger        \* history: confirmed by the user, cancellation answered
                  \* "cancelled", executions begun (2 stands for several)

vars == <<task, file, worker, req, connections, crashes, ledger>>

Row     == [status : Status, stage : Stage, kind : AllKinds \cup {"legacy"},
            cancel : BOOLEAN, preview : BOOLEAN, input : BOOLEAN,
            overdue : BOOLEAN, due : BOOLEAN]
\* An input file is missing, cut short by an error, or complete.
Files   == [chunks : BOOLEAN, input : {"none", "partial", "whole"}, output : BOOLEAN]
History == [confirmed : BOOLEAN, acked : BOOLEAN, runs : 0..2]

WorkerPC  == {"idle", "expire", "legacy", "sweep", "down",
              "inspect", "preview", "gate", "effect", "finish",
              "cancelled", "failed"}
\* The worker has claimed a row and has not written its outcome yet.
BusyPC    == {"inspect", "preview", "gate", "effect", "finish",
              "cancelled", "failed"}
\* The handler still has a status or a stage to write, from an earlier read.
WritingPC == {"direct", "merge", "merged", "stage", "inline", "fail", "confirm"}
RequestPC == WritingPC \cup
             {"ready", "init", "chunk", "copy", "path", "drop"}

WorkerState  == [pc : WorkerPC, task : Tasks \cup {NoTask}, todo : SUBSET Tasks]
RequestState == [pc : RequestPC, task : Tasks \cup {NoTask}, source : Tasks \cup {NoTask}]

BlankRow  == [status |-> "none", stage |-> "other", kind |-> "export",
              cancel |-> FALSE, preview |-> FALSE, input |-> FALSE,
              overdue |-> FALSE, due |-> FALSE]
NoFiles   == [chunks |-> FALSE, input |-> "none", output |-> FALSE]
Unwritten == [confirmed |-> FALSE, acked |-> FALSE, runs |-> 0]
Idle      == [pc |-> "idle", task |-> NoTask, todo |-> {}]
Ready     == [pc |-> "ready", task |-> NoTask, source |-> NoTask]

TypeOK ==
    /\ task \in [Tasks -> Row]
    /\ file \in [Tasks -> Files]
    /\ worker \in [Workers -> WorkerState]
    /\ req \in [Requests -> RequestState]
    /\ connections \in BOOLEAN
    /\ crashes \in 0..MaxCrashes
    /\ ledger \in [Tasks -> History]

\* A database as an earlier release left it: old rows of a removed format.
LegacyInit(old) ==
    /\ \E left \in [1..old -> {"awaiting_confirmation", "queued"}] :
          task = [t \in Tasks |->
                    IF t \in 1..old
                      THEN [BlankRow EXCEPT !.status = left[t],
                                            !.kind = "legacy", !.input = TRUE]
                      ELSE BlankRow]
    /\ file = [t \in Tasks |-> IF t \in 1..old
                                  THEN [NoFiles EXCEPT !.input = "whole"] ELSE NoFiles]
    /\ ledger = [t \in Tasks |-> IF t \in 1..old
                                    THEN [Unwritten EXCEPT !.confirmed = TRUE]
                                    ELSE Unwritten]

Init ==
    /\ \E old \in 0..LegacyRows : LegacyInit(old)
    /\ worker = [w \in Workers |-> Idle]
    /\ req = [r \in Requests |-> Ready]
    /\ connections = TRUE
    /\ crashes = 0

-----------------------------------------------------------------------------
(* Rows *)

Exists(t)      == task[t].status \notin {"none", "deleted"}
IsImport(k)    == k \in {"dump", "redis", "small", "legacy"}
NeedsAsset(k)  == k \in {"export", "dump", "redis", "tableop", "legacy"}
\* The row names an input file and the file is there.
HasInput(t)    == task[t].input /\ file[t].input # "none"
\* The files the row names are removed.
Unlink(t)      == file' = [file EXCEPT ![t].output = FALSE,
                             ![t].input = IF task[t].input THEN "none" ELSE @]
\* The id the next created row gets.
IsNext(t)      == /\ task[t].status = "none"
                  /\ \A u \in Tasks : u < t => task[u].status # "none"
\* A save, and a save that raises because the row was deleted meanwhile.
Save(t, row)    == task' = [task EXCEPT ![t] = row]
TrySave(t, row) == IF Exists(t) THEN Save(t, row) ELSE UNCHANGED task
\* The row of t with another status and stage.
Marked(t, status, stage) == [task[t] EXCEPT !.status = status, !.stage = stage]

\* What claim_one looks for, and what it takes: the oldest such row.
Claimable(t) == \/ task[t].status = "queued"
                \/ /\ task[t].status = "inspecting"
                   /\ task[t].stage = "inspection_queued"
Oldest(t)    == Claimable(t) /\ \A u \in Tasks : Claimable(u) => t <= u

\* Mutant of Immediate: a running row is cancelled on the spot.
CancelsRunning(t) == task[t].status \in Active

\* States in which request_task_cancellation writes "cancelled" itself.
Immediate(t) == \/ task[t].status \in {"queued", "uploading",
                                       "awaiting_confirmation"}
                \/ Claimable(t)

Free(t) == SerialRequests => \A r \in Requests : req[r].task # t

At(r, pc)       == req[r].pc = pc
Goto(r, pc)     == req' = [req EXCEPT ![r].pc = pc]
Begin(r, pc, t) == req' = [req EXCEPT ![r] = [Ready EXCEPT !.pc = pc, !.task = t]]
Respond(r)      == req' = [req EXCEPT ![r] = Ready]

-----------------------------------------------------------------------------
(* API handlers *)

\* POST transfers/: a queued export.
CreateExport(t) ==
    /\ "export" \in Kinds /\ connections /\ IsNext(t)
    /\ Save(t, [BlankRow EXCEPT !.status = "queued"])
    /\ ledger' = [ledger EXCEPT ![t].confirmed = TRUE]
    /\ UNCHANGED <<file, worker, req, connections, crashes>>

\* POST uploads/: the row first, its input path in a second save.
UploadInit(r, t) ==
    /\ At(r, "ready") /\ IsNext(t)
    /\ \E k \in Kinds \cap {"dump", "redis", "small"} :
         /\ NeedsAsset(k) => connections
         /\ Save(t, [BlankRow EXCEPT !.status = "uploading", !.kind = k])
    /\ Begin(r, "init", t)
    /\ UNCHANGED <<file, worker, connections, crashes, ledger>>

SaveInputPath(r) ==
    /\ At(r, "init")
    /\ LET t == req[r].task IN TrySave(t, [task[t] EXCEPT !.input = TRUE])
    /\ Respond(r)
    /\ UNCHANGED <<file, worker, connections, crashes, ledger>>

\* The single-request upload of a dump, up to opening its input file.
DirectUpload(r, t) ==
    /\ At(r, "ready") /\ IsNext(t) /\ "dump" \in Kinds /\ connections
    /\ Save(t, [BlankRow EXCEPT !.status = "uploading", !.kind = "dump",
                                  !.input = TRUE])
    /\ file' = [file EXCEPT ![t].input = "partial"]
    /\ Begin(r, "direct", t)
    /\ UNCHANGED <<worker, connections, crashes, ledger>>

\* ... then the body is written and inspection queued; on any error the task
\* fails and the partial file stays.
FinishDirectUpload(r) ==
    /\ At(r, "direct")
    /\ LET t == req[r].task IN
         \E ok \in BOOLEAN :
           /\ file' = [file EXCEPT ![t].input = IF ok THEN "whole" ELSE @]
           /\ TrySave(t, IF ok THEN Marked(t, "inspecting", "inspection_queued")
                               ELSE Marked(t, "failed", "other"))
    /\ Respond(r)
    /\ UNCHANGED <<worker, connections, crashes, ledger>>

\* PUT chunks: the status is read first, the file put in place after the body.
UploadChunk(r, t) ==
    /\ At(r, "ready") /\ Free(t) /\ task[t].status = "uploading"
    /\ Begin(r, "chunk", t)
    /\ UNCHANGED <<task, file, worker, connections, crashes, ledger>>

StoreChunk(r) ==
    /\ At(r, "chunk")
    /\ file' = [file EXCEPT ![req[r].task].chunks = TRUE]
    /\ Respond(r)
    /\ UNCHANGED <<task, worker, connections, crashes, ledger>>

\* POST complete: merge, then "inspecting", then hand over or inspect inline.
CompleteUpload(r, t) ==
    /\ At(r, "ready") /\ Free(t) /\ task[t].status = "uploading"
    /\ Begin(r, "merge", t)
    /\ UNCHANGED <<task, file, worker, connections, crashes, ledger>>

MergeChunks(r) ==
    /\ At(r, "merge")
    /\ LET t == req[r].task IN
         \/ /\ file[t].chunks
            /\ file' = [file EXCEPT ![t].chunks = FALSE, ![t].input = "whole"]
            /\ Goto(r, "merged")
         \/ /\ \E left \in {"none",             \* merged, rejected and unlinked
                          "partial",          \* the disk filled up
                          file[t].input} :    \* a chunk was missing
                 file' = [file EXCEPT ![t].input = left]
            /\ Goto(r, "fail")
    /\ UNCHANGED <<task, worker, connections, crashes, ledger>>

\* A save on a deleted row raises, also in the handler's own error path.
SaveValidating(r) ==
    /\ At(r, "merged")
    /\ LET t == req[r].task IN
         IF Exists(t)
           THEN /\ Save(t, Marked(t, "inspecting", "validating"))
                /\ Goto(r, IF task[t].kind = "dump" THEN "stage" ELSE "inline")
           ELSE Respond(r) /\ UNCHANGED task
    /\ UNCHANGED <<file, worker, connections, crashes, ledger>>

\* The hand-over writes the stage only.
SaveInspectionQueued(r) ==
    /\ At(r, "stage")
    /\ LET t == req[r].task IN
         TrySave(t, [task[t] EXCEPT !.stage = "inspection_queued"])
    /\ Respond(r)
    /\ UNCHANGED <<file, worker, connections, crashes, ledger>>

InspectInline(r) ==
    /\ At(r, "inline")
    /\ LET t == req[r].task IN
         \/ /\ Exists(t) /\ file[t].input # "none"
            /\ Save(t, [Marked(t, "awaiting_confirmation", "other")
                          EXCEPT !.preview = TRUE])
            /\ Respond(r)
         \/ Goto(r, "fail") /\ UNCHANGED task
    /\ UNCHANGED <<file, worker, connections, crashes, ledger>>

FailUpload(r) ==
    /\ At(r, "fail")
    /\ LET t == req[r].task IN TrySave(t, Marked(t, "failed", "other"))
    /\ Respond(r)
    /\ UNCHANGED <<file, worker, connections, crashes, ledger>>

\* POST confirm: the status is checked, the mapping re-inspected (row imports),
\* then the row is queued whatever its status has become.
Confirm(r, t) ==
    /\ At(r, "ready") /\ Free(t)
    /\ task[t].status = "awaiting_confirmation" /\ task[t].kind # "tableop"
    /\ Begin(r, "confirm", t)
    /\ UNCHANGED <<task, file, worker, connections, crashes, ledger>>

QueueConfirmed(r) ==
    /\ At(r, "confirm")
    /\ LET t == req[r].task IN
         IF Exists(t)
           THEN /\ Save(t, Marked(t, "queued", "other"))
                /\ ledger' = [ledger EXCEPT ![t].confirmed = TRUE]
           ELSE UNCHANGED <<task, ledger>>
    /\ Respond(r)
    /\ UNCHANGED <<file, worker, connections, crashes>>

\* POST cancel, and the cancellation loop of clear_database_connections.
Cancel(t) ==
    /\ task[t].status \in Active
    /\ IF Immediate(t)
         THEN /\ Save(t, [Marked(t, "cancelled", "other") EXCEPT !.cancel = TRUE])
              /\ ledger' = [ledger EXCEPT ![t].acked = TRUE]
         ELSE /\ Save(t, [task[t] EXCEPT !.status = "cancel_requested",
                                         !.cancel = TRUE])
              /\ UNCHANGED ledger
    /\ UNCHANGED <<file, worker, req, connections, crashes>>

\* Mutant of Retry: the source row itself is queued again.
RetryInPlace(r, s, u) ==
    /\ At(r, "ready") /\ Free(s) /\ IsNext(u)
    /\ task[s].status \in {"failed", "cancelled"}
    /\ Save(s, [task[s] EXCEPT !.status = "queued"])
    /\ UNCHANGED <<file, worker, req, connections, crashes, ledger>>

\* POST retry: a new row, claimable at once but for an import without its input ...
Retry(r, s, u) ==
    /\ At(r, "ready") /\ Free(s) /\ IsNext(u)
    /\ task[s].status \in {"failed", "cancelled"}
    /\ task[s].kind \notin {"tableop", "legacy"}
    /\ NeedsAsset(task[s].kind) => connections
    /\ LET inspect == IsImport(task[s].kind) /\ ~task[s].preview IN
         /\ Save(u, [BlankRow EXCEPT
                         !.status = IF inspect THEN "inspecting" ELSE "queued",
                         !.stage = IF inspect THEN "inspection_queued" ELSE "other",
                         !.kind = task[s].kind, !.preview = task[s].preview])
         /\ ledger' = [ledger EXCEPT ![u].confirmed = ~inspect]
    /\ IF IsImport(task[s].kind)
         THEN req' = [req EXCEPT ![r] = [pc |-> IF HasInput(s) THEN "copy" ELSE "drop",
                                         task |-> u, source |-> s]]
         ELSE UNCHANGED req
    /\ UNCHANGED <<file, worker, connections, crashes>>

\* ... and gets its input afterwards, or is dropped when there is none.
CopyInput(r) ==
    /\ At(r, "copy")
    /\ IF file[req[r].source].input # "none"
         THEN /\ file' = [file EXCEPT ![req[r].task].input = file[req[r].source].input]
              /\ Goto(r, "path")
         ELSE Respond(r) /\ UNCHANGED file
    /\ UNCHANGED <<task, worker, connections, crashes, ledger>>

SaveCopiedPath(r) ==
    /\ At(r, "path")
    /\ LET t == req[r].task IN TrySave(t, [task[t] EXCEPT !.input = TRUE])
    /\ Respond(r)
    /\ UNCHANGED <<file, worker, connections, crashes, ledger>>

DropRetry(r) ==
    /\ At(r, "drop")
    /\ LET t == req[r].task IN Save(t, [task[t] EXCEPT !.status = "deleted"])
    /\ Respond(r)
    /\ UNCHANGED <<file, worker, connections, crashes, ledger>>

\* The serving process stops, or an exception ends the handler, at any point.
RequestDies(r) ==
    /\ req[r].pc # "ready"
    /\ Respond(r)
    /\ UNCHANGED <<task, file, worker, connections, crashes, ledger>>

\* DELETE: the check and the delete are adjacent statements; then the files.
Delete(t) ==
    /\ Exists(t) /\ task[t].status \notin Active
    /\ Save(t, [task[t] EXCEPT !.status = "deleted"])
    /\ Unlink(t)
    /\ UNCHANGED <<worker, req, connections, crashes, ledger>>

\* table-operations/preview and /execute; the latter under SELECT FOR UPDATE.
PreviewTableOp(t) ==
    /\ "tableop" \in Kinds /\ connections /\ IsNext(t)
    /\ Save(t, [BlankRow EXCEPT !.status = "awaiting_confirmation",
                                  !.kind = "tableop", !.preview = TRUE])
    /\ UNCHANGED <<file, worker, req, connections, crashes, ledger>>

ExecuteTableOp(t) ==
    /\ task[t].kind = "tableop" /\ task[t].status = "awaiting_confirmation"
    /\ connections
    /\ Save(t, Marked(t, "queued", "other"))
    /\ ledger' = [ledger EXCEPT ![t].confirmed = TRUE]
    /\ UNCHANGED <<file, worker, req, connections, crashes>>

\* Mutant of ClearConnections: a requested cancellation counts as stopped.
ClearsUnderCancelled ==
    /\ connections
    /\ \A t \in Tasks : task[t].status \notin Active \ {"cancel_requested"}
    /\ connections' = FALSE
    /\ UNCHANGED <<task, file, worker, req, crashes, ledger>>

\* clear_database_connections --execute, after its cancellations (Cancel):
\* under row locks, only when no related task is active any more.
ClearConnections ==
    /\ connections
    /\ \A t \in Tasks : task[t].status \notin Active
    /\ connections' = FALSE
    /\ UNCHANGED <<task, file, worker, req, crashes, ledger>>

-----------------------------------------------------------------------------
(* Time *)

\* started_at falls behind DATABASE_TRANSFER_TASK_TIMEOUT_SECONDS.
TimesOut(t) ==
    /\ "timeout" \in Clocks
    /\ task[t].status = "running" /\ ~task[t].overdue
    /\ Save(t, [task[t] EXCEPT !.overdue = TRUE])
    /\ UNCHANGED <<file, worker, req, connections, crashes, ledger>>

\* expires_at passes.
RetentionElapses(t) ==
    /\ "retention" \in Clocks
    /\ Exists(t) /\ ~task[t].due
    /\ Save(t, [task[t] EXCEPT !.due = TRUE])
    /\ UNCHANGED <<file, worker, req, connections, crashes, ledger>>

-----------------------------------------------------------------------------
(* Worker: the loop of run_database_transfer_worker *)

On(w, pc)   == worker[w].pc = pc
Held(w)     == worker[w].task
Step(w, pc) == worker' = [worker EXCEPT ![w].pc = pc]
Done(w)     == worker' = [worker EXCEPT ![w] = Idle]
Down(w)     == worker' = [worker EXCEPT ![w] = [Idle EXCEPT !.pc = "down"]]
Look(w, pc, rows) == worker' = [worker EXCEPT ![w].pc = pc, ![w].todo = rows]

\* The rows a sweep read are written one by one; a row deleted meanwhile raises
\* and the exception leaves the loop.
Sweep(w, t, row) ==
    IF Exists(t)
      THEN /\ Save(t, row)
           /\ worker' = [worker EXCEPT ![w].todo = @ \ {t}]
      ELSE Down(w) /\ UNCHANGED task

\* Mutant of ExpiredRows: cancelled work never expires.
UncancelledExpiredRows ==
    {t \in Tasks : /\ task[t].due /\ Exists(t)
                   /\ task[t].status \notin {"expired", "running", "queued",
                                            "cancel_requested"}}

ExpiredRows == {t \in Tasks : /\ task[t].due /\ Exists(t)
                              /\ task[t].status \notin {"expired", "running", "queued"}}
LegacyTasks == {t \in Tasks : /\ task[t].kind = "legacy"
                              /\ task[t].status \in Active
                              /\ task[t].status \notin {"running", "cancel_requested"}}
StaleRows   == {t \in Tasks : task[t].status = "running" /\ task[t].overdue}

\* cleanup_expired, at most once a minute.
ReadExpired(w) ==
    /\ On(w, "idle")
    /\ Look(w, "expire", ExpiredRows)
    /\ UNCHANGED <<task, file, req, connections, crashes, ledger>>

\* Mutant of ExpireOne: the files go, the status stays.
ExpireFilesOnly(w, t) ==
    /\ On(w, "expire") /\ t \in worker[w].todo
    /\ Unlink(t)
    /\ Sweep(w, t, [task[t] EXCEPT !.input = FALSE])
    /\ UNCHANGED <<req, connections, crashes, ledger>>

ExpireOne(w, t) ==
    /\ On(w, "expire") /\ t \in worker[w].todo
    /\ Unlink(t)
    /\ Sweep(w, t, [Marked(t, "expired", "other") EXCEPT !.input = FALSE])
    /\ UNCHANGED <<req, connections, crashes, ledger>>

\* Chunk files untouched for longer than the task timeout, whoever owns them.
RemoveOldChunks(w, t) ==
    /\ On(w, "expire") /\ worker[w].todo = {} /\ file[t].chunks
    /\ file' = [file EXCEPT ![t].chunks = FALSE]
    /\ UNCHANGED <<task, worker, req, connections, crashes, ledger>>

\* claim_one: fail removed formats, fail overdue rows, then claim.
StartPoll(w) ==
    /\ On(w, "idle") \/ (On(w, "expire") /\ worker[w].todo = {})
    /\ Look(w, "legacy", LegacyTasks)
    /\ UNCHANGED <<task, file, req, connections, crashes, ledger>>

FailLegacy(w, t) ==
    /\ On(w, "legacy") /\ t \in worker[w].todo
    /\ Sweep(w, t, Marked(t, "failed", "other"))
    /\ UNCHANGED <<file, req, connections, crashes, ledger>>

ReadStale(w) ==
    /\ On(w, "legacy") /\ worker[w].todo = {}
    /\ Look(w, "sweep", StaleRows)
    /\ UNCHANGED <<task, file, req, connections, crashes, ledger>>

FailStale(w, t) ==
    /\ On(w, "sweep") /\ t \in worker[w].todo
    /\ Sweep(w, t, Marked(t, "failed", "other"))
    /\ UNCHANGED <<file, req, connections, crashes, ledger>>

\* Mutant of Claim: the row is taken without marking it.
TakeUnmarked(w, t) ==
    /\ On(w, "sweep") /\ worker[w].todo = {} /\ Oldest(t)
    /\ worker' = [worker EXCEPT ![w].task = t, ![w].pc = "gate"]
    /\ UNCHANGED <<task, file, req, connections, crashes, ledger>>

Claim(w, t) ==
    /\ On(w, "sweep") /\ worker[w].todo = {} /\ Oldest(t)
    /\ Save(t, [Marked(t, "running", "other") EXCEPT !.overdue = FALSE])
    /\ worker' = [worker EXCEPT ![w].task = t,
                    ![w].pc = IF task[t].status = "inspecting" THEN "inspect"
                                                              ELSE "gate"]
    /\ UNCHANGED <<file, req, connections, crashes, ledger>>

NothingToClaim(w) ==
    /\ On(w, "sweep") /\ worker[w].todo = {}
    /\ ~\E t \in Tasks : Claimable(t)
    /\ Done(w)
    /\ UNCHANGED <<task, file, req, connections, crashes, ledger>>

-----------------------------------------------------------------------------
(* Worker: execute_claimed and run_task *)

\* Mutant of Continues: the cancellation flag is not looked at.
ContinuesBlindly(t) == Exists(t)

\* progress(): the row is read again and a cancellation flag stops the work.
Continues(t) == Exists(t) /\ ~task[t].cancel

Inspect(w) ==
    /\ On(w, "inspect")
    /\ LET t == Held(w) IN
         /\ Continues(t) /\ HasInput(t)
         /\ NeedsAsset(task[t].kind) => connections
         /\ task[t].kind # "legacy"
    /\ Step(w, "preview")
    /\ UNCHANGED <<task, file, req, connections, crashes, ledger>>

SavePreview(w) ==
    /\ On(w, "preview")
    /\ LET t == Held(w) IN
         IF Exists(t)
           THEN /\ Save(t, [Marked(t, "awaiting_confirmation", "other")
                              EXCEPT !.preview = TRUE])
                /\ Done(w)
           ELSE Step(w, "failed") /\ UNCHANGED task
    /\ UNCHANGED <<file, req, connections, crashes, ledger>>

\* The last look at the row before anything outside the application changes.
\* A table import must have been previewed; every import needs its file.  The import of
\* keys looks at the row again with every hundredth of them, that of queries never.
PassGate(w) ==
    /\ On(w, "gate")
    /\ LET t == Held(w)
           k == task[t].kind IN
         /\ Continues(t) /\ k # "legacy"
         /\ NeedsAsset(k) => connections
         /\ k = "dump" => task[t].preview
         /\ IsImport(k) => HasInput(t)
         /\ file' = [file EXCEPT ![t].output = @ \/ k = "export"]
         /\ ledger' = [ledger EXCEPT ![t].runs = IF @ = 0 THEN 1 ELSE 2]
         /\ \/ k # "small" /\ Step(w, "effect")
            \/ k \in {"redis", "small"} /\ Step(w, "finish")
    /\ UNCHANGED <<task, req, connections, crashes>>

\* The last progress() call, before the commit and before the result is sized.
LastProgress(w) ==
    /\ On(w, "effect")
    /\ Continues(Held(w))
    /\ task[Held(w)].kind = "export" => file[Held(w)].output
    /\ Step(w, "finish")
    /\ UNCHANGED <<task, file, req, connections, crashes, ledger>>

\* Mutant of Interrupted: the outcome is spelt in another way.
InterruptedMisspelt(w) ==
    /\ worker[w].pc \in {"inspect", "gate", "effect"}
    /\ Exists(Held(w)) /\ task[Held(w)].cancel
    /\ Step(w, "canceled")
    /\ UNCHANGED <<task, file, req, connections, crashes, ledger>>

\* progress() raises InterruptedError.
Interrupted(w) ==
    /\ worker[w].pc \in {"inspect", "gate", "effect"}
    /\ Exists(Held(w)) /\ task[Held(w)].cancel
    /\ Step(w, "cancelled")
    /\ UNCHANGED <<task, file, req, connections, crashes, ledger>>

\* Any other exception: bad data, revoked permission, lost row, full disk.
Fault(w) ==
    /\ worker[w].pc \in {"inspect", "gate", "effect", "finish"}
    /\ Step(w, "failed")
    /\ UNCHANGED <<task, file, req, connections, crashes, ledger>>

\* The outcome is saved whatever the row holds; saving a deleted row raises:
\* inside run_task that is one more failure, in execute_claimed it ends the loop.
Finish(w) ==
    /\ On(w, "finish")
    /\ LET t == Held(w) IN
         IF Exists(t)
           THEN /\ Save(t, Marked(t, "succeeded", "other"))
                /\ Done(w)
           ELSE Step(w, "failed") /\ UNCHANGED task
    /\ UNCHANGED <<file, req, connections, crashes, ledger>>

SaveFailure(w) ==
    /\ worker[w].pc \in {"cancelled", "failed"}
    /\ LET t == Held(w) IN
         IF Exists(t)
           THEN /\ Save(t, Marked(t, worker[w].pc, "other"))
                /\ Done(w)
           ELSE Down(w) /\ UNCHANGED task
    /\ UNCHANGED <<file, req, connections, crashes, ledger>>

\* The process is killed and, being under a supervisor, started again.
Crash(w) ==
    /\ worker[w].pc # "down" /\ crashes < MaxCrashes
    /\ crashes' = crashes + 1
    /\ Down(w)
    /\ UNCHANGED <<task, file, req, connections, ledger>>

Restart(w) ==
    /\ On(w, "down")
    /\ Done(w)
    /\ UNCHANGED <<task, file, req, connections, crashes, ledger>>

-----------------------------------------------------------------------------

CreateOn(t) == CreateExport(t) \/ PreviewTableOp(t)

UserOn(t) == Cancel(t) \/ Delete(t) \/ ExecuteTableOp(t)

RequestOn(r, t) ==
    \/ UploadInit(r, t) \/ DirectUpload(r, t) \/ UploadChunk(r, t)
    \/ CompleteUpload(r, t) \/ Confirm(r, t) \/ \E u \in Tasks : Retry(r, t, u)

RequestStep(r) ==
    \/ SaveInputPath(r) \/ FinishDirectUpload(r) \/ StoreChunk(r)
    \/ MergeChunks(r) \/ SaveValidating(r) \/ SaveInspectionQueued(r)
    \/ InspectInline(r) \/ FailUpload(r) \/ QueueConfirmed(r)
    \/ CopyInput(r) \/ SaveCopiedPath(r) \/ DropRetry(r) \/ RequestDies(r)

SweepOn(w, t) ==
    ExpireOne(w, t) \/ FailLegacy(w, t) \/ FailStale(w, t) \/ Claim(w, t)

Execute(w) ==
    \/ Inspect(w) \/ SavePreview(w) \/ PassGate(w) \/ LastProgress(w)
    \/ Interrupted(w) \/ Fault(w) \/ Finish(w) \/ SaveFailure(w)

Poll(w) == StartPoll(w) \/ ReadStale(w) \/ NothingToClaim(w)

Next ==
    \/ \E t \in Tasks : \/ CreateOn(t) \/ UserOn(t)
                        \/ TimesOut(t) \/ RetentionElapses(t)
    \/ \E r \in Requests : RequestStep(r) \/ \E t \in Tasks : RequestOn(r, t)
    \/ \E w \in Workers : \/ ReadExpired(w) \/ Poll(w) \/ Execute(w)
                          \/ Crash(w) \/ Restart(w)
                          \/ \E t \in Tasks : SweepOn(w, t) \/ RemoveOldChunks(w, t)
    \/ ClearConnections

Spec == Init /\ [][Next]_vars

\* What the deployment keeps doing: a worker process runs on and is restarted
\* by its supervisor, the minute timer of cleanup_expired fires again and again,
\* and time passes.  Nothing is assumed of users or of API requests.  The chunks
\* removed in one round are finitely many, so their removal is not progress.
Progress(w) == Poll(w) \/ Execute(w) \/ \E t \in Tasks : SweepOn(w, t)

FairSpec ==
    /\ Spec
    /\ \A w \in Workers : /\ WF_vars(Progress(w))
                          /\ WF_vars(Restart(w))
                          /\ SF_vars(ReadExpired(w))
    /\ \A t \in Tasks : WF_vars(TimesOut(t)) /\ WF_vars(RetentionElapses(t))

-----------------------------------------------------------------------------
(* Properties *)

Busy(w)    == worker[w].pc \in BusyPC
Runs(w, t) == Busy(w) /\ Held(w) = t

\* Claim exclusivity: two workers never hold the same row between its claim and
\* the write of its outcome (the conditional update of claim_one), although the
\* row's status moves on under them and stale handlers write it.
OneRunner == \A v, w \in Workers : \A t \in Tasks : Runs(v, t) /\ Runs(w, t) => v = w

\* The promise to the user, see TransferPromise.  A row that ran twice has no
\* counterpart there.
TaskPhase == [t \in Tasks |->
                IF task[t].status = "none"   THEN "absent"
                ELSE IF ledger[t].runs = 1   THEN "started"
                ELSE IF ledger[t].runs > 1   THEN "overrun"
                ELSE IF ledger[t].acked      THEN "revoked"
                ELSE IF ledger[t].confirmed  THEN "approved"
                ELSE "pending"]

UserPromise == INSTANCE TransferPromise WITH PromisedTasks <- Tasks, phase <- TaskPhase

\* The implementation keeps the promise: claims, crashes, timeouts, expiry and
\* retries never make a row run twice, unconfirmed, or after an acknowledged
\* cancellation.
KeepsPromise == UserPromise!Promise

\* With one worker process, a row shown as finished is finished: nobody is
\* still executing it, so deleting or retrying it cannot meet a live execution.
FinishedIsStopped ==
    \A w \in Workers, t \in Tasks : task[t].status \in Finished => ~Runs(w, t)

\* With one worker process, clear_database_connections never removes the
\* connections under a transfer that is past its last check of them.
ConnectionsOutliveTransfers ==
    \A w \in Workers :
        worker[w].pc \in {"effect", "finish"} /\ NeedsAsset(task[Held(w)].kind)
            => connections

\* With one worker process, a succeeded export can be downloaded: expiry, delete
\* and a crashed or cancelled execution never leave it without its file.
DownloadReady ==
    \A t \in Tasks : task[t].status = "succeeded" /\ task[t].kind = "export"
                        => file[t].output

\* With one worker process a row shown as finished is over, and its download there.
FinishedHolds == FinishedIsStopped /\ DownloadReady

\* Every active task comes to an end, by expiry if nothing else ends it: no crash,
\* timeout, cancellation or lost request leaves a row active for ever.
Settles == \A t \in Tasks : task[t].status \in Active ~> task[t].status \notin Active

\* Why OneRunner and KeepsPromise hold when requests on a task are serial: the
\* invariant the theorems of TransferTaskProofs rest on.

\* Requests and workers name rows that exist, or existed.
References ==
    /\ \A r \in Requests : /\ ~At(r, "ready") => req[r].task \in Tasks
                           /\ At(r, "copy") => req[r].source \in Tasks
    /\ \A w \in Workers : Busy(w) => Held(w) \in Tasks

Writes(r, t) == req[r].pc \in WritingPC /\ req[r].task = t

\* A held row is never one that a claim, a confirmation or an upload looks for.
HeldRows ==
    \A w \in Workers : Busy(w) =>
        task[Held(w)].status \in {"running", "cancel_requested", "failed",
                                  "expired", "deleted"}

\* A request with a write to come has the row for itself.
Writers ==
    /\ \A r \in Requests, t \in Tasks : Writes(r, t) =>
          /\ ~Claimable(t) /\ task[t].status \notin {"none", "running", "succeeded"}
          /\ task[t].kind # "tableop"
          /\ \A w \in Workers : ~Runs(w, t)
          /\ \A q \in Requests : Writes(q, t) => q = r
    /\ \A t \in Tasks : task[t].status = "uploading" => task[t].kind # "tableop"

\* A row that has run is over, or its one execution is.
Started ==
    \A t \in Tasks : ledger[t].runs # 0 =>
        /\ ledger[t].runs = 1
        /\ task[t].status \in Finished \cup {"running", "cancel_requested", "deleted"}
        /\ \A r \in Requests : ~Writes(r, t)
        /\ \A w \in Workers :
              Runs(w, t) => worker[w].pc \in {"effect", "finish", "cancelled", "failed"}

\* What the history records is still to be seen in the row.
Recorded ==
    /\ \A t \in Tasks :
          /\ ledger[t].acked => task[t].cancel /\ ledger[t].runs = 0
          /\ task[t].status = "none" => ~ledger[t].acked /\ ~ledger[t].confirmed
          /\ task[t].status = "queued" => ledger[t].confirmed
    /\ \A w \in Workers : On(w, "gate") => ledger[Held(w)].confirmed

\* The inductive invariant: claims stay exclusive and promises on record although
\* sweeps, cancellations and late request writes change rows under their holder.
PromiseInv == TypeOK /\ References /\ HeldRows /\ OneRunner /\ Writers
                    /\ Started /\ Recorded

\* Why FinishedHolds and ConnectionsOutliveTransfers hold with one worker, which sweeps
\* only while it holds no row.

\* A request has its row for itself; a retry about to be dropped is an import that
\* names no input.
OwnRows ==
    \A r \in Requests :
        IF At(r, "ready") THEN req[r].task = NoTask
        ELSE /\ task[req[r].task].status # "none"
             /\ \A q \in Requests : req[q].task = req[r].task => q = r
             /\ At(r, "drop") => IsImport(task[req[r].task].kind) /\ ~task[req[r].task].input

\* A held row is active or was dropped; behind its gate it is active, and what was looked
\* at there is still so.
HeldAlone ==
    \A w \in Workers : Busy(w) =>
        /\ task[Held(w)].status \in {"running", "cancel_requested", "deleted"}
        /\ worker[w].pc \in {"effect", "finish"} =>
              /\ task[Held(w)].status # "deleted"
              /\ IsImport(task[Held(w)].kind) => task[Held(w)].input
              /\ NeedsAsset(task[Held(w)].kind) => connections
              /\ task[Held(w)].kind = "export" => file[Held(w)].output

\* The inductive invariant of one worker, together with PromiseInv.
SoloInv == OwnRows /\ HeldAlone /\ DownloadReady

\* What a text of the repository says and the code does not do.

\* "The task is not awaiting confirmation": a second confirmation is refused, so
\* nothing runs twice, also when two of them arrive together.
RunsOnce == \A t \in Tasks : ledger[t].runs <= 1
=============================================================================
