------------------------ MODULE TransferTaskProofs ------------------------
(***************************************************************************)
(* Theorems about TransferTask, for any number of tasks, workers and       *)
(* requests: its typing; and, when the requests on a task are serial, that *)
(* claims are exclusive and that the promise to the user is kept.  With    *)
(* one worker also: that a row shown as finished is over, and that         *)
(* transfers keep their connections.                                       *)
(***************************************************************************)
EXTENDS TransferTask, TLAPS

-----------------------------------------------------------------------------
(* What the helpers of the model write, stated once. *)

\* The typing of each part of the state, with the References that go with it.
TasksTyped    == task \in [Tasks -> Row]
FilesTyped    == file \in [Tasks -> Files]
LedgerTyped   == ledger \in [Tasks -> History]
RequestsTyped == /\ req \in [Requests -> RequestState]
                 /\ \A r \in Requests : /\ ~At(r, "ready") => req[r].task \in Tasks
                                        /\ At(r, "copy") => req[r].source \in Tasks
WorkersTyped  == /\ worker \in [Workers -> WorkerState]
                 /\ \A w \in Workers : Busy(w) => Held(w) \in Tasks
Typed         == /\ TasksTyped /\ FilesTyped /\ LedgerTyped
                 /\ RequestsTyped /\ WorkersTyped
                 /\ connections \in BOOLEAN /\ crashes \in 0..MaxCrashes

LEMMA TypedIsTypeOK == /\ Typed <=> TypeOK /\ References
                       /\ Typed' <=> TypeOK' /\ References'
  BY DEF Typed, TypeOK, References, TasksTyped, FilesTyped, LedgerTyped,
         RequestsTyped, WorkersTyped, At, Busy, Held

\* No row has the number 0.
LEMMA NoTaskIsNoRow == NoTask \notin Tasks
  BY DEF NoTask, Tasks

\* The blank row is a row.
LEMMA BlankRowTyped == BlankRow \in Row
  BY DEF BlankRow, Row, Stage, Status, AllKinds

\* A row marked with a status and a stage is a row, and differs in these alone.
LEMMA MarkedRow ==
  ASSUME TasksTyped, NEW t \in Tasks, NEW s \in Status, NEW g \in Stage
  PROVE  /\ Marked(t, s, g) \in Row
         /\ Marked(t, s, g).status = s
         /\ Marked(t, s, g).stage = g
         /\ Marked(t, s, g).kind = task[t].kind
         /\ Marked(t, s, g).cancel = task[t].cancel
  BY DEF TasksTyped, Marked, Row

\* Raising or clearing a flag of a row keeps it a row.
LEMMA Flagged ==
  ASSUME NEW row \in Row
  PROVE  /\ [row EXCEPT !.cancel = TRUE] \in Row
         /\ [row EXCEPT !.preview = TRUE] \in Row
         /\ [row EXCEPT !.input = TRUE] \in Row
         /\ [row EXCEPT !.input = FALSE] \in Row
         /\ [row EXCEPT !.overdue = TRUE] \in Row
         /\ [row EXCEPT !.overdue = FALSE] \in Row
         /\ [row EXCEPT !.due = TRUE] \in Row
  BY DEF Row

\* Saving a row changes the table at that row alone.
LEMMA Saved ==
  ASSUME TasksTyped, NEW t \in Tasks, NEW row \in Row, Save(t, row)
  PROVE  /\ TasksTyped'
         /\ task'[t] = row
         /\ \A u \in Tasks : u # t => task'[u] = task[u]
  BY DEF TasksTyped, Save

\* So does trying to.
LEMMA TriedToSave ==
  ASSUME TasksTyped, NEW t \in Tasks, NEW row \in Row, TrySave(t, row)
  PROVE  /\ TasksTyped'
         /\ task'[t] = IF Exists(t) THEN row ELSE task[t]
         /\ \A u \in Tasks : u # t => task'[u] = task[u]
  BY DEF TasksTyped, Save, TrySave

\* A request moves on within its handler.
LEMMA WentTo ==
  ASSUME RequestsTyped, NEW r \in Requests, ~At(r, "ready"),
         NEW pc \in RequestPC \ {"copy"}, Goto(r, pc)
  PROVE  /\ RequestsTyped'
         /\ req'[r].pc = pc /\ req'[r].task = req[r].task
         /\ \A q \in Requests : q # r => req'[q] = req[q]
  BY DEF RequestsTyped, RequestState, Goto, At

\* A request enters a handler.
LEMMA Began ==
  ASSUME RequestsTyped, NEW r \in Requests, NEW t \in Tasks,
         NEW pc \in RequestPC \ {"copy"}, Begin(r, pc, t)
  PROVE  /\ RequestsTyped'
         /\ req'[r].pc = pc /\ req'[r].task = t
         /\ \A q \in Requests : q # r => req'[q] = req[q]
  BY DEF RequestsTyped, RequestState, Begin, Ready, At

\* A request is answered.
LEMMA Responded ==
  ASSUME RequestsTyped, NEW r \in Requests, Respond(r)
  PROVE  /\ RequestsTyped'
         /\ req'[r].pc = "ready"
         /\ \A q \in Requests : q # r => req'[q] = req[q]
  BY DEF RequestsTyped, RequestState, RequestPC, WritingPC, Respond, Ready, At

\* A worker moves on with the row it holds.
LEMMA Stepped ==
  ASSUME WorkersTyped, NEW w \in Workers, Busy(w), NEW pc \in BusyPC, Step(w, pc)
  PROVE  /\ WorkersTyped'
         /\ worker'[w].pc = pc /\ worker'[w].task = worker[w].task
         /\ \A v \in Workers : v # w => worker'[v] = worker[v]
  BY DEF WorkersTyped, WorkerState, Step, WorkerPC, BusyPC, Busy, Held

\* A worker lets go of its row, or never had one.
LEMMA LetGo ==
  ASSUME WorkersTyped, NEW w \in Workers, Done(w) \/ Down(w)
  PROVE  /\ WorkersTyped'
         /\ worker'[w].pc \in {"idle", "down"}
         /\ \A v \in Workers : v # w => worker'[v] = worker[v]
  BY DEF WorkersTyped, WorkerState, Done, Down, Idle, WorkerPC, BusyPC, Busy, Held

\* A worker starts to go through rows it has read.
LEMMA Looked ==
  ASSUME WorkersTyped, NEW w \in Workers, NEW rows \in SUBSET Tasks,
         NEW pc \in {"expire", "legacy", "sweep"}, Look(w, pc, rows)
  PROVE  /\ WorkersTyped'
         /\ worker'[w].pc = pc
         /\ \A v \in Workers : v # w => worker'[v] = worker[v]
  BY DEF WorkersTyped, WorkerState, Look, WorkerPC, BusyPC, Busy, Held

\* A worker writes one of the rows it has read, or dies of it.
LEMMA Swept ==
  ASSUME TasksTyped, WorkersTyped, NEW w \in Workers, NEW t \in Tasks,
         NEW row \in Row, ~Busy(w), Sweep(w, t, row)
  PROVE  /\ TasksTyped' /\ WorkersTyped' /\ ~Busy(w)'
         /\ task'[t] = IF Exists(t) THEN row ELSE task[t]
         /\ \A u \in Tasks : u # t => task'[u] = task[u]
         /\ \A v \in Workers : v # w => worker'[v] = worker[v]
<1>1. CASE Exists(t)
  <2>1. TasksTyped' /\ task'[t] = row /\ \A u \in Tasks : u # t => task'[u] = task[u]
    BY <1>1, Saved DEF Sweep
  <2>2. worker' = [worker EXCEPT ![w].todo = @ \ {t}]
    BY <1>1 DEF Sweep
  <2> QED BY <1>1, <2>1, <2>2 DEF WorkersTyped, WorkerState, Busy, Held
<1>2. CASE ~Exists(t)
  <2>1. Down(w) /\ task' = task
    BY <1>2 DEF Sweep
  <2>2. WorkersTyped' /\ worker'[w].pc \in {"idle", "down"}
        /\ \A v \in Workers : v # w => worker'[v] = worker[v]
    BY <2>1, LetGo
  <2> QED BY <1>2, <2>1, <2>2 DEF TasksTyped, Busy, BusyPC
<1> QED BY <1>1, <1>2

\* A worker takes a row.
LEMMA Taken ==
  ASSUME WorkersTyped, NEW w \in Workers, NEW t \in Tasks, Claim(w, t)
  PROVE  WorkersTyped'
<1>1. PICK pc \in {"inspect", "gate"} :
        worker' = [worker EXCEPT ![w].task = t, ![w].pc = pc]
  BY DEF Claim
<1>2. worker \in [Workers -> WorkerState]
  BY DEF WorkersTyped
<1>3. [worker[w] EXCEPT !.task = t, !.pc = pc] \in WorkerState
  BY <1>2 DEF WorkerState, WorkerPC, BusyPC
<1>4. worker' = [worker EXCEPT ![w] = [worker[w] EXCEPT !.task = t, !.pc = pc]]
  BY <1>1, <1>2 DEF WorkerState
<1>5. worker' \in [Workers -> WorkerState]
  BY <1>2, <1>3, <1>4
<1>6. worker'[w].task = t
  BY <1>2, <1>4 DEF WorkerState
<1>7. \A v \in Workers : v # w => worker'[v] = worker[v]
  BY <1>2, <1>4
<1> QED BY <1>5, <1>6, <1>7 DEF WorkersTyped, Busy, Held

\* What an action leaves alone stays typed.
LEMMA Untouched ==
  ASSUME Typed
  PROVE  /\ UNCHANGED task => TasksTyped'
         /\ UNCHANGED file => FilesTyped'
         /\ UNCHANGED worker => WorkersTyped'
         /\ UNCHANGED req => RequestsTyped'
         /\ UNCHANGED ledger => LedgerTyped'
  BY DEF Typed, TasksTyped, FilesTyped, WorkersTyped, RequestsTyped, LedgerTyped,
         At, Busy, Held

-----------------------------------------------------------------------------
(* Typing *)

LEMMA TypedInit == Init => Typed
<1> SUFFICES ASSUME Init PROVE Typed
  OBVIOUS
<1>0. PICK old \in 0..LegacyRows : LegacyInit(old)
  BY DEF Init
<1>1. TasksTyped
  <2>1. PICK left \in [1..old -> {"awaiting_confirmation", "queued"}] :
          task = [t \in Tasks |->
                    IF t \in 1..old
                      THEN [BlankRow EXCEPT !.status = left[t],
                                            !.kind = "legacy", !.input = TRUE]
                      ELSE BlankRow]
    BY <1>0 DEF LegacyInit
  <2>2. \A s \in Status : [BlankRow EXCEPT !.status = s, !.kind = "legacy",
                                            !.input = TRUE] \in Row
    BY DEF BlankRow, Row, Stage
  <2>3. {"awaiting_confirmation", "queued"} \subseteq Status
    BY DEF Status, Active
  <2> QED BY <2>1, <2>2, <2>3, BlankRowTyped DEF TasksTyped
<1>2. FilesTyped
  BY <1>0 DEF LegacyInit, FilesTyped, Files, NoFiles
<1>3. WorkersTyped
  BY DEF Init, WorkersTyped, WorkerState, Idle, WorkerPC, BusyPC, Busy
<1>4. RequestsTyped
  BY DEF Init, RequestsTyped, RequestState, RequestPC, Ready, At
<1>5. LedgerTyped
  <2>1. ledger = [t \in Tasks |-> IF t \in 1..old
                                    THEN [Unwritten EXCEPT !.confirmed = TRUE]
                                    ELSE Unwritten]
    BY <1>0 DEF LegacyInit
  <2>2. Unwritten \in History /\ [Unwritten EXCEPT !.confirmed = TRUE] \in History
    <3>1. Unwritten \in History
      BY DEF Unwritten, History
    <3> QED BY <3>1 DEF History
  <2> QED BY <2>1, <2>2 DEF LedgerTyped
<1>6. connections \in BOOLEAN /\ crashes \in 0..MaxCrashes
  <2>1. connections = TRUE /\ crashes = 0
    BY DEF Init
  <2> QED BY <2>1, TransferAssumption
<1> QED BY <1>1, <1>2, <1>3, <1>4, <1>5, <1>6 DEF Typed

\* The handlers that are one step, and the passing of time, keep the state typed ...
LEMMA UsersKeepTyped ==
  ASSUME Typed, NEW t \in Tasks,
         CreateOn(t) \/ UserOn(t) \/ TimesOut(t) \/ RetentionElapses(t)
  PROVE  Typed'
<1> USE Untouched DEF Typed
<1>a. \A u \in Tasks : task[u] \in Row
  BY DEF TasksTyped
<1>b. {"none", "deleted", "uploading", "inspecting", "awaiting_confirmation", "queued",
       "running", "cancel_requested", "cancelled", "succeeded", "failed", "expired"}
        \subseteq Status
  BY DEF Status, Active, Finished
<1>c. {"other", "validating", "inspection_queued"} \subseteq Stage
  BY DEF Stage
<1>1. CASE CreateExport(t)
  <2>1. [BlankRow EXCEPT !.status = "queued"] \in Row
    BY BlankRowTyped, <1>b DEF Row
  <2>2. TasksTyped'
    BY <1>1, <2>1, Saved DEF CreateExport
  <2>3. LedgerTyped'
    BY <1>1 DEF CreateExport, LedgerTyped, History
  <2> QED BY <1>1, <2>2, <2>3 DEF CreateExport
<1>2. CASE PreviewTableOp(t)
  <2>1. [BlankRow EXCEPT !.status = "awaiting_confirmation", !.kind = "tableop",
                         !.preview = TRUE] \in Row
    BY BlankRowTyped, <1>b DEF Row, AllKinds
  <2> QED BY <1>2, <2>1, Saved DEF PreviewTableOp
<1>3. CASE Cancel(t)
  <2>1. /\ [Marked(t, "cancelled", "other") EXCEPT !.cancel = TRUE] \in Row
        /\ [[task[t] EXCEPT !.status = "cancel_requested"] EXCEPT !.cancel = TRUE] \in Row
    <3>1. [task[t] EXCEPT !.status = "cancel_requested"] \in Row
      BY <1>a, <1>b DEF Row
    <3> QED BY <1>b, <1>c, <3>1, MarkedRow, Flagged
  <2>2. TasksTyped'
    BY <1>3, <2>1, Saved DEF Cancel
  <2>3. LedgerTyped'
    BY <1>3 DEF Cancel, LedgerTyped, History
  <2> QED BY <1>3, <2>2, <2>3 DEF Cancel
<1>4. CASE Delete(t)
  <2>1. [task[t] EXCEPT !.status = "deleted"] \in Row
    BY <1>a, <1>b DEF Row
  <2>2. TasksTyped'
    BY <1>4, <2>1, Saved DEF Delete
  <2>3. FilesTyped'
    BY <1>4 DEF Delete, Unlink, FilesTyped, Files
  <2> QED BY <1>4, <2>2, <2>3 DEF Delete
<1>5. CASE ExecuteTableOp(t)
  <2>1. TasksTyped'
    BY <1>5, <1>b, <1>c, MarkedRow, Saved DEF ExecuteTableOp
  <2>2. LedgerTyped'
    BY <1>5 DEF ExecuteTableOp, LedgerTyped, History
  <2> QED BY <1>5, <2>1, <2>2 DEF ExecuteTableOp
<1>6. CASE TimesOut(t) \/ RetentionElapses(t)
  <2>1. [task[t] EXCEPT !.overdue = TRUE] \in Row /\ [task[t] EXCEPT !.due = TRUE] \in Row
    BY <1>a, Flagged
  <2> QED BY <1>6, <2>1, Saved DEF TimesOut, RetentionElapses
<1> QED BY <1>1, <1>2, <1>3, <1>4, <1>5, <1>6 DEF CreateOn, UserOn

\* ... the handlers that take several do ...
LEMMA RequestsKeepTyped ==
  ASSUME Typed, NEW t \in Tasks, NEW r \in Requests, RequestOn(r, t) \/ RequestStep(r)
  PROVE  Typed'
<1> USE Untouched DEF Typed
<1>a. \A u \in Tasks : task[u] \in Row
  BY DEF TasksTyped
<1>b. {"none", "deleted", "uploading", "inspecting", "awaiting_confirmation", "queued",
       "running", "cancel_requested", "cancelled", "succeeded", "failed", "expired"}
        \subseteq Status
  BY DEF Status, Active, Finished
<1>c. {"other", "validating", "inspection_queued"} \subseteq Stage
  BY DEF Stage
<1>d. RequestPC = {"direct", "merge", "merged", "stage", "inline", "fail", "confirm",
                   "ready", "init", "chunk", "copy", "path", "drop"}
  BY DEF RequestPC, WritingPC
<1>1. CASE UploadInit(r, t)
  <2>1. PICK k \in Kinds \cap {"dump", "redis", "small"} :
          Save(t, [BlankRow EXCEPT !.status = "uploading", !.kind = k])
    BY <1>1 DEF UploadInit
  <2>2. [BlankRow EXCEPT !.status = "uploading", !.kind = k] \in Row
    BY BlankRowTyped, <1>b DEF Row, AllKinds
  <2>3. TasksTyped'
    BY <2>1, <2>2, Saved
  <2>4. RequestsTyped'
    BY <1>1, <1>d, Began DEF UploadInit
  <2> QED BY <1>1, <2>3, <2>4 DEF UploadInit
<1>2. CASE DirectUpload(r, t)
  <2>1. [BlankRow EXCEPT !.status = "uploading", !.kind = "dump", !.input = TRUE] \in Row
    BY BlankRowTyped, <1>b DEF Row, AllKinds
  <2>2. TasksTyped'
    BY <1>2, <2>1, Saved DEF DirectUpload
  <2>3. RequestsTyped'
    BY <1>2, <1>d, Began DEF DirectUpload
  <2>4. FilesTyped'
    BY <1>2 DEF DirectUpload, FilesTyped, Files
  <2> QED BY <1>2, <2>2, <2>3, <2>4 DEF DirectUpload
<1>3. CASE UploadChunk(r, t) \/ CompleteUpload(r, t) \/ Confirm(r, t)
  <2>1. RequestsTyped'
    BY <1>3, <1>d, Began DEF UploadChunk, CompleteUpload, Confirm
  <2> QED BY <1>3, <2>1 DEF UploadChunk, CompleteUpload, Confirm
<1>4. ASSUME NEW u \in Tasks, Retry(r, t, u) PROVE Typed'
  <2>1. \A status \in {"inspecting", "queued"}, stage \in {"inspection_queued", "other"} :
          [BlankRow EXCEPT !.status = status, !.stage = stage,
                           !.kind = task[t].kind, !.preview = task[t].preview] \in Row
    BY BlankRowTyped, <1>a, <1>b, <1>c DEF Row
  <2>2. TasksTyped'
    BY <1>4, <2>1, Saved DEF Retry
  <2>3. RequestsTyped'
    BY <1>4, <1>d DEF Retry, RequestsTyped, RequestState, At
  <2>4. LedgerTyped'
    <3>1. PICK inspect \in BOOLEAN : ledger' = [ledger EXCEPT ![u].confirmed = ~inspect]
      BY <1>4, Zenon DEF Retry
    <3> QED BY <3>1 DEF LedgerTyped, History
  <2> QED BY <1>4, <2>2, <2>3, <2>4 DEF Retry
<1>5. CASE RequestStep(r)
  <2> DEFINE own == req[r].task
  <2>a. ~At(r, "ready") => own \in Tasks
    BY DEF RequestsTyped
  <2>1. CASE SaveInputPath(r) \/ SaveCopiedPath(r)
    <3>1. own \in Tasks
      BY <2>1, <2>a DEF SaveInputPath, SaveCopiedPath, At
    <3>2. [task[own] EXCEPT !.input = TRUE] \in Row
      BY <3>1, <1>a, Flagged
    <3>3. TasksTyped'
      BY <2>1, <3>1, <3>2, TriedToSave DEF SaveInputPath, SaveCopiedPath
    <3> QED BY <2>1, <3>3, Responded DEF SaveInputPath, SaveCopiedPath
  <2>2. CASE FinishDirectUpload(r)
    <3>1. own \in Tasks
      BY <2>2, <2>a DEF FinishDirectUpload, At
    <3>2. FilesTyped'
      BY <2>2 DEF FinishDirectUpload, FilesTyped, Files
    <3>3. TasksTyped'
      BY <2>2, <3>1, <1>b, <1>c, MarkedRow, TriedToSave DEF FinishDirectUpload
    <3> QED BY <2>2, <3>2, <3>3, Responded DEF FinishDirectUpload
  <2>3. CASE StoreChunk(r)
    <3>1. FilesTyped'
      BY <2>3 DEF StoreChunk, FilesTyped, Files
    <3> QED BY <2>3, <3>1, Responded DEF StoreChunk
  <2>4. CASE MergeChunks(r)
    <3>1. own \in Tasks
      BY <2>4, <2>a DEF MergeChunks, At
    <3>2. FilesTyped'
      <4>1. file[own].input \in {"none", "partial", "whole"}
        BY <3>1 DEF FilesTyped, Files
      <4>2. \/ file' = [file EXCEPT ![own].chunks = FALSE, ![own].input = "whole"]
            \/ \E left \in {"none", "partial", "whole"} :
                  file' = [file EXCEPT ![own].input = left]
        BY <2>4, <4>1 DEF MergeChunks
      <4>3. CASE file' = [file EXCEPT ![own].chunks = FALSE, ![own].input = "whole"]
        BY <3>1, <4>3 DEF FilesTyped, Files
      <4>4. ASSUME NEW left \in {"none", "partial", "whole"},
                   file' = [file EXCEPT ![own].input = left]
            PROVE  FilesTyped'
        BY <3>1, <4>4 DEF FilesTyped, Files
      <4> QED BY <4>2, <4>3, <4>4
    <3>3. RequestsTyped'
      BY <2>4, <1>d, WentTo DEF MergeChunks, At
    <3> QED BY <2>4, <3>2, <3>3 DEF MergeChunks
  <2>5. CASE SaveValidating(r)
    <3>1. own \in Tasks
      BY <2>5, <2>a DEF SaveValidating, At
    <3>2. TasksTyped'
      BY <2>5, <3>1, <1>b, <1>c, MarkedRow, Saved DEF SaveValidating
    <3>3. RequestsTyped'
      BY <2>5, <1>d, WentTo, Responded DEF SaveValidating, At
    <3> QED BY <2>5, <3>2, <3>3 DEF SaveValidating
  <2>6. CASE SaveInspectionQueued(r)
    <3>1. own \in Tasks
      BY <2>6, <2>a DEF SaveInspectionQueued, At
    <3>2. [task[own] EXCEPT !.stage = "inspection_queued"] \in Row
      BY <3>1, <1>a, <1>c DEF Row
    <3>3. TasksTyped'
      BY <2>6, <3>1, <3>2, TriedToSave DEF SaveInspectionQueued
    <3> QED BY <2>6, <3>3, Responded DEF SaveInspectionQueued
  <2>7. CASE InspectInline(r)
    <3>1. own \in Tasks
      BY <2>7, <2>a DEF InspectInline, At
    <3>2. [Marked(own, "awaiting_confirmation", "other") EXCEPT !.preview = TRUE] \in Row
      BY <3>1, <1>b, <1>c, MarkedRow, Flagged
    <3>3. TasksTyped'
      BY <2>7, <3>1, <3>2, Saved DEF InspectInline
    <3>4. RequestsTyped'
      BY <2>7, <1>d, WentTo, Responded DEF InspectInline, At
    <3> QED BY <2>7, <3>3, <3>4 DEF InspectInline
  <2>8. CASE FailUpload(r)
    <3>1. own \in Tasks
      BY <2>8, <2>a DEF FailUpload, At
    <3>2. TasksTyped'
      BY <2>8, <3>1, <1>b, <1>c, MarkedRow, TriedToSave DEF FailUpload
    <3> QED BY <2>8, <3>2, Responded DEF FailUpload
  <2>9. CASE QueueConfirmed(r)
    <3>1. own \in Tasks
      BY <2>9, <2>a DEF QueueConfirmed, At
    <3>2. TasksTyped'
      BY <2>9, <3>1, <1>b, <1>c, MarkedRow, Saved DEF QueueConfirmed
    <3>3. LedgerTyped'
      BY <2>9 DEF QueueConfirmed, LedgerTyped, History
    <3> QED BY <2>9, <3>2, <3>3, Responded DEF QueueConfirmed
  <2>10. CASE CopyInput(r)
    <3>1. own \in Tasks /\ req[r].source \in Tasks
      BY <2>10, <2>a DEF CopyInput, At, RequestsTyped
    <3>2. FilesTyped'
      BY <2>10, <3>1 DEF CopyInput, FilesTyped, Files
    <3>3. RequestsTyped'
      BY <2>10, <1>d, WentTo, Responded DEF CopyInput, At
    <3> QED BY <2>10, <3>2, <3>3 DEF CopyInput
  <2>11. CASE DropRetry(r)
    <3>1. own \in Tasks
      BY <2>11, <2>a DEF DropRetry, At
    <3>2. [task[own] EXCEPT !.status = "deleted"] \in Row
      BY <3>1, <1>a, <1>b DEF Row
    <3>3. TasksTyped'
      BY <2>11, <3>1, <3>2, Saved DEF DropRetry
    <3> QED BY <2>11, <3>3, Responded DEF DropRetry
  <2>12. CASE RequestDies(r)
    BY <2>12, Responded DEF RequestDies
  <2> QED BY <1>5, <2>1, <2>2, <2>3, <2>4, <2>5, <2>6, <2>7, <2>8, <2>9, <2>10,
             <2>11, <2>12 DEF RequestStep
<1> QED BY <1>1, <1>2, <1>3, <1>4, <1>5 DEF RequestOn

\* ... and so do the workers.
LEMMA WorkersKeepTyped ==
  ASSUME Typed, NEW t \in Tasks, NEW w \in Workers,
         ReadExpired(w) \/ Poll(w) \/ Execute(w) \/ Crash(w) \/ Restart(w)
         \/ SweepOn(w, t) \/ RemoveOldChunks(w, t)
  PROVE  Typed'
<1> USE Untouched DEF Typed
<1>a. {"running", "awaiting_confirmation", "succeeded", "failed", "cancelled", "expired"}
        \subseteq Status
  BY DEF Status, Active, Finished
<1>b. "other" \in Stage
  BY DEF Stage
<1>c. BusyPC = {"inspect", "preview", "gate", "effect", "finish", "cancelled", "failed"}
  BY DEF BusyPC
<1>d. Busy(w) => Held(w) \in Tasks
  BY DEF WorkersTyped
<1>1. CASE ReadExpired(w) \/ Poll(w)
  <2>1. ExpiredRows \subseteq Tasks /\ LegacyTasks \subseteq Tasks /\ StaleRows \subseteq Tasks
    BY DEF ExpiredRows, LegacyTasks, StaleRows
  <2> QED BY <1>1, <2>1, Looked, LetGo
          DEF ReadExpired, Poll, StartPoll, ReadStale, NothingToClaim
<1>2. CASE Crash(w)
  <2>1. crashes' \in 0..MaxCrashes
    BY <1>2, TransferAssumption DEF Crash
  <2> QED BY <1>2, <2>1, LetGo DEF Crash
<1>3. CASE Restart(w)
  BY <1>3, LetGo DEF Restart
<1>4. CASE ExpireOne(w, t)
  <2>1. [Marked(t, "expired", "other") EXCEPT !.input = FALSE] \in Row
    BY <1>a, <1>b, MarkedRow, Flagged
  <2>2. FilesTyped'
    BY <1>4 DEF ExpireOne, Unlink, FilesTyped, Files
  <2> QED BY <1>4, <1>c, <2>1, <2>2, Swept DEF ExpireOne, On, Busy
<1>5. CASE FailLegacy(w, t) \/ FailStale(w, t)
  BY <1>5, <1>a, <1>b, <1>c, MarkedRow, Swept DEF FailLegacy, FailStale, On, Busy
<1>6. CASE Claim(w, t)
  <2>1. [Marked(t, "running", "other") EXCEPT !.overdue = FALSE] \in Row
    BY <1>a, <1>b, MarkedRow, Flagged
  <2>2. TasksTyped'
    BY <1>6, <2>1, Saved DEF Claim
  <2>3. WorkersTyped'
    BY <1>6, Taken
  <2> QED BY <1>6, <2>2, <2>3 DEF Claim
<1>7. CASE RemoveOldChunks(w, t)
  <2>1. FilesTyped'
    BY <1>7 DEF RemoveOldChunks, FilesTyped, Files
  <2> QED BY <1>7, <2>1 DEF RemoveOldChunks
<1>8. CASE Inspect(w) \/ LastProgress(w) \/ Interrupted(w) \/ Fault(w)
  BY <1>8, <1>c, Stepped DEF Inspect, LastProgress, Interrupted, Fault, On, Busy
<1>9. CASE SavePreview(w)
  <2>1. Busy(w) /\ Held(w) \in Tasks
    BY <1>9, <1>c, <1>d DEF SavePreview, On, Busy
  <2>2. [Marked(Held(w), "awaiting_confirmation", "other") EXCEPT !.preview = TRUE] \in Row
    BY <2>1, <1>a, <1>b, MarkedRow, Flagged
  <2>3. TasksTyped'
    BY <1>9, <2>1, <2>2, Saved DEF SavePreview
  <2>4. WorkersTyped'
    BY <1>9, <1>c, <2>1, Stepped, LetGo DEF SavePreview
  <2> QED BY <1>9, <2>3, <2>4 DEF SavePreview
<1>10. CASE PassGate(w)
  <2>1. Busy(w) /\ Held(w) \in Tasks
    BY <1>10, <1>c, <1>d DEF PassGate, On, Busy
  <2>2. FilesTyped'
    BY <1>10, <2>1 DEF PassGate, FilesTyped, Files
  <2>3. LedgerTyped'
    BY <1>10, <2>1 DEF PassGate, LedgerTyped, History
  <2>4. WorkersTyped'
    BY <1>10, <1>c, <2>1, Stepped DEF PassGate
  <2> QED BY <1>10, <2>2, <2>3, <2>4 DEF PassGate
<1>11. CASE Finish(w) \/ SaveFailure(w)
  <2>1. Busy(w) /\ Held(w) \in Tasks
    BY <1>11, <1>c, <1>d DEF Finish, SaveFailure, On, Busy
  <2>2. TasksTyped'
    BY <1>11, <2>1, <1>a, <1>b, MarkedRow, Saved DEF Finish, SaveFailure
  <2>3. WorkersTyped'
    BY <1>11, <1>c, <2>1, Stepped, LetGo DEF Finish, SaveFailure
  <2> QED BY <1>11, <2>2, <2>3 DEF Finish, SaveFailure
<1> QED BY <1>1, <1>2, <1>3, <1>4, <1>5, <1>6, <1>7, <1>8, <1>9, <1>10, <1>11
        DEF SweepOn, Execute

\* So every step does.
LEMMA TypedStep == Typed /\ [Next]_vars => Typed'
<1> SUFFICES ASSUME Typed, [Next]_vars PROVE Typed'
  OBVIOUS
<1>1. CASE UNCHANGED vars
  BY <1>1, Untouched DEF vars, Typed
<1>2. CASE Next
  <2>1. 1 \in Tasks
    BY TransferAssumption DEF Tasks
  <2>2. CASE ClearConnections
    BY <2>2, Untouched DEF ClearConnections, Typed
  <2> QED BY <1>2, <2>1, <2>2, UsersKeepTyped, RequestsKeepTyped, WorkersKeepTyped
          DEF Next
<1> QED BY <1>1, <1>2

\* The state stays typed, and a handler or a worker names only rows of the table,
\* whatever else happens to these rows.
THEOREM TypeCorrect == Spec => []TypeOK
<1>1. Init => Typed
  BY TypedInit
<1>2. Typed /\ [Next]_vars => Typed'
  BY TypedStep
<1>3. Typed => TypeOK
  BY TypedIsTypeOK
<1> QED BY <1>1, <1>2, <1>3, PTL DEF Spec

-----------------------------------------------------------------------------
(* The promise to the user: claims are exclusive and the phases move on as *)
(* TransferPromise says.  Every lemma below proves both for some steps.    *)

PromiseStep == [UserPromise!PromiseNext]_TaskPhase

\* How the phase of one task may move on.
LEMMA PhaseMoves ==
  ASSUME NEW t \in Tasks,
         \A u \in Tasks : u # t => TaskPhase'[u] = TaskPhase[u],
         \/ TaskPhase'[t] = TaskPhase[t]
         \/ TaskPhase[t] = "absent" /\ TaskPhase'[t] \in {"pending", "approved"}
         \/ TaskPhase[t] = "pending" /\ TaskPhase'[t] = "approved"
         \/ TaskPhase[t] \in {"pending", "approved"} /\ TaskPhase'[t] = "revoked"
         \/ TaskPhase[t] = "approved" /\ TaskPhase'[t] = "started"
  PROVE  PromiseStep
<1> DEFINE next == TaskPhase'[t]
<1>1. TaskPhase' = [TaskPhase EXCEPT ![t] = next]
  <2>1. /\ TaskPhase = [u \in Tasks |-> TaskPhase[u]]
        /\ TaskPhase' = [u \in Tasks |-> TaskPhase'[u]]
    BY DEF TaskPhase
  <2> QED BY <2>1
<1>2. CASE TaskPhase'[t] = TaskPhase[t]
  <2>1. TaskPhase' = TaskPhase
    BY <1>2 DEF TaskPhase
  <2> QED BY <2>1 DEF PromiseStep
<1>3. CASE TaskPhase'[t] # TaskPhase[t]
  <2>1. UserPromise!PromiseNext
    BY <1>1, <1>3 DEF UserPromise!PromiseNext, UserPromise!Submit, UserPromise!Approve,
                      UserPromise!Revoke, UserPromise!Start, UserPromise!Move
  <2> QED BY <2>1 DEF PromiseStep
<1> QED BY <1>2, <1>3

\* A step that ends a row or leaves its status alone, starts no execution and
\* gives no request a write to do.
LEMMA QuietStep ==
  ASSUME PromiseInv, Typed', NEW t \in Tasks,
         \A u \in Tasks : u # t => task'[u] = task[u],
         task'[t].kind = task[t].kind, task[t].cancel => task'[t].cancel,
         \/ task'[t].status = task[t].status /\ task'[t].stage = task[t].stage
         \/ task'[t].status \in {"expired", "failed", "deleted"},
         ledger' = ledger,
         \A w \in Workers : Busy(w)' =>
             /\ Busy(w) /\ Held(w)' = Held(w)
             /\ worker'[w].pc \in {worker[w].pc, "cancelled", "failed"},
         \A r \in Requests, u \in Tasks : Writes(r, u)' => Writes(r, u)
  PROVE  PromiseInv' /\ PromiseStep
<1> USE DEF PromiseInv
<1>1. TypeOK' /\ References'
  BY TypedIsTypeOK
<1>2. HeldRows'
  BY DEF HeldRows, References
<1>3. OneRunner'
  BY DEF OneRunner, Runs
<1>4. Writers'
  BY DEF Writers, Runs, Claimable
<1>5. Started'
  BY DEF Started, Runs, Finished
<1>6. Recorded'
  BY DEF Recorded, On, Busy, BusyPC, Held, References
<1>7. PromiseStep
  <2>1. \A u \in Tasks : u # t => TaskPhase'[u] = TaskPhase[u]
    BY DEF TaskPhase
  <2>2. CASE task[t].status = "none" /\ task'[t].status # "none"
    <3>1. ledger[t].runs = 0 /\ ~ledger[t].acked /\ ~ledger[t].confirmed
      BY <2>2 DEF Recorded, Started, Finished
    <3>2. TaskPhase[t] = "absent" /\ TaskPhase'[t] = "pending"
      BY <2>2, <3>1 DEF TaskPhase
    <3> QED BY <2>1, <3>2, PhaseMoves
  <2>3. CASE task[t].status = "none" <=> task'[t].status = "none"
    <3>1. TaskPhase'[t] = TaskPhase[t]
      BY <2>3 DEF TaskPhase
    <3> QED BY <2>1, <3>1, PhaseMoves
  <2> QED BY <2>2, <2>3
<1> QED BY <1>1, <1>2, <1>3, <1>4, <1>5, <1>6, <1>7

\* A request with the row for itself writes it, and may have more to write.
LEMMA WriterStep ==
  ASSUME PromiseInv, Typed', NEW r \in Requests, NEW t \in Tasks, Writes(r, t),
         UNCHANGED worker,
         \A u \in Tasks : u # t => task'[u] = task[u] /\ ledger'[u] = ledger[u],
         task'[t].kind = task[t].kind, task[t].cancel => task'[t].cancel,
         task'[t].status # "none",
         ledger'[t].acked = ledger[t].acked, ledger'[t].runs = ledger[t].runs,
         ledger[t].confirmed => ledger'[t].confirmed,
         task'[t].status = "queued" => ledger'[t].confirmed,
         \A q \in Requests : q # r => req'[q] = req[q],
         \A u \in Tasks : Writes(r, u)' =>
            /\ u = t /\ ~Claimable(t)'
            /\ task'[t].status \notin {"none", "running", "succeeded"}
  PROVE  PromiseInv' /\ PromiseStep
<1> USE DEF PromiseInv
<1>1. TypeOK' /\ References'
  BY TypedIsTypeOK
<1>2. /\ \A w \in Workers : ~Runs(w, t)
      /\ \A q \in Requests : Writes(q, t) => q = r
      /\ task[t].kind # "tableop" /\ task[t].status # "none"
  BY DEF Writers
<1>3. ledger[t].runs = 0
  BY DEF Started
<1>4. HeldRows'
  BY <1>2 DEF HeldRows, References, Busy, Held, Runs
<1>5. OneRunner'
  BY DEF OneRunner, Runs, Busy, Held
<1>6. Writers'
  <2>1. \A q \in Requests, u \in Tasks : q # r => (Writes(q, u)' <=> Writes(q, u))
    BY DEF Writes
  <2>2. \A w \in Workers, u \in Tasks : Runs(w, u)' <=> Runs(w, u)
    BY DEF Runs, Busy, Held
  <2>3. \A u \in Tasks : u # t => (Claimable(u)' <=> Claimable(u))
    BY DEF Claimable
  <2> QED BY <1>2, <2>1, <2>2, <2>3 DEF Writers
<1>7. Started'
  <2>1. \A q \in Requests, u \in Tasks : u # t /\ Writes(q, u)' => Writes(q, u)
    BY DEF Writes
  <2> QED BY <1>3, <2>1 DEF Started, Runs, Busy, Held
<1>8. Recorded'
  BY <1>2, <1>3 DEF Recorded, On, Held, References, Busy, BusyPC
<1>9. PromiseStep
  <2>1. \A u \in Tasks : u # t => TaskPhase'[u] = TaskPhase[u]
    BY DEF TaskPhase
  <2>2. CASE ~ledger[t].confirmed /\ ledger'[t].confirmed /\ ~ledger[t].acked
    BY <1>2, <1>3, <2>1, <2>2, PhaseMoves DEF TaskPhase
  <2>3. CASE ledger[t].acked \/ (ledger[t].confirmed <=> ledger'[t].confirmed)
    <3>1. TaskPhase'[t] = TaskPhase[t]
      BY <1>2, <1>3, <2>3 DEF TaskPhase
    <3> QED BY <2>1, <3>1, PhaseMoves
  <2> QED BY <2>2, <2>3
<1> QED BY <1>1, <1>4, <1>5, <1>6, <1>7, <1>8, <1>9

\* A row is created; if it is for an upload, one request has it for itself.
LEMMA NewRow ==
  ASSUME PromiseInv, Typed', NEW t \in Tasks, task[t].status = "none",
         UNCHANGED worker,
         \A u \in Tasks : u # t => task'[u] = task[u] /\ ledger'[u] = ledger[u],
         task'[t].status \in {"uploading", "inspecting", "awaiting_confirmation", "queued"},
         task'[t].status = "uploading" => task'[t].kind # "tableop",
         ~ledger'[t].acked, ledger'[t].runs = 0,
         task'[t].status = "queued" => ledger'[t].confirmed,
         \A q \in Requests, u \in Tasks : u # t /\ Writes(q, u)' => Writes(q, u),
         \A q \in Requests : Writes(q, t)' =>
            /\ task'[t].status = "uploading"
            /\ \A p \in Requests : Writes(p, t)' => p = q
  PROVE  PromiseInv' /\ PromiseStep
<1> USE DEF PromiseInv
<1>1. TypeOK' /\ References'
  BY TypedIsTypeOK
<1>2. /\ \A w \in Workers : ~Runs(w, t)
      /\ ~ledger[t].acked /\ ~ledger[t].confirmed /\ ledger[t].runs = 0
  BY DEF Recorded, Started, Finished, HeldRows, Runs
<1>3. \A w \in Workers, u \in Tasks : Runs(w, u)' <=> Runs(w, u)
  BY DEF Runs, Busy, Held
<1>4. HeldRows'
  BY <1>2 DEF HeldRows, References, Busy, Held, Runs
<1>5. OneRunner'
  BY <1>3 DEF OneRunner
<1>6. Writers'
  <2>1. \A u \in Tasks : u # t => (Claimable(u)' <=> Claimable(u))
    BY DEF Claimable
  <2>2. task'[t].status = "uploading" => ~Claimable(t)'
    BY DEF Claimable
  <2> QED BY <1>2, <1>3, <2>1, <2>2 DEF Writers
<1>7. Started'
  BY <1>3 DEF Started, Runs, Busy, Held
<1>8. Recorded'
  <2>1. \A w \in Workers : On(w, "gate") => Held(w) \in Tasks /\ Held(w) # t
    BY <1>2 DEF On, References, Busy, BusyPC, Held, Runs
  <2> QED BY <2>1 DEF Recorded, On, Held
<1>9. PromiseStep
  <2>1. \A u \in Tasks : u # t => TaskPhase'[u] = TaskPhase[u]
    BY DEF TaskPhase
  <2>2. TaskPhase[t] = "absent" /\ TaskPhase'[t] \in {"pending", "approved"}
    BY DEF TaskPhase
  <2> QED BY <2>1, <2>2, PhaseMoves
<1> QED BY <1>1, <1>4, <1>5, <1>6, <1>7, <1>8, <1>9

\* Requests that are serial begin to work on a row nobody else works on.
LEMMA BeginStep ==
  ASSUME PromiseInv, Typed', NEW r \in Requests, NEW t \in Tasks,
         SerialRequests, Free(t),
         task[t].status \in {"uploading", "awaiting_confirmation"},
         task[t].kind # "tableop",
         UNCHANGED <<task, worker, ledger>>,
         \A q \in Requests : q # r => req'[q] = req[q],
         req'[r].task = t
  PROVE  PromiseInv' /\ PromiseStep
<1> USE DEF PromiseInv
<1>1. TypeOK' /\ References'
  BY TypedIsTypeOK
<1>2. /\ \A w \in Workers : ~Runs(w, t)
      /\ \A q \in Requests : ~Writes(q, t)
      /\ ledger[t].runs = 0
  BY DEF Started, Finished, HeldRows, Runs, Free, Writes
<1>3. \A w \in Workers, u \in Tasks : Runs(w, u)' <=> Runs(w, u)
  BY DEF Runs, Busy, Held
<1>4. HeldRows' /\ OneRunner'
  BY <1>3 DEF HeldRows, OneRunner, Busy, Held
<1>5. Writers'
  <2>1. \A u \in Tasks : Claimable(u)' <=> Claimable(u)
    BY DEF Claimable
  <2>2. ~Claimable(t)
    BY DEF Claimable
  <2> QED BY <1>2, <1>3, <2>1, <2>2 DEF Writers, Writes
<1>6. Started'
  BY <1>2, <1>3 DEF Started, Writes
<1>7. Recorded'
  BY DEF Recorded, On, Held
<1>8. PromiseStep
  BY DEF PromiseStep, TaskPhase
<1> QED BY <1>1, <1>4, <1>5, <1>6, <1>7, <1>8

\* A worker goes on with its row, or writes an outcome and lets go of it.
LEMMA WorkerStep ==
  ASSUME PromiseInv, Typed', NEW w \in Workers, Busy(w), NEW t \in Tasks, Held(w) = t,
         UNCHANGED <<req, ledger>>,
         \A u \in Tasks : u # t => task'[u] = task[u],
         \A v \in Workers : v # w => worker'[v] = worker[v],
         task'[t].kind = task[t].kind, task[t].cancel => task'[t].cancel,
         Busy(w)' => /\ Held(w)' = t /\ task'[t] = task[t]
                     /\ worker'[w].pc \in {"preview", "finish", "cancelled", "failed"}
                     /\ worker'[w].pc = "preview" => On(w, "inspect"),
         \/ task'[t].status = task[t].status /\ task'[t].stage = task[t].stage
         \/ task'[t].status \in {"succeeded", "failed", "cancelled"}
         \/ task'[t].status = "awaiting_confirmation" /\ On(w, "preview")
  PROVE  PromiseInv' /\ PromiseStep
<1> USE DEF PromiseInv
<1>1. TypeOK' /\ References'
  BY TypedIsTypeOK
<1>2. /\ Runs(w, t)
      /\ \A v \in Workers : v # w => ~Runs(v, t)
      /\ \A r \in Requests : ~Writes(r, t)
      /\ task[t].status # "none"
  BY DEF OneRunner, Writers, HeldRows, Runs
<1>3. \A v \in Workers, u \in Tasks : Runs(v, u)' => Runs(v, u)
  BY <1>2 DEF Runs, Busy, Held
<1>4. HeldRows'
  <2>1. \A v \in Workers : v # w => (Busy(v)' => Busy(v) /\ Held(v)' = Held(v) /\ Held(v) # t)
    BY <1>2 DEF Busy, Held, Runs
  <2> QED BY <2>1 DEF HeldRows, References
<1>5. OneRunner'
  BY <1>3 DEF OneRunner
<1>6. Writers'
  <2>1. \A u \in Tasks : u # t => (Claimable(u)' <=> Claimable(u))
    BY DEF Claimable
  <2>2. \A r \in Requests, u \in Tasks : Writes(r, u)' <=> Writes(r, u)
    BY DEF Writes
  <2> QED BY <1>2, <1>3, <2>1, <2>2 DEF Writers
<1>7. Started'
  <2>1. \A r \in Requests, u \in Tasks : Writes(r, u)' <=> Writes(r, u)
    BY DEF Writes
  <2>2. ledger[t].runs # 0 => ~On(w, "preview") /\ ~On(w, "inspect")
    BY <1>2 DEF Started, On
  <2>3. \A v \in Workers, u \in Tasks : v # w /\ Runs(v, u)' => worker'[v].pc = worker[v].pc
    OBVIOUS
  <2>4. \A u \in Tasks : Runs(w, u)' => u = t
    BY DEF Runs
  <2>5. Runs(w, t)' /\ ledger[t].runs # 0 =>
          worker'[w].pc \in {"effect", "finish", "cancelled", "failed"}
    BY <2>2 DEF Runs
  <2> QED BY <1>3, <2>1, <2>2, <2>3, <2>4, <2>5 DEF Started, Finished
<1>8. Recorded'
  <2>1. \A v \in Workers : On(v, "gate")' => On(v, "gate") /\ Held(v)' = Held(v)
    BY DEF On, Held, Busy, BusyPC
  <2> QED BY <1>2, <2>1 DEF Recorded
<1>9. PromiseStep
  <2>1. TaskPhase' = TaskPhase
    BY <1>2 DEF TaskPhase
  <2> QED BY <2>1 DEF PromiseStep
<1> QED BY <1>1, <1>4, <1>5, <1>6, <1>7, <1>8, <1>9

\* A claim takes a row that nobody holds, writes or has run.
LEMMA ClaimStep ==
  ASSUME PromiseInv, Typed', NEW w \in Workers, NEW t \in Tasks, Claim(w, t)
  PROVE  PromiseInv' /\ PromiseStep
<1> USE DEF PromiseInv
<1>1. TypeOK' /\ References'
  BY TypedIsTypeOK
<1>2. Claimable(t) /\ ~Busy(w) /\ UNCHANGED <<req, ledger>>
  BY DEF Claim, Oldest, On, Busy, BusyPC
<1>3. /\ task'[t].status = "running" /\ task'[t].kind = task[t].kind
      /\ task'[t].cancel = task[t].cancel
      /\ \A u \in Tasks : u # t => task'[u] = task[u]
  BY DEF Claim, Save, Marked, TypeOK, Row
<1>4. /\ worker'[w].task = t /\ worker'[w].pc \in {"inspect", "gate"}
      /\ worker'[w].pc = "gate" => task[t].status = "queued"
      /\ \A v \in Workers : v # w => worker'[v] = worker[v]
  BY <1>2 DEF Claim, TypeOK, WorkerState, Claimable
<1>5. /\ \A v \in Workers : ~Runs(v, t)
      /\ \A r \in Requests : ~Writes(r, t)
      /\ ledger[t].runs = 0 /\ task[t].status # "none"
  BY <1>2 DEF Claimable, HeldRows, Runs, Writers, Started, Finished
<1>6. \A v \in Workers, u \in Tasks : Runs(v, u)' => Runs(v, u) \/ (v = w /\ u = t)
  BY <1>4 DEF Runs, Busy, Held
<1>7. HeldRows'
  BY <1>3, <1>4, <1>5 DEF HeldRows, References, Busy, Held, Runs
<1>8. OneRunner'
  BY <1>5, <1>6 DEF OneRunner
<1>9. Writers'
  <2>1. \A u \in Tasks : u # t => (Claimable(u)' <=> Claimable(u))
    BY <1>3 DEF Claimable
  <2>2. \A r \in Requests, u \in Tasks : Writes(r, u)' <=> Writes(r, u)
    BY <1>2 DEF Writes
  <2> QED BY <1>3, <1>5, <1>6, <2>1, <2>2 DEF Writers
<1>10. Started'
  <2>1. \A r \in Requests, u \in Tasks : Writes(r, u)' <=> Writes(r, u)
    BY <1>2 DEF Writes
  <2>2. \A v \in Workers, u \in Tasks : u # t /\ Runs(v, u)' =>
          Runs(v, u) /\ worker'[v].pc = worker[v].pc
    BY <1>2, <1>4, <1>6 DEF Runs, Busy
  <2> QED BY <1>2, <1>3, <1>5, <2>1, <2>2 DEF Started
<1>11. Recorded'
  <2>1. \A v \in Workers : v # w /\ On(v, "gate")' => On(v, "gate") /\ Held(v)' = Held(v)
    BY <1>4 DEF On, Held
  <2>2. On(w, "gate")' => Held(w)' = t /\ ledger[t].confirmed
    BY <1>4 DEF On, Held, Recorded
  <2> QED BY <1>2, <1>3, <1>5, <2>1, <2>2 DEF Recorded
<1>12. PromiseStep
  <2>1. TaskPhase' = TaskPhase
    BY <1>2, <1>3, <1>5 DEF TaskPhase
  <2> QED BY <2>1 DEF PromiseStep
<1> QED BY <1>1, <1>7, <1>8, <1>9, <1>10, <1>11, <1>12

\* Passing the gate begins the one execution of a confirmed row.
LEMMA GateStep ==
  ASSUME PromiseInv, Typed', NEW w \in Workers, PassGate(w)
  PROVE  PromiseInv' /\ PromiseStep
<1> USE DEF PromiseInv
<1> DEFINE t == Held(w)
<1>1. TypeOK' /\ References'
  BY TypedIsTypeOK
<1>2. On(w, "gate") /\ Runs(w, t) /\ t \in Tasks /\ UNCHANGED <<task, req>>
  BY DEF PassGate, On, Runs, Busy, BusyPC, References
<1>3. /\ ~task[t].cancel /\ task[t].status # "none"
      /\ ledger' = [ledger EXCEPT ![t].runs = IF @ = 0 THEN 1 ELSE 2]
  BY <1>2 DEF PassGate, Continues, Exists
<1>4. /\ ledger[t].confirmed /\ ~ledger[t].acked /\ ledger[t].runs = 0
      /\ \A r \in Requests : ~Writes(r, t)
  BY <1>2, <1>3 DEF Recorded, Started, Writers, On
<1>5. /\ ledger'[t].runs = 1 /\ ledger'[t].acked = ledger[t].acked
      /\ ledger'[t].confirmed = ledger[t].confirmed
      /\ \A u \in Tasks : u # t => ledger'[u] = ledger[u]
  BY <1>2, <1>3, <1>4 DEF TypeOK, History
<1>6. /\ worker'[w].pc \in {"finish", "effect"} /\ worker'[w].task = t
      /\ \A v \in Workers : v # w => worker'[v] = worker[v]
  BY <1>2 DEF PassGate, Step, TypeOK, WorkerState, Held
<1>7. \A v \in Workers, u \in Tasks : Runs(v, u)' <=> Runs(v, u)
  BY <1>2, <1>6 DEF Runs, Busy, BusyPC, Held
<1>8. HeldRows'
  BY <1>2, <1>6, <1>7 DEF HeldRows, Busy, BusyPC, Held, Runs
<1>9. OneRunner'
  BY <1>7 DEF OneRunner
<1>a. \A r \in Requests, u \in Tasks : Writes(r, u)' <=> Writes(r, u)
  BY <1>2 DEF Writes
<1>10. Writers'
  <2>1. \A u \in Tasks : Claimable(u)' <=> Claimable(u)
    BY <1>2 DEF Claimable
  <2> QED BY <1>2, <1>7, <1>a, <2>1 DEF Writers
<1>11. Started'
  <2>1. task[t].status \in Finished \cup {"running", "cancel_requested", "deleted"}
    BY <1>2 DEF HeldRows, Runs, Finished
  <2>2. \A v \in Workers : Runs(v, t) => v = w
    BY <1>2 DEF OneRunner
  <2>3. \A v \in Workers, u \in Tasks : u # t /\ Runs(v, u)' => worker'[v].pc = worker[v].pc
    BY <1>2, <1>6, <1>7 DEF Runs
  <2> QED BY <1>2, <1>4, <1>5, <1>6, <1>7, <1>a, <2>1, <2>2, <2>3 DEF Started
<1>12. Recorded'
  <2>1. \A v \in Workers : On(v, "gate")' => /\ On(v, "gate") /\ Held(v)' = Held(v)
                                            /\ Held(v) \in Tasks
    BY <1>6 DEF On, Held, References, Busy, BusyPC
  <2> QED BY <1>2, <1>4, <1>5, <2>1 DEF Recorded
<1>13. PromiseStep
  <2>1. \A u \in Tasks : u # t => TaskPhase'[u] = TaskPhase[u]
    BY <1>2, <1>5 DEF TaskPhase
  <2>2. TaskPhase[t] = "approved" /\ TaskPhase'[t] = "started"
    BY <1>2, <1>3, <1>4, <1>5 DEF TaskPhase
  <2> QED BY <1>2, <2>1, <2>2, PhaseMoves
<1> QED BY <1>1, <1>8, <1>9, <1>10, <1>11, <1>12, <1>13

\* A cancellation raises the flag, and answers "cancelled" only for rows that
\* nobody holds.
LEMMA CancelStep ==
  ASSUME PromiseInv, Typed', NEW t \in Tasks, Cancel(t)
  PROVE  PromiseInv' /\ PromiseStep
<1> USE DEF PromiseInv
<1>1. TypeOK' /\ References'
  BY TypedIsTypeOK
<1>2. /\ task'[t].kind = task[t].kind /\ task'[t].cancel
      /\ \A u \in Tasks : u # t => task'[u] = task[u]
      /\ task'[t].status = IF Immediate(t) THEN "cancelled" ELSE "cancel_requested"
      /\ task[t].status \in Active
  <2>1. TasksTyped /\ task[t] \in Row /\ task[t].status \in Active
    BY TypedIsTypeOK DEF Typed, TypeOK, Cancel
  <2>2. CASE Immediate(t)
    <3> DEFINE marked == Marked(t, "cancelled", "other")
    <3>1. marked \in Row /\ marked.status = "cancelled" /\ marked.kind = task[t].kind
      BY <2>1, MarkedRow DEF Status, Finished, Stage
    <3>2. Save(t, [marked EXCEPT !.cancel = TRUE])
      BY <2>2 DEF Cancel
    <3> HIDE DEF marked
    <3> QED BY <2>1, <2>2, <3>1, <3>2 DEF Save, TasksTyped, Row
  <2>3. CASE ~Immediate(t)
    <3>1. Save(t, [task[t] EXCEPT !.status = "cancel_requested", !.cancel = TRUE])
      BY <2>3 DEF Cancel
    <3> QED BY <2>1, <2>3, <3>1 DEF Save, TasksTyped, Row
  <2> QED BY <2>1, <2>2, <2>3
<1>3. UNCHANGED <<worker, req>>
  BY DEF Cancel
<1>4. /\ \A w \in Workers, u \in Tasks : Runs(w, u)' <=> Runs(w, u)
      /\ \A r \in Requests, u \in Tasks : Writes(r, u)' <=> Writes(r, u)
  BY <1>3 DEF Runs, Busy, Held, Writes
<1>5. Immediate(t) => ledger[t].runs = 0 /\ \A w \in Workers : ~Runs(w, t)
  BY DEF Immediate, Claimable, Started, Finished, HeldRows, Runs
<1>6. /\ ledger'[t].runs = ledger[t].runs /\ ledger'[t].confirmed = ledger[t].confirmed
      /\ ledger'[t].acked <=> ledger[t].acked \/ Immediate(t)
      /\ \A u \in Tasks : u # t => ledger'[u] = ledger[u]
  BY DEF Cancel, TypeOK, History
<1>7. HeldRows'
  BY <1>2, <1>3, <1>5 DEF HeldRows, Busy, Held, Runs, References
<1>8. OneRunner'
  BY <1>4 DEF OneRunner
<1>9. Writers'
  <2>1. \A u \in Tasks : u # t => (Claimable(u)' <=> Claimable(u))
    BY <1>2 DEF Claimable
  <2>2. ~Claimable(t)'
    BY <1>2 DEF Claimable
  <2> QED BY <1>2, <1>4, <2>1, <2>2 DEF Writers
<1>10. Started'
  BY <1>2, <1>3, <1>4, <1>6 DEF Started, Finished
<1>11. Recorded'
  <2>1. \A w \in Workers : On(w, "gate")' => /\ On(w, "gate") /\ Held(w)' = Held(w)
                                            /\ Held(w) \in Tasks
    BY <1>3 DEF On, Held, References, Busy, BusyPC
  <2> QED BY <1>2, <1>5, <1>6, <2>1 DEF Recorded
<1>12. PromiseStep
  <2>1. \A u \in Tasks : u # t => TaskPhase'[u] = TaskPhase[u]
    BY <1>2, <1>6 DEF TaskPhase
  <2>2. task[t].status # "none" /\ task'[t].status # "none"
    BY <1>2 DEF Active
  <2>3. CASE Immediate(t) /\ ~ledger[t].acked
    <3>1. TaskPhase[t] \in {"pending", "approved"} /\ TaskPhase'[t] = "revoked"
      BY <1>5, <1>6, <2>2, <2>3 DEF TaskPhase
    <3> QED BY <2>1, <3>1, PhaseMoves
  <2>4. CASE ~Immediate(t) \/ ledger[t].acked
    <3>1. TaskPhase'[t] = TaskPhase[t]
      BY <1>6, <2>2, <2>4 DEF TaskPhase
    <3> QED BY <2>1, <3>1, PhaseMoves
  <2> QED BY <2>3, <2>4
<1> QED BY <1>1, <1>7, <1>8, <1>9, <1>10, <1>11, <1>12

\* A table operation goes from its preview to the queue in one transaction.
LEMMA ExecuteTableOpStep ==
  ASSUME PromiseInv, Typed', NEW t \in Tasks, ExecuteTableOp(t)
  PROVE  PromiseInv' /\ PromiseStep
<1> USE DEF PromiseInv
<1>1. TypeOK' /\ References'
  BY TypedIsTypeOK
<1>2. /\ task[t].kind = "tableop" /\ task[t].status = "awaiting_confirmation"
      /\ task'[t].kind = task[t].kind /\ task'[t].cancel = task[t].cancel
      /\ task'[t].status = "queued"
      /\ \A u \in Tasks : u # t => task'[u] = task[u]
  BY DEF ExecuteTableOp, Save, Marked, TypeOK, Row
<1>3. UNCHANGED <<worker, req>>
  BY DEF ExecuteTableOp
<1>4. /\ \A w \in Workers, u \in Tasks : Runs(w, u)' <=> Runs(w, u)
      /\ \A r \in Requests, u \in Tasks : Writes(r, u)' <=> Writes(r, u)
  BY <1>3 DEF Runs, Busy, Held, Writes
<1>5. /\ ledger[t].runs = 0 /\ \A w \in Workers : ~Runs(w, t)
      /\ \A r \in Requests : ~Writes(r, t)
  BY <1>2 DEF Started, Finished, HeldRows, Runs, Writers
<1>6. /\ ledger'[t].runs = ledger[t].runs /\ ledger'[t].confirmed
      /\ ledger'[t].acked = ledger[t].acked
      /\ \A u \in Tasks : u # t => ledger'[u] = ledger[u]
  BY DEF ExecuteTableOp, TypeOK, History
<1>7. HeldRows'
  BY <1>2, <1>3, <1>5 DEF HeldRows, Busy, Held, Runs, References
<1>8. OneRunner'
  BY <1>4 DEF OneRunner
<1>9. Writers'
  <2>1. \A u \in Tasks : u # t => (Claimable(u)' <=> Claimable(u))
    BY <1>2 DEF Claimable
  <2> QED BY <1>2, <1>4, <1>5, <2>1 DEF Writers
<1>10. Started'
  BY <1>2, <1>3, <1>4, <1>5, <1>6 DEF Started, Finished
<1>11. Recorded'
  <2>1. \A w \in Workers : On(w, "gate")' => /\ On(w, "gate") /\ Held(w)' = Held(w)
                                            /\ Held(w) \in Tasks
    BY <1>3 DEF On, Held, References, Busy, BusyPC
  <2> QED BY <1>2, <1>5, <1>6, <2>1 DEF Recorded
<1>12. PromiseStep
  <2>1. \A u \in Tasks : u # t => TaskPhase'[u] = TaskPhase[u]
    BY <1>2, <1>6 DEF TaskPhase
  <2>2. \/ TaskPhase'[t] = TaskPhase[t]
        \/ TaskPhase[t] = "pending" /\ TaskPhase'[t] = "approved"
    BY <1>2, <1>5, <1>6 DEF TaskPhase
  <2> QED BY <2>1, <2>2, PhaseMoves
<1> QED BY <1>1, <1>7, <1>8, <1>9, <1>10, <1>11, <1>12

\* The one-step handlers and the passing of time.
LEMMA UsersKeepPromise ==
  ASSUME PromiseInv, Typed', NEW t \in Tasks,
         CreateOn(t) \/ UserOn(t) \/ TimesOut(t) \/ RetentionElapses(t)
  PROVE  PromiseInv' /\ PromiseStep
<1>a. TypeOK
  BY DEF PromiseInv
<1>1. CASE CreateExport(t)
  <2>1. /\ task[t].status = "none" /\ UNCHANGED <<worker, req>>
        /\ task'[t].status = "queued"
        /\ \A u \in Tasks : u # t => task'[u] = task[u] /\ ledger'[u] = ledger[u]
    BY <1>1, <1>a DEF CreateExport, IsNext, Save, BlankRow, TypeOK
  <2>2. ledger'[t].confirmed /\ ledger'[t].acked = ledger[t].acked
        /\ ledger'[t].runs = ledger[t].runs
    BY <1>1, <1>a DEF CreateExport, TypeOK, History
  <2>3. /\ ~ledger[t].acked /\ ledger[t].runs = 0
        /\ \A r \in Requests : ~Writes(r, t)
    BY <2>1 DEF PromiseInv, Recorded, Started, Finished, Writers
  <2>4. \A r \in Requests, u \in Tasks : Writes(r, u)' <=> Writes(r, u)
    BY <2>1 DEF Writes
  <2> QED BY <2>1, <2>2, <2>3, <2>4, NewRow
<1>2. CASE PreviewTableOp(t)
  <2>1. /\ task[t].status = "none" /\ UNCHANGED <<worker, req, ledger>>
        /\ task'[t].status = "awaiting_confirmation"
        /\ \A u \in Tasks : u # t => task'[u] = task[u]
    BY <1>2, <1>a DEF PreviewTableOp, IsNext, Save, BlankRow, TypeOK
  <2>2. /\ ~ledger[t].acked /\ ledger[t].runs = 0
        /\ \A r \in Requests : ~Writes(r, t)
    BY <2>1 DEF PromiseInv, Recorded, Started, Finished, Writers
  <2>3. \A r \in Requests, u \in Tasks : Writes(r, u)' <=> Writes(r, u)
    BY <2>1 DEF Writes
  <2> QED BY <2>1, <2>2, <2>3, NewRow
<1>3. CASE Cancel(t)
  BY <1>3, CancelStep
<1>4. CASE ExecuteTableOp(t)
  BY <1>4, ExecuteTableOpStep
<1>5. CASE Delete(t) \/ TimesOut(t) \/ RetentionElapses(t)
  <2>1. /\ \A u \in Tasks : u # t => task'[u] = task[u]
        /\ task'[t].kind = task[t].kind /\ task'[t].cancel = task[t].cancel
        /\ \/ task'[t].status = task[t].status /\ task'[t].stage = task[t].stage
           \/ task'[t].status = "deleted"
    BY <1>5, <1>a DEF Delete, TimesOut, RetentionElapses, Save, TypeOK, Row
  <2>2. UNCHANGED <<worker, req, ledger>>
    BY <1>5 DEF Delete, TimesOut, RetentionElapses
  <2>3. /\ \A w \in Workers : (Busy(w)' <=> Busy(w)) /\ Held(w)' = Held(w)
        /\ \A r \in Requests, u \in Tasks : Writes(r, u)' <=> Writes(r, u)
    BY <2>2 DEF Busy, Held, Writes
  <2> QED BY <2>1, <2>2, <2>3, QuietStep
<1> QED BY <1>1, <1>2, <1>3, <1>4, <1>5 DEF CreateOn, UserOn

\* The workers.
LEMMA WorkersKeepPromise ==
  ASSUME PromiseInv, Typed', NEW t \in Tasks, NEW w \in Workers,
         ReadExpired(w) \/ Poll(w) \/ Execute(w) \/ Crash(w) \/ Restart(w)
         \/ SweepOn(w, t) \/ RemoveOldChunks(w, t)
  PROVE  PromiseInv' /\ PromiseStep
<1>a. Typed /\ TypeOK
  BY TypedIsTypeOK DEF PromiseInv
<1>b. BusyPC = {"inspect", "preview", "gate", "effect", "finish", "cancelled", "failed"}
  BY DEF BusyPC
<1>c. "other" \in Stage
        /\ {"expired", "failed", "succeeded", "cancelled", "awaiting_confirmation"} \subseteq Status
  BY DEF Stage, Status, Finished, Active
<1>d. \A r \in Requests, u \in Tasks : UNCHANGED req => (Writes(r, u)' <=> Writes(r, u))
  BY DEF Writes
<1>1. CASE ReadExpired(w) \/ Poll(w) \/ Crash(w) \/ Restart(w)
  <2>1. UNCHANGED <<task, req, ledger>>
    BY <1>1 DEF ReadExpired, Poll, StartPoll, ReadStale, NothingToClaim, Crash, Restart
  <2>2. /\ ~Busy(w)'
        /\ \A v \in Workers : v # w => worker'[v] = worker[v]
    <3>1. ExpiredRows \subseteq Tasks /\ LegacyTasks \subseteq Tasks /\ StaleRows \subseteq Tasks
      BY DEF ExpiredRows, LegacyTasks, StaleRows
    <3> QED BY <1>1, <1>a, <1>b, <3>1, Looked, LetGo
            DEF ReadExpired, Poll, StartPoll, ReadStale, NothingToClaim, Crash, Restart,
                Typed, Busy
  <2>3. \A v \in Workers : Busy(v)' => Busy(v) /\ worker'[v] = worker[v] /\ Held(v)' = Held(v)
    BY <2>2 DEF Busy, Held
  <2> QED BY <1>d, <2>1, <2>3, QuietStep
<1>2. CASE RemoveOldChunks(w, t)
  <2>1. UNCHANGED <<task, worker, req, ledger>>
    BY <1>2 DEF RemoveOldChunks
  <2>2. \A v \in Workers : (Busy(v)' <=> Busy(v)) /\ Held(v)' = Held(v)
    BY <2>1 DEF Busy, Held
  <2> QED BY <1>d, <2>1, <2>2, QuietStep
<1>3. CASE ExpireOne(w, t) \/ FailLegacy(w, t) \/ FailStale(w, t)
  <2>1. PICK row \in Row : /\ Sweep(w, t, row)
                           /\ row.status \in {"expired", "failed"}
                           /\ row.kind = task[t].kind /\ row.cancel = task[t].cancel
    <3>1. [Marked(t, "expired", "other") EXCEPT !.input = FALSE] \in Row
      BY <1>a, <1>c, MarkedRow, Flagged DEF Typed
    <3>2. CASE ExpireOne(w, t)
      <4> DEFINE row == [Marked(t, "expired", "other") EXCEPT !.input = FALSE]
      <4>1. row.status = "expired" /\ row.kind = task[t].kind /\ row.cancel = task[t].cancel
        BY <1>a, <1>c, MarkedRow DEF Typed, Row
      <4> QED BY <3>1, <3>2, <4>1 DEF ExpireOne
    <3>3. CASE FailLegacy(w, t) \/ FailStale(w, t)
      BY <1>a, <1>c, <3>3, MarkedRow DEF FailLegacy, FailStale, Typed
    <3> QED BY <1>3, <3>2, <3>3
  <2>2. ~Busy(w) /\ UNCHANGED <<req, ledger>>
    BY <1>3, <1>b DEF ExpireOne, FailLegacy, FailStale, On, Busy
  <2>3. /\ ~Busy(w)'
        /\ task'[t] = IF Exists(t) THEN row ELSE task[t]
        /\ \A u \in Tasks : u # t => task'[u] = task[u]
        /\ \A v \in Workers : v # w => worker'[v] = worker[v]
    BY <1>a, <2>1, <2>2, Swept DEF Typed
  <2>4. \A v \in Workers : Busy(v)' => Busy(v) /\ worker'[v] = worker[v] /\ Held(v)' = Held(v)
    BY <2>3 DEF Busy, Held
  <2> QED BY <1>d, <2>1, <2>2, <2>3, <2>4, QuietStep
<1>4. CASE Claim(w, t)
  BY <1>4, ClaimStep
<1>5. CASE Execute(w)
  <2> DEFINE own == Held(w)
  <2>1. Busy(w) /\ own \in Tasks /\ UNCHANGED req
    BY <1>5, <1>a, <1>b
       DEF Execute, Inspect, SavePreview, PassGate, LastProgress, Interrupted, Fault,
           Finish, SaveFailure, On, Busy, Typed, WorkersTyped
  <2>2. CASE PassGate(w)
    BY <2>2, GateStep
  <2>3. CASE Interrupted(w) \/ Fault(w)
    <3>1. UNCHANGED <<task, ledger>>
      BY <2>3 DEF Interrupted, Fault
    <3>2. /\ worker'[w].pc \in {"cancelled", "failed"} /\ worker'[w].task = own
          /\ \A v \in Workers : v # w => worker'[v] = worker[v]
      BY <1>a, <1>b, <2>1, <2>3, Stepped DEF Interrupted, Fault, Typed, Held
    <3>3. \A v \in Workers : Busy(v)' => /\ Busy(v) /\ Held(v)' = Held(v)
                                         /\ worker'[v].pc \in {worker[v].pc, "cancelled", "failed"}
      BY <2>1, <3>2 DEF Busy, Held
    <3> QED BY <1>d, <2>1, <3>1, <3>3, QuietStep
  <2>4. CASE Inspect(w) \/ LastProgress(w)
    <3>1. UNCHANGED <<task, ledger>>
      BY <2>4 DEF Inspect, LastProgress
    <3>2. /\ worker'[w].pc \in {"preview", "finish"} /\ worker'[w].task = own
          /\ worker'[w].pc = "preview" => On(w, "inspect")
          /\ \A v \in Workers : v # w => worker'[v] = worker[v]
      BY <1>a, <1>b, <2>1, <2>4, Stepped DEF Inspect, LastProgress, Typed, Held
    <3> QED BY <2>1, <3>1, <3>2, WorkerStep DEF Held
  <2>5. CASE SavePreview(w) \/ Finish(w) \/ SaveFailure(w)
    <3>1. UNCHANGED ledger
      BY <2>5 DEF SavePreview, Finish, SaveFailure
    <3>2. \A v \in Workers : v # w => worker'[v] = worker[v]
      BY <1>a, <1>b, <2>1, <2>5, Stepped, LetGo DEF SavePreview, Finish, SaveFailure, Typed
    <3>3. CASE UNCHANGED task
      <4>1. Busy(w)' => worker'[w].pc = "failed" /\ worker'[w].task = own
        BY <1>a, <1>b, <2>1, <2>5, Stepped, LetGo
           DEF SavePreview, Finish, SaveFailure, Typed, Busy, Held
      <4> QED BY <2>1, <3>1, <3>2, <3>3, <4>1, WorkerStep DEF Held
    <3>4. CASE task' # task
      <4>1. ~Busy(w)'
        BY <1>a, <1>b, <2>5, <3>4, LetGo DEF SavePreview, Finish, SaveFailure, Typed, Busy
      <4>2. PICK row \in Row : /\ Save(own, row) /\ row.kind = task[own].kind
                               /\ row.cancel = task[own].cancel
                               /\ \/ row.status \in {"succeeded", "failed", "cancelled"}
                                  \/ row.status = "awaiting_confirmation" /\ On(w, "preview")
        <5>1. CASE SavePreview(w)
          <6> DEFINE row == [Marked(own, "awaiting_confirmation", "other") EXCEPT !.preview = TRUE]
          <6>1. row \in Row
            BY <1>a, <1>c, <2>1, MarkedRow, Flagged DEF Typed
          <6>2. /\ row.status = "awaiting_confirmation" /\ row.kind = task[own].kind
                /\ row.cancel = task[own].cancel
            BY <1>a, <1>c, <2>1, MarkedRow DEF Typed, Row
          <6> QED BY <3>4, <5>1, <6>1, <6>2 DEF SavePreview
        <5>2. CASE Finish(w)
          BY <1>a, <1>c, <2>1, <3>4, <5>2, MarkedRow DEF Finish, Typed
        <5>3. CASE SaveFailure(w)
          BY <1>a, <1>c, <2>1, <3>4, <5>3, MarkedRow DEF SaveFailure, Typed
        <5> QED BY <2>5, <5>1, <5>2, <5>3
      <4>3. task'[own] = row /\ \A u \in Tasks : u # own => task'[u] = task[u]
        BY <1>a, <2>1, <4>2, Saved DEF Typed
      <4> QED BY <2>1, <3>1, <3>2, <4>1, <4>2, <4>3, WorkerStep
    <3> QED BY <3>3, <3>4
  <2> QED BY <1>5, <2>2, <2>3, <2>4, <2>5 DEF Execute
<1> QED BY <1>1, <1>2, <1>3, <1>4, <1>5 DEF SweepOn

\* The requests, when those on one task are serial.
LEMMA RequestsKeepPromise ==
  ASSUME PromiseInv, Typed', SerialRequests, NEW t \in Tasks, NEW r \in Requests,
         RequestOn(r, t) \/ RequestStep(r)
  PROVE  PromiseInv' /\ PromiseStep
<1>a. Typed /\ TypeOK
  BY TypedIsTypeOK DEF PromiseInv
<1>b. WritingPC = {"direct", "merge", "merged", "stage", "inline", "fail", "confirm"}
      /\ RequestPC = {"direct", "merge", "merged", "stage", "inline", "fail", "confirm",
                      "ready", "init", "chunk", "copy", "path", "drop"}
  BY DEF RequestPC, WritingPC
<1>c. /\ {"validating", "inspection_queued", "other"} \subseteq Stage
      /\ {"inspecting", "failed", "awaiting_confirmation", "queued"} \subseteq Status
  BY DEF Stage, Status, Finished, Active
<1>d. \A w \in Workers : UNCHANGED worker => (Busy(w)' <=> Busy(w)) /\ Held(w)' = Held(w)
  BY DEF Busy, Held
<1>e. \A u \in Tasks : task[u].status = "none" =>
          /\ ~ledger[u].acked /\ ledger[u].runs = 0
          /\ \A q \in Requests : ~Writes(q, u)
  BY DEF PromiseInv, Recorded, Started, Finished, Writers
<1>f. \A q \in Requests, u \in Tasks : req'[q] = req[q] => (Writes(q, u)' <=> Writes(q, u))
  BY DEF Writes
<1>1. CASE UploadInit(r, t)
  <2>1. PICK k \in Kinds \cap {"dump", "redis", "small"} :
          Save(t, [BlankRow EXCEPT !.status = "uploading", !.kind = k])
    BY <1>1 DEF UploadInit
  <2>2. /\ task[t].status = "none" /\ UNCHANGED <<worker, ledger>>
        /\ task'[t].status = "uploading" /\ task'[t].kind # "tableop"
        /\ \A u \in Tasks : u # t => task'[u] = task[u]
    BY <1>1, <1>a, <2>1 DEF UploadInit, IsNext, Save, BlankRow, TypeOK
  <2>3. /\ req'[r].pc = "init" /\ req'[r].task = t
        /\ \A q \in Requests : q # r => req'[q] = req[q]
    BY <1>1, <1>a, <1>b, Began DEF UploadInit, Typed
  <2>4. \A q \in Requests, u \in Tasks : Writes(q, u)' => Writes(q, u)
    BY <1>b, <1>f, <2>3 DEF Writes
  <2> QED BY <1>e, <2>2, <2>4, NewRow
<1>2. CASE DirectUpload(r, t)
  <2>1. /\ task[t].status = "none" /\ UNCHANGED <<worker, ledger>>
        /\ task'[t].status = "uploading" /\ task'[t].kind # "tableop"
        /\ \A u \in Tasks : u # t => task'[u] = task[u]
    BY <1>2, <1>a DEF DirectUpload, IsNext, Save, BlankRow, TypeOK
  <2>2. /\ req'[r].pc = "direct" /\ req'[r].task = t
        /\ \A q \in Requests : q # r => req'[q] = req[q]
    BY <1>2, <1>a, <1>b, Began DEF DirectUpload, Typed
  <2>3. /\ \A q \in Requests, u \in Tasks : u # t /\ Writes(q, u)' => Writes(q, u)
        /\ \A q \in Requests : Writes(q, t)' => q = r
    BY <1>e, <1>f, <2>1, <2>2 DEF Writes
  <2> QED BY <1>e, <2>1, <2>3, NewRow
<1>3. CASE UploadChunk(r, t)
  <2>1. UNCHANGED <<task, worker, ledger>>
    BY <1>3 DEF UploadChunk
  <2>2. /\ req'[r].pc = "chunk"
        /\ \A q \in Requests : q # r => req'[q] = req[q]
    BY <1>3, <1>a, <1>b, Began DEF UploadChunk, Typed
  <2>3. \A q \in Requests, u \in Tasks : Writes(q, u)' => Writes(q, u)
    BY <1>b, <1>f, <2>2 DEF Writes
  <2> QED BY <1>d, <2>1, <2>3, QuietStep
<1>4. CASE CompleteUpload(r, t) \/ Confirm(r, t)
  <2>1. UNCHANGED <<task, worker, ledger>> /\ Free(t)
    BY <1>4 DEF CompleteUpload, Confirm
  <2>2. /\ task[t].status \in {"uploading", "awaiting_confirmation"}
        /\ task[t].kind # "tableop"
    BY <1>4 DEF CompleteUpload, Confirm, PromiseInv, Writers
  <2>3. /\ req'[r].task = t
        /\ \A q \in Requests : q # r => req'[q] = req[q]
    BY <1>4, <1>a, <1>b, Began DEF CompleteUpload, Confirm, Typed
  <2> QED BY <2>1, <2>2, <2>3, BeginStep
<1>5. ASSUME NEW u \in Tasks, Retry(r, t, u) PROVE PromiseInv' /\ PromiseStep
  <2>1. /\ task[u].status = "none" /\ UNCHANGED worker
        /\ \A v \in Tasks : v # u => task'[v] = task[v]
    BY <1>5, <1>a DEF Retry, IsNext, Save, TypeOK
  <2>2. PICK inspect \in BOOLEAN :
          /\ Save(u, [BlankRow EXCEPT
                        !.status = IF inspect THEN "inspecting" ELSE "queued",
                        !.stage = IF inspect THEN "inspection_queued" ELSE "other",
                        !.kind = task[t].kind, !.preview = task[t].preview])
          /\ ledger' = [ledger EXCEPT ![u].confirmed = ~inspect]
    BY <1>5, Zenon DEF Retry
  <2>3. task'[u].status = IF inspect THEN "inspecting" ELSE "queued"
    BY <1>a, <2>2 DEF Save, BlankRow, TypeOK
  <2>4. /\ \A v \in Tasks : v # u => ledger'[v] = ledger[v]
        /\ ledger'[u].confirmed = ~inspect
        /\ ledger'[u].acked = ledger[u].acked /\ ledger'[u].runs = ledger[u].runs
    BY <1>a, <2>2 DEF TypeOK, History
  <2>5. \A q \in Requests : \/ req'[q] = req[q]
                            \/ q = r /\ req'[q].pc \in {"copy", "drop"}
    <3>1. \/ req' = [req EXCEPT ![r] = [pc |-> "copy", task |-> u, source |-> t]]
          \/ req' = [req EXCEPT ![r] = [pc |-> "drop", task |-> u, source |-> t]]
          \/ UNCHANGED req
      <4>1. CASE IsImport(task[t].kind)
        BY <1>5, <4>1, Zenon DEF Retry
      <4>2. CASE ~IsImport(task[t].kind)
        BY <1>5, <4>2, Zenon DEF Retry
      <4> QED BY <4>1, <4>2
    <3> QED BY <1>a, <3>1 DEF TypeOK
  <2>6. \A q \in Requests, v \in Tasks : Writes(q, v)' => Writes(q, v)
    BY <1>b, <1>f, <2>5 DEF Writes
  <2> QED BY <1>e, <2>1, <2>3, <2>4, <2>6, NewRow
<1>6. CASE RequestStep(r)
  <2>0. UNCHANGED worker /\ req[r].task \in Tasks
    BY <1>6, <1>a
       DEF RequestStep, SaveInputPath, FinishDirectUpload, StoreChunk, MergeChunks,
           SaveValidating, SaveInspectionQueued, InspectInline, FailUpload, QueueConfirmed,
           CopyInput, SaveCopiedPath, DropRetry, RequestDies, At, Typed, RequestsTyped
  <2>a. PICK own \in Tasks : UNCHANGED worker /\ own = req[r].task
    BY <2>0
  <2>b. \A q \in Requests : q # r => req'[q] = req[q]
    BY <1>6, <1>a
       DEF RequestStep, SaveInputPath, FinishDirectUpload, StoreChunk, MergeChunks,
           SaveValidating, SaveInspectionQueued, InspectInline, FailUpload, QueueConfirmed,
           CopyInput, SaveCopiedPath, DropRetry, RequestDies, Goto, Respond, TypeOK
  <2>1. CASE SaveInputPath(r) \/ SaveCopiedPath(r) \/ FailUpload(r) \/ DropRetry(r)
    <3>1. UNCHANGED ledger
      BY <2>1 DEF SaveInputPath, SaveCopiedPath, FailUpload, DropRetry
    <3>2. \A q \in Requests, u \in Tasks : Writes(q, u)' => Writes(q, u)
      <4>1. req'[r].pc = "ready"
        BY <1>a, <2>1, Responded DEF SaveInputPath, SaveCopiedPath, FailUpload, DropRetry, Typed
      <4> QED BY <1>b, <1>f, <2>b, <4>1 DEF Writes
    <3>3. /\ \A u \in Tasks : u # own => task'[u] = task[u]
          /\ task'[own].kind = task[own].kind /\ task'[own].cancel = task[own].cancel
          /\ \/ task'[own].status = task[own].status /\ task'[own].stage = task[own].stage
             \/ task'[own].status \in {"failed", "deleted"}
      <4>1. CASE SaveInputPath(r) \/ SaveCopiedPath(r) \/ DropRetry(r)
        BY <1>a, <2>a, <4>1
           DEF SaveInputPath, SaveCopiedPath, DropRetry, TrySave, Save, TypeOK, Row
      <4>2. CASE FailUpload(r)
        BY <1>a, <1>c, <2>a, <4>2, MarkedRow, TriedToSave DEF FailUpload, Typed
      <4> QED BY <2>1, <4>1, <4>2
    <3> QED BY <1>d, <2>a, <3>1, <3>2, <3>3, QuietStep
  <2>2. CASE StoreChunk(r) \/ CopyInput(r) \/ RequestDies(r)
    <3>1. UNCHANGED <<task, ledger>>
      BY <2>2 DEF StoreChunk, CopyInput, RequestDies
    <3>2. req'[r].pc \in {"ready", "path"}
      BY <1>a, <1>b, <2>2, Responded, WentTo DEF StoreChunk, CopyInput, RequestDies, Typed, At
    <3>3. \A q \in Requests, u \in Tasks : Writes(q, u)' => Writes(q, u)
      BY <1>b, <1>f, <2>b, <3>2 DEF Writes
    <3> QED BY <1>d, <2>a, <3>1, <3>3, QuietStep
  <2>3. CASE \/ FinishDirectUpload(r) \/ MergeChunks(r) \/ SaveValidating(r)
             \/ SaveInspectionQueued(r) \/ InspectInline(r) \/ QueueConfirmed(r)
    <3>1. /\ Writes(r, own) /\ ~Claimable(own) /\ task[own].status \notin {"none", "running", "succeeded"}
      BY <1>b, <2>3, <2>a
         DEF FinishDirectUpload, MergeChunks, SaveValidating, SaveInspectionQueued,
             InspectInline, QueueConfirmed, At, Writes, PromiseInv, Writers
    <3>2. /\ \A u \in Tasks : u # own => ledger'[u] = ledger[u]
          /\ ledger'[own].acked = ledger[own].acked /\ ledger'[own].runs = ledger[own].runs
          /\ ledger[own].confirmed => ledger'[own].confirmed
      BY <1>a, <2>3, <2>a
         DEF FinishDirectUpload, MergeChunks, SaveValidating, SaveInspectionQueued,
             InspectInline, QueueConfirmed, TypeOK, History
    <3>3. \A u \in Tasks : Writes(r, u)' => u = own /\ req'[r].pc # "ready"
      <4>1. \/ req'[r].pc = "ready"
            \/ req'[r].task = own
        BY <1>a, <1>b, <2>3, <2>a, Responded, WentTo
           DEF FinishDirectUpload, MergeChunks, SaveValidating, SaveInspectionQueued,
               InspectInline, QueueConfirmed, At, Typed
      <4> QED BY <1>b, <4>1 DEF Writes
    <3>4. CASE UNCHANGED task
      <4>1. ~Claimable(own)' /\ task'[own].status # "queued"
        BY <3>1, <3>4 DEF Claimable
      <4> QED BY <2>a, <2>b, <3>1, <3>2, <3>3, <3>4, <4>1, WriterStep
    <3>5. ASSUME NEW row \in Row, Save(own, row),
                 row.kind = task[own].kind, row.cancel = task[own].cancel,
                 row.status # "none", row.status = "queued" => ledger'[own].confirmed,
                 \/ req'[r].pc = "ready"
                 \/ row.status = "inspecting" /\ row.stage = "validating"
          PROVE  PromiseInv' /\ PromiseStep
      <4>1. task'[own] = row /\ \A u \in Tasks : u # own => task'[u] = task[u]
        BY <1>a, <2>a, <3>5, Saved DEF Typed
      <4>2. row.status = "inspecting" /\ row.stage = "validating" => ~Claimable(own)'
        BY <4>1 DEF Claimable
      <4> QED BY <2>a, <2>b, <3>1, <3>2, <3>3, <3>5, <4>1, <4>2, WriterStep
    <3>6. CASE FinishDirectUpload(r) /\ task' # task
      <4>1. req'[r].pc = "ready"
        BY <1>a, <3>6, Responded DEF FinishDirectUpload, Typed
      <4>2. PICK row \in {Marked(own, "inspecting", "inspection_queued"),
                          Marked(own, "failed", "other")} : Save(own, row)
        BY <2>a, <3>6 DEF FinishDirectUpload, TrySave
      <4>3. /\ row \in Row /\ row.kind = task[own].kind /\ row.cancel = task[own].cancel
            /\ row.status \in {"inspecting", "failed"}
        BY <1>a, <1>c, <2>a, MarkedRow DEF Typed
      <4> QED BY <3>5, <4>1, <4>2, <4>3
    <3>7. CASE SaveValidating(r) /\ task' # task
      <4>1. Save(own, Marked(own, "inspecting", "validating"))
        BY <2>a, <3>7 DEF SaveValidating
      <4> QED BY <1>a, <1>c, <2>a, <3>5, <4>1, MarkedRow DEF Typed
    <3>8. CASE SaveInspectionQueued(r) /\ task' # task
      <4>1. req'[r].pc = "ready"
        BY <1>a, <3>8, Responded DEF SaveInspectionQueued, Typed
      <4> DEFINE row == [task[own] EXCEPT !.stage = "inspection_queued"]
      <4>2. Save(own, row)
        BY <2>a, <3>8 DEF SaveInspectionQueued, TrySave
      <4>3. /\ row \in Row /\ row.kind = task[own].kind /\ row.cancel = task[own].cancel
            /\ row.status = task[own].status
        BY <1>a, <1>c, <2>a DEF TypeOK, Row
      <4>4. row.status \notin {"none", "queued"}
        BY <3>1, <4>3 DEF Claimable
      <4> QED BY <3>5, <4>1, <4>2, <4>3, <4>4
    <3>9. CASE InspectInline(r) /\ task' # task
      <4>1. req'[r].pc = "ready"
        BY <1>a, <3>9, Responded DEF InspectInline, Typed
      <4> DEFINE row == [Marked(own, "awaiting_confirmation", "other") EXCEPT !.preview = TRUE]
      <4>2. Save(own, row)
        BY <2>a, <3>9 DEF InspectInline
      <4>3. Marked(own, "awaiting_confirmation", "other") \in Row
        BY <1>a, <1>c, <2>a, MarkedRow DEF Typed
      <4>4. row \in Row
        BY <4>3, Flagged
      <4>5. /\ row.kind = task[own].kind /\ row.cancel = task[own].cancel
            /\ row.status = "awaiting_confirmation"
        BY <1>a, <1>c, <2>a, <4>3, MarkedRow DEF Typed, Row
      <4> QED BY <3>5, <4>1, <4>2, <4>4, <4>5
    <3>10. CASE QueueConfirmed(r) /\ task' # task
      <4>1. req'[r].pc = "ready"
        BY <1>a, <3>10, Responded DEF QueueConfirmed, Typed
      <4>2. Save(own, Marked(own, "queued", "other")) /\ ledger'[own].confirmed
        BY <1>a, <2>a, <3>10 DEF QueueConfirmed, TypeOK, History
      <4> QED BY <1>a, <1>c, <2>a, <3>5, <4>1, <4>2, MarkedRow DEF Typed
    <3>11. CASE MergeChunks(r)
      BY <3>4, <3>11 DEF MergeChunks
    <3> QED BY <2>3, <3>4, <3>6, <3>7, <3>8, <3>9, <3>10, <3>11
  <2> QED BY <1>6, <2>1, <2>2, <2>3 DEF RequestStep
<1> QED BY <1>1, <1>2, <1>3, <1>4, <1>5, <1>6 DEF RequestOn

\* The invariant holds at first ...
LEMMA PromiseInit == Init => PromiseInv /\ UserPromise!PromiseInit
<1> SUFFICES ASSUME Init PROVE PromiseInv /\ UserPromise!PromiseInit
  OBVIOUS
<1>0. PICK old \in 0..LegacyRows : LegacyInit(old)
  BY DEF Init
<1>1. TypeOK /\ References
  BY TypedInit, TypedIsTypeOK
<1>2. /\ \A w \in Workers : worker[w].pc = "idle"
      /\ \A r \in Requests : req[r].pc = "ready"
  BY DEF Init, Idle, Ready
<1>3. \A t \in Tasks : \/ /\ task[t].status = "none"
                           /\ ~ledger[t].confirmed /\ ~ledger[t].acked
                           /\ ledger[t].runs = 0
                        \/ /\ task[t].status \in {"awaiting_confirmation", "queued"}
                           /\ ledger[t].confirmed /\ ~ledger[t].acked
                           /\ ledger[t].runs = 0
  <2>1. PICK left \in [1..old -> {"awaiting_confirmation", "queued"}] :
          task = [t \in Tasks |->
                    IF t \in 1..old
                      THEN [BlankRow EXCEPT !.status = left[t],
                                            !.kind = "legacy", !.input = TRUE]
                      ELSE BlankRow]
    BY <1>0 DEF LegacyInit
  <2>2. ledger = [t \in Tasks |-> IF t \in 1..old
                                    THEN [Unwritten EXCEPT !.confirmed = TRUE]
                                    ELSE Unwritten]
    BY <1>0 DEF LegacyInit
  <2>3. \A t \in 1..old : left[t] \in {"awaiting_confirmation", "queued"}
    OBVIOUS
  <2>4. TAKE t \in Tasks
  <2>5. CASE t \in 1..old
    BY <2>1, <2>2, <2>3, <2>5 DEF BlankRow, Unwritten
  <2>6. CASE t \notin 1..old
    BY <2>1, <2>2, <2>6 DEF BlankRow, Unwritten
  <2> QED BY <2>5, <2>6
<1>4. HeldRows /\ OneRunner /\ Writers
  BY <1>2, <1>3 DEF HeldRows, OneRunner, Writers, Busy, BusyPC, Runs, Writes, WritingPC
<1>5. Started /\ Recorded
  BY <1>2, <1>3 DEF Started, Recorded, On
<1>6. UserPromise!PromiseInit
  BY <1>3 DEF UserPromise!PromiseInit, TaskPhase
<1> QED BY <1>1, <1>4, <1>5, <1>6 DEF PromiseInv

\* ... and every step keeps it, and is a step of the abstract specification.
LEMMA PromiseNextStep ==
  SerialRequests /\ PromiseInv /\ [Next]_vars => PromiseInv' /\ PromiseStep
<1> SUFFICES ASSUME SerialRequests, PromiseInv, [Next]_vars PROVE PromiseInv' /\ PromiseStep
  OBVIOUS
<1>1. Typed'
  BY TypedStep, TypedIsTypeOK DEF PromiseInv
<1>2. 1 \in Tasks
  BY TransferAssumption DEF Tasks
<1>3. CASE UNCHANGED vars \/ ClearConnections
  <2>1. UNCHANGED <<task, worker, req, ledger>>
    BY <1>3 DEF vars, ClearConnections
  <2>2. /\ \A w \in Workers : (Busy(w)' <=> Busy(w)) /\ Held(w)' = Held(w)
        /\ \A r \in Requests, u \in Tasks : Writes(r, u)' <=> Writes(r, u)
    BY <2>1 DEF Busy, Held, Writes
  <2> QED BY <1>1, <1>2, <2>1, <2>2, QuietStep
<1>4. CASE Next /\ ~ClearConnections
  BY <1>1, <1>2, <1>4, UsersKeepPromise, RequestsKeepPromise, WorkersKeepPromise DEF Next
<1> QED BY <1>3, <1>4

\* Claims are exclusive: however many workers, crashes, sweeps and cancellations,
\* no two workers hold the same row, when the requests on a task are serial.
THEOREM ClaimsAreExclusive == SerialRequests => (Spec => []OneRunner)
<1> SUFFICES ASSUME SerialRequests PROVE Spec => []OneRunner
  OBVIOUS
<1>1. Init => PromiseInv
  BY PromiseInit
<1>2. PromiseInv /\ [Next]_vars => PromiseInv'
  BY PromiseNextStep
<1>3. PromiseInv => OneRunner
  BY DEF PromiseInv
<1> QED BY <1>1, <1>2, <1>3, PTL DEF Spec

\* The implementation keeps the promise of TransferPromise: a row runs at most
\* once, only when confirmed, never after an acknowledged cancellation.
THEOREM PromiseKept == SerialRequests => (Spec => KeepsPromise)
<1> SUFFICES ASSUME SerialRequests PROVE Spec => KeepsPromise
  OBVIOUS
<1>1. Init => PromiseInv /\ UserPromise!PromiseInit
  BY PromiseInit
<1>2. PromiseInv /\ [Next]_vars => PromiseInv' /\ [UserPromise!PromiseNext]_TaskPhase
  BY PromiseNextStep DEF PromiseStep
<1> QED BY <1>1, <1>2, PTL DEF Spec, KeepsPromise, UserPromise!Promise

----------------------------------------------------------------------------
(* One worker. *)

\* The deployment runs one worker process.
OneWorkerProcess == \A v, w \in Workers : v = w

Past(w) == worker[w].pc \in {"effect", "finish"}
Shown   == {"running", "cancel_requested", "deleted"}

\* A row that exists stays one of its kind.
KeepsRows == \A u \in Tasks : task[u].status # "none" =>
                 task'[u].status # "none" /\ task'[u].kind = task[u].kind

\* A request stays where it is, is answered, or goes on with its row.
GoesOn(q) == \/ req'[q] = req[q]
             \/ req'[q].pc = "ready" /\ req'[q].task = NoTask
             \/ /\ ~At(q, "ready") /\ req'[q].pc \notin {"ready", "drop"}
                /\ req'[q].task = req[q].task

\* What a step must leave as it is for the requests to keep their rows ...
LEMMA RequestsFrame ==
  ASSUME OwnRows, Typed, KeepsRows, \A q \in Requests : GoesOn(q),
         \A r \in Requests : At(r, "drop") /\ req'[r] = req[r] =>
             task'[req[r].task].input = task[req[r].task].input
  PROVE  OwnRows'
<1> SUFFICES ASSUME NEW r \in Requests
             PROVE  IF At(r, "ready")' THEN req'[r].task = NoTask
                    ELSE /\ task'[req'[r].task].status # "none"
                         /\ \A q \in Requests : req'[q].task = req'[r].task => q = r
                         /\ At(r, "drop")' => /\ IsImport(task'[req'[r].task].kind)
                                              /\ ~task'[req'[r].task].input
  BY DEF OwnRows
<1>1. CASE At(r, "ready")'
  BY <1>1 DEF OwnRows, GoesOn, At
<1>2. CASE ~At(r, "ready")'
  <2>1. /\ ~At(r, "ready") /\ req'[r].task = req[r].task
        /\ At(r, "drop")' => At(r, "drop") /\ req'[r] = req[r]
    BY <1>2 DEF GoesOn, At
  <2>2. req[r].task \in Tasks
    BY <2>1 DEF Typed, RequestsTyped
  <2>3. \A q \in Requests : req'[q].task = req[r].task => q = r
    BY <2>1, <2>2, NoTaskIsNoRow DEF OwnRows, GoesOn
  <2> QED BY <1>2, <2>1, <2>2, <2>3 DEF OwnRows, KeepsRows
<1> QED BY <1>1, <1>2

\* A request begins with a row that no other has.
LEMMA OneBegins ==
  ASSUME OwnRows, Typed, KeepsRows, NEW r \in Requests, NEW t \in Tasks,
         At(r, "ready"), req'[r].pc # "ready", req'[r].task = t, task'[t].status # "none",
         \A q \in Requests : q # r => req'[q] = req[q] /\ req[q].task # t,
         \A u \in Tasks : u # t => task'[u] = task[u],
         req'[r].pc = "drop" => IsImport(task'[t].kind) /\ ~task'[t].input
  PROVE  OwnRows'
<1> SUFFICES ASSUME NEW p \in Requests
             PROVE  IF At(p, "ready")' THEN req'[p].task = NoTask
                    ELSE /\ task'[req'[p].task].status # "none"
                         /\ \A q \in Requests : req'[q].task = req'[p].task => q = p
                         /\ At(p, "drop")' => /\ IsImport(task'[req'[p].task].kind)
                                              /\ ~task'[req'[p].task].input
  BY DEF OwnRows
<1>1. CASE p = r
  BY <1>1 DEF At
<1>2. CASE p # r /\ At(p, "ready")
  BY <1>2 DEF OwnRows, At
<1>3. CASE p # r /\ ~At(p, "ready")
  <2>1. req[p].task \in Tasks /\ req[p].task # t /\ req'[p] = req[p]
    BY <1>3 DEF Typed, RequestsTyped
  <2> QED BY <1>3, <2>1 DEF OwnRows, At
<1> QED BY <1>1, <1>2, <1>3

\* ... for the worker to keep its row ...
LEMMA WorkersFrame ==
  ASSUME HeldAlone, Typed, KeepsRows,
         \A w \in Workers : Busy(w)' =>
             /\ Busy(w) /\ Held(w)' = Held(w)
             /\ task'[Held(w)].status \in Shown
             /\ Past(w)' => /\ Past(w)
                            /\ task'[Held(w)].status # "deleted"
                            /\ task[Held(w)].input => task'[Held(w)].input
                            /\ file[Held(w)].output => file'[Held(w)].output
                            /\ connections => connections'
  PROVE  HeldAlone'
<1> SUFFICES ASSUME NEW w \in Workers, Busy(w)'
             PROVE  /\ task'[Held(w)'].status \in Shown
                    /\ Past(w)' =>
                         /\ task'[Held(w)'].status # "deleted"
                         /\ IsImport(task'[Held(w)'].kind) => task'[Held(w)'].input
                         /\ NeedsAsset(task'[Held(w)'].kind) => connections'
                         /\ task'[Held(w)'].kind = "export" => file'[Held(w)'].output
  BY DEF HeldAlone, Past, Shown
<1>1. Held(w) \in Tasks /\ Held(w)' = Held(w) /\ Busy(w)
  BY DEF Typed, WorkersTyped
<1>2. task[Held(w)].status # "none" /\ task'[Held(w)].kind = task[Held(w)].kind
  BY <1>1 DEF HeldAlone, KeepsRows
<1> QED BY <1>1, <1>2 DEF HeldAlone, Past, Shown

\* ... and for downloads to stay.
LEMMA DownloadsFrame ==
  ASSUME DownloadReady, KeepsRows,
         \A u \in Tasks : task'[u].status = "succeeded" =>
             task[u].status = "succeeded" /\ (file[u].output => file'[u].output)
  PROVE  DownloadReady'
BY DEF DownloadReady, KeepsRows

\* A row is written, and the worker stands still.
LEMMA RowStep ==
  ASSUME SoloInv, Typed, NEW t \in Tasks, UNCHANGED <<worker, connections>>,
         \A q \in Requests : GoesOn(q),
         \A u \in Tasks : u # t => task'[u] = task[u] /\ (file[u].output => file'[u].output),
         task[t].status # "none" => task'[t].status # "none" /\ task'[t].kind = task[t].kind,
         task'[t].input # task[t].input =>
             \A q \in Requests : At(q, "drop") /\ req'[q] = req[q] => req[q].task # t,
         \A w \in Workers : Runs(w, t) =>
             /\ task'[t].status \in Shown
             /\ Past(w) => /\ task'[t].status # "deleted"
                           /\ task[t].input => task'[t].input
                           /\ file[t].output => file'[t].output,
         task'[t].status = "succeeded" =>
             task[t].status = "succeeded" /\ (file[t].output => file'[t].output)
  PROVE  SoloInv'
<1>1. KeepsRows
  BY DEF KeepsRows
<1>2. OwnRows'
  <2>1. \A r \in Requests : At(r, "drop") => req[r].task \in Tasks
    BY DEF Typed, RequestsTyped, At
  <2> QED BY <1>1, <2>1, RequestsFrame DEF SoloInv
<1>3. HeldAlone'
  <2>1. \A w \in Workers : Busy(w)' =>
           /\ Busy(w) /\ Held(w)' = Held(w) /\ Held(w) \in Tasks /\ (Past(w)' => Past(w))
    BY DEF Busy, Held, Past, Typed, WorkersTyped
  <2>2. \A w \in Workers : Busy(w) =>
           /\ task[Held(w)].status \in Shown
           /\ Past(w) => task[Held(w)].status # "deleted"
    BY DEF SoloInv, HeldAlone, Shown, Past
  <2> QED BY <1>1, <2>1, <2>2, WorkersFrame DEF SoloInv, Runs
<1>4. DownloadReady'
  BY <1>1, DownloadsFrame DEF SoloInv
<1> QED BY <1>2, <1>3, <1>4 DEF SoloInv

\* A new row is nobody's.
LEMMA NobodyHasNew ==
  ASSUME SoloInv, NEW t \in Tasks, task[t].status = "none"
  PROVE  /\ \A w \in Workers : ~Runs(w, t)
         /\ \A q \in Requests : req[q].task # t
BY NoTaskIsNoRow DEF SoloInv, OwnRows, HeldAlone, Runs, Busy

\* A row marked with a status and a stage keeps the rest, and once saved it is there.
LEMMA SavedMarked ==
  ASSUME Typed, NEW t \in Tasks, NEW s \in Status, NEW g \in Stage, NEW m, m = Marked(t, s, g)
  PROVE  /\ m \in Row /\ m.status = s /\ m.kind = task[t].kind /\ m.input = task[t].input
         /\ Save(t, m) => task'[t] = m
BY DEF Typed, TasksTyped, Marked, Row, Save

\* What the users write, and what time does.
LEMMA UsersKeepSolo ==
  ASSUME SoloInv, Typed, NEW t \in Tasks,
         CreateOn(t) \/ UserOn(t) \/ TimesOut(t) \/ RetentionElapses(t)
  PROVE  SoloInv'
<1>a. /\ task \in [Tasks -> Row] /\ file \in [Tasks -> Files]
      /\ {"cancelled", "cancel_requested", "deleted", "queued"} \subseteq Status /\ "other" \in Stage
  BY DEF Typed, TasksTyped, FilesTyped, Status, Finished, Active, Stage
<1>b. UNCHANGED <<worker, req, connections>>
  BY DEF CreateOn, CreateExport, PreviewTableOp, UserOn, Cancel, Delete, ExecuteTableOp,
         TimesOut, RetentionElapses
<1>c. \A q \in Requests : GoesOn(q)
  BY <1>b DEF GoesOn
<1>d. \A w \in Workers : Runs(w, t) =>
          /\ task[t].status \in Shown
          /\ Past(w) => task[t].status # "deleted"
  BY DEF SoloInv, HeldAlone, Runs, Shown, Past
<1>1. CASE CreateOn(t)
  <2>1. /\ task[t].status = "none" /\ UNCHANGED file
        /\ task'[t].status \in {"queued", "awaiting_confirmation"}
        /\ \A u \in Tasks : u # t => task'[u] = task[u]
    BY <1>1, <1>a DEF CreateOn, CreateExport, PreviewTableOp, IsNext, Save, BlankRow
  <2> QED BY <1>b, <1>c, <2>1, NobodyHasNew, RowStep
<1>2. CASE Cancel(t)
  <2>1. /\ UNCHANGED file /\ \A u \in Tasks : u # t => task'[u] = task[u]
        /\ task'[t].kind = task[t].kind /\ task'[t].input = task[t].input
        /\ \/ task'[t].status = "cancel_requested"
           \/ task'[t].status = "cancelled" /\ task[t].status \notin Shown
    <3>1. CASE Immediate(t)
      <4>1. PICK m : m = Marked(t, "cancelled", "other")
        OBVIOUS
      <4>2. Save(t, [m EXCEPT !.cancel = TRUE]) /\ UNCHANGED file
        BY <1>2, <3>1, <4>1 DEF Cancel
      <4>3. m \in Row /\ m.status = "cancelled" /\ m.kind = task[t].kind /\ m.input = task[t].input
        BY <1>a, <4>1, SavedMarked
      <4>4. task[t].status \notin Shown
        BY <3>1 DEF Immediate, Claimable, Shown
      <4> QED BY <1>a, <4>2, <4>3, <4>4 DEF Save, Row
    <3>2. CASE ~Immediate(t)
      BY <1>2, <1>a, <3>2 DEF Cancel, Save, Row
    <3> QED BY <3>1, <3>2
  <2> QED BY <1>b, <1>c, <1>d, <2>1, RowStep DEF Shown
<1>3. CASE Delete(t)
  <2>1. /\ task[t].status \notin Shown
        /\ \A u \in Tasks : u # t => task'[u] = task[u] /\ file'[u] = file[u]
        /\ task'[t].kind = task[t].kind /\ task'[t].input = task[t].input
        /\ task'[t].status = "deleted"
    BY <1>3, <1>a DEF Delete, Save, Row, Exists, Unlink, Files, Active, Shown
  <2> QED BY <1>b, <1>c, <1>d, <2>1, RowStep
<1>4. CASE ExecuteTableOp(t)
  <2>1. /\ UNCHANGED file /\ \A u \in Tasks : u # t => task'[u] = task[u]
        /\ task'[t].kind = task[t].kind /\ task'[t].input = task[t].input
        /\ task'[t].status = "queued" /\ task[t].status \notin Shown
    BY <1>4, <1>a DEF ExecuteTableOp, Save, Marked, Row, Shown
  <2> QED BY <1>b, <1>c, <1>d, <2>1, RowStep
<1>5. CASE TimesOut(t) \/ RetentionElapses(t)
  <2>1. /\ UNCHANGED file /\ \A u \in Tasks : u # t => task'[u] = task[u]
        /\ task'[t].kind = task[t].kind /\ task'[t].input = task[t].input
        /\ task'[t].status = task[t].status
    BY <1>5, <1>a DEF TimesOut, RetentionElapses, Save, Row
  <2> QED BY <1>b, <1>c, <1>d, <2>1, RowStep
<1> QED BY <1>1, <1>2, <1>3, <1>4, <1>5 DEF UserOn

\* The connections go only when no transfer is active.
LEMMA ClearKeepsSolo ==
  ASSUME SoloInv, Typed, ClearConnections
  PROVE  SoloInv'
<1>1. UNCHANGED <<task, file, worker, req>> /\ \A t \in Tasks : task[t].status \notin Active
  BY DEF ClearConnections
<1>2. KeepsRows /\ \A q \in Requests : GoesOn(q)
  BY <1>1 DEF KeepsRows, GoesOn
<1>3. OwnRows'
  BY <1>1, <1>2, RequestsFrame DEF SoloInv
<1>4. \A w \in Workers : Busy(w) => ~Past(w) /\ Held(w) \in Tasks /\ task[Held(w)].status \in Shown
  BY <1>1 DEF SoloInv, HeldAlone, Typed, WorkersTyped, Past, Active, Shown
<1>5. \A w \in Workers : (Busy(w)' <=> Busy(w)) /\ Held(w)' = Held(w) /\ (Past(w)' <=> Past(w))
  BY <1>1 DEF Busy, Held, Past
<1>6. HeldAlone'
  BY <1>1, <1>2, <1>4, <1>5, WorkersFrame DEF SoloInv
<1>7. DownloadReady'
  BY <1>1, <1>2, DownloadsFrame DEF SoloInv
<1> QED BY <1>3, <1>6, <1>7 DEF SoloInv

\* Requests that begin: with a new row, or with one that is free.
LEMMA BeginningsKeepSolo ==
  ASSUME SoloInv, Typed, SerialRequests, NEW r \in Requests, NEW t \in Tasks, RequestOn(r, t)
  PROVE  SoloInv'
<1>a. /\ task \in [Tasks -> Row] /\ file \in [Tasks -> Files] /\ req \in [Requests -> RequestState]
      /\ {"init", "direct", "chunk", "merge", "confirm", "copy", "drop", "ready"} \subseteq RequestPC
  BY DEF Typed, TasksTyped, FilesTyped, RequestsTyped, RequestPC, WritingPC
<1>b. At(r, "ready") /\ UNCHANGED <<worker, connections>>
  BY DEF RequestOn, UploadInit, DirectUpload, UploadChunk, CompleteUpload, Confirm, Retry
<1>1. ASSUME NEW u \in Tasks, task[u].status = "none",
             \A v \in Tasks : v # u => task'[v] = task[v] /\ file'[v] = file[v],
             task'[u].status \in {"uploading", "inspecting", "queued"},
             \A q \in Requests : q # r => req'[q] = req[q],
             \/ req'[r] = req[r]
             \/ /\ req'[r].pc # "ready" /\ req'[r].task = u
                /\ req'[r].pc = "drop" => IsImport(task'[u].kind) /\ ~task'[u].input
      PROVE  SoloInv'
  <2>1. KeepsRows
    BY <1>1 DEF KeepsRows
  <2>2. OwnRows'
    <3>1. CASE req'[r] = req[r]
      <4>1. \A q \in Requests : GoesOn(q)
        BY <1>1, <3>1 DEF GoesOn
      <4>2. \A q \in Requests : At(q, "drop") => req[q].task \in Tasks /\ req[q].task # u
        BY <1>1, NobodyHasNew DEF Typed, RequestsTyped, At
      <4> QED BY <1>1, <2>1, <4>1, <4>2, RequestsFrame DEF SoloInv
    <3>2. CASE ~(req'[r] = req[r])
      BY <1>1, <1>b, <2>1, <3>2, NobodyHasNew, OneBegins DEF SoloInv
    <3> QED BY <3>1, <3>2
  <2>3. \A w \in Workers : (Busy(w)' <=> Busy(w)) /\ Held(w)' = Held(w) /\ (Past(w)' <=> Past(w))
    BY <1>b DEF Busy, Held, Past
  <2>4. \A w \in Workers : Busy(w) =>
           /\ Held(w) \in Tasks /\ Held(w) # u /\ task[Held(w)].status \in Shown
           /\ Past(w) => task[Held(w)].status # "deleted"
    BY <1>1, NobodyHasNew DEF SoloInv, HeldAlone, Typed, WorkersTyped, Shown, Past, Runs
  <2>5. HeldAlone'
    BY <1>1, <1>b, <2>1, <2>3, <2>4, WorkersFrame DEF SoloInv
  <2>6. DownloadReady'
    BY <1>1, <2>1, DownloadsFrame DEF SoloInv
  <2> QED BY <2>2, <2>5, <2>6 DEF SoloInv
<1>2. CASE UploadInit(r, t)
  <2>1. PICK k \in Kinds \cap {"dump", "redis", "small"} :
          Save(t, [BlankRow EXCEPT !.status = "uploading", !.kind = k])
    BY <1>2 DEF UploadInit
  <2> QED BY <1>1, <1>2, <1>a, <2>1, Began DEF UploadInit, IsNext, Save, BlankRow, Typed
<1>3. CASE DirectUpload(r, t)
  BY <1>1, <1>3, <1>a, Began DEF DirectUpload, IsNext, Save, BlankRow, Typed
<1>4. CASE UploadChunk(r, t) \/ CompleteUpload(r, t) \/ Confirm(r, t)
  <2>1. /\ UNCHANGED <<task, file>> /\ task[t].status \in {"uploading", "awaiting_confirmation"}
        /\ Free(t) /\ req'[r].task = t /\ req'[r].pc \in {"chunk", "merge", "confirm"}
        /\ \A q \in Requests : q # r => req'[q] = req[q]
    BY <1>4, <1>a, Began DEF UploadChunk, CompleteUpload, Confirm, Typed
  <2>2. KeepsRows
    BY <2>1 DEF KeepsRows
  <2>3. OwnRows'
    BY <1>b, <2>1, <2>2, OneBegins DEF SoloInv, Free
  <2>4. HeldAlone'
    BY <1>b, <2>1 DEF SoloInv, HeldAlone, Busy, Held
  <2>5. DownloadReady'
    BY <2>1, <2>2, DownloadsFrame DEF SoloInv
  <2> QED BY <2>3, <2>4, <2>5 DEF SoloInv
<1>5. ASSUME NEW u \in Tasks, Retry(r, t, u) PROVE SoloInv'
  <2>1. PICK inspect \in BOOLEAN :
          /\ inspect = (IsImport(task[t].kind) /\ ~task[t].preview)
          /\ Save(u, [BlankRow EXCEPT
                        !.status = IF inspect THEN "inspecting" ELSE "queued",
                        !.stage = IF inspect THEN "inspection_queued" ELSE "other",
                        !.kind = task[t].kind, !.preview = task[t].preview])
    BY <1>5, Zenon DEF Retry
  <2>2. /\ task'[u].status \in {"inspecting", "queued"} /\ task'[u].kind = task[t].kind
        /\ task'[u].input = FALSE /\ \A v \in Tasks : v # u => task'[v] = task[v]
    BY <1>a, <2>1 DEF Save, BlankRow
  <2>3. task[u].status = "none" /\ UNCHANGED file
    BY <1>5 DEF Retry, IsNext
  <2>4. CASE IsImport(task[t].kind)
    <3>1. PICK pc \in {"copy", "drop"} : req' = [req EXCEPT ![r] = [pc |-> pc, task |-> u, source |-> t]]
      BY <1>5, <2>4 DEF Retry
    <3> QED BY <1>1, <1>a, <2>2, <2>3, <2>4, <3>1
  <2>5. CASE ~IsImport(task[t].kind)
    <3>1. UNCHANGED req
      BY <1>5, <2>5 DEF Retry
    <3> QED BY <1>1, <2>2, <2>3, <3>1
  <2> QED BY <2>4, <2>5
<1> QED BY <1>2, <1>3, <1>4, <1>5 DEF RequestOn

\* Requests that go on.
LEMMA RequestsKeepSolo ==
  ASSUME PromiseInv, SoloInv, Typed, NEW r \in Requests, RequestStep(r)
  PROVE  SoloInv'
<1> DEFINE own == req[r].task
<1>a. /\ task \in [Tasks -> Row] /\ file \in [Tasks -> Files] /\ req \in [Requests -> RequestState]
      /\ {"validating", "inspection_queued", "other"} \subseteq Stage
      /\ {"inspecting", "failed", "awaiting_confirmation", "queued", "deleted"} \subseteq Status
  BY DEF Typed, TasksTyped, FilesTyped, RequestsTyped, Stage, Status, Finished, Active
<1>b. ~At(r, "ready") /\ UNCHANGED <<worker, connections>>
  BY DEF RequestStep, SaveInputPath, FinishDirectUpload, StoreChunk, MergeChunks, SaveValidating,
         SaveInspectionQueued, InspectInline, FailUpload, QueueConfirmed, CopyInput, SaveCopiedPath,
         DropRetry, RequestDies, At
<1>c. own \in Tasks /\ task[own].status # "none"
  BY <1>b DEF Typed, RequestsTyped, SoloInv, OwnRows
<1>d. \A q \in Requests : GoesOn(q)
  <2>1. Respond(r) \/ \E pc \in {"merged", "fail", "stage", "inline", "path"} : Goto(r, pc)
    BY DEF RequestStep, SaveInputPath, FinishDirectUpload, StoreChunk, MergeChunks, SaveValidating,
           SaveInspectionQueued, InspectInline, FailUpload, QueueConfirmed, CopyInput, SaveCopiedPath,
           DropRetry, RequestDies
  <2> QED BY <1>a, <1>b, <2>1 DEF GoesOn, Respond, Goto, Ready, RequestState
<1>e. \A u \in Tasks : u # own => task'[u] = task[u] /\ (file[u].output => file'[u].output)
  BY <1>a, <1>c DEF RequestStep, SaveInputPath, FinishDirectUpload, StoreChunk, MergeChunks,
         SaveValidating, SaveInspectionQueued, InspectInline, FailUpload, QueueConfirmed, CopyInput,
         SaveCopiedPath, DropRetry, RequestDies, Save, TrySave
<1>f. file[own].output => file'[own].output
  <2>1. CASE FinishDirectUpload(r)
    BY <1>a, <1>c, <2>1 DEF FinishDirectUpload, Files
  <2>2. CASE StoreChunk(r) \/ CopyInput(r)
    BY <1>a, <1>c, <2>2 DEF StoreChunk, CopyInput, Files
  <2>3. CASE MergeChunks(r)
    BY <1>a, <1>c, <2>3 DEF MergeChunks, Files
  <2>4. CASE UNCHANGED file
    BY <2>4
  <2> QED BY <2>1, <2>2, <2>3, <2>4
          DEF RequestStep, SaveInputPath, SaveValidating, SaveInspectionQueued, InspectInline,
              FailUpload, QueueConfirmed, SaveCopiedPath, DropRetry, RequestDies
<1>1. CASE UNCHANGED task
  BY <1>1, <1>b, <1>c, <1>d, <1>e, <1>f, RowStep DEF SoloInv, HeldAlone, Runs, Busy, Held, Shown, Past
<1>2. CASE SaveInputPath(r) \/ SaveCopiedPath(r)
  <2>1. /\ task'[own].status = task[own].status /\ task'[own].kind = task[own].kind
        /\ task[own].input => task'[own].input
    BY <1>2, <1>a, <1>c DEF SaveInputPath, SaveCopiedPath, TrySave, Save, Row
  <2>2. \A q \in Requests : At(q, "drop") => req[q].task # own
    BY <1>2, <1>b DEF SaveInputPath, SaveCopiedPath, SoloInv, OwnRows, At
  <2>3. \A w \in Workers : Runs(w, own) =>
           task[own].status \in Shown /\ (Past(w) => task[own].status # "deleted")
    BY DEF SoloInv, HeldAlone, Runs, Shown, Past
  <2> QED BY <1>b, <1>c, <1>d, <1>e, <1>f, <2>1, <2>2, <2>3, RowStep
<1>3. CASE DropRetry(r)
  <2>1. /\ task'[own].status = "deleted" /\ task'[own].kind = task[own].kind
        /\ task'[own].input = task[own].input
    BY <1>3, <1>a, <1>c DEF DropRetry, Save, Row
  <2>2. IsImport(task[own].kind) /\ ~task[own].input
    BY <1>3 DEF DropRetry, SoloInv, OwnRows, At
  <2>3. \A w \in Workers : Runs(w, own) => ~Past(w)
    BY <2>2 DEF SoloInv, HeldAlone, Runs, Past
  <2> QED BY <1>b, <1>c, <1>d, <1>e, <1>f, <2>1, <2>3, RowStep DEF Shown
<1>4. CASE task' # task /\ req[r].pc \in WritingPC
  <2>1. /\ task'[own].kind = task[own].kind /\ task'[own].input = task[own].input
        /\ task'[own].status \notin {"none", "succeeded"}
    <3>1. task[own].status # "succeeded"
      BY <1>4, <1>c DEF PromiseInv, Writers, Writes
    <3>2. CASE FinishDirectUpload(r)
      BY <1>a, <1>c, <1>4, <3>2, SavedMarked DEF FinishDirectUpload, TrySave
    <3>3. CASE SaveValidating(r)
      BY <1>a, <1>c, <1>4, <3>3, SavedMarked DEF SaveValidating
    <3>4. CASE SaveInspectionQueued(r)
      BY <1>a, <1>c, <1>4, <3>1, <3>4 DEF SaveInspectionQueued, TrySave, Save, Row
    <3>5. CASE InspectInline(r)
      <4>1. PICK m : m = Marked(own, "awaiting_confirmation", "other")
        OBVIOUS
      <4>2. Save(own, [m EXCEPT !.preview = TRUE])
        BY <1>4, <3>5, <4>1 DEF InspectInline
      <4>3. /\ m \in Row /\ m.status = "awaiting_confirmation"
            /\ m.kind = task[own].kind /\ m.input = task[own].input
        BY <1>a, <1>c, <4>1, SavedMarked
      <4> QED BY <1>a, <1>c, <4>2, <4>3 DEF Save, Row
    <3>6. CASE FailUpload(r)
      BY <1>a, <1>c, <1>4, <3>6, SavedMarked DEF FailUpload, TrySave
    <3>7. CASE QueueConfirmed(r)
      BY <1>a, <1>c, <1>4, <3>7, SavedMarked DEF QueueConfirmed
    <3> QED BY <1>4, <3>2, <3>3, <3>4, <3>5, <3>6, <3>7
            DEF RequestStep, SaveInputPath, StoreChunk, MergeChunks, CopyInput, SaveCopiedPath,
                DropRetry, RequestDies, At, WritingPC
  <2>2. \A w \in Workers : ~Runs(w, own)
    BY <1>4, <1>c DEF PromiseInv, Writers, Writes
  <2> QED BY <1>b, <1>c, <1>d, <1>e, <1>f, <2>1, <2>2, RowStep
<1> QED BY <1>1, <1>2, <1>3, <1>4
        DEF RequestStep, FinishDirectUpload, StoreChunk, MergeChunks, SaveValidating,
            SaveInspectionQueued, InspectInline, FailUpload, QueueConfirmed, CopyInput,
            RequestDies, At, WritingPC

\* The worker.
LEMMA WorkerKeepsSolo ==
  ASSUME SoloInv, Typed, Typed', OneWorkerProcess, NEW w \in Workers, NEW t \in Tasks,
         ReadExpired(w) \/ Poll(w) \/ Execute(w) \/ Crash(w) \/ Restart(w)
         \/ SweepOn(w, t) \/ RemoveOldChunks(w, t)
  PROVE  SoloInv'
<1>a. /\ task \in [Tasks -> Row] /\ file \in [Tasks -> Files]
      /\ "other" \in Stage /\ "running" \in Status
      /\ {"expired", "failed", "succeeded", "cancelled", "awaiting_confirmation"} \subseteq Status
  BY DEF Typed, TasksTyped, FilesTyped, Stage, Status, Finished, Active
<1>b. BusyPC = {"inspect", "preview", "gate", "effect", "finish", "cancelled", "failed"}
  BY DEF BusyPC
<1>c. UNCHANGED <<req, connections>>
  BY DEF ReadExpired, Poll, StartPoll, ReadStale, NothingToClaim, Execute, Inspect, SavePreview, PassGate,
         LastProgress, Interrupted, Fault, Finish, SaveFailure, Crash, Restart, SweepOn, ExpireOne,
         FailLegacy, FailStale, Claim, RemoveOldChunks
<1>d. \A q \in Requests : GoesOn(q)
  BY <1>c DEF GoesOn
<1>e. \A v \in Workers : v = w
  BY DEF OneWorkerProcess
<1>f. \A q \in Requests : At(q, "drop") => req[q].task \in Tasks /\ ~task[req[q].task].input
  BY DEF Typed, RequestsTyped, SoloInv, OwnRows, At
<1>g. \A v \in Workers : Busy(v) =>
          /\ Held(v) \in Tasks /\ task[Held(v)].status \in Shown
          /\ Past(v) => task[Held(v)].status # "deleted"
  BY DEF Typed, WorkersTyped, SoloInv, HeldAlone, Shown, Past
<1>1. CASE ReadExpired(w) \/ Poll(w) \/ Crash(w) \/ Restart(w) \/ RemoveOldChunks(w, t)
  <2>1. /\ UNCHANGED task /\ \A u \in Tasks : file[u].output => file'[u].output
    BY <1>1, <1>a DEF ReadExpired, Poll, StartPoll, ReadStale, NothingToClaim, Crash, Restart,
                      RemoveOldChunks, Files
  <2>2. ~Busy(w)'
    BY <1>1, <1>b DEF ReadExpired, Poll, StartPoll, ReadStale, NothingToClaim, Crash, Restart,
           RemoveOldChunks, Look, Done, Down, Idle, Busy, On, Typed, WorkersTyped, WorkerState
  <2>3. KeepsRows
    BY <2>1 DEF KeepsRows
  <2>4. OwnRows'
    BY <1>d, <2>1, <2>3, RequestsFrame DEF SoloInv
  <2>5. HeldAlone'
    BY <1>e, <2>2 DEF HeldAlone
  <2>6. DownloadReady'
    BY <2>1, <2>3, DownloadsFrame DEF SoloInv
  <2> QED BY <2>4, <2>5, <2>6 DEF SoloInv
<1>2. CASE ExpireOne(w, t) \/ FailLegacy(w, t) \/ FailStale(w, t)
  <2>1. ~Busy(w)
    BY <1>2, <1>b DEF ExpireOne, FailLegacy, FailStale, On, Busy
  <2>2. PICK row \in Row : /\ Sweep(w, t, row)
                           /\ row.status \in {"expired", "failed"} /\ row.kind = task[t].kind
                           /\ ~task[t].input => ~row.input
    <3>1. CASE ExpireOne(w, t)
      <4>1. PICK m : m = Marked(t, "expired", "other")
        OBVIOUS
      <4>2. m \in Row /\ m.status = "expired" /\ m.kind = task[t].kind
        BY <1>a, <4>1, SavedMarked
      <4>3. PICK row \in Row : row = [m EXCEPT !.input = FALSE]
        BY <4>2 DEF Row
      <4> QED BY <3>1, <4>1, <4>2, <4>3 DEF ExpireOne, Row
    <3>2. CASE FailLegacy(w, t) \/ FailStale(w, t)
      BY <1>a, <3>2, SavedMarked DEF FailLegacy, FailStale
    <3> QED BY <1>2, <3>1, <3>2
  <2>3. /\ ~Busy(w)' /\ task'[t] = IF Exists(t) THEN row ELSE task[t]
        /\ \A u \in Tasks : u # t => task'[u] = task[u]
    BY <2>1, <2>2, Swept DEF Typed
  <2>4. \A u \in Tasks : u # t => file'[u] = file[u]
    BY <1>2, <1>a DEF ExpireOne, FailLegacy, FailStale, Unlink
  <2>5. KeepsRows
    BY <2>2, <2>3 DEF KeepsRows
  <2>6. \A q \in Requests : At(q, "drop") => task'[req[q].task].input = task[req[q].task].input
    BY <1>a, <1>f, <2>2, <2>3 DEF Row
  <2>7. OwnRows'
    BY <1>d, <2>5, <2>6, RequestsFrame DEF SoloInv
  <2>8. HeldAlone'
    BY <1>e, <2>3 DEF HeldAlone
  <2>9. task'[t].status # "succeeded"
    BY <2>2, <2>3 DEF Exists
  <2>10. DownloadReady'
    BY <2>3, <2>4, <2>5, <2>9, DownloadsFrame DEF SoloInv
  <2> QED BY <2>7, <2>8, <2>10 DEF SoloInv
<1>3. CASE Claim(w, t)
  <2>1. /\ task'[t].status = "running" /\ task'[t].kind = task[t].kind /\ task'[t].input = task[t].input
        /\ UNCHANGED file /\ \A u \in Tasks : u # t => task'[u] = task[u]
    <3>1. PICK m : m = Marked(t, "running", "other")
      OBVIOUS
    <3>2. m \in Row /\ m.status = "running" /\ m.kind = task[t].kind /\ m.input = task[t].input
      BY <1>a, <3>1, SavedMarked
    <3>3. Save(t, [m EXCEPT !.overdue = FALSE])
      BY <1>3, <3>1 DEF Claim
    <3> QED BY <1>3, <1>a, <3>2, <3>3 DEF Claim, Save, Row
  <2>2. worker'[w].task = t /\ worker'[w].pc \in {"inspect", "gate"}
    BY <1>3 DEF Claim, Typed, WorkersTyped, WorkerState
  <2>3. KeepsRows
    BY <2>1 DEF KeepsRows
  <2>4. OwnRows'
    BY <1>d, <1>f, <2>1, <2>3, RequestsFrame DEF SoloInv
  <2>5. HeldAlone'
    BY <1>e, <2>1, <2>2 DEF HeldAlone, Held
  <2>6. DownloadReady'
    BY <2>1, <2>3, DownloadsFrame DEF SoloInv
  <2> QED BY <2>4, <2>5, <2>6 DEF SoloInv
<1>4. CASE Execute(w)
  <2> DEFINE own == Held(w)
  <2>1. Busy(w) /\ own \in Tasks
    BY <1>4, <1>b, <1>g DEF Execute, Inspect, SavePreview, PassGate, LastProgress, Interrupted, Fault,
           Finish, SaveFailure, On, Busy
  <2>2. \A u \in Tasks : file[u].output => file'[u].output
    <3>1. CASE PassGate(w)
      <4>1. file' = [file EXCEPT ![own].output = @ \/ task[own].kind = "export"]
        BY <3>1 DEF PassGate
      <4>2. /\ \A u \in Tasks : u # own => file'[u] = file[u]
            /\ file'[own].output = (file[own].output \/ task[own].kind = "export")
        BY <1>a, <2>1, <4>1 DEF Files
      <4> QED BY <4>2, Zenon
    <3>2. CASE UNCHANGED file
      BY <3>2
    <3> QED BY <1>4, <3>1, <3>2 DEF Execute, Inspect, SavePreview, LastProgress, Interrupted, Fault,
           Finish, SaveFailure
  <2>3. CASE UNCHANGED task
    <3>1. KeepsRows
      BY <2>3 DEF KeepsRows
    <3>2. OwnRows'
      BY <1>d, <2>3, <3>1, RequestsFrame DEF SoloInv
    <3>3. DownloadReady'
      BY <2>2, <2>3, <3>1, DownloadsFrame DEF SoloInv
    <3>4. CASE ~PassGate(w)
      <4>1. Busy(w)' => /\ Held(w)' = own
                        /\ Past(w)' => Past(w)
        BY <1>4, <1>b, <2>1, <2>3, <3>4, Stepped, LetGo
           DEF Execute, Inspect, SavePreview, LastProgress, Interrupted, Fault, Finish, SaveFailure,
               Typed, Busy, Held, Past, On
      <4> QED BY <1>c, <1>e, <1>g, <2>1, <2>2, <2>3, <3>1, <3>2, <3>3, <4>1, WorkersFrame DEF SoloInv
    <3>5. CASE PassGate(w)
      <4>1. /\ Exists(own) /\ (NeedsAsset(task[own].kind) => connections)
            /\ IsImport(task[own].kind) => task[own].input
        BY <3>5 DEF PassGate, Continues, HasInput
      <4>2. task[own].kind = "export" => file'[own].output
        <5>1. file' = [file EXCEPT ![own].output = @ \/ task[own].kind = "export"]
          BY <3>5 DEF PassGate
        <5>2. file'[own].output = (file[own].output \/ task[own].kind = "export")
          BY <1>a, <2>1, <5>1 DEF Files
        <5> QED BY <5>2, Zenon
      <4>3. worker'[w].task = own
        BY <1>b, <2>1, <3>5, Stepped DEF PassGate, Typed, Held
      <4>4. HeldAlone'
        BY <1>c, <1>e, <1>g, <2>1, <2>3, <4>1, <4>2, <4>3 DEF HeldAlone, Held, Shown, Exists
      <4> QED BY <3>2, <3>3, <4>4 DEF SoloInv
    <3> QED BY <3>4, <3>5
  <2>4. CASE task' # task
    <3>1. PICK m : /\ m \in Row /\ m.kind = task[own].kind /\ m.input = task[own].input
                   /\ m.status \in {"awaiting_confirmation", "succeeded", "failed", "cancelled"}
                   /\ m.status = "succeeded" => Past(w)
                   /\ Save(own, m)
      <4>1. CASE SavePreview(w)
        <5>1. PICK n : n = Marked(own, "awaiting_confirmation", "other")
          OBVIOUS
        <5>2. /\ n \in Row /\ n.status = "awaiting_confirmation"
              /\ n.kind = task[own].kind /\ n.input = task[own].input
          BY <1>a, <2>1, <5>1, SavedMarked
        <5>3. PICK m : m = [n EXCEPT !.preview = TRUE]
          OBVIOUS
        <5>4. /\ m \in Row /\ m.status = "awaiting_confirmation"
              /\ m.kind = task[own].kind /\ m.input = task[own].input
          BY <5>2, <5>3 DEF Row
        <5> QED BY <2>4, <4>1, <5>1, <5>3, <5>4 DEF SavePreview
      <4>2. CASE Finish(w)
        <5>1. Past(w) /\ Save(own, Marked(own, "succeeded", "other"))
          BY <2>4, <4>2 DEF Finish, On, Past
        <5> QED BY <1>a, <2>1, <5>1, SavedMarked
      <4>3. CASE SaveFailure(w)
        <5>1. PICK s \in {"cancelled", "failed"} : Save(own, Marked(own, s, "other"))
          BY <2>4, <4>3 DEF SaveFailure
        <5> QED BY <1>a, <2>1, <5>1, SavedMarked
      <4> QED BY <1>4, <2>4, <4>1, <4>2, <4>3
              DEF Execute, Inspect, PassGate, LastProgress, Interrupted, Fault
    <3>2. ~Busy(w)'
      BY <1>4, <1>b, <2>4, LetGo DEF Execute, Inspect, SavePreview, PassGate, LastProgress, Interrupted,
             Fault, Finish, SaveFailure, Typed, Busy
    <3>3. task'[own] = m /\ \A u \in Tasks : u # own => task'[u] = task[u]
      BY <1>a, <2>1, <3>1 DEF Save
    <3>4. KeepsRows
      BY <3>1, <3>3 DEF KeepsRows
    <3>5. OwnRows'
      BY <1>d, <1>f, <3>1, <3>3, <3>4, RequestsFrame DEF SoloInv
    <3>6. HeldAlone'
      BY <1>e, <3>2 DEF HeldAlone
    <3>7. DownloadReady'
      <4>1. m.status = "succeeded" /\ m.kind = "export" => file[own].output
        BY <2>1, <3>1 DEF SoloInv, HeldAlone, Past
      <4> QED BY <2>1, <2>2, <3>1, <3>3, <4>1 DEF SoloInv, DownloadReady
    <3> QED BY <3>5, <3>6, <3>7 DEF SoloInv
  <2> QED BY <2>3, <2>4
<1> QED BY <1>1, <1>2, <1>3, <1>4 DEF SweepOn

\* At first nobody works, and nothing is succeeded.
LEMMA SoloInit == Init => SoloInv
<1> SUFFICES ASSUME Init PROVE SoloInv
  OBVIOUS
<1>1. /\ \A w \in Workers : ~Busy(w)
      /\ \A r \in Requests : At(r, "ready") /\ req[r].task = NoTask
  BY DEF Init, Idle, Ready, Busy, BusyPC, At
<1>2. \A t \in Tasks : task[t].status # "succeeded"
  <2>1. PICK old \in 0..LegacyRows : LegacyInit(old)
    BY DEF Init
  <2>2. PICK left \in [1..old -> {"awaiting_confirmation", "queued"}] :
          task = [t \in Tasks |->
                    IF t \in 1..old
                      THEN [BlankRow EXCEPT !.status = left[t],
                                            !.kind = "legacy", !.input = TRUE]
                      ELSE BlankRow]
    BY <2>1 DEF LegacyInit
  <2>3. \A t \in 1..old : left[t] \in {"awaiting_confirmation", "queued"}
    OBVIOUS
  <2> QED BY <2>2, <2>3 DEF BlankRow
<1> QED BY <1>1, <1>2 DEF SoloInv, OwnRows, HeldAlone, DownloadReady

\* Every step of the deployment with one worker keeps it.
LEMMA SoloStep ==
  SerialRequests /\ OneWorkerProcess /\ PromiseInv /\ SoloInv /\ [Next]_vars => SoloInv'
<1> SUFFICES ASSUME SerialRequests, OneWorkerProcess, PromiseInv, SoloInv, [Next]_vars
             PROVE  SoloInv'
  OBVIOUS
<1>1. Typed /\ Typed' /\ 1 \in Tasks
  BY TypedStep, TypedIsTypeOK, TransferAssumption DEF PromiseInv, Tasks
<1>2. CASE UNCHANGED vars
  BY <1>2 DEF vars, SoloInv, OwnRows, HeldAlone, DownloadReady, At, Busy, Held
<1>3. CASE Next
  BY <1>1, <1>3, UsersKeepSolo, ClearKeepsSolo, BeginningsKeepSolo, RequestsKeepSolo, WorkerKeepsSolo
     DEF Next
<1> QED BY <1>2, <1>3

\* With one worker process, a row shown as finished is executed by nobody, so deleting or
\* retrying it is safe, and a succeeded export can be downloaded.
THEOREM FinishedIsOver == SerialRequests /\ OneWorkerProcess => (Spec => []FinishedHolds)
<1> SUFFICES ASSUME SerialRequests, OneWorkerProcess PROVE Spec => []FinishedHolds
  OBVIOUS
<1>1. Init => PromiseInv /\ SoloInv
  BY PromiseInit, SoloInit
<1>2. PromiseInv /\ SoloInv /\ [Next]_vars => PromiseInv' /\ SoloInv'
  BY PromiseNextStep, SoloStep
<1>3. SoloInv => FinishedHolds
  BY DEF SoloInv, HeldAlone, FinishedHolds, FinishedIsStopped, Finished, Runs
<1> QED BY <1>1, <1>2, <1>3, PTL DEF Spec

\* With one worker process, the connections stay while a transfer relies on them: the
\* command that clears them waits for every active row, and a held row behind its gate is one.
THEOREM ConnectionsStay == SerialRequests /\ OneWorkerProcess => (Spec => []ConnectionsOutliveTransfers)
<1> SUFFICES ASSUME SerialRequests, OneWorkerProcess PROVE Spec => []ConnectionsOutliveTransfers
  OBVIOUS
<1>1. Init => PromiseInv /\ SoloInv
  BY PromiseInit, SoloInit
<1>2. PromiseInv /\ SoloInv /\ [Next]_vars => PromiseInv' /\ SoloInv'
  BY PromiseNextStep, SoloStep
<1>3. SoloInv => ConnectionsOutliveTransfers
  BY DEF SoloInv, HeldAlone, ConnectionsOutliveTransfers, Busy, BusyPC
<1> QED BY <1>1, <1>2, <1>3, PTL DEF Spec
=============================================================================
