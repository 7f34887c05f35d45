------------------------ MODULE BulkExecutionProofs ------------------------
(* Proofs about BulkExecution, for any tasks, hosts, files, forks and stops  *)
(* of the process.  The invariant speaks of one task at a time, because a    *)
(* step of a runner, a job or a request writes the rows of one task only:    *)
(*  - Lives, Vanished: which rows there are before the runner begins and     *)
(*    after the task was deleted under it;                                   *)
(*  - AtPlace, JobsInPool: what the runner holds at each of its places, and  *)
(*    that jobs are at work only while it waits for their pool;              *)
(*  - TargetsAreAll, Handled: which hosts have been dealt with in a task     *)
(*    that nobody has cancelled;                                             *)
(*  - Verdicts, Closed: what the status stands for once the runner is done;  *)
(*  - Limits: effects begun after the cancellation, and jobs past their      *)
(*    check, are together at most the places of the pool.                    *)
(* Requests write rows they read earlier, and a restart writes them all; both *)
(* only move rows towards an end, and one lemma covers every such step.       *)
EXTENDS BulkExecution, FiniteSetTheorems, TLAPS

-----------------------------------------------------------------------------
(* The inductive invariant, part by part, for one task. *)

\* A task has a row exactly when a runner was created for it, and no flag before.
Lives(t) ==
    /\ task[t].status = "none" <=> runner[t].pc = "none"
    /\ runner[t].pc = "none" => runner[t] = NoRunner /\ ~task[t].cancel

\* The rows of its hosts go with a deleted task and are not written again.
Vanished(t) ==
    ~Exists(t) => \A h \in Hosts : /\ result[t][h] = "none"
                                   /\ \A f \in Files : item[t][f][h] = "none"

\* What the runner holds at each of its places; a pool is given up only because
\* the task was deleted.
AtPlace(t) ==
    /\ runner[t].pc \in {"file", "pool", "aggregate"} => runner[t].file \in Files
    /\ runner[t].pc \in {"file", "aggregate"} => IsUpload(t)
    /\ runner[t].pc = "pool" /\ ~IsUpload(t) => runner[t].file = 1
    /\ runner[t].pc = "pool" => \/ runner[t].verdict = "none"
                                \/ runner[t].verdict = "failed" /\ ~Exists(t)
    /\ runner[t].pc \in {"start", "open", "file", "aggregate", "judge"}
         => runner[t].verdict = "none"
    /\ runner[t].pc \in {"start", "open"} => runner[t].targets = {}
    /\ runner[t].pc \in {"file", "pool"} => runner[t].pending \subseteq runner[t].targets
    /\ runner[t].pc = "close" => runner[t].verdict \in {"completed", "failed", "canceled"}

\* Jobs are at work while the runner waits for its pool; one that won has had its
\* effect, and only the deletion of the rows makes one raise.
JobsInPool(t) ==
    \A h \in Hosts :
        /\ job[t][h] # "idle" => runner[t].pc = "pool" /\ h \in runner[t].targets
        /\ job[t][h] = "raised" => ~Exists(t)
        /\ job[t][h] = "won" => h \in effect[t][runner[t].file]

\* Every host left that has a result is a target.
TargetsAreAll(t) ==
    runner[t].pc \in {"file", "pool", "aggregate", "judge"} =>
        \A h \in hosts \ runner[t].targets : result[t][h] = "none"

\* A file (or the command) took effect on a host, or its failure is on record.
DoneOn(t, f, h) ==
    \/ h \notin hosts
    \/ h \in effect[t][f]
    \/ IsUpload(t) /\ item[t][f][h] = "failed"
    \/ ~IsUpload(t) /\ result[t][h] = "failed"

DoneAll(t, h) ==
    h \in hosts /\ result[t][h] # "none" => \A f \in FilesOf(t) : h \in effect[t][f]

\* Nobody has cancelled the task as far as its row and its runner know.
Going(t) == Exists(t) /\ ~task[t].cancel /\ ~runner[t].canceled

\* How far the runner of a going task has come.
Handled(t) ==
    Going(t) =>
      /\ runner[t].pc \in {"file", "pool"} =>
           \A f \in Files, h \in runner[t].targets : f < runner[t].file => DoneOn(t, f, h)
      /\ runner[t].pc = "pool" =>
           \A h \in runner[t].targets \ runner[t].pending :
             job[t][h] \in {"idle", "done"} => DoneOn(t, runner[t].file, h)
      /\ runner[t].pc = "aggregate" =>
           \A f \in Files, h \in runner[t].targets : DoneOn(t, f, h)
      /\ runner[t].pc = "judge" =>
           \A h \in Hosts : DoneAll(t, h) \/ result[t][h] = "failed"

Verdicts(t) ==
    /\ runner[t].verdict = "completed" => \A h \in Hosts : DoneAll(t, h)
    /\ task[t].status = "completed" => runner[t].verdict = "completed"

Closed(t) ==
    runner[t].pc \in {"close", "over"} =>
        \A h \in Hosts :
          /\ result[t][h] \notin Unfinished
          /\ runner[t].targets # {} => \A f \in Files : item[t][f][h] \notin Unfinished

\* Effects after the cancellation are paid by the jobs past their check when it
\* was saved; those are at most as many as the pool has places.
Limits(t) ==
    /\ Cardinality(Working(t)) <= Forks
    /\ ~task[t].cancel => late[t] = 0
    /\ late[t] + Cardinality({h \in Hosts : job[t][h] \in {"begin", "exec"}}) <= Forks

TaskInv(t) ==
    /\ Lives(t) /\ Vanished(t) /\ AtPlace(t) /\ JobsInPool(t) /\ TargetsAreAll(t)
    /\ Handled(t) /\ Verdicts(t) /\ Closed(t) /\ Limits(t)

Inv == TypeOK /\ \A t \in Tasks : TaskInv(t)

-----------------------------------------------------------------------------
(* What a step does to a task. *)

Same(t) ==
    /\ task'[t] = task[t] /\ result'[t] = result[t] /\ item'[t] = item[t]
    /\ runner'[t] = runner[t] /\ job'[t] = job[t]
    /\ effect'[t] = effect[t] /\ late'[t] = late[t]

OnlyOn(t) == hosts' \subseteq hosts /\ \A u \in Tasks \ {t} : Same(u)

\* What a request of another thread may do to the rows of a task.
Nudged(t) ==
    /\ hosts' \subseteq hosts
    /\ item'[t] = item[t] /\ runner'[t] = runner[t] /\ job'[t] = job[t]
    /\ effect'[t] = effect[t] /\ late'[t] = late[t]
    /\ task'[t].kind = task[t].kind
    /\ task'[t].status = "none" <=> task[t].status = "none"
    /\ task'[t].status = "deleted" <=> task[t].status = "deleted"
    /\ task'[t].status = "completed" => task[t].status = "completed"
    /\ task[t].cancel => task'[t].cancel
    /\ task'[t].cancel => task[t].cancel \/ Exists(t)
    /\ \A h \in Hosts : \/ result'[t][h] = result[t][h]
                         \/ /\ result[t][h] \in Unfinished
                            /\ result'[t][h] \in {"skipped", "failed"}

LEMMA SameNudged ==
  ASSUME NEW t \in Tasks, hosts' \subseteq hosts, Same(t)
  PROVE  Nudged(t)
BY DEF Same, Nudged

LEMMA NudgeKeeps ==
  ASSUME NEW t \in Tasks, TypeOK, TypeOK', TaskInv(t), Nudged(t)
  PROVE  TaskInv(t)'
<1> USE DEF Nudged
<1>1. task[t] \in TaskRow /\ task'[t] \in TaskRow /\ runner[t] \in Runner
  BY DEF TypeOK
<1>2. /\ Exists(t)' <=> Exists(t)
      /\ IsUpload(t)' <=> IsUpload(t)
      /\ FilesOf(t)' = FilesOf(t)
  BY DEF Exists, IsUpload, FilesOf
<1>3. \A h \in Hosts : /\ result'[t][h] = "none" <=> result[t][h] = "none"
                       /\ result[t][h] = "failed" => result'[t][h] = "failed"
  BY DEF Unfinished
<1>4. \A h \in Hosts : DoneAll(t, h) => DoneAll(t, h)'
  BY <1>2, <1>3 DEF DoneAll
<1>5. \A h \in Hosts, f \in Files : DoneOn(t, f, h) => DoneOn(t, f, h)'
  BY <1>2, <1>3 DEF DoneOn
<1>6. Lives(t)' BY <1>1, <1>2 DEF TaskInv, Lives, Exists
<1>7. Vanished(t)' BY <1>2, <1>3 DEF TaskInv, Vanished
<1>8. AtPlace(t)' BY <1>2 DEF TaskInv, AtPlace
<1>9. JobsInPool(t)' BY <1>2 DEF TaskInv, JobsInPool
<1>10. TargetsAreAll(t)'
  <2>1. hosts \subseteq Hosts BY DEF TypeOK
  <2> QED BY <2>1, <1>3 DEF TaskInv, TargetsAreAll
<1>11. Handled(t)'
  <2>1. SUFFICES ASSUME Going(t)' PROVE Handled(t)' BY DEF Handled
  <2>2. Going(t) BY <2>1, <1>1, <1>2 DEF Going
  <2>3. runner[t].targets \subseteq Hosts /\ runner[t].file \in 0 .. MaxFiles
    BY <1>1 DEF Runner
  <2>4. runner[t].pc = "pool" => runner[t].file \in Files BY DEF TaskInv, AtPlace
  <2> QED BY <2>2, <2>3, <2>4, <1>3, <1>4, <1>5 DEF TaskInv, Handled
<1>12. Verdicts(t)' BY <1>4 DEF TaskInv, Verdicts
<1>13. Closed(t)' BY <1>3 DEF TaskInv, Closed, Unfinished
<1>14. Limits(t)' BY <1>1 DEF TaskInv, Limits, Working, TaskRow
<1> QED BY <1>6, <1>7, <1>8, <1>9, <1>10, <1>11, <1>12, <1>13, <1>14 DEF TaskInv
-----------------------------------------------------------------------------
(* Rows of one task. *)

LEMMA CountsTyped ==
  ASSUME NEW res
  PROVE  CountsOf(res) \in [Final -> 0 .. Cardinality(Hosts)]
<1>1. ASSUME NEW s \in Final
      PROVE  Cardinality({h \in Hosts : res[h] = s}) \in 0 .. Cardinality(Hosts)
  <2>1. IsFiniteSet(Hosts) BY BulkAssumption
  <2>2. {h \in Hosts : res[h] = s} \subseteq Hosts OBVIOUS
  <2>3. /\ IsFiniteSet({h \in Hosts : res[h] = s})
        /\ Cardinality({h \in Hosts : res[h] = s}) <= Cardinality(Hosts)
    BY <2>1, <2>2, FS_Subset
  <2> QED BY <2>1, <2>3, FS_CardinalityType
<1> QED BY <1>1 DEF CountsOf

LEMMA SetTask ==
  ASSUME TypeOK, NEW t \in Tasks, NEW row \in TaskRow, task' = [task EXCEPT ![t] = row]
  PROVE  /\ task' \in [Tasks -> TaskRow] /\ task'[t] = row
         /\ \A u \in Tasks \ {t} : task'[u] = task[u]
BY DEF TypeOK

LEMMA SetStatus ==
  ASSUME TypeOK, NEW t \in Tasks, NEW s \in Status, task' = [task EXCEPT ![t].status = s]
  PROVE  /\ task' \in [Tasks -> TaskRow]
         /\ task'[t].status = s /\ task'[t].kind = task[t].kind
         /\ task'[t].cancel = task[t].cancel
         /\ \A u \in Tasks \ {t} : task'[u] = task[u]
<1> DEFINE row == [task[t] EXCEPT !.status = s]
<1>1. task[t] \in TaskRow BY DEF TypeOK
<1>2. /\ row \in TaskRow /\ row.status = s /\ row.kind = task[t].kind
      /\ row.cancel = task[t].cancel
  BY <1>1 DEF TaskRow
<1>3. task' = [task EXCEPT ![t] = row] OBVIOUS
<1> HIDE DEF row
<1> QED BY <1>2, <1>3, SetTask

LEMMA SetCancel ==
  ASSUME TypeOK, NEW t \in Tasks, task' = [task EXCEPT ![t].cancel = TRUE]
  PROVE  /\ task' \in [Tasks -> TaskRow]
         /\ task'[t].status = task[t].status /\ task'[t].kind = task[t].kind
         /\ task'[t].cancel
         /\ \A u \in Tasks \ {t} : task'[u] = task[u]
<1> DEFINE row == [task[t] EXCEPT !.cancel = TRUE]
<1>1. task[t] \in TaskRow BY DEF TypeOK
<1>2. /\ row \in TaskRow /\ row.status = task[t].status /\ row.kind = task[t].kind
      /\ row.cancel
  BY <1>1 DEF TaskRow
<1>3. task' = [task EXCEPT ![t] = row] OBVIOUS
<1> HIDE DEF row
<1> QED BY <1>2, <1>3, SetTask

LEMMA SetCounts ==
  ASSUME TypeOK, NEW t \in Tasks, NEW c \in [Final -> 0 .. Cardinality(Hosts)],
         task' = [task EXCEPT ![t].counts = c]
  PROVE  /\ task' \in [Tasks -> TaskRow]
         /\ task'[t].status = task[t].status /\ task'[t].kind = task[t].kind
         /\ task'[t].cancel = task[t].cancel
         /\ \A u \in Tasks \ {t} : task'[u] = task[u]
<1> DEFINE row == [task[t] EXCEPT !.counts = c]
<1>1. task[t] \in TaskRow BY DEF TypeOK
<1>2. /\ row \in TaskRow /\ row.status = task[t].status /\ row.kind = task[t].kind
      /\ row.cancel = task[t].cancel
  BY <1>1 DEF TaskRow
<1>3. task' = [task EXCEPT ![t] = row] OBVIOUS
<1> HIDE DEF row
<1> QED BY <1>2, <1>3, SetTask

LEMMA SetRunner ==
  ASSUME TypeOK, NEW t \in Tasks, NEW r \in Runner, runner' = [runner EXCEPT ![t] = r]
  PROVE  /\ runner' \in [Tasks -> Runner] /\ runner'[t] = r
         /\ \A u \in Tasks \ {t} : runner'[u] = runner[u]
BY DEF TypeOK

LEMMA SetRunnerPC ==
  ASSUME TypeOK, NEW t \in Tasks, NEW pc \in RunnerPC, RunnerTo(t, pc)
  PROVE  /\ runner' \in [Tasks -> Runner]
         /\ runner'[t].pc = pc /\ runner'[t].targets = runner[t].targets
         /\ runner'[t].file = runner[t].file /\ runner'[t].pending = runner[t].pending
         /\ runner'[t].canceled = runner[t].canceled
         /\ runner'[t].verdict = runner[t].verdict
         /\ \A u \in Tasks \ {t} : runner'[u] = runner[u]
<1> DEFINE r == [runner[t] EXCEPT !.pc = pc]
<1>1. runner[t] \in Runner BY DEF TypeOK
<1>2. /\ r \in Runner /\ r.pc = pc /\ r.targets = runner[t].targets
      /\ r.file = runner[t].file /\ r.pending = runner[t].pending
      /\ r.canceled = runner[t].canceled /\ r.verdict = runner[t].verdict
  BY <1>1 DEF Runner
<1>3. runner' = [runner EXCEPT ![t] = r] BY DEF RunnerTo
<1> HIDE DEF r
<1> QED BY <1>2, <1>3, SetRunner

LEMMA SetJob ==
  ASSUME TypeOK, NEW t \in Tasks, NEW h \in Hosts, NEW pc \in JobPC, JobTo(t, h, pc)
  PROVE  /\ job' \in [Tasks -> [Hosts -> JobPC]] /\ job'[t][h] = pc
         /\ \A k \in Hosts \ {h} : job'[t][k] = job[t][k]
         /\ \A u \in Tasks \ {t} : job'[u] = job[u]
<1>1. job[t] \in [Hosts -> JobPC] BY DEF TypeOK
<1> QED BY <1>1 DEF TypeOK, JobTo

LEMMA SetResults ==
  ASSUME TypeOK, NEW t \in Tasks, NEW res \in [Hosts -> Progress],
         result' = [result EXCEPT ![t] = res]
  PROVE  /\ result' \in [Tasks -> [Hosts -> Progress]] /\ result'[t] = res
         /\ \A u \in Tasks \ {t} : result'[u] = result[u]
BY DEF TypeOK

LEMMA SetItems ==
  ASSUME TypeOK, NEW t \in Tasks, NEW i \in [Files -> [Hosts -> Progress]],
         item' = [item EXCEPT ![t] = i]
  PROVE  /\ item' \in [Tasks -> [Files -> [Hosts -> Progress]]] /\ item'[t] = i
         /\ \A u \in Tasks \ {t} : item'[u] = item[u]
BY DEF TypeOK

LEMMA SetFileItems ==
  ASSUME TypeOK, NEW t \in Tasks, NEW f \in Files, NEW i \in [Hosts -> Progress],
         item' = [item EXCEPT ![t][f] = i]
  PROVE  /\ item' \in [Tasks -> [Files -> [Hosts -> Progress]]] /\ item'[t][f] = i
         /\ \A g \in Files \ {f} : item'[t][g] = item[t][g]
         /\ \A u \in Tasks \ {t} : item'[u] = item[u]
<1>1. item[t] \in [Files -> [Hosts -> Progress]] BY DEF TypeOK
<1> QED BY <1>1 DEF TypeOK

LEMMA MarkedTyped ==
  ASSUME NEW res \in [Hosts -> Progress], NEW from, NEW to \in Progress
  PROVE  Marked(res, from, to) \in [Hosts -> Progress]
BY DEF Marked
-----------------------------------------------------------------------------
(* Requests: each only nudges the tasks it writes. *)

LEMMA SetView ==
  ASSUME TypeOK, NEW v \in Views, NEW row \in View, view' = [view EXCEPT ![v] = row]
  PROVE  view' \in [Views -> View]
BY DEF TypeOK

LEMMA RespondTyped ==
  ASSUME TypeOK, NEW v \in Views, Respond(v)
  PROVE  view' \in [Views -> View]
<1>1. NoCounts \in [Final -> 0 .. Cardinality(Hosts)]
  BY BulkAssumption, FS_CardinalityType DEF NoCounts
<1>2. Ready \in View BY <1>1 DEF Ready, View, ViewPC
<1> QED BY <1>2, SetView DEF Respond

LEMMA AllNudged ==
  ASSUME Inv, TypeOK', \A t \in Tasks : Nudged(t)
  PROVE  Inv'
BY NudgeKeeps DEF Inv

LEMMA AskStep ==
  ASSUME Inv, NEW v \in Views, NEW t,
         (t \in Tasks /\ (Cancel(v, t) \/ Detail(v, t))) \/ List(v)
  PROVE  Inv'
<1>1. UNCHANGED <<rows, hosts, runner, job, checked, crashes, past>>
  BY DEF Cancel, Detail, List
<1>2. view' \in [Views -> View]
  <2>1. view[v] \in View BY DEF Inv, TypeOK
  <2>2. CASE t \in Tasks /\ Cancel(v, t)
    <3> DEFINE row == [view[v] EXCEPT !.ids = {t},
                         !.pc = IF task[t].status = "queued" THEN "skip" ELSE "flag"]
    <3>1. row \in View BY <2>1, <2>2 DEF View, ViewPC
    <3>2. view' = [view EXCEPT ![v] = row] BY <2>2 DEF Cancel
    <3> HIDE DEF row
    <3> QED BY <3>1, <3>2, SetView DEF Inv
  <2>3. CASE t \in Tasks /\ Detail(v, t)
    <3> DEFINE row == [pc |-> "counts", ids |-> {t}, counts |-> CountsOf(result[t])]
    <3>1. row \in View BY <2>3, CountsTyped DEF View, ViewPC
    <3> QED BY <3>1, <2>3, SetView DEF Detail, Inv
  <2>4. CASE List(v)
    <3> DEFINE row == [view[v] EXCEPT !.pc = "marktasks",
                         !.ids = {u \in Tasks : task[u].status = "running"}]
    <3>1. row \in View BY <2>1 DEF View, ViewPC
    <3>2. view' = [view EXCEPT ![v] = row] BY <2>4 DEF List
    <3> HIDE DEF row
    <3> QED BY <3>1, <3>2, SetView DEF Inv
  <2> QED BY <2>2, <2>3, <2>4
<1>3. TypeOK' BY <1>1, <1>2 DEF Inv, TypeOK, rows, past
<1>4. \A u \in Tasks : Nudged(u)
  BY <1>1 DEF Nudged, rows, past
<1> QED BY <1>3, <1>4, AllNudged

\* A request that saves fields of one row and leaves the results alone.
LEMMA SaveNudges ==
  ASSUME Inv, NEW v \in Views, NEW t \in Tasks,
         SaveCanceled(v, t) \/ SaveFlag(v, t) \/ SaveCounts(v, t)
  PROVE  Inv'
<1>1. UNCHANGED <<result, item, hosts, runner, job, checked, crashes, past>> /\ Respond(v)
  BY DEF SaveCanceled, SaveFlag, SaveCounts
<1>2. TypeOK /\ view[v] \in View /\ task[t] \in TaskRow BY DEF Inv, TypeOK
<1>3. /\ task' \in [Tasks -> TaskRow] /\ \A u \in Tasks \ {t} : task'[u] = task[u]
      /\ \/ task'[t] = task[t]
         \/ /\ Exists(t) /\ task'[t].kind = task[t].kind
            /\ \/ task'[t].status = task[t].status
               \/ task'[t].status = "canceled"
            /\ task'[t].cancel \/ ~task[t].cancel
  <2>1. CASE ~Exists(t)
    BY <1>2, <2>1 DEF SaveCanceled, SaveFlag, SaveCounts, TypeOK
  <2>2. CASE Exists(t) /\ SaveCanceled(v, t)
    <3> DEFINE row == [task[t] EXCEPT !.status = "canceled", !.cancel = TRUE,
                                      !.counts = view[v].counts]
    <3>1. /\ row \in TaskRow /\ row.status = "canceled" /\ row.cancel
          /\ row.kind = task[t].kind
      BY <1>2 DEF TaskRow, View, Status
    <3>2. task' = [task EXCEPT ![t] = row] BY <2>2 DEF SaveCanceled
    <3> HIDE DEF row
    <3> QED BY <3>1, <3>2, <2>2, <1>2, SetTask
  <2>3. CASE Exists(t) /\ SaveFlag(v, t)
    <3>1. task' = [task EXCEPT ![t].cancel = TRUE] BY <2>3 DEF SaveFlag
    <3> QED BY <3>1, <2>3, <1>2, SetCancel
  <2>4. CASE Exists(t) /\ SaveCounts(v, t)
    <3>1. task' = [task EXCEPT ![t].counts = view[v].counts] BY <2>4 DEF SaveCounts
    <3>2. view[v].counts \in [Final -> 0 .. Cardinality(Hosts)] BY <1>2 DEF View
    <3> QED BY <3>1, <3>2, <2>4, <1>2, SetCounts
  <2> QED BY <2>1, <2>2, <2>3, <2>4
<1>4. TypeOK' BY <1>1, <1>2, <1>3, RespondTyped DEF TypeOK, past
<1>5. Nudged(t) BY <1>1, <1>3 DEF Nudged, Exists, past
<1>6. ASSUME NEW u \in Tasks \ {t} PROVE Nudged(u)
  BY <1>1, <1>3 DEF Nudged, past
<1> QED BY <1>4, <1>5, <1>6, AllNudged

LEMMA SkipStep ==
  ASSUME Inv, NEW v \in Views, NEW t \in Tasks, SkipResults(v, t)
  PROVE  Inv'
<1> DEFINE closed == Marked(result[t], Unfinished, "skipped")
<1>1. TypeOK /\ view[v] \in View /\ result[t] \in [Hosts -> Progress]
  BY DEF Inv, TypeOK
<1>2. UNCHANGED <<item, hosts, runner, job, checked, crashes, past>>
  BY DEF SkipResults
<1>3. CASE ~Exists(t)
  <2>1. Respond(v) /\ UNCHANGED <<task, result>> BY <1>3 DEF SkipResults
  <2>2. TypeOK' BY <2>1, <1>1, <1>2, RespondTyped DEF TypeOK, past
  <2>3. \A u \in Tasks : Nudged(u) BY <2>1, <1>2 DEF Nudged, past
  <2> QED BY <2>2, <2>3, AllNudged
<1>4. CASE Exists(t)
  <2>1. /\ result' = [result EXCEPT ![t] = closed]
        /\ task' = [task EXCEPT ![t].counts = CountsOf(closed)]
        /\ view' = [view EXCEPT ![v].pc = "cancel", ![v].counts = CountsOf(closed)]
    BY <1>4 DEF SkipResults
  <2>2. closed \in [Hosts -> Progress]
    BY <1>1, MarkedTyped DEF Progress, Final
  <2>3. CountsOf(closed) \in [Final -> 0 .. Cardinality(Hosts)] BY CountsTyped
  <2>4. \A h \in Hosts : \/ closed[h] = result[t][h]
                         \/ result[t][h] \in Unfinished /\ closed[h] = "skipped"
    BY DEF Marked
  <2> DEFINE row == [view[v] EXCEPT !.pc = "cancel", !.counts = CountsOf(closed)]
  <2>5. row \in View BY <1>1, <2>3 DEF View, ViewPC
  <2>6. view' = [view EXCEPT ![v] = row] BY <2>1
  <2> HIDE DEF row, closed
  <2>7. view' \in [Views -> View] BY <2>5, <2>6, <1>1, SetView
  <2>8. /\ task' \in [Tasks -> TaskRow]
        /\ task'[t].status = task[t].status /\ task'[t].kind = task[t].kind
        /\ task'[t].cancel = task[t].cancel
        /\ \A u \in Tasks \ {t} : task'[u] = task[u]
    BY <2>1, <2>3, <1>1, SetCounts
  <2>9. /\ result' \in [Tasks -> [Hosts -> Progress]] /\ result'[t] = closed
        /\ \A u \in Tasks \ {t} : result'[u] = result[u]
    BY <2>1, <2>2, <1>1, SetResults
  <2>10. TypeOK' BY <2>7, <2>8, <2>9, <1>1, <1>2 DEF TypeOK, past
  <2>11. Nudged(t) BY <2>4, <2>8, <2>9, <1>2 DEF Nudged, past
  <2>12. ASSUME NEW u \in Tasks \ {t} PROVE Nudged(u)
    BY <2>8, <2>9, <1>2 DEF Nudged, past
  <2> QED BY <2>10, <2>11, <2>12, AllNudged
<1> QED BY <1>3, <1>4

LEMMA MarkTasksStep ==
  ASSUME Inv, NEW v \in Views, MarkTasks(v)
  PROVE  Inv'
<1>1. TypeOK /\ view[v] \in View BY DEF Inv, TypeOK
<1>2. UNCHANGED <<result, item, hosts, runner, job, checked, crashes, past>>
  BY DEF MarkTasks
<1>3. ASSUME NEW t \in Tasks
      PROVE  /\ task'[t] \in TaskRow
             /\ \/ task'[t] = task[t]
                \/ /\ Exists(t) /\ task'[t].kind = task[t].kind
                   /\ task'[t].cancel = task[t].cancel /\ task'[t].status = "failed"
  <2>1. task[t] \in TaskRow BY <1>1 DEF TypeOK
  <2>2. task'[t] = IF t \in view[v].ids /\ Exists(t)
                     THEN [task[t] EXCEPT !.status = "failed"] ELSE task[t]
    BY DEF MarkTasks
  <2> QED BY <2>1, <2>2 DEF TaskRow, Status
<1>4. task' \in [Tasks -> TaskRow]
  <2>1. task' = [t \in Tasks |-> task'[t]] BY DEF MarkTasks
  <2> QED BY <2>1, <1>3
<1>5. view' \in [Views -> View]
  <2> DEFINE row == [view[v] EXCEPT !.pc = "markresults"]
  <2>1. row \in View BY <1>1 DEF View, ViewPC
  <2>2. view' = [view EXCEPT ![v] = row] BY DEF MarkTasks
  <2> HIDE DEF row
  <2> QED BY <2>1, <2>2, <1>1, SetView
<1>6. TypeOK' BY <1>1, <1>2, <1>4, <1>5 DEF TypeOK, past
<1>7. ASSUME NEW t \in Tasks PROVE Nudged(t)
  BY <1>2, <1>3 DEF Nudged, Exists, past
<1> QED BY <1>6, <1>7, AllNudged

LEMMA MarkResultsStep ==
  ASSUME Inv, NEW v \in Views, MarkResults(v)
  PROVE  Inv'
<1>1. TypeOK BY DEF Inv
<1>2. Respond(v) /\ checked' = TRUE /\ UNCHANGED <<task, item, hosts, runner, job, crashes, past>>
  BY DEF MarkResults
<1>3. ASSUME NEW t \in Tasks
      PROVE  /\ result'[t] \in [Hosts -> Progress]
             /\ \A h \in Hosts : \/ result'[t][h] = result[t][h]
                                 \/ result[t][h] \in Unfinished /\ result'[t][h] = "failed"
  <2>1. result[t] \in [Hosts -> Progress] BY <1>1 DEF TypeOK
  <2>2. result'[t] = IF t \in view[v].ids THEN Marked(result[t], {"running"}, "failed")
                                          ELSE result[t]
    BY DEF MarkResults
  <2>3. Marked(result[t], {"running"}, "failed") \in [Hosts -> Progress]
    BY <2>1, MarkedTyped DEF Progress, Final
  <2> QED BY <2>1, <2>2, <2>3 DEF Marked, Unfinished
<1>4. result' \in [Tasks -> [Hosts -> Progress]]
  <2>1. result' = [t \in Tasks |-> result'[t]] BY DEF MarkResults
  <2> QED BY <2>1, <1>3
<1>5. TypeOK' BY <1>1, <1>2, <1>4, RespondTyped DEF TypeOK, past
<1>6. ASSUME NEW t \in Tasks PROVE Nudged(t)
  BY <1>2, <1>3 DEF Nudged, past
<1> QED BY <1>5, <1>6, AllNudged

LEMMA RemoveHostStep ==
  ASSUME Inv, NEW h \in Hosts, RemoveHost(h)
  PROVE  Inv'
<1>1. hosts' \subseteq hosts /\ UNCHANGED <<rows, runner, job, view, checked, crashes, past>>
  BY DEF RemoveHost
<1>2. TypeOK' BY <1>1 DEF Inv, TypeOK, rows, past
<1>3. ASSUME NEW t \in Tasks PROVE Nudged(t)
  BY <1>1 DEF Nudged, rows, past
<1> QED BY <1>2, <1>3, AllNudged
-----------------------------------------------------------------------------
(* Rows created and deleted, the process stopped. *)

LEMMA OneTask ==
  ASSUME Inv, TypeOK', NEW t \in Tasks, OnlyOn(t), TaskInv(t)'
  PROVE  Inv'
<1>1. ASSUME NEW u \in Tasks \ {t} PROVE TaskInv(u)'
  <2>1. Nudged(u) BY SameNudged DEF OnlyOn
  <2> QED BY <2>1, NudgeKeeps DEF Inv
<1> QED BY <1>1 DEF Inv

LEMMA LimitsKeep ==
  ASSUME NEW t \in Tasks, Limits(t), job'[t] = job[t], late'[t] = late[t],
         task[t].cancel => task'[t].cancel
  PROVE  Limits(t)'
BY DEF Limits, Working

LEMMA CreateStep ==
  ASSUME Inv, NEW t \in Tasks, NEW kind \in TaskKinds, Create(t, kind)
  PROVE  Inv'
<1>1. TypeOK /\ TaskInv(t) /\ kind \in {"shell", "upload"} BY BulkAssumption DEF Inv
<1>2. /\ task[t].status = "none" /\ RunnerTo(t, "start")
      /\ UNCHANGED <<hosts, job, view, checked, crashes, past>>
  BY DEF Create
<1>3. runner[t] = NoRunner /\ runner[t].pc = "none" /\ ~task[t].cancel
  BY <1>1, <1>2 DEF TaskInv, Lives
<1> DEFINE row == [NoTask EXCEPT !.status = "queued", !.kind = kind]
           res == [h \in Hosts |-> IF h \in hosts THEN "pending" ELSE "none"]
<1>4. /\ row \in TaskRow /\ row.status = "queued" /\ ~row.cancel
  <2>1. NoCounts \in [Final -> 0 .. Cardinality(Hosts)]
    BY BulkAssumption, FS_CardinalityType DEF NoCounts
  <2> QED BY <2>1, <1>1 DEF NoTask, TaskRow, Status
<1>5. /\ task' = [task EXCEPT ![t] = row] /\ result' = [result EXCEPT ![t] = res]
      /\ \/ item' = item
         \/ item' = [item EXCEPT ![t] = [f \in Files |-> result'[t]]]
  BY DEF Create
<1>6. res \in [Hosts -> Progress] BY DEF Progress, Unfinished
<1> HIDE DEF row, res
<1>7. /\ task' \in [Tasks -> TaskRow] /\ task'[t] = row
      /\ \A u \in Tasks \ {t} : task'[u] = task[u]
  BY <1>1, <1>4, <1>5, SetTask
<1>8. /\ result' \in [Tasks -> [Hosts -> Progress]] /\ result'[t] = res
      /\ \A u \in Tasks \ {t} : result'[u] = result[u]
  BY <1>1, <1>5, <1>6, SetResults
<1>9. /\ item' \in [Tasks -> [Files -> [Hosts -> Progress]]]
      /\ \A u \in Tasks \ {t} : item'[u] = item[u]
  <2>1. [f \in Files |-> result'[t]] \in [Files -> [Hosts -> Progress]] BY <1>6, <1>8
  <2> QED BY <2>1, <1>1, <1>5, SetItems DEF TypeOK
<1>10. /\ runner' \in [Tasks -> Runner]
       /\ runner'[t].pc = "start" /\ runner'[t].verdict = "none"
       /\ runner'[t].targets = {}
       /\ \A u \in Tasks \ {t} : runner'[u] = runner[u]
  <2>1. "start" \in RunnerPC BY DEF RunnerPC
  <2> QED BY <2>1, <1>1, <1>2, <1>3, SetRunnerPC DEF NoRunner
<1>11. TypeOK' BY <1>1, <1>2, <1>7, <1>8, <1>9, <1>10 DEF TypeOK, past
<1>12. OnlyOn(t) BY <1>2, <1>7, <1>8, <1>9, <1>10 DEF OnlyOn, Same, past
<1>13. TaskInv(t)'
  <2>1. Lives(t)' BY <1>4, <1>7, <1>10 DEF Lives
  <2>2. Vanished(t)' BY <1>4, <1>7 DEF Vanished, Exists
  <2>3. AtPlace(t)' BY <1>10 DEF AtPlace
  <2>4. JobsInPool(t)' BY <1>1, <1>2, <1>3 DEF TaskInv, JobsInPool
  <2>5. TargetsAreAll(t)' BY <1>10 DEF TargetsAreAll
  <2>6. Handled(t)' BY <1>10 DEF Handled
  <2>7. Verdicts(t)' BY <1>4, <1>7, <1>10 DEF Verdicts
  <2>8. Closed(t)' BY <1>10 DEF Closed
  <2>9. Limits(t)' BY <1>1, <1>2, <1>3, LimitsKeep DEF TaskInv, past
  <2> QED BY <2>1, <2>2, <2>3, <2>4, <2>5, <2>6, <2>7, <2>8, <2>9 DEF TaskInv
<1> QED BY <1>11, <1>12, <1>13, OneTask

LEMMA DeleteStep ==
  ASSUME Inv, NEW t \in Tasks, Delete(t)
  PROVE  Inv'
<1> DEFINE none == [h \in Hosts |-> "none"]
<1>1. TypeOK /\ TaskInv(t) BY DEF Inv
<1>2. /\ Exists(t) /\ task' = [task EXCEPT ![t].status = "deleted"]
      /\ result' = [result EXCEPT ![t] = none]
      /\ item' = [item EXCEPT ![t] = [f \in Files |-> none]]
      /\ UNCHANGED <<hosts, runner, job, view, checked, crashes, past>>
  BY DEF Delete
<1>3. none \in [Hosts -> Progress] BY DEF Progress
<1>4. /\ task' \in [Tasks -> TaskRow]
      /\ task'[t].status = "deleted" /\ task'[t].kind = task[t].kind
      /\ task'[t].cancel = task[t].cancel
      /\ \A u \in Tasks \ {t} : task'[u] = task[u]
  BY <1>1, <1>2, SetStatus DEF Status
<1>5. /\ result' \in [Tasks -> [Hosts -> Progress]] /\ \A h \in Hosts : result'[t][h] = "none"
      /\ \A u \in Tasks \ {t} : result'[u] = result[u]
  BY <1>1, <1>2, <1>3, SetResults
<1>6. /\ item' \in [Tasks -> [Files -> [Hosts -> Progress]]]
      /\ \A h \in Hosts, f \in Files : item'[t][f][h] = "none"
      /\ \A u \in Tasks \ {t} : item'[u] = item[u]
  BY <1>1, <1>2, <1>3, SetItems
<1>7. TypeOK' BY <1>1, <1>2, <1>4, <1>5, <1>6 DEF TypeOK, past
<1>8. OnlyOn(t) BY <1>2, <1>4, <1>5, <1>6 DEF OnlyOn, Same, past
<1>9. ~Exists(t)' BY <1>4 DEF Exists
<1>10. TaskInv(t)'
  <2>1. Lives(t)' BY <1>1, <1>2, <1>4 DEF TaskInv, Lives, Exists
  <2>2. Vanished(t)' BY <1>5, <1>6 DEF Vanished
  <2>3. AtPlace(t)' BY <1>1, <1>2, <1>4, <1>9 DEF TaskInv, AtPlace, IsUpload
  <2>4. JobsInPool(t)' BY <1>1, <1>2, <1>9 DEF TaskInv, JobsInPool, past
  <2>5. TargetsAreAll(t)' BY <1>1, <1>2, <1>5 DEF TargetsAreAll, TypeOK
  <2>6. Handled(t)' BY <1>9 DEF Handled, Going
  <2>7. Verdicts(t)' BY <1>4, <1>5 DEF Verdicts, DoneAll
  <2>8. Closed(t)' BY <1>5, <1>6 DEF Closed, Unfinished
  <2>9. Limits(t)' BY <1>1, <1>2, <1>4, LimitsKeep DEF TaskInv, past
  <2> QED BY <2>1, <2>2, <2>3, <2>4, <2>5, <2>6, <2>7, <2>8, <2>9 DEF TaskInv
<1> QED BY <1>7, <1>8, <1>10, OneTask

LEMMA RestartStep ==
  ASSUME Inv, Restart
  PROVE  Inv'
<1>1. TypeOK BY DEF Inv
<1>2. /\ crashes < MaxCrashes /\ crashes' = crashes + 1 /\ checked' = FALSE
      /\ UNCHANGED <<rows, hosts, past>>
      /\ view' = [v \in Views |-> Ready]
      /\ job' = [t \in Tasks |-> [h \in Hosts |-> "idle"]]
  BY DEF Restart
<1>3. ASSUME NEW t \in Tasks
      PROVE  /\ runner'[t] \in Runner
             /\ runner'[t].pc \in {"none", "over", "lost"}
             /\ runner'[t].targets = runner[t].targets
             /\ runner'[t].verdict = runner[t].verdict
             /\ runner'[t].pc = "none" <=> runner[t].pc = "none"
             /\ runner'[t].pc = "over" => runner[t].pc = "over"
             /\ runner'[t].pc = "none" => runner'[t] = runner[t]
  <2>1. runner[t] \in Runner BY <1>1 DEF TypeOK
  <2>2. runner'[t] = IF runner[t].pc \in {"none", "over"}
                       THEN runner[t] ELSE [runner[t] EXCEPT !.pc = "lost"]
    BY DEF Restart
  <2> QED BY <2>1, <2>2 DEF Runner, RunnerPC
<1>4. TypeOK'
  <2>1. runner' = [t \in Tasks |-> runner'[t]] BY DEF Restart
  <2>2. runner' \in [Tasks -> Runner] BY <2>1, <1>3
  <2>3. Ready \in View
    BY BulkAssumption, FS_CardinalityType DEF Ready, View, ViewPC, NoCounts
  <2>4. job' \in [Tasks -> [Hosts -> JobPC]] BY <1>2 DEF JobPC
  <2>5. crashes' \in 0 .. MaxCrashes BY <1>1, <1>2, BulkAssumption DEF TypeOK
  <2> QED BY <2>2, <2>3, <2>4, <2>5, <1>1, <1>2 DEF TypeOK, rows, past
<1>5. ASSUME NEW t \in Tasks PROVE TaskInv(t)'
  <2>1. TaskInv(t) BY DEF Inv
  <2>2. Exists(t)' <=> Exists(t) BY <1>2 DEF Exists, rows
  <2>3. Lives(t)' BY <2>1, <1>2, <1>3 DEF TaskInv, Lives, rows
  <2>4. Vanished(t)' BY <2>1, <2>2, <1>2 DEF TaskInv, Vanished, rows
  <2>5. AtPlace(t)' BY <1>3 DEF AtPlace
  <2>6. JobsInPool(t)' BY <1>2 DEF JobsInPool
  <2>7. TargetsAreAll(t)' BY <1>3 DEF TargetsAreAll
  <2>8. Handled(t)' BY <1>3 DEF Handled
  <2>9. Verdicts(t)'
    BY <2>1, <1>2, <1>3 DEF TaskInv, Verdicts, DoneAll, FilesOf, IsUpload, rows, past
  <2>10. Closed(t)' BY <2>1, <1>2, <1>3 DEF TaskInv, Closed, rows
  <2>11. Limits(t)'
    <3>1. Working(t)' = {} BY <1>2 DEF Working
    <3>2. {h \in Hosts : job[t][h] \in {"begin", "exec"}}' = {} BY <1>2
    <3>3. Cardinality({}) = 0 BY FS_EmptySet
    <3>4. late[t] \in Nat /\ late'[t] = late[t] /\ task'[t].cancel = task[t].cancel
      BY <1>1, <1>2 DEF TypeOK, past, rows
    <3>5. Cardinality({h \in Hosts : job[t][h] \in {"begin", "exec"}}) \in Nat
      BY BulkAssumption, FS_Subset, FS_CardinalityType
    <3> QED BY <3>1, <3>2, <3>3, <3>4, <3>5, <2>1, BulkAssumption DEF TaskInv, Limits
  <2> QED BY <2>3, <2>4, <2>5, <2>6, <2>7, <2>8, <2>9, <2>10, <2>11 DEF TaskInv
<1> QED BY <1>4, <1>5 DEF Inv
-----------------------------------------------------------------------------
(* The runner. *)

LEMMA StartStep ==
  ASSUME Inv, NEW t \in Tasks, Start(t)
  PROVE  Inv'
<1>1. TypeOK /\ TaskInv(t) BY DEF Inv
<1>2. /\ runner[t].pc = "start" /\ runner[t].verdict = "none" /\ runner[t].targets = {}
      /\ UNCHANGED <<result, item, hosts, job, view, checked, crashes, past>>
  BY <1>1 DEF Start, RunnerAt, TaskInv, AtPlace
<1>3. /\ task' \in [Tasks -> TaskRow] /\ runner' \in [Tasks -> Runner]
      /\ \A u \in Tasks \ {t} : task'[u] = task[u] /\ runner'[u] = runner[u]
      /\ task'[t].kind = task[t].kind /\ task'[t].cancel = task[t].cancel
      /\ runner'[t].verdict = "none" /\ runner'[t].targets = {}
      /\ \/ /\ Exists(t) /\ task'[t].status = "running" /\ runner'[t].pc = "open"
         \/ /\ ~Exists(t) /\ task'[t] = task[t] /\ runner'[t].pc = "over"
  <2>1. "open" \in RunnerPC /\ "over" \in RunnerPC BY DEF RunnerPC
  <2>2. CASE Exists(t)
    <3>1. task' = [task EXCEPT ![t].status = "running"] /\ RunnerTo(t, "open")
      BY <2>2 DEF Start
    <3>2. /\ task' \in [Tasks -> TaskRow] /\ task'[t].status = "running"
          /\ task'[t].kind = task[t].kind /\ task'[t].cancel = task[t].cancel
          /\ \A u \in Tasks \ {t} : task'[u] = task[u]
      BY <3>1, <1>1, SetStatus DEF Status
    <3>3. /\ runner' \in [Tasks -> Runner] /\ runner'[t].pc = "open"
          /\ runner'[t].targets = {} /\ runner'[t].verdict = "none"
          /\ \A u \in Tasks \ {t} : runner'[u] = runner[u]
      BY <3>1, <2>1, <1>1, <1>2, SetRunnerPC
    <3> QED BY <3>2, <3>3, <2>2
  <2>3. CASE ~Exists(t)
    <3>1. UNCHANGED task /\ RunnerTo(t, "over") BY <2>3 DEF Start
    <3> QED BY <3>1, <2>1, <2>3, <1>1, <1>2, SetRunnerPC DEF TypeOK
  <2> QED BY <2>2, <2>3
<1>4. TypeOK' BY <1>1, <1>2, <1>3 DEF TypeOK, past
<1>5. OnlyOn(t) BY <1>2, <1>3 DEF OnlyOn, Same, past
<1>6. Exists(t)' <=> Exists(t) BY <1>3 DEF Exists
<1>7. TaskInv(t)'
  <2>1. Lives(t)' BY <1>1, <1>2, <1>3 DEF TaskInv, Lives
  <2>2. Vanished(t)' BY <1>1, <1>2, <1>6 DEF TaskInv, Vanished
  <2>3. AtPlace(t)' BY <1>3 DEF AtPlace
  <2>4. JobsInPool(t)' BY <1>1, <1>2, <1>6 DEF TaskInv, JobsInPool
  <2>5. TargetsAreAll(t)' BY <1>3 DEF TargetsAreAll
  <2>6. Handled(t)' BY <1>3 DEF Handled
  <2>7. Verdicts(t)' BY <1>1, <1>2, <1>3 DEF TaskInv, Verdicts
  <2>8. Closed(t)' BY <1>1, <1>2, <1>3 DEF TaskInv, Vanished, Closed, Unfinished
  <2>9. Limits(t)' BY <1>1, <1>2, <1>3, LimitsKeep DEF TaskInv, past
  <2> QED BY <2>1, <2>2, <2>3, <2>4, <2>5, <2>6, <2>7, <2>8, <2>9 DEF TaskInv
<1> QED BY <1>4, <1>5, <1>7, OneTask

\* No job is at work outside the pool.
LEMMA NoJobs ==
  ASSUME NEW t \in Tasks, TaskInv(t), runner[t].pc # "pool", job'[t] = job[t]
  PROVE  JobsInPool(t)' /\ \A h \in Hosts : job[t][h] = "idle"
BY DEF TaskInv, JobsInPool

LEMMA OpenStep ==
  ASSUME Inv, NEW t \in Tasks, Open(t)
  PROVE  Inv'
<1> DEFINE there == {h \in hosts : result[t][h] # "none"}
<1>1. TypeOK /\ TaskInv(t) /\ runner[t] \in Runner /\ task[t] \in TaskRow
      /\ result[t] \in [Hosts -> Progress] /\ hosts \subseteq Hosts
  BY DEF Inv, TypeOK
<1>2. /\ runner[t].pc = "open" /\ runner[t].verdict = "none" /\ runner[t].targets = {}
      /\ UNCHANGED <<task, item, hosts, job, view, checked, crashes, past>>
  BY <1>1 DEF Open, RunnerAt, TaskInv, AtPlace
<1>3. /\ runner' \in [Tasks -> Runner]
      /\ \A u \in Tasks \ {t} : runner'[u] = runner[u]
      /\ result' \in [Tasks -> [Hosts -> Progress]]
      /\ \A u \in Tasks \ {t} : result'[u] = result[u]
      /\ \A h \in Hosts : result'[t][h] = "none" <=> result[t][h] = "none"
      /\ \/ /\ runner'[t].pc = "close" /\ runner'[t].verdict = "failed"
            /\ runner'[t].targets = {}
            /\ \A h \in Hosts : result'[t][h] \notin Unfinished
         \/ /\ runner'[t].verdict = "none" /\ runner'[t].targets = there
            /\ runner'[t].file = 1 /\ runner'[t].pending \subseteq there
            /\ \/ IsUpload(t) /\ runner'[t].pc = "file"
               \/ ~IsUpload(t) /\ runner'[t].pc = "pool" /\ runner'[t].pending = there
  <2>1. CASE there = {}
    <3> DEFINE res == Marked(result[t], Unfinished, "skipped")
               r == [runner[t] EXCEPT !.pc = "close", !.verdict = "failed"]
    <3>1. /\ result' = [result EXCEPT ![t] = res]
          /\ runner' = [runner EXCEPT ![t] = r]
      BY <2>1 DEF Open
    <3>2. r \in Runner /\ r.pc = "close" /\ r.verdict = "failed" /\ r.targets = runner[t].targets
      BY <1>1 DEF Runner, RunnerPC, Status
    <3>3. res \in [Hosts -> Progress] BY <1>1, MarkedTyped DEF Progress, Final
    <3>4. \A h \in Hosts : /\ res[h] = "none" <=> result[t][h] = "none"
                           /\ res[h] \notin Unfinished
      BY DEF Marked, Unfinished
    <3> HIDE DEF res, r
    <3>5. /\ runner' \in [Tasks -> Runner] /\ runner'[t] = r
          /\ \A u \in Tasks \ {t} : runner'[u] = runner[u]
      BY <3>1, <3>2, <1>1, SetRunner
    <3>6. /\ result' \in [Tasks -> [Hosts -> Progress]] /\ result'[t] = res
          /\ \A u \in Tasks \ {t} : result'[u] = result[u]
      BY <3>1, <3>3, <1>1, SetResults
    <3> QED BY <3>2, <3>4, <3>5, <3>6, <1>2
  <2>2. CASE there # {}
    <3> DEFINE skipped == [h \in Hosts |-> IF result[t][h] # "none" /\ h \notin there
                                             THEN "skipped" ELSE result[t][h]]
               res == IF IsUpload(t) THEN result[t] ELSE skipped
               r == [runner[t] EXCEPT !.targets = there, !.file = 1,
                       !.pending = IF IsUpload(t) THEN {} ELSE there,
                       !.pc = IF IsUpload(t) THEN "file" ELSE "pool"]
    <3>1. result' = [result EXCEPT ![t] = res]
      <4>1. CASE IsUpload(t) BY <4>1, <2>2, <1>1 DEF Open, TypeOK
      <4>2. CASE ~IsUpload(t) BY <4>2, <2>2 DEF Open
      <4> QED BY <4>1, <4>2
    <3>2. runner' = [runner EXCEPT ![t] = r] BY <2>2 DEF Open
    <3>3. /\ r \in Runner /\ r.verdict = runner[t].verdict /\ r.targets = there /\ r.file = 1
          /\ r.pending \subseteq there
          /\ \/ IsUpload(t) /\ r.pc = "file"
             \/ ~IsUpload(t) /\ r.pc = "pool" /\ r.pending = there
      <4>1. there \in SUBSET Hosts /\ 1 \in 0 .. MaxFiles BY <1>1, BulkAssumption
      <4> HIDE DEF there
      <4>2. {} \in SUBSET Hosts OBVIOUS
      <4> QED BY <4>1, <4>2, <1>1 DEF Runner, RunnerPC
    <3>4. /\ res \in [Hosts -> Progress]
          /\ \A h \in Hosts : res[h] = "none" <=> result[t][h] = "none"
      BY <1>1 DEF Progress, Final
    <3> HIDE DEF res, r, there
    <3>5. /\ runner' \in [Tasks -> Runner] /\ runner'[t] = r
          /\ \A u \in Tasks \ {t} : runner'[u] = runner[u]
      BY <3>2, <3>3, <1>1, SetRunner
    <3>6. /\ result' \in [Tasks -> [Hosts -> Progress]] /\ result'[t] = res
          /\ \A u \in Tasks \ {t} : result'[u] = result[u]
      BY <3>1, <3>4, <1>1, SetResults
    <3> QED BY <3>3, <3>4, <3>5, <3>6, <1>2
  <2> QED BY <2>1, <2>2
<1>4. TypeOK' BY <1>1, <1>2, <1>3 DEF TypeOK, past
<1>5. OnlyOn(t) BY <1>2, <1>3 DEF OnlyOn, Same, past
<1>6. TaskInv(t)'
  <2>1. Lives(t)' BY <1>1, <1>2, <1>3 DEF TaskInv, Lives
  <2>2. Vanished(t)' BY <1>1, <1>2, <1>3 DEF TaskInv, Vanished, Exists
  <2>3. AtPlace(t)' BY <1>2, <1>3, BulkAssumption DEF AtPlace, IsUpload, Files
  <2>4. JobsInPool(t)' BY <1>1, <1>2, NoJobs
  <2>5. TargetsAreAll(t)' BY <1>1, <1>2, <1>3 DEF TargetsAreAll
  <2>6. Handled(t)' BY <1>3 DEF Handled, Files
  <2>7. Verdicts(t)' BY <1>1, <1>2, <1>3 DEF TaskInv, Verdicts
  <2>8. Closed(t)' BY <1>3 DEF Closed
  <2>9. Limits(t)' BY <1>1, <1>2, LimitsKeep DEF TaskInv, past
  <2> QED BY <2>1, <2>2, <2>3, <2>4, <2>5, <2>6, <2>7, <2>8, <2>9 DEF TaskInv
<1> QED BY <1>4, <1>5, <1>6, OneTask

LEMMA OpenFileStep ==
  ASSUME Inv, NEW t \in Tasks, OpenFile(t)
  PROVE  Inv'
<1> DEFINE f == runner[t].file
           skipped == [h \in Hosts |-> IF item[t][f][h] # "none" /\ h \notin runner[t].targets
                                         THEN "skipped" ELSE item[t][f][h]]
<1>1. TypeOK /\ TaskInv(t) /\ runner[t] \in Runner /\ task[t] \in TaskRow
      /\ item[t] \in [Files -> [Hosts -> Progress]]
  BY DEF Inv, TypeOK
<1>2. /\ runner[t].pc = "file" /\ runner[t].verdict = "none" /\ f \in Files /\ IsUpload(t)
      /\ UNCHANGED <<task, result, hosts, job, view, checked, crashes, past>>
  BY <1>1 DEF OpenFile, RunnerAt, TaskInv, AtPlace
<1>3. /\ runner' \in [Tasks -> Runner]
      /\ \A u \in Tasks \ {t} : runner'[u] = runner[u]
      /\ item' \in [Tasks -> [Files -> [Hosts -> Progress]]]
      /\ \A u \in Tasks \ {t} : item'[u] = item[u]
      /\ \A g \in Files \ {f} : item'[t][g] = item[t][g]
      /\ \A h \in Hosts : item[t][f][h] = "none" => item'[t][f][h] = "none"
      /\ runner'[t].verdict = "none" /\ runner'[t].targets = runner[t].targets
      /\ runner'[t].file = f
      /\ \/ runner'[t].pc = "judge" /\ runner'[t].canceled
         \/ /\ runner'[t].pc = "pool" /\ (Exists(t) => runner[t].targets \subseteq runner'[t].pending)
            /\ runner'[t].canceled = runner[t].canceled
            /\ runner'[t].pending \subseteq runner[t].targets
  <2>1. CASE CancelRequested(t)
    <3> DEFINE r == [runner[t] EXCEPT !.pc = "judge", !.canceled = TRUE]
    <3>1. runner' = [runner EXCEPT ![t] = r] /\ item' = item BY <2>1 DEF OpenFile
    <3>2. /\ r \in Runner /\ r.pc = "judge" /\ r.verdict = runner[t].verdict /\ r.canceled
          /\ r.targets = runner[t].targets /\ r.file = f
      BY <1>1 DEF Runner, RunnerPC
    <3> HIDE DEF r
    <3>3. /\ runner' \in [Tasks -> Runner] /\ runner'[t] = r
          /\ \A u \in Tasks \ {t} : runner'[u] = runner[u]
      BY <3>1, <3>2, <1>1, SetRunner
    <3>4. item' \in [Tasks -> [Files -> [Hosts -> Progress]]] BY <3>1, <1>1 DEF TypeOK
    <3> QED BY <3>1, <3>2, <3>3, <3>4, <1>2
  <2>2. CASE ~CancelRequested(t)
    <3> DEFINE r == [runner[t] EXCEPT !.pc = "pool",
                       !.pending = IF Exists(t) THEN @ \cup runner[t].targets ELSE @]
    <3>1. runner' = [runner EXCEPT ![t] = r] /\ item' = [item EXCEPT ![t][f] = skipped]
      BY <2>2 DEF OpenFile
    <3>2. /\ r \in Runner /\ r.pc = "pool" /\ r.verdict = runner[t].verdict
          /\ r.canceled = runner[t].canceled
          /\ r.targets = runner[t].targets /\ r.file = f
          /\ Exists(t) => runner[t].targets \subseteq r.pending
          /\ r.pending \subseteq runner[t].targets
      BY <1>1, <1>2 DEF Runner, RunnerPC, TaskInv, AtPlace
    <3>3. /\ skipped \in [Hosts -> Progress]
          /\ \A h \in Hosts : item[t][f][h] = "none" => skipped[h] = "none"
      BY <1>1, <1>2 DEF Progress, Final
    <3> HIDE DEF r, skipped, f
    <3>4. /\ runner' \in [Tasks -> Runner] /\ runner'[t] = r
          /\ \A u \in Tasks \ {t} : runner'[u] = runner[u]
      BY <3>1, <3>2, <1>1, SetRunner
    <3>5. /\ item' \in [Tasks -> [Files -> [Hosts -> Progress]]] /\ item'[t][f] = skipped
          /\ \A g \in Files \ {f} : item'[t][g] = item[t][g]
          /\ \A u \in Tasks \ {t} : item'[u] = item[u]
      BY <3>1, <3>3, <1>1, <1>2, SetFileItems
    <3> QED BY <3>2, <3>3, <3>4, <3>5, <1>2
  <2> QED BY <2>1, <2>2
<1> HIDE DEF skipped
<1>4. TypeOK' BY <1>1, <1>2, <1>3 DEF TypeOK, past
<1>5. OnlyOn(t) BY <1>2, <1>3 DEF OnlyOn, Same, past
<1>6. TaskInv(t)'
  <2>1. Lives(t)' BY <1>1, <1>2, <1>3 DEF TaskInv, Lives
  <2>2. Vanished(t)'
    <3>1. \A g \in Files, h \in Hosts : item[t][g][h] = "none" => item'[t][g][h] = "none"
      BY <1>2, <1>3
    <3>2. Exists(t)' <=> Exists(t) BY <1>2 DEF Exists
    <3> QED BY <3>1, <3>2, <1>1, <1>2 DEF TaskInv, Vanished
  <2>3. AtPlace(t)' BY <1>2, <1>3 DEF AtPlace, IsUpload
  <2>4. JobsInPool(t)' BY <1>1, <1>2, NoJobs
  <2>5. TargetsAreAll(t)' BY <1>1, <1>2, <1>3 DEF TaskInv, TargetsAreAll
  <2>6. Handled(t)'
    <3>1. SUFFICES ASSUME Going(t)' PROVE Handled(t)' BY DEF Handled
    <3>2. runner'[t].pc = "pool" /\ Going(t) /\ runner[t].targets \subseteq runner'[t].pending
      BY <3>1, <1>2, <1>3 DEF Going, Exists
    <3>3. \A g \in Files, h \in runner[t].targets : g < f => DoneOn(t, g, h)
      BY <3>2, <1>1, <1>2 DEF TaskInv, Handled
    <3>4. \A g \in Files, h \in runner[t].targets : g < f => DoneOn(t, g, h)'
      <4>1. /\ hosts' = hosts /\ effect' = effect /\ result' = result
            /\ IsUpload(t)' <=> IsUpload(t)
        BY <1>2 DEF past, IsUpload
      <4>2. \A g \in Files : g < f => item'[t][g] = item[t][g] BY <1>2, <1>3 DEF Files
      <4> QED BY <3>3, <4>1, <4>2 DEF DoneOn
    <3> QED BY <3>2, <3>4, <1>3 DEF Handled
  <2>7. Verdicts(t)' BY <1>1, <1>2, <1>3 DEF TaskInv, Verdicts
  <2>8. Closed(t)' BY <1>3 DEF Closed
  <2>9. Limits(t)' BY <1>1, <1>2, LimitsKeep DEF TaskInv, past
  <2> QED BY <2>1, <2>2, <2>3, <2>4, <2>5, <2>6, <2>7, <2>8, <2>9 DEF TaskInv
<1> QED BY <1>4, <1>5, <1>6, OneTask

\* The jobs of a task are finitely many.
LEMMA JobSets ==
  ASSUME NEW S \in SUBSET Hosts
  PROVE  /\ IsFiniteSet(S) /\ Cardinality(S) \in Nat
         /\ \A h \in Hosts : /\ Cardinality(S \cup {h}) <= Cardinality(S) + 1
                             /\ h \in S => Cardinality(S \ {h}) = Cardinality(S) - 1
         /\ \A T \in SUBSET S : Cardinality(T) <= Cardinality(S)
<1>1. IsFiniteSet(S) BY BulkAssumption, FS_Subset
<1>2. Cardinality(S) \in Nat BY <1>1, FS_CardinalityType
<1>3. ASSUME NEW h \in Hosts
      PROVE  /\ Cardinality(S \cup {h}) <= Cardinality(S) + 1
             /\ h \in S => Cardinality(S \ {h}) = Cardinality(S) - 1
  BY <1>1, <1>2, FS_AddElement, FS_RemoveElement
<1>4. \A T \in SUBSET S : Cardinality(T) <= Cardinality(S) BY <1>1, FS_Subset
<1> QED BY <1>1, <1>2, <1>3, <1>4

LEMMA SubmitStep ==
  ASSUME Inv, NEW t \in Tasks, NEW h \in Hosts, Submit(t, h)
  PROVE  Inv'
<1>1. TypeOK /\ TaskInv(t) /\ runner[t] \in Runner BY DEF Inv, TypeOK
<1>2. /\ runner[t].pc = "pool" /\ h \in runner[t].pending
      /\ Cardinality(Working(t)) < Width(t) /\ JobTo(t, h, "check")
      /\ UNCHANGED <<rows, hosts, view, checked, crashes, past>>
  BY DEF Submit, RunnerAt
<1>3. /\ runner' \in [Tasks -> Runner]
      /\ runner'[t].pc = "pool" /\ runner'[t].targets = runner[t].targets
      /\ runner'[t].file = runner[t].file /\ runner'[t].pending = runner[t].pending \ {h}
      /\ runner'[t].canceled = runner[t].canceled
      /\ runner'[t].verdict = runner[t].verdict
      /\ \A u \in Tasks \ {t} : runner'[u] = runner[u]
  <2> DEFINE r == [runner[t] EXCEPT !.pending = @ \ {h}]
  <2>1. runner' = [runner EXCEPT ![t] = r] BY DEF Submit
  <2>2. /\ r \in Runner /\ r.pc = runner[t].pc /\ r.targets = runner[t].targets
        /\ r.file = runner[t].file /\ r.pending = runner[t].pending \ {h}
        /\ r.canceled = runner[t].canceled /\ r.verdict = runner[t].verdict
    BY <1>1 DEF Runner
  <2> HIDE DEF r
  <2> QED BY <2>1, <2>2, <1>1, <1>2, SetRunner
<1>4. /\ job' \in [Tasks -> [Hosts -> JobPC]] /\ job'[t][h] = "check"
      /\ \A k \in Hosts \ {h} : job'[t][k] = job[t][k]
      /\ \A u \in Tasks \ {t} : job'[u] = job[u]
  <2>1. "check" \in JobPC BY DEF JobPC
  <2> QED BY <2>1, <1>1, <1>2, SetJob
<1>5. TypeOK' BY <1>1, <1>2, <1>3, <1>4 DEF TypeOK, rows, past
<1>6. OnlyOn(t) BY <1>2, <1>3, <1>4 DEF OnlyOn, Same, rows, past
<1>7. TaskInv(t)'
  <2>1. Lives(t)' BY <1>1, <1>2, <1>3 DEF TaskInv, Lives, rows
  <2>2. Vanished(t)' BY <1>1, <1>2 DEF TaskInv, Vanished, Exists, rows
  <2>3. AtPlace(t)' BY <1>1, <1>2, <1>3 DEF TaskInv, AtPlace, IsUpload, Exists, rows
  <2>4. JobsInPool(t)'
    <3>1. h \in runner[t].targets BY <1>1, <1>2 DEF TaskInv, AtPlace
    <3>2. \A k \in Hosts \ {h} : /\ job[t][k] # "idle" => k \in runner[t].targets
                                 /\ job[t][k] = "raised" => ~Exists(t)
                                 /\ job[t][k] = "won" => k \in effect[t][runner[t].file]
      BY <1>1 DEF TaskInv, JobsInPool
    <3>3. Exists(t)' <=> Exists(t) BY <1>2 DEF Exists, rows
    <3>4. effect' = effect BY <1>2 DEF past
    <3> QED BY <3>1, <3>2, <3>3, <3>4, <1>3, <1>4 DEF JobsInPool
  <2>5. TargetsAreAll(t)' BY <1>1, <1>2, <1>3 DEF TaskInv, TargetsAreAll, rows
  <2>6. Handled(t)'
    <3>1. SUFFICES ASSUME Going(t)' PROVE Handled(t)' BY DEF Handled
    <3>2. Going(t) BY <3>1, <1>2, <1>3 DEF Going, Exists, rows
    <3>3. \A k \in Hosts : \A f : DoneOn(t, f, k) => DoneOn(t, f, k)'
      BY <1>2 DEF DoneOn, IsUpload, rows, past
    <3>4. runner[t].targets \subseteq Hosts BY <1>1 DEF Runner
    <3>5. \A f \in Files, k \in runner[t].targets : f < runner[t].file => DoneOn(t, f, k)'
      BY <3>2, <3>3, <3>4, <1>1, <1>2 DEF TaskInv, Handled
    <3>6. \A k \in runner[t].targets \ runner'[t].pending :
            job'[t][k] \in {"idle", "done"} => DoneOn(t, runner[t].file, k)'
      BY <3>2, <3>3, <3>4, <1>1, <1>2, <1>3, <1>4 DEF TaskInv, Handled
    <3> QED BY <3>5, <3>6, <1>3 DEF Handled
  <2>7. Verdicts(t)'
    BY <1>1, <1>2, <1>3 DEF TaskInv, Verdicts, DoneAll, FilesOf, IsUpload, rows, past
  <2>8. Closed(t)' BY <1>3 DEF Closed
  <2>9. Limits(t)'
    <3> DEFINE A == {k \in Hosts : job[t][k] \in {"begin", "exec"}}
               B == {k \in Hosts : job'[t][k] \in {"begin", "exec"}}
    <3>1. B \subseteq A BY <1>4
    <3>2. Working(t)' = Working(t) \cup {h} BY <1>4 DEF Working
    <3>3. Working(t) \in SUBSET Hosts /\ A \in SUBSET Hosts BY DEF Working
    <3>4. Cardinality(B) <= Cardinality(A) BY <3>1, <3>3, JobSets
    <3>5. Cardinality(A) \in Nat /\ Cardinality(B) \in Nat /\ Cardinality(Working(t)) \in Nat
      BY <3>1, <3>3, JobSets
    <3>6. Width(t) <= Forks /\ Width(t) \in Nat
      BY <1>1, BulkAssumption, JobSets DEF Width, Runner
    <3>7. Cardinality(Working(t)') <= Cardinality(Working(t)) + 1 BY <3>2, <3>3, JobSets
    <3>8. Cardinality(Working(t)') \in Nat
      <4>1. Working(t)' \in SUBSET Hosts BY <3>2, <3>3
      <4> QED BY <4>1, JobSets
    <3>9. Cardinality(Working(t)') <= Forks BY <3>5, <3>6, <3>7, <3>8, <1>2, BulkAssumption
    <3>10. late[t] \in Nat /\ late[t] + Cardinality(A) <= Forks
      BY <1>1 DEF TaskInv, Limits, TypeOK
    <3>11. late'[t] + Cardinality(B) <= Forks BY <3>4, <3>5, <3>10, <1>2, BulkAssumption DEF past
    <3> QED BY <3>9, <3>11, <1>1, <1>2 DEF TaskInv, Limits, rows, past
  <2> QED BY <2>1, <2>2, <2>3, <2>4, <2>5, <2>6, <2>7, <2>8, <2>9 DEF TaskInv
<1> QED BY <1>5, <1>6, <1>7, OneTask

LEMMA DropStep ==
  ASSUME Inv, NEW t \in Tasks, DropPending(t)
  PROVE  Inv'
<1> DEFINE f == runner[t].file
<1>1. /\ TypeOK /\ TaskInv(t) /\ runner[t] \in Runner /\ task[t] \in TaskRow
      /\ item[t] \in [Files -> [Hosts -> Progress]] /\ result[t] \in [Hosts -> Progress]
  BY DEF Inv, TypeOK
<1>2. /\ runner[t].pc = "pool" /\ f \in Files /\ Exists(t) /\ task[t].cancel
      /\ UNCHANGED <<task, hosts, job, view, checked, crashes, past>>
  BY <1>1 DEF DropPending, RunnerAt, CancelRequested, TaskInv, AtPlace
<1>3. /\ runner' \in [Tasks -> Runner]
      /\ \A u \in Tasks \ {t} : runner'[u] = runner[u]
      /\ runner'[t].pc = "pool" /\ runner'[t].file = f /\ runner'[t].pending = {}
      /\ runner'[t].targets = runner[t].targets /\ runner'[t].verdict = runner[t].verdict
  <2> DEFINE r == [runner[t] EXCEPT !.pending = {}, !.canceled = TRUE]
  <2>1. runner' = [runner EXCEPT ![t] = r] BY DEF DropPending
  <2>2. /\ r \in Runner /\ r.pc = runner[t].pc /\ r.file = f /\ r.pending = {}
        /\ r.targets = runner[t].targets /\ r.verdict = runner[t].verdict
    BY <1>1 DEF Runner
  <2> HIDE DEF r
  <2> QED BY <2>1, <2>2, <1>1, <1>2, SetRunner
<1>4. /\ item' \in [Tasks -> [Files -> [Hosts -> Progress]]]
      /\ \A u \in Tasks \ {t} : item'[u] = item[u]
      /\ result' \in [Tasks -> [Hosts -> Progress]]
      /\ \A u \in Tasks \ {t} : result'[u] = result[u]
      /\ \A h \in Hosts : result[t][h] = "none" => result'[t][h] = "none"
  <2>1. CASE IsUpload(t)
    <3> DEFINE i == [h \in Hosts |-> IF h \in runner[t].pending THEN "skipped"
                                                                ELSE item[t][f][h]]
    <3>1. item' = [item EXCEPT ![t][f] = i] /\ result' = result BY <2>1 DEF DropPending
    <3>2. i \in [Hosts -> Progress] BY <1>1, <1>2 DEF Progress, Final
    <3> HIDE DEF i, f
    <3>3. /\ item' \in [Tasks -> [Files -> [Hosts -> Progress]]]
          /\ \A u \in Tasks \ {t} : item'[u] = item[u]
      BY <3>1, <3>2, <1>1, <1>2, SetFileItems
    <3> QED BY <3>1, <3>3, <1>1 DEF TypeOK
  <2>2. CASE ~IsUpload(t)
    <3> DEFINE res == [h \in Hosts |-> IF h \in runner[t].pending /\ result[t][h] = "pending"
                                         THEN "skipped" ELSE result[t][h]]
    <3>1. result' = [result EXCEPT ![t] = res] /\ item' = item BY <2>2 DEF DropPending
    <3>2. /\ res \in [Hosts -> Progress]
          /\ \A h \in Hosts : result[t][h] = "none" => res[h] = "none"
      BY <1>1 DEF Progress, Final
    <3> HIDE DEF res
    <3>3. /\ result' \in [Tasks -> [Hosts -> Progress]] /\ result'[t] = res
          /\ \A u \in Tasks \ {t} : result'[u] = result[u]
      BY <3>1, <3>2, <1>1, SetResults
    <3> QED BY <3>1, <3>2, <3>3, <1>1 DEF TypeOK
  <2> QED BY <2>1, <2>2
<1>5. TypeOK' BY <1>1, <1>2, <1>3, <1>4 DEF TypeOK, past
<1>6. OnlyOn(t) BY <1>2, <1>3, <1>4 DEF OnlyOn, Same, past
<1>7. TaskInv(t)'
  <2>1. Lives(t)' BY <1>1, <1>2, <1>3 DEF TaskInv, Lives
  <2>2. Vanished(t)' BY <1>2 DEF Vanished, Exists
  <2>3. AtPlace(t)' BY <1>1, <1>2, <1>3 DEF TaskInv, AtPlace, IsUpload, Exists
  <2>4. JobsInPool(t)' BY <1>1, <1>2, <1>3 DEF TaskInv, JobsInPool, Exists, past
  <2>5. TargetsAreAll(t)'
    <3>1. hosts \subseteq Hosts BY <1>1 DEF TypeOK
    <3> QED BY <3>1, <1>1, <1>2, <1>3, <1>4 DEF TaskInv, TargetsAreAll
  <2>6. Handled(t)' BY <1>2 DEF Handled, Going
  <2>7. Verdicts(t)' BY <1>1, <1>2, <1>3 DEF TaskInv, AtPlace, Verdicts
  <2>8. Closed(t)' BY <1>3 DEF Closed
  <2>9. Limits(t)' BY <1>1, <1>2, LimitsKeep DEF TaskInv, past
  <2> QED BY <2>1, <2>2, <2>3, <2>4, <2>5, <2>6, <2>7, <2>8, <2>9 DEF TaskInv
<1> QED BY <1>5, <1>6, <1>7, OneTask

LEMMA ReapStep ==
  ASSUME Inv, NEW t \in Tasks, NEW h \in Hosts, Reap(t, h)
  PROVE  Inv'
<1> DEFINE stop == JobAt(t, h, "raised") /\ (~IsUpload(t) \/ Width(t) = 1)
           again == runner[t].canceled \/ JobAt(t, h, "canceled") \/ CancelRequested(t)
<1>1. /\ TypeOK /\ TaskInv(t) /\ runner[t] \in Runner /\ task[t] \in TaskRow
  BY DEF Inv, TypeOK
<1>2. /\ runner[t].pc = "pool" /\ job[t][h] \in Reapable /\ JobTo(t, h, "idle")
      /\ UNCHANGED <<rows, hosts, view, checked, crashes, past>>
  BY DEF Reap, RunnerAt
<1>3. stop => ~Exists(t) BY <1>1 DEF TaskInv, JobsInPool, JobAt
<1>4. /\ runner' \in [Tasks -> Runner]
      /\ runner'[t].pc = "pool" /\ runner'[t].targets = runner[t].targets
      /\ runner'[t].file = runner[t].file
      /\ runner'[t].canceled <=> again
      /\ \/ stop /\ runner'[t].verdict = "failed" /\ runner'[t].pending = {}
         \/ runner'[t].pending = runner[t].pending /\ runner'[t].verdict = runner[t].verdict
      /\ \A u \in Tasks \ {t} : runner'[u] = runner[u]
  <2> DEFINE r == [runner[t] EXCEPT !.canceled = again,
                     !.pending = IF stop THEN {} ELSE runner[t].pending,
                     !.verdict = IF stop THEN "failed" ELSE runner[t].verdict]
  <2>1. runner' = [runner EXCEPT ![t] = r] BY DEF Reap
  <2>2. again \in BOOLEAN BY <1>1 DEF CancelRequested, Exists, TaskRow, JobAt, Runner
  <2> HIDE DEF again, stop
  <2>3. /\ r \in Runner /\ r.pc = runner[t].pc /\ r.targets = runner[t].targets
        /\ r.file = runner[t].file /\ r.canceled = again
        /\ \/ stop /\ r.verdict = "failed" /\ r.pending = {}
           \/ r.pending = runner[t].pending /\ r.verdict = runner[t].verdict
    BY <1>1, <2>2 DEF Runner, Status
  <2> HIDE DEF r
  <2>4. /\ runner' \in [Tasks -> Runner] /\ runner'[t] = r
        /\ \A u \in Tasks \ {t} : runner'[u] = runner[u]
    BY <2>1, <2>3, <1>1, SetRunner
  <2> QED BY <2>3, <2>4, <1>2
<1>5. /\ job' \in [Tasks -> [Hosts -> JobPC]] /\ job'[t][h] = "idle"
      /\ \A k \in Hosts \ {h} : job'[t][k] = job[t][k]
      /\ \A u \in Tasks \ {t} : job'[u] = job[u]
  <2>1. "idle" \in JobPC BY DEF JobPC
  <2> QED BY <2>1, <1>1, <1>2, SetJob
<1>6. TypeOK' BY <1>1, <1>2, <1>4, <1>5 DEF TypeOK, rows, past
<1>7. OnlyOn(t) BY <1>2, <1>4, <1>5 DEF OnlyOn, Same, rows, past
<1>8. Exists(t)' <=> Exists(t) BY <1>2 DEF Exists, rows
<1>9. TaskInv(t)'
  <2>1. Lives(t)' BY <1>1, <1>2, <1>4 DEF TaskInv, Lives, rows
  <2>2. Vanished(t)' BY <1>1, <1>2, <1>8 DEF TaskInv, Vanished, rows
  <2>3. AtPlace(t)' BY <1>1, <1>2, <1>3, <1>4, <1>8 DEF TaskInv, AtPlace, IsUpload, rows
  <2>4. JobsInPool(t)' BY <1>1, <1>2, <1>4, <1>5, <1>8 DEF TaskInv, JobsInPool, past
  <2>5. TargetsAreAll(t)' BY <1>1, <1>2, <1>4 DEF TaskInv, TargetsAreAll, rows
  <2>6. Handled(t)'
    <3>1. SUFFICES ASSUME Going(t)' PROVE Handled(t)' BY DEF Handled
    <3>2. Exists(t) /\ ~task[t].cancel /\ ~again
      BY <3>1, <1>2, <1>4, <1>8 DEF Going, rows
    <3>3. Going(t) /\ job[t][h] = "done" /\ ~stop
      BY <3>2, <1>1, <1>2, <1>3 DEF Going, Reapable, JobAt, TaskInv, JobsInPool
    <3>4. \A k \in Hosts : \A f : DoneOn(t, f, k) => DoneOn(t, f, k)'
      BY <1>2 DEF DoneOn, IsUpload, rows, past
    <3>5. runner[t].targets \subseteq Hosts BY <1>1 DEF Runner
    <3>6. \A f \in Files, k \in runner[t].targets : f < runner[t].file => DoneOn(t, f, k)'
      BY <3>3, <3>4, <3>5, <1>1, <1>2 DEF TaskInv, Handled
    <3>7. \A k \in runner[t].targets \ runner'[t].pending :
            job'[t][k] \in {"idle", "done"} => DoneOn(t, runner[t].file, k)'
      BY <3>3, <3>4, <3>5, <1>1, <1>2, <1>4, <1>5 DEF TaskInv, Handled
    <3> QED BY <3>6, <3>7, <1>4 DEF Handled
  <2>7. Verdicts(t)'
    <3>1. runner[t].verdict # "completed" /\ task[t].status # "completed"
      BY <1>1, <1>2 DEF TaskInv, AtPlace, Verdicts
    <3> QED BY <3>1, <1>2, <1>4 DEF Verdicts, rows
  <2>8. Closed(t)' BY <1>4 DEF Closed
  <2>9. Limits(t)'
    <3> DEFINE A == {k \in Hosts : job[t][k] \in {"begin", "exec"}}
               B == {k \in Hosts : job'[t][k] \in {"begin", "exec"}}
    <3>1. B \subseteq A BY <1>5
    <3>2. Working(t)' \subseteq Working(t) BY <1>5 DEF Working
    <3>3. Working(t) \in SUBSET Hosts /\ A \in SUBSET Hosts BY DEF Working
    <3>4. Cardinality(B) <= Cardinality(A) /\ Cardinality(Working(t)') <= Cardinality(Working(t))
      BY <3>1, <3>2, <3>3, JobSets
    <3>5. /\ Cardinality(A) \in Nat /\ Cardinality(B) \in Nat
          /\ Cardinality(Working(t)) \in Nat
      BY <3>1, <3>3, JobSets
    <3>6. Cardinality(Working(t)') \in Nat
      <4>1. Working(t)' \in SUBSET Hosts BY <3>2, <3>3
      <4> QED BY <4>1, JobSets
    <3>7. late[t] \in Nat /\ late[t] + Cardinality(A) <= Forks /\ Cardinality(Working(t)) <= Forks
      BY <1>1 DEF TaskInv, Limits, TypeOK
    <3>8. /\ late'[t] + Cardinality(B) <= Forks /\ Cardinality(Working(t)') <= Forks
      BY <3>4, <3>5, <3>6, <3>7, <1>2, BulkAssumption DEF past
    <3> QED BY <3>8, <1>1, <1>2 DEF TaskInv, Limits, rows, past
  <2> QED BY <2>1, <2>2, <2>3, <2>4, <2>5, <2>6, <2>7, <2>8, <2>9 DEF TaskInv
<1> QED BY <1>6, <1>7, <1>9, OneTask

LEMMA PoolDoneStep ==
  ASSUME Inv, NEW t \in Tasks, PoolDone(t)
  PROVE  Inv'
<1> DEFINE f == runner[t].file
<1>1. /\ TypeOK /\ TaskInv(t) /\ runner[t] \in Runner /\ task[t] \in TaskRow
      /\ hosts \subseteq Hosts
  BY DEF Inv, TypeOK
<1>2. /\ runner[t].pc = "pool" /\ f \in Files /\ runner[t].pending = {} /\ Working(t) = {}
      /\ (~IsUpload(t) => f = 1)
      /\ UNCHANGED <<rows, hosts, job, view, checked, crashes, past>>
  BY <1>1 DEF PoolDone, RunnerAt, TaskInv, AtPlace
<1>3. /\ runner' \in [Tasks -> Runner]
      /\ \A u \in Tasks \ {t} : runner'[u] = runner[u]
      /\ runner'[t].targets = runner[t].targets /\ runner'[t].canceled = runner[t].canceled
      /\ runner'[t].verdict = runner[t].verdict /\ runner'[t].pending = {}
      /\ \/ runner'[t].pc = "close" /\ runner[t].verdict = "failed" /\ ~Exists(t)
         \/ /\ runner[t].verdict = "none"
            /\ \/ runner'[t].pc = "judge" /\ (runner[t].canceled \/ ~IsUpload(t))
               \/ /\ runner'[t].pc = "aggregate" /\ IsUpload(t) /\ runner'[t].file = f
                  /\ f = MaxFiles
               \/ /\ runner'[t].pc = "file" /\ IsUpload(t) /\ runner'[t].file = f + 1
                  /\ f # MaxFiles
  <2>1. runner[t].verdict = "none" \/ (runner[t].verdict = "failed" /\ ~Exists(t))
    BY <1>1, <1>2 DEF TaskInv, AtPlace
  <2>2. {"close", "judge", "aggregate"} \subseteq RunnerPC BY DEF RunnerPC
  <2>3. CASE runner[t].verdict = "failed"
    <3>1. RunnerTo(t, "close") BY <2>3 DEF PoolDone
    <3> QED BY <3>1, <2>1, <2>2, <2>3, <1>1, <1>2, SetRunnerPC
  <2>4. CASE runner[t].verdict = "none" /\ (runner[t].canceled \/ ~IsUpload(t))
    <3>1. RunnerTo(t, "judge") BY <2>4 DEF PoolDone
    <3> QED BY <3>1, <2>2, <2>4, <1>1, <1>2, SetRunnerPC
  <2>5. CASE runner[t].verdict = "none" /\ ~(runner[t].canceled \/ ~IsUpload(t)) /\ f = MaxFiles
    <3>1. RunnerTo(t, "aggregate") BY <2>5 DEF PoolDone
    <3> QED BY <3>1, <2>2, <2>5, <1>1, <1>2, SetRunnerPC
  <2>6. CASE runner[t].verdict = "none" /\ ~(runner[t].canceled \/ ~IsUpload(t)) /\ f # MaxFiles
    <3> DEFINE r == [runner[t] EXCEPT !.pc = "file", !.file = f + 1]
    <3>1. runner' = [runner EXCEPT ![t] = r] BY <2>6 DEF PoolDone
    <3>2. f + 1 \in 0 .. MaxFiles BY <1>2, <2>6, BulkAssumption DEF Files
    <3>3. /\ r \in Runner /\ r.pc = "file" /\ r.file = f + 1
          /\ r.targets = runner[t].targets /\ r.canceled = runner[t].canceled
          /\ r.verdict = runner[t].verdict /\ r.pending = {}
      BY <1>1, <1>2, <3>2 DEF Runner, RunnerPC
    <3> HIDE DEF r
    <3>4. /\ runner' \in [Tasks -> Runner] /\ runner'[t] = r
          /\ \A u \in Tasks \ {t} : runner'[u] = runner[u]
      BY <3>1, <3>3, <1>1, SetRunner
    <3> QED BY <3>3, <3>4, <2>6
  <2> QED BY <2>1, <2>3, <2>4, <2>5, <2>6
<1>4. TypeOK' BY <1>1, <1>2, <1>3 DEF TypeOK, rows, past
<1>5. OnlyOn(t) BY <1>2, <1>3 DEF OnlyOn, Same, rows, past
<1>6. (Exists(t)' <=> Exists(t)) /\ (IsUpload(t)' <=> IsUpload(t))
  BY <1>2 DEF Exists, IsUpload, rows
<1>7. \A h \in Hosts : job[t][h] = "idle" BY <1>2 DEF Working
<1>8. TaskInv(t)'
  <2>1. Lives(t)' BY <1>1, <1>2, <1>3 DEF TaskInv, Lives, rows
  <2>2. Vanished(t)' BY <1>1, <1>2, <1>6 DEF TaskInv, Vanished, rows
  <2>3. AtPlace(t)'
    <3>1. runner'[t].pc \in {"file", "aggregate"} => runner'[t].file \in Files
      BY <1>2, <1>3, BulkAssumption DEF Files
    <3> QED BY <3>1, <1>3, <1>6 DEF AtPlace
  <2>4. JobsInPool(t)' BY <1>2, <1>7 DEF JobsInPool
  <2>5. TargetsAreAll(t)' BY <1>1, <1>2, <1>3 DEF TaskInv, TargetsAreAll, rows
  <2>6. Handled(t)'
    <3>1. SUFFICES ASSUME Going(t)' PROVE Handled(t)' BY DEF Handled
    <3>2. Going(t) BY <3>1, <1>2, <1>3, <1>6 DEF Going, rows
    <3>3. runner[t].targets \subseteq Hosts BY <1>1 DEF Runner
    <3>4. \A g \in Files, h \in runner[t].targets : g <= f => DoneOn(t, g, h)
      <4>1. \A h \in runner[t].targets : DoneOn(t, f, h)
        BY <3>2, <3>3, <1>1, <1>2, <1>7 DEF TaskInv, Handled
      <4>2. \A g \in Files, h \in runner[t].targets : g < f => DoneOn(t, g, h)
        BY <3>2, <1>1, <1>2 DEF TaskInv, Handled
      <4>3. \A g \in Files : g <= f => g < f \/ g = f BY <1>2 DEF Files
      <4> QED BY <4>1, <4>2, <4>3
    <3>5. \A g \in Files, h \in runner[t].targets : g <= f => DoneOn(t, g, h)'
      BY <3>4, <1>2 DEF DoneOn, IsUpload, rows, past
    <3>6. CASE runner'[t].pc = "file"
      <4>1. \A g \in Files : g < f + 1 => g <= f BY <1>2 DEF Files
      <4> QED BY <3>5, <3>6, <4>1, <1>3 DEF Handled
    <3>7. CASE runner'[t].pc = "aggregate"
      <4>1. \A g \in Files : g <= f BY <3>7, <1>3, BulkAssumption DEF Files
      <4> QED BY <3>5, <3>7, <4>1, <1>3 DEF Handled
    <3>8. CASE runner'[t].pc = "judge"
      <4>1. ~IsUpload(t) /\ f = 1 BY <3>2, <3>8, <1>2, <1>3 DEF Going
      <4>2. ASSUME NEW h \in Hosts PROVE DoneAll(t, h) \/ result[t][h] = "failed"
        <5>1. SUFFICES ASSUME h \in hosts, result[t][h] # "none", result[t][h] # "failed"
                       PROVE  \A g \in FilesOf(t) : h \in effect[t][g]
          BY DEF DoneAll
        <5>2. h \in runner[t].targets BY <5>1, <1>1, <1>2 DEF TaskInv, TargetsAreAll
        <5>3. DoneOn(t, 1, h) BY <5>2, <4>1, <3>4, <1>2
        <5>4. h \in effect[t][1] BY <5>1, <5>3, <4>1 DEF DoneOn
        <5> QED BY <5>4, <4>1 DEF FilesOf
      <4>3. \A h \in Hosts : DoneAll(t, h) => DoneAll(t, h)'
        BY <1>2 DEF DoneAll, FilesOf, IsUpload, rows, past
      <4> QED BY <3>8, <4>2, <4>3, <1>2 DEF Handled, rows
    <3>9. CASE runner'[t].pc = "close" BY <3>9 DEF Handled
    <3> QED BY <3>6, <3>7, <3>8, <3>9, <1>3
  <2>7. Verdicts(t)'
    <3>1. runner[t].verdict # "completed" /\ task[t].status # "completed"
      BY <1>1, <1>2 DEF TaskInv, AtPlace, Verdicts
    <3> QED BY <3>1, <1>2, <1>3 DEF Verdicts, rows
  <2>8. Closed(t)' BY <1>1, <1>2, <1>3 DEF TaskInv, Vanished, Closed, Unfinished, rows
  <2>9. Limits(t)' BY <1>1, <1>2, LimitsKeep DEF TaskInv, rows, past
  <2> QED BY <2>1, <2>2, <2>3, <2>4, <2>5, <2>6, <2>7, <2>8, <2>9 DEF TaskInv
<1> QED BY <1>4, <1>5, <1>8, OneTask

LEMMA AggregateStep ==
  ASSUME Inv, NEW t \in Tasks, Aggregate(t)
  PROVE  Inv'
<1> DEFINE res == [h \in Hosts |-> IF result[t][h] = "none" THEN "none" ELSE Aggregated(t, h)]
<1>1. /\ TypeOK /\ TaskInv(t) /\ runner[t] \in Runner /\ task[t] \in TaskRow
      /\ hosts \subseteq Hosts
  BY DEF Inv, TypeOK
<1>2. /\ runner[t].pc = "aggregate" /\ IsUpload(t) /\ runner[t].verdict = "none"
      /\ RunnerTo(t, "judge") /\ result' = [result EXCEPT ![t] = res]
      /\ UNCHANGED <<task, item, hosts, job, view, checked, crashes, past>>
  BY <1>1 DEF Aggregate, RunnerAt, TaskInv, AtPlace
<1>3. \A h \in Hosts : Aggregated(t, h) \in {"success", "skipped", "failed"} BY DEF Aggregated
<1>4. res \in [Hosts -> Progress] BY <1>3 DEF Progress, Final
<1>5. \A h \in Hosts : /\ res[h] = "none" <=> result[t][h] = "none"
                       /\ result[t][h] # "none" => res[h] = Aggregated(t, h)
  BY <1>3
<1> HIDE DEF res
<1>6. /\ result' \in [Tasks -> [Hosts -> Progress]] /\ result'[t] = res
      /\ \A u \in Tasks \ {t} : result'[u] = result[u]
  BY <1>1, <1>2, <1>4, SetResults
<1>7. /\ runner' \in [Tasks -> Runner]
      /\ runner'[t].pc = "judge" /\ runner'[t].targets = runner[t].targets
      /\ runner'[t].canceled = runner[t].canceled /\ runner'[t].verdict = "none"
      /\ \A u \in Tasks \ {t} : runner'[u] = runner[u]
  <2>1. "judge" \in RunnerPC BY DEF RunnerPC
  <2> QED BY <2>1, <1>1, <1>2, SetRunnerPC
<1>8. TypeOK' BY <1>1, <1>2, <1>6, <1>7 DEF TypeOK, past
<1>9. OnlyOn(t) BY <1>2, <1>6, <1>7 DEF OnlyOn, Same, past
<1>10. TaskInv(t)'
  <2>1. Lives(t)' BY <1>1, <1>2, <1>7 DEF TaskInv, Lives
  <2>2. Vanished(t)' BY <1>1, <1>2, <1>5, <1>6 DEF TaskInv, Vanished, Exists
  <2>3. AtPlace(t)' BY <1>7 DEF AtPlace
  <2>4. JobsInPool(t)' BY <1>1, <1>2, NoJobs
  <2>5. TargetsAreAll(t)' BY <1>1, <1>2, <1>5, <1>6, <1>7 DEF TaskInv, TargetsAreAll
  <2>6. Handled(t)'
    <3>1. SUFFICES ASSUME Going(t)' PROVE Handled(t)' BY DEF Handled
    <3>2. Going(t) BY <3>1, <1>2, <1>7 DEF Going, Exists
    <3>3. ASSUME NEW h \in Hosts PROVE DoneAll(t, h)' \/ res[h] = "failed"
      <4>1. SUFFICES ASSUME h \in hosts, res[h] # "none", res[h] # "failed"
                     PROVE  \A g \in Files : h \in effect[t][g]
        BY <1>2, <1>6 DEF DoneAll, FilesOf, IsUpload, past
      <4>2. h \in runner[t].targets BY <4>1, <1>1, <1>2, <1>5 DEF TaskInv, TargetsAreAll
      <4>3. \A g \in Files : DoneOn(t, g, h) BY <4>2, <3>2, <1>1, <1>2 DEF TaskInv, Handled
      <4>4. Aggregated(t, h) # "failed" BY <4>1, <1>5
      <4>5. \A g \in Files : item[t][g][h] # "failed" BY <4>4 DEF Aggregated
      <4> QED BY <4>1, <4>3, <4>5, <1>2 DEF DoneOn
    <3> QED BY <3>3, <1>6, <1>7 DEF Handled
  <2>7. Verdicts(t)' BY <1>1, <1>2, <1>7 DEF TaskInv, Verdicts
  <2>8. Closed(t)' BY <1>7 DEF Closed
  <2>9. Limits(t)' BY <1>1, <1>2, LimitsKeep DEF TaskInv, past
  <2> QED BY <2>1, <2>2, <2>3, <2>4, <2>5, <2>6, <2>7, <2>8, <2>9 DEF TaskInv
<1> QED BY <1>8, <1>9, <1>10, OneTask

LEMMA JudgeStep ==
  ASSUME Inv, NEW t \in Tasks, Judge(t)
  PROVE  Inv'
<1> DEFINE canceled == runner[t].canceled \/ task[t].cancel
           rest == IF canceled THEN "skipped" ELSE "failed"
           closed == Marked(result[t], Unfinished, rest)
           items == [f \in Files |-> Marked(item[t][f], Unfinished, rest)]
<1>1. /\ TypeOK /\ TaskInv(t) /\ runner[t] \in Runner /\ task[t] \in TaskRow
      /\ result[t] \in [Hosts -> Progress] /\ item[t] \in [Files -> [Hosts -> Progress]]
  BY DEF Inv, TypeOK
<1>2. /\ runner[t].pc = "judge" /\ runner[t].verdict = "none"
      /\ UNCHANGED <<task, hosts, job, view, checked, crashes, past>>
  BY <1>1 DEF Judge, RunnerAt, TaskInv, AtPlace
<1>3. task[t].status # "completed" BY <1>1, <1>2 DEF TaskInv, Verdicts
<1>4. /\ runner' \in [Tasks -> Runner] /\ runner'[t].pc = "close"
      /\ \A u \in Tasks \ {t} : runner'[u] = runner[u]
      /\ result' \in [Tasks -> [Hosts -> Progress]]
      /\ \A u \in Tasks \ {t} : result'[u] = result[u]
      /\ \A h \in Hosts : result'[t][h] = "none" <=> result[t][h] = "none"
      /\ \A h \in Hosts : result'[t][h] \notin Unfinished
      /\ item' \in [Tasks -> [Files -> [Hosts -> Progress]]]
      /\ \A u \in Tasks \ {t} : item'[u] = item[u]
      /\ \A f \in Files, h \in Hosts : /\ item'[t][f][h] \notin Unfinished
                                       /\ item[t][f][h] = "none" => item'[t][f][h] = "none"
      /\ \/ runner'[t].verdict \in {"failed", "canceled"}
         \/ /\ runner'[t].verdict = "completed" /\ Going(t)
            /\ \A h \in Hosts : result[t][h] # "failed"
  <2>1. CASE ~Exists(t)
    <3> DEFINE r == [runner[t] EXCEPT !.pc = "close", !.verdict = "failed"]
    <3>1. runner' = [runner EXCEPT ![t] = r] /\ UNCHANGED <<result, item>>
      BY <2>1 DEF Judge
    <3>2. r \in Runner /\ r.pc = "close" /\ r.verdict = "failed"
      BY <1>1 DEF Runner, RunnerPC, Status
    <3> HIDE DEF r
    <3>3. /\ runner' \in [Tasks -> Runner] /\ runner'[t] = r
          /\ \A u \in Tasks \ {t} : runner'[u] = runner[u]
      BY <3>1, <3>2, <1>1, SetRunner
    <3>4. \A f \in Files, h \in Hosts : result[t][h] = "none" /\ item[t][f][h] = "none"
      BY <2>1, <1>1 DEF TaskInv, Vanished
    <3>5. \A h \in Hosts : result[t][h] = "none" BY <2>1, <1>1 DEF TaskInv, Vanished
    <3>6. /\ result' \in [Tasks -> [Hosts -> Progress]]
          /\ item' \in [Tasks -> [Files -> [Hosts -> Progress]]]
      BY <3>1, <1>1 DEF TypeOK
    <3> QED BY <3>1, <3>2, <3>3, <3>4, <3>5, <3>6 DEF Unfinished
  <2>2. CASE Exists(t)
    <3> DEFINE verdict == IF canceled THEN "canceled"
                          ELSE IF \E h \in Hosts : closed[h] = "failed"
                            THEN "failed" ELSE "completed"
               r == [runner[t] EXCEPT !.pc = "close", !.verdict = verdict]
    <3>1. /\ runner' = [runner EXCEPT ![t] = r] /\ result' = [result EXCEPT ![t] = closed]
          /\ item' = [item EXCEPT ![t] = items]
      BY <2>2 DEF Judge, MarkItems
    <3>2. /\ verdict \in {"canceled", "failed", "completed"}
          /\ verdict = "completed" => Going(t) /\ \A h \in Hosts : closed[h] # "failed"
      BY <2>2 DEF Going
    <3>3. rest \in {"skipped", "failed"} OBVIOUS
    <3> HIDE DEF verdict, rest, canceled
    <3>4. r \in Runner /\ r.pc = "close" /\ r.verdict = verdict
      BY <1>1, <3>2 DEF Runner, RunnerPC, Status
    <3>5. closed \in [Hosts -> Progress] BY <1>1, <3>3, MarkedTyped DEF Progress, Final
    <3>6. items \in [Files -> [Hosts -> Progress]]
      BY <1>1, <3>3, MarkedTyped DEF Progress, Final
    <3>7. \A h \in Hosts : /\ closed[h] = "none" <=> result[t][h] = "none"
                           /\ closed[h] \notin Unfinished
                           /\ result[t][h] = "failed" => closed[h] = "failed"
      BY <3>3 DEF Marked, Unfinished
    <3>8. \A f \in Files, h \in Hosts : /\ items[f][h] \notin Unfinished
                                        /\ item[t][f][h] = "none" => items[f][h] = "none"
      BY <3>3 DEF Marked, Unfinished
    <3> HIDE DEF r, closed, items
    <3>9. /\ runner' \in [Tasks -> Runner] /\ runner'[t] = r
          /\ \A u \in Tasks \ {t} : runner'[u] = runner[u]
      BY <3>1, <3>4, <1>1, SetRunner
    <3>10. /\ result' \in [Tasks -> [Hosts -> Progress]] /\ result'[t] = closed
           /\ \A u \in Tasks \ {t} : result'[u] = result[u]
      BY <3>1, <3>5, <1>1, SetResults
    <3>11. /\ item' \in [Tasks -> [Files -> [Hosts -> Progress]]] /\ item'[t] = items
           /\ \A u \in Tasks \ {t} : item'[u] = item[u]
      BY <3>1, <3>6, <1>1, SetItems
    <3> QED BY <3>2, <3>4, <3>7, <3>8, <3>9, <3>10, <3>11
  <2> QED BY <2>1, <2>2
<1>5. TypeOK' BY <1>1, <1>2, <1>4 DEF TypeOK, past
<1>6. OnlyOn(t) BY <1>2, <1>4 DEF OnlyOn, Same, past
<1>7. TaskInv(t)'
  <2>1. Lives(t)' BY <1>1, <1>2, <1>4 DEF TaskInv, Lives
  <2>2. Vanished(t)' BY <1>1, <1>2, <1>4 DEF TaskInv, Vanished, Exists
  <2>3. AtPlace(t)' BY <1>4 DEF AtPlace
  <2>4. JobsInPool(t)' BY <1>1, <1>2, NoJobs
  <2>5. TargetsAreAll(t)' BY <1>4 DEF TargetsAreAll
  <2>6. Handled(t)' BY <1>4 DEF Handled
  <2>7. Verdicts(t)'
    <3>1. SUFFICES ASSUME runner'[t].verdict = "completed"
                   PROVE  \A h \in Hosts : DoneAll(t, h)'
      BY <1>2, <1>3 DEF Verdicts
    <3>2. Going(t) /\ \A h \in Hosts : result[t][h] # "failed" BY <3>1, <1>4
    <3>3. \A h \in Hosts : DoneAll(t, h) BY <3>2, <1>1, <1>2 DEF TaskInv, Handled
    <3> QED BY <3>3, <1>2, <1>4 DEF DoneAll, FilesOf, IsUpload, past
  <2>8. Closed(t)' BY <1>4 DEF Closed
  <2>9. Limits(t)' BY <1>1, <1>2, LimitsKeep DEF TaskInv, past
  <2> QED BY <2>1, <2>2, <2>3, <2>4, <2>5, <2>6, <2>7, <2>8, <2>9 DEF TaskInv
<1> QED BY <1>5, <1>6, <1>7, OneTask

LEMMA CloseStep ==
  ASSUME Inv, NEW t \in Tasks, Close(t)
  PROVE  Inv'
<1>1. /\ TypeOK /\ TaskInv(t) /\ runner[t] \in Runner /\ task[t] \in TaskRow
  BY DEF Inv, TypeOK
<1>2. /\ runner[t].pc = "close" /\ runner[t].verdict \in {"completed", "failed", "canceled"}
      /\ RunnerTo(t, "over")
      /\ UNCHANGED <<result, item, hosts, job, view, checked, crashes, past>>
  BY <1>1 DEF Close, RunnerAt, TaskInv, AtPlace
<1>3. /\ runner' \in [Tasks -> Runner]
      /\ runner'[t].pc = "over" /\ runner'[t].targets = runner[t].targets
      /\ runner'[t].verdict = runner[t].verdict
      /\ \A u \in Tasks \ {t} : runner'[u] = runner[u]
  <2>1. "over" \in RunnerPC BY DEF RunnerPC
  <2> QED BY <2>1, <1>1, <1>2, SetRunnerPC
<1>4. /\ task' \in [Tasks -> TaskRow] /\ \A u \in Tasks \ {t} : task'[u] = task[u]
      /\ \/ ~Exists(t) /\ task'[t] = task[t]
         \/ /\ Exists(t) /\ task'[t].status = runner[t].verdict
            /\ task'[t].kind = task[t].kind /\ task'[t].cancel = task[t].cancel
  <2>1. CASE ~Exists(t) BY <2>1, <1>1 DEF Close, TypeOK
  <2>2. CASE Exists(t)
    <3> DEFINE row == [task[t] EXCEPT !.status = runner[t].verdict,
                                      !.counts = CountsOf(result[t])]
    <3>1. task' = [task EXCEPT ![t] = row] BY <2>2 DEF Close
    <3>2. CountsOf(result[t]) \in [Final -> 0 .. Cardinality(Hosts)] BY CountsTyped
    <3>3. /\ row \in TaskRow /\ row.status = runner[t].verdict /\ row.kind = task[t].kind
          /\ row.cancel = task[t].cancel
      BY <3>2, <1>1, <1>2 DEF TaskRow, Status
    <3> HIDE DEF row
    <3> QED BY <3>1, <3>3, <2>2, <1>1, SetTask
  <2> QED BY <2>1, <2>2
<1>5. TypeOK' BY <1>1, <1>2, <1>3, <1>4 DEF TypeOK, past
<1>6. OnlyOn(t) BY <1>2, <1>3, <1>4 DEF OnlyOn, Same, past
<1>7. Exists(t)' <=> Exists(t) BY <1>2, <1>4 DEF Exists
<1>8. TaskInv(t)'
  <2>1. Lives(t)' BY <1>1, <1>2, <1>3, <1>4 DEF TaskInv, Lives
  <2>2. Vanished(t)' BY <1>1, <1>2, <1>7 DEF TaskInv, Vanished
  <2>3. AtPlace(t)' BY <1>3 DEF AtPlace
  <2>4. JobsInPool(t)' BY <1>1, <1>2, NoJobs
  <2>5. TargetsAreAll(t)' BY <1>3 DEF TargetsAreAll
  <2>6. Handled(t)' BY <1>3 DEF Handled
  <2>7. Verdicts(t)'
    <3>1. runner[t].verdict = "completed" => \A h \in Hosts : DoneAll(t, h)
      BY <1>1 DEF TaskInv, Verdicts
    <3>2. \A h \in Hosts : DoneAll(t, h) => DoneAll(t, h)'
      BY <1>2, <1>4 DEF DoneAll, FilesOf, IsUpload, past
    <3>3. task'[t].status = "completed" => runner[t].verdict = "completed"
      BY <1>1, <1>4 DEF TaskInv, Verdicts
    <3> QED BY <3>1, <3>2, <3>3, <1>3 DEF Verdicts
  <2>8. Closed(t)' BY <1>1, <1>2, <1>3 DEF TaskInv, Closed
  <2>9. Limits(t)' BY <1>1, <1>2, <1>4, LimitsKeep DEF TaskInv, past
  <2> QED BY <2>1, <2>2, <2>3, <2>4, <2>5, <2>6, <2>7, <2>8, <2>9 DEF TaskInv
<1> QED BY <1>5, <1>6, <1>8, OneTask
-----------------------------------------------------------------------------
(* The jobs. *)

\* What a job may do to the rows of its task: only those of its host change.
OwnRows(t, h) ==
    /\ hosts' = hosts /\ runner' = runner
    /\ task'[t].status = task[t].status /\ task'[t].kind = task[t].kind
    /\ task'[t].cancel = task[t].cancel
    /\ \A k \in Hosts \ {h} : result'[t][k] = result[t][k]
    /\ \A f \in Files, k \in Hosts :
         f # runner[t].file \/ k # h => item'[t][f][k] = item[t][f][k]
    /\ \A f \in Files : effect[t][f] \subseteq effect'[t][f]
    /\ ~Exists(t) => result' = result /\ item' = item

LEMMA JobMoves ==
  ASSUME Inv, TypeOK', NEW t \in Tasks, NEW h \in Hosts, OnlyOn(t), OwnRows(t, h),
         job[t][h] # "idle", NEW pc \in JobPC \ {"idle"}, JobTo(t, h, pc),
         pc = "raised" => ~Exists(t),
         pc = "won" => h \in effect'[t][runner[t].file],
         pc = "done" /\ Going(t) => DoneOn(t, runner[t].file, h)',
         Limits(t)'
  PROVE  Inv'
<1>1. TypeOK /\ TaskInv(t) /\ runner[t] \in Runner BY DEF Inv, TypeOK
<1>2. /\ job'[t][h] = pc /\ \A k \in Hosts \ {h} : job'[t][k] = job[t][k]
  BY <1>1, SetJob
<1>3. /\ runner[t].pc = "pool" /\ h \in runner[t].targets /\ runner[t].file \in Files
      /\ ~IsUpload(t) => runner[t].file = 1
  BY <1>1 DEF TaskInv, JobsInPool, AtPlace
<1>4. (Exists(t)' <=> Exists(t)) /\ (IsUpload(t)' <=> IsUpload(t))
  BY DEF Exists, IsUpload, OwnRows
<1>5. Lives(t)' BY <1>1, <1>3 DEF TaskInv, Lives, OwnRows
<1>6. Vanished(t)' BY <1>1, <1>4 DEF TaskInv, Vanished, OwnRows
<1>7. AtPlace(t)' BY <1>1, <1>4 DEF TaskInv, AtPlace, OwnRows
<1>8. JobsInPool(t)'
  <2>1. ASSUME NEW k \in Hosts \ {h}
        PROVE  /\ job[t][k] # "idle" => k \in runner[t].targets
               /\ job[t][k] = "raised" => ~Exists(t)
               /\ job[t][k] = "won" => k \in effect'[t][runner[t].file]
    BY <1>1, <1>3 DEF TaskInv, JobsInPool, OwnRows
  <2> QED BY <2>1, <1>2, <1>3, <1>4 DEF JobsInPool, OwnRows
<1>9. TargetsAreAll(t)'
  <2>1. hosts \subseteq Hosts BY <1>1 DEF TypeOK
  <2> QED BY <2>1, <1>1, <1>3 DEF TaskInv, TargetsAreAll, OwnRows
<1>10. Handled(t)'
  <2>1. SUFFICES ASSUME Going(t)' PROVE Handled(t)' BY DEF Handled
  <2>2. Going(t) BY <2>1, <1>4 DEF Going, OwnRows
  <2>3. runner[t].targets \subseteq Hosts BY <1>1 DEF Runner
  <2>4. ASSUME NEW f \in Files, NEW k \in runner[t].targets, f < runner[t].file
        PROVE  DoneOn(t, f, k)'
    <3>1. DoneOn(t, f, k) BY <2>2, <2>4, <1>1, <1>3 DEF TaskInv, Handled
    <3>2. IsUpload(t) /\ f # runner[t].file BY <2>4, <1>3 DEF Files
    <3> QED BY <3>1, <3>2, <2>3, <1>4 DEF DoneOn, OwnRows
  <2>5. ASSUME NEW k \in runner[t].targets \ runner[t].pending,
               job'[t][k] \in {"idle", "done"}
        PROVE  DoneOn(t, runner[t].file, k)'
    <3>1. CASE k = h BY <3>1, <2>2, <2>5, <1>2
    <3>2. CASE k # h
      <4>1. DoneOn(t, runner[t].file, k)
        BY <3>2, <2>2, <2>3, <2>5, <1>1, <1>2, <1>3 DEF TaskInv, Handled
      <4> QED BY <4>1, <3>2, <2>3, <1>3, <1>4 DEF DoneOn, OwnRows
    <3> QED BY <3>1, <3>2
  <2>6. runner'[t] = runner[t] BY DEF OwnRows
  <2> QED BY <2>4, <2>5, <2>6, <1>3 DEF Handled
<1>11. Verdicts(t)'
  <2>1. runner[t].verdict # "completed" /\ task[t].status # "completed"
    BY <1>1, <1>3 DEF TaskInv, AtPlace, Verdicts
  <2> QED BY <2>1 DEF Verdicts, OwnRows
<1>12. Closed(t)' BY <1>3 DEF Closed, OwnRows
<1>13. TaskInv(t)'
  BY <1>5, <1>6, <1>7, <1>8, <1>9, <1>10, <1>11, <1>12 DEF TaskInv
<1> QED BY <1>13, OneTask

\* The limits depend on which jobs are past their check.
LEMMA JobLimits ==
  ASSUME Inv, NEW t \in Tasks, NEW h \in Hosts, task'[t].cancel = task[t].cancel,
         job[t][h] # "idle", NEW pc \in JobPC \ {"idle"}, JobTo(t, h, pc),
         late'[t] = late[t],
         \/ job[t][h] \in {"begin", "exec"} \/ pc \notin {"begin", "exec"}
         \/ ~task[t].cancel
  PROVE  Limits(t)'
<1> DEFINE A == {k \in Hosts : job[t][k] \in {"begin", "exec"}}
           B == {k \in Hosts : job'[t][k] \in {"begin", "exec"}}
<1>1. TypeOK /\ Limits(t) /\ late[t] \in Nat BY DEF Inv, TypeOK, TaskInv
<1>2. /\ job'[t][h] = pc /\ \A k \in Hosts \ {h} : job'[t][k] = job[t][k]
  BY <1>1, SetJob
<1>3. Working(t)' = Working(t) BY <1>2 DEF Working
<1>4. A \in SUBSET Hosts /\ B \in SUBSET Hosts /\ Working(t) \in SUBSET Hosts BY DEF Working
<1>5. Cardinality(A) \in Nat /\ Cardinality(B) \in Nat /\ Cardinality(Working(t)) \in Nat
  BY <1>4, JobSets
<1>6. late[t] + Cardinality(B) <= Forks
  <2>1. CASE B \subseteq A
    <3>1. Cardinality(B) <= Cardinality(A) BY <2>1, <1>4, JobSets
    <3>2. late[t] + Cardinality(A) <= Forks BY <1>1 DEF Limits
    <3> QED BY <3>1, <3>2, <1>1, <1>5, BulkAssumption
  <2>2. CASE ~task[t].cancel
    <3>1. B \subseteq Working(t) BY <1>2 DEF Working
    <3>2. Cardinality(B) <= Cardinality(Working(t)) BY <3>1, <1>4, JobSets
    <3>3. Cardinality(Working(t)) <= Forks /\ late[t] = 0 BY <2>2, <1>1 DEF Limits
    <3> QED BY <3>2, <3>3, <1>5, BulkAssumption
  <2> QED BY <2>1, <2>2, <1>2
<1> QED BY <1>1, <1>3, <1>6 DEF Limits

LEMMA SaveOutcomeKeeps ==
  ASSUME TypeOK, NEW t \in Tasks, NEW h \in Hosts, NEW s \in Progress,
         runner[t].file \in Files, SaveOutcome(t, h, s)
  PROVE  /\ task' \in [Tasks -> TaskRow] /\ result' \in [Tasks -> [Hosts -> Progress]]
         /\ item' \in [Tasks -> [Files -> [Hosts -> Progress]]]
         /\ \A u \in Tasks \ {t} : /\ task'[u] = task[u] /\ result'[u] = result[u]
                                   /\ item'[u] = item[u]
         /\ task'[t].status = task[t].status /\ task'[t].kind = task[t].kind
         /\ task'[t].cancel = task[t].cancel
         /\ \A k \in Hosts \ {h} : result'[t][k] = result[t][k]
         /\ \A f \in Files, k \in Hosts :
              f # runner[t].file \/ k # h => item'[t][f][k] = item[t][f][k]
         /\ IsUpload(t) => item'[t][runner[t].file][h] = s
         /\ ~IsUpload(t) => result'[t][h] = s
<1>1. /\ result[t] \in [Hosts -> Progress] /\ item[t] \in [Files -> [Hosts -> Progress]]
  BY DEF TypeOK
<1>2. CASE IsUpload(t)
  <2> DEFINE i == [item[t][runner[t].file] EXCEPT ![h] = s]
  <2>1. UNCHANGED <<task, result>> /\ item' = [item EXCEPT ![t][runner[t].file] = i]
    BY <1>2 DEF SaveOutcome, SaveItem
  <2>2. /\ i \in [Hosts -> Progress] /\ i[h] = s
        /\ \A k \in Hosts \ {h} : i[k] = item[t][runner[t].file][k]
    BY <1>1
  <2> DEFINE f == runner[t].file
  <2>3. f \in Files /\ item' = [item EXCEPT ![t][f] = i] /\ i \in [Hosts -> Progress]
    BY <2>1, <2>2
  <2> HIDE DEF i, f
  <2>4. /\ item' \in [Tasks -> [Files -> [Hosts -> Progress]]] /\ item'[t][f] = i
        /\ \A g \in Files \ {f} : item'[t][g] = item[t][g]
        /\ \A u \in Tasks \ {t} : item'[u] = item[u]
    BY <2>3, SetFileItems
  <2> USE DEF f
  <2> QED BY <2>1, <2>2, <2>4, <1>2 DEF TypeOK
<1>3. CASE ~IsUpload(t)
  <2> DEFINE res == [result[t] EXCEPT ![h] = s]
  <2>1. /\ result' = [result EXCEPT ![t] = res] /\ item' = item
        /\ task' = [task EXCEPT ![t].counts = CountsOf(res)]
    BY <1>3 DEF SaveOutcome, SaveResult
  <2>2. /\ res \in [Hosts -> Progress] /\ res[h] = s
        /\ \A k \in Hosts \ {h} : res[k] = result[t][k]
    BY <1>1
  <2>3. CountsOf(res) \in [Final -> 0 .. Cardinality(Hosts)] BY CountsTyped
  <2> HIDE DEF res
  <2>4. /\ result' \in [Tasks -> [Hosts -> Progress]] /\ result'[t] = res
        /\ \A u \in Tasks \ {t} : result'[u] = result[u]
    BY <2>1, <2>2, SetResults
  <2>5. /\ task' \in [Tasks -> TaskRow]
        /\ task'[t].status = task[t].status /\ task'[t].kind = task[t].kind
        /\ task'[t].cancel = task[t].cancel
        /\ \A u \in Tasks \ {t} : task'[u] = task[u]
    BY <2>1, <2>3, SetCounts
  <2> QED BY <2>1, <2>2, <2>4, <2>5, <1>3 DEF TypeOK
<1> QED BY <1>2, <1>3

\* What every step of a job starts from.
LEMMA AtJob ==
  ASSUME Inv, NEW t \in Tasks, NEW h \in Hosts, job[t][h] # "idle"
  PROVE  /\ TypeOK /\ TaskInv(t) /\ runner[t] \in Runner /\ task[t] \in TaskRow
         /\ runner[t].pc = "pool" /\ runner[t].file \in Files
         /\ effect[t] \in [Files -> SUBSET Hosts]
BY DEF Inv, TypeOK, TaskInv, JobsInPool, AtPlace

\* A job that changes its own state only.
LEMMA JobGoes ==
  ASSUME Inv, NEW t \in Tasks, NEW h \in Hosts, job[t][h] # "idle",
         UNCHANGED <<rows, hosts, runner, view, checked, crashes, past>>,
         NEW pc \in JobPC \ {"idle", "won", "done"}, JobTo(t, h, pc),
         pc = "raised" => ~Exists(t),
         pc = "begin" => ~task[t].cancel, pc # "exec"
  PROVE  Inv'
<1>1. TypeOK BY DEF Inv
<1>2. /\ job' \in [Tasks -> [Hosts -> JobPC]]
      /\ \A u \in Tasks \ {t} : job'[u] = job[u]
  BY <1>1, SetJob
<1>3. TypeOK' BY <1>1, <1>2 DEF TypeOK, rows, past
<1>4. OnlyOn(t) BY <1>2 DEF OnlyOn, Same, rows, past
<1>5. OwnRows(t, h) BY DEF OwnRows, rows, past
<1>6. Limits(t)' BY JobLimits DEF rows, past
<1> QED BY <1>3, <1>4, <1>5, <1>6, JobMoves

\* A job that saves the outcome of its host.
LEMMA JobSaves ==
  ASSUME Inv, NEW t \in Tasks, NEW h \in Hosts, job[t][h] # "idle", Exists(t),
         UNCHANGED <<hosts, runner, view, checked, crashes, past>>,
         NEW pc \in {"canceled", "done"}, JobTo(t, h, pc),
         NEW s \in Progress, SaveOutcome(t, h, s),
         pc = "done" /\ Going(t) =>
           h \notin hosts \/ h \in effect[t][runner[t].file] \/ s = "failed"
  PROVE  Inv'
<1>1. /\ TypeOK /\ runner[t].file \in Files /\ effect[t] \in [Files -> SUBSET Hosts]
      /\ TaskInv(t) /\ runner[t].pc = "pool"
  BY AtJob
<1>2. pc \in JobPC \ {"idle"} BY DEF JobPC
<1>3. /\ job' \in [Tasks -> [Hosts -> JobPC]]
      /\ \A u \in Tasks \ {t} : job'[u] = job[u]
  BY <1>1, <1>2, SetJob
<1>4. /\ task' \in [Tasks -> TaskRow] /\ result' \in [Tasks -> [Hosts -> Progress]]
      /\ item' \in [Tasks -> [Files -> [Hosts -> Progress]]]
      /\ \A u \in Tasks \ {t} : /\ task'[u] = task[u] /\ result'[u] = result[u]
                                /\ item'[u] = item[u]
  BY <1>1, SaveOutcomeKeeps
<1>5. /\ task'[t].status = task[t].status /\ task'[t].kind = task[t].kind
      /\ task'[t].cancel = task[t].cancel
      /\ \A k \in Hosts \ {h} : result'[t][k] = result[t][k]
      /\ \A f \in Files, k \in Hosts :
           f # runner[t].file \/ k # h => item'[t][f][k] = item[t][f][k]
      /\ IsUpload(t) => item'[t][runner[t].file][h] = s
      /\ ~IsUpload(t) => result'[t][h] = s
  BY <1>1, SaveOutcomeKeeps
<1>6. TypeOK' BY <1>1, <1>3, <1>4 DEF TypeOK, past
<1>7. OnlyOn(t) BY <1>3, <1>4 DEF OnlyOn, Same, past
<1>8. OwnRows(t, h) BY <1>5 DEF OwnRows, past
<1>9. Limits(t)' BY <1>2, <1>5, JobLimits DEF past
<1>10. pc = "done" /\ Going(t) => DoneOn(t, runner[t].file, h)'
  BY <1>5 DEF DoneOn, IsUpload, past
<1> QED BY <1>2, <1>6, <1>7, <1>8, <1>9, <1>10, JobMoves

LEMMA CheckStep ==
  ASSUME Inv, NEW t \in Tasks, NEW h \in Hosts, Check(t, h)
  PROVE  Inv'
<1>1. /\ job[t][h] = "check"
      /\ UNCHANGED <<hosts, runner, view, checked, crashes, past>>
  BY DEF Check, JobAt
<1>2. CASE ~Exists(t)
  <2>1. JobTo(t, h, "raised") /\ UNCHANGED rows BY <1>2 DEF Check
  <2>2. "raised" \in JobPC \ {"idle", "won", "done"} BY DEF JobPC
  <2> QED BY <1>1, <1>2, <2>1, <2>2, JobGoes
<1>3. CASE Exists(t) /\ CancelRequested(t)
  <2>1. JobTo(t, h, "canceled") /\ SaveOutcome(t, h, "skipped") BY <1>3 DEF Check
  <2>2. "skipped" \in Progress BY DEF Progress, Final
  <2> QED BY <1>1, <1>3, <2>1, <2>2, JobSaves
<1>4. CASE Exists(t) /\ ~CancelRequested(t)
  <2>1. JobTo(t, h, "begin") /\ UNCHANGED rows BY <1>4 DEF Check
  <2>2. "begin" \in JobPC \ {"idle", "won", "done"} BY DEF JobPC
  <2>3. ~task[t].cancel BY <1>4 DEF CancelRequested
  <2> QED BY <1>1, <2>1, <2>2, <2>3, JobGoes
<1> QED BY <1>2, <1>3, <1>4

LEMMA BeginStep ==
  ASSUME Inv, NEW t \in Tasks, NEW h \in Hosts, Begin(t, h)
  PROVE  Inv'
<1>1. /\ job[t][h] = "begin"
      /\ UNCHANGED <<hosts, runner, view, checked, crashes, past>>
  BY DEF Begin, JobAt
<1>2. /\ TypeOK /\ runner[t].file \in Files BY <1>1, AtJob
<1>3. CASE ~Exists(t)
  <2>1. JobTo(t, h, "raised") /\ UNCHANGED rows BY <1>3 DEF Begin
  <2>2. "raised" \in JobPC \ {"idle", "won", "done"} BY DEF JobPC
  <2> QED BY <1>1, <1>3, <2>1, <2>2, JobGoes
<1>4. CASE Exists(t) /\ h \notin hosts
  <2>1. JobTo(t, h, "done") /\ SaveOutcome(t, h, "skipped") BY <1>4 DEF Begin
  <2>2. "skipped" \in Progress BY DEF Progress, Final
  <2> QED BY <1>1, <1>4, <2>1, <2>2, JobSaves
<1>5. CASE Exists(t) /\ h \in hosts
  <2> DEFINE f == runner[t].file
             res == [result[t] EXCEPT ![h] = "running"]
             i == [item[t][f] EXCEPT ![h] = "running"]
  <2>1. /\ JobTo(t, h, "exec") /\ result' = [result EXCEPT ![t] = res] /\ task' = task
        /\ \/ item' = item
           \/ item' = [item EXCEPT ![t][f] = i]
    BY <1>5 DEF Begin
  <2>2. /\ result[t] \in [Hosts -> Progress] /\ item[t] \in [Files -> [Hosts -> Progress]]
        /\ "running" \in Progress
    BY <1>2 DEF TypeOK, Progress, Unfinished
  <2>3. /\ res \in [Hosts -> Progress] /\ \A k \in Hosts \ {h} : res[k] = result[t][k]
    BY <2>2
  <2>4. /\ i \in [Hosts -> Progress] /\ \A k \in Hosts \ {h} : i[k] = item[t][f][k]
    BY <2>2, <1>2
  <2>5. f \in Files BY <1>2
  <2> HIDE DEF res, i, f
  <2>6. /\ result' \in [Tasks -> [Hosts -> Progress]] /\ result'[t] = res
        /\ \A u \in Tasks \ {t} : result'[u] = result[u]
    BY <2>1, <2>3, <1>2, SetResults
  <2>7. /\ item' \in [Tasks -> [Files -> [Hosts -> Progress]]]
        /\ \A u \in Tasks \ {t} : item'[u] = item[u]
        /\ \A g \in Files, k \in Hosts : g # f \/ k # h => item'[t][g][k] = item[t][g][k]
    <3>1. CASE item' = item BY <3>1, <1>2 DEF TypeOK
    <3>2. CASE item' = [item EXCEPT ![t][f] = i]
      <4>1. /\ item' \in [Tasks -> [Files -> [Hosts -> Progress]]] /\ item'[t][f] = i
            /\ \A g \in Files \ {f} : item'[t][g] = item[t][g]
            /\ \A u \in Tasks \ {t} : item'[u] = item[u]
        BY <3>2, <2>4, <2>5, <1>2, SetFileItems
      <4> QED BY <4>1, <2>4
    <3> QED BY <2>1, <3>1, <3>2
  <2>8. "exec" \in JobPC \ {"idle"} BY DEF JobPC
  <2>9. /\ job' \in [Tasks -> [Hosts -> JobPC]]
        /\ \A u \in Tasks \ {t} : job'[u] = job[u]
    BY <2>1, <2>8, <1>2, SetJob
  <2>10. TypeOK' BY <2>1, <2>6, <2>7, <2>9, <1>1, <1>2 DEF TypeOK, past
  <2>11. OnlyOn(t) BY <2>1, <2>6, <2>7, <2>9, <1>1 DEF OnlyOn, Same, past
  <2>12. OwnRows(t, h)
    BY <2>1, <2>3, <2>6, <2>7, <1>1, <1>5 DEF OwnRows, past, f
  <2>13. Limits(t)' BY <2>1, <2>8, <1>1, JobLimits DEF past
  <2> QED BY <2>1, <2>8, <2>10, <2>11, <2>12, <2>13, <1>1, JobMoves
<1> QED BY <1>3, <1>4, <1>5

LEMMA ExecuteStep ==
  ASSUME Inv, NEW t \in Tasks, NEW h \in Hosts, Execute(t, h)
  PROVE  Inv'
<1> DEFINE f == runner[t].file
<1>1. /\ job[t][h] = "exec"
      /\ UNCHANGED <<rows, hosts, runner, view, checked, crashes>>
      /\ late' = [late EXCEPT ![t] = IF task[t].cancel THEN @ + 1 ELSE @]
  BY DEF Execute, JobAt
<1>2. /\ TypeOK /\ f \in Files /\ effect[t] \in [Files -> SUBSET Hosts] /\ TaskInv(t)
  BY <1>1, AtJob
<1>3. /\ late' \in [Tasks -> Nat]
      /\ late'[t] = IF task[t].cancel THEN late[t] + 1 ELSE late[t]
      /\ \A u \in Tasks \ {t} : late'[u] = late[u]
  BY <1>1, <1>2 DEF TypeOK
<1>4. PICK pc \in {"won", "lost"} :
        /\ JobTo(t, h, pc)
        /\ \/ pc = "won" /\ effect' = [effect EXCEPT ![t][f] = @ \cup {h}]
           \/ pc = "lost" /\ effect' = effect
  BY DEF Execute
<1>5. pc \in JobPC \ {"idle"} BY <1>4 DEF JobPC
<1>6. /\ job' \in [Tasks -> [Hosts -> JobPC]] /\ job'[t][h] = pc
      /\ \A k \in Hosts \ {h} : job'[t][k] = job[t][k]
      /\ \A u \in Tasks \ {t} : job'[u] = job[u]
  BY <1>4, <1>5, <1>2, SetJob
<1>7. /\ effect' \in [Tasks -> [Files -> SUBSET Hosts]]
      /\ \A g \in Files : effect[t][g] \subseteq effect'[t][g]
      /\ \A u \in Tasks \ {t} : effect'[u] = effect[u]
      /\ pc = "won" => h \in effect'[t][f]
  <2> HIDE DEF f
  <2>1. CASE pc = "lost" BY <2>1, <1>2, <1>4 DEF TypeOK
  <2>2. CASE pc = "won"
    <3>1. effect' = [effect EXCEPT ![t][f] = @ \cup {h}] BY <2>2, <1>4
    <3>2. effect' \in [Tasks -> [Files -> SUBSET Hosts]] BY <3>1, <1>2 DEF TypeOK
    <3>3. effect'[t] = [effect[t] EXCEPT ![f] = @ \cup {h}] BY <3>1, <1>2 DEF TypeOK
    <3>4. /\ \A g \in Files : effect[t][g] \subseteq effect'[t][g]
          /\ h \in effect'[t][f]
      BY <3>3, <1>2
    <3>5. \A u \in Tasks \ {t} : effect'[u] = effect[u] BY <3>1, <1>2 DEF TypeOK
    <3> QED BY <3>2, <3>4, <3>5
  <2> QED BY <2>1, <2>2
<1>8. TypeOK' BY <1>1, <1>2, <1>3, <1>6, <1>7 DEF TypeOK, rows
<1>9. OnlyOn(t) BY <1>1, <1>3, <1>6, <1>7 DEF OnlyOn, Same, rows
<1>10. OwnRows(t, h) BY <1>1, <1>7 DEF OwnRows, rows
<1>11. Limits(t)'
  <2> DEFINE A == {k \in Hosts : job[t][k] \in {"begin", "exec"}}
             B == {k \in Hosts : job'[t][k] \in {"begin", "exec"}}
  <2>1. A \in SUBSET Hosts /\ h \in A BY <1>1
  <2>2. B = A \ {h} BY <1>4, <1>6
  <2>3. Cardinality(B) = Cardinality(A) - 1 BY <2>1, <2>2, JobSets
  <2>4. Cardinality(A) \in Nat BY <2>1, JobSets
  <2>5. late[t] \in Nat /\ late[t] + Cardinality(A) <= Forks
    BY <1>2 DEF TaskInv, Limits, TypeOK
  <2>6. late'[t] + Cardinality(B) <= Forks BY <2>3, <2>4, <2>5, <1>3, BulkAssumption
  <2>7. Working(t)' = Working(t) BY <1>1, <1>4, <1>6 DEF Working
  <2> QED BY <2>6, <2>7, <1>1, <1>2, <1>3 DEF TaskInv, Limits, rows
<1> QED BY <1>1, <1>4, <1>5, <1>7, <1>8, <1>9, <1>10, <1>11, JobMoves

LEMMA SaveJobStep ==
  ASSUME Inv, NEW t \in Tasks, NEW h \in Hosts, SaveJob(t, h)
  PROVE  Inv'
<1>1. /\ job[t][h] \in {"won", "lost"}
      /\ UNCHANGED <<hosts, runner, view, checked, crashes, past>>
  BY DEF SaveJob
<1>2. CASE ~Exists(t)
  <2>1. JobTo(t, h, "raised") /\ UNCHANGED rows BY <1>2 DEF SaveJob
  <2>2. "raised" \in JobPC \ {"idle", "won", "done"} BY DEF JobPC
  <2> QED BY <1>1, <1>2, <2>1, <2>2, JobGoes
<1>3. CASE Exists(t)
  <2> DEFINE s == IF JobAt(t, h, "won") THEN "success" ELSE "failed"
  <2>1. JobTo(t, h, "done") /\ SaveOutcome(t, h, s) BY <1>3 DEF SaveJob
  <2>2. s \in Progress BY DEF Progress, Final
  <2>3. h \in effect[t][runner[t].file] \/ s = "failed"
    BY <1>1 DEF Inv, TaskInv, JobsInPool, JobAt
  <2> HIDE DEF s
  <2> QED BY <1>1, <1>3, <2>1, <2>2, <2>3, JobSaves
<1> QED BY <1>2, <1>3
-----------------------------------------------------------------------------
(* The specification. *)

LEMMA InvInit == Init => Inv
<1> SUFFICES ASSUME Init PROVE Inv OBVIOUS
<1>1. /\ IsFiniteSet(Hosts) /\ Cardinality({}) = 0 /\ Cardinality(Hosts) \in Nat
  BY BulkAssumption, FS_EmptySet, FS_CardinalityType
<1>2. TypeOK
  <2>1. NoCounts \in [Final -> 0 .. Cardinality(Hosts)] BY <1>1 DEF NoCounts
  <2>2. NoTask \in TaskRow BY <2>1 DEF NoTask, TaskRow, Status
  <2>3. NoRunner \in Runner BY BulkAssumption DEF NoRunner, Runner, RunnerPC, Status
  <2>4. Ready \in View BY <2>1 DEF Ready, View, ViewPC
  <2>5. "none" \in Progress /\ "idle" \in JobPC BY DEF Progress, JobPC
  <2>6. /\ task \in [Tasks -> TaskRow] /\ runner \in [Tasks -> Runner]
        /\ view \in [Views -> View]
    BY <2>2, <2>3, <2>4 DEF Init
  <2>7. /\ result \in [Tasks -> [Hosts -> Progress]]
        /\ item \in [Tasks -> [Files -> [Hosts -> Progress]]]
        /\ job \in [Tasks -> [Hosts -> JobPC]]
    BY <2>5 DEF Init
  <2>8. /\ effect \in [Tasks -> [Files -> SUBSET Hosts]] /\ late \in [Tasks -> Nat]
    BY DEF Init
  <2>9. hosts \subseteq Hosts /\ checked \in BOOLEAN /\ crashes \in 0 .. MaxCrashes
    <3>1. MaxCrashes \in Nat BY BulkAssumption
    <3>2. hosts \subseteq Hosts BY DEF Init
    <3>3. checked \in BOOLEAN BY DEF Init
    <3>4. crashes \in 0 .. MaxCrashes BY <3>1 DEF Init
    <3> QED BY <3>2, <3>3, <3>4
  <2> QED BY <2>6, <2>7, <2>8, <2>9 DEF TypeOK
<1>3. ASSUME NEW t \in Tasks PROVE TaskInv(t)
  <2>1. /\ task[t] = NoTask /\ runner[t] = NoRunner /\ late[t] = 0
        /\ \A h \in Hosts : /\ result[t][h] = "none" /\ job[t][h] = "idle"
                            /\ \A f \in Files : item[t][f][h] = "none"
    BY DEF Init
  <2>2. /\ task[t].status = "none" /\ ~task[t].cancel
        /\ runner[t].pc = "none" /\ runner[t].verdict = "none"
    BY <2>1 DEF NoTask, NoRunner
  <2>3. Lives(t) BY <2>1, <2>2 DEF Lives
  <2>4. Vanished(t) BY <2>1 DEF Vanished
  <2>5. AtPlace(t) BY <2>2 DEF AtPlace
  <2>6. JobsInPool(t) BY <2>1 DEF JobsInPool
  <2>7. TargetsAreAll(t) BY <2>2 DEF TargetsAreAll
  <2>8. Handled(t) BY <2>2 DEF Handled
  <2>9. Verdicts(t) BY <2>2 DEF Verdicts
  <2>10. Closed(t) BY <2>2 DEF Closed
  <2>11. Limits(t)
    <3>1. Working(t) = {} /\ {h \in Hosts : job[t][h] \in {"begin", "exec"}} = {}
      BY <2>1 DEF Working
    <3> QED BY <3>1, <2>1, <1>1, BulkAssumption DEF Limits
  <2> QED BY <2>3, <2>4, <2>5, <2>6, <2>7, <2>8, <2>9, <2>10, <2>11 DEF TaskInv
<1> QED BY <1>2, <1>3 DEF Inv

LEMMA InvStep ==
  ASSUME Inv, [Next]_vars
  PROVE  Inv'
<1>1. CASE UserStep
  <2>1. ASSUME NEW t \in Tasks, NEW kind \in TaskKinds, Create(t, kind) PROVE Inv'
    BY <2>1, CreateStep
  <2>2. ASSUME NEW v \in Views, NEW t \in Tasks, Cancel(v, t) \/ Detail(v, t) PROVE Inv'
    BY <2>2, AskStep
  <2>3. ASSUME NEW v \in Views, List(v) PROVE Inv'
    BY <2>3, AskStep
  <2>4. ASSUME NEW t \in Tasks, Delete(t) PROVE Inv'
    BY <2>4, DeleteStep
  <2>5. ASSUME NEW h \in Hosts, RemoveHost(h) PROVE Inv'
    BY <2>5, RemoveHostStep
  <2> QED BY <1>1, <2>1, <2>2, <2>3, <2>4, <2>5 DEF UserStep
<1>2. CASE Restart BY <1>2, RestartStep
<1>3. ASSUME NEW t \in Tasks, RunnerStep(t) PROVE Inv'
  <2>1. CASE Start(t) BY <2>1, StartStep
  <2>2. CASE Open(t) BY <2>2, OpenStep
  <2>3. CASE OpenFile(t) BY <2>3, OpenFileStep
  <2>4. CASE DropPending(t) BY <2>4, DropStep
  <2>5. CASE PoolDone(t) BY <2>5, PoolDoneStep
  <2>6. CASE Aggregate(t) BY <2>6, AggregateStep
  <2>7. CASE Judge(t) BY <2>7, JudgeStep
  <2>8. CASE Close(t) BY <2>8, CloseStep
  <2>9. ASSUME NEW h \in Hosts, Submit(t, h) PROVE Inv' BY <2>9, SubmitStep
  <2>10. ASSUME NEW h \in Hosts, Reap(t, h) PROVE Inv' BY <2>10, ReapStep
  <2> QED BY <1>3, <2>1, <2>2, <2>3, <2>4, <2>5, <2>6, <2>7, <2>8, <2>9, <2>10 DEF RunnerStep
<1>4. ASSUME NEW t \in Tasks, NEW h \in Hosts, JobStep(t, h) PROVE Inv'
  BY <1>4, CheckStep, BeginStep, ExecuteStep, SaveJobStep DEF JobStep
<1>5. ASSUME NEW v \in Views, ViewStep(v) PROVE Inv'
  <2>1. ASSUME NEW t \in Tasks, SkipResults(v, t) PROVE Inv' BY <2>1, SkipStep
  <2>2. ASSUME NEW t \in Tasks, SaveCanceled(v, t) \/ SaveFlag(v, t) \/ SaveCounts(v, t)
        PROVE  Inv'
    BY <2>2, SaveNudges
  <2>3. CASE MarkTasks(v) BY <2>3, MarkTasksStep
  <2>4. CASE MarkResults(v) BY <2>4, MarkResultsStep
  <2> QED BY <1>5, <2>1, <2>2, <2>3, <2>4 DEF ViewStep
<1>6. CASE UNCHANGED vars
  <2>1. TypeOK' BY <1>6 DEF vars, rows, past, Inv, TypeOK
  <2>2. \A t \in Tasks : Nudged(t) BY <1>6 DEF vars, Nudged
  <2> QED BY <2>1, <2>2, AllNudged
<1> QED BY <1>1, <1>2, <1>3, <1>4, <1>5, <1>6 DEF Next

\* Rows, threads and requests have their types, and the counters a user sees are
\* never more than the hosts.
THEOREM TypeCorrect == Spec => []TypeOK
<1>1. Inv => TypeOK BY DEF Inv
<1>2. Inv /\ [Next]_vars => Inv' BY InvStep
<1> QED BY <1>1, <1>2, InvInit, PTL DEF Spec

\* The task stops after the current command or file: once a cancellation is saved,
\* no more commands and transfers begin than the pool has places, even when the
\* task is deleted or the process stopped meanwhile.
THEOREM StopsSoon == Spec => []StopsAfterCurrent
<1>1. Inv => StopsAfterCurrent
  <2> SUFFICES ASSUME Inv, NEW t \in Tasks PROVE late[t] <= Forks
    BY DEF StopsAfterCurrent
  <2> DEFINE A == {h \in Hosts : job[t][h] \in {"begin", "exec"}}
  <2>1. late[t] \in Nat /\ late[t] + Cardinality(A) <= Forks
    BY DEF Inv, TypeOK, TaskInv, Limits
  <2>2. Cardinality(A) \in Nat BY JobSets
  <2> QED BY <2>1, <2>2, BulkAssumption
<1>2. Inv /\ [Next]_vars => Inv' BY InvStep
<1> QED BY <1>1, <1>2, InvInit, PTL DEF Spec

\* A task reported completed took effect on every host that still exists: a
\* cancellation or a restart mark that wrote its results has not hidden a failure.
THEOREM CompletedIsDone == Spec => []CompletedMeansDone
<1>1. Inv => CompletedMeansDone
  <2> SUFFICES ASSUME Inv, NEW t \in Tasks, task[t].status = "completed",
                      NEW h \in hosts, NEW f \in FilesOf(t), result[t][h] # "none"
               PROVE  h \in effect[t][f]
    BY DEF CompletedMeansDone
  <2>1. h \in Hosts BY DEF Inv, TypeOK
  <2>2. DoneAll(t, h) BY <2>1 DEF Inv, TaskInv, Verdicts
  <2> QED BY <2>2 DEF DoneAll
<1>2. Inv /\ [Next]_vars => Inv' BY InvStep
<1> QED BY <1>1, <1>2, InvInit, PTL DEF Spec

\* A runner that is over has left no result and no item open, whatever other
\* requests wrote to them.
THEOREM AllClosed == Spec => []NothingLeftOpen
<1>1. Inv => NothingLeftOpen
  BY DEF Inv, TaskInv, Closed, NothingLeftOpen, RunnerAt
<1>2. Inv /\ [Next]_vars => Inv' BY InvStep
<1> QED BY <1>1, <1>2, InvInit, PTL DEF Spec
=============================================================================
