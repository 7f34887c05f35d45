----------------------------- MODULE DumpImport -----------------------------
(***************************************************************************)
(* The import of an SQL dump into MySQL: database_management/mysql_dump.py *)
(* import_dump, run by the one transfer worker, with the cancellation and  *)
(* the retry of transfers.py around it.                                    *)
(*                                                                         *)
(* A dump is a sequence of tables, each with the same batches of rows. The *)
(* target server is modelled by what it has committed (db) and by what the *)
(* session of the import sees (tx): a DDL statement commits whatever the   *)
(* session holds, a write to a non-transactional table is committed at     *)
(* once, and a rollback, a lost connection or a dead worker leaves db.     *)
(* Each try of the import is a task row of its own; a retry starts from    *)
(* the checkpoints of the try it repeats, whichever of them that is.       *)
(***************************************************************************)
EXTENDS Naturals, Sequences, FiniteSets

CONSTANTS
    NTables,           \* the tables of the file are 1..NTables, in file order
    NBatches,          \* batches of rows of a table
    NonTransactional,  \* tables whose engine has no transactions
    Policies,          \* the conflict policies a user may confirm
    MaxTries,          \* bound: tasks made of one file, the first one included
    MaxCrashes         \* bound: deaths of the worker

Tables == 1 .. NTables
Batches == 1 .. NBatches

ASSUME ShapeAssumption ==
    /\ NTables \in Nat \ {0} /\ NBatches \in Nat \ {0}
    /\ NonTransactional \subseteq Tables
    /\ Policies \subseteq {"append", "overwrite", "skip"}
    /\ MaxTries \in Nat \ {0} /\ MaxCrashes \in Nat

VARIABLES
    job,      \* what the user confirmed, and the tables that existed then
    db,       \* committed content of every table
    tx,       \* content as the session of the import sees it
    tries,    \* the task rows, oldest first
    pc,       \* where the worker is in import_dump
    cur,      \* the try it executes
    pos,      \* the table it is at
    batch,    \* the next batch of that table
    failed,   \* tables this try gave up (failures)
    crashes,  \* deaths of the worker so far
    redone    \* history: tables begun by a try that does not repeat one whose
              \* checkpoint calls them completed, and not completed since

vars == <<job, db, tx, tries, pc, cur, pos, batch, failed, crashes, redone>>
worker == <<cur, pos, batch, failed>>

-----------------------------------------------------------------------------
(* The target server. *)

\* A table that was there before keeps its rows in old; rows counts how often
\* each batch of the file is in it.
Empty == [exists |-> TRUE, old |-> FALSE, rows |-> [b \in Batches |-> 0]]
Absent == [Empty EXCEPT !.exists = FALSE]
Existing == [Empty EXCEPT !.old = TRUE]

\* A statement of the session that writes table t.
Write(t, content) ==
    /\ tx' = [tx EXCEPT ![t] = content]
    /\ db' = IF t \in NonTransactional THEN [db EXCEPT ![t] = content] ELSE db

\* A DDL statement commits the open transaction and then itself.
Ddl(t, content) ==
    /\ tx' = [tx EXCEPT ![t] = content]
    /\ db' = tx'

NoSql == UNCHANGED <<db, tx>>

CommitTx == db' = tx /\ UNCHANGED tx

\* Mutant: what a failed table wrote is left in the open transaction.
KeepTx == NoSql

RollbackTx == tx' = db /\ UNCHANGED db

-----------------------------------------------------------------------------
(* The task rows. *)

\* History: ddl are the tables whose structure this try has changed, line the try and
\* those it repeats (retry_of).
NewTry(cp, flag, line) ==
    [status |-> "queued", cp |-> cp, flag |-> flag, cancel |-> FALSE, ddl |-> {},
     line |-> line]

Ended == {"failed", "cancelled", "succeeded"}

LeaveImport == pc' = "idle" /\ cur' = 0 /\ pos' = 0 /\ batch' = 0 /\ failed' = {}

\* Mutant: the word of the other applications for a cancelled task.
EndAsCanceled(status) ==
    /\ tries' = [tries EXCEPT ![cur].status =
                    IF status = "cancelled" THEN "canceled" ELSE status]
    /\ LeaveImport

EndTry(status) ==
    /\ tries' = [tries EXCEPT ![cur].status = status]
    /\ LeaveImport

Checkpoint(t) ==
    tries' = [tries EXCEPT ![cur].cp = @ \cup {t}]

NextTable == pc' = "table" /\ pos' = pos + 1 /\ batch' = 1 /\ UNCHANGED cur

Init ==
    /\ job \in [policy: Policies, defined: SUBSET Tables, goOn: BOOLEAN,
                before: SUBSET Tables]
    /\ job.defined \cup job.before = Tables
    /\ db = [t \in Tables |-> IF t \in job.before THEN Existing ELSE Absent]
    /\ tx = db
    /\ tries = <<NewTry({}, FALSE, {1})>>
    /\ pc = "idle" /\ cur = 0 /\ pos = 0 /\ batch = 0 /\ failed = {}
    /\ crashes = 0 /\ redone = {}

-----------------------------------------------------------------------------
(* The worker. *)

\* Claims the oldest queued task and enters import_dump.
StartTry ==
    /\ pc = "idle"
    /\ \E a \in 1 .. Len(tries):
        /\ tries[a].status = "queued"
        /\ \A b \in 1 .. (a - 1): tries[b].status # "queued"
        /\ cur' = a
        /\ tries' = [tries EXCEPT ![a].status = "running"]
    /\ pc' = "table" /\ pos' = 1 /\ batch' = 1 /\ failed' = {}
    /\ tx' = db
    /\ UNCHANGED <<job, db, crashes, redone>>

InLoop == pc = "table" /\ pos \in Tables

\* A table that the checkpoints call completed is passed over.
PassCompleted ==
    /\ InLoop /\ pos \in tries[cur].cp
    /\ NextTable
    /\ UNCHANGED <<job, db, tx, tries, failed, crashes, redone>>

\* Policy skip: a table that exists counts as completed. The report before it,
\* as the one before any table, raises when the task is cancelled.
SkipExisting ==
    /\ InLoop /\ pos \notin tries[cur].cp /\ ~tries[cur].cancel
    /\ job.policy = "skip" /\ tx[pos].exists
    /\ Checkpoint(pos)
    /\ NextTable
    /\ UNCHANGED <<job, db, tx, failed, crashes, redone>>

\* The statements before the rows: a structure is replaced or created, a table
\* overwritten with rows only is emptied, otherwise the rows are appended.
\* The inspection has refused a file without the structure of a table that
\* does not exist, so a table that is created is defined.
Rebuilds(t) == \/ job.policy = "overwrite" /\ t \in job.defined
               \/ ~tx[t].exists
BeginTable ==
    /\ InLoop /\ pos \notin tries[cur].cp /\ ~tries[cur].cancel
    /\ ~(job.policy = "skip" /\ tx[pos].exists)
    /\ IF Rebuilds(pos)
         THEN pc' = "announce" /\ NoSql
         ELSE /\ pc' = "insert"
              /\ IF job.policy = "overwrite" THEN Write(pos, Empty) ELSE NoSql
    /\ redone' = IF \E a \in (1 .. Len(tries)) \ tries[cur].line: pos \in tries[a].cp
                   THEN redone \cup {pos} ELSE redone
    /\ UNCHANGED <<job, tries, worker, crashes>>

\* Mutant: DDL is announced only when the table is created.
AnnounceCreateOnly ==
    /\ pc = "announce"
    /\ tries' = [tries EXCEPT ![cur].flag = @ \/ ~tx[pos].exists]
    /\ pc' = IF tx[pos].exists THEN "drop" ELSE "create"
    /\ UNCHANGED <<job, db, tx, worker, crashes, redone>>

\* ddlMayBeCommitted is saved before each of the two statements.
Announce ==
    /\ pc = "announce"
    /\ tries' = [tries EXCEPT ![cur].flag = TRUE]
    /\ pc' = IF tx[pos].exists THEN "drop" ELSE "create"
    /\ UNCHANGED <<job, db, tx, worker, crashes, redone>>

DropTable ==
    /\ pc = "drop"
    /\ Ddl(pos, Absent)
    /\ tries' = [tries EXCEPT ![cur].ddl = @ \cup {pos}]
    /\ pc' = "announce"
    /\ UNCHANGED <<job, worker, crashes, redone>>

CreateTable ==
    /\ pc = "create"
    /\ Ddl(pos, Empty)
    /\ tries' = [tries EXCEPT ![cur].ddl = @ \cup {pos}]
    /\ pc' = "insert"
    /\ UNCHANGED <<job, worker, crashes, redone>>

\* flush_batch: the row is read again before every batch.
InsertBatch ==
    /\ pc = "insert" /\ batch \in Batches
    /\ ~tries[cur].cancel
    /\ Write(pos, [tx[pos] EXCEPT !.rows[batch] = @ + 1])
    /\ batch' = batch + 1
    /\ UNCHANGED <<job, tries, pc, cur, pos, failed, crashes, redone>>

Commit ==
    /\ pc = "insert" /\ batch = NBatches + 1
    /\ CommitTx
    /\ pc' = "report"
    /\ UNCHANGED <<job, tries, worker, crashes, redone>>

\* The forced report after the commit raises when the task is cancelled.
Report ==
    /\ pc = "report" /\ ~tries[cur].cancel
    /\ pc' = "save"
    /\ UNCHANGED <<job, db, tx, tries, worker, crashes, redone>>

SaveTable ==
    /\ pc = "save"
    /\ tries' = [tries EXCEPT ![cur].cp = @ \cup {pos},
                              ![cur].flag = @ /\ failed # {}]
    /\ NextTable
    /\ redone' = redone \ {pos}
    /\ UNCHANGED <<job, db, tx, failed, crashes>>

\* Any error of a statement, of the policy check or of a row: rolled back,
\* recorded, and the end of the try unless the user chose to continue.
GiveUpTable ==
    /\ pc \in {"drop", "create", "insert", "report"}
    /\ RollbackTx
    /\ IF job.goOn
         THEN failed' = failed \cup {pos} /\ NextTable /\ UNCHANGED tries
         ELSE EndTry("failed")
    /\ UNCHANGED <<job, crashes, redone>>

\* Revoked permissions or exhausted resources, looked at for every table and
\* batch, and a cancellation, looked at by every report and batch, end the try
\* at once; the finally clause rolls back.
Stop ==
    /\ InLoop \/ pc \in {"insert", "report"}
    /\ \/ /\ tries[cur].cancel
          /\ InLoop => (pos = 1 \/ pos \notin tries[cur].cp)
          /\ EndTry("cancelled")
       \/ EndTry("failed")
    /\ RollbackTx
    /\ UNCHANGED <<job, crashes, redone>>

\* The connection breaks. The server rolls the session back, but a statement
\* that was under way may have been carried out.
LoseConnection ==
    /\ pc \in {"drop", "create", "insert"}
    /\ \/ RollbackTx /\ EndTry("failed")
       \/ /\ pc = "insert" /\ batch = NBatches + 1
          /\ CommitTx /\ EndTry("failed")
       \/ /\ pc \in {"drop", "create"}
          /\ Ddl(pos, IF pc = "drop" THEN Absent ELSE Empty)
          /\ tries' = [tries EXCEPT ![cur].status = "failed",
                                    ![cur].ddl = @ \cup {pos}]
          /\ LeaveImport
    /\ UNCHANGED <<job, crashes, redone>>

\* Mutant: tables that were given up do not count.
FinishAnyway ==
    /\ pc = "table" /\ pos = NTables + 1
    /\ RollbackTx
    /\ EndTry("failed") \/ EndTry("succeeded")
    /\ UNCHANGED <<job, crashes, redone>>

\* After the last table: failures make the whole try fail, and so does an
\* error of the statements that close the session.
Finish ==
    /\ pc = "table" /\ pos = NTables + 1
    /\ RollbackTx
    /\ \/ EndTry("failed")
       \/ failed = {} /\ EndTry("succeeded")
    /\ UNCHANGED <<job, crashes, redone>>

\* The worker dies and leaves the row as it is; the server rolls back.
Crash ==
    /\ pc # "idle" /\ crashes < MaxCrashes
    /\ crashes' = crashes + 1
    /\ RollbackTx
    /\ LeaveImport
    /\ UNCHANGED <<job, tries, redone>>

\* The sweep of a later claim fails a running task past its timeout; one whose
\* cancellation was requested is no longer running and stays.
TimeOut(a) ==
    /\ pc = "idle"
    /\ tries[a].status = "running" /\ ~tries[a].cancel
    /\ tries' = [tries EXCEPT ![a].status = "failed"]
    /\ UNCHANGED <<job, db, tx, pc, worker, crashes, redone>>

-----------------------------------------------------------------------------
(* The user. *)

Cancel(a) ==
    /\ tries[a].status \in {"queued", "running"} /\ ~tries[a].cancel
    /\ tries' = [tries EXCEPT ![a].cancel = TRUE,
                    ![a].status = IF @ = "queued" THEN "cancelled" ELSE @]
    /\ UNCHANGED <<job, db, tx, pc, worker, crashes, redone>>

\* Mutant: a retry forgets the checkpoints.
RetryFromScratch(a) ==
    /\ tries[a].status \in {"failed", "cancelled"}
    /\ Len(tries) < MaxTries
    /\ tries' = Append(tries, NewTry({}, FALSE, tries[a].line \cup {Len(tries) + 1}))
    /\ UNCHANGED <<job, db, tx, pc, worker, crashes, redone>>

Retry(a) ==
    /\ tries[a].status \in {"failed", "cancelled"}
    /\ Len(tries) < MaxTries
    /\ tries' = Append(tries, NewTry(tries[a].cp, tries[a].flag,
                                     tries[a].line \cup {Len(tries) + 1}))
    /\ UNCHANGED <<job, db, tx, pc, worker, crashes, redone>>

-----------------------------------------------------------------------------
TableStep ==
    \/ PassCompleted \/ SkipExisting \/ BeginTable
    \/ Announce \/ DropTable \/ CreateTable
    \/ InsertBatch \/ Commit \/ Report \/ SaveTable
    \/ GiveUpTable \/ Stop \/ LoseConnection

Next ==
    \/ StartTry \/ TableStep \/ Finish \/ Crash
    \/ \E a \in 1 .. Len(tries): TimeOut(a) \/ Cancel(a) \/ Retry(a)

Spec == Init /\ [][Next]_vars

-----------------------------------------------------------------------------
(* Correctness. *)

TryRow ==
    [status: Ended \cup {"queued", "running"}, cp: SUBSET Tables,
     flag: BOOLEAN, cancel: BOOLEAN, ddl: SUBSET Tables, line: SUBSET (1 .. MaxTries)]
Content == [exists: BOOLEAN, old: BOOLEAN, rows: [Batches -> 0 .. MaxTries]]

\* Every variable has its type: a table holds a batch at most once per try.
TypeOK ==
    /\ job \in [policy: Policies, defined: SUBSET Tables, goOn: BOOLEAN,
                before: SUBSET Tables]
    /\ db \in [Tables -> Content] /\ tx \in [Tables -> Content]
    /\ tries \in Seq(TryRow) /\ Len(tries) \in 1 .. MaxTries
    /\ pc \in {"idle", "table", "announce", "drop", "create", "insert",
               "report", "save"}
    /\ cur \in 0 .. Len(tries) /\ pos \in 0 .. (NTables + 1)
    /\ batch \in 0 .. (NBatches + 1) /\ failed \subseteq Tables
    /\ crashes \in 0 .. MaxCrashes /\ redone \subseteq Tables

\* What the confirmed policy promises of table t: its rows are there, exactly
\* once and alone when it was to be overwritten, beside the old ones otherwise.
Imported(t) ==
    /\ db[t].exists
    /\ IF job.policy = "overwrite"
         THEN ~db[t].old /\ \A b \in Batches: db[t].rows[b] = 1
         ELSE /\ \A b \in Batches: db[t].rows[b] >= 1
              /\ t \in job.before => db[t].old

\* What the target keeps of a transactional table is all batches of a try or
\* none of them, whatever fails, is cancelled or dies, and whichever statement
\* of a later table commits the session (the rollbacks of import_dump).
AllOrNothing ==
    \A t \in Tables \ NonTransactional:
        \A b, c \in Batches: db[t].rows[b] = db[t].rows[c]

\* When a try reports success under append or overwrite every table of the file
\* is imported as the user confirmed, those that it took from the checkpoints of
\* earlier tries included: but for a table that another retry of such a try has
\* begun anew and left unfinished.  (For skip see SkippedMeansExisted.)
SucceededMeansImported ==
    [][\A a \in 1 .. Len(tries):
        ( /\ job.policy # "skip"
          /\ tries[a].status # "succeeded" /\ tries'[a].status = "succeeded" )
            => \A t \in Tables \ redone: Imported(t)']_vars

\* A try never changes a table that it, or a try it repeats, has completed,
\* neither in the target nor in what its session would commit.
CompletedStays ==
    [][pc # "idle" => \A a \in tries[cur].line: \A t \in tries[a].cp:
        db'[t] = db[t] /\ (pc' = "idle" \/ tx'[t] = tx[t])]_vars

\* A checkpoint is of a table that is there: what was completed is not done again by the
\* retries that took it over, and a try that succeeds has imported what was not.
CheckpointsHold == SucceededMeansImported /\ CompletedStays

\* Whenever the structure of a table was changed by a try that does not call
\* the table completed, the row says that DDL may have been committed: the
\* warning of the transfer center survives every end of the try.
LossIsAnnounced ==
    \A a \in 1 .. Len(tries):
        (tries[a].ddl \ tries[a].cp # {}) => tries[a].flag

\* A table that was not there before has its rows when a try under the policy
\* skip reports success: only tables that existed are to be skipped.
SkippedMeansExisted ==
    \A a \in 1 .. Len(tries):
        (tries[a].status = "succeeded" /\ job.policy = "skip")
            => \A t \in Tables \ job.before: Imported(t)

=============================================================================
