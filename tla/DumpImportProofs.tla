-------------------------- MODULE DumpImportProofs --------------------------
(***************************************************************************)
(* Theorems about DumpImport, for any number of tables, batches, tries and   *)
(* deaths of the worker: types, all or nothing of a transactional table, and *)
(* the announcement of what cannot be rolled back; and that checkpoints hold *)
(* for the tries that take them over.                                        *)
(*                                                                         *)
(* None of these is inductive.  What a rollback leaves depends on what the   *)
(* session sees beside what is committed (OneTableOpen), how often a batch   *)
(* can be in a table on which tries have begun (RowsBounded), what a stop    *)
(* leaves half done on the batch reached (PartlyInserted).  The flag of a    *)
(* try is cleared when a table is completed, so that it can be relied on     *)
(* only with what the try has changed so far (Announced).  Checkpoints pass  *)
(* along a line of tries (Lines) and stand for what a table has come to      *)
(* (Progress), until a try of another line begins the table anew.            *)
(***************************************************************************)
EXTENDS DumpImport, TLAPS

TryIds == 1 .. Len(tries)

\* Where the worker is: on a running try, at a table of the file, at a batch.
Where ==
    /\ cur = 0 <=> pc = "idle"
    /\ pc # "idle" => tries[cur].status = "running" /\ pos >= 1 /\ batch >= 1
    /\ pc \notin {"idle", "table"} => pos \in Tables
    /\ pc \in {"table", "announce", "drop", "create"} => batch = 1
    /\ pc \in {"report", "save"} => batch = NBatches + 1
    /\ \A a \in TryIds: tries[a].status = "queued" => cur < a /\ tries[a].ddl = {}

\* Only while the rows of a table are inserted does the session see what is not
\* committed, and only in that table.
OneTableOpen ==
    /\ pc # "insert" => tx = db
    /\ \A t \in Tables: t # pos => tx[t] = db[t]

\* A batch is in a table at most once for every try that has begun, and one that
\* the current try has yet to insert once for every try before it.
ToCome(t, b) == t > pos \/ (t = pos /\ b >= batch)
RowsBounded(content) ==
    \A t \in Tables, b \in Batches:
        /\ content[t].rows[b] <= Len(tries)
        /\ \A a \in TryIds: tries[a].status = "queued" => content[t].rows[b] < a
        /\ pc # "idle" => content[t].rows[b] <= cur
        /\ pc # "idle" /\ ToCome(t, b) => content[t].rows[b] < cur

\* The batches already inserted into the open table have been inserted once
\* more than those to come.
PartlyInserted ==
    pc = "insert" /\ pos \notin NonTransactional =>
        \A b, c \in Batches:
            /\ (b < batch <=> c < batch) => tx[pos].rows[b] = tx[pos].rows[c]
            /\ b < batch /\ ~(c < batch) => tx[pos].rows[b] = tx[pos].rows[c] + 1

\* A changed structure is announced before it is changed, and forgotten only
\* when no table was given up.
Announced ==
    /\ pc \in {"drop", "create"} => tries[cur].flag
    /\ pc = "table" => tries[cur].ddl \subseteq tries[cur].cp \cup failed
    /\ pc # "idle" => tries[cur].ddl \subseteq tries[cur].cp \cup failed \cup {pos}

TypeInv == TypeOK /\ Where /\ RowsBounded(db) /\ RowsBounded(tx)
AtomicInv == OneTableOpen /\ AllOrNothing /\ PartlyInserted
LossInv == LossIsAnnounced /\ Announced

\* A try holds the checkpoints of all the tries it repeats, which have ended, and works
\* on no table it holds one of; one that another line holds is begun anew.
Lines ==
    /\ \A a \in TryIds: a \in tries[a].line /\ tries[a].line \subseteq TryIds
    /\ \A a \in TryIds: \A b \in tries[a].line:
         /\ tries[b].cp \subseteq tries[a].cp
         /\ b # a => tries[b].status \in {"failed", "cancelled"}
    /\ pc \notin {"idle", "table"} =>
         /\ pos \notin tries[cur].cp
         /\ \A a \in TryIds: pos \in tries[a].cp => pos \in redone

\* What was there before is kept unless it is to be overwritten.
OldKept ==
    job.policy # "overwrite" =>
        \A t \in job.before: db[t].exists /\ db[t].old /\ tx[t].old

\* How far the table has come, and the tables before it.
ProgressAt ==
    /\ pc \in {"announce", "drop"} /\ tx[pos].exists => job.policy = "overwrite"
    /\ pc = "drop" => tx[pos].exists
    /\ pc = "create" => ~tx[pos].exists
    /\ pc = "insert" => /\ tx[pos].exists
                        /\ \A b \in Batches: b < batch => tx[pos].rows[b] >= 1
    /\ pc = "insert" /\ job.policy = "overwrite" =>
         /\ ~tx[pos].old
         /\ \A b \in Batches: tx[pos].rows[b] = IF b < batch THEN 1 ELSE 0
    /\ pc \in {"report", "save"} /\ job.policy # "skip" => Imported(pos)
Progress ==
    /\ ProgressAt
    /\ pc # "idle" => \A t \in Tables: t < pos => t \in tries[cur].cp \cup failed
    /\ job.policy # "skip" => \A a \in TryIds: \A t \in tries[a].cp \ redone: Imported(t)

CheckpointInv == Lines /\ OldKept /\ Progress

Inv == TypeInv /\ AtomicInv /\ LossInv /\ CheckpointInv

\* What a try and those it repeats have completed stays as it is over a step:
\* CompletedStays.
Stays ==
    pc # "idle" => \A a \in tries[cur].line: \A t \in tries[a].cp:
        db'[t] = db[t] /\ (pc' = "idle" \/ tx'[t] = tx[t])
----------------------------------------------------------------------------
(* The task rows. *)

\* What a step does to one task row, and that it does nothing to the others.
TryEffect(a, status, cp, flag, ddl) ==
    /\ tries' \in Seq(TryRow) /\ Len(tries') = Len(tries)
    /\ \A b \in TryIds: b # a => tries'[b] = tries[b]
    /\ tries'[a].status = status /\ tries'[a].cp = cp
    /\ tries'[a].flag = flag /\ tries'[a].ddl = ddl
    /\ tries'[a].line = tries[a].line

LEMMA SetTry ==
  ASSUME tries \in Seq(TryRow), NEW a \in TryIds, NEW v \in TryRow, v.line = tries[a].line,
         tries' = [tries EXCEPT ![a] = v]
  PROVE  TryEffect(a, v.status, v.cp, v.flag, v.ddl)
BY DEF TryEffect, TryIds

LEMMA TryTyped ==
  ASSUME tries \in Seq(TryRow), NEW a \in TryIds
  PROVE  /\ tries[a] \in TryRow /\ tries[a].status \in Ended \cup {"queued", "running"}
         /\ tries[a].cp \subseteq Tables /\ tries[a].ddl \subseteq Tables
         /\ tries[a].flag \in BOOLEAN /\ tries[a].cancel \in BOOLEAN
         /\ tries[a].line \subseteq 1 .. MaxTries
<1>1. tries[a] \in TryRow BY DEF TryIds
<1> QED BY <1>1 DEF TryRow

LEMMA SetStatus ==
  ASSUME tries \in Seq(TryRow), NEW a \in TryIds, NEW s \in Ended \cup {"queued", "running"},
         tries' = [tries EXCEPT ![a].status = s]
  PROVE  TryEffect(a, s, tries[a].cp, tries[a].flag, tries[a].ddl)
<1>1. tries[a] \in TryRow BY TryTyped
<1> DEFINE v == [tries[a] EXCEPT !.status = s]
<1>2. v \in TryRow /\ v.line = tries[a].line /\ v.status = s /\ v.cp = tries[a].cp /\ v.flag = tries[a].flag /\ v.ddl = tries[a].ddl
  BY <1>1 DEF TryRow
<1>3. tries' = [tries EXCEPT ![a] = v] OBVIOUS
<1> HIDE DEF v
<1>4. TryEffect(a, v.status, v.cp, v.flag, v.ddl) BY <1>2, <1>3, SetTry
<1> QED BY <1>2, <1>4

LEMMA SetCancel ==
  ASSUME tries \in Seq(TryRow), NEW a \in TryIds, NEW s \in Ended \cup {"queued", "running"},
         tries' = [tries EXCEPT ![a].cancel = TRUE, ![a].status = s]
  PROVE  TryEffect(a, s, tries[a].cp, tries[a].flag, tries[a].ddl)
<1>1. tries[a] \in TryRow BY TryTyped
<1> DEFINE v == [tries[a] EXCEPT !.cancel = TRUE, !.status = s]
<1>2. v \in TryRow /\ v.line = tries[a].line /\ v.status = s /\ v.cp = tries[a].cp /\ v.flag = tries[a].flag /\ v.ddl = tries[a].ddl
  BY <1>1 DEF TryRow
<1>3. tries' = [tries EXCEPT ![a] = v] OBVIOUS
<1> HIDE DEF v
<1>4. TryEffect(a, v.status, v.cp, v.flag, v.ddl) BY <1>2, <1>3, SetTry
<1> QED BY <1>2, <1>4

LEMMA SetFlag ==
  ASSUME tries \in Seq(TryRow), NEW a \in TryIds, NEW f \in BOOLEAN,
         tries' = [tries EXCEPT ![a].flag = f]
  PROVE  TryEffect(a, tries[a].status, tries[a].cp, f, tries[a].ddl)
<1>1. tries[a] \in TryRow BY TryTyped
<1> DEFINE v == [tries[a] EXCEPT !.flag = f]
<1>2. v \in TryRow /\ v.line = tries[a].line /\ v.status = tries[a].status /\ v.cp = tries[a].cp /\ v.flag = f /\ v.ddl = tries[a].ddl
  BY <1>1 DEF TryRow
<1>3. tries' = [tries EXCEPT ![a] = v] OBVIOUS
<1> HIDE DEF v
<1>4. TryEffect(a, v.status, v.cp, v.flag, v.ddl) BY <1>2, <1>3, SetTry
<1> QED BY <1>2, <1>4

LEMMA SetDdl ==
  ASSUME tries \in Seq(TryRow), NEW a \in TryIds, NEW t \in Tables,
         NEW s \in Ended \cup {"queued", "running"},
         tries' = [tries EXCEPT ![a].status = s, ![a].ddl = @ \cup {t}]
  PROVE  TryEffect(a, s, tries[a].cp, tries[a].flag, tries[a].ddl \cup {t})
<1>1. tries[a] \in TryRow BY TryTyped
<1> DEFINE v == [tries[a] EXCEPT !.status = s, !.ddl = @ \cup {t}]
<1>2. v \in TryRow /\ v.line = tries[a].line /\ v.status = s /\ v.cp = tries[a].cp /\ v.flag = tries[a].flag
      /\ v.ddl = tries[a].ddl \cup {t}
  BY <1>1 DEF TryRow
<1>3. tries' = [tries EXCEPT ![a] = v] OBVIOUS
<1> HIDE DEF v
<1>4. TryEffect(a, v.status, v.cp, v.flag, v.ddl) BY <1>2, <1>3, SetTry
<1> QED BY <1>2, <1>4

LEMMA SetCheckpoint ==
  ASSUME tries \in Seq(TryRow), NEW a \in TryIds, NEW t \in Tables, NEW f \in BOOLEAN,
         tries' = [tries EXCEPT ![a].cp = @ \cup {t}, ![a].flag = f]
  PROVE  TryEffect(a, tries[a].status, tries[a].cp \cup {t}, f, tries[a].ddl)
<1>1. tries[a] \in TryRow BY TryTyped
<1> DEFINE v == [tries[a] EXCEPT !.cp = @ \cup {t}, !.flag = f]
<1>2. v \in TryRow /\ v.line = tries[a].line /\ v.status = tries[a].status /\ v.cp = tries[a].cp \cup {t} /\ v.flag = f
      /\ v.ddl = tries[a].ddl
  BY <1>1 DEF TryRow
<1>3. tries' = [tries EXCEPT ![a] = v] OBVIOUS
<1> HIDE DEF v
<1>4. TryEffect(a, v.status, v.cp, v.flag, v.ddl) BY <1>2, <1>3, SetTry
<1> QED BY <1>2, <1>4

LEMMA KeepTry ==
  ASSUME tries \in Seq(TryRow), NEW a \in TryIds, UNCHANGED tries
  PROVE  TryEffect(a, tries[a].status, tries[a].cp, tries[a].flag, tries[a].ddl)
BY DEF TryEffect, TryIds
----------------------------------------------------------------------------
(* The worker at work. *)

\* The numbers of a try at work, and what it and its tables can be.
LEMMA AtWork ==
  ASSUME TypeInv, pc # "idle"
  PROVE  /\ cur \in TryIds /\ cur \in Nat /\ cur >= 1 /\ Len(tries) \in Nat
         /\ Len(tries) <= MaxTries /\ MaxTries \in Nat /\ NTables \in Nat /\ NBatches \in Nat
         /\ NBatches >= 1 /\ pos \in 1 .. (NTables + 1) /\ batch \in 1 .. (NBatches + 1)
         /\ tries \in Seq(TryRow) /\ tries[cur].status = "running"
         /\ \A a \in TryIds: tries[a].status = "queued" => cur < a
BY ShapeAssumption DEF TypeInv, TypeOK, Where, TryIds

\* The try at work is of its own line only, and holds what its line holds.
LEMMA LineAtWork ==
  ASSUME TypeInv, Lines, pc # "idle"
  PROVE  /\ cur \in TryIds /\ tries[cur].line \subseteq TryIds
         /\ \A a \in tries[cur].line: tries[a].cp \subseteq tries[cur].cp
         /\ \A a \in TryIds: cur \in tries[a].line => a = cur
<1>1. cur \in TryIds /\ tries[cur].status = "running" BY AtWork
<1> QED BY <1>1 DEF Lines

\* What the target may be left with in the table the try is at.
Left(content) ==
    /\ content \in Content
    /\ \A b \in Batches: content.rows[b] <= cur
    /\ pos \notin NonTransactional => \A b, c \in Batches: content.rows[b] = content.rows[c]
    /\ job.policy # "overwrite" /\ pos \in job.before =>
         content.exists /\ content.old

\* The try leaves the target as it was, but perhaps for the table it is at.
Leaves ==
    /\ tx' = db' /\ db' \in [Tables -> Content]
    /\ \A t \in Tables: db'[t] = db[t] \/ (t = pos /\ pc \notin {"idle", "table"} /\ Left(db'[t]))

\* However a try ends, the target and the task rows are as they should be.
LEMMA LeaveKeeps ==
  ASSUME Inv, pc # "idle", LeaveImport, Leaves, UNCHANGED <<job, redone>>, crashes' \in 0 .. MaxCrashes,
         NEW s \in Ended \cup {"running"}, NEW d \in SUBSET Tables,
         TryEffect(cur, s, tries[cur].cp, tries[cur].flag, d),
         tries[cur].ddl \subseteq d,
         d = tries[cur].ddl \/ tries[cur].flag
  PROVE  Inv' /\ Stays
<1> USE DEF Inv
<1>1. TypeInv OBVIOUS
<1>2. /\ cur \in TryIds /\ cur \in Nat /\ cur >= 1 /\ Len(tries) \in Nat
      /\ Len(tries) <= MaxTries /\ MaxTries \in Nat /\ NTables \in Nat /\ NBatches \in Nat
      /\ NBatches >= 1
      /\ tries \in Seq(TryRow) /\ tries[cur].status = "running"
      /\ \A a \in TryIds: tries[a].status = "queued" => cur < a
  BY <1>1, AtWork
<1>3. /\ tries' \in Seq(TryRow) /\ Len(tries') = Len(tries) /\ TryIds' = TryIds
      /\ \A b \in TryIds: b # cur => tries'[b] = tries[b]
      /\ tries'[cur].status = s /\ tries'[cur].cp = tries[cur].cp
      /\ tries'[cur].flag = tries[cur].flag /\ tries'[cur].ddl = d
      /\ tries'[cur].line = tries[cur].line
  BY DEF TryEffect, TryIds
<1>4. pc' = "idle" /\ cur' = 0 /\ pos' = 0 /\ batch' = 0 /\ failed' = {} BY DEF LeaveImport
<1>5. tx' = db' /\ db' \in [Tables -> Content] BY DEF Leaves
<1>6. TypeOK'
  <2>1. cur' \in 0 .. Len(tries') /\ pos' \in 0 .. (NTables + 1) /\ batch' \in 0 .. (NBatches + 1)
    BY <1>2, <1>3, <1>4
  <2> QED BY <1>1, <1>3, <1>4, <1>5, <2>1 DEF TypeInv, TypeOK
<1>7. Where'
  <2>1. \A a \in TryIds: tries'[a].status = "queued" => a # cur /\ 0 < a
    BY <1>3 DEF TryIds, Ended
  <2>2. \A a \in TryIds: tries'[a].status = "queued" => tries'[a].ddl = {}
    BY <1>1, <1>3, <2>1 DEF TypeInv, Where
  <2> QED BY <1>3, <1>4, <2>1, <2>2 DEF Where
<1>8. RowsBounded(db)' /\ RowsBounded(tx)'
  <2>1. ASSUME NEW t \in Tables, NEW b \in Batches
        PROVE  /\ db'[t].rows[b] <= Len(tries)
               /\ \A a \in TryIds: tries'[a].status = "queued" => db'[t].rows[b] < a
    <3>1. db'[t].rows[b] \in Nat BY <1>5 DEF Content
    <3>2. CASE db'[t] = db[t]
      <4>1. /\ db[t].rows[b] <= Len(tries)
            /\ \A a \in TryIds: tries[a].status = "queued" => db[t].rows[b] < a
        BY <1>1 DEF TypeInv, RowsBounded
      <4>2. \A a \in TryIds: tries'[a].status = "queued" => tries[a].status = "queued"
        BY <1>3 DEF Ended
      <4> QED BY <3>2, <4>1, <4>2
    <3>3. CASE Left(db'[t])
      <4>1. db'[t].rows[b] <= cur BY <3>3 DEF Left
      <4>2. \A a \in TryIds: tries'[a].status = "queued" => cur < a BY <1>2, <1>3 DEF Ended
      <4>3. cur <= Len(tries) /\ TryIds \subseteq Nat BY <1>2 DEF TryIds
      <4> QED BY <1>2, <3>1, <4>1, <4>2, <4>3
    <3> QED BY <3>2, <3>3 DEF Leaves
  <2> QED BY <1>3, <1>4, <1>5, <2>1 DEF RowsBounded
<1>9. AtomicInv'
  <2>1. ASSUME NEW t \in Tables \ NonTransactional, NEW b \in Batches, NEW c \in Batches
        PROVE  db'[t].rows[b] = db'[t].rows[c]
    BY DEF Leaves, Left, AtomicInv, AllOrNothing
  <2> QED BY <1>4, <1>5, <2>1 DEF AtomicInv, OneTableOpen, AllOrNothing, PartlyInserted
<1>10. LossInv'
  <2>1. \A a \in TryIds: (tries'[a].ddl \ tries'[a].cp # {}) => tries'[a].flag
    BY <1>3 DEF LossInv, LossIsAnnounced, TryIds
  <2> QED BY <1>3, <1>4, <2>1 DEF LossInv, LossIsAnnounced, TryIds, Announced
<1>11. CheckpointInv' /\ Stays
  <2>1. Lines /\ OldKept /\ Progress BY DEF CheckpointInv
  <2>2. /\ tries[cur].line \subseteq TryIds
        /\ \A a \in tries[cur].line: tries[a].cp \subseteq tries[cur].cp
        /\ \A a \in TryIds: cur \in tries[a].line => a = cur
    BY <1>1, <2>1, LineAtWork
  <2>3. \A a \in TryIds: tries'[a].cp = tries[a].cp /\ tries'[a].line = tries[a].line BY <1>3
  <2>4. Lines'
    <3>1. \A a \in TryIds: a \in tries'[a].line /\ tries'[a].line \subseteq TryIds
      BY <2>1, <2>3 DEF Lines
    <3>2. \A a \in TryIds: \A b \in tries'[a].line: b \in TryIds /\ tries'[b].cp \subseteq tries'[a].cp
      BY <2>1, <2>3 DEF Lines
    <3>3. \A a \in TryIds: \A b \in tries'[a].line: b # a => tries'[b].status \in {"failed", "cancelled"}
      <4> SUFFICES ASSUME NEW a \in TryIds, NEW b \in tries[a].line, b # a
                   PROVE  tries'[b].status \in {"failed", "cancelled"}
        BY <2>3
      <4>1. b \in TryIds /\ b # cur /\ tries[b].status \in {"failed", "cancelled"}
        BY <2>1, <2>2 DEF Lines
      <4> QED BY <1>3, <4>1
    <3> QED BY <1>3, <1>4, <3>1, <3>2, <3>3 DEF Lines
  <2>5. \A t \in Tables: (t \in tries[cur].cp \/ (t \notin redone /\ \E a \in TryIds: t \in tries[a].cp))
                            => db'[t] = db[t]
    BY <2>1 DEF Leaves, Lines
  <2>6. OldKept'
    <3>1. job.before \subseteq Tables BY <1>1 DEF TypeInv, TypeOK
    <3> QED BY <1>5, <2>1, <3>1 DEF OldKept, Leaves, Left
  <2>7. Progress'
    <3>1. \A a \in TryIds: tries[a].cp \subseteq Tables BY <1>2, TryTyped
    <3>2. \A a \in TryIds: \A t \in tries[a].cp \ redone: Imported(t)' <=> Imported(t)
      BY <2>5, <3>1 DEF Imported
    <3> QED BY <1>3, <1>4, <2>1, <2>3, <3>2 DEF Progress, ProgressAt
  <2>8. Stays
    <3>1. tries[cur].cp \subseteq Tables BY <1>2, TryTyped
    <3> QED BY <1>4, <2>2, <2>5, <3>1 DEF Stays
  <2> QED BY <2>4, <2>6, <2>7, <2>8 DEF CheckpointInv
<1> QED BY <1>5, <1>6, <1>7, <1>8, <1>9, <1>10, <1>11 DEF TypeInv, Leaves

\* A table that was not being changed is left: with its rows when it is newly
\* called completed, or given up.
LEMMA NextTableKeeps ==
  ASSUME Inv, pc # "idle", pos \in Tables, NextTable, tx' = db, db' = db,
         UNCHANGED <<job, crashes>>,
         NEW cp \in SUBSET Tables, NEW f \in BOOLEAN,
         TryEffect(cur, "running", cp, f, tries[cur].ddl),
         tries[cur].cp \subseteq cp, cp \subseteq tries[cur].cp \cup {pos},
         failed \subseteq failed', failed' \subseteq failed \cup {pos}, pos \in cp \cup failed',
         f = tries[cur].flag \/ tries[cur].ddl \subseteq cp,
         pos \notin tries[cur].cp /\ pos \in cp /\ job.policy # "skip" => Imported(pos),
         redone' = redone \/ (redone' = redone \ {pos} /\ (job.policy # "skip" => Imported(pos)))
  PROVE  Inv' /\ Stays
<1> USE DEF Inv
<1>1. TypeInv OBVIOUS
<1>2. /\ cur \in TryIds /\ cur \in Nat /\ cur >= 1 /\ Len(tries) \in Nat
      /\ Len(tries) <= MaxTries /\ MaxTries \in Nat /\ NTables \in Nat /\ NBatches \in Nat
      /\ NBatches >= 1 /\ pos \in 1 .. NTables /\ pos \in Nat
      /\ tries \in Seq(TryRow) /\ tries[cur].status = "running"
      /\ \A a \in TryIds: tries[a].status = "queued" => cur < a
  BY <1>1, AtWork DEF Tables
<1>3. /\ tries' \in Seq(TryRow) /\ Len(tries') = Len(tries) /\ TryIds' = TryIds
      /\ \A b \in TryIds: b # cur => tries'[b] = tries[b]
      /\ tries'[cur].status = "running" /\ tries'[cur].cp = cp
      /\ tries'[cur].flag = f /\ tries'[cur].ddl = tries[cur].ddl
      /\ tries'[cur].line = tries[cur].line
  BY DEF TryEffect, TryIds
<1>4. pc' = "table" /\ pos' = pos + 1 /\ batch' = 1 /\ cur' = cur BY DEF NextTable
<1>5. failed' \subseteq Tables BY <1>1 DEF TypeInv, TypeOK
<1>6. TypeOK'
  <2>1. cur' \in 0 .. Len(tries') /\ pos' \in 0 .. (NTables + 1) /\ batch' \in 0 .. (NBatches + 1)
    BY <1>2, <1>3, <1>4 DEF TryIds
  <2> QED BY <1>1, <1>3, <1>4, <1>5, <2>1 DEF TypeInv, TypeOK
<1>7. Where'
  <2>1. \A a \in TryIds: tries'[a].status = "queued" => cur < a /\ tries'[a].ddl = {}
    BY <1>1, <1>2, <1>3 DEF TypeInv, Where
  <2>2. pos' >= 1 /\ cur # 0 BY <1>2, <1>4
  <2> QED BY <1>3, <1>4, <2>1, <2>2 DEF Where
<1>8. RowsBounded(db)' /\ RowsBounded(tx)'
  <2>1. ASSUME NEW t \in Tables, NEW b \in Batches
        PROVE  /\ db[t].rows[b] <= Len(tries)
               /\ \A a \in TryIds: tries'[a].status = "queued" => db[t].rows[b] < a
               /\ db[t].rows[b] <= cur
               /\ ToCome(t, b)' => db[t].rows[b] < cur
    <3>1. ToCome(t, b)' => ToCome(t, b) BY <1>2, <1>4 DEF ToCome, Tables
    <3>2. \A a \in TryIds: tries'[a].status = "queued" => tries[a].status = "queued" BY <1>3
    <3> QED BY <1>1, <3>1, <3>2 DEF TypeInv, RowsBounded
  <2> QED BY <1>3, <1>4, <2>1 DEF RowsBounded
<1>9. AtomicInv' BY <1>4 DEF AtomicInv, OneTableOpen, AllOrNothing, PartlyInserted
<1>10. LossInv'
  <2>1. tries[cur].ddl \subseteq tries[cur].cp \cup failed \cup {pos} BY DEF LossInv, Announced
  <2>2. tries'[cur].ddl \subseteq tries'[cur].cp \cup failed' BY <1>3, <2>1
  <2>3. \A a \in TryIds: (tries'[a].ddl \ tries'[a].cp # {}) => tries'[a].flag
    <3> SUFFICES ASSUME NEW a \in TryIds, tries'[a].ddl \ tries'[a].cp # {} PROVE tries'[a].flag
      OBVIOUS
    <3>1. (tries[a].ddl \ tries[a].cp # {}) => tries[a].flag BY DEF LossInv, LossIsAnnounced, TryIds
    <3>2. CASE a = cur BY <1>3, <3>1, <3>2
    <3>3. CASE a # cur BY <1>3, <3>1, <3>3
    <3> QED BY <3>2, <3>3
  <2> QED BY <1>3, <1>4, <2>2, <2>3 DEF LossInv, LossIsAnnounced, TryIds, Announced
<1>11. CheckpointInv' /\ Stays
  <2>1. Lines /\ OldKept /\ Progress BY DEF CheckpointInv
  <2>2. /\ tries[cur].line \subseteq TryIds
        /\ \A a \in tries[cur].line: tries[a].cp \subseteq tries[cur].cp
        /\ \A a \in TryIds: cur \in tries[a].line => a = cur
    BY <1>1, <2>1, LineAtWork
  <2>3. /\ \A a \in TryIds: tries'[a].line = tries[a].line /\ tries'[a].status = tries[a].status
        /\ \A a \in TryIds: a # cur => tries'[a].cp = tries[a].cp
    BY <1>2, <1>3
  <2>4. Lines'
    <3>1. \A a \in TryIds: a \in tries'[a].line /\ tries'[a].line \subseteq TryIds
      BY <2>1, <2>3 DEF Lines
    <3>2. ASSUME NEW a \in TryIds, NEW b \in tries[a].line
          PROVE  tries'[b].cp \subseteq tries'[a].cp /\ (b # a => tries'[b].status \in {"failed", "cancelled"})
      <4>1. /\ b \in TryIds /\ tries[b].cp \subseteq tries[a].cp
            /\ b # a => tries[b].status \in {"failed", "cancelled"}
        BY <2>1 DEF Lines
      <4>2. b # a => b # cur BY <2>2
      <4>3. CASE b = a BY <4>3
      <4>4. CASE b # a /\ a = cur
        <5>1. tries'[b].cp = tries[b].cp BY <2>3, <4>1, <4>2, <4>4
        <5>2. tries'[a].cp = cp /\ tries[a].cp \subseteq cp BY <1>3, <4>4
        <5> QED BY <2>3, <4>1, <5>1, <5>2
      <4>5. CASE b # a /\ a # cur BY <2>3, <4>1, <4>2, <4>5
      <4> QED BY <4>3, <4>4, <4>5
    <3> QED BY <1>3, <1>4, <2>3, <3>1, <3>2 DEF Lines
  <2>5. OldKept'
    <3>1. OldKept /\ \A t \in job.before: job.policy # "overwrite" => db[t].old BY <2>1 DEF OldKept
    <3> QED BY <3>1 DEF OldKept
  <2>6. Progress'
    <3>1. \A t \in Tables: t < pos' => t \in tries'[cur'].cp \cup failed'
      <4> SUFFICES ASSUME NEW t \in Tables, t < pos' PROVE t \in cp \cup failed' BY <1>3, <1>4
      <4>1. t < pos \/ t = pos BY <1>2, <1>4 DEF Tables
      <4>2. t < pos => t \in tries[cur].cp \cup failed BY <2>1 DEF Progress, ProgressAt
      <4> QED BY <4>1, <4>2
    <3>2. ASSUME job.policy # "skip", NEW a \in TryIds, NEW t \in tries'[a].cp \ redone'
          PROVE  Imported(t)'
      <4>1. t = pos \/ (t \in tries[a].cp /\ t \notin redone) BY <1>3, <2>3
      <4>2. \A c \in TryIds: \A e \in tries[c].cp \ redone: Imported(e)
        BY <2>1, <3>2 DEF Progress
      <4>3. CASE t \in tries[a].cp \ redone BY <4>2, <4>3 DEF Imported
      <4>4. CASE t = pos
        <5>1. CASE redone' # redone BY <3>2, <4>4, <5>1 DEF Imported
        <5>2. CASE redone' = redone /\ pos \in tries[cur].cp
          <6>1. pos \in tries[cur].cp \ redone BY <4>4, <5>2
          <6> QED BY <1>2, <4>2, <4>4, <6>1 DEF Imported
        <5>3. CASE redone' = redone /\ pos \notin tries[cur].cp
          <6>1. a # cur => t \in tries[a].cp \ redone BY <2>3, <5>3
          <6>2. a = cur => pos \in cp BY <1>3, <4>4
          <6> QED BY <3>2, <4>2, <4>4, <5>3, <6>1, <6>2 DEF Imported
        <5> QED BY <5>1, <5>2, <5>3
      <4> QED BY <4>1, <4>3, <4>4
    <3> QED BY <1>3, <1>4, <3>1, <3>2 DEF Progress, ProgressAt
  <2>7. Stays
    <3>1. \A t \in Tables: t # pos => tx[t] = db[t] BY DEF AtomicInv, OneTableOpen
    <3>2. pos \in tries[cur].cp => pc = "table" BY <2>1 DEF Lines
    <3>3. pc = "table" => tx = db BY DEF AtomicInv, OneTableOpen
    <3>4. tries[cur].cp \subseteq Tables BY <1>2, TryTyped
    <3> QED BY <2>2, <3>1, <3>2, <3>3, <3>4 DEF Stays
  <2> QED BY <2>4, <2>5, <2>6, <2>7 DEF CheckpointInv
<1> QED BY <1>6, <1>7, <1>8, <1>9, <1>10, <1>11 DEF TypeInv

\* What a batch count may be after a step at the table.
CountsAt(content) ==
    \A b \in Batches: /\ content.rows[b] <= cur
                      /\ b >= batch' => content.rows[b] < cur

\* A step at the table: statement after statement, the try goes on with it.
LEMMA AtTableKeeps ==
  ASSUME Inv, pc # "idle", pos \in Tables, UNCHANGED <<job, cur, pos, failed, crashes>>,
         pc' \in {"announce", "drop", "create", "insert", "report", "save"},
         batch' \in 1 .. (NBatches + 1),
         pc' \in {"announce", "drop", "create"} => batch' = 1,
         pc' \in {"report", "save"} => batch' = NBatches + 1,
         db' \in [Tables -> Content], tx' \in [Tables -> Content],
         \A t \in Tables: t # pos => tx'[t] = tx[t] /\ db'[t] = db[t],
         CountsAt(db'[pos]), CountsAt(tx'[pos]),
         pos \notin NonTransactional => \A b, c \in Batches: db'[pos].rows[b] = db'[pos].rows[c],
         pc' # "insert" => tx'[pos] = db'[pos],
         PartlyInserted',
         NEW f \in BOOLEAN, NEW d \in SUBSET Tables,
         TryEffect(cur, "running", tries[cur].cp, f, d),
         tries[cur].flag => f, pc' \in {"drop", "create"} => f,
         tries[cur].ddl \subseteq d, d \subseteq tries[cur].ddl \cup {pos},
         d = tries[cur].ddl \/ f,
         pos \notin tries[cur].cp, ProgressAt',
         job.policy # "overwrite" /\ pos \in job.before =>
           db'[pos].exists /\ db'[pos].old /\ tx'[pos].old,
         redone \subseteq redone', redone' \subseteq redone \cup {pos},
         \A a \in TryIds: pos \in tries[a].cp => pos \in redone'
  PROVE  Inv' /\ Stays
<1> USE DEF Inv
<1>1. TypeInv OBVIOUS
<1>2. /\ cur \in TryIds /\ cur \in Nat /\ cur >= 1 /\ Len(tries) \in Nat
      /\ Len(tries) <= MaxTries /\ MaxTries \in Nat /\ NTables \in Nat /\ NBatches \in Nat
      /\ NBatches >= 1 /\ pos \in 1 .. NTables /\ pos \in Nat
      /\ tries \in Seq(TryRow) /\ tries[cur].status = "running"
      /\ \A a \in TryIds: tries[a].status = "queued" => cur < a
  BY <1>1, AtWork DEF Tables
<1>3. /\ tries' \in Seq(TryRow) /\ Len(tries') = Len(tries) /\ TryIds' = TryIds
      /\ \A b \in TryIds: b # cur => tries'[b] = tries[b]
      /\ tries'[cur].status = "running" /\ tries'[cur].cp = tries[cur].cp
      /\ tries'[cur].flag = f /\ tries'[cur].ddl = d
      /\ tries'[cur].line = tries[cur].line
  BY DEF TryEffect, TryIds
<1>4. TypeOK'
  <2>1. cur' \in 0 .. Len(tries') /\ pos' \in 0 .. (NTables + 1) /\ batch' \in 0 .. (NBatches + 1)
    BY <1>2, <1>3 DEF TryIds
  <2> QED BY <1>1, <1>3, <2>1 DEF TypeInv, TypeOK
<1>5. Where'
  <2>1. \A a \in TryIds: tries'[a].status = "queued" => cur < a /\ tries'[a].ddl = {}
    BY <1>1, <1>2, <1>3 DEF TypeInv, Where
  <2> QED BY <1>2, <1>3, <2>1 DEF Where
<1>6. RowsBounded(db)' /\ RowsBounded(tx)'
  <2>1. \A a \in TryIds: tries'[a].status = "queued" => tries[a].status = "queued" /\ cur < a
    BY <1>2, <1>3
  <2>2. TryIds \subseteq Nat BY DEF TryIds
  <2>3. ASSUME NEW t \in Tables, NEW b \in Batches
        PROVE  /\ db'[t].rows[b] <= Len(tries)
               /\ \A a \in TryIds: tries'[a].status = "queued" => db'[t].rows[b] < a
               /\ db'[t].rows[b] <= cur
               /\ ToCome(t, b)' => db'[t].rows[b] < cur
    <3>1. db'[t].rows[b] \in Nat BY DEF Content
    <3>2. CASE t = pos
      <4>1. db'[t].rows[b] <= cur /\ (b >= batch' => db'[t].rows[b] < cur) BY <3>2 DEF CountsAt
      <4>2. ToCome(t, b)' => b >= batch' BY <1>2, <3>2 DEF ToCome
      <4> QED BY <1>2, <2>1, <2>2, <3>1, <4>1, <4>2 DEF TryIds
    <3>3. CASE t # pos
      <4>1. db'[t] = db[t] BY <3>3
      <4>2. ToCome(t, b)' => ToCome(t, b) BY <3>3 DEF ToCome
      <4> QED BY <1>1, <2>1, <4>1, <4>2 DEF TypeInv, RowsBounded
    <3> QED BY <3>2, <3>3
  <2>4. ASSUME NEW t \in Tables, NEW b \in Batches
        PROVE  /\ tx'[t].rows[b] <= Len(tries)
               /\ \A a \in TryIds: tries'[a].status = "queued" => tx'[t].rows[b] < a
               /\ tx'[t].rows[b] <= cur
               /\ ToCome(t, b)' => tx'[t].rows[b] < cur
    <3>1. tx'[t].rows[b] \in Nat BY DEF Content
    <3>2. CASE t = pos
      <4>1. tx'[t].rows[b] <= cur /\ (b >= batch' => tx'[t].rows[b] < cur) BY <3>2 DEF CountsAt
      <4>2. ToCome(t, b)' => b >= batch' BY <1>2, <3>2 DEF ToCome
      <4> QED BY <1>2, <2>1, <2>2, <3>1, <4>1, <4>2 DEF TryIds
    <3>3. CASE t # pos
      <4>1. tx'[t] = tx[t] BY <3>3
      <4>2. ToCome(t, b)' => ToCome(t, b) BY <3>3 DEF ToCome
      <4> QED BY <1>1, <2>1, <4>1, <4>2 DEF TypeInv, RowsBounded
    <3> QED BY <3>2, <3>3
  <2> QED BY <1>3, <2>3, <2>4 DEF RowsBounded
<1>7. AtomicInv'
  <2>1. \A t \in Tables: t # pos => tx'[t] = db'[t] BY DEF AtomicInv, OneTableOpen
  <2>2. pc' # "insert" => tx' = db' BY <2>1
  <2>3. ASSUME NEW t \in Tables \ NonTransactional, NEW b \in Batches, NEW c \in Batches
        PROVE  db'[t].rows[b] = db'[t].rows[c]
    <3>1. CASE t = pos BY <3>1
    <3>2. CASE t # pos BY <3>2 DEF AtomicInv, AllOrNothing
    <3> QED BY <3>1, <3>2
  <2> QED BY <2>1, <2>2, <2>3 DEF AtomicInv, OneTableOpen, AllOrNothing
<1>8. LossInv'
  <2>1. \A a \in TryIds: (tries'[a].ddl \ tries'[a].cp # {}) => tries'[a].flag
    <3> SUFFICES ASSUME NEW a \in TryIds, tries'[a].ddl \ tries'[a].cp # {} PROVE tries'[a].flag
      OBVIOUS
    <3>1. (tries[a].ddl \ tries[a].cp # {}) => tries[a].flag BY DEF LossInv, LossIsAnnounced, TryIds
    <3>2. CASE a = cur BY <1>3, <3>1, <3>2
    <3>3. CASE a # cur BY <1>3, <3>1, <3>3
    <3> QED BY <3>2, <3>3
  <2>2. d \subseteq tries[cur].cp \cup failed \cup {pos} BY DEF LossInv, Announced
  <2> QED BY <1>3, <2>1, <2>2 DEF LossInv, LossIsAnnounced, TryIds, Announced
<1>9. CheckpointInv' /\ Stays
  <2>1. Lines /\ OldKept /\ Progress BY DEF CheckpointInv
  <2>2. /\ tries[cur].line \subseteq TryIds
        /\ \A a \in tries[cur].line: tries[a].cp \subseteq tries[cur].cp
    BY <1>1, <2>1, LineAtWork
  <2>3. \A a \in TryIds: /\ tries'[a].line = tries[a].line /\ tries'[a].cp = tries[a].cp
                         /\ tries'[a].status = tries[a].status
    BY <1>2, <1>3
  <2>4. \A a \in TryIds: tries[a].cp \subseteq Tables BY <1>2, TryTyped
  <2>5. Lines'
    <3>1. \A a \in TryIds: tries[a].line \subseteq TryIds BY <2>1 DEF Lines
    <3>2. \A a \in TryIds': a \in tries'[a].line /\ tries'[a].line \subseteq TryIds'
      BY <1>3, <2>1, <2>3 DEF Lines
    <3>3. \A a \in TryIds': \A b \in tries'[a].line:
            /\ tries'[b].cp \subseteq tries'[a].cp
            /\ b # a => tries'[b].status \in {"failed", "cancelled"}
      BY <1>3, <2>1, <2>3, <3>1 DEF Lines
    <3>4. pos' \notin tries'[cur'].cp /\ \A a \in TryIds': pos' \in tries'[a].cp => pos' \in redone'
      BY <1>3, <2>3
    <3> QED BY <3>2, <3>3, <3>4 DEF Lines
  <2>6. OldKept'
    <3>1. job.before \subseteq Tables BY <1>1 DEF TypeInv, TypeOK
    <3> SUFFICES ASSUME job.policy # "overwrite", NEW t \in job.before
                 PROVE  db'[t].exists /\ db'[t].old /\ tx'[t].old
      BY DEF OldKept
    <3>2. CASE t = pos BY <3>2
    <3>3. CASE t # pos
      <4>1. db'[t] = db[t] /\ tx'[t] = tx[t] BY <3>1, <3>3
      <4> QED BY <2>1, <4>1 DEF OldKept
    <3> QED BY <3>2, <3>3
  <2>7. Progress'
    <3>1. \A a \in TryIds: \A t \in tries'[a].cp \ redone': t # pos /\ t \in tries[a].cp \ redone
      BY <2>3
    <3>2. \A a \in TryIds: \A t \in tries'[a].cp \ redone': Imported(t)' <=> Imported(t)
      BY <2>4, <3>1 DEF Imported
    <3>3. \A t \in Tables: t < pos => t \in tries[cur].cp \cup failed BY <2>1 DEF Progress
    <3>4. job.policy # "skip" => \A a \in TryIds: \A t \in tries[a].cp \ redone: Imported(t)
      BY <2>1 DEF Progress
    <3> QED BY <1>3, <3>1, <3>2, <3>3, <3>4 DEF Progress
  <2>8. Stays BY <2>2, <2>4, <1>2 DEF Stays
  <2> QED BY <2>5, <2>6, <2>7, <2>8 DEF CheckpointInv
<1> QED BY <1>4, <1>5, <1>6, <1>7, <1>8, <1>9 DEF TypeInv
----------------------------------------------------------------------------
(* The steps of a try at its table. *)

\* What is known of a try at a table, for the steps below.
LEMMA AtPos ==
  ASSUME Inv, pc # "idle", pos \in Tables
  PROVE  /\ cur \in TryIds /\ cur \in Nat /\ cur >= 1 /\ batch \in 1 .. (NBatches + 1)
         /\ NBatches \in Nat /\ NBatches >= 1 /\ MaxTries \in Nat /\ cur <= MaxTries
         /\ tries \in Seq(TryRow) /\ tries[cur].status = "running"
         /\ tries[cur].cp \subseteq Tables /\ tries[cur].ddl \subseteq Tables
         /\ tries[cur].flag \in BOOLEAN
         /\ db \in [Tables -> Content] /\ tx \in [Tables -> Content]
         /\ \A b \in Batches: /\ db[pos].rows[b] <= cur /\ tx[pos].rows[b] <= cur
                              /\ b >= batch => db[pos].rows[b] < cur /\ tx[pos].rows[b] < cur
         /\ pos \notin NonTransactional =>
              \A b, c \in Batches: db[pos].rows[b] = db[pos].rows[c]
         /\ pc # "insert" => tx = db
         /\ \A t \in Tables: t # pos => tx[t] = db[t]
         /\ pc # "table" => /\ pos \notin tries[cur].cp
                            /\ \A a \in TryIds: pos \in tries[a].cp => pos \in redone
         /\ job.policy # "overwrite" /\ pos \in job.before =>
              db[pos].exists /\ db[pos].old /\ tx[pos].old
<1> USE DEF Inv
<1>1. TypeInv /\ Where BY DEF TypeInv
<1>2. /\ cur \in TryIds /\ cur \in Nat /\ cur >= 1 /\ batch \in 1 .. (NBatches + 1)
      /\ NBatches \in Nat /\ NBatches >= 1 /\ MaxTries \in Nat /\ cur <= MaxTries
      /\ tries \in Seq(TryRow) /\ tries[cur].status = "running"
  BY <1>1, AtWork DEF TryIds
<1>3. /\ tries[cur].cp \subseteq Tables /\ tries[cur].ddl \subseteq Tables
      /\ tries[cur].flag \in BOOLEAN
  BY <1>2, TryTyped
<1>4. ASSUME NEW b \in Batches
      PROVE  /\ db[pos].rows[b] <= cur /\ tx[pos].rows[b] <= cur
             /\ b >= batch => db[pos].rows[b] < cur /\ tx[pos].rows[b] < cur
  BY DEF TypeInv, RowsBounded, ToCome
<1>5. db \in [Tables -> Content] /\ tx \in [Tables -> Content] BY DEF TypeInv, TypeOK
<1>6. /\ pc # "table" => /\ pos \notin tries[cur].cp
                         /\ \A a \in TryIds: pos \in tries[a].cp => pos \in redone
      /\ job.policy # "overwrite" /\ pos \in job.before =>
           db[pos].exists /\ db[pos].old /\ tx[pos].old
  BY DEF CheckpointInv, Lines, OldKept
<1>7. /\ pos \notin NonTransactional => \A b, c \in Batches: db[pos].rows[b] = db[pos].rows[c]
      /\ pc # "insert" => tx = db
      /\ \A t \in Tables: t # pos => tx[t] = db[t]
  BY DEF AtomicInv, OneTableOpen, AllOrNothing
<1> QED BY <1>2, <1>3, <1>4, <1>5, <1>6, <1>7

LEMMA EmptyContent ==
  /\ Empty \in Content /\ Absent \in Content
  /\ Empty.exists /\ ~Empty.old /\ ~Absent.exists /\ ~Absent.old
  /\ \A b \in Batches: Empty.rows[b] = 0 /\ Absent.rows[b] = 0
<1>1. 0 \in 0 .. MaxTries BY ShapeAssumption
<1>2. [b \in Batches |-> 0] \in [Batches -> 0 .. MaxTries] BY <1>1
<1> QED BY <1>2 DEF Empty, Absent, Content

LEMMA BeginStep ==
  ASSUME Inv, BeginTable
  PROVE  Inv' /\ Stays
<1>1. /\ pc = "table" /\ pos \in Tables /\ pos \notin tries[cur].cp
      /\ UNCHANGED <<job, tries, cur, pos, batch, failed, crashes>>
      /\ redone' = IF \E a \in TryIds \ tries[cur].line: pos \in tries[a].cp
                     THEN redone \cup {pos} ELSE redone
  BY DEF BeginTable, InLoop, worker, TryIds
<1>2. pc # "idle" /\ batch = 1 BY <1>1 DEF Inv, TypeInv, Where
<1>8. /\ redone \subseteq redone' /\ redone' \subseteq redone \cup {pos}
      /\ \A a \in TryIds: pos \in tries[a].cp => pos \in redone'
  <2>1. \A a \in tries[cur].line: tries[a].cp \subseteq tries[cur].cp
    BY <1>2, LineAtWork DEF Inv, CheckpointInv
  <2> QED BY <1>1, <2>1
<1>3. /\ cur \in TryIds /\ cur \in Nat /\ cur >= 1 /\ batch \in 1 .. (NBatches + 1)
      /\ NBatches \in Nat /\ NBatches >= 1 /\ MaxTries \in Nat /\ cur <= MaxTries
      /\ tries \in Seq(TryRow) /\ tries[cur].status = "running"
      /\ tries[cur].cp \subseteq Tables /\ tries[cur].ddl \subseteq Tables
      /\ tries[cur].flag \in BOOLEAN
      /\ db \in [Tables -> Content] /\ tx \in [Tables -> Content] /\ tx = db
  BY <1>1, <1>2, AtPos
<1>4. /\ \A b \in Batches: /\ db[pos].rows[b] <= cur
                           /\ b >= batch => db[pos].rows[b] < cur
      /\ pos \notin NonTransactional => \A b, c \in Batches: db[pos].rows[b] = db[pos].rows[c]
      /\ job.policy # "overwrite" /\ pos \in job.before =>
           db[pos].exists /\ db[pos].old /\ tx[pos].old
  BY <1>1, <1>2, AtPos
<1>5. TryEffect(cur, "running", tries[cur].cp, tries[cur].flag, tries[cur].ddl)
  BY <1>1, <1>3, KeepTry
<1>6. CASE Rebuilds(pos)
  <2>1. pc' = "announce" /\ tx' = tx /\ db' = db BY <1>6 DEF BeginTable, NoSql
  <2>2. CountsAt(db'[pos]) /\ CountsAt(tx'[pos]) BY <1>1, <1>3, <1>4, <2>1 DEF CountsAt
  <2>3. PartlyInserted' BY <2>1 DEF PartlyInserted
  <2>4. ProgressAt' BY <1>1, <1>6, <2>1 DEF ProgressAt, Rebuilds
  <2> QED BY <1>1, <1>2, <1>3, <1>4, <1>5, <2>1, <2>2, <2>3, <2>4, <1>8, AtTableKeeps
<1>7. CASE ~Rebuilds(pos)
  <2>1. pc' = "insert" /\ tx[pos].exists BY <1>7 DEF BeginTable, Rebuilds
  <2>2. batch' = 1 /\ \A b \in Batches: ~(b < batch') BY <1>1, <1>2 DEF Batches
  <2>3. CASE job.policy = "overwrite"
    <3>1. Write(pos, Empty) BY <1>7, <2>3 DEF BeginTable
    <3>2. /\ tx' = [tx EXCEPT ![pos] = Empty]
          /\ db' = IF pos \in NonTransactional THEN [db EXCEPT ![pos] = Empty] ELSE db
      BY <3>1 DEF Write
    <3>3. tx'[pos] = Empty /\ (db'[pos] = Empty \/ db' = db)
          /\ db' \in [Tables -> Content] /\ tx' \in [Tables -> Content]
          /\ \A t \in Tables: t # pos => tx'[t] = tx[t] /\ db'[t] = db[t]
      BY <1>1, <1>3, <3>2, EmptyContent
    <3>4. CountsAt(Empty) BY <1>3, EmptyContent DEF CountsAt
    <3>5. CountsAt(db'[pos]) /\ CountsAt(tx'[pos]) BY <1>1, <1>4, <3>3, <3>4 DEF CountsAt
    <3>6. pos \notin NonTransactional => \A b, c \in Batches: db'[pos].rows[b] = db'[pos].rows[c]
      BY <1>4, <3>3, EmptyContent
    <3>7. PartlyInserted' BY <1>1, <2>2, <3>3, EmptyContent DEF PartlyInserted
    <3>8. ProgressAt' BY <1>1, <2>1, <2>2, <2>3, <3>3, EmptyContent DEF ProgressAt
    <3> QED BY <1>1, <1>2, <1>3, <1>5, <2>1, <2>3, <3>3, <3>5, <3>6, <3>7, <3>8, <1>8, AtTableKeeps
  <2>4. CASE job.policy # "overwrite"
    <3>1. tx' = tx /\ db' = db BY <1>7, <2>4 DEF BeginTable, NoSql
    <3>2. CountsAt(db'[pos]) /\ CountsAt(tx'[pos]) BY <1>1, <1>3, <1>4, <3>1 DEF CountsAt
    <3>3. PartlyInserted'
      <4> SUFFICES ASSUME pos \notin NonTransactional
                   PROVE  \A b, c \in Batches: tx[pos].rows[b] = tx[pos].rows[c]
        BY <1>1, <2>2, <3>1 DEF PartlyInserted
      <4> QED BY <1>3, <1>4
    <3>4. ProgressAt' BY <1>1, <2>1, <2>2, <2>4, <3>1 DEF ProgressAt
    <3> QED BY <1>1, <1>2, <1>3, <1>4, <1>5, <2>1, <3>1, <3>2, <3>3, <3>4, <1>8, AtTableKeeps
  <2> QED BY <2>3, <2>4
<1> QED BY <1>6, <1>7

LEMMA AnnounceStep ==
  ASSUME Inv, Announce
  PROVE  Inv' /\ Stays
<1>1. /\ pc = "announce" /\ pc' = IF tx[pos].exists THEN "drop" ELSE "create"
      /\ tries' = [tries EXCEPT ![cur].flag = TRUE]
      /\ UNCHANGED <<job, db, tx, cur, pos, batch, failed, crashes, redone>>
  BY DEF Announce, worker
<1>2. pc # "idle" /\ batch = 1 /\ pos \in Tables BY <1>1 DEF Inv, TypeInv, Where
<1>3. /\ cur \in TryIds /\ cur \in Nat /\ batch \in 1 .. (NBatches + 1)
      /\ tries \in Seq(TryRow) /\ tries[cur].status = "running"
      /\ tries[cur].cp \subseteq Tables /\ tries[cur].ddl \subseteq Tables
      /\ db \in [Tables -> Content] /\ tx \in [Tables -> Content] /\ tx = db
      /\ \A b \in Batches: /\ db[pos].rows[b] <= cur
                           /\ b >= batch => db[pos].rows[b] < cur
      /\ pos \notin NonTransactional => \A b, c \in Batches: db[pos].rows[b] = db[pos].rows[c]
      /\ pos \notin tries[cur].cp /\ \A a \in TryIds: pos \in tries[a].cp => pos \in redone
      /\ job.policy # "overwrite" /\ pos \in job.before =>
           db[pos].exists /\ db[pos].old /\ tx[pos].old
  BY <1>1, <1>2, AtPos
<1>4. TryEffect(cur, "running", tries[cur].cp, TRUE, tries[cur].ddl)
  BY <1>1, <1>3, SetFlag
<1>5. CountsAt(db'[pos]) /\ CountsAt(tx'[pos]) BY <1>1, <1>3 DEF CountsAt
<1>6. PartlyInserted' BY <1>1 DEF PartlyInserted
<1>7. ProgressAt' BY <1>1 DEF Inv, CheckpointInv, Progress, ProgressAt
<1> QED BY <1>1, <1>2, <1>3, <1>4, <1>5, <1>6, <1>7, AtTableKeeps

LEMMA DdlStep ==
  ASSUME Inv, DropTable \/ CreateTable
  PROVE  Inv' /\ Stays
<1> DEFINE content == IF pc = "drop" THEN Absent ELSE Empty
<1>1. /\ pc \in {"drop", "create"} /\ pc' = IF pc = "drop" THEN "announce" ELSE "insert"
      /\ tx' = [tx EXCEPT ![pos] = content] /\ db' = tx'
      /\ tries' = [tries EXCEPT ![cur].ddl = @ \cup {pos}]
      /\ UNCHANGED <<job, cur, pos, batch, failed, crashes, redone>>
  BY DEF DropTable, CreateTable, Ddl, worker
<1>2. /\ content \in Content /\ ~content.old
      /\ pc = "drop" => ~content.exists
      /\ pc # "drop" => content.exists
      /\ \A b \in Batches: content.rows[b] = 0
  BY EmptyContent
<1> HIDE DEF content
<1>3. pc # "idle" /\ batch = 1 /\ pos \in Tables BY <1>1 DEF Inv, TypeInv, Where
<1>4. /\ cur \in TryIds /\ cur \in Nat /\ cur >= 1 /\ batch \in 1 .. (NBatches + 1)
      /\ NBatches \in Nat
      /\ tries \in Seq(TryRow) /\ tries[cur].status = "running"
      /\ tries[cur].cp \subseteq Tables /\ tries[cur].ddl \subseteq Tables
      /\ tries[cur].flag \in BOOLEAN
      /\ db \in [Tables -> Content] /\ tx \in [Tables -> Content] /\ tx = db
      /\ pos \notin tries[cur].cp /\ \A a \in TryIds: pos \in tries[a].cp => pos \in redone
  BY <1>1, <1>3, AtPos
<1>5. tries[cur].flag BY <1>1 DEF Inv, LossInv, Announced
<1>6. TryEffect(cur, "running", tries[cur].cp, tries[cur].flag, tries[cur].ddl \cup {pos})
  <2>1. tries' = [tries EXCEPT ![cur].status = "running", ![cur].ddl = @ \cup {pos}]
    <3>1. tries[cur] \in TryRow BY <1>4, TryTyped
    <3>2. [tries[cur] EXCEPT !.ddl = @ \cup {pos}]
            = [tries[cur] EXCEPT !.status = "running", !.ddl = @ \cup {pos}]
      BY <1>4, <3>1 DEF TryRow
    <3> QED BY <1>1, <3>2
  <2> QED BY <1>3, <1>4, <2>1, SetDdl
<1>7. /\ tx'[pos] = content /\ db'[pos] = content
      /\ db' \in [Tables -> Content] /\ tx' \in [Tables -> Content]
      /\ \A t \in Tables: t # pos => tx'[t] = tx[t] /\ db'[t] = db[t]
  BY <1>1, <1>2, <1>3, <1>4
<1>8. CountsAt(db'[pos]) /\ CountsAt(tx'[pos]) BY <1>2, <1>4, <1>7 DEF CountsAt
<1>9. \A b \in Batches: ~(b < batch') BY <1>1, <1>3 DEF Batches
<1>10. PartlyInserted' BY <1>1, <1>2, <1>7, <1>9 DEF PartlyInserted
<1>11. /\ ProgressAt'
       /\ job.policy # "overwrite" /\ pos \in job.before =>
            db'[pos].exists /\ db'[pos].old /\ tx'[pos].old
  <2>1. OldKept /\ ProgressAt BY DEF Inv, CheckpointInv, Progress
  <2>2. job.policy # "overwrite" => pc = "create" /\ pos \notin job.before
    BY <1>1, <1>4, <2>1 DEF OldKept, ProgressAt
  <2>3. ProgressAt'
    BY <1>1, <1>2, <1>7, <1>9, <2>1, <2>2 DEF ProgressAt
  <2> QED BY <2>2, <2>3
<1>12. UNCHANGED <<job, cur, pos, failed, crashes, redone>> /\ batch' = 1 /\ batch' \in 1 .. (NBatches + 1)
       /\ pc' \in {"announce", "insert"}
  BY <1>1, <1>3, <1>4
<1>13. tries[cur].ddl \cup {pos} \in SUBSET Tables BY <1>3, <1>4
<1>14. pos \notin NonTransactional => \A b, c \in Batches: db'[pos].rows[b] = db'[pos].rows[c]
  BY <1>2, <1>7
<1> QED BY <1>3, <1>4, <1>5, <1>6, <1>7, <1>8, <1>10, <1>11, <1>12, <1>13, <1>14, AtTableKeeps

LEMMA InsertStep ==
  ASSUME Inv, InsertBatch
  PROVE  Inv' /\ Stays
<1> DEFINE content == [tx[pos] EXCEPT !.rows[batch] = @ + 1]
<1>1. /\ pc = "insert" /\ batch \in Batches /\ batch' = batch + 1
      /\ tx' = [tx EXCEPT ![pos] = content]
      /\ db' = IF pos \in NonTransactional THEN [db EXCEPT ![pos] = content] ELSE db
      /\ UNCHANGED <<job, tries, pc, cur, pos, failed, crashes, redone>>
  BY DEF InsertBatch, Write
<1>2. pc # "idle" /\ pos \in Tables BY <1>1 DEF Inv, TypeInv, Where
<1>3. /\ cur \in TryIds /\ cur \in Nat /\ cur >= 1 /\ NBatches \in Nat
      /\ MaxTries \in Nat /\ cur <= MaxTries
      /\ tries \in Seq(TryRow) /\ tries[cur].status = "running"
      /\ tries[cur].cp \subseteq Tables /\ tries[cur].ddl \subseteq Tables
      /\ tries[cur].flag \in BOOLEAN
      /\ db \in [Tables -> Content] /\ tx \in [Tables -> Content]
      /\ \A b \in Batches: /\ db[pos].rows[b] <= cur /\ tx[pos].rows[b] <= cur
                           /\ b >= batch => db[pos].rows[b] < cur /\ tx[pos].rows[b] < cur
      /\ pos \notin NonTransactional => \A b, c \in Batches: db[pos].rows[b] = db[pos].rows[c]
      /\ pos \notin tries[cur].cp /\ \A a \in TryIds: pos \in tries[a].cp => pos \in redone
      /\ job.policy # "overwrite" /\ pos \in job.before =>
           db[pos].exists /\ db[pos].old /\ tx[pos].old
  BY <1>1, <1>2, AtPos
<1>4. tx[pos] \in Content /\ batch \in Batches /\ batch \in Nat BY <1>1, <1>2, <1>3 DEF Batches
<1>5. tx[pos].rows[batch] \in Nat /\ tx[pos].rows[batch] + 1 <= cur
      /\ tx[pos].rows[batch] + 1 \in 0 .. MaxTries
  BY <1>3, <1>4 DEF Content
<1>6. /\ content \in Content /\ content.exists = tx[pos].exists /\ content.old = tx[pos].old
      /\ content.rows[batch] = tx[pos].rows[batch] + 1
      /\ \A b \in Batches: b # batch => content.rows[b] = tx[pos].rows[b]
  BY <1>4, <1>5 DEF Content
<1> HIDE DEF content
<1>7. /\ tx'[pos] = content
      /\ IF pos \in NonTransactional THEN db'[pos] = content ELSE db' = db
      /\ db' \in [Tables -> Content] /\ tx' \in [Tables -> Content]
      /\ \A t \in Tables: t # pos => tx'[t] = tx[t] /\ db'[t] = db[t]
  BY <1>1, <1>2, <1>3, <1>6
<1>8. Batches \subseteq Nat /\ batch' = batch + 1 /\ batch' \in 1 .. (NBatches + 1)
  BY <1>1, <1>3 DEF Batches
<1>9. CountsAt(content)
  <2> SUFFICES ASSUME NEW b \in Batches
               PROVE  content.rows[b] <= cur /\ (b >= batch' => content.rows[b] < cur)
    BY DEF CountsAt
  <2>1. CASE b = batch BY <1>4, <1>5, <1>6, <1>8, <2>1
  <2>2. CASE b # batch
    <3>1. content.rows[b] = tx[pos].rows[b] BY <1>6, <2>2
    <3>2. b >= batch' => b >= batch BY <1>4, <1>8
    <3> QED BY <1>3, <3>1, <3>2
  <2> QED BY <2>1, <2>2
<1>10. CountsAt(db'[pos]) /\ CountsAt(tx'[pos])
  <2>1. CountsAt(db[pos])
    <3>1. \A b \in Batches: b >= batch' => b >= batch BY <1>4, <1>8
    <3> QED BY <1>3, <3>1 DEF CountsAt
  <2> QED BY <1>7, <1>9, <2>1
<1>11. pos \notin NonTransactional => \A b, c \in Batches: db'[pos].rows[b] = db'[pos].rows[c]
  BY <1>3, <1>7
<1>12. PartlyInserted'
  <2> SUFFICES ASSUME pos \notin NonTransactional, NEW b \in Batches, NEW c \in Batches
               PROVE  /\ (b < batch' <=> c < batch') => content.rows[b] = content.rows[c]
                      /\ b < batch' /\ ~(c < batch') => content.rows[b] = content.rows[c] + 1
    BY <1>1, <1>7 DEF PartlyInserted
  <2>1. \A e \in Batches: e < batch' <=> (e < batch \/ e = batch) BY <1>4, <1>8
  <2>2. /\ \A e, g \in Batches: (e < batch <=> g < batch) => tx[pos].rows[e] = tx[pos].rows[g]
        /\ \A e, g \in Batches: e < batch /\ ~(g < batch) => tx[pos].rows[e] = tx[pos].rows[g] + 1
    BY <1>1 DEF Inv, AtomicInv, PartlyInserted
  <2>3. ~(batch < batch) BY <1>4
  <2>4. tx[pos].rows[b] \in Nat /\ tx[pos].rows[c] \in Nat /\ tx[pos].rows[batch] \in Nat
    BY <1>4 DEF Content
  <2>5. CASE b = batch /\ c = batch BY <2>1, <2>5, <1>6
  <2>6. CASE b = batch /\ c # batch BY <2>1, <2>2, <2>3, <2>4, <2>6, <1>4, <1>6
  <2>7. CASE b # batch /\ c = batch BY <2>1, <2>2, <2>3, <2>4, <2>7, <1>4, <1>6
  <2>8. CASE b # batch /\ c # batch BY <2>1, <2>2, <2>8, <1>6
  <2> QED BY <2>5, <2>6, <2>7, <2>8
<1>13. /\ ProgressAt'
       /\ job.policy # "overwrite" /\ pos \in job.before =>
            db'[pos].exists /\ db'[pos].old /\ tx'[pos].old
  <2>1. ProgressAt BY DEF Inv, CheckpointInv, Progress
  <2>2. tx[pos].exists /\ \A b \in Batches: b < batch => tx[pos].rows[b] >= 1
    BY <1>1, <2>1 DEF ProgressAt
  <2>3. job.policy = "overwrite" => ~tx[pos].old
          /\ \A b \in Batches: tx[pos].rows[b] = IF b < batch THEN 1 ELSE 0
    BY <1>1, <2>1 DEF ProgressAt
  <2>4. \A e \in Batches: e < batch' <=> (e < batch \/ e = batch) BY <1>4, <1>8
  <2>5. content.exists /\ \A b \in Batches: b < batch' => content.rows[b] >= 1
    BY <1>4, <1>5, <1>6, <2>2, <2>4
  <2>6. job.policy = "overwrite" => ~content.old
          /\ \A b \in Batches: content.rows[b] = IF b < batch' THEN 1 ELSE 0
    BY <1>4, <1>6, <2>3, <2>4
  <2>7. ProgressAt' BY <1>1, <1>7, <2>5, <2>6 DEF ProgressAt
  <2>8. job.policy # "overwrite" /\ pos \in job.before =>
          content.exists /\ content.old /\ db[pos].exists /\ db[pos].old
    BY <1>3, <1>6, <2>5
  <2>9. db'[pos] = content \/ db'[pos] = db[pos] BY <1>7
  <2> QED BY <1>7, <2>7, <2>8, <2>9
<1>14. TryEffect(cur, "running", tries[cur].cp, tries[cur].flag, tries[cur].ddl)
  BY <1>1, <1>3, KeepTry
<1> QED BY <1>1, <1>2, <1>3, <1>7, <1>8, <1>10, <1>11, <1>12, <1>13, <1>14, AtTableKeeps

\* With all its batches inserted the open table is whole.
LEMMA WholeTable ==
  ASSUME Inv, pc = "insert", batch = NBatches + 1
  PROVE  /\ pos \notin NonTransactional => \A b, c \in Batches: tx[pos].rows[b] = tx[pos].rows[c]
         /\ \A b \in Batches: b < batch
<1>1. NBatches \in Nat /\ \A b \in Batches: b < batch BY ShapeAssumption DEF Batches
<1> QED BY <1>1 DEF Inv, AtomicInv, PartlyInserted

LEMMA CommitStep ==
  ASSUME Inv, Commit
  PROVE  Inv' /\ Stays
<1>1. /\ pc = "insert" /\ batch = NBatches + 1 /\ db' = tx /\ tx' = tx /\ pc' = "report"
      /\ UNCHANGED <<job, tries, cur, pos, batch, failed, crashes, redone>>
  BY DEF Commit, CommitTx, worker
<1>2. pc # "idle" /\ pos \in Tables BY <1>1 DEF Inv, TypeInv, Where
<1>3. /\ cur \in TryIds /\ cur \in Nat /\ batch \in 1 .. (NBatches + 1)
      /\ tries \in Seq(TryRow) /\ tries[cur].status = "running"
      /\ tries[cur].cp \subseteq Tables /\ tries[cur].ddl \subseteq Tables
      /\ tries[cur].flag \in BOOLEAN
      /\ db \in [Tables -> Content] /\ tx \in [Tables -> Content]
      /\ \A b \in Batches: /\ tx[pos].rows[b] <= cur
                           /\ b >= batch => tx[pos].rows[b] < cur
      /\ \A t \in Tables: t # pos => tx[t] = db[t]
      /\ pos \notin tries[cur].cp /\ \A a \in TryIds: pos \in tries[a].cp => pos \in redone
  BY <1>1, <1>2, AtPos
<1>4. CountsAt(db'[pos]) /\ CountsAt(tx'[pos]) BY <1>1, <1>3 DEF CountsAt
<1>5. /\ pos \notin NonTransactional => \A b, c \in Batches: tx[pos].rows[b] = tx[pos].rows[c]
      /\ \A b \in Batches: b < batch
  BY <1>1, WholeTable
<1>6. PartlyInserted' BY <1>1 DEF PartlyInserted
<1>7. /\ ProgressAt'
      /\ job.policy # "overwrite" /\ pos \in job.before =>
            db'[pos].exists /\ db'[pos].old /\ tx'[pos].old
  <2>1. ProgressAt /\ OldKept BY DEF Inv, CheckpointInv, Progress
  <2>2. tx[pos].exists /\ \A b \in Batches: tx[pos].rows[b] >= 1
    BY <1>1, <1>5, <2>1 DEF ProgressAt
  <2>3. job.policy = "overwrite" => ~tx[pos].old /\ \A b \in Batches: tx[pos].rows[b] = 1
    BY <1>1, <1>5, <2>1 DEF ProgressAt
  <2>4. job.policy # "overwrite" /\ pos \in job.before => tx[pos].old BY <2>1 DEF OldKept
  <2>5. Imported(pos)' BY <1>1, <2>2, <2>3, <2>4 DEF Imported
  <2>6. ProgressAt' BY <1>1, <2>5 DEF ProgressAt
  <2> QED BY <1>1, <2>2, <2>4, <2>6
<1>8. TryEffect(cur, "running", tries[cur].cp, tries[cur].flag, tries[cur].ddl)
  BY <1>1, <1>3, KeepTry
<1> QED BY <1>1, <1>2, <1>3, <1>4, <1>5, <1>6, <1>7, <1>8, AtTableKeeps

LEMMA ReportStep ==
  ASSUME Inv, Report
  PROVE  Inv' /\ Stays
<1>1. /\ pc = "report" /\ pc' = "save"
      /\ UNCHANGED <<job, db, tx, tries, cur, pos, batch, failed, crashes, redone>>
  BY DEF Report, worker
<1>2. pc # "idle" /\ pos \in Tables /\ batch = NBatches + 1 BY <1>1 DEF Inv, TypeInv, Where
<1>3. /\ cur \in TryIds /\ cur \in Nat /\ batch \in 1 .. (NBatches + 1)
      /\ tries \in Seq(TryRow) /\ tries[cur].status = "running"
      /\ tries[cur].cp \subseteq Tables /\ tries[cur].ddl \subseteq Tables
      /\ tries[cur].flag \in BOOLEAN
      /\ db \in [Tables -> Content] /\ tx \in [Tables -> Content] /\ tx = db
      /\ \A b \in Batches: /\ db[pos].rows[b] <= cur
                           /\ b >= batch => db[pos].rows[b] < cur
      /\ pos \notin NonTransactional => \A b, c \in Batches: db[pos].rows[b] = db[pos].rows[c]
      /\ pos \notin tries[cur].cp /\ \A a \in TryIds: pos \in tries[a].cp => pos \in redone
      /\ job.policy # "overwrite" /\ pos \in job.before =>
           db[pos].exists /\ db[pos].old /\ tx[pos].old
  BY <1>1, <1>2, AtPos
<1>4. CountsAt(db'[pos]) /\ CountsAt(tx'[pos]) BY <1>1, <1>3 DEF CountsAt
<1>5. PartlyInserted' BY <1>1 DEF PartlyInserted
<1>6. ProgressAt'
  BY <1>1 DEF Inv, CheckpointInv, Progress, ProgressAt, Imported
<1>7. TryEffect(cur, "running", tries[cur].cp, tries[cur].flag, tries[cur].ddl)
  BY <1>1, <1>3, KeepTry
<1> QED BY <1>1, <1>2, <1>3, <1>4, <1>5, <1>6, <1>7, AtTableKeeps
----------------------------------------------------------------------------
(* From table to table. *)

LEMMA PassStep ==
  ASSUME Inv, PassCompleted
  PROVE  Inv' /\ Stays
<1>1. /\ pc = "table" /\ pos \in Tables /\ pos \in tries[cur].cp /\ NextTable
      /\ UNCHANGED <<job, db, tx, tries, failed, crashes, redone>>
  BY DEF PassCompleted, InLoop
<1>2. pc # "idle" BY <1>1
<1>3. /\ cur \in TryIds /\ tries \in Seq(TryRow) /\ tries[cur].status = "running"
      /\ tries[cur].cp \in SUBSET Tables /\ tries[cur].flag \in BOOLEAN /\ tx = db
  BY <1>1, <1>2, AtPos
<1>4. TryEffect(cur, "running", tries[cur].cp, tries[cur].flag, tries[cur].ddl)
  BY <1>1, <1>3, KeepTry
<1> QED BY <1>1, <1>2, <1>3, <1>4, NextTableKeeps

LEMMA SkipStep ==
  ASSUME Inv, SkipExisting
  PROVE  Inv' /\ Stays
<1>1. /\ pc = "table" /\ pos \in Tables /\ NextTable /\ job.policy = "skip"
      /\ tries' = [tries EXCEPT ![cur].cp = @ \cup {pos}]
      /\ UNCHANGED <<job, db, tx, failed, crashes, redone>>
  BY DEF SkipExisting, InLoop, Checkpoint
<1>2. pc # "idle" BY <1>1
<1>3. /\ cur \in TryIds /\ tries \in Seq(TryRow) /\ tries[cur].status = "running"
      /\ tries[cur].cp \in SUBSET Tables /\ tries[cur].flag \in BOOLEAN /\ tx = db
  BY <1>1, <1>2, AtPos
<1>4. TryEffect(cur, "running", tries[cur].cp \cup {pos}, tries[cur].flag, tries[cur].ddl)
  <2>1. tries[cur] \in TryRow BY <1>3, TryTyped
  <2>2. [tries[cur] EXCEPT !.cp = @ \cup {pos}]
          = [tries[cur] EXCEPT !.cp = @ \cup {pos}, !.flag = tries[cur].flag]
    BY <2>1 DEF TryRow
  <2>3. tries' = [tries EXCEPT ![cur].cp = @ \cup {pos}, ![cur].flag = tries[cur].flag]
    BY <1>1, <2>2
  <2>4. TryEffect(cur, tries[cur].status, tries[cur].cp \cup {pos}, tries[cur].flag,
                  tries[cur].ddl)
    <3>1. pos \in Tables BY <1>1
    <3> QED BY <3>1, <1>3, <2>3, SetCheckpoint
  <2> QED BY <1>3, <2>4
<1>5. tries[cur].cp \cup {pos} \in SUBSET Tables BY <1>1, <1>3
<1> QED BY <1>1, <1>2, <1>3, <1>4, <1>5, NextTableKeeps

LEMMA SaveStep ==
  ASSUME Inv, SaveTable
  PROVE  Inv' /\ Stays
<1> DEFINE f == tries[cur].flag /\ failed # {}
<1>1. /\ pc = "save" /\ NextTable
      /\ tries' = [tries EXCEPT ![cur].cp = @ \cup {pos}, ![cur].flag = f]
      /\ redone' = redone \ {pos} /\ UNCHANGED <<job, db, tx, failed, crashes>>
  BY DEF SaveTable
<1>2. pc # "idle" /\ pos \in Tables BY <1>1 DEF Inv, TypeInv, Where
<1>3. /\ cur \in TryIds /\ tries \in Seq(TryRow) /\ tries[cur].status = "running"
      /\ tries[cur].cp \in SUBSET Tables /\ tries[cur].flag \in BOOLEAN /\ tx = db
  BY <1>1, <1>2, AtPos
<1>4. f \in BOOLEAN BY <1>3
<1>5. f = tries[cur].flag \/ failed = {} BY <1>3
<1> HIDE DEF f
<1>6. TryEffect(cur, "running", tries[cur].cp \cup {pos}, f, tries[cur].ddl)
  BY <1>1, <1>2, <1>3, <1>4, SetCheckpoint
<1>7. tries[cur].ddl \subseteq tries[cur].cp \cup failed \cup {pos}
  BY <1>2 DEF Inv, LossInv, Announced
<1>8. f = tries[cur].flag \/ tries[cur].ddl \subseteq tries[cur].cp \cup {pos} BY <1>5, <1>7
<1>9. job.policy # "skip" => Imported(pos)
  BY <1>1 DEF Inv, CheckpointInv, Progress, ProgressAt
<1>10. tries[cur].cp \cup {pos} \in SUBSET Tables BY <1>2, <1>3
<1> QED BY <1>1, <1>2, <1>3, <1>4, <1>6, <1>8, <1>9, <1>10, NextTableKeeps
----------------------------------------------------------------------------
(* The ends of a try. *)

\* With nothing changed at the table, or nothing but this table.
LEMMA RollbackLeaves ==
  ASSUME Inv, RollbackTx
  PROVE  Leaves
BY DEF Inv, TypeInv, TypeOK, RollbackTx, Leaves

LEMMA EndTryKeeps ==
  ASSUME Inv, pc # "idle", Leaves, UNCHANGED <<job, crashes, redone>>, NEW s \in Ended, EndTry(s)
  PROVE  Inv' /\ Stays
<1>1. /\ cur \in TryIds /\ tries \in Seq(TryRow) BY AtWork DEF Inv
<1>2. LeaveImport /\ tries' = [tries EXCEPT ![cur].status = s] BY DEF EndTry
<1>3. TryEffect(cur, s, tries[cur].cp, tries[cur].flag, tries[cur].ddl)
  BY <1>1, <1>2, SetStatus
<1>4. crashes' \in 0 .. MaxCrashes BY DEF Inv, TypeInv, TypeOK
<1>5. tries[cur].ddl \in SUBSET Tables BY <1>1, TryTyped
<1> QED BY <1>2, <1>3, <1>4, <1>5, LeaveKeeps

LEMMA GiveUpStep ==
  ASSUME Inv, GiveUpTable
  PROVE  Inv' /\ Stays
<1>1. /\ pc \in {"drop", "create", "insert", "report"} /\ RollbackTx /\ UNCHANGED <<job, crashes, redone>>
  BY DEF GiveUpTable
<1>2. pc # "idle" /\ pos \in Tables BY <1>1 DEF Inv, TypeInv, Where
<1>3. CASE job.goOn
  <2>1. failed' = failed \cup {pos} /\ NextTable /\ UNCHANGED tries BY <1>3 DEF GiveUpTable
  <2>2. /\ cur \in TryIds /\ tries \in Seq(TryRow) /\ tries[cur].status = "running"
        /\ tries[cur].cp \in SUBSET Tables /\ tries[cur].flag \in BOOLEAN
        /\ pos \notin tries[cur].cp /\ \A a \in TryIds: pos \in tries[a].cp => pos \in redone
    BY <1>1, <1>2, AtPos
  <2>3. TryEffect(cur, "running", tries[cur].cp, tries[cur].flag, tries[cur].ddl)
    BY <2>1, <2>2, KeepTry
  <2>4. tx' = db /\ db' = db BY <1>1 DEF RollbackTx
  <2> QED BY <1>1, <1>2, <2>1, <2>2, <2>3, <2>4, NextTableKeeps
<1>4. CASE ~job.goOn
  <2>1. EndTry("failed") BY <1>4 DEF GiveUpTable
  <2> QED BY <1>1, <1>2, <2>1, RollbackLeaves, EndTryKeeps DEF Ended
<1> QED BY <1>3, <1>4

LEMMA StopStep ==
  ASSUME Inv, Stop
  PROVE  Inv' /\ Stays
<1>1. /\ pc # "idle" /\ RollbackTx /\ UNCHANGED <<job, crashes, redone>>
      /\ EndTry("cancelled") \/ EndTry("failed")
  BY DEF Stop, InLoop
<1> QED BY <1>1, RollbackLeaves, EndTryKeeps DEF Ended

LEMMA FinishStep ==
  ASSUME Inv, Finish
  PROVE  Inv' /\ Stays
<1>1. /\ pc # "idle" /\ RollbackTx /\ UNCHANGED <<job, crashes, redone>>
      /\ EndTry("succeeded") \/ EndTry("failed")
  BY DEF Finish
<1> QED BY <1>1, RollbackLeaves, EndTryKeeps DEF Ended

LEMMA CrashStep ==
  ASSUME Inv, Crash
  PROVE  Inv' /\ Stays
<1>1. /\ pc # "idle" /\ RollbackTx /\ LeaveImport /\ UNCHANGED <<job, tries, redone>>
      /\ crashes < MaxCrashes /\ crashes' = crashes + 1
  BY DEF Crash
<1>2. cur \in TryIds /\ tries \in Seq(TryRow) /\ tries[cur].status = "running"
  BY <1>1, AtWork DEF Inv
<1>3. TryEffect(cur, "running", tries[cur].cp, tries[cur].flag, tries[cur].ddl)
  BY <1>1, <1>2, KeepTry
<1>4. crashes' \in 0 .. MaxCrashes BY <1>1, ShapeAssumption DEF Inv, TypeInv, TypeOK
<1>5. tries[cur].ddl \in SUBSET Tables BY <1>2, TryTyped
<1> QED BY <1>1, <1>3, <1>4, <1>5, RollbackLeaves, LeaveKeeps

LEMMA LoseStep ==
  ASSUME Inv, LoseConnection
  PROVE  Inv' /\ Stays
<1>1. pc \in {"drop", "create", "insert"} /\ UNCHANGED <<job, crashes, redone>> BY DEF LoseConnection
<1>2. pc # "idle" /\ pos \in Tables BY <1>1 DEF Inv, TypeInv, Where
<1>3. /\ cur \in TryIds /\ cur \in Nat /\ tries \in Seq(TryRow) /\ tries[cur].flag \in BOOLEAN
      /\ tries[cur].ddl \subseteq Tables
      /\ db \in [Tables -> Content] /\ tx \in [Tables -> Content]
      /\ \A b \in Batches: tx[pos].rows[b] <= cur
      /\ \A t \in Tables: t # pos => tx[t] = db[t]
  BY <1>2, AtPos
<1>4. CASE RollbackTx /\ EndTry("failed")
  BY <1>1, <1>2, <1>4, RollbackLeaves, EndTryKeeps DEF Ended
<1>5. CASE pc = "insert" /\ batch = NBatches + 1 /\ CommitTx /\ EndTry("failed")
  <2>1. tx' = tx /\ db' = tx BY <1>5 DEF CommitTx
  <2>2. pos \notin NonTransactional => \A b, c \in Batches: tx[pos].rows[b] = tx[pos].rows[c]
    BY <1>5, WholeTable
  <2>3. job.policy # "overwrite" /\ pos \in job.before => tx[pos].exists /\ tx[pos].old
    BY <1>5 DEF Inv, CheckpointInv, OldKept, Progress, ProgressAt
  <2>4. Left(db'[pos]) BY <1>2, <1>3, <2>1, <2>2, <2>3 DEF Left
  <2>5. Leaves BY <1>3, <1>5, <2>1, <2>4 DEF Leaves
  <2> QED BY <1>1, <1>2, <1>5, <2>5, EndTryKeeps DEF Ended
<1>6. CASE /\ pc \in {"drop", "create"}
           /\ Ddl(pos, IF pc = "drop" THEN Absent ELSE Empty)
           /\ tries' = [tries EXCEPT ![cur].status = "failed", ![cur].ddl = @ \cup {pos}]
           /\ LeaveImport
  <2> DEFINE content == IF pc = "drop" THEN Absent ELSE Empty
  <2>1. content \in Content /\ \A b \in Batches: content.rows[b] = 0 BY EmptyContent
  <2>2. pc # "drop" => content.exists BY EmptyContent
  <2>3. tx' = [tx EXCEPT ![pos] = content] /\ db' = tx' BY <1>6 DEF Ddl
  <2> HIDE DEF content
  <2>4. ~(job.policy # "overwrite" /\ pos \in job.before)
    <3> SUFFICES ASSUME job.policy # "overwrite" PROVE pos \notin job.before
      OBVIOUS
    <3>1. OldKept /\ ProgressAt BY DEF Inv, CheckpointInv, Progress
    <3>2. tx = db BY <1>2, <1>6, AtPos
    <3> QED BY <1>6, <3>1, <3>2 DEF OldKept, ProgressAt
  <2>5. db'[pos] = content BY <1>2, <1>3, <2>3
  <2>6. Left(db'[pos])
    <3>1. \A b \in Batches: content.rows[b] <= cur BY <1>3, <2>1
    <3> QED BY <2>1, <2>4, <2>5, <3>1 DEF Left
  <2>7. Leaves BY <1>2, <1>3, <1>6, <2>1, <2>3, <2>6 DEF Leaves
  <2>8. TryEffect(cur, "failed", tries[cur].cp, tries[cur].flag, tries[cur].ddl \cup {pos})
    BY <1>2, <1>3, <1>6, SetDdl DEF Ended
  <2>9. tries[cur].flag BY <1>6 DEF Inv, LossInv, Announced
  <2>10. crashes' \in 0 .. MaxCrashes BY <1>1 DEF Inv, TypeInv, TypeOK
  <2>11. tries[cur].ddl \cup {pos} \in SUBSET Tables BY <1>2, <1>3
  <2> QED BY <1>1, <1>2, <1>6, <2>7, <2>8, <2>9, <2>10, <2>11, LeaveKeeps DEF Ended
<1> QED BY <1>4, <1>5, <1>6 DEF LoseConnection
----------------------------------------------------------------------------
(* The task rows while the worker is idle, or whatever it does. *)

LEMMA StartStep ==
  ASSUME Inv, StartTry
  PROVE  Inv' /\ Stays
<1> USE DEF Inv
<1>1. PICK a \in TryIds: /\ tries[a].status = "queued"
                         /\ \A b \in 1 .. (a - 1): tries[b].status # "queued"
                         /\ cur' = a
                         /\ tries' = [tries EXCEPT ![a].status = "running"]
  BY DEF StartTry, TryIds
<1>2. /\ pc = "idle" /\ pc' = "table" /\ pos' = 1 /\ batch' = 1 /\ failed' = {}
      /\ tx' = db /\ UNCHANGED <<job, db, crashes, redone>>
  BY DEF StartTry
<1>3. TypeOK /\ Where /\ tries \in Seq(TryRow) /\ Len(tries) \in Nat
  BY DEF TypeInv, TypeOK
<1>4. TryEffect(a, "running", tries[a].cp, tries[a].flag, tries[a].ddl) BY <1>1, <1>3, SetStatus
<1>5. /\ tries' \in Seq(TryRow) /\ Len(tries') = Len(tries) /\ TryIds' = TryIds
      /\ \A b \in TryIds: b # a => tries'[b] = tries[b]
      /\ tries'[a].status = "running" /\ tries'[a].cp = tries[a].cp
      /\ tries'[a].flag = tries[a].flag /\ tries'[a].ddl = tries[a].ddl
      /\ tries'[a].line = tries[a].line
  BY <1>4 DEF TryEffect, TryIds
<1>6. tries[a].ddl = {} /\ a \in Nat /\ a >= 1 BY <1>1, <1>3 DEF Where, TryIds
<1>7. TypeOK'
  <2>1. cur' \in 0 .. Len(tries') /\ pos' \in 0 .. (NTables + 1) /\ batch' \in 0 .. (NBatches + 1)
    BY <1>1, <1>2, <1>3, <1>5, ShapeAssumption DEF TryIds
  <2> QED BY <1>2, <1>3, <1>5, <2>1 DEF TypeOK
<1>8. Where'
  <2>1. \A b \in TryIds: tries'[b].status = "queued" => a < b /\ tries'[b].ddl = {}
    <3> SUFFICES ASSUME NEW b \in TryIds, tries'[b].status = "queued"
                 PROVE  a < b /\ tries'[b].ddl = {}
      OBVIOUS
    <3>1. b # a /\ tries'[b] = tries[b] BY <1>5
    <3>2. b \notin 1 .. (a - 1) BY <1>1, <3>1
    <3> QED BY <1>3, <1>6, <3>1, <3>2 DEF TryIds, Where
  <2> QED BY <1>1, <1>2, <1>5, <1>6, <2>1 DEF Where
<1>9. RowsBounded(db)' /\ RowsBounded(tx)'
  <2>1. ASSUME NEW t \in Tables, NEW b \in Batches
        PROVE  /\ db[t].rows[b] <= Len(tries)
               /\ \A c \in TryIds: tries'[c].status = "queued" => db[t].rows[b] < c
               /\ db[t].rows[b] < a
    <3>1. RowsBounded(db) BY DEF TypeInv
    <3>2. \A c \in TryIds: tries'[c].status = "queued" => tries[c].status = "queued"
      BY <1>5
    <3> QED BY <1>1, <3>1, <3>2 DEF RowsBounded
  <2>2. \A t \in Tables, b \in Batches: db[t].rows[b] \in Nat BY <1>3 DEF TypeOK, Content
  <2> QED BY <1>1, <1>2, <1>5, <1>6, <2>1, <2>2 DEF RowsBounded
<1>10. AtomicInv' BY <1>2 DEF AtomicInv, OneTableOpen, AllOrNothing, PartlyInserted
<1>11. LossInv'
  <2>1. \A b \in TryIds: (tries'[b].ddl \ tries'[b].cp # {}) => tries'[b].flag
    BY <1>5 DEF LossInv, LossIsAnnounced, TryIds
  <2> QED BY <1>1, <1>2, <1>5, <1>6, <2>1 DEF LossInv, LossIsAnnounced, TryIds, Announced
<1>12. CheckpointInv' /\ Stays
  <2>1. Lines /\ OldKept /\ Progress BY DEF CheckpointInv
  <2>2. \A b \in TryIds: /\ tries'[b].cp = tries[b].cp /\ tries'[b].line = tries[b].line
                         /\ b # a => tries'[b].status = tries[b].status
    BY <1>5
  <2>3. Lines'
    <3>1. \A b \in TryIds: b \in tries[b].line /\ tries[b].line \subseteq TryIds BY <2>1 DEF Lines
    <3>2. \A b \in TryIds: a \in tries[b].line => b = a BY <1>1, <2>1 DEF Lines
    <3>3. \A b \in TryIds: \A c \in tries[b].line:
            /\ tries'[c].cp \subseteq tries'[b].cp
            /\ c # b => tries'[c].status \in {"failed", "cancelled"}
      BY <2>1, <2>2, <3>1, <3>2 DEF Lines
    <3> QED BY <1>2, <1>5, <2>2, <3>1, <3>3 DEF Lines
  <2>4. tx = db BY <1>2 DEF AtomicInv, OneTableOpen
  <2>5. OldKept' BY <1>2, <2>1 DEF OldKept
  <2>6. Progress'
    <3>1. \A t \in Tables: ~(t < pos') BY <1>2 DEF Tables
    <3> QED BY <1>2, <1>5, <2>1, <2>2, <3>1 DEF Progress, ProgressAt, Imported
  <2>7. Stays BY <1>2 DEF Stays
  <2> QED BY <2>3, <2>5, <2>6, <2>7 DEF CheckpointInv
<1> QED BY <1>7, <1>8, <1>9, <1>10, <1>11, <1>12 DEF TypeInv

\* What a request of the user, or the sweep, writes to a row that the worker is
\* not at, or to its cancellation.
LEMMA RowKeeps ==
  ASSUME Inv, UNCHANGED <<job, db, tx, pc, worker, crashes, redone>>, NEW a \in TryIds,
         NEW s \in Ended \cup {"running"},
         TryEffect(a, s, tries[a].cp, tries[a].flag, tries[a].ddl),
         a = cur => s = "running",
         s \in {"failed", "cancelled"} \/ s = tries[a].status
  PROVE  Inv' /\ Stays
<1> USE DEF Inv, worker
<1>1. /\ tries' \in Seq(TryRow) /\ Len(tries') = Len(tries) /\ TryIds' = TryIds
      /\ \A b \in TryIds: b # a => tries'[b] = tries[b]
      /\ tries'[a].status = s /\ tries'[a].cp = tries[a].cp
      /\ tries'[a].flag = tries[a].flag /\ tries'[a].ddl = tries[a].ddl
      /\ tries'[a].line = tries[a].line
  BY DEF TryEffect, TryIds
<1>2. TypeOK /\ Where BY DEF TypeInv
<1>3. /\ \A b \in TryIds: /\ tries'[b].cp = tries[b].cp /\ tries'[b].flag = tries[b].flag
                          /\ tries'[b].ddl = tries[b].ddl
                          /\ tries'[b].status = "queued" => tries[b].status = "queued"
      /\ cur # 0 => tries'[cur].status = tries[cur].status
  <2>1. pc # "idle" => tries[cur].status = "running" /\ cur \in TryIds
    BY AtWork DEF TypeInv
  <2>2. cur # 0 => pc # "idle" BY <1>2 DEF Where
  <2> QED BY <1>1, <2>1, <2>2 DEF Ended
<1>4. TypeOK' BY <1>1, <1>2 DEF TypeOK
<1>5. Where' BY <1>1, <1>2, <1>3 DEF Where
<1>6. RowsBounded(db)' /\ RowsBounded(tx)'
  <2>1. RowsBounded(db) /\ RowsBounded(tx) BY DEF TypeInv
  <2> QED BY <1>1, <1>3, <2>1 DEF RowsBounded, ToCome
<1>7. AtomicInv' BY DEF AtomicInv, OneTableOpen, AllOrNothing, PartlyInserted
<1>8. LossInv'
  <2>1. pc # "idle" => cur \in TryIds BY AtWork DEF TypeInv
  <2> QED BY <1>1, <1>3, <2>1 DEF LossInv, LossIsAnnounced, TryIds, Announced
<1>9. CheckpointInv' /\ Stays
  <2>1. Lines /\ OldKept /\ Progress BY DEF CheckpointInv
  <2>2. \A b \in TryIds: /\ tries'[b].line = tries[b].line
                         /\ tries'[b].status \in {"failed", "cancelled"} \/ tries'[b].status = tries[b].status
    BY <1>1
  <2>3. \A b \in TryIds: tries[b].line \subseteq TryIds BY <2>1 DEF Lines
  <2>4. pc # "idle" => cur \in TryIds BY AtWork DEF TypeInv
  <2>5. Lines' BY <1>1, <1>3, <2>1, <2>2, <2>3, <2>4 DEF Lines
  <2>6. OldKept' BY <2>1 DEF OldKept
  <2>7. Progress' BY <1>1, <1>3, <2>1, <2>4 DEF Progress, ProgressAt, Imported
  <2>8. Stays BY DEF Stays
  <2> QED BY <2>5, <2>6, <2>7, <2>8 DEF CheckpointInv
<1> QED BY <1>4, <1>5, <1>6, <1>7, <1>8, <1>9 DEF TypeInv

LEMMA TimeOutStep ==
  ASSUME Inv, NEW a \in TryIds, TimeOut(a)
  PROVE  Inv' /\ Stays
<1>1. tries \in Seq(TryRow) BY DEF Inv, TypeInv, TypeOK
<1>2. cur = 0 /\ a # 0 BY DEF TimeOut, Inv, TypeInv, Where, TryIds
<1>3. TryEffect(a, "failed", tries[a].cp, tries[a].flag, tries[a].ddl)
  BY <1>1, SetStatus DEF TimeOut, Ended
<1> QED BY <1>2, <1>3, RowKeeps DEF TimeOut, Ended

LEMMA CancelStep ==
  ASSUME Inv, NEW a \in TryIds, Cancel(a)
  PROVE  Inv' /\ Stays
<1> DEFINE s == IF tries[a].status = "queued" THEN "cancelled" ELSE "running"
<1>1. tries \in Seq(TryRow) /\ tries[a] \in TryRow BY TryTyped DEF Inv, TypeInv, TypeOK
<1>2. tries[a].status \in {"queued", "running"} BY DEF Cancel
<1>3. tries' = [tries EXCEPT ![a].cancel = TRUE, ![a].status = s]
  BY <1>1, <1>2 DEF Cancel, TryRow
<1>4. s \in Ended \cup {"running"} /\ (s = "cancelled" \/ s = tries[a].status)
  BY <1>2 DEF Ended
<1>5. a = cur => s = "running"
  <2>1. a = cur => pc # "idle" BY DEF Inv, TypeInv, Where, TryIds
  <2> QED BY <2>1 DEF Inv, TypeInv, Where
<1> HIDE DEF s
<1>6. TryEffect(a, s, tries[a].cp, tries[a].flag, tries[a].ddl) BY <1>1, <1>3, <1>4, SetCancel
<1>7. UNCHANGED <<job, db, tx, pc, worker, crashes, redone>> BY DEF Cancel
<1> QED BY <1>4, <1>5, <1>6, <1>7, RowKeeps

LEMMA RetryStep ==
  ASSUME Inv, NEW a \in TryIds, Retry(a)
  PROVE  Inv' /\ Stays
<1> USE DEF Inv, worker
<1> DEFINE new == NewTry(tries[a].cp, tries[a].flag, tries[a].line \cup {Len(tries) + 1})
<1>1. /\ tries[a].status \in {"failed", "cancelled"} /\ Len(tries) < MaxTries
      /\ tries' = Append(tries, new)
      /\ UNCHANGED <<job, db, tx, pc, worker, crashes, redone>>
  BY DEF Retry
<1>2. TypeOK /\ Where /\ tries \in Seq(TryRow) /\ Len(tries) \in Nat /\ Len(tries) >= 1
      /\ MaxTries \in Nat
  BY ShapeAssumption DEF TypeInv, TypeOK
<1>3. /\ new \in TryRow /\ new.status = "queued" /\ new.cp = tries[a].cp
      /\ new.flag = tries[a].flag /\ new.ddl = {}
      /\ new.line = tries[a].line \cup {Len(tries) + 1}
  <2>1. tries[a] \in TryRow BY <1>2, TryTyped
  <2>2. Len(tries) + 1 \in 1 .. MaxTries BY <1>1, <1>2
  <2> QED BY <2>1, <2>2 DEF NewTry, TryRow
<1> HIDE DEF new
<1>4. /\ tries' \in Seq(TryRow) /\ Len(tries') = Len(tries) + 1
      /\ tries'[Len(tries) + 1] = new
      /\ \A b \in TryIds: tries'[b] = tries[b]
  BY <1>1, <1>2, <1>3 DEF TryIds
<1>5. TryIds' = TryIds \cup {Len(tries) + 1} /\ TryIds \subseteq Nat /\ Len(tries) + 1 \notin TryIds
  BY <1>2, <1>4 DEF TryIds
<1>6. pc # "idle" => cur \in TryIds BY AtWork DEF TypeInv
<1>7. TypeOK'
  <2>1. Len(tries') \in 1 .. MaxTries /\ cur \in 0 .. Len(tries') BY <1>1, <1>2, <1>4 DEF TypeOK
  <2> QED BY <1>1, <1>2, <1>4, <2>1 DEF TypeOK
<1>8. Where'
  <2>1. cur < Len(tries) + 1 BY <1>2 DEF TypeOK
  <2>2. \A b \in TryIds': tries'[b].status = "queued" => cur < b /\ tries'[b].ddl = {}
    BY <1>2, <1>3, <1>4, <1>5, <2>1 DEF Where
  <2> QED BY <1>1, <1>2, <1>4, <1>6, <2>2 DEF Where
<1>9. RowsBounded(db)' /\ RowsBounded(tx)'
  <2>1. /\ db \in [Tables -> Content] /\ tx \in [Tables -> Content]
        /\ \A t \in Tables, b \in Batches: db[t].rows[b] \in Nat /\ tx[t].rows[b] \in Nat
    BY <1>2 DEF TypeOK, Content
  <2>2. RowsBounded(db) /\ RowsBounded(tx) BY DEF TypeInv
  <2>3. RowsBounded(db)'
    <3> SUFFICES ASSUME NEW t \in Tables, NEW b \in Batches
                 PROVE  /\ db[t].rows[b] <= Len(tries')
                        /\ \A c \in TryIds': tries'[c].status = "queued" => db[t].rows[b] < c
                        /\ pc # "idle" => db[t].rows[b] <= cur
                        /\ pc # "idle" /\ ToCome(t, b) => db[t].rows[b] < cur
      BY <1>1 DEF RowsBounded, ToCome
    <3>1. db[t].rows[b] <= Len(tries) /\ db[t].rows[b] \in Nat BY <2>1, <2>2 DEF RowsBounded
    <3>2. \A c \in TryIds: tries'[c].status = "queued" => db[t].rows[b] < c
      BY <1>4, <2>2 DEF RowsBounded
    <3> QED BY <1>2, <1>4, <1>5, <2>2, <3>1, <3>2 DEF RowsBounded
  <2>4. RowsBounded(tx)'
    <3> SUFFICES ASSUME NEW t \in Tables, NEW b \in Batches
                 PROVE  /\ tx[t].rows[b] <= Len(tries')
                        /\ \A c \in TryIds': tries'[c].status = "queued" => tx[t].rows[b] < c
                        /\ pc # "idle" => tx[t].rows[b] <= cur
                        /\ pc # "idle" /\ ToCome(t, b) => tx[t].rows[b] < cur
      BY <1>1 DEF RowsBounded, ToCome
    <3>1. tx[t].rows[b] <= Len(tries) /\ tx[t].rows[b] \in Nat BY <2>1, <2>2 DEF RowsBounded
    <3>2. \A c \in TryIds: tries'[c].status = "queued" => tx[t].rows[b] < c
      BY <1>4, <2>2 DEF RowsBounded
    <3> QED BY <1>2, <1>4, <1>5, <2>2, <3>1, <3>2 DEF RowsBounded
  <2> QED BY <2>3, <2>4
<1>10. AtomicInv' BY <1>1 DEF AtomicInv, OneTableOpen, AllOrNothing, PartlyInserted
<1>11. LossInv'
  <2>1. LossIsAnnounced'
    <3> SUFFICES ASSUME NEW b \in TryIds', tries'[b].ddl \ tries'[b].cp # {} PROVE tries'[b].flag
      BY DEF LossIsAnnounced, TryIds
    <3>1. b # Len(tries) + 1 BY <1>3, <1>4
    <3> QED BY <1>4, <1>5, <3>1 DEF LossInv, LossIsAnnounced, TryIds
  <2> QED BY <1>1, <1>4, <1>6, <2>1 DEF LossInv, Announced
<1>12. CheckpointInv' /\ Stays
  <2>1. Lines /\ OldKept /\ Progress BY DEF CheckpointInv
  <2> DEFINE n == Len(tries) + 1
  <2>2. /\ tries'[n] = new /\ n \notin TryIds /\ TryIds' = TryIds \cup {n}
        /\ \A b \in TryIds: tries'[b] = tries[b]
        /\ new.line = tries[a].line \cup {n}
    BY <1>3, <1>4, <1>5
  <2> HIDE DEF n
  <2>3. Lines'
    <3>1. \A b \in TryIds': b \in tries'[b].line /\ tries'[b].line \subseteq TryIds'
      BY <2>1, <2>2 DEF Lines
    <3>2. ASSUME NEW b \in TryIds', NEW c \in tries'[b].line
          PROVE  /\ tries'[c].cp \subseteq tries'[b].cp
                 /\ c # b => tries'[c].status \in {"failed", "cancelled"}
      <4>1. CASE b \in TryIds BY <2>1, <2>2, <3>2, <4>1 DEF Lines
      <4>2. CASE b = n /\ c = n BY <4>2
      <4>3. CASE b = n /\ c # n
        <5>1. c \in tries[a].line /\ c \in TryIds BY <2>1, <2>2, <3>2, <4>3 DEF Lines
        <5>2. tries[c].cp \subseteq tries[a].cp /\ tries[c].status \in {"failed", "cancelled"}
          BY <1>1, <2>1, <5>1 DEF Lines
        <5> QED BY <1>3, <2>2, <4>3, <5>1, <5>2
      <4> QED BY <2>2, <4>1, <4>2, <4>3
    <3>3. pc' \notin {"idle", "table"} =>
            /\ pos' \notin tries'[cur'].cp
            /\ \A b \in TryIds': pos' \in tries'[b].cp => pos' \in redone'
      <4> SUFFICES ASSUME pc \notin {"idle", "table"}
                   PROVE  /\ pos \notin tries'[cur].cp
                          /\ \A b \in TryIds': pos \in tries'[b].cp => pos \in redone
        BY <1>1
      <4>1. pos \notin tries[cur].cp /\ \A b \in TryIds: pos \in tries[b].cp => pos \in redone
        BY <2>1 DEF Lines
      <4>2. tries'[cur] = tries[cur] BY <1>6, <2>2
      <4>3. tries'[n].cp = tries[a].cp BY <1>3, <2>2
      <4> QED BY <2>2, <4>1, <4>2, <4>3
    <3> QED BY <3>1, <3>2, <3>3 DEF Lines
  <2>4. OldKept' BY <1>1, <2>1 DEF OldKept
  <2>5. Progress'
    <3>1. ProgressAt' BY <1>1, <2>1 DEF Progress, ProgressAt, Imported
    <3>2. pc' # "idle" => \A t \in Tables: t < pos' => t \in tries'[cur'].cp \cup failed'
      BY <1>1, <1>6, <2>1, <2>2 DEF Progress
    <3>3. \A b \in TryIds': \E c \in TryIds: tries'[b].cp = tries[c].cp BY <1>3, <2>2
    <3>4. \A t \in Tables: Imported(t)' <=> Imported(t) BY <1>1 DEF Imported
    <3>5. \A c \in TryIds: tries[c].cp \subseteq Tables BY <1>2, TryTyped
    <3>6. job'.policy # "skip" => \A b \in TryIds': \A t \in tries'[b].cp \ redone': Imported(t)'
      BY <1>1, <2>1, <3>3, <3>4, <3>5 DEF Progress
    <3> QED BY <3>1, <3>2, <3>6 DEF Progress
  <2>6. Stays BY <1>1 DEF Stays
  <2> QED BY <2>3, <2>4, <2>5, <2>6 DEF CheckpointInv
<1> QED BY <1>7, <1>8, <1>9, <1>10, <1>11, <1>12 DEF TypeInv
----------------------------------------------------------------------------
(* Theorems. *)

LEMMA InvInit ==
  ASSUME Init
  PROVE  Inv
<1> USE DEF Init
<1>1. NewTry({}, FALSE, {1}) \in TryRow
  <2>1. 1 \in 1 .. MaxTries BY ShapeAssumption
  <2> QED BY <2>1 DEF NewTry, TryRow
<1>2. /\ tries \in Seq(TryRow) /\ Len(tries) = 1 /\ TryIds = {1} /\ tries[1].status = "queued"
      /\ tries[1].cp = {} /\ tries[1].ddl = {} /\ tries[1].line = {1}
  BY <1>1 DEF TryIds, NewTry
<1>3. /\ Existing \in Content /\ Existing.exists /\ Existing.old
      /\ \A b \in Batches: Existing.rows[b] = 0
  <2>1. Empty \in Content /\ \A b \in Batches: Empty.rows[b] = 0 BY EmptyContent
  <2> QED BY <2>1, EmptyContent DEF Existing, Content
<1>4. /\ db \in [Tables -> Content] /\ tx = db
      /\ \A t \in Tables, b \in Batches: db[t].rows[b] = 0
      /\ \A t \in job.before: db[t].exists /\ db[t].old
  BY <1>3, EmptyContent DEF Content
<1> HIDE DEF Init
<1>5. /\ pc = "idle" /\ cur = 0 /\ pos = 0 /\ batch = 0 /\ failed = {} /\ crashes = 0
      /\ redone = {}
      /\ job \in [policy: Policies, defined: SUBSET Tables, goOn: BOOLEAN, before: SUBSET Tables]
  BY DEF Init
<1>6. /\ 0 \in 0 .. Len(tries) /\ 0 \in 0 .. (NTables + 1) /\ 0 \in 0 .. (NBatches + 1)
      /\ 0 \in 0 .. MaxCrashes /\ Len(tries) \in 1 .. MaxTries
  BY <1>2, ShapeAssumption
<1>7. TypeOK BY <1>2, <1>4, <1>5, <1>6 DEF TypeOK
<1>8. Where BY <1>2, <1>5 DEF Where
<1>9. RowsBounded(db) /\ RowsBounded(tx) BY <1>2, <1>4, <1>5 DEF RowsBounded
<1>10. AtomicInv BY <1>4, <1>5 DEF AtomicInv, OneTableOpen, AllOrNothing, PartlyInserted
<1>11. LossInv BY <1>2, <1>5 DEF LossInv, LossIsAnnounced, TryIds, Announced
<1>12. CheckpointInv
  BY <1>2, <1>4, <1>5 DEF CheckpointInv, Lines, OldKept, Progress, ProgressAt
<1> QED BY <1>7, <1>8, <1>9, <1>10, <1>11, <1>12 DEF Inv, TypeInv

LEMMA InvStep ==
  ASSUME Inv, [Next]_vars
  PROVE  Inv' /\ Stays
<1>1. CASE UNCHANGED vars
  <2>1. UNCHANGED <<job, db, tx, tries, pc, cur, pos, batch, failed, crashes, redone>>
    BY <1>1 DEF vars
  <2>2. TypeInv'
    BY <2>1 DEF Inv, TypeInv, TypeOK, Where, TryIds, RowsBounded, ToCome
  <2>3. AtomicInv' /\ LossInv'
    BY <2>1 DEF Inv, AtomicInv, OneTableOpen, AllOrNothing, PartlyInserted, LossInv,
       LossIsAnnounced, TryIds, Announced
  <2>4. CheckpointInv'
    BY <2>1 DEF Inv, CheckpointInv, Lines, TryIds, OldKept, Progress, ProgressAt, Imported
  <2>5. Stays BY <2>1 DEF Stays
  <2> QED BY <2>2, <2>3, <2>4, <2>5 DEF Inv
<1>2. CASE TableStep
  <2>1. CASE PassCompleted BY <2>1, PassStep
  <2>2. CASE SkipExisting BY <2>2, SkipStep
  <2>3. CASE BeginTable BY <2>3, BeginStep
  <2>4. CASE Announce BY <2>4, AnnounceStep
  <2>5. CASE DropTable \/ CreateTable BY <2>5, DdlStep
  <2>6. CASE InsertBatch BY <2>6, InsertStep
  <2>7. CASE Commit BY <2>7, CommitStep
  <2>8. CASE Report BY <2>8, ReportStep
  <2>9. CASE SaveTable BY <2>9, SaveStep
  <2>10. CASE GiveUpTable BY <2>10, GiveUpStep
  <2>11. CASE Stop BY <2>11, StopStep
  <2>12. CASE LoseConnection BY <2>12, LoseStep
  <2> QED BY <1>2, <2>1, <2>2, <2>3, <2>4, <2>5, <2>6, <2>7, <2>8, <2>9, <2>10, <2>11, <2>12
          DEF TableStep
<1>3. CASE StartTry BY <1>3, StartStep
<1>4. CASE Finish BY <1>4, FinishStep
<1>5. CASE Crash BY <1>5, CrashStep
<1>6. ASSUME NEW a \in TryIds, TimeOut(a) \/ Cancel(a) \/ Retry(a)
      PROVE  Inv' /\ Stays
  BY <1>6, TimeOutStep, CancelStep, RetryStep
<1> QED BY <1>1, <1>2, <1>3, <1>4, <1>5, <1>6 DEF Next, TryIds

\* A try comes to succeed at the end of import_dump and nowhere else.
LEMMA OnlyFinishSucceeds ==
  ASSUME Inv, [Next]_vars, NEW a \in TryIds,
         tries[a].status # "succeeded", tries'[a].status = "succeeded"
  PROVE  Finish /\ EndTry("succeeded")
<1>1. tries \in Seq(TryRow) BY DEF Inv, TypeInv, TypeOK
<1>2. \A b \in TryIds: tries[b] \in TryRow BY <1>1, TryTyped
<1>3. pc # "idle" => cur \in TryIds BY AtWork DEF Inv, TypeInv
<1>4. tries' # tries OBVIOUS
<1>5. ASSUME NEW b \in TryIds, NEW s \in {"failed", "cancelled", "running"},
             tries' = [tries EXCEPT ![b].status = s]
      PROVE  FALSE
  <2>1. TryEffect(b, s, tries[b].cp, tries[b].flag, tries[b].ddl)
    BY <1>1, <1>5, SetStatus DEF Ended
  <2> QED BY <2>1 DEF TryEffect
<1>6. ASSUME TableStep PROVE FALSE
  <2>1. CASE PassCompleted BY <1>4, <2>1 DEF PassCompleted
  <2>2. CASE SkipExisting BY <1>1, <1>2, <1>3, <2>2 DEF SkipExisting, Checkpoint, InLoop, TryRow, TryIds
  <2>3. CASE BeginTable BY <1>4, <2>3 DEF BeginTable
  <2>4. CASE Announce BY <1>1, <1>2, <1>3, <2>4 DEF Announce, TryRow, TryIds
  <2>5. CASE DropTable \/ CreateTable
    BY <1>1, <1>2, <1>3, <2>5 DEF DropTable, CreateTable, TryRow, TryIds
  <2>6. CASE InsertBatch BY <1>4, <2>6 DEF InsertBatch
  <2>7. CASE Commit BY <1>4, <2>7 DEF Commit
  <2>8. CASE Report BY <1>4, <2>8 DEF Report
  <2>9. CASE SaveTable BY <1>1, <1>2, <1>3, <2>9 DEF SaveTable, TryRow, TryIds
  <2>10. CASE GiveUpTable
    <3>1. pc # "idle" /\ (UNCHANGED tries \/ EndTry("failed")) BY <2>10 DEF GiveUpTable
    <3> QED BY <1>3, <1>4, <1>5, <3>1 DEF EndTry
  <2>11. CASE Stop
    <3>1. pc # "idle" /\ (EndTry("cancelled") \/ EndTry("failed")) BY <2>11 DEF Stop, InLoop
    <3> QED BY <1>3, <1>5, <3>1 DEF EndTry
  <2>12. CASE LoseConnection
    <3>1. pc # "idle" BY <2>12 DEF LoseConnection
    <3>2. CASE EndTry("failed") BY <1>3, <1>5, <3>1, <3>2 DEF EndTry
    <3>3. CASE tries' = [tries EXCEPT ![cur].status = "failed", ![cur].ddl = @ \cup {pos}]
      BY <1>1, <1>2, <1>3, <3>1, <3>3 DEF TryRow, TryIds
    <3> QED BY <2>12, <3>2, <3>3 DEF LoseConnection
  <2> QED BY <1>6, <2>1, <2>2, <2>3, <2>4, <2>5, <2>6, <2>7, <2>8, <2>9, <2>10, <2>11, <2>12
          DEF TableStep
<1>7. ASSUME StartTry PROVE FALSE
  <2>1. PICK b \in TryIds: tries' = [tries EXCEPT ![b].status = "running"]
    BY <1>7 DEF StartTry, TryIds
  <2> QED BY <1>5, <2>1
<1>8. ASSUME Crash PROVE FALSE BY <1>4, <1>8 DEF Crash
<1>9. ASSUME NEW b \in TryIds, TimeOut(b) \/ Cancel(b) \/ Retry(b) PROVE FALSE
  <2>1. CASE TimeOut(b) BY <1>5, <2>1 DEF TimeOut
  <2>2. CASE Cancel(b) BY <1>1, <1>2, <2>2 DEF Cancel, TryRow, TryIds
  <2>3. CASE Retry(b) BY <1>1, <2>3 DEF Retry, TryIds
  <2> QED BY <1>9, <2>1, <2>2, <2>3
<1>10. Finish BY <1>4, <1>6, <1>7, <1>8, <1>9 DEF Next, vars, TryIds
<1>11. ~EndTry("failed") BY <1>3, <1>5, <1>10 DEF EndTry, Finish
<1> QED BY <1>10, <1>11 DEF Finish

\* The rows of a try, the contents of the tables and the worker have their types: a
\* batch is in a table at most once per try.
THEOREM TypeCorrect == Spec => []TypeOK
<1>1. Inv => TypeOK BY DEF Inv, TypeInv
<1>2. Inv /\ [Next]_vars => Inv' BY InvStep
<1> QED BY <1>1, <1>2, InvInit, PTL DEF Spec

\* The target keeps of a transactional table all batches of a try or none, whatever
\* fails, is cancelled or dies.
THEOREM NoHalfTables == Spec => []AllOrNothing
<1>1. Inv => AllOrNothing BY DEF Inv, AtomicInv
<1>2. Inv /\ [Next]_vars => Inv' BY InvStep
<1> QED BY <1>1, <1>2, InvInit, PTL DEF Spec

\* A changed structure of a table not completed is announced on the row of the try.
THEOREM LossAnnounced == Spec => []LossIsAnnounced
<1>1. Inv => LossIsAnnounced BY DEF Inv, LossInv
<1>2. Inv /\ [Next]_vars => Inv' BY InvStep
<1> QED BY <1>1, <1>2, InvInit, PTL DEF Spec

\* For any tables, tries and deaths of the worker, whichever tries are retried: what a try
\* and those it repeats have completed stays as it is, and a try that succeeds has imported
\* every table but one that a try of another line has begun anew and left.
THEOREM CheckpointsKept == Spec => CheckpointsHold
<1>1. Inv /\ [Next]_vars => Inv' BY InvStep
<1>2. ASSUME Inv, [Next]_vars
      PROVE  [pc # "idle" => \A a \in tries[cur].line: \A t \in tries[a].cp:
               db'[t] = db[t] /\ (pc' = "idle" \/ tx'[t] = tx[t])]_vars
  BY <1>2, InvStep DEF Stays
<1>3. ASSUME Inv, [Next]_vars
      PROVE  [\A a \in 1 .. Len(tries):
               ( /\ job.policy # "skip"
                 /\ tries[a].status # "succeeded" /\ tries'[a].status = "succeeded" )
                   => \A t \in Tables \ redone: Imported(t)']_vars
  <2> SUFFICES ASSUME NEW a \in TryIds, job.policy # "skip",
                      tries[a].status # "succeeded", tries'[a].status = "succeeded",
                      NEW t \in Tables \ redone
               PROVE  Imported(t)'
    BY DEF TryIds
  <2>1. Finish /\ EndTry("succeeded") BY <1>3, OnlyFinishSucceeds
  <2>2. pc = "table" /\ pos = NTables + 1 /\ db' = db /\ job' = job BY <2>1 DEF Finish, RollbackTx
  <2>3. cur \in TryIds /\ tries \in Seq(TryRow) BY <1>3, <2>2, AtWork DEF Inv
  <2>4. failed = {}
    <3>1. CASE EndTry("failed")
      <4>1. TryEffect(cur, "failed", tries[cur].cp, tries[cur].flag, tries[cur].ddl)
        BY <2>3, <3>1, SetStatus DEF EndTry, Ended
      <4> QED BY <4>1 DEF TryEffect
    <3> QED BY <2>1, <3>1 DEF Finish
  <2>5. t < pos BY <2>2, ShapeAssumption DEF Tables
  <2>6. t \in tries[cur].cp \ redone BY <1>3, <2>2, <2>4, <2>5 DEF Inv, CheckpointInv, Progress
  <2>7. Imported(t) BY <1>3, <2>3, <2>6 DEF Inv, CheckpointInv, Progress
  <2> QED BY <2>2, <2>7 DEF Imported
<1> QED BY <1>1, <1>2, <1>3, InvInit, PTL
        DEF Spec, CheckpointsHold, SucceededMeansImported, CompletedStays
=============================================================================
