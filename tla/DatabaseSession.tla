--------------------------- MODULE DatabaseSession ---------------------------
(***************************************************************************)
(* Requests that change a managed database: staged row changes, one SQL       *)
(* statement, an operation on an object, clearing a database, and the rows    *)
(* import of a transfer task.  Each loads the connection asset, connects,      *)
(* executes statements and commits, while others edit the policy of the       *)
(* asset (read-only, expired, deleted).                                       *)
(*                                                                         *)
(* A statement is its place in the request; rows, names and results are left   *)
(* out.  A transaction of the server keeps what was executed until the commit; *)
(* with autocommit, for a MySQL DDL statement, and where the table or the       *)
(* server has no transactions (MyISAM, ClickHouse), execution is final.  What    *)
(* was done is logged after the commit, and the log may fail.                   *)
(***************************************************************************)
EXTENDS Naturals, FiniteSets

CONSTANTS
    DbRequests,      \* bound: requests at a time
    MaxStatements,   \* bound: statements of a request
    MaxPolicies      \* bound: edits of the policy

ASSUME DbAssumption == MaxStatements \in Nat \ {0} /\ MaxPolicies \in Nat

VARIABLES
    dbKind,      \* db_type of the asset
    autoCommit,  \* parameters.autocommit of the asset
    policy,      \* what the stored options of the asset allow
    policies,    \* history: edits of it
    dbRequest    \* the requests and, for each, the statements that are final

dbVars == <<dbKind, autoCommit, policy, policies, dbRequest>>

DbKinds    == {"mysql", "postgresql", "sqlite", "clickhouse"}
Policies   == {"open", "readOnly", "expired", "deleted"}
RequestKinds == {"rows", "sql", "object", "clear", "import"}
Classes    == {"modify_data", "manage_schema"}
NoDbRequest == [pc |-> "idle", kind |-> "rows", class |-> "modify_data", readOnly |-> FALSE,
                next |-> 1, pending |-> {}, final |-> {}, skipped |-> {}, firm |-> {},
                late |-> 0, answer |-> "none"]

DbRow == [pc : {"idle", "loaded", "checked", "connected", "send", "failed", "committed", "done"},
          kind : RequestKinds, class : Classes, readOnly : BOOLEAN, next : 1..MaxStatements+1,
          pending : SUBSET (1..MaxStatements), final : SUBSET (1..MaxStatements),
          skipped : SUBSET (1..MaxStatements), firm : SUBSET (1..MaxStatements), late : Nat,
          answer : {"none", "ok", "error"}]

DbTypeOK ==
    /\ dbKind \in DbKinds /\ autoCommit \in BOOLEAN
    /\ policy \in Policies /\ policies \in 0..MaxPolicies
    /\ dbRequest \in [DbRequests -> DbRow]

\* Autocommit is an option of MySQL connections.
DbInit ==
    /\ dbKind \in DbKinds
    /\ autoCommit \in {FALSE, dbKind = "mysql"}
    /\ policy \in Policies \ {"deleted"} /\ policies = 0
    /\ dbRequest = [r \in DbRequests |-> NoDbRequest]

Upd(r, q) == dbRequest' = [dbRequest EXCEPT ![r] = q]
AssetSame == UNCHANGED <<dbKind, autoCommit, policy, policies>>

\* How many statements a request has.
Length(q) ==
    CASE q.kind = "sql"    -> 1
      [] q.kind = "object" -> IF dbKind = "sqlite" THEN MaxStatements ELSE 1
      [] OTHER -> MaxStatements

\* enforce_policy: only MySQL connections have one; enforce_sql lets no write
\* through a read-only one.
MayConnect == dbKind # "mysql" \/ policy \in {"open", "readOnly"}
MayWrite   == dbKind # "mysql" \/ policy = "open"
----------------------------------------------------------------------------
\* The view or the worker loads the asset and its options.
LoadAsset(r, kind, class) ==
    /\ dbRequest[r].pc = "idle" /\ policy # "deleted"
    /\ kind \in {"rows", "clear", "import"} => class = "modify_data"
    /\ kind = "object" => class = "manage_schema"
    /\ kind = "import" => dbKind = "mysql"
    /\ Upd(r, [NoDbRequest EXCEPT !.pc = "loaded", !.kind = kind, !.class = class,
                                  !.readOnly = (dbKind = "mysql" /\ policy = "readOnly")])
    /\ AssetSame

Fails(q) == [q EXCEPT !.pc = "failed"]

\* checked, database_operation and asset_sql: the policy as it is stored now.
CheckPolicy(r) ==
    /\ dbRequest[r].pc = "loaded"
    /\ Upd(r, IF MayWrite THEN [dbRequest[r] EXCEPT !.pc = "checked"] ELSE Fails(dbRequest[r]))
    /\ AssetSame

\* connect; a session of options loaded as read-only is read-only at the server.
Connect(r) ==
    /\ dbRequest[r].pc = "checked"
    /\ \/ MayConnect /\ Upd(r, [dbRequest[r] EXCEPT !.pc = "connected"])
       \/ Upd(r, Fails(dbRequest[r]))
    /\ AssetSame

\* Mutant: the policy is checked once per connection.
CheckFirst(r) ==
    LET q == dbRequest[r] IN
    /\ q.pc = "connected" /\ q.next <= Length(q)
    /\ Upd(r, IF MayWrite \/ q.next > 1 THEN [q EXCEPT !.pc = "send"] ELSE Fails(q))
    /\ AssetSame

\* CheckedCursor.execute checks the policy again ...
CheckStatement(r) ==
    LET q == dbRequest[r] IN
    /\ q.pc = "connected" /\ q.next <= Length(q)
    /\ Upd(r, IF MayWrite THEN [q EXCEPT !.pc = "send"] ELSE Fails(q))
    /\ AssetSame

\* import_rows begins its transaction itself, object_action one of SQLite.
Transaction(q) == q.kind = "import" \/ ~autoCommit
Ends(q)        == dbKind = "mysql" /\ q.class = "manage_schema"
\* A statement no rollback takes back, for its table or its server has no transactions.
Firm == CASE dbKind = "mysql"      -> BOOLEAN
          [] dbKind = "clickhouse" -> {TRUE}
          [] OTHER -> {FALSE}

\* The statement has been executed.
Done(q, firm) ==
    LET n == q.next  p == [q EXCEPT !.firm = @ \cup IF firm THEN {n} ELSE {}] IN
    IF Ends(q) THEN [p EXCEPT !.final = @ \cup q.pending \cup {n}, !.pending = {}]
    ELSE IF firm \/ ~Transaction(q) THEN [p EXCEPT !.final = @ \cup {n}]
    ELSE [p EXCEPT !.pending = @ \cup {n}]

\* ... and sends the statement.
Execute(r) ==
    LET q == dbRequest[r] IN
    /\ q.pc = "send" /\ ~q.readOnly
    /\ \E firm \in Firm :
         Upd(r, [Done(q, firm) EXCEPT !.pc = "connected", !.next = q.next + 1,
                                      !.late = q.late + IF MayWrite THEN 0 ELSE 1])
    /\ AssetSame

\* A duplicate row is passed over by an import that skips conflicts.
SkipRow(r) ==
    LET q == dbRequest[r] IN
    /\ q.pc = "send" /\ q.kind = "import" /\ ~q.readOnly
    /\ Upd(r, [q EXCEPT !.pc = "connected", !.next = @ + 1, !.skipped = @ \cup {q.next}])
    /\ AssetSame

\* The server refuses; a row change that does not hit one row; an invalid row of
\* the file; a task that is canceled or out of space; a session that is read-only.
ExecuteFails(r) ==
    LET q == dbRequest[r] IN
    /\ q.pc = "send" /\ Upd(r, Fails(q)) /\ AssetSame

\* The rows were changed, and then found not to be one.
HitsSeveral(r) ==
    LET q == dbRequest[r] IN
    /\ q.pc = "send" /\ q.kind = "rows" /\ ~q.readOnly
    /\ \E firm \in Firm : Upd(r, Fails(Done(q, firm)))
    /\ AssetSame

\* Mutant: what was executed is kept when a later statement fails.
RollBackNothing(r) ==
    /\ dbRequest[r].pc = "failed"
    /\ Upd(r, [dbRequest[r] EXCEPT !.pc = "done", !.pending = {}, !.final = @ \cup dbRequest[r].pending,
                                   !.answer = "error"])
    /\ AssetSame

RollBack(r) ==
    /\ dbRequest[r].pc = "failed"
    /\ Upd(r, [dbRequest[r] EXCEPT !.pc = "done", !.pending = {}, !.answer = "error"])
    /\ AssetSame

\* What was executed is final.
Committed(q) == [q EXCEPT !.final = @ \cup q.pending, !.pending = {}]
Commit(r) ==
    LET q == dbRequest[r] IN
    /\ q.pc = "connected" /\ q.next > Length(q)
    /\ Upd(r, [Committed(q) EXCEPT !.pc = "committed"])
    /\ AssetSame

\* The operation is logged, or the task saved, and the request answered ...
Answer(r) ==
    /\ dbRequest[r].pc = "committed"
    /\ Upd(r, [dbRequest[r] EXCEPT !.pc = "done", !.answer = "ok"])
    /\ AssetSame

\* ... or that fails, inside the try that answers an error.
LogFails(r) ==
    /\ dbRequest[r].pc = "committed"
    /\ Upd(r, [dbRequest[r] EXCEPT !.pc = "done", !.answer = "error"])
    /\ AssetSame

\* The connection is lost: the server rolls back, unless it was committing.
ConnectionLost(r) ==
    LET q == dbRequest[r] IN
    /\ q.pc \in {"connected", "send"}
    /\ Upd(r, [Fails(q) EXCEPT !.pending = {}]) /\ AssetSame

AnswerLost(r) ==
    LET q == dbRequest[r] IN
    /\ q.pc = "connected" /\ q.next > Length(q)
    /\ Upd(r, Fails(Committed(q)))
    /\ AssetSame

\* The asset is edited or deleted.
EditPolicy ==
    /\ policies < MaxPolicies /\ policy # "deleted"
    /\ \E p \in Policies \ {policy} : policy' = p
    /\ policies' = policies + 1
    /\ UNCHANGED <<dbKind, autoCommit, dbRequest>>

Forgotten(r) == dbRequest[r].pc = "done" /\ Upd(r, NoDbRequest) /\ AssetSame

DbNext ==
    \/ \E r \in DbRequests :
        \/ \E kind \in RequestKinds, class \in Classes : LoadAsset(r, kind, class)
        \/ CheckPolicy(r) \/ Connect(r) \/ CheckStatement(r) \/ Execute(r) \/ SkipRow(r)
        \/ ExecuteFails(r) \/ HitsSeveral(r) \/ RollBack(r) \/ Commit(r)
        \/ Answer(r) \/ LogFails(r) \/ ConnectionLost(r) \/ AnswerLost(r) \/ Forgotten(r)
    \/ EditPolicy

DbSpec == DbInit /\ [][DbNext]_dbVars
----------------------------------------------------------------------------
(* Properties. *)

\* What a request answers is true: success means that every statement is final or
\* was passed over; an error that all are (the commit was done, only its answer or the
\* log failed) or none is, but for the statements no rollback takes back.  Not so where
\* the connection commits every statement by itself (a rows import starts its own
\* transaction).
Whole(q) == q.final \cup q.skipped = 1..Length(q)
AnsweredTruly == \A r \in DbRequests : LET q == dbRequest[r] IN
    /\ q.answer = "ok" => Whole(q)
    /\ q.answer = "error" /\ ~(autoCommit /\ q.kind # "import") => q.final \subseteq q.firm \/ Whole(q)

\* A request sends at most one more statement for each edit that closes the
\* connection to writes, the one that had passed its check.
ReadOnlyStops == \A r \in DbRequests :
    dbRequest[r].late <= (policies + 1) \div 2

\* An answer is true, and a read-only policy stops what was not checked yet.
DatabaseHonest == AnsweredTruly /\ ReadOnlyStops
=============================================================================
