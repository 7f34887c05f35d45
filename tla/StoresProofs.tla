---------------------------- MODULE StoresProofs ----------------------------
(***************************************************************************)
(* Theorems about Stores, for any number of requests, statements, policy    *)
(* edits, directories, connections, keys and members: the types, that       *)
(* database requests answer truly and stop at a read-only policy            *)
(* (DatabaseHonest), that the catalogue stays a tree with distinct names and *)
(* usable keys (CatalogHolds), and that Redis values are replaced, exported  *)
(* and restored as answered (RedisHonest), and that a client of the pool     *)
(* serves one request with the login of its host (PoolHolds).                *)
(*                                                                         *)
(* The parts share no variable, so each invariant is of one part.  DbInv     *)
(* says what a request has done at each of its places and what it may still  *)
(* say; CatalogInv adds to CatalogHolds what a request that has looked and   *)
(* not yet stored still finds, unless it raced; RedisInv, how far a          *)
(* replacement, an export or an import has come while nobody else writes.    *)
(***************************************************************************)
EXTENDS Stores, FiniteSetTheorems, WellFoundedInduction, NaturalsInduction, TLAPS

----------------------------------------------------------------------------
(* Requests on databases: DatabaseSession. *)

\* What a request has done so far: the statements before the next one are final, waiting
\* for the commit, or were passed over.
Accounted(q) ==
    /\ q.pc \in {"idle", "loaded", "checked"} =>
         q.next = 1 /\ q.pending = {} /\ q.final = {} /\ q.skipped = {}
    /\ q.pc \in {"connected", "send"} =>
         q.final \cup q.pending \cup q.skipped = 1..(q.next - 1)
    /\ q.pc = "send" => q.next <= Length(q)
    /\ q.next <= Length(q) + 1
    /\ q.class = "manage_schema" => q.kind \in {"sql", "object"}
    /\ q.pending \cap q.final = {} /\ (q.pc \in {"idle", "committed", "done"} => q.pending = {})

\* What an answer says, and why a statement may be final before the answer: the connection
\* commits it, no rollback takes it back, or all of them are.
Told(q) ==
    /\ q.pc # "done" => q.answer = "none"
    /\ q.pc = "committed" \/ q.answer = "ok" => Whole(q)
    /\ (autoCommit /\ q.kind # "import") \/ q.final \subseteq q.firm \/ Whole(q)

\* Edits of the policy close and open the connection in turn; a statement that is late
\* used up a closing one, and the next check waits for an opening one.
Lateness(q) ==
    LET closed == IF MayWrite THEN 0 ELSE 1 IN
    IF q.pc = "send" THEN 2 * q.late + closed <= policies ELSE 2 * q.late <= policies + closed

DbInv == DbTypeOK /\ \A r \in DbRequests :
           /\ Accounted(dbRequest[r]) /\ Told(dbRequest[r]) /\ Lateness(dbRequest[r])

\* A step that writes one request keeps the invariant when what it writes does.
LEMMA RequestWritten ==
  ASSUME DbInv, AssetSame, NEW r \in DbRequests, NEW q \in DbRow, Upd(r, q),
         Accounted(q), Told(q), Lateness(q)
  PROVE  DbInv'
<1>1. DbTypeOK'
  BY DEF DbInv, DbTypeOK, AssetSame, Upd
<1>2. dbRequest'[r] = q /\ \A p \in DbRequests : p # r => dbRequest'[p] = dbRequest[p]
  BY DEF DbInv, DbTypeOK, Upd
<1>3. ASSUME NEW p \in DbRequests
      PROVE  Accounted(dbRequest[p])' /\ Told(dbRequest[p])' /\ Lateness(dbRequest[p])'
  <2>1. CASE p = r
    BY <1>2, <2>1 DEF AssetSame, Accounted, Told, Whole, Lateness, Length, Ends, MayWrite
  <2>2. CASE p # r
    BY <1>2, <2>2 DEF DbInv, AssetSame, Accounted, Told, Whole, Lateness, Length, Ends, MayWrite
  <2> QED BY <2>1, <2>2
<1> QED BY <1>1, <1>3 DEF DbInv

\* A request has at least one statement, and one only if it is a DDL statement of MySQL.
LEMMA Lengths ==
  ASSUME NEW q \in DbRow
  PROVE  /\ Length(q) \in 1..MaxStatements
         /\ Accounted(q) /\ Ends(q) => Length(q) = 1
  BY DbAssumption DEF Length, DbRow, Ends, Accounted

LEMMA DbInitially == DbInit => DbInv
<1> SUFFICES ASSUME DbInit PROVE DbInv
  OBVIOUS
<1>1. NoDbRequest \in DbRow
  BY DbAssumption DEF NoDbRequest, DbRow, RequestKinds, Classes
<1>2. autoCommit \in BOOLEAN
  BY Zenon DEF DbInit
<1>3. DbTypeOK
  BY <1>1, <1>2, DbAssumption DEF DbInit, DbTypeOK, Policies, DbKinds
<1>4. Accounted(NoDbRequest) /\ Told(NoDbRequest) /\ Lateness(NoDbRequest)
  BY <1>1, Lengths DEF NoDbRequest, Accounted, Told, Whole, Lateness, DbInit
<1> QED BY <1>3, <1>4 DEF DbInit, DbInv

\* A request that fails while it executes leaves nothing final that it does not say.
LEMMA FailedWell ==
  ASSUME DbInv, NEW r \in DbRequests,
         \/ dbRequest[r].pc \in {"loaded", "checked", "send"}
         \/ dbRequest[r].pc = "connected" /\ dbRequest[r].next <= Length(dbRequest[r])
  PROVE  LET q == Fails(dbRequest[r])
         IN  q \in DbRow /\ Accounted(q) /\ Told(q) /\ Lateness(q)
<1> DEFINE q == dbRequest[r]
<1>1. q \in DbRow /\ Accounted(q) /\ Told(q) /\ Lateness(q)
  BY DEF DbInv, DbTypeOK
<1>2. Fails(q) \in DbRow
  BY <1>1 DEF Fails, DbRow
<1>3. Length(Fails(q)) = Length(q)
  BY <1>1 DEF Fails, DbRow, Length
<1>4. Accounted(Fails(q))
  BY <1>1, <1>3, Lengths DEF Fails, DbRow, Accounted
<1>5. Told(Fails(q))
  BY <1>1, <1>3 DEF Fails, DbRow, Told, Whole
<1>6. Lateness(Fails(q))
  BY <1>1 DEF Fails, DbRow, Lateness, DbInv, DbTypeOK
<1> QED BY <1>2, <1>4, <1>5, <1>6

-----------------------------------------------------------------------------
(* The steps of a request, one lemma for each of its phases. *)

\* It begins, is checked, connects and ends: no statement is executed.
LEMMA RequestBegins ==
  ASSUME DbInv, NEW r \in DbRequests, NEW kind \in RequestKinds, NEW class \in Classes,
         LoadAsset(r, kind, class)
  PROVE  DbInv'
<1> DEFINE readOnly == dbKind = "mysql" /\ policy = "readOnly"
           q == [NoDbRequest EXCEPT !.pc = "loaded", !.kind = kind, !.class = class,
                                    !.readOnly = readOnly]
<1>1. readOnly \in BOOLEAN
  OBVIOUS
<1> HIDE DEF readOnly
<1>2. /\ q \in DbRow /\ q.pc = "loaded" /\ q.kind = kind /\ q.class = class /\ q.next = 1
      /\ q.pending = {} /\ q.final = {} /\ q.skipped = {} /\ q.late = 0 /\ q.answer = "none"
  <2>1. NoDbRequest \in DbRow
    BY DbAssumption DEF NoDbRequest, DbRow, RequestKinds, Classes
  <2>2. q \in DbRow
    BY <1>1, <2>1 DEF DbRow
  <2> QED BY <2>2 DEF NoDbRequest
<1> HIDE DEF q
<1>3. Accounted(q)
  BY <1>2, Lengths DEF LoadAsset, Accounted, RequestKinds, Classes
<1>4. Told(q) /\ Lateness(q)
  BY <1>2 DEF Told, Lateness, DbInv, DbTypeOK
<1> QED BY <1>2, <1>3, <1>4, RequestWritten DEF LoadAsset, q, readOnly

LEMMA RequestChecked ==
  ASSUME DbInv, NEW r \in DbRequests, CheckPolicy(r) \/ Connect(r)
  PROVE  DbInv'
<1> DEFINE q == dbRequest[r]
<1>1. q \in DbRow /\ Accounted(q) /\ Told(q) /\ Lateness(q)
  BY DEF DbInv, DbTypeOK
<1>2. CASE Upd(r, Fails(q))
  BY <1>2, FailedWell, RequestWritten DEF CheckPolicy, Connect
<1>3. ASSUME NEW pc \in {"checked", "connected"}, Upd(r, [q EXCEPT !.pc = pc])
      PROVE  DbInv'
  <2> DEFINE p == [q EXCEPT !.pc = pc]
  <2>1. p \in DbRow /\ Length(p) = Length(q) /\ Ends(p) = Ends(q)
    BY <1>1 DEF DbRow, Length, Ends
  <2>2. Accounted(p) /\ Told(p) /\ Lateness(p)
    BY <1>1, <2>1 DEF CheckPolicy, Connect, Accounted, Told, Whole, Lateness, DbRow
  <2> QED BY <1>3, <2>1, <2>2, RequestWritten DEF CheckPolicy, Connect
<1> QED BY <1>2, <1>3 DEF CheckPolicy, Connect

\* The check of a statement: the policy lets it through now.
LEMMA StatementChecked ==
  ASSUME DbInv, NEW r \in DbRequests, CheckStatement(r)
  PROVE  DbInv'
<1> DEFINE q == dbRequest[r]  p == [q EXCEPT !.pc = "send"]
<1>1. q \in DbRow /\ Accounted(q) /\ Told(q) /\ Lateness(q)
  BY DEF DbInv, DbTypeOK
<1>2. CASE MayWrite
  <2>1. p \in DbRow /\ Length(p) = Length(q) /\ Ends(p) = Ends(q)
    BY <1>1 DEF DbRow, Length, Ends
  <2>2. Accounted(p) /\ Told(p)
    BY <1>1, <2>1 DEF CheckStatement, Accounted, Told, Whole, DbRow
  <2>3. Lateness(p)
    BY <1>1, <1>2 DEF CheckStatement, Lateness, DbRow, DbInv, DbTypeOK
  <2> QED BY <1>2, <2>1, <2>2, <2>3, RequestWritten DEF CheckStatement
<1>3. CASE ~MayWrite
  BY <1>3, FailedWell, RequestWritten DEF CheckStatement
<1> QED BY <1>2, <1>3

\* A statement that is executed is final at once, or pending.
LEMMA StatementDone ==
  ASSUME DbInv, NEW r \in DbRequests, dbRequest[r].pc = "send", NEW firm \in Firm
  PROVE  LET q == dbRequest[r]  p == Done(q, firm)
         IN  /\ q.next \in 1..Length(q) /\ Length(q) <= MaxStatements
             /\ p \in DbRow
             /\ p.pc = q.pc /\ p.next = q.next /\ p.late = q.late /\ p.kind = q.kind
             /\ p.class = q.class /\ p.skipped = q.skipped /\ p.answer = q.answer
             /\ p.final \cup p.pending \cup p.skipped = 1..q.next /\ p.final \cap p.pending = {}
             /\ (autoCommit /\ p.kind # "import") \/ p.final \subseteq p.firm \/ Whole(p)
<1> DEFINE q == dbRequest[r]  n == q.next
           f == q.firm \cup IF firm THEN {n} ELSE {}
           a == [q EXCEPT !.firm = f]
           p == Done(q, firm)
<1>1. q \in DbRow /\ Accounted(q) /\ Told(q)
  BY DEF DbInv, DbTypeOK
<1>2. n \in 1..Length(q) /\ Length(q) \in 1..MaxStatements
  BY <1>1, Lengths, DbAssumption DEF Accounted, DbRow
<1>3. n \in 1..MaxStatements /\ f \in SUBSET (1..MaxStatements)
  BY <1>1, <1>2, DbAssumption DEF DbRow
<1>4. firm \in BOOLEAN
  BY DEF Firm
<1>5. n \in f \/ ~firm
  OBVIOUS
<1>6. q.firm \subseteq f
  OBVIOUS
<1> HIDE DEF f
<1>7. a \in DbRow /\ a.firm = f
  BY <1>1, <1>3 DEF DbRow
<1>8. q.final \cup q.pending \cup q.skipped = 1..(n - 1)
  BY <1>1 DEF Accounted
<1>9. /\ n \notin q.final \cup q.pending \cup q.skipped /\ q.final \cap q.pending = {}
      /\ (1..(n - 1)) \cup {n} = 1..n /\ q.final \cup q.skipped # 1..Length(q)
  BY <1>1, <1>2, <1>8 DEF Accounted
<1>10. (autoCommit /\ q.kind # "import") \/ q.final \subseteq q.firm
  BY <1>1, <1>9 DEF Told, Whole
<1>11. CASE Ends(q)
  <2> DEFINE g == q.final \cup q.pending \cup {n}
  <2>1. g \in SUBSET (1..MaxStatements)
    BY <1>1, <1>3 DEF DbRow
  <2>2. p = [a EXCEPT !.final = g, !.pending = {}]
    BY <1>1, <1>11 DEF Done, f, DbRow
  <2> HIDE DEF g
  <2>3. /\ p \in DbRow /\ p.final = g /\ p.pending = {} /\ p.pc = q.pc /\ p.next = q.next
        /\ p.late = q.late /\ p.kind = q.kind /\ p.class = q.class /\ p.skipped = q.skipped
        /\ p.answer = q.answer
    BY <1>1, <1>7, <2>1, <2>2 DEF DbRow
  <2>4. Length(q) = 1 /\ Length(p) = Length(q) /\ n = 1
    BY <1>1, <1>2, <1>11, <2>3, Lengths DEF Length
  <2>5. p.final \cup p.pending \cup p.skipped = 1..n
    BY <1>8, <1>9, <2>3 DEF g
  <2>6. Whole(p)
    BY <2>3, <2>4, <2>5 DEF Whole
  <2> QED BY ONLY <1>2, <2>3, <2>5, <2>6
<1>12. CASE ~Ends(q) /\ (firm \/ ~Transaction(q))
  <2> DEFINE g == q.final \cup {n}
  <2>1. g \in SUBSET (1..MaxStatements)
    BY <1>1, <1>3 DEF DbRow
  <2>2. p = [a EXCEPT !.final = g]
    BY <1>1, <1>4, <1>12 DEF Done, f, DbRow
  <2> HIDE DEF g
  <2>3. /\ p \in DbRow /\ p.final = g /\ p.pending = q.pending /\ p.pc = q.pc /\ p.next = q.next
        /\ p.late = q.late /\ p.kind = q.kind /\ p.class = q.class /\ p.skipped = q.skipped
        /\ p.answer = q.answer /\ p.firm = f
    BY <1>1, <1>7, <2>1, <2>2 DEF DbRow
  <2>4. p.final \cup p.pending \cup p.skipped = 1..n /\ p.final \cap p.pending = {}
    BY <1>8, <1>9, <2>3 DEF g
  <2>5. (autoCommit /\ p.kind # "import") \/ p.final \subseteq p.firm
    <3>1. CASE firm
      BY <1>5, <1>6, <1>10, <2>3, <3>1 DEF g
    <3>2. CASE ~Transaction(q)
      BY <2>3, <3>2 DEF Transaction
    <3> QED BY <1>12, <3>1, <3>2
  <2> QED BY ONLY <1>2, <2>3, <2>4, <2>5
<1>13. CASE ~Ends(q) /\ ~(firm \/ ~Transaction(q))
  <2> DEFINE g == q.pending \cup {n}
  <2>1. g \in SUBSET (1..MaxStatements)
    BY <1>1, <1>3 DEF DbRow
  <2>2. p = [a EXCEPT !.pending = g]
    BY <1>1, <1>4, <1>13 DEF Done, f, DbRow
  <2> HIDE DEF g
  <2>3. /\ p \in DbRow /\ p.final = q.final /\ p.pending = g /\ p.pc = q.pc /\ p.next = q.next
        /\ p.late = q.late /\ p.kind = q.kind /\ p.class = q.class /\ p.skipped = q.skipped
        /\ p.answer = q.answer /\ p.firm = f
    BY <1>1, <1>7, <2>1, <2>2 DEF DbRow
  <2>4. p.final \cup p.pending \cup p.skipped = 1..n /\ p.final \cap p.pending = {}
    BY <1>8, <1>9, <2>3 DEF g
  <2>5. (autoCommit /\ p.kind # "import") \/ p.final \subseteq p.firm
    BY <1>6, <1>10, <2>3
  <2> QED BY ONLY <1>2, <2>3, <2>4, <2>5
<1> QED BY <1>11, <1>12, <1>13

\* It is late when the policy was closed after its check.
LEMMA StatementExecuted ==
  ASSUME DbInv, NEW r \in DbRequests, Execute(r)
  PROVE  DbInv'
<1> DEFINE q == dbRequest[r]  late == q.late + IF MayWrite THEN 0 ELSE 1
<1>1. q \in DbRow /\ Accounted(q) /\ Lateness(q) /\ q.pc = "send"
  BY DEF DbInv, DbTypeOK, Execute
<1>2. PICK firm \in Firm :
        Upd(r, [Done(q, firm) EXCEPT !.pc = "connected", !.next = q.next + 1, !.late = late])
  BY DEF Execute
<1> DEFINE d == Done(q, firm)
           p == [d EXCEPT !.pc = "connected", !.next = q.next + 1, !.late = late]
<1>3. /\ q.next \in 1..Length(q) /\ Length(q) <= MaxStatements
      /\ d \in DbRow
      /\ d.kind = q.kind /\ d.class = q.class /\ d.skipped = q.skipped /\ d.answer = q.answer
      /\ d.final \cup d.pending \cup d.skipped = 1..q.next /\ d.final \cap d.pending = {}
      /\ (autoCommit /\ d.kind # "import") \/ d.final \subseteq d.firm \/ Whole(d)
  BY <1>1, StatementDone
<1> HIDE DEF d
<1>4. late \in Nat
  BY <1>1 DEF DbRow
<1>5. Length(q) \in 1..MaxStatements /\ q.next + 1 \in 1..MaxStatements+1
      /\ q.next + 1 <= Length(q) + 1
  BY <1>1, <1>3, Lengths, DbAssumption
<1> HIDE DEF late
<1>6. /\ p \in DbRow /\ p.pc = "connected" /\ p.next = q.next + 1 /\ p.late = late
      /\ p.kind = q.kind /\ p.class = q.class /\ p.skipped = d.skipped /\ p.answer = q.answer
      /\ p.final = d.final /\ p.pending = d.pending /\ p.firm = d.firm
  BY <1>3, <1>4, <1>5 DEF DbRow
<1> HIDE DEF p
<1>7. Length(p) = Length(q) /\ Length(d) = Length(q) /\ (q.next + 1) - 1 = q.next
  BY <1>1, <1>3, <1>5, <1>6 DEF Length, DbRow
<1>8. Accounted(p)
  BY <1>1, <1>3, <1>5, <1>6, <1>7 DEF Accounted
<1>9. Told(p)
  <2>1. q.answer = "none"
    BY <1>1 DEF DbInv, Told
  <2> QED BY <1>3, <1>6, <1>7, <2>1 DEF Told, Whole
<1>10. Lateness(p)
  BY <1>1, <1>6 DEF Lateness, late, DbRow, DbInv, DbTypeOK
<1> QED BY <1>2, <1>6, <1>8, <1>9, <1>10, RequestWritten DEF Execute, p, d, late

LEMMA RowSkipped ==
  ASSUME DbInv, NEW r \in DbRequests, SkipRow(r)
  PROVE  DbInv'
<1> DEFINE q == dbRequest[r]
           p == [q EXCEPT !.pc = "connected", !.next = @ + 1, !.skipped = @ \cup {q.next}]
<1>1. q \in DbRow /\ Accounted(q) /\ Told(q) /\ Lateness(q)
  BY DEF DbInv, DbTypeOK
<1>2. q.next \in 1..MaxStatements /\ q.next + 1 <= Length(q) + 1
  BY <1>1, Lengths, DbAssumption DEF SkipRow, Accounted, DbRow
<1>3. p \in DbRow /\ Length(p) = Length(q) /\ Ends(p) = Ends(q)
  <2>1. q.next + 1 \in 1..MaxStatements+1 /\ q.skipped \cup {q.next} \in SUBSET (1..MaxStatements)
    BY <1>1, <1>2, DbAssumption DEF DbRow
  <2> QED BY <1>1, <2>1 DEF DbRow, Length, Ends
<1>4. p.final \cup p.pending \cup p.skipped = 1..(p.next - 1)
  BY <1>1, <1>2 DEF SkipRow, Accounted, DbRow
<1>5. Accounted(p) /\ Told(p) /\ Lateness(p)
  <2>1. Whole(p) = (q.final \cup q.skipped \cup {q.next} = 1..Length(q)) /\ ~Whole(q)
    BY <1>1, <1>2, <1>3 DEF SkipRow, Accounted, Whole, DbRow
  <2> QED BY <1>1, <1>2, <1>3, <1>4, <2>1 DEF SkipRow, Accounted, Told, Lateness, DbRow, DbInv, DbTypeOK
<1> QED BY <1>3, <1>5, RequestWritten DEF SkipRow

\* It fails, also after a row was changed that was not to be.
LEMMA StatementFailed ==
  ASSUME DbInv, NEW r \in DbRequests, ExecuteFails(r) \/ HitsSeveral(r)
  PROVE  DbInv'
<1> DEFINE q == dbRequest[r]
<1>1. q \in DbRow /\ Accounted(q) /\ Told(q) /\ Lateness(q)
  BY DEF DbInv, DbTypeOK
<1>2. CASE Upd(r, Fails(q))
  BY <1>2, FailedWell, RequestWritten DEF ExecuteFails, HitsSeveral
<1>3. CASE HitsSeveral(r)
  <2>1. PICK firm \in Firm : Upd(r, Fails(Done(q, firm)))
    BY <1>3 DEF HitsSeveral
  <2> DEFINE d == Done(q, firm)
  <2>2. /\ q.next \in 1..Length(q) /\ Length(q) <= MaxStatements
        /\ d \in DbRow
        /\ d.next = q.next /\ d.late = q.late
        /\ d.kind = q.kind /\ d.class = q.class /\ d.skipped = q.skipped /\ d.answer = q.answer
        /\ d.final \cap d.pending = {}
        /\ (autoCommit /\ d.kind # "import") \/ d.final \subseteq d.firm \/ Whole(d)
    BY <1>1, <1>3, StatementDone DEF HitsSeveral
  <2> HIDE DEF d
  <2> DEFINE p == Fails(d)
  <2>3. /\ p \in DbRow /\ p.pc = "failed" /\ p.next = q.next /\ p.late = q.late
        /\ p.kind = q.kind /\ p.class = q.class /\ p.skipped = d.skipped /\ p.answer = q.answer
        /\ p.final = d.final /\ p.pending = d.pending /\ p.firm = d.firm
    BY <2>2 DEF Fails, DbRow
  <2> HIDE DEF p
  <2>4. Length(p) = Length(q) /\ Length(d) = Length(q) /\ Length(q) \in 1..MaxStatements
    BY <1>1, <2>2, <2>3, Lengths DEF Length
  <2>5. Accounted(p)
    BY <1>1, <1>3, <2>2, <2>3, <2>4 DEF Accounted, HitsSeveral
  <2>6. Told(p)
    BY <1>1, <1>3, <2>2, <2>3, <2>4 DEF Told, Whole, HitsSeveral
  <2>7. Lateness(p)
    BY <1>1, <1>3, <2>3 DEF Lateness, HitsSeveral, DbRow, DbInv, DbTypeOK
  <2> QED BY <1>3, <2>1, <2>3, <2>5, <2>6, <2>7, RequestWritten DEF HitsSeveral, p, d
<1> QED BY <1>2, <1>3 DEF ExecuteFails

\* The transaction ends, and with it the request, or the connection is lost before.
LEMMA RequestEnds ==
  ASSUME DbInv, NEW r \in DbRequests,
         \/ RollBack(r) \/ Commit(r) \/ Answer(r) \/ LogFails(r)
         \/ ConnectionLost(r) \/ AnswerLost(r) \/ Forgotten(r)
  PROVE  DbInv'
<1> DEFINE q == dbRequest[r]
<1>1. q \in DbRow /\ Accounted(q) /\ Told(q) /\ Lateness(q)
  BY DEF DbInv, DbTypeOK
<1>2. CASE RollBack(r)
  <2> DEFINE p == [q EXCEPT !.pc = "done", !.pending = {}, !.answer = "error"]
  <2>1. p \in DbRow /\ Length(p) = Length(q)
    BY <1>1 DEF DbRow, Length
  <2>2. Accounted(p) /\ Told(p) /\ Lateness(p)
    BY <1>1, <1>2, <2>1 DEF RollBack, Accounted, Told, Whole, Lateness, DbRow
  <2> QED BY <1>2, <2>1, <2>2, RequestWritten DEF RollBack
<1>3. ASSUME NEW pc \in {"committed", "failed"},
             q.pc = "connected", q.next > Length(q), AssetSame,
             Upd(r, [Committed(q) EXCEPT !.pc = pc])
      PROVE  DbInv'
  <2> DEFINE g == q.final \cup q.pending
             p == [Committed(q) EXCEPT !.pc = pc]
  <2>1. g \in SUBSET (1..MaxStatements)
    BY <1>1 DEF DbRow
  <2>2. Committed(q) = [q EXCEPT !.final = g, !.pending = {}]
    BY <1>1 DEF Committed, DbRow
  <2> HIDE DEF g
  <2>3. /\ p \in DbRow /\ p.pc = pc /\ p.next = q.next /\ p.late = q.late /\ p.kind = q.kind
        /\ p.class = q.class /\ p.skipped = q.skipped /\ p.answer = q.answer
        /\ p.final = g /\ p.pending = {}
    BY <1>1, <2>1, <2>2 DEF DbRow
  <2> HIDE DEF p
  <2>4. Length(p) = Length(q) /\ q.next - 1 = Length(q)
    BY <1>1, <1>3, <2>3, Lengths DEF Length, Accounted, DbRow
  <2>5. Whole(p)
    BY <1>1, <1>3, <2>3, <2>4 DEF Whole, Accounted, g
  <2>6. Accounted(p) /\ Told(p) /\ Lateness(p)
    BY <1>1, <1>3, <2>3, <2>4, <2>5 DEF Accounted, Told, Lateness, DbRow
  <2> QED BY <1>3, <2>3, <2>6, RequestWritten DEF p
<1>4. CASE Commit(r)
  BY <1>3, <1>4 DEF Commit
<1>5. CASE AnswerLost(r)
  BY <1>3, <1>5 DEF AnswerLost, Fails
<1>6. ASSUME NEW answer \in {"ok", "error"}, q.pc = "committed", AssetSame,
             Upd(r, [q EXCEPT !.pc = "done", !.answer = answer])
      PROVE  DbInv'
  <2> DEFINE p == [q EXCEPT !.pc = "done", !.answer = answer]
  <2>1. p \in DbRow /\ Length(p) = Length(q)
    BY <1>1 DEF DbRow, Length
  <2>2. Accounted(p) /\ Told(p) /\ Lateness(p)
    BY <1>1, <1>6, <2>1 DEF Accounted, Told, Whole, Lateness, DbRow
  <2> QED BY <1>6, <2>1, <2>2, RequestWritten
<1>7. CASE Answer(r) \/ LogFails(r)
  BY <1>6, <1>7 DEF Answer, LogFails
<1>8. CASE ConnectionLost(r)
  <2> DEFINE p == [Fails(q) EXCEPT !.pending = {}]
  <2>1. p \in DbRow /\ Length(p) = Length(q)
    BY <1>1 DEF DbRow, Length, Fails
  <2>2. Accounted(p) /\ Told(p) /\ Lateness(p)
    BY <1>1, <1>8, <2>1 DEF ConnectionLost, Fails, Accounted, Told, Whole, Lateness, DbRow, DbInv, DbTypeOK
  <2> QED BY <1>8, <2>1, <2>2, RequestWritten DEF ConnectionLost
<1>9. CASE Forgotten(r)
  <2>1. NoDbRequest \in DbRow
    BY DbAssumption DEF NoDbRequest, DbRow, RequestKinds, Classes
  <2>2. Accounted(NoDbRequest) /\ Told(NoDbRequest) /\ Lateness(NoDbRequest)
    BY <2>1, Lengths DEF NoDbRequest, Accounted, Told, Whole, Lateness, DbInv, DbTypeOK
  <2> QED BY <1>9, <2>1, <2>2, RequestWritten DEF Forgotten
<1> QED BY <1>2, <1>4, <1>5, <1>7, <1>8, <1>9

\* Nobody edits the policy without opening or closing the connection, or leaving it closed.
LEMMA PolicyEdited ==
  ASSUME DbInv, EditPolicy
  PROVE  DbInv'
<1>1. DbTypeOK'
  BY DbAssumption DEF DbInv, DbTypeOK, EditPolicy
<1>2. policies' = policies + 1 /\ (MayWrite => ~MayWrite' \/ (dbKind # "mysql" /\ MayWrite'))
  BY DEF DbInv, DbTypeOK, EditPolicy, MayWrite
<1>3. ASSUME NEW p \in DbRequests
      PROVE  Accounted(dbRequest[p])' /\ Told(dbRequest[p])' /\ Lateness(dbRequest[p])'
  <2>1. Accounted(dbRequest[p])' /\ Told(dbRequest[p])'
    BY DEF DbInv, EditPolicy, Accounted, Told, Whole, Length, Ends
  <2>2. Lateness(dbRequest[p])'
    BY <1>2 DEF DbInv, DbTypeOK, EditPolicy, Lateness, DbRow, MayWrite
  <2> QED BY <2>1, <2>2
<1> QED BY <1>1, <1>3 DEF DbInv

-----------------------------------------------------------------------------
LEMMA DbInvariant == DbSpec => []DbInv
<1>1. DbInv /\ [DbNext]_dbVars => DbInv'
  <2> SUFFICES ASSUME DbInv, [DbNext]_dbVars PROVE DbInv'
    OBVIOUS
  <2>1. CASE UNCHANGED dbVars
    BY <2>1 DEF dbVars, DbInv, DbTypeOK, Accounted, Told, Whole, Lateness, Length, Ends, MayWrite
  <2>2. CASE EditPolicy
    BY <2>2, PolicyEdited
  <2>3. ASSUME NEW r \in DbRequests,
               \/ \E kind \in RequestKinds, class \in Classes : LoadAsset(r, kind, class)
               \/ CheckPolicy(r) \/ Connect(r) \/ CheckStatement(r) \/ Execute(r) \/ SkipRow(r)
               \/ ExecuteFails(r) \/ HitsSeveral(r) \/ RollBack(r) \/ Commit(r)
               \/ Answer(r) \/ LogFails(r) \/ ConnectionLost(r) \/ AnswerLost(r) \/ Forgotten(r)
        PROVE  DbInv'
    BY <2>3, RequestBegins, RequestChecked, StatementChecked, StatementExecuted, RowSkipped,
       StatementFailed, RequestEnds
  <2> QED BY <2>1, <2>2, <2>3 DEF DbNext
<1> QED BY <1>1, DbInitially, PTL DEF DbSpec

\* Every variable keeps its type, and no statement is final and pending at once.
THEOREM DbTypeCorrect == DbSpec => []DbTypeOK
<1>1. DbInv => DbTypeOK
  BY DEF DbInv
<1> QED BY <1>1, DbInvariant, PTL

\* What a request answers is true, and a request sends at most one more statement for each
\* edit that closes the connection to writes.
THEOREM DatabaseAnswers == DbSpec => []DatabaseHonest
<1>1. DbInv => AnsweredTruly
  BY DEF DbInv, AnsweredTruly, Told
<1>2. DbInv => ReadOnlyStops
  <2> SUFFICES ASSUME DbInv, NEW r \in DbRequests
               PROVE  dbRequest[r].late <= (policies + 1) \div 2
    BY DEF ReadOnlyStops
  <2>1. policies \in Nat /\ dbRequest[r].late \in Nat /\ 2 * dbRequest[r].late <= policies + 1
    BY DEF DbInv, DbTypeOK, DbRow, Lateness
  <2> QED BY <2>1
<1> QED BY <1>1, <1>2, DbInvariant, PTL DEF DatabaseHonest
----------------------------------------------------------------------------
(* The catalogue of connections: ConnectionCatalog. *)

\* p is not below f: some set of directories is closed, holds f, and leaves p out.
Apart(f, p) == \E S \in SUBSET Folders : f \in S /\ Closed(S) /\ p \notin S

\* The directories are a tree.
Tree == \A f \in LiveFolders : Apart(f, folder[f].parent)

Pending(r) == asked[r].pc = "store"

\* What a request that has looked refers to was stored once: ids are not given twice.
Known(q) ==
    /\ q.kind \in FolderKinds \ {"newFolder"} => q.item \in Folders /\ folder[q.item].is # "free"
    /\ q.kind \in FolderKinds /\ q.to # Root => folder[q.to].is # "free"
    /\ q.kind \in AssetKinds \ {"newAsset", "clear"} => q.item \in CatalogAssets
    /\ q.kind \in {"editAsset", "copyAsset"} => \A row \in q.was : row \in AssetRow /\ row.is = "live"

\* The move that was found to make no cycle still makes none.
MoveApart(q) == q.kind = "moveFolder" /\ q.item \in LiveFolders /\ Live(q.to) => Apart(q.item, q.to)

\* What was found is still there.
Current(q) ==
    /\ q.kind \in FolderKinds => LooksAtFolder(q)
    /\ q.kind \in AssetKinds => LooksAtAsset(q)
    /\ q.was = Seen(q)

\* The connection that will be stored finds a user in its key.
KeyNamed(q) ==
    /\ q.kind = "newAsset" /\ q.keyed => appKey # "nameless"
    /\ q.kind = "editAsset" => \A row \in q.was : q.keyed => row.redis \/ appKey # "nameless"
    /\ q.kind = "copyAsset" => \A row \in q.was : row.keyed => row.redis \/ appKey # "nameless"

NoKeyRace == \A pair \in raced : "editKey" \notin pair
NoMoveRace == {"moveFolder"} \notin raced

CatalogInv ==
    /\ CatalogTypeOK
    /\ \A r \in CatalogRequests : Pending(r) => Known(asked[r])
    /\ NoMoveRace => Tree /\ \A r \in CatalogRequests : Pending(r) => MoveApart(asked[r])
    /\ NamesDistinct
    /\ raced = {} => \A r \in CatalogRequests : Pending(r) => Current(asked[r])
    /\ NoKeyRace => \A r \in CatalogRequests : Pending(r) => KeyNamed(asked[r])
    /\ KeyGivesUser
----------------------------------------------------------------------------
(* Trees. *)

\* What is below a directory is closed.
LEMMA UnderClosed ==
  ASSUME CatalogTypeOK, NEW f \in Folders
  PROVE  f \in Under(f) /\ Under(f) \subseteq Folders /\ Closed(Under(f))
<1>1. f \in Under(f) /\ Under(f) \subseteq Folders
  BY DEF Under, LiveFolders
<1>2. ASSUME NEW g \in LiveFolders, folder[g].parent \in Under(f) PROVE g \in Under(f)
  <2>1. ASSUME NEW S \in SUBSET Folders, f \in S, Closed(S) PROVE g \in S
    BY <1>2, <2>1 DEF Under, Closed
  <2> QED BY <2>1 DEF Under
<1> QED BY <1>1, <1>2 DEF Closed

\* Being below, by sets: for a place that is there.
LEMMA ApartIsNotUnder ==
  ASSUME CatalogTypeOK, NEW f \in Folders, NEW p, Live(p)
  PROVE  Apart(f, p) <=> p \notin Under(f)
<1>1. ASSUME Apart(f, p) PROVE p \notin Under(f)
  BY <1>1 DEF Apart, Under
<1>2. ASSUME p \notin Under(f) PROVE Apart(f, p)
  BY <1>2, UnderClosed DEF Apart
<1> QED BY <1>1, <1>2

\* Tree is what TreeHolds says.
LEMMA TreeIsAcyclic ==
  ASSUME CatalogTypeOK
  PROVE  Tree <=> \A f \in LiveFolders : ~OnCycle(f)
<1>1. ASSUME NEW f \in LiveFolders PROVE Apart(f, folder[f].parent) <=> ~OnCycle(f)
  <2>1. f \in Folders /\ Live(folder[f].parent)
    BY DEF LiveFolders, CatalogTypeOK
  <2> QED BY <2>1, ApartIsNotUnder DEF OnCycle
<1> QED BY <1>1 DEF Tree

\* A directory other than the top of a branch has its parent in the branch.
LEMMA BranchParent ==
  ASSUME CatalogTypeOK, NEW f \in Folders, NEW g \in Under(f), g # f
  PROVE  g \in LiveFolders /\ folder[g].parent \in Under(f)
<1>1. g \in LiveFolders
  BY DEF Under
<1>2. SUFFICES ASSUME folder[g].parent \notin Under(f) PROVE FALSE
  BY <1>1
<1> DEFINE S == Under(f) \ {g}
<1>3. S \in SUBSET Folders /\ f \in S
  BY UnderClosed
<1>4. Closed(S)
  <2>1. ASSUME NEW h \in LiveFolders, folder[h].parent \in S PROVE h \in S
    BY <1>2, <2>1, UnderClosed DEF Closed
  <2> QED BY <2>1 DEF Closed
<1>5. g \in S
  BY <1>3, <1>4 DEF Under
<1> QED BY <1>5

\* One directory more.
Grows(n) ==
    /\ n \in Folders \ LiveFolders /\ LiveFolders' = LiveFolders \cup {n}
    /\ \A f \in LiveFolders : folder'[f].parent = folder[f].parent
    /\ Live(folder'[n].parent)

\* A new directory takes nothing out of the tree.
LEMMA GrownApart ==
  ASSUME CatalogAssumption, CatalogTypeOK, NEW n, Grows(n), NEW f \in LiveFolders, NEW p, Live(p), Apart(f, p)
  PROVE  Apart(f, p)'
<1>1. PICK S \in SUBSET Folders : f \in S /\ Closed(S) /\ p \notin S
  BY DEF Apart
<1> DEFINE T == (S \cup {n})
<1>2. T \in SUBSET Folders /\ f \in T /\ p \notin T
  BY <1>1 DEF Grows, Live, CatalogAssumption
<1>3. ASSUME NEW x \in LiveFolders', folder'[x].parent \in T PROVE x \in T
  <2>1. CASE x = n
    BY <2>1
  <2>2. CASE x \in LiveFolders
    <3>1. folder[x].parent \in T /\ Live(folder[x].parent)
      BY <1>3, <2>2 DEF Grows, CatalogTypeOK
    <3>2. folder[x].parent \in S
      BY <3>1 DEF Grows, Live, CatalogAssumption
    <3> QED BY <3>2, <2>2, <1>1 DEF Closed
  <2> QED BY <1>3, <2>1, <2>2 DEF Grows
<1>4. Closed(T)'
  BY <1>3 DEF Closed
<1> QED BY <1>2, <1>4 DEF Apart

LEMMA GrownTree ==
  ASSUME CatalogAssumption, CatalogTypeOK, NEW n, Grows(n), Tree
  PROVE  Tree'
<1>1. ASSUME NEW f \in LiveFolders PROVE Apart(f, folder[f].parent)'
  <2>1. Live(folder[f].parent) /\ Apart(f, folder[f].parent)
    BY DEF CatalogTypeOK, Tree
  <2>2. folder'[f].parent = folder[f].parent
    BY DEF Grows
  <2>3. PICK p : p = folder[f].parent
    OBVIOUS
  <2>4. Apart(f, p)'
    BY <2>1, <2>3, GrownApart
  <2> QED BY <2>2, <2>3, <2>4 DEF Apart
<1>2. Apart(n, folder[n].parent)'
  <2> DEFINE S == {n}
  <2>1. S \in SUBSET Folders /\ n \in S /\ folder'[n].parent \notin S
    BY DEF Grows, Live, CatalogAssumption
  <2>2. ASSUME NEW x \in LiveFolders', folder'[x].parent \in S PROVE x \in S
    <3>1. CASE x = n
      BY <3>1
    <3>2. CASE x \in LiveFolders
      <4>1. Live(folder[x].parent) /\ folder[x].parent = n
        BY <2>2, <3>2 DEF Grows, CatalogTypeOK
      <4> QED BY <4>1 DEF Grows, Live, CatalogAssumption
    <3> QED BY <2>2, <3>1, <3>2 DEF Grows
  <2> QED BY <2>1, <2>2 DEF Apart, Closed
<1> QED BY <1>1, <1>2 DEF Tree, Grows

\* A move to a place that is not below what moves keeps the tree.
LEMMA MovedTree ==
  ASSUME CatalogAssumption, CatalogTypeOK, Tree, NEW m \in LiveFolders, LiveFolders' = LiveFolders,
         \A f \in LiveFolders \ {m} : folder'[f].parent = folder[f].parent,
         Apart(m, folder'[m].parent), Live(folder'[m].parent)
  PROVE  Tree'
<1>1. PICK U \in SUBSET Folders : m \in U /\ Closed(U) /\ folder'[m].parent \notin U
  BY DEF Apart
<1>2. ASSUME NEW f \in LiveFolders PROVE Apart(f, folder[f].parent)'
  <2>1. CASE f = m
    <3>1. ASSUME NEW x \in LiveFolders', folder'[x].parent \in U PROVE x \in U
      BY <1>1, <3>1 DEF Closed
    <3> QED BY <2>1, <3>1, <1>1 DEF Apart, Closed
  <2>2. CASE f # m
    <3>1. PICK S \in SUBSET Folders : f \in S /\ Closed(S) /\ folder[f].parent \notin S
      BY DEF Tree, Apart
    <3>2. folder'[f].parent = folder[f].parent
      BY <2>2
    <3>3. CASE f \in U
      <4> DEFINE T == S \cap U
      <4>1. T \in SUBSET Folders /\ f \in T /\ folder'[f].parent \notin T
        BY <3>1, <3>2, <3>3
      <4>2. ASSUME NEW x \in LiveFolders', folder'[x].parent \in T PROVE x \in T
        BY <1>1, <3>1, <4>2 DEF Closed
      <4> QED BY <4>1, <4>2 DEF Apart, Closed
    <3>4. CASE f \notin U
      <4> DEFINE T == S \cup U
      <4>1. T \in SUBSET Folders /\ f \in T /\ folder'[f].parent \notin T
        BY <1>1, <3>1, <3>2, <3>4 DEF Closed
      <4>2. ASSUME NEW x \in LiveFolders', folder'[x].parent \in T PROVE x \in T
        <5>1. CASE x = m
          BY <5>1, <1>1
        <5>2. CASE x # m
          BY <5>2, <4>2, <1>1, <3>1 DEF Closed
        <5> QED BY <5>1, <5>2
      <4> QED BY <4>1, <4>2 DEF Apart, Closed
    <3> QED BY <3>3, <3>4
  <2> QED BY <2>1, <2>2
<1> QED BY <1>2 DEF Tree

\* Fewer directories.
Shrinks ==
    /\ LiveFolders' \subseteq LiveFolders
    /\ \A f \in LiveFolders' : folder'[f].parent = folder[f].parent

\* Directories taken away leave the others where they are.
LEMMA ShrunkApart ==
  ASSUME Shrinks, NEW f, NEW p, Apart(f, p)
  PROVE  Apart(f, p)'
<1>1. PICK S \in SUBSET Folders : f \in S /\ Closed(S) /\ p \notin S
  BY DEF Apart
<1>2. ASSUME NEW x \in LiveFolders', folder'[x].parent \in S PROVE x \in S
  BY <1>1, <1>2 DEF Shrinks, Closed
<1> QED BY <1>1, <1>2 DEF Apart, Closed

LEMMA ShrunkTree ==
  ASSUME Shrinks, Tree
  PROVE  Tree'
<1>1. ASSUME NEW f \in LiveFolders' PROVE Apart(f, folder[f].parent)'
  <2>1. folder'[f].parent = folder[f].parent /\ Apart(f, folder[f].parent)
    BY DEF Shrinks, Tree
  <2>2. PICK p : p = folder[f].parent
    OBVIOUS
  <2>3. Apart(f, p)'
    BY <2>1, <2>2, ShrunkApart
  <2> QED BY <2>1, <2>2, <2>3 DEF Apart
<1> QED BY <1>1 DEF Tree

\* A branch again, below another place: m gives the copy of each directory.
Branches(item, to, m) ==
    LET new == {m[f] : f \in Under(item)} IN
    /\ item \in LiveFolders /\ Live(to) /\ m \in Injection(Under(item), FreeFolders)
    /\ LiveFolders' = LiveFolders \cup new
    /\ \A f \in LiveFolders : folder'[f].parent = folder[f].parent
    /\ \A f \in Under(item) : folder'[m[f]].parent = IF f = item THEN to ELSE m[folder[f].parent]

\* The copies are new.
LEMMA CopiesAreNew ==
  ASSUME CatalogTypeOK, NEW item, NEW to, NEW m, Branches(item, to, m)
  PROVE  /\ Under(item) \subseteq LiveFolders /\ item \in Under(item) /\ item \in Folders
         /\ \A f \in Under(item) : m[f] \in Folders \ LiveFolders
         /\ \A f, g \in Under(item) : m[f] = m[g] => f = g
         /\ \A f \in Under(item) \ {item} : folder[f].parent \in Under(item)
<1>1. item \in Folders /\ item \in Under(item) /\ Under(item) \subseteq LiveFolders
  BY DEF Branches, Under, LiveFolders
<1>2. \A f \in Under(item) : m[f] \in Folders \ LiveFolders
  BY DEF Branches, Injection, FreeFolders, LiveFolders
<1>3. \A f, g \in Under(item) : m[f] = m[g] => f = g
  BY DEF Branches, Injection, IsInjective
<1>4. \A f \in Under(item) \ {item} : folder[f].parent \in Under(item)
  BY <1>1, BranchParent
<1> QED BY <1>1, <1>2, <1>3, <1>4

LEMMA CopiedApart ==
  ASSUME CatalogAssumption, CatalogTypeOK, NEW item, NEW to, NEW m, Branches(item, to, m),
         NEW f \in LiveFolders, NEW p, Live(p), Apart(f, p)
  PROVE  Apart(f, p)'
<1>1. PICK S \in SUBSET Folders : f \in S /\ Closed(S) /\ p \notin S
  BY DEF Apart
<1> DEFINE new == {m[g] : g \in Under(item)}
           T == S \cup new
<1>2. new \subseteq Folders \ LiveFolders
  BY CopiesAreNew
<1>3. T \in SUBSET Folders /\ f \in T /\ p \notin T
  BY <1>1, <1>2 DEF Live, CatalogAssumption
<1>4. ASSUME NEW x \in LiveFolders', folder'[x].parent \in T PROVE x \in T
  <2>1. CASE x \in new
    BY <2>1
  <2>2. CASE x \in LiveFolders
    <3>1. folder[x].parent \in T /\ Live(folder[x].parent)
      BY <1>4, <2>2 DEF Branches, CatalogTypeOK
    <3>2. folder[x].parent \in S
      BY <3>1, <1>2 DEF Live, CatalogAssumption
    <3> QED BY <3>2, <2>2, <1>1 DEF Closed
  <2> QED BY <1>4, <2>1, <2>2 DEF Branches
<1> QED BY <1>3, <1>4 DEF Apart, Closed

\* The copy of a tree is a tree.
LEMMA CopiedTree ==
  ASSUME CatalogAssumption, CatalogTypeOK, NEW item, NEW to, NEW m, Branches(item, to, m), Tree
  PROVE  Tree'
<1> DEFINE new == {m[g] : g \in Under(item)}
<1>n. new \subseteq Folders \ LiveFolders
  BY CopiesAreNew
<1>1. ASSUME NEW f \in LiveFolders PROVE Apart(f, folder[f].parent)'
  <2>1. Live(folder[f].parent) /\ Apart(f, folder[f].parent) /\ folder'[f].parent = folder[f].parent
    BY DEF CatalogTypeOK, Tree, Branches
  <2>2. PICK p : p = folder[f].parent
    OBVIOUS
  <2>3. Apart(f, p)'
    BY <2>1, <2>2, CopiedApart
  <2> QED BY <2>1, <2>2, <2>3 DEF Apart
<1>2. ASSUME NEW f \in Under(item) PROVE Apart(m[f], folder[m[f]].parent)'
  <2>1. f \in LiveFolders
    BY CopiesAreNew
  <2>2. PICK S \in SUBSET Folders : f \in S /\ Closed(S) /\ folder[f].parent \notin S
    BY <2>1 DEF Tree, Apart
  <2> DEFINE T == {m[g] : g \in S \cap Under(item)}
  <2>3. T \in SUBSET Folders /\ m[f] \in T /\ T \subseteq new
    BY <2>2, CopiesAreNew
  <2>4. ASSUME NEW x \in LiveFolders', folder'[x].parent \in T PROVE x \in T
    <3>1. CASE x \in LiveFolders
      <4>1. Live(folder[x].parent) /\ folder[x].parent \in new
        BY <2>3, <2>4, <3>1 DEF CatalogTypeOK, Branches
      <4> QED BY <4>1, <1>n DEF Live, CatalogAssumption
    <3>2. CASE x \in new
      <4>1. PICK h \in Under(item) : x = m[h]
        BY <3>2
      <4>2. CASE h = item
        <5>1. to \in new
          BY <2>3, <2>4, <4>1, <4>2 DEF Branches
        <5> QED BY <5>1, <1>n DEF Branches, Live, CatalogAssumption
      <4>3. CASE h # item
        <5>1. m[folder[h].parent] \in T /\ folder[h].parent \in Under(item)
          BY <2>4, <4>1, <4>3, CopiesAreNew DEF Branches
        <5>2. folder[h].parent \in S
          BY <5>1, CopiesAreNew
        <5>3. h \in S
          BY <5>2, <2>2, CopiesAreNew DEF Closed
        <5> QED BY <5>3, <4>1
      <4> QED BY <4>2, <4>3
    <3> QED BY <2>4, <3>1, <3>2 DEF Branches
  <2>5. folder'[m[f]].parent \notin T
    <3>1. CASE f = item
      BY <3>1, <2>3, <1>n DEF Branches, Live, CatalogAssumption
    <3>2. CASE f # item
      <4>1. folder'[m[f]].parent = m[folder[f].parent] /\ folder[f].parent \in Under(item)
        BY <3>2, CopiesAreNew DEF Branches
      <4> QED BY <4>1, <2>2, CopiesAreNew
    <3> QED BY <3>1, <3>2
  <2>6. PICK S1 : S1 = T
    OBVIOUS
  <2>7. S1 \in SUBSET Folders /\ m[f] \in S1 /\ Closed(S1)' /\ folder'[m[f]].parent \notin S1
    <3> HIDE DEF T
    <3> QED BY <2>3, <2>4, <2>5, <2>6 DEF Closed
  <2> QED BY <2>7 DEF Apart
<1>3. ASSUME NEW x \in LiveFolders' PROVE Apart(x, folder[x].parent)'
  <2>1. CASE x \in LiveFolders
    BY <1>1, <2>1
  <2>2. CASE x \in new
    <3>1. PICK f \in Under(item) : x = m[f]
      BY <2>2
    <3> QED BY <1>2, <3>1
  <2> QED BY <2>1, <2>2, <1>3 DEF Branches
<1> QED BY <1>3 DEF Tree
----------------------------------------------------------------------------
(* Requests that store. *)

\* What others that have looked are told by the history.
LEMMA Stored ==
  ASSUME CatalogTypeOK, NEW r \in CatalogRequests, NEW kind \in FolderKinds \cup AssetKinds \cup OtherKinds,
         Stores(r, kind)
  PROVE  /\ \A q \in CatalogRequests : Pending(q)' => q # r /\ Pending(q) /\ asked'[q] = asked[q]
         /\ raced \subseteq raced'
         /\ raced' = {} => \A q \in CatalogRequests : ~Pending(q)'
         /\ NoMoveRace' /\ kind = "moveFolder" =>
              \A q \in CatalogRequests : Pending(q)' => asked[q].kind # "moveFolder"
         /\ NoKeyRace' /\ kind = "editKey" => \A q \in CatalogRequests : ~Pending(q)'
         /\ asked' \in [CatalogRequests -> CatalogRequest]
<1>1. asked \in [CatalogRequests -> CatalogRequest]
  BY DEF CatalogTypeOK
<1>2. Over \in CatalogRequest /\ Over.pc = "done"
  <2>1. NotAsked.name \in ItemNames
    BY CatalogAssumption DEF NotAsked
  <2>2. NotAsked \in [pc : {"new"}, kind : {"import"}, item : {NoItem}, to : {Root}, name : ItemNames,
                      keyed : {FALSE}, was : {{}}]
    BY <2>1 DEF NotAsked
  <2> QED BY <2>2 DEF Over, CatalogRequest, OtherKinds, Places
<1>3. asked' = [asked EXCEPT ![r] = Over]
  BY DEF Stores
<1>4. asked'[r].pc = "done" /\ \A q \in CatalogRequests \ {r} : asked'[q] = asked[q]
  BY <1>1, <1>2, <1>3
<1>5. \A q \in CatalogRequests : Pending(q)' => q # r /\ Pending(q) /\ asked'[q] = asked[q]
  BY <1>4 DEF Pending
<1>6. raced' = raced \cup {{kind, asked[q].kind} : q \in {p \in CatalogRequests \ {r} : asked[p].pc = "store"}}
  BY DEF Stores
<1>7. \A q \in CatalogRequests : Pending(q)' => {kind, asked[q].kind} \in raced'
  BY <1>5, <1>6 DEF Pending
<1>8. NoMoveRace' /\ kind = "moveFolder" =>
        \A q \in CatalogRequests : Pending(q)' => asked[q].kind # "moveFolder"
  BY <1>7 DEF NoMoveRace
<1>9. NoKeyRace' /\ kind = "editKey" => \A q \in CatalogRequests : ~Pending(q)'
  BY <1>7 DEF NoKeyRace
<1> QED BY <1>1, <1>2, <1>3, <1>5, <1>6, <1>7, <1>8, <1>9

\* What a step that stores must do so that the invariant holds after it.
StoresWell(kind) ==
    /\ CatalogTypeOK'
    /\ \A f \in Folders : folder[f].is # "free" => folder'[f].is # "free"
    /\ kind # "editKey" => appKey' \in {appKey, "deleted"}
    /\ NoMoveRace /\ Tree => Tree'
    /\ NoMoveRace /\ Tree /\ kind # "moveFolder" =>
         \A f \in LiveFolders', p \in Places : Live(p)' /\ f \in LiveFolders /\ Live(p) /\ Apart(f, p) => Apart(f, p)'
    /\ \A f \in Folders : f \in LiveFolders' => f \in LiveFolders \/ folder[f].is = "free"
    /\ raced = {} /\ ~padded' => NamesDistinct'
    /\ NoKeyRace /\ KeyGivesUser => KeyGivesUser'

LEMMA StoringStep ==
  ASSUME CatalogAssumption, CatalogInv, NEW r \in CatalogRequests,
         NEW kind \in FolderKinds \cup AssetKinds \cup OtherKinds,
         Stores(r, kind), StoresWell(kind), padded => padded'
  PROVE  CatalogInv'
<1>s. /\ \A q \in CatalogRequests : Pending(q)' => q # r /\ Pending(q) /\ asked'[q] = asked[q]
      /\ raced \subseteq raced'
      /\ raced' = {} => \A q \in CatalogRequests : ~Pending(q)'
      /\ NoMoveRace' /\ kind = "moveFolder" =>
           \A q \in CatalogRequests : Pending(q)' => asked[q].kind # "moveFolder"
      /\ NoKeyRace' /\ kind = "editKey" => \A q \in CatalogRequests : ~Pending(q)'
  BY Stored DEF CatalogInv
<1>t. asked \in [CatalogRequests -> CatalogRequest]
  BY DEF CatalogInv, CatalogTypeOK
<1>1. CatalogTypeOK'
  BY DEF StoresWell
<1>2. ASSUME NEW q \in CatalogRequests, Pending(q)' PROVE Known(asked[q])'
  <2>1. Known(asked[q]) /\ asked'[q] = asked[q] /\ asked[q] \in CatalogRequest
    BY <1>s, <1>t, <1>2 DEF CatalogInv
  <2>2. \A f \in Folders : folder[f].is # "free" => folder'[f].is # "free"
    BY DEF StoresWell
  <2>3. PICK a : a = asked[q]
    OBVIOUS
  <2>4. Known(a)'
    BY <2>1, <2>2, <2>3 DEF Known, CatalogRequest, Places
  <2> QED BY <2>1, <2>3, <2>4 DEF Known
<1>3. ASSUME NoMoveRace' PROVE Tree' /\ \A q \in CatalogRequests : Pending(q)' => MoveApart(asked[q])'
  <2>1. NoMoveRace /\ Tree
    BY <1>s, <1>3 DEF NoMoveRace, CatalogInv
  <2>2. Tree'
    BY <2>1 DEF StoresWell
  <2>3. ASSUME NEW q \in CatalogRequests, Pending(q)' PROVE MoveApart(asked[q])'
    <3>1. /\ MoveApart(asked[q]) /\ Known(asked[q]) /\ asked'[q] = asked[q] /\ asked[q] \in CatalogRequest
          /\ kind = "moveFolder" => asked[q].kind # "moveFolder"
      BY <1>s, <1>t, <1>3, <2>1, <2>3 DEF CatalogInv
    <3>2. PICK a : a = asked[q]
      OBVIOUS
    <3>3. ASSUME a.kind = "moveFolder", a.item \in LiveFolders', Live(a.to)' PROVE Apart(a.item, a.to)'
      <4>1. a.item \in Folders /\ folder[a.item].is # "free" /\ a.to \in Places /\ kind # "moveFolder"
        BY <3>1, <3>2, <3>3 DEF Known, CatalogRequest, FolderKinds
      <4>2. a.item \in LiveFolders
        BY <3>3, <4>1 DEF StoresWell
      <4>3. Live(a.to)
        BY <3>1, <3>2, <3>3, <4>1 DEF StoresWell, Live, Known, FolderKinds, Places
      <4>4. Apart(a.item, a.to)
        BY <3>1, <3>2, <3>3, <4>2, <4>3 DEF MoveApart
      <4> QED BY <2>1, <3>3, <4>1, <4>2, <4>3, <4>4 DEF StoresWell
    <3> QED BY <3>1, <3>2, <3>3 DEF MoveApart, Apart, Live
  <2> QED BY <2>2, <2>3
<1>4. NamesDistinct'
  <2>1. raced' = {} => raced = {}
    BY <1>s
  <2> QED BY <2>1 DEF StoresWell, NamesDistinct
<1>5. ASSUME raced' = {} PROVE \A q \in CatalogRequests : Pending(q)' => Current(asked[q])'
  BY <1>s, <1>5
<1>6. ASSUME NoKeyRace' PROVE \A q \in CatalogRequests : Pending(q)' => KeyNamed(asked[q])'
  <2>1. NoKeyRace
    BY <1>s, <1>6 DEF NoKeyRace
  <2>2. ASSUME NEW q \in CatalogRequests, Pending(q)' PROVE KeyNamed(asked[q])'
    <3>1. KeyNamed(asked[q]) /\ asked'[q] = asked[q] /\ kind # "editKey"
      BY <1>s, <1>6, <2>1, <2>2 DEF CatalogInv
    <3>2. appKey' \in {appKey, "deleted"}
      BY <3>1 DEF StoresWell
    <3> QED BY <3>1, <3>2 DEF KeyNamed
  <2> QED BY <2>2
<1>7. KeyGivesUser'
  <2>1. CASE NoKeyRace
    BY <2>1 DEF StoresWell, CatalogInv
  <2>2. CASE ~NoKeyRace
    BY <2>2, <1>s DEF NoKeyRace, KeyGivesUser
  <2> QED BY <2>1, <2>2
<1> QED BY <1>1, <1>2, <1>3, <1>4, <1>5, <1>6, <1>7 DEF CatalogInv

\* Directories are as they were.
LEMMA SameFolders ==
  ASSUME folder' = folder
  PROVE  LiveFolders' = LiveFolders /\ (Tree' <=> Tree)
<1>1. LiveFolders' = LiveFolders
  BY DEF LiveFolders
<1>2. Tree' <=> Tree
  BY <1>1 DEF Tree, Apart, Closed
<1> QED BY <1>1, <1>2

LEMMA SameApart ==
  ASSUME folder' = folder, NEW f, NEW p
  PROVE  (Apart(f, p)' <=> Apart(f, p)) /\ Under(f)' = Under(f)
<1>1. LiveFolders' = LiveFolders
  BY DEF LiveFolders
<1> QED BY <1>1 DEF Apart, Closed, Under
----------------------------------------------------------------------------
(* Requests on assets. *)

AssetsDistinct  == \A a \in LiveAssets : asset[a].name \notin AssetNames(asset[a].at, a)
FoldersDistinct == \A f \in LiveFolders : folder[f].name \notin FolderNames(folder[f].parent, f)

\* The id of a new row.
LEMMA NewIds ==
  /\ FreeAssets # {} => NewAssetId \in CatalogAssets /\ asset[NewAssetId].is = "free"
  /\ FreeFolders # {} => NewFolderId \in Folders /\ folder[NewFolderId].is = "free"
BY DEF NewAssetId, NewFolderId, FreeAssets, FreeFolders

\* Assets change, directories and the key do not.
LEMMA AssetsStored ==
  ASSUME CatalogInv, NEW r \in CatalogRequests, NEW kind \in FolderKinds \cup AssetKinds \cup OtherKinds,
         kind # "editKey", Stores(r, kind),
         UNCHANGED <<folder, appKey>>, padded' \in BOOLEAN, padded => padded',
         asset' \in [CatalogAssets -> AssetRow],
         \A a \in LiveAssets' : Live(asset'[a].at) /\ (asset'[a].keyed => appKey # "deleted"),
         raced = {} /\ ~padded' => AssetsDistinct',
         NoKeyRace /\ KeyGivesUser =>
           \A a \in LiveAssets' : asset'[a].keyed => asset'[a].redis \/ appKey = "named"
  PROVE  StoresWell(kind)
<1>0. folder' = folder
  OBVIOUS
<1>1. LiveFolders' = LiveFolders /\ (Tree' <=> Tree) /\ \A p : Live(p)' <=> Live(p)
  BY <1>0, SameFolders DEF Live
<1>a. \A f, p : Apart(f, p)' <=> Apart(f, p)
  BY <1>0, SameApart
<1>2. CatalogTypeOK'
  <2>1. asked' \in [CatalogRequests -> CatalogRequest]
    BY Stored DEF CatalogInv
  <2> QED BY <1>1, <2>1 DEF CatalogInv, CatalogTypeOK
<1>3. raced = {} /\ ~padded' => NamesDistinct'
  <2>1. NamesDistinct => (raced = {} /\ ~padded => FoldersDistinct)
    BY DEF NamesDistinct, FoldersDistinct
  <2>2. FoldersDistinct => FoldersDistinct'
    BY <1>1 DEF FoldersDistinct, FolderNames
  <2>3. AssetsDistinct' /\ FoldersDistinct' => NamesDistinct'
    BY DEF NamesDistinct, FoldersDistinct, AssetsDistinct
  <2> QED BY <2>1, <2>2, <2>3 DEF CatalogInv
<1>4. NoKeyRace /\ KeyGivesUser => KeyGivesUser'
  BY DEF KeyGivesUser
<1> QED BY <1>1, <1>a, <1>2, <1>3, <1>4 DEF StoresWell

\* One asset is written.
LEMMA AssetWritten ==
  ASSUME CatalogAssumption, CatalogInv, NEW r \in CatalogRequests, NEW kind \in AssetKinds, Stores(r, kind),
         NEW a \in CatalogAssets, NEW row \in AssetRow, StoresAssets([asset EXCEPT ![a] = row]),
         row.is = "live" =>
           /\ Live(row.at) /\ (row.keyed => appKey # "deleted")
           /\ NoKeyRace => (row.keyed => row.redis \/ appKey = "named")
           /\ raced = {} /\ ~padded => row.name \notin AssetNames(row.at, a)
  PROVE  CatalogInv'
<1>1. asset \in [CatalogAssets -> AssetRow]
  BY DEF CatalogInv, CatalogTypeOK
<1>2. asset' = [asset EXCEPT ![a] = row] /\ UNCHANGED <<folder, appKey, padded>>
  BY DEF StoresAssets
<1>3. asset' \in [CatalogAssets -> AssetRow] /\ asset'[a] = row
      /\ \A b \in CatalogAssets \ {a} : asset'[b] = asset[b]
  BY <1>1, <1>2
<1>4. \A b \in LiveAssets' : b # a => b \in LiveAssets /\ asset'[b] = asset[b]
  BY <1>3 DEF LiveAssets
<1>5. \A b \in LiveAssets' : Live(asset'[b].at) /\ (asset'[b].keyed => appKey # "deleted")
  BY <1>3, <1>4 DEF CatalogInv, CatalogTypeOK, LiveAssets
<1>6. ASSUME raced = {}, ~padded PROVE AssetsDistinct'
  <2>1. AssetsDistinct
    BY <1>6 DEF CatalogInv, NamesDistinct, AssetsDistinct
  <2>2. ASSUME NEW b \in LiveAssets', NEW c \in LiveAssets', b # c, asset'[b].at = asset'[c].at
        PROVE  asset'[b].name # asset'[c].name
    <3>1. CASE b = a
      BY <1>3, <1>4, <1>6, <2>2, <3>1 DEF AssetNames, LiveAssets
    <3>2. CASE c = a
      BY <1>3, <1>4, <1>6, <2>2, <3>2 DEF AssetNames, LiveAssets
    <3>3. CASE b # a /\ c # a
      BY <1>4, <2>1, <2>2, <3>3 DEF AssetsDistinct, AssetNames
    <3> QED BY <3>1, <3>2, <3>3
  <2> QED BY <2>2 DEF AssetsDistinct, AssetNames
<1>7. NoKeyRace /\ KeyGivesUser =>
        \A b \in LiveAssets' : asset'[b].keyed => asset'[b].redis \/ appKey = "named"
  BY <1>3, <1>4 DEF KeyGivesUser, NoKeyRace, LiveAssets
<1>8. kind # "editKey" /\ kind \in FolderKinds \cup AssetKinds \cup OtherKinds
  BY DEF AssetKinds
<1>p. padded' \in BOOLEAN /\ (padded => padded')
  BY <1>2 DEF CatalogInv, CatalogTypeOK
<1>9. StoresWell(kind)
  BY <1>p, <1>2, <1>3, <1>5, <1>6, <1>7, <1>8, AssetsStored
<1> QED BY <1>2, <1>8, <1>9, StoringStep

\* What a request that has looked knows.
LEMMA Informed ==
  ASSUME CatalogInv, NEW r \in CatalogRequests, NEW kind, At(r, kind)
  PROVE  /\ asked[r] \in CatalogRequest /\ asked[r].kind = kind /\ Known(asked[r])
         /\ raced = {} => Current(asked[r])
         /\ NoKeyRace => KeyNamed(asked[r])
         /\ NoMoveRace => MoveApart(asked[r]) /\ Tree
<1>1. asked \in [CatalogRequests -> CatalogRequest]
  BY DEF CatalogInv, CatalogTypeOK
<1>2. Pending(r)
  BY DEF At, Pending
<1> QED BY <1>1, <1>2 DEF CatalogInv, At

LEMMA NewAssetStep ==
  ASSUME CatalogAssumption, CatalogInv, NEW r \in CatalogRequests, NewAsset(r)
  PROVE  CatalogInv'
<1> DEFINE q == asked[r]
           row == [is |-> "live", name |-> q.name, at |-> q.to, keyed |-> q.keyed, redis |-> FALSE]
<1>1. /\ At(r, "newAsset") /\ Live(q.to) /\ KeyLives(q.keyed) /\ FreeAssets # {}
      /\ StoresAssets([asset EXCEPT ![NewAssetId] = row]) /\ Stores(r, "newAsset")
  BY DEF NewAsset
<1>2. /\ q \in CatalogRequest /\ q.kind = "newAsset"
      /\ raced = {} => Current(q)
      /\ NoKeyRace => KeyNamed(q)
  BY <1>1, Informed
<1>3. NewAssetId \in CatalogAssets /\ row \in AssetRow
  BY <1>1, <1>2, NewIds DEF CatalogRequest, AssetRow, RowIs
<1>4. row.at = q.to /\ row.keyed = q.keyed /\ row.name = q.name /\ ~row.redis
  OBVIOUS
<1>5. row.keyed => appKey # "deleted"
  BY <1>1, <1>4 DEF KeyLives
<1>6. NoKeyRace => (row.keyed => row.redis \/ appKey = "named")
  BY <1>2, <1>4, <1>5 DEF KeyNamed, CatalogInv, CatalogTypeOK
<1>7. raced = {} => row.name \notin AssetNames(row.at, NewAssetId)
  BY <1>2, <1>4, CatalogAssumption DEF Current, LooksAtAsset, AssetKinds, AssetNames, LiveAssets
<1> HIDE DEF row
<1> QED BY <1>1, <1>3, <1>4, <1>5, <1>6, <1>7, AssetWritten DEF AssetKinds

LEMMA EditAssetStep ==
  ASSUME CatalogAssumption, CatalogInv, NEW r \in CatalogRequests, EditAsset(r)
  PROVE  CatalogInv'
<1> DEFINE q == asked[r]
<1>1. At(r, "editAsset") /\ Live(q.to) /\ KeyLives(q.keyed) /\ Stores(r, "editAsset")
  BY DEF EditAsset
<1>2. PICK old \in q.was :
         StoresAssets([asset EXCEPT ![q.item] = [old EXCEPT !.name = q.name, !.at = q.to, !.keyed = q.keyed]])
  BY DEF EditAsset
<1> DEFINE row == [old EXCEPT !.name = q.name, !.at = q.to, !.keyed = q.keyed]
<1>3. /\ q \in CatalogRequest /\ q.kind = "editAsset" /\ Known(q)
      /\ raced = {} => Current(q)
      /\ NoKeyRace => KeyNamed(q)
  BY <1>1, Informed
<1>4. old \in AssetRow /\ q.item \in CatalogAssets
  BY <1>3 DEF Known, AssetKinds
<1>5. row \in AssetRow /\ row.at = q.to /\ row.keyed = q.keyed /\ row.name = q.name /\ row.redis = old.redis
  BY <1>3, <1>4 DEF CatalogRequest, AssetRow
<1>6. row.keyed => appKey # "deleted"
  BY <1>1, <1>5 DEF KeyLives
<1>7. NoKeyRace => (row.keyed => row.redis \/ appKey = "named")
  BY <1>3, <1>5, <1>6 DEF KeyNamed, CatalogInv, CatalogTypeOK
<1>8. raced = {} => row.name \notin AssetNames(row.at, q.item)
  BY <1>3, <1>5 DEF Current, LooksAtAsset, AssetKinds
<1>9. StoresAssets([asset EXCEPT ![q.item] = row])
  BY <1>2
<1> HIDE DEF row
<1> QED BY <1>1, <1>4, <1>5, <1>6, <1>7, <1>8, <1>9, AssetWritten DEF AssetKinds

LEMMA MoveAssetStep ==
  ASSUME CatalogAssumption, CatalogInv, NEW r \in CatalogRequests, MoveAsset(r)
  PROVE  CatalogInv'
<1> DEFINE q == asked[r]
           row == [asset[q.item] EXCEPT !.at = q.to]
<1>1. /\ At(r, "moveAsset") /\ Live(q.to) /\ q.item \in LiveAssets /\ Stores(r, "moveAsset")
      /\ StoresAssets([asset EXCEPT ![q.item].at = q.to])
  BY DEF MoveAsset
<1>2. asset \in [CatalogAssets -> AssetRow]
  BY DEF CatalogInv, CatalogTypeOK
<1>3. /\ q \in CatalogRequest /\ q.kind = "moveAsset"
      /\ raced = {} => Current(q)
  BY <1>1, Informed
<1>4. q.item \in CatalogAssets /\ asset[q.item] \in AssetRow
  BY <1>1, <1>2 DEF LiveAssets
<1>5. /\ row \in AssetRow /\ row.at = q.to /\ row.keyed = asset[q.item].keyed /\ row.name = asset[q.item].name
      /\ row.redis = asset[q.item].redis
  BY <1>3, <1>4 DEF CatalogRequest, AssetRow
<1>6. row.keyed => appKey # "deleted"
  BY <1>1, <1>5 DEF CatalogInv, CatalogTypeOK
<1>7. NoKeyRace => (row.keyed => row.redis \/ appKey = "named")
  BY <1>1, <1>5 DEF CatalogInv, KeyGivesUser, NoKeyRace
<1>8. raced = {} => row.name \notin AssetNames(row.at, q.item)
  BY <1>3, <1>5 DEF Current, LooksAtAsset, AssetKinds
<1>9. StoresAssets([asset EXCEPT ![q.item] = row])
  BY <1>1
<1> HIDE DEF row
<1> QED BY <1>1, <1>4, <1>5, <1>6, <1>7, <1>8, <1>9, AssetWritten DEF AssetKinds

LEMMA CopyAssetStep ==
  ASSUME CatalogAssumption, CatalogInv, NEW r \in CatalogRequests, CopyAsset(r)
  PROVE  CatalogInv'
<1> DEFINE q == asked[r]
<1>1. At(r, "copyAsset") /\ FreeAssets # {} /\ Stores(r, "copyAsset")
  BY DEF CopyAsset
<1>2. PICK old \in q.was, n \in ItemNames :
         /\ Live(Destination(old, q.to)) /\ KeyLives(old.keyed)
         /\ n \notin AssetNames(Destination(old, q.to), NoItem)
         /\ StoresAssets([asset EXCEPT ![NewAssetId] = [old EXCEPT !.name = n, !.at = Destination(old, q.to)]])
  BY DEF CopyAsset
<1> DEFINE to == Destination(old, q.to)
           row == [old EXCEPT !.name = n, !.at = to]
<1>3. /\ q \in CatalogRequest /\ q.kind = "copyAsset" /\ Known(q)
      /\ NoKeyRace => KeyNamed(q)
  BY <1>1, Informed
<1>4. old \in AssetRow /\ NewAssetId \in CatalogAssets
  BY <1>1, <1>3, NewIds DEF Known
<1>t. to \in Places
  BY <1>3, <1>4 DEF Destination, CatalogRequest, AssetRow
<1>5. row \in AssetRow /\ row.at = to /\ row.keyed = old.keyed /\ row.name = n /\ row.redis = old.redis
  BY <1>4, <1>t DEF AssetRow
<1>6. row.keyed => appKey # "deleted"
  BY <1>2, <1>5 DEF KeyLives
<1>7. NoKeyRace => (row.keyed => row.redis \/ appKey = "named")
  BY <1>3, <1>5, <1>6 DEF KeyNamed, CatalogInv, CatalogTypeOK
<1>8. row.name \notin AssetNames(row.at, NewAssetId)
  BY <1>2, <1>5, CatalogAssumption DEF AssetNames, LiveAssets
<1>9. StoresAssets([asset EXCEPT ![NewAssetId] = row]) /\ Live(row.at)
  BY <1>2, <1>5
<1> HIDE DEF row
<1> QED BY <1>1, <1>4, <1>5, <1>6, <1>7, <1>8, <1>9, AssetWritten DEF AssetKinds

\* The row of an asset that is gone.
LEMMA GoneRow == ASSUME CatalogAssumption
                 PROVE  [NoAsset EXCEPT !.is = "deleted"] \in AssetRow /\ NoAsset \in AssetRow
<1>1. NotAsked.name \in ItemNames
  BY CatalogAssumption DEF NotAsked
<1> QED BY <1>1 DEF NoAsset, AssetRow, RowIs, Places

LEMMA DeleteAssetStep ==
  ASSUME CatalogAssumption, CatalogInv, NEW r \in CatalogRequests, DeleteAsset(r)
  PROVE  CatalogInv'
<1> DEFINE q == asked[r]
           old == asset[q.item]
           row == IF old.is = "live" THEN [NoAsset EXCEPT !.is = "deleted"] ELSE old
<1>1. /\ At(r, "deleteAsset") /\ Stores(r, "deleteAsset")
      /\ StoresAssets([asset EXCEPT ![q.item] = row])
  BY DEF DeleteAsset
<1>2. asset \in [CatalogAssets -> AssetRow]
  BY DEF CatalogInv, CatalogTypeOK
<1>3. q.kind = "deleteAsset" /\ Known(q)
  BY <1>1, Informed
<1>4. q.item \in CatalogAssets
  BY <1>3 DEF Known, AssetKinds
<1>5. row \in AssetRow /\ row.is # "live"
  BY <1>2, <1>4, GoneRow DEF NoAsset
<1> HIDE DEF row
<1> QED BY <1>1, <1>4, <1>5, AssetWritten DEF AssetKinds

LEMMA ClearStep ==
  ASSUME CatalogAssumption, CatalogInv, NEW r \in CatalogRequests, Clear(r)
  PROVE  CatalogInv'
<1>1. /\ Stores(r, "clear") /\ UNCHANGED <<folder, appKey, padded>>
      /\ asset' = [a \in CatalogAssets |-> IF a \in LiveAssets THEN [NoAsset EXCEPT !.is = "deleted"] ELSE asset[a]]
  BY DEF Clear, StoresAssets
<1>2. asset' \in [CatalogAssets -> AssetRow]
  BY <1>1, GoneRow DEF CatalogInv, CatalogTypeOK
<1>3. LiveAssets' = {}
  BY <1>1 DEF LiveAssets, NoAsset
<1>4. AssetsDistinct'
  BY <1>3 DEF AssetsDistinct
<1>p. padded' \in BOOLEAN /\ (padded => padded')
  BY <1>1 DEF CatalogInv, CatalogTypeOK
<1>5. StoresWell("clear")
  BY <1>p, <1>1, <1>2, <1>3, <1>4, AssetsStored DEF AssetKinds
<1> QED BY <1>1, <1>5, StoringStep DEF AssetKinds
----------------------------------------------------------------------------
(* Requests on directories. *)

LEMMA MoveFolderStep ==
  ASSUME CatalogAssumption, CatalogInv, NEW r \in CatalogRequests, MoveFolder(r)
  PROVE  CatalogInv'
<1> DEFINE q == asked[r]
<1>1. /\ At(r, "moveFolder") /\ Live(q.to) /\ q.item \in LiveFolders /\ Stores(r, "moveFolder")
      /\ folder' = [folder EXCEPT ![q.item].name = q.name, ![q.item].parent = q.to]
      /\ asset' = asset /\ appKey' = appKey /\ padded' = padded
  BY DEF MoveFolder, StoresFolders
<1>2. folder \in [Folders -> FolderRow]
  BY DEF CatalogInv, CatalogTypeOK
<1>3. /\ q \in CatalogRequest /\ q.kind = "moveFolder"
      /\ raced = {} => Current(q)
      /\ NoMoveRace => MoveApart(q)
  BY <1>1, Informed
<1>4. q.item \in Folders /\ folder[q.item].is = "live" /\ q.to \in Places /\ q.name \in ItemNames
  BY <1>1, <1>3 DEF LiveFolders, CatalogRequest
<1>5. /\ folder' \in [Folders -> FolderRow]
      /\ folder'[q.item].parent = q.to /\ folder'[q.item].name = q.name
      /\ \A f \in Folders : f # q.item => folder'[f] = folder[f]
      /\ \A f \in Folders : folder'[f].is = folder[f].is
  BY <1>1, <1>2, <1>4 DEF FolderRow
<1>6. LiveFolders' = LiveFolders /\ \A p : Live(p)' <=> Live(p)
  BY <1>5 DEF LiveFolders, Live
<1>7. CatalogTypeOK'
  <2>1. asked' \in [CatalogRequests -> CatalogRequest]
    BY <1>1, Stored DEF CatalogInv, FolderKinds
  <2>2. LiveAssets' = LiveAssets
    BY <1>1 DEF LiveAssets
  <2>3. \A f \in LiveFolders : Live(folder'[f].parent)
    BY <1>1, <1>5 DEF CatalogInv, CatalogTypeOK, LiveFolders
  <2> QED BY <1>1, <1>5, <1>6, <2>1, <2>2, <2>3 DEF CatalogInv, CatalogTypeOK
<1>8. NoMoveRace /\ Tree => Tree'
  <2> SUFFICES ASSUME NoMoveRace, Tree PROVE Tree'
    OBVIOUS
  <2>1. Apart(q.item, q.to)
    BY <1>1, <1>3 DEF MoveApart
  <2>2. PICK m : m = q.item
    OBVIOUS
  <2>3. \A f \in LiveFolders \ {m} : folder'[f].parent = folder[f].parent
    BY <1>5, <2>2 DEF LiveFolders
  <2>4. Apart(m, folder'[m].parent) /\ Live(folder'[m].parent) /\ m \in LiveFolders
    BY <1>1, <1>5, <2>1, <2>2
  <2> QED BY <1>6, <2>3, <2>4, MovedTree DEF CatalogInv
<1>9. raced = {} /\ ~padded' => NamesDistinct'
  <2> SUFFICES ASSUME raced = {}, ~padded PROVE FoldersDistinct' /\ AssetsDistinct'
    BY <1>1 DEF NamesDistinct, FoldersDistinct, AssetsDistinct
  <2>1. FoldersDistinct /\ AssetsDistinct /\ q.name \notin FolderNames(q.to, q.item)
    BY <1>3 DEF CatalogInv, NamesDistinct, FoldersDistinct, AssetsDistinct, Current, LooksAtFolder, FolderKinds
  <2>2. AssetsDistinct'
    BY <1>1, <2>1 DEF AssetsDistinct, AssetNames, LiveAssets
  <2>3. ASSUME NEW f \in LiveFolders, NEW g \in LiveFolders, f # g, folder'[f].parent = folder'[g].parent
        PROVE  folder'[f].name # folder'[g].name
    BY <1>5, <2>1, <2>3 DEF FoldersDistinct, FolderNames, LiveFolders
  <2>4. FoldersDistinct'
    BY <1>6, <2>3 DEF FoldersDistinct, FolderNames
  <2> QED BY <2>2, <2>4
<1>10. NoKeyRace /\ KeyGivesUser => KeyGivesUser'
  BY <1>1 DEF NoKeyRace, KeyGivesUser, LiveAssets
<1>11. StoresWell("moveFolder")
  BY <1>1, <1>5, <1>6, <1>7, <1>8, <1>9, <1>10 DEF StoresWell
<1> QED BY <1>1, <1>11, StoringStep DEF FolderKinds

\* A new directory, with what the step does to the assets.
LEMMA FolderAdded ==
  ASSUME CatalogAssumption, CatalogInv, NEW kind \in FolderKinds \cup AssetKinds \cup OtherKinds,
         kind # "moveFolder", NEW r \in CatalogRequests, Stores(r, kind),
         FreeFolders # {}, NEW name \in ItemNames, NEW to \in Places, Live(to),
         folder' = [folder EXCEPT ![NewFolderId] = [is |-> "live", name |-> name, parent |-> to]],
         appKey' = appKey, raced = {} /\ ~padded' => name \notin FolderNames(to, NoItem),
         asset' \in [CatalogAssets -> AssetRow],
         (\A a \in LiveAssets : Live(asset[a].at))', \A a \in LiveAssets' : asset'[a].keyed => appKey # "deleted",
         padded' \in BOOLEAN, padded => padded',
         raced = {} /\ ~padded' => AssetsDistinct',
         NoKeyRace /\ KeyGivesUser => KeyGivesUser'
  PROVE  CatalogInv'
<1>1. PICK n : n = NewFolderId
  OBVIOUS
<1>2. n \in Folders /\ folder[n].is = "free" /\ n \notin LiveFolders
  BY <1>1, NewIds DEF LiveFolders
<1>3. folder \in [Folders -> FolderRow]
  BY DEF CatalogInv, CatalogTypeOK
<1>4. /\ folder' \in [Folders -> FolderRow]
      /\ folder'[n].parent = to /\ folder'[n].name = name /\ folder'[n].is = "live"
      /\ \A f \in Folders : f # n => folder'[f] = folder[f]
  <2>1. [is |-> "live", name |-> name, parent |-> to] \in FolderRow
    BY DEF FolderRow, RowIs
  <2> QED BY <1>1, <1>2, <1>3, <2>1
<1>5. LiveFolders' = LiveFolders \cup {n}
  BY <1>2, <1>4 DEF LiveFolders
<1>6. Grows(n)
  BY <1>2, <1>4, <1>5 DEF Grows, LiveFolders
<1>7. CatalogTypeOK'
  <2>1. asked' \in [CatalogRequests -> CatalogRequest]
    BY Stored DEF CatalogInv
  <2>2. (\A f \in LiveFolders : Live(folder[f].parent))'
    BY <1>4, <1>5 DEF CatalogInv, CatalogTypeOK, Live, LiveFolders
  <2> QED BY <1>4, <2>1, <2>2 DEF CatalogInv, CatalogTypeOK
<1>8. NoMoveRace /\ Tree => Tree'
  BY <1>6, GrownTree DEF CatalogInv
<1>9. ASSUME NEW f \in LiveFolders, NEW p \in Places, Live(p), Apart(f, p)
      PROVE  Apart(f, p)'
  BY <1>6, <1>9, GrownApart DEF CatalogInv
<1>10. raced = {} /\ ~padded' => NamesDistinct'
  <2> SUFFICES ASSUME raced = {}, ~padded' PROVE FoldersDistinct' /\ AssetsDistinct'
    BY DEF NamesDistinct, FoldersDistinct, AssetsDistinct
  <2>1. FoldersDistinct /\ name \notin FolderNames(to, NoItem)
    BY DEF CatalogInv, NamesDistinct, FoldersDistinct
  <2>2. ASSUME NEW f \in LiveFolders', NEW g \in LiveFolders', f # g, folder'[f].parent = folder'[g].parent
        PROVE  folder'[f].name # folder'[g].name
    <3>1. CASE f # n /\ g # n
      BY <1>4, <1>5, <2>1, <2>2, <3>1 DEF FoldersDistinct, FolderNames, LiveFolders
    <3>2. CASE f = n
      BY <1>4, <1>5, <2>1, <2>2, <3>2, CatalogAssumption DEF FolderNames, LiveFolders
    <3>3. CASE g = n
      BY <1>4, <1>5, <2>1, <2>2, <3>3, CatalogAssumption DEF FolderNames, LiveFolders
    <3> QED BY <3>1, <3>2, <3>3
  <2>3. FoldersDistinct'
    BY <2>2 DEF FoldersDistinct, FolderNames
  <2> QED BY <2>3
<1>11. StoresWell(kind)
  BY <1>2, <1>4, <1>5, <1>7, <1>8, <1>9, <1>10 DEF StoresWell, LiveFolders
<1> QED BY <1>11, StoringStep

LEMMA NewFolderStep ==
  ASSUME CatalogAssumption, CatalogInv, NEW r \in CatalogRequests, NewFolder(r)
  PROVE  CatalogInv'
<1> DEFINE q == asked[r]
<1>1. /\ At(r, "newFolder") /\ Live(q.to) /\ FreeFolders # {} /\ Stores(r, "newFolder")
      /\ folder' = [folder EXCEPT ![NewFolderId] = [is |-> "live", name |-> q.name, parent |-> q.to]]
      /\ asset' = asset /\ appKey' = appKey /\ padded' = padded
  BY DEF NewFolder, StoresFolders
<1>2. /\ q \in CatalogRequest /\ q.kind = "newFolder"
      /\ raced = {} => Current(q)
  BY <1>1, Informed
<1>3. q.name \in ItemNames /\ q.to \in Places
  BY <1>2 DEF CatalogRequest
<1>4. raced = {} => q.name \notin FolderNames(q.to, NoItem)
  BY <1>2 DEF Current, LooksAtFolder, FolderKinds
<1>5. /\ asset' \in [CatalogAssets -> AssetRow] /\ padded' \in BOOLEAN
      /\ LiveAssets' = LiveAssets /\ LiveFolders \subseteq LiveFolders'
  <2>1. NewFolderId \in Folders /\ folder[NewFolderId].is = "free"
    BY <1>1, NewIds
  <2> QED BY <1>1, <2>1 DEF CatalogInv, CatalogTypeOK, LiveAssets, LiveFolders
<1>6. (\A a \in LiveAssets : Live(asset[a].at))' /\ \A a \in LiveAssets' : asset'[a].keyed => appKey # "deleted"
  BY <1>1, <1>5 DEF CatalogInv, CatalogTypeOK, Live
<1>7. raced = {} /\ ~padded' => AssetsDistinct'
  BY <1>1, <1>5 DEF CatalogInv, NamesDistinct, AssetsDistinct, AssetNames
<1>8. NoKeyRace /\ KeyGivesUser => KeyGivesUser'
  BY <1>1, <1>5 DEF NoKeyRace, KeyGivesUser
<1> QED BY <1>1, <1>3, <1>4, <1>5, <1>6, <1>7, <1>8, FolderAdded DEF FolderKinds

\* Deletion of a branch: what was found when the request looked, what is there by now.
LEMMA DeleteFolderStep ==
  ASSUME CatalogAssumption, CatalogInv, NEW r \in CatalogRequests, DeleteFolder(r)
  PROVE  CatalogInv'
<1> DEFINE q == asked[r]
           gone == Under(q.item)
           dropped == {a \in LiveAssets : asset[a].at \in q.was}
<1>1. /\ At(r, "deleteFolder") /\ q.item \in LiveFolders
      /\ folder' = [f \in Folders |-> IF f \in gone THEN [NoFolder EXCEPT !.is = "deleted"] ELSE folder[f]]
      /\ asset' = [a \in CatalogAssets |->
                     IF a \in dropped THEN [NoAsset EXCEPT !.is = "deleted"]
                     ELSE IF a \in LiveAssets /\ asset[a].at \in gone THEN [asset[a] EXCEPT !.at = Root]
                     ELSE asset[a]]
      /\ Stores(r, "deleteFolder") /\ appKey' = appKey /\ padded' = padded
  BY DEF DeleteFolder
<1>2. folder \in [Folders -> FolderRow] /\ asset \in [CatalogAssets -> AssetRow]
  BY DEF CatalogInv, CatalogTypeOK
<1>3. q.kind = "deleteFolder" /\ (raced = {} => Current(q))
  BY <1>1, Informed
<1>4. gone \subseteq LiveFolders /\ Closed(gone)
  BY <1>1, UnderClosed DEF CatalogInv, LiveFolders, Under
<1>5. [NoFolder EXCEPT !.is = "deleted"] \in FolderRow /\ [NoFolder EXCEPT !.is = "deleted"].is = "deleted"
  <2>1. NotAsked.name \in ItemNames
    BY CatalogAssumption DEF NotAsked
  <2> QED BY <2>1 DEF NoFolder, FolderRow, RowIs, Places
<1>6. [NoAsset EXCEPT !.is = "deleted"] \in AssetRow /\ [NoAsset EXCEPT !.is = "deleted"].is = "deleted"
  BY GoneRow DEF NoAsset
<1> HIDE DEF gone
<1>7. /\ folder' \in [Folders -> FolderRow]
      /\ \A f \in Folders : f \in gone => folder'[f].is = "deleted"
      /\ \A f \in Folders : f \notin gone => folder'[f] = folder[f]
  BY <1>1, <1>2, <1>5
<1>8. LiveFolders' = LiveFolders \ gone
  BY <1>7 DEF LiveFolders
<1>9. Shrinks
  BY <1>7, <1>8 DEF Shrinks, LiveFolders
<1>10. /\ asset' \in [CatalogAssets -> AssetRow]
       /\ \A a \in LiveAssets' : a \in LiveAssets /\ a \notin dropped
       /\ \A a \in LiveAssets' : \/ asset'[a] = asset[a] /\ asset[a].at \notin gone
                                 \/ /\ asset[a].at \in gone /\ asset'[a].at = Root
                                    /\ asset'[a].keyed = asset[a].keyed /\ asset'[a].redis = asset[a].redis
  <2>1. ASSUME NEW a \in CatalogAssets
        PROVE  /\ asset'[a] \in AssetRow
               /\ asset'[a].is = "live" => a \in LiveAssets /\ a \notin dropped
               /\ asset'[a].is = "live" =>
                    \/ asset'[a] = asset[a] /\ asset[a].at \notin gone
                    \/ /\ asset[a].at \in gone /\ asset'[a].at = Root
                       /\ asset'[a].keyed = asset[a].keyed /\ asset'[a].redis = asset[a].redis
    <3>1. CASE a \in dropped
      BY <1>1, <1>6, <3>1
    <3>2. CASE a \notin dropped /\ a \in LiveAssets /\ asset[a].at \in gone
      <4>1. asset'[a] = [asset[a] EXCEPT !.at = Root]
        BY <1>1, <3>2
      <4> QED BY <1>2, <3>2, <4>1 DEF AssetRow, Places
    <3>3. CASE a \notin dropped /\ ~(a \in LiveAssets /\ asset[a].at \in gone)
      BY <1>1, <1>2, <3>3 DEF LiveAssets
    <3> QED BY <3>1, <3>2, <3>3
  <2>2. asset' \in [CatalogAssets -> AssetRow]
    <3>1. asset' = [a \in CatalogAssets |-> asset'[a]]
      BY <1>1
    <3> QED BY <2>1, <3>1
  <2> QED BY <2>1, <2>2 DEF LiveAssets
<1>11. CatalogTypeOK'
  <2>1. asked' \in [CatalogRequests -> CatalogRequest]
    BY <1>1, Stored DEF CatalogInv, FolderKinds
  <2>2. (\A f \in LiveFolders : Live(folder[f].parent))'
    BY <1>4, <1>7, <1>8 DEF CatalogInv, CatalogTypeOK, Live, LiveFolders, Closed
  <2>3. (\A a \in LiveAssets : Live(asset[a].at))'
    BY <1>8, <1>10 DEF CatalogInv, CatalogTypeOK, Live
  <2>4. \A a \in LiveAssets' : asset'[a].keyed => appKey # "deleted"
    BY <1>10 DEF CatalogInv, CatalogTypeOK
  <2> QED BY <1>1, <1>7, <1>10, <2>1, <2>2, <2>3, <2>4 DEF CatalogInv, CatalogTypeOK
<1>12. NoMoveRace /\ Tree => Tree'
  BY <1>9, ShrunkTree
<1>13. ASSUME NEW f \in LiveFolders', NEW p \in Places, Apart(f, p) PROVE Apart(f, p)'
  BY <1>9, <1>13, ShrunkApart
<1>14. ASSUME raced = {}, ~padded PROVE NamesDistinct'
  <2>1. FoldersDistinct /\ AssetsDistinct
    BY <1>14 DEF CatalogInv, NamesDistinct, FoldersDistinct, AssetsDistinct
  <2>2. q.was = gone
    BY <1>3, <1>14 DEF Current, Seen, gone
  <2>3. \A a \in LiveAssets' : a \in LiveAssets /\ asset'[a] = asset[a]
    BY <1>10, <2>2
  <2>4. AssetsDistinct'
    BY <2>1, <2>3 DEF AssetsDistinct, AssetNames
  <2>5. \A f \in LiveFolders' : f \in LiveFolders /\ folder'[f] = folder[f]
    BY <1>7, <1>8 DEF LiveFolders
  <2>6. FoldersDistinct'
    BY <2>1, <2>5 DEF FoldersDistinct, FolderNames
  <2> QED BY <2>4, <2>6 DEF NamesDistinct, FoldersDistinct, AssetsDistinct
<1>15. NoKeyRace /\ KeyGivesUser => KeyGivesUser'
  BY <1>1, <1>10 DEF NoKeyRace, KeyGivesUser
<1>16. \A f \in Folders : folder[f].is # "free" => folder'[f].is # "free"
  BY <1>7
<1>17. StoresWell("deleteFolder")
  BY <1>1, <1>8, <1>11, <1>12, <1>13, <1>14, <1>15, <1>16 DEF StoresWell
<1> QED BY <1>1, <1>17, StoringStep DEF FolderKinds

\* A branch and its assets again.
LEMMA CopyFolderStep ==
  ASSUME CatalogAssumption, CatalogInv, NEW r \in CatalogRequests, CopyFolder(r)
  PROVE  CatalogInv'
<1> DEFINE q == asked[r]
           from0 == Under(q.item)
           assets0 == {a \in LiveAssets : asset[a].at \in from0}
           m0 == CHOOSE i \in Injection(from0, FreeFolders) : TRUE
           n0 == CHOOSE i \in Injection(assets0, FreeAssets) : TRUE
           Copies(from, assets, m, n, fn, an) ==
             /\ \A f, g \in from : f # g /\ folder[f].parent = folder[g].parent => fn[f] # fn[g]
             /\ \A a, b \in assets : a # b /\ asset[a].at = asset[b].at => an[a] # an[b]
             /\ \A f \in from : fn[f] # folder[f].name
             /\ \A a \in assets : an[a] # asset[a].name
             /\ fn[q.item] \notin FolderNames(q.to, NoItem)
             /\ folder' = [x \in Folders |->
                  IF \E f \in from : m[f] = x
                  THEN LET f == CHOOSE f \in from : m[f] = x IN
                       [is |-> "live", name |-> fn[f],
                        parent |-> IF f = q.item THEN q.to ELSE m[folder[f].parent]]
                  ELSE folder[x]]
             /\ asset' = [x \in CatalogAssets |->
                  IF \E a \in assets : n[a] = x
                  THEN LET a == CHOOSE a \in assets : n[a] = x IN
                       [asset[a] EXCEPT !.name = an[a], !.at = m[asset[a].at]]
                  ELSE asset[x]]
<1>0. /\ At(r, "copyFolder") /\ Live(q.to) /\ q.item \in LiveFolders /\ q.to \notin from0
      /\ Stores(r, "copyFolder") /\ appKey' = appKey /\ padded' = padded
      /\ Injection(from0, FreeFolders) # {} /\ Injection(assets0, FreeAssets) # {}
      /\ \E fn \in [from0 -> ItemNames], an \in [assets0 -> ItemNames] :
           Copies(from0, assets0, m0, n0, fn, an)
  BY DEF CopyFolder
<1>i. m0 \in Injection(from0, FreeFolders) /\ n0 \in Injection(assets0, FreeAssets)
  BY <1>0
<1>1. PICK from, assets, m, n : from = from0 /\ assets = assets0 /\ m = m0 /\ n = n0
  OBVIOUS
<1>2. from = Under(q.item) /\ assets = {a \in LiveAssets : asset[a].at \in from}
  BY <1>1
<1>5. /\ At(r, "copyFolder") /\ Live(q.to) /\ q.item \in LiveFolders /\ q.to \notin from
      /\ Stores(r, "copyFolder") /\ appKey' = appKey /\ padded' = padded
      /\ m \in Injection(from, FreeFolders) /\ n \in Injection(assets, FreeAssets)
      /\ \E fn \in [from -> ItemNames], an \in [assets -> ItemNames] : Copies(from, assets, m, n, fn, an)
  <2> HIDE DEF from0, assets0, m0, n0, Copies
  <2> QED BY <1>0, <1>i, <1>1
<1>6. PICK fn \in [from -> ItemNames], an \in [assets -> ItemNames] : Copies(from, assets, m, n, fn, an)
  BY <1>5
<1>d. /\ \A f, g \in from : f # g /\ folder[f].parent = folder[g].parent => fn[f] # fn[g]
      /\ \A a, b \in assets : a # b /\ asset[a].at = asset[b].at => an[a] # an[b]
      /\ fn[q.item] \notin FolderNames(q.to, NoItem)
  BY <1>6
<1> HIDE DEF from0, assets0, m0, n0
<1>7. folder \in [Folders -> FolderRow] /\ asset \in [CatalogAssets -> AssetRow]
  BY DEF CatalogInv, CatalogTypeOK
<1>8. /\ q \in CatalogRequest /\ q.kind = "copyFolder"
      /\ q.to \in Places
  BY <1>5, Informed DEF CatalogRequest
<1>9. /\ from \subseteq LiveFolders /\ q.item \in from /\ q.item \in Folders
      /\ \A f \in from : m[f] \in Folders /\ folder[m[f]].is = "free"
      /\ \A f, g \in from : m[f] = m[g] => f = g
      /\ \A f \in from \ {q.item} : folder[f].parent \in from
  <2>1. q.item \in Folders /\ q.item \in from /\ from \subseteq LiveFolders
    BY <1>2, <1>5 DEF Under, LiveFolders
  <2>2. \A f \in from \ {q.item} : folder[f].parent \in from
    BY <1>2, <2>1, BranchParent DEF CatalogInv
  <2>3. m \in [from -> FreeFolders] /\ IsInjective(m)
    BY <1>5 DEF Injection
  <2>4. \A f \in from : m[f] \in Folders /\ folder[m[f]].is = "free"
    BY <2>3 DEF FreeFolders
  <2>5. \A f, g \in from : m[f] = m[g] => f = g
    BY <2>3 DEF IsInjective
  <2> QED BY <2>1, <2>2, <2>4, <2>5
<1>10. /\ assets \subseteq LiveAssets /\ \A a \in assets : asset[a].at \in from
       /\ \A a \in assets : n[a] \in CatalogAssets /\ asset[n[a]].is = "free"
       /\ \A a, b \in assets : n[a] = n[b] => a = b
  <2>1. n \in [assets -> FreeAssets] /\ IsInjective(n)
    BY <1>5 DEF Injection
  <2>2. \A a \in assets : n[a] \in CatalogAssets /\ asset[n[a]].is = "free"
    BY <2>1 DEF FreeAssets
  <2>3. \A a, b \in assets : n[a] = n[b] => a = b
    BY <2>1 DEF IsInjective
  <2> QED BY <1>2, <2>2, <2>3
<1>11. ASSUME NEW f \in from
       PROVE  /\ folder'[m[f]].is = "live" /\ folder'[m[f]].name = fn[f]
              /\ folder'[m[f]].parent = IF f = q.item THEN q.to ELSE m[folder[f].parent]
              /\ folder'[m[f]] \in FolderRow
  <2>1. (CHOOSE g \in from : m[g] = m[f]) = f
    BY <1>9
  <2> DEFINE up == IF f = q.item THEN q.to ELSE m[folder[f].parent]
  <2>2. folder'[m[f]] = [is |-> "live", name |-> fn[f], parent |-> up]
    BY <1>6, <1>9, <2>1
  <2>3. up \in Places
    BY <1>8, <1>9 DEF Places
  <2>4. fn[f] \in ItemNames
    BY <1>6
  <2> HIDE DEF up
  <2>5. folder'[m[f]].is = "live" /\ folder'[m[f]].name = fn[f] /\ folder'[m[f]].parent = up
        /\ folder'[m[f]] \in FolderRow
    BY <2>2, <2>3, <2>4 DEF FolderRow, RowIs
  <2> QED BY <2>5 DEF up
<1>12. /\ \A x \in Folders : (\A f \in from : m[f] # x) => folder'[x] = folder[x]
       /\ \A x \in CatalogAssets : (\A a \in assets : n[a] # x) => asset'[x] = asset[x]
  BY <1>6
<1>13. ASSUME NEW a \in assets
       PROVE  asset'[n[a]] = [asset[a] EXCEPT !.name = an[a], !.at = m[asset[a].at]]
  <2>1. (CHOOSE b \in assets : n[b] = n[a]) = a
    BY <1>10
  <2> QED BY <1>6, <1>10, <2>1
<1>e. /\ folder' = [x \in Folders |-> folder'[x]] /\ asset' = [x \in CatalogAssets |-> asset'[x]]
      /\ \A f \in from : fn[f] \in ItemNames
  BY <1>6
<1> HIDE DEF Copies
<1>14. folder' \in [Folders -> FolderRow]
  <2>1. ASSUME NEW x \in Folders PROVE folder'[x] \in FolderRow
    <3>1. CASE \E f \in from : m[f] = x
      BY <1>11, <3>1
    <3>2. CASE \A f \in from : m[f] # x
      BY <1>7, <1>12, <3>2
    <3> QED BY <3>1, <3>2
  <2> QED BY <2>1, <1>e
<1>15. ASSUME NEW a \in assets
       PROVE  /\ asset'[n[a]] \in AssetRow /\ asset'[n[a]].is = "live" /\ asset'[n[a]].at = m[asset[a].at]
              /\ asset'[n[a]].name = an[a]
              /\ asset'[n[a]].keyed = asset[a].keyed /\ asset'[n[a]].redis = asset[a].redis
  <2>1. asset[a] \in AssetRow /\ asset[a].is = "live" /\ m[asset[a].at] \in Places
    BY <1>7, <1>9, <1>10 DEF LiveAssets, Places
  <2> QED BY <1>13, <2>1 DEF AssetRow
<1>16. asset' \in [CatalogAssets -> AssetRow]
  <2>1. ASSUME NEW x \in CatalogAssets PROVE asset'[x] \in AssetRow
    BY <1>7, <1>12, <1>15
  <2> QED BY <2>1, <1>e
<1>17. /\ LiveFolders' = LiveFolders \cup {m[f] : f \in from}
       /\ \A f \in LiveFolders : folder'[f] = folder[f]
  <2>1. \A f \in LiveFolders : folder'[f] = folder[f]
    BY <1>9, <1>12 DEF LiveFolders
  <2>2. \A f \in from : folder'[m[f]].is = "live"
    BY <1>11
  <2>3. ASSUME NEW x \in LiveFolders' PROVE x \in LiveFolders \cup {m[f] : f \in from}
    BY <1>12, <2>3 DEF LiveFolders
  <2>4. ASSUME NEW x \in LiveFolders \cup {m[f] : f \in from} PROVE x \in LiveFolders'
    BY <1>9, <2>1, <2>2, <2>4 DEF LiveFolders
  <2> QED BY <2>1, <2>3, <2>4
<1>18. /\ \A x \in LiveAssets' : x \in LiveAssets \/ \E a \in assets : x = n[a]
       /\ \A a \in LiveAssets : a \in LiveAssets' /\ asset'[a] = asset[a]
  <2>1. \A a \in LiveAssets : asset'[a] = asset[a]
    BY <1>10, <1>12 DEF LiveAssets
  <2> QED BY <1>12, <2>1 DEF LiveAssets
<1>19. Branches(q.item, q.to, m)
  <2>1. \A f \in Under(q.item) : folder'[m[f]].parent = IF f = q.item THEN q.to ELSE m[folder[f].parent]
    BY <1>2, <1>11
  <2> QED BY <1>2, <1>5, <1>17, <2>1 DEF Branches
<1>20. CatalogTypeOK'
  <2>1. asked' \in [CatalogRequests -> CatalogRequest]
    BY <1>5, Stored DEF CatalogInv, FolderKinds
  <2>2. ASSUME NEW x \in LiveFolders' PROVE folder'[x].parent = Root \/ folder'[x].parent \in LiveFolders'
    <3>1. CASE x \in LiveFolders
      BY <1>17, <3>1 DEF CatalogInv, CatalogTypeOK, Live
    <3>2. CASE \E f \in from : x = m[f]
      <4>1. PICK f \in from : x = m[f]
        BY <3>2
      <4>2. folder'[x].parent = IF f = q.item THEN q.to ELSE m[folder[f].parent]
        BY <1>11, <4>1
      <4>3. CASE f = q.item
        BY <1>5, <1>17, <4>2, <4>3 DEF Live
      <4>4. CASE f # q.item
        BY <1>9, <1>17, <4>2, <4>4
      <4> QED BY <4>3, <4>4
    <3> QED BY <1>17, <2>2, <3>1, <3>2
  <2>3. ASSUME NEW x \in LiveAssets'
        PROVE  /\ asset'[x].at = Root \/ asset'[x].at \in LiveFolders'
               /\ asset'[x].keyed => appKey # "deleted"
    <3>1. CASE x \in LiveAssets
      BY <1>17, <1>18, <3>1 DEF CatalogInv, CatalogTypeOK, Live
    <3>2. CASE \E a \in assets : x = n[a]
      <4>1. PICK a \in assets : x = n[a]
        BY <3>2
      <4> QED BY <1>10, <1>15, <1>17, <4>1 DEF CatalogInv, CatalogTypeOK
    <3> QED BY <1>18, <2>3, <3>1, <3>2
  <2> QED BY <1>5, <1>14, <1>16, <2>1, <2>2, <2>3 DEF CatalogInv, CatalogTypeOK, Live
<1>21. NoMoveRace /\ Tree => Tree'
  BY <1>19, CopiedTree DEF CatalogInv
<1>22. ASSUME NEW f \in LiveFolders, NEW p \in Places, Live(p), Apart(f, p) PROVE Apart(f, p)'
  BY <1>19, <1>22, CopiedApart DEF CatalogInv
<1>23. ASSUME raced = {}, ~padded PROVE NamesDistinct'
  <2>1. FoldersDistinct /\ AssetsDistinct
    BY <1>23 DEF CatalogInv, NamesDistinct, FoldersDistinct, AssetsDistinct
  <2>2. Root \notin LiveFolders /\ \A f \in from : m[f] \notin LiveFolders /\ m[f] # Root
    BY <1>9, CatalogAssumption DEF LiveFolders
  <2>3. ASSUME NEW f \in LiveFolders', NEW g \in LiveFolders', f # g, folder'[f].parent = folder'[g].parent
        PROVE  folder'[f].name # folder'[g].name
    <3>1. ASSUME NEW x \in from, NEW y \in from, m[x] # m[y], folder'[m[x]].parent = folder'[m[y]].parent
          PROVE  folder'[m[x]].name # folder'[m[y]].name
      <4>0. /\ folder'[m[x]].parent = IF x = q.item THEN q.to ELSE m[folder[x].parent]
            /\ folder'[m[y]].parent = IF y = q.item THEN q.to ELSE m[folder[y].parent]
            /\ x # y /\ (q.to = Root \/ q.to \in LiveFolders)
        BY <1>5, <1>11, <3>1 DEF Live
      <4>1. CASE x = q.item \/ y = q.item
        <5>1. CASE x = q.item
          BY <1>9, <2>2, <3>1, <4>0, <5>1
        <5>2. CASE y = q.item
          BY <1>9, <2>2, <3>1, <4>0, <5>2
        <5> QED BY <4>1, <5>1, <5>2
      <4>2. CASE x # q.item /\ y # q.item
        <5>1. folder[x].parent = folder[y].parent
          BY <1>9, <3>1, <4>0, <4>2
        <5> QED BY <1>d, <1>11, <3>1, <5>1
      <4> QED BY <4>1, <4>2
    <3>2. ASSUME NEW x \in from, NEW y \in LiveFolders, folder'[m[x]].parent = folder'[y].parent
          PROVE  folder'[m[x]].name # folder'[y].name
      <4>1. Live(folder[y].parent) /\ folder'[y] = folder[y]
        BY <1>17 DEF CatalogInv, CatalogTypeOK
      <4>2. x = q.item
        BY <1>9, <1>11, <2>2, <3>2, <4>1 DEF Live
      <4>3. folder[y].parent = q.to /\ folder'[m[x]].name = fn[q.item]
        BY <1>11, <3>2, <4>1, <4>2
      <4>4. NoItem \notin LiveFolders
        BY CatalogAssumption DEF LiveFolders
      <4> QED BY <1>d, <4>1, <4>3, <4>4 DEF FolderNames
    <3>3. ASSUME f \in LiveFolders, g \in LiveFolders PROVE folder'[f].name # folder'[g].name
      BY <1>17, <2>1, <2>3, <3>3 DEF FoldersDistinct, FolderNames
    <3>4. /\ f \in LiveFolders \/ \E x \in from : f = m[x]
          /\ g \in LiveFolders \/ \E x \in from : g = m[x]
      BY <1>17
    <3> QED BY <2>3, <3>1, <3>2, <3>3, <3>4
  <2>4. ASSUME NEW a \in LiveAssets', NEW b \in LiveAssets', a # b, asset'[a].at = asset'[b].at
        PROVE  asset'[a].name # asset'[b].name
    <3>1. ASSUME NEW x \in assets, NEW y \in assets, n[x] # n[y], asset'[n[x]].at = asset'[n[y]].at
          PROVE  asset'[n[x]].name # asset'[n[y]].name
      <4>1. asset[x].at = asset[y].at
        BY <1>9, <1>10, <1>15, <3>1
      <4> QED BY <1>d, <1>15, <3>1, <4>1
    <3>2. ASSUME NEW x \in assets, NEW y \in LiveAssets PROVE asset'[n[x]].at # asset'[y].at
      <4>1. Live(asset[y].at) /\ asset'[y] = asset[y]
        BY <1>18 DEF CatalogInv, CatalogTypeOK
      <4> QED BY <1>10, <1>15, <2>2, <4>1 DEF Live
    <3>3. ASSUME a \in LiveAssets, b \in LiveAssets PROVE asset'[a].name # asset'[b].name
      BY <1>18, <2>1, <2>4, <3>3 DEF AssetsDistinct, AssetNames
    <3>4. /\ a \in LiveAssets \/ \E x \in assets : a = n[x]
          /\ b \in LiveAssets \/ \E x \in assets : b = n[x]
      BY <1>18
    <3> QED BY <2>4, <3>1, <3>2, <3>3, <3>4
  <2>5. FoldersDistinct' /\ AssetsDistinct'
    BY <2>3, <2>4 DEF FoldersDistinct, AssetsDistinct, FolderNames, AssetNames
  <2> QED BY <2>5 DEF NamesDistinct, FoldersDistinct, AssetsDistinct
<1>24. NoKeyRace /\ KeyGivesUser => KeyGivesUser'
  <2> SUFFICES ASSUME NoKeyRace, KeyGivesUser, NEW x \in LiveAssets', asset'[x].keyed
               PROVE  asset'[x].redis \/ appKey = "named"
    BY <1>5 DEF KeyGivesUser
  <2>1. \A a \in LiveAssets : asset[a].keyed => asset[a].redis \/ appKey = "named"
    BY DEF NoKeyRace, KeyGivesUser
  <2>2. CASE x \in LiveAssets
    BY <1>18, <2>1, <2>2
  <2>3. CASE \E a \in assets : x = n[a]
    BY <1>10, <1>15, <2>1, <2>3
  <2> QED BY <1>18, <2>2, <2>3
<1>25. /\ \A f \in Folders : folder[f].is # "free" => folder'[f].is # "free"
       /\ \A f \in Folders : f \in LiveFolders' => f \in LiveFolders \/ folder[f].is = "free"
  BY <1>9, <1>11, <1>12, <1>17
<1>26. StoresWell("copyFolder")
  BY <1>5, <1>20, <1>21, <1>22, <1>23, <1>24, <1>25 DEF StoresWell
<1> QED BY <1>5, <1>26, StoringStep DEF FolderKinds
----------------------------------------------------------------------------
(* Import of a manifest. *)

LEMMA ImportStep ==
  ASSUME CatalogAssumption, CatalogInv, NEW r \in CatalogRequests, Import(r)
  PROVE  CatalogInv'
<1>1. FreeAssets # {} /\ Stores(r, "import") /\ appKey' = appKey
  BY DEF Import
<1> DEFINE Chosen(to, fname, aname, blanks, bare, rule, fn, an) ==
             LET reuse == {f \in LiveFolders : folder[f].parent = to /\ folder[f].name = fname}
                 merged == rule = "skip" /\ reuse # {}
                 at == IF bare THEN to ELSE IF merged THEN CHOOSE f \in reuse : TRUE ELSE NewFolderId
                 found == Found(AssetNames(at, NoItem), aname, blanks, rule) IN
             /\ IF bare \/ merged \/ reuse = {} THEN fn = fname
                ELSE fn # fname /\ fn \notin FolderNames(to, NoItem)
             /\ IF found /\ rule = "rename" THEN an # aname /\ an \notin AssetNames(at, NoItem)
                ELSE an = aname
             /\ folder' = IF bare \/ merged THEN folder
                          ELSE [folder EXCEPT ![at] = [is |-> "live", name |-> fn, parent |-> to]]
             /\ asset' = IF found /\ rule = "skip" THEN asset
                         ELSE [b \in CatalogAssets |->
                           IF b = NewAssetId THEN [NoAsset EXCEPT !.is = "live", !.name = an, !.at = at]
                           ELSE IF found /\ rule = "overwrite" /\ b = Existing(at, aname)
                           THEN [NoAsset EXCEPT !.is = "deleted"] ELSE asset[b]]
<1>i. PICK to \in LiveFolders \cup {Root}, fname \in ItemNames, aname \in ItemNames, blanks \in BOOLEAN,
           bare \in BOOLEAN, rule \in {"skip", "overwrite", "rename", "fail"} :
         LET reuse == {f \in LiveFolders : folder[f].parent = to /\ folder[f].name = fname}
             merged == rule = "skip" /\ reuse # {}
             at == IF bare THEN to ELSE IF merged THEN CHOOSE f \in reuse : TRUE ELSE NewFolderId
             found == Found(AssetNames(at, NoItem), aname, blanks, rule) IN
         /\ bare => fname = NotAsked.name
         /\ bare \/ merged \/ FreeFolders # {}
         /\ rule = "fail" => (bare \/ reuse = {}) /\ ~found
         /\ \E fn \in ItemNames, an \in ItemNames : Chosen(to, fname, aname, blanks, bare, rule, fn, an)
         /\ padded' = (padded \/ blanks)
  BY DEF Import
<1>2. PICK fn \in ItemNames, an \in ItemNames : Chosen(to, fname, aname, blanks, bare, rule, fn, an)
  BY <1>i
<1> DEFINE reuse == {f \in LiveFolders : folder[f].parent = to /\ folder[f].name = fname}
           merged == rule = "skip" /\ reuse # {}
           at0 == IF bare THEN to ELSE IF merged THEN CHOOSE f \in reuse : TRUE ELSE NewFolderId
           found0 == Found(AssetNames(at0, NoItem), aname, blanks, rule)
<1>3. PICK at, new : at = at0 /\ new = NewAssetId
  OBVIOUS
<1>4. /\ bare \/ merged \/ FreeFolders # {}
      /\ rule = "fail" => (bare \/ reuse = {}) /\ ~found0
      /\ IF bare \/ merged \/ reuse = {} THEN fn = fname
         ELSE fn # fname /\ fn \notin FolderNames(to, NoItem)
      /\ IF found0 /\ rule = "rename" THEN an # aname /\ an \notin AssetNames(at0, NoItem)
         ELSE an = aname
      /\ folder' = IF bare \/ merged THEN folder
                   ELSE [folder EXCEPT ![at0] = [is |-> "live", name |-> fn, parent |-> to]]
      /\ asset' = IF found0 /\ rule = "skip" THEN asset
                  ELSE [b \in CatalogAssets |->
                    IF b = NewAssetId THEN [NoAsset EXCEPT !.is = "live", !.name = an, !.at = at0]
                    ELSE IF found0 /\ rule = "overwrite" /\ b = Existing(at0, aname)
                    THEN [NoAsset EXCEPT !.is = "deleted"] ELSE asset[b]]
      /\ padded' = (padded \/ blanks)
  BY <1>i, <1>2
<1>a. an \in ItemNames /\ fn \in ItemNames
  BY <1>2
<1> HIDE DEF Chosen
<1>5. /\ to \in Places /\ Live(to)
      /\ new \in CatalogAssets /\ asset[new].is = "free"
      /\ padded' \in BOOLEAN /\ (padded => padded')
  <2>1. new \in CatalogAssets /\ asset[new].is = "free"
    BY <1>1, <1>3, NewIds
  <2>2. padded \in BOOLEAN
    BY DEF CatalogInv, CatalogTypeOK
  <2> QED BY <1>4, <2>1, <2>2 DEF Live, Places, LiveFolders
<1>6. /\ bare => at = to
      /\ ~bare /\ merged => at \in LiveFolders
      /\ ~bare /\ ~merged => at = NewFolderId /\ at \in Folders /\ folder[at].is = "free"
  BY <1>3, <1>4, NewIds
<1>7. at \in Places
  BY <1>5, <1>6 DEF Places, LiveFolders
<1> HIDE DEF at0
<1>8. PICK gone : gone = IF found0 /\ rule = "overwrite" THEN Existing(at, aname) ELSE NoItem
  OBVIOUS
<1>9. found0 => /\ aname \in AssetNames(at, NoItem)
                /\ Existing(at, aname) \in LiveAssets
                /\ asset[Existing(at, aname)].at = at /\ asset[Existing(at, aname)].name = aname
  <2> SUFFICES ASSUME found0
               PROVE  /\ aname \in AssetNames(at, NoItem)
                      /\ Existing(at, aname) \in LiveAssets
                      /\ asset[Existing(at, aname)].at = at /\ asset[Existing(at, aname)].name = aname
    OBVIOUS
  <2>1. aname \in AssetNames(at, NoItem)
    BY <1>3 DEF Found
  <2>2. \E b \in LiveAssets : asset[b].at = at /\ asset[b].name = aname
    BY <2>1 DEF AssetNames
  <2> QED BY <2>1, <2>2 DEF Existing
<1>10. gone # new /\ NewAssetId # NoItem
  BY <1>3, <1>5, <1>8, <1>9, CatalogAssumption DEF LiveAssets
<1>11. asset' = asset \/
       asset' = [b \in CatalogAssets |->
                     IF b = NewAssetId THEN [NoAsset EXCEPT !.is = "live", !.name = an, !.at = at]
                     ELSE IF b = gone THEN [NoAsset EXCEPT !.is = "deleted"] ELSE asset[b]]
  <2>1. CASE found0 /\ rule = "skip"
    BY <1>4, <2>1
  <2>2. CASE found0 /\ rule = "overwrite"
    <3>1. gone = Existing(at, aname) /\ rule # "skip"
      BY <1>8, <2>2
    <3> QED BY <1>3, <1>4, <2>2, <3>1
  <2>3. CASE ~(found0 /\ rule = "skip") /\ ~(found0 /\ rule = "overwrite")
    <3>1. gone = NoItem /\ \A b \in CatalogAssets : b # gone
      BY <1>8, <2>3, CatalogAssumption
    <3> QED BY <1>3, <1>4, <2>3, <3>1
  <2> QED BY <2>1, <2>2, <2>3
<1>12. /\ asset' \in [CatalogAssets -> AssetRow]
       /\ \A b \in LiveAssets' : \/ asset' # asset /\ b = new /\ asset'[b].at = at /\ asset'[b].name = an /\ ~asset'[b].keyed
                                 \/ b \in LiveAssets /\ b # new /\ (asset' # asset => b # gone) /\ asset'[b] = asset[b]
  <2>1. CASE asset' = asset
    BY <1>5, <2>1 DEF CatalogInv, CatalogTypeOK, LiveAssets
  <2>2. CASE asset' # asset
    <3>0. asset' = [b \in CatalogAssets |->
                     IF b = NewAssetId THEN [NoAsset EXCEPT !.is = "live", !.name = an, !.at = at]
                     ELSE IF b = gone THEN [NoAsset EXCEPT !.is = "deleted"] ELSE asset[b]]
      BY <1>11, <2>2
    <3>1. /\ asset' \in [CatalogAssets -> AssetRow]
          /\ \A b \in LiveAssets' : \/ b = new /\ asset'[b].at = at /\ asset'[b].name = an /\ ~asset'[b].keyed
                                    \/ b \in LiveAssets /\ b # gone /\ b # new /\ asset'[b] = asset[b]
      <4>1. asset \in [CatalogAssets -> AssetRow] /\ NotAsked.name \in ItemNames
        BY CatalogAssumption DEF CatalogInv, CatalogTypeOK, NotAsked
      <4>2. PICK row : row = [NoAsset EXCEPT !.is = "live", !.name = an, !.at = at]
        OBVIOUS
      <4>3. row \in AssetRow /\ row.at = at /\ row.name = an /\ ~row.keyed
        BY <1>a, <1>7, <4>1, <4>2 DEF NoAsset, AssetRow, RowIs, Places
      <4>4. PICK old : old = [NoAsset EXCEPT !.is = "deleted"]
        OBVIOUS
      <4>5. old \in AssetRow /\ old.is = "deleted"
        BY <4>4, GoneRow DEF NoAsset
      <4>6. asset' = [b \in CatalogAssets |-> IF b = new THEN row ELSE IF b = gone THEN old ELSE asset[b]]
        BY <1>3, <3>0, <4>2, <4>4
      <4>7. asset' \in [CatalogAssets -> AssetRow]
        BY <4>1, <4>3, <4>5, <4>6
      <4>8. ASSUME NEW b \in LiveAssets'
            PROVE  \/ b = new /\ asset'[b].at = at /\ asset'[b].name = an /\ ~asset'[b].keyed
                   \/ b \in LiveAssets /\ b # gone /\ b # new /\ asset'[b] = asset[b]
        <5>1. b \in CatalogAssets /\ asset'[b].is = "live"
          BY <4>8 DEF LiveAssets
        <5> QED BY <4>3, <4>5, <4>6, <5>1 DEF LiveAssets
      <4> QED BY <4>7, <4>8
    <3> QED BY <2>2, <3>1
  <2> QED BY <2>1, <2>2
<1>13. \A b \in LiveAssets' : asset'[b].keyed => appKey # "deleted"
  BY <1>12 DEF CatalogInv, CatalogTypeOK
<1>14. ASSUME NoKeyRace, KeyGivesUser
       PROVE  \A b \in LiveAssets' : asset'[b].keyed => asset'[b].redis \/ appKey = "named"
  BY <1>12, <1>14 DEF NoKeyRace, KeyGivesUser
<1>15. ASSUME raced = {}, ~padded' PROVE AssetsDistinct'
  <2>1. AssetsDistinct /\ ~blanks
    BY <1>4, <1>15 DEF CatalogInv, NamesDistinct, AssetsDistinct
  <2>2. found0 <=> aname \in AssetNames(at, NoItem)
    BY <1>3, <2>1 DEF Found
  <2>3. ASSUME asset' # asset, NEW b \in LiveAssets, b # gone, asset[b].at = at PROVE asset[b].name # an
    <3>1. b # NoItem /\ asset[b].name \in AssetNames(at, NoItem)
      BY <2>3, CatalogAssumption DEF AssetNames, LiveAssets
    <3>2. CASE ~found0
      BY <1>4, <2>2, <3>1, <3>2
    <3>3. CASE found0 /\ rule = "rename"
      BY <1>3, <1>4, <3>1, <3>3
    <3>4. CASE found0 /\ rule = "overwrite"
      <4>1. gone \in LiveAssets /\ asset[gone].at = at /\ asset[gone].name = aname /\ an = aname
        BY <1>4, <1>8, <1>9, <3>4
      <4> QED BY <2>1, <2>3, <4>1 DEF AssetsDistinct, AssetNames
    <3> QED BY <1>4, <2>3, <3>2, <3>3, <3>4
  <2>4. ASSUME NEW b \in LiveAssets', NEW c \in LiveAssets', b # c, asset'[b].at = asset'[c].at
        PROVE  asset'[b].name # asset'[c].name
    <3>1. CASE b = new
      BY <1>12, <2>3, <2>4, <3>1
    <3>2. CASE c = new
      BY <1>12, <2>3, <2>4, <3>2
    <3>3. CASE b # new /\ c # new
      BY <1>12, <2>1, <2>4, <3>3 DEF AssetsDistinct, AssetNames
    <3> QED BY <3>1, <3>2, <3>3
  <2> QED BY <2>4 DEF AssetsDistinct, AssetNames
<1>16. CASE bare \/ merged
  <2>1. folder' = folder /\ Live(at)
    BY <1>4, <1>5, <1>6, <1>16 DEF Live
  <2>2. \A b \in LiveAssets' : Live(asset'[b].at) /\ (asset'[b].keyed => appKey # "deleted")
    BY <1>12, <1>13, <2>1 DEF CatalogInv, CatalogTypeOK
  <2>3. "import" \in FolderKinds \cup AssetKinds \cup OtherKinds /\ "import" # "editKey"
    BY DEF OtherKinds
  <2>4. StoresWell("import")
    BY <1>1, <1>5, <1>12, <1>14, <1>15, <2>1, <2>2, <2>3, AssetsStored
  <2> QED BY <1>1, <1>5, <2>3, <2>4, StoringStep
<1>17. CASE ~bare /\ ~merged
  <2>1. /\ FreeFolders # {}
        /\ folder' = [folder EXCEPT ![NewFolderId] = [is |-> "live", name |-> fn, parent |-> to]]
    BY <1>3, <1>4, <1>6, <1>17
  <2>2. fn \notin FolderNames(to, NoItem)
    <3>1. CASE reuse = {}
      BY <1>4, <3>1 DEF FolderNames
    <3>2. CASE reuse # {}
      BY <1>4, <1>17, <3>2
    <3> QED BY <3>1, <3>2
  <2>3. at \in LiveFolders' /\ LiveFolders \subseteq LiveFolders'
    <3>1. folder \in [Folders -> FolderRow]
      BY DEF CatalogInv, CatalogTypeOK
    <3> QED BY <1>6, <1>17, <2>1, <3>1 DEF LiveFolders
  <2>4. (\A a \in LiveAssets : Live(asset[a].at))'
    BY <1>12, <2>3 DEF CatalogInv, CatalogTypeOK, Live
  <2>5. NoKeyRace /\ KeyGivesUser => KeyGivesUser'
    BY <1>1, <1>14 DEF KeyGivesUser
  <2>6. "import" \in FolderKinds \cup AssetKinds \cup OtherKinds /\ "import" # "moveFolder"
    BY DEF OtherKinds
  <2> HIDE DEF reuse, merged, found0
  <2> QED BY <1>1, <1>a, <1>5, <1>12, <1>13, <1>15, <2>1, <2>2, <2>4, <2>5, <2>6, FolderAdded
<1> QED BY <1>16, <1>17
----------------------------------------------------------------------------
(* The key, and requests that look. *)

LEMMA KeyStep ==
  ASSUME CatalogAssumption, CatalogInv, NEW r \in CatalogRequests, EditKey(r) \/ DeleteKey(r)
  PROVE  CatalogInv'
<1>1. PICK kind \in {"editKey", "deleteKey"} :
        /\ folder' = folder /\ asset' = asset /\ padded' = padded /\ Stores(r, kind)
        /\ kind = "deleteKey" => appKey' = "deleted" /\ \A a \in LiveAssets : ~asset[a].keyed
        /\ kind = "editKey" => /\ appKey' \in {"named", "nameless"}
                               /\ appKey' = "nameless" => \A a \in LiveAssets : asset[a].keyed => asset[a].redis
  BY DEF EditKey, DeleteKey
<1>2. kind \in FolderKinds \cup AssetKinds \cup OtherKinds /\ kind # "moveFolder"
  BY DEF OtherKinds
<1>3. LiveFolders' = LiveFolders /\ (Tree' <=> Tree) /\ (\A p : Live(p)' <=> Live(p)) /\ LiveAssets' = LiveAssets
  BY <1>1, SameFolders DEF Live, LiveAssets
<1>4. \A f, p : Apart(f, p)' <=> Apart(f, p)
  BY <1>1, SameApart
<1>5. CatalogTypeOK'
  <2>1. asked' \in [CatalogRequests -> CatalogRequest]
    BY <1>1, <1>2, Stored DEF CatalogInv
  <2> QED BY <1>1, <1>3, <2>1 DEF CatalogInv, CatalogTypeOK
<1>6. raced = {} /\ ~padded' => NamesDistinct'
  <2> SUFFICES ASSUME raced = {}, ~padded PROVE FoldersDistinct' /\ AssetsDistinct'
    BY <1>1 DEF NamesDistinct, FoldersDistinct, AssetsDistinct
  <2>1. FoldersDistinct /\ AssetsDistinct
    BY DEF CatalogInv, NamesDistinct, FoldersDistinct, AssetsDistinct
  <2> QED BY <1>1, <1>3, <2>1 DEF FoldersDistinct, AssetsDistinct, FolderNames, AssetNames
<1>7. NoKeyRace /\ KeyGivesUser => KeyGivesUser'
  BY <1>1, <1>3 DEF NoKeyRace, KeyGivesUser
<1>8. StoresWell(kind)
  BY <1>1, <1>2, <1>3, <1>4, <1>5, <1>6, <1>7 DEF StoresWell
<1> QED BY <1>1, <1>2, <1>8, StoringStep

\* A request looks, or ends without storing.
LEMMA OwnStep ==
  ASSUME CatalogAssumption, CatalogInv, NEW r \in CatalogRequests, NEW q \in CatalogRequest,
         asked' = [asked EXCEPT ![r] = q], UNCHANGED <<folder, asset, appKey, raced, padded>>,
         q.pc = "store" => /\ Known(q) /\ (NoMoveRace => MoveApart(q)) /\ (raced = {} => Current(q))
                            /\ (NoKeyRace => KeyNamed(q))
  PROVE  CatalogInv'
<1>1. asked \in [CatalogRequests -> CatalogRequest]
  BY DEF CatalogInv, CatalogTypeOK
<1>2. /\ asked' \in [CatalogRequests -> CatalogRequest] /\ asked'[r] = q
      /\ \A p \in CatalogRequests \ {r} : asked'[p] = asked[p]
  BY <1>1
<1>3. folder' = folder /\ asset' = asset /\ appKey' = appKey /\ raced' = raced /\ padded' = padded
  OBVIOUS
<1>4. LiveFolders' = LiveFolders /\ LiveAssets' = LiveAssets /\ (Tree' <=> Tree) /\ \A p : Live(p)' <=> Live(p)
  BY <1>3, SameFolders DEF Live, LiveAssets
<1>5. CatalogTypeOK'
  BY <1>2, <1>3, <1>4 DEF CatalogInv, CatalogTypeOK
<1>6. NamesDistinct' /\ KeyGivesUser' /\ (NoMoveRace' <=> NoMoveRace) /\ (NoKeyRace' <=> NoKeyRace)
  BY <1>3, <1>4 DEF CatalogInv, NamesDistinct, KeyGivesUser, FolderNames, AssetNames, NoMoveRace, NoKeyRace
<1>7. ASSUME NEW p \in CatalogRequests, Pending(p)'
      PROVE  /\ Known(asked[p])'
             /\ NoMoveRace => MoveApart(asked[p])'
             /\ raced = {} => Current(asked[p])'
             /\ NoKeyRace => KeyNamed(asked[p])'
  <2>1. PICK a : a = asked'[p]
    OBVIOUS
  <2>2. /\ Known(a)
        /\ NoMoveRace => MoveApart(a)
        /\ raced = {} => Current(a)
        /\ NoKeyRace => KeyNamed(a)
    <3>1. CASE p = r
      BY <1>2, <1>7, <2>1, <3>1 DEF Pending
    <3>2. CASE p # r
      BY <1>2, <1>7, <2>1, <3>2 DEF Pending, CatalogInv
    <3> QED BY <3>1, <3>2
  <2>3. (Apart(a.item, a.to)' <=> Apart(a.item, a.to)) /\ Under(a.item)' = Under(a.item)
    BY <1>3, SameApart
  <2>4. Known(a)' /\ (KeyNamed(a) => KeyNamed(a)')
    BY <1>3, <2>2 DEF Known, KeyNamed
  <2>5. MoveApart(a) => MoveApart(a)'
    BY <1>4, <2>3 DEF MoveApart
  <2>6. Current(a) => Current(a)'
    <3>1. \A p1, b : FolderNames(p1, b)' = FolderNames(p1, b) /\ AssetNames(p1, b)' = AssetNames(p1, b)
      BY <1>3, <1>4 DEF FolderNames, AssetNames
    <3>2. Seen(a)' = Seen(a)
      BY <1>3, <1>4, <2>3 DEF Seen
    <3>3. LooksAtFolder(a)' <=> LooksAtFolder(a)
      BY <1>3, <1>4, <2>3, <3>1 DEF LooksAtFolder, OnCycle
    <3>4. LooksAtAsset(a)' <=> LooksAtAsset(a)
      BY <1>3, <1>4, <3>1 DEF LooksAtAsset, KeyValid
    <3> QED BY <3>2, <3>3, <3>4 DEF Current
  <2>7. Known(asked[p])'
    BY <2>1, <2>4 DEF Known
  <2>8. NoMoveRace => MoveApart(asked[p])'
    BY <2>1, <2>2, <2>5 DEF MoveApart, Apart, Live
  <2>9. raced = {} => Current(asked[p])'
    <3>1. raced = {} => Current(a)'
      BY <2>2, <2>6
    <3> QED BY <2>1, <3>1 DEF Current, LooksAtFolder, LooksAtAsset, Seen, OnCycle, Under, FolderNames, AssetNames, KeyValid, Live
  <2>10. NoKeyRace => KeyNamed(asked[p])'
    BY <2>1, <2>2, <2>4 DEF KeyNamed
  <2> QED BY <2>7, <2>8, <2>9, <2>10
<1>8. NoMoveRace => Tree
  BY DEF CatalogInv
<1> QED BY <1>3, <1>4, <1>5, <1>6, <1>7, <1>8 DEF CatalogInv

LEMMA LookStep ==
  ASSUME CatalogAssumption, CatalogInv, NEW r \in CatalogRequests, Look(r)
  PROVE  CatalogInv'
<1>1. PICK kind \in FolderKinds, item \in LiveFolders \cup {NoItem}, to \in LiveFolders \cup {Root}, n \in ItemNames :
         LET q == Asked(kind, item, to, n, FALSE) IN
         /\ (kind = "newFolder") = (item = NoItem)
         /\ kind = "deleteFolder" => to = Root
         /\ LooksAtFolder(q)
         /\ Became(r, Ready([q EXCEPT !.was = Seen(q)]))
  BY DEF Look
<1>2. UNCHANGED <<folder, asset, appKey, raced, padded>>
  BY DEF Look
<1> DEFINE q == Asked(kind, item, to, n, FALSE)
<1>3. PICK was : was = Seen(q)
  OBVIOUS
<1>4. PICK a : a = Ready([q EXCEPT !.was = was])
  OBVIOUS
<1>5. asked' = [asked EXCEPT ![r] = a]
  BY <1>1, <1>3, <1>4 DEF Became
<1>n. PICK no \in BOOLEAN : no = FALSE
  OBVIOUS
<1>t. q = [pc |-> "new", kind |-> kind, item |-> item, to |-> to, name |-> n, keyed |-> no, was |-> {}]
  BY <1>n DEF Asked
<1>6. /\ a.pc = "store" /\ a.kind = kind /\ a.item = item /\ a.to = to /\ a.name = n /\ a.was = was
      /\ q.kind = kind /\ q.item = item /\ q.to = to /\ q.name = n
  <2> HIDE DEF q
  <2> QED BY <1>t, <1>4 DEF Ready
<1>7. was \subseteq Folders /\ Seen(a) = was
  <2>1. kind # "deleteFolder" => Seen(q) = {}
    BY <1>1, <1>6 DEF Seen, FolderKinds
  <2>2. kind = "deleteFolder" => Seen(q) = Under(item) /\ item \in LiveFolders
    BY <1>1, <1>6 DEF Seen, LooksAtFolder
  <2>3. Seen(a) = Seen(q)
    BY <1>1, <1>6 DEF Seen, FolderKinds
  <2> QED BY <1>3, <2>1, <2>2, <2>3, UnderClosed DEF CatalogInv, LiveFolders
<1>8. a \in CatalogRequest
  <2>1. q \in CatalogRequest /\ was \in SUBSET (Folders \cup CatalogAssets \cup AssetRow)
    <3>1. item \in Folders \cup {NoItem} /\ to \in Places /\ kind \in FolderKinds
      BY <1>1 DEF LiveFolders, Places
    <3> HIDE DEF q
    <3> QED BY <1>n, <1>t, <1>7, <3>1 DEF CatalogRequest
  <2> HIDE DEF q
  <2> QED BY <1>4, <2>1 DEF Ready, CatalogRequest
<1>9. LooksAtFolder(a)
  BY <1>1, <1>6 DEF LooksAtFolder
<1>10. Known(a)
  BY <1>1, <1>6, <1>9 DEF Known, LooksAtFolder, FolderKinds, AssetKinds, LiveFolders
<1>11. MoveApart(a)
  BY <1>1, <1>6, <1>9, ApartIsNotUnder DEF MoveApart, LooksAtFolder, CatalogInv, LiveFolders
<1>12. Current(a)
  BY <1>1, <1>6, <1>7, <1>9 DEF Current, FolderKinds, AssetKinds
<1>13. KeyNamed(a)
  BY <1>1, <1>6 DEF KeyNamed, FolderKinds
<1> QED BY <1>2, <1>5, <1>8, <1>10, <1>11, <1>12, <1>13, OwnStep

LEMMA LookAtAssetStep ==
  ASSUME CatalogAssumption, CatalogInv, NEW r \in CatalogRequests, LookAtAsset(r)
  PROVE  CatalogInv'
<1>1. PICK kind \in AssetKinds, item \in LiveAssets \cup {NoItem}, to \in LiveFolders \cup {Root},
           n \in ItemNames, keyed \in BOOLEAN :
         LET q == Asked(kind, item, to, n, keyed) IN
         /\ (kind \in {"newAsset", "clear"}) = (item = NoItem)
         /\ LooksAtAsset(q)
         /\ Became(r, Ready([q EXCEPT !.was = Seen(q)]))
  BY DEF LookAtAsset
<1>2. UNCHANGED <<folder, asset, appKey, raced, padded>>
  BY DEF LookAtAsset
<1> DEFINE q == Asked(kind, item, to, n, keyed)
<1>3. PICK was : was = Seen(q)
  OBVIOUS
<1>4. PICK a : a = Ready([q EXCEPT !.was = was])
  OBVIOUS
<1>5. asked' = [asked EXCEPT ![r] = a]
  BY <1>1, <1>3, <1>4 DEF Became
<1>t. q = [pc |-> "new", kind |-> kind, item |-> item, to |-> to, name |-> n, keyed |-> keyed, was |-> {}]
  BY DEF Asked
<1>6. /\ a.pc = "store" /\ a.kind = kind /\ a.item = item /\ a.to = to /\ a.name = n /\ a.was = was /\ a.keyed = keyed
      /\ q.kind = kind /\ q.item = item /\ q.to = to /\ q.name = n /\ q.keyed = keyed
  BY <1>t, <1>4 DEF Ready
<1>7. LooksAtAsset(a)
  <2>1. LooksAtAsset(q)
    BY <1>1
  <2> HIDE DEF q
  <2> QED BY <1>6, <2>1 DEF LooksAtAsset, KeyValid
<1>8. kind \notin {"newAsset", "clear"} => item \in LiveAssets /\ asset[item] \in AssetRow /\ asset[item].is = "live"
  BY <1>1, <1>6 DEF LooksAtAsset, LiveAssets, CatalogInv, CatalogTypeOK
<1>9. /\ Seen(a) = was /\ was \subseteq CatalogAssets \cup AssetRow
      /\ kind \in {"editAsset", "copyAsset"} => was = {asset[item]}
  <2>1. kind = "clear" => Seen(q) = LiveAssets
    BY <1>6 DEF Seen
  <2>2. kind \in {"editAsset", "copyAsset"} => Seen(q) = {asset[item]}
    BY <1>6 DEF Seen
  <2>3. kind \notin {"editAsset", "copyAsset", "clear"} => Seen(q) = {}
    BY <1>1, <1>6 DEF Seen, AssetKinds
  <2>4. Seen(a) = Seen(q)
    BY <1>6 DEF Seen
  <2> QED BY <1>3, <1>8, <2>1, <2>2, <2>3, <2>4 DEF LiveAssets
<1>10. a \in CatalogRequest
  <2>1. q \in CatalogRequest /\ was \in SUBSET (Folders \cup CatalogAssets \cup AssetRow)
    BY <1>1, <1>t, <1>9 DEF CatalogRequest, LiveFolders, LiveAssets, Places
  <2> HIDE DEF q
  <2> QED BY <1>4, <2>1 DEF Ready, CatalogRequest
<1>11. Known(a)
  BY <1>1, <1>6, <1>8, <1>9 DEF Known, FolderKinds, AssetKinds, LiveAssets
<1>12. MoveApart(a)
  BY <1>1, <1>6 DEF MoveApart, AssetKinds
<1>13. Current(a)
  BY <1>1, <1>6, <1>7, <1>9 DEF Current, FolderKinds, AssetKinds
<1>14. NoKeyRace => KeyNamed(a)
  <2>1. NoKeyRace => \A b \in LiveAssets : asset[b].keyed => asset[b].redis \/ appKey = "named"
    BY DEF CatalogInv, KeyGivesUser, NoKeyRace
  <2> QED BY <1>6, <1>7, <1>8, <1>9, <2>1 DEF KeyNamed, LooksAtAsset, KeyValid
<1> QED BY <1>2, <1>5, <1>10, <1>11, <1>12, <1>13, <1>14, OwnStep

LEMMA AskFailsStep ==
  ASSUME CatalogAssumption, CatalogInv, NEW r \in CatalogRequests, AskFails(r)
  PROVE  CatalogInv'
<1>1. asked' = [asked EXCEPT ![r] = Over] /\ UNCHANGED <<folder, asset, appKey, raced, padded>>
  BY DEF AskFails
<1>2. Over \in CatalogRequest /\ Over.pc = "done"
  <2>1. NotAsked.name \in ItemNames
    BY CatalogAssumption DEF NotAsked
  <2> QED BY <2>1 DEF NotAsked, Over, CatalogRequest, OtherKinds, Places
<1> QED BY <1>1, <1>2, OwnStep
----------------------------------------------------------------------------
LEMMA CatalogInvInit == CatalogAssumption /\ CatalogInit => CatalogInv
<1> SUFFICES ASSUME CatalogAssumption, CatalogInit PROVE CatalogInv
  OBVIOUS
<1>1. NotAsked.name \in ItemNames
  BY CatalogAssumption DEF NotAsked
<1>2. NoFolder \in FolderRow /\ NoAsset \in AssetRow
  BY <1>1 DEF NoFolder, NoAsset, FolderRow, AssetRow, RowIs, Places
<1>3. folder \in [Folders -> FolderRow]
  <2>1. {NoFolder} \cup [is : {"live"}, name : ItemNames, parent : Places] \subseteq FolderRow
    BY <1>2 DEF FolderRow, RowIs
  <2> QED BY <2>1 DEF CatalogInit
<1>4. asset \in [CatalogAssets -> AssetRow]
  <2>1. {NoAsset} \cup [is : {"live"}, name : ItemNames, at : Places, keyed : BOOLEAN, redis : BOOLEAN] \subseteq AssetRow
    BY <1>2 DEF AssetRow, RowIs
  <2> QED BY <2>1 DEF CatalogInit
<1>5. NotAsked \in CatalogRequest /\ NotAsked.pc = "new"
  BY <1>1 DEF NotAsked, CatalogRequest, OtherKinds, Places
<1>6. \A r \in CatalogRequests : asked[r] = NotAsked /\ ~Pending(r)
  BY <1>5 DEF CatalogInit, Pending
<1>7. CatalogTypeOK
  BY <1>3, <1>4, <1>5 DEF CatalogInit, Sound, CatalogTypeOK
<1>8. Tree
  BY <1>7, TreeIsAcyclic DEF CatalogInit, Sound
<1>9. NamesDistinct /\ KeyGivesUser
  BY DEF CatalogInit, Sound, NamesDistinct, KeyGivesUser
<1> QED BY <1>6, <1>7, <1>8, <1>9 DEF CatalogInv

LEMMA CatalogInvStep == CatalogAssumption /\ CatalogInv /\ [CatalogNext]_catalogVars => CatalogInv'
<1> SUFFICES ASSUME CatalogAssumption, CatalogInv, [CatalogNext]_catalogVars PROVE CatalogInv'
  OBVIOUS
<1>1. CASE CatalogNext
  <2>1. PICK r \in CatalogRequests :
          \/ Look(r) \/ LookAtAsset(r) \/ AskFails(r)
          \/ NewFolder(r) \/ MoveFolder(r) \/ DeleteFolder(r) \/ CopyFolder(r)
          \/ NewAsset(r) \/ EditAsset(r) \/ MoveAsset(r) \/ CopyAsset(r) \/ DeleteAsset(r) \/ Clear(r)
          \/ Import(r) \/ EditKey(r) \/ DeleteKey(r)
    BY <1>1 DEF CatalogNext
  <2>2. CASE Look(r) \/ LookAtAsset(r) \/ AskFails(r)
    BY <2>2, LookStep, LookAtAssetStep, AskFailsStep
  <2>3. CASE NewFolder(r) \/ MoveFolder(r) \/ DeleteFolder(r) \/ CopyFolder(r)
    BY <2>3, NewFolderStep, MoveFolderStep, DeleteFolderStep, CopyFolderStep
  <2>4. CASE NewAsset(r) \/ EditAsset(r) \/ MoveAsset(r) \/ CopyAsset(r) \/ DeleteAsset(r) \/ Clear(r)
    BY <2>4, NewAssetStep, EditAssetStep, MoveAssetStep, CopyAssetStep, DeleteAssetStep, ClearStep
  <2>5. CASE Import(r) \/ EditKey(r) \/ DeleteKey(r)
    BY <2>5, ImportStep, KeyStep
  <2> QED BY <2>1, <2>2, <2>3, <2>4, <2>5
<1>2. CASE UNCHANGED catalogVars
  <2>1. UNCHANGED <<folder, asset, appKey, asked, raced, padded>>
    BY <1>2 DEF catalogVars
  <2>2. CASE CatalogRequests = {}
    <3>1. LiveFolders' = LiveFolders /\ LiveAssets' = LiveAssets /\ (Tree' <=> Tree) /\ \A p : Live(p)' <=> Live(p)
      BY <2>1, SameFolders DEF Live, LiveAssets
    <3>2. CatalogTypeOK'
      BY <2>1, <3>1 DEF CatalogInv, CatalogTypeOK
    <3>3. NamesDistinct' /\ KeyGivesUser'
      BY <2>1, <3>1 DEF CatalogInv, NamesDistinct, KeyGivesUser, FolderNames, AssetNames
    <3> QED BY <2>1, <2>2, <3>1, <3>2, <3>3 DEF CatalogInv, NoMoveRace
  <2>3. CASE CatalogRequests # {}
    <3>1. PICK r \in CatalogRequests : TRUE
      BY <2>3
    <3>2. PICK a : a = asked[r]
      OBVIOUS
    <3>3. asked \in [CatalogRequests -> CatalogRequest]
      BY DEF CatalogInv, CatalogTypeOK
    <3>4. asked' = [asked EXCEPT ![r] = a] /\ a \in CatalogRequest
      BY <2>1, <3>2, <3>3
    <3>5. a.pc = "store" => /\ Known(a) /\ (NoMoveRace => MoveApart(a)) /\ (raced = {} => Current(a))
                            /\ (NoKeyRace => KeyNamed(a))
      BY <3>2 DEF CatalogInv, Pending
    <3> QED BY <2>1, <3>4, <3>5, OwnStep
  <2> QED BY <2>2, <2>3
<1> QED BY <1>1, <1>2

\* Every variable of the catalogue keeps its type, and its foreign keys hold: no directory
\* or connection stays in a directory that is gone.
THEOREM CatalogTypeCorrect == CatalogSpec => []CatalogTypeOK
<1>1. CatalogInv => CatalogTypeOK
  BY DEF CatalogInv
<1> QED BY <1>1, CatalogAssumption, CatalogInvInit, CatalogInvStep, PTL DEF CatalogSpec

\* However requests overlap, the directories stay a tree unless two moves did, names stay
\* distinct unless a request stored what another had looked at, and keys give users.
THEOREM CatalogSound == CatalogSpec => []CatalogHolds
<1>1. CatalogInv => CatalogHolds
  BY TreeIsAcyclic DEF CatalogInv, CatalogHolds, TreeHolds, NoMoveRace
<1> QED BY <1>1, CatalogAssumption, CatalogInvInit, CatalogInvStep, PTL DEF CatalogSpec
----------------------------------------------------------------------------
(* Redis: RedisKeys. *)

\* What a request is about, at each of its steps.
Steady(c) ==
    /\ c.pc = "idle" => c.kind = "set"
    /\ c.pc \in {"type", "log"} => c.kind \in {"set", "back"}
    /\ c.pc \in {"delete", "fill"} => c.kind \in {"set", "back", "import"}
    /\ c.pc = "expire" => c.kind = "import"
    /\ c.pc \in {"size", "read"} => c.kind = "export"
    /\ c.kind \in {"set", "back"} \/ c.pc \in {"fill", "expire", "read"} => c.at \in Keys
    /\ c.pc = "fill" => c.value # {}
    /\ c.kind = "back" => c.before[c.at].type = "list" /\ c.value = Shown(c.before[c.at])
    /\ c.pc = "fill" /\ c.kind = "import" => dumped[c.at].type = "list" /\ c.value = dumped[c.at].members
    /\ c.pc = "expire" => dumped[c.at].type \in {"string", "list"}

\* What an import leaves of an exported key.
Restored(c, k) == IF dumped[k] = Gone THEN c.before[k]
                  ELSE IF dumped[k].ttl = "now" THEN [dumped[k] EXCEPT !.ttl = "never"] ELSE dumped[k]

\* The key holds what was sent, ...
Written ==
    LET k == caller.at IN
    /\ \A j \in Keys \ {k} : key[j] = caller.before[j]
    /\ key[k] = Sent
    /\ caller.kind = "back" /\ Cardinality(caller.before[k].members) <= ShownMembers =>
         Content(key[k]) = Content(caller.before[k])

\* What the server and the file hold while nobody else writes: of a replacement, ...
Replacing(c) ==
    /\ c.pc \in {"type", "delete"} => key = c.before
    /\ c.pc \in {"delete", "fill"} => c.before[c.at].type = "list"
    /\ c.pc = "fill" => key = [c.before EXCEPT ![c.at] = Gone]
    /\ c.pc = "log" => Written

\* ... of an export, ...
Exporting(c) ==
    /\ key = c.before
    /\ c.pc \in {"size", "read"} => \A k \in Keys : dumped[k] = IF k < c.at THEN KeyRow(c.before[k]) ELSE Gone
    /\ c.pc = "read" /\ c.before[c.at].type = "list" => Cardinality(c.before[c.at].members) <= ShownMembers

\* ... and of an import.
Importing(c) == c.pc \in {"delete", "fill", "expire"} =>
    /\ \A k \in Keys : k < c.at => key[k] = Restored(c, k)
    /\ \A k \in Keys : k > c.at => key[k] = c.before[k]
    /\ c.pc = "delete" /\ c.at \in Keys => key[c.at] = c.before[c.at]
    /\ c.pc = "fill" => key[c.at] = Gone
    /\ c.pc = "expire" => key[c.at] = [dumped[c.at] EXCEPT !.ttl = "never"]

Progress(c) ==
    /\ c.kind \in {"set", "back"} => Replacing(c)
    /\ c.kind = "export" => Exporting(c)
    /\ c.kind = "import" => Importing(c)

RedisInv ==
    /\ RedisTypeOK
    /\ Steady(caller)
    /\ ~others => Progress(caller)
    /\ RedisHonest
----------------------------------------------------------------------------
(* Values and what is shown of them. *)

LEMMA MembersFinite ==
  ASSUME RedisAssumption, NEW S \in SUBSET Members
  PROVE  IsFiniteSet(S) /\ Cardinality(S) \in Nat /\ S \subseteq Nat
<1>1. IsFiniteSet(Members)
  BY FS_Interval DEF RedisAssumption, Members
<1>2. IsFiniteSet(S)
  BY <1>1, FS_Subset
<1> QED BY <1>2, FS_CardinalityType DEF RedisAssumption, Members

\* A set of members has a lowest one.
LEMMA LowestMember ==
  ASSUME RedisAssumption, NEW S \in SUBSET Members, S # {}
  PROVE  \E m \in S : \A l \in S : m <= l
<1>1. PICK m \in S : \A l \in S : ~ (<<l, m>> \in OpToRel(<, Nat))
  BY NatLessThanWellFounded, WFMin, MembersFinite
<1>2. ASSUME NEW l \in S PROVE m <= l
  <2>1. m \in Nat /\ l \in Nat
    BY MembersFinite
  <2>2. ASSUME l < m PROVE <<l, m>> \in OpToRel(<, Nat)
    BY <2>1, <2>2 DEF OpToRel
  <2>3. ~ (l < m)
    BY <1>1, <2>2
  <2> QED BY <2>1, <2>3
<1> QED BY <1>2

\* The lowest one is shown, ...
LEMMA LeastSome ==
  ASSUME RedisAssumption, NEW S \in SUBSET Members, S # {}, NEW n \in Nat \ {0}
  PROVE  Least(S, n) # {} /\ Least(S, n) \in SUBSET Members
<1>1. PICK m \in S : \A l \in S : m <= l
  BY LowestMember
<1>2. {l \in S : l < m} = {}
  BY <1>1, MembersFinite
<1>3. Cardinality({l \in S : l < m}) < n
  BY <1>2, FS_EmptySet
<1> QED BY <1>3 DEF Least

\* ... it alone, when only one is, ...
LEMMA LeastOne ==
  ASSUME RedisAssumption, NEW S \in SUBSET Members, S # {}
  PROVE  \E m \in Members : Least(S, 1) = {m}
<1>1. PICK m \in S : \A l \in S : m <= l
  BY LowestMember
<1>2. Cardinality({l \in S : l < m}) < 1
  <2>1. {l \in S : l < m} = {}
    BY <1>1, MembersFinite
  <2> QED BY <2>1, FS_EmptySet
<1>3. ASSUME NEW k \in S, Cardinality({l \in S : l < k}) < 1 PROVE k = m
  <2> DEFINE B == {l \in S : l < k}
  <2>1. IsFiniteSet(B) /\ Cardinality(B) \in Nat
    BY MembersFinite
  <2>2. B = {}
    BY <1>3, <2>1, FS_EmptySet
  <2>3. ~ (m < k) /\ m <= k /\ m \in Nat /\ k \in Nat
    BY <1>1, <2>2, MembersFinite
  <2> QED BY <2>3
<1> QED BY <1>2, <1>3 DEF Least

\* ... and all of a set that is not longer than what is shown.
LEMMA LeastAll ==
  ASSUME RedisAssumption, NEW S \in SUBSET Members, NEW n \in Nat, Cardinality(S) <= n
  PROVE  Least(S, n) = S
<1>1. ASSUME NEW m \in S PROVE Cardinality({l \in S : l < m}) < n
  <2> DEFINE B == {l \in S : l < m}
  <2>1. IsFiniteSet(S) /\ Cardinality(S) \in Nat /\ m \in Nat
    BY MembersFinite
  <2>2. IsFiniteSet(S \ {m}) /\ Cardinality(S \ {m}) = Cardinality(S) - 1
    BY <2>1, FS_RemoveElement
  <2>3. B \in SUBSET (S \ {m})
    BY <2>1
  <2>4. Cardinality(B) <= Cardinality(S \ {m}) /\ Cardinality(B) \in Nat
    BY <2>2, <2>3, FS_Subset, FS_CardinalityType
  <2> QED BY <2>1, <2>2, <2>4
<1> QED BY <1>1 DEF Least

LEMMA LeastOfOne ==
  ASSUME RedisAssumption, NEW m \in Members, NEW n \in Nat \ {0}
  PROVE  Least({m}, n) = {m}
BY LeastAll, FS_Singleton

\* A value is its three fields, and its type says what members it has.
LEMMA ValueShape ==
  ASSUME NEW v \in RedisValue \cup {Gone}
  PROVE  /\ v = [type |-> v.type, members |-> v.members, ttl |-> v.ttl]
         /\ v.type \in {"string", "list", "stream", "none"} /\ v.ttl \in Expiry
         /\ v.type = "none" <=> v = Gone
         /\ v.type = "none" => v.members = {} /\ v.ttl = "never"
         /\ v.type = "string" => \E m \in Members : v.members = {m}
         /\ v.type = "list" => v.members \in (SUBSET Members) \ {{}}
         /\ v.type = "stream" => v.members = {1}
<1>1. CASE v = Gone
  BY <1>1 DEF Gone, Expiry
<1>2. CASE v \in [type : {"string"}, members : {{m} : m \in Members}, ttl : Expiry]
  BY <1>2 DEF Gone
<1>3. CASE v \in [type : {"list"}, members : (SUBSET Members) \ {{}}, ttl : Expiry]
  BY <1>3 DEF Gone
<1>4. CASE v \in [type : {"stream"}, members : {{1}}, ttl : Expiry]
  BY <1>4 DEF Gone
<1> QED BY <1>1, <1>2, <1>3, <1>4 DEF RedisValue

LEMMA SameValue ==
  ASSUME NEW v \in RedisValue \cup {Gone}, NEW w \in RedisValue \cup {Gone},
         v.type = w.type, v.members = w.members, v.ttl = w.ttl
  PROVE  v = w
BY ValueShape

\* The values that requests build.
LEMMA ListValue ==
  ASSUME NEW ms \in SUBSET Members, ms # {}, NEW t \in Expiry
  PROVE  [type |-> "list", members |-> ms, ttl |-> t] \in RedisValue
BY DEF RedisValue

LEMMA StringValue ==
  ASSUME NEW m \in Members, NEW t \in Expiry
  PROVE  [type |-> "string", members |-> {m}, ttl |-> t] \in RedisValue
BY DEF RedisValue

LEMMA WithTtl ==
  ASSUME NEW v \in RedisValue, NEW t \in Expiry
  PROVE  /\ [v EXCEPT !.ttl = t] \in RedisValue
         /\ [v EXCEPT !.ttl = t] = [type |-> v.type, members |-> v.members, ttl |-> t]
<1>1. v = [type |-> v.type, members |-> v.members, ttl |-> v.ttl]
  BY ValueShape
<1>2. [v EXCEPT !.ttl = t] = [type |-> v.type, members |-> v.members, ttl |-> t]
  BY <1>1
<1> QED BY <1>2 DEF RedisValue

LEMMA WithMembers ==
  ASSUME NEW v \in RedisValue, NEW ms \in SUBSET Members, ms # {}, v.type = "list"
  PROVE  /\ [v EXCEPT !.members = ms] \in RedisValue
         /\ [v EXCEPT !.members = ms] = [type |-> "list", members |-> ms, ttl |-> v.ttl]
<1>1. v = [type |-> v.type, members |-> v.members, ttl |-> v.ttl] /\ v.ttl \in Expiry
  BY ValueShape
<1>2. [v EXCEPT !.members = ms] = [type |-> "list", members |-> ms, ttl |-> v.ttl]
  BY <1>1
<1> QED BY <1>1, <1>2, ListValue

\* What is shown of a value that is not longer than that is the value.
LEMMA ShownWhole ==
  ASSUME RedisAssumption, NEW v \in RedisValue, v.type # "stream",
         v.type = "list" => Cardinality(v.members) <= ShownMembers
  PROVE  Shown(v) = v.members
<1>1. CASE v.type = "string"
  <2>1. PICK m \in Members : v.members = {m}
    BY <1>1, ValueShape
  <2> QED BY <1>1, <2>1, LeastOfOne DEF Shown, RedisAssumption
<1>2. CASE v.type = "list"
  <2>1. v.members \in SUBSET Members
    BY <1>2, ValueShape
  <2> QED BY <1>2, <2>1, LeastAll DEF Shown, RedisAssumption
<1>3. v.type = "string" \/ v.type = "list"
  BY ValueShape DEF Gone, RedisValue
<1> QED BY <1>1, <1>2, <1>3

\* What is exported of a value is its row.
Exported(v) == [v EXCEPT !.members = Shown(v)]

LEMMA ExportedValue ==
  ASSUME RedisAssumption, NEW v \in RedisValue \cup {Gone}
  PROVE  /\ Exported(v) \in RedisValue \cup Unread \cup {Gone}
         /\ (v.type = "list" => Cardinality(v.members) <= ShownMembers) => Exported(v) = KeyRow(v)
<1> DEFINE ms == Shown(v)
<1>1. /\ v = [type |-> v.type, members |-> v.members, ttl |-> v.ttl] /\ v.ttl \in Expiry
      /\ v.type \in {"string", "list", "stream", "none"}
  BY ValueShape
<1>2. Exported(v) = [type |-> v.type, members |-> ms, ttl |-> v.ttl]
  BY <1>1 DEF Exported
<1>3. CASE v.type = "none"
  <2>1. ms = {} /\ v = Gone
    BY <1>3, ValueShape DEF Shown, Least
  <2> QED BY <1>1, <1>2, <1>3, <2>1 DEF Gone, KeyRow
<1>4. CASE v.type = "stream"
  <2>1. ms = {}
    BY <1>4 DEF Shown
  <2>2. Exported(v) \in Unread
    BY <1>1, <1>2, <1>4, <2>1 DEF Unread
  <2> QED BY <1>2, <1>4, <2>1, <2>2 DEF KeyRow, Exported
<1>5. CASE v.type = "list"
  <2>1. v.members \in SUBSET Members /\ v.members # {} /\ v \in RedisValue
    BY <1>5, ValueShape DEF Gone
  <2>2. ms # {} /\ ms \in SUBSET Members
    BY <1>5, <2>1, LeastSome DEF Shown, RedisAssumption
  <2>3. Cardinality(v.members) <= ShownMembers => ms = v.members
    BY <1>5, <2>1, ShownWhole
  <2> HIDE DEF ms
  <2> QED BY <1>1, <1>2, <1>5, <2>2, <2>3, ListValue DEF KeyRow
<1>6. CASE v.type = "string"
  <2>1. v \in RedisValue
    BY <1>6 DEF Gone
  <2>2. ms = v.members
    BY <1>6, <2>1, ShownWhole
  <2> HIDE DEF ms
  <2> QED BY <1>1, <1>2, <1>6, <2>1, <2>2 DEF KeyRow
<1> QED BY <1>1, <1>3, <1>4, <1>5, <1>6

\* A row that is imported is a value.
LEMMA RowIsValue ==
  ASSUME NEW v \in RedisValue \cup Unread \cup {Gone}, v.type # "stream"
  PROVE  v \in RedisValue \cup {Gone}
BY DEF Unread

----------------------------------------------------------------------------
(* The request. *)

Pcs == {"idle", "type", "delete", "fill", "expire", "size", "read", "log", "end"}

LEMMA GoesTo ==
  ASSUME RedisTypeOK, NEW pc \in Pcs, Goes(pc)
  PROVE  /\ caller' \in RedisCall /\ caller'.pc = pc
         /\ caller'.kind = caller.kind /\ caller'.at = caller.at /\ caller'.type = caller.type
         /\ caller'.value = caller.value /\ caller'.before = caller.before
BY DEF RedisTypeOK, RedisCall, Goes, Pcs

LEMMA EndsWith ==
  ASSUME RedisTypeOK, NEW answer \in {"ok", "refused", "error"}, CallEnds(answer)
  PROVE  /\ caller' \in RedisCall /\ caller'.pc = "end" /\ caller'.answer = answer
         /\ caller'.kind = caller.kind /\ caller'.at = caller.at /\ caller'.type = caller.type
         /\ caller'.value = caller.value /\ caller'.before = caller.before
BY DEF RedisTypeOK, RedisCall, CallEnds

LEMMA CallTyped ==
  ASSUME RedisTypeOK
  PROVE  /\ caller.pc \in Pcs /\ caller.kind \in {"set", "back", "export", "import"}
         /\ caller.at \in 1..LastKey + 1 /\ caller.value \in SUBSET Members
         /\ caller.before \in [Keys -> RedisValue \cup {Gone}]
BY DEF RedisTypeOK, RedisCall, Pcs

\* Where the answer is not to be judged, the rest is enough.
LEMMA Quiet ==
  ASSUME RedisTypeOK', Steady(caller)', others' \/ Progress(caller)', others' \/ caller'.pc # "end"
  PROVE  RedisInv'
BY DEF RedisInv, RedisHonest, ReplacedAsSaid, ExportIsWhole, ImportRestores, Undisturbed

\* A request that ends without success and has changed nothing.
LEMMA NothingDone ==
  ASSUME RedisTypeOK', Steady(caller)', others' \/ Progress(caller)', caller'.answer # "ok",
         others' \/ ~ (caller'.kind \in {"set", "back"}) \/ key' = caller'.before
  PROVE  RedisInv'
<1>1. ReplacedAsSaid'
  BY DEF ReplacedAsSaid, Undisturbed
<1> QED BY <1>1 DEF RedisInv, RedisHonest, ExportIsWhole, ImportRestores

LEMMA RedisInvInit ==
  ASSUME RedisAssumption, RedisInit
  PROVE  RedisInv
<1>1. NoCall \in RedisCall /\ NoCall.pc = "idle" /\ NoCall.kind = "set" /\ NoCall.at = 1
  BY DEF NoCall, RedisCall, RedisAssumption
<1>2. RedisTypeOK
  BY <1>1 DEF RedisTypeOK, RedisInit
<1>3. Steady(caller) /\ Progress(caller)
  BY <1>1 DEF RedisInit, Steady, Progress, Replacing, Keys, RedisAssumption
<1>4. RedisHonest
  BY <1>1 DEF RedisInit, RedisHonest, ReplacedAsSaid, ExportIsWhole, ImportRestores, Undisturbed
<1> QED BY <1>2, <1>3, <1>4 DEF RedisInv

LEMMA RedisStutters ==
  ASSUME RedisInv, UNCHANGED redisVars
  PROVE  RedisInv'
<1>1. RedisTypeOK' /\ Steady(caller)' /\ (~others => Progress(caller))'
  BY DEF redisVars, RedisInv, RedisTypeOK, Steady, Progress, Replacing, Written, Sent, Exporting, Importing, Restored
<1>2. RedisHonest'
  BY DEF redisVars, RedisInv, RedisHonest, ReplacedAsSaid, Sent, ExportIsWhole, ImportRestores, Undisturbed
<1> QED BY <1>1, <1>2 DEF RedisInv
----------------------------------------------------------------------------
(* A request begins; a command of the user, and another client. *)

LEMMA ShowAndEditHolds ==
  ASSUME RedisAssumption, RedisInv, ShowAndEdit
  PROVE  RedisInv'
<1>1. PICK k \in Keys, value \in SUBSET Members :
        caller' = [NoCall EXCEPT !.pc = "type", !.kind = "set", !.at = k, !.value = value, !.before = key]
  BY DEF ShowAndEdit
<1>2. /\ caller' \in RedisCall /\ caller'.pc = "type" /\ caller'.kind = "set" /\ caller'.at = k
      /\ caller'.before = key
  <2>1. key \in [Keys -> RedisValue \cup {Gone}] /\ k \in 1..LastKey + 1
    BY DEF RedisInv, RedisTypeOK, Keys, RedisAssumption
  <2> QED BY <1>1, <2>1 DEF NoCall, RedisCall
<1>3. key' = key /\ dumped' = [j \in Keys |-> Gone] /\ others' = FALSE
  BY DEF ShowAndEdit
<1>4. RedisTypeOK'
  BY <1>2, <1>3 DEF RedisInv, RedisTypeOK
<1>5. Steady(caller)' /\ Progress(caller)'
  BY <1>2, <1>3 DEF Steady, Progress, Replacing
<1> QED BY <1>2, <1>4, <1>5, Quiet

LEMMA StoreBackHolds ==
  ASSUME RedisAssumption, RedisInv, StoreBack
  PROVE  RedisInv'
<1>1. PICK k \in Keys : key[k].type = "list" /\
        caller' = [NoCall EXCEPT !.pc = "type", !.kind = "back", !.at = k, !.value = Shown(key[k]), !.before = key]
  BY DEF StoreBack
<1>2. key \in [Keys -> RedisValue \cup {Gone}] /\ k \in 1..LastKey + 1
  BY DEF RedisInv, RedisTypeOK, Keys, RedisAssumption
<1>3. Shown(key[k]) \in SUBSET Members
  <2>1. key[k].members \in SUBSET Members
    BY <1>1, <1>2, ValueShape
  <2> QED BY <2>1 DEF Shown, Least
<1>4. /\ caller' \in RedisCall /\ caller'.pc = "type" /\ caller'.kind = "back" /\ caller'.at = k
      /\ caller'.before = key /\ caller'.value = Shown(key[k])
  BY <1>1, <1>2, <1>3 DEF NoCall, RedisCall
<1>5. key' = key /\ dumped' = [j \in Keys |-> Gone] /\ others' = FALSE
  BY DEF StoreBack
<1>6. RedisTypeOK'
  BY <1>4, <1>5 DEF RedisInv, RedisTypeOK
<1>7. Steady(caller)' /\ Progress(caller)'
  BY <1>1, <1>4, <1>5 DEF Steady, Progress, Replacing
<1> QED BY <1>4, <1>6, <1>7, Quiet

LEMMA OneCommandHolds ==
  ASSUME RedisAssumption, RedisInv, OneCommand
  PROVE  RedisInv'
<1>1. PICK k \in Keys : key[k] # Gone /\
        \E v \in {Gone} \cup {[key[k] EXCEPT !.ttl = t] : t \in Expiry} : key' = [key EXCEPT ![k] = v]
  BY DEF OneCommand
<1>2. PICK v \in {Gone} \cup {[key[k] EXCEPT !.ttl = t] : t \in Expiry} : key' = [key EXCEPT ![k] = v]
  BY <1>1
<1>3. v \in RedisValue \cup {Gone}
  <2>1. key[k] \in RedisValue
    BY <1>1 DEF RedisInv, RedisTypeOK
  <2> QED BY <1>2, <2>1, WithTtl
<1>4. caller.pc = "idle" /\ caller' = caller /\ dumped' = dumped /\ others' = others
  BY DEF OneCommand
<1>5. RedisTypeOK'
  BY <1>2, <1>3, <1>4 DEF RedisInv, RedisTypeOK
<1>6. Steady(caller)' /\ Progress(caller)'
  BY <1>4 DEF RedisInv, Steady, Progress, Replacing
<1> QED BY <1>4, <1>5, <1>6, Quiet

LEMMA OtherClientHolds ==
  ASSUME RedisAssumption, RedisInv, OtherClient
  PROVE  RedisInv'
<1>1. /\ caller' = caller /\ dumped' = dumped /\ others' = TRUE
      /\ key \in [Keys -> RedisValue \cup {Gone}]
  BY DEF OtherClient, RedisInv, RedisTypeOK
<1>2. PICK k \in Keys, m \in Members :
        key' = [key EXCEPT ![k] =
                  IF key[k].type = "list" /\ m \notin key[k].members
                  THEN [key[k] EXCEPT !.members = @ \cup {m}]
                  ELSE IF key[k] = Gone THEN Filled("list", {m}) ELSE Gone]
  BY DEF OtherClient
<1>3. PICK v : v = IF key[k].type = "list" /\ m \notin key[k].members
                   THEN [key[k] EXCEPT !.members = @ \cup {m}]
                   ELSE IF key[k] = Gone THEN Filled("list", {m}) ELSE Gone
  OBVIOUS
<1>4. key' = [key EXCEPT ![k] = v]
  BY <1>2, <1>3
<1>5. v \in RedisValue \cup {Gone}
  <2>1. Filled("list", {m}) \in RedisValue
    BY <1>2, ListValue DEF Filled, Expiry
  <2>2. key[k].type = "list" => key[k] \in RedisValue /\ key[k].members \in SUBSET Members
    BY <1>1, ValueShape DEF Gone
  <2>3. CASE key[k].type = "list" /\ m \notin key[k].members
    <3>1. PICK ms \in SUBSET Members : ms = key[k].members \cup {m} /\ ms # {}
      BY <2>2, <2>3
    <3>2. [key[k] EXCEPT !.members = ms] \in RedisValue
      BY <2>2, <2>3, <3>1, WithMembers
    <3> QED BY <1>3, <2>3, <3>1, <3>2
  <2> QED BY <1>3, <2>1, <2>3
<1>6. RedisTypeOK'
  BY <1>1, <1>2, <1>4, <1>5 DEF RedisInv, RedisTypeOK
<1>7. Steady(caller)'
  BY <1>1 DEF RedisInv, Steady
<1> QED BY <1>1, <1>6, <1>7, Quiet
----------------------------------------------------------------------------
(* A value is replaced. *)

\* A key that is given a value.
LEMMA KeySet ==
  ASSUME RedisTypeOK, NEW k \in Keys, NEW v \in RedisValue \cup {Gone}, key' = [key EXCEPT ![k] = v]
  PROVE  /\ key' \in [Keys -> RedisValue \cup {Gone}] /\ key'[k] = v
         /\ \A j \in Keys \ {k} : key'[j] = key[j]
BY DEF RedisTypeOK

LEMMA AskTypeHolds ==
  ASSUME RedisAssumption, RedisInv, AskType
  PROVE  RedisInv'
<1> PICK k : k = caller.at
  OBVIOUS
<1>1. /\ caller.pc = "type" /\ dumped' = dumped /\ others' = others
      /\ caller.kind \in {"set", "back"} /\ k \in Keys /\ RedisTypeOK
      /\ key[k] \in RedisValue \cup {Gone} /\ caller.value \in SUBSET Members
      /\ others \/ key = caller.before
  BY CallTyped DEF AskType, RedisInv, Steady, Progress, Replacing, RedisTypeOK
<1>2. CASE key[k].type = "string" /\ caller.value # {}
           /\ key' = [key EXCEPT ![k] = [type |-> "string", members |-> Least(caller.value, 1), ttl |-> "never"]]
           /\ Goes("log")
  <2>1. PICK m \in Members : Least(caller.value, 1) = {m}
    BY <1>1, <1>2, LeastOne
  <2>2. PICK v \in RedisValue : v = [type |-> "string", members |-> {m}, ttl |-> "never"]
    BY StringValue DEF Expiry
  <2>3. /\ key' \in [Keys -> RedisValue \cup {Gone}] /\ key'[k] = v
        /\ \A j \in Keys \ {k} : key'[j] = key[j]
    BY <1>1, <1>2, <2>1, <2>2, KeySet
  <2>4. /\ caller' \in RedisCall /\ caller'.pc = "log"
        /\ caller'.kind = caller.kind /\ caller'.at = k /\ caller'.value = caller.value
        /\ caller'.before = caller.before
    BY <1>1, <1>2, GoesTo DEF Pcs
  <2>5. RedisTypeOK'
    BY <1>1, <2>3, <2>4 DEF RedisTypeOK
  <2>6. Steady(caller)'
    BY <1>1, <2>4 DEF RedisInv, Steady
  <2>7. ASSUME key = caller.before PROVE Written'
    <3>1. caller.before[k].type = "string" /\ caller.kind # "back"
      BY <1>1, <1>2, <2>7 DEF RedisInv, Steady
    <3>2. Filled("string", {m}) = v
      BY <2>2 DEF Filled
    <3>3. Sent' = v
      BY <2>1, <2>4, <3>1, <3>2 DEF Sent
    <3> QED BY <2>3, <2>4, <2>7, <3>1, <3>3 DEF Written
  <2>8. others' \/ Progress(caller)'
    BY <1>1, <2>4, <2>7 DEF Progress, Replacing
  <2> QED BY <2>4, <2>5, <2>6, <2>8, Quiet
<1>3. CASE key[k].type = "list" /\ Goes("delete") /\ UNCHANGED key
  <2>1. /\ caller' \in RedisCall /\ caller'.pc = "delete"
        /\ caller'.kind = caller.kind /\ caller'.at = k /\ caller'.value = caller.value
        /\ caller'.before = caller.before
    BY <1>1, <1>3, GoesTo DEF Pcs
  <2>2. RedisTypeOK'
    BY <1>1, <1>3, <2>1 DEF RedisTypeOK
  <2>3. Steady(caller)'
    BY <1>1, <2>1 DEF RedisInv, Steady
  <2>4. others' \/ Progress(caller)'
    BY <1>1, <1>3, <2>1 DEF RedisInv, Progress, Replacing
  <2> QED BY <2>1, <2>2, <2>3, <2>4, Quiet
<1>4. CASE key[k].type \notin {"string", "list"} /\ CallEnds("refused") /\ UNCHANGED key
  <2>1. /\ caller' \in RedisCall /\ caller'.pc = "end" /\ caller'.answer = "refused"
        /\ caller'.kind = caller.kind /\ caller'.at = k /\ caller'.value = caller.value
        /\ caller'.before = caller.before
    BY <1>1, <1>4, EndsWith
  <2>2. RedisTypeOK'
    BY <1>1, <1>4, <2>1 DEF RedisTypeOK
  <2>3. Steady(caller)' /\ Progress(caller)'
    BY <1>1, <2>1 DEF RedisInv, Steady, Progress, Replacing
  <2> QED BY <1>1, <1>4, <2>1, <2>2, <2>3, NothingDone
<1> QED BY <1>2, <1>3, <1>4 DEF AskType

LEMMA DeleteKeyFirstHolds ==
  ASSUME RedisAssumption, RedisInv, DeleteKeyFirst
  PROVE  RedisInv'
<1> PICK k : k = caller.at
  OBVIOUS
<1>1. /\ caller.pc = "delete" /\ dumped' = dumped /\ others' = others
      /\ caller.kind \in {"set", "back"} /\ k \in Keys /\ RedisTypeOK
      /\ caller.value \in SUBSET Members
      /\ others \/ (key = caller.before /\ caller.before[k].type = "list")
  BY CallTyped DEF DeleteKeyFirst, RedisInv, Steady, Progress, Replacing, RedisTypeOK
<1>2. /\ key' \in [Keys -> RedisValue \cup {Gone}] /\ key'[k] = Gone
      /\ key' = [key EXCEPT ![k] = Gone]
      /\ \A j \in Keys \ {k} : key'[j] = key[j]
  BY <1>1, KeySet DEF DeleteKeyFirst
<1>3. CASE caller.value = {} /\ Goes("log")
  <2>1. /\ caller' \in RedisCall /\ caller'.pc = "log"
        /\ caller'.kind = caller.kind /\ caller'.at = k /\ caller'.value = {}
        /\ caller'.before = caller.before
    BY <1>1, <1>3, GoesTo DEF Pcs
  <2>2. RedisTypeOK'
    BY <1>1, <1>2, <2>1 DEF RedisTypeOK
  <2>3. Steady(caller)'
    BY <1>1, <1>3, <2>1 DEF RedisInv, Steady
  <2>4. ASSUME key = caller.before, caller.before[k].type = "list" PROVE Written'
    <3>1. caller.kind # "back"
      <4>1. caller.before[k] \in RedisValue \cup {Gone}
        BY <1>1, CallTyped
      <4>2. caller.before[k].members \in SUBSET Members /\ caller.before[k].members # {}
        BY <2>4, <4>1, ValueShape
      <4>3. Shown(caller.before[k]) # {}
        BY <2>4, <4>2, LeastSome DEF Shown, RedisAssumption
      <4> QED BY <1>3, <4>3 DEF RedisInv, Steady
    <3>2. Sent' = Gone
      BY <2>1, <2>4 DEF Sent, Filled
    <3> QED BY <1>2, <2>1, <2>4, <3>1, <3>2 DEF Written
  <2>5. others' \/ Progress(caller)'
    BY <1>1, <2>1, <2>4 DEF Progress, Replacing
  <2> QED BY <2>1, <2>2, <2>3, <2>5, Quiet
<1>4. CASE caller.value # {} /\ Goes("fill")
  <2>1. /\ caller' \in RedisCall /\ caller'.pc = "fill"
        /\ caller'.kind = caller.kind /\ caller'.at = k /\ caller'.value = caller.value
        /\ caller'.before = caller.before
    BY <1>1, <1>4, GoesTo DEF Pcs
  <2>2. RedisTypeOK'
    BY <1>1, <1>2, <2>1 DEF RedisTypeOK
  <2>3. Steady(caller)'
    BY <1>1, <1>4, <2>1 DEF RedisInv, Steady
  <2>4. others' \/ Progress(caller)'
    BY <1>1, <1>2, <2>1 DEF Progress, Replacing
  <2> QED BY <2>1, <2>2, <2>3, <2>4, Quiet
<1> QED BY <1>3, <1>4 DEF DeleteKeyFirst

LEMMA FillHolds ==
  ASSUME RedisAssumption, RedisInv, Fill
  PROVE  RedisInv'
<1> PICK k : k = caller.at
  OBVIOUS
<1>1. /\ caller.pc = "fill" /\ dumped' = dumped /\ others' = others
      /\ caller.kind \in {"set", "back", "import"} /\ k \in Keys /\ RedisTypeOK
      /\ caller.value \in SUBSET Members /\ caller.value # {}
      /\ key[k] \in RedisValue \cup {Gone}
      /\ caller.kind = "import" => dumped[k].type = "list" /\ caller.value = dumped[k].members
                                 /\ dumped[k] \in RedisValue \cup {Gone}
      /\ others \/ key[k] = Gone
  <2>1. /\ caller.pc = "fill" /\ dumped' = dumped /\ others' = others /\ RedisTypeOK
        /\ caller.kind \in {"set", "back", "import"} /\ k \in Keys /\ caller.value # {}
        /\ caller.kind = "import" => dumped[k].type = "list" /\ caller.value = dumped[k].members
    BY DEF Fill, RedisInv, Steady
  <2>2. caller.before \in [Keys -> RedisValue \cup {Gone}] /\ caller.value \in SUBSET Members
    BY <2>1, CallTyped
  <2>3. others \/ key[k] = Gone
    BY <2>1, <2>2 DEF RedisInv, Progress, Replacing, Importing
  <2> QED BY <2>1, <2>2, <2>3, RowIsValue DEF RedisTypeOK
<1>2. CASE /\ key[k].type \in {"none", "list"}
           /\ key' = [key EXCEPT ![k] = [type |-> "list", members |-> @.members \cup caller.value, ttl |-> @.ttl]]
           /\ Goes(IF caller.kind = "import" THEN "expire" ELSE "log")
  <2>1. PICK ms \in SUBSET Members : ms = key[k].members \cup caller.value /\ ms # {}
    BY <1>1, <1>2, ValueShape
  <2>2. PICK v : v = [type |-> "list", members |-> ms, ttl |-> key[k].ttl]
    OBVIOUS
  <2>3. v \in RedisValue
    BY <1>1, <2>1, <2>2, ListValue, ValueShape
  <2>4. key' = [key EXCEPT ![k] = v]
    BY <1>2, <2>1, <2>2
  <2>5. /\ key' \in [Keys -> RedisValue \cup {Gone}] /\ key'[k] = v
        /\ \A j \in Keys \ {k} : key'[j] = key[j]
    BY <1>1, <2>3, <2>4, KeySet
  <2>6. others \/ v = [type |-> "list", members |-> caller.value, ttl |-> "never"]
    BY <1>1, <2>1, <2>2 DEF Gone
  <2>7. CASE caller.kind # "import" /\ Goes("log")
    <3>1. /\ caller' \in RedisCall /\ caller'.pc = "log"
          /\ caller'.kind = caller.kind /\ caller'.at = k /\ caller'.value = caller.value
          /\ caller'.before = caller.before
      BY <1>1, <2>7, GoesTo DEF Pcs
    <3>2. RedisTypeOK'
      BY <1>1, <2>5, <3>1 DEF RedisTypeOK
    <3>3. Steady(caller)'
      BY <1>1, <2>7, <3>1 DEF RedisInv, Steady
    <3>4. ASSUME ~ others PROVE Written'
      <4>1. /\ key = [caller.before EXCEPT ![k] = Gone] /\ caller.before[k].type = "list"
            /\ caller.before \in [Keys -> RedisValue \cup {Gone}]
        BY <1>1, <2>7, <3>4, CallTyped DEF RedisInv, Progress, Replacing
      <4>2. \A j \in Keys \ {k} : key'[j] = caller.before[j]
        BY <2>5, <4>1
      <4>3. Sent' = v
        BY <1>1, <2>6, <3>1, <3>4, <4>1 DEF Sent, Filled
      <4>4. caller.kind = "back" /\ Cardinality(caller.before[k].members) <= ShownMembers
              => Content(v) = Content(caller.before[k])
        <5>1. caller.before[k] \in RedisValue /\ caller.before[k].type = "list"
          BY <1>1, <4>1, ValueShape DEF Gone
        <5>2. caller.kind = "back" => caller.value = Shown(caller.before[k])
          BY DEF RedisInv, Steady
        <5>3. Cardinality(caller.before[k].members) <= ShownMembers
                => Shown(caller.before[k]) = caller.before[k].members
          BY <5>1, ShownWhole
        <5> QED BY <2>6, <3>4, <5>1, <5>2, <5>3 DEF Content
      <4> QED BY <2>5, <3>1, <4>2, <4>3, <4>4 DEF Written
    <3>5. others' \/ Progress(caller)'
      BY <1>1, <2>7, <3>1, <3>4 DEF Progress, Replacing
    <3> QED BY <3>1, <3>2, <3>3, <3>5, Quiet
  <2>8. CASE caller.kind = "import" /\ Goes("expire")
    <3>1. /\ caller' \in RedisCall /\ caller'.pc = "expire"
          /\ caller'.kind = "import" /\ caller'.at = k /\ caller'.before = caller.before
      BY <1>1, <2>8, GoesTo DEF Pcs
    <3>2. RedisTypeOK'
      BY <1>1, <2>5, <3>1 DEF RedisTypeOK
    <3>3. Steady(caller)'
      BY <1>1, <2>8, <3>1 DEF Steady
    <3>4. others' \/ Progress(caller)'
      <4> SUFFICES ASSUME ~ others PROVE Importing(caller)'
        BY <1>1, <3>1 DEF Progress
      <4>1. /\ \A j \in Keys : j < k => key[j] = Restored(caller, j)
            /\ \A j \in Keys : j > k => key[j] = caller.before[j]
        BY <1>1, <2>8 DEF RedisInv, Progress, Importing
      <4>2. \A j \in Keys : j # k => key'[j] = key[j]
        BY <2>5
      <4>3. \A j \in Keys : j < k => key'[j] = Restored(caller', j) /\ j # k
        BY <1>1, <3>1, <4>1, <4>2 DEF Restored, Keys
      <4>4. \A j \in Keys : j > k => key'[j] = caller'.before[j]
        BY <1>1, <3>1, <4>1, <4>2 DEF Keys
      <4>5. key'[k] = [dumped[k] EXCEPT !.ttl = "never"]
        <5>1. dumped[k] \in RedisValue
          BY <1>1, <2>8 DEF Gone
        <5> QED BY <1>1, <2>5, <2>6, <2>8, <5>1, WithTtl DEF Expiry
      <4>6. \A j \in Keys : j < k => key'[j] = (Restored(caller, j))'
        BY <1>1, <3>1, <4>3 DEF Restored
      <4> QED BY <1>1, <3>1, <4>4, <4>5, <4>6 DEF Importing
    <3> QED BY <3>1, <3>2, <3>3, <3>4, Quiet
  <2> QED BY <1>2, <2>7, <2>8
<1>3. CASE key[k].type \notin {"none", "list"} /\ CallEnds("error") /\ UNCHANGED key
  <2>1. /\ caller' \in RedisCall /\ caller'.pc = "end" /\ caller'.answer = "error"
        /\ caller'.kind = caller.kind /\ caller'.at = k /\ caller'.value = caller.value
        /\ caller'.before = caller.before
    BY <1>1, <1>3, EndsWith
  <2>2. RedisTypeOK' /\ others'
    BY <1>1, <1>3, <2>1 DEF RedisTypeOK, Gone
  <2>3. Steady(caller)'
    BY <1>1, <2>1 DEF RedisInv, Steady
  <2> QED BY <2>2, <2>3, Quiet
<1> QED BY <1>2, <1>3 DEF Fill

LEMMA LogWriteHolds ==
  ASSUME RedisAssumption, RedisInv, LogWrite
  PROVE  RedisInv'
<1>1. /\ caller.pc = "log" /\ CallEnds("ok") /\ key' = key /\ dumped' = dumped
      /\ others' = others /\ RedisTypeOK /\ caller.kind \in {"set", "back"}
      /\ others \/ Written
  BY DEF LogWrite, RedisInv, Steady, Progress, Replacing
<1>2. /\ caller' \in RedisCall /\ caller'.pc = "end" /\ caller'.answer = "ok"
      /\ caller'.kind = caller.kind /\ caller'.at = caller.at /\ caller'.value = caller.value
      /\ caller'.before = caller.before
  BY <1>1, EndsWith
<1>3. RedisTypeOK'
  BY <1>1, <1>2 DEF RedisTypeOK
<1>4. Steady(caller)' /\ Progress(caller)'
  BY <1>1, <1>2 DEF RedisInv, Steady, Progress, Replacing
<1>5. ReplacedAsSaid'
  BY <1>1, <1>2 DEF ReplacedAsSaid, Undisturbed, Written, Sent
<1> QED BY <1>1, <1>2, <1>3, <1>4, <1>5
    DEF RedisInv, RedisHonest, ExportIsWhole, ImportRestores, Undisturbed
----------------------------------------------------------------------------
(* An export. *)

LEMMA StartExportHolds ==
  ASSUME RedisAssumption, RedisInv, StartExport
  PROVE  RedisInv'
<1>1. /\ key' = key /\ dumped' = [j \in Keys |-> Gone] /\ others' = FALSE
      /\ key \in [Keys -> RedisValue \cup {Gone}]
      /\ caller' = [NoCall EXCEPT !.pc = "size", !.kind = "export", !.before = key]
  BY DEF StartExport, RedisInv, RedisTypeOK
<1>2. /\ caller' \in RedisCall /\ caller'.pc = "size" /\ caller'.kind = "export" /\ caller'.at = 1
      /\ caller'.before = key
  <2>1. 1 \in 1..LastKey + 1
    BY DEF RedisAssumption
  <2> QED BY <1>1, <2>1 DEF NoCall, RedisCall
<1>3. RedisTypeOK'
  BY <1>1, <1>2 DEF RedisTypeOK
<1>4. Steady(caller)'
  BY <1>2 DEF Steady
<1>5. Progress(caller)'
  BY <1>1, <1>2 DEF Progress, Exporting, Keys
<1> QED BY <1>2, <1>3, <1>4, <1>5, Quiet

LEMMA AskSizeHolds ==
  ASSUME RedisAssumption, RedisInv, AskSize
  PROVE  RedisInv'
<1> PICK k : k = caller.at
  OBVIOUS
<1>1. /\ caller.pc = "size" /\ caller.kind = "export" /\ key' = key /\ dumped' = dumped
      /\ others' = others /\ RedisTypeOK /\ k \in 1..LastKey + 1 /\ LastKey \in Nat
      /\ caller.before \in [Keys -> RedisValue \cup {Gone}]
      /\ others \/ (key = caller.before /\
                    \A j \in Keys : dumped[j] = IF j < k THEN KeyRow(caller.before[j]) ELSE Gone)
  BY CallTyped DEF AskSize, RedisInv, Steady, Progress, Exporting, RedisAssumption
<1>2. CASE k > LastKey /\ CallEnds("ok")
  <2>1. /\ caller' \in RedisCall /\ caller'.pc = "end"
        /\ caller'.kind = "export" /\ caller'.before = caller.before
    BY <1>1, <1>2, EndsWith
  <2>2. RedisTypeOK'
    BY <1>1, <2>1 DEF RedisTypeOK
  <2>3. Steady(caller)' /\ (others' \/ Progress(caller)')
    BY <1>1, <2>1 DEF Steady, Progress, Exporting
  <2>4. others \/ \A j \in Keys : dumped[j] = KeyRow(caller.before[j])
    <3>1. \A j \in Keys : j < k
      BY <1>1, <1>2 DEF Keys
    <3> QED BY <1>1, <3>1
  <2>5. ExportIsWhole'
    BY <1>1, <2>1, <2>4 DEF ExportIsWhole, Undisturbed
  <2> QED BY <2>1, <2>2, <2>3, <2>5 DEF RedisInv, RedisHonest, ReplacedAsSaid, ImportRestores, Undisturbed
<1>3. CASE k <= LastKey /\ CallEnds("refused")
  <2>1. /\ caller' \in RedisCall /\ caller'.pc = "end" /\ caller'.answer = "refused"
        /\ caller'.kind = "export" /\ caller'.before = caller.before
    BY <1>1, <1>3, EndsWith
  <2>2. RedisTypeOK'
    BY <1>1, <2>1 DEF RedisTypeOK
  <2>3. Steady(caller)' /\ (others' \/ Progress(caller)')
    BY <1>1, <2>1 DEF Steady, Progress, Exporting
  <2> QED BY <2>1, <2>2, <2>3, NothingDone
<1>4. CASE k <= LastKey /\ key[k] = Gone /\ caller' = [caller EXCEPT !.at = @ + 1]
  <2>1. /\ caller' \in RedisCall /\ caller'.pc = "size" /\ caller'.at = k + 1
        /\ caller'.kind = "export" /\ caller'.before = caller.before
    BY <1>1, <1>4 DEF RedisTypeOK, RedisCall
  <2>2. RedisTypeOK'
    BY <1>1, <2>1 DEF RedisTypeOK
  <2>3. Steady(caller)'
    BY <1>1, <2>1 DEF Steady
  <2>4. ASSUME ~ others PROVE Exporting(caller)'
    <3>1. ASSUME NEW j \in Keys PROVE dumped[j] = IF j < k + 1 THEN KeyRow(caller.before[j]) ELSE Gone
      <4>1. CASE j = k
        <5>1. caller.before[j] = Gone /\ KeyRow(Gone) = Gone
          BY <1>1, <1>4, <2>4, <4>1 DEF KeyRow, Gone
        <5> QED BY <1>1, <2>4, <4>1, <5>1 DEF Keys
      <4>2. CASE j # k
        BY <1>1, <2>4, <4>2 DEF Keys
      <4> QED BY <4>1, <4>2
    <3> QED BY <1>1, <2>1, <2>4, <3>1 DEF Exporting
  <2>5. others' \/ Progress(caller)'
    BY <1>1, <2>1, <2>4 DEF Progress
  <2> QED BY <2>1, <2>2, <2>3, <2>5, Quiet
<1>5. CASE /\ k <= LastKey /\ key[k] # Gone
           /\ ~ (key[k].type = "list" /\ Cardinality(key[k].members) > ShownMembers)
           /\ caller' = [caller EXCEPT !.pc = "read", !.type = key[k].type]
  <2>1. k \in Keys /\ key[k] \in RedisValue \cup {Gone}
    BY <1>1, <1>5 DEF Keys, RedisTypeOK
  <2>2. /\ caller' \in RedisCall /\ caller'.pc = "read" /\ caller'.at = k
        /\ caller'.kind = "export" /\ caller'.before = caller.before
    BY <1>1, <1>5, <2>1, ValueShape DEF RedisTypeOK, RedisCall
  <2>3. RedisTypeOK'
    BY <1>1, <2>2 DEF RedisTypeOK
  <2>4. Steady(caller)'
    BY <1>1, <2>1, <2>2 DEF Steady
  <2>5. key[k].type = "list" => Cardinality(key[k].members) <= ShownMembers
    <3>1. key[k].type = "list" => Cardinality(key[k].members) \in Nat
      BY <2>1, ValueShape, MembersFinite
    <3> QED BY <1>5, <3>1 DEF RedisAssumption
  <2>6. others' \/ Progress(caller)'
    BY <1>1, <2>2, <2>5 DEF Progress, Exporting
  <2> QED BY <2>2, <2>3, <2>4, <2>6, Quiet
<1> QED BY <1>2, <1>3, <1>4, <1>5 DEF AskSize

LEMMA ReadKeyHolds ==
  ASSUME RedisAssumption, RedisInv, ReadKey
  PROVE  RedisInv'
<1> PICK k : k = caller.at
  OBVIOUS
<1>1. /\ caller.pc = "read" /\ caller.kind = "export" /\ key' = key /\ others' = others
      /\ RedisTypeOK /\ k \in Keys /\ LastKey \in Nat
      /\ caller.before \in [Keys -> RedisValue \cup {Gone}]
      /\ key[k] \in RedisValue \cup {Gone}
      /\ caller' = [caller EXCEPT !.pc = "size", !.at = @ + 1]
      /\ others \/ /\ key = caller.before
                   /\ \A j \in Keys : dumped[j] = IF j < k THEN KeyRow(caller.before[j]) ELSE Gone
                   /\ caller.before[k].type = "list" => Cardinality(caller.before[k].members) <= ShownMembers
  <2>1. /\ caller.pc = "read" /\ caller.kind = "export" /\ key' = key /\ others' = others
        /\ RedisTypeOK /\ k \in Keys /\ caller' = [caller EXCEPT !.pc = "size", !.at = @ + 1]
    BY DEF ReadKey, RedisInv, Steady
  <2>2. others \/ Exporting(caller)
    BY <2>1 DEF RedisInv, Progress
  <2> QED BY <2>1, <2>2, CallTyped DEF Exporting, RedisTypeOK, RedisAssumption
<1>2. PICK v : v = Exported(key[k])
  OBVIOUS
<1>3. dumped' = [dumped EXCEPT ![k] = v]
  BY <1>2 DEF ReadKey, Exported
<1>4. v \in RedisValue \cup Unread \cup {Gone} /\ (others \/ v = KeyRow(key[k]))
  BY <1>1, <1>2, ExportedValue
<1>5. /\ caller' \in RedisCall /\ caller'.pc = "size" /\ caller'.at = k + 1
      /\ caller'.kind = "export" /\ caller'.before = caller.before
  <2>1. k + 1 \in 1..LastKey + 1
    BY <1>1 DEF Keys
  <2> QED BY <1>1, <2>1 DEF RedisTypeOK, RedisCall
<1>6. RedisTypeOK'
  BY <1>1, <1>3, <1>4, <1>5 DEF RedisTypeOK
<1>7. Steady(caller)'
  BY <1>5 DEF Steady
<1>8. ASSUME ~ others PROVE Exporting(caller)'
  <2>1. ASSUME NEW j \in Keys PROVE dumped'[j] = IF j < k + 1 THEN KeyRow(caller.before[j]) ELSE Gone
    <3>1. dumped \in [Keys -> RedisValue \cup Unread \cup {Gone}]
      BY <1>1 DEF RedisTypeOK
    <3>2. CASE j = k
      BY <1>1, <1>3, <1>4, <1>8, <3>1, <3>2 DEF Keys
    <3>3. CASE j # k
      BY <1>1, <1>3, <1>8, <3>1, <3>3 DEF Keys
    <3> QED BY <3>2, <3>3
  <2> QED BY <1>1, <1>5, <1>8, <2>1 DEF Exporting
<1>9. others' \/ Progress(caller)'
  BY <1>1, <1>5, <1>8 DEF Progress
<1> QED BY <1>5, <1>6, <1>7, <1>9, Quiet
----------------------------------------------------------------------------
(* An import. *)

LEMMA StartImportHolds ==
  ASSUME RedisAssumption, RedisInv, StartImport
  PROVE  RedisInv'
<1>1. /\ key' = key /\ dumped' = dumped /\ others' = FALSE
      /\ key \in [Keys -> RedisValue \cup {Gone}]
      /\ caller' = [NoCall EXCEPT !.pc = "delete", !.kind = "import", !.before = key]
  BY DEF StartImport, RedisInv, RedisTypeOK
<1>2. /\ caller' \in RedisCall /\ caller'.pc = "delete" /\ caller'.kind = "import" /\ caller'.at = 1
      /\ caller'.before = key
  <2>1. 1 \in 1..LastKey + 1
    BY DEF RedisAssumption
  <2> QED BY <1>1, <2>1 DEF NoCall, RedisCall
<1>3. RedisTypeOK'
  BY <1>1, <1>2 DEF RedisInv, RedisTypeOK
<1>4. Steady(caller)'
  BY <1>2 DEF Steady
<1>5. Progress(caller)'
  BY <1>1, <1>2 DEF Progress, Importing, Keys
<1> QED BY <1>2, <1>3, <1>4, <1>5, Quiet

\* The rows before the next one are restored and those after it are as they were.
LEMMA RowsDone ==
  ASSUME RedisInv, ~ others, caller.kind = "import", caller.pc \in {"delete", "fill", "expire"}
  PROVE  /\ \A j \in Keys : j < caller.at => key[j] = Restored(caller, j)
         /\ \A j \in Keys : j > caller.at => key[j] = caller.before[j]
BY DEF RedisInv, Progress, Importing

\* The next row is reached once this one's key is as it should be.
LEMMA NextRow ==
  ASSUME RedisAssumption, RedisInv, NEW k \in Keys, k = caller.at, caller.kind = "import",
         caller.pc \in {"delete", "expire"}, dumped' = dumped, others' = others,
         \A j \in Keys \ {k} : key'[j] = key[j], others \/ key'[k] = Restored(caller, k),
         key' \in [Keys -> RedisValue \cup {Gone}],
         caller' \in RedisCall, caller'.pc = "delete", caller'.kind = "import", caller'.at = k + 1,
         caller'.before = caller.before
  PROVE  RedisInv'
<1>1. RedisTypeOK'
  BY DEF RedisInv, RedisTypeOK
<1>2. Steady(caller)'
  BY DEF Steady
<1>3. ASSUME ~ others PROVE Importing(caller)'
  <2>1. ASSUME NEW j \in Keys, j < k + 1 PROVE key'[j] = Restored(caller, j)
    <3>1. CASE j = k
      BY <1>3, <3>1
    <3>2. CASE j # k
      BY <1>3, <2>1, <3>2, RowsDone DEF Keys
    <3> QED BY <3>1, <3>2
  <2>2. \A j \in Keys : j < k + 1 => key'[j] = (Restored(caller, j))'
    BY <2>1 DEF Restored
  <2>3. ASSUME NEW j \in Keys, j >= k + 1 PROVE key'[j] = caller.before[j]
    BY <1>3, <2>3, RowsDone DEF Keys
  <2>4. \A j \in Keys : j >= k + 1 => key'[j] = caller'.before[j]
    BY <2>3
  <2>5. /\ \A j \in Keys : j > caller'.at => key'[j] = caller'.before[j]
        /\ caller'.at \in Keys => key'[caller'.at] = caller'.before[caller'.at]
    BY <2>4 DEF Keys
  <2> QED BY <2>2, <2>5 DEF Importing
<1>4. others' \/ Progress(caller)'
  BY <1>3 DEF Progress
<1> QED BY <1>1, <1>2, <1>4, Quiet

\* The step stays at the row.
LEMMA SameRow ==
  ASSUME RedisAssumption, RedisInv, NEW k \in Keys, k = caller.at, caller.kind = "import",
         caller.pc = "delete", dumped' = dumped, others' = others,
         \A j \in Keys \ {k} : key'[j] = key[j], key' \in [Keys -> RedisValue \cup {Gone}],
         caller' \in RedisCall, caller'.pc \in {"fill", "expire"}, caller'.kind = "import",
         caller'.at = k, caller'.before = caller.before, Steady(caller)',
         caller'.pc = "fill" => key'[k] = Gone,
         caller'.pc = "expire" => key'[k] = [dumped[k] EXCEPT !.ttl = "never"]
  PROVE  RedisInv'
<1>1. RedisTypeOK'
  BY DEF RedisInv, RedisTypeOK
<1>2. ASSUME ~ others PROVE Importing(caller)'
  <2>1. \A j \in Keys : j < k => key'[j] = Restored(caller, j)
    BY <1>2, RowsDone DEF Keys
  <2>2. \A j \in Keys : j < k => key'[j] = (Restored(caller, j))'
    BY <2>1 DEF Restored
  <2>3. \A j \in Keys : j > k => key'[j] = caller'.before[j]
    BY <1>2, RowsDone DEF Keys
  <2> QED BY <2>2, <2>3 DEF Importing
<1>3. others' \/ Progress(caller)'
  BY <1>2 DEF Progress
<1> QED BY <1>1, <1>3, Quiet

LEMMA ImportRowHolds ==
  ASSUME RedisAssumption, RedisInv, ImportRow
  PROVE  RedisInv'
<1> PICK k : k = caller.at
  OBVIOUS
<1>1. /\ caller.pc = "delete" /\ caller.kind = "import" /\ dumped' = dumped /\ others' = others
      /\ RedisTypeOK /\ k \in 1..LastKey + 1 /\ LastKey \in Nat
      /\ caller.before \in [Keys -> RedisValue \cup {Gone}]
      /\ dumped \in [Keys -> RedisValue \cup Unread \cup {Gone}] /\ key \in [Keys -> RedisValue \cup {Gone}]
  BY CallTyped DEF ImportRow, Doing, RedisInv, RedisTypeOK, RedisAssumption
<1>2. k <= LastKey => k \in Keys /\ k + 1 \in 1..LastKey + 1
  BY <1>1 DEF Keys
<1>3. CASE k > LastKey /\ CallEnds("ok") /\ key' = key
  <2>1. /\ caller' \in RedisCall /\ caller'.pc = "end" /\ caller'.kind = "import"
        /\ caller'.before = caller.before
    BY <1>1, <1>3, EndsWith
  <2>2. RedisTypeOK'
    BY <1>1, <1>3, <2>1 DEF RedisTypeOK
  <2>3. Steady(caller)' /\ Progress(caller)'
    BY <2>1 DEF Steady, Progress, Importing
  <2>4. others \/ \A j \in Keys : key[j] = Restored(caller, j)
    <3>1. \A j \in Keys : j < k
      BY <1>1, <1>3 DEF Keys
    <3> QED BY <1>1, <3>1, RowsDone
  <2>5. ImportRestores'
    BY <1>1, <1>3, <2>1, <2>4 DEF ImportRestores, Undisturbed, Restored
  <2> QED BY <2>1, <2>2, <2>3, <2>5 DEF RedisInv, RedisHonest, ReplacedAsSaid, ExportIsWhole, Undisturbed
<1>4. CASE k <= LastKey /\ dumped[k] = Gone /\ key' = key /\ caller' = [caller EXCEPT !.at = @ + 1]
  <2>1. /\ caller' \in RedisCall /\ caller'.pc = "delete" /\ caller'.kind = "import"
        /\ caller'.at = k + 1 /\ caller'.before = caller.before
    BY <1>1, <1>2, <1>4 DEF RedisTypeOK, RedisCall
  <2>2. others \/ key[k] = Restored(caller, k)
    BY <1>1, <1>2, <1>4 DEF RedisInv, Progress, Importing, Restored
  <2> QED BY <1>1, <1>2, <1>4, <2>1, <2>2, NextRow
<1>5. CASE /\ k <= LastKey /\ dumped[k].type = "string" /\ Goes("expire")
           /\ key' = [key EXCEPT ![k] = Filled("string", dumped[k].members)]
  <2>1. k \in Keys /\ dumped[k] \in RedisValue
    BY <1>1, <1>2, <1>5, RowIsValue DEF Gone
  <2>2. PICK m \in Members : dumped[k].members = {m}
    BY <1>5, <2>1, ValueShape
  <2>3. PICK v : v = [dumped[k] EXCEPT !.ttl = "never"]
    OBVIOUS
  <2>4. v = Filled("string", dumped[k].members) /\ v \in RedisValue
    BY <1>5, <2>1, <2>2, <2>3, WithTtl DEF Filled, Expiry
  <2>5. /\ key' \in [Keys -> RedisValue \cup {Gone}] /\ key'[k] = v
        /\ \A j \in Keys \ {k} : key'[j] = key[j]
    BY <1>1, <1>5, <2>1, <2>4, KeySet
  <2>6. /\ caller' \in RedisCall /\ caller'.pc = "expire" /\ caller'.kind = "import"
        /\ caller'.at = k /\ caller'.before = caller.before
    BY <1>1, <1>5, GoesTo DEF Pcs
  <2>7. Steady(caller)'
    BY <1>1, <1>5, <2>1, <2>6 DEF Steady
  <2> QED BY <1>1, <2>1, <2>3, <2>5, <2>6, <2>7, SameRow
<1>6. CASE /\ k <= LastKey /\ dumped[k].type = "list" /\ key' = [key EXCEPT ![k] = Gone]
           /\ caller' = [caller EXCEPT !.pc = "fill", !.value = dumped[k].members]
  <2>1. k \in Keys /\ dumped[k].members \in SUBSET Members /\ dumped[k].members # {}
    BY <1>1, <1>2, <1>6, RowIsValue, ValueShape
  <2>2. /\ key' \in [Keys -> RedisValue \cup {Gone}] /\ key'[k] = Gone
        /\ \A j \in Keys \ {k} : key'[j] = key[j]
    BY <1>1, <1>6, <2>1, KeySet
  <2>3. /\ caller' \in RedisCall /\ caller'.pc = "fill" /\ caller'.kind = "import"
        /\ caller'.at = k /\ caller'.before = caller.before /\ caller'.value = dumped[k].members
    BY <1>1, <1>6, <2>1 DEF RedisTypeOK, RedisCall
  <2>4. Steady(caller)'
    BY <1>1, <1>6, <2>1, <2>3 DEF Steady
  <2> QED BY <1>1, <2>1, <2>2, <2>3, <2>4, SameRow
<1>7. CASE k <= LastKey /\ CallEnds("error") /\ key' = key
  <2>1. /\ caller' \in RedisCall /\ caller'.pc = "end" /\ caller'.kind = "import"
        /\ caller'.answer = "error" /\ caller'.before = caller.before
    BY <1>1, <1>7, EndsWith
  <2>2. RedisTypeOK'
    BY <1>1, <1>7, <2>1 DEF RedisTypeOK
  <2>3. Steady(caller)' /\ Progress(caller)'
    BY <2>1 DEF Steady, Progress, Importing
  <2> QED BY <2>1, <2>2, <2>3, NothingDone
<1> QED BY <1>3, <1>4, <1>5, <1>6, <1>7 DEF ImportRow

LEMMA ExpireHolds ==
  ASSUME RedisAssumption, RedisInv, Expire
  PROVE  RedisInv'
<1> PICK k : k = caller.at
  OBVIOUS
<1>1. /\ caller.pc = "expire" /\ caller.kind = "import" /\ dumped' = dumped /\ others' = others
      /\ RedisTypeOK /\ k \in Keys /\ LastKey \in Nat /\ dumped[k].type \in {"string", "list"}
      /\ dumped \in [Keys -> RedisValue \cup Unread \cup {Gone}] /\ key \in [Keys -> RedisValue \cup {Gone}]
      /\ others \/ key[k] = [dumped[k] EXCEPT !.ttl = "never"]
      /\ caller' = [caller EXCEPT !.pc = "delete", !.at = @ + 1, !.value = {}]
  BY DEF Expire, RedisInv, Steady, Progress, Importing, RedisTypeOK, RedisAssumption
<1>2. /\ caller' \in RedisCall /\ caller'.pc = "delete" /\ caller'.kind = "import"
      /\ caller'.at = k + 1 /\ caller'.before = caller.before
  <2>1. k + 1 \in 1..LastKey + 1
    BY <1>1 DEF Keys
  <2> QED BY <1>1, <2>1 DEF RedisTypeOK, RedisCall
<1>3. /\ dumped[k] \in RedisValue /\ dumped[k] # Gone
      /\ dumped[k] = [type |-> dumped[k].type, members |-> dumped[k].members, ttl |-> dumped[k].ttl]
      /\ dumped[k].ttl \in Expiry
  BY <1>1, RowIsValue, ValueShape DEF Gone
<1>4. PICK n : n = [type |-> dumped[k].type, members |-> dumped[k].members, ttl |-> "never"]
  OBVIOUS
<1>5. n = [dumped[k] EXCEPT !.ttl = "never"] /\ n \in RedisValue
  BY <1>3, <1>4, WithTtl DEF Expiry
<1>6. CASE key[k] # Gone /\ Expires(dumped[k].ttl) = "later" /\ key' = [key EXCEPT ![k].ttl = "later"]
  <2>1. PICK v : v = [key[k] EXCEPT !.ttl = "later"]
    OBVIOUS
  <2>2. v \in RedisValue /\ v = [type |-> key[k].type, members |-> key[k].members, ttl |-> "later"]
    <3>1. key[k] \in RedisValue
      BY <1>1, <1>6
    <3> QED BY <2>1, <3>1, WithTtl DEF Expiry
  <2>3. key' = [key EXCEPT ![k] = v]
    BY <1>6, <2>1
  <2>4. /\ key' \in [Keys -> RedisValue \cup {Gone}] /\ key'[k] = v
        /\ \A j \in Keys \ {k} : key'[j] = key[j]
    BY <1>1, <2>2, <2>3, KeySet
  <2>5. dumped[k].ttl = "later"
    BY <1>6 DEF Expires
  <2>6. others \/ v = dumped[k]
    BY <1>1, <1>3, <1>4, <1>5, <2>2, <2>5
  <2>7. others \/ key'[k] = Restored(caller, k)
    BY <1>3, <2>4, <2>5, <2>6 DEF Restored
  <2> QED BY <1>1, <1>2, <2>4, <2>7, NextRow
<1>7. CASE ~ (key[k] # Gone /\ Expires(dumped[k].ttl) = "later") /\ key' = key
  <2>1. others \/ key[k] = n
    BY <1>1, <1>5
  <2>2. others \/ dumped[k].ttl # "later"
    <3>1. n # Gone
      BY <1>1, <1>4 DEF Gone
    <3>2. others \/ Expires(dumped[k].ttl) # "later"
      BY <1>7, <2>1, <3>1
    <3> QED BY <3>2 DEF Expires
  <2>3. others \/ key[k] = Restored(caller, k)
    BY <1>3, <1>4, <1>5, <2>1, <2>2 DEF Restored, Expiry
  <2> QED BY <1>1, <1>2, <1>7, <2>3, NextRow
<1> QED BY <1>6, <1>7 DEF Expire
----------------------------------------------------------------------------
(* The connection breaks; the next request. *)

LEMMA BreaksHolds ==
  ASSUME RedisAssumption, RedisInv, Breaks
  PROVE  RedisInv'
<1> PICK k : k = caller.at
  OBVIOUS
<1>1. /\ caller.pc \notin {"idle", "end"} /\ CallEnds("error") /\ key' = key /\ dumped' = dumped
      /\ others' = others /\ RedisTypeOK
  BY DEF Breaks, RedisInv
<1>2. /\ caller' \in RedisCall /\ caller'.pc = "end" /\ caller'.answer = "error"
      /\ caller'.kind = caller.kind /\ caller'.at = k /\ caller'.value = caller.value
      /\ caller'.before = caller.before
  BY <1>1, EndsWith
<1>3. RedisTypeOK'
  BY <1>1, <1>2 DEF RedisTypeOK
<1>4. Steady(caller)'
  BY <1>1, <1>2 DEF RedisInv, Steady
<1>5. others' \/ Progress(caller)'
  BY <1>1, <1>2 DEF RedisInv, Progress, Replacing, Exporting, Importing
<1>6. CASE caller.kind \in {"set", "back"} /\ ~ others
  <2>1. /\ k \in Keys /\ caller.pc \in {"type", "delete", "fill", "log"} /\ Replacing(caller)
        /\ caller.before \in [Keys -> RedisValue \cup {Gone}]
    BY <1>1, <1>6, CallTyped DEF RedisInv, Steady, Progress, Pcs
  <2>2. (\A j \in Keys \ {k} : key[j] = caller.before[j]) /\ key[k] \in {caller.before[k], Gone, Sent}
    BY <2>1 DEF Replacing, Written
  <2>3. ReplacedAsSaid'
    BY <1>1, <1>2, <2>2 DEF ReplacedAsSaid, Sent
  <2> QED BY <1>2, <1>3, <1>4, <1>5, <2>3 DEF RedisInv, RedisHonest, ExportIsWhole, ImportRestores
<1>7. CASE ~ (caller.kind \in {"set", "back"} /\ ~ others)
  BY <1>1, <1>2, <1>3, <1>4, <1>5, <1>7, NothingDone
<1> QED BY <1>6, <1>7

LEMMA NextRequestHolds ==
  ASSUME RedisAssumption, RedisInv, NextRequest
  PROVE  RedisInv'
<1>1. caller' = NoCall /\ others' = FALSE /\ key' = key /\ dumped' = dumped
  BY DEF NextRequest
<1>2. NoCall \in RedisCall /\ NoCall.pc = "idle" /\ NoCall.kind = "set" /\ NoCall.at = 1
  BY DEF NoCall, RedisCall, RedisAssumption
<1>3. RedisTypeOK'
  BY <1>1, <1>2 DEF RedisInv, RedisTypeOK
<1>4. Steady(caller)' /\ Progress(caller)'
  BY <1>1, <1>2 DEF Steady, Progress, Replacing, Keys, RedisAssumption
<1> QED BY <1>1, <1>2, <1>3, <1>4, Quiet
----------------------------------------------------------------------------
LEMMA RedisInvStep ==
  ASSUME RedisAssumption, RedisInv, [RedisNext]_redisVars
  PROVE  RedisInv'
<1>1. CASE UNCHANGED redisVars
  BY <1>1, RedisStutters
<1>2. CASE ShowAndEdit \/ StoreBack \/ OneCommand \/ AskType \/ DeleteKeyFirst \/ Fill \/ LogWrite
  BY <1>2, ShowAndEditHolds, StoreBackHolds, OneCommandHolds, AskTypeHolds, DeleteKeyFirstHolds, FillHolds,
     LogWriteHolds
<1>3. CASE StartExport \/ AskSize \/ ReadKey \/ StartImport \/ ImportRow \/ Expire
  BY <1>3, StartExportHolds, AskSizeHolds, ReadKeyHolds, StartImportHolds, ImportRowHolds, ExpireHolds
<1>4. CASE OtherClient \/ Breaks \/ NextRequest
  BY <1>4, OtherClientHolds, BreaksHolds, NextRequestHolds
<1> QED BY <1>1, <1>2, <1>3, <1>4 DEF RedisNext

LEMMA RedisInvAlways == RedisSpec => []RedisInv
<1>1. RedisInit => RedisInv
  BY RedisInvInit, RedisAssumption
<1>2. RedisInv /\ [RedisNext]_redisVars => RedisInv'
  BY RedisInvStep, RedisAssumption
<1> QED BY <1>1, <1>2, PTL DEF RedisSpec

\* The server's keys, the request and the exported file keep their types, whatever other
\* clients do between the commands of asset_redis.
THEOREM RedisTypeCorrect == RedisSpec => []RedisTypeOK
<1>1. RedisInv => RedisTypeOK
  BY DEF RedisInv
<1> QED BY <1>1, RedisInvAlways, PTL

\* However long collections are and wherever the connection breaks: what asset_redis
\* answers of a replaced value is so, asset_export cuts no collection, and asset_import
\* restores what was exported.
THEOREM RedisSound == RedisSpec => []RedisHonest
<1>1. RedisInv => RedisHonest
  BY DEF RedisInv
<1> QED BY <1>1, RedisInvAlways, PTL
------------------------------------------------------------------------------
(***************************************************************************)
(* The pool of connections: SshPool.  Every open client is somewhere: in   *)
(* one place of one pool, or with one request, which uses it or is about   *)
(* to close it.  The proof follows each step as a move between these       *)
(* places (ExclusiveUse), with the fact that what a place holds is open,   *)
(* so that a newly opened client is in none of them (HeldAreOpen,          *)
(* IdleAreOpen), and that the login of a client is the one the place       *)
(* stands for (LoginOf, UsesOwnLogin).                                     *)
(***************************************************************************)

BorrowerType == [pc : BorrowerPC, kind : Purposes, host : HostLogins,
                 tried : 0..Len(Credentials), client : Clients \cup {NoClient},
                 closing : SUBSET Clients]

\* What a request has in hand at each place of its path.
AtPlace(b) ==
    /\ borrower[b].pc \in {"idle", "take", "connect"} =>
         borrower[b].client = NoClient /\ borrower[b].closing = {}
    /\ borrower[b].pc \in {"persist", "channel", "use"} =>
         borrower[b].client # NoClient /\ borrower[b].closing = {}
    /\ borrower[b].pc = "trim" => borrower[b].client = NoClient
    /\ borrower[b].pc \in {"take", "sweep", "trim"} => borrower[b].kind \in Pooled
    /\ borrower[b].pc \in {"take", "sweep"} => borrower[b].tried = 0
    /\ borrower[b].pc \in {"connect", "persist"} =>
         borrower[b].tried + 1 \in 1..Len(Candidates(b))
    /\ borrower[b].client \notin borrower[b].closing

\* The login of the client a request has, before it uses it.
LoginOf(b) ==
    /\ borrower[b].pc = "sweep" /\ borrower[b].client # NoClient =>
         client[borrower[b].client].login = borrower[b].host
    /\ borrower[b].pc = "persist" =>
         client[borrower[b].client].login = Candidates(b)[borrower[b].tried + 1]

HeldAreOpen == \A b \in Borrowers : \A c \in Held(b) : client[c].open
IdleAreOpen == \A c \in Idling : client[c].open

PoolInv ==
    /\ PoolTypeOK /\ HostLogins # {}
    /\ \A b \in Borrowers : AtPlace(b) /\ LoginOf(b)
    /\ HeldAreOpen /\ IdleAreOpen
    /\ ExclusiveUse /\ UsesOwnLogin /\ NoConnectionLost /\ IdleWithinLimit
----------------------------------------------------------------------------
(* What OnlyIn returns: the members in S, each once for each place it had, in order. *)

\* Induction on the natural numbers, for a set instead of a predicate.
LEMMA Induction ==
  ASSUME NEW S \in SUBSET Nat, 0 \in S, \A n \in S : n + 1 \in S
  PROVE  S = Nat
<1> SUFFICES ASSUME S # Nat PROVE FALSE
  OBVIOUS
<1>1. IsWellFoundedOn(OpToRel(<, Nat), Nat)
  BY NatLessThanWellFounded
<1>2. Nat \ S \subseteq Nat /\ Nat \ S # {}
  OBVIOUS
<1>3. \E n \in Nat \ S : \A m \in Nat \ S : ~ (<<m, n>> \in OpToRel(<, Nat))
  BY <1>1, <1>2, WFMin, Zenon
<1>4. PICK n \in Nat \ S : \A m \in Nat \ S : ~ (<<m, n>> \in OpToRel(<, Nat))
  BY <1>3
<1>5. \A m \in Nat \ S : ~ (m < n)
  BY <1>4 DEF OpToRel
<1>6. n # 0 /\ n - 1 \in Nat /\ n - 1 < n
  BY <1>2
<1>7. n - 1 \in S /\ (n - 1) + 1 = n
  BY <1>5, <1>6
<1> QED BY <1>7

\* The recursive function of OnlyIn exists: its values up to n are a function of their own.
Filters(s, S, n, f) ==
    f = [i \in 0..n |-> IF i = 0 THEN <<>>
                        ELSE IF s[i] \in S THEN Append(f[i - 1], s[i]) ELSE f[i - 1]]

LEMMA FilterExists ==
  ASSUME NEW s, NEW S, NEW n \in Nat
  PROVE  \E f : Filters(s, S, n, f)
<1> DEFINE D == {m \in Nat : \E f : Filters(s, S, m, f)}
<1>1. 0 \in D
  <2> DEFINE f == [i \in 0..0 |-> <<>>]
  <2>1. Filters(s, S, 0, f) BY DEF Filters
  <2> QED BY <2>1
<1>2. ASSUME NEW m \in D PROVE m + 1 \in D
  <2>1. m \in Nat OBVIOUS
  <2>2. PICK f : Filters(s, S, m, f) OBVIOUS
  <2> DEFINE g == [i \in 0..(m + 1) |-> IF i <= m THEN f[i]
                      ELSE IF s[m + 1] \in S THEN Append(f[m], s[m + 1]) ELSE f[m]]
  <2>3. \A i \in 0..m : f[i] = IF i = 0 THEN <<>>
                               ELSE IF s[i] \in S THEN Append(f[i - 1], s[i]) ELSE f[i - 1]
    BY <2>2 DEF Filters
  <2>4. \A i \in 0..m : g[i] = f[i] BY <2>1
  <2>5. g[m + 1] = IF s[m + 1] \in S THEN Append(f[m], s[m + 1]) ELSE f[m] BY <2>1
  <2>6. ASSUME NEW i \in 0..(m + 1)
        PROVE  g[i] = IF i = 0 THEN <<>>
                      ELSE IF s[i] \in S THEN Append(g[i - 1], s[i]) ELSE g[i - 1]
    <3>1. CASE i = m + 1
      <4>1. i # 0 /\ i - 1 = m /\ m \in 0..m BY <3>1, <2>1
      <4>2. g[i - 1] = f[m] BY <4>1, <2>4
      <4> QED BY <4>1, <4>2, <3>1, <2>5
    <3>2. CASE i = 0
      <4>1. 0 \in 0..m BY <2>1
      <4> QED BY <4>1, <3>2, <2>3, <2>4
    <3>3. CASE i # m + 1 /\ i # 0
      <4>1. i \in 0..m /\ i - 1 \in 0..m BY <3>3, <2>1
      <4>2. g[i] = f[i] /\ g[i - 1] = f[i - 1] BY <4>1, <2>4
      <4> HIDE DEF g
      <4> QED BY <4>1, <4>2, <3>3, <2>3
    <3> QED BY <3>1, <3>2, <3>3
  <2>7. g = [i \in 0..(m + 1) |-> IF i = 0 THEN <<>>
               ELSE IF s[i] \in S THEN Append(g[i - 1], s[i]) ELSE g[i - 1]]
    <3> DEFINE h == [i \in 0..(m + 1) |-> IF i = 0 THEN <<>>
               ELSE IF s[i] \in S THEN Append(g[i - 1], s[i]) ELSE g[i - 1]]
    <3>1. \A i \in 0..(m + 1) : g[i] = h[i] BY <2>6
    <3>2. DOMAIN g = 0..(m + 1) /\ DOMAIN h = 0..(m + 1) OBVIOUS
    <3>3. g = [i \in 0..(m + 1) |-> g[i]] /\ h = [i \in 0..(m + 1) |-> h[i]] OBVIOUS
    <3> QED BY <3>1, <3>2, <3>3
  <2>8. Filters(s, S, m + 1, g) BY <2>7 DEF Filters
  <2> QED BY <2>1, <2>8
<1>3. D = Nat
  <2> HIDE DEF D
  <2>1. D \in SUBSET Nat BY DEF D
  <2> QED BY <1>1, <1>2, <2>1, Induction
<1> QED BY <1>3

\* So its equations may be used.
LEMMA OnlyInEquations ==
  ASSUME NEW s, Len(s) \in Nat, NEW S
  PROVE  \E f : /\ f[0] = <<>>
                /\ \A n \in 0..(Len(s) - 1) :
                     f[n + 1] = IF s[n + 1] \in S THEN Append(f[n], s[n + 1]) ELSE f[n]
                /\ OnlyIn(s, S) = f[Len(s)]
<1> DEFINE f == CHOOSE u : Filters(s, S, Len(s), u)
<1>1. Filters(s, S, Len(s), f) BY FilterExists
<1>2. OnlyIn(s, S) = f[Len(s)] BY DEF OnlyIn, Filters
<1> HIDE DEF f
<1>3. f[0] = <<>> BY <1>1 DEF Filters
<1>4. ASSUME NEW n \in 0..(Len(s) - 1)
      PROVE  f[n + 1] = IF s[n + 1] \in S THEN Append(f[n], s[n + 1]) ELSE f[n]
  <2>1. n + 1 \in 0..Len(s) /\ n + 1 # 0 /\ (n + 1) - 1 = n OBVIOUS
  <2> QED BY <2>1, <1>1 DEF Filters
<1> QED BY <1>2, <1>3, <1>4

\* Where the members kept stood: places of s, in order, whose members are in S; no
\* other member is in S.
Selects(r, s, S, n, g) ==
    /\ g \in [1..Len(r) -> 1..n]
    /\ \A j \in 1..Len(r) : r[j] = s[g[j]] /\ r[j] \in S
    /\ \A i, j \in 1..Len(r) : i < j => g[i] < g[j]
    /\ \A i \in 1..n : s[i] \in S => \E j \in 1..Len(r) : g[j] = i

LEMMA OnlyInPlaces ==
  ASSUME NEW E, NEW s \in Seq(E), NEW S
  PROVE  /\ OnlyIn(s, S) \in Seq(E) /\ Len(OnlyIn(s, S)) <= Len(s)
         /\ \E g : Selects(OnlyIn(s, S), s, S, Len(s), g)
<1>1. Len(s) \in Nat /\ \A i \in 1..Len(s) : s[i] \in E OBVIOUS
<1>2. PICK f : /\ f[0] = <<>>
               /\ \A n \in 0..(Len(s) - 1) :
                    f[n + 1] = IF s[n + 1] \in S THEN Append(f[n], s[n + 1]) ELSE f[n]
               /\ OnlyIn(s, S) = f[Len(s)]
  BY <1>1, OnlyInEquations
<1> DEFINE Good(n) == f[n] \in Seq(E) /\ Len(f[n]) <= n /\ \E g : Selects(f[n], s, S, n, g)
           D == {n \in Nat : n <= Len(s) => Good(n)}
<1>3. 0 \in D
  <2> DEFINE g == [j \in 1..0 |-> 1]
  <2>1. f[0] = <<>> /\ f[0] \in Seq(E) /\ Len(f[0]) = 0 BY <1>2
  <2>2. Selects(f[0], s, S, 0, g) BY <2>1 DEF Selects
  <2>3. Good(0)
    <3> HIDE DEF g
    <3> QED BY <2>1, <2>2
  <2> QED BY <2>3
<1>4. ASSUME NEW n \in D PROVE n + 1 \in D
  <2>1. SUFFICES ASSUME n + 1 <= Len(s) PROVE Good(n + 1) OBVIOUS
  <2>2. n \in 0..(Len(s) - 1) /\ n + 1 \in 1..Len(s) BY <1>1, <2>1
  <2>3. f[n] \in Seq(E) /\ Len(f[n]) <= n /\ Len(f[n]) \in Nat BY <2>2
  <2>4. PICK g : Selects(f[n], s, S, n, g) BY <2>2
  <2>5. CASE s[n + 1] \in S
    <3> DEFINE r == Append(f[n], s[n + 1])
               m == Len(f[n])
               h == [j \in 1..(m + 1) |-> IF j = m + 1 THEN n + 1 ELSE g[j]]
    <3>1. f[n + 1] = r BY <2>2, <2>5, <1>2
    <3>2. /\ r \in Seq(E) /\ Len(r) = m + 1 /\ r[m + 1] = s[n + 1]
          /\ \A j \in 1..m : r[j] = f[n][j]
      BY <2>2, <2>3, <1>1
    <3>3. m \in Nat /\ g \in [1..m -> 1..n] BY <2>3, <2>4 DEF Selects
    <3> HIDE DEF r, m
    <3>4. h[m + 1] = n + 1 /\ \A j \in 1..m : h[j] = g[j] /\ h[j] \in 1..n BY <3>3
    <3>5. h \in [1..(m + 1) -> 1..(n + 1)] BY <3>3, <2>2
    <3> HIDE DEF h
    <3>6. \A j \in 1..(m + 1) : r[j] = s[h[j]] /\ r[j] \in S
      <4>1. \A j \in 1..m : r[j] = s[h[j]] /\ r[j] \in S BY <3>2, <3>4, <2>4 DEF Selects, m
      <4> QED BY <4>1, <3>2, <3>3, <3>4, <2>5
    <3>7. \A i, j \in 1..(m + 1) : i < j => h[i] < h[j]
      <4>1. \A i, j \in 1..m : i < j => h[i] < h[j] BY <3>4, <2>4 DEF Selects, m
      <4>2. \A i \in 1..m : h[i] < h[m + 1] BY <3>4, <2>2
      <4>3. \A i, j \in 1..(m + 1) : i < j => i \in 1..m /\ (j \in 1..m \/ j = m + 1) BY <3>3
      <4> QED BY <4>1, <4>2, <4>3
    <3>8. \A i \in 1..(n + 1) : s[i] \in S => \E j \in 1..(m + 1) : h[j] = i
      <4>1. \A i \in 1..n : s[i] \in S => \E j \in 1..m : h[j] = i
        BY <3>4, <2>4 DEF Selects, m
      <4> QED BY <4>1, <3>3, <3>4, <2>2
    <3>9. Selects(r, s, S, n + 1, h) BY <3>2, <3>5, <3>6, <3>7, <3>8 DEF Selects
    <3> QED BY <3>1, <3>2, <3>9, <2>2, <2>3 DEF m
  <2>6. CASE s[n + 1] \notin S
    <3>1. f[n + 1] = f[n] BY <2>2, <2>6, <1>2
    <3>2. g \in [1..Len(f[n]) -> 1..(n + 1)] BY <2>3, <2>4, <2>2 DEF Selects
    <3>3. \A i \in 1..(n + 1) : s[i] \in S => i \in 1..n BY <2>2, <2>6
    <3>4. Selects(f[n], s, S, n + 1, g) BY <3>2, <3>3, <2>4 DEF Selects
    <3> QED BY <3>1, <3>4, <2>2, <2>3
  <2> QED BY <2>5, <2>6
<1>5. D = Nat
  <2> HIDE DEF D
  <2>1. D \in SUBSET Nat BY DEF D
  <2> QED BY <1>3, <1>4, <2>1, Induction
<1>6. Good(Len(s)) BY <1>1, <1>5
<1> QED BY <1>2, <1>6
----------------------------------------------------------------------------
(* Queues of a pool. *)

Distinct(s) == \A i, j \in DOMAIN s : s[i].client = s[j].client => i = j

LEMMA Clean ==
  ASSUME NEW s \in Seq(Entry)
  PROVE  ClientsOf(s) \subseteq Clients
<1>1. \A i \in DOMAIN s : s[i] \in Entry OBVIOUS
<1>2. \A e \in Entry : e.client \in Clients BY DEF Entry
<1> QED BY <1>1, <1>2 DEF ClientsOf

\* What is kept of a queue stood in it, once.
LEMMA KeptOf ==
  ASSUME NEW s \in Seq(Entry), NEW S
  PROVE  /\ OnlyIn(s, S) \in Seq(Entry) /\ Len(OnlyIn(s, S)) <= Len(s)
         /\ ClientsOf(OnlyIn(s, S)) \subseteq ClientsOf(s)
         /\ Distinct(s) => Distinct(OnlyIn(s, S))
<1> DEFINE r == OnlyIn(s, S)
<1>1. r \in Seq(Entry) /\ Len(r) <= Len(s) /\ \E g : Selects(r, s, S, Len(s), g)
  BY OnlyInPlaces
<1> HIDE DEF r
<1>2. PICK g : Selects(r, s, S, Len(s), g) BY <1>1
<1>3. /\ DOMAIN r = 1..Len(r) /\ DOMAIN s = 1..Len(s) /\ Len(r) \in Nat /\ Len(s) \in Nat
      /\ \A j \in 1..Len(r) : g[j] \in 1..Len(s) /\ r[j] = s[g[j]]
  BY <1>1, <1>2 DEF Selects
<1>4. ClientsOf(r) \subseteq ClientsOf(s) BY <1>3 DEF ClientsOf
<1>5. ASSUME Distinct(s) PROVE Distinct(r)
  <2>1. SUFFICES ASSUME NEW i \in 1..Len(r), NEW j \in 1..Len(r), r[i].client = r[j].client
                 PROVE  i = j
    BY <1>3 DEF Distinct
  <2>2. g[i] = g[j] BY <1>3, <1>5, <2>1 DEF Distinct
  <2>3. ~(g[i] < g[j]) /\ ~(g[j] < g[i]) BY <1>3, <2>2
  <2>4. ~(i < j) /\ ~(j < i) BY <2>3, <1>2 DEF Selects
  <2> QED BY <2>4, <1>3
<1> QED BY <1>1, <1>4, <1>5 DEF r

\* A queue cut in two.
LEMMA Cut ==
  ASSUME NEW s \in Seq(Entry), NEW n \in 0..Len(s), Distinct(s)
  PROVE  /\ SubSeq(s, 1, n) \in Seq(Entry) /\ Len(SubSeq(s, 1, n)) = n
         /\ SubSeq(s, n + 1, Len(s)) \in Seq(Entry) /\ Len(SubSeq(s, n + 1, Len(s))) = Len(s) - n
         /\ Distinct(SubSeq(s, 1, n)) /\ Distinct(SubSeq(s, n + 1, Len(s)))
         /\ ClientsOf(s) = ClientsOf(SubSeq(s, 1, n)) \cup ClientsOf(SubSeq(s, n + 1, Len(s)))
         /\ ClientsOf(SubSeq(s, 1, n)) \cap ClientsOf(SubSeq(s, n + 1, Len(s))) = {}
<1> DEFINE m == Len(s)
           u == SubSeq(s, 1, n)
           v == SubSeq(s, n + 1, m)
<1>1. m \in Nat /\ n \in Nat /\ n <= m /\ DOMAIN s = 1..m OBVIOUS
<1>2. u \in Seq(Entry) /\ Len(u) = n /\ DOMAIN u = 1..n /\ \A i \in 1..n : u[i] = s[i]
  BY <1>1
<1>3. /\ v \in Seq(Entry) /\ Len(v) = m - n /\ DOMAIN v = 1..(m - n)
      /\ \A i \in 1..(m - n) : v[i] = s[n + i]
  <2>1. n + 1 \in Nat /\ n + 1 >= 1 /\ m - n \in Nat /\ (m - (n + 1)) + 1 = m - n BY <1>1
  <2>2. \A i \in (n + 1)..m : s[i] \in Entry BY <1>1
  <2>3. v = [i \in 1..(m - n) |-> s[i + n]]
    <3>1. v = [i \in 1..((m - (n + 1)) + 1) |-> s[i + (n + 1) - 1]] OBVIOUS
    <3>2. \A i \in 1..(m - n) : i + (n + 1) - 1 = i + n BY <1>1
    <3> QED BY <3>1, <3>2, <2>1
  <2>4. \A i \in 1..(m - n) : i + n \in (n + 1)..m /\ i + n = n + i BY <1>1
  <2>5. DOMAIN v = 1..(m - n) /\ \A i \in 1..(m - n) : v[i] = s[n + i] /\ v[i] \in Entry
    BY <2>2, <2>3, <2>4
  <2>6. v \in Seq(Entry) /\ Len(v) = m - n
    <3>1. v \in [1..(m - n) -> Entry] BY <2>2, <2>3, <2>4
    <3>2. \A p \in Nat : v \in [1..p -> Entry] => v \in Seq(Entry) /\ Len(v) = p
      <4> HIDE DEF v
      <4> QED OBVIOUS
    <3> QED BY <3>1, <3>2, <2>1
  <2> QED BY <2>5, <2>6
<1> HIDE DEF m, u, v
<1>4. Distinct(u) BY <1>1, <1>2 DEF Distinct
<1>5. Distinct(v)
  <2>1. \A i \in 1..(m - n) : n + i \in 1..m BY <1>1
  <2>2. \A i, j \in 1..(m - n) : n + i = n + j => i = j BY <1>1
  <2>3. SUFFICES ASSUME NEW i \in 1..(m - n), NEW j \in 1..(m - n), v[i].client = v[j].client
                 PROVE  i = j
    BY <1>3 DEF Distinct
  <2>4. s[n + i].client = s[n + j].client BY <1>3, <2>3
  <2>5. n + i = n + j BY <1>1, <2>1, <2>4 DEF Distinct
  <2> QED BY <2>2, <2>5
<1>6. ClientsOf(s) = ClientsOf(u) \cup ClientsOf(v)
  <2>1. \A i \in 1..m : i \in 1..n \/ (i - n \in 1..(m - n) /\ n + (i - n) = i) BY <1>1
  <2>2. \A i \in 1..(m - n) : n + i \in 1..m BY <1>1
  <2>3. \A i \in 1..n : i \in 1..m BY <1>1
  <2>4. ClientsOf(s) \subseteq ClientsOf(u) \cup ClientsOf(v)
    <3>1. SUFFICES ASSUME NEW i \in 1..m PROVE s[i].client \in ClientsOf(u) \cup ClientsOf(v)
      BY <1>1 DEF ClientsOf
    <3>2. CASE i \in 1..n BY <3>2, <1>2 DEF ClientsOf
    <3>3. CASE i - n \in 1..(m - n) /\ n + (i - n) = i
      <4>1. v[i - n] = s[i] BY <3>3, <1>3
      <4> QED BY <4>1, <3>3, <1>3 DEF ClientsOf
    <3> QED BY <3>2, <3>3, <2>1
  <2>5. ClientsOf(u) \subseteq ClientsOf(s) BY <1>1, <1>2, <2>3 DEF ClientsOf
  <2>6. ClientsOf(v) \subseteq ClientsOf(s) BY <1>1, <1>3, <2>2 DEF ClientsOf
  <2> QED BY <2>4, <2>5, <2>6
<1>7. ClientsOf(u) \cap ClientsOf(v) = {}
  <2>1. SUFFICES ASSUME NEW i \in 1..n, NEW j \in 1..(m - n), u[i].client = v[j].client
                 PROVE  FALSE
    BY <1>2, <1>3 DEF ClientsOf
  <2>2. i \in 1..m /\ n + j \in 1..m /\ i # n + j BY <1>1
  <2>3. s[i].client = s[n + j].client BY <1>2, <1>3, <2>1
  <2> QED BY <2>2, <2>3, <1>1 DEF Distinct
<1> QED BY <1>2, <1>3, <1>4, <1>5, <1>6, <1>7 DEF m, u, v

\* One more client at the end.
LEMMA OneMore ==
  ASSUME NEW s \in Seq(Entry), NEW e \in Entry, Distinct(s), e.client \notin ClientsOf(s)
  PROVE  /\ Append(s, e) \in Seq(Entry) /\ Len(Append(s, e)) = Len(s) + 1
         /\ Distinct(Append(s, e)) /\ ClientsOf(Append(s, e)) = ClientsOf(s) \cup {e.client}
<1> DEFINE m == Len(s)
           r == Append(s, e)
<1>1. /\ m \in Nat /\ r \in Seq(Entry) /\ Len(r) = m + 1 /\ DOMAIN s = 1..m
      /\ DOMAIN r = 1..(m + 1) /\ r[m + 1] = e /\ \A i \in 1..m : r[i] = s[i]
  OBVIOUS
<1> HIDE DEF m, r
<1>2. \A i \in 1..(m + 1) : i \in 1..m \/ i = m + 1 BY <1>1
<1>3. \A i \in 1..m : s[i].client # e.client BY <1>1 DEF ClientsOf
<1>4. Distinct(r) BY <1>1, <1>2, <1>3 DEF Distinct
<1>5. ClientsOf(r) = ClientsOf(s) \cup {e.client}
  <2>1. ClientsOf(r) \subseteq ClientsOf(s) \cup {e.client} BY <1>1, <1>2 DEF ClientsOf
  <2>2. ClientsOf(s) \subseteq ClientsOf(r)
    <3>1. \A i \in 1..m : i \in 1..(m + 1) BY <1>1
    <3> QED BY <1>1, <3>1 DEF ClientsOf
  <2>3. e.client \in ClientsOf(r)
    <3>1. m + 1 \in DOMAIN r BY <1>1
    <3> QED BY <1>1, <3>1 DEF ClientsOf
  <2> QED BY <2>1, <2>2, <2>3
<1> QED BY <1>1, <1>4, <1>5 DEF m, r

\* The last one taken.
LEMMA LastTaken ==
  ASSUME NEW s \in Seq(Entry), s # <<>>, Distinct(s)
  PROVE  /\ SubSeq(s, 1, Len(s) - 1) \in Seq(Entry)
         /\ Len(SubSeq(s, 1, Len(s) - 1)) <= Len(s) /\ Distinct(SubSeq(s, 1, Len(s) - 1))
         /\ s[Len(s)].client \in ClientsOf(s)
         /\ ClientsOf(SubSeq(s, 1, Len(s) - 1)) = ClientsOf(s) \ {s[Len(s)].client}
<1> DEFINE n == Len(s) - 1
           v == SubSeq(s, n + 1, Len(s))
<1>1. n \in 0..Len(s) /\ Len(s) \in Nat /\ Len(s) # 0 /\ n + 1 = Len(s) OBVIOUS
<1>2. Len(v) = 1 /\ v[1] = s[Len(s)] /\ DOMAIN v = {1} BY <1>1
<1>3. ClientsOf(v) = {s[Len(s)].client} BY <1>2 DEF ClientsOf
<1>4. /\ SubSeq(s, 1, n) \in Seq(Entry) /\ Len(SubSeq(s, 1, n)) = n /\ Distinct(SubSeq(s, 1, n))
      /\ ClientsOf(s) = ClientsOf(SubSeq(s, 1, n)) \cup ClientsOf(v)
      /\ ClientsOf(SubSeq(s, 1, n)) \cap ClientsOf(v) = {}
  BY <1>1, Cut
<1> QED BY <1>1, <1>3, <1>4
----------------------------------------------------------------------------
(* How a step moves clients. *)

LEMMA TypeOfBorrower ==
  ASSUME PoolTypeOK, NEW b \in Borrowers
  PROVE  /\ borrower[b] \in BorrowerType /\ borrower[b].closing \subseteq Clients
         /\ borrower[b].client \in Clients \cup {NoClient} /\ borrower[b].host \in HostLogins
         /\ borrower[b].tried \in Nat /\ borrower[b].kind \in Purposes
         /\ Held(b) \subseteq Clients
<1>1. borrower[b] \in BorrowerType BY DEF PoolTypeOK, BorrowerType
<1> QED BY <1>1, PoolAssumption DEF BorrowerType, Held

LEMMA NoBorrowType ==
  ASSUME HostLogins # {}
  PROVE  /\ NoBorrow \in BorrowerType /\ NoBorrow.pc = "idle" /\ NoBorrow.client = NoClient
         /\ NoBorrow.closing = {} /\ NoBorrow.tried = 0
<1>1. (CHOOSE l \in HostLogins : TRUE) \in HostLogins OBVIOUS
<1>2. 0 \in 0..Len(Credentials) BY PoolAssumption
<1> QED BY <1>1, <1>2 DEF NoBorrow, BorrowerType, BorrowerPC, Purposes, Pooled

LEMMA NoConnectionType ==
  ASSUME HostLogins # {}
  PROVE  NoConnection \in ClientRow /\ ~NoConnection.open
<1>1. (CHOOSE l \in HostLogins : TRUE) \in HostLogins OBVIOUS
<1> QED BY <1>1 DEF NoConnection, ClientRow

\* The login of the host comes first, and there is one more at most for each credential.
Tries(h) == <<h>> \o OnlyIn(Credentials, HostLogins \ {h})

LEMMA TriesOf ==
  ASSUME NEW h \in HostLogins
  PROVE  /\ Tries(h) \in Seq(HostLogins) /\ Tries(h)[1] = h
         /\ Len(Tries(h)) \in 1..(Len(Credentials) + 1)
<1> DEFINE r == OnlyIn(Credentials, HostLogins \ {h})
<1>1. r \in Seq(HostLogins) /\ Len(r) <= Len(Credentials) BY PoolAssumption, OnlyInPlaces
<1> HIDE DEF r
<1>2. <<h>> \o r \in Seq(HostLogins) /\ (<<h>> \o r)[1] = h /\ Len(<<h>> \o r) = 1 + Len(r)
  BY <1>1
<1> QED BY <1>1, <1>2, PoolAssumption DEF Tries, r

LEMMA CandidatesOf ==
  ASSUME PoolTypeOK, NEW b \in Borrowers
  PROVE  /\ Candidates(b) = Tries(borrower[b].host)
         /\ Candidates(b) \in Seq(HostLogins) /\ Candidates(b)[1] = borrower[b].host
         /\ Len(Candidates(b)) \in 1..(Len(Credentials) + 1)
<1>1. Candidates(b) = Tries(borrower[b].host) BY DEF Candidates, Tries
<1> QED BY <1>1, TypeOfBorrower, TriesOf

\* The first, which is tried when nothing was tried yet.
LEMMA FirstTry ==
  ASSUME PoolTypeOK, NEW b \in Borrowers, borrower[b].tried = 0
  PROVE  /\ borrower[b].tried + 1 \in 1..Len(Candidates(b))
         /\ Candidates(b)[borrower[b].tried + 1] = borrower[b].host
BY CandidatesOf

LEMMA Idles ==
  ASSUME NEW c
  PROVE  c \in Idling <=> \E k \in Pooled, l \in HostLogins : c \in ClientsOf(pool[k][l])
BY DEF Idling

LEMMA IdlesNext ==
  ASSUME NEW c
  PROVE  c \in Idling' <=> \E k \in Pooled, l \in HostLogins : c \in ClientsOf(pool'[k][l])
<1>1. Idling' = UNION {ClientsOf(pool'[k][l]) : k \in Pooled, l \in HostLogins}
  BY DEF Idling, ClientsOf
<1> QED BY <1>1

\* A client closed is not open, the others stay what they are.
LEMMA ClientsClosed ==
  ASSUME PoolTypeOK, HostLogins # {}, NEW S, client' = Close(S)
  PROVE  /\ client' \in [Clients -> ClientRow]
         /\ \A c \in Clients \cap S : ~client'[c].open
         /\ \A c \in Clients \ S : client'[c] = client[c]
BY NoConnectionType DEF Close, PoolTypeOK

\* A request that leaves the pools alone.
LEMMA RequestMoves ==
  ASSUME PoolInv, PoolTypeOK', NEW b \in Borrowers, NEW N \in SUBSET Clients, pool' = pool,
         \A a \in Borrowers \ {b} : borrower'[a] = borrower[a],
         \A c \in N : ~client[c].open,
         Held(b)' \subseteq Held(b) \cup N,
         \A c \in Clients \ (Held(b) \cup N) : client'[c] = client[c],
         \A c \in Held(b)' : client'[c].open,
         AtPlace(b)', LoginOf(b)',
         borrower'[b].pc \in {"use", "channel"} =>
            client'[borrower'[b].client].login = borrower'[b].host,
         lost \subseteq lost',
         \A c \in Held(b) \cup N : client'[c].open => c \in Held(b)' \cup lost'
  PROVE  PoolInv'
<1>1. PoolTypeOK /\ HostLogins # {} BY DEF PoolInv
<1>2. Idling' = Idling /\ Idling \subseteq Clients
  <2>1. \A k \in Pooled, l \in HostLogins : ClientsOf(pool[k][l]) \subseteq Clients
    BY <1>1, Clean DEF PoolTypeOK
  <2> QED BY <2>1 DEF Idling, ClientsOf
<1>3. \A a \in Borrowers : Held(a) \subseteq Clients BY <1>1, TypeOfBorrower
<1>4. \A a \in Borrowers \ {b} : Held(a)' = Held(a) /\ Candidates(a)' = Candidates(a)
  BY DEF Held, Candidates
<1>5. /\ \A a \in Borrowers \ {b} : Held(a) \cap (Held(b) \cup N) = {}
      /\ Idling \cap (Held(b) \cup N) = {}
  BY DEF PoolInv, ExclusiveUse, HeldAreOpen, IdleAreOpen
<1>6. /\ \A a \in Borrowers \ {b} : \A c \in Held(a) : client'[c] = client[c]
      /\ \A c \in Idling : client'[c] = client[c]
  BY <1>2, <1>3, <1>5
<1>7. \A a \in Borrowers \ {b} : borrower[a].client # NoClient => borrower[a].client \in Held(a)
  BY DEF Held
<1>8. \A a \in Borrowers : AtPlace(a)'
  <2> SUFFICES ASSUME NEW a \in Borrowers \ {b} PROVE AtPlace(a)' OBVIOUS
  <2>1. AtPlace(a) BY DEF PoolInv
  <2> QED BY <2>1, <1>4 DEF AtPlace
<1>9. \A a \in Borrowers : LoginOf(a)'
  <2> SUFFICES ASSUME NEW a \in Borrowers \ {b} PROVE LoginOf(a)' OBVIOUS
  <2>1. LoginOf(a) /\ AtPlace(a) BY DEF PoolInv
  <2> QED BY <2>1, <1>4, <1>6, <1>7 DEF LoginOf, AtPlace
<1>10. HeldAreOpen'
  <2>1. \A a \in Borrowers \ {b} : \A c \in Held(a)' : client'[c].open
    BY <1>4, <1>6 DEF PoolInv, HeldAreOpen
  <2> QED BY <2>1 DEF HeldAreOpen
<1>11. IdleAreOpen' BY <1>2, <1>6 DEF PoolInv, IdleAreOpen
<1>12. ExclusiveUse'
  <2>1. \A a \in Borrowers \ {b} : Held(a)' \cap Held(b)' = {} BY <1>4, <1>5
  <2>2. \A a, d \in Borrowers : a # d => Held(a)' \cap Held(d)' = {}
    BY <2>1, <1>4 DEF PoolInv, ExclusiveUse
  <2>3. \A a \in Borrowers : Held(a)' \cap Idling' = {}
    BY <1>2, <1>4, <1>5 DEF PoolInv, ExclusiveUse
  <2>4. \A k \in Pooled, l \in HostLogins : ClientsOf(pool[k][l])' = ClientsOf(pool[k][l])
    BY DEF ClientsOf
  <2>5. /\ \A k \in Pooled, l \in HostLogins : \A i, j \in DOMAIN pool'[k][l] :
             pool'[k][l][i].client = pool'[k][l][j].client => i = j
        /\ \A k, j \in Pooled, l, m \in HostLogins :
             <<k, l>> # <<j, m>> => ClientsOf(pool[k][l])' \cap ClientsOf(pool[j][m])' = {}
    BY <2>4 DEF PoolInv, ExclusiveUse
  <2> QED BY <2>2, <2>3, <2>5 DEF ExclusiveUse
<1>13. UsesOwnLogin'
  <2>1. ASSUME NEW a \in Borrowers, borrower'[a].pc \in {"use", "channel"}
        PROVE  /\ client'[borrower'[a].client].open
               /\ client'[borrower'[a].client].login = borrower'[a].host
    <3>1. borrower'[a].client \in Held(a)'
      <4>1. AtPlace(a)' BY <1>8
      <4> QED BY <4>1, <2>1 DEF AtPlace, Held
    <3>2. client'[borrower'[a].client].open BY <3>1, <1>10 DEF HeldAreOpen
    <3>3. CASE a = b BY <3>2, <3>3, <2>1
    <3>4. CASE a # b BY <3>1, <3>2, <3>4, <2>1, <1>4, <1>6 DEF PoolInv, UsesOwnLogin
    <3> QED BY <3>3, <3>4
  <2>2. \A k \in Pooled, l \in HostLogins : \A c \in ClientsOf(pool[k][l])' : client'[c].login = l
    <3> SUFFICES ASSUME NEW k \in Pooled, NEW l \in HostLogins, NEW c \in ClientsOf(pool[k][l])
                 PROVE  client'[c].login = l
      BY DEF ClientsOf
    <3>1. c \in Idling BY Idles
    <3> QED BY <3>1, <1>6 DEF PoolInv, UsesOwnLogin
  <2> QED BY <2>1, <2>2 DEF UsesOwnLogin
<1>14. NoConnectionLost'
  <2>1. SUFFICES ASSUME NEW c \in Clients, client'[c].open
                 PROVE  c \in lost' \/ c \in Idling' \/ \E a \in Borrowers : c \in Held(a)'
    BY DEF NoConnectionLost
  <2>2. CASE c \in Held(b) \cup N BY <2>1, <2>2
  <2>3. CASE c \notin Held(b) \cup N
    <3>1. client[c].open BY <2>1, <2>3
    <3>2. c \in lost \/ c \in Idling \/ \E a \in Borrowers : c \in Held(a)
      BY <3>1, <2>1 DEF PoolInv, NoConnectionLost
    <3> QED BY <3>2, <2>3, <1>2, <1>4
  <2> QED BY <2>2, <2>3
<1>15. IdleWithinLimit' BY DEF PoolInv, IdleWithinLimit
<1> QED BY <1>1, <1>8, <1>9, <1>10, <1>11, <1>12, <1>13, <1>14, <1>15 DEF PoolInv

\* A request that moves clients between itself and the pools.
LEMMA PoolMoves ==
  ASSUME PoolInv, PoolTypeOK', NEW b \in Borrowers, client' = client, lost' = lost,
         \A a \in Borrowers \ {b} : borrower'[a] = borrower[a],
         Held(b)' \cup Idling' = Held(b) \cup Idling, Held(b)' \cap Idling' = {},
         \A k \in Pooled, l \in HostLogins :
            /\ Distinct(pool'[k][l]) /\ Len(pool'[k][l]) <= MaxIdle
            /\ \A c \in ClientsOf(pool'[k][l]) : client[c].login = l,
         \A k, j \in Pooled, l, m \in HostLogins :
            <<k, l>> # <<j, m>> => ClientsOf(pool'[k][l]) \cap ClientsOf(pool'[j][m]) = {},
         AtPlace(b)', LoginOf(b)', borrower'[b].pc \notin {"use", "channel"}
  PROVE  PoolInv'
<1>1. PoolTypeOK /\ HostLogins # {} BY DEF PoolInv
<1>2. \A a \in Borrowers \ {b} : Held(a)' = Held(a) /\ Candidates(a)' = Candidates(a)
  BY DEF Held, Candidates
<1>3. \A c \in Held(b) \cup Idling : client[c].open BY DEF PoolInv, HeldAreOpen, IdleAreOpen
<1>4. \A a \in Borrowers \ {b} : Held(a) \cap (Held(b) \cup Idling) = {}
  BY DEF PoolInv, ExclusiveUse
<1>5. \A a \in Borrowers : AtPlace(a)' /\ LoginOf(a)'
  <2> SUFFICES ASSUME NEW a \in Borrowers \ {b} PROVE AtPlace(a)' /\ LoginOf(a)' OBVIOUS
  <2>1. AtPlace(a) /\ LoginOf(a) BY DEF PoolInv
  <2>2. AtPlace(a)' BY <2>1, <1>2 DEF AtPlace
  <2>3. LoginOf(a)' BY <2>1, <1>2 DEF LoginOf
  <2> QED BY <2>2, <2>3
<1>6. HeldAreOpen'
  <2>1. \A a \in Borrowers \ {b} : \A c \in Held(a)' : client'[c].open
    BY <1>2 DEF PoolInv, HeldAreOpen
  <2>2. \A c \in Held(b)' : client'[c].open BY <1>3
  <2> QED BY <2>1, <2>2 DEF HeldAreOpen
<1>7. IdleAreOpen' BY <1>3 DEF IdleAreOpen
<1>8. ExclusiveUse'
  <2>1. \A a \in Borrowers \ {b} : Held(a)' \cap Held(b)' = {} BY <1>2, <1>4
  <2>2. \A a, d \in Borrowers : a # d => Held(a)' \cap Held(d)' = {}
    BY <2>1, <1>2 DEF PoolInv, ExclusiveUse
  <2>3. \A a \in Borrowers : Held(a)' \cap Idling' = {} BY <1>2, <1>4
  <2>4. \A k \in Pooled, l \in HostLogins : \A i, j \in DOMAIN pool'[k][l] :
          pool'[k][l][i].client = pool'[k][l][j].client => i = j
    BY DEF Distinct
  <2>5. \A k \in Pooled, l \in HostLogins : ClientsOf(pool[k][l])' = ClientsOf(pool'[k][l])
    BY DEF ClientsOf
  <2> QED BY <2>2, <2>3, <2>4, <2>5 DEF ExclusiveUse
<1>9. UsesOwnLogin'
  <2>1. \A a \in Borrowers : borrower'[a].pc \in {"use", "channel"} =>
           /\ client'[borrower'[a].client].open
           /\ client'[borrower'[a].client].login = borrower'[a].host
    BY DEF PoolInv, UsesOwnLogin
  <2>2. \A k \in Pooled, l \in HostLogins : \A c \in ClientsOf(pool[k][l])' : client'[c].login = l
    BY DEF ClientsOf
  <2> QED BY <2>1, <2>2 DEF UsesOwnLogin
<1>10. NoConnectionLost'
  <2>1. SUFFICES ASSUME NEW c \in Clients, client'[c].open
                 PROVE  c \in lost' \/ c \in Idling' \/ \E a \in Borrowers : c \in Held(a)'
    BY DEF NoConnectionLost
  <2>2. c \in lost \/ c \in Idling \/ \E a \in Borrowers : c \in Held(a)
    BY <2>1 DEF PoolInv, NoConnectionLost
  <2> QED BY <2>2, <1>2
<1>11. IdleWithinLimit' BY DEF IdleWithinLimit
<1> QED BY <1>1, <1>5, <1>6, <1>7, <1>8, <1>9, <1>10, <1>11 DEF PoolInv

\* The step of a request: its row is what is said, the others are not touched.
LEMMA RowOf ==
  ASSUME PoolTypeOK, NEW b \in Borrowers, NEW row \in BorrowerType,
         borrower' = [borrower EXCEPT ![b] = row]
  PROVE  /\ borrower'[b] = row /\ borrower' \in [Borrowers -> BorrowerType]
         /\ \A a \in Borrowers \ {b} : borrower'[a] = borrower[a]
         /\ Held(b)' = ({row.client} \ {NoClient}) \cup row.closing
         /\ Candidates(b)' = Tries(row.host)
BY DEF PoolTypeOK, BorrowerType, Held, Candidates, Tries
----------------------------------------------------------------------------
(* The steps of a request. *)

LEMMA BorrowStep ==
  ASSUME PoolInv, NEW b \in Borrowers, NEW k \in Purposes, Borrow(b, k)
  PROVE  PoolInv'
<1> DEFINE row == [NoBorrow EXCEPT !.kind = k, !.host = hostLogin,
                     !.pc = IF k \in Pooled THEN "take" ELSE "connect"]
<1>1. PoolTypeOK /\ HostLogins # {} BY DEF PoolInv
<1>2. borrower[b].pc = "idle" /\ hostLogin \in HostLogins
  <2>1. b \in 1..b BY DEF Borrowers
  <2> QED BY <2>1, <1>1 DEF Borrow, IsNew, PoolTypeOK
<1>3. Held(b) = {}
  <2>1. AtPlace(b) BY DEF PoolInv
  <2> QED BY <2>1, <1>2 DEF AtPlace, Held
<1>4. /\ row \in BorrowerType /\ row.pc = IF k \in Pooled THEN "take" ELSE "connect"
      /\ row.kind = k /\ row.host = hostLogin /\ row.client = NoClient /\ row.closing = {}
      /\ row.tried = 0
  BY <1>1, <1>2, NoBorrowType DEF BorrowerType, BorrowerPC
<1>5. borrower' = [borrower EXCEPT ![b] = row] BY DEF Borrow
<1>6. pool' = pool /\ client' = client /\ hostLogin' = hostLogin /\ accepted' = accepted /\ lost' = lost
  BY DEF Borrow
<1> HIDE DEF row
<1>7. PoolTypeOK' BY <1>1, <1>4, <1>5, <1>6, RowOf DEF PoolTypeOK, BorrowerType
<1>8. borrower'[b] = row /\ Held(b)' = {} BY <1>1, <1>4, <1>5, RowOf
<1>9. borrower'[b].tried + 1 \in 1..Len(Candidates(b)')
  <2>1. Candidates(b)' = Tries(hostLogin) BY <1>1, <1>4, <1>5, RowOf
  <2>2. Len(Tries(hostLogin)) \in 1..(Len(Credentials) + 1) BY <1>2, TriesOf
  <2> QED BY <2>1, <2>2, <1>4, <1>8, PoolAssumption
<1>10. AtPlace(b)' BY <1>4, <1>8, <1>9 DEF AtPlace
<1>11. LoginOf(b)' BY <1>4, <1>8 DEF LoginOf
<1>12. \A a \in Borrowers \ {b} : borrower'[a] = borrower[a] BY <1>1, <1>4, <1>5, RowOf
<1>13. borrower'[b].pc \notin {"use", "channel"} BY <1>4, <1>8
<1> QED BY <1>3, <1>6, <1>7, <1>8, <1>10, <1>11, <1>12, <1>13, RequestMoves

LEMMA TakeStep ==
  ASSUME PoolInv, NEW b \in Borrowers, TakePooled(b)
  PROVE  PoolInv'
<1> DEFINE k == borrower[b].kind
           h == borrower[b].host
           kept == [l \in HostLogins |-> OnlyIn(pool[k][l], Fresh)]
           own == kept[h]
           left == IF own = <<>> THEN kept ELSE [kept EXCEPT ![h] = SubSeq(own, 1, Len(own) - 1)]
           taken == IF own = <<>> THEN {} ELSE {own[Len(own)].client}
           closing == UNION {ClientsOf(pool[k][l]) \ ClientsOf(kept[l]) : l \in HostLogins}
           row == [borrower[b] EXCEPT !.pc = "sweep", !.closing = closing,
                     !.client = IF own = <<>> THEN NoClient ELSE own[Len(own)].client]
<1>1. PoolTypeOK /\ HostLogins # {} BY DEF PoolInv
<1>2. borrower[b] \in BorrowerType /\ h \in HostLogins BY <1>1, TypeOfBorrower
<1>3. k \in Pooled /\ borrower[b].tried = 0 /\ Held(b) = {}
  <2>1. AtPlace(b) /\ borrower[b].pc = "take" BY DEF PoolInv, TakePooled, BorrowerAt
  <2> QED BY <2>1 DEF AtPlace, Held
<1>4. pool' = [pool EXCEPT ![k] = left] /\ client' = client /\ hostLogin' = hostLogin
      /\ accepted' = accepted /\ lost' = lost /\ borrower' = [borrower EXCEPT ![b] = row]
  <2>1. pool' = [pool EXCEPT ![k] = left] BY DEF TakePooled
  <2>2. borrower' = [borrower EXCEPT ![b].pc = "sweep", ![b].closing = closing,
                       ![b].client = IF own = <<>> THEN NoClient ELSE own[Len(own)].client]
    BY DEF TakePooled
  <2> HIDE DEF closing, own
  <2>4. borrower' = [borrower EXCEPT ![b] = row] BY <2>2
  <2>3. client' = client /\ hostLogin' = hostLogin /\ accepted' = accepted /\ lost' = lost BY DEF TakePooled
  <2> QED BY <2>1, <2>3, <2>4
<1>5. \A l \in HostLogins : /\ pool[k][l] \in Seq(Entry) /\ Distinct(pool[k][l])
                            /\ Len(pool[k][l]) <= MaxIdle /\ Len(pool[k][l]) \in Nat
  BY <1>1, <1>3 DEF PoolTypeOK, PoolInv, ExclusiveUse, Distinct, IdleWithinLimit
<1>6. \A j, i \in Pooled, l, m \in HostLogins :
        <<j, l>> # <<i, m>> => ClientsOf(pool[j][l]) \cap ClientsOf(pool[i][m]) = {}
  BY DEF PoolInv, ExclusiveUse
<1>7. \A l \in HostLogins : /\ kept[l] \in Seq(Entry) /\ Len(kept[l]) <= Len(pool[k][l])
                            /\ ClientsOf(kept[l]) \subseteq ClientsOf(pool[k][l])
                            /\ Distinct(kept[l])
  BY <1>5, KeptOf
<1>8. DOMAIN kept = HostLogins /\ kept = [l \in HostLogins |-> kept[l]] OBVIOUS
<1> HIDE DEF kept
<1>9. own # <<>> => /\ SubSeq(own, 1, Len(own) - 1) \in Seq(Entry)
                    /\ Len(SubSeq(own, 1, Len(own) - 1)) <= Len(own)
                    /\ Distinct(SubSeq(own, 1, Len(own) - 1))
                    /\ own[Len(own)].client \in ClientsOf(own)
                    /\ ClientsOf(SubSeq(own, 1, Len(own) - 1)) = ClientsOf(own) \ taken
  BY <1>2, <1>7, LastTaken
<1>10. taken \subseteq ClientsOf(own) /\ taken \subseteq ClientsOf(pool[k][h]) BY <1>2, <1>7, <1>9
<1>11. \A l \in HostLogins : /\ left[l] \in Seq(Entry) /\ Len(left[l]) <= Len(kept[l])
                             /\ Distinct(left[l])
                             /\ ClientsOf(left[l]) =
                                  IF l = h THEN ClientsOf(kept[l]) \ taken ELSE ClientsOf(kept[l])
  <2>1. CASE own = <<>>
    <3>1. taken = {} /\ left = kept BY <2>1
    <3>2. \A l \in HostLogins : Len(kept[l]) <= Len(kept[l]) BY <1>7
    <3> HIDE DEF taken, left
    <3> QED BY <3>1, <3>2, <1>7
  <2>2. CASE own # <<>>
    <3> SUFFICES ASSUME NEW l \in HostLogins
                 PROVE  /\ left[l] \in Seq(Entry) /\ Len(left[l]) <= Len(kept[l])
                        /\ Distinct(left[l])
                        /\ ClientsOf(left[l]) =
                             IF l = h THEN ClientsOf(kept[l]) \ taken ELSE ClientsOf(kept[l])
      OBVIOUS
    <3>1. l = h => left[l] = SubSeq(own, 1, Len(own) - 1) BY <2>2, <1>8
    <3>2. l # h => left[l] = kept[l] BY <2>2, <1>8
    <3>3. Len(kept[l]) <= Len(kept[l]) BY <1>7
    <3> HIDE DEF left, taken
    <3>4. CASE l = h BY <2>2, <3>1, <3>4, <1>9
    <3>5. CASE l # h BY <3>2, <3>3, <3>5, <1>7
    <3> QED BY <3>4, <3>5
  <2> QED BY <2>1, <2>2
<1>12. /\ taken \subseteq Clients /\ closing \subseteq Clients
       /\ row.client = (IF own = <<>> THEN NoClient ELSE own[Len(own)].client)
       /\ row.client \in Clients \cup {NoClient} /\ {row.client} \ {NoClient} = taken
  <2>1. \A l \in HostLogins : ClientsOf(pool[k][l]) \subseteq Clients BY <1>5, Clean
  <2>2. taken \subseteq Clients /\ closing \subseteq Clients BY <2>1, <1>2, <1>10
  <2>3. row.client = IF own = <<>> THEN NoClient ELSE own[Len(own)].client
    BY <1>2 DEF BorrowerType
  <2> HIDE DEF row
  <2> QED BY <2>2, <2>3, PoolAssumption
<1>13. left \in [HostLogins -> Seq(Entry)]
  <2>1. DOMAIN left = HostLogins /\ left = [l \in HostLogins |-> left[l]] BY <1>8
  <2> QED BY <2>1, <1>11
<1> HIDE DEF own, left
<1>14. /\ row \in BorrowerType /\ row.pc = "sweep" /\ row.kind = k /\ row.host = h
       /\ row.tried = 0 /\ row.closing = closing
  BY <1>2, <1>3, <1>12 DEF BorrowerType, BorrowerPC
<1> HIDE DEF closing, taken, row
<1>15. /\ borrower'[b] = row /\ Held(b)' = taken \cup closing
       /\ \A a \in Borrowers \ {b} : borrower'[a] = borrower[a]
  BY <1>1, <1>4, <1>12, <1>14, RowOf
<1>16. pool'[k] = left /\ \A j \in Pooled \ {k} : pool'[j] = pool[j] BY <1>1, <1>3, <1>4 DEF PoolTypeOK
<1>17. PoolTypeOK'
  <2>1. pool' \in [Pooled -> [HostLogins -> Seq(Entry)]]
    BY <1>1, <1>3, <1>4, <1>13 DEF PoolTypeOK
  <2>2. borrower' \in [Borrowers -> BorrowerType] BY <1>1, <1>4, <1>14, RowOf
  <2> QED BY <1>1, <1>4, <2>1, <2>2 DEF PoolTypeOK, BorrowerType
<1>18. \A j \in Pooled, l \in HostLogins : ClientsOf(pool'[j][l]) \subseteq ClientsOf(pool[j][l])
  BY <1>7, <1>11, <1>16
<1>19. \A c \in closing : \E l \in HostLogins : c \in ClientsOf(pool[k][l]) \ ClientsOf(kept[l])
  BY DEF closing
<1>20. Held(b)' \cup Idling' = Held(b) \cup Idling
  <2>1. ASSUME NEW c, c \in Idling PROVE c \in Idling' \cup taken \cup closing
    <3>1. PICK j \in Pooled, l \in HostLogins : c \in ClientsOf(pool[j][l]) BY <2>1, Idles
    <3>2. ClientsOf(pool'[j][l]) \subseteq Idling' BY IdlesNext
    <3>3. CASE j # k BY <3>1, <3>2, <3>3, <1>16
    <3>4. CASE j = k
      <4>1. c \in closing \/ c \in ClientsOf(kept[l]) BY <3>1, <3>4 DEF closing
      <4>2. c \in ClientsOf(kept[l]) => c \in taken \/ c \in ClientsOf(pool'[j][l])
        BY <3>4, <1>11, <1>16
      <4> QED BY <4>1, <4>2, <3>2
    <3> QED BY <3>3, <3>4
  <2>2. ASSUME NEW c, c \in Idling' PROVE c \in Idling
    <3>1. PICK j \in Pooled, l \in HostLogins : c \in ClientsOf(pool'[j][l])
      BY <2>2, IdlesNext
    <3> QED BY <3>1, <1>18, Idles
  <2>3. taken \subseteq Idling BY <1>2, <1>3, <1>10, Idles
  <2>4. closing \subseteq Idling BY <1>3, <1>19, Idles
  <2> QED BY <2>1, <2>2, <2>3, <2>4, <1>3, <1>15
<1>21. Held(b)' \cap Idling' = {}
  <2>1. SUFFICES ASSUME NEW c \in taken \cup closing, c \in Idling' PROVE FALSE BY <1>15
  <2>2. PICK j \in Pooled, m \in HostLogins : c \in ClientsOf(pool'[j][m])
    BY <2>1, IdlesNext
  <2>3. c \in ClientsOf(pool[j][m]) BY <2>2, <1>18
  <2>4. CASE c \in taken
    <3>1. <<j, m>> = <<k, h>> BY <2>3, <2>4, <1>2, <1>3, <1>6, <1>10
    <3> QED BY <3>1, <2>2, <2>4, <1>2, <1>11, <1>16
  <2>5. CASE c \in closing
    <3>1. PICK l \in HostLogins : c \in ClientsOf(pool[k][l]) \ ClientsOf(kept[l]) BY <2>5, <1>19
    <3>2. <<j, m>> = <<k, l>> BY <3>1, <2>3, <1>3, <1>6
    <3> QED BY <3>1, <3>2, <2>2, <1>11, <1>16
  <2> QED BY <2>1, <2>4, <2>5
<1>22. taken \cap closing = {}
  <2>1. SUFFICES ASSUME NEW c \in taken, c \in closing PROVE FALSE OBVIOUS
  <2>2. PICK l \in HostLogins : c \in ClientsOf(pool[k][l]) \ ClientsOf(kept[l]) BY <2>1, <1>19
  <2>3. <<k, l>> = <<k, h>> BY <2>1, <2>2, <1>2, <1>3, <1>6, <1>10
  <2> QED BY <2>1, <2>2, <2>3, <1>10 DEF own
<1>23. \A j \in Pooled, l \in HostLogins :
         /\ Distinct(pool'[j][l]) /\ Len(pool'[j][l]) <= MaxIdle
         /\ \A c \in ClientsOf(pool'[j][l]) : client[c].login = l
  <2> SUFFICES ASSUME NEW j \in Pooled, NEW l \in HostLogins
               PROVE  /\ Distinct(pool'[j][l]) /\ Len(pool'[j][l]) <= MaxIdle
                      /\ \A c \in ClientsOf(pool'[j][l]) : client[c].login = l
    OBVIOUS
  <2>1. \A c \in ClientsOf(pool'[j][l]) : client[c].login = l BY <1>18 DEF PoolInv, UsesOwnLogin
  <2>2. CASE j = k
    <3>1. Distinct(left[l]) /\ Len(left[l]) <= Len(kept[l]) /\ Len(kept[l]) <= Len(pool[k][l])
      BY <1>7, <1>11
    <3>2. left[l] \in Seq(Entry) /\ kept[l] \in Seq(Entry) BY <1>7, <1>11
    <3>3. Len(left[l]) <= MaxIdle BY <3>1, <3>2, <1>5, PoolAssumption
    <3> QED BY <2>1, <2>2, <3>1, <3>3, <1>16
  <2>3. CASE j # k
    BY <2>1, <2>3, <1>16 DEF PoolInv, ExclusiveUse, Distinct, IdleWithinLimit
  <2> QED BY <2>2, <2>3
<1>24. \A j, i \in Pooled, l, m \in HostLogins :
         <<j, l>> # <<i, m>> => ClientsOf(pool'[j][l]) \cap ClientsOf(pool'[i][m]) = {}
  BY <1>6, <1>18
<1>25. AtPlace(b)'
  <2>1. row.client \notin closing BY <1>12, <1>22, PoolAssumption DEF closing
  <2> QED BY <2>1, <1>3, <1>14, <1>15 DEF AtPlace
<1>26. LoginOf(b)'
  <2>1. row.client # NoClient => row.client \in ClientsOf(pool[k][h]) BY <1>10, <1>12
  <2>2. row.client # NoClient => client[row.client].login = h
    BY <2>1, <1>2, <1>3 DEF PoolInv, UsesOwnLogin
  <2> QED BY <2>2, <1>4, <1>14, <1>15 DEF LoginOf
<1>27. borrower'[b].pc \notin {"use", "channel"} BY <1>14, <1>15
<1> HIDE DEF k, h
<1> QED BY <1>4, <1>15, <1>17, <1>20, <1>21, <1>23, <1>24, <1>25, <1>26, <1>27, PoolMoves

LEMMA SweepStep ==
  ASSUME PoolInv, NEW b \in Borrowers, SweepExpired(b)
  PROVE  PoolInv'
<1> DEFINE S == borrower[b].closing
           row == [borrower[b] EXCEPT !.closing = {},
                     !.pc = IF borrower[b].client = NoClient THEN "connect" ELSE "use"]
<1>1. PoolTypeOK /\ HostLogins # {} /\ AtPlace(b) /\ LoginOf(b) BY DEF PoolInv
<1>2. borrower[b] \in BorrowerType /\ S \subseteq Clients /\ borrower[b].host \in HostLogins
  BY <1>1, TypeOfBorrower
<1>3. borrower[b].pc = "sweep" /\ borrower[b].tried = 0 /\ borrower[b].client \notin S
  BY <1>1 DEF SweepExpired, BorrowerAt, AtPlace
<1>4. /\ pool' = pool /\ client' = Close(S) /\ hostLogin' = hostLogin /\ accepted' = accepted /\ lost' = lost
      /\ borrower' = [borrower EXCEPT ![b] = row]
  BY DEF SweepExpired
<1>5. /\ row \in BorrowerType /\ row.host = borrower[b].host /\ row.client = borrower[b].client
      /\ row.closing = {} /\ row.tried = 0 /\ row.kind = borrower[b].kind
      /\ row.pc = IF borrower[b].client = NoClient THEN "connect" ELSE "use"
  BY <1>2, <1>3 DEF BorrowerType, BorrowerPC
<1> HIDE DEF row, S
<1>6. /\ borrower'[b] = row /\ Held(b)' = {row.client} \ {NoClient}
      /\ borrower' \in [Borrowers -> BorrowerType] /\ Candidates(b)' = Tries(row.host)
      /\ \A a \in Borrowers \ {b} : borrower'[a] = borrower[a]
  BY <1>1, <1>4, <1>5, RowOf
<1>7. /\ client' \in [Clients -> ClientRow] /\ \A c \in Clients \cap S : ~client'[c].open
      /\ \A c \in Clients \ S : client'[c] = client[c]
  BY <1>1, <1>4, ClientsClosed
<1>8. PoolTypeOK' BY <1>1, <1>4, <1>6, <1>7 DEF PoolTypeOK, BorrowerType
<1>9. Held(b) = Held(b)' \cup S /\ Held(b)' \cap S = {} /\ Held(b) \subseteq Clients
  BY <1>1, <1>3, <1>5, <1>6, TypeOfBorrower DEF Held, S
<1>10. \A c \in Held(b)' : client'[c] = client[c] /\ client[c].open
  BY <1>7, <1>9 DEF PoolInv, HeldAreOpen
<1>11. AtPlace(b)'
  <2>1. row.tried + 1 \in 1..Len(Tries(row.host)) BY <1>1, <1>3, <1>5, FirstTry, CandidatesOf
  <2> QED BY <2>1, <1>5, <1>6 DEF AtPlace
<1>12. LoginOf(b)' BY <1>5, <1>6 DEF LoginOf
<1>13. borrower'[b].pc \in {"use", "channel"} => client'[borrower'[b].client].login = borrower'[b].host
  <2>1. SUFFICES ASSUME row.pc \in {"use", "channel"} PROVE client'[row.client].login = row.host
    BY <1>6
  <2>2. row.client # NoClient BY <2>1, <1>5
  <2>3. client'[row.client] = client[row.client] BY <2>2, <1>6, <1>10
  <2> QED BY <2>2, <2>3, <1>1, <1>3, <1>5 DEF LoginOf
<1>14. \A c \in Held(b) : client'[c].open => c \in Held(b)' BY <1>7, <1>9
<1>15. \A c \in Clients \ Held(b) : client'[c] = client[c] BY <1>7, <1>9
<1> DEFINE N == {}
<1>16. /\ N \in SUBSET Clients /\ \A c \in N : ~client[c].open /\ Held(b)' \subseteq Held(b) \cup N
       /\ \A c \in Clients \ (Held(b) \cup N) : client'[c] = client[c]
       /\ \A c \in Held(b) \cup N : client'[c].open => c \in Held(b)'
  BY <1>9, <1>14, <1>15
<1>17. Held(b)' \subseteq Held(b) \cup N BY <1>9
<1> HIDE DEF N
<1> QED BY <1>4, <1>6, <1>8, <1>10, <1>11, <1>12, <1>13, <1>16, <1>17, RequestMoves

LEMMA ConnectStep ==
  ASSUME PoolInv, NEW b \in Borrowers, NEW c \in NewClients, ConnectWith(b, c)
  PROVE  PoolInv'
<1> DEFINE l == Candidates(b)[borrower[b].tried + 1]
           made == [open |-> TRUE, alive |-> TRUE, login |-> l]
           row == [borrower[b] EXCEPT !.client = c,
                     !.pc = IF borrower[b].tried > 0 THEN "persist" ELSE Opened(b)]
<1>1. PoolTypeOK /\ HostLogins # {} /\ AtPlace(b) BY DEF PoolInv
<1>2. c \in Clients /\ ~client[c].open /\ c # NoClient BY PoolAssumption DEF NewClients
<1>3. borrower[b] \in BorrowerType /\ borrower[b].host \in HostLogins /\ borrower[b].tried \in Nat
  BY <1>1, TypeOfBorrower
<1>4. /\ borrower[b].pc = "connect" /\ borrower[b].client = NoClient /\ borrower[b].closing = {}
      /\ borrower[b].tried + 1 \in 1..Len(Candidates(b))
  BY <1>1 DEF ConnectWith, BorrowerAt, AtPlace
<1>5. l \in HostLogins /\ (borrower[b].tried = 0 => l = borrower[b].host)
  BY <1>1, <1>3, <1>4, CandidatesOf
<1>6. Opened(b) \in {"use", "channel"} BY DEF Opened
<1>7. /\ pool' = pool /\ client' = [client EXCEPT ![c] = made]
      /\ hostLogin' = hostLogin /\ accepted' = accepted /\ lost' = lost
      /\ borrower' = [borrower EXCEPT ![b] = row]
  BY DEF ConnectWith
<1>8. /\ row \in BorrowerType /\ row.host = borrower[b].host /\ row.client = c
      /\ row.closing = {} /\ row.tried = borrower[b].tried /\ row.kind = borrower[b].kind
      /\ row.pc = IF borrower[b].tried > 0 THEN "persist" ELSE Opened(b)
  BY <1>2, <1>3, <1>4, <1>6 DEF BorrowerType, BorrowerPC
<1>9. made \in ClientRow /\ made.open /\ made.login = l BY <1>5 DEF ClientRow
<1> HIDE DEF row, made
<1>10. /\ borrower'[b] = row /\ Held(b)' = {c}
       /\ borrower' \in [Borrowers -> BorrowerType] /\ Candidates(b)' = Tries(row.host)
       /\ \A a \in Borrowers \ {b} : borrower'[a] = borrower[a]
  BY <1>1, <1>2, <1>7, <1>8, RowOf
<1>11. /\ client' \in [Clients -> ClientRow] /\ client'[c] = made
       /\ \A d \in Clients \ {c} : client'[d] = client[d]
  BY <1>1, <1>2, <1>7, <1>9 DEF PoolTypeOK
<1>12. PoolTypeOK' BY <1>1, <1>7, <1>10, <1>11 DEF PoolTypeOK, BorrowerType
<1>13. Held(b) = {} BY <1>4 DEF Held
<1>14. Candidates(b)' = Candidates(b) BY <1>1, <1>8, <1>10, CandidatesOf
<1>15. row.pc = "persist" \/ (row.pc \in {"use", "channel"} /\ borrower[b].tried = 0)
  BY <1>3, <1>6, <1>8
<1>16. AtPlace(b)' BY <1>2, <1>4, <1>8, <1>10, <1>14, <1>15 DEF AtPlace
<1>17. LoginOf(b)' BY <1>8, <1>9, <1>10, <1>11, <1>14, <1>15 DEF LoginOf
<1>18. borrower'[b].pc \in {"use", "channel"} => client'[borrower'[b].client].login = borrower'[b].host
  BY <1>5, <1>8, <1>9, <1>10, <1>11, <1>15
<1> DEFINE N == {c}
<1>19. /\ N \in SUBSET Clients /\ \A d \in N : ~client[d].open
       /\ Held(b)' \subseteq Held(b) \cup N
       /\ \A d \in Clients \ (Held(b) \cup N) : client'[d] = client[d]
       /\ \A d \in Held(b) \cup N : client'[d].open => d \in Held(b)'
       /\ \A d \in Held(b)' : client'[d].open
  BY <1>2, <1>9, <1>10, <1>11, <1>13
<1> HIDE DEF N, l
<1> QED BY <1>7, <1>10, <1>12, <1>16, <1>17, <1>18, <1>19, RequestMoves

\* A request that ends closes what it holds, or leaves its client.
LEMMA BorrowerEnds ==
  ASSUME PoolInv, NEW b \in Borrowers, borrower' = [borrower EXCEPT ![b] = NoBorrow],
         pool' = pool, hostLogin' = hostLogin, accepted' = accepted,
         \/ client' = Close(Held(b)) /\ lost' = lost
         \/ client' = client /\ lost' = lost \cup Held(b)
  PROVE  PoolInv'
<1>1. PoolTypeOK /\ HostLogins # {} BY DEF PoolInv
<1>2. /\ NoBorrow \in BorrowerType /\ NoBorrow.pc = "idle" /\ NoBorrow.client = NoClient
      /\ NoBorrow.closing = {}
  BY <1>1, NoBorrowType
<1>3. /\ borrower'[b] = NoBorrow /\ Held(b)' = {}
      /\ borrower' \in [Borrowers -> BorrowerType]
      /\ \A a \in Borrowers \ {b} : borrower'[a] = borrower[a]
  <2>1. /\ borrower'[b] = NoBorrow /\ borrower' \in [Borrowers -> BorrowerType]
        /\ \A a \in Borrowers \ {b} : borrower'[a] = borrower[a]
        /\ Held(b)' = ({NoBorrow.client} \ {NoClient}) \cup NoBorrow.closing
    BY <1>1, <1>2, RowOf
  <2>2. Held(b)' = {} BY <2>1, <1>2
  <2> QED BY <2>1, <2>2
<1>4. /\ client' \in [Clients -> ClientRow]
      /\ \A c \in Clients \ Held(b) : client'[c] = client[c]
      /\ \A c \in Held(b) : client'[c].open => c \in lost'
      /\ lost \subseteq lost' /\ lost' \subseteq Clients
  <2>1. Held(b) \subseteq Clients BY <1>1, TypeOfBorrower
  <2>2. CASE client' = Close(Held(b)) /\ lost' = lost
    BY <2>1, <2>2, <1>1, ClientsClosed DEF PoolTypeOK
  <2>3. CASE client' = client /\ lost' = lost \cup Held(b)
    BY <2>1, <2>3, <1>1 DEF PoolTypeOK
  <2> QED BY <2>2, <2>3
<1>5. PoolTypeOK' BY <1>1, <1>3, <1>4 DEF PoolTypeOK, BorrowerType
<1>6. AtPlace(b)' BY <1>2, <1>3 DEF AtPlace
<1>7. LoginOf(b)' BY <1>2, <1>3 DEF LoginOf
<1> DEFINE N == {}
<1>8. /\ N \in SUBSET Clients /\ \A d \in N : ~client[d].open
      /\ Held(b)' \subseteq Held(b) \cup N
      /\ \A d \in Clients \ (Held(b) \cup N) : client'[d] = client[d]
      /\ \A d \in Held(b) \cup N : client'[d].open => d \in Held(b)' \cup lost'
      /\ \A d \in Held(b)' : client'[d].open
  BY <1>3, <1>4
<1>9. borrower'[b].pc \notin {"use", "channel"} BY <1>2, <1>3
<1> HIDE DEF N
<1> QED BY <1>3, <1>5, <1>6, <1>7, <1>8, <1>9, RequestMoves

LEMMA HeldAt ==
  ASSUME PoolInv, NEW b \in Borrowers
  PROVE  /\ borrower[b].pc \in {"idle", "take", "connect"} => Held(b) = {}
         /\ borrower[b].pc \in {"persist", "channel", "use"} => Held(b) = {borrower[b].client}
         /\ borrower[b].pc = "trim" => Held(b) = borrower[b].closing
<1>1. AtPlace(b) BY DEF PoolInv
<1> QED BY <1>1 DEF AtPlace, Held

LEMMA EndingSteps ==
  ASSUME PoolInv, NEW b \in Borrowers,
         ConnectUnreachable(b) \/ PersistFails(b) \/ TrimPool(b) \/ Discard(b) \/ Abandon(b)
  PROVE  PoolInv'
<1>1. CASE ConnectUnreachable(b) BY <1>1, HeldAt, BorrowerEnds DEF ConnectUnreachable, BorrowerAt
<1>2. CASE PersistFails(b) BY <1>2, HeldAt, BorrowerEnds DEF PersistFails, BorrowerAt
<1>3. CASE TrimPool(b) BY <1>3, HeldAt, BorrowerEnds DEF TrimPool, BorrowerAt
<1>4. CASE Discard(b) BY <1>4, HeldAt, BorrowerEnds DEF Discard, BorrowerAt
<1>5. CASE Abandon(b) BY <1>5, HeldAt, BorrowerEnds DEF Abandon, BorrowerAt
<1> QED BY <1>1, <1>2, <1>3, <1>4, <1>5

LEMMA ConnectFailsStep ==
  ASSUME PoolInv, NEW b \in Borrowers, ConnectFails(b)
  PROVE  PoolInv'
<1> DEFINE tries == borrower[b].tried + 1
           row == [borrower[b] EXCEPT !.tried = tries]
<1>1. /\ PoolTypeOK /\ HostLogins # {} /\ AtPlace(b) /\ borrower[b].pc = "connect"
      /\ Held(b) = {}
  BY HeldAt DEF PoolInv, ConnectFails, BorrowerAt
<1>2. pool' = pool /\ hostLogin' = hostLogin /\ accepted' = accepted /\ lost' = lost /\ client' = client
  BY DEF ConnectFails
<1>3. CASE borrower' = [borrower EXCEPT ![b] = NoBorrow] BY <1>1, <1>2, <1>3, BorrowerEnds
<1>4. CASE tries < Len(Candidates(b)) /\ borrower' = [borrower EXCEPT ![b].tried = tries]
  <2>1. borrower[b] \in BorrowerType /\ borrower[b].tried \in Nat BY <1>1, TypeOfBorrower
  <2>2. tries \in 0..Len(Credentials) /\ tries + 1 \in 1..Len(Candidates(b))
    <3>1. Len(Candidates(b)) \in 1..(Len(Credentials) + 1) BY <1>1, CandidatesOf
    <3>2. Len(Credentials) \in Nat BY PoolAssumption
    <3>3. \A t, m, n \in Nat : m <= n + 1 /\ t + 1 < m => t + 1 \in 0..n /\ (t + 1) + 1 \in 1..m
      OBVIOUS
    <3>4. Len(Candidates(b)) \in Nat /\ Len(Candidates(b)) <= Len(Credentials) + 1
      BY <3>1, <3>2
    <3> QED BY <1>4, <2>1, <3>2, <3>3, <3>4
  <2> HIDE DEF tries
  <2>3. borrower' = [borrower EXCEPT ![b] = row] BY <1>4
  <2>4. /\ row \in BorrowerType /\ row.tried = tries /\ row.host = borrower[b].host
        /\ row.client = NoClient /\ row.closing = {} /\ row.pc = "connect"
    BY <1>1, <2>1, <2>2 DEF BorrowerType, AtPlace
  <2> HIDE DEF row
  <2>5. /\ borrower'[b] = row /\ Held(b)' = {}
        /\ borrower' \in [Borrowers -> BorrowerType] /\ Candidates(b)' = Tries(row.host)
        /\ \A a \in Borrowers \ {b} : borrower'[a] = borrower[a]
    BY <1>1, <2>3, <2>4, RowOf
  <2>6. Candidates(b)' = Candidates(b) BY <1>1, <2>4, <2>5, CandidatesOf
  <2>7. PoolTypeOK' BY <1>1, <1>2, <2>5 DEF PoolTypeOK, BorrowerType
  <2>8. AtPlace(b)' BY <2>2, <2>4, <2>5, <2>6 DEF AtPlace
  <2>9. LoginOf(b)' BY <2>4, <2>5 DEF LoginOf
  <2> DEFINE N == {}
  <2>10. /\ N \in SUBSET Clients /\ \A d \in N : ~client[d].open
         /\ Held(b)' \subseteq Held(b) \cup N
         /\ \A d \in Clients \ (Held(b) \cup N) : client'[d] = client[d]
         /\ \A d \in Held(b) \cup N : client'[d].open => d \in Held(b)'
         /\ \A d \in Held(b)' : client'[d].open
    BY <1>1, <1>2, <2>5
  <2>11. borrower'[b].pc \notin {"use", "channel"} BY <2>4, <2>5
  <2> HIDE DEF N
  <2> QED BY <1>2, <2>5, <2>7, <2>8, <2>9, <2>10, <2>11, RequestMoves
<1> QED BY <1>3, <1>4 DEF ConnectFails

LEMMA PersistStep ==
  ASSUME PoolInv, NEW b \in Borrowers, Persist(b)
  PROVE  PoolInv'
<1> DEFINE l == Candidates(b)[borrower[b].tried + 1]
           row == [borrower[b] EXCEPT !.host = l, !.tried = 0, !.pc = Opened(b)]
<1>1. /\ PoolTypeOK /\ HostLogins # {} /\ AtPlace(b) /\ LoginOf(b)
      /\ borrower[b].pc = "persist" /\ hostLogin # "gone" /\ Held(b) = {borrower[b].client}
  BY HeldAt DEF PoolInv, Persist, BorrowerAt
<1>2. borrower[b] \in BorrowerType /\ borrower[b].client \in Clients
  BY <1>1, TypeOfBorrower DEF AtPlace
<1>3. l \in HostLogins /\ client[borrower[b].client].login = l
  BY <1>1, CandidatesOf DEF AtPlace, LoginOf
<1>4. Opened(b) \in {"use", "channel"} BY DEF Opened
<1>5. /\ pool' = pool /\ hostLogin' = l /\ accepted' = accepted /\ lost' = lost /\ client' = client
      /\ borrower' = [borrower EXCEPT ![b] = row]
  BY DEF Persist
<1>6. 0 \in 0..Len(Credentials) BY PoolAssumption
<1>7. /\ row \in BorrowerType /\ row.tried = 0 /\ row.host = l
      /\ row.client = borrower[b].client /\ row.closing = {} /\ row.pc = Opened(b)
  BY <1>1, <1>2, <1>3, <1>4, <1>6 DEF BorrowerType, BorrowerPC, AtPlace
<1> HIDE DEF row, l
<1>8. /\ borrower'[b] = row /\ Held(b)' = Held(b)
      /\ borrower' \in [Borrowers -> BorrowerType]
      /\ \A a \in Borrowers \ {b} : borrower'[a] = borrower[a]
  <2>1. /\ borrower'[b] = row /\ Held(b)' = ({row.client} \ {NoClient}) \cup row.closing
        /\ borrower' \in [Borrowers -> BorrowerType]
        /\ \A a \in Borrowers \ {b} : borrower'[a] = borrower[a]
    BY <1>1, <1>5, <1>7, RowOf
  <2>2. Held(b)' = Held(b) BY <2>1, <1>1, <1>2, <1>7, PoolAssumption
  <2> QED BY <2>1, <2>2
<1>9. PoolTypeOK' BY <1>1, <1>3, <1>5, <1>8 DEF PoolTypeOK, BorrowerType
<1>10. AtPlace(b)' BY <1>1, <1>4, <1>7, <1>8 DEF AtPlace
<1>11. LoginOf(b)' BY <1>4, <1>7, <1>8 DEF LoginOf
<1>12. client'[borrower'[b].client].login = borrower'[b].host BY <1>3, <1>5, <1>7, <1>8
<1> DEFINE N == {}
<1>13. /\ N \in SUBSET Clients /\ \A d \in N : ~client[d].open
       /\ Held(b)' \subseteq Held(b) \cup N
       /\ \A d \in Clients \ (Held(b) \cup N) : client'[d] = client[d]
       /\ \A d \in Held(b) \cup N : client'[d].open => d \in Held(b)'
       /\ \A d \in Held(b)' : client'[d].open
  BY <1>5, <1>8 DEF PoolInv, HeldAreOpen
<1> HIDE DEF N
<1> QED BY <1>1, <1>5, <1>8, <1>9, <1>10, <1>11, <1>12, <1>13, RequestMoves

LEMMA ChannelStep ==
  ASSUME PoolInv, NEW b \in Borrowers, OpenChannel(b)
  PROVE  PoolInv'
<1> DEFINE row == [borrower[b] EXCEPT !.pc = "use"]
<1>1. /\ PoolTypeOK /\ HostLogins # {} /\ AtPlace(b)
      /\ borrower[b].pc = "channel" /\ Held(b) = {borrower[b].client}
  BY HeldAt DEF PoolInv, OpenChannel, BorrowerAt
<1>2. borrower[b] \in BorrowerType /\ client[borrower[b].client].login = borrower[b].host
  BY <1>1, TypeOfBorrower DEF PoolInv, UsesOwnLogin
<1>3. pool' = pool /\ hostLogin' = hostLogin /\ accepted' = accepted /\ lost' = lost BY DEF OpenChannel
<1>4. CASE /\ client' = Close({borrower[b].client})
           /\ borrower' = [borrower EXCEPT ![b] = NoBorrow]
  BY <1>1, <1>3, <1>4, BorrowerEnds
<1>5. CASE client' = client /\ borrower' = [borrower EXCEPT ![b].pc = "use"]
  <2>1. borrower' = [borrower EXCEPT ![b] = row] BY <1>5
  <2>2. /\ row \in BorrowerType /\ row.host = borrower[b].host
        /\ row.client = borrower[b].client /\ row.closing = {} /\ row.pc = "use"
    BY <1>1, <1>2 DEF BorrowerType, BorrowerPC, AtPlace
  <2> HIDE DEF row
  <2>3. /\ borrower'[b] = row /\ Held(b)' = {row.client} \ {NoClient}
        /\ borrower' \in [Borrowers -> BorrowerType]
        /\ \A a \in Borrowers \ {b} : borrower'[a] = borrower[a]
    BY <1>1, <2>1, <2>2, RowOf
  <2>4. PoolTypeOK' BY <1>1, <1>3, <1>5, <2>3 DEF PoolTypeOK, BorrowerType
  <2>5. AtPlace(b)' BY <1>1, <2>2, <2>3 DEF AtPlace
  <2>6. LoginOf(b)' BY <2>2, <2>3 DEF LoginOf
  <2>7. client'[borrower'[b].client].login = borrower'[b].host BY <1>2, <1>5, <2>2, <2>3
  <2> DEFINE N == {}
  <2>8. Held(b)' = Held(b) BY <1>1, <2>2, <2>3 DEF AtPlace
  <2>9. /\ N \in SUBSET Clients /\ \A d \in N : ~client[d].open
        /\ Held(b)' \subseteq Held(b) \cup N
        /\ \A d \in Clients \ (Held(b) \cup N) : client'[d] = client[d]
        /\ \A d \in Held(b) \cup N : client'[d].open => d \in Held(b)'
        /\ \A d \in Held(b)' : client'[d].open
    BY <1>5, <2>8 DEF PoolInv, HeldAreOpen
  <2> HIDE DEF N
  <2> QED BY <1>3, <2>3, <2>4, <2>5, <2>6, <2>7, <2>9, RequestMoves
<1> QED BY <1>4, <1>5 DEF OpenChannel

LEMMA ReturnStep ==
  ASSUME PoolInv, NEW b \in Borrowers, Return(b)
  PROVE  PoolInv'
<1> DEFINE k == borrower[b].kind
           h == borrower[b].host
           c == borrower[b].client
           all == Append(pool[k][h], [client |-> c, old |-> FALSE])
           over == IF Len(all) > MaxIdle THEN Len(all) - MaxIdle ELSE 0
           left == SubSeq(all, over + 1, Len(all))
           out == ClientsOf(SubSeq(all, 1, over))
           row == [borrower[b] EXCEPT !.pc = "trim", !.client = NoClient, !.closing = out]
<1>1. /\ PoolTypeOK /\ HostLogins # {} /\ AtPlace(b) /\ borrower[b].pc = "use"
      /\ k \in Pooled /\ Held(b) = {c}
  BY HeldAt DEF PoolInv, Return, BorrowerAt
<1>2. borrower[b] \in BorrowerType /\ h \in HostLogins /\ c \in Clients /\ client[c].login = h
  BY <1>1, TypeOfBorrower DEF AtPlace, PoolInv, UsesOwnLogin
<1>3. /\ pool' = [pool EXCEPT ![k][h] = left] /\ client' = client /\ hostLogin' = hostLogin
      /\ accepted' = accepted /\ lost' = lost /\ borrower' = [borrower EXCEPT ![b] = row]
  <2>1. pool' = [pool EXCEPT ![k][h] = left] BY DEF Return
  <2>2. borrower' = [borrower EXCEPT ![b].pc = "trim", ![b].client = NoClient, ![b].closing = out]
    BY DEF Return
  <2>3. client' = client /\ hostLogin' = hostLogin /\ accepted' = accepted /\ lost' = lost BY DEF Return
  <2> HIDE DEF out
  <2>4. borrower' = [borrower EXCEPT ![b] = row] BY <2>2
  <2> QED BY <2>1, <2>3, <2>4
<1>4. /\ pool[k][h] \in Seq(Entry) /\ Distinct(pool[k][h]) /\ c \notin ClientsOf(pool[k][h])
      /\ Len(pool[k][h]) <= MaxIdle
  <2>1. c \notin Idling BY <1>1 DEF PoolInv, ExclusiveUse
  <2> QED BY <2>1, <1>1, <1>2, Idles DEF PoolTypeOK, PoolInv, ExclusiveUse, Distinct, IdleWithinLimit
<1>5. /\ all \in Seq(Entry) /\ Distinct(all) /\ ClientsOf(all) = ClientsOf(pool[k][h]) \cup {c}
  <2> DEFINE e == [client |-> c, old |-> FALSE]
  <2>1. e \in Entry /\ e.client = c BY <1>2 DEF Entry
  <2> HIDE DEF e
  <2>2. /\ Append(pool[k][h], e) \in Seq(Entry) /\ Distinct(Append(pool[k][h], e))
        /\ ClientsOf(Append(pool[k][h], e)) = ClientsOf(pool[k][h]) \cup {c}
    BY <2>1, <1>4, OneMore
  <2> QED BY <2>2 DEF e
<1> HIDE DEF all
<1>6. over \in 0..Len(all) /\ Len(all) - over <= MaxIdle BY <1>5, PoolAssumption
<1> HIDE DEF over
<1>7. /\ left \in Seq(Entry) /\ Len(left) = Len(all) - over /\ Distinct(left)
      /\ ClientsOf(all) = out \cup ClientsOf(left) /\ out \cap ClientsOf(left) = {}
  BY <1>5, <1>6, Cut
<1> HIDE DEF left, out
<1>8. out \subseteq Clients
  <2>1. ClientsOf(all) \subseteq Clients BY <1>5, Clean
  <2> QED BY <2>1, <1>7
<1>9. /\ row \in BorrowerType /\ row.pc = "trim" /\ row.client = NoClient /\ row.closing = out
      /\ row.kind = k
  BY <1>2, <1>8 DEF BorrowerType, BorrowerPC
<1> HIDE DEF row
<1>10. /\ borrower'[b] = row /\ Held(b)' = out
       /\ borrower' \in [Borrowers -> BorrowerType]
       /\ \A a \in Borrowers \ {b} : borrower'[a] = borrower[a]
  BY <1>1, <1>3, <1>9, RowOf
<1>11. /\ pool' \in [Pooled -> [HostLogins -> Seq(Entry)]] /\ pool'[k][h] = left
       /\ \A j \in Pooled, l \in HostLogins : <<j, l>> # <<k, h>> => pool'[j][l] = pool[j][l]
  BY <1>1, <1>2, <1>3, <1>7 DEF PoolTypeOK
<1>12. PoolTypeOK' BY <1>1, <1>3, <1>10, <1>11 DEF PoolTypeOK, BorrowerType
<1>13. \A j, i \in Pooled, l, m \in HostLogins :
         <<j, l>> # <<i, m>> => ClientsOf(pool[j][l]) \cap ClientsOf(pool[i][m]) = {}
  BY DEF PoolInv, ExclusiveUse
<1>14. \A j \in Pooled, l \in HostLogins : c \notin ClientsOf(pool[j][l])
  <2>1. c \notin Idling BY <1>1 DEF PoolInv, ExclusiveUse
  <2> QED BY <2>1, Idles
<1>15. ClientsOf(left) \subseteq ClientsOf(pool[k][h]) \cup {c} BY <1>5, <1>7
<1>16. Held(b)' \cup Idling' = Held(b) \cup Idling
  <2>1. ASSUME NEW d, d \in Idling PROVE d \in Idling' \cup out
    <3>1. PICK j \in Pooled, l \in HostLogins : d \in ClientsOf(pool[j][l]) BY <2>1, Idles
    <3>2. CASE <<j, l>> = <<k, h>>
      <4>1. d \in out \cup ClientsOf(pool'[k][h]) BY <3>1, <3>2, <1>5, <1>7, <1>11
      <4> QED BY <4>1, <1>1, <1>2, IdlesNext
    <3>3. CASE <<j, l>> # <<k, h>> BY <3>1, <3>3, <1>11, IdlesNext
    <3> QED BY <3>2, <3>3
  <2>2. c \in Idling' \cup out
    <3>1. c \in out \cup ClientsOf(pool'[k][h]) BY <1>5, <1>7, <1>11
    <3> QED BY <3>1, <1>1, <1>2, IdlesNext
  <2>3. ASSUME NEW d, d \in Idling' PROVE d \in Idling \cup {c}
    <3>1. PICK j \in Pooled, l \in HostLogins : d \in ClientsOf(pool'[j][l]) BY <2>3, IdlesNext
    <3>2. d \in ClientsOf(pool[j][l]) \cup {c} BY <3>1, <1>11, <1>15
    <3> QED BY <3>2, Idles
  <2>4. out \subseteq Idling \cup {c}
    <3>1. ClientsOf(pool[k][h]) \subseteq Idling BY <1>1, <1>2, Idles
    <3> QED BY <3>1, <1>5, <1>7
  <2> QED BY <2>1, <2>2, <2>3, <2>4, <1>1, <1>10
<1>17. Held(b)' \cap Idling' = {}
  <2>1. SUFFICES ASSUME NEW d \in out, d \in Idling' PROVE FALSE BY <1>10
  <2>2. PICK j \in Pooled, l \in HostLogins : d \in ClientsOf(pool'[j][l]) BY <2>1, IdlesNext
  <2>3. d \in ClientsOf(pool[k][h]) \cup {c} BY <1>5, <1>7
  <2>4. CASE <<j, l>> = <<k, h>> BY <2>1, <2>2, <2>4, <1>7, <1>11
  <2>5. CASE <<j, l>> # <<k, h>>
    <3>1. d \in ClientsOf(pool[j][l]) BY <2>2, <2>5, <1>11
    <3> QED BY <3>1, <2>3, <2>5, <1>1, <1>2, <1>13, <1>14
  <2> QED BY <2>4, <2>5
<1>18. ASSUME NEW j \in Pooled, NEW l \in HostLogins
       PROVE  /\ Distinct(pool'[j][l]) /\ Len(pool'[j][l]) <= MaxIdle
              /\ \A d \in ClientsOf(pool'[j][l]) : client[d].login = l
  <2>1. \A d \in ClientsOf(pool[j][l]) : client[d].login = l BY DEF PoolInv, UsesOwnLogin
  <2>2. CASE <<j, l>> = <<k, h>>
    <3>1. pool'[j][l] = left BY <2>2, <1>11
    <3>2. Len(left) <= MaxIdle BY <1>6, <1>7
    <3>3. \A d \in ClientsOf(left) : client[d].login = l BY <2>1, <2>2, <1>2, <1>15
    <3> QED BY <3>1, <3>2, <3>3, <1>7
  <2>3. CASE <<j, l>> # <<k, h>>
    <3>1. pool'[j][l] = pool[j][l] BY <2>3, <1>11
    <3>2. Distinct(pool[j][l]) /\ Len(pool[j][l]) <= MaxIdle
      BY DEF PoolInv, ExclusiveUse, Distinct, IdleWithinLimit
    <3> QED BY <2>1, <3>1, <3>2
  <2> QED BY <2>2, <2>3
<1>19. ASSUME NEW j \in Pooled, NEW i \in Pooled, NEW l \in HostLogins, NEW m \in HostLogins,
              <<j, l>> # <<i, m>>
       PROVE  ClientsOf(pool'[j][l]) \cap ClientsOf(pool'[i][m]) = {}
  <2>1. ClientsOf(pool[j][l]) \cap ClientsOf(pool[i][m]) = {} BY <1>13, <1>19
  <2>2. c \notin ClientsOf(pool[j][l]) /\ c \notin ClientsOf(pool[i][m]) BY <1>14
  <2>3. CASE <<j, l>> = <<k, h>> BY <2>1, <2>2, <2>3, <1>11, <1>15, <1>19
  <2>4. CASE <<i, m>> = <<k, h>> BY <2>1, <2>2, <2>4, <1>11, <1>15, <1>19
  <2>5. CASE <<j, l>> # <<k, h>> /\ <<i, m>> # <<k, h>> BY <2>1, <2>5, <1>11
  <2> QED BY <2>3, <2>4, <2>5
<1>20. AtPlace(b)' BY <1>1, <1>8, <1>9, <1>10, PoolAssumption DEF AtPlace
<1>21. LoginOf(b)' BY <1>9, <1>10 DEF LoginOf
<1>22. borrower'[b].pc \notin {"use", "channel"} BY <1>9, <1>10
<1> HIDE DEF k, h, c
<1> QED BY <1>3, <1>10, <1>12, <1>16, <1>17, <1>18, <1>19, <1>20, <1>21, <1>22, PoolMoves
----------------------------------------------------------------------------
(* Steps that are of no request. *)

LEMMA DropStep ==
  ASSUME PoolInv, NEW c \in Clients, Drop(c)
  PROVE  PoolInv'
<1>1. PoolTypeOK BY DEF PoolInv
<1>2. /\ pool' = pool /\ hostLogin' = hostLogin /\ accepted' = accepted /\ lost' = lost /\ borrower' = borrower
      /\ client' = [client EXCEPT ![c].alive = FALSE]
  BY DEF Drop
<1>3. /\ client' \in [Clients -> ClientRow]
      /\ \A d \in Clients : client'[d].open = client[d].open /\ client'[d].login = client[d].login
  <2>1. client \in [Clients -> ClientRow] BY <1>1 DEF PoolTypeOK
  <2>2. \A r \in ClientRow : /\ [r EXCEPT !.alive = FALSE] \in ClientRow
                             /\ [r EXCEPT !.alive = FALSE].open = r.open
                             /\ [r EXCEPT !.alive = FALSE].login = r.login
    BY DEF ClientRow
  <2>3. client' = [client EXCEPT ![c] = [client[c] EXCEPT !.alive = FALSE]] BY <1>2
  <2> QED BY <2>1, <2>2, <2>3
<1>4. PoolTypeOK' BY <1>1, <1>2, <1>3 DEF PoolTypeOK
<1>5. /\ Idling' = Idling /\ \A k \in Pooled, l \in HostLogins : ClientsOf(pool[k][l])' = ClientsOf(pool[k][l])
  BY <1>2 DEF Idling, ClientsOf
<1>6. \A b \in Borrowers : Held(b)' = Held(b) /\ Candidates(b)' = Candidates(b)
  BY <1>2 DEF Held, Candidates
<1>7. \A k \in Pooled, l \in HostLogins : ClientsOf(pool[k][l]) \subseteq Clients
  BY <1>1, Clean DEF PoolTypeOK
<1>8. Idling \subseteq Clients BY <1>7, Idles
<1>9. \A b \in Borrowers : Held(b) \subseteq Clients BY <1>1, TypeOfBorrower
<1>10. ASSUME NEW b \in Borrowers PROVE AtPlace(b)' /\ LoginOf(b)'
  <2>1. AtPlace(b) /\ LoginOf(b) BY DEF PoolInv
  <2>2. AtPlace(b)' BY <2>1, <1>2, <1>6 DEF AtPlace
  <2>3. borrower[b].pc = "persist" => borrower[b].client # NoClient BY <2>1 DEF AtPlace
  <2>4. borrower[b].client \in Clients \cup {NoClient} BY <1>1, TypeOfBorrower
  <2>5. LoginOf(b)' BY <2>1, <2>3, <2>4, <1>2, <1>3, <1>6 DEF LoginOf
  <2> QED BY <2>2, <2>5
<1>11. HeldAreOpen' BY <1>3, <1>6, <1>9 DEF PoolInv, HeldAreOpen
<1>12. IdleAreOpen' BY <1>3, <1>5, <1>8 DEF PoolInv, IdleAreOpen
<1>13. ExclusiveUse' BY <1>2, <1>5, <1>6 DEF PoolInv, ExclusiveUse
<1>14. UsesOwnLogin'
  <2>1. ASSUME NEW b \in Borrowers, borrower'[b].pc \in {"use", "channel"}
        PROVE  /\ client'[borrower'[b].client].open
               /\ client'[borrower'[b].client].login = borrower'[b].host
    <3>1. borrower[b].client \in Clients
      <4>1. AtPlace(b) BY DEF PoolInv
      <4> QED BY <4>1, <2>1, <1>1, <1>2, TypeOfBorrower DEF AtPlace
    <3> QED BY <3>1, <2>1, <1>2, <1>3 DEF PoolInv, UsesOwnLogin
  <2>2. \A k \in Pooled, l \in HostLogins : \A d \in ClientsOf(pool[k][l])' : client'[d].login = l
    BY <1>3, <1>5, <1>7 DEF PoolInv, UsesOwnLogin
  <2> QED BY <2>1, <2>2 DEF UsesOwnLogin
<1>15. NoConnectionLost' BY <1>2, <1>3, <1>5, <1>6 DEF PoolInv, NoConnectionLost
<1>16. IdleWithinLimit' BY <1>2 DEF PoolInv, IdleWithinLimit
<1>17. HostLogins # {} BY DEF PoolInv
<1> QED BY <1>4, <1>10, <1>11, <1>12, <1>13, <1>14, <1>15, <1>16, <1>17 DEF PoolInv

LEMMA AgeStep ==
  ASSUME PoolInv, PoolAges
  PROVE  PoolInv'
<1>1. PoolTypeOK BY DEF PoolInv
<1>2. /\ client' = client /\ hostLogin' = hostLogin /\ accepted' = accepted /\ lost' = lost
      /\ borrower' = borrower
  BY DEF PoolAges
<1>3. ASSUME NEW k \in Pooled, NEW l \in HostLogins
      PROVE  /\ pool'[k][l] \in Seq(Entry) /\ DOMAIN pool'[k][l] = DOMAIN pool[k][l]
             /\ Len(pool'[k][l]) = Len(pool[k][l])
             /\ \A i \in DOMAIN pool[k][l] : pool'[k][l][i].client = pool[k][l][i].client
  <2>1. pool[k][l] \in Seq(Entry) BY <1>1 DEF PoolTypeOK
  <2>2. pool'[k][l] = [i \in DOMAIN pool[k][l] |-> [pool[k][l][i] EXCEPT !.old = TRUE]]
    BY DEF PoolAges
  <2>3. \A i \in DOMAIN pool[k][l] :
          /\ [pool[k][l][i] EXCEPT !.old = TRUE] \in Entry
          /\ [pool[k][l][i] EXCEPT !.old = TRUE].client = pool[k][l][i].client
    <3>1. \A e \in Entry : [e EXCEPT !.old = TRUE] \in Entry /\ [e EXCEPT !.old = TRUE].client = e.client
      BY DEF Entry
    <3>2. \A i \in DOMAIN pool[k][l] : pool[k][l][i] \in Entry BY <2>1
    <3> QED BY <3>1, <3>2
  <2>4. DOMAIN pool[k][l] = 1..Len(pool[k][l]) /\ Len(pool[k][l]) \in Nat BY <2>1
  <2>5. pool'[k][l] \in [1..Len(pool[k][l]) -> Entry] BY <2>2, <2>3, <2>4
  <2>6. \A s, n : n \in Nat /\ s \in [1..n -> Entry] => s \in Seq(Entry) /\ Len(s) = n OBVIOUS
  <2> QED BY <2>2, <2>3, <2>4, <2>5, <2>6
<1>4. pool' \in [Pooled -> [HostLogins -> Seq(Entry)]]
  <2>1. pool' = [k \in Pooled |-> [l \in HostLogins |-> pool'[k][l]]] BY DEF PoolAges
  <2> QED BY <2>1, <1>3
<1>5. PoolTypeOK' BY <1>1, <1>2, <1>4 DEF PoolTypeOK
<1>6. \A k \in Pooled, l \in HostLogins : ClientsOf(pool'[k][l]) = ClientsOf(pool[k][l])
  BY <1>3 DEF ClientsOf
<1>7. \A k \in Pooled, l \in HostLogins : ClientsOf(pool[k][l])' = ClientsOf(pool[k][l])
  <2>1. \A k \in Pooled, l \in HostLogins : ClientsOf(pool[k][l])' = ClientsOf(pool'[k][l])
    BY DEF ClientsOf
  <2> QED BY <2>1, <1>6
<1>8. Idling' = Idling
  <2>1. \A c : c \in Idling' <=> c \in Idling BY <1>6, Idles, IdlesNext
  <2> QED BY <2>1
<1>9. \A b \in Borrowers : Held(b)' = Held(b) /\ Candidates(b)' = Candidates(b)
  BY <1>2 DEF Held, Candidates
<1>10. ASSUME NEW b \in Borrowers PROVE AtPlace(b)' /\ LoginOf(b)'
  <2>1. AtPlace(b) /\ LoginOf(b) BY DEF PoolInv
  <2>2. AtPlace(b)' BY <2>1, <1>2, <1>9 DEF AtPlace
  <2>3. LoginOf(b)' BY <2>1, <1>2, <1>9 DEF LoginOf
  <2> QED BY <2>2, <2>3
<1>11. HeldAreOpen' BY <1>2, <1>9 DEF PoolInv, HeldAreOpen
<1>12. IdleAreOpen' BY <1>2, <1>8 DEF PoolInv, IdleAreOpen
<1>13. ExclusiveUse'
  <2>1. \A k \in Pooled, l \in HostLogins : \A i, j \in DOMAIN pool'[k][l] :
          pool'[k][l][i].client = pool'[k][l][j].client => i = j
    BY <1>3 DEF PoolInv, ExclusiveUse
  <2> QED BY <2>1, <1>7, <1>8, <1>9 DEF PoolInv, ExclusiveUse
<1>14. UsesOwnLogin' BY <1>2, <1>7 DEF PoolInv, UsesOwnLogin
<1>15. NoConnectionLost' BY <1>2, <1>8, <1>9 DEF PoolInv, NoConnectionLost
<1>16. IdleWithinLimit' BY <1>3 DEF PoolInv, IdleWithinLimit
<1>17. HostLogins # {} BY DEF PoolInv
<1> QED BY <1>5, <1>10, <1>11, <1>12, <1>13, <1>14, <1>15, <1>16, <1>17 DEF PoolInv

\* Nothing but the row of the host changes; once it is gone it stays so.
LEMMA HostStep ==
  ASSUME PoolInv, hostLogin # "gone", hostLogin' \in HostLogins \cup {"gone"},
         UNCHANGED <<accepted, client, pool, borrower, lost>>
  PROVE  PoolInv'
<1>1. PoolTypeOK' BY DEF PoolInv, PoolTypeOK
<1>2. Idling' = Idling /\ \A k \in Pooled, l \in HostLogins : ClientsOf(pool[k][l])' = ClientsOf(pool[k][l])
  BY DEF Idling, ClientsOf
<1>3. \A b \in Borrowers : Held(b)' = Held(b) /\ Candidates(b)' = Candidates(b)
  BY DEF Held, Candidates
<1>4. ASSUME NEW b \in Borrowers PROVE AtPlace(b)' /\ LoginOf(b)'
  <2>1. AtPlace(b) /\ LoginOf(b) BY DEF PoolInv
  <2>2. AtPlace(b)' BY <2>1, <1>3 DEF AtPlace
  <2>3. LoginOf(b)' BY <2>1, <1>3 DEF LoginOf
  <2> QED BY <2>2, <2>3
<1>5. HeldAreOpen' /\ IdleAreOpen' BY <1>2, <1>3 DEF PoolInv, HeldAreOpen, IdleAreOpen
<1>6. ExclusiveUse' BY <1>2, <1>3 DEF PoolInv, ExclusiveUse
<1>7. UsesOwnLogin' BY <1>2 DEF PoolInv, UsesOwnLogin
<1>8. NoConnectionLost' BY <1>2, <1>3 DEF PoolInv, NoConnectionLost
<1>9. IdleWithinLimit' BY DEF PoolInv, IdleWithinLimit
<1>10. HostLogins # {} BY DEF PoolInv
<1> QED BY <1>1, <1>4, <1>5, <1>6, <1>7, <1>8, <1>9, <1>10 DEF PoolInv

LEMMA StutterStep ==
  ASSUME PoolInv, UNCHANGED poolVars
  PROVE  PoolInv'
<1>1. UNCHANGED <<hostLogin, accepted, client, pool, borrower, lost>> BY DEF poolVars
<1>2. Idling' = Idling /\ \A k \in Pooled, l \in HostLogins : ClientsOf(pool[k][l])' = ClientsOf(pool[k][l])
  BY <1>1 DEF Idling, ClientsOf
<1>3. \A b \in Borrowers : Held(b)' = Held(b) /\ Candidates(b)' = Candidates(b)
  BY <1>1 DEF Held, Candidates
<1>4. ASSUME NEW b \in Borrowers PROVE AtPlace(b)' /\ LoginOf(b)'
  <2>1. AtPlace(b) /\ LoginOf(b) BY DEF PoolInv
  <2> QED BY <2>1, <1>1, <1>3 DEF AtPlace, LoginOf
<1>5. PoolTypeOK' /\ HeldAreOpen' /\ IdleAreOpen'
  BY <1>1, <1>2, <1>3 DEF PoolInv, PoolTypeOK, HeldAreOpen, IdleAreOpen
<1>6. ExclusiveUse' /\ UsesOwnLogin' BY <1>1, <1>2, <1>3 DEF PoolInv, ExclusiveUse, UsesOwnLogin
<1>7. NoConnectionLost' /\ IdleWithinLimit'
  BY <1>1, <1>2, <1>3 DEF PoolInv, NoConnectionLost, IdleWithinLimit
<1>8. HostLogins # {} BY DEF PoolInv
<1> QED BY <1>4, <1>5, <1>6, <1>7, <1>8 DEF PoolInv
----------------------------------------------------------------------------
LEMMA InvInit ==
  PoolInit => PoolInv
<1> SUFFICES ASSUME PoolInit PROVE PoolInv OBVIOUS
<1>1. HostLogins # {} BY DEF PoolInit
<1>2. \A b \in Borrowers : borrower[b] = NoBorrow BY DEF PoolInit
<1>3. /\ NoBorrow \in BorrowerType /\ NoBorrow.pc = "idle" /\ NoBorrow.client = NoClient
      /\ NoBorrow.closing = {}
  BY <1>1, NoBorrowType
<1>4. \A k \in Pooled, l \in HostLogins : pool[k][l] = <<>> BY DEF PoolInit
<1>5. \A k \in Pooled, l \in HostLogins : ClientsOf(pool[k][l]) = {} BY <1>4 DEF ClientsOf
<1>6. Idling = {} BY <1>5, Idles
<1>7. \A b \in Borrowers : Held(b) = {} BY <1>2, <1>3 DEF Held
<1>8. PoolTypeOK
  <2>1. client \in [Clients -> ClientRow] BY <1>1, NoConnectionType DEF PoolInit
  <2>2. pool \in [Pooled -> [HostLogins -> Seq(Entry)]] BY DEF PoolInit
  <2>3. borrower \in [Borrowers -> BorrowerType] BY <1>3 DEF PoolInit
  <2> QED BY <2>1, <2>2, <2>3 DEF PoolInit, PoolTypeOK, BorrowerType
<1>9. \A b \in Borrowers : AtPlace(b) /\ LoginOf(b) BY <1>2, <1>3 DEF AtPlace, LoginOf
<1>10. HeldAreOpen /\ IdleAreOpen BY <1>6, <1>7 DEF HeldAreOpen, IdleAreOpen
<1>11. ExclusiveUse
  <2>1. \A k \in Pooled, l \in HostLogins : \A i, j \in DOMAIN pool[k][l] : FALSE BY <1>4
  <2> QED BY <2>1, <1>5, <1>6, <1>7 DEF ExclusiveUse
<1>12. UsesOwnLogin BY <1>2, <1>3, <1>5 DEF UsesOwnLogin
<1>13. NoConnectionLost BY <1>1, NoConnectionType DEF PoolInit, NoConnectionLost
<1>14. IdleWithinLimit BY <1>4, PoolAssumption DEF IdleWithinLimit
<1> QED BY <1>1, <1>8, <1>9, <1>10, <1>11, <1>12, <1>13, <1>14 DEF PoolInv

LEMMA InvStep ==
  ASSUME PoolInv, [PoolNext]_poolVars
  PROVE  PoolInv'
<1>1. ASSUME NEW b \in Borrowers, BorrowerStep(b) PROVE PoolInv'
  <2>1. ASSUME NEW k \in Purposes, Borrow(b, k) PROVE PoolInv' BY <2>1, BorrowStep
  <2>2. CASE TakePooled(b) BY <2>2, TakeStep
  <2>3. CASE SweepExpired(b) BY <2>3, SweepStep
  <2>4. ASSUME NEW c \in NewClients, ConnectWith(b, c) PROVE PoolInv' BY <2>4, ConnectStep
  <2>5. CASE ConnectFails(b) BY <2>5, ConnectFailsStep
  <2>6. CASE ConnectUnreachable(b) \/ PersistFails(b) \/ TrimPool(b) \/ Discard(b) \/ Abandon(b)
    BY <2>6, EndingSteps
  <2>7. CASE Persist(b) BY <2>7, PersistStep
  <2>8. CASE OpenChannel(b) BY <2>8, ChannelStep
  <2>9. CASE Return(b) BY <2>9, ReturnStep
  <2> QED BY <1>1, <2>1, <2>2, <2>3, <2>4, <2>5, <2>6, <2>7, <2>8, <2>9 DEF BorrowerStep
<1>2. ASSUME NEW c \in Clients, Drop(c) PROVE PoolInv' BY <1>2, DropStep
<1>3. CASE PoolAges BY <1>3, AgeStep
<1>4. CASE DeleteHost BY <1>4, HostStep DEF DeleteHost
<1>5. ASSUME NEW l \in HostLogins, EditHost(l) PROVE PoolInv' BY <1>5, HostStep DEF EditHost
<1>6. CASE UNCHANGED poolVars BY <1>6, StutterStep
<1> QED BY <1>1, <1>2, <1>3, <1>4, <1>5, <1>6 DEF PoolNext

THEOREM PoolInvariant == PoolSpec => []PoolInv
<1>1. PoolInit => PoolInv BY InvInit
<1>2. PoolInv /\ [PoolNext]_poolVars => PoolInv' BY InvStep
<1> QED BY <1>1, <1>2, PTL DEF PoolSpec

\* The rows of the pool keep their types, whatever requests, expiry, drops and edits do
\* (borrow_ssh_client, borrow_sftp_client, open_ssh_client).
THEOREM PoolTypes == PoolSpec => []PoolTypeOK
<1>1. PoolInv => PoolTypeOK BY DEF PoolInv
<1> QED BY <1>1, PoolInvariant, PTL

\* A client serves one request at a time with the login of its host, in use or idle in one
\* place; none is lost but by an aborted download or the deletion of its host under it, and
\* idle ones stay within the limit (borrow_ssh_client, borrow_sftp_client).
THEOREM PoolIsExclusive == PoolSpec => []PoolHolds
<1>1. PoolInv => PoolHolds BY DEF PoolInv, PoolHolds
<1> QED BY <1>1, PoolInvariant, PTL

----------------------------------------------------------------------------
(* The parts together. *)

\* Every record of the stores keeps its type, in any interleaving of the parts.
THEOREM StoreTypesCorrect == StoresSpec => []TypesOK
BY DbTypeCorrect, CatalogTypeCorrect, RedisTypeCorrect, PoolTypes, PTL DEF StoresSpec, TypesOK
=============================================================================
