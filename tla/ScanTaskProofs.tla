--------------------------- MODULE ScanTaskProofs ---------------------------
(***************************************************************************)
(* Theorems about ScanTask, for any numbers of tasks, targets, threads,    *)
(* requests, retries and stops: rows and threads keep their types, no host *)
(* is scanned by two threads, a target shows the findings of its last scan, *)
(* and a completed task has scanned or skipped every host.                 *)
(*                                                                         *)
(* Threads and retry requests share no lock.  What keeps them apart is that *)
(* every target not yet done belongs to one of them (Claim, Asked): the    *)
(* first thread has all of them, a retry takes the failed ones, which      *)
(* nobody has any more.  ClaimsApart states this, and UntilScanned that    *)
(* what is claimed is still as new: so a retry's deletion of findings and  *)
(* a thread's saves never meet on one target.  Two requests that prepare a *)
(* retry of one task at a time both take the failed targets: of such a     *)
(* task (overlapped) nothing but its types is claimed.                     *)
(***************************************************************************)
EXTENDS ScanTask, FiniteSetTheorems, WellFoundedInduction, NaturalsInduction, TLAPS

\* The targets a thread has still to scan, and those a retry request has taken.
Claim(r) == IF thread[r].pc \in {"get", "open", "fetch"} /\ ~thread[r].retry THEN Targets
            ELSE thread[r].todo
AtWork(r)   == IF thread[r].pc \in {"scan", "save"} THEN {thread[r].at} ELSE {}
Asked(v) == IF scanView[v].pc \in {"clear", "reset", "queue", "start"} THEN scanView[v].ids ELSE {}

ClaimsApart ==
    /\ \A r, q \in Threads :
         r # q /\ thread[r].pc # "none" /\ thread[q].pc # "none" /\ thread[r].scan = thread[q].scan
         /\ ~overlapped[thread[r].scan]
           => (Claim(r) \cup AtWork(r)) \cap (Claim(q) \cup AtWork(q)) = {}
    /\ \A r \in Threads, v \in ScanViews :
         thread[r].pc # "none" /\ thread[r].scan = scanView[v].scan /\ ~overlapped[thread[r].scan]
           => (Claim(r) \cup AtWork(r)) \cap Asked(v) = {}
    /\ \A v, w \in ScanViews :
         v # w /\ scanView[v].scan = scanView[w].scan /\ ~overlapped[scanView[v].scan]
           => Asked(v) \cap Asked(w) = {}

\* The row of a target a thread has claimed, or has at work.
Fresh(r) ==
    /\ \A x \in Claim(r) : target[thread[r].scan][x] = NewTarget
    /\ AtWork(r) \cap Claim(r) = {}
    /\ \A x \in AtWork(r) :
         /\ target[thread[r].scan][x].status \in {"pending", "running"}
         /\ thread[r].pc = "scan" => target[thread[r].scan][x].findings = 0

\* The row of a target a request has listed: failed, without findings, at last as new.
Listed(v, x) ==
    \/ target[scanView[v].scan][x] = NewTarget
    \/ /\ scanView[v].pc \in {"clear", "reset"} /\ target[scanView[v].scan][x].status = "failed"
       /\ scanView[v].pc = "reset" => target[scanView[v].scan][x].findings = 0

\* What is claimed is as new; the target at work has no findings before they are stored.
UntilScanned ==
    /\ \A r \in Threads : thread[r].pc # "none" /\ ~overlapped[thread[r].scan] => Fresh(r)
    /\ \A v \in ScanViews : ~overlapped[scanView[v].scan] => \A x \in Asked(v) : Listed(v, x)

PlaceOf(r) ==
    /\ thread[r].pc = "save" => thread[r].verdict \in {"failed", "completed"}
    /\ thread[r].pc \in {"verdict", "lastCount", "close"} =>
         thread[r].verdict \in {"running", "completed", "failed", "canceled"}

Places ==
    /\ \A r \in Threads : PlaceOf(r)
    /\ \A v \in ScanViews :
         /\ scanView[v].pc \in {"clear", "reset", "queue", "start"} => scanView[v].ids # {}
         /\ scanView[v].pc = "cancel" => scanView[v].status \in {"canceled", "running"}

\* A task that was not created has nothing.
NotYet == \A t \in Scans : scan[t].status = "none" =>
    /\ Working(t) = {}
    /\ \A v \in ScanViews : scanView[v].pc # "idle" => scanView[v].scan # t
    /\ \A x \in Targets : target[t][x] = NewTarget

\* How a thread comes to call its task completed, when it is alone.
AloneToTheEnd == \A t \in Scans : ~raced[t] /\ ~overlapped[t] =>
    /\ \A r, q \in Working(t) : r = q
    /\ scan[t].status = "completed" => Working(t) = {}
    /\ Present(t) => \A r \in Working(t) : thread[r].verdict = "completed" =>
         /\ thread[r].pc = "verdict" => Having(t, {"failed"}) = {}
         /\ thread[r].pc \in {"lastCount", "close"} => Having(t, {"completed", "skipped"}) = Targets
         /\ thread[r].pc = "close" => thread[r].counts = CountersOf(t)

ScanInv == ScanTypeOK /\ Places /\ ClaimsApart /\ UntilScanned /\ NotYet /\ AloneToTheEnd
           /\ FindingsOfOneScan /\ CompletedMeansScanned
----------------------------------------------------------------------------
(* Counters. *)

\* Induction on the natural numbers, for a set instead of a predicate.
LEMMA Induction ==
  ASSUME NEW S \in SUBSET Nat, 0 \in S, \A n \in S : n + 1 \in S
  PROVE  S = Nat
<1> SUFFICES ASSUME S # Nat PROVE FALSE
  OBVIOUS
<1>1. IsWellFoundedOn(OpToRel(<, Nat), Nat)
  BY NatLessThanWellFounded
<1>2. Nat \ S \subseteq Nat /\ Nat \ S # {}
  OBVIOUS
<1>3. \E n \in Nat \ S : \A m \in Nat \ S : ~ (<<m, n>> \in OpToRel(<, Nat))
  BY <1>1, <1>2, WFMin, Zenon
<1>4. PICK n \in Nat \ S : \A m \in Nat \ S : ~ (<<m, n>> \in OpToRel(<, Nat))
  BY <1>3
<1>5. \A m \in Nat \ S : ~ (m < n)
  BY <1>4 DEF OpToRel
<1>6. n # 0 /\ n - 1 \in Nat /\ n - 1 < n
  BY <1>2
<1>7. n - 1 \in S /\ (n - 1) + 1 = n
  BY <1>5, <1>6
<1> QED BY <1>7

\* The recursive function of Findings exists, and its values are natural numbers.
Sums(g, n, f) == f = [i \in 0..n |-> IF i = 0 THEN 0 ELSE f[i - 1] + g[i]]

LEMMA SumExists ==
  ASSUME NEW g, NEW n \in Nat
  PROVE  \E f : Sums(g, n, f)
<1> DEFINE D == {m \in Nat : \E f : Sums(g, m, f)}
<1>1. 0 \in D
  <2> DEFINE f == [i \in 0..0 |-> 0]
  <2>1. Sums(g, 0, f) BY DEF Sums
  <2> QED BY <2>1
<1>2. ASSUME NEW m \in D PROVE m + 1 \in D
  <2>1. m \in Nat OBVIOUS
  <2>2. PICK f : Sums(g, m, f) OBVIOUS
  <2> DEFINE h == [i \in 0..(m + 1) |-> IF i <= m THEN f[i] ELSE f[m] + g[m + 1]]
  <2>3. \A i \in 0..m : f[i] = IF i = 0 THEN 0 ELSE f[i - 1] + g[i] BY <2>2 DEF Sums
  <2>4. \A i \in 0..m : h[i] = f[i] BY <2>1
  <2>5. h[m + 1] = f[m] + g[m + 1] BY <2>1
  <2>6. ASSUME NEW i \in 0..(m + 1) PROVE h[i] = IF i = 0 THEN 0 ELSE h[i - 1] + g[i]
    <3>1. CASE i = m + 1
      <4>1. i # 0 /\ i - 1 = m /\ m \in 0..m BY <3>1, <2>1
      <4>2. h[i - 1] = f[m] BY <4>1, <2>4
      <4> QED BY <4>1, <4>2, <3>1, <2>5
    <3>2. CASE i = 0
      <4>1. 0 \in 0..m BY <2>1
      <4> QED BY <4>1, <3>2, <2>3, <2>4
    <3>3. CASE i # m + 1 /\ i # 0
      <4>1. i \in 0..m /\ i - 1 \in 0..m BY <3>3, <2>1
      <4>2. h[i] = f[i] /\ h[i - 1] = f[i - 1] BY <4>1, <2>4
      <4> HIDE DEF h
      <4> QED BY <4>1, <4>2, <3>3, <2>3
    <3> QED BY <3>1, <3>2, <3>3
  <2> DEFINE k == [i \in 0..(m + 1) |-> IF i = 0 THEN 0 ELSE h[i - 1] + g[i]]
  <2>7. h = k
    <3>1. \A i \in 0..(m + 1) : h[i] = k[i] BY <2>6
    <3>2. h = [i \in 0..(m + 1) |-> h[i]] /\ k = [i \in 0..(m + 1) |-> k[i]] OBVIOUS
    <3> QED BY <3>1, <3>2
  <2>8. Sums(g, m + 1, h) BY <2>7 DEF Sums
  <2> QED BY <2>1, <2>8
<1>3. D = Nat
  <2> HIDE DEF D
  <2>1. D \in SUBSET Nat BY DEF D
  <2> QED BY <1>1, <1>2, <2>1, Induction
<1> QED BY <1>3

LEMMA SumIsNat ==
  ASSUME NEW g, NEW n \in Nat, NEW f, Sums(g, n, f), \A i \in 1..n : g[i] \in Nat
  PROVE  f[n] \in Nat
<1>1. \A i \in 0..n : f[i] = IF i = 0 THEN 0 ELSE f[i - 1] + g[i] BY DEF Sums
<1> DEFINE D == {m \in Nat : m <= n => f[m] \in Nat}
<1>2. 0 \in D
  <2>1. 0 \in 0..n OBVIOUS
  <2> QED BY <1>1, <2>1
<1>3. ASSUME NEW m \in D PROVE m + 1 \in D
  <2>1. SUFFICES ASSUME m + 1 <= n PROVE f[m + 1] \in Nat OBVIOUS
  <2>2. m + 1 \in 0..n /\ m + 1 # 0 /\ (m + 1) - 1 = m /\ m + 1 \in 1..n BY <2>1
  <2>3. f[m] \in Nat BY <2>1
  <2> QED BY <1>1, <2>2, <2>3
<1>4. D = Nat
  <2> HIDE DEF D
  <2>1. D \in SUBSET Nat BY DEF D
  <2> QED BY <1>2, <1>3, <2>1, Induction
<1> QED BY <1>4

LEMMA FindingsAreNat ==
  ASSUME ScanTypeOK, NEW t \in Scans
  PROVE  Findings(t) \in Nat
<1> DEFINE g == [n \in 0..LastTarget |-> target[t][n].findings]
           f == CHOOSE u : u = [n \in 0..LastTarget |->
                                  IF n = 0 THEN 0 ELSE u[n - 1] + target[t][n].findings]
<1>1. LastTarget \in Nat BY ScanAssumption
<1>2. \A i \in 1..LastTarget : target[t][i].findings \in Nat
  BY DEF ScanTypeOK, TargetRow, Targets
<1>3. \A u : u = [n \in 0..LastTarget |-> IF n = 0 THEN 0 ELSE u[n - 1] + target[t][n].findings]
             <=> Sums(g, LastTarget, u)
  BY DEF Sums
<1>4. \E u : Sums(g, LastTarget, u) BY <1>1, SumExists
<1>5. Sums(g, LastTarget, f) BY <1>3, <1>4
<1>6. \A i \in 1..LastTarget : g[i] \in Nat BY <1>1, <1>2
<1>7. Findings(t) = f[LastTarget] BY DEF Findings
<1> HIDE DEF f, g
<1> QED BY <1>1, <1>5, <1>6, <1>7, SumIsNat

LEMMA CountersType ==
  ASSUME ScanTypeOK, NEW t \in Scans
  PROVE  CountersOf(t) \in Counters
<1>1. IsFiniteSet(Targets) BY ScanAssumption, FS_Interval DEF Targets
<1>2. \A S : Cardinality(Having(t, S)) \in 0..Cardinality(Targets)
  <2> SUFFICES ASSUME NEW S PROVE Cardinality(Having(t, S)) \in 0..Cardinality(Targets)
    OBVIOUS
  <2>1. Having(t, S) \in SUBSET Targets BY DEF Having
  <2>2. IsFiniteSet(Having(t, S)) /\ Cardinality(Having(t, S)) <= Cardinality(Targets)
    BY <1>1, <2>1, FS_Subset
  <2>3. Cardinality(Having(t, S)) \in Nat /\ Cardinality(Targets) \in Nat
    BY <1>1, <2>2, FS_CardinalityType
  <2> QED BY <2>2, <2>3
<1> QED BY <1>2, FindingsAreNat DEF CountersOf, Counters
----------------------------------------------------------------------------
(* Types, and what a step of one thread leaves alone. *)

LEMMA ThreadType ==
  ASSUME ScanTypeOK, NEW r \in Threads
  PROVE  /\ thread[r] \in ThreadRow /\ thread[r].scan \in Scans /\ thread[r].todo \subseteq Targets
         /\ thread[r].at \in Targets /\ thread[r].pc \in ThreadPC
         /\ thread[r].seen \in [Targets -> TargetStatus] /\ thread[r].verdict \in ScanStatus
         /\ thread[r].counts \in Counters /\ thread[r].retry \in BOOLEAN
         /\ thread[r].cancel \in BOOLEAN
<1>1. thread[r] \in ThreadRow BY DEF ScanTypeOK
<1> QED BY <1>1 DEF ThreadRow

LEMMA ViewType ==
  ASSUME ScanTypeOK, NEW v \in ScanViews
  PROVE  /\ scanView[v] \in ViewRow /\ scanView[v].scan \in Scans /\ scanView[v].ids \subseteq Targets
         /\ scanView[v].status \in ScanStatus
         /\ scanView[v].pc \in {"idle", "cancel", "clear", "reset", "queue", "start"}
<1>1. scanView[v] \in ViewRow BY DEF ScanTypeOK
<1> QED BY <1>1 DEF ViewRow

LEMMA ConstantRows ==
  /\ NoThread \in ThreadRow /\ NoThread.pc = "none" /\ NoThread.todo = {}
  /\ NoThread.verdict = "none" /\ NoThread.counts = NoCounters
  /\ NoThread.seen \in [Targets -> TargetStatus] /\ NoThread.at \in Targets
  /\ Idle \in ViewRow /\ Idle.pc = "idle" /\ Idle.ids = {}
  /\ NoCounters \in Counters
  /\ NewTarget \in TargetRow /\ NewTarget.status = "pending" /\ NewTarget.findings = 0
  /\ NewTarget.risk = 0
<1>1. (CHOOSE t \in Scans : TRUE) \in Scans BY ScanAssumption
<1>2. (CHOOSE x \in Targets : TRUE) \in Targets
  <2>1. 1 \in Targets BY ScanAssumption DEF Targets
  <2> QED BY <2>1
<1>3. 0 \in 0..Cardinality(Targets)
  <2>1. IsFiniteSet(Targets) BY ScanAssumption, FS_Interval DEF Targets
  <2>2. Cardinality(Targets) \in Nat BY <2>1, FS_CardinalityType
  <2> QED BY <2>2
<1>4. NoCounters \in Counters BY <1>3 DEF NoCounters, Counters
<1>5. NewTarget \in TargetRow /\ NewTarget.status = "pending" /\ NewTarget.findings = 0
      /\ NewTarget.risk = 0
  BY DEF NewTarget, TargetRow, TargetStatus
<1>6. Idle \in ViewRow /\ Idle.pc = "idle" /\ Idle.ids = {}
  BY <1>1 DEF Idle, ViewRow, ScanStatus
<1>7. [x \in Targets |-> "pending"] \in [Targets -> TargetStatus] BY DEF TargetStatus
<1>8. /\ NoThread \in ThreadRow /\ NoThread.pc = "none" /\ NoThread.todo = {}
      /\ NoThread.verdict = "none" /\ NoThread.counts = NoCounters
      /\ NoThread.seen \in [Targets -> TargetStatus] /\ NoThread.at \in Targets
  BY <1>1, <1>2, <1>4, <1>7 DEF NoThread, ThreadRow, ThreadPC, ScanStatus
<1> QED BY <1>4, <1>5, <1>6, <1>8

LEMMA WorkingOf ==
  ASSUME NEW t, NEW r \in Threads
  PROVE  r \in Working(t) <=> thread[r].pc # "none" /\ thread[r].scan = t
BY DEF Working

\* A task whose targets are not touched has the counts it had.
LEMMA SameCounts ==
  ASSUME NEW t, target'[t] = target[t]
  PROVE  CountersOf(t)' = CountersOf(t) /\ \A S : Having(t, S)' = Having(t, S)
BY DEF CountersOf, Having, Findings

\* A step of a thread on its own task and the targets it has claimed.
LEMMA ThreadMoves ==
  ASSUME ScanInv, ScanTypeOK', NEW r \in Threads, NEW t \in Scans,
         thread[r].pc # "none", thread[r].scan = t,
         scanView' = scanView, raced' = raced, overlapped' = overlapped,
         \A q \in Threads \ {r} : thread'[q] = thread[q],
         thread'[r].pc # "none" => thread'[r].scan = t,
         thread'[r].pc # "none" /\ ~overlapped[t] =>
            (Claim(r) \cup AtWork(r))' \subseteq Claim(r) \cup AtWork(r) /\ Fresh(r)',
         PlaceOf(r)',
         \A u \in Scans \ {t} : target'[u] = target[u] /\ scan'[u] = scan[u],
         ~overlapped[t] => \A x \in Targets \ (Claim(r) \cup AtWork(r)) : target'[t][x] = target[t][x],
         ~overlapped[t] => \A x \in Claim(r) \cup AtWork(r) :
            /\ target'[t][x].findings <= 1
            /\ target'[t][x].status = "completed" => target'[t][x].risk = target'[t][x].findings,
         scan[t].status \in {"none", "deleted"} <=> scan'[t].status \in {"none", "deleted"},
         scan'[t].status # "none",
         ~raced[t] /\ ~overlapped[t] /\ thread'[r].pc # "none" /\ Present(t)
         /\ thread'[r].verdict = "completed" =>
            /\ thread'[r].pc = "verdict" => Having(t, {"failed"})' = {}
            /\ thread'[r].pc \in {"lastCount", "close"} =>
                  Having(t, {"completed", "skipped"})' = Targets
            /\ thread'[r].pc = "close" => thread'[r].counts = CountersOf(t)',
         ~raced[t] /\ ~overlapped[t] /\ scan'[t].status = "completed" =>
            /\ thread'[r].pc = "none"
            /\ Having(t, {"completed", "skipped"})' = Targets
            /\ scan'[t].counts = CountersOf(t)'
  PROVE  ScanInv'
<1> DEFINE Mine == Claim(r) \cup AtWork(r)
<1>1. ScanTypeOK /\ Mine \subseteq Targets
  BY ThreadType DEF ScanInv, Claim, AtWork
<1>2. \A q \in Threads \ {r} : Claim(q)' = Claim(q) /\ AtWork(q)' = AtWork(q) BY DEF Claim, AtWork
<1>3. \A v \in ScanViews : Asked(v)' = Asked(v) BY DEF Asked
<1>4. ~overlapped[t] => \A q \in Threads \ {r} : thread[q].pc # "none" /\ thread[q].scan = t
        => (Claim(q) \cup AtWork(q)) \cap Mine = {}
  BY DEF ScanInv, ClaimsApart
<1>5. ~overlapped[t] => \A v \in ScanViews : scanView[v].scan = t => Asked(v) \cap Mine = {}
  BY DEF ScanInv, ClaimsApart
<1>6. Present(t)' <=> Present(t) BY DEF Present
<1>7. Places'
  <2>1. \A q \in Threads \ {r} : PlaceOf(q)' BY DEF ScanInv, Places, PlaceOf
  <2> QED BY <2>1 DEF ScanInv, Places
<1>8. ClaimsApart'
  <2>1. \A p, q \in Threads :
          p # q /\ thread'[p].pc # "none" /\ thread'[q].pc # "none" /\ thread'[p].scan = thread'[q].scan
          /\ ~overlapped[thread'[p].scan]
            => (Claim(p) \cup AtWork(p))' \cap (Claim(q) \cup AtWork(q))' = {}
    <3>1. SUFFICES ASSUME NEW p \in Threads, NEW q \in Threads, p # q, thread'[p].pc # "none",
                          thread'[q].pc # "none", thread'[p].scan = thread'[q].scan,
                          ~overlapped[thread'[p].scan]
                   PROVE  (Claim(p) \cup AtWork(p))' \cap (Claim(q) \cup AtWork(q))' = {}
      OBVIOUS
    <3>2. CASE p = r BY <3>1, <3>2, <1>2, <1>4
    <3>3. CASE q = r BY <3>1, <3>3, <1>2, <1>4
    <3>4. CASE p # r /\ q # r BY <3>1, <3>4, <1>2 DEF ScanInv, ClaimsApart
    <3> QED BY <3>2, <3>3, <3>4
  <2>2. \A q \in Threads, v \in ScanViews : thread'[q].pc # "none" /\ thread'[q].scan = scanView[v].scan
          /\ ~overlapped[thread'[q].scan]
          => (Claim(q) \cup AtWork(q))' \cap Asked(v) = {}
    <3>1. SUFFICES ASSUME NEW q \in Threads, NEW v \in ScanViews, thread'[q].pc # "none",
                          thread'[q].scan = scanView[v].scan, ~overlapped[thread'[q].scan]
                   PROVE  (Claim(q) \cup AtWork(q))' \cap Asked(v) = {}
      OBVIOUS
    <3>2. CASE q = r BY <3>1, <3>2, <1>5
    <3>3. CASE q # r BY <3>1, <3>3, <1>2 DEF ScanInv, ClaimsApart
    <3> QED BY <3>2, <3>3
  <2>3. \A v, w \in ScanViews : v # w /\ scanView[v].scan = scanView[w].scan
          /\ ~overlapped[scanView[v].scan] => Asked(v)' \cap Asked(w)' = {}
    BY <1>3 DEF ScanInv, ClaimsApart
  <2> QED BY <2>1, <2>2, <2>3, <1>3 DEF ClaimsApart
<1>9. UntilScanned'
  <2>1. ASSUME NEW q \in Threads, thread'[q].pc # "none", ~overlapped[thread'[q].scan]
        PROVE  Fresh(q)'
    <3>1. CASE q = r BY <3>1, <2>1
    <3>2. CASE q # r
      <4>1. thread[q].pc # "none" /\ thread'[q] = thread[q] /\ ~overlapped[thread[q].scan]
        BY <3>2, <2>1
      <4>2. \A x \in Claim(q) \cup AtWork(q) : target'[thread[q].scan][x] = target[thread[q].scan][x]
        <5>1. Claim(q) \cup AtWork(q) \subseteq Targets /\ thread[q].scan \in Scans
          BY <1>1, ThreadType DEF Claim, AtWork
        <5>2. CASE thread[q].scan = t BY <5>1, <5>2, <3>2, <4>1, <1>4
        <5>3. CASE thread[q].scan # t BY <5>1, <5>3
        <5> QED BY <5>2, <5>3
      <4> QED BY <4>1, <4>2, <3>2, <1>2 DEF ScanInv, UntilScanned, Fresh
    <3> QED BY <3>1, <3>2
  <2>2. ASSUME NEW v \in ScanViews, NEW x \in Asked(v)', ~overlapped[scanView[v].scan]
        PROVE  Listed(v, x)'
    <3>1. x \in Asked(v) /\ x \in Targets /\ scanView[v].scan \in Scans
      BY <1>1, <1>3, ViewType DEF Asked
    <3>2. Listed(v, x) BY <2>2, <3>1 DEF ScanInv, UntilScanned
    <3>3. target'[scanView[v].scan][x] = target[scanView[v].scan][x]
      <4>1. CASE scanView[v].scan = t BY <2>2, <3>1, <4>1, <1>5
      <4>2. CASE scanView[v].scan # t BY <3>1, <4>2
      <4> QED BY <4>1, <4>2
    <3> QED BY <3>2, <3>3 DEF Listed
  <2> QED BY <2>1, <2>2 DEF UntilScanned
<1>10. \A u \in Scans \ {t} : Working(u)' = Working(u) BY DEF Working
<1>11. Working(t)' \subseteq Working(t) BY DEF Working
<1>12. r \in Working(t) BY DEF Working
<1>13. \A u \in Scans \ {t} : CountersOf(u)' = CountersOf(u) /\ \A S : Having(u, S)' = Having(u, S)
  BY SameCounts
<1>14. NotYet'
  <2>1. SUFFICES ASSUME NEW u \in Scans, scan'[u].status = "none"
                 PROVE  /\ Working(u)' = {}
                        /\ \A v \in ScanViews : scanView[v].pc # "idle" => scanView[v].scan # u
                        /\ \A x \in Targets : target'[u][x] = NewTarget
    BY DEF NotYet
  <2>2. u # t BY <2>1
  <2> QED BY <2>1, <2>2, <1>10 DEF ScanInv, NotYet
<1>15. AloneToTheEnd'
  <2>1. SUFFICES ASSUME NEW u \in Scans, ~raced[u], ~overlapped[u]
                 PROVE  (/\ \A p, q \in Working(u) : p = q
                         /\ scan[u].status = "completed" => Working(u) = {}
                         /\ Present(u) => \A q \in Working(u) : thread[q].verdict = "completed" =>
                              /\ thread[q].pc = "verdict" => Having(u, {"failed"}) = {}
                              /\ thread[q].pc \in {"lastCount", "close"} =>
                                    Having(u, {"completed", "skipped"}) = Targets
                              /\ thread[q].pc = "close" => thread[q].counts = CountersOf(u))'
    BY DEF AloneToTheEnd
  <2>2. CASE u = t
    <3>1. \A p \in Working(t) : p = r BY <2>1, <2>2, <1>12 DEF ScanInv, AloneToTheEnd
    <3>2. \A p \in Working(t)' : p = r /\ thread'[r].pc # "none"
      BY <3>1, <1>11 DEF Working
    <3>3. \A p, q \in Working(t)' : p = q BY <3>2
    <3>4. scan'[t].status = "completed" => Working(t)' = {} BY <3>2, <2>1, <2>2
    <3>5. Present(t)' => \A q \in Working(t)' : thread'[q].verdict = "completed" =>
             /\ thread'[q].pc = "verdict" => Having(t, {"failed"})' = {}
             /\ thread'[q].pc \in {"lastCount", "close"} =>
                   Having(t, {"completed", "skipped"})' = Targets
             /\ thread'[q].pc = "close" => thread'[q].counts = CountersOf(t)'
      BY <3>2, <2>1, <2>2, <1>6
    <3> QED BY <3>3, <3>4, <3>5, <2>2 DEF Targets
  <2>3. CASE u # t
    <3>1. Present(u)' <=> Present(u) BY <2>3 DEF Present
    <3>2. \A q \in Working(u) : q \in Threads \ {r} BY <2>3 DEF Working
    <3>3. \A q \in Working(u) : thread'[q] = thread[q] BY <3>2
    <3>4. /\ \A p, q \in Working(u) : p = q
          /\ scan[u].status = "completed" => Working(u) = {}
          /\ Present(u) => \A q \in Working(u) : thread[q].verdict = "completed" =>
               /\ thread[q].pc = "verdict" => Having(u, {"failed"}) = {}
               /\ thread[q].pc \in {"lastCount", "close"} =>
                     Having(u, {"completed", "skipped"}) = Targets
               /\ thread[q].pc = "close" => thread[q].counts = CountersOf(u)
      BY <2>1 DEF ScanInv, AloneToTheEnd
    <3>5. Working(u)' = Working(u) /\ CountersOf(u)' = CountersOf(u) /\ \A S : Having(u, S)' = Having(u, S)
      BY <2>3, <1>10, <1>13
    <3> QED BY <3>1, <3>3, <3>4, <3>5, <2>3 DEF Targets
  <2> QED BY <2>2, <2>3
<1>16. FindingsOfOneScan'
  <2>1. SUFFICES ASSUME NEW u \in Scans, NEW x \in Targets, ~overlapped[u]
                 PROVE  /\ target'[u][x].findings <= 1
                        /\ target'[u][x].status = "completed" =>
                              target'[u][x].risk = target'[u][x].findings
    BY DEF FindingsOfOneScan, Targets
  <2>2. CASE u = t /\ x \in Mine BY <2>1, <2>2
  <2>3. CASE u # t \/ x \notin Mine
    <3>1. target'[u][x] = target[u][x] BY <2>1, <2>3
    <3> QED BY <2>1, <3>1 DEF ScanInv, FindingsOfOneScan
  <2> QED BY <2>2, <2>3
<1>17. CompletedMeansScanned'
  <2>1. SUFFICES ASSUME NEW u \in Scans, scan'[u].status = "completed", ~raced[u], ~overlapped[u]
                 PROVE  /\ Having(u, {"completed", "skipped"})' = Targets
                        /\ scan'[u].counts = CountersOf(u)'
    BY DEF CompletedMeansScanned, Targets
  <2>2. CASE u = t BY <2>1, <2>2
  <2>3. CASE u # t BY <2>1, <2>3, <1>13 DEF ScanInv, CompletedMeansScanned
  <2> QED BY <2>2, <2>3
<1> QED BY <1>7, <1>8, <1>9, <1>14, <1>15, <1>16, <1>17 DEF ScanInv
----------------------------------------------------------------------------
(* The steps of a thread. *)

LEMMA OwnRow ==
  ASSUME ScanTypeOK, NEW r \in Threads, NEW row \in ThreadRow,
         thread' = [thread EXCEPT ![r] = row]
  PROVE  /\ thread'[r] = row /\ thread' \in [Threads -> ThreadRow]
         /\ \A q \in Threads \ {r} : thread'[q] = thread[q]
         /\ Claim(r)' = IF row.pc \in {"get", "open", "fetch"} /\ ~row.retry THEN Targets
                        ELSE row.todo
         /\ AtWork(r)' = IF row.pc \in {"scan", "save"} THEN {row.at} ELSE {}
<1>1. thread'[r] = row BY DEF ScanTypeOK
<1> QED BY <1>1 DEF ScanTypeOK, Claim, AtWork, Targets

\* What holds of the task of a working thread.
LEMMA OfWorking ==
  ASSUME ScanInv, NEW r \in Threads, NEW t \in Scans, thread[r].pc # "none", thread[r].scan = t
  PROVE  /\ scan[t].status # "none"
         /\ ~raced[t] /\ ~overlapped[t] => scan[t].status # "completed"
         /\ Claim(r) \cup AtWork(r) \subseteq Targets
         /\ ~overlapped[t] =>
              /\ \A x \in Targets : /\ target[t][x].findings <= 1
                                    /\ target[t][x].status = "completed" =>
                                          target[t][x].risk = target[t][x].findings
              /\ \A x \in Claim(r) : target[t][x] = NewTarget
              /\ AtWork(r) \cap Claim(r) = {}
<1>1. r \in Working(t) BY DEF Working
<1>2. Claim(r) \cup AtWork(r) \subseteq Targets BY ThreadType DEF ScanInv, Claim, AtWork
<1> QED BY <1>1, <1>2 DEF ScanInv, NotYet, AloneToTheEnd, FindingsOfOneScan, UntilScanned, Fresh

\* Steps that change no row of the database.
LEMMA ThreadOnly ==
  ASSUME ScanInv, NEW r \in Threads, NEW row \in ThreadRow,
         thread' = [thread EXCEPT ![r] = row],
         UNCHANGED <<scan, target, gone, scanView, marked, scanCrashes, retries, raced, overlapped>>,
         thread[r].pc \notin {"none", "scan", "save"}, row.pc \notin {"none", "scan", "save"},
         row.scan = thread[r].scan,
         (IF row.pc \in {"get", "open", "fetch"} /\ ~row.retry THEN Targets ELSE row.todo)
            \subseteq Claim(r),
         PlaceOf(r)',
         Present(row.scan) /\ ~raced[row.scan] /\ ~overlapped[row.scan] /\ row.verdict = "completed" =>
            /\ row.pc = "verdict" => Having(row.scan, {"failed"}) = {}
            /\ row.pc \in {"lastCount", "close"} =>
                  Having(row.scan, {"completed", "skipped"}) = Targets
            /\ row.pc = "close" => row.counts = CountersOf(row.scan)
  PROVE  ScanInv'
<1> DEFINE t == row.scan
<1>1. ScanTypeOK BY DEF ScanInv
<1>2. t \in Scans BY <1>1, ThreadType
<1>3. /\ thread'[r] = row /\ thread' \in [Threads -> ThreadRow]
      /\ \A q \in Threads \ {r} : thread'[q] = thread[q]
      /\ Claim(r)' \subseteq Claim(r) /\ AtWork(r)' = {}
  <2>1. /\ thread'[r] = row /\ thread' \in [Threads -> ThreadRow]
        /\ \A q \in Threads \ {r} : thread'[q] = thread[q]
        /\ AtWork(r)' = IF row.pc \in {"scan", "save"} THEN {row.at} ELSE {}
    BY <1>1, OwnRow
  <2>2. Claim(r)' = IF row.pc \in {"get", "open", "fetch"} /\ ~row.retry THEN Targets ELSE row.todo
    BY <1>1, OwnRow
  <2> QED BY <2>1, <2>2
<1>4. ScanTypeOK' BY <1>1, <1>3 DEF ScanTypeOK, Targets
<1>5. /\ scan[t].status # "none"
      /\ ~raced[t] /\ ~overlapped[t] => scan[t].status # "completed"
      /\ Claim(r) \cup AtWork(r) \subseteq Targets
      /\ ~overlapped[t] =>
           /\ \A x \in Targets : /\ target[t][x].findings <= 1
                                 /\ target[t][x].status = "completed" =>
                                       target[t][x].risk = target[t][x].findings
           /\ \A x \in Claim(r) : target[t][x] = NewTarget
  BY <1>2, OfWorking
<1>6. CountersOf(t)' = CountersOf(t) /\ \A S : Having(t, S)' = Having(t, S) BY SameCounts
<1>7. ~overlapped[t] => \A x \in Claim(r)' : target'[t][x] = NewTarget BY <1>3, <1>5
<1>8. thread'[r].scan = t /\ thread[r].pc # "none" /\ thread[r].scan = t BY <1>3
<1>9. ~raced[t] /\ ~overlapped[t] /\ thread'[r].pc # "none" /\ Present(t) /\ thread'[r].verdict = "completed" =>
        /\ thread'[r].pc = "verdict" => Having(t, {"failed"})' = {}
        /\ thread'[r].pc \in {"lastCount", "close"} => Having(t, {"completed", "skipped"})' = Targets
        /\ thread'[r].pc = "close" => thread'[r].counts = CountersOf(t)'
  BY <1>3, <1>6
<1>10. ~overlapped[t] => (Claim(r) \cup AtWork(r))' \subseteq Claim(r) \cup AtWork(r) /\ Fresh(r)'
  BY <1>3, <1>7, <1>8 DEF Fresh
<1>11. /\ \A u \in Scans \ {t} : target'[u] = target[u] /\ scan'[u] = scan[u]
       /\ \A x \in Targets \ (Claim(r) \cup AtWork(r)) : target'[t][x] = target[t][x]
       /\ ~overlapped[t] => \A x \in Claim(r) \cup AtWork(r) :
            /\ target'[t][x].findings <= 1
            /\ target'[t][x].status = "completed" => target'[t][x].risk = target'[t][x].findings
       /\ scan[t].status \in {"none", "deleted"} <=> scan'[t].status \in {"none", "deleted"}
       /\ scan'[t].status # "none" /\ ~(~raced[t] /\ ~overlapped[t] /\ scan'[t].status = "completed")
  <2>1. \A x \in Claim(r) \cup AtWork(r) : x \in Targets BY <1>5
  <2>2. target' = target /\ scan' = scan OBVIOUS
  <2>3. /\ \A u \in Scans \ {t} : target'[u] = target[u] /\ scan'[u] = scan[u]
        /\ \A x \in Targets \ (Claim(r) \cup AtWork(r)) : target'[t][x] = target[t][x]
    BY <2>2
  <2>5. /\ scan[t].status \in {"none", "deleted"} <=> scan'[t].status \in {"none", "deleted"}
        /\ scan'[t].status # "none" /\ ~(~raced[t] /\ ~overlapped[t] /\ scan'[t].status = "completed")
    <3> HIDE DEF t
    <3> QED BY <1>5, <2>2
  <2>4. ~overlapped[t] => \A x \in Claim(r) \cup AtWork(r) :
          /\ target'[t][x].findings <= 1
          /\ target'[t][x].status = "completed" => target'[t][x].risk = target'[t][x].findings
    <3> HIDE DEF t
    <3> QED BY <1>5, <2>1, <2>2
  <2> QED BY <2>3, <2>4, <2>5
<1> HIDE DEF t
<1> QED BY <1>2, <1>3, <1>4, <1>8, <1>9, <1>10, <1>11, ThreadMoves

LEMMA GetStep ==
  ASSUME ScanInv, NEW r \in Threads, GetTask(r)
  PROVE  ScanInv'
<1> DEFINE row == [thread[r] EXCEPT !.pc = "open", !.cancel = scan[thread[r].scan].cancel]
<1>1. ScanTypeOK /\ thread[r].pc = "get" BY DEF ScanInv, GetTask, At
<1>2. thread[r] \in ThreadRow /\ scan[thread[r].scan].cancel \in BOOLEAN
  BY <1>1, ThreadType DEF ScanTypeOK, ScanRow
<1>3. /\ thread' = [thread EXCEPT ![r] = row]
      /\ UNCHANGED <<scan, target, gone, scanView, marked, scanCrashes, retries, raced, overlapped>>
  BY DEF GetTask
<1>4. /\ row \in ThreadRow /\ row.pc = "open" /\ row.scan = thread[r].scan
      /\ row.todo = thread[r].todo /\ row.retry = thread[r].retry
  BY <1>2 DEF ThreadRow, ThreadPC
<1> HIDE DEF row
<1>5. thread'[r] = row BY <1>1, <1>3, <1>4, OwnRow
<1>6. PlaceOf(r)' BY <1>4, <1>5 DEF PlaceOf
<1>7. (IF row.pc \in {"get", "open", "fetch"} /\ ~row.retry THEN Targets ELSE row.todo) \subseteq Claim(r)
  BY <1>1, <1>4 DEF Claim
<1> QED BY <1>1, <1>3, <1>4, <1>6, <1>7, ThreadOnly

LEMMA FetchStep ==
  ASSUME ScanInv, NEW r \in Threads, FetchTargets(r)
  PROVE  ScanInv'
<1> DEFINE old == [x \in Targets |-> target[thread[r].scan][x].status]
           row == [thread[r] EXCEPT !.pc = "loop", !.todo = IF thread[r].retry THEN @ ELSE Targets,
                     !.seen = old]
<1>1. ScanTypeOK /\ thread[r].pc = "fetch" BY DEF ScanInv, FetchTargets, At
<1>2. thread[r] \in ThreadRow /\ thread[r].todo \subseteq Targets /\ thread[r].scan \in Scans
  BY <1>1, ThreadType
<1>3. old \in [Targets -> TargetStatus] BY <1>1, <1>2 DEF ScanTypeOK, TargetRow
<1>4. UNCHANGED <<scan, target, gone, scanView, marked, scanCrashes, retries, raced, overlapped>>
  BY DEF FetchTargets
<1>5. thread' = [thread EXCEPT ![r] = row]
  <2>1. thread' = [thread EXCEPT ![r].pc = "loop",
                     ![r].todo = IF thread[r].retry THEN @ ELSE Targets, ![r].seen = old]
    BY DEF FetchTargets
  <2> HIDE DEF old
  <2> QED BY <2>1
<1> HIDE DEF old
<1>6. /\ row \in ThreadRow /\ row.pc = "loop" /\ row.scan = thread[r].scan
      /\ row.todo = IF thread[r].retry THEN thread[r].todo ELSE Targets
  BY <1>2, <1>3 DEF ThreadRow, ThreadPC
<1> HIDE DEF row
<1>7. thread'[r] = row BY <1>1, <1>5, <1>6, OwnRow
<1>8. PlaceOf(r)' BY <1>6, <1>7 DEF PlaceOf
<1>9. (IF row.pc \in {"get", "open", "fetch"} /\ ~row.retry THEN Targets ELSE row.todo) \subseteq Claim(r)
  BY <1>1, <1>2, <1>6 DEF Claim
<1> QED BY <1>1, <1>4, <1>5, <1>6, <1>8, <1>9, ThreadOnly

LEMMA JudgeStep ==
  ASSUME ScanInv, NEW r \in Threads, JudgeTask(r)
  PROVE  ScanInv'
<1> DEFINE t == thread[r].scan
           to == IF scan[t].cancel THEN "lastCount" ELSE "verdict"
           verdict == IF scan[t].cancel THEN "canceled"
                      ELSE IF Having(t, {"failed"}) # {} THEN "failed" ELSE "completed"
           row == [thread[r] EXCEPT !.seen = NoThread.seen, !.pc = to, !.verdict = verdict]
<1>1. ScanTypeOK /\ thread[r].pc = "loop" BY DEF ScanInv, JudgeTask, At
<1>2. thread[r] \in ThreadRow BY <1>1, ThreadType
<1>3. UNCHANGED <<scan, target, gone, scanView, marked, scanCrashes, retries, raced, overlapped>>
  BY DEF JudgeTask
<1>4. thread' = [thread EXCEPT ![r] = row]
  <2>1. thread' = [thread EXCEPT ![r].seen = NoThread.seen, ![r].pc = to, ![r].verdict = verdict]
    BY DEF JudgeTask
  <2> HIDE DEF to, verdict
  <2> QED BY <2>1
<1>5. /\ to \in {"lastCount", "verdict"} /\ verdict \in {"canceled", "failed", "completed"}
      /\ verdict = "completed" => to = "verdict" /\ Having(t, {"failed"}) = {}
  OBVIOUS
<1> HIDE DEF to, verdict, t
<1>6. /\ row \in ThreadRow /\ row.pc = to /\ row.verdict = verdict /\ row.scan = thread[r].scan
      /\ row.todo = thread[r].todo
  BY <1>2, <1>5, ConstantRows DEF ThreadRow, ThreadPC, ScanStatus
<1> HIDE DEF row
<1>7. thread'[r] = row BY <1>1, <1>4, <1>6, OwnRow
<1>8. PlaceOf(r)' BY <1>5, <1>6, <1>7 DEF PlaceOf
<1>9. (IF row.pc \in {"get", "open", "fetch"} /\ ~row.retry THEN Targets ELSE row.todo) \subseteq Claim(r)
  BY <1>1, <1>5, <1>6 DEF Claim
<1>10. row.verdict = "completed" => row.pc = "verdict" /\ Having(row.scan, {"failed"}) = {}
  BY <1>5, <1>6 DEF t
<1>11. thread[r].pc \notin {"none", "scan", "save"} /\ row.pc \notin {"none", "scan", "save"}
  BY <1>1, <1>5, <1>6
<1> QED BY <1>3, <1>4, <1>6, <1>8, <1>9, <1>10, <1>11, ThreadOnly

LEMMA FinalStep ==
  ASSUME ScanInv, NEW r \in Threads, FinalTaskStatus(r)
  PROVE  ScanInv'
<1> DEFINE t == thread[r].scan
           verdict == IF Having(t, {"pending", "running"}) # {} THEN "running"
                      ELSE thread[r].verdict
           row == [thread[r] EXCEPT !.pc = "lastCount", !.verdict = verdict]
<1>1. ScanTypeOK /\ thread[r].pc = "verdict" /\ PlaceOf(r)
  BY DEF ScanInv, FinalTaskStatus, At, Places
<1>2. thread[r] \in ThreadRow /\ t \in Scans BY <1>1, ThreadType
<1>3. UNCHANGED <<scan, target, gone, scanView, marked, scanCrashes, retries, raced, overlapped>>
  BY DEF FinalTaskStatus
<1>4. thread' = [thread EXCEPT ![r] = row]
  <2>1. thread' = [thread EXCEPT ![r].pc = "lastCount", ![r].verdict =
           IF Having(t, {"pending", "running"}) # {} THEN "running" ELSE thread[r].verdict]
    BY DEF FinalTaskStatus
  <2> HIDE DEF t
  <2> QED BY <2>1
<1>5. verdict \in {"running", "completed", "failed", "canceled"} BY <1>1 DEF PlaceOf
<1>6. verdict = "completed" =>
        Having(t, {"pending", "running"}) = {} /\ thread[r].verdict = "completed"
  OBVIOUS
<1> HIDE DEF verdict
<1>7. /\ row \in ThreadRow /\ row.pc = "lastCount" /\ row.verdict = verdict
      /\ row.scan = thread[r].scan /\ row.todo = thread[r].todo
  BY <1>2, <1>5 DEF ThreadRow, ThreadPC, ScanStatus
<1> HIDE DEF row
<1>8. thread'[r] = row BY <1>1, <1>4, <1>7, OwnRow
<1>9. PlaceOf(r)' BY <1>5, <1>7, <1>8 DEF PlaceOf
<1>10. (IF row.pc \in {"get", "open", "fetch"} /\ ~row.retry THEN Targets ELSE row.todo) \subseteq Claim(r)
  BY <1>1, <1>7 DEF Claim
<1>11. ASSUME Present(t), ~raced[t], ~overlapped[t], row.verdict = "completed"
       PROVE  Having(t, {"completed", "skipped"}) = Targets
  <2>1. r \in Working(t) BY <1>1 DEF Working
  <2>2. Having(t, {"pending", "running"}) = {} /\ thread[r].verdict = "completed"
    BY <1>6, <1>7, <1>11
  <2>3. Having(t, {"failed"}) = {} BY <2>1, <2>2, <1>1, <1>2, <1>11 DEF ScanInv, AloneToTheEnd
  <2>4. \A x \in Targets : target[t][x].status \in TargetStatus
    BY <1>1, <1>2 DEF ScanTypeOK, TargetRow
  <2> QED BY <2>2, <2>3, <2>4 DEF Having, TargetStatus
<1>12. thread[r].pc \notin {"none", "scan", "save"} /\ row.pc \notin {"none", "scan", "save"}
  BY <1>1, <1>7
<1> QED BY <1>3, <1>4, <1>7, <1>9, <1>10, <1>11, <1>12, ThreadOnly

LEMMA LastCountStep ==
  ASSUME ScanInv, NEW r \in Threads, LastCount(r)
  PROVE  ScanInv'
<1> DEFINE t == thread[r].scan
           counts == CountersOf(t)
           row == [thread[r] EXCEPT !.pc = "close", !.counts = counts]
<1>1. ScanTypeOK /\ thread[r].pc = "lastCount" /\ PlaceOf(r)
  BY DEF ScanInv, LastCount, At, Places
<1>2. thread[r] \in ThreadRow /\ t \in Scans BY <1>1, ThreadType
<1>3. /\ UNCHANGED <<scan, target, gone, scanView, marked, scanCrashes, retries, raced, overlapped>>
      /\ thread' = [thread EXCEPT ![r] = row]
  <2>1. thread' = [thread EXCEPT ![r].pc = "close", ![r].counts = counts] BY DEF LastCount
  <2>2. UNCHANGED <<scan, target, gone, scanView, marked, scanCrashes, retries, raced, overlapped>>
    BY DEF LastCount
  <2> HIDE DEF counts
  <2> QED BY <2>1, <2>2
<1>4. counts \in Counters BY <1>1, <1>2, CountersType
<1> HIDE DEF counts
<1>5. /\ row \in ThreadRow /\ row.pc = "close" /\ row.verdict = thread[r].verdict
      /\ row.scan = thread[r].scan /\ row.todo = thread[r].todo /\ row.counts = counts
  BY <1>2, <1>4 DEF ThreadRow, ThreadPC
<1> HIDE DEF row
<1>6. thread'[r] = row BY <1>1, <1>3, <1>5, OwnRow
<1>7. PlaceOf(r)' BY <1>1, <1>5, <1>6 DEF PlaceOf
<1>8. (IF row.pc \in {"get", "open", "fetch"} /\ ~row.retry THEN Targets ELSE row.todo) \subseteq Claim(r)
  BY <1>1, <1>5 DEF Claim
<1>9. ASSUME Present(t), ~raced[t], ~overlapped[t], row.verdict = "completed"
      PROVE  Having(t, {"completed", "skipped"}) = Targets
  <2>1. r \in Working(t) BY <1>1 DEF Working
  <2> QED BY <2>1, <1>1, <1>2, <1>5, <1>9 DEF ScanInv, AloneToTheEnd
<1>10. thread[r].pc \notin {"none", "scan", "save"} /\ row.pc \notin {"none", "scan", "save"}
  BY <1>1, <1>5
<1>11. row.counts = CountersOf(row.scan) BY <1>5 DEF counts
<1> QED BY <1>3, <1>5, <1>7, <1>8, <1>9, <1>10, <1>11, ThreadOnly

\* Steps that change the row of one target.
LEMMA TargetStep ==
  ASSUME ScanInv, NEW r \in Threads, NEW t \in Scans, NEW x \in Targets,
         NEW row \in ThreadRow, NEW new \in TargetRow,
         thread[r].scan = t, thread[r].pc \in {"loop", "scan", "save"},
         x \in Claim(r) \cup AtWork(r), row.scan = t, row.pc \in {"loop", "scan", "save", "count"},
         ~overlapped[t] => row.todo \subseteq thread[r].todo \ {x},
         ~overlapped[t] /\ row.pc \in {"scan", "save"} =>
            row.at = x /\ new.status \in {"pending", "running"},
         ~overlapped[t] /\ row.pc = "scan" => new.findings = 0,
         row.pc = "save" => row.verdict \in {"failed", "completed"},
         ~overlapped[t] => new.findings <= 1 /\ (new.status = "completed" => new.risk = new.findings),
         thread' = [thread EXCEPT ![r] = row], target' = [target EXCEPT ![t][x] = new],
         UNCHANGED <<scan, gone, scanView, marked, scanCrashes, retries, raced, overlapped>>
  PROVE  ScanInv'
<1>1. ScanTypeOK BY DEF ScanInv
<1>2. /\ thread'[r] = row /\ thread' \in [Threads -> ThreadRow]
      /\ \A q \in Threads \ {r} : thread'[q] = thread[q]
      /\ Claim(r)' = row.todo /\ AtWork(r)' = IF row.pc \in {"scan", "save"} THEN {row.at} ELSE {}
  <2>1. /\ thread'[r] = row /\ thread' \in [Threads -> ThreadRow]
        /\ \A q \in Threads \ {r} : thread'[q] = thread[q]
        /\ AtWork(r)' = IF row.pc \in {"scan", "save"} THEN {row.at} ELSE {}
    BY <1>1, OwnRow
  <2>2. Claim(r)' = IF row.pc \in {"get", "open", "fetch"} /\ ~row.retry THEN Targets ELSE row.todo
    BY <1>1, OwnRow
  <2> QED BY <2>1, <2>2
<1>3. Claim(r) = thread[r].todo BY DEF Claim
<1>4. /\ target' \in [Scans -> [Targets -> TargetRow]] /\ target'[t][x] = new
      /\ \A u \in Scans \ {t} : target'[u] = target[u]
      /\ \A y \in Targets \ {x} : target'[t][y] = target[t][y]
  BY <1>1 DEF ScanTypeOK
<1>5. ScanTypeOK' BY <1>1, <1>2, <1>4 DEF ScanTypeOK, Targets
<1>6. /\ scan[t].status # "none"
      /\ ~raced[t] /\ ~overlapped[t] => scan[t].status # "completed"
      /\ Claim(r) \cup AtWork(r) \subseteq Targets
      /\ ~overlapped[t] =>
           /\ \A y \in Targets : /\ target[t][y].findings <= 1
                                 /\ target[t][y].status = "completed" =>
                                       target[t][y].risk = target[t][y].findings
           /\ \A y \in Claim(r) : target[t][y] = NewTarget
  BY OfWorking
<1>7. ~overlapped[t] =>
      /\ (Claim(r) \cup AtWork(r))' \subseteq Claim(r) \cup AtWork(r)
      /\ AtWork(r)' \cap Claim(r)' = {} /\ AtWork(r)' \subseteq {x}
  BY <1>2, <1>3
<1>8. ~overlapped[t] => \A y \in Claim(r)' : target'[t][y] = NewTarget
  <2> SUFFICES ASSUME ~overlapped[t] PROVE \A y \in Claim(r)' : target'[t][y] = NewTarget
    OBVIOUS
  <2>1. \A y \in Claim(r)' : y \in Claim(r) /\ y # x /\ y \in Targets BY <1>2, <1>3, <1>6
  <2> QED BY <2>1, <1>4, <1>6
<1>9. ~overlapped[t] =>
        \A y \in AtWork(r)' : /\ target'[t][y].status \in {"pending", "running"}
                              /\ thread'[r].pc = "scan" => target'[t][y].findings = 0
  BY <1>2, <1>4, <1>7
<1>10. PlaceOf(r)' BY <1>2 DEF PlaceOf
<1>11. ~overlapped[t] => \A y \in Claim(r) \cup AtWork(r) :
         /\ target'[t][y].findings <= 1
         /\ target'[t][y].status = "completed" => target'[t][y].risk = target'[t][y].findings
  <2>1. SUFFICES ASSUME ~overlapped[t], NEW y \in Targets
                 PROVE  /\ target'[t][y].findings <= 1
                        /\ target'[t][y].status = "completed" =>
                              target'[t][y].risk = target'[t][y].findings
    BY <1>6
  <2>2. CASE y = x
    <3>1. target'[t][y] = new BY <2>2, <1>4
    <3> QED BY <2>1, <3>1
  <2>3. CASE y # x
    <3>1. target'[t][y] = target[t][y] BY <2>3, <1>4
    <3>2. /\ target[t][y].findings <= 1
          /\ target[t][y].status = "completed" => target[t][y].risk = target[t][y].findings
      BY <2>1, <1>6
    <3> QED BY <3>1, <3>2
  <2> QED BY <2>2, <2>3
<1>12. /\ \A u \in Scans \ {t} : target'[u] = target[u] /\ scan'[u] = scan[u]
       /\ \A y \in Targets \ (Claim(r) \cup AtWork(r)) : target'[t][y] = target[t][y]
       /\ scan[t].status \in {"none", "deleted"} <=> scan'[t].status \in {"none", "deleted"}
       /\ scan'[t].status # "none" /\ ~(~raced[t] /\ ~overlapped[t] /\ scan'[t].status = "completed")
  BY <1>4, <1>6
<1>13. thread'[r].pc \notin {"none", "verdict", "lastCount", "close"} /\ thread'[r].scan = t
  BY <1>2
<1>14. ~overlapped[t] => (Claim(r) \cup AtWork(r))' \subseteq Claim(r) \cup AtWork(r) /\ Fresh(r)'
  BY <1>7, <1>8, <1>9, <1>13 DEF Fresh
<1> QED BY <1>2, <1>5, <1>10, <1>11, <1>12, <1>13, <1>14, ThreadMoves

\* Steps that change the row of the task, or end the thread.
LEMMA TaskStep ==
  ASSUME ScanInv, NEW r \in Threads, NEW t \in Scans, NEW row \in ThreadRow, NEW new \in ScanRow,
         thread[r].scan = t, thread[r].pc # "none",
         row.pc \in {"none", "fetch", "loop"},
         row.pc # "none" => row.scan = t,
         (IF row.pc = "fetch" /\ ~row.retry THEN Targets ELSE row.todo) \subseteq Claim(r),
         new.status \in {"none", "deleted"} <=> scan[t].status \in {"none", "deleted"},
         new.status # "none",
         ~raced[t] /\ ~overlapped[t] /\ new.status = "completed" =>
            row.pc = "none" /\ Having(t, {"completed", "skipped"}) = Targets
            /\ new.counts = CountersOf(t),
         thread' = [thread EXCEPT ![r] = row], scan' = [scan EXCEPT ![t] = new],
         UNCHANGED <<target, gone, scanView, marked, scanCrashes, retries, raced, overlapped>>
  PROVE  ScanInv'
<1>1. ScanTypeOK BY DEF ScanInv
<1>2. /\ thread'[r] = row /\ thread' \in [Threads -> ThreadRow]
      /\ \A q \in Threads \ {r} : thread'[q] = thread[q]
      /\ Claim(r)' \subseteq Claim(r) /\ AtWork(r)' = {}
  <2>1. /\ thread'[r] = row /\ thread' \in [Threads -> ThreadRow]
        /\ \A q \in Threads \ {r} : thread'[q] = thread[q]
        /\ AtWork(r)' = IF row.pc \in {"scan", "save"} THEN {row.at} ELSE {}
    BY <1>1, OwnRow
  <2>2. Claim(r)' = IF row.pc \in {"get", "open", "fetch"} /\ ~row.retry THEN Targets ELSE row.todo
    BY <1>1, OwnRow
  <2> QED BY <2>1, <2>2
<1>3. /\ scan' \in [Scans -> ScanRow] /\ scan'[t] = new
      /\ \A u \in Scans \ {t} : scan'[u] = scan[u]
  BY <1>1 DEF ScanTypeOK
<1>4. ScanTypeOK' BY <1>1, <1>2, <1>3 DEF ScanTypeOK, Targets
<1>5. /\ ~overlapped[t] =>
           /\ \A y \in Targets : /\ target[t][y].findings <= 1
                                 /\ target[t][y].status = "completed" =>
                                       target[t][y].risk = target[t][y].findings
           /\ \A y \in Claim(r) : target[t][y] = NewTarget
      /\ Claim(r) \cup AtWork(r) \subseteq Targets
  BY OfWorking
<1>6. CountersOf(t)' = CountersOf(t) /\ \A S : Having(t, S)' = Having(t, S) BY SameCounts
<1>7. /\ (Claim(r) \cup AtWork(r))' \subseteq Claim(r) \cup AtWork(r)
      /\ AtWork(r)' \cap Claim(r)' = {}
      /\ \A y \in AtWork(r)' : /\ target'[t][y].status \in {"pending", "running"}
                               /\ thread'[r].pc = "scan" => target'[t][y].findings = 0
  BY <1>2
<1>8. ~overlapped[t] => \A y \in Claim(r)' : target'[t][y] = NewTarget BY <1>2, <1>5
<1>9. PlaceOf(r)' BY <1>2 DEF PlaceOf
<1>10. ~overlapped[t] => \A y \in Claim(r) \cup AtWork(r) :
         /\ target'[t][y].findings <= 1
         /\ target'[t][y].status = "completed" => target'[t][y].risk = target'[t][y].findings
  BY <1>5
<1>11. /\ \A u \in Scans \ {t} : target'[u] = target[u] /\ scan'[u] = scan[u]
       /\ \A y \in Targets \ (Claim(r) \cup AtWork(r)) : target'[t][y] = target[t][y]
       /\ scan[t].status \in {"none", "deleted"} <=> scan'[t].status \in {"none", "deleted"}
       /\ scan'[t].status # "none"
  BY <1>3
<1>12. thread'[r].pc \notin {"verdict", "lastCount", "close"}
       /\ (thread'[r].pc # "none" => thread'[r].scan = t)
  BY <1>2
<1>13. ~raced[t] /\ ~overlapped[t] /\ scan'[t].status = "completed" =>
         /\ thread'[r].pc = "none"
         /\ Having(t, {"completed", "skipped"})' = Targets
         /\ scan'[t].counts = CountersOf(t)'
  BY <1>2, <1>3, <1>6
<1>14. thread'[r].pc # "none" /\ ~overlapped[t] =>
         (Claim(r) \cup AtWork(r))' \subseteq Claim(r) \cup AtWork(r) /\ Fresh(r)'
  BY <1>7, <1>8, <1>12 DEF Fresh
<1> QED BY <1>2, <1>4, <1>9, <1>10, <1>11, <1>12, <1>13, <1>14, ThreadMoves

LEMMA OpenStep ==
  ASSUME ScanInv, NEW r \in Threads, OpenTask(r)
  PROVE  ScanInv'
<1> DEFINE t == thread[r].scan
           flag == ~thread[r].retry /\ thread[r].cancel
           new == [scan[t] EXCEPT !.status = "running", !.cancel = flag]
           row == [thread[r] EXCEPT !.pc = "fetch", !.cancel = FALSE]
<1>1. ScanTypeOK /\ thread[r].pc = "open" /\ Present(t) BY DEF ScanInv, OpenTask, At
<1>2. /\ thread[r] \in ThreadRow /\ t \in Scans /\ scan[t] \in ScanRow
      /\ thread[r].todo \subseteq Targets
  BY <1>1, ThreadType DEF ScanTypeOK
<1>3. /\ UNCHANGED <<target, gone, scanView, marked, scanCrashes, retries, raced, overlapped>>
      /\ thread' = [thread EXCEPT ![r] = row] /\ scan' = [scan EXCEPT ![t] = new]
  <2>1. /\ UNCHANGED <<target, gone, scanView, marked, scanCrashes, retries, raced, overlapped>>
        /\ thread' = [thread EXCEPT ![r].pc = "fetch", ![r].cancel = FALSE]
        /\ scan' = [scan EXCEPT ![t].status = "running", ![t].cancel = flag]
    BY DEF OpenTask
  <2> HIDE DEF flag, t
  <2> QED BY <2>1
<1>4. flag \in BOOLEAN OBVIOUS
<1>5. scan[t].status \notin {"none", "deleted"} BY <1>1 DEF Present
<1> HIDE DEF flag, t
<1>6. new \in ScanRow /\ new.status = "running" BY <1>2, <1>4 DEF ScanRow, ScanStatus
<1>7. /\ row \in ThreadRow /\ row.pc = "fetch" /\ row.scan = thread[r].scan
      /\ row.retry = thread[r].retry /\ row.todo = thread[r].todo
  BY <1>2 DEF ThreadRow, ThreadPC
<1>8. row.scan = t BY <1>7 DEF t
<1> HIDE DEF new, row
<1>9. (IF row.pc = "fetch" /\ ~row.retry THEN Targets ELSE row.todo) \subseteq Claim(r)
  BY <1>1, <1>2, <1>7 DEF Claim
<1> QED BY <1>1, <1>2, <1>3, <1>5, <1>6, <1>7, <1>8, <1>9, TaskStep DEF t

LEMMA SkipStep ==
  ASSUME ScanInv, NEW r \in Threads, NEW x \in Targets, SkipTarget(r, x)
  PROVE  ScanInv'
<1> DEFINE t == thread[r].scan
           new == IF thread[r].seen[x] \in {"completed", "failed"} THEN target[t][x]
                  ELSE [target[t][x] EXCEPT !.status = "skipped"]
           row == [thread[r] EXCEPT !.todo = thread[r].todo \ {x}]
<1>1. /\ ScanTypeOK /\ thread[r].pc = "loop" /\ x \in thread[r].todo
      /\ UNCHANGED <<scan, gone, scanView, marked, scanCrashes, retries, raced, overlapped>>
  BY DEF ScanInv, SkipTarget, At, IsNextTarget
<1>2. thread[r] \in ThreadRow /\ t \in Scans /\ target[t][x] \in TargetRow
  BY <1>1, ThreadType DEF ScanTypeOK
<1>3. x \in Claim(r) BY <1>1 DEF Claim
<1>4. ~overlapped[t] => target[t][x] = NewTarget
  <2>1. ~overlapped[t] => \A y \in Claim(r) : target[t][y] = NewTarget BY <1>1, <1>2, OfWorking
  <2> QED BY <1>3, <2>1
<1>5. thread' = [thread EXCEPT ![r] = row] BY DEF SkipTarget
<1>6. target' = [target EXCEPT ![t][x] = new]
  <2>1. target \in [Scans -> [Targets -> TargetRow]] BY <1>1 DEF ScanTypeOK
  <2>2. target' = IF thread[r].seen[x] \in {"completed", "failed"} THEN target
                  ELSE [target EXCEPT ![t][x].status = "skipped"]
    BY DEF SkipTarget
  <2>3. target = [target EXCEPT ![t][x] = target[t][x]] BY <1>2, <2>1
  <2>4. [target EXCEPT ![t][x].status = "skipped"]
          = [target EXCEPT ![t][x] = [target[t][x] EXCEPT !.status = "skipped"]]
    OBVIOUS
  <2> HIDE DEF t
  <2> QED BY <2>2, <2>3, <2>4
<1>7. /\ row \in ThreadRow /\ row.pc = "loop" /\ row.scan = thread[r].scan
      /\ row.todo = thread[r].todo \ {x}
  BY <1>1, <1>2 DEF ThreadRow, ThreadPC
<1>8. row.scan = t BY <1>7
<1> HIDE DEF t
<1>9. new \in TargetRow /\ (~overlapped[t] => new.findings = 0 /\ new.risk = 0)
  <2>1. /\ NewTarget \in TargetRow /\ NewTarget.findings = 0 /\ NewTarget.risk = 0
    BY ConstantRows
  <2>2. new \in TargetRow BY <1>2 DEF TargetRow, TargetStatus
  <2>3. ~overlapped[t] => new.findings = 0 /\ new.risk = 0 BY <1>2, <1>4, <2>1 DEF TargetRow
  <2> QED BY <2>2, <2>3
<1> HIDE DEF new, row
<1>10. ~overlapped[t] => new.findings <= 1 /\ (new.status = "completed" => new.risk = new.findings) BY <1>9
<1> QED BY <1>1, <1>2, <1>3, <1>5, <1>6, <1>7, <1>8, <1>9, <1>10, TargetStep DEF t

LEMMA BeginStep ==
  ASSUME ScanInv, NEW r \in Threads, NEW x \in Targets, BeginTarget(r, x)
  PROVE  ScanInv'
<1> DEFINE t == thread[r].scan
           lost == <<t, x>> \in gone
           status == IF lost THEN "failed" ELSE "running"
           new == [target[t][x] EXCEPT !.status = status]
           pc == IF lost THEN "count" ELSE "scan"
           at == IF lost THEN thread[r].at ELSE x
           row == [thread[r] EXCEPT !.todo = thread[r].todo \ {x}, !.pc = pc, !.at = at]
<1>1. /\ ScanTypeOK /\ thread[r].pc = "loop" /\ x \in thread[r].todo
      /\ UNCHANGED <<scan, gone, scanView, marked, scanCrashes, retries, raced, overlapped>>
  BY DEF ScanInv, BeginTarget, At, IsNextTarget
<1>2. /\ thread[r] \in ThreadRow /\ t \in Scans /\ target[t][x] \in TargetRow
      /\ thread[r].at \in Targets
  BY <1>1, ThreadType DEF ScanTypeOK
<1>3. x \in Claim(r) BY <1>1 DEF Claim
<1>4. ~overlapped[t] => target[t][x] = NewTarget
  <2>1. ~overlapped[t] => \A y \in Claim(r) : target[t][y] = NewTarget BY <1>1, <1>2, OfWorking
  <2> QED BY <1>3, <2>1
<1>5. thread' = [thread EXCEPT ![r] = row] /\ target' = [target EXCEPT ![t][x] = new]
  <2>1. CASE lost
    <3>1. /\ target' = [target EXCEPT ![t][x].status = "failed"]
          /\ thread' = [thread EXCEPT ![r].todo = @ \ {x}, ![r].pc = "count"]
      BY <2>1 DEF BeginTarget
    <3>2. row = [thread[r] EXCEPT !.todo = thread[r].todo \ {x}, !.pc = "count"]
      BY <2>1, <1>2 DEF ThreadRow
    <3>3. status = "failed" BY <2>1
    <3> HIDE DEF row, t, status
    <3> QED BY <3>1, <3>2, <3>3
  <2>2. CASE ~lost
    <3>1. /\ target' = [target EXCEPT ![t][x].status = "running"]
          /\ thread' = [thread EXCEPT ![r].todo = @ \ {x}, ![r].pc = "scan", ![r].at = x]
      BY <2>2 DEF BeginTarget
    <3>2. row = [thread[r] EXCEPT !.todo = thread[r].todo \ {x}, !.pc = "scan", !.at = x]
      BY <2>2
    <3>3. status = "running" BY <2>2
    <3> HIDE DEF row, t, status
    <3> QED BY <3>1, <3>2, <3>3
  <2> QED BY <2>1, <2>2
<1>6. /\ status \in {"failed", "running"} /\ pc \in {"count", "scan"} /\ at \in Targets
      /\ pc = "scan" => at = x /\ status = "running"
  BY <1>2
<1> HIDE DEF lost, status, pc, at
<1>7. /\ row \in ThreadRow /\ row.pc = pc /\ row.scan = thread[r].scan /\ row.at = at
      /\ row.todo = thread[r].todo \ {x}
  BY <1>2, <1>6 DEF ThreadRow, ThreadPC
<1>8. row.scan = t BY <1>7
<1> HIDE DEF t
<1>9. /\ new \in TargetRow /\ new.status = status
      /\ ~overlapped[t] => new.findings = 0 /\ new.risk = 0
  <2>1. /\ NewTarget \in TargetRow /\ NewTarget.findings = 0 /\ NewTarget.risk = 0
    BY ConstantRows
  <2>2. new \in TargetRow /\ new.status = status BY <1>2, <1>6 DEF TargetRow, TargetStatus
  <2>3. ~overlapped[t] => new.findings = 0 /\ new.risk = 0 BY <1>2, <1>4, <2>1 DEF TargetRow
  <2> QED BY <2>2, <2>3
<1> HIDE DEF new, row
<1>10. ~overlapped[t] => new.findings <= 1 /\ (new.status = "completed" => new.risk = new.findings) BY <1>9
<1>11. /\ row.pc \in {"scan", "save"} => row.at = x /\ new.status \in {"pending", "running"}
       /\ row.pc \in {"loop", "scan", "save", "count"} /\ row.pc # "save"
  BY <1>6, <1>7, <1>9
<1>12. row.pc = "save" => row.verdict \in {"failed", "completed"} BY <1>11
<1>13. thread[r].scan = t BY DEF t
<1>14. ~overlapped[t] /\ row.pc = "scan" => new.findings = 0 BY <1>9
<1>15. row.todo \subseteq thread[r].todo \ {x} BY <1>7
<1>16. thread[r].pc \in {"loop", "scan", "save"} /\ x \in Claim(r) \cup AtWork(r) BY <1>1, <1>3
<1> QED BY <1>1, <1>2, <1>5, <1>7, <1>8, <1>9, <1>10, <1>11, <1>12, <1>13, <1>14, <1>15, <1>16, TargetStep

LEMMA CollectStep ==
  ASSUME ScanInv, NEW r \in Threads, Collect(r)
  PROVE  ScanInv'
<1>1. PICK found \in BOOLEAN, fails \in BOOLEAN :
         /\ target' = [target EXCEPT ![thread[r].scan][thread[r].at].findings =
                                        IF found \/ fails THEN @ + 1 ELSE @]
         /\ thread' = [thread EXCEPT ![r].pc = "save",
                         ![r].verdict = IF fails THEN "failed" ELSE "completed"]
  BY DEF Collect
<1> DEFINE t == thread[r].scan
           x == thread[r].at
           found1 == target[t][x].findings + 1
           findings == IF found \/ fails THEN found1 ELSE target[t][x].findings
           new == [target[t][x] EXCEPT !.findings = findings]
           verdict == IF fails THEN "failed" ELSE "completed"
           row == [thread[r] EXCEPT !.pc = "save", !.verdict = verdict]
<1>2. /\ ScanTypeOK /\ thread[r].pc = "scan"
      /\ UNCHANGED <<scan, gone, scanView, marked, scanCrashes, retries, raced, overlapped>>
  BY DEF ScanInv, Collect, At
<1>3. /\ thread[r] \in ThreadRow /\ t \in Scans /\ x \in Targets /\ target[t][x] \in TargetRow
      /\ AtWork(r) = {x} /\ thread[r].todo = Claim(r)
  BY <1>2, ThreadType DEF ScanTypeOK, AtWork, Claim
<1>4. /\ target[t][x].findings \in Nat
      /\ ~overlapped[t] => target[t][x].findings = 0 /\ target[t][x].status \in {"pending", "running"}
  BY <1>2, <1>3 DEF ScanInv, UntilScanned, Fresh, TargetRow
<1>5. ~overlapped[t] => x \notin Claim(r)
  <2>1. ~overlapped[t] => AtWork(r) \cap Claim(r) = {} BY <1>2, <1>3, OfWorking
  <2> QED BY <1>3, <2>1
<1>6. target' = [target EXCEPT ![t][x] = new]
  <2>1. target' = [target EXCEPT ![t][x].findings = findings]
    <3>1. target' = [target EXCEPT ![t][x].findings = IF found \/ fails THEN @ + 1 ELSE @]
      BY <1>1
    <3> HIDE DEF t, x
    <3> QED BY <3>1
  <2> HIDE DEF findings, t, x
  <2> QED BY <2>1
<1>7. thread' = [thread EXCEPT ![r] = row]
  <2>1. thread' = [thread EXCEPT ![r].pc = "save", ![r].verdict = verdict] BY <1>1
  <2> HIDE DEF verdict
  <2> QED BY <2>1
<1>8. findings \in Nat /\ (~overlapped[t] => findings \in {0, 1}) BY <1>4
<1>9. verdict \in {"failed", "completed"} OBVIOUS
<1> HIDE DEF findings, verdict
<1>10. /\ row \in ThreadRow /\ row.pc = "save" /\ row.scan = thread[r].scan /\ row.at = thread[r].at
       /\ row.todo = thread[r].todo /\ row.verdict = verdict
  BY <1>3, <1>9 DEF ThreadRow, ThreadPC, ScanStatus
<1>11. row.scan = t /\ row.at = x /\ thread[r].scan = t BY <1>10
<1> HIDE DEF t, x, row
<1>12. /\ new \in TargetRow /\ new.findings = findings
       /\ ~overlapped[t] => new.status \in {"pending", "running"}
  BY <1>3, <1>4, <1>8 DEF TargetRow
<1> HIDE DEF new
<1>13. ~overlapped[t] => new.findings <= 1 /\ (new.status = "completed" => new.risk = new.findings)
  BY <1>8, <1>12
<1>14. ~overlapped[t] => row.todo \subseteq thread[r].todo \ {x} BY <1>3, <1>5, <1>10
<1>15. thread[r].pc \in {"loop", "scan", "save"} /\ x \in Claim(r) \cup AtWork(r) BY <1>2, <1>3
<1>16. /\ ~overlapped[t] /\ row.pc \in {"scan", "save"} => row.at = x /\ new.status \in {"pending", "running"}
       /\ row.pc \in {"loop", "scan", "save", "count"} /\ row.pc # "scan"
  BY <1>10, <1>11, <1>12
<1>17. row.pc = "scan" => new.findings = 0 BY <1>16
<1>18. row.pc = "save" => row.verdict \in {"failed", "completed"} BY <1>9, <1>10
<1> QED BY <1>2, <1>3, <1>6, <1>7, <1>10, <1>11, <1>12, <1>13, <1>14, <1>15, <1>16, <1>17, <1>18,
           TargetStep

LEMMA SaveStep ==
  ASSUME ScanInv, NEW r \in Threads, SaveTarget(r)
  PROVE  ScanInv'
<1> DEFINE t == thread[r].scan
           x == thread[r].at
           findings == target[t][x].findings
           verdict == thread[r].verdict
           new == [target[t][x] EXCEPT !.status = verdict, !.risk = findings]
           row == [thread[r] EXCEPT !.pc = "count", !.verdict = "none", !.at = NoThread.at]
<1>1. /\ ScanTypeOK /\ thread[r].pc = "save" /\ PlaceOf(r)
      /\ UNCHANGED <<scan, gone, scanView, marked, scanCrashes, retries, raced, overlapped>>
  BY DEF ScanInv, SaveTarget, At, Places
<1>2. /\ thread[r] \in ThreadRow /\ t \in Scans /\ x \in Targets /\ target[t][x] \in TargetRow
      /\ AtWork(r) = {x} /\ thread[r].todo = Claim(r)
  BY <1>1, ThreadType DEF ScanTypeOK, AtWork, Claim
<1>3. verdict \in {"failed", "completed"} BY <1>1 DEF PlaceOf
<1>4. /\ findings \in Nat
      /\ ~overlapped[t] => findings <= 1 /\ AtWork(r) \cap Claim(r) = {}
  <2>1. ~overlapped[t] => \A y \in Targets : target[t][y].findings <= 1
    BY <1>1, <1>2, OfWorking
  <2>2. ~overlapped[t] => AtWork(r) \cap Claim(r) = {} BY <1>1, <1>2, OfWorking
  <2>3. findings \in Nat BY <1>2 DEF TargetRow
  <2> QED BY <1>2, <2>1, <2>2, <2>3
<1>5. target' = [target EXCEPT ![t][x] = new]
  <2>1. target' = [target EXCEPT ![t][x].status = verdict, ![t][x].risk = findings]
    BY DEF SaveTarget
  <2> HIDE DEF findings, t, x, verdict
  <2>2. [target EXCEPT ![t][x].status = verdict, ![t][x].risk = findings]
          = [target EXCEPT ![t][x] = new]
    BY <1>1, <1>2 DEF ScanTypeOK
  <2> QED BY <2>1, <2>2
<1>6. thread' = [thread EXCEPT ![r] = row] BY DEF SaveTarget
<1>7. thread[r].scan = t OBVIOUS
<1>8. /\ row \in ThreadRow /\ row.pc = "count" /\ row.scan = thread[r].scan
      /\ row.todo = thread[r].todo
  BY <1>2, ConstantRows DEF ThreadRow, ThreadPC, ScanStatus
<1> HIDE DEF findings, verdict, t, x, row
<1>9. new \in TargetRow /\ new.findings = target[t][x].findings /\ new.risk = findings
  BY <1>2, <1>3, <1>4 DEF TargetRow, TargetStatus
<1>10. new.findings = findings BY <1>9 DEF findings
<1> HIDE DEF new
<1>11. ~overlapped[t] => new.findings <= 1 /\ (new.status = "completed" => new.risk = new.findings)
  BY <1>4, <1>9, <1>10
<1>12. (~overlapped[t] => row.todo \subseteq thread[r].todo \ {x}) /\ row.scan = t BY <1>2, <1>4, <1>7, <1>8
<1>13. thread[r].pc \in {"loop", "scan", "save"} /\ x \in Claim(r) \cup AtWork(r) BY <1>1, <1>2
<1>14. row.pc \in {"loop", "scan", "save", "count"} /\ row.pc \notin {"scan", "save"}
  BY <1>8
<1>15. /\ row.pc \in {"scan", "save"} => row.at = x /\ new.status \in {"pending", "running"}
       /\ row.pc = "scan" => new.findings = 0
       /\ row.pc = "save" => row.verdict \in {"failed", "completed"}
  BY <1>14
<1> QED BY <1>1, <1>2, <1>5, <1>6, <1>7, <1>8, <1>9, <1>11, <1>12, <1>13, <1>14, <1>15, TargetStep

LEMMA CountStep ==
  ASSUME ScanInv, NEW r \in Threads, CountTask(r)
  PROVE  ScanInv'
<1> DEFINE t == thread[r].scan
           counts == CountersOf(t)
           new == [scan[t] EXCEPT !.counts = counts]
           row == [thread[r] EXCEPT !.pc = "loop"]
<1>1. ScanTypeOK /\ thread[r].pc = "count" BY DEF ScanInv, CountTask, At
<1>2. thread[r] \in ThreadRow /\ t \in Scans /\ scan[t] \in ScanRow
  BY <1>1, ThreadType DEF ScanTypeOK
<1>3. /\ UNCHANGED <<target, gone, scanView, marked, scanCrashes, retries, raced, overlapped>>
      /\ thread' = [thread EXCEPT ![r] = row] /\ scan' = [scan EXCEPT ![t] = new]
  BY DEF CountTask
<1>4. counts \in Counters BY <1>1, <1>2, CountersType
<1>5. scan[t].status # "none" /\ (~raced[t] /\ ~overlapped[t] => scan[t].status # "completed")
  BY <1>1, <1>2, OfWorking
<1>6. thread[r].scan = t OBVIOUS
<1> HIDE DEF counts, t
<1>7. new \in ScanRow /\ new.status = scan[t].status BY <1>2, <1>4 DEF ScanRow
<1>8. /\ row \in ThreadRow /\ row.pc = "loop" /\ row.scan = thread[r].scan
      /\ row.todo = thread[r].todo
  BY <1>2 DEF ThreadRow, ThreadPC
<1> HIDE DEF new, row
<1>9. (IF row.pc = "fetch" /\ ~row.retry THEN Targets ELSE row.todo) \subseteq Claim(r)
  BY <1>1, <1>8 DEF Claim
<1>10. /\ new.status \in {"none", "deleted"} <=> scan[t].status \in {"none", "deleted"}
       /\ ~(~raced[t] /\ ~overlapped[t] /\ new.status = "completed") /\ new.status # "none"
  BY <1>5, <1>7
<1> QED BY <1>1, <1>2, <1>3, <1>6, <1>7, <1>8, <1>9, <1>10, TaskStep

LEMMA CloseStep ==
  ASSUME ScanInv, NEW r \in Threads, CloseTask(r)
  PROVE  ScanInv'
<1> DEFINE t == thread[r].scan
           verdict == thread[r].verdict
           counts == thread[r].counts
           new == [scan[t] EXCEPT !.status = verdict, !.counts = counts]
<1>1. ScanTypeOK /\ thread[r].pc = "close" /\ Present(t) /\ PlaceOf(r)
  BY DEF ScanInv, CloseTask, At, Places
<1>2. thread[r] \in ThreadRow /\ t \in Scans /\ scan[t] \in ScanRow /\ counts \in Counters
  BY <1>1, ThreadType DEF ScanTypeOK
<1>3. /\ UNCHANGED <<target, gone, scanView, marked, scanCrashes, retries, raced, overlapped>>
      /\ thread' = [thread EXCEPT ![r] = NoThread] /\ scan' = [scan EXCEPT ![t] = new]
  BY DEF CloseTask
<1>4. verdict \in {"running", "completed", "failed", "canceled"} BY <1>1 DEF PlaceOf
<1>5. scan[t].status \notin {"none", "deleted"} BY <1>1 DEF Present
<1>6. ASSUME ~raced[t], ~overlapped[t], verdict = "completed"
      PROVE  Having(t, {"completed", "skipped"}) = Targets /\ counts = CountersOf(t)
  <2>1. r \in Working(t) BY <1>1 DEF Working
  <2> QED BY <2>1, <1>1, <1>2, <1>6 DEF ScanInv, AloneToTheEnd
<1>7. thread[r].scan = t OBVIOUS
<1> HIDE DEF counts, t, verdict
<1>8. new \in ScanRow /\ new.status = verdict /\ new.counts = counts
  BY <1>2, <1>4 DEF ScanRow, ScanStatus
<1> HIDE DEF new
<1>9. NoThread \in ThreadRow /\ NoThread.pc = "none" /\ NoThread.todo = {} BY ConstantRows
<1>10. /\ new.status \in {"none", "deleted"} <=> scan[t].status \in {"none", "deleted"}
       /\ new.status # "none"
  BY <1>4, <1>5, <1>8
<1>11. (IF NoThread.pc = "fetch" /\ ~NoThread.retry THEN Targets ELSE NoThread.todo) \subseteq Claim(r)
  BY <1>9
<1> QED BY <1>1, <1>2, <1>3, <1>6, <1>7, <1>8, <1>9, <1>10, <1>11, TaskStep

LEMMA LoseStep ==
  ASSUME ScanInv, NEW r \in Threads, LoseTask(r)
  PROVE  ScanInv'
<1> DEFINE t == thread[r].scan
           new == scan[t]
<1>1. ScanTypeOK /\ thread[r].pc # "none" /\ ~Present(t) BY DEF ScanInv, LoseTask
<1>2. t \in Scans /\ new \in ScanRow BY <1>1, ThreadType DEF ScanTypeOK
<1>3. /\ UNCHANGED <<scan, target, gone, scanView, marked, scanCrashes, retries, raced, overlapped>>
      /\ thread' = [thread EXCEPT ![r] = NoThread]
  BY DEF LoseTask
<1>4. scan' = [scan EXCEPT ![t] = new] BY <1>1, <1>2, <1>3 DEF ScanTypeOK
<1>5. scan[t].status # "none" BY <1>1, <1>2, OfWorking
<1>6. thread[r].scan = t /\ scan[t].status \in {"none", "deleted"} BY <1>1 DEF Present
<1>7. NoThread \in ThreadRow /\ NoThread.pc = "none" /\ NoThread.todo = {} BY ConstantRows
<1>8. (IF NoThread.pc = "fetch" /\ ~NoThread.retry THEN Targets ELSE NoThread.todo) \subseteq Claim(r)
  BY <1>7
<1> QED BY <1>1, <1>2, <1>3, <1>4, <1>5, <1>6, <1>7, <1>8, TaskStep
----------------------------------------------------------------------------
(* The requests. *)

\* Steps that leave the threads alone.
LEMMA RequestMoves ==
  ASSUME ScanInv, ScanTypeOK', thread' = thread,
         \A t \in Scans : overlapped[t] => overlapped'[t],
         \A t \in Scans : ~overlapped'[t] => \A x \in Targets :
            \/ target'[t][x] \in {target[t][x], NewTarget}
            \/ target[t][x].status = "failed" /\ target'[t][x].status = "failed"
               /\ target'[t][x].findings = 0,
         \A r \in Threads, v \in ScanViews : thread[r].pc # "none" /\ thread[r].scan = scanView'[v].scan
            /\ ~overlapped'[thread[r].scan]
            => (Claim(r) \cup AtWork(r)) \cap Asked(v)' = {},
         \A v, w \in ScanViews :
            v # w /\ scanView'[v].scan = scanView'[w].scan /\ ~overlapped'[scanView'[v].scan]
            => Asked(v)' \cap Asked(w)' = {},
         \A v \in ScanViews : ~overlapped'[scanView'[v].scan] => \A x \in Asked(v)' : Listed(v, x)',
         \A v \in ScanViews :
            /\ scanView'[v].pc \in {"clear", "reset", "queue", "start"} => scanView'[v].ids # {}
            /\ scanView'[v].pc = "cancel" => scanView'[v].status \in {"canceled", "running"}
            /\ scanView'[v].pc # "idle" => scan'[scanView'[v].scan].status # "none",
         \A t \in Scans : raced[t] => raced'[t],
         \A t \in Scans : scan'[t].status = "none" =>
            scan[t].status = "none" /\ \A x \in Targets : target'[t][x] \in {target[t][x], NewTarget},
         \A t \in Scans : ~raced'[t] /\ Present(t)' => Present(t),
         \A t \in Scans : ~raced'[t] /\ ~overlapped'[t] /\ Present(t)' =>
            target'[t] = target[t] \/ Having(t, {"failed"}) # {},
         \A t \in Scans : scan'[t].status = "completed" /\ ~raced'[t] /\ ~overlapped'[t] =>
            scan[t].status = "completed" /\ scan'[t].counts = scan[t].counts
  PROVE  ScanInv'
<1>1. ScanTypeOK BY DEF ScanInv
<1>2. \A r \in Threads : Claim(r)' = Claim(r) /\ AtWork(r)' = AtWork(r) BY DEF Claim, AtWork, Targets
<1>3. \A t : Working(t)' = Working(t) BY DEF Working
<1>4. /\ NewTarget \in TargetRow /\ NewTarget.status = "pending" /\ NewTarget.findings = 0
      /\ NewTarget.risk = 0
  BY ConstantRows
<1>5. \A r \in Threads : Claim(r) \cup AtWork(r) \subseteq Targets
  <2> SUFFICES ASSUME NEW r \in Threads PROVE Claim(r) \cup AtWork(r) \subseteq Targets OBVIOUS
  <2> QED BY <1>1, ThreadType DEF Claim, AtWork
<1>6. Places' BY DEF ScanInv, Places, PlaceOf
<1>7. ClaimsApart'
  <2>1. \A r, q \in Threads :
          r # q /\ thread'[r].pc # "none" /\ thread'[q].pc # "none" /\ thread'[r].scan = thread'[q].scan
            /\ ~overlapped'[thread'[r].scan] => (Claim(r) \cup AtWork(r))' \cap (Claim(q) \cup AtWork(q))' = {}
    <3> SUFFICES ASSUME NEW r \in Threads, NEW q \in Threads, r # q, thread[r].pc # "none",
                        thread[q].pc # "none", thread[r].scan = thread[q].scan,
                        ~overlapped'[thread[r].scan]
                 PROVE  (Claim(r) \cup AtWork(r)) \cap (Claim(q) \cup AtWork(q)) = {}
      BY <1>2
    <3>1. ~overlapped[thread[r].scan] BY <1>1, ThreadType
    <3> QED BY <3>1 DEF ScanInv, ClaimsApart
  <2>2. \A r \in Threads, v \in ScanViews : thread'[r].pc # "none" /\ thread'[r].scan = scanView'[v].scan
            /\ ~overlapped'[thread'[r].scan] => (Claim(r) \cup AtWork(r))' \cap Asked(v)' = {}
    BY <1>2
  <2> QED BY <2>1, <2>2 DEF ClaimsApart
<1>8. UntilScanned'
  <2>1. ASSUME NEW r \in Threads, thread[r].pc # "none", ~overlapped'[thread[r].scan]
        PROVE  Fresh(r)'
    <3> DEFINE t == thread[r].scan
    <3>1. t \in Scans /\ ~overlapped[t] BY <1>1, <2>1, ThreadType
    <3>2. /\ \A x \in Claim(r) : target[t][x] = NewTarget
          /\ AtWork(r) \cap Claim(r) = {}
          /\ \A x \in AtWork(r) :
               /\ target[t][x].status \in {"pending", "running"}
               /\ thread[r].pc = "scan" => target[t][x].findings = 0
      BY <2>1, <3>1 DEF ScanInv, UntilScanned, Fresh
    <3>3. \A x \in Claim(r) \cup AtWork(r) :
            target[t][x].status # "failed" => target'[t][x] \in {target[t][x], NewTarget}
      BY <1>5, <2>1, <3>1
    <3> HIDE DEF t
    <3>4. \A x \in Claim(r) : target'[t][x] = NewTarget BY <3>2, <3>3, <1>4
    <3>5. \A x \in AtWork(r) : /\ target'[t][x].status \in {"pending", "running"}
                               /\ thread[r].pc = "scan" => target'[t][x].findings = 0
      <4> SUFFICES ASSUME NEW x \in AtWork(r)
                   PROVE  /\ target'[t][x].status \in {"pending", "running"}
                          /\ thread[r].pc = "scan" => target'[t][x].findings = 0
        OBVIOUS
      <4>1. CASE target'[t][x] = target[t][x] BY <4>1, <3>2
      <4>2. CASE target'[t][x] = NewTarget BY <4>2, <1>4
      <4> QED BY <4>1, <4>2, <3>2, <3>3
    <3> QED BY <3>2, <3>4, <3>5, <1>2 DEF t, Fresh
  <2> QED BY <2>1 DEF UntilScanned
<1>9. NotYet'
  <2> SUFFICES ASSUME NEW t \in Scans, scan'[t].status = "none"
               PROVE  /\ Working(t)' = {}
                      /\ \A v \in ScanViews : scanView'[v].pc # "idle" => scanView'[v].scan # t
                      /\ \A x \in Targets : target'[t][x] = NewTarget
    BY DEF NotYet, Targets
  <2>1. Working(t) = {} /\ \A x \in Targets : target[t][x] = NewTarget BY DEF ScanInv, NotYet
  <2> QED BY <2>1, <1>3
<1>10. FindingsOfOneScan'
  <2> SUFFICES ASSUME NEW t \in Scans, NEW x \in Targets, ~overlapped'[t]
               PROVE  /\ target'[t][x].findings <= 1
                      /\ target'[t][x].status = "completed" =>
                            target'[t][x].risk = target'[t][x].findings
    BY DEF FindingsOfOneScan, Targets
  <2>1. CASE target'[t][x] = target[t][x] BY <2>1 DEF ScanInv, FindingsOfOneScan
  <2>2. CASE target'[t][x] = NewTarget BY <2>2, <1>4
  <2>3. CASE target'[t][x].status = "failed" /\ target'[t][x].findings = 0 BY <2>3
  <2> QED BY <2>1, <2>2, <2>3
<1>11. AloneToTheEnd'
  <2> SUFFICES ASSUME NEW t \in Scans, ~raced'[t], ~overlapped'[t]
               PROVE  /\ \A r, q \in Working(t) : r = q
                      /\ scan'[t].status = "completed" => Working(t) = {}
                      /\ Present(t)' => \A r \in Working(t) : thread[r].verdict = "completed" =>
                           /\ thread[r].pc = "verdict" => Having(t, {"failed"})' = {}
                           /\ thread[r].pc \in {"lastCount", "close"} =>
                                Having(t, {"completed", "skipped"})' = Targets
                           /\ thread[r].pc = "close" => thread[r].counts = CountersOf(t)'
    BY <1>3 DEF AloneToTheEnd, Targets
  <2>1. ~raced[t] /\ ~overlapped[t] OBVIOUS
  <2>2. /\ \A r, q \in Working(t) : r = q
        /\ scan[t].status = "completed" => Working(t) = {}
    BY <2>1 DEF ScanInv, AloneToTheEnd
  <2>3. ASSUME Present(t)', NEW r \in Working(t), thread[r].verdict = "completed"
        PROVE  /\ thread[r].pc = "verdict" => Having(t, {"failed"})' = {}
               /\ thread[r].pc \in {"lastCount", "close"} =>
                    Having(t, {"completed", "skipped"})' = Targets
               /\ thread[r].pc = "close" => thread[r].counts = CountersOf(t)'
    <3>1. Present(t) BY <2>3
    <3>2. /\ thread[r].pc = "verdict" => Having(t, {"failed"}) = {}
          /\ thread[r].pc \in {"lastCount", "close"} => Having(t, {"completed", "skipped"}) = Targets
          /\ thread[r].pc = "close" => thread[r].counts = CountersOf(t)
      BY <2>1, <2>3, <3>1 DEF ScanInv, AloneToTheEnd
    <3>3. CASE target'[t] = target[t] BY <3>2, <3>3, SameCounts
    <3>4. CASE Having(t, {"failed"}) # {}
      <4>1. Having(t, {"completed", "skipped"}) # Targets BY <3>4 DEF Having
      <4> QED BY <3>2, <3>4, <4>1
    <3> QED BY <2>3, <3>3, <3>4
  <2> QED BY <2>2, <2>3
<1>12. CompletedMeansScanned'
  <2> SUFFICES ASSUME NEW t \in Scans, scan'[t].status = "completed", ~raced'[t], ~overlapped'[t]
               PROVE  /\ Having(t, {"completed", "skipped"})' = Targets
                      /\ scan'[t].counts = CountersOf(t)'
    BY DEF CompletedMeansScanned, Targets
  <2>1. ~raced[t] /\ ~overlapped[t] /\ scan[t].status = "completed" /\ scan'[t].counts = scan[t].counts OBVIOUS
  <2>2. /\ Having(t, {"completed", "skipped"}) = Targets
        /\ scan[t].counts = CountersOf(t)
    BY <2>1 DEF ScanInv, CompletedMeansScanned
  <2>3. Present(t)' BY DEF Present
  <2>4. CASE target'[t] = target[t] BY <2>1, <2>2, <2>4, SameCounts
  <2>5. CASE Having(t, {"failed"}) # {} BY <2>5, <2>2 DEF Having
  <2> QED BY <2>3, <2>4, <2>5
<1> QED BY <1>6, <1>7, <1>8, <1>9, <1>10, <1>11, <1>12 DEF ScanInv

\* What holds of the requests in flight.
LEMMA OfViews ==
  ASSUME ScanInv, NEW v \in ScanViews
  PROVE  /\ scanView[v].pc # "idle" => scan[scanView[v].scan].status # "none"
         /\ scanView[v].pc \in {"clear", "reset", "queue", "start"} => scanView[v].ids # {}
         /\ scanView[v].pc = "cancel" => scanView[v].status \in {"canceled", "running"}
<1>1. scanView[v].scan \in Scans BY ViewType DEF ScanInv
<1> QED BY <1>1 DEF ScanInv, NotYet, Places

\* Steps that leave threads and targets alone; a request gives up its targets or keeps them.
LEMMA QuietRequest ==
  ASSUME ScanInv, ScanTypeOK', thread' = thread, target' = target, overlapped' = overlapped,
         \A v \in ScanViews : scanView'[v] # scanView[v] =>
            /\ scanView'[v].pc \notin {"clear", "reset"}
            /\ scanView'[v].pc \in {"queue", "start"} =>
                  scanView[v].pc \in {"queue", "start"} /\ scanView'[v].ids = scanView[v].ids
                  /\ scanView'[v].scan = scanView[v].scan
            /\ scanView'[v].pc = "cancel" => scanView'[v].status \in {"canceled", "running"}
            /\ scanView'[v].pc # "idle" => scan[scanView'[v].scan].status # "none"
            /\ scanView'[v].scan \in Scans,
         \A t \in Scans : raced[t] => raced'[t],
         \A t \in Scans : scan'[t].status = "none" => scan[t].status = "none",
         \A t \in Scans : Present(t)' => Present(t),
         \A t \in Scans : scan'[t].status = "completed" /\ ~raced'[t] =>
            scan[t].status = "completed" /\ scan'[t].counts = scan[t].counts
  PROVE  ScanInv'
<1>1. ScanTypeOK BY DEF ScanInv
<1>2. \A v \in ScanViews : /\ Asked(v)' \subseteq Asked(v)
                           /\ Asked(v)' # {} => scanView'[v].scan = scanView[v].scan
  BY DEF Asked
<1>3. /\ \A t \in Scans, x \in Targets : target'[t][x] \in {target[t][x], NewTarget}
      /\ \A t \in Scans : overlapped[t] => overlapped'[t]
  OBVIOUS
<1>4. \A r \in Threads, v \in ScanViews : thread[r].pc # "none" /\ thread[r].scan = scanView'[v].scan
            /\ ~overlapped'[thread[r].scan] => (Claim(r) \cup AtWork(r)) \cap Asked(v)' = {}
  BY <1>2 DEF ScanInv, ClaimsApart
<1>5. \A v, w \in ScanViews :
            v # w /\ scanView'[v].scan = scanView'[w].scan /\ ~overlapped'[scanView'[v].scan]
            => Asked(v)' \cap Asked(w)' = {}
  BY <1>2 DEF ScanInv, ClaimsApart
<1>6. \A v \in ScanViews : ~overlapped'[scanView'[v].scan] => \A x \in Asked(v)' : Listed(v, x)'
  <2> SUFFICES ASSUME NEW v \in ScanViews, ~overlapped[scanView'[v].scan], NEW x \in Asked(v)'
               PROVE  Listed(v, x)'
    OBVIOUS
  <2>1. x \in Asked(v) /\ scanView'[v].scan = scanView[v].scan BY <1>2
  <2>2. Listed(v, x) BY <2>1 DEF ScanInv, UntilScanned
  <2>3. CASE scanView'[v] = scanView[v] BY <2>2, <2>3 DEF Listed
  <2>4. CASE scanView'[v] # scanView[v]
    <3>1. scanView[v].pc \in {"queue", "start"} BY <2>4 DEF Asked
    <3> QED BY <2>1, <2>2, <3>1 DEF Listed
  <2> QED BY <2>3, <2>4
<1>7. \A v \in ScanViews :
            /\ scanView'[v].pc \in {"clear", "reset", "queue", "start"} => scanView'[v].ids # {}
            /\ scanView'[v].pc = "cancel" => scanView'[v].status \in {"canceled", "running"}
            /\ scanView'[v].pc # "idle" => scan'[scanView'[v].scan].status # "none"
  <2> SUFFICES ASSUME NEW v \in ScanViews
               PROVE  /\ scanView'[v].pc \in {"clear", "reset", "queue", "start"} => scanView'[v].ids # {}
                      /\ scanView'[v].pc = "cancel" => scanView'[v].status \in {"canceled", "running"}
                      /\ scanView'[v].pc # "idle" => scan'[scanView'[v].scan].status # "none"
    OBVIOUS
  <2>1. /\ scanView[v].pc # "idle" => scan[scanView[v].scan].status # "none"
        /\ scanView[v].pc \in {"clear", "reset", "queue", "start"} => scanView[v].ids # {}
        /\ scanView[v].pc = "cancel" => scanView[v].status \in {"canceled", "running"}
    BY OfViews
  <2>2. scanView[v].scan \in Scans BY <1>1, ViewType
  <2>3. CASE scanView'[v] = scanView[v] BY <2>1, <2>2, <2>3
  <2>4. CASE scanView'[v] # scanView[v] BY <2>1, <2>4
  <2> QED BY <2>3, <2>4
<1>8. \A t \in Scans : ~raced'[t] /\ Present(t)' => Present(t) OBVIOUS
<1>9. \A t \in Scans : ~raced'[t] /\ ~overlapped'[t] /\ Present(t)' =>
         target'[t] = target[t] \/ Having(t, {"failed"}) # {}
  OBVIOUS
<1> QED BY <1>3, <1>4, <1>5, <1>6, <1>7, <1>8, <1>9, RequestMoves

LEMMA CancelStep ==
  ASSUME ScanInv, NEW v \in ScanViews, NEW t \in Scans, CancelScan(v, t)
  PROVE  ScanInv'
<1> DEFINE status == IF scan[t].status = "queued" THEN "canceled" ELSE "running"
           new == [Idle EXCEPT !.pc = "cancel", !.scan = t, !.status = status]
<1>1. /\ ScanTypeOK /\ scanView' = [scanView EXCEPT ![v] = new]
      /\ scan[t].status \in {"queued", "running"}
      /\ UNCHANGED <<scan, target, gone, thread, marked, scanCrashes, retries, raced, overlapped>>
  BY DEF ScanInv, CancelScan
<1>2. status \in {"canceled", "running"} OBVIOUS
<1> HIDE DEF status
<1>3. new \in ViewRow /\ new.pc = "cancel" /\ new.scan = t /\ new.status = status
  BY <1>2, ConstantRows DEF ViewRow, ScanStatus
<1> HIDE DEF new
<1>4. /\ scanView' \in [ScanViews -> ViewRow]
      /\ \A w \in ScanViews : scanView'[w] # scanView[w] => scanView'[w] = new
  BY <1>1, <1>3 DEF ScanTypeOK
<1>5. ScanTypeOK' BY <1>1, <1>4 DEF ScanTypeOK, Targets
<1>6. \A u : Present(u)' = Present(u) BY <1>1 DEF Present
<1>7. scan[t].status # "none" BY <1>1
<1> QED BY <1>1, <1>2, <1>3, <1>4, <1>5, <1>6, <1>7, QuietRequest

LEMMA SaveCancelStep ==
  ASSUME ScanInv, NEW v \in ScanViews, SaveCancel(v)
  PROVE  ScanInv'
<1> DEFINE t == scanView[v].scan
           new == [scan[t] EXCEPT !.cancel = TRUE, !.status = scanView[v].status]
<1>1. /\ ScanTypeOK /\ scanView[v].pc = "cancel" /\ scanView' = [scanView EXCEPT ![v] = Idle]
      /\ UNCHANGED <<target, gone, thread, marked, scanCrashes, retries, overlapped>>
  BY DEF ScanInv, SaveCancel
<1>2. t \in Scans /\ scan[t] \in ScanRow BY <1>1, ViewType DEF ScanTypeOK
<1>3. scanView[v].status \in {"canceled", "running"} BY <1>1, OfViews
<1>4. new \in ScanRow /\ new.status \in {"canceled", "running"}
  BY <1>2, <1>3 DEF ScanRow, ScanStatus
<1>5. Idle \in ViewRow /\ Idle.pc = "idle" BY ConstantRows
<1>6. /\ scanView' \in [ScanViews -> ViewRow]
      /\ \A w \in ScanViews : scanView'[w] # scanView[w] => scanView'[w] = Idle
  BY <1>1, <1>5 DEF ScanTypeOK
<1>7. Present(t) => scan' = [scan EXCEPT ![t] = new]
  BY DEF SaveCancel
<1>8. ~Present(t) => scan' = scan /\ raced' = raced
  BY DEF SaveCancel
<1>9. raced' \in [Scans -> BOOLEAN] /\ \A u \in Scans : raced[u] => raced'[u]
  <2>1. CASE Present(t)
    <3> DEFINE late == scan[t].status # (IF scanView[v].status = "canceled" THEN "queued" ELSE "running")
    <3>1. raced' = [raced EXCEPT ![t] = @ \/ late] BY <2>1 DEF SaveCancel
    <3>2. late \in BOOLEAN OBVIOUS
    <3> HIDE DEF late, t
    <3> QED BY <1>1, <1>2, <3>1, <3>2 DEF ScanTypeOK
  <2>2. CASE ~Present(t) BY <1>1, <1>8, <2>2 DEF ScanTypeOK
  <2> QED BY <2>1, <2>2
<1> HIDE DEF t, new
<1>10. /\ scan' \in [Scans -> ScanRow]
       /\ \A u \in Scans : scan'[u] # scan[u] => u = t /\ Present(t) /\ scan'[u] = new
  <2>1. CASE Present(t) BY <1>1, <1>2, <1>4, <1>7, <2>1 DEF ScanTypeOK
  <2>2. CASE ~Present(t) BY <1>1, <1>8, <2>2 DEF ScanTypeOK
  <2> QED BY <2>1, <2>2
<1>11. ScanTypeOK' BY <1>1, <1>6, <1>9, <1>10 DEF ScanTypeOK, Targets
<1>12. \A u \in Scans : Present(u)' => Present(u)
  <2> SUFFICES ASSUME NEW u \in Scans, Present(u)' PROVE Present(u) OBVIOUS
  <2>1. CASE scan'[u] = scan[u] BY <2>1 DEF Present
  <2>2. CASE scan'[u] # scan[u] BY <2>2, <1>10
  <2> QED BY <2>1, <2>2
<1>13. \A u \in Scans : /\ scan'[u].status = "none" => scan[u].status = "none"
                        /\ scan'[u].status = "completed" /\ ~raced'[u] =>
                             scan[u].status = "completed" /\ scan'[u].counts = scan[u].counts
  BY <1>4, <1>10
<1>14. Idle.scan \in Scans BY <1>5 DEF ViewRow
<1> QED BY <1>1, <1>5, <1>6, <1>9, <1>11, <1>12, <1>13, <1>14, QuietRequest

LEMMA QueueStep ==
  ASSUME ScanInv, NEW v \in ScanViews, QueueRetry(v)
  PROVE  ScanInv'
<1> DEFINE t == scanView[v].scan
           new == [scan[t] EXCEPT !.status = "queued", !.cancel = FALSE]
           next == [scanView[v] EXCEPT !.pc = "start"]
<1>1. /\ ScanTypeOK /\ scanView[v].pc = "queue" /\ Present(t)
      /\ UNCHANGED <<target, gone, thread, marked, scanCrashes, retries, overlapped>>
  BY DEF ScanInv, QueueRetry
<1>2. t \in Scans /\ scan[t] \in ScanRow /\ scanView[v] \in ViewRow
  BY <1>1, ViewType DEF ScanTypeOK
<1>3. scan' = [scan EXCEPT ![t] = new] /\ scanView' = [scanView EXCEPT ![v] = next]
  <2>1. /\ scan' = [scan EXCEPT ![t].status = "queued", ![t].cancel = FALSE]
        /\ scanView' = [scanView EXCEPT ![v].pc = "start"]
    BY DEF QueueRetry
  <2> HIDE DEF t
  <2> QED BY <2>1
<1>4. raced' = [raced EXCEPT ![t] = @ \/ Working(t) # {}] BY DEF QueueRetry
<1>5. scan[t].status \notin {"none", "deleted"} BY <1>1 DEF Present
<1>6. /\ next \in ViewRow /\ next.pc = "start" /\ next.ids = scanView[v].ids
      /\ next.scan = scanView[v].scan
  BY <1>2 DEF ViewRow
<1>7. next.scan = t BY <1>6
<1> HIDE DEF t, next
<1>8. new \in ScanRow /\ new.status = "queued" BY <1>2 DEF ScanRow, ScanStatus
<1> HIDE DEF new
<1>9. /\ scanView' \in [ScanViews -> ViewRow]
      /\ \A w \in ScanViews : scanView'[w] # scanView[w] => w = v /\ scanView'[w] = next
  BY <1>1, <1>3, <1>6 DEF ScanTypeOK
<1>10. raced' \in [Scans -> BOOLEAN] /\ \A u \in Scans : raced[u] => raced'[u]
  <2> DEFINE busy == Working(t) # {}
  <2>1. busy \in BOOLEAN OBVIOUS
  <2>2. raced' = [raced EXCEPT ![t] = @ \/ busy] BY <1>4
  <2> HIDE DEF busy
  <2> QED BY <1>1, <1>2, <2>1, <2>2 DEF ScanTypeOK
<1>11. /\ scan' \in [Scans -> ScanRow]
       /\ \A u \in Scans : scan'[u] # scan[u] => u = t /\ scan'[u] = new
  BY <1>1, <1>2, <1>3, <1>8 DEF ScanTypeOK
<1>12. ScanTypeOK' BY <1>1, <1>9, <1>10, <1>11 DEF ScanTypeOK, Targets
<1>13. \A u \in Scans : Present(u)' => Present(u)
  <2> SUFFICES ASSUME NEW u \in Scans, Present(u)' PROVE Present(u) OBVIOUS
  <2>1. CASE scan'[u] = scan[u] BY <2>1 DEF Present
  <2>2. CASE scan'[u] # scan[u] BY <2>2, <1>1, <1>11 DEF t
  <2> QED BY <2>1, <2>2
<1>14. \A u \in Scans : /\ scan'[u].status = "none" => scan[u].status = "none"
                        /\ scan'[u].status = "completed" /\ ~raced'[u] =>
                             scan[u].status = "completed" /\ scan'[u].counts = scan[u].counts
  BY <1>8, <1>11
<1> QED BY <1>1, <1>2, <1>5, <1>6, <1>7, <1>9, <1>10, <1>12, <1>13, <1>14, QuietRequest

LEMMA LoseRetryStep ==
  ASSUME ScanInv, NEW v \in ScanViews, RetryLosesTask(v)
  PROVE  ScanInv'
<1>1. /\ ScanTypeOK /\ scanView' = [scanView EXCEPT ![v] = Idle]
      /\ UNCHANGED <<scan, target, gone, thread, marked, scanCrashes, retries, raced, overlapped>>
  BY DEF ScanInv, RetryLosesTask
<1>2. Idle \in ViewRow /\ Idle.pc = "idle" BY ConstantRows
<1>3. Idle.scan \in Scans BY <1>2 DEF ViewRow
<1>4. /\ scanView' \in [ScanViews -> ViewRow]
      /\ \A w \in ScanViews : scanView'[w] # scanView[w] => scanView'[w] = Idle
  BY <1>1, <1>2 DEF ScanTypeOK
<1>5. ScanTypeOK' BY <1>1, <1>4 DEF ScanTypeOK, Targets
<1>6. \A u : Present(u)' = Present(u) BY <1>1 DEF Present
<1> QED BY <1>1, <1>2, <1>3, <1>4, <1>5, <1>6, QuietRequest

LEMMA HostStep ==
  ASSUME ScanInv, NEW t \in Scans, NEW x \in Targets, HostDeleted(t, x)
  PROVE  ScanInv'
<1>1. /\ ScanTypeOK /\ gone' = gone \cup {<<t, x>>}
      /\ UNCHANGED <<scan, target, thread, scanView, marked, scanCrashes, retries, raced, overlapped>>
  BY DEF ScanInv, HostDeleted
<1>2. ScanTypeOK' BY <1>1 DEF ScanTypeOK, Targets
<1>3. \A u : Present(u)' = Present(u) BY <1>1 DEF Present
<1> QED BY <1>1, <1>2, <1>3, QuietRequest

LEMMA MarkStep ==
  ASSUME ScanInv, MarkInterrupted
  PROVE  ScanInv'
<1>1. /\ ScanTypeOK /\ marked' = TRUE
      /\ scan' = [t \in Scans |-> IF scan[t].status = "running"
                                  THEN [scan[t] EXCEPT !.status = "failed"] ELSE scan[t]]
      /\ UNCHANGED <<target, gone, thread, scanView, scanCrashes, retries, raced, overlapped>>
  BY DEF ScanInv, MarkInterrupted
<1>2. \A t \in Scans : scan[t] \in ScanRow BY <1>1 DEF ScanTypeOK
<1>3. \A t \in Scans : [scan[t] EXCEPT !.status = "failed"] \in ScanRow
                       /\ [scan[t] EXCEPT !.status = "failed"].status = "failed"
  BY <1>2 DEF ScanRow, ScanStatus
<1>4. scan' \in [Scans -> ScanRow] BY <1>1, <1>2, <1>3
<1>5. ScanTypeOK' BY <1>1, <1>4 DEF ScanTypeOK, Targets
<1>6. \A t \in Scans : scan'[t] = scan[t] \/ (scan[t].status = "running" /\ scan'[t].status = "failed")
  BY <1>1, <1>3
<1>7. \A t \in Scans : Present(t)' => Present(t) BY <1>6 DEF Present
<1> QED BY <1>1, <1>5, <1>6, <1>7, QuietRequest

LEMMA RetryFailedStep ==
  ASSUME ScanInv, NEW v \in ScanViews, NEW t \in Scans, RetryFailed(v, t)
  PROVE  ScanInv'
<1> DEFINE ids == Having(t, {"failed"})
           twice == \E w \in ScanViews :
                       scanView[w].pc \in {"clear", "reset"} /\ scanView[w].scan = t
           new == [Idle EXCEPT !.pc = "clear", !.scan = t, !.ids = ids]
<1>1. /\ ScanTypeOK /\ scanView[v].pc = "idle" /\ Present(t) /\ ids # {}
      /\ retries[t] < MaxRetries
      /\ retries' = [retries EXCEPT ![t] = @ + 1]
      /\ overlapped' = [overlapped EXCEPT ![t] = @ \/ twice]
      /\ scanView' = [scanView EXCEPT ![v] = new]
      /\ UNCHANGED <<scan, target, gone, thread, marked, scanCrashes, raced>>
  BY DEF ScanInv, RetryFailed
<1>2. Idle \in ViewRow BY ConstantRows
<1>3. ids \subseteq Targets /\ \A x \in ids : target[t][x].status = "failed" BY DEF Having
<1>4. twice \in BOOLEAN
      /\ (~twice => \A w \in ScanViews : scanView[w].pc \in {"clear", "reset"} => scanView[w].scan # t)
  OBVIOUS
<1> HIDE DEF ids, twice
<1>5. new \in ViewRow /\ new.pc = "clear" /\ new.scan = t /\ new.ids = ids
  BY <1>2, <1>3 DEF ViewRow
<1> HIDE DEF new
<1>6. /\ overlapped' \in [Scans -> BOOLEAN]
      /\ \A u \in Scans : overlapped[u] => overlapped'[u]
      /\ ~overlapped'[t] => ~overlapped[t] /\ ~twice
      /\ \A u \in Scans \ {t} : overlapped'[u] = overlapped[u]
  BY <1>1, <1>4 DEF ScanTypeOK
<1>7. /\ scanView' \in [ScanViews -> ViewRow] /\ scanView'[v] = new
      /\ \A w \in ScanViews \ {v} : scanView'[w] = scanView[w]
  BY <1>1, <1>5 DEF ScanTypeOK
<1>8. retries' \in [Scans -> 0..MaxRetries] BY <1>1, ScanAssumption DEF ScanTypeOK
<1>9. ScanTypeOK' BY <1>1, <1>6, <1>7, <1>8 DEF ScanTypeOK, Targets
\* The failed targets are claimed by no thread and no other request.
<1>10. ~overlapped'[t] => \A r \in Threads : thread[r].pc # "none" /\ thread[r].scan = t
         => (Claim(r) \cup AtWork(r)) \cap ids = {}
  <2> SUFFICES ASSUME ~overlapped'[t], NEW r \in Threads, thread[r].pc # "none", thread[r].scan = t,
                      NEW x \in ids, x \in Claim(r) \cup AtWork(r)
               PROVE  FALSE
    OBVIOUS
  <2>1. /\ \A y \in Claim(r) : target[t][y] = NewTarget
        /\ \A y \in AtWork(r) : target[t][y].status \in {"pending", "running"}
    BY <1>6 DEF ScanInv, UntilScanned, Fresh
  <2>2. NewTarget.status = "pending" /\ target[t][x].status = "failed" BY ConstantRows, <1>3
  <2> QED BY <2>1, <2>2
<1>11. ~overlapped'[t] => \A w \in ScanViews : scanView[w].scan = t => Asked(w) \cap ids = {}
  <2> SUFFICES ASSUME ~overlapped'[t], NEW w \in ScanViews, scanView[w].scan = t,
                      NEW x \in ids, x \in Asked(w)
               PROVE  FALSE
    OBVIOUS
  <2>1. Listed(w, x) BY <1>6 DEF ScanInv, UntilScanned
  <2>2. NewTarget.status = "pending" /\ target[t][x].status = "failed" BY ConstantRows, <1>3
  <2> QED BY <2>1, <2>2, <1>4, <1>6 DEF Listed
<1>12. Asked(v)' = ids /\ \A w \in ScanViews \ {v} : Asked(w)' = Asked(w)
  BY <1>5, <1>7 DEF Asked
<1>13. \A r \in Threads, w \in ScanViews : thread[r].pc # "none" /\ thread[r].scan = scanView'[w].scan
            /\ ~overlapped'[thread[r].scan] => (Claim(r) \cup AtWork(r)) \cap Asked(w)' = {}
  <2> SUFFICES ASSUME NEW r \in Threads, NEW w \in ScanViews, thread[r].pc # "none",
                      thread[r].scan = scanView'[w].scan, ~overlapped'[thread[r].scan]
               PROVE  (Claim(r) \cup AtWork(r)) \cap Asked(w)' = {}
    OBVIOUS
  <2>1. CASE w = v BY <2>1, <1>5, <1>7, <1>10, <1>12
  <2>2. CASE w # v
    <3>1. ~overlapped[thread[r].scan] BY <1>1, <1>6, ThreadType
    <3> QED BY <2>2, <3>1, <1>7, <1>12 DEF ScanInv, ClaimsApart
  <2> QED BY <2>1, <2>2
<1>14. \A w, z \in ScanViews :
            w # z /\ scanView'[w].scan = scanView'[z].scan /\ ~overlapped'[scanView'[w].scan]
            => Asked(w)' \cap Asked(z)' = {}
  <2> SUFFICES ASSUME NEW w \in ScanViews, NEW z \in ScanViews, w # z,
                      scanView'[w].scan = scanView'[z].scan, ~overlapped'[scanView'[w].scan]
               PROVE  Asked(w)' \cap Asked(z)' = {}
    OBVIOUS
  <2>1. CASE w = v BY <2>1, <1>5, <1>7, <1>11, <1>12
  <2>2. CASE z = v BY <2>2, <1>5, <1>7, <1>11, <1>12
  <2>3. CASE w # v /\ z # v
    <3>1. ~overlapped[scanView[w].scan] BY <2>3, <1>1, <1>6, <1>7, ViewType
    <3> QED BY <2>3, <3>1, <1>7, <1>12 DEF ScanInv, ClaimsApart
  <2> QED BY <2>1, <2>2, <2>3
<1>15. \A w \in ScanViews : ~overlapped'[scanView'[w].scan] => \A x \in Asked(w)' : Listed(w, x)'
  <2> SUFFICES ASSUME NEW w \in ScanViews, ~overlapped'[scanView'[w].scan], NEW x \in Asked(w)'
               PROVE  Listed(w, x)'
    OBVIOUS
  <2>1. CASE w = v BY <2>1, <1>1, <1>3, <1>5, <1>7, <1>12 DEF Listed
  <2>2. CASE w # v
    <3>1. scanView'[w] = scanView[w] /\ x \in Asked(w) BY <2>2, <1>7, <1>12
    <3>2. ~overlapped[scanView[w].scan] BY <3>1, <1>1, <1>6, ViewType
    <3>3. Listed(w, x) BY <3>1, <3>2 DEF ScanInv, UntilScanned
    <3> QED BY <3>1, <3>3, <1>1 DEF Listed
  <2> QED BY <2>1, <2>2
<1>16. \A w \in ScanViews :
            /\ scanView'[w].pc \in {"clear", "reset", "queue", "start"} => scanView'[w].ids # {}
            /\ scanView'[w].pc = "cancel" => scanView'[w].status \in {"canceled", "running"}
            /\ scanView'[w].pc # "idle" => scan'[scanView'[w].scan].status # "none"
  <2> SUFFICES ASSUME NEW w \in ScanViews
               PROVE  /\ scanView'[w].pc \in {"clear", "reset", "queue", "start"} => scanView'[w].ids # {}
                      /\ scanView'[w].pc = "cancel" => scanView'[w].status \in {"canceled", "running"}
                      /\ scanView'[w].pc # "idle" => scan'[scanView'[w].scan].status # "none"
    OBVIOUS
  <2>1. CASE w = v BY <2>1, <1>1, <1>5, <1>7 DEF Present
  <2>2. CASE w # v
    <3>1. /\ scanView[w].pc # "idle" => scan[scanView[w].scan].status # "none"
          /\ scanView[w].pc \in {"clear", "reset", "queue", "start"} => scanView[w].ids # {}
          /\ scanView[w].pc = "cancel" => scanView[w].status \in {"canceled", "running"}
      BY OfViews
    <3> QED BY <2>2, <3>1, <1>1, <1>7
  <2> QED BY <2>1, <2>2
<1>17. /\ \A u \in Scans : raced[u] => raced'[u]
       /\ \A u \in Scans : ~overlapped'[u] =>
            \A x \in Targets : target'[u][x] \in {target[u][x], NewTarget}
       /\ \A u \in Scans : scan'[u].status = "none" => scan[u].status = "none"
            /\ \A x \in Targets : target'[u][x] \in {target[u][x], NewTarget}
       /\ \A u \in Scans : ~raced'[u] /\ Present(u)' => Present(u)
       /\ \A u \in Scans : ~raced'[u] /\ ~overlapped'[u] /\ Present(u)' =>
            target'[u] = target[u] \/ Having(u, {"failed"}) # {}
       /\ \A u \in Scans : scan'[u].status = "completed" /\ ~raced'[u] /\ ~overlapped'[u] =>
            scan[u].status = "completed" /\ scan'[u].counts = scan[u].counts
       /\ thread' = thread
  BY <1>1 DEF Present
<1> QED BY <1>6, <1>9, <1>13, <1>14, <1>15, <1>16, <1>17, RequestMoves

\* How a request may change the rows of the targets it has listed.
Renews(t, ids, row, pc) ==
    /\ \A x \in Targets \ ids : row[x] = target[t][x]
    /\ ~overlapped[t] => \A x \in ids :
         \/ row[x] = NewTarget /\ target[t][x] = NewTarget
         \/ /\ target[t][x].status = "failed"
            /\ \/ row[x] = NewTarget
               \/ pc = "reset" /\ row[x].status = "failed" /\ row[x].findings = 0

\* The rows of the targets a request has listed change; the request keeps them.
LEMMA RowsStep ==
  ASSUME ScanInv, NEW v \in ScanViews, NEW t \in Scans, NEW ids \in SUBSET Targets,
         scanView[v].pc \in {"clear", "reset"}, scanView[v].scan = t, scanView[v].ids = ids, Present(t),
         NEW row \in [Targets -> TargetRow], NEW next \in ViewRow,
         target' = [target EXCEPT ![t] = row], scanView' = [scanView EXCEPT ![v] = next],
         next.pc \in {"reset", "queue"}, next.scan = t, next.ids = ids,
         Renews(t, ids, row, next.pc),
         UNCHANGED <<scan, gone, thread, marked, scanCrashes, retries, raced, overlapped>>
  PROVE  ScanInv'
<1> USE DEF Renews
<1>1. ScanTypeOK BY DEF ScanInv
<1>2. /\ target' \in [Scans -> [Targets -> TargetRow]] /\ target'[t] = row
      /\ \A u \in Scans \ {t} : target'[u] = target[u]
  BY <1>1 DEF ScanTypeOK
<1>3. /\ scanView' \in [ScanViews -> ViewRow] /\ scanView'[v] = next
      /\ \A w \in ScanViews \ {v} : scanView'[w] = scanView[w]
  BY <1>1 DEF ScanTypeOK
<1>4. ScanTypeOK' BY <1>1, <1>2, <1>3 DEF ScanTypeOK, Targets
<1>5. /\ \A w \in ScanViews : Asked(w)' = Asked(w) /\ scanView'[w].scan = scanView[w].scan
      /\ Asked(v) = ids
  BY <1>3 DEF Asked
<1>6. \A u \in Scans : ~overlapped'[u] => \A x \in Targets :
            \/ target'[u][x] \in {target[u][x], NewTarget}
            \/ target[u][x].status = "failed" /\ target'[u][x].status = "failed"
               /\ target'[u][x].findings = 0
  <2> SUFFICES ASSUME NEW u \in Scans, ~overlapped[u], NEW x \in Targets
               PROVE  \/ target'[u][x] \in {target[u][x], NewTarget}
                      \/ target[u][x].status = "failed" /\ target'[u][x].status = "failed"
                         /\ target'[u][x].findings = 0
    OBVIOUS
  <2>1. CASE u = t BY <2>1, <1>2
  <2>2. CASE u # t BY <2>2, <1>2
  <2> QED BY <2>1, <2>2
<1>7. /\ \A r \in Threads, w \in ScanViews : thread[r].pc # "none" /\ thread[r].scan = scanView'[w].scan
            /\ ~overlapped'[thread[r].scan] => (Claim(r) \cup AtWork(r)) \cap Asked(w)' = {}
      /\ \A w, z \in ScanViews :
            w # z /\ scanView'[w].scan = scanView'[z].scan /\ ~overlapped'[scanView'[w].scan]
            => Asked(w)' \cap Asked(z)' = {}
  BY <1>5 DEF ScanInv, ClaimsApart
<1>8. \A w \in ScanViews : ~overlapped'[scanView'[w].scan] => \A x \in Asked(w)' : Listed(w, x)'
  <2> SUFFICES ASSUME NEW w \in ScanViews, ~overlapped[scanView[w].scan], NEW x \in Asked(w)
               PROVE  Listed(w, x)'
    BY <1>5
  <2>1. CASE w = v BY <2>1, <1>2, <1>3, <1>5 DEF Listed
  <2>2. CASE w # v
    <3>1. scanView'[w] = scanView[w] BY <2>2, <1>3
    <3>2. Listed(w, x) BY DEF ScanInv, UntilScanned
    <3>3. x \in Targets /\ scanView[w].scan \in Scans BY <1>1, ViewType DEF Asked
    <3>4. target'[scanView[w].scan][x] = target[scanView[w].scan][x]
      <4>1. CASE scanView[w].scan = t
        <5>1. x \notin ids BY <2>2, <4>1, <1>5 DEF ScanInv, ClaimsApart
        <5> QED BY <3>3, <4>1, <5>1, <1>2
      <4>2. CASE scanView[w].scan # t BY <3>3, <4>2, <1>2
      <4> QED BY <4>1, <4>2
    <3> QED BY <3>1, <3>2, <3>4 DEF Listed
  <2> QED BY <2>1, <2>2
<1>9. \A w \in ScanViews :
            /\ scanView'[w].pc \in {"clear", "reset", "queue", "start"} => scanView'[w].ids # {}
            /\ scanView'[w].pc = "cancel" => scanView'[w].status \in {"canceled", "running"}
            /\ scanView'[w].pc # "idle" => scan'[scanView'[w].scan].status # "none"
  <2> SUFFICES ASSUME NEW w \in ScanViews
               PROVE  /\ scanView'[w].pc \in {"clear", "reset", "queue", "start"} => scanView'[w].ids # {}
                      /\ scanView'[w].pc = "cancel" => scanView'[w].status \in {"canceled", "running"}
                      /\ scanView'[w].pc # "idle" => scan[scanView'[w].scan].status # "none"
    OBVIOUS
  <2>1. /\ scanView[w].pc # "idle" => scan[scanView[w].scan].status # "none"
        /\ scanView[w].pc \in {"clear", "reset", "queue", "start"} => scanView[w].ids # {}
        /\ scanView[w].pc = "cancel" => scanView[w].status \in {"canceled", "running"}
    BY OfViews
  <2>2. CASE w = v BY <2>1, <2>2, <1>3
  <2>3. CASE w # v BY <2>1, <2>3, <1>3
  <2> QED BY <2>2, <2>3
<1>10. \A u \in Scans : ~raced'[u] /\ ~overlapped'[u] /\ Present(u)' =>
            target'[u] = target[u] \/ Having(u, {"failed"}) # {}
  <2> SUFFICES ASSUME NEW u \in Scans, ~overlapped[u], Having(u, {"failed"}) = {}
               PROVE  target'[u] = target[u]
    OBVIOUS
  <2>1. CASE u # t BY <2>1, <1>2
  <2>2. CASE u = t
    <3>1. \A x \in Targets : target[t][x].status # "failed" BY <2>2 DEF Having
    <3>2. \A x \in Targets : row[x] = target[t][x] BY <2>2, <3>1
    <3>3. target[t] \in [Targets -> TargetRow] BY <1>1 DEF ScanTypeOK
    <3> QED BY <2>2, <3>2, <3>3, <1>2
  <2> QED BY <2>1, <2>2
<1>11. \A u \in Scans : scan'[u].status = "none" => scan[u].status = "none"
            /\ \A x \in Targets : target'[u][x] \in {target[u][x], NewTarget}
  <2> SUFFICES ASSUME NEW u \in Scans, scan[u].status = "none"
               PROVE  \A x \in Targets : target'[u][x] \in {target[u][x], NewTarget}
    OBVIOUS
  <2>1. u # t BY DEF Present
  <2> QED BY <2>1, <1>2
<1>12. /\ \A u \in Scans : raced[u] => raced'[u]
       /\ \A u \in Scans : overlapped[u] => overlapped'[u]
       /\ \A u \in Scans : ~raced'[u] /\ Present(u)' => Present(u)
       /\ \A u \in Scans : scan'[u].status = "completed" /\ ~raced'[u] /\ ~overlapped'[u] =>
            scan[u].status = "completed" /\ scan'[u].counts = scan[u].counts
       /\ thread' = thread
  BY DEF Present
<1> QED BY <1>4, <1>6, <1>7, <1>8, <1>9, <1>10, <1>11, <1>12, RequestMoves

LEMMA ClearStep ==
  ASSUME ScanInv, NEW v \in ScanViews, ClearFindings(v)
  PROVE  ScanInv'
<1> DEFINE t == scanView[v].scan
           ids == scanView[v].ids
           row == [x \in Targets |-> IF x \in ids THEN [target[t][x] EXCEPT !.findings = 0]
                                     ELSE target[t][x]]
           next == [scanView[v] EXCEPT !.pc = "reset"]
<1>1. /\ ScanTypeOK /\ scanView[v].pc = "clear" /\ Present(t)
      /\ UNCHANGED <<scan, gone, thread, marked, scanCrashes, retries, raced, overlapped>>
      /\ scanView' = [scanView EXCEPT ![v] = next]
  BY DEF ScanInv, ClearFindings
<1>2. t \in Scans /\ ids \in SUBSET Targets /\ scanView[v] \in ViewRow BY <1>1, ViewType
<1>3. target' = [target EXCEPT ![t] = row]
  <2>1. target' = [target EXCEPT ![t] = [x \in Targets |->
                    IF x \in ids THEN [@[x] EXCEPT !.findings = 0] ELSE @[x]]]
    BY DEF ClearFindings
  <2> HIDE DEF t, ids
  <2> QED BY <2>1
<1>4. next \in ViewRow /\ next.pc = "reset" /\ next.scan = t /\ next.ids = ids
  BY <1>2 DEF ViewRow
<1>5. \A x \in Targets : target[t][x] \in TargetRow BY <1>1, <1>2 DEF ScanTypeOK
<1>6. ~overlapped[t] => \A x \in ids : Listed(v, x)
  BY <1>1 DEF ScanInv, UntilScanned, Asked
<1>7. \A x \in Targets : [target[t][x] EXCEPT !.findings = 0] \in TargetRow
        /\ [target[t][x] EXCEPT !.findings = 0].status = target[t][x].status
        /\ [target[t][x] EXCEPT !.findings = 0].findings = 0
  BY <1>5 DEF TargetRow
<1>8. [NewTarget EXCEPT !.findings = 0] = NewTarget BY DEF NewTarget
<1>9. row \in [Targets -> TargetRow] /\ \A x \in Targets \ ids : row[x] = target[t][x]
  BY <1>5, <1>7
<1>10. ~overlapped[t] => \A x \in ids :
            \/ row[x] = NewTarget /\ target[t][x] = NewTarget
            \/ target[t][x].status = "failed" /\ row[x].status = "failed" /\ row[x].findings = 0
  <2> SUFFICES ASSUME ~overlapped[t], NEW x \in ids
               PROVE  \/ row[x] = NewTarget /\ target[t][x] = NewTarget
                      \/ target[t][x].status = "failed" /\ row[x].status = "failed"
                         /\ row[x].findings = 0
    OBVIOUS
  <2>1. x \in Targets /\ row[x] = [target[t][x] EXCEPT !.findings = 0] BY <1>2
  <2>2. CASE target[t][x] = NewTarget BY <2>1, <2>2, <1>8
  <2>3. CASE target[t][x].status = "failed" BY <2>1, <2>3, <1>7
  <2> QED BY <2>2, <2>3, <1>6 DEF Listed
<1>11. scanView[v].scan = t /\ scanView[v].ids = ids OBVIOUS
<1> HIDE DEF t, ids, row, next
<1>12. scanView[v].pc \in {"clear", "reset"} /\ next.pc \in {"reset", "queue"}
  BY <1>1, <1>4
<1>13. Renews(t, ids, row, next.pc)
  BY <1>4, <1>9, <1>10 DEF Renews
<1>14. row \in [Targets -> TargetRow] BY <1>9
<1>15. UNCHANGED <<scan, gone, thread, marked, scanCrashes, retries, raced, overlapped>> BY <1>1
<1>16. Present(t) /\ scanView' = [scanView EXCEPT ![v] = next] BY <1>1
<1> QED BY <1>2, <1>3, <1>4, <1>11, <1>12, <1>13, <1>14, <1>15, <1>16, RowsStep

LEMMA ResetStep ==
  ASSUME ScanInv, NEW v \in ScanViews, ResetTargets(v)
  PROVE  ScanInv'
<1> DEFINE t == scanView[v].scan
           ids == scanView[v].ids
           again(x) == [target[t][x] EXCEPT !.status = "pending", !.risk = 0]
           row == [x \in Targets |-> IF x \in ids THEN again(x) ELSE target[t][x]]
           next == [scanView[v] EXCEPT !.pc = "queue"]
<1>1. /\ ScanTypeOK /\ scanView[v].pc = "reset" /\ Present(t)
      /\ UNCHANGED <<scan, gone, thread, marked, scanCrashes, retries, raced, overlapped>>
      /\ scanView' = [scanView EXCEPT ![v] = next]
  BY DEF ScanInv, ResetTargets
<1>2. t \in Scans /\ ids \in SUBSET Targets /\ scanView[v] \in ViewRow BY <1>1, ViewType
<1>3. target' = [target EXCEPT ![t] = row]
  <2>1. target' = [target EXCEPT ![t] = [x \in Targets |->
                    IF x \in ids THEN [@[x] EXCEPT !.status = "pending", !.risk = 0] ELSE @[x]]]
    BY DEF ResetTargets
  <2> HIDE DEF t, ids
  <2> QED BY <2>1
<1>4. next \in ViewRow /\ next.pc = "queue" /\ next.scan = t /\ next.ids = ids
  BY <1>2 DEF ViewRow
<1>5. \A x \in Targets : target[t][x] \in TargetRow BY <1>1, <1>2 DEF ScanTypeOK
<1>6. ~overlapped[t] => \A x \in ids : Listed(v, x)
  BY <1>1 DEF ScanInv, UntilScanned, Asked
<1>7. \A x \in Targets : again(x) \in TargetRow BY <1>5 DEF TargetRow, TargetStatus
<1>8. ASSUME NEW x \in Targets, target[t][x].findings = 0 PROVE again(x) = NewTarget
  <2>1. again(x) \in TargetRow BY <1>7
  <2>2. again(x).status = "pending" /\ again(x).risk = 0 /\ again(x).findings = target[t][x].findings
    BY <1>5 DEF TargetRow
  <2>3. \A row1, row2 \in TargetRow : row1.status = row2.status /\ row1.findings = row2.findings
          /\ row1.risk = row2.risk => row1 = row2
    BY DEF TargetRow
  <2>4. /\ NewTarget \in TargetRow /\ NewTarget.status = "pending" /\ NewTarget.findings = 0
        /\ NewTarget.risk = 0
    BY ConstantRows
  <2> HIDE DEF again
  <2> QED BY <1>8, <2>1, <2>2, <2>3, <2>4
<1>9. row \in [Targets -> TargetRow] /\ \A x \in Targets \ ids : row[x] = target[t][x]
  <2> HIDE DEF again
  <2> QED BY <1>5, <1>7
<1>10. ~overlapped[t] => \A x \in ids : row[x] = NewTarget
         /\ (target[t][x] = NewTarget \/ target[t][x].status = "failed")
  <2> SUFFICES ASSUME ~overlapped[t], NEW x \in ids
               PROVE  row[x] = NewTarget /\ (target[t][x] = NewTarget \/ target[t][x].status = "failed")
    OBVIOUS
  <2> HIDE DEF again
  <2>1. x \in Targets /\ row[x] = again(x) BY <1>2
  <2>2. /\ target[t][x] = NewTarget \/ target[t][x].status = "failed"
        /\ target[t][x].findings = 0
    BY <1>1, <1>6, ConstantRows DEF Listed
  <2> QED BY <2>1, <2>2, <1>8
<1>11. scanView[v].scan = t /\ scanView[v].ids = ids OBVIOUS
<1> HIDE DEF t, ids, row, next, again
<1>12. scanView[v].pc \in {"clear", "reset"} /\ next.pc \in {"reset", "queue"}
  BY <1>1, <1>4
<1>13. Renews(t, ids, row, next.pc)
  BY <1>4, <1>9, <1>10 DEF Renews
<1>14. row \in [Targets -> TargetRow] BY <1>9
<1>15. UNCHANGED <<scan, gone, thread, marked, scanCrashes, retries, raced, overlapped>> BY <1>1
<1>16. Present(t) /\ scanView' = [scanView EXCEPT ![v] = next] BY <1>1
<1> QED BY <1>2, <1>3, <1>4, <1>11, <1>12, <1>13, <1>14, <1>15, <1>16, RowsStep

LEMMA DeleteStep ==
  ASSUME ScanInv, NEW t \in Scans, DeleteScan(t)
  PROVE  ScanInv'
<1> DEFINE new == [status |-> "deleted", cancel |-> FALSE, counts |-> NoCounters]
           row == [x \in Targets |-> NewTarget]
<1>1. /\ ScanTypeOK /\ scan' = [scan EXCEPT ![t] = new] /\ target' = [target EXCEPT ![t] = row]
      /\ UNCHANGED <<gone, thread, scanView, marked, scanCrashes, retries, raced, overlapped>>
  BY DEF ScanInv, DeleteScan
<1>2. NewTarget \in TargetRow /\ NoCounters \in Counters BY ConstantRows
<1>3. new \in ScanRow /\ new.status = "deleted" BY <1>2 DEF ScanRow, ScanStatus
<1>4. row \in [Targets -> TargetRow] /\ \A x \in Targets : row[x] = NewTarget BY <1>2
<1> HIDE DEF new, row
<1>5. /\ scan' \in [Scans -> ScanRow] /\ scan'[t] = new
      /\ \A u \in Scans \ {t} : scan'[u] = scan[u]
  BY <1>1, <1>3 DEF ScanTypeOK
<1>6. /\ target' \in [Scans -> [Targets -> TargetRow]] /\ target'[t] = row
      /\ \A u \in Scans \ {t} : target'[u] = target[u]
  BY <1>1, <1>4 DEF ScanTypeOK
<1>7. ScanTypeOK' BY <1>1, <1>5, <1>6 DEF ScanTypeOK, Targets
<1>8. \A u \in Scans, x \in Targets : target'[u][x] \in {target[u][x], NewTarget}
  <2> SUFFICES ASSUME NEW u \in Scans, NEW x \in Targets
               PROVE  target'[u][x] \in {target[u][x], NewTarget}
    OBVIOUS
  <2>1. CASE u = t BY <2>1, <1>4, <1>6
  <2>2. CASE u # t BY <2>2, <1>6
  <2> QED BY <2>1, <2>2
<1>9. \A w \in ScanViews : Asked(w)' = Asked(w) BY <1>1 DEF Asked
<1>10. /\ \A r \in Threads, w \in ScanViews : thread[r].pc # "none" /\ thread[r].scan = scanView'[w].scan
            /\ ~overlapped'[thread[r].scan] => (Claim(r) \cup AtWork(r)) \cap Asked(w)' = {}
       /\ \A w, z \in ScanViews :
            w # z /\ scanView'[w].scan = scanView'[z].scan /\ ~overlapped'[scanView'[w].scan]
            => Asked(w)' \cap Asked(z)' = {}
  BY <1>1, <1>9 DEF ScanInv, ClaimsApart
<1>11. \A w \in ScanViews : ~overlapped'[scanView'[w].scan] => \A x \in Asked(w)' : Listed(w, x)'
  <2> SUFFICES ASSUME NEW w \in ScanViews, ~overlapped[scanView[w].scan], NEW x \in Asked(w)
               PROVE  Listed(w, x)'
    BY <1>1, <1>9
  <2>1. Listed(w, x) BY DEF ScanInv, UntilScanned
  <2>2. scanView[w].scan \in Scans /\ x \in Targets BY <1>1, ViewType DEF Asked
  <2>3. target'[scanView[w].scan][x] \in {target[scanView[w].scan][x], NewTarget} BY <2>2, <1>8
  <2> QED BY <2>1, <2>3, <1>1 DEF Listed
<1>12. \A w \in ScanViews :
            /\ scanView'[w].pc \in {"clear", "reset", "queue", "start"} => scanView'[w].ids # {}
            /\ scanView'[w].pc = "cancel" => scanView'[w].status \in {"canceled", "running"}
            /\ scanView'[w].pc # "idle" => scan'[scanView'[w].scan].status # "none"
  <2> SUFFICES ASSUME NEW w \in ScanViews
               PROVE  /\ scanView[w].pc \in {"clear", "reset", "queue", "start"} => scanView[w].ids # {}
                      /\ scanView[w].pc = "cancel" => scanView[w].status \in {"canceled", "running"}
                      /\ scanView[w].pc # "idle" => scan'[scanView[w].scan].status # "none"
    BY <1>1
  <2>1. /\ scanView[w].pc # "idle" => scan[scanView[w].scan].status # "none"
        /\ scanView[w].pc \in {"clear", "reset", "queue", "start"} => scanView[w].ids # {}
        /\ scanView[w].pc = "cancel" => scanView[w].status \in {"canceled", "running"}
    BY OfViews
  <2>2. scanView[w].scan \in Scans BY <1>1, ViewType
  <2> QED BY <2>1, <2>2, <1>3, <1>5
<1>13. \A u \in Scans : /\ scan'[u].status = "none" => scan[u].status = "none"
                        /\ Present(u)' => Present(u) /\ target'[u] = target[u]
                        /\ scan'[u].status = "completed" =>
                             scan[u].status = "completed" /\ scan'[u].counts = scan[u].counts
  <2> SUFFICES ASSUME NEW u \in Scans
               PROVE  /\ scan'[u].status = "none" => scan[u].status = "none"
                      /\ Present(u)' => Present(u) /\ target'[u] = target[u]
                      /\ scan'[u].status = "completed" =>
                           scan[u].status = "completed" /\ scan'[u].counts = scan[u].counts
    OBVIOUS
  <2>1. CASE u = t
    <3>1. scan'[u].status = "deleted" BY <2>1, <1>3, <1>5
    <3> QED BY <3>1 DEF Present
  <2>2. CASE u # t BY <2>2, <1>5, <1>6 DEF Present
  <2> QED BY <2>1, <2>2
<1>14. \A u \in Scans : overlapped[u] => overlapped'[u] BY <1>1
<1>15. /\ \A u \in Scans : ~overlapped'[u] =>
            \A x \in Targets : target'[u][x] \in {target[u][x], NewTarget}
       /\ \A u \in Scans : scan'[u].status = "none" => scan[u].status = "none"
            /\ \A x \in Targets : target'[u][x] \in {target[u][x], NewTarget}
       /\ \A u \in Scans : raced[u] => raced'[u]
  BY <1>1, <1>8, <1>13
<1> QED BY <1>1, <1>7, <1>10, <1>11, <1>12, <1>13, <1>14, <1>15, RequestMoves

\* A new thread, for targets that are as new and that nobody else has claimed.
LEMMA Starts ==
  ASSUME ScanInv, ScanTypeOK', NEW q \in Threads, NEW t \in Scans, NEW S,
         thread[q].pc = "none", target' = target, overlapped' = overlapped,
         \A r \in Threads \ {q} : thread'[r] = thread[r],
         thread'[q].pc = "get", thread'[q].scan = t, Claim(q)' = S, AtWork(q)' = {},
         ~overlapped[t] => \A x \in S : target[t][x] = NewTarget,
         ~overlapped[t] => \A r \in Threads : thread[r].pc # "none" /\ thread[r].scan = t
            => (Claim(r) \cup AtWork(r)) \cap S = {},
         \A v \in ScanViews : /\ Asked(v)' \subseteq Asked(v)
                              /\ Asked(v)' # {} => scanView'[v] = scanView[v],
         ~overlapped[t] => \A v \in ScanViews : scanView'[v].scan = t => Asked(v)' \cap S = {},
         \A v \in ScanViews :
            /\ scanView'[v].pc \in {"clear", "reset", "queue", "start"} => scanView'[v].ids # {}
            /\ scanView'[v].pc = "cancel" => scanView'[v].status \in {"canceled", "running"}
            /\ scanView'[v].pc # "idle" => scan'[scanView'[v].scan].status # "none",
         \A u \in Scans : raced[u] => raced'[u],
         \A u \in Scans \ {t} : scan'[u] = scan[u],
         scan'[t].status # "none",
         ~raced'[t] /\ ~overlapped[t] => Working(t) = {} /\ scan'[t].status # "completed"
  PROVE  ScanInv'
<1>1. ScanTypeOK BY DEF ScanInv
<1>2. \A r \in Threads \ {q} : Claim(r)' = Claim(r) /\ AtWork(r)' = AtWork(r)
  BY DEF Claim, AtWork, Targets
<1>3. \A u : CountersOf(u)' = CountersOf(u) /\ \A A : Having(u, A)' = Having(u, A)
  BY DEF CountersOf, Having, Findings, Targets
<1>4. Places'
  <2>1. \A r \in Threads \ {q} : PlaceOf(r)' BY DEF ScanInv, Places, PlaceOf
  <2>2. PlaceOf(q)' BY DEF PlaceOf
  <2> QED BY <2>1, <2>2 DEF Places
<1>5. ClaimsApart'
  <2>1. \A r, p \in Threads :
          r # p /\ thread'[r].pc # "none" /\ thread'[p].pc # "none" /\ thread'[r].scan = thread'[p].scan
            /\ ~overlapped[thread'[r].scan] => (Claim(r) \cup AtWork(r))' \cap (Claim(p) \cup AtWork(p))' = {}
    <3> SUFFICES ASSUME NEW r \in Threads, NEW p \in Threads, r # p, thread'[r].pc # "none",
                        thread'[p].pc # "none", thread'[r].scan = thread'[p].scan,
                        ~overlapped[thread'[r].scan]
                 PROVE  (Claim(r) \cup AtWork(r))' \cap (Claim(p) \cup AtWork(p))' = {}
      OBVIOUS
    <3>1. CASE r = q BY <3>1, <1>2
    <3>2. CASE p = q BY <3>2, <1>2
    <3>3. CASE r # q /\ p # q BY <3>3, <1>2 DEF ScanInv, ClaimsApart
    <3> QED BY <3>1, <3>2, <3>3
  <2>2. \A r \in Threads, v \in ScanViews : thread'[r].pc # "none" /\ thread'[r].scan = scanView'[v].scan
            /\ ~overlapped[thread'[r].scan] => (Claim(r) \cup AtWork(r))' \cap Asked(v)' = {}
    <3> SUFFICES ASSUME NEW r \in Threads, NEW v \in ScanViews, thread'[r].pc # "none",
                        thread'[r].scan = scanView'[v].scan, ~overlapped[thread'[r].scan]
                 PROVE  (Claim(r) \cup AtWork(r))' \cap Asked(v)' = {}
      OBVIOUS
    <3>1. CASE r = q BY <3>1
    <3>2. CASE r # q BY <3>2, <1>2 DEF ScanInv, ClaimsApart
    <3> QED BY <3>1, <3>2
  <2>3. \A v, w \in ScanViews :
          v # w /\ scanView'[v].scan = scanView'[w].scan /\ ~overlapped[scanView'[v].scan]
          => Asked(v)' \cap Asked(w)' = {}
    BY DEF ScanInv, ClaimsApart
  <2> QED BY <2>1, <2>2, <2>3 DEF ClaimsApart
<1>6. UntilScanned'
  <2>1. ASSUME NEW r \in Threads, thread'[r].pc # "none", ~overlapped[thread'[r].scan]
        PROVE  Fresh(r)'
    <3>1. CASE r = q BY <2>1, <3>1 DEF Fresh
    <3>2. CASE r # q BY <2>1, <3>2, <1>2 DEF ScanInv, UntilScanned, Fresh
    <3> QED BY <3>1, <3>2
  <2>2. ASSUME NEW v \in ScanViews, ~overlapped[scanView'[v].scan], NEW x \in Asked(v)'
        PROVE  Listed(v, x)'
    <3>1. x \in Asked(v) /\ scanView'[v] = scanView[v] BY <2>2
    <3>2. Listed(v, x) BY <2>2, <3>1 DEF ScanInv, UntilScanned
    <3> QED BY <3>1, <3>2 DEF Listed
  <2> QED BY <2>1, <2>2 DEF UntilScanned
<1>7. \A u \in Scans \ {t} : Working(u)' = Working(u)
  <2> SUFFICES ASSUME NEW u \in Scans \ {t} PROVE Working(u)' = Working(u) OBVIOUS
  <2>1. \A r \in Threads : thread'[r].pc # "none" /\ thread'[r].scan = u
                             <=> thread[r].pc # "none" /\ thread[r].scan = u
    OBVIOUS
  <2> QED BY <2>1 DEF Working
<1>8. Working(t)' = Working(t) \cup {q}
  <2>1. \A r \in Threads : thread'[r].pc # "none" /\ thread'[r].scan = t
                             <=> (thread[r].pc # "none" /\ thread[r].scan = t) \/ r = q
    OBVIOUS
  <2> QED BY <2>1 DEF Working
<1>9. NotYet'
  <2> SUFFICES ASSUME NEW u \in Scans, scan'[u].status = "none"
               PROVE  /\ Working(u)' = {}
                      /\ \A v \in ScanViews : scanView'[v].pc # "idle" => scanView'[v].scan # u
                      /\ \A x \in Targets : target'[u][x] = NewTarget
    BY DEF NotYet, Targets
  <2>1. u # t /\ scan[u].status = "none" OBVIOUS
  <2>2. Working(u) = {} /\ \A x \in Targets : target[u][x] = NewTarget
    BY <2>1 DEF ScanInv, NotYet
  <2> QED BY <2>1, <2>2, <1>7
<1>10. FindingsOfOneScan' BY DEF ScanInv, FindingsOfOneScan, Targets
<1>11. AloneToTheEnd'
  <2> SUFFICES ASSUME NEW u \in Scans, ~raced'[u], ~overlapped[u]
               PROVE  /\ \A r, p \in Working(u)' : r = p
                      /\ scan'[u].status = "completed" => Working(u)' = {}
                      /\ Present(u)' => \A r \in Working(u)' : thread'[r].verdict = "completed" =>
                           /\ thread'[r].pc = "verdict" => Having(u, {"failed"})' = {}
                           /\ thread'[r].pc \in {"lastCount", "close"} =>
                                Having(u, {"completed", "skipped"})' = Targets
                           /\ thread'[r].pc = "close" => thread'[r].counts = CountersOf(u)'
    BY DEF AloneToTheEnd, Targets
  <2>1. CASE u = t
    <3>1. Working(u)' = {q} /\ scan'[u].status # "completed" BY <2>1, <1>8
    <3> QED BY <3>1
  <2>2. CASE u # t
    <3>1. ~raced[u] /\ scan'[u] = scan[u] /\ Working(u)' = Working(u) BY <2>2, <1>7
    <3>2. Present(u)' <=> Present(u) BY <3>1 DEF Present
    <3>3. /\ \A r, p \in Working(u) : r = p
          /\ scan[u].status = "completed" => Working(u) = {}
          /\ Present(u) => \A r \in Working(u) : thread[r].verdict = "completed" =>
               /\ thread[r].pc = "verdict" => Having(u, {"failed"}) = {}
               /\ thread[r].pc \in {"lastCount", "close"} => Having(u, {"completed", "skipped"}) = Targets
               /\ thread[r].pc = "close" => thread[r].counts = CountersOf(u)
      BY <3>1 DEF ScanInv, AloneToTheEnd
    <3>4. \A r \in Working(u) : thread'[r] = thread[r] BY DEF Working
    <3> QED BY <3>1, <3>2, <3>3, <3>4, <1>3
  <2> QED BY <2>1, <2>2
<1>12. CompletedMeansScanned'
  <2> SUFFICES ASSUME NEW u \in Scans, scan'[u].status = "completed", ~raced'[u], ~overlapped[u]
               PROVE  /\ Having(u, {"completed", "skipped"})' = Targets
                      /\ scan'[u].counts = CountersOf(u)'
    BY DEF CompletedMeansScanned, Targets
  <2>1. u # t /\ ~raced[u] /\ scan'[u] = scan[u] OBVIOUS
  <2> QED BY <2>1, <1>3 DEF ScanInv, CompletedMeansScanned
<1> QED BY <1>4, <1>5, <1>6, <1>9, <1>10, <1>11, <1>12 DEF ScanInv

\* The row of a new thread.
LEMMA Started ==
  ASSUME ScanTypeOK, NEW row \in ThreadRow, row.pc = "get",
         {r \in Threads : thread[r].pc = "none"} # {},
         thread' = [thread EXCEPT ![CHOOSE r \in {r \in Threads : thread[r].pc = "none"} : TRUE] = row]
  PROVE  \E q \in Threads :
           /\ thread[q].pc = "none" /\ thread' \in [Threads -> ThreadRow]
           /\ \A r \in Threads \ {q} : thread'[r] = thread[r]
           /\ thread'[q] = row /\ AtWork(q)' = {}
           /\ Claim(q)' = IF row.retry THEN row.todo ELSE Targets
<1>1. PICK q \in Threads : thread[q].pc = "none" /\ thread' = [thread EXCEPT ![q] = row]
  <2> DEFINE free == {r \in Threads : thread[r].pc = "none"}
             first == CHOOSE r \in free : TRUE
  <2>1. free # {} /\ thread' = [thread EXCEPT ![first] = row] OBVIOUS
  <2>2. first \in free BY <2>1
  <2> HIDE DEF first
  <2> QED BY <2>1, <2>2
<1>2. /\ thread'[q] = row /\ thread' \in [Threads -> ThreadRow]
      /\ \A r \in Threads \ {q} : thread'[r] = thread[r]
      /\ AtWork(q)' = IF row.pc \in {"scan", "save"} THEN {row.at} ELSE {}
  BY <1>1, OwnRow
<1>3. Claim(q)' = IF row.pc \in {"get", "open", "fetch"} /\ ~row.retry THEN Targets ELSE row.todo
  BY <1>1, OwnRow
<1>4. row.retry \in BOOLEAN BY DEF ThreadRow
<1>5. Claim(q)' = IF row.retry THEN row.todo ELSE Targets BY <1>3, <1>4
<1>6. AtWork(q)' = {} BY <1>2
<1> QED BY <1>1, <1>2, <1>5, <1>6

LEMMA CreateStep ==
  ASSUME ScanInv, NEW t \in Scans, CreateScan(t)
  PROVE  ScanInv'
<1> DEFINE new == [scan[t] EXCEPT !.status = "queued"]
<1>1. /\ ScanTypeOK /\ scan[t].status = "none" /\ scan' = [scan EXCEPT ![t] = new]
      /\ Start(t, {}, FALSE)
      /\ UNCHANGED <<target, gone, scanView, marked, scanCrashes, retries, raced, overlapped>>
  BY DEF ScanInv, CreateScan
<1>2. PICK q \in Threads :
           /\ thread[q].pc = "none" /\ thread' \in [Threads -> ThreadRow]
           /\ \A r \in Threads \ {q} : thread'[r] = thread[r]
           /\ thread'[q].pc = "get" /\ thread'[q].scan = t
           /\ Claim(q)' = Targets
           /\ AtWork(q)' = {}
  <2> DEFINE row == [NoThread EXCEPT !.pc = "get", !.scan = t, !.retry = FALSE, !.todo = {}]
  <2>1. /\ {r \in Threads : thread[r].pc = "none"} # {}
        /\ thread' = [thread EXCEPT ![CHOOSE r \in {r \in Threads : thread[r].pc = "none"} : TRUE] = row]
    BY <1>1 DEF Start
  <2>2. row \in ThreadRow /\ row.pc = "get" /\ row.scan = t /\ row.retry = FALSE
    BY ConstantRows DEF ThreadRow, ThreadPC
  <2> HIDE DEF row
  <2>3. PICK q \in Threads :
           /\ thread[q].pc = "none" /\ thread' \in [Threads -> ThreadRow]
           /\ \A r \in Threads \ {q} : thread'[r] = thread[r]
           /\ thread'[q] = row /\ AtWork(q)' = {}
           /\ Claim(q)' = IF row.retry THEN row.todo ELSE Targets
    BY <1>1, <2>1, <2>2, Started
  <2> QED BY <2>2, <2>3
<1>3. scan[t] \in ScanRow BY <1>1 DEF ScanTypeOK
<1>4. new \in ScanRow /\ new.status = "queued" BY <1>3 DEF ScanRow, ScanStatus
<1> HIDE DEF new
<1>5. /\ scan' \in [Scans -> ScanRow] /\ scan'[t] = new
      /\ \A u \in Scans \ {t} : scan'[u] = scan[u]
  BY <1>1, <1>4 DEF ScanTypeOK
<1>6. ScanTypeOK' BY <1>1, <1>2, <1>5 DEF ScanTypeOK, Targets
<1>7. /\ Working(t) = {}
      /\ \A v \in ScanViews : scanView[v].pc # "idle" => scanView[v].scan # t
      /\ \A x \in Targets : target[t][x] = NewTarget
  BY <1>1 DEF ScanInv, NotYet
<1>8. \A r \in Threads : thread[r].pc # "none" /\ thread[r].scan = t
         => (Claim(r) \cup AtWork(r)) \cap Targets = {}
  BY <1>7 DEF Working
<1>9. \A v \in ScanViews : Asked(v)' = Asked(v) BY <1>1 DEF Asked
<1>10. \A v \in ScanViews : scanView'[v].scan = t => Asked(v)' \cap Targets = {}
  BY <1>1, <1>7, <1>9 DEF Asked
<1>11. \A v \in ScanViews :
            /\ scanView'[v].pc \in {"clear", "reset", "queue", "start"} => scanView'[v].ids # {}
            /\ scanView'[v].pc = "cancel" => scanView'[v].status \in {"canceled", "running"}
            /\ scanView'[v].pc # "idle" => scan'[scanView'[v].scan].status # "none"
  <2> SUFFICES ASSUME NEW v \in ScanViews
               PROVE  /\ scanView[v].pc \in {"clear", "reset", "queue", "start"} => scanView[v].ids # {}
                      /\ scanView[v].pc = "cancel" => scanView[v].status \in {"canceled", "running"}
                      /\ scanView[v].pc # "idle" => scan'[scanView[v].scan].status # "none"
    BY <1>1
  <2>1. /\ scanView[v].pc # "idle" => scan[scanView[v].scan].status # "none"
        /\ scanView[v].pc \in {"clear", "reset", "queue", "start"} => scanView[v].ids # {}
        /\ scanView[v].pc = "cancel" => scanView[v].status \in {"canceled", "running"}
    BY OfViews
  <2>2. scanView[v].scan \in Scans BY <1>1, ViewType
  <2> QED BY <2>1, <2>2, <1>4, <1>5
<1>12. scan'[t].status # "none" /\ scan'[t].status # "completed" BY <1>4, <1>5
<1>13. \A u \in Scans : raced[u] => raced'[u] BY <1>1
<1>14. target' = target /\ overlapped' = overlapped /\ scanView' = scanView BY <1>1
<1> QED BY <1>2, <1>5, <1>6, <1>7, <1>8, <1>9, <1>10, <1>11, <1>12, <1>13, <1>14, Starts

LEMMA StartStep ==
  ASSUME ScanInv, NEW v \in ScanViews, StartRetry(v)
  PROVE  ScanInv'
<1> DEFINE t == scanView[v].scan
           ids == scanView[v].ids
           counts == CountersOf(t)
           new == [scan[t] EXCEPT !.counts = counts]
           busy == Working(t) # {}
<1>1. /\ ScanTypeOK /\ scanView[v].pc = "start" /\ Present(t)
      /\ Start(t, ids, TRUE) /\ scanView' = [scanView EXCEPT ![v] = Idle]
      /\ UNCHANGED <<target, gone, marked, scanCrashes, retries, overlapped>>
  BY DEF ScanInv, StartRetry
<1>2. scan' = [scan EXCEPT ![t] = new] /\ raced' = [raced EXCEPT ![t] = @ \/ busy]
  <2>1. scan' = [scan EXCEPT ![t].counts = counts] BY DEF StartRetry
  <2>2. raced' = [raced EXCEPT ![t] = @ \/ busy] BY DEF StartRetry
  <2> HIDE DEF t, counts, busy
  <2> QED BY <2>1, <2>2
<1>3. t \in Scans /\ ids \in SUBSET Targets /\ scan[t] \in ScanRow
  BY <1>1, ViewType DEF ScanTypeOK
<1>4. Asked(v) = ids /\ ids # {} BY <1>1, OfViews DEF Asked
<1>5. counts \in Counters BY <1>1, <1>3, CountersType
<1>6. PICK q \in Threads :
           /\ thread[q].pc = "none" /\ thread' \in [Threads -> ThreadRow]
           /\ \A r \in Threads \ {q} : thread'[r] = thread[r]
           /\ thread'[q].pc = "get" /\ thread'[q].scan = t
           /\ Claim(q)' = ids
           /\ AtWork(q)' = {}
  <2> DEFINE row == [NoThread EXCEPT !.pc = "get", !.scan = t, !.retry = TRUE, !.todo = ids]
  <2>1. /\ {r \in Threads : thread[r].pc = "none"} # {}
        /\ thread' = [thread EXCEPT ![CHOOSE r \in {r \in Threads : thread[r].pc = "none"} : TRUE] = row]
    <3> HIDE DEF t, ids
    <3> QED BY <1>1 DEF Start
  <2> HIDE DEF t, ids
  <2>2. /\ row \in ThreadRow /\ row.pc = "get" /\ row.scan = t /\ row.retry = TRUE
        /\ row.todo = ids
    BY <1>3, ConstantRows DEF ThreadRow, ThreadPC
  <2> HIDE DEF row
  <2>3. PICK q \in Threads :
           /\ thread[q].pc = "none" /\ thread' \in [Threads -> ThreadRow]
           /\ \A r \in Threads \ {q} : thread'[r] = thread[r]
           /\ thread'[q] = row /\ AtWork(q)' = {}
           /\ Claim(q)' = IF row.retry THEN row.todo ELSE Targets
    BY <1>1, <2>1, <2>2, Started
  <2> QED BY <2>2, <2>3
<1>7. ~overlapped[t] => \A x \in ids : target[t][x] = NewTarget
  BY <1>1, <1>4 DEF ScanInv, UntilScanned, Listed
<1>8. ~overlapped[t] => \A r \in Threads : thread[r].pc # "none" /\ thread[r].scan = t
         => (Claim(r) \cup AtWork(r)) \cap ids = {}
  BY <1>4 DEF ScanInv, ClaimsApart
<1>9. ~overlapped[t] => \A w \in ScanViews \ {v} : scanView[w].scan = t => Asked(w) \cap ids = {}
  BY <1>4 DEF ScanInv, ClaimsApart
<1>10. Idle \in ViewRow /\ Idle.pc = "idle" BY ConstantRows
<1>11. scan[t].status \notin {"none", "deleted"} BY <1>1 DEF Present
<1>12. busy \in BOOLEAN /\ (~busy => Working(t) = {}) OBVIOUS
<1>13. scan[t].status = "completed" => raced[t] \/ overlapped[t]
  <2> SUFFICES ASSUME scan[t].status = "completed", ~raced[t], ~overlapped[t] PROVE FALSE OBVIOUS
  <2>1. Having(t, {"completed", "skipped"}) = Targets
    BY <1>3 DEF ScanInv, CompletedMeansScanned
  <2>2. PICK x \in ids : TRUE BY <1>4
  <2>3. x \in Targets /\ target[t][x].status = "pending" BY <1>3, <1>7, <2>2, ConstantRows
  <2> QED BY <2>1, <2>3 DEF Having
<1> HIDE DEF t, ids, counts, busy
<1>14. new \in ScanRow /\ new.status = scan[t].status BY <1>3, <1>5 DEF ScanRow
<1> HIDE DEF new
<1>15. /\ scan' \in [Scans -> ScanRow] /\ scan'[t] = new
       /\ \A u \in Scans \ {t} : scan'[u] = scan[u]
  BY <1>1, <1>2, <1>3, <1>14 DEF ScanTypeOK
<1>16. /\ raced' \in [Scans -> BOOLEAN] /\ \A u \in Scans : raced[u] => raced'[u]
       /\ ~raced'[t] => ~busy /\ ~raced[t]
  BY <1>1, <1>2, <1>3, <1>12 DEF ScanTypeOK
<1>17. /\ scanView' \in [ScanViews -> ViewRow] /\ scanView'[v] = Idle
       /\ \A w \in ScanViews \ {v} : scanView'[w] = scanView[w]
  BY <1>1, <1>10 DEF ScanTypeOK
<1>18. ScanTypeOK' BY <1>1, <1>6, <1>15, <1>16, <1>17 DEF ScanTypeOK, Targets
<1>19. Asked(v)' = {} /\ \A w \in ScanViews \ {v} : Asked(w)' = Asked(w)
  BY <1>10, <1>17 DEF Asked
<1>20. \A w \in ScanViews : /\ Asked(w)' \subseteq Asked(w)
                            /\ Asked(w)' # {} => scanView'[w] = scanView[w]
  BY <1>17, <1>19
<1>21. ~overlapped[t] => \A w \in ScanViews : scanView'[w].scan = t => Asked(w)' \cap ids = {}
  BY <1>9, <1>17, <1>19
<1>22. \A w \in ScanViews :
            /\ scanView'[w].pc \in {"clear", "reset", "queue", "start"} => scanView'[w].ids # {}
            /\ scanView'[w].pc = "cancel" => scanView'[w].status \in {"canceled", "running"}
            /\ scanView'[w].pc # "idle" => scan'[scanView'[w].scan].status # "none"
  <2> SUFFICES ASSUME NEW w \in ScanViews
               PROVE  /\ scanView'[w].pc \in {"clear", "reset", "queue", "start"} => scanView'[w].ids # {}
                      /\ scanView'[w].pc = "cancel" => scanView'[w].status \in {"canceled", "running"}
                      /\ scanView'[w].pc # "idle" => scan'[scanView'[w].scan].status # "none"
    OBVIOUS
  <2>1. CASE w = v BY <2>1, <1>10, <1>17
  <2>2. CASE w # v
    <3>1. /\ scanView[w].pc # "idle" => scan[scanView[w].scan].status # "none"
          /\ scanView[w].pc \in {"clear", "reset", "queue", "start"} => scanView[w].ids # {}
          /\ scanView[w].pc = "cancel" => scanView[w].status \in {"canceled", "running"}
      BY OfViews
    <3>2. scanView[w].scan \in Scans BY <1>1, ViewType
    <3>3. scanView'[w] = scanView[w] BY <2>2, <1>17
    <3> QED BY <3>1, <3>2, <3>3, <1>11, <1>14, <1>15
  <2> QED BY <2>1, <2>2
<1>23. scan'[t].status # "none" BY <1>11, <1>14, <1>15
<1>24. ~raced'[t] /\ ~overlapped[t] => Working(t) = {} /\ scan'[t].status # "completed"
  BY <1>12, <1>13, <1>14, <1>15, <1>16
<1>25. target' = target /\ overlapped' = overlapped BY <1>1
<1> QED BY <1>3, <1>6, <1>7, <1>8, <1>15, <1>16, <1>18, <1>20, <1>21, <1>22, <1>23, <1>24, <1>25, Starts

LEMMA RestartStep ==
  ASSUME ScanInv, ServerRestart
  PROVE  ScanInv'
<1>1. /\ ScanTypeOK /\ scanCrashes < MaxScanCrashes /\ scanCrashes' = scanCrashes + 1
      /\ thread' = [r \in Threads |-> NoThread] /\ scanView' = [v \in ScanViews |-> Idle]
      /\ marked' = FALSE /\ raced' = [t \in Scans |-> raced[t] \/ Present(t)]
      /\ UNCHANGED <<scan, target, gone, retries, overlapped>>
  BY DEF ScanInv, ServerRestart
<1>2. /\ NoThread \in ThreadRow /\ NoThread.pc = "none" /\ NoThread.todo = {}
      /\ Idle \in ViewRow /\ Idle.pc = "idle"
  BY ConstantRows
<1>3. /\ \A r \in Threads : thread'[r] = NoThread
      /\ \A v \in ScanViews : scanView'[v] = Idle
  BY <1>1
<1>4. ScanTypeOK'
  <2>1. thread' \in [Threads -> ThreadRow] /\ scanView' \in [ScanViews -> ViewRow]
    BY <1>1, <1>2
  <2>2. raced' \in [Scans -> BOOLEAN]
    <3>1. \A t \in Scans : (raced[t] \/ Present(t)) \in BOOLEAN BY <1>1 DEF ScanTypeOK
    <3> QED BY <1>1, <3>1
  <2>3. scanCrashes' \in 0..MaxScanCrashes BY <1>1, ScanAssumption DEF ScanTypeOK
  <2> QED BY <1>1, <2>1, <2>2, <2>3 DEF ScanTypeOK, Targets
<1>5. /\ \A r \in Threads : thread'[r].pc = "none"
      /\ \A v \in ScanViews : scanView'[v].pc = "idle" /\ Asked(v)' = {}
  BY <1>2, <1>3 DEF Asked
<1>6. \A t : Working(t)' = {} BY <1>5 DEF Working
<1>7. Places' BY <1>5 DEF Places, PlaceOf
<1>8. ClaimsApart' /\ UntilScanned' BY <1>5 DEF ClaimsApart, UntilScanned
<1>9. NotYet'
  <2>1. \A t \in Scans : scan'[t].status = "none" => \A x \in Targets : target'[t][x] = NewTarget
    BY <1>1 DEF ScanInv, NotYet
  <2> QED BY <2>1, <1>5, <1>6 DEF NotYet, Targets
<1>10. AloneToTheEnd' BY <1>6 DEF AloneToTheEnd
<1>11. FindingsOfOneScan' BY <1>1 DEF ScanInv, FindingsOfOneScan, Targets
<1>12. CompletedMeansScanned'
  <2> SUFFICES ASSUME NEW t \in Scans, scan'[t].status = "completed", ~raced'[t] PROVE FALSE
    BY DEF CompletedMeansScanned
  <2>1. Present(t) BY <1>1 DEF Present
  <2> QED BY <1>1, <2>1
<1> QED BY <1>4, <1>7, <1>8, <1>9, <1>10, <1>11, <1>12 DEF ScanInv
----------------------------------------------------------------------------
(* The theorems. *)

LEMMA ScanInitInv == ScanInit => ScanInv
<1> SUFFICES ASSUME ScanInit PROVE ScanInv OBVIOUS
<1> USE DEF ScanInit
<1>1. /\ NoThread \in ThreadRow /\ NoThread.pc = "none" /\ NoThread.todo = {}
      /\ Idle \in ViewRow /\ Idle.pc = "idle" /\ NoCounters \in Counters
      /\ NewTarget \in TargetRow /\ NewTarget.status = "pending" /\ NewTarget.findings = 0
  BY ConstantRows
<1>2. [status |-> "none", cancel |-> FALSE, counts |-> NoCounters] \in ScanRow
  BY <1>1 DEF ScanRow, ScanStatus
<1>3. ScanTypeOK
  <2>1. scan \in [Scans -> ScanRow] BY <1>2
  <2>2. target \in [Scans -> [Targets -> TargetRow]] BY <1>1
  <2>3. thread \in [Threads -> ThreadRow] /\ scanView \in [ScanViews -> ViewRow] BY <1>1
  <2>4. scanCrashes \in 0..MaxScanCrashes /\ retries \in [Scans -> 0..MaxRetries]
    BY ScanAssumption
  <2>5. gone \subseteq Scans \X Targets /\ marked \in BOOLEAN /\ raced \in [Scans -> BOOLEAN]
        /\ overlapped \in [Scans -> BOOLEAN]
    OBVIOUS
  <2> QED BY <2>1, <2>2, <2>3, <2>4, <2>5 DEF ScanTypeOK
<1>4. /\ \A r \in Threads : thread[r].pc = "none"
      /\ \A v \in ScanViews : scanView[v].pc = "idle" /\ Asked(v) = {}
  BY <1>1 DEF Asked
<1>5. \A t : Working(t) = {} BY <1>4 DEF Working
<1>6. \A t \in Scans : scan[t].status = "none" OBVIOUS
<1>7. \A t \in Scans, x \in Targets : target[t][x] = NewTarget OBVIOUS
<1> SUFFICES Places /\ ClaimsApart /\ UntilScanned /\ NotYet /\ AloneToTheEnd /\ FindingsOfOneScan
             /\ CompletedMeansScanned
  BY <1>3 DEF ScanInv
<1>8. Places BY <1>4 DEF Places, PlaceOf
<1>9. ClaimsApart /\ UntilScanned BY <1>4 DEF ClaimsApart, UntilScanned
<1>10. NotYet BY <1>4, <1>5, <1>7 DEF NotYet
<1>11. AloneToTheEnd BY <1>5 DEF AloneToTheEnd
<1>12. FindingsOfOneScan BY <1>1, <1>7 DEF FindingsOfOneScan
<1>13. CompletedMeansScanned BY <1>6 DEF CompletedMeansScanned
<1> QED BY <1>8, <1>9, <1>10, <1>11, <1>12, <1>13

LEMMA ScanStutter == ScanInv /\ UNCHANGED scanVars => ScanInv'
<1> SUFFICES ASSUME ScanInv, UNCHANGED scanVars PROVE ScanInv' OBVIOUS
<1>1. UNCHANGED <<scan, target, gone, thread, scanView, marked, scanCrashes, retries, raced, overlapped>>
  BY DEF scanVars
<1>2. ScanTypeOK' BY <1>1 DEF ScanInv, ScanTypeOK, Targets
<1>3. \A u : Present(u)' = Present(u) BY <1>1 DEF Present
<1> QED BY <1>1, <1>2, <1>3, QuietRequest

LEMMA ScanInvStep == ScanInv /\ [ScanNext]_scanVars => ScanInv'
<1> SUFFICES ASSUME ScanInv, [ScanNext]_scanVars PROVE ScanInv' OBVIOUS
<1>1. CASE UNCHANGED scanVars BY <1>1, ScanStutter
<1>2. CASE ServerRestart BY <1>2, RestartStep
<1>3. ASSUME NEW r \in Threads, ThreadStep(r) PROVE ScanInv'
  <2>1. CASE GetTask(r) BY <2>1, GetStep
  <2>2. CASE OpenTask(r) BY <2>2, OpenStep
  <2>3. CASE FetchTargets(r) BY <2>3, FetchStep
  <2>4. CASE \E x \in Targets : SkipTarget(r, x) \/ BeginTarget(r, x)
    BY <2>4, SkipStep, BeginStep
  <2>5. CASE Collect(r) BY <2>5, CollectStep
  <2>6. CASE SaveTarget(r) BY <2>6, SaveStep
  <2>7. CASE CountTask(r) BY <2>7, CountStep
  <2>8. CASE JudgeTask(r) BY <2>8, JudgeStep
  <2>9. CASE FinalTaskStatus(r) BY <2>9, FinalStep
  <2>10. CASE LastCount(r) BY <2>10, LastCountStep
  <2>11. CASE CloseTask(r) BY <2>11, CloseStep
  <2>12. CASE LoseTask(r) BY <2>12, LoseStep
  <2> QED BY <1>3, <2>1, <2>2, <2>3, <2>4, <2>5, <2>6, <2>7, <2>8, <2>9, <2>10, <2>11, <2>12
          DEF ThreadStep
<1>4. CASE ScanRequest
  <2>1. ASSUME NEW t \in Scans, CreateScan(t) \/ DeleteScan(t) PROVE ScanInv'
    BY <2>1, CreateStep, DeleteStep
  <2>2. ASSUME NEW t \in Scans, NEW x \in Targets, HostDeleted(t, x) PROVE ScanInv'
    BY <2>2, HostStep
  <2>3. ASSUME NEW v \in ScanViews, NEW t \in Scans, CancelScan(v, t) \/ RetryFailed(v, t)
        PROVE  ScanInv'
    BY <2>3, CancelStep, RetryFailedStep
  <2>4. ASSUME NEW v \in ScanViews, SaveCancel(v) \/ RetryStep(v) PROVE ScanInv'
    BY <2>4, SaveCancelStep, ClearStep, ResetStep, QueueStep, StartStep, LoseRetryStep DEF RetryStep
  <2>5. CASE MarkInterrupted BY <2>5, MarkStep
  <2> QED BY <1>4, <2>1, <2>2, <2>3, <2>4, <2>5 DEF ScanRequest
<1> QED BY <1>1, <1>2, <1>3, <1>4 DEF ScanNext

\* The inductive invariant holds in every reachable state.
THEOREM ScanInvariant == ScanSpec => []ScanInv
BY ScanInitInv, ScanInvStep, PTL DEF ScanSpec

\* Every row of a task, a target, a thread and a request keeps its type: a
\* target ends as no status of a task, the counts are sizes of sets of targets.
THEOREM ScanTypes == ScanSpec => []ScanTypeOK
<1>1. ScanInv => ScanTypeOK BY DEF ScanInv
<1> QED BY <1>1, ScanInvariant, PTL

\* No host is scanned by two threads at a time, however many retries were
\* started beside the scan (views.py scan_task_retry_failed, services.py
\* run_scan_task), unless two requests were in prepare_failed_targets_for_retry
\* for one task at a time.
THEOREM OneScanner == ScanSpec => []OneScannerPerTarget
<1>1. ScanInv => OneScannerPerTarget
  <2> SUFFICES ASSUME ScanInv, NEW r \in Threads, NEW q \in Threads, r # q,
                      thread[r].scan = thread[q].scan, thread[r].pc \in {"scan", "save"},
                      thread[q].pc \in {"scan", "save"}, ~overlapped[thread[r].scan]
               PROVE  thread[r].at # thread[q].at
    BY DEF OneScannerPerTarget
  <2>1. AtWork(r) = {thread[r].at} /\ AtWork(q) = {thread[q].at} BY DEF AtWork
  <2>2. (Claim(r) \cup AtWork(r)) \cap (Claim(q) \cup AtWork(q)) = {}
    BY DEF ScanInv, ClaimsApart
  <2> QED BY <2>1, <2>2
<1> QED BY <1>1, ScanInvariant, PTL

\* A target shows what its last scan found: nobody adds to the findings of a
\* target that a retry has made pending again (services.py scan_target_result,
\* prepare_failed_targets_for_retry), unless two retries were prepared at a time.
THEOREM FindingsApart == ScanSpec => []FindingsOfOneScan
<1>1. ScanInv => FindingsOfOneScan BY DEF ScanInv
<1> QED BY <1>1, ScanInvariant, PTL

\* A task that was alone to its end (one thread, one retry being prepared, no
\* stop, no stale cancellation) and is called completed has scanned or
\* skipped every host and shows their counts (services.py final_task_status,
\* refresh_task_counts).
THEOREM CompletedIsScanned == ScanSpec => []CompletedMeansScanned
<1>1. ScanInv => CompletedMeansScanned BY DEF ScanInv
<1> QED BY <1>1, ScanInvariant, PTL
=============================================================================
