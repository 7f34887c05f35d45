---------------------------- MODULE AssetsProofs ----------------------------
(***************************************************************************)
(* Theorems about the parts of the portal on managed hosts, for any rows,    *)
(* names, logins, machines, groups, sources and requests: each part by an    *)
(* inductive invariant of its own, and all of them together.                 *)
(***************************************************************************)
EXTENDS Assets, FiniteSetTheorems, WellFoundedInduction, NaturalsInduction, TLAPS

----------------------------------------------------------------------------
(* Managed hosts: Hosts. *)

\* What a request holds at each of its places.
Asking == \A r \in HostAsks : LET q == hostAsk[r] IN
    /\ q.kind = "verify" <=> q.pc \in {"connect", "probe"}
    /\ q.pc \in {"connect", "probe", "save", "sync"} => q.row \in Item /\ q.host \in HostRows

\* While no request came between, what a request has read is still so.
InStep == ~hostsRaced => \A r \in HostAsks : LET q == hostAsk[r] IN
    /\ q.pc = "sync" => hostRow[q.host] = LiveRow(q.row)
    /\ q.pc = "save" => /\ IsLive(hostRow, q.host) /\ q.row.status = hostRow[q.host].row.status
                        /\ q.claim = "absent" => q.row.verified = hostRow[q.host].row.verified

\* What was exported agrees with itself.
FileAgrees == ~hostsRaced /\ ~handmade => \A i \in DOMAIN hostFile.hosts : hostFile.hosts[i] \in Agreed

\* What a probe has read is still the address; and it is in, or whoever is in has stored it.
Probed == \A r \in HostAsks : LET q == hostAsk[r] IN
    q.kind = "verify" /\ q.host \notin touched /\ IsLive(hostRow, q.host) => LET row == hostRow[q.host].row IN
        /\ row.ip = q.row.ip /\ row.windows = q.row.windows
        /\ q.pc = "probe" => ~row.windows /\ row.login \in accepts[row.ip]
        /\ row.login = q.row.login \/ row.login \in accepts[row.ip]

HostsInv == HostsTypeOK /\ Asking /\ InStep /\ FileAgrees /\ Probed
            /\ StatusAgrees /\ VerdictOfLogin /\ HostsRestored
----------------------------------------------------------------------------
LEMMA HostTypes ==
  ASSUME HostsInv
  PROVE  /\ hostRow \in [HostRows -> HostRow] /\ hostAsk \in [HostAsks -> AskRow]
         /\ credential \in HostUsers \cup {NoUser, "none"} /\ accepts \in [Addresses -> SUBSET HostUsers]
         /\ hostFile.lent \in HostUsers \cup {NoUser, "none"} /\ DOMAIN hostFile.hosts \subseteq HostRows
         /\ \A i \in DOMAIN hostFile.hosts : hostFile.hosts[i] \in Item
         /\ restored \subseteq Item /\ touched \subseteq HostRows /\ hostsRaced \in BOOLEAN /\ handmade \in BOOLEAN
         /\ HostsTypeOK
BY DEF HostsInv, HostsTypeOK

LEMMA LiveHas ==
  ASSUME NEW rows \in [HostRows -> HostRow], NEW h \in HostRows
  PROVE  /\ IsLive(rows, h) => rows[h].row \in Item /\ rows[h] = LiveRow(rows[h].row)
         /\ rows[h].is \in {"live", "free", "deleted"}
<1>1. rows[h] \in HostRow
  OBVIOUS
<1>2. CASE rows[h] \in [is : {"live"}, row : Item]
  BY <1>2 DEF IsLive, LiveRow
<1>3. CASE rows[h] \in {Absent, Deleted}
  BY <1>3 DEF IsLive, Absent, Deleted
<1> QED BY <1>1, <1>2, <1>3 DEF HostRow

LEMMA LiveRowIs ==
  ASSUME NEW item \in Item
  PROVE  LiveRow(item) \in HostRow /\ LiveRow(item).is = "live" /\ LiveRow(item).row = item
BY DEF LiveRow, HostRow

\* Something is stored by a request that has it for itself, or the race is told.
LEMMA StoresAlone ==
  ASSUME HostsInv, NEW r \in HostAsks \cup {0}, hostsRaced' = (hostsRaced \/ OnTheirWay(r) # {})
  PROVE  /\ hostsRaced' \in BOOLEAN
         /\ ~hostsRaced' => ~hostsRaced /\ \A p \in HostAsks : p # r => hostAsk[p].pc \in {"new", "done"}
<1>1. (hostsRaced \/ OnTheirWay(r) # {}) = TRUE \/ (hostsRaced \/ OnTheirWay(r) # {}) = FALSE
  OBVIOUS
<1>2. hostsRaced' \in BOOLEAN
  BY <1>1, Zenon
<1>3. ~hostsRaced' => ~hostsRaced /\ OnTheirWay(r) = {}
  BY <1>1, Zenon
<1> QED BY <1>2, <1>3 DEF OnTheirWay

\* What is not touched is as it was, and no probe comes or goes.
LEMMA UntouchedStays ==
  ASSUME HostsInv, HostsTypeOK', NEW r \in HostAsks, NEW q \in AskRow,
         hostAsk' = [hostAsk EXCEPT ![r] = q], hostAsk[r].kind # "verify", q.kind # "verify",
         accepts' = accepts,
         \A h \in HostRows \ touched' : IsLive(hostRow', h) =>
             /\ h \notin touched /\ IsLive(hostRow, h)
             /\ hostRow'[h].row.ip = hostRow[h].row.ip /\ hostRow'[h].row.windows = hostRow[h].row.windows
             /\ hostRow'[h].row.login = hostRow[h].row.login
             /\ hostRow'[h].row.verified = hostRow[h].row.verified
  PROVE  Probed' /\ VerdictOfLogin'
<1>1. /\ \A p \in HostAsks : p # r => hostAsk'[p] = hostAsk[p]
      /\ hostAsk'[r] = q
  BY HostTypes
<1>2. \A h \in HostRows : Probing(h)' <=> Probing(h)
  BY <1>1 DEF Probing
<1>3. \A p \in HostAsks : hostAsk'[p].kind = "verify" => hostAsk'[p].host \in HostRows
  BY <1>1 DEF HostsInv, Asking
<1>4. Probed'
  <2>1. ASSUME NEW p \in HostAsks, hostAsk'[p].kind = "verify", hostAsk'[p].host \notin touched',
               IsLive(hostRow', hostAsk'[p].host)
        PROVE  LET row == hostRow'[hostAsk'[p].host].row IN
               /\ row.ip = hostAsk'[p].row.ip /\ row.windows = hostAsk'[p].row.windows
               /\ hostAsk'[p].pc = "probe" => ~row.windows /\ row.login \in accepts'[row.ip]
               /\ row.login = hostAsk'[p].row.login \/ row.login \in accepts'[row.ip]
    <3>1. p # r /\ hostAsk'[p] = hostAsk[p] /\ hostAsk[p].host \in HostRows
      BY <1>1, <1>3, <2>1
    <3>2. LET h == hostAsk[p].host IN
          /\ h \notin touched /\ IsLive(hostRow, h)
          /\ hostRow'[h].row.ip = hostRow[h].row.ip /\ hostRow'[h].row.windows = hostRow[h].row.windows
          /\ hostRow'[h].row.login = hostRow[h].row.login
      BY <2>1, <3>1
    <3>3. LET row == hostRow[hostAsk[p].host].row IN
          /\ row.ip = hostAsk[p].row.ip /\ row.windows = hostAsk[p].row.windows
          /\ hostAsk[p].pc = "probe" => ~row.windows /\ row.login \in accepts[row.ip]
          /\ row.login = hostAsk[p].row.login \/ row.login \in accepts[row.ip]
      BY <2>1, <3>1, <3>2 DEF HostsInv, Probed
    <3> QED BY <3>1, <3>2, <3>3
  <2> QED BY <2>1 DEF Probed, IsLive
<1>5. VerdictOfLogin'
  <2>1. ASSUME NEW h \in HostRows, IsLive(hostRow', h), h \notin touched', ~Probing(h)',
               hostRow'[h].row.verified, ~hostRow'[h].row.windows
        PROVE  hostRow'[h].row.login \in accepts'[hostRow'[h].row.ip]
    BY <1>2, <2>1 DEF HostsInv, VerdictOfLogin, LiveHosts
  <2> QED BY <2>1 DEF VerdictOfLogin, LiveHosts, IsLive
<1> QED BY <1>4, <1>5

\* A request stores rows of hosts.
LEMMA RowsStored ==
  ASSUME HostsInv, HostsTypeOK', Asking', Probed', VerdictOfLogin', HostsRestored',
         NEW r \in HostAsks, NEW q \in AskRow, hostAsk' = [hostAsk EXCEPT ![r] = q],
         hostsRaced' = (hostsRaced \/ OnTheirWay(r) # {}), hostFile' = hostFile, handmade => handmade',
         ~hostsRaced /\ (\A p \in HostAsks : p # r => hostAsk[p].pc \in {"new", "done"}) =>
             /\ q.pc = "sync" => hostRow'[q.host] = LiveRow(q.row)
             /\ q.pc # "save"
             /\ ~handmade' => \A h \in HostRows : IsLive(hostRow', h) /\ ~(q.pc = "sync" /\ q.host = h) =>
                    (hostRow'[h].row.verified <=> hostRow'[h].row.status = "verified")
  PROVE  HostsInv'
<1>1. /\ \A p \in HostAsks : p # r => hostAsk'[p] = hostAsk[p]
      /\ hostAsk'[r] = q
  BY HostTypes
<1>2. /\ hostsRaced' \in BOOLEAN
      /\ ~hostsRaced' => ~hostsRaced /\ \A p \in HostAsks : p # r => hostAsk[p].pc \in {"new", "done"}
  BY StoresAlone
<1>3. InStep'
  <2>1. ASSUME ~hostsRaced', NEW p \in HostAsks
        PROVE  /\ hostAsk'[p].pc = "sync" => hostRow'[hostAsk'[p].host] = LiveRow(hostAsk'[p].row)
               /\ hostAsk'[p].pc # "save"
    BY <1>1, <1>2, <2>1
  <2> QED BY <2>1 DEF InStep, LiveRow
<1>4. FileAgrees'
  BY <1>2 DEF HostsInv, FileAgrees
<1>5. StatusAgrees'
  <2>1. ASSUME ~hostsRaced', ~handmade', NEW h \in HostRows, IsLive(hostRow', h),
               \A p \in HostAsks : hostAsk'[p].pc # "sync" \/ hostAsk'[p].host # h
        PROVE  hostRow'[h].row.verified <=> hostRow'[h].row.status = "verified"
    BY <1>1, <1>2, <2>1
  <2> QED BY <2>1 DEF StatusAgrees, LiveHosts, IsLive
<1> QED BY <1>3, <1>4, <1>5 DEF HostsInv

\* Nothing is restored any more.
LEMMA NothingRestored == ASSUME restored' = {} PROVE HostsRestored'
BY DEF HostsRestored

\* A request is over.
LEMMA HostEndIs ==
  /\ [NotHost EXCEPT !.pc = "done"] \in AskRow /\ [NotHost EXCEPT !.pc = "done"].pc = "done"
  /\ [NotHost EXCEPT !.pc = "done"].kind = "none"
BY DEF NotHost, AskRow

LEMMA AskingStays ==
  ASSUME HostsInv, NEW r \in HostAsks, NEW q \in AskRow, hostAsk' = [hostAsk EXCEPT ![r] = q],
         q.kind = "verify" <=> q.pc \in {"connect", "probe"},
         q.pc \in {"connect", "probe", "save", "sync"} => q.row \in Item /\ q.host \in HostRows
  PROVE  Asking' /\ hostAsk' \in [HostAsks -> AskRow]
<1>1. /\ \A p \in HostAsks : p # r => hostAsk'[p] = hostAsk[p]
      /\ hostAsk'[r] = q /\ hostAsk' \in [HostAsks -> AskRow]
  BY HostTypes
<1> QED BY <1>1 DEF HostsInv, Asking

LEMMA CreateHostKeeps ==
  ASSUME HostsInv, NEW r \in HostAsks, CreateHost(r)
  PROVE  HostsInv'
<1>1. PICK h \in HostRows, n \in HostNames, p \in HostPaths, v \in BOOLEAN, u \in HostUsers, a \in Addresses :
        /\ hostRow[h].is = "free" /\ \A g \in 1..h - 1 : hostRow[g].is # "free"
        /\ LET row == [name |-> n, at |-> p, ip |-> a, login |-> u, windows |-> FALSE,
                       verified |-> v, status |-> "unverified"] IN
           /\ KeptBesides([hostRow EXCEPT ![h] = LiveRow(row)])
           /\ HostGoes(r, [NotHost EXCEPT !.pc = "sync", !.host = h, !.row = row])
        /\ touched' = touched \cup {h}
  BY Zenon DEF CreateHost
<1>2. hostAsk[r].pc = "new" /\ HostsStored(r) /\ handmade' = handmade
  BY DEF CreateHost, HostComes
<1>3. PICK row \in Item : row = [name |-> n, at |-> p, ip |-> a, login |-> u, windows |-> FALSE,
                                 verified |-> v, status |-> "unverified"]
  BY DEF Item
<1>4. PICK q \in AskRow : q = [NotHost EXCEPT !.pc = "sync", !.host = h, !.row = row]
  BY DEF NotHost, AskRow
<1>5. /\ q.pc = "sync" /\ q.kind = "none" /\ q.host = h /\ q.row = row
      /\ hostAsk' = [hostAsk EXCEPT ![r] = q]
  BY <1>1, <1>3, <1>4 DEF HostGoes, NotHost
<1>6. /\ UNCHANGED <<credential, accepts, hostFile>> /\ hostRow' = [hostRow EXCEPT ![h] = LiveRow(row)]
  BY <1>1, <1>3 DEF KeptBesides
<1>7. /\ hostRow' \in [HostRows -> HostRow] /\ hostRow'[h] = LiveRow(row)
      /\ \A g \in HostRows : g # h => hostRow'[g] = hostRow[g]
  BY <1>6, HostTypes, LiveRowIs
<1>8. restored' = {} /\ hostsRaced' = (hostsRaced \/ OnTheirWay(r) # {})
  BY <1>2 DEF HostsStored
<1>9. Asking' /\ hostAsk' \in [HostAsks -> AskRow]
  BY <1>5, AskingStays
<1>10. HostsTypeOK'
  <2>1. hostsRaced' \in BOOLEAN
    BY <1>8, StoresAlone
  <2> QED BY <1>1, <1>2, <1>6, <1>7, <1>8, <1>9, <2>1, HostTypes DEF HostsTypeOK
<1>11. Probed' /\ VerdictOfLogin'
  <2>1. hostAsk[r].kind # "verify"
    BY <1>2 DEF HostsInv, Asking
  <2>2. \A g \in HostRows \ touched' : IsLive(hostRow', g) =>
             /\ g \notin touched /\ IsLive(hostRow, g)
             /\ hostRow'[g].row.ip = hostRow[g].row.ip /\ hostRow'[g].row.windows = hostRow[g].row.windows
             /\ hostRow'[g].row.login = hostRow[g].row.login
             /\ hostRow'[g].row.verified = hostRow[g].row.verified
    BY <1>1, <1>7 DEF IsLive
  <2> QED BY <1>5, <1>6, <1>10, <2>1, <2>2, UntouchedStays
<1>12. ASSUME ~hostsRaced, \A x \in HostAsks : x # r => hostAsk[x].pc \in {"new", "done"}
       PROVE  /\ q.pc = "sync" => hostRow'[q.host] = LiveRow(q.row)
              /\ q.pc # "save"
              /\ ~handmade' => \A g \in HostRows : IsLive(hostRow', g) /\ ~(q.pc = "sync" /\ q.host = g) =>
                    (hostRow'[g].row.verified <=> hostRow'[g].row.status = "verified")
  BY <1>2, <1>5, <1>7, <1>12 DEF HostsInv, StatusAgrees, LiveHosts, IsLive
<1>13. HostsRestored'
  BY <1>8, NothingRestored
<1> QED BY <1>2, <1>5, <1>6, <1>8, <1>9, <1>10, <1>11, <1>12, <1>13, RowsStored

LEMMA StoreEditKeeps ==
  ASSUME HostsInv, NEW r \in HostAsks, StoreEdit(r)
  PROVE  HostsInv'
<1> DEFINE m == hostAsk[r]
           h == m.host
<1>1. /\ m.pc = "save" /\ m.kind = "edit" /\ KeptBesides([hostRow EXCEPT ![h] = LiveRow(m.row)])
      /\ touched' = touched \cup {h} /\ HostsStored(r) /\ handmade' = handmade
  BY DEF StoreEdit, HostAt
<1>2. m \in AskRow /\ m.row \in Item /\ h \in HostRows
  BY <1>1, HostTypes DEF HostsInv, Asking
<1>3. PICK q \in AskRow :
        /\ hostAsk' = [hostAsk EXCEPT ![r] = q] /\ q.kind # "verify"
        /\ \/ m.claim # "absent" /\ q.pc = "sync" /\ q.host = h /\ q.row = m.row
           \/ m.claim = "absent" /\ q.pc = "done"
  <2>1. CASE AsksVerdict(m)
    <3>1. PICK q \in AskRow : q = [m EXCEPT !.pc = "sync"]
      BY <1>2 DEF AskRow
    <3>2. q.pc = "sync" /\ q.host = h /\ q.row = m.row /\ q.kind = m.kind
      BY <1>2, <3>1 DEF AskRow
    <3>3. hostAsk' = [hostAsk EXCEPT ![r] = q]
      BY <2>1, <3>1 DEF StoreEdit, HostGoes
    <3> QED BY <1>1, <2>1, <3>2, <3>3 DEF AsksVerdict
  <2>2. CASE ~AsksVerdict(m)
    <3>1. hostAsk' = [hostAsk EXCEPT ![r] = [NotHost EXCEPT !.pc = "done"]]
      BY <2>2 DEF StoreEdit, HostEnds, HostGoes
    <3> QED BY <2>2, <3>1, HostEndIs DEF AsksVerdict
  <2> QED BY <2>1, <2>2
<1>4. /\ UNCHANGED <<credential, accepts, hostFile>> /\ hostRow' = [hostRow EXCEPT ![h] = LiveRow(m.row)]
  BY <1>1 DEF KeptBesides
<1>5. /\ hostRow' \in [HostRows -> HostRow] /\ hostRow'[h] = LiveRow(m.row)
      /\ LiveRow(m.row).is = "live" /\ LiveRow(m.row).row = m.row
      /\ \A g \in HostRows : g # h => hostRow'[g] = hostRow[g]
  BY <1>2, <1>4, HostTypes, LiveRowIs
<1>6. restored' = {} /\ hostsRaced' = (hostsRaced \/ OnTheirWay(r) # {})
  BY <1>1 DEF HostsStored
<1>7. Asking' /\ hostAsk' \in [HostAsks -> AskRow]
  BY <1>2, <1>3, AskingStays
<1>8. HostsTypeOK'
  <2>1. hostsRaced' \in BOOLEAN
    BY <1>6, StoresAlone
  <2> QED BY <1>1, <1>2, <1>4, <1>5, <1>6, <1>7, <2>1, HostTypes DEF HostsTypeOK
<1>9. Probed' /\ VerdictOfLogin'
  <2>1. \A g \in HostRows \ touched' : IsLive(hostRow', g) =>
             /\ g \notin touched /\ IsLive(hostRow, g)
             /\ hostRow'[g].row.ip = hostRow[g].row.ip /\ hostRow'[g].row.windows = hostRow[g].row.windows
             /\ hostRow'[g].row.login = hostRow[g].row.login
             /\ hostRow'[g].row.verified = hostRow[g].row.verified
    BY <1>1, <1>5 DEF IsLive
  <2> QED BY <1>1, <1>3, <1>4, <1>8, <2>1, UntouchedStays
<1>10. ASSUME ~hostsRaced, \A x \in HostAsks : x # r => hostAsk[x].pc \in {"new", "done"}
       PROVE  /\ q.pc = "sync" => hostRow'[q.host] = LiveRow(q.row)
              /\ q.pc # "save"
              /\ ~handmade' => \A g \in HostRows : IsLive(hostRow', g) /\ ~(q.pc = "sync" /\ q.host = g) =>
                    (hostRow'[g].row.verified <=> hostRow'[g].row.status = "verified")
  <2>1. /\ IsLive(hostRow, h) /\ m.row.status = hostRow[h].row.status
        /\ m.claim = "absent" => m.row.verified = hostRow[h].row.verified
    BY <1>1, <1>10 DEF HostsInv, InStep
  <2>2. ~handmade => \A g \in HostRows : IsLive(hostRow, g) =>
                       (hostRow[g].row.verified <=> hostRow[g].row.status = "verified")
    BY <1>1, <1>10 DEF HostsInv, StatusAgrees, LiveHosts
  <2>3. ASSUME ~handmade', NEW g \in HostRows, IsLive(hostRow', g), ~(q.pc = "sync" /\ q.host = g)
        PROVE  hostRow'[g].row.verified <=> hostRow'[g].row.status = "verified"
    <3>1. CASE g # h
      BY <1>1, <1>5, <2>2, <2>3, <3>1 DEF IsLive
    <3>2. CASE g = h
      <4>1. m.claim = "absent"
        BY <1>3, <2>3, <3>2
      <4> QED BY <1>1, <1>2, <1>5, <2>1, <2>2, <2>3, <3>2, <4>1
    <3> QED BY <3>1, <3>2
  <2> QED BY <1>3, <1>5, <2>3
<1>11. HostsRestored'
  BY <1>6, NothingRestored
<1> QED BY <1>1, <1>3, <1>4, <1>6, <1>7, <1>8, <1>9, <1>10, <1>11, RowsStored

LEMMA SyncStatusKeeps ==
  ASSUME HostsInv, NEW r \in HostAsks, SyncStatus(r)
  PROVE  HostsInv'
<1> DEFINE m == hostAsk[r]
           h == m.host
<1>1. /\ m.pc = "sync" /\ HostsStored(r) /\ UNCHANGED <<touched, handmade, credential, accepts, hostFile>>
      /\ hostAsk' = [hostAsk EXCEPT ![r] = [NotHost EXCEPT !.pc = "done"]]
  BY DEF SyncStatus, KeptBesides, HostEnds, HostGoes
<1>2. m \in AskRow /\ m.row \in Item /\ h \in HostRows
  BY <1>1, HostTypes DEF HostsInv, Asking
<1>3. PICK expected \in {"verified", "unverified"} :
        /\ expected = IF m.row.verified THEN "verified" ELSE "unverified"
        /\ hostRow' = IF m.row.status # expected /\ IsLive(hostRow, h)
                      THEN [hostRow EXCEPT ![h].row.status = expected] ELSE hostRow
  <2>1. PICK expected \in {"verified", "unverified"} : expected = IF m.row.verified THEN "verified" ELSE "unverified"
    OBVIOUS
  <2> QED BY <2>1 DEF SyncStatus, KeptBesides
<1>4. PICK q \in AskRow : q = [NotHost EXCEPT !.pc = "done"]
  BY HostEndIs
<1>5. q.pc = "done" /\ q.kind = "none" /\ hostAsk' = [hostAsk EXCEPT ![r] = q]
  BY <1>1, <1>4, HostEndIs
<1>6. /\ hostRow' \in [HostRows -> HostRow]
      /\ \A g \in HostRows : g # h => hostRow'[g] = hostRow[g]
      /\ IsLive(hostRow', h) <=> IsLive(hostRow, h)
      /\ IsLive(hostRow, h) =>
           /\ hostRow'[h].row.ip = hostRow[h].row.ip /\ hostRow'[h].row.windows = hostRow[h].row.windows
           /\ hostRow'[h].row.login = hostRow[h].row.login /\ hostRow'[h].row.verified = hostRow[h].row.verified
           /\ hostRow'[h].row.status = IF m.row.status # expected THEN expected ELSE hostRow[h].row.status
  <2>1. CASE m.row.status # expected /\ IsLive(hostRow, h)
    <3>1. hostRow[h].row \in Item /\ hostRow[h] = LiveRow(hostRow[h].row)
      BY <1>2, <2>1, HostTypes, LiveHas
    <3>2. PICK k \in Item : k = [hostRow[h].row EXCEPT !.status = expected]
      BY <3>1 DEF Item
    <3>3. /\ k.ip = hostRow[h].row.ip /\ k.windows = hostRow[h].row.windows /\ k.login = hostRow[h].row.login
          /\ k.verified = hostRow[h].row.verified /\ k.status = expected
      BY <3>1, <3>2 DEF Item
    <3>4. hostRow' = [hostRow EXCEPT ![h] = LiveRow(k)]
      <4>1. hostRow' = [hostRow EXCEPT ![h] = [hostRow[h] EXCEPT !.row = [hostRow[h].row EXCEPT !.status = expected]]]
        BY <1>3, <2>1
      <4>2. [hostRow[h] EXCEPT !.row = k] = LiveRow(k)
        BY <3>1 DEF LiveRow
      <4> QED BY <3>2, <4>1, <4>2
    <3>5. hostRow'[h] = LiveRow(k) /\ LiveRow(k) \in HostRow /\ LiveRow(k).is = "live" /\ LiveRow(k).row = k
      BY <1>2, <3>4, HostTypes, LiveRowIs
    <3> QED BY <2>1, <3>3, <3>4, <3>5, HostTypes DEF IsLive
  <2>2. CASE ~(m.row.status # expected /\ IsLive(hostRow, h))
    BY <1>3, <2>2, HostTypes
  <2> QED BY <2>1, <2>2
<1>7. restored' = {} /\ hostsRaced' = (hostsRaced \/ OnTheirWay(r) # {})
  BY <1>1 DEF HostsStored
<1>8. Asking' /\ hostAsk' \in [HostAsks -> AskRow]
  BY <1>5, AskingStays
<1>9. HostsTypeOK'
  <2>1. hostsRaced' \in BOOLEAN
    BY <1>7, StoresAlone
  <2> QED BY <1>1, <1>6, <1>7, <1>8, <2>1, HostTypes DEF HostsTypeOK
<1>10. Probed' /\ VerdictOfLogin'
  <2>1. \A g \in HostRows \ touched' : IsLive(hostRow', g) =>
             /\ g \notin touched /\ IsLive(hostRow, g)
             /\ hostRow'[g].row.ip = hostRow[g].row.ip /\ hostRow'[g].row.windows = hostRow[g].row.windows
             /\ hostRow'[g].row.login = hostRow[g].row.login
             /\ hostRow'[g].row.verified = hostRow[g].row.verified
    BY <1>1, <1>6 DEF IsLive
  <2>2. m.kind # "verify"
    BY <1>1 DEF HostsInv, Asking
  <2> QED BY <1>1, <1>5, <1>9, <2>1, <2>2, UntouchedStays
<1>11. ASSUME ~hostsRaced, \A x \in HostAsks : x # r => hostAsk[x].pc \in {"new", "done"}
       PROVE  /\ q.pc = "sync" => hostRow'[q.host] = LiveRow(q.row)
              /\ q.pc # "save"
              /\ ~handmade' => \A g \in HostRows : IsLive(hostRow', g) /\ ~(q.pc = "sync" /\ q.host = g) =>
                    (hostRow'[g].row.verified <=> hostRow'[g].row.status = "verified")
  <2>1. IsLive(hostRow, h) /\ hostRow[h].row = m.row
    BY <1>1, <1>2, <1>11, LiveRowIs DEF HostsInv, InStep, IsLive
  <2>2. hostRow'[h].row.verified <=> hostRow'[h].row.status = "verified"
    BY <1>3, <1>6, <2>1
  <2>3. ASSUME ~handmade, NEW g \in HostRows, g # h, IsLive(hostRow', g)
        PROVE  hostRow'[g].row.verified <=> hostRow'[g].row.status = "verified"
    BY <1>6, <1>11, <2>3 DEF HostsInv, StatusAgrees, LiveHosts, IsLive
  <2> QED BY <1>1, <1>5, <2>2, <2>3
<1>12. HostsRestored'
  BY <1>7, NothingRestored
<1> QED BY <1>1, <1>5, <1>7, <1>8, <1>9, <1>10, <1>11, <1>12, RowsStored

\* A request that ends with its step: what it stores agrees, and the rest is as it was.
LEMMA EndsStoring ==
  ASSUME HostsInv, NEW r \in HostAsks, hostAsk' = [hostAsk EXCEPT ![r] = [NotHost EXCEPT !.pc = "done"]],
         HostsStored(r), hostFile' = hostFile, handmade' = handmade, accepts' = accepts,
         hostRow' \in [HostRows -> HostRow], credential' \in HostUsers \cup {NoUser, "none"}, touched' \subseteq HostRows,
         ~hostsRaced /\ ~handmade /\ (\A p \in HostAsks : p # r => hostAsk[p].pc \in {"new", "done"}) =>
             \A h \in HostRows : IsLive(hostRow', h) =>
                (hostRow'[h].row.verified <=> hostRow'[h].row.status = "verified"),
         HostsTypeOK' => Probed' /\ VerdictOfLogin'
  PROVE  HostsInv'
<1>1. PICK q \in AskRow : q = [NotHost EXCEPT !.pc = "done"]
  BY HostEndIs
<1>2. q.pc = "done" /\ q.kind = "none" /\ hostAsk' = [hostAsk EXCEPT ![r] = q]
  BY <1>1, HostEndIs
<1>3. restored' = {} /\ hostsRaced' = (hostsRaced \/ OnTheirWay(r) # {})
  BY DEF HostsStored
<1>4. Asking' /\ hostAsk' \in [HostAsks -> AskRow]
  BY <1>2, AskingStays
<1>5. HostsTypeOK'
  <2>1. hostsRaced' \in BOOLEAN
    BY <1>3, StoresAlone
  <2> QED BY <1>3, <1>4, <2>1, HostTypes DEF HostsTypeOK
<1>6. HostsRestored'
  BY <1>3, NothingRestored
<1> QED BY <1>2, <1>3, <1>4, <1>5, <1>6, RowsStored

\* A request that has just come has read nothing.
LEMMA Comes ==
  ASSUME HostsInv, NEW r \in HostAsks, HostComes(r)
  PROVE  hostAsk[r].pc = "new" /\ hostAsk[r].kind # "verify"
BY DEF HostComes, HostsInv, Asking

\* What agreed while others rest.
LEMMA AllAgree ==
  ASSUME HostsInv, NEW r \in HostAsks, hostAsk[r].pc # "sync", ~hostsRaced, ~handmade,
         \A p \in HostAsks : p # r => hostAsk[p].pc \in {"new", "done"}, NEW h \in HostRows, IsLive(hostRow, h)
  PROVE  hostRow[h].row.verified <=> hostRow[h].row.status = "verified"
BY DEF HostsInv, StatusAgrees, LiveHosts

LEMMA DropHostKeeps ==
  ASSUME HostsInv, NEW r \in HostAsks, DropHost(r)
  PROVE  HostsInv'
<1>1. PICK h \in LiveHosts : KeptBesides([hostRow EXCEPT ![h] = Deleted]) /\ touched' = touched \ {h}
  BY DEF DropHost
<1>2. HostComes(r) /\ HostsStored(r) /\ handmade' = handmade
      /\ hostAsk' = [hostAsk EXCEPT ![r] = [NotHost EXCEPT !.pc = "done"]]
  BY DEF DropHost, HostEnds, HostGoes
<1>3. /\ UNCHANGED <<credential, accepts, hostFile>> /\ hostRow' = [hostRow EXCEPT ![h] = Deleted] /\ h \in HostRows
  BY <1>1 DEF KeptBesides, LiveHosts
<1>4. /\ hostRow' \in [HostRows -> HostRow] /\ ~IsLive(hostRow', h)
      /\ \A g \in HostRows : g # h => hostRow'[g] = hostRow[g]
  BY <1>3, HostTypes DEF IsLive, Deleted, HostRow
<1>5. hostAsk[r].pc = "new" /\ hostAsk[r].kind # "verify"
  BY <1>2, Comes
<1>6. \A g \in HostRows \ touched' : IsLive(hostRow', g) => g \notin touched /\ IsLive(hostRow, g) /\ hostRow'[g] = hostRow[g]
  BY <1>1, <1>4 DEF IsLive
<1>7. HostsTypeOK' => Probed' /\ VerdictOfLogin'
  BY <1>2, <1>3, <1>5, <1>6, HostEndIs, UntouchedStays
<1>8. ~hostsRaced /\ ~handmade /\ (\A p \in HostAsks : p # r => hostAsk[p].pc \in {"new", "done"}) =>
        \A g \in HostRows : IsLive(hostRow', g) => (hostRow'[g].row.verified <=> hostRow'[g].row.status = "verified")
  BY <1>4, <1>5, AllAgree DEF IsLive
<1> QED BY <1>1, <1>2, <1>3, <1>4, <1>7, <1>8, EndsStoring, HostTypes

LEMMA EditCredentialKeeps ==
  ASSUME HostsInv, NEW r \in HostAsks, EditCredential(r)
  PROVE  HostsInv'
<1>1. /\ HostComes(r) /\ HostsStored(r) /\ UNCHANGED <<hostRow, accepts, hostFile, touched, handmade>>
      /\ hostAsk' = [hostAsk EXCEPT ![r] = [NotHost EXCEPT !.pc = "done"]]
      /\ credential' \in HostUsers \cup {NoUser, "none"}
  BY DEF EditCredential, HostEnds, HostGoes
<1>2. hostAsk[r].pc = "new" /\ hostAsk[r].kind # "verify"
  BY <1>1, Comes
<1>3. HostsTypeOK' => Probed' /\ VerdictOfLogin'
  BY <1>1, <1>2, HostEndIs, UntouchedStays DEF IsLive
<1>4. ~hostsRaced /\ ~handmade /\ (\A p \in HostAsks : p # r => hostAsk[p].pc \in {"new", "done"}) =>
        \A g \in HostRows : IsLive(hostRow', g) => (hostRow'[g].row.verified <=> hostRow'[g].row.status = "verified")
  BY <1>1, <1>2, AllAgree DEF IsLive
<1> QED BY <1>1, <1>3, <1>4, EndsStoring, HostTypes

LEMMA LeastOf ==
  ASSUME NEW S \in SUBSET Nat, S # {}
  PROVE  \E n \in S : \A m \in S : ~(m < n)
<1>1. IsWellFoundedOn(OpToRel(<, Nat), Nat)
  BY NatLessThanWellFounded
<1>2. \E n \in S : \A m \in S : ~ (<<m, n>> \in OpToRel(<, Nat))
  BY <1>1, WFMin, Zenon
<1> QED BY <1>2 DEF OpToRel

\* The row that is next to be used.
LEMMA FreeRowIs ==
  ASSUME NEW rows, HasRoom(rows)
  PROVE  FreeRow(rows) \in HostRows /\ rows[FreeRow(rows)].is = "free"
<1> DEFINE S == {h \in HostRows : rows[h].is = "free"}
<1>1. S \in SUBSET Nat /\ S # {}
  BY DEF HasRoom, HostRows
<1>2. PICK n \in S : \A m \in S : ~(m < n)
  BY <1>1, LeastOf
<1>3. n \in HostRows /\ rows[n].is = "free" /\ \A g \in 1..n - 1 : rows[g].is # "free"
  <2>1. ASSUME NEW g \in 1..n - 1, rows[g].is = "free"
        PROVE  FALSE
    <3>1. g \in HostRows /\ g < n
      BY HostsAssumption DEF HostRows
    <3> QED BY <1>2, <2>1, <3>1
  <2> QED BY <2>1
<1> QED BY <1>3 DEF FreeRow

LEMMA ImportTableKeeps ==
  ASSUME HostsInv, NEW r \in HostAsks, ImportTable(r)
  PROVE  HostsInv'
<1>1. HostComes(r) /\ HasRoom(hostRow) /\ HostsStored(r) /\ handmade' = handmade
      /\ hostAsk' = [hostAsk EXCEPT ![r] = [NotHost EXCEPT !.pc = "done"]]
  BY DEF ImportTable, HostEnds, HostGoes
<1> DEFINE h == FreeRow(hostRow)
<1>2. h \in HostRows /\ hostRow[h].is = "free"
  BY <1>1, FreeRowIs
<1>3. PICK row \in Item : /\ ~row.verified /\ row.status = "unverified"
                          /\ UNCHANGED <<credential, accepts, hostFile>>
                          /\ \/ hostRow' = hostRow /\ touched' = touched
                             \/ hostRow' = [hostRow EXCEPT ![h] = LiveRow(row)] /\ touched' = touched \cup {h}
  <2>1. PICK n \in HostNames, p \in HostPaths, a \in Addresses, w \in BOOLEAN :
         LET row == [name |-> n, at |-> p, ip |-> a, login |-> NoUser, windows |-> w,
                     verified |-> FALSE, status |-> "unverified"]
             there == \E item \in ItemsOf(hostRow) : item.name = n /\ item.at = p /\ item.ip = a IN
         /\ KeptBesides(IF there THEN hostRow ELSE [hostRow EXCEPT ![h] = LiveRow(row)])
         /\ touched' = IF there THEN touched ELSE touched \cup {h}
    BY Zenon DEF ImportTable
  <2>2. PICK row \in Item : row = [name |-> n, at |-> p, ip |-> a, login |-> NoUser, windows |-> w,
                                   verified |-> FALSE, status |-> "unverified"]
    BY DEF Item
  <2>3. ~row.verified /\ row.status = "unverified"
    BY <2>2
  <2> QED BY <2>1, <2>2, <2>3 DEF KeptBesides
<1>4. hostAsk[r].pc = "new" /\ hostAsk[r].kind # "verify"
  BY <1>1, Comes
<1>5. /\ hostRow' \in [HostRows -> HostRow]
      /\ \A g \in HostRows : hostRow'[g] = hostRow[g] \/ (g = h /\ h \in touched' /\ hostRow'[g] = LiveRow(row))
      /\ touched \subseteq touched' /\ touched' \subseteq HostRows
  BY <1>2, <1>3, HostTypes, LiveRowIs
<1>6. \A g \in HostRows \ touched' : IsLive(hostRow', g) => g \notin touched /\ IsLive(hostRow, g) /\ hostRow'[g] = hostRow[g]
  BY <1>5 DEF IsLive
<1>7. HostsTypeOK' => Probed' /\ VerdictOfLogin'
  BY <1>1, <1>3, <1>4, <1>6, HostEndIs, UntouchedStays
<1>8. ~hostsRaced /\ ~handmade /\ (\A p \in HostAsks : p # r => hostAsk[p].pc \in {"new", "done"}) =>
        \A g \in HostRows : IsLive(hostRow', g) => (hostRow'[g].row.verified <=> hostRow'[g].row.status = "verified")
  BY <1>3, <1>4, <1>5, AllAgree, LiveRowIs DEF IsLive
<1> QED BY <1>1, <1>3, <1>5, <1>7, <1>8, EndsStoring, HostTypes
----------------------------------------------------------------------------
(* Requests that read, and probes. *)

LEMMA ReadForEditKeeps ==
  ASSUME HostsInv, NEW r \in HostAsks, ReadForEdit(r)
  PROVE  HostsInv'
<1>1. PICK h \in LiveHosts, u \in HostUsers, n \in HostNames, claim \in {"absent", "true", "false"} :
         HostGoes(r, [NotHost EXCEPT !.pc = "save", !.kind = "edit", !.host = h, !.claim = claim,
                        !.row = [hostRow[h].row EXCEPT !.login = u, !.name = n,
                                   !.verified = IF claim = "absent" THEN @ ELSE claim = "true"]])
  BY DEF ReadForEdit
<1>2. UNCHANGED <<hostRow, credential, accepts, hostFile, touched, hostsRaced, handmade, restored>> /\ HostComes(r)
  BY DEF ReadForEdit
<1>3. h \in HostRows /\ IsLive(hostRow, h) /\ hostRow[h].row \in Item
  BY HostTypes, LiveHas DEF LiveHosts
<1>4. PICK v \in BOOLEAN : v = IF claim = "absent" THEN hostRow[h].row.verified ELSE claim = "true"
  <2>1. hostRow[h].row.verified \in BOOLEAN
    BY <1>3 DEF Item
  <2>2. (claim = "true") = TRUE \/ (claim = "true") = FALSE
    OBVIOUS
  <2>3. CASE claim = "absent"
    BY <2>1, <2>3, Zenon
  <2>4. CASE claim # "absent"
    BY <2>2, <2>4, Zenon
  <2> QED BY <2>3, <2>4
<1>5. PICK row \in Item : row = [hostRow[h].row EXCEPT !.login = u, !.name = n, !.verified = v]
  BY <1>3 DEF Item
<1>6. row.status = hostRow[h].row.status /\ row.verified = v
  BY <1>3, <1>5 DEF Item
<1>7. PICK q \in AskRow : q = [NotHost EXCEPT !.pc = "save", !.kind = "edit", !.host = h, !.claim = claim, !.row = row]
  BY <1>3 DEF NotHost, AskRow
<1>8. q.pc = "save" /\ q.kind = "edit" /\ q.host = h /\ q.claim = claim /\ q.row = row
  BY <1>7 DEF NotHost
<1>9. hostAsk' = [hostAsk EXCEPT ![r] = q]
  <2>1. hostAsk' = [hostAsk EXCEPT ![r] =
          [NotHost EXCEPT !.pc = "save", !.kind = "edit", !.host = h, !.claim = claim,
             !.row = [hostRow[h].row EXCEPT !.login = u, !.name = n,
                        !.verified = IF claim = "absent" THEN hostRow[h].row.verified ELSE claim = "true"]]]
    BY <1>1 DEF HostGoes
  <2> QED BY <1>4, <1>5, <1>7, <2>1, Zenon
<1>10. /\ \A p \in HostAsks : p # r => hostAsk'[p] = hostAsk[p]
       /\ hostAsk'[r] = q
  BY <1>9, HostTypes
<1>11. Asking' /\ hostAsk' \in [HostAsks -> AskRow]
  BY <1>3, <1>8, <1>9, AskingStays
<1>12. HostsTypeOK'
  BY <1>2, <1>11, HostTypes DEF HostsTypeOK
<1>13. hostAsk[r].pc = "new" /\ hostAsk[r].kind # "verify"
  BY <1>2, Comes
<1>14. Probed' /\ VerdictOfLogin'
  BY <1>2, <1>8, <1>9, <1>12, <1>13, UntouchedStays DEF IsLive
<1>15. InStep'
  <2>1. claim = "absent" => v = hostRow[h].row.verified
    BY <1>4, Zenon
  <2> QED BY <1>2, <1>3, <1>6, <1>8, <1>10, <2>1 DEF HostsInv, InStep, IsLive, LiveRow
<1>16. StatusAgrees'
  BY <1>2, <1>8, <1>10, <1>13 DEF HostsInv, StatusAgrees, LiveHosts, IsLive
<1> QED BY <1>2, <1>11, <1>12, <1>14, <1>15, <1>16 DEF HostsInv, FileAgrees, HostsRestored, ItemsOf, IsLive

LEMMA ExportKeeps ==
  ASSUME HostsInv, Export
  PROVE  HostsInv'
<1>1. /\ hostFile' = [hosts |-> [h \in LiveHosts |-> hostRow[h].row], lent |-> credential]
      /\ hostsRaced' = (hostsRaced \/ OnTheirWay(0) # {})
      /\ UNCHANGED <<hostRow, credential, accepts, hostAsk, touched, handmade, restored>>
  BY DEF Export
<1>2. /\ hostsRaced' \in BOOLEAN
      /\ ~hostsRaced' => ~hostsRaced /\ \A p \in HostAsks : p # 0 => hostAsk[p].pc \in {"new", "done"}
  BY <1>1, StoresAlone
<1>3. /\ DOMAIN hostFile'.hosts = LiveHosts /\ LiveHosts \subseteq HostRows /\ hostFile'.lent = credential
      /\ \A h \in LiveHosts : hostFile'.hosts[h] = hostRow[h].row /\ hostRow[h].row \in Item
  BY <1>1, HostTypes, LiveHas DEF LiveHosts
<1>4. HostsTypeOK'
  BY <1>1, <1>2, <1>3, HostTypes DEF HostsTypeOK
<1>5. FileAgrees'
  <2>1. ASSUME ~hostsRaced', ~handmade, NEW h \in LiveHosts
        PROVE  hostRow[h].row \in Agreed
    <3>1. \A p \in HostAsks : hostAsk[p].pc # "sync"
      BY <1>2, <2>1 DEF HostAsks
    <3> QED BY <1>2, <1>3, <2>1, <3>1 DEF HostsInv, StatusAgrees, Agreed
  <2> QED BY <1>1, <1>3, <2>1 DEF FileAgrees
<1>6. InStep' /\ StatusAgrees'
  BY <1>1, <1>2 DEF HostsInv, InStep, StatusAgrees, LiveHosts, IsLive
<1>7. Asking' /\ Probed' /\ VerdictOfLogin' /\ HostsRestored'
  BY <1>1 DEF HostsInv, Asking, Probed, VerdictOfLogin, Probing, HostsRestored, LiveHosts, IsLive, ItemsOf
<1> QED BY <1>4, <1>5, <1>6, <1>7 DEF HostsInv

LEMMA ReadForProbeKeeps ==
  ASSUME HostsInv, NEW r \in HostAsks, ReadForProbe(r)
  PROVE  HostsInv'
<1>1. PICK h \in LiveHosts :
        /\ HostGoes(r, [NotHost EXCEPT !.pc = "connect", !.kind = "verify", !.host = h, !.row = hostRow[h].row])
        /\ touched' = IF Probing(h) THEN touched ELSE touched \ {h}
  BY DEF ReadForProbe
<1>2. UNCHANGED <<hostRow, credential, accepts, hostFile, hostsRaced, handmade, restored>> /\ HostComes(r)
  BY DEF ReadForProbe
<1>3. h \in HostRows /\ IsLive(hostRow, h) /\ hostRow[h].row \in Item
  BY HostTypes, LiveHas DEF LiveHosts
<1>4. PICK q \in AskRow : q = [NotHost EXCEPT !.pc = "connect", !.kind = "verify", !.host = h, !.row = hostRow[h].row]
  BY <1>3 DEF NotHost, AskRow
<1>5. /\ q.pc = "connect" /\ q.kind = "verify" /\ q.host = h /\ q.row = hostRow[h].row
      /\ hostAsk' = [hostAsk EXCEPT ![r] = q]
  BY <1>1, <1>4 DEF NotHost, HostGoes
<1>6. /\ \A p \in HostAsks : p # r => hostAsk'[p] = hostAsk[p]
      /\ hostAsk'[r] = q
  BY <1>5, HostTypes
<1>7. Asking' /\ hostAsk' \in [HostAsks -> AskRow]
  BY <1>3, <1>5, AskingStays
<1>8. HostsTypeOK'
  BY <1>1, <1>2, <1>7, HostTypes DEF HostsTypeOK
<1>9. hostAsk[r].pc = "new" /\ hostAsk[r].kind # "verify"
  BY <1>2, Comes
<1>10. Probed'
  <2>1. ASSUME NEW p \in HostAsks, hostAsk'[p].kind = "verify", hostAsk'[p].host \notin touched',
               IsLive(hostRow, hostAsk'[p].host)
        PROVE  LET row == hostRow[hostAsk'[p].host].row IN
               /\ row.ip = hostAsk'[p].row.ip /\ row.windows = hostAsk'[p].row.windows
               /\ hostAsk'[p].pc = "probe" => ~row.windows /\ row.login \in accepts[row.ip]
               /\ row.login = hostAsk'[p].row.login \/ row.login \in accepts[row.ip]
    <3>1. CASE p = r
      BY <1>5, <1>6, <3>1
    <3>2. CASE p # r
      <4>1. hostAsk[p].host \notin touched
        BY <1>1, <1>6, <2>1, <3>2 DEF Probing
      <4> QED BY <1>6, <2>1, <3>2, <4>1 DEF HostsInv, Probed
    <3> QED BY <3>1, <3>2
  <2> QED BY <1>2, <2>1 DEF Probed, IsLive
<1>11. VerdictOfLogin'
  <2>1. ASSUME NEW g \in HostRows, IsLive(hostRow, g), g \notin touched', ~Probing(g)',
               hostRow[g].row.verified, ~hostRow[g].row.windows
        PROVE  hostRow[g].row.login \in accepts[hostRow[g].row.ip]
    <3>1. g # h
      BY <1>5, <1>6, <2>1 DEF Probing
    <3>2. g \notin touched /\ ~Probing(g)
      BY <1>1, <1>6, <1>9, <2>1, <3>1 DEF Probing
    <3> QED BY <2>1, <3>2 DEF HostsInv, VerdictOfLogin, LiveHosts
  <2> QED BY <1>2, <2>1 DEF VerdictOfLogin, LiveHosts, IsLive
<1>12. InStep' /\ StatusAgrees'
  BY <1>2, <1>5, <1>6, <1>9 DEF HostsInv, InStep, StatusAgrees, LiveHosts, IsLive
<1> QED BY <1>2, <1>7, <1>8, <1>10, <1>11, <1>12 DEF HostsInv, FileAgrees, HostsRestored, ItemsOf, IsLive

LEMMA ConnectOwnKeeps ==
  ASSUME HostsInv, NEW r \in HostAsks, ConnectOwn(r)
  PROVE  HostsInv'
<1> DEFINE m == hostAsk[r]
           h == m.host
<1>1. /\ m.pc = "connect" /\ m.kind = "verify" /\ ~m.row.windows /\ m.row.login \in accepts[m.row.ip]
      /\ hostAsk' = [hostAsk EXCEPT ![r] = [m EXCEPT !.pc = "probe"]]
      /\ UNCHANGED <<hostRow, credential, accepts, hostFile, touched, hostsRaced, handmade, restored>>
  BY DEF ConnectOwn, HostAt, Own, HostGoes
<1>2. m \in AskRow /\ m.row \in Item /\ h \in HostRows
  BY <1>1, HostTypes DEF HostsInv, Asking
<1>3. PICK q \in AskRow : q = [m EXCEPT !.pc = "probe"]
  BY <1>2 DEF AskRow
<1>4. /\ q.pc = "probe" /\ q.kind = "verify" /\ q.host = h /\ q.row = m.row
      /\ hostAsk' = [hostAsk EXCEPT ![r] = q]
  BY <1>1, <1>2, <1>3 DEF AskRow
<1>5. /\ \A p \in HostAsks : p # r => hostAsk'[p] = hostAsk[p]
      /\ hostAsk'[r] = q
  BY <1>4, HostTypes
<1>6. Asking' /\ hostAsk' \in [HostAsks -> AskRow]
  BY <1>2, <1>4, AskingStays
<1>7. HostsTypeOK'
  BY <1>1, <1>6, HostTypes DEF HostsTypeOK
<1>8. Probed'
  <2>1. ASSUME NEW p \in HostAsks, hostAsk'[p].kind = "verify", hostAsk'[p].host \notin touched,
               IsLive(hostRow, hostAsk'[p].host)
        PROVE  LET row == hostRow[hostAsk'[p].host].row IN
               /\ row.ip = hostAsk'[p].row.ip /\ row.windows = hostAsk'[p].row.windows
               /\ hostAsk'[p].pc = "probe" => ~row.windows /\ row.login \in accepts[row.ip]
               /\ row.login = hostAsk'[p].row.login \/ row.login \in accepts[row.ip]
    <3>1. /\ hostAsk[p].kind = "verify" /\ hostAsk[p].host = hostAsk'[p].host /\ hostAsk[p].row = hostAsk'[p].row
          /\ hostAsk'[p].pc = hostAsk[p].pc \/ p = r
      BY <1>1, <1>4, <1>5, <2>1
    <3>2. LET row == hostRow[hostAsk[p].host].row IN
          /\ row.ip = hostAsk[p].row.ip /\ row.windows = hostAsk[p].row.windows
          /\ hostAsk[p].pc = "probe" => ~row.windows /\ row.login \in accepts[row.ip]
          /\ row.login = hostAsk[p].row.login \/ row.login \in accepts[row.ip]
      BY <2>1, <3>1 DEF HostsInv, Probed
    <3> QED BY <1>1, <3>1, <3>2
  <2> QED BY <1>1, <2>1 DEF Probed, IsLive
<1>9. VerdictOfLogin'
  <2>1. \A g \in HostRows : Probing(g)' <=> Probing(g)
    BY <1>1, <1>4, <1>5 DEF Probing
  <2> QED BY <1>1, <2>1 DEF HostsInv, VerdictOfLogin, LiveHosts, IsLive
<1>10. InStep' /\ StatusAgrees'
  BY <1>1, <1>4, <1>5 DEF HostsInv, InStep, StatusAgrees, LiveHosts, IsLive
<1> QED BY <1>1, <1>6, <1>7, <1>8, <1>9, <1>10 DEF HostsInv, FileAgrees, HostsRestored, ItemsOf, IsLive

\* A probe is over.
LEMMA ProbeEnds ==
  ASSUME HostsInv, NEW r \in HostAsks, hostAsk[r].kind = "verify",
         hostAsk' = [hostAsk EXCEPT ![r] = [NotHost EXCEPT !.pc = "done"]],
         HostsStored(r), UNCHANGED <<credential, accepts, hostFile, touched, handmade>>,
         hostRow' \in [HostRows -> HostRow],
         \A g \in HostRows : g # hostAsk[r].host => hostRow'[g] = hostRow[g],
         LET h == hostAsk[r].host IN IsLive(hostRow', h) =>
             /\ IsLive(hostRow, h)
             /\ hostRow'[h].row.ip = hostRow[h].row.ip /\ hostRow'[h].row.windows = hostRow[h].row.windows
             /\ hostRow'[h].row.login = hostRow[h].row.login
             /\ hostRow'[h].row.verified <=> hostRow'[h].row.status = "verified"
             /\ h \notin touched /\ hostRow'[h].row.verified /\ ~hostRow[h].row.windows =>
                   hostRow[h].row.login \in accepts[hostRow[h].row.ip]
  PROVE  HostsInv'
<1> DEFINE h == hostAsk[r].host
<1>1. /\ \A p \in HostAsks : p # r => hostAsk'[p] = hostAsk[p]
      /\ hostAsk'[r].kind # "verify"
  BY HostTypes, HostEndIs
<1>2. hostAsk[r].pc # "sync"
  BY DEF HostsInv, Asking
<1>3. Probed'
  <2>1. ASSUME NEW p \in HostAsks, hostAsk'[p].kind = "verify", hostAsk'[p].host \notin touched,
               IsLive(hostRow', hostAsk'[p].host)
        PROVE  LET row == hostRow'[hostAsk'[p].host].row IN
               /\ row.ip = hostAsk'[p].row.ip /\ row.windows = hostAsk'[p].row.windows
               /\ hostAsk'[p].pc = "probe" => ~row.windows /\ row.login \in accepts[row.ip]
               /\ row.login = hostAsk'[p].row.login \/ row.login \in accepts[row.ip]
    <3>1. p # r /\ hostAsk'[p] = hostAsk[p] /\ hostAsk[p].host \in HostRows
      BY <1>1, <2>1 DEF HostsInv, Asking
    <3>2. LET g == hostAsk[p].host IN
          /\ IsLive(hostRow, g)
          /\ hostRow'[g].row.ip = hostRow[g].row.ip /\ hostRow'[g].row.windows = hostRow[g].row.windows
          /\ hostRow'[g].row.login = hostRow[g].row.login
      BY <2>1, <3>1 DEF IsLive
    <3>3. LET row == hostRow[hostAsk[p].host].row IN
          /\ row.ip = hostAsk[p].row.ip /\ row.windows = hostAsk[p].row.windows
          /\ hostAsk[p].pc = "probe" => ~row.windows /\ row.login \in accepts[row.ip]
          /\ row.login = hostAsk[p].row.login \/ row.login \in accepts[row.ip]
      <4>1. hostAsk[p].kind = "verify" /\ hostAsk[p].host \notin touched /\ IsLive(hostRow, hostAsk[p].host)
        BY <2>1, <3>1, <3>2
      <4> QED BY <4>1, Zenon DEF HostsInv, Probed
    <3> QED BY <3>1, <3>2, <3>3
  <2> QED BY <2>1 DEF Probed, IsLive
<1>4. VerdictOfLogin'
  <2>1. ASSUME NEW g \in HostRows, IsLive(hostRow', g), g \notin touched, ~Probing(g)',
               hostRow'[g].row.verified, ~hostRow'[g].row.windows
        PROVE  hostRow'[g].row.login \in accepts[hostRow'[g].row.ip]
    <3>1. CASE g = h
      BY <2>1, <3>1
    <3>2. CASE g # h
      <4>1. ~Probing(g) /\ hostRow'[g] = hostRow[g]
        BY <1>1, <2>1, <3>2 DEF Probing
      <4> QED BY <2>1, <4>1 DEF HostsInv, VerdictOfLogin, LiveHosts, IsLive
    <3> QED BY <3>1, <3>2
  <2> QED BY <2>1 DEF VerdictOfLogin, LiveHosts, IsLive
<1>5. ASSUME ~hostsRaced, ~handmade, \A p \in HostAsks : p # r => hostAsk[p].pc \in {"new", "done"},
             NEW g \in HostRows, IsLive(hostRow', g)
      PROVE  hostRow'[g].row.verified <=> hostRow'[g].row.status = "verified"
  <2>1. CASE g = h
    BY <1>5, <2>1
  <2>2. CASE g # h
    <3>1. hostRow'[g] = hostRow[g] /\ IsLive(hostRow, g)
      BY <1>5, <2>2 DEF IsLive
    <3> QED BY <1>2, <1>5, <3>1, AllAgree
  <2> QED BY <2>1, <2>2
<1> QED BY <1>3, <1>4, <1>5, EndsStoring, HostTypes

\* What the verdict of a probe makes of the rows.
LEMMA VerdictIs ==
  ASSUME HostsInv, NEW h \in HostRows, NEW verdict \in {"verified", "failed"}
  PROVE  LET rows == Verdict(h, verdict) IN
         /\ rows \in [HostRows -> HostRow] /\ \A g \in HostRows : g # h => rows[g] = hostRow[g]
         /\ IsLive(rows, h) =>
              /\ IsLive(hostRow, h)
              /\ rows[h].row.ip = hostRow[h].row.ip /\ rows[h].row.windows = hostRow[h].row.windows
              /\ rows[h].row.login = hostRow[h].row.login
              /\ rows[h].row.verified <=> verdict = "verified"
              /\ rows[h].row.status = verdict
<1>1. CASE IsLive(hostRow, h)
  <2>1. hostRow[h].row \in Item /\ hostRow[h] = LiveRow(hostRow[h].row)
    BY <1>1, HostTypes, LiveHas
  <2>2. PICK v \in BOOLEAN : v = (verdict = "verified")
    <3>1. (verdict = "verified") = TRUE \/ (verdict = "verified") = FALSE
      OBVIOUS
    <3> QED BY <3>1, Zenon
  <2>3. v <=> verdict = "verified"
    BY <2>2, Zenon
  <2>4. PICK k \in Item : k = [hostRow[h].row EXCEPT !.verified = v, !.status = verdict]
    BY <2>1 DEF Item
  <2>5. /\ k.ip = hostRow[h].row.ip /\ k.windows = hostRow[h].row.windows /\ k.login = hostRow[h].row.login
        /\ k.verified = v /\ k.status = verdict
    BY <2>1, <2>4 DEF Item
  <2>6. Verdict(h, verdict) = [hostRow EXCEPT ![h] = LiveRow(k)]
    <3>1. Verdict(h, verdict) = [hostRow EXCEPT ![h].row.verified = v, ![h].row.status = verdict]
      BY <1>1, <2>2, Zenon DEF Verdict
    <3>2. [hostRow EXCEPT ![h].row.verified = v, ![h].row.status = verdict]
            = [hostRow EXCEPT ![h] = [hostRow[h] EXCEPT !.row = [hostRow[h].row EXCEPT !.verified = v, !.status = verdict]]]
      BY <2>1, HostTypes DEF LiveRow
    <3>3. [hostRow[h] EXCEPT !.row = k] = LiveRow(k)
      BY <2>1 DEF LiveRow
    <3> QED BY <2>4, <3>1, <3>2, <3>3
  <2>7. LiveRow(k) \in HostRow /\ LiveRow(k).row = k
    BY LiveRowIs
  <2> QED BY <1>1, <2>3, <2>5, <2>6, <2>7, HostTypes
<1>2. CASE ~IsLive(hostRow, h)
  BY <1>2, HostTypes DEF Verdict
<1> QED BY <1>1, <1>2

LEMMA VerdictKeeps ==
  ASSUME HostsInv, NEW r \in HostAsks, ProbeFails(r) \/ ProbeSucceeds(r)
  PROVE  HostsInv'
<1> DEFINE m == hostAsk[r]
           h == m.host
<1>1. PICK verdict \in {"verified", "failed"} :
        /\ KeptBesides(Verdict(h, verdict))
        /\ verdict = "verified" => m.pc = "probe" \/ m.row.windows
  BY DEF ProbeFails, ProbeSucceeds
<1>2. /\ m.kind = "verify" /\ HostsStored(r) /\ UNCHANGED <<touched, handmade>>
      /\ hostAsk' = [hostAsk EXCEPT ![r] = [NotHost EXCEPT !.pc = "done"]]
  BY DEF ProbeFails, ProbeSucceeds, HostEnds, HostGoes
<1>3. hostRow' = Verdict(h, verdict) /\ UNCHANGED <<credential, accepts, hostFile>>
  BY <1>1 DEF KeptBesides
<1>4. h \in HostRows
  BY <1>2 DEF HostsInv, Asking
<1>5. /\ hostRow' \in [HostRows -> HostRow] /\ \A g \in HostRows : g # h => hostRow'[g] = hostRow[g]
      /\ IsLive(hostRow', h) =>
           /\ IsLive(hostRow, h)
           /\ hostRow'[h].row.ip = hostRow[h].row.ip /\ hostRow'[h].row.windows = hostRow[h].row.windows
           /\ hostRow'[h].row.login = hostRow[h].row.login
           /\ hostRow'[h].row.verified <=> verdict = "verified"
           /\ hostRow'[h].row.status = verdict
  BY <1>3, <1>4, VerdictIs
<1>6. IsLive(hostRow, h) /\ h \notin touched /\ verdict = "verified" /\ ~hostRow[h].row.windows =>
        hostRow[h].row.login \in accepts[hostRow[h].row.ip]
  BY <1>1, <1>2 DEF HostsInv, Probed
<1> QED BY <1>2, <1>3, <1>5, <1>6, ProbeEnds

LEMMA ConnectLentKeeps ==
  ASSUME HostsInv, NEW r \in HostAsks, ConnectLent(r)
  PROVE  HostsInv'
<1> DEFINE m == hostAsk[r]
           h == m.host
<1>1. /\ m.pc = "connect" /\ m.kind = "verify" /\ ~m.row.windows /\ credential \in accepts[m.row.ip]
      /\ HostsStored(r) /\ UNCHANGED <<touched, handmade>>
  BY DEF ConnectLent, HostAt, Lends
<1>2. m \in AskRow /\ m.row \in Item /\ h \in HostRows
  BY <1>1, HostTypes DEF HostsInv, Asking
<1>3. CASE ~IsLive(hostRow, h)
  <2>1. /\ UNCHANGED <<hostRow, credential, accepts, hostFile>>
        /\ hostAsk' = [hostAsk EXCEPT ![r] = [NotHost EXCEPT !.pc = "done"]]
    BY <1>3 DEF ConnectLent, KeptBesides, HostEnds, HostGoes
  <2>2. ~IsLive(hostRow', h)
    BY <1>3, <2>1 DEF IsLive
  <2> QED BY <1>1, <2>1, <2>2, ProbeEnds, HostTypes
<1>4. CASE IsLive(hostRow, h)
  <2>1. /\ UNCHANGED <<credential, accepts, hostFile>> /\ hostRow' = [hostRow EXCEPT ![h].row.login = credential]
        /\ hostAsk' = [hostAsk EXCEPT ![r] = [m EXCEPT !.pc = "probe"]]
    BY <1>4 DEF ConnectLent, KeptBesides, UseCredential, HostGoes
  <2>2. PICK q \in AskRow : q = [m EXCEPT !.pc = "probe"]
    BY <1>2 DEF AskRow
  <2>3. /\ q.pc = "probe" /\ q.kind = "verify" /\ q.host = h /\ q.row = m.row
        /\ hostAsk' = [hostAsk EXCEPT ![r] = q]
    BY <1>1, <1>2, <2>1, <2>2 DEF AskRow
  <2>4. hostRow[h].row \in Item /\ hostRow[h] = LiveRow(hostRow[h].row)
    BY <1>2, <1>4, HostTypes, LiveHas
  <2>5. credential \in HostUsers
    BY <1>1, <1>2, HostTypes DEF Item
  <2>6. PICK k \in Item : k = [hostRow[h].row EXCEPT !.login = credential]
    BY <2>4, <2>5 DEF Item
  <2>7. /\ k.ip = hostRow[h].row.ip /\ k.windows = hostRow[h].row.windows /\ k.login = credential
        /\ k.verified = hostRow[h].row.verified /\ k.status = hostRow[h].row.status
    BY <2>4, <2>6 DEF Item
  <2>8. hostRow' = [hostRow EXCEPT ![h] = LiveRow(k)]
    <3>1. hostRow' = [hostRow EXCEPT ![h] = [hostRow[h] EXCEPT !.row = [hostRow[h].row EXCEPT !.login = credential]]]
      BY <2>1
    <3>2. [hostRow[h] EXCEPT !.row = k] = LiveRow(k)
      BY <2>4 DEF LiveRow
    <3> QED BY <2>6, <3>1, <3>2
  <2>9. /\ hostRow' \in [HostRows -> HostRow] /\ hostRow'[h] = LiveRow(k) /\ LiveRow(k).row = k /\ LiveRow(k).is = "live"
        /\ \A g \in HostRows : g # h => hostRow'[g] = hostRow[g]
    BY <1>2, <2>8, HostTypes, LiveRowIs
  <2>10. /\ \A p \in HostAsks : p # r => hostAsk'[p] = hostAsk[p]
         /\ hostAsk'[r] = q
    BY <2>3, HostTypes
  <2>11. Asking' /\ hostAsk' \in [HostAsks -> AskRow]
    BY <1>2, <2>3, AskingStays
  <2>12. restored' = {} /\ hostsRaced' = (hostsRaced \/ OnTheirWay(r) # {})
    BY <1>1 DEF HostsStored
  <2>13. HostsTypeOK'
    <3>1. hostsRaced' \in BOOLEAN
      BY <2>12, StoresAlone
    <3> QED BY <1>1, <2>1, <2>9, <2>11, <2>12, <3>1, HostTypes DEF HostsTypeOK
  <2>14. Probed'
    <3>1. ASSUME NEW p \in HostAsks, hostAsk'[p].kind = "verify", hostAsk'[p].host \notin touched,
                 IsLive(hostRow', hostAsk'[p].host)
          PROVE  LET row == hostRow'[hostAsk'[p].host].row IN
                 /\ row.ip = hostAsk'[p].row.ip /\ row.windows = hostAsk'[p].row.windows
                 /\ hostAsk'[p].pc = "probe" => ~row.windows /\ row.login \in accepts[row.ip]
                 /\ row.login = hostAsk'[p].row.login \/ row.login \in accepts[row.ip]
      <4>1. hostAsk[p].kind = "verify" /\ hostAsk[p].host = hostAsk'[p].host /\ hostAsk[p].row = hostAsk'[p].row
            /\ hostAsk[p].host \in HostRows
        BY <1>1, <2>3, <2>10, <3>1 DEF HostsInv, Asking
      <4>2. CASE hostAsk[p].host # h
        <5>1. hostRow'[hostAsk[p].host] = hostRow[hostAsk[p].host] /\ IsLive(hostRow, hostAsk[p].host)
              /\ (p = r => hostAsk'[p].host = h) /\ (p # r => hostAsk'[p] = hostAsk[p])
          BY <2>3, <2>9, <2>10, <3>1, <4>1, <4>2 DEF IsLive
        <5>2. LET row == hostRow[hostAsk[p].host].row IN
              /\ row.ip = hostAsk[p].row.ip /\ row.windows = hostAsk[p].row.windows
              /\ hostAsk[p].pc = "probe" => ~row.windows /\ row.login \in accepts[row.ip]
              /\ row.login = hostAsk[p].row.login \/ row.login \in accepts[row.ip]
          BY <3>1, <4>1, <5>1 DEF HostsInv, Probed
        <5> QED BY <4>1, <4>2, <5>1, <5>2
      <4>3. CASE hostAsk[p].host = h
        <5>1. /\ hostRow[h].row.ip = hostAsk[p].row.ip /\ hostRow[h].row.windows = hostAsk[p].row.windows
              /\ hostRow[h].row.ip = m.row.ip /\ hostRow[h].row.windows = m.row.windows
          BY <1>1, <1>4, <3>1, <4>1, <4>3 DEF HostsInv, Probed
        <5> QED BY <1>1, <2>7, <2>9, <4>1, <4>3, <5>1
      <4> QED BY <4>2, <4>3
    <3> QED BY <1>1, <2>1, <3>1 DEF Probed, IsLive
  <2>15. VerdictOfLogin'
    <3>1. ASSUME NEW g \in HostRows, IsLive(hostRow', g), g \notin touched, ~Probing(g)',
                 hostRow'[g].row.verified, ~hostRow'[g].row.windows
          PROVE  hostRow'[g].row.login \in accepts[hostRow'[g].row.ip]
      <4>1. g # h
        BY <2>3, <2>10, <3>1 DEF Probing
      <4>2. ~Probing(g) /\ hostRow'[g] = hostRow[g]
        BY <1>1, <2>9, <2>10, <3>1, <4>1 DEF Probing
      <4> QED BY <3>1, <4>2 DEF HostsInv, VerdictOfLogin, LiveHosts, IsLive
    <3> QED BY <1>1, <2>1, <3>1 DEF VerdictOfLogin, LiveHosts, IsLive
  <2>16. ASSUME ~hostsRaced, \A p \in HostAsks : p # r => hostAsk[p].pc \in {"new", "done"}
         PROVE  ~handmade => \A g \in HostRows : IsLive(hostRow', g) =>
                  (hostRow'[g].row.verified <=> hostRow'[g].row.status = "verified")
    <3>1. ASSUME ~handmade, NEW g \in HostRows, IsLive(hostRow, g)
          PROVE  hostRow[g].row.verified <=> hostRow[g].row.status = "verified"
      BY <1>1, <2>16, <3>1, AllAgree
    <3> QED BY <1>4, <2>7, <2>9, <3>1 DEF IsLive
  <2>17. HostsRestored'
    BY <2>12, NothingRestored
  <2> QED BY <1>1, <2>1, <2>3, <2>11, <2>12, <2>13, <2>14, <2>15, <2>16, <2>17, RowsStored
<1> QED BY <1>3, <1>4
----------------------------------------------------------------------------
(* What an import stores. *)

\* Induction on the natural numbers, for a set instead of a predicate.
LEMMA Induction ==
  ASSUME NEW S \in SUBSET Nat, 0 \in S, \A n \in S : n + 1 \in S
  PROVE  S = Nat
<1> SUFFICES ASSUME S # Nat PROVE FALSE
  OBVIOUS
<1>1. IsWellFoundedOn(OpToRel(<, Nat), Nat)
  BY NatLessThanWellFounded
<1>2. Nat \ S \subseteq Nat /\ Nat \ S # {}
  OBVIOUS
<1>3. \E n \in Nat \ S : \A m \in Nat \ S : ~ (<<m, n>> \in OpToRel(<, Nat))
  BY <1>1, <1>2, WFMin, Zenon
<1>4. PICK n \in Nat \ S : \A m \in Nat \ S : ~ (<<m, n>> \in OpToRel(<, Nat))
  BY <1>3
<1>5. \A m \in Nat \ S : ~ (m < n)
  BY <1>4 DEF OpToRel
<1>6. n # 0 /\ n - 1 \in Nat /\ n - 1 < n
  BY <1>2
<1>7. n - 1 \in S /\ (n - 1) + 1 = n
  BY <1>5, <1>6
<1> QED BY <1>7

\* The recursive function of Stored exists: its values up to n are a function of their own.
StoredUpTo(items, byHand, n, f) ==
    f = [i \in 0..n |-> IF i = 0 THEN hostRow
                        ELSE IF i \in DOMAIN items THEN Put(f[i - 1], items[i], byHand) ELSE f[i - 1]]

LEMMA StoredExists ==
  ASSUME NEW items, NEW byHand, NEW n \in Nat
  PROVE  \E f : StoredUpTo(items, byHand, n, f)
<1> DEFINE D == {m \in Nat : \E f : StoredUpTo(items, byHand, m, f)}
<1>1. 0 \in D
  <2> DEFINE f == [i \in 0..0 |-> hostRow]
  <2>1. StoredUpTo(items, byHand, 0, f)
    BY DEF StoredUpTo
  <2> QED BY <2>1
<1>2. ASSUME NEW m \in D PROVE m + 1 \in D
  <2>1. m \in Nat
    OBVIOUS
  <2>2. PICK f : StoredUpTo(items, byHand, m, f)
    OBVIOUS
  <2> DEFINE last == IF m + 1 \in DOMAIN items THEN Put(f[m], items[m + 1], byHand) ELSE f[m]
             g == [i \in 0..(m + 1) |-> IF i <= m THEN f[i] ELSE last]
  <2>3. \A i \in 0..m : f[i] = IF i = 0 THEN hostRow
                               ELSE IF i \in DOMAIN items THEN Put(f[i - 1], items[i], byHand) ELSE f[i - 1]
    BY <2>2 DEF StoredUpTo
  <2>4. \A i \in 0..m : g[i] = f[i]
    BY <2>1
  <2>5. g[m + 1] = last
    BY <2>1
  <2>6. ASSUME NEW i \in 0..(m + 1)
        PROVE  g[i] = IF i = 0 THEN hostRow
                      ELSE IF i \in DOMAIN items THEN Put(g[i - 1], items[i], byHand) ELSE g[i - 1]
    <3>1. CASE i = m + 1
      <4>1. i # 0 /\ i - 1 = m /\ m \in 0..m
        BY <3>1, <2>1
      <4>2. g[i - 1] = f[m]
        BY <4>1, <2>4
      <4> HIDE DEF g
      <4> QED BY <4>1, <4>2, <3>1, <2>5
    <3>2. CASE i = 0
      <4>1. 0 \in 0..m
        BY <2>1
      <4> QED BY <4>1, <3>2, <2>3, <2>4
    <3>3. CASE i # m + 1 /\ i # 0
      <4>1. i \in 0..m /\ i - 1 \in 0..m
        BY <3>3, <2>1
      <4>2. g[i] = f[i] /\ g[i - 1] = f[i - 1]
        BY <4>1, <2>4
      <4> HIDE DEF g
      <4> QED BY <4>1, <4>2, <3>3, <2>3
    <3> QED BY <3>1, <3>2, <3>3
  <2>7. g = [i \in 0..(m + 1) |-> IF i = 0 THEN hostRow
               ELSE IF i \in DOMAIN items THEN Put(g[i - 1], items[i], byHand) ELSE g[i - 1]]
    <3> DEFINE h == [i \in 0..(m + 1) |-> IF i = 0 THEN hostRow
               ELSE IF i \in DOMAIN items THEN Put(g[i - 1], items[i], byHand) ELSE g[i - 1]]
    <3>1. \A i \in 0..(m + 1) : g[i] = h[i]
      BY <2>6
    <3>2. DOMAIN g = 0..(m + 1) /\ DOMAIN h = 0..(m + 1)
      OBVIOUS
    <3>3. g = [i \in 0..(m + 1) |-> g[i]] /\ h = [i \in 0..(m + 1) |-> h[i]]
      OBVIOUS
    <3> QED BY <3>1, <3>2, <3>3
  <2>8. StoredUpTo(items, byHand, m + 1, g)
    BY <2>7 DEF StoredUpTo
  <2> QED BY <2>1, <2>8
<1>3. D = Nat
  <2> HIDE DEF D
  <2>1. D \in SUBSET Nat
    BY DEF D
  <2> QED BY <1>1, <1>2, <2>1, Induction
<1> QED BY <1>3

\* So its equations may be used.
LEMMA StoredEquations ==
  ASSUME NEW items, NEW byHand
  PROVE  LET f == Stored(items, byHand) IN
         /\ f[0] = hostRow
         /\ \A i \in 1..LastHostRow :
              f[i] = IF i \in DOMAIN items THEN Put(f[i - 1], items[i], byHand) ELSE f[i - 1]
<1> DEFINE f == CHOOSE u : StoredUpTo(items, byHand, LastHostRow, u)
<1>1. StoredUpTo(items, byHand, LastHostRow, f)
  BY StoredExists, HostsAssumption
<1>2. Stored(items, byHand) = f
  BY DEF Stored, StoredUpTo
<1> HIDE DEF f
<1>3. f[0] = hostRow
  BY <1>1, HostsAssumption DEF StoredUpTo
<1>4. ASSUME NEW i \in 1..LastHostRow
      PROVE  f[i] = IF i \in DOMAIN items THEN Put(f[i - 1], items[i], byHand) ELSE f[i - 1]
  <2>1. i \in 0..LastHostRow /\ i # 0
    BY HostsAssumption
  <2> QED BY <2>1, <1>1 DEF StoredUpTo
<1> QED BY <1>2, <1>3, <1>4

\* One item changes one row, that of its host if there is one.
LEMMA PutIs ==
  ASSUME NEW rows \in [HostRows -> HostRow], NEW item \in Item, NEW byHand \in BOOLEAN,
         Matches(rows, item) # {} \/ HasRoom(rows)
  PROVE  \E h \in HostRows, k \in Item :
           /\ Put(rows, item, byHand) = [rows EXCEPT ![h] = LiveRow(k)]
           /\ ~byHand => k = item
           /\ IsLive(rows, h) => rows[h].row.name = item.name /\ rows[h].row.at = item.at
<1> DEFINE found == Matches(rows, item)
           h == IF found = {} THEN FreeRow(rows) ELSE CHOOSE g \in found : TRUE
           former == IF found = {} THEN "unverified" ELSE rows[h].row.status
           k == IF byHand THEN [item EXCEPT !.status = former] ELSE item
<1>1. Put(rows, item, byHand) = [rows EXCEPT ![h] = LiveRow(k)]
  BY DEF Put
<1>2. CASE found = {}
  <2>1. h \in HostRows /\ rows[h].is = "free" /\ former = "unverified"
    BY <1>2, FreeRowIs
  <2>2. k \in Item
    BY <2>1 DEF Item
  <2>3. ~IsLive(rows, h)
    BY <2>1 DEF IsLive
  <2> HIDE DEF h, former
  <2> QED BY <1>1, <2>1, <2>2, <2>3
<1>3. CASE found # {}
  <2>1. h \in found
    BY <1>3
  <2>2. /\ h \in HostRows /\ IsLive(rows, h) /\ rows[h].row.name = item.name /\ rows[h].row.at = item.at
    BY <2>1 DEF Matches
  <2>3. former \in {"unverified", "verified", "failed"}
    <3>1. rows[h].row \in Item
      BY <2>2, LiveHas
    <3> QED BY <1>3, <3>1 DEF Item
  <2> HIDE DEF h, former
  <2>4. k \in Item
    BY <2>3 DEF Item
  <2> QED BY <1>1, <2>2, <2>4
<1> QED BY <1>2, <1>3

\* All of them: a row is as it was or holds what was imported, and unless two items
\* are of one host every item is there.
LEMMA StoredIs ==
  ASSUME HostsInv, NEW byHand \in BOOLEAN, Room(hostFile.hosts, byHand)
  PROVE  LET items == hostFile.hosts
             rows == Stored(items, byHand)[LastHostRow] IN
         /\ rows \in [HostRows -> HostRow]
         /\ ~byHand => \A h \in HostRows : rows[h] = hostRow[h] \/ \E i \in DOMAIN items : rows[h] = LiveRow(items[i])
         /\ ~byHand /\ (\A i, j \in DOMAIN items : items[i].name = items[j].name /\ items[i].at = items[j].at
                           => items[i] = items[j])
              => \A i \in DOMAIN items : items[i] \in ItemsOf(rows)
<1> DEFINE items == hostFile.hosts
           f == Stored(items, byHand)
           Told == \A i, j \in DOMAIN items : items[i].name = items[j].name /\ items[i].at = items[j].at
                                                => items[i] = items[j]
           Good(n) ==
             /\ f[n] \in [HostRows -> HostRow]
             /\ ~byHand => \A h \in HostRows : f[n][h] = hostRow[h] \/ \E i \in DOMAIN items : f[n][h] = LiveRow(items[i])
             /\ ~byHand /\ Told => \A j \in DOMAIN items : j <= n => items[j] \in ItemsOf(f[n])
           D == {n \in Nat : n <= LastHostRow => Good(n)}
<1>1. /\ f[0] = hostRow
      /\ \A i \in 1..LastHostRow :
           f[i] = IF i \in DOMAIN items THEN Put(f[i - 1], items[i], byHand) ELSE f[i - 1]
  BY StoredEquations
<1>2. /\ DOMAIN items \subseteq HostRows /\ hostRow \in [HostRows -> HostRow]
      /\ \A i \in DOMAIN items : items[i] \in Item /\ i >= 1
      /\ \A i \in DOMAIN items : Matches(f[i - 1], items[i]) # {} \/ HasRoom(f[i - 1])
  BY HostTypes DEF Room, HostRows
<1> HIDE DEF f, items
<1>3. 0 \in D
  <2>1. \A j \in DOMAIN items : ~(j <= 0)
    BY <1>2 DEF HostRows
  <2>2. Good(0)
    BY <1>1, <1>2, <2>1
  <2> QED BY <2>2
<1>4. ASSUME NEW n \in D PROVE n + 1 \in D
  <2>1. SUFFICES ASSUME n + 1 <= LastHostRow PROVE Good(n + 1)
    OBVIOUS
  <2>2. n \in Nat /\ n + 1 \in 1..LastHostRow /\ (n + 1) - 1 = n /\ n <= LastHostRow /\ Good(n)
    BY <2>1, HostsAssumption
  <2>3. CASE n + 1 \notin DOMAIN items
    <3>1. f[n + 1] = f[n]
      BY <1>1, <2>2, <2>3
    <3>2. \A j \in DOMAIN items : j <= n + 1 => j <= n
      BY <1>2, <2>2, <2>3 DEF HostRows
    <3> QED BY <2>2, <3>1, <3>2
  <2>4. CASE n + 1 \in DOMAIN items
    <3>1. PICK h \in HostRows, k \in Item :
            /\ Put(f[n], items[n + 1], byHand) = [f[n] EXCEPT ![h] = LiveRow(k)]
            /\ ~byHand => k = items[n + 1]
            /\ IsLive(f[n], h) => f[n][h].row.name = items[n + 1].name /\ f[n][h].row.at = items[n + 1].at
      <4>1. Matches(f[n], items[n + 1]) # {} \/ HasRoom(f[n])
        BY <1>2, <2>2, <2>4
      <4>2. f[n] \in [HostRows -> HostRow] /\ items[n + 1] \in Item
        BY <1>2, <2>2, <2>4
      <4> DEFINE rows == f[n]
                 item == items[n + 1]
      <4>3. rows \in [HostRows -> HostRow] /\ item \in Item /\ (Matches(rows, item) # {} \/ HasRoom(rows))
        BY <4>1, <4>2
      <4> HIDE DEF rows, item, D
      <4>4. \E g \in HostRows, l \in Item :
              /\ Put(rows, item, byHand) = [rows EXCEPT ![g] = LiveRow(l)]
              /\ ~byHand => l = item
              /\ IsLive(rows, g) => rows[g].row.name = item.name /\ rows[g].row.at = item.at
        BY <4>3, PutIs
      <4> QED BY <4>4 DEF rows, item
    <3>2. f[n + 1] = [f[n] EXCEPT ![h] = LiveRow(k)]
      BY <1>1, <2>2, <2>4, <3>1
    <3>3. /\ f[n + 1] \in [HostRows -> HostRow] /\ f[n + 1][h] = LiveRow(k)
          /\ LiveRow(k).is = "live" /\ LiveRow(k).row = k
          /\ \A g \in HostRows : g # h => f[n + 1][g] = f[n][g]
      BY <2>2, <3>2, LiveRowIs
    <3>4. ~byHand => \A g \in HostRows : f[n + 1][g] = hostRow[g] \/ \E i \in DOMAIN items : f[n + 1][g] = LiveRow(items[i])
      BY <2>2, <2>4, <3>1, <3>3
    <3>5. ASSUME ~byHand, Told, NEW j \in DOMAIN items, j <= n + 1
          PROVE  items[j] \in ItemsOf(f[n + 1])
      <4>1. \A g \in HostRows : IsLive(f[n + 1], g) => f[n + 1][g].row \in ItemsOf(f[n + 1])
        BY DEF ItemsOf
      <4>2. items[n + 1] \in ItemsOf(f[n + 1])
        BY <3>1, <3>3, <3>5, <4>1 DEF IsLive
      <4>3. CASE j <= n
        <5>1. PICK g \in HostRows : IsLive(f[n], g) /\ f[n][g].row = items[j]
          BY <2>2, <3>5, <4>3 DEF ItemsOf
        <5>2. CASE g # h
          BY <3>3, <4>1, <5>1, <5>2 DEF IsLive
        <5>3. CASE g = h
          <6>1. items[j] = items[n + 1]
            BY <2>4, <3>1, <3>5, <5>1, <5>3
          <6> QED BY <4>2, <6>1
        <5> QED BY <5>2, <5>3
      <4>4. CASE ~(j <= n)
        <5>1. j = n + 1
          BY <1>2, <2>2, <3>5, <4>4 DEF HostRows
        <5> QED BY <4>2, <5>1
      <4> QED BY <4>3, <4>4
    <3> QED BY <3>3, <3>4, <3>5
  <2> QED BY <2>3, <2>4
<1>5. D = Nat
  <2> HIDE DEF D
  <2>1. D \in SUBSET Nat
    BY DEF D
  <2> QED BY <1>3, <1>4, <2>1, Induction
<1>6. Good(LastHostRow)
  <2>1. LastHostRow \in D
    BY <1>5, HostsAssumption
  <2> QED BY <2>1, HostsAssumption
<1>7. \A i \in DOMAIN items : i <= LastHostRow
  BY <1>2 DEF HostRows
<1> QED BY <1>6, <1>7 DEF f, items

\* An import that was refused changes nothing.
LEMMA RefusedKeeps ==
  ASSUME HostsInv, NEW r \in HostAsks, HostComes(r), hostAsk' = [hostAsk EXCEPT ![r] = [NotHost EXCEPT !.pc = "done"]],
         UNCHANGED <<hostRow, credential, accepts, hostFile, touched, hostsRaced, handmade, restored>>
  PROVE  HostsInv'
<1>1. PICK q \in AskRow : q = [NotHost EXCEPT !.pc = "done"]
  BY HostEndIs
<1>2. q.pc = "done" /\ q.kind = "none" /\ hostAsk' = [hostAsk EXCEPT ![r] = q]
  BY <1>1, HostEndIs
<1>3. hostAsk[r].pc = "new" /\ hostAsk[r].kind # "verify"
  BY Comes
<1>4. Asking' /\ hostAsk' \in [HostAsks -> AskRow]
  BY <1>2, AskingStays
<1>5. HostsTypeOK'
  BY <1>4, HostTypes DEF HostsTypeOK
<1>6. Probed' /\ VerdictOfLogin'
  <2>1. \A g \in HostRows \ touched' : IsLive(hostRow', g) => g \notin touched /\ IsLive(hostRow, g) /\ hostRow'[g] = hostRow[g]
    BY DEF IsLive
  <2> QED BY <1>2, <1>3, <1>5, <2>1, UntouchedStays
<1>7. /\ \A p \in HostAsks : p # r => hostAsk'[p] = hostAsk[p]
      /\ hostAsk'[r] = q
  BY <1>2, HostTypes
<1>8. InStep'
  BY <1>2, <1>7 DEF HostsInv, InStep, IsLive, LiveRow
<1>9. FileAgrees' /\ HostsRestored'
  BY DEF HostsInv, FileAgrees, HostsRestored, ItemsOf, IsLive
<1>10. StatusAgrees'
  BY <1>2, <1>3, <1>7 DEF HostsInv, StatusAgrees, LiveHosts, IsLive
<1> QED BY <1>4, <1>5, <1>6, <1>8, <1>9, <1>10 DEF HostsInv

LEMMA ImportHostsKeeps ==
  ASSUME HostsInv, NEW r \in HostAsks, ImportHosts(r)
  PROVE  HostsInv'
<1> DEFINE items == hostFile.hosts
<1>1. HostComes(r) /\ hostAsk' = [hostAsk EXCEPT ![r] = [NotHost EXCEPT !.pc = "done"]]
  BY DEF ImportHosts, HostEnds, HostGoes
<1>2. CASE \E i \in DOMAIN items : Ambiguous(items[i])
  <2>1. UNCHANGED <<hostRow, credential, accepts, hostFile, touched, hostsRaced, handmade, restored>>
    BY <1>2 DEF ImportHosts
  <2> QED BY <1>1, <2>1, RefusedKeeps
<1>3. CASE ~\E i \in DOMAIN items : Ambiguous(items[i])
  <2>1. PICK byHand \in BOOLEAN :
            /\ Room(items, byHand)
            /\ hostRow' = Stored(items, byHand)[LastHostRow]
            /\ credential' = IF hostFile.lent = "none" THEN credential ELSE hostFile.lent
            /\ handmade' = (handmade \/ byHand)
            /\ touched' = touched \cup {h \in HostRows : hostRow'[h] # hostRow[h]}
            /\ hostsRaced' = (hostsRaced \/ OnTheirWay(r) # {})
            /\ restored' = IF byHand THEN {} ELSE {items[i] : i \in DOMAIN items}
            /\ UNCHANGED <<accepts, hostFile>>
    BY <1>3, Zenon DEF ImportHosts
  <2>2. /\ hostRow' \in [HostRows -> HostRow]
        /\ ~byHand => \A h \in HostRows : hostRow'[h] = hostRow[h] \/ \E i \in DOMAIN items : hostRow'[h] = LiveRow(items[i])
        /\ ~byHand /\ (\A i, j \in DOMAIN items : items[i].name = items[j].name /\ items[i].at = items[j].at
                           => items[i] = items[j])
              => \A i \in DOMAIN items : items[i] \in ItemsOf(hostRow')
    <3>1. Room(hostFile.hosts, byHand)
      BY <2>1
    <3> QED BY <2>1, <3>1, StoredIs
  <2>3. PICK q \in AskRow : q = [NotHost EXCEPT !.pc = "done"]
    BY HostEndIs
  <2>4. q.pc = "done" /\ q.kind = "none" /\ hostAsk' = [hostAsk EXCEPT ![r] = q]
    BY <1>1, <2>3, HostEndIs
  <2>5. hostAsk[r].pc = "new" /\ hostAsk[r].kind # "verify"
    BY <1>1, Comes
  <2>6. Asking' /\ hostAsk' \in [HostAsks -> AskRow]
    BY <2>4, AskingStays
  <2>7. handmade' \in BOOLEAN /\ (handmade => handmade') /\ (~handmade' => ~handmade /\ ~byHand)
    <3>1. (handmade \/ byHand) = TRUE \/ (handmade \/ byHand) = FALSE
      OBVIOUS
    <3> QED BY <2>1, <3>1, Zenon
  <2>8. restored' \subseteq Item /\ touched' \subseteq HostRows /\ touched \subseteq touched'
        /\ credential' \in HostUsers \cup {NoUser, "none"}
    BY <2>1, HostTypes
  <2>9. HostsTypeOK'
    <3>1. hostsRaced' \in BOOLEAN
      BY <2>1, StoresAlone
    <3> QED BY <2>1, <2>2, <2>6, <2>7, <2>8, <3>1, HostTypes DEF HostsTypeOK
  <2>10. Probed' /\ VerdictOfLogin'
    <3>1. \A g \in HostRows \ touched' : IsLive(hostRow', g) => g \notin touched /\ IsLive(hostRow, g) /\ hostRow'[g] = hostRow[g]
      BY <2>1 DEF IsLive
    <3> QED BY <2>1, <2>4, <2>5, <2>9, <3>1, UntouchedStays
  <2>11. HostsRestored'
    <3>1. CASE byHand
      <4>1. restored' = {}
        BY <2>1, <3>1
      <4> QED BY <4>1, NothingRestored
    <3>2. CASE ~byHand
      <4>1. restored' = {items[i] : i \in DOMAIN items}
        BY <2>1, <3>2
      <4>2. ItemsOf(hostRow)' = ItemsOf(hostRow')
        BY DEF ItemsOf, IsLive
      <4>3. ASSUME \A s, t \in restored' : s.name = t.name /\ s.at = t.at => s = t
            PROVE  restored' \subseteq ItemsOf(hostRow')
        <5>1. \A i, j \in DOMAIN items : items[i].name = items[j].name /\ items[i].at = items[j].at
                => items[i] = items[j]
          BY <4>1, <4>3
        <5> QED BY <2>2, <3>2, <4>1, <5>1
      <4> QED BY <4>2, <4>3 DEF HostsRestored
    <3> QED BY <3>1, <3>2
  <2>12. ASSUME ~hostsRaced, \A p \in HostAsks : p # r => hostAsk[p].pc \in {"new", "done"}, ~handmade',
                NEW h \in HostRows, IsLive(hostRow', h)
         PROVE  hostRow'[h].row.verified <=> hostRow'[h].row.status = "verified"
    <3>1. ~handmade /\ ~byHand
      BY <2>7, <2>12
    <3>2. CASE hostRow'[h] = hostRow[h]
      <4>1. IsLive(hostRow, h)
        BY <2>12, <3>2 DEF IsLive
      <4> QED BY <2>5, <2>12, <3>1, <3>2, <4>1, AllAgree
    <3>3. CASE \E i \in DOMAIN items : hostRow'[h] = LiveRow(items[i])
      <4>1. PICK i \in DOMAIN items : hostRow'[h] = LiveRow(items[i])
        BY <3>3
      <4>2. items[i] \in Agreed
        BY <2>12, <3>1 DEF HostsInv, FileAgrees
      <4> QED BY <4>1, <4>2 DEF Agreed, LiveRow
    <3> QED BY <2>2, <3>1, <3>2, <3>3
  <2> HIDE DEF items
  <2> QED BY <2>1, <2>4, <2>6, <2>7, <2>9, <2>10, <2>11, <2>12, RowsStored
<1> QED BY <1>2, <1>3
----------------------------------------------------------------------------
(* The whole. *)

LEMMA HostsStart == ASSUME HostsInit PROVE HostsInv
<1>1. /\ hostRow \in [HostRows -> {Absent} \cup {LiveRow(item) : item \in Agreed}]
      /\ credential \in HostUsers \cup {NoUser, "none"} /\ accepts \in [Addresses -> SUBSET HostUsers]
      /\ hostFile = [hosts |-> [h \in {} |-> Absent], lent |-> "none"]
      /\ hostAsk = [r \in HostAsks |-> NotHost]
      /\ touched = {h \in HostRows : IsLive(hostRow, h)}
      /\ hostsRaced = FALSE /\ handmade = FALSE /\ restored = {}
  BY DEF HostsInit
<1>2. \A item \in Agreed : item \in Item /\ LiveRow(item) \in HostRow /\ LiveRow(item).row = item
  BY LiveRowIs DEF Agreed
<1>3. hostRow \in [HostRows -> HostRow] /\ \A h \in HostRows : IsLive(hostRow, h) => hostRow[h].row \in Agreed
  <2>1. \A h \in HostRows : hostRow[h] = Absent \/ \E item \in Agreed : hostRow[h] = LiveRow(item)
    BY <1>1
  <2>2. ~(Absent.is = "live") /\ Absent \in HostRow
    BY DEF Absent, HostRow
  <2>3. \A h \in HostRows : hostRow[h] \in HostRow
    BY <1>2, <2>1, <2>2
  <2>4. \A h \in HostRows : IsLive(hostRow, h) => hostRow[h].row \in Agreed
    BY <1>2, <2>1, <2>2 DEF IsLive
  <2> QED BY <1>1, <2>3, <2>4
<1>4. /\ NotHost \in AskRow /\ NotHost.pc = "new" /\ NotHost.kind = "none"
      /\ \A r \in HostAsks : hostAsk[r] = NotHost
  BY <1>1 DEF NotHost, AskRow
<1>5. DOMAIN hostFile.hosts = {} /\ hostFile.lent = "none"
  BY <1>1
<1>6. HostsTypeOK
  BY <1>1, <1>3, <1>4, <1>5 DEF HostsTypeOK
<1>7. Asking /\ InStep /\ FileAgrees /\ Probed /\ HostsRestored
  BY <1>1, <1>4, <1>5 DEF Asking, InStep, FileAgrees, Probed, HostsRestored
<1>8. StatusAgrees /\ VerdictOfLogin
  <2>1. StatusAgrees
    BY <1>3 DEF StatusAgrees, LiveHosts, Agreed
  <2>2. LiveHosts \ touched = {}
    BY <1>1 DEF LiveHosts
  <2> QED BY <2>1, <2>2 DEF VerdictOfLogin
<1> QED BY <1>6, <1>7, <1>8 DEF HostsInv

LEMMA HostsStutter == ASSUME HostsInv, UNCHANGED hostVars PROVE HostsInv'
<1>1. UNCHANGED <<hostRow, credential, accepts, hostFile, hostAsk, touched, hostsRaced, handmade, restored>>
  BY DEF hostVars
<1>2. LiveHosts' = LiveHosts /\ \A h : IsLive(hostRow, h)' <=> IsLive(hostRow, h)
  BY <1>1 DEF LiveHosts, IsLive
<1>3. HostsTypeOK' /\ Asking'
  BY <1>1 DEF HostsInv, HostsTypeOK, Asking
<1>4. InStep' /\ FileAgrees'
  BY <1>1, <1>2 DEF HostsInv, InStep, FileAgrees, IsLive
<1>5. Probed' /\ StatusAgrees'
  BY <1>1, <1>2 DEF HostsInv, Probed, StatusAgrees, IsLive
<1>6. VerdictOfLogin'
  <2>1. \A h : Probing(h)' <=> Probing(h)
    BY <1>1 DEF Probing
  <2> QED BY <1>1, <1>2, <2>1 DEF HostsInv, VerdictOfLogin
<1>7. HostsRestored'
  BY <1>1 DEF HostsInv, HostsRestored, ItemsOf, IsLive
<1> QED BY <1>3, <1>4, <1>5, <1>6, <1>7 DEF HostsInv

LEMMA HostsStep == ASSUME HostsInv, [HostsNext]_hostVars PROVE HostsInv'
<1>1. CASE Export
  BY <1>1, ExportKeeps
<1>2. ASSUME NEW r \in HostAsks,
             \/ CreateHost(r) \/ ReadForEdit(r) \/ StoreEdit(r) \/ SyncStatus(r) \/ DropHost(r)
             \/ ReadForProbe(r) \/ ConnectOwn(r) \/ ConnectLent(r) \/ ProbeFails(r) \/ ProbeSucceeds(r)
             \/ EditCredential(r) \/ ImportHosts(r) \/ ImportTable(r)
      PROVE  HostsInv'
  BY <1>2, CreateHostKeeps, ReadForEditKeeps, StoreEditKeeps, SyncStatusKeeps, DropHostKeeps, ReadForProbeKeeps,
     ConnectOwnKeeps, ConnectLentKeeps, VerdictKeeps, EditCredentialKeeps, ImportHostsKeeps, ImportTableKeeps
<1>3. CASE UNCHANGED hostVars
  BY <1>3, HostsStutter
<1> QED BY <1>1, <1>2, <1>3 DEF HostsNext

LEMMA HostsHeld == HostsSpec => []HostsInv
<1>1. HostsInit => HostsInv
  BY HostsStart
<1>2. HostsInv /\ [HostsNext]_hostVars => HostsInv'
  BY HostsStep
<1> QED BY <1>1, <1>2, PTL DEF HostsSpec

\* Rows of hosts, a file of them and requests on them keep their types.
THEOREM HostTypesCorrect == HostsSpec => []HostsTypeOK
<1>1. HostsInv => HostsTypeOK
  BY DEF HostsInv
<1> QED BY <1>1, HostsHeld, PTL

\* For any hosts, logins and requests: unless requests overlapped or a file was written by
\* hand, the flag and the status of a host agree once its requests have ended
\* (sync_verify_status, managed_host_verify, import_host_management_payload).
THEOREM StatusesAgree == HostsSpec => []StatusAgrees
<1>1. HostsInv => StatusAgrees
  BY DEF HostsInv
<1> QED BY <1>1, HostsHeld, PTL

\* A verified host that nobody stored since its probe began has a login its machine
\* accepts, whoever lent it and whatever else was stored meanwhile (open_ssh_client).
THEOREM VerdictsOfLogins == HostsSpec => []VerdictOfLogin
<1>1. HostsInv => VerdictOfLogin
  BY DEF HostsInv
<1> QED BY <1>1, HostsHeld, PTL

\* An import brings back all the hosts of a file, whatever rows, holes and names there
\* are, but for hosts of one name in one group (import_host_management_payload).
THEOREM HostsComeBack == HostsSpec => []HostsRestored
<1>1. HostsInv => HostsRestored
  BY DEF HostsInv
<1> QED BY <1>1, HostsHeld, PTL
----------------------------------------------------------------------------
(* The tree of groups: HostGroups. *)

\* What a request holds at each of its places.
AskPlaces == \A r \in GroupAsks : LET q == grpAsk[r] IN
    /\ q.kind = "none" <=> q.pc \in {"new", "done"}
    /\ q.pc \in {"read", "renumber"} => q.kind = "move"
    /\ q.kind \in {"rename", "move", "delete"} => q.group \in GroupIds
    /\ q.kind = "move" => q.target # q.group /\ q.read[q.group] # Unread
    /\ q.pc # "renumber" => \A g \in GroupIds \ {q.group} : q.read[g] = Unread

\* Unless moves overlapped: no group is below itself, nor will be by a move that has looked;
\* the siblings a move has read are still below its parent.
MovesRise == {"move"} \notin grpRaced => \A r \in GroupAsks : LET q == grpAsk[r] IN q.kind = "move" =>
    /\ grp[q.group].is # "free"
    /\ q.pc = "store" => q.group \notin Above(q.parent) /\ q.parent \notin FreeGroups
    /\ q.pc # "store" => (q.group \in LiveGroups => grp[q.group].parent = q.parent)
    /\ q.pc = "renumber" => \A g \in Siblings(q) : g \notin FreeGroups /\ (g \in LiveGroups => grp[g].parent = q.parent)

\* While nothing was stored beside a request: siblings have names of their own, and what a
\* request has seen is still so.
SiblingsNamed == grpRaced = {} => \A g \in LiveGroups : NameFree(g, grp[g].parent, grp[g].name)
AsSeen == grpRaced = {} => \A r \in GroupAsks : LET q == grpAsk[r] IN
    /\ q.kind = "new" => NameFree(0, q.parent, q.name)
    /\ q.kind = "rename" => q.group \in LiveGroups /\ NameFree(q.group, grp[q.group].parent, q.name)
    /\ q.kind = "house" => LiveGroups = {}
    /\ q.kind = "move" =>
        /\ q.group \in LiveGroups /\ q.read[q.group] = grp[q.group].order
        /\ q.target # 0 => q.target \in Branch(q.parent)
        /\ q.pc = "store" => NameFree(q.group, q.parent, q.name)
        /\ q.pc # "store" => grp[q.group].parent = q.parent
        /\ q.pc = "renumber" =>
             /\ Siblings(q) = Branch(q.parent) \ {q.group}
             /\ \A g \in Siblings(q) : q.read[g] = grp[g].order

GroupsInv == GroupsTypeOK /\ AskPlaces /\ GroupsShown /\ MovesRise /\ SiblingsNamed /\ AsSeen /\ MovedAsAsked
----------------------------------------------------------------------------




----------------------------------------------------------------------------
(* What is above a group. *)

LEMMA GroupTypes ==
  ASSUME GroupsTypeOK
  PROVE  /\ grp \in [GroupIds -> GroupRows] /\ grpAsk \in [GroupAsks -> GroupAskRow]
         /\ housed \subseteq LiveGroups
         /\ \A g \in LiveGroups : grp[g].parent \in LiveTops
         /\ moved \in [group : GroupIds \cup {0}, target : GroupIds \cup {0}, after : BOOLEAN]
         /\ \A g \in GroupIds : /\ grp[g].is \in {"free", "live", "deleted"} /\ grp[g].name \in GroupNames
                                /\ grp[g].parent \in Tops /\ grp[g].order \in Nat
         /\ \A r \in GroupAsks : grpAsk[r] \in GroupAskRow
BY DEF GroupsTypeOK, GroupRows

LEMMA TopApart == TreeTop \notin GroupIds /\ LiveTops \subseteq Tops /\ TreeTop \notin LiveGroups /\ TreeTop \notin FreeGroups
BY GroupsAssumption DEF GroupIds, LiveTops, LiveGroups, FreeGroups, Tops

LEMMA ClimbsIs == \A S \in SUBSET Tops : Climbs(S) <=> \A g \in S \cap LiveGroups : grp[g].parent \in S
BY GroupsAssumption DEF Climbs, LiveGroups, Tops, GroupIds
LEMMA ClimbsNext == (\A S \in SUBSET Tops : Climbs(S) <=> \A g \in S \cap LiveGroups : grp[g].parent \in S)'
BY ClimbsIs, PTL

LEMMA AboveSelf == ASSUME NEW h \in Tops PROVE h \in Above(h)
BY DEF Above

LEMMA AboveLeast ==
  ASSUME NEW h, NEW S \in SUBSET Tops, h \in S, Climbs(S)
  PROVE  Above(h) \subseteq S
BY DEF Above

LEMMA AboveGrows ==
  ASSUME NEW CONSTANT h, NEW CONSTANT S \in SUBSET Tops, h \in S, Climbs(S)'
  PROVE  Above(h)' \subseteq S
BY DEF Above

LEMMA AboveClimbs ==
  ASSUME GroupsTypeOK, NEW h
  PROVE  Climbs(Above(h)) /\ Above(h) \subseteq Tops
<1>1. ASSUME NEW g \in Above(h) \cap LiveGroups
      PROVE  grp[g].parent \in Above(h)
  <2>1. grp[g].parent \in Tops
    BY GroupTypes, TopApart
  <2>2. ASSUME NEW S \in SUBSET Tops, h \in S, Climbs(S)
        PROVE  grp[g].parent \in S
    <3>1. g \in S
      BY <1>1, <2>2 DEF Above
    <3> QED BY <1>1, <2>2, <3>1, ClimbsIs
  <2> QED BY <2>1, <2>2 DEF Above
<1> QED BY <1>1, ClimbsIs DEF Above

LEMMA AboveTransitive ==
  ASSUME GroupsTypeOK, NEW h, NEW x \in Above(h)
  PROVE  Above(x) \subseteq Above(h)
BY AboveClimbs, AboveLeast

LEMMA AboveLive ==
  ASSUME GroupsTypeOK, NEW h \in LiveGroups
  PROVE  Above(h) = {h} \cup Above(grp[h].parent)
<1>1. h \in Tops /\ grp[h].parent \in Tops
  BY GroupTypes, TopApart DEF LiveTops
<1>2. h \in Above(h) /\ grp[h].parent \in Above(h) /\ grp[h].parent \in Above(grp[h].parent)
  BY <1>1, AboveSelf, AboveClimbs, ClimbsIs
<1>3. Above(grp[h].parent) \subseteq Above(h)
  BY <1>2, AboveTransitive
<1>4. Climbs({h} \cup Above(grp[h].parent)) /\ {h} \cup Above(grp[h].parent) \subseteq Tops
  BY <1>1, <1>2, AboveClimbs DEF Climbs
<1>5. Above(h) \subseteq {h} \cup Above(grp[h].parent)
  BY <1>4, AboveLeast
<1> QED BY <1>2, <1>3, <1>5

LEMMA AboveTaken ==
  ASSUME GroupsTypeOK, NEW h \in Tops, h \notin FreeGroups
  PROVE  Above(h) \cap FreeGroups = {}
<1>1. Climbs(Tops \ FreeGroups)
  BY GroupTypes, TopApart, ClimbsIs DEF LiveTops, LiveGroups, FreeGroups
<1>2. Above(h) \subseteq Tops \ FreeGroups
  BY <1>1, AboveLeast
<1> QED BY <1>2

\* A group is below itself if it is above its parent.
LEMMA LoopedIs ==
  ASSUME GroupsTypeOK, NEW g \in LiveGroups
  PROVE  Looped(g) <=> g \in Above(grp[g].parent)
<1>1. grp[g].parent \in LiveTops
  BY GroupTypes
<1>2. CASE grp[g].parent = TreeTop
  <2>1. Climbs({TreeTop}) /\ {TreeTop} \subseteq Tops
    BY TopApart DEF Climbs, Tops
  <2>2. Above(TreeTop) \subseteq {TreeTop}
    BY <2>1, AboveLeast
  <2> QED BY <1>2, <2>2, TopApart DEF Looped, Beneath
<1>3. CASE grp[g].parent \in LiveGroups
  BY <1>3 DEF Looped, Beneath
<1> QED BY <1>1, <1>2, <1>3 DEF LiveTops
LEMMA LoopedAll == GroupsTypeOK => \A g \in LiveGroups : Looped(g) <=> g \in Above(grp[g].parent)
BY LoopedIs

LEMMA LoopedNext == GroupsTypeOK' => (\A g \in LiveGroups : Looped(g) <=> g \in Above(grp[g].parent))'
BY LoopedAll, PTL

LEMMA LoopedNow ==
  ASSUME GroupsTypeOK', \A g \in LiveGroups' : g \notin Above(grp[g].parent)'
  PROVE  \A g \in LiveGroups' : ~Looped(g)'
BY LoopedNext
----------------------------------------------------------------------------
(* What a step leaves. *)

LEMMA GroupParts ==
  ASSUME GroupsInv
  PROVE  /\ GroupsTypeOK /\ AskPlaces /\ GroupsShown /\ MovesRise /\ SiblingsNamed /\ AsSeen /\ MovedAsAsked
BY DEF GroupsInv

\* Where nothing was stored, everything is as it was.
LEMMA SameTree ==
  ASSUME grp' = grp
  PROVE  /\ LiveGroups' = LiveGroups /\ LiveTops' = LiveTops /\ FreeGroups' = FreeGroups
         /\ \A p : Branch(p)' = Branch(p)
         /\ \A h : Above(h)' = Above(h)
         /\ \A g : Looped(g)' <=> Looped(g)
         /\ \A g, p, n : NameFree(g, p, n)' <=> NameFree(g, p, n)
<1>1. LiveGroups' = LiveGroups /\ LiveTops' = LiveTops /\ FreeGroups' = FreeGroups
  BY DEF LiveGroups, LiveTops, FreeGroups
<1>2. \A p : Branch(p)' = Branch(p)
  BY <1>1 DEF Branch
<1>3. \A S : Climbs(S)' <=> Climbs(S)
  BY <1>1 DEF Climbs
<1>4. \A h : Above(h)' = Above(h)
  BY <1>3 DEF Above
<1>5. \A g : Looped(g)' <=> Looped(g)
  BY <1>1, <1>4 DEF Looped, Beneath
<1>6. \A g, p, n : NameFree(g, p, n)' <=> NameFree(g, p, n)
  BY <1>2 DEF NameFree, Names
<1> QED BY <1>1, <1>2, <1>4, <1>5, <1>6

LEMMA SameMoved ==
  ASSUME MovedAsAsked, grp' = grp, grpRaced' = grpRaced, moved' = moved
  PROVE  MovedAsAsked'
<1>1. \A p : Branch(p)' = Branch(p)
  BY SameTree
<1> QED BY <1>1 DEF MovedAsAsked, Precedes

\* A request that goes on, for it alone.
LEMMA GoesOn ==
  ASSUME GroupsInv, NEW r \in GroupAsks, NEW q \in GroupAskRow, grpAsk' = [grpAsk EXCEPT ![r] = q]
  PROVE  /\ grpAsk' \in [GroupAsks -> GroupAskRow] /\ grpAsk'[r] = q
         /\ \A p \in GroupAsks : p # r => grpAsk'[p] = grpAsk[p]
BY GroupParts, GroupTypes

\* Who stores while others are on their way tells the race.
LEMMA GroupStoresAlone ==
  ASSUME GroupsInv, NEW r \in GroupAsks, NEW kind, GroupStored(r, kind)
  PROVE  /\ grpRaced \subseteq grpRaced'
         /\ grpRaced' = {} => grpRaced = {} /\ \A p \in GroupAsks : p # r => grpAsk[p].pc \in {"new", "done"}
         /\ kind = "move" /\ {"move"} \notin grpRaced' => \A p \in GroupAsks : p # r => grpAsk[p].kind # "move"
<1> DEFINE others == {p \in GroupAsks \ {r} : grpAsk[p].pc \notin {"new", "done"}}
           pairs == {{kind, grpAsk[p].kind} : p \in others}
<1>1. grpRaced' = grpRaced \cup pairs
  BY DEF GroupStored
<1>2. ASSUME grpRaced' = {} PROVE grpRaced = {} /\ \A p \in GroupAsks : p # r => grpAsk[p].pc \in {"new", "done"}
  <2>1. \A p \in others : {kind, grpAsk[p].kind} \in pairs
    OBVIOUS
  <2>2. grpRaced = {} /\ pairs = {}
    BY <1>1, <1>2
  <2> QED BY <2>1, <2>2
<1>3. ASSUME kind = "move", {"move"} \notin grpRaced', NEW p \in GroupAsks, p # r, grpAsk[p].kind = "move"
      PROVE  FALSE
  <2>1. p \in others
    BY <1>3, GroupParts DEF AskPlaces
  <2>2. {kind, grpAsk[p].kind} \in pairs
    BY <2>1
  <2>3. {"move", "move"} = {"move"}
    OBVIOUS
  <2> QED BY <1>1, <1>3, <2>2, <2>3
<1> QED BY <1>1, <1>2, <1>3

\* A request is over.
LEMMA GroupEndIs ==
  /\ [GroupIdle EXCEPT !.pc = "done"] \in GroupAskRow /\ [GroupIdle EXCEPT !.pc = "done"].pc = "done"
  /\ [GroupIdle EXCEPT !.pc = "done"].kind = "none"
  /\ \A g \in GroupIds : [GroupIdle EXCEPT !.pc = "done"].read[g] = Unread
BY GroupsAssumption DEF GroupIdle, GroupAskRow, Tops

\* Groups come without anything below them, or go: what was above a group is above it.
LEMMA LeavesClimb ==
  ASSUME GroupsTypeOK, NEW h \in Tops, h \notin FreeGroups,
         \A g \in LiveGroups' \ FreeGroups : g \in LiveGroups /\ grp'[g].parent = grp[g].parent
  PROVE  Above(h)' \subseteq Above(h)
<1>1. PICK S \in SUBSET Tops : S = Above(h)
  BY AboveClimbs
<1>2. h \in S /\ S \cap FreeGroups = {} /\ Climbs(S)
  BY <1>1, AboveSelf, AboveClimbs, AboveTaken
<1>3. ASSUME NEW g \in S, g \in LiveGroups' PROVE grp'[g].parent \in S
  <2>1. g \in LiveGroups /\ grp'[g].parent = grp[g].parent
    BY <1>2, <1>3
  <2> QED BY <1>2, <2>1, ClimbsIs
<1>4. Climbs(S)'
  BY <1>3, ClimbsNext
<1>5. Above(h)' \subseteq S
  BY <1>2, <1>4, AboveGrows
<1> QED BY <1>1, <1>5

\* Groups come, below what is there or below one that comes at the root, or go; none moves.
Grows ==
    /\ FreeGroups' \subseteq FreeGroups
    /\ \A g \in LiveGroups' \ FreeGroups : g \in LiveGroups /\ grp'[g].parent = grp[g].parent
    /\ \A g \in LiveGroups' \cap FreeGroups :
         grp'[g].parent \notin FreeGroups \/ (grp'[g].parent # g /\ grp'[grp'[g].parent].parent = TreeTop)

LEMMA GrowsShown ==
  ASSUME GroupsInv, GroupsTypeOK', Grows, {"move"} \notin grpRaced
  PROVE  \A g \in LiveGroups' : ~Looped(g)'
<1>1. ASSUME NEW g \in LiveGroups', NEW p, p = grp'[g].parent PROVE g \notin Above(p)'
  <2>1. g \in GroupIds /\ grp'[g].parent \in LiveTops' /\ p \in Tops
    BY <1>1, TopApart DEF GroupsTypeOK, LiveGroups, LiveTops, Tops
  <2>2. CASE g \notin FreeGroups
    <3>1. g \in LiveGroups /\ p = grp[g].parent /\ p \in LiveTops
      BY <1>1, <2>2, GroupParts, GroupTypes DEF Grows
    <3>2. p \notin FreeGroups
      BY <3>1, TopApart DEF LiveTops, LiveGroups, FreeGroups
    <3>3. g \notin Above(p)
      BY <3>1, GroupParts, LoopedIs DEF GroupsShown
    <3>4. Above(p)' \subseteq Above(p)
      BY <2>1, <3>2, GroupParts, LeavesClimb DEF Grows
    <3> QED BY <3>3, <3>4
  <2>3. CASE g \in FreeGroups /\ p \notin FreeGroups
    <3>1. Above(p)' \subseteq Above(p)
      BY <2>1, <2>3, GroupParts, LeavesClimb DEF Grows
    <3>2. Above(p) \cap FreeGroups = {}
      BY <2>1, <2>3, GroupParts, AboveTaken
    <3> QED BY <2>3, <3>1, <3>2
  <2>4. CASE g \in FreeGroups /\ p \in FreeGroups
    <3>1. p # g /\ grp'[p].parent = TreeTop
      BY <1>1, <2>4 DEF Grows
    <3>2. {p, TreeTop} \subseteq Tops /\ TreeTop \notin LiveGroups'
      BY <2>1, GroupsAssumption DEF Tops, LiveGroups, GroupIds
    <3>3. Climbs({p, TreeTop})'
      BY <3>1, <3>2 DEF Climbs
    <3>4. Above(p)' \subseteq {p, TreeTop}
      BY <3>2, <3>3, AboveGrows
    <3>5. g # TreeTop
      BY <2>1, TopApart
    <3> QED BY <3>1, <3>4, <3>5
  <2> QED BY <2>2, <2>3, <2>4
<1>2. \A g \in LiveGroups' : g \notin Above(grp[g].parent)'
  BY <1>1 DEF Above
<1> QED BY <1>2, LoopedNow

\* What MovesRise says of one request.
Rises(q) == q.kind = "move" =>
    /\ grp[q.group].is # "free"
    /\ q.pc = "store" => q.group \notin Above(q.parent) /\ q.parent \notin FreeGroups
    /\ q.pc # "store" => (q.group \in LiveGroups => grp[q.group].parent = q.parent)
    /\ q.pc = "renumber" => \A g \in Siblings(q) : g \notin FreeGroups /\ (g \in LiveGroups => grp[g].parent = q.parent)

LEMMA GrowsRises ==
  ASSUME GroupsInv, GroupsTypeOK', Grows, NEW q \in GroupAskRow, q.kind = "move", q.group \in GroupIds, Rises(q)
  PROVE  Rises(q)'
<1>1. \A g \in GroupIds : g \notin FreeGroups => g \notin FreeGroups' /\ (g \in LiveGroups' => g \in LiveGroups /\ grp'[g].parent = grp[g].parent)
  BY DEF Grows, LiveGroups
<1>2. q.group \notin FreeGroups /\ q.group \notin FreeGroups' /\ grp'[q.group].is # "free"
  BY <1>1 DEF Rises, FreeGroups
<1>3. q.parent \in GroupIds \/ q.parent = TreeTop
  BY DEF GroupAskRow, Tops
<1>4. ASSUME q.pc = "store" PROVE q.group \notin Above(q.parent)' /\ q.parent \notin FreeGroups'
  <2>1. q.group \notin Above(q.parent) /\ q.parent \notin FreeGroups /\ q.parent \in Tops
    BY <1>3, <1>4 DEF Rises, Tops
  <2>2. Above(q.parent)' \subseteq Above(q.parent)
    BY <2>1, GroupParts, LeavesClimb DEF Grows
  <2> QED BY <2>1, <2>2 DEF Grows
<1>5. ASSUME q.pc # "store", q.group \in LiveGroups' PROVE grp'[q.group].parent = q.parent
  BY <1>1, <1>2, <1>5 DEF Rises
<1>6. ASSUME q.pc = "renumber", NEW g \in Siblings(q)
      PROVE  g \notin FreeGroups' /\ (g \in LiveGroups' => grp'[g].parent = q.parent)
  <2>1. g \in GroupIds /\ g \notin FreeGroups /\ (g \in LiveGroups => grp[g].parent = q.parent)
    BY <1>6 DEF Rises, Siblings
  <2> QED BY <1>1, <2>1
<1> QED BY <1>2, <1>4, <1>5, <1>6 DEF Rises

LEMMA MovesRiseIs == MovesRise <=> ({"move"} \notin grpRaced => \A r \in GroupAsks : Rises(grpAsk[r]))
BY DEF MovesRise, Rises

\* A request that grows the tree, or lets some of it go, and is over.
LEMMA GrowsEnds ==
  ASSUME GroupsInv, NEW r \in GroupAsks, NEW kind, GroupStored(r, kind), Unmoved, GroupEnds(r),
         GroupsTypeOK', Grows, SiblingsNamed'
  PROVE  GroupsInv'
<1>1. PICK end \in GroupAskRow : end = [GroupIdle EXCEPT !.pc = "done"]
  BY GroupEndIs
<1>2. grpAsk' = [grpAsk EXCEPT ![r] = end] /\ end.pc = "done" /\ end.kind = "none" /\ \A g \in GroupIds : end.read[g] = Unread
  BY <1>1, GroupEndIs DEF GroupEnds, GroupGoes
<1>3. /\ grpAsk'[r] = end /\ \A p \in GroupAsks : p # r => grpAsk'[p] = grpAsk[p]
      /\ \A p \in GroupAsks : grpAsk[p] \in GroupAskRow
  BY <1>2, GoesOn, GroupParts, GroupTypes
<1>4. /\ grpRaced \subseteq grpRaced'
      /\ grpRaced' = {} => grpRaced = {} /\ \A p \in GroupAsks : p # r => grpAsk[p].pc \in {"new", "done"}
  BY GroupStoresAlone
<1>5. AskPlaces'
  <2> SUFFICES ASSUME NEW p \in GroupAsks
      PROVE LET q == grpAsk'[p] IN
            /\ q.kind = "none" <=> q.pc \in {"new", "done"}
            /\ q.pc \in {"read", "renumber"} => q.kind = "move"
            /\ q.kind \in {"rename", "move", "delete"} => q.group \in GroupIds
            /\ q.kind = "move" => q.target # q.group /\ q.read[q.group] # Unread
            /\ q.pc # "renumber" => \A g \in GroupIds \ {q.group} : q.read[g] = Unread
    BY DEF AskPlaces
  <2>1. CASE p = r
    BY <2>1, <1>2, <1>3
  <2>2. CASE p # r
    BY <2>2, <1>3, GroupParts DEF AskPlaces
  <2> QED BY <2>1, <2>2
<1>6. GroupsShown'
  <2> SUFFICES ASSUME {"move"} \notin grpRaced' PROVE \A g \in LiveGroups' : ~Looped(g)'
    BY DEF GroupsShown
  <2> QED BY <1>4, GrowsShown
<1>7. MovesRise'
  <2>1. ASSUME {"move"} \notin grpRaced', NEW p \in GroupAsks PROVE Rises(grpAsk[p])'
    <3>1. PICK q \in GroupAskRow : q = grpAsk'[p]
      BY <1>2, <1>3
    <3>2. CASE p = r
      BY <3>2, <1>2, <1>3 DEF Rises
    <3>3. CASE p # r /\ q.kind = "move"
      <4>1. q = grpAsk[p] /\ {"move"} \notin grpRaced
        BY <3>1, <3>3, <1>3, <1>4, <2>1
      <4>2. Rises(grpAsk[p])
        BY <4>1, GroupParts, MovesRiseIs
      <4>3. q.group \in GroupIds /\ Rises(q)
        BY <4>1, <4>2, <3>3, GroupParts DEF AskPlaces
      <4>4. Rises(q)'
        BY <4>3, <3>3, GrowsRises
      <4> QED BY <4>4, <3>1
    <3>4. CASE q.kind # "move"
      BY <3>1, <3>4 DEF Rises
    <3> QED BY <3>2, <3>3, <3>4
  <2> QED BY <2>1 DEF MovesRise, Rises
<1>8. AsSeen'
  <2> SUFFICES ASSUME grpRaced' = {}, NEW p \in GroupAsks PROVE grpAsk'[p].kind = "none"
    BY DEF AsSeen
  <2> QED BY <1>2, <1>3, <1>4, GroupParts DEF AskPlaces
<1>9. MovedAsAsked'
  BY DEF MovedAsAsked, Unmoved, NotMoved
<1> QED BY <1>5, <1>6, <1>7, <1>8, <1>9 DEF GroupsInv
----------------------------------------------------------------------------
(* A new group. *)

LEMMA FirstOf ==
  ASSUME NEW S \in SUBSET GroupIds, S # {}
  PROVE  (CHOOSE g \in S : \A h \in S : g <= h) \in S
<1>1. S \subseteq Nat /\ S \subseteq Int
  BY GroupsAssumption DEF GroupIds
<1>2. \E g \in S : \A h \in S : ~(h < g)
  BY <1>1, LeastOf
<1>3. \E g \in S : \A h \in S : g <= h
  BY <1>1, <1>2
<1> QED BY <1>3, Zenon

\* Among finitely many numbers one is the greatest.
LEMMA Greatest ==
  ASSUME NEW n \in Nat, n # 0, NEW f \in [1..n -> Nat]
  PROVE  \E i \in 1..n : \A j \in 1..n : f[j] <= f[i]
<1> DEFINE S == {k \in Nat : k + 1 <= n => \E i \in 1..k + 1 : \A j \in 1..k + 1 : f[j] <= f[i]}
<1>1. 0 \in S
  OBVIOUS
<1>2. ASSUME NEW k \in S PROVE k + 1 \in S
  <2> SUFFICES ASSUME k + 2 <= n PROVE \E i \in 1..k + 2 : \A j \in 1..k + 2 : f[j] <= f[i]
    OBVIOUS
  <2>1. PICK i \in 1..k + 1 : \A j \in 1..k + 1 : f[j] <= f[i]
    OBVIOUS
  <2>2. k + 2 \in 1..n /\ i \in 1..n /\ f[i] \in Nat /\ f[k + 2] \in Nat
    BY <2>1
  <2>3. \A j \in 1..k + 2 : j \in 1..k + 1 \/ j = k + 2
    OBVIOUS
  <2>4. \A j \in 1..k + 1 : f[j] \in Nat
    BY <2>2
  <2>5. CASE f[i] <= f[k + 2]
    <3>1. \A j \in 1..k + 2 : f[j] <= f[k + 2]
      BY <2>1, <2>2, <2>3, <2>4, <2>5
    <3> QED BY <3>1
  <2>6. CASE f[k + 2] <= f[i]
    <3>1. \A j \in 1..k + 2 : f[j] <= f[i]
      BY <2>1, <2>2, <2>3, <2>4, <2>6
    <3> QED BY <2>1, <3>1
  <2> QED BY <2>2, <2>5, <2>6
<1>3. S = Nat
  <2> HIDE DEF S
  <2> QED BY <1>1, <1>2, Induction DEF S
<1>4. n - 1 \in Nat /\ (n - 1) + 1 = n
  OBVIOUS
<1> HIDE DEF S
<1>5. n - 1 \in S
  BY <1>3, <1>4
<1> QED BY <1>4, <1>5 DEF S

LEMMA NextOrderIs ==
  ASSUME GroupsTypeOK, NEW p, NEW place, NEW target
  PROVE  NextOrder(p, place, target) \in Nat
<1>1. OrdersOf(p) \subseteq Nat /\ \A g \in Branch(p) : grp[g].order \in Nat
  BY GroupTypes DEF OrdersOf, Branch, LiveGroups
<1>2. ASSUME Branch(p) # {} PROVE LeastOrder(OrdersOf(p)) \in Nat /\ MostOrder(OrdersOf(p)) \in Nat
  <2>1. PICK b \in Branch(p) : TRUE
    BY <1>2
  <2>2. OrdersOf(p) # {} /\ b \in 1..LastGroup /\ LastGroup \in Nat /\ LastGroup # 0
    <3>1. b \in 1..LastGroup
      BY <2>1 DEF Branch, LiveGroups, GroupIds
    <3>2. grp[b].order \in OrdersOf(p)
      BY <2>1 DEF OrdersOf
    <3> QED BY <3>1, <3>2, GroupsAssumption
  <2>3. \E n \in OrdersOf(p) : \A m \in OrdersOf(p) : ~(m < n)
    BY <1>1, <2>2, LeastOf
  <2>4. \E n \in OrdersOf(p) : \A m \in OrdersOf(p) : n <= m
    BY <1>1, <2>3
  <2>5. LeastOrder(OrdersOf(p)) \in OrdersOf(p)
    BY <2>4, Zenon DEF LeastOrder
  <2> DEFINE f == [g \in 1..LastGroup |-> IF g \in Branch(p) THEN grp[g].order ELSE 0]
  <2>6. f \in [1..LastGroup -> Nat]
    BY <1>1
  <2>7. PICK i \in 1..LastGroup : \A j \in 1..LastGroup : f[j] <= f[i]
    BY <2>2, <2>6, Greatest
  <2>8. \A g \in Branch(p) : g \in 1..LastGroup /\ f[g] = grp[g].order
    BY DEF Branch, LiveGroups, GroupIds
  <2>9. \E n \in OrdersOf(p) : \A m \in OrdersOf(p) : m <= n
    <3>1. CASE i \in Branch(p)
      <4>1. grp[i].order \in OrdersOf(p) /\ \A m \in OrdersOf(p) : m <= grp[i].order
        BY <2>7, <2>8, <3>1 DEF OrdersOf
      <4> QED BY <4>1
    <3>2. CASE i \notin Branch(p)
      <4>1. \A m \in OrdersOf(p) : m <= 0
        BY <2>7, <2>8, <3>2 DEF OrdersOf
      <4>2. grp[b].order \in OrdersOf(p) /\ \A m \in OrdersOf(p) : m <= grp[b].order
        BY <1>1, <2>1, <4>1 DEF OrdersOf
      <4> QED BY <4>2
    <3> QED BY <3>1, <3>2
  <2>10. MostOrder(OrdersOf(p)) \in OrdersOf(p)
    BY <2>9, Zenon DEF MostOrder
  <2> QED BY <1>1, <2>5, <2>10
<1>3. CASE place = "first"
  BY <1>2, <1>3 DEF NextOrder
<1>4. CASE place # "first" /\ target \in Branch(p)
  BY <1>1, <1>4 DEF NextOrder
<1>5. CASE place # "first" /\ target \notin Branch(p)
  BY <1>2, <1>5 DEF NextOrder
<1> QED BY <1>3, <1>4, <1>5

\* Siblings have names of their own.
Apart == \A g, h \in LiveGroups : g # h /\ grp[g].parent = grp[h].parent => grp[g].name # grp[h].name

LEMMA ApartIs == Apart <=> \A g \in LiveGroups : NameFree(g, grp[g].parent, grp[g].name)
<1>1. ASSUME Apart, NEW g \in LiveGroups PROVE NameFree(g, grp[g].parent, grp[g].name)
  BY <1>1 DEF Apart, NameFree, Names, Branch
<1>2. ASSUME \A g \in LiveGroups : NameFree(g, grp[g].parent, grp[g].name), NEW g \in LiveGroups, NEW h \in LiveGroups,
             g # h, grp[g].parent = grp[h].parent, grp[g].name = grp[h].name
      PROVE  FALSE
  <2>1. h \in Branch(grp[g].parent) \ {g}
    BY <1>2 DEF Branch
  <2>2. grp[h].name \in Names(Branch(grp[g].parent) \ {g})
    BY <2>1 DEF Names
  <2> QED BY <1>2, <2>2 DEF NameFree
<1> QED BY <1>1, <1>2 DEF Apart

LEMMA SiblingsNamedIs == SiblingsNamed <=> (grpRaced = {} => Apart)
BY ApartIs DEF SiblingsNamed
LEMMA SiblingsNamedNext == (SiblingsNamed <=> (grpRaced = {} => Apart))'
BY SiblingsNamedIs, PTL

LEMMA OneComes ==
  ASSUME GroupsInv, NEW g0 \in FreeGroups, NEW n \in GroupNames, NEW p \in LiveTops, NEW o \in Nat,
         grp' = [grp EXCEPT ![g0] = GroupRow(n, p, o)]
  PROVE  /\ grp' \in [GroupIds -> GroupRows]
         /\ LiveGroups' = LiveGroups \cup {g0} /\ FreeGroups' = FreeGroups \ {g0}
         /\ \A g \in LiveGroups' : grp'[g].parent \in LiveTops'
         /\ Grows
         /\ Apart /\ NameFree(0, p, n) => Apart'
<1>1. /\ g0 \in GroupIds /\ g0 \notin LiveGroups /\ grp \in [GroupIds -> GroupRows] /\ p \in Tops /\ g0 # p
      /\ p \notin FreeGroups
  BY GroupParts, GroupTypes, TopApart DEF FreeGroups, LiveGroups, LiveTops
<1>2. PICK row \in GroupRows : row = GroupRow(n, p, o)
  BY <1>1 DEF GroupRow, GroupRows
<1>3. row.is = "live" /\ row.name = n /\ row.parent = p
  BY <1>2 DEF GroupRow
<1>4. grp' = [grp EXCEPT ![g0] = row]
  BY <1>2
<1>5. grp' \in [GroupIds -> GroupRows] /\ grp'[g0] = row /\ \A g \in GroupIds \ {g0} : grp'[g] = grp[g]
  BY <1>1, <1>4
<1>6. LiveGroups' = LiveGroups \cup {g0}
  BY <1>1, <1>3, <1>5 DEF LiveGroups
<1>7. FreeGroups' = FreeGroups \ {g0}
  BY <1>1, <1>3, <1>5 DEF FreeGroups
<1>8. \A g \in LiveGroups : g \in GroupIds \ {g0} /\ grp[g].parent \in LiveTops
  BY <1>1, GroupParts, GroupTypes DEF LiveGroups
<1>9. \A g \in LiveGroups' : grp'[g].parent \in LiveTops'
  BY <1>3, <1>5, <1>6, <1>8 DEF LiveTops
<1>10. Grows
  <2>1. ASSUME NEW g \in LiveGroups' \ FreeGroups PROVE g \in LiveGroups /\ grp'[g].parent = grp[g].parent
    <3>1. g \in LiveGroups
      BY <1>6, <2>1
    <3> QED BY <1>5, <1>8, <3>1
  <2>2. ASSUME NEW g \in LiveGroups' \cap FreeGroups PROVE grp'[g].parent \notin FreeGroups
    <3>1. g = g0
      BY <1>6, <2>2 DEF LiveGroups, FreeGroups
    <3> QED BY <1>1, <1>3, <1>5, <3>1
  <2> QED BY <1>7, <2>1, <2>2 DEF Grows
<1>11. ASSUME Apart, NameFree(0, p, n) PROVE Apart'
  <2>1. ASSUME NEW h \in LiveGroups, grp[h].parent = p PROVE grp[h].name # n
    <3>1. h \in Branch(p) \ {0}
      BY <2>1, GroupsAssumption DEF Branch, LiveGroups, GroupIds
    <3>2. grp[h].name \in Names(Branch(p) \ {0})
      BY <3>1 DEF Names
    <3> QED BY <1>11, <3>2 DEF NameFree
  <2> QED BY <1>3, <1>5, <1>6, <1>8, <1>11, <2>1 DEF Apart
<1> QED BY <1>5, <1>6, <1>7, <1>9, <1>10, <1>11

LEMMA TypesAfter ==
  ASSUME GroupsInv, NEW r \in GroupAsks, GroupEnds(r), Unmoved, grp' \in [GroupIds -> GroupRows],
         housed' \subseteq LiveGroups', \A g \in LiveGroups' : grp'[g].parent \in LiveTops'
  PROVE  GroupsTypeOK'
<1>1. PICK end \in GroupAskRow : end = [GroupIdle EXCEPT !.pc = "done"]
  BY GroupEndIs
<1>2. grpAsk' \in [GroupAsks -> GroupAskRow]
  BY <1>1, GoesOn DEF GroupEnds, GroupGoes
<1>3. moved' \in [group : GroupIds \cup {0}, target : GroupIds \cup {0}, after : BOOLEAN]
  BY DEF Unmoved, NotMoved
<1> QED BY <1>2, <1>3 DEF GroupsTypeOK

LEMMA FreshGroup == FreeGroups # {} => NewGroupId \in FreeGroups
BY FirstOf DEF NewGroupId, FreeGroups

LEMMA NewGroupStep ==
  ASSUME GroupsInv, NEW r \in GroupAsks, NewGroup(r)
  PROVE  GroupsInv'
<1>1. PICK q \in GroupAskRow : q = grpAsk[r]
  BY GroupParts, GroupTypes
<1>2. /\ q.kind = "new" /\ q.parent \in LiveTops /\ FreeGroups # {} /\ q.name \in GroupNames
      /\ grp' = [grp EXCEPT ![NewGroupId] = GroupRow(q.name, q.parent, NextOrder(q.parent, q.place, q.target))]
      /\ GroupStored(r, "new") /\ Unmoved /\ GroupEnds(r) /\ housed' = housed
  BY <1>1 DEF NewGroup, GroupAt, GroupAskRow
<1>3. PICK o \in Nat : o = NextOrder(q.parent, q.place, q.target)
  BY GroupParts, NextOrderIs
<1>4. PICK g0 \in FreeGroups : g0 = NewGroupId
  BY <1>2, FreshGroup
<1>5. grp' = [grp EXCEPT ![g0] = GroupRow(q.name, q.parent, o)]
  BY <1>2, <1>3, <1>4
<1>6. /\ grp' \in [GroupIds -> GroupRows] /\ LiveGroups' = LiveGroups \cup {g0}
      /\ \A g \in LiveGroups' : grp'[g].parent \in LiveTops'
      /\ Grows /\ (Apart /\ NameFree(0, q.parent, q.name) => Apart')
  <2>1. PICK p \in LiveTops, n \in GroupNames : p = q.parent /\ n = q.name
    BY <1>2
  <2>2. grp' = [grp EXCEPT ![g0] = GroupRow(n, p, o)]
    BY <1>5, <2>1
  <2>3. /\ grp' \in [GroupIds -> GroupRows] /\ LiveGroups' = LiveGroups \cup {g0}
        /\ \A g \in LiveGroups' : grp'[g].parent \in LiveTops'
        /\ Grows /\ (Apart /\ NameFree(0, p, n) => Apart')
    BY <2>2, OneComes
  <2> QED BY <2>1, <2>3
<1>7. GroupsTypeOK'
  BY <1>2, <1>6, GroupParts, GroupTypes, TypesAfter
<1>8. grpRaced' = {} => Apart'
  BY <1>1, <1>2, <1>6, GroupStoresAlone, GroupParts, SiblingsNamedIs DEF AsSeen
<1> QED BY <1>2, <1>6, <1>7, <1>8, SiblingsNamedNext, GrowsEnds

LEMMA MakeDefaultStep ==
  ASSUME GroupsInv, NEW r \in GroupAsks, MakeDefault(r)
  PROVE  GroupsInv'
<1>1. /\ grpAsk[r].kind = "house" /\ FreeGroups # {} /\ TreeTop \in LiveTops /\ DefaultName \in GroupNames
      /\ grp' = [grp EXCEPT ![NewGroupId] = GroupRow(DefaultName, TreeTop, NextOrder(TreeTop, "last", 0))]
      /\ GroupStored(r, "house") /\ Unmoved /\ GroupEnds(r) /\ housed' = housed \cup {NewGroupId}
  BY GroupsAssumption DEF MakeDefault, GroupAt, LiveTops
<1>2. PICK o \in Nat : o = NextOrder(TreeTop, "last", 0)
  BY GroupParts, NextOrderIs
<1>3. PICK g0 \in FreeGroups : g0 = NewGroupId
  BY <1>1, FreshGroup
<1>4. grp' = [grp EXCEPT ![g0] = GroupRow(DefaultName, TreeTop, o)]
  BY <1>1, <1>2, <1>3
<1>5. /\ grp' \in [GroupIds -> GroupRows] /\ LiveGroups' = LiveGroups \cup {g0}
      /\ \A g \in LiveGroups' : grp'[g].parent \in LiveTops'
      /\ Grows /\ (Apart /\ NameFree(0, TreeTop, DefaultName) => Apart')
  BY <1>1, <1>4, OneComes
<1>6. GroupsTypeOK'
  BY <1>1, <1>3, <1>5, GroupParts, GroupTypes, TypesAfter
<1>7. LiveGroups = {} => NameFree(0, TreeTop, DefaultName)
  BY DEF NameFree, Names, Branch
<1>8. grpRaced' = {} => Apart'
  BY <1>1, <1>5, <1>7, GroupStoresAlone, GroupParts, SiblingsNamedIs DEF AsSeen
<1> QED BY <1>1, <1>5, <1>6, <1>8, SiblingsNamedNext, GrowsEnds

LEMMA RenameGroupStep ==
  ASSUME GroupsInv, NEW r \in GroupAsks, RenameGroup(r)
  PROVE  GroupsInv'
<1>1. PICK q \in GroupAskRow : q = grpAsk[r]
  BY GroupParts, GroupTypes
<1>2. /\ q.kind = "rename" /\ q.group \in LiveGroups /\ q.name \in GroupNames
      /\ grp' = [grp EXCEPT ![q.group].name = q.name]
      /\ GroupStored(r, "rename") /\ Unmoved /\ GroupEnds(r) /\ housed' = housed
  BY <1>1 DEF RenameGroup, GroupAt, GroupAskRow
<1>3. grp \in [GroupIds -> GroupRows] /\ q.group \in GroupIds
  BY <1>2, GroupParts, GroupTypes DEF LiveGroups
<1>4. PICK row \in GroupRows : row = [grp[q.group] EXCEPT !.name = q.name]
  BY <1>2, <1>3 DEF GroupRows
<1>5. row.is = grp[q.group].is /\ row.parent = grp[q.group].parent /\ row.name = q.name
  BY <1>3, <1>4 DEF GroupRows
<1>6. grp' = [grp EXCEPT ![q.group] = row]
  BY <1>2, <1>4
<1>7. grp' \in [GroupIds -> GroupRows] /\ grp'[q.group] = row /\ \A g \in GroupIds \ {q.group} : grp'[g] = grp[g]
  BY <1>3, <1>6
<1>8. \A g \in GroupIds : grp'[g].is = grp[g].is /\ grp'[g].parent = grp[g].parent
  BY <1>5, <1>7
<1>9. LiveGroups' = LiveGroups /\ FreeGroups' = FreeGroups /\ LiveTops' = LiveTops
  BY <1>8 DEF LiveGroups, FreeGroups, LiveTops
<1>10. \A g \in LiveGroups : g \in GroupIds /\ g \notin FreeGroups /\ grp[g].parent \in LiveTops
  BY GroupParts, GroupTypes DEF LiveGroups, FreeGroups
<1>11. Grows
  BY <1>8, <1>9, <1>10 DEF Grows
<1>12. GroupsTypeOK'
  BY <1>2, <1>7, <1>8, <1>9, <1>10, GroupParts, GroupTypes, TypesAfter
<1>13. ASSUME grpRaced' = {} PROVE Apart'
  <2>1. Apart /\ NameFree(q.group, grp[q.group].parent, q.name)
    BY <1>1, <1>2, <1>13, GroupStoresAlone, GroupParts, SiblingsNamedIs DEF AsSeen
  <2>2. \A h \in LiveGroups \ {q.group} : grp[h].parent = grp[q.group].parent => grp[h].name # q.name
    BY <2>1 DEF NameFree, Names, Branch
  <2> QED BY <1>2, <1>5, <1>7, <1>8, <1>9, <1>10, <2>1, <2>2 DEF Apart
<1> QED BY <1>2, <1>11, <1>12, <1>13, SiblingsNamedNext, GrowsEnds

LEMMA DeleteGroupStep ==
  ASSUME GroupsInv, NEW r \in GroupAsks, DeleteGroup(r)
  PROVE  GroupsInv'
<1>1. PICK q \in GroupAskRow : q = grpAsk[r]
  BY GroupParts, GroupTypes
<1>2. PICK gone \in SUBSET GroupIds : gone = Beneath(q.group) \cap GroupIds
  OBVIOUS
<1>3. /\ Beneath(q.group) \cap housed = {} /\ housed' = housed
      /\ grp' = [g \in GroupIds |-> IF g \in Beneath(q.group) THEN [NoGroup EXCEPT !.is = "deleted"] ELSE grp[g]]
      /\ GroupStored(r, "delete") /\ Unmoved /\ GroupEnds(r)
  BY <1>1 DEF DeleteGroup
<1>4. PICK row \in GroupRows : row = [NoGroup EXCEPT !.is = "deleted"]
  BY GroupsAssumption DEF NoGroup, GroupRows, Tops
<1>5. row.is = "deleted"
  BY <1>4 DEF NoGroup
<1>6. grp' = [g \in GroupIds |-> IF g \in gone THEN row ELSE grp[g]]
  BY <1>2, <1>3, <1>4
<1>7. grp' \in [GroupIds -> GroupRows] /\ \A g \in GroupIds : grp'[g] = IF g \in gone THEN row ELSE grp[g]
  BY <1>6, GroupParts, GroupTypes
<1>8. LiveGroups' = LiveGroups \ gone
  BY <1>5, <1>7 DEF LiveGroups
<1>9. FreeGroups' = FreeGroups \ gone
  BY <1>5, <1>7 DEF FreeGroups
<1>10. ASSUME NEW g \in LiveGroups' PROVE g \in LiveGroups /\ g \in GroupIds /\ g \notin FreeGroups /\ grp'[g] = grp[g]
  <2>1. g \in LiveGroups /\ g \notin gone
    BY <1>8, <1>10
  <2> QED BY <1>7, <2>1 DEF LiveGroups, FreeGroups
<1>11. ASSUME NEW g \in LiveGroups' PROVE grp'[g].parent \in LiveTops'
  <2>1. g \in LiveGroups /\ g \notin Beneath(q.group) /\ grp'[g] = grp[g]
    BY <1>2, <1>8, <1>10, <1>11
  <2>2. grp[g].parent \in LiveTops /\ Above(g) = {g} \cup Above(grp[g].parent) /\ q.group \notin Above(g)
    BY <2>1, GroupParts, GroupTypes, AboveLive DEF Beneath
  <2>3. ASSUME grp[g].parent \in LiveGroups PROVE grp[g].parent \notin Beneath(q.group)
    <3>1. grp[g].parent \in Tops /\ grp[g].parent \in Above(grp[g].parent)
      BY <2>3, TopApart, AboveSelf DEF LiveTops
    <3> QED BY <2>2, <3>1 DEF Beneath
  <2> QED BY <1>2, <1>8, <2>1, <2>2, <2>3 DEF LiveTops
<1>12. Grows
  BY <1>9, <1>10 DEF Grows
<1>13. housed' \subseteq LiveGroups'
  BY <1>2, <1>3, <1>8, GroupParts, GroupTypes
<1>14. GroupsTypeOK'
  BY <1>3, <1>7, <1>11, <1>13, TypesAfter
<1>15. ASSUME grpRaced' = {} PROVE Apart'
  <2>1. Apart
    BY <1>3, <1>15, GroupStoresAlone, GroupParts, SiblingsNamedIs
  <2> QED BY <1>10, <2>1 DEF Apart
<1> QED BY <1>3, <1>12, <1>14, <1>15, SiblingsNamedNext, GrowsEnds
----------------------------------------------------------------------------
(* A path of a file. *)

\* What the groups of a path are: a first one, that is there or comes at the root, and a
\* second one, if one comes below the first.
Pathed(first, spare, v, w, one, two) ==
    /\ IF one THEN first \in FreeGroups /\ \A g \in LiveGroups : ~(grp[g].parent = TreeTop /\ grp[g].name = <<v>>)
       ELSE first \in LiveGroups
    /\ two => spare \in FreeGroups /\ spare # first
    /\ two /\ ~one => \A g \in LiveGroups : ~(grp[g].parent = first /\ grp[g].name = <<w>>)
    /\ grp' \in [GroupIds -> GroupRows]
    /\ \A g \in GroupIds :
         IF one /\ g = first THEN grp'[g].is = "live" /\ grp'[g].parent = TreeTop /\ grp'[g].name = <<v>>
         ELSE IF two /\ g = spare THEN grp'[g].is = "live" /\ grp'[g].parent = first /\ grp'[g].name = <<w>>
         ELSE grp'[g].is = grp[g].is /\ grp'[g].parent = grp[g].parent /\ grp'[g].name = grp[g].name

LEMMA ImportIs ==
  ASSUME GroupsInv, NEW r \in GroupAsks, ImportGroup(r)
  PROVE  /\ \E first, spare : \E v, w \in Words : \E one, two \in BOOLEAN :
              Pathed(first, spare, v, w, one, two)
         /\ GroupStored(r, "import") /\ Unmoved /\ GroupEnds(r) /\ housed' = housed
<1> DEFINE found(p, x) == {g \in Branch(p) : grp[g].name = <<x>>}
           one(v) == found(TreeTop, v)
           first(v) == IF one(v) = {} THEN NewGroupId ELSE CHOOSE g \in one(v) : TRUE
           two(v, w) == IF one(v) = {} THEN {} ELSE found(first(v), w)
           left(v) == FreeGroups \ {first(v)}
           spare(v) == CHOOSE g \in left(v) : \A h \in left(v) : g <= h
           made(v, w, deep) == [g \in GroupIds |->
               IF one(v) = {} /\ g = first(v) THEN GroupRow(<<v>>, TreeTop, NextOrder(TreeTop, "last", 0))
               ELSE IF deep /\ two(v, w) = {} /\ g = spare(v)
               THEN GroupRow(<<w>>, first(v), IF one(v) = {} THEN 10 ELSE NextOrder(first(v), "last", 0))
               ELSE grp[g]]
           last(v, w, deep) == IF ~deep THEN first(v) ELSE IF two(v, w) = {} THEN spare(v) ELSE CHOOSE g \in two(v, w) : TRUE
<1>1. /\ \E v, w \in Words, deep \in BOOLEAN :
           /\ Cardinality(one(v)) <= 1
           /\ (one(v) = {} => FreeGroups # {}) /\ (deep /\ two(v, w) = {} => left(v) # {})
           /\ \E o \in {made(v, w, deep)[last(v, w, deep)].order, 20} :
                grp' = [made(v, w, deep) EXCEPT ![last(v, w, deep)].order = o]
           /\ (grp' # grp) /\ GroupStored(r, "import")
      /\ Unmoved /\ GroupEnds(r) /\ housed' = housed
  BY Zenon DEF ImportGroup
<1>2. PICK v \in Words, w \in Words, deep \in BOOLEAN :
           /\ Cardinality(one(v)) <= 1
           /\ (one(v) = {} => FreeGroups # {}) /\ (deep /\ two(v, w) = {} => left(v) # {})
           /\ \E o \in {made(v, w, deep)[last(v, w, deep)].order, 20} :
                grp' = [made(v, w, deep) EXCEPT ![last(v, w, deep)].order = o]
           /\ (grp' # grp) /\ GroupStored(r, "import")
  BY <1>1
<1> HIDE DEF last
<1>3. PICK i : i = first(v)
  OBVIOUS
<1>4. PICK j : j = spare(v)
  OBVIOUS
<1>5. PICK k : k = last(v, w, deep)
  BY Zenon
<1>6. PICK fresh \in BOOLEAN, below \in BOOLEAN : fresh = (one(v) = {}) /\ below = (deep /\ two(v, w) = {})
  OBVIOUS
<1>7. FreeGroups \subseteq GroupIds /\ LiveGroups \subseteq GroupIds /\ LiveGroups \cap FreeGroups = {} /\ TreeTop \notin GroupIds
  BY TopApart DEF FreeGroups, LiveGroups
<1>8. fresh => i \in FreeGroups /\ one(v) = {}
  BY <1>2, <1>3, <1>6, FreshGroup
<1>9. ~fresh => i \in one(v)
  BY <1>3, <1>6
<1>10. i \in GroupIds /\ (~fresh => i \in LiveGroups)
  BY <1>7, <1>8, <1>9 DEF Branch
<1>11. below => j \in FreeGroups /\ j # i
  <2> SUFFICES ASSUME below PROVE j \in FreeGroups /\ j # i
    OBVIOUS
  <2>1. PICK S \in SUBSET GroupIds : S = left(v)
    BY <1>7
  <2>2. S # {} /\ S = FreeGroups \ {i} /\ j = CHOOSE g \in S : \A h \in S : g <= h
    BY <1>2, <1>3, <1>4, <1>6, <2>1
  <2> QED BY <2>2, FirstOf
<1>12. deep /\ ~below => k \in two(v, w)
  BY <1>5, <1>6 DEF last
<1>13. k \in GroupIds
  <2>1. CASE ~deep
    BY <2>1, <1>3, <1>5, <1>10 DEF last
  <2>2. CASE deep /\ below
    BY <2>2, <1>4, <1>5, <1>6, <1>7, <1>11 DEF last
  <2>3. CASE deep /\ ~below
    BY <2>3, <1>7, <1>12 DEF Branch
  <2> QED BY <2>1, <2>2, <2>3
<1>14. PICK n \in Nat, m \in Nat : /\ n = NextOrder(TreeTop, "last", 0)
                                  /\ m = IF fresh THEN 10 ELSE NextOrder(i, "last", 0)
  BY GroupParts, NextOrderIs
<1>15. PICK a \in GroupRows : a = GroupRow(<<v>>, TreeTop, n)
  BY <1>14, GroupsAssumption DEF GroupRow, GroupRows, Tops
<1>16. PICK b \in GroupRows : b = GroupRow(<<w>>, i, m)
  BY <1>10, <1>14, GroupsAssumption DEF GroupRow, GroupRows, Tops
<1>17. made(v, w, deep) = [g \in GroupIds |-> IF fresh /\ g = i THEN a ELSE IF below /\ g = j THEN b ELSE grp[g]]
  BY <1>3, <1>4, <1>6, <1>14, <1>15, <1>16
<1>18. PICK rows \in [GroupIds -> GroupRows] : rows = made(v, w, deep)
  BY <1>15, <1>16, <1>17, GroupParts, GroupTypes
<1>19. \A g \in GroupIds : rows[g] = IF fresh /\ g = i THEN a ELSE IF below /\ g = j THEN b ELSE grp[g]
  BY <1>17, <1>18
<1>20. PICK o \in Nat : grp' = [rows EXCEPT ![k].order = o]
  <2>1. rows[k].order \in Nat
    BY <1>13 DEF GroupRows
  <2>2. PICK o \in {rows[k].order, 20} : grp' = [rows EXCEPT ![k].order = o]
    <3> HIDE DEF made
    <3>1. PICK o \in {made(v, w, deep)[last(v, w, deep)].order, 20} :
            grp' = [made(v, w, deep) EXCEPT ![last(v, w, deep)].order = o]
      BY <1>2, Zenon
    <3> QED BY <3>1, <1>5, <1>18
  <2> QED BY <2>1, <2>2
<1>21. PICK c \in GroupRows : c = [rows[k] EXCEPT !.order = o]
  BY <1>13 DEF GroupRows
<1>22. c.is = rows[k].is /\ c.parent = rows[k].parent /\ c.name = rows[k].name
  BY <1>13, <1>21 DEF GroupRows
<1>23. grp' = [rows EXCEPT ![k] = c]
  BY <1>20, <1>21
<1>24. grp' \in [GroupIds -> GroupRows] /\ grp'[k] = c /\ \A g \in GroupIds \ {k} : grp'[g] = rows[g]
  BY <1>13, <1>23
<1>25. \A g \in GroupIds : grp'[g].is = rows[g].is /\ grp'[g].parent = rows[g].parent /\ grp'[g].name = rows[g].name
  BY <1>22, <1>24
<1>26. a.is = "live" /\ a.parent = TreeTop /\ a.name = <<v>> /\ b.is = "live" /\ b.parent = i /\ b.name = <<w>>
  BY <1>15, <1>16 DEF GroupRow
<1>27. fresh => \A g \in LiveGroups : ~(grp[g].parent = TreeTop /\ grp[g].name = <<v>>)
  BY <1>8 DEF Branch
<1>28. below /\ ~fresh => \A g \in LiveGroups : ~(grp[g].parent = i /\ grp[g].name = <<w>>)
  BY <1>3, <1>6 DEF Branch
<1>29. Pathed(i, j, v, w, fresh, below)
  <2>1. \A g \in GroupIds :
         IF fresh /\ g = i THEN grp'[g].is = "live" /\ grp'[g].parent = TreeTop /\ grp'[g].name = <<v>>
         ELSE IF below /\ g = j THEN grp'[g].is = "live" /\ grp'[g].parent = i /\ grp'[g].name = <<w>>
         ELSE grp'[g].is = grp[g].is /\ grp'[g].parent = grp[g].parent /\ grp'[g].name = grp[g].name
    BY <1>19, <1>25, <1>26
  <2> QED BY <2>1, <1>8, <1>10, <1>11, <1>24, <1>27, <1>28 DEF Pathed
<1>30. \E x, y : \E v1, w1 \in Words : \E one1, two1 \in BOOLEAN : Pathed(x, y, v1, w1, one1, two1)
  BY <1>29, Zenon
<1>31. GroupStored(r, "import")
  BY <1>2
<1>32. Unmoved /\ GroupEnds(r) /\ housed' = housed
  BY <1>1, Zenon
<1> HIDE DEF made, found, one, first, two, left, spare
<1> QED BY <1>30, <1>31, <1>32

LEMMA ImportGroupStep ==
  ASSUME GroupsInv, NEW r \in GroupAsks, ImportGroup(r)
  PROVE  GroupsInv'
<1>1. PICK first, spare : \E v, w \in Words : \E one, two \in BOOLEAN : Pathed(first, spare, v, w, one, two)
  BY ImportIs
<1>2. PICK v \in Words, w \in Words, one \in BOOLEAN, two \in BOOLEAN : Pathed(first, spare, v, w, one, two)
  BY <1>1
<1>3. GroupStored(r, "import") /\ Unmoved /\ GroupEnds(r) /\ housed' = housed
  BY ImportIs
<1>4. /\ FreeGroups \subseteq GroupIds /\ LiveGroups \subseteq GroupIds /\ LiveGroups \cap FreeGroups = {}
      /\ TreeTop \notin GroupIds /\ \A g \in LiveGroups : grp[g].parent \in LiveTops
  BY TopApart, GroupParts, GroupTypes DEF FreeGroups, LiveGroups
<1>5. /\ one => first \in FreeGroups /\ \A g \in LiveGroups : ~(grp[g].parent = TreeTop /\ grp[g].name = <<v>>)
      /\ ~one => first \in LiveGroups
      /\ two => spare \in FreeGroups /\ spare # first
      /\ two /\ ~one => \A g \in LiveGroups : ~(grp[g].parent = first /\ grp[g].name = <<w>>)
      /\ grp' \in [GroupIds -> GroupRows]
  BY <1>2 DEF Pathed
<1>6. \A g \in GroupIds :
        /\ one /\ g = first => grp'[g].is = "live" /\ grp'[g].parent = TreeTop /\ grp'[g].name = <<v>>
        /\ two /\ g = spare => grp'[g].is = "live" /\ grp'[g].parent = first /\ grp'[g].name = <<w>>
        /\ ~(one /\ g = first) /\ ~(two /\ g = spare) =>
             grp'[g].is = grp[g].is /\ grp'[g].parent = grp[g].parent /\ grp'[g].name = grp[g].name
  BY <1>2, <1>5 DEF Pathed
<1>7. first \in GroupIds /\ (two => spare \in GroupIds)
  BY <1>4, <1>5
<1>8. \A g : g \in LiveGroups' <=> g \in LiveGroups \/ (one /\ g = first) \/ (two /\ g = spare)
  BY <1>6, <1>7 DEF LiveGroups
<1>9. FreeGroups' \subseteq FreeGroups
  BY <1>6, <1>7 DEF FreeGroups
<1>10. \A g \in LiveGroups : /\ g \in GroupIds /\ g \notin FreeGroups /\ g \in LiveGroups'
                             /\ grp'[g].parent = grp[g].parent /\ grp'[g].name = grp[g].name
  <2> SUFFICES ASSUME NEW g \in LiveGroups
      PROVE /\ g \in GroupIds /\ g \notin FreeGroups /\ g \in LiveGroups'
            /\ grp'[g].parent = grp[g].parent /\ grp'[g].name = grp[g].name
    OBVIOUS
  <2>1. g \in GroupIds /\ g \notin FreeGroups
    BY <1>4
  <2>2. ~(one /\ g = first) /\ ~(two /\ g = spare)
    BY <1>5, <2>1
  <2> QED BY <1>6, <1>8, <2>1, <2>2
<1>11. first \in LiveGroups'
  BY <1>5, <1>8
<1>12. \A g \in LiveGroups' : grp'[g].parent \in LiveTops'
  <2>1. ASSUME NEW g \in LiveGroups' PROVE grp'[g].parent \in LiveTops'
    <3>1. CASE g \in LiveGroups
      <4>1. grp'[g].parent = grp[g].parent /\ grp[g].parent \in LiveTops
        BY <1>4, <1>10, <3>1
      <4> QED BY <4>1, <1>10 DEF LiveTops
    <3>2. CASE one /\ g = first
      <4>1. grp'[g].parent = TreeTop
        BY <1>6, <1>7, <3>2
      <4> QED BY <4>1 DEF LiveTops
    <3>3. CASE two /\ g = spare
      <4>1. grp'[g].parent = first
        BY <1>6, <1>7, <3>3
      <4> QED BY <4>1, <1>11 DEF LiveTops
    <3> QED BY <1>8, <2>1, <3>1, <3>2, <3>3
  <2> QED BY <2>1
<1>13. Grows
  <2>1. ASSUME NEW g \in LiveGroups' \ FreeGroups PROVE g \in LiveGroups /\ grp'[g].parent = grp[g].parent
    <3>1. g \in LiveGroups
      BY <1>5, <1>8, <2>1
    <3> QED BY <1>10, <3>1
  <2>2. ASSUME NEW g \in LiveGroups' \cap FreeGroups
        PROVE  grp'[g].parent \notin FreeGroups \/ (grp'[g].parent # g /\ grp'[grp'[g].parent].parent = TreeTop)
    <3>1. CASE one /\ g = first
      <4>1. grp'[g].parent = TreeTop
        BY <1>6, <1>7, <3>1
      <4> QED BY <4>1, <1>4
    <3>2. CASE two /\ g = spare
      <4>1. grp'[g].parent = first /\ first # g
        BY <1>5, <1>6, <1>7, <3>2
      <4>2. first \in FreeGroups => one
        BY <1>4, <1>5
      <4>3. one => grp'[first].parent = TreeTop
        BY <1>6, <1>7
      <4> QED BY <4>1, <4>2, <4>3
    <3> QED BY <1>4, <1>8, <2>2, <3>1, <3>2
  <2> QED BY <1>9, <2>1, <2>2 DEF Grows
<1>14. housed' \subseteq LiveGroups'
  BY <1>3, <1>10, GroupParts, GroupTypes
<1>15. GroupsTypeOK'
  BY <1>3, <1>5, <1>12, <1>14, TypesAfter
<1>16. ASSUME grpRaced' = {} PROVE Apart'
  <2>1. Apart
    BY <1>3, <1>16, GroupStoresAlone, GroupParts, SiblingsNamedIs
  <2> DEFINE Same(g, h) == grp'[g].parent = grp'[h].parent /\ grp'[g].name = grp'[h].name
  <2>2. ASSUME NEW g \in LiveGroups, NEW h \in LiveGroups, g # h PROVE ~Same(g, h)
    BY <1>10, <2>1, <2>2 DEF Apart
  <2>3. ASSUME one, NEW h \in LiveGroups PROVE ~Same(first, h)
    BY <1>5, <1>6, <1>7, <1>10, <2>3
  <2>4. ASSUME two, NEW h \in LiveGroups PROVE ~Same(spare, h)
    <3>1. grp'[spare].parent = first /\ grp'[spare].name = <<w>>
      BY <1>6, <1>7, <2>4
    <3>2. CASE one
      <4>1. grp[h].parent # first
        BY <1>4, <1>5, <3>2 DEF LiveTops
      <4> QED BY <1>10, <3>1, <4>1
    <3>3. CASE ~one
      BY <1>5, <1>10, <2>4, <3>1, <3>3
    <3> QED BY <3>2, <3>3
  <2>5. ASSUME one, two PROVE ~Same(first, spare)
    <3>1. grp'[first].parent = TreeTop /\ grp'[spare].parent = first
      BY <1>6, <1>7, <2>5
    <3> QED BY <1>4, <1>7, <3>1
  <2>6. ASSUME NEW g \in LiveGroups', NEW h \in LiveGroups', g # h PROVE ~Same(g, h)
    <3>1. g \in LiveGroups \/ (one /\ g = first) \/ (two /\ g = spare)
      BY <1>8, <2>6
    <3>2. h \in LiveGroups \/ (one /\ h = first) \/ (two /\ h = spare)
      BY <1>8, <2>6
    <3> QED BY <3>1, <3>2, <2>2, <2>3, <2>4, <2>5, <2>6
  <2> QED BY <2>6 DEF Apart
<1> QED BY <1>3, <1>13, <1>15, <1>16, SiblingsNamedNext, GrowsEnds
----------------------------------------------------------------------------
(* Steps that store no group. *)

\* A request goes on where what it now holds is so.
Sound(q) ==
    /\ q.kind = "none" <=> q.pc \in {"new", "done"}
    /\ q.pc \in {"read", "renumber"} => q.kind = "move"
    /\ q.kind \in {"rename", "move", "delete"} => q.group \in GroupIds
    /\ q.kind = "move" => q.target # q.group /\ q.read[q.group] # Unread
    /\ q.pc # "renumber" => \A g \in GroupIds \ {q.group} : q.read[g] = Unread
Seen(q) ==
    /\ q.kind = "new" => NameFree(0, q.parent, q.name)
    /\ q.kind = "rename" => q.group \in LiveGroups /\ NameFree(q.group, grp[q.group].parent, q.name)
    /\ q.kind = "house" => LiveGroups = {}
    /\ q.kind = "move" =>
        /\ q.group \in LiveGroups /\ q.read[q.group] = grp[q.group].order
        /\ q.target # 0 => q.target \in Branch(q.parent)
        /\ q.pc = "store" => NameFree(q.group, q.parent, q.name)
        /\ q.pc # "store" => grp[q.group].parent = q.parent
        /\ q.pc = "renumber" =>
             /\ Siblings(q) = Branch(q.parent) \ {q.group}
             /\ \A g \in Siblings(q) : q.read[g] = grp[g].order

LEMMA AsksAre ==
  /\ AskPlaces <=> \A r \in GroupAsks : Sound(grpAsk[r])
  /\ AsSeen <=> (grpRaced = {} => \A r \in GroupAsks : Seen(grpAsk[r]))
BY DEF AskPlaces, AsSeen, Sound, Seen
LEMMA AsksNext ==
  ( /\ AskPlaces <=> \A r \in GroupAsks : Sound(grpAsk[r])
    /\ AsSeen <=> (grpRaced = {} => \A r \in GroupAsks : Seen(grpAsk[r]))
    /\ MovesRise <=> ({"move"} \notin grpRaced => \A r \in GroupAsks : Rises(grpAsk[r])) )'
BY AsksAre, MovesRiseIs, PTL

LEMMA SameRises ==
  ASSUME grp' = grp, NEW q
  PROVE  (Rises(q)' <=> Rises(q)) /\ (Seen(q)' <=> Seen(q)) /\ (Sound(q)' <=> Sound(q))
<1>1. /\ LiveGroups' = LiveGroups /\ FreeGroups' = FreeGroups /\ Above(q.parent)' = Above(q.parent)
      /\ Branch(q.parent)' = Branch(q.parent)
      /\ \A g, p, n : NameFree(g, p, n)' <=> NameFree(g, p, n)
  BY SameTree
<1>2. Rises(q)' <=> Rises(q)
  BY <1>1 DEF Rises
<1>3. Seen(q)' <=> Seen(q)
  BY <1>1 DEF Seen
<1>4. Sound(q)' <=> Sound(q)
  BY DEF Sound
<1> QED BY <1>2, <1>3, <1>4

LEMMA GoesOnStep ==
  ASSUME GroupsInv, NEW r \in GroupAsks, NEW q \in GroupAskRow, grpAsk' = [grpAsk EXCEPT ![r] = q],
         grp' = grp, grpRaced' = grpRaced, moved' = moved, housed' \subseteq LiveGroups,
         Sound(q), {"move"} \notin grpRaced => Rises(q), grpRaced = {} => Seen(q)
  PROVE  GroupsInv'
<1>1. /\ grpAsk' \in [GroupAsks -> GroupAskRow] /\ grpAsk'[r] = q
      /\ \A p \in GroupAsks : p # r => grpAsk'[p] = grpAsk[p]
  BY GoesOn
<1>2. LiveGroups' = LiveGroups /\ LiveTops' = LiveTops /\ \A g : Looped(g)' <=> Looped(g)
  BY SameTree
<1>3. GroupsTypeOK'
  BY <1>1, <1>2, GroupParts, GroupTypes DEF GroupsTypeOK
<1>4. ASSUME NEW p \in GroupAsks
      PROVE  /\ Sound(grpAsk[p])' /\ ({"move"} \notin grpRaced => Rises(grpAsk[p])')
             /\ (grpRaced = {} => Seen(grpAsk[p])')
  <2>1. PICK o : o = grpAsk'[p]
    OBVIOUS
  <2>2. Sound(o) /\ ({"move"} \notin grpRaced => Rises(o)) /\ (grpRaced = {} => Seen(o))
    <3>1. CASE p = r
      BY <3>1, <1>1, <2>1
    <3>2. CASE p # r
      BY <3>2, <1>1, <2>1, GroupParts, AsksAre, MovesRiseIs
    <3> QED BY <3>1, <3>2
  <2>3. Sound(o)' /\ ({"move"} \notin grpRaced => Rises(o)') /\ (grpRaced = {} => Seen(o)')
    BY <2>2, SameRises
  <2> QED BY <2>1, <2>3 DEF Sound, Rises, Seen
<1>5. AskPlaces' /\ AsSeen' /\ MovesRise'
  BY <1>4, AsksNext
<1>6. GroupsShown'
  BY <1>2, GroupParts DEF GroupsShown
<1>7. SiblingsNamed'
  BY <1>2, GroupParts, SameTree DEF SiblingsNamed
<1>8. MovedAsAsked'
  BY GroupParts, SameMoved
<1> QED BY <1>3, <1>5, <1>6, <1>7, <1>8 DEF GroupsInv

LEMMA LooksIs ==
  ASSUME GroupsInv, NEW r \in GroupAsks, NEW q, Looks(r, q)
  PROVE  /\ grpAsk' = [grpAsk EXCEPT ![r] = [q EXCEPT !.pc = "store"]]
         /\ grp' = grp /\ grpRaced' = grpRaced /\ moved' = moved /\ housed' \subseteq LiveGroups
BY GroupParts, GroupTypes DEF Looks, GroupGoes

LEMMA LookForNewStep ==
  ASSUME GroupsInv, NEW r \in GroupAsks, LookForNew(r)
  PROVE  GroupsInv'
<1>1. PICK p \in LiveTops : \E n \in GroupNames, t \in Branch(p) \cup {0} :
        \E place \in IF t = 0 THEN {"first", "last"} ELSE {"after"} :
          /\ NameFree(0, p, n)
          /\ Looks(r, [GroupIdle EXCEPT !.kind = "new", !.parent = p, !.name = n, !.target = t, !.place = place])
  BY Zenon DEF LookForNew
<1>a. PICK n \in GroupNames, t \in Branch(p) \cup {0} :
        \E place \in IF t = 0 THEN {"first", "last"} ELSE {"after"} :
          /\ NameFree(0, p, n)
          /\ Looks(r, [GroupIdle EXCEPT !.kind = "new", !.parent = p, !.name = n, !.target = t, !.place = place])
  BY <1>1, Zenon
<1>b. PICK place \in IF t = 0 THEN {"first", "last"} ELSE {"after"} :
        /\ NameFree(0, p, n)
        /\ Looks(r, [GroupIdle EXCEPT !.kind = "new", !.parent = p, !.name = n, !.target = t, !.place = place])
  BY <1>a, Zenon
<1>2. PICK q : q = [GroupIdle EXCEPT !.kind = "new", !.parent = p, !.name = n, !.target = t, !.place = place, !.pc = "store"]
  OBVIOUS
<1>3. p \in Tops /\ t \in GroupIds \cup {0}
  BY TopApart DEF Branch, LiveGroups
<1>4. /\ q \in GroupAskRow /\ q.kind = "new" /\ q.pc = "store" /\ q.parent = p /\ q.name = n
      /\ \A g \in GroupIds : q.read[g] = Unread
  BY <1>2, <1>3, GroupsAssumption DEF GroupIdle, GroupAskRow
<1>5. /\ grpAsk' = [grpAsk EXCEPT ![r] = q]
      /\ grp' = grp /\ grpRaced' = grpRaced /\ moved' = moved /\ housed' \subseteq LiveGroups
  BY <1>b, <1>2, LooksIs DEF GroupIdle
<1>6. Sound(q) /\ Rises(q) /\ Seen(q)
  BY <1>b, <1>4 DEF Sound, Rises, Seen
<1> QED BY <1>4, <1>5, <1>6, GoesOnStep

LEMMA LookForRenameStep ==
  ASSUME GroupsInv, NEW r \in GroupAsks, LookForRename(r)
  PROVE  GroupsInv'
<1>1. PICK g \in LiveGroups, n \in GroupNames :
        /\ NameFree(g, grp[g].parent, n)
        /\ Looks(r, [GroupIdle EXCEPT !.kind = "rename", !.group = g, !.name = n])
  BY DEF LookForRename
<1>2. PICK q : q = [GroupIdle EXCEPT !.kind = "rename", !.group = g, !.name = n, !.pc = "store"]
  OBVIOUS
<1>3. g \in GroupIds
  BY DEF LiveGroups
<1>4. /\ q \in GroupAskRow /\ q.kind = "rename" /\ q.pc = "store" /\ q.group = g /\ q.name = n
      /\ \A h \in GroupIds : q.read[h] = Unread
  BY <1>2, <1>3, GroupsAssumption DEF GroupIdle, GroupAskRow, Tops
<1>5. /\ grpAsk' = [grpAsk EXCEPT ![r] = q]
      /\ grp' = grp /\ grpRaced' = grpRaced /\ moved' = moved /\ housed' \subseteq LiveGroups
  BY <1>1, <1>2, LooksIs DEF GroupIdle
<1>6. Sound(q) /\ Rises(q) /\ Seen(q)
  BY <1>1, <1>3, <1>4 DEF Sound, Rises, Seen
<1> QED BY <1>4, <1>5, <1>6, GoesOnStep

LEMMA LookForDeleteStep ==
  ASSUME GroupsInv, NEW r \in GroupAsks, LookForDelete(r)
  PROVE  GroupsInv'
<1>1. PICK g \in LiveGroups : Looks(r, [GroupIdle EXCEPT !.kind = "delete", !.group = g])
  BY DEF LookForDelete
<1>2. PICK q : q = [GroupIdle EXCEPT !.kind = "delete", !.group = g, !.pc = "store"]
  OBVIOUS
<1>3. g \in GroupIds
  BY DEF LiveGroups
<1>4. /\ q \in GroupAskRow /\ q.kind = "delete" /\ q.pc = "store" /\ q.group = g
      /\ \A h \in GroupIds : q.read[h] = Unread
  BY <1>2, <1>3, GroupsAssumption DEF GroupIdle, GroupAskRow, Tops
<1>5. /\ grpAsk' = [grpAsk EXCEPT ![r] = q]
      /\ grp' = grp /\ grpRaced' = grpRaced /\ moved' = moved /\ housed' \subseteq LiveGroups
  BY <1>1, <1>2, LooksIs DEF GroupIdle
<1>6. Sound(q) /\ Rises(q) /\ Seen(q)
  BY <1>3, <1>4 DEF Sound, Rises, Seen
<1> QED BY <1>4, <1>5, <1>6, GoesOnStep

LEMMA AboveTop == GroupsTypeOK => Above(TreeTop) \subseteq {TreeTop}
<1>1. Climbs({TreeTop}) /\ {TreeTop} \subseteq Tops
  BY TopApart DEF Climbs, Tops
<1> QED BY <1>1, AboveLeast

LEMMA LookForMoveStep ==
  ASSUME GroupsInv, NEW r \in GroupAsks, LookForMove(r)
  PROVE  GroupsInv'
<1>1. PICK g \in LiveGroups, p \in LiveTops :
        /\ MayMove(g, p) /\ NameFree(g, p, grp[g].name)
        /\ \E t \in (Branch(p) \ {g}) \cup {0} : \E place \in IF t = 0 THEN {"first", "last"} ELSE {"after", "before"} :
              Looks(r, [GroupIdle EXCEPT !.kind = "move", !.group = g, !.parent = p, !.name = grp[g].name,
                          !.target = t, !.place = place, !.read[g] = grp[g].order])
  BY Zenon DEF LookForMove
<1>2. PICK t \in (Branch(p) \ {g}) \cup {0} : \E place \in IF t = 0 THEN {"first", "last"} ELSE {"after", "before"} :
        Looks(r, [GroupIdle EXCEPT !.kind = "move", !.group = g, !.parent = p, !.name = grp[g].name,
                    !.target = t, !.place = place, !.read[g] = grp[g].order])
  BY <1>1, Zenon
<1>3. PICK place \in IF t = 0 THEN {"first", "last"} ELSE {"after", "before"} :
        Looks(r, [GroupIdle EXCEPT !.kind = "move", !.group = g, !.parent = p, !.name = grp[g].name,
                    !.target = t, !.place = place, !.read[g] = grp[g].order])
  BY <1>2, Zenon
<1>4. PICK y : y = [GroupIdle EXCEPT !.kind = "move", !.group = g, !.parent = p, !.name = grp[g].name,
                      !.target = t, !.place = place, !.read[g] = grp[g].order]
  BY Zenon
<1>5. PICK q : q = [y EXCEPT !.pc = "store"]
  BY Zenon
<1>6. /\ grpAsk' = [grpAsk EXCEPT ![r] = q]
      /\ grp' = grp /\ grpRaced' = grpRaced /\ moved' = moved /\ housed' \subseteq LiveGroups
  BY <1>3, <1>4, <1>5, LooksIs
<1>7. /\ g \in GroupIds /\ g # 0 /\ p \in Tops /\ t \in GroupIds \cup {0} /\ t # g /\ g # TreeTop
      /\ (t # 0 => t \in Branch(p)) /\ grp[g].is = "live" /\ p \notin FreeGroups
  BY TopApart, GroupsAssumption DEF Branch, LiveGroups, GroupIds, LiveTops, FreeGroups
<1>8. grp[g].name \in GroupNames /\ grp[g].order \in Nat
  BY <1>7, GroupParts, GroupTypes
<1>9. y = [pc |-> "new", kind |-> "move", group |-> g, parent |-> p, name |-> grp[g].name,
           target |-> t, place |-> place, read |-> [[h \in GroupIds |-> Unread] EXCEPT ![g] = grp[g].order]]
  BY <1>4 DEF GroupIdle
<1>10. PICK read : read = [[h \in GroupIds |-> Unread] EXCEPT ![g] = grp[g].order]
  BY Zenon
<1>11. q = [pc |-> "store", kind |-> "move", group |-> g, parent |-> p, name |-> grp[g].name,
            target |-> t, place |-> place, read |-> read]
  BY <1>5, <1>9, <1>10
<1>12. read \in [GroupIds -> Nat \cup {Unread}] /\ read[g] = grp[g].order /\ \A h \in GroupIds \ {g} : read[h] = Unread
  BY <1>7, <1>8, <1>10
<1>13. q \in GroupAskRow
  BY <1>7, <1>8, <1>11, <1>12 DEF GroupAskRow
<1>14. g \notin Above(p)
  BY <1>1, <1>7, GroupParts, AboveTop DEF MayMove, Beneath, LiveTops
<1>15. Sound(q)
  BY <1>7, <1>8, <1>11, <1>12 DEF Sound, Unread
<1>16. Rises(q)
  BY <1>7, <1>11, <1>14 DEF Rises
<1>17. Seen(q)
  BY <1>1, <1>7, <1>11, <1>12 DEF Seen
<1> QED BY <1>6, <1>13, <1>15, <1>16, <1>17, GoesOnStep

LEMMA LookForDefaultStep ==
  ASSUME GroupsInv, NEW r \in GroupAsks, LookForDefault(r)
  PROVE  GroupsInv'
<1>1. PICK q : q = [GroupIdle EXCEPT !.pc = "store", !.kind = "house"]
  OBVIOUS
<1>2. /\ q \in GroupAskRow /\ q.kind = "house" /\ q.pc = "store"
      /\ \A h \in GroupIds : q.read[h] = Unread
  BY <1>1, GroupsAssumption DEF GroupIdle, GroupAskRow, Tops
<1>3. /\ LiveGroups = {} /\ grpAsk' = [grpAsk EXCEPT ![r] = q]
      /\ grp' = grp /\ grpRaced' = grpRaced /\ moved' = moved /\ housed' \subseteq LiveGroups
  BY <1>1, GroupParts, GroupTypes DEF LookForDefault, GroupGoes
<1>4. Sound(q) /\ Rises(q) /\ Seen(q)
  BY <1>2, <1>3 DEF Sound, Rises, Seen
<1> QED BY <1>2, <1>3, <1>4, GoesOnStep

LEMMA EndsStep ==
  ASSUME GroupsInv, NEW r \in GroupAsks, GroupEnds(r), grp' = grp, grpRaced' = grpRaced, moved' = moved,
         housed' \subseteq LiveGroups
  PROVE  GroupsInv'
<1>1. PICK q \in GroupAskRow : q = [GroupIdle EXCEPT !.pc = "done"]
  BY GroupEndIs
<1>2. grpAsk' = [grpAsk EXCEPT ![r] = q] /\ q.pc = "done" /\ q.kind = "none" /\ \A g \in GroupIds : q.read[g] = Unread
  BY <1>1, GroupEndIs DEF GroupEnds, GroupGoes
<1>3. Sound(q) /\ Rises(q) /\ Seen(q)
  BY <1>2 DEF Sound, Rises, Seen
<1> QED BY <1>2, <1>3, GoesOnStep

LEMMA ReadSiblingsStep ==
  ASSUME GroupsInv, NEW r \in GroupAsks, ReadSiblings(r)
  PROVE  GroupsInv'
<1>1. PICK q \in GroupAskRow : q = grpAsk[r]
  BY GroupParts, GroupTypes
<1>2. PICK old, new : /\ old = q.read
                      /\ new = [g \in GroupIds |-> IF g \in Branch(q.parent) \ {q.group} THEN grp[g].order ELSE old[g]]
  OBVIOUS
<1>3. PICK z : z = [q EXCEPT !.pc = "renumber", !.read = new]
  OBVIOUS
<1>4. /\ q.pc = "read" /\ q.kind = "move" /\ grpAsk' = [grpAsk EXCEPT ![r] = z]
      /\ grp' = grp /\ grpRaced' = grpRaced /\ moved' = moved /\ housed' \subseteq LiveGroups
  BY <1>1, <1>2, <1>3, GroupParts, GroupTypes DEF ReadSiblings, GroupAt, GroupGoes
<1>5. /\ Sound(q) /\ ({"move"} \notin grpRaced => Rises(q)) /\ (grpRaced = {} => Seen(q))
      /\ q.group \in GroupIds
  BY <1>1, <1>4, GroupParts, AsksAre, MovesRiseIs DEF Sound
<1>6. old \in [GroupIds -> Nat \cup {Unread}] /\ \A g \in GroupIds : grp[g].order \in Nat
  BY <1>2, GroupParts, GroupTypes DEF GroupAskRow
<1>7. new \in [GroupIds -> Nat \cup {Unread}]
  BY <1>2, <1>6
<1>8. /\ z \in GroupAskRow /\ z.pc = "renumber" /\ z.kind = "move" /\ z.group = q.group /\ z.parent = q.parent
      /\ z.target = q.target /\ z.read = new
  BY <1>3, <1>4, <1>7 DEF GroupAskRow
<1>9. new[q.group] = q.read[q.group] /\ \A g \in GroupIds \ {q.group} :
        new[g] = IF g \in Branch(q.parent) THEN grp[g].order ELSE Unread
  BY <1>2, <1>4, <1>5 DEF Sound
<1>10. Siblings(z) = Branch(q.parent) \ {q.group}
  <2>1. Branch(q.parent) \subseteq GroupIds
    BY DEF Branch, LiveGroups
  <2>2. ASSUME NEW g \in GroupIds \ {q.group} PROVE new[g] # Unread <=> g \in Branch(q.parent)
    BY <1>6, <1>9, <2>2 DEF Unread
  <2> QED BY <1>8, <2>1, <2>2 DEF Siblings
<1>11. Sound(z)
  BY <1>4, <1>5, <1>8, <1>9 DEF Sound
<1>12. {"move"} \notin grpRaced => Rises(z)
  BY <1>4, <1>5, <1>8, <1>10 DEF Rises, Branch, LiveGroups, FreeGroups
<1>13. grpRaced = {} => Seen(z)
  <2> SUFFICES ASSUME grpRaced = {} PROVE Seen(z)
    OBVIOUS
  <2>1. \A g \in Siblings(z) : z.read[g] = grp[g].order
    BY <1>8, <1>9, <1>10 DEF Branch, LiveGroups
  <2> QED BY <1>4, <1>5, <1>8, <1>9, <1>10, <2>1 DEF Seen
<1> QED BY <1>4, <1>8, <1>11, <1>12, <1>13, GoesOnStep
----------------------------------------------------------------------------
(* A move. *)

\* One group moves below another that is not below it: no group comes to be below itself.
LEMMA MoveRises ==
  ASSUME GroupsTypeOK, NEW g \in LiveGroups, NEW p \in Tops, p \notin FreeGroups, g \notin Above(p),
         LiveGroups' = LiveGroups, grp'[g].parent = p,
         \A x \in LiveGroups \ {g} : grp'[x].parent = grp[x].parent,
         \A x \in LiveGroups : x \notin Above(grp[x].parent)
  PROVE  \A x \in LiveGroups : x \notin Above(grp[x].parent)'
<1>1. PICK S \in SUBSET Tops : S = Above(p)
  BY AboveClimbs
<1>2. p \in S /\ g \notin S /\ Climbs(S)
  BY <1>1, AboveSelf, AboveClimbs
<1>3. Climbs(S)'
  BY <1>2, ClimbsIs, ClimbsNext
<1>4. Above(p)' \subseteq S
  BY <1>2, <1>3, AboveGrows
<1>5. ASSUME NEW x \in LiveGroups, NEW y, y = grp'[x].parent PROVE x \notin Above(y)'
  <2>1. CASE x = g
    BY <1>2, <1>4, <1>5, <2>1
  <2>2. CASE x # g
    <3>1. y = grp[x].parent /\ y \in Tops /\ x \notin Above(y)
      BY <1>5, <2>2, GroupTypes, TopApart
    <3>2. PICK T \in SUBSET Tops : T = Above(y)
      BY AboveClimbs
    <3>3. y \in T /\ x \notin T /\ Climbs(T)
      BY <3>1, <3>2, AboveSelf, AboveClimbs
    <3>4. CASE x \in S
      <4>1. y \in S
        BY <1>2, <3>1, <3>4, ClimbsIs
      <4>2. T \subseteq S
        BY <1>1, <3>2, <4>1, AboveTransitive
      <4>3. Climbs(T)'
        BY <1>2, <3>3, <4>2, ClimbsIs, ClimbsNext
      <4>4. Above(y)' \subseteq T
        BY <3>3, <4>3, AboveGrows
      <4> QED BY <3>3, <4>4
    <3>5. CASE x \notin S
      <4>1. PICK U \in SUBSET Tops : U = S \cup T
        OBVIOUS
      <4>2. y \in U /\ x \notin U
        BY <3>3, <3>5, <4>1
      <4>3. Climbs(U)'
        BY <1>2, <3>3, <4>1, ClimbsIs, ClimbsNext
      <4>4. Above(y)' \subseteq U
        BY <4>2, <4>3, AboveGrows
      <4> QED BY <4>2, <4>4
    <3> QED BY <3>4, <3>5
  <2> QED BY <2>1, <2>2
<1> QED BY <1>5 DEF Above

LEMMA MoveGroupStep ==
  ASSUME GroupsInv, NEW r \in GroupAsks, MoveGroup(r)
  PROVE  GroupsInv'
<1>1. PICK q \in GroupAskRow : q = grpAsk[r]
  BY GroupParts, GroupTypes
<1>2. PICK z : z = [q EXCEPT !.pc = "read"]
  OBVIOUS
<1>3. /\ q.pc = "store" /\ q.kind = "move" /\ q.group \in LiveGroups /\ q.parent \in LiveTops
      /\ grp' = [grp EXCEPT ![q.group].name = q.name, ![q.group].parent = q.parent]
      /\ grpAsk' = [grpAsk EXCEPT ![r] = z]
      /\ GroupStored(r, "move") /\ Unmoved /\ housed' = housed
  BY <1>1, <1>2 DEF MoveGroup, GroupAt, GroupGoes
<1>4. /\ q.group \in GroupIds /\ q.name \in GroupNames /\ q.parent \in Tops /\ q.parent \notin FreeGroups
      /\ grp \in [GroupIds -> GroupRows]
  BY <1>3, GroupParts, GroupTypes, TopApart DEF GroupAskRow, LiveGroups, LiveTops, FreeGroups
<1>5. PICK row \in GroupRows : row = [grp[q.group] EXCEPT !.name = q.name, !.parent = q.parent]
  BY <1>4 DEF GroupRows
<1>6. /\ row.is = grp[q.group].is /\ row.parent = q.parent /\ row.name = q.name /\ row.order = grp[q.group].order
  BY <1>4, <1>5 DEF GroupRows
<1>7. grp' = [grp EXCEPT ![q.group] = row]
  BY <1>3, <1>4, <1>5
<1>8. grp' \in [GroupIds -> GroupRows] /\ grp'[q.group] = row /\ \A g \in GroupIds \ {q.group} : grp'[g] = grp[g]
  BY <1>4, <1>7
<1>9. \A g \in GroupIds : grp'[g].is = grp[g].is /\ grp'[g].order = grp[g].order
  BY <1>6, <1>8
<1>10. LiveGroups' = LiveGroups /\ FreeGroups' = FreeGroups /\ LiveTops' = LiveTops
  BY <1>9 DEF LiveGroups, FreeGroups, LiveTops
<1>11. \A g \in LiveGroups : g \in GroupIds /\ grp[g].parent \in LiveTops
  BY GroupParts, GroupTypes DEF LiveGroups
<1>12. \A g \in LiveGroups' : grp'[g].parent \in LiveTops'
  BY <1>3, <1>6, <1>8, <1>10, <1>11
<1>13. /\ z \in GroupAskRow /\ z.pc = "read" /\ z.kind = "move" /\ z.group = q.group /\ z.parent = q.parent
       /\ z.target = q.target /\ z.read = q.read
  BY <1>2, <1>3 DEF GroupAskRow
<1>14. /\ grpAsk' \in [GroupAsks -> GroupAskRow] /\ grpAsk'[r] = z
       /\ \A p \in GroupAsks : p # r => grpAsk'[p] = grpAsk[p]
  BY <1>3, <1>13, GoesOn
<1>15. moved' \in [group : GroupIds \cup {0}, target : GroupIds \cup {0}, after : BOOLEAN]
  BY <1>3 DEF Unmoved, NotMoved
<1>16. GroupsTypeOK'
  BY <1>3, <1>8, <1>10, <1>12, <1>14, <1>15, GroupParts, GroupTypes DEF GroupsTypeOK
<1>17. /\ grpRaced \subseteq grpRaced'
       /\ grpRaced' = {} => grpRaced = {} /\ \A p \in GroupAsks : p # r => grpAsk[p].pc \in {"new", "done"}
       /\ {"move"} \notin grpRaced' => \A p \in GroupAsks : p # r => grpAsk[p].kind # "move"
  BY <1>3, GroupStoresAlone
<1>18. /\ Sound(q) /\ ({"move"} \notin grpRaced => Rises(q)) /\ (grpRaced = {} => Seen(q))
       /\ \A p \in GroupAsks : Sound(grpAsk[p])
  BY <1>1, GroupParts, AsksAre, MovesRiseIs
<1>19. ASSUME {"move"} \notin grpRaced' PROVE \A x \in LiveGroups : x \notin Above(grp[x].parent)'
  <2>1. \A x \in LiveGroups : x \notin Above(grp[x].parent)
    BY <1>17, <1>19, GroupParts, LoopedIs DEF GroupsShown
  <2>2. q.group \notin Above(q.parent)
    BY <1>3, <1>17, <1>18, <1>19 DEF Rises
  <2> QED BY <1>3, <1>4, <1>6, <1>8, <1>10, <1>11, <2>1, <2>2, GroupParts, MoveRises
<1>20. GroupsShown'
  <2> SUFFICES ASSUME {"move"} \notin grpRaced' PROVE \A g \in LiveGroups' : ~Looped(g)'
    BY DEF GroupsShown
  <2>1. \A g \in LiveGroups' : g \notin Above(grp[g].parent)'
    BY <1>10, <1>19
  <2> QED BY <1>16, <2>1, LoopedNow
<1>21. AskPlaces'
  <2>1. Sound(z)
    BY <1>3, <1>13, <1>18 DEF Sound
  <2>2. ASSUME NEW p \in GroupAsks PROVE Sound(grpAsk'[p])
    BY <1>14, <1>18, <2>1
  <2>3. \A p \in GroupAsks : Sound(grpAsk[p])'
    BY <2>2 DEF Sound
  <2> QED BY <2>3, AsksNext
<1>22. MovesRise'
  <2>1. ASSUME {"move"} \notin grpRaced', NEW p \in GroupAsks PROVE Rises(grpAsk[p])'
    <3>1. CASE p = r
      <4>1. grp'[q.group].is # "free" /\ grp'[q.group].parent = q.parent
        BY <1>3, <1>6, <1>8, <1>9 DEF LiveGroups
      <4> QED BY <1>13, <1>14, <3>1, <4>1 DEF Rises
    <3>2. CASE p # r
      BY <1>14, <1>17, <2>1, <3>2 DEF Rises
    <3> QED BY <3>1, <3>2
  <2> QED BY <2>1, AsksNext
<1>23. AsSeen'
  <2>1. ASSUME grpRaced' = {}, NEW p \in GroupAsks PROVE Seen(grpAsk[p])'
    <3>1. CASE p = r
      <4>1. q.target # 0 => q.target \in Branch(q.parent)'
        <5>1. q.target # 0 => q.target \in Branch(q.parent) /\ q.target # q.group
          BY <1>3, <1>17, <1>18, <2>1 DEF Seen, Sound
        <5> QED BY <5>1, <1>8, <1>10, <1>11 DEF Branch
      <4>2. q.read[q.group] = grp'[q.group].order /\ grp'[q.group].parent = q.parent /\ q.group \in LiveGroups'
        BY <1>3, <1>4, <1>6, <1>8, <1>9, <1>10, <1>17, <1>18, <2>1 DEF Seen
      <4> QED BY <1>13, <1>14, <3>1, <4>1, <4>2 DEF Seen
    <3>2. CASE p # r
      <4>1. grpAsk'[p].kind = "none"
        BY <1>14, <1>17, <1>18, <2>1, <3>2 DEF Sound
      <4> QED BY <4>1 DEF Seen
    <3> QED BY <3>1, <3>2
  <2> QED BY <2>1, AsksNext
<1>24. ASSUME grpRaced' = {} PROVE Apart'
  <2>1. Apart /\ NameFree(q.group, q.parent, q.name)
    BY <1>3, <1>17, <1>18, <1>24, GroupParts, SiblingsNamedIs DEF Seen
  <2>2. \A h \in LiveGroups \ {q.group} : grp[h].parent = q.parent => grp[h].name # q.name
    BY <2>1 DEF NameFree, Names, Branch
  <2> QED BY <1>3, <1>6, <1>8, <1>10, <1>11, <2>1, <2>2 DEF Apart
<1>25. MovedAsAsked'
  BY <1>3 DEF MovedAsAsked, Unmoved, NotMoved
<1> QED BY <1>16, <1>20, <1>21, <1>22, <1>23, <1>24, <1>25, SiblingsNamedNext DEF GroupsInv
----------------------------------------------------------------------------
(* The places of siblings. *)

LEMMA SomeGroups ==
  ASSUME NEW S \in SUBSET GroupIds
  PROVE  /\ IsFiniteSet(S) /\ Cardinality(S) \in Nat /\ Cardinality(S) <= LastGroup
         /\ \A T \in SUBSET S : IsFiniteSet(T) /\ Cardinality(T) \in Nat /\ Cardinality(T) <= Cardinality(S)
                                /\ (T # S => Cardinality(T) < Cardinality(S))
         /\ \A x \in GroupIds \ S : Cardinality(S) + 1 <= LastGroup
<1>1. IsFiniteSet(GroupIds) /\ Cardinality(GroupIds) = LastGroup /\ LastGroup \in Nat
  BY FS_Interval, GroupsAssumption DEF GroupIds
<1>2. IsFiniteSet(S) /\ Cardinality(S) <= LastGroup
  BY <1>1, FS_Subset
<1>3. Cardinality(S) \in Nat
  BY <1>2, FS_CardinalityType
<1>4. ASSUME NEW T \in SUBSET S
      PROVE  IsFiniteSet(T) /\ Cardinality(T) \in Nat /\ Cardinality(T) <= Cardinality(S)
             /\ (T # S => Cardinality(T) < Cardinality(S))
  <2>1. IsFiniteSet(T) /\ Cardinality(T) <= Cardinality(S) /\ (Cardinality(S) = Cardinality(T) => S = T)
    BY <1>2, FS_Subset
  <2>2. Cardinality(T) \in Nat
    BY <2>1, FS_CardinalityType
  <2> QED BY <1>3, <2>1, <2>2
<1>5. ASSUME NEW x \in GroupIds \ S PROVE Cardinality(S) + 1 <= LastGroup
  <2>1. Cardinality(S \cup {x}) = Cardinality(S) + 1
    BY <1>2, <1>5, FS_AddElement
  <2>2. S \cup {x} \in SUBSET GroupIds
    BY <1>5
  <2>3. Cardinality(S \cup {x}) <= Cardinality(GroupIds)
    BY <1>1, <2>2, FS_Subset
  <2> QED BY <1>1, <2>1, <2>3
<1> QED BY <1>2, <1>3, <1>4, <1>5

LEMMA PlaceIs ==
  ASSUME NEW S \in SUBSET GroupIds, NEW numbers, \A g \in S : numbers[g] \in Int
  PROVE  /\ \A g \in S : Place(numbers, S, g) \in 1..Cardinality(S)
         /\ \A g, h \in S : Precedes(numbers, g, h) => Place(numbers, S, g) < Place(numbers, S, h)
         /\ \A g, h \in S : g # h => Place(numbers, S, g) # Place(numbers, S, h)
<1> DEFINE B(g) == {h \in S : Precedes(numbers, h, g)}
<1>1. S \subseteq Int /\ Cardinality(S) \in Nat
  BY SomeGroups DEF GroupIds
<1>2. \A g \in S : g \notin B(g) /\ Place(numbers, S, g) = 1 + Cardinality(B(g))
  BY <1>1 DEF Precedes, Place
<1>3. \A g \in S : Cardinality(B(g)) \in Nat /\ Cardinality(B(g)) < Cardinality(S)
  <2> SUFFICES ASSUME NEW g \in S PROVE Cardinality(B(g)) \in Nat /\ Cardinality(B(g)) < Cardinality(S)
    OBVIOUS
  <2>1. B(g) \in SUBSET S /\ B(g) # S
    BY <1>2
  <2> HIDE DEF B
  <2> QED BY <2>1, SomeGroups
<1>4. ASSUME NEW g \in S, NEW h \in S, Precedes(numbers, g, h) PROVE Cardinality(B(g)) < Cardinality(B(h))
  <2>1. g \in B(h) /\ B(g) \subseteq B(h) /\ B(h) \in SUBSET GroupIds
    <3>1. ASSUME NEW x \in S, Precedes(numbers, x, g) PROVE Precedes(numbers, x, h)
      <4>1. x \in Int /\ g \in Int /\ h \in Int /\ numbers[x] \in Int /\ numbers[g] \in Int /\ numbers[h] \in Int
        BY <1>1
      <4> QED BY <1>4, <3>1, <4>1 DEF Precedes
    <3> QED BY <1>4, <3>1
  <2>2. B(g) \in SUBSET B(h) /\ B(g) # B(h)
    BY <1>2, <2>1
  <2> HIDE DEF B
  <2> QED BY <2>1, <2>2, SomeGroups
<1>5. ASSUME NEW g \in S, NEW h \in S, g # h PROVE Precedes(numbers, g, h) \/ Precedes(numbers, h, g)
  BY <1>1, <1>5 DEF Precedes
<1> HIDE DEF B
<1>6. ASSUME NEW g \in S, NEW h \in S, Precedes(numbers, g, h) PROVE Place(numbers, S, g) < Place(numbers, S, h)
  BY <1>2, <1>3, <1>4, <1>6
<1>7. ASSUME NEW g \in S PROVE Place(numbers, S, g) \in 1..Cardinality(S)
  BY <1>1, <1>2, <1>3
<1>8. ASSUME NEW g \in S, NEW h \in S, g # h PROVE Place(numbers, S, g) # Place(numbers, S, h)
  BY <1>5, <1>6, <1>7, <1>8
<1> QED BY <1>6, <1>7, <1>8

\* Of the groups that a move numbers, each has a place of its own, and the group that moves
\* has the one next to its target, on the side that was asked for.
Numbered(q) == Siblings(q) \cup {q.group}

LEMMA NewPlaceIs ==
  ASSUME NEW q \in GroupAskRow, q.group \in GroupIds
  PROVE  /\ Numbered(q) \subseteq GroupIds
         /\ \A g \in Numbered(q) : NewPlace(q, g) \in 1..LastGroup
         /\ \A g, h \in Numbered(q) : g # h => NewPlace(q, g) # NewPlace(q, h)
         /\ q.target \in Siblings(q) =>
              IF q.place = "after" THEN NewPlace(q, q.group) = NewPlace(q, q.target) + 1
              ELSE NewPlace(q, q.target) = NewPlace(q, q.group) + 1
<1>1. PICK S \in SUBSET GroupIds : S = Siblings(q)
  BY DEF Siblings
<1>2. q.group \notin S /\ \A g \in S : q.read[g] \in Int
  BY <1>1 DEF Siblings, GroupAskRow, Unread
<1>3. PICK n \in Nat : n = Cardinality(S) /\ n + 1 <= LastGroup
  BY <1>1, <1>2, SomeGroups
<1>4. PICK at \in [S -> 1..n] : \A g \in S : at[g] = Place(q.read, S, g)
  <2>1. \A g \in S : Place(q.read, S, g) \in 1..n
    BY <1>2, <1>3, PlaceIs
  <2> DEFINE f == [g \in S |-> Place(q.read, S, g)]
  <2>2. f \in [S -> 1..n] /\ \A g \in S : f[g] = Place(q.read, S, g)
    BY <2>1
  <2> QED BY <2>2
<1>5. \A g, h \in S : g # h => at[g] # at[h]
  BY <1>2, <1>4, PlaceIs
<1>6. PICK i : i = InsertIndex(q)
  OBVIOUS
<1>7. /\ i \in 1..n + 1
      /\ q.target \in S => i = at[q.target] + IF q.place = "after" THEN 1 ELSE 0
  <2>1. CASE q.target \in S
    <3>1. i = at[q.target] + IF q.place = "after" THEN 1 ELSE 0
      BY <1>1, <1>4, <1>6, <2>1 DEF InsertIndex
    <3>2. at[q.target] \in 1..n
      BY <1>4, <2>1
    <3> QED BY <3>1, <3>2
  <2>2. CASE q.target \notin S
    BY <1>1, <1>3, <1>6, <2>2 DEF InsertIndex
  <2> QED BY <2>1, <2>2
<1>8. /\ NewPlace(q, q.group) = i
      /\ \A g \in S : NewPlace(q, g) = IF at[g] < i THEN at[g] ELSE at[g] + 1
  BY <1>1, <1>2, <1>4, <1>6 DEF NewPlace
<1>9. LastGroup \in Nat
  BY GroupsAssumption
<1>10. \A g \in S : at[g] \in Int /\ 1 <= at[g] /\ at[g] <= n
  BY <1>4
<1>11. \A g \in S \cup {q.group} : NewPlace(q, g) \in 1..LastGroup
  BY <1>3, <1>7, <1>8, <1>9, <1>10
<1>12. ASSUME NEW g \in S \cup {q.group}, NEW h \in S \cup {q.group}, g # h PROVE NewPlace(q, g) # NewPlace(q, h)
  <2>1. CASE g \in S /\ h \in S
    BY <1>5, <1>7, <1>8, <1>10, <1>12, <2>1
  <2>2. CASE g \in S /\ h = q.group
    BY <1>7, <1>8, <1>10, <2>2
  <2>3. CASE g = q.group /\ h \in S
    BY <1>7, <1>8, <1>10, <2>3
  <2> QED BY <1>12, <2>1, <2>2, <2>3
<1>13. q.target \in S =>
              IF q.place = "after" THEN NewPlace(q, q.group) = NewPlace(q, q.target) + 1
              ELSE NewPlace(q, q.target) = NewPlace(q, q.group) + 1
  BY <1>7, <1>8, <1>10
<1> QED BY <1>1, <1>11, <1>12, <1>13 DEF Numbered
----------------------------------------------------------------------------
(* The numbering. *)

At(q, i) == {g \in Siblings(q) \cup {q.group} : NewPlace(q, g) = i}
Onward(q, before, i) ==
    IF At(q, i) = {} THEN before ELSE Renumbers(q, before.rows, before.ok, i, CHOOSE g \in At(q, i) : TRUE)
Onset == [rows |-> grp, ok |-> TRUE]
NumberedUpTo(q, n, f) == f = [i \in 0..n |-> IF i = 0 THEN Onset ELSE Onward(q, f[i - 1], i)]

LEMMA NumberedExists ==
  ASSUME NEW q, NEW n \in Nat
  PROVE  \E f : NumberedUpTo(q, n, f)
<1> DEFINE D == {m \in Nat : \E f : NumberedUpTo(q, m, f)}
<1>1. 0 \in D
  <2> DEFINE f == [i \in 0..0 |-> Onset]
  <2>1. NumberedUpTo(q, 0, f)
    BY DEF NumberedUpTo
  <2> QED BY <2>1
<1>2. ASSUME NEW m \in D PROVE m + 1 \in D
  <2>1. m \in Nat
    OBVIOUS
  <2>2. PICK f : NumberedUpTo(q, m, f)
    OBVIOUS
  <2> DEFINE last == Onward(q, f[m], m + 1)
             g == [i \in 0..(m + 1) |-> IF i <= m THEN f[i] ELSE last]
  <2>3. \A i \in 0..m : f[i] = IF i = 0 THEN Onset ELSE Onward(q, f[i - 1], i)
    BY <2>2 DEF NumberedUpTo
  <2>4. \A i \in 0..m : g[i] = f[i]
    BY <2>1
  <2>5. g[m + 1] = last
    BY <2>1
  <2>6. ASSUME NEW i \in 0..(m + 1) PROVE g[i] = IF i = 0 THEN Onset ELSE Onward(q, g[i - 1], i)
    <3>1. CASE i = m + 1
      <4>1. i # 0 /\ i - 1 = m /\ m \in 0..m
        BY <3>1, <2>1
      <4>2. g[i - 1] = f[m]
        BY <4>1, <2>4
      <4> HIDE DEF g
      <4> QED BY <4>1, <4>2, <3>1, <2>5
    <3>2. CASE i = 0
      <4>1. 0 \in 0..m
        BY <2>1
      <4> QED BY <4>1, <3>2, <2>3, <2>4
    <3>3. CASE i # m + 1 /\ i # 0
      <4>1. i \in 0..m /\ i - 1 \in 0..m
        BY <3>3, <2>1
      <4>2. g[i] = f[i] /\ g[i - 1] = f[i - 1]
        BY <4>1, <2>4
      <4> HIDE DEF g
      <4> QED BY <4>1, <4>2, <3>3, <2>3
    <3> QED BY <3>1, <3>2, <3>3
  <2>7. g = [i \in 0..(m + 1) |-> IF i = 0 THEN Onset ELSE Onward(q, g[i - 1], i)]
    <3> DEFINE h == [i \in 0..(m + 1) |-> IF i = 0 THEN Onset ELSE Onward(q, g[i - 1], i)]
    <3>1. \A i \in 0..(m + 1) : g[i] = h[i]
      BY <2>6
    <3>2. DOMAIN g = 0..(m + 1) /\ DOMAIN h = 0..(m + 1)
      OBVIOUS
    <3>3. g = [i \in 0..(m + 1) |-> g[i]] /\ h = [i \in 0..(m + 1) |-> h[i]]
      OBVIOUS
    <3> QED BY <3>1, <3>2, <3>3
  <2>8. NumberedUpTo(q, m + 1, g)
    BY <2>7 DEF NumberedUpTo
  <2> QED BY <2>1, <2>8
<1>3. D = Nat
  <2> HIDE DEF D
  <2>1. D \in SUBSET Nat
    BY DEF D
  <2> QED BY <1>1, <1>2, <2>1, Induction
<1> QED BY <1>3

LEMMA RenumberedIs ==
  ASSUME NEW q
  PROVE  \E f : /\ Renumbered(q) = f /\ f[0] = Onset
                /\ \A i \in 1..LastGroup : f[i] = Onward(q, f[i - 1], i)
<1> DEFINE f == CHOOSE f : NumberedUpTo(q, LastGroup, f)
<1>1. NumberedUpTo(q, LastGroup, f)
  BY NumberedExists, GroupsAssumption
<1>2. Renumbered(q) = f
  BY DEF Renumbered, NumberedUpTo, Onward, Onset, At
<1> HIDE DEF f
<1>3. f[0] = Onset
  BY <1>1, GroupsAssumption DEF NumberedUpTo
<1>4. ASSUME NEW i \in 1..LastGroup PROVE f[i] = Onward(q, f[i - 1], i)
  <2>1. i \in 0..LastGroup /\ i # 0
    BY GroupsAssumption
  <2> QED BY <2>1, <1>1 DEF NumberedUpTo
<1> QED BY <1>2, <1>3, <1>4

\* The rows while they are numbered: a group that is stored comes below the parent of the
\* move, a group whose turn has not come is as it was, and each has its number afterwards.
NumberedTo(q, i, all) ==
    /\ all.rows \in [GroupIds -> GroupRows] /\ all.ok \in BOOLEAN
    /\ \A g \in GroupIds : /\ all.rows[g].is = grp[g].is /\ all.rows[g].name = grp[g].name
                           /\ all.rows[g].parent = grp[g].parent
                              \/ (g \in Numbered(q) /\ grp[g].is = "live" /\ q.parent \in LiveTops /\ all.rows[g].parent = q.parent)
    /\ \A g \in GroupIds : g \notin Numbered(q) \/ NewPlace(q, g) > i => all.rows[g] = grp[g]
    /\ all.ok => \A g \in Numbered(q) : NewPlace(q, g) <= i /\ q.read[g] = grp[g].order => all.rows[g].order = 10 * NewPlace(q, g)

LEMMA NumberOne ==
  ASSUME GroupsInv, NEW q \in GroupAskRow, q.group \in GroupIds, NEW i \in 1..LastGroup, NEW before, NumberedTo(q, i - 1, before)
  PROVE  NumberedTo(q, i, Onward(q, before, i))
<1>1. /\ before.rows \in [GroupIds -> GroupRows] /\ before.ok \in BOOLEAN
      /\ \A g \in GroupIds : /\ before.rows[g].is = grp[g].is /\ before.rows[g].name = grp[g].name
                             /\ before.rows[g].parent = grp[g].parent
                                \/ (g \in Numbered(q) /\ grp[g].is = "live" /\ q.parent \in LiveTops /\ before.rows[g].parent = q.parent)
      /\ \A g \in GroupIds : g \notin Numbered(q) \/ NewPlace(q, g) > i - 1 => before.rows[g] = grp[g]
      /\ before.ok => \A g \in Numbered(q) : NewPlace(q, g) <= i - 1 /\ q.read[g] = grp[g].order => before.rows[g].order = 10 * NewPlace(q, g)
  BY DEF NumberedTo
<1>2. /\ Numbered(q) \subseteq GroupIds /\ \A g \in Numbered(q) : NewPlace(q, g) \in 1..LastGroup
      /\ \A g, h \in Numbered(q) : g # h => NewPlace(q, g) # NewPlace(q, h)
  BY NewPlaceIs
<1>3. i \in Nat /\ \A g \in Numbered(q) : NewPlace(q, g) \in Int
  BY <1>2
<1>4. CASE At(q, i) = {}
  <2>1. Onward(q, before, i) = before
    BY <1>4 DEF Onward
  <2>2. \A g \in Numbered(q) : NewPlace(q, g) # i
    BY <1>4 DEF At, Numbered
  <2>3. \A g \in Numbered(q) : (NewPlace(q, g) <= i <=> NewPlace(q, g) <= i - 1) /\ (NewPlace(q, g) > i => NewPlace(q, g) > i - 1)
    BY <1>3, <2>2
  <2> QED BY <1>1, <2>1, <2>3 DEF NumberedTo
<1>5. CASE At(q, i) # {}
  <2>1. PICK x \in At(q, i) : x = CHOOSE g \in At(q, i) : TRUE
    BY <1>5
  <2>2. x \in Numbered(q) /\ NewPlace(q, x) = i /\ x \in GroupIds
    BY <1>2 DEF At, Numbered
  <2>3. \A g \in Numbered(q) \ {x} : (NewPlace(q, g) <= i <=> NewPlace(q, g) <= i - 1) /\ (NewPlace(q, g) > i => NewPlace(q, g) > i - 1)
    BY <1>2, <1>3, <2>2
  <2>4. NewPlace(q, x) > i - 1 /\ ~(NewPlace(q, x) > i) /\ before.rows[x] = grp[x]
    BY <1>1, <1>3, <2>2
  <2>5. Onward(q, before, i) = Renumbers(q, before.rows, before.ok, i, x)
    BY <1>5, <2>1 DEF Onward
  <2>6. CASE ~before.ok \/ q.read[x] = 10 * i
    <3>1. Onward(q, before, i) = [rows |-> before.rows, ok |-> before.ok]
      BY <2>5, <2>6 DEF Renumbers
    <3>2. PICK all : all = [rows |-> before.rows, ok |-> before.ok]
      OBVIOUS
    <3>3. all.rows = before.rows /\ all.ok = before.ok
      BY <3>2
    <3>4. all.ok => \A g \in Numbered(q) : NewPlace(q, g) <= i /\ q.read[g] = grp[g].order => all.rows[g].order = 10 * NewPlace(q, g)
      BY <1>1, <2>2, <2>3, <2>4, <2>6, <3>3
    <3>5. NumberedTo(q, i, all)
      BY <1>1, <2>2, <2>3, <2>4, <3>3, <3>4 DEF NumberedTo
    <3> QED BY <3>1, <3>2, <3>5
  <2>7. CASE before.ok /\ q.read[x] # 10 * i
    <3>1. CASE Onward(q, before, i) = [rows |-> before.rows, ok |-> FALSE]
      <4>1. PICK all : all = [rows |-> before.rows, ok |-> FALSE]
        OBVIOUS
      <4>2. all.rows = before.rows /\ all.ok = FALSE
        BY <4>1
      <4>3. NumberedTo(q, i, all)
        BY <1>1, <2>2, <2>3, <2>4, <4>2 DEF NumberedTo
      <4> QED BY <3>1, <4>1, <4>3
    <3>2. CASE /\ before.rows[x].is = "live" /\ q.parent \in LiveTops
               /\ Onward(q, before, i) = [rows |-> [before.rows EXCEPT ![x].parent = q.parent, ![x].order = 10 * i], ok |-> TRUE]
      <4>1. PICK row \in GroupRows : row = [before.rows[x] EXCEPT !.parent = q.parent, !.order = 10 * i]
        <5>1. before.rows[x] \in GroupRows /\ q.parent \in Tops /\ 10 * i \in Nat
          BY <1>1, <1>3, <2>2, <3>2, TopApart
        <5> QED BY <5>1 DEF GroupRows
      <4>2. row.is = grp[x].is /\ row.name = grp[x].name /\ row.parent = q.parent /\ row.order = 10 * i
        BY <1>1, <2>2, <2>4, <4>1 DEF GroupRows
      <4>3. PICK all : all = [rows |-> [before.rows EXCEPT ![x] = row], ok |-> TRUE]
        OBVIOUS
      <4>4. Onward(q, before, i) = all
        BY <1>1, <2>2, <3>2, <4>1, <4>3
      <4>5. /\ all.ok = TRUE /\ all.rows \in [GroupIds -> GroupRows] /\ all.rows[x] = row
            /\ \A g \in GroupIds \ {x} : all.rows[g] = before.rows[g]
        BY <1>1, <2>2, <4>3
      <4>6. \A g \in GroupIds : /\ all.rows[g].is = grp[g].is /\ all.rows[g].name = grp[g].name
                                /\ all.rows[g].parent = grp[g].parent
                                   \/ (g \in Numbered(q) /\ grp[g].is = "live" /\ q.parent \in LiveTops /\ all.rows[g].parent = q.parent)
        BY <1>1, <2>2, <2>4, <3>2, <4>2, <4>5
      <4>7. \A g \in GroupIds : g \notin Numbered(q) \/ NewPlace(q, g) > i => all.rows[g] = grp[g]
        BY <1>1, <2>2, <2>3, <2>4, <4>5
      <4>8. \A g \in Numbered(q) : NewPlace(q, g) <= i /\ q.read[g] = grp[g].order => all.rows[g].order = 10 * NewPlace(q, g)
        BY <1>1, <1>2, <2>2, <2>3, <2>7, <4>2, <4>5
      <4>9. NumberedTo(q, i, all)
        BY <4>5, <4>6, <4>7, <4>8 DEF NumberedTo
      <4> QED BY <4>4, <4>9
    <3> QED BY <2>5, <2>7, <3>1, <3>2 DEF Renumbers
  <2> QED BY <1>1, <2>6, <2>7
<1> QED BY <1>4, <1>5

LEMMA NumberedAll ==
  ASSUME GroupsInv, NEW q \in GroupAskRow, q.group \in GroupIds
  PROVE  NumberedTo(q, LastGroup, Renumbered(q)[LastGroup])
<1>1. PICK f : /\ Renumbered(q) = f /\ f[0] = Onset
               /\ \A i \in 1..LastGroup : f[i] = Onward(q, f[i - 1], i)
  BY RenumberedIs
<1> DEFINE D == {m \in Nat : m <= LastGroup => NumberedTo(q, m, f[m])}
<1>2. 0 \in D
  <2>1. \A g \in Numbered(q) : NewPlace(q, g) \in 1..LastGroup
    BY NewPlaceIs
  <2>2. \A g \in Numbered(q) : ~(NewPlace(q, g) <= 0)
    BY <2>1
  <2>3. Onset.rows = grp /\ Onset.ok = TRUE
    BY DEF Onset
  <2>4. NumberedTo(q, 0, Onset)
    BY <2>2, <2>3, GroupParts, GroupTypes DEF NumberedTo
  <2> QED BY <1>1, <2>4
<1>3. ASSUME NEW m \in D PROVE m + 1 \in D
  <2> SUFFICES ASSUME m + 1 <= LastGroup PROVE NumberedTo(q, m + 1, f[m + 1])
    OBVIOUS
  <2>1. m + 1 \in 1..LastGroup /\ (m + 1) - 1 = m /\ m <= LastGroup /\ NumberedTo(q, m, f[m])
    BY GroupsAssumption
  <2>2. f[m + 1] = Onward(q, f[m], m + 1)
    BY <1>1, <2>1
  <2>3. NumberedTo(q, m + 1, Onward(q, f[m], m + 1))
    BY <2>1, NumberOne
  <2> QED BY <2>2, <2>3
<1>4. D = Nat
  <2> HIDE DEF D
  <2>1. D \in SUBSET Nat
    BY DEF D
  <2> QED BY <1>2, <1>3, <2>1, Induction
<1>5. LastGroup \in D
  <2> HIDE DEF D
  <2> QED BY <1>4, GroupsAssumption
<1> QED BY <1>1, <1>5, GroupsAssumption

\* Unless moves overlapped, the numbering moves no group.
LEMMA NumberedStays ==
  ASSUME GroupsInv, NEW q \in GroupAskRow, q.group \in GroupIds, q.kind = "move", q.pc = "renumber",
         NEW all, NumberedTo(q, LastGroup, all), Rises(q)
  PROVE  \A g \in GroupIds : all.rows[g].parent = grp[g].parent
<1> SUFFICES ASSUME NEW g \in GroupIds, all.rows[g].parent = q.parent, g \in Numbered(q), grp[g].is = "live"
    PROVE  grp[g].parent = q.parent
  BY DEF NumberedTo
<1>1. g \in LiveGroups
  BY DEF LiveGroups
<1>2. CASE g = q.group
  BY <1>1, <1>2 DEF Rises
<1>3. CASE g \in Siblings(q)
  BY <1>1, <1>3 DEF Rises
<1> QED BY <1>2, <1>3 DEF Numbered

\* While nothing was in between, the group that moved is beside its target.
LEMMA NumberedMoves ==
  ASSUME GroupsInv, NEW q \in GroupAskRow, q.group \in GroupIds, q.kind = "move", q.pc = "renumber", q.target # 0, q.target # q.group,
         NumberedTo(q, LastGroup, [rows |-> grp', ok |-> TRUE]), Rises(q), Seen(q),
         moved' = [group |-> q.group, target |-> q.target, after |-> q.place = "after"]
  PROVE  MovedAsAsked'
<1>1. PICK all : all = [rows |-> grp', ok |-> TRUE]
  OBVIOUS
<1>2. all.rows = grp' /\ all.ok = TRUE /\ NumberedTo(q, LastGroup, all)
  BY <1>1
<1>3. \A g \in GroupIds : grp'[g].parent = grp[g].parent
  BY <1>2, NumberedStays
<1>4. \A g \in GroupIds : grp'[g].is = grp[g].is
  BY <1>2 DEF NumberedTo
<1>5. LiveGroups' = LiveGroups /\ LiveGroups \subseteq GroupIds
  BY <1>4 DEF LiveGroups
<1>6. /\ q.group \in LiveGroups /\ grp[q.group].parent = q.parent /\ Siblings(q) = Branch(q.parent) \ {q.group}
      /\ q.target \in Branch(q.parent) /\ q.read[q.group] = grp[q.group].order
      /\ \A g \in Siblings(q) : q.read[g] = grp[g].order
  BY DEF Seen
<1>7. PICK B \in SUBSET GroupIds : B = Branch(q.parent)
  BY <1>5 DEF Branch
<1>8. Branch(q.parent)' = B
  BY <1>3, <1>5, <1>7 DEF Branch
<1>9. B = Numbered(q) /\ q.group \in B
  BY <1>6, <1>7 DEF Numbered, Branch
<1>10. \A g \in B : NewPlace(q, g) \in 1..LastGroup
  BY <1>9, NewPlaceIs
<1>11. PICK at \in [B -> Int] : \A g \in B : at[g] = NewPlace(q, g)
  <2> DEFINE f == [g \in B |-> NewPlace(q, g)]
  <2>1. f \in [B -> Int] /\ \A g \in B : f[g] = NewPlace(q, g)
    BY <1>10
  <2> QED BY <2>1
<1>12. \A g, h \in B : g # h => at[g] # at[h]
  BY <1>9, <1>11, NewPlaceIs
<1>13. \A g \in B : grp'[g].order = 10 * at[g]
  <2>1. \A g \in B : NewPlace(q, g) <= LastGroup /\ q.read[g] = grp[g].order
    BY <1>6, <1>9, <1>10, GroupsAssumption DEF Numbered
  <2> QED BY <1>2, <1>9, <1>11, <2>1 DEF NumberedTo
<1>14. q.target \in Siblings(q) /\ q.target \in B
  BY <1>6, <1>7
<1>15. IF q.place = "after" THEN at[q.group] = at[q.target] + 1 ELSE at[q.target] = at[q.group] + 1
  BY <1>9, <1>11, <1>14, NewPlaceIs
<1>16. PICK orders : orders = [g \in GroupIds |-> grp'[g].order]
  OBVIOUS
<1>17. \A g, h \in B : Precedes(orders, g, h) <=> at[g] < at[h]
  <2> SUFFICES ASSUME NEW g \in B, NEW h \in B PROVE Precedes(orders, g, h) <=> at[g] < at[h]
    OBVIOUS
  <2>1. orders[g] = 10 * at[g] /\ orders[h] = 10 * at[h] /\ at[g] \in Int /\ at[h] \in Int /\ g \in Int /\ h \in Int
    BY <1>13, <1>16 DEF GroupIds
  <2>2. at[g] = at[h] => g = h
    BY <1>12
  <2> QED BY <2>1, <2>2 DEF Precedes
<1>18. PICK first, second : /\ first = IF q.place = "after" THEN q.target ELSE q.group
                            /\ second = IF q.place = "after" THEN q.group ELSE q.target
  OBVIOUS
<1>19. first \in B /\ second \in B /\ at[second] = at[first] + 1 /\ at[first] \in Int
  BY <1>9, <1>11, <1>14, <1>15, <1>18
<1>20. \A g \in B : at[g] \in Int /\ ~(at[first] < at[g] /\ at[g] < at[second])
  BY <1>11, <1>19
<1>21. Precedes(orders, first, second) /\ \A g \in B : ~(Precedes(orders, first, g) /\ Precedes(orders, g, second))
  BY <1>17, <1>19, <1>20
<1>22. grp'[q.group].parent = q.parent
  BY <1>3, <1>6, <1>9
<1>23. moved'.group = q.group /\ moved'.target = q.target /\ moved'.after = (q.place = "after")
  OBVIOUS
<1>24. Branch(grp[moved.group].parent)' = B
  BY <1>8, <1>22, <1>23 DEF Branch
<1> QED BY <1>16, <1>18, <1>19, <1>21, <1>23, <1>24 DEF MovedAsAsked, Precedes

LEMMA RenumberStep ==
  ASSUME GroupsInv, NEW r \in GroupAsks, Renumber(r)
  PROVE  GroupsInv'
<1>1. PICK q \in GroupAskRow : q = grpAsk[r]
  BY GroupParts, GroupTypes
<1>2. PICK all : all = Renumbered(q)[LastGroup]
  OBVIOUS
<1>3. /\ q.pc = "renumber" /\ q.kind = "move" /\ grp' = all.rows
      /\ moved' = IF all.ok THEN [group |-> q.group, target |-> q.target, after |-> q.place = "after"] ELSE NotMoved
      /\ GroupStored(r, "move") /\ GroupEnds(r) /\ housed' = housed
  BY <1>1, <1>2 DEF Renumber, GroupAt
<1>4. /\ Sound(q) /\ ({"move"} \notin grpRaced => Rises(q)) /\ (grpRaced = {} => Seen(q))
      /\ \A p \in GroupAsks : Sound(grpAsk[p])
  BY <1>1, GroupParts, AsksAre, MovesRiseIs
<1>5. q.group \in GroupIds /\ q.target # q.group /\ q.target \in GroupIds \cup {0}
  BY <1>3, <1>4 DEF Sound, GroupAskRow
<1>6. NumberedTo(q, LastGroup, all)
  BY <1>2, <1>5, NumberedAll
<1>7. /\ grp' \in [GroupIds -> GroupRows] /\ all.ok \in BOOLEAN
      /\ \A g \in GroupIds : /\ grp'[g].is = grp[g].is /\ grp'[g].name = grp[g].name
                             /\ grp'[g].parent = grp[g].parent \/ (q.parent \in LiveTops /\ grp'[g].parent = q.parent)
  BY <1>3, <1>6 DEF NumberedTo
<1>8. LiveGroups' = LiveGroups /\ FreeGroups' = FreeGroups /\ LiveTops' = LiveTops /\ LiveGroups \subseteq GroupIds
  BY <1>7 DEF LiveGroups, FreeGroups, LiveTops
<1>9. \A g \in LiveGroups' : grp'[g].parent \in LiveTops'
  BY <1>7, <1>8, GroupParts, GroupTypes
<1>10. PICK end \in GroupAskRow : end = [GroupIdle EXCEPT !.pc = "done"]
  BY GroupEndIs
<1>11. grpAsk' = [grpAsk EXCEPT ![r] = end] /\ end.pc = "done" /\ end.kind = "none" /\ \A g \in GroupIds : end.read[g] = Unread
  BY <1>3, <1>10, GroupEndIs DEF GroupEnds, GroupGoes
<1>12. /\ grpAsk' \in [GroupAsks -> GroupAskRow] /\ grpAsk'[r] = end
       /\ \A p \in GroupAsks : p # r => grpAsk'[p] = grpAsk[p]
  BY <1>11, GoesOn
<1>13. moved' \in [group : GroupIds \cup {0}, target : GroupIds \cup {0}, after : BOOLEAN]
  BY <1>3, <1>5 DEF NotMoved
<1>14. GroupsTypeOK'
  BY <1>3, <1>7, <1>8, <1>9, <1>12, <1>13, GroupParts, GroupTypes DEF GroupsTypeOK
<1>15. /\ grpRaced \subseteq grpRaced'
       /\ grpRaced' = {} => grpRaced = {} /\ \A p \in GroupAsks : p # r => grpAsk[p].pc \in {"new", "done"}
       /\ {"move"} \notin grpRaced' => \A p \in GroupAsks : p # r => grpAsk[p].kind # "move"
  BY <1>3, GroupStoresAlone
<1>16. ASSUME {"move"} \notin grpRaced PROVE \A g \in GroupIds : grp'[g].parent = grp[g].parent
  BY <1>3, <1>4, <1>5, <1>6, <1>16, NumberedStays
<1>17. GroupsShown'
  <2> SUFFICES ASSUME {"move"} \notin grpRaced' PROVE \A g \in LiveGroups' : ~Looped(g)'
    BY DEF GroupsShown
  <2>1. {"move"} \notin grpRaced /\ \A g \in GroupIds : grp'[g].parent = grp[g].parent
    BY <1>15, <1>16
  <2>2. Grows
    BY <1>8, <2>1 DEF Grows, LiveGroups, FreeGroups
  <2> QED BY <1>14, <2>1, <2>2, GrowsShown
<1>18. AskPlaces'
  <2>1. Sound(end)
    BY <1>11 DEF Sound
  <2>2. ASSUME NEW p \in GroupAsks PROVE Sound(grpAsk'[p])
    BY <1>4, <1>12, <2>1
  <2>3. \A p \in GroupAsks : Sound(grpAsk[p])'
    BY <2>2 DEF Sound
  <2> QED BY <2>3, AsksNext
<1>19. MovesRise'
  <2>1. ASSUME {"move"} \notin grpRaced', NEW p \in GroupAsks PROVE Rises(grpAsk[p])'
    <3>1. grpAsk'[p].kind # "move"
      BY <1>11, <1>12, <1>15, <2>1
    <3> QED BY <3>1 DEF Rises
  <2> QED BY <2>1, AsksNext
<1>20. AsSeen'
  <2>1. ASSUME grpRaced' = {}, NEW p \in GroupAsks PROVE Seen(grpAsk[p])'
    <3>1. grpAsk'[p].kind = "none"
      BY <1>4, <1>11, <1>12, <1>15, <2>1 DEF Sound
    <3> QED BY <3>1 DEF Seen
  <2> QED BY <2>1, AsksNext
<1>21. ASSUME grpRaced' = {} PROVE Apart'
  <2>1. Apart /\ \A g \in GroupIds : grp'[g].parent = grp[g].parent
    BY <1>15, <1>16, <1>21, GroupParts, SiblingsNamedIs
  <2> QED BY <1>7, <1>8, <2>1 DEF Apart
<1>22. MovedAsAsked'
  <2>1. CASE ~(grpRaced' = {} /\ moved'.target # 0)
    BY <2>1 DEF MovedAsAsked
  <2>2. CASE grpRaced' = {} /\ moved'.target # 0
    <3>1. all.ok
      BY <1>3, <2>2 DEF NotMoved
    <3>2. moved' = [group |-> q.group, target |-> q.target, after |-> q.place = "after"]
      BY <1>3, <3>1
    <3>3. q.target # 0 /\ Seen(q) /\ Rises(q)
      BY <1>4, <1>15, <2>2, <3>2
    <3>4. NumberedTo(q, LastGroup, [rows |-> grp', ok |-> TRUE])
      <4>1. PICK some : some = [rows |-> grp', ok |-> TRUE]
        OBVIOUS
      <4>2. some.rows = all.rows /\ some.ok = TRUE
        BY <1>3, <4>1
      <4>3. NumberedTo(q, LastGroup, some)
        BY <1>6, <3>1, <4>2 DEF NumberedTo
      <4> QED BY <4>1, <4>3
    <3> QED BY <1>3, <1>5, <3>2, <3>3, <3>4, NumberedMoves
  <2> QED BY <2>1, <2>2
<1> QED BY <1>14, <1>17, <1>18, <1>19, <1>20, <1>21, <1>22, SiblingsNamedNext DEF GroupsInv
----------------------------------------------------------------------------
(* The invariant. *)

LEMMA GroupsStart == GroupsInit => GroupsInv
<1> SUFFICES ASSUME GroupsInit PROVE GroupsInv
  OBVIOUS
<1>1. /\ grp \in [GroupIds -> {NoGroup} \cup {GroupRow(n, p, o) : n \in GroupNames, p \in Tops, o \in Nat}]
      /\ \A g \in LiveGroups : grp[g].parent \in LiveTops /\ ~Looped(g) /\ NameFree(g, grp[g].parent, grp[g].name)
      /\ housed \in SUBSET LiveGroups
      /\ grpAsk = [r \in GroupAsks |-> GroupIdle] /\ grpRaced = {} /\ moved = NotMoved
  BY DEF GroupsInit
<1>2. {NoGroup} \cup {GroupRow(n, p, o) : n \in GroupNames, p \in Tops, o \in Nat} \subseteq GroupRows
  BY GroupsAssumption DEF NoGroup, GroupRow, GroupRows, Tops
<1>3. grp \in [GroupIds -> GroupRows]
  BY <1>1, <1>2
<1>4. GroupIdle \in GroupAskRow /\ GroupIdle.pc = "new" /\ GroupIdle.kind = "none" /\ \A g \in GroupIds : GroupIdle.read[g] = Unread
  BY GroupsAssumption DEF GroupIdle, GroupAskRow, Tops
<1>5. grpAsk \in [GroupAsks -> GroupAskRow] /\ \A r \in GroupAsks : grpAsk[r] = GroupIdle
  BY <1>1, <1>4
<1>6. GroupsTypeOK
  BY <1>1, <1>3, <1>5 DEF GroupsTypeOK, NotMoved
<1>7. Sound(GroupIdle) /\ Rises(GroupIdle) /\ Seen(GroupIdle)
  BY <1>4 DEF Sound, Rises, Seen
<1>8. AskPlaces /\ AsSeen /\ MovesRise
  BY <1>5, <1>7, AsksAre, MovesRiseIs
<1>9. GroupsShown /\ SiblingsNamed
  BY <1>1 DEF GroupsShown, SiblingsNamed
<1>10. MovedAsAsked
  BY <1>1 DEF MovedAsAsked, NotMoved
<1> QED BY <1>6, <1>8, <1>9, <1>10 DEF GroupsInv

LEMMA GroupsStutter ==
  ASSUME GroupsInv, UNCHANGED groupVars
  PROVE  GroupsInv'
<1>1. grp' = grp /\ housed' = housed /\ grpAsk' = grpAsk /\ grpRaced' = grpRaced /\ moved' = moved
  BY DEF groupVars
<1>2. LiveGroups' = LiveGroups /\ LiveTops' = LiveTops /\ \A g : Looped(g)' <=> Looped(g)
  BY <1>1, SameTree
<1>3. GroupsTypeOK'
  BY <1>1, <1>2, GroupParts DEF GroupsTypeOK
<1>4. ASSUME NEW p \in GroupAsks
      PROVE  /\ Sound(grpAsk[p])' /\ ({"move"} \notin grpRaced => Rises(grpAsk[p])')
             /\ (grpRaced = {} => Seen(grpAsk[p])')
  <2>1. PICK o : o = grpAsk[p]
    OBVIOUS
  <2>2. Sound(o) /\ ({"move"} \notin grpRaced => Rises(o)) /\ (grpRaced = {} => Seen(o))
    BY <2>1, GroupParts, AsksAre, MovesRiseIs
  <2>3. Sound(o)' /\ ({"move"} \notin grpRaced => Rises(o)') /\ (grpRaced = {} => Seen(o)')
    BY <1>1, <2>2, SameRises
  <2> QED BY <1>1, <2>1, <2>3 DEF Sound, Rises, Seen
<1>5. AskPlaces' /\ AsSeen' /\ MovesRise'
  BY <1>1, <1>4, AsksNext
<1>6. GroupsShown' /\ SiblingsNamed'
  BY <1>1, <1>2, GroupParts, SameTree DEF GroupsShown, SiblingsNamed
<1>7. MovedAsAsked'
  BY <1>1, GroupParts, SameMoved
<1> QED BY <1>3, <1>5, <1>6, <1>7 DEF GroupsInv

LEMMA GroupsKept == GroupsInv /\ [GroupsNext]_groupVars => GroupsInv'
<1> SUFFICES ASSUME GroupsInv, [GroupsNext]_groupVars PROVE GroupsInv'
  OBVIOUS
<1>1. CASE UNCHANGED groupVars
  BY <1>1, GroupsStutter
<1>2. CASE GroupsNext
  <2>1. PICK r \in GroupAsks :
        \/ LookForNew(r) \/ LookForRename(r) \/ LookForMove(r) \/ LookForDelete(r) \/ NewGroup(r)
        \/ RenameGroup(r) \/ MoveGroup(r) \/ ReadSiblings(r) \/ Renumber(r)
        \/ DeleteGroup(r) \/ GroupRefused(r) \/ LookForDefault(r) \/ MakeDefault(r)
        \/ House(r) \/ Vacate(r) \/ ImportGroup(r)
    BY <1>2 DEF GroupsNext
  <2>2. CASE GroupRefused(r)
    BY <2>2, GroupParts, GroupTypes, EndsStep DEF GroupRefused
  <2>3. CASE House(r)
    BY <2>3, GroupParts, GroupTypes, EndsStep DEF House
  <2>4. CASE Vacate(r)
    BY <2>4, GroupParts, GroupTypes, EndsStep DEF Vacate
  <2> QED BY <2>1, <2>2, <2>3, <2>4, LookForNewStep, LookForRenameStep, LookForMoveStep, LookForDeleteStep,
          NewGroupStep, RenameGroupStep, MoveGroupStep, ReadSiblingsStep, RenumberStep, DeleteGroupStep,
          LookForDefaultStep, MakeDefaultStep, ImportGroupStep
<1> QED BY <1>1, <1>2

----------------------------------------------------------------------------
(* The paths of a file. *)

LEMMA LastWord ==
  ASSUME NEW S, NEW s \in Seq(S), NEW t \in Seq(S), NEW a \in S, NEW b \in S
  PROVE  /\ s \o <<a>> \in Seq(S) /\ s \o <<a>> # <<>>
         /\ s \o <<a>> = t \o <<b>> => s = t /\ a = b
<1>1. s \o <<a>> \in Seq(S) /\ Len(s \o <<a>>) = Len(s) + 1 /\ Len(s) \in Nat /\ Len(t) \in Nat
  OBVIOUS
<1>2. ASSUME s \o <<a>> = t \o <<b>> PROVE s = t /\ a = b
  <2>1. Len(s) = Len(t)
    <3>1. Len(t \o <<b>>) = Len(t) + 1
      OBVIOUS
    <3> QED BY <1>1, <1>2, <3>1
  <2>2. ASSUME NEW i \in 1..Len(s) PROVE s[i] = t[i]
    <3>1. (s \o <<a>>)[i] = s[i] /\ (t \o <<b>>)[i] = t[i]
      BY <2>1
    <3> QED BY <1>2, <3>1
  <2>3. (s \o <<a>>)[Len(s) + 1] = a /\ (t \o <<b>>)[Len(t) + 1] = b
    OBVIOUS
  <2> QED BY <1>2, <2>1, <2>2, <2>3
<1>3. s \o <<a>> # <<>>
  BY <1>1
<1> QED BY <1>1, <1>2, <1>3

PathRow(before, i) == [h \in Tops |-> IF i = 0 \/ h = TreeTop THEN <<>> ELSE before[grp[h].parent] \o grp[h].name]
PathsUpTo(n, f) == f = [i \in 0..n |-> PathRow(f[i - 1], i)]

LEMMA PathsExist ==
  ASSUME NEW n \in Nat
  PROVE  \E f : PathsUpTo(n, f)
<1> DEFINE D == {m \in Nat : \E f : PathsUpTo(m, f)}
<1>1. 0 \in D
  <2> DEFINE f == [i \in 0..0 |-> PathRow(0, 0)]
  <2>1. \A x : PathRow(x, 0) = PathRow(0, 0)
    BY DEF PathRow
  <2>2. f = [i \in 0..0 |-> PathRow(f[i - 1], i)]
    BY <2>1
  <2>3. PathsUpTo(0, f)
    BY <2>2 DEF PathsUpTo
  <2> QED BY <2>3
<1>2. ASSUME NEW m \in D PROVE m + 1 \in D
  <2>1. m \in Nat
    OBVIOUS
  <2>2. PICK f : PathsUpTo(m, f)
    OBVIOUS
  <2> DEFINE last == PathRow(f[m], m + 1)
             g == [i \in 0..(m + 1) |-> IF i <= m THEN f[i] ELSE last]
  <2>3. \A i \in 0..m : f[i] = PathRow(f[i - 1], i)
    BY <2>2 DEF PathsUpTo
  <2>4. \A i \in 0..m : g[i] = f[i]
    BY <2>1
  <2>5. g[m + 1] = last
    BY <2>1
  <2>6. ASSUME NEW i \in 0..(m + 1) PROVE g[i] = PathRow(g[i - 1], i)
    <3>1. CASE i = m + 1
      <4>1. i - 1 = m /\ m \in 0..m
        BY <3>1, <2>1
      <4>2. g[i - 1] = f[m]
        BY <4>1, <2>4
      <4> HIDE DEF g
      <4> QED BY <4>1, <4>2, <3>1, <2>5
    <3>2. CASE i = 0
      <4>1. 0 \in 0..m /\ \A x, y : PathRow(x, 0) = PathRow(y, 0)
        BY <2>1 DEF PathRow
      <4> HIDE DEF g
      <4> QED BY <4>1, <3>2, <2>3, <2>4
    <3>3. CASE i # m + 1 /\ i # 0
      <4>1. i \in 0..m /\ i - 1 \in 0..m
        BY <3>3, <2>1
      <4>2. g[i] = f[i] /\ g[i - 1] = f[i - 1]
        BY <4>1, <2>4
      <4> HIDE DEF g
      <4> QED BY <4>1, <4>2, <3>3, <2>3
    <3> QED BY <3>1, <3>2, <3>3
  <2>7. g = [i \in 0..(m + 1) |-> PathRow(g[i - 1], i)]
    <3> DEFINE h == [i \in 0..(m + 1) |-> PathRow(g[i - 1], i)]
    <3>1. \A i \in 0..(m + 1) : g[i] = h[i]
      BY <2>6
    <3>2. DOMAIN g = 0..(m + 1) /\ DOMAIN h = 0..(m + 1)
      OBVIOUS
    <3>3. g = [i \in 0..(m + 1) |-> g[i]] /\ h = [i \in 0..(m + 1) |-> h[i]]
      OBVIOUS
    <3> QED BY <3>1, <3>2, <3>3
  <2>8. PathsUpTo(m + 1, g)
    BY <2>7 DEF PathsUpTo
  <2> QED BY <2>1, <2>8
<1>3. D = Nat
  <2> HIDE DEF D
  <2>1. D \in SUBSET Nat
    BY DEF D
  <2> QED BY <1>1, <1>2, <2>1, Induction
<1> QED BY <1>3

LEMMA PathIs ==
  \E f : /\ \A g : PathOf(g) = f[LastGroup + 1][g]
         /\ \A i \in 0..LastGroup + 1 : f[i] = PathRow(f[i - 1], i)
<1> DEFINE f == CHOOSE f : PathsUpTo(LastGroup + 1, f)
<1>1. LastGroup + 1 \in Nat
  BY GroupsAssumption
<1>2. PathsUpTo(LastGroup + 1, f)
  BY <1>1, PathsExist
<1>3. \A g : PathOf(g) = f[LastGroup + 1][g]
  BY DEF PathOf, PathsUpTo, PathRow
<1> HIDE DEF f
<1>4. \A i \in 0..LastGroup + 1 : f[i] = PathRow(f[i - 1], i)
  BY <1>2 DEF PathsUpTo
<1> QED BY <1>3, <1>4

\* How many groups are on the way to the root.
Depth(g) == Cardinality(Above(g) \cap GroupIds)

LEMMA DepthIs ==
  ASSUME GroupsTypeOK
  PROVE  /\ \A g \in Tops : Depth(g) \in Nat /\ Depth(g) <= LastGroup
         /\ \A g \in LiveGroups : g \notin Above(grp[g].parent) => Depth(grp[g].parent) < Depth(g)
<1>1. ASSUME NEW g \in Tops PROVE Depth(g) \in Nat /\ Depth(g) <= LastGroup
  BY SomeGroups DEF Depth
<1>2. ASSUME NEW g \in LiveGroups, g \notin Above(grp[g].parent) PROVE Depth(grp[g].parent) < Depth(g)
  <2>1. PICK S \in SUBSET GroupIds : S = Above(g) \cap GroupIds
    OBVIOUS
  <2>2. PICK T \in SUBSET GroupIds : T = Above(grp[g].parent) \cap GroupIds
    OBVIOUS
  <2>3. g \in S /\ g \notin T /\ T \subseteq S
    BY <1>2, <2>1, <2>2, AboveLive DEF LiveGroups
  <2>4. Cardinality(T) < Cardinality(S)
    BY <2>3, SomeGroups
  <2> QED BY <2>1, <2>2, <2>4 DEF Depth
<1> QED BY <1>1, <1>2

LEMMA PathsApart ==
  ASSUME GroupsTypeOK, Apart, \A g \in LiveGroups : g \notin Above(grp[g].parent) /\ Len(grp[g].name) = 1
  PROVE  \A g, h \in LiveGroups : PathOf(g) = PathOf(h) => g = h
<1>1. PICK f : /\ \A g : PathOf(g) = f[LastGroup + 1][g]
               /\ \A i \in 0..LastGroup + 1 : f[i] = PathRow(f[i - 1], i)
  BY PathIs
<1>2. LastGroup \in Nat /\ LastGroup + 1 \in Nat /\ LiveTops \subseteq Tops /\ TreeTop \notin LiveGroups
  BY GroupsAssumption, TopApart
<1>3. \A g \in LiveGroups : /\ g \in GroupIds /\ grp[g].parent \in LiveTops /\ Depth(grp[g].parent) < Depth(g)
                            /\ Depth(grp[g].parent) \in Nat /\ Depth(g) \in Nat
  BY <1>2, GroupTypes, DepthIs DEF LiveGroups, LiveTops
<1>4. \A g \in LiveGroups : \E a \in Words : grp[g].name = <<a>>
  <2> SUFFICES ASSUME NEW g \in LiveGroups PROVE \E a \in Words : grp[g].name = <<a>>
    OBVIOUS
  <2>1. grp[g].name \in GroupNames /\ Len(grp[g].name) = 1
    BY <1>3, GroupTypes
  <2>2. grp[g].name \in Seq(Words)
    BY <2>1, GroupsAssumption
  <2>3. PICK s \in Seq(Words) : s = grp[g].name
    BY <2>2
  <2>4. Len(s) = 1 /\ s[1] \in Words /\ s = <<s[1]>>
    BY <2>1, <2>3
  <2> QED BY <2>3, <2>4
<1> DEFINE Told(n) == \A g \in LiveTops : f[n][g] \in Seq(Words)
           Tells(n) == \A g, h \in LiveTops : Depth(g) <= n /\ Depth(h) <= n /\ f[n][g] = f[n][h] => g = h
           D == {n \in Nat : n <= LastGroup + 1 => Told(n) /\ Tells(n)}
<1>a. <<>> \in Seq(Words)
  OBVIOUS
<1>5. \A g \in LiveTops : f[0][g] = <<>>
  <2>1. f[0] = PathRow(f[0 - 1], 0)
    BY <1>1, <1>2
  <2> QED BY <1>2, <2>1 DEF PathRow
<1>6. 0 \in D
  <2>1. Told(0)
    BY <1>a, <1>5
  <2>2. Tells(0)
    <3>1. \A g \in LiveGroups : ~(Depth(g) <= 0)
      BY <1>3
    <3> QED BY <3>1 DEF LiveTops
  <2> QED BY <2>1, <2>2
<1>7. ASSUME NEW n \in D PROVE n + 1 \in D
  <2> SUFFICES ASSUME n + 1 <= LastGroup + 1 PROVE Told(n + 1) /\ Tells(n + 1)
    OBVIOUS
  <2>1. n \in Nat /\ n + 1 \in 0..LastGroup + 1 /\ (n + 1) - 1 = n /\ Told(n) /\ Tells(n)
    BY <1>2
  <2>2. f[n + 1] = PathRow(f[n], n + 1)
    BY <1>1, <2>1
  <2>3. f[n + 1][TreeTop] = <<>>
    BY <2>1, <2>2 DEF PathRow, Tops
  <2>4. \A g \in LiveGroups : f[n + 1][g] = f[n][grp[g].parent] \o grp[g].name
    <3> SUFFICES ASSUME NEW g \in LiveGroups PROVE f[n + 1][g] = f[n][grp[g].parent] \o grp[g].name
      OBVIOUS
    <3>1. g \in Tops /\ g # TreeTop /\ n + 1 # 0
      BY <1>2, <1>3, <2>1 DEF Tops
    <3> QED BY <2>2, <3>1 DEF PathRow
  <2>5. Told(n + 1)
    <3> SUFFICES ASSUME NEW g \in LiveGroups PROVE f[n + 1][g] \in Seq(Words)
      BY <1>a, <2>3 DEF LiveTops
    <3>1. PICK a \in Words : grp[g].name = <<a>>
      BY <1>4
    <3>2. PICK s \in Seq(Words) : s = f[n][grp[g].parent]
      BY <1>3, <2>1
    <3>3. f[n + 1][g] = s \o <<a>>
      BY <2>4, <3>1, <3>2
    <3> QED BY <3>3, LastWord
  <2>6. ASSUME NEW g \in LiveGroups PROVE f[n + 1][g] # <<>>
    <3>1. PICK a \in Words : grp[g].name = <<a>>
      BY <1>4
    <3>2. PICK s \in Seq(Words) : s = f[n][grp[g].parent]
      BY <1>3, <2>1
    <3>3. f[n + 1][g] = s \o <<a>>
      BY <2>4, <2>6, <3>1, <3>2
    <3> QED BY <3>3, LastWord
  <2>7. ASSUME NEW g \in LiveGroups, NEW h \in LiveGroups, Depth(g) <= n + 1, Depth(h) <= n + 1, f[n + 1][g] = f[n + 1][h]
        PROVE  g = h
    <3>1. PICK a \in Words, b \in Words : grp[g].name = <<a>> /\ grp[h].name = <<b>>
      BY <1>4
    <3>2. PICK s \in Seq(Words), t \in Seq(Words) : s = f[n][grp[g].parent] /\ t = f[n][grp[h].parent]
      BY <1>3, <2>1
    <3>3. s \o <<a>> = t \o <<b>>
      BY <2>4, <2>7, <3>1, <3>2
    <3>4. s = t /\ a = b
      BY <3>3, LastWord
    <3>5. Depth(grp[g].parent) <= n /\ Depth(grp[h].parent) <= n
      BY <1>3, <2>1, <2>7
    <3>6. grp[g].parent = grp[h].parent
      BY <1>3, <2>1, <3>2, <3>4, <3>5
    <3> QED BY <3>1, <3>4, <3>6 DEF Apart
  <2>8. Tells(n + 1)
    BY <2>3, <2>6, <2>7 DEF LiveTops
  <2> QED BY <2>5, <2>8
<1>8. D = Nat
  <2> HIDE DEF D
  <2>1. D \in SUBSET Nat
    BY DEF D
  <2> QED BY <1>6, <1>7, <2>1, Induction
<1>9. Tells(LastGroup + 1)
  <2>1. LastGroup + 1 \in D
    BY <1>2, <1>8
  <2> QED BY <1>2, <2>1
<1>10. \A g \in LiveGroups : Depth(g) <= LastGroup + 1 /\ g \in LiveTops
  BY <1>2, <1>3, DepthIs DEF Tops, LiveTops
<1> QED BY <1>1, <1>9, <1>10

LEMMA PathsLead == GroupsInv => PathsFindGroups
<1> SUFFICES ASSUME GroupsInv, grpRaced = {}, \A g \in LiveGroups : Len(grp[g].name) = 1
    PROVE  \A g, h \in LiveGroups : PathOf(g) = PathOf(h) => g = h
  BY DEF PathsFindGroups
<1>1. Apart /\ \A g \in LiveGroups : g \notin Above(grp[g].parent)
  BY GroupParts, SiblingsNamedIs, LoopedIs DEF GroupsShown
<1> QED BY <1>1, GroupParts, PathsApart
----------------------------------------------------------------------------
\* Groups keep their rows, and a group that is there has a parent that is there: a request
\* that deletes takes all that is below (host_group_detail DELETE).
THEOREM GroupTypesCorrect == GroupsSpec => []GroupsTypeOK
BY GroupsStart, GroupsKept, PTL DEF GroupsSpec, GroupsInv

\* No group is lost from the tree the portal shows, unless two moves overlapped: a move is
\* refused below what it moves, and only another move can have changed that since.
THEOREM GroupsStayShown == GroupsSpec => []GroupsShown
BY GroupsStart, GroupsKept, PTL DEF GroupsSpec, GroupsInv

\* A group that was moved next to a sibling is next to it, on the side that was asked for,
\* whatever the numbers of the siblings were (reorder_group).
THEOREM MovesObey == GroupsSpec => []MovedAsAsked
BY GroupsStart, GroupsKept, PTL DEF GroupsSpec, GroupsInv

\* The path that an export gives a group finds that group again, while requests have not
\* overlapped and names have no slash (ensure_group_by_path).
THEOREM PathsAreSound == GroupsSpec => []PathsFindGroups
BY GroupsStart, GroupsKept, PathsLead, PTL DEF GroupsSpec
----------------------------------------------------------------------------
(* Applications on managed hosts: ApplicationMarket. *)

\* A task has a thread and perhaps a cancel on its way; what is no task has neither.
OfTasks == \A t \in MarketTasks : ~mtask[t].is => mrunner[t] = NoRunner /\ canceler[t] = NoCancel

\* While the target has not been edited it leads where the plans were shown for.
SamePlace == "moved" \notin tale =>
    /\ leadsTo \in MarketMachines
    /\ shown.is => shown.at = leadsTo
    /\ \A t \in MarketTasks : mtask[t].is => mtask[t].seen.at = leadsTo

\* What a thread has done at each of its places.
Places == \A t \in MarketTasks : LET m == mrunner[t] IN
    /\ m.pc \in {"none", "ready", "read", "running"} => ~m.sent
    /\ m.pc \in {"told", "done"} => m.told \in EndedStatuses
    /\ m.heeds => m.pc \in {"ready", "done", "dead"} /\ ~m.sent
    /\ m.heeds /\ m.pc = "ready" => mtask[t].cancel
    /\ m.pc = "done" /\ ~m.late => canceler[t] = NoCancel

\* There is one cancel.
OneCancel == \A t \in MarketTasks : canceler[t] # NoCancel =>
    /\ \A u \in MarketTasks : u # t => canceler[u] = NoCancel
    /\ \A u \in MarketTasks : mtask[u].is => ~mtask[u].cancel

\* The row of the installation, while there is nothing to tell.
TrueSoFar == tale = {} =>
    /\ lingering = {} /\ leadsTo \in MarketMachines
    /\ installed.is <=> box[leadsTo].up # "none"
    /\ installed.is => installed.status = box[leadsTo].up /\ installed.version = box[leadsTo].version

MarketInv == MarketTypeOK /\ OfTasks /\ SamePlace /\ Places /\ OneCancel /\ TrueSoFar
             /\ ConfirmedRuns /\ CancelHeeded /\ OutcomeTold

LEMMA MarketFacts ==
  ASSUME MarketInv, NEW t \in MarketTasks
  PROVE  /\ mtask[t] \in TaskRow \cup {NoTask} /\ mrunner[t] \in RunnerRow
         /\ mtask[t].is \in BOOLEAN
         /\ mtask[t].is => mtask[t] \in TaskRow
         /\ mrunner[t].pc # "none" => mtask[t].is
         /\ canceler[t] # NoCancel => mtask[t].is
         /\ canceler[t] \in OpenStatuses \cup {NoCancel}
<1>1. mtask[t] \in TaskRow \cup {NoTask} /\ mrunner[t] \in RunnerRow
      /\ canceler[t] \in OpenStatuses \cup {NoCancel}
  BY DEF MarketInv, MarketTypeOK
<1>2. mtask[t].is \in BOOLEAN /\ (mtask[t].is => mtask[t] \in TaskRow)
  <2>1. CASE mtask[t] \in TaskRow
    BY <2>1 DEF TaskRow
  <2>2. CASE mtask[t] = NoTask
    BY <2>2 DEF NoTask
  <2> QED BY <1>1, <2>1, <2>2
<1> QED BY <1>1, <1>2 DEF MarketInv, OfTasks, NoRunner

\* What docker compose makes of a machine.
LEMMA ComposeTyped ==
  ASSUME NEW b \in Box, NEW plan \in Plans
  PROVE  /\ ComposeActs(b, plan) \in Box
         /\ Records(plan) \in Installation \cup {NotInstalled}
<1>1. CASE plan.action \in {"install", "update"}
  BY <1>1 DEF ComposeActs, Records, Box, Plans, Installation, Versions
<1>2. CASE plan.action = "uninstall"
  BY <1>2 DEF ComposeActs, Records, Box, Plans
<1>3. CASE plan.action = "stop"
  BY <1>3 DEF ComposeActs, Records, Box, Plans, Installation
<1>4. CASE plan.action \notin {"install", "update", "uninstall", "stop"}
  BY <1>4 DEF ComposeActs, Records, Box, Plans, Installation
<1> QED BY <1>1, <1>2, <1>3, <1>4

\* A command that failed leaves a machine that is one.
LEMMA HalfDoneTyped ==
  ASSUME NEW b \in Box, NEW plan \in Plans
  PROVE  HalfDone(b, plan) \subseteq Box
BY DEF HalfDone, Box, Plans

\* What is recorded is what the command did, but for what the tale tells.
LEMMA RecordedAsDone ==
  ASSUME NEW b \in Box, NEW plan \in Plans, MarketAssumption, ~Blind(b, plan),
         plan.action \in {"start", "stop", "restart"} => plan.version = b.version
  PROVE  LET c == ComposeActs(b, plan)
             i == Records(plan) IN
         /\ i.is <=> c.up # "none"
         /\ i.is => i.status = c.up /\ i.version = c.version
<1>1. plan.action \in {"install", "update", "uninstall", "start", "stop", "restart"}
  BY DEF MarketAssumption, Plans
<1>2. CASE plan.action \in {"install", "update"}
  BY <1>2 DEF ComposeActs, Records
<1>3. CASE plan.action = "uninstall"
  BY <1>3 DEF ComposeActs, Records, Box, NotInstalled
<1>4. CASE plan.action = "stop"
  BY <1>4 DEF ComposeActs, Records, Box, Blind
<1>5. CASE plan.action \in {"start", "restart"}
  BY <1>5 DEF ComposeActs, Records, Box, Blind
<1> QED BY <1>1, <1>2, <1>3, <1>4, <1>5

\* A thread moves, perhaps with its task's row.
LEMMA ThreadMoves ==
  ASSUME MarketInv, NEW t \in MarketTasks, mtask[t].is,
         NEW row \in TaskRow, NEW m \in RunnerRow,
         mtask' = [mtask EXCEPT ![t] = row], mrunner' = [mrunner EXCEPT ![t] = m],
         row.plan = mtask[t].plan, row.seen = mtask[t].seen, row.cancel = mtask[t].cancel,
         UNCHANGED <<leadsTo, isLocal, version, shown, canceler>>,
         m.pc # "none",
         m.pc \in {"none", "ready", "read", "running"} => ~m.sent,
         m.pc \in {"told", "done"} => m.told \in EndedStatuses,
         m.heeds => m.pc \in {"ready", "done", "dead"} /\ ~m.sent,
         m.heeds /\ m.pc = "ready" => row.cancel,
         m.pc = "done" /\ ~m.late => canceler[t] = NoCancel /\ row.status = m.told,
         m.sent /\ ~mrunner[t].sent => m.at = leadsTo, m.sent /\ mrunner[t].sent => m.at = mrunner[t].at,
         tale \subseteq tale', tale' \subseteq Tales,
         box' \in [MarketMachines -> Box], lingering' \subseteq MarketMachines \X Plans,
         installed' \in Installation \cup {NotInstalled},
         TrueSoFar'
  PROVE  MarketInv'
<1>1. mtask' \in [MarketTasks -> TaskRow \cup {NoTask}] /\ mrunner' \in [MarketTasks -> RunnerRow]
  BY DEF MarketInv, MarketTypeOK
<1>2. /\ mtask'[t] = row /\ mrunner'[t] = m /\ row.is
      /\ \A u \in MarketTasks : u # t => mtask'[u] = mtask[u] /\ mrunner'[u] = mrunner[u]
  BY DEF MarketInv, MarketTypeOK, TaskRow
<1>3. MarketTypeOK'
  BY <1>1 DEF MarketInv, MarketTypeOK
<1>4. OfTasks'
  BY <1>2 DEF MarketInv, OfTasks
<1>5. SamePlace'
  BY <1>2 DEF MarketInv, SamePlace
<1>6. Places'
  BY <1>2 DEF MarketInv, Places
<1>7. OneCancel'
  BY <1>2 DEF MarketInv, OneCancel
<1>8. ConfirmedRuns'
  BY <1>2 DEF MarketInv, ConfirmedRuns, SamePlace
<1>9. CancelHeeded' /\ OutcomeTold'
  BY <1>2 DEF MarketInv, CancelHeeded, OutcomeTold
<1> QED BY <1>3, <1>4, <1>5, <1>6, <1>7, <1>8, <1>9 DEF MarketInv

LEMMA ThreadsKeepMarket ==
  ASSUME MarketInv, NEW t \in MarketTasks,
         \/ ReadTask(t) \/ MarkRunning(t) \/ CommandSucceeds(t) \/ RecordFails(t) \/ CommandFails(t)
         \/ TargetGone(t) \/ CommandGivenUp(t) \/ SaveOutcome(t)
  PROVE  MarketInv'
<1> DEFINE row == mtask[t]
           m == mrunner[t]
<1>a. m.pc \in {"ready", "read", "running", "told"}
  BY DEF ReadTask, MarkRunning, CommandSucceeds, CommandActs, RecordFails, CommandFails, TargetGone,
         CommandGivenUp, SaveOutcome
<1>b. row.is /\ row \in TaskRow /\ m \in RunnerRow /\ mtask = [mtask EXCEPT ![t] = row]
  BY <1>a, MarketFacts DEF MarketInv, MarketTypeOK
<1>c. /\ m.pc \in {"ready", "read", "running"} => ~m.sent
      /\ m.pc = "told" => m.told \in EndedStatuses
      /\ m.heeds => m.pc = "ready" /\ ~m.sent
      /\ m.heeds => row.cancel
  BY <1>a DEF MarketInv, Places
<1>d. /\ box \in [MarketMachines -> Box] /\ lingering \subseteq MarketMachines \X Plans
      /\ installed \in Installation \cup {NotInstalled} /\ tale \subseteq Tales /\ row.plan \in Plans
      /\ leadsTo \in MarketMachines \cup {NoMachine}
  BY <1>b DEF MarketInv, MarketTypeOK, TaskRow
<1>1. CASE ReadTask(t)
  <2>1. /\ m.pc = "ready" /\ UNCHANGED <<leadsTo, isLocal, version, box, lingering, installed, shown, canceler>>
        /\ tale \subseteq tale' /\ tale' \subseteq Tales
    BY <1>1, <1>d DEF ReadTask, Stays, Tales
  <2>2. TrueSoFar'
    BY <2>1 DEF MarketInv, TrueSoFar
  <2>3. CASE ~row.cancel
    <3>1. mrunner' = [mrunner EXCEPT ![t] = [m EXCEPT !.pc = "read"]] /\ UNCHANGED mtask
      BY <1>1, <2>3 DEF ReadTask, MayRun, Runs
    <3>2. PICK n \in RunnerRow : n = [m EXCEPT !.pc = "read"]
      BY <1>b DEF RunnerRow
    <3>3. /\ n.pc = "read" /\ n.sent = m.sent /\ n.heeds = m.heeds
      BY <1>b, <3>2 DEF RunnerRow
    <3> QED BY <1>b, <1>c, <1>d, <2>1, <2>2, <2>3, <3>1, <3>2, <3>3, ThreadMoves
  <2>4. CASE row.cancel
    <3>1. /\ mrunner' = [mrunner EXCEPT ![t] = [m EXCEPT !.pc = "done", !.told = "canceled"]]
          /\ mtask' = [mtask EXCEPT ![t].status = "canceled"]
      BY <1>1, <2>4 DEF ReadTask, MayRun, Runs
    <3>2. PICK n \in RunnerRow : n = [m EXCEPT !.pc = "done", !.told = "canceled"]
      BY <1>b DEF RunnerRow, EndedStatuses
    <3>3. n.pc = "done" /\ n.sent = m.sent /\ n.heeds = m.heeds /\ n.told = "canceled"
      BY <1>b, <3>2 DEF RunnerRow
    <3>4. PICK k \in TaskRow : k = [row EXCEPT !.status = "canceled"]
      BY <1>b DEF TaskRow, EndedStatuses
    <3>5. /\ k.plan = row.plan /\ k.seen = row.seen /\ k.cancel = row.cancel /\ k.status = "canceled"
          /\ mtask' = [mtask EXCEPT ![t] = k]
      BY <1>b, <3>1, <3>4 DEF TaskRow
    <3>6. canceler[t] = NoCancel
      BY <1>b, <2>4 DEF MarketInv, OneCancel
    <3>7. /\ n.pc # "none" /\ (n.pc \in {"none", "ready", "read", "running"} => ~n.sent)
          /\ n.pc \in {"told", "done"} => n.told \in EndedStatuses
          /\ n.heeds => n.pc \in {"ready", "done", "dead"} /\ ~n.sent
          /\ n.heeds /\ n.pc = "ready" => k.cancel
          /\ n.pc = "done" /\ ~n.late => canceler[t] = NoCancel /\ k.status = n.told
          /\ n.sent /\ ~mrunner[t].sent => n.at = leadsTo
          /\ n.sent /\ mrunner[t].sent => n.at = mrunner[t].at
      BY <1>b, <1>c, <2>1, <3>3, <3>5, <3>6 DEF EndedStatuses
    <3>8. mrunner' = [mrunner EXCEPT ![t] = n]
      BY <3>1, <3>2
    <3> QED BY <1>b, <1>d, <2>1, <2>2, <3>5, <3>7, <3>8, ThreadMoves
  <2> QED BY <2>3, <2>4
<1>2. CASE MarkRunning(t)
  <2>1. /\ m.pc = "read" /\ UNCHANGED <<leadsTo, isLocal, version, box, lingering, installed, shown, canceler, tale>>
        /\ mrunner' = [mrunner EXCEPT ![t] = [m EXCEPT !.pc = "running"]]
        /\ mtask' = [mtask EXCEPT ![t].status = "running"]
    BY <1>2 DEF MarkRunning, Stays, Runs
  <2>2. PICK n \in RunnerRow : n = [m EXCEPT !.pc = "running"]
    BY <1>b DEF RunnerRow
  <2>3. n.pc = "running" /\ n.sent = m.sent /\ n.heeds = m.heeds
    BY <1>b, <2>2 DEF RunnerRow
  <2>4. PICK k \in TaskRow : k = [row EXCEPT !.status = "running"]
    BY <1>b DEF TaskRow, OpenStatuses
  <2>5. /\ k.plan = row.plan /\ k.seen = row.seen /\ k.cancel = row.cancel
        /\ mtask' = [mtask EXCEPT ![t] = k]
    BY <1>b, <2>1, <2>4 DEF TaskRow
  <2>6. TrueSoFar'
    BY <2>1 DEF MarketInv, TrueSoFar
  <2> QED BY <1>b, <1>c, <1>d, <2>1, <2>2, <2>3, <2>4, <2>5, <2>6, ThreadMoves
<1>3. CASE CommandSucceeds(t)
  <2> DEFINE b == box[leadsTo]
             plan == row.plan
  <2>1. /\ m.pc = "running" /\ leadsTo \in MarketMachines
        /\ UNCHANGED <<leadsTo, isLocal, version, lingering, shown, canceler, mtask>>
        /\ box' = [box EXCEPT ![leadsTo] = ComposeActs(b, plan)] /\ installed' = Records(plan)
        /\ mrunner' = [mrunner EXCEPT ![t] = [m EXCEPT !.pc = "told", !.sent = TRUE, !.told = "success",
                                                       !.at = leadsTo]]
    BY <1>3, <1>d DEF CommandSucceeds, CommandActs, Ends, Stays, Runs
  <2>2. /\ tale \subseteq tale' /\ tale' \subseteq Tales
        /\ tale' = {} => /\ tale = {} /\ ~Blind(b, plan)
                         /\ plan.action \in {"start", "stop", "restart"} => plan.version = b.version
    BY <1>3, <1>d DEF CommandSucceeds, Tales
  <2>3. b \in Box /\ ComposeActs(b, plan) \in Box /\ installed' \in Installation \cup {NotInstalled}
    BY <1>d, <2>1, ComposeTyped
  <2>4. box' \in [MarketMachines -> Box] /\ box'[leadsTo] = ComposeActs(b, plan)
    BY <1>d, <2>1, <2>3
  <2>5. TrueSoFar'
    <3>1. SUFFICES ASSUME tale' = {}
                   PROVE  /\ lingering' = {} /\ leadsTo' \in MarketMachines
                          /\ installed'.is <=> box'[leadsTo'].up # "none"
                          /\ installed'.is => /\ installed'.status = box'[leadsTo'].up
                                              /\ installed'.version = box'[leadsTo'].version
      BY DEF TrueSoFar
    <3>2. LET c == ComposeActs(b, plan)
              i == Records(plan) IN
          /\ i.is <=> c.up # "none"
          /\ i.is => i.status = c.up /\ i.version = c.version
      BY <1>d, <2>2, <2>3, <3>1, RecordedAsDone, MarketAssumption
    <3> QED BY <2>1, <2>2, <2>4, <3>1, <3>2 DEF MarketInv, TrueSoFar
  <2>6. PICK n \in RunnerRow : n = [m EXCEPT !.pc = "told", !.sent = TRUE, !.told = "success", !.at = leadsTo]
    BY <1>b, <1>d DEF RunnerRow, EndedStatuses
  <2>7. n.pc = "told" /\ n.sent /\ n.told = "success" /\ n.at = leadsTo /\ n.heeds = m.heeds
    BY <1>b, <2>6 DEF RunnerRow
  <2> QED BY <1>b, <1>c, <1>d, <2>1, <2>2, <2>3, <2>4, <2>5, <2>6, <2>7, ThreadMoves DEF EndedStatuses
<1>4. ASSUME NEW told \in {"unknown", "failed"}, Ends(t, told), m.pc = "running", leadsTo \in MarketMachines,
             UNCHANGED <<leadsTo, isLocal, version, installed, shown, canceler, mtask>>,
             box' \in [MarketMachines -> Box], lingering' \subseteq MarketMachines \X Plans,
             tale \subseteq tale', tale' \subseteq Tales, TrueSoFar'
      PROVE  MarketInv'
  <2>1. PICK n \in RunnerRow : n = [m EXCEPT !.pc = "told", !.sent = TRUE, !.told = told, !.at = leadsTo]
    BY <1>b, <1>4 DEF RunnerRow, EndedStatuses
  <2>2. n.pc = "told" /\ n.sent /\ n.told = told /\ n.at = leadsTo /\ n.heeds = m.heeds
    BY <1>b, <2>1 DEF RunnerRow
  <2>3. mrunner' = [mrunner EXCEPT ![t] = n]
    BY <1>4, <2>1 DEF Ends, Runs
  <2>4. /\ n.pc # "none" /\ (n.pc \in {"none", "ready", "read", "running"} => ~n.sent)
        /\ n.pc \in {"told", "done"} => n.told \in EndedStatuses
        /\ n.heeds => n.pc \in {"ready", "done", "dead"} /\ ~n.sent
        /\ n.heeds /\ n.pc = "ready" => row.cancel
        /\ n.pc = "done" /\ ~n.late => canceler[t] = NoCancel /\ row.status = n.told
        /\ n.sent /\ ~mrunner[t].sent => n.at = leadsTo
        /\ n.sent /\ mrunner[t].sent => n.at = mrunner[t].at
    BY <1>b, <1>c, <1>4, <2>2 DEF EndedStatuses
  <2>5. mtask' = [mtask EXCEPT ![t] = row] /\ installed' \in Installation \cup {NotInstalled}
    BY <1>b, <1>d, <1>4
  <2> QED BY <1>b, <1>4, <2>3, <2>4, <2>5, ThreadMoves
<1>7. CASE RecordFails(t)
  <2>1. /\ m.pc = "running" /\ leadsTo \in MarketMachines /\ tale' = tale \cup {"unrecorded"}
        /\ UNCHANGED <<leadsTo, isLocal, version, installed, lingering, shown, canceler, mtask>>
        /\ box' = [box EXCEPT ![leadsTo] = ComposeActs(box[leadsTo], row.plan)] /\ Ends(t, "unknown")
    BY <1>7, <1>d DEF RecordFails, CommandActs, Stays
  <2>2. ComposeActs(box[leadsTo], row.plan) \in Box
    BY <1>d, <2>1, ComposeTyped
  <2>3. box' \in [MarketMachines -> Box]
    BY <1>d, <2>1, <2>2
  <2>4. TrueSoFar' /\ tale \subseteq tale' /\ tale' \subseteq Tales
    BY <1>d, <2>1 DEF TrueSoFar, Tales
  <2> QED BY <1>d, <1>4, <2>1, <2>3, <2>4
<1>8. CASE CommandFails(t)
  <2>1. /\ m.pc = "running" /\ leadsTo \in MarketMachines /\ Ends(t, "failed")
        /\ UNCHANGED <<leadsTo, isLocal, version, installed, lingering, shown, canceler, mtask>>
    BY <1>8, <1>d DEF CommandFails, Stays
  <2>2. PICK c \in HalfDone(box[leadsTo], row.plan) :
          /\ box' = [box EXCEPT ![leadsTo] = c]
          /\ tale' = IF c.up # box[leadsTo].up \/ c.version # box[leadsTo].version THEN tale \cup {"half done"} ELSE tale
    BY <1>8 DEF CommandFails
  <2>3. c \in Box
    BY <1>d, <2>1, HalfDoneTyped
  <2>4. box' \in [MarketMachines -> Box] /\ box'[leadsTo] = c
    BY <1>d, <2>1, <2>2, <2>3
  <2>5. tale \subseteq tale' /\ tale' \subseteq Tales
    BY <1>d, <2>2 DEF Tales
  <2>6. TrueSoFar'
    <3>1. SUFFICES ASSUME tale' = {}
                   PROVE  /\ lingering' = {} /\ leadsTo' \in MarketMachines
                          /\ installed'.is <=> box'[leadsTo].up # "none"
                          /\ installed'.is => /\ installed'.status = box'[leadsTo].up
                                              /\ installed'.version = box'[leadsTo].version
      BY <2>1 DEF TrueSoFar
    <3>2. tale = {} /\ c.up = box[leadsTo].up /\ c.version = box[leadsTo].version
      BY <2>2, <3>1
    <3> QED BY <2>1, <2>4, <3>2 DEF MarketInv, TrueSoFar
  <2> QED BY <1>d, <1>4, <2>1, <2>4, <2>5, <2>6
<1>9. CASE TargetGone(t)
  <2>1. /\ m.pc = "running"
        /\ UNCHANGED <<leadsTo, isLocal, version, box, lingering, installed, shown, canceler, tale, mtask>>
        /\ mrunner' = [mrunner EXCEPT ![t] = [m EXCEPT !.pc = "told", !.told = "unknown"]]
    BY <1>9 DEF TargetGone, Stays, Runs
  <2>3. PICK n \in RunnerRow : n = [m EXCEPT !.pc = "told", !.told = "unknown"]
    BY <1>b DEF RunnerRow, EndedStatuses
  <2>4. n.pc = "told" /\ n.sent = m.sent /\ n.told = "unknown" /\ n.heeds = m.heeds
    BY <1>b, <2>3 DEF RunnerRow
  <2>5. TrueSoFar'
    BY <2>1 DEF MarketInv, TrueSoFar
  <2> QED BY <1>b, <1>c, <1>d, <2>1, <2>3, <2>4, <2>5, ThreadMoves DEF EndedStatuses
<1>5. CASE CommandGivenUp(t)
  <2>1. /\ m.pc = "running" /\ leadsTo \in MarketMachines /\ tale' = tale \cup {"given up"}
        /\ UNCHANGED <<leadsTo, isLocal, version, box, installed, shown, canceler, mtask>>
        /\ lingering' = lingering \cup {<<leadsTo, row.plan>>}
    BY <1>5, <1>d DEF CommandGivenUp, Stays
  <2>2. PICK told \in {"unknown", "failed"} : Ends(t, told)
    BY <1>5 DEF CommandGivenUp
  <2>3. TrueSoFar' /\ tale \subseteq tale' /\ tale' \subseteq Tales
    BY <1>d, <2>1 DEF TrueSoFar, Tales
  <2>4. <<leadsTo, row.plan>> \in MarketMachines \X Plans
    BY <1>d, <2>1
  <2>5. box' \in [MarketMachines -> Box] /\ lingering' \subseteq MarketMachines \X Plans
    BY <1>d, <2>1, <2>4
  <2> QED BY <1>4, <2>1, <2>2, <2>3, <2>5
<1>6. CASE SaveOutcome(t)
  <2>1. /\ m.pc = "told"
        /\ UNCHANGED <<leadsTo, isLocal, version, box, lingering, installed, shown, canceler, tale>>
        /\ mtask' = [mtask EXCEPT ![t].status = m.told]
    BY <1>6 DEF SaveOutcome, Stays, LastStatus
  <2>2. PICK late \in BOOLEAN : /\ mrunner' = [mrunner EXCEPT ![t] = [m EXCEPT !.pc = "done", !.late = late]]
                                /\ ~late => canceler[t] = NoCancel
    <3>1. mrunner' = [mrunner EXCEPT ![t] = [m EXCEPT !.pc = "done", !.late = m.late \/ canceler[t] # NoCancel]]
      BY <1>6 DEF SaveOutcome, Runs
    <3>2. PICK late \in BOOLEAN : late = (m.late \/ canceler[t] # NoCancel)
      <4>1. (m.late \/ canceler[t] # NoCancel) = TRUE \/ (m.late \/ canceler[t] # NoCancel) = FALSE
        OBVIOUS
      <4> QED BY <4>1, Zenon
    <3> QED BY <3>1, <3>2, Zenon
  <2>3. PICK n \in RunnerRow : n = [m EXCEPT !.pc = "done", !.late = late]
    BY <1>b DEF RunnerRow
  <2>4. n.pc = "done" /\ n.sent = m.sent /\ n.told = m.told /\ n.heeds = m.heeds /\ n.late = late /\ n.at = m.at
    BY <1>b, <2>3 DEF RunnerRow
  <2>5. PICK k \in TaskRow : k = [row EXCEPT !.status = m.told]
    BY <1>b, <1>c, <2>1 DEF TaskRow
  <2>6. /\ k.plan = row.plan /\ k.seen = row.seen /\ k.cancel = row.cancel /\ k.status = m.told
        /\ mtask' = [mtask EXCEPT ![t] = k]
    BY <1>b, <2>1, <2>5 DEF TaskRow
  <2>7. TrueSoFar'
    BY <2>1 DEF MarketInv, TrueSoFar
  <2>8. /\ n.pc # "none" /\ (n.pc \in {"none", "ready", "read", "running"} => ~n.sent)
        /\ n.pc \in {"told", "done"} => n.told \in EndedStatuses
        /\ n.heeds => n.pc \in {"ready", "done", "dead"} /\ ~n.sent
        /\ n.heeds /\ n.pc = "ready" => k.cancel
        /\ n.pc = "done" /\ ~n.late => canceler[t] = NoCancel /\ k.status = n.told
        /\ n.sent /\ ~mrunner[t].sent => n.at = leadsTo
        /\ n.sent /\ mrunner[t].sent => n.at = mrunner[t].at
    BY <1>b, <1>c, <2>1, <2>2, <2>4, <2>6
  <2>9. mrunner' = [mrunner EXCEPT ![t] = n] /\ tale \subseteq tale' /\ tale' \subseteq Tales
    BY <1>d, <2>1, <2>2, <2>3
  <2> QED BY <1>b, <1>d, <2>1, <2>6, <2>7, <2>8, <2>9, ThreadMoves
<1> QED BY <1>1, <1>2, <1>3, <1>5, <1>6, <1>7, <1>8, <1>9

\* Previews, confirmations and cancels.
LEMMA RequestsKeepMarket ==
  ASSUME MarketInv, MarketAssumption,
         \/ Preview \/ ConfirmPlan \/ \E t \in MarketTasks : ReadForCancel(t) \/ StoreCancel(t)
  PROVE  MarketInv'
<1>a. /\ MarketTypeOK /\ leadsTo \in MarketMachines \cup {NoMachine} /\ version \in Versions
      /\ shown \in ShownPlan \cup {NoPlan} /\ mtask \in [MarketTasks -> TaskRow \cup {NoTask}]
      /\ mrunner \in [MarketTasks -> RunnerRow] /\ canceler \in [MarketTasks -> OpenStatuses \cup {NoCancel}]
  BY DEF MarketInv, MarketTypeOK
<1>1. CASE Preview
  <2>1. /\ leadsTo \in MarketMachines
        /\ UNCHANGED <<leadsTo, isLocal, version, box, lingering, installed, mtask, mrunner, canceler, tale>>
    BY <1>1, <1>a DEF Preview, Stays
  <2>2. PICK a \in MarketActions : shown' = [is |-> TRUE, plan |-> [action |-> a, version |-> version], at |-> leadsTo]
    BY <1>1 DEF Preview
  <2>3. shown' \in ShownPlan /\ shown'.at = leadsTo
    BY <1>a, <2>1, <2>2 DEF ShownPlan, Plans
  <2>4. MarketTypeOK'
    BY <1>a, <2>1, <2>3 DEF MarketTypeOK
  <2>5. SamePlace'
    BY <2>1, <2>3 DEF MarketInv, SamePlace
  <2> QED BY <2>1, <2>4, <2>5 DEF MarketInv, OfTasks, Places, OneCancel, TrueSoFar, ConfirmedRuns, CancelHeeded, OutcomeTold
<1>2. CASE ConfirmPlan
  <2>1. UNCHANGED <<leadsTo, isLocal, version, box, lingering, installed, shown, canceler, tale>>
    BY <1>2 DEF ConfirmPlan, Stays
  <2>2. PICK t \in MarketTasks, a \in MarketActions :
          LET plan == [action |-> a, version |-> version] IN
          /\ ~mtask[t].is /\ DigestMatches(plan)
          /\ mtask' = [mtask EXCEPT ![t] = [is |-> TRUE, status |-> "queued", cancel |-> FALSE,
                                            plan |-> plan, seen |-> shown]]
          /\ mrunner' = [mrunner EXCEPT ![t] = [NoRunner EXCEPT !.pc = "ready"]]
    BY <1>2 DEF ConfirmPlan, Runs
  <2>3. PICK plan \in Plans : plan = [action |-> a, version |-> version]
    BY <1>a DEF Plans
  <2>4. shown \in ShownPlan /\ shown.plan = plan
    BY <1>a, <2>2, <2>3 DEF DigestMatches, NoPlan
  <2>5. PICK k \in TaskRow : k = [is |-> TRUE, status |-> "queued", cancel |-> FALSE, plan |-> plan, seen |-> shown]
    BY <2>4 DEF TaskRow, OpenStatuses
  <2>6. PICK n \in RunnerRow : n = [NoRunner EXCEPT !.pc = "ready"]
    BY DEF NoRunner, RunnerRow
  <2>7. /\ mtask' = [mtask EXCEPT ![t] = k] /\ mrunner' = [mrunner EXCEPT ![t] = n]
        /\ k.is /\ ~k.cancel /\ k.plan = shown.plan /\ k.seen = shown
        /\ n.pc = "ready" /\ ~n.sent /\ ~n.heeds
    BY <2>2, <2>3, <2>4, <2>5, <2>6 DEF NoRunner
  <2>8. /\ mtask' \in [MarketTasks -> TaskRow \cup {NoTask}] /\ mrunner' \in [MarketTasks -> RunnerRow]
        /\ mtask'[t] = k /\ mrunner'[t] = n
        /\ \A u \in MarketTasks : u # t => mtask'[u] = mtask[u] /\ mrunner'[u] = mrunner[u]
    BY <1>a, <2>7
  <2>9. MarketTypeOK'
    BY <1>a, <2>1, <2>8 DEF MarketTypeOK
  <2>10. OfTasks' /\ SamePlace' /\ OneCancel'
    <3>1. OfTasks'
      BY <2>1, <2>7, <2>8 DEF MarketInv, OfTasks
    <3>2. SamePlace'
      BY <2>1, <2>4, <2>7, <2>8 DEF MarketInv, SamePlace, ShownPlan
    <3>3. OneCancel'
      BY <2>1, <2>7, <2>8 DEF MarketInv, OneCancel
    <3> QED BY <3>1, <3>2, <3>3
  <2>11. canceler[t] = NoCancel
    BY <2>2 DEF MarketInv, OfTasks
  <2>12. Places' /\ TrueSoFar'
    BY <2>1, <2>7, <2>8, <2>11 DEF MarketInv, Places, TrueSoFar
  <2>13. ConfirmedRuns' /\ CancelHeeded' /\ OutcomeTold'
    BY <2>1, <2>7, <2>8 DEF MarketInv, ConfirmedRuns, CancelHeeded, OutcomeTold
  <2> QED BY <2>9, <2>10, <2>12, <2>13 DEF MarketInv
<1>3. ASSUME NEW t \in MarketTasks, ReadForCancel(t)
      PROVE  MarketInv'
  <2>1. /\ mtask[t].is /\ mtask[t].status \in OpenStatuses
        /\ \A u \in MarketTasks : canceler[u] = NoCancel /\ (mtask[u].is => ~mtask[u].cancel)
        /\ canceler' = [canceler EXCEPT ![t] = mtask[t].status]
        /\ UNCHANGED <<leadsTo, isLocal, version, box, lingering, installed, shown, mtask, mrunner, tale>>
    BY <1>3 DEF ReadForCancel, Stays
  <2>2. /\ canceler' \in [MarketTasks -> OpenStatuses \cup {NoCancel}]
        /\ \A u \in MarketTasks : u # t => canceler'[u] = NoCancel
    BY <1>a, <2>1
  <2>3. ~(mrunner[t].pc = "done" /\ ~mrunner[t].late)
    BY <2>1 DEF MarketInv, Places, OutcomeTold, OpenStatuses, EndedStatuses
  <2>4. MarketTypeOK'
    BY <1>a, <2>1, <2>2 DEF MarketTypeOK
  <2>5. OfTasks' /\ Places' /\ OneCancel'
    BY <2>1, <2>2, <2>3 DEF MarketInv, OfTasks, Places, OneCancel
  <2> QED BY <2>1, <2>4, <2>5 DEF MarketInv, SamePlace, TrueSoFar, ConfirmedRuns, CancelHeeded, OutcomeTold
<1>4. ASSUME NEW t \in MarketTasks, StoreCancel(t)
      PROVE  MarketInv'
  <2> DEFINE row == mtask[t]
             m == mrunner[t]
  <2>1. /\ canceler[t] # NoCancel /\ canceler' = [canceler EXCEPT ![t] = NoCancel]
        /\ UNCHANGED <<leadsTo, isLocal, version, box, lingering, installed, shown, tale>>
    BY <1>4 DEF StoreCancel, Stays
  <2>2. row.is /\ row \in TaskRow /\ m \in RunnerRow /\ canceler[t] \in OpenStatuses
    BY <2>1, MarketFacts
  <2>3. PICK status \in OpenStatuses \cup EndedStatuses :
          mtask' = [mtask EXCEPT ![t].cancel = TRUE, ![t].status = status]
    <3>1. PICK status \in OpenStatuses \cup EndedStatuses :
            status = IF canceler[t] = "queued" THEN "canceled" ELSE canceler[t]
      BY <2>2 DEF EndedStatuses
    <3> QED BY <1>4, <3>1 DEF StoreCancel
  <2>4. PICK k \in TaskRow : k = [row EXCEPT !.cancel = TRUE, !.status = status]
    BY <2>2 DEF TaskRow
  <2>5. /\ k.is /\ k.cancel /\ k.plan = row.plan /\ k.seen = row.seen
        /\ mtask' = [mtask EXCEPT ![t] = k]
    BY <1>a, <2>2, <2>3, <2>4 DEF TaskRow
  <2>6. PICK heeds \in BOOLEAN, late \in BOOLEAN :
          /\ heeds = (m.heeds \/ m.pc = "ready") /\ late = (m.late \/ m.pc # "ready")
          /\ mrunner' = [mrunner EXCEPT ![t] = [m EXCEPT !.heeds = heeds, !.late = late]]
    <3>1. mrunner' = [mrunner EXCEPT ![t] = [m EXCEPT !.heeds = (m.heeds \/ m.pc = "ready"),
                                                      !.late = (m.late \/ m.pc # "ready")]]
      BY <1>4 DEF StoreCancel, Runs
    <3>2. /\ (m.heeds \/ m.pc = "ready") = TRUE \/ (m.heeds \/ m.pc = "ready") = FALSE
          /\ (m.late \/ m.pc # "ready") = TRUE \/ (m.late \/ m.pc # "ready") = FALSE
      OBVIOUS
    <3>3. PICK heeds \in BOOLEAN : heeds = (m.heeds \/ m.pc = "ready")
      BY <3>2, Zenon
    <3>4. PICK late \in BOOLEAN : late = (m.late \/ m.pc # "ready")
      BY <3>2, Zenon
    <3> QED BY <3>1, <3>3, <3>4, Zenon
  <2>7. PICK n \in RunnerRow : n = [m EXCEPT !.heeds = heeds, !.late = late]
    BY <2>2 DEF RunnerRow
  <2>8. /\ n.pc = m.pc /\ n.sent = m.sent /\ n.told = m.told /\ n.at = m.at /\ n.heeds = heeds /\ n.late = late
        /\ mrunner' = [mrunner EXCEPT ![t] = n]
    BY <2>2, <2>6, <2>7 DEF RunnerRow
  <2>9. /\ mtask' \in [MarketTasks -> TaskRow \cup {NoTask}] /\ mrunner' \in [MarketTasks -> RunnerRow]
        /\ mtask'[t] = k /\ mrunner'[t] = n
        /\ \A u \in MarketTasks : u # t => mtask'[u] = mtask[u] /\ mrunner'[u] = mrunner[u]
    BY <1>a, <2>5, <2>8
  <2>10. canceler' \in [MarketTasks -> OpenStatuses \cup {NoCancel}] /\ \A u \in MarketTasks : canceler'[u] = NoCancel
    BY <1>a, <2>1, <2>2 DEF MarketInv, OneCancel
  <2>11. MarketTypeOK'
    BY <1>a, <2>1, <2>9, <2>10 DEF MarketTypeOK
  <2>12. OfTasks' /\ SamePlace' /\ OneCancel'
    BY <2>1, <2>2, <2>5, <2>9, <2>10 DEF MarketInv, OfTasks, SamePlace, OneCancel
  <2>13. Places'
    <3>1. ASSUME NEW u \in MarketTasks
          PROVE  LET w == mrunner'[u] IN
                 /\ w.pc \in {"none", "ready", "read", "running"} => ~w.sent
                 /\ w.pc \in {"told", "done"} => w.told \in EndedStatuses
                 /\ w.heeds => w.pc \in {"ready", "done", "dead"} /\ ~w.sent
                 /\ w.heeds /\ w.pc = "ready" => mtask'[u].cancel
                 /\ w.pc = "done" /\ ~w.late => canceler'[u] = NoCancel
      <4>1. CASE u = t
        BY <2>5, <2>6, <2>8, <2>9, <2>10, <4>1 DEF MarketInv, Places
      <4>2. CASE u # t
        BY <2>9, <2>10, <4>2 DEF MarketInv, Places
      <4> QED BY <4>1, <4>2
    <3> QED BY <3>1 DEF Places
  <2>14. ConfirmedRuns' /\ CancelHeeded' /\ TrueSoFar'
    <3>1. heeds => ~n.sent
      BY <2>6, <2>8 DEF MarketInv, Places
    <3> QED BY <2>1, <2>2, <2>5, <2>8, <2>9, <3>1 DEF MarketInv, ConfirmedRuns, CancelHeeded, TrueSoFar
  <2>15. OutcomeTold'
    <3>1. m.pc = "done" => late = TRUE
      <4>1. m.pc = "done" => (m.late \/ m.pc # "ready") = TRUE
        OBVIOUS
      <4> QED BY <2>6, <4>1, Zenon
    <3>2. ASSUME NEW u \in MarketTasks, mrunner'[u].pc = "done", ~mrunner'[u].late
          PROVE  mtask'[u].status = mrunner'[u].told
      <4>1. u # t
        BY <2>8, <2>9, <3>1, <3>2
      <4> QED BY <2>9, <3>2, <4>1 DEF MarketInv, OutcomeTold
    <3> QED BY <3>2 DEF OutcomeTold
  <2> QED BY <2>11, <2>12, <2>13, <2>14, <2>15 DEF MarketInv
<1> QED BY <1>1, <1>2, <1>3, <1>4

\* What happens around the market.
LEMMA WorldKeepsMarket ==
  ASSUME MarketInv, MarketAssumption, ActsLate \/ Redefine \/ EditTarget \/ RestartMarket
  PROVE  MarketInv'
<1>a. /\ MarketTypeOK /\ leadsTo \in MarketMachines \cup {NoMachine} /\ version \in Versions
      /\ box \in [MarketMachines -> Box] /\ lingering \subseteq MarketMachines \X Plans
      /\ mtask \in [MarketTasks -> TaskRow \cup {NoTask}] /\ tale \subseteq Tales
      /\ mrunner \in [MarketTasks -> RunnerRow]
  BY DEF MarketInv, MarketTypeOK
<1>1. CASE ActsLate
  <2>1. PICK c \in lingering :
          /\ box' = IF Possible(box[c[1]], c[2]) THEN [box EXCEPT ![c[1]] = ComposeActs(@, c[2])] ELSE box
          /\ lingering' = lingering \ {c}
    BY <1>1 DEF ActsLate
  <2>2. UNCHANGED <<leadsTo, isLocal, version, installed, shown, mtask, mrunner, canceler, tale>>
    BY <1>1 DEF ActsLate, Stays
  <2>3. c[1] \in MarketMachines /\ c[2] \in Plans
    BY <1>a
  <2>4. ComposeActs(box[c[1]], c[2]) \in Box
    BY <1>a, <2>3, ComposeTyped
  <2>5. box' \in [MarketMachines -> Box] /\ lingering' \subseteq MarketMachines \X Plans
    BY <1>a, <2>1, <2>3, <2>4
  <2>6. MarketTypeOK'
    BY <1>a, <2>2, <2>5 DEF MarketTypeOK
  <2>7. tale # {}
    BY <2>1 DEF MarketInv, TrueSoFar
  <2> QED BY <2>2, <2>6, <2>7 DEF MarketInv, OfTasks, SamePlace, Places, OneCancel, TrueSoFar, ConfirmedRuns,
                                  CancelHeeded, OutcomeTold
<1>2. CASE Redefine
  <2>1. /\ UNCHANGED <<leadsTo, isLocal, box, lingering, installed, shown, mtask, mrunner, canceler, tale>>
        /\ version' \in Versions
    BY <1>2, <1>a DEF Redefine, Versions, MarketAssumption
  <2>2. MarketTypeOK'
    BY <1>a, <2>1 DEF MarketTypeOK
  <2> QED BY <2>1, <2>2 DEF MarketInv, OfTasks, SamePlace, Places, OneCancel, TrueSoFar, ConfirmedRuns,
                            CancelHeeded, OutcomeTold
<1>3. CASE EditTarget
  <2>1. /\ UNCHANGED <<isLocal, version, box, lingering, shown, mtask, mrunner, canceler>>
        /\ leadsTo' \in MarketMachines \cup {NoMachine} /\ tale' = tale \cup {"moved"}
        /\ installed' \in {installed, NotInstalled}
    BY <1>3 DEF EditTarget
  <2>2. MarketTypeOK'
    BY <1>a, <2>1 DEF MarketTypeOK, Tales
  <2> QED BY <2>1, <2>2 DEF MarketInv, OfTasks, SamePlace, Places, OneCancel, TrueSoFar, ConfirmedRuns,
                            CancelHeeded, OutcomeTold
<1>4. CASE RestartMarket
  <2>1. /\ UNCHANGED <<leadsTo, isLocal, version, box, installed, shown, mtask>>
        /\ mrunner' = [t \in MarketTasks |->
                         IF mtask[t].is /\ mrunner[t].pc # "done" THEN [mrunner[t] EXCEPT !.pc = "dead"] ELSE mrunner[t]]
        /\ canceler' = [t \in MarketTasks |-> NoCancel] /\ tale' = tale \cup {"stopped"}
    BY <1>4 DEF RestartMarket, Stays
  <2>2. lingering' \subseteq MarketMachines \X Plans
    <3>1. ASSUME NEW u \in MarketTasks, mrunner[u].pc = "running", leadsTo # NoMachine
          PROVE  <<leadsTo, mtask[u].plan>> \in MarketMachines \X Plans
      <4>1. mtask[u] \in TaskRow
        BY <3>1, MarketFacts
      <4> QED BY <1>a, <3>1, <4>1 DEF TaskRow
    <3> QED BY <1>4, <1>a, <3>1 DEF RestartMarket
  <2>3. ASSUME NEW t \in MarketTasks
        PROVE  /\ mrunner'[t] \in RunnerRow /\ canceler'[t] = NoCancel
               /\ mrunner'[t].sent = mrunner[t].sent /\ mrunner'[t].heeds = mrunner[t].heeds
               /\ mrunner'[t].told = mrunner[t].told /\ mrunner'[t].late = mrunner[t].late
               /\ mrunner'[t].at = mrunner[t].at
               /\ \/ mrunner'[t] = mrunner[t] /\ ~(mtask[t].is /\ mrunner[t].pc # "done")
                  \/ mrunner'[t].pc = "dead" /\ mtask[t].is
    <3>1. mrunner[t] \in RunnerRow
      BY <1>a
    <3>2. PICK dead \in RunnerRow : dead = [mrunner[t] EXCEPT !.pc = "dead"]
      BY <3>1 DEF RunnerRow
    <3>3. /\ dead.pc = "dead" /\ dead.sent = mrunner[t].sent /\ dead.heeds = mrunner[t].heeds
          /\ dead.told = mrunner[t].told /\ dead.late = mrunner[t].late /\ dead.at = mrunner[t].at
      BY <3>1, <3>2 DEF RunnerRow
    <3> QED BY <2>1, <3>1, <3>2, <3>3
  <2>4. MarketTypeOK'
    BY <1>a, <2>1, <2>2, <2>3 DEF MarketTypeOK, Tales
  <2>5. OfTasks' /\ OneCancel' /\ SamePlace' /\ TrueSoFar'
    BY <2>1, <2>3 DEF MarketInv, OfTasks, OneCancel, SamePlace, TrueSoFar
  <2>6. Places' /\ ConfirmedRuns'
    BY <2>1, <2>3 DEF MarketInv, Places, ConfirmedRuns
  <2>7. CancelHeeded' /\ OutcomeTold'
    BY <2>1, <2>3 DEF MarketInv, CancelHeeded, OutcomeTold
  <2> QED BY <2>4, <2>5, <2>6, <2>7 DEF MarketInv
<1> QED BY <1>1, <1>2, <1>3, <1>4

LEMMA MarketStarts ==
  ASSUME MarketAssumption, MarketInit
  PROVE  MarketInv
<1>1. leadsTo \in MarketMachines
  BY DEF MarketInit, MarketAssumption
<1>2. MarketTypeOK
  <2>1. 1 \in Versions
    BY DEF Versions, MarketAssumption
  <2>2. NoRunner \in RunnerRow
    BY DEF NoRunner, RunnerRow
  <2> QED BY <1>1, <2>1, <2>2 DEF MarketInit, MarketTypeOK, Box, Versions
<1>3. SamePlace /\ TrueSoFar
  BY <1>1 DEF MarketInit, SamePlace, TrueSoFar, NoPlan, NoTask, NotInstalled
<1> QED BY <1>2, <1>3 DEF MarketInv, MarketInit, OfTasks, Places, OneCancel, ConfirmedRuns, CancelHeeded, OutcomeTold,
                          NoTask, NoRunner

LEMMA MarketHeld == MarketSpec => []MarketInv
<1>1. MarketInit => MarketInv
  BY MarketStarts, MarketAssumption
<1>2. MarketInv /\ [MarketNext]_marketVars => MarketInv'
  <2> SUFFICES ASSUME MarketInv, [MarketNext]_marketVars
               PROVE  MarketInv'
    OBVIOUS
  <2>1. CASE UNCHANGED marketVars
    BY <2>1 DEF marketVars, MarketInv, MarketTypeOK, OfTasks, SamePlace, Places, OneCancel, TrueSoFar, ConfirmedRuns,
                CancelHeeded, OutcomeTold
  <2>2. CASE MarketNext
    BY <2>2, RequestsKeepMarket, WorldKeepsMarket, ThreadsKeepMarket, MarketAssumption DEF MarketNext
  <2> QED BY <2>1, <2>2
<1> QED BY <1>1, <1>2, PTL DEF MarketSpec

\* Installations, tasks and the threads that run them keep their types.
THEOREM MarketTypeCorrect == MarketSpec => []MarketTypeOK
<1>1. MarketInv => MarketTypeOK
  BY DEF MarketInv
<1> QED BY <1>1, MarketHeld, PTL

\* For any machines, actions, versions and tasks: what runs is what was confirmed, a task
\* that heeded its cancellation is not told as done, a told outcome is that of the
\* machine, and an installation that is recorded is there (create_task, run_task,
\* cancel_task, reconcile_stale_tasks).
THEOREM MarketKeepsFaith == MarketSpec => [](ConfirmedRuns /\ CancelHeeded /\ OutcomeTold /\ InstalledTrue)
<1>1. MarketInv => ConfirmedRuns /\ CancelHeeded /\ OutcomeTold /\ InstalledTrue
  BY DEF MarketInv, TrueSoFar, InstalledTrue
<1> QED BY <1>1, MarketHeld, PTL
----------------------------------------------------------------------------
(* The sources of the market: MarketSources. *)

\* While nothing came between, what the syncs do can be followed.
Undisturbed == syncTale \subseteq {"edited"}

\* A row keeps the catalogue that was fetched last.
SourcesKept == \A s \in SourceIds : sourceRow[s].cached = fetched[s]

\* Sources have names of their own, and a sync knows them.
Named == "renamed" \notin syncTale =>
    /\ \A s, t \in SourceIds : s # t => sourceRow[s].name # sourceRow[t].name
    /\ \A y \in Syncs : AtWork(y) => \A x \in sync[y].todo : x.row.name = sourceRow[x.id].name
    /\ \A y \in Syncs : sync[y].pc = "store" => sync[y].now.row.name = sourceRow[sync[y].now.id].name

\* A sync has copies of the rows that are true, but for the source it is about to store.
Copies == \A y \in Syncs :
    /\ sync[y].pc = "store" => sync[y].now \in RowRead /\ \A x \in sync[y].todo : x.id # sync[y].now.id
    /\ AtWork(y) => \A x, z \in sync[y].todo : x.id = z.id => x = z
    /\ Undisturbed /\ AtWork(y) => \A x \in sync[y].todo : x.row.cached = fetched[x.id]
    /\ Undisturbed /\ sync[y].pc = "store" => sync[y].got = fetched[sync[y].now.id]

\* What was fetched is stored, or about to be.
Followed == Undisturbed => \A s \in SourceIds, a \in MarketApps : fetched[s][a] # 0 =>
    \/ definition[<<sourceRow[s].name, a>>] = fetched[s][a]
    \/ \E y \in Syncs : sync[y].pc = "store" /\ sync[y].now.id = s

SourcesInv == SourcesTypeOK /\ SourcesKept /\ Named /\ Copies /\ Followed

LEMMA SourceTypes ==
  ASSUME SourcesInv
  PROVE  /\ sourceRow \in [SourceIds -> SourceRow] /\ published \in [SourceIds -> Catalogue]
         /\ fetched \in [SourceIds -> Catalogue] /\ definition \in [SourceNames \X MarketApps -> 0..LastPublished]
         /\ sync \in [Syncs -> SyncRow] /\ syncTale \subseteq {"edited", "overlapped", "renamed", "aborted"}
         /\ SourcesTypeOK
BY DEF SourcesInv, SourcesTypeOK

\* A step of a sync beside another one is told.
LEMMA Alone ==
  ASSUME SourcesInv, NEW y \in Syncs, AtWork(y), SyncStored(y)
  PROVE  /\ syncTale \subseteq syncTale' /\ syncTale' \subseteq {"edited", "overlapped", "renamed", "aborted"}
         /\ ("renamed" \notin syncTale' => "renamed" \notin syncTale)
         /\ (Undisturbed' => Undisturbed /\ \A z \in Syncs : z # y => ~AtWork(z))
BY SourceTypes DEF SyncStored, Undisturbed

\* A sync has got a catalogue of the source whose turn it is.
LEMMA GetsCatalogue ==
  ASSUME SourcesInv, NEW y \in Syncs, Fetch(y) \/ FetchFails(y)
  PROVE  SourcesInv'
<1> DEFINE q == sync[y]
<1>1. PICK x \in q.todo, got \in Catalogue :
        /\ q.pc = "fetch" /\ SyncStored(y) /\ UNCHANGED <<published, definition>>
        /\ sync' = [sync EXCEPT ![y] = [q EXCEPT !.pc = "store", !.todo = q.todo \ {x}, !.now = x, !.got = got]]
        /\ \/ /\ got = published[x.id]
              /\ sourceRow' = [sourceRow EXCEPT ![x.id].cached = published[x.id], ![x.id].error = FALSE]
              /\ fetched' = [fetched EXCEPT ![x.id] = published[x.id]]
           \/ /\ got = x.row.cached
              /\ sourceRow' = [sourceRow EXCEPT ![x.id].error = TRUE]
              /\ fetched' = fetched
  <2>1. CASE Fetch(y)
    <3>1. PICK x \in q.todo :
            /\ q.pc = "fetch" /\ SyncStored(y) /\ UNCHANGED <<published, definition>>
            /\ sync' = [sync EXCEPT ![y] = [q EXCEPT !.pc = "store", !.todo = q.todo \ {x}, !.now = x,
                                                     !.got = published[x.id]]]
            /\ sourceRow' = [sourceRow EXCEPT ![x.id].cached = published[x.id], ![x.id].error = FALSE]
            /\ fetched' = [fetched EXCEPT ![x.id] = published[x.id]]
      BY <2>1 DEF Fetch, Turn, SyncGoes
    <3>2. published[x.id] \in Catalogue
      BY SourceTypes DEF SyncRow, RowRead
    <3> QED BY <3>1, <3>2
  <2>2. CASE FetchFails(y)
    <3>1. PICK x \in q.todo :
            /\ q.pc = "fetch" /\ SyncStored(y) /\ UNCHANGED <<published, definition, fetched>>
            /\ sync' = [sync EXCEPT ![y] = [q EXCEPT !.pc = "store", !.todo = q.todo \ {x}, !.now = x,
                                                     !.got = x.row.cached]]
            /\ sourceRow' = [sourceRow EXCEPT ![x.id].error = TRUE]
      BY <2>2 DEF FetchFails, Turn, SyncGoes
    <3>2. x.row.cached \in Catalogue
      BY SourceTypes DEF SyncRow, RowRead, SourceRow
    <3> QED BY <3>1, <3>2
  <2> QED BY <2>1, <2>2
<1>2. /\ q \in SyncRow /\ x \in RowRead /\ x.id \in SourceIds /\ x.row \in SourceRow /\ AtWork(y)
  BY <1>1, SourceTypes DEF SyncRow, RowRead, AtWork
<1>3. /\ syncTale \subseteq syncTale' /\ syncTale' \subseteq {"edited", "overlapped", "renamed", "aborted"}
      /\ ("renamed" \notin syncTale' => "renamed" \notin syncTale)
      /\ (Undisturbed' => Undisturbed /\ \A z \in Syncs : z # y => ~AtWork(z))
  BY <1>1, <1>2, Alone
<1>4. PICK n \in SyncRow : n = [q EXCEPT !.pc = "store", !.todo = q.todo \ {x}, !.now = x, !.got = got]
  BY <1>2 DEF SyncRow
<1>5. /\ n.pc = "store" /\ n.todo = q.todo \ {x} /\ n.now = x /\ n.got = got
      /\ sync' = [sync EXCEPT ![y] = n]
  BY <1>1, <1>2, <1>4 DEF SyncRow
<1>6. /\ sync' \in [Syncs -> SyncRow] /\ sync'[y] = n
      /\ \A z \in Syncs : z # y => sync'[z] = sync[z]
  BY <1>5, SourceTypes
<1>7. /\ sourceRow' \in [SourceIds -> SourceRow] /\ fetched' \in [SourceIds -> Catalogue]
      /\ \A s \in SourceIds : sourceRow'[s].name = sourceRow[s].name
      /\ \A s \in SourceIds : s # x.id => sourceRow'[s].cached = sourceRow[s].cached /\ fetched'[s] = fetched[s]
      /\ sourceRow'[x.id].cached = fetched'[x.id]
      /\ Undisturbed => got = fetched'[x.id]
  <2>1. /\ sourceRow[x.id] \in SourceRow /\ published[x.id] \in Catalogue /\ sourceRow[x.id].cached = fetched[x.id]
        /\ Undisturbed => x.row.cached = fetched[x.id]
    BY <1>1, <1>2, SourceTypes DEF SourcesInv, SourcesKept, Copies
  <2>2. CASE got = published[x.id] /\ sourceRow' = [sourceRow EXCEPT ![x.id].cached = published[x.id], ![x.id].error = FALSE]
             /\ fetched' = [fetched EXCEPT ![x.id] = published[x.id]]
    <3>1. PICK k \in SourceRow : k = [sourceRow[x.id] EXCEPT !.cached = published[x.id], !.error = FALSE]
      BY <2>1 DEF SourceRow
    <3>2. k.name = sourceRow[x.id].name /\ k.cached = published[x.id] /\ sourceRow' = [sourceRow EXCEPT ![x.id] = k]
      BY <2>1, <2>2, <3>1, SourceTypes DEF SourceRow
    <3> QED BY <1>2, <2>1, <2>2, <3>2, SourceTypes
  <2>3. CASE got = x.row.cached /\ sourceRow' = [sourceRow EXCEPT ![x.id].error = TRUE] /\ fetched' = fetched
    <3>1. PICK k \in SourceRow : k = [sourceRow[x.id] EXCEPT !.error = TRUE]
      BY <2>1 DEF SourceRow
    <3>2. k.name = sourceRow[x.id].name /\ k.cached = sourceRow[x.id].cached /\ sourceRow' = [sourceRow EXCEPT ![x.id] = k]
      BY <2>1, <2>3, <3>1, SourceTypes DEF SourceRow
    <3> QED BY <1>2, <2>1, <2>3, <3>2, SourceTypes
  <2> QED BY <1>1, <2>2, <2>3
<1>8. SourcesTypeOK'
  BY <1>1, <1>3, <1>6, <1>7, SourceTypes DEF SourcesTypeOK
<1>9. SourcesKept'
  BY <1>7 DEF SourcesInv, SourcesKept
<1>a. \A z \in Syncs : sync[z].pc = "store" => sync[z].now.id \in SourceIds
  BY DEF SourcesInv, Copies, RowRead
<1>b. \A z \in Syncs : \A w \in sync[z].todo : w.id \in SourceIds
  BY SourceTypes DEF SyncRow, RowRead
<1>10. Named'
  <2>1. SUFFICES ASSUME "renamed" \notin syncTale'
                 PROVE  /\ \A s, t \in SourceIds : s # t => sourceRow'[s].name # sourceRow'[t].name
                        /\ \A z \in Syncs : AtWork(z)' => \A w \in sync'[z].todo : w.row.name = sourceRow'[w.id].name
                        /\ \A z \in Syncs : sync'[z].pc = "store" =>
                             sync'[z].now.row.name = sourceRow'[sync'[z].now.id].name
    BY DEF Named
  <2>2. x.row.name = sourceRow[x.id].name /\ \A w \in q.todo : w.row.name = sourceRow[w.id].name
    BY <1>1, <1>2, <1>3, <2>1 DEF SourcesInv, Named
  <2> QED BY <1>2, <1>3, <1>5, <1>6, <1>7, <1>a, <1>b, <2>1, <2>2 DEF SourcesInv, Named, AtWork
<1>11. Copies'
  <2>1. /\ \A w \in n.todo : w.id # x.id
        /\ \A w, z \in n.todo : w.id = z.id => w = z
    BY <1>1, <1>2, <1>5 DEF SourcesInv, Copies
  <2>2. Undisturbed' => \A w \in n.todo : w.row.cached = fetched'[w.id]
    BY <1>1, <1>2, <1>3, <1>5, <1>7, <1>b, <2>1 DEF SourcesInv, Copies
  <2>3. ASSUME NEW z \in Syncs
        PROVE  /\ sync'[z].pc = "store" => sync'[z].now \in RowRead /\ \A w \in sync'[z].todo : w.id # sync'[z].now.id
               /\ AtWork(z)' => \A w, v \in sync'[z].todo : w.id = v.id => w = v
               /\ Undisturbed' /\ AtWork(z)' => \A w \in sync'[z].todo : w.row.cached = fetched'[w.id]
               /\ Undisturbed' /\ sync'[z].pc = "store" => sync'[z].got = fetched'[sync'[z].now.id]
    <3>1. CASE z = y
      BY <1>2, <1>3, <1>5, <1>6, <1>7, <2>1, <2>2, <3>1
    <3>2. CASE z # y
      BY <1>3, <1>6, <3>2 DEF SourcesInv, Copies, AtWork
    <3> QED BY <3>1, <3>2
  <2> QED BY <2>3 DEF Copies
<1>12. Followed'
  <2>1. ASSUME Undisturbed', NEW s \in SourceIds, NEW a \in MarketApps, fetched'[s][a] # 0
        PROVE  \/ definition'[<<sourceRow'[s].name, a>>] = fetched'[s][a]
               \/ \E z \in Syncs : sync'[z].pc = "store" /\ sync'[z].now.id = s
    <3>1. CASE s = x.id
      BY <1>5, <1>6, <3>1
    <3>2. CASE s # x.id
      <4>1. \A z \in Syncs : sync[z].pc # "store"
        BY <1>1, <1>3, <2>1 DEF AtWork
      <4> QED BY <1>1, <1>3, <1>7, <2>1, <3>2, <4>1 DEF SourcesInv, Followed
    <3> QED BY <3>1, <3>2
  <2> QED BY <2>1 DEF Followed
<1> QED BY <1>8, <1>9, <1>10, <1>11, <1>12 DEF SourcesInv

\* The definitions of a source are stored.
LEMMA StoresDefinitions ==
  ASSUME SourcesInv, NEW y \in Syncs, StoreDefinitions(y)
  PROVE  SourcesInv'
<1> DEFINE q == sync[y]
<1>1. /\ q.pc = "store" /\ SyncStored(y) /\ UNCHANGED <<sourceRow, published, fetched>>
      /\ definition' = [d \in SourceNames \X MarketApps |->
                          IF d[1] = q.now.row.name THEN Upserted(definition[d], q.got[d[2]]) ELSE definition[d]]
  BY DEF StoreDefinitions
<1>2. PICK pc \in {"done", "fetch"} :
        sync' = [sync EXCEPT ![y] = [NotSynced EXCEPT !.pc = pc, !.todo = q.todo]]
  BY DEF StoreDefinitions, SyncGoes
<1>3. q \in SyncRow /\ AtWork(y) /\ q.now \in RowRead
  BY <1>1, SourceTypes DEF AtWork, SourcesInv, Copies
<1>4. /\ syncTale \subseteq syncTale' /\ syncTale' \subseteq {"edited", "overlapped", "renamed", "aborted"}
      /\ ("renamed" \notin syncTale' => "renamed" \notin syncTale)
      /\ (Undisturbed' => Undisturbed /\ \A z \in Syncs : z # y => ~AtWork(z))
  BY <1>1, <1>3, Alone
<1>5. PICK n \in SyncRow : n = [NotSynced EXCEPT !.pc = pc, !.todo = q.todo]
  <2>1. NotSynced \in SyncRow
    BY SourcesAssumption DEF NotSynced, SyncRow, EmptyCatalogue, Catalogue, RowRead, NotRead
  <2> QED BY <1>3, <2>1 DEF SyncRow
<1>6. n.pc # "store" /\ n.todo = q.todo /\ sync' = [sync EXCEPT ![y] = n]
  BY <1>2, <1>5 DEF NotSynced
<1>7. /\ sync' \in [Syncs -> SyncRow] /\ sync'[y] = n
      /\ \A z \in Syncs : z # y => sync'[z] = sync[z]
  BY <1>6, SourceTypes
<1>8. definition' \in [SourceNames \X MarketApps -> 0..LastPublished]
  <2>1. ASSUME NEW d \in SourceNames \X MarketApps
        PROVE  Upserted(definition[d], q.got[d[2]]) \in 0..LastPublished
    BY <1>3, SourceTypes DEF Upserted, SyncRow, Catalogue
  <2> QED BY <1>1, <2>1, SourceTypes
<1>9. SourcesTypeOK' /\ SourcesKept'
  BY <1>1, <1>4, <1>7, <1>8, SourceTypes DEF SourcesTypeOK, SourcesInv, SourcesKept
<1>10. Named'
  BY <1>1, <1>3, <1>4, <1>6, <1>7 DEF SourcesInv, Named, AtWork
<1>11. Copies'
  BY <1>1, <1>3, <1>4, <1>6, <1>7 DEF SourcesInv, Copies, AtWork
<1>12. Followed'
  <2>1. ASSUME Undisturbed', NEW s \in SourceIds, NEW a \in MarketApps, fetched[s][a] # 0
        PROVE  definition'[<<sourceRow[s].name, a>>] = fetched[s][a]
    <3>1. Undisturbed /\ "renamed" \notin syncTale /\ \A z \in Syncs : z # y => sync[z].pc # "store"
      BY <1>4, <2>1 DEF Undisturbed, AtWork
    <3>2. /\ q.got = fetched[q.now.id] /\ q.now.row.name = sourceRow[q.now.id].name /\ q.now.id \in SourceIds
      BY <1>1, <1>3, <3>1 DEF SourcesInv, Copies, Named, RowRead
    <3>3. <<sourceRow[s].name, a>> \in SourceNames \X MarketApps
      BY SourceTypes DEF SourceRow
    <3>4. CASE s = q.now.id
      BY <1>1, <2>1, <3>2, <3>3, <3>4 DEF Upserted
    <3>5. CASE s # q.now.id
      <4>1. sourceRow[s].name # q.now.row.name
        BY <3>1, <3>2, <3>5 DEF SourcesInv, Named
      <4>2. definition[<<sourceRow[s].name, a>>] = fetched[s][a]
        BY <2>1, <3>1, <3>5 DEF SourcesInv, Followed
      <4> QED BY <1>1, <3>3, <4>1, <4>2
    <3> QED BY <3>4, <3>5
  <2>2. ASSUME Undisturbed', NEW s \in SourceIds, NEW a \in MarketApps, fetched'[s][a] # 0
        PROVE  definition'[<<sourceRow'[s].name, a>>] = fetched'[s][a]
    <3>1. sourceRow' = sourceRow /\ fetched' = fetched
      BY <1>1
    <3> QED BY <2>1, <2>2, <3>1
  <2> QED BY <2>2 DEF Followed
<1> QED BY <1>9, <1>10, <1>11, <1>12 DEF SourcesInv

\* A sync begins, or ends before its time.
LEMMA BeginsOrBreaks ==
  ASSUME SourcesInv, NEW y \in Syncs, StartSync(y) \/ NoAddress(y) \/ SyncAborted(y)
  PROVE  SourcesInv'
<1>1. NotSynced \in SyncRow
  BY SourcesAssumption DEF NotSynced, SyncRow, EmptyCatalogue, Catalogue, RowRead, NotRead
<1>2. CASE StartSync(y)
  <2> DEFINE rows == {[id |-> s, row |-> sourceRow[s]] : s \in {t \in SourceIds : sourceRow[t].enabled}}
  <2>1. /\ sync[y].pc = "new" /\ UNCHANGED <<sourceRow, published, definition, fetched, syncTale>>
        /\ \E pc \in {"done", "fetch"} : sync' = [sync EXCEPT ![y] = [NotSynced EXCEPT !.pc = pc, !.todo = rows]]
    BY <1>2 DEF StartSync, SyncGoes
  <2>2. PICK pc \in {"done", "fetch"} : sync' = [sync EXCEPT ![y] = [NotSynced EXCEPT !.pc = pc, !.todo = rows]]
    BY <2>1
  <2>3. /\ rows \subseteq RowRead
        /\ \A x \in rows : x.id \in SourceIds /\ x.row = sourceRow[x.id]
        /\ \A x, z \in rows : x.id = z.id => x = z
    BY SourceTypes DEF RowRead
  <2>4. PICK todo \in SUBSET RowRead : todo = rows
    BY <2>3
  <2>5. PICK n \in SyncRow : n = [NotSynced EXCEPT !.pc = pc, !.todo = todo]
    BY <1>1 DEF SyncRow
  <2>6. n.pc # "store" /\ n.todo = todo /\ sync' = [sync EXCEPT ![y] = n]
    BY <2>2, <2>4, <2>5 DEF NotSynced
  <2> HIDE DEF rows
  <2>7. /\ sync' \in [Syncs -> SyncRow] /\ sync'[y] = n
        /\ \A z \in Syncs : z # y => sync'[z] = sync[z]
    BY <2>6, SourceTypes
  <2>8. SourcesTypeOK' /\ SourcesKept'
    BY <2>1, <2>7, SourceTypes DEF SourcesTypeOK, SourcesInv, SourcesKept
  <2>9. Named'
    BY <2>1, <2>3, <2>4, <2>6, <2>7 DEF SourcesInv, Named, AtWork
  <2>10. Copies'
    <3>1. \A x \in rows : x.row.cached = fetched[x.id]
      BY <2>3 DEF SourcesInv, SourcesKept
    <3>2. ASSUME NEW z \in Syncs
          PROVE  /\ sync'[z].pc = "store" => sync'[z].now \in RowRead /\ \A w \in sync'[z].todo : w.id # sync'[z].now.id
                 /\ AtWork(z)' => \A w, v \in sync'[z].todo : w.id = v.id => w = v
                 /\ Undisturbed' /\ AtWork(z)' => \A w \in sync'[z].todo : w.row.cached = fetched'[w.id]
                 /\ Undisturbed' /\ sync'[z].pc = "store" => sync'[z].got = fetched'[sync'[z].now.id]
      <4>1. CASE z = y
        BY <2>1, <2>3, <2>4, <2>6, <2>7, <3>1, <4>1
      <4>2. CASE z # y
        BY <2>1, <2>7, <4>2 DEF SourcesInv, Copies, AtWork, Undisturbed
      <4> QED BY <4>1, <4>2
    <3> QED BY <3>2 DEF Copies
  <2>11. Followed'
    BY <2>1, <2>7 DEF SourcesInv, Followed, Undisturbed
  <2> QED BY <2>8, <2>9, <2>10, <2>11 DEF SourcesInv
<1>3. CASE NoAddress(y) \/ SyncAborted(y)
  <2>1. /\ UNCHANGED <<sourceRow, published, definition, fetched>> /\ syncTale' = syncTale \cup {"aborted"}
        /\ sync' = [sync EXCEPT ![y] = [NotSynced EXCEPT !.pc = "done"]]
    BY <1>3 DEF NoAddress, SyncAborted, SyncGoes
  <2>2. PICK n \in SyncRow : n = [NotSynced EXCEPT !.pc = "done"]
    BY <1>1 DEF SyncRow
  <2>3. n.pc = "done" /\ sync' = [sync EXCEPT ![y] = n]
    BY <2>1, <2>2 DEF NotSynced
  <2>4. /\ sync' \in [Syncs -> SyncRow] /\ sync'[y] = n
        /\ \A z \in Syncs : z # y => sync'[z] = sync[z]
    BY <2>3, SourceTypes
  <2>5. ~Undisturbed' /\ ("renamed" \notin syncTale' => "renamed" \notin syncTale)
    BY <2>1 DEF Undisturbed
  <2>6. SourcesTypeOK' /\ SourcesKept'
    BY <2>1, <2>4, SourceTypes DEF SourcesTypeOK, SourcesInv, SourcesKept
  <2>7. Named'
    BY <2>1, <2>3, <2>4, <2>5 DEF SourcesInv, Named, AtWork
  <2>8. Copies' /\ Followed'
    BY <2>1, <2>3, <2>4, <2>5 DEF SourcesInv, Copies, Followed, AtWork
  <2> QED BY <2>6, <2>7, <2>8 DEF SourcesInv
<1> QED BY <1>2, <1>3

\* Sources change.
LEMMA SourcesChange ==
  ASSUME SourcesInv, EditSource \/ Publish
  PROVE  SourcesInv'
<1>1. CASE EditSource
  <2>1. PICK s \in SourceIds, n \in SourceNames, u, e \in BOOLEAN :
          /\ <<n, u, e>> # <<sourceRow[s].name, sourceRow[s].url, sourceRow[s].enabled>>
          /\ sourceRow' = [sourceRow EXCEPT ![s].name = n, ![s].url = u, ![s].enabled = e]
          /\ syncTale' = syncTale \cup {"edited"}
                                 \cup (IF n # sourceRow[s].name THEN {"renamed"} ELSE {})
                                 \cup (IF \E y \in Syncs : AtWork(y) THEN {"overlapped"} ELSE {})
    BY <1>1, Zenon DEF EditSource
  <2>2. UNCHANGED <<published, definition, sync, fetched>>
    BY <1>1 DEF EditSource
  <2>3. sourceRow[s] \in SourceRow
    BY SourceTypes
  <2>4. PICK k \in SourceRow : k = [sourceRow[s] EXCEPT !.name = n, !.url = u, !.enabled = e]
    BY <2>3 DEF SourceRow
  <2>5. k.name = n /\ k.cached = sourceRow[s].cached /\ sourceRow' = [sourceRow EXCEPT ![s] = k]
    BY <2>1, <2>3, <2>4, SourceTypes DEF SourceRow
  <2>6. /\ sourceRow' \in [SourceIds -> SourceRow] /\ sourceRow'[s] = k
        /\ \A t \in SourceIds : t # s => sourceRow'[t] = sourceRow[t]
    BY <2>5, SourceTypes
  <2>7. /\ syncTale \subseteq syncTale' /\ syncTale' \subseteq {"edited", "overlapped", "renamed", "aborted"}
        /\ "renamed" \notin syncTale' => "renamed" \notin syncTale /\ n = sourceRow[s].name
        /\ Undisturbed' => Undisturbed /\ n = sourceRow[s].name /\ \A y \in Syncs : ~AtWork(y)
    BY <2>1, SourceTypes DEF Undisturbed
  <2>8. /\ "renamed" \notin syncTale' => \A t \in SourceIds : sourceRow'[t].name = sourceRow[t].name
        /\ Undisturbed' => \A t \in SourceIds : sourceRow'[t].name = sourceRow[t].name
    BY <2>5, <2>6, <2>7
  <2>9. SourcesTypeOK' /\ SourcesKept'
    BY <2>2, <2>5, <2>6, <2>7, SourceTypes DEF SourcesTypeOK, SourcesInv, SourcesKept
  <2>a. /\ \A z \in Syncs : sync[z].pc = "store" => sync[z].now.id \in SourceIds
        /\ \A z \in Syncs : \A w \in sync[z].todo : w.id \in SourceIds
    BY SourceTypes DEF SourcesInv, Copies, RowRead, SyncRow
  <2>10. Named'
    BY <2>2, <2>7, <2>8, <2>a DEF SourcesInv, Named, AtWork
  <2>11. Copies' /\ Followed'
    BY <2>2, <2>7, <2>8 DEF SourcesInv, Copies, Followed, AtWork
  <2> QED BY <2>9, <2>10, <2>11 DEF SourcesInv
<1>2. CASE Publish
  <2>1. UNCHANGED <<sourceRow, definition, sync, fetched, syncTale>>
    BY <1>2 DEF Publish
  <2>2. published' \in [SourceIds -> Catalogue]
    <3>1. PICK s \in SourceIds, a \in MarketApps :
            /\ published[s][a] < LastPublished /\ published' = [published EXCEPT ![s][a] = published[s][a] + 1]
      BY <1>2 DEF Publish
    <3>2. published[s] \in Catalogue /\ published[s][a] + 1 \in 0..LastPublished
      BY <3>1, SourceTypes, SourcesAssumption DEF Catalogue
    <3>3. [published[s] EXCEPT ![a] = published[s][a] + 1] \in Catalogue
      BY <3>2 DEF Catalogue
    <3> QED BY <3>1, <3>3, SourceTypes
  <2>3. SourcesTypeOK'
    BY <2>1, <2>2, SourceTypes DEF SourcesTypeOK
  <2> QED BY <2>1, <2>3 DEF SourcesInv, SourcesKept, Named, Copies, Followed, Undisturbed, AtWork
<1> QED BY <1>1, <1>2

LEMMA SourcesStart ==
  ASSUME SourcesInit
  PROVE  SourcesInv
<1>1. NotSynced \in SyncRow /\ NotSynced.pc = "new" /\ EmptyCatalogue \in Catalogue
  BY SourcesAssumption DEF NotSynced, SyncRow, EmptyCatalogue, Catalogue, RowRead, NotRead
<1>2. SourcesTypeOK
  <2>1. 0 \in 0..LastPublished
    BY SourcesAssumption
  <2>2. sourceRow \in [SourceIds -> SourceRow]
    <3>1. PICK S : /\ S = [name : SourceNames, url : BOOLEAN, enabled : {TRUE}, cached : {EmptyCatalogue}, error : {FALSE}]
                   /\ sourceRow \in [SourceIds -> S]
      BY DEF SourcesInit
    <3>2. S \subseteq SourceRow
      BY <1>1, <3>1 DEF SourceRow
    <3> QED BY <3>1, <3>2
  <2> QED BY <1>1, <2>1, <2>2 DEF SourcesInit, SourcesTypeOK
<1>3. SourcesKept /\ Named /\ Copies
  BY <1>1 DEF SourcesInit, SourcesKept, Named, Copies, AtWork
<1>4. Followed
  BY DEF SourcesInit, Followed, EmptyCatalogue
<1> QED BY <1>2, <1>3, <1>4 DEF SourcesInv

LEMMA SourcesHeld == SourcesSpec => []SourcesInv
<1>1. SourcesInit => SourcesInv
  BY SourcesStart
<1>2. SourcesInv /\ [SourcesNext]_sourceVars => SourcesInv'
  <2> SUFFICES ASSUME SourcesInv, [SourcesNext]_sourceVars
               PROVE  SourcesInv'
    OBVIOUS
  <2>1. CASE UNCHANGED sourceVars
    BY <2>1 DEF sourceVars, SourcesInv, SourcesTypeOK, SourcesKept, Named, Copies, Followed, Undisturbed, AtWork
  <2>2. CASE SourcesNext
    BY <2>2, GetsCatalogue, StoresDefinitions, BeginsOrBreaks, SourcesChange DEF SourcesNext
  <2> QED BY <2>1, <2>2
<1> QED BY <1>1, <1>2, PTL DEF SourcesSpec

LEMMA SourcesFollowed ==
  ASSUME SourcesInv
  PROVE  DefinitionsFollow
<1>1. SUFFICES ASSUME syncTale \subseteq {"edited"}, \A y \in Syncs : ~AtWork(y),
                      NEW s \in SourceIds, NEW a \in MarketApps, fetched[s][a] # 0
               PROVE  /\ definition[sourceRow[s].name, a] = fetched[s][a]
                      /\ a \notin BuiltinApps => sourceRow[s].name \in Offers(a)
  BY DEF DefinitionsFollow
<1>2. definition[<<sourceRow[s].name, a>>] = fetched[s][a]
  BY <1>1 DEF SourcesInv, Followed, Undisturbed, AtWork
<1>3. sourceRow[s].name \in SourceNames
  BY SourceTypes DEF SourceRow
<1> QED BY <1>1, <1>2, <1>3 DEF Offers

\* When no sync is at work, the definitions under a source's name are those fetched from
\* it last, for any sources, catalogues and syncs (sources.py).
THEOREM DefinitionsAreFetched == SourcesSpec => []DefinitionsFollow
BY SourcesHeld, SourcesFollowed, PTL

\* Sources, their catalogues and syncs keep their types.
THEOREM SourceTypesCorrect == SourcesSpec => []SourcesTypeOK
<1>1. SourcesInv => SourcesTypeOK
  BY DEF SourcesInv
<1> QED BY <1>1, SourcesHeld, PTL
----------------------------------------------------------------------------
(* The parts together. *)

\* Hosts have the status, the login and the rows they were given; groups are shown, stand
\* where they were moved and are found by their paths; applications are as their tasks
\* say, and definitions as their sources had them.
THEOREM AssetsSound == AssetsSpec => []AssetsHold
BY HostTypesCorrect, StatusesAgree, VerdictsOfLogins, HostsComeBack,
   GroupTypesCorrect, GroupsStayShown, MovesObey, PathsAreSound,
   MarketTypeCorrect, MarketKeepsFaith, SourceTypesCorrect, DefinitionsAreFetched, PTL
   DEF AssetsSpec, AssetsHold
=============================================================================
