------------------------------- MODULE Hosts -------------------------------
(* backend/host_management: managed hosts and credentials of views.py, probe.py,
   import_export.py, sync_verify_status and resolve_creator of services.py.

   A host's row is stored whole by managed_host_detail, by named columns by the
   probe, by sync_verify_status and by the login that a credential gave.  A probe
   reads the row, talks to the machine, and stores its verdict on the row as it is
   by then.  An import is one transaction.  A group is the path that leads to it;
   what a probe measures, names' wording and who created a host are left out. *)
EXTENDS Naturals, FiniteSets

CONSTANTS
    LastHostRow,     \* bound: rows are 1..LastHostRow
    LastHostAsk,     \* bound: requests are 1..LastHostAsk, in the order they come
    HostNames, HostPaths, Addresses, HostUsers,
    NoUser           \* no login name

ASSUME HostsAssumption == LastHostRow \in Nat /\ LastHostAsk \in Nat /\ NoUser \notin HostUsers

VARIABLES
    hostRow,      \* ManagedHost rows, by id
    credential,   \* the login of the HostCredential row, NoUser if blank, "none" if there is no row
    accepts,      \* external: the logins the machine at an address accepts
    hostFile,     \* a file host_management_export gave: hosts in the order of their ids
    hostAsk,      \* requests: what was asked, what was read
    touched,      \* history: rows an operator or an import stored since their last probe began
    hostsRaced,   \* history: a request stored, or exported, while another was on its way
    handmade,     \* history: an import brought a verdict without its status
    restored      \* history: the items of an import, while nothing was stored since

hostVars == <<hostRow, credential, accepts, hostFile, hostAsk, touched, hostsRaced, handmade, restored>>

HostRows == 1..LastHostRow
HostAsks == 1..LastHostAsk
Item    == [name : HostNames, at : HostPaths, ip : Addresses, login : HostUsers \cup {NoUser},
            windows : BOOLEAN, verified : BOOLEAN, status : {"unverified", "verified", "failed"}]
Absent == [is |-> "free"]
Deleted == [is |-> "deleted"]
LiveRow(item) == [is |-> "live", row |-> item]
IsLive(rows, h) == rows[h].is = "live"
LiveHosts == {h \in HostRows : IsLive(hostRow, h)}
ItemsOf(rows) == {rows[h].row : h \in {g \in HostRows : IsLive(rows, g)}}

NotHost == [pc |-> "new", kind |-> "none", host |-> 0, row |-> Absent, claim |-> "absent"]

\* What the rows are.
HostRow == [is : {"live"}, row : Item] \cup {Absent, Deleted}
AskRow  == [pc : {"new", "connect", "probe", "save", "sync", "done"}, kind : {"none", "edit", "verify"},
            host : HostRows \cup {0}, row : Item \cup {Absent}, claim : {"absent", "true", "false"}]

HostsTypeOK ==
    /\ hostRow \in [HostRows -> HostRow] /\ hostAsk \in [HostAsks -> AskRow]
    /\ credential \in HostUsers \cup {NoUser, "none"} /\ accepts \in [Addresses -> SUBSET HostUsers]
    /\ hostFile.lent \in HostUsers \cup {NoUser, "none"} /\ DOMAIN hostFile.hosts \subseteq HostRows
    /\ \A i \in DOMAIN hostFile.hosts : hostFile.hosts[i] \in Item
    /\ restored \subseteq Item /\ touched \subseteq HostRows /\ hostsRaced \in BOOLEAN /\ handmade \in BOOLEAN

HostComes(r) == hostAsk[r].pc = "new" /\ \A q \in 1..r - 1 : hostAsk[q].pc # "new"
HostAt(r, pc, kind) == hostAsk[r].pc = pc /\ hostAsk[r].kind = kind
HostGoes(r, q) == hostAsk' = [hostAsk EXCEPT ![r] = q]
HostEnds(r) == HostGoes(r, [NotHost EXCEPT !.pc = "done"])
\* Something is stored: whoever is on its way does not know.
OnTheirWay(r) == {q \in HostAsks \ {r} : hostAsk[q].pc \notin {"new", "done"}}
HostsStored(r) == hostsRaced' = (hostsRaced \/ OnTheirWay(r) # {}) /\ restored' = {}
KeptBesides(rows) == hostRow' = rows /\ UNCHANGED <<credential, accepts, hostFile>>
----------------------------------------------------------------------------
(* Hosts. *)

\* managed_hosts POST: the row, then its status.
CreateHost(r) ==
    /\ HostComes(r)
    /\ \E h \in HostRows, n \in HostNames, p \in HostPaths, v \in BOOLEAN, u \in HostUsers, a \in Addresses :
         /\ hostRow[h].is = "free" /\ \A g \in 1..h - 1 : hostRow[g].is # "free"
         /\ LET row == [name |-> n, at |-> p, ip |-> a, login |-> u, windows |-> FALSE,
                        verified |-> v, status |-> "unverified"] IN
            /\ KeptBesides([hostRow EXCEPT ![h] = LiveRow(row)])
            /\ HostGoes(r, [NotHost EXCEPT !.pc = "sync", !.host = h, !.row = row])
         /\ touched' = touched \cup {h}
    /\ HostsStored(r) /\ UNCHANGED handmade

\* managed_host_detail PUT reads the row; the changed row is stored whole, inserted
\* again if it was deleted meanwhile.
ReadForEdit(r) ==
    /\ HostComes(r)
    /\ \E h \in LiveHosts, u \in HostUsers, n \in HostNames, claim \in {"absent", "true", "false"} :
         HostGoes(r, [NotHost EXCEPT !.pc = "save", !.kind = "edit", !.host = h, !.claim = claim,
                        !.row = [hostRow[h].row EXCEPT !.login = u, !.name = n,
                                   !.verified = IF claim = "absent" THEN @ ELSE claim = "true"]])
    /\ UNCHANGED <<hostRow, credential, accepts, hostFile, touched, hostsRaced, handmade, restored>>

\* sync_verify_status comes if the request said whether the host is verified.
\* Mutant: only a host that became verified gets its status.
AsksVerified(q) == q.claim = "true"
AsksVerdict(q) == q.claim # "absent"
StoreEdit(r) == LET q == hostAsk[r] IN
    /\ HostAt(r, "save", "edit")
    /\ KeptBesides([hostRow EXCEPT ![q.host] = LiveRow(q.row)])
    /\ IF AsksVerdict(q) THEN HostGoes(r, [q EXCEPT !.pc = "sync"]) ELSE HostEnds(r)
    /\ touched' = touched \cup {q.host}
    /\ HostsStored(r) /\ UNCHANGED handmade

\* sync_verify_status judges the row of the request and stores the status of the host;
\* the row of a deleted host cannot be stored.
SyncStatus(r) ==
    LET q == hostAsk[r]
        expected == IF q.row.verified THEN "verified" ELSE "unverified" IN
    /\ hostAsk[r].pc = "sync"
    /\ KeptBesides(IF q.row.status # expected /\ IsLive(hostRow, q.host)
                   THEN [hostRow EXCEPT ![q.host].row.status = expected] ELSE hostRow)
    /\ HostEnds(r) /\ HostsStored(r) /\ UNCHANGED <<touched, handmade>>

DropHost(r) ==
    /\ HostComes(r)
    /\ \E h \in LiveHosts : KeptBesides([hostRow EXCEPT ![h] = Deleted]) /\ touched' = touched \ {h}
    /\ HostEnds(r) /\ HostsStored(r) /\ UNCHANGED handmade
----------------------------------------------------------------------------
(* managed_host_verify *)

Probing(h) == \E q \in HostAsks : hostAsk[q].kind = "verify" /\ hostAsk[q].host = h
ReadForProbe(r) ==
    /\ HostComes(r)
    /\ \E h \in LiveHosts :
         /\ HostGoes(r, [NotHost EXCEPT !.pc = "connect", !.kind = "verify", !.host = h, !.row = hostRow[h].row])
         /\ touched' = IF Probing(h) THEN touched ELSE touched \ {h}
    /\ UNCHANGED <<hostRow, credential, accepts, hostFile, hostsRaced, handmade, restored>>

\* open_ssh_client: the login that was read, else that of a credential, which is stored.
Own(q)    == q.row.login \in accepts[q.row.ip]
Lends(q)  == credential \in accepts[q.row.ip]
\* Mutant: the login that worked is forgotten.
UseUnstored(q) == hostRow
UseCredential(q) == [hostRow EXCEPT ![q.host].row.login = credential]

ConnectOwn(r) == LET q == hostAsk[r] IN
    /\ HostAt(r, "connect", "verify") /\ ~q.row.windows /\ Own(q)
    /\ HostGoes(r, [q EXCEPT !.pc = "probe"])
    /\ UNCHANGED <<hostRow, credential, accepts, hostFile, touched, hostsRaced, handmade, restored>>
ConnectLent(r) == LET q == hostAsk[r] IN
    /\ HostAt(r, "connect", "verify") /\ ~q.row.windows /\ ~Own(q) /\ Lends(q)
    /\ IF IsLive(hostRow, q.host)
       THEN KeptBesides(UseCredential(q)) /\ HostGoes(r, [q EXCEPT !.pc = "probe"])
       ELSE KeptBesides(hostRow) /\ HostEnds(r)
    /\ HostsStored(r) /\ UNCHANGED <<touched, handmade>>

\* Mutant: a failure leaves the flag.
VerdictByStatus(h, verdict) ==
    IF IsLive(hostRow, h)
    THEN [hostRow EXCEPT ![h].row.verified = @ \/ (verdict = "verified"), ![h].row.status = verdict] ELSE hostRow

\* The verdict is stored on the row as it is by now; that of a deleted host is an error.
Verdict(h, verdict) ==
    IF IsLive(hostRow, h)
    THEN [hostRow EXCEPT ![h].row.verified = (verdict = "verified"), ![h].row.status = verdict] ELSE hostRow
\* No login was accepted, no machine answered, or a command of the probe failed.
ProbeFails(r) == LET q == hostAsk[r] IN
    /\ q.pc \in {"connect", "probe"} /\ q.kind = "verify"
    /\ KeptBesides(Verdict(q.host, "failed"))
    /\ HostEnds(r) /\ HostsStored(r) /\ UNCHANGED <<touched, handmade>>
\* verify_windows_host_connectivity asks for no login.
ProbeSucceeds(r) == LET q == hostAsk[r] IN
    /\ q.kind = "verify" /\ (q.pc = "probe" \/ (q.pc = "connect" /\ q.row.windows))
    /\ KeptBesides(Verdict(q.host, "verified"))
    /\ HostEnds(r) /\ HostsStored(r) /\ UNCHANGED <<touched, handmade>>
----------------------------------------------------------------------------
(* Credentials: a row is read and stored whole; only its login matters here. *)

EditCredential(r) ==
    /\ HostComes(r)
    /\ credential' \in (HostUsers \cup {NoUser, "none"}) \ {credential}
    /\ HostEnds(r) /\ HostsStored(r)
    /\ UNCHANGED <<hostRow, accepts, hostFile, touched, handmade>>
----------------------------------------------------------------------------
(* Export and import. *)

Export ==
    /\ hostFile' = [hosts |-> [h \in LiveHosts |-> hostRow[h].row], lent |-> credential]
    /\ hostFile' # hostFile
    /\ hostsRaced' = (hostsRaced \/ OnTheirWay(0) # {})
    /\ UNCHANGED <<hostRow, credential, accepts, hostAsk, touched, handmade, restored>>

\* Mutant: hosts are found by their name alone.
MatchesName(rows, item) == {h \in HostRows : IsLive(rows, h) /\ rows[h].row.name = item.name}

\* update_or_create by name and group.
Matches(rows, item) == {h \in HostRows : /\ IsLive(rows, h) /\ rows[h].row.name = item.name
                                         /\ rows[h].row.at = item.at}
FreeRow(rows) == CHOOSE h \in HostRows : rows[h].is = "free" /\ \A g \in 1..h - 1 : rows[g].is # "free"

\* A file that was written by hand gives the verdict and not its status: a new row is
\* unverified, another keeps its status.
Put(rows, item, byHand) ==
    LET found == Matches(rows, item)
        h == IF found = {} THEN FreeRow(rows) ELSE CHOOSE g \in found : TRUE
        kept == IF found = {} THEN "unverified" ELSE rows[h].row.status IN
    [rows EXCEPT ![h] = LiveRow(IF byHand THEN [item EXCEPT !.status = kept] ELSE item)]
\* The rows when the items up to i are stored; bound: each finds a row.
Stored(items, byHand) ==
    LET rows[i \in 0..LastHostRow] ==
          IF i = 0 THEN hostRow
          ELSE IF i \in DOMAIN items THEN Put(rows[i - 1], items[i], byHand) ELSE rows[i - 1]
    IN rows
HasRoom(rows) == \E h \in HostRows : rows[h].is = "free"
Room(items, byHand) == \A i \in DOMAIN items : LET rows == Stored(items, byHand)[i - 1] IN
                         Matches(rows, items[i]) # {} \/ HasRoom(rows)
Ambiguous(item) == Cardinality(Matches(hostRow, item)) > 1

\* import_host_management_payload: all of it, or nothing if an item has two hosts.
ImportHosts(r) ==
    LET items == hostFile.hosts IN
    /\ HostComes(r) /\ DOMAIN items # {}
    /\ IF \E i \in DOMAIN items : Ambiguous(items[i])
       THEN UNCHANGED <<hostRow, credential, accepts, hostFile, touched, hostsRaced, handmade, restored>>
       ELSE \E byHand \in BOOLEAN :
            /\ Room(items, byHand)
            /\ hostRow' = Stored(items, byHand)[LastHostRow]
            /\ credential' = IF hostFile.lent = "none" THEN credential ELSE hostFile.lent
            /\ handmade' = (handmade \/ byHand)
            /\ touched' = touched \cup {h \in HostRows : hostRow'[h] # hostRow[h]}
            /\ hostsRaced' = (hostsRaced \/ OnTheirWay(r) # {})
            /\ restored' = IF byHand THEN {} ELSE {items[i] : i \in DOMAIN items}
            /\ UNCHANGED <<accepts, hostFile>>
    /\ HostEnds(r)

\* import_host_table_payload: what is there already is skipped.
ImportTable(r) ==
    /\ HostComes(r) /\ HasRoom(hostRow)
    /\ \E n \in HostNames, p \in HostPaths, a \in Addresses, w \in BOOLEAN :
         LET row == [name |-> n, at |-> p, ip |-> a, login |-> NoUser, windows |-> w,
                     verified |-> FALSE, status |-> "unverified"]
             there == \E item \in ItemsOf(hostRow) : item.name = n /\ item.at = p /\ item.ip = a
             h == FreeRow(hostRow) IN
         /\ KeptBesides(IF there THEN hostRow ELSE [hostRow EXCEPT ![h] = LiveRow(row)])
         /\ touched' = IF there THEN touched ELSE touched \cup {h}
    /\ HostEnds(r) /\ HostsStored(r) /\ UNCHANGED handmade
----------------------------------------------------------------------------
\* The rows of a portal whose requests have ended.
Agreed == {item \in Item : item.verified <=> item.status = "verified"}
HostsInit ==
    /\ hostRow \in [HostRows -> {Absent} \cup {LiveRow(item) : item \in Agreed}]
    /\ credential \in HostUsers \cup {NoUser, "none"} /\ accepts \in [Addresses -> SUBSET HostUsers]
    /\ hostFile = [hosts |-> [h \in {} |-> Absent], lent |-> "none"]
    /\ hostAsk = [r \in HostAsks |-> NotHost]
    /\ touched = {h \in HostRows : IsLive(hostRow, h)}
    /\ hostsRaced = FALSE /\ handmade = FALSE /\ restored = {}

HostsNext ==
    \/ Export
    \/ \E r \in HostAsks :
         \/ CreateHost(r) \/ ReadForEdit(r) \/ StoreEdit(r) \/ SyncStatus(r) \/ DropHost(r)
         \/ ReadForProbe(r) \/ ConnectOwn(r) \/ ConnectLent(r) \/ ProbeFails(r) \/ ProbeSucceeds(r)
         \/ EditCredential(r) \/ ImportHosts(r) \/ ImportTable(r)

HostsSpec == HostsInit /\ [][HostsNext]_hostVars
----------------------------------------------------------------------------
(* Properties. *)

\* The flag and the status of a host say the same once its requests have ended: they
\* are stored apart by views.py, together by the probe, as they come by an import.
\* Requests that overlapped, and files written by hand, are excused.
StatusAgrees == ~hostsRaced /\ ~handmade => \A h \in LiveHosts :
    (\A r \in HostAsks : hostAsk[r].pc # "sync" \/ hostAsk[r].host # h)
        => (hostRow[h].row.verified <=> hostRow[h].row.status = "verified")

\* A host that a probe verified has a login its machine accepts, be it that of a
\* credential, unless it was edited or imported since the probe read it: an edit leaves
\* the verdict on the old login.
VerdictOfLogin == \A h \in LiveHosts \ touched : ~Probing(h) => LET row == hostRow[h].row IN
    row.verified /\ ~row.windows => row.login \in accepts[row.ip]

\* A file that was exported, once imported, has every host of it back as it was, unless
\* two of them had one name in one group: of those the import keeps one.
HostsRestored ==
    (\A i, j \in restored : i.name = j.name /\ i.at = j.at => i = j) => restored \subseteq ItemsOf(hostRow)
=============================================================================
