------------------------------ MODULE MCPortal ------------------------------
(* Constants for checking the parts of the portal whose state is rows of its own
   database.  They share nothing: a behaviour is one of the part it begins with. *)
EXTENDS Portal, Assets

CONSTANTS k1, k2, l1, u1, u2, u3, u4, g1, e1, v1, v2, x, ops, m1, m2, w1, w2, p1, p2

TwoSessions  == {k1, k2}
OneLogin     == {l1}
FewSecrets   == {u1, u2, u3}
TwoRoles     == {RootRole, ops}
OneTerminal  == {g1}
OneAudit     == {e1}
OneLog       == {"entry"}
TwoWrites    == {v1, v2}
ThreeGroupNames == {<<"a">>, <<"b">>, <<"a", "b">>}
FirstName    == <<"a">>
----------------------------------------------------------------------------
CONSTANT Parts  \* the components of a run
VARIABLE part   \* the component this behaviour is about

portalVars == <<loginVars, factorVars, adminVars, retentionVars, auditVars>>
assetVars  == <<hostVars, groupVars, marketVars, sourceVars>>
Vars == <<portalVars, assetVars, part>>

\* One host with a login its machine refuses or accepts, perhaps a second one of its name.
KnownHost(u, v, s, p, w) == LiveRow([name |-> x, at |-> p, ip |-> m1, login |-> u, windows |-> w,
                                     verified |-> v, status |-> s])
HostsStart ==
    /\ \E u \in {w1, w2}, v \in BOOLEAN, w \in BOOLEAN, p \in {p1, p2}, two \in BOOLEAN :
         /\ w => u = w1 /\ p = p2 /\ ~two
         /\ two => u = w1 /\ v
         /\ ~two => p = p2
         /\ hostRow = [h \in HostRows |->
              CASE h = 1         -> KnownHost(u, v, IF v THEN "verified" ELSE "unverified", p1, w)
                [] h = 2 /\ two -> KnownHost(w2, FALSE, "failed", p, FALSE)
                [] OTHER         -> Absent]
    /\ credential \in {w2, NoUser} /\ accepts = [a \in Addresses |-> {w2}]
OneHostsStart == /\ hostRow = [h \in HostRows |-> Absent]
                 /\ credential = NoUser /\ accepts = [a \in Addresses |-> {}]

\* Two groups at the root and a third somewhere, or none at all.
GroupsStart ==
    /\ \E p \in {TreeTop, 1}, any \in BOOLEAN :
         grp = [g \in GroupIds |->
           CASE any /\ g = 1 -> GroupRow(<<"a">>, TreeTop, 10)
             [] any /\ g = 2 -> GroupRow(<<"b">>, TreeTop, 20)
             [] any /\ g = 3 -> IF p = 1 THEN GroupRow(<<"a">>, 1, 10) ELSE GroupRow(<<"a", "b">>, TreeTop, 30)
             [] OTHER -> NoGroup]
OneGroupsStart == grp = [g \in GroupIds |-> NoGroup]

\* The parts a behaviour is not about stay in one of their initial states.
Init ==
    /\ part \in Parts
    /\ LoginInit /\ FactorInit
    /\ AdminInit     /\ (account[0].is = "live" <=> permission # {})
                     /\ (part # "admin" => permission = {"page"} /\ account[LastUser].is = "live")
    /\ RetentionInit /\ \A s \in {"logs", "file", "sessions"} : setting[s] = 1
                     /\ setting["command"] = setting["recording"]
                     /\ (part # "retention" => setting["command"] = 0)
    /\ AuditInit     /\ (part # "audit" => \A w \in Writes : write[w].rule /\ write[w].own)
    /\ IF part = "hosts" THEN HostsStart ELSE OneHostsStart
    /\ hostFile = [hosts |-> [h \in {} |-> Absent], lent |-> "none"] /\ hostAsk = [r \in HostAsks |-> NotHost]
    /\ touched = {h \in HostRows : IsLive(hostRow, h)}
    /\ hostsRaced = FALSE /\ handmade = FALSE /\ restored = {}
    /\ IF part = "groups" THEN GroupsStart ELSE OneGroupsStart
    /\ housed = {} /\ grpAsk = [r \in GroupAsks |-> GroupIdle] /\ grpRaced = {} /\ moved = NotMoved
    /\ MarketInit    /\ (part # "market" => isLocal)
    /\ SourcesInit   /\ (\A s \in SourceIds : sourceRow[s].name = s /\ published[s] = [a \in MarketApps |-> 1])
                     /\ sourceRow[2].url /\ (part # "sources" => sourceRow[1].url)

LoginStep   == /\ part = "login" /\ LoginNext
               /\ UNCHANGED <<factorVars, adminVars, retentionVars, auditVars, assetVars, part>>
FactorStep  == /\ part = "factor" /\ FactorNext
               /\ UNCHANGED <<loginVars, adminVars, retentionVars, auditVars, assetVars, part>>
AdminStep   == /\ part = "admin" /\ AdminNext
               /\ UNCHANGED <<loginVars, factorVars, retentionVars, auditVars, assetVars, part>>
CleanupStep == /\ part = "retention" /\ RetentionNext
               /\ UNCHANGED <<loginVars, factorVars, adminVars, auditVars, assetVars, part>>
AuditStep   == /\ part = "audit" /\ AuditNext
               /\ UNCHANGED <<loginVars, factorVars, adminVars, retentionVars, assetVars, part>>
HostsStep   == /\ part = "hosts" /\ HostsNext
               /\ UNCHANGED <<groupVars, marketVars, sourceVars, portalVars, part>>
GroupsStep  == /\ part = "groups" /\ GroupsNext
               /\ UNCHANGED <<hostVars, marketVars, sourceVars, portalVars, part>>
MarketStep  == /\ part = "market" /\ MarketNext
               /\ UNCHANGED <<hostVars, groupVars, sourceVars, portalVars, part>>
SourcesStep == /\ part = "sources" /\ SourcesNext
               /\ UNCHANGED <<hostVars, groupVars, marketVars, portalVars, part>>

Next == \/ LoginStep \/ FactorStep \/ AdminStep \/ CleanupStep \/ AuditStep
        \/ HostsStep \/ GroupsStep \/ MarketStep \/ SourcesStep

Spec == Init /\ [][Next]_Vars
=============================================================================
