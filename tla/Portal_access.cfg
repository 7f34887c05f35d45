SPECIFICATION Spec
CONSTANTS
    k1 = k1
    k2 = k2
    l1 = l1
    u1 = u1
    u2 = u2
    u3 = u3
    u4 = u4
    g1 = g1
    e1 = e1
    v1 = v1
    v2 = v2
    x = x
    ops = ops
    NoKey = NoKey
    NoSecret = NoSecret
    NoSession = NoSession
    RootRole = RootRole
    SessionKeys <- TwoSessions
    InFlight = 2
    Logins <- OneLogin
    Secrets <- FewSecrets
    LastUser = 1
    Roles <- TwoRoles
    LastAdmin = 2
    LastDay = 2
    MaxPasses = 1
    TermSessions <- OneTerminal
    Audits <- OneAudit
    Logs <- OneLog
    Writes <- TwoWrites
    m1 = m1
    m2 = m2
    w1 = w1
    w2 = w2
    p1 = p1
    p2 = p2
    NoUser = NoUser
    LastHostRow = 3
    LastHostAsk = 2
    HostNames = {x}
    HostPaths = {p1, p2}
    Addresses = {m1}
    HostUsers = {w1, w2}
    LastGroup = 4
    LastGroupAsk = 2
    GroupNames <- ThreeGroupNames
    DefaultName <- FirstName
    TreeTop = TreeTop
    MarketMachines = {m1, m2}
    NoMachine = NoMachine
    MarketActions = {"install", "stop", "uninstall"}
    LastMarketTask = 2
    LastVersion = 2
    LastSource = 2
    LastSync = 2
    MarketApps = {x}
    BuiltinApps = {}
    SourceNames = {1, 2}
    LastPublished = 2
    Parts = {"login", "factor", "admin", "retention", "audit", "hosts", "groups", "market", "sources"}
CHECK_DEADLOCK FALSE
INVARIANT TypesOK
INVARIANT AccessHolds
INVARIANT RolesHold
 
INVARIANT AssetsHold
PROPERTY AuditsOutliveSessions
