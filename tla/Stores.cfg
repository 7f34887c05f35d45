SPECIFICATION Spec
CONSTANTS
    d1 = d1
    f1 = f1
    f2 = f2
    f3 = f3
    f4 = f4
    b1 = b1
    b2 = b2
    b3 = b3
    x = x
    y = y
    c1 = c1
    c2 = c2
    h1 = h1
    h2 = h2
    NoKey = NoKey
    NoClient = NoClient
    Root = Root
    NoItem = NoItem
    DbRequests <- OneDbRequest
    MaxStatements = 3
    MaxPolicies = 3
    Folders <- FourFolders
    CatalogAssets <- ThreeAssets
    LastLook = 2
    ItemNames <- TwoNames
    LastKey = 2
    MaxMember = 2
    ShownMembers = 1
    LastBorrower = 2
    Clients <- TwoClients
    HostLogins <- TwoLogins
    Credentials <- OneCredential
    MaxIdle = 1
    Parts = {"database", "catalog", "redis", "pool"}
CHECK_DEADLOCK FALSE
INVARIANT TypesOK
INVARIANT DatabaseHonest
INVARIANT CatalogHolds
INVARIANT RedisHonest
INVARIANT PoolHolds
