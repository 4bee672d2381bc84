SPECIFICATION Spec
CONSTANTS
    s1 = s1
    m1 = m1
    Processes = {s1, m1}
    Servers = {s1}
    c1 = c1
    c2 = c2
    Connections = {c1, c2}
    x = x
    y = y
    z = z
    Contents = {x, y, z}
    Binaries <- TheBinaries
    i1 = i1
    i2 = i2
    Clients = {i1, i2}
    Watched = i1
    r1 = r1
    r2 = r2
    Requests = {r1, r2}
    MaxClients = 1
    ClientTTL = 2
    Pause = 1
    CleanupEvery = 1
    ClientBurst = 3
    ClientRate = 1
    GlobalBurst = 4
    GlobalRate = 1
    Window = 3
INVARIANTS
    DeploymentTypeOK
    LimiterTypeOK
    LogMatchesSchema
    StartsDoNotCollide
    ServesMigrated
    NotReadyInShutdown
    IndividualBounded
PROPERTIES
    ImplementsSchemaHistory
    StartsEnd
    ShutdownEnds
    ImplementsBuckets
    OverflowOnlyWhenCrowded
