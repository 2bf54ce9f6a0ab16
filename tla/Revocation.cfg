SPECIFICATION Spec
CONSTANTS
    rt = rt
    c = c
    g = g
    u = u
    p = p
    m1 = m1
    m2 = m2
    revR = revR
    revC = revC
    revU = revU
    allR = allR
    allP = allP
    regR = regR
    regU = regU
    regU2 = regU2
    resR = resR
    resC = resC
    remC = remC
    remR = remR
    chkG = chkG
    chkU = chkU
    None = None
    Nodes = {rt, c, g, u, p}
    Ops = {revR, revC, revU, allR, allP, regR, regU, regU2, resR, resC, remC, remR, chkG, chkU}
    Managers = {m1, m2}
    Parent <- Issued
    Listed <- WithEntry
    Op <- Calls
    MaxDepth = 2
    Settings <- Scenarios
    Handshakes = {"h1", "h2"}
    Callbacks = {"c1", "c2"}
    AuthSettings <- AuthScenarios
    Adapters = {"oauth", "idv"}
    AdapterScopes = {"openid"}
    TicksPerSecond = 2
    FlowTtl = 3
    SweepEvery = 3
    SweepInterval = 3
    StoreTtl = 3
    AdvertisedTtl = 5
    MaxFlows = 2
    AuthTime = 4
    ListSize = 10
    Indices <- StatusIndices
    MaxListBytes = 2
    IssuedRecords <- Grants
    SigningDid = "issuer"
    IssuerKey <- DidKeys
    Servers <- ForwardingServers
    Sessions <- ForwardingSessions
    TicksPerSec = 2
    ProofLifetime = 60
    IssueTime = 7
    CheqdCalls = {"c1", "c2", "w1"}
    CheqdSettings <- LedgerScenarios
    ListIssuer <- LedgerIssuer
    FirstDocument <- GenesisDocument
    FirstList <- GenesisList
    OtherBodies <- StrangeBodies
    OtherDocuments <- StrangeDocuments
    SigningKey = "key1"
    ListCacheTtl = 1
    DocCacheTtl = 2
    UpstreamAge = 1
    MaxFlight = 1
    CheqdTime = 5
CHECK_DEADLOCK FALSE
INVARIANTS
    BitsKept
    RevocationHolds
    AuthorizationEarned
    KeptAsAdvertised
    StatusReadsBack
    IssuedFaithfully
    LedgerSound
PROPERTIES
    MarkKept
