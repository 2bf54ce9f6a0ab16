SPECIFICATION RuntimeSpec
CONSTANTS
    a = a
    b = b
    c = c
    o = o
    p = p
    q = q
    pay = pay
    read = read
    None = None
    Calls = {a, b, c, o, p, q}
    Transports = {1, 2}
    Kind <- Registered
    Host <- Hosts
    Tool <- Tools
    Size <- Sizes
    KeptSize <- Sizes
    Settings <- Scenarios
    s1 = s1
    s2 = s2
    s3 = s3
    c1 = c1
    c2 = c2
    t1 = t1
    h1 = h1
    h2 = h2
    h3 = h3
    j = j
    NoId = NoId
    Ids = {s1, s2, s3}
    Unthreaded = {c1, c2}
    Threaded = {t1}
    Clients = {h1, h2, h3}
    Janitors = {j}
    Lifetime = 9
    SweepInterval = 2
    SessionSettings <- SessionScenarios
SYMMETRY Alike
CHECK_DEADLOCK FALSE
INVARIANTS
    EndsOnce
    ProofsBelong
    WithinBudget
    StoreSound
PROPERTIES
    GivesUpRightly
