SPECIFICATION LivenessSpec
CONSTANTS
    a = a
    b = b
    c = c
    o = o
    p = p
    q = q
    pay = pay
    read = read
    None = None
    Calls = {a, b}
    Transports = {1}
    Kind <- RefusedB
    Host <- Hosts
    Tool <- Tools
    Size <- Sizes
    KeptSize <- Sizes
    Settings <- LayerSettings
    t1 = t1
    t2 = t2
    s1 = s1
    s2 = s2
    i1 = i1
    i2 = i2
    i3 = i3
    x = x
    y = y
    f1 = f1
    f2 = f2
    j1 = j1
    j2 = j2
    j3 = j3
    j4 = j4
    h1 = h1
    h2 = h2
    q1 = q1
    q2 = q2
    q3 = q3
    Trails = {t1, t2}
    Sources = {s1, s2}
    Jobs = {j1, j2, j3}
    Ids = {i1, i2, i3}
    Bodies = {x, y}
    Job <- Asked
    Flushers = {f1}
    TrailOf <- Owner
    Window = 2
    OutboxLimit = 3
    TrailSettings <- RetrySettings
    MaxTrailCrashes = 0
CHECK_DEADLOCK FALSE
PROPERTIES
    TrailDelivers
    ClaimSettles
