SPECIFICATION AuditSpec
CONSTANTS
    r1 = r1
    r2 = r2
    r3 = r3
    k1 = k1
    k2 = k2
    k3 = k3
    k4 = k4
    a = a
    b = b
    o1 = o1
    o2 = o2
    g1 = g1
    g2 = g2
    c1 = c1
    c2 = c2
    c3 = c3
    c4 = c4
    c5 = c5
    e1 = e1
    e2 = e2
    e3 = e3
    e4 = e4
    p1 = p1
    p2 = p2
    p3 = p3
    p4 = p4
    k0 = k0
    Recorders = {r1, r2, r3}
    Calls = {c1, c2, c3, c4, c5, e1, e2, e3, e4, p1, p2, p3, p4}
    Keys = {k1, k2, k3, k4}
    GenesisKey = k0
    Contents = {a, b}
    Objects = {o1, o2}
    Configs = {g1, g2}
    ConfigOf <- TwoConfigs
    Submission <- Table
    Prior <- OnePrior
    Settings <- Scenarios
    MaxConflicts = 2
    MaxRestores = 2
    MaxCrashes = 0
    t1 = t1
    t2 = t2
    s1 = s1
    s2 = s2
    i1 = i1
    i2 = i2
    i3 = i3
    x = x
    y = y
    f1 = f1
    f2 = f2
    j1 = j1
    j2 = j2
    j3 = j3
    j4 = j4
    h1 = h1
    h2 = h2
    q1 = q1
    q2 = q2
    q3 = q3
    Trails = {t1, t2}
    Sources = {s1, s2}
    Jobs = {j1, j2, j3, j4, h1, h2, q1, q2, q3}
    Ids = {i1, i2, i3}
    Bodies = {x, y}
    Job <- Asked
    Flushers = {f1, f2}
    TrailOf <- Owner
    Window = 1
    OutboxLimit = 3
    TrailSettings <- TrailScenarios
    MaxTrailCrashes = 1
INVARIANTS
    EvidenceRetained
    ChainIntegrity
    ReceiptsHold
    NoFalseRefusal
    SourceHistorySound
    AnswersHonest
