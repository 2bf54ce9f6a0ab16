SPECIFICATION FairSpec
CONSTANTS
    r1 = r1
    r2 = r2
    r3 = r3
    k1 = k1
    k2 = k2
    k3 = k3
    k4 = k4
    a = a
    b = b
    o1 = o1
    o2 = o2
    g1 = g1
    g2 = g2
    c1 = c1
    c2 = c2
    c3 = c3
    c4 = c4
    c5 = c5
    e1 = e1
    e2 = e2
    e3 = e3
    e4 = e4
    p1 = p1
    p2 = p2
    p3 = p3
    p4 = p4
    k0 = k0
    Recorders = {r1, r2}
    Calls = {c1, c2, c3, e2, e4}
    Keys = {k1, k2, k3, k4}
    GenesisKey = k0
    Contents = {a, b}
    Objects = {o1, o2}
    Configs = {g1, g2}
    ConfigOf <- TwoConfigs
    Submission <- Table
    Prior <- OnePrior
    Settings <- Failing
    MaxConflicts = 1
    MaxRestores = 0
    MaxCrashes = 1
PROPERTIES
    ImplementsLedger
    EveryCallAnswered
