SPECIFICATION Spec
CONSTANTS
    a = a
    b = b
    c = c
    o = o
    p = p
    q = q
    pay = pay
    read = read
    None = None
    Calls = {a}
    Transports = {1}
    Kind <- Registered
    Host <- Hosts
    Tool <- Tools
    Size <- Sizes
    KeptSize <- Sizes
    Settings <- Replacing
CHECK_DEADLOCK FALSE
INVARIANTS
    RecordedOnce
