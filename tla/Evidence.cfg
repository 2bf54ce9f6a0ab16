SPECIFICATION PartsSpec
CONSTANTS
    c1 = c1
    c2 = c2
    c3 = c3
    b1 = b1
    b2 = b2
    d1 = d1
    d2 = d2
    d3 = d3
    d4 = d4
    r1 = r1
    w1 = w1
    w2 = w2
    Calls = {c1, c2, c3}
    BuilderOf <- TwoBuilders
    Observers <- OneObserver
    Anchors <- OneAnchor
    Deliveries <- FourDeliveries
    Readers = {r1}
    Workers = {w1, w2}
    Settings <- Scenarios
    MaxAttempts = 2
    MinObservers = 1
    AnchorKindsRequired <- WormOnly
    PageLimit = 1
    PolicyKinds = {"plain", "strict", "retired"}
    Plaintexts = {"p"}
    SealingKeys <- Keys
    EntityData = {"", "e1", "e2"}
    MaxSealed = 2
    EvidenceReaders = {"q1"}
    HoldIds = {"h1", "h2"}
INVARIANTS
    CheckpointsSound
    ObserverOneHistory
    CopiesFaithful
    HonestExportVerifies
    ValidIsGenuine
PROPERTIES
    EvidenceGoverned
CHECK_DEADLOCK FALSE
