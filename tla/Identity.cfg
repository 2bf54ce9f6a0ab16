SPECIFICATION Spec
CONSTANTS
    p1 = p1
    p2 = p2
    p3 = p3
    h1 = h1
    h2 = h2
    h3 = h3
    k1 = k1
    k2 = k2
    k3 = k3
    sender1 = sender1
    n = n
    l1 = l1
    l2 = l2
    j1 = j1
    j2 = j2
    Requests = {p1, p2, p3, h1, h2, h3, k1, k2, k3}
    Signers = {sender1}
    Nonces = {n}
    Message <- Messages
    Skew0 <- OneSecond
    MinSkew = 1
    MaxSkew = 2
    MinTtl <- Minimums
    Tps = 2
    MaxDelay <- Delays
    Settings <- AdmissionScenarios
    MaxTime = 13
    FetchUrls <- AskedUrls
    Locations <- LocationHeaders
    Addresses <- AddressTexts
    Trusted <- FirstParty
    Transports = {"pinned", "by name"}
    MaxRedirects = 1
    MaxBytes = 1
    Lookups = {l1, l2}
    LookupDids <- AskDids
    Subject <- DeviceOwner
    DeviceKeys = {"k1", "k2"}
    FirstDevices = {"k1"}
    Registries <- RegistrySettings
    LiteralHosts <- AddressLiterals
    CacheTtl = 2
    MaxFetch = 1
    LookupTime = 4
    Jobs = {j1, j2}
    Holder <- Me
    LowerCase <- NoCase
    MaxTtlSec = 2
    SkewSec = 1
    CardSettings <- CardScenarios
    Uses <- AllUses
    MaxDigits = 2
    Tens <- PowersOfTen
    ListLength = 4
    ListTtl = 2
    CardTime = 3
    Parts = {"admission", "fetch", "dids", "card", "proof"}
    ControlArgs = {"_kyaos"}
    EnvelopeProfile = "envelope"
    Checks = {j1, j2}
    ExchangeSettings <- Exchanges
    DrawnNonces <- TwoNonces
    WebDocument <- AbsoluteId
    NextKey = "key2"
    KeyOfDid <- HolderKeys
    Skew = 1
    ExchangeTime = 3
INVARIANTS
    ReplayGuarded
    FetchConfined
    ResolvedKeysCurrent
    CardStands
    AssuranceEarned
    ChainConfines
    ProofsDecide
CHECK_DEADLOCK FALSE
