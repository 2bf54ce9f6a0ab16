SPECIFICATION Spec
CONSTANTS
    None = None
    Chars = {"r", "w", "*"}
    Resources <- Scopes
    Values <- Scopes
    RegexTest <- Literal
    Calls <- TheCalls
    Request <- TheRequest
    Creds <- TheCreds
    Cred <- TheCred
    HonestChain <- TheChain
    Answers <- TheAnswers
    Server = "server"
    KeyDids = {"agent", "helper", "stranger"}
    Risk <- TheRisk
    Quorum = 2
    Approvers = {"p", "q"}
    Settings <- TheSettings
    MaxChain = 3
    MaxEntries = 2
    Latency = 1
    MaxTime = 3
INVARIANTS
    AuthoritySound
    HolderProved
    RunsWithinGrant
PROPERTIES
    RetryResolves
