SPECIFICATION ChainSpec
CONSTANTS
    Chars = {"a", "/", ".", "*"}
    RegexTest <- Literal
    Resources <- Patterns
    Values <- Required
    Credentials <- OneScope
    MaxLength = 3
INVARIANTS
    AttenuationOnly
CHECK_DEADLOCK FALSE
