SPECIFICATION FairSpec
CONSTANTS
    Connections = {hapoalim}
    Requests = {r1, r2}
    None = None
    Approved = {hapoalim}
    MaxSyncs = 2
    MaxVersion = 1
    MaxCrashes = 1
    MaxFaults = 1
INVARIANTS
    OneRunPerConnection
PROPERTIES
    EndedStaysEnded
    SyncsAndClaimsEnd
CHECK_DEADLOCK FALSE
