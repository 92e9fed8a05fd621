SPECIFICATION FairSpec
CONSTANTS
    a1 = a1
    a2 = a2
    None = None
    Agents <- TwoAgents
    Names <- Tools
    Local <- Own
    Signing <- Signs
    RemoteNames <- Remote
    Handshake <- Auth
    Cards <- Listings
    MaxCalls = 3
    MaxRuns = 2
INVARIANTS
    AgentsGetOnlyGained
    RetryIsFresh
PROPERTIES CallsEnd
