SPECIFICATION FairSpec
CONSTANTS
    a1 = a1
    a2 = a2
    a3 = a3
    e1 = e1
    e2 = e2
    None = None
    Agents <- AgentSet
    First <- FirstListings
    Endpoints <- TwoEndpoints
    Prices = {5, 7}
    PageSize = 1
    MaxPages = 2
    MaxRetries = 1
    MaxChanges = 2
    MaxRuns = 1
INVARIANTS
    PaidIsAttached
    StillListingIsSearched
PROPERTIES RequestsEnd
