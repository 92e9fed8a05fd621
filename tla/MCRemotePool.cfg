SPECIFICATION FairSpec
CONSTANTS
    r1 = r1
    r2 = r2
    alice = alice
    bob = bob
    c1 = c1
    c2 = c2
    c3 = c3
    None = None
    Runs <- TwoRuns
    Owners <- TwoOwners
    KeysOf <- OneSwitches
    Clients <- ThreeClients
INVARIANTS
    ActsAsItsOwner
PROPERTIES AcquiresEnd
