SPECIFICATION FairSpec
CONSTANTS
    Runs = {r1, r2}
    Tasks = {t1}
    Hashes = {h1, h2}
    Urls = {u1}
    DeadUrls = {}
    Clients = {c1}
    None = None
    DiskFaults = TRUE
    MaxCrashes = 1
INVARIANTS TypeOK NothingLost ReportOutcomeIsTrue 
PROPERTIES  KeepsDeliveryPromise
CHECK_DEADLOCK FALSE
