SPECIFICATION Spec
CONSTANTS
    Runs = {r1, r2, r3}
    SettlementRuns = {r3}
    Tasks = {t1, t2}
    Endpoints = {e1, e2}
    Hashes = {h1}
    None = None
    MaxCrashes = 1
SYMMETRY Symmetry
INVARIANTS TypeOK OneDepositPerChatRun ExecutionsArePaid AttachedArePaid 
 
CHECK_DEADLOCK FALSE
