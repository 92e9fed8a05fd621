SPECIFICATION Spec
CONSTANTS
    Runs = {r1, r2}
    SettlementRuns = {r1}
    Tasks = {t1, t2}
    Endpoints = {e1}
    Hashes = {h1}
    None = None
    MaxCrashes = 0
INVARIANTS OneDepositPerRun
CHECK_DEADLOCK FALSE
