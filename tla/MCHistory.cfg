SPECIFICATION HistorySpec
CONSTANTS
    r1 = r1
    r2 = r2
    r3 = r3
    r4 = r4
    s1 = s1
    s2 = s2
    None = None
    Runs <- FourRuns
    Sessions <- TwoSessions
    KeepTurns = 1
    DiskFaults = TRUE
    MaxCrashes = 1
SYMMETRY Symmetry
INVARIANTS
    HistoryTypeOK
    SummaryCoversPrefix
    TurnsAreWhole
    ContextRepeatsNothing
CHECK_DEADLOCK FALSE
