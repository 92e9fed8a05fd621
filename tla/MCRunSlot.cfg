SPECIFICATION SlotFairSpec
CONSTANTS
    r1 = r1
    r2 = r2
    r3 = r3
    NoRun = NoRun
    Runs <- ThreeRuns
    MaxDialogs = 2
INVARIANTS
    SlotTypeOK
    AnswersAreTheUsers
    PendingIsOpen
PROPERTIES RunsEnd
CHECK_DEADLOCK FALSE
