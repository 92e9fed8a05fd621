SPECIFICATION RoundsFairSpec
CONSTANTS
    Providers <- Both
    Index <- TwoIndices
    MaxRetries = 2
    MaxRounds = 2
    MaxFrames = 4
INVARIANTS
    ReplyIsTheStream
    RequestsArePaired
PROPERTIES RoundsEnd
