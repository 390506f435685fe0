SPECIFICATION FairSpec
CONSTANTS
    d1 = d1
    d2 = d2
    c1 = c1
    c2 = c2
    c3 = c3
    q1 = q1
    q2 = q2
    NoDoc = NoDoc
    Sweeper = Sweeper
    Requests = {q1}
    Chunks = {c1}
    Indexes = {0, 1}
    Docs <- OneDoc
    Versions <- OneSetting
    Layout <- OneChunk
    MaxAttempts = 2
    SweepLimit = 1
    DbErrors = FALSE
    MaxBoots = 2
PROPERTY PendingIsPickedUp
