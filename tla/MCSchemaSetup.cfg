SPECIFICATION FairSpec
CONSTANTS
    Versions <- TwoVersions
    Unique <- UniqueInFirst
    Kinds <- TwoKinds
    Definition <- VectorDrifts
    NoDefinition = NoDefinition
    Polls = 2
    Rollbacks = FALSE
    Duplicates = TRUE
    MaxBoots = 4
CHECK_DEADLOCK FALSE
INVARIANTS TypeOK IndexAsDeclared SearchAsDeclared
PROPERTY EndsServing
