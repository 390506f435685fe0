SPECIFICATION Spec
CONSTANTS
    Chunks = {1, 2, 3, 4}
    Users = {"ann", "bob"}
    Documents = {"a1", "a2", "b1"}
    Limits = {0, 1, 2, 7, NoLimit}
    Owner <- OwnerOf
    DocumentOf <- DocOf
    NoLimit = NoLimit
    NoDocument = NoDocument
    NoMode = NoMode
    NoScore = NoScore
    DefaultLimit = 2
    MaxLimit = 3
    DefaultMode = "hybrid"
    FetchMultiplier = 2
    MaxFetchK = 3
    RrfK = 60
    VectorWeight = 1
    TextWeight = 1
CHECK_DEADLOCK FALSE
INVARIANTS ScopeBeforeLimit BestFirst AgreementCompounds EitherLegSuffices AnswerTellsItsLegs
