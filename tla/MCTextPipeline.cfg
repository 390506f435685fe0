SPECIFICATION Spec
CONSTANTS
    ChunkSize = 8
    Overlap = 4
    Kinds = {"page", "code", "toc", "word", "head", "prose", "long"}
    PiecesOf <- LinePieces
    SentenceEnds = {"prose"}
    TocKinds = {"toc"}
    DigitKinds = {"page", "code"}
    Blank = "blank"
    MaxLines = 4
    MinRepeats = 3
    MaxBoilerplateLen = 5
    MaxPageNumberLen = 3
    Files <- UploadedFiles
    NoSize = NoSize
    MaxUploadSize = 2
    MaxBatchTexts = 2
    MaxBatchTokens = 3
    CharsPerToken = 4
CHECK_DEADLOCK FALSE
INVARIANTS WithinSize NothingLost ParagraphsStay OverlapBounded FittingStaysWhole ReadyIsSearchable RequestsFillCaps
