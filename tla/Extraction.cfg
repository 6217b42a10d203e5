SPECIFICATION ExtractionSpec
CONSTANTS
    Token <- MCToken
    Whitespace = Whitespace
    Reserved <- MCReserved
    TargetTokens = 3
    MaxTokens = 4
    OverlapTokens = 1
    LongTokens = 5
    MaxLines = 8
    MaxRows = 3
    MaxColumns = 3
    MaxFieldTokens = 3
    MaxElementTokens = 8
    Batches <- MCBatches
    Threads = 2
    TextLines = 4
    MarkdownLines = 5
    LogLines = 4
    CsvLines = 4
    PdfItems = 3
INVARIANTS
    ExtractionTypeOK
    NothingLost
    WindowsAdvance
    RowsFollowHeader
    GroupsStayInTarget
    ChunksTraceable
    ContextEncloses
    LogRecordsStandAlone
    LinesReachChunks
    OutcomeIsDeserved
PROPERTIES
    EveryDocumentSettles
CHECK_DEADLOCK FALSE
