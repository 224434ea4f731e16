\* Two clients and the shutdown close one captured operation, with retries.
\* Characters of one and three bytes in journals of four; every output of up to eight
\* characters in every division into chunks; two lines in each shell;
\* seven log records in main.log and three rotated files of at most two records;
\* a recording of four events.
CONSTANTS
    Clients = {a1, a2}
    Shutdowns = {h1}
    Observers = {o1, o2}
    MaxOutput = 2
    MaxRetries = 2
    Streams = {stdout, stderr}
    Widths = {1, 3}
    MaxBytes = 4
    MaxChunk = 2
    MaxVersion = 4
    Characters = {"e", "c", "x"}
    Query <- TheQuery
    ScanLength = 4
    MaxCharacters = 4
    MaxLength = 8
    Shells = {"bash", "zsh", "fish", "powershell"}
    ExitCodes = {0, 1}
    Directories = {"home", "tmp"}
    MaxLines = 2
    NoId = NoId
    MaxFiles = 3
    MaxFileBytes = 2
    Sizes = {1, 2}
    MaxRecords = 7
    MaxEvents = 4
SPECIFICATION MCSpec
INVARIANTS RemovedOnlyEnded RetainsNewest TruncationIsExact OutputIsExpected ReportsShell LogIsRecent ExportIsFaithful
PROPERTIES CallsSettle RecordsAreReclaimed
\* The process stops; the record of an operation is gone and the calls are used up.
CHECK_DEADLOCK FALSE
