SPECIFICATION Spec
CONSTANTS
    Timings <- SlowTicks
    MaxBatch = 3
    MaxEdits = 4
    Horizon = 20
    Readers = {r1, r2}
    Chunks = 2
    Values = {u, v}
    ChangeTime = TRUE
    MaxNow = 3
    Trees <- SmallTrees
    Patterns <- SubtreePatterns
    Dirs <- Tree
    Files <- Leaves
    Include <- PyOnly
    MaxOps = 6
    Alphabet = {0, 97, 10, 92}
    MaxLength = 5
    Needles <- Literals
    MaxRanges = 2
    MaxLine = 3
    MaxWidth = 1
    MaxOutput = 9
    Commands <- AllCommands
    Sources <- OneFile
    MaxReply = 12
    MaxNodes = 9
    MaxTokens = 30
    MaxArgs = 5
    MaxRepeat = 3
    MaxLeaves = 3
    MaxWraps = 1
    MaxScript = 5
    Pool <- SmallPool
    MaxPrepared = 4
    MaxEntries = 3
    MaxBytes = 10
    MaxStored = 3
    MaxFile = 2
    MaxCorpus = 4
    Paths <- SomePaths
    Readable <- ReadableNames
    Sensitive <- SensitiveNames
    Numerals <- SmallNumerals
    Settings <- SomeSettings
    Starts <- AllStarts
    Words <- StartWords
    MaxArguments = 4
    Procs = {p1, p2}
    None = none
    MaxSaves = 3
SYMMETRY Symmetry
INVARIANTS
    TypeOK
    PickedUpInTime
    CacheHonest
    IdentityWitnessed
    ProofWatched
    InputSetExact
    GuardSound
    ReadExact
    FusedExact
    ParseExact
    ReplayExactAlone
    GateSafe
    FoundExact
    NeverAnother
    ReadAsTool
    OnlyReads
    NothingLost
