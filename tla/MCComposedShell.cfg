SPECIFICATION Spec
CONSTANTS
    MaxRanges = 2
    MaxLine = 3
    MaxWidth = 1
    MaxOutput = 9
    Commands <- SomeCommands
    Files <- OneFile
    MaxReply = 12
    MaxNodes = 9
    MaxTokens = 30
    MaxArgs = 5
    MaxRepeat = 3
    MaxLeaves = 3
    MaxWraps = 1
    MaxScript = 5
CHECK_DEADLOCK FALSE
INVARIANT
    ReplayExact
