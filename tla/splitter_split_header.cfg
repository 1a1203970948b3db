SPECIFICATION PartsSpec
CONSTANTS
    AutoInstallOnAppQuit = TRUE
    MaxCalls = 5
    Checksums = {"a", "b"}
    Sizes = {1, 2}
    Offsets = {0, 1}
    MaxOldBlocks = 2
    MaxNewBlocks = 3
    TaskLists <- SmallLists
    BoundaryLength = 3
    HeaderLength = 1
    SplitHeaders = TRUE
    Plans <- SmallPlans
    Settings <- ThreeSettings
    BatchSize = 2
    MacDownloads = {d1, d2}
    None = None
    Publications <- ThreePublications
    FeedSettings <- EightFeeds
    UserChannels = {"latest", "beta"}
    MaxRefusals = 4
    Unset = Unset
INVARIANT CompletesAtEnd
CHECK_DEADLOCK FALSE
