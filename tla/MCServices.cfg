CONSTANTS
    Paths = {"a", "b", "c.png"}
    Skipped = {"c.png"}
    ChunksOf <- MCChunksOf
    Producers = {1, 2}
    GlobalPool = 2
    ChannelCapacity = 1
    BatchSize = 2
    Sessions = {s1, s2}
    Documents = {p, q}
    Thin = {}
    PromptSize = 2
    PipeSize = 1
    MaxEvents = 3
    Items = {"i1", "i2"}
    Concurrency = 2
    JudgeWorkers = 2
    SinkPerAdapter = FALSE
    Requests = {"r1", "r2"}
    Bodies <- MCBodies
    Routes = {"proxy", "retrieve"}
    Rankings <- MCRankings
    SourceOf <- MCSourceOf
    TokensOf <- MCTokensOf
    MaxWorkspaceTokens = 3
    MaxChunksPerSource = 2
SPECIFICATION ServicesSpec
CHECK_DEADLOCK FALSE
INVARIANTS
    NoChildOutlivesCall
    InjectionIsClamped
    LinesAreWhole
    SkippedIsWhole
    EveryFileIsFound
PROPERTIES
    StallIsEnded
    EveryRequestAnswered
    BuildComplete
    BuildEnds
