CONSTANTS
    a1 = a1
    h1 = h1
    A = A
    H = H
    Ids <- MCOneId
    Sources <- MCSources
    SourceOf <- MCOneSourceOf
    History = H
    StubSizes = {1}
    BodySizes = {1}
    MaxTokens = 1
    MaxWorkspaceTokens = 2
    HistoryBudget = 1
    MaxLoadedFragments = 2
    MaxChunksPerSource = 1
    Scores = {10}
    Overlaps = {0}
    LoadThreshold = 7
    UnloadThreshold = 5
    RefreshMargin = 2
    DecayNum = 1
    DecayDen = 4
    MaxInitialFragments = 1
    MaxRecallIterations = 1
    MaxDegenerateRetries = 0
    ConvergenceMinTokens = 1
    Passive = FALSE
    Qualities = {0}
    MaxItems = 2
    RateNum = 1
    RateDen = 3
    RecoveryThreshold = 1
    MinCalls = 1
    MaxProbes = 2
    Window = 1
    MaxCalls <- MCNoCalls
    MaxRecent = 3
SPECIFICATION FairMonitoredSpec
PROPERTY RecallComesBack
