CONSTANTS
    a1 = a1
    a2 = a2
    b1 = b1
    h1 = h1
    A = A
    B = B
    H = H
    Ids <- MCIds
    Sources <- MCSources
    SourceOf <- MCSourceOf
    History = H
    StubSizes = {1}
    BodySizes = {3}
    MaxTokens = 3
    MaxWorkspaceTokens = 6
    HistoryBudget = 1
    MaxLoadedFragments = 3
    MaxChunksPerSource = 1
    Scores = {6, 10}
    Overlaps = {0}
    LoadThreshold = 7
    UnloadThreshold = 5
    RefreshMargin = 2
    DecayNum = 4
    DecayDen = 5
    MaxInitialFragments = 1
    MaxRecallIterations = 2
    MaxDegenerateRetries = 1
    ConvergenceMinTokens = 2
    Passive = TRUE
    Qualities = {0, 1}
    MaxItems = 1
SPECIFICATION FairTurnSpec
INVARIANTS
    TurnTypeOK
    RecalledReachesModel
    BroadQueryLoadsNothing
PROPERTIES
    WorkspaceSpec
    BestAnswerKept
    EveryTurnEnds
