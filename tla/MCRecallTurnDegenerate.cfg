CONSTANTS
    a1 = a1
    a2 = a2
    b1 = b1
    h1 = h1
    A = A
    B = B
    H = H
    Ids <- MCFewIds
    Sources <- MCFewSources
    SourceOf <- MCFewSourceOf
    History = H
    StubSizes = {1}
    BodySizes = {3}
    MaxTokens = 3
    MaxWorkspaceTokens = 4
    HistoryBudget = 3
    MaxLoadedFragments = 3
    MaxChunksPerSource = 2
    Scores = {10}
    Overlaps = {0}
    LoadThreshold = 7
    UnloadThreshold = 5
    RefreshMargin = 2
    DecayNum = 4
    DecayDen = 5
    MaxInitialFragments = 1
    MaxRecallIterations = 2
    MaxDegenerateRetries = 0
    ConvergenceMinTokens = 2
    Passive = FALSE
    Qualities = {0, 1}
    MaxItems = 1
SPECIFICATION TurnSpec
PROPERTY DegenerateLogsBest
