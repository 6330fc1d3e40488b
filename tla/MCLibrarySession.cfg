CONSTANTS
    Paths = {"p1", "p2", "p3"}
    Workers = {"w1", "w2", "w3"}
    NoPath = "none"
    Ids = {"a1", "a2", "b1", "h1", "h2"}
    Sources = {"A", "B", "H"}
    SourceOf <- MCSourceOf
    History = "H"
    StubSizes = {1}
    BodySizes = {1, 3}
    MaxTokens = 3
    MaxWorkspaceTokens = 5
    HistoryBudget = 2
    MaxLoadedFragments = 3
    MaxChunksPerSource = 1
    Scores = {6, 10}
    Overlaps = {0, 9}
    LoadThreshold = 7
    UnloadThreshold = 5
    RefreshMargin = 2
    DecayNum = 4
    DecayDen = 5
    RateNum = 1
    RateDen = 3
    RecoveryThreshold = 2
    MinCalls = 2
    MaxProbes = 2
    Window = 2
    MaxCalls <- MCMaxCalls
    MaxRecent = 2
    Stubs = {"a", "b", "c"}
    StubTokens <- MCStubTokens
    Budget = 4
    SearchScores = {4, 8}
    Load = 7
    Unload = 5
    MaxCandidates = 2
    MaxIterations = 2
    MaxAnswerProbes = 2
    NCtx = 6
    MaxNewTokens = 4
    CheckInterval = 2
    WindowSize = 2
    PromptSizes = {0, 1, 2, 7}
    InjectionSizes = {0, 1, 2}
    StubIds = {"f1", "f2"}
    ThrashingWindow = 5
    MaxTrail = 4
    MaxTurns = 3
    Schema <- MCSchema
    Hints = {"tone"}
    Verbs = {"", "is"}
    Signals = {"list"}
    Classifiers = 3
    Emissions <- MCEmissions
    Confidences = {10, 60}
    MinConfidence = 50
    Characters = {"x"}
    Documents <- MCDocuments
    Configs <- MCConfigs
    Dense = {"x", "lead"}
    MaxSafe = 2
    MaxHeader = 1
    LeastConfig <- MCLeastConfig
    CharBytes = 2
    Letters = {"x"}
    Sentences <- MCSentences
    Conversations <- MCConversations
    Replies <- MCReplies
    SummaryTokens <- MCSummaryTokens
    TokenThreshold = 1
    RetainRecent = 1
    Matches <- MCMatches
    MaxResults = 2
    SemanticWeight = 6
    KeywordWeight = 4
    MaxThought = 5
    MaxAnswer = 1
    Queries <- MCQueries
    Answers <- MCAnswers
    Samples <- MCSamples
    MaxPriorAnswer = 3
    MaxLogged = 2
    MaxSessions = 2
SPECIFICATION LibrarySpec
CHECK_DEADLOCK FALSE
INVARIANT EarlierTurnsAreRecalled
