CONSTANTS
    Chunks = {1, 2, 3, 4, 5}
    Foreign = {5}
    Similarity <- MCSimilarity
    TitleScore <- MCTitleScore
    TextScore <- MCTextScore
    Weight <- MCWeight
    RerankScore <- MCRerankScore
    ShardOf <- MCShardOf
    Start <- MCStart
    Sources <- MCSources
    Hits <- MCHits
    LowSignal <- MCLowSignal
    RerankFloor = 1
    ScoreFloor = 50
    Shards = 2
    ShardCap = 20
    TitleBoost = 5
    TextBoost = 1
    Multiplier = 25
    FusionK = 60
    Scale = 10000
    Requests = {"r1"}
    TopKs = {1, 2, 3, 5}
    Reranks = {TRUE}
    Federations = {TRUE, FALSE}
    OverfetchFactor = 1
    OverfetchSlack = 0
    RerankPool = 1
    MaxTopK = 4
    Quota = 1
    PoolThreads = 1
    MaxWrites = 1
    MaxFaults = 1
    MaxPolls = 1
SPECIFICATION FairSpec
INVARIANTS VisibleResults MergeExact RerankedLeads HealthyAnswered
PROPERTIES EverySearchEnds
CHECK_DEADLOCK FALSE
