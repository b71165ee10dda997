CONSTANTS
    Chunks = {1, 2, 3, 4, 5}
    Foreign = {5}
    Similarity <- MCSimilarity
    TitleScore <- MCTitleScore
    TextScore <- MCTextScore
    Weight <- MCWeight
    RerankScore <- MCRerankScore
    ShardOf <- MCShardOf
    Start <- MCStart
    Sources <- MCSources
    Hits <- MCHits
    LowSignal <- MCLowSignal
    RerankFloor = 1
    ScoreFloor = 50
    Shards = 2
    ShardCap = 20
    TitleBoost = 5
    TextBoost = 1
    Multiplier = 25
    FusionK = 60
    Scale = 10000
    Requests = {"r1"}
    TopKs = {10, 20, 21}
    Reranks = {TRUE}
    Federations = {TRUE, FALSE}
    OverfetchFactor = 5
    OverfetchSlack = 50
    RerankPool = 20
    MaxTopK = 100
    Quota = 1
    PoolThreads = 1
    MaxWrites = 1
    MaxFaults = 0
    MaxPolls = 1
SPECIFICATION FairSpec
CHECK_DEADLOCK FALSE
INVARIANTS EverySizeAnswered
