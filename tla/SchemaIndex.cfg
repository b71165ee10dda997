CONSTANTS
    Plan <- MCPlan
    IndexesOf <- MCIndexesOf
    Shards <- MCNoShards
    Databases <- MCDatabases
    Starters <- MCStarters
    MaxFaults = 1
    MaxRuns = 2
    SameDirectory = TRUE
    LateEffects = FALSE
SPECIFICATION SchemaSpec
INVARIANTS VerifiedIsBuilt CurrentIsComplete
CHECK_DEADLOCK FALSE
