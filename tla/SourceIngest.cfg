CONSTANTS
    Threads = {"poller", "indexer"}
    Units = {"message", "emoji"}
    Hidden = {"emoji"}
    Files = {"note"}
    Limit = 2
    MaxChanges = 3
    MaxFailures = 1
    MaxCrashes = 1
    MaxFiles = 1
SPECIFICATION FairSpec
INVARIANTS CheckpointIndexed FingerprintIndexed
PROPERTIES EventuallyIndexed
