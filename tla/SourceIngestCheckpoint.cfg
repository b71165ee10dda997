CONSTANTS
    Threads = {"poller", "indexer"}
    Units = {"message", "reply", "emoji"}
    Hidden = {"emoji"}
    Files = {"note"}
    Limit = 2
    MaxChanges = 1
    MaxFailures = 0
    MaxCrashes = 0
    MaxFiles = 1
SPECIFICATION Spec
INVARIANT CheckpointCoversUnits
