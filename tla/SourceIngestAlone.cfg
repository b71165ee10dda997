CONSTANTS
    Threads = {"poller"}
    Units = {"message", "reply", "emoji"}
    Hidden = {"emoji"}
    Files = {"note"}
    Limit = 2
    MaxChanges = 4
    MaxFailures = 2
    MaxCrashes = 1
    MaxFiles = 0
SPECIFICATION FairSpec
INVARIANT CheckpointCoversUnits
PROPERTIES PromiseKept EventuallyCheckpointed
