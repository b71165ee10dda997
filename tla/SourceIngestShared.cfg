CONSTANTS
    Threads = {"poller"}
    Units = {"message", "emoji"}
    Hidden = {"emoji"}
    Files = {"note"}
    Limit = 2
    MaxChanges = 2
    MaxFailures = 0
    MaxCrashes = 0
    MaxFiles = 0
SPECIFICATION Spec
INVARIANT CheckpointFound
