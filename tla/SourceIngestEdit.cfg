CONSTANTS
    Threads = {"poller"}
    Units = {"message", "reply", "emoji"}
    Hidden = {"emoji"}
    Files = {"note"}
    Limit = 2
    MaxChanges = 2
    MaxFailures = 0
    MaxCrashes = 1
    MaxFiles = 2
SPECIFICATION Spec
INVARIANT EditedTextReplaced
