CONSTANTS
    own = own
    shared = shared
    Absent = Absent
    None = None
    Bare = Bare
    NoJob = NoJob
    Files = {"note", "copy"}
    Bodies = {"long", "short", "blank"}
    Metas = {"plain"}
    Chunks = {own, shared}
    ChunksOf <- MCChunksOf
    Bounds <- SomeBounds
SPECIFICATION FairSpec
INVARIANTS RowsMatchHolders
PROPERTIES
    PurgeSparesLiveNotes FingerprintAfterRows
    SearchableIfCalm DeletedIsHidden EventuallyFingerprinted
CHECK_DEADLOCK FALSE
