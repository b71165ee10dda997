CONSTANTS
    own = own
    shared = shared
    Absent = Absent
    None = None
    Bare = Bare
    NoJob = NoJob
    Files = {"note"}
    Bodies = {"long"}
    Metas = {"plain"}
    Chunks = {own, shared}
    ChunksOf <- MCChunksOf
    Bounds <- RecreateBounds
SPECIFICATION FairSpec
PROPERTY EventuallySearchable
