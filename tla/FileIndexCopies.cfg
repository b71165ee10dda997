CONSTANTS
    own = own
    shared = shared
    Absent = Absent
    None = None
    Bare = Bare
    NoJob = NoJob
    Files = {"note", "copy"}
    Bodies = {"short"}
    Metas = {"plain"}
    Chunks = {own, shared}
    ChunksOf <- MCChunksOf
    Bounds <- DeleteBounds
SPECIFICATION FairSpec
PROPERTY DeletedWithCopiesIsHidden
