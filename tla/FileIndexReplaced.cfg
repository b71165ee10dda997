CONSTANTS
    own = own
    shared = shared
    Absent = Absent
    None = None
    Bare = Bare
    NoJob = NoJob
    Files = {"note"}
    Bodies = {"long", "short"}
    Metas = {"plain"}
    Chunks = {own, shared}
    ChunksOf <- MCChunksOf
    Bounds <- EditBounds
SPECIFICATION FairSpec
PROPERTY ReplacedIsHidden
