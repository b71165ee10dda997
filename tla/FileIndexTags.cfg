CONSTANTS
    own = own
    shared = shared
    Absent = Absent
    None = None
    Bare = Bare
    NoJob = NoJob
    Files = {"note"}
    Bodies = {"long"}
    Metas = {"plain", "tagged"}
    Chunks = {own, shared}
    ChunksOf <- MCChunksOf
    Bounds <- EditBounds
SPECIFICATION Spec
INVARIANT TagsShown
