CONSTANTS
    chunk = chunk
    emb = emb
    file1 = file1
    file2 = file2
    tag1 = tag1
    tag2 = tag2
    mention = mention
    v1 = v1
    v2 = v2
    k1 = k1
    k2 = k2
    NoRow = NoRow
    NoCursor = NoCursor
    NoManifest = NoManifest
    Rows <- MCRows
    Payloads = {v1, v2}
    Cursors = {k1, k2}
    SectionOf <- MCSectionOf
    Rank <- MCRank
    FileNodes <- MCFileNodes
    Relations <- MCRelations
    Frontmatter <- MCFrontmatter
    SourceFile <- MCSourceFile
    ChunkOf <- MCChunkOf
    Manifests <- MCManifests
    BatchSize = 2
SPECIFICATION FairSpec
INVARIANTS ResumeStateSound
PROPERTIES EmbeddingAfterChunk PromiseKept CallEnds
