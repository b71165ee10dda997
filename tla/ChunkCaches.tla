---------------------------- MODULE ChunkCaches ----------------------------
(***************************************************************************)
(* What the two fingerprints of a note, its stored text vectors, the       *)
(* embedding cache and the extraction cache do together, over edits of     *)
(* notes, failures of any step and restarts with other settings            *)
(* (ingestion/pipeline.py index_file, storage/cache.py,                    *)
(* storage/vec_components.py, extraction/ner.py, ingestion/chunker.py).    *)
(*                                                                         *)
(* A chunk id is <<body, position>>: the hash of the body and the position *)
(* (the strategy is fixed), so equal bodies share their chunks.  A vector  *)
(* is what went into it: the text and the model that encoded it, and once  *)
(* fused the note, the metadata and the model that encoded the metadata.   *)
(* Notes are edited between two runs of the indexer (an edit during one is *)
(* FileIndex's subject) and the retrieval store takes a phase of a         *)
(* manifest whole (its batches are DeltaSync's).  One resume state serves  *)
(* every manifest of a process (pipeline.py:583, 2602): a phase that one   *)
(* manifest completed is skipped by all that follow, while fingerprints    *)
(* and components are saved as if its rows had been written.               *)
(***************************************************************************)
EXTENDS Naturals, Sequences, FiniteSets

CONSTANTS
    Notes, Bodies, Metas,  \* paths; bodies (with kind); title and tags
    Models,                \* embedding models
    Sigs,                  \* NER model, entity types and threshold
    Budgets,               \* max_chunk_tokens
    Pieces,                \* [Bodies \X Budgets -> Seq(text)]: the chunker
    Suffix,                \* [Models -> name]: _model_to_table_suffix
    Dim,                   \* [Models -> Nat]: length of a vector
    Spans,                 \* [text -> Nat]: spans of a text naming its entity
    None,
    MaxEdits, MaxRestarts, MaxFailures, \* bounds of the exploration
    MaxEvents              \* and of the three together

ASSUME CachesAssumption ==
    /\ {MaxEdits, MaxRestarts, MaxFailures, MaxEvents} \subseteq Nat
    /\ None \notin Bodies \cup Metas
    /\ Pieces \in [Bodies \X Budgets -> Seq(DOMAIN Spans)]

VARIABLES
    conf,        \* settings of the running process
    disk,        \* the notes as they are
    chunkPrint,  \* chunk_fingerprints_<strategy>: one for all models
    metaPrint,   \* meta_fingerprints_<strategy><suffix>: one per suffix
    printed,     \* history: the body of the chunks that metaPrint was saved
                 \* for, None while rows are newer than that
    rows,        \* local chunk rows: id -> text
    held,        \* chunk_file_paths: pairs <<note, id>>
    parts,       \* vec_components_<strategy><suffix>: suffix -> id -> vector
    cached,      \* embedding_cache: <<text, model>> -> vector
    cachedFor,   \* its sentinel
    found,       \* extraction_cache: <<text, sig>> -> text of its entities
    foundFor,    \* its sentinel
    texts,       \* chunks of the retrieval store: id -> text
    vectors,     \* embeddings of the retrieval store: <<id, model>> -> vector
    graph,       \* mentions in the retrieval store: id -> <<text, sig>> -> weight
    applied,     \* the resume state of the process: the completed phases
    unwritten,   \* history: keys of vectors the resume state withheld since
                 \* they were last written
    unmentioned, \* history: ids without mentions for the same reason
    job,         \* the run of index_file
    spent        \* edits, restarts and failures so far
cachesVars == <<conf, disk, chunkPrint, metaPrint, printed, rows, held, parts,
                cached, cachedFor, found, foundFor, texts, vectors, graph,
                applied, unwritten, unmentioned, job, spent>>
local == <<chunkPrint, metaPrint, printed, rows, held, parts>>
caches == <<cached, cachedFor, found, foundFor>>
resume == <<applied, unwritten, unmentioned>>
store == <<texts, vectors, graph, resume>>

Nothing == <<>>   \* the function with an empty domain
Idle == [step |-> "idle", note |-> None, chunks |-> Nothing,
         mentions |-> Nothing, vectors |-> Nothing]
Suffixes == {Suffix[m] : m \in Models}
Settings == [model : Models, sig : Sigs, budget : Budgets]
Table == Suffix[conf.model]

Only(f, S) == [x \in DOMAIN f \cap S |-> f[x]]
f ++ g == [x \in DOMAIN f \cup DOMAIN g |-> IF x \in DOMAIN f THEN f[x] ELSE g[x]]

\* Mutant: chunk ids made of the path.
PathId(n, b, i) == <<n, i>>

(* A chunk id is made of the checksum of the body and of the position,     *)
(* never of the path or of the token budget.                               *)
ChunkId(n, b, i) == <<b, i>>

(* chunk_file: the chunks of a body.                                       *)
Cut(b) == Pieces[<<b, conf.budget>>]
Split(n, b) == [id \in {ChunkId(n, b, i) : i \in DOMAIN Cut(b)} |-> Cut(b)[id[2]]]

HeldBy(n) == {id \in DOMAIN rows : <<n, id>> \in held}

(* The body that chunks are of, which need not be the one a note has now.  *)
BodyOf(ids) == (CHOOSE id \in ids : TRUE)[1]

----------------------------------------------------------------------------
Init ==
    /\ conf \in Settings
    /\ disk \in [Notes -> [body : Bodies, meta : Metas]]
    /\ chunkPrint = [n \in Notes |-> None]
    /\ metaPrint = [s \in Suffixes |-> [n \in Notes |-> None]]
    /\ printed = metaPrint
    /\ rows = Nothing /\ held = {}
    /\ parts = [s \in Suffixes |-> Nothing]
    /\ cached = Nothing /\ cachedFor = conf.model
    /\ found = Nothing /\ foundFor = conf.sig
    /\ texts = Nothing /\ vectors = Nothing /\ graph = Nothing
    /\ applied = {} /\ unwritten = {} /\ unmentioned = {}
    /\ job = Idle
    /\ spent = [edits |-> 0, restarts |-> 0, failures |-> 0]

(* One of the bounded events.                                              *)
Spend(event, bound) ==
    /\ spent[event] < bound
    /\ spent.edits + spent.restarts + spent.failures < MaxEvents
    /\ spent' = [spent EXCEPT ![event] = @ + 1]

(* The owner of a note changes its body, its metadata or both.             *)
Edit(n, b, m) ==
    /\ job = Idle
    /\ Spend("edits", MaxEdits)
    /\ disk[n] # [body |-> b, meta |-> m]
    /\ disk' = [disk EXCEPT ![n] = [body |-> b, meta |-> m]]
    /\ UNCHANGED <<conf, local, caches, store, job>>

(* What a cache holds once a process with another sentinel has started.    *)
Refreshed(table, sentinel, value) ==
    IF sentinel # value THEN Nothing ELSE table

(* The process ends, idle or in the middle of a file, and starts with the  *)
(* settings c: a cache filled under another model or another NER signature *)
(* is emptied, the sentinels are set; no phase is completed.               *)
Restart(c) ==
    /\ Spend("restarts", MaxRestarts)
    /\ conf' = c
    /\ cached' = Refreshed(cached, cachedFor, c.model)
    /\ cachedFor' = c.model
    /\ found' = Refreshed(found, foundFor, c.sig)
    /\ foundFor' = c.sig
    /\ applied' = {}
    /\ job' = Idle
    /\ UNCHANGED <<disk, local, texts, vectors, graph, unwritten, unmentioned>>

(* Any call of a run may raise; the indexer logs it and goes on.           *)
Fail ==
    /\ job # Idle
    /\ Spend("failures", MaxFailures)
    /\ job' = Idle
    /\ UNCHANGED <<conf, disk, local, caches, store>>

----------------------------------------------------------------------------
(* index_file on a note whose body changed: its holds are given up and the *)
(* chunks nobody else holds are deleted, in one transaction.               *)
Clean(n) ==
    /\ job = Idle
    /\ chunkPrint[n] # disk[n].body
    /\ held' = {h \in held : h[1] # n}
    /\ rows' = Only(rows, {h[2] : h \in held'})
    /\ job' = [Idle EXCEPT !.step = "chunk", !.note = n]
    /\ UNCHANGED <<conf, disk, chunkPrint, metaPrint, printed, parts, caches,
                   store, spent>>

(* The note is chunked and its chunks are written, in a second transaction:*)
(* a row that exists is kept.                                              *)
Chunk ==
    LET n == job.note
        made == Split(n, disk[n].body)
    IN  /\ job.step = "chunk"
        /\ Cut(disk[n].body) # <<>>
        /\ rows' = rows ++ made
        /\ held' = held \cup {<<n, id>> : id \in DOMAIN made}
        /\ job' = [job EXCEPT !.step = "extract", !.chunks = made]
        /\ UNCHANGED <<conf, disk, chunkPrint, metaPrint, printed, parts,
                       caches, store, spent>>

(* A note without text is done once its body is remembered.                *)
ChunkNothing ==
    LET n == job.note
    IN  /\ job.step = "chunk"
        /\ Cut(disk[n].body) = <<>>
        /\ chunkPrint' = [chunkPrint EXCEPT ![n] = disk[n].body]
        /\ job' = Idle
        /\ UNCHANGED <<conf, disk, metaPrint, printed, rows, held, parts,
                       caches, store, spent>>

(* lookup_batch goes by the cache key, which has the text and not the      *)
(* chunk: of the chunks of one text in a batch it keeps the last.          *)
LookedUp(chunks) ==
    {id \in DOMAIN chunks :
        \A other \in DOMAIN chunks :
            chunks[other] = chunks[id] => other[2] <= id[2]}

\* Mutant: the entities of the whole batch cached for each of its chunks.
BatchBloat(id, batch) == {job.chunks[c] : c \in batch}

(* What is cached for a chunk of a batch: the entities of its text only.   *)
EntitiesToCache(id, batch) == {job.chunks[id]}

(* The key of a text in the extraction cache: its hash and the signature.  *)
CacheKey(text) == <<text, conf.sig>>

(* What the NER model finds in a text: a span per mention of its entity.   *)
Predicted(text) == [e \in {<<text, conf.sig>>} |-> Spans[text]]

(* store_batch: each text read anew under its own key.                     *)
Stored(misses) ==
    [key \in {CacheKey(job.chunks[id]) : id \in misses} |->
        UNION {EntitiesToCache(id, misses) :
                  id \in {c \in misses : CacheKey(job.chunks[c]) = key}}]

(* extract_with_cache: a hit gives the entities of the text, each counted  *)
(* once; a miss is read by the NER model, counted by its spans and cached. *)
Extract ==
    LET chunks == job.chunks
        Known(id) == CacheKey(chunks[id]) \in DOMAIN found
        hits == {id \in LookedUp(chunks) : Known(id)}
        Cached(id) ==
            [e \in found[CacheKey(chunks[id])] \X {conf.sig} |-> 1]
    IN  /\ job.step = "extract"
        /\ found' = Stored(LookedUp(chunks) \ hits) ++ found
        /\ job' = [job EXCEPT
                     !.step = "graph",
                     !.mentions = [id \in LookedUp(chunks) |->
                        IF id \in hits THEN Cached(id)
                                       ELSE Predicted(chunks[id])]]
        /\ UNCHANGED <<conf, disk, local, cached, cachedFor, foundFor, store,
                       spent>>

(* The mentions of the chunks are written to the retrieval store: a row is *)
(* replaced by one of the same chunk and entity, never removed.  Once the  *)
(* phase is completed the manifest returns without a row.                  *)
WriteGraph ==
    LET ids == DOMAIN job.mentions
    IN  /\ job.step = "graph"
        /\ IF "graph" \in applied
           THEN /\ unmentioned' = unmentioned \cup (ids \ DOMAIN graph)
                /\ UNCHANGED graph
           ELSE /\ unmentioned' = unmentioned \ ids
                /\ graph' = [id \in ids |->
                                job.mentions[id] ++
                                  (IF id \in DOMAIN graph THEN graph[id] ELSE Nothing)]
                            ++ graph
        /\ applied' = applied \cup {"graph"}
        /\ job' = [job EXCEPT !.step = "print"]
        /\ UNCHANGED <<conf, disk, local, caches, texts, vectors, unwritten, spent>>

(* The body is remembered before its vectors are made.                     *)
SaveChunkPrint ==
    /\ job.step = "print"
    /\ chunkPrint' = [chunkPrint EXCEPT ![job.note] = disk[job.note].body]
    /\ job' = [job EXCEPT !.step = "embed"]
    /\ UNCHANGED <<conf, disk, metaPrint, printed, rows, held, parts, caches,
                   store, spent>>

(* index_file on a note of which only the metadata is new to this model:   *)
(* the chunks are read back from the local rows.  A note without chunks is *)
(* not embedded.                                                           *)
MetaOnly(n) ==
    /\ job = Idle
    /\ chunkPrint[n] = disk[n].body
    /\ metaPrint[Table][n] # disk[n].meta
    /\ job' = IF HeldBy(n) = {}
              THEN [Idle EXCEPT !.step = "frontmatter", !.note = n]
              ELSE [Idle EXCEPT !.step = "embed", !.note = n,
                                !.chunks = Only(rows, HeldBy(n))]
    /\ UNCHANGED <<conf, disk, local, caches, store, spent>>

(* What the encoder makes of a text.                                       *)
Encoded(text) == [text |-> text, encoder |-> conf.model]

\* Mutant: one component table for all models.
SharedTable(id) ==
    LET key == <<job.chunks[id], conf.model>>
        kept == {s \in Suffixes : id \in DOMAIN parts[s]}
    IN  IF kept # {} THEN parts[CHOOSE s \in kept : TRUE][id]
        ELSE IF key \in DOMAIN cached THEN cached[key]
        ELSE Encoded(job.chunks[id])

(* Where the vector of a chunk comes from: the components of its id, then  *)
(* the cache by its text, then the encoder.                                *)
TextVector(id) ==
    LET key == <<job.chunks[id], conf.model>>
    IN  IF id \in DOMAIN parts[Table] THEN parts[Table][id]
        ELSE IF key \in DOMAIN cached THEN cached[key]
        ELSE Encoded(job.chunks[id])

(* EmbeddingCache: what is not in the components is looked up by its text  *)
(* and encoded if it is not there; an entry that exists is kept.           *)
CachedWith(chunks) ==
    cached ++ [key \in {<<chunks[id], conf.model>> :
                           id \in DOMAIN chunks \ DOMAIN parts[Table]}
                 |-> Encoded(key[1])]

\* Mutant: the metadata remembered before the rows are written.
EmbedAndRemember ==
    LET n == job.note
    IN  /\ job.step = "embed"
        /\ cached' = CachedWith(job.chunks)
        /\ job' = [job EXCEPT !.step = "write",
                              !.vectors = [id \in DOMAIN job.chunks |->
                                              TextVector(id)]]
        /\ metaPrint' = [metaPrint EXCEPT ![Table][n] = disk[n].meta]
        /\ printed' = [printed EXCEPT ![Table][n] = BodyOf(DOMAIN job.chunks)]
        /\ UNCHANGED <<conf, disk, chunkPrint, rows, held, parts, cachedFor,
                       found, foundFor, store, spent>>

(* _embed_chunks: the vectors of the chunks; what the encoder made is      *)
(* cached, the components are written later.                               *)
EmbedChunks ==
    /\ job.step = "embed"
    /\ cached' = CachedWith(job.chunks)
    /\ job' = [job EXCEPT !.step = "write",
                          !.vectors = [id \in DOMAIN job.chunks |->
                                          TextVector(id)]]
    /\ UNCHANGED <<conf, disk, local, cachedFor, found, foundFor, store, spent>>

(* The metadata of the note is encoded anew on every run.                  *)
MetaVector(n) == [meta |-> disk[n].meta, encoder |-> conf.model]

(* The vector of a chunk and that of the metadata made one.                *)
Fused(id) ==
    LET made == job.vectors[id]
        ofMeta == MetaVector(job.note)
    IN  [text |-> made.text, encoder |-> made.encoder,
         note |-> job.note, meta |-> ofMeta.meta, metaEncoder |-> ofMeta.encoder]

(* The two vectors of each chunk can be fused, which needs one length.     *)
Fusible ==
    \A id \in DOMAIN job.vectors :
        Dim[job.vectors[id].encoder] = Dim[conf.model]

(* The chunks phase of a manifest, unless one before it completed it.      *)
TextsWritten == IF "chunks" \in applied THEN texts ELSE job.chunks ++ texts

(* The vectors are fused and the rows are written, each embedding under    *)
(* its chunk and the model of the settings.  Each of the two phases is     *)
(* skipped when an earlier manifest of the process completed it.           *)
WriteRows ==
    LET keys == (DOMAIN job.chunks) \X {conf.model}
        new == [key \in keys |-> Fused(key[1])]
    IN  /\ job.step = "write" /\ Fusible
        /\ texts' = TextsWritten
        /\ IF "embeddings" \in applied
           THEN /\ unwritten' = unwritten \cup
                       {key \in keys : key \in DOMAIN vectors => vectors[key] # new[key]}
                /\ UNCHANGED vectors
           ELSE /\ unwritten' = unwritten \ keys
                /\ vectors' = new ++ vectors
        /\ applied' = applied \cup {"chunks", "embeddings"}
        /\ printed' = [printed EXCEPT ![Table][job.note] = None]
        /\ job' = [job EXCEPT !.step = "finish"]
        /\ UNCHANGED <<conf, disk, chunkPrint, metaPrint, rows, held, parts,
                       caches, graph, unmentioned, spent>>

(* The manifest fails behind its chunks phase, which is then completed.    *)
FailWriting ==
    /\ job.step = "write" /\ Fusible
    /\ Spend("failures", MaxFailures)
    /\ texts' = TextsWritten
    /\ applied' = applied \cup {"chunks"}
    /\ job' = Idle
    /\ UNCHANGED <<conf, disk, local, caches, vectors, graph, unwritten,
                   unmentioned>>

(* INSERT OR REPLACE of a vector per chunk id.                             *)
WithParts(new) == [parts EXCEPT ![Table] = new ++ @]

(* A run for the metadata alone has extracted nothing.                     *)
MetadataOnly == job.mentions = Nothing

(* The components are stored and, last, the metadata is remembered; a run  *)
(* for the metadata alone goes on to the graph.                            *)
Finish ==
    LET n == job.note
    IN  /\ job.step = "finish"
        /\ parts' = WithParts(job.vectors)
        /\ metaPrint' = [metaPrint EXCEPT ![Table][n] = disk[n].meta]
        /\ printed' = [printed EXCEPT ![Table][n] = BodyOf(DOMAIN job.chunks)]
        /\ job' = IF MetadataOnly
                  THEN [Idle EXCEPT !.step = "frontmatter", !.note = n]
                  ELSE Idle
        /\ UNCHANGED <<conf, disk, chunkPrint, rows, held, caches, store,
                       spent>>

(* _frontmatter_to_graph: rows of the note, none of its chunks, in a       *)
(* manifest that completes the graph phase.                                *)
WriteFrontmatter ==
    /\ job.step = "frontmatter"
    /\ applied' = applied \cup {"graph"}
    /\ job' = Idle
    /\ UNCHANGED <<conf, disk, local, caches, texts, vectors, graph, unwritten,
                   unmentioned, spent>>

(* The cache keeps the entries of the live texts under the signature.      *)
Pruned(live) == Only(found, live \X {conf.sig})

(* prune_extraction_cache, of the maintenance after a batch: the texts of  *)
(* the local rows are live; without a row nothing is pruned.               *)
Prune ==
    /\ job = Idle
    /\ rows # Nothing
    /\ found' = Pruned({rows[id] : id \in DOMAIN rows})
    /\ UNCHANGED <<conf, disk, local, cached, cachedFor, foundFor, store, job,
                   spent>>

(* _embed_existing_chunks, the same case in a bulk run: the components and *)
(* the metadata fingerprint are written, the retrieval store is not.       *)
EmbedExisting(n) ==
    /\ job = Idle
    /\ chunkPrint[n] = disk[n].body
    /\ metaPrint[Table][n] # disk[n].meta
    /\ HeldBy(n) # {}
    /\ parts' = [parts EXCEPT ![Table] = @ ++
                   [id \in HeldBy(n) |-> Encoded(rows[id])]]
    /\ metaPrint' = [metaPrint EXCEPT ![Table][n] = disk[n].meta]
    /\ printed' = [printed EXCEPT ![Table][n] = BodyOf(HeldBy(n))]
    /\ UNCHANGED <<conf, disk, chunkPrint, rows, held, caches, store, job,
                   spent>>

Next ==
    \/ \E n \in Notes, b \in Bodies, m \in Metas : Edit(n, b, m)
    \/ \E c \in Settings : Restart(c)
    \/ Fail
    \/ \E n \in Notes : Clean(n) \/ MetaOnly(n)
    \/ Chunk \/ ChunkNothing
    \/ Extract \/ WriteGraph \/ SaveChunkPrint
    \/ EmbedChunks \/ WriteRows \/ FailWriting \/ Finish
    \/ WriteFrontmatter
    \/ Prune

Spec == Init /\ [][Next]_cachesVars

(* The same with a bulk run of notes whose metadata changed.               *)
BulkSpec ==
    Init /\ [][Next \/ \E n \in Notes : EmbedExisting(n)]_cachesVars

----------------------------------------------------------------------------
(* Tables, caches and store are functions of ids, texts, models, signatures*)
(* and suffixes there are, and a run has the fields its step needs.        *)
TypeOK ==
    LET Texts == DOMAIN Spans
        Ids == UNION {{<<p[1], i>> : i \in DOMAIN Pieces[p]} : p \in Bodies \X Budgets}
    IN  /\ conf \in Settings /\ cachedFor = conf.model /\ foundFor = conf.sig
        /\ disk \in [Notes -> [body : Bodies, meta : Metas]]
        /\ chunkPrint \in [Notes -> Bodies \cup {None}]
        /\ metaPrint \in [Suffixes -> [Notes -> Metas \cup {None}]]
        /\ DOMAIN rows \cup DOMAIN texts \cup DOMAIN graph \subseteq Ids
        /\ {h[2] : h \in held} = DOMAIN rows
        /\ DOMAIN cached \subseteq Texts \X {conf.model}
        /\ DOMAIN found \subseteq Texts \X {conf.sig}
        /\ DOMAIN vectors \cup unwritten \subseteq Ids \X Models
        /\ unmentioned \subseteq Ids
        /\ applied \subseteq {"chunks", "embeddings", "graph"}
        /\ job = Idle <=> job.step = "idle"
        /\ DOMAIN job.mentions \subseteq DOMAIN job.chunks
        /\ job.step = "write" => DOMAIN job.vectors = DOMAIN job.chunks

(* A row of one model is made by that model alone, whatever models ran     *)
(* before and whatever they left in the component tables and the cache     *)
(* (pipeline.py:1378: a hit is "always safe").                             *)
RowsOfOneModel ==
    \A key \in DOMAIN vectors :
        /\ vectors[key].encoder = key[2]
        /\ vectors[key].metaEncoder = key[2]

(* The vector of a chunk is the vector of the text stored under its id, if *)
(* one is, though ids are reused by every note with the body and vectors   *)
(* by every chunk with the text.                                           *)
RowsOfTheirText ==
    \A key \in DOMAIN vectors :
        key[1] \in DOMAIN texts => vectors[key].text = texts[key[1]]

(* What the two fingerprints say is true of every model: when the          *)
(* metadata's was saved for chunks of the body the other remembers, and no *)
(* run cut short has written since, every chunk of that body the note has  *)
(* has a row of the model, made with that metadata unless another note     *)
(* with the body wrote it later -- or the resume state withheld the row    *)
(* when it was last due, and nothing has written it since.                 *)
PrintMeansRow ==
    \A n \in Notes, m \in Models :
        LET s == Suffix[m]
            ids == {id \in HeldBy(n) : id[1] = chunkPrint[n]}
        IN  /\ chunkPrint[n] # None
            /\ metaPrint[s][n] # None
            /\ printed[s][n] = chunkPrint[n]
            => \A id \in ids :
                 \/ <<id, m>> \in unwritten
                 \/ /\ <<id, m>> \in DOMAIN vectors
                    /\ vectors[<<id, m>>].note = n
                       => vectors[<<id, m>>].meta = metaPrint[s][n]

(* The same of a note the indexer takes to be unchanged, without the       *)
(* history.  The second note that a process indexes breaks the second      *)
(* part.  Where every manifest is written, an edit of the body that fails  *)
(* before SaveChunkPrint and is taken back breaks the first part, one that *)
(* fails after it, or that another model indexed, the second, and an edit  *)
(* of the metadata that fails before Finish and is taken back the third.   *)
UnchangedMeansRow ==
    \A n \in Notes :
        /\ job = Idle
        /\ chunkPrint[n] = disk[n].body
        /\ metaPrint[Table][n] = disk[n].meta
        => \A id \in HeldBy(n) :
             /\ id[1] = disk[n].body
             /\ <<id, conf.model>> \in DOMAIN vectors
             /\ vectors[<<id, conf.model>>].note = n
                => vectors[<<id, conf.model>>].meta = disk[n].meta

(* A chunk mentions the entities of its own text only, and once a body is  *)
(* remembered each of its texts is mentioned by a chunk of the note,       *)
(* whether its entities were found now, before, or for another note --     *)
(* unless the resume state withheld the mentions of that chunk.            *)
EntitiesOfTheirText ==
    /\ \A id \in DOMAIN graph : \A e \in DOMAIN graph[id] :
          \E k \in Budgets : /\ id[2] \in DOMAIN Pieces[<<id[1], k>>]
                             /\ Pieces[<<id[1], k>>][id[2]] = e[1]
    /\ \A n \in Notes :
          \A id \in {c \in HeldBy(n) : c[1] = chunkPrint[n]} :
             \E other \in HeldBy(n) :
                /\ rows[other] = rows[id]
                /\ other \in DOMAIN graph \cup unmentioned

(* Each chunk of a remembered body has the entities of its text.           *)
EveryChunkMentions ==
    \A n \in Notes :
        \A id \in {c \in HeldBy(n) : c[1] = chunkPrint[n]} :
            id \in DOMAIN graph

(* A mention counts the spans of its text.                                 *)
MentionsCountSpans ==
    \A id \in DOMAIN graph : \A e \in DOMAIN graph[id] :
        graph[id][e] = Spans[e[1]]
============================================================================
