-------------------------- MODULE ChunkCachesProofs --------------------------
(***************************************************************************)
(* Proofs about ChunkCaches, for any notes, bodies, models, settings and   *)
(* any number of edits, restarts and failures, under two conditions where  *)
(* they are needed: suffixes tell models apart, and the token budget is    *)
(* never changed.                                                          *)
(***************************************************************************)
EXTENDS ChunkCaches, WellFoundedInduction, TLAPS

SuffixTells == \A l, m \in Models : Suffix[l] = Suffix[m] => l = m
OneBudget == \A j, k \in Budgets : j = k

-----------------------------------------------------------------------------
(* The shape of the state and who holds what, under no condition           *)

Types ==
    /\ conf \in Settings /\ disk \in [Notes -> [body : Bodies, meta : Metas]]
    /\ chunkPrint \in [Notes -> Bodies \cup {None}]
    /\ metaPrint \in [Suffixes -> [Notes -> Metas \cup {None}]]
    /\ printed \in [Suffixes -> [Notes -> Bodies \cup {None}]]
    /\ parts = [s \in Suffixes |-> parts[s]]

\* The steps of a run that have its chunks, and those that have its vectors.
Chunked == {"extract", "graph", "print", "embed", "write", "finish"}
Embedded == {"write", "finish"}

JobFields == {"step", "note", "chunks", "mentions", "vectors"}
JobShape ==
    /\ DOMAIN job = JobFields
    /\ job.step \in {"idle", "chunk", "frontmatter"} \cup Chunked
    /\ job.step # "idle" => job.note \in Notes
    /\ job.step \in Embedded => DOMAIN job.vectors = DOMAIN job.chunks

\* Who holds a chunk finds its row; a run has what its note holds.
Holds ==
    /\ \A n \in Notes : \A id : <<n, id>> \in held =>
          id \in DOMAIN rows /\ id = <<id[1], id[2]>> /\ id[1] \in Bodies
    /\ job.step = "chunk" => HeldBy(job.note) = {}
    /\ job.step \in Chunked => DOMAIN job.chunks = HeldBy(job.note) /\ HeldBy(job.note) # {}

Shape == Types /\ JobShape /\ Holds

\* A run goes on to a step, with something new.
LEMMA JobGoesOn ==
    ASSUME JobShape, NEW s, job' = [job EXCEPT !.step = s]
    PROVE  /\ DOMAIN job' = JobFields /\ job'.step = s /\ job'.note = job.note /\ job'.chunks = job.chunks
           /\ job'.mentions = job.mentions /\ job'.vectors = job.vectors
BY DEF JobShape, JobFields

LEMMA JobWithChunks ==
    ASSUME JobShape, NEW s, NEW x, job' = [job EXCEPT !.step = s, !.chunks = x]
    PROVE  /\ DOMAIN job' = JobFields /\ job'.step = s /\ job'.note = job.note /\ job'.chunks = x
           /\ job'.mentions = job.mentions /\ job'.vectors = job.vectors
BY DEF JobShape, JobFields

LEMMA JobWithMentions ==
    ASSUME JobShape, NEW s, NEW x, job' = [job EXCEPT !.step = s, !.mentions = x]
    PROVE  /\ DOMAIN job' = JobFields /\ job'.step = s /\ job'.note = job.note /\ job'.chunks = job.chunks
           /\ job'.mentions = x /\ job'.vectors = job.vectors
BY DEF JobShape, JobFields

LEMMA JobWithVectors ==
    ASSUME JobShape, NEW s, NEW x, job' = [job EXCEPT !.step = s, !.vectors = x]
    PROVE  /\ DOMAIN job' = JobFields /\ job'.step = s /\ job'.note = job.note /\ job'.chunks = job.chunks
           /\ job'.mentions = job.mentions /\ job'.vectors = x
BY DEF JobShape, JobFields

LEMMA JobIdle ==
    ASSUME job' = Idle
    PROVE  DOMAIN job' = JobFields /\ job'.step = "idle"
BY DEF Idle, JobFields

LEMMA JobOf ==
    ASSUME NEW s, NEW n, job' = [Idle EXCEPT !.step = s, !.note = n]
    PROVE  DOMAIN job' = JobFields /\ job'.step = s /\ job'.note = n /\ job'.mentions = Nothing
<1>1. DOMAIN Idle = JobFields /\ Idle.mentions = Nothing
  BY DEF Idle, JobFields
<1> QED
  BY <1>1 DEF JobFields

LEMMA JobOfChunks ==
    ASSUME NEW s, NEW n, NEW x, job' = [Idle EXCEPT !.step = s, !.note = n, !.chunks = x]
    PROVE  /\ DOMAIN job' = JobFields /\ job'.step = s /\ job'.note = n
           /\ job'.chunks = x /\ job'.mentions = Nothing
<1>1. DOMAIN Idle = JobFields /\ Idle.mentions = Nothing
  BY DEF Idle, JobFields
<1> QED
  BY <1>1 DEF JobFields

\* A run that is over, or has only the graph of its note left.
LEMMA JobEnds ==
    ASSUME NEW n, job' = Idle \/ job' = [Idle EXCEPT !.step = "frontmatter", !.note = n]
    PROVE  /\ DOMAIN job' = JobFields /\ job'.step \in {"idle", "frontmatter"}
           /\ job'.step # "idle" => job'.note = n /\ job'.mentions = Nothing
BY JobIdle, JobOf

LEMMA TableIsSuffix == Types => Table \in Suffixes
BY DEF Types, Settings, Suffixes, Table

\* A fingerprint saved for the settings' table.
LEMMA PrintAt ==
    ASSUME Types, NEW n \in Notes, NEW b \in Bodies \cup {None},
           printed' = [printed EXCEPT ![Table][n] = b]
    PROVE  /\ printed' \in [Suffixes -> [Notes -> Bodies \cup {None}]]
           /\ printed'[Table][n] = b
           /\ \A s \in Suffixes, k \in Notes : (s # Table \/ k # n) => printed'[s][k] = printed[s][k]
BY TableIsSuffix DEF Types

LEMMA MetaPrintAt ==
    ASSUME Types, NEW n \in Notes, NEW b \in Metas,
           metaPrint' = [metaPrint EXCEPT ![Table][n] = b]
    PROVE  /\ metaPrint' \in [Suffixes -> [Notes -> Metas \cup {None}]]
           /\ metaPrint'[Table][n] = b
           /\ \A s \in Suffixes, k \in Notes : (s # Table \/ k # n) => metaPrint'[s][k] = metaPrint[s][k]
BY TableIsSuffix DEF Types

\* Chunks of a run are of one of the bodies.
LEMMA BodyIsBody ==
    ASSUME Shape, job.step \in Chunked
    PROVE  BodyOf(DOMAIN job.chunks) \in Bodies
<1>1. DOMAIN job.chunks # {} /\ DOMAIN job.chunks = HeldBy(job.note) /\ job.note \in Notes
  BY DEF Shape, Holds, JobShape, Chunked
<1>2. \A id \in HeldBy(job.note) : id[1] \in Bodies
  BY <1>1 DEF Shape, Holds, HeldBy
<1> QED
  BY <1>1, <1>2 DEF BodyOf

LEMMA InitShape == Init => Shape
<1> SUFFICES ASSUME Init PROVE Shape
  OBVIOUS
<1>1. Types
  BY DEF Init, Types
<1>2. JobShape
  BY DEF Init, JobShape, JobFields, Idle, Embedded
<1>3. Holds
  BY DEF Init, Holds, Idle, Chunked
<1> QED
  BY <1>1, <1>2, <1>3 DEF Shape

\* Rows and holds that stay, and a run that gets no chunks.
LEMMA HoldsStay ==
    ASSUME Holds, UNCHANGED <<rows, held>>,
           \/ job'.step \in {"idle", "frontmatter"}
           \/ job.step \in Chunked /\ job'.step \in Chunked
              /\ job'.note = job.note /\ job'.chunks = job.chunks
    PROVE  Holds'
<1>1. \A n : HeldBy(n)' = HeldBy(n)
  BY DEF HeldBy
<1> QED
  BY <1>1 DEF Holds, Chunked

\* A run whose other parts stay and that goes on with them.
LEMMA RunGoesOn ==
    ASSUME Shape, Types', UNCHANGED <<rows, held>>, job.step \in Chunked,
           DOMAIN job' = JobFields, job'.step \in Chunked,
           job'.note = job.note, job'.chunks = job.chunks,
           job'.step \in Embedded => DOMAIN job'.vectors = DOMAIN job.chunks
    PROVE  Shape'
<1>1. JobShape'
  BY DEF Shape, JobShape, Chunked
<1> QED
  BY <1>1, HoldsStay DEF Shape

LEMMA RunEnds ==
    ASSUME Shape, Types', UNCHANGED <<rows, held>>, NEW n \in Notes,
           job' = Idle \/ job' = [Idle EXCEPT !.step = "frontmatter", !.note = n]
    PROVE  Shape'
<1>1. JobShape' /\ job'.step \in {"idle", "frontmatter"}
  BY JobEnds DEF JobShape, Embedded
<1> QED
  BY <1>1, HoldsStay DEF Shape

\* The same where the note of the run is of no account.
LEMMA RunOver ==
    ASSUME Shape, Types', UNCHANGED <<rows, held>>, job' = Idle
    PROVE  Shape'
<1>1. JobShape' /\ job'.step = "idle"
  BY JobIdle DEF JobShape, Embedded
<1> QED
  BY <1>1, HoldsStay DEF Shape

LEMMA CleanShape ==
    ASSUME Shape, NEW n \in Notes, Clean(n)
    PROVE  Shape'
<1>1. /\ job' = [Idle EXCEPT !.step = "chunk", !.note = n]
      /\ held' = {h \in held : h[1] # n}
      /\ rows' = Only(rows, {h[2] : h \in held'})
      /\ UNCHANGED <<conf, disk, chunkPrint, metaPrint, printed, parts>>
  BY DEF Clean
<1>2. Types'
  BY <1>1 DEF Shape, Types
<1>3. DOMAIN job' = JobFields /\ job'.step = "chunk" /\ job'.note = n
  BY <1>1, JobOf
<1>4. JobShape'
  BY <1>3 DEF JobShape, Embedded
<1>5. ASSUME NEW k \in Notes, NEW id, <<k, id>> \in held'
      PROVE  id \in DOMAIN rows' /\ id = <<id[1], id[2]>> /\ id[1] \in Bodies
  <2>1. <<k, id>> \in held /\ id \in {h[2] : h \in held'}
    BY <1>1, <1>5
  <2>2. id \in DOMAIN rows /\ id = <<id[1], id[2]>> /\ id[1] \in Bodies
    BY <2>1 DEF Shape, Holds
  <2> QED
    BY <1>1, <2>1, <2>2 DEF Only
<1>6. HeldBy(n)' = {}
  BY <1>1 DEF HeldBy
<1>7. Holds'
  BY <1>3, <1>5, <1>6 DEF Holds, Chunked
<1> QED
  BY <1>2, <1>4, <1>7 DEF Shape

LEMMA CutTyped ==
    ASSUME Types, NEW b \in Bodies
    PROVE  Cut(b) \in Seq(DOMAIN Spans) /\ DOMAIN Cut(b) = 1 .. Len(Cut(b)) /\ Len(Cut(b)) \in Nat
<1>1. <<b, conf.budget>> \in Bodies \X Budgets
  BY DEF Types, Settings
<1>2. Pieces[<<b, conf.budget>>] \in Seq(DOMAIN Spans)
  BY <1>1, CachesAssumption DEF CachesAssumption
<1> QED
  BY <1>2 DEF Cut

\* The chunks of a body, by id.
LEMMA SplitIs ==
    ASSUME Types, NEW n, NEW b \in Bodies
    PROVE  /\ DOMAIN Split(n, b) = {<<b, i>> : i \in DOMAIN Cut(b)}
           /\ \A i \in DOMAIN Cut(b) : Split(n, b)[<<b, i>>] = Cut(b)[i]
           /\ Cut(b) # <<>> => DOMAIN Split(n, b) # {}
<1>1. Split(n, b) = [id \in {<<b, i>> : i \in DOMAIN Cut(b)} |-> Cut(b)[id[2]]]
  BY DEF Split, ChunkId
<1>2. Cut(b) # <<>> => 1 \in DOMAIN Cut(b)
  BY CutTyped
<1> QED
  BY <1>1, <1>2

LEMMA ChunkShape ==
    ASSUME Shape, Chunk
    PROVE  Shape'
<1>1. job.step = "chunk" /\ job.note \in Notes /\ disk[job.note].body \in Bodies
  BY DEF Chunk, Shape, JobShape, Types
<1>a. PICK n \in Notes, b \in Bodies : n = job.note /\ b = disk[job.note].body
  BY <1>1
<1>2. PICK made : n = job.note /\ b = disk[job.note].body /\ made = Split(n, b)
  BY <1>a
<1>3. /\ Cut(b) # <<>> /\ rows' = rows ++ made
      /\ held' = held \cup {<<n, id>> : id \in DOMAIN made}
      /\ job' = [job EXCEPT !.step = "extract", !.chunks = made]
      /\ UNCHANGED <<conf, disk, chunkPrint, metaPrint, printed, parts>>
  BY <1>2 DEF Chunk
<1>4. DOMAIN made = {<<b, i>> : i \in DOMAIN Cut(b)} /\ DOMAIN made # {}
  BY <1>2, <1>3, SplitIs DEF Shape
<1>5. Types'
  BY <1>3 DEF Shape, Types
<1>6. DOMAIN job' = JobFields /\ job'.step = "extract" /\ job'.note = n /\ job'.chunks = made
  BY <1>2, <1>3, JobWithChunks DEF Shape
<1>7. JobShape'
  BY <1>6 DEF JobShape, Chunked, Embedded
<1>8. DOMAIN rows' = DOMAIN rows \cup DOMAIN made
  BY <1>3 DEF ++
<1>9. ASSUME NEW k \in Notes, NEW id, <<k, id>> \in held'
      PROVE  id \in DOMAIN rows' /\ id = <<id[1], id[2]>> /\ id[1] \in Bodies
  <2>1. CASE <<k, id>> \in held
    BY <1>8, <2>1 DEF Shape, Holds
  <2>2. CASE id \in DOMAIN made
    BY <1>4, <1>8, <2>2
  <2> QED
    BY <1>3, <1>9, <2>1, <2>2
<1>10. HeldBy(n)' = DOMAIN made
  <2>1. \A id : <<n, id>> \notin held
    BY <1>1, <1>2 DEF Shape, Holds, HeldBy
  <2> QED
    BY <1>3, <1>8, <2>1 DEF HeldBy
<1>11. Holds'
  BY <1>4, <1>6, <1>9, <1>10 DEF Holds, Chunked
<1> QED
  BY <1>5, <1>7, <1>11 DEF Shape

LEMMA MetaOnlyShape ==
    ASSUME Shape, NEW n \in Notes, MetaOnly(n)
    PROVE  Shape'
<1>1. UNCHANGED <<conf, disk, chunkPrint, metaPrint, printed, rows, held, parts>>
  BY DEF MetaOnly, local
<1>2. Types'
  BY <1>1 DEF Shape, Types
<1>3. CASE HeldBy(n) = {}
  <2>1. job' = [Idle EXCEPT !.step = "frontmatter", !.note = n]
    BY <1>3 DEF MetaOnly
  <2> QED
    BY <1>1, <1>2, <2>1, RunEnds
<1>4. CASE HeldBy(n) # {}
  <2>1. /\ DOMAIN job' = JobFields /\ job'.step = "embed" /\ job'.note = n
        /\ job'.chunks = Only(rows, HeldBy(n))
    BY <1>4, JobOfChunks DEF MetaOnly
  <2>2. JobShape'
    BY <2>1 DEF JobShape, Chunked, Embedded
  <2>3. HeldBy(n)' = HeldBy(n) /\ DOMAIN Only(rows, HeldBy(n)) = HeldBy(n)
    BY <1>1 DEF HeldBy, Only
  <2>4. Holds'
    BY <1>1, <1>4, <2>1, <2>3 DEF Shape, Holds, Chunked
  <2> QED
    BY <1>2, <2>2, <2>4 DEF Shape
<1> QED
  BY <1>3, <1>4

LEMMA NextShape == Shape /\ [Next]_cachesVars => Shape'
<1> SUFFICES ASSUME Shape, [Next]_cachesVars PROVE Shape'
  OBVIOUS
<1>0. /\ Types /\ JobShape
      /\ \A n \in Notes : disk[n].body \in Bodies /\ disk[n].meta \in Metas
  BY DEF Shape, Types
<1>1. ASSUME NEW n \in Notes, NEW b \in Bodies, NEW m \in Metas, Edit(n, b, m) PROVE Shape'
  <2>1. /\ disk' = [disk EXCEPT ![n] = [body |-> b, meta |-> m]] /\ job' = Idle
        /\ UNCHANGED <<conf, chunkPrint, metaPrint, printed, rows, held, parts>>
    BY <1>1 DEF Edit, local
  <2>2. Types'
    BY <2>1 DEF Shape, Types
  <2> QED
    BY <2>1, <2>2, RunOver
<1>2. ASSUME NEW c \in Settings, Restart(c) PROVE Shape'
  <2>1. /\ conf' = c /\ job' = Idle
        /\ UNCHANGED <<disk, chunkPrint, metaPrint, printed, rows, held, parts>>
    BY <1>2 DEF Restart, local
  <2>2. Types'
    BY <2>1 DEF Shape, Types
  <2> QED
    BY <2>1, <2>2, RunOver
<1>3. CASE Fail \/ FailWriting \/ WriteFrontmatter
  <2>1. job' = Idle /\ UNCHANGED <<conf, disk, chunkPrint, metaPrint, printed, rows, held, parts>>
    BY <1>3 DEF Fail, FailWriting, WriteFrontmatter, local
  <2>2. Types'
    BY <2>1 DEF Shape, Types
  <2> QED
    BY <2>1, <2>2, RunOver
<1>4. ASSUME NEW n \in Notes, Clean(n) \/ MetaOnly(n) PROVE Shape'
  BY <1>4, CleanShape, MetaOnlyShape
<1>5. CASE Chunk
  BY <1>5, ChunkShape
<1>6. CASE ChunkNothing
  <2>1. /\ chunkPrint' = [chunkPrint EXCEPT ![job.note] = disk[job.note].body] /\ job' = Idle
        /\ job.step = "chunk"
        /\ UNCHANGED <<conf, disk, metaPrint, printed, rows, held, parts>>
    BY <1>6 DEF ChunkNothing
  <2>2. job.note \in Notes
    BY <1>0, <2>1 DEF JobShape
  <2>3. Types'
    BY <1>0, <2>1, <2>2 DEF Types
  <2> QED
    BY <2>1, <2>3, RunOver
<1>7. CASE Extract
  <2>1. /\ job.step = "extract" /\ \E x : job' = [job EXCEPT !.step = "graph", !.mentions = x]
        /\ UNCHANGED <<conf, disk, chunkPrint, metaPrint, printed, rows, held, parts>>
    BY <1>7 DEF Extract, local
  <2>2. DOMAIN job' = JobFields /\ job'.step = "graph" /\ job'.note = job.note /\ job'.chunks = job.chunks
    BY <1>0, <2>1, JobWithMentions
  <2>3. Types'
    BY <2>1 DEF Shape, Types
  <2> QED
    BY <2>1, <2>2, <2>3, RunGoesOn DEF Chunked, Embedded
<1>8. CASE WriteGraph
  <2>1. /\ job.step = "graph" /\ job' = [job EXCEPT !.step = "print"]
        /\ UNCHANGED <<conf, disk, chunkPrint, metaPrint, printed, rows, held, parts>>
    BY <1>8 DEF WriteGraph, local
  <2>2. DOMAIN job' = JobFields /\ job'.step = "print" /\ job'.note = job.note /\ job'.chunks = job.chunks
    BY <1>0, <2>1, JobGoesOn
  <2>3. Types'
    BY <2>1 DEF Shape, Types
  <2> QED
    BY <2>1, <2>2, <2>3, RunGoesOn DEF Chunked, Embedded
<1>9. CASE SaveChunkPrint
  <2>1. /\ job.step = "print" /\ job' = [job EXCEPT !.step = "embed"]
        /\ chunkPrint' = [chunkPrint EXCEPT ![job.note] = disk[job.note].body]
        /\ UNCHANGED <<conf, disk, metaPrint, printed, rows, held, parts>>
    BY <1>9 DEF SaveChunkPrint
  <2>2. DOMAIN job' = JobFields /\ job'.step = "embed" /\ job'.note = job.note /\ job'.chunks = job.chunks
    BY <1>0, <2>1, JobGoesOn
  <2>3. job.note \in Notes
    BY <1>0, <2>1 DEF JobShape
  <2>4. Types'
    BY <1>0, <2>1, <2>3 DEF Types
  <2> QED
    BY <2>1, <2>2, <2>4, RunGoesOn DEF Chunked, Embedded
<1>10. CASE EmbedChunks
  <2>1. PICK x : /\ job' = [job EXCEPT !.step = "write", !.vectors = x]
                 /\ x = [id \in DOMAIN job.chunks |-> TextVector(id)]
    BY <1>10 DEF EmbedChunks
  <2>2. /\ job.step = "embed"
        /\ UNCHANGED <<conf, disk, chunkPrint, metaPrint, printed, rows, held, parts>>
    BY <1>10 DEF EmbedChunks, local
  <2>3. /\ DOMAIN job' = JobFields /\ job'.step = "write" /\ job'.note = job.note
        /\ job'.chunks = job.chunks /\ job'.vectors = x
    BY <1>0, <2>1, JobWithVectors
  <2>4. Types'
    BY <2>2 DEF Shape, Types
  <2>5. DOMAIN x = DOMAIN job.chunks
    BY <2>1
  <2> QED
    BY <2>2, <2>3, <2>4, <2>5, RunGoesOn DEF Chunked, Embedded
<1>11. CASE WriteRows
  <2>1. /\ job.step = "write" /\ job' = [job EXCEPT !.step = "finish"]
        /\ printed' = [printed EXCEPT ![Table][job.note] = None]
        /\ UNCHANGED <<conf, disk, chunkPrint, metaPrint, rows, held, parts>>
    BY <1>11 DEF WriteRows
  <2>2. /\ DOMAIN job' = JobFields /\ job'.step = "finish" /\ job'.note = job.note
        /\ job'.chunks = job.chunks /\ job'.vectors = job.vectors
    BY <1>0, <2>1, JobGoesOn
  <2>3. job.note \in Notes /\ DOMAIN job.vectors = DOMAIN job.chunks
    BY <1>0, <2>1 DEF JobShape, Embedded
  <2>4. Types'
    BY <1>0, <2>1, <2>3, PrintAt DEF Types
  <2> QED
    BY <2>1, <2>2, <2>3, <2>4, RunGoesOn DEF Chunked, Embedded
<1>12. CASE Finish
  <2>1. /\ job.step = "finish"
        /\ job' = Idle \/ job' = [Idle EXCEPT !.step = "frontmatter", !.note = job.note]
        /\ parts' = WithParts(job.vectors)
        /\ metaPrint' = [metaPrint EXCEPT ![Table][job.note] = disk[job.note].meta]
        /\ printed' = [printed EXCEPT ![Table][job.note] = BodyOf(DOMAIN job.chunks)]
        /\ UNCHANGED <<conf, disk, chunkPrint, rows, held>>
    BY <1>12 DEF Finish
  <2>2. job.note \in Notes /\ BodyOf(DOMAIN job.chunks) \in Bodies
    BY <1>0, <2>1, BodyIsBody DEF JobShape, Chunked
  <2>3. parts' = [s \in Suffixes |-> parts'[s]]
    BY <1>0, <2>1 DEF Types, WithParts
  <2>4. printed' \in [Suffixes -> [Notes -> Bodies \cup {None}]]
    BY <1>0, <2>1, <2>2, PrintAt
  <2>5. metaPrint' \in [Suffixes -> [Notes -> Metas \cup {None}]]
    BY <1>0, <2>1, <2>2, MetaPrintAt
  <2>6. Types'
    BY <1>0, <2>1, <2>3, <2>4, <2>5 DEF Types
  <2>7. PICK n \in Notes : n = job.note
    BY <2>2
  <2> QED
    BY <2>1, <2>6, <2>7, RunEnds
<1>13. CASE Prune \/ UNCHANGED cachesVars
  <2>1. UNCHANGED <<conf, disk, chunkPrint, metaPrint, printed, rows, held, parts, job>>
    BY <1>13 DEF Prune, local, cachesVars
  <2>2. Types' /\ JobShape'
    BY <1>0, <2>1 DEF Types, JobShape
  <2>3. \A n : HeldBy(n)' = HeldBy(n)
    BY <2>1 DEF HeldBy
  <2>4. Holds'
    BY <2>1, <2>3 DEF Shape, Holds
  <2> QED
    BY <2>2, <2>4 DEF Shape
<1> QED
  BY <1>1, <1>2, <1>3, <1>4, <1>5, <1>6, <1>7, <1>8, <1>9, <1>10, <1>11, <1>12, <1>13 DEF Next

-----------------------------------------------------------------------------
(* Rows of one model, where suffixes tell models apart                     *)

ModelInv ==
    /\ \A m \in Models : \A id \in DOMAIN parts[Suffix[m]] : parts[Suffix[m]][id].encoder = m
    /\ \A key \in DOMAIN cached : cached[key].encoder = key[2]
    /\ job.step \in Embedded => \A id \in DOMAIN job.vectors : job.vectors[id].encoder = conf.model
    /\ RowsOfOneModel

LEMMA InitModel == Init => ModelInv
<1> SUFFICES ASSUME Init PROVE ModelInv
  OBVIOUS
<1>1. /\ \A m \in Models : DOMAIN parts[Suffix[m]] = {}
  BY DEF Init, Nothing, Suffixes
<1>2. DOMAIN cached = {} /\ DOMAIN vectors = {} /\ job.step = "idle"
  BY DEF Init, Nothing, Idle
<1> QED
  BY <1>1, <1>2 DEF ModelInv, RowsOfOneModel, Embedded

\* What the encoder of the settings is asked for is of their model.
LEMMA CachedWithModel ==
    ASSUME \A key \in DOMAIN cached : cached[key].encoder = key[2]
    PROVE  \A key \in DOMAIN CachedWith(job.chunks) : CachedWith(job.chunks)[key].encoder = key[2]
<1> DEFINE K == {<<job.chunks[id], conf.model>> : id \in DOMAIN job.chunks \ DOMAIN parts[Table]}
           made == [key \in K |-> Encoded(key[1])]
<1>1. CachedWith(job.chunks) = cached ++ made
  BY DEF CachedWith
<1>2. \A key \in K : key[2] = conf.model
  OBVIOUS
<1>3. \A key \in K : made[key].encoder = conf.model
  BY DEF Encoded
<1>4. DOMAIN made = K
  OBVIOUS
<1> HIDE DEF made, K
<1> QED
  BY <1>1, <1>2, <1>3, <1>4 DEF ++

LEMMA TextVectorModel ==
    ASSUME Types, ModelInv, NEW id
    PROVE  TextVector(id).encoder = conf.model
<1>1. conf.model \in Models /\ Table = Suffix[conf.model]
  BY DEF Types, Settings, Table
<1>2. CASE id \in DOMAIN parts[Table]
  BY <1>1, <1>2 DEF TextVector, ModelInv
<1>3. CASE id \notin DOMAIN parts[Table] /\ <<job.chunks[id], conf.model>> \in DOMAIN cached
  <2>1. PICK key \in DOMAIN cached : key = <<job.chunks[id], conf.model>>
    BY <1>3
  <2>2. TextVector(id) = cached[key]
    BY <1>3, <2>1 DEF TextVector
  <2> QED
    BY <2>1, <2>2 DEF ModelInv
<1>4. CASE id \notin DOMAIN parts[Table] /\ <<job.chunks[id], conf.model>> \notin DOMAIN cached
  BY <1>4 DEF TextVector, Encoded
<1> QED
  BY <1>2, <1>3, <1>4

\* The rows that are written: the others stay.  A row that the resume state
\* withholds and that is not there as it would be written is unwritten.
LEMMA RowsWritten ==
    ASSUME WriteRows
    PROVE  /\ DOMAIN vectors \subseteq DOMAIN vectors'
           /\ DOMAIN vectors' \cup unwritten' \subseteq
                 DOMAIN vectors \cup unwritten \cup (DOMAIN job.chunks) \X {conf.model}
           /\ \A key \in DOMAIN vectors' :
                 \/ key \in DOMAIN vectors /\ vectors'[key] = vectors[key]
                 \/ /\ key \in (DOMAIN job.chunks) \X {conf.model}
                    /\ vectors'[key].text = job.vectors[key[1]].text
                    /\ vectors'[key].encoder = job.vectors[key[1]].encoder
                    /\ vectors'[key].note = job.note
                    /\ vectors'[key].metaEncoder = conf.model
           /\ \A key \in (DOMAIN job.chunks) \X {conf.model} :
                 \/ key \in unwritten'
                 \/ /\ key \in DOMAIN vectors'
                    /\ vectors'[key].note = job.note
                    /\ vectors'[key].meta = disk[job.note].meta
           /\ \A key \in unwritten :
                 key \in unwritten' \/ key \in (DOMAIN job.chunks) \X {conf.model}
<1> DEFINE K == (DOMAIN job.chunks) \X {conf.model}
           made == [key \in K |-> Fused(key[1])]
<1>1. DOMAIN made = K /\ \A key \in K : made[key] = Fused(key[1])
  OBVIOUS
<1>2. ASSUME NEW id
      PROVE  /\ Fused(id).text = job.vectors[id].text /\ Fused(id).encoder = job.vectors[id].encoder
             /\ Fused(id).note = job.note /\ Fused(id).meta = disk[job.note].meta
             /\ Fused(id).metaEncoder = conf.model
  BY DEF Fused, MetaVector
<1>3. CASE "embeddings" \in applied
  <2>1. /\ vectors' = vectors
        /\ unwritten' = unwritten \cup {key \in K : key \in DOMAIN vectors => vectors[key] # made[key]}
    BY <1>3 DEF WriteRows
  <2> HIDE DEF made, K
  <2>2. \A key \in K : key \in unwritten' \/ (key \in DOMAIN vectors /\ vectors[key] = made[key])
    BY <2>1
  <2>3. DOMAIN vectors' \cup unwritten' \subseteq DOMAIN vectors \cup unwritten \cup K
    BY <2>1
  <2>4. \A key \in K : key \in unwritten' \/ (/\ key \in DOMAIN vectors' /\ vectors'[key].note = job.note
                                              /\ vectors'[key].meta = disk[job.note].meta)
    BY <1>1, <1>2, <2>1, <2>2
  <2> QED
    BY <2>1, <2>3, <2>4 DEF K
<1>4. CASE "embeddings" \notin applied
  <2>1. vectors' = made ++ vectors /\ unwritten' = unwritten \ K
    BY <1>4 DEF WriteRows
  <2> HIDE DEF made, K
  <2>2. /\ DOMAIN vectors' = DOMAIN vectors \cup K
        /\ \A key \in K : vectors'[key] = Fused(key[1])
        /\ \A key \in DOMAIN vectors \ K : vectors'[key] = vectors[key]
    BY <1>1, <2>1 DEF ++
  <2>3. DOMAIN vectors' \cup unwritten' \subseteq DOMAIN vectors \cup unwritten \cup K
    BY <2>1, <2>2
  <2> QED
    BY <1>2, <2>1, <2>2, <2>3 DEF K
<1> QED
  BY <1>3, <1>4

\* The components that are stored: those of the other suffixes stay.
LEMMA PartsStored ==
    ASSUME Types, parts' = WithParts(job.vectors)
    PROVE  /\ \A s \in Suffixes : s # Table => parts'[s] = parts[s]
           /\ DOMAIN parts'[Table] = DOMAIN job.vectors \cup DOMAIN parts[Table]
           /\ \A id \in DOMAIN parts'[Table] :
                 parts'[Table][id] = IF id \in DOMAIN job.vectors THEN job.vectors[id] ELSE parts[Table][id]
<1>1. Table \in Suffixes /\ parts = [s \in Suffixes |-> parts[s]]
  BY TableIsSuffix DEF Types
<1>2. parts' = [parts EXCEPT ![Table] = job.vectors ++ parts[Table]]
  BY DEF WithParts
<1>3. parts'[Table] = job.vectors ++ parts[Table] /\ \A s \in Suffixes : s # Table => parts'[s] = parts[s]
  BY <1>1, <1>2
<1> QED
  BY <1>3 DEF ++

\* A step that leaves vectors as they are, or has just ended its run.
LEMMA ModelStays ==
    ASSUME Types, ModelInv, UNCHANGED <<parts, vectors>>,
           \/ job'.step \notin Embedded
           \/ job'.vectors = job.vectors /\ job'.step = job.step /\ conf' = conf,
           \A key \in DOMAIN cached' : cached'[key].encoder = key[2]
    PROVE  ModelInv'
BY DEF ModelInv, RowsOfOneModel, Types

LEMMA NextModel ==
    ASSUME SuffixTells, Shape, ModelInv, [Next]_cachesVars
    PROVE  ModelInv'
<1>0. /\ Types /\ JobShape /\ \A key \in DOMAIN cached : cached[key].encoder = key[2]
  BY DEF Shape, ModelInv
<1>1. ASSUME NEW n \in Notes, NEW b \in Bodies, NEW m \in Metas, Edit(n, b, m) PROVE ModelInv'
  BY <1>0, <1>1, ModelStays DEF Edit, Idle, local, caches, store, Embedded
<1>2. ASSUME NEW c \in Settings, Restart(c) PROVE ModelInv'
  <2>1. /\ UNCHANGED <<parts, vectors>> /\ job' = Idle /\ cached' = Refreshed(cached, cachedFor, c.model)
    BY <1>2 DEF Restart, local, store
  <2>2. \A key \in DOMAIN cached' : cached'[key].encoder = key[2]
    BY <1>0, <2>1 DEF Refreshed, Nothing
  <2>3. job'.step \notin Embedded
    BY <2>1 DEF Idle, Embedded
  <2> QED
    BY <1>0, <2>1, <2>2, <2>3, ModelStays
<1>3. CASE Fail \/ FailWriting \/ WriteFrontmatter \/ ChunkNothing
  BY <1>0, <1>3, ModelStays
     DEF Fail, FailWriting, WriteFrontmatter, ChunkNothing, Idle, local, caches, store, resume, Embedded
<1>4. ASSUME NEW n \in Notes, Clean(n) \/ MetaOnly(n) PROVE ModelInv'
  <2>1. UNCHANGED <<parts, vectors, cached>>
    BY <1>4 DEF Clean, MetaOnly, local, caches, store
  <2>2. job'.step \in {"chunk", "embed", "frontmatter"}
    <3>1. CASE Clean(n)
      BY <3>1, JobOf DEF Clean
    <3>2. CASE MetaOnly(n)
      BY <3>2, JobOf, JobOfChunks DEF MetaOnly
    <3> QED
      BY <1>4, <3>1, <3>2
  <2>3. job'.step \notin Embedded
    BY <2>2 DEF Embedded
  <2> QED
    BY <1>0, <2>1, <2>3, ModelStays
<1>5. CASE Chunk \/ Extract \/ WriteGraph \/ SaveChunkPrint
  <2>1. UNCHANGED <<parts, vectors, cached>>
    BY <1>5 DEF Chunk, Extract, WriteGraph, SaveChunkPrint, local, caches, store
  <2>2. CASE Chunk
    BY <1>0, <2>1, <2>2, JobWithChunks, ModelStays DEF Chunk, Embedded
  <2>3. CASE Extract
    <3>1. \E x : job' = [job EXCEPT !.step = "graph", !.mentions = x]
      BY <2>3 DEF Extract
    <3>2. job'.step = "graph"
      BY <1>0, <3>1, JobWithMentions
    <3> QED
      BY <1>0, <2>1, <3>2, ModelStays DEF Embedded
  <2>4. CASE WriteGraph \/ SaveChunkPrint
    <3>1. job'.step \in {"print", "embed"}
      BY <1>0, <2>4, JobGoesOn DEF WriteGraph, SaveChunkPrint
    <3> QED
      BY <1>0, <2>1, <3>1, ModelStays DEF Embedded
  <2> QED
    BY <1>5, <2>2, <2>3, <2>4
<1>6. CASE EmbedChunks
  <2>1. PICK x : /\ job' = [job EXCEPT !.step = "write", !.vectors = x]
                 /\ x = [id \in DOMAIN job.chunks |-> TextVector(id)]
    BY <1>6 DEF EmbedChunks
  <2>2. cached' = CachedWith(job.chunks) /\ UNCHANGED <<parts, vectors, conf>>
    BY <1>6 DEF EmbedChunks, local, store
  <2>3. job'.vectors = x
    BY <1>0, <2>1, JobWithVectors
  <2>4. \A id \in DOMAIN x : x[id].encoder = conf.model
    BY <1>0, <2>1, TextVectorModel
  <2>5. \A key \in DOMAIN cached' : cached'[key].encoder = key[2]
    BY <1>0, <2>2, CachedWithModel
  <2> QED
    BY <1>0, <2>2, <2>3, <2>4, <2>5 DEF ModelInv, RowsOfOneModel, Types
<1>7. CASE WriteRows
  <2>1. /\ job.step = "write" /\ job' = [job EXCEPT !.step = "finish"]
        /\ UNCHANGED <<parts, conf, cached>>
    BY <1>7 DEF WriteRows, caches
  <2>2. job'.vectors = job.vectors
    BY <1>0, <2>1, JobGoesOn
  <2>3. \A id \in DOMAIN job.chunks : job.vectors[id].encoder = conf.model
    BY <1>0, <2>1 DEF ModelInv, JobShape, Embedded
  <2>4. ASSUME NEW key \in DOMAIN vectors' PROVE vectors'[key].encoder = key[2] /\ vectors'[key].metaEncoder = key[2]
    <3>1. CASE key \in DOMAIN vectors /\ vectors'[key] = vectors[key]
      BY <3>1 DEF ModelInv, RowsOfOneModel
    <3>2. CASE ~(key \in DOMAIN vectors /\ vectors'[key] = vectors[key])
      <4>1. /\ key \in (DOMAIN job.chunks) \X {conf.model}
            /\ vectors'[key].encoder = job.vectors[key[1]].encoder
            /\ vectors'[key].metaEncoder = conf.model
        BY <1>7, <2>4, <3>2, RowsWritten
      <4>2. key[1] \in DOMAIN job.chunks /\ key[2] = conf.model
        BY <4>1
      <4> QED
        BY <2>3, <4>1, <4>2
    <3> QED
      BY <3>1, <3>2
  <2>5. RowsOfOneModel'
    BY <2>4 DEF RowsOfOneModel
  <2> QED
    BY <2>1, <2>2, <2>5 DEF ModelInv, Embedded
<1>8. CASE Finish
  <2>1. /\ job.step = "finish" /\ parts' = WithParts(job.vectors)
        /\ job' = Idle \/ job' = [Idle EXCEPT !.step = "frontmatter", !.note = job.note]
        /\ UNCHANGED <<conf, cached, vectors>>
    BY <1>8 DEF Finish, caches, store
  <2>2. \A id \in DOMAIN job.vectors : job.vectors[id].encoder = conf.model
    BY <2>1 DEF ModelInv, Embedded
  <2>3. ASSUME NEW m \in Models, NEW id \in DOMAIN parts'[Suffix[m]]
        PROVE  parts'[Suffix[m]][id].encoder = m
    <3>1. CASE Suffix[m] = Table
      <4>1. m = conf.model
        BY <1>0, <3>1 DEF SuffixTells, Table, Types, Settings
      <4> QED
        BY <1>0, <2>1, <2>2, <2>3, <3>1, <4>1, PartsStored DEF ModelInv
    <3>2. CASE Suffix[m] # Table
      BY <1>0, <2>1, <2>3, <3>2, PartsStored DEF ModelInv, Suffixes
    <3> QED
      BY <3>1, <3>2
  <2>4. job'.step \notin Embedded
    BY <2>1, JobEnds DEF Embedded
  <2> QED
    BY <2>1, <2>3, <2>4 DEF ModelInv, RowsOfOneModel
<1>9. CASE Prune \/ UNCHANGED cachesVars
  BY <1>0, <1>9, ModelStays DEF Prune, local, store, cachesVars
<1> QED
  BY <1>1, <1>2, <1>3, <1>4, <1>5, <1>6, <1>7, <1>8, <1>9 DEF Next

-----------------------------------------------------------------------------
(* Texts and whole bodies, where the token budget is never changed         *)

TextOf(id) == Cut(id[1])[id[2]]
IdsOf(b) == {<<b, i>> : i \in DOMAIN Cut(b)}

TextInv ==
    /\ \A id \in DOMAIN rows : rows[id] = TextOf(id)
    /\ \A id \in DOMAIN texts : texts[id] = TextOf(id)
    /\ job.step \in Chunked => \A id \in DOMAIN job.chunks : job.chunks[id] = TextOf(id)
    /\ \A s \in Suffixes : \A id \in DOMAIN parts[s] : parts[s][id].text = TextOf(id)
    /\ \A key \in DOMAIN cached : cached[key].text = key[1]
    /\ job.step \in Embedded => \A id \in DOMAIN job.vectors : job.vectors[id].text = TextOf(id)
    /\ \A key \in DOMAIN vectors : vectors[key].text = TextOf(key[1])

\* A note holds the chunks of one body, all of them, or none.
Whole == \A n \in Notes : HeldBy(n) = {} \/ \E b \in Bodies : HeldBy(n) = IdsOf(b)

LEMMA InitText == Init => TextInv /\ Whole
<1> SUFFICES ASSUME Init PROVE TextInv /\ Whole
  OBVIOUS
<1>1. /\ DOMAIN rows = {} /\ DOMAIN texts = {} /\ DOMAIN cached = {} /\ DOMAIN vectors = {}
      /\ \A s \in Suffixes : DOMAIN parts[s] = {}
      /\ job.step = "idle"
  BY DEF Init, Nothing, Idle
<1>2. \A n \in Notes : HeldBy(n) = {}
  BY <1>1 DEF HeldBy
<1> QED
  BY <1>1, <1>2 DEF TextInv, Whole, Chunked, Embedded

\* Nothing about a body changes with the settings.
LEMMA CutStays ==
    ASSUME OneBudget, Types, Types'
    PROVE  \A b : Cut(b)' = Cut(b)
BY DEF OneBudget, Types, Settings, Cut

LEMMA TextStays ==
    ASSUME OneBudget, Types, Types'
    PROVE  /\ \A id : TextOf(id)' = TextOf(id)
           /\ \A b : IdsOf(b)' = IdsOf(b)
BY CutStays DEF TextOf, IdsOf

LEMMA WholeStays ==
    ASSUME OneBudget, Types, Types', Whole, UNCHANGED <<rows, held>>
    PROVE  Whole'
<1>1. \A n : HeldBy(n)' = HeldBy(n)
  BY DEF HeldBy
<1> QED
  BY <1>1, TextStays DEF Whole

\* The texts of rows and the store, and what has been encoded, as it was.
LEMMA TextInvStays ==
    ASSUME OneBudget, Types, Types', TextInv,
           \A id \in DOMAIN rows' : rows'[id] = TextOf(id),
           \A id \in DOMAIN texts' : texts'[id] = TextOf(id),
           UNCHANGED <<parts, vectors>>,
           \A key \in DOMAIN cached' : cached'[key].text = key[1],
           job'.step \in Chunked => \A id \in DOMAIN job'.chunks : job'.chunks[id] = TextOf(id),
           job'.step \in Embedded => \A id \in DOMAIN job'.vectors : job'.vectors[id].text = TextOf(id)
    PROVE  TextInv'
<1>1. \A id : TextOf(id)' = TextOf(id)
  BY TextStays
<1>2. Suffixes' = Suffixes
  BY DEF Suffixes
<1> QED
  BY <1>1, <1>2 DEF TextInv

LEMMA CachedWithText ==
    ASSUME \A key \in DOMAIN cached : cached[key].text = key[1]
    PROVE  \A key \in DOMAIN CachedWith(job.chunks) : CachedWith(job.chunks)[key].text = key[1]
<1> DEFINE K == {<<job.chunks[id], conf.model>> : id \in DOMAIN job.chunks \ DOMAIN parts[Table]}
           made == [key \in K |-> Encoded(key[1])]
<1>1. CachedWith(job.chunks) = cached ++ made
  BY DEF CachedWith
<1>2. \A key \in K : made[key].text = key[1]
  BY DEF Encoded
<1>3. DOMAIN made = K
  OBVIOUS
<1> HIDE DEF made, K
<1> QED
  BY <1>1, <1>2, <1>3 DEF ++

LEMMA TextVectorText ==
    ASSUME Types, TextInv, job.step \in Chunked, NEW id \in DOMAIN job.chunks
    PROVE  TextVector(id).text = TextOf(id)
<1>1. job.chunks[id] = TextOf(id)
  BY DEF TextInv
<1>2. CASE id \in DOMAIN parts[Table]
  BY <1>2, TableIsSuffix DEF TextVector, TextInv
<1>3. CASE id \notin DOMAIN parts[Table] /\ <<job.chunks[id], conf.model>> \in DOMAIN cached
  <2>1. PICK key \in DOMAIN cached : key = <<job.chunks[id], conf.model>>
    BY <1>3
  <2>2. TextVector(id) = cached[key]
    BY <1>3, <2>1 DEF TextVector
  <2> QED
    BY <1>1, <2>1, <2>2 DEF TextInv
<1>4. CASE id \notin DOMAIN parts[Table] /\ <<job.chunks[id], conf.model>> \notin DOMAIN cached
  BY <1>1, <1>4 DEF TextVector, Encoded
<1> QED
  BY <1>2, <1>3, <1>4

LEMMA CleanText ==
    ASSUME OneBudget, Shape, Shape', TextInv, Whole, NEW n \in Notes, Clean(n)
    PROVE  TextInv' /\ Whole'
<1>1. /\ job' = [Idle EXCEPT !.step = "chunk", !.note = n]
      /\ held' = {h \in held : h[1] # n}
      /\ rows' = Only(rows, {h[2] : h \in held'})
      /\ UNCHANGED <<texts, parts, vectors, cached>>
  BY DEF Clean, caches, store
<1>2. Types /\ Types' /\ job'.step = "chunk"
  BY <1>1, JobOf DEF Shape
<1>3. \A id \in DOMAIN rows' : rows'[id] = TextOf(id)
  BY <1>1 DEF Only, TextInv
<1>4. TextInv'
  <2>1. /\ \A key \in DOMAIN cached' : cached'[key].text = key[1]
        /\ \A id \in DOMAIN texts' : texts'[id] = TextOf(id)
    BY <1>1 DEF TextInv
  <2> QED
    BY <1>1, <1>2, <1>3, <2>1, TextInvStays DEF Chunked, Embedded
<1>5. ASSUME NEW k \in Notes, k # n PROVE HeldBy(k)' = HeldBy(k)
  <2>1. ASSUME NEW id, <<k, id>> \in held PROVE id \in DOMAIN rows'
    <3>1. <<k, id>> \in held' /\ id \in {h[2] : h \in held'}
      BY <1>1, <1>5, <2>1
    <3>2. id \in DOMAIN rows
      BY <2>1 DEF Shape, Holds
    <3> QED
      BY <1>1, <3>1, <3>2 DEF Only
  <2>2. DOMAIN rows' \subseteq DOMAIN rows
    BY <1>1 DEF Only
  <2>3. \A id : <<k, id>> \in held' <=> <<k, id>> \in held
    BY <1>1, <1>5
  <2> QED
    BY <2>1, <2>2, <2>3 DEF HeldBy
<1>6. HeldBy(n)' = {}
  BY <1>1 DEF HeldBy
<1>7. Whole'
  BY <1>2, <1>5, <1>6, TextStays DEF Whole
<1> QED
  BY <1>4, <1>7

LEMMA ChunkText ==
    ASSUME OneBudget, Shape, Shape', TextInv, Whole, Chunk
    PROVE  TextInv' /\ Whole'
<1>1. job.step = "chunk" /\ job.note \in Notes /\ disk[job.note].body \in Bodies
  BY DEF Chunk, Shape, JobShape, Types
<1>a. PICK n \in Notes, b \in Bodies : n = job.note /\ b = disk[job.note].body
  BY <1>1
<1>2. PICK made : n = job.note /\ b = disk[job.note].body /\ made = Split(n, b)
  BY <1>a
<1>3. /\ Cut(b) # <<>> /\ rows' = rows ++ made
      /\ held' = held \cup {<<n, id>> : id \in DOMAIN made}
      /\ job' = [job EXCEPT !.step = "extract", !.chunks = made]
      /\ UNCHANGED <<texts, parts, vectors, cached>>
  BY <1>2 DEF Chunk, caches, store
<1>4. DOMAIN made = IdsOf(b) /\ \A id \in DOMAIN made : made[id] = TextOf(id)
  <2>1. /\ DOMAIN made = {<<b, i>> : i \in DOMAIN Cut(b)}
        /\ \A i \in DOMAIN Cut(b) : made[<<b, i>>] = Cut(b)[i]
    BY <1>2, SplitIs DEF Shape
  <2>2. ASSUME NEW id \in DOMAIN made PROVE made[id] = TextOf(id)
    <3>1. PICK i \in DOMAIN Cut(b) : id = <<b, i>>
      BY <2>1
    <3>2. id[1] = b /\ id[2] = i
      BY <3>1
    <3> QED
      BY <2>1, <3>1, <3>2 DEF TextOf
  <2> QED
    BY <2>1, <2>2 DEF IdsOf
<1>5. Types /\ Types' /\ JobShape
  BY DEF Shape
<1>6. job'.step = "extract" /\ job'.chunks = made
  BY <1>3, <1>5, JobWithChunks
<1>7. /\ DOMAIN rows' = DOMAIN rows \cup DOMAIN made
      /\ \A id \in DOMAIN rows' : rows'[id] = TextOf(id)
  BY <1>3, <1>4 DEF ++, TextInv
<1>8. TextInv'
  <2>1. /\ \A key \in DOMAIN cached' : cached'[key].text = key[1]
        /\ \A id \in DOMAIN texts' : texts'[id] = TextOf(id)
    BY <1>3 DEF TextInv
  <2> QED
    BY <1>3, <1>4, <1>5, <1>6, <1>7, <2>1, TextInvStays DEF Embedded
<1>9. ASSUME NEW k \in Notes, k # n PROVE HeldBy(k)' = HeldBy(k)
  <2>1. \A id : <<k, id>> \in held' <=> <<k, id>> \in held
    BY <1>3, <1>9
  <2>2. \A id : <<k, id>> \in held => id \in DOMAIN rows
    BY DEF Shape, Holds
  <2> QED
    BY <1>7, <2>1, <2>2 DEF HeldBy
<1>10. HeldBy(n)' = IdsOf(b)
  <2>1. \A id : <<n, id>> \notin held
    BY <1>1, <1>2 DEF Shape, Holds, HeldBy
  <2> QED
    BY <1>3, <1>4, <1>7, <2>1 DEF HeldBy
<1>11. Whole'
  BY <1>5, <1>9, <1>10, TextStays DEF Whole
<1> QED
  BY <1>8, <1>11

\* The chunks phase writes the texts a run has.
LEMMA TextsTrue ==
    ASSUME TextInv, job.step \in Chunked
    PROVE  \A id \in DOMAIN TextsWritten : TextsWritten[id] = TextOf(id)
BY DEF TextInv, TextsWritten, ++

LEMMA NextText ==
    ASSUME OneBudget, Shape, Shape', TextInv, Whole, [Next]_cachesVars
    PROVE  TextInv' /\ Whole'
<1>0. /\ Types /\ Types' /\ JobShape /\ JobShape'
      /\ \A key \in DOMAIN cached : cached[key].text = key[1]
      /\ \A id \in DOMAIN rows : rows[id] = TextOf(id)
  BY DEF Shape, TextInv
<1>1. ASSUME UNCHANGED <<rows, held, parts, vectors>>,
             texts' = texts \/ (job.step \in Chunked /\ texts' = TextsWritten),
             \A key \in DOMAIN cached' : cached'[key].text = key[1],
             \/ job'.step \notin Chunked
             \/ job'.step \notin Embedded /\ \A id \in DOMAIN job'.chunks : job'.chunks[id] = TextOf(id)
             \/ job'.step = job.step /\ job'.chunks = job.chunks /\ job'.vectors = job.vectors
      PROVE  TextInv' /\ Whole'
  <2>1. /\ job'.step \in Chunked => \A id \in DOMAIN job'.chunks : job'.chunks[id] = TextOf(id)
        /\ job'.step \in Embedded => \A id \in DOMAIN job'.vectors : job'.vectors[id].text = TextOf(id)
    BY <1>1 DEF TextInv, Chunked, Embedded
  <2>2. \A id \in DOMAIN texts' : texts'[id] = TextOf(id)
    BY <1>1, TextsTrue DEF TextInv
  <2> QED
    BY <1>0, <1>1, <2>1, <2>2, TextInvStays, WholeStays
<1>2. ASSUME NEW n \in Notes, NEW b \in Bodies, NEW m \in Metas, Edit(n, b, m) PROVE TextInv' /\ Whole'
  BY <1>0, <1>1, <1>2 DEF Edit, Idle, local, caches, store, Chunked
<1>3. ASSUME NEW c \in Settings, Restart(c) PROVE TextInv' /\ Whole'
  <2>1. /\ UNCHANGED <<rows, held, texts, parts, vectors>> /\ job' = Idle
        /\ cached' = Refreshed(cached, cachedFor, c.model)
    BY <1>3 DEF Restart, local, store
  <2>2. \A key \in DOMAIN cached' : cached'[key].text = key[1]
    BY <1>0, <2>1 DEF Refreshed, Nothing
  <2>3. job'.step \notin Chunked
    BY <2>1 DEF Idle, Chunked
  <2> QED
    BY <1>1, <2>1, <2>2, <2>3
<1>4. CASE Fail \/ FailWriting \/ WriteFrontmatter \/ ChunkNothing
  BY <1>0, <1>1, <1>4
     DEF Fail, FailWriting, WriteFrontmatter, ChunkNothing, Idle, local, caches, store, resume, Chunked
<1>5. ASSUME NEW n \in Notes, Clean(n) PROVE TextInv' /\ Whole'
  BY <1>5, CleanText
<1>6. ASSUME NEW n \in Notes, MetaOnly(n) PROVE TextInv' /\ Whole'
  <2>1. UNCHANGED <<rows, held, texts, parts, vectors, cached>>
    BY <1>6 DEF MetaOnly, local, caches, store
  <2>2. \/ job'.step = "frontmatter"
        \/ job'.step = "embed" /\ job'.chunks = Only(rows, HeldBy(n))
    BY <1>6, JobOf, JobOfChunks DEF MetaOnly
  <2>3. job'.step = "embed" => \A id \in DOMAIN job'.chunks : job'.chunks[id] = TextOf(id)
    BY <1>0, <2>2 DEF Only
  <2>4. \A key \in DOMAIN cached' : cached'[key].text = key[1]
    BY <1>0, <2>1
  <2>5. job'.step \notin Embedded
    BY <2>2 DEF Embedded
  <2>6. job'.step = "frontmatter" => job'.step \notin Chunked
    BY DEF Chunked
  <2> QED
    BY <1>1, <2>1, <2>2, <2>3, <2>4, <2>5, <2>6
<1>7. CASE Chunk
  BY <1>7, ChunkText
<1>8. CASE Extract \/ WriteGraph \/ SaveChunkPrint
  <2>1. UNCHANGED <<rows, held, texts, parts, vectors, cached>> /\ job.step \in Chunked
    BY <1>8 DEF Extract, WriteGraph, SaveChunkPrint, local, caches, store, Chunked
  <2>2. job'.step \in {"graph", "print", "embed"} /\ job'.chunks = job.chunks
    <3>1. CASE Extract
      <4>1. \E x : job' = [job EXCEPT !.step = "graph", !.mentions = x]
        BY <3>1 DEF Extract
      <4> QED
        BY <1>0, <4>1, JobWithMentions
    <3>2. CASE WriteGraph \/ SaveChunkPrint
      BY <1>0, <3>2, JobGoesOn DEF WriteGraph, SaveChunkPrint
    <3> QED
      BY <1>8, <3>1, <3>2
  <2>3. \A id \in DOMAIN job'.chunks : job'.chunks[id] = TextOf(id)
    BY <2>1, <2>2 DEF TextInv
  <2>4. \A key \in DOMAIN cached' : cached'[key].text = key[1]
    BY <1>0, <2>1
  <2>5. job'.step \notin Embedded
    BY <2>2 DEF Embedded
  <2> QED
    BY <1>1, <2>1, <2>3, <2>4, <2>5
<1>9. CASE EmbedChunks
  <2>1. PICK x : /\ job' = [job EXCEPT !.step = "write", !.vectors = x]
                 /\ x = [id \in DOMAIN job.chunks |-> TextVector(id)]
    BY <1>9 DEF EmbedChunks
  <2>2. /\ job.step \in Chunked /\ cached' = CachedWith(job.chunks)
        /\ UNCHANGED <<rows, held, texts, parts, vectors>>
    BY <1>9 DEF EmbedChunks, local, store, Chunked
  <2>3. job'.vectors = x /\ job'.chunks = job.chunks
    BY <1>0, <2>1, JobWithVectors
  <2>4. \A id \in DOMAIN x : x[id].text = TextOf(id)
    BY <1>0, <2>1, <2>2, TextVectorText
  <2>5. \A key \in DOMAIN cached' : cached'[key].text = key[1]
    BY <1>0, <2>2, CachedWithText
  <2>6. \A id \in DOMAIN job'.chunks : job'.chunks[id] = TextOf(id)
    BY <2>2, <2>3 DEF TextInv
  <2>7. TextInv'
    <3>1. \A id \in DOMAIN texts' : texts'[id] = TextOf(id)
      BY <2>2 DEF TextInv
    <3> QED
      BY <1>0, <2>2, <2>3, <2>4, <2>5, <2>6, <3>1, TextInvStays
  <2> QED
    BY <1>0, <2>2, <2>7, WholeStays
<1>10. CASE WriteRows
  <2>1. /\ job.step = "write" /\ job' = [job EXCEPT !.step = "finish"] /\ texts' = TextsWritten
        /\ UNCHANGED <<rows, held, parts, conf, cached>>
    BY <1>10 DEF WriteRows, caches
  <2>2. job'.vectors = job.vectors /\ job'.chunks = job.chunks
    BY <1>0, <2>1, JobGoesOn
  <2>3. \A id \in DOMAIN job.chunks : job.chunks[id] = TextOf(id) /\ job.vectors[id].text = TextOf(id)
    BY <1>0, <2>1 DEF TextInv, JobShape, Embedded, Chunked
  <2>4. \A id \in DOMAIN texts' : texts'[id] = TextOf(id)
    BY <2>1, TextsTrue DEF Chunked
  <2>5. ASSUME NEW key \in DOMAIN vectors' PROVE vectors'[key].text = TextOf(key[1])
    <3>1. CASE key \in DOMAIN vectors /\ vectors'[key] = vectors[key]
      BY <3>1 DEF TextInv
    <3>2. CASE ~(key \in DOMAIN vectors /\ vectors'[key] = vectors[key])
      BY <1>10, <2>3, <2>5, <3>2, RowsWritten
    <3> QED
      BY <3>1, <3>2
  <2>6. \A id : TextOf(id)' = TextOf(id)
    BY <1>0, TextStays
  <2>7. \A id \in DOMAIN job.vectors : job.vectors[id].text = TextOf(id)
    BY <2>1 DEF TextInv, Embedded
  <2>8. TextInv'
    BY <2>1, <2>2, <2>3, <2>4, <2>5, <2>6, <2>7 DEF TextInv
  <2> QED
    BY <1>0, <2>1, <2>8, WholeStays
<1>11. CASE Finish
  <2>1. /\ job.step = "finish" /\ parts' = WithParts(job.vectors)
        /\ job' = Idle \/ job' = [Idle EXCEPT !.step = "frontmatter", !.note = job.note]
        /\ UNCHANGED <<rows, held, texts, conf, cached, vectors>>
    BY <1>11 DEF Finish, caches, store
  <2>2. \A id \in DOMAIN job.vectors : job.vectors[id].text = TextOf(id)
    BY <2>1 DEF TextInv, Embedded
  <2>3. ASSUME NEW s \in Suffixes, NEW id \in DOMAIN parts'[s] PROVE parts'[s][id].text = TextOf(id)
    BY <1>0, <2>1, <2>2, <2>3, PartsStored, TableIsSuffix DEF TextInv
  <2>4. job'.step \notin Chunked /\ job'.step \notin Embedded
    BY <2>1, JobEnds DEF Chunked, Embedded
  <2>5. \A id : TextOf(id)' = TextOf(id)
    BY <1>0, TextStays
  <2>6. TextInv'
    BY <2>1, <2>3, <2>4, <2>5 DEF TextInv, Suffixes
  <2> QED
    BY <1>0, <2>1, <2>6, WholeStays
<1>12. CASE Prune \/ UNCHANGED cachesVars
  <2>1. UNCHANGED <<rows, held, texts, parts, vectors, cached, job>>
    BY <1>12 DEF Prune, local, store, cachesVars
  <2> QED
    BY <1>0, <1>1, <2>1
<1> QED
  BY <1>2, <1>3, <1>4, <1>5, <1>6, <1>7, <1>8, <1>9, <1>10, <1>11, <1>12 DEF Next

-----------------------------------------------------------------------------
(* What a fingerprint of metadata promises, under both conditions          *)

PrintInv ==
    /\ \A n \in Notes, m \in Models :
          printed[Suffix[m]][n] # None =>
             \A id \in IdsOf(printed[Suffix[m]][n]) :
                \/ <<id, m>> \in unwritten
                \/ /\ <<id, m>> \in DOMAIN vectors
                   /\ vectors[<<id, m>>].note = n
                      => vectors[<<id, m>>].meta = metaPrint[Suffix[m]][n]
    /\ job.step = "finish" =>
          \A id \in DOMAIN job.chunks :
             \/ <<id, conf.model>> \in unwritten
             \/ /\ <<id, conf.model>> \in DOMAIN vectors
                /\ vectors[<<id, conf.model>>].note = job.note
                /\ vectors[<<id, conf.model>>].meta = disk[job.note].meta

LEMMA InitPrint == Init => PrintInv
<1> SUFFICES ASSUME Init PROVE PrintInv
  OBVIOUS
<1>1. \A n \in Notes, m \in Models : printed[Suffix[m]][n] = None
  BY DEF Init, Suffixes
<1>2. job.step = "idle"
  BY DEF Init, Idle
<1> QED
  BY <1>1, <1>2 DEF PrintInv

\* Rows and fingerprints that stay, and a run that does not finish.
LEMMA PrintStays ==
    ASSUME OneBudget, Types, Types', PrintInv, UNCHANGED <<printed, metaPrint, vectors, unwritten>>,
           \/ job'.step # "finish"
           \/ UNCHANGED <<job, disk, conf>>
    PROVE  PrintInv'
<1>1. \A b : IdsOf(b)' = IdsOf(b)
  BY TextStays
<1>2. job'.step = "finish" =>
         \A id \in DOMAIN job'.chunks :
             \/ <<id, conf'.model>> \in unwritten'
             \/ /\ <<id, conf'.model>> \in DOMAIN vectors'
                /\ vectors'[<<id, conf'.model>>].note = job'.note
                /\ vectors'[<<id, conf'.model>>].meta = disk'[job'.note].meta
  BY DEF PrintInv
<1> QED
  BY <1>1, <1>2 DEF PrintInv

LEMMA WritePrint ==
    ASSUME SuffixTells, OneBudget, Shape, Shape', PrintInv, WriteRows
    PROVE  PrintInv'
<1>0. Types /\ Types' /\ JobShape
  BY DEF Shape
<1>1. /\ job.step = "write" /\ job' = [job EXCEPT !.step = "finish"]
      /\ printed' = [printed EXCEPT ![Table][job.note] = None]
      /\ UNCHANGED <<conf, disk, metaPrint>>
  BY DEF WriteRows
<1>2. job'.chunks = job.chunks /\ job'.note = job.note /\ job'.step = "finish" /\ job.note \in Notes
  BY <1>0, <1>1, JobGoesOn DEF JobShape
<1>3. /\ printed'[Table][job.note] = None
      /\ \A s \in Suffixes, k \in Notes : (s # Table \/ k # job.note) => printed'[s][k] = printed[s][k]
  BY <1>0, <1>1, <1>2, PrintAt
<1>4. \A b : IdsOf(b)' = IdsOf(b)
  BY <1>0, TextStays
<1>5. ASSUME NEW n \in Notes, NEW m \in Models, printed'[Suffix[m]][n] # None,
             NEW id \in IdsOf(printed'[Suffix[m]][n])
      PROVE  \/ <<id, m>> \in unwritten'
             \/ /\ <<id, m>> \in DOMAIN vectors'
                /\ vectors'[<<id, m>>].note = n => vectors'[<<id, m>>].meta = metaPrint'[Suffix[m]][n]
  <2>1. Suffix[m] \in Suffixes /\ (Suffix[m] # Table \/ n # job.note)
    BY <1>3, <1>5 DEF Suffixes
  <2>2. printed'[Suffix[m]][n] = printed[Suffix[m]][n]
    BY <1>3, <2>1
  <2>3. \/ <<id, m>> \in unwritten
        \/ /\ <<id, m>> \in DOMAIN vectors
           /\ vectors[<<id, m>>].note = n => vectors[<<id, m>>].meta = metaPrint[Suffix[m]][n]
    BY <1>5, <2>2 DEF PrintInv
  <2>4. PICK key : key = <<id, m>>
    OBVIOUS
  <2>5. CASE key \in (DOMAIN job.chunks) \X {conf.model}
    <3>1. m = conf.model
      BY <2>4, <2>5
    <3>2. n # job.note
      BY <2>1, <3>1 DEF Table
    <3>3. key \in unwritten' \/ (key \in DOMAIN vectors' /\ vectors'[key].note = job.note)
      BY <2>5, RowsWritten
    <3> QED
      BY <2>4, <3>2, <3>3
  <2>6. CASE key \notin (DOMAIN job.chunks) \X {conf.model}
    <3>1. CASE key \in unwritten
      BY <2>4, <2>6, <3>1, RowsWritten
    <3>2. CASE key \notin unwritten
      <4>1. key \in DOMAIN vectors /\ key \in DOMAIN vectors'
        BY <2>3, <2>4, <3>2, RowsWritten
      <4>2. vectors'[key] = vectors[key]
        BY <2>6, <4>1, RowsWritten
      <4> QED
        BY <1>1, <2>3, <2>4, <3>2, <4>1, <4>2
    <3> QED
      BY <3>1, <3>2
  <2> QED
    BY <2>5, <2>6
<1>6. ASSUME NEW id \in DOMAIN job.chunks
      PROVE  \/ <<id, conf.model>> \in unwritten'
             \/ /\ <<id, conf.model>> \in DOMAIN vectors'
                /\ vectors'[<<id, conf.model>>].note = job.note
                /\ vectors'[<<id, conf.model>>].meta = disk[job.note].meta
  <2>1. <<id, conf.model>> \in (DOMAIN job.chunks) \X {conf.model}
    OBVIOUS
  <2> QED
    BY <2>1, RowsWritten
<1> QED
  BY <1>1, <1>2, <1>4, <1>5, <1>6 DEF PrintInv

LEMMA FinishPrint ==
    ASSUME SuffixTells, OneBudget, Shape, Shape', Whole, PrintInv, Finish
    PROVE  PrintInv'
<1>0. Types /\ Types' /\ JobShape
  BY DEF Shape
<1>1. /\ job.step = "finish"
      /\ job' = Idle \/ job' = [Idle EXCEPT !.step = "frontmatter", !.note = job.note]
      /\ metaPrint' = [metaPrint EXCEPT ![Table][job.note] = disk[job.note].meta]
      /\ printed' = [printed EXCEPT ![Table][job.note] = BodyOf(DOMAIN job.chunks)]
      /\ UNCHANGED <<conf, disk, vectors, unwritten>>
  BY DEF Finish, store, resume
<1>2. job.note \in Notes /\ disk[job.note].meta \in Metas /\ BodyOf(DOMAIN job.chunks) \in Bodies
  BY <1>0, <1>1, BodyIsBody DEF JobShape, Types, Chunked
<1>3. IdsOf(BodyOf(DOMAIN job.chunks)) = DOMAIN job.chunks
  <2>1. DOMAIN job.chunks = HeldBy(job.note) /\ HeldBy(job.note) # {}
    BY <1>1 DEF Shape, Holds, Chunked
  <2>2. PICK b \in Bodies : DOMAIN job.chunks = IdsOf(b)
    BY <1>2, <2>1 DEF Whole
  <2>3. BodyOf(DOMAIN job.chunks) = b
    <3>1. \A id \in IdsOf(b) : id[1] = b
      BY DEF IdsOf
    <3> QED
      BY <2>1, <2>2, <3>1 DEF BodyOf
  <2> QED
    BY <2>2, <2>3
<1>4. /\ printed'[Table][job.note] = BodyOf(DOMAIN job.chunks)
      /\ \A s \in Suffixes, k \in Notes : (s # Table \/ k # job.note) => printed'[s][k] = printed[s][k]
  BY <1>0, <1>1, <1>2, PrintAt
<1>5. /\ metaPrint'[Table][job.note] = disk[job.note].meta
      /\ \A s \in Suffixes, k \in Notes : (s # Table \/ k # job.note) => metaPrint'[s][k] = metaPrint[s][k]
  BY <1>0, <1>1, <1>2, MetaPrintAt
<1>6. \A b : IdsOf(b)' = IdsOf(b)
  BY <1>0, TextStays
<1>7. ASSUME NEW n \in Notes, NEW m \in Models, printed'[Suffix[m]][n] # None,
             NEW id \in IdsOf(printed'[Suffix[m]][n])
      PROVE  \/ <<id, m>> \in unwritten
             \/ /\ <<id, m>> \in DOMAIN vectors
                /\ vectors[<<id, m>>].note = n => vectors[<<id, m>>].meta = metaPrint'[Suffix[m]][n]
  <2>1. CASE Suffix[m] = Table /\ n = job.note
    <3>1. m = conf.model
      BY <1>0, <2>1 DEF SuffixTells, Table, Types, Settings
    <3>2. id \in DOMAIN job.chunks
      BY <1>3, <1>4, <1>7, <2>1
    <3> QED
      BY <1>1, <1>5, <2>1, <3>1, <3>2 DEF PrintInv
  <2>2. CASE Suffix[m] # Table \/ n # job.note
    <3>1. /\ printed'[Suffix[m]][n] = printed[Suffix[m]][n]
          /\ metaPrint'[Suffix[m]][n] = metaPrint[Suffix[m]][n]
      BY <1>4, <1>5, <2>2 DEF Suffixes
    <3> QED
      BY <1>7, <3>1 DEF PrintInv
  <2> QED
    BY <2>1, <2>2
<1>8. job'.step # "finish"
  BY <1>1, JobEnds
<1> QED
  BY <1>1, <1>6, <1>7, <1>8 DEF PrintInv

LEMMA NextPrint ==
    ASSUME SuffixTells, OneBudget, Shape, Shape', Whole, PrintInv, [Next]_cachesVars
    PROVE  PrintInv'
<1>0. Types /\ Types' /\ JobShape
  BY DEF Shape
<1>1. ASSUME NEW n \in Notes, NEW b \in Bodies, NEW m \in Metas, Edit(n, b, m) PROVE PrintInv'
  BY <1>0, <1>1, PrintStays DEF Edit, Idle, local, store, resume
<1>2. ASSUME NEW c \in Settings, Restart(c) PROVE PrintInv'
  BY <1>0, <1>2, PrintStays DEF Restart, Idle, local, store, resume
<1>3. CASE Fail \/ FailWriting \/ WriteFrontmatter \/ ChunkNothing
  BY <1>0, <1>3, PrintStays DEF Fail, FailWriting, WriteFrontmatter, ChunkNothing, Idle, local, store, resume
<1>4. ASSUME NEW n \in Notes, Clean(n) PROVE PrintInv'
  <2>1. job'.step = "chunk" /\ UNCHANGED <<printed, metaPrint, vectors, unwritten>>
    BY <1>4, JobOf DEF Clean, store, resume
  <2> QED
    BY <1>0, <2>1, PrintStays
<1>5. ASSUME NEW n \in Notes, MetaOnly(n) PROVE PrintInv'
  <2>1. job'.step \in {"embed", "frontmatter"} /\ UNCHANGED <<printed, metaPrint, vectors, unwritten>>
    BY <1>5, JobOf, JobOfChunks DEF MetaOnly, local, store, resume
  <2> QED
    BY <1>0, <2>1, PrintStays
<1>6. CASE Chunk
  <2>1. (\E x : job' = [job EXCEPT !.step = "extract", !.chunks = x]) /\ UNCHANGED <<printed, metaPrint, vectors, unwritten>>
    BY <1>6 DEF Chunk, store, resume
  <2>2. job'.step = "extract"
    BY <1>0, <2>1, JobWithChunks
  <2> QED
    BY <1>0, <2>1, <2>2, PrintStays
<1>7. CASE Extract
  <2>1. (\E x : job' = [job EXCEPT !.step = "graph", !.mentions = x]) /\ UNCHANGED <<printed, metaPrint, vectors, unwritten>>
    BY <1>7 DEF Extract, local, store, resume
  <2>2. job'.step = "graph"
    BY <1>0, <2>1, JobWithMentions
  <2> QED
    BY <1>0, <2>1, <2>2, PrintStays
<1>8. CASE WriteGraph \/ SaveChunkPrint
  <2>1. job'.step \in {"print", "embed"} /\ UNCHANGED <<printed, metaPrint, vectors, unwritten>>
    BY <1>0, <1>8, JobGoesOn DEF WriteGraph, SaveChunkPrint, local, store, resume
  <2> QED
    BY <1>0, <2>1, PrintStays
<1>9. CASE EmbedChunks
  <2>1. (\E x : job' = [job EXCEPT !.step = "write", !.vectors = x]) /\ UNCHANGED <<printed, metaPrint, vectors, unwritten>>
    BY <1>9 DEF EmbedChunks, local, store, resume
  <2>2. job'.step = "write"
    BY <1>0, <2>1, JobWithVectors
  <2> QED
    BY <1>0, <2>1, <2>2, PrintStays
<1>10. CASE WriteRows
  BY <1>10, WritePrint
<1>11. CASE Finish
  BY <1>11, FinishPrint
<1>12. CASE Prune \/ UNCHANGED cachesVars
  <2>1. UNCHANGED <<printed, metaPrint, vectors, unwritten, job, disk, conf>>
    BY <1>12 DEF Prune, local, store, resume, cachesVars
  <2> QED
    BY <1>0, <2>1, PrintStays
<1> QED
  BY <1>1, <1>2, <1>3, <1>4, <1>5, <1>6, <1>7, <1>8, <1>9, <1>10, <1>11, <1>12 DEF Next

-----------------------------------------------------------------------------
(* The entities of each text, where the token budget is never changed      *)

\* The chunks of a body that are the last of it with their text.
LastOf(b) == {id \in IdsOf(b) : \A other \in IdsOf(b) : TextOf(other) = TextOf(id) => other[2] <= id[2]}

\* The chunks whose mentions the store has or was to have.
Given == DOMAIN graph \cup unmentioned

EntityInv ==
    /\ \A key \in DOMAIN found : found[key] = {key[1]}
    /\ job.step \in {"extract", "graph", "print"} => DOMAIN job.chunks = IdsOf(disk[job.note].body)
    /\ job.step = "graph" =>
          /\ DOMAIN job.mentions = LastOf(disk[job.note].body)
          /\ \A id \in DOMAIN job.mentions : \A e \in DOMAIN job.mentions[id] : e[1] = TextOf(id)
    /\ job.step = "print" => LastOf(disk[job.note].body) \subseteq Given
    /\ \A id \in DOMAIN graph : (\E b \in Bodies : id \in IdsOf(b)) /\ \A e \in DOMAIN graph[id] : e[1] = TextOf(id)
    /\ \A n \in Notes : chunkPrint[n] # None => LastOf(chunkPrint[n]) \subseteq Given

LEMMA InitEntity == Init => EntityInv
<1> SUFFICES ASSUME Init PROVE EntityInv
  OBVIOUS
<1>1. DOMAIN found = {} /\ DOMAIN graph = {} /\ job.step = "idle" /\ \A n \in Notes : chunkPrint[n] = None
  BY DEF Init, Nothing, Idle
<1> QED
  BY <1>1 DEF EntityInv

LEMMA LastStays ==
    ASSUME OneBudget, Types, Types'
    PROVE  \A b : LastOf(b)' = LastOf(b)
BY TextStays DEF LastOf

\* Everything about entities as it was, and a run that is not between its chunks and its fingerprint.
LEMMA EntityStays ==
    ASSUME OneBudget, Types, Types', EntityInv, UNCHANGED <<chunkPrint, graph, unmentioned>>,
           \A key \in DOMAIN found' : found'[key] = {key[1]},
           \/ job'.step \notin {"extract", "graph", "print"}
           \/ UNCHANGED <<job, disk>>
    PROVE  EntityInv'
<1>1. (\A id : TextOf(id)' = TextOf(id)) /\ (\A b : IdsOf(b)' = IdsOf(b)) /\ \A b : LastOf(b)' = LastOf(b)
  BY TextStays, LastStays
<1> QED
  BY <1>1 DEF EntityInv, Given

\* What lookup_batch keeps of the chunks of a body.
LEMMA LookedUpIsLast ==
    ASSUME NEW b, DOMAIN job.chunks = IdsOf(b), \A id \in DOMAIN job.chunks : job.chunks[id] = TextOf(id)
    PROVE  LookedUp(job.chunks) = LastOf(b)
BY DEF LookedUp, LastOf

\* A set of naturals that is not empty has a first element.
LEMMA FirstExists ==
    ASSUME NEW S \in SUBSET Nat, S # {}
    PROVE  \E p \in S : \A q \in S : p <= q
<1>1. PICK p \in S : \A q \in S : <<q, p>> \notin OpToRel(<, Nat)
  BY NatLessThanWellFounded, WFMin, Zenon
<1>2. \A q \in S : ~(q < p)
  BY <1>1 DEF OpToRel
<1>3. \A q \in S : q \in Nat
  OBVIOUS
<1> QED
  BY <1>2, <1>3

\* Each text of a body has a last chunk.
LEMMA LastExists ==
    ASSUME Types, NEW b \in Bodies, NEW id \in IdsOf(b)
    PROVE  \E other \in LastOf(b) : TextOf(other) = TextOf(id)
<1>1. DOMAIN Cut(b) = 1 .. Len(Cut(b)) /\ Len(Cut(b)) \in Nat
  BY CutTyped
<1>2. PICK i \in DOMAIN Cut(b) : id = <<b, i>>
  BY DEF IdsOf
<1>3. \A j : TextOf(<<b, j>>) = Cut(b)[j]
  BY DEF TextOf
<1> DEFINE N == Len(Cut(b))
           S == {N - j : j \in {k \in 1 .. N : Cut(b)[k] = Cut(b)[i]}}
<1>4. S \in SUBSET Nat /\ N - i \in S
  BY <1>1, <1>2
<1>5. PICK p \in S : \A q \in S : p <= q
  BY <1>4, FirstExists
<1>6. PICK j \in 1 .. N : p = N - j /\ Cut(b)[j] = Cut(b)[i]
  BY <1>5
<1>7. ASSUME NEW k \in 1 .. N, Cut(b)[k] = Cut(b)[i] PROVE k <= j
  <2>1. N - j <= N - k
    BY <1>5, <1>6, <1>7
  <2> QED
    BY <1>1, <2>1
<1>8. <<b, j>> \in IdsOf(b) /\ TextOf(<<b, j>>) = TextOf(id)
  BY <1>1, <1>2, <1>3, <1>6 DEF IdsOf
<1>9. ASSUME NEW other \in IdsOf(b), TextOf(other) = TextOf(<<b, j>>) PROVE other[2] <= j
  <2>1. PICK k \in DOMAIN Cut(b) : other = <<b, k>>
    BY <1>9 DEF IdsOf
  <2>2. other[2] = k /\ Cut(b)[k] = Cut(b)[j]
    BY <1>3, <1>9, <2>1
  <2> QED
    BY <1>1, <1>6, <1>7, <2>1, <2>2
<1>10. <<b, j>> \in LastOf(b)
  <2>1. <<b, j>>[2] = j
    OBVIOUS
  <2> QED
    BY <1>8, <1>9, <2>1 DEF LastOf
<1> QED
  BY <1>8, <1>10

\* What is cached is the entities of the text of the key.
LEMMA StoredTruly ==
    ASSUME NEW misses, NEW key \in DOMAIN Stored(misses)
    PROVE  Stored(misses)[key] = {key[1]}
<1> DEFINE K == {CacheKey(job.chunks[id]) : id \in misses}
           Of(k) == UNION {EntitiesToCache(id, misses) : id \in {c \in misses : CacheKey(job.chunks[c]) = k}}
<1>1. Stored(misses) = [k \in K |-> Of(k)]
  BY DEF Stored
<1>2. key \in K /\ Stored(misses)[key] = Of(key)
  BY <1>1
<1>3. PICK c \in misses : CacheKey(job.chunks[c]) = key
  BY <1>2
<1>4. \A id \in misses : CacheKey(job.chunks[id]) = key => EntitiesToCache(id, misses) = {key[1]}
  BY DEF EntitiesToCache, CacheKey
<1>5. Of(key) = {key[1]}
  BY <1>3, <1>4
<1> QED
  BY <1>2, <1>5

LEMMA ExtractEntity ==
    ASSUME OneBudget, Shape, Shape', TextInv, EntityInv, Extract
    PROVE  EntityInv'
<1>0. Types /\ Types' /\ JobShape
  BY DEF Shape
<1> DEFINE Known(id) == CacheKey(job.chunks[id]) \in DOMAIN found
           hits == {id \in LookedUp(job.chunks) : Known(id)}
           Cached(id) == [e \in found[CacheKey(job.chunks[id])] \X {conf.sig} |-> 1]
           new == [id \in LookedUp(job.chunks) |->
                     IF id \in hits THEN Cached(id) ELSE Predicted(job.chunks[id])]
<1>1. /\ job.step = "extract"
      /\ found' = Stored(LookedUp(job.chunks) \ hits) ++ found
      /\ job' = [job EXCEPT !.step = "graph", !.mentions = new]
      /\ UNCHANGED <<disk, chunkPrint, graph, unmentioned>>
  BY DEF Extract, local, store, resume
<1>2. job'.step = "graph" /\ job'.note = job.note /\ job'.chunks = job.chunks /\ job'.mentions = new
  <2>1. PICK x : x = new
    OBVIOUS
  <2> HIDE DEF new
  <2> QED
    BY <1>0, <1>1, JobWithMentions
<1>3. \A key \in DOMAIN found' : found'[key] = {key[1]}
  <2>1. PICK made : made = Stored(LookedUp(job.chunks) \ hits)
    OBVIOUS
  <2>2. \A key \in DOMAIN made : made[key] = {key[1]}
    BY <2>1, StoredTruly
  <2>3. found' = made ++ found
    BY <1>1, <2>1
  <2> QED
    BY <2>2, <2>3 DEF ++, EntityInv
<1>4. /\ DOMAIN job.chunks = IdsOf(disk[job.note].body)
      /\ \A id \in DOMAIN job.chunks : job.chunks[id] = TextOf(id)
  BY <1>1 DEF EntityInv, TextInv, Chunked
<1>5. DOMAIN new = LastOf(disk[job.note].body)
  BY <1>4, LookedUpIsLast
<1>6. ASSUME NEW id \in DOMAIN new, NEW e \in DOMAIN new[id] PROVE e[1] = TextOf(id)
  <2>1. job.chunks[id] = TextOf(id)
    BY <1>4, <1>6 DEF LookedUp
  <2>2. CASE id \in hits
    <3>1. new[id] = Cached(id)
      BY <1>6, <2>2
    <3>2. PICK key \in DOMAIN found : key = CacheKey(job.chunks[id])
      BY <2>2
    <3>3. found[key] = {job.chunks[id]}
      BY <3>2 DEF EntityInv, CacheKey
    <3>4. e \in {job.chunks[id]} \X {conf.sig}
      BY <1>6, <3>1, <3>2, <3>3
    <3> QED
      BY <2>1, <3>4
  <2>3. CASE id \notin hits
    <3>1. new[id] = Predicted(job.chunks[id])
      BY <1>6, <2>3
    <3> QED
      BY <1>6, <2>1, <3>1 DEF Predicted
  <2> QED
    BY <2>2, <2>3
<1>7. (\A id : TextOf(id)' = TextOf(id)) /\ (\A b : IdsOf(b)' = IdsOf(b)) /\ \A b : LastOf(b)' = LastOf(b)
  BY <1>0, TextStays, LastStays
<1> HIDE DEF new, hits
<1> QED
  BY <1>1, <1>2, <1>3, <1>4, <1>5, <1>6, <1>7 DEF EntityInv, Given

LEMMA WriteGraphEntity ==
    ASSUME OneBudget, Shape, Shape', EntityInv, WriteGraph
    PROVE  EntityInv'
<1>0. Types /\ Types' /\ JobShape
  BY DEF Shape
<1> DEFINE old(id) == IF id \in DOMAIN graph THEN graph[id] ELSE Nothing
           new == [id \in DOMAIN job.mentions |-> job.mentions[id] ++ old(id)]
<1>1. /\ job.step = "graph" /\ job' = [job EXCEPT !.step = "print"]
      /\ \/ graph' = graph /\ unmentioned' = unmentioned \cup (DOMAIN job.mentions \ DOMAIN graph)
         \/ graph' = new ++ graph /\ unmentioned' = unmentioned \ DOMAIN job.mentions
      /\ UNCHANGED <<disk, chunkPrint, found>>
  BY DEF WriteGraph, local, caches
<1>2. job'.step = "print" /\ job'.note = job.note /\ job'.chunks = job.chunks
  BY <1>0, <1>1, JobGoesOn
<1>3. /\ DOMAIN job.mentions = LastOf(disk[job.note].body)
      /\ \A id \in DOMAIN job.mentions : \A e \in DOMAIN job.mentions[id] : e[1] = TextOf(id)
  BY <1>1 DEF EntityInv
<1>4. \A id \in DOMAIN graph' :
         \/ id \in DOMAIN graph /\ graph'[id] = graph[id]
         \/ id \in DOMAIN job.mentions /\ graph'[id] = job.mentions[id] ++ old(id)
  <2>1. CASE graph' = graph
    BY <2>1
  <2>2. CASE graph' = new ++ graph
    BY <2>2 DEF ++
  <2> QED
    BY <1>1, <2>1, <2>2
<1>8. Given' = Given \cup DOMAIN job.mentions
  <2>1. CASE graph' = graph /\ unmentioned' = unmentioned \cup (DOMAIN job.mentions \ DOMAIN graph)
    BY <2>1 DEF Given
  <2>2. CASE graph' = new ++ graph /\ unmentioned' = unmentioned \ DOMAIN job.mentions
    <3>1. DOMAIN graph' = DOMAIN job.mentions \cup DOMAIN graph
      BY <2>2 DEF ++
    <3> QED
      BY <2>2, <3>1 DEF Given
  <2> QED
    BY <1>1, <2>1, <2>2
<1>5. ASSUME NEW id \in DOMAIN graph', NEW e \in DOMAIN graph'[id] PROVE e[1] = TextOf(id)
  <2>1. CASE id \in DOMAIN job.mentions /\ graph'[id] = job.mentions[id] ++ old(id)
    <3>1. DOMAIN graph'[id] = DOMAIN job.mentions[id] \cup DOMAIN old(id)
      BY <2>1 DEF ++
    <3>2. \A x \in DOMAIN old(id) : x[1] = TextOf(id)
      BY DEF Nothing, EntityInv
    <3> QED
      BY <1>3, <1>5, <2>1, <3>1, <3>2
  <2>2. CASE id \in DOMAIN graph /\ graph'[id] = graph[id]
    BY <1>5, <2>2 DEF EntityInv
  <2> QED
    BY <1>4, <2>1, <2>2
<1>6. ASSUME NEW id \in DOMAIN graph' PROVE \E b \in Bodies : id \in IdsOf(b)
  <2>1. disk[job.note].body \in Bodies
    BY <1>0, <1>1 DEF JobShape, Types
  <2> QED
    BY <1>3, <1>4, <1>6, <2>1 DEF EntityInv, LastOf
<1>7. (\A id : TextOf(id)' = TextOf(id)) /\ (\A b : IdsOf(b)' = IdsOf(b)) /\ \A b : LastOf(b)' = LastOf(b)
  BY <1>0, TextStays, LastStays
<1> HIDE DEF new, old
<1> QED
  BY <1>1, <1>2, <1>3, <1>5, <1>6, <1>7, <1>8 DEF EntityInv

LEMMA ChunkEntity ==
    ASSUME OneBudget, Shape, Shape', EntityInv, Chunk
    PROVE  EntityInv'
<1>0. Types /\ Types' /\ JobShape
  BY DEF Shape
<1>1. job.step = "chunk" /\ job.note \in Notes /\ disk[job.note].body \in Bodies
  BY <1>0 DEF Chunk, JobShape, Types
<1>2. PICK made : made = Split(job.note, disk[job.note].body)
  OBVIOUS
<1>3. /\ job' = [job EXCEPT !.step = "extract", !.chunks = made]
      /\ UNCHANGED <<disk, chunkPrint, found, graph, unmentioned>>
  BY <1>2 DEF Chunk, caches, store, resume
<1>4. job'.step = "extract" /\ job'.note = job.note /\ job'.chunks = made
  BY <1>0, <1>3, JobWithChunks
<1>5. DOMAIN made = IdsOf(disk[job.note].body)
  BY <1>0, <1>1, <1>2, SplitIs DEF IdsOf
<1>6. (\A id : TextOf(id)' = TextOf(id)) /\ (\A b : IdsOf(b)' = IdsOf(b)) /\ \A b : LastOf(b)' = LastOf(b)
  BY <1>0, TextStays, LastStays
<1> QED
  BY <1>3, <1>4, <1>5, <1>6 DEF EntityInv, Given

\* The fingerprint of a body is saved once its texts are mentioned.
LEMMA BodySaved ==
    ASSUME OneBudget, Types, Types', EntityInv, NEW n \in Notes, NEW b \in Bodies,
           chunkPrint' = [chunkPrint EXCEPT ![n] = b], LastOf(b) \subseteq Given,
           UNCHANGED <<disk, found, graph, unmentioned>>, job'.step \in {"idle", "embed"}
    PROVE  EntityInv'
<1>1. (\A id : TextOf(id)' = TextOf(id)) /\ (\A c : IdsOf(c)' = IdsOf(c)) /\ \A c : LastOf(c)' = LastOf(c)
  BY TextStays, LastStays
<1>2. \A k \in Notes : chunkPrint'[k] # None => LastOf(chunkPrint'[k]) \subseteq Given
  BY DEF Types, EntityInv
<1> QED
  BY <1>1, <1>2 DEF EntityInv, Given

LEMMA NextEntity ==
    ASSUME OneBudget, Shape, Shape', TextInv, EntityInv, [Next]_cachesVars
    PROVE  EntityInv'
<1>0. /\ Types /\ Types' /\ JobShape
      /\ \A key \in DOMAIN found : found[key] = {key[1]}
  BY DEF Shape, EntityInv
<1>1. ASSUME NEW n \in Notes, NEW b \in Bodies, NEW m \in Metas, Edit(n, b, m) PROVE EntityInv'
  BY <1>0, <1>1, EntityStays DEF Edit, Idle, local, caches, store, resume
<1>2. ASSUME NEW c \in Settings, Restart(c) PROVE EntityInv'
  <2>1. /\ UNCHANGED <<chunkPrint, graph, unmentioned>> /\ job' = Idle
        /\ found' = Refreshed(found, foundFor, c.sig)
    BY <1>2 DEF Restart, local, store, resume
  <2>2. \A key \in DOMAIN found' : found'[key] = {key[1]}
    BY <1>0, <2>1 DEF Refreshed, Nothing
  <2>3. job'.step = "idle"
    BY <2>1 DEF Idle
  <2> QED
    BY <1>0, <2>1, <2>2, <2>3, EntityStays
<1>3. CASE Fail \/ FailWriting \/ WriteFrontmatter
  BY <1>0, <1>3, EntityStays DEF Fail, FailWriting, WriteFrontmatter, Idle, local, caches, store, resume
<1>4. ASSUME NEW n \in Notes, Clean(n) PROVE EntityInv'
  <2>1. job'.step = "chunk" /\ UNCHANGED <<chunkPrint, graph, unmentioned, found>>
    BY <1>4, JobOf DEF Clean, caches, store, resume
  <2> QED
    BY <1>0, <2>1, EntityStays
<1>5. ASSUME NEW n \in Notes, MetaOnly(n) PROVE EntityInv'
  <2>1. job'.step \in {"embed", "frontmatter"} /\ UNCHANGED <<chunkPrint, graph, unmentioned, found>>
    BY <1>5, JobOf, JobOfChunks DEF MetaOnly, local, caches, store, resume
  <2> QED
    BY <1>0, <2>1, EntityStays
<1>6. CASE Chunk
  BY <1>6, ChunkEntity
<1>7. CASE ChunkNothing
  <2>1. /\ job.step = "chunk" /\ Cut(disk[job.note].body) = <<>>
        /\ chunkPrint' = [chunkPrint EXCEPT ![job.note] = disk[job.note].body]
        /\ job' = Idle /\ UNCHANGED <<disk, found, graph, unmentioned>>
    BY <1>7 DEF ChunkNothing, caches, store, resume
  <2>2. job.note \in Notes /\ disk[job.note].body \in Bodies
    BY <1>0, <2>1 DEF JobShape, Types
  <2>3. LastOf(disk[job.note].body) = {}
    BY <2>1 DEF LastOf, IdsOf
  <2>4. job'.step = "idle"
    BY <2>1 DEF Idle
  <2> QED
    BY <1>0, <2>1, <2>2, <2>3, <2>4, BodySaved
<1>8. CASE Extract
  BY <1>8, ExtractEntity
<1>9. CASE WriteGraph
  BY <1>9, WriteGraphEntity
<1>10. CASE SaveChunkPrint
  <2>1. /\ job.step = "print"
        /\ chunkPrint' = [chunkPrint EXCEPT ![job.note] = disk[job.note].body]
        /\ job' = [job EXCEPT !.step = "embed"] /\ UNCHANGED <<disk, found, graph, unmentioned>>
    BY <1>10 DEF SaveChunkPrint, caches, store, resume
  <2>2. job.note \in Notes /\ disk[job.note].body \in Bodies
    BY <1>0, <2>1 DEF JobShape, Types
  <2>3. LastOf(disk[job.note].body) \subseteq Given
    BY <2>1 DEF EntityInv
  <2>4. job'.step = "embed"
    BY <1>0, <2>1, JobGoesOn
  <2> QED
    BY <1>0, <2>1, <2>2, <2>3, <2>4, BodySaved
<1>11. CASE EmbedChunks
  <2>1. (\E x : job' = [job EXCEPT !.step = "write", !.vectors = x]) /\ UNCHANGED <<chunkPrint, graph, unmentioned, found>>
    BY <1>11 DEF EmbedChunks, local, store, resume
  <2>2. job'.step = "write"
    BY <1>0, <2>1, JobWithVectors
  <2> QED
    BY <1>0, <2>1, <2>2, EntityStays
<1>12. CASE WriteRows
  <2>1. job'.step = "finish" /\ UNCHANGED <<chunkPrint, graph, unmentioned, found>>
    BY <1>0, <1>12, JobGoesOn DEF WriteRows, caches
  <2> QED
    BY <1>0, <2>1, EntityStays
<1>13. CASE Finish
  <2>1. job'.step \in {"idle", "frontmatter"} /\ UNCHANGED <<chunkPrint, graph, unmentioned, found>>
    BY <1>13, JobEnds DEF Finish, caches, store, resume
  <2> QED
    BY <1>0, <2>1, EntityStays
<1>14. CASE Prune
  <2>1. UNCHANGED <<chunkPrint, graph, unmentioned, job, disk>> /\ \E live : found' = Only(found, live \X {conf.sig})
    BY <1>14 DEF Prune, Pruned, local, store, resume
  <2>2. \A key \in DOMAIN found' : found'[key] = {key[1]}
    BY <1>0, <2>1 DEF Only
  <2> QED
    BY <1>0, <2>1, <2>2, EntityStays
<1>15. CASE UNCHANGED cachesVars
  <2>1. UNCHANGED <<chunkPrint, graph, unmentioned, found, job, disk>>
    BY <1>15 DEF cachesVars, local, caches, store, resume
  <2> QED
    BY <1>0, <2>1, EntityStays
<1> QED
  BY <1>1, <1>2, <1>3, <1>4, <1>5, <1>6, <1>7, <1>8, <1>9, <1>10, <1>11, <1>12, <1>13, <1>14, <1>15 DEF Next

-----------------------------------------------------------------------------
(* What the tables are functions of, under no condition                    *)

Texts == DOMAIN Spans
Ids == UNION {{<<p[1], i>> : i \in DOMAIN Pieces[p]} : p \in Bodies \X Budgets}

TablesTyped ==
    /\ cachedFor = conf.model /\ foundFor = conf.sig
    /\ DOMAIN rows \cup DOMAIN texts \cup DOMAIN graph \subseteq Ids
    /\ {h[2] : h \in held} = DOMAIN rows
    /\ \A id \in DOMAIN rows : rows[id] \in Texts
    /\ DOMAIN cached \subseteq Texts \X {conf.model}
    /\ DOMAIN found \subseteq Texts \X {conf.sig}
    /\ DOMAIN vectors \cup unwritten \subseteq Ids \X Models
    /\ unmentioned \subseteq Ids
    /\ applied \subseteq {"chunks", "embeddings", "graph"}

JobTyped ==
    /\ job = Idle <=> job.step = "idle"
    /\ DOMAIN job.mentions \subseteq DOMAIN job.chunks
    /\ job.step = "chunk" => DOMAIN job.mentions = {}
    /\ job.step \in Chunked => \A id \in DOMAIN job.chunks : job.chunks[id] \in Texts

LEMMA TypedIsTypeOK == Shape /\ TablesTyped /\ JobTyped => TypeOK
BY DEF Shape, Types, JobShape, Embedded, TablesTyped, JobTyped, TypeOK, Texts, Ids

LEMMA InitTyped == Init => TablesTyped /\ JobTyped
<1> SUFFICES ASSUME Init PROVE TablesTyped /\ JobTyped
  OBVIOUS
<1>1. /\ DOMAIN rows = {} /\ DOMAIN texts = {} /\ DOMAIN graph = {} /\ DOMAIN cached = {} /\ DOMAIN found = {}
      /\ DOMAIN vectors = {} /\ unwritten = {} /\ unmentioned = {} /\ applied = {} /\ held = {} /\ cachedFor = conf.model /\ foundFor = conf.sig
  BY DEF Init, Nothing
<1>2. job = Idle /\ job.step = "idle" /\ DOMAIN job.mentions = {}
  BY DEF Init, Idle, Nothing
<1> QED
  BY <1>1, <1>2 DEF TablesTyped, JobTyped, Chunked

LEMMA IdleTyped ==
    ASSUME job' = Idle
    PROVE  JobTyped'
BY DEF JobTyped, Idle, Nothing, Chunked

\* A run that has begun and whose mentions are of its chunks.
LEMMA RunTyped ==
    ASSUME job'.step # "idle", DOMAIN job'.mentions \subseteq DOMAIN job'.chunks,
           job'.step = "chunk" => DOMAIN job'.mentions = {},
           job'.step \in Chunked => \A id \in DOMAIN job'.chunks : job'.chunks[id] \in Texts
    PROVE  JobTyped'
<1>1. job' # Idle
  BY DEF Idle
<1> QED
  BY <1>1 DEF JobTyped, Texts

\* What a run has of its note is a chunk of a body, with its row.
LEMMA ChunksAreIds ==
    ASSUME Shape, TablesTyped, job.step \in Chunked
    PROVE  DOMAIN job.chunks \subseteq Ids
BY DEF Shape, Holds, HeldBy, TablesTyped

LEMMA TablesStay ==
    ASSUME TablesTyped, UNCHANGED <<conf, rows, held, cached, cachedFor, found, foundFor, texts, vectors, graph, resume>>
    PROVE  TablesTyped'
BY DEF TablesTyped, Texts, Ids, resume

LEMMA RestartTyped ==
    ASSUME TablesTyped, NEW c \in Settings, Restart(c)
    PROVE  TablesTyped' /\ JobTyped'
<1>1. /\ conf' = c /\ job' = Idle /\ cachedFor' = c.model /\ foundFor' = c.sig
      /\ cached' = Refreshed(cached, cachedFor, c.model)
      /\ found' = Refreshed(found, foundFor, c.sig)
      /\ applied' = {} /\ UNCHANGED <<rows, held, texts, vectors, graph, unwritten, unmentioned>>
  BY DEF Restart, local
<1>2. DOMAIN cached' \subseteq Texts \X {c.model} /\ DOMAIN found' \subseteq Texts \X {c.sig}
  BY <1>1 DEF Refreshed, Nothing, TablesTyped
<1> QED
  BY <1>1, <1>2, IdleTyped DEF TablesTyped, Texts, Ids

LEMMA CleanTyped ==
    ASSUME TablesTyped, NEW n \in Notes, Clean(n)
    PROVE  TablesTyped' /\ JobTyped'
<1>1. /\ job' = [Idle EXCEPT !.step = "chunk", !.note = n]
      /\ held' = {h \in held : h[1] # n}
      /\ rows' = Only(rows, {h[2] : h \in held'})
      /\ UNCHANGED <<conf, cached, cachedFor, found, foundFor, texts, vectors, graph, resume>>
  BY DEF Clean, caches, store
<1>2. job'.step = "chunk" /\ job'.mentions = Nothing
  BY <1>1, JobOf
<1>3. /\ DOMAIN rows' = DOMAIN rows \cap {h[2] : h \in held'}
      /\ \A id \in DOMAIN rows' : rows'[id] = rows[id]
  BY <1>1 DEF Only
<1>4. {h[2] : h \in held'} \subseteq DOMAIN rows
  BY <1>1 DEF TablesTyped
<1>5. TablesTyped'
  BY <1>1, <1>3, <1>4 DEF TablesTyped, Texts, Ids, resume
<1>6. JobTyped'
  BY <1>2, RunTyped DEF Nothing, Chunked
<1> QED
  BY <1>5, <1>6

LEMMA ChunkTyped ==
    ASSUME Shape, TablesTyped, JobTyped, Chunk
    PROVE  TablesTyped' /\ JobTyped'
<1>0. Types /\ JobShape
  BY DEF Shape
<1>1. job.step = "chunk" /\ job.note \in Notes /\ disk[job.note].body \in Bodies
  BY <1>0 DEF Chunk, JobShape, Types
<1>a. PICK n \in Notes, b \in Bodies : n = job.note /\ b = disk[job.note].body
  BY <1>1
<1>2. PICK made : n = job.note /\ b = disk[job.note].body /\ made = Split(n, b)
  BY <1>a
<1>3. /\ rows' = rows ++ made
      /\ held' = held \cup {<<n, id>> : id \in DOMAIN made}
      /\ job' = [job EXCEPT !.step = "extract", !.chunks = made]
      /\ UNCHANGED <<conf, cached, cachedFor, found, foundFor, texts, vectors, graph, resume>>
  BY <1>2 DEF Chunk, caches, store
<1>4. DOMAIN made \subseteq Ids /\ \A id \in DOMAIN made : made[id] \in Texts
  <2>1. /\ DOMAIN made = {<<b, i>> : i \in DOMAIN Cut(b)}
        /\ \A i \in DOMAIN Cut(b) : made[<<b, i>>] = Cut(b)[i]
    BY <1>0, <1>2, SplitIs
  <2>2. \A i \in DOMAIN Cut(b) : Cut(b)[i] \in Texts
    BY <1>0, CutTyped DEF Texts
  <2>3. PICK q \in Bodies \X Budgets : q = <<b, conf.budget>>
    BY <1>0 DEF Types, Settings
  <2>4. q[1] = b /\ Cut(b) = Pieces[q]
    BY <2>3 DEF Cut
  <2> QED
    BY <2>1, <2>2, <2>3, <2>4 DEF Ids
<1>5. /\ DOMAIN rows' = DOMAIN rows \cup DOMAIN made
      /\ \A id \in DOMAIN rows' : rows'[id] \in Texts
  BY <1>3, <1>4 DEF ++, TablesTyped
<1>6. {h[2] : h \in held'} = {h[2] : h \in held} \cup DOMAIN made
  <2>1. \A id : <<n, id>>[2] = id
    OBVIOUS
  <2>2. {h[2] : h \in {<<n, id>> : id \in DOMAIN made}} = DOMAIN made
    BY <2>1
  <2> QED
    BY <1>3, <2>2
<1>7. TablesTyped'
  BY <1>3, <1>4, <1>5, <1>6 DEF TablesTyped, Texts, Ids, resume
<1>8. job'.step = "extract" /\ job'.chunks = made /\ job'.mentions = job.mentions
  BY <1>0, <1>3, JobWithChunks
<1>9. JobTyped'
  BY <1>1, <1>4, <1>8, RunTyped DEF JobTyped, Chunked
<1> QED
  BY <1>7, <1>9

LEMMA ExtractTyped ==
    ASSUME Shape, TablesTyped, JobTyped, Extract
    PROVE  TablesTyped' /\ JobTyped'
<1>0. JobShape
  BY DEF Shape
<1>1. PICK misses, new :
         /\ misses \subseteq DOMAIN job.chunks /\ DOMAIN new \subseteq DOMAIN job.chunks
         /\ found' = Stored(misses) ++ found
         /\ job' = [job EXCEPT !.step = "graph", !.mentions = new]
  BY DEF Extract, LookedUp
<1>2. job.step = "extract" /\ UNCHANGED <<conf, rows, held, cached, cachedFor, foundFor, texts, vectors, graph, resume>>
  BY DEF Extract, local, store
<1>3. \A id \in DOMAIN job.chunks : job.chunks[id] \in Texts
  BY <1>2 DEF JobTyped, Chunked
<1>4. DOMAIN Stored(misses) \subseteq Texts \X {conf.sig}
  BY <1>1, <1>3 DEF Stored, CacheKey
<1>5. DOMAIN found' = DOMAIN Stored(misses) \cup DOMAIN found
  BY <1>1 DEF ++
<1>6. TablesTyped'
  BY <1>2, <1>4, <1>5 DEF TablesTyped, Texts, Ids, resume
<1>7. job'.step = "graph" /\ job'.chunks = job.chunks /\ job'.mentions = new
  BY <1>0, <1>1, JobWithMentions
<1>8. JobTyped'
  BY <1>1, <1>3, <1>7, RunTyped
<1> QED
  BY <1>6, <1>8

LEMMA WriteGraphTyped ==
    ASSUME Shape, TablesTyped, JobTyped, WriteGraph
    PROVE  TablesTyped' /\ JobTyped'
<1>0. JobShape
  BY DEF Shape
<1>1. /\ job.step = "graph" /\ job' = [job EXCEPT !.step = "print"]
      /\ applied' = applied \cup {"graph"}
      /\ UNCHANGED <<conf, rows, held, cached, cachedFor, found, foundFor, texts, vectors, unwritten>>
  BY DEF WriteGraph, local, caches
<1>2. DOMAIN graph' \cup unmentioned' \subseteq DOMAIN job.mentions \cup DOMAIN graph \cup unmentioned
  BY DEF WriteGraph, ++
<1>3. DOMAIN job.mentions \subseteq Ids
  BY <1>1, ChunksAreIds DEF JobTyped, Chunked
<1>4. TablesTyped'
  BY <1>1, <1>2, <1>3 DEF TablesTyped, Texts, Ids
<1>5. job'.step = "print" /\ job'.chunks = job.chunks /\ job'.mentions = job.mentions
  BY <1>0, <1>1, JobGoesOn
<1>6. JobTyped'
  BY <1>1, <1>5, RunTyped DEF JobTyped, Chunked
<1> QED
  BY <1>4, <1>6

LEMMA EmbedTyped ==
    ASSUME Shape, TablesTyped, JobTyped, EmbedChunks
    PROVE  TablesTyped' /\ JobTyped'
<1>0. JobShape
  BY DEF Shape
<1>1. /\ job.step = "embed" /\ \E x : job' = [job EXCEPT !.step = "write", !.vectors = x]
      /\ cached' = CachedWith(job.chunks)
      /\ UNCHANGED <<conf, rows, held, cachedFor, found, foundFor, texts, vectors, graph, resume>>
  BY DEF EmbedChunks, local, store
<1>2. \A id \in DOMAIN job.chunks : job.chunks[id] \in Texts
  BY <1>1 DEF JobTyped, Chunked
<1>3. DOMAIN cached' \subseteq Texts \X {conf.model}
  BY <1>1, <1>2 DEF CachedWith, ++, TablesTyped
<1>4. TablesTyped'
  BY <1>1, <1>3 DEF TablesTyped, Texts, Ids, resume
<1>5. job'.step = "write" /\ job'.chunks = job.chunks /\ job'.mentions = job.mentions
  BY <1>0, <1>1, JobWithVectors
<1>6. JobTyped'
  BY <1>2, <1>5, RunTyped DEF JobTyped
<1> QED
  BY <1>4, <1>6

\* The chunks phase of a run whose chunks have ids.
LEMMA TextsTyped ==
    ASSUME Shape, TablesTyped, job.step \in Chunked
    PROVE  DOMAIN TextsWritten \subseteq Ids
BY ChunksAreIds DEF TextsWritten, ++, TablesTyped

LEMMA WriteTyped ==
    ASSUME Shape, TablesTyped, JobTyped, WriteRows
    PROVE  TablesTyped' /\ JobTyped'
<1>0. JobShape
  BY DEF Shape
<1>1. /\ job.step = "write" /\ job' = [job EXCEPT !.step = "finish"] /\ texts' = TextsWritten
      /\ applied' = applied \cup {"chunks", "embeddings"}
      /\ UNCHANGED <<conf, rows, held, cached, cachedFor, found, foundFor, graph, unmentioned>>
  BY DEF WriteRows, caches
<1>2. DOMAIN texts' \subseteq Ids
  BY <1>1, TextsTyped DEF Chunked
<1>3. /\ DOMAIN vectors' \cup unwritten' \subseteq
              DOMAIN vectors \cup unwritten \cup (DOMAIN job.chunks) \X {conf.model}
      /\ conf.model \in Models
  BY RowsWritten DEF Shape, Types, Settings
<1>4. DOMAIN job.chunks \subseteq Ids
  BY <1>1, ChunksAreIds DEF Chunked
<1>5. DOMAIN vectors' \cup unwritten' \subseteq Ids \X Models
  BY <1>3, <1>4 DEF TablesTyped
<1>6. TablesTyped'
  BY <1>1, <1>2, <1>5 DEF TablesTyped, Texts, Ids
<1>7. job'.step = "finish" /\ job'.chunks = job.chunks /\ job'.mentions = job.mentions
  BY <1>0, <1>1, JobGoesOn
<1>8. JobTyped'
  BY <1>1, <1>7, RunTyped DEF JobTyped, Chunked
<1> QED
  BY <1>6, <1>8

LEMMA NextTyped ==
    ASSUME Shape, TablesTyped, JobTyped, [Next]_cachesVars
    PROVE  TablesTyped' /\ JobTyped'
<1>0. JobShape
  BY DEF Shape
<1>1. ASSUME NEW n \in Notes, NEW b \in Bodies, NEW m \in Metas, Edit(n, b, m) PROVE TablesTyped' /\ JobTyped'
  BY <1>1, TablesStay, IdleTyped DEF Edit, local, caches, store
<1>2. ASSUME NEW c \in Settings, Restart(c) PROVE TablesTyped' /\ JobTyped'
  BY <1>2, RestartTyped
<1>3. CASE Fail \/ ChunkNothing
  BY <1>3, TablesStay, IdleTyped DEF Fail, ChunkNothing, local, caches, store
<1>15. CASE FailWriting
  <2>1. /\ job' = Idle /\ texts' = TextsWritten /\ applied' = applied \cup {"chunks"} /\ job.step = "write"
        /\ UNCHANGED <<conf, rows, held, cached, cachedFor, found, foundFor, vectors, graph, unwritten, unmentioned>>
    BY <1>15 DEF FailWriting, local, caches
  <2>2. DOMAIN texts' \subseteq Ids
    BY <2>1, TextsTyped DEF Chunked
  <2>3. TablesTyped'
    BY <2>1, <2>2 DEF TablesTyped, Texts, Ids
  <2> QED
    BY <2>1, <2>3, IdleTyped
<1>16. CASE WriteFrontmatter
  <2>1. /\ job' = Idle /\ applied' = applied \cup {"graph"}
        /\ UNCHANGED <<conf, rows, held, cached, cachedFor, found, foundFor, texts, vectors, graph, unwritten, unmentioned>>
    BY <1>16 DEF WriteFrontmatter, local, caches
  <2>2. TablesTyped'
    BY <2>1 DEF TablesTyped, Texts, Ids
  <2> QED
    BY <2>1, <2>2, IdleTyped
<1>4. ASSUME NEW n \in Notes, Clean(n) PROVE TablesTyped' /\ JobTyped'
  BY <1>4, CleanTyped
<1>5. ASSUME NEW n \in Notes, MetaOnly(n) PROVE TablesTyped' /\ JobTyped'
  <2>1. /\ job'.step \in {"embed", "frontmatter"} /\ job'.mentions = Nothing
        /\ job'.step = "embed" => job'.chunks = Only(rows, HeldBy(n))
    <3>1. CASE HeldBy(n) = {}
      BY <1>5, <3>1, JobOf DEF MetaOnly
    <3>2. CASE HeldBy(n) # {}
      <4>1. job' = [Idle EXCEPT !.step = "embed", !.note = n, !.chunks = Only(rows, HeldBy(n))]
        BY <1>5, <3>2 DEF MetaOnly
      <4>2. PICK had : had = Only(rows, HeldBy(n))
        OBVIOUS
      <4> QED
        BY <4>1, <4>2, JobOfChunks
    <3> QED
      BY <3>1, <3>2
  <2>2. TablesTyped'
    BY <1>5, TablesStay DEF MetaOnly, local, caches, store
  <2>3. job'.step \in Chunked => \A id \in DOMAIN job'.chunks : job'.chunks[id] \in Texts
    BY <2>1 DEF Only, TablesTyped, Chunked
  <2> QED
    BY <2>1, <2>2, <2>3, RunTyped DEF Nothing
<1>6. CASE Chunk
  BY <1>6, ChunkTyped
<1>7. CASE Extract
  BY <1>7, ExtractTyped
<1>8. CASE WriteGraph
  BY <1>8, WriteGraphTyped
<1>9. CASE SaveChunkPrint
  <2>1. job.step = "print" /\ job' = [job EXCEPT !.step = "embed"] /\ TablesTyped'
    BY <1>9, TablesStay DEF SaveChunkPrint, caches, store
  <2>2. job'.step = "embed" /\ job'.chunks = job.chunks /\ job'.mentions = job.mentions
    BY <1>0, <2>1, JobGoesOn
  <2>3. JobTyped'
    BY <2>1, <2>2, RunTyped DEF JobTyped, Chunked
  <2> QED
    BY <2>1, <2>3
<1>10. CASE EmbedChunks
  BY <1>10, EmbedTyped
<1>11. CASE WriteRows
  BY <1>11, WriteTyped
<1>12. CASE Finish
  <2>1. TablesTyped'
    BY <1>12, TablesStay DEF Finish, caches, store
  <2>2. job' = Idle \/ job' = [Idle EXCEPT !.step = "frontmatter", !.note = job.note]
    BY <1>12 DEF Finish
  <2>3. ASSUME job' # Idle PROVE JobTyped'
    <3>1. job'.step = "frontmatter" /\ job'.mentions = Nothing
      BY <2>2, <2>3, JobOf
    <3> QED
      BY <3>1, RunTyped DEF Nothing, Chunked
  <2> QED
    BY <2>1, <2>3, IdleTyped
<1>13. CASE Prune
  <2>1. /\ UNCHANGED <<conf, rows, held, cached, cachedFor, foundFor, texts, vectors, graph, resume, job>>
        /\ \E live : found' = Only(found, live \X {conf.sig})
    BY <1>13 DEF Prune, Pruned, local, store
  <2>2. DOMAIN found' \subseteq DOMAIN found
    BY <2>1 DEF Only
  <2>3. TablesTyped'
    BY <2>1, <2>2 DEF TablesTyped, Texts, Ids, resume
  <2>4. JobTyped'
    BY <2>1 DEF JobTyped, Texts
  <2> QED
    BY <2>3, <2>4
<1>14. CASE UNCHANGED cachesVars
  <2>1. TablesTyped'
    BY <1>14, TablesStay DEF cachesVars, resume
  <2>2. JobTyped'
    BY <1>14 DEF cachesVars, JobTyped, Texts
  <2> QED
    BY <2>1, <2>2
<1> QED
  BY <1>1, <1>2, <1>3, <1>4, <1>5, <1>6, <1>7, <1>8, <1>9, <1>10, <1>11, <1>12, <1>13, <1>14, <1>15, <1>16 DEF Next

-----------------------------------------------------------------------------
(* What follows                                                            *)

(* Every table is a function of what there is, each local chunk row has a  *)
(* note that holds it, and a run has what its step needs.                  *)
THEOREM TypeCorrect == Spec => []TypeOK
<1> DEFINE Inv == Shape /\ TablesTyped /\ JobTyped
<1>1. Init => Inv
  BY InitShape, InitTyped
<1>2. Inv /\ [Next]_cachesVars => Inv'
  BY NextShape, NextTyped
<1>3. Inv => TypeOK
  BY TypedIsTypeOK
<1> QED
  BY <1>1, <1>2, <1>3, PTL DEF Spec

(* Where suffixes tell the models apart, a stored vector is of one model,  *)
(* whatever models ran before and left in the component tables and in the  *)
(* embedding cache.                                                        *)
THEOREM OneModelEach ==
    ASSUME SuffixTells
    PROVE  Spec => []RowsOfOneModel
<1> DEFINE Inv == Shape /\ ModelInv
<1>1. Init => Inv
  BY InitShape, InitModel
<1>2. Inv /\ [Next]_cachesVars => Inv'
  BY NextShape, NextModel
<1>3. Inv => RowsOfOneModel
  BY DEF ModelInv
<1> QED
  BY <1>1, <1>2, <1>3, PTL DEF Spec

(* Where the token budget is never changed, a stored vector is the vector  *)
(* of the text stored under the same id, if one is, whoever wrote either   *)
(* and whichever of the two writes a process left out.                     *)
THEOREM VectorsOfTheirText ==
    ASSUME OneBudget
    PROVE  Spec => []RowsOfTheirText
<1> DEFINE Inv == Shape /\ TextInv /\ Whole
<1>1. Init => Inv
  BY InitShape, InitText
<1>2. Inv /\ [Next]_cachesVars => Inv'
  BY NextShape, NextText
<1>3. Inv => RowsOfTheirText
  BY DEF TextInv, RowsOfTheirText
<1> QED
  BY <1>1, <1>2, <1>3, PTL DEF Spec

LEMMA PrintTells ==
    ASSUME Shape, Whole, PrintInv
    PROVE  PrintMeansRow
<1> SUFFICES ASSUME NEW n \in Notes, NEW m \in Models, chunkPrint[n] # None, printed[Suffix[m]][n] = chunkPrint[n],
                    NEW id \in HeldBy(n), id[1] = chunkPrint[n]
             PROVE  \/ <<id, m>> \in unwritten
                    \/ /\ <<id, m>> \in DOMAIN vectors
                       /\ vectors[<<id, m>>].note = n => vectors[<<id, m>>].meta = metaPrint[Suffix[m]][n]
  BY DEF PrintMeansRow
<1>1. PICK b \in Bodies : HeldBy(n) = IdsOf(b)
  BY DEF Whole
<1>2. b = chunkPrint[n]
  BY <1>1 DEF IdsOf
<1> QED
  BY <1>1, <1>2 DEF PrintInv

(* Under both conditions a metadata fingerprint tells which rows the store *)
(* has, over edits taken back, failures of any step and other models, but  *)
(* for the rows that the resume state of the process withheld since they   *)
(* were last written.                                                      *)
THEOREM PrintsTell ==
    ASSUME SuffixTells, OneBudget
    PROVE  Spec => []PrintMeansRow
<1> DEFINE Inv == Shape /\ TextInv /\ Whole /\ PrintInv
<1>1. Init => Inv
  BY InitShape, InitText, InitPrint
<1>2. Inv /\ [Next]_cachesVars => Inv'
  BY NextShape, NextText, NextPrint
<1>3. Inv => PrintMeansRow
  BY PrintTells
<1> QED
  BY <1>1, <1>2, <1>3, PTL DEF Spec

LEMMA EntitiesTell ==
    ASSUME Shape, TextInv, Whole, EntityInv
    PROVE  EntitiesOfTheirText
<1>1. ASSUME NEW id \in DOMAIN graph, NEW e \in DOMAIN graph[id]
      PROVE  \E k \in Budgets : id[2] \in DOMAIN Pieces[<<id[1], k>>] /\ Pieces[<<id[1], k>>][id[2]] = e[1]
  <2>1. PICK b \in Bodies : id \in IdsOf(b)
    BY DEF EntityInv
  <2>2. id[1] = b /\ id[2] \in DOMAIN Cut(b)
    BY <2>1 DEF IdsOf
  <2>3. Cut(b)[id[2]] = e[1]
    BY <2>2 DEF EntityInv, TextOf
  <2>4. conf.budget \in Budgets
    BY DEF Shape, Types, Settings
  <2> QED
    BY <2>2, <2>3, <2>4 DEF Cut
<1>2. ASSUME NEW n \in Notes, NEW id \in HeldBy(n), id[1] = chunkPrint[n]
      PROVE  \E other \in HeldBy(n) : rows[other] = rows[id] /\ other \in DOMAIN graph \cup unmentioned
  <2>1. PICK b \in Bodies : HeldBy(n) = IdsOf(b)
    BY DEF Whole
  <2>2. b = chunkPrint[n] /\ b # None
    BY <1>2, <2>1, CachesAssumption DEF IdsOf, CachesAssumption
  <2>3. PICK other \in LastOf(b) : TextOf(other) = TextOf(id)
    BY <2>1, LastExists DEF Shape
  <2>4. other \in HeldBy(n) /\ other \in DOMAIN graph \cup unmentioned
    BY <2>1, <2>2, <2>3 DEF LastOf, EntityInv, Given
  <2>5. rows[other] = rows[id]
    BY <2>3, <2>4 DEF TextInv, HeldBy
  <2> QED
    BY <2>4, <2>5
<1> QED
  BY <1>1, <1>2 DEF EntitiesOfTheirText

(* Where the token budget is never changed, the entities of a chunk are    *)
(* those of its text, read now, taken from the cache or kept from before,  *)
(* and a remembered body has each of its texts mentioned, or withheld by   *)
(* the resume state of the process.                                        *)
THEOREM EntitiesAreOfTheirText ==
    ASSUME OneBudget
    PROVE  Spec => []EntitiesOfTheirText
<1> DEFINE Inv == Shape /\ TextInv /\ Whole /\ EntityInv
<1>1. Init => Inv
  BY InitShape, InitText, InitEntity
<1>2. Inv /\ [Next]_cachesVars => Inv'
  BY NextShape, NextText, NextEntity
<1>3. Inv => EntitiesOfTheirText
  BY EntitiesTell
<1> QED
  BY <1>1, <1>2, <1>3, PTL DEF Spec
=============================================================================
