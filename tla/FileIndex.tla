----------------------------- MODULE FileIndex -----------------------------
(***************************************************************************)
(* The trickle indexer (TrickleIndexer) and the per-file pipeline it       *)
(* drives (IndexingPipeline.index_file, _purge_file): a directory of notes *)
(* on one side, on the other the local SQLite state (fingerprints, chunk   *)
(* rows, chunk_file_paths) and the retrieval store that is searched.  The  *)
(* indexer is one sequence of steps; the notes change under it at will.    *)
(* A step is a read of the disk, a committed transaction, or the           *)
(* application of one Surreal manifest, as a whole or up to the phase that *)
(* fails.  The process has one resume state for all its manifests, so that *)
(* a phase is written for the first manifest that completes it and skipped *)
(* for every later one; the local fingerprints are saved all the same.     *)
(***************************************************************************)
EXTENDS Integers, Sequences, FiniteSets

CONSTANTS
    Files,          \* paths of notes
    Bodies,         \* what chunk_checksum tells apart: kind and body text
    Metas,          \* what meta_checksum tells apart: title and tags
    Chunks,         \* content-addressed chunk ids
    ChunksOf,       \* chunk_file: the chunks of a body, possibly none
    Absent,         \* disk[f] when there is no such file
    None,           \* no fingerprint, no tags, nothing read yet
    Bare,           \* the metadata of a FileInfo built from a watch event
    NoJob,
    Bounds          \* how often each hazard may occur: one of these holds

Hazards == {"edit", "race", "delete", "recreate", "crash", "failure", "unreadable",
            "restart"}

Contents == [body : Bodies, meta : Metas]

ASSUME FileIndexAssumption ==
    /\ ChunksOf \in [Bodies -> SUBSET Chunks]
    /\ Absent \notin Contents
    /\ None \notin Bodies \cup Metas
    /\ Bare \notin Metas
    /\ Bounds \subseteq [Hazards -> Nat]

VARIABLES
    disk,           \* the notes: path -> content or Absent
    chunkPrint,     \* chunk_fingerprints: path -> body or None
    metaPrint,      \* meta_fingerprints: path -> metadata or None
    held,           \* chunk_file_paths: pairs <<path, chunk>>
    chunks,         \* chunk ids with a row in the chunks table
    documents,      \* paths with a row in source_documents
    stored,         \* SurrealDB: chunk ids with a chunk row
    vectors,        \* SurrealDB: chunk ids with an embedding row
    tags,           \* SurrealDB graph: path -> metadata last written, or None
    applied,        \* the resume state of the process: the completed phases
    missed,         \* history: chunks not found, or not hidden, since the resume
                    \* state kept their last embedding or tombstone from the store
    mode,           \* "down", "stopped", "backlog", "watch" or "poll"
    scan,           \* step of _process_backlog: "discover", "diff" or "work"
    found,          \* discovered notes: path -> metadata, or None
    todo,           \* new and modified paths still to index in this scan
    gone,           \* deleted paths still to purge in this scan
    queue,          \* paths reported by the file system observer
    recent,         \* paths reported within the debounce interval
    job,            \* the index_file call in progress
    left            \* how often each hazard may still occur

local == <<chunkPrint, metaPrint, held, chunks, documents>>
surreal == <<stored, vectors, tags, applied, missed>>
loop == <<mode, scan, found, todo, gone>>
vars == <<disk, local, surreal, loop, queue, recent, job, left>>

Present(f) == disk[f] # Absent
HeldBy(f) == {c \in Chunks : <<f, c>> \in held}
Holders(c) == {f \in Files : <<f, c>> \in held}
Orphans(f) == {c \in Chunks : Holders(c) = {f}}
\* What a search can lead to: a hit is an embedding resolved to its chunk.
index == stored \cap vectors
Working == mode \in {"backlog", "watch", "poll"}
At(step) == job # NoJob /\ job.step = step

Spend(h) == left[h] > 0 /\ left' = [left EXCEPT ![h] = @ - 1]

NoScan == [f \in Files |-> None]

Init ==
    /\ disk \in [Files -> Contents \cup {Absent}]
    /\ chunkPrint = [f \in Files |-> None]
    /\ metaPrint = [f \in Files |-> None]
    /\ held = {}
    /\ chunks = {}
    /\ documents = {}
    /\ stored = {}
    /\ vectors = {}
    /\ tags = [f \in Files |-> None]
    /\ applied = {}
    /\ missed = {}
    /\ mode = "down"
    /\ scan = "discover"
    /\ found = NoScan
    /\ todo = {}
    /\ gone = {}
    /\ queue = <<>>
    /\ recent = {}
    /\ job = NoJob
    /\ left \in Bounds

-----------------------------------------------------------------------------
(* The notes and the file system observer                                  *)

\* The observer runs from before the backlog scan on.  Of the events of one
\* path within two seconds only the first is queued.
Notify(f) ==
    IF Working /\ f \notin recent
    THEN queue' = Append(queue, f) /\ recent' = recent \cup {f}
    ELSE UNCHANGED <<queue, recent>>

Busy(f) == job # NoJob /\ job.file = f

\* A note is created or edited: at rest, while it is being indexed, or where
\* a note that was indexed had been deleted.
Write(f, v) ==
    /\ disk[f] # v
    /\ disk' = [disk EXCEPT ![f] = v]
    /\ Spend(IF Busy(f) THEN "race"
             ELSE IF disk[f] = Absent /\ chunkPrint[f] # None THEN "recreate"
             ELSE "edit")
    /\ Notify(f)
    /\ UNCHANGED <<local, surreal, loop, job>>

Delete(f) ==
    /\ Present(f)
    /\ disk' = [disk EXCEPT ![f] = Absent]
    /\ Spend("delete")
    /\ Notify(f)
    /\ UNCHANGED <<local, surreal, loop, job>>

\* Two seconds pass.
Settle(f) ==
    /\ f \in recent
    /\ recent' = recent \ {f}
    /\ UNCHANGED <<disk, local, surreal, loop, queue, job, left>>

-----------------------------------------------------------------------------
(* The indexer: start, backlog scan, watch loop                            *)

\* purge_orphaned_files: paths with chunks whose note is not discovered.  Their
\* document and binding tombstones are shown by no variable here, but they
\* complete the tombstone phase of the new process.  A failure is logged.
Sweep ==
    \/ /\ applied' = IF \E f \in Files : HeldBy(f) # {} /\ ~Present(f)
                     THEN {"tombstones"} ELSE {}
       /\ UNCHANGED left
    \/ /\ \E f \in Files : HeldBy(f) # {}
       /\ applied' = {"tombstones"}
       /\ Spend("unreadable")
    \/ /\ applied' = {}
       /\ Spend("failure")

\* run: the lock is taken, the sweep made, the observer started.
Start ==
    /\ mode = "down"
    /\ mode' = "backlog"
    /\ scan' = "discover"
    /\ Sweep
    /\ UNCHANGED <<disk, local, stored, vectors, tags, missed, found, todo, gone, queue,
                   recent, job>>

\* discover_files_multi: the metadata of every note is read now.  A note that
\* cannot be read is left out.
Discover ==
    /\ mode \in {"backlog", "poll"} /\ scan = "discover"
    /\ \E unread \in SUBSET Files :
          /\ IF unread = {} THEN UNCHANGED left ELSE Spend("unreadable")
          /\ \A f \in unread : Present(f)
          /\ found' = [f \in Files |->
                         IF Present(f) /\ f \notin unread THEN disk[f].meta ELSE None]
    /\ scan' = "diff"
    /\ UNCHANGED <<disk, local, surreal, mode, todo, gone, queue, recent, job>>

Discovered == {f \in Files : found[f] # None}
Tracked == {f \in Files : chunkPrint[f] # None}
Vanished == {f \in Discovered \cap Tracked : ~Present(f)}

\* Mutant: an indexed note that changed is left to the watch events.
DiffNewOnly ==
    /\ mode \in {"backlog", "poll"} /\ scan = "diff"
    /\ Vanished = {}
    /\ gone' = Tracked \ Discovered
    /\ todo' = Discovered \ Tracked
    /\ scan' = "work"
    /\ UNCHANGED <<disk, local, surreal, mode, found, queue, recent, job, left>>

\* Mutant: a note that is missing is left to the watch events.
DiffKeepsMissing ==
    /\ mode \in {"backlog", "poll"} /\ scan = "diff"
    /\ Vanished = {}
    /\ todo' = {f \in Discovered :
                  f \in Tracked => disk[f].body # chunkPrint[f]}
    /\ scan' = "work"
    /\ UNCHANGED <<disk, local, surreal, mode, found, gone, queue, recent, job, left>>

\* FileTracker.diff on the chunk fingerprints.
Diff ==
    /\ mode \in {"backlog", "poll"} /\ scan = "diff"
    /\ Vanished = {}
    /\ gone' = Tracked \ Discovered
    /\ todo' = {f \in Discovered :
                  f \in Tracked => disk[f].body # chunkPrint[f]}
    /\ scan' = "work"
    /\ UNCHANGED <<disk, local, surreal, mode, found, queue, recent, job, left>>

\* diff stats a tracked note that is gone by now and raises.  The watch loop
\* goes on; before the watch loop nothing catches it and the indexer ends.
DiffRaises ==
    /\ mode \in {"backlog", "poll"} /\ scan = "diff"
    /\ Vanished # {}
    /\ mode' = IF mode = "poll" THEN "watch" ELSE "stopped"
    /\ scan' = "discover"
    /\ found' = NoScan
    /\ queue' = IF mode = "poll" THEN queue ELSE <<>>
    /\ recent' = IF mode = "poll" THEN recent ELSE {}
    /\ UNCHANGED <<disk, local, surreal, todo, gone, job, left>>

\* Mutant: the other holders of a chunk are not asked.
TombstoneSharedChunks(f) ==
    /\ applied' = IF f \in documents THEN applied \cup {"tombstones"} ELSE applied
    /\ stored' = IF "tombstones" \in applied THEN stored ELSE stored \ HeldBy(f)
    /\ vectors' = IF "tombstones" \in applied THEN vectors ELSE vectors \ HeldBy(f)
    /\ missed' = (missed \ Orphans(f))
                    \cup IF "tombstones" \in applied THEN Orphans(f) \cap index ELSE {}

\* _purge_file: in this mode only tombstones, for the document and for the
\* chunks no other path holds; fingerprints and rows of the local database
\* stay.  A path without a document has no manifest.
TombstoneChunks(f) ==
    /\ applied' = IF f \in documents THEN applied \cup {"tombstones"} ELSE applied
    /\ stored' = IF "tombstones" \in applied THEN stored ELSE stored \ Orphans(f)
    /\ vectors' = IF "tombstones" \in applied THEN vectors ELSE vectors \ Orphans(f)
    /\ missed' = (missed \ Orphans(f))
                    \cup IF "tombstones" \in applied THEN Orphans(f) \cap index ELSE {}

\* Deleted paths are purged first; one that fails is skipped.
PurgeGone(f) ==
    /\ scan = "work" /\ f \in gone
    /\ gone' = gone \ {f}
    /\ \/ TombstoneChunks(f) /\ UNCHANGED left
       \/ Spend("failure") /\ UNCHANGED <<stored, vectors, applied, missed>>
    /\ UNCHANGED <<disk, local, tags, mode, scan, found, todo, queue, recent, job>>

StartJob(f, m) ==
    job' = [file |-> f, meta |-> m, step |-> "diff", body |-> None]

IndexTodo(f) ==
    /\ scan = "work" /\ gone = {} /\ job = NoJob
    /\ f \in todo
    /\ todo' = todo \ {f}
    /\ StartJob(f, found[f])
    /\ UNCHANGED <<disk, local, surreal, mode, scan, found, gone, queue, recent, left>>

FinishScan ==
    /\ scan = "work" /\ gone = {} /\ todo = {} /\ job = NoJob
    /\ mode' = "watch"
    /\ scan' = "discover"
    /\ found' = NoScan
    /\ UNCHANGED <<disk, local, surreal, todo, gone, queue, recent, job, left>>

\* The watch loop drains the queue: a path that does not exist is purged, ...
PurgeQueued ==
    /\ mode = "watch" /\ job = NoJob
    /\ queue # <<>> /\ ~Present(Head(queue))
    /\ queue' = Tail(queue)
    /\ \/ TombstoneChunks(Head(queue)) /\ UNCHANGED left
       \/ Spend("failure") /\ UNCHANGED <<stored, vectors, applied, missed>>
    /\ UNCHANGED <<disk, local, tags, loop, recent, job>>

\* ... any other is indexed from a FileInfo without frontmatter.
IndexQueued ==
    /\ mode = "watch" /\ job = NoJob
    /\ queue # <<>> /\ Present(Head(queue))
    /\ queue' = Tail(queue)
    /\ StartJob(Head(queue), Bare)
    /\ UNCHANGED <<disk, local, surreal, loop, recent, left>>

\* The poll interval passes with nothing queued.
Poll ==
    /\ mode = "watch" /\ job = NoJob /\ queue = <<>>
    /\ mode' = "poll"
    /\ UNCHANGED <<disk, local, surreal, scan, found, todo, gone, queue, recent, job, left>>

-----------------------------------------------------------------------------
(* index_file                                                              *)

JobDone == job' = NoJob
JobGoes(step) == job' = [job EXCEPT !.step = step]

\* The chunks the embed phase works on: those just written, or the stored
\* ones when only the metadata changed.
JobChunks == IF job.body = None THEN HeldBy(job.file) ELSE ChunksOf[job.body]

\* Mutant: rows that another path holds are deleted too.
CleanUpShared ==
    /\ At("diff") /\ Present(job.file)
    /\ chunkPrint[job.file] # disk[job.file].body
    /\ held' = {h \in held : h[1] # job.file}
    /\ chunks' = chunks \ HeldBy(job.file)
    /\ JobGoes("read")
    /\ UNCHANGED <<disk, chunkPrint, metaPrint, documents, surreal, loop, queue, recent, left>>

\* Mutant: the fingerprint is saved with the clean-up.
CleanUpAndFingerprint ==
    /\ At("diff") /\ Present(job.file)
    /\ chunkPrint[job.file] # disk[job.file].body
    /\ held' = {h \in held : h[1] # job.file}
    /\ chunks' = chunks \ Orphans(job.file)
    /\ chunkPrint' = [chunkPrint EXCEPT ![job.file] = disk[job.file].body]
    /\ JobGoes("read")
    /\ UNCHANGED <<disk, metaPrint, documents, surreal, loop, queue, recent, left>>

\* The body is new or changed.  _holder_aware_chunk_cleanup, in one
\* transaction: the path lets go of its chunks, and the rows of those no
\* other path holds are deleted.
CleanUp ==
    /\ At("diff") /\ Present(job.file)
    /\ chunkPrint[job.file] # disk[job.file].body
    /\ held' = {h \in held : h[1] # job.file}
    /\ chunks' = chunks \ Orphans(job.file)
    /\ JobGoes("read")
    /\ UNCHANGED <<disk, chunkPrint, metaPrint, documents, surreal, loop, queue, recent, left>>

\* The body is as fingerprinted: only the metadata can need work.  A path
\* without stored chunks is not embedded.
CheckMeta ==
    /\ At("diff") /\ Present(job.file)
    /\ chunkPrint[job.file] = disk[job.file].body
    /\ IF metaPrint[job.file] = disk[job.file].meta THEN JobDone
       ELSE JobGoes(IF HeldBy(job.file) = {} THEN "frontmatter" ELSE "embed")
    /\ UNCHANGED <<disk, local, surreal, loop, queue, recent, left>>

\* The file is read again and chunked; the source document, chunk rows and
\* chunk_file_paths are inserted in one transaction.
ReadAndInsert ==
    /\ At("read") /\ Present(job.file)
    /\ LET body == disk[job.file].body
           new == ChunksOf[body]
       IN /\ held' = held \cup {<<job.file, c>> : c \in new}
          /\ chunks' = chunks \cup new
          /\ documents' = IF new = {} THEN documents ELSE documents \cup {job.file}
          /\ job' = [job EXCEPT !.body = body,
                        !.step = IF new = {} THEN "chunk fingerprint" ELSE "graph"]
    /\ UNCHANGED <<disk, chunkPrint, metaPrint, surreal, loop, queue, recent, left>>

\* The graph phase of a manifest, unless an earlier manifest completed it.
GraphManifest ==
    /\ tags' = IF "graph" \in applied THEN tags ELSE [tags EXCEPT ![job.file] = job.meta]
    /\ applied' = applied \cup {"graph"}
    /\ UNCHANGED <<stored, vectors, missed>>

\* Extraction, then the graph manifest.
WriteGraph ==
    /\ At("graph")
    /\ GraphManifest
    /\ JobGoes("chunk fingerprint")
    /\ UNCHANGED <<disk, local, loop, queue, recent, left>>

\* Mutant: the early return for a note without chunks saves nothing.
SaveFingerprintOfChunks ==
    /\ At("chunk fingerprint")
    /\ chunkPrint' = IF Present(job.file) /\ JobChunks # {}
                     THEN [chunkPrint EXCEPT ![job.file] = disk[job.file].body]
                     ELSE chunkPrint
    /\ IF JobChunks = {} THEN JobDone ELSE JobGoes("embed")
    /\ UNCHANGED <<disk, metaPrint, held, chunks, documents, surreal, loop, queue, recent, left>>

\* _save_fingerprint takes the checksum of the file as it is now; a file that
\* has gone keeps its old fingerprint.
SaveChunkFingerprint ==
    /\ At("chunk fingerprint")
    /\ chunkPrint' = IF Present(job.file)
                     THEN [chunkPrint EXCEPT ![job.file] = disk[job.file].body]
                     ELSE chunkPrint
    /\ IF JobChunks = {} THEN JobDone ELSE JobGoes("embed")
    /\ UNCHANGED <<disk, metaPrint, held, chunks, documents, surreal, loop, queue, recent, left>>

\* The phases P of the note's manifest, each unless an earlier manifest
\* completed it.
PutRows(P) ==
    /\ stored' = IF "chunks" \in P \ applied THEN stored \cup JobChunks ELSE stored
    /\ vectors' = IF "embeddings" \in P \ applied THEN vectors \cup JobChunks ELSE vectors
    /\ applied' = applied \cup P

RowPhases == {"chunks", "embeddings"}

\* _index_file_embed: vectors are computed, the file is read once more for
\* its source document, and the manifest is applied.
Embed ==
    /\ At("embed") /\ Present(job.file)
    /\ PutRows(RowPhases)
    /\ missed' = (missed \ JobChunks)
                    \cup IF RowPhases \cap applied = {} THEN {} ELSE JobChunks \ index'
    /\ JobGoes("meta fingerprint")
    /\ UNCHANGED <<disk, local, tags, loop, queue, recent, left>>

\* _save_meta_fingerprint, which takes the checksum of the file as it is now.
SaveMetaFingerprint ==
    /\ At("meta fingerprint")
    /\ metaPrint' = IF Present(job.file)
                    THEN [metaPrint EXCEPT ![job.file] = disk[job.file].meta]
                    ELSE metaPrint
    /\ IF job.body = None THEN JobGoes("frontmatter") ELSE JobDone
    /\ UNCHANGED <<disk, chunkPrint, held, chunks, documents, surreal, loop, queue, recent, left>>

\* _frontmatter_to_graph, when only the metadata changed.
WriteFrontmatter ==
    /\ At("frontmatter")
    /\ GraphManifest
    /\ JobDone
    /\ UNCHANGED <<disk, local, loop, queue, recent, left>>

\* A step that reads the file finds it gone and raises.
FileGone ==
    /\ job # NoJob /\ job.step \in {"diff", "read", "embed"}
    /\ ~Present(job.file)
    /\ JobDone
    /\ UNCHANGED <<disk, local, surreal, loop, queue, recent, left>>

\* Extraction, the embedding server or SurrealDB fails: the exception is
\* logged and the loop takes the next file.  A manifest that fails has been
\* applied, and recorded, up to some phase.
JobFails ==
    /\ job # NoJob
    /\ Spend("failure")
    /\ JobDone
    /\ \/ UNCHANGED surreal
       \/ /\ At("embed") /\ Present(job.file)
          /\ PutRows({"chunks"}) \/ PutRows(RowPhases)
          /\ UNCHANGED <<tags, missed>>
       \/ (At("graph") \/ At("frontmatter")) /\ GraphManifest
    /\ UNCHANGED <<disk, local, loop, queue, recent>>

\* What is only in memory goes with the process.
ProcessEnds ==
    /\ mode # "down"
    /\ mode' = "down"
    /\ applied' = {}
    /\ scan' = "discover"
    /\ found' = NoScan
    /\ todo' = {}
    /\ gone' = {}
    /\ queue' = <<>>
    /\ recent' = {}
    /\ JobDone
    /\ UNCHANGED <<disk, local, stored, vectors, tags, missed>>

\* The process dies; what was committed stays.
Crash == Spend("crash") /\ ProcessEnds

\* The service is shut down, which the indexer heeds between two files.
Stop == job = NoJob /\ gone = {} /\ Spend("restart") /\ ProcessEnds

-----------------------------------------------------------------------------
IndexFile ==
    \/ CleanUp \/ CheckMeta \/ ReadAndInsert \/ WriteGraph \/ SaveChunkFingerprint
    \/ Embed \/ SaveMetaFingerprint \/ WriteFrontmatter \/ FileGone

Trickle ==
    \/ Start \/ Discover \/ Diff \/ DiffRaises
    \/ FinishScan \/ PurgeQueued \/ IndexQueued \/ Poll
    \/ \E f \in Files : PurgeGone(f) \/ IndexTodo(f)
    \/ IndexFile

Environment ==
    \/ \E f \in Files : Delete(f) \/ Settle(f)
    \/ \E f \in Files, v \in Contents : Write(f, v)
    \/ JobFails \/ Crash \/ Stop

Next == Trickle \/ Environment

Spec == Init /\ [][Next]_vars

\* The indexer is a loop of its own thread, restarted when the process dies:
\* it keeps taking steps.  Nothing is assumed of the notes and the failures.
FairSpec == Spec /\ WF_vars(Trickle)
-----------------------------------------------------------------------------
Steps == {"diff", "read", "graph", "chunk fingerprint", "embed",
          "meta fingerprint", "frontmatter"}

TypeOK ==
    /\ disk \in [Files -> Contents \cup {Absent}]
    /\ chunkPrint \in [Files -> Bodies \cup {None}]
    /\ metaPrint \in [Files -> Metas \cup {None}]
    /\ held \subseteq Files \X Chunks
    /\ chunks \subseteq Chunks
    /\ documents \subseteq Files
    /\ stored \subseteq Chunks
    /\ vectors \subseteq Chunks
    /\ applied \subseteq RowPhases \cup {"tombstones", "graph"}
    /\ missed \subseteq Chunks
    /\ tags \in [Files -> Metas \cup {Bare, None}]
    /\ mode \in {"down", "stopped", "backlog", "watch", "poll"}
    /\ scan \in {"discover", "diff", "work"}
    /\ found \in [Files -> Metas \cup {None}]
    /\ todo \subseteq Files
    /\ gone \subseteq Files
    /\ queue \in Seq(Files)
    /\ recent \subseteq Files
    /\ job \in [file : Files, meta : Metas \cup {Bare}, step : Steps,
                body : Bodies \cup {None}] \cup {NoJob}
    /\ left \in [Hazards -> Nat]

\* A chunk has a row in the chunks table exactly while some path holds it,
\* whatever was interrupted: no orphan rows, no pointer to a missing row.
RowsMatchHolders == chunks = {h[2] : h \in held}

\* The chunk fingerprint makes every later scan skip the note.  It is written
\* only when the rows of the version that was read are committed.
FingerprintAfterRows ==
    [][\A f \in Files : chunkPrint'[f] # chunkPrint[f] =>
          /\ Busy(f)
          /\ job.body # None
          /\ HeldBy(f) = ChunksOf[job.body]]_vars

\* The metadata fingerprint is what stops a note from being embedded again.
\* When it is written every chunk of the note can be found, but for those that
\* the resume state of the process kept from the store.
MetaFingerprintAfterIndex ==
    [][\A f \in Files : metaPrint'[f] # metaPrint[f] => HeldBy(f) \subseteq index \cup missed]_vars

\* Purging one note never takes away a chunk that another note, on disk and
\* not found missing by the scan, holds as well.
PurgeSparesLiveNotes ==
    [][\A f \in Files \ gone :
          Present(f) => HeldBy(f) \cap index \subseteq index']_vars

\* Not stopped for good by DiffRaises.
Runs == []<>(mode # "stopped")

\* Whatever fails or crashes, a note that stays on disk is fingerprinted as
\* it is: the scans come back to it until it went through.
EventuallyFingerprinted ==
    Runs => \A f \in Files, v \in Contents :
                <>[](disk[f] = v) => <>[](chunkPrint[f] = v.body)

\* A note that stays on disk unchanged is eventually searchable for good, but for
\* chunks the resume state kept from the store.
EventuallySearchable ==
    Runs => \A f \in Files, v \in Contents :
                <>[](disk[f] = v) => <>[](ChunksOf[v.body] \subseteq index \cup missed)

\* That holds however the scans, the watch events and the restarts fall, as long as
\* nothing fails and no note changes under the indexer or comes back: of the
\* behaviours that begin with none of these to come, only the resume state loses
\* a note.
Calm == \A h \in Hazards \ {"edit", "delete", "restart"} : left[h] = 0
SearchableIfCalm == Calm => EventuallySearchable

\* Whatever fails or crashes, the chunks of an indexed note that is deleted for
\* good, held by no other path, leave the index, but for those whose tombstones
\* the resume state kept from the store.
DeletedIsHidden ==
    Runs => \A f \in Files, c \in Chunks :
                <>[](~Present(f) /\ chunkPrint[f] # None /\ Holders(c) = {f})
                    => <>[](c \notin index \ missed)

\* Every note that stays is eventually searchable, resume state or not, ...
EventuallyFound ==
    Runs => \A f \in Files, v \in Contents :
                <>[](disk[f] = v) => <>[](ChunksOf[v.body] \subseteq index)

\* ... and a deleted one hidden.
EventuallyHidden ==
    Runs => \A f \in Files, c \in Chunks :
                <>[](~Present(f) /\ chunkPrint[f] # None /\ Holders(c) = {f})
                    => <>[](c \notin index)

\* The same for a chunk several paths hold, once all of them are deleted.
DeletedWithCopiesIsHidden ==
    Runs => \A c \in Chunks :
                <>[](Holders(c) # {} /\ \A f \in Holders(c) : ~Present(f))
                    => <>[](c \notin index \ missed)

\* A chunk of a note's former body, in no note's present body, leaves the
\* index once the notes are left alone.
ReplacedIsHidden ==
    Runs => \A c \in Chunks :
                <>[](\A f \in Files : Present(f) /\ c \notin ChunksOf[disk[f].body])
                    => <>[](c \notin index \ missed)

\* While no call is in progress, a note whose metadata fingerprint is current
\* has its title and tags in the graph.
TagsShown ==
    \A f \in Files :
        job = NoJob /\ Present(f) /\ metaPrint[f] = disk[f].meta
            => tags[f] = disk[f].meta
=============================================================================
