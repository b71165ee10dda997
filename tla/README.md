# dotMD in TLA+

dotMD indexes a directory of notes, and messages of application sources such as
Telegram, into SurrealDB and searches them. This directory holds TLA+ modules of
it, TLC configurations that check them on small instances, and proofs that TLAPS
checks for every instance. Paths are relative to `src/backend/src/dotmd/` unless
they start with `docs/`, `tests/`, `.planning/` or `devtools/` (`src/backend/devtools/`).

Run a model with `tlc -workers 2 -config <X>.cfg <MC module>.tla`, check a proof
with `tlapm <Module>.tla`. `PROJECT.json` lists the runs, the mutants, the lines
each definition stands for, the hazards and the theorems.

## 1. The system

| Part | State it keeps | Operations | Talks to | What makes it hard | Module |
|---|---|---|---|---|---|
| Trickle indexer (`ingestion/trickle.py`) | queue of paths, debounce times, mode | start, backlog scan, observer events, watch loop, poll | per-file pipeline (thread pool), file system observer | notes change at any time, events are dropped, the process is restarted | `FileIndex` |
| Per-file pipeline (`ingestion/pipeline.py`: `index_file`, `_purge_file`) | local chunk rows, holders (`chunk_file_paths`), two fingerprint tables | clean-up, read and insert, graph, embed, purge | metadata store, synchroniser, model servers | several transactions and manifests per note, each may be the last before a crash | `FileIndex`, `ChunkCaches` |
| Bulk command (`ingestion/pipeline.py`: `index`) and orphan sweep | documents, bindings, holders, fingerprints | discover, diff, hide, purge, rebind, chunk, embed, graph, fingerprint | the same, stage by stage for all notes | a failure or an edit between two stages | `BulkIndex` |
| Manifest synchroniser (`ingestion/surreal_delta_sync.py`) | resume state (completed phases), one for all manifests of a process | apply a manifest in 13 phases and batches | SurrealDB | no transaction around the whole; retries, and every later manifest, skip what is completed | `DeltaSync` |
| Application source ingest (`ingestion/pipeline.py`: `_ingest_application_source`) | checkpoint, unit fingerprints, chunk rows | export, classify, apply manifest, local transaction | provider, synchroniser, metadata store | external write first, then a transaction, then the cursor | `SourceIngest`, `LocalStore` |
| Telegram poller (`mcp_server.py`) | none | ingest again and again | source ingest, on the search executor | shares the connection with other threads and the worker with searches | `SourceIngest`, `LocalStore`, `Search` |
| SQLite connection, metadata store, trackers (`storage/metadata.py`, `ingestion/file_tracker.py`) | all local tables, one transaction | statements, BEGIN, COMMIT, ROLLBACK, `commit()` | everyone | one transaction for all threads | `SqliteConnection`, `LocalStore` |
| Search service (`api/service.py`) | cached preconditions | candidate pool, fusion, rerank, merge, hydrate; read and drill | engines, providers, poller | pool loop, quotas, ties, an index that changes between queries | `Search`, `LocalStore` |
| Retrieval engines (`search/surreal_*.py`, `fusion.py`, `reranker.py`) | precondition, entity catalog | vector, full text, graph, fuse, rerank | SurrealDB | limits, shards, ties, foreign rows | `Retrieval` |
| Federated search (`search/federated.py`) | none | fan-out with a soft timeout | providers | late answers, threads that hang | `Search` |
| Caches (`storage/cache.py`, `storage/vec_components.py`, `extraction/ner.py`) | embeddings, components and extractions by content | lookup and store of batches, pruning, clearing | pipeline | equal texts, model changes | `ChunkCaches` |
| Surreal schema and index build (`storage/surreal_schema.py`, `devtools/surreal_index_build_runner.py`) | tables, indexes, version | inspect, apply; define and rebuild in workers | SurrealDB | statement by statement, several processes, timeouts | `SchemaIndex` |
| Completeness audit, backfill, shard copy (`devtools/surreal_*.py`) | reports | audit, embed what is missing, copy to shards | SurrealDB beside writers | lists that are stale when used | `Coverage` |
| OAuth state (`auth.py`) | clients, codes, tokens in a JSON file | register, pair, exchange, rotate, revoke | MCP server, pairing command | whole-file replacement, two processes | `OAuth` |
| Snapshot import, backup rehearsal (`storage/surreal_ops.py`, ...) | backups, reports | import, verify, restore | SurrealDB, SQLite | partial failure of a long command | - |
| Source lifecycle (`ingestion/source_lifecycle.py`, ...) | bundles | build, guard | service | configuration errors | - |
| Chunker, extraction, CLI, settings, models | - | pure or I/O | - | - | parts in `ChunkCaches` |

What each part must satisfy:

* **Synchroniser.** A call that returns has applied its manifest; the checkpoint
  is last; a row never precedes the row it points at; a phase marked completed is.
* **Indexer, pipeline and bulk command.** What is on disk becomes searchable and
  what is deleted does not stay; rows and holders agree; a fingerprint is never
  ahead of the work it stands for; a purge takes nothing another note needs; what
  is found can be read.
* **Source ingest and local store.** Checkpoint and fingerprints never claim what
  is not there; a batch is durable as a whole; the checkpoint never goes back; what
  is on record can be read, whatever was reset, wiped or rebuilt.

  The code does not keep the first clause of each of these, because of the resume
  state (below). What is checked and proved is what it does keep.
* **Caches.** A vector is of the text and the model it is stored under; a chunk has
  the entities of its own text; "unchanged" is said of what has its rows.
* **Search.** Every search ends; the pool loop ends with enough candidates or
  exhausted engines; a result was visible during the search; the merge has the
  promised size and takes nothing from a source that answered too late.
* **OAuth.** The file is whole at every step, loses nothing that was handed out,
  and every code is redeemed once.
* **Schema and coverage.** The version promises no table or index that is missing;
  "verified" is said of what is built; an exact audit is right about what was left
  alone while it ran; repair converges.

### The resume state

`IndexingPipeline` makes one `SurrealDeltaSyncState` (`pipeline.py:583`) and hands it to
every manifest it applies (`pipeline.py:2602-2606`, the only caller). The synchroniser
skips each phase that the state lists as completed (`surreal_delta_sync.py:1427-1440`),
and nothing ever takes a phase off the list. So a phase is written for the first manifest
of a process that completes it, and for no later one; the caller sees a call that
returned, and saves its fingerprints and checkpoints. This is the most important thing the
models say of this code, and all of them have it:

* `completed` in `DeltaSync`, `applied` in `FileIndex`, `BulkIndex`, `SourceIngest` and
  `ChunkCaches` is that state: memory of the process, empty when it starts. A manifest
  writes a phase unless it is there; a manifest that fails behind a phase leaves it there.
* `inherited` in `DeltaSync` and `missed` (in `ChunkCaches` `unwritten` and `unmentioned`)
  in the others are history: the phases that earlier manifests completed, and the chunks,
  notes or rows that a skipped phase has kept out of the store, or left in it, since
  they were last written or hidden. No action reads them.
* The properties that say something reaches or leaves the store say so but for that
  history: *nothing else* loses a row. The same properties without it are stated next to
  them; they fail, one of them in a run of its own (`source_ingest_shared`).

What survives: all that is said of the local tables, fingerprints against local rows,
refinements of the local state, which chunks a purge spares, and that what *is* in the
store is of the right text, model and holder. What one gets back: the histories are
cleared when the rows are written by a later process, so a chunk in `missed` is found
again after a restart if the note is indexed again first, for which a fingerprint must
change.

## 2. The modules

| Module | Models |
|---|---|
| `DeltaManifest` | a manifest, its sections, phases and their rows (`SurrealDeltaManifest`, `_manifest_units`) |
| `ManifestApply` | abstract: what applying one manifest promises |
| `DeltaSync` | `run_surreal_delta_sync` and `SurrealDeltaStoreWriter`; implements `ManifestApply` |
| `FileIndex` | `TrickleIndexer`, `index_file`, `_purge_file`, `FileTracker` |
| `BulkIndex` | `IndexingPipeline.index`, rebinding and hiding of notes, `purge_orphaned_files`, what a read goes by |
| `ChunkCaches` | embedding cache, extraction cache, vector components and the two fingerprints over changes of settings |
| `SqliteConnection` | one `sqlite3` connection in autocommit mode (external, from how the code uses it) |
| `SourceFeed` | abstract: the durable state of an ingest moves from batch to batch |
| `SourceIngest` | `_run_telegram_poller`, `_ingest_application_source` and the transactions of `index_file`, on one `SqliteConnection`; implements `SourceFeed` when the poller is alone |
| `LocalStore` | the local index over the life of several processes: schema sentinel and wipe, poller, readers, searches' back-fill, reset and `index --force`, on one `SqliteConnection` |
| `Retrieval` | the engines, fusion, blend and merge as operators |
| `Search` | `search_async`: the local search on the one worker, federated sources in threads |
| `OAuth` | `DotMDOAuthProvider` and the pairing command on one file |
| `SchemaIndex` | schema inspection and application, the index build runner |
| `Coverage` | completeness audit, embedding backfill, shard copy |
| `MC...` | instances for TLC |
| `SurrealProofs` (of `DeltaSync`, `SchemaIndex` and `Coverage`), `FileIndexProofs`, `SourceIngestProofs`, `LocalStoreProofs`, `OAuthProofs`, `ChunkCachesProofs`, `BulkIndexProofs`, `SearchProofs` | theorems and proofs |

The modules cut the system where the code does: `DeltaSync` promises that the phases of a
manifest that the resume state lets through are applied as a whole, and `FileIndex`,
`BulkIndex`, `SourceIngest` and `ChunkCaches` take them as a step; `FileIndex` promises
one note at a time, and `ChunkCaches` and `LocalStore` take its steps together. Each cut
is named below with the module.

There is one indexer at a time in every model. The code leaves that to the operator:
the server's indexer takes a lock on the index directory (`ingestion/trickle.py:202`),
which `index` never asks for, though `ingestion/trickle.py:184-187` says that CLI
commands cannot run beside it and `cli.py:107` catches the error they would get.

### DeltaSync

`store` is SurrealDB as a function from rows to payloads, `checkpoint` its checkpoint row.
`manifest`, `status`, `phase`, `written` are the call in progress; `completed` is
`SurrealDeltaSyncState.completed_phases`, `inherited` (history) what it was when the
manifest was first tried. `Begin`, `Retry`, `Fail` and `Crash` surround the call; `Begin`
hands the state as it is to another manifest; `SkipPhase`, `DeleteTombstone`, `UpsertRow`,
`DeleteStaleRelation`, `UpsertNode`, `InsertRelations`, `WriteCheckpoint`, `FinishPhase`
and `Return` are its statements. A statement the code skips because the row is the same
stutters. `ManifestApply` has the state too: what it promises of a call that returns is
`AppliedBut(inherited, ...)`. `InsertRelations` replaces rows that exist, as the
repository's test double does (`tests/ingestion/test_surreal_delta_sync.py:748-770`).

### FileIndex

`disk` is the notes. `chunkPrint`, `metaPrint`, `held`, `chunks` are the local
tables: fingerprints, `chunk_file_paths` and chunk rows, `documents` the paths with a
source document. `stored` and `vectors` are the chunks with a chunk row and with an
embedding row in SurrealDB, `index` those with both, `tags` the metadata in its graph. `mode`,
`scan`, `found`, `todo`, `gone`, `queue`, `recent` are the loop; `job` is the
`index_file` call in progress with the step it is at. An action is a read of the
disk, a committed transaction or the application of one manifest. A body stands for
what `chunk_checksum` covers, a meta for what `meta_checksum` covers; `Bare` is the
metadata of a `FileInfo` made from a watch event.

Abstracted: the mtime and size shortcut of `diff`; document and binding rows and
vector components (a hit in SurrealDB is resolved by its chunk row alone:
`storage/surreal.py:401-406`); the wait that puts a path taken from the queue back
at its end. Of a shutdown only its effect is there (`Stop`: between two files, what is in
memory is gone). `Sweep` is the orphan sweep of the start, for what it does to the resume
state of the new process: its tombstones are of documents and bindings, which are in
`BulkIndex`. An empty file, or one that cannot be read, is not discovered.

### BulkIndex

`run` is a run of the command: `work` says for each stage which notes it still has to do,
in the order of `Stages`; `found` is what discovery saw, `text` what was read. `docs`,
`binding`, `held`, `body`, `meta` are the local tables, `bound` and `rows` the retrieval
store, with its phases folded to three: tombstones, a note's own rows, the graph. `Begin`
starts with an empty resume state (the command is a process of its own) or goes on with
the one there is (the server's endpoint, `api/server.py`). `Begin` is `discover` and
`diff`; `Hide`/`Unbind`, `Purge`, `Rebind`/`SkipRebind`, `Read`, `Save`, `Document`,
`Embed`, `Bind`, `Graph`, `PrintBody`/`PrintMeta` and `Existing` are the stages; `Vanish`
is a note that is gone when a stage reads it, `Stop` any other failure or the death of the
process, `Sweep` the orphan sweep of a starting server. `Readable` is `DotMDService.read`,
which asks the local rows alone. A step is a committed local transaction or one whole
manifest. The history `torn` names notes written or deleted under a run, or caught
half-way by a stop: a run that goes through afterwards need not have repaired them (a
purge of a modified note, then a failure and the old text back: "unchanged", and hidden).
The history `missed` names notes of whose manifests the resume state withheld a phase.

### ChunkCaches

A vector is what went into it: the text and the model that encoded it, and once fused
the note, its metadata and their model. `rows`, `held`, `parts`, `chunkPrint` and
`metaPrint` are local tables (one fingerprint table for all models, one per table
suffix), `cached` and `found` the two caches with their sentinels, `texts`, `vectors`
and `graph` the retrieval store. `Clean`, `Chunk`, `Extract`, `WriteGraph`,
`SaveChunkPrint`, `EmbedChunks`, `WriteRows`, `Finish` are `index_file`, `MetaOnly` its
short cut for changed metadata, `EmbedExisting` that of the bulk command, `Prune` the
maintenance, `Restart` a process with other settings. `printed` is history: the body
of the chunks the metadata fingerprint was saved for, which is not always the body the
note has by then; so are `unwritten` and `unmentioned`. `FailWriting` is a manifest that
fails between its chunks and its embeddings. An edit while a note is indexed is left to
`FileIndex`. Which texts a body is cut into and what a model names in a text are
constants (`Pieces`, `Spans`).

### SourceIngest

`log` is the source: each entry is a change of a unit, and the entry's place stands
for the unit's fingerprint, its chunk and the cursor. The cursor stands for the
checkpoint row as a whole (`checkpoint_cursor`, `updated_after`). `db`, `durable`
and `tx` are the connection: what is read, what survives a crash, whether a
transaction is open. `pc` is the step of each thread; `batch`, `fresh`, `todo`,
`since` are the poller's locals. `Hidden` units get no chunk of their own
(`standalone_search` is false). Each BEGIN, COMMIT and ROLLBACK that may raise has
both outcomes; which handler catches it depends on whether the BEGIN stands inside
the `try` (clean-up of `index_file`) or before it (everywhere else). The `commit()`
inside `ensure_..._table` is an action, because it commits whoever's transaction.
The indexer appears only with its transactions; its whole is `FileIndex`. The other
statements and `commit()` calls of the embed phase behave as `SaveFingerprint` and
`CommitFingerprint` do. Its manifest is there (`EmbedFile`) because it completes phases of
the resume state that the poller's manifests then find completed.

### LocalStore

The same tables over the life of processes, without SurrealDB. `db.cache` and
`db.part` hold the schema version under which a vector was made, `db.sentinel` the
schema sentinel, `db.note` which rows of the one note exist. `Start`,
`CheckSchemaVersion` and `Wipe` are `_check_schema_version` with its four committed
steps; a process may also start a command that does not check (`repair`). `ResetIndex`
is `telegram reset-index`, `FullIndex` the drops of `index --force`, `IndexNote` the
indexer. The poller's batch is one message, statement by statement (`UpsertDocument`
... `CommitBatch`, `Fail`). `Ask` ... `ReadChunks` are a read or a drill of a message
in its own thread; `StartSearch` ... `Hydrate` are what a search does on the
connection (`_ensure_source_provenance_ready`, hydration) and take turns with batches
on the one worker. Every `ensure_...` ends with `commit()` (`Ensure`).

Abstracted: batches of several messages and messages without a chunk (`SourceIngest`);
the steps of the indexer (`FileIndex`): the note is indexed when no transaction is
open, and its file stays on disk; what the provider answers; the sentinel of the fusion
weights, whose wipe is a part of the same kind. An older release never runs after a newer
one. No code makes the binding of a dialog inactive.
`spoiled` is history: a read has committed an open batch. `kept` is history: a start took
an index that has cached vectors and nothing else for empty.

### Retrieval and Search

The engines are functions of what they read: `Semantic` (per shard, strategy compared
after the limit, score floor), `Keyword` (titles and texts as two queries), `GraphDirect`
(relations outlive chunks), `FusedScore`/`Fused`, `Reranked`/`Blended`, `Merge`. Sorting
and filtering are `Ordered` and `Kept`, by the ranks of elements and places. Scores
are integers, fused scores fixed-point, ties broken as the code breaks them.

`req[r]` is a request with its step; `queue` and `worker` are the single-threaded
executor, which the poller shares (`Poll`, `PollEnd`). `SearchSemantic`,
`SearchKeyword`, `SearchGraph`, `LoadProvenance`, `FilterActive` (with its loop back to
a pool twice as large), `Rerank` and `BuildCandidates` are one query each, and `Sync`
changes the store between any two. `CallStart`, `CallEnd` and `Timeout` are a source's
call in a thread of the default executor: the timeout ends the wait, not the thread.
`Respond` merges. `seen` and `quiet` are history. Not modelled: query expansion,
snippets, modes other than hybrid, status. Unused by the service at run time, and so
left out: `_run_local_search_sequence`, `_run_local_engine`,
`_build_candidates_with_federated`, the LadybugDB engines, `SemanticSearchEngine.search`.

### OAuth

`file` is `oauth_state.json`, `tmp` the copy beside it, `mem` the state in memory of
the server and of the command. An operation reads the file, changes the state and
begins a write of three steps (`OpenTmp`, `FillTmp`, `Replace`); its answer is sent
after the last. `Concurrent` says whether the pairing command may run in the middle of
a write. `late` is what has expired, `told`, `paired`, `redeemed` are history.

### SchemaIndex

`tables`, `indexes` and `version` are what is defined in the database. `Open`,
`Inspect`, `Apply` are a process with a Surreal writer, the plan sent statement by
statement, the version last. `Before`, `RemoveIndex`, `DefineIndex`, `After` are the
steps of the index build, each a worker process that may fail, die or be killed on a
timeout with or without effect; `files` are the result files the parent reads. A second
build may be given the output directory of the first (`SameDirectory`): the runner unlinks
only its heartbeat there (`devtools/surreal_index_build_runner.py:521-525`), and a worker
that dies leaves the earlier result to be read. A question about a table that is not there
is answered with the error of the statement, which is no failure of the worker and names no
index.
`Late` is a statement that takes effect after its worker was killed; it is in
`SchemaLateSpec` only.

### Coverage

`db` is the rows of chunks, embeddings and provenance, `shards` the shard tables.
`writer` is a manifest written table by table between any two queries of `audit`;
`fill` and `copy` are the backfill and the shard runner. The operator uses one tool at
a time. Exact and sampled audits are different queries and differ here as well. What
the audit says of indexes is left out. `touched` is history: the chunks manifests have
written since the last tool was started.

## 3. What is checked

| Run | Shows | Bounds | States |
|---|---|---|---|
| `delta_sync` | with the resume state of the process: a phase marked completed is in place, embeddings in order, refinement of `ManifestApply` (checkpoint and return only when every phase not inherited is applied); every call ends | five manifests that write, rewrite, drop and tombstone seven rows, in any order and number; batches of more than one row, several batches in a phase | 408,564 |
| `file_index` | rows match holders, fingerprints follow rows, a purge spares live notes; deleted notes become hidden and, without faults and races, notes on disk searchable, but for what the resume state kept; the scans always come back | two notes, a chunk of one's own and a shared one, a body without chunks; one of five bounds on the eight hazards (`SomeBounds`): an edit, a deletion and a restart; two edits; an edit, a crash and a failure; an edit during the work, a crash and an unreadable note; a deletion, a restoration and a crash | 791,375 |
| `source_ingest` | SurrealDB lacks nothing checkpoint and fingerprints claim but what the shared resume state kept out, however the threads spoil each other's transactions | a message and a hidden one, three changes, batches of two, a failure, a crash, one indexing of one note | 747,557 |
| `source_ingest_alone` | whole batches, durable and complete: refinement of `SourceFeed`; the checkpoint reaches every change | three units, four changes, batches of two, two failures, a crash | 357,916 |
| `local_store` | what is on record, and what the checkpoint has passed, can be read; a read answers with one current text; a repair cut short is made good; no note hides for want of provenance | one dialog of two messages, two changes, two schema versions; any number of starts, stops, failures, resets and rebuilds | 4,721,602 |
| `bulk_index` | what is found can be read and is exactly what was indexed, but for notes with a withheld phase; the fingerprints settle | two notes with a shared chunk, a body without chunks, changed tags; two changes anywhere, one stop anywhere, runs in new processes and in one | 1,263,062 |
| `chunk_caches` | rows are of their model and text, fingerprints mean rows (or a withheld one), entities are of their text | two notes, three bodies (a shared text, one that occurs twice, one empty), two models, two NER settings; any three of two edits, two restarts and a failure | 4,135,102 |
| `search` | results were visible, the merge is exact, a reranked chunk leads, a healthy search fails by the limit of vector search only, every search ends | one request of `top_k` 1, 2, 3 or 5 with a limit of 4, five chunks (one of another strategy), two shards, two sources on one thread; a write between any two queries, a fault, a batch of the poller | 383,683 |
| `oauth` | the file is whole, loses nothing handed out, codes are redeemed once | two clients, two pairing codes, one authorization code, four tokens, two attempts, a crash inside any write; the pairing command between writes only (`OAuthShared.cfg` has it inside one) | 431,493 |
| `schema_index` | the version and the build promise nothing that is missing | three tables, four indexes, five databases to start from, two starters, two builds with new or kept result files, one fault | 3,019,036 |
| `coverage` | an exact audit is right about every chunk left alone while it ran; audit, backfill and copy bring every chunk where a vector search looks | three chunks, one blank, two models, two shards, lists of two, two manifests, one fault | 1,205,856 |

One run ends in a violation, `source_ingest_shared`, of the one property `CheckpointFound`. The
documentation says that the cursor is saved "only after ... index persistence succeeds"
(`docs/source-adapter-architecture.md:139-141`). The second batch of a process is skipped
for the phases the first completed, and its checkpoint committed, with no failure and no
other thread. It is the finding of `PROJECT.json`.

The bounds are the smallest in which the cases meet: two notes to share a chunk,
two batches to be split and replayed, a second version to be replaced, a failure
and a crash in the same run, two chunks to choose from in a pool that has to grow.
Every disjunct of the next-state relations is taken. `chunk_caches` has a bound on the
sum of its events (`MaxEvents`). `local_store` does not look beyond a state with `kept`
(`MCBound`); without that bound it passes too (9,036,925 states).

`CHECK_DEADLOCK FALSE` stands where the system may stop: the indexer after an
exception in the backlog scan (`file_index`), and bounded requests, changes,
runs or codes (`local_store`, `bulk_index`, `chunk_caches`, `search`, `oauth`,
`schema_index`, `coverage`).

Each property has a mutant in `PROJECT.json`: a plausible slip in one definition,
kept next to it in the module, under which the property fails. Each module of
a component has a type invariant, which is proved (`CopyIsWhole` of `Coverage`,
`ReturnedAppliesTheRest` and `CheckpointLast` of `DeltaSync` are proved as well and are in
no passing run; the last two follow from `PromiseKept`). TLC checks them when they are added to a
run's configuration.

### Where the code departs from what one would expect

These end in a counterexample as well. They are no runs: most say that a promise is not
kept in a case the code or its documentation leaves open, and the first two have the cause
of `source_ingest_shared`. They are run by hand, with the configuration named or with the
edit of one that is given.

| Configuration | Property | What happens |
|---|---|---|
| `DeltaSyncShared.cfg` | `ReturnedMeansApplied` | "Apply a manifest in deterministic order" (`surreal_delta_sync.py:1388`): the second manifest of a process returns with its chunks not written |
| `FileIndexShared.cfg` | `EventuallyFound` | the second note of a process gets both fingerprints, never its rows, and no scan comes back |
| `SearchTopK.cfg` | `EverySizeAnswered` | "Maximum results to return, 1-100" (`docs/mcp.md:71`): a `top_k` above 20 makes a first pool of more than 100 (`service.py:1203`), which vector search refuses (`surreal_vector.py:128`) |
| `DeltaSyncBatches.cfg` | `FrontmatterWritten` | frontmatter relations of one file split over batches delete each other |
| `DeltaSync.cfg`, `SPECIFICATION Spec` | `NoDanglingEmbedding` | tombstones are sorted by table name (`surreal_delta_sync.py:1250`), so a chunk is deleted before its embedding, and a vector search between the two meets an embedding without provenance (`service.py:1277`) |
| `FileIndexRestored.cfg`, `Bounds <- CrashBounds` | `EventuallySearchable` | crash between chunk fingerprint and embedding: never embedded |
| `FileIndex.cfg` | `EventuallyHidden` | the second purge of a process is withheld; the note stays in the store |
| `FileIndexRestored.cfg` | `EventuallySearchable` | deleted and restored: taken for unchanged, stays hidden |
| `FileIndexRace.cfg` | `EventuallySearchable` | a note edited while it is indexed gets the fingerprint of a text that was not read (`pipeline.py:3815`); its event then finds it unchanged |
| `FileIndexReplaced.cfg` | `ReplacedIsHidden` | the old chunks of an edited note get no tombstone (`pipeline.py:3104`) and stay searchable |
| `FileIndexTags.cfg` | `TagsShown` | the metadata is that of the discovery, or of a watch event's `FileInfo` with neither title nor tags (`trickle.py:505`), while the metadata fingerprint is taken of the file as it is (a second graph manifest of the process is withheld besides) |
| `FileIndexCopies.cfg` | `DeletedWithCopiesIsHidden` | notes with a common chunk, deleted together, count each other as holders (`pipeline.py:2749`); the chunk stays |
| `SourceIngestCheckpoint.cfg` | `CheckpointCoversUnits` | the indexer rolls the poller's batch back; the checkpoint survives alone |
| `SourceIngestCheckpoint.cfg`, `MaxFiles = 2` | `FileRowsTogether` | the poller commits the indexer's transaction half-way. It holds for the indexer alone (`Threads = {"indexer"}`; section 4) |
| `SourceIngestEdit.cfg` | `EditedTextReplaced` | the old chunk of an edited message goes from the local rows only (`pipeline.py:814`) |
| `LocalStore.cfg`, without `~spoiled` | `OnRecordIsReadable`, `PassedIsReadable` | a read's `commit()` (`metadata.py:394`) makes half a batch durable; after a crash or failure the message has a fingerprint and never a chunk. A chunk that so lost its provenance makes every later search fail (`service.py:1524`) |
| `LocalStore.cfg`, without `~kept'` | `RepairedIsCurrent` | an index with cached vectors and nothing else is taken for new (`pipeline.py:4002`) |
| `LocalStore.cfg`, `ResetBesideServer = TRUE` | `PassedIsReadable` | a reset beside the server: the poller's next checkpoint passes messages that were purged |
| `BulkIndex.cfg`, `MaxStops = 0`, `SPECIFICATION Spec` | `RestoredIsFound` | a rebound note never gets its rows in SurrealDB back, and is not rebound at all while another deleted path has its content (`docs/source-adapter-architecture.md:98-101`). Also of notes not in `missed` |
| `BulkIndex.cfg`, `MaxStops = 0`, `SPECIFICATION Spec` | `FoundIsCurrent` | two modified notes in one run: the second purge and the second write are withheld, the fingerprints saved, and the old text is found |
| `BulkIndex.cfg`, `MaxStops = 0`, `SPECIFICATION Spec` | `ReadIsExact` | holder rows of the old body stay: a read returns old and new chunks (`docs/source-adapter-architecture.md:97`) |
| `ChunkCaches.cfg`, `Suffix <- MCOneSuffix` | `RowsOfOneModel` | two models of one short name share component tables (`pipeline.py:168`), though a hit is called "always safe" |
| `ChunkCaches.cfg`, `Budgets = {small, large}` | `RowsOfTheirText` | ids do not depend on the token budget: with another budget an id has a new row and its old vector |
| `ChunkCaches.cfg` | `UnchangedMeansRow` | the second note of a process: its rows are withheld and it is taken for unchanged. Where they are written: a model switched and switched back with an edit in between, or a failure behind the chunk fingerprint; an edit that failed before the chunk fingerprint and is taken back |
| `ChunkCaches.cfg` | `EveryChunkMentions` | chunks of equal text in a batch: only the last gets entities (`cache.py:325`) |
| `ChunkCaches.cfg` | `MentionsCountSpans` | a cached extraction gives each mention weight 1 in place of its spans |
| `ChunkCaches.cfg`, `SPECIFICATION BulkSpec` | `PrintMeansRow` | the bulk command saves the metadata fingerprint and writes no row |
| `Search.cfg` | `EverySizeAnswered` | not only a large `top_k`: with enough inactive candidates a pool that is full doubles beyond the limit (`service.py:1254`; with the code's numbers, 60 to 120) |
| `Search.cfg`, `LowSignal = {}`, `Quota = 3` | `MergeExact` | a quota above `top_k` gives more than `top_k` results (`service.py:576`) |
| `Search.cfg`, `ShardCap = 1`, `MaxTopK = 100` | `PoolExhausted` | the pool stops growing while a shard has more |
| `OAuthShared.cfg` | `FileConsistent`, `HandedOutKept` | the pairing command in the middle of a write: one copy, two writers (`auth.py:144`) |
| `SchemaIndex.cfg`, `SPECIFICATION SchemaFairSpec` | `StartHeals` | a plan cut half-way, or an older version, is never brought up to date: the first definition that exists is an error |
| `SchemaIndex.cfg`, `LateEffects = TRUE`, `SPECIFICATION SchemaLateSpec` | `VerifiedIsBuilt` | a removal the server finishes after its worker was killed |
| `SchemaIndex.cfg`, `MaxFaults = 2` | `VerifiedIsBuilt` | two workers die in the output directory of an earlier build, and its result files are read for theirs |
| `SchemaIndex.cfg`, `Shards <- MCShards` | `AuditAgrees` | with shards the audit asks for an index the build leaves out (`devtools/surreal_completeness_audit.py:982`) |
| `Coverage.cfg`, `Docs = {"p", "q"}`, `SPECIFICATION CoverageSpec` | `NoFalseAlarm` | the look-up of a sample is limited like the sample |
| `Coverage.cfg` | `LiveConverges` | a row of any model counts as an embedding |
| `Coverage.cfg`, `Limit = 1` | `RepairConverges` | blank chunks that fill the list starve the others |

Seen while reading, and part of the models' actions, or left out of them:

* Poller: it catches four kinds of exception (`mcp_server.py:526`), any other ends it.
  The fallback poll of the indexer comes only after a quiet interval (`trickle.py:574`).
* Search: one chunk without provenance fails every search that finds it; a provider's
  exception of an unexpected kind fails the search; a failed precondition query is
  remembered as "invalid" for the life of the process; the catalog is never refreshed;
  a single chunk above the relevance floor blends to 0.0 (`service.py:814-828`), so that it
  comes after all the chunks the reranker rejected (`RerankedLeads` with `> 0` for `> 1`).
* Bulk command: metadata changes reach the local rows and not SurrealDB; `clear`,
  `drop`, purges by chunk and `index --force` raise with a Surreal writer. Startup checks
  of schema and weights are skipped there; changed weights never refresh rows.
* Local store: a first read between the document and the binding of a batch is refused
  with a `PermissionError`; once a dialog is active, a message not yet ingested is
  "unknown"; wipe and `index --force` drop vectors of messages but neither their
  fingerprints nor the checkpoint.
* Schema and repair: two processes that start at once on an empty database: one
  fails; a process that was told to replace the database goes on and writes to
  undefined tables; the backfill may write an embedding of a chunk that is gone; the
  synchroniser and the backfill never write shard tables.

### Fairness

* `DeltaSync`: weak fairness of the call's steps. The call is a loop; it is only
  stopped by a failure or the death of the process, which need not happen.
* `FileIndex`: weak fairness of the indexer's steps, restart included: it is one
  task in a server that is restarted (`docker-compose.yml:7`, `restart:
  unless-stopped`). Nothing is assumed of notes and failures, except that each
  hazard occurs finitely often. The liveness properties are stated for behaviours
  in which the indexer has not ended itself (`Runs`): an exception in the backlog
  scan does end it (`trickle.py:218-221`).
* `SourceIngest`: weak fairness of the poller and of the indexer, two threads that
  the operating system runs both. No fairness of the source, of failures or crashes.
* `Search`: weak fairness of the worker (`Take`, `PollEnd`, the steps of a local
  search), of the event loop (`Respond`) and of timers (`Timeout`). None of a source's
  thread: a provider may hang for ever, and holds its thread.
* `BulkIndex`: the command is given again and goes on (weak fairness of `Begin` and
  `Work`), and the server is started again and again between the runs (strong fairness
  of `Sweep`, which a run disables). This is an operator's doing, not the code's.
* `Coverage`: the operator ends what he begins (weak fairness of the steps) and keeps
  auditing exactly, filling and copying (strong fairness of each `Begin...`, since one
  tool disables the others). Without him nothing repairs anything.

## 4. What is proved

`SurrealProofs`, of `DeltaSync`, for any set of manifests, rows and any batch size:

* `TypeCorrect`, and the inductive invariant it is part of. The invariant adds to
  `TypeOK` what a running call knows: the phases before the present one are applied
  unless they were inherited, so are those its own earlier tries recorded, the written
  rows of the present one are in the store, and later phases do not undo earlier ones.
  Without the last part `ReturnedAppliesTheRest` is not inductive: a later phase could
  delete what an earlier one wrote.
* `ReturnedCallsApplied`, `ResumeIsSound`, `CheckpointIsLast`,
  `EmbeddingsFollowChunks` and `SyncImplementsPromise` (every step of `DeltaSync`
  is a step or a stutter of `ManifestApply`). They are of the synchroniser as the pipeline
  calls it, with one resume state for all manifests, and assume `FilesWithinBatch`: no file
  whose frontmatter relations fall into two batches. `DeltaSyncBatches.cfg` shows that this
  is necessary; `DeltaSyncShared.cfg` that `inherited` in their conclusions is.
  `EmbeddingsFollowChunks` also assumes that a manifest that brings an embedding
  brings its chunk.

`FileIndexProofs`, for any notes, contents and number of hazards, with no
hypothesis beyond the assumption on the constants:

* `Inductive`: `IInv` is `TypeOK`, `RowsMatchHolders`, `ScanOrder` (a call never overlaps
  a purge of the scan) and `JobProgress` (what a call has done by the step it is at: once
  embedded, each chunk of the note is in the index or among the `missed`, which the resume
  state withheld). The last two are needed because fingerprints are written steps after
  the rows they stand for.
* `TypeCorrect`, `RowsAlwaysMatch`, `FingerprintsFollowRows`,
  `MetaFingerprintsFollowIndex` (the chunks are in the store, or their write was skipped
  for what an earlier manifest of the process did), `PurgeSparesOthers`.
  `FileIndexShared.cfg` shows that a fingerprint does not mean more.

`SourceIngestProofs`, for any units, notes and number of changes, failures and crashes:

* `Inductive`: `IInv` is `TypeOK`; `Known(db)` and `Known(durable)` (checkpoint and
  fingerprints, as read and as they would survive a crash, name only what is hidden or
  `Given`: in the retrieval store, or `missed`, withheld from it by the resume state);
  `BatchWhole` (the poller's batch follows the checkpoint it was exported from without a
  gap); `FreshIndexed` (what it found changed is `Given` before the local transaction
  begins); `CursorOrder`. The last three are needed because the poller writes a checkpoint
  it computed many steps earlier, from a database that another thread may have rolled back
  since.
* `TypeCorrect`, `CheckpointIsIndexed`, `FingerprintIsIndexed`,
  `CheckpointGoesForward`, for any set of threads. `source_ingest_shared` shows that the
  first two cannot do without the `missed`.
* `FileRowsStayTogether` assumes `Threads = {"indexer"}`, by the invariant `RowsInv`:
  a transaction is open exactly between the indexer's BEGIN and its end, and outside
  one what is read is what is durable. `SourceIngestCheckpoint.cfg` with `MaxFiles = 2`
  shows that the hypothesis is necessary.
* `IngestImplementsFeed` assumes `Threads = {"poller"}`: each COMMIT takes one whole
  batch in the order of the feed, anything else a change at the source or a stutter.
  Its invariant `AloneInv` says, for each step of the transaction, which part of the
  batch is on record.
* `CheckpointIsOnRecord` follows from that refinement: `SourceFeed` keeps `Covered`,
  that a change up to the checkpoint is on record unless overtaken, and a fingerprint
  on record has its chunk row (a replayed change is skipped, so its row must have come
  with the earlier batch). `SourceIngestCheckpoint.cfg` shows that
  `Threads = {"poller"}` is necessary.

`LocalStoreProofs`, for any messages, dialogs, schema versions and number of changes.

* `Invariance`: `IInv` is `Types`; `Control` (a transaction is open only while the poller
  is in a batch, outside one what is read is what is durable, and a search runs only
  while the poller rests); `Complete` (what a search has found complete stays so until it
  is done); `Repaired` (no vector is of a later schema than the process, all are of the
  sentinel's when it names that schema, and what a wipe has cleared stays empty until it
  sets the sentinel); `Batched` (what is durable is whole, and `Batch` says how far the
  open batch is at each step). The properties of the run speak of the end of a repair and
  of what is durable; they are not inductive because both are the work of many
  statements, with a crash, another process or a read in between.
* `TypeCorrect`, `RecordedCanBeRead`, `ReadyHidesNothing`, `RepairLeavesNothingOlder`.
* `PassedCanBeRead` assumes `ResetBesideServer = FALSE`, by the further invariant `Passed`:
  the change the poller is at is the first after the durable checkpoint that is not
  overtaken, so the chunks its batch deletes are of changes that are. Section 3 shows
  that the hypothesis is necessary.
* `ReadsAnswerOnce`, also when a read has committed half a batch, by the invariant
  `Reading`: in what is read and in what is durable a message has one chunk with
  provenance, the one that is read is not the older, no reader has seen a newer one, and
  the change the poller is at is not older than any of them.

`OAuthProofs`, for any clients, codes and tokens, any limit of attempts and number of
crashes, with `Concurrent = FALSE`: the command and the server may run in any order,
but one does not begin while the other is in the middle of a write.
`OAuthShared.cfg` shows that `FileConsistent` and `HandedOutKept` need this.

* `Invariance`: `IInv` is `Types`; `FileSound` (the file, if there is one, is
  consistent, lacks nothing that was handed out and names no id yet to be drawn;
  without a file nothing was handed out and the server's memory is that of a new
  process); `Writers` (one process writes, what it is about to write is sound too, and
  what it will hand out is in it); `Authorizing` (the code that follows an activation
  is for a client of the file); `Counted`. The invariants of the run are not inductive
  by themselves: a write takes three steps, and what becomes the file at the last was
  read, changed and counted before the first. `Spent` bounds what can still be redeemed
  by the number of crashes, except in the file that a write is about to replace, which
  is where a crash lets a code be redeemed again.
* `FileStaysConsistent`, `NothingHandedOutIsLost`, `RedeemedOnceForEachCrash`,
  `TypeCorrect`.

`SurrealProofs`, of `SchemaIndex`, for any plan, shards, databases to begin with, processes
that start and number of builds and faults, of `SchemaSpec`: nothing takes effect after its
client was killed. All assume `FewFaults`: one fault at most where a build
reuses the output directory of an earlier one. Section 3 shows that `VerifiedIsBuilt`
needs both.

* `Invariance`: `SchemaInv` is `Types`; `Carrying` (a process inside the plan has carried out
  every statement before the one it is at, and a current version means that all were);
  `CalledOff` (a running build has taken back what an earlier one said of its indexes);
  `FilesTrue` and `SeenTrue` (what the result files of the questions at the end name is
  there, and so is what was read of them); `Spared` and `Unharmed` (the one fault a reused
  directory allows for is still to come, or has not touched a result file of this build
  that will be believed); `RebuiltSoFar` (an index a rebuild has passed
  has no other definition than the one asked for); and `VerifiedIsBuilt` itself.
  `CurrentIsComplete` is not inductive because the version comes after the last of many
  statements, and two processes may be at them at once: the one that meets what the other
  defined stops, and never sets the version for what it has not done.
* `CurrentPromisesNothingMissing`, `ReportsAreTrue`, `DefinitionsTyped`.

`SurrealProofs`, of `Coverage`, for any rows to begin with, any shards, lists of any length
and any number of manifests and failures:

* `AuditsAreTrue`: manifests are written between any two queries of an exact audit, so
  that no moment is one the report is about. Of the chunks that none of them touched it is
  right all the same. The invariant `Right` says so of one chunk and of each list by
  itself: a question that has been asked and left its list empty was answered for the
  chunk, and what a list names is true of it. It is not enough that the verdict is right,
  for it is drawn from all lists at the end. A list is cut to `Limit` rows; that it is
  empty only if there was nothing to list (`SampleOf`) is what the verdict needs.
* `CopiesAreWhole`: the tables are empty when they have all been defined, because
  defining one that is there fails; from then on each row is in its shard table or still
  to be inserted. A copy with `--recreate-shards` and one without are both covered.
* `CoverageTyped`.

`ChunkCachesProofs`, of `Spec`, for any notes, bodies, models, settings, ways of cutting
bodies into texts and number of edits, restarts and failures. The invariant is made in
layers, so that a theorem assumes no more than it needs:

* `Shape`, without condition: who holds a chunk finds its row, and a run has exactly the
  chunks its note holds, from the time they are written or read back to its end.
* `TypeCorrect`, without condition. It includes that each chunk row has a holder.
* `OneModelEach` assumes `SuffixTells`, that no two models share a table suffix, by
  `ModelInv`: components are of the model of their table, cached vectors of the model of
  their key, the vectors of a run of the model of the settings.
* `VectorsOfTheirText` and `EntitiesAreOfTheirText` assume `OneBudget`, that the token
  budget is never changed, by `TextInv` and `Whole`: an id has one text in the rows, the
  store, the components and the run, and a note holds the chunks of one body, all of
  them, or none. `EntityInv` adds what a run knows of its mentions by the step it is
  at, and that of a remembered body the last chunk of each text is in the graph or among
  the `unmentioned`, withheld from it: those are the chunks `lookup_batch` keeps
  (`LastExists`).
* `PrintsTell` assumes both, by `PrintInv`: a saved metadata fingerprint has, for each
  chunk of the body it was saved for, a row or an entry in the rows the resume state
  withheld. The two fingerprints are saved by different steps of different runs, so
  neither speaks of the other; what ties them is that a note holds one whole body.

The conditions are needed: section 3 has a run without each (`Suffix <- MCOneSuffix`,
`Budgets = {small, large}`).

`BulkIndexProofs`, of `Spec`, for any paths, texts that share chunks or have none, any number
of edits in the middle of a run, failures and deaths. The assumption on the constants says
that a text has a sequence of chunks and that "no row" is not a row.

* `Inductive`: `Inv` is `Types` and `RunTypes`; `WorkOrder` (how the sets of notes that wait
  for the stages are nested: what is not embedded is not bound, in the graph or fingerprinted
  either, and nothing is written while notes are rebound or read); `Saved` and `HoldersHeld`
  for all notes; and `PathInv` for those that are not `torn`. What
  `PathInv` says of rows in SurrealDB it says of notes that are not `missed`, from which
  the resume state has withheld nothing. It says what earlier
  stages have left for later ones: the note is as discovery found it (`Same`), `Texts` and
  `Docs` are of that version, no holder row of an earlier text is left when it is written
  (`Bare`), it is not found before that (`Hidden`); once found it is `Stored` in full and
  `Complete`, or the stage that will see to it is still to come; and it is of the found text
  or about to be purged (`Current`).
* Neither property of the run is inductive. `FoundIsExact` needs that a purge, which goes by
  the local holders, reaches every holder row of the note, and takes none that another note
  needs; `FoundIsReadable` that the fingerprint of a note that can be found is that of its
  text, or else a later run would not purge it.
* `FoundExactly`, `FoundReadably`, `TypeCorrect`.

`SearchProofs`, of `Spec`, for any chunks and scores, any sources and hits, and any number of
requests, writes, faults and polls. The assumptions on the constants say that there are
finitely many chunks, that scores are numbers, that the sources and their hits are lists, and
that no hit is tagged as a local candidate.

* First the operators, which the model writes so that one can reason about them: a list
  sorted by a relation has the element of rank *n* in place *n* (`Ordered`), and a filter
  keeps the elements whose places are left, in order (`Kept`). `OneOfEachRank` shows by a
  bijection onto `1 .. Cardinality(S)` that a finite ordered set has one element of each rank;
  from it `OrderedLists`, `KeptLists`, `KeptOfConcat`, and then what the engines, the fusion,
  the blend and the merge return: `EngineLists` (rows of the store only), `FusedLists` (the
  chunks of the three lists, each with a score), `BlendedLists` (no chunk that was not
  fused), `MergeShows` (the size and the federated part of a merge, for any two lists).
* `Inductive`: `Inv` is `Types`; `Jobs` (the worker has one job, a queued request waits
  once, a request not made yet asks nobody); `Threads`; and for each request `Shaped`
  (what it carries fits the step it is at: a fused chunk has a score, there are no more
  candidates than chunks, and a pool is no larger than the first or than twice the
  chunks), `Visible` (what is active now has been seen, and so has what the filter let
  through), `Healthy` (while the index is quiet its lists are rows of the store, the known
  candidates all those with provenance, and it fails only by its pool) and `Over` (an
  answered request is done, waits for no source, and its result is what `MergeExact`
  says). None of `VisibleResults`, `MergeExact` and `HealthyAnswered` is inductive: each
  speaks of an answer, which is made of what up to eight queries and several calls have
  left in the request, while the store and the outcomes go on changing.
* `TypeCorrect` and `ResultsVisible`, without condition.
* `MergedExactly` assumes `QuotaFits`: no search asks for fewer results than
  places are reserved. Section 3 shows that `MergeExact` needs it.
* `ScoredLead` (`RerankedLeads`) assumes `FusionK >= 5`: 60 in `fuse_results`, and with
  `FusionK = 1` in `Search.cfg` it fails. It has a second invariant on top of
  `Inv`, `LeadInv`: until the cross-encoder answers, nothing is scored, and every score a
  request holds is that of a fusion, `FusedBounded`: times `FusionK + 1`, at most three
  times `Scale`, which `ShareBound` gets from the place of a chunk in each list. `BestBlend`
  then compares the two scales: the best of the scored chunks blends to six tenths or more
  if their scores differ at all, and a raw score stays below. `SortedFirst` makes the best
  of the list its head.
* `OnlyThePoolFails` and `HealthyAreAnswered`, without condition: a healthy search fails
  for no other reason than a pool above `MaxTopK`, and a pool gets there only as the first
  one of a large `top_k`, or by doubling, which happens while as many candidates are found
  as asked for and so ends at twice the number of chunks (`Shaped`). With the code's
  numbers both happen: `SearchTopK.cfg` shows the first, `EverySizeAnswered` with
  `Search.cfg` (section 3) the second.

Only model-checked: all liveness (`CallEnds`, `Eventually...`, `DeletedIsHidden`,
`EverySearchEnds`, `Settles`, `RepairConverges`), which is out of this prover's reach.
That the order of a fused or blended list is the one its scores give is how `Sorted` is
defined, and is not stated again.

## 5. Not modelled, and the plan

Not modelled:

* The two indexers side by side that the missing lock allows (section 2).
* Snapshot import, backup and its rehearsal (`storage/surreal_ops.py`): linear operator
  commands that write files and compare counts. (The rehearsal takes the restored counts
  from the manifest of the source, so its comparison cannot fail.)
* Source lifecycle and registry: functions of the configuration.
* Building payloads, encoding, record ids; statistics and feedback rows; progress files.
* `clear` and `drop` of the index, which raise with a Surreal writer; VACUUM and the
  rest of the idle maintenance; shutdown of the server.
* Units with windows, native search of providers, query expansion, snippets, status,
  search modes other than hybrid, graph enrichment (disabled with SurrealDB).
* Text processing and models (what text a chunk has, what a model finds in it, how a
  vector is close to another), argument handling, rendering, logging, HTTP routes.
* Vendored Airweave code.

Next, in this order:

1. An abstract search (a set of candidates that were visible, a merge of what answered)
   that `Search` implements.
2. Two indexers on one index.
