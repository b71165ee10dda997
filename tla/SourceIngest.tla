---------------------------- MODULE SourceIngest ----------------------------
(***************************************************************************)
(* Two threads on one sqlite3 connection: the poller of an application     *)
(* source (_run_telegram_poller, _ingest_application_source) and the file  *)
(* indexer (index_file, here its transactions and that it applies a        *)
(* manifest).  Neither knows of the other's BEGIN, COMMIT and ROLLBACK, and *)
(* both apply their Surreal manifests with the one resume state of the     *)
(* process: a phase that either has completed is skipped from then on.     *)
(***************************************************************************)
EXTENDS SqliteConnection, Integers, Sequences, FiniteSets

CONSTANTS
    Threads,        \* which of "poller" and "indexer" run
    Units,          \* units of the source (messages)
    Hidden,         \* units that get no chunk of their own
    Files,          \* notes the indexer works on
    Limit,          \* changes in a batch
    MaxChanges, MaxFailures, MaxCrashes, MaxFiles

ASSUME SourceIngestAssumption ==
    /\ Threads \subseteq {"poller", "indexer"}
    /\ Hidden \subseteq Units
    /\ Limit \in Nat \ {0}
    /\ {MaxChanges, MaxFailures, MaxCrashes, MaxFiles} \subseteq Nat

VARIABLES
    log,            \* the source: the unit changed by each change
    stored,         \* SurrealDB: changes with a chunk row
    vectors,        \* SurrealDB: changes with an embedding row
    applied,        \* the resume state: the phases completed in this process
    missed,         \* history: changes not found since the resume state kept their
                    \* rows from the store
    pc,             \* thread -> step
    batch,          \* the poller's batch: changes, by their place in the log
    fresh,          \* those of them that are to be indexed
    todo,           \* changes of the batch the open transaction still lacks
    since,          \* the checkpoint the batch was exported from
    file,           \* the note the indexer works on
    failures, crashes, files    \* how many so far

job == <<batch, fresh, todo, since, file>>
counters == <<failures, crashes, files>>
surreal == <<stored, vectors, applied, missed>>
vars == <<connection, log, surreal, pc, job, counters>>

\* What a search can lead to: a hit is an embedding resolved to its chunk.
index == stored \cap vectors

Superseded(p) == \E q \in p + 1 .. Len(log) : log[q] = log[p]
Feed(from) == {p \in from + 1 .. Len(log) : ~Superseded(p)}
Last(b) == CHOOSE p \in b : \A q \in b : q <= p
First(b) == CHOOSE p \in b : \A q \in b : p <= q

At(t, step) == t \in Threads /\ pc[t] = step
Go(t, step) == pc' = [pc EXCEPT ![t] = step]

Empty == [fp |-> [u \in Units |-> 0], rows |-> {}, cursor |-> 0,
          chunk |-> {}, holder |-> {}, marked |-> {}]

Init ==
    /\ Opened(Empty)
    /\ log = <<>>
    /\ stored = {} /\ vectors = {} /\ applied = {} /\ missed = {}
    /\ pc = [t \in Threads |-> "idle"]
    /\ batch = {} /\ fresh = {} /\ todo = {} /\ since = 0
    /\ file \in Files
    /\ failures = 0 /\ crashes = 0 /\ files = 0

\* A unit is added to the source or changed there.
Publish(u) ==
    /\ Len(log) < MaxChanges
    /\ log' = Append(log, u)
    /\ UNCHANGED <<connection, surreal, pc, job, counters>>

-----------------------------------------------------------------------------
(* The poller                                                              *)

Exported(from, changed) ==
    /\ At("poller", "idle")
    /\ since' = db.cursor
    /\ batch' = {p \in Feed(from) : Cardinality({q \in Feed(from) : q < p}) < Limit}
    /\ fresh' = {p \in batch' \cap changed : log[p] \notin Hidden}
    /\ todo' = {}
    /\ Go("poller", IF batch' = {} THEN "begin" ELSE "manifest")
    /\ UNCHANGED <<connection, log, surreal, file, counters>>

\* Mutants: an edited unit is not indexed anew; the feed is asked for what
\* follows the first change not yet seen.
ExportNewOnly == Exported(db.cursor, {p \in DOMAIN log : db.fp[log[p]] = 0})
ExportFromNext == Exported(db.cursor + 1, {p \in DOMAIN log : db.fp[log[p]] # p})

\* The checkpoint is read and the provider asked for what follows it.  A change
\* whose fingerprint is on record is skipped.
Export == Exported(db.cursor, {p \in DOMAIN log : db.fp[log[p]] # p})

RowPhases == {"chunks", "embeddings"}

\* Those of them the manifest of the batch has units for.
BatchPhases == IF fresh = {} THEN {} ELSE RowPhases

\* The phases P of the batch's manifest, each unless an earlier manifest
\* completed it.
PutRows(P) ==
    /\ stored' = IF "chunks" \in P \ applied THEN stored \cup fresh ELSE stored
    /\ vectors' = IF "embeddings" \in P \ applied THEN vectors \cup fresh ELSE vectors
    /\ applied' = applied \cup P

PutBatch ==
    /\ PutRows(BatchPhases)
    /\ missed' = (missed \ fresh)
                    \cup IF BatchPhases \cap applied = {} THEN {} ELSE fresh \ index'

\* Mutant: a failed write is only logged.
ApplyManifestOrLog ==
    /\ At("poller", "manifest")
    /\ UNCHANGED surreal \/ PutBatch
    /\ Go("poller", "ensure")
    /\ UNCHANGED <<connection, log, job, counters>>

\* Chunks and vectors are computed and the manifest is applied to SurrealDB,
\* before the local transaction.
ApplyManifest ==
    /\ At("poller", "manifest")
    /\ PutBatch
    /\ Go("poller", "ensure")
    /\ UNCHANGED <<connection, log, job, counters>>

\* The ensure_..._table calls before either BEGIN end with commit().
EnsureTables(t) ==
    /\ At(t, "ensure")
    /\ CommitAny
    /\ Go(t, IF t = "poller" THEN "begin" ELSE "begin insert")
    /\ UNCHANGED <<log, surreal, job, counters>>

\* Mutant: no transaction; the statements commit one by one.
BeginBatchForgotten ==
    /\ At("poller", "begin")
    /\ todo' = batch
    /\ Go("poller", IF batch = {} THEN "checkpoint" ELSE "units")
    /\ UNCHANGED <<connection, log, surreal, batch, fresh, since, file, counters>>

\* BEGIN stands before the try: when it raises nothing is rolled back.
BeginBatch ==
    /\ At("poller", "begin")
    /\ IF tx THEN Go("poller", "idle") /\ UNCHANGED <<connection, todo>>
       ELSE /\ Begin
            /\ todo' = batch
            /\ Go("poller", IF batch = {} THEN "checkpoint" ELSE "units")
    /\ UNCHANGED <<log, surreal, batch, fresh, since, file, counters>>

RecordUnit(p, kept) ==
    /\ At("poller", "units") /\ todo # {}
    /\ Execute(IF db.fp[log[p]] = p THEN db
               ELSE [db EXCEPT !.fp[log[p]] = p, !.rows = kept])
    /\ todo' = todo \ {p}
    /\ UNCHANGED <<log, surreal, pc, batch, fresh, since, file, counters>>

\* Mutant: the old chunks are looked up by their document alone.
WriteUnitDropsDocument == RecordUnit(First(todo), {})

\* One change: document, binding, fingerprint; of a changed unit the old chunk
\* rows are deleted.
WriteUnit ==
    LET p == First(todo) IN RecordUnit(p, {q \in db.rows : log[q] # log[p]})

\* The chunk rows of the batch.
WriteChunks ==
    /\ At("poller", "units") /\ todo = {}
    /\ Execute([db EXCEPT !.rows = @ \cup fresh])
    /\ Go("poller", "checkpoint")
    /\ UNCHANGED <<log, surreal, job, counters>>

CheckpointAt(c) ==
    /\ At("poller", "checkpoint")
    /\ Execute([db EXCEPT !.cursor = c])
    /\ Go("poller", "commit")
    /\ UNCHANGED <<log, surreal, job, counters>>

\* An empty batch keeps the cursor it was exported from.
WriteCheckpoint == CheckpointAt(IF batch = {} THEN since ELSE Last(batch))

CommitBatch ==
    /\ At("poller", "commit")
    /\ IF tx THEN Commit /\ Go("poller", "idle")
       ELSE UNCHANGED connection /\ Go("poller", "rollback")
    /\ UNCHANGED <<log, surreal, job, counters>>

\* Mutant: the handler leaves the transaction open.
RollbackBatchForgotten ==
    /\ At("poller", "rollback")
    /\ Go("poller", "idle")
    /\ UNCHANGED <<connection, log, surreal, job, counters>>

\* The handler.  When ROLLBACK raises, the error is not recorded; when it does
\* not, record_error writes and calls commit().
RollbackBatch ==
    /\ At("poller", "rollback")
    /\ IF tx THEN Rollback /\ Go("poller", IF batch = {} THEN "idle" ELSE "error")
       ELSE UNCHANGED connection /\ Go("poller", "idle")
    /\ UNCHANGED <<log, surreal, job, counters>>

RecordError ==
    /\ At("poller", "error")
    /\ CommitAny
    /\ Go("poller", "idle")
    /\ UNCHANGED <<log, surreal, job, counters>>

-----------------------------------------------------------------------------
(* The indexer                                                             *)

StartFile(f) ==
    /\ At("indexer", "idle") /\ files < MaxFiles
    /\ file' = f
    /\ files' = files + 1
    /\ Go("indexer", "begin clean-up")
    /\ UNCHANGED <<connection, log, surreal, batch, fresh, todo, since, failures, crashes>>

\* This BEGIN stands inside the try: when it raises, the handler rolls back.
BeginCleanUp ==
    /\ At("indexer", "begin clean-up")
    /\ IF tx THEN UNCHANGED connection /\ Go("indexer", "rollback")
       ELSE Begin /\ Go("indexer", "drop holder")
    /\ UNCHANGED <<log, surreal, job, counters>>

Statement(step, d, next) ==
    /\ At("indexer", step)
    /\ Execute(d)
    /\ Go("indexer", next)
    /\ UNCHANGED <<log, surreal, job, counters>>

DropHolder ==
    Statement("drop holder", [db EXCEPT !.holder = @ \ {file}], "drop chunk")
DropChunk ==
    Statement("drop chunk", [db EXCEPT !.chunk = @ \ {file}], "commit clean-up")

\* Mutant: no transaction.
BeginInsertForgotten ==
    /\ At("indexer", "begin insert")
    /\ Go("indexer", "add chunk")
    /\ UNCHANGED <<connection, log, surreal, job, counters>>

\* This one stands before the try, as the poller's.
BeginInsert ==
    /\ At("indexer", "begin insert")
    /\ IF tx THEN UNCHANGED connection /\ Go("indexer", "idle")
       ELSE Begin /\ Go("indexer", "add chunk")
    /\ UNCHANGED <<log, surreal, job, counters>>

AddChunk ==
    Statement("add chunk", [db EXCEPT !.chunk = @ \cup {file}], "add holder")
AddHolder ==
    Statement("add holder", [db EXCEPT !.holder = @ \cup {file}], "commit insert")

CommitFile(step, next) ==
    /\ At("indexer", step)
    /\ IF tx THEN Commit /\ Go("indexer", next)
       ELSE UNCHANGED connection /\ Go("indexer", "rollback")
    /\ UNCHANGED <<log, surreal, job, counters>>

CommitCleanUp == CommitFile("commit clean-up", "ensure")
CommitInsert == CommitFile("commit insert", "save fingerprint")

RollbackFile ==
    /\ At("indexer", "rollback")
    /\ IF tx THEN Rollback ELSE UNCHANGED connection
    /\ Go("indexer", "idle")
    /\ UNCHANGED <<log, surreal, job, counters>>

\* save_fingerprint, like the writes of the embed phase, is a statement of its
\* own and then commit().
SaveFingerprint ==
    Statement("save fingerprint", [db EXCEPT !.marked = @ \cup {file}], "commit()")

CommitFingerprint ==
    /\ At("indexer", "commit()")
    /\ CommitAny
    /\ Go("indexer", "embed")
    /\ UNCHANGED <<log, surreal, job, counters>>

\* The manifest of the note.
EmbedFile ==
    /\ At("indexer", "embed")
    /\ applied' = applied \cup RowPhases
    /\ Go("indexer", "idle")
    /\ UNCHANGED <<connection, log, stored, vectors, missed, job, counters>>

-----------------------------------------------------------------------------
InTry == {"units", "checkpoint", "commit", "drop holder", "drop chunk",
          "commit clean-up", "add chunk", "add holder", "commit insert"}

\* A manifest that fails has been applied, and recorded, up to some phase.
ManifestFails(t) ==
    \/ UNCHANGED surreal
    \/ /\ pc[t] = "manifest" /\ fresh # {}
       /\ PutRows({"chunks"}) \/ PutRows(RowPhases)
       /\ UNCHANGED missed
    \/ /\ pc[t] = "embed"
       /\ applied' \in {applied \cup {"chunks"}, applied \cup RowPhases}
       /\ UNCHANGED <<stored, vectors, missed>>

\* The provider, the embedding server, SurrealDB or a statement fails.
Fail(t) ==
    /\ t \in Threads /\ failures < MaxFailures
    /\ pc[t] \in InTry \cup {"manifest", "ensure", "save fingerprint", "embed"}
    /\ ManifestFails(t)
    /\ failures' = failures + 1
    /\ Go(t, IF pc[t] \in InTry THEN "rollback" ELSE "idle")
    /\ UNCHANGED <<connection, log, job, crashes, files>>

Crash ==
    /\ crashes < MaxCrashes
    /\ crashes' = crashes + 1
    /\ Reopened
    /\ applied' = {}
    /\ pc' = [t \in Threads |-> "idle"]
    /\ UNCHANGED <<log, stored, vectors, missed, job, failures, files>>

Poller ==
    \/ Export \/ ApplyManifest \/ EnsureTables("poller") \/ BeginBatch
    \/ WriteUnit \/ WriteChunks
    \/ WriteCheckpoint \/ CommitBatch \/ RollbackBatch \/ RecordError

Indexer ==
    \/ BeginCleanUp \/ DropHolder \/ DropChunk \/ CommitCleanUp
    \/ EnsureTables("indexer") \/ BeginInsert \/ AddChunk \/ AddHolder
    \/ CommitInsert \/ RollbackFile \/ SaveFingerprint \/ CommitFingerprint \/ EmbedFile

Environment ==
    \/ \E u \in Units : Publish(u)
    \/ \E f \in Files : StartFile(f)
    \/ \E t \in Threads : Fail(t)
    \/ Crash

Next == Poller \/ Indexer \/ Environment

Spec == Init /\ [][Next]_vars

\* Each thread takes its next step; the poller polls again and again.
FairSpec == Spec /\ WF_vars(Poller) /\ WF_vars(Indexer)
-----------------------------------------------------------------------------
Changes == 1 .. MaxChanges
Database == [fp : [Units -> 0 .. MaxChanges], rows : SUBSET Changes,
             cursor : 0 .. MaxChanges,
             chunk : SUBSET Files, holder : SUBSET Files, marked : SUBSET Files]
PollerSteps == {"idle", "manifest", "ensure", "begin", "units", "checkpoint", "commit",
                "rollback", "error"}
IndexerSteps == {"idle", "begin clean-up", "drop holder", "drop chunk",
                 "commit clean-up", "ensure", "begin insert", "add chunk",
                 "add holder", "commit insert", "rollback", "save fingerprint", "commit()",
                 "embed"}

TypeOK ==
    /\ db \in Database /\ durable \in Database /\ tx \in BOOLEAN
    /\ log \in Seq(Units) /\ Len(log) <= MaxChanges
    /\ stored \subseteq DOMAIN log /\ vectors \subseteq DOMAIN log
    /\ applied \subseteq RowPhases /\ missed \subseteq DOMAIN log
    /\ pc \in [Threads -> PollerSteps \cup IndexerSteps]
    /\ batch \subseteq DOMAIN log /\ fresh \subseteq batch /\ todo \subseteq batch
    /\ since \in 0 .. MaxChanges
    /\ file \in Files
    /\ failures \in 0 .. MaxFailures /\ crashes \in 0 .. MaxCrashes
    /\ files \in 0 .. MaxFiles

\* What the checkpoint has passed can be found, or the resume state kept it from
\* the store: nothing else loses a change, even where the two threads have
\* spoiled each other's transactions, since SurrealDB is written first.
CheckpointIndexed ==
    \A p \in DOMAIN log :
        p <= durable.cursor /\ ~Superseded(p) /\ log[p] \notin Hidden
            => p \in index \cup missed

\* What the checkpoint has passed can be found, resume state or not.
CheckpointFound ==
    \A p \in DOMAIN log :
        p <= durable.cursor /\ ~Superseded(p) /\ log[p] \notin Hidden => p \in index

\* A fingerprint on record makes a replayed change be skipped: its chunk is in
\* the index, unless the resume state kept it from the store.
FingerprintIndexed ==
    \A u \in Units \ Hidden : durable.fp[u] # 0 => durable.fp[u] \in index \cup missed

\* The checkpoint never goes back.
CheckpointForward == [][durable.cursor <= durable'.cursor]_vars

\* The checkpoint only passes changes that are on record: the fingerprint, and
\* the chunk row unless the unit is hidden.
CheckpointCoversUnits ==
    \A p \in DOMAIN log :
        p <= durable.cursor /\ ~Superseded(p) =>
            /\ durable.fp[log[p]] = p
            /\ log[p] \notin Hidden => p \in durable.rows

\* A note has its chunk row and its holder row or neither, in whatever a crash
\* would leave.
FileRowsTogether == durable.chunk = durable.holder

\* A change that is not overtaken by a later one of its unit is found at last,
\* unless the resume state kept it from the store.
EventuallyIndexed ==
    \A p \in Changes :
        (p \in DOMAIN log /\ log[p] \notin Hidden)
            ~> (p \in index \cup missed \/ Superseded(p))

\* Of an edited unit whose new text is on record, the old text cannot be found.
EditedTextReplaced ==
    \A p, q \in index : log[p] = log[q] /\ durable.fp[log[q]] = q => p >= q

\* And the checkpoint passes it at last.
EventuallyCheckpointed == \A p \in Changes : p \in DOMAIN log ~> p <= durable.cursor

\* The durable state moves from batch to batch.
Promise == INSTANCE SourceFeed WITH
    fp <- durable.fp, rows <- durable.rows, cursor <- durable.cursor
PromiseKept == Promise!Spec
=============================================================================
