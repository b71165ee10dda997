----------------------------- MODULE DeltaSync -----------------------------
(***************************************************************************)
(* run_surreal_delta_sync and SurrealDeltaStoreWriter: how one manifest is *)
(* written to SurrealDB row by row, with no transaction around the whole,  *)
(* so a failure or the death of the process leaves any prefix behind.      *)
(* The resume state (completed phases) is kept by the caller between       *)
(* calls: the pipeline, the only caller, has one for all the manifests of  *)
(* the process, so a phase some manifest completed is skipped for every    *)
(* later one.  A step is one statement sent to SurrealDB; a statement that *)
(* would not change the row is skipped by the code and stutters here.      *)
(***************************************************************************)
EXTENDS DeltaManifest

CONSTANTS
    BatchSize,          \* batch_size: rows per call of a writer method
    ChunkOf             \* the chunk row an embedding row belongs to

ASSUME SyncAssumption ==
    /\ BatchSize \in Nat \ {0}
    /\ ChunkOf \in [{r \in Rows : SectionOf[r] = "embeddings"} ->
                     {r \in Rows : SectionOf[r] = "chunks"}]

VARIABLES
    store,          \* the retrieval store: row -> payload or NoRow
    checkpoint,     \* cursor stored in the checkpoints table
    manifest,       \* the manifest of the current or last call
    status,         \* "idle", "running", "failed" or "returned"
    phase,          \* the phase the loop is at; 14 after the last
    written,        \* rows of that phase already handled in this call
    completed,      \* SurrealDeltaSyncState.completed_phases
    inherited       \* history: the phases that were completed by calls for
                    \* other manifests when this manifest was first tried

vars == <<store, checkpoint, manifest, status, phase, written, completed, inherited>>
call == <<manifest, status, phase, completed, inherited>>

Init ==
    /\ store = [r \in Rows |-> NoRow]
    /\ checkpoint = NoCursor
    /\ manifest = NoManifest
    /\ status = "idle"
    /\ phase = 1
    /\ written = {}
    /\ completed = {}
    /\ inherited = {}

-----------------------------------------------------------------------------
\* The call, for another manifest: _write_surreal_direct_manifest hands the
\* pipeline's one state object to it, with the phases that are completed.
Begin(m) ==
    /\ status # "running"
    /\ manifest' = m
    /\ status' = "running"
    /\ phase' = 1
    /\ written' = {}
    /\ inherited' = completed
    /\ UNCHANGED <<store, checkpoint, completed>>

\* The same manifest again with the state of the call that failed.
Retry ==
    /\ status = "failed"
    /\ status' = "running"
    /\ phase' = 1
    /\ written' = {}
    /\ UNCHANGED <<store, checkpoint, manifest, completed, inherited>>

\* Any statement may raise: last_error is recorded and the exception leaves.
Fail ==
    /\ status = "running"
    /\ status' = "failed"
    /\ UNCHANGED <<store, checkpoint, manifest, phase, written, completed, inherited>>

\* The process dies: the resume state was only in memory.
Crash ==
    /\ status' = "idle"
    /\ manifest' = NoManifest
    /\ phase' = 1
    /\ written' = {}
    /\ completed' = {}
    /\ inherited' = {}
    /\ UNCHANGED <<store, checkpoint>>

-----------------------------------------------------------------------------
\* Phases completed by an earlier call, and phases without rows, are skipped;
\* an empty phase is not recorded as completed.
Skippable(p) ==
    \/ p \in completed
    \/ p \in Phases \ {CheckpointPhase} /\ PhaseRows(manifest, p) = {}

SkipPhase ==
    /\ status = "running"
    /\ phase \in Phases
    /\ Skippable(phase)
    /\ phase' = phase + 1
    /\ written' = {}
    /\ UNCHANGED <<store, checkpoint, manifest, status, completed, inherited>>

\* The loop is inside phase p, which has rows to write.
InPhase(p) == status = "running" /\ phase = p /\ ~Skippable(p)

Pending == PhaseRows(manifest, phase) \ written

\* Rows are written in the order (table, ref).
FirstPending(r) == r \in Pending /\ \A s \in Pending : Rank[r] <= Rank[s]

\* The number of the batch r falls in when phase p is cut by _chunk_rows.
BatchOf(m, p, r) ==
    Cardinality({s \in PhaseRows(m, p) : Rank[s] < Rank[r]}) \div BatchSize

Batch ==
    {r \in PhaseRows(manifest, phase) :
        \E s \in Pending : /\ FirstPending(s)
                           /\ BatchOf(manifest, phase, r) = BatchOf(manifest, phase, s)}

\* Mutant: a phase is recorded after its first batch.
FinishFirstBatch ==
    /\ status = "running"
    /\ phase \in Phases \ {CheckpointPhase}
    /\ ~Skippable(phase)
    /\ Pending = {} \/ written # {}
    /\ completed' = completed \cup {phase}
    /\ phase' = phase + 1
    /\ written' = {}
    /\ UNCHANGED <<store, checkpoint, manifest, status, inherited>>

\* A phase is recorded when its last batch is written.
FinishPhase ==
    /\ status = "running"
    /\ phase \in Phases \ {CheckpointPhase}
    /\ ~Skippable(phase)
    /\ Pending = {}
    /\ completed' = completed \cup {phase}
    /\ phase' = phase + 1
    /\ written' = {}
    /\ UNCHANGED <<store, checkpoint, manifest, status, inherited>>

DeleteTombstone(r) ==
    /\ InPhase(TombstonePhase)
    /\ FirstPending(r)
    /\ store' = [store EXCEPT ![r] = NoRow]
    /\ written' = written \cup {r}
    /\ UNCHANGED <<checkpoint, call>>

\* A point upsert of any section but graph.
UpsertRow(r) ==
    /\ \E p \in Phases \ {TombstonePhase, GraphPhase, CheckpointPhase} : InPhase(p)
    /\ FirstPending(r)
    /\ store' = [store EXCEPT ![r] = manifest.puts[r]]
    /\ written' = written \cup {r}
    /\ UNCHANGED <<checkpoint, call>>

\* Mutant of Stale: every file's frontmatter relations count as stale.
StaleOfAnyFile(B) == {r \in Frontmatter \ B : store[r] # NoRow}

\* write_graph first deletes, for every file the batch mentions, the stored
\* frontmatter relations that the batch does not carry.
Stale(B) ==
    {r \in Frontmatter \ B : store[r] # NoRow /\ SourceFile[r] \in FilesTouchedBy(B)}

DeleteStaleRelation(r) ==
    /\ InPhase(GraphPhase)
    /\ r \in Stale(Batch)
    /\ store' = [store EXCEPT ![r] = NoRow]
    /\ UNCHANGED <<checkpoint, written, call>>

\* Mutant of UpsertNode: the row is not counted as handled.
UpsertNodeAgain(r) ==
    /\ InPhase(GraphPhase)
    /\ Stale(Batch) = {}
    /\ r \in (Batch \ Relations) \ written
    /\ \A s \in (Batch \ Relations) \ written : Rank[r] <= Rank[s]
    /\ store' = [store EXCEPT ![r] = manifest.puts[r]]
    /\ UNCHANGED <<checkpoint, written, call>>

\* Then its nodes are upserted one at a time, ...
UpsertNode(r) ==
    /\ InPhase(GraphPhase)
    /\ Stale(Batch) = {}
    /\ r \in (Batch \ Relations) \ written
    /\ \A s \in (Batch \ Relations) \ written : Rank[r] <= Rank[s]
    /\ store' = [store EXCEPT ![r] = manifest.puts[r]]
    /\ written' = written \cup {r}
    /\ UNCHANGED <<checkpoint, call>>

\* ... and its relations inserted with one statement at the end.
InsertRelations ==
    /\ InPhase(GraphPhase)
    /\ Stale(Batch) = {}
    /\ Batch \ Relations \subseteq written
    /\ Batch \cap Relations # {}
    /\ store' = [r \in Rows |->
                    IF r \in Batch \cap Relations THEN manifest.puts[r] ELSE store[r]]
    /\ written' = written \cup Batch
    /\ UNCHANGED <<checkpoint, call>>

WriteCheckpoint ==
    /\ InPhase(CheckpointPhase)
    /\ checkpoint' = manifest.cursor
    /\ completed' = completed \cup {CheckpointPhase}
    /\ phase' = phase + 1
    /\ written' = {}
    /\ UNCHANGED <<store, manifest, status, inherited>>

Return ==
    /\ status = "running"
    /\ phase = 14
    /\ status' = "returned"
    /\ UNCHANGED <<store, checkpoint, manifest, phase, written, completed, inherited>>

-----------------------------------------------------------------------------
Step ==
    \/ SkipPhase \/ FinishPhase \/ InsertRelations \/ WriteCheckpoint \/ Return
    \/ \E r \in Rows :
          \/ DeleteTombstone(r) \/ UpsertRow(r)
          \/ DeleteStaleRelation(r) \/ UpsertNode(r)

Next ==
    \/ \E m \in Manifests : Begin(m)
    \/ Retry \/ Fail \/ Crash \/ Step

Spec == Init /\ [][Next]_vars

\* The runner is a straight loop in one thread: while it is called, it steps.
FairSpec == Spec /\ WF_vars(Step)

-----------------------------------------------------------------------------
TypeOK ==
    /\ store \in [Rows -> Payloads \cup {NoRow}]
    /\ checkpoint \in Cursors \cup {NoCursor}
    /\ manifest \in Manifests \cup {NoManifest}
    /\ status \in {"idle", "running", "failed", "returned"}
    /\ (status = "idle") <=> (manifest = NoManifest)
    /\ phase \in 1..14
    /\ written \subseteq Rows
    /\ completed \subseteq Phases
    /\ inherited \subseteq completed

Embeddings == DOMAIN ChunkOf

\* The builders give every embedding row its chunk row.
EmbeddingsHaveChunks ==
    \A m \in Manifests : \A e \in DOMAIN m.puts \cap Embeddings : ChunkOf[e] \in DOMAIN m.puts

\* The frontmatter relations of one file are never cut into two batches.
FilesWithinBatch ==
    \A m \in Manifests : \A r, s \in GraphRows(m) \cap Frontmatter :
        SourceFile[r] = SourceFile[s] =>
            BatchOf(m, GraphPhase, r) = BatchOf(m, GraphPhase, s)

-----------------------------------------------------------------------------
\* What run_surreal_delta_sync says of itself ("Apply a manifest"): a call
\* that returned has put the whole manifest in the store.  It has not, when
\* the state says that an earlier manifest had completed a phase.
ReturnedMeansApplied ==
    status = "returned" =>
        AppliedBut({}, manifest, store) /\ checkpoint = manifest.cursor

\* The resume state is the only thing that keeps rows out: a call that
\* returned has applied every phase it did not inherit as completed, over any
\* number of failures and tries.  PromiseKept says so too (Return).
ReturnedAppliesTheRest ==
    status = "returned" =>
        /\ AppliedBut(inherited, manifest, store)
        /\ CheckpointPhase \in inherited \/ checkpoint = manifest.cursor

\* A phase recorded since this manifest was first tried is in place, whatever
\* was written before a failure: what a retry skips on account of its own
\* earlier calls is not missing.
ResumeStateSound ==
    status # "idle" => \A p \in completed \ inherited : PhaseApplied(manifest, p, store)

\* The checkpoint never moves ahead of the rows it stands for, but for phases
\* the call inherited.  PromiseKept says so too (Commit).
CheckpointLast ==
    [][checkpoint' # checkpoint => AppliedBut(inherited, manifest, store)]_vars

\* An embedding becomes searchable only when the chunk row a hit is resolved
\* with is already stored, unless the chunks of this manifest are skipped
\* because an earlier manifest completed that phase and then failed.
EmbeddingAfterChunk ==
    [][\A e \in Embeddings :
          store[e] = NoRow /\ store'[e] # NoRow =>
              store[ChunkOf[e]] # NoRow \/ PhaseNo.chunks \in inherited]_vars

\* Deleting stale relations and inserting wanted ones never chase each other:
\* a call comes to an end.
CallEnds == (status = "running") ~> (status # "running")

\* No embedding is ever stored without its chunk: service.py raises "missing
\* source provenance" for a whole search that hits one.
NoDanglingEmbedding ==
    \A e \in Embeddings : store[e] # NoRow => store[ChunkOf[e]] # NoRow

\* The frontmatter relations a returned manifest carries are stored, unless
\* its graph phase was skipped altogether.
FrontmatterWritten ==
    status = "returned" /\ GraphPhase \notin inherited =>
        \A r \in DOMAIN manifest.puts \cap Frontmatter : store[r] = manifest.puts[r]

\* Applying a manifest in phases implements applying it as promised.
Promise == INSTANCE ManifestApply
PromiseKept == Promise!Spec
=============================================================================
