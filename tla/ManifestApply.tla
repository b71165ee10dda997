--------------------------- MODULE ManifestApply ---------------------------
(***************************************************************************)
(* What applying manifests with one resume state promises the caller,      *)
(* whatever the batches and the order of the statements: only rows in the  *)
(* scope of the manifest change, each to its payload or to absent; a phase *)
(* is marked completed when it is in place, so the first manifest of a     *)
(* process that has rows for a phase gets them; the checkpoint moves, and  *)
(* the call returns, only when every phase that was not completed for an   *)
(* earlier manifest is in place.  A call may stop anywhere, and the same   *)
(* manifest may then be tried again.                                       *)
(***************************************************************************)
EXTENDS DeltaManifest

VARIABLES
    store,          \* the retrieval store: row -> payload or NoRow
    checkpoint,     \* cursor stored in the checkpoints table
    manifest,       \* the manifest of the current or last call
    status,         \* "idle", "running", "failed" or "returned"
    completed,      \* the phases of the process's resume state
    inherited       \* those of them completed before this manifest was tried

vars == <<store, checkpoint, manifest, status, completed, inherited>>

Init ==
    /\ store = [r \in Rows |-> NoRow]
    /\ checkpoint = NoCursor
    /\ manifest = NoManifest
    /\ status = "idle"
    /\ completed = {}
    /\ inherited = {}

Start(m) ==
    /\ status # "running"
    /\ manifest' = m
    /\ status' = "running"
    /\ inherited' = completed
    /\ UNCHANGED <<store, checkpoint, completed>>

\* Some rows in scope take the manifest's payload or disappear.
Work ==
    /\ status = "running"
    /\ store' \in [Rows -> Payloads \cup {NoRow}]
    /\ \A r \in Rows :
          \/ store'[r] = store[r]
          \/ /\ r \in Scope(manifest)
             /\ \/ store'[r] = NoRow
                \/ r \in DOMAIN manifest.puts /\ store'[r] = manifest.puts[r]
    /\ UNCHANGED <<checkpoint, manifest, status, completed, inherited>>

\* A phase of the manifest that is in place is marked.
Mark(p) ==
    /\ status = "running"
    /\ p \in Phases \ completed
    /\ PhaseRows(manifest, p) # {}
    /\ PhaseApplied(manifest, p, store)
    /\ completed' = completed \cup {p}
    /\ UNCHANGED <<store, checkpoint, manifest, status, inherited>>

Commit ==
    /\ status = "running"
    /\ CheckpointPhase \notin completed
    /\ AppliedBut(inherited, manifest, store)
    /\ checkpoint' = manifest.cursor
    /\ completed' = completed \cup {CheckpointPhase}
    /\ UNCHANGED <<store, manifest, status, inherited>>

Return ==
    /\ status = "running"
    /\ AppliedBut(inherited, manifest, store)
    /\ CheckpointPhase \in inherited \/ checkpoint = manifest.cursor
    /\ status' = "returned"
    /\ UNCHANGED <<store, checkpoint, manifest, completed, inherited>>

Stop ==
    /\ status = "running"
    /\ status' = "failed"
    /\ UNCHANGED <<store, checkpoint, manifest, completed, inherited>>

Resume ==
    /\ status = "failed"
    /\ status' = "running"
    /\ UNCHANGED <<store, checkpoint, manifest, completed, inherited>>

\* The process dies; the store survives.
Restart ==
    /\ status' = "idle"
    /\ manifest' = NoManifest
    /\ completed' = {}
    /\ inherited' = {}
    /\ UNCHANGED <<store, checkpoint>>

Next ==
    \/ \E m \in Manifests : Start(m)
    \/ \E p \in Phases : Mark(p)
    \/ Work \/ Commit \/ Return \/ Stop \/ Resume \/ Restart

Spec == Init /\ [][Next]_vars
=============================================================================
