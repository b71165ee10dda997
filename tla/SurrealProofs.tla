---------------------------- MODULE SurrealProofs ----------------------------
(***************************************************************************)
(* Proofs about what is written to SurrealDB.  First the rows: DeltaSync,  *)
(* for every set of rows and manifests and every batch size.  Then the     *)
(* definitions: SchemaIndex, for any plan, any shards and databases, any   *)
(* number of processes that start at once, of builds and of faults, when   *)
(* nothing takes effect after its client was killed (SchemaSpec).  Last    *)
(* the tools: Coverage, for any rows, lists of any length and any number   *)
(* of manifests and failures.                                              *)
(***************************************************************************)
EXTENDS DeltaSync, SchemaIndex, Coverage, FiniteSetTheorems, SequenceTheorems, TLAPS

\* Row r of phase p is as the manifest wants it.
RowDone(m, st, p, r) ==
    IF p = TombstonePhase THEN r \in DOMAIN m.puts \/ st[r] = NoRow
    ELSE st[r] = m.puts[r]

Done(p) == p \in completed \/ (p \in Phases \ {CheckpointPhase} /\ PhaseRows(manifest, p) = {})

\* The phases completed by the calls for this manifest.
Own == completed \ inherited

\* The phases before the one the loop is at are done, and this manifest's
\* phases complete in order.
InOrder ==
    /\ status = "running" => \A p \in Phases : p < phase => Done(p)
    /\ \A q \in Own, p \in Phases : p < q => Done(p)

\* Rows of its completed phases, and rows already written in this one, are in
\* place.
RowsHold ==
    /\ \A p \in Own : \A r \in PhaseRows(manifest, p) :
          RowDone(manifest, store, p, r)
    /\ status = "running" /\ phase \in Phases =>
          /\ written \subseteq PhaseRows(manifest, phase)
          /\ \A r \in written : RowDone(manifest, store, phase, r)

\* Batches of the graph phase are written one after the other.
BatchesInOrder ==
    status = "running" /\ phase = GraphPhase =>
        \A r \in written, s \in Pending :
            BatchOf(manifest, GraphPhase, r) <= BatchOf(manifest, GraphPhase, s)

CheckpointHolds ==
    /\ CheckpointPhase \in Own => checkpoint = manifest.cursor
    /\ status = "returned" => \A p \in Phases : Done(p)

SyncInv ==
    /\ TypeOK
    /\ status # "idle" => InOrder /\ RowsHold /\ BatchesInOrder /\ CheckpointHolds
-----------------------------------------------------------------------------
\* A row's phase is one of the sections'; upserted rows are in their phase.
LEMMA PhaseOfRow ==
    /\ \A r \in Rows : PhaseOf(r) \in 2..12
    /\ \A r \in Frontmatter \cup FileNodes \cup Relations : r \in Rows /\ PhaseOf(r) = GraphPhase
BY RowsAssumption, GraphAssumption DEF PhaseOf, PhaseNo, GraphPhase

\* What the rows of a phase are.
LEMMA PhaseRowsOf ==
    ASSUME NEW m \in Manifests, NEW p \in Phases
    PROVE  /\ PhaseRows(m, p) \subseteq Rows
           /\ p # TombstonePhase =>
                 /\ PhaseRows(m, p) \subseteq DOMAIN m.puts
                 /\ \A r \in PhaseRows(m, p) : PhaseOf(r) = p
           /\ PhaseRows(m, TombstonePhase) = m.tombs
           /\ PhaseRows(m, CheckpointPhase) = {}
BY ManifestAssumption, PhaseOfRow
   DEF PhaseRows, TombstonePhase, CheckpointPhase, Phases

\* Integer division by a positive number is monotone.
LEMMA DivMonotone ==
    ASSUME NEW a \in Nat, NEW b \in Nat, NEW n \in Nat \ {0}, a <= b
    PROVE  a \div n <= b \div n
<1> DEFINE q == a \div n
           t == b \div n
<1>1. q \in Int /\ n * q <= a
  OBVIOUS
<1>2. t \in Int /\ b < n * t + n
  OBVIOUS
<1> HIDE DEF q, t
<1>3. n * q < n * t + n
  BY <1>1, <1>2
<1>4. ~(t + 1 <= q)
  <2> SUFFICES ASSUME t + 1 <= q PROVE FALSE
    OBVIOUS
  <2>1. n * (t + 1) <= n * q
    BY <1>1, <1>2
  <2>2. n * (t + 1) = n * t + n
    BY <1>2
  <2> QED BY <2>1, <2>2, <1>3, <1>1, <1>2
<1>5. q <= t
  BY <1>4, <1>1, <1>2
<1> QED BY <1>5 DEF q, t

\* A row that sorts later is not in an earlier batch.
LEMMA BatchMonotone ==
    ASSUME NEW m \in Manifests, NEW r \in Rows, NEW s \in Rows, Rank[r] <= Rank[s]
    PROVE  /\ BatchOf(m, GraphPhase, r) \in Int
           /\ BatchOf(m, GraphPhase, r) <= BatchOf(m, GraphPhase, s)
<1> DEFINE before(x) == {y \in PhaseRows(m, GraphPhase) : Rank[y] < Rank[x]}
<1>1. GraphPhase \in Phases /\ GraphPhase # TombstonePhase
  BY DEF GraphPhase, Phases, TombstonePhase
<1>2. IsFiniteSet(before(r)) /\ IsFiniteSet(before(s))
  <2>1. before(r) \subseteq DOMAIN m.puts /\ before(s) \subseteq DOMAIN m.puts
    BY <1>1, PhaseRowsOf
  <2>2. IsFiniteSet(DOMAIN m.puts)
    BY ManifestAssumption
  <2> QED BY <2>1, <2>2, FS_Subset
<1>3. before(r) \subseteq before(s)
  <2>1. PhaseRows(m, GraphPhase) \subseteq Rows
    BY <1>1, PhaseRowsOf
  <2>2. \A x \in Rows : Rank[x] \in Int
    BY RowsAssumption
  <2> QED BY <2>1, <2>2
<1>4. /\ Cardinality(before(r)) \in Nat /\ Cardinality(before(s)) \in Nat
      /\ Cardinality(before(r)) <= Cardinality(before(s))
  BY <1>2, <1>3, FS_CardinalityType, FS_Subset
<1>5. BatchSize \in Nat \ {0}
  BY SyncAssumption
<1>6. Cardinality(before(r)) \div BatchSize <= Cardinality(before(s)) \div BatchSize
  BY <1>4, <1>5, DivMonotone
<1>7. Cardinality(before(r)) \div BatchSize \in Int
  BY <1>4, <1>5
<1> QED BY <1>6, <1>7 DEF BatchOf

-----------------------------------------------------------------------------
\* A step keeps every variable in its type.
LEMMA TypeStep == TypeOK /\ [Next]_vars => TypeOK'
<1> USE ManifestAssumption DEF TypeOK
<1> SUFFICES ASSUME TypeOK, [Next]_vars PROVE TypeOK'
  OBVIOUS
<1>1. CASE \E m \in Manifests : Begin(m)
  BY <1>1 DEF Begin
<1>2. CASE Retry \/ Fail \/ Crash
  BY <1>2 DEF Retry, Fail, Crash
<1>3. CASE SkipPhase
  BY <1>3 DEF SkipPhase, Phases
<1>4. CASE FinishPhase
  BY <1>4 DEF FinishPhase, Phases, CheckpointPhase
<1>5. CASE WriteCheckpoint
  <2>1. manifest \in Manifests
    BY <1>5 DEF WriteCheckpoint, InPhase
  <2> QED BY <1>5, <2>1 DEF WriteCheckpoint, InPhase, Phases, CheckpointPhase
<1>6. CASE Return
  BY <1>6 DEF Return
<1>7. ASSUME NEW r \in Rows, DeleteTombstone(r) PROVE TypeOK'
  BY <1>7 DEF DeleteTombstone, call
<1>8. ASSUME NEW r \in Rows, DeleteStaleRelation(r) PROVE TypeOK'
  BY <1>8 DEF DeleteStaleRelation, call
<1>9. ASSUME NEW r \in Rows, UpsertRow(r) \/ UpsertNode(r) PROVE TypeOK'
  <2>1. /\ manifest \in Manifests
        /\ phase \in Phases \ {TombstonePhase}
        /\ r \in PhaseRows(manifest, phase)
    BY <1>9 DEF UpsertRow, UpsertNode, InPhase, FirstPending, Pending, Batch,
                Phases, GraphPhase, TombstonePhase
  <2>2. manifest.puts[r] \in Payloads
    BY <2>1, PhaseRowsOf
  <2> QED BY <1>9, <2>2 DEF UpsertRow, UpsertNode, call
<1>10. CASE InsertRelations
  <2>1. /\ manifest \in Manifests
        /\ phase \in Phases \ {TombstonePhase}
        /\ Batch \subseteq PhaseRows(manifest, phase)
    BY <1>10 DEF InsertRelations, InPhase, Batch, Phases, GraphPhase, TombstonePhase
  <2>2. /\ Batch \subseteq Rows
        /\ \A r \in Batch : manifest.puts[r] \in Payloads
    BY <2>1, PhaseRowsOf
  <2> QED BY <1>10, <2>2 DEF InsertRelations, call
<1>11. CASE UNCHANGED vars
  BY <1>11 DEF vars
<1> QED BY <1>1, <1>2, <1>3, <1>4, <1>5, <1>6, <1>7, <1>8, <1>9, <1>10, <1>11
        DEF Next, Step

\* Every reachable state has its type.
THEOREM TypeCorrect == Spec => []TypeOK
<1>1. Init => TypeOK
  BY DEF Init, Phases, TypeOK
<1> QED BY <1>1, TypeStep, PTL DEF Spec

-----------------------------------------------------------------------------
\* In a phase whose rows are being written this manifest has completed no
\* later phase, and not the phase itself.
LEMMA NoLaterPhase ==
    ASSUME NEW p \in Phases, InOrder, InPhase(p), completed \subseteq Phases
    PROVE  \A q \in Own : q < p
BY DEF InOrder, InPhase, Skippable, Done, Phases, Own

\* A statement that puts the manifest's payload in some of its rows leaves
\* every row that is in place in place.
LEMMA PutsKeepRows ==
    ASSUME NEW m \in Manifests, NEW st, NEW st2, NEW p \in Phases,
           NEW r \in PhaseRows(m, p), RowDone(m, st, p, r),
           \A s \in Rows : st2[s] = st[s] \/ (s \in DOMAIN m.puts /\ st2[s] = m.puts[s])
    PROVE  RowDone(m, st2, p, r)
BY PhaseRowsOf DEF RowDone

\* When every phase is done, what was not inherited is in the store.
LEMMA AllDoneApplied ==
    ASSUME manifest \in Manifests, RowsHold,
           \A p \in Phases \ {CheckpointPhase} : Done(p)
    PROVE  AppliedBut(inherited, manifest, store)
<1> SUFFICES ASSUME NEW p \in Phases \ inherited, NEW r \in PhaseRows(manifest, p)
             PROVE  RowDone(manifest, store, p, r)
  BY DEF AppliedBut, PhaseApplied, RowDone
<1>1. p # CheckpointPhase
  BY PhaseRowsOf
<1>2. p \in Own
  BY <1>1 DEF Done, Own
<1> QED BY <1>2 DEF RowsHold

\* A stale relation is not a row of the manifest that is already written:
\* its file's relations are all in one batch, and the batch being written is
\* not an earlier one.
LEMMA StaleNotWritten ==
    ASSUME SyncInv, FilesWithinBatch, InPhase(GraphPhase), NEW r \in Stale(Batch)
    PROVE  r \notin written
<1>1. /\ manifest \in Manifests /\ phase = GraphPhase /\ status = "running"
      /\ InOrder /\ RowsHold /\ BatchesInOrder
      /\ r \in Frontmatter /\ r \notin Batch /\ SourceFile[r] \in FilesTouchedBy(Batch)
  BY DEF SyncInv, TypeOK, InPhase, Stale
<1>2. PICK s \in Batch : s = SourceFile[r] \/ (s \in Frontmatter /\ SourceFile[s] = SourceFile[r])
  BY <1>1 DEF FilesTouchedBy
<1>3. PICK f \in Pending :
         /\ FirstPending(f) /\ s \in PhaseRows(manifest, GraphPhase)
         /\ BatchOf(manifest, GraphPhase, s) = BatchOf(manifest, GraphPhase, f)
  BY <1>1, <1>2 DEF Batch, FirstPending
<1>4. SUFFICES ASSUME r \in written PROVE FALSE
  OBVIOUS
<1>5. GraphPhase \in Phases
  BY DEF GraphPhase, Phases
<1>6. /\ r \in PhaseRows(manifest, GraphPhase)
      /\ BatchOf(manifest, GraphPhase, r) <= BatchOf(manifest, GraphPhase, f)
  BY <1>1, <1>3, <1>4, <1>5 DEF RowsHold, BatchesInOrder
<1>7. BatchOf(manifest, GraphPhase, s) <= BatchOf(manifest, GraphPhase, r)
  <2>1. s \in Rows /\ r \in Rows
    BY <1>1, <1>3, <1>5, <1>6, PhaseRowsOf
  <2>2. CASE s = SourceFile[r]
    <3>1. Rank[s] < Rank[r] /\ Rank[s] \in Int /\ Rank[r] \in Int
      BY <1>1, <2>1, <2>2, GraphAssumption, RowsAssumption
    <3> QED BY <1>1, <2>1, <3>1, BatchMonotone
  <2>3. CASE s \in Frontmatter /\ SourceFile[s] = SourceFile[r]
    <3>1. BatchOf(manifest, GraphPhase, s) = BatchOf(manifest, GraphPhase, r)
      BY <1>1, <1>3, <1>6, <2>3 DEF FilesWithinBatch, GraphRows
    <3> QED BY <1>1, <2>1, <3>1, BatchMonotone, RowsAssumption
  <2> QED BY <1>2, <2>2, <2>3
<1>8. BatchOf(manifest, GraphPhase, r) = BatchOf(manifest, GraphPhase, f)
  <2>1. s \in Rows /\ r \in Rows /\ f \in Rows
    BY <1>1, <1>3, <1>5, <1>6, PhaseRowsOf DEF Pending
  <2>2. /\ BatchOf(manifest, GraphPhase, r) \in Int
        /\ BatchOf(manifest, GraphPhase, s) \in Int
        /\ BatchOf(manifest, GraphPhase, f) \in Int
    BY <1>1, <2>1, BatchMonotone, RowsAssumption
  <2> QED BY <1>3, <1>6, <1>7, <2>2
<1>9. r \in Batch
  BY <1>1, <1>3, <1>6, <1>8 DEF Batch
<1> QED BY <1>1, <1>9

\* The rows the two upserting statements of a phase write are the manifest's.
LEMMA PutStatements ==
    ASSUME SyncInv, NEW B, B \subseteq PhaseRows(manifest, phase) \cap DOMAIN manifest.puts,
           status = "running", phase \in Phases \ {TombstonePhase},
           written' = written \cup B,
           store' = [r \in Rows |-> IF r \in B THEN manifest.puts[r] ELSE store[r]],
           UNCHANGED call
    PROVE  RowsHold'
<1>1. manifest \in Manifests /\ RowsHold /\ Own \subseteq Phases
  BY DEF SyncInv, TypeOK, Own
<1>2. /\ manifest' = manifest /\ status' = status /\ phase' = phase
      /\ Own' = Own
  BY DEF call, Own
<1>3. \A s \in Rows :
         store'[s] = store[s] \/ (s \in DOMAIN manifest.puts /\ store'[s] = manifest.puts[s])
  OBVIOUS
<1>4. ASSUME NEW p \in Own, NEW r \in PhaseRows(manifest, p)
      PROVE  RowDone(manifest, store', p, r)
  BY <1>1, <1>3, PutsKeepRows DEF RowsHold
<1>5. ASSUME NEW r \in written PROVE RowDone(manifest, store', phase, r)
  BY <1>1, <1>3, PutsKeepRows DEF RowsHold
<1>6. ASSUME NEW r \in B PROVE RowDone(manifest, store', phase, r)
  <2>1. r \in Rows
    BY <1>1, PhaseRowsOf
  <2> QED BY <2>1 DEF RowDone
<1> QED BY <1>1, <1>2, <1>4, <1>5, <1>6 DEF RowsHold

\* Writing rows of the first unfinished batch keeps the batches in order.
LEMMA BatchStatements ==
    ASSUME SyncInv, InPhase(GraphPhase), NEW B, B \subseteq Batch,
           written' = written \cup B, UNCHANGED call
    PROVE  BatchesInOrder'
<1>1. /\ manifest \in Manifests /\ phase = GraphPhase /\ status = "running"
      /\ BatchesInOrder
  BY DEF SyncInv, TypeOK, InPhase
<1>2. manifest' = manifest /\ status' = status /\ phase' = phase
  BY DEF call
<1>3. GraphPhase \in Phases
  BY DEF GraphPhase, Phases
<1>4. Pending' \subseteq Pending
  BY <1>2 DEF Pending
<1>5. ASSUME NEW r \in B, NEW s \in Pending
      PROVE  BatchOf(manifest, GraphPhase, r) <= BatchOf(manifest, GraphPhase, s)
  <2>1. PICK f \in Pending :
           /\ \A x \in Pending : Rank[f] <= Rank[x]
           /\ BatchOf(manifest, GraphPhase, r) = BatchOf(manifest, GraphPhase, f)
    BY <1>1 DEF Batch, FirstPending
  <2>2. f \in Rows /\ s \in Rows /\ Rank[f] <= Rank[s]
    BY <1>1, <1>3, <2>1, PhaseRowsOf DEF Pending
  <2> QED BY <1>1, <2>1, <2>2, BatchMonotone
<1> QED BY <1>1, <1>2, <1>4, <1>5 DEF BatchesInOrder

\* The invariant holds initially.
LEMMA SyncInvInit == Init => SyncInv
BY DEF Init, SyncInv, TypeOK, Phases

\* Every step keeps it.
LEMMA SyncInvStep ==
    ASSUME FilesWithinBatch, SyncInv, [Next]_vars
    PROVE  SyncInv'
<1>1. TypeOK'
  BY TypeStep DEF SyncInv
<1>2. CASE UNCHANGED vars
  BY <1>2 DEF vars, SyncInv, TypeOK, InOrder, RowsHold, BatchesInOrder, CheckpointHolds,
              Done, Pending, Own
<1>3. ASSUME NEW m \in Manifests, Begin(m) PROVE SyncInv'
  BY <1>1, <1>3 DEF Begin, SyncInv, InOrder, RowsHold, BatchesInOrder,
                    CheckpointHolds, Phases, CheckpointPhase, Own
<1>4. CASE Retry
  <2>1. InOrder' /\ RowsHold'
    BY <1>4 DEF Retry, SyncInv, InOrder, RowsHold, Done, Phases, Own
  <2>2. BatchesInOrder' /\ CheckpointHolds'
    BY <1>4 DEF Retry, SyncInv, BatchesInOrder, CheckpointHolds, Own
  <2> QED BY <1>1, <2>1, <2>2 DEF SyncInv
<1>5. CASE Fail
  <2>1. InOrder' /\ RowsHold' /\ BatchesInOrder' /\ CheckpointHolds'
    BY <1>5 DEF Fail, SyncInv, InOrder, RowsHold, Done, BatchesInOrder, CheckpointHolds, Own
  <2> QED BY <1>1, <2>1 DEF SyncInv
<1>6. CASE Crash
  BY <1>1, <1>6 DEF Crash, SyncInv
<1>7. CASE SkipPhase
  <2>1. Done(phase)
    BY <1>7 DEF SkipPhase, Skippable, Done
  <2>2. InOrder'
    BY <1>7, <2>1 DEF SkipPhase, SyncInv, TypeOK, InOrder, Done, Phases, Own
  <2>3. RowsHold' /\ BatchesInOrder' /\ CheckpointHolds'
    BY <1>7 DEF SkipPhase, SyncInv, RowsHold, BatchesInOrder, CheckpointHolds, Own
  <2> QED BY <1>1, <2>2, <2>3 DEF SyncInv
<1>8. CASE FinishPhase
  <2>1. /\ InPhase(phase) /\ phase \in Phases /\ completed \subseteq Phases /\ InOrder
        /\ Own' = Own \cup {phase}
    BY <1>8 DEF FinishPhase, InPhase, SyncInv, TypeOK, Skippable, Own
  <2>2. \A q \in Own : q < phase
    BY <2>1, NoLaterPhase
  <2>3. InOrder'
    BY <1>8, <2>1, <2>2 DEF FinishPhase, InOrder, Done, Phases, Own
  <2>4. \A r \in PhaseRows(manifest, phase) : RowDone(manifest, store, phase, r)
    BY <1>8, <2>1 DEF FinishPhase, SyncInv, RowsHold, Pending
  <2>5. RowsHold' /\ BatchesInOrder' /\ CheckpointHolds'
    BY <1>8, <2>1, <2>4 DEF FinishPhase, SyncInv, RowsHold, BatchesInOrder, CheckpointHolds
  <2> QED BY <1>1, <2>3, <2>5 DEF SyncInv
<1>9. CASE WriteCheckpoint
  <2>1. /\ InPhase(phase) /\ phase = CheckpointPhase /\ InOrder /\ completed \subseteq Phases
        /\ Own' = Own \cup {CheckpointPhase}
    BY <1>9 DEF WriteCheckpoint, InPhase, SyncInv, TypeOK, Skippable, Own
  <2>2. InOrder'
    BY <1>9, <2>1 DEF WriteCheckpoint, InPhase, InOrder, Done, Phases, CheckpointPhase, Own
  <2>3. PhaseRows(manifest, CheckpointPhase) = {}
    BY <1>9, <2>1, PhaseRowsOf DEF InPhase, SyncInv, TypeOK, Phases, CheckpointPhase
  <2>4. RowsHold'
    <3>1. phase' \notin Phases
      BY <1>9, <2>1 DEF WriteCheckpoint, Phases, CheckpointPhase
    <3>2. \A p \in Own : \A r \in PhaseRows(manifest, p) : RowDone(manifest, store, p, r)
      BY <2>1 DEF SyncInv, RowsHold, InPhase
    <3> QED BY <1>9, <2>1, <2>3, <3>1, <3>2 DEF WriteCheckpoint, RowsHold
  <2>5. BatchesInOrder' /\ CheckpointHolds'
    BY <1>9, <2>1 DEF WriteCheckpoint, SyncInv, BatchesInOrder, CheckpointHolds, InPhase
  <2> QED BY <1>1, <2>2, <2>4, <2>5 DEF SyncInv
<1>10. CASE Return
  <2>1. \A p \in Phases : Done(p)
    BY <1>10 DEF Return, SyncInv, InOrder, Phases
  <2>2. InOrder' /\ RowsHold' /\ BatchesInOrder' /\ CheckpointHolds'
    BY <1>10, <2>1
       DEF Return, SyncInv, InOrder, RowsHold, Done, BatchesInOrder, CheckpointHolds, Own
  <2> QED BY <1>1, <2>2 DEF SyncInv
<1>11. ASSUME NEW r \in Rows, DeleteTombstone(r) PROVE SyncInv'
  <2>1. /\ InPhase(TombstonePhase) /\ phase = TombstonePhase /\ TombstonePhase \in Phases
        /\ completed \subseteq Phases /\ InOrder
        /\ r \in PhaseRows(manifest, TombstonePhase)
    BY <1>11 DEF DeleteTombstone, InPhase, FirstPending, Pending, SyncInv, TypeOK,
                 TombstonePhase, Phases
  <2>2. Own = {}
    <3>1. \A q \in Own : q < 1
      BY <2>1, NoLaterPhase DEF TombstonePhase
    <3>2. \A q \in Own : q \in Int /\ 1 <= q
      BY <2>1 DEF Phases, Own
    <3> QED BY <3>1, <3>2
  <2>3. RowsHold'
    <3>1. \A s \in written \cup {r} : RowDone(manifest, store', TombstonePhase, s)
      BY <1>11, <2>1 DEF DeleteTombstone, SyncInv, TypeOK, RowsHold, RowDone, InPhase
    <3>2. written \cup {r} \subseteq PhaseRows(manifest, TombstonePhase)
      BY <2>1 DEF SyncInv, RowsHold, InPhase
    <3> QED BY <1>11, <2>1, <2>2, <3>1, <3>2 DEF DeleteTombstone, call, RowsHold, Own
  <2>4. InOrder' /\ BatchesInOrder' /\ CheckpointHolds'
    <3>1. /\ checkpoint' = checkpoint /\ manifest' = manifest /\ status' = status
          /\ phase' = phase /\ completed' = completed /\ Own' = Own
      BY <1>11 DEF DeleteTombstone, call, Own
    <3>2. CheckpointHolds /\ phase # GraphPhase
      BY <2>1 DEF SyncInv, InPhase, TombstonePhase, GraphPhase
    <3> QED BY <2>1, <3>1, <3>2 DEF InOrder, Done, BatchesInOrder, CheckpointHolds
  <2> QED BY <1>1, <2>3, <2>4 DEF SyncInv
<1>12. ASSUME NEW r \in Rows, UpsertRow(r) PROVE SyncInv'
  <2>1. /\ status = "running" /\ phase \in Phases \ {TombstonePhase, GraphPhase}
        /\ manifest \in Manifests
        /\ r \in PhaseRows(manifest, phase)
    BY <1>12 DEF UpsertRow, InPhase, FirstPending, Pending, SyncInv, TypeOK
  <2>2. {r} \subseteq PhaseRows(manifest, phase) \cap DOMAIN manifest.puts
    BY <2>1, PhaseRowsOf
  <2>3. store' = [s \in Rows |-> IF s \in {r} THEN manifest.puts[s] ELSE store[s]]
    BY <1>12 DEF UpsertRow, SyncInv, TypeOK
  <2>4. RowsHold'
    BY <1>12, <2>1, <2>2, <2>3, PutStatements DEF UpsertRow
  <2>5. InOrder' /\ BatchesInOrder' /\ CheckpointHolds'
    BY <1>12, <2>1
       DEF UpsertRow, call, SyncInv, InOrder, Done, BatchesInOrder, CheckpointHolds, Own
  <2> QED BY <1>1, <2>4, <2>5 DEF SyncInv
<1>13. ASSUME NEW r \in Rows, DeleteStaleRelation(r) PROVE SyncInv'
  <2>1. /\ InPhase(GraphPhase) /\ r \in Stale(Batch) /\ r \notin written
        /\ r \in Frontmatter /\ manifest \in Manifests /\ RowsHold /\ InOrder
        /\ completed \subseteq Phases /\ store \in [Rows -> Payloads \cup {NoRow}]
    BY <1>13, StaleNotWritten DEF DeleteStaleRelation, Stale, SyncInv, TypeOK, InPhase
  <2>2. /\ store' = [store EXCEPT ![r] = NoRow] /\ written' = written
        /\ manifest' = manifest /\ status' = status /\ phase' = phase
        /\ completed' = completed /\ Own' = Own
    BY <1>13 DEF DeleteStaleRelation, call, Own
  <2>3. ASSUME NEW p \in Own, NEW s \in PhaseRows(manifest, p)
        PROVE  RowDone(manifest, store', p, s)
    <3>1. p < GraphPhase /\ p \in Phases
      <4>1. GraphPhase \in Phases
        BY DEF GraphPhase, Phases
      <4> QED BY <2>1, <4>1, NoLaterPhase DEF Own
    <3>2. RowDone(manifest, store, p, s) /\ s \in Rows
      BY <2>1, <3>1, PhaseRowsOf DEF RowsHold
    <3>3. CASE p = TombstonePhase
      BY <2>1, <2>2, <3>2, <3>3 DEF RowDone
    <3>4. CASE p # TombstonePhase
      <4>1. s # r
        BY <2>1, <3>1, <3>4, PhaseRowsOf, PhaseOfRow DEF GraphPhase
      <4> QED BY <2>1, <2>2, <3>2, <3>4, <4>1 DEF RowDone
    <3> QED BY <3>3, <3>4
  <2>4. RowsHold'
    <3>1. \A s \in written : RowDone(manifest, store', GraphPhase, s)
      <4>1. GraphPhase \in Phases /\ GraphPhase # TombstonePhase
        BY DEF GraphPhase, TombstonePhase, Phases
      <4>2. written \subseteq Rows
        BY DEF SyncInv, TypeOK
      <4> QED BY <2>1, <2>2, <4>1, <4>2 DEF RowsHold, RowDone, InPhase
    <3> QED BY <2>1, <2>2, <2>3, <3>1 DEF RowsHold, InPhase
  <2>5. InOrder' /\ BatchesInOrder' /\ CheckpointHolds'
    <3>1. checkpoint' = checkpoint
      BY <1>13 DEF DeleteStaleRelation
    <3> QED BY <2>1, <2>2, <3>1
            DEF SyncInv, InOrder, Done, BatchesInOrder, CheckpointHolds, Pending, InPhase
  <2> QED BY <1>1, <2>4, <2>5 DEF SyncInv
<1>14. ASSUME NEW r \in Rows, UpsertNode(r) PROVE SyncInv'
  <2>1. /\ InPhase(GraphPhase) /\ status = "running" /\ phase = GraphPhase
        /\ phase \in Phases \ {TombstonePhase} /\ manifest \in Manifests
        /\ {r} \subseteq Batch
        /\ r \in PhaseRows(manifest, phase)
    BY <1>14 DEF UpsertNode, InPhase, Batch, SyncInv, TypeOK, GraphPhase, Phases, TombstonePhase
  <2>2. {r} \subseteq PhaseRows(manifest, phase) \cap DOMAIN manifest.puts
    BY <2>1, PhaseRowsOf
  <2>3. store' = [s \in Rows |-> IF s \in {r} THEN manifest.puts[s] ELSE store[s]]
    BY <1>14 DEF UpsertNode, SyncInv, TypeOK
  <2>4. RowsHold'
    BY <1>14, <2>1, <2>2, <2>3, PutStatements DEF UpsertNode
  <2>5. BatchesInOrder'
    BY <1>14, <2>1, BatchStatements DEF UpsertNode
  <2>6. InOrder' /\ CheckpointHolds'
    BY <1>14, <2>1 DEF UpsertNode, call, SyncInv, InOrder, Done, CheckpointHolds, Own
  <2> QED BY <1>1, <2>4, <2>5, <2>6 DEF SyncInv
<1>15. CASE InsertRelations
  <2>1. /\ InPhase(GraphPhase) /\ status = "running" /\ phase = GraphPhase
        /\ phase \in Phases \ {TombstonePhase} /\ manifest \in Manifests
        /\ Batch \subseteq PhaseRows(manifest, phase)
    BY <1>15 DEF InsertRelations, InPhase, Batch, SyncInv, TypeOK, GraphPhase, Phases, TombstonePhase
  <2> DEFINE B == Batch \cap Relations
  <2>2. B \subseteq PhaseRows(manifest, phase) \cap DOMAIN manifest.puts
    BY <2>1, PhaseRowsOf
  <2>3. written' = written \cup B
    BY <1>15 DEF InsertRelations
  <2>4. RowsHold'
    BY <1>15, <2>1, <2>2, <2>3, PutStatements DEF InsertRelations
  <2>5. BatchesInOrder'
    BY <1>15, <2>1, <2>3, BatchStatements DEF InsertRelations
  <2>6. InOrder' /\ CheckpointHolds'
    BY <1>15, <2>1 DEF InsertRelations, call, SyncInv, InOrder, Done, CheckpointHolds, Own
  <2> QED BY <1>1, <2>4, <2>5, <2>6 DEF SyncInv
<1> QED BY <1>2, <1>3, <1>4, <1>5, <1>6, <1>7, <1>8, <1>9, <1>10, <1>11, <1>12,
           <1>13, <1>14, <1>15 DEF Next, Step

-----------------------------------------------------------------------------
\* The inductive invariant holds in every reachable state.
LEMMA SyncInvHolds == ASSUME FilesWithinBatch PROVE Spec => []SyncInv
<1>1. SyncInv /\ [Next]_vars => SyncInv'
  BY SyncInvStep
<1> QED BY <1>1, SyncInvInit, PTL DEF Spec

\* For every store, every set of manifests and every batch size: when a call
\* of run_surreal_delta_sync returns, every phase of its manifest that no
\* earlier manifest of the process had completed is in the store, and so is
\* the checkpoint unless that was one of them.
THEOREM ReturnedCallsApplied ==
    ASSUME FilesWithinBatch PROVE Spec => []ReturnedAppliesTheRest
<1>1. SyncInv => ReturnedAppliesTheRest
  <2> SUFFICES ASSUME SyncInv, status = "returned"
               PROVE  /\ AppliedBut(inherited, manifest, store)
                      /\ CheckpointPhase \in inherited \/ checkpoint = manifest.cursor
    BY DEF ReturnedAppliesTheRest
  <2>1. manifest \in Manifests /\ RowsHold /\ \A p \in Phases : Done(p)
    BY DEF SyncInv, TypeOK, CheckpointHolds
  <2>2. CheckpointPhase \in inherited \/ checkpoint = manifest.cursor
    BY <2>1 DEF SyncInv, CheckpointHolds, Done, Own, Phases, CheckpointPhase
  <2> QED BY <2>1, <2>2, AllDoneApplied
<1> QED BY <1>1, SyncInvHolds, PTL

\* What the calls for a manifest, failed ones included, have marked completed
\* is in the store: a retry that skips it misses nothing.
THEOREM ResumeIsSound ==
    ASSUME FilesWithinBatch PROVE Spec => []ResumeStateSound
<1>1. SyncInv => ResumeStateSound
  BY DEF SyncInv, RowsHold, RowDone, ResumeStateSound, PhaseApplied, Own
<1> QED BY <1>1, SyncInvHolds, PTL

\* The checkpoint of a manifest is written only over a store that holds
\* every phase the call did not inherit.
THEOREM CheckpointIsLast ==
    ASSUME FilesWithinBatch PROVE Spec => CheckpointLast
<1>1. SyncInv /\ [Next]_vars =>
        [checkpoint' # checkpoint => AppliedBut(inherited, manifest, store)]_vars
  <2> SUFFICES ASSUME SyncInv, Next, checkpoint' # checkpoint
               PROVE  AppliedBut(inherited, manifest, store)
    BY DEF vars
  <2>1. WriteCheckpoint
    BY DEF Next, Step, Begin, Retry, Fail, Crash, SkipPhase, FinishPhase, InsertRelations,
           Return, DeleteTombstone, UpsertRow, DeleteStaleRelation, UpsertNode
  <2>2. /\ manifest \in Manifests /\ RowsHold /\ InOrder /\ status = "running"
        /\ phase = CheckpointPhase
    BY <2>1 DEF WriteCheckpoint, InPhase, SyncInv, TypeOK
  <2>3. \A p \in Phases \ {CheckpointPhase} : Done(p)
    BY <2>2 DEF InOrder, Phases, CheckpointPhase
  <2> QED BY <2>2, <2>3, AllDoneApplied
<1> QED BY <1>1, SyncInvHolds, PTL DEF Spec, CheckpointLast

\* An embedding is stored only over its chunk row, or in a call that
\* inherited the chunks phase.
THEOREM EmbeddingsFollowChunks ==
    ASSUME FilesWithinBatch, EmbeddingsHaveChunks PROVE Spec => EmbeddingAfterChunk
<1> DEFINE A == \A e \in Embeddings :
                  store[e] = NoRow /\ store'[e] # NoRow =>
                      store[ChunkOf[e]] # NoRow \/ PhaseNo.chunks \in inherited
<1>1. SyncInv /\ [Next]_vars => [A]_vars
  <2> SUFFICES ASSUME SyncInv, Next, NEW e \in Embeddings,
                      store[e] = NoRow, store'[e] # NoRow, 4 \notin inherited
               PROVE  store[ChunkOf[e]] # NoRow
    BY DEF vars, PhaseNo
  <2>1. /\ e \in Rows /\ ChunkOf[e] \in Rows
        /\ PhaseOf(e) = 9 /\ PhaseOf(ChunkOf[e]) = 4
    BY SyncAssumption, RowsAssumption DEF Embeddings, PhaseOf, PhaseNo
  <2>2. store \in [Rows -> Payloads \cup {NoRow}]
    BY DEF SyncInv, TypeOK
  <2>3. UpsertRow(e)
    <3>1. ASSUME NEW r \in Rows, DeleteTombstone(r) \/ DeleteStaleRelation(r) PROVE FALSE
      BY <2>1, <2>2, <3>1 DEF DeleteTombstone, DeleteStaleRelation
    <3>2. ASSUME InsertRelations PROVE FALSE
      <4>1. e \notin Relations
        BY <2>1, PhaseOfRow DEF GraphPhase
      <4> QED BY <2>1, <3>2, <4>1 DEF InsertRelations
    <3>3. ASSUME NEW r \in Rows, UpsertNode(r) PROVE FALSE
      <4>1. r \in PhaseRows(manifest, GraphPhase) /\ manifest \in Manifests
        BY <3>3 DEF UpsertNode, Batch, InPhase, SyncInv, TypeOK
      <4>2. GraphPhase \in Phases /\ GraphPhase # TombstonePhase
        BY DEF GraphPhase, Phases, TombstonePhase
      <4>3. r # e
        BY <2>1, <4>1, <4>2, PhaseRowsOf DEF GraphPhase
      <4> QED BY <2>1, <2>2, <3>3, <4>3 DEF UpsertNode
    <3>4. ASSUME NEW r \in Rows, UpsertRow(r), r # e PROVE FALSE
      BY <2>1, <2>2, <3>4 DEF UpsertRow
    <3> QED BY <3>1, <3>2, <3>3, <3>4
            DEF Next, Step, Begin, Retry, Fail, Crash, SkipPhase, FinishPhase,
                WriteCheckpoint, Return
  <2>4. /\ manifest \in Manifests /\ RowsHold /\ InOrder /\ status = "running"
        /\ phase \in Phases \ {TombstonePhase} /\ e \in PhaseRows(manifest, phase)
    BY <2>3 DEF UpsertRow, InPhase, FirstPending, Pending, SyncInv, TypeOK
  <2>5. e \in DOMAIN manifest.puts /\ phase = 9
    BY <2>1, <2>4, PhaseRowsOf
  <2>6. ChunkOf[e] \in DOMAIN manifest.puts
    BY <2>4, <2>5 DEF EmbeddingsHaveChunks
  <2>7. ChunkOf[e] \in PhaseRows(manifest, 4) /\ 4 \in Own
    <3>1. ChunkOf[e] \in PhaseRows(manifest, 4)
      BY <2>1, <2>6 DEF PhaseRows, TombstonePhase
    <3> QED BY <2>4, <2>5, <3>1 DEF InOrder, Done, Phases, Own
  <2>8. store[ChunkOf[e]] = manifest.puts[ChunkOf[e]]
    BY <2>4, <2>7 DEF RowsHold, RowDone, TombstonePhase
  <2> QED BY <2>4, <2>6, <2>8, ManifestAssumption, RowsAssumption
<1> QED BY <1>1, SyncInvHolds, PTL DEF Spec, EmbeddingAfterChunk

-----------------------------------------------------------------------------
\* A statement that only moves rows in scope to where the manifest may move
\* them is a Work step of the promise.
LEMMA WorkStep ==
    ASSUME status = "running", TypeOK, TypeOK', UNCHANGED checkpoint, UNCHANGED call,
           NEW S, S \subseteq Scope(manifest),
           \A r \in Rows \ S : store'[r] = store[r],
           \A r \in S : \/ store'[r] = NoRow
                        \/ r \in DOMAIN manifest.puts /\ store'[r] = manifest.puts[r]
    PROVE  Promise!Next
<1>1. Promise!Scope(manifest) = Scope(manifest)
  BY DEF Promise!Scope, Scope, Promise!FilesTouchedBy, FilesTouchedBy,
         Promise!GraphRows, GraphRows, Promise!PhaseRows, PhaseRows, Promise!PhaseOf, PhaseOf,
         Promise!PhaseNo, PhaseNo, Promise!TombstonePhase, TombstonePhase,
         Promise!GraphPhase, GraphPhase
<1>2. Promise!Work
  BY <1>1 DEF Promise!Work, TypeOK, call
<1> QED BY <1>2 DEF Promise!Next

\* The promise means by "applied" what the synchroniser does.
LEMMA SameApplied ==
    ASSUME AppliedBut(inherited, manifest, store)
    PROVE  Promise!AppliedBut(inherited, manifest, store)
BY DEF Promise!AppliedBut, AppliedBut, Promise!PhaseApplied, PhaseApplied,
       Promise!PhaseRows, PhaseRows, Promise!PhaseOf, PhaseOf, Promise!PhaseNo, PhaseNo,
       Promise!TombstonePhase, TombstonePhase, Promise!Phases, Phases

\* Applying manifests phase by phase, batch by batch, with retries and with
\* one resume state for the life of the process, implements applying them as
\* promised.
THEOREM SyncImplementsPromise ==
    ASSUME FilesWithinBatch PROVE Spec => PromiseKept
<1>1. Init => Promise!Init
  BY DEF Init, Promise!Init
<1>2. SyncInv /\ SyncInv' /\ [Next]_vars => [Promise!Next]_Promise!vars
  <2> SUFFICES ASSUME SyncInv, SyncInv', [Next]_vars PROVE [Promise!Next]_Promise!vars
    OBVIOUS
  <2> USE DEF Promise!vars
  <2>1. TypeOK /\ TypeOK'
    BY DEF SyncInv
  <2>2. CASE UNCHANGED vars
    BY <2>2 DEF vars
  <2>3. ASSUME NEW m \in Manifests, Begin(m) PROVE Promise!Next
    BY <2>3 DEF Begin, Promise!Next, Promise!Start
  <2>4. CASE Retry
    BY <2>4 DEF Retry, Promise!Next, Promise!Resume
  <2>5. CASE Fail
    BY <2>5 DEF Fail, Promise!Next, Promise!Stop
  <2>6. CASE Crash
    BY <2>6 DEF Crash, Promise!Next, Promise!Restart
  <2>7. CASE SkipPhase
    BY <2>7 DEF SkipPhase
  <2>14. CASE FinishPhase
    <3>1. Promise!PhaseRows(manifest, phase) = PhaseRows(manifest, phase)
      BY DEF Promise!PhaseRows, PhaseRows, Promise!PhaseOf, PhaseOf, Promise!PhaseNo, PhaseNo,
             Promise!TombstonePhase, TombstonePhase
    <3>2. /\ status = "running" /\ phase \in Phases \ completed
          /\ PhaseRows(manifest, phase) # {} /\ PhaseRows(manifest, phase) \subseteq written
      BY <2>14 DEF FinishPhase, Skippable, Pending
    <3>3. PhaseApplied(manifest, phase, store)
      BY <3>2 DEF SyncInv, RowsHold, RowDone, PhaseApplied
    <3>4. Promise!PhaseApplied(manifest, phase, store)
      BY <3>1, <3>3 DEF Promise!PhaseApplied, PhaseApplied, Promise!TombstonePhase, TombstonePhase
    <3>5. Promise!Mark(phase)
      BY <2>14, <3>1, <3>2, <3>4
         DEF FinishPhase, Promise!Mark, Promise!Phases, Phases
    <3> QED BY <3>2, <3>5 DEF Promise!Next, Promise!Phases, Phases
  <2>8. CASE WriteCheckpoint
    <3>1. /\ manifest \in Manifests /\ RowsHold /\ InOrder /\ status = "running"
          /\ phase = CheckpointPhase
      BY <2>8 DEF WriteCheckpoint, InPhase, SyncInv, TypeOK
    <3>2. AppliedBut(inherited, manifest, store) /\ CheckpointPhase \notin completed
      BY <2>8, <3>1, AllDoneApplied
         DEF WriteCheckpoint, InPhase, Skippable, InOrder, Phases, CheckpointPhase
    <3> QED BY <2>8, <3>1, <3>2, SameApplied
            DEF WriteCheckpoint, Promise!Next, Promise!Commit, Promise!CheckpointPhase,
                CheckpointPhase
  <2>9. CASE Return
    <3>1. \A p \in Phases : Done(p)
      BY <2>9 DEF Return, SyncInv, InOrder, Phases
    <3>2. manifest \in Manifests /\ RowsHold /\ CheckpointHolds
      BY <2>9 DEF Return, SyncInv, TypeOK
    <3>3. AppliedBut(inherited, manifest, store)
      BY <3>1, <3>2, AllDoneApplied
    <3>4. CheckpointPhase \in inherited \/ checkpoint = manifest.cursor
      BY <3>1, <3>2 DEF CheckpointHolds, Done, Own, Phases, CheckpointPhase
    <3> QED BY <2>9, <3>3, <3>4, SameApplied
            DEF Return, Promise!Next, Promise!Return, Promise!CheckpointPhase, CheckpointPhase
  <2>10. ASSUME NEW r \in Rows, DeleteTombstone(r) PROVE Promise!Next
    <3>1. status = "running" /\ {r} \subseteq Scope(manifest)
      BY <2>10 DEF DeleteTombstone, InPhase, FirstPending, Pending, PhaseRows, Scope
    <3> QED BY <2>1, <2>10, <3>1, WorkStep DEF DeleteTombstone, TypeOK
  <2>11. ASSUME NEW r \in Rows, UpsertRow(r) \/ UpsertNode(r) PROVE Promise!Next
    <3>1. /\ status = "running" /\ manifest \in Manifests
          /\ phase \in Phases \ {TombstonePhase} /\ r \in PhaseRows(manifest, phase)
      BY <2>11 DEF UpsertRow, UpsertNode, InPhase, FirstPending, Pending, Batch, SyncInv, TypeOK,
                   GraphPhase, Phases, TombstonePhase
    <3>2. {r} \subseteq DOMAIN manifest.puts /\ {r} \subseteq Scope(manifest)
      BY <3>1, PhaseRowsOf DEF Scope
    <3>3. /\ UNCHANGED checkpoint /\ UNCHANGED call
          /\ \A s \in {r} : store'[s] = manifest.puts[s]
          /\ \A s \in Rows \ {r} : store'[s] = store[s]
      BY <2>1, <2>11 DEF UpsertRow, UpsertNode, TypeOK
    <3> DEFINE S == {r}
    <3>4. /\ S \subseteq Scope(manifest)
          /\ \A s \in Rows \ S : store'[s] = store[s]
          /\ \A s \in S : \/ store'[s] = NoRow
                          \/ s \in DOMAIN manifest.puts /\ store'[s] = manifest.puts[s]
      BY <3>2, <3>3
    <3> HIDE DEF S
    <3> QED BY <2>1, <3>1, <3>3, <3>4, WorkStep
  <2>12. ASSUME NEW r \in Rows, DeleteStaleRelation(r) PROVE Promise!Next
    <3>1. /\ status = "running" /\ phase = GraphPhase
          /\ r \in Frontmatter /\ SourceFile[r] \in FilesTouchedBy(Batch)
          /\ Batch \subseteq GraphRows(manifest)
      BY <2>12 DEF DeleteStaleRelation, InPhase, Stale, Batch, GraphRows
    <3>2. {r} \subseteq Scope(manifest)
      BY <3>1 DEF Scope, FilesTouchedBy
    <3>3. /\ UNCHANGED checkpoint /\ UNCHANGED call
          /\ \A s \in {r} : store'[s] = NoRow
          /\ \A s \in Rows \ {r} : store'[s] = store[s]
      BY <2>1, <2>12 DEF DeleteStaleRelation, TypeOK
    <3> DEFINE S == {r}
    <3>4. /\ S \subseteq Scope(manifest)
          /\ \A s \in Rows \ S : store'[s] = store[s]
          /\ \A s \in S : \/ store'[s] = NoRow
                          \/ s \in DOMAIN manifest.puts /\ store'[s] = manifest.puts[s]
      BY <3>2, <3>3
    <3> HIDE DEF S
    <3> QED BY <2>1, <3>1, <3>3, <3>4, WorkStep
  <2>13. CASE InsertRelations
    <3>1. /\ status = "running" /\ manifest \in Manifests
          /\ phase \in Phases \ {TombstonePhase} /\ Batch \subseteq PhaseRows(manifest, phase)
      BY <2>13 DEF InsertRelations, InPhase, Batch, SyncInv, TypeOK, GraphPhase, Phases,
                   TombstonePhase
    <3> DEFINE B == Batch \cap Relations
    <3>2. B \subseteq DOMAIN manifest.puts /\ B \subseteq Scope(manifest) /\ B \subseteq Rows
      BY <3>1, PhaseRowsOf DEF Scope
    <3>3. /\ \A r \in Rows \ B : store'[r] = store[r]
          /\ \A r \in B : store'[r] = manifest.puts[r]
      BY <2>13, <3>2 DEF InsertRelations
    <3> HIDE DEF B
    <3> QED BY <2>1, <2>13, <3>1, <3>2, <3>3, WorkStep DEF InsertRelations
  <2> QED BY <2>2, <2>3, <2>4, <2>5, <2>6, <2>7, <2>8, <2>9, <2>10, <2>11, <2>12, <2>13,
             <2>14
          DEF Next, Step
<1> QED BY <1>1, <1>2, SyncInvHolds, PTL DEF Spec, PromiseKept, Promise!Spec

-----------------------------------------------------------------------------
(* SchemaIndex                                                             *)

\* A build that is given the directory of an earlier one meets one fault at most.
FewFaults == SameDirectory => MaxFaults <= 1

\* What a build that left an index undone, or is at it, says of it.
Excuses == {"deferred", "running", "blocked", "cut"}
End == <<Len(Plan) + 1, 0>>
Places == Statements \cup {End}
Modes == {"unique-only", "secondary", "hnsw", "all"}

Types ==
    /\ tables \in [AllTables -> {"none", "full", "less"}]
    /\ indexes \in [Indexes -> {"none", "asked", "other"}]
    /\ start \in [Starters -> [pc : {"down", "inspect", "apply", "up"},
                               meta : {"none", "older", "current", "newer"}, next : Places]]
    /\ run \in [pc : {"idle", "before", "remove", "define", "after", "end"}, mode : Modes,
                rebuild : BOOLEAN, at : Nat, ok : BOOLEAN, seen : SUBSET Indexes]
    /\ verdict \in [Indexes -> {"none", "verified", "rebuilt"} \cup Excuses]
    /\ version \in {"none", "older", "current", "newer"}
    /\ run.pc \notin {"idle", "end"} => run.at \in DOMAIN steps

-----------------------------------------------------------------------------
(* The inductive invariant                                                 *)

\* The statements that come before a place.
Prior(p) == {q \in Statements : q[1] < p[1] \/ (q[1] = p[1] /\ q[2] < p[2])}

\* A statement was carried out: nothing undoes a table, only a build an index.
Carried(q) ==
    IF q[2] = 0 THEN tables[TableOf(q)] = "full"
                ELSE indexes[IndexOf(q)] = "none" => verdict[IndexOf(q)] \in Excuses

\* A process in the plan has carried out what comes before, and who finds the
\* version current can rely on all of it.
Carrying ==
    /\ \A s \in Starters : start[s].pc = "apply" => \A q \in Prior(start[s].next) : Carried(q)
    /\ version = "current" => \A q \in Statements : Carried(q)

\* A build has called off what was said of its indexes before.
CalledOff == run.pc # "idle" => \A x \in ToSet(steps) : verdict[x] = "running"

Changing == run.pc \in {"before", "remove", "define"}
Asking == run.pc \in {"after", "end"}

\* In a directory of its own: what the files of the questions at the end name is
\* there, and a definition is not mistaken for an earlier one's.
FilesTrue == SameDirectory \/
    /\ \A l \in DOMAIN files : l[4] = "after" =>
          ~ Changing /\ files[l].names \subseteq {x \in Indexes : indexes[x] # "none"}
    /\ Changing => \A l \in DOMAIN files : l[4] = "define" => l[1] \in Nat /\ l[1] < run.at

\* In the directory of an earlier build one fault is all there may be.  As long
\* as it is to come the steps so far have done what they say.
Spared ==
    /\ left \in [faults : Nat, runs : Nat]
    /\ SameDirectory => left.faults <= 1
Unharmed ==
    SameDirectory /\ left.faults > 0 =>
       /\ Changing => \A i \in DOMAIN steps : i < run.at => indexes[steps[i]] # "none" \/ steps[i] = step
       /\ run.pc = "define" => indexes[step] # "other"
       /\ Asking /\ run.ok => \A i \in DOMAIN steps : indexes[steps[i]] # "none"

\* What a build that has not failed has seen is there.
SeenTrue ==
    /\ Changing => run.seen = {}
    /\ run.ok => run.seen \subseteq {x \in Indexes : indexes[x] # "none"}

\* What a rebuild has passed has no other definition than the one asked for.
RebuiltSoFar ==
    run.rebuild =>
       /\ Changing => \A i \in DOMAIN steps : i < run.at => indexes[steps[i]] # "other"
       /\ Asking /\ run.ok => \A i \in DOMAIN steps : indexes[steps[i]] # "other"

SchemaInv ==
    /\ Types /\ Spared /\ Carrying /\ CalledOff /\ FilesTrue /\ Unharmed /\ SeenTrue /\ RebuiltSoFar
    /\ VerifiedIsBuilt

-----------------------------------------------------------------------------
(* The plan and the steps of a build                                       *)

LEMMA PlanTyped ==
    /\ Plan \in Seq(ToSet(Plan)) /\ "embeddings" \in ToSet(Plan)
    /\ \A i \in DOMAIN Plan : Plan[i] \in ToSet(Plan) /\ IndexesOf[Plan[i]] \in Seq(ToSet(IndexesOf[Plan[i]]))
    /\ IndexesOf["embeddings"] # <<>>
    /\ Shards \in Seq(ToSet(Shards))
<1>1. /\ Plan \in Seq(ToSet(Plan)) /\ Shards \in Seq(ToSet(Shards)) /\ "embeddings" \in ToSet(Plan)
      /\ \A t \in ToSet(Plan) : IndexesOf[t] \in Seq(ToSet(IndexesOf[t]))
      /\ IndexesOf["embeddings"] # <<>>
  BY SchemaIndexAssumption DEF SchemaIndexAssumption
<1>2. \A i \in DOMAIN Plan : Plan[i] \in ToSet(Plan)
  BY DEF ToSet
<1> QED
  BY <1>1, <1>2

\* A statement is a table and the number of an index on it, or 0.
LEMMA StatementShape ==
    ASSUME NEW p
    PROVE  p \in Statements <=>
              \E i \in DOMAIN Plan : \E j \in 0 .. Len(IndexesOf[Plan[i]]) : p = <<i, j>>
BY DEF Statements

LEMMA StatementParts ==
    ASSUME NEW p \in Statements
    PROVE  /\ p = <<p[1], p[2]>> /\ p[1] \in 1 .. Len(Plan) /\ p[2] \in 0 .. Len(IndexesOf[Plan[p[1]]])
           /\ p[1] \in DOMAIN Plan
           /\ TableOf(p) \in ToSet(Plan)
           /\ p[2] # 0 => IndexOf(p) \in PlanIndexes
<1>0. PICK i \in DOMAIN Plan : \E j \in 0 .. Len(IndexesOf[Plan[i]]) : p = <<i, j>>
  BY StatementShape
<1>1. PICK j \in 0 .. Len(IndexesOf[Plan[i]]) : p = <<i, j>>
  BY <1>0
<1>2. DOMAIN Plan = 1 .. Len(Plan) /\ Plan[i] \in ToSet(Plan)
      /\ IndexesOf[Plan[i]] \in Seq(ToSet(IndexesOf[Plan[i]]))
  BY PlanTyped
<1>3. TableOf(p) = Plan[i]
  BY <1>1 DEF TableOf
<1>4. ASSUME p[2] # 0 PROVE IndexOf(p) \in PlanIndexes
  <2>1. j \in DOMAIN IndexesOf[Plan[i]]
    BY <1>1, <1>2, <1>4
  <2>2. IndexesOf[Plan[i]][j] \in ToSet(IndexesOf[Plan[i]])
    BY <2>1 DEF ToSet
  <2>3. IndexOf(p) = <<Plan[i], IndexesOf[Plan[i]][j]>>
    BY <1>1, <1>3 DEF IndexOf
  <2> QED
    BY <1>2, <2>2, <2>3 DEF PlanIndexes
<1> QED
  BY <1>1, <1>2, <1>3, <1>4

\* What comes before the next statement is what came before this one, and it.
LEMMA FollowingIsNext ==
    ASSUME NEW p \in Statements
    PROVE  Following(p) \in Places /\ Prior(Following(p)) \subseteq Prior(p) \cup {p}
<1> DEFINE n == Len(IndexesOf[Plan[p[1]]])
<1>1. /\ p = <<p[1], p[2]>> /\ p[1] \in 1 .. Len(Plan) /\ p[2] \in 0 .. n /\ p[1] \in DOMAIN Plan
  BY StatementParts
<1>2. DOMAIN Plan = 1 .. Len(Plan) /\ Len(Plan) \in Nat
      /\ \A i \in DOMAIN Plan : Len(IndexesOf[Plan[i]]) \in Nat
  BY PlanTyped
<1>3. CASE p[2] < n
  <2>1. Following(p) = <<p[1], p[2] + 1>>
    BY <1>3 DEF Following
  <2>2. p[2] + 1 \in 0 .. n
    BY <1>1, <1>2, <1>3
  <2>3. Following(p) \in Statements
    BY <1>1, <2>1, <2>2, StatementShape
  <2>4. ASSUME NEW q \in Prior(Following(p)) PROVE q \in Prior(p) \cup {p}
    <3>1. q \in Statements /\ q = <<q[1], q[2]>> /\ q[1] \in Nat /\ q[2] \in Nat
      <4>1. q \in Statements
        BY <2>4 DEF Prior
      <4> QED
        BY <4>1, <1>2, StatementParts
    <3>2. q[1] < p[1] \/ (q[1] = p[1] /\ q[2] < p[2] + 1)
      BY <2>1, <2>4 DEF Prior
    <3>3. q[1] < p[1] \/ (q[1] = p[1] /\ q[2] < p[2]) \/ q = p
      BY <1>1, <3>1, <3>2
    <3> QED
      BY <3>1, <3>3 DEF Prior
  <2> QED
    BY <2>3, <2>4 DEF Places
<1>4. CASE ~ (p[2] < n)
  <2>1. Following(p) = <<p[1] + 1, 0>>
    BY <1>4 DEF Following
  <2>2. Following(p) \in Places
    <3>1. CASE p[1] < Len(Plan)
      <4>1. p[1] + 1 \in DOMAIN Plan /\ 0 \in 0 .. Len(IndexesOf[Plan[p[1] + 1]])
        BY <1>1, <1>2, <3>1
      <4> QED
        BY <2>1, <4>1, StatementShape DEF Places
    <3>2. CASE p[1] = Len(Plan)
      BY <2>1, <3>2 DEF Places, End
    <3> QED
      BY <1>1, <1>2, <3>1, <3>2
  <2>3. ASSUME NEW q \in Prior(Following(p)) PROVE q \in Prior(p) \cup {p}
    <3>1. q \in Statements
      BY <2>3 DEF Prior
    <3>2. /\ q = <<q[1], q[2]>> /\ q[1] \in Nat /\ q[2] \in Nat
          /\ q[2] \in 0 .. Len(IndexesOf[Plan[q[1]]])
      BY <3>1, <1>2, StatementParts
    <3>3. q[1] < p[1] + 1 \/ (q[1] = p[1] + 1 /\ q[2] < 0)
      BY <2>1, <2>3 DEF Prior
    <3>4. q[1] < p[1] \/ q[1] = p[1]
      BY <1>1, <3>2, <3>3
    <3>5. CASE q[1] = p[1]
      <4>1. q[2] \in 0 .. n
        BY <3>2, <3>5
      <4>2. q[2] < p[2] \/ q[2] = p[2]
        BY <1>1, <1>2, <1>4, <4>1
      <4> QED
        BY <1>1, <3>1, <3>2, <3>5, <4>2 DEF Prior
    <3> QED
      BY <3>1, <3>4, <3>5 DEF Prior
  <2> QED
    BY <2>2, <2>3
<1> QED
  BY <1>3, <1>4

\* Nothing comes before the first, and everything before the end.
LEMMA FirstAndEnd ==
    /\ First \in Places /\ Prior(First) = {}
    /\ \A p \in Places : Sentinel(p) => Statements \subseteq Prior(p)
<1>1. DOMAIN Plan = 1 .. Len(Plan) /\ Len(Plan) \in Nat
      /\ \A i \in DOMAIN Plan : Len(IndexesOf[Plan[i]]) \in Nat
  BY PlanTyped
<1>2. 1 \in DOMAIN Plan
  BY <1>1, PlanTyped DEF ToSet
<1>3. First \in Places
  BY <1>1, <1>2, StatementShape DEF First, Places
<1>4. ASSUME NEW q \in Statements
      PROVE  q[1] \in 1 .. Len(Plan) /\ q[2] \in Nat
  BY <1>1, StatementParts
<1>5. Prior(First) = {}
  BY <1>1, <1>4 DEF Prior, First
<1>6. ASSUME NEW p \in Places, Sentinel(p) PROVE Statements \subseteq Prior(p)
  <2>1. p = End
    BY <1>6 DEF Places, Sentinel
  <2> QED
    BY <1>1, <1>4, <2>1 DEF Prior, End
<1> QED
  BY <1>3, <1>5, <1>6

LEMMA StepsTyped ==
    ASSUME NEW mode \in Modes
    PROVE  /\ Steps(mode) \in Seq(Indexes) /\ Len(Steps(mode)) > 0
           /\ DOMAIN Steps(mode) = 1 .. Len(Steps(mode))
           /\ ToSet(Steps(mode)) \subseteq Indexes
<1> DEFINE I == IndexesOf["embeddings"]
<1>1. I \in Seq(ToSet(I)) /\ I # <<>> /\ "embeddings" \in ToSet(Plan)
  BY SchemaIndexAssumption DEF SchemaIndexAssumption
<1>2. Len(I) \in Nat /\ Len(I) > 0 /\ DOMAIN I = 1 .. Len(I)
  BY <1>1
<1>3. \A j \in DOMAIN I : <<"embeddings", I[j]>> \in Indexes
  BY <1>1 DEF Indexes, PlanIndexes, ToSet
<1>4. secondarySteps \in Seq(Indexes) /\ Len(secondarySteps) = Len(I)
  BY <1>2, <1>3 DEF secondarySteps
<1>5. hnswSteps \in Seq(Indexes) /\ Len(hnswSteps) > 0
  <2>1. CASE Shards = <<>>
    <3>1. hnswSteps = <<hnsw("embeddings")>> /\ hnsw("embeddings") \in Indexes
      BY <2>1 DEF hnswSteps, Indexes
    <3> QED
      BY <3>1
  <2>2. CASE Shards # <<>>
    <3>1. Shards \in Seq(ToSet(Shards))
      BY PlanTyped
    <3>2. Len(Shards) \in Nat /\ Len(Shards) > 0 /\ DOMAIN Shards = 1 .. Len(Shards)
      BY <2>2, <3>1
    <3>3. \A i \in DOMAIN Shards : hnsw(Shards[i]) \in Indexes
      BY DEF Indexes, ToSet
    <3>4. hnswSteps = [i \in 1 .. Len(Shards) |-> hnsw(Shards[i])]
      BY <2>2, <3>2 DEF hnswSteps
    <3> QED
      BY <3>2, <3>3, <3>4
  <2> QED
    BY <2>1, <2>2
<1>6. secondarySteps[1] \in Indexes
  BY <1>2, <1>4
<1>7. Steps(mode) \in Seq(Indexes) /\ Len(Steps(mode)) > 0
  <2>1. CASE mode = "unique-only"
    BY <1>6, <2>1 DEF Steps
  <2>2. CASE mode = "secondary"
    BY <1>2, <1>4, <2>2 DEF Steps
  <2>3. CASE mode = "hnsw"
    BY <1>5, <2>3 DEF Steps
  <2>4. CASE mode = "all"
    <3>1. Steps(mode) = secondarySteps \o hnswSteps
      BY <2>4 DEF Steps
    <3> QED
      BY <1>2, <1>4, <1>5, <3>1
  <2> QED
    BY <2>1, <2>2, <2>3, <2>4 DEF Modes
<1> QED
  BY <1>7 DEF ToSet

-----------------------------------------------------------------------------
(* The parts of the invariant                                              *)

LEMMA SchemaInvInit ==
    ASSUME FewFaults, SchemaInit
    PROVE  SchemaInv
<1>1. PICK d \in Databases : tables = d.tables /\ indexes = d.indexes /\ version = d.version
  BY DEF SchemaInit
<1>2. /\ tables \in [AllTables -> {"none", "full", "less"}]
      /\ indexes \in [Indexes -> {"none", "asked", "other"}]
      /\ version \in {"none", "older", "current", "newer"}
      /\ version = "current" => \A t \in ToSet(Plan) : tables[t] = "full"
  BY <1>1, SchemaIndexAssumption DEF SchemaIndexAssumption
<1>3. /\ run = Idle /\ files = << >>
      /\ start = [s \in Starters |-> [pc |-> "down", meta |-> "none", next |-> First]]
      /\ verdict = [x \in Indexes |-> IF indexes[x] = "none" THEN "deferred" ELSE "none"]
  BY DEF SchemaInit
<1>4. Types
  <2>1. run \in [pc : {"idle", "before", "remove", "define", "after", "end"}, mode : Modes,
                  rebuild : BOOLEAN, at : Nat, ok : BOOLEAN, seen : SUBSET Indexes]
    BY <1>3 DEF Idle, Modes
  <2>2. run.pc = "idle"
    BY <1>3 DEF Idle
  <2>3. start \in [Starters -> [pc : {"down", "inspect", "apply", "up"},
                                 meta : {"none", "older", "current", "newer"}, next : Places]]
    BY <1>3, FirstAndEnd
  <2>4. verdict \in [Indexes -> {"none", "verified", "rebuilt"} \cup Excuses]
    BY <1>3 DEF Excuses
  <2> QED
    BY <1>2, <2>1, <2>2, <2>3, <2>4 DEF Types
<1>5. Carrying
  <2>1. ASSUME version = "current", NEW q \in Statements PROVE Carried(q)
    <3>1. TableOf(q) \in ToSet(Plan) /\ (q[2] # 0 => IndexOf(q) \in Indexes)
      BY StatementParts DEF Indexes
    <3> QED
      BY <1>2, <1>3, <2>1, <3>1 DEF Carried, Excuses
  <2>2. \A s \in Starters : start[s].pc # "apply"
    BY <1>3
  <2> QED
    BY <2>1, <2>2 DEF Carrying
<1>6. VerifiedIsBuilt
  BY <1>3 DEF VerifiedIsBuilt
<1>7. DOMAIN files = {}
  BY <1>3
<1>8. run.pc = "idle" /\ run.seen = {}
  BY <1>3 DEF Idle
<1>9. CalledOff /\ FilesTrue /\ Unharmed /\ SeenTrue /\ RebuiltSoFar
  BY <1>7, <1>8 DEF CalledOff, FilesTrue, Unharmed, SeenTrue, RebuiltSoFar, Changing, Asking
<1>10. Spared
  BY SchemaIndexAssumption DEF SchemaInit, SchemaIndexAssumption, Spared, FewFaults
<1> QED
  BY <1>4, <1>5, <1>6, <1>9, <1>10 DEF SchemaInv

\* Faults only get fewer.
LEMMA FaultsSpent ==
    ASSUME Spared, left' = left \/ Fault
    PROVE  Spared' /\ (left'.faults > 0 => left.faults > 0)
BY DEF Spared, Fault

\* Nothing changes for the build while indexes are only added.
LEMMA BuildUndisturbed ==
    ASSUME SchemaInv, UNCHANGED build, Types', Carrying', left' = left \/ Fault,
           \A x \in Indexes : indexes'[x] = indexes[x] \/ (indexes[x] = "none" /\ indexes'[x] = "asked")
    PROVE  SchemaInv'
<1>1. \A x \in Indexes : /\ indexes[x] # "none" => indexes'[x] # "none"
                         /\ indexes[x] # "other" => indexes'[x] # "other"
                         /\ indexes[x] = "asked" => indexes'[x] = "asked"
  OBVIOUS
<1>2. UNCHANGED <<run, files, verdict>> /\ steps' = steps
  BY DEF build, steps
<1>3. CalledOff'
  BY <1>2 DEF SchemaInv, CalledOff
<1>4. FilesTrue'
  BY <1>1, <1>2 DEF SchemaInv, FilesTrue, Changing
<1>5. SeenTrue'
  BY <1>1, <1>2 DEF SchemaInv, SeenTrue, Changing
<1>6. RebuiltSoFar'
  <2>1. \A i \in DOMAIN steps : steps[i] \in Indexes
    <3>1. run.mode \in Modes
      BY DEF SchemaInv, Types
    <3> QED
      BY <3>1, StepsTyped DEF steps
  <2> QED
    BY <1>1, <1>2, <2>1 DEF SchemaInv, RebuiltSoFar, Changing, Asking
<1>7. VerifiedIsBuilt'
  BY <1>1, <1>2 DEF SchemaInv, VerifiedIsBuilt
<1>8. Spared' /\ Unharmed'
  <2>1. Spared' /\ (left'.faults > 0 => left.faults > 0)
    BY FaultsSpent DEF SchemaInv
  <2>2. \A i \in DOMAIN steps : steps[i] \in Indexes
    <3>1. run.mode \in Modes
      BY DEF SchemaInv, Types
    <3> QED
      BY <3>1, StepsTyped DEF steps
  <2>3. run.pc = "define" => step \in Indexes
    BY <2>2 DEF SchemaInv, Types, step
  <2>4. step' = step
    BY <1>2 DEF step
  <2> QED
    BY <1>1, <1>2, <2>1, <2>2, <2>3, <2>4 DEF SchemaInv, Unharmed, Changing, Asking
<1> QED
  BY <1>3, <1>4, <1>5, <1>6, <1>7, <1>8 DEF SchemaInv

\* What was carried out stays so, while tables stay and what becomes of an index
\* is excused.
LEMMA CarriedStays ==
    ASSUME NEW q \in Statements, Carried(q),
           \A t \in ToSet(Plan) : tables[t] = "full" => tables'[t] = "full",
           \A x \in PlanIndexes : (indexes[x] = "none" => verdict[x] \in Excuses)
                                   => (indexes'[x] = "none" => verdict'[x] \in Excuses)
    PROVE  Carried(q)'
<1>1. TableOf(q) \in ToSet(Plan) /\ (q[2] # 0 => IndexOf(q) \in PlanIndexes)
  BY StatementParts
<1>2. TableOf(q)' = TableOf(q) /\ IndexOf(q)' = IndexOf(q)
  BY DEF TableOf, IndexOf
<1> QED
  BY <1>1, <1>2 DEF Carried

\* ... and a step that neither starts nor advances a plan keeps Carrying.
LEMMA CarryingStays ==
    ASSUME Carrying, version' = version,
           \A s \in Starters : start'[s].pc = "apply" => start'[s] = start[s],
           \A t \in ToSet(Plan) : tables[t] = "full" => tables'[t] = "full",
           \A x \in PlanIndexes : (indexes[x] = "none" => verdict[x] \in Excuses)
                                   => (indexes'[x] = "none" => verdict'[x] \in Excuses)
    PROVE  Carrying'
<1>1. \A q \in Statements : Carried(q) => Carried(q)'
  BY CarriedStays
<1>2. ASSUME NEW s \in Starters, start'[s].pc = "apply", NEW q \in Prior(start'[s].next)
      PROVE  Carried(q)'
  <2>1. q \in Statements /\ start'[s] = start[s]
    BY <1>2 DEF Prior
  <2>2. Carried(q)
    BY <1>2, <2>1 DEF Carrying
  <2> QED
    BY <1>1, <2>1, <2>2
<1> QED
  BY <1>1, <1>2 DEF Carrying

-----------------------------------------------------------------------------
(* The processes that start                                                *)

\* A process that goes elsewhere than into the plan.
LEMMA SetElsewhere ==
    ASSUME SchemaInv, NEW s \in Starters, NEW pc \in {"down", "up", "inspect"},
           NEW m \in {"none", "older", "current", "newer"},
           start' = [start EXCEPT ![s] = [pc |-> pc, meta |-> m, next |-> First]],
           UNCHANGED <<definitions, build>>, left' = left \/ Fault
    PROVE  SchemaInv'
<1>1. UNCHANGED <<tables, indexes, version, run, files, verdict>> /\ UNCHANGED build
  BY DEF definitions, build
<1>2. Types'
  BY <1>1, FirstAndEnd DEF SchemaInv, Types, steps
<1>3. \A r \in Starters : start'[r].pc = "apply" => start'[r] = start[r]
  BY DEF SchemaInv, Types
<1>4. Carrying'
  BY <1>1, <1>3, CarryingStays DEF SchemaInv
<1> QED
  BY <1>1, <1>2, <1>4, BuildUndisturbed

LEMMA SetIs ==
    ASSUME Types, NEW s \in Starters, NEW pc, NEW p, Set(s, pc, p)
    PROVE  /\ start' = [start EXCEPT ![s] = [pc |-> pc, meta |-> start[s].meta, next |-> p]]
           /\ start[s].meta \in {"none", "older", "current", "newer"}
<1>1. start[s] \in [pc : {"down", "inspect", "apply", "up"},
                    meta : {"none", "older", "current", "newer"}, next : Places]
  BY DEF Types
<1> QED
  BY <1>1 DEF Set

LEMMA OpenStep ==
    ASSUME SchemaInv, NEW s \in Starters, Open(s)
    PROVE  SchemaInv'
<1>1. /\ start' = [start EXCEPT ![s] = [pc |-> "inspect", meta |-> version, next |-> First]]
      /\ UNCHANGED <<definitions, build>> /\ left' = left
  BY DEF Open
<1>2. version \in {"none", "older", "current", "newer"}
  BY DEF SchemaInv, Types
<1> QED
  BY <1>1, <1>2, SetElsewhere

LEMMA InspectStep ==
    ASSUME SchemaInv, NEW s \in Starters, Inspect(s)
    PROVE  SchemaInv'
<1>1. UNCHANGED <<definitions, build>> /\ Types /\ left' = left
  BY DEF Inspect, SchemaInv
<1>2. CASE Set(s, "up", First)
  BY <1>1, <1>2, SetIs, SetElsewhere
<1>3. CASE Set(s, "apply", First)
  <2>1. /\ start' = [start EXCEPT ![s] = [pc |-> "apply", meta |-> start[s].meta, next |-> First]]
        /\ start[s].meta \in {"none", "older", "current", "newer"}
    BY <1>1, <1>3, SetIs
  <2>2. UNCHANGED <<tables, indexes, version, run, files, verdict>> /\ UNCHANGED build
    BY <1>1 DEF definitions, build
  <2>3. Types'
    BY <1>1, <2>1, <2>2, FirstAndEnd DEF Types, steps
  <2>4. \A q \in Statements : Carried(q) => Carried(q)'
    BY <2>2, CarriedStays
  <2>5. ASSUME NEW r \in Starters, start'[r].pc = "apply", NEW q \in Prior(start'[r].next)
        PROVE  Carried(q)'
    <3>1. CASE r = s
      BY <1>1, <2>1, <2>5, <3>1, FirstAndEnd DEF Types
    <3>2. CASE r # s
      <4>1. start'[r] = start[r]
        BY <1>1, <2>1, <3>2 DEF Types
      <4>2. q \in Statements /\ Carried(q)
        BY <2>5, <4>1 DEF SchemaInv, Carrying, Prior
      <4> QED
        BY <2>4, <4>2
    <3> QED
      BY <3>1, <3>2
  <2>6. Carrying'
    BY <2>2, <2>4, <2>5 DEF SchemaInv, Carrying
  <2> QED
    BY <1>1, <2>2, <2>3, <2>6, BuildUndisturbed
<1> QED
  BY <1>2, <1>3 DEF Inspect

LEMMA DieStep ==
    ASSUME SchemaInv, NEW s \in Starters, Die(s)
    PROVE  SchemaInv'
<1>1. UNCHANGED <<definitions, build>> /\ Types /\ Set(s, "down", First) /\ Fault
  BY DEF Die, SchemaInv
<1> QED
  BY <1>1, SetIs, SetElsewhere

LEMMA WriteStep ==
    ASSUME SchemaInv, NEW s \in Starters, NEW t \in ToSet(Plan), Write(s, t)
    PROVE  SchemaInv'
<1>1. /\ tables[t] = "none" /\ tables' = [tables EXCEPT ![t] = "less"]
      /\ UNCHANGED <<indexes, version, start, run, files, verdict>> /\ UNCHANGED build /\ left' = left
  BY DEF Write, build
<1>2. Types'
  BY <1>1 DEF SchemaInv, Types, steps
<1>3. \A u \in ToSet(Plan) : tables[u] = "full" => tables'[u] = "full"
  BY <1>1 DEF SchemaInv, Types, AllTables
<1>4. Carrying'
  BY <1>1, <1>3, CarryingStays DEF SchemaInv
<1> QED
  BY <1>1, <1>2, <1>4, BuildUndisturbed

\* A statement carried out by a plan.
LEMMA DefineCarries ==
    ASSUME Types, NEW p \in Statements, ~ Exists(p), Define(p), verdict' = verdict
    PROVE  /\ Carried(p)'
           /\ tables' \in [AllTables -> {"none", "full", "less"}]
           /\ indexes' \in [Indexes -> {"none", "asked", "other"}]
           /\ \A t \in AllTables : tables[t] = "full" => tables'[t] = "full"
           /\ \A x \in Indexes : indexes'[x] = indexes[x] \/ (indexes[x] = "none" /\ indexes'[x] = "asked")
<1>1. TableOf(p) \in AllTables /\ (p[2] # 0 => IndexOf(p) \in Indexes)
  BY StatementParts DEF AllTables, Indexes
<1>2. TableOf(p)' = TableOf(p) /\ IndexOf(p)' = IndexOf(p)
  BY DEF TableOf, IndexOf
<1>3. CASE p[2] = 0
  <2>1. tables[TableOf(p)] = "none" /\ tables' = [tables EXCEPT ![TableOf(p)] = "full"] /\ indexes' = indexes
    BY <1>3 DEF Exists, Define
  <2> QED
    BY <1>1, <1>2, <1>3, <2>1 DEF Types, Carried
<1>4. CASE p[2] # 0
  <2>1. indexes[IndexOf(p)] = "none" /\ indexes' = [indexes EXCEPT ![IndexOf(p)] = "asked"] /\ tables' = tables
    BY <1>4 DEF Exists, Define
  <2> QED
    BY <1>1, <1>2, <1>4, <2>1 DEF Types, Carried
<1> QED
  BY <1>3, <1>4

LEMMA ApplyStep ==
    ASSUME SchemaInv, NEW s \in Starters, Apply(s)
    PROVE  SchemaInv'
<1>0. start[s].next \in Places /\ start[s].pc = "apply" /\ Types
  BY DEF SchemaInv, Types, Apply
<1>1. PICK p \in Places : p = start[s].next /\ start[s].pc = "apply" /\ Types
  BY <1>0
<1>2. UNCHANGED build /\ UNCHANGED <<run, files, verdict>> /\ left' = left
  BY DEF Apply, build
<1>3. \A q \in Prior(p) : Carried(q)
  BY <1>1 DEF SchemaInv, Carrying
<1>4. CASE Sentinel(p)
  <2>1. version' = "current" /\ Set(s, "up", First) /\ UNCHANGED <<tables, indexes>>
    BY <1>1, <1>4 DEF Apply
  <2>2. start' = [start EXCEPT ![s] = [pc |-> "up", meta |-> start[s].meta, next |-> First]]
        /\ start[s].meta \in {"none", "older", "current", "newer"}
    BY <1>1, <2>1, SetIs
  <2>3. Types'
    BY <1>1, <1>2, <2>1, <2>2, FirstAndEnd DEF Types, steps
  <2>4. \A q \in Statements : Carried(q) => Carried(q)'
    BY <1>2, <2>1, CarriedStays
  <2>5. \A q \in Statements : Carried(q)
    BY <1>1, <1>3, <1>4, FirstAndEnd
  <2>6. \A r \in Starters : start'[r].pc = "apply" => \A q \in Prior(start'[r].next) : q \in Statements
    BY DEF Prior
  <2>7. Carrying'
    BY <2>4, <2>5, <2>6 DEF Carrying
  <2> QED
    BY <1>2, <2>1, <2>3, <2>7, BuildUndisturbed
<1>5. CASE ~ Sentinel(p) /\ Exists(p)
  <2>1. Set(s, "down", First) /\ UNCHANGED <<definitions, build>>
    BY <1>1, <1>5 DEF Apply, definitions
  <2> QED
    BY <1>1, <1>2, <2>1, SetIs, SetElsewhere
<1>6. CASE ~ Sentinel(p) /\ ~ Exists(p)
  <2>1. Set(s, "apply", Following(p)) /\ Define(p) /\ version' = version
    BY <1>1, <1>6 DEF Apply
  <2>2. p \in Statements
    BY <1>6 DEF Sentinel
  <2>3. /\ start' = [start EXCEPT ![s] = [pc |-> "apply", meta |-> start[s].meta, next |-> Following(p)]]
        /\ start[s].meta \in {"none", "older", "current", "newer"}
    BY <1>1, <2>1, SetIs
  <2>4. /\ Carried(p)'
        /\ tables' \in [AllTables -> {"none", "full", "less"}]
        /\ indexes' \in [Indexes -> {"none", "asked", "other"}]
        /\ \A t \in AllTables : tables[t] = "full" => tables'[t] = "full"
        /\ \A x \in Indexes : indexes'[x] = indexes[x] \/ (indexes[x] = "none" /\ indexes'[x] = "asked")
    BY <1>1, <1>2, <1>6, <2>1, <2>2, DefineCarries
  <2>5. Following(p) \in Places /\ Prior(Following(p)) \subseteq Prior(p) \cup {p}
    BY <2>2, FollowingIsNext
  <2>6. Types'
    BY <1>1, <1>2, <2>1, <2>3, <2>4, <2>5 DEF Types, steps
  <2>7. \A q \in Statements : Carried(q) => Carried(q)'
    <3>1. \A t \in ToSet(Plan) : tables[t] = "full" => tables'[t] = "full"
      BY <2>4 DEF AllTables
    <3>2. \A x \in PlanIndexes : indexes'[x] = "none" => indexes[x] = "none"
      BY <2>4 DEF Indexes
    <3> QED
      BY <1>2, <3>1, <3>2, CarriedStays
  <2>8. ASSUME NEW r \in Starters, start'[r].pc = "apply", NEW q \in Prior(start'[r].next)
        PROVE  Carried(q)'
    <3>1. q \in Statements
      BY <2>8 DEF Prior
    <3>2. CASE r = s
      <4>1. start'[r].next = Following(p)
        BY <1>1, <2>3, <3>2 DEF Types
      <4>2. q \in Prior(p) \/ q = p
        BY <2>5, <2>8, <4>1
      <4> QED
        BY <1>3, <2>4, <2>7, <3>1, <4>2
    <3>3. CASE r # s
      <4>1. start'[r] = start[r]
        BY <1>1, <2>3, <3>3 DEF Types
      <4>2. Carried(q)
        BY <2>8, <4>1 DEF SchemaInv, Carrying
      <4> QED
        BY <2>7, <3>1, <4>2
    <3> QED
      BY <3>2, <3>3
  <2>9. Carrying'
    BY <2>1, <2>7, <2>8 DEF SchemaInv, Carrying
  <2> QED
    BY <1>2, <2>4, <2>6, <2>9, BuildUndisturbed
<1> QED
  BY <1>4, <1>5, <1>6

-----------------------------------------------------------------------------
(* The index build                                                         *)

\* Files that are those of before and, under the labels given, files that name
\* only what is there.
Filed(now, labels) ==
    \A l \in DOMAIN now :
       \/ l \in DOMAIN files /\ now[l] = files[l]
       \/ l \in labels /\ now[l].names \subseteq {x \in Indexes : indexes'[x] # "none"}

LEMMA FileOfFiled ==
    ASSUME NEW label, NEW r, NEW o, NEW now, now = FileOf(label, r, o),
           r.names \subseteq {x \in Indexes : indexes'[x] # "none"}
    PROVE  /\ Filed(now, {label})
           /\ o = "died" => now = files
           /\ o # "died" => label \in DOMAIN now
           /\ o = "applied" => now[label] = r
           /\ o \notin {"died", "applied"} => now[label].status = o
<1>1. CASE o = "died"
  BY <1>1 DEF FileOf, Filed
<1>2. CASE o # "died"
  <2> DEFINE v == IF o = "applied" THEN r ELSE [status |-> o, names |-> {}]
  <2>1. now = [l \in DOMAIN files \cup {label} |-> IF l = label THEN v ELSE files[l]]
    BY <1>2 DEF FileOf, Filing
  <2>2. /\ DOMAIN now = DOMAIN files \cup {label} /\ now[label] = v
        /\ \A l \in DOMAIN files : l # label => now[l] = files[l]
    BY <2>1
  <2>3. v.names \subseteq {x \in Indexes : indexes'[x] # "none"}
    OBVIOUS
  <2>4. Filed(now, {label})
    BY <2>2, <2>3 DEF Filed
  <2> QED
    BY <1>2, <2>2, <2>4
<1> QED
  BY <1>1, <1>2

\* A result the parent files itself names nothing.
LEMMA FilingFiled ==
    ASSUME NEW now, NEW labels, Filed(now, labels), NEW label, NEW more, more = Filing(label, Succeeded, now)
    PROVE  Filed(more, labels \cup {label})
<1>1. /\ DOMAIN more = DOMAIN now \cup {label} /\ more[label] = Succeeded
      /\ \A l \in DOMAIN now : l # label => more[l] = now[l]
  BY DEF Filing
<1>2. Succeeded.names \subseteq {x \in Indexes : indexes'[x] # "none"}
  BY DEF Succeeded
<1> QED
  BY <1>1, <1>2 DEF Filed

\* Who meets no fault leaves its own file, and a fault is had for good.
LEMMA OutcomeIs ==
    ASSUME Spared, NEW o, Outcome(o)
    PROVE  /\ left' = left \/ Fault
           /\ left' = left => o = "applied"
BY DEF Outcome, Fault, Spared, Faulty

LEMMA FaultIsOne ==
    ASSUME Spared, Fault
    PROVE  left' # left /\ left.faults > 0 /\ (SameDirectory => ~ (left'.faults > 0))
BY DEF Spared, Fault

LEMMA InfoFiled ==
    ASSUME NEW label, NEW t, NEW o, NEW now, now = Info(label, t, o), indexes' = indexes
    PROVE  /\ Filed(now, {label})
           /\ o = "applied" =>
                 ResultIn(label, now) =
                    [status |-> "applied", names |-> {x \in Indexes : x[1] = t /\ indexes[x] # "none"}]
<1> DEFINE r == [status |-> "applied", names |-> {x \in Indexes : x[1] = t /\ indexes[x] # "none"}]
<1>1. r.names \subseteq {x \in Indexes : indexes'[x] # "none"}
  OBVIOUS
<1>2. now = FileOf(label, r, o)
  BY DEF Info
<1> HIDE DEF r
<1>3. Filed(now, {label}) /\ (o = "applied" => label \in DOMAIN now /\ now[label] = r)
  BY <1>1, <1>2, FileOfFiled
<1> QED
  BY <1>3 DEF ResultIn, r

LEMMA ChangeEffect ==
    ASSUME NEW label, NEW op \in {"remove", "define"}, NEW x \in Indexes, Change(label, op, x), Types, Spared
    PROVE  /\ Filed(files', {label})
           /\ left' = left \/ Fault
           /\ indexes' \in [Indexes -> {"none", "asked", "other"}]
           /\ \A y \in Indexes : y # x => indexes'[y] = indexes[y]
           /\ \A y \in Indexes : indexes[y] # "other" => indexes'[y] # "other"
           /\ left' = left \/ label \notin DOMAIN files =>
                (ResultIn(label, files').status = "applied"
                    => indexes'[x] = IF op = "remove" THEN "none" ELSE "asked")
<1> DEFINE can == tables[x[1]] # "none" /\ (op = "remove") = (indexes[x] # "none")
           after == [indexes EXCEPT ![x] = IF op = "remove" THEN "none" ELSE "asked"]
<1>1. indexes \in [Indexes -> {"none", "asked", "other"}]
  BY DEF Types
<1>2. indexes' \in {indexes, after}
  BY DEF Change
<1>3. /\ indexes' \in [Indexes -> {"none", "asked", "other"}]
      /\ \A y \in Indexes : y # x => indexes'[y] = indexes[y]
      /\ \A y \in Indexes : indexes[y] # "other" => indexes'[y] # "other"
  BY <1>1, <1>2
<1>4. PICK o \in {"applied", "failed", "died", "timed_out_uncertain"} :
         /\ files' = FileOf(label, Succeeded, o) /\ (o = "applied" => can /\ indexes' = after)
         /\ (left' = left /\ o \in {"applied", "failed"}) \/ Fault
  BY DEF Change, Faulty
<1>5. Succeeded.names \subseteq {y \in Indexes : indexes'[y] # "none"}
  BY DEF Succeeded
<1>6. /\ Filed(files', {label})
      /\ o = "died" => files' = files
      /\ o # "died" => label \in DOMAIN files'
      /\ o \notin {"died", "applied"} => files'[label].status = o
  BY <1>4, <1>5, FileOfFiled
<1>7. ASSUME left' = left \/ label \notin DOMAIN files, ResultIn(label, files').status = "applied"
      PROVE  indexes'[x] = IF op = "remove" THEN "none" ELSE "asked"
  <2>1. o # "died"
    <3>1. CASE left' = left
      BY <1>4, <3>1, FaultIsOne
    <3>2. CASE label \notin DOMAIN files
      BY <1>6, <1>7, <3>2 DEF ResultIn
    <3> QED
      BY <1>7, <3>1, <3>2
  <2>2. o = "applied"
    BY <1>4, <1>6, <1>7, <2>1 DEF ResultIn
  <2> QED
    BY <1>1, <1>4, <2>2
<1> QED
  BY <1>3, <1>4, <1>6, <1>7

RunType == [pc : {"idle", "before", "remove", "define", "after", "end"}, mode : Modes,
            rebuild : BOOLEAN, at : Nat, ok : BOOLEAN, seen : SUBSET Indexes]

LEMMA RunTyped ==
    ASSUME Types
    PROVE  /\ run \in RunType /\ DOMAIN steps = 1 .. Len(steps) /\ Len(steps) \in Nat /\ Len(steps) > 0
           /\ ToSet(steps) \subseteq Indexes /\ \A i \in DOMAIN steps : steps[i] \in ToSet(steps)
<1>1. run \in RunType
  BY DEF Types, RunType
<1>2. run.mode \in Modes
  BY <1>1 DEF RunType
<1> QED
  BY <1>1, <1>2, StepsTyped DEF steps, ToSet

LEMMA StepIsIndex ==
    ASSUME Types, run.pc \notin {"idle", "end"}
    PROVE  step \in ToSet(steps) /\ step \in Indexes
BY RunTyped DEF Types, step

\* On to the next step or to the questions.
LEMMA OnwardsEffect ==
    ASSUME Types, Changing, NEW ok \in BOOLEAN, Onwards(ok)
    PROVE  /\ run' \in RunType /\ steps' = steps /\ run'.at \in DOMAIN steps
           /\ run'.rebuild = run.rebuild /\ run'.seen = run.seen
           /\ \/ ok /\ run'.pc = "before" /\ run'.at = run.at + 1
              \/ run'.pc = "after" /\ run'.ok = ok /\ (ok => run.at = Len(steps))
<1>1. /\ run \in RunType /\ DOMAIN steps = 1 .. Len(steps) /\ Len(steps) \in Nat /\ Len(steps) > 0
  BY RunTyped
<1>2. run.at \in 1 .. Len(steps)
  BY <1>1 DEF Types, Changing
<1>3. CASE ok /\ run.at < Len(steps)
  <2>1. run' = [run EXCEPT !.pc = "before", !.at = run.at + 1]
    BY <1>3 DEF Onwards
  <2>2. run' \in RunType /\ run'.mode = run.mode /\ run'.pc = "before" /\ run'.at = run.at + 1
        /\ run'.rebuild = run.rebuild /\ run'.seen = run.seen
    <3>1. PICK n \in Nat : n = run.at + 1
      BY <1>1, <1>2
    <3>2. run' = [run EXCEPT !.pc = "before", !.at = n]
      BY <2>1, <3>1
    <3>3. run' \in RunType /\ run'.mode = run.mode /\ run'.pc = "before" /\ run'.at = n
          /\ run'.rebuild = run.rebuild /\ run'.seen = run.seen
      BY <1>1, <3>2 DEF RunType
    <3> QED
      BY <3>1, <3>3
  <2> QED
    BY <1>1, <1>2, <1>3, <2>2 DEF steps
<1>4. CASE ~ (ok /\ run.at < Len(steps))
  <2>1. run' = [run EXCEPT !.pc = "after", !.at = 1, !.ok = ok]
    BY <1>4 DEF Onwards
  <2>2. run' \in RunType /\ run'.mode = run.mode /\ run'.pc = "after" /\ run'.at = 1 /\ run'.ok = ok
        /\ run'.rebuild = run.rebuild /\ run'.seen = run.seen
    BY <1>1, <2>1 DEF RunType
  <2> QED
    BY <1>1, <1>2, <1>4, <2>2 DEF steps
<1> QED
  BY <1>3, <1>4

\* A change that leaves alone what is not among the steps of the build.
LEMMA OthersUndisturbed ==
    ASSUME SchemaInv, run.pc # "idle", UNCHANGED <<tables, version, start, verdict>>,
           \A x \in Indexes \ ToSet(steps) : indexes'[x] = indexes[x]
    PROVE  Carrying' /\ VerifiedIsBuilt'
<1>1. \A x \in ToSet(steps) : verdict[x] = "running"
  BY DEF SchemaInv, CalledOff
<1>2. \A x \in Indexes : verdict[x] # "running" => indexes'[x] = indexes[x]
  BY <1>1
<1>3. VerifiedIsBuilt'
  BY <1>2 DEF SchemaInv, VerifiedIsBuilt
<1>4. \A x \in PlanIndexes : (indexes[x] = "none" => verdict[x] \in Excuses)
                             => (indexes'[x] = "none" => verdict'[x] \in Excuses)
  BY <1>2 DEF Indexes, Excuses
<1> QED
  BY <1>3, <1>4, CarryingStays DEF SchemaInv

\* A worker of a step that looks, removes or defines, and what follows.
LEMMA ChangingStep ==
    ASSUME SchemaInv, Changing, UNCHANGED <<tables, version, start, verdict>>,
           indexes' \in [Indexes -> {"none", "asked", "other"}],
           \A x \in Indexes : x # step => indexes'[x] = indexes[x],
           \A x \in Indexes : indexes[x] # "other" => indexes'[x] # "other",
           left' = left \/ Fault,
           NEW labels, Filed(files', labels), \A l \in labels : l[4] \in {"before", "remove", "define"},
           \A l \in labels : l[4] = "define" => l[1] = run.at,
           \/ \E ok \in BOOLEAN :
                 /\ Onwards(ok) /\ (ok /\ run.rebuild => indexes'[step] # "other")
                 /\ ok /\ SameDirectory /\ left' = left => indexes'[step] # "none"
           \/ /\ \A l \in labels : l[4] # "define"
              /\ \E pc \in {"remove", "define"} :
                    /\ run' = [run EXCEPT !.pc = pc]
                    /\ pc = "define" /\ SameDirectory /\ left' = left => indexes'[step] # "other"
    PROVE  SchemaInv'
<1>0. step \in ToSet(steps) /\ step \in Indexes
  BY StepIsIndex DEF SchemaInv, Changing
<1>1. /\ Types /\ CalledOff /\ FilesTrue /\ Spared /\ Unharmed /\ SeenTrue /\ RebuiltSoFar /\ run.pc # "idle"
      /\ \A x \in Indexes \ ToSet(steps) : indexes'[x] = indexes[x]
  BY <1>0 DEF SchemaInv, Changing
<1>2. /\ run \in RunType /\ DOMAIN steps = 1 .. Len(steps) /\ Len(steps) \in Nat
      /\ ToSet(steps) \subseteq Indexes /\ \A i \in DOMAIN steps : steps[i] \in ToSet(steps)
      /\ run.at \in DOMAIN steps
  BY <1>1, RunTyped DEF Types, Changing
<1>3. /\ run' \in RunType /\ steps' = steps /\ run'.at \in DOMAIN steps
      /\ run'.rebuild = run.rebuild /\ run'.seen = run.seen
      /\ \/ /\ run'.pc = "before" /\ run'.at = run.at + 1
            /\ run.rebuild => indexes'[step] # "other"
            /\ SameDirectory /\ left' = left => indexes'[step] # "none"
         \/ /\ run'.pc = "after"
            /\ run'.ok => /\ run.at = Len(steps) /\ (run.rebuild => indexes'[step] # "other")
                          /\ SameDirectory /\ left' = left => indexes'[step] # "none"
         \/ /\ \A l \in labels : l[4] # "define"
            /\ run'.pc \in {"remove", "define"} /\ run'.at = run.at
            /\ run'.pc = "define" /\ SameDirectory /\ left' = left => indexes'[step] # "other"
  <2>1. ASSUME NEW ok \in BOOLEAN, Onwards(ok), ok /\ run.rebuild => indexes'[step] # "other",
               ok /\ SameDirectory /\ left' = left => indexes'[step] # "none"
        PROVE  <1>3
    BY <1>1, <2>1, OnwardsEffect
  <2>2. ASSUME \A l \in labels : l[4] # "define", NEW pc \in {"remove", "define"}, run' = [run EXCEPT !.pc = pc],
               pc = "define" /\ SameDirectory /\ left' = left => indexes'[step] # "other"
        PROVE  <1>3
    BY <1>2, <2>2 DEF RunType, steps
  <2> QED
    BY <2>1, <2>2
<1>4. Types'
  BY <1>1, <1>3 DEF Types, RunType
<1>5. Carrying' /\ VerifiedIsBuilt'
  BY <1>1, OthersUndisturbed
<1>6. CalledOff'
  BY <1>1, <1>3 DEF CalledOff
<1>7. FilesTrue'
  <2> SUFFICES ASSUME ~ SameDirectory PROVE FilesTrue'
    BY DEF FilesTrue
  <2>1. ASSUME NEW l \in DOMAIN files' PROVE l[4] # "after"
    BY <1>1, <2>1 DEF Filed, FilesTrue
  <2>2. ASSUME NEW l \in DOMAIN files', l[4] = "define", Changing'
        PROVE  l[1] \in Nat /\ l[1] < run'.at
    <3>1. run.at \in Nat /\ (run'.at = run.at + 1 \/ (run'.at = run.at /\ \A k \in labels : k[4] # "define"))
      BY <1>2, <1>3, <2>2 DEF Changing
    <3>2. CASE l \in DOMAIN files
      <4>1. l[1] \in Nat /\ l[1] < run.at
        BY <1>1, <2>2, <3>2 DEF FilesTrue
      <4> QED
        BY <3>1, <4>1
    <3>3. CASE l \in labels
      BY <2>2, <3>1, <3>3
    <3> QED
      BY <3>2, <3>3 DEF Filed
  <2> QED
    BY <2>1, <2>2 DEF FilesTrue
<1>8. SeenTrue'
  BY <1>1, <1>3 DEF SeenTrue
<1>10. Spared' /\ Unharmed'
  <2>1. Spared' /\ (left'.faults > 0 => left.faults > 0)
    BY <1>1, FaultsSpent
  <2> SUFFICES ASSUME SameDirectory, left'.faults > 0 PROVE Unharmed'
    BY <2>1 DEF Unharmed
  <2>2. left' = left /\ left.faults > 0
    BY <1>1, <2>1, FaultIsOne
  <2>3. ASSUME NEW i \in DOMAIN steps, i < run.at, steps[i] # step PROVE indexes'[steps[i]] # "none"
    <3>1. indexes[steps[i]] # "none" /\ steps[i] \in Indexes
      BY <1>1, <1>2, <2>2, <2>3 DEF Unharmed
    <3> QED
      BY <2>3, <3>1
  <2>4. steps[run.at] = step
    BY DEF step
  <2>5. CASE run'.pc = "before" /\ run'.at = run.at + 1 /\ indexes'[step] # "none"
    <3>1. \A i \in DOMAIN steps : i < run'.at => i < run.at \/ i = run.at
      BY <1>2, <2>5
    <3> QED
      BY <1>3, <2>3, <2>4, <2>5, <3>1 DEF Unharmed, Changing, Asking
  <2>6. CASE run'.pc = "after" /\ (run'.ok => run.at = Len(steps) /\ indexes'[step] # "none")
    <3>1. run'.ok => \A i \in DOMAIN steps : i < run.at \/ i = run.at
      BY <1>2, <2>6
    <3> QED
      BY <1>3, <2>3, <2>4, <2>6, <3>1 DEF Unharmed, Changing, Asking
  <2>7. CASE /\ run'.pc \in {"remove", "define"} /\ run'.at = run.at
             /\ run'.pc = "define" => indexes'[step] # "other"
    <3>1. step' = step
      BY <1>3, <2>7 DEF step
    <3> QED
      BY <1>3, <2>3, <2>7, <3>1 DEF Unharmed, Changing, Asking
  <2> QED
    BY <1>3, <2>2, <2>5, <2>6, <2>7
<1>9. RebuiltSoFar'
  <2> SUFFICES ASSUME run.rebuild PROVE RebuiltSoFar'
    BY <1>3 DEF RebuiltSoFar
  <2>1. \A i \in DOMAIN steps : i < run.at => indexes'[steps[i]] # "other"
    BY <1>1, <1>2 DEF RebuiltSoFar
  <2>2. \A i \in DOMAIN steps : i = run.at => steps[i] = step
    BY DEF step
  <2>3. CASE run'.pc = "before" /\ run'.at = run.at + 1 /\ indexes'[step] # "other"
    <3>1. \A i \in DOMAIN steps : i < run'.at => i < run.at \/ i = run.at
      BY <1>2, <2>3
    <3> QED
      BY <1>3, <2>1, <2>2, <2>3, <3>1 DEF RebuiltSoFar, Changing, Asking
  <2>4. CASE run'.pc = "after" /\ (run'.ok => run.at = Len(steps) /\ indexes'[step] # "other")
    <3>1. run'.ok => \A i \in DOMAIN steps : i < run.at \/ i = run.at
      BY <1>2, <2>4
    <3> QED
      BY <1>3, <2>1, <2>2, <2>4, <3>1 DEF RebuiltSoFar, Changing, Asking
  <2>5. CASE run'.pc \in {"remove", "define"} /\ run'.at = run.at
    BY <1>3, <2>1, <2>5 DEF RebuiltSoFar, Changing, Asking
  <2> QED
    BY <1>3, <2>3, <2>4, <2>5
<1> QED
  BY <1>4, <1>5, <1>6, <1>7, <1>8, <1>9, <1>10 DEF SchemaInv

\* What a step calls for, and on which grounds.
LEMMA CalledForBy ==
    ASSUME NEW r
    PROVE  /\ CalledFor(r) \in {"stop", "define", "remove", "already_present"}
           /\ CalledFor(r) = "define" => step \notin r.names
           /\ CalledFor(r) = "already_present" => ~ run.rebuild /\ step \in r.names
           /\ CalledFor(r) = "remove" => run.rebuild
<1>1. CASE r.status # "applied"
  BY <1>1, Zenon DEF CalledFor
<1>2. CASE r.status = "applied" /\ step \notin r.names
  BY <1>2, Zenon DEF CalledFor
<1>3. CASE r.status = "applied" /\ step \in r.names
  BY <1>3, Zenon DEF CalledFor
<1> QED
  BY <1>1, <1>2, <1>3

LEMMA BeforeStep ==
    ASSUME SchemaInv, Before
    PROVE  SchemaInv'
<1>0. PICK o \in {"applied"} \cup Faulty :
         LET label == <<run.at, step[1], "", "before">>
             now == Info(label, step[1], o)
             next == CalledFor(ResultIn(label, now))
         IN /\ Outcome(o)
            /\ files' = IF next = "already_present" THEN Filing(<<run.at, step[1], step[2], "define">>, Succeeded, now) ELSE now
            /\ IF next \in {"define", "remove"} THEN run' = [run EXCEPT !.pc = next] ELSE Onwards(next # "stop")
  BY Zenon DEF Before
<1>1. PICK label, done : label = <<run.at, step[1], "", "before">> /\ done = <<run.at, step[1], step[2], "define">>
  OBVIOUS
<1>2. LET now == Info(label, step[1], o)
          next == CalledFor(ResultIn(label, now))
      IN /\ Outcome(o)
         /\ files' = IF next = "already_present" THEN Filing(done, Succeeded, now) ELSE now
         /\ IF next \in {"define", "remove"} THEN run' = [run EXCEPT !.pc = next] ELSE Onwards(next # "stop")
  BY <1>0, <1>1, Zenon
<1>3. PICK now : now = Info(label, step[1], o)
  OBVIOUS
<1>4. PICK next : next = CalledFor(ResultIn(label, now))
  OBVIOUS
<1>5. /\ Outcome(o)
      /\ files' = IF next = "already_present" THEN Filing(done, Succeeded, now) ELSE now
      /\ IF next \in {"define", "remove"} THEN run' = [run EXCEPT !.pc = next] ELSE Onwards(next # "stop")
  BY <1>2, <1>3, <1>4, Zenon
<1>6. /\ run.pc = "before" /\ Changing /\ Types /\ Spared
      /\ UNCHANGED <<tables, indexes, version, start, verdict>>
  BY DEF Before, SchemaInv, Changing, definitions
<1>7. step \in Indexes
  BY <1>6, StepIsIndex
<1>8. /\ left' = left \/ Fault
      /\ left' = left => o = "applied"
  BY <1>5, <1>6, OutcomeIs
<1>9. /\ Filed(now, {label})
      /\ o = "applied" => /\ step \in ResultIn(label, now).names => indexes[step] # "none"
                          /\ step \notin ResultIn(label, now).names => indexes[step] = "none"
  BY <1>3, <1>6, <1>7, InfoFiled
<1>10. /\ next \in {"stop", "define", "remove", "already_present"}
       /\ next = "already_present" => ~ run.rebuild
       /\ left' = left /\ next = "already_present" => indexes[step] # "none"
       /\ left' = left /\ next = "define" => indexes[step] = "none"
  BY <1>4, <1>8, <1>9, CalledForBy
<1>11. label[1] = run.at /\ label[4] = "before" /\ done[1] = run.at /\ done[4] = "define"
  BY <1>1
<1>12. indexes' \in [Indexes -> {"none", "asked", "other"}]
  BY <1>6 DEF Types
<1>13. CASE next = "already_present"
  <2>1. Onwards(TRUE) /\ files' = Filing(done, Succeeded, now)
    BY <1>5, <1>13
  <2>2. PICK labels : labels = {label} \cup {done}
    OBVIOUS
  <2>3. Filed(files', labels)
    BY <1>9, <2>1, <2>2, FilingFiled
  <2>4. \A l \in labels : l[4] \in {"before", "define"} /\ l[1] = run.at
    BY <1>11, <2>2
  <2> QED
    BY <1>6, <1>8, <1>10, <1>12, <1>13, <2>1, <2>3, <2>4, ChangingStep
<1>14. CASE next = "stop"
  <2>1. PICK ok \in BOOLEAN : ok = FALSE /\ Onwards(ok) /\ files' = now
    BY <1>5, <1>14
  <2> QED
    BY <1>6, <1>8, <1>9, <1>11, <1>12, <2>1, ChangingStep
<1>15. CASE next \in {"define", "remove"}
  <2>1. run' = [run EXCEPT !.pc = next] /\ files' = now
    BY <1>5, <1>15
  <2> QED
    BY <1>6, <1>8, <1>9, <1>10, <1>11, <1>12, <1>15, <2>1, ChangingStep
<1> QED
  BY <1>10, <1>13, <1>14, <1>15

LEMMA RemoveIndexStep ==
    ASSUME SchemaInv, RemoveIndex
    PROVE  SchemaInv'
<1>1. PICK l : l = <<run.at, step[1], step[2], "remove">>
  OBVIOUS
<1>2. PICK x : x = step
  OBVIOUS
<1>3. /\ run.pc = "remove" /\ Changing /\ Types /\ Spared /\ Change(l, "remove", x)
      /\ UNCHANGED <<tables, version, start, verdict>> /\ l[4] = "remove"
  BY <1>1, <1>2 DEF RemoveIndex, SchemaInv, Changing
<1>4. x \in Indexes
  BY <1>2, <1>3, StepIsIndex
<1>5. /\ Filed(files', {l})
      /\ left' = left \/ Fault
      /\ indexes' \in [Indexes -> {"none", "asked", "other"}]
      /\ \A y \in Indexes : y # x => indexes'[y] = indexes[y]
      /\ \A y \in Indexes : indexes[y] # "other" => indexes'[y] # "other"
      /\ left' = left => (ResultIn(l, files').status = "applied" => indexes'[x] = "none")
  BY <1>3, <1>4, ChangeEffect
<1>6. \/ ResultIn(l, files').status = "applied" /\ run' = [run EXCEPT !.pc = "define"]
      \/ Onwards(FALSE)
  BY <1>1 DEF RemoveIndex
<1>7. CASE ResultIn(l, files').status = "applied" /\ run' = [run EXCEPT !.pc = "define"]
  <2>1. PICK pc \in {"remove", "define"} : pc = "define" /\ run' = [run EXCEPT !.pc = pc]
    BY <1>7
  <2> QED
    BY <1>2, <1>3, <1>5, <1>7, <2>1, ChangingStep
<1>8. CASE Onwards(FALSE)
  <2>1. PICK ok \in BOOLEAN : ok = FALSE /\ Onwards(ok)
    BY <1>8
  <2> QED
    BY <1>2, <1>3, <1>5, <2>1, ChangingStep
<1> QED
  BY <1>6, <1>7, <1>8

LEMMA DefineIndexStep ==
    ASSUME SchemaInv, DefineIndex
    PROVE  SchemaInv'
<1>1. PICK l : l = <<run.at, step[1], step[2], "define">>
  OBVIOUS
<1>2. PICK x : x = step
  OBVIOUS
<1>3. /\ run.pc = "define" /\ Changing /\ Types /\ Spared /\ FilesTrue /\ Unharmed /\ Change(l, "define", x)
      /\ UNCHANGED <<tables, version, start, verdict>>
      /\ Onwards(ResultIn(l, files').status = "applied")
      /\ l[4] = "define" /\ l[1] = run.at
  BY <1>1, <1>2 DEF DefineIndex, SchemaInv, Changing
<1>4. x \in Indexes
  BY <1>2, <1>3, StepIsIndex
<1>5. /\ Filed(files', {l})
      /\ left' = left \/ Fault
      /\ indexes' \in [Indexes -> {"none", "asked", "other"}]
      /\ \A y \in Indexes : y # x => indexes'[y] = indexes[y]
      /\ \A y \in Indexes : indexes[y] # "other" => indexes'[y] # "other"
      /\ left' = left \/ l \notin DOMAIN files =>
            (ResultIn(l, files').status = "applied" => indexes'[x] = "asked")
  BY <1>3, <1>4, ChangeEffect
<1>6. PICK ok \in BOOLEAN : ok = (ResultIn(l, files').status = "applied")
  OBVIOUS
<1>7. ok => indexes'[x] # "other"
  <2>1. CASE ~ SameDirectory
    <3>1. l \notin DOMAIN files
      BY <1>3, <2>1 DEF FilesTrue
    <3> QED
      BY <1>5, <1>6, <3>1
  <2>2. CASE left' = left
    BY <1>5, <1>6, <2>2
  <2>3. CASE SameDirectory /\ Fault
    BY <1>2, <1>3, <1>4, <1>5, <2>3, FaultIsOne DEF Unharmed
  <2> QED
    BY <1>5, <2>1, <2>2, <2>3
<1>8. ok /\ left' = left => indexes'[x] # "none"
  BY <1>5, <1>6
<1>9. Onwards(ok)
  BY <1>3, <1>6
<1> QED
  BY <1>2, <1>3, <1>5, <1>7, <1>8, <1>9, ChangingStep

LEMMA AfterStep ==
    ASSUME SchemaInv, After
    PROVE  SchemaInv'
<1> DEFINE label == <<0, step[1], "", "after">>
           r == ResultIn(label, files')
<1>1. /\ run.pc = "after" /\ Types /\ ~ Changing /\ Asking
      /\ UNCHANGED <<tables, indexes, version, start, verdict>>
      /\ FilesTrue /\ Spared /\ Unharmed /\ SeenTrue /\ CalledOff /\ RebuiltSoFar
  BY DEF After, SchemaInv, Changing, Asking, definitions
<1>2. PICK o \in {"applied"} \cup Faulty : Outcome(o) /\ files' = Info(label, step[1], o)
  BY DEF After
<1>14. /\ left' = left \/ Fault
       /\ left' = left => o = "applied"
  BY <1>1, <1>2, OutcomeIs
<1>15. /\ Filed(files', {label})
       /\ o = "applied" => r.names \subseteq {x \in Indexes : indexes[x] # "none"}
  <2>1. PICK l, t, now : l = label /\ t = step[1] /\ now = files'
    OBVIOUS
  <2>2. now = Info(l, t, o) /\ indexes' = indexes
    BY <1>1, <1>2, <2>1
  <2>3. /\ Filed(now, {l})
        /\ o = "applied" =>
              ResultIn(l, now) = [status |-> "applied", names |-> {x \in Indexes : x[1] = t /\ indexes[x] # "none"}]
    BY <2>2, InfoFiled
  <2>4. o = "applied" => ResultIn(l, now).names \subseteq {x \in Indexes : indexes[x] # "none"}
    BY <2>3
  <2> QED
    BY <2>1, <2>3, <2>4
<1>3. ~ SameDirectory =>
         \A l \in DOMAIN files' : l[4] = "after" => files'[l].names \subseteq {x \in Indexes : indexes[x] # "none"}
  BY <1>1, <1>15 DEF Filed, FilesTrue
<1>4. run.ok /\ r.status = "applied" /\ step \in r.names => indexes[step] # "none"
  <2>1. CASE left' = left
    BY <1>14, <1>15, <2>1
  <2>2. CASE ~ SameDirectory
    BY <1>3, <2>2 DEF ResultIn
  <2>3. CASE SameDirectory /\ Fault
    <3>1. left.faults > 0
      BY <1>1, <2>3, FaultIsOne
    <3>2. run.at \in DOMAIN steps /\ steps[run.at] = step
      BY <1>1 DEF Types, step
    <3> QED
      BY <1>1, <2>3, <3>1, <3>2 DEF Unharmed
  <2> QED
    BY <1>14, <2>1, <2>2, <2>3
<1>5. /\ run \in RunType /\ DOMAIN steps = 1 .. Len(steps) /\ Len(steps) \in Nat
      /\ run.at \in DOMAIN steps /\ step \in Indexes
  BY <1>1, RunTyped, StepIsIndex DEF Types
<1>6. run' = [run EXCEPT !.pc = IF run.at < Len(steps) THEN "after" ELSE "end",
                         !.at = IF run.at < Len(steps) THEN run.at + 1 ELSE run.at,
                         !.ok = run.ok /\ r.status = "applied",
                         !.seen = IF r.status = "applied" /\ step \in r.names THEN run.seen \cup {step} ELSE run.seen]
  BY DEF After
<1> HIDE DEF r
<1>7. /\ run' \in RunType /\ run'.mode = run.mode /\ run'.rebuild = run.rebuild
      /\ run'.pc \in {"after", "end"} /\ (run'.ok => run.ok)
      /\ run'.ok => run'.seen \subseteq run.seen \cup (IF indexes[step] # "none" THEN {step} ELSE {})
      /\ run'.pc = "after" => run.at < Len(steps) /\ run'.at = run.at + 1
  <2>1. PICK pc \in {"after", "end"}, n \in Nat :
           /\ pc = IF run.at < Len(steps) THEN "after" ELSE "end"
           /\ n = IF run.at < Len(steps) THEN run.at + 1 ELSE run.at
    BY <1>5
  <2>2. PICK ok \in BOOLEAN, seen \in SUBSET Indexes :
           /\ ok = (run.ok /\ r.status = "applied")
           /\ seen = IF r.status = "applied" /\ step \in r.names THEN run.seen \cup {step} ELSE run.seen
    BY <1>5 DEF RunType
  <2>3. run' = [run EXCEPT !.pc = pc, !.at = n, !.ok = ok, !.seen = seen]
    BY <1>6, <2>1, <2>2
  <2>4. /\ run' \in RunType /\ run'.mode = run.mode /\ run'.rebuild = run.rebuild
        /\ run'.pc = pc /\ run'.ok = ok /\ run'.seen = seen /\ run'.at = n
    BY <1>5, <2>3 DEF RunType
  <2> QED
    BY <1>4, <2>1, <2>2, <2>4
<1>8. steps' = steps
  BY <1>7 DEF steps
<1>9. Types'
  <2>1. run'.pc = "after" => run'.at \in DOMAIN steps
    BY <1>5, <1>7
  <2> QED
    BY <1>1, <1>7, <1>8, <2>1 DEF Types, RunType
<1>10. Carrying' /\ VerifiedIsBuilt'
  BY <1>1, OthersUndisturbed
<1>11. CalledOff'
  BY <1>1, <1>8 DEF CalledOff
<1>12. FilesTrue'
  BY <1>1, <1>3, <1>7 DEF FilesTrue, Changing
<1>16. Spared' /\ Unharmed'
  <2>1. Spared' /\ (left'.faults > 0 => left.faults > 0)
    BY <1>1, <1>14, FaultsSpent
  <2> QED
    BY <1>1, <1>7, <1>8, <2>1 DEF Unharmed, Changing, Asking
<1>13. SeenTrue'
  BY <1>1, <1>5, <1>7 DEF SeenTrue, Changing
<1>17. RebuiltSoFar'
  BY <1>1, <1>7, <1>8 DEF RebuiltSoFar, Changing, Asking
<1> QED
  BY <1>9, <1>10, <1>11, <1>12, <1>13, <1>16, <1>17 DEF SchemaInv

LEMMA BeginRunStep ==
    ASSUME SchemaInv, NEW mode \in Modes, NEW rebuild \in BOOLEAN, BeginRun(mode, rebuild)
    PROVE  SchemaInv'
<1>1. /\ run' = [Idle EXCEPT !.pc = "before", !.mode = mode, !.rebuild = rebuild, !.at = 1]
      /\ files' = << >> \/ SameDirectory
      /\ left.runs > 0 /\ left' = [left EXCEPT !.runs = @ - 1]
      /\ verdict' = [x \in Indexes |-> IF x \in ToSet(Steps(mode)) THEN "running" ELSE verdict[x]]
      /\ UNCHANGED <<tables, indexes, version, start>>
  BY DEF BeginRun, definitions
<1>2. run' = [pc |-> "before", mode |-> mode, rebuild |-> rebuild, at |-> 1, ok |-> TRUE, seen |-> {}]
  BY <1>1 DEF Idle
<1>3. steps' = Steps(mode)
  BY <1>2 DEF steps
<1>4. /\ 1 \in DOMAIN Steps(mode) /\ ToSet(Steps(mode)) \subseteq Indexes
      /\ DOMAIN Steps(mode) = 1 .. Len(Steps(mode)) /\ Len(Steps(mode)) \in Nat
  BY StepsTyped
<1>5. Types'
  <2>1. verdict' \in [Indexes -> {"none", "verified", "rebuilt"} \cup Excuses]
    BY <1>1 DEF SchemaInv, Types, Excuses
  <2>2. run' \in RunType
    BY <1>2 DEF RunType
  <2>3. run'.at \in DOMAIN steps'
    BY <1>2, <1>3, <1>4
  <2> QED
    BY <1>1, <2>1, <2>2, <2>3 DEF SchemaInv, Types, RunType
<1>6. \A x \in Indexes : verdict'[x] = "running" \/ verdict'[x] = verdict[x]
  BY <1>1
<1>7. Carrying'
  BY <1>1, <1>6, CarryingStays DEF SchemaInv, Indexes, Excuses
<1>8. VerifiedIsBuilt'
  BY <1>1, <1>6 DEF SchemaInv, VerifiedIsBuilt
<1>9. CalledOff'
  BY <1>1, <1>3, <1>4 DEF CalledOff
<1>10. FilesTrue' /\ SeenTrue'
  <2>1. SameDirectory \/ DOMAIN files' = {}
    BY <1>1
  <2>2. run'.seen = {}
    BY <1>2
  <2> QED
    BY <2>1, <2>2 DEF FilesTrue, SeenTrue
<1>11. RebuiltSoFar' /\ Unharmed'
  BY <1>2, <1>3, <1>4 DEF RebuiltSoFar, Unharmed, Changing, Asking
<1>12. Spared'
  BY <1>1 DEF SchemaInv, Spared
<1> QED
  BY <1>5, <1>7, <1>8, <1>9, <1>10, <1>11, <1>12 DEF SchemaInv

\* The end of a build, with a verdict that is true or excuses.
LEMMA JudgeStep ==
    ASSUME SchemaInv, NEW v \in {"verified", "rebuilt"} \cup Excuses, Judge(v),
           UNCHANGED <<tables, indexes, version, start, files>>, left' = left \/ Fault,
           v \in {"verified", "rebuilt"} => \A x \in ToSet(steps) : indexes[x] # "none",
           v = "rebuilt" => \A x \in ToSet(steps) : indexes[x] = "asked"
    PROVE  SchemaInv'
<1>1. run' = Idle
      /\ verdict' = [x \in Indexes |-> IF x \in ToSet(steps) THEN v ELSE verdict[x]]
  BY DEF Judge
<1>2. run' = [pc |-> "idle", mode |-> "all", rebuild |-> FALSE, at |-> 0, ok |-> TRUE, seen |-> {}]
  BY <1>1 DEF Idle
<1>3. Types'
  <2>1. verdict' \in [Indexes -> {"none", "verified", "rebuilt"} \cup Excuses]
    BY <1>1 DEF SchemaInv, Types
  <2>2. run' \in RunType
    BY <1>2 DEF RunType, Modes
  <2> QED
    BY <1>2, <2>1, <2>2 DEF SchemaInv, Types, RunType
<1>4. \A x \in Indexes : verdict'[x] = verdict[x] \/ (x \in ToSet(steps) /\ verdict'[x] = v)
  BY <1>1
<1>5. Carrying'
  <2>1. \A x \in PlanIndexes : (indexes[x] = "none" => verdict[x] \in Excuses)
                                => (indexes'[x] = "none" => verdict'[x] \in Excuses)
    BY <1>4 DEF Indexes
  <2> QED
    BY <2>1, CarryingStays DEF SchemaInv
<1>6. VerifiedIsBuilt'
  BY <1>4 DEF SchemaInv, VerifiedIsBuilt, Excuses
<1>7. CalledOff' /\ SeenTrue' /\ RebuiltSoFar' /\ Unharmed'
  BY <1>2 DEF CalledOff, SeenTrue, RebuiltSoFar, Unharmed, Changing, Asking
<1>9. Spared'
  BY FaultsSpent DEF SchemaInv
<1>8. FilesTrue'
  BY <1>2 DEF SchemaInv, FilesTrue, Changing
<1> QED
  BY <1>3, <1>5, <1>6, <1>7, <1>8, <1>9 DEF SchemaInv

LEMMA EndRunStep ==
    ASSUME SchemaInv, EndRun
    PROVE  SchemaInv'
<1> DEFINE w == IF ~run.ok \/ run.seen # ToSet(steps) THEN "blocked"
                ELSE IF run.rebuild THEN "rebuilt" ELSE "verified"
<1>1. run.pc = "end" /\ Judge(w) /\ UNCHANGED <<tables, indexes, version, start, files>> /\ left' = left
  BY DEF EndRun, definitions
<1>2. PICK v : v = w
  OBVIOUS
<1>3. v \in {"verified", "rebuilt"} => \A x \in ToSet(steps) : indexes[x] # "none"
  BY <1>2 DEF SchemaInv, SeenTrue
<1>4. ASSUME v = "rebuilt", NEW x \in ToSet(steps) PROVE indexes[x] = "asked"
  <2>1. run.rebuild /\ run.ok /\ indexes[x] # "none"
    BY <1>2, <1>3, <1>4
  <2>2. PICK i \in DOMAIN steps : x = steps[i]
    BY DEF ToSet
  <2>3. indexes[x] # "other"
    BY <1>1, <2>1, <2>2 DEF SchemaInv, RebuiltSoFar, Asking
  <2>4. x \in Indexes /\ indexes \in [Indexes -> {"none", "asked", "other"}]
    BY RunTyped DEF SchemaInv, Types
  <2> QED
    BY <2>1, <2>3, <2>4
<1>5. v \in {"verified", "rebuilt"} \cup Excuses
  BY <1>2 DEF Excuses
<1>6. Judge(v)
  BY <1>1, <1>2
<1> HIDE DEF w
<1> QED
  BY <1>1, <1>3, <1>4, <1>5, <1>6, JudgeStep

LEMMA CutRunStep ==
    ASSUME SchemaInv, CutRun
    PROVE  SchemaInv'
<1>1. Judge("cut") /\ UNCHANGED <<tables, indexes, version, start, files>> /\ Fault
  BY DEF CutRun, definitions
<1> QED
  BY <1>1, JudgeStep DEF Excuses

-----------------------------------------------------------------------------
(* The theorems                                                            *)

LEMMA SchemaInvStep == SchemaInv /\ [SchemaNext]_schemaVars => SchemaInv'
<1> SUFFICES ASSUME SchemaInv, [SchemaNext]_schemaVars PROVE SchemaInv'
  OBVIOUS
<1>1. ASSUME NEW s \in Starters, Open(s) \/ Inspect(s) \/ Apply(s) \/ Die(s) PROVE SchemaInv'
  BY <1>1, OpenStep, InspectStep, ApplyStep, DieStep
<1>2. ASSUME NEW s \in Starters, NEW t \in ToSet(Plan), Write(s, t) PROVE SchemaInv'
  BY <1>2, WriteStep
<1>3. ASSUME NEW mode \in {"unique-only", "secondary", "hnsw", "all"}, NEW rebuild \in BOOLEAN,
             BeginRun(mode, rebuild)
      PROVE  SchemaInv'
  BY <1>3, BeginRunStep DEF Modes
<1>4. CASE Before
  BY <1>4, BeforeStep
<1>5. CASE RemoveIndex
  BY <1>5, RemoveIndexStep
<1>6. CASE DefineIndex
  BY <1>6, DefineIndexStep
<1>7. CASE After
  BY <1>7, AfterStep
<1>8. CASE EndRun
  BY <1>8, EndRunStep
<1>9. CASE CutRun
  BY <1>9, CutRunStep
<1>10. CASE UNCHANGED schemaVars
  <2>1. UNCHANGED <<tables, indexes, version, start, run, files, verdict>> /\ UNCHANGED build /\ left' = left
    BY <1>10 DEF schemaVars, definitions, build
  <2>2. Types'
    BY <2>1 DEF SchemaInv, Types, steps
  <2>3. Carrying'
    BY <2>1, CarryingStays DEF SchemaInv
  <2> QED
    BY <2>1, <2>2, <2>3, BuildUndisturbed
<1> QED
  BY <1>1, <1>2, <1>3, <1>4, <1>5, <1>6, <1>7, <1>8, <1>9, <1>10 DEF SchemaNext

\* The invariant holds of every reachable state: of what processes that start at
\* once, builds, failures and deaths make of the schema together.
THEOREM Invariance ==
    ASSUME FewFaults
    PROVE  SchemaSpec => []SchemaInv
<1>1. SchemaInit => SchemaInv
  BY SchemaInvInit
<1> QED
  BY <1>1, SchemaInvStep, PTL DEF SchemaSpec

\* A version that is current promises no table and no index that is missing, but
\* for the indexes of a build that owned up to it (define_dotmd_surreal_schema).
THEOREM CurrentPromisesNothingMissing ==
    ASSUME FewFaults
    PROVE  SchemaSpec => []CurrentIsComplete
<1>1. SchemaInv => CurrentIsComplete
  <2> SUFFICES ASSUME SchemaInv, version = "current" PROVE CurrentIsComplete
    BY DEF CurrentIsComplete
  <2>1. \A q \in Statements : Carried(q)
    BY DEF SchemaInv, Carrying
  <2>2. DOMAIN Plan = 1 .. Len(Plan) /\ \A i \in DOMAIN Plan :
           Plan[i] \in ToSet(Plan) /\ IndexesOf[Plan[i]] \in Seq(ToSet(IndexesOf[Plan[i]]))
    BY PlanTyped
  <2>3. ASSUME NEW t \in ToSet(Plan) PROVE tables[t] = "full"
    <3>1. PICK i \in DOMAIN Plan : Plan[i] = t
      BY DEF ToSet
    <3>2. 0 \in 0 .. Len(IndexesOf[Plan[i]])
      BY <2>2
    <3>3. <<i, 0>> \in Statements
      BY <3>2, StatementShape
    <3> QED
      BY <2>1, <3>1, <3>3 DEF Carried, TableOf
  <2>4. ASSUME NEW x \in PlanIndexes, indexes[x] = "none" PROVE verdict[x] \in Excuses
    <3>1. PICK t \in ToSet(Plan) : x \in {<<t, n>> : n \in ToSet(IndexesOf[t])}
      BY DEF PlanIndexes
    <3>2. PICK i \in DOMAIN Plan : Plan[i] = t
      BY DEF ToSet
    <3>3. PICK j \in DOMAIN IndexesOf[t] : x = <<t, IndexesOf[t][j]>>
      BY <3>1 DEF ToSet
    <3>4. j \in 0 .. Len(IndexesOf[Plan[i]]) /\ j # 0
      BY <2>2, <3>2, <3>3
    <3>5. <<i, j>> \in Statements
      BY <3>4, StatementShape
    <3>6. IndexOf(<<i, j>>) = x
      BY <3>2, <3>3 DEF IndexOf, TableOf
    <3> QED
      BY <2>1, <2>4, <3>4, <3>5, <3>6 DEF Carried
  <2> QED
    BY <2>3, <2>4 DEF CurrentIsComplete, Excuses
<1> QED
  BY <1>1, Invariance, PTL

\* What a build reports as verified is there, and as rebuilt has the definition
\* asked for, whatever its workers met: any number of faults in a directory of its
\* own, one in a directory where an earlier build left its files (run_index_build).
THEOREM ReportsAreTrue ==
    ASSUME FewFaults
    PROVE  SchemaSpec => []VerifiedIsBuilt
<1>1. SchemaInv => VerifiedIsBuilt
  BY DEF SchemaInv
<1> QED
  BY <1>1, Invariance, PTL

\* Every variable that a process or a build reads has its type.
THEOREM DefinitionsTyped ==
    ASSUME FewFaults
    PROVE  SchemaSpec => []Types
<1>1. SchemaInv => Types
  BY DEF SchemaInv
<1> QED
  BY <1>1, Invariance, PTL
-----------------------------------------------------------------------------

\* A sample holds nothing else, and something if there is something.
LEMMA SampleOf ==
    ASSUME NEW x, NEW s \in Sample(x)
    PROVE  s \subseteq x /\ (s = {} => x = {})
<1>1. CASE Cardinality(x) <= Limit
  BY <1>1 DEF Sample
<1>2. CASE ~(Cardinality(x) <= Limit)
  <2>1. s \in SUBSET x /\ Cardinality(s) = Limit
    BY <1>2, Zenon DEF Sample, kSubset
  <2>2. Limit # 0
    BY CoverageAssumption
  <2> QED BY <2>1, <2>2, FS_EmptySet
<1> QED BY <1>1, <1>2

\* A batch changes rows of the chunks it touches only.
LEMMA UntouchedKept ==
    ASSUME WriteBatch, NEW c, c \notin touched', NEW t
    PROVE  /\ c \notin touched
           /\ \A r : r[2] = c => (r \in db <=> r \in db')
           /\ c \in Named(In(t, db)) <=> c \in Named(In(t, db'))
<1>1. c \notin touched /\ \A r \in Head(writer).rows : r[2] # c
  BY DEF WriteBatch, Named
<1>2. db' = db \cup Head(writer).rows \/ db' = db \ Head(writer).rows
  BY DEF WriteBatch
<1>3. \A r : r[2] = c => (r \in db <=> r \in db')
  BY <1>1, <1>2
<1>4. c \in Named(In(t, db)) <=> \E r \in db : r[1] = t /\ r[2] = c
  BY DEF Named, In
<1>5. c \in Named(In(t, db')) <=> \E r \in db' : r[1] = t /\ r[2] = c
  BY DEF Named, In
<1> QED BY <1>1, <1>3, <1>4, <1>5


Known == {embedding(c, m) : c \in Chunks, m \in Models}
Here == Named(In("chunks", db))
Proven == Named(In("provenance", db))
TablesThere == sharded => DOMAIN shards = ShardTables

\* The steps of an exact audit, and of any.
ExactSteps == {"idle", "unproven", "bare", "orphanProvenance", "orphanEmbeddings", "end"}
AuditSteps ==
    ExactSteps \cup {"chunks", "orphanProvenance" \o " looked up", "orphanEmbeddings" \o " looked up"}

Audits ==
    [pc : AuditSteps, mode : {"exact", "sample"}, seen : SUBSET Chunks,
     unproven : SUBSET Chunks, bare : SUBSET Chunks, orphans : SUBSET Chunks,
     status : {"none", "ok", "needs_attention"}]

\* Shape of the state.
Shaped ==
    /\ db \subseteq StoreRows
    /\ sharded \in BOOLEAN
    /\ writer \in Seq([op : {"add", "drop"}, rows : SUBSET StoreRows])
    /\ DOMAIN shards \subseteq ShardTables
    /\ \A t \in DOMAIN shards : shards[t] \subseteq Known
    /\ audit \in Audits
    /\ fill \in [pc : {"idle", "fetch", "write"}, asked : SUBSET Chunks, plan : SUBSET Chunks,
                 errors : SUBSET Chunks, status : {"none", "verified", "blocked"}]
    /\ copy \in [pc : {"idle", "remove", "define", "insert"}, todo : SUBSET ShardTables,
                 rows : SUBSET Known]

\* What an exact audit has found out about chunk c, so far.
Right(c) ==
    /\ c \in audit.unproven => c \in Here /\ c \notin Proven
    /\ c \in audit.bare => c \in Here /\ c \notin Embedded
    /\ c \in audit.orphans => c \notin Here /\ (c \in Proven \/ c \in Embedded)
    /\ audit.pc \in ExactSteps \ {"idle", "unproven"} /\ audit.unproven = {}
          => (c \in Here => c \in Proven)
    /\ audit.pc \in ExactSteps \ {"idle", "unproven", "bare"} /\ audit.bare = {} /\ TablesThere
          => (c \in Here => c \in Embedded)
    /\ audit.pc \in {"orphanEmbeddings", "end"} /\ audit.orphans = {} => (c \in Proven => c \in Here)
    /\ audit.pc = "end" /\ audit.orphans = {} => (c \in Embedded => c \in Here)
    /\ audit.status = "ok" /\ TablesThere => Whole(c)

AuditRight ==
    audit.mode = "exact" =>
        /\ audit.pc \in ExactSteps
        /\ audit.pc # "idle" => audit.status = "none"
        /\ \A c \in Chunks \ touched : Right(c)
        /\ audit.status = "needs_attention" /\ touched = {} => \E c \in Chunks : ~Whole(c)

\* One tool is at work, and the last audit is forgotten when another begins.
OneTool ==
    /\ fill.pc # "idle" => audit = NoAudit /\ copy.pc = "idle"
    /\ copy.pc # "idle" => audit = NoAudit /\ fill.pc = "idle"

\* The copy starts from empty tables, and what it has not inserted is still to be.
CopyRight ==
    /\ copy.pc = "define" =>
          \A t \in ShardTables \ copy.todo : t \in DOMAIN shards /\ shards[t] = {}
    /\ copy.pc = "insert" =>
          /\ DOMAIN shards = ShardTables
          /\ \A c \in Chunks \ touched, m \in Models, t \in ShardTables :
                embedding(c, m) \in shards[t] \/ (embedding(c, m) \in copy.rows /\ t = ShardOf[<<c, m>>])
                    <=> embedding(c, m) \in db /\ t = ShardOf[<<c, m>>]

CoverageInv == Shaped /\ AuditRight /\ OneTool /\ CopyRight

LEMMA NamedChunks ==
    ASSUME Shaped
    PROVE  /\ \A t : Named(In(t, db)) \subseteq Chunks
           /\ Embedded \subseteq Chunks
           /\ \A c \in Chunks : c \in Here <=> chunk(c) \in db
<1>1. \A r \in StoreRows : r[2] \in Chunks /\ (r[1] = "chunks" => r = chunk(r[2]))
  BY DEF StoreRows, chunk, embedding, provenance
<1>2. \A t : Named(In(t, db)) \subseteq Chunks
  BY <1>1 DEF Shaped, Named, In
<1>3. \A r \in Known : r[2] \in Chunks
  BY DEF Known, embedding
<1>4. Embedded \subseteq Chunks
  <2>1. Named(UNION Range(shards)) \subseteq Chunks
    BY <1>3 DEF Shaped, Named, Range
  <2> QED BY <1>2, <2>1 DEF Embedded
<1>5. ASSUME NEW c \in Chunks PROVE c \in Here <=> chunk(c) \in db
  <2>1. ASSUME chunk(c) \in db PROVE c \in Here
    BY <2>1 DEF Here, Named, In, chunk
  <2>2. ASSUME c \in Here PROVE chunk(c) \in db
    <3>1. PICK r \in db : r[1] = "chunks" /\ r[2] = c
      BY <2>2 DEF Here, Named, In
    <3> QED BY <1>1, <3>1 DEF Shaped
  <2> QED BY <2>1, <2>2
<1> QED BY <1>2, <1>4, <1>5

LEMMA CoverageBegins == CoverageInit => CoverageInv
<1> SUFFICES ASSUME CoverageInit PROVE CoverageInv
  OBVIOUS
<1>1. Shaped
  <2>1. db \subseteq StoreRows /\ sharded \in BOOLEAN
    BY CoverageAssumption DEF CoverageInit
  <2>2. DOMAIN shards = {}
    BY DEF CoverageInit
  <2>3. writer \in Seq([op : {"add", "drop"}, rows : SUBSET StoreRows])
    BY DEF CoverageInit
  <2> QED BY <2>1, <2>2, <2>3 DEF CoverageInit, Shaped, Audits, NoAudit, NoFill, NoCopy, AuditSteps, ExactSteps
<1>2. AuditRight
  BY DEF CoverageInit, AuditRight, NoAudit, ExactSteps, Right
<1>3. OneTool /\ CopyRight
  BY DEF CoverageInit, OneTool, CopyRight, NoFill, NoCopy
<1> QED BY <1>1, <1>2, <1>3 DEF CoverageInv

\* Nothing is found out by an audit that has just been forgotten or begun.
LEMMA Forgotten ==
    ASSUME audit' = NoAudit \/ \E mode \in {"exact", "sample"} : BeginAudit(mode)
    PROVE  AuditRight'
<1>1. CASE audit' = NoAudit
  BY <1>1 DEF AuditRight, NoAudit, ExactSteps, Right
<1>2. CASE \E mode \in {"exact", "sample"} : BeginAudit(mode)
  BY <1>2 DEF BeginAudit, AuditRight, NoAudit, ExactSteps, Right
<1> QED BY <1>1, <1>2

\* Manifests do not touch what was found out of other chunks, nor the copy.
LEMMA WriterKeeps ==
    ASSUME CoverageInv,
           \/ \E op \in {"add", "drop"}, c \in Chunks, ds \in (SUBSET Docs) \ {{}} : BeginManifest(op, c, ds)
           \/ WriteBatch \/ AbandonManifest
    PROVE  CoverageInv'
<1>1. UNCHANGED <<sharded, shards, audit, fill, copy>>
  BY DEF BeginManifest, WriteBatch, AbandonManifest
<1>2. touched \subseteq touched' /\ \A c \in Chunks \ touched' :
        /\ c \in Here <=> c \in Here'
        /\ c \in Proven <=> c \in Proven'
        /\ c \in Embedded <=> c \in Embedded'
        /\ chunk(c) \in db <=> chunk(c) \in db'
        /\ \A m \in Models : embedding(c, m) \in db <=> embedding(c, m) \in db'
  <2>1. CASE WriteBatch
    <3>1. touched \subseteq touched'
      BY <2>1 DEF WriteBatch
    <3>2. ASSUME NEW c \in Chunks \ touched' 
          PROVE  /\ \A t : c \in Named(In(t, db)) <=> c \in Named(In(t, db'))
                 /\ chunk(c) \in db <=> chunk(c) \in db'
                 /\ \A m \in Models : embedding(c, m) \in db <=> embedding(c, m) \in db'
      BY <2>1, <3>2, UntouchedKept DEF chunk, embedding
    <3>3. ASSUME NEW c \in Chunks \ touched' PROVE c \in Embedded <=> c \in Embedded'
      BY <1>1, <3>2, <3>3 DEF Embedded
    <3> QED BY <3>1, <3>2, <3>3 DEF Here, Proven
  <2>2. CASE ~WriteBatch
    <3>1. db' = db /\ touched' = touched
      BY <2>2 DEF BeginManifest, AbandonManifest
    <3> QED BY <1>1, <3>1 DEF Here, Proven, Embedded
  <2> QED BY <2>1, <2>2
<1>3. Shaped'
  <2>1. db' \subseteq StoreRows
    <3>1. CASE WriteBatch
      <4>1. writer # <<>> /\ writer \in Seq([op : {"add", "drop"}, rows : SUBSET StoreRows])
        BY <3>1 DEF WriteBatch, CoverageInv, Shaped
      <4>2. Head(writer) \in [op : {"add", "drop"}, rows : SUBSET StoreRows]
        BY <4>1, HeadTailProperties
      <4>3. Head(writer).rows \subseteq StoreRows
        BY <4>2
      <4> QED BY <3>1, <4>3 DEF WriteBatch, CoverageInv, Shaped
    <3> QED BY <3>1 DEF BeginManifest, AbandonManifest, CoverageInv, Shaped
  <2>2. writer' \in Seq([op : {"add", "drop"}, rows : SUBSET StoreRows])
    <3>1. CASE WriteBatch
      BY <3>1, HeadTailProperties DEF WriteBatch, CoverageInv, Shaped
    <3>2. CASE AbandonManifest
      BY <3>2 DEF AbandonManifest
    <3>3. ASSUME NEW op \in {"add", "drop"}, NEW c \in Chunks, NEW ds \in (SUBSET Docs) \ {{}},
                 BeginManifest(op, c, ds)
          PROVE  writer' \in Seq([op : {"add", "drop"}, rows : SUBSET StoreRows])
      <4>1. /\ {chunk(c)} \in SUBSET StoreRows
            /\ (IF c \in Blank THEN {} ELSE {embedding(c, Live)}) \in SUBSET StoreRows
            /\ {provenance(c, d) : d \in ds} \in SUBSET StoreRows
        BY CoverageAssumption DEF StoreRows
      <4> QED BY <3>3, <4>1 DEF BeginManifest, Batches
    <3> QED BY <3>1, <3>2, <3>3
  <2> QED BY <1>1, <2>1, <2>2 DEF CoverageInv, Shaped
<1>4. AuditRight'
  <2> SUFFICES ASSUME audit'.mode = "exact"
               PROVE  /\ \A c \in Chunks \ touched' : Right(c)'
                      /\ audit'.status = "needs_attention" /\ touched' = {}
                            => \E c \in Chunks : ~Whole(c)'
    BY <1>1 DEF CoverageInv, AuditRight
  <2>1. \A c \in Chunks \ touched' : Right(c) /\ (Whole(c) <=> Whole(c)')
    BY <1>1, <1>2 DEF CoverageInv, AuditRight, Whole, Here, Proven
  <2>2. \A c \in Chunks \ touched' : Right(c)'
    BY <1>1, <1>2, <2>1 DEF Right, TablesThere
  <2>3. audit'.status = "needs_attention" /\ touched' = {} => \E c \in Chunks : ~Whole(c)'
    BY <1>1, <1>2, <2>1 DEF CoverageInv, AuditRight
  <2> QED BY <2>2, <2>3
<1>5. OneTool'
  BY <1>1 DEF CoverageInv, OneTool
<1>6. CopyRight'
  BY <1>1, <1>2 DEF CoverageInv, CopyRight
<1> QED BY <1>3, <1>4, <1>5, <1>6 DEF CoverageInv

\* An exact audit finds out, query by query, what there is to find out.
LEMMA AuditFinds ==
    ASSUME CoverageInv, AuditStep
    PROVE  CoverageInv'
<1>1. UNCHANGED <<sharded, touched, db, shards, writer, fill, copy>>
  BY DEF AuditStep
<1>2. /\ Here' = Here /\ Proven' = Proven /\ Embedded' = Embedded /\ TablesThere' = TablesThere
      /\ Here \subseteq Chunks /\ Proven \subseteq Chunks /\ Embedded \subseteq Chunks
      /\ \A c \in Chunks : /\ c \in Here <=> chunk(c) \in db
                           /\ Whole(c)' <=> Whole(c)
  BY <1>1, NamedChunks DEF CoverageInv, Here, Proven, Embedded, TablesThere, Whole
<1>3. fill.pc = "idle" /\ copy.pc = "idle"
  <2>1. audit # NoAudit
    <3>1. \/ audit.mode = "sample"
          \/ audit.pc \in {"unproven", "chunks", "bare", "orphanProvenance", "orphanEmbeddings", "end"}
      BY Zenon DEF AuditStep, Unproven, SampleChunks, UnprovenInSample, Bare, Orphans, LookUp, EndAudit
    <3> QED BY <3>1 DEF NoAudit
  <2> QED BY <2>1 DEF CoverageInv, OneTool
<1>4. audit'.mode = audit.mode /\ audit' \in Audits
  <2>0. audit \in Audits
    BY DEF CoverageInv, Shaped
  <2>1. CASE Unproven
    <3>1. PICK s \in Sample(Here \ Proven) : audit' = [audit EXCEPT !.pc = "bare", !.unproven = s]
      BY <2>1, Zenon DEF Unproven, Here, Proven
    <3>2. s \in SUBSET Chunks
      BY <1>2, SampleOf
    <3> QED BY <2>0, <3>1, <3>2 DEF Audits, AuditSteps, ExactSteps
  <2>2. CASE SampleChunks
    <3>1. PICK s \in Sample(Here) : audit' = [audit EXCEPT !.pc = "unproven", !.seen = s]
      BY <2>2, Zenon DEF SampleChunks, Here
    <3>2. s \in SUBSET Chunks
      BY <1>2, SampleOf
    <3> QED BY <2>0, <3>1, <3>2 DEF Audits, AuditSteps, ExactSteps
  <2>3. CASE UnprovenInSample
    <3>1. \E s : audit' = [audit EXCEPT !.pc = "orphanProvenance", !.unproven = audit.seen \ Named(s)]
      BY <2>3, Zenon DEF UnprovenInSample
    <3> QED BY <2>0, <3>1 DEF Audits, AuditSteps, ExactSteps
  <2>4. CASE Bare
    <3>1. PICK s \in IF sharded /\ DOMAIN shards # ShardTables THEN {{}} ELSE Sample(Here \ Embedded) :
             audit' = [audit EXCEPT !.pc = "orphanProvenance", !.bare = s]
      BY <2>4, Zenon DEF Bare, Here
    <3>2. s \in SUBSET Chunks
      BY <1>2, SampleOf
    <3> QED BY <2>0, <3>1, <3>2 DEF Audits, AuditSteps, ExactSteps
  <2>5. CASE EndAudit
    BY <2>0, <2>5 DEF EndAudit, Audits, AuditSteps, ExactSteps
  <2>6. ASSUME NEW pc \in {"orphanProvenance", "orphanEmbeddings"}, NEW next \in ExactSteps,
               LookUp(pc, next)
        PROVE  audit'.mode = audit.mode /\ audit' \in Audits
    BY <2>0, <2>6 DEF LookUp, Audits, AuditSteps
  <2>7. ASSUME NEW pc \in {"orphanProvenance", "orphanEmbeddings"}, NEW next \in ExactSteps,
               NEW ids \in SUBSET Chunks, Orphans(pc, next, ids)
        PROVE  audit'.mode = audit.mode /\ audit' \in Audits
    <3>1. CASE audit.mode = "exact"
      BY <2>0, <2>7, <3>1 DEF Orphans, Audits, AuditSteps
    <3>2. CASE audit.mode # "exact"
      <4>1. PICK s \in Sample(ids) : audit' = [audit EXCEPT !.pc = pc \o " looked up", !.seen = s]
        BY <2>7, <3>2, Zenon DEF Orphans
      <4>2. s \in SUBSET Chunks /\ pc \o " looked up" \in AuditSteps
        BY SampleOf DEF AuditSteps
      <4> QED BY <2>0, <4>1, <4>2 DEF Audits
    <3> QED BY <3>1, <3>2
  <2>8. "orphanEmbeddings" \in ExactSteps /\ "end" \in ExactSteps
    BY DEF ExactSteps
  <2>9. CASE \/ LookUp("orphanProvenance", "orphanEmbeddings") \/ LookUp("orphanEmbeddings", "end")
    BY <2>6, <2>8, <2>9
  <2>10. CASE \/ Orphans("orphanProvenance", "orphanEmbeddings", Proven)
              \/ Orphans("orphanEmbeddings", "end", Embedded)
    BY <1>2, <2>7, <2>8, <2>10
  <2> QED BY <2>1, <2>2, <2>3, <2>4, <2>5, <2>9, <2>10, Zenon DEF AuditStep, Proven
<1>5. ASSUME audit.mode = "exact"
      PROVE  /\ audit'.pc \in ExactSteps
             /\ audit'.pc # "idle" => audit'.status = "none"
             /\ \A c \in Chunks \ touched : Right(c)'
             /\ audit'.status = "needs_attention" /\ touched = {} => \E c \in Chunks : ~Whole(c)
  <2>0. /\ audit.pc \in ExactSteps /\ (audit.pc # "idle" => audit.status = "none")
        /\ \A c \in Chunks \ touched : Right(c)
        /\ audit.unproven \subseteq Chunks /\ audit.bare \subseteq Chunks /\ audit.orphans \subseteq Chunks
    BY <1>5 DEF CoverageInv, AuditRight, Shaped, Audits
  <2>1. CASE Unproven
    <3>1. PICK s \in Sample(Here \ Proven) : audit' = [audit EXCEPT !.pc = "bare", !.unproven = s]
      BY <2>1, Zenon DEF Unproven, Here, Proven
    <3>2. s \subseteq Here \ Proven /\ (s = {} => Here \ Proven = {})
      BY SampleOf
    <3>3. audit.pc = "unproven" /\ audit.status = "none"
      BY <2>0, <2>1 DEF Unproven
    <3>4. /\ audit'.pc = "bare" /\ audit'.unproven = s /\ audit'.status = "none"
          /\ audit'.bare = audit.bare /\ audit'.orphans = audit.orphans
      BY <3>1, <3>3 DEF CoverageInv, Shaped, Audits
    <3>5. \A c \in Chunks \ touched : Right(c)'
      BY <1>2, <2>0, <3>2, <3>3, <3>4 DEF Right, ExactSteps
    <3> QED BY <3>4, <3>5 DEF ExactSteps
  <2>2. CASE Bare
    <3>1. PICK s \in IF sharded /\ DOMAIN shards # ShardTables THEN {{}} ELSE Sample(Here \ Embedded) :
             audit' = [audit EXCEPT !.pc = "orphanProvenance", !.bare = s]
      BY <2>2, Zenon DEF Bare, Here
    <3>2. s \subseteq Here \ Embedded /\ (s = {} /\ TablesThere => Here \ Embedded = {})
      BY SampleOf DEF TablesThere
    <3>3. audit.pc = "bare" /\ audit.status = "none"
      BY <2>0, <2>2 DEF Bare
    <3>4. /\ audit'.pc = "orphanProvenance" /\ audit'.bare = s /\ audit'.status = "none"
          /\ audit'.unproven = audit.unproven /\ audit'.orphans = audit.orphans
      BY <3>1, <3>3 DEF CoverageInv, Shaped, Audits
    <3>5. \A c \in Chunks \ touched : Right(c)'
      BY <1>2, <2>0, <3>2, <3>3, <3>4 DEF Right, ExactSteps
    <3> QED BY <3>4, <3>5 DEF ExactSteps
  <2>3. CASE Orphans("orphanProvenance", "orphanEmbeddings", Proven)
    <3>1. audit' = [audit EXCEPT !.pc = "orphanEmbeddings", !.orphans = audit.orphans \cup (Proven \ Here)]
      BY <1>5, <2>3, Zenon DEF Orphans, Here
    <3>2. audit.pc = "orphanProvenance" /\ audit.status = "none"
      BY <2>0, <2>3 DEF Orphans
    <3>3. /\ audit'.pc = "orphanEmbeddings" /\ audit'.orphans = audit.orphans \cup (Proven \ Here)
          /\ audit'.status = "none" /\ audit'.bare = audit.bare /\ audit'.unproven = audit.unproven
      BY <3>1, <3>2 DEF CoverageInv, Shaped, Audits
    <3>4. \A c \in Chunks \ touched : Right(c)'
      BY <1>2, <2>0, <3>2, <3>3 DEF Right, ExactSteps
    <3> QED BY <3>3, <3>4 DEF ExactSteps
  <2>4. CASE Orphans("orphanEmbeddings", "end", Embedded)
    <3>1. audit' = [audit EXCEPT !.pc = "end", !.orphans = audit.orphans \cup (Embedded \ Here)]
      BY <1>5, <2>4, Zenon DEF Orphans, Here
    <3>2. audit.pc = "orphanEmbeddings" /\ audit.status = "none"
      BY <2>0, <2>4 DEF Orphans
    <3>3. /\ audit'.pc = "end" /\ audit'.orphans = audit.orphans \cup (Embedded \ Here)
          /\ audit'.status = "none" /\ audit'.bare = audit.bare /\ audit'.unproven = audit.unproven
      BY <3>1, <3>2 DEF CoverageInv, Shaped, Audits
    <3>4. \A c \in Chunks \ touched : Right(c)'
      BY <1>2, <2>0, <3>2, <3>3 DEF Right, ExactSteps
    <3> QED BY <3>3, <3>4 DEF ExactSteps
  <2>5. CASE EndAudit
    <3>1. /\ audit.pc = "end" /\ audit'.pc = "idle" /\ audit'.unproven = {} /\ audit'.orphans = {}
          /\ audit'.bare = audit.bare
          /\ audit'.status = IF audit.unproven \cup audit.bare \cup audit.orphans = {}
                               THEN "ok" ELSE "needs_attention"
      BY <2>5 DEF EndAudit, CoverageInv, Shaped, Audits
    <3>2. ASSUME NEW c \in Chunks \ touched PROVE Right(c)'
      <4>1. Right(c)
        BY <2>0
      <4>2. audit'.status = "ok" /\ TablesThere => Whole(c)
        BY <1>2, <3>1, <4>1 DEF Right, ExactSteps, Whole, Proven
      <4> QED BY <1>2, <3>1, <4>1, <4>2 DEF Right, ExactSteps
    <3>3. ASSUME audit'.status = "needs_attention", touched = {}
          PROVE  \E c \in Chunks : ~Whole(c)
      <4>1. PICK c \in Chunks : c \in audit.unproven \/ c \in audit.bare \/ c \in audit.orphans
        BY <2>0, <3>1, <3>3
      <4>2. Right(c)
        BY <2>0, <3>3
      <4> QED BY <1>2, <4>1, <4>2 DEF Right, Whole, Proven
    <3> QED BY <3>1, <3>2, <3>3 DEF ExactSteps
  <2>6. \/ Unproven \/ Bare \/ EndAudit
        \/ Orphans("orphanProvenance", "orphanEmbeddings", Proven)
        \/ Orphans("orphanEmbeddings", "end", Embedded)
    <3>1. audit.pc # "chunks" /\ audit.mode # "sample"
      BY <1>5, <2>0 DEF ExactSteps
    <3> QED BY <3>1, Zenon DEF AuditStep, SampleChunks, UnprovenInSample, LookUp, Proven
  <2> QED BY <2>1, <2>2, <2>3, <2>4, <2>5, <2>6
<1>6. AuditRight'
  BY <1>1, <1>2, <1>4, <1>5 DEF AuditRight
<1>7. Shaped'
  BY <1>1, <1>4 DEF CoverageInv, Shaped
<1>8. OneTool' /\ CopyRight'
  BY <1>1, <1>3 DEF OneTool, CopyRight
<1> QED BY <1>6, <1>7, <1>8 DEF CoverageInv

\* Who begins finds no other tool at work.
LEMMA ToolBegins ==
    ASSUME CoverageInv,
           \/ \E mode \in {"exact", "sample"} : BeginAudit(mode)
           \/ BeginFill
           \/ \E recreate \in BOOLEAN : BeginCopy(recreate)
    PROVE  CoverageInv'
<1>1. UNCHANGED <<sharded, db, shards, writer>> /\ Free
  BY DEF BeginAudit, BeginFill, BeginCopy
<1>2. CASE \E mode \in {"exact", "sample"} : BeginAudit(mode)
  <2>1. fill' = NoFill /\ copy' = NoCopy
    BY <1>2 DEF BeginAudit
  <2>2. audit' \in Audits
    BY <1>2 DEF BeginAudit, NoAudit, Audits, AuditSteps, ExactSteps
  <2>3. Shaped'
    BY <1>1, <2>1, <2>2 DEF CoverageInv, Shaped, NoFill, NoCopy
  <2>4. OneTool' /\ CopyRight'
    BY <2>1 DEF OneTool, CopyRight, NoFill, NoCopy
  <2> QED BY <1>2, <2>3, <2>4, Forgotten DEF CoverageInv
<1>3. CASE BeginFill
  <2>1. audit' = NoAudit /\ copy' = NoCopy /\ fill' = [NoFill EXCEPT !.pc = "fetch", !.asked = audit.bare]
    BY <1>3 DEF BeginFill
  <2>2. audit.bare \subseteq Chunks
    BY DEF CoverageInv, Shaped, Audits
  <2>3. Shaped'
    BY <1>1, <2>1, <2>2 DEF CoverageInv, Shaped, NoAudit, NoFill, NoCopy, Audits, AuditSteps, ExactSteps
  <2>4. OneTool' /\ CopyRight'
    BY <2>1 DEF OneTool, CopyRight, NoFill, NoCopy
  <2> QED BY <2>1, <2>3, <2>4, Forgotten DEF CoverageInv
<1>4. CASE \E recreate \in BOOLEAN : BeginCopy(recreate)
  <2>1. /\ audit' = NoAudit /\ fill' = NoFill
        /\ \E pc \in {"remove", "define"} : copy' = [NoCopy EXCEPT !.pc = pc, !.todo = ShardTables]
    BY <1>4 DEF BeginCopy
  <2>2. Shaped'
    BY <1>1, <2>1 DEF CoverageInv, Shaped, NoAudit, NoFill, NoCopy, Audits, AuditSteps, ExactSteps
  <2>3. OneTool' /\ CopyRight'
    BY <2>1 DEF OneTool, CopyRight, NoFill, NoCopy
  <2> QED BY <2>1, <2>2, <2>3, Forgotten DEF CoverageInv
<1> QED BY <1>2, <1>3, <1>4

\* The backfill works when neither an audit nor a copy speaks of the rows.
LEMMA FillKeeps ==
    ASSUME CoverageInv, FillStep \/ FailFill
    PROVE  CoverageInv'
<1>1. fill.pc # "idle" /\ UNCHANGED <<sharded, shards, writer, audit, copy>>
  BY DEF FillStep, FailFill, Encode, EndFill, Fetch, Upsert
<1>2. audit' = NoAudit /\ copy'.pc = "idle"
  BY <1>1 DEF CoverageInv, OneTool
<1>3. db' \subseteq StoreRows
  <2>1. ASSUME NEW c \in Chunks, Upsert(c) PROVE db' \subseteq StoreRows
    BY <2>1, CoverageAssumption DEF Upsert, StoreRows, CoverageInv, Shaped
  <2>2. CASE ~\E c \in Chunks : Upsert(c)
    BY <2>2 DEF FillStep, FailFill, Encode, EndFill, Fetch, CoverageInv, Shaped
  <2> QED BY <2>1, <2>2
<1>4. fill' \in [pc : {"idle", "fetch", "write"}, asked : SUBSET Chunks, plan : SUBSET Chunks,
                 errors : SUBSET Chunks, status : {"none", "verified", "blocked"}]
  <2> DEFINE F == [pc : {"idle", "fetch", "write"}, asked : SUBSET Chunks, plan : SUBSET Chunks,
                   errors : SUBSET Chunks, status : {"none", "verified", "blocked"}]
  <2>0. fill \in F
    BY DEF CoverageInv, Shaped
  <2>1. ASSUME NEW c \in Chunks, Fetch(c) PROVE fill' \in F
    <3> DEFINE lost == chunk(c) \notin db \/ c \in Blank
    <3>1. fill' = [fill EXCEPT !.asked = @ \ {c},
                               !.errors = IF lost THEN @ \cup {c} ELSE @,
                               !.plan = IF lost \/ embedding(c, Live) \in db THEN @ ELSE @ \cup {c}]
      BY <2>1 DEF Fetch
    <3> HIDE DEF lost
    <3> QED BY <2>0, <3>1
  <2>2. ASSUME NEW c \in Chunks, Upsert(c) PROVE fill' \in F
    BY <2>0, <2>2 DEF Upsert
  <2>3. ASSUME Encode \/ EndFill \/ FailFill PROVE fill' \in F
    <3>1. CASE Encode
      BY <2>0, <3>1 DEF Encode, ToWrite
    <3>2. CASE EndFill
      <4>1. PICK st \in {"verified", "blocked"} : fill' = [NoFill EXCEPT !.status = st]
        BY <3>2 DEF EndFill
      <4> QED BY <4>1 DEF NoFill
    <3>3. CASE FailFill
      BY <3>3 DEF FailFill, NoFill
    <3> QED BY <2>3, <3>1, <3>2, <3>3
  <2> HIDE DEF F
  <2>4. fill' \in F
    BY <2>1, <2>2, <2>3, Zenon DEF FillStep
  <2> QED BY <2>4 DEF F
<1>5. Shaped'
  BY <1>1, <1>3, <1>4 DEF CoverageInv, Shaped
<1>6. OneTool' /\ CopyRight'
  BY <1>2 DEF OneTool, CopyRight
<1> QED BY <1>2, <1>5, <1>6, Forgotten DEF CoverageInv

\* The copy moves rows into the empty tables.
LEMMA CopyKeeps ==
    ASSUME CoverageInv, CopyStep \/ FailCopy
    PROVE  CoverageInv'
<1>1. copy.pc # "idle" /\ UNCHANGED <<sharded, db, writer, audit, fill>>
  BY DEF CopyStep, FailCopy, Scan, Insert, EndCopy, RemoveTable, DefineTable
<1>2. audit' = NoAudit /\ fill'.pc = "idle"
  BY <1>1 DEF CoverageInv, OneTool
<1>3. touched' = touched
  BY DEF CopyStep, FailCopy, Scan, Insert, EndCopy, RemoveTable, DefineTable
<1>0. /\ copy \in [pc : {"idle", "remove", "define", "insert"}, todo : SUBSET ShardTables,
                   rows : SUBSET Known]
      /\ DOMAIN shards \subseteq ShardTables /\ \A t \in DOMAIN shards : shards[t] \subseteq Known
  BY DEF CoverageInv, Shaped
<1> DEFINE Tables == /\ DOMAIN shards' \subseteq ShardTables
                     /\ \A t \in DOMAIN shards' : shards'[t] \subseteq Known
                     /\ copy' \in [pc : {"idle", "remove", "define", "insert"}, todo : SUBSET ShardTables,
                                   rows : SUBSET Known]
<1>4. ASSUME NEW t \in ShardTables, RemoveTable(t) PROVE Tables /\ CopyRight'
  BY <1>0, <1>4 DEF RemoveTable, CopyRight
<1>5. ASSUME NEW t \in ShardTables, DefineTable(t) PROVE Tables /\ CopyRight'
  BY <1>0, <1>5 DEF DefineTable, CoverageInv, CopyRight, NoCopy
<1>6. ASSUME Scan PROVE Tables /\ CopyRight'
  <2>1. In("embeddings", db) \subseteq Known
    BY DEF CoverageInv, Shaped, StoreRows, In, Known, chunk, provenance, embedding
  <2>2. Tables
    BY <1>0, <1>6, <2>1 DEF Scan
  <2>3. \A t \in ShardTables : t \in DOMAIN shards /\ shards[t] = {}
    BY <1>6 DEF Scan, CoverageInv, CopyRight
  <2>4. \A c \in Chunks, m \in Models : embedding(c, m) \in copy'.rows <=> embedding(c, m) \in db
    BY <1>0, <1>6 DEF Scan, In, embedding
  <2>5. copy'.pc = "insert" /\ shards' = shards
    BY <1>0, <1>6 DEF Scan
  <2>6. CopyRight'
    BY <1>0, <1>1, <2>3, <2>4, <2>5 DEF CopyRight
  <2> QED BY <2>2, <2>6
<1>7. ASSUME Insert PROVE Tables /\ CopyRight'
  <2>1. PICK r \in copy.rows :
          /\ shards' = [shards EXCEPT ![ShardOf[<<r[2], r[3]>>]] = @ \cup {r}]
          /\ copy' = [copy EXCEPT !.rows = @ \ {r}]
    BY <1>7, Zenon DEF Insert
  <2>2. PICK d \in Chunks, n \in Models : r = embedding(d, n)
    BY <1>0, <2>1 DEF Known
  <2>3. /\ shards' = [shards EXCEPT ![ShardOf[<<d, n>>]] = @ \cup {r}]
        /\ ShardOf[<<d, n>>] \in ShardTables
    BY <2>1, <2>2, CoverageAssumption DEF embedding, ShardTables, Range
  <2>4. copy.pc = "insert" /\ copy'.pc = "insert" /\ DOMAIN shards = ShardTables
    BY <1>0, <1>7, <2>1 DEF Insert, CoverageInv, CopyRight
  <2>5. Tables
    BY <1>0, <2>1, <2>3, <2>4
  <2>6. ASSUME NEW c \in Chunks \ touched, NEW m \in Models, NEW t \in ShardTables
        PROVE  embedding(c, m) \in shards'[t] \/ (embedding(c, m) \in copy'.rows /\ t = ShardOf[<<c, m>>])
                    <=> embedding(c, m) \in db /\ t = ShardOf[<<c, m>>]
    <3>1. embedding(c, m) \in shards[t] \/ (embedding(c, m) \in copy.rows /\ t = ShardOf[<<c, m>>])
                    <=> embedding(c, m) \in db /\ t = ShardOf[<<c, m>>]
      BY <2>4 DEF CoverageInv, CopyRight
    <3>2. CASE embedding(c, m) = r
      <4>1. c = d /\ m = n
        BY <2>2, <3>2 DEF embedding
      <4> QED BY <1>0, <2>1, <2>3, <2>4, <3>1, <3>2, <4>1
    <3>3. CASE embedding(c, m) # r
      BY <1>0, <2>1, <2>3, <2>4, <3>1, <3>3
    <3> QED BY <3>2, <3>3
  <2>7. CopyRight'
    BY <1>1, <1>3, <2>3, <2>4, <2>6 DEF CopyRight
  <2> QED BY <2>5, <2>7
<1>8. ASSUME EndCopy \/ FailCopy PROVE Tables /\ CopyRight'
  BY <1>0, <1>8 DEF EndCopy, FailCopy, NoCopy, CopyRight
<1> HIDE DEF Tables
<1>9. Tables /\ CopyRight'
  BY <1>4, <1>5, <1>6, <1>7, <1>8, Zenon DEF CopyStep
<1>10. Shaped'
  BY <1>1, <1>9 DEF Tables, CoverageInv, Shaped
<1>11. OneTool'
  BY <1>2 DEF OneTool
<1> QED BY <1>2, <1>9, <1>10, <1>11, Forgotten DEF CoverageInv

\* The invariant of audit, backfill and copy beside the writers.
LEMMA CoverageHolds == CoverageSpec => []CoverageInv
<1>1. CoverageInv /\ [CoverageNext]_rowVars => CoverageInv'
  <2> SUFFICES ASSUME CoverageInv, [CoverageNext]_rowVars PROVE CoverageInv'
    OBVIOUS
  <2>1. CASE UNCHANGED rowVars
    BY <2>1 DEF rowVars, CoverageInv, Shaped, AuditRight, OneTool, CopyRight, Right, Whole, TablesThere,
                Here, Proven, Embedded
  <2>2. CASE CoverageNext
    BY <2>2, WriterKeeps, AuditFinds, ToolBegins, FillKeeps, CopyKeeps, Zenon DEF CoverageNext
  <2> QED BY <2>1, <2>2
<1> QED BY <1>1, CoverageBegins, PTL DEF CoverageSpec

\* An exact audit is right about every chunk the manifests have left alone while it
\* ran, and a chunk it lists for the backfill has no embedding
\* (devtools/surreal_completeness_audit.py:752).
THEOREM AuditsAreTrue == CoverageSpec => []AuditIsTrue
<1>1. CoverageInv => AuditIsTrue
  <2> SUFFICES ASSUME CoverageInv, audit.mode = "exact" PROVE AuditIsTrue
    BY DEF AuditIsTrue
  <2>1. \A c \in Chunks \ touched : Right(c)
    BY DEF CoverageInv, AuditRight
  <2>2. audit.bare \subseteq Chunks /\ \A c \in Chunks : c \in Here <=> chunk(c) \in db
    BY NamedChunks DEF CoverageInv, Shaped, Audits
  <2> QED BY <2>1, <2>2 DEF CoverageInv, AuditRight, AuditIsTrue, Right, TablesThere
<1> QED BY <1>1, CoverageHolds, PTL

\* What the copy has put into the shard tables when it ends is what the embeddings
\* table holds of every chunk left alone, in the table its search asks, and nothing
\* else of it (devtools/surreal_embedding_shard_runner.py:41).
THEOREM CopiesAreWhole == CoverageSpec => []CopyIsWhole
<1>1. CoverageInv => CopyIsWhole
  BY DEF CoverageInv, CopyRight, CopyIsWhole
<1> QED BY <1>1, CoverageHolds, PTL

\* Rows, tables and what the tools hold keep their shape.
THEOREM CoverageTyped == CoverageSpec => []CoverageTypeOK
<1>1. CoverageInv => CoverageTypeOK
  BY DEF CoverageInv, Shaped, Audits, CoverageTypeOK
<1> QED BY <1>1, CoverageHolds, PTL
=============================================================================
