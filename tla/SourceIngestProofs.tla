------------------------- MODULE SourceIngestProofs -------------------------
(***************************************************************************)
(* Proofs about SourceIngest, for every set of units, notes and threads    *)
(* and every number of changes, failures and crashes.                      *)
(***************************************************************************)
EXTENDS SourceIngest, FiniteSetTheorems, WellFoundedInduction, TLAPS

\* A set of naturals that is not empty has a first element.
LEMMA FirstExists ==
    ASSUME NEW S \in SUBSET Nat, S # {}
    PROVE  \E p \in S : \A q \in S : p <= q
<1>1. PICK p \in S : \A q \in S : <<q, p>> \notin OpToRel(<, Nat)
  BY NatLessThanWellFounded, WFMin, Zenon
<1>2. \A q \in S : ~(q < p)
  BY <1>1 DEF OpToRel
<1>3. \A q \in S : q \in Nat
  OBVIOUS
<1> QED
  BY <1>2, <1>3

\* A bounded one has a last element.
LEMMA LastExists ==
    ASSUME NEW n \in Nat, NEW S \in SUBSET (1 .. n), S # {}
    PROVE  \E p \in S : \A q \in S : q <= p
<1> DEFINE D == {n - p : p \in S}
<1>1. \A p \in S : p \in 1 .. n /\ n - p \in Nat
  OBVIOUS
<1>2. D \in SUBSET Nat
  BY <1>1
<1>3. D # {}
  OBVIOUS
<1>4. PICK d \in D : \A e \in D : d <= e
  BY <1>2, <1>3, FirstExists
<1>5. PICK p \in S : d = n - p
  OBVIOUS
<1>6. \A q \in S : n - p <= n - q
  BY <1>4, <1>5
<1> QED
  BY <1>1, <1>6
-----------------------------------------------------------------------------
\* The changes that can be found, and those the resume state kept from the store.
Given == index \cup missed

\* Of the changes l, those up to c that still count are in ix.
CoveredIn(c, l, ix) ==
    /\ c <= Len(l)
    /\ \A p \in 1 .. Len(l) :
          /\ p <= c
          /\ \A q \in p + 1 .. Len(l) : l[q] # l[p]
          /\ l[p] \notin Hidden
          => p \in ix

\* Fingerprints on record are those of changes in ix.
FoundIn(f, ix) == \A u \in Units \ Hidden : f[u] # 0 => f[u] \in ix

\* Database contents that claim nothing SurrealDB lacks but for the resume state.
Known(d) == CoveredIn(d.cursor, log, Given) /\ FoundIn(d.fp, Given)

\* The batch is what follows the checkpoint it was exported from, without gaps,
\* and what is not hidden is found, withheld or fresh.
BatchWhole ==
    /\ CoveredIn(since, log, Given)
    /\ \A p \in batch : p > since /\ (log[p] \notin Hidden => p \in Given \cup fresh)
    /\ \A p \in DOMAIN log : \A r \in batch :
          /\ since < p /\ p <= r
          /\ \A q \in p + 1 .. Len(log) : log[q] # log[p]
          => p \in batch

\* SurrealDB is written before the local transaction begins.
FreshIndexed ==
    (\E s \in {"ensure", "begin", "units", "checkpoint"} : At("poller", s))
        => fresh \subseteq Given

\* Until the poller writes its checkpoint, the one on record is at most the one
\* it exported from.
CursorOrder ==
    /\ durable.cursor <= db.cursor
    /\ (\E s \in {"manifest", "ensure", "begin", "units", "checkpoint"} : At("poller", s))
        => db.cursor <= since

IInv == TypeOK /\ Known(db) /\ Known(durable) /\ BatchWhole /\ FreshIndexed /\ CursorOrder
-----------------------------------------------------------------------------
\* The calls on the connection keep the contents well-formed.
LEMMA CallTypes ==
    ASSUME TypeOK
    PROVE  LET Typed == db' \in Database /\ durable' \in Database /\ tx' \in BOOLEAN
           IN /\ Begin => Typed
              /\ Commit => Typed
              /\ Rollback => Typed
              /\ CommitAny => Typed
              /\ Reopened => Typed
              /\ UNCHANGED connection => Typed
              /\ \A d \in Database : Execute(d) => Typed
BY DEF TypeOK, Begin, Commit, Rollback, CommitAny, Reopened, Execute, connection

\* The log is a bounded sequence: its places are numbers up to MaxChanges.
LEMMA Places ==
    ASSUME TypeOK
    PROVE  /\ Len(log) \in Nat
           /\ DOMAIN log = 1 .. Len(log)
           /\ DOMAIN log \subseteq Changes
           /\ \A p \in DOMAIN log : log[p] \in Units /\ p \in Nat
           /\ MaxChanges \in Nat /\ Limit \in Nat
BY SourceIngestAssumption DEF TypeOK, Changes

\* The first and the last change of a set of changes belong to it.
LEMMA FirstIn ==
    ASSUME TypeOK, NEW b \in SUBSET DOMAIN log, b # {}
    PROVE  First(b) \in b
<1>1. b \in SUBSET Nat
  BY Places
<1>2. \E p \in b : \A q \in b : p <= q
  BY <1>1, FirstExists
<1> QED
  BY <1>2 DEF First

\* And the last one.
LEMMA LastIn ==
    ASSUME TypeOK, NEW b \in SUBSET DOMAIN log, b # {}
    PROVE  Last(b) \in b /\ \A q \in b : q <= Last(b)
<1>1. Len(log) \in Nat /\ b \in SUBSET (1 .. Len(log))
  BY Places
<1>2. \E p \in b : \A q \in b : q <= p
  BY <1>1, LastExists
<1> QED
  BY <1>2 DEF Last

\* The contents the poller's statements write.
LEMMA PollerWrites ==
    ASSUME TypeOK
    PROVE  /\ WriteUnit => db' \in Database /\ durable' \in Database /\ tx' \in BOOLEAN
           /\ WriteChunks => db' \in Database /\ durable' \in Database /\ tx' \in BOOLEAN
           /\ WriteCheckpoint => db' \in Database /\ durable' \in Database /\ tx' \in BOOLEAN
<1>0. db \in Database /\ batch \subseteq DOMAIN log /\ fresh \subseteq batch /\ todo \subseteq batch
  BY DEF TypeOK
<1>1. CASE WriteUnit
  <2> DEFINE p == First(todo)
             d == IF db.fp[log[p]] = p THEN db
                  ELSE [db EXCEPT !.fp[log[p]] = p, !.rows = {q \in db.rows : log[q] # log[p]}]
  <2>1. Execute(d)
    BY <1>1 DEF WriteUnit, RecordUnit
  <2>2. p \in Changes /\ log[p] \in Units
    BY <1>0, <1>1, FirstIn, Places DEF WriteUnit, RecordUnit
  <2>3. p \in 0 .. MaxChanges
    BY <2>2, Places DEF Changes
  <2> HIDE DEF p
  <2>4. d \in Database
    BY <1>0, <2>2, <2>3 DEF Database
  <2> QED
    BY <2>1, <2>4, CallTypes
<1>2. CASE WriteChunks
  <2>1. [db EXCEPT !.rows = @ \cup fresh] \in Database
    BY <1>0, Places DEF Database
  <2> QED
    BY <1>2, <2>1, CallTypes DEF WriteChunks
<1>3. CASE WriteCheckpoint
  <2> DEFINE c == IF batch = {} THEN since ELSE Last(batch)
  <2>1. c \in 0 .. MaxChanges
    BY <1>0, LastIn, Places DEF TypeOK, Changes
  <2>2. [db EXCEPT !.cursor = c] \in Database
    BY <1>0, <2>1 DEF Database
  <2> QED
    BY <1>3, <2>2, CallTypes DEF WriteCheckpoint, CheckpointAt
<1> QED
  BY <1>1, <1>2, <1>3
\* Each step keeps the connection, the log, the poller's locals and the rest
\* well-formed.
LEMMA ConnectionType ==
    ASSUME TypeOK, [Next]_vars
    PROVE  db' \in Database /\ durable' \in Database /\ tx' \in BOOLEAN
<1> DEFINE Typed == db' \in Database /\ durable' \in Database /\ tx' \in BOOLEAN
<1>1. CASE UNCHANGED connection
  BY <1>1, CallTypes
<1>2. CASE Poller
  BY <1>2, CallTypes, PollerWrites
     DEF Poller, Export, Exported, ApplyManifest, EnsureTables, BeginBatch, CommitBatch,
         RollbackBatch, RecordError
<1>3. CASE Indexer
  <2>1. ASSUME NEW s, NEW d \in Database, NEW n, Statement(s, d, n) PROVE Typed
    BY <2>1, CallTypes DEF Statement
  <2>2. /\ [db EXCEPT !.holder = @ \ {file}] \in Database
        /\ [db EXCEPT !.chunk = @ \ {file}] \in Database
        /\ [db EXCEPT !.holder = @ \cup {file}] \in Database
        /\ [db EXCEPT !.chunk = @ \cup {file}] \in Database
        /\ [db EXCEPT !.marked = @ \cup {file}] \in Database
    BY DEF TypeOK, Database
  <2>3. CASE DropHolder \/ DropChunk \/ AddChunk \/ AddHolder \/ SaveFingerprint
    BY <2>1, <2>2, <2>3 DEF DropHolder, DropChunk, AddChunk, AddHolder, SaveFingerprint
  <2>4. CASE ~(DropHolder \/ DropChunk \/ AddChunk \/ AddHolder \/ SaveFingerprint)
    BY <1>3, <2>4, CallTypes
       DEF Indexer, BeginCleanUp, CommitCleanUp, CommitInsert, CommitFile, EnsureTables,
           BeginInsert, RollbackFile, CommitFingerprint, EmbedFile
  <2> QED
    BY <2>3, <2>4
<1>4. CASE Environment
  BY <1>4, CallTypes DEF Environment, Publish, StartFile, Fail, Crash
<1> QED
  BY <1>1, <1>2, <1>3, <1>4 DEF Next, vars

\* What a step may do to the store and the resume state.
LEMMA StoreWriters ==
    ASSUME TypeOK, [Next]_vars
    PROVE  \/ UNCHANGED <<stored, vectors, missed>> /\ applied' \subseteq RowPhases
           \/ PutBatch
           \/ (PutRows({"chunks"}) \/ PutRows(RowPhases)) /\ missed' = missed
<1>0. applied \subseteq RowPhases
  BY DEF TypeOK
<1>1. CASE Poller
  BY <1>0, <1>1
     DEF Poller, surreal, Export, Exported, ApplyManifest, EnsureTables, BeginBatch,
         WriteUnit, RecordUnit, WriteChunks, WriteCheckpoint, CheckpointAt, CommitBatch,
         RollbackBatch, RecordError
<1>2. CASE Indexer
  BY <1>0, <1>2
     DEF Indexer, surreal, EnsureTables, BeginCleanUp, DropHolder, DropChunk, AddChunk,
         AddHolder, SaveFingerprint, Statement, CommitCleanUp, CommitInsert, CommitFile,
         BeginInsert, RollbackFile, CommitFingerprint, EmbedFile
<1>3. CASE Environment \/ UNCHANGED vars
  <2>1. CASE UNCHANGED surreal
    BY <1>0, <2>1 DEF surreal
  <2>2. CASE Crash
    BY <2>2 DEF Crash
  <2>3. ASSUME NEW t \in Threads, ManifestFails(t)
        PROVE  \/ UNCHANGED <<stored, vectors, missed>> /\ applied' \subseteq RowPhases
               \/ (PutRows({"chunks"}) \/ PutRows(RowPhases)) /\ missed' = missed
    BY <1>0, <2>3 DEF ManifestFails, surreal, RowPhases
  <2> QED
    BY <1>3, <2>1, <2>2, <2>3 DEF Environment, vars, Publish, StartFile, Fail
<1> QED
  BY <1>1, <1>2, <1>3 DEF Next

\* The manifest of the batch leaves its fresh changes in the index, or on the
\* account of the resume state.
LEMMA BatchGiven ==
    ASSUME PutBatch
    PROVE  Given \subseteq Given' /\ fresh \subseteq Given'
<1>1. stored \subseteq stored' /\ vectors \subseteq vectors'
  BY DEF PutBatch, PutRows
<1>2. ASSUME NEW p \in fresh PROVE p \in Given'
  <2>1. CASE BatchPhases \cap applied = {}
    <3>1. p \in stored' /\ p \in vectors'
      BY <1>2, <2>1 DEF PutBatch, PutRows, BatchPhases, RowPhases
    <3> QED
      BY <3>1 DEF Given, index
  <2>2. CASE BatchPhases \cap applied # {}
    BY <1>2, <2>2 DEF PutBatch, Given
  <2> QED
    BY <2>1, <2>2
<1>3. ASSUME NEW p \in Given, p \notin fresh PROVE p \in Given'
  BY <1>1, <1>3 DEF PutBatch, Given, index
<1> QED
  BY <1>2, <1>3

\* The log only grows, and so does what can be found or was kept from the store.
LEMMA Growth ==
    ASSUME TypeOK, [Next]_vars
    PROVE  /\ log' \in Seq(Units) /\ Len(log) <= Len(log') /\ Len(log') <= MaxChanges
           /\ \A p \in 1 .. Len(log) : log'[p] = log[p]
           /\ Given \subseteq Given'
           /\ stored' \subseteq DOMAIN log' /\ vectors' \subseteq DOMAIN log'
           /\ missed' \subseteq DOMAIN log' /\ applied' \subseteq RowPhases
<1>0. /\ log \in Seq(Units) /\ Len(log) <= MaxChanges /\ Len(log) \in Nat
      /\ MaxChanges \in Nat /\ fresh \subseteq DOMAIN log /\ applied \subseteq RowPhases
      /\ stored \subseteq DOMAIN log /\ vectors \subseteq DOMAIN log /\ missed \subseteq DOMAIN log
  BY Places DEF TypeOK
<1>1. /\ Given \subseteq Given'
      /\ stored' \subseteq DOMAIN log /\ vectors' \subseteq DOMAIN log
      /\ missed' \subseteq DOMAIN log /\ applied' \subseteq RowPhases
  <2>1. CASE UNCHANGED <<stored, vectors, missed>> /\ applied' \subseteq RowPhases
    BY <1>0, <2>1 DEF Given, index
  <2>2. CASE PutBatch
    <3>1. BatchPhases \subseteq RowPhases
      BY DEF BatchPhases
    <3> QED
      BY <1>0, <2>2, <3>1, BatchGiven DEF PutBatch, PutRows
  <2>3. CASE (PutRows({"chunks"}) \/ PutRows(RowPhases)) /\ missed' = missed
    BY <1>0, <2>3 DEF PutRows, RowPhases, Given, index
  <2> QED
    BY <2>1, <2>2, <2>3, StoreWriters
<1>2. CASE log' = log
  BY <1>0, <1>1, <1>2
<1>3. CASE log' # log
  <2>1. PICK u \in Units : Publish(u)
    BY <1>3
       DEF Next, vars, Poller, Indexer, Environment, Export, Exported, ApplyManifest,
           EnsureTables, BeginBatch, WriteUnit, RecordUnit, WriteChunks, WriteCheckpoint,
           CheckpointAt, CommitBatch, RollbackBatch, RecordError, BeginCleanUp,
           DropHolder, DropChunk, AddChunk, AddHolder, SaveFingerprint, Statement,
           CommitCleanUp, CommitInsert, CommitFile, BeginInsert, RollbackFile,
           CommitFingerprint, EmbedFile, StartFile, Fail, Crash
  <2>2. DOMAIN log \subseteq DOMAIN log'
    BY <1>0, <2>1 DEF Publish
  <2> QED
    BY <1>0, <1>1, <2>1, <2>2 DEF Publish
<1> QED
  BY <1>2, <1>3

\* Only an export replaces the poller's batch.
LEMMA LocalsKept ==
    ASSUME TypeOK, [Next]_vars
    PROVE  Export \/ (UNCHANGED <<batch, fresh, since>> /\ todo' \subseteq batch)
<1>0. todo \subseteq batch
  BY DEF TypeOK
<1>1. CASE Poller
  <2>1. CASE BeginBatch
    BY <1>0, <2>1 DEF BeginBatch
  <2>2. CASE WriteUnit
    BY <1>0, <2>2 DEF WriteUnit, RecordUnit
  <2>3. CASE ApplyManifest \/ EnsureTables("poller") \/ WriteChunks
    BY <1>0, <2>3 DEF job, ApplyManifest, EnsureTables, WriteChunks
  <2>4. CASE WriteCheckpoint \/ CommitBatch \/ RollbackBatch \/ RecordError
    BY <1>0, <2>4
       DEF job, WriteCheckpoint, CheckpointAt, CommitBatch, RollbackBatch, RecordError
  <2> QED
    BY <1>1, <2>1, <2>2, <2>3, <2>4 DEF Poller
<1>2. CASE Indexer
  BY <1>0, <1>2
     DEF Indexer, job, EnsureTables, BeginCleanUp, DropHolder, DropChunk, AddChunk,
         AddHolder, SaveFingerprint, Statement, CommitCleanUp, CommitInsert, CommitFile,
         BeginInsert, RollbackFile, CommitFingerprint, EmbedFile
<1>3. CASE Environment \/ UNCHANGED vars
  BY <1>0, <1>3 DEF Environment, vars, job, Publish, StartFile, Fail, Crash
<1> QED
  BY <1>1, <1>2, <1>3 DEF Next

\* The poller's locals are changes of the log.
LEMMA LocalsType ==
    ASSUME TypeOK, [Next]_vars
    PROVE  /\ batch' \subseteq DOMAIN log' /\ fresh' \subseteq batch' /\ todo' \subseteq batch'
           /\ since' \in 0 .. MaxChanges
<1>0. /\ batch \subseteq DOMAIN log /\ fresh \subseteq batch /\ todo \subseteq batch
      /\ since \in 0 .. MaxChanges /\ db.cursor \in 0 .. MaxChanges
  BY DEF TypeOK, Database
<1>1. DOMAIN log \subseteq DOMAIN log'
  <2>1. /\ log \in Seq(Units) /\ log' \in Seq(Units)
        /\ Len(log) <= Len(log') /\ Len(log) \in Nat /\ Len(log') \in Nat
    BY Growth DEF TypeOK
  <2>2. DOMAIN log = 1 .. Len(log) /\ DOMAIN log' = 1 .. Len(log')
    BY <2>1
  <2> QED
    BY <2>1, <2>2
<1>2. CASE Export
  <2>1. log' = log /\ since' = db.cursor /\ todo' = {} /\ fresh' \subseteq batch'
    BY <1>2 DEF Export, Exported
  <2>2. batch' \subseteq Feed(db.cursor)
    BY <1>2 DEF Export, Exported
  <2>3. Feed(db.cursor) \subseteq DOMAIN log
    BY <1>0, Places DEF Feed
  <2> QED
    BY <1>0, <2>1, <2>2, <2>3, <1>1
<1>3. CASE UNCHANGED <<batch, fresh, since>> /\ todo' \subseteq batch
  BY <1>0, <1>3, <1>1
<1> QED
  BY <1>2, <1>3, LocalsKept

\* The counters stay within their bounds, and a step of a thread is one it has.
LEMMA RestType ==
    ASSUME TypeOK, [Next]_vars
    PROVE  /\ pc' \in [Threads -> PollerSteps \cup IndexerSteps]
           /\ file' \in Files
           /\ failures' \in 0 .. MaxFailures /\ crashes' \in 0 .. MaxCrashes
           /\ files' \in 0 .. MaxFiles
<1>0. /\ file \in Files /\ failures \in 0 .. MaxFailures
      /\ crashes \in 0 .. MaxCrashes /\ files \in 0 .. MaxFiles
      /\ MaxFailures \in Nat /\ MaxCrashes \in Nat /\ MaxFiles \in Nat
      /\ pc \in [Threads -> PollerSteps \cup IndexerSteps]
  BY SourceIngestAssumption DEF TypeOK
<1>1. CASE Poller
  BY <1>0, <1>1
     DEF Poller, Go, PollerSteps, IndexerSteps, job, counters, Export, Exported,
         ApplyManifest, EnsureTables, BeginBatch, WriteUnit, RecordUnit, WriteChunks,
         WriteCheckpoint, CheckpointAt, CommitBatch, RollbackBatch, RecordError
<1>2. CASE Indexer
  BY <1>0, <1>2
     DEF Indexer, Go, PollerSteps, IndexerSteps, job, counters, EnsureTables, BeginCleanUp,
         DropHolder, DropChunk, AddChunk, AddHolder, SaveFingerprint, Statement,
         CommitCleanUp, CommitInsert, CommitFile, BeginInsert, RollbackFile,
         CommitFingerprint, EmbedFile
<1>3. CASE Environment
  <2>1. CASE \E u \in Units : Publish(u)
    BY <1>0, <2>1 DEF Publish, job, counters
  <2>0. \A n, m \in Nat : n < m => n + 1 \in 0 .. m
    OBVIOUS
  <2>2. CASE \E f \in Files : StartFile(f)
    <3>1. files < MaxFiles /\ files' = files + 1
      BY <2>2 DEF StartFile
    <3>2. files' \in 0 .. MaxFiles
      BY <1>0, <2>0, <3>1
    <3> QED
      BY <1>0, <2>2, <3>2 DEF StartFile, Go, IndexerSteps
  <2>3. ASSUME NEW t \in Threads, Fail(t) PROVE failures' \in 0 .. MaxFailures
    <3>1. failures < MaxFailures /\ failures' = failures + 1
      BY <2>3 DEF Fail
    <3> QED
      BY <1>0, <2>0, <3>1
  <2>4. CASE \E t \in Threads : Fail(t)
    BY <1>0, <2>3, <2>4 DEF Fail, Go, PollerSteps, job
  <2>5. CASE Crash
    <3>1. crashes < MaxCrashes /\ crashes' = crashes + 1
      BY <2>5 DEF Crash
    <3>2. crashes' \in 0 .. MaxCrashes
      BY <1>0, <2>0, <3>1
    <3> QED
      BY <1>0, <2>5, <3>2 DEF Crash, PollerSteps, job
  <2> QED
    BY <1>3, <2>1, <2>2, <2>4, <2>5 DEF Environment
<1>4. CASE UNCHANGED vars
  BY <1>0, <1>4 DEF vars, job, counters
<1> QED
  BY <1>1, <1>2, <1>3, <1>4 DEF Next

\* Each step keeps everything well-formed.
LEMMA TypeStep == TypeOK /\ [Next]_vars => TypeOK'
BY ConnectionType, Growth, LocalsType, RestType DEF TypeOK

\* So is the initial state.
LEMMA InitType == Init => TypeOK
<1> SUFFICES ASSUME Init PROVE TypeOK
  OBVIOUS
<1>1. /\ MaxChanges \in Nat /\ MaxFailures \in Nat /\ MaxCrashes \in Nat
      /\ MaxFiles \in Nat
  BY SourceIngestAssumption
<1>2. log \in Seq(Units) /\ Len(log) = 0
  BY DEF Init
<1>3. Empty \in Database /\ 0 \in 0 .. MaxChanges
  BY <1>1 DEF Empty, Database
<1>4. pc \in [Threads -> PollerSteps \cup IndexerSteps]
  BY DEF Init, PollerSteps
<1>5. db \in Database /\ durable \in Database /\ tx \in BOOLEAN
  BY <1>3 DEF Init, Opened
<1>6. /\ failures \in 0 .. MaxFailures /\ crashes \in 0 .. MaxCrashes
      /\ files \in 0 .. MaxFiles /\ since \in 0 .. MaxChanges
  BY <1>1 DEF Init
<1> QED
  BY <1>1, <1>2, <1>4, <1>5, <1>6 DEF Init, TypeOK

\* Every reachable state is well-formed.
THEOREM TypeCorrect == Spec => []TypeOK
BY InitType, TypeStep, PTL DEF Spec
-----------------------------------------------------------------------------
\* What can be found or was withheld stays so: changes are added at the end, and
\* nothing leaves the store.
LEMMA ClaimsStay ==
    ASSUME TypeOK, [Next]_vars
    PROVE  /\ \A c \in Nat : CoveredIn(c, log, Given) => CoveredIn(c, log', Given')
           /\ \A f \in [Units -> Nat] : FoundIn(f, Given) => FoundIn(f, Given')
<1>1. /\ Len(log) \in Nat /\ Len(log') \in Nat /\ Len(log) <= Len(log')
      /\ \A p \in 1 .. Len(log) : log'[p] = log[p]
      /\ Given \subseteq Given'
  BY Growth, Places
<1>2. ASSUME NEW c \in Nat, CoveredIn(c, log, Given) PROVE CoveredIn(c, log', Given')
  <2>1. c <= Len(log')
    BY <1>1, <1>2 DEF CoveredIn
  <2>2. ASSUME NEW p \in 1 .. Len(log'), p <= c, log'[p] \notin Hidden,
               \A q \in p + 1 .. Len(log') : log'[q] # log'[p]
        PROVE  p \in Given'
    <3>1. p \in 1 .. Len(log) /\ log[p] \notin Hidden
      BY <1>1, <1>2, <2>2 DEF CoveredIn
    <3>2. \A q \in p + 1 .. Len(log) : q \in 1 .. Len(log) /\ q \in p + 1 .. Len(log')
      BY <1>1, <3>1
    <3>3. \A q \in p + 1 .. Len(log) : log[q] # log[p]
      BY <1>1, <2>2, <3>1, <3>2
    <3> QED
      BY <1>1, <1>2, <2>2, <3>1, <3>3 DEF CoveredIn
  <2> QED
    BY <2>1, <2>2 DEF CoveredIn
<1>3. ASSUME NEW f \in [Units -> Nat], FoundIn(f, Given) PROVE FoundIn(f, Given')
  BY <1>1, <1>3 DEF FoundIn
<1> QED
  BY <1>2, <1>3

\* What a step may do to fingerprints and checkpoint.
LEMMA Writers ==
    ASSUME TypeOK, [Next]_vars
    PROVE  /\ durable' = durable \/ durable' = db'
           /\ \/ db' = db
              \/ db' = durable
              \/ WriteUnit
              \/ WriteCheckpoint
              \/ db'.fp = db.fp /\ db'.cursor = db.cursor
<1>0. db \in Database
  BY DEF TypeOK
<1>1. CASE Poller
  BY <1>0, <1>1
     DEF Poller, Export, Exported, ApplyManifest, EnsureTables, BeginBatch, WriteUnit,
         RecordUnit, WriteChunks, WriteCheckpoint, CheckpointAt, CommitBatch,
         RollbackBatch, RecordError, connection, Begin, Commit, Rollback, CommitAny,
         Execute, Database
<1>2. CASE Indexer
  BY <1>0, <1>2
     DEF Indexer, EnsureTables, BeginCleanUp, DropHolder, DropChunk, AddChunk, AddHolder,
         SaveFingerprint, Statement, CommitCleanUp, CommitInsert, CommitFile, BeginInsert,
         RollbackFile, CommitFingerprint, EmbedFile, connection, Begin, Commit, Rollback, CommitAny,
         Execute, Database
<1>3. CASE Environment \/ UNCHANGED vars
  BY <1>3
     DEF Environment, vars, connection, Publish, StartFile, Fail, Crash, Reopened
<1> QED
  BY <1>1, <1>2, <1>3 DEF Next

\* The poller goes from export over SurrealDB to its transaction.
Late == {"ensure", "begin", "units", "checkpoint"}

\* How the poller moves through an ingest: what each step leaves at which pc.
LEMMA PollerMoves ==
    ASSUME TypeOK, [Next]_vars, "poller" \in Threads
    PROVE  \/ Export
           \/ ApplyManifest
           \/ pc'["poller"] \in {"idle", "commit", "rollback", "error"}
           \/ pc["poller"] \in Late /\ pc'["poller"] \in Late
           \/ pc'["poller"] = pc["poller"]
<1>0. pc \in [Threads -> PollerSteps \cup IndexerSteps]
  BY DEF TypeOK
<1>1. CASE Poller
  BY <1>0, <1>1
     DEF Poller, At, Go, Late, EnsureTables, BeginBatch, WriteUnit, RecordUnit, WriteChunks,
         WriteCheckpoint, CheckpointAt, CommitBatch, RollbackBatch, RecordError
<1>2. CASE Indexer
  BY <1>0, <1>2
     DEF Indexer, At, Go, EnsureTables, BeginCleanUp, DropHolder, DropChunk, AddChunk,
         AddHolder, SaveFingerprint, Statement, CommitCleanUp, CommitInsert, CommitFile,
         BeginInsert, RollbackFile, CommitFingerprint, EmbedFile
<1>3. CASE Environment \/ UNCHANGED vars
  BY <1>0, <1>3 DEF Environment, vars, At, Go, Publish, StartFile, Fail, Crash
<1> QED
  BY <1>1, <1>2, <1>3 DEF Next
-----------------------------------------------------------------------------
\* The unit write puts on record a change that is hidden, found or withheld.
LEMMA UnitWritten ==
    ASSUME IInv, WriteUnit
    PROVE  FoundIn(db'.fp, Given) /\ db'.cursor = db.cursor /\ Given' = Given
<1> DEFINE p == First(todo)
<1>1. p \in batch /\ p \in DOMAIN log /\ log[p] \in Units
  BY FirstIn, Places DEF IInv, TypeOK, WriteUnit, RecordUnit
<1>2. log[p] \notin Hidden => p \in Given
  BY <1>1 DEF IInv, BatchWhole, FreshIndexed, WriteUnit, RecordUnit, At
<1>3. \/ db' = db
      \/ db' = [db EXCEPT !.fp[log[p]] = p, !.rows = {q \in db.rows : log[q] # log[p]}]
  BY DEF WriteUnit, RecordUnit, Execute
<1>4. db \in Database /\ FoundIn(db.fp, Given)
  BY DEF IInv, TypeOK, Known
<1> HIDE DEF p
<1>5. /\ db'.cursor = db.cursor
      /\ \A u \in Units : db'.fp[u] = db.fp[u] \/ (u = log[p] /\ db'.fp[u] = p)
  BY <1>1, <1>3, <1>4 DEF Database
<1>6. Given' = Given
  BY DEF WriteUnit, RecordUnit, surreal, Given, index
<1> QED
  BY <1>2, <1>4, <1>5, <1>6 DEF FoundIn

\* The checkpoint the poller writes only passes changes that can be found, and
\* is not behind the one it exported from.
LEMMA CheckpointWritten ==
    ASSUME IInv, WriteCheckpoint
    PROVE  /\ CoveredIn(db'.cursor, log, Given) /\ since <= db'.cursor
           /\ db'.fp = db.fp /\ Given' = Given
<1> DEFINE c == IF batch = {} THEN since ELSE Last(batch)
<1>1. db' = [db EXCEPT !.cursor = c] /\ Given' = Given
  BY DEF WriteCheckpoint, CheckpointAt, Execute, surreal, Given, index
<1>2. db'.cursor = c /\ db'.fp = db.fp
  BY <1>1 DEF IInv, TypeOK, Database
<1>3. /\ CoveredIn(since, log, Given)
      /\ batch \subseteq DOMAIN log /\ since \in Nat /\ Len(log) \in Nat
      /\ DOMAIN log = 1 .. Len(log)
  BY Places DEF IInv, BatchWhole, TypeOK
<1>4. CASE batch = {}
  BY <1>1, <1>2, <1>3, <1>4
<1>5. CASE batch # {}
  <2>1. c = Last(batch) /\ c \in batch /\ \A q \in batch : q <= c
    BY <1>3, <1>5, LastIn DEF IInv
  <2>2. c \in 1 .. Len(log) /\ since < c
    BY <1>3, <2>1 DEF IInv, BatchWhole
  <2> HIDE DEF c
  <2>3. \A p \in batch : log[p] \notin Hidden => p \in Given
    BY DEF IInv, BatchWhole, FreshIndexed, WriteCheckpoint, CheckpointAt, At
  <2>4. ASSUME NEW p \in 1 .. Len(log), p <= c, log[p] \notin Hidden,
               \A q \in p + 1 .. Len(log) : log[q] # log[p]
        PROVE  p \in Given
    <3>1. CASE p <= since
      BY <1>3, <2>4, <3>1 DEF CoveredIn
    <3>2. CASE since < p
      <4>1. p \in batch
        BY <1>3, <2>1, <2>4, <3>2 DEF IInv, BatchWhole
      <4> QED
        BY <2>3, <2>4, <4>1
    <3> QED
      BY <1>3, <3>1, <3>2
  <2> QED
    BY <1>1, <1>2, <2>2, <2>4, <1>3 DEF CoveredIn
<1> QED
  BY <1>4, <1>5

\* A step leaves the checkpoint, as it is read, at least where the durable one was.
LEMMA CursorRises == ASSUME IInv, [Next]_vars PROVE durable.cursor <= db'.cursor
<1>1. /\ db.cursor \in Nat /\ durable.cursor \in Nat /\ db'.cursor \in Nat
      /\ since \in Nat /\ durable.cursor <= db.cursor
  BY ConnectionType DEF IInv, TypeOK, Database, CursorOrder
<1>2. CASE WriteCheckpoint
  <2>1. db.cursor <= since /\ since <= db'.cursor
    BY <1>2, CheckpointWritten DEF IInv, CursorOrder, WriteCheckpoint, CheckpointAt
  <2> QED
    BY <1>1, <2>1
<1>3. CASE WriteUnit
  BY <1>1, <1>3, UnitWritten
<1> QED
  BY <1>1, <1>2, <1>3, Writers DEF IInv

\* Each step keeps the known part, of what is read and of what is durable.
LEMMA KnownStep == ASSUME IInv, [Next]_vars PROVE Known(db)' /\ Known(durable)'
<1> DEFINE K(d) == CoveredIn(d.cursor, log', Given') /\ FoundIn(d.fp, Given')
<1>1. /\ db.cursor \in Nat /\ db.fp \in [Units -> Nat]
      /\ durable.cursor \in Nat /\ durable.fp \in [Units -> Nat]
  BY DEF IInv, TypeOK, Database
<1>2. K(db) /\ K(durable)
  BY <1>1, ClaimsStay DEF IInv, Known
<1>3. K(db')
  <2>1. CASE WriteUnit
    BY <1>2, <2>1, UnitWritten
  <2>2. CASE WriteCheckpoint
    <3>1. log' = log
      BY <2>2 DEF WriteCheckpoint, CheckpointAt
    <3> QED
      BY <1>2, <2>2, <3>1, CheckpointWritten
  <2> QED
    BY <1>2, <2>1, <2>2, Writers DEF IInv
<1>4. K(durable')
  BY <1>2, <1>3, Writers DEF IInv
<1> QED
  BY <1>3, <1>4 DEF Known
\* A batch is a prefix of the feed: the changes with fewer than Limit before them.
LEMMA BatchIsPrefix ==
    ASSUME TypeOK, NEW from \in Nat, NEW p \in Feed(from), NEW r \in Feed(from), p <= r,
           Cardinality({q \in Feed(from) : q < r}) < Limit
    PROVE  Cardinality({q \in Feed(from) : q < p}) < Limit
<1> DEFINE Before(n) == {q \in Feed(from) : q < n}
<1>1. Feed(from) \subseteq 1 .. Len(log) /\ Len(log) \in Nat
  BY Places DEF Feed
<1>2. IsFiniteSet(Before(r))
  <2>1. IsFiniteSet(1 .. Len(log))
    BY <1>1, FS_Interval
  <2>2. Before(r) \subseteq 1 .. Len(log)
    BY <1>1
  <2> QED
    BY <2>1, <2>2, FS_Subset
<1>3. Before(p) \subseteq Before(r)
  BY <1>1
<1>4. /\ Cardinality(Before(p)) <= Cardinality(Before(r))
      /\ Cardinality(Before(p)) \in Nat /\ Cardinality(Before(r)) \in Nat
  BY <1>2, <1>3, FS_Subset, FS_CardinalityType
<1> QED
  BY <1>4, Places

\* What an export leaves in the batch is whole: nothing of the feed is skipped.
LEMMA ExportWhole == ASSUME IInv, Export PROVE BatchWhole'
<1> DEFINE from == db.cursor
           changed == {p \in DOMAIN log : db.fp[log[p]] # p}
<1>1. /\ since' = from /\ log' = log /\ Given' = Given
      /\ batch' = {p \in Feed(from) : Cardinality({q \in Feed(from) : q < p}) < Limit}
      /\ fresh' = {p \in batch' \cap changed : log[p] \notin Hidden}
  BY DEF Export, Exported, surreal, Given, index
<1>2. /\ from \in Nat /\ Len(log) \in Nat /\ DOMAIN log = 1 .. Len(log)
      /\ CoveredIn(from, log, Given) /\ FoundIn(db.fp, Given)
      /\ \A p \in DOMAIN log : log[p] \in Units
  BY Places DEF IInv, TypeOK, Known, Database
<1> HIDE DEF from
<1>3. batch' \subseteq Feed(from) /\ Feed(from) \subseteq {p \in DOMAIN log : p > from}
  BY <1>1, <1>2 DEF Feed
<1>4. ASSUME NEW p \in batch', log[p] \notin Hidden PROVE p \in Given \cup fresh'
  <2>1. p \in DOMAIN log /\ p # 0 /\ log[p] \in Units
    BY <1>2, <1>3
  <2>2. CASE db.fp[log[p]] = p
    BY <1>2, <1>4, <2>1, <2>2 DEF FoundIn
  <2>3. CASE db.fp[log[p]] # p
    BY <1>1, <1>4, <2>1, <2>3
  <2> QED
    BY <2>2, <2>3
<1>5. ASSUME NEW p \in DOMAIN log, NEW r \in batch', from < p, p <= r,
             \A q \in p + 1 .. Len(log) : log[q] # log[p]
      PROVE  p \in batch'
  <2>1. p \in Feed(from) /\ r \in Feed(from)
    BY <1>1, <1>2, <1>5 DEF Feed, Superseded
  <2>2. Cardinality({q \in Feed(from) : q < r}) < Limit
    BY <1>1
  <2> QED
    BY <1>1, <1>2, <1>5, <2>1, <2>2, BatchIsPrefix DEF IInv
<1> QED
  BY <1>1, <1>2, <1>3, <1>4, <1>5 DEF BatchWhole

\* Each step keeps the poller's batch whole.
LEMMA BatchStep == ASSUME IInv, [Next]_vars PROVE BatchWhole'
<1>1. CASE UNCHANGED <<batch, fresh, since>>
  <2>1. /\ Len(log) \in Nat /\ Len(log') \in Nat /\ Len(log) <= Len(log')
        /\ DOMAIN log = 1 .. Len(log) /\ DOMAIN log' = 1 .. Len(log')
        /\ \A p \in 1 .. Len(log) : log'[p] = log[p]
        /\ Given \subseteq Given'
        /\ batch \subseteq 1 .. Len(log)
    <3>1. log' \in Seq(Units)
      BY Growth DEF IInv
    <3> QED
      BY <3>1, Growth, Places DEF IInv, TypeOK
  <2>2. CoveredIn(since, log', Given')
    BY ClaimsStay DEF IInv, BatchWhole, TypeOK
  <2>3. \A p \in batch : p > since /\ (log'[p] \notin Hidden => p \in Given' \cup fresh)
    BY <2>1 DEF IInv, BatchWhole
  <2>4. ASSUME NEW p \in DOMAIN log', NEW r \in batch, since < p, p <= r,
               \A q \in p + 1 .. Len(log') : log'[q] # log'[p]
        PROVE  p \in batch
    <3>1. p \in 1 .. Len(log)
      BY <2>1, <2>4
    <3>2. \A q \in p + 1 .. Len(log) : q \in 1 .. Len(log) /\ q \in p + 1 .. Len(log')
      BY <2>1, <3>1
    <3>3. \A q \in p + 1 .. Len(log) : log[q] # log[p]
      BY <2>1, <2>4, <3>1, <3>2
    <3> QED
      BY <2>1, <2>4, <3>1, <3>3 DEF IInv, BatchWhole
  <2> QED
    BY <1>1, <2>2, <2>3, <2>4 DEF BatchWhole
<1> QED
  BY <1>1, ExportWhole, LocalsKept DEF IInv

\* Each step keeps what the poller marked fresh found or withheld.
LEMMA FreshStep == ASSUME IInv, [Next]_vars PROVE FreshIndexed'
<1> SUFFICES ASSUME "poller" \in Threads, pc'["poller"] \in Late PROVE fresh' \subseteq Given'
  BY DEF FreshIndexed, Late, At
<1>1. CASE Export
  <2>1. pc \in [Threads -> PollerSteps \cup IndexerSteps]
    BY DEF IInv, TypeOK
  <2>2. batch' = {}
    BY <1>1, <2>1 DEF Export, Exported, Go, Late
  <2> QED
    BY <1>1, <2>2 DEF Export, Exported
<1>2. CASE ApplyManifest
  BY <1>2, BatchGiven DEF ApplyManifest, job
<1>3. CASE fresh' = fresh /\ pc["poller"] \in Late
  BY <1>3, Growth DEF IInv, FreshIndexed, At, Late
<1> QED
  BY <1>1, <1>2, <1>3, PollerMoves, LocalsKept DEF IInv, Late

\* Each step keeps the order of the poller's cursor and the checkpoint.
LEMMA CursorStep == ASSUME IInv, [Next]_vars PROVE CursorOrder'
<1>0. /\ db.cursor \in Nat /\ durable.cursor \in Nat /\ since \in Nat
      /\ db'.cursor \in Nat /\ durable'.cursor \in Nat
      /\ pc \in [Threads -> PollerSteps \cup IndexerSteps]
  BY ConnectionType DEF IInv, TypeOK, Database
<1>1. durable'.cursor <= db'.cursor
  BY <1>0, CursorRises, Writers DEF IInv
<1>2. ASSUME "poller" \in Threads, pc'["poller"] \in Late \cup {"manifest"}
      PROVE  db'.cursor <= since'
  <2>1. CASE Export
    BY <1>0, <2>1 DEF Export, Exported, connection
  <2>2. CASE ~Export
    <3>1. since' = since
      BY <2>2, LocalsKept DEF IInv
    <3>2. pc["poller"] \in Late \cup {"manifest"}
      BY <1>2, <2>2, PollerMoves DEF IInv, Late, ApplyManifest, At
    <3>3. db.cursor <= since
      BY <1>2, <3>2 DEF IInv, CursorOrder, Late, At
    <3>4. ~WriteCheckpoint
      BY <1>0, <1>2 DEF WriteCheckpoint, CheckpointAt, Go, Late
    <3>5. db'.cursor = db.cursor \/ db'.cursor = durable.cursor
      BY <3>4, Writers, UnitWritten DEF IInv
    <3> QED
      BY <1>0, <3>1, <3>3, <3>5 DEF IInv, CursorOrder
  <2> QED
    BY <2>1, <2>2
<1> QED
  BY <1>1, <1>2 DEF CursorOrder, At, Late

\* The inductive invariant holds at the start.
LEMMA InitInvariant == Init => IInv
<1> SUFFICES ASSUME Init PROVE IInv
  OBVIOUS
<1>1. TypeOK
  BY InitType
<1>2. /\ db = Empty /\ durable = Empty /\ batch = {} /\ fresh = {} /\ since = 0
      /\ log = <<>> /\ pc = [t \in Threads |-> "idle"] /\ Len(log) = 0
  BY DEF Init, Opened
<1>3. CoveredIn(0, log, Given) /\ FoundIn(Empty.fp, Given) /\ Empty.cursor = 0
  BY <1>2 DEF CoveredIn, FoundIn, Empty
<1> QED
  BY <1>1, <1>2, <1>3 DEF IInv, Known, BatchWhole, FreshIndexed, CursorOrder, At

\* The inductive invariant holds in every reachable state.
THEOREM Inductive == Spec => []IInv
<1>1. IInv /\ [Next]_vars => IInv'
  BY TypeStep, KnownStep, BatchStep, FreshStep, CursorStep DEF IInv
<1> QED
  BY InitInvariant, <1>1, PTL DEF Spec

\* What the checkpoint has passed can be found in SurrealDB or was kept from it by
\* the resume state, however poller and indexer spoil each other's transactions
\* (_ingest_application_source applies the manifest before its local transaction).
THEOREM CheckpointIsIndexed == Spec => []CheckpointIndexed
<1>1. IInv => CheckpointIndexed
  BY Places DEF IInv, Known, CoveredIn, CheckpointIndexed, Superseded, Given
<1> QED
  BY <1>1, Inductive, PTL

\* A fingerprint on record, which makes a replay skip its change, is that of a
\* change whose chunk is in SurrealDB or was kept from it by the resume state.
THEOREM FingerprintIsIndexed == Spec => []FingerprintIndexed
<1>1. IInv => FingerprintIndexed
  BY DEF IInv, Known, FoundIn, FingerprintIndexed, Given
<1> QED
  BY <1>1, Inductive, PTL

\* The checkpoint never goes back, neither through an empty batch nor through a
\* transaction that another thread has rolled back.
THEOREM CheckpointGoesForward == Spec => CheckpointForward
<1>1. IInv /\ [Next]_vars => [durable.cursor <= durable'.cursor]_vars
  <2> SUFFICES ASSUME IInv, [Next]_vars PROVE durable.cursor <= durable'.cursor
    OBVIOUS
  <2>1. durable.cursor \in Nat
    BY DEF IInv, TypeOK, Database
  <2> QED
    BY <2>1, CursorRises, Writers DEF IInv
<1> QED
  BY <1>1, Inductive, PTL DEF Spec, CheckpointForward
-----------------------------------------------------------------------------
\* The indexer alone: its transaction is open from BEGIN to COMMIT or ROLLBACK,
\* nothing else is pending, and what it holds half-way is one note's row.
InTransaction == {"drop holder", "drop chunk", "commit clean-up", "add chunk", "add holder",
                  "commit insert", "rollback"}

RowsInv ==
    /\ TypeOK
    /\ pc["indexer"] \in IndexerSteps
    /\ durable.chunk = durable.holder
    /\ tx <=> pc["indexer"] \in InTransaction
    /\ ~tx => db = durable
    /\ pc["indexer"] \in InTransaction \ {"drop chunk", "add holder", "rollback"}
        => db.chunk = db.holder
    /\ pc["indexer"] = "drop chunk" => db.chunk \ {file} = db.holder
    /\ pc["indexer"] = "add holder" => db.chunk = db.holder \cup {file}

\* A step of the lone indexer keeps its rows and holders in agreement.
LEMMA IndexerStep ==
    ASSUME TypeOK, Threads = {"indexer"}, pc["indexer"] \in IndexerSteps, [Next]_vars
    PROVE  pc'["indexer"] \in IndexerSteps
<1>0. pc \in [{"indexer"} -> PollerSteps \cup IndexerSteps]
  BY DEF TypeOK
<1>1. CASE Poller
  BY <1>1
     DEF Poller, At, Export, Exported, ApplyManifest, EnsureTables, BeginBatch, WriteUnit,
         RecordUnit, WriteChunks, WriteCheckpoint, CheckpointAt, CommitBatch,
         RollbackBatch, RecordError
<1>2. CASE Indexer
  BY <1>0, <1>2
     DEF Indexer, IndexerSteps, Go, EnsureTables, BeginCleanUp, DropHolder, DropChunk,
         AddChunk, AddHolder, SaveFingerprint, Statement, CommitCleanUp, CommitInsert,
         CommitFile, BeginInsert, RollbackFile, CommitFingerprint, EmbedFile
<1>3. CASE Environment \/ UNCHANGED vars
  BY <1>0, <1>3
     DEF Environment, vars, IndexerSteps, Go, Publish, StartFile, Fail, Crash
<1> QED
  BY <1>1, <1>2, <1>3 DEF Next

\* Each step keeps them in agreement when the indexer is alone.
LEMMA RowsStep ==
    ASSUME Threads = {"indexer"}, RowsInv, [Next]_vars
    PROVE  RowsInv'
<1>0. /\ TypeOK' /\ pc'["indexer"] \in IndexerSteps
      /\ db \in Database /\ durable \in Database
      /\ pc \in [{"indexer"} -> PollerSteps \cup IndexerSteps]
  BY TypeStep, IndexerStep DEF RowsInv, TypeOK
<1>1. CASE Poller
  BY <1>1
     DEF Poller, At, Export, Exported, ApplyManifest, EnsureTables, BeginBatch, WriteUnit,
         RecordUnit, WriteChunks, WriteCheckpoint, CheckpointAt, CommitBatch,
         RollbackBatch, RecordError
<1>2. CASE DropHolder \/ DropChunk \/ AddChunk \/ AddHolder \/ SaveFingerprint
  <2>1. file' = file
    BY <1>2 DEF DropHolder, DropChunk, AddChunk, AddHolder, SaveFingerprint, Statement, job
  <2>2. CASE DropHolder
    <3>1. tx /\ pc'["indexer"] = "drop chunk" /\ tx' = tx /\ durable' = durable
      BY <1>0, <2>2 DEF RowsInv, InTransaction, DropHolder, Statement, Execute, At, Go
    <3>2. db'.chunk = db.chunk /\ db'.holder = db.holder \ {file} /\ db.chunk = db.holder
      BY <1>0, <2>2 DEF RowsInv, InTransaction, DropHolder, Statement, Execute, At, Database
    <3> QED
      BY <1>0, <2>1, <3>1, <3>2 DEF RowsInv, InTransaction
  <2>3. CASE DropChunk
    <3>1. tx /\ pc'["indexer"] = "commit clean-up" /\ tx' = tx /\ durable' = durable
      BY <1>0, <2>3 DEF RowsInv, InTransaction, DropChunk, Statement, Execute, At, Go
    <3>2. db'.holder = db.holder /\ db'.chunk = db.chunk \ {file}
          /\ db.chunk \ {file} = db.holder
      BY <1>0, <2>3 DEF RowsInv, InTransaction, DropChunk, Statement, Execute, At, Database
    <3> QED
      BY <1>0, <2>1, <3>1, <3>2 DEF RowsInv, InTransaction
  <2>4. CASE AddChunk
    <3>1. tx /\ pc'["indexer"] = "add holder" /\ tx' = tx /\ durable' = durable
      BY <1>0, <2>4 DEF RowsInv, InTransaction, AddChunk, Statement, Execute, At, Go
    <3>2. db'.holder = db.holder /\ db'.chunk = db.chunk \cup {file}
          /\ db.chunk = db.holder
      BY <1>0, <2>4 DEF RowsInv, InTransaction, AddChunk, Statement, Execute, At, Database
    <3> QED
      BY <1>0, <2>1, <3>1, <3>2 DEF RowsInv, InTransaction
  <2>5. CASE AddHolder
    <3>1. tx /\ pc'["indexer"] = "commit insert" /\ tx' = tx /\ durable' = durable
      BY <1>0, <2>5 DEF RowsInv, InTransaction, AddHolder, Statement, Execute, At, Go
    <3>2. db'.chunk = db.chunk /\ db'.holder = db.holder \cup {file}
          /\ db.chunk = db.holder \cup {file}
      BY <1>0, <2>5 DEF RowsInv, InTransaction, AddHolder, Statement, Execute, At, Database
    <3> QED
      BY <1>0, <2>1, <3>1, <3>2 DEF RowsInv, InTransaction
  <2>6. CASE SaveFingerprint
    <3>1. /\ ~tx /\ pc'["indexer"] = "commit()" /\ tx' = tx /\ durable' = db'
      BY <1>0, <2>6 DEF RowsInv, InTransaction, SaveFingerprint, Statement, Execute, At, Go
    <3>2. db'.chunk = db.chunk /\ db'.holder = db.holder /\ db = durable
      BY <1>0, <2>6, <3>1 DEF RowsInv, SaveFingerprint, Statement, Execute, Database
    <3> QED
      BY <1>0, <2>1, <3>1, <3>2 DEF RowsInv, InTransaction
  <2> QED
    BY <1>2, <2>2, <2>3, <2>4, <2>5, <2>6
<1>3. CASE BeginCleanUp \/ BeginInsert \/ EnsureTables("indexer")
  BY <1>0, <1>3
     DEF RowsInv, InTransaction, BeginCleanUp, BeginInsert, EnsureTables, Begin, CommitAny,
         At, Go, job, connection
<1>4. CASE CommitCleanUp \/ CommitInsert \/ RollbackFile \/ CommitFingerprint
  BY <1>0, <1>4
     DEF RowsInv, InTransaction, CommitCleanUp, CommitInsert, CommitFile, RollbackFile,
         CommitFingerprint, Commit, Rollback, CommitAny, At, Go, job, connection
<1>6. CASE EmbedFile
  <2>1. /\ UNCHANGED <<db, durable, tx, file>> /\ pc["indexer"] = "embed"
        /\ pc'["indexer"] = "idle"
    BY <1>0, <1>6 DEF EmbedFile, At, Go, job, connection
  <2> QED
    BY <1>0, <2>1 DEF RowsInv, InTransaction
<1>5. CASE Environment \/ UNCHANGED vars
  <2>1. CASE UNCHANGED vars \/ \E u \in Units : Publish(u)
    <3>1. UNCHANGED <<db, durable, tx, pc, file>>
      BY <2>1 DEF vars, connection, job, Publish
    <3> QED
      BY <1>0, <3>1 DEF RowsInv
  <2>2. CASE \E f \in Files : StartFile(f)
    <3>1. /\ UNCHANGED <<db, durable, tx>> /\ pc["indexer"] = "idle"
          /\ pc'["indexer"] = "begin clean-up"
      BY <1>0, <2>2 DEF StartFile, At, Go, connection
    <3> QED
      BY <1>0, <3>1 DEF RowsInv, InTransaction
  <2>3. CASE \E t \in Threads : Fail(t)
    <3>1. Fail("indexer") /\ UNCHANGED <<connection, file>>
      BY <2>3 DEF Fail, job
    <3>2. CASE pc["indexer"] \in InTry
      <4>1. pc["indexer"] \in InTransaction /\ pc'["indexer"] = "rollback"
        BY <1>0, <3>1, <3>2 DEF RowsInv, Fail, Go, InTry, InTransaction, IndexerSteps
      <4> QED
        BY <1>0, <3>1, <4>1 DEF RowsInv, InTransaction, connection
    <3>3. CASE pc["indexer"] \notin InTry
      <4>1. pc["indexer"] \notin InTransaction /\ pc'["indexer"] = "idle"
        BY <1>0, <3>1, <3>3 DEF Fail, Go, InTransaction
      <4> QED
        BY <1>0, <3>1, <4>1 DEF RowsInv, InTransaction, connection
    <3> QED
      BY <3>2, <3>3
  <2>4. CASE Crash
    BY <1>0, <2>4 DEF RowsInv, InTransaction, Crash, Reopened, job
  <2> QED
    BY <1>5, <2>1, <2>2, <2>3, <2>4 DEF Environment
<1> QED
  BY <1>0, <1>1, <1>2, <1>3, <1>4, <1>5, <1>6 DEF Next, Indexer, RowsInv

\* With the connection for itself index_file keeps chunk row and holder row
\* together in whatever a crash would leave.
THEOREM FileRowsStayTogether ==
    ASSUME Threads = {"indexer"} PROVE Spec => []FileRowsTogether
<1>1. Init => RowsInv
  BY InitType DEF Init, Opened, Empty, RowsInv, InTransaction, IndexerSteps
<1>2. RowsInv /\ [Next]_vars => RowsInv'
  BY RowsStep
<1>3. RowsInv => FileRowsTogether
  BY DEF RowsInv, FileRowsTogether
<1> QED
  BY <1>1, <1>2, <1>3, PTL DEF Spec
-----------------------------------------------------------------------------
(* The poller alone implements SourceFeed.  The operators of SourceFeed with *)
(* the log as a parameter, to speak of the log before and after a step.      *)

FeedIn(l, from, n) == {p \in from + 1 .. n : \A q \in p + 1 .. n : l[q] # l[p]}
RecordedIn(l, b, f) ==
    [u \in Units |-> IF \E p \in b : l[p] = u THEN CHOOSE p \in b : l[p] = u ELSE f[u]]
ChangedIn(l, b, f) == {p \in b : f[l[p]] # p}
KeptIn(l, b, f, r) == {q \in r : \A p \in ChangedIn(l, b, f) : l[q] # l[p]}
ShownIn(l, b, f) == {p \in ChangedIn(l, b, f) : l[p] \notin Hidden}

\* The operators of the abstract feed are those of the ingest.
LEMMA SameOperators ==
    /\ \A from, n : Promise!Feed(from, n) = FeedIn(log, from, n)
    /\ \A b, f : Promise!Recorded(b, f) = RecordedIn(log, b, f)
    /\ \A b, f, r : Promise!Indexed(b, f, r) = KeptIn(log, b, f, r) \cup ShownIn(log, b, f)
BY DEF Promise!Feed, Promise!Superseded, Promise!Recorded, Promise!Indexed, Promise!Changed,
       FeedIn, RecordedIn, KeptIn, ShownIn, ChangedIn

\* They depend on the changes they speak of only.
LEMMA SameOnPrefix ==
    ASSUME NEW k \in Nat, \A p \in 1 .. k : log'[p] = log[p],
           NEW b \in SUBSET (1 .. k), NEW r \in SUBSET (1 .. k), NEW f
    PROVE  /\ \A from \in Nat : \A n \in 0 .. k : FeedIn(log', from, n) = FeedIn(log, from, n)
           /\ RecordedIn(log', b, f) = RecordedIn(log, b, f)
           /\ KeptIn(log', b, f, r) = KeptIn(log, b, f, r)
           /\ ShownIn(log', b, f) = ShownIn(log, b, f)
<1>1. ASSUME NEW from \in Nat, NEW n \in 0 .. k PROVE FeedIn(log', from, n) = FeedIn(log, from, n)
  <2>1. \A p \in from + 1 .. n : \A q \in p + 1 .. n : p \in 1 .. k /\ q \in 1 .. k
    OBVIOUS
  <2> QED
    BY <2>1 DEF FeedIn
<1>2. RecordedIn(log', b, f) = RecordedIn(log, b, f)
  <2>1. \A u : {p \in b : log'[p] = u} = {p \in b : log[p] = u}
    OBVIOUS
  <2>2. \A u : (\E p \in b : log'[p] = u) <=> (\E p \in b : log[p] = u)
    OBVIOUS
  <2>3. \A u : (CHOOSE p \in b : log'[p] = u) = (CHOOSE p \in b : log[p] = u)
    OBVIOUS
  <2> QED
    BY <2>2, <2>3 DEF RecordedIn
<1>3. ChangedIn(log', b, f) = ChangedIn(log, b, f)
  BY DEF ChangedIn
<1>4. ChangedIn(log, b, f) \subseteq 1 .. k
  BY DEF ChangedIn
<1>5. KeptIn(log', b, f, r) = KeptIn(log, b, f, r)
  BY <1>3, <1>4 DEF KeptIn
<1>6. ShownIn(log', b, f) = ShownIn(log, b, f)
  BY <1>3, <1>4 DEF ShownIn
<1> QED
  BY <1>1, <1>2, <1>5, <1>6

\* One more change on record: the fingerprints.
LEMMA OneMoreRecorded ==
    ASSUME NEW f \in [Units -> Nat], NEW d, NEW p \in Nat, log[p] \in Units,
           \A q \in d : log[q] # log[p]
    PROVE  /\ RecordedIn(log, d, f)[log[p]] = f[log[p]]
           /\ RecordedIn(log, d \cup {p}, f) = [RecordedIn(log, d, f) EXCEPT ![log[p]] = p]
<1> DEFINE R == RecordedIn(log, d, f)
           S == RecordedIn(log, d \cup {p}, f)
<1>1. R[log[p]] = f[log[p]]
  BY DEF RecordedIn
<1>2. S[log[p]] = p
  <2>1. \E q \in d \cup {p} : log[q] = log[p]
    OBVIOUS
  <2>2. (CHOOSE q \in d \cup {p} : log[q] = log[p]) = p
    BY <2>1
  <2> QED
    BY <2>1, <2>2 DEF RecordedIn
<1>3. ASSUME NEW u \in Units, u # log[p] PROVE S[u] = R[u]
  <2>1. \A q : (q \in d \cup {p} /\ log[q] = u) <=> (q \in d /\ log[q] = u)
    BY <1>3
  <2>2. (CHOOSE q \in d \cup {p} : log[q] = u) = (CHOOSE q \in d : log[q] = u)
    BY <2>1
  <2> QED
    BY <1>3, <2>1, <2>2 DEF RecordedIn
<1>4. DOMAIN R = Units /\ DOMAIN S = Units
      /\ R = [u \in Units |-> R[u]] /\ S = [u \in Units |-> S[u]]
  BY DEF RecordedIn
<1> HIDE DEF R, S
<1>5. S = [R EXCEPT ![log[p]] = p]
  BY <1>2, <1>3, <1>4
<1> QED
  BY <1>1, <1>5 DEF R, S

\* And the chunk rows kept.
LEMMA OneMoreKept ==
    ASSUME NEW f, NEW d, NEW p, NEW r
    PROVE  \A q : q \in KeptIn(log, d \cup {p}, f, r) <=>
               q \in KeptIn(log, d, f, r) /\ (f[log[p]] = p \/ log[q] # log[p])
<1>1. CASE f[log[p]] = p
  <2>1. ChangedIn(log, d \cup {p}, f) = ChangedIn(log, d, f)
    BY <1>1 DEF ChangedIn
  <2> QED
    BY <1>1, <2>1 DEF KeptIn
<1>2. CASE f[log[p]] # p
  <2>1. ChangedIn(log, d \cup {p}, f) = ChangedIn(log, d, f) \cup {p}
    BY <1>2 DEF ChangedIn
  <2> QED
    BY <1>2, <2>1 DEF KeptIn
<1> QED
  BY <1>1, <1>2

\* With the connection for itself the poller's transaction is open where it
\* thinks so, and nothing is pending outside.
Open == {"units", "checkpoint", "commit", "rollback"}

Busy == {"manifest", "ensure", "begin", "units", "checkpoint", "commit"}

Control ==
    /\ pc["poller"] \in PollerSteps
    /\ tx <=> pc["poller"] \in Open
    /\ ~tx => db = durable

\* What was exported: a prefix of the feed after the durable checkpoint.
Taken ==
    /\ since = durable.cursor
    /\ \E n \in 0 .. Len(log) :
          /\ batch \subseteq FeedIn(log, since, n)
          /\ batch # {} => batch = {p \in FeedIn(log, since, n) : p <= Last(batch)}
    /\ fresh = ShownIn(log, batch, durable.fp)

\* What the transaction has done by the step it is at.
Recording ==
    LET done(b, shown, c) ==
            /\ db.fp = RecordedIn(log, b, durable.fp)
            /\ db.rows = KeptIn(log, b, durable.fp, durable.rows) \cup shown
            /\ db.cursor = c
    IN /\ pc["poller"] = "units" => done(batch \ todo, {}, since)
       /\ pc["poller"] = "checkpoint" => done(batch, fresh, since)
       /\ pc["poller"] = "commit" =>
              done(batch, fresh, IF batch = {} THEN since ELSE Last(batch))

AloneInv ==
    /\ IInv
    /\ Control
    /\ durable.rows \subseteq DOMAIN log
    /\ pc["poller"] \in Busy => Taken
    /\ Recording
-----------------------------------------------------------------------------
\* The steps there are when the poller is alone.
LEMMA AloneCases ==
    ASSUME Threads = {"poller"}, TypeOK, [Next]_vars
    PROVE  \/ UNCHANGED vars
           \/ \E u \in Units : Publish(u)
           \/ Export
           \/ ApplyManifest
           \/ EnsureTables("poller")
           \/ BeginBatch
           \/ WriteUnit
           \/ WriteChunks
           \/ WriteCheckpoint
           \/ CommitBatch
           \/ RollbackBatch
           \/ RecordError
           \/ Fail("poller")
           \/ Crash
<1>1. ~Indexer /\ ~(\E f \in Files : StartFile(f))
  BY DEF Indexer, StartFile, At, EnsureTables, BeginCleanUp, DropHolder, DropChunk, AddChunk,
         AddHolder, SaveFingerprint, Statement, CommitCleanUp, CommitInsert, CommitFile,
         BeginInsert, RollbackFile, CommitFingerprint, EmbedFile
<1> QED
  BY <1>1 DEF Next, Environment, Poller

\* Each step keeps where the lone poller can be, with a transaction open or not.
LEMMA ControlStep ==
    ASSUME Threads = {"poller"}, TypeOK, Control, [Next]_vars
    PROVE  Control' /\ (durable' = durable \/ CommitBatch)
<1>0. pc \in [{"poller"} -> PollerSteps \cup IndexerSteps]
  BY DEF TypeOK
<1>1. CASE UNCHANGED vars \/ \E u \in Units : Publish(u)
  BY <1>1 DEF Control, vars, connection, Publish
<1>2. CASE Export \/ ApplyManifest \/ EnsureTables("poller")
  BY <1>0, <1>2
     DEF Control, PollerSteps, Open, connection, At, Go, Export, Exported, ApplyManifest,
         EnsureTables, CommitAny
<1>3. CASE BeginBatch
  BY <1>0, <1>3 DEF Control, PollerSteps, Open, connection, At, Go, BeginBatch, Begin
<1>4. CASE WriteUnit \/ WriteChunks \/ WriteCheckpoint
  BY <1>0, <1>4
     DEF Control, PollerSteps, Open, At, Go, WriteUnit, RecordUnit, WriteChunks,
         WriteCheckpoint, CheckpointAt, Execute
<1>5. CASE CommitBatch
  BY <1>0, <1>5 DEF Control, PollerSteps, Open, connection, At, Go, CommitBatch, Commit
<1>6. CASE RollbackBatch \/ RecordError
  BY <1>0, <1>6
     DEF Control, PollerSteps, Open, connection, At, Go, RollbackBatch, RecordError, Rollback,
         CommitAny
<1>7. CASE Fail("poller")
  BY <1>0, <1>7 DEF Control, PollerSteps, Open, connection, Go, Fail, InTry
<1>8. CASE Crash
  BY <1>0, <1>8 DEF Control, PollerSteps, Open, Crash, Reopened
<1> QED
  BY <1>1, <1>2, <1>3, <1>4, <1>5, <1>6, <1>7, <1>8, AloneCases

\* Without a change nothing is recorded.
LEMMA NothingRecorded ==
    ASSUME NEW l, NEW f \in [Units -> Nat], NEW r
    PROVE  RecordedIn(l, {}, f) = f /\ KeptIn(l, {}, f, r) = r /\ ShownIn(l, {}, f) = {}
BY DEF RecordedIn, KeptIn, ShownIn, ChangedIn

\* A new change at the source concerns none of what was taken before.
LEMMA PublishAlone ==
    ASSUME Threads = {"poller"}, AloneInv, NEW u \in Units, Publish(u), IInv', Control'
    PROVE  AloneInv'
<1>1. /\ Len(log) \in Nat /\ Len(log') = Len(log) + 1 /\ log' \in Seq(Units)
      /\ DOMAIN log = 1 .. Len(log) /\ DOMAIN log' = 1 .. Len(log')
      /\ \A p \in 1 .. Len(log) : log'[p] = log[p]
  BY Places DEF AloneInv, IInv, TypeOK, Publish
<1>2. UNCHANGED <<db, durable, pc, batch, fresh, todo, since>>
  BY DEF Publish, connection, job
<1>3. /\ batch \in SUBSET (1 .. Len(log)) /\ batch \ todo \in SUBSET (1 .. Len(log))
      /\ durable.rows \in SUBSET (1 .. Len(log)) /\ since \in Nat
  BY <1>1 DEF AloneInv, IInv, TypeOK
<1>4. /\ \A n \in 0 .. Len(log) : FeedIn(log', since, n) = FeedIn(log, since, n)
      /\ ShownIn(log', batch, durable.fp) = ShownIn(log, batch, durable.fp)
      /\ \A b \in {batch, batch \ todo} :
            /\ RecordedIn(log', b, durable.fp) = RecordedIn(log, b, durable.fp)
            /\ KeptIn(log', b, durable.fp, durable.rows) = KeptIn(log, b, durable.fp, durable.rows)
  <2>1. ASSUME NEW b \in SUBSET (1 .. Len(log))
        PROVE  /\ \A n \in 0 .. Len(log) : FeedIn(log', since, n) = FeedIn(log, since, n)
               /\ RecordedIn(log', b, durable.fp) = RecordedIn(log, b, durable.fp)
               /\ KeptIn(log', b, durable.fp, durable.rows)
                    = KeptIn(log, b, durable.fp, durable.rows)
               /\ ShownIn(log', b, durable.fp) = ShownIn(log, b, durable.fp)
    <3>1. Len(log) \in Nat /\ \A p \in 1 .. Len(log) : log'[p] = log[p]
      BY <1>1
    <3>2. durable.rows \in SUBSET (1 .. Len(log)) /\ since \in Nat
      BY <1>3
    <3> DEFINE k == Len(log)
    <3> HIDE DEF k
    <3>3. /\ \A from \in Nat : \A n \in 0 .. k : FeedIn(log', from, n) = FeedIn(log, from, n)
          /\ RecordedIn(log', b, durable.fp) = RecordedIn(log, b, durable.fp)
          /\ KeptIn(log', b, durable.fp, durable.rows)
               = KeptIn(log, b, durable.fp, durable.rows)
          /\ ShownIn(log', b, durable.fp) = ShownIn(log, b, durable.fp)
      <4>1. k \in Nat /\ \A p \in 1 .. k : log'[p] = log[p]
        BY <3>1 DEF k
      <4>2. b \in SUBSET (1 .. k) /\ durable.rows \in SUBSET (1 .. k)
        BY <3>2 DEF k
      <4> QED
        BY <4>1, <4>2, SameOnPrefix
    <3> QED
      BY <3>2, <3>3 DEF k
  <2> QED
    BY <1>3, <2>1
<1>5. Taken => Taken'
  <2> SUFFICES ASSUME Taken PROVE Taken'
    OBVIOUS
  <2>1. PICK n \in 0 .. Len(log) :
          /\ batch \subseteq FeedIn(log, since, n)
          /\ batch # {} => batch = {p \in FeedIn(log, since, n) : p <= Last(batch)}
    BY DEF Taken
  <2>2. n \in 0 .. Len(log')
    BY <1>1
  <2> QED
    BY <1>2, <1>4, <2>1, <2>2 DEF Taken
<1>6. Recording'
  BY <1>2, <1>4 DEF AloneInv, Recording
<1>7. durable'.rows \subseteq DOMAIN log'
  BY <1>1, <1>2, <1>3
<1> QED
  BY <1>2, <1>5, <1>6, <1>7 DEF AloneInv
\* An export takes a prefix of the feed.
LEMMA ExportTaken ==
    ASSUME Threads = {"poller"}, AloneInv, Export, IInv', Control'
    PROVE  AloneInv'
<1>1. /\ UNCHANGED <<db, durable, tx, log>>
      /\ since' = db.cursor
      /\ batch' = {p \in Feed(db.cursor) :
                      Cardinality({q \in Feed(db.cursor) : q < p}) < Limit}
      /\ fresh' = {p \in batch' \cap {p \in DOMAIN log : db.fp[log[p]] # p} :
                      log[p] \notin Hidden}
      /\ pc'["poller"] \in {"begin", "manifest"}
  <2>1. pc \in [{"poller"} -> PollerSteps \cup IndexerSteps]
    BY DEF AloneInv, IInv, TypeOK
  <2> QED
    BY <2>1 DEF Export, Exported, connection, Go
<1>2. db = durable
  BY DEF AloneInv, Control, Export, Exported, At, Open
<1>3. /\ Len(log) \in Nat /\ DOMAIN log = 1 .. Len(log) /\ durable.cursor \in Nat
      /\ batch' \subseteq DOMAIN log
  <2>1. batch' \subseteq DOMAIN log'
    BY DEF IInv, TypeOK
  <2> QED
    BY <1>1, <2>1, Places DEF AloneInv, IInv, TypeOK, Database
<1>4. Feed(durable.cursor) = FeedIn(log, durable.cursor, Len(log))
  BY DEF Feed, Superseded, FeedIn
<1>5. /\ since' = durable.cursor
      /\ batch' \subseteq FeedIn(log, since', Len(log))
  BY <1>1, <1>2, <1>4
<1>6. ASSUME batch' # {} PROVE batch' = {p \in FeedIn(log, since', Len(log)) : p <= Last(batch')}
  <2>1. Last(batch') \in batch' /\ \A q \in batch' : q <= Last(batch')
    BY <1>3, <1>6, LastIn DEF AloneInv, IInv
  <2>2. ASSUME NEW p \in Feed(durable.cursor), p <= Last(batch') PROVE p \in batch'
    BY <1>1, <1>2, <1>3, <2>1, <2>2, BatchIsPrefix DEF AloneInv, IInv
  <2> QED
    BY <1>4, <1>5, <2>1, <2>2
<1>7. fresh' = ShownIn(log, batch', durable.fp)
  BY <1>1, <1>2, <1>3 DEF ShownIn, ChangedIn
<1>8. Taken'
  <2>1. Len(log) \in 0 .. Len(log')
    BY <1>1, <1>3
  <2>2. \E n \in 0 .. Len(log') :
          /\ batch' \subseteq FeedIn(log', since', n)
          /\ batch' # {} => batch' = {p \in FeedIn(log', since', n) : p <= Last(batch')}
    BY <1>1, <1>5, <1>6, <2>1
  <2>3. since' = durable'.cursor /\ fresh' = ShownIn(log', batch', durable'.fp)
    BY <1>1, <1>5, <1>7
  <2> QED
    BY <2>2, <2>3 DEF Taken
<1>9. Recording' /\ durable'.rows \subseteq DOMAIN log'
  BY <1>1 DEF AloneInv, Recording
<1> QED
  BY <1>8, <1>9 DEF AloneInv

\* A batch has no two changes of one unit.
LEMMA TakenOnce ==
    ASSUME TypeOK, Taken, NEW p \in batch, NEW q \in batch, log[p] = log[q]
    PROVE  p = q
<1>1. PICK n \in 0 .. Len(log) : batch \subseteq FeedIn(log, since, n)
  BY DEF Taken
<1>2. /\ p \in since + 1 .. n /\ q \in since + 1 .. n
      /\ \A r \in p + 1 .. n : log[r] # log[p]
      /\ \A r \in q + 1 .. n : log[r] # log[q]
  BY <1>1 DEF FeedIn
<1>3. since \in Nat /\ n \in Nat /\ p \in Nat /\ q \in Nat
  BY <1>2, Places DEF TypeOK
<1> QED
  BY <1>2, <1>3

\* BEGIN has nothing on record yet.
LEMMA BeginRecording ==
    ASSUME Threads = {"poller"}, AloneInv, BeginBatch
    PROVE  Recording'
<1>1. /\ pc \in [{"poller"} -> PollerSteps \cup IndexerSteps]
      /\ durable.fp \in [Units -> Nat]
      /\ pc["poller"] = "begin" /\ ~tx /\ db = durable
  BY DEF AloneInv, IInv, TypeOK, Control, Open, BeginBatch, At, Database
<1>2. /\ UNCHANGED <<db, durable, log, batch, fresh, since>>
      /\ todo' = batch
      /\ pc'["poller"] = IF batch = {} THEN "checkpoint" ELSE "units"
  BY <1>1 DEF BeginBatch, Begin, Go
<1>3. since = durable.cursor /\ fresh = ShownIn(log, batch, durable.fp)
  BY <1>1 DEF AloneInv, Busy, Taken
<1>4. /\ RecordedIn(log, {}, durable.fp) = durable.fp
      /\ KeptIn(log, {}, durable.fp, durable.rows) = durable.rows
      /\ ShownIn(log, {}, durable.fp) = {}
  BY <1>1, NothingRecorded
<1>5. CASE batch = {}
  BY <1>1, <1>2, <1>3, <1>4, <1>5 DEF Recording
<1>6. CASE batch # {}
  <2>1. batch \ todo' = {}
    BY <1>2
  <2> QED
    BY <1>1, <1>2, <1>3, <1>4, <1>6, <2>1 DEF Recording
<1> QED
  BY <1>5, <1>6

\* Each unit adds its change to what is on record.
LEMMA UnitRecording ==
    ASSUME Threads = {"poller"}, AloneInv, WriteUnit
    PROVE  Recording'
<1> DEFINE p == First(todo)
           d == batch \ todo
           f == durable.fp
           r == durable.rows
<1>1. /\ pc["poller"] = "units" /\ todo # {} /\ tx
      /\ db.fp = RecordedIn(log, d, f)
      /\ db.rows = KeptIn(log, d, f, r)
      /\ db.cursor = since
      /\ Taken /\ TypeOK
  BY DEF AloneInv, IInv, Control, Recording, Open, Busy, WriteUnit, RecordUnit, At
<1>2. UNCHANGED <<durable, log, pc, batch, since>> /\ todo' = todo \ {p}
  BY <1>1 DEF WriteUnit, RecordUnit, Execute
<1>3. db' = IF db.fp[log[p]] = p THEN db
            ELSE [db EXCEPT !.fp[log[p]] = p, !.rows = {q \in db.rows : log[q] # log[p]}]
  BY DEF WriteUnit, RecordUnit, Execute
<1>4. p \in todo /\ todo \subseteq batch /\ batch \subseteq DOMAIN log
  BY <1>1, FirstIn DEF TypeOK
<1>5. p \notin d /\ log[p] \in Units /\ p \in Nat /\ f \in [Units -> Nat]
  <2>1. p \in DOMAIN log /\ p \notin d
    BY <1>4
  <2>2. durable.fp \in [Units -> Nat]
    BY <1>1 DEF TypeOK, Database
  <2> QED
    BY <1>1, <2>1, <2>2, Places
<1>6. \A q \in d : log[q] # log[p]
  BY <1>1, <1>4, <1>5, TakenOnce
<1>7. batch \ todo' = d \cup {p}
  BY <1>2, <1>4
<1>8. db \in Database
  BY <1>1 DEF TypeOK
<1> HIDE DEF p, d, f, r
<1>9. /\ RecordedIn(log, d, f)[log[p]] = f[log[p]]
      /\ RecordedIn(log, d \cup {p}, f) = [RecordedIn(log, d, f) EXCEPT ![log[p]] = p]
  BY <1>5, <1>6, OneMoreRecorded
<1>10. \A q : q \in KeptIn(log, d \cup {p}, f, r) <=>
              q \in KeptIn(log, d, f, r) /\ (f[log[p]] = p \/ log[q] # log[p])
  BY OneMoreKept
<1>11. /\ db'.fp = RecordedIn(log, d \cup {p}, f)
       /\ db'.rows = KeptIn(log, d \cup {p}, f, r)
       /\ db'.cursor = since
  <2>1. CASE f[log[p]] = p
    <3>1. db' = db
      BY <1>1, <1>3, <1>9, <2>1
    <3>2. [db.fp EXCEPT ![log[p]] = p] = db.fp
      BY <1>1, <1>8, <1>9, <2>1 DEF Database
    <3> QED
      <4>1. db'.fp = RecordedIn(log, d \cup {p}, f)
        BY <1>1, <1>9, <2>1, <3>1, <3>2
      <4>2. db'.rows = KeptIn(log, d \cup {p}, f, r)
        BY <1>1, <1>10, <2>1, <3>1
      <4> QED
        BY <1>1, <3>1, <4>1, <4>2
  <2>2. CASE f[log[p]] # p
    <3>1. /\ db'.fp = [db.fp EXCEPT ![log[p]] = p]
          /\ db'.rows = {q \in db.rows : log[q] # log[p]}
          /\ db'.cursor = db.cursor
      BY <1>1, <1>3, <1>8, <1>9, <2>2 DEF Database
    <3> QED
      BY <1>1, <1>9, <1>10, <2>2, <3>1
  <2> QED
    BY <2>1, <2>2
<1> QED
  BY <1>1, <1>2, <1>7, <1>11 DEF Recording, f, r

\* The chunk rows complete the batch, the checkpoint names it.
LEMMA ChunkRecording ==
    ASSUME Threads = {"poller"}, AloneInv, WriteChunks \/ WriteCheckpoint
    PROVE  Recording'
<1>0. /\ pc \in [{"poller"} -> PollerSteps \cup IndexerSteps]
      /\ db \in Database
  BY DEF AloneInv, IInv, TypeOK
<1>1. CASE WriteChunks
  <2>1. /\ pc["poller"] = "units" /\ todo = {} /\ tx /\ pc'["poller"] = "checkpoint"
        /\ UNCHANGED <<durable, log, batch, fresh, since>>
    BY <1>0, <1>1 DEF AloneInv, Control, Open, WriteChunks, At, Go, Execute, job
  <2>2. db'.fp = db.fp /\ db'.rows = db.rows \cup fresh /\ db'.cursor = db.cursor
    BY <1>0, <1>1 DEF WriteChunks, Execute, Database
  <2>3. batch \ todo = batch
    BY <2>1
  <2>4. /\ db.fp = RecordedIn(log, batch, durable.fp) /\ db.cursor = since
        /\ db.rows = KeptIn(log, batch, durable.fp, durable.rows)
    BY <2>1, <2>3 DEF AloneInv, Recording
  <2> QED
    BY <2>1, <2>2, <2>4 DEF Recording
<1>2. CASE WriteCheckpoint
  <2>1. /\ pc["poller"] = "checkpoint" /\ tx /\ pc'["poller"] = "commit"
        /\ UNCHANGED <<durable, log, batch, fresh, since>>
    BY <1>0, <1>2
       DEF AloneInv, Control, Open, WriteCheckpoint, CheckpointAt, At, Go, Execute, job
  <2>2. /\ db'.fp = db.fp /\ db'.rows = db.rows
        /\ db'.cursor = IF batch = {} THEN since ELSE Last(batch)
    BY <1>0, <1>2 DEF WriteCheckpoint, CheckpointAt, Execute, Database
  <2> QED
    BY <2>1, <2>2 DEF AloneInv, Recording
<1> QED
  BY <1>1, <1>2
\* COMMIT makes a whole batch durable, or nothing if the batch was empty.
LEMMA CommitIsIngest ==
    ASSUME Threads = {"poller"}, AloneInv, CommitBatch
    PROVE  /\ \/ UNCHANGED <<log, durable.fp, durable.rows, durable.cursor>>
              \/ \E n \in 0 .. Len(log) : \E c \in Promise!Feed(durable.cursor, n) :
                     Promise!Ingest(n, c)
           /\ durable'.rows \subseteq DOMAIN log
<1>1. /\ pc["poller"] = "commit" /\ tx /\ log' = log /\ durable' = db
      /\ durable.fp \in [Units -> Nat]
      /\ durable.rows \subseteq DOMAIN log /\ batch \subseteq DOMAIN log /\ fresh \subseteq batch
      /\ Taken /\ TypeOK
  BY DEF AloneInv, IInv, TypeOK, Control, Open, Busy, CommitBatch, Commit, At, Database
<1>2. /\ durable'.fp = RecordedIn(log, batch, durable.fp)
      /\ durable'.rows = KeptIn(log, batch, durable.fp, durable.rows) \cup fresh
      /\ durable'.cursor = IF batch = {} THEN since ELSE Last(batch)
      /\ since = durable.cursor
      /\ fresh = ShownIn(log, batch, durable.fp)
  BY <1>1 DEF AloneInv, Recording, Taken
<1>3. durable'.rows \subseteq DOMAIN log
  BY <1>1, <1>2 DEF KeptIn
<1>4. CASE batch = {}
  BY <1>1, <1>2, <1>3, <1>4, NothingRecorded
<1>5. CASE batch # {}
  <2>1. PICK n \in 0 .. Len(log) :
          /\ batch \subseteq FeedIn(log, since, n)
          /\ batch = {p \in FeedIn(log, since, n) : p <= Last(batch)}
    BY <1>1, <1>5 DEF Taken
  <2> DEFINE c == Last(batch)
  <2>2. Promise!Feed(durable.cursor, n) = FeedIn(log, since, n)
    BY <1>2, SameOperators
  <2>3. c \in Promise!Feed(durable.cursor, n)
    BY <1>1, <1>5, <2>1, <2>2, LastIn
  <2>4. batch = {p \in Promise!Feed(durable.cursor, n) : p <= c}
    BY <2>1, <2>2
  <2>5. /\ Promise!Recorded(batch, durable.fp) = RecordedIn(log, batch, durable.fp)
        /\ Promise!Indexed(batch, durable.fp, durable.rows)
             = KeptIn(log, batch, durable.fp, durable.rows) \cup ShownIn(log, batch, durable.fp)
    BY SameOperators
  <2>6. /\ durable'.fp = Promise!Recorded(batch, durable.fp)
        /\ durable'.rows = Promise!Indexed(batch, durable.fp, durable.rows)
        /\ durable'.cursor = c /\ log' = log
    BY <1>1, <1>2, <1>5, <2>5
  <2>7. Promise!Ingest(n, c)
    BY <2>4, <2>6 DEF Promise!Ingest
  <2> QED
    BY <1>3, <2>3, <2>7
<1> QED
  BY <1>4, <1>5

\* Each step keeps the invariant of the lone poller.
LEMMA AloneStep ==
    ASSUME Threads = {"poller"}, AloneInv, [Next]_vars
    PROVE  AloneInv'
<1>0. /\ IInv' /\ Control' /\ (durable' = durable \/ CommitBatch)
      /\ TypeOK /\ pc \in [{"poller"} -> PollerSteps \cup IndexerSteps]
  BY TypeStep, KnownStep, BatchStep, FreshStep, CursorStep, ControlStep
     DEF AloneInv, IInv, TypeOK
<1>1. ASSUME UNCHANGED <<durable, log, batch, fresh, since>>, pc["poller"] \in Busy
      PROVE  Taken' /\ durable'.rows \subseteq DOMAIN log'
  BY <1>1 DEF AloneInv, Taken
<1>2. CASE UNCHANGED vars
  <2>1. UNCHANGED <<db, durable, pc, log, batch, fresh, todo, since>>
    BY <1>2 DEF vars, connection, job
  <2> QED
    BY <1>0, <2>1 DEF AloneInv, Taken, Recording
<1>3. CASE \E u \in Units : Publish(u)
  BY <1>0, <1>3, PublishAlone
<1>4. CASE Export
  BY <1>0, <1>4, ExportTaken
<1>5. CASE ApplyManifest \/ EnsureTables("poller")
  <2>1. /\ UNCHANGED <<log, batch, fresh, since>>
        /\ pc["poller"] \in Busy /\ pc'["poller"] \in {"ensure", "begin"}
    BY <1>0, <1>5 DEF ApplyManifest, EnsureTables, At, Go, Busy, job
  <2>2. durable' = durable
    BY <1>0, <1>5 DEF ApplyManifest, EnsureTables, CommitBatch, At
  <2> QED
    BY <1>0, <1>1, <2>1, <2>2 DEF AloneInv, Recording
<1>6. CASE BeginBatch
  <2>1. UNCHANGED <<log, batch, fresh, since>> /\ pc["poller"] = "begin" /\ durable' = durable
    BY <1>0, <1>6 DEF BeginBatch, At, CommitBatch
  <2> QED
    BY <1>0, <1>1, <1>6, <2>1, BeginRecording DEF AloneInv, Busy
<1>7. CASE WriteUnit
  <2>1. UNCHANGED <<log, batch, fresh, since>> /\ pc["poller"] = "units" /\ durable' = durable
    BY <1>0, <1>7 DEF WriteUnit, RecordUnit, At, CommitBatch
  <2> QED
    BY <1>0, <1>1, <1>7, <2>1, UnitRecording DEF AloneInv, Busy
<1>8. CASE WriteChunks \/ WriteCheckpoint
  <2>1. /\ UNCHANGED <<log, batch, fresh, since>>
        /\ pc["poller"] \in {"units", "checkpoint"} /\ durable' = durable
    BY <1>0, <1>8 DEF WriteChunks, WriteCheckpoint, CheckpointAt, At, CommitBatch, job
  <2> QED
    BY <1>0, <1>1, <1>8, <2>1, ChunkRecording DEF AloneInv, Busy
<1>9. CASE CommitBatch \/ RollbackBatch \/ RecordError \/ Fail("poller") \/ Crash
  <2>1. pc'["poller"] \in {"idle", "rollback", "error"} /\ log' = log
    BY <1>0, <1>9 DEF CommitBatch, RollbackBatch, RecordError, Fail, Crash, Go
  <2>2. durable'.rows \subseteq DOMAIN log'
    BY <1>0, <2>1, CommitIsIngest DEF AloneInv
  <2> QED
    BY <1>0, <2>1, <2>2 DEF AloneInv, Busy, Recording
<1> QED
  BY <1>0, <1>2, <1>3, <1>4, <1>5, <1>6, <1>7, <1>8, <1>9, AloneCases

\* Each step of the lone poller is a step or a stutter of SourceFeed.
LEMMA FeedStep ==
    ASSUME Threads = {"poller"}, AloneInv, [Next]_vars
    PROVE  [Promise!Next]_Promise!promise
<1>1. CASE CommitBatch
  BY <1>1, CommitIsIngest DEF Promise!Next, Promise!promise
<1>2. CASE \E u \in Units : Publish(u)
  BY <1>2 DEF Publish, connection, Promise!Next, Promise!Publish
<1>3. CASE ~CommitBatch /\ ~(\E u \in Units : Publish(u))
  <2>1. durable' = durable
    BY <1>3, ControlStep DEF AloneInv, IInv
  <2>2. log' = log
    BY <1>3, AloneCases
       DEF AloneInv, IInv, vars, Export, Exported, ApplyManifest, EnsureTables, BeginBatch,
           WriteUnit, RecordUnit, WriteChunks, WriteCheckpoint, CheckpointAt,
           RollbackBatch, RecordError, Fail, Crash
  <2> QED
    BY <2>1, <2>2 DEF Promise!promise
<1> QED
  BY <1>1, <1>2, <1>3

\* The lone poller starts where SourceFeed does.
LEMMA FeedInit == Init => Promise!Init /\ (Threads = {"poller"} => AloneInv)
<1> SUFFICES ASSUME Init PROVE Promise!Init /\ (Threads = {"poller"} => AloneInv)
  OBVIOUS
<1>1. /\ IInv /\ ("poller" \in Threads => pc["poller"] = "idle") /\ ~tx /\ db = durable
      /\ durable = Empty /\ log = <<>>
  BY InitInvariant DEF Init, Opened
<1> QED
  BY <1>1
     DEF Promise!Init, AloneInv, Control, PollerSteps, Open, Busy, Recording, Empty

\* With the connection for itself the poller implements SourceFeed: each step
\* makes a whole batch durable, adds a change at the source, or is a stutter.
THEOREM IngestImplementsFeed ==
    ASSUME Threads = {"poller"} PROVE Spec => PromiseKept
<1>1. Init => Promise!Init /\ AloneInv
  BY FeedInit
<1>2. AloneInv /\ [Next]_vars => AloneInv'
  BY AloneStep
<1>3. AloneInv /\ [Next]_vars => [Promise!Next]_Promise!promise
  BY FeedStep
<1> QED
  BY <1>1, <1>2, <1>3, PTL DEF Spec, PromiseKept, Promise!Spec
-----------------------------------------------------------------------------
(* SourceFeed keeps the checkpoint behind what is on record, hence so does   *)
(* the lone poller.                                                          *)

\* A fingerprint on record is that of a change of its unit, which has its chunk
\* row; a change up to the checkpoint is on record unless overtaken.
Covered ==
    /\ durable.cursor <= Len(log)
    /\ \A u \in Units : durable.fp[u] # 0 =>
          /\ durable.fp[u] \in DOMAIN log
          /\ log[durable.fp[u]] = u
          /\ u \notin Hidden => durable.fp[u] \in durable.rows
    /\ \A p \in DOMAIN log : p <= durable.cursor /\ ~Superseded(p) => durable.fp[log[p]] = p

\* A batch of the feed keeps it: no unit is in a batch twice, so what the batch
\* leaves alone stays on record, and what it skips was on record already.
LEMMA IngestCovers ==
    ASSUME TypeOK, TypeOK', Covered,
           NEW n \in 0 .. Len(log), NEW c \in Promise!Feed(durable.cursor, n),
           Promise!Ingest(n, c)
    PROVE  Covered'
<1> DEFINE b == {p \in Promise!Feed(durable.cursor, n) : p <= c}
<1>1. /\ Len(log) \in Nat /\ DOMAIN log = 1 .. Len(log) /\ log' = log
      /\ \A p \in DOMAIN log : log[p] \in Units
      /\ durable.cursor \in Nat /\ durable.fp \in [Units -> Nat]
  <2>1. log' = log
    BY DEF Promise!Ingest
  <2>2. durable.cursor \in Nat /\ durable.fp \in [Units -> Nat]
    BY DEF TypeOK, Database
  <2> QED
    BY <2>1, <2>2, Places
<1>2. /\ durable'.fp = RecordedIn(log, b, durable.fp)
      /\ durable'.rows = KeptIn(log, b, durable.fp, durable.rows) \cup ShownIn(log, b, durable.fp)
      /\ durable'.cursor = c
  <2>1. /\ durable'.fp = Promise!Recorded(b, durable.fp)
        /\ durable'.rows = Promise!Indexed(b, durable.fp, durable.rows)
        /\ durable'.cursor = c
    BY DEF Promise!Ingest
  <2> HIDE DEF b
  <2>2. Promise!Recorded(b, durable.fp) = RecordedIn(log, b, durable.fp)
    BY SameOperators
  <2>3. Promise!Indexed(b, durable.fp, durable.rows)
          = KeptIn(log, b, durable.fp, durable.rows) \cup ShownIn(log, b, durable.fp)
    BY SameOperators
  <2> QED
    BY <2>1, <2>2, <2>3
<1>3. b = {p \in FeedIn(log, durable.cursor, n) : p <= c} /\ c \in b
  <2>1. Promise!Feed(durable.cursor, n) = FeedIn(log, durable.cursor, n)
    BY SameOperators
  <2>2. c \in FeedIn(log, durable.cursor, n) /\ b = {p \in FeedIn(log, durable.cursor, n) : p <= c}
    BY <2>1
  <2>3. c \in Int
    BY <1>1, <2>2 DEF FeedIn
  <2> QED
    BY <2>2, <2>3
<1>4. /\ b \subseteq DOMAIN log
      /\ \A p \in b : p > durable.cursor /\ p <= n /\ p # 0
      /\ \A p, q \in b : log[p] = log[q] => p = q
  <2>1. ASSUME NEW p \in b
        PROVE  /\ p \in Int /\ p > durable.cursor /\ p <= n /\ p # 0 /\ p \in DOMAIN log
               /\ \A q \in p + 1 .. n : log[q] # log[p]
    BY <1>1, <1>3 DEF FeedIn
  <2>2. ASSUME NEW p \in b, NEW q \in b, log[p] = log[q] PROVE p = q
    BY <2>1, <2>2
  <2> QED
    BY <2>1, <2>2
<1>5. ASSUME NEW p \in b
      PROVE  /\ durable'.fp[log[p]] = p
             /\ log[p] \notin Hidden => p \in durable'.rows
  <2>1. durable'.fp[log[p]] = p
    BY <1>1, <1>2, <1>4, <1>5 DEF RecordedIn
  <2>2. CASE durable.fp[log[p]] # p
    BY <1>2, <1>5, <2>1, <2>2 DEF ShownIn, ChangedIn
  <2>3. CASE durable.fp[log[p]] = p
    <3>1. log[p] \notin Hidden => p \in durable.rows
      BY <1>1, <1>4, <2>3 DEF Covered
    <3>2. \A q \in ChangedIn(log, b, durable.fp) : log[q] # log[p]
      BY <1>4, <2>3 DEF ChangedIn
    <3> QED
      BY <1>2, <2>1, <3>1, <3>2 DEF KeptIn
  <2> QED
    BY <2>2, <2>3, <2>1
<1>6. ASSUME NEW u \in Units, \A p \in b : log[p] # u
      PROVE  /\ durable'.fp[u] = durable.fp[u]
             /\ \A q \in durable.rows : log[q] = u => q \in durable'.rows
  BY <1>2, <1>6 DEF RecordedIn, KeptIn, ChangedIn
<1>7. durable'.cursor <= Len(log')
  BY <1>1, <1>2, <1>3, <1>4
<1>8. ASSUME NEW u \in Units, durable'.fp[u] # 0
      PROVE  /\ durable'.fp[u] \in DOMAIN log'
             /\ log'[durable'.fp[u]] = u
             /\ u \notin Hidden => durable'.fp[u] \in durable'.rows
  <2>1. CASE \E p \in b : log[p] = u
    BY <1>1, <1>4, <1>5, <2>1
  <2>2. CASE \A p \in b : log[p] # u
    BY <1>1, <1>6, <1>8, <2>2 DEF Covered
  <2> QED
    BY <2>1, <2>2
<1>9. ASSUME NEW p \in DOMAIN log, p <= c, ~Superseded(p)
      PROVE  durable'.fp[log[p]] = p
  <2>1. \A q \in p + 1 .. Len(log) : log[q] # log[p]
    BY <1>9 DEF Superseded
  <2>2. CASE p \in b
    BY <1>5, <2>2
  <2>3. CASE p > durable.cursor
    <3>1. p \in FeedIn(log, durable.cursor, n)
      BY <1>1, <1>3, <1>4, <1>9, <2>1, <2>3 DEF FeedIn
    <3> QED
      BY <1>3, <1>9, <2>2, <3>1
  <2>4. CASE p <= durable.cursor
    <3>1. \A q \in b : log[q] # log[p]
      BY <1>1, <1>4, <2>1, <2>4
    <3>2. durable.fp[log[p]] = p
      BY <1>9, <2>4 DEF Covered
    <3> QED
      BY <1>1, <1>6, <3>1, <3>2
  <2> QED
    BY <1>1, <2>3, <2>4
<1> QED
  BY <1>1, <1>2, <1>7, <1>8, <1>9 DEF Covered, Superseded

\* So does every step of SourceFeed.
LEMMA CoveredStep ==
    ASSUME TypeOK, TypeOK', Covered, [Promise!Next]_Promise!promise
    PROVE  Covered'
<1>1. CASE UNCHANGED Promise!promise
  BY <1>1 DEF Covered, Superseded, Promise!promise
<1>2. ASSUME NEW u \in Units, Promise!Publish(u) PROVE Covered'
  <2>1. /\ Len(log) \in Nat /\ DOMAIN log = 1 .. Len(log)
        /\ Len(log') = Len(log) + 1 /\ DOMAIN log' = 1 .. Len(log')
        /\ \A p \in DOMAIN log : log'[p] = log[p]
        /\ \A p \in DOMAIN log : log[p] \in Units
        /\ durable.cursor \in Nat
    <3>1. log \in Seq(Units) /\ log' = Append(log, u) /\ durable.cursor \in Nat
      BY <1>2, Places DEF TypeOK, Database, Promise!Publish
    <3> QED
      BY <3>1
  <2>2. /\ durable'.fp = durable.fp /\ durable'.rows = durable.rows
        /\ durable'.cursor = durable.cursor
    BY <1>2 DEF Promise!Publish
  <2>3. ASSUME NEW p \in DOMAIN log', p <= durable.cursor, ~Superseded(p)'
        PROVE  durable.fp[log'[p]] = p
    <3>1. p \in DOMAIN log
      BY <2>1, <2>3 DEF Covered
    <3>2. ~Superseded(p)
      BY <2>1, <2>3, <3>1 DEF Superseded
    <3> QED
      BY <2>1, <2>3, <3>1, <3>2 DEF Covered
  <2> QED
    BY <2>1, <2>2, <2>3 DEF Covered
<1>3. ASSUME NEW n \in 0 .. Len(log), NEW c \in Promise!Feed(durable.cursor, n),
             Promise!Ingest(n, c)
      PROVE  Covered'
  BY <1>3, IngestCovers
<1> QED
  BY <1>1, <1>2, <1>3 DEF Promise!Next

\* With the connection for itself the poller never checkpoints a change whose
\* fingerprint and chunk row are not durable with it.
THEOREM CheckpointIsOnRecord ==
    ASSUME Threads = {"poller"} PROVE Spec => []CheckpointCoversUnits
<1>1. Init => AloneInv /\ Covered
  BY FeedInit DEF Covered, Promise!Init, Superseded
<1>2. AloneInv /\ Covered /\ [Next]_vars => AloneInv' /\ Covered'
  BY AloneStep, FeedStep, CoveredStep DEF AloneInv, IInv
<1>3. AloneInv /\ Covered => CheckpointCoversUnits
  <2> SUFFICES ASSUME AloneInv, Covered,
                      NEW p \in DOMAIN log, p <= durable.cursor, ~Superseded(p)
               PROVE  durable.fp[log[p]] = p /\ (log[p] \notin Hidden => p \in durable.rows)
    BY DEF CheckpointCoversUnits
  <2>1. p # 0 /\ log[p] \in Units
    BY Places DEF AloneInv, IInv, TypeOK
  <2> QED
    BY <2>1 DEF Covered
<1> QED
  BY <1>1, <1>2, <1>3, PTL DEF Spec
=============================================================================
