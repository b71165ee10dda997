-------------------------- MODULE FileIndexProofs --------------------------
(***************************************************************************)
(* Proofs about FileIndex, for every set of notes, bodies and chunks and   *)
(* every number of edits, crashes and failures.                            *)
(***************************************************************************)
EXTENDS FileIndex, TLAPS

\* A call of index_file never overlaps the purges of a scan, and a scan only
\* indexes notes it has discovered.
ScanOrder ==
    /\ scan # "work" => gone = {} /\ todo = {}
    /\ \A f \in todo : found[f] # None
    /\ mode \in {"down", "stopped", "watch"} => scan = "discover"
    /\ job # NoJob => gone = {} /\ (mode = "watch" \/ scan = "work")

\* What a call has done by the step it is at: the path holds nothing once it
\* has let go, then the chunks of the version that was read, and they are in
\* the index when the embed phase is over, unless the resume state kept them
\* from the store.
JobProgress ==
    job # NoJob =>
        /\ job.step = "read" => HeldBy(job.file) = {} /\ job.body = None
        /\ job.step = "diff" => job.body = None
        /\ job.step \in {"graph", "chunk fingerprint"} => job.body # None
        /\ job.step # "read" /\ job.body # None => HeldBy(job.file) = ChunksOf[job.body]
        /\ job.step = "meta fingerprint" => HeldBy(job.file) \subseteq index \cup missed

IInv == TypeOK /\ RowsMatchHolders /\ ScanOrder /\ JobProgress
-----------------------------------------------------------------------------
\* The chunks of a body on disk are chunks.
LEMMA ChunksOfDisk ==
    ASSUME TypeOK, NEW f \in Files, Present(f)
    PROVE  /\ disk[f].body \in Bodies
           /\ disk[f].meta \in Metas
           /\ disk[f].body # None
           /\ ChunksOf[disk[f].body] \subseteq Chunks
BY FileIndexAssumption DEF TypeOK, Present, Contents

\* A call in progress is a record of its fields.
LEMMA JobType ==
    ASSUME TypeOK, job # NoJob
    PROVE  job \in [file : Files, meta : Metas \cup {Bare}, step : Steps,
                    body : Bodies \cup {None}]
BY DEF TypeOK

\* A hazard is spent from its own allowance.
LEMMA SpendType ==
    ASSUME TypeOK, NEW h \in Hazards, Spend(h)
    PROVE  left' \in [Hazards -> Nat]
BY DEF TypeOK, Spend

\* The queue holds paths of notes.
LEMMA NotifyType ==
    ASSUME TypeOK, NEW f \in Files, Notify(f)
    PROVE  queue' \in Seq(Files) /\ recent' \subseteq Files
<1>1. CASE Working /\ f \notin recent
  <2>1. queue' = Append(queue, f) /\ recent' = recent \cup {f}
    BY <1>1 DEF Notify
  <2>2. queue \in Seq(Files) /\ recent \subseteq Files
    BY DEF TypeOK
  <2> QED
    BY <2>1, <2>2
<1>2. CASE ~(Working /\ f \notin recent)
  BY <1>2 DEF Notify, TypeOK
<1> QED
  BY <1>1, <1>2

\* The inductive invariant holds initially.
LEMMA InitOK == Init => IInv
<1> SUFFICES ASSUME Init PROVE IInv
  OBVIOUS
<1>1. TypeOK
  BY FileIndexAssumption DEF Init, TypeOK, NoScan
<1>2. RowsMatchHolders /\ ScanOrder /\ JobProgress
  BY DEF Init, RowsMatchHolders, ScanOrder, JobProgress
<1> QED
  BY <1>1, <1>2 DEF IInv
-----------------------------------------------------------------------------
\* Each step keeps the types.
LEMMA TypeStep == TypeOK /\ ScanOrder /\ [Next]_vars => TypeOK'
<1> SUFFICES ASSUME TypeOK /\ ScanOrder, [Next]_vars PROVE TypeOK'
  OBVIOUS
<1>1. CASE Start
  BY <1>1, SpendType DEF Start, Sweep, TypeOK, local, surreal, loop, Hazards
<1>2. CASE Discover
  BY <1>2, SpendType, FileIndexAssumption
     DEF Discover, TypeOK, local, surreal, loop, Present, Contents, Hazards
<1>3. CASE Diff
  BY <1>3 DEF Diff, TypeOK, local, surreal, loop, Tracked, Discovered
<1>4. CASE DiffRaises
  BY <1>4 DEF DiffRaises, TypeOK, local, surreal, loop, NoScan
<1>5. CASE FinishScan
  BY <1>5 DEF FinishScan, TypeOK, local, surreal, loop, NoScan
<1>6. CASE PurgeQueued
  <2>1. left' \in [Hazards -> Nat]
    BY <1>6, SpendType DEF PurgeQueued, TypeOK, Hazards
  <2> QED
    BY <1>6, <2>1 DEF PurgeQueued, TypeOK, local, surreal, loop, TombstoneChunks, Orphans
<1>7. CASE IndexQueued
  BY <1>7 DEF IndexQueued, TypeOK, local, surreal, loop, StartJob, Steps
<1>8. CASE Poll
  BY <1>8 DEF Poll, TypeOK, local, surreal, loop
<1>9. ASSUME NEW f \in Files, PurgeGone(f) PROVE TypeOK'
  BY <1>9, SpendType
     DEF PurgeGone, TypeOK, local, surreal, loop, TombstoneChunks, Orphans, Hazards
<1>10. ASSUME NEW f \in Files, IndexTodo(f) PROVE TypeOK'
  <2>1. found[f] \in Metas
    BY <1>10 DEF IndexTodo, ScanOrder, TypeOK
  <2> QED
    BY <1>10, <2>1 DEF IndexTodo, TypeOK, local, surreal, loop, StartJob, Steps
<1>11. CASE CleanUp
  BY <1>11, JobType, ChunksOfDisk
     DEF CleanUp, TypeOK, local, surreal, loop, JobDone, JobGoes, At, Steps
<1>12. CASE CheckMeta
  <2>1. job' = NoJob \/ \E s \in Steps : job' = [job EXCEPT !.step = s]
    BY <1>12 DEF CheckMeta, JobDone, JobGoes, Steps
  <2>2. job \in [file : Files, meta : Metas \cup {Bare}, step : Steps,
                 body : Bodies \cup {None}]
    BY <1>12, JobType DEF CheckMeta, At
  <2>3. job' \in [file : Files, meta : Metas \cup {Bare}, step : Steps,
                  body : Bodies \cup {None}] \cup {NoJob}
    BY <2>1, <2>2
  <2> QED
    BY <1>12, <2>3 DEF CheckMeta, TypeOK, local, surreal, loop
<1>13. CASE ReadAndInsert
  <2>1. job \in [file : Files, meta : Metas \cup {Bare}, step : Steps,
                 body : Bodies \cup {None}]
    BY <1>13, JobType DEF ReadAndInsert, At
  <2>2. /\ disk[job.file].body \in Bodies
        /\ ChunksOf[disk[job.file].body] \subseteq Chunks
    BY <1>13, <2>1, ChunksOfDisk DEF ReadAndInsert
  <2>3. held' \subseteq Files \X Chunks
    BY <1>13, <2>1, <2>2 DEF ReadAndInsert, TypeOK
  <2>4. chunks' \subseteq Chunks
    BY <1>13, <2>2 DEF ReadAndInsert, TypeOK
  <2>5. job' \in [file : Files, meta : Metas \cup {Bare}, step : Steps,
                  body : Bodies \cup {None}]
    BY <1>13, <2>1, <2>2 DEF ReadAndInsert, Steps
  <2> QED
    BY <1>13, <2>3, <2>4, <2>5 DEF ReadAndInsert, TypeOK, surreal, loop
<1>14. CASE WriteGraph
  BY <1>14, JobType, ChunksOfDisk
     DEF WriteGraph, GraphManifest, TypeOK, local, surreal, loop, JobDone, JobGoes, At,
         Steps
<1>15. CASE SaveChunkFingerprint
  BY <1>15, JobType, ChunksOfDisk
     DEF SaveChunkFingerprint, TypeOK, local, surreal, loop, JobDone, JobGoes,
         At, Steps
<1>16. CASE Embed
  BY <1>16, JobType, ChunksOfDisk, FileIndexAssumption
     DEF Embed, PutRows, RowPhases, TypeOK, local, surreal, loop, JobDone, JobGoes,
         At, Steps, JobChunks, HeldBy
<1>17. CASE SaveMetaFingerprint
  BY <1>17, JobType, ChunksOfDisk
     DEF SaveMetaFingerprint, TypeOK, local, surreal, loop, JobDone, JobGoes,
         At, Steps
<1>18. CASE WriteFrontmatter
  BY <1>18, JobType, ChunksOfDisk
     DEF WriteFrontmatter, GraphManifest, TypeOK, local, surreal, loop, JobDone,
         JobGoes, At, Steps
<1>19. CASE FileGone
  BY <1>19, JobType, ChunksOfDisk
     DEF FileGone, TypeOK, local, surreal, loop, JobDone, JobGoes, At, Steps
<1>20. CASE JobFails
  <2>1. left' \in [Hazards -> Nat] /\ job' = NoJob
    BY <1>20, SpendType DEF JobFails, JobDone, Hazards
  <2>2. /\ stored' \subseteq Chunks /\ vectors' \subseteq Chunks /\ missed' \subseteq Chunks
        /\ applied' \subseteq RowPhases \cup {"tombstones", "graph"}
        /\ tags' \in [Files -> Metas \cup {Bare, None}]
    <3>1. CASE UNCHANGED surreal
      BY <3>1 DEF surreal, TypeOK
    <3>2. CASE PutRows({"chunks"}) /\ UNCHANGED <<tags, missed>> /\ job # NoJob
      BY <3>2, JobType, FileIndexAssumption DEF PutRows, RowPhases, TypeOK, JobChunks, HeldBy
    <3>3. CASE PutRows(RowPhases) /\ UNCHANGED <<tags, missed>> /\ job # NoJob
      BY <3>3, JobType, FileIndexAssumption DEF PutRows, RowPhases, TypeOK, JobChunks, HeldBy
    <3>4. CASE GraphManifest /\ job # NoJob
      BY <3>4, JobType DEF GraphManifest, TypeOK
    <3> QED
      BY <1>20, <3>1, <3>2, <3>3, <3>4, Zenon DEF JobFails, At
  <2> QED
    BY <1>20, <2>1, <2>2 DEF JobFails, TypeOK, local, loop
<1>21. CASE Crash
  <2>1. left' \in [Hazards -> Nat]
    BY <1>21, SpendType DEF Crash, Hazards
  <2> QED
    BY <1>21, <2>1 DEF Crash, ProcessEnds, TypeOK, local, surreal, loop, JobDone, NoScan
<1>22. ASSUME NEW f \in Files, Delete(f) PROVE TypeOK'
  <2>1. left' \in [Hazards -> Nat]
    BY <1>22, SpendType DEF Delete, TypeOK, Hazards
  <2>2. queue' \in Seq(Files) /\ recent' \subseteq Files
    BY <1>22, NotifyType DEF Delete
  <2>3. disk' \in [Files -> Contents \cup {Absent}]
    BY <1>22 DEF Delete, TypeOK
  <2> QED
    BY <1>22, <2>1, <2>2, <2>3 DEF Delete, TypeOK, local, surreal, loop
<1>23. ASSUME NEW f \in Files, Settle(f) PROVE TypeOK'
  BY <1>23 DEF Settle, TypeOK, local, surreal, loop
<1>24. ASSUME NEW f \in Files, NEW v \in Contents, Write(f, v) PROVE TypeOK'
  <2>1. left' \in [Hazards -> Nat]
    BY <1>24, SpendType DEF Write, TypeOK, Hazards
  <2>2. queue' \in Seq(Files) /\ recent' \subseteq Files
    BY <1>24, NotifyType DEF Write
  <2>3. disk' \in [Files -> Contents \cup {Absent}]
    BY <1>24 DEF Write, TypeOK
  <2> QED
    BY <1>24, <2>1, <2>2, <2>3 DEF Write, TypeOK, local, surreal, loop
<1>25. CASE UNCHANGED vars
  BY <1>25 DEF TypeOK, local, surreal, loop, vars
<1>26. CASE Stop
  <2>1. left' \in [Hazards -> Nat]
    BY <1>26, SpendType DEF Stop, Hazards
  <2> QED
    BY <1>26, <2>1 DEF Stop, ProcessEnds, TypeOK, local, surreal, loop, JobDone, NoScan
<1> QED
  BY <1>1, <1>2, <1>3, <1>4, <1>5, <1>6, <1>7, <1>8, <1>9, <1>10, <1>11, <1>12,
     <1>13, <1>14, <1>15, <1>16, <1>17, <1>18, <1>19, <1>20, <1>21, <1>22,
     <1>23, <1>24, <1>25, <1>26
     DEF Next, Trickle, IndexFile, Environment

\* Each step keeps chunk rows and holders in agreement.
LEMMA RowsStep == TypeOK /\ RowsMatchHolders /\ [Next]_vars => RowsMatchHolders'
<1> SUFFICES ASSUME TypeOK /\ RowsMatchHolders, [Next]_vars PROVE RowsMatchHolders'
  OBVIOUS
<1>1. CASE Start
  BY <1>1 DEF Start, RowsMatchHolders, local
<1>2. CASE Discover
  BY <1>2 DEF Discover, RowsMatchHolders, local
<1>3. CASE Diff
  BY <1>3 DEF Diff, RowsMatchHolders, local
<1>4. CASE DiffRaises
  BY <1>4 DEF DiffRaises, RowsMatchHolders, local
<1>5. CASE FinishScan
  BY <1>5 DEF FinishScan, RowsMatchHolders, local
<1>6. CASE PurgeQueued
  BY <1>6 DEF PurgeQueued, RowsMatchHolders, local
<1>7. CASE IndexQueued
  BY <1>7 DEF IndexQueued, RowsMatchHolders, local
<1>8. CASE Poll
  BY <1>8 DEF Poll, RowsMatchHolders, local
<1>9. ASSUME NEW f \in Files, PurgeGone(f) PROVE RowsMatchHolders'
  BY <1>9 DEF PurgeGone, RowsMatchHolders, local
<1>10. ASSUME NEW f \in Files, IndexTodo(f) PROVE RowsMatchHolders'
  BY <1>10 DEF IndexTodo, RowsMatchHolders, local
<1>11. CASE CleanUp
  <2>1. job.file \in Files
    BY <1>11, JobType DEF CleanUp, At
  <2>2. ASSUME NEW c PROVE c \in Orphans(job.file) <=>
            /\ c \in Chunks /\ <<job.file, c>> \in held
            /\ \A h \in held : h[2] = c => h[1] = job.file
    <3>1. c \in Orphans(job.file) <=> c \in Chunks /\ Holders(c) = {job.file}
      BY DEF Orphans
    <3>2. Holders(c) = {job.file} <=>
            \A f \in Files : <<f, c>> \in held <=> f = job.file
      BY <2>1 DEF Holders
    <3>3. \A h \in held : h = <<h[1], h[2]>> /\ h[1] \in Files
      BY DEF TypeOK
    <3> QED
      BY <2>1, <3>1, <3>2, <3>3
  <2>3. ASSUME NEW c \in chunks' PROVE \E h \in held' : c = h[2]
    <3>1. PICK h \in held : c = h[2]
      BY <1>11, <2>3 DEF CleanUp, RowsMatchHolders
    <3>2. CASE h[1] # job.file
      BY <1>11, <3>1, <3>2 DEF CleanUp
    <3>3. CASE h[1] = job.file
      <4>1. h = <<job.file, c>> /\ c \in Chunks
        BY <3>1, <3>3 DEF TypeOK
      <4>2. c \notin Orphans(job.file)
        BY <1>11, <2>3 DEF CleanUp
      <4>3. PICK g \in held : g[2] = c /\ g[1] # job.file
        BY <2>2, <4>1, <4>2
      <4> QED
        BY <1>11, <4>3 DEF CleanUp
    <3> QED
      BY <3>2, <3>3
  <2>4. ASSUME NEW h \in held' PROVE h[2] \in chunks'
    <3>1. h \in held /\ h[1] # job.file
      BY <1>11, <2>4 DEF CleanUp
    <3> QED
      BY <1>11, <2>2, <3>1 DEF CleanUp, RowsMatchHolders
  <2> QED
    BY <2>3, <2>4 DEF RowsMatchHolders
<1>12. CASE CheckMeta
  BY <1>12 DEF CheckMeta, RowsMatchHolders, local
<1>13. CASE ReadAndInsert
  <2> DEFINE new == ChunksOf[disk[job.file].body]
             pairs == {<<job.file, c>> : c \in new}
  <2>1. held' = held \cup pairs /\ chunks' = chunks \cup new
    BY <1>13 DEF ReadAndInsert
  <2>2. new = {h[2] : h \in pairs}
    <3>1. ASSUME NEW c \in new PROVE c \in {h[2] : h \in pairs}
      <4>1. <<job.file, c>> \in pairs /\ <<job.file, c>>[2] = c
        OBVIOUS
      <4> QED
        BY <4>1
    <3>2. ASSUME NEW h \in pairs PROVE h[2] \in new
      OBVIOUS
    <3> QED
      BY <3>1, <3>2
  <2>3. chunks' = {h[2] : h \in held \cup pairs}
    BY <2>1, <2>2 DEF RowsMatchHolders
  <2> QED
    BY <2>1, <2>3 DEF RowsMatchHolders
<1>14. CASE WriteGraph
  BY <1>14 DEF WriteGraph, RowsMatchHolders, local
<1>15. CASE SaveChunkFingerprint
  BY <1>15 DEF SaveChunkFingerprint, RowsMatchHolders, local
<1>16. CASE Embed
  BY <1>16 DEF Embed, RowsMatchHolders, local
<1>17. CASE SaveMetaFingerprint
  BY <1>17 DEF SaveMetaFingerprint, RowsMatchHolders, local
<1>18. CASE WriteFrontmatter
  BY <1>18 DEF WriteFrontmatter, RowsMatchHolders, local
<1>19. CASE FileGone
  BY <1>19 DEF FileGone, RowsMatchHolders, local
<1>20. CASE JobFails
  BY <1>20 DEF JobFails, RowsMatchHolders, local
<1>21. CASE Crash
  BY <1>21 DEF Crash, ProcessEnds, RowsMatchHolders, local
<1>22. ASSUME NEW f \in Files, Delete(f) PROVE RowsMatchHolders'
  BY <1>22 DEF Delete, RowsMatchHolders, local
<1>23. ASSUME NEW f \in Files, Settle(f) PROVE RowsMatchHolders'
  BY <1>23 DEF Settle, RowsMatchHolders, local
<1>24. ASSUME NEW f \in Files, NEW v \in Contents, Write(f, v) PROVE RowsMatchHolders'
  BY <1>24 DEF Write, RowsMatchHolders, local
<1>25. CASE UNCHANGED vars
  BY <1>25 DEF vars, RowsMatchHolders, local
<1>26. CASE Stop
  BY <1>26 DEF Stop, ProcessEnds, RowsMatchHolders, local
<1> QED
  BY <1>1, <1>2, <1>3, <1>4, <1>5, <1>6, <1>7, <1>8, <1>9, <1>10, <1>11, <1>12,
     <1>13, <1>14, <1>15, <1>16, <1>17, <1>18, <1>19, <1>20, <1>21, <1>22,
     <1>23, <1>24, <1>25, <1>26
     DEF Next, Trickle, IndexFile, Environment

\* Each step keeps calls and scans apart.
LEMMA ScanStep == TypeOK /\ ScanOrder /\ [Next]_vars => ScanOrder'
<1> SUFFICES ASSUME TypeOK /\ ScanOrder, [Next]_vars PROVE ScanOrder'
  OBVIOUS
<1>1. CASE Start
  BY <1>1 DEF Start, ScanOrder, loop
<1>2. CASE Discover
  BY <1>2 DEF Discover, ScanOrder, loop
<1>3. CASE Diff
  BY <1>3 DEF Diff, ScanOrder, loop, Discovered
<1>4. CASE DiffRaises
  BY <1>4 DEF DiffRaises, ScanOrder, loop
<1>5. CASE FinishScan
  BY <1>5 DEF FinishScan, ScanOrder, loop
<1>6. CASE PurgeQueued
  BY <1>6 DEF PurgeQueued, ScanOrder, loop
<1>7. CASE IndexQueued
  BY <1>7 DEF IndexQueued, ScanOrder, loop, StartJob
<1>8. CASE Poll
  BY <1>8 DEF Poll, ScanOrder, loop
<1>9. ASSUME NEW f \in Files, PurgeGone(f) PROVE ScanOrder'
  BY <1>9 DEF PurgeGone, ScanOrder, loop
<1>10. ASSUME NEW f \in Files, IndexTodo(f) PROVE ScanOrder'
  BY <1>10 DEF IndexTodo, ScanOrder, loop, StartJob
<1>11. CASE CleanUp
  BY <1>11 DEF CleanUp, ScanOrder, loop, JobDone, JobGoes, At
<1>12. CASE CheckMeta
  BY <1>12 DEF CheckMeta, ScanOrder, loop, JobDone, JobGoes, At
<1>13. CASE ReadAndInsert
  BY <1>13 DEF ReadAndInsert, ScanOrder, loop, JobDone, JobGoes, At
<1>14. CASE WriteGraph
  BY <1>14 DEF WriteGraph, ScanOrder, loop, JobDone, JobGoes, At
<1>15. CASE SaveChunkFingerprint
  BY <1>15 DEF SaveChunkFingerprint, ScanOrder, loop, JobDone, JobGoes, At
<1>16. CASE Embed
  BY <1>16 DEF Embed, ScanOrder, loop, JobDone, JobGoes, At
<1>17. CASE SaveMetaFingerprint
  BY <1>17 DEF SaveMetaFingerprint, ScanOrder, loop, JobDone, JobGoes, At
<1>18. CASE WriteFrontmatter
  BY <1>18 DEF WriteFrontmatter, ScanOrder, loop, JobDone, JobGoes, At
<1>19. CASE FileGone
  BY <1>19 DEF FileGone, ScanOrder, loop, JobDone, JobGoes, At
<1>20. CASE JobFails
  BY <1>20 DEF JobFails, ScanOrder, loop, JobDone, JobGoes, At
<1>21. CASE Crash
  BY <1>21 DEF Crash, ProcessEnds, ScanOrder, loop, JobDone
<1>22. ASSUME NEW f \in Files, Delete(f) PROVE ScanOrder'
  BY <1>22 DEF Delete, ScanOrder, loop
<1>23. ASSUME NEW f \in Files, Settle(f) PROVE ScanOrder'
  BY <1>23 DEF Settle, ScanOrder, loop
<1>24. ASSUME NEW f \in Files, NEW v \in Contents, Write(f, v) PROVE ScanOrder'
  BY <1>24 DEF Write, ScanOrder, loop
<1>25. CASE UNCHANGED vars
  BY <1>25 DEF vars, ScanOrder, loop
<1>26. CASE Stop
  BY <1>26 DEF Stop, ProcessEnds, ScanOrder, loop, JobDone
<1> QED
  BY <1>1, <1>2, <1>3, <1>4, <1>5, <1>6, <1>7, <1>8, <1>9, <1>10, <1>11, <1>12,
     <1>13, <1>14, <1>15, <1>16, <1>17, <1>18, <1>19, <1>20, <1>21, <1>22,
     <1>23, <1>24, <1>25, <1>26
     DEF Next, Trickle, IndexFile, Environment

\* Each step of a call does what the next one relies on.
LEMMA JobStep == TypeOK /\ ScanOrder /\ JobProgress /\ [Next]_vars => JobProgress'
<1> SUFFICES ASSUME TypeOK /\ ScanOrder /\ JobProgress, [Next]_vars PROVE JobProgress'
  OBVIOUS
<1>1. CASE Start
  BY <1>1 DEF Start, JobProgress, HeldBy, index, local, surreal
<1>2. CASE Discover
  BY <1>2 DEF Discover, JobProgress, HeldBy, index, local, surreal
<1>3. CASE Diff
  BY <1>3 DEF Diff, JobProgress, HeldBy, index, local, surreal
<1>4. CASE DiffRaises
  BY <1>4 DEF DiffRaises, JobProgress, HeldBy, index, local, surreal
<1>5. CASE FinishScan
  BY <1>5 DEF FinishScan, JobProgress, HeldBy, index, local, surreal
<1>6. CASE PurgeQueued
  BY <1>6 DEF PurgeQueued, JobProgress, HeldBy, index, local, surreal
<1>7. CASE IndexQueued
  BY <1>7 DEF IndexQueued, JobProgress, HeldBy, index, local, surreal, StartJob
<1>8. CASE Poll
  BY <1>8 DEF Poll, JobProgress, HeldBy, index, local, surreal
<1>9. ASSUME NEW f \in Files, PurgeGone(f) PROVE JobProgress'
  BY <1>9 DEF PurgeGone, JobProgress, HeldBy, index, local, surreal, ScanOrder
<1>10. ASSUME NEW f \in Files, IndexTodo(f) PROVE JobProgress'
  BY <1>10 DEF IndexTodo, JobProgress, HeldBy, index, local, surreal, StartJob
<1>11. CASE CleanUp
  <2>1. job.file \in Files
    BY <1>11, JobType DEF CleanUp, At
  <2>2. HeldBy(job.file)' = {}
    BY <1>11, <2>1 DEF CleanUp, HeldBy, JobGoes
  <2> QED
    BY <1>11, <2>2, JobType DEF CleanUp, JobProgress, JobGoes, At
<1>12. CASE CheckMeta
  BY <1>12, JobType
     DEF CheckMeta, JobProgress, HeldBy, index, local, surreal, JobDone, JobGoes, At
<1>13. CASE ReadAndInsert
  <2>1. job # NoJob /\ job.step = "read" /\ Present(job.file) /\ job.file \in Files
    BY <1>13, JobType DEF ReadAndInsert, At
  <2>2. /\ disk[job.file].body # None
        /\ ChunksOf[disk[job.file].body] \subseteq Chunks
    BY <2>1, ChunksOfDisk
  <2>3. job'.file = job.file /\ job'.body = disk[job.file].body
    BY <1>13, <2>1, JobType DEF ReadAndInsert
  <2>4. job'.step \in {"chunk fingerprint", "graph"}
    BY <1>13, <2>1, JobType DEF ReadAndInsert
  <2>5. HeldBy(job.file) = {}
    BY <2>1 DEF JobProgress
  <2>6. \A c \in Chunks : <<job.file, c>> \in held' <=> c \in ChunksOf[disk[job.file].body]
    BY <1>13, <2>5 DEF ReadAndInsert, HeldBy
  <2>7. HeldBy(job.file)' = ChunksOf[disk[job.file].body]
    BY <2>2, <2>3, <2>6 DEF HeldBy
  <2> QED
    BY <2>2, <2>3, <2>4, <2>7 DEF JobProgress
<1>14. CASE WriteGraph
  BY <1>14, JobType
     DEF WriteGraph, JobProgress, HeldBy, index, local, surreal, JobDone, JobGoes, At
<1>15. CASE SaveChunkFingerprint
  BY <1>15, JobType
     DEF SaveChunkFingerprint, JobProgress, HeldBy, index, local, surreal, JobDone,
         JobGoes, At, JobChunks
<1>16. CASE Embed
  <2>1. job # NoJob /\ job.step = "embed"
    BY <1>16 DEF Embed, At
  <2>2. JobChunks = HeldBy(job.file)
    BY <2>1 DEF JobChunks, JobProgress
  <2>3. HeldBy(job.file)' = HeldBy(job.file)
    BY <1>16, <2>1, JobType DEF Embed, HeldBy, JobGoes, local
  <2>5. HeldBy(job.file) \subseteq (index \cup missed)'
    <3>1. CASE RowPhases \cap applied = {}
      BY <1>16, <2>2, <3>1 DEF Embed, PutRows, RowPhases, index
    <3>2. CASE RowPhases \cap applied # {}
      BY <1>16, <2>2, <3>2 DEF Embed
    <3> QED
      BY <3>1, <3>2
  <2>4. /\ job'.file = job.file /\ job'.body = job.body
        /\ job'.step = "meta fingerprint"
    BY <1>16, <2>1, JobType DEF Embed, JobGoes
  <2> QED
    BY <2>1, <2>3, <2>4, <2>5 DEF JobProgress
<1>17. CASE SaveMetaFingerprint
  BY <1>17, JobType
     DEF SaveMetaFingerprint, JobProgress, HeldBy, index, local, surreal, JobDone,
         JobGoes, At
<1>18. CASE WriteFrontmatter
  BY <1>18, JobType
     DEF WriteFrontmatter, JobProgress, HeldBy, index, local, surreal, JobDone,
         JobGoes, At
<1>19. CASE FileGone
  BY <1>19 DEF FileGone, JobProgress, HeldBy, index, local, surreal, JobDone, JobGoes, At
<1>20. CASE JobFails
  BY <1>20 DEF JobFails, JobProgress, JobDone
<1>21. CASE Crash
  BY <1>21 DEF Crash, ProcessEnds, JobProgress, JobDone
<1>22. ASSUME NEW f \in Files, Delete(f) PROVE JobProgress'
  BY <1>22 DEF Delete, JobProgress, HeldBy, index, local, surreal
<1>23. ASSUME NEW f \in Files, Settle(f) PROVE JobProgress'
  BY <1>23 DEF Settle, JobProgress, HeldBy, index, local, surreal
<1>24. ASSUME NEW f \in Files, NEW v \in Contents, Write(f, v) PROVE JobProgress'
  BY <1>24 DEF Write, JobProgress, HeldBy, index, local, surreal
<1>25. CASE UNCHANGED vars
  BY <1>25 DEF vars, JobProgress, HeldBy, index, local, surreal
<1>26. CASE Stop
  BY <1>26 DEF Stop, ProcessEnds, JobProgress, JobDone
<1> QED
  BY <1>1, <1>2, <1>3, <1>4, <1>5, <1>6, <1>7, <1>8, <1>9, <1>10, <1>11, <1>12,
     <1>13, <1>14, <1>15, <1>16, <1>17, <1>18, <1>19, <1>20, <1>21, <1>22,
     <1>23, <1>24, <1>25, <1>26
     DEF Next, Trickle, IndexFile, Environment

\* The four parts together are inductive.
THEOREM Inductive == IInv /\ [Next]_vars => IInv'
BY TypeStep, RowsStep, ScanStep, JobStep DEF IInv

\* So they hold in every reachable state.
LEMMA InvariantHolds == Spec => []IInv
<1>1. Init => IInv
  BY InitOK
<1>2. IInv /\ [Next]_vars => IInv'
  BY Inductive
<1> QED
  BY <1>1, <1>2, PTL DEF Spec

\* Every variable keeps its type.
THEOREM TypeCorrect == Spec => []TypeOK
<1>1. IInv => TypeOK
  BY DEF IInv
<1> QED
  BY <1>1, InvariantHolds, PTL

\* Chunk rows and holders agree after any crash, failure or race with the disk
\* (_holder_aware_chunk_cleanup and the insert loop of index_file).
THEOREM RowsAlwaysMatch == Spec => []RowsMatchHolders
<1>1. IInv => RowsMatchHolders
  BY DEF IInv
<1> QED
  BY <1>1, InvariantHolds, PTL

\* Which step writes what: a chunk fingerprint, a metadata fingerprint, and the
\* steps that take something out of the index.
LEMMA Writers ==
    ASSUME [Next]_vars
    PROVE  /\ chunkPrint' = chunkPrint \/ SaveChunkFingerprint
           /\ metaPrint' = metaPrint \/ SaveMetaFingerprint
           /\ \/ stored' = stored /\ vectors' = vectors
              \/ Embed \/ JobFails
              \/ PurgeQueued
              \/ \E f \in Files : PurgeGone(f)
BY
   DEF Next, Trickle, IndexFile, Environment, vars, local, surreal, Start,
       Discover, Diff, DiffRaises, FinishScan,
       PurgeQueued, IndexQueued, Poll, PurgeGone, IndexTodo, CleanUp, CheckMeta,
       ReadAndInsert, WriteGraph, SaveChunkFingerprint, Embed, SaveMetaFingerprint,
       WriteFrontmatter, GraphManifest, FileGone, JobFails, Crash, Stop, ProcessEnds,
       Delete, Settle, Write

\* A chunk fingerprint is saved only when the rows of the version that was read
\* are there: index_file saves it after the insert transaction.
THEOREM FingerprintsFollowRows == Spec => FingerprintAfterRows
<1>1. IInv /\ [Next]_vars =>
        [\A f \in Files : chunkPrint'[f] # chunkPrint[f] =>
            /\ Busy(f)
            /\ job.body # None
            /\ HeldBy(f) = ChunksOf[job.body]]_vars
  <2> SUFFICES ASSUME IInv, [Next]_vars,
                      NEW f \in Files, chunkPrint'[f] # chunkPrint[f]
               PROVE  /\ Busy(f)
                      /\ job.body # None
                      /\ HeldBy(f) = ChunksOf[job.body]
    OBVIOUS
  <2>1. SaveChunkFingerprint
    BY Writers
  <2>2. job # NoJob /\ job.step = "chunk fingerprint"
    BY <2>1 DEF SaveChunkFingerprint, At
  <2>3. f = job.file
    BY <2>1 DEF SaveChunkFingerprint, IInv, TypeOK
  <2> QED
    BY <2>2, <2>3 DEF IInv, JobProgress, Busy
<1> QED
  BY <1>1, InvariantHolds, PTL DEF Spec, FingerprintAfterRows

\* A metadata fingerprint is saved only when every chunk of the note is in the
\* index or was kept from the store by the resume state: _index_file_embed saves
\* it after the manifest was applied, and no purge comes between.
THEOREM MetaFingerprintsFollowIndex == Spec => MetaFingerprintAfterIndex
<1>1. IInv /\ [Next]_vars =>
        [\A f \in Files : metaPrint'[f] # metaPrint[f] =>
            HeldBy(f) \subseteq index \cup missed]_vars
  <2> SUFFICES ASSUME IInv, [Next]_vars,
                      NEW f \in Files, metaPrint'[f] # metaPrint[f]
               PROVE  HeldBy(f) \subseteq index \cup missed
    OBVIOUS
  <2>1. SaveMetaFingerprint
    BY Writers
  <2>2. job # NoJob /\ job.step = "meta fingerprint"
    BY <2>1 DEF SaveMetaFingerprint, At
  <2>3. f = job.file
    BY <2>1 DEF SaveMetaFingerprint, IInv, TypeOK
  <2> QED
    BY <2>2, <2>3 DEF IInv, JobProgress
<1> QED
  BY <1>1, InvariantHolds, PTL DEF Spec, MetaFingerprintAfterIndex

\* A chunk that only one path holds is all a purge of that path removes.
LEMMA OrphansHeldAlone ==
    ASSUME NEW f \in Files, NEW g \in Files, f # g
    PROVE  HeldBy(f) \cap Orphans(g) = {}
BY DEF HeldBy, Orphans, Holders

\* _purge_file spares every chunk of a note that is on disk and that the scan
\* has not found missing, whoever else held it.
THEOREM PurgeSparesOthers == Spec => PurgeSparesLiveNotes
<1>1. IInv /\ [Next]_vars =>
        [\A f \in Files \ gone : Present(f) => HeldBy(f) \cap index \subseteq index']_vars
  <2> SUFFICES ASSUME IInv, [Next]_vars, NEW f \in Files \ gone, Present(f)
               PROVE  HeldBy(f) \cap index \subseteq index'
    OBVIOUS
  <2>1. CASE stored' = stored /\ vectors' = vectors
    BY <2>1 DEF index
  <2>2. CASE Embed
    BY <2>2 DEF Embed, PutRows, index
  <2>5. CASE JobFails
    BY <2>5 DEF JobFails, PutRows, GraphManifest, surreal, index
  <2>3. CASE PurgeQueued
    <3>1. Head(queue) \in Files /\ Head(queue) # f
      BY <2>3 DEF PurgeQueued, IInv, TypeOK
    <3> QED
      BY <2>3, <3>1, OrphansHeldAlone DEF PurgeQueued, TombstoneChunks, index
  <2>4. ASSUME NEW g \in Files, PurgeGone(g) PROVE HeldBy(f) \cap index \subseteq index'
    <3>1. g # f
      BY <2>4 DEF PurgeGone
    <3> QED
      BY <2>4, <3>1, OrphansHeldAlone DEF PurgeGone, TombstoneChunks, index
  <2> QED
    BY <2>1, <2>2, <2>3, <2>4, <2>5, Writers
<1> QED
  BY <1>1, InvariantHolds, PTL DEF Spec, PurgeSparesLiveNotes
=============================================================================
