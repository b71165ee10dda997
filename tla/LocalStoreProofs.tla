-------------------------- MODULE LocalStoreProofs --------------------------
(***************************************************************************)
(* Proofs about LocalStore, for any messages, dialogs, schema versions and *)
(* number of changes.                                                      *)
(***************************************************************************)
EXTENDS LocalStore, TLAPS

-----------------------------------------------------------------------------
(* The inductive invariant                                                 *)

\* The tables, when the source has had n changes.
Tables(n) ==
    [doc : SUBSET Dialogs, bound : SUBSET Dialogs, fp : [Units -> 0 .. n],
     chunk : SUBSET (1 .. n), from : SUBSET (1 .. n), cursor : 0 .. n,
     part : [Changes -> 0 .. MaxSchema], cache : [Changes -> 0 .. MaxSchema],
     note : SUBSET {"chunk", "from", "doc"}, print : 0 .. MaxSchema,
     sentinel : WipeInProgress .. MaxSchema]

Searches == {"count", "fill", "recount", "refs", "documents", "hydrate"}
Readers ==
    [step : {"idle", "document", "binding", "active", "ensure", "chunks"} \cup Searches,
     unit : Units \cup {NoUnit}, older : SUBSET Changes]

Types ==
    /\ log \in Seq(Units) /\ Len(log) <= MaxChanges
    /\ db \in Tables(Len(log)) /\ durable \in Tables(Len(log)) /\ tx \in BOOLEAN
    /\ proc \in [kind : {"down", "server", "reset", "force"},
                 step : {"down", "check", "clear cache", "clear parts", "clear prints",
                         "set sentinel", "ready", "drop sentinel", "drop prints", "index"},
                 schema : 1 .. MaxSchema]
    /\ proc.kind = "down" => proc.step = "down"
    /\ poller \in [step : {"idle", "embed", "begin"} \cup InTry, change : 0 .. Len(log)]
    /\ poller.step = "idle" <=> poller.change = 0
    /\ reader \in Readers /\ reader.older \subseteq DOMAIN log
    /\ ready \in BOOLEAN /\ spoiled \in BOOLEAN /\ kept \in BOOLEAN

\* A transaction is the poller's; only the server polls, reads and searches, and
\* it searches only while the poller is at rest.
Control ==
    /\ tx => Serving /\ poller.step \in InTry /\ db.note = durable.note
    /\ ~tx => db = durable
    /\ reader.step \in Searches => poller.step = "idle"
    /\ ~Serving => poller = AtRest /\ reader = Silent /\ ready = FALSE

\* What a search has found complete stays so.
Complete ==
    /\ ready => ~NoteIncomplete /\ ~DocumentMissing
    /\ reader.step \in {"refs", "documents"} => ~NoteIncomplete

\* No vector and no fingerprint is of a later schema than the process; where the
\* sentinel names that schema they all are of it.
Within(d, S) ==
    /\ \A p \in Changes : d.part[p] \in S /\ d.cache[p] \in S
    /\ d.print \in S
Current(d) ==
    /\ d.sentinel <= proc.schema
    /\ Within(d, 0 .. proc.schema)
    /\ d.sentinel = proc.schema => Within(d, {0, proc.schema})

\* What a wipe has cleared stays empty until the sentinel is set.
Wiping ==
    /\ proc.step \in {"clear parts", "clear prints", "set sentinel"} => db.cache = NoText
    /\ proc.step \in {"clear prints", "set sentinel"} => db.part = NoText
    /\ proc.step = "set sentinel" => db.print = 0

Repaired == ~kept => Current(db) /\ Current(durable) /\ Wiping

\* A message on record has the chunk of its last recorded change, alone, and one
\* that is not has none.
GoodUnit(d, u) ==
    /\ \A p \in d.chunk : log[p] = u => p = d.fp[u]
    /\ d.fp[u] # 0 =>
        /\ d.fp[u] \in d.chunk /\ log[d.fp[u]] = u
        /\ DialogOf[u] \in d.doc /\ DialogOf[u] \in d.bound
Good(d) == d.chunk = d.from /\ \A u \in Units : GoodUnit(d, u)

\* How far the batch is at each step of the poller.
Batch(step, d) ==
    /\ step # "document" => Dialog \in d.doc
    /\ step \notin {"document", "binding"} => Dialog \in d.bound
    /\ step \notin {"document", "binding", "fingerprint"} => d.fp[Unit] = poller.change
    /\ step = "old chunks" => d.chunk = d.from
    /\ step = "chunk" => d.chunk = d.from /\ \A p \in d.from : log[p] # Unit
    /\ step = "provenance" =>
        d.chunk = d.from \cup {poller.change} /\ \A p \in d.from : log[p] # Unit
    /\ step \in {"old chunks", "chunk", "provenance"} => \A u \in Units \ {Unit} : GoodUnit(d, u)
    /\ step \notin {"old chunks", "chunk", "provenance"} => Good(d)

\* What is durable is whole, as long as nobody commits the poller's batch for it.
Batched ==
    ~spoiled => Good(durable) /\ (poller.step \in InTry => tx /\ Batch(poller.step, db))

IInv == Types /\ Control /\ Complete /\ Repaired /\ Batched
-----------------------------------------------------------------------------
(* Steps that change little                                                *)

\* The invariant holds initially.
LEMMA InitOK == ASSUME LocalStoreAssumption, Init PROVE IInv
<1>1. PICK note \in SUBSET {"chunk"}, sentinel \in {0, 1} :
        db = Older(note, sentinel) /\ durable = Older(note, sentinel) /\ tx = FALSE
  BY DEF Init, Opened, Missing
<1>2. PICK old : old = Older(note, sentinel)
  OBVIOUS
<1>3. /\ old \in Tables(0) /\ old.chunk = {} /\ old.from = {} /\ \A u \in Units : old.fp[u] = 0
      /\ old.sentinel \in {0, 1} /\ old.print \in {0, 1}
      /\ \A p \in Changes : old.part[p] = 0 /\ old.cache[p] = 0
  BY <1>2 DEF Older, Tables, NoText, WipeInProgress, LocalStoreAssumption, Changes
<1>4. Types
  <2>1. log \in Seq(Units) /\ Len(log) = 0 /\ Len(log) <= MaxChanges
    BY DEF Init, LocalStoreAssumption
  <2>2. db \in Tables(Len(log)) /\ durable \in Tables(Len(log)) /\ tx \in BOOLEAN
    BY <1>1, <1>2, <1>3, <2>1
  <2>3. proc \in [kind : {"down", "server", "reset", "force"},
                  step : {"down", "check", "clear cache", "clear parts", "clear prints",
                          "set sentinel", "ready", "drop sentinel", "drop prints", "index"},
                  schema : 1 .. MaxSchema]
    BY DEF Init, Down, LocalStoreAssumption
  <2>6. proc.step = "down"
    BY DEF Init, Down
  <2>4. reader \in Readers /\ reader.older \subseteq DOMAIN log
    BY DEF Init, Silent, Readers
  <2>5. /\ poller \in [step : {"idle", "embed", "begin"} \cup InTry, change : 0 .. Len(log)]
        /\ poller.step = "idle" /\ poller.change = 0
    BY <2>1 DEF Init, AtRest
  <2> QED
    BY <2>1, <2>2, <2>3, <2>4, <2>5, <2>6 DEF Init, Types
<1>5. Control /\ Complete
  BY <1>1 DEF Init, Control, Complete, Serving, Down, AtRest, Silent, Searches
<1>6. Repaired
  BY <1>1, <1>2, <1>3 DEF LocalStoreAssumption, Init, Repaired, Current, Within, Wiping, Down
<1>7. Batched
  BY <1>1, <1>2, <1>3 DEF Init, Batched, Good, GoodUnit, AtRest, InTry
<1> QED
  BY <1>4, <1>5, <1>6, <1>7 DEF IInv

\* The changes are counted from 1.
LEMMA Numbered ==
    ASSUME LocalStoreAssumption, Types
    PROVE  /\ DOMAIN log = 1 .. Len(log) /\ Len(log) \in Nat /\ Len(log) <= MaxChanges
           /\ MaxChanges \in Nat /\ 1 .. Len(log) \subseteq Changes
           /\ \A p \in 1 .. Len(log) : log[p] \in Units
<1>1. log \in Seq(Units) /\ Len(log) <= MaxChanges
  BY DEF Types
<1>2. DOMAIN log = 1 .. Len(log) /\ Len(log) \in Nat /\ \A p \in 1 .. Len(log) : log[p] \in Units
  BY <1>1
<1> QED
  BY <1>1, <1>2 DEF Changes, LocalStoreAssumption

\* Schemas are counted from 1.
LEMMA Versions ==
    ASSUME LocalStoreAssumption, Types
    PROVE  proc.schema \in Nat /\ proc.schema \in 1 .. MaxSchema /\ proc.schema \in 0 .. MaxSchema
<1>1. PICK v : v = proc.schema /\ v \in 1 .. MaxSchema
  BY DEF Types
<1> QED
  BY <1>1 DEF LocalStoreAssumption

\* What is whole stays so where nothing of the messages changes.
LEMMA GoodSame ==
    ASSUME NEW e, log' = log, Good(e), durable'.chunk = e.chunk, durable'.from = e.from,
           durable'.fp = e.fp, durable'.doc = e.doc, durable'.bound = e.bound
    PROVE  Good(durable)'
BY DEF Good, GoodUnit

\* What is of the schemas it should be stays so where only the note is indexed.
LEMMA CurrentSame ==
    ASSUME NEW d, NEW e, proc'.schema = proc.schema, proc.schema \in Nat, d.part = e.part,
           d.cache = e.cache, d.sentinel = e.sentinel, d.print \in {e.print, proc.schema},
           Current(e)
    PROVE  Current(d)'
<1>1. ASSUME NEW S, Within(e, S), proc.schema \in S PROVE Within(d, S)
  BY <1>1 DEF Within
<1>2. Within(d, 0 .. proc.schema) /\ (e.sentinel = proc.schema => Within(d, {0, proc.schema}))
  BY <1>1 DEF Current
<1> QED
  BY <1>2 DEF Current

\* A step of the reader.
LEMMA ReaderMoves ==
    ASSUME Types, NEW step \in {"idle", "document", "binding", "active", "ensure", "chunks"}
                              \cup Searches, ReaderTo(step)
    PROVE  reader' \in Readers /\ reader'.step = step /\ reader'.older = reader.older
BY DEF Types, Readers, ReaderTo

\* A state in which the tables, the process and the poller are as before.
LEMMA ReaderOnly ==
    ASSUME IInv, UNCHANGED <<connection, log, proc, poller, spoiled, kept>>, Serving,
           reader' \in Readers, reader'.older \subseteq DOMAIN log, ready' \in BOOLEAN,
           reader'.step \in Searches => poller.step = "idle",
           Complete'
    PROVE  IInv'
<1>1. UNCHANGED <<db, durable, tx>>
  BY DEF connection
<1>2. Types' /\ Control'
  BY <1>1 DEF IInv, Types, Control, Serving
<1>3. Repaired'
  BY <1>1 DEF IInv, Repaired, Current, Within, Wiping
<1>4. Batched'
  <2>1. (\A u \in Units : GoodUnit(db, u)' = GoodUnit(db, u))
        /\ \A u \in Units : GoodUnit(durable, u)' = GoodUnit(durable, u)
    BY <1>1 DEF GoodUnit
  <2>2. Good(durable)' = Good(durable) /\ Good(db)' = Good(db)
    BY <1>1, <2>1 DEF Good
  <2>3. Unit' = Unit /\ Dialog' = Dialog
    BY DEF Unit, Dialog
  <2>4. Batch(poller.step, db) => Batch(poller.step, db)'
    BY <1>1, <2>1, <2>2, <2>3 DEF Batch
  <2> QED
    BY <1>1, <2>2, <2>4 DEF IInv, Batched
<1> QED
  BY <1>2, <1>3, <1>4 DEF IInv

\* The steps of a read, and the beginning of a search.
LEMMA LooksOK ==
    ASSUME LocalStoreAssumption, IInv,
           \/ \E u \in Units : Ask(u)
           \/ ResolveDocument \/ ResolveBinding \/ RequireActive \/ Drill \/ ReadChunks
           \/ StartSearch
    PROVE  IInv'
<1>1. Serving /\ UNCHANGED <<connection, log, proc, poller, ready, spoiled, kept>>
  BY DEF Ask, ResolveDocument, ResolveBinding, RequireActive, Drill, ReadChunks, StartSearch,
         ReaderAt, Looks, OfReader
<1>2. /\ reader' \in Readers /\ reader'.step \notin {"refs", "documents"}
      /\ reader'.older \subseteq DOMAIN log
      /\ reader'.step \in Searches => poller.step = "idle"
  <2>0. Silent \in Readers /\ Silent.step = "idle" /\ Silent.older = {}
    BY DEF Silent, Readers
  <2>1. ASSUME NEW u \in Units, Ask(u)
        PROVE  /\ reader' \in Readers /\ reader'.step = "document"
               /\ reader'.older \subseteq DOMAIN log
    <3>1. \A p \in durable.chunk : p \in DOMAIN log /\ p \in Changes
      BY Numbered DEF IInv, Types, Tables
    <3>2. PICK older : older = {p \in durable.chunk \cap durable.from : log[p] = u}
      OBVIOUS
    <3>3. older \subseteq DOMAIN log /\ older \subseteq Changes
      BY <3>1, <3>2
    <3>4. reader' = [step |-> "document", unit |-> u, older |-> older]
      BY <2>1, <3>2 DEF Ask
    <3> QED
      BY <3>3, <3>4 DEF Readers
  <2>2. CASE ResolveDocument
    BY <2>0, <2>2 DEF ResolveDocument, ReaderTo, End, IInv, Types, Readers, Searches
  <2>3. CASE ResolveBinding
    BY <2>0, <2>3 DEF ResolveBinding, ReaderTo, End, IInv, Types, Readers, Searches
  <2>4. CASE RequireActive
    BY <2>0, <2>4 DEF RequireActive, ReaderTo, End, IInv, Types, Readers, Searches
  <2>5. CASE Drill \/ ReadChunks
    BY <2>0, <2>5 DEF Drill, ReadChunks, End, Searches
  <2>6. CASE StartSearch
    BY <2>0, <2>6 DEF StartSearch, Silent, Readers, Searches
  <2> QED
    BY <2>1, <2>2, <2>3, <2>4, <2>5, <2>6 DEF Searches
<1>3. Complete'
  BY <1>1, <1>2 DEF IInv, Complete, NoteIncomplete, DocumentMissing, connection
<1> QED
  BY <1>1, <1>2, <1>3, ReaderOnly DEF IInv, Types

\* A read that commits: it ends the poller's batch, if there is one.
LEMMA EnsureOK ==
    ASSUME IInv, Ensure, OfReader, Serving,
           reader' \in Readers, reader'.older \subseteq DOMAIN log, ready' \in BOOLEAN,
           reader'.step \in Searches => poller.step = "idle",
           Complete'
    PROVE  IInv'
<1>1. /\ tx' = FALSE /\ durable' = db /\ db' = db /\ spoiled' = (spoiled \/ tx)
      /\ UNCHANGED <<log, proc, poller, kept>>
  BY DEF Ensure, CommitAny, OfReader
<1>2. Types' /\ Control'
  BY <1>1 DEF IInv, Types, Control, Serving
<1>3. Repaired'
  BY <1>1 DEF IInv, Repaired, Current, Within, Wiping
<1>4. Batched'
  <2> SUFFICES ASSUME ~spoiled' PROVE Good(durable)' /\ poller'.step \notin InTry
    BY DEF Batched
  <2>1. ~spoiled /\ ~tx
    BY <1>1 DEF IInv, Types
  <2>2. Good(durable) /\ db = durable /\ poller.step \notin InTry
    BY <2>1 DEF IInv, Control, Batched
  <2> QED
    BY <1>1, <2>2 DEF Good, GoodUnit
<1> QED
  BY <1>2, <1>3, <1>4 DEF IInv

\* The steps of the check of provenance, and the last read of a search.
LEMMA CheckOK ==
    ASSUME IInv, EnsureProvenance \/ CountMissing \/ RecountMissing \/ FindDocuments \/ Hydrate
    PROVE  IInv'
<1>1. Serving /\ Ensure /\ OfReader /\ db' = db
  BY DEF EnsureProvenance, CountMissing, RecountMissing, FindDocuments, Hydrate, ReaderAt, CountIs,
         Ensure, CommitAny
<1>2. Silent \in Readers /\ Silent.step = "idle" /\ Silent.older = {}
  BY DEF Silent, Readers
<1>3. reader \in Readers /\ reader.older \subseteq DOMAIN log /\ ready \in BOOLEAN
  BY DEF IInv, Types
<1>4. Types
  BY DEF IInv
<1>5. log' = log /\ poller' = poller
  BY <1>1 DEF OfReader
<1>6. CASE EnsureProvenance
  <2>1. ReaderTo("chunks") /\ ready' = ready
    BY <1>6 DEF EnsureProvenance
  <2>2. reader' \in Readers /\ reader'.step = "chunks" /\ reader'.older = reader.older
    BY <1>4, <2>1, ReaderMoves
  <2>3. Complete'
    BY <1>1, <2>1, <2>2 DEF IInv, Complete, NoteIncomplete, DocumentMissing
  <2> QED
    BY <1>1, <1>3, <2>1, <2>2, <2>3, EnsureOK DEF Searches
<1>7. CASE CountMissing
  <2>1. /\ reader.step = "count" /\ ready' = ready
        /\ IF ProvenanceMissing THEN ReaderTo("fill")
                                ELSE ReaderTo("refs")
    BY <1>7 DEF CountMissing, ReaderAt, CountIs
  <2>2. /\ reader' \in Readers /\ reader'.older = reader.older
        /\ reader'.step = IF ProvenanceMissing THEN "fill" ELSE "refs"
    <3>1. CASE ProvenanceMissing
      BY <1>4, <2>1, <3>1, ReaderMoves DEF Searches
    <3>2. CASE ~ProvenanceMissing
      BY <1>4, <2>1, <3>2, ReaderMoves DEF Searches
    <3> QED
      BY <3>1, <3>2
  <2>3. poller.step = "idle"
    BY <2>1 DEF IInv, Control, Searches
  <2>4. Complete'
    BY <1>1, <2>1, <2>2 DEF IInv, Complete, NoteIncomplete, DocumentMissing, ProvenanceMissing
  <2> QED
    BY <1>1, <1>3, <2>1, <2>2, <2>3, <2>4, EnsureOK
<1>8. CASE RecountMissing
  <2>1. /\ reader.step = "recount" /\ ready' = ready
        /\ IF ProvenanceMissing THEN reader' = Silent
                                ELSE ReaderTo("refs")
    BY <1>8 DEF RecountMissing, ReaderAt, CountIs, End
  <2>2. /\ reader' \in Readers /\ reader'.older \subseteq DOMAIN log
        /\ reader'.step = IF ProvenanceMissing THEN "idle" ELSE "refs"
    <3>1. CASE ProvenanceMissing
      BY <1>2, <2>1, <3>1
    <3>2. CASE ~ProvenanceMissing
      BY <1>3, <1>4, <2>1, <3>2, ReaderMoves DEF Searches
    <3> QED
      BY <3>1, <3>2
  <2>3. poller.step = "idle"
    BY <2>1 DEF IInv, Control, Searches
  <2>4. Complete'
    BY <1>1, <2>1, <2>2 DEF IInv, Complete, NoteIncomplete, DocumentMissing, ProvenanceMissing
  <2> QED
    BY <1>1, <2>1, <2>2, <2>3, <2>4, <1>3, EnsureOK
<1>9. CASE FindDocuments
  <2>1. /\ reader.step = "refs" /\ ready' = ~DocumentMissing
        /\ IF DocumentMissing THEN ReaderTo("documents")
                              ELSE ReaderTo("hydrate")
    BY <1>9 DEF FindDocuments, ReaderAt, CountIs
  <2>2. /\ reader' \in Readers /\ reader'.older = reader.older
        /\ reader'.step = IF DocumentMissing THEN "documents" ELSE "hydrate"
    <3>1. CASE DocumentMissing
      BY <1>4, <2>1, <3>1, ReaderMoves DEF Searches
    <3>2. CASE ~DocumentMissing
      BY <1>4, <2>1, <3>2, ReaderMoves DEF Searches
    <3> QED
      BY <3>1, <3>2
  <2>3. poller.step = "idle" /\ ~NoteIncomplete
    BY <2>1 DEF IInv, Control, Complete, Searches
  <2>4. NoteIncomplete' = NoteIncomplete /\ DocumentMissing' = DocumentMissing
    BY <1>1 DEF NoteIncomplete, DocumentMissing
  <2>5. Complete' /\ ready' \in BOOLEAN
    BY <2>1, <2>3, <2>4 DEF Complete
  <2> QED
    BY <1>1, <1>3, <2>2, <2>3, <2>5, EnsureOK
<1>10. CASE Hydrate
  <2>1. reader' = Silent /\ ready' = ready
    BY <1>10 DEF Hydrate, End
  <2>2. Complete'
    BY <1>1, <1>2, <2>1 DEF IInv, Complete, NoteIncomplete, DocumentMissing
  <2>3. Silent.older \subseteq DOMAIN log
    BY <1>2
  <2> QED
    BY <1>1, <1>2, <1>3, <2>1, <2>2, <2>3, EnsureOK DEF Searches
<1> QED
  BY <1>6, <1>7, <1>8, <1>9, <1>10

\* A statement by itself that changes nothing of the messages.
LEMMA Unbatched ==
    ASSUME ~tx, Control, Batched, NEW d, Execute(d), log' = log, spoiled' = spoiled,
           d.chunk = db.chunk, d.from = db.from, d.fp = db.fp, d.doc = db.doc,
           d.bound = db.bound, poller'.step \in InTry => poller'.step = poller.step
    PROVE  Batched'
<1> SUFFICES ASSUME ~spoiled' PROVE Good(durable)' /\ poller'.step \notin InTry
  BY DEF Batched
<1>1. durable' = d /\ durable = db
  BY DEF Execute, Control
<1>2. Good(db) /\ poller.step \notin InTry
  BY <1>1 DEF Batched
<1>3. InTry' = InTry
  BY DEF InTry
<1> QED
  BY <1>1, <1>2, <1>3, GoodSame

\* A poller that stays or rests is in a transaction only if it was.
LEMMA Rests ==
    ASSUME poller' \in {poller, AtRest}
    PROVE  poller'.step \in InTry => poller'.step = poller.step
<1>1. AtRest.step = "idle" /\ "idle" \notin InTry
  BY DEF AtRest, InTry
<1>2. CASE poller' = poller
  BY <1>2
<1>3. CASE poller' = AtRest
  BY <1>1, <1>3
<1> QED
  BY <1>2, <1>3

\* A statement about the note, by itself: provenance or a document filled in, or
\* the note indexed.
LEMMA NoteOK ==
    ASSUME LocalStoreAssumption, IInv, ~tx, NEW note \in SUBSET {"chunk", "from", "doc"}, NEW print,
           print \in {db.print, proc.schema},
           Execute([db EXCEPT !.note = note, !.print = print]),
           UNCHANGED <<log, spoiled, kept>>, Types', Control', Complete',
           poller' \in {poller, AtRest},
           proc'.schema = proc.schema,
           proc'.step \in {proc.step, "down"}, proc.step # "set sentinel"
    PROVE  IInv'
<1>1. PICK d : d = [db EXCEPT !.note = note, !.print = print]
  OBVIOUS
<1>2. /\ db' = d /\ durable' = d /\ durable = db
  BY <1>1 DEF Execute, IInv, Control
<1>3. /\ d.doc = db.doc /\ d.bound = db.bound /\ d.fp = db.fp /\ d.chunk = db.chunk
      /\ d.from = db.from /\ d.part = db.part /\ d.cache = db.cache /\ d.sentinel = db.sentinel
      /\ d.print = print
  BY <1>1 DEF IInv, Types, Tables
<1>4. Repaired'
  <2> SUFFICES ASSUME ~kept PROVE Current(db)' /\ Current(durable)' /\ Wiping'
    BY DEF Repaired
  <2>1. Current(db) /\ Wiping
    BY DEF IInv, Repaired
  <2>3. Current(d)'
    <3>1. proc.schema \in Nat
      BY Versions DEF IInv
    <3>2. d.print \in {db.print, proc.schema}
      BY <1>3
    <3> QED
      BY <1>3, <2>1, <3>1, <3>2, CurrentSame
  <2>4. Wiping'
    BY <1>2, <1>3, <2>1 DEF Wiping
  <2> QED
    BY <1>2, <2>3, <2>4 DEF Current, Within
<1>5. Execute(d) /\ log' = log /\ spoiled' = spoiled
  BY <1>1
<1>6. poller'.step \in InTry => poller'.step = poller.step
  BY Rests
<1>7. Batched'
  BY <1>3, <1>5, <1>6, Unbatched DEF IInv
<1> QED
  BY <1>4, <1>7 DEF IInv

\* Provenance and a document are filled in.
LEMMA FillOK ==
    ASSUME LocalStoreAssumption, IInv, FillProvenance \/ FillDocuments
    PROVE  IInv'
<1>1. /\ Serving /\ reader.step \in {"fill", "documents"}
      /\ UNCHANGED <<log, proc, poller, spoiled, kept>>
  BY DEF FillProvenance, FillDocuments, ReaderAt, OfReader
<1>2. ~tx /\ poller.step = "idle" /\ Types
  BY <1>1 DEF IInv, Control, Searches, InTry
<1>3. Silent \in Readers /\ Silent.step = "idle" /\ Silent.older = {}
  BY DEF Silent, Readers
<1>4. ASSUME NEW note \in SUBSET {"chunk", "from", "doc"}, Execute([db EXCEPT !.note = note]),
             reader' \in Readers, reader'.older \subseteq DOMAIN log, ready' \in BOOLEAN, Complete'
      PROVE  IInv'
  <2>1. PICK d : d = [db EXCEPT !.note = note]
    OBVIOUS
  <2>2. d \in Tables(Len(log)) /\ [db EXCEPT !.note = note, !.print = db.print] = d
    BY <1>2, <2>1 DEF Types, Tables
  <2>3. db' = d /\ durable' = d /\ tx' = FALSE
    BY <1>2, <1>4, <2>1 DEF Execute, Types
  <2>4. Types'
    BY <1>1, <1>2, <1>4, <2>2, <2>3 DEF Types
  <2>5. Control'
    BY <1>1, <1>2, <2>3 DEF IInv, Control, Serving
  <2>6. Execute([db EXCEPT !.note = note, !.print = db.print])
    BY <1>4, <2>1, <2>2
  <2>7. db.print \in {db.print, proc.schema} /\ poller' \in {poller, AtRest}
        /\ proc.step # "set sentinel"
    BY <1>1 DEF Serving
  <2> QED
    BY <1>1, <1>2, <1>4, <2>4, <2>5, <2>6, <2>7, NoteOK
<1>5. CASE FillProvenance
  <2>1. /\ Execute([db EXCEPT !.note = IF NoteIncomplete THEN @ \cup {"from"} ELSE @])
        /\ ReaderTo("recount") /\ ready' = ready
    BY <1>5 DEF FillProvenance
  <2>2. reader' \in Readers /\ reader'.step = "recount" /\ reader'.older = reader.older
    BY <1>2, <2>1, ReaderMoves DEF Searches
  <2>3. PICK note : /\ note = IF NoteIncomplete THEN db.note \cup {"from"} ELSE db.note
                    /\ Execute([db EXCEPT !.note = note])
    BY <2>1
  <2>4. note \in SUBSET {"chunk", "from", "doc"} /\ db'.note = note
    BY <1>2, <2>3 DEF Types, Tables, Execute
  <2>5. Complete'
    BY <2>1, <2>2, <2>3, <2>4 DEF IInv, Complete, NoteIncomplete, DocumentMissing
  <2> QED
    BY <1>2, <1>4, <2>1, <2>2, <2>3, <2>4, <2>5 DEF Types
<1>6. CASE FillDocuments
  <2>1. CASE End /\ UNCHANGED <<connection, ready>>
    <3>1. reader' = Silent /\ UNCHANGED <<connection, ready>>
      BY <2>1 DEF End
    <3>2. Complete'
      BY <1>3, <3>1 DEF IInv, Complete, NoteIncomplete, DocumentMissing, connection
    <3>3. /\ reader'.older \subseteq DOMAIN log /\ ready' \in BOOLEAN /\ reader' \in Readers
          /\ reader'.step \in Searches => poller.step = "idle"
      BY <1>2, <1>3, <3>1 DEF Types
    <3> QED
      BY <1>1, <3>1, <3>2, <3>3, ReaderOnly
  <2>2. CASE /\ Execute([db EXCEPT !.note = @ \cup {"doc"}])
             /\ ready' = TRUE /\ ReaderTo("hydrate")
    <3>1. reader' \in Readers /\ reader'.step = "hydrate" /\ reader'.older = reader.older
      BY <1>2, <2>2, ReaderMoves DEF Searches
    <3>2. PICK note : note = db.note \cup {"doc"} /\ Execute([db EXCEPT !.note = note])
      BY <2>2
    <3>3. note \in SUBSET {"chunk", "from", "doc"} /\ db'.note = note
      BY <1>2, <3>2 DEF Types, Tables, Execute
    <3>4. reader.step = "documents"
      BY <1>6 DEF FillDocuments, ReaderAt
    <3>5. Complete'
      BY <2>2, <3>1, <3>2, <3>3, <3>4 DEF IInv, Complete, NoteIncomplete, DocumentMissing
    <3> QED
      BY <1>2, <1>4, <2>2, <3>1, <3>2, <3>3, <3>5 DEF Types
  <2> QED
    BY <1>6, <2>1, <2>2 DEF FillDocuments
<1> QED
  BY <1>5, <1>6

\* The note is indexed, by the server or by index --force.
LEMMA IndexNoteOK ==
    ASSUME LocalStoreAssumption, IInv, IndexNote
    PROVE  IInv'
<1>1. /\ ~tx /\ UNCHANGED <<log, spoiled, kept>> /\ Types
      /\ Execute([db EXCEPT !.note = {"chunk", "from", "doc"}, !.print = proc.schema])
  BY DEF IndexNote, history, IInv
<1>2. PICK d : d = [db EXCEPT !.note = {"chunk", "from", "doc"}, !.print = proc.schema]
  OBVIOUS
<1>3. d \in Tables(Len(log)) /\ d.note = {"chunk", "from", "doc"}
  <2>1. proc.schema \in 0 .. MaxSchema /\ db \in Tables(Len(log))
    BY <1>1, Versions DEF Types
  <2> QED
    BY <1>2, <2>1 DEF Tables
<1>4. db' = d /\ durable' = d /\ tx' = FALSE
  BY <1>1, <1>2 DEF Execute, Types
<1>5. \/ Serving /\ UNCHANGED <<proc, poller, reader, ready>>
      \/ /\ proc.step = "index" /\ proc' = [Down EXCEPT !.schema = proc.schema]
         /\ poller' = AtRest /\ reader' = Silent /\ ready' = FALSE
  BY DEF IndexNote, Died
<1>6. /\ proc'.schema = proc.schema /\ proc'.step \in {proc.step, "down"}
      /\ proc.step # "set sentinel"
  BY <1>1, <1>5 DEF Down, Types, Serving
<1>7. Types'
  <2>1. db' \in Tables(Len(log)) /\ durable' \in Tables(Len(log))
    BY <1>3, <1>4
  <2>2. CASE Serving /\ UNCHANGED <<proc, poller, reader, ready>>
    BY <1>1, <1>4, <2>1, <2>2 DEF Types
  <2>3. CASE /\ proc' = [Down EXCEPT !.schema = proc.schema]
             /\ poller' = AtRest /\ reader' = Silent /\ ready' = FALSE
    <3>1. /\ proc'.kind = "down" /\ proc'.step = "down"
          /\ proc' \in [kind : {"down", "server", "reset", "force"},
                 step : {"down", "check", "clear cache", "clear parts", "clear prints",
                         "set sentinel", "ready", "drop sentinel", "drop prints", "index"},
                 schema : 1 .. MaxSchema]
      BY <1>1, <2>3 DEF Down, Types
    <3>2. /\ poller' \in [step : {"idle", "embed", "begin"} \cup InTry, change : 0 .. Len(log)]
          /\ poller'.step = "idle" /\ poller'.change = 0
      BY <1>1, <2>3, LocalStoreAssumption, Numbered DEF AtRest
    <3>3. reader' \in Readers /\ reader'.older \subseteq DOMAIN log
      BY <2>3 DEF Silent, Readers
    <3> QED
      BY <1>1, <1>4, <2>1, <2>3, <3>1, <3>2, <3>3 DEF Types
  <2> QED
    BY <1>5, <2>2, <2>3
<1>8. Control' /\ Complete'
  BY <1>3, <1>4, <1>5 DEF IInv, Control, Complete, NoteIncomplete, DocumentMissing, Serving, Down,
                          Silent, AtRest, Searches
<1>9. /\ Execute([db EXCEPT !.note = {"chunk", "from", "doc"}, !.print = proc.schema])
      /\ poller' \in {poller, AtRest} /\ proc.schema \in {db.print, proc.schema}
      /\ {"chunk", "from", "doc"} \in SUBSET {"chunk", "from", "doc"}
  BY <1>1, <1>5
<1> QED
  BY <1>1, <1>6, <1>7, <1>8, <1>9, NoteOK
-----------------------------------------------------------------------------
(* Processes                                                               *)

Procs == [kind : {"down", "server", "reset", "force"},
          step : {"down", "check", "clear cache", "clear parts", "clear prints",
                  "set sentinel", "ready", "drop sentinel", "drop prints", "index"},
          schema : 1 .. MaxSchema]

\* What is whole stays so where nothing of the messages and the poller changes.
LEMMA BatchedSame ==
    ASSUME Batched, UNCHANGED <<db, durable, tx, log, poller, spoiled>>
    PROVE  Batched'
<1>1. /\ \A u \in Units : GoodUnit(db, u)' = GoodUnit(db, u)
      /\ \A u \in Units : GoodUnit(durable, u)' = GoodUnit(durable, u)
  BY DEF GoodUnit
<1>2. Good(durable)' = Good(durable) /\ Good(db)' = Good(db)
  BY <1>1 DEF Good
<1>3. Unit' = Unit /\ Dialog' = Dialog
  BY DEF Unit, Dialog
<1>4. Batch(poller.step, db) => Batch(poller.step, db)'
  BY <1>1, <1>2, <1>3 DEF Batch
<1> QED
  BY <1>2, <1>4 DEF Batched

\* A process begins, with the schema of the last one or a later one.
LEMMA StartOK ==
    ASSUME LocalStoreAssumption, IInv,
           NEW kind \in {"server", "reset", "force"}, NEW v \in 1 .. MaxSchema,
           NEW repair \in BOOLEAN, Start(kind, v, repair)
    PROVE  IInv'
<1>1. /\ proc.kind = "down" /\ v >= proc.schema /\ ready' = FALSE
      /\ UNCHANGED <<connection, log, poller, reader, spoiled, kept>>
  BY DEF Start, history
<1>2. /\ proc'.kind = kind /\ proc'.step \in {"check", "ready"} /\ proc'.schema = v
      /\ proc' \in Procs
  <2>1. PICK step \in {"check", "ready"} : proc' = [kind |-> kind, step |-> step, schema |-> v]
    BY DEF Start
  <2> QED
    BY <2>1 DEF Procs
<1>3. poller = AtRest /\ reader = Silent /\ tx = FALSE /\ db = durable
  BY <1>1 DEF IInv, Control, Serving, Types
<1>4. UNCHANGED <<db, durable, tx>>
  BY <1>1 DEF connection
<1>5. Types'
  BY <1>1, <1>2, <1>4 DEF IInv, Types, Procs
<1>6. Control' /\ Complete'
  BY <1>1, <1>3, <1>4 DEF Control, Complete, AtRest, Silent, Searches, Serving
<1>7. Repaired'
  <2>1. proc.schema \in Nat /\ v \in Nat
    BY Versions, LocalStoreAssumption DEF IInv
  <2>2. ASSUME NEW d, Current(d), d.sentinel \in Int PROVE Current(d)'
    <3>1. d.sentinel <= v /\ (d.sentinel = v => v = proc.schema)
      BY <1>1, <2>1, <2>2 DEF Current
    <3>2. Within(d, 0 .. v)
      BY <1>1, <2>1, <2>2 DEF Current, Within
    <3> QED
      BY <1>2, <2>2, <3>1, <3>2 DEF Current, Within
  <2>3. db.sentinel \in Int /\ durable.sentinel \in Int
    <3>1. db \in Tables(Len(log)) /\ durable \in Tables(Len(log))
      BY DEF IInv, Types
    <3>2. WipeInProgress .. MaxSchema \subseteq Int
      BY LocalStoreAssumption DEF WipeInProgress
    <3> QED
      BY <3>1, <3>2 DEF Tables
  <2>4. Wiping'
    BY <1>2 DEF Wiping
  <2> QED
    BY <1>1, <1>4, <2>2, <2>3, <2>4 DEF IInv, Repaired, Current, Within
<1>8. Batched'
  BY <1>1, <1>4, BatchedSame DEF IInv
<1> QED
  BY <1>5, <1>6, <1>7, <1>8 DEF IInv

\* A statement of a process that does not serve, at its step `from`.
LEMMA WipeOK ==
    ASSUME LocalStoreAssumption, IInv, ~Serving, NEW from, NEW to, NEW d \in Tables(Len(log)),
           from # "down", [proc EXCEPT !.step = to] \in Procs, Step(from, to), Execute(d),
           UNCHANGED <<log, poller, reader, ready, spoiled>>, kept' \in BOOLEAN,
           d.chunk = db.chunk, d.from = db.from, d.fp = db.fp, d.doc = db.doc,
           d.bound = db.bound, d.note = db.note,
           ~kept' => /\ Current(d)
                     /\ to \in {"clear parts", "clear prints", "set sentinel"} => d.cache = NoText
                     /\ to \in {"clear prints", "set sentinel"} => d.part = NoText
                     /\ to = "set sentinel" => d.print = 0
    PROVE  IInv'
<1>1. proc' = [proc EXCEPT !.step = to] /\ proc.step = from
  BY DEF Step
<1>2. proc'.kind = proc.kind /\ proc'.schema = proc.schema /\ proc'.step = to
  BY <1>1 DEF IInv, Types
<1>3. poller = AtRest /\ reader = Silent /\ ready = FALSE /\ tx = FALSE /\ db = durable
  BY DEF IInv, Control, Types
<1>4. db' = d /\ durable' = d /\ tx' = FALSE
  BY <1>3 DEF Execute
<1>5. Types'
  <2>1. proc.kind # "down"
    BY <1>1 DEF IInv, Types
  <2>2. proc' \in Procs
    BY <1>1
  <2> QED
    BY <1>2, <1>4, <2>1, <2>2 DEF IInv, Types, Procs
<1>6. Control' /\ Complete'
  BY <1>3, <1>4 DEF Control, Complete, AtRest, Silent, Searches, Serving
<1>7. Repaired'
  BY <1>2, <1>4 DEF Repaired, Current, Within, Wiping
<1>8. Batched'
  <2>1. poller'.step = poller.step
    OBVIOUS
  <2> QED
    BY <1>3, <2>1, Unbatched DEF IInv
<1> QED
  BY <1>5, <1>6, <1>7, <1>8 DEF IInv

\* The values of the sentinel.
LEMMA Sentinels ==
    ASSUME LocalStoreAssumption, NEW v \in 1 .. MaxSchema
    PROVE  /\ v \in Nat /\ v \in 0 .. MaxSchema /\ v \in WipeInProgress .. MaxSchema
           /\ WipeInProgress \in WipeInProgress .. MaxSchema
           /\ WipeInProgress <= v /\ WipeInProgress # v
           /\ Missing \in WipeInProgress .. MaxSchema /\ Missing <= v /\ Missing # v
           /\ 0 \in 0 .. MaxSchema /\ 0 \in 0 .. v /\ v \in 0 .. v /\ v <= v
BY DEF LocalStoreAssumption, WipeInProgress, Missing

\* There is no vector in an empty table.
LEMMA Empty ==
    ASSUME LocalStoreAssumption
    PROVE  NoText \in [Changes -> 0 .. MaxSchema] /\ \A p \in Changes : NoText[p] = 0
BY DEF NoText, LocalStoreAssumption

\* Vectors and fingerprints that go leave the others of the schemas they should be.
LEMMA CurrentLess ==
    ASSUME LocalStoreAssumption, Types, Current(db), NEW d,
           d.part \in {db.part, NoText}, d.cache \in {db.cache, NoText},
           d.print \in {db.print, 0}, d.sentinel \in {db.sentinel, Missing}
    PROVE  Current(d)
<1>1. PICK v \in 1 .. MaxSchema : v = proc.schema
  BY Versions
<1>2. Missing <= v /\ Missing # v /\ 0 \in 0 .. v
  BY Sentinels
<1>3. ASSUME NEW S, Within(db, S), 0 \in S PROVE Within(d, S)
  <2>1. \A p \in Changes : NoText[p] \in S
    BY <1>3, Empty
  <2> QED
    BY <1>3, <2>1 DEF Within
<1>4. Within(d, 0 .. v)
  BY <1>1, <1>2, <1>3 DEF Current
<1>5. d.sentinel <= v /\ (d.sentinel = v => db.sentinel = v)
  BY <1>1, <1>2 DEF Current
<1>6. d.sentinel = v => Within(d, {0, v})
  BY <1>1, <1>3, <1>5 DEF Current
<1> QED
  BY <1>1, <1>4, <1>5, <1>6 DEF Current

\* A step of a wipe, or of what index --force drops.
LEMMA WipeStepOK ==
    ASSUME LocalStoreAssumption, IInv, ~Serving, NEW from, NEW d \in Tables(Len(log)),
           NEW to \in {"ready", "clear parts", "clear prints", "set sentinel", "drop sentinel",
                       "drop prints", "index"},
           from # "down", WipeStep(from, to, d),
           d.chunk = db.chunk, d.from = db.from, d.fp = db.fp, d.doc = db.doc,
           d.bound = db.bound, d.note = db.note,
           ~kept => /\ Current(d)
                    /\ to \in {"clear parts", "clear prints", "set sentinel"} => d.cache = NoText
                    /\ to \in {"clear prints", "set sentinel"} => d.part = NoText
                    /\ to = "set sentinel" => d.print = 0
    PROVE  IInv'
<1>1. /\ Step(from, to) /\ Execute(d) /\ kept' = kept
      /\ UNCHANGED <<log, poller, reader, ready, spoiled>>
  BY DEF WipeStep, history
<1>2. [proc EXCEPT !.step = to] \in Procs /\ kept' \in BOOLEAN
  BY <1>1 DEF IInv, Types, Procs
<1> QED
  BY <1>1, <1>2, WipeOK

\* The start's check of the schema.
LEMMA CheckSchemaVersionOK ==
    ASSUME LocalStoreAssumption, IInv, CheckSchemaVersion
    PROVE  IInv'
<1>1. PICK current, empty :
        /\ current = (db.sentinel = proc.schema)
        /\ empty = (db.sentinel = Missing /\ db.print = 0 /\ db.part = NoText)
        /\ Step("check", IF current \/ empty THEN "ready" ELSE "clear cache")
        /\ IF current THEN UNCHANGED connection
           ELSE Execute([db EXCEPT !.sentinel = IF empty THEN proc.schema ELSE WipeInProgress])
        /\ kept' = (kept \/ (~current /\ empty /\ db.cache # NoText))
        /\ UNCHANGED <<log, poller, reader, ready, spoiled>>
  BY DEF CheckSchemaVersion, CheckSentinel
<1>2. Types /\ proc.step = "check" /\ ~Serving /\ ~tx /\ db = durable /\ db \in Tables(Len(log))
  BY <1>1 DEF Step, Serving, IInv, Control, Types
<1>3. PICK to \in {"ready", "clear cache"} :
        to = IF current \/ empty THEN "ready" ELSE "clear cache"
  OBVIOUS
<1>4. /\ [proc EXCEPT !.step = to] \in Procs /\ Step("check", to)
      /\ to \notin {"clear parts", "clear prints", "set sentinel"} /\ kept' \in BOOLEAN
  BY <1>1, <1>2, <1>3 DEF Types, Procs
<1>5. PICK v \in 1 .. MaxSchema : v = proc.schema
  BY <1>2, Versions
<1>6. /\ v \in WipeInProgress .. MaxSchema /\ WipeInProgress \in WipeInProgress .. MaxSchema
      /\ WipeInProgress <= v /\ WipeInProgress # v /\ v <= v /\ 0 \in 0 .. v
  BY Sentinels
<1>7. ~kept => Current(db)
  BY DEF IInv, Repaired
<1>8. CASE current
  <2>1. Execute(db)
    BY <1>1, <1>2, <1>8 DEF Execute, connection
  <2>2. ~kept' => Current(db)
    BY <1>1, <1>7
  <2> QED
    BY <1>1, <1>2, <1>4, <2>1, <2>2, WipeOK
<1>9. CASE ~current
  <2>1. PICK value : value = IF empty THEN proc.schema ELSE WipeInProgress
    OBVIOUS
  <2>2. PICK d : d = [db EXCEPT !.sentinel = value]
    OBVIOUS
  <2>3. Execute(d)
    BY <1>1, <1>9, <2>1, <2>2
  <2>4. d \in Tables(Len(log))
    <3>1. value \in WipeInProgress .. MaxSchema
      BY <1>5, <1>6, <2>1
    <3> QED
      BY <1>2, <2>2, <3>1 DEF Tables
  <2>5. /\ d.doc = db.doc /\ d.bound = db.bound /\ d.fp = db.fp /\ d.chunk = db.chunk
        /\ d.from = db.from /\ d.part = db.part /\ d.cache = db.cache /\ d.note = db.note
        /\ d.print = db.print /\ d.sentinel = value
    BY <1>2, <2>2 DEF Tables
  <2>6. ~kept' => Current(d)
    <3> SUFFICES ASSUME ~kept' PROVE Current(d)
      OBVIOUS
    <3>1. Current(db)
      BY <1>1, <1>7
    <3>2. CASE empty
      <4>1. db.cache = NoText /\ db.part = NoText /\ db.print = 0 /\ value = v
        BY <1>1, <1>5, <1>9, <2>1, <3>2
      <4>2. Within(d, {0, v}) /\ Within(d, 0 .. v)
        BY <1>6, <2>5, <4>1, Empty DEF Within
      <4> QED
        BY <1>5, <1>6, <2>5, <4>1, <4>2 DEF Current
    <3>3. CASE ~empty
      <4>1. value <= v /\ value # v
        BY <1>6, <2>1, <3>3
      <4> QED
        BY <1>5, <2>5, <3>1, <4>1 DEF Current, Within
    <3> QED
      BY <3>2, <3>3
  <2> QED
    BY <1>1, <1>2, <1>4, <2>3, <2>4, <2>5, <2>6, WipeOK
<1> QED
  BY <1>1, <1>8, <1>9

\* A wipe, and what index --force drops before it indexes.
LEMMA DropOK ==
    ASSUME LocalStoreAssumption, IInv, Wipe \/ FullIndex
    PROVE  IInv'
<1>1. /\ Types /\ db \in Tables(Len(log)) /\ NoText \in [Changes -> 0 .. MaxSchema]
      /\ proc.schema \in WipeInProgress .. MaxSchema /\ Missing \in WipeInProgress .. MaxSchema
      /\ 0 \in 0 .. MaxSchema
  <2>1. Types
    BY DEF IInv
  <2>2. PICK v \in 1 .. MaxSchema : v = proc.schema
    BY <2>1, Versions
  <2> QED
    BY <2>1, <2>2, Sentinels, Empty DEF Types
<1>2. ~kept => Current(db) /\ Wiping
  BY DEF IInv, Repaired
<1>3. CASE WipeStep("clear cache", "clear parts", [db EXCEPT !.cache = NoText])
  <2>1. PICK d : d = [db EXCEPT !.cache = NoText]
    OBVIOUS
  <2>2. /\ d.doc = db.doc /\ d.bound = db.bound /\ d.fp = db.fp /\ d.chunk = db.chunk
        /\ d.from = db.from /\ d.part = db.part /\ d.cache = NoText /\ d.note = db.note
        /\ d.print = db.print /\ d.sentinel = db.sentinel /\ d \in Tables(Len(log))
    BY <1>1, <2>1 DEF Tables
  <2>3. WipeStep("clear cache", "clear parts", d)
    BY <1>3, <2>1
  <2>4. proc.step = "clear cache"
    BY <2>3 DEF WipeStep, Step
  <2>5. ~Serving
    BY <2>4 DEF Serving
  <2>6. /\ d.part \in {db.part, NoText} /\ d.cache \in {db.cache, NoText}
        /\ d.print \in {db.print, 0} /\ d.sentinel \in {db.sentinel, Missing}
    BY <2>2
  <2>7. ~kept => Current(d)
    BY <1>1, <1>2, <2>6, CurrentLess
  <2> QED
    BY <2>2, <2>3, <2>5, <2>7, WipeStepOK
<1>4. CASE WipeStep("clear parts", "clear prints", [db EXCEPT !.part = NoText])
  <2>1. PICK d : d = [db EXCEPT !.part = NoText]
    OBVIOUS
  <2>2. /\ d.doc = db.doc /\ d.bound = db.bound /\ d.fp = db.fp /\ d.chunk = db.chunk
        /\ d.from = db.from /\ d.part = NoText /\ d.cache = db.cache /\ d.note = db.note
        /\ d.print = db.print /\ d.sentinel = db.sentinel /\ d \in Tables(Len(log))
    BY <1>1, <2>1 DEF Tables
  <2>3. WipeStep("clear parts", "clear prints", d)
    BY <1>4, <2>1
  <2>4. proc.step = "clear parts"
    BY <2>3 DEF WipeStep, Step
  <2>5. ~Serving
    BY <2>4 DEF Serving
  <2>6. /\ d.part \in {db.part, NoText} /\ d.cache \in {db.cache, NoText}
        /\ d.print \in {db.print, 0} /\ d.sentinel \in {db.sentinel, Missing}
    BY <2>2
  <2>7. ~kept => d.cache = NoText
    BY <1>2, <2>2, <2>4 DEF Wiping
  <2>8. ~kept => Current(d) /\ d.cache = NoText
    BY <1>1, <1>2, <2>6, <2>7, CurrentLess
  <2> QED
    BY <2>2, <2>3, <2>5, <2>8, WipeStepOK
<1>5. CASE WipeStep("clear prints", "set sentinel", [db EXCEPT !.print = 0])
  <2>1. PICK d : d = [db EXCEPT !.print = 0]
    OBVIOUS
  <2>2. /\ d.doc = db.doc /\ d.bound = db.bound /\ d.fp = db.fp /\ d.chunk = db.chunk
        /\ d.from = db.from /\ d.part = db.part /\ d.cache = db.cache /\ d.note = db.note
        /\ d.print = 0 /\ d.sentinel = db.sentinel /\ d \in Tables(Len(log))
    BY <1>1, <2>1 DEF Tables
  <2>3. WipeStep("clear prints", "set sentinel", d)
    BY <1>5, <2>1
  <2>4. proc.step = "clear prints"
    BY <2>3 DEF WipeStep, Step
  <2>5. ~Serving
    BY <2>4 DEF Serving
  <2>6. /\ d.part \in {db.part, NoText} /\ d.cache \in {db.cache, NoText}
        /\ d.print \in {db.print, 0} /\ d.sentinel \in {db.sentinel, Missing}
    BY <2>2
  <2>7. ~kept => d.cache = NoText /\ d.part = NoText
    BY <1>2, <2>2, <2>4 DEF Wiping
  <2>8. ~kept => Current(d) /\ d.cache = NoText /\ d.part = NoText
    BY <1>1, <1>2, <2>6, <2>7, CurrentLess
  <2> QED
    BY <2>2, <2>3, <2>5, <2>8, WipeStepOK
<1>6. CASE WipeStep("set sentinel", "ready", [db EXCEPT !.sentinel = proc.schema])
  <2>1. PICK d : d = [db EXCEPT !.sentinel = proc.schema]
    OBVIOUS
  <2>2. /\ d.doc = db.doc /\ d.bound = db.bound /\ d.fp = db.fp /\ d.chunk = db.chunk
        /\ d.from = db.from /\ d.part = db.part /\ d.cache = db.cache /\ d.note = db.note
        /\ d.print = db.print /\ d.sentinel = proc.schema /\ d \in Tables(Len(log))
    BY <1>1, <2>1 DEF Tables
  <2>3. WipeStep("set sentinel", "ready", d)
    BY <1>6, <2>1
  <2>4. proc.step = "set sentinel"
    BY <2>3 DEF WipeStep, Step
  <2>5. ~Serving
    BY <2>4 DEF Serving
  <2>6. ~kept => Current(d)
    <3> SUFFICES ASSUME ~kept PROVE Current(d)
      OBVIOUS
    <3>1. db.cache = NoText /\ db.part = NoText /\ db.print = 0
      BY <1>2, <2>4 DEF Wiping
    <3>2. PICK v \in 1 .. MaxSchema : v = proc.schema
      BY <1>1, Versions
    <3>3. v <= v /\ 0 \in 0 .. v
      BY Sentinels
    <3>4. Within(d, {0, v}) /\ Within(d, 0 .. v)
      BY <2>2, <3>1, <3>3, Empty DEF Within
    <3> QED
      BY <2>2, <3>2, <3>3, <3>4 DEF Current
  <2> QED
    BY <2>2, <2>3, <2>5, <2>6, WipeStepOK
<1>7. CASE ForceStep("ready", "drop sentinel", [db EXCEPT !.part = NoText])
  <2>1. PICK d : d = [db EXCEPT !.part = NoText]
    OBVIOUS
  <2>2. /\ d.doc = db.doc /\ d.bound = db.bound /\ d.fp = db.fp /\ d.chunk = db.chunk
        /\ d.from = db.from /\ d.part = NoText /\ d.cache = db.cache /\ d.note = db.note
        /\ d.print = db.print /\ d.sentinel = db.sentinel /\ d \in Tables(Len(log))
    BY <1>1, <2>1 DEF Tables
  <2>3. WipeStep("ready", "drop sentinel", d) /\ proc.kind = "force"
    BY <1>7, <2>1 DEF ForceStep
  <2>4. proc.step = "ready"
    BY <2>3 DEF WipeStep, Step
  <2>5. ~Serving
    BY <2>3 DEF Serving
  <2>6. /\ d.part \in {db.part, NoText} /\ d.cache \in {db.cache, NoText}
        /\ d.print \in {db.print, 0} /\ d.sentinel \in {db.sentinel, Missing}
    BY <2>2
  <2>7. ~kept => Current(d)
    BY <1>1, <1>2, <2>6, CurrentLess
  <2> QED
    BY <2>2, <2>3, <2>5, <2>7, WipeStepOK
<1>8. CASE ForceStep("drop sentinel", "drop prints", [db EXCEPT !.sentinel = Missing])
  <2>1. PICK d : d = [db EXCEPT !.sentinel = Missing]
    OBVIOUS
  <2>2. /\ d.doc = db.doc /\ d.bound = db.bound /\ d.fp = db.fp /\ d.chunk = db.chunk
        /\ d.from = db.from /\ d.part = db.part /\ d.cache = db.cache /\ d.note = db.note
        /\ d.print = db.print /\ d.sentinel = Missing /\ d \in Tables(Len(log))
    BY <1>1, <2>1 DEF Tables
  <2>3. WipeStep("drop sentinel", "drop prints", d) /\ proc.kind = "force"
    BY <1>8, <2>1 DEF ForceStep
  <2>4. proc.step = "drop sentinel"
    BY <2>3 DEF WipeStep, Step
  <2>5. ~Serving
    BY <2>3 DEF Serving
  <2>6. /\ d.part \in {db.part, NoText} /\ d.cache \in {db.cache, NoText}
        /\ d.print \in {db.print, 0} /\ d.sentinel \in {db.sentinel, Missing}
    BY <2>2
  <2>7. ~kept => Current(d)
    BY <1>1, <1>2, <2>6, CurrentLess
  <2> QED
    BY <2>2, <2>3, <2>5, <2>7, WipeStepOK
<1>9. CASE ForceStep("drop prints", "index", [db EXCEPT !.print = 0])
  <2>1. PICK d : d = [db EXCEPT !.print = 0]
    OBVIOUS
  <2>2. /\ d.doc = db.doc /\ d.bound = db.bound /\ d.fp = db.fp /\ d.chunk = db.chunk
        /\ d.from = db.from /\ d.part = db.part /\ d.cache = db.cache /\ d.note = db.note
        /\ d.print = 0 /\ d.sentinel = db.sentinel /\ d \in Tables(Len(log))
    BY <1>1, <2>1 DEF Tables
  <2>3. WipeStep("drop prints", "index", d) /\ proc.kind = "force"
    BY <1>9, <2>1 DEF ForceStep
  <2>4. proc.step = "drop prints"
    BY <2>3 DEF WipeStep, Step
  <2>5. ~Serving
    BY <2>3 DEF Serving
  <2>6. /\ d.part \in {db.part, NoText} /\ d.cache \in {db.cache, NoText}
        /\ d.print \in {db.print, 0} /\ d.sentinel \in {db.sentinel, Missing}
    BY <2>2
  <2>7. ~kept => Current(d)
    BY <1>1, <1>2, <2>6, CurrentLess
  <2> QED
    BY <2>2, <2>3, <2>5, <2>7, WipeStepOK
<1> QED
  BY <1>3, <1>4, <1>5, <1>6, <1>7, <1>8, <1>9 DEF Wipe, FullIndex, DropVectors

\* A process that is gone.
LEMMA Gone ==
    ASSUME LocalStoreAssumption, Types, Died
    PROVE  /\ proc' \in Procs /\ proc'.kind = "down" /\ proc'.step = "down"
           /\ proc'.schema = proc.schema
           /\ poller' = AtRest /\ reader' = Silent /\ ready' = FALSE
           /\ poller' \in [step : {"idle", "embed", "begin"} \cup InTry, change : 0 .. Len(log)]
           /\ poller'.step = "idle" /\ poller'.change = 0 /\ poller'.step \notin InTry
           /\ reader' \in Readers /\ reader'.older = {} /\ reader'.step = "idle"
<1>1. PICK v \in 1 .. MaxSchema : v = proc.schema
  BY Versions
<1>2. proc' = [Down EXCEPT !.schema = v]
  BY <1>1 DEF Died
<1>3. proc' = [kind |-> "down", step |-> "down", schema |-> v]
  BY <1>2 DEF Down
<1>4. proc' \in Procs /\ proc'.kind = "down" /\ proc'.step = "down" /\ proc'.schema = v
  BY <1>3 DEF Procs
<1>5. poller' = AtRest /\ reader' = Silent /\ ready' = FALSE
  BY DEF Died
<1>6. AtRest \in [step : {"idle", "embed", "begin"} \cup InTry, change : 0 .. Len(log)]
      /\ AtRest.step = "idle" /\ AtRest.change = 0 /\ "idle" \notin InTry
  <2>1. 0 \in 0 .. Len(log)
    BY Numbered
  <2> QED
    BY <2>1 DEF AtRest, InTry
<1>7. Silent \in Readers /\ Silent.older = {} /\ Silent.step = "idle"
  BY DEF Silent, Readers
<1> QED
  BY <1>1, <1>4, <1>5, <1>6, <1>7

\* The process dies: what was not committed is gone with it.
LEMMA ExitOK ==
    ASSUME LocalStoreAssumption, IInv, Exit
    PROVE  IInv'
<1>1. Types /\ Died /\ tx' = FALSE /\ db' = durable /\ durable' = durable
      /\ UNCHANGED <<log, spoiled, kept>>
  BY DEF Exit, Reopened, history, IInv
<1>2. /\ proc' \in Procs /\ proc'.kind = "down" /\ proc'.step = "down"
      /\ proc'.schema = proc.schema
      /\ poller' = AtRest /\ reader' = Silent /\ ready' = FALSE
      /\ poller' \in [step : {"idle", "embed", "begin"} \cup InTry, change : 0 .. Len(log)]
      /\ poller'.step = "idle" /\ poller'.change = 0 /\ poller'.step \notin InTry
      /\ reader' \in Readers /\ reader'.older = {} /\ reader'.step = "idle"
  BY <1>1, Gone
<1>3. Types'
  BY <1>1, <1>2 DEF Types, Procs
<1>4. Control' /\ Complete'
  BY <1>1, <1>2 DEF Control, Complete, Searches, Serving
<1>5. Repaired'
  BY <1>1, <1>2 DEF IInv, Repaired, Current, Within, Wiping
<1>6. Batched'
  <2> SUFFICES ASSUME ~spoiled' PROVE Good(durable)'
    BY <1>2 DEF Batched
  <2>1. Good(durable)
    BY <1>1 DEF IInv, Batched
  <2> QED
    BY <1>1, <2>1, GoodSame
<1> QED
  BY <1>3, <1>4, <1>5, <1>6 DEF IInv

\* reset-index takes away the messages and what they were found by.
LEMMA ResetIndexOK ==
    ASSUME LocalStoreAssumption, IInv, ResetIndex
    PROVE  IInv'
<1>1. /\ Types /\ ~tx /\ db = durable /\ proc.step = "ready" /\ Execute(Purged(db))
      /\ UNCHANGED <<log, spoiled, kept>>
  BY DEF ResetIndex, PurgeApplicationSource, history, IInv, Control
<1>2. PICK d : d = Purged(db)
  OBVIOUS
<1>3. db' = d /\ durable' = d /\ tx' = FALSE
  BY <1>1, <1>2 DEF Execute, Types
<1>4. /\ d.doc = {} /\ d.bound = {} /\ d.chunk = db.chunk \ db.from /\ d.from = {}
      /\ d.fp = Unseen /\ d.cursor = 0 /\ d.cache = db.cache /\ d.note = db.note
      /\ d.print = db.print /\ d.sentinel = db.sentinel
      /\ d.part = [p \in Changes |-> IF p \in db.from THEN 0 ELSE db.part[p]]
  BY <1>1, <1>2 DEF Purged, ChunksPurged, Types, Tables
<1>5. d \in Tables(Len(log))
  <2>1. db \in Tables(Len(log)) /\ Len(log) \in Nat
    BY <1>1, Numbered DEF Types
  <2>2. d.fp \in [Units -> 0 .. Len(log)] /\ d.cursor \in 0 .. Len(log)
    BY <1>4, <2>1 DEF Unseen
  <2>3. d.part \in [Changes -> 0 .. MaxSchema]
    BY <1>4, <2>1, LocalStoreAssumption DEF Tables
  <2>4. d = [doc |-> d.doc, bound |-> d.bound, fp |-> d.fp, chunk |-> d.chunk, from |-> d.from,
             cursor |-> d.cursor, part |-> d.part, cache |-> d.cache, note |-> d.note,
             print |-> d.print, sentinel |-> d.sentinel]
    BY <1>2, <2>1 DEF Purged, ChunksPurged, Tables
  <2> QED
    BY <1>4, <2>1, <2>2, <2>3, <2>4 DEF Tables
<1>6. /\ proc' \in Procs /\ proc'.schema = proc.schema /\ proc'.step \in {"ready", "down"}
      /\ proc'.kind = "down" => proc'.step = "down"
      /\ poller'.step \in InTry => poller'.step = poller.step
      /\ poller' \in [step : {"idle", "embed", "begin"} \cup InTry, change : 0 .. Len(log)]
      /\ poller'.step = "idle" <=> poller'.change = 0
      /\ reader' \in Readers /\ reader'.older \subseteq DOMAIN log /\ ready' \in BOOLEAN
      /\ reader'.step \in Searches => poller'.step = "idle"
      /\ ~Serving' => poller' = AtRest /\ reader' = Silent /\ ready' = FALSE
      /\ ready' => ready
      /\ reader'.step \in {"refs", "documents"} => reader'.step = reader.step
  <2>1. CASE Died
    BY <1>1, <2>1, Gone DEF Searches
  <2>2. CASE UNCHANGED <<proc, poller, reader, ready>>
    BY <1>1, <2>2 DEF IInv, Types, Procs, Control, Serving
  <2> QED
    BY <2>1, <2>2 DEF ResetIndex
<1>7. Types'
  BY <1>1, <1>3, <1>5, <1>6 DEF Types, Procs
<1>8. Control'
  BY <1>3, <1>6 DEF Control
<1>9. Complete'
  <2>1. NoteIncomplete' = NoteIncomplete /\ DocumentMissing' = DocumentMissing
    BY <1>3, <1>4 DEF NoteIncomplete, DocumentMissing
  <2> QED
    BY <1>6, <2>1 DEF IInv, Complete
<1>10. Repaired'
  <2> SUFFICES ASSUME ~kept PROVE Current(d)'
    BY <1>1, <1>3, <1>6 DEF Repaired, Wiping
  <2>1. Current(db)
    BY DEF IInv, Repaired
  <2>2. PICK v \in 1 .. MaxSchema : v = proc.schema /\ 0 \in 0 .. v
    BY <1>1, Versions, Sentinels
  <2>3. ASSUME NEW S, Within(db, S), 0 \in S PROVE Within(d, S)
    BY <1>4, <2>3 DEF Within
  <2>4. Current(d)
    BY <1>4, <2>1, <2>2, <2>3 DEF Current
  <2> QED
    BY <1>6, <2>4 DEF Current
<1>11. Batched'
  <2> SUFFICES ASSUME ~spoiled' PROVE Good(d)' /\ poller'.step \notin InTry
    BY <1>3 DEF Batched, Good, GoodUnit
  <2>1. Good(db) /\ poller.step \notin InTry
    BY <1>1 DEF IInv, Batched
  <2>2. d.chunk = {} /\ d.from = {} /\ \A u \in Units : d.fp[u] = 0
    BY <1>4, <2>1 DEF Good, Unseen
  <2> QED
    BY <1>6, <2>1, <2>2 DEF Good, GoodUnit
<1> QED
  BY <1>7, <1>8, <1>9, <1>10, <1>11 DEF IInv

\* The batch as a value.
LEMMA BatchIs ==
    ASSUME NEW b, db' = b, (Batch(poller.step, b))'
    PROVE  (Batch(poller.step, db))'
<1>1. (Good(b))' => (Good(db))'
  BY DEF Good, GoodUnit
<1>2. \A u \in Units : (GoodUnit(b, u))' => (GoodUnit(db, u))'
  BY DEF GoodUnit
<1> QED
  BY <1>1, <1>2 DEF Batch

\* The source changes: what is recorded of its earlier changes stays true.
LEMMA PublishOK ==
    ASSUME LocalStoreAssumption, IInv, NEW u \in Units, Publish(u)
    PROVE  IInv'
<1>1. /\ Types /\ Len(log) < MaxChanges /\ log' = Append(log, u)
      /\ UNCHANGED <<db, durable, tx, proc, poller, reader, ready, spoiled, kept>>
  BY DEF Publish, history, connection, IInv
<1>2. /\ log \in Seq(Units) /\ Len(log) \in Nat /\ DOMAIN log = 1 .. Len(log)
      /\ \A p \in 1 .. Len(log) : log[p] \in Units
  BY <1>1, Numbered DEF Types
<1>3. /\ log' \in Seq(Units) /\ Len(log') = Len(log) + 1 /\ Len(log') <= MaxChanges
      /\ DOMAIN log' = 1 .. Len(log') /\ \A p \in 1 .. Len(log) : log'[p] = log[p]
  BY <1>1, <1>2, LocalStoreAssumption
<1>4. 1 .. Len(log) \subseteq 1 .. Len(log') /\ 0 .. Len(log) \subseteq 0 .. Len(log')
  BY <1>2, <1>3
<1>5. Tables(Len(log)) \subseteq Tables(Len(log'))
  <2>1. SUBSET (1 .. Len(log)) \subseteq SUBSET (1 .. Len(log'))
    BY <1>4
  <2>2. [Units -> 0 .. Len(log)] \subseteq [Units -> 0 .. Len(log')]
    BY <1>4
  <2> QED
    BY <1>4, <2>1, <2>2 DEF Tables
<1>6. Types'
  <2>1. db \in Tables(Len(log')) /\ durable \in Tables(Len(log'))
    BY <1>1, <1>5 DEF Types
  <2>2. poller \in [step : {"idle", "embed", "begin"} \cup InTry, change : 0 .. Len(log')]
    BY <1>1, <1>4 DEF Types
  <2>3. reader.older \subseteq DOMAIN log'
    BY <1>1, <1>2, <1>3, <1>4 DEF Types
  <2> QED
    BY <1>1, <1>3, <2>1, <2>2, <2>3 DEF Types
<1>7. Control' /\ Complete'
  BY <1>1 DEF IInv, Control, Complete, Serving, NoteIncomplete, DocumentMissing
<1>8. Repaired'
  BY <1>1 DEF IInv, Repaired, Current, Within, Wiping
<1>9. ASSUME NEW d \in Tables(Len(log)), NEW w \in Units
      PROVE  GoodUnit(d, w) => (GoodUnit(d, w))'
  <2>1. d.chunk \subseteq 1 .. Len(log)
    BY DEF Tables
  <2> QED
    BY <1>3, <2>1 DEF GoodUnit
<1>10. ASSUME NEW d \in Tables(Len(log)) PROVE Good(d) => (Good(d))'
  BY <1>9 DEF Good
<1>11. Batched'
  <2> SUFFICES ASSUME ~spoiled
               PROVE  (Good(durable))' /\ (poller.step \in InTry => tx /\ (Batch(poller.step, db))')
    BY <1>1 DEF Batched
  <2>1. PICK b, c : b = db /\ c = durable
    OBVIOUS
  <2>2. b \in Tables(Len(log)) /\ c \in Tables(Len(log)) /\ Good(c)
    BY <1>1, <2>1 DEF IInv, Types, Batched
  <2>3. db' = b /\ durable' = c
    BY <1>1, <2>1
  <2>4. (Good(durable))'
    <3>1. (Good(c))'
      BY <1>10, <2>2
    <3> QED
      BY <2>3, <3>1 DEF Good, GoodUnit
  <2>5. CASE poller.step \in InTry
    <3>1. tx /\ Batch(poller.step, b)
      BY <2>1, <2>5 DEF IInv, Batched
    <3>2. poller.change \in 1 .. Len(log)
      <4>1. poller.step # "idle" /\ poller.change \in 0 .. Len(log) /\ poller.change # 0
        BY <1>1, <2>5 DEF Types, InTry
      <4> QED
        BY <1>2, <4>1
    <3>3. PICK w : w = Unit /\ w = Unit' /\ Dialog = DialogOf[w] /\ Dialog' = DialogOf[w]
      BY <1>1, <1>3, <3>2 DEF Unit, Dialog
    <3>4. Good(b) => (Good(b))'
      BY <1>10, <2>2
    <3>5. (\A x \in Units \ {w} : GoodUnit(b, x)) => (\A x \in Units \ {w} : GoodUnit(b, x))'
      BY <1>9, <2>2
    <3>6. (\A p \in b.from : log[p] # w) => (\A p \in b.from : log[p] # w)'
      <4>1. b.from \subseteq 1 .. Len(log)
        BY <2>2 DEF Tables
      <4> QED
        BY <1>3, <4>1
    <3>7. (Batch(poller.step, b))'
      BY <1>1, <3>1, <3>3, <3>4, <3>5, <3>6 DEF Batch
    <3> QED
      BY <1>1, <2>3, <2>4, <3>1, <3>7, BatchIs
  <2> QED
    BY <2>4, <2>5
<1> QED
  BY <1>6, <1>7, <1>8, <1>11 DEF IInv
-----------------------------------------------------------------------------
(* The poller                                                              *)

\* The change the poller is at.
LEMMA AtChange ==
    ASSUME LocalStoreAssumption, Types, poller.step # "idle"
    PROVE  /\ poller.change \in 1 .. Len(log) /\ poller.change \in Changes
           /\ poller.change \in 0 .. Len(log) /\ poller.change # 0
           /\ Unit \in Units /\ Dialog \in Dialogs /\ Dialog = DialogOf[Unit]
           /\ log[poller.change] = Unit
<1>1. poller.change \in 0 .. Len(log) /\ poller.change # 0 /\ Len(log) \in Nat
  BY Numbered DEF Types
<1>2. poller.change \in 1 .. Len(log)
  BY <1>1
<1> QED
  BY <1>1, <1>2, Numbered DEF Unit, Dialog, Dialogs

\* A statement of the batch.
LEMMA WriteOK ==
    ASSUME LocalStoreAssumption, IInv, NEW step \in InTry, NEW next \in InTry,
           NEW d \in Tables(Len(log)), Write(step, d, next), d.note = db.note,
           ~kept => Current(d), Batch(step, db) => Batch(next, d)
    PROVE  IInv'
<1>1. /\ Serving /\ poller.step = step /\ poller' = [poller EXCEPT !.step = next]
      /\ db' = d /\ durable' = (IF tx THEN durable ELSE d) /\ tx' = tx
      /\ UNCHANGED <<log, proc, reader, ready, spoiled, kept>>
  BY DEF Write, PollerAt, PollerTo, OfPoller, history, Execute
<1>2. Types /\ step # "idle" /\ next # "idle"
  BY DEF IInv, InTry
<1>3. poller'.step = next /\ poller'.change = poller.change
      /\ poller' \in [step : {"idle", "embed", "begin"} \cup InTry, change : 0 .. Len(log)]
  BY <1>1, <1>2 DEF Types
<1>4. Types'
  BY <1>1, <1>2, <1>3 DEF Types
<1>5. Control'
  BY <1>1, <1>2, <1>3 DEF IInv, Control, Serving
<1>6. Complete'
  BY <1>1 DEF IInv, Complete, NoteIncomplete, DocumentMissing
<1>7. Repaired'
  <2> SUFFICES ASSUME ~kept PROVE Current(d)' /\ (Current(durable))' /\ Wiping'
    BY <1>1 DEF Repaired, Current, Within
  <2>1. Current(d) /\ Current(durable)
    BY DEF IInv, Repaired
  <2>2. Current(d)'
    BY <1>1, <2>1 DEF Current, Within
  <2>3. (Current(durable))'
    BY <1>1, <2>1 DEF Current, Within
  <2>4. Wiping'
    BY <1>1 DEF Wiping, Serving
  <2> QED
    BY <2>2, <2>3, <2>4
<1>8. Batched'
  <2> SUFFICES ASSUME ~spoiled PROVE (Good(durable))' /\ tx' /\ (Batch(poller.step, db))'
    BY <1>1 DEF Batched
  <2>1. tx /\ Good(durable) /\ Batch(next, d)
    BY <1>1 DEF IInv, Batched
  <2>2. (Good(durable))'
    BY <1>1, <2>1 DEF Good, GoodUnit
  <2>3. (Batch(poller.step, d))'
    <3>1. Unit' = Unit /\ Dialog' = Dialog
      BY <1>1, <1>3 DEF Unit, Dialog
    <3>2. \A u \in Units : GoodUnit(d, u)' = GoodUnit(d, u)
      BY <1>1 DEF GoodUnit
    <3>3. Good(d)' = Good(d)
      BY <3>2 DEF Good
    <3> QED
      BY <1>1, <1>3, <2>1, <3>1, <3>2, <3>3 DEF Batch
  <2> QED
    BY <1>1, <2>1, <2>2, <2>3, BatchIs
<1> QED
  BY <1>4, <1>5, <1>6, <1>7, <1>8 DEF IInv

\* Vectors are left as they are, but for some that go.
LEMMA CurrentKeeps ==
    ASSUME LocalStoreAssumption, Types, Current(db), NEW d,
           \A p \in Changes : d.part[p] \in {db.part[p], 0},
           d.cache = db.cache, d.print = db.print, d.sentinel = db.sentinel
    PROVE  Current(d)
<1>1. PICK v \in 1 .. MaxSchema : v = proc.schema /\ 0 \in 0 .. v
  BY Versions, Sentinels
<1>2. ASSUME NEW S, Within(db, S), 0 \in S PROVE Within(d, S)
  BY <1>2 DEF Within
<1> QED
  BY <1>1, <1>2 DEF Current

\* What is written of the dialog, the fingerprint and the checkpoint.
LEMMA RecordOK ==
    ASSUME LocalStoreAssumption, IInv,
           UpsertDocument \/ UpsertBinding \/ UpsertFingerprint \/ WriteCheckpoint
    PROVE  IInv'
<1>1. Types /\ db \in Tables(Len(log)) /\ poller.step \in InTry /\ poller.step # "idle"
  BY DEF UpsertDocument, UpsertBinding, UpsertFingerprint, WriteCheckpoint, Write, PollerAt, InTry,
         IInv, Types
<1>2. PICK c, w, g : c = poller.change /\ w = Unit /\ g = Dialog
  OBVIOUS
<1>3. /\ c \in 0 .. Len(log) /\ c # 0 /\ c \in Changes /\ w \in Units /\ g \in Dialogs
      /\ g = DialogOf[w] /\ log[c] = w
  BY <1>1, <1>2, AtChange
<1>4. ~kept => Current(db)
  BY DEF IInv, Repaired
<1>5. ASSUME NEW d, d.part = db.part, d.cache = db.cache, d.print = db.print,
             d.sentinel = db.sentinel
      PROVE  ~kept => Current(d)
  BY <1>4, <1>5 DEF Current, Within
<1>6. CASE UpsertDocument
  <2>1. PICK d : d = [db EXCEPT !.doc = @ \cup {g}]
    OBVIOUS
  <2>2. /\ d.doc = db.doc \cup {g} /\ d.bound = db.bound /\ d.fp = db.fp /\ d.chunk = db.chunk
        /\ d.from = db.from /\ d.part = db.part /\ d.cache = db.cache /\ d.note = db.note
        /\ d.print = db.print /\ d.sentinel = db.sentinel /\ d \in Tables(Len(log))
    BY <1>1, <1>3, <2>1 DEF Tables
  <2>3. Write("document", d, "binding")
    BY <1>2, <1>6, <2>1 DEF UpsertDocument
  <2>4. Batch("document", db) => Batch("binding", d)
    BY <1>2, <2>2 DEF Batch, Good, GoodUnit
  <2>5. "document" \in InTry /\ "binding" \in InTry
    BY DEF InTry
  <2>6. ~kept => Current(d)
    BY <1>5, <2>2
  <2> QED
    BY <2>2, <2>3, <2>4, <2>5, <2>6, WriteOK
<1>7. CASE UpsertBinding
  <2>1. PICK d : d = [db EXCEPT !.bound = @ \cup {g}]
    OBVIOUS
  <2>2. /\ d.doc = db.doc /\ d.bound = db.bound \cup {g} /\ d.fp = db.fp /\ d.chunk = db.chunk
        /\ d.from = db.from /\ d.part = db.part /\ d.cache = db.cache /\ d.note = db.note
        /\ d.print = db.print /\ d.sentinel = db.sentinel /\ d \in Tables(Len(log))
    BY <1>1, <1>3, <2>1 DEF Tables
  <2>3. Write("binding", d, "fingerprint")
    BY <1>2, <1>7, <2>1 DEF UpsertBinding
  <2>4. Batch("binding", db) => Batch("fingerprint", d)
    BY <1>2, <2>2 DEF Batch, Good, GoodUnit
  <2>5. "binding" \in InTry /\ "fingerprint" \in InTry
    BY DEF InTry
  <2>6. ~kept => Current(d)
    BY <1>5, <2>2
  <2> QED
    BY <2>2, <2>3, <2>4, <2>5, <2>6, WriteOK
<1>8. CASE UpsertFingerprint
  <2>1. PICK d : d = [db EXCEPT !.fp[w] = c]
    OBVIOUS
  <2>2. /\ d.doc = db.doc /\ d.bound = db.bound /\ d.chunk = db.chunk
        /\ d.from = db.from /\ d.part = db.part /\ d.cache = db.cache /\ d.note = db.note
        /\ d.print = db.print /\ d.sentinel = db.sentinel /\ d \in Tables(Len(log))
        /\ d.fp[w] = c /\ \A u \in Units \ {w} : d.fp[u] = db.fp[u]
    BY <1>1, <1>3, <2>1 DEF Tables
  <2>3. PICK next : next = IF OnRecord(c) THEN "checkpoint" ELSE "old chunks"
    OBVIOUS
  <2>4. Write("fingerprint", d, next)
    BY <1>2, <1>8, <2>1, <2>3 DEF UpsertFingerprint
  <2>5. "fingerprint" \in InTry /\ next \in InTry
    BY <2>3 DEF InTry
  <2>6. ~kept => Current(d)
    BY <1>5, <2>2
  <2>7. ASSUME Batch("fingerprint", db) PROVE Batch(next, d)
    <3>1. Good(db) /\ g \in db.doc /\ g \in db.bound
      BY <1>2, <2>7 DEF Batch
    <3>2. \A u \in Units \ {w} : GoodUnit(d, u)
      BY <2>2, <3>1 DEF Good, GoodUnit
    <3>3. CASE OnRecord(c)
      <4>1. db.fp[w] = c /\ next = "checkpoint"
        BY <1>3, <2>3, <3>3 DEF OnRecord
      <4>2. GoodUnit(d, w)
        BY <1>3, <2>2, <3>1, <4>1 DEF Good, GoodUnit
      <4>3. Good(d)
        BY <2>2, <3>1, <3>2, <4>2 DEF Good
      <4> QED
        BY <1>2, <2>2, <3>1, <4>1, <4>3 DEF Batch
    <3>4. CASE ~OnRecord(c)
      <4>1. next = "old chunks"
        BY <2>3, <3>4
      <4>2. d.chunk = d.from
        BY <2>2, <3>1 DEF Good
      <4> QED
        BY <1>2, <2>2, <3>1, <3>2, <4>1, <4>2 DEF Batch
    <3> QED
      BY <3>3, <3>4
  <2> QED
    BY <2>2, <2>4, <2>5, <2>6, <2>7, WriteOK
<1>9. CASE WriteCheckpoint
  <2>1. PICK d : d = [db EXCEPT !.cursor = c]
    OBVIOUS
  <2>2. /\ d.doc = db.doc /\ d.bound = db.bound /\ d.fp = db.fp /\ d.chunk = db.chunk
        /\ d.from = db.from /\ d.part = db.part /\ d.cache = db.cache /\ d.note = db.note
        /\ d.print = db.print /\ d.sentinel = db.sentinel /\ d \in Tables(Len(log))
    BY <1>1, <1>3, <2>1 DEF Tables
  <2>3. Write("checkpoint", d, "commit")
    BY <1>2, <1>9, <2>1 DEF WriteCheckpoint
  <2>4. Batch("checkpoint", db) => Batch("commit", d)
    BY <1>2, <2>2 DEF Batch, Good, GoodUnit
  <2>5. "checkpoint" \in InTry /\ "commit" \in InTry
    BY DEF InTry
  <2>6. ~kept => Current(d)
    BY <1>5, <2>2
  <2> QED
    BY <2>2, <2>3, <2>4, <2>5, <2>6, WriteOK
<1> QED
  BY <1>6, <1>7, <1>8, <1>9

\* The old chunks of the message go, and the new one comes with its provenance and
\* its vector.
LEMMA ChunksOK ==
    ASSUME LocalStoreAssumption, IInv,
           DropOldChunks \/ InsertChunk \/ AddProvenance \/ StoreVector
    PROVE  IInv'
<1>1. Types /\ db \in Tables(Len(log)) /\ poller.step \in InTry /\ poller.step # "idle"
  BY DEF DropOldChunks, InsertChunk, AddProvenance, StoreVector, Write, PollerAt, InTry, IInv, Types
<1>2. PICK c, w, g : c = poller.change /\ w = Unit /\ g = Dialog
  OBVIOUS
<1>3. /\ c \in 1 .. Len(log) /\ c # 0 /\ c \in Changes /\ w \in Units /\ g \in Dialogs
      /\ g = DialogOf[w] /\ log[c] = w
  BY <1>1, <1>2, AtChange
<1>4. ~kept => Current(db)
  BY DEF IInv, Repaired
<1>5. ASSUME NEW d, d.part = db.part, d.cache = db.cache, d.print = db.print,
             d.sentinel = db.sentinel
      PROVE  ~kept => Current(d)
  BY <1>4, <1>5 DEF Current, Within
<1>6. CASE DropOldChunks
  <2>1. PICK old : old = {p \in db.from : log[p] = w}
    OBVIOUS
  <2>2. PICK d : d = [db EXCEPT !.from = @ \ old, !.chunk = @ \ old,
                                !.part = [p \in Changes |-> IF p \in old THEN 0 ELSE @[p]]]
    OBVIOUS
  <2>3. /\ d.doc = db.doc /\ d.bound = db.bound /\ d.fp = db.fp /\ d.chunk = db.chunk \ old
        /\ d.from = db.from \ old /\ d.cache = db.cache /\ d.note = db.note
        /\ d.print = db.print /\ d.sentinel = db.sentinel /\ d \in Tables(Len(log))
        /\ \A p \in Changes : d.part[p] \in {db.part[p], 0}
    <3>1. [p \in Changes |-> IF p \in old THEN 0 ELSE db.part[p]] \in [Changes -> 0 .. MaxSchema]
      BY <1>1, LocalStoreAssumption DEF Tables
    <3> QED
      BY <1>1, <2>2, <3>1 DEF Tables
  <2>4. Write("old chunks", d, "chunk")
    BY <1>2, <1>6, <2>1, <2>2 DEF DropOldChunks
  <2>5. Batch("old chunks", db) => Batch("chunk", d)
    BY <1>2, <2>1, <2>3 DEF Batch, GoodUnit
  <2>6. "old chunks" \in InTry /\ "chunk" \in InTry
    BY DEF InTry
  <2>7. ~kept => Current(d)
    BY <1>1, <1>4, <2>3, CurrentKeeps
  <2> QED
    BY <2>3, <2>4, <2>5, <2>6, <2>7, WriteOK
<1>7. CASE InsertChunk
  <2>1. PICK d : d = [db EXCEPT !.chunk = @ \cup {c}]
    OBVIOUS
  <2>2. /\ d.doc = db.doc /\ d.bound = db.bound /\ d.fp = db.fp /\ d.chunk = db.chunk \cup {c}
        /\ d.from = db.from /\ d.part = db.part /\ d.cache = db.cache /\ d.note = db.note
        /\ d.print = db.print /\ d.sentinel = db.sentinel /\ d \in Tables(Len(log))
    BY <1>1, <1>3, <2>1 DEF Tables
  <2>3. Write("chunk", d, "provenance")
    BY <1>2, <1>7, <2>1 DEF InsertChunk, NewChunk
  <2>4. Batch("chunk", db) => Batch("provenance", d)
    BY <1>2, <1>3, <2>2 DEF Batch, GoodUnit
  <2>5. "chunk" \in InTry /\ "provenance" \in InTry
    BY DEF InTry
  <2>6. ~kept => Current(d)
    BY <1>5, <2>2
  <2> QED
    BY <2>2, <2>3, <2>4, <2>5, <2>6, WriteOK
<1>8. CASE AddProvenance
  <2>1. PICK d : d = [db EXCEPT !.from = @ \cup {c}]
    OBVIOUS
  <2>2. /\ d.doc = db.doc /\ d.bound = db.bound /\ d.fp = db.fp /\ d.chunk = db.chunk
        /\ d.from = db.from \cup {c} /\ d.part = db.part /\ d.cache = db.cache /\ d.note = db.note
        /\ d.print = db.print /\ d.sentinel = db.sentinel /\ d \in Tables(Len(log))
    BY <1>1, <1>3, <2>1 DEF Tables
  <2>3. Write("provenance", d, "vector")
    BY <1>2, <1>8, <2>1 DEF AddProvenance, NewChunk
  <2>4. ASSUME Batch("provenance", db) PROVE Batch("vector", d)
    <3>1. /\ g \in db.doc /\ g \in db.bound /\ db.fp[w] = c /\ db.chunk = db.from \cup {c}
          /\ \A p \in db.from : log[p] # w
          /\ \A u \in Units \ {w} : GoodUnit(db, u)
      BY <1>2, <2>4 DEF Batch
    <3>2. GoodUnit(d, w) /\ \A u \in Units \ {w} : GoodUnit(d, u)
      BY <1>3, <2>2, <3>1 DEF GoodUnit
    <3>3. Good(d)
      BY <2>2, <3>1, <3>2 DEF Good
    <3> QED
      BY <1>2, <2>2, <3>1, <3>3 DEF Batch
  <2>5. "provenance" \in InTry /\ "vector" \in InTry
    BY DEF InTry
  <2>6. ~kept => Current(d)
    BY <1>5, <2>2
  <2> QED
    BY <2>2, <2>3, <2>4, <2>5, <2>6, WriteOK
<1>9. CASE StoreVector
  <2>1. PICK d : d = [db EXCEPT !.part[c] = db.cache[c]]
    OBVIOUS
  <2>2. /\ d.doc = db.doc /\ d.bound = db.bound /\ d.fp = db.fp /\ d.chunk = db.chunk
        /\ d.from = db.from /\ d.cache = db.cache /\ d.note = db.note
        /\ d.print = db.print /\ d.sentinel = db.sentinel /\ d \in Tables(Len(log))
        /\ \A p \in Changes : d.part[p] \in {db.part[p], db.cache[p]}
    BY <1>1, <1>3, <2>1 DEF Tables
  <2>3. Write("vector", d, "checkpoint")
    BY <1>2, <1>9, <2>1 DEF StoreVector, NewChunk
  <2>4. Batch("vector", db) => Batch("checkpoint", d)
    BY <1>2, <2>2 DEF Batch, Good, GoodUnit
  <2>5. "vector" \in InTry /\ "checkpoint" \in InTry
    BY DEF InTry
  <2>6. ~kept => Current(d)
    <3>1. ASSUME NEW S, Within(db, S) PROVE Within(d, S)
      BY <2>2, <3>1 DEF Within
    <3> QED
      BY <1>4, <2>2, <3>1 DEF Current
  <2> QED
    BY <2>2, <2>3, <2>4, <2>5, <2>6, WriteOK
<1> QED
  BY <1>6, <1>7, <1>8, <1>9

\* The poller outside the statements of a batch.
LEMMA ExportOK ==
    ASSUME LocalStoreAssumption, IInv, Export
    PROVE  IInv'
<1>1. /\ Types /\ Serving /\ poller.step = "idle" /\ ~Searching /\ ~tx
      /\ UNCHANGED <<db, durable, tx, log, proc, reader, ready, spoiled, kept>>
  BY DEF Export, PollerAt, OfPoller, history, connection, IInv, Control, InTry
<1>2. PICK p \in 1 .. Len(log) :
        poller' = [step |-> IF OnRecord(p) THEN "begin" ELSE "embed", change |-> p]
  <2>1. PICK p \in Feed(Checkpoint) :
          poller' = [step |-> IF OnRecord(p) THEN "begin" ELSE "embed", change |-> p]
    BY DEF Export
  <2>2. p \in db.cursor + 1 .. Len(log) /\ db.cursor \in 0 .. Len(log) /\ Len(log) \in Nat
    BY <1>1, <2>1, Numbered DEF Feed, Checkpoint, Types, Tables
  <2> QED
    BY <2>1, <2>2
<1>3. /\ poller'.step \in {"begin", "embed"} /\ poller'.change = p /\ p # 0 /\ p \in 0 .. Len(log)
      /\ poller' \in [step : {"idle", "embed", "begin"} \cup InTry, change : 0 .. Len(log)]
  <2>1. p # 0 /\ p \in 0 .. Len(log) /\ Len(log) \in Nat
    BY <1>1, <1>2, Numbered
  <2>2. PICK step \in {"begin", "embed"} : poller' = [step |-> step, change |-> p]
    BY <1>2
  <2> QED
    BY <2>1, <2>2
<1>4. Types'
  BY <1>1, <1>3 DEF Types
<1>5. Control'
  BY <1>1, <1>3 DEF IInv, Control, Serving, Searching, Searches
<1>6. Complete'
  BY <1>1 DEF IInv, Complete, NoteIncomplete, DocumentMissing
<1>7. Repaired'
  BY <1>1 DEF IInv, Repaired, Current, Within, Wiping
<1>8. Batched'
  <2>1. poller'.step \notin InTry
    BY <1>3 DEF InTry
  <2>2. Good(durable) => (Good(durable))'
    BY <1>1 DEF Good, GoodUnit
  <2> QED
    BY <1>1, <2>1, <2>2 DEF IInv, Batched
<1> QED
  BY <1>4, <1>5, <1>6, <1>7, <1>8 DEF IInv

\* The vector of the chunk is made, and remembered.
LEMMA EmbedOK ==
    ASSUME LocalStoreAssumption, IInv, Embed
    PROVE  IInv'
<1>1. /\ Types /\ Serving /\ poller.step = "embed" /\ ~tx /\ db \in Tables(Len(log))
      /\ poller' = [poller EXCEPT !.step = "begin"]
      /\ UNCHANGED <<log, proc, reader, ready, spoiled, kept>>
  BY DEF Embed, PollerAt, PollerTo, OfPoller, history, IInv, Control, InTry, Types
<1>2. PICK c \in Changes : c = poller.change
  BY <1>1, AtChange
<1>3. PICK v \in 1 .. MaxSchema : v = proc.schema /\ v \in 0 .. MaxSchema /\ v \in 0 .. v
  BY <1>1, Versions, Sentinels
<1>4. PICK value \in {db.cache[c], v} : Execute([db EXCEPT !.cache[c] = value])
  <2>1. Execute([db EXCEPT !.cache[c] = IF @ # 0 THEN @ ELSE v])
    BY <1>2, <1>3 DEF Embed, NewChunk
  <2>2. Execute([db EXCEPT !.cache[c] = IF db.cache[c] # 0 THEN db.cache[c] ELSE v])
    BY <2>1
  <2> QED
    BY <2>2
<1>5. PICK d : d = [db EXCEPT !.cache[c] = value]
  OBVIOUS
<1>6. /\ d.doc = db.doc /\ d.bound = db.bound /\ d.fp = db.fp /\ d.chunk = db.chunk
      /\ d.from = db.from /\ d.part = db.part /\ d.note = db.note
      /\ d.print = db.print /\ d.sentinel = db.sentinel /\ d \in Tables(Len(log))
      /\ \A p \in Changes : d.cache[p] \in {db.cache[p], v}
  BY <1>1, <1>3, <1>4, <1>5 DEF Tables
<1>7. Execute(d) /\ db' = d /\ durable' = d /\ tx' = FALSE
  BY <1>1, <1>4, <1>5 DEF Execute, Types
<1>8. poller'.step = "begin" /\ poller'.change = poller.change
      /\ poller' \in [step : {"idle", "embed", "begin"} \cup InTry, change : 0 .. Len(log)]
  BY <1>1 DEF Types
<1>9. Types'
  BY <1>1, <1>6, <1>7, <1>8 DEF Types
<1>10. Control'
  BY <1>1, <1>7, <1>8 DEF IInv, Control, Serving
<1>11. Complete'
  BY <1>1, <1>6, <1>7 DEF IInv, Complete, NoteIncomplete, DocumentMissing
<1>12. Repaired'
  <2> SUFFICES ASSUME ~kept PROVE Current(d)
    BY <1>1, <1>7 DEF Repaired, Current, Within, Wiping, Serving
  <2>1. Current(db)
    BY DEF IInv, Repaired
  <2>2. ASSUME NEW S, Within(db, S), v \in S PROVE Within(d, S)
    BY <1>6, <2>2 DEF Within
  <2> QED
    BY <1>3, <1>6, <2>1, <2>2 DEF Current
<1>13. Batched'
  <2>1. poller'.step \in InTry => poller'.step = poller.step
    BY <1>8 DEF InTry
  <2> QED
    BY <1>1, <1>6, <1>7, <2>1, Unbatched DEF IInv
<1> QED
  BY <1>9, <1>10, <1>11, <1>12, <1>13 DEF IInv

\* The transaction begins: its view is what is durable.
LEMMA BeginBatchOK ==
    ASSUME LocalStoreAssumption, IInv, BeginBatch
    PROVE  IInv'
<1>1. /\ Types /\ Serving /\ poller.step = "begin" /\ ~tx /\ db = durable
  BY DEF BeginBatch, PollerAt, IInv, Control, InTry
<1>2. /\ tx' = TRUE /\ db' = db /\ durable' = durable
      /\ poller' = [poller EXCEPT !.step = "document"]
      /\ UNCHANGED <<log, proc, reader, ready, spoiled, kept>>
  BY <1>1 DEF BeginBatch, Begin, PollerTo, OfPoller, history
<1>3. poller'.step = "document" /\ poller'.change = poller.change /\ poller'.step \in InTry
      /\ poller' \in [step : {"idle", "embed", "begin"} \cup InTry, change : 0 .. Len(log)]
  BY <1>1, <1>2 DEF Types, InTry
<1>4. Types'
  BY <1>1, <1>2, <1>3 DEF Types
<1>5. Control' /\ Complete'
  BY <1>1, <1>2, <1>3 DEF IInv, Control, Serving, Complete, NoteIncomplete, DocumentMissing
<1>6. Repaired'
  BY <1>2 DEF IInv, Repaired, Current, Within, Wiping
<1>7. Batched'
  <2> SUFFICES ASSUME ~spoiled PROVE (Good(durable))' /\ (Batch(poller.step, db))'
    BY <1>2 DEF Batched
  <2>1. Good(durable)
    BY DEF IInv, Batched
  <2>2. (Good(durable))' /\ (Good(db))'
    BY <1>1, <1>2, <2>1 DEF Good, GoodUnit
  <2> QED
    BY <1>3, <2>2 DEF Batch
<1> QED
  BY <1>4, <1>5, <1>6, <1>7 DEF IInv

\* The batch is over: it is committed, or taken back.
LEMMA EndBatchOK ==
    ASSUME LocalStoreAssumption, IInv, CommitBatch \/ Fail
    PROVE  IInv'
<1>1. /\ Types /\ Serving /\ poller.step \in InTry /\ poller' = AtRest
      /\ UNCHANGED <<log, proc, reader, ready, spoiled, kept>>
  BY DEF CommitBatch, Fail, PollerAt, OfPoller, history, IInv, InTry
<1>2. /\ AtRest.step = "idle" /\ AtRest.change = 0 /\ "idle" \notin InTry
      /\ AtRest \in [step : {"idle", "embed", "begin"} \cup InTry, change : 0 .. Len(log)]
  <2>1. 0 \in 0 .. Len(log)
    BY <1>1, Numbered
  <2> QED
    BY <2>1 DEF AtRest, InTry
<1>3. /\ tx' = FALSE /\ db' = durable' /\ db'.note = db.note
      /\ \/ db' = durable
         \/ db' = db /\ (tx => poller.step = "commit")
  <2>1. CASE tx
    BY <2>1 DEF CommitBatch, Fail, Commit, Rollback, PollerAt, IInv, Control
  <2>2. CASE ~tx
    BY <1>1, <2>2 DEF CommitBatch, Fail, connection, IInv, Control, Types
  <2> QED
    BY <2>1, <2>2
<1>4. Types'
  BY <1>1, <1>2, <1>3 DEF Types
<1>5. Control' /\ Complete'
  BY <1>1, <1>2, <1>3 DEF IInv, Control, Serving, Complete, NoteIncomplete, DocumentMissing
<1>6. Repaired'
  <2> SUFFICES ASSUME ~kept PROVE (Current(db))' /\ Wiping'
    BY <1>1, <1>3 DEF Repaired, Current, Within
  <2>1. Current(db) /\ Current(durable)
    BY DEF IInv, Repaired
  <2>2. (Current(db))'
    BY <1>1, <1>3, <2>1 DEF Current, Within
  <2> QED
    BY <1>1, <2>2 DEF Wiping, Serving
<1>7. Batched'
  <2> SUFFICES ASSUME ~spoiled PROVE (Good(durable))'
    BY <1>1, <1>2 DEF Batched
  <2>1. Good(durable) /\ tx /\ Batch(poller.step, db)
    BY <1>1 DEF IInv, Batched
  <2>2. poller.step = "commit" => Good(db)
    BY <2>1 DEF Batch
  <2>3. PICK e : e = durable' /\ Good(e)
    BY <1>3, <2>1, <2>2
  <2> QED
    BY <1>1, <2>3, GoodSame
<1> QED
  BY <1>4, <1>5, <1>6, <1>7 DEF IInv

-----------------------------------------------------------------------------
(* Every step                                                              *)

\* The invariant is kept by every step.
LEMMA StepOK ==
    ASSUME LocalStoreAssumption, IInv, [Next]_vars
    PROVE  IInv'
<1>1. CASE \E u \in Units : Publish(u)
  BY <1>1, PublishOK
<1>2. CASE Starting
  BY <1>2, StartOK, CheckSchemaVersionOK, DropOK DEF Starting
<1>3. CASE Command
  BY <1>3, ResetIndexOK, IndexNoteOK, DropOK DEF Command
<1>4. CASE Exit
  BY <1>4, ExitOK
<1>5. CASE Poller
  BY <1>5, ExportOK, EmbedOK, BeginBatchOK, RecordOK, ChunksOK, EndBatchOK DEF Poller
<1>6. CASE Fail
  BY <1>6, EndBatchOK
<1>7. CASE Reader
  BY <1>7, LooksOK, CheckOK DEF Reader
<1>8. CASE Search
  BY <1>8, LooksOK, CheckOK, FillOK DEF Search
<1>9. CASE UNCHANGED vars
  <2>1. UNCHANGED <<db, durable, tx, log, proc, poller, reader, ready, spoiled, kept>>
    BY <1>9 DEF vars, connection, history
  <2>2. Types' /\ Control' /\ Complete'
    BY <2>1 DEF IInv, Types, Control, Complete, Serving, NoteIncomplete, DocumentMissing
  <2>3. Repaired'
    BY <2>1 DEF IInv, Repaired, Current, Within, Wiping
  <2>4. Batched'
    BY <2>1, BatchedSame DEF IInv
  <2> QED
    BY <2>2, <2>3, <2>4 DEF IInv
<1> QED
  BY <1>1, <1>2, <1>3, <1>4, <1>5, <1>6, <1>7, <1>8, <1>9 DEF Next
-----------------------------------------------------------------------------
(* The theorems                                                            *)

\* The invariant holds in every state.
THEOREM Invariance == Spec => []IInv
<1>1. Init => IInv
  BY LocalStoreAssumption, InitOK
<1>2. IInv /\ [Next]_vars => IInv'
  BY LocalStoreAssumption, StepOK
<1> QED
  BY <1>1, <1>2, PTL DEF Spec

\* The tables, as read and as durable, name only what there is, and a transaction
\* is of the poller's batch.
THEOREM TypeCorrect == Spec => []TypeOK
<1>1. IInv => TypeOK
  <2> SUFFICES ASSUME IInv PROVE TypeOK
    OBVIOUS
  <2>1. Types /\ Control
    BY DEF IInv
  <2>2. DOMAIN log = 1 .. Len(log)
    BY <2>1, LocalStoreAssumption, Numbered
  <2>3. \A d \in {db, durable} :
          /\ d.doc \cup d.bound \subseteq Dialogs
          /\ d.fp \in [Units -> 0 .. Len(log)]
          /\ d.chunk \cup d.from \subseteq DOMAIN log /\ d.cursor \in 0 .. Len(log)
          /\ {d.part, d.cache} \subseteq [Changes -> 0 .. MaxSchema]
          /\ d.note \subseteq {"chunk", "from", "doc"}
          /\ d.print \in 0 .. MaxSchema /\ d.sentinel \in WipeInProgress .. MaxSchema
    BY <2>1, <2>2 DEF Types, Tables
  <2>4. /\ proc.kind \in {"down", "server", "reset", "force"} /\ proc.schema \in 1 .. MaxSchema
        /\ poller.change \in 0 .. Len(log) /\ (poller.step = "idle" <=> poller.change = 0)
        /\ reader.unit \in Units \cup {NoUnit} /\ reader.older \subseteq DOMAIN log
    BY <2>1 DEF Types, Readers
  <2>5. /\ log \in Seq(Units) /\ Len(log) <= MaxChanges
        /\ tx => Serving /\ poller.step \in InTry
        /\ {ready, spoiled, kept} \subseteq BOOLEAN
    BY <2>1 DEF Types, Control
  <2> QED
    BY <2>3, <2>4, <2>5 DEF TypeOK
<1> QED
  BY <1>1, Invariance, PTL

\* A message on record has its dialog, its binding and the chunk of its last
\* recorded change alone, whatever crashed, failed or was reset.
THEOREM RecordedCanBeRead == Spec => []OnRecordIsReadable
<1>1. IInv => OnRecordIsReadable
  <2> SUFFICES ASSUME IInv, ~spoiled, NEW u \in Units, durable.fp[u] # 0
               PROVE  /\ DialogOf[u] \in durable.doc /\ DialogOf[u] \in durable.bound
                      /\ {p \in durable.chunk : log[p] = u} = {durable.fp[u]}
                      /\ durable.chunk \subseteq durable.from
    BY DEF OnRecordIsReadable
  <2>1. durable.chunk = durable.from /\ GoodUnit(durable, u)
    BY DEF IInv, Batched, Good
  <2> QED
    BY <2>1 DEF GoodUnit
<1> QED
  BY <1>1, Invariance, PTL

\* A search that does not check again hides no note for want of its provenance or
\* document.
THEOREM ReadyHidesNothing == Spec => []ReadyIsComplete
<1>1. IInv => ReadyIsComplete
  BY DEF IInv, Complete, ReadyIsComplete
<1> QED
  BY <1>1, Invariance, PTL

\* When the start has checked the schema, the vectors and fingerprints are of the
\* schema of the process, however often an earlier wipe was cut short.
THEOREM RepairLeavesNothingOlder == Spec => RepairedIsCurrent
<1> DEFINE Repair ==
      proc.step \in {"check", "set sentinel"} /\ proc'.step = "ready" /\ ~kept' =>
          /\ \A p \in Changes : {db'.part[p], db'.cache[p]} \subseteq {0, proc.schema}
          /\ db'.print \in {0, proc.schema}
<1>1. IInv /\ IInv' /\ [Next]_vars => [Repair]_vars
  <2> SUFFICES ASSUME IInv, IInv', Next, proc.step \in {"check", "set sentinel"},
                      proc'.step = "ready", ~kept'
               PROVE  /\ \A p \in Changes : {db'.part[p], db'.cache[p]} \subseteq {0, proc.schema}
                      /\ db'.print \in {0, proc.schema}
    OBVIOUS
  <2>1. Types /\ (Current(db))'
    BY DEF IInv, Repaired
  <2>2. \/ CheckSchemaVersion
        \/ WipeStep("set sentinel", "ready", [db EXCEPT !.sentinel = proc.schema])
    <3>1. ~Serving /\ proc.kind # "down"
      BY <2>1 DEF Serving, Types
    <3>2. proc' # proc
      OBVIOUS
    <3>3. CASE \E u \in Units : Publish(u)
      BY <3>2, <3>3 DEF Publish
    <3>4. CASE Starting
      BY <3>1, <3>4 DEF Starting, Start, Wipe, WipeStep, Step
    <3>5. CASE Command
      BY <3>1, <3>2, <3>5 DEF Command, ResetIndex, IndexNote, FullIndex, DropVectors, ForceStep,
                              WipeStep, Step
    <3>6. CASE Exit
      BY <3>6 DEF Exit, Died, Down
    <3>7. CASE Poller \/ Fail
      BY <3>1, <3>7 DEF Poller, Fail, Export, Embed, BeginBatch, UpsertDocument, UpsertBinding,
                        UpsertFingerprint, DropOldChunks, InsertChunk, AddProvenance, StoreVector,
                        WriteCheckpoint, CommitBatch, Write, PollerAt
    <3>8. CASE Reader \/ Search
      BY <3>1, <3>8 DEF Reader, Search, Ask, ResolveDocument, ResolveBinding, RequireActive, Drill,
                        EnsureProvenance, ReadChunks, StartSearch, CountMissing, FillProvenance,
                        RecountMissing, FindDocuments, FillDocuments, Hydrate, ReaderAt
    <3> QED
      BY <3>3, <3>4, <3>5, <3>6, <3>7, <3>8 DEF Next
  <2>3. proc'.schema = proc.schema /\ db'.sentinel = proc.schema
    <3>1. db \in Tables(Len(log))
      BY <2>1 DEF Types
    <3>2. CASE CheckSchemaVersion
      <4>1. PICK current, empty :
              /\ current = (db.sentinel = proc.schema)
              /\ Step("check", IF current \/ empty THEN "ready" ELSE "clear cache")
              /\ IF current THEN UNCHANGED connection
                 ELSE Execute([db EXCEPT !.sentinel = IF empty THEN proc.schema
                                                      ELSE WipeInProgress])
        BY <3>2 DEF CheckSchemaVersion, CheckSentinel
      <4>2. current \/ empty
        BY <2>1, <4>1 DEF Step, Types
      <4>3. proc'.schema = proc.schema
        BY <2>1, <4>1 DEF Step, Types
      <4>4. CASE current
        BY <4>1, <4>3, <4>4 DEF connection
      <4>5. CASE ~current
        BY <3>1, <4>1, <4>2, <4>3, <4>5 DEF Execute, Tables
      <4> QED
        BY <4>4, <4>5
    <3>3. CASE WipeStep("set sentinel", "ready", [db EXCEPT !.sentinel = proc.schema])
      BY <2>1, <3>1, <3>3 DEF WipeStep, Step, Execute, Types, Tables
    <3> QED
      BY <2>2, <3>2, <3>3
  <2> QED
    BY <2>1, <2>3 DEF Current, Within
<1> QED
  BY <1>1, Invariance, PTL DEF Spec, RepairedIsCurrent
-----------------------------------------------------------------------------
(* What the checkpoint has passed                                          *)

\* What the durable checkpoint has passed has its chunk in d.
Kept(d) == \A p \in DOMAIN log : p <= durable.cursor /\ ~Superseded(p) => p \in d.chunk

\* The poller is at the first change after the durable checkpoint that no later
\* one has overtaken.
Ahead ==
    /\ durable.cursor < poller.change
    /\ \A q \in durable.cursor + 1 .. poller.change - 1 : Superseded(q)

Passed ==
    ~spoiled =>
        /\ Kept(durable)
        /\ poller.step # "idle" => Ahead
        /\ poller.step \in InTry =>
            /\ Kept(db)
            /\ db.cursor = IF poller.step = "commit" THEN poller.change ELSE durable.cursor

\* The checkpoints are of changes there were.
LEMMA Cursors ==
    ASSUME LocalStoreAssumption, Types
    PROVE  /\ db.cursor \in 0 .. Len(log) /\ durable.cursor \in 0 .. Len(log)
           /\ db.cursor \in Nat /\ durable.cursor \in Nat
           /\ Len(log) \in Nat /\ DOMAIN log = 1 .. Len(log)
<1>1. db.cursor \in 0 .. Len(log) /\ durable.cursor \in 0 .. Len(log)
  BY DEF Types, Tables
<1>2. Len(log) \in Nat /\ DOMAIN log = 1 .. Len(log)
  BY Numbered
<1> QED
  BY <1>1, <1>2

\* It holds before anything is in the source.
LEMMA PassedInit == ASSUME LocalStoreAssumption, Init PROVE Passed
<1>1. DOMAIN log = {}
  BY DEF Init
<1>2. poller.step = "idle"
  BY DEF Init, AtRest
<1> QED
  BY <1>1, <1>2 DEF Passed, Kept, InTry

\* Steps that leave the chunks, the checkpoint and the change the poller is at.
LEMMA PassedSame ==
    ASSUME Passed, log' = log, ~spoiled' => ~spoiled,
           ~spoiled => durable'.chunk = durable.chunk /\ durable'.cursor = durable.cursor,
           poller'.step # "idle" => poller.step # "idle" /\ poller'.change = poller.change,
           ~spoiled /\ poller'.step \in InTry =>
               /\ poller.step \in InTry /\ (poller'.step = "commit" <=> poller.step = "commit")
               /\ db'.chunk = db.chunk /\ db'.cursor = db.cursor
    PROVE  Passed'
<1> SUFFICES ASSUME ~spoiled'
             PROVE  /\ (Kept(durable))'
                    /\ poller'.step # "idle" => Ahead'
                    /\ poller'.step \in InTry =>
                        /\ (Kept(db))'
                        /\ db'.cursor = IF poller'.step = "commit" THEN poller'.change
                                                                  ELSE durable'.cursor
  BY DEF Passed, InTry
<1>1. ~spoiled
  OBVIOUS
<1>2. \A p \in DOMAIN log : Superseded(p)' = Superseded(p)
  BY DEF Superseded
<1>3. (Kept(durable))'
  BY <1>1, <1>2 DEF Passed, Kept
<1>4. ASSUME poller'.step # "idle" PROVE Ahead'
  <2>1. Ahead
    BY <1>1, <1>4 DEF Passed
  <2> QED
    BY <1>1, <1>4, <2>1 DEF Ahead, Superseded
<1>5. ASSUME poller'.step \in InTry
      PROVE  /\ (Kept(db))'
             /\ db'.cursor = IF poller'.step = "commit" THEN poller'.change ELSE durable'.cursor
  <2>1. /\ Kept(db)
        /\ db.cursor = IF poller.step = "commit" THEN poller.change ELSE durable.cursor
    BY <1>1, <1>5 DEF Passed
  <2>2. (Kept(db))'
    BY <1>1, <1>2, <1>5, <2>1 DEF Kept
  <2>3. poller'.change = poller.change
    BY <1>5 DEF InTry
  <2> QED
    BY <1>1, <1>5, <2>1, <2>2, <2>3
<1> QED
  BY <1>3, <1>4, <1>5

\* The steps of readers and searches.
LEMMA PassedRead ==
    ASSUME LocalStoreAssumption, IInv, Passed, Reader \/ Search
    PROVE  Passed'
<1>1. /\ log' = log /\ poller' = poller
      /\ \/ UNCHANGED <<db, durable, spoiled>>
         \/ Ensure
         \/ /\ spoiled' = spoiled /\ ~tx
            /\ \/ UNCHANGED <<db, durable>>
               \/ \E note : Execute([db EXCEPT !.note = note])
  <2>1. poller.step = "idle" => ~tx
    BY DEF IInv, Control, InTry
  <2>2. CASE Reader
    BY <2>2 DEF Reader, Ask, ResolveDocument, ResolveBinding, RequireActive, Drill,
                EnsureProvenance, ReadChunks, Looks, OfReader, connection
  <2>3. CASE StartSearch \/ CountMissing \/ RecountMissing \/ FindDocuments \/ Hydrate
    BY <2>3 DEF StartSearch, CountMissing, RecountMissing, FindDocuments, Hydrate, CountIs, Looks,
                OfReader, connection
  <2>4. CASE FillProvenance \/ FillDocuments
    <3>1. reader.step \in Searches /\ log' = log /\ poller' = poller /\ spoiled' = spoiled
      BY <2>4 DEF FillProvenance, FillDocuments, ReaderAt, OfReader, Searches
    <3>2. ~tx
      BY <2>1, <3>1 DEF IInv, Control
    <3>3. (UNCHANGED connection) \/ \E note : Execute([db EXCEPT !.note = note])
      BY <2>4 DEF FillProvenance, FillDocuments
    <3> QED
      BY <3>1, <3>2, <3>3 DEF connection
  <2> QED
    BY <2>2, <2>3, <2>4 DEF Search
<1>2. db \in Tables(Len(log)) /\ tx \in BOOLEAN /\ (~tx => db = durable)
  BY DEF IInv, Types, Control
<1>3. CASE UNCHANGED <<db, durable, spoiled>>
  BY <1>1, <1>3, PassedSame
<1>4. CASE Ensure
  <2>1. spoiled' = (spoiled \/ tx) /\ db' = db /\ durable' = db
    BY <1>4 DEF Ensure, CommitAny
  <2>2. CASE spoiled'
    BY <2>2 DEF Passed
  <2>3. CASE ~spoiled'
    <3>1. ~spoiled /\ durable' = durable /\ db' = db
      BY <1>2, <2>1, <2>3
    <3> QED
      BY <1>1, <3>1, PassedSame
  <2> QED
    BY <2>2, <2>3
<1>5. ASSUME NEW note, Execute([db EXCEPT !.note = note]), ~tx, spoiled' = spoiled
      PROVE  Passed'
  <2>1. PICK d : d = [db EXCEPT !.note = note]
    OBVIOUS
  <2>2. db' = d /\ durable' = d /\ d.chunk = db.chunk /\ d.cursor = db.cursor /\ db = durable
    BY <1>2, <1>5, <2>1 DEF Execute, Tables
  <2> QED
    BY <1>1, <1>5, <2>2, PassedSame
<1> QED
  BY <1>1, <1>3, <1>4, <1>5

\* The starts and ends of processes, and the commands.
LEMMA PassedProcess ==
    ASSUME LocalStoreAssumption, ~ResetBesideServer, IInv, Passed, Starting \/ Command \/ Exit
    PROVE  Passed'
<1>1. Types /\ db \in Tables(Len(log)) /\ tx \in BOOLEAN /\ (~tx => db = durable)
      /\ (~Serving => ~tx)
  BY DEF IInv, Types, Control
<1>2. AtRest.step = "idle" /\ "idle" \notin InTry
  BY DEF AtRest, InTry
<1>3. ASSUME NEW d, ~tx, Execute(d), log' = log, spoiled' = spoiled,
             poller' = poller \/ poller' = AtRest, d.chunk = db.chunk, d.cursor = db.cursor
      PROVE  Passed'
  <2>1. db' = d /\ durable' = d /\ db = durable
    BY <1>1, <1>3 DEF Execute
  <2>2. poller'.step # "idle" => poller' = poller
    BY <1>2, <1>3
  <2>3. poller'.step \in InTry => poller' = poller
    BY <1>2, <1>3
  <2> QED
    BY <1>3, <2>1, <2>2, <2>3, PassedSame
<1>4. CASE \E kind \in {"server", "reset", "force"}, v \in 1 .. MaxSchema, repair \in BOOLEAN :
             Start(kind, v, repair)
  <2>1. UNCHANGED <<db, durable, log, poller, spoiled>>
    BY <1>4 DEF Start, connection, history
  <2> QED
    BY <2>1, PassedSame
<1>5. CASE CheckSchemaVersion
  <2>1. ~tx /\ log' = log /\ spoiled' = spoiled /\ poller' = poller
    BY <1>1, <1>5 DEF CheckSchemaVersion, CheckSentinel, Step, Serving
  <2>2. (UNCHANGED connection) \/ \E value : Execute([db EXCEPT !.sentinel = value])
    BY <1>5 DEF CheckSchemaVersion, CheckSentinel
  <2>3. CASE UNCHANGED connection
    BY <2>1, <2>3, PassedSame DEF connection
  <2>4. ASSUME NEW value, Execute([db EXCEPT !.sentinel = value]) PROVE Passed'
    <3>1. PICK d : d = [db EXCEPT !.sentinel = value] /\ Execute(d)
      BY <2>4
    <3>2. d.chunk = db.chunk /\ d.cursor = db.cursor
      BY <1>1, <3>1 DEF Tables
    <3> QED
      BY <1>3, <2>1, <3>1, <3>2
  <2> QED
    BY <2>2, <2>3, <2>4
<1>6. CASE Wipe \/ FullIndex
  <2>1. ~tx /\ log' = log /\ spoiled' = spoiled /\ poller' = poller
    BY <1>1, <1>6 DEF Wipe, FullIndex, DropVectors, ForceStep, WipeStep, Step, Serving, history
  <2>2. PICK d : /\ Execute(d)
                 /\ d \in {[db EXCEPT !.cache = NoText], [db EXCEPT !.part = NoText],
                           [db EXCEPT !.print = 0], [db EXCEPT !.sentinel = proc.schema],
                           [db EXCEPT !.sentinel = Missing]}
    BY <1>6 DEF Wipe, FullIndex, DropVectors, ForceStep, WipeStep
  <2>3. d.chunk = db.chunk /\ d.cursor = db.cursor
    BY <1>1, <2>2 DEF Tables
  <2> QED
    BY <1>3, <2>1, <2>2, <2>3
<1>7. CASE IndexNote
  <2>1. ~tx /\ log' = log /\ spoiled' = spoiled /\ (poller' = poller \/ poller' = AtRest)
    BY <1>7 DEF IndexNote, Died, history
  <2>2. PICK d : /\ d = [db EXCEPT !.note = {"chunk", "from", "doc"}, !.print = proc.schema]
                 /\ Execute(d)
    BY <1>7 DEF IndexNote
  <2>3. d.chunk = db.chunk /\ d.cursor = db.cursor
    BY <1>1, <2>2 DEF Tables
  <2> QED
    BY <1>3, <2>1, <2>2, <2>3
<1>8. CASE ResetIndex
  <2>1. /\ ~tx /\ Execute(Purged(db)) /\ log' = log /\ poller' = AtRest
    BY <1>8 DEF ResetIndex, PurgeApplicationSource, Died
  <2>2. durable' = Purged(db)
    BY <2>1 DEF Execute
  <2>3. durable'.cursor = 0
    BY <1>1, <2>2 DEF Purged, ChunksPurged, Tables
  <2>4. \A p \in DOMAIN log' : ~(p <= durable'.cursor)
    BY <1>1, <2>1, <2>3, Numbered
  <2> QED
    BY <1>2, <2>1, <2>4 DEF Passed, Kept, InTry
<1>9. CASE Exit
  <2>1. log' = log /\ spoiled' = spoiled /\ poller' = AtRest /\ durable' = durable
    BY <1>9 DEF Exit, Died, Reopened, history
  <2> QED
    BY <1>2, <2>1, PassedSame
<1> QED
  BY <1>4, <1>5, <1>6, <1>7, <1>8, <1>9 DEF Starting, Command

\* The source changes: a change that was overtaken stays so.
LEMMA PassedPublish ==
    ASSUME LocalStoreAssumption, IInv, Passed, NEW u \in Units, Publish(u)
    PROVE  Passed'
<1>1. /\ Types /\ log' = Append(log, u) /\ UNCHANGED <<db, durable, poller, spoiled>>
  BY DEF Publish, history, connection, IInv
<1>2. /\ log \in Seq(Units) /\ Len(log) \in Nat /\ DOMAIN log = 1 .. Len(log)
  BY <1>1, Numbered DEF Types
<1>3. /\ Len(log') = Len(log) + 1 /\ DOMAIN log' = 1 .. Len(log) + 1
      /\ \A p \in 1 .. Len(log) : log'[p] = log[p]
  BY <1>1, <1>2
<1>4. ASSUME NEW p \in 1 .. Len(log), Superseded(p) PROVE Superseded(p)'
  <2>1. PICK q \in p + 1 .. Len(log) : log[q] = log[p]
    BY <1>4 DEF Superseded
  <2>2. q \in p + 1 .. Len(log') /\ q \in 1 .. Len(log)
    BY <1>2, <1>3
  <2> QED
    BY <1>3, <2>1, <2>2 DEF Superseded
<1> SUFFICES ASSUME ~spoiled PROVE Passed'
  BY <1>1 DEF Passed
<1>5. durable.cursor \in 0 .. Len(log)
  BY <1>1 DEF Types, Tables
<1>6. ASSUME NEW d, Kept(d)
      PROVE  \A p \in DOMAIN log' : p <= durable.cursor /\ ~Superseded(p)' => p \in d.chunk
  <2> SUFFICES ASSUME NEW p \in DOMAIN log', p <= durable.cursor, ~Superseded(p)'
               PROVE  p \in d.chunk
    OBVIOUS
  <2>1. p \in 1 .. Len(log)
    BY <1>2, <1>3, <1>5
  <2> QED
    BY <1>2, <1>4, <1>6, <2>1 DEF Kept
<1>7. Kept(durable) /\ (poller.step \in InTry => Kept(db))
  BY DEF Passed
<1>8. (Kept(durable))' /\ (poller.step \in InTry => (Kept(db))')
  BY <1>1, <1>6, <1>7 DEF Kept
<1>9. ASSUME poller.step # "idle" PROVE Ahead'
  <2>1. Ahead /\ poller.change \in 0 .. Len(log)
    BY <1>1, <1>9 DEF Passed, Types
  <2>2. ASSUME NEW q \in durable.cursor + 1 .. poller.change - 1 PROVE Superseded(q)'
    <3>1. q \in 1 .. Len(log)
      BY <1>2, <1>5, <2>1
    <3> QED
      BY <1>4, <2>1, <3>1 DEF Ahead
  <2> QED
    BY <1>1, <2>1, <2>2 DEF Ahead
<1> QED
  BY <1>1, <1>8, <1>9 DEF Passed, InTry

\* The steps of the poller that do not change what Passed is about.
LEMMA PassedWrites ==
    ASSUME LocalStoreAssumption, IInv, Passed,
           \/ Embed \/ UpsertDocument \/ UpsertBinding \/ UpsertFingerprint
           \/ AddProvenance \/ StoreVector \/ Fail
    PROVE  Passed'
<1>1. /\ Types /\ db \in Tables(Len(log)) /\ (~tx => db = durable)
      /\ (~spoiled /\ poller.step \in InTry => tx)
  BY DEF IInv, Types, Control, Batched
<1>2. CASE Embed
  <2>1. /\ ~tx /\ log' = log /\ spoiled' = spoiled /\ poller.step = "embed"
        /\ poller' = [poller EXCEPT !.step = "begin"]
    BY <1>2 DEF Embed, PollerAt, PollerTo, OfPoller, history, IInv, Control, InTry
  <2>2. PICK value : Execute([db EXCEPT !.cache[NewChunk] = value])
    BY <1>2 DEF Embed
  <2>3. PICK d : d = [db EXCEPT !.cache[NewChunk] = value] /\ Execute(d)
    BY <2>2
  <2>4. d.chunk = db.chunk /\ d.cursor = db.cursor /\ durable' = d /\ db = durable
    BY <1>1, <2>1, <2>3 DEF Execute, Tables
  <2>5. poller'.step = "begin" /\ poller'.change = poller.change /\ "begin" \notin InTry
    BY <1>1, <2>1 DEF Types, InTry
  <2> QED
    BY <2>1, <2>4, <2>5, PassedSame
<1>3. ASSUME NEW step \in InTry \ {"commit"}, NEW next \in InTry \ {"commit"}, NEW d,
             Write(step, d, next), d.chunk = db.chunk, d.cursor = db.cursor
      PROVE  Passed'
  <2>1. /\ poller.step = step /\ poller' = [poller EXCEPT !.step = next] /\ log' = log
        /\ spoiled' = spoiled /\ db' = d /\ durable' = IF tx THEN durable ELSE d
    BY <1>3 DEF Write, PollerAt, PollerTo, OfPoller, history, Execute
  <2>2. poller'.step = next /\ poller'.change = poller.change
    BY <1>1, <2>1 DEF Types
  <2>3. ~spoiled => durable' = durable
    BY <1>1, <2>1
  <2>4. step # "idle"
    BY DEF InTry
  <2> QED
    BY <1>3, <2>1, <2>2, <2>3, <2>4, PassedSame
<1>4. /\ {"document", "binding", "fingerprint", "old chunks", "provenance", "vector", "checkpoint"}
          \subseteq InTry \ {"commit"}
  BY DEF InTry
<1>5. CASE UpsertDocument
  <2>1. PICK d : d = [db EXCEPT !.doc = @ \cup {Dialog}] /\ Write("document", d, "binding")
    BY <1>5 DEF UpsertDocument
  <2> QED
    BY <1>1, <1>3, <1>4, <2>1 DEF Tables
<1>6. CASE UpsertBinding
  <2>1. PICK d : d = [db EXCEPT !.bound = @ \cup {Dialog}] /\ Write("binding", d, "fingerprint")
    BY <1>6 DEF UpsertBinding
  <2> QED
    BY <1>1, <1>3, <1>4, <2>1 DEF Tables
<1>7. CASE UpsertFingerprint
  <2>1. PICK d, next : /\ d = [db EXCEPT !.fp[Unit] = poller.change]
                       /\ next \in {"checkpoint", "old chunks"} /\ Write("fingerprint", d, next)
    BY <1>7 DEF UpsertFingerprint
  <2> QED
    BY <1>1, <1>3, <1>4, <2>1 DEF Tables
<1>8. CASE AddProvenance
  <2>1. PICK d : d = [db EXCEPT !.from = @ \cup {NewChunk}] /\ Write("provenance", d, "vector")
    BY <1>8 DEF AddProvenance
  <2> QED
    BY <1>1, <1>3, <1>4, <2>1 DEF Tables
<1>9. CASE StoreVector
  <2>1. PICK d : /\ d = [db EXCEPT !.part[NewChunk] = db.cache[NewChunk]]
                 /\ Write("vector", d, "checkpoint")
    BY <1>9 DEF StoreVector
  <2> QED
    BY <1>1, <1>3, <1>4, <2>1 DEF Tables
<1>10. CASE Fail
  <2>1. durable' = durable /\ log' = log /\ spoiled' = spoiled /\ poller' = AtRest
    BY <1>10 DEF Fail, Rollback, connection, history
  <2>2. AtRest.step = "idle" /\ "idle" \notin InTry
    BY DEF AtRest, InTry
  <2> QED
    BY <2>1, <2>2, PassedSame
<1> QED
  BY <1>2, <1>5, <1>6, <1>7, <1>8, <1>9, <1>10

\* The poller takes the first change that no later one has overtaken.
LEMMA PassedExport ==
    ASSUME LocalStoreAssumption, IInv, Passed, Export
    PROVE  Passed'
<1>1. /\ Types /\ db = durable /\ UNCHANGED <<db, durable, log, spoiled>>
  BY DEF Export, PollerAt, OfPoller, history, connection, IInv, Control, InTry
<1>2. PICK p \in Feed(db.cursor) :
        /\ \A q \in Feed(db.cursor) : p <= q
        /\ poller' = [step |-> IF OnRecord(p) THEN "begin" ELSE "embed", change |-> p]
  BY DEF Export, Checkpoint
<1>3. poller'.change = p /\ poller'.step \in {"begin", "embed"}
  BY <1>2
<1>4. db.cursor \in Nat /\ Len(log) \in Nat /\ p \in db.cursor + 1 .. Len(log)
  BY <1>1, <1>2, Cursors DEF Feed
<1>5. ASSUME NEW q \in db.cursor + 1 .. p - 1 PROVE Superseded(q)
  <2>1. q \notin Feed(db.cursor)
    BY <1>2, <1>4
  <2>2. q \in db.cursor + 1 .. Len(log)
    BY <1>4
  <2> QED
    BY <2>1, <2>2 DEF Feed
<1>6. Ahead'
  BY <1>1, <1>3, <1>4, <1>5 DEF Ahead, Superseded
<1>7. (Kept(durable))' = Kept(durable)
  BY <1>1 DEF Kept, Superseded
<1> QED
  BY <1>1, <1>3, <1>6, <1>7 DEF Passed, InTry

\* The transaction begins with what is durable.
LEMMA PassedBegin ==
    ASSUME LocalStoreAssumption, IInv, Passed, BeginBatch
    PROVE  Passed'
<1>1. /\ Types /\ ~tx /\ db = durable /\ poller.step = "begin"
  BY DEF BeginBatch, PollerAt, IInv, Control, InTry
<1>2. /\ db' = db /\ durable' = durable /\ poller' = [poller EXCEPT !.step = "document"]
      /\ log' = log /\ spoiled' = spoiled
  BY <1>1 DEF BeginBatch, Begin, PollerTo, OfPoller, history
<1>3. poller'.step = "document" /\ poller'.change = poller.change
  BY <1>1, <1>2 DEF Types
<1>4. (Kept(durable))' = Kept(durable) /\ (Kept(db))' = Kept(durable) /\ Ahead' = Ahead
  BY <1>1, <1>2, <1>3 DEF Kept, Superseded, Ahead
<1> QED
  BY <1>1, <1>2, <1>3, <1>4 DEF Passed

\* What comes after a checkpoint comes after all that the checkpoint has passed.
LEMMA Between ==
    ASSUME NEW n \in Nat, NEW p \in 1 .. n, NEW c \in 1 .. n, NEW b \in Nat, p <= b, b < c
    PROVE  c \in p + 1 .. n
OBVIOUS

\* The chunks and the checkpoint change; old chunks that go are of changes this one
\* overtakes.
LEMMA PassedWrite ==
    ASSUME LocalStoreAssumption, IInv, Passed, NEW step, NEW next, NEW d,
           Write(step, d, next),
           \/ /\ step = "old chunks" /\ next = "chunk" /\ d.cursor = db.cursor
              /\ d.chunk = db.chunk \ {p \in db.from : log[p] = Unit}
           \/ /\ step = "chunk" /\ next = "provenance" /\ d.cursor = db.cursor
              /\ d.chunk = db.chunk \cup {NewChunk}
           \/ /\ step = "checkpoint" /\ next = "commit" /\ d.cursor = poller.change
              /\ d.chunk = db.chunk
    PROVE  Passed'
<1> SUFFICES ASSUME ~spoiled' PROVE Passed'
  BY DEF Passed
<1>2. /\ poller.step = step /\ poller' = [poller EXCEPT !.step = next] /\ log' = log
      /\ ~spoiled /\ db' = d /\ durable' = IF tx THEN durable ELSE d
  BY DEF Write, PollerAt, PollerTo, OfPoller, history, Execute
<1>3. step \in InTry /\ step # "commit" /\ step # "idle"
  BY DEF InTry
<1>4. Types /\ durable' = durable
  BY <1>2, <1>3 DEF IInv, Batched
<1>5. poller'.step = next /\ poller'.change = poller.change
  BY <1>2, <1>4 DEF Types
<1>6. Kept(durable) /\ Kept(db) /\ Ahead /\ db.cursor = durable.cursor
  BY <1>2, <1>3 DEF Passed
<1>7. (Kept(durable))' /\ Ahead'
  BY <1>2, <1>4, <1>5, <1>6 DEF Kept, Superseded, Ahead
<1>8. ASSUME NEW p \in DOMAIN log, p <= durable.cursor, ~Superseded(p) PROVE log[p] # Unit
  <2>1. poller.change \in 1 .. Len(log) /\ log[poller.change] = Unit /\ Len(log) \in Nat
    BY <1>2, <1>3, <1>4, AtChange, Numbered
  <2>2. /\ durable.cursor \in Nat /\ durable.cursor < poller.change /\ p \in 1 .. Len(log)
        /\ p <= durable.cursor
    BY <1>4, <1>6, <1>8, Cursors DEF Ahead
  <2>3. poller.change \in p + 1 .. Len(log)
    BY <2>1, <2>2, Between
  <2> QED
    BY <1>8, <2>1, <2>3 DEF Superseded
<1>9. (Kept(db))'
  <2>1. \A p \in DOMAIN log : p <= durable.cursor /\ ~Superseded(p) => p \in d.chunk
    BY <1>6, <1>8 DEF Kept
  <2> QED
    BY <1>2, <1>4, <2>1 DEF Kept, Superseded
<1>10. db'.cursor = IF poller'.step = "commit" THEN poller'.change ELSE durable'.cursor
  BY <1>2, <1>4, <1>5, <1>6
<1> QED
  BY <1>7, <1>9, <1>10 DEF Passed

\* The chunks of the batch, and its checkpoint.
LEMMA PassedChunks ==
    ASSUME LocalStoreAssumption, IInv, Passed, DropOldChunks \/ InsertChunk \/ WriteCheckpoint
    PROVE  Passed'
<1>1. db \in Tables(Len(log))
  BY DEF IInv, Types
<1>2. CASE DropOldChunks
  <2>1. PICK old, part, d : /\ old = {p \in db.from : log[p] = Unit}
                            /\ d = [db EXCEPT !.from = @ \ old, !.chunk = @ \ old, !.part = part]
                            /\ Write("old chunks", d, "chunk")
    BY <1>2 DEF DropOldChunks
  <2>2. d.chunk = db.chunk \ old /\ d.cursor = db.cursor
    BY <1>1, <2>1 DEF Tables
  <2> QED
    BY <2>1, <2>2, PassedWrite
<1>3. CASE InsertChunk
  <2>1. PICK d : /\ d = [db EXCEPT !.chunk = @ \cup {NewChunk}]
                 /\ Write("chunk", d, "provenance")
    BY <1>3 DEF InsertChunk
  <2>2. d.chunk = db.chunk \cup {NewChunk} /\ d.cursor = db.cursor
    BY <1>1, <2>1 DEF Tables
  <2> QED
    BY <2>1, <2>2, PassedWrite
<1>4. CASE WriteCheckpoint
  <2>1. PICK d : d = [db EXCEPT !.cursor = poller.change] /\ Write("checkpoint", d, "commit")
    BY <1>4 DEF WriteCheckpoint
  <2>2. d.chunk = db.chunk /\ d.cursor = poller.change
    BY <1>1, <2>1 DEF Tables
  <2> QED
    BY <2>1, <2>2, PassedWrite
<1> QED
  BY <1>2, <1>3, <1>4

\* The commit passes the change, and those that were overtaken before it.
LEMMA PassedCommit ==
    ASSUME LocalStoreAssumption, IInv, Passed, CommitBatch
    PROVE  Passed'
<1> SUFFICES ASSUME ~spoiled' PROVE Passed'
  BY DEF Passed
<1>1. poller.step = "commit" /\ log' = log /\ ~spoiled /\ poller' = AtRest
  BY DEF CommitBatch, PollerAt, OfPoller, history
<1>2. "commit" \in InTry /\ AtRest.step = "idle" /\ "idle" \notin InTry
  BY DEF InTry, AtRest
<1>3. Types /\ tx /\ Batch("commit", db) /\ durable' = db
  BY <1>1, <1>2 DEF IInv, Batched, CommitBatch, Commit
<1>4. Kept(db) /\ Ahead /\ db.cursor = poller.change
  BY <1>1, <1>2 DEF Passed
<1>5. poller.change \in 1 .. Len(log) /\ poller.change # 0 /\ Unit \in Units
  BY <1>1, <1>3, AtChange
<1>6. poller.change \in db.chunk
  BY <1>3, <1>5 DEF Batch, Good, GoodUnit
<1>7. ASSUME NEW p \in DOMAIN log, p <= db.cursor, ~Superseded(p) PROVE p \in db.chunk
  <2>1. p \in 1 .. Len(log) /\ durable.cursor \in Nat /\ Len(log) \in Nat
    BY <1>3, Cursors
  <2>2. p \notin durable.cursor + 1 .. poller.change - 1
    BY <1>4, <1>7 DEF Ahead
  <2>3. p <= durable.cursor \/ p = poller.change
    BY <1>4, <1>5, <1>7, <2>1, <2>2
  <2> QED
    BY <1>4, <1>6, <1>7, <2>3 DEF Kept
<1>8. (Kept(durable))'
  BY <1>1, <1>3, <1>7 DEF Kept, Superseded
<1> QED
  BY <1>1, <1>2, <1>8 DEF Passed

\* While no reset runs beside the server, what the checkpoint has passed has its
\* chunk, with its provenance, and is found without the provider.
THEOREM PassedCanBeRead ==
    ASSUME ~ResetBesideServer
    PROVE  Spec => []PassedIsReadable
<1>1. Init => Passed
  BY LocalStoreAssumption, PassedInit
<1>2. IInv /\ Passed /\ [Next]_vars => Passed'
  <2> SUFFICES ASSUME IInv, Passed, [Next]_vars PROVE Passed'
    OBVIOUS
  <2>1. CASE \E u \in Units : Publish(u)
    BY <2>1, LocalStoreAssumption, PassedPublish
  <2>2. CASE Starting \/ Command \/ Exit
    BY <2>2, LocalStoreAssumption, PassedProcess
  <2>3. CASE Poller \/ Fail
    BY <2>3, LocalStoreAssumption, PassedWrites, PassedExport, PassedBegin, PassedChunks,
       PassedCommit DEF Poller
  <2>4. CASE Reader \/ Search
    BY <2>4, LocalStoreAssumption, PassedRead
  <2>5. CASE UNCHANGED vars
    <3>1. UNCHANGED <<db, durable, log, poller, spoiled>>
      BY <2>5 DEF vars, connection, history
    <3> QED
      BY <3>1, PassedSame
  <2> QED
    BY <2>1, <2>2, <2>3, <2>4, <2>5 DEF Next
<1>3. IInv /\ Passed => PassedIsReadable
  <2> SUFFICES ASSUME IInv, Passed, ~spoiled PROVE PassedIsReadable
    BY DEF PassedIsReadable
  <2>1. Kept(durable) /\ durable.chunk = durable.from
    BY DEF Passed, IInv, Batched, Good
  <2> QED
    BY <2>1 DEF Kept, PassedIsReadable
<1> QED
  BY <1>1, <1>2, <1>3, Invariance, PTL DEF Spec
-----------------------------------------------------------------------------
(* What a read answers                                                     *)

\* In what is read and in what is durable there is one chunk of a message, the one
\* that is read is never the older, and a reader has seen none that is newer; the
\* poller is at a change that is not older than any of them.
Earlier(early, late) == \A o \in early, p \in late : log[o] = log[p] => o <= p
Alone(d) == \A p, q \in d.from : log[p] = log[q] => p = q

Reading ==
    /\ Alone(db) /\ Alone(durable) /\ Earlier(durable.from, db.from)
    /\ \A o \in reader.older : log[o] = reader.unit
    /\ Earlier(reader.older, db.from) /\ Earlier(reader.older, durable.from)
    /\ poller.step # "idle" =>
        /\ Earlier(durable.from, {poller.change}) /\ Earlier(db.from, {poller.change})
        /\ Earlier(reader.older, {poller.change})
    /\ poller.step \in {"chunk", "provenance"} => \A p \in db.from : log[p] # Unit

\* It holds before anything is in the source.
LEMMA ReadingInit == ASSUME LocalStoreAssumption, Init PROVE Reading
<1>1. /\ db.from = {} /\ durable.from = {} /\ reader.older = {} /\ poller.step = "idle"
  BY DEF Init, Opened, Older, Silent, AtRest
<1> QED
  BY <1>1 DEF Reading, Alone, Earlier

\* The rows are of changes, which are numbers.
LEMMA Rows ==
    ASSUME LocalStoreAssumption, Types
    PROVE  /\ db.from \subseteq 1 .. Len(log) /\ durable.from \subseteq 1 .. Len(log)
           /\ reader.older \subseteq 1 .. Len(log) /\ Len(log) \in Nat
           /\ \A p \in db.from \cup durable.from \cup reader.older : p \in Nat /\ p <= p
<1>1. /\ db.from \subseteq 1 .. Len(log) /\ durable.from \subseteq 1 .. Len(log)
      /\ reader.older \subseteq 1 .. Len(log) /\ Len(log) \in Nat
  BY Numbered DEF Types, Tables
<1> QED
  BY <1>1

\* Steps that leave what has provenance, or take it away; the reader and the poller
\* stay or stop.
LEMMA ReadingSame ==
    ASSUME LocalStoreAssumption, Types, Reading, log' = log,
           \/ db'.from = db.from /\ durable'.from = durable.from
           \/ db'.from = db.from /\ durable'.from = db.from
           \/ db'.from = durable.from /\ durable'.from = durable.from
           \/ db'.from = {} /\ durable'.from = {},
           reader'.older = {} \/ (reader'.older = reader.older /\ reader'.unit = reader.unit),
           poller'.step # "idle" => poller.step # "idle" /\ poller'.change = poller.change,
           poller'.step \in {"chunk", "provenance"} => poller.step \in {"chunk", "provenance"},
           poller'.step \in {"chunk", "provenance"} => db'.from \subseteq db.from
    PROVE  Reading'
<1>1. Alone(db)' /\ Alone(durable)' /\ Earlier(durable.from, db.from)'
  <2>1. Alone(db) /\ Alone(durable) /\ Earlier(durable.from, db.from)
    BY DEF Reading
  <2>2. \A p, q \in db.from : log[p] = log[q] => p = q
    BY <2>1 DEF Alone
  <2>3. \A p, q \in durable.from : log[p] = log[q] => p = q
    BY <2>1 DEF Alone
  <2>4. \A o \in durable.from, p \in db.from : log[o] = log[p] => o <= p
    BY <2>1 DEF Earlier
  <2>5. \A p \in db.from \cup durable.from : p <= p
    BY Rows
  <2>6. \A p, q \in db'.from : log[p] = log[q] => p = q
    BY <2>2, <2>3
  <2>7. \A p, q \in durable'.from : log[p] = log[q] => p = q
    BY <2>2, <2>3
  <2>8. \A o \in durable'.from, p \in db'.from : log[o] = log[p] => o <= p
    BY <2>2, <2>3, <2>4, <2>5
  <2> QED
    BY <2>6, <2>7, <2>8 DEF Alone, Earlier
<1>2. /\ \A o \in reader'.older : log'[o] = reader'.unit
      /\ Earlier(reader.older, db.from)' /\ Earlier(reader.older, durable.from)'
  BY DEF Reading, Earlier
<1>3. ASSUME poller'.step # "idle"
      PROVE  /\ Earlier(durable.from, {poller.change})' /\ Earlier(db.from, {poller.change})'
             /\ Earlier(reader.older, {poller.change})'
  BY <1>3 DEF Reading, Earlier
<1>4. ASSUME poller'.step \in {"chunk", "provenance"} PROVE \A p \in db'.from : log'[p] # Unit'
  <2>1. poller'.change = poller.change
    BY <1>4
  <2> QED
    BY <1>4, <2>1 DEF Reading, Unit
<1> QED
  BY <1>1, <1>2, <1>3, <1>4 DEF Reading

\* A statement that leaves what has provenance.
LEMMA ReadingWrite ==
    ASSUME LocalStoreAssumption, Types, Reading, NEW d, Execute(d), d.from = db.from,
           log' = log,
           reader'.older = {} \/ (reader'.older = reader.older /\ reader'.unit = reader.unit),
           poller'.step # "idle" => poller.step # "idle" /\ poller'.change = poller.change,
           poller'.step \in {"chunk", "provenance"} => poller.step \in {"chunk", "provenance"}
    PROVE  Reading'
<1>1. db'.from = db.from /\ (durable'.from = durable.from \/ durable'.from = db.from)
  BY DEF Execute
<1> QED
  BY <1>1, ReadingSame

\* The starts and ends of processes, and the commands.
LEMMA ReadingProcess ==
    ASSUME LocalStoreAssumption, IInv, Reading, Starting \/ Command \/ Exit
    PROVE  Reading'
<1>1. Types /\ db \in Tables(Len(log))
  BY DEF IInv, Types
<1>2. AtRest.step = "idle" /\ Silent.older = {}
  BY DEF AtRest, Silent
<1>3. ASSUME NEW d, Execute(d), d.from = db.from, log' = log,
             \/ UNCHANGED <<poller, reader>>
             \/ poller' = AtRest /\ reader' = Silent
      PROVE  Reading'
  <2>1. CASE UNCHANGED <<poller, reader>>
    BY <1>1, <1>3, <2>1, ReadingWrite
  <2>2. CASE poller' = AtRest /\ reader' = Silent
    BY <1>1, <1>2, <1>3, <2>2, ReadingWrite
  <2> QED
    BY <1>3, <2>1, <2>2
<1>4. CASE \E kind \in {"server", "reset", "force"}, v \in 1 .. MaxSchema, repair \in BOOLEAN :
             Start(kind, v, repair)
  <2>1. UNCHANGED <<db, durable, log, poller, reader>>
    BY <1>4 DEF Start, connection
  <2> QED
    BY <1>1, <2>1, ReadingSame
<1>5. CASE CheckSchemaVersion
  <2>1. UNCHANGED <<log, poller, reader>>
    BY <1>5 DEF CheckSchemaVersion, CheckSentinel
  <2>2. (UNCHANGED connection) \/ \E value : Execute([db EXCEPT !.sentinel = value])
    BY <1>5 DEF CheckSchemaVersion, CheckSentinel
  <2>3. CASE UNCHANGED connection
    BY <1>1, <2>1, <2>3, ReadingSame DEF connection
  <2>4. ASSUME NEW value, Execute([db EXCEPT !.sentinel = value]) PROVE Reading'
    <3>1. PICK d : d = [db EXCEPT !.sentinel = value] /\ Execute(d)
      BY <2>4
    <3>2. d.from = db.from
      BY <1>1, <3>1 DEF Tables
    <3> QED
      BY <1>3, <2>1, <3>1, <3>2
  <2> QED
    BY <2>2, <2>3, <2>4
<1>6. CASE Wipe \/ FullIndex
  <2>1. UNCHANGED <<log, poller, reader>>
    BY <1>6 DEF Wipe, FullIndex, DropVectors, ForceStep, WipeStep
  <2>2. PICK d : /\ Execute(d)
                 /\ d \in {[db EXCEPT !.cache = NoText], [db EXCEPT !.part = NoText],
                           [db EXCEPT !.print = 0], [db EXCEPT !.sentinel = proc.schema],
                           [db EXCEPT !.sentinel = Missing]}
    BY <1>6 DEF Wipe, FullIndex, DropVectors, ForceStep, WipeStep
  <2>3. d.from = db.from
    BY <1>1, <2>2 DEF Tables
  <2> QED
    BY <1>3, <2>1, <2>2, <2>3
<1>7. CASE IndexNote
  <2>1. log' = log /\ \/ UNCHANGED <<poller, reader>>
                      \/ poller' = AtRest /\ reader' = Silent
    BY <1>7 DEF IndexNote, Died
  <2>2. PICK d : /\ d = [db EXCEPT !.note = {"chunk", "from", "doc"}, !.print = proc.schema]
                 /\ Execute(d)
    BY <1>7 DEF IndexNote
  <2>3. d.from = db.from
    BY <1>1, <2>2 DEF Tables
  <2> QED
    BY <1>3, <2>1, <2>2, <2>3
<1>8. CASE ResetIndex
  <2>1. ~tx /\ Execute(Purged(db)) /\ log' = log
    BY <1>8 DEF ResetIndex, PurgeApplicationSource
  <2>2. db' = Purged(db) /\ durable' = Purged(db)
    BY <2>1 DEF Execute
  <2>3. db'.from = {} /\ durable'.from = {}
    BY <1>1, <2>2 DEF Purged, ChunksPurged, Tables
  <2>4. Died \/ UNCHANGED <<poller, reader>>
    BY <1>8 DEF ResetIndex
  <2>5. CASE Died
    BY <1>1, <1>2, <2>1, <2>3, <2>5, ReadingSame DEF Died
  <2>6. CASE UNCHANGED <<poller, reader>>
    BY <1>1, <2>1, <2>3, <2>6, ReadingSame
  <2> QED
    BY <2>4, <2>5, <2>6
<1>9. CASE Exit
  <2>1. log' = log /\ poller' = AtRest /\ reader' = Silent /\ db' = durable /\ durable' = durable
    BY <1>9 DEF Exit, Died, Reopened
  <2> QED
    BY <1>1, <1>2, <2>1, ReadingSame
<1> QED
  BY <1>4, <1>5, <1>6, <1>7, <1>8, <1>9 DEF Starting, Command

\* A reader begins with what is durable: what is read is not older.
LEMMA ReadingAsk ==
    ASSUME LocalStoreAssumption, IInv, Reading, NEW u \in Units, Ask(u)
    PROVE  Reading'
<1>1. Types /\ UNCHANGED <<db, durable, log, poller>>
  BY DEF Ask, Looks, OfReader, connection, IInv
<1>2. PICK older : /\ older = {p \in durable.chunk \cap durable.from : log[p] = u}
                   /\ reader' = [step |-> "document", unit |-> u, older |-> older]
  BY DEF Ask
<1>3. reader'.older = older /\ reader'.unit = u
  BY <1>2
<1>4. older \subseteq durable.from /\ \A o \in older : log[o] = u
  BY <1>2
<1>5. Earlier(durable.from, durable.from)
  BY <1>1, Rows DEF Reading, Alone, Earlier
<1>6. \A late : Earlier(durable.from, late) => Earlier(older, late)
  BY <1>4 DEF Earlier
<1>7. /\ Earlier(older, db.from) /\ Earlier(older, durable.from)
      /\ poller.step # "idle" => Earlier(older, {poller.change})
  BY <1>5, <1>6 DEF Reading
<1> QED
  BY <1>1, <1>3, <1>4, <1>7 DEF Reading, Alone, Earlier, Unit

\* The steps of a read after it has begun, and the searches.
LEMMA ReadingReader ==
    ASSUME LocalStoreAssumption, IInv, Reading,
           \/ ResolveDocument \/ ResolveBinding \/ RequireActive \/ Drill \/ EnsureProvenance
           \/ ReadChunks \/ Search
    PROVE  Reading'
<1>1. Types /\ db \in Tables(Len(log)) /\ reader \in Readers /\ Silent.older = {}
  BY DEF IInv, Types, Silent
<1>2. /\ UNCHANGED <<log, poller>>
      /\ \/ UNCHANGED connection
         \/ CommitAny
         \/ \E note : Execute([db EXCEPT !.note = note])
  BY DEF ResolveDocument, ResolveBinding, RequireActive, Drill, EnsureProvenance, ReadChunks,
         Search, StartSearch, CountMissing, FillProvenance, RecountMissing, FindDocuments,
         FillDocuments, Hydrate, CountIs, Looks, OfReader, Ensure
<1>3. \/ reader' = Silent \/ \E step : ReaderTo(step)
      \/ \E step : reader' = [Silent EXCEPT !.step = step]
  BY DEF ResolveDocument, ResolveBinding, RequireActive, Drill, EnsureProvenance, ReadChunks,
         Search, StartSearch, CountMissing, FillProvenance, RecountMissing, FindDocuments,
         FillDocuments, Hydrate, CountIs, End
<1>4. reader'.older = {} \/ (reader'.older = reader.older /\ reader'.unit = reader.unit)
  BY <1>1, <1>3 DEF ReaderTo, Readers, Silent
<1>5. CASE UNCHANGED connection
  BY <1>1, <1>2, <1>4, <1>5, ReadingSame DEF connection
<1>6. CASE CommitAny
  BY <1>1, <1>2, <1>4, <1>6, ReadingSame DEF CommitAny
<1>7. ASSUME NEW note, Execute([db EXCEPT !.note = note]) PROVE Reading'
  <2>1. PICK d : d = [db EXCEPT !.note = note] /\ Execute(d)
    BY <1>7
  <2>2. d.from = db.from
    BY <1>1, <2>1 DEF Tables
  <2> QED
    BY <1>1, <1>2, <1>4, <2>1, <2>2, ReadingWrite
<1> QED
  BY <1>2, <1>5, <1>6, <1>7

\* The source changes: the changes there were keep their messages.
LEMMA ReadingPublish ==
    ASSUME LocalStoreAssumption, IInv, Reading, NEW u \in Units, Publish(u)
    PROVE  Reading'
<1>1. Types /\ log' = Append(log, u) /\ UNCHANGED <<db, durable, poller, reader>>
  BY DEF Publish, connection, IInv
<1>2. log \in Seq(Units)
  BY <1>1 DEF Types
<1>3. \A p \in 1 .. Len(log) : log'[p] = log[p]
  BY <1>1, <1>2
<1>4. /\ db.from \subseteq 1 .. Len(log) /\ durable.from \subseteq 1 .. Len(log)
      /\ reader.older \subseteq 1 .. Len(log)
  BY <1>1, Rows
<1>5. ASSUME poller.step # "idle" PROVE poller.change \in 1 .. Len(log)
  BY <1>1, <1>5, AtChange
<1>6. Alone(db)' /\ Alone(durable)' /\ Earlier(durable.from, db.from)'
  BY <1>1, <1>3, <1>4 DEF Reading, Alone, Earlier
<1>7. /\ \A o \in reader'.older : log'[o] = reader'.unit
      /\ Earlier(reader.older, db.from)' /\ Earlier(reader.older, durable.from)'
  BY <1>1, <1>3, <1>4 DEF Reading, Earlier
<1>8. poller.step # "idle" =>
        /\ Earlier(durable.from, {poller.change})' /\ Earlier(db.from, {poller.change})'
        /\ Earlier(reader.older, {poller.change})'
  BY <1>1, <1>3, <1>4, <1>5 DEF Reading, Earlier
<1>9. poller.step \in {"chunk", "provenance"} => \A p \in db.from : log'[p] # Unit'
  BY <1>1, <1>3, <1>4, <1>5 DEF Reading, Unit
<1> QED
  BY <1>1, <1>6, <1>7, <1>8, <1>9 DEF Reading

\* The poller takes a change that no later one has overtaken: none is newer.
LEMMA ReadingExport ==
    ASSUME LocalStoreAssumption, IInv, Reading, Export
    PROVE  Reading'
<1>1. Types /\ UNCHANGED <<db, durable, log, reader>>
  BY DEF Export, OfPoller, connection, IInv
<1>2. PICK p \in Feed(db.cursor) :
        poller' = [step |-> IF OnRecord(p) THEN "begin" ELSE "embed", change |-> p]
  BY DEF Export, Checkpoint
<1>3. poller'.change = p /\ poller'.step \in {"begin", "embed"}
  BY <1>2
<1>4. Len(log) \in Nat /\ db.cursor \in Nat /\ p \in db.cursor + 1 .. Len(log) /\ ~Superseded(p)
  BY <1>1, <1>2, Cursors DEF Feed
<1>5. ASSUME NEW early, early \subseteq 1 .. Len(log) PROVE Earlier(early, {p})
  <2> SUFFICES ASSUME NEW o \in 1 .. Len(log), log[o] = log[p] PROVE o <= p
    BY <1>5 DEF Earlier
  <2>1. o \notin p + 1 .. Len(log)
    BY <1>4 DEF Superseded
  <2> QED
    BY <1>4, <2>1
<1>6. Earlier(durable.from, {p}) /\ Earlier(db.from, {p}) /\ Earlier(reader.older, {p})
  BY <1>1, <1>5, Rows
<1> QED
  BY <1>1, <1>3, <1>6 DEF Reading, Alone, Earlier

\* The steps of the poller that leave what has provenance.
LEMMA ReadingPoller ==
    ASSUME LocalStoreAssumption, IInv, Reading,
           \/ Embed \/ BeginBatch \/ UpsertDocument \/ UpsertBinding \/ UpsertFingerprint
           \/ InsertChunk \/ StoreVector \/ WriteCheckpoint \/ CommitBatch \/ Fail
    PROVE  Reading'
<1>1. Types /\ db \in Tables(Len(log)) /\ AtRest.step = "idle"
  BY DEF IInv, Types, AtRest
<1>2. CASE Embed
  <2>1. /\ UNCHANGED <<log, reader>> /\ poller.step = "embed"
        /\ poller' = [poller EXCEPT !.step = "begin"]
    BY <1>2 DEF Embed, PollerAt, PollerTo, OfPoller
  <2>2. PICK value : Execute([db EXCEPT !.cache[NewChunk] = value])
    BY <1>2 DEF Embed
  <2>3. PICK d : d = [db EXCEPT !.cache[NewChunk] = value] /\ Execute(d)
    BY <2>2
  <2>4. d.from = db.from /\ poller'.step = "begin" /\ poller'.change = poller.change
    BY <1>1, <2>1, <2>3 DEF Tables, Types
  <2> QED
    BY <1>1, <2>1, <2>3, <2>4, ReadingWrite
<1>3. CASE BeginBatch
  <2>1. /\ UNCHANGED <<log, reader, db, durable>> /\ poller.step = "begin"
        /\ poller' = AtRest \/ poller' = [poller EXCEPT !.step = "document"]
    BY <1>3 DEF BeginBatch, Begin, PollerAt, PollerTo, OfPoller, connection
  <2>2. /\ poller'.step # "idle" => poller'.change = poller.change
        /\ poller'.step \notin {"chunk", "provenance"}
    BY <1>1, <2>1 DEF Types
  <2> QED
    BY <1>1, <2>1, <2>2, ReadingSame
<1>4. ASSUME NEW step \in InTry, NEW next, NEW d, Write(step, d, next), d.from = db.from,
             next \in {"chunk", "provenance"} => step \in {"chunk", "provenance"}
      PROVE  Reading'
  <2>1. /\ poller.step = step /\ poller' = [poller EXCEPT !.step = next] /\ Execute(d)
        /\ UNCHANGED <<log, reader>>
    BY <1>4 DEF Write, PollerAt, PollerTo, OfPoller
  <2>2. poller'.step = next /\ poller'.change = poller.change /\ step # "idle"
    BY <1>1, <2>1 DEF Types, InTry
  <2> QED
    BY <1>1, <1>4, <2>1, <2>2, ReadingWrite
<1>5. {"document", "binding", "fingerprint", "chunk", "vector", "checkpoint"} \subseteq InTry
  BY DEF InTry
<1>6. CASE UpsertDocument
  <2>1. PICK d : d = [db EXCEPT !.doc = @ \cup {Dialog}] /\ Write("document", d, "binding")
    BY <1>6 DEF UpsertDocument
  <2>2. d.from = db.from
    BY <1>1, <2>1 DEF Tables
  <2> QED
    BY <1>4, <1>5, <2>1, <2>2
<1>7. CASE UpsertBinding
  <2>1. PICK d : d = [db EXCEPT !.bound = @ \cup {Dialog}] /\ Write("binding", d, "fingerprint")
    BY <1>7 DEF UpsertBinding
  <2>2. d.from = db.from
    BY <1>1, <2>1 DEF Tables
  <2> QED
    BY <1>4, <1>5, <2>1, <2>2
<1>8. CASE UpsertFingerprint
  <2>1. PICK d, next : /\ d = [db EXCEPT !.fp[Unit] = poller.change]
                       /\ next \in {"checkpoint", "old chunks"} /\ Write("fingerprint", d, next)
    BY <1>8 DEF UpsertFingerprint
  <2>2. d.from = db.from
    BY <1>1, <2>1 DEF Tables
  <2> QED
    BY <1>4, <1>5, <2>1, <2>2
<1>9. CASE InsertChunk
  <2>1. PICK d : /\ d = [db EXCEPT !.chunk = @ \cup {NewChunk}]
                 /\ Write("chunk", d, "provenance")
    BY <1>9 DEF InsertChunk
  <2>2. d.from = db.from
    BY <1>1, <2>1 DEF Tables
  <2> QED
    BY <1>4, <1>5, <2>1, <2>2
<1>10. CASE StoreVector
  <2>1. PICK d : /\ d = [db EXCEPT !.part[NewChunk] = db.cache[NewChunk]]
                 /\ Write("vector", d, "checkpoint")
    BY <1>10 DEF StoreVector
  <2>2. d.from = db.from
    BY <1>1, <2>1 DEF Tables
  <2> QED
    BY <1>4, <1>5, <2>1, <2>2
<1>11. CASE WriteCheckpoint
  <2>1. PICK d : d = [db EXCEPT !.cursor = poller.change] /\ Write("checkpoint", d, "commit")
    BY <1>11 DEF WriteCheckpoint
  <2>2. d.from = db.from
    BY <1>1, <2>1 DEF Tables
  <2> QED
    BY <1>4, <1>5, <2>1, <2>2
<1>12. CASE CommitBatch \/ Fail
  <2>1. /\ UNCHANGED <<log, reader>> /\ poller' = AtRest
        /\ \/ db' = db /\ durable' = durable
           \/ db' = db /\ durable' = db
           \/ db' = durable /\ durable' = durable
    BY <1>12 DEF CommitBatch, Fail, Commit, Rollback, OfPoller, connection
  <2> QED
    BY <1>1, <2>1, ReadingSame
<1> QED
  BY <1>2, <1>3, <1>6, <1>7, <1>8, <1>9, <1>10, <1>11, <1>12

\* The chunks of the message go, and no other has its provenance until the new one.
LEMMA ReadingReplace ==
    ASSUME LocalStoreAssumption, IInv, Reading, DropOldChunks \/ AddProvenance
    PROVE  Reading'
<1>1. Types /\ db \in Tables(Len(log)) /\ poller.step # "idle"
  BY DEF DropOldChunks, AddProvenance, Write, PollerAt, IInv, Types
<1>2. PICK c, w : c = poller.change /\ w = Unit /\ log[c] = w /\ c \in Nat /\ c <= c
  BY <1>1, AtChange, Numbered
<1>3. ASSUME NEW step, NEW next, NEW d, Write(step, d, next) PROVE
        /\ poller.step = step /\ poller'.step = next /\ poller'.change = c /\ next = poller'.step
        /\ UNCHANGED <<log, reader>> /\ Unit' = w
        /\ db' = d /\ (durable' = durable \/ durable' = d)
  BY <1>1, <1>2, <1>3 DEF Write, PollerAt, PollerTo, OfPoller, Execute, Types, Unit
<1>4. /\ Alone(db) /\ Alone(durable) /\ Earlier(durable.from, db.from)
      /\ \A o \in reader.older : log[o] = reader.unit
      /\ Earlier(reader.older, db.from) /\ Earlier(reader.older, durable.from)
      /\ Earlier(durable.from, {c}) /\ Earlier(db.from, {c}) /\ Earlier(reader.older, {c})
  BY <1>1, <1>2 DEF Reading
<1>5. CASE DropOldChunks
  <2>1. PICK old, part, d : /\ old = {p \in db.from : log[p] = w}
                            /\ d = [db EXCEPT !.from = @ \ old, !.chunk = @ \ old, !.part = part]
                            /\ Write("old chunks", d, "chunk")
    BY <1>2, <1>5 DEF DropOldChunks
  <2>2. d.from = db.from \ old
    BY <1>1, <2>1 DEF Tables
  <2>3. /\ Alone(d) /\ Earlier(durable.from, d.from) /\ Earlier(reader.older, d.from)
        /\ Earlier(d.from, {c}) /\ Earlier(d.from, d.from) /\ \A p \in d.from : log[p] # w
    <3>1. \A p \in d.from : p <= p
      BY <1>1, <2>2, Rows
    <3>2. d.from \subseteq db.from /\ \A p \in d.from : log[p] # w
      BY <2>1, <2>2
    <3>3. Alone(d) /\ Earlier(d.from, d.from)
      BY <1>4, <3>1, <3>2 DEF Alone, Earlier
    <3>4. Earlier(durable.from, d.from) /\ Earlier(reader.older, d.from) /\ Earlier(d.from, {c})
      BY <1>4, <3>2 DEF Earlier
    <3> QED
      BY <3>2, <3>3, <3>4
  <2>4. /\ poller'.step = "chunk" /\ poller'.change = c /\ UNCHANGED <<log, reader>> /\ Unit' = w
        /\ db' = d /\ (durable' = durable \/ durable' = d)
    BY <1>3, <2>1
  <2> QED
    BY <1>4, <2>3, <2>4 DEF Reading, Alone, Earlier
<1>6. CASE AddProvenance
  <2>1. PICK d : d = [db EXCEPT !.from = @ \cup {c}] /\ Write("provenance", d, "vector")
    BY <1>2, <1>6 DEF AddProvenance, NewChunk
  <2>2. d.from = db.from \cup {c}
    BY <1>1, <2>1 DEF Tables
  <2>3. poller.step = "provenance" /\ \A p \in db.from : log[p] # w
    BY <1>2, <1>3, <2>1 DEF Reading
  <2>4. /\ Alone(d) /\ Earlier(durable.from, d.from) /\ Earlier(reader.older, d.from)
        /\ Earlier(d.from, {c}) /\ Earlier(d.from, d.from)
    <3>1. \A p \in d.from : p <= p
      BY <1>1, <1>2, <2>2, Rows
    <3> QED
      BY <1>2, <1>4, <2>2, <2>3, <3>1 DEF Alone, Earlier
  <2>5. /\ poller'.step = "vector" /\ poller'.change = c /\ UNCHANGED <<log, reader>>
        /\ db' = d /\ (durable' = durable \/ durable' = d)
    BY <1>3, <2>1
  <2> QED
    BY <1>4, <2>4, <2>5 DEF Reading, Alone, Earlier
<1> QED
  BY <1>5, <1>6

\* A local read answers with one text of the message it was asked for, and none older
\* than what was on record when it was asked, though it sees unfinished batches and
\* commits them.
THEOREM ReadsAnswerOnce == Spec => []ReadsOneVersion
<1>1. Init => Reading
  BY LocalStoreAssumption, ReadingInit
<1>2. IInv /\ Reading /\ [Next]_vars => Reading'
  <2> SUFFICES ASSUME IInv, Reading, [Next]_vars PROVE Reading'
    OBVIOUS
  <2>1. CASE \E u \in Units : Publish(u)
    BY <2>1, LocalStoreAssumption, ReadingPublish
  <2>2. CASE Starting \/ Command \/ Exit
    BY <2>2, LocalStoreAssumption, ReadingProcess
  <2>3. CASE Poller \/ Fail
    BY <2>3, LocalStoreAssumption, ReadingExport, ReadingPoller, ReadingReplace DEF Poller
  <2>4. CASE Reader \/ Search
    BY <2>4, LocalStoreAssumption, ReadingAsk, ReadingReader DEF Reader
  <2>5. CASE UNCHANGED vars
    <3>1. UNCHANGED <<db, durable, log, poller, reader>> /\ Types
      BY <2>5 DEF vars, connection, IInv
    <3> QED
      BY <3>1, LocalStoreAssumption, ReadingSame
  <2> QED
    BY <2>1, <2>2, <2>3, <2>4, <2>5 DEF Next
<1>3. Reading => ReadsOneVersion
  BY DEF Reading, Alone, Earlier, ReadsOneVersion, ChunksOnRecord
<1> QED
  BY <1>1, <1>2, <1>3, Invariance, PTL DEF Spec
=============================================================================
