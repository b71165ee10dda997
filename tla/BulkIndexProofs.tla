---------------------------- MODULE BulkIndexProofs ----------------------------
(***************************************************************************)
(* Proofs about BulkIndex, for any paths, texts and chunks, any number of  *)
(* edits in the middle of a run and of runs that fail or die: what can be  *)
(* found is what was indexed, and after a run that went through it can be  *)
(* read.  Both need to know, at every stage, what the stages before it     *)
(* left behind for the note: Inv says so, per note, of the notes that      *)
(* nobody touched while a run was at them.  What it says of the retrieval  *)
(* store it says of those no phase of whose manifests was withheld.        *)
(***************************************************************************)
EXTENDS BulkIndex, TLAPS

\* The shape of the two stores, and of the run.
Types ==
    /\ disk \in [Paths -> Versions \cup {None}]
    /\ docs \in [Paths -> Versions \cup {None}]
    /\ bound \in [Paths -> Versions \cup {None}]
    /\ body = [p \in Paths |-> body[p]]
    /\ binding = [p \in Paths |-> binding[p]]
    /\ \A p \in Paths : binding[p] # None => binding[p] \in [v : Versions \cup {None}, active : BOOLEAN]
    /\ held = [p \in Paths |-> held[p]]
    /\ torn \subseteq Paths /\ missed \subseteq Paths
RunTypes ==
    /\ run = [on |-> run.on, done |-> run.done, found |-> run.found, text |-> run.text, work |-> run.work]
    /\ run.on \in BOOLEAN /\ run.done \in BOOLEAN
    /\ run.found \in [Paths -> Versions \cup {None}]
    /\ run.text = [p \in Paths |-> run.text[p]]
    /\ run.work \in [ToSet(Stages) -> SUBSET Paths]
    /\ run.done => ~run.on /\ run.work = Nothing

\* How the sets of notes that wait for the stages are nested: a note leaves the
\* later stages last, and while notes are rebound or read none has been written.
WorkOrder == run.on =>
    /\ \A s \in Ingest \cup {"purge", "rebind", "rebindBody"} : \A p \in run.work[s] : run.found[p] # None
    /\ \A p \in run.work["hide"] : run.found[p] = None
    /\ run.work["read"] \subseteq run.work["save"]
    /\ run.work["embed"] \subseteq run.work["bind"] \cap run.work["graph"]
    /\ run.work["bind"] \cup run.work["graph"] \subseteq run.work["printBody"]
    /\ run.work["rebind"] \cup run.work["read"] # {} => run.work["printBody"] \subseteq run.work["embed"]

\* A holder row of p; what Save leaves for Embed; holders that were ever written
\* to the store are still held locally, which is what Purge goes by.
HolderOf(p, r) == r[1] = "holder" /\ r[3] = p
Saved(p) == run.on /\ p \in run.work["embed"] /\ p \notin run.work["save"] => Holding(run.text[p]) \subseteq held[p]
HoldersHeld(p) == \A r \in rows : HolderOf(p, r) => \E h \in held[p] : r = HolderRow(p, h)

\* Past its manifest, and not past stage s; not yet written, and purged if need be.
Written(p, s) == run.on /\ p \in run.work[s] /\ p \notin run.work["embed"]
Expected(p) == run.on /\ p \in run.work["embed"] /\ p \notin run.work["purge"]

\* Of a note no stage of the run is done with, nobody else has changed anything.
Same(p) == run.on /\ (\E s \in ToSet(Stages) : p \in run.work[s]) => disk[p] = run.found[p]
\* What Read leaves for Embed and Graph, and Document for Embed.
Texts(p) == run.on /\ p \in run.work["graph"] /\ p \notin run.work["read"] => run.text[p] = run.found[p].body
Docs(p) == run.on /\ p \in run.work["embed"] /\ p \notin run.work["document"] => docs[p] = run.found[p]
\* What was withheld was withheld of a note that has a fingerprint, or gets one.
Printed(p) ==
    p \in missed \/ (run.on /\ p \in run.work["purge"]) => body[p] # None \/ Written(p, "printBody")
\* No holder of an earlier text is left when a note is written, or was new.
Bare(p) ==
    p \notin missed /\ (Expected(p) \/ (body[p] = None /\ ~Written(p, "printBody")))
        => \A r \in rows : ~HolderOf(p, r)
\* Nor can the note be found, until it is written.
Hidden(p) ==
    p \notin missed /\ (Expected(p) \/ (run.on /\ p \in run.work["unbind"])) => bound[p] = None
\* A note that can be found is there as text b, and all that goes with it is
\* there, or the run is about to see to it.
Stored(p, b) ==
    /\ ChunksOf[b] # <<>> /\ Holding(b) \subseteq held[p]
    /\ DirectRows(p, b) \subseteq rows
    /\ \A r \in rows : HolderOf(p, r) => r \in DirectRows(p, b)
Complete(p, b) ==
    /\ docs[p] # None
    /\ Active(p) \/ Written(p, "bind")
    /\ GraphRows(p, b) \subseteq rows \/ Written(p, "graph")
    /\ body[p] = b \/ Written(p, "printBody")
Found(p) == p \notin missed /\ bound[p] # None => Stored(p, bound[p].body) /\ Complete(p, bound[p].body)
\* What can be found is of the text that the run has found, or about to be purged.
Current(p) ==
    p \notin missed /\ (run.on \/ run.done) /\ bound[p] # None /\ run.found[p] # None =>
        bound[p].body = run.found[p].body \/ (run.on /\ p \in run.work["purge"])
PathInv(p) == Same(p) /\ Texts(p) /\ Docs(p) /\ Printed(p) /\ Bare(p) /\ Hidden(p) /\ Found(p) /\ Current(p)
Inv ==
    /\ Types /\ RunTypes /\ WorkOrder
    /\ \A p \in Paths : Saved(p) /\ HoldersHeld(p)
    /\ \A p \in Paths \ torn : PathInv(p)

----------------------------------------------------------------------------
\* The stages, and what is over when one of them works.
LEMMA StageSet ==
    /\ DOMAIN Stages = 1..16
    /\ ToSet(Stages) = {"unbind", "hide", "purge", "rebindMeta", "rebindBody", "rebind", "read", "save",
         "document", "embed", "bind", "graph", "printBody", "printMeta", "existingPrint", "existing"}
<1>1. DOMAIN Stages = 1..16
    BY DEF Stages
<1> QED
    BY <1>1 DEF ToSet, Stages

LEMMA Earlier ==
    ASSUME NEW s, NEW p, At(s, p), NEW i \in 1..16, NEW j \in 1..16, Stages[j] = s, i < j
    PROVE  run.work[Stages[i]] = {}
<1>1. /\ i \in DOMAIN Stages /\ j \in DOMAIN Stages
      /\ s \in ToSet(Stages) /\ Stages[i] \in ToSet(Stages)
    BY StageSet DEF ToSet
<1>2. Stages[i] \in Before[s]
    BY <1>1 DEF Before
<1> QED
    BY <1>2 DEF At

LEMMA FirstStages ==
    ASSUME NEW p
    PROVE  /\ At("hide", p) => run.work["unbind"] = {}
           /\ At("purge", p) => run.work["hide"] = {} /\ run.work["unbind"] = {}
           /\ At("rebindBody", p) => run.work["purge"] = {}
           /\ At("rebind", p) => run.work["purge"] = {}
<1> USE DEF Stages
<1>1. ASSUME At("hide", p) PROVE run.work["unbind"] = {}
    BY <1>1, Earlier, 1 \in 1..16, 2 \in 1..16
<1>2. ASSUME At("purge", p) PROVE run.work["hide"] = {} /\ run.work["unbind"] = {}
    BY <1>2, Earlier, 1 \in 1..16, 2 \in 1..16, 3 \in 1..16
<1>3. ASSUME At("rebindBody", p) PROVE run.work["purge"] = {}
    BY <1>3, Earlier, 3 \in 1..16, 5 \in 1..16
<1>4. ASSUME At("rebind", p) PROVE run.work["purge"] = {}
    BY <1>4, Earlier, 3 \in 1..16, 6 \in 1..16
<1> QED
    BY <1>1, <1>2, <1>3, <1>4

LEMMA LastStages ==
    ASSUME NEW p
    PROVE  /\ At("read", p) => \A s \in {"unbind", "purge", "rebindBody", "rebind"} : run.work[s] = {}
           /\ At("document", p) => \A s \in {"unbind", "purge", "rebindBody", "rebind", "read", "save"} : run.work[s] = {}
           /\ At("embed", p) => \A s \in {"unbind", "purge", "rebindBody", "rebind", "read", "save", "document"} : run.work[s] = {}
           /\ At("bind", p) => \A s \in {"unbind", "purge", "rebind", "read", "embed"} : run.work[s] = {}
           /\ At("graph", p) => \A s \in {"unbind", "purge", "rebind", "read", "embed", "bind"} : run.work[s] = {}
           /\ At("printBody", p) => \A s \in {"unbind", "purge", "rebind", "read", "embed", "bind", "graph"} : run.work[s] = {}
           /\ At("save", p) => \A s \in {"unbind", "purge", "rebindBody", "rebind", "read"} : run.work[s] = {}
<1>1. ASSUME NEW s, NEW j \in 1..16, Stages[j] = s, At(s, p)
      PROVE  /\ 1 < j => run.work["unbind"] = {}
             /\ 3 < j => run.work["purge"] = {}
             /\ 5 < j => run.work["rebindBody"] = {}
             /\ 6 < j => run.work["rebind"] = {}
             /\ 7 < j => run.work["read"] = {}
             /\ 8 < j => run.work["save"] = {}
             /\ 9 < j => run.work["document"] = {}
             /\ 10 < j => run.work["embed"] = {}
             /\ 11 < j => run.work["bind"] = {}
             /\ 12 < j => run.work["graph"] = {}
    <2>1. \A i \in 1..16 : i < j => run.work[Stages[i]] = {}
        BY <1>1, Earlier
    <2> QED
        BY <2>1 DEF Stages
<1>2. /\ Stages[7] = "read" /\ Stages[8] = "save" /\ Stages[9] = "document" /\ Stages[10] = "embed"
      /\ Stages[11] = "bind" /\ Stages[12] = "graph" /\ Stages[13] = "printBody"
    BY DEF Stages
<1>3. ASSUME At("read", p) PROVE \A s \in {"unbind", "purge", "rebindBody", "rebind"} : run.work[s] = {}
    BY <1>1, <1>2, <1>3, 7 \in 1..16
<1>4. ASSUME At("document", p)
      PROVE  \A s \in {"unbind", "purge", "rebindBody", "rebind", "read", "save"} : run.work[s] = {}
    BY <1>1, <1>2, <1>4, 9 \in 1..16
<1>5. ASSUME At("embed", p)
      PROVE  \A s \in {"unbind", "purge", "rebindBody", "rebind", "read", "save", "document"} : run.work[s] = {}
    BY <1>1, <1>2, <1>5, 10 \in 1..16
<1>6. ASSUME At("bind", p)
      PROVE  \A s \in {"unbind", "purge", "rebind", "read", "embed"} : run.work[s] = {}
    BY <1>1, <1>2, <1>6, 11 \in 1..16
<1>7. ASSUME At("graph", p)
      PROVE  \A s \in {"unbind", "purge", "rebind", "read", "embed", "bind"} : run.work[s] = {}
    BY <1>1, <1>2, <1>7, 12 \in 1..16
<1>8. ASSUME At("printBody", p)
      PROVE  \A s \in {"unbind", "purge", "rebind", "read", "embed", "bind", "graph"} : run.work[s] = {}
    BY <1>1, <1>2, <1>8, 13 \in 1..16
<1>9. ASSUME At("save", p)
      PROVE  \A s \in {"unbind", "purge", "rebindBody", "rebind", "read"} : run.work[s] = {}
    BY <1>1, <1>2, <1>9, 8 \in 1..16
<1> QED
    BY <1>3, <1>4, <1>5, <1>6, <1>7, <1>8, <1>9

----------------------------------------------------------------------------
\* Rows are told apart by their kind, and holders by their path as well.
LEMMA ContentHasNoHolder ==
    ASSUME NEW p, NEW cs, NEW r \in ContentRows(p, cs)
    PROVE  /\ r[1] \in {"chunk", "embedding", "provenance"}
           /\ \E c \in cs : r \in {ChunkRow(c), EmbeddingRow(c), ProvenanceRow(c, p)}
BY DEF ContentRows, ChunkRow, EmbeddingRow, ProvenanceRow

LEMMA GraphHasNoHolder ==
    ASSUME NEW p, NEW b, NEW r \in GraphRows(p, b)
    PROVE  r[1] \in {"file", "section", "contains"}
BY DEF GraphRows

LEMMA DirectHolders ==
    ASSUME NEW p, NEW q, NEW b, NEW r \in DirectRows(q, b), HolderOf(p, r)
    PROVE  q = p /\ \E h \in Holding(b) : r = HolderRow(p, h)
<1>1. r \notin ContentRows(q, ChunksIn(Holding(b)))
    BY ContentHasNoHolder DEF HolderOf
<1>2. PICK h \in Holding(b) : r = HolderRow(q, h)
    BY <1>1 DEF DirectRows
<1> QED
    BY <1>2 DEF HolderOf, HolderRow

LEMMA PurgedHolders ==
    ASSUME NEW p, NEW q, NEW r \in Purged(p), HolderOf(q, r)
    PROVE  q = p
<1>1. r \notin ContentRows(p, OrphansOf(p))
    BY ContentHasNoHolder DEF HolderOf
<1>2. PICK h \in held[p] : r = HolderRow(p, h)
    BY <1>1 DEF Purged
<1> QED
    BY <1>2 DEF HolderOf, HolderRow

\* A purge takes no row from another note that holds its chunks, and none from
\* the graph.
LEMMA PurgeSpares ==
    ASSUME NEW p \in Paths, NEW q \in Paths, p # q, NEW b, Holding(b) \subseteq held[q]
    PROVE  Purged(p) \cap DirectRows(q, b) = {}
<1>1. SUFFICES ASSUME NEW r \in Purged(p), r \in DirectRows(q, b) PROVE FALSE
    OBVIOUS
<1>2. CASE r[1] = "holder"
    <2>1. HolderOf(q, r)
        <3>1. r \notin ContentRows(q, ChunksIn(Holding(b)))
            BY <1>2, ContentHasNoHolder
        <3>2. PICK h \in Holding(b) : r = HolderRow(q, h)
            BY <3>1, <1>1 DEF DirectRows
        <3> QED
            BY <3>2 DEF HolderOf, HolderRow
    <2> QED
        BY <2>1, <1>1, PurgedHolders
<1>3. CASE r[1] # "holder"
    <2>1. r \in ContentRows(p, OrphansOf(p))
        BY <1>3, <1>1 DEF Purged, HolderRow
    <2>2. r \in ContentRows(q, ChunksIn(Holding(b)))
        BY <1>3, <1>1 DEF DirectRows, HolderRow
    <2>3. PICK c \in OrphansOf(p) : r \in {ChunkRow(c), EmbeddingRow(c), ProvenanceRow(c, p)}
        BY <2>1, ContentHasNoHolder
    <2>4. PICK d \in ChunksIn(Holding(b)) : r \in {ChunkRow(d), EmbeddingRow(d), ProvenanceRow(d, q)}
        BY <2>2, ContentHasNoHolder
    <2>5. c = d
        BY <2>3, <2>4 DEF ChunkRow, EmbeddingRow, ProvenanceRow
    <2>6. d \in ChunksIn(held[q])
        BY <2>4 DEF ChunksIn
    <2> QED
        BY <2>5, <2>6, <2>3 DEF OrphansOf
<1> QED
    BY <1>2, <1>3

LEMMA PurgeSparesGraph ==
    ASSUME NEW p, NEW q, NEW b
    PROVE  Purged(p) \cap GraphRows(q, b) = {}
<1>1. SUFFICES ASSUME NEW r \in Purged(p), r \in GraphRows(q, b) PROVE FALSE
    OBVIOUS
<1>2. r[1] \in {"file", "section", "contains"}
    BY <1>1, GraphHasNoHolder
<1>3. r \notin ContentRows(p, OrphansOf(p))
    BY <1>2, ContentHasNoHolder
<1> QED
    BY <1>1, <1>2, <1>3 DEF Purged, HolderRow

----------------------------------------------------------------------------
\* The invariant holds at first, and says what the theorems promise.
LEMMA NothingIs ==
    /\ Nothing \in [ToSet(Stages) -> SUBSET Paths]
    /\ \A s \in ToSet(Stages) : Nothing[s] = {}
BY DEF Nothing

LEMMA InitInv == ASSUME Init PROVE Inv
<1> USE BulkIndexAssumption
<1>1. Types
    BY DEF Init, Types
<1>2. RunTypes
    BY NothingIs DEF Init, RunTypes
<1>3. WorkOrder
    BY DEF Init, WorkOrder
<1>4. \A p \in Paths : Saved(p) /\ HoldersHeld(p)
    BY DEF Init, Saved, HoldersHeld
<1>5. \A p \in Paths : PathInv(p)
    BY DEF Init, PathInv, Same, Texts, Docs, Printed, Bare, Hidden, Found, Current, Expected
<1> QED
    BY <1>1, <1>2, <1>3, <1>4, <1>5 DEF Inv

LEMMA InvTypes == ASSUME Inv, applied \subseteq Phases PROVE TypeOK
BY DEF Inv, Types, RunTypes, TypeOK

LEMMA InvExact == ASSUME Inv PROVE FoundIsExact
BY DEF Inv, PathInv, Found, Stored, HolderOf, FoundIsExact

LEMMA FirstIndex == ASSUME NEW T, NEW s \in Seq(T), s # <<>> PROVE 1 \in DOMAIN s
<1>1. Len(s) \in Nat /\ DOMAIN s = 1..Len(s) /\ Len(s) # 0
    OBVIOUS
<1> QED
    BY <1>1

LEMMA InvReadable == ASSUME Inv PROVE FoundIsReadable
<1> USE BulkIndexAssumption
<1>1. SUFFICES ASSUME run.done, NEW p \in Paths \ (torn \cup missed), bound[p] # None, disk[p] # None, disk[p] = run.found[p]
               PROVE  /\ Readable(p)
                      /\ bound[p].body = disk[p].body /\ GraphRows(p, disk[p].body) \subseteq rows
    BY DEF FoundIsReadable
<1>2. ~run.on
    BY <1>1 DEF Inv, RunTypes
<1>3. bound[p].body = disk[p].body
    BY <1>1, <1>2 DEF Inv, PathInv, Current
<1>4. Stored(p, bound[p].body) /\ Complete(p, bound[p].body)
    BY <1>1 DEF Inv, PathInv, Found
<1>5. bound[p] \in Versions
    BY <1>1 DEF Inv, Types
<1>6. held[p] # {}
    <2> DEFINE cs == ChunksOf[bound[p].body]
    <2>1. cs \in Seq(ToSet(cs)) /\ cs # <<>>
        BY <1>5, <1>4 DEF Stored
    <2>2. 1 \in DOMAIN cs
        BY <2>1, FirstIndex
    <2>3. <<cs[1], 1>> \in Holding(bound[p].body)
        BY <2>2 DEF Holding
    <2> QED
        BY <2>3, <1>4 DEF Stored
<1> QED
    BY <1>2, <1>3, <1>4, <1>6 DEF Complete, Written, Readable, Resolved

----------------------------------------------------------------------------
\* A step that is not about a note leaves what is known of it: the run is no
\* further with it, its rows are there and no holder of it is new.
RunKept(p) ==
    /\ run'.on = run.on /\ run'.done = run.done /\ run'.found = run.found /\ run'.text[p] = run.text[p]
    /\ \A s \in {"graph", "read", "embed", "document", "purge", "printBody", "unbind", "bind"} :
          p \in run'.work[s] <=> p \in run.work[s]
    /\ \A s \in ToSet(Stages) : p \in run'.work[s] => \E t \in ToSet(Stages) : p \in run.work[t]
RowsKept(p) ==
    /\ \A r : HolderOf(p, r) => (r \in rows' <=> r \in rows)
    /\ \A b : Holding(b) \subseteq held[p] /\ DirectRows(p, b) \subseteq rows => DirectRows(p, b) \subseteq rows'
    /\ \A b : GraphRows(p, b) \subseteq rows => GraphRows(p, b) \subseteq rows'
NoteKept(p) ==
    /\ disk'[p] = disk[p] /\ docs'[p] = docs[p] /\ binding'[p] = binding[p] /\ body'[p] = body[p]
    /\ bound'[p] = bound[p] /\ held[p] \subseteq held'[p] /\ (p \in missed' <=> p \in missed)
Kept(p) == RunKept(p) /\ RowsKept(p) /\ NoteKept(p)

LEMMA KeptInv ==
    ASSUME NEW p, Kept(p), PathInv(p)
    PROVE  PathInv(p)'
<1> USE DEF Kept, RunKept, RowsKept, NoteKept
<1>1. Same(p)'
    BY DEF PathInv, Same
<1>2. Texts(p)'
    BY DEF PathInv, Texts
<1>3. Docs(p)'
    BY DEF PathInv, Docs
<1>8. Printed(p)'
    BY DEF PathInv, Printed, Written
<1>4. Bare(p)'
    BY DEF PathInv, Bare, Expected, Written
<1>5. Hidden(p)'
    BY DEF PathInv, Hidden, Expected
<1>6. Found(p)'
    <2>1. SUFFICES ASSUME p \notin missed', bound'[p] # None
                   PROVE  Stored(p, bound[p].body)' /\ Complete(p, bound[p].body)'
        BY DEF Found
    <2>2. Stored(p, bound[p].body) /\ Complete(p, bound[p].body)
        BY <2>1 DEF PathInv, Found
    <2>3. Stored(p, bound[p].body)'
        BY <2>2 DEF Stored
    <2>4. Complete(p, bound[p].body)'
        BY <2>2 DEF Complete, Active, Written
    <2> QED
        BY <2>3, <2>4
<1>7. Current(p)'
    BY DEF PathInv, Current
<1> QED
    BY <1>1, <1>2, <1>3, <1>4, <1>5, <1>6, <1>7, <1>8 DEF PathInv

\* The run, and the note a stage is done with; and all other notes.
LEMMA DoneRun ==
    ASSUME RunTypes, run.on, NEW s \in ToSet(Stages), NEW p \in Paths, Done(s, p)
    PROVE  /\ RunTypes'
           /\ run'.on = run.on /\ run'.done = run.done /\ run'.found = run.found /\ run'.text = run.text
           /\ run'.work = [run.work EXCEPT ![s] = @ \ {p}]
           /\ \A t \in ToSet(Stages) : run'.work[t] = IF t = s THEN run.work[s] \ {p} ELSE run.work[t]
<1>1. run' = [run EXCEPT !.work = [run.work EXCEPT ![s] = @ \ {p}]]
    BY DEF RunTypes, Done
<1>2. run' = [on |-> run.on, done |-> run.done, found |-> run.found, text |-> run.text,
              work |-> [run.work EXCEPT ![s] = @ \ {p}]]
    BY <1>1 DEF RunTypes
<1>3. /\ run'.on = run.on /\ run'.done = run.done /\ run'.found = run.found /\ run'.text = run.text
      /\ run'.work = [run.work EXCEPT ![s] = @ \ {p}]
    BY <1>2
<1>4. RunTypes'
    BY <1>2, <1>3 DEF RunTypes
<1>5. \A t \in ToSet(Stages) : run'.work[t] = IF t = s THEN run.work[s] \ {p} ELSE run.work[t]
    BY <1>3 DEF RunTypes
<1> QED
    BY <1>3, <1>4, <1>5

LEMMA DoneKeepsOthers ==
    ASSUME RunTypes, run.on, NEW s \in ToSet(Stages), NEW p \in Paths, Done(s, p), NEW q \in Paths,
           q # p \/ s \notin {"graph", "read", "embed", "document", "purge", "printBody", "unbind", "bind"}
    PROVE  RunKept(q)
<1>1. /\ run'.on = run.on /\ run'.done = run.done /\ run'.found = run.found /\ run'.text = run.text
      /\ \A t \in ToSet(Stages) : run'.work[t] = IF t = s THEN run.work[s] \ {p} ELSE run.work[t]
    BY DoneRun
<1>2. {"graph", "read", "embed", "document", "purge", "printBody", "unbind", "bind"} \subseteq ToSet(Stages)
    BY StageSet
<1> QED
    BY <1>1, <1>2 DEF RunKept

LEMMA SameRows == ASSUME rows' = rows, NEW p PROVE RowsKept(p)
BY DEF RowsKept

\* The local binding of one note is renewed.
LEMMA BindingUpserted ==
    ASSUME Types, NEW p \in Paths, NEW u \in Versions \cup {None}, NEW a \in BOOLEAN,
           binding' = Upserted(p, u, a)
    PROVE  /\ binding' = [q \in Paths |-> binding'[q]]
           /\ \A q \in Paths : binding'[q] # None => binding'[q] \in [v : Versions \cup {None}, active : BOOLEAN]
           /\ binding'[p] # None /\ binding'[p].active = a
           /\ \A q \in Paths : q # p => binding'[q] = binding[q]
<1> DEFINE b == [v |-> u, active |-> a]
<1>1. b \in [v : Versions \cup {None}, active : BOOLEAN] /\ b # None /\ b.active = a
    BY BulkIndexAssumption
<1> HIDE DEF b
<1>2. binding' = [binding EXCEPT ![p] = b]
    BY DEF Upserted, b
<1>3. binding' = [q \in Paths |-> IF q = p THEN b ELSE binding[q]]
    BY <1>2 DEF Types
<1> QED
    BY <1>1, <1>3 DEF Types

LEMMA AtOn == ASSUME NEW s, NEW p, At(s, p) PROVE run.on /\ p \in run.work[s]
BY DEF At

\* Stages that only go on; what is known of the notes does not depend on them.
LEMMA SkipRebindInv ==
    ASSUME Inv, NEW p \in Paths, SkipRebind(p)
    PROVE  Inv'
<1>1. /\ At("rebind", p) /\ Done("rebind", p) /\ UNCHANGED <<disk, docs, binding, held, body, bound, rows, missed, torn>>
    BY DEF SkipRebind, local, prints, store
<1>2. run.on /\ "rebind" \in ToSet(Stages)
    BY <1>1, AtOn, StageSet
<1>3. Types /\ RunTypes /\ WorkOrder
    BY DEF Inv
<1>4. /\ RunTypes' /\ run'.on = run.on /\ run'.found = run.found /\ run'.text = run.text
      /\ \A t \in ToSet(Stages) : run'.work[t] = IF t = "rebind" THEN run.work["rebind"] \ {p} ELSE run.work[t]
    BY <1>1, <1>2, <1>3, DoneRun
<1>5. Types'
    BY <1>1, <1>3 DEF Types
<1>6. WorkOrder'
    BY <1>3, <1>4, StageSet DEF WorkOrder, Ingest
<1>7. \A q \in Paths : Saved(q)' /\ HoldersHeld(q)'
    BY <1>1, <1>4, StageSet DEF Inv, Saved, HoldersHeld
<1>8. ASSUME NEW q \in Paths \ torn' PROVE PathInv(q)'
    <2>1. RunKept(q)
        BY <1>1, <1>2, <1>3, DoneKeepsOthers
    <2>2. Kept(q)
        BY <2>1, <1>1, SameRows DEF Kept, NoteKept
    <2> QED
        BY <2>2, <1>1, KeptInv DEF Inv
<1> QED
    BY <1>4, <1>5, <1>6, <1>7, <1>8 DEF Inv

LEMMA PrintMetaInv ==
    ASSUME Inv, NEW p \in Paths, PrintMeta(p)
    PROVE  Inv'
<1>1. PICK s \in {"rebindMeta", "printMeta", "existingPrint"} :
        At(s, p) /\ Done(s, p) /\ UNCHANGED <<disk, docs, binding, held, body, bound, rows, missed, torn>>
    BY DEF PrintMeta, local, prints, store
<1>2. run.on /\ s \in ToSet(Stages)
    BY <1>1, AtOn, StageSet
<1>3. Types /\ RunTypes /\ WorkOrder
    BY DEF Inv
<1>4. /\ RunTypes' /\ run'.on = run.on /\ run'.found = run.found /\ run'.text = run.text
      /\ \A t \in ToSet(Stages) : run'.work[t] = IF t = s THEN run.work[s] \ {p} ELSE run.work[t]
    BY <1>1, <1>2, <1>3, DoneRun
<1>5. Types'
    BY <1>1, <1>3 DEF Types
<1>6. WorkOrder'
    BY <1>3, <1>4, StageSet DEF WorkOrder, Ingest
<1>7. \A q \in Paths : Saved(q)' /\ HoldersHeld(q)'
    BY <1>1, <1>4, StageSet DEF Inv, Saved, HoldersHeld
<1>8. ASSUME NEW q \in Paths \ torn' PROVE PathInv(q)'
    <2>1. RunKept(q)
        BY <1>1, <1>2, <1>3, DoneKeepsOthers
    <2>2. Kept(q)
        BY <2>1, <1>1, SameRows DEF Kept, NoteKept
    <2> QED
        BY <2>2, <1>1, KeptInv DEF Inv
<1> QED
    BY <1>4, <1>5, <1>6, <1>7, <1>8 DEF Inv

\* Chunks are saved after the last note was read.
LEMMA SaveInv ==
    ASSUME Inv, NEW p \in Paths, Save(p)
    PROVE  Inv'
<1>1. /\ At("save", p) /\ Done("save", p) /\ UNCHANGED <<disk, docs, binding, body, bound, rows, missed, torn>>
      /\ held' = [held EXCEPT ![p] = @ \cup Holding(run.text[p])]
    BY DEF Save, prints, store, WithHolders
<1>2. run.on /\ "save" \in ToSet(Stages)
    BY <1>1, AtOn, StageSet
<1>3. Types /\ RunTypes /\ WorkOrder
    BY DEF Inv
<1>4. /\ RunTypes' /\ run'.on = run.on /\ run'.found = run.found /\ run'.text = run.text
      /\ \A t \in ToSet(Stages) : run'.work[t] = IF t = "save" THEN run.work["save"] \ {p} ELSE run.work[t]
    BY <1>1, <1>2, <1>3, DoneRun
<1>5. Types'
    BY <1>1, <1>3 DEF Types
<1>6. \A q \in Paths : held[q] \subseteq held'[q]
    BY <1>1, <1>3 DEF Types
<1>7. WorkOrder'
    BY <1>3, <1>4, <1>1, StageSet, LastStages DEF WorkOrder, Ingest
<1>8. ASSUME NEW q \in Paths PROVE Saved(q)' /\ HoldersHeld(q)'
    <2>1. Saved(q)'
        BY <1>1, <1>3, <1>4, <1>6, StageSet DEF Inv, Saved, Types
    <2>2. HoldersHeld(q)'
        BY <1>1, <1>6 DEF Inv, HoldersHeld
    <2> QED
        BY <2>1, <2>2
<1>9. ASSUME NEW q \in Paths \ torn' PROVE PathInv(q)'
    <2>1. RunKept(q)
        BY <1>1, <1>2, <1>3, DoneKeepsOthers
    <2>2. Kept(q)
        BY <2>1, <1>1, <1>6, SameRows DEF Kept, NoteKept
    <2> QED
        BY <2>2, <1>1, KeptInv DEF Inv
<1> QED
    BY <1>4, <1>5, <1>7, <1>8, <1>9 DEF Inv

\* Hide and Unbind: a note that is gone cannot be found any more.
LEMMA UnbindInv ==
    ASSUME Inv, NEW p \in Paths, Unbind(p)
    PROVE  Inv'
<1>1. /\ At("unbind", p) /\ Done("unbind", p) /\ UNCHANGED <<disk, docs, held, body, bound, rows, missed, torn>>
    BY DEF Unbind, prints, store
<1>2. run.on /\ "unbind" \in ToSet(Stages) /\ p \in run.work["unbind"]
    BY <1>1, AtOn, StageSet
<1>3. Types /\ RunTypes /\ WorkOrder
    BY DEF Inv
<1>4. /\ RunTypes' /\ run'.on = run.on /\ run'.found = run.found /\ run'.text = run.text
      /\ \A t \in ToSet(Stages) : run'.work[t] = IF t = "unbind" THEN run.work["unbind"] \ {p} ELSE run.work[t]
    BY <1>1, <1>2, <1>3, DoneRun
<1>10. /\ binding' = [q \in Paths |-> binding'[q]]
       /\ \A q \in Paths : binding'[q] # None => binding'[q] \in [v : Versions \cup {None}, active : BOOLEAN]
       /\ \A q \in Paths : q # p => binding'[q] = binding[q]
    <2>1. PICK u \in Versions \cup {None} : binding' = Upserted(p, u, FALSE)
        BY <1>3 DEF Unbind, Types
    <2> QED
        BY <2>1, <1>3, BindingUpserted
<1>5. Types'
    BY <1>1, <1>3, <1>10 DEF Types
<1>6. WorkOrder'
    BY <1>3, <1>4, StageSet DEF WorkOrder, Ingest
<1>7. \A q \in Paths : Saved(q)' /\ HoldersHeld(q)'
    BY <1>1, <1>4, StageSet DEF Inv, Saved, HoldersHeld
<1>8. ASSUME NEW q \in Paths \ torn', q # p PROVE PathInv(q)'
    <2>1. RunKept(q)
        BY <1>1, <1>2, <1>3, <1>8, DoneKeepsOthers
    <2>2. Kept(q)
        BY <2>1, <1>1, <1>3, <1>8, <1>10, SameRows DEF Kept, NoteKept, Types
    <2> QED
        BY <2>2, <1>1, KeptInv DEF Inv
<1>9. ASSUME p \notin torn PROVE PathInv(p)'
    <2>1. PathInv(p)
        BY <1>9 DEF Inv
    <2>2. p \notin missed => bound[p] = None
        BY <2>1, <1>2 DEF PathInv, Hidden
    <2>3. Same(p)' /\ Texts(p)' /\ Docs(p)' /\ Printed(p)' /\ Bare(p)'
        BY <2>1, <1>1, <1>4, StageSet DEF PathInv, Same, Texts, Docs, Printed, Bare, Expected, Written
    <2> QED
        BY <2>2, <2>3, <1>1 DEF PathInv, Hidden, Found, Current
<1> QED
    BY <1>1, <1>4, <1>5, <1>6, <1>7, <1>8, <1>9 DEF Inv

\* An orphan of p is held by no other note, so what others need stays.
LEMMA PurgeInv ==
    ASSUME Inv, NEW p \in Paths, Purge(p)
    PROVE  Inv'
<1>1. /\ At("purge", p) /\ Done("purge", p) /\ UNCHANGED <<disk, docs, binding, held, body, torn>>
      /\ Tombstones(p, Purged(p))
    BY DEF Purge, local, prints
<1>2. run.on /\ "purge" \in ToSet(Stages) /\ p \in run.work["purge"]
    BY <1>1, AtOn, StageSet
<1>3. Types /\ RunTypes /\ WorkOrder
    BY DEF Inv
<1>4. /\ RunTypes' /\ run'.on = run.on /\ run'.found = run.found /\ run'.text = run.text
      /\ \A t \in ToSet(Stages) : run'.work[t] = IF t = "purge" THEN run.work["purge"] \ {p} ELSE run.work[t]
    BY <1>1, <1>2, <1>3, DoneRun
<1>11. /\ rows' = rows \ Purged(p) \/ rows' = rows
       /\ bound' = [bound EXCEPT ![p] = None] \/ bound' = bound
       /\ missed' \in {missed, missed \ {p}, missed \cup {p}}
    BY <1>1 DEF Tombstones, store
<1>5. Types'
    BY <1>1, <1>3, <1>11 DEF Types
<1>6. WorkOrder'
    BY <1>3, <1>4, StageSet DEF WorkOrder, Ingest
<1>7. \A q \in Paths : Saved(q)' /\ HoldersHeld(q)'
    BY <1>1, <1>4, <1>11, StageSet DEF Inv, Saved, HoldersHeld
<1>8. ASSUME NEW q \in Paths \ torn', q # p PROVE PathInv(q)'
    <2>1. RunKept(q)
        BY <1>1, <1>2, <1>3, <1>8, DoneKeepsOthers
    <2>2. RowsKept(q)
        <3>1. \A r : HolderOf(q, r) => (r \in rows' <=> r \in rows)
            BY <1>11, <1>8, PurgedHolders
        <3>2. ASSUME NEW b, Holding(b) \subseteq held[q], DirectRows(q, b) \subseteq rows
              PROVE  DirectRows(q, b) \subseteq rows'
            BY <1>11, <1>8, <3>2, PurgeSpares
        <3>3. ASSUME NEW b, GraphRows(q, b) \subseteq rows PROVE GraphRows(q, b) \subseteq rows'
            BY <1>11, <3>3, PurgeSparesGraph
        <3> QED
            BY <3>1, <3>2, <3>3 DEF RowsKept
    <2>3. Kept(q)
        BY <2>1, <2>2, <1>1, <1>3, <1>8, <1>11 DEF Kept, NoteKept, Types
    <2> QED
        BY <2>3, <1>1, KeptInv DEF Inv
<1>9. ASSUME p \notin torn PROVE PathInv(p)'
    <2>1. PathInv(p) /\ HoldersHeld(p)
        BY <1>9 DEF Inv
    <2>2. Same(p)' /\ Texts(p)' /\ Docs(p)'
        BY <2>1, <1>1, <1>4, StageSet DEF PathInv, Same, Texts, Docs
    <2>3. Printed(p)'
        BY <2>1, <1>1, <1>2, <1>4, StageSet DEF PathInv, Printed, Written
    <2>4. ASSUME p \notin missed' PROVE bound'[p] = None /\ \A r \in rows' : ~HolderOf(p, r)
        <3>1. CASE ~Known(p) /\ Purged(p) = {} /\ UNCHANGED store
            <4>1. held[p] = {}
                BY <3>1 DEF Purged
            <4>2. bound[p] = None
                BY <2>1, <2>4, <3>1, <1>3 DEF PathInv, Found, Complete, Known, Types, store
            <4> QED
                BY <2>1, <3>1, <4>1, <4>2 DEF HoldersHeld, store
        <3>2. CASE bound' = [bound EXCEPT ![p] = None] /\ rows' = rows \ Purged(p)
            BY <2>1, <3>2, <1>3 DEF HoldersHeld, Purged, Types
        <3>3. CASE /\ UNCHANGED <<bound, rows>>
                   /\ missed' = IF Purged(p) = {} /\ bound[p] = None THEN missed ELSE missed \cup {p}
            <4>1. Purged(p) = {} /\ bound[p] = None
                BY <2>4, <3>3
            <4>2. held[p] = {}
                BY <4>1 DEF Purged
            <4> QED
                BY <2>1, <3>3, <4>1, <4>2 DEF HoldersHeld
        <3> QED
            BY <3>1, <3>2, <3>3, <1>1 DEF Tombstones
    <2> QED
        BY <2>2, <2>3, <2>4 DEF PathInv, Bare, Hidden, Found, Current
<1> QED
    BY <1>1, <1>4, <1>5, <1>6, <1>7, <1>8, <1>9 DEF Inv

LEMMA HideInv ==
    ASSUME Inv, NEW p \in Paths, Hide(p)
    PROVE  Inv'
<1>1. /\ At("hide", p) /\ UNCHANGED <<disk, docs, binding, held, body, torn>>
      /\ Tombstones(p, {})
      /\ run' = [run EXCEPT !.work["hide"] = @ \ {p}, !.work["unbind"] = {p}]
    BY DEF Hide, local, prints
<1>2. run.on /\ p \in run.work["hide"] /\ run.work["unbind"] = {}
    BY <1>1, AtOn, FirstStages
<1>3. Types /\ RunTypes /\ WorkOrder
    BY DEF Inv
<1>4. /\ RunTypes' /\ run'.on = run.on /\ run'.done = run.done /\ run'.found = run.found /\ run'.text = run.text
      /\ \A t \in ToSet(Stages) : run'.work[t] = IF t = "hide" THEN run.work["hide"] \ {p}
                                                 ELSE IF t = "unbind" THEN {p} ELSE run.work[t]
    <2> DEFINE w == [[run.work EXCEPT !["hide"] = @ \ {p}] EXCEPT !["unbind"] = {p}]
    <2>1. run' = [on |-> run.on, done |-> run.done, found |-> run.found, text |-> run.text, work |-> w]
        BY <1>1, <1>3 DEF RunTypes
    <2>2. \A t \in ToSet(Stages) : w[t] = IF t = "hide" THEN run.work["hide"] \ {p}
                                          ELSE IF t = "unbind" THEN {p} ELSE run.work[t]
        BY <1>3, StageSet DEF RunTypes
    <2>3. w \in [ToSet(Stages) -> SUBSET Paths]
        BY <1>3, StageSet DEF RunTypes
    <2> QED
        BY <2>1, <2>2, <2>3, <1>2, <1>3 DEF RunTypes
<1>11. /\ rows' = rows
       /\ bound' = [bound EXCEPT ![p] = None] \/ bound' = bound
       /\ missed' \in {missed, missed \ {p}, missed \cup {p}}
    BY <1>1 DEF Tombstones, store
<1>5. Types'
    BY <1>1, <1>3, <1>11 DEF Types
<1>6. WorkOrder'
    BY <1>3, <1>4, StageSet DEF WorkOrder, Ingest
<1>7. ASSUME NEW q \in Paths PROVE Saved(q)' /\ HoldersHeld(q)'
    <2>1. UNCHANGED <<held, rows>>
        BY <1>1, <1>11
    <2>2. run'.work["embed"] = run.work["embed"] /\ run'.work["save"] = run.work["save"]
        BY <1>4, StageSet
    <2> QED
        BY <2>1, <2>2, <1>4 DEF Inv, Saved, HoldersHeld
<1>8. ASSUME NEW q \in Paths \ torn', q # p PROVE PathInv(q)'
    <2>1. RunKept(q)
        BY <1>2, <1>4, <1>8, StageSet DEF RunKept
    <2>2. Kept(q)
        BY <2>1, <1>1, <1>3, <1>8, <1>11, SameRows DEF Kept, NoteKept, Types
    <2> QED
        BY <2>2, <1>1, KeptInv DEF Inv
<1>9. ASSUME p \notin torn PROVE PathInv(p)'
    <2>1. PathInv(p)
        BY <1>9 DEF Inv
    <2>2. ASSUME p \notin missed' PROVE bound'[p] = None
        <3>1. CASE ~Known(p) /\ UNCHANGED store
            BY <2>1, <2>2, <3>1, <1>3 DEF PathInv, Found, Complete, Known, Types, store
        <3>2. CASE bound' = [bound EXCEPT ![p] = None]
            BY <3>2, <1>3 DEF Types
        <3>3. CASE /\ UNCHANGED <<bound, rows>>
                   /\ missed' = IF bound[p] = None THEN missed ELSE missed \cup {p}
            BY <2>2, <3>3
        <3> QED
            BY <3>1, <3>2, <3>3, <1>1 DEF Tombstones
    <2>3. Same(p)'
        BY <2>1, <1>1, <1>2, <1>4, StageSet DEF PathInv, Same
    <2>4. Texts(p)' /\ Docs(p)'
        BY <2>1, <1>1, <1>4, StageSet DEF PathInv, Texts, Docs
    <2>5. ~Expected(p)' /\ ~Written(p, "printBody") /\ ~Written(p, "printBody")'
        BY <1>2, <1>3, <1>4, StageSet DEF Expected, Written, WorkOrder, Ingest
    <2>6. Printed(p)'
        <3>1. ASSUME p \notin missed, p \in missed' PROVE body[p] # None
            <4>1. bound[p] # None
                BY <3>1, <1>1 DEF Tombstones, store
            <4>2. bound[p] \in Versions
                BY <4>1, <1>3 DEF Types
            <4> QED
                BY <2>1, <2>5, <3>1, <4>1, <4>2, BulkIndexAssumption DEF PathInv, Found, Complete
        <3> QED
            BY <2>1, <2>5, <3>1, <1>1, <1>4, StageSet DEF PathInv, Printed
    <2>7. Bare(p)'
        BY <2>1, <2>5, <1>1, <1>11 DEF PathInv, Bare, Printed
    <2> QED
        BY <2>2, <2>3, <2>4, <2>6, <2>7 DEF PathInv, Hidden, Found, Current
<1> QED
    BY <1>1, <1>4, <1>5, <1>6, <1>7, <1>8, <1>9 DEF Inv

\* From here on the note can be read.
LEMMA BindInv ==
    ASSUME Inv, NEW p \in Paths, Bind(p)
    PROVE  Inv'
<1>1. /\ At("bind", p) /\ Done("bind", p) /\ UNCHANGED <<disk, docs, held, body, bound, rows, missed, torn>>
      /\ binding' = Upserted(p, docs[p], TRUE)
    BY DEF Bind, prints, store
<1>2. run.on /\ "bind" \in ToSet(Stages) /\ p \in run.work["bind"]
    BY <1>1, AtOn, StageSet
<1>3. Types /\ RunTypes /\ WorkOrder
    BY DEF Inv
<1>4. /\ RunTypes' /\ run'.on = run.on /\ run'.done = run.done /\ run'.found = run.found /\ run'.text = run.text
      /\ \A t \in ToSet(Stages) : run'.work[t] = IF t = "bind" THEN run.work["bind"] \ {p} ELSE run.work[t]
    BY <1>1, <1>2, <1>3, DoneRun
<1>5. /\ binding' = [q \in Paths |-> binding'[q]]
      /\ \A q \in Paths : binding'[q] # None => binding'[q] \in [v : Versions \cup {None}, active : BOOLEAN]
      /\ binding'[p] # None /\ binding'[p].active
      /\ \A q \in Paths : q # p => binding'[q] = binding[q]
    BY <1>1, <1>3, BindingUpserted DEF Types
<1>6. Types'
    BY <1>1, <1>3, <1>5 DEF Types
<1>7. WorkOrder'
    BY <1>1, <1>3, <1>4, LastStages, StageSet DEF WorkOrder, Ingest
<1>8. \A q \in Paths : Saved(q)' /\ HoldersHeld(q)'
    BY <1>1, <1>4, StageSet DEF Inv, Saved, HoldersHeld
<1>9. ASSUME NEW q \in Paths \ torn', q # p PROVE PathInv(q)'
    <2>1. RunKept(q)
        BY <1>1, <1>2, <1>3, <1>9, DoneKeepsOthers
    <2>2. Kept(q)
        BY <2>1, <1>1, <1>5, <1>9, SameRows DEF Kept, NoteKept
    <2> QED
        BY <2>2, <1>1, KeptInv DEF Inv
<1>10. ASSUME p \notin torn PROVE PathInv(p)'
    <2>1. PathInv(p)
        BY <1>10 DEF Inv
    <2>2. Same(p)' /\ Texts(p)' /\ Docs(p)' /\ Printed(p)' /\ Bare(p)' /\ Hidden(p)' /\ Current(p)'
        BY <2>1, <1>1, <1>4, StageSet DEF PathInv, Same, Texts, Docs, Printed, Bare, Hidden, Current, Expected, Written
    <2>3. Found(p)'
        BY <2>1, <1>1, <1>4, <1>5, StageSet DEF PathInv, Found, Stored, Complete, Active, Written
    <2> QED
        BY <2>2, <2>3 DEF PathInv
<1> QED
    BY <1>1, <1>4, <1>6, <1>7, <1>8, <1>9, <1>10 DEF Inv

\* The manifest brings exactly the chunks of the text, as no holder was left.
LEMMA EmbedInv ==
    ASSUME Inv, NEW p \in Paths, Embed(p)
    PROVE  Inv'
<1>1. At("embed", p) /\ Done("embed", p) /\ UNCHANGED <<disk, docs, binding, held, body, torn>>
    BY DEF Embed, local, prints
<1>2. /\ run.on /\ "embed" \in ToSet(Stages) /\ p \in run.work["embed"]
      /\ \A s \in {"unbind", "purge", "rebindBody", "rebind", "read", "save", "document"} : run.work[s] = {}
    BY <1>1, AtOn, StageSet, LastStages
<1>3. Types /\ RunTypes /\ WorkOrder
    BY DEF Inv
<1>4. /\ RunTypes' /\ run'.on = run.on /\ run'.done = run.done /\ run'.found = run.found /\ run'.text = run.text
      /\ \A t \in ToSet(Stages) : run'.work[t] = IF t = "embed" THEN run.work["embed"] \ {p} ELSE run.work[t]
    BY <1>1, <1>2, <1>3, DoneRun
<1>5. WorkOrder'
    BY <1>2, <1>3, <1>4, StageSet DEF WorkOrder, Ingest
<1>6. \A q \in Paths : Saved(q)'
    BY <1>1, <1>4, StageSet DEF Inv, Saved
<1>7. p \in run'.work["bind"] /\ p \in run'.work["graph"] /\ p \in run'.work["printBody"] /\ p \notin run'.work["embed"]
    BY <1>2, <1>3, <1>4, StageSet DEF WorkOrder
<1>8. Holding(run.text[p]) \subseteq held[p]
    BY <1>2 DEF Inv, Saved
<1>9. ASSUME p \notin torn
      PROVE  /\ PathInv(p) /\ run.text[p] = run.found[p].body /\ docs[p] = run.found[p] /\ docs[p] # None
             /\ p \notin missed => bound[p] = None /\ \A r \in rows : ~HolderOf(p, r)
    <2>1. PathInv(p)
        BY <1>9 DEF Inv
    <2>2. p \in run.work["graph"]
        BY <1>2, <1>3 DEF WorkOrder
    <2>3. run.found[p] # None
        BY <1>2, <1>3 DEF WorkOrder, Ingest
    <2> QED
        BY <2>1, <2>2, <2>3, <1>2 DEF PathInv, Texts, Docs, Hidden, Bare, Expected
<1>10. ASSUME p \notin torn
       PROVE  Same(p)' /\ Texts(p)' /\ Docs(p)' /\ Printed(p)'
    <2>1. Same(p)' /\ Texts(p)' /\ Docs(p)'
        BY <1>9, <1>10, <1>1, <1>2, <1>4, <1>7, StageSet DEF PathInv, Same, Texts, Docs
    <2>2. Printed(p)'
        BY <1>2, <1>4, <1>7 DEF Printed, Written
    <2> QED
        BY <2>1, <2>2
<1>11. CASE UNCHANGED <<bound, rows>> /\ missed' \in {missed, missed \cup {p}}
    <2>1. Types' /\ \A q \in Paths : HoldersHeld(q)'
        BY <1>1, <1>3, <1>11 DEF Inv, Types, HoldersHeld
    <2>2. ASSUME NEW q \in Paths \ torn', q # p PROVE PathInv(q)'
        <3>1. RunKept(q)
            BY <1>1, <1>2, <1>3, <2>2, DoneKeepsOthers
        <3>2. Kept(q)
            BY <3>1, <2>2, <1>1, <1>11, SameRows DEF Kept, NoteKept
        <3> QED
            BY <3>2, <1>1, KeptInv DEF Inv
    <2>3. ASSUME p \notin torn PROVE PathInv(p)'
        BY <1>9, <1>10, <1>11, <2>3 DEF PathInv, Bare, Hidden, Found, Current
    <2> QED
        BY <2>1, <2>2, <2>3, <1>1, <1>4, <1>5, <1>6 DEF Inv
<1>12. CASE ChunksOf[run.text[p]] # <<>> /\ "rows" \notin applied
    <2>1. /\ rows' = rows \cup DirectRows(p, run.text[p]) /\ bound' = [bound EXCEPT ![p] = docs[p]]
          /\ missed' = missed
        BY <1>12 DEF Embed, EmbedFile
    <2>2. Types'
        BY <1>1, <1>3, <2>1 DEF Types
    <2>3. ASSUME NEW q \in Paths, NEW r, HolderOf(q, r), r \in rows', r \notin rows
          PROVE  q = p /\ \E h \in held[p] : r = HolderRow(p, h)
        BY <2>1, <2>3, <1>8, DirectHolders
    <2>4. \A q \in Paths : HoldersHeld(q)'
        BY <2>3, <1>1 DEF Inv, HoldersHeld
    <2>5. ASSUME NEW q \in Paths \ torn', q # p PROVE PathInv(q)'
        <3>1. RunKept(q)
            BY <1>1, <1>2, <1>3, <2>5, DoneKeepsOthers
        <3>2. RowsKept(q)
            BY <2>1, <2>3, <2>5 DEF RowsKept
        <3>3. Kept(q)
            BY <3>1, <3>2, <1>1, <1>3, <2>1, <2>5 DEF Kept, NoteKept, Types
        <3> QED
            BY <3>3, <1>1, KeptInv DEF Inv
    <2>6. ASSUME p \notin torn PROVE PathInv(p)'
        <3>1. bound'[p] = run.found[p] /\ bound'[p].body = run.text[p]
            BY <1>9, <2>6, <2>1, <1>3 DEF Types
        <3>2. p \notin missed => Stored(p, run.text[p])'
            <4>1. DirectRows(p, run.text[p]) \subseteq rows'
                BY <2>1
            <4>2. p \notin missed => \A r \in rows' : HolderOf(p, r) => r \in DirectRows(p, run.text[p])
                BY <2>1, <1>9, <2>6
            <4> QED
                BY <4>1, <4>2, <1>1, <1>4, <1>8, <1>12 DEF Stored
        <3>3. Complete(p, run.text[p])'
            BY <1>1, <1>2, <1>4, <1>7, <1>9, <2>6 DEF Complete, Written
        <3>4. Found(p)'
            BY <3>1, <3>2, <3>3, <2>1, <1>4 DEF Found
        <3>5. Bare(p)' /\ Hidden(p)' /\ Current(p)'
            <4>1. ~Expected(p)' /\ Written(p, "printBody")'
                BY <1>2, <1>4, <1>7 DEF Expected, Written
            <4>2. run'.work["unbind"] = {}
                BY <1>2, <1>4, StageSet
            <4> QED
                BY <4>1, <4>2, <3>1, <1>4 DEF Bare, Hidden, Current
        <3> QED
            BY <3>4, <3>5, <1>10, <2>6 DEF PathInv
    <2> QED
        BY <2>2, <2>4, <2>5, <2>6, <1>1, <1>4, <1>5, <1>6 DEF Inv
<1> QED
    BY <1>11, <1>12 DEF Embed, EmbedFile, store

\* Other tags: the local rows are renewed, the text is the same.
LEMMA ExistingInv ==
    ASSUME Inv, NEW p \in Paths, Existing(p)
    PROVE  Inv'
<1>1. /\ At("existing", p) /\ UNCHANGED <<disk, held, body, bound, missed, torn>>
      /\ rows' = rows \/ rows' = rows \cup {<<"file", p>>}
    BY DEF Existing, Renew, local, prints, store
<1>10. \A q, r : HolderOf(q, r) => (r \in rows' <=> r \in rows)
    BY <1>1 DEF HolderOf
<1>11. \A q : RowsKept(q)
    BY <1>1, <1>10 DEF RowsKept
<1>2. run.on /\ "existing" \in ToSet(Stages) /\ p \in run.work["existing"]
    BY <1>1, AtOn, StageSet
<1>3. Types /\ RunTypes /\ WorkOrder
    BY DEF Inv
<1>4. /\ RunTypes' /\ run'.on = run.on /\ run'.done = run.done /\ run'.found = run.found /\ run'.text = run.text
      /\ \A t \in ToSet(Stages) : t \notin {"existing", "existingPrint"} => run'.work[t] = run.work[t]
      /\ run'.work["existing"] \subseteq run.work["existing"]
      /\ run'.work["existingPrint"] \subseteq run.work["existingPrint"] \cup {p}
    <2>1. CASE Done("existing", p)
        BY <2>1, <1>2, <1>3, DoneRun, StageSet
    <2>2. CASE run' = [run EXCEPT !.work["existing"] = @ \ {p}, !.work["existingPrint"] = {p}]
        <3> DEFINE w == [[run.work EXCEPT !["existing"] = @ \ {p}] EXCEPT !["existingPrint"] = {p}]
        <3>1. run' = [on |-> run.on, done |-> run.done, found |-> run.found, text |-> run.text, work |-> w]
            BY <2>2, <1>3 DEF RunTypes
        <3>2. \A t \in ToSet(Stages) : w[t] = IF t = "existing" THEN run.work["existing"] \ {p}
                                              ELSE IF t = "existingPrint" THEN {p} ELSE run.work[t]
            BY <1>3, StageSet DEF RunTypes
        <3>3. w \in [ToSet(Stages) -> SUBSET Paths]
            BY <1>3, StageSet DEF RunTypes
        <3> QED
            BY <3>1, <3>2, <3>3, <1>2, <1>3, StageSet DEF RunTypes
    <2> QED
        BY <2>1, <2>2 DEF Existing
<1>5. WorkOrder'
    BY <1>3, <1>4, StageSet DEF WorkOrder, Ingest
<1>6. \A q \in Paths : Saved(q)' /\ HoldersHeld(q)'
    BY <1>1, <1>4, <1>10, StageSet DEF Inv, Saved, HoldersHeld
<1>7. \A q \in Paths : RunKept(q)
    BY <1>2, <1>4, StageSet DEF RunKept
<1>8. CASE UNCHANGED <<docs, binding>>
    <2>1. Types'
        BY <1>1, <1>3, <1>8 DEF Types
    <2>2. ASSUME NEW q \in Paths \ torn' PROVE PathInv(q)'
        BY <1>1, <1>7, <1>8, <1>11, KeptInv DEF Inv, Kept, NoteKept
    <2> QED
        BY <2>1, <2>2, <1>4, <1>5, <1>6 DEF Inv
<1>9. CASE disk[p] # None /\ docs' = [docs EXCEPT ![p] = disk[p]] /\ binding' = Upserted(p, disk[p], TRUE)
    <2>1. /\ binding' = [q \in Paths |-> binding'[q]]
          /\ \A q \in Paths : binding'[q] # None => binding'[q] \in [v : Versions \cup {None}, active : BOOLEAN]
          /\ binding'[p] # None /\ binding'[p].active
          /\ \A q \in Paths : q # p => binding'[q] = binding[q]
        BY <1>3, <1>9, BindingUpserted DEF Types
    <2>2. Types'
        BY <1>1, <1>3, <1>9, <2>1 DEF Types
    <2>3. ASSUME NEW q \in Paths \ torn', q # p PROVE PathInv(q)'
        <3>1. Kept(q)
            BY <1>1, <1>3, <1>7, <1>9, <1>11, <2>1, <2>3 DEF Kept, NoteKept, Types
        <3> QED
            BY <3>1, <1>1, KeptInv DEF Inv
    <2>4. ASSUME p \notin torn PROVE PathInv(p)'
        <3>1. PathInv(p)
            BY <2>4 DEF Inv
        <3>2. disk[p] = run.found[p] /\ docs'[p] = disk[p]
            BY <3>1, <1>2, <1>3, <1>9 DEF PathInv, Same, Types
        <3>3. Same(p)'
            BY <3>2, <1>1, <1>4 DEF Same
        <3>4. Docs(p)'
            BY <3>2, <1>4 DEF Docs
        <3>5. Texts(p)' /\ Printed(p)' /\ Bare(p)' /\ Hidden(p)' /\ Current(p)'
            BY <3>1, <1>1, <1>4, <1>10, StageSet DEF PathInv, Texts, Printed, Bare, Hidden, Current, Expected, Written
        <3>6. Found(p)'
            BY <3>1, <3>2, <1>1, <1>4, <1>9, <1>10, <2>1, StageSet DEF PathInv, Found, Stored, Complete, Active, Written
        <3> QED
            BY <3>3, <3>4, <3>5, <3>6 DEF PathInv
    <2> QED
        BY <2>2, <2>3, <2>4, <1>1, <1>4, <1>5, <1>6 DEF Inv
<1> QED
    BY <1>8, <1>9 DEF Existing, Renew, local

\* The stages that take all notes at once.
LEMMA ClearRun ==
    ASSUME RunTypes, run.on, NEW s \in ToSet(Stages), run' = [run EXCEPT !.work[s] = {}]
    PROVE  /\ RunTypes'
           /\ run'.on = run.on /\ run'.done = run.done /\ run'.found = run.found /\ run'.text = run.text
           /\ \A t \in ToSet(Stages) : run'.work[t] = IF t = s THEN {} ELSE run.work[t]
<1> DEFINE w == [run.work EXCEPT ![s] = {}]
<1>1. run' = [on |-> run.on, done |-> run.done, found |-> run.found, text |-> run.text, work |-> w]
    BY DEF RunTypes
<1>2. w \in [ToSet(Stages) -> SUBSET Paths] /\ \A t \in ToSet(Stages) : w[t] = IF t = s THEN {} ELSE run.work[t]
    BY DEF RunTypes
<1> QED
    BY <1>1, <1>2 DEF RunTypes

LEMMA DocumentInv ==
    ASSUME Inv, Document
    PROVE  Inv'
<1> DEFINE ps == run.work["document"]
<1>1. PICK p \in ps : At("document", p)
    BY DEF Document
<1>2. /\ run.on /\ "document" \in ToSet(Stages)
      /\ \A s \in {"unbind", "purge", "rebindBody", "rebind", "read", "save"} : run.work[s] = {}
    BY <1>1, AtOn, StageSet, LastStages
<1>3. Types /\ RunTypes /\ WorkOrder
    BY DEF Inv
<1>4. /\ UNCHANGED <<disk, binding, held, body, bound, rows, missed, torn>>
      /\ \A q \in ps : disk[q] # None
      /\ docs' = [q \in Paths |-> IF q \in ps THEN disk[q] ELSE docs[q]]
    BY DEF Document, prints, store
<1>5. /\ RunTypes' /\ run'.on = run.on /\ run'.done = run.done /\ run'.found = run.found /\ run'.text = run.text
      /\ \A t \in ToSet(Stages) : run'.work[t] = IF t = "document" THEN {} ELSE run.work[t]
    BY <1>2, <1>3, ClearRun DEF Document
<1>6. Types'
    BY <1>3, <1>4 DEF Types
<1>7. WorkOrder'
    BY <1>3, <1>5, StageSet DEF WorkOrder, Ingest
<1>8. \A q \in Paths : Saved(q)' /\ HoldersHeld(q)'
    BY <1>4, <1>5, StageSet DEF Inv, Saved, HoldersHeld
<1>9. ASSUME NEW q \in Paths \ torn', q \notin ps PROVE PathInv(q)'
    <2>1. RunKept(q)
        BY <1>2, <1>5, <1>9, StageSet DEF RunKept
    <2>2. Kept(q)
        BY <2>1, <1>4, <1>9, SameRows DEF Kept, NoteKept
    <2> QED
        BY <2>2, <1>4, KeptInv DEF Inv
<1>10. ASSUME NEW q \in Paths \ torn', q \in ps PROVE PathInv(q)'
    <2>1. PathInv(q)
        BY <1>4 DEF Inv
    <2>2. disk[q] = run.found[q] /\ docs'[q] = disk[q] /\ disk[q] # None
        BY <2>1, <1>2, <1>4, <1>10 DEF PathInv, Same
    <2>3. Same(q)'
        BY <2>2, <1>4, <1>5 DEF Same
    <2>4. Docs(q)'
        BY <2>2, <1>5 DEF Docs
    <2>5. Texts(q)' /\ Printed(q)' /\ Bare(q)' /\ Hidden(q)' /\ Current(q)'
        BY <2>1, <1>4, <1>5, StageSet DEF PathInv, Texts, Printed, Bare, Hidden, Current, Expected, Written
    <2>6. Found(q)'
        BY <2>1, <2>2, <1>4, <1>5, StageSet DEF PathInv, Found, Stored, Complete, Active, Written
    <2> QED
        BY <2>3, <2>4, <2>5, <2>6 DEF PathInv
<1> QED
    BY <1>5, <1>6, <1>7, <1>8, <1>9, <1>10 DEF Inv

LEMMA GraphInv ==
    ASSUME Inv, Graph
    PROVE  Inv'
<1> DEFINE ps == run.work["graph"]
<1>1. PICK o \in ps : At("graph", o)
    BY DEF Graph
<1>2. /\ run.on /\ "graph" \in ToSet(Stages)
      /\ \A s \in {"unbind", "purge", "rebind", "read", "embed", "bind"} : run.work[s] = {}
    BY <1>1, AtOn, StageSet, LastStages
<1>3. Types /\ RunTypes /\ WorkOrder
    BY DEF Inv
<1>4. /\ UNCHANGED <<disk, docs, binding, held, body, bound, torn>>
      /\ \/ rows' = rows /\ missed' = missed \cup ps
         \/ rows' = rows \cup UNION {GraphRows(p, run.text[p]) : p \in ps} /\ missed' = missed
    BY DEF Graph, local, prints
<1>5. /\ RunTypes' /\ run'.on = run.on /\ run'.done = run.done /\ run'.found = run.found /\ run'.text = run.text
      /\ \A t \in ToSet(Stages) : run'.work[t] = IF t = "graph" THEN {} ELSE run.work[t]
    BY <1>2, <1>3, ClearRun DEF Graph
<1>6. Types'
    <2>1. ps \subseteq Paths
        BY <1>2, <1>3 DEF RunTypes
    <2> QED
        BY <2>1, <1>3, <1>4 DEF Types
<1>7. WorkOrder'
    BY <1>2, <1>3, <1>5, StageSet DEF WorkOrder, Ingest
<1>8. \A q, r : HolderOf(q, r) => (r \in rows' <=> r \in rows)
    BY <1>4, GraphHasNoHolder DEF HolderOf
<1>9. \A q \in Paths : Saved(q)' /\ HoldersHeld(q)'
    BY <1>4, <1>5, <1>8, StageSet DEF Inv, Saved, HoldersHeld
<1>10. \A q : RowsKept(q)
    BY <1>4, <1>8 DEF RowsKept
<1>11. ASSUME NEW q \in Paths \ torn', q \notin ps PROVE PathInv(q)'
    <2>1. RunKept(q)
        BY <1>2, <1>5, <1>11, StageSet DEF RunKept
    <2>2. Kept(q)
        BY <2>1, <1>4, <1>10, <1>11 DEF Kept, NoteKept
    <2> QED
        BY <2>2, <1>4, KeptInv DEF Inv
<1>12. ASSUME NEW q \in Paths \ torn', q \in ps PROVE PathInv(q)'
    <2>1. PathInv(q)
        BY <1>4 DEF Inv
    <2>2. run.found[q] # None
        BY <1>2, <1>3, <1>12 DEF WorkOrder, Ingest
    <2>3. run.text[q] = run.found[q].body
        BY <2>1, <1>2, <1>12 DEF PathInv, Texts
    <2>4. q \notin missed' => GraphRows(q, run.text[q]) \subseteq rows'
        BY <1>4, <1>12
    <2>8. Printed(q)'
        BY <1>2, <1>3, <1>5, <1>12, StageSet DEF Printed, Written, WorkOrder
    <2>9. q \notin missed' => q \notin missed
        BY <1>4
    <2>5. Same(q)' /\ Docs(q)' /\ Hidden(q)' /\ Current(q)' /\ Texts(q)'
        BY <2>1, <2>9, <1>4, <1>5, StageSet DEF PathInv, Same, Texts, Docs, Hidden, Current, Expected
    <2>6. Bare(q)'
        BY <2>1, <2>9, <1>4, <1>5, <1>8, StageSet DEF PathInv, Bare, Expected, Written
    <2>7. ASSUME q \notin missed', bound'[q] # None
          PROVE  Stored(q, bound[q].body)' /\ Complete(q, bound[q].body)'
        <3>1. Stored(q, bound[q].body) /\ Complete(q, bound[q].body)
            BY <2>1, <2>7, <2>9, <1>4 DEF PathInv, Found
        <3>2. bound[q].body = run.text[q]
            BY <2>1, <2>2, <2>3, <2>7, <2>9, <1>2, <1>4 DEF PathInv, Current
        <3>3. Stored(q, bound[q].body)'
            BY <3>1, <1>4, <1>10 DEF Stored, RowsKept
        <3>4. Complete(q, bound[q].body)'
            BY <3>1, <3>2, <2>4, <2>7, <1>4, <1>5, StageSet DEF Complete, Active, Written
        <3> QED
            BY <3>3, <3>4
    <2> QED
        BY <2>5, <2>6, <2>7, <2>8 DEF PathInv, Found
<1> QED
    BY <1>5, <1>6, <1>7, <1>9, <1>11, <1>12 DEF Inv

\* The fingerprint of the file as it is now is that of the text in the store,
\* or the note was torn.
LEMMA PrintBodyInv ==
    ASSUME Inv, NEW p \in Paths, PrintBody(p)
    PROVE  Inv'
<1>1. PICK s \in {"rebindBody", "printBody"} :
        /\ At(s, p) /\ Done(s, p) /\ (s = "rebindBody" => disk[p] # None)
        /\ body' = [body EXCEPT ![p] = PrintOf(p, "body", @)]
        /\ UNCHANGED <<disk, docs, binding, held, bound, rows, missed, torn>>
    BY DEF PrintBody, local, store
<1>2. run.on /\ s \in ToSet(Stages) /\ p \in run.work[s] /\ run.work["purge"] = {}
    BY <1>1, AtOn, StageSet, FirstStages, LastStages
<1>3. s = "printBody" => \A t \in {"rebind", "read", "embed", "bind", "graph"} : run.work[t] = {}
    BY <1>1, LastStages
<1>4. Types /\ RunTypes /\ WorkOrder
    BY DEF Inv
<1>5. /\ RunTypes' /\ run'.on = run.on /\ run'.done = run.done /\ run'.found = run.found /\ run'.text = run.text
      /\ \A t \in ToSet(Stages) : run'.work[t] = IF t = s THEN run.work[s] \ {p} ELSE run.work[t]
    BY <1>1, <1>2, <1>4, DoneRun
<1>6. Types'
    BY <1>1, <1>4 DEF Types
<1>7. WorkOrder'
    BY <1>3, <1>4, <1>5, StageSet DEF WorkOrder, Ingest
<1>8. \A q \in Paths : Saved(q)' /\ HoldersHeld(q)'
    BY <1>1, <1>5, StageSet DEF Inv, Saved, HoldersHeld
<1>9. ASSUME NEW q \in Paths \ torn', q # p PROVE PathInv(q)'
    <2>1. RunKept(q)
        BY <1>1, <1>2, <1>4, <1>9, DoneKeepsOthers
    <2>2. Kept(q)
        BY <2>1, <1>1, <1>4, <1>9, SameRows DEF Kept, NoteKept, Types
    <2> QED
        BY <2>2, <1>1, KeptInv DEF Inv
<1>10. ASSUME p \notin torn PROVE PathInv(p)'
    <2>1. PathInv(p)
        BY <1>10 DEF Inv
    <2>2. disk[p] = run.found[p] /\ run.found[p] # None
        BY <2>1, <1>2, <1>4 DEF PathInv, Same, WorkOrder, Ingest
    <2>3. body'[p] = run.found[p].body
        <3>1. body'[p] = PrintOf(p, "body", body[p])
            BY <1>1, <1>4 DEF Types
        <3> QED
            BY <3>1, <2>2 DEF PrintOf
    <2>4. body'[p] # None
        BY <2>2, <2>3, <1>4, BulkIndexAssumption DEF RunTypes
    <2>5. Same(p)' /\ Texts(p)' /\ Docs(p)' /\ Hidden(p)' /\ Current(p)'
        BY <2>1, <1>1, <1>5, StageSet DEF PathInv, Same, Texts, Docs, Hidden, Current, Expected
    <2>6. Printed(p)' /\ Bare(p)'
        BY <2>1, <2>4, <1>1, <1>5, StageSet DEF PathInv, Printed, Bare, Expected
    <2>7. ASSUME p \notin missed', bound'[p] # None
          PROVE  Stored(p, bound[p].body)' /\ Complete(p, bound[p].body)'
        <3>1. Stored(p, bound[p].body) /\ Complete(p, bound[p].body)
            BY <2>1, <2>7, <1>1 DEF PathInv, Found
        <3>2. bound[p].body = run.found[p].body
            BY <2>1, <2>2, <2>7, <1>1, <1>2 DEF PathInv, Current
        <3>3. Stored(p, bound[p].body)'
            BY <3>1, <1>1 DEF Stored
        <3>4. Complete(p, bound[p].body)'
            BY <3>1, <3>2, <2>3, <1>1, <1>5, StageSet DEF Complete, Active, Written
        <3> QED
            BY <3>3, <3>4
    <2> QED
        BY <2>5, <2>6, <2>7 DEF PathInv, Found
<1> QED
    BY <1>1, <1>5, <1>6, <1>7, <1>8, <1>9, <1>10 DEF Inv

\* The run is over: a note that was halfway counts as torn, for others nothing
\* was promised to a later stage.
LEMMA OffRun ==
    ASSUME RunTypes, run.on, run' = [run EXCEPT !.on = FALSE]
    PROVE  RunTypes' /\ ~run'.on /\ run'.done = run.done /\ run'.found = run.found /\ run'.text = run.text
<1>1. run' = [on |-> FALSE, done |-> run.done, found |-> run.found, text |-> run.text, work |-> run.work]
    BY DEF RunTypes
<1> QED
    BY <1>1 DEF RunTypes

LEMMA EndedInv ==
    ASSUME Inv, run.on, Ended, UNCHANGED <<disk, local, prints, store>>
    PROVE  Inv'
<1>1. Types /\ RunTypes /\ WorkOrder
    BY DEF Inv
<1>2. /\ RunTypes' /\ ~run'.on /\ run'.done = run.done /\ run'.found = run.found /\ run'.text = run.text
      /\ ~run.done
    BY <1>1, OffRun DEF Ended, RunTypes
<1>3. /\ torn' = torn \cup (run.work["printBody"] \ run.work["embed"])
      /\ UNCHANGED <<disk, docs, binding, held, body, bound, rows, missed>>
    BY DEF Ended, Halfway, local, prints, store
<1>4. Types'
    BY <1>1, <1>3, StageSet DEF Types, RunTypes
<1>5. WorkOrder' /\ \A q \in Paths : Saved(q)' /\ HoldersHeld(q)'
    BY <1>2, <1>3 DEF Inv, WorkOrder, Saved, HoldersHeld
<1>6. ASSUME NEW q \in Paths \ torn' PROVE PathInv(q)'
    <2>1. PathInv(q)
        BY <1>3 DEF Inv
    <2>2. ~Written(q, "printBody") /\ ~Written(q, "bind") /\ ~Written(q, "graph")
        BY <1>1, <1>3 DEF Written, WorkOrder
    <2>3. Printed(q)' /\ Bare(q)'
        BY <2>1, <2>2, <1>2, <1>3 DEF PathInv, Printed, Bare, Expected
    <2>4. Found(q)'
        BY <2>1, <2>2, <1>3 DEF PathInv, Found, Stored, Complete, Active
    <2> QED
        BY <2>3, <2>4, <1>2 DEF PathInv, Same, Texts, Docs, Hidden, Current, Expected
<1> QED
    BY <1>2, <1>4, <1>5, <1>6 DEF Inv

LEMMA EndInv ==
    ASSUME Inv, End
    PROVE  Inv'
<1>1. /\ run.on /\ run.work = Nothing /\ run' = [run EXCEPT !.on = FALSE, !.done = TRUE]
      /\ UNCHANGED <<disk, docs, binding, held, body, bound, rows, missed, torn>>
    BY DEF End, local, prints, store
<1>2. Types /\ RunTypes /\ WorkOrder
    BY DEF Inv
<1>3. RunTypes' /\ ~run'.on /\ run'.done /\ run'.found = run.found /\ run'.text = run.text
    <2>1. run' = [on |-> FALSE, done |-> TRUE, found |-> run.found, text |-> run.text, work |-> run.work]
        BY <1>1, <1>2 DEF RunTypes
    <2>2. /\ run'.on = FALSE /\ run'.done = TRUE /\ run'.found = run.found /\ run'.text = run.text
          /\ run'.work = run.work
        BY <2>1
    <2> QED
        BY <2>1, <2>2, <1>1, <1>2, NothingIs DEF RunTypes
<1>4. Types'
    BY <1>1, <1>2 DEF Types
<1>5. WorkOrder' /\ \A q \in Paths : Saved(q)' /\ HoldersHeld(q)'
    BY <1>1, <1>3 DEF Inv, WorkOrder, Saved, HoldersHeld
<1>6. ASSUME NEW q \in Paths \ torn' PROVE PathInv(q)'
    <2>1. PathInv(q)
        BY <1>1 DEF Inv
    <2>2. \A s \in ToSet(Stages) : q \notin run.work[s]
        BY <1>1, NothingIs
    <2>3. ~Written(q, "printBody") /\ ~Written(q, "bind") /\ ~Written(q, "graph") /\ q \notin run.work["purge"]
        BY <2>2, StageSet DEF Written
    <2>4. Printed(q)' /\ Bare(q)'
        BY <2>1, <2>3, <1>1, <1>3 DEF PathInv, Printed, Bare, Expected
    <2>5. Found(q)'
        BY <2>1, <2>3, <1>1 DEF PathInv, Found, Stored, Complete, Active
    <2>6. Current(q)'
        BY <2>1, <2>3, <1>1, <1>3 DEF PathInv, Current
    <2> QED
        BY <2>4, <2>5, <2>6, <1>3 DEF PathInv, Same, Texts, Docs, Hidden, Expected
<1> QED
    BY <1>3, <1>4, <1>5, <1>6 DEF Inv

\* A note changes under the run, or while there is none.
LEMMA ChangeInv ==
    ASSUME Inv, NEW p \in Paths, Change(p)
    PROVE  Inv'
<1>1. /\ \E v \in Versions \cup {None} : disk' = [disk EXCEPT ![p] = v]
      /\ torn' = IF run.on /\ p \in UNION Range(run.work) THEN torn \cup {p} ELSE torn
      /\ UNCHANGED <<docs, binding, held, body, bound, rows, missed, run>>
    BY DEF Change, local, prints, store
<1>2. Types /\ RunTypes /\ WorkOrder
    BY DEF Inv
<1>3. Types' /\ RunTypes'
    BY <1>1, <1>2 DEF Types, RunTypes
<1>4. WorkOrder' /\ \A q \in Paths : Saved(q)' /\ HoldersHeld(q)'
    BY <1>1 DEF Inv, WorkOrder, Saved, HoldersHeld
<1>5. ASSUME NEW q \in Paths \ torn' PROVE PathInv(q)'
    <2>1. PathInv(q)
        BY <1>1 DEF Inv
    <2>2. CASE q = p
        <3>1. ~(run.on /\ \E s \in ToSet(Stages) : q \in run.work[s])
            <4>1. ~(run.on /\ q \in UNION Range(run.work))
                BY <2>2, <1>1
            <4>2. DOMAIN run.work = ToSet(Stages)
                BY <1>2 DEF RunTypes
            <4> QED
                BY <4>1, <4>2 DEF Range
        <3> QED
            BY <3>1, <2>1, <1>1
            DEF PathInv, Same, Texts, Docs, Printed, Bare, Hidden, Found, Current, Stored, Complete, Active, Written, Expected
    <2>3. CASE q # p
        <3>1. disk'[q] = disk[q]
            BY <2>3, <1>1, <1>2 DEF Types
        <3> QED
            BY <3>1, <2>1, <1>1
            DEF PathInv, Same, Texts, Docs, Printed, Bare, Hidden, Found, Current, Stored, Complete, Active, Written, Expected
    <2> QED
        BY <2>2, <2>3
<1> QED
    BY <1>3, <1>4, <1>5 DEF Inv

LEMMA SweepInv ==
    ASSUME Inv, Sweep
    PROVE  Inv'
<1> DEFINE orphans == {q \in Paths : held[q] # {} /\ disk[q] = None /\ Known(q)}
<1>1. PICK p \in orphans :
        /\ ~run.on /\ bound' = [bound EXCEPT ![p] = None]
        /\ missed' = (missed \ {p}) \cup {q \in orphans \ {p} : bound[q] # None}
        /\ UNCHANGED <<disk, docs, binding, held, body, rows, run, torn>>
    BY Zenon DEF Sweep, local, prints
<1>2. Types /\ RunTypes /\ WorkOrder
    BY DEF Inv
<1>3. Types' /\ RunTypes'
    BY <1>1, <1>2 DEF Types, RunTypes
<1>4. WorkOrder' /\ \A q \in Paths : Saved(q)' /\ HoldersHeld(q)'
    BY <1>1 DEF Inv, WorkOrder, Saved, HoldersHeld
<1>5. ASSUME NEW q \in Paths \ torn' PROVE PathInv(q)'
    <2>1. PathInv(q)
        BY <1>1 DEF Inv
    <2>2. ASSUME q \notin missed' PROVE bound'[q] = None \/ (bound'[q] = bound[q] /\ q \notin missed)
        BY <2>2, <1>1, <1>2 DEF Types
    <2>3. ASSUME q \in missed', q \notin missed PROVE body[q] # None
        <3>1. bound[q] # None
            BY <2>3, <1>1
        <3>2. bound[q] \in Versions
            BY <3>1, <1>2 DEF Types
        <3> QED
            BY <2>1, <2>3, <3>1, <3>2, <1>1, BulkIndexAssumption DEF PathInv, Found, Complete, Written
    <2>4. Printed(q)'
        BY <2>1, <2>3, <1>1 DEF PathInv, Printed, Written
    <2>5. Same(q)' /\ Texts(q)' /\ Docs(q)' /\ Hidden(q)'
        BY <2>1, <1>1 DEF PathInv, Same, Texts, Docs, Hidden, Expected
    <2>6. Bare(q)'
        BY <2>1, <1>1 DEF PathInv, Printed, Bare, Written, Expected
    <2>7. Found(q)' /\ Current(q)'
        BY <2>1, <2>2, <1>1 DEF PathInv, Found, Current, Stored, Complete, Active, Written
    <2> QED
        BY <2>4, <2>5, <2>6, <2>7 DEF PathInv
<1> QED
    BY <1>3, <1>4, <1>5 DEF Inv

\* A rebound note is taken out of the ingest; it was not written in this run.
LEMMA RebindInv ==
    ASSUME Inv, NEW p \in Paths, Rebind(p)
    PROVE  Inv'
<1>1. PICK r \in Retained(p) :
        /\ At("rebind", p)
        /\ docs' = [docs EXCEPT ![p] = run.found[p]]
        /\ held' = [held EXCEPT ![p] = @ \cup held[r]]
        /\ binding' = Upserted(p, run.found[p], TRUE)
        /\ run' = [run EXCEPT !.work = [s \in DOMAIN @ |->
                    CASE s \in {"rebindBody", "rebindMeta"} -> {p}
                      [] s \in Ingest \cup {"rebind"}       -> @[s] \ {p}
                      [] OTHER                              -> @[s]]]
        /\ UNCHANGED <<disk, body, bound, rows, missed, torn>>
    BY DEF Rebind, WithHolders, prints, store
<1>2. run.on /\ p \in run.work["rebind"] /\ run.work["purge"] = {}
    BY <1>1, AtOn, FirstStages
<1>3. Types /\ RunTypes /\ WorkOrder
    BY DEF Inv
<1> DEFINE w == [s \in ToSet(Stages) |->
                    CASE s \in {"rebindBody", "rebindMeta"} -> {p}
                      [] s \in Ingest \cup {"rebind"}       -> run.work[s] \ {p}
                      [] OTHER                              -> run.work[s]]
<1>4. \A s \in ToSet(Stages) :
        /\ s \in {"rebindBody", "rebindMeta"} => w[s] = {p}
        /\ s \in Ingest \cup {"rebind"} => w[s] = run.work[s] \ {p}
        /\ s \notin Ingest \cup {"rebind", "rebindBody", "rebindMeta"} => w[s] = run.work[s]
    <2>1. {"rebindBody", "rebindMeta"} \cap (Ingest \cup {"rebind"}) = {}
        BY DEF Ingest
    <2> QED
        BY <2>1, Zenon
<1>5. /\ RunTypes' /\ run'.on = run.on /\ run'.done = run.done /\ run'.found = run.found /\ run'.text = run.text
      /\ run'.work = w
    <2>1. run'.work = w /\ run' = [run EXCEPT !.work = w]
        BY <1>1, <1>3 DEF RunTypes
    <2> HIDE DEF w
    <2>2. w \in [ToSet(Stages) -> SUBSET Paths]
        <3>1. w = [s \in ToSet(Stages) |-> w[s]]
            BY DEF w
        <3>2. \A s \in ToSet(Stages) : w[s] \subseteq Paths
            BY <1>4, <1>3 DEF RunTypes
        <3> QED
            BY <3>1, <3>2
    <2>3. run' = [on |-> run.on, done |-> run.done, found |-> run.found, text |-> run.text, work |-> w]
        BY <2>1, <1>3 DEF RunTypes
    <2> QED
        BY <2>2, <2>3, <1>2, <1>3 DEF RunTypes
<1>6. /\ \A s \in {"graph", "read", "save", "embed", "document", "printBody", "bind", "rebind"} : run'.work[s] = run.work[s] \ {p}
      /\ \A s \in {"purge", "unbind", "hide"} : run'.work[s] = run.work[s]
      /\ run'.work["rebindBody"] = {p}
      /\ \A s \in Ingest \cup {"rebind"} : run'.work[s] = run.work[s] \ {p}
    BY <1>4, <1>5, StageSet DEF Ingest
<1>7. \A s \in ToSet(Stages) : run'.work[s] \subseteq run.work[s] \cup {p}
    BY <1>4, <1>5
<1> HIDE DEF w
<1>8. run.found[p] # None /\ run.found[p] \in Versions \cup {None}
    BY <1>2, <1>3 DEF WorkOrder, RunTypes
<1>9. /\ binding' = [q \in Paths |-> binding'[q]]
      /\ \A q \in Paths : binding'[q] # None => binding'[q] \in [v : Versions \cup {None}, active : BOOLEAN]
      /\ binding'[p] # None /\ binding'[p].active
      /\ \A q \in Paths : q # p => binding'[q] = binding[q]
    BY <1>1, <1>3, <1>8, BindingUpserted
<1>10. Types'
    BY <1>1, <1>3, <1>8, <1>9 DEF Types
<1>11. \A q \in Paths : held[q] \subseteq held'[q]
    BY <1>1, <1>3 DEF Types
<1>12. WorkOrder'
    BY <1>3, <1>5, <1>6, <1>2, <1>8 DEF WorkOrder
<1>13. ASSUME NEW q \in Paths PROVE Saved(q)' /\ HoldersHeld(q)'
    <2>1. Saved(q)'
        BY <1>5, <1>6, <1>11 DEF Inv, Saved
    <2>2. HoldersHeld(q)'
        BY <1>1, <1>11 DEF Inv, HoldersHeld
    <2> QED
        BY <2>1, <2>2
<1>14. ASSUME NEW q \in Paths \ torn', q # p PROVE PathInv(q)'
    <2>1. RunKept(q)
        BY <1>5, <1>6, <1>7, <1>14 DEF RunKept
    <2>2. Kept(q)
        BY <2>1, <1>1, <1>3, <1>9, <1>11, <1>14, SameRows DEF Kept, NoteKept, Types
    <2> QED
        BY <2>2, <1>1, KeptInv DEF Inv
<1>15. ASSUME p \notin torn PROVE PathInv(p)'
    <2>1. PathInv(p)
        BY <1>15 DEF Inv
    <2>2. docs'[p] # None
        BY <1>1, <1>3, <1>8 DEF Types
    <2>3. Same(p)'
        <3>1. "rebind" \in ToSet(Stages)
            BY StageSet
        <3> QED
            BY <3>1, <2>1, <1>1, <1>2, <1>5 DEF PathInv, Same
    <2>4. Texts(p)' /\ Docs(p)'
        BY <1>6 DEF Texts, Docs
    <2>5. ~Written(p, "printBody") /\ ~Written(p, "graph")
        BY <1>2, <1>3 DEF Written, WorkOrder
    <2>6. Printed(p)' /\ Bare(p)'
        BY <2>1, <2>5, <1>1, <1>6 DEF PathInv, Printed, Bare, Expected
    <2>7. Hidden(p)'
        BY <2>1, <1>1, <1>5, <1>6 DEF PathInv, Hidden, Expected
    <2>8. Current(p)'
        BY <2>1, <1>1, <1>5, <1>6 DEF PathInv, Current
    <2>9. ASSUME p \notin missed', bound'[p] # None
          PROVE  Stored(p, bound[p].body)' /\ Complete(p, bound[p].body)'
        <3>1. Stored(p, bound[p].body) /\ Complete(p, bound[p].body)
            BY <2>1, <2>9, <1>1 DEF PathInv, Found
        <3>2. Stored(p, bound[p].body)'
            BY <3>1, <1>1, <1>11 DEF Stored
        <3>3. Complete(p, bound[p].body)'
            BY <3>1, <2>2, <2>5, <1>1, <1>9 DEF Complete, Active
        <3> QED
            BY <3>2, <3>3
    <2> QED
        BY <2>3, <2>4, <2>6, <2>7, <2>8, <2>9 DEF PathInv, Found
<1> QED
    BY <1>1, <1>5, <1>10, <1>12, <1>13, <1>14, <1>15 DEF Inv

\* The run as a record of its fields.
LEMMA RunIs ==
    ASSUME NEW f \in [Paths -> Versions \cup {None}], NEW t, NEW w \in [ToSet(Stages) -> SUBSET Paths],
           t = [p \in Paths |-> t[p]],
           run' = [on |-> TRUE, done |-> FALSE, found |-> f, text |-> t, work |-> w]
    PROVE  RunTypes' /\ run'.on /\ ~run'.done /\ run'.found = f /\ run'.text = t /\ run'.work = w
BY DEF RunTypes

\* Reading a note; the last one may show that there is nothing to save.
LEMMA ReadInv ==
    ASSUME Inv, NEW p \in Paths, Read(p)
    PROVE  Inv'
<1> DEFINE dropped == {"save", "document", "embed", "bind"}
           w == [run.work EXCEPT !["read"] = @ \ {p}]
           z == [s \in DOMAIN w |-> IF s \in dropped THEN {} ELSE w[s]]
           t == [run.text EXCEPT ![p] = disk[p].body]
<1>1. /\ At("read", p) /\ disk[p] # None
      /\ UNCHANGED <<disk, docs, binding, held, body, bound, rows, missed, torn>>
      /\ \/ run' = [run EXCEPT !.text = t, !.work = w]
         \/ run' = [run EXCEPT !.text = t, !.work = z] /\ w["read"] = {}
    BY DEF Read, local, prints, store
<1>2. /\ run.on /\ p \in run.work["read"]
      /\ \A s \in {"unbind", "purge", "rebindBody", "rebind"} : run.work[s] = {}
    BY <1>1, AtOn, LastStages
<1>3. Types /\ RunTypes /\ WorkOrder
    BY DEF Inv
<1>4. /\ \A s \in ToSet(Stages) : w[s] = IF s = "read" THEN run.work["read"] \ {p} ELSE run.work[s]
      /\ \A s \in ToSet(Stages) : z[s] = IF s \in dropped THEN {} ELSE w[s]
      /\ w \in [ToSet(Stages) -> SUBSET Paths] /\ z \in [ToSet(Stages) -> SUBSET Paths]
    BY <1>3, StageSet DEF RunTypes
<1>5. t = [q \in Paths |-> t[q]] /\ t[p] = disk[p].body /\ \A q \in Paths : q # p => t[q] = run.text[q]
    <2>1. t = [q \in Paths |-> IF q = p THEN disk[p].body ELSE run.text[q]]
        BY <1>3 DEF RunTypes
    <2> HIDE DEF t
    <2> QED
        BY <2>1
<1> HIDE DEF w, z, t
<1>6. \/ run' = [on |-> TRUE, done |-> FALSE, found |-> run.found, text |-> t, work |-> w]
      \/ run' = [on |-> TRUE, done |-> FALSE, found |-> run.found, text |-> t, work |-> z] /\ w["read"] = {}
    BY <1>1, <1>2, <1>3 DEF RunTypes
<1>7. /\ RunTypes' /\ run'.on = run.on /\ run'.done = run.done /\ run'.found = run.found /\ run'.text = t
      /\ run'.work = w \/ (run'.work = z /\ w["read"] = {})
    <2>1. run.found \in [Paths -> Versions \cup {None}] /\ run.on = TRUE /\ run.done = FALSE
        BY <1>2, <1>3 DEF RunTypes
    <2>2. ASSUME NEW x \in [ToSet(Stages) -> SUBSET Paths],
                 run' = [on |-> TRUE, done |-> FALSE, found |-> run.found, text |-> t, work |-> x]
          PROVE  /\ RunTypes' /\ run'.on = run.on /\ run'.done = run.done /\ run'.found = run.found
                 /\ run'.text = t /\ run'.work = x
        <3>1. RunTypes' /\ run'.on /\ ~run'.done /\ run'.found = run.found /\ run'.text = t /\ run'.work = x
            BY <2>1, <2>2, <1>5, RunIs
        <3>2. run'.on \in BOOLEAN /\ run'.done \in BOOLEAN
            BY <3>1 DEF RunTypes
        <3> QED
            BY <3>1, <3>2, <2>1
    <2> QED
        BY <2>2, <1>4, <1>6
<1>8. /\ \A s \in {"graph", "printBody", "hide", "purge", "rebind", "rebindBody", "unbind"} : run'.work[s] = run.work[s]
      /\ run'.work["read"] = run.work["read"] \ {p}
      /\ \A s \in ToSet(Stages) : run'.work[s] \subseteq run.work[s]
      /\ \/ \A s \in dropped : run'.work[s] = run.work[s]
         \/ run'.work["read"] = {} /\ \A s \in dropped : run'.work[s] = {}
    BY <1>4, <1>7, StageSet
<1>9. Types'
    BY <1>1, <1>3 DEF Types
<1>10. WorkOrder'
    <2>1. \A s \in Ingest \cup {"purge", "rebind", "rebindBody"} : \A q \in run'.work[s] : run'.found[q] # None
        BY <1>2, <1>3, <1>7, <1>8, StageSet DEF WorkOrder, Ingest
    <2>2. run'.work["rebind"] \cup run'.work["read"] # {} => run'.work["printBody"] \subseteq run'.work["embed"]
        BY <1>2, <1>3, <1>8 DEF WorkOrder
    <2>3. /\ run'.work["read"] \subseteq run'.work["save"]
          /\ run'.work["embed"] \subseteq run'.work["bind"] \cap run'.work["graph"]
          /\ run'.work["bind"] \cup run'.work["graph"] \subseteq run'.work["printBody"]
          /\ \A q \in run'.work["hide"] : run'.found[q] = None
        BY <1>2, <1>3, <1>7, <1>8 DEF WorkOrder
    <2> QED
        BY <2>1, <2>2, <2>3 DEF WorkOrder
<1>11. ASSUME NEW q \in Paths PROVE Saved(q)' /\ HoldersHeld(q)'
    <2>1. Saved(q)'
        BY <1>1, <1>2, <1>3, <1>5, <1>7, <1>8 DEF Inv, Saved, WorkOrder
    <2>2. HoldersHeld(q)'
        BY <1>1 DEF Inv, HoldersHeld
    <2> QED
        BY <2>1, <2>2
<1>12. ASSUME NEW q \in Paths \ torn' PROVE PathInv(q)'
    <2>1. PathInv(q)
        BY <1>1 DEF Inv
    <2>2. Same(q)'
        BY <2>1, <1>1, <1>7, <1>8 DEF PathInv, Same
    <2>3. Texts(q)'
        <3>1. CASE q = p
            <4>1. disk[p] = run.found[p]
                BY <3>1, <2>1, <1>2, StageSet DEF PathInv, Same
            <4> QED
                BY <3>1, <4>1, <1>5, <1>7 DEF Texts
        <3>2. CASE q # p
            BY <3>2, <2>1, <1>5, <1>7, <1>8 DEF PathInv, Texts
        <3> QED
            BY <3>1, <3>2
    <2>4. Docs(q)'
        BY <2>1, <1>1, <1>7, <1>8 DEF PathInv, Docs
    <2>5. ~Written(q, "printBody") /\ ~Written(q, "graph") /\ ~Written(q, "bind")
        BY <1>2, <1>3 DEF Written, WorkOrder
    <2>6. Expected(q)' => Expected(q)
        BY <1>7, <1>8 DEF Expected
    <2>7. Printed(q)' /\ Bare(q)'
        BY <2>1, <2>5, <2>6, <1>1, <1>7, <1>8 DEF PathInv, Printed, Bare
    <2>8. Hidden(q)' /\ Current(q)'
        BY <2>1, <2>6, <1>1, <1>7, <1>8 DEF PathInv, Hidden, Current
    <2>9. Found(q)'
        BY <2>1, <2>5, <1>1 DEF PathInv, Found, Stored, Complete, Active
    <2> QED
        BY <2>2, <2>3, <2>4, <2>7, <2>8, <2>9 DEF PathInv
<1> QED
    BY <1>7, <1>9, <1>10, <1>11, <1>12 DEF Inv

\* The differences: a new note has no fingerprint and so no rows, a modified one
\* is purged first, and the fingerprint of any other is that of its text.
LEMMA BeginInv ==
    ASSUME Inv, Begin
    PROVE  Inv'
<1> DEFINE found == Discovered
           new == {p \in found : body[p] = None}
           modified == {p \in found \ new : body[p] # disk[p].body}
           deleted == {p \in Paths \ found : body[p] # None}
           changed == new \cup modified
           retagged == {p \in found \ changed : meta[p] # disk[p].meta}
           quiet == changed \cup deleted = {}
           w == [s \in ToSet(Stages) |->
                    CASE s = "hide"     -> deleted
                      [] s = "purge"    -> modified
                      [] s = "rebind"   -> IF quiet /\ retagged = {} THEN found ELSE new
                      [] s = "existing" -> retagged
                      [] s \in Ingest   -> changed
                      [] OTHER          -> {}]
<1>1. /\ ~run.on /\ UNCHANGED <<disk, docs, binding, held, body, bound, rows, missed, torn>>
      /\ run' = [on |-> TRUE, done |-> FALSE, found |-> disk, text |-> [p \in Paths |-> None], work |-> w]
    BY Zenon DEF Begin, local, prints, store
<1>2. Types /\ RunTypes
    BY DEF Inv
<1>3. /\ found \subseteq Paths /\ new \subseteq found /\ modified \subseteq found /\ changed \subseteq found
      /\ \A p \in found : disk[p] # None
      /\ \A p \in deleted : disk[p] = None
      /\ \A p \in modified : body[p] # None
      /\ \A p \in changed : body[p] = None \/ body[p] # disk[p].body
      /\ \A p \in Paths : disk[p] # None /\ p \notin modified => body[p] = None \/ body[p] = disk[p].body
      /\ \A p \in new : body[p] = None
      /\ \A p \in changed : p \notin modified => body[p] = None
      /\ \A p \in Paths : disk[p] # None /\ p \notin changed => body[p] # None
      /\ deleted \subseteq Paths /\ retagged \subseteq Paths
      /\ quiet => new = {} /\ changed = {}
    BY DEF Discovered
<1> DEFINE rebound == IF quiet /\ retagged = {} THEN found ELSE new
<1>4. rebound \subseteq found /\ (rebound # {} => rebound = new \/ changed = {})
    BY <1>3
<1> HIDE DEF found, new, modified, deleted, changed, retagged, quiet
<1>5. /\ w["hide"] = deleted /\ w["purge"] = modified /\ w["rebind"] = rebound /\ w["existing"] = retagged
      /\ w["unbind"] = {} /\ w["rebindBody"] = {}
      /\ \A s \in Ingest : w[s] = changed
      /\ \A s \in ToSet(Stages) : w[s] \in {deleted, modified, rebound, retagged, changed, {}}
    <2>1. /\ {"hide", "purge", "rebind", "existing"} \cap Ingest = {}
          /\ "unbind" \notin Ingest /\ "rebindBody" \notin Ingest
          /\ Ingest \subseteq ToSet(Stages)
          /\ {"hide", "purge", "rebind", "existing", "unbind", "rebindBody"} \subseteq ToSet(Stages)
        BY StageSet DEF Ingest
    <2>2. ASSUME NEW s \in ToSet(Stages)
          PROVE  /\ s = "hide" => w[s] = deleted
                 /\ s = "purge" => w[s] = modified
                 /\ s = "rebind" => w[s] = rebound
                 /\ s = "existing" => w[s] = retagged
                 /\ s \in Ingest => w[s] = changed
                 /\ s \notin Ingest \cup {"hide", "purge", "rebind", "existing"} => w[s] = {}
        BY <2>1, Zenon
    <2> HIDE DEF w, rebound
    <2> QED
        BY <2>1, <2>2
<1>6. w \in [ToSet(Stages) -> SUBSET Paths]
    <2>1. w = [s \in ToSet(Stages) |-> w[s]]
        OBVIOUS
    <2>2. {deleted, modified, rebound, retagged, changed, {}} \subseteq SUBSET Paths
        BY <1>3, <1>4, <1>5
    <2> HIDE DEF w, rebound
    <2>3. \A s \in ToSet(Stages) : w[s] \in SUBSET Paths
        BY <2>2, <1>5
    <2> QED
        BY <2>1, <2>3
<1> HIDE DEF w, rebound
<1>7. RunTypes' /\ run'.on /\ ~run'.done /\ run'.found = disk /\ run'.work = w
    <2> DEFINE t == [p \in Paths |-> None]
    <2>1. t = [p \in Paths |-> t[p]]
        OBVIOUS
    <2>2. run' = [on |-> TRUE, done |-> FALSE, found |-> disk, text |-> t, work |-> w]
        BY <1>1
    <2> HIDE DEF t
    <2> QED
        BY <2>1, <2>2, <1>2, <1>6, RunIs DEF Types
<1>8. /\ \A s \in Ingest : run'.work[s] = changed
      /\ run'.work["purge"] = modified /\ run'.work["rebind"] = rebound
      /\ run'.work["rebindBody"] = {} /\ run'.work["unbind"] = {} /\ run'.work["hide"] = deleted
    BY <1>5, <1>7
<1>9. \A s \in {"read", "save", "document", "embed", "bind", "graph", "printBody"} : run'.work[s] = changed
    BY <1>8 DEF Ingest
<1>10. Types'
    BY <1>1, <1>2 DEF Types
<1>11. WorkOrder'
    BY <1>3, <1>4, <1>7, <1>8, <1>9 DEF WorkOrder
<1>12. ASSUME NEW q \in Paths PROVE Saved(q)' /\ HoldersHeld(q)'
    BY <1>1, <1>9 DEF Inv, Saved, HoldersHeld
<1>13. ASSUME NEW q \in Paths \ torn' PROVE PathInv(q)'
    <2>1. PathInv(q)
        BY <1>1 DEF Inv
    <2>2. q \notin missed /\ bound[q] # None => bound[q].body # None /\ body[q] = bound[q].body
        BY <2>1, <1>1, <1>2, BulkIndexAssumption DEF PathInv, Found, Complete, Written, Types
    <2>3. Expected(q)' => body[q] = None
        BY <1>3, <1>8, <1>9 DEF Expected
    <2>4. Same(q)' /\ Texts(q)' /\ Docs(q)'
        BY <1>1, <1>7, <1>9 DEF Same, Texts, Docs
    <2>5. Printed(q)' /\ Bare(q)'
        BY <2>1, <2>3, <1>1, <1>3, <1>8 DEF PathInv, Printed, Bare, Written
    <2>6. Hidden(q)'
        BY <2>2, <2>3, <1>1, <1>8 DEF Hidden
    <2>7. Found(q)'
        BY <2>1, <1>1 DEF PathInv, Found, Stored, Complete, Active, Written
    <2>8. Current(q)'
        BY <2>2, <1>1, <1>3, <1>7, <1>8 DEF Current
    <2> QED
        BY <2>4, <2>5, <2>6, <2>7, <2>8 DEF PathInv
<1> QED
    BY <1>7, <1>10, <1>11, <1>12, <1>13 DEF Inv

----------------------------------------------------------------------------
\* Every step keeps the invariant.
LEMMA StepInv == ASSUME Inv, [Next]_vars PROVE Inv'
<1>1. CASE Begin
    BY <1>1, BeginInv
<1>2. CASE Document \/ Graph \/ End
    BY <1>2, DocumentInv, GraphInv, EndInv
<1>3. ASSUME NEW p \in Paths, Hide(p) \/ Unbind(p) \/ Purge(p) \/ Rebind(p) \/ SkipRebind(p) \/ Read(p) \/ Save(p)
      PROVE  Inv'
    BY <1>3, HideInv, UnbindInv, PurgeInv, RebindInv, SkipRebindInv, ReadInv, SaveInv
<1>4. ASSUME NEW p \in Paths, Embed(p) \/ Bind(p) \/ PrintBody(p) \/ PrintMeta(p) \/ Existing(p)
      PROVE  Inv'
    BY <1>4, EmbedInv, BindInv, PrintBodyInv, PrintMetaInv, ExistingInv
<1>5. ASSUME NEW p \in Paths, Vanish(p)
      PROVE  Inv'
    BY <1>5, EndedInv DEF Vanish, At
<1>6. CASE Stop
    BY <1>6, EndedInv DEF Stop
<1>7. ASSUME NEW p \in Paths, Change(p) PROVE Inv'
    BY <1>7, ChangeInv
<1>9. CASE Sweep
    BY <1>9, SweepInv
<1>8. CASE UNCHANGED vars
    <2>1. UNCHANGED <<disk, docs, binding, held, body, bound, rows, missed, run, torn>>
        BY <1>8 DEF vars, local, prints, store
    <2>2. Types' /\ RunTypes' /\ WorkOrder'
        BY <2>1 DEF Inv, Types, RunTypes, WorkOrder
    <2>3. \A q \in Paths : Saved(q)' /\ HoldersHeld(q)'
        BY <2>1 DEF Inv, Saved, HoldersHeld
    <2>4. \A q \in Paths \ torn' : PathInv(q)'
        BY <2>1
        DEF Inv, PathInv, Same, Texts, Docs, Printed, Bare, Hidden, Found, Current, Stored, Complete, Active, Written, Expected
    <2> QED
        BY <2>2, <2>3, <2>4 DEF Inv
<1> QED
    BY <1>1, <1>2, <1>3, <1>4, <1>5, <1>6, <1>7, <1>8, <1>9 DEF Next, Work

\* The resume state names phases that a manifest has.
LEMMA PhasesStep ==
    ASSUME applied \subseteq Phases, [Next]_vars
    PROVE  applied' \subseteq Phases
<1> USE DEF Phases
<1>1. CASE Begin
    BY <1>1 DEF Begin
<1>2. CASE Document \/ Graph \/ End \/ Stop \/ Sweep \/ UNCHANGED vars
    BY <1>2 DEF Document, Graph, End, Stop, Sweep, store, vars, Completes
<1>3. ASSUME NEW p \in Paths, Hide(p) \/ Purge(p) \/ Embed(p) \/ Existing(p) PROVE applied' \subseteq Phases
    BY <1>3 DEF Hide, Purge, Embed, EmbedFile, Existing, Renew, Tombstones, Completes, store
<1>4. ASSUME NEW p \in Paths, Unbind(p) \/ Rebind(p) \/ SkipRebind(p) \/ Read(p) \/ Save(p) \/ Bind(p)
      PROVE  applied' \subseteq Phases
    BY <1>4 DEF Unbind, Rebind, SkipRebind, Read, Save, Bind, store
<1>5. ASSUME NEW p \in Paths, PrintBody(p) \/ PrintMeta(p) \/ Vanish(p) \/ Change(p)
      PROVE  applied' \subseteq Phases
    BY <1>5 DEF PrintBody, PrintMeta, Vanish, Change, store
<1> QED
    BY <1>1, <1>2, <1>3, <1>4, <1>5 DEF Next, Work

\* Between any two steps the invariant holds, in every run of the command.
THEOREM Inductive == Spec => []Inv
<1>1. Init => Inv
    BY InitInv
<1>2. Inv /\ [Next]_vars => Inv'
    BY StepInv
<1> QED
    BY <1>1, <1>2, PTL DEF Spec

\* Versions, fingerprints, holders and the work of a run are of the paths.
THEOREM TypeCorrect == Spec => []TypeOK
<1>1. Init => applied \subseteq Phases
    BY DEF Init
<1>2. applied \subseteq Phases /\ [Next]_vars => (applied \subseteq Phases)'
    BY PhasesStep
<1>3. Inv /\ applied \subseteq Phases => TypeOK
    BY InvTypes
<1> QED
    BY <1>1, <1>2, <1>3, Inductive, PTL DEF Spec

\* IndexingPipeline.index: what a note that can be found leads to, of whose
\* manifests the resume state withheld nothing, is exactly the chunks of the
\* text it was indexed with, whatever was purged of others in between, and
\* whichever phases of theirs were withheld.
THEOREM FoundExactly == Spec => []FoundIsExact
<1>1. Inv => FoundIsExact
    BY InvExact
<1> QED
    BY <1>1, Inductive, PTL

\* IndexingPipeline.index, DotMDService.read: after a run that went through, what
\* can be found, and of whose manifests nothing was withheld, can be read, is
\* the text of the file and is in the graph.
THEOREM FoundReadably == Spec => []FoundIsReadable
<1>1. Inv => FoundIsReadable
    BY InvReadable
<1> QED
    BY <1>1, Inductive, PTL
=============================================================================
