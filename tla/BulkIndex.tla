------------------------------- MODULE BulkIndex -------------------------------
(***************************************************************************)
(* The bulk command (IndexingPipeline.index) and the sweep at the start of *)
(* the server (purge_orphaned_files), with a Surreal writer configured: a  *)
(* run discovers the notes, compares them with the fingerprints and works  *)
(* through the differences stage by stage.  It keeps documents, bindings   *)
(* and holders in the local database and writes rows to the retrieval      *)
(* store; reading a note goes by the local rows, finding it by the others. *)
(* A step is a committed local transaction or one manifest, whole.  All    *)
(* manifests of a process share one resume state (pipeline.py:583, 2605):  *)
(* a phase that one of them completed is withheld from those that follow.  *)
(***************************************************************************)
EXTENDS Integers, Sequences, FiniteSets, SequencesExt

CONSTANTS
    Paths,
    Versions,       \* records [body, meta]: what the two checksums tell apart
    ChunksOf,       \* body -> the sequence of its chunks
    None,           \* no file, no row
    Initial,        \* the notes that may be there at first
    MaxChanges,     \* how often a note is written or deleted
    MaxStops        \* how often a run fails or dies

ASSUME BulkIndexAssumption ==
    /\ Initial \subseteq [Paths -> Versions \cup {None}]
    /\ None \notin Versions /\ MaxChanges \in Nat /\ MaxStops \in Nat
    /\ \A v \in Versions : v.body # None /\ ChunksOf[v.body] \in Seq(ToSet(ChunksOf[v.body]))
    /\ None \notin [v : Versions \cup {None}, active : BOOLEAN]

VARIABLES
    disk,           \* path -> version or None
    docs,           \* local source_documents: path -> version or None
    binding,        \* local resource_bindings: path -> [v, active] or None
    held,           \* local chunk_file_paths: path -> set of <<chunk, index>>
    body, meta,     \* chunk and meta fingerprints: path -> fingerprint or None
    bound,          \* retrieval store, document and binding: path -> version or None
    rows,           \* retrieval store: ids of the rows of chunks and holders
    applied,        \* the resume state of the process: the completed phases
    missed,         \* history: paths with rows withheld, or left, since they were hidden
    run,            \* the run in progress, or the last one
    torn,           \* paths edited or stopped in the middle of an ingest (history)
    left            \* changes and stops that may still occur

local == <<docs, binding, held>>
prints == <<body, meta>>
store == <<bound, rows, applied, missed>>
vars == <<disk, local, prints, store, run, torn, left>>

\* The order in which a run works; a stage waits for those before it.
Stages == <<"unbind", "hide", "purge", "rebindMeta", "rebindBody", "rebind", "read", "save",
            "document", "embed", "bind", "graph", "printBody", "printMeta", "existingPrint", "existing">>
Before == [s \in ToSet(Stages) |->
    {Stages[i] : i \in {k \in DOMAIN Stages : \E j \in DOMAIN Stages : Stages[j] = s /\ k < j}}]
Ingest == {"read", "save", "document", "embed", "bind", "graph", "printBody", "printMeta"}
Nothing == [s \in ToSet(Stages) |-> {}]

Init ==
    /\ disk \in Initial
    /\ docs = [p \in Paths |-> None] /\ binding = docs /\ body = docs /\ meta = docs /\ bound = docs
    /\ held = [p \in Paths |-> {}] /\ rows = {} /\ applied = {} /\ missed = {}
    /\ run = [on |-> FALSE, done |-> FALSE, found |-> docs, text |-> docs, work |-> Nothing]
    /\ torn = {} /\ left = [changes |-> MaxChanges, stops |-> MaxStops]

----------------------------------------------------------------------------
\* Row ids in the retrieval store.
ChunkRow(c) == <<"chunk", c>>
EmbeddingRow(c) == <<"embedding", c>>
ProvenanceRow(c, p) == <<"provenance", c, p>>
HolderRow(p, h) == <<"holder", h[1], p, h[2]>>
Holding(b) == {<<ChunksOf[b][i], i>> : i \in DOMAIN ChunksOf[b]}
ChunksIn(hs) == {h[1] : h \in hs}
ContentRows(p, cs) == UNION {{ChunkRow(c), EmbeddingRow(c), ProvenanceRow(c, p)} : c \in cs}
DirectRows(p, b) == ContentRows(p, ChunksIn(Holding(b))) \cup {HolderRow(p, h) : h \in Holding(b)}

\* The graph files a note's chunks under its path; no purge removes that.
GraphRows(p, b) ==
    {<<"file", p>>} \cup UNION {{<<"section", c>>, <<"contains", p, c>>} : c \in ChunksIn(Holding(b))}

OrphansOf(p) == {c \in ChunksIn(held[p]) : \A q \in Paths \ {p} : c \notin ChunksIn(held[q])}

\* Mutant: the holder rows stay.
PurgedLeavingHolders(p) == ContentRows(p, OrphansOf(p))

\* Rows of a purged note: its holder rows, and chunks that no other path holds.
Purged(p) == ContentRows(p, OrphansOf(p)) \cup {HolderRow(p, h) : h \in held[p]}

At(s, p) == run.on /\ p \in run.work[s] /\ \A t \in Before[s] : run.work[t] = {}
Done(s, p) == run' = [run EXCEPT !.work[s] = @ \ {p}]
\* The stores' upserts; a holder row that exists is left alone.
Upserted(p, v, active) == [binding EXCEPT ![p] = [v |-> v, active |-> active]]
WithHolders(p, hs) == [held EXCEPT ![p] = @ \cup hs]
Known(p) == docs[p] # None \/ binding[p] # None

----------------------------------------------------------------------------
\* The phases of a tombstone manifest, of a note's own rows and of the graph:
\* each is skipped when it is completed, and completed by the call otherwise.
Phases == {"tombstones", "rows", "graph"}
Completes(phase) == applied' = applied \cup {phase}

\* A manifest that hides p and deletes the rows gone; none is written for a
\* note that has neither a document nor a binding nor rows to delete.
Tombstones(p, gone) ==
    \/ ~Known(p) /\ gone = {} /\ UNCHANGED store
    \/ /\ Known(p) \/ gone # {}
       /\ "tombstones" \notin applied
       /\ bound' = [bound EXCEPT ![p] = None] /\ rows' = rows \ gone
       /\ missed' = missed \ {p} /\ Completes("tombstones")
    \/ /\ Known(p) \/ gone # {}
       /\ "tombstones" \in applied /\ UNCHANGED <<bound, rows, applied>>
       /\ missed' = IF gone = {} /\ bound[p] = None THEN missed ELSE missed \cup {p}

\* The documents the filesystem source finds.
Discovered == {p \in Paths : disk[p] # None}

\* discover and FileTracker.diff; a fingerprint is never removed, so a note
\* that is gone counts as deleted in every run from now on.  The command is a
\* process of its own, the endpoint of the server goes on in that of the server.
Begin ==
    LET found == Discovered
        new == {p \in found : body[p] = None}
        modified == {p \in found \ new : body[p] # disk[p].body}
        deleted == {p \in Paths \ found : body[p] # None}
        changed == new \cup modified
        retagged == {p \in found \ changed : meta[p] # disk[p].meta}
        quiet == changed \cup deleted = {}
    IN /\ ~run.on
       /\ applied' \in {{}, applied}
       /\ run' = [on |-> TRUE, done |-> FALSE, found |-> disk, text |-> [p \in Paths |-> None],
                  work |-> [s \in ToSet(Stages) |->
                    CASE s = "hide"     -> deleted
                      [] s = "purge"    -> modified
                      [] s = "rebind"   -> IF quiet /\ retagged = {} THEN found ELSE new
                      [] s = "existing" -> retagged
                      [] s \in Ingest   -> changed
                      [] OTHER          -> {}]]
       /\ UNCHANGED <<disk, local, prints, bound, rows, missed, torn, left>>

\* _deactivate_filesystem_binding: a manifest, then the local binding.
Hide(p) ==
    /\ At("hide", p) /\ Tombstones(p, {})
    /\ run' = [run EXCEPT !.work["hide"] = @ \ {p}, !.work["unbind"] = {p}]
    /\ UNCHANGED <<disk, local, prints, torn, left>>
Unbind(p) ==
    /\ At("unbind", p) /\ Done("unbind", p)
    /\ binding' = Upserted(p, IF docs[p] # None THEN docs[p]
                                ELSE IF binding[p] # None THEN binding[p].v ELSE None, FALSE)
    /\ UNCHANGED <<disk, docs, held, prints, store, torn, left>>

\* _purge_file: a manifest of tombstones; local rows and fingerprints stay.
Purge(p) ==
    /\ At("purge", p) /\ Done("purge", p) /\ Tombstones(p, Purged(p))
    /\ UNCHANGED <<disk, local, prints, torn, left>>

\* _rebind_retained_filesystem_document: its own binding, or that of another
\* path with the same content, if that is inactive and still has its chunks.
Retained(p) ==
    IF binding[p] # None THEN {p}
    ELSE {r \in Paths : binding[r] # None /\ ~binding[r].active /\ binding[r].v = run.found[p]}
Matches(r, p) == ~binding[r].active /\ binding[r].v = run.found[p] /\ held[r] # {}
Rebind(p) == \E r \in Retained(p) :
    /\ At("rebind", p) /\ Matches(r, p)
    /\ docs' = [docs EXCEPT ![p] = run.found[p]]
    /\ held' = WithHolders(p, held[r])
    /\ binding' = Upserted(p, run.found[p], TRUE)
    /\ run' = [run EXCEPT !.work = [s \in DOMAIN @ |->
                CASE s \in {"rebindBody", "rebindMeta"} -> {p}
                  [] s \in Ingest \cup {"rebind"}       -> @[s] \ {p}
                  [] OTHER                              -> @[s]]]
    /\ UNCHANGED <<disk, prints, store, torn, left>>
SkipRebind(p) ==
    /\ At("rebind", p) /\ Done("rebind", p)
    /\ Retained(p) = {} \/ \E r \in Retained(p) : ~Matches(r, p)
    /\ UNCHANGED <<disk, local, prints, store, torn, left>>

----------------------------------------------------------------------------
\* _chunk_files: every note is read before anything is saved.  Without a
\* chunk in any of them only the fingerprints are left to save.
Read(p) ==
    LET text == [run.text EXCEPT ![p] = disk[p].body]
        work == [run.work EXCEPT !["read"] = @ \ {p}]
        empty == \A q \in Paths : text[q] = None \/ ChunksOf[text[q]] = <<>>
    IN /\ At("read", p) /\ disk[p] # None
       /\ run' = [run EXCEPT !.text = text,
                  !.work = IF work["read"] = {} /\ empty
                           THEN [s \in DOMAIN work |->
                                    IF s \in {"save", "document", "embed", "bind"} THEN {} ELSE work[s]]
                           ELSE work]
       /\ UNCHANGED <<disk, local, prints, store, torn, left>>

\* save_chunks: rows are added, none is replaced.  One file at a time here.
Save(p) ==
    /\ At("save", p) /\ Done("save", p)
    /\ held' = WithHolders(p, Holding(run.text[p]))
    /\ UNCHANGED <<disk, docs, binding, prints, store, torn, left>>

\* _persist_chunk_source_provenance: one transaction for all notes, with
\* checksums of the files as they are now.
Document ==
    LET ps == run.work["document"]
    IN /\ \E p \in ps : At("document", p)
       /\ \A p \in ps : disk[p] # None
       /\ docs' = [p \in Paths |-> IF p \in ps THEN disk[p] ELSE docs[p]]
       /\ run' = [run EXCEPT !.work["document"] = {}]
       /\ UNCHANGED <<disk, binding, held, prints, store, torn, left>>

\* _save_and_embed_chunks: one manifest for each note that has chunks.
EmbedFile(p) ==
    IF "rows" \in applied THEN missed' = missed \cup {p} /\ UNCHANGED <<bound, rows, applied>>
    ELSE /\ rows' = rows \cup DirectRows(p, run.text[p])
         /\ bound' = [bound EXCEPT ![p] = docs[p]]
         /\ Completes("rows") /\ UNCHANGED missed
Embed(p) ==
    /\ At("embed", p) /\ Done("embed", p)
    /\ IF ChunksOf[run.text[p]] = <<>> THEN UNCHANGED store ELSE EmbedFile(p)
    /\ UNCHANGED <<disk, local, prints, torn, left>>

\* Mutant: a binding that exists keeps its state.
BindOnce(p) ==
    /\ At("bind", p) /\ Done("bind", p)
    /\ binding' = [binding EXCEPT ![p] = IF @ # None THEN [@ EXCEPT !.v = docs[p]] ELSE [v |-> docs[p], active |-> TRUE]]
    /\ UNCHANGED <<disk, docs, held, prints, store, torn, left>>

Bind(p) ==
    /\ At("bind", p) /\ Done("bind", p)
    /\ binding' = Upserted(p, docs[p], TRUE)
    /\ UNCHANGED <<disk, docs, held, prints, store, torn, left>>

\* _extract_and_populate_graph: one manifest for all notes of the run.
Graph ==
    LET ps == run.work["graph"]
    IN /\ \E p \in ps : At("graph", p)
       /\ IF "graph" \in applied THEN missed' = missed \cup ps /\ UNCHANGED rows
          ELSE rows' = rows \cup UNION {GraphRows(p, run.text[p]) : p \in ps} /\ UNCHANGED missed
       /\ Completes("graph")
       /\ run' = [run EXCEPT !.work["graph"] = {}]
       /\ UNCHANGED <<disk, local, prints, bound, torn, left>>

\* _save_fingerprint: of the file as it is now; skipped if it is gone.
PrintOf(p, part, old) == IF disk[p] = None THEN old ELSE disk[p][part]
PrintBody(p) == \E s \in {"rebindBody", "printBody"} :
    /\ At(s, p) /\ Done(s, p) /\ (s = "rebindBody" => disk[p] # None)
    /\ body' = [body EXCEPT ![p] = PrintOf(p, "body", @)]
    /\ UNCHANGED <<disk, local, meta, store, torn, left>>
PrintMeta(p) == \E s \in {"rebindMeta", "printMeta", "existingPrint"} :
    /\ At(s, p) /\ Done(s, p)
    /\ meta' = [meta EXCEPT ![p] = PrintOf(p, "meta", @)]
    /\ UNCHANGED <<disk, local, body, store, torn, left>>

\* The local document and binding are renewed, and the note in the graph with
\* its tags; its rows in the retrieval store are not.
Renew(p) ==
    /\ disk[p] # None
    /\ docs' = [docs EXCEPT ![p] = disk[p]]
    /\ binding' = Upserted(p, disk[p], TRUE)
    /\ rows' = IF "graph" \in applied THEN rows ELSE rows \cup {<<"file", p>>}
    /\ Completes("graph") /\ UNCHANGED <<held, bound, missed>>

\* Mutant: the meta fingerprint is not saved.
ExistingWithoutPrint(p) ==
    /\ At("existing", p) /\ Done("existing", p)
    /\ IF held[p] = {} THEN UNCHANGED <<local, store>> ELSE Renew(p)
    /\ UNCHANGED <<disk, prints, torn, left>>

\* _embed_existing_chunks: a note without chunks is passed over.
Existing(p) ==
    /\ At("existing", p)
    /\ IF held[p] = {}
       THEN Done("existing", p) /\ UNCHANGED <<local, store>>
       ELSE /\ Renew(p)
            /\ run' = [run EXCEPT !.work["existing"] = @ \ {p}, !.work["existingPrint"] = {p}]
    /\ UNCHANGED <<disk, prints, torn, left>>

End ==
    /\ run.on /\ run.work = Nothing /\ run' = [run EXCEPT !.on = FALSE, !.done = TRUE]
    /\ UNCHANGED <<disk, local, prints, store, torn, left>>

----------------------------------------------------------------------------
\* Written to the store, and not yet in the fingerprints.
Halfway == run.work["printBody"] \ run.work["embed"]
Ended == run' = [run EXCEPT !.on = FALSE] /\ torn' = torn \cup Halfway

\* A note that is gone when it has to be read raises, which ends the run.
Vanish(p) ==
    /\ disk[p] = None /\ Ended
    /\ \E s \in {"rebindBody", "read", "document", "existing"} :
        At(s, p) /\ (s = "existing" => held[p] # {})
    /\ UNCHANGED <<disk, local, prints, store, left>>

Stop ==
    /\ run.on /\ left.stops > 0 /\ left' = [left EXCEPT !.stops = @ - 1] /\ Ended
    /\ UNCHANGED <<disk, local, prints, store>>

\* A note is written or deleted at any time.
Change(p) == \E v \in (Versions \cup {None}) \ {disk[p]} :
    /\ left.changes > 0 /\ left' = [left EXCEPT !.changes = @ - 1]
    /\ disk' = [disk EXCEPT ![p] = v]
    /\ torn' = IF run.on /\ p \in UNION Range(run.work) THEN torn \cup {p} ELSE torn
    /\ UNCHANGED <<local, prints, store, run>>

\* purge_orphaned_files when the server starts, a new process: the manifests
\* of Hide for the paths that hold chunks and are gone, of which the first has
\* the phase to itself; the local bindings stay active.
Sweep ==
    LET orphans == {p \in Paths : held[p] # {} /\ disk[p] = None /\ Known(p)}
    IN /\ ~run.on /\ applied' = {"tombstones"}
       /\ \E p \in orphans :
            /\ bound' = [bound EXCEPT ![p] = None]
            /\ missed' = (missed \ {p}) \cup {q \in orphans \ {p} : bound[q] # None}
       /\ UNCHANGED <<disk, local, prints, rows, run, torn, left>>

\* DotMDService.read: it goes by the local database alone.
Active(p) == binding[p] # None /\ binding[p].active
Resolved(p) == docs[p] # None \/ (held[p] # {} /\ disk[p] # None)
Readable(p) == Active(p) /\ Resolved(p) /\ held[p] # {}

Work == Document \/ Graph \/ End \/ \E p \in Paths :
    \/ Hide(p) \/ Unbind(p) \/ Purge(p) \/ Rebind(p) \/ SkipRebind(p) \/ Read(p) \/ Save(p)
    \/ Embed(p) \/ Bind(p) \/ PrintBody(p) \/ PrintMeta(p) \/ Existing(p) \/ Vanish(p)
Next == Begin \/ Work \/ Stop \/ Sweep \/ \E p \in Paths : Change(p)

Spec == Init /\ [][Next]_vars
\* A run goes on, the command is given and the server started again and again.
FairSpec == Spec /\ WF_vars(Begin) /\ WF_vars(Work) /\ SF_vars(Sweep)

----------------------------------------------------------------------------
\* Versions, fingerprints, holders and work are of the paths and their notes.
TypeOK ==
    /\ \A f \in {disk, docs, bound, run.found} : f \in [Paths -> Versions \cup {None}]
    /\ \A p \in Paths : binding[p] # None => binding[p].v \in Versions \cup {None}
    /\ run.work \in [ToSet(Stages) -> SUBSET Paths] /\ (~run.on /\ run.done => run.work = Nothing)
    /\ torn \cup missed \subseteq Paths /\ applied \subseteq Phases

\* What a note that can be found leads to, when no phase of a manifest of its
\* was withheld, is the note as it was indexed: its chunks are all there,
\* whoever else held them has been purged meanwhile, and no chunk of an
\* earlier text is still filed under it.
FoundIsExact ==
    \A p \in Paths \ (torn \cup missed) : bound[p] # None =>
        /\ DirectRows(p, bound[p].body) \subseteq rows
        /\ \A r \in rows : r[1] = "holder" /\ r[3] = p => r \in DirectRows(p, bound[p].body)

\* After a run that went through, a note that can be found can be read too,
\* what was found is the text it has, and the graph has its chunks as well.
FoundIsReadable ==
    run.done => \A p \in Paths \ (torn \cup missed) :
        bound[p] # None /\ disk[p] # None /\ disk[p] = run.found[p] =>
            /\ Readable(p)
            /\ bound[p].body = disk[p].body /\ GraphRows(p, disk[p].body) \subseteq rows

\* Once the notes stay as they are, the fingerprints come to match them, and
\* what is gone is not found any more, or is still there because its
\* tombstones were withheld.
Settled ==
    \A p \in Paths :
        /\ disk[p] = None => bound[p] = None \/ p \in missed
        /\ disk[p] # None => body[p] = disk[p].body /\ (held[p] # {} => meta[p] = disk[p].meta)
Settles == <>[]Settled

\* As the documentation has it, and as it is not: what is found after a run
\* that went through is the text the note has, a note that came back is found
\* again, and reading a note returns the chunks it has now.
FoundIsCurrent ==
    run.done => \A p \in Paths \ torn :
        bound[p] # None /\ disk[p] # None /\ disk[p] = run.found[p] => bound[p].body = disk[p].body
RestoredIsFound ==
    run.done => \A p \in Paths \ torn :
        disk[p] # None /\ disk[p] = run.found[p] /\ ChunksOf[disk[p].body] # <<>> => bound[p] # None
ReadIsExact ==
    run.done => \A p \in Paths \ torn :
        disk[p] # None /\ disk[p] = run.found[p] => held[p] = Holding(disk[p].body)
=============================================================================
