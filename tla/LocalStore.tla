----------------------------- MODULE LocalStore -----------------------------
(***************************************************************************)
(* The local SQLite index without SurrealDB, over the life of several      *)
(* processes: the repair a process does when it starts, the batches of     *)
(* the poller with the readers of messages beside it on the same           *)
(* connection, the searches, which take turns with the poller on the one   *)
(* worker, and the commands that reset or rebuild the index.               *)
(*                                                                         *)
(* A batch is one message; batches of several, and messages that get no    *)
(* chunk, are in SourceIngest.  There is one note, indexed in one step;    *)
(* its steps are in FileIndex.                                             *)
(***************************************************************************)
EXTENDS SqliteConnection, Integers, Sequences, FiniteSets

CONSTANTS
    Units,              \* messages of the source
    NoUnit,
    DialogOf,           \* message -> its dialog
    MaxSchema,          \* schema versions of the code: 1 .. MaxSchema
    ResetBesideServer,  \* may reset-index run while the server does?
    MaxChanges          \* bound on what the source is given

ASSUME LocalStoreAssumption ==
    /\ NoUnit \notin Units
    /\ DOMAIN DialogOf = Units
    /\ ResetBesideServer \in BOOLEAN
    /\ MaxSchema \in Nat \ {0}
    /\ MaxChanges \in Nat

VARIABLES
    log,        \* the source: the message written or edited by each change
    proc,       \* the process that runs, its step and its schema
    poller,     \* the poller: step and change
    reader,     \* the reader: step, what it was asked and what it has seen
    ready,      \* has this process found all provenance complete?
    spoiled,    \* has a read committed the poller's unfinished transaction?
    kept        \* has a start taken an index with cached vectors for empty?

history == <<spoiled, kept>>
vars == <<connection, log, proc, poller, reader, ready, history>>

Changes == 1 .. MaxChanges
Dialogs == {DialogOf[u] : u \in Units}
NoText == [p \in Changes |-> 0]

\* Values of the schema sentinel that are no version.
Missing == 0
WipeInProgress == -1

\* doc, bound: dialogs with a document, with an active binding.  fp: message ->
\* change on record.  chunk, from: changes with a chunk row, with its provenance.
\* part, cache: the schema under which the vector of a text was made, or 0, among
\* the vector components and in the embedding cache.  note: the rows of the note.
\* print: the schema under which the note got its fingerprint, or 0.
Older(note, sentinel) ==
    [doc |-> {}, bound |-> {}, fp |-> [u \in Units |-> 0], chunk |-> {}, from |-> {},
     cursor |-> 0, part |-> NoText, cache |-> NoText,
     note |-> note, print |-> IF note = {} THEN 0 ELSE 1, sentinel |-> sentinel]

Down == [kind |-> "down", step |-> "down", schema |-> 1]
AtRest == [step |-> "idle", change |-> 0]
Silent == [step |-> "idle", unit |-> NoUnit, older |-> {}]

\* An index that an earlier release may have left: before provenance, or before
\* documents, were recorded.
Init ==
    /\ \E note \in {{}, {"chunk"}},
          sentinel \in {Missing, 1} : Opened(Older(note, sentinel))
    /\ log = <<>>
    /\ proc = Down
    /\ poller = AtRest
    /\ reader = Silent
    /\ ready = FALSE
    /\ spoiled = FALSE /\ kept = FALSE

Serving == proc.kind = "server" /\ proc.step = "ready"

\* A message is written or edited.
Publish(u) ==
    /\ Len(log) < MaxChanges
    /\ log' = Append(log, u)
    /\ UNCHANGED <<connection, proc, poller, reader, ready, history>>

-----------------------------------------------------------------------------
(* The start of a process                                                  *)

\* The code is never replaced by an older release.
Start(kind, v, repair) ==
    /\ proc.kind = "down" /\ v >= proc.schema
    /\ proc' = [kind |-> kind, step |-> IF repair THEN "check" ELSE "ready",
                schema |-> v]
    /\ ready' = FALSE
    /\ UNCHANGED <<connection, log, poller, reader, history>>

Step(from, to) == proc.step = from /\ proc' = [proc EXCEPT !.step = to]

CheckSentinel(marker) ==
    LET current == db.sentinel = proc.schema
        empty == db.sentinel = Missing /\ db.print = 0 /\ db.part = NoText
    IN /\ Step("check", IF current \/ empty THEN "ready" ELSE "clear cache")
       /\ IF current THEN UNCHANGED connection
          ELSE Execute([db EXCEPT !.sentinel = IF empty THEN proc.schema ELSE marker])
       /\ kept' = (kept \/ (~current /\ empty /\ db.cache # NoText))
       /\ UNCHANGED <<log, poller, reader, ready, spoiled>>

\* Mutant: the sentinel is written before the wipe.
CheckSchemaVersionAndSet == CheckSentinel(proc.schema)

\* An index of unknown version without fingerprints and vectors is taken for new;
\* any other that is not current is marked and wiped.
CheckSchemaVersion == CheckSentinel(WipeInProgress)

WipeStep(from, to, d) ==
    /\ Step(from, to)
    /\ Execute(d)
    /\ UNCHANGED <<log, poller, reader, ready, history>>

\* Every step commits by itself, so that a process that dies leaves the marker.
Wipe ==
    \/ WipeStep("clear cache", "clear parts", [db EXCEPT !.cache = NoText])
    \/ WipeStep("clear parts", "clear prints", [db EXCEPT !.part = NoText])
    \/ WipeStep("clear prints", "set sentinel", [db EXCEPT !.print = 0])
    \/ WipeStep("set sentinel", "ready", [db EXCEPT !.sentinel = proc.schema])

Died ==
    /\ proc' = [Down EXCEPT !.schema = proc.schema]
    /\ poller' = AtRest /\ reader' = Silent /\ ready' = FALSE

\* The process dies or is stopped.
Exit ==
    /\ proc.kind # "down"
    /\ Died
    /\ Reopened
    /\ UNCHANGED <<log, history>>

-----------------------------------------------------------------------------
(* Commands                                                                *)

ChunksPurged(d) ==
    [d EXCEPT !.doc = {}, !.bound = {}, !.chunk = @ \ d.from, !.from = {},
              !.part = [p \in Changes |-> IF p \in d.from THEN 0 ELSE @[p]]]
Unseen == [u \in Units |-> 0]

\* Mutants: fingerprints, or the checkpoint, outlive the chunks.
PurgedButFingerprints(d) == [ChunksPurged(d) EXCEPT !.cursor = 0]
PurgedButCheckpoint(d) == [ChunksPurged(d) EXCEPT !.fp = Unseen]

\* The chunks that have provenance, and all that keeps the provider from sending
\* their messages again.
Purged(d) == [ChunksPurged(d) EXCEPT !.fp = Unseen, !.cursor = 0]

PurgeApplicationSource == ~tx /\ Execute(Purged(db))

\* telegram reset-index is a process of its own, which SQLite makes wait for the
\* poller's transaction.
ResetIndex ==
    /\ proc.step = "ready"
    /\ \/ proc.kind = "reset" /\ Died
       \/ /\ ResetBesideServer /\ proc.kind = "server"
          /\ UNCHANGED <<proc, poller, reader, ready>>
    /\ PurgeApplicationSource
    /\ UNCHANGED <<log, history>>

\* The note is new, or its fingerprint is gone.
IndexNote ==
    /\ db.print = 0 /\ ~tx
    /\ Execute([db EXCEPT !.note = {"chunk", "from", "doc"}, !.print = proc.schema])
    /\ IF Serving THEN UNCHANGED <<proc, poller, reader, ready>>
       ELSE proc.step = "index" /\ Died
    /\ UNCHANGED <<log, history>>

\* index --force: the vectors, the sentinel and the fingerprints are dropped before
\* the notes are indexed again.
ForceStep(from, to, d) == proc.kind = "force" /\ WipeStep(from, to, d)
DropVectors ==
    \/ ForceStep("ready", "drop sentinel", [db EXCEPT !.part = NoText])
    \/ ForceStep("drop sentinel", "drop prints", [db EXCEPT !.sentinel = Missing])
FullIndex == DropVectors \/ ForceStep("drop prints", "index", [db EXCEPT !.print = 0])

-----------------------------------------------------------------------------
(* The poller                                                              *)

Superseded(p) == \E q \in p + 1 .. Len(log) : log[q] = log[p]
Feed(from) == {p \in from + 1 .. Len(log) : ~Superseded(p)}
Unit == log[poller.change]
Dialog == DialogOf[Unit]

PollerAt(step) == Serving /\ poller.step = step
PollerTo(step) == poller' = [poller EXCEPT !.step = step]
OfPoller == UNCHANGED <<log, proc, reader, ready, history>>

\* One worker runs searches and batches, one at a time.
Searching == reader.step \in {"count", "fill", "recount", "refs", "documents", "hydrate"}

Checkpoint == db.cursor
OnRecord(p) == db.fp[log[p]] = p

\* The next change; one that is on record needs no vector.
Export ==
    /\ PollerAt("idle") /\ ~Searching
    /\ \E p \in Feed(Checkpoint) :
        /\ \A q \in Feed(Checkpoint) : p <= q
        /\ poller' = [step |-> IF OnRecord(p) THEN "begin" ELSE "embed", change |-> p]
    /\ UNCHANGED connection
    /\ OfPoller

\* The chunk of the change: its id is made of the unit and its fingerprint.
NewChunk == poller.change

\* The vector is found in the cache, or made and remembered there.
Embed ==
    /\ PollerAt("embed")
    /\ Execute([db EXCEPT !.cache[NewChunk] = IF @ # 0 THEN @ ELSE proc.schema])
    /\ PollerTo("begin")
    /\ OfPoller

BeginBatch ==
    /\ PollerAt("begin")
    /\ IF tx THEN UNCHANGED connection /\ poller' = AtRest
       ELSE Begin /\ PollerTo("document")
    /\ OfPoller

Write(step, d, next) == PollerAt(step) /\ Execute(d) /\ PollerTo(next) /\ OfPoller

UpsertDocument ==
    Write("document", [db EXCEPT !.doc = @ \cup {Dialog}], "binding")
UpsertBinding ==
    Write("binding", [db EXCEPT !.bound = @ \cup {Dialog}], "fingerprint")
UpsertFingerprint ==
    Write("fingerprint", [db EXCEPT !.fp[Unit] = poller.change],
          IF OnRecord(poller.change) THEN "checkpoint" ELSE "old chunks")

\* The chunk rows of the message, as far as their provenance names them.
DropOldChunks ==
    LET old == {p \in db.from : log[p] = Unit}
    IN Write("old chunks",
             [db EXCEPT !.from = @ \ old, !.chunk = @ \ old,
                        !.part = [p \in Changes |-> IF p \in old THEN 0 ELSE @[p]]],
             "chunk")

InsertChunk ==
    Write("chunk", [db EXCEPT !.chunk = @ \cup {NewChunk}], "provenance")
AddProvenance ==
    Write("provenance", [db EXCEPT !.from = @ \cup {NewChunk}], "vector")
StoreVector ==
    Write("vector", [db EXCEPT !.part[NewChunk] = db.cache[NewChunk]], "checkpoint")
WriteCheckpoint ==
    Write("checkpoint", [db EXCEPT !.cursor = poller.change], "commit")

CommitBatch ==
    /\ PollerAt("commit")
    /\ IF tx THEN Commit ELSE UNCHANGED connection
    /\ poller' = AtRest
    /\ OfPoller

InTry == {"document", "binding", "fingerprint", "old chunks", "chunk", "provenance",
          "vector", "checkpoint", "commit"}

\* A statement fails; without a transaction the handler's ROLLBACK fails too.
Fail ==
    /\ Serving /\ poller.step \in InTry
    /\ IF tx THEN Rollback ELSE UNCHANGED connection
    /\ poller' = AtRest
    /\ UNCHANGED <<log, proc, reader, ready, history>>

Poller ==
    \/ Export \/ Embed \/ BeginBatch \/ UpsertDocument \/ UpsertBinding
    \/ UpsertFingerprint \/ DropOldChunks \/ InsertChunk \/ AddProvenance
    \/ StoreVector \/ WriteCheckpoint \/ CommitBatch

-----------------------------------------------------------------------------
(* Readers                                                                 *)

ReaderAt(step) == Serving /\ reader.step = step
ReaderTo(step) == reader' = [reader EXCEPT !.step = step]

\* It answers or raises.
End == reader' = Silent

Here == DialogOf[reader.unit]

Known(d) == d \in db.doc
Active(d) == d \in db.bound

\* Mutant: every chunk of the dialog.
ChunksOfDialog(u) == {p \in db.chunk \cap db.from : DialogOf[log[p]] = DialogOf[u]}

\* get_chunks_by_source_unit_ref.
ChunksOnRecord(u) == {p \in db.chunk \cap db.from : log[p] = u}

OfReader == UNCHANGED <<log, proc, poller, kept>>
Looks == UNCHANGED <<connection, ready, spoiled>> /\ OfReader

\* ensure_chunk_source_provenance_table ends with commit(), whoever began.
Ensure == CommitAny /\ spoiled' = (spoiled \/ tx)

\* A read or a drill, in a thread of its own.
Ask(u) ==
    /\ ReaderAt("idle")
    /\ reader' = [step |-> "document", unit |-> u,
                  older |-> {p \in durable.chunk \cap durable.from : log[p] = u}]
    /\ Looks

\* _resolve_telegram_read_path: a dialog without a document is left to the
\* provider, one with an inactive binding is refused.
ResolveDocument ==
    /\ ReaderAt("document")
    /\ IF Known(Here) THEN ReaderTo("binding") ELSE End
    /\ Looks
ResolveBinding ==
    /\ ReaderAt("binding")
    /\ IF Active(Here) THEN ReaderTo("active") ELSE End
    /\ Looks

\* _require_active_telegram_message_ref asks for both again.
RequireActive ==
    /\ ReaderAt("active")
    /\ IF Active(Here) /\ Known(Here) THEN ReaderTo("ensure") ELSE End
    /\ Looks

\* A drill of an active dialog asks the provider, and does without it when it fails.
Drill ==
    /\ ReaderAt("active")
    /\ Active(Here) /\ Known(Here)
    /\ End
    /\ Looks

EnsureProvenance ==
    /\ ReaderAt("ensure")
    /\ Ensure
    /\ ReaderTo("chunks")
    /\ UNCHANGED ready
    /\ OfReader

\* The chunks of the dialog that name the message; without one it is unknown.
ReadChunks ==
    /\ ReaderAt("chunks")
    /\ End
    /\ Looks

-----------------------------------------------------------------------------
(* Searches                                                                *)

NoteIncomplete == "chunk" \in db.note /\ "from" \notin db.note
ProvenanceMissing == db.chunk \ db.from # {} \/ NoteIncomplete
DocumentMissing == "from" \in db.note /\ "doc" \notin db.note

StartSearch ==
    /\ ReaderAt("idle") /\ poller.step = "idle"
    /\ reader' = [Silent EXCEPT !.step = IF ready THEN "hydrate" ELSE "count"]
    /\ Looks

CountIs(missing, found, none) ==
    /\ Ensure
    /\ IF missing THEN found ELSE none
    /\ OfReader

\* _ensure_source_provenance_ready: provenance of a note is made from its holder
\* rows; a chunk that still has none fails the search.
CountMissing ==
    /\ ReaderAt("count")
    /\ CountIs(ProvenanceMissing, ReaderTo("fill"), ReaderTo("refs"))
    /\ UNCHANGED ready
FillProvenance ==
    /\ ReaderAt("fill")
    /\ Execute([db EXCEPT !.note = IF NoteIncomplete THEN @ \cup {"from"} ELSE @])
    /\ ReaderTo("recount")
    /\ UNCHANGED <<ready, spoiled>>
    /\ OfReader
RecountMissing ==
    /\ ReaderAt("recount")
    /\ CountIs(ProvenanceMissing, End, ReaderTo("refs"))
    /\ UNCHANGED ready

\* Mutant: the check is remembered before its second half.
FindDocumentsAndRemember ==
    /\ ReaderAt("refs")
    /\ ready' = TRUE
    /\ CountIs(DocumentMissing, ReaderTo("documents"), ReaderTo("hydrate"))

\* A note without a document gets one, and a binding, when its file is there;
\* then the check is not done again by this process.
FindDocuments ==
    /\ ReaderAt("refs")
    /\ ready' = ~DocumentMissing
    /\ CountIs(DocumentMissing, ReaderTo("documents"), ReaderTo("hydrate"))

\* Its BEGIN fails when the indexer, in another thread, has a transaction open.
FillDocuments ==
    /\ ReaderAt("documents")
    /\ \/ End /\ UNCHANGED <<connection, ready>>
       \/ /\ Execute([db EXCEPT !.note = @ \cup {"doc"}])
          /\ ready' = TRUE
          /\ ReaderTo("hydrate")
    /\ UNCHANGED spoiled
    /\ OfReader

\* The provenance of what was found.
Hydrate ==
    /\ ReaderAt("hydrate")
    /\ Ensure
    /\ End
    /\ UNCHANGED ready
    /\ OfReader

Search ==
    \/ StartSearch \/ CountMissing \/ FillProvenance \/ RecountMissing
    \/ FindDocuments \/ FillDocuments \/ Hydrate

Reader ==
    \/ \E u \in Units : Ask(u)
    \/ ResolveDocument \/ ResolveBinding \/ RequireActive \/ Drill \/ EnsureProvenance
    \/ ReadChunks

-----------------------------------------------------------------------------
Starting ==
    \/ \E kind \in {"server", "reset", "force"}, v \in 1 .. MaxSchema,
          repair \in BOOLEAN : Start(kind, v, repair)
    \/ CheckSchemaVersion
    \/ Wipe
Command == ResetIndex \/ IndexNote \/ FullIndex

Next ==
    \/ \E u \in Units : Publish(u)
    \/ Starting \/ Command \/ Exit
    \/ Poller \/ Fail
    \/ Reader \/ Search

Spec == Init /\ [][Next]_vars
-----------------------------------------------------------------------------
\* The tables, as read and as durable, name only dialogs, changes and schemas
\* there are; a transaction of the poller is of a change there was.
TypeOK ==
    /\ \A d \in {db, durable} :
        /\ d.doc \cup d.bound \subseteq Dialogs
        /\ d.fp \in [Units -> 0 .. Len(log)]
        /\ d.chunk \cup d.from \subseteq DOMAIN log /\ d.cursor \in 0 .. Len(log)
        /\ {d.part, d.cache} \subseteq [Changes -> 0 .. MaxSchema]
        /\ d.note \subseteq {"chunk", "from", "doc"}
        /\ d.print \in 0 .. MaxSchema /\ d.sentinel \in WipeInProgress .. MaxSchema
    /\ log \in Seq(Units) /\ Len(log) <= MaxChanges
    /\ proc.kind \in {"down", "server", "reset", "force"} /\ proc.schema \in 1 .. MaxSchema
    /\ poller.change \in 0 .. Len(log) /\ (poller.step = "idle" <=> poller.change = 0)
    /\ reader.unit \in Units \cup {NoUnit} /\ reader.older \subseteq DOMAIN log
    /\ tx => Serving /\ poller.step \in InTry
    /\ {ready, spoiled, kept} \subseteq BOOLEAN

\* A message on record can be read: its dialog is known and bound, and there
\* is the chunk of its last recorded change, alone, with its
\* provenance.  Whatever crashed, failed or was reset, as long as no reader has
\* committed half a batch.
OnRecordIsReadable ==
    ~spoiled =>
        \A u \in Units : durable.fp[u] # 0 =>
            /\ DialogOf[u] \in durable.doc /\ DialogOf[u] \in durable.bound
            /\ {p \in durable.chunk : log[p] = u} = {durable.fp[u]}
            /\ durable.chunk \subseteq durable.from

\* A local read answers with one text of the message it was asked for, none of
\* another message, and none older than what was on record when it was asked:
\* though it sees the poller's unfinished batch.
ReadsOneVersion ==
    reader.step = "chunks" =>
        \A p, q \in ChunksOnRecord(reader.unit) :
            /\ p = q
            /\ log[p] = reader.unit
            /\ \A o \in reader.older : o <= p

\* When the start has checked the schema, the vectors and fingerprints are of the
\* schema of the process, however often an earlier wipe was cut short.
RepairedIsCurrent ==
    [][ proc.step \in {"check", "set sentinel"} /\ proc'.step = "ready" /\ ~kept' =>
          /\ \A p \in Changes : {db'.part[p], db'.cache[p]} \subseteq {0, proc.schema}
          /\ db'.print \in {0, proc.schema} ]_vars

\* A search that does not check again hides no note on disk for want of its
\* provenance or document.
ReadyIsComplete ==
    ready => ~NoteIncomplete /\ ~DocumentMissing

\* What the checkpoint has passed has its chunk: the provider will not send it
\* again, not even after a reset.
PassedIsReadable ==
    ~spoiled =>
        \A p \in DOMAIN log :
            p <= durable.cursor /\ ~Superseded(p) =>
                p \in durable.chunk \cap durable.from
=============================================================================
