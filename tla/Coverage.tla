-------------------------------- MODULE Coverage --------------------------------
(***************************************************************************)
(* Whether every chunk of the retrieval store has its provenance and its   *)
(* embedding: the completeness audit asks, query by query, exactly or by   *)
(* samples, while writers add and drop chunks table by table; the backfill *)
(* embeds the chunks the audit named; the shard runner copies the          *)
(* embeddings to the shard tables that a sharded search reads.             *)
(***************************************************************************)
EXTENDS Integers, Sequences, FiniteSets, SequencesExt, FiniteSetsExt

CONSTANTS
    Chunks,
    Blank,          \* chunks without a text to embed
    Docs,
    Models,         \* embedding models rows are there of
    Live,           \* the one that is configured
    ShardOf,        \* the shard table an embedding <<chunk, model>> belongs to
    Initial,        \* the rows there may be at first, and whether shards are configured
    Limit,          \* rows the audit looks at, or lists (20)
    MaxChanges,     \* manifests that add or drop a chunk
    MaxToolFaults   \* writers, backfills and copies that fail half way

\* Rows by table.
chunk(c) == <<"chunks", c>>
embedding(c, m) == <<"embeddings", c, m>>
provenance(c, d) == <<"provenance", c, d>>
StoreRows ==
    {chunk(c) : c \in Chunks} \cup {embedding(c, m) : c \in Chunks, m \in Models}
        \cup {provenance(c, d) : c \in Chunks, d \in Docs}
In(t, s) == {r \in s : r[1] = t}
Named(s) == {r[2] : r \in s}
ShardTables == Range(ShardOf)

ASSUME CoverageAssumption ==
    /\ Blank \subseteq Chunks /\ Live \in Models /\ Initial \subseteq [rows : SUBSET StoreRows, sharded : BOOLEAN]
    /\ DOMAIN ShardOf = Chunks \X Models
    /\ Limit \in Nat \ {0} /\ MaxChanges \in Nat /\ MaxToolFaults \in Nat

VARIABLES
    sharded,    \* the search, and so the audit, goes by the shard tables (a setting)
    db,         \* the rows of chunks, embeddings and provenance
    shards,     \* shard table that is defined -> embeddings there
    writer,     \* what is left of the manifest at work: a sequence of table batches
    audit,      \* the audit
    fill,       \* the backfill
    copy,       \* the copy to the shard tables
    remaining,  \* changes and faults that may still occur
    touched     \* history: chunks written since the last tool was started
rowVars == <<sharded, db, shards, writer, audit, fill, copy, remaining, touched>>

NoAudit == [pc |-> "idle", mode |-> "exact", seen |-> {}, unproven |-> {}, bare |-> {},
            orphans |-> {}, status |-> "none"]
NoFill == [pc |-> "idle", asked |-> {}, plan |-> {}, errors |-> {}, status |-> "none"]
NoCopy == [pc |-> "idle", todo |-> {}, rows |-> {}]

CoverageInit ==
    /\ \E i \in Initial : db = i.rows /\ sharded = i.sharded
    /\ shards = << >>
    /\ writer = <<>> /\ audit = NoAudit /\ fill = NoFill /\ copy = NoCopy
    /\ remaining = [changes |-> MaxChanges, faults |-> MaxToolFaults]
    /\ touched = {}

Failure == remaining.faults > 0 /\ remaining' = [remaining EXCEPT !.faults = @ - 1]

\* The operator uses one tool at a time.
Free == audit.pc = "idle" /\ fill.pc = "idle" /\ copy.pc = "idle"

----------------------------------------------------------------------------
\* A manifest adds a chunk with its documents or deletes what it has written of
\* one: batch after batch, in the order of the tables.
Batches(op, c, ds) ==
    <<[op |-> op, rows |-> {chunk(c)}],
      [op |-> op, rows |-> IF c \in Blank THEN {} ELSE {embedding(c, Live)}],
      [op |-> op, rows |-> {provenance(c, d) : d \in ds}]>>

BeginManifest(op, c, ds) ==
    /\ writer = <<>> /\ remaining.changes > 0
    /\ op = "drop" => chunk(c) \in db /\ ds = Docs
    /\ writer' = Batches(op, c, ds)
    /\ remaining' = [remaining EXCEPT !.changes = @ - 1]
    /\ UNCHANGED <<sharded, touched, db, shards, audit, fill, copy>>

WriteBatch ==
    /\ writer # <<>>
    /\ db' = IF Head(writer).op = "add" THEN db \cup Head(writer).rows ELSE db \ Head(writer).rows
    /\ writer' = Tail(writer)
    /\ touched' = touched \cup Named(Head(writer).rows)
    /\ UNCHANGED <<sharded, shards, audit, fill, copy, remaining>>

AbandonManifest == writer # <<>> /\ writer' = <<>> /\ Failure /\ UNCHANGED <<sharded, touched, db, shards, audit, fill, copy>>

----------------------------------------------------------------------------
\* The audit.  Each query is answered at one moment.
Embedded ==
    IF sharded THEN Named(UNION Range(shards))
               ELSE Named(In("embeddings", db))
Sample(s) == IF Cardinality(s) <= Limit THEN {s} ELSE kSubset(Limit, s)

BeginAudit(mode) ==
    /\ Free
    /\ audit' = [NoAudit EXCEPT !.pc = IF mode = "exact" THEN "unproven" ELSE "chunks", !.mode = mode]
    /\ fill' = NoFill /\ copy' = NoCopy /\ touched' = {}
    /\ UNCHANGED <<sharded, db, shards, writer, remaining>>

\* Chunks without provenance: all of them, of which a few are listed.
Unproven ==
    /\ audit.pc = "unproven" /\ audit.mode = "exact"
    /\ \E s \in Sample(Named(In("chunks", db)) \ Named(In("provenance", db))) :
          audit' = [audit EXCEPT !.pc = "bare", !.unproven = s]

\* Or: a few chunks, and as many rows of their provenance.
SampleChunks ==
    /\ audit.pc = "chunks"
    /\ \E s \in Sample(Named(In("chunks", db))) : audit' = [audit EXCEPT !.pc = "unproven", !.seen = s]
UnprovenInSample ==
    /\ audit.pc = "unproven" /\ audit.mode = "sample"
    /\ \E s \in Sample({r \in In("provenance", db) : r[2] \in audit.seen}) :
          audit' = [audit EXCEPT !.pc = "orphanProvenance", !.unproven = audit.seen \ Named(s)]

\* Chunks without an embedding of any model: exact only, and none when a table
\* that is asked does not exist.
Bare ==
    /\ audit.pc = "bare"
    /\ \E s \in IF sharded /\ DOMAIN shards # ShardTables THEN {{}} ELSE Sample(Named(In("chunks", db)) \ Embedded) :
          audit' = [audit EXCEPT !.pc = "orphanProvenance", !.bare = s]

\* Mutant of Orphans: the rows of the last query instead of all.
OrphansOfLast(pc, next, ids) ==
    /\ audit.pc = pc
    /\ IF audit.mode = "exact"
         THEN audit' = [audit EXCEPT !.pc = next, !.orphans = ids \ Named(In("chunks", db))]
         ELSE \E s \in Sample(ids) : audit' = [audit EXCEPT !.pc = pc \o " looked up", !.seen = s]

\* Rows of chunks that are not there; a sample is looked up in a second query.
Orphans(pc, next, ids) ==
    /\ audit.pc = pc
    /\ IF audit.mode = "exact"
         THEN audit' = [audit EXCEPT !.pc = next, !.orphans = @ \cup (ids \ Named(In("chunks", db)))]
         ELSE \E s \in Sample(ids) : audit' = [audit EXCEPT !.pc = pc \o " looked up", !.seen = s]
LookUp(pc, next) ==
    /\ audit.pc = pc \o " looked up" /\ audit.mode = "sample"
    /\ audit' = [audit EXCEPT !.pc = next, !.orphans = @ \cup (audit.seen \ Named(In("chunks", db)))]

EndAudit ==
    /\ audit.pc = "end"
    /\ audit' = [audit EXCEPT !.pc = "idle", !.seen = {}, !.unproven = {}, !.orphans = {},
                              !.status = IF audit.unproven \cup audit.bare \cup audit.orphans = {}
                                           THEN "ok" ELSE "needs_attention"]

AuditStep ==
    /\ \/ Unproven \/ SampleChunks \/ UnprovenInSample \/ Bare
       \/ Orphans("orphanProvenance", "orphanEmbeddings", Named(In("provenance", db)))
       \/ LookUp("orphanProvenance", "orphanEmbeddings")
       \/ Orphans("orphanEmbeddings", "end", Embedded)
       \/ LookUp("orphanEmbeddings", "end")
       \/ EndAudit
    /\ UNCHANGED <<sharded, touched, db, shards, writer, fill, copy, remaining>>

----------------------------------------------------------------------------
\* The backfill of the chunks the last audit listed (with --apply).
BeginFill ==
    /\ Free /\ audit.bare # {}
    /\ fill' = [NoFill EXCEPT !.pc = "fetch", !.asked = audit.bare]
    /\ audit' = NoAudit /\ copy' = NoCopy /\ touched' = {}
    /\ UNCHANGED <<sharded, db, shards, writer, remaining>>

\* A chunk is fetched, and its embedding of the live model.  Blank ones and those
\* that have gone are errors, which the others do not mind.
Fetch(c) ==
    /\ fill.pc = "fetch" /\ c \in fill.asked
    /\ fill' = [fill EXCEPT !.asked = @ \ {c},
                            !.errors = IF chunk(c) \notin db \/ c \in Blank THEN @ \cup {c} ELSE @,
                            !.plan = IF chunk(c) \notin db \/ c \in Blank \/ embedding(c, Live) \in db
                                       THEN @ ELSE @ \cup {c}]
    /\ UNCHANGED <<sharded, touched, db, shards, writer, audit, copy, remaining>>

\* What is written of the plan (nothing after an error, in the variant).
ToWriteIfClean(f) == IF f.errors = {} THEN f.plan ELSE {}
ToWrite(f) == f.plan

\* The vectors come in one call to the encoder, the rows are upserted one by one.
Encode ==
    /\ fill.pc = "fetch" /\ fill.asked = {}
    /\ fill' = [fill EXCEPT !.pc = "write", !.plan = ToWrite(fill)]
    /\ UNCHANGED <<sharded, touched, db, shards, writer, audit, copy, remaining>>
Upsert(c) ==
    /\ fill.pc = "write" /\ c \in fill.plan
    /\ db' = db \cup {embedding(c, Live)}
    /\ fill' = [fill EXCEPT !.plan = @ \ {c}]
    /\ UNCHANGED <<sharded, touched, shards, writer, audit, copy, remaining>>
EndFill ==
    /\ fill.pc = "write" /\ fill.plan = {}
    /\ fill' = [NoFill EXCEPT !.status = IF fill.errors = {} THEN "verified" ELSE "blocked"]
    /\ UNCHANGED <<sharded, touched, db, shards, writer, audit, copy, remaining>>
FailFill == fill.pc # "idle" /\ fill' = NoFill /\ Failure /\ UNCHANGED <<sharded, touched, db, shards, writer, audit, copy>>

----------------------------------------------------------------------------
\* The copy to the shard tables: they are removed (with --recreate-shards), then
\* defined, one by one, and filled from one read of the embeddings.
BeginCopy(recreate) ==
    /\ Free
    /\ copy' = [NoCopy EXCEPT !.pc = IF recreate THEN "remove" ELSE "define", !.todo = ShardTables]
    /\ audit' = NoAudit /\ fill' = NoFill /\ touched' = {}
    /\ UNCHANGED <<sharded, db, shards, writer, remaining>>

RemoveTable(t) ==
    /\ copy.pc = "remove" /\ t \in copy.todo
    /\ shards' = [u \in DOMAIN shards \ {t} |-> shards[u]]
    /\ copy' = IF copy.todo = {t} THEN [copy EXCEPT !.pc = "define", !.todo = ShardTables]
                                  ELSE [copy EXCEPT !.todo = @ \ {t}]
    /\ UNCHANGED <<sharded, touched, db, writer, audit, fill, remaining>>

\* Defining a table that is there is an error.
DefineTable(t) ==
    /\ copy.pc = "define" /\ t \in copy.todo
    /\ IF t \in DOMAIN shards
         THEN UNCHANGED shards /\ copy' = NoCopy
         ELSE /\ shards' = [u \in DOMAIN shards \cup {t} |-> IF u = t THEN {} ELSE shards[u]]
              /\ copy' = [copy EXCEPT !.todo = @ \ {t}]
    /\ UNCHANGED <<sharded, touched, db, writer, audit, fill, remaining>>

Scan ==
    /\ copy.pc = "define" /\ copy.todo = {}
    /\ copy' = [copy EXCEPT !.pc = "insert", !.rows = In("embeddings", db)]
    /\ UNCHANGED <<sharded, touched, db, shards, writer, audit, fill, remaining>>

\* A batch is one row; the tables were empty, so that no id is taken.
Insert ==
    /\ copy.pc = "insert"
    /\ \E r \in copy.rows :
          /\ shards' = [shards EXCEPT ![ShardOf[<<r[2], r[3]>>]] = @ \cup {r}]
          /\ copy' = [copy EXCEPT !.rows = @ \ {r}]
    /\ UNCHANGED <<sharded, touched, db, writer, audit, fill, remaining>>

\* The count that is compared in the end cannot differ then.
EndCopy ==
    /\ copy.pc = "insert" /\ copy.rows = {} /\ copy' = NoCopy
    /\ UNCHANGED <<sharded, touched, db, shards, writer, audit, fill, remaining>>

FailCopy == copy.pc # "idle" /\ copy' = NoCopy /\ Failure /\ UNCHANGED <<sharded, touched, db, shards, writer, audit, fill>>

----------------------------------------------------------------------------
FillStep == Encode \/ EndFill \/ \E c \in Chunks : Fetch(c) \/ Upsert(c)
CopyStep == Scan \/ Insert \/ EndCopy \/ \E t \in ShardTables : RemoveTable(t) \/ DefineTable(t)

CoverageNext ==
    \/ \E op \in {"add", "drop"}, c \in Chunks, ds \in (SUBSET Docs) \ {{}} : BeginManifest(op, c, ds)
    \/ WriteBatch \/ AbandonManifest
    \/ \E mode \in {"exact", "sample"} : BeginAudit(mode)
    \/ AuditStep
    \/ BeginFill \/ FillStep \/ FailFill
    \/ \E recreate \in BOOLEAN : BeginCopy(recreate)
    \/ CopyStep \/ FailCopy

\* An operator who ends what he begins, keeps auditing, exactly, keeps filling what
\* is listed and keeps copying to the shards.
CoverageFairness ==
    /\ SF_rowVars(BeginAudit("exact")) /\ WF_rowVars(AuditStep)
    /\ SF_rowVars(BeginFill) /\ WF_rowVars(FillStep)
    /\ SF_rowVars(BeginCopy(TRUE)) /\ WF_rowVars(CopyStep)
CoverageSpec == CoverageInit /\ [][CoverageNext]_rowVars
CoverageFairSpec == CoverageSpec /\ CoverageFairness

----------------------------------------------------------------------------
\* Shape of the state.
CoverageTypeOK ==
    /\ db \subseteq StoreRows /\ DOMAIN shards \subseteq ShardTables
    /\ audit.unproven \cup audit.bare \cup audit.orphans \subseteq Chunks
    /\ fill.asked \cup fill.plan \cup fill.errors \subseteq Chunks

\* What the audit asks of a chunk: provenance and an embedding where the search
\* looks if it is there, neither if it is not.
Whole(c) ==
    IF chunk(c) \in db THEN c \in Named(In("provenance", db)) /\ c \in Embedded
                       ELSE c \notin Named(In("provenance", db)) /\ c \notin Embedded

\* The exact audit asks four questions at four moments, and manifests are written
\* in between.  Of every chunk they have left alone it is right: after "ok" it is
\* whole, and what is listed for the backfill has no embedding; and an alarm means
\* something when nothing was written.  (A shard table that is missing shows as a
\* missing index, which is left out here.)
AuditIsTrue ==
    audit.mode = "exact" =>
        /\ audit.status = "ok" /\ (sharded => DOMAIN shards = ShardTables)
              => \A c \in Chunks \ touched : Whole(c)
        /\ audit.status = "needs_attention" /\ touched = {} => \E c \in Chunks : ~Whole(c)
        /\ \A c \in audit.bare \ touched : chunk(c) \in db /\ c \notin Embedded

\* When the copy ends, the shard tables hold what the embeddings table has of every
\* chunk that was left alone, each row where a sharded search looks for it, and
\* nothing from before.
CopyIsWhole ==
    copy.pc = "insert" /\ copy.rows = {} =>
        \A c \in Chunks \ touched, m \in Models, t \in ShardTables :
            embedding(c, m) \in shards[t] <=> embedding(c, m) \in db /\ t = ShardOf[<<c, m>>]

\* Audits, backfills and copies in turn bring every chunk that has a text where a
\* vector search looks for it, whatever manifests and failures come between,
\* blank chunks in every list and rows of another model
\* (devtools/surreal_embedding_backfill.py:283).
RepairConverges == []<>(\A c \in Chunks \ Blank : chunk(c) \in db => c \in Embedded)

\* Then the search finds them, by the live model.  Not so for a chunk with a row of
\* another model only: the audit takes any row (devtools/surreal_completeness_audit.py:776).
LiveConverges == []<>(\A c \in Chunks \ Blank : chunk(c) \in db => embedding(c, Live) \in db)

\* A sampled audit does not call a chunk without provenance that has it.  Not so
\* when chunks of the sample have several rows: the look-up is limited like the
\* sample (devtools/surreal_completeness_audit.py:763).
NoFalseAlarm ==
    (audit.mode = "sample" /\ audit.pc = "orphanProvenance" /\ remaining.changes = MaxChanges)
        => audit.unproven \cap Named(In("provenance", db)) = {}
=============================================================================
