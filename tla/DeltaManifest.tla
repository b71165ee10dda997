--------------------------- MODULE DeltaManifest ---------------------------
(***************************************************************************)
(* The data of the Surreal delta sync: rows of the retrieval store, the    *)
(* manifests that change them and the order a manifest is applied in.      *)
(* A row stands for one record id (table, ref); a manifest for one         *)
(* SurrealDeltaManifest: the refs it tombstones, the rows it upserts and   *)
(* the cursor of its checkpoint candidate.                                 *)
(* Source: backend/src/dotmd/ingestion/surreal_delta_sync.py.              *)
(***************************************************************************)
EXTENDS Integers, FiniteSets

CONSTANTS
    Rows,           \* record ids of the retrieval store
    Payloads,       \* row contents
    NoRow,          \* the value of an absent record
    Cursors,        \* checkpoint cursors
    NoCursor,       \* no checkpoint written yet
    SectionOf,      \* the manifest section of each row
    Rank,           \* position of a row in the order (table, ref)
    FileNodes,      \* graph rows of table "files"
    Relations,      \* graph rows of table "relations"
    Frontmatter,    \* relations of type HAS_TAG or HAS_PARTICIPANT
    SourceFile,     \* source_id of a frontmatter relation
    Manifests,      \* the manifests callers build
    NoManifest

\* Mutant of PhaseNo: embeddings are written before chunks.
EmbeddingsFirst ==
    [ documents |-> 2, source_units |-> 3, chunks |-> 9,
      chunk_file_bindings |-> 5, provenance |-> 6, resource_bindings |-> 7,
      fingerprints |-> 8, embeddings |-> 4, vector_components |-> 10,
      graph |-> 11, feedback |-> 12 ]

\* Position of each section in the list _manifest_units walks; 1 is the
\* tombstone phase and 13 the checkpoint candidate.
PhaseNo ==
    [ documents |-> 2, source_units |-> 3, chunks |-> 4,
      chunk_file_bindings |-> 5, provenance |-> 6, resource_bindings |-> 7,
      fingerprints |-> 8, embeddings |-> 9, vector_components |-> 10,
      graph |-> 11, feedback |-> 12 ]

Sections == DOMAIN PhaseNo
TombstonePhase == 1
GraphPhase == 11
CheckpointPhase == 13
Phases == 1..13

PhaseOf(r) == PhaseNo[SectionOf[r]]

ASSUME RowsAssumption ==
    /\ SectionOf \in [Rows -> {"documents", "source_units", "chunks",
             "chunk_file_bindings", "provenance", "resource_bindings",
             "fingerprints", "embeddings", "vector_components", "graph",
             "feedback"}]
    /\ Rank \in [Rows -> Int]
    /\ \A r, s \in Rows : Rank[r] = Rank[s] => r = s
    /\ NoRow \notin Payloads
    /\ NoCursor \notin Cursors

ASSUME GraphAssumption ==
    /\ FileNodes \subseteq Rows
    /\ Relations \subseteq Rows
    /\ Frontmatter \subseteq Relations
    /\ SourceFile \in [Frontmatter -> FileNodes]
    /\ FileNodes \cap Relations = {}
    /\ \A r \in FileNodes \cup Relations : SectionOf[r] = "graph"
    /\ \A r \in FileNodes, s \in Relations : Rank[r] < Rank[s]

\* A validated manifest changes at least one row.
ASSUME ManifestAssumption ==
    /\ NoManifest \notin Manifests
    /\ \A m \in Manifests :
          /\ m.tombs \subseteq Rows
          /\ DOMAIN m.puts \subseteq Rows
          /\ IsFiniteSet(DOMAIN m.puts)
          /\ \A r \in DOMAIN m.puts : m.puts[r] \in Payloads
          /\ m.tombs \cup DOMAIN m.puts # {}
          /\ m.cursor \in Cursors

-----------------------------------------------------------------------------
\* The rows of phase p (_manifest_units); the checkpoint phase has none.
PhaseRows(m, p) ==
    IF p = TombstonePhase THEN m.tombs
    ELSE {r \in DOMAIN m.puts : PhaseOf(r) = p}

\* The file a graph row makes write_graph rewrite the frontmatter of.
FilesTouchedBy(R) ==
    (R \cap FileNodes) \cup {SourceFile[r] : r \in R \cap Frontmatter}

GraphRows(m) == PhaseRows(m, GraphPhase)

\* Every row a manifest may change: what it names, and the frontmatter
\* relations of the files its graph section rewrites.
Scope(m) ==
    m.tombs \cup DOMAIN m.puts
        \cup {r \in Frontmatter : SourceFile[r] \in FilesTouchedBy(GraphRows(m))}

\* The rows of phase p are as m wants them; a row m puts as well is that
\* phase's.
PhaseApplied(m, p, st) ==
    \A r \in PhaseRows(m, p) :
        IF p = TombstonePhase THEN r \in DOMAIN m.puts \/ st[r] = NoRow
        ELSE st[r] = m.puts[r]

\* Everything m asks for is in the store, but for the phases in P.
AppliedBut(P, m, st) == \A p \in Phases \ P : PhaseApplied(m, p, st)
=============================================================================
