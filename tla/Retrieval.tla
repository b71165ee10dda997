------------------------------ MODULE Retrieval ------------------------------
(***************************************************************************)
(* The local engines of the search service as functions of what they read  *)
(* of the SurrealDB store: HNSW vectors, full text, entity relations; the  *)
(* reciprocal rank fusion of their lists, the blend with the reranker's    *)
(* scores, and the merge with the candidates of federated sources.         *)
(*                                                                         *)
(* A chunk is a number, since engines break ties by chunk id.  Scores are  *)
(* integers, 0 for no match; fused scores are fixed-point, Scale for 1.0.  *)
(***************************************************************************)
EXTENDS Integers, Sequences, FiniteSets, FiniteSetsExt, SequencesExt, TLC

CONSTANTS
    Chunks,         \* chunk ids
    Foreign,        \* the chunks of another chunk strategy, in the same tables
    Similarity,     \* chunk -> cosine similarity of its vector and the query
    TitleScore,     \* chunk -> full-text score of its title
    TextScore,      \* chunk -> full-text score of its text
    Weight,         \* chunk -> weight of its relations to the entities named
    RerankScore,    \* chunk -> score of the cross-encoder, penalty included
    RerankFloor,    \* lowest cross-encoder score that is kept
    ScoreFloor,     \* percent of the best similarity that is kept
    Shards,         \* number of embedding tables
    ShardOf,        \* chunk -> the embedding table of its vector
    ShardCap,       \* _MAX_HNSW_RESULTS_PER_SHARD
    TitleBoost, TextBoost,
    Multiplier,     \* _RELATION_CANDIDATE_MULTIPLIER
    FusionK,        \* the constant of reciprocal rank fusion
    Scale

ASSUME RetrievalAssumption ==
    /\ Chunks \subseteq Nat /\ IsFiniteSet(Chunks) /\ Foreign \subseteq Chunks
    /\ \A score \in {Similarity, TitleScore, TextScore, Weight, RerankScore} :
           score \in [Chunks -> Nat]
    /\ {Shards, ShardCap, TitleBoost, TextBoost, Multiplier, FusionK, Scale} \subseteq Nat \ {0}
    /\ ShardOf \in [Chunks -> 1 .. Shards] /\ ScoreFloor \in 0 .. 100 /\ RerankFloor \in Nat

\* The slice s[:k] of Python, where a negative k counts from the end.
Slice(s, k) == SubSeq(s, 1, IF k >= 0 THEN Min({k, Len(s)}) ELSE Max({0, Len(s) + k}))

\* The one element of a singleton {e(x) : x \in {f}}: e(f), of which f is
\* evaluated once.
The(T) == CHOOSE x \in T : TRUE

\* A finite set in the order of a relation, given by its pairs; what a filter
\* that lets the elements of S through keeps of a list.  Both say which element
\* comes n-th, so that one can reason about them.
Rank(S, R, c) == Cardinality({d \in S : <<d, c>> \in R}) + 1
Listing(S, R) == [n \in 1 .. Cardinality(S) |-> CHOOSE c \in S : Rank(S, R, c) = n]
Ordered(S, R) == The({Listing(T, Q) : T \in {S}, Q \in {R}})
Smaller(P) == {p \in P \X P : p[1] < p[2]}
Picked(s, places) == [n \in DOMAIN places |-> s[places[n]]]
Kept(s, S) ==
    The({Picked(t, Ordered({i \in DOMAIN t : t[i] \in T}, Smaller(DOMAIN t))) : t \in {s}, T \in {S}})

\* The chunks of a set, by descending score, ties by chunk id; the k best.
Outranks(score, c, d) == score[c] > score[d] \/ (score[c] = score[d] /\ c < d)
Above(score, S) == {p \in S \X S : Outranks(score, p[1], p[2])}
Ranked(score, S) == The({Ordered(T, Above(v, T)) : v \in {score}, T \in {S}})
Best(score, S, k) == {c \in S : Cardinality({d \in S : Outranks(score, d, c)}) < k}

----------------------------------------------------------------------------
\* Vector search: the nearest rows of each table, whatever their strategy; the
\* strategy is compared afterwards.
Nearest(st, table, k) ==
    Best(Similarity, {c \in st.embeddings : ShardOf[c] = table}, Min({k, ShardCap}))
Similar(top) == {c \in Chunks : 100 * Similarity[c] >= ScoreFloor * Similarity[Head(top)]}
Semantic(st, k) ==
    LET rows == UNION {Nearest(st, t, k) : t \in 1 .. Shards}
    IN The({Kept(top, Similar(top)) : top \in {Slice(Ranked(Similarity, rows \ Foreign), k)}})

\* Full text: title and text are separate queries of k rows each.
Matching(st, score, k) == Best(score, {c \in st.chunks \ Foreign : score[c] > 0}, k)
Boosted(titles, texts) ==
    [c \in titles \cup texts |->
        (IF c \in titles THEN TitleBoost * TitleScore[c] ELSE 0)
      + (IF c \in texts THEN TextBoost * TextScore[c] ELSE 0)]
Keyword(st, k) ==
    The({Slice(Ranked(Boosted(titles, texts), titles \cup texts), k) :
            titles \in {Matching(st, TitleScore, k)}, texts \in {Matching(st, TextScore, k)}})

\* Relations outlive their chunk: the sections are looked up among the chunks.
GraphDirect(st, k) ==
    LET sections == Slice(Ranked(Weight, {c \in Chunks : Weight[c] > 0}), Max({k, k * Multiplier}))
    IN Slice(Kept(sections, st.chunks \ Foreign), k)

----------------------------------------------------------------------------
Position(s, c) == Min({i \in DOMAIN s : s[i] = c})
\* The chunks of s by descending value, ties in the order of s.
Leads(s, value) ==
    {p \in ToSet(s) \X ToSet(s) :
        \/ value[p[1]] > value[p[2]]
        \/ value[p[1]] = value[p[2]] /\ Position(s, p[1]) < Position(s, p[2])}
Sorted(s, value) == The({Ordered(ToSet(t), Leads(t, v)) : t \in {s}, v \in {value}})

\* fuse_results: the sum of the reciprocal ranks in the lists of the three
\* engines; ties stay in the order in which they first named the chunks.
Named(lists) == lists[1] \o lists[2] \o lists[3]
Share(list, c) == IF c \in ToSet(list) THEN Scale \div (FusionK + Position(list, c)) ELSE 0
FusedScore(lists) ==
    [c \in ToSet(Named(lists)) |-> Share(lists[1], c) + Share(lists[2], c) + Share(lists[3], c)]
Fused(lists, score) == Sorted(Named(lists), score)

\* The cross-encoder scores the chunks whose text it can load.
Reranked(st, ids) ==
    Sorted(Kept(ids, {c \in st.chunks : RerankScore[c] >= RerankFloor}), RerankScore)

\* Both scores are normalised over the reranked chunks, 0.4 and 0.6 of each;
\* the other chunks keep their raw fused score.
Span(S) == IF Max(S) > Min(S) THEN Max(S) - Min(S) ELSE 1
BlendedScoreEven(score, scored) ==
    LET ff == {score[c] : c \in scored}
        rr == {RerankScore[c] : c \in scored}
    IN [c \in DOMAIN score |->
           Scale * (IF c \in scored
                    THEN 4 * (score[c] - Min(ff)) * Span(rr) + 6 * (RerankScore[c] - Min(rr)) * Span(ff)
                    ELSE 10 * (score[c] - Min(ff)) * Span(rr))]
BlendedScore(score, scored) ==
    LET ff == {score[c] : c \in scored}
        rr == {RerankScore[c] : c \in scored}
    IN [c \in DOMAIN score |->
           IF c \in scored
           THEN Scale * (4 * (score[c] - Min(ff)) * Span(rr) + 6 * (RerankScore[c] - Min(rr)) * Span(ff))
           ELSE 10 * Span(ff) * Span(rr) * score[c]]
Blended(fused, score, reranked) ==
    IF reranked = <<>> THEN fused
    ELSE Sorted(reranked \o Kept(fused, ToSet(fused) \ ToSet(reranked)),
                BlendedScore(score, ToSet(reranked)))

----------------------------------------------------------------------------
\* Federated hits have no score to sort by: places are reserved for them, as
\* many as there are hits worth showing.
MergeFixed(local, federated, lowSignal, k, quota) ==
    Slice(local, k - quota)
        \o Slice(Kept(federated, ToSet(federated) \ lowSignal), quota)
Merge(local, federated, lowSignal, k, quota) ==
    LET worth == Kept(federated, ToSet(federated) \ lowSignal)
        slots == Min({quota, Len(worth)})
    IN Slice(local, k - slots) \o Slice(worth, slots)
=============================================================================
