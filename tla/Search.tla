------------------------------- MODULE Search -------------------------------
(***************************************************************************)
(* search_async: the local search of each request waits for the one worker *)
(* it shares with the Telegram poller, and reads the SurrealDB store a     *)
(* query at a time while the index goes on changing; federated sources     *)
(* are asked meanwhile, each in a thread of the default pool with a soft   *)
(* timeout that ends the wait and not the thread.                          *)
(***************************************************************************)
EXTENDS Retrieval

CONSTANTS
    Requests,
    TopKs, Reranks, Federations,    \* the arguments requests are made with
    OverfetchFactor, OverfetchSlack,\* of the candidate pool
    RerankPool,                     \* rerank_pool_size
    MaxTopK,                        \* the largest top_k of vector search
    Quota,                          \* federated_result_quota
    Sources,                        \* federated sources, in the order they are asked
    Hits,                           \* source -> what it finds, best first
    LowSignal,                      \* the hits that are not worth a place
    PoolThreads,                    \* threads of the default executor
    Start,                          \* the store when the service starts
    MaxWrites, MaxFaults, MaxPolls

ASSUME SearchAssumption ==
    /\ {OverfetchFactor, RerankPool, MaxTopK, PoolThreads} \subseteq Nat \ {0}
    /\ {OverfetchSlack, Quota, MaxWrites, MaxFaults, MaxPolls} \subseteq Nat
    /\ TopKs \subseteq Nat \ {0} /\ Reranks \subseteq BOOLEAN /\ Federations \subseteq BOOLEAN
    /\ {"none", "poll"} \cap Requests = {}
    /\ Start \in [{"chunks", "embeddings", "provenance", "active"} -> SUBSET Chunks]
    /\ Sources \in Seq(ToSet(Sources))
    /\ \A s \in ToSet(Sources) :
           /\ Hits[s] \in Seq(ToSet(Hits[s]))
           /\ \A hit \in ToSet(Hits[s]) : hit[1] # "local"

VARIABLES
    store,      \* SurrealDB: chunks, embeddings, provenance and active bindings
    cache,      \* what the engines keep: preconditions of vectors, entity catalog
    queue,      \* jobs that wait for the local worker
    worker,     \* the job on the local worker
    req,        \* request -> its progress
    call,       \* request -> source -> the thread of its call
    outcome,    \* request -> source -> what the event loop made of it
    seen,       \* request -> chunks active at some time since it was made (history)
    quiet,      \* request -> neither a write nor a fault since it was made (history)
    writes, faults, polls

vars == <<store, cache, queue, worker, req, call, outcome, seen, quiet, writes, faults, polls>>
index == <<store, writes>>
loop == <<call, outcome>>
serving == <<cache, queue, worker>>

Asked == ToSet(Sources)
Idle == [pc |-> "new", answer |-> "none", topk |-> 0, rerank |-> FALSE, federated |-> FALSE,
         limit |-> 0, pool |-> 0, previous |-> -1, lists |-> <<>>, score |-> <<>>, known |-> {},
         scored |-> {}, local |-> <<>>, result |-> <<>>]

Init ==
    /\ store = Start
    /\ cache = [valid |-> "unset", catalog |-> "unset"]
    /\ queue = <<>> /\ worker = "none"
    /\ req = [r \in Requests |-> Idle]
    /\ call = [r \in Requests |-> [s \in Asked |-> "none"]]
    /\ outcome = [r \in Requests |-> [s \in Asked |-> "none"]]
    /\ seen = [r \in Requests |-> {}] /\ quiet = [r \in Requests |-> TRUE]
    /\ writes = 0 /\ faults = 0 /\ polls = 0

----------------------------------------------------------------------------
\* The index changes under the requests: the delta sync writes row by row.
Write(st) ==
    /\ writes < MaxWrites /\ st # store
    /\ store' = st /\ writes' = writes + 1
    /\ seen' = [r \in Requests |-> seen[r] \cup st.active]
    /\ quiet' = [r \in Requests |-> FALSE]
    /\ UNCHANGED <<serving, req, loop, faults, polls>>

Sync == \E c \in Chunks :
    \/ Write([store EXCEPT !.active = @ \ {c}])
    \/ c \in store.provenance /\ Write([store EXCEPT !.active = @ \cup {c}])
    \/ Write([store EXCEPT !.chunks = @ \ {c}])
    \/ Write([store EXCEPT !.provenance = @ \ {c}, !.active = @ \ {c}])
    \/ Write([store EXCEPT !.embeddings = @ \cup {c}])

\* A query, the encoder, the reranker or a source may fail, within bounds.
Sound == UNCHANGED <<faults, quiet>>
Faulty ==
    /\ faults < MaxFaults /\ faults' = faults + 1
    /\ quiet' = [r \in Requests |-> FALSE]

----------------------------------------------------------------------------
\* The candidate pool is larger than top_k, for the inactive candidates in it.
PoolSize(k, p) == Max({p, k * OverfetchFactor, k + OverfetchSlack})

Submit(r) == \E k \in TopKs, rerank \in Reranks, fed \in Federations :
    /\ req[r].pc = "new"
    /\ LET pool == PoolSize(k, IF rerank THEN RerankPool ELSE k)
       IN req' = [req EXCEPT ![r] = [@ EXCEPT !.pc = "queued", !.topk = k, !.rerank = rerank,
                                              !.federated = fed, !.limit = pool, !.pool = pool]]
    /\ queue' = Append(queue, r)
    /\ call' = IF fed THEN [call EXCEPT ![r] = [s \in Asked |-> "queued"]] ELSE call
    /\ outcome' = IF fed THEN [outcome EXCEPT ![r] = [s \in Asked |-> "pending"]] ELSE outcome
    /\ seen' = [seen EXCEPT ![r] = store.active] /\ quiet' = [quiet EXCEPT ![r] = TRUE]
    /\ UNCHANGED <<index, cache, worker, faults, polls>>

\* The poller queues its ingest on the worker of the searches.
Poll ==
    /\ polls < MaxPolls /\ polls' = polls + 1
    /\ queue' = Append(queue, "poll")
    /\ UNCHANGED <<index, cache, worker, req, loop, seen, quiet, faults>>

Take ==
    /\ worker = "none" /\ queue # <<>>
    /\ worker' = Head(queue) /\ queue' = Tail(queue)
    /\ req' = [r \in Requests |-> IF r = worker' THEN [req[r] EXCEPT !.pc = "semantic"] ELSE req[r]]
    /\ UNCHANGED <<index, cache, loop, seen, quiet, faults, polls>>

PollEnd ==
    /\ worker = "poll" /\ worker' = "none"
    /\ UNCHANGED <<index, cache, queue, req, loop, seen, quiet, faults, polls>>

----------------------------------------------------------------------------
\* The steps of a local search, one query each.
At(r, pc) == worker = r /\ req[r].pc = pc
Step(r, q) ==
    /\ req' = [req EXCEPT ![r] = q]
    /\ worker' = IF q.pc \in {"done", "failed"} THEN "none" ELSE r
    /\ UNCHANGED <<index, queue, loop, seen, polls>>
Raise(r) == Step(r, [req[r] EXCEPT !.pc = "failed", !.answer = "failed"])
Listed(r, list, pc) == Step(r, [req[r] EXCEPT !.lists = Append(@, list), !.pc = pc])

\* A precondition once found wrong, or not found out, stays so.
SearchSemantic(r) ==
    LET list == Semantic(store, req[r].pool)
        holds == store.embeddings \ Foreign # {}
    IN /\ At(r, "semantic")
       /\ \/ req[r].pool > MaxTopK /\ Sound /\ Raise(r) /\ UNCHANGED cache
          \/ /\ req[r].pool <= MaxTopK
             /\ \/ /\ cache.valid # "unset" \/ holds
                   /\ cache.valid # "no"
                   /\ cache' = [cache EXCEPT !.valid = "yes"]
                   /\ \/ Sound /\ Listed(r, list, "keyword")
                      \/ Faulty /\ Listed(r, <<>>, "keyword")
                      \/ Faulty /\ Raise(r)
                \/ /\ cache.valid = "unset" /\ cache' = [cache EXCEPT !.valid = "no"]
                   /\ (~holds /\ Sound) \/ Faulty
                   /\ Listed(r, <<>>, "keyword")
                \/ /\ cache.valid = "no" /\ Sound
                   /\ Listed(r, <<>>, "keyword") /\ UNCHANGED cache

SearchKeyword(r) ==
    /\ At(r, "keyword") /\ UNCHANGED cache
    /\ \/ Sound /\ Listed(r, Keyword(store, req[r].pool), "graph")
       \/ Faulty /\ Listed(r, <<>>, "graph")

SearchGraph(r) ==
    LET named(list) ==
            \E lists \in {Append(req[r].lists, list)} : \E score \in {FusedScore(lists)} :
                Step(r, [req[r] EXCEPT !.lists = <<>>, !.score = score, !.local = Fused(lists, score),
                                       !.pc = IF Named(lists) = <<>> THEN "done" ELSE "known"])
    IN /\ At(r, "graph")
       /\ \/ cache.catalog # "empty" /\ Sound /\ named(GraphDirect(store, req[r].pool))
             /\ cache' = [cache EXCEPT !.catalog = "loaded"]
          \/ cache.catalog = "unset" /\ Faulty /\ named(<<>>)
             /\ cache' = [cache EXCEPT !.catalog = "empty"]
          \/ cache.catalog = "loaded" /\ Faulty /\ named(<<>>) /\ UNCHANGED cache
          \/ cache.catalog = "empty" /\ Sound /\ named(<<>>) /\ UNCHANGED cache

\* Which candidates have provenance, then which of those are active.
LoadProvenance(r) ==
    /\ At(r, "known") /\ UNCHANGED cache
    /\ \/ Sound /\ Step(r, [req[r] EXCEPT !.known = ToSet(req[r].local) \cap store.provenance,
                                          !.pc = "active"])
       \/ Faulty /\ Raise(r)

KnownOf(fused) == Kept(fused, store.provenance)
ActiveOf(fused) == Kept(fused, store.active)

\* The pool is fetched again, twice as large, while it holds too few active
\* candidates and still grows.
FilterActive(r) ==
    LET fused == req[r].local
        active == ActiveOf(fused)
        unknown == \E c \in ToSet(fused) : c \notin store.active /\ c \notin req[r].known
        enough == \/ Len(active) >= req[r].topk
                  \/ Len(fused) < req[r].pool
                  \/ Len(fused) <= req[r].previous
    IN /\ At(r, "active") /\ UNCHANGED cache
       /\ \/ unknown /\ Sound /\ Raise(r)
          \/ Faulty /\ Raise(r)
          \/ /\ ~unknown /\ Sound
             /\ Step(r, IF enough
                        THEN [req[r] EXCEPT !.local = active,
                                            !.pc = IF active = <<>> THEN "done" ELSE "rerank"]
                        ELSE [req[r] EXCEPT !.previous = Len(fused), !.pool = 2 * @,
                                            !.score = <<>>, !.pc = "semantic"])

Rerank(r) ==
    /\ At(r, "rerank") /\ UNCHANGED cache
    /\ \/ /\ req[r].rerank /\ Sound
          /\ \E ranked \in {Reranked(store, Slice(req[r].local, req[r].limit))} :
                 Step(r, [req[r] EXCEPT !.local = Blended(@, req[r].score, ranked),
                                        !.scored = ToSet(ranked), !.pc = "build"])
       \/ /\ (~req[r].rerank /\ Sound) \/ (req[r].rerank /\ Faulty)
          /\ Step(r, [req[r] EXCEPT !.pc = "build"])

\* Candidates whose chunk is gone by now are left out.
BuildCandidates(r) ==
    /\ At(r, "build") /\ Sound /\ UNCHANGED cache
    /\ Step(r, [req[r] EXCEPT !.pc = "done", !.score = <<>>, !.known = {},
                              !.local = Kept(Slice(@, req[r].topk), store.chunks)])

----------------------------------------------------------------------------
\* The event loop: a call waits for a thread of the pool; once its wait is
\* over the thread, if it has one, goes on, and nobody listens.
Running == {p \in Requests \X Asked : call[p[1]][p[2]] = "running"}

CallStart(r, s) ==
    /\ call[r][s] = "queued" /\ Cardinality(Running) < PoolThreads
    /\ call' = [call EXCEPT ![r][s] = "running"]
    /\ UNCHANGED <<index, serving, req, outcome, seen, quiet, faults, polls>>

CallEnd(r, s) ==
    LET waited == outcome[r][s] = "pending"
        settle(o) == outcome' = IF waited THEN [outcome EXCEPT ![r][s] = o] ELSE outcome
    IN /\ call[r][s] = "running"
       /\ call' = [call EXCEPT ![r][s] = "none"]
       /\ \/ Sound /\ settle("ok") /\ UNCHANGED req
          \/ Faulty /\ settle("error") /\ UNCHANGED req
          \/ /\ Faulty /\ waited /\ settle("raised")
             /\ req' = [req EXCEPT ![r].answer = IF @ = "none" THEN "failed" ELSE @]
       /\ UNCHANGED <<index, serving, seen, polls>>

TimeoutRunning(r, s) ==
    /\ outcome[r][s] = "pending" /\ call[r][s] # "queued"
    /\ outcome' = [outcome EXCEPT ![r][s] = "skipped"]
    /\ UNCHANGED <<index, serving, req, call, seen, quiet, faults, polls>>
TimeoutRaises(r, s) ==
    /\ outcome[r][s] = "pending"
    /\ outcome' = [outcome EXCEPT ![r][s] = "raised"]
    /\ req' = [req EXCEPT ![r].answer = IF @ = "none" THEN "failed" ELSE @]
    /\ call' = [call EXCEPT ![r][s] = IF @ = "queued" THEN "none" ELSE @]
    /\ UNCHANGED <<index, serving, seen, quiet, faults, polls>>
Timeout(r, s) ==
    /\ outcome[r][s] = "pending"
    /\ outcome' = [outcome EXCEPT ![r][s] = "skipped"]
    /\ call' = [call EXCEPT ![r][s] = IF @ = "queued" THEN "none" ELSE @]
    /\ UNCHANGED <<index, serving, req, seen, quiet, faults, polls>>

\* The candidates of the sources that answered in time, source by source.
Places(r) ==
    {p \in (1 .. Len(Sources)) \X (1 .. req[r].topk) :
        outcome[r][Sources[p[1]]] = "ok" /\ p[2] <= Len(Hits[Sources[p[1]]])}
InTurn(P) == {e \in P \X P : e[1][1] < e[2][1] \/ (e[1][1] = e[2][1] /\ e[1][2] < e[2][2])}
Candidates(r) ==
    LET places == Ordered(Places(r), InTurn(Places(r)))
    IN [n \in DOMAIN places |-> Hits[Sources[places[n][1]]][places[n][2]]]
LocalCandidates(r) == [i \in DOMAIN req[r].local |-> <<"local", req[r].local[i]>>]

Respond(r) ==
    /\ req[r].pc = "done" /\ req[r].answer = "none"
    /\ \A s \in Asked : outcome[r][s] # "pending"
    /\ \E found \in {Candidates(r)} :
           req' = [req EXCEPT ![r] = [@ EXCEPT
               !.answer = "ok",
               !.result = IF req[r].federated
                          THEN Merge(LocalCandidates(r), found, LowSignal, req[r].topk, Quota)
                          ELSE Slice(LocalCandidates(r), req[r].topk)]]
    /\ UNCHANGED <<index, serving, loop, seen, quiet, faults, polls>>

LocalStep(r) ==
    \/ SearchSemantic(r) \/ SearchKeyword(r) \/ SearchGraph(r) \/ LoadProvenance(r)
    \/ FilterActive(r) \/ Rerank(r) \/ BuildCandidates(r)

Next ==
    \/ Sync \/ Poll \/ Take \/ PollEnd
    \/ \E r \in Requests : Submit(r) \/ LocalStep(r) \/ Respond(r)
    \/ \E r \in Requests, s \in Asked : CallStart(r, s) \/ CallEnd(r, s) \/ Timeout(r, s)

Spec == Init /\ [][Next]_vars

\* The worker and the event loop are never idle with work at hand, and timers
\* fire; a source need not ever answer.
FairSpec ==
    /\ Spec
    /\ WF_vars(Take) /\ WF_vars(PollEnd)
    /\ \A r \in Requests : WF_vars(LocalStep(r)) /\ WF_vars(Respond(r))
    /\ \A r \in Requests, s \in Asked : WF_vars(Timeout(r, s))

----------------------------------------------------------------------------
Outcomes == {"none", "pending", "ok", "skipped", "error", "raised"}
Steps == {"new", "queued", "semantic", "keyword", "graph", "known", "active", "rerank", "build",
          "done", "failed"}

\* The progress of a request and the threads, in their ranges; the worker has
\* one job, and the jobs that wait are those of queued requests and the poller.
TypeOK ==
    /\ store \in [{"chunks", "embeddings", "provenance", "active"} -> SUBSET Chunks]
    /\ cache \in [valid : {"unset", "yes", "no"}, catalog : {"unset", "loaded", "empty"}]
    /\ worker \in Requests \cup {"none", "poll"}
    /\ ToSet(queue) \subseteq {r \in Requests : req[r].pc = "queued"} \cup {"poll"}
    /\ \A r \in Requests :
        /\ req[r].pc \in Steps /\ req[r].answer \in {"none", "ok", "failed"}
        /\ req[r].pc \notin {"new", "queued", "done", "failed"} <=> worker = r
        /\ call[r] \in [Asked -> {"none", "queued", "running"}]
        /\ outcome[r] \in [Asked -> Outcomes]
    /\ Cardinality(Running) <= PoolThreads

Answered(r) == req[r].answer = "ok"

\* A local result was publicly visible at some moment of its search: its
\* binding was active, however the index changed under the queries.
VisibleResults ==
    \A r \in Requests : Answered(r) => ToSet(req[r].local) \subseteq seen[r]

\* The answer has exactly the places the local and federated candidates can
\* fill, top_k at most; reserved places go to the best hits, in their order,
\* of the sources that answered before their timeout, and to no later ones.
MergeExact ==
    \A r \in Requests : \A found \in {Candidates(r)} :
        LET worth == Kept(found, ToSet(found) \ LowSignal)
            slots == IF req[r].federated THEN Min({Quota, Len(worth)}) ELSE 0
        IN Answered(r) =>
            /\ Len(req[r].result) = Min({req[r].topk, Len(req[r].local) + slots})
            /\ Kept(req[r].result, {c \in ToSet(req[r].result) : c[1] # "local"}) = Slice(worth, slots)

\* A chunk that the cross-encoder scored comes first, if it could tell the
\* chunks it scored apart: raw fused scores never outrank the best blend.
RerankedLeads ==
    \A r \in Requests :
        req[r].pc = "build" /\ Cardinality({RerankScore[c] : c \in req[r].scored}) > 1
            => Head(req[r].local) \in req[r].scored

\* What fails a search of a quiet index whose rows all have their provenance is
\* the limit of vector search and nothing else, no timeout, poll or precondition
\* remembered: its own first pool is above the limit, or the index large enough
\* to fill one of half the limit with candidates that are not active.
Whole == (store.chunks \cup store.embeddings) \ Foreign \subseteq store.provenance
HealthyAnswered ==
    \A r \in Requests : quiet[r] /\ Whole /\ req[r].answer = "failed" =>
        /\ req[r].pool > MaxTopK
        /\ req[r].limit > MaxTopK \/ 2 * Cardinality(Chunks) > MaxTopK

\* As the tool has it, and as it is not: whatever the number of results that is
\* asked for, a healthy search is answered.
EverySizeAnswered ==
    \A r \in Requests : quiet[r] /\ Whole => req[r].answer # "failed"

\* Every search ends, though sources hang and hold on to their threads.
EverySearchEnds ==
    \A r \in Requests : req[r].pc = "queued" ~> req[r].answer # "none"

\* The pool grows until it holds enough active candidates or every engine has
\* named all it can: no active chunk that matches is out of an underfull pool.
PoolExhausted ==
    \A r \in Requests :
        req[r].pc = "rerank" /\ quiet[r] /\ Len(req[r].local) < req[r].topk
            => \A c \in store.active \ Foreign :
                   \/ c \in store.embeddings /\ Similarity[c] > 0
                   \/ c \in store.chunks /\ TitleScore[c] + TextScore[c] + Weight[c] > 0
                   => c \in ToSet(req[r].local)
=============================================================================
