------------------------------ MODULE SchemaIndex ------------------------------
(***************************************************************************)
(* What is defined in the retrieval database.  Processes that start with a *)
(* Surreal writer inspect the schema and may apply the plan, statement by  *)
(* statement (define_dotmd_surreal_schema); the index build runner defines *)
(* or rebuilds the indexes on the vectors, each statement in a worker      *)
(* process of its own that can fail, die or be killed on a timeout, and    *)
(* judges the result by INFO FOR TABLE; the completeness audit compares    *)
(* the indexes with what it expects.                                       *)
(***************************************************************************)
EXTENDS Integers, Sequences, FiniteSets, SequencesExt

CONSTANTS
    Plan,           \* the plan's tables, in its order; "embeddings" is one
    IndexesOf,      \* table -> sequence of the names of its indexes in the plan
    Shards,         \* the shard tables; << >> when "embeddings" holds all vectors
    Databases,      \* the databases there may be at first
    Starters,       \* processes that open the database with a writer
    MaxFaults,      \* failures and deaths, of workers, runs and starters
    MaxRuns,        \* runs of the index build
    SameDirectory,  \* a build may be given the output directory of the one before
    LateEffects     \* a statement may still take effect after its worker was killed

\* An index is the table it is on and its name.
hnsw(t) == <<t, "hnsw">>
PlanIndexes == UNION {{<<t, x>> : x \in ToSet(IndexesOf[t])} : t \in ToSet(Plan)}
Indexes == PlanIndexes \cup {hnsw(t) : t \in {"embeddings"} \cup ToSet(Shards)}
AllTables == ToSet(Plan) \cup ToSet(Shards)

ASSUME SchemaIndexAssumption ==
    /\ Plan \in Seq(ToSet(Plan)) /\ Shards \in Seq(ToSet(Shards)) /\ "embeddings" \in ToSet(Plan)
    /\ \A t \in ToSet(Plan) : IndexesOf[t] \in Seq(ToSet(IndexesOf[t]))
    /\ IndexesOf["embeddings"] # <<>>
    /\ MaxFaults \in Nat /\ MaxRuns \in Nat
    /\ SameDirectory \in BOOLEAN /\ LateEffects \in BOOLEAN
    /\ \A d \in Databases :
          /\ d.tables \in [AllTables -> {"none", "full", "less"}]
          /\ d.indexes \in [Indexes -> {"none", "asked", "other"}]
          /\ d.version \in {"none", "older", "current", "newer"}
          /\ d.version = "current" => \A t \in ToSet(Plan) : d.tables[t] = "full"

VARIABLES
    tables,     \* table -> none, full (SCHEMAFULL or RELATION) or less (SCHEMALESS)
    indexes,    \* index -> none, asked (as asked for now) or other (another definition)
    version,    \* the schema version in schema_meta
    start,      \* starter -> where it is
    run,        \* the index build
    files,      \* the result files in its output directory
    verdict,    \* index -> what the last build that was to make it said of it
    late,       \* statements of killed workers that may still take effect
    left        \* runs and faults that may still occur

definitions == <<tables, indexes, version>>
build == <<run, files, verdict, late>>
schemaVars == <<definitions, start, build, left>>

----------------------------------------------------------------------------
\* The plan as statements, in its order: <<i, 0>> defines the i-th table,
\* <<i, j>> the j-th index on it.
Statements == UNION {{i} \X (0 .. Len(IndexesOf[Plan[i]])) : i \in DOMAIN Plan}
Following(p) == IF p[2] < Len(IndexesOf[Plan[p[1]]]) THEN <<p[1], p[2] + 1>> ELSE <<p[1] + 1, 0>>
TableOf(p) == Plan[p[1]]
First == <<1, 0>>
IndexOf(p) == <<TableOf(p), IndexesOf[TableOf(p)][p[2]]>>

\* The steps of the index build in a mode.
secondarySteps == [j \in DOMAIN IndexesOf["embeddings"] |-> <<"embeddings", IndexesOf["embeddings"][j]>>]
hnswSteps ==
    IF Shards = <<>> THEN <<hnsw("embeddings")>> ELSE [i \in DOMAIN Shards |-> hnsw(Shards[i])]
Steps(mode) ==
    CASE mode = "unique-only" -> <<secondarySteps[1]>>
      [] mode = "secondary" -> secondarySteps
      [] mode = "hnsw" -> hnswSteps
      [] OTHER -> secondarySteps \o hnswSteps

\* The indexes the audit expects: with shards too it asks for the one on embeddings.
Expected ==
    {x \in PlanIndexes : x[1] \in {"chunks", "embeddings"}}
        \cup {hnsw("embeddings")} \cup {hnsw(t) : t \in ToSet(Shards)}
missing == {x \in Expected : indexes[x] = "none"}
mismatched == {x \in Expected : indexes[x] = "other"}

Idle == [pc |-> "idle", mode |-> "all", rebuild |-> FALSE, at |-> 0, ok |-> TRUE, seen |-> {}]

SchemaInit ==
    /\ \E d \in Databases : tables = d.tables /\ indexes = d.indexes /\ version = d.version
    /\ start = [s \in Starters |-> [pc |-> "down", meta |-> "none", next |-> First]]
    /\ run = Idle /\ files = << >> /\ late = {}
    /\ verdict = [x \in Indexes |-> IF indexes[x] = "none" THEN "deferred" ELSE "none"]
    /\ left = [faults |-> MaxFaults, runs |-> MaxRuns]

----------------------------------------------------------------------------
\* A process that starts.  The version and the tables are two queries.
Set(s, pc, p) == start' = [start EXCEPT ![s] = [pc |-> pc, meta |-> @.meta, next |-> p]]

Open(s) ==
    /\ start[s].pc = "down"
    /\ start' = [start EXCEPT ![s] = [pc |-> "inspect", meta |-> version, next |-> First]]
    /\ UNCHANGED <<definitions, build, left>>

\* What _inspect_existing_schema makes of the two.
StatusOf(meta) ==
    LET modes == {tables[t] : t \in AllTables} \ {"none"} IN
    CASE meta = "none" /\ modes = {} -> "pending-apply"
      [] "less" \in modes -> "replace-required"
      [] meta = "current" -> "already-current"
      [] meta = "older" -> "pending-apply"
      [] OTHER -> "replace-required"

\* The factory of the writer ignores the status: it only matters for the apply.
Inspect(s) ==
    /\ start[s].pc = "inspect"
    /\ IF StatusOf(start[s].meta) = "pending-apply" THEN Set(s, "apply", First) ELSE Set(s, "up", First)
    /\ UNCHANGED <<definitions, build, left>>

Exists(p) == IF p[2] = 0 THEN tables[TableOf(p)] # "none" ELSE indexes[IndexOf(p)] # "none"

Define(p) ==
    IF p[2] = 0 THEN tables' = [tables EXCEPT ![TableOf(p)] = "full"] /\ UNCHANGED indexes
                ELSE indexes' = [indexes EXCEPT ![IndexOf(p)] = "asked"] /\ UNCHANGED tables

\* The sentinel comes after the last statement (before it in the variant).
SentinelEarly(p) == Following(p) \notin Statements
Sentinel(p) == p \notin Statements

\* A statement that defines what exists is an error and ends the start.
Apply(s) ==
    /\ start[s].pc = "apply"
    /\ LET p == start[s].next IN
       IF Sentinel(p)
         THEN version' = "current" /\ Set(s, "up", First) /\ UNCHANGED <<tables, indexes>>
         ELSE /\ UNCHANGED version
              /\ IF Exists(p) THEN Set(s, "down", First) /\ UNCHANGED <<tables, indexes>>
                              ELSE Set(s, "apply", Following(p)) /\ Define(p)
    /\ UNCHANGED <<build, left>>

Fault == left.faults > 0 /\ left' = [left EXCEPT !.faults = @ - 1]

Die(s) == start[s].pc # "down" /\ Set(s, "down", First) /\ Fault /\ UNCHANGED <<definitions, build>>

\* Rows written to a table that is not defined create it, without a schema.
Write(s, t) ==
    /\ start[s].pc = "up" /\ tables[t] = "none"
    /\ tables' = [tables EXCEPT ![t] = "less"]
    /\ UNCHANGED <<indexes, version, start, build, left>>

----------------------------------------------------------------------------
\* The index build.
steps == Steps(run.mode)
step == steps[run.at]

\* In a directory that was used before, the workers' files of then are still there.
BeginRun(mode, rebuild) ==
    /\ run.pc = "idle" /\ left.runs > 0 /\ left' = [left EXCEPT !.runs = @ - 1]
    /\ run' = [Idle EXCEPT !.pc = "before", !.mode = mode, !.rebuild = rebuild, !.at = 1]
    /\ files' \in IF SameDirectory THEN {<< >>, files} ELSE {<< >>}
    /\ verdict' = [x \in Indexes |-> IF x \in ToSet(Steps(mode)) THEN "running" ELSE verdict[x]]
    /\ UNCHANGED <<definitions, start, late>>

\* What a worker leaves in its result file: r when it succeeds.
Filing(label, r, now) == [l \in DOMAIN now \cup {label} |-> IF l = label THEN r ELSE now[l]]
FileOf(label, r, outcome) ==
    IF outcome = "died" THEN files
    ELSE Filing(label, IF outcome = "applied" THEN r ELSE [status |-> outcome, names |-> {}], files)

\* What its parent reads there: the file of an earlier worker, when this one left none.
ResultIn(label, now) == IF label \in DOMAIN now THEN now[label] ELSE [status |-> "failed", names |-> {}]

Succeeded == [status |-> "applied", names |-> {}]
Faulty == {"failed", "died", "timed_out_uncertain"}
Outcome(o) == IF o = "applied" THEN UNCHANGED left ELSE o \in Faulty /\ Fault

\* The answer of a worker that asks for the indexes of a table.  Of a table that
\* is not there it has the error of the statement, which is no failure and names none.
Info(label, t, o) ==
    FileOf(label, [status |-> "applied", names |-> {x \in Indexes : x[1] = t /\ indexes[x] # "none"}], o)

\* A worker defines or removes an index.
Change(label, op, x) ==
    LET can == tables[x[1]] # "none" /\ (op = "remove") = (indexes[x] # "none")
        after == [indexes EXCEPT ![x] = IF op = "remove" THEN "none" ELSE "asked"]
    IN \/ /\ indexes' = IF can THEN after ELSE indexes
          /\ files' = FileOf(label, Succeeded, IF can THEN "applied" ELSE "failed")
          /\ UNCHANGED <<late, left>>
       \/ \E o \in Faulty :
            /\ files' = FileOf(label, Succeeded, o) /\ Fault
            /\ \/ indexes' = indexes
               \/ can /\ indexes' = after
            /\ late' = IF LateEffects /\ o = "timed_out_uncertain" THEN late \cup {<<op, x>>} ELSE late

\* On to the next step, or to the questions at the end.
Onwards(ok) ==
    run' = IF ok /\ run.at < Len(steps) THEN [run EXCEPT !.pc = "before", !.at = @ + 1]
                                        ELSE [run EXCEPT !.pc = "after", !.at = 1, !.ok = ok]

\* What a step calls for, by the indexes its table has (without --rebuild-existing
\* first, as if the option did not reach the step).
CalledForAlways(r) ==
    CASE r.status # "applied" -> "stop"
      [] step \notin r.names -> "define"
      [] OTHER -> "already_present"
CalledFor(r) ==
    CASE r.status # "applied" -> "stop"
      [] step \notin r.names -> "define"
      [] run.rebuild -> "remove"
      [] OTHER -> "already_present"

\* The parent itself files the result of a step that has nothing to do.
Before ==
    /\ run.pc = "before"
    /\ \E o \in {"applied"} \cup Faulty :
       LET label == <<run.at, step[1], "", "before">>
           now == Info(label, step[1], o)
           next == CalledFor(ResultIn(label, now))
       IN /\ Outcome(o)
          /\ files' = IF next = "already_present" THEN Filing(<<run.at, step[1], step[2], "define">>, Succeeded, now) ELSE now
          /\ IF next \in {"define", "remove"} THEN run' = [run EXCEPT !.pc = next] ELSE Onwards(next # "stop")
    /\ UNCHANGED <<definitions, start, verdict, late>>

RemoveIndex ==
    /\ run.pc = "remove"
    /\ LET label == <<run.at, step[1], step[2], "remove">> IN
       /\ Change(label, "remove", step)
       /\ IF ResultIn(label, files').status = "applied" THEN run' = [run EXCEPT !.pc = "define"] ELSE Onwards(FALSE)
    /\ UNCHANGED <<tables, version, start, verdict>>

DefineIndex ==
    /\ run.pc = "define"
    /\ LET label == <<run.at, step[1], step[2], "define">> IN
       /\ Change(label, "define", step)
       /\ Onwards(ResultIn(label, files').status = "applied")
    /\ UNCHANGED <<tables, version, start, verdict>>

\* The steps of a table share the file their questions are answered in.
After ==
    /\ run.pc = "after"
    /\ \E o \in {"applied"} \cup Faulty :
       LET label == <<0, step[1], "", "after">>
           r == ResultIn(label, files')
       IN /\ Outcome(o) /\ files' = Info(label, step[1], o)
          /\ run' = [run EXCEPT !.pc = IF run.at < Len(steps) THEN "after" ELSE "end",
                                !.at = IF run.at < Len(steps) THEN @ + 1 ELSE @,
                                !.ok = @ /\ r.status = "applied",
                                !.seen = IF r.status = "applied" /\ step \in r.names THEN @ \cup {step} ELSE @]
    /\ UNCHANGED <<definitions, start, verdict, late>>

Judge(v) ==
    /\ run' = Idle
    /\ verdict' = [x \in Indexes |-> IF x \in ToSet(steps) THEN v ELSE verdict[x]]

EndRun ==
    /\ run.pc = "end"
    /\ Judge(IF ~run.ok \/ run.seen # ToSet(steps) THEN "blocked" ELSE IF run.rebuild THEN "rebuilt" ELSE "verified")
    /\ UNCHANGED <<definitions, start, files, late, left>>

CutRun == run.pc # "idle" /\ Judge("cut") /\ Fault /\ UNCHANGED <<definitions, start, files, late>>

\* The server carries on with what the killed worker had sent.
Late ==
    \E l \in late :
       /\ late' = late \ {l}
       /\ indexes' = [indexes EXCEPT ![l[2]] =
                        CASE l[1] = "remove" -> "none" [] @ = "none" -> "asked" [] OTHER -> @]
       /\ UNCHANGED <<tables, version, start, run, files, verdict, left>>

----------------------------------------------------------------------------
SchemaNext ==
    \/ \E s \in Starters : Open(s) \/ Inspect(s) \/ Apply(s) \/ Die(s)
    \/ \E s \in Starters, t \in ToSet(Plan) : Write(s, t)
    \/ \E mode \in {"unique-only", "secondary", "hnsw", "all"}, rebuild \in BOOLEAN : BeginRun(mode, rebuild)
    \/ Before \/ RemoveIndex \/ DefineIndex \/ After \/ EndRun \/ CutRun

SchemaSpec == SchemaInit /\ [][SchemaNext]_schemaVars
\* With a server that carries on after its client was killed.
SchemaLateSpec == SchemaInit /\ [][SchemaNext \/ Late]_schemaVars
SchemaFairSpec == SchemaSpec /\ \A s \in Starters : WF_schemaVars(Open(s) \/ Inspect(s) \/ Apply(s))

----------------------------------------------------------------------------
\* Shape of the state.
SchemaTypeOK ==
    /\ tables \in [AllTables -> {"none", "full", "less"}]
    /\ indexes \in [Indexes -> {"none", "asked", "other"}]
    /\ version \in {"none", "older", "current", "newer"}
    /\ start \in [Starters -> [pc : {"down", "inspect", "apply", "up"},
                               meta : {"none", "older", "current", "newer"},
                               next : Statements \cup {<<Len(Plan) + 1, 0>>}]]
    /\ run.pc \in {"idle", "before", "remove", "define", "after", "end"} /\ run.seen \subseteq Indexes
    /\ verdict \in [Indexes -> {"none", "deferred", "running", "verified", "rebuilt", "blocked", "cut"}]

\* What the index build reports as verified is there for the search and for
\* the audit, and after a rebuild with the definition that was asked for
\* (devtools/surreal_index_build_runner.py:654), whatever its workers met.
\* Not so when two of them die in the output directory of an earlier build: the
\* parent takes the results of then for theirs.
VerifiedIsBuilt ==
    \A x \in Indexes :
       /\ verdict[x] \in {"verified", "rebuilt"} => indexes[x] # "none"
       /\ verdict[x] = "rebuilt" => indexes[x] = "asked"

\* A database whose version is current has every table of the plan, with its
\* schema, and every index but those a build was to make and did not report
\* as made: two processes that start at once, one that dies half way through
\* the plan and a build among them never leave a version that promises more
\* (src/dotmd/storage/surreal_schema.py:1127).
CurrentIsComplete ==
    version = "current" =>
       /\ \A t \in ToSet(Plan) : tables[t] = "full"
       /\ \A x \in PlanIndexes : indexes[x] = "none" => verdict[x] \in {"deferred", "running", "blocked", "cut"}

\* When everything was rebuilt, the audit has nothing to say about indexes.
\* Not so with shards: the build then leaves out the index on embeddings that
\* the audit still asks for (devtools/surreal_completeness_audit.py:982).
AuditAgrees ==
    (version = "current" /\ \A x \in ToSet(Steps("all")) : verdict[x] = "rebuilt") => missing \cup mismatched = {}

\* A process that keeps starting brings the database to the current version.
\* Not so after a start that was cut half way, nor from an older version: the
\* first statement meets what exists (src/dotmd/storage/surreal_schema.py:1128).
StartHeals == <>(version = "current" \/ \E t \in AllTables : tables[t] = "less")
=============================================================================
