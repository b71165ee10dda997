----------------------------- MODULE SourceFeed -----------------------------
(***************************************************************************)
(* What ingestion of an application source promises of its durable state:  *)
(* a batch of the feed is recorded as a whole, with its checkpoint.        *)
(***************************************************************************)
EXTENDS Integers, Sequences

CONSTANTS
    Units,      \* units of the source (messages)
    Hidden      \* units stored without a chunk of their own

VARIABLES
    log,        \* the source: the unit changed by each change
    fp,         \* unit -> its last change on record, or 0
    rows,       \* changes with chunk rows
    cursor      \* checkpoint: the feed up to here is on record

promise == <<log, fp, rows, cursor>>

\* The feed lists a unit once, at its latest change.
Superseded(p, n) == \E q \in p + 1 .. n : log[q] = log[p]
Feed(from, n) == {p \in from + 1 .. n : ~Superseded(p, n)}

\* The fingerprints and chunk rows once the changes b are on record.
Recorded(b, f) ==
    [u \in Units |-> IF \E p \in b : log[p] = u THEN CHOOSE p \in b : log[p] = u ELSE f[u]]
Changed(b, f) == {p \in b : f[log[p]] # p}
Indexed(b, f, r) ==
    {q \in r : \A p \in Changed(b, f) : log[q] # log[p]}
        \cup {p \in Changed(b, f) : log[p] \notin Hidden}

Init ==
    /\ log = <<>>
    /\ fp = [u \in Units |-> 0]
    /\ rows = {}
    /\ cursor = 0

Publish(u) == log' = Append(log, u) /\ UNCHANGED <<fp, rows, cursor>>

\* The changes after the checkpoint up to some c, of the feed as it was when
\* the source had n changes.
Ingest(n, c) ==
    LET b == {p \in Feed(cursor, n) : p <= c}
    IN /\ fp' = Recorded(b, fp)
       /\ rows' = Indexed(b, fp, rows)
       /\ cursor' = c
       /\ UNCHANGED log

Next ==
    \/ \E u \in Units : Publish(u)
    \/ \E n \in 0 .. Len(log) : \E c \in Feed(cursor, n) : Ingest(n, c)

Spec == Init /\ [][Next]_promise
=============================================================================
