-------------------------- MODULE SqliteConnection --------------------------
(***************************************************************************)
(* One sqlite3 connection in autocommit mode (isolation_level None), as    *)
(* the threads of the process share it: every call is atomic, but there is *)
(* one transaction, whoever began it.                                      *)
(***************************************************************************)

VARIABLES
    db,         \* what a read through the connection sees
    durable,    \* what is left after a crash
    tx          \* is a transaction open?

connection == <<db, durable, tx>>

Opened(d) == db = d /\ durable = d /\ tx = FALSE

\* execute("BEGIN"), when it does not raise: "cannot start a transaction within
\* a transaction".
Begin == ~tx /\ tx' = TRUE /\ UNCHANGED <<db, durable>>

\* A statement that takes the contents to d.
Execute(d) ==
    /\ db' = d
    /\ durable' = IF tx THEN durable ELSE d
    /\ UNCHANGED tx

\* execute("COMMIT") and execute("ROLLBACK"), when they do not raise: "no
\* transaction is active".
Commit == tx /\ tx' = FALSE /\ durable' = db /\ UNCHANGED db
Rollback == tx /\ tx' = FALSE /\ db' = durable /\ UNCHANGED durable

\* The method commit() commits whatever is open, and does not raise.
CommitAny == tx' = FALSE /\ durable' = db /\ UNCHANGED db

Reopened == tx' = FALSE /\ db' = durable /\ UNCHANGED durable
=============================================================================
