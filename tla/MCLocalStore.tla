---------------------------- MODULE MCLocalStore ----------------------------
(***************************************************************************)
(* LocalStore with one dialog of two messages.                             *)
(***************************************************************************)
EXTENDS LocalStore, TLC

CONSTANTS hello, reply

MCDialogOf == [u \in Units |-> "family"]

\* Nothing is looked at beyond a start that took an index with vectors for empty:
\* RepairedIsCurrent says nothing of it, and the others do not tell its states apart.
MCBound == ~kept
MCSymmetry == Permutations(Units)
=============================================================================
