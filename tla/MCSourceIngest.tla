--------------------------- MODULE MCSourceIngest ---------------------------
(***************************************************************************)
(* SourceIngest on a small source: messages that are indexed and one,      *)
(* "emoji", that is recorded without a chunk of its own.  The .cfg files   *)
(* choose the threads and the bounds.                                      *)
(***************************************************************************)
EXTENDS SourceIngest
=============================================================================
