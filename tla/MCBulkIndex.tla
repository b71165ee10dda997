------------------------------ MODULE MCBulkIndex ------------------------------
(***************************************************************************)
(* BulkIndex with notes that share a chunk, a note without chunks and a    *)
(* note of the same text with other tags.                                  *)
(***************************************************************************)
EXTENDS BulkIndex

Note(b, m) == [body |-> b, meta |-> m]
CONSTANTS p1, p2
MCPaths == {p1, p2}
MCVersions == {Note("long", "m"), Note("short", "m"), Note("short", "n"), Note("empty", "m")}
MCInitial == {[p \in MCPaths |-> IF p = p1 THEN Note("long", "m") ELSE v] : v \in {None, Note("short", "m")}}
MCChunksOf == [long |-> <<"a", "b">>, short |-> <<"b">>, empty |-> <<>>]
=============================================================================
