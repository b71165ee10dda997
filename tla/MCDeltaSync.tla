---------------------------- MODULE MCDeltaSync ----------------------------
(***************************************************************************)
(* One note indexed and reindexed, its graph written with two frontmatter  *)
(* tags, one tag then dropped and a second note added, the note deleted.   *)
(***************************************************************************)
EXTENDS DeltaSync, TLC

CONSTANTS chunk, emb, file1, file2, tag1, tag2, mention, v1, v2, k1, k2

MCRows == {chunk, emb, file1, file2, tag1, tag2, mention}
MCFileNodes == {file1, file2}
MCFrontmatter == {tag1, tag2}
MCRelations == {tag1, tag2, mention}
MCSourceFile == [r \in MCFrontmatter |-> file1]
MCChunkOf == emb :> chunk

MCSectionOf ==
    [r \in MCRows |->
        CASE r = chunk -> "chunks"
          [] r = emb -> "embeddings"
          [] OTHER -> "graph"]

\* Tables in alphabetical order: chunks, embeddings, files, relations.
MCRank ==
    chunk :> 1 @@ emb :> 3 @@ file1 :> 4 @@ file2 :> 5
        @@ mention :> 6 @@ tag1 :> 7 @@ tag2 :> 8

Put(R, v) == [r \in R |-> v]

MCManifests ==
    { [tombs |-> {}, puts |-> Put({chunk, emb}, v1), cursor |-> k1],
      [tombs |-> {}, puts |-> Put({chunk, emb}, v2), cursor |-> k2],
      [tombs |-> {}, puts |-> Put({file1, mention, tag1, tag2}, v1), cursor |-> k1],
      [tombs |-> {}, puts |-> Put({file1, file2, tag1}, v1), cursor |-> k2],
      [tombs |-> {chunk, emb}, puts |-> <<>>, cursor |-> k2] }
=============================================================================
