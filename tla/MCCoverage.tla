------------------------------- MODULE MCCoverage -------------------------------
EXTENDS Coverage
MCChunks == {"c1", "c2", "blank"}
MCModels == {"live", "old"}
MCShardOf == [e \in MCChunks \X MCModels |-> IF e[1] = "c1" /\ e[2] = "live" THEN "embeddings_0" ELSE "embeddings_1"]
MCFew == {chunk("c1"), embedding("c1", "old"), provenance("c1", "p")}
MCBare == {chunk(c) : c \in MCChunks} \cup {provenance(c, d) : c \in {"c1", "c2"}, d \in Docs}
MCInitial == [rows : {MCFew, MCBare}, sharded : BOOLEAN]
=============================================================================
