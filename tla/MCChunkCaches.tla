--------------------------- MODULE MCChunkCaches ---------------------------
(* Instances of ChunkCaches: two bodies share a text, one of them has it   *)
(* twice, a third has none; a larger token budget joins the pieces.        *)
EXTENDS ChunkCaches, TLC
CONSTANTS n1, n2, m, w, A, B, ner, nerFine, plain, twice, blank, small, large

MCPieces ==
    [p \in Bodies \X Budgets |->
        CASE p[1] = blank -> <<>>
          [] p[1] = plain /\ p[2] = small -> <<"x", "y">>
          [] p[1] = plain /\ p[2] = large -> <<"xy">>
          [] OTHER -> <<"y", "y">>]
MCSpans == [t \in {"x", "y", "xy"} |-> IF t = "y" THEN 2 ELSE 1]
MCSuffix == [model \in Models |-> model]
MCOneSuffix == [model \in Models |-> "shared"]
\* Notes, metadata, models and NER settings are interchangeable.
MCSymmetry ==
    Permutations(Notes) \cup Permutations(Metas) \cup Permutations(Models)
        \cup Permutations(Sigs)
MCDim == [model \in Models |-> 1]
============================================================================
