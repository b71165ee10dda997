------------------------------ MODULE MCSearch ------------------------------
(***************************************************************************)
(* Search over five chunks, one of them of another chunk strategy, and two *)
(* federated sources.  The engines disagree on the order of the chunks, so *)
(* that fusion, filter and blend all move them.                            *)
(***************************************************************************)
EXTENDS Search

MCSimilarity  == <<40, 90, 70, 95, 60>>
MCTitleScore  == <<0, 0, 3, 0, 1>>
MCTextScore   == <<5, 0, 2, 4, 0>>
MCWeight      == <<1, 0, 0, 2, 2>>
MCRerankScore == <<4, 2, 0, 3, 3>>
MCShardOf     == <<1, 1, 2, 1, 2>>

\* Chunk 2 has lost its binding, chunk 4 has yet to get its vector.
MCStart == [chunks |-> 1 .. 5, embeddings |-> {1, 2, 3, 5}, provenance |-> 1 .. 5,
            active |-> {1, 3, 4, 5}]

MCSources == <<"telegram", "gmail">>
MCHits == [s \in ToSet(MCSources) |-> <<<<s, 1>>, <<s, 2>>>>]
MCLowSignal == {<<"telegram", 1>>}
=============================================================================
