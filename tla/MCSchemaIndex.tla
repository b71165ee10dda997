----------------------------- MODULE MCSchemaIndex -----------------------------
EXTENDS SchemaIndex
MCPlan == <<"chunks", "embeddings", "schema_meta">>
MCIndexesOf == [chunks |-> <<"chunk_id">>, embeddings |-> <<"unique", "text_hash">>, schema_meta |-> <<>>]
MCNoShards == << >>
MCShards == <<"embeddings_0", "embeddings_1">>
Db(tabs, ix, v) == [tables |-> tabs, indexes |-> ix, version |-> v]
All(S, v) == [x \in S |-> v]
MCEmpty == Db(All(AllTables, "none"), All(Indexes, "none"), "none")
MCOlder == Db(All(AllTables, "full"), [x \in Indexes |-> IF x[2] = "hnsw" THEN "other" ELSE "asked"], "older")
MCPrototype == Db([t \in AllTables |-> IF t = "schema_meta" THEN "none" ELSE "less"], All(Indexes, "none"), "none")
MCDeferred == Db(All(AllTables, "full"), [x \in Indexes |-> IF x[1] = "embeddings" THEN "none" ELSE "asked"], "current")
MCCurrent == Db(All(AllTables, "full"), [x \in Indexes |-> IF x[2] = "hnsw" THEN "other" ELSE "asked"], "current")
MCDatabases == {MCEmpty, MCOlder, MCPrototype, MCDeferred, MCCurrent}
MCStarters == {"serve", "index"}
=============================================================================
