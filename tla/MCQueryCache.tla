---------------------------- MODULE MCQueryCache ----------------------------
(* Small instances of QueryCache for TLC. *)
EXTENDS QueryCache, TLC
CONSTANTS k1, k2, r1, r2

\* The two questions differ in wording but pass the similarity threshold.
AllSimilar == Keys \X Keys
NoKeys     == {}
OneBlocked == {k2}

\* A single client, of either endpoint.
OneGenerator   == r1 :> {"generate-sql"} \X Keys
OneAsker       == r1 :> {"ask"} \X Keys
\* Two clients generate SQL for two similar questions.
TwoGenerators  == r1 :> {<<"generate-sql", k1>>} @@ r2 :> {<<"generate-sql", k2>>}

NoEvents    == {}
\* The models fail, /ask runs out of time, an operator clears the cache.
ModelFaults == {"embed", "retrieve", "error", "timeout", "clear", "delete", "full"}
\* PostgreSQL fails, the process restarts, entries expire.
StoreFaults == {"epoch", "lookup", "upsert", "bump", "crash", "expiry"}
=============================================================================
