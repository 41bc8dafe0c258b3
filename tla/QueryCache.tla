----------------------------- MODULE QueryCache -----------------------------
(***************************************************************************)
(* The two-layer query cache of the service and everything that fills,     *)
(* reads and invalidates it: the /ask and /generate-sql handlers step by   *)
(* step, the knowledge mutations (/teach, /ingest/...), /cache/clear, and  *)
(* a restart of the process.                                               *)
(*                                                                         *)
(* The service is one asyncio process: code between two awaits is atomic,  *)
(* and each action below is one such stretch.  A query text with its       *)
(* top_k, canonicalised, is one element of Keys.  An answer is abstracted  *)
(* to the version of the knowledge base it was generated from: kv counts   *)
(* the committed mutations, and a generated result carries the value kv    *)
(* had when its first retrieval began.                                     *)
(***************************************************************************)
EXTENDS Integers, FiniteSets

CONSTANTS
    Keys,          \* canonical query text with its top_k (cache_keys.py)
    Similar,       \* pairs of keys whose embeddings pass the threshold
    Blocked,       \* keys the destructive / ambiguity preflight turns away
    Requests,      \* concurrent /ask and /generate-sql calls
    Mutators,      \* concurrent knowledge-changing calls
    Calls,         \* Calls[r]: the <<endpoint, key>> pairs request r may send
    Events,        \* the failures and outside events that may happen
    JsonbDecodes,  \* does asyncpg hand response_json back as a mapping?
    EmbedImports,  \* does sql_generator's import of `embed` resolve?
    MaxKnowledge   \* bound: committed mutations

\* An await that raises (embed ... error), a timeout, a crash of the process;
\* a time to live that runs out, a full store, an operator's /cache/clear.
EventKinds == {"embed", "retrieve", "epoch", "lookup", "upsert", "bump",
               "delete", "error", "timeout", "crash", "expiry", "full", "clear"}
Endpoints == {"ask", "generate-sql"}

ASSUME KeysAssumption == Keys # {}
ASSUME SimilarAssumption == Similar \subseteq Keys \X Keys
ASSUME BlockedAssumption == Blocked \subseteq Keys
ASSUME CallsAssumption == Calls \in [Requests -> SUBSET (Endpoints \X Keys)]
ASSUME EventsAssumption == Events \subseteq EventKinds
ASSUME FlagsAssumption == JsonbDecodes \in BOOLEAN /\ EmbedImports \in BOOLEAN
ASSUME BoundAssumption == MaxKnowledge \in Nat

VARIABLES
    kv,        \* version of the committed knowledge
    epoch,     \* nl2sql_cache_state.cache_epoch
    rows,      \* nl2sql_query_cache
    mem,       \* the in-memory stores ask_cache, sql_cache, semantic_sql_cache
    req,       \* the handlers' local state, per request
    mut,       \* the mutation handlers' local state
    ops,       \* progress of /cache/clear
    floor,     \* history: floor[e] is kv at the moment the epoch became e
    settled,   \* history: newest version whose mutation completed undisturbed
    settledEp  \* history: the epoch that mutation opened

vars == <<kv, epoch, rows, mem, req, mut, ops, floor, settled, settledEp>>

-----------------------------------------------------------------------------
(* Data.                                                                   *)

Stores    == {"ask", "sql", "semantic"}
\* How the SQL was produced: the obvious and the planned deterministic rules,
\* or the ReAct agent.
Paths     == {"obvious", "planned", "react"}

\* The store an endpoint's exact lookup uses, and its semantic lookup.
ExactStore(l) == IF l = "ask" THEN "ask" ELSE "sql"
SemStore(l)   == IF l = "ask" THEN "ask" ELSE "semantic"

MemEntry == [store: Stores, key: Keys, ver: Nat, path: Paths, emb: BOOLEAN]

\* pinned: cache_epoch was read before the lookup, not at the upsert.
\* own:    the SQL was generated by this very request, not taken from a cache.
Row == [end: Endpoints, key: Keys, epoch: Nat, ver: Nat, path: Paths,
        emb: BOOLEAN, pinned: BOOLEAN, own: BOOLEAN]

Steps == {"idle", "memExact", "retrieve", "obvious", "embed", "memSemantic",
          "epoch", "dbExact", "warmSemantic", "dbSemantic", "plan", "react",
          "reacting", "memStore", "semStore", "lateEpoch", "dbStore",
          "execute", "reembed", "finish", "done"}

Sources == {"none", "memory_exact", "memory_semantic", "db_exact", "db_semantic"}
Outs    == {"none", "ok", "turned_away", "timeout", "error"}

\* ep = 0 stands for cache_epoch None, ver = -1 and ret = -1 for "nothing yet".
ReqRecord == [kind: Endpoints, key: Keys, lay: Endpoints, pc: Steps,
              ep: [Endpoints -> Nat], pin: [Endpoints -> BOOLEAN],
              emb: [Endpoints -> BOOLEAN], ret: Nat \cup {-1},
              ver: Nat \cup {-1}, path: Paths, own: BOOLEAN,
              src: Sources, out: Outs, must: Nat]

MutKinds == {"teach", "ingest", "plain"}
MutRecord == [kind: MutKinds, pc: {"idle", "committed", "cleared"}, ver: Nat,
              quiet: BOOLEAN, reply: {"none", "ok", "failed"}]

InFlight(r) == req[r].pc \notin {"idle", "done"}

\* The locals of a handler that has not computed anything yet.
Blank(kind, key, pc, must) ==
    [kind |-> kind, key |-> key, lay |-> kind, pc |-> pc,
     ep |-> [l \in Endpoints |-> 0], pin |-> [l \in Endpoints |-> FALSE],
     emb |-> [l \in Endpoints |-> FALSE], ret |-> -1, ver |-> -1,
     path |-> "react", own |-> FALSE, src |-> "none", out |-> "none",
     must |-> must]

TypeOK ==
    /\ kv \in Nat
    /\ epoch \in Nat \ {0}
    /\ rows \subseteq Row
    /\ mem \subseteq MemEntry
    /\ req \in [Requests -> ReqRecord]
    /\ mut \in [Mutators -> MutRecord]
    /\ ops \in {"idle", "memory_cleared"}
    /\ floor \in [1..epoch -> Nat]
    /\ settled \in Nat
    /\ settledEp \in Nat

Init ==
    /\ kv = 0
    /\ epoch = 1
    /\ rows = {}
    /\ mem = {}
    /\ req = [r \in Requests |-> Blank("ask", CHOOSE k \in Keys : TRUE, "idle", 0)]
    /\ mut = [m \in Mutators |-> [kind |-> "teach", pc |-> "idle", ver |-> 0,
                                  quiet |-> FALSE, reply |-> "none"]]
    /\ ops = "idle"
    /\ floor = [e \in 1..1 |-> 0]
    /\ settled = 0
    /\ settledEp = 0

-----------------------------------------------------------------------------
(* The in-memory stores (core/cache.py) and the table (db/db.py).          *)

At(store, key) == {e \in mem : e.store = store /\ e.key = key}

\* A lookup by embedding skips entries stored without one and returns the best
\* score: the key itself when it is there, otherwise some similar key.
Nearest(key, S) ==
    LET near == {e \in S : e.emb /\ <<key, e.key>> \in Similar \cup {<<key, key>>}}
        self == {e \in near : e.key = key}
    IN  IF self # {} THEN self ELSE near

\* `set`: a store at its capacity drops its oldest entry first.
Put(m, store, key, ver, path, emb) ==
    (m \ {e \in m : e.store = store /\ e.key = key})
        \cup {[store |-> store, key |-> key, ver |-> ver, path |-> path, emb |-> emb]}

Evictions(store) ==
    {{}} \cup {{e} : e \in {x \in mem : x.store = store /\ "full" \in Events}}

\* The key (endpoint, normalized_query, top_k, cache_epoch) is unique.
Upsert(row) ==
    {x \in rows : ~(x.end = row.end /\ x.key = row.key /\ x.epoch = row.epoch)}
        \cup {row}

RowsAt(l, key, e) == {x \in rows : x.end = l /\ x.key = key /\ x.epoch = e}
RowsIn(l, e)      == {x \in rows : x.end = l /\ x.epoch = e}

-----------------------------------------------------------------------------
(* How a handler moves on.                                                 *)

Set(r, q) == req' = [req EXCEPT ![r] = q]

Goto(q, pc) == [q EXCEPT !.pc = pc]

\* The HTTP response leaves; the locals die with the handler.
Reply(q, out, src, ver) ==
    [Blank("ask", CHOOSE k \in Keys : TRUE, "done", q.must) EXCEPT
        !.out = out, !.src = src, !.ver = ver]

\* generate_sql returns an ok result: to the client, or to _run_ask_workflow.
Return(q, ver, path, own, src) ==
    IF q.kind = "ask"
    THEN [q EXCEPT !.lay = "ask", !.pc = "execute",
                   !.ver = ver, !.path = path, !.own = own]
    ELSE Reply(q, "ok", src, ver)

\* A cache hit answers the layer that looked it up.
Hit(q, e, src) ==
    IF q.lay = "ask" THEN Reply(q, "ok", src, e.ver)
                     ELSE Return(q, e.ver, e.path, FALSE, src)

\* Past the caches: /ask calls generate_sql, generate_sql tries its rules.
Miss(q) ==
    IF q.lay = "ask" THEN [q EXCEPT !.lay = "generate-sql", !.pc = "memExact"]
                     ELSE Goto(q, "plan")

-----------------------------------------------------------------------------
(* Lookups, shared by the two endpoints.                                   *)

\* A client calls an endpoint; the mutations under way are no longer alone.
Arrive(r) ==
    /\ ~InFlight(r)
    /\ \E c \in Calls[r] : Set(r, Blank(c[1], c[2], "memExact", settled))
    /\ mut' = [m \in Mutators |-> [mut[m] EXCEPT !.quiet = FALSE]]
    /\ UNCHANGED <<kv, epoch, rows, mem, ops, floor, settled, settledEp>>

\* generate_sql turns destructive and ambiguous questions away before any
\* lookup of its own; then the exact lookup in memory.
MemExact(r) ==
    LET q == req[r] IN
    /\ q.pc = "memExact"
    /\ \/ /\ q.lay = "generate-sql"
          /\ q.key \in Blocked
          /\ Set(r, Reply(q, "turned_away", "none", -1))
       \/ /\ ~(q.lay = "generate-sql" /\ q.key \in Blocked)
          /\ \E e \in At(ExactStore(q.lay), q.key) : Set(r, Hit(q, e, "memory_exact"))
       \/ /\ ~(q.lay = "generate-sql" /\ q.key \in Blocked)
          /\ At(ExactStore(q.lay), q.key) = {}
          /\ Set(r, Goto(q, IF q.lay = "ask" THEN "embed" ELSE "retrieve"))
    /\ UNCHANGED <<kv, epoch, rows, mem, mut, ops, floor, settled, settledEp>>

\* generate_sql: the retrieval of the obvious-rule precheck, then the rule.
Retrieve(r) ==
    LET q == req[r] IN
    /\ q.pc = "retrieve"
    /\ \/ Set(r, [q EXCEPT !.pc = "obvious", !.ret = kv])
       \/ "retrieve" \in Events /\ Set(r, Goto(q, "embed"))
    /\ UNCHANGED <<kv, epoch, rows, mem, mut, ops, floor, settled, settledEp>>

\* build_deterministic_sql, its validation and EXPLAIN, succeed or not.
Obvious(r) ==
    LET q == req[r] IN
    /\ q.pc = "obvious"
    /\ \/ Set(r, [q EXCEPT !.pc = "memStore", !.ver = q.ret,
                           !.path = "obvious", !.own = TRUE])
       \/ Set(r, Goto(q, "embed"))
    /\ UNCHANGED <<kv, epoch, rows, mem, mut, ops, floor, settled, settledEp>>

\* The query embedding, or None when loading it raises.  generate_sql then
\* repeats a retrieval that failed; a failing candidate check is not caught.
Embed(r) ==
    LET q == req[r] IN
    /\ q.pc = "embed"
    /\ \/ /\ q.lay = "ask" \/ EmbedImports
          /\ \E ret \in IF q.lay = "generate-sql" /\ q.ret = -1
                        THEN {kv} \cup (IF "retrieve" \in Events THEN {-1} ELSE {})
                        ELSE {q.ret} :
                Set(r, [q EXCEPT !.pc = "memSemantic", !.emb[q.lay] = TRUE, !.ret = ret])
       \/ /\ "embed" \in Events \/ (q.lay = "generate-sql" /\ ~EmbedImports)
          /\ Set(r, Goto(q, "memSemantic"))
       \/ /\ "error" \in Events
          /\ q.lay = "ask" \/ EmbedImports
          /\ Set(r, Reply(q, "error", "none", -1))
    /\ UNCHANGED <<kv, epoch, rows, mem, mut, ops, floor, settled, settledEp>>

MemSemantic(r) ==
    LET q == req[r]
        near == IF q.emb[q.lay]
                THEN Nearest(q.key, {e \in mem : e.store = SemStore(q.lay)}) ELSE {}
    IN
    /\ q.pc = "memSemantic"
    /\ \/ \E e \in near : Set(r, Hit(q, e, "memory_semantic"))
       \/ near = {} /\ Set(r, Goto(q, "epoch"))
    /\ UNCHANGED <<kv, epoch, rows, mem, mut, ops, floor, settled, settledEp>>

\* get_query_cache_epoch; a failure skips the whole database lookup.
ReadEpoch(r) ==
    LET q == req[r] IN
    /\ q.pc = "epoch"
    /\ \/ Set(r, [q EXCEPT !.pc = "dbExact", !.ep[q.lay] = epoch, !.pin[q.lay] = TRUE])
       \/ "epoch" \in Events /\ Set(r, Miss(q))
    /\ UNCHANGED <<kv, epoch, rows, mem, mut, ops, floor, settled, settledEp>>

\* get_query_cache_exact under the epoch read above.  A found row warms the
\* memory store; when response_json does not decode, the raise is swallowed.
DbExact(r) ==
    LET q == req[r]
        found == RowsAt(q.lay, q.key, q.ep[q.lay])
    IN
    /\ q.pc = "dbExact"
    /\ \/ /\ found = {}
          /\ Set(r, IF q.emb[q.lay] THEN Goto(q, "dbSemantic") ELSE Miss(q))
          /\ UNCHANGED mem
       \/ /\ JsonbDecodes
          /\ \E x \in found, ev \in Evictions(ExactStore(q.lay)) :
                /\ mem' = Put(mem \ ev, ExactStore(q.lay), q.key, x.ver, x.path, q.emb[q.lay])
                /\ Set(r, IF q.lay = "generate-sql" /\ q.emb[q.lay]
                          THEN [q EXCEPT !.pc = "warmSemantic", !.ver = x.ver, !.path = x.path]
                          ELSE Hit(q, x, "db_exact"))
       \/ /\ "lookup" \in Events \/ (found # {} /\ ~JsonbDecodes)
          /\ Set(r, Miss(q))
          /\ UNCHANGED mem
    /\ UNCHANGED <<kv, epoch, rows, mut, ops, floor, settled, settledEp>>

\* generate_sql warms semantic_sql_cache only after emitting a trace event.
WarmSemantic(r) ==
    LET q == req[r] IN
    /\ q.pc = "warmSemantic"
    /\ \E ev \in Evictions("semantic") :
          mem' = Put(mem \ ev, "semantic", q.key, q.ver, q.path, TRUE)
    /\ Set(r, Return(q, q.ver, q.path, FALSE, "db_exact"))
    /\ UNCHANGED <<kv, epoch, rows, mut, ops, floor, settled, settledEp>>

\* get_query_cache_semantic: the hit is stored under the key asked for.
DbSemantic(r) ==
    LET q == req[r]
        near == Nearest(q.key, RowsIn(q.lay, q.ep[q.lay]))
    IN
    /\ q.pc = "dbSemantic"
    /\ \/ /\ near = {} \/ ~JsonbDecodes \/ "lookup" \in Events
          /\ Set(r, Miss(q))
          /\ UNCHANGED mem
       \/ /\ JsonbDecodes
          /\ \E x \in near, ev \in Evictions(ExactStore(q.lay)) :
                /\ mem' = LET m == Put(mem \ ev, ExactStore(q.lay), q.key, x.ver, x.path, TRUE)
                          IN  IF q.lay = "ask" THEN m
                              ELSE Put(m, "semantic", q.key, x.ver, x.path, TRUE)
                /\ Set(r, Hit(q, x, "db_semantic"))
    /\ UNCHANGED <<kv, epoch, rows, mut, ops, floor, settled, settledEp>>

-----------------------------------------------------------------------------
(* generate_sql past its caches.                                           *)

\* _try_deterministic_generation: needs an embedding, reuses the retrieval of
\* the precheck and repeats it only if there is none.
Plan(r) ==
    LET q == req[r] IN
    /\ q.pc = "plan"
    /\ \/ /\ q.emb["generate-sql"]
          /\ Set(r, [q EXCEPT !.pc = "memStore", !.path = "planned", !.own = TRUE,
                              !.ver = IF q.ret = -1 THEN kv ELSE q.ret])
       \/ Set(r, Goto(q, "react"))
       \/ /\ q.emb["generate-sql"] /\ "error" \in Events
          /\ Set(r, Reply(q, "error", "none", -1))
    /\ UNCHANGED <<kv, epoch, rows, mem, mut, ops, floor, settled, settledEp>>

\* The ReAct agent begins its own retrieval ...
React(r) ==
    LET q == req[r] IN
    /\ q.pc = "react"
    /\ Set(r, [q EXCEPT !.pc = "reacting", !.ver = kv, !.path = "react", !.own = TRUE])
    /\ UNCHANGED <<kv, epoch, rows, mem, mut, ops, floor, settled, settledEp>>

\* ... and ends with validated SQL (the review gate only adds a warning), a
\* clarification or a rejection, or overruns sql_generation_timeout.
ReactEnds(r) ==
    LET q == req[r] IN
    /\ q.pc = "reacting"
    /\ \/ Set(r, Goto(q, "memStore"))
       \/ Set(r, Reply(q, "turned_away", "none", -1))
       \/ "error" \in Events /\ Set(r, Reply(q, "error", "none", -1))
    /\ UNCHANGED <<kv, epoch, rows, mem, mut, ops, floor, settled, settledEp>>

\* sql_cache.set, with semantic_sql_cache.set when the embedding is at hand;
\* the obvious path never stores an embedding.
SqlMemStore(r) ==
    LET q == req[r] IN
    /\ q.pc = "memStore" /\ q.lay = "generate-sql"
    /\ \E ev \in Evictions("sql") :
          mem' = LET m == Put(mem \ ev, "sql", q.key, q.ver, q.path, FALSE)
                 IN  IF q.emb["generate-sql"]
                     THEN Put(m, "semantic", q.key, q.ver, q.path, TRUE) ELSE m
    /\ Set(r, Goto(q, IF q.path = "react" /\ ~q.emb["generate-sql"] THEN "semStore"
                      ELSE IF q.ep["generate-sql"] = 0 THEN "lateEpoch" ELSE "dbStore"))
    /\ UNCHANGED <<kv, epoch, rows, mut, ops, floor, settled, settledEp>>

\* A missing embedding is loaded once more before the semantic store.
SqlSemStore(r) ==
    LET q == req[r]
        next == IF q.ep["generate-sql"] = 0 THEN "lateEpoch" ELSE "dbStore"
    IN
    /\ q.pc = "semStore"
    /\ \/ /\ EmbedImports
          /\ Set(r, [q EXCEPT !.pc = next, !.emb["generate-sql"] = TRUE])
          /\ \E ev \in Evictions("semantic") :
                mem' = Put(mem \ ev, "semantic", q.key, q.ver, q.path, TRUE)
       \/ /\ ~EmbedImports \/ "embed" \in Events
          /\ Set(r, Goto(q, next))
          /\ UNCHANGED mem
    /\ UNCHANGED <<kv, epoch, rows, mut, ops, floor, settled, settledEp>>

\* Leaving the cache write of a layer.
Stored(q) == IF q.lay = "ask" THEN Goto(q, "finish")
             ELSE Return(q, q.ver, q.path, q.own, "none")

\* `cache_epoch or await get_query_cache_epoch(pool)`: an epoch that was not
\* read before the generation is read after it.
LateEpoch(r) ==
    LET q == req[r] IN
    /\ q.pc = "lateEpoch"
    /\ \/ Set(r, [q EXCEPT !.pc = "dbStore", !.ep[q.lay] = epoch, !.pin[q.lay] = FALSE])
       \/ "epoch" \in Events /\ Set(r, Stored(q))
    /\ UNCHANGED <<kv, epoch, rows, mem, mut, ops, floor, settled, settledEp>>

\* MUTANT of DbStore: the epoch is read again at the upsert.
DbStoreRereadsEpoch(r) ==
    LET q == req[r] IN
    /\ q.pc = "dbStore"
    /\ rows' = Upsert([end |-> q.lay, key |-> q.key, epoch |-> epoch,
                       ver |-> q.ver, path |-> q.path, emb |-> q.emb[q.lay],
                       pinned |-> q.pin[q.lay], own |-> q.own])
    /\ Set(r, Stored(q))
    /\ UNCHANGED <<kv, epoch, mem, mut, ops, floor, settled, settledEp>>

\* upsert_query_cache_entry under that epoch, whatever the epoch is by now.
DbStore(r) ==
    LET q == req[r] IN
    /\ q.pc = "dbStore"
    /\ \/ rows' = Upsert([end |-> q.lay, key |-> q.key, epoch |-> q.ep[q.lay],
                          ver |-> q.ver, path |-> q.path, emb |-> q.emb[q.lay],
                          pinned |-> q.pin[q.lay], own |-> q.own])
       \/ "upsert" \in Events /\ UNCHANGED rows
    /\ Set(r, Stored(q))
    /\ UNCHANGED <<kv, epoch, mem, mut, ops, floor, settled, settledEp>>

-----------------------------------------------------------------------------
(* _run_ask_workflow after generate_sql.                                   *)

\* MySQL execution and answer generation: an answer, or a rejection.
Execute(r) ==
    LET q == req[r] IN
    /\ q.pc = "execute"
    /\ \/ Set(r, Goto(q, IF ~q.emb["ask"] /\ q.path = "react" THEN "reembed" ELSE "memStore"))
       \/ Set(r, Reply(q, "turned_away", "none", -1))
    /\ UNCHANGED <<kv, epoch, rows, mem, mut, ops, floor, settled, settledEp>>

AskReembed(r) ==
    LET q == req[r] IN
    /\ q.pc = "reembed"
    /\ \/ Set(r, [q EXCEPT !.pc = "memStore", !.emb["ask"] = TRUE])
       \/ "embed" \in Events /\ Set(r, Goto(q, "memStore"))
    /\ UNCHANGED <<kv, epoch, rows, mem, mut, ops, floor, settled, settledEp>>

\* ask_cache.set looks at no epoch.
AskMemStore(r) ==
    LET q == req[r] IN
    /\ q.pc = "memStore" /\ q.lay = "ask"
    /\ \E ev \in Evictions("ask") :
          mem' = Put(mem \ ev, "ask", q.key, q.ver, q.path, q.emb["ask"])
    /\ Set(r, Goto(q, IF q.ep["ask"] = 0 THEN "lateEpoch" ELSE "dbStore"))
    /\ UNCHANGED <<kv, epoch, rows, mut, ops, floor, settled, settledEp>>

Finish(r) ==
    LET q == req[r] IN
    /\ q.pc = "finish"
    /\ Set(r, Reply(q, "ok", "none", q.ver))
    /\ UNCHANGED <<kv, epoch, rows, mem, mut, ops, floor, settled, settledEp>>

\* asyncio.wait_for(_run_ask_workflow): the cancellation lands on any await.
AskTimeout(r) ==
    LET q == req[r] IN
    /\ "timeout" \in Events
    /\ InFlight(r) /\ q.kind = "ask"
    /\ \/ q.lay = "generate-sql"
       \/ q.pc \in {"execute", "reembed", "memStore", "lateEpoch", "dbStore", "finish"}
    /\ Set(r, Reply(q, "timeout", "none", -1))
    /\ UNCHANGED <<kv, epoch, rows, mem, mut, ops, floor, settled, settledEp>>

-----------------------------------------------------------------------------
(* Mutations of the knowledge base.                                        *)

\* The rows of an instruction, a pattern or a schema chunk are committed.
Commit(m) ==
    /\ mut[m].pc = "idle"
    /\ kv < MaxKnowledge
    /\ kv' = kv + 1
    /\ \E kind \in MutKinds :
          mut' = [mut EXCEPT ![m] =
                    [kind |-> kind, pc |-> "committed", ver |-> kv + 1,
                     quiet |-> \A r \in Requests : ~InFlight(r), reply |-> "none"]]
    /\ UNCHANGED <<epoch, rows, mem, req, ops, floor, settled, settledEp>>

\* POST /ingest and DELETE /instructions/{id} return without invalidating.
PlainReply(m) ==
    /\ mut[m].pc = "committed" /\ mut[m].kind = "plain"
    /\ mut' = [mut EXCEPT ![m].pc = "idle", ![m].reply = "ok"]
    /\ UNCHANGED <<kv, epoch, rows, mem, req, ops, floor, settled, settledEp>>

\* MUTANT of ClearMemory: one of the three stores is forgotten.
ClearMemoryButSql(m) ==
    /\ mut[m].pc = "committed" /\ mut[m].kind # "plain"
    /\ mem' = {e \in mem : e.store = "sql"}
    /\ mut' = [mut EXCEPT ![m].pc = "cleared"]
    /\ UNCHANGED <<kv, epoch, rows, req, ops, floor, settled, settledEp>>
ClearMemoryButSemantic(m) ==
    /\ mut[m].pc = "committed" /\ mut[m].kind # "plain"
    /\ mem' = {e \in mem : e.store = "semantic"}
    /\ mut' = [mut EXCEPT ![m].pc = "cleared"]
    /\ UNCHANGED <<kv, epoch, rows, req, ops, floor, settled, settledEp>>

\* _invalidate_query_caches, up to its await.
ClearMemory(m) ==
    /\ mut[m].pc = "committed" /\ mut[m].kind # "plain"
    /\ mem' = {}
    /\ mut' = [mut EXCEPT ![m].pc = "cleared"]
    /\ UNCHANGED <<kv, epoch, rows, req, ops, floor, settled, settledEp>>

\* MUTANT of Bump: only the memory is invalidated.
BumpForgotten(m) ==
    /\ mut[m].pc = "cleared"
    /\ mut' = [mut EXCEPT ![m].pc = "idle", ![m].reply = "ok"]
    /\ settled' = IF mut[m].quiet /\ mut[m].ver > settled THEN mut[m].ver ELSE settled
    /\ UNCHANGED <<kv, epoch, rows, mem, req, ops, floor, settledEp>>

\* MUTANT of Bump: the bump is left to another mutation that is about to bump.
BumpCoalesced(m) ==
    /\ mut[m].pc = "cleared"
    /\ mut' = [mut EXCEPT ![m].pc = "idle", ![m].reply = "ok"]
    /\ IF \E n \in Mutators \ {m} : mut[n].pc = "cleared"
       THEN UNCHANGED <<epoch, floor>>
       ELSE /\ epoch' = epoch + 1
            /\ floor' = [e \in 1..(epoch + 1) |-> IF e = epoch + 1 THEN kv ELSE floor[e]]
    /\ UNCHANGED <<kv, rows, mem, req, ops, settled, settledEp>>

\* bump_query_cache_epoch commits and the handler replies.
Bump(m) ==
    /\ mut[m].pc = "cleared"
    /\ epoch' = epoch + 1
    /\ floor' = [e \in 1..(epoch + 1) |-> IF e = epoch + 1 THEN kv ELSE floor[e]]
    /\ mut' = [mut EXCEPT ![m].pc = "idle", ![m].reply = "ok"]
    /\ IF mut[m].quiet
       THEN /\ settled' = IF mut[m].ver > settled THEN mut[m].ver ELSE settled
            /\ settledEp' = epoch + 1
       ELSE UNCHANGED <<settled, settledEp>>
    /\ UNCHANGED <<kv, rows, mem, req, ops>>

\* The bump raises: /teach answers REJECTED, /ingest/... an error, although
\* the knowledge is committed.
BumpFails(m) ==
    /\ "bump" \in Events
    /\ mut[m].pc = "cleared"
    /\ mut' = [mut EXCEPT ![m].pc = "idle", ![m].reply = "failed"]
    /\ UNCHANGED <<kv, epoch, rows, mem, req, ops, floor, settled, settledEp>>

-----------------------------------------------------------------------------
(* /cache/clear, expiry, restart.                                          *)

OpsClearMemory ==
    /\ "clear" \in Events
    /\ ops = "idle"
    /\ ops' = "memory_cleared"
    /\ mem' = {}
    /\ UNCHANGED <<kv, epoch, rows, req, mut, floor, settled, settledEp>>

OpsDeleteRows ==
    /\ ops = "memory_cleared"
    /\ ops' = "idle"
    /\ rows' = {} \/ ("delete" \in Events /\ UNCHANGED rows)
    /\ UNCHANGED <<kv, epoch, mem, req, mut, floor, settled, settledEp>>

\* An entry outlives its time to live and is dropped by the next lookup.
Expire ==
    /\ "expiry" \in Events
    /\ \E e \in mem : mem' = mem \ {e}
    /\ UNCHANGED <<kv, epoch, rows, req, mut, ops, floor, settled, settledEp>>

\* The process dies: memory and handlers are lost, PostgreSQL is not.
Restart ==
    /\ "crash" \in Events
    /\ mem' = {}
    /\ req' = [r \in Requests |-> Blank("ask", CHOOSE k \in Keys : TRUE, "idle", 0)]
    /\ mut' = [m \in Mutators |-> [mut[m] EXCEPT !.pc = "idle", !.quiet = FALSE,
                  !.reply = IF mut[m].pc = "idle" THEN @ ELSE "failed"]]
    /\ ops' = "idle"
    /\ UNCHANGED <<kv, epoch, rows, floor, settled, settledEp>>

-----------------------------------------------------------------------------
Handler(r) ==
    \/ MemExact(r) \/ Retrieve(r) \/ Obvious(r) \/ Embed(r) \/ MemSemantic(r)
    \/ ReadEpoch(r) \/ DbExact(r) \/ WarmSemantic(r) \/ DbSemantic(r) \/ Plan(r)
    \/ React(r) \/ ReactEnds(r) \/ SqlMemStore(r) \/ SqlSemStore(r) \/ LateEpoch(r)
    \/ DbStore(r) \/ Execute(r) \/ AskReembed(r) \/ AskMemStore(r) \/ Finish(r)

Mutation(m) ==
    Commit(m) \/ PlainReply(m) \/ ClearMemory(m) \/ Bump(m) \/ BumpFails(m)

Next ==
    \/ \E r \in Requests : Arrive(r) \/ Handler(r) \/ AskTimeout(r)
    \/ \E m \in Mutators : Mutation(m)
    \/ OpsClearMemory \/ OpsDeleteRows \/ Expire \/ Restart

Spec == Init /\ [][Next]_vars

-----------------------------------------------------------------------------
(* Properties.                                                             *)

\* A stored answer is as fresh as its epoch claims: a row written under an
\* epoch that its request had read before generating holds nothing older than
\* the knowledge that was committed when that epoch began (upsert under the
\* captured cache_epoch, commit before bump).  The rows excluded are named in
\* the README: those of a request that reused cached SQL or took the epoch
\* after generating, and deterministic SQL planned from an earlier retrieval.
EpochRowsFresh ==
    \A x \in rows :
        x.pinned /\ x.own /\ (x.end = "ask" \/ x.path = "react")
            => x.ver >= floor[x.epoch]

\* Read your teaching: once a mutation has completed with no question in
\* flight meanwhile, every later answer of either endpoint, from whichever
\* cache layer or from the pipeline, reflects it.
QuietTeachIsRead ==
    \A r \in Requests : req[r].out = "ok" => req[r].ver >= req[r].must

\* A knowledge-changing call that reports success has moved the epoch past its
\* own commit, so no row of an earlier epoch can be served for it.
OkReplyMovedEpoch ==
    \A m \in Mutators :
        mut[m].reply = "ok" /\ mut[m].kind # "plain" => floor[epoch] >= mut[m].ver

=============================================================================
