# A verification project for the NL2SQL service

`nl2sql_service` answers questions about a MySQL database: it retrieves schema
knowledge from PostgreSQL (pgvector), lets a ReAct agent write and validate
SQL, executes it and words an answer. This directory holds TLA+ models of its
control: what the handlers do between awaits, what they share, and what can go
wrong between two of their steps.

## 1. Inventory

The service is one asyncio process (uvicorn, one worker): code between two
`await`s is atomic, and everything below interleaves only at awaits. PostgreSQL
is shared and survives restarts; everything else is process memory.

| Component | Source | State it keeps | Operations | What is hard |
|---|---|---|---|---|
| Query cache | `main.py`, `generation/sql_generator.py`, `db/db.py`, `core/cache.py` | `ask_cache`, `sql_cache`, `semantic_sql_cache`, table `nl2sql_query_cache`, `cache_epoch` | lookup (4 layers), store, invalidate, `/cache/clear` | epochs captured before and used after awaits, clear-then-bump, swallowed failures, restart |
| ReAct agent | `agent/react_executor.py`, `react_planner.py`, `react_parser.py` | one run's observations, current SQL, counters, deadline | plan, act, validate, recover | termination, which SQL may be returned, guards that rewrite actions |
| Connection pool | `main.py` (lifespan, `_handle_db_error`, `_try_reconnect_pool`), `db/db.py` | `app.state.pool`, the global `_pool`, reconnect lock and time | require, reconnect, drop on error, shutdown | check-lock-check, a late failure closing a new pool |
| `/ask/stream`, `/ask` and `/generate-sql` as they report | `main.py` | the lines sent, the recorder's queue and number, the task awaited, background log tasks | poll, relay, reject, time out, disconnect, log, learn | one final line on every path, a task cancelled as it ends, events of two tasks, a log before the last await |
| Trace pipeline | `observability/logger.py` | bounded queue, batch, worker task | publish, collect, flush, persist, stop | overflow, sentinel behind late events, failing persistence |
| Interactive teaching | `storage/instruction_store.py`, `main.py` | tables of rules and of pending confirmations | teach, confirm, replace, reject, delete, expire, clean up | two confirmations of one token, counts out of date at the limit, multi-step replace |
| Circuit breaker, retries, fallback | `llm/providers/*.py`, `llm/adapters/openai.py`, `llm/factory.py` | failures and open-until per provider and model | call, retry, fall back, cancel | calls begun before the circuit opened, late answers, an open circuit in a chain |
| Provider and model registry | `storage/provider_store.py`, `main.py` | tables of providers, keys, models; live routing in `settings` | create, update, deactivate, set default, switch a role | default cleared and set, a key that dies between look-up and use, two copies of the routing, JSONB that does not decode |
| Rate limiter | `core/rate_limiter.py` | token bucket per address | let through, turn away, let past uncharged (host `testserver`) | refill and charge in one call, the rim of the bucket |
| Ingestion, pattern store | `rag/ingest.py`, `rag/chunker.py`, `rag/embed.py`, `storage/pattern_store.py` | table `nl2sql_embeddings`; the files, rules and patterns it is made from | read, filter, embed, upsert, invalidate; edit, deactivate, delete | decisions taken before the embedding call, version comparison, row locks of two transactions |
| Retrieval | `rag/retrieve.py`, `generation/query_rewriter.py` | none | rank, merge, expand | pure ranking |
| MySQL executor, EXPLAIN | `db/mysql_executor.py`, `generation/sql_generator.py` | none (one connection per call) | connect, execute, cap rows | timeout of a thread that cannot be killed |
| Evaluation | `evaluation/*` | the runs of a benchmark and their verdicts | ask, read the trace, read the failure log, assess, report | a trace read while it is written, the limiter, bounded concurrency |
| Help, CLI, MCP server, scripts | `help_docs.py`, `help_tui.py`, `mcp_server`, `scripts` | none | text and one-shot batch jobs | nothing concurrent |

How they interact. `/ask` looks in the cache, then calls `generate_sql`, which
looks in its own cache layers, then calls the ReAct agent; the agent calls
retrieval, the LLM (through fallback and circuit breaker) and EXPLAIN; `/ask`
then executes on MySQL, words the answer and stores it. `/teach` and
`/ingest/...` commit knowledge and then invalidate the cache. Every handler
obtains its PostgreSQL pool from the pool manager and emits trace events into
the trace pipeline. The limiter stands before `/ask`, `/generate-sql` and
`/ingest`; the evaluation is a client of the service in a process of its own.

## 2. The modules

### The query cache: `QueryCache`

`QueryCache` models the two-layer cache and everything that touches it.

*State.* `kv` is the version of the committed knowledge: the model abstracts an
answer to the version of the knowledge it was generated from, which is what
staleness is about. `epoch` and `rows` are the PostgreSQL side
(`nl2sql_cache_state`, `nl2sql_query_cache`), `mem` the three memory stores,
`req[r]` the locals of a running handler (`lay` says whether `/ask` itself or
the `generate_sql` it called is executing; `ep`, `pin`, `emb`, `ret`, `ver` are
`cache_epoch`, whether it was read before generating, `query_embedding`, the
retrieval, and the result), `mut[m]` a mutation handler, `ops` `/cache/clear`.
`floor`, `settled`, `settledEp` and the fields `pinned`, `own` of a row, `quiet`
and `must` are history: nothing in the code reads them and no guard but
those of history depends on them.

*Actions.* One per stretch of code between awaits that matters: `MemExact`,
`Embed`, `MemSemantic`, `ReadEpoch`, `DbExact`, `DbSemantic` are the lookup of
either endpoint (the code is written twice, `main.py:2560-2712` and
`sql_generator.py:1518-1732`; the differences are kept: `generate_sql` warms two
stores, the semantic one after a further await, needs its own embedding, and
turns blocked questions away); `Retrieve`, `Obvious`, `Plan`, `React`,
`ReactEnds` the generation; `SqlMemStore`, `SqlSemStore`, `LateEpoch`, `DbStore`
the store with its four awaits; `Execute`, `AskReembed`, `AskMemStore`, `Finish`
the rest of `/ask`; `AskTimeout` the cancellation by `wait_for` at any of them.
`Commit`, `ClearMemory`, `Bump`, `BumpFails` are a mutation, `PlainReply` one
that does not invalidate (`POST /ingest`, `DELETE /instructions/{id}`, and the
pattern that a successful `/ask` saves in the background).

*Failures* are members of `Events`, so each run chooses which may happen. Two
constants carry two defects of the code: `JsonbDecodes = FALSE` and
`EmbedImports = FALSE` is the code as it stands, `TRUE` the repaired code. The
passing runs and the proofs cover both, because with the defects in place two
of the four cache layers are dead and their interleavings would go unexamined.

*Properties.*
`EpochRowsFresh`: a row stored under an epoch that its request read before
generating is at least as new as the knowledge at the moment that epoch began.
Three kinds of rows are excluded, because the code does not promise it for them:
rows of a request that never read an epoch and took it after generating
(`pinned`: the obvious-rule path, or a failed epoch read), rows of an `/ask`
that reused SQL it found in a cache (`own`), and SQL of the deterministic rules,
whose retrieval precedes the epoch read (`path`); for `/ask` the last does not
arise since it reads its epoch first. These windows are real: a stale answer can
be stored under the new epoch there.
`QuietTeachIsRead`: when a mutation completed with no request in flight, every
later ok answer, from any layer, reflects it. Requests that overlap a mutation
may re-fill the memory stores with old answers; the property says exactly what
is left.
`OkReplyMovedEpoch`: a mutation that invalidates and answers ok has moved the
epoch past its own commit, with other mutations interleaved.

*Where the code departs from its documents.* No row of the exact database layer
is ever used: `db.py:1235` does `dict(row["response_json"])` while no jsonb codec
is registered, so asyncpg hands over text, `dict` raises and the caller swallows
it (README.md:432-434 lists the layer). `/generate-sql` never finds SQL of a
similar question: `sql_generator.py:730` imports a module that does not exist
(ROUTES.md:912-916 lists the semantic lookups). These are `JsonbDecodes` and
`EmbedImports`. ROUTES.md:21-22 promises an epoch bump of every ingest mutation,
which `POST /ingest` and `DELETE /instructions/{id}` do not do: in the model they
are the mutations of kind `"plain"`.

*Runs and bounds.*

| Run | Instance | Shows |
|---|---|---|
| `cache_similar` | repaired code, two generators of similar questions, one mutation | `EpochRowsFresh`, `QuietTeachIsRead` |
| `cache_model_faults` | repaired code, one `/ask`, failing models, timeout, `/cache/clear` | `QuietTeachIsRead` |
| `cache_store_faults` | the code as it stands, one generator, two mutations, failing PostgreSQL, restart, expiry | `EpochRowsFresh`, `OkReplyMovedEpoch` |

One mutation suffices to make an answer old, two to let
mutations race; two requests to let one store what the other reads; two
similar questions for the semantic layers. The invariants are proved for all
values, so the runs' job is to show that the actions fire and the properties can
break (the mutants). No fairness is assumed: all properties are safety.

*Proof.* `IInv` is the inductive invariant: `ShapeInv` (which locals are set at
which step), `FreshInv` (a result is at least as new as the floor of the epoch
pinned before it was computed), `SettledInv` (nothing in flight is older than
the last undisturbed mutation), `RowInv` and `EntryInv` (nothing stored is
either), `MutInv` (while a mutation is undisturbed no handler runs, so what it
cleared stays empty), `ClockInv`. The properties alone are not inductive: a row
is written from a handler's locals, so its freshness needs theirs. There is one
lemma per action; `HandlerStep` and `MutatorStep` factor what they share. The
proof uses only the assumptions on the constants in `QueryCache`.


### The ReAct agent: `ReActAgent`, `CheckedGeneration`

**What it models.** One call of `react_executor.run` inside
`generate_sql`'s `wait_for`. Each action is a stretch of code between two
awaits: the retrieval of groups and of columns are separate steps because the
corrections lookup of iteration 1 runs beside them in `asyncio.gather`; the head
of the loop (exhausted, deadline, forced actions, memory guard, confidence,
planning model) is one action per choice; focusing, drafting, the static checks
and EXPLAIN follow. Model and database answers are free choices. A schema group
is the set of tables it lists, a SQL text the set of tables it reads and the
faults the checks can see. Lists are sets: where the code truncates an ordered
list (`focus[:2]`, `tables[:max]`) the model allows any choice of that size.
`columns_refreshed_tables`, `retrieved_schema` and `allowed_columns` always have
the same keys and are one variable.

**What the runs show.**

| Run | Instance | Shows |
|---|---|---|
| `react` | 2 tables, 2 overlapping groups, cap of 1 table, 2 drafts, every SQL text, questions that skip the corrections step and such that do not | `AnswerIsChecked`, `RepairSeesErrors`, `DraftsAreFocused`, `ExhaustedMeansTried`, that the agent implements `CheckedGeneration`, and `Terminates` under fairness |

The cap (`MaxTables`) is below the number of tables so that focusing cuts, two
drafts suffice to see a repair and an exhaustion, one join path suffices to link
two focused tables, and two instruction texts let the memory guard both pass and
block a samples lookup. The confidence score is computed with the defaults of
`core/config.py`, in integers.

**Credit before the answer.** When a draft passes, `run` starts the task that
credits the instructions (react_executor.py:1556) and then awaits the trace event
of its answer (1563) before it returns. `ExplainPasses` and `Return` are two
actions for that reason, and `Cancel` may come between: the instructions keep
their credit, the client is told REQUEST_TIMEOUT. `FeedbackMatches` and
`CheckedGeneration` say exactly this (every answer is credited, credit without an
answer goes only to a checked draft whose request timed out), not that credit
and answer coincide.

**Columns.** `validate_columns_used` passes every text while no column of its
tables is loaded, and is exact when all tables of the text have columns. In
between it skips columns qualified by an unknown table and refuses unqualified
ones that no loaded table has, right or wrong; there a text may be accepted or
refused (`Acceptable`, `Refusable`). The `react` run writes for one table at a
time, where the middle case does not arise; the proofs cover it.

**A repeated retrieval.** The README of the service (line 254) says that a duplicate retrieval is blocked
within a request. The memory guard does block it, but the broad-scope rule
(react_executor.py:1290) replaces GENERATE_SQL by a retrieval *after* the guard.
While no column can be loaded for a scope larger than the cap, the same
retrieval repeats, does not count as an iteration, and ends only with the time
budget: `Terminates` needs the deadline.

**Fairness.** `FairSpec` assumes that time passes, that code which is ready runs,
and that `wait_for` delivers its cancellation. It assumes nothing of databases
and models, so `Terminates` says that a run ends although they hang.

**Proved** (`ReActAgentProofs`), for all tables, groups, limits and drafts: types, the
four safety properties above, `FeedbackMatches` and `ContractKept`, the implementation of
`CheckedGeneration`. The inductive invariant adds to them how `count` and
`planned` move together (`BudgetInv`: equal outside a check, one apart inside),
what is known of the draft at each point (`DraftInv`), for what it was written
(`FocusInv`), and how answer, reason and feedback go together (`VerdictInv`).
The contract's draft is "passed" from the credit on. `BudgetInv` is needed because the contract bounds drafts while the code bounds
planner iterations. `Terminates` is model-checked only.

### The connection pool: `PoolLifecycle`

**What it models.** The life of the PostgreSQL pool in `main.py` and `db/db.py`.
Two references name it, `app.state.pool` (`current`) and the global `db._pool`
(`handle`), and the code assigns them at different moments. The processes are
the lifespan task (`Server`) and the requests. `pc[p]` is what a process
awaits: setting a pool up is `connect`, `extension`, `pool` (the three awaits of
`create_pool`: the raw connection, `CREATE EXTENSION` with the close of that
connection, the pool itself), `bootstrap`, `bootstrapped`, `index`, `indexed`
(the two releases of the connection are awaits of their own); a request is then
`ready` or runs a `query`. `close` waits in `Pool.close()` for all connections
of the pool to be released and `terminate` for them to be closed. `recent` stands for
`monotonic() - pool_last_reconnect_attempt < db_reconnect_min_interval`; the
reconnect lock is a holder and a queue, since `asyncio.Lock` is fair. `life[q]`
is asyncpg's side: a pool that is closing or closed raises `InterfaceError` on
acquire, for which no exception handler is registered, so the request ends in
an HTTP 500 (`"fault"`).

`SetUp(p)` is written once for the lifespan and for `_try_reconnect_pool`, which
run the same three calls; the lifespan takes no lock. `ClosePool` is the part of
`close_pool` before its await and `Closed` the part after it, which assigns
`None` to whatever the global is by then.

**What the runs show.**

| Run | Instance | Shows |
|---|---|---|
| `pool` | 3 requests, 2 pools, fairness of the timed awaits | `PublishedPoolStays`, `AttemptsApart`, `Answered` |
| `pool_closed` | the same | *finding*: `ClosedPoolIsDropped` fails |

Three requests are needed: one that fails, one that is still using the failed
pool, one that reconnects. The second pool is the one that matters; when both
pools have been created, `Connected` is no longer possible and an attempt can
only fail, which the code may do anyway.

**Finding.** A late failure on the old pool closes the new one while it is being
set up; it is then published closed. From then on every request gets a 500 and
nothing reconnects, because `_try_reconnect_pool` returns at once while
`app.state.pool` is set.

**Fairness.** `FairSpec`: requests keep coming, time passes, and every await
ends that the code gives a time-out: connecting and `asyncpg.create_pool`
(`db_connect_timeout`), statements on the pool's connections
(`command_timeout`). A handler makes finitely many calls: strong fairness of
`Answer`. Two awaits have no time-out and nothing is assumed of them
(`Untimed`): `CREATE EXTENSION` and `close()` on the raw connection of
`create_pool` (`db.py:86-89`, opened with a connect timeout only) and the closing
of a pool's connections. A database that accepts the connection and then stops
answering there keeps the request for ever, and, since the first of them runs
under `pool_reconnect_lock`, the queue behind it too. `Answered` therefore says
of each request: either every stay ends in an answer, or from some moment on it
is `Stalled`, in such an await or queueing for the lock of a process in one. What
it rules out is everything else: a lock that is not given back, a request that
waits for a pool that waits for it.

**Proved** (`PoolLifecycleProofs`), for any number of requests and pools: types,
`OneSetup`, `PublishedPoolStays`, `AttemptsApart`. The inductive invariant says
that a request sets a pool up exactly while it holds the lock (`LockInv`), that
nothing is published meanwhile (`VacantInv`), and that requests run only
between the two halves of the lifespan (`ServingInv`): `PublishedPoolStays`
alone is not inductive, since `Publish` itself tests nothing. `Answered` is
model-checked only.

### Interactive teaching: `Teaching`

**What it models.** `POST /teach`, `POST /teach/confirm`,
`DELETE /instructions/{id}` and `POST /teach/pending/cleanup` over the two
PostgreSQL tables of `storage/instruction_store.py`. `rows` is
`nl2sql_user_instructions` (an id is a place in the sequence; rows are never
removed, only deactivated), `pending` is `nl2sql_pending_teach_confirmations`,
`expired` the tokens in it whose `expires_at` has passed. A request awaits one
SQL statement after another: `count`, `evict`, `insert` are `_store_pending`
(the two statements of the transaction in `_evict_pending`, and the INSERT
outside it), `deactivate` and `save` are the statements of
`process_confirmation`, `invalidate` is `_invalidate_query_caches`. Any of them
may fail, and the service may restart between any two.

Lessons are model values; `Clash` and `Overlap` are what `detect_conflict` and
`find_similar_instructions` can tell of two of them. The first statement of
`/teach` both reads and decides (`Teach`); both functions answer an error with
"nothing found" (`TeachUnchecked`). PostgreSQL runs the transaction of
`_evict_pending` at READ COMMITTED, so its DELETE acts on a table that may have
changed since its COUNT; the rollback of its first DELETE is left out, since an
expired row can do nothing but be deleted again. `uses`, the field `seen` of a row
and `changed` are of the model: how often a token acted, how many rules its
request had looked at, and whose changes have not reached the caches.

**What the runs show.**

| Run | Instance | Shows |
|---|---|---|
| `teach` | 2 clients, a rule that contradicts itself and a correction on the same table, `_MAX_PENDING` 1, 2 rows, 3 tokens | `TokenActsOnce`, `PendingBounded`, `NoSilentClash`, `RepliesTrue` |
| `teach_replace` | the same | *finding*: `ChangesInvalidate` fails |

Two clients can race for one token, evict on the count of before the other's
insert, and both look before either saves. With a limit of one the table is full
after the first question; two pending rows and an overflow of two come from the
race. Two rows are the rule that is asked about and its replacement; a third
token evicts one of two.

`PendingBounded` is what the code keeps of `_MAX_PENDING`: the limit can be
exceeded, by one row for each request but one that runs at the same time, and
not by more although counts are old. `NoSilentClash` speaks of the rules that
were there when a request looked; two requests that look at the same time do
save contradictory rules.

**Finding.** When a replacement has deactivated the old rule and then fails to
save the new one, the reply is `rejected`, the token is used up, and neither the
memory caches nor the epoch are touched: answers built on the old rule are
served on. ROUTES.md:749 promises the invalidation.

**Proved** (`TeachingProofs`), for any finite set of clients and any limits:
types, `TokenActsOnce`, `PendingBounded`, `NoSilentClash`, `RepliesTrue`. The
argument for `PendingBounded` is the invariant `Room`: the pending rows and the
requests that may insert without evicting any more stay below the limit plus
the number of requests; and a request that has counted an overflow makes enough
room for itself, whatever has been inserted since. `NoSilentClash` needs that
rules are never reactivated (`RowsLast`) and that what a request is about to
save contradicts nothing it looked at (`Looked`).

### Reporting: `AskStream`, `StreamProtocol`, `TracePipeline`

**What it models.** How `/ask/stream`, `/ask` and `/generate-sql` report on
themselves. The code of the three handlers is one table, `Code`: a label for each
operation (emit a trace event, say a line, drain the recorder's queue, log, start
a task, reply), with what it concerns and the label behind it. The table is in
parts (`Generating`, `Executing`, `Answering`, `Rejecting`, `TimingOutSql`,
`TimingOut`, `Replying`, `Closing`), one for each stage of the code; at the other
labels (`Waits`, `Checks`) a handler waits or looks at what a poll has found, and
an action of its own says how it goes on. `Act` and `Did` perform an operation,
and `Performed` all of them up to the next that suspends the handler (`Suspended`),
because asyncio gives the loop away only there. Beside the handler run its
generation or answer task, which emits trace events through the same recorder
(`TaskEmits`; the answer's are those of answer_generator.py:250-300 and of the
fallback chain, factory.py:92-152) and may be cancelled as it ends, and the
background task that writes the failure log.
`TracePipeline` is the queue, the worker and `stop`; without a pipeline (a startup
without a pool) `emit` awaits the insert itself, and only then queues the event
for the stream. `relay` is what a handler drained and has not sent yet, `settled`
the request and number of each event that the pipeline dropped or handed to
persistence. What models and databases answer is free. Each stage
emits at most `MaxEmits` events of its own: a generation, an answer and, in the
handler itself, what `/ask` embeds and retrieves for its cache (`CacheEmits`); a
task that returns has emitted one, one that raises need not have. The cache
look-up of `/ask` may also raise, to a plain HTTP 500 (`LookupRaises`): the test for
deterministic SQL (main.py:2606) is outside any `try`.

`Poll` and `CheckDone`/`CheckLate`/`CheckEarly` are apart because the handler
computes `done`, then relays queued lines, each of which suspends it, and only
then looks at `done` and the clock: the task may end in between. `Idle` keeps the
other processes out of the stretch when nothing was relayed.

**What the run shows.** `ask_stream` is one request of any of the three kinds, with
a pipeline or without one, a queue of one, a batch of two and one event of each
stage: enough for the queue to overflow, for a batch to flush on size, on
tick and on the sentinel, and for two emitters to interleave in both stages of the
stream. A second request
would share only the queue, whose overflow one request fills.
`KeepsProtocol`: the stream implements `StreamProtocol`, the documented order of
its lines with one final line. `TraceRelayed`: a stream that ended relayed every
event once, up to "complete". `NoWorkLeft`: a request that was answered leaves
no task at work. `OutcomeLogged`: the last log is the reply, and learning goes
with success. `NothingVanishes`: every event emitted is dropped at a full queue,
waits in order, or was handed to persistence; nothing is left in the batch of a
worker that has returned. `BudgetEnds` and `StopReturns` are liveness.

**Fairness.** asyncio runs ready callbacks in the order they became ready, so what
is ready again and again between two polls has its turn: strong fairness of the
pipeline, the clock, cancellation and log writes (`command_timeout`,
db.py:91-98, ends these), weak fairness of each handler. No model and no MySQL
server is assumed to answer, and nobody is assumed to stop the service.

**Proved** (`AskStreamProofs`), for any requests, queue, batch and number of trace
events: `TypeOK`, `TraceRelayed`, `NoWorkLeft`, `OutcomeLogged`, `NothingVanishes`,
and that `AskStream` implements `StreamProtocol` (`KeepsProtocol`). None of them is
inductive: they speak of requests that have been answered, and what makes them so
is where the handler has been before. `IInv` therefore says what is known at each
*label* of the table. For one request (`ReqInv`): which lines may be the last
(`LineKept`), which task may be awaited and in what state (`TaskKept`), what has been
logged and what will be replied (`LogKept`, after a timeout of `/ask` `LogLate`),
whether a pattern may have been saved (`SaveKept`), that the events relayed, drained
and queued are together the trace so far (`TraceKept`) and that "complete" is among
them where the final line is near (`CompleteKept`). For the pipeline: the worker's
state and the sentinel (`PipeKept`, `QueueKept`), and the account of the events
(`Flow`): settled or waiting, never both, in order, and as many as were numbered.

The table makes the argument short. Each part of `ReqInv` becomes a fact about one
row (`TypeFact`, `LineFact`, `TaskFact`, `LogFact`, ...), checked row by row for the
groups of the table, and one lemma for each kind of operation carries the invariant
over `Act`. `Rank` falls with every row and is at most 18, so a handler that performs
its operations reaches a suspended one within the twenty of `Performed`: this is
the part of `TypeOK` that says a step of the model never stops short of an await.
Then one lemma for each action. For the refinement every step is quiet (a
stutter), says one line that may follow the last (`OrderFact`: every line of the table
against every line that may precede it), breaks the stream or loses its reader.
`BudgetEnds` and `StopReturns` are liveness and stay with TLC.

**What the model shows of the code** that no document rules out or that departs
from one: an exception of the generation or answer task cuts the stream without
a final line, also when it is raised between the poll and the cancel, or by the
cleanup of a cancelled task (main.py:3326 suppresses `CancelledError` only,
README.md:293-296 promises a timeout and a final line); a reader that leaves
abandons the generator while its task goes on, and nothing is logged; events
published behind the sentinel are never persisted; without a pipeline a later
emit may overtake an earlier one that awaits its insert; `/ask` logs "ok" and then
"rejected" when its budget ends in the cache store, and nothing on a cache hit;
"failure context written" (main.py:465) is emitted whether or not it was, since
`db.insert_failure_log` swallows its errors; stream rejections other than
timeouts do not reach the failure log. Rows of the trace are unique by request id
and number, and the second of two equal ones is ignored, so a client that reuses
a request id gets a mixture of both traces.


### Models: `ModelCalls`, `ModelRegistry`

**What they model.** `ModelCalls` is a request to a language model: the chain of
targets of its role (`FallbackLLMProvider.generate`), the retry loop of
`_post_json`, and `_CIRCUITS`, one circuit per provider and model which all calls
share. A target answers well while it is in `up`; `Weather` changes that at any
time. The circuit is looked at once per target and call, by
`_circuit_open_response`, and written by every call that ends there: by its last
failed attempt and by any answer. `Cancel` is the caller's `wait_for`.

`ModelRegistry` is `storage/provider_store.py`, one action per function, over the
rows and flags of the three tables, together with the live routing, which the
process keeps in `settings` and which only `PATCH /config/active-model` brings
into agreement with the tables: set the default, look up a key, read its secret,
patch the settings, with an await and a possible failure between any two. Providers
and models have a `JSONB NOT NULL` column `extra_config`; `decodes`, chosen in the
initial state, says whether connections have a codec for it. **As the code stands
they have none** (`db.py` registers the vector codec only): `dict(...)` raises on
the text read (provider_store.py:32, 70), and a `dict` cannot be bound.
`create_provider`, `register_model`, `update_model`, `/set-default` and
`PATCH /config/active-model` then fail, whatever is in the tables; the others work,
and `update_provider` commits before it fails to read the row back. The tables
start empty or as an operator may have filled them with SQL.

**What the run shows.** The two share nothing while they run (a call reads the
routing once, before its first step), so `MCModels` checks them in one run whose
behaviours are of either. `models` has two calls, chains of two targets, one
chain with the same target twice and one with a target the factory cannot build,
two attempts, and a threshold above what one call fails, so that only calls
together open a circuit; and two requests that switch one role between the models
of two providers, one with a key, with a codec and without, under every other change
of the registry and restarts.
`OpenSheds`: an open circuit's target gets no more than the attempts that calls
begun before had left. `ErrorMeansAllTried`: a call without text has been turned
away by its whole chain. `CallReturns`, `Recovers`: calls end, and a target that
stays up is not shed for ever, although the failure count survives the open
interval and late failures open the circuit again. `QuietSwitchAgrees`: a switch
that completes undisturbed leaves routing, default and keys in agreement,
whatever overlapping or failed switches left before; it speaks of stores whose rows
decode, since otherwise no switch completes. `UnreadModelsKept` is about the code as
it stands: the requests that fail leave no change of a model behind, because they
read before they write, and the routing stays what the environment or a patch by
hand says. The mutant writes first, as `update_provider` does.

**Fairness.** Attempts end (httpx timeouts), pauses end, the clock goes on; weak
fairness of each call's step and each circuit's expiry. Nothing is assumed of
`Weather`.

**Proved** (`ModelsProofs`), for any calls, targets, chains, attempts, threshold,
admins, providers, keys and models: the types of both modules, `OpenSheds`,
`ErrorMeansAllTried`, `QuietSwitchAgrees`, `UnreadModelsKept`. `OpenSheds` is not
inductive: it counts what was sent, and says nothing of the attempts to come.
`CallsInv` strengthens it with `BudgetInv`: what was sent to an open circuit *and*
what the calls now with its target have left (`Left`, one element for every attempt
of every call) is within the allowance; an attempt moves one element from the
second to the first, the failure that opens the circuit ends its own call, and a
call that begins with an open target has nothing left. For `ErrorMeansAllTried` it
has the targets of the chain before the present one. `RegistryInv` adds to the
types what an admin who is alone may rely on between two awaits (`SwitchInv`): his
model is still the default, and the key he found is still of its provider and alive.
`UnreadInv`, for the other kind of store: no request is under way, and no role was
ever switched.
It is about the system apart from the other part of `MCModels`, with which it
shares nothing.

**What the model shows of the code.** A restart takes every role back to the
environment: `create_for_role_with_registry`, which would read the registry, has
no caller, though ROUTES.md:248 says the choice "persists across restart because
the DB registry becomes the source of truth". Without a codec no role can be switched
and no provider or model registered through the service, which README.md:119-120 and
141-144 and ROUTES.md:235-248 offer; a `PATCH /providers/{id}` that changes `is_active`
is answered 404 and has changed it. With one, overlapping switches can leave the
live model different from the default. After the open interval all callers pass at
once, and one more failure opens the circuit again; a late answer of an old call
closes it; an answer without text counts as success; Gemini without candidates and
a cancelled call record nothing. A key that is deactivated between its look-up and the
reading of its secret goes live, and stays so until the role is switched again.


### What retrieval searches: `Knowledge`

**What it models.** The rows of `nl2sql_embeddings` and everything that writes
them: `POST /ingest`, `/ingest/groups`, `/ingest/patterns`,
`/ingest/instructions`, `/ingest/knowledge` through `rag/ingest.py`, and
`DELETE /instructions/{id}`. A source (schema group, rule, pattern, text) is
reduced to its version, the hash its row carries; a row to the version it says
and the version its text was made from. An ingest reads its sources (a group in
two steps, the text before and the version after the await of its columns),
filters what is pending, asks for the embeddings with bounded retries, upserts
row by row in one transaction that holds its locks, commits, and invalidates the
caches (the bump is in `QueryCache`). Sources are edited, deactivated and
deleted meanwhile; every await may fail; PostgreSQL aborts one transaction of a
cycle of waits.

**What the runs show.** `offline` has two ingests over two groups, or over a rule
and a pattern, two versions and two attempts to embed; text is stored under the
name of a group, because `POST /ingest` may.
`QuietIngestRepairs`: an ingest that returns ok undisturbed leaves every source it
read stored in its present version, whatever slower ingests overwrote or failed
ones left before. `RevivedByOverlap`: a deleted rule's embedding becomes live
again only through an ingest that overlapped the deletion. `IngestEnds`: every
ingest ends, although two of them lock rows in opposite orders.
`knowledge_status` is a *finding*: the status endpoint reports a group current
whose text is old (`StatusTells`), after an edit during the await of its columns.

**Fairness.** Strong fairness of each ingest's own steps: requests to the
embedding model and statements time out, and PostgreSQL grants locks in turn.

**Proved** (`KnowledgeProofs`), for any groups, rules, patterns, texts, versions,
attempts and ingests: types, `QuietIngestRepairs`, `RevivedByOverlap`. Both
properties are about a step, and hold because of what an undisturbed ingest knows
all along (`QuietInv`): no other ingest is under way, and of every source it asked
for, either it has yet to read it, or it holds a chunk of its present version, or
the row is up to date (`Repairs`). For this the rows must be sane (`RowInv`: no
version beyond its source's, none missing but for text), an ingest must not hold
one source twice, and no two ingests hold the lock of one row (`LockInv`).

**What the model shows of the code.** The filter compares versions with `IS DISTINCT
FROM` and the upsert with `!=` (ingest.py:50, :28): a row without a version, text
stored under a group's name, is embedded again by every ingest and never
updated (the exception in `QuietIngestRepairs`). Text ingested again under the
same name changes nothing. An ingest whose invalidation fails is answered with an
error, and its repetition finds nothing pending and returns ok without one. A
pattern deactivated by feedback keeps its embedding. Deleting a rule is two
transactions, without cache invalidation.

### Rate limiter and evaluation: `RateLimiter`, `Evaluation`

**What they model.** `RateLimiter` is the token bucket of each address, in units of
a token that drip in one by one. `consume` holds a lock, so a call is one step.
`dispatch` (rate_limiter.py:46) sends a request past `consume` when its URL names
the host `testserver`, which is what the client's Host header says, or its address
is `testclient`: `Bypass`, open to every client, leaves the bucket alone. So the
limiter limits those who do not use that name; the properties say so.
`Evaluation` is the batch client: each run waits for the semaphore, asks under the
limiter (429 is assessed like any reply), polls for the trace until it is not
empty, polls the failure log, and is assessed by the analyzer, which is here as
operators: `Passed` and `FailureType` with its rules in the order of the code. A
reply and its trace come as a script; the service stores the events of a trace in
order, behind its reply or not.

**What the run shows.** `offline` again, a third kind of behaviour: two runs one at
a time (`parallel` 1, the bound that matters), six scripts, a bucket of one token,
two attempts for trace and log. The parts of `MCOffline` share no state; when a
behaviour is about ingestion, the evaluation is over from the start.
`BurstBounded`: in whatever window of time nobody gets more charged requests through
than a full bucket and what drips in meanwhile (of requests that bypass the limiter
any number passes, in the run one per window, `MaxFree`). `SteadyPasses`: who was
charged for nothing during the time of one token is let in; being turned away costs
nothing.
`EarlyTraceOnlyFails`: a trace read too early may fail a good run but passes no bad
one, unless the case forbids a warning code; then it can, though README.md:201
speaks of full trace collection.

**Proved** (`EvaluationProofs`), for every capacity, rate and number of clients:
types, `BurstBounded`, `SteadyPasses`. Neither is inductive. The first is
strengthened by `Paid`: what was charged in the window together with what the
bucket holds now, refilled, does not exceed a full bucket and the time since the
window was opened; the second by `Filled`: unless the bucket is full, it holds all
that has dripped in since something was last charged. The bound
`MaxClock` on the clock and `MaxFree` play no part in the proofs.
For the evaluation, and any list of cases with any replies and traces: types (with
the bound on the runs under way), and `EarlyTraceOnlyFails`. `EvaluationInv` knows how far
a trace is stored and how far it was read, nothing more: the weight is on lemmas
about the analyzer, each of which says that what a rule finds in the beginning of
a trace it finds in the whole. Its first lemma, that a rule which applies has a
first one before it, is an induction, by the well-foundedness of the numbers.
Floats are exact here: the rounding of the code's seconds is not modelled.


## 3. Plan

The order is that of importance to a user of the service: first what can make
an answer stale or wrong, then what can make the service unavailable, then what
the operator sees.

| # | Module | State | Properties worth stating | Theorems |
|---|---|---|---|---|
| done | `QueryCache` | cache layers, epoch, handlers, mutations | freshness, read-your-teaching, epoch moves | types, all three safety properties |
| done | `ReActAgent` with the abstract `CheckedGeneration` | one agent run | only checked SQL is answered, repairs see errors, termination, refinement | types, six safety properties, refinement |
| done | `PoolLifecycle` | two references to the pool, lock, requests | one set-up, attempts apart, nothing replaced, requests answered unless a set-up never ends | types, three safety properties |
| done | `Teaching` | rules, pending confirmations, teach and confirm requests | a token acts once, the limit of pending rows, no silent contradiction, true replies | types, all four safety properties |
| done | `AskStream` over the abstract `StreamProtocol`, with `TracePipeline` | the code of three handlers as a table, tasks, recorder, queue, worker | protocol, relayed trace, no work left, outcome logged, nothing vanishes, budget and stop end | types, all four safety properties, refinement |
| done | `ModelCalls` | circuit per target, calls under way | open circuits shed, calls end, circuits close | types, both safety properties |
| done | `ModelRegistry` | providers, keys, models, live routing | undisturbed switches agree, requests that cannot read a row change no model | types, both safety properties |
| done | `Knowledge` | sources, rows, ingests, locks | undisturbed ingests repair, no revival, ingests end | types, both safety properties |
| done | `RateLimiter`, `Evaluation` | buckets, requests past the limiter; runs, traces, verdicts | bursts of what is limited, steady clients, early traces | types, all three safety properties |
| 1 | `InstructionConfidence`, joined to `Teaching` | confidence and failure count of a rule, concurrent outcomes | which decays are lost, the lower bound | the lower bound |

`InstructionConfidence` is arithmetic on floats: starting at 1.0, repeated
`- 0.1` passes 0.4 from above (0.40000000000000013) and decays once more, while
from 0.7 it stops at 0.4; the values have to be enumerated, not computed.

The project keeps to a dozen runs, so that all of them can be repeated after a
change; parts that share no state are checked in one run, each behaviour being of
one of them. Type invariants that are proved for all parameters (`QueryCache`,
`ReActAgent`, `PoolLifecycle`, `Teaching`, `ModelRegistry`, `Knowledge`), `OneSetup` and `FeedbackMatches` are
not repeated in the runs.

Bounds: two or three processes of each kind are enough for each of the races
named in the inventory, and every run stays within a few minutes. Composition:
`AskStream` extends `TracePipeline`, `Evaluation` extends `RateLimiter`, and
`CheckedGeneration`, which the agent implements, is what `QueryCache` and
`AskStream` assume of a generation (it ends with an answer, a clarification or an
error).

## 4. What is proved, what is only model-checked

The proof modules hold for every value of the constants that satisfies the named
assumptions; they use no other assumptions. The liveness properties `Terminates`,
`Answered`, `BudgetEnds`, `StopReturns`, `CallReturns`, `Recovers` and `IngestEnds`
are checked by TLC only: they depend on fairness, which the prover does not reason
about. `Answered` takes no await for granted that has no timeout in the code: the raw
connection of `create_pool` may keep the reconnect lock for ever. The findings are TLC
counterexamples.

The runs check the same properties on small instances, so that a property and a
bug of the code that breaks it can be seen together: next to the definitions
stand operators marked MUTANT, each a plausible bug; with it in place of the
definition the run reports the property violated.

## 5. What is not modelled, and why

- *Text*: prompts, the wording of answers, the parsing of SQL and the rewriting
  of queries. A SQL text is what the checks can tell about it.
- *Ranking*: retrieval is a free choice of what the store may return.
- *PostgreSQL's own concurrency*: each statement or transaction of the service is
  atomic, except where its row locks matter (`Knowledge`).
- *Dead branches*: `answer_text is None` after the answer task (main.py), which
  `generate_answer` never returns, and `create_for_role_with_registry`.
- *Several workers*: the service runs as one process; the in-memory caches of
  several would not see each other's invalidations.
- The components marked `not_modelled` in `PROJECT.json` and not in the plan
  above keep no state or are one-shot clients.
