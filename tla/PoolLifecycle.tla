---------------------------- MODULE PoolLifecycle ----------------------------
(***************************************************************************)
(* The PostgreSQL pool of the service: opened at startup, dropped by the   *)
(* handler of connection errors, reopened by the next request that needs   *)
(* it, closed at shutdown (main.py: lifespan, _handle_db_error,            *)
(* _try_reconnect_pool, _require_pool; db/db.py: create_pool, close_pool). *)
(*                                                                         *)
(* There are two references to "the" pool, app.state.pool and the global   *)
(* _pool of db.py, and they are not assigned together.  One asyncio        *)
(* process: each action is a stretch of code between two awaits.           *)
(***************************************************************************)
EXTENDS Naturals, Sequences

CONSTANTS
    Requests,   \* concurrent requests that need the pool
    Server,     \* the lifespan task
    Pools,      \* bound: the asyncpg pools that may ever be created
    NoPool,     \* None
    NoOne       \* the reconnect lock is free

ASSUME ServerAssumption == Server \notin Requests
ASSUME NoPoolAssumption == NoPool \notin Pools
ASSUME NoOneAssumption == NoOne \notin Requests

Procs == Requests \cup {Server}

VARIABLES
    life,     \* of each pool
    current,  \* app.state.pool
    handle,   \* db._pool
    recent,   \* db_reconnect_min_interval has not passed since the last attempt
    lock,     \* who holds app.state.pool_reconnect_lock
    queue,    \* who waits for it, in order (asyncio.Lock is fair)
    pc,       \* what each process awaits
    own       \* the pool a process works with, sets up or closes

vars == <<life, current, handle, recent, lock, queue, pc, own>>

\* Setting a pool up: create_pool (a raw connection, the extension over it and
\* its close, then the pool), bootstrap, release of its connection,
\* ensure_hnsw_index, release of its connection.
SettingUp == {"connect", "extension", "pool", "bootstrap", "bootstrapped", "index", "indexed"}
\* Awaits of the database that no time-out ends: CREATE EXTENSION and close on
\* the raw connection, and the closing of a pool's connections.
Untimed   == {"extension", "terminate"}
\* A connection of own[p] is acquired.
Holding   == {"bootstrap", "index", "query"}
\* A request is over with the answer it gave; "fault" is an HTTP 500.
Over      == {"idle", "ok", "503", "fault"}
RequestPc == SettingUp \cup Over \cup {"waiting", "ready", "query", "close", "terminate"}
ServerPc  == SettingUp \cup {"serving", "close", "terminate", "stopped"}

TypeOK ==
    /\ life \in [Pools -> {"new", "open", "closing", "closed"}]
    /\ current \in Pools \cup {NoPool}
    /\ handle \in Pools \cup {NoPool}
    /\ recent \in BOOLEAN
    /\ lock \in Requests \cup {NoOne}
    /\ queue \in Seq(Requests)
    /\ pc \in [Procs -> RequestPc \cup ServerPc]
    /\ pc[Server] \in ServerPc /\ \A r \in Requests : pc[r] \in RequestPc
    /\ own \in [Procs -> Pools \cup {NoPool}]
    /\ \A p \in Procs : pc[p] \in Holding \cup {"ready", "close", "terminate", "bootstrapped", "indexed"}
                            => own[p] # NoPool

\* The process starts; monotonic() - 0.0 may or may not exceed the interval.
Init ==
    /\ life = [q \in Pools |-> "new"]
    /\ current = NoPool
    /\ handle = NoPool
    /\ recent \in BOOLEAN
    /\ lock = NoOne
    /\ queue = <<>>
    /\ pc = [p \in Procs |-> IF p = Server THEN "connect" ELSE "idle"]
    /\ own = [p \in Procs |-> NoPool]

-----------------------------------------------------------------------------
(* Where a process goes next.                                              *)

Move(p, to, q) ==
    /\ pc' = [pc EXCEPT ![p] = to]
    /\ own' = [own EXCEPT ![p] = q]

\* `async with` leaves the lock; the lifespan never took it.
Unlock(p) == lock' = IF lock = p THEN NoOne ELSE lock

\* _try_reconnect_pool after it got the lock: both conditions are tested again.
\* It also leaves the lock when it does not attempt anything.
Attempt(r) ==
    \/ /\ current # NoPool
       /\ Move(r, "ready", current)
       /\ UNCHANGED <<recent, lock>>
    \/ /\ current = NoPool /\ recent
       /\ Move(r, "503", NoPool)
       /\ UNCHANGED <<recent, lock>>
    \/ /\ current = NoPool /\ ~recent
       /\ Move(r, "connect", NoPool)
       /\ recent' = TRUE
       /\ lock' = r

-----------------------------------------------------------------------------
(* _require_pool and _try_reconnect_pool.                                  *)

\* A request finds the pool, is refused within the interval, attempts to
\* reconnect at once, or queues for the lock.
Arrive(r) ==
    /\ pc[Server] = "serving"
    /\ pc[r] \in Over
    /\ \/ /\ current # NoPool \/ recent \/ (lock = NoOne /\ queue = <<>>)
          /\ Attempt(r)
          /\ UNCHANGED queue
       \/ /\ current = NoPool /\ ~recent
          /\ lock # NoOne \/ queue # <<>>
          /\ queue' = Append(queue, r)
          /\ Move(r, "waiting", NoPool)
          /\ UNCHANGED <<recent, lock>>
    /\ UNCHANGED <<life, current, handle>>

\* MUTANT of TakeLock: nothing is tested again under the lock.
TakeLockUnchecked(r) ==
    /\ pc[r] = "waiting"
    /\ lock = NoOne /\ queue # <<>> /\ Head(queue) = r
    /\ queue' = Tail(queue)
    /\ Move(r, "connect", NoPool)
    /\ recent' = TRUE
    /\ lock' = r
    /\ UNCHANGED <<life, current, handle>>

\* MUTANT of TakeLock: the pool is tested again, the interval is not.
TakeLockAtOnce(r) ==
    /\ pc[r] = "waiting"
    /\ lock = NoOne /\ queue # <<>> /\ Head(queue) = r
    /\ queue' = Tail(queue)
    /\ IF current # NoPool
       THEN Move(r, "ready", current) /\ UNCHANGED <<recent, lock>>
       ELSE Move(r, "connect", NoPool) /\ recent' = TRUE /\ lock' = r
    /\ UNCHANGED <<life, current, handle>>

TakeLock(r) ==
    /\ pc[r] = "waiting"
    /\ lock = NoOne /\ queue # <<>> /\ Head(queue) = r
    /\ queue' = Tail(queue)
    /\ Attempt(r)
    /\ UNCHANGED <<life, current, handle>>

\* MUTANT of SetupFails: the lock is left on success only.
SetupFailsLocked(p) ==
    /\ pc[p] \in SettingUp \ {"indexed"}
    /\ current' = NoPool
    /\ Move(p, IF p = Server THEN "serving" ELSE "503", NoPool)
    /\ UNCHANGED <<life, handle, recent, lock, queue>>

\* Any await of the set-up raises; what create_pool opened stays open, and
\* stays the global pool.
SetupFails(p) ==
    /\ pc[p] \in SettingUp \ {"indexed"}
    /\ current' = NoPool
    /\ Move(p, IF p = Server THEN "serving" ELSE "503", NoPool)
    /\ Unlock(p)
    /\ UNCHANGED <<life, handle, recent, queue>>

\* create_pool has its raw connection, which has a time-out for connecting and
\* for nothing else.
RawConnected(p) ==
    /\ pc[p] = "connect"
    /\ Move(p, "extension", NoPool)
    /\ UNCHANGED <<life, current, handle, recent, lock, queue>>

\* The extension is there and the raw connection closed.
Extended(p) ==
    /\ pc[p] = "extension"
    /\ Move(p, "pool", NoPool)
    /\ UNCHANGED <<life, current, handle, recent, lock, queue>>

\* create_pool returns a pool, the global reference is overwritten, and
\* bootstrap acquires the connection the pool was created with.
Connected(p) ==
    /\ pc[p] = "pool"
    /\ \E q \in Pools :
          /\ life[q] = "new"
          /\ life' = [life EXCEPT ![q] = "open"]
          /\ handle' = q
          /\ Move(p, "bootstrap", q)
    /\ UNCHANGED <<current, recent, lock, queue>>

Bootstrapped(p) ==
    /\ pc[p] = "bootstrap"
    /\ Move(p, "bootstrapped", own[p])
    /\ UNCHANGED <<life, current, handle, recent, lock, queue>>

\* ensure_hnsw_index acquires a connection; a pool being closed gives none
\* (then SetupFails).
Index(p) ==
    /\ pc[p] = "bootstrapped"
    /\ life[own[p]] = "open"
    /\ Move(p, "index", own[p])
    /\ UNCHANGED <<life, current, handle, recent, lock, queue>>

Indexed(p) ==
    /\ pc[p] = "index"
    /\ Move(p, "indexed", own[p])
    /\ UNCHANGED <<life, current, handle, recent, lock, queue>>

\* app.state.pool = pool, whatever has become of that pool.
Publish(p) ==
    /\ pc[p] = "indexed"
    /\ current' = own[p]
    /\ IF p = Server THEN Move(p, "serving", NoPool) ELSE Move(p, "ready", own[p])
    /\ Unlock(p)
    /\ UNCHANGED <<life, handle, recent, queue>>

\* db_reconnect_min_interval has passed.
IntervalPasses ==
    /\ recent
    /\ recent' = FALSE
    /\ UNCHANGED <<life, current, handle, lock, queue, pc, own>>

-----------------------------------------------------------------------------
(* A handler that works with its pool, and the handler of its errors.      *)

\* pool.acquire(): InterfaceError from a pool that is closing or closed, which
\* no exception handler is registered for.
Acquire(r) ==
    /\ pc[r] = "ready"
    /\ IF life[own[r]] = "open" THEN Move(r, "query", own[r])
                                ELSE Move(r, "fault", NoPool)
    /\ UNCHANGED <<life, current, handle, recent, lock, queue>>

\* The statement ends and its connection is released.
QueryEnds(r) ==
    /\ pc[r] = "query"
    /\ Move(r, "ready", own[r])
    /\ UNCHANGED <<life, current, handle, recent, lock, queue>>

Answer(r) ==
    /\ pc[r] = "ready"
    /\ Move(r, "ok", NoPool)
    /\ UNCHANGED <<life, current, handle, recent, lock, queue>>

\* close_pool up to its await: it closes the global pool, which need not be
\* the one the caller knows.
ClosePool(p, done) ==
    IF handle = NoPool
    THEN /\ Move(p, done, NoPool)
         /\ UNCHANGED <<life, handle>>
    ELSE IF life[handle] = "closed"
    THEN /\ Move(p, done, NoPool)
         /\ handle' = NoPool
         /\ UNCHANGED life
    ELSE /\ Move(p, "close", handle)
         /\ life' = [life EXCEPT ![handle] = "closing"]
         /\ UNCHANGED handle

\* A connection error, or any OSError (TimeoutError is one) wherever it comes
\* from, reaches _handle_db_error: the connection was released, app.state.pool
\* is forgotten, the global closed.
RequestFails(r) ==
    /\ pc[r] \in {"ready", "query"}
    /\ current' = NoPool
    /\ ClosePool(r, "503")
    /\ UNCHANGED <<recent, lock, queue>>

\* Pool.close() waits until every connection is released, then closes them.
Released(p) ==
    /\ pc[p] = "close"
    /\ \A x \in Procs : own[x] = own[p] => pc[x] \notin Holding
    /\ Move(p, "terminate", own[p])
    /\ UNCHANGED <<life, current, handle, recent, lock, queue>>

\* Pool.close() returns, and _pool = None, which may be another pool by now.
Closed(p) ==
    /\ pc[p] = "terminate"
    /\ life' = [life EXCEPT ![own[p]] = "closed"]
    /\ handle' = NoPool
    /\ Move(p, IF p = Server THEN "stopped" ELSE "503", NoPool)
    /\ UNCHANGED <<current, recent, lock, queue>>

\* Closing a connection raises: the pool is terminated, and the assignment of
\* the global is skipped.
CloseFails(p) ==
    /\ pc[p] = "terminate"
    /\ life' = [life EXCEPT ![own[p]] = "closed"]
    /\ Move(p, IF p = Server THEN "stopped" ELSE "503", NoPool)
    /\ UNCHANGED <<current, handle, recent, lock, queue>>

\* Shutdown: uvicorn has drained the requests.
Stop ==
    /\ pc[Server] = "serving"
    /\ \A r \in Requests : pc[r] \in Over
    /\ ClosePool(Server, "stopped")
    /\ UNCHANGED <<current, recent, lock, queue>>

-----------------------------------------------------------------------------
SetUp(p) ==
    \/ RawConnected(p) \/ Extended(p) \/ Connected(p) \/ Bootstrapped(p)
    \/ Index(p) \/ Indexed(p) \/ Publish(p) \/ SetupFails(p)

Handle(r) ==
    \/ TakeLock(r) \/ Acquire(r) \/ QueryEnds(r) \/ Answer(r) \/ RequestFails(r)

Next ==
    \/ \E p \in Procs : SetUp(p) \/ Released(p) \/ Closed(p) \/ CloseFails(p)
    \/ \E r \in Requests : Arrive(r) \/ Handle(r)
    \/ IntervalPasses
    \/ Stop

Spec == Init /\ [][Next]_vars

\* Requests keep coming and every await ends that the code gives a time-out:
\* connecting and creating the pool (db_connect_timeout), statements on its
\* connections (command_timeout) and the handler's own calls, of which there are
\* finitely many.  Nothing is assumed of an Untimed await.
FairSpec ==
    /\ Spec
    /\ \A p \in Procs :
          /\ WF_vars(pc[p] \notin Untimed /\ SetUp(p))
          /\ WF_vars(Released(p))
    /\ \A r \in Requests :
          /\ WF_vars(Arrive(r))
          /\ WF_vars(Handle(r))
          /\ SF_vars(Answer(r))
    /\ WF_vars(IntervalPasses)

-----------------------------------------------------------------------------
(* Properties.                                                             *)

\* Reconnecting never throws a working pool away: while a pool is published it
\* is replaced by no other one, it can only be dropped by the error handler
\* (the lock and the second test of app.state.pool in _try_reconnect_pool).
PublishedPoolStays ==
    [][current # NoPool => current' \in {current, NoPool}]_vars

\* Within db_reconnect_min_interval of an attempt no further one begins, in
\* whatever order waiting requests get the lock.
AttemptsApart ==
    [][recent => \A r \in Requests : pc'[r] = "connect" => pc[r] = "connect"]_vars

\* At most one process sets up a pool, so attempts do not pile up on a database
\* that is slow to answer.
OneSetup ==
    \A p1, p2 \in Procs : pc[p1] \in SettingUp /\ pc[p2] \in SettingUp => p1 = p2

\* A request that the database may keep for ever: it is in an await without a
\* time-out, or queues for the lock of one that is (db.py:82-89 under main.py:1072).
Stalled(r) ==
    \/ pc[r] \in Untimed
    \/ pc[r] = "waiting" /\ lock \in Requests /\ pc[lock] \in Untimed

\* Every request is answered, unless a database that stops answering keeps it
\* stalled for ever: nobody waits for ever on the lock for any other reason, on a
\* pool that waits for its connections, or on both.
Answered ==
    \A r \in Requests : (pc[r] \notin Over ~> pc[r] \in Over) \/ <>[]Stalled(r)

\* main.py:1105 ("The service will retry connection automatically"): a pool
\* that was closed does not stay published, since nothing retries while
\* app.state.pool is set.
ClosedPoolIsDropped ==
    (current # NoPool /\ pc[Server] = "serving" /\ life[current] = "closed")
        ~> (current = NoPool \/ pc[Server] # "serving")
=============================================================================
