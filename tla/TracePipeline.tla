--------------------------- MODULE TracePipeline ----------------------------
(* The trace pipeline of observability/logger.py: emitters publish events    *)
(* into a bounded queue without ever waiting, one worker collects them into  *)
(* batches and persists each event, and stop puts a sentinel behind what is  *)
(* queued.  The emitters and the code that calls stop are in AskStream.      *)
EXTENDS Naturals, Sequences
CONSTANTS QueueSize,  \* observability_queue_size
          BatchSize   \* observability_batch_size
ASSUME SizesAssumption == QueueSize \in Nat \ {0} /\ BatchSize \in Nat \ {0}

VARIABLES queue,    \* the asyncio.Queue: events, and at most one sentinel
          batch,    \* events the worker has taken and not persisted yet
          worker,   \* "get", "flush", "last" (the flush before return), "done"
          stop,     \* the lifespan: "up", "closing", "waiting", "stopped"
          settled   \* the Id of every event handed to persist_event (it may fail)
                    \* or refused by a full queue
pipeVars == <<queue, batch, worker, stop, settled>>

Sentinel == <<>>        \* the None that ends the worker; an event is a nonempty tuple
Id(e)    == <<e[1], e[2]>>     \* an event is known by its request and its number

PipeInit ==
    /\ queue = <<>> /\ batch = <<>> /\ settled = {}
    /\ worker = "get" /\ stop = "up"

\* MUTANT of Published: one event more than the queue holds.
PublishedOverfull(e, s) ==
    IF Len(s.queue) <= QueueSize THEN [s EXCEPT !.queue = Append(@, e)]
    ELSE [s EXCEPT !.settled = @ \cup {Id(e)}]

(* publish never waits and never looks at _closing: a full queue costs the   *)
(* event, a queue whose worker has returned swallows it.  `s` is a record    *)
(* with the queue and what is settled.                                       *)
Published(e, s) ==
    IF Len(s.queue) < QueueSize THEN [s EXCEPT !.queue = Append(@, e)]
    ELSE [s EXCEPT !.settled = @ \cup {Id(e)}]

\* MUTANT of WorkerGet: the sentinel ends the worker at once.
WorkerGetUnflushed ==
    /\ worker = "get" /\ queue # <<>>
    /\ queue' = Tail(queue)
    /\ \/ Head(queue) = Sentinel /\ worker' = "done" /\ UNCHANGED batch
       \/ /\ Head(queue) # Sentinel
          /\ batch' = Append(batch, Head(queue))
          /\ worker' = IF Len(batch') >= BatchSize THEN "flush" ELSE "get"
    /\ UNCHANGED <<stop, settled>>

(* One round of the worker's loop that finds an item.                        *)
WorkerGet ==
    /\ worker = "get" /\ queue # <<>>
    /\ queue' = Tail(queue)
    /\ \/ /\ Head(queue) = Sentinel
          /\ worker' = IF batch = <<>> THEN "done" ELSE "last"
          /\ UNCHANGED batch
       \/ /\ Head(queue) # Sentinel
          /\ batch' = Append(batch, Head(queue))
          /\ worker' = IF Len(batch') >= BatchSize THEN "flush" ELSE "get"
    /\ UNCHANGED <<stop, settled>>

(* The wait on the queue times out: what has been collected is flushed.      *)
WorkerTick ==
    /\ worker = "get" /\ queue = <<>> /\ batch # <<>>
    /\ worker' = "flush"
    /\ UNCHANGED <<queue, batch, stop, settled>>

(* One await of _flush: the next event of the batch is persisted, or its     *)
(* failure is logged; after the last one the worker goes on or returns.      *)
WorkerPersist ==
    /\ worker \in {"flush", "last"}
    /\ settled' = settled \cup {Id(Head(batch))}
    /\ batch' = Tail(batch)
    /\ worker' = IF batch' # <<>> THEN worker
                 ELSE IF worker = "flush" THEN "get" ELSE "done"
    /\ UNCHANGED <<queue, stop>>

\* MUTANT of PutSentinel: put_nowait, a full queue ignored.
PutSentinelNoWait ==
    /\ stop = "closing"
    /\ queue' = IF Len(queue) < QueueSize THEN Append(queue, Sentinel) ELSE queue
    /\ stop' = "waiting"
    /\ UNCHANGED <<batch, worker, settled>>

(* stop: queue.put waits for room, then the worker is awaited.               *)
PutSentinel ==
    /\ stop = "closing" /\ Len(queue) < QueueSize
    /\ queue' = Append(queue, Sentinel)
    /\ stop' = "waiting"
    /\ UNCHANGED <<batch, worker, settled>>

JoinWorker ==
    /\ stop = "waiting" /\ worker = "done"
    /\ stop' = "stopped"
    /\ UNCHANGED <<queue, batch, worker, settled>>

PipeNext == WorkerGet \/ WorkerTick \/ WorkerPersist \/ PutSentinel \/ JoinWorker

\* What waits, oldest first: events and at most one sentinel.
Backlog == batch \o queue
=============================================================================
