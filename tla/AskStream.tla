----------------------------- MODULE AskStream ------------------------------
(* POST /ask/stream, POST /ask and POST /generate-sql of main.py as they     *)
(* report on themselves: the lines of the stream, the trace events of the    *)
(* TraceRecorder and the rows of the request and failure logs.               *)
(*                                                                           *)
(* The code of the handlers is a table (Code) of operations, one a label; at *)
(* the other labels they wait.  asyncio runs one coroutine at a time, giving *)
(* the loop away only where it awaits something unfinished or yields a line, *)
(* so a step of a handler performs every operation up to the next that       *)
(* suspends.  Only a stream has lines; for the others `say` does nothing.    *)
EXTENDS TracePipeline, FiniteSets, SequencesExt
CONSTANTS Requests,
          Kinds,      \* endpoints in use, of "stream", "ask", "sql"
          Piped,      \* BOOLEANs: is there a pipeline (the startup had a pool)?
          MaxEmits    \* bound on the trace events of one stage: of a generate_sql or
                      \* generate_answer, of the cache look-up or store of an /ask
ASSUME KindsAssumption ==
    /\ Kinds \subseteq {"stream", "ask", "sql"} /\ Piped \subseteq BOOLEAN
    /\ MaxEmits \in Nat \ {0}
VARIABLES
    piped,    \* TraceRecorder.pipeline is set
    req       \* per request, the record RequestState describes
vars == <<pipeVars, piped, req>>

Lines == {"none", "started", "sql_generation_started", "sql_generation_running",
          "sql_generation_rejected", "sql_generation_finished", "row_cap_applied",
          "execution_started", "execution_failed", "execution_finished",
          "answer_generation_started", "answer_generation_running",
          "answer_generation_finished", "timeout", "final"}
Stages == {"request_received", "cache_lookup", "sql_generation", "execution",
           "answer_generation", "cache_write", "complete", "failure_log_write",
           "failure_log_written", "inner"}
Statuses == {"ok", "rejected", "clarification_needed"}
SqlResults == {"ok", "deterministic", "rejected", "clarify"}
\* the tasks that generate SQL and the answer, at work or cancelled or ended
Working    == {"sql", "answer"}
TaskStates == {"none", "cancelling", "raised", "cancelled", "text"} \cup Working \cup SqlResults
\* failure-log tasks: an /ask without pipeline can start a second one
Writers  == {"log", "log2"}
Emitters == {"main", "task"} \cup Writers
Events(r) == {r} \X (Nat \ {0}) \X Stages

----------------------------------------------------------------------------
(* The code.  An operation is what it does, with what, and the label of the  *)
(* operation behind it:                                                      *)
(*   emit s    await trace_recorder.emit     say l     yield a line          *)
(*   drain     relay the recorder's queue    log s     create the log task   *)
(*   fail k    create the failure-log task, of endpoint k or of "any"        *)
(*   learn     if there are rows, create the task that saves the pattern     *)
(*   start t   create the task t             reply s   the response is s     *)
(*   report    log the status of the reply   end       the handler returns   *)
(*   det l     go to l if the SQL was deterministic, asked only here         *)
(*   ask l     go to l on /ask                                               *)
Generating == [
    asked         |-> <<"emit", "request_received", "lookup">>,
    received      |-> <<"emit", "request_received", "starting">>,
    starting      |-> <<"say", "started", "startRelay">>,
    startRelay    |-> <<"drain", "-", "generating">>,
    generating    |-> <<"say", "sql_generation_started", "startSql">>,
    startSql      |-> <<"start", "sql", "sql">>,
    missed        |-> <<"emit", "sql_generation", "startSql">>,
    sqlNotice     |-> <<"say", "sql_generation_running", "sql">>,
    reported      |-> <<"emit", "complete", "logReported">>,
    logReported   |-> <<"report", "-", "end">>]
Executing == [
    finished      |-> <<"drain", "-", "sayFinished">>,
    sayFinished   |-> <<"say", "sql_generation_finished", "executing">>,
    capped        |-> <<"drain", "-", "sayCapped">>,
    sayCapped     |-> <<"say", "sql_generation_finished", "sayCap">>,
    sayCap        |-> <<"say", "row_cap_applied", "executing">>,
    executing     |-> <<"say", "execution_started", "emitExecuting">>,
    emitExecuting |-> <<"emit", "execution", "executeRelay">>,
    executeRelay  |-> <<"drain", "-", "execute">>]
Answering == [
    executed      |-> <<"emit", "execution", "executedRelay">>,
    executedRelay |-> <<"drain", "-", "sayExecuted">>,
    sayExecuted   |-> <<"say", "execution_finished", "answering">>,
    answering     |-> <<"say", "answer_generation_started", "emitAnswering">>,
    emitAnswering |-> <<"emit", "answer_generation", "answerRelay">>,
    answerRelay   |-> <<"drain", "-", "decided">>,
    decided       |-> <<"det", "answered", "startAnswer">>,
    startAnswer   |-> <<"start", "answer", "answer">>,
    answerNotice  |-> <<"say", "answer_generation_running", "answer">>,
    answered      |-> <<"emit", "answer_generation", "answeredRelay">>,
    answeredRelay |-> <<"drain", "-", "sayAnswered">>,
    sayAnswered   |-> <<"say", "answer_generation_finished", "learn">>,
    learn         |-> <<"learn", "-", "logOk">>,
    logOk         |-> <<"log", "ok", "keep">>,
    keep          |-> <<"ask", "store", "replyOk">>,
    stored        |-> <<"emit", "cache_write", "replyOk">>]
\* Rejections by the generation and by the database; only /ask writes the
\* failure log.
Rejecting == [
    rejected      |-> <<"drain", "-", "logRejected">>,
    logRejected   |-> <<"log", "rejected", "failRejected">>,
    failRejected  |-> <<"fail", "ask", "sayRejected">>,
    sayRejected   |-> <<"say", "sql_generation_rejected", "replyRejected">>,
    clarify       |-> <<"drain", "-", "logClarify">>,
    logClarify    |-> <<"log", "clarification_needed", "sayClarify">>,
    sayClarify    |-> <<"say", "sql_generation_rejected", "replyClarify">>,
    failing       |-> <<"emit", "execution", "failingRelay">>,
    failingRelay  |-> <<"drain", "-", "logFailing">>,
    logFailing    |-> <<"log", "rejected", "failFailing">>,
    failFailing   |-> <<"fail", "ask", "sayFailing">>,
    sayFailing    |-> <<"say", "execution_failed", "replyRejected">>]

\* REQUEST_TIMEOUT, in each stage of a stream and for the whole of an /ask.

\* MUTANT of TimingOutSql: the final line without the timeout line.
TimingOutSqlSilent == [
    lateSql       |-> <<"log", "rejected", "failSql">>,
    failSql       |-> <<"fail", "any", "replyRejected">>,
    saySql        |-> <<"say", "timeout", "replyRejected">>]
\* MUTANT of TimingOutSql: the timeout is not written to the request log.
TimingOutSqlUnlogged == [
    lateSql       |-> <<"fail", "any", "saySql">>,
    failSql       |-> <<"fail", "any", "saySql">>,
    saySql        |-> <<"say", "timeout", "replyRejected">>]

TimingOutSql == [
    lateSql       |-> <<"log", "rejected", "failSql">>,
    failSql       |-> <<"fail", "any", "saySql">>,
    saySql        |-> <<"say", "timeout", "replyRejected">>]
TimingOut == [
    lateExecute   |-> <<"log", "rejected", "failExecute">>,
    failExecute   |-> <<"fail", "any", "sayExecute">>,
    sayExecute    |-> <<"say", "timeout", "emitExecute">>,
    emitExecute   |-> <<"emit", "execution", "replyRejected">>,
    lateAnswer    |-> <<"log", "rejected", "failAnswer">>,
    failAnswer    |-> <<"fail", "any", "sayAnswer">>,
    sayAnswer     |-> <<"say", "timeout", "emitAnswer">>,
    emitAnswer    |-> <<"emit", "answer_generation", "replyRejected">>,
    lateAsk       |-> <<"log", "rejected", "failAsk">>,
    failAsk       |-> <<"fail", "any", "replyRejected">>]
Replying == [
    hit           |-> <<"emit", "cache_lookup", "replyOk">>,
    replyOk       |-> <<"reply", "ok", "complete">>,
    replyRejected |-> <<"reply", "rejected", "complete">>,
    replyClarify  |-> <<"reply", "clarification_needed", "complete">>]

\* MUTANT of Closing: what the recorder still holds is not relayed.
ClosingUndrained == [
    complete      |-> <<"emit", "complete", "final">>,
    lastRelay     |-> <<"drain", "-", "final">>,
    final         |-> <<"say", "final", "end">>,
    end           |-> <<"end", "-", "over">>]

\* "complete" is the last trace event; a stream relays it before its final line.
Closing == [
    complete      |-> <<"emit", "complete", "lastRelay">>,
    lastRelay     |-> <<"drain", "-", "final">>,
    final         |-> <<"say", "final", "end">>,
    end           |-> <<"end", "-", "over">>]

Code ==
    [l \in UNION {DOMAIN Generating, DOMAIN Executing, DOMAIN Answering, DOMAIN Rejecting,
                  DOMAIN TimingOutSql, DOMAIN TimingOut, DOMAIN Replying, DOMAIN Closing} |->
        CASE l \in DOMAIN Generating   -> Generating[l]
          [] l \in DOMAIN Executing    -> Executing[l]
          [] l \in DOMAIN Answering    -> Answering[l]
          [] l \in DOMAIN Rejecting    -> Rejecting[l]
          [] l \in DOMAIN TimingOutSql -> TimingOutSql[l]
          [] l \in DOMAIN TimingOut    -> TimingOut[l]
          [] l \in DOMAIN Replying     -> Replying[l]
          [] l \in DOMAIN Closing      -> Closing[l]]
\* Where a handler looks at what a poll of its stream has found, and where it
\* waits.
Checks == {"sqlDone", "sqlOpen", "answerDone", "answerOpen"}
Waits  == {"new", "lookup", "sql", "cancelSql", "execute", "answer", "cancelAnswer",
           "store", "over"}
Stops == Checks \cup Waits
Labels == DOMAIN Code \cup Stops

RequestState(r) ==
    [kind   : Kinds,
     pc     : Labels,
     relay  : Seq(Events(r)),             \* drained, and not yet sent
     task   : TaskStates,                 \* the generation or answer task awaited
     left   : 0..MaxEmits,                \* trace events the stage may still emit
     det    : BOOLEAN,                    \* deterministic SQL needs no answer model
     rows   : BOOLEAN,                    \* the query returned rows
     seq    : Nat,                        \* TraceRecorder.seq
     put    : [Emitters -> Events(r) \cup {<<>>}],  \* event being persisted, no pipeline
     inbox  : Seq(Events(r)),             \* the recorder's queue for the stream
     budget : {"none", "running", "late", "over"},      \* of ask_timeout; over: /ask has used it up
     line   : Lines,                      \* last line that is not a trace event
     traced : Seq(Events(r)),             \* trace events relayed on the stream
     out    : {"open", "closed", "broken", "gone"},
     status : Statuses \cup {"none"},         \* of the response
     logged : Seq(Statuses),              \* handed to _log_request_event
     bg     : [Writers -> {"idle", "begin", "write", "end"}],
     saved  : BOOLEAN]                    \* the question was handed to save_pattern

AskInit ==
    /\ PipeInit
    /\ piped \in Piped
    /\ req \in [Requests ->
         {[kind |-> k, pc |-> "new", relay |-> <<>>, task |-> "none", left |-> MaxEmits,
           det |-> FALSE, rows |-> FALSE, seq |-> 0, put |-> [w \in Emitters |-> <<>>],
           inbox |-> <<>>, budget |-> "none", line |-> "none", traced |-> <<>>, out |-> "open",
           status |-> "none", logged |-> <<>>, bg |-> [w \in Writers |-> "idle"],
           saved |-> FALSE] :
             k \in Kinds}]

Stream(q)   == q.kind = "stream"
IsStream(r) == Stream(req[r])
\* A handler stops where it persists an event or relays one, at a line it
\* yields, and where it waits or looks at the result of a poll.
Suspended(q) ==
    \/ q.put["main"] # <<>> \/ q.relay # <<>>
    \/ q.pc \in Stops
    \/ Stream(q) /\ Code[q.pc][1] = "say"
At(r, l) == req[r].pc = l /\ req[r].put["main"] = <<>> /\ req[r].relay = <<>>
\* Nothing moves between a poll of a stream and what the handler makes of it,
\* unless it relays lines in between.
Idle == stop # "stopped" /\ \A r \in Requests : \A l \in Checks : ~At(r, l)
Waiting(r, l) == Idle /\ At(r, l)

----------------------------------------------------------------------------
(* TraceRecorder.emit by `who`, on the state s: a request record q, and the  *)
(* queue of the pipeline.  With a pipeline it never suspends; without one    *)
(* the event is persisted first and queued for the stream afterwards.        *)
Deliver(q, e) == IF Stream(q) THEN [q EXCEPT !.inbox = Append(@, e)] ELSE q
Emitted(r, who, stage, s) ==
    LET e == <<r, s.q.seq + 1, stage>>
        q == [s.q EXCEPT !.seq = @ + 1]
    IN  IF piped THEN [Published(e, s) EXCEPT !.q = Deliver(q, e)]
        ELSE [s EXCEPT !.q = [q EXCEPT !.put[who] = e]]

\* What an operation other than emit does to the request q, already at the
\* label behind it.
Did(q, c) ==
    CASE c[1] = "say"    -> q
      [] c[1] = "drain"  -> [q EXCEPT !.relay = q.inbox, !.inbox = <<>>]
      [] c[1] = "log"    -> [q EXCEPT !.logged = Append(@, c[2])]
      [] c[1] = "report" -> [q EXCEPT !.logged = Append(@, q.status)]
      [] c[1] = "fail"   ->
           IF c[2] \notin {"any", q.kind} THEN q
           ELSE [q EXCEPT !.bg[IF q.bg["log"] = "idle" THEN "log" ELSE "log2"] = "begin"]
      [] c[1] = "learn"  -> [q EXCEPT !.saved = q.rows]
      [] c[1] = "start"  -> [q EXCEPT !.task = c[2], !.left = MaxEmits]
      [] c[1] = "reply"  -> [q EXCEPT !.status = c[2]]
      [] c[1] = "end"    -> [q EXCEPT !.out = "closed"]
      [] c[1] = "det"    -> [q EXCEPT !.pc = IF q.det THEN c[2] ELSE @, !.det = FALSE]
      [] c[1] = "ask"    -> IF q.kind = "ask" THEN [q EXCEPT !.pc = c[2], !.left = MaxEmits] ELSE q
\* A handler in state s performs its operation, whose code is c.
Act(r, s, c) ==
    LET q == [s.q EXCEPT !.pc = c[3]]
    IN  IF c[1] = "emit" THEN Emitted(r, "main", c[2], [s EXCEPT !.q = q])
        ELSE [s EXCEPT !.q = Did(q, c)]
Step(r, s) == IF Suspended(s.q) THEN {s} ELSE {Act(r, s, c) : c \in {Code[s.q.pc]}}

\* The state (one) that a handler runs to from state s: no handler performs
\* more than twenty operations without suspending (see TypeOK).
Once(r, S) == UNION {Step(r, s) : s \in S}
Four(r, S) ==
    UNION {IF Suspended(s.q) THEN {s} ELSE Once(r, Once(r, Once(r, Once(r, {s})))) : s \in S}
Performed(r, s) == Four(r, Four(r, Four(r, Four(r, Four(r, {s})))))

Becomes(r, s) ==
    /\ req' = [req EXCEPT ![r] = s.q]
    /\ queue' = s.queue /\ settled' = s.settled
    /\ UNCHANGED <<batch, worker, stop, piped>>
Now(q) == [q |-> q, queue |-> queue, settled |-> settled]
\* A handler in state q goes on, from its label.
Continue(r, q) == \E s \in Performed(r, Now(q)) : Becomes(r, s)
GoTo(r, l) == Continue(r, [req[r] EXCEPT !.pc = l])
Local(r, q) == Becomes(r, Now(q))
EmitBy(r, who, stage, q) == \E s \in {Emitted(r, who, stage, Now(q))} : Becomes(r, s)

\* the reader takes a line and the generator goes on
Send(r) ==
    LET q == req[r] IN
    /\ Idle /\ IsStream(r) /\ q.put["main"] = <<>>
    /\ \/ /\ q.relay # <<>>
          /\ Continue(r, [q EXCEPT !.traced = Append(@, Head(q.relay)), !.relay = Tail(@)])
       \/ /\ q.relay = <<>> /\ q.pc \notin Stops /\ Code[q.pc][1] = "say"
          /\ Continue(r, [q EXCEPT !.line = Code[q.pc][2], !.pc = Code[q.pc][3]])
\* _persist_trace_event ends, its errors logged; a handler goes on
Persisted(r, who) ==
    LET e == req[r].put[who]
        q == Deliver([req[r] EXCEPT !.put[who] = <<>>], e)
        s == [Now(q) EXCEPT !.settled = @ \cup {Id(e)}]
    IN  /\ Idle /\ e # <<>>
        /\ \E t \in IF who = "main" THEN Performed(r, s) ELSE {s} : Becomes(r, t)

----------------------------------------------------------------------------
(* What runs beside the handler.                                             *)
\* generate_sql and generate_answer emit through the recorder of the request
TaskEmits(r) ==
    /\ Idle /\ req[r].task \in Working /\ req[r].left > 0 /\ req[r].put["task"] = <<>>
    /\ EmitBy(r, "task", "inner", [req[r] EXCEPT !.left = @ - 1])
\* it returns, not without an emit (a cache hit, a verdict, the time-out of the
\* generation, the prompt of the answer), or an error escapes from it
TaskEnds(r) ==
    /\ Idle /\ req[r].task \in Working /\ req[r].put["task"] = <<>>
    /\ \E res \in (IF req[r].task = "answer" THEN {"text"} ELSE SqlResults) \cup {"raised"} :
          /\ res = "raised" \/ req[r].left < MaxEmits
          /\ Local(r, [req[r] EXCEPT !.task = res])
\* a cancelled task ends with CancelledError, or with an error of its cleanup
CancelLands(r) ==
    /\ Idle /\ req[r].task = "cancelling"
    /\ \E res \in {"cancelled", "raised"} :
          Local(r, [req[r] EXCEPT !.task = res, !.put["task"] = <<>>])

\* _log_failure_event, a task of its own: db.insert_failure_log swallows its
\* errors, and the second trace event says "written" whether or not there is a row
FailureBegins(r, w) ==
    /\ Idle /\ req[r].bg[w] = "begin" /\ req[r].put[w] = <<>>
    /\ EmitBy(r, w, "failure_log_write", [req[r] EXCEPT !.bg[w] = "write"])
FailureWrites(r, w) ==
    /\ Idle /\ req[r].bg[w] = "write" /\ req[r].put[w] = <<>>
    /\ Local(r, [req[r] EXCEPT !.bg[w] = "end"])
FailureEnds(r, w) ==
    /\ Idle /\ req[r].bg[w] = "end"
    /\ EmitBy(r, w, "failure_log_written", [req[r] EXCEPT !.bg[w] = "idle"])

\* ask_timeout passes
Tick(r) ==
    /\ Idle /\ req[r].budget = "running" /\ req[r].out = "open"
    /\ Local(r, [req[r] EXCEPT !.budget = "late"])
\* an exception leaves the handler: an HTTP error, or a stream cut short
Breaks(r) == Local(r, [req[r] EXCEPT !.out = "broken", !.pc = "over"])
\* The client of a stream goes away: the generator is abandoned where it is
\* suspended, its task is not.
Disconnect(r) ==
    /\ Idle /\ IsStream(r) /\ req[r].pc # "new" /\ req[r].out = "open"
    /\ Local(r, [req[r] EXCEPT !.out = "gone", !.pc = "over", !.relay = <<>>, !.put["main"] = <<>>])

----------------------------------------------------------------------------
(* The handlers.                                                             *)
\* the time budget of a stream begins at once, that of /ask behind the caches
Arrive(r) ==
    /\ Waiting(r, "new") /\ stop = "up"
    /\ Continue(r, [req[r] EXCEPT
           !.budget = IF IsStream(r) THEN "running" ELSE "none",
           !.pc = IF req[r].kind = "ask" THEN "asked" ELSE "received"])
\* /ask: what embeds, rewrites and retrieves for the cache layers emits through
\* the recorder of the request, in the handler itself
CacheEmits(r) ==
    /\ Waiting(r, "lookup") \/ Waiting(r, "store")
    /\ req[r].left > 0
    /\ EmitBy(r, "main", "inner", [req[r] EXCEPT !.left = @ - 1])
\* the test for deterministic SQL before the second layer catches nothing
LookupRaises(r) == Waiting(r, "lookup") /\ Breaks(r)
AskHit(r)  == Waiting(r, "lookup") /\ GoTo(r, "hit")
AskMiss(r) ==
    /\ Waiting(r, "lookup")
    /\ Continue(r, [req[r] EXCEPT !.budget = "running", !.pc = "missed"])

\* /ask/stream: asyncio.wait returns with the task done or not; what is queued
\* is relayed, and only then the handler looks at `done` and at the clock
Poll(r) ==
    /\ IsStream(r) /\ \E l \in {"sql", "answer"} : Waiting(r, l)
    /\ Local(r, [req[r] EXCEPT !.relay = req[r].inbox, !.inbox = <<>>,
           !.pc = IF @ = "sql" THEN IF req[r].task \in Working THEN "sqlOpen" ELSE "sqlDone"
                  ELSE IF req[r].task \in Working THEN "answerOpen" ELSE "answerDone"])

\* where the handler goes on with a result of generate_sql, and how it replies
AfterSql(r, res) ==
    IF req[r].kind = "sql" THEN {"reported"}
    ELSE CASE res = "clarify"  -> {"clarify"}
           [] res = "rejected" -> {"rejected"}
           [] OTHER            -> {"finished", "capped"}
StatusOf(res) == CASE res = "clarify"  -> "clarification_needed"
                   [] res = "rejected" -> "rejected"
                   [] OTHER            -> "ok"
TaskDone(r) ==
    LET res == req[r].task IN
    \/ res = "raised" /\ Breaks(r)
    \/ /\ res \in SqlResults
       /\ \E l \in AfterSql(r, res) :
             Continue(r, [req[r] EXCEPT !.task = "none", !.det = (res = "deterministic"),
                    !.status = IF l = "reported" THEN StatusOf(res) ELSE "none", !.pc = l])
    \/ /\ res = "text"
       /\ Continue(r, [req[r] EXCEPT !.task = "none", !.pc = "answered"])

\* the other handlers simply await the task
AwaitTask(r) ==
    /\ ~IsStream(r) /\ \E l \in {"sql", "answer"} : Waiting(r, l)
    /\ req[r].task \notin Working
    /\ TaskDone(r)
CheckDone(r) == (At(r, "sqlDone") \/ At(r, "answerDone")) /\ TaskDone(r)

\* MUTANT of CheckLate: the task is left to itself.
CheckLateUncancelled(r) ==
    /\ At(r, "sqlOpen") \/ At(r, "answerOpen")
    /\ req[r].budget = "late"
    /\ GoTo(r, "lateSql")

\* over budget: the task, which may have ended meanwhile, is cancelled
CheckLate(r) ==
    /\ At(r, "sqlOpen") \/ At(r, "answerOpen")
    /\ req[r].budget = "late"
    /\ Local(r, [req[r] EXCEPT
           !.pc = IF @ = "sqlOpen" THEN "cancelSql" ELSE "cancelAnswer",
           !.task = IF @ \in Working THEN "cancelling" ELSE @])

\* MUTANT of CheckEarly: the clock is not looked at.
CheckEarlyTimeless(r) ==
    \/ At(r, "sqlOpen") /\ \E l \in {"sql", "sqlNotice"} : GoTo(r, l)
    \/ At(r, "answerOpen") /\ \E l \in {"answer", "answerNotice"} : GoTo(r, l)

CheckEarly(r) ==
    /\ req[r].budget # "late"
    /\ \/ At(r, "sqlOpen") /\ \E l \in {"sql", "sqlNotice"} : GoTo(r, l)
       \/ At(r, "answerOpen") /\ \E l \in {"answer", "answerNotice"} : GoTo(r, l)

\* `with suppress(CancelledError): await task` after the cancel
AwaitCancelled(r) ==
    /\ Waiting(r, "cancelSql") \/ Waiting(r, "cancelAnswer")
    /\ req[r].task \notin Working \cup {"cancelling"}
    /\ \/ req[r].task = "raised" /\ Breaks(r)
       \/ /\ req[r].task # "raised"
          /\ Continue(r, [req[r] EXCEPT !.task = "none",
                 !.pc = IF @ = "cancelSql" THEN "lateSql" ELSE "lateAnswer"])

\* execute_sql turns every error into a warning
Executed(r) ==
    /\ Waiting(r, "execute")
    /\ \E ok, some \in BOOLEAN :
         Continue(r, [req[r] EXCEPT !.rows = ok /\ some,
                                    !.pc = IF ok THEN "executed" ELSE "failing"])
ExecuteTimesOut(r) ==
    /\ IsStream(r) /\ Waiting(r, "execute") /\ req[r].budget = "late"
    /\ GoTo(r, "lateExecute")

\* /ask: the store's failure is a trace event of its own, and the answer is given
Stored(r) == Waiting(r, "store") /\ GoTo(r, "stored")
\* wait_for cancels the workflow wherever it is suspended
AskTimesOut(r) ==
    /\ Idle /\ req[r].kind = "ask" /\ req[r].budget = "late" /\ req[r].out = "open"
    /\ Continue(r, [req[r] EXCEPT !.budget = "over", !.pc = "lateAsk", !.task = "none",
                                  !.put["main"] = <<>>, !.put["task"] = <<>>])

----------------------------------------------------------------------------
Handler(r) ==
    \/ Poll(r) \/ AwaitTask(r) \/ CheckDone(r) \/ CheckLate(r) \/ CheckEarly(r)
    \/ AwaitCancelled(r) \/ ExecuteTimesOut(r) \/ AskTimesOut(r)
    \/ Send(r) \/ Persisted(r, "main")
Answers(r) ==
    \/ Arrive(r) \/ CacheEmits(r) \/ LookupRaises(r) \/ AskHit(r) \/ AskMiss(r)
    \/ Executed(r) \/ Stored(r)
Background(r) ==
    \E w \in Writers :
        FailureBegins(r, w) \/ FailureWrites(r, w) \/ FailureEnds(r, w) \/ Persisted(r, w)
Generation(r) == TaskEmits(r) \/ TaskEnds(r) \/ Persisted(r, "task")
\* The lifespan ends once no request is in progress; with no pipeline there is
\* nothing to stop.
BeginStop ==
    /\ Idle /\ piped /\ stop = "up"
    /\ \A r \in Requests : req[r].out # "open" \/ req[r].pc = "new"
    /\ stop' = "closing"
    /\ UNCHANGED <<queue, batch, worker, settled, piped, req>>
Pipeline == Idle /\ piped /\ PipeNext /\ UNCHANGED <<piped, req>>

Next ==
    \/ \E r \in Requests : \/ Handler(r) \/ Answers(r) \/ Background(r)
                          \/ Generation(r) \/ CancelLands(r) \/ Tick(r) \/ Disconnect(r)
    \/ BeginStop \/ Pipeline
Spec == AskInit /\ [][Next]_vars

\* asyncio runs its ready callbacks in the order they became ready, so what is
\* ready again and again between the polls of a stream has its turn (SF): time
\* passes, a cancelled task ends, a write of the pool ends by its command timeout.
\* Nothing says that a model or MySQL answers, nor that anybody stops the service.
Beside == Pipeline \/ \E r \in Requests : CancelLands(r) \/ Tick(r) \/ Background(r)
FairSpec == Spec /\ SF_vars(Beside) /\ \A r \in Requests : WF_vars(Handler(r))

----------------------------------------------------------------------------
(* Properties.                                                               *)
Served(r) == req[r].out = "closed"
Relayed(r) == req[r].traced

\* Type invariant; and every handler has run to a place where it suspends.
TypeOK ==
    /\ piped \in BOOLEAN
    /\ stop \in {"up", "closing", "waiting", "stopped"}
    /\ worker \in {"get", "flush", "last", "done"}
    /\ Len(queue) <= QueueSize /\ Len(batch) <= BatchSize
    /\ batch \in Seq(UNION {Events(r) : r \in Requests})
    /\ queue \in Seq({Sentinel} \cup UNION {Events(r) : r \in Requests})
    /\ settled \subseteq Requests \X (Nat \ {0})
    /\ \A r \in Requests : req[r] \in RequestState(r) /\ Suspended(req[r])

\* The lines of every stream keep the documented order: each stage started and
\* finished in turn, one verdict, one final line and nothing behind it.
Protocol == INSTANCE StreamProtocol WITH
    Streams <- Requests,
    Running <- {"sql_generation_started", "sql_generation_running",
                "answer_generation_started", "answer_generation_running"},
    line  <- [r \in Requests |-> req[r].line],
    ended <- [r \in Requests |-> IF IsStream(r) THEN req[r].out ELSE "open"]
KeepsProtocol == Protocol!Spec

\* A stream that reached its end relayed the trace up to its "complete" event,
\* each event once; with a pipeline also in the order and without the gaps of
\* their numbers, whatever the generation and the failure log emit meanwhile.
TraceRelayed ==
    \A r \in Requests : IsStream(r) =>
        /\ \A i, k \in DOMAIN Relayed(r) : Relayed(r)[i][2] = Relayed(r)[k][2] => i = k
        /\ Served(r) => \E i \in DOMAIN Relayed(r) : Relayed(r)[i][3] = "complete"
        /\ piped => \A i \in DOMAIN Relayed(r) : Relayed(r)[i][2] = i

\* A handler that has answered leaves no generation of SQL or of an answer
\* behind that still works on its question.
NoWorkLeft ==
    \A r \in Requests : Served(r) => req[r].task \notin Working \cup {"cancelling"}

\* A request answered from a run of its workflow has its outcome in the request
\* log: the last one logged is the one replied, and a stream logs no other.
\* (/ask logs "ok" and then "rejected" when its budget ends in the cache store,
\* and without a pipeline also when it ends in a trace event.)  A question is
\* learned as a pattern only together with the log of its success, and on a
\* stream only if success is what the reader is told.
OutcomeLogged ==
    \A r \in Requests :
        LET q == req[r] IN
        /\ Served(r) /\ q.logged # <<>> => Last(q.logged) = q.status
        /\ q.logged = <<>> /\ Served(r) => q.kind = "ask" /\ q.budget = "none"
        /\ Len(q.logged) > 1 =>
              /\ q.kind = "ask" /\ Len(q.logged) = 2 /\ Last(q.logged) = "rejected"
              /\ piped => Head(q.logged) = "ok"
        /\ q.saved =>
              /\ q.rows
              /\ q.out # "open" => "ok" \in ToSet(q.logged)
              /\ IsStream(r) /\ Served(r) => q.status = "ok"

\* No event vanishes in the pipeline: what was emitted is dropped at a full
\* queue, waits in the queue or the batch, or was handed to persistence; when
\* the worker has returned, only events published behind the sentinel wait; the
\* events of a request wait in the order of its emits.
NothingVanishes ==
    LET waits == {i \in DOMAIN Backlog : Backlog[i] # Sentinel} IN
    piped =>
        /\ settled \cup {Id(Backlog[i]) : i \in waits} = UNION {{r} \X (1..req[r].seq) : r \in Requests}
        /\ \A i \in waits : Id(Backlog[i]) \notin settled
        /\ \A i, k \in waits :
               i < k /\ Backlog[i][1] = Backlog[k][1] => Backlog[i][2] < Backlog[k][2]
        /\ worker = "done" => batch = <<>> /\ \A i \in DOMAIN queue : queue[i] # Sentinel

\* The time budget ends every stream, and every /ask that has missed the caches,
\* even if the models and the databases never answer.
BudgetEnds ==
    \A r \in Requests :
        req[r].budget # "none" ~> req[r].out # "open"
\* A shutdown gets its sentinel into the queue and the worker back, whatever is
\* still being published.
StopReturns == (stop = "closing") ~> (stop = "stopped")

=============================================================================
