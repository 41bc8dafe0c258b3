----------------------------- MODULE Evaluation -----------------------------
(* The evaluation CLI (evaluation/runner.py, client.py, analyzer.py): every  *)
(* run of a benchmark case asks the service through its rate limiter, reads  *)
(* the trace the service is still writing, and is assessed from both.        *)
(*                                                                           *)
(* Texts are left out: a reply or an event holds the case's keyword or not,  *)
(* what was generated breaks the case's demands on SQL or answer or not, and *)
(* warning codes are the classes the analyzer tells apart.                   *)
EXTENDS RateLimiter, Sequences, FiniteSets
CONSTANTS Runs,        \* RunSpecs of all suites, in _build_run_specs
          Host,        \* the address the CLI runs on
          Tables,      \* of the schema
          Scripts,     \* a sequence of cases with a reply and a trace the service may give
          Parallel,    \* EvaluationConfig.parallel
          TraceTries,  \* trace_retry_limit
          LogTries     \* retries of get_failure_for_request

\* An event of a trace.
TraceEvents ==
    [stage : STRING, status : STRING, source : STRING, named : BOOLEAN, codes : SUBSET STRING,
     holds : BOOLEAN, retrieved : SUBSET Tables, selected : SUBSET Tables]
\* What a case expects, and the reply and the trace it is given; `wrong` stands for
\* forbidden answers, ReAct actions and tables the SQL lacks.
Cases ==
    [wants : STRING, keyword : BOOLEAN, tables : SUBSET Tables, needs : SUBSET STRING,
     forbids : SUBSET STRING, hints : Seq(STRING),
     http : {"ok", "error", "raised"}, status : STRING, holds : BOOLEAN, used : SUBSET Tables,
     codes : SUBSET STRING, brokenSql : BOOLEAN, answerShort : BOOLEAN, wrong : BOOLEAN,
     cached : BOOLEAN, asked : BOOLEAN, trace : Seq(TraceEvents)]
ASSUME EvaluationAssumption ==
    /\ Scripts \in Seq(Cases)
    /\ Host \in Clients /\ Parallel \in Int
    /\ TraceTries \in Nat \ {0} /\ LogTries \in Nat \ {0}

VARIABLES
    phase,   \* of EvaluationRunner.run
    run      \* per run: where it is, the script it follows and whether it was
             \* turned away, the events stored, the reads tried, the events
             \* read, the verdict
evaluationVars == <<phase, run, limiterVars>>

Queued == [at |-> "queued", script |-> 0, refused |-> FALSE, stored |-> 0, tries |-> 0,
           seen |-> 0, verdict |-> "none"]
EvaluationInit ==
    /\ LimiterInit
    /\ phase = "start" /\ run = [r \in Runs |-> Queued]
InFlight == {r \in Runs : run[r].at \notin {"queued", "done"}}
Slots == IF Parallel > 1 THEN Parallel ELSE 1

----------------------------------------------------------------------------
(* The analyzer, on a script s and the events of its trace that were read.   *)
RetrievalStages == {"query_rewrite", "schema_retrieval", "column_retrieval", "vector_search",
                    "sql_context_focus"}
SqlStages == {"sql_generation", "review_gate"}
RetrievalFamily == {"retrieval", "chunking", "reranking", "schema_retrieval"}

\* MUTANT of Holds: the evidence is the last event read.
HoldsLast(s, events) == s.holds \/ \E i \in DOMAIN events : i = Len(events) /\ events[i].holds

\* the keyword is in the answer, the SQL, or the text of an event
Holds(s, events) == s.holds \/ \E i \in DOMAIN events : events[i].holds

Codes(s, events) == s.codes \cup UNION {events[i].codes : i \in DOMAIN events}
\* tables of the events, or of the reply when the events name none
Named(s, tables) == IF tables = {} THEN s.used ELSE tables
Retrieved(s, events) == Named(s, UNION {events[i].retrieved : i \in DOMAIN events})
Selected(s, events) == Named(s, UNION {events[i].selected : i \in DOMAIN events})
CacheHit(s, events) ==
    s.cached \/ \E i \in DOMAIN events : events[i].stage = "cache_lookup" /\ events[i].status = "completed"

Failed(events, stages) ==
    \E i \in DOMAIN events :
        events[i].status \in {"failed", "warning", "needs_context"} /\ events[i].stage \in stages
ProviderFailed(s, events) ==
    \/ "provider" \in Codes(s, events)
    \/ \E i \in DOMAIN events :
          /\ events[i].status \in {"failed", "warning"}
          /\ events[i].source = "provider" /\ ~events[i].named

MissesKeyword(s, events) == s.keyword /\ ~Holds(s, events)
MissesTables(s, events) == ~(s.tables \subseteq (s.used \cup Retrieved(s, events) \cup Selected(s, events)))
Passed(s, events) ==
    /\ s.status = s.wants
    /\ ~MissesKeyword(s, events) /\ ~MissesTables(s, events)
    /\ ~s.answerShort /\ ~s.wrong /\ ~s.brokenSql
    /\ s.needs \subseteq Codes(s, events) /\ s.forbids \cap Codes(s, events) = {}

\* The first rule that applies names the failure.
FirstOf(rules) ==
    rules[CHOOSE i \in DOMAIN rules : rules[i][1] /\ \A k \in 1..(i - 1) : ~rules[k][1]][2]
\* the failure the case thinks likeliest
Hinted(s) == IF s.hints = <<>> THEN "none" ELSE s.hints[1]
\* where the expected tables were lost between retrieval and selection
Lost(s, events) ==
    LET retrieved == s.tables \cap Retrieved(s, events)
        selected == s.tables \cap Selected(s, events)
        none == s.tables # {} /\ retrieved = {}
        dropped == retrieved # {} /\ selected = {}
    IN << <<none /\ Hinted(s) = "chunking", "chunking">>,
          <<none /\ Hinted(s) = "reranking" /\ selected # {}, "reranking">>,
          <<none /\ \A i \in DOMAIN events : events[i].stage \notin RetrievalStages, "retrieval">>,
          <<none, "schema_retrieval">>,
          <<dropped, IF Hinted(s) \in RetrievalFamily THEN Hinted(s) ELSE "reranking">>,
          <<\E i \in DOMAIN s.hints : s.hints[i] = "chunking", "chunking">>,
          <<s.brokenSql, "sql_generation">>,
          <<TRUE, "retrieval">> >>
FailureType(s, events) ==
    LET codes == Codes(s, events)
        refused == s.http = "error"
        asks == s.status = "clarification_needed" /\ s.wants = "ok"
        rejects == s.status = "rejected" /\ s.wants = "ok"
        inSql == Failed(events, SqlStages)
        inExecution == Failed(events, {"execution"})
        inAnswer == Failed(events, {"answer_generation"})
    IN FirstOf(<<
        <<s.http = "raised", "provider">>,
        <<refused /\ inExecution, "execution">>,
        <<refused /\ inAnswer, "answer">>,
        <<refused /\ inSql, "sql_generation">>,
        <<refused, "provider">>,
        <<ProviderFailed(s, events), "provider">>,
        <<CacheHit(s, events), "cache">>,
        <<"execution" \in codes, "execution">>,
        <<"validation" \in codes, "sql_validation">>,
        <<"hallucination" \in codes, "answer">>,
        <<asks, IF s.asked THEN "planning" ELSE "sql_generation">>,
        <<rejects /\ inSql, "sql_generation">>,
        <<rejects /\ inExecution, "execution">>,
        <<rejects /\ inAnswer, "answer">>,
        <<MissesKeyword(s, events) \/ s.brokenSql, FirstOf(Lost(s, events))>>,
        <<s.answerShort, "answer">>,
        <<s.status # s.wants, IF s.wants = "ok" THEN "planning" ELSE "sql_validation">>,
        <<inAnswer, "answer">>,
        <<TRUE, "sql_generation">> >>)
Assessed(s, events) == IF Passed(s, events) THEN "passed" ELSE FailureType(s, events)

----------------------------------------------------------------------------
(* A run.                                                                    *)
Moves(r, rec) == run' = [run EXCEPT ![r] = rec]

\* 429: what the case expects, and nothing else
Refusal(s) == [s EXCEPT !.http = "error", !.status = "none", !.holds = FALSE, !.used = {},
                        !.codes = {}, !.brokenSql = FALSE, !.cached = FALSE, !.asked = FALSE,
                        !.trace = <<>>]
Script(r) == IF run[r].refused THEN Refusal(Scripts[run[r].script]) ELSE Scripts[run[r].script]
Read(r) == SubSeq(Script(r).trace, 1, run[r].seen)

\* MUTANT of Ask: nothing waits for the semaphore.
AskAtOnce(r) ==
    /\ phase = "running" /\ run[r].at = "queued"
    /\ \E s \in DOMAIN Scripts :
         /\ Pass(Host) /\ Moves(r, [run[r] EXCEPT !.at = "ask", !.script = s])
    /\ UNCHANGED phase

\* the semaphore is taken and the question sent, under the limiter of the service
Ask(r) ==
    /\ phase = "running" /\ run[r].at = "queued" /\ Cardinality(InFlight) < Slots
    /\ \E s \in DOMAIN Scripts :
         \/ Pass(Host) /\ Moves(r, [run[r] EXCEPT !.at = "ask", !.script = s])
         \/ TurnAway(Host) /\ Moves(r, [run[r] EXCEPT !.at = "trace", !.script = s, !.refused = TRUE])
    /\ UNCHANGED phase
\* the reply, or the client's time-out
Reply(r) ==
    /\ run[r].at = "ask" /\ Moves(r, [run[r] EXCEPT !.at = "trace"])
    /\ UNCHANGED <<phase, limiterVars>>
\* The service stores the events of a request in order, behind its reply or not
\* (see TracePipeline); once the trace is read nobody asks for the rest.
Persist(r) ==
    /\ run[r].at \in {"ask", "trace"} /\ run[r].stored < Len(Script(r).trace)
    /\ Moves(r, [run[r] EXCEPT !.stored = @ + 1])
    /\ UNCHANGED <<phase, limiterVars>>

\* the first trace that is not empty is taken; after the last attempt, none
ReadTrace(r) ==
    /\ run[r].at = "trace"
    /\ IF run[r].stored = 0 /\ run[r].tries + 1 < TraceTries
       THEN Moves(r, [run[r] EXCEPT !.tries = @ + 1])
       ELSE Moves(r, [run[r] EXCEPT !.at = "log", !.seen = run[r].stored, !.tries = 0])
    /\ UNCHANGED <<phase, limiterVars>>
\* the service or the connection fails
TraceFails(r) ==
    /\ run[r].at = "trace" /\ Moves(r, [run[r] EXCEPT !.at = "log", !.tries = 0])
    /\ UNCHANGED <<phase, limiterVars>>
\* The row of the failure log is found, or not, or looked for again: it is kept
\* for the record and the run assessed without it.
ReadLog(r) ==
    /\ run[r].at = "log"
    /\ \/ run[r].tries + 1 < LogTries /\ Moves(r, [run[r] EXCEPT !.tries = @ + 1])
       \/ Moves(r, [Queued EXCEPT !.at = "done", !.verdict = Assessed(Script(r), Read(r))])
    /\ UNCHANGED <<phase, limiterVars>>

(* The evaluation: the service is ready, the cases are stored, all runs are  *)
(* gathered, the failures and the summary written.                           *)
Begin ==
    /\ phase = "start" /\ phase' \in {"running", "failed"}
    /\ UNCHANGED <<run, limiterVars>>
Report ==
    /\ phase = "running" /\ \A r \in Runs : run[r].at = "done"
    /\ phase' = "written"
    /\ UNCHANGED <<run, limiterVars>>
\* others share the address, time passes
Traffic ==
    /\ LimiterNext
    /\ UNCHANGED <<phase, run>>

Advances == Begin \/ Report \/ \E r \in Runs : Ask(r) \/ Reply(r) \/ ReadTrace(r) \/ ReadLog(r)
EvaluationNext == Advances \/ Traffic \/ \E r \in Runs : Persist(r) \/ TraceFails(r)
EvaluationSpec == EvaluationInit /\ [][EvaluationNext]_evaluationVars

----------------------------------------------------------------------------
\* Type invariant; no more requests are out than parallel allows.
EvaluationTypeOK ==
    /\ LimiterTypeOK
    /\ phase \in {"start", "running", "written", "failed"}
    /\ Cardinality(InFlight) <= Slots
    /\ \A r \in Runs :
         /\ run[r].at \in {"queued", "ask", "trace", "log", "done"}
         /\ run[r].tries < IF run[r].at = "log" THEN LogTries ELSE TraceTries
         /\ run[r].at \in {"trace", "log"} => run[r].seen <= run[r].stored
         /\ (run[r].verdict # "none") = (run[r].at = "done")

\* The trace is read while the service writes it.  Read too early it may fail a
\* good run, but it never passes a bad one, unless the case forbids a code
\* (get_trace_with_retry, _extract_trace_summary, assess_run).
EarlyTraceOnlyFails ==
    \A r \in {r \in Runs : run[r].at = "log"} :
        Script(r).forbids = {} /\ Passed(Script(r), Read(r)) => Passed(Script(r), Script(r).trace)
=============================================================================
