-------------------------- MODULE EvaluationProofs --------------------------
(* Proofs about RateLimiter and Evaluation.                                  *)
(*                                                                           *)
(* The two promises of the token bucket, for every capacity, rate and set of *)
(* clients: BurstBounded is strengthened by what the bucket holds now, each  *)
(* request that passed in the window being paid for by the bucket's contents *)
(* at its opening or by a drop since; SteadyPasses is strengthened to        *)
(* buckets that hold at least a unit per tick since the last request passed. *)
(*                                                                           *)
(* The evaluation, for any cases, replies and traces: EvaluationInv knows    *)
(* how far the trace of a run is stored and read.  What the analyzer finds   *)
(* in the beginning of a trace it finds in the whole of it.                  *)
EXTENDS Evaluation, FiniteSetTheorems, TLAPS

----------------------------------------------------------------------------
(* The token bucket.                                                         *)
\* what passed and what is left were in the bucket or came with the time
Paid(c) == Refill * (passed[c] - free[c]) + Level(c) <= Full + (clock - since[c])
\* the bucket was refilled ever since the last request passed
Filled(c) == tokens[c] = Full \/ tokens[c] >= last[c] - lastPassed[c]
LimiterInv ==
    /\ LimiterTypeOK
    /\ \A c \in Clients : Paid(c) /\ Filled(c)

LEMMA FullIsNat == Full \in Nat /\ Full >= Refill
  <1>1. PICK n \in Nat : Capacity = n + 1
    <2>1. Capacity \in Int /\ Capacity >= 1 /\ Capacity - 1 \in Nat
      BY LimiterAssumption
    <2> QED BY <2>1
  <1>2. n * Refill \in Nat
    BY LimiterAssumption
  <1>3. Full = n * Refill + Refill
    BY <1>1, LimiterAssumption DEF Full
  <1> QED BY <1>2, <1>3, LimiterAssumption

LEMMA LimiterInitInv == LimiterInit => LimiterInv
  BY FullIsNat, LimiterAssumption DEF LimiterInit, LimiterInv, LimiterTypeOK, Paid, Filled, Level

LEMMA LimiterStepInv == LimiterInv /\ [LimiterNext]_limiterVars => LimiterInv'
  <1> SUFFICES ASSUME LimiterInv, [LimiterNext]_limiterVars PROVE LimiterInv'
    OBVIOUS
  <1> USE FullIsNat, LimiterAssumption
  <1>1. CASE Tick
    BY <1>1 DEF Tick, LimiterInv, LimiterTypeOK, Paid, Filled, Level
  <1>2. ASSUME NEW c \in Clients, Pass(c) PROVE LimiterInv'
    <2> DEFINE level == Level(c)
    <2>1. level \in 0..Full /\ level >= Refill
      BY <1>2 DEF Pass, Level, LimiterInv, LimiterTypeOK
    <2>2. LimiterTypeOK'
      BY <1>2, <2>1 DEF Pass, LimiterInv, LimiterTypeOK
    <2>3. ASSUME NEW d \in Clients PROVE Paid(d)' /\ Filled(d)'
      <3>1. CASE d # c
        BY <1>2, <3>1 DEF Pass, LimiterInv, LimiterTypeOK, Paid, Filled, Level
      <3>2. CASE d = c
        <4>1. tokens'[c] = level - Refill /\ last'[c] = clock /\ lastPassed'[c] = clock
              /\ clock' = clock /\ since'[c] = since[c] /\ free'[c] = free[c]
              /\ passed'[c] = passed[c] + 1
          BY <1>2 DEF Pass, LimiterInv, LimiterTypeOK
        <4>2. Level(c)' = level - Refill
          BY <4>1, <2>1 DEF Level, LimiterInv, LimiterTypeOK
        <4>3. Refill * (passed'[c] - free'[c]) = Refill * (passed[c] - free[c]) + Refill
          BY <4>1 DEF LimiterInv, LimiterTypeOK
        <4>4. Refill * (passed[c] - free[c]) + level <= Full + (clock - since[c])
          BY DEF LimiterInv, Paid
        <4>5. Refill * (passed[c] - free[c]) \in Int /\ since[c] \in Int /\ clock \in Int
          BY DEF LimiterInv, LimiterTypeOK
        <4>6. Paid(c)'
          <5> HIDE DEF level
          <5> QED BY <2>1, <4>1, <4>2, <4>3, <4>4, <4>5 DEF Paid
        <4> QED
          BY <3>2, <4>1, <4>6, <2>1 DEF Filled, LimiterInv, LimiterTypeOK
      <3> QED
        BY <3>1, <3>2
    <2> QED
      BY <2>2, <2>3 DEF LimiterInv
  <1>3. ASSUME NEW c \in Clients, TurnAway(c) PROVE LimiterInv'
    BY <1>3 DEF TurnAway, LimiterInv, LimiterTypeOK, Paid, Filled, Level
  <1>4. ASSUME NEW c \in Clients, OpenWindow(c) PROVE LimiterInv'
    <2>1. \A d \in Clients : passed'[d] - free'[d] = IF d = c THEN 0 ELSE passed[d] - free[d]
      BY <1>4 DEF OpenWindow, LimiterInv, LimiterTypeOK
    <2>2. LimiterTypeOK'
      BY <1>4 DEF OpenWindow, LimiterInv, LimiterTypeOK
    <2>3. \A d \in Clients : Level(d)' = Level(d) /\ Level(d) \in 0..Full
      BY <1>4 DEF OpenWindow, LimiterInv, LimiterTypeOK, Level
    <2>4. \A d \in Clients : since'[d] = IF d = c THEN clock ELSE since[d]
      BY <1>4 DEF OpenWindow, LimiterInv, LimiterTypeOK
    <2>5. \A d \in Clients : Paid(d)'
      BY <1>4, <2>1, <2>3, <2>4 DEF OpenWindow, LimiterInv, LimiterTypeOK, Paid
    <2> QED
      BY <1>4, <2>2, <2>5 DEF OpenWindow, LimiterInv, Filled
  <1>5. ASSUME NEW c \in Clients, Bypass(c) PROVE LimiterInv'
    <2>1. \A d \in Clients : passed'[d] - free'[d] = passed[d] - free[d]
      BY <1>5 DEF Bypass, LimiterInv, LimiterTypeOK
    <2>2. LimiterTypeOK'
      BY <1>5 DEF Bypass, LimiterInv, LimiterTypeOK
    <2> QED
      BY <1>5, <2>1, <2>2 DEF Bypass, LimiterInv, Paid, Filled, Level
  <1>6. CASE UNCHANGED limiterVars
    BY <1>6 DEF limiterVars, LimiterInv, LimiterTypeOK, Paid, Filled, Level
  <1> QED
    BY <1>1, <1>2, <1>3, <1>4, <1>5, <1>6 DEF LimiterNext

LEMMA InvIsBounded == LimiterInv => BurstBounded
  <1> SUFFICES ASSUME LimiterInv, NEW c \in Clients
               PROVE  Refill * (passed[c] - free[c]) <= Full + (clock - since[c])
    BY DEF BurstBounded
  <1>1. Level(c) \in Nat
    BY FullIsNat, LimiterAssumption DEF Level, LimiterInv, LimiterTypeOK
  <1>2. Refill * (passed[c] - free[c]) \in Int /\ since[c] \in Int /\ clock \in Int
    BY LimiterAssumption DEF LimiterInv, LimiterTypeOK
  <1>3. Paid(c)
    BY DEF LimiterInv
  <1> QED
    BY <1>1, <1>2, <1>3, FullIsNat DEF Paid

LEMMA InvIsSteady == LimiterInv => SteadyPasses
  BY FullIsNat, LimiterAssumption DEF SteadyPasses, LimiterInv, LimiterTypeOK, Filled, Level

LEMMA LimiterInvHolds == LimiterSpec => []LimiterInv
  BY LimiterInitInv, LimiterStepInv, PTL DEF LimiterSpec

\* No bucket is overdrawn or overfull, and no refill lies in the future.
THEOREM LimiterTypeCorrect == LimiterSpec => []LimiterTypeOK
  <1>1. LimiterInv => LimiterTypeOK
    BY DEF LimiterInv
  <1> QED
    BY <1>1, LimiterInvHolds, PTL

\* In whatever window of time, no client gets more through consume than a full
\* bucket and what drips into it meanwhile, whatever it sends past it under the
\* test server's name (RateLimiter.consume, RateLimitMiddleware.dispatch).
THEOREM BurstsAreBounded == LimiterSpec => []BurstBounded
  BY InvIsBounded, LimiterInvHolds, PTL

\* A client that was charged for nothing during the time of one token is let in,
\* however often it was turned away meanwhile (RateLimiter.consume).
THEOREM SteadyClientsPass == LimiterSpec => []SteadyPasses
  BY InvIsSteady, LimiterInvHolds, PTL

----------------------------------------------------------------------------
(* The analyzer.                                                             *)
Verdicts == {"passed", "provider", "execution", "answer", "sql_generation", "cache",
             "sql_validation", "planning", "chunking", "reranking", "retrieval",
             "schema_retrieval"}

\* Of the rules up to one that applies there is a first that does.
LEMMA FirstApplies ==
  ASSUME NEW n \in Nat \ {0}, NEW rules, DOMAIN rules = 1..n, rules[n][1]
  PROVE  \E i \in DOMAIN rules :
           FirstOf(rules) = rules[i][2] /\ rules[i][1] /\ \A k \in 1..(i - 1) : ~rules[k][1]
<1> DEFINE T == {i \in 1..n : rules[i][1]}
<1>1. IsWellFoundedOn(OpToRel(<, Nat), Nat)
  BY NatLessThanWellFounded
<1>2. T \in SUBSET Nat /\ n \in T
  OBVIOUS
<1>3. PICK i \in T : \A k \in T : <<k, i>> \notin OpToRel(<, Nat)
  BY <1>1, <1>2, WFMin
<1>4. \A k \in 1..(i - 1) : ~rules[k][1]
  <2> SUFFICES ASSUME NEW k \in 1..(i - 1), rules[k][1] PROVE FALSE
    OBVIOUS
  <2>1. k \in T /\ k \in Nat /\ i \in Nat /\ k < i
    OBVIOUS
  <2>2. <<k, i>> \in OpToRel(<, Nat)
    BY <2>1 DEF OpToRel
  <2> QED
    BY <1>3, <2>1, <2>2
<1> QED
  BY <1>3, <1>4 DEF FirstOf

LEMMA LostType == \A s, events : FirstOf(Lost(s, events)) \in Verdicts
<1> SUFFICES ASSUME NEW s, NEW events PROVE FirstOf(Lost(s, events)) \in Verdicts
  OBVIOUS
<1>1. DOMAIN Lost(s, events) = 1..8 /\ Lost(s, events)[8][1] = TRUE
  BY DEF Lost
<1>2. PICK i \in 1..8 : FirstOf(Lost(s, events)) = Lost(s, events)[i][2]
  <2>1. 8 \in Nat \ {0}
    OBVIOUS
  <2> QED
    BY <1>1, <2>1, FirstApplies
<1>3. \A k \in 1..8 : Lost(s, events)[k][2] \in Verdicts
  BY DEF Lost, Verdicts, RetrievalFamily
<1> QED
  BY <1>2, <1>3

LEMMA FailureNamed == \A s, events : FailureType(s, events) \in Verdicts
<1> SUFFICES ASSUME NEW s, NEW events PROVE FailureType(s, events) \in Verdicts
  OBVIOUS
<1> DEFINE codes == Codes(s, events)
           refused == s.http = "error"
           asks == s.status = "clarification_needed" /\ s.wants = "ok"
           rejects == s.status = "rejected" /\ s.wants = "ok"
           inSql == Failed(events, SqlStages)
           inExecution == Failed(events, {"execution"})
           inAnswer == Failed(events, {"answer_generation"})
           rules == <<
             <<s.http = "raised", "provider">>,
             <<refused /\ inExecution, "execution">>,
             <<refused /\ inAnswer, "answer">>,
             <<refused /\ inSql, "sql_generation">>,
             <<refused, "provider">>,
             <<ProviderFailed(s, events), "provider">>,
             <<CacheHit(s, events), "cache">>,
             <<"execution" \in codes, "execution">>,
             <<"validation" \in codes, "sql_validation">>,
             <<"hallucination" \in codes, "answer">>,
             <<asks, IF s.asked THEN "planning" ELSE "sql_generation">>,
             <<rejects /\ inSql, "sql_generation">>,
             <<rejects /\ inExecution, "execution">>,
             <<rejects /\ inAnswer, "answer">>,
             <<MissesKeyword(s, events) \/ s.brokenSql, FirstOf(Lost(s, events))>>,
             <<s.answerShort, "answer">>,
             <<s.status # s.wants, IF s.wants = "ok" THEN "planning" ELSE "sql_validation">>,
             <<inAnswer, "answer">>,
             <<TRUE, "sql_generation">> >>
<1>1. FailureType(s, events) = FirstOf(rules)
  BY DEF FailureType
<1>2. DOMAIN rules = 1..19 /\ rules[19][1] = TRUE
  OBVIOUS
<1>3. \A k \in 1..19 : rules[k][2] \in Verdicts
  BY LostType DEF Verdicts
<1> HIDE DEF rules
<1>4. PICK i \in 1..19 : FirstOf(rules) = rules[i][2]
  <2>1. 19 \in Nat \ {0}
    OBVIOUS
  <2> QED
    BY <1>2, <2>1, FirstApplies
<1> QED
  BY <1>1, <1>3, <1>4

LEMMA AssessedType == \A s, events : Assessed(s, events) \in Verdicts
BY FailureNamed DEF Assessed, Verdicts

\* Who passes on the beginning of a trace passes on the whole of it, unless the
\* case forbids a code.
LEMMA PassedGrows ==
  ASSUME NEW s, s.trace \in Seq(TraceEvents), NEW n \in Nat, n <= Len(s.trace),
         s.forbids = {}, Passed(s, SubSeq(s.trace, 1, n))
  PROVE  Passed(s, s.trace)
<1> DEFINE whole == s.trace
           part  == SubSeq(whole, 1, n)
<1>1. \A i \in DOMAIN part : i \in DOMAIN whole /\ part[i] = whole[i]
  OBVIOUS
<1> HIDE DEF part, whole
<1>2. Holds(s, part) => Holds(s, whole)
  BY <1>1 DEF Holds
<1>3. Codes(s, part) \subseteq Codes(s, whole)
  BY <1>1 DEF Codes
<1>4. s.used \cup Retrieved(s, part) \subseteq s.used \cup Retrieved(s, whole)
  BY <1>1 DEF Retrieved, Named
<1>5. s.used \cup Selected(s, part) \subseteq s.used \cup Selected(s, whole)
  BY <1>1 DEF Selected, Named
<1>6. MissesKeyword(s, whole) => MissesKeyword(s, part)
  BY <1>2 DEF MissesKeyword
<1>7. MissesTables(s, whole) => MissesTables(s, part)
  BY <1>4, <1>5 DEF MissesTables
<1>8. Passed(s, part) => Passed(s, whole)
  BY <1>3, <1>6, <1>7 DEF Passed
<1> QED
  BY <1>8 DEF part, whole

----------------------------------------------------------------------------
(* The evaluation.                                                           *)
RunRecord ==
    [at : {"queued", "ask", "trace", "log", "done"}, script : Nat, refused : BOOLEAN,
     stored : Nat, tries : Nat, seen : Nat, verdict : Verdicts \cup {"none"}]
RunOK(r) ==
    /\ run[r].tries < IF run[r].at = "log" THEN LogTries ELSE TraceTries
    /\ (run[r].verdict # "none") = (run[r].at = "done")
    /\ run[r].at \in {"ask", "trace", "log"} =>
         /\ run[r].script \in DOMAIN Scripts
         /\ run[r].stored <= Len(Script(r).trace)
         /\ run[r].seen <= run[r].stored
    /\ run[r].at # "log" => run[r].seen = 0
    /\ run[r].at = "queued" => run[r].stored = 0
EvaluationInv ==
    /\ LimiterInv
    /\ phase \in {"start", "running", "written", "failed"}
    /\ IsFiniteSet(InFlight) /\ Cardinality(InFlight) <= Slots
    /\ run \in [Runs -> RunRecord] /\ \A r \in Runs : RunOK(r)

LEMMA CaseFacts ==
  ASSUME NEW c \in Cases
  PROVE  c.trace \in Seq(TraceEvents) /\ Refusal(c).trace \in Seq(TraceEvents)
<1>1. Refusal(c).trace = <<>>
  BY DEF Refusal, Cases
<1> QED
  BY <1>1 DEF Cases

LEMMA ScriptFacts ==
  ASSUME NEW r \in Runs, run[r].script \in DOMAIN Scripts
  PROVE  Script(r).trace \in Seq(TraceEvents)
<1>1. Scripts[run[r].script] \in Cases
  BY EvaluationAssumption
<1> QED
  BY <1>1, CaseFacts DEF Script

LEMMA SlotsType == Slots \in Int /\ Slots >= 1
BY EvaluationAssumption DEF Slots

LEMMA EvaluationInitInv == EvaluationInit => EvaluationInv
<1> SUFFICES ASSUME EvaluationInit PROVE EvaluationInv
  OBVIOUS
<1>1. LimiterInv
  BY LimiterInitInv DEF EvaluationInit
<1>2. InFlight = {}
  BY DEF EvaluationInit, InFlight, Queued
<1>3. IsFiniteSet(InFlight) /\ Cardinality(InFlight) <= Slots
  BY <1>2, FS_EmptySet, SlotsType
<1>4. run \in [Runs -> RunRecord]
  BY DEF EvaluationInit, Queued, RunRecord
<1>5. \A r \in Runs : RunOK(r)
  BY EvaluationAssumption DEF EvaluationInit, Queued, RunOK
<1> QED
  BY <1>1, <1>3, <1>4, <1>5 DEF EvaluationInv, EvaluationInit

\* One run moves, the others stay.
LEMMA MovesInv ==
  ASSUME EvaluationInv, NEW r \in Runs, NEW q \in RunRecord, Moves(r, q), RunOK(r)',
         [LimiterNext]_limiterVars, UNCHANGED phase,
         \/ q.at \in {"queued", "done"}
         \/ run[r].at \notin {"queued", "done"}
         \/ Cardinality(InFlight) < Slots
  PROVE  EvaluationInv'
<1>1. LimiterInv'
  BY LimiterStepInv DEF EvaluationInv
<1>2. /\ run' \in [Runs -> RunRecord] /\ run'[r] = q
      /\ \A k \in Runs \ {r} : run'[k] = run[k]
  BY DEF EvaluationInv, Moves
<1>3. ASSUME NEW k \in Runs PROVE RunOK(k)'
  <2>1. CASE k = r
    BY <2>1
  <2>2. CASE k # r
    <3>1. run'[k] = run[k] /\ RunOK(k)
      BY <1>2, <2>2 DEF EvaluationInv
    <3>2. Script(k)' = Script(k)
      BY <3>1 DEF Script
    <3> QED
      BY <3>1, <3>2 DEF RunOK
  <2> QED
    BY <2>1, <2>2
<1>4. IsFiniteSet(InFlight)' /\ Cardinality(InFlight)' <= Slots
  <2>1. IsFiniteSet(InFlight) /\ Cardinality(InFlight) <= Slots /\ Cardinality(InFlight) \in Nat
    BY FS_CardinalityType DEF EvaluationInv
  <2>2. CASE q.at \in {"queued", "done"}
    <3>1. InFlight' \in SUBSET InFlight
      BY <1>2, <2>2 DEF InFlight
    <3>2. /\ IsFiniteSet(InFlight') /\ Cardinality(InFlight') <= Cardinality(InFlight)
          /\ Cardinality(InFlight') \in Nat
      BY <2>1, <3>1, FS_Subset, FS_CardinalityType
    <3> QED
      BY <2>1, <3>2, SlotsType
  <2>3. CASE q.at \notin {"queued", "done"} /\ run[r].at \notin {"queued", "done"}
    <3>1. InFlight' = InFlight
      BY <1>2, <2>3 DEF InFlight
    <3> QED
      BY <2>1, <3>1
  <2>4. CASE q.at \notin {"queued", "done"} /\ Cardinality(InFlight) < Slots
    <3>1. InFlight' = InFlight \cup {r}
      BY <1>2, <2>4 DEF InFlight
    <3>2. IsFiniteSet(InFlight') /\ Cardinality(InFlight') <= Cardinality(InFlight) + 1
          /\ Cardinality(InFlight') \in Nat
      BY <2>1, <3>1, FS_AddElement, FS_CardinalityType
    <3> QED
      BY <2>1, <2>4, <3>2, SlotsType
  <2> QED
    BY <2>2, <2>3, <2>4
<1> QED
  BY <1>1, <1>2, <1>3, <1>4 DEF EvaluationInv

LEMMA RunFacts ==
  ASSUME EvaluationInv, NEW r \in Runs
  PROVE  /\ run[r] \in RunRecord /\ RunOK(r) /\ run[r].stored \in Nat /\ run[r].tries \in Nat
         /\ run[r].script \in DOMAIN Scripts => Len(Script(r).trace) \in Nat
         /\ \A q : Moves(r, q) => run'[r] = q
BY ScriptFacts DEF EvaluationInv, RunRecord, Moves

LEMMA AskInv ==
  ASSUME EvaluationInv, NEW r \in Runs, Ask(r)
  PROVE  EvaluationInv'
<1> USE EvaluationAssumption
<1>1. /\ run[r].at = "queued" /\ Cardinality(InFlight) < Slots /\ UNCHANGED phase
      /\ run[r].tries \in Nat /\ run[r].tries < TraceTries /\ run[r].seen = 0
      /\ run[r].verdict = "none" /\ run[r].stored = 0
  BY RunFacts DEF Ask, RunOK
<1>2. PICK n \in DOMAIN Scripts :
        \/ Pass(Host) /\ Moves(r, [run[r] EXCEPT !.at = "ask", !.script = n])
        \/ TurnAway(Host) /\ Moves(r, [run[r] EXCEPT !.at = "trace", !.script = n, !.refused = TRUE])
  BY DEF Ask
<1>3. n \in Nat /\ Host \in Clients
  OBVIOUS
<1>4. [LimiterNext]_limiterVars
  BY <1>2, <1>3 DEF LimiterNext
<1>5. PICK q \in RunRecord :
        /\ Moves(r, q) /\ q.at \in {"ask", "trace"} /\ q.script = n /\ q.stored = run[r].stored
        /\ q.tries = run[r].tries /\ q.seen = run[r].seen /\ q.verdict = run[r].verdict
  <2>1. CASE Moves(r, [run[r] EXCEPT !.at = "ask", !.script = n])
    <3> DEFINE q == [run[r] EXCEPT !.at = "ask", !.script = n]
    <3>1. /\ q \in RunRecord /\ q.at \in {"ask", "trace"} /\ q.script = n /\ q.stored = run[r].stored
          /\ q.tries = run[r].tries /\ q.seen = run[r].seen /\ q.verdict = run[r].verdict
      BY <1>3, RunFacts DEF RunRecord
    <3> HIDE DEF q
    <3> QED
      BY <2>1, <3>1 DEF q
  <2>2. CASE Moves(r, [run[r] EXCEPT !.at = "trace", !.script = n, !.refused = TRUE])
    <3> DEFINE q == [run[r] EXCEPT !.at = "trace", !.script = n, !.refused = TRUE]
    <3>1. /\ q \in RunRecord /\ q.at \in {"ask", "trace"} /\ q.script = n /\ q.stored = run[r].stored
          /\ q.tries = run[r].tries /\ q.seen = run[r].seen /\ q.verdict = run[r].verdict
      BY <1>3, RunFacts DEF RunRecord
    <3> HIDE DEF q
    <3> QED
      BY <2>2, <3>1 DEF q
  <2> QED
    BY <1>2, <2>1, <2>2
<1>6. RunOK(r)'
  <2>1. run'[r] = q
    BY <1>5, RunFacts
  <2>2. Len(Script(r)'.trace) \in Nat
    <3>1. Scripts[n] \in Cases
      OBVIOUS
    <3>2. Script(r)' = Scripts[n] \/ Script(r)' = Refusal(Scripts[n])
      BY <2>1, <1>5 DEF Script
    <3>3. Script(r)'.trace \in Seq(TraceEvents)
      BY <3>1, <3>2, CaseFacts
    <3> QED
      BY <3>3
  <2> QED
    BY <2>1, <2>2, <1>1, <1>3, <1>5 DEF RunOK
<1> QED
  BY <1>1, <1>4, <1>5, <1>6, MovesInv

\* The steps of a run on its way.
LEMMA WayInv ==
  ASSUME EvaluationInv, NEW r \in Runs,
         Reply(r) \/ Persist(r) \/ ReadTrace(r) \/ TraceFails(r) \/ ReadLog(r)
  PROVE  EvaluationInv'
<1> USE EvaluationAssumption
<1>1. /\ run[r].at \in {"ask", "trace", "log"} /\ UNCHANGED <<phase, limiterVars>>
      /\ run[r] \in RunRecord /\ RunOK(r)
  BY RunFacts DEF Reply, Persist, ReadTrace, TraceFails, ReadLog
<1>2. /\ run[r].script \in DOMAIN Scripts /\ Len(Script(r).trace) \in Nat
      /\ run[r].stored \in Nat /\ run[r].tries \in Nat /\ run[r].seen \in Nat
      /\ run[r].verdict = "none" /\ run[r].seen <= run[r].stored
      /\ run[r].stored <= Len(Script(r).trace)
  BY <1>1, RunFacts DEF RunOK, RunRecord
<1>3. ASSUME NEW at \in {"ask", "trace", "log"}, NEW stored \in Nat, NEW tries \in Nat,
             NEW seen \in Nat, stored <= Len(Script(r).trace), seen <= stored,
             tries < IF at = "log" THEN LogTries ELSE TraceTries, at # "log" => seen = 0,
             Moves(r, [run[r] EXCEPT !.at = at, !.stored = stored, !.tries = tries, !.seen = seen])
      PROVE  EvaluationInv'
  <2> DEFINE q == [run[r] EXCEPT !.at = at, !.stored = stored, !.tries = tries, !.seen = seen]
  <2>1. /\ q \in RunRecord /\ q.at = at /\ q.stored = stored /\ q.tries = tries /\ q.seen = seen
        /\ q.script = run[r].script /\ q.refused = run[r].refused /\ q.verdict = "none"
    BY <1>1, <1>2 DEF RunRecord
  <2>2. Moves(r, q)
    BY <1>3
  <2> HIDE DEF q
  <2>3. run'[r] = q
    BY <2>2, RunFacts
  <2>4. Script(r)' = Script(r)
    BY <2>1, <2>3 DEF Script
  <2>5. RunOK(r)'
    BY <2>1, <2>3, <2>4, <1>2, <1>3 DEF RunOK
  <2> QED
    BY <2>1, <2>2, <2>5, <1>1, MovesInv
<1>4. 0 < LogTries /\ 0 \in Nat /\ run[r].tries + 1 \in Nat
  BY <1>2
<1>5. CASE Reply(r)
  <2>1. run[r].at = "ask" /\ run[r].tries < TraceTries /\ run[r].seen = 0
    BY <1>1, <1>5 DEF Reply, RunOK
  <2>2. Moves(r, [run[r] EXCEPT !.at = "trace", !.stored = run[r].stored, !.tries = run[r].tries,
                                !.seen = run[r].seen])
    BY <1>1, <1>5 DEF Reply, RunRecord
  <2> QED
    BY <2>1, <2>2, <1>2, <1>3
<1>6. CASE Persist(r)
  <2>1. /\ run[r].at \in {"ask", "trace"} /\ run[r].tries < TraceTries /\ run[r].seen = 0
        /\ run[r].stored + 1 \in Nat /\ run[r].stored + 1 <= Len(Script(r).trace)
        /\ run[r].seen <= run[r].stored + 1
    BY <1>1, <1>2, <1>6 DEF Persist, RunOK
  <2>2. Moves(r, [run[r] EXCEPT !.at = run[r].at, !.stored = run[r].stored + 1,
                                !.tries = run[r].tries, !.seen = run[r].seen])
    BY <1>1, <1>6 DEF Persist, RunRecord
  <2> QED
    BY <2>1, <2>2, <1>2, <1>3
<1>7. CASE ReadTrace(r)
  <2>1. run[r].at = "trace" /\ run[r].seen = 0
    BY <1>1, <1>7 DEF ReadTrace, RunOK
  <2>2. CASE run[r].tries + 1 < TraceTries /\ Moves(r, [run[r] EXCEPT !.tries = @ + 1])
    <3>1. Moves(r, [run[r] EXCEPT !.at = "trace", !.stored = run[r].stored,
                                  !.tries = run[r].tries + 1, !.seen = run[r].seen])
      BY <1>1, <2>1, <2>2 DEF RunRecord
    <3> QED
      BY <2>1, <2>2, <3>1, <1>2, <1>3, <1>4
  <2>3. CASE Moves(r, [run[r] EXCEPT !.at = "log", !.seen = run[r].stored, !.tries = 0])
    <3>1. Moves(r, [run[r] EXCEPT !.at = "log", !.stored = run[r].stored, !.tries = 0,
                                  !.seen = run[r].stored])
      BY <1>1, <2>3 DEF RunRecord
    <3>2. run[r].stored <= run[r].stored
      BY <1>2
    <3> QED
      BY <3>1, <3>2, <1>2, <1>3, <1>4
  <2> QED
    BY <2>2, <2>3, <1>7 DEF ReadTrace
<1>8. CASE TraceFails(r)
  <2>1. Moves(r, [run[r] EXCEPT !.at = "log", !.stored = run[r].stored, !.tries = 0,
                                !.seen = run[r].seen])
    BY <1>1, <1>8 DEF TraceFails, RunRecord
  <2> QED
    BY <2>1, <1>2, <1>3, <1>4
<1>9. CASE ReadLog(r)
  <2>1. run[r].at = "log"
    BY <1>9 DEF ReadLog
  <2>2. CASE run[r].tries + 1 < LogTries /\ Moves(r, [run[r] EXCEPT !.tries = @ + 1])
    <3>1. Moves(r, [run[r] EXCEPT !.at = "log", !.stored = run[r].stored,
                                  !.tries = run[r].tries + 1, !.seen = run[r].seen])
      BY <1>1, <2>1, <2>2 DEF RunRecord
    <3> QED
      BY <2>1, <2>2, <3>1, <1>2, <1>3, <1>4
  <2>3. CASE Moves(r, [Queued EXCEPT !.at = "done", !.verdict = Assessed(Script(r), Read(r))])
    <3>1. PICK verdict \in Verdicts : verdict = Assessed(Script(r), Read(r))
      BY AssessedType
    <3> DEFINE q == [Queued EXCEPT !.at = "done", !.verdict = verdict]
    <3>2. /\ q \in RunRecord /\ q.at = "done" /\ q.tries = 0 /\ q.seen = 0
          /\ q.verdict = verdict /\ verdict # "none"
      BY DEF Queued, RunRecord, Verdicts
    <3>3. Moves(r, q)
      BY <2>3, <3>1
    <3> HIDE DEF q
    <3>4. run'[r] = q
      BY <3>3, RunFacts
    <3>5. RunOK(r)'
      BY <3>2, <3>4 DEF RunOK
    <3> QED
      BY <3>2, <3>3, <3>5, <1>1, MovesInv
  <2> QED
    BY <2>2, <2>3, <1>9 DEF ReadLog
<1> QED
  BY <1>5, <1>6, <1>7, <1>8, <1>9

LEMMA EvaluationStepInv ==
  EvaluationInv /\ [EvaluationNext]_evaluationVars => EvaluationInv'
<1> SUFFICES ASSUME EvaluationInv, [EvaluationNext]_evaluationVars PROVE EvaluationInv'
  OBVIOUS
<1>1. ASSUME UNCHANGED run, [LimiterNext]_limiterVars,
             phase' \in {"start", "running", "written", "failed"}
      PROVE  EvaluationInv'
  <2>1. LimiterInv'
    BY <1>1, LimiterStepInv DEF EvaluationInv
  <2>2. InFlight' = InFlight
    BY <1>1 DEF InFlight
  <2>3. \A r \in Runs : RunOK(r)'
    BY <1>1 DEF EvaluationInv, RunOK, Script
  <2> QED
    BY <1>1, <2>1, <2>2, <2>3 DEF EvaluationInv
<1>2. phase \in {"start", "running", "written", "failed"}
  BY DEF EvaluationInv
<1>3. CASE Begin \/ Report
  BY <1>1, <1>2, <1>3 DEF Begin, Report
<1>4. CASE Traffic
  <2>1. LimiterNext
    BY <1>4 DEF Traffic
  <2> QED
    BY <1>1, <1>2, <1>4, <2>1 DEF Traffic
<1>5. ASSUME NEW r \in Runs, Ask(r) PROVE EvaluationInv'
  BY <1>5, AskInv
<1>6. ASSUME NEW r \in Runs,
             Reply(r) \/ Persist(r) \/ ReadTrace(r) \/ TraceFails(r) \/ ReadLog(r)
      PROVE  EvaluationInv'
  BY <1>6, WayInv
<1>7. CASE UNCHANGED evaluationVars
  BY <1>1, <1>2, <1>7 DEF evaluationVars
<1> QED
  BY <1>3, <1>4, <1>5, <1>6, <1>7 DEF EvaluationNext, Advances

LEMMA EvaluationInvHolds == EvaluationSpec => []EvaluationInv
BY EvaluationInitInv, EvaluationStepInv, PTL DEF EvaluationSpec

\* No more requests are out than `parallel` allows, no trace is read further than
\* it is stored, and every run gets a verdict, exactly when it is done.
THEOREM EvaluationTypeCorrect == EvaluationSpec => []EvaluationTypeOK
<1>1. EvaluationInv => EvaluationTypeOK
  BY DEF EvaluationInv, EvaluationTypeOK, LimiterInv, RunOK, RunRecord
<1> QED
  BY <1>1, EvaluationInvHolds, PTL

\* A trace read while the service still writes it may fail a good run, but it
\* never passes a bad one (get_trace_with_retry, assess_run).
THEOREM EarlyTracesOnlyFail == EvaluationSpec => []EarlyTraceOnlyFails
<1>1. EvaluationInv => EarlyTraceOnlyFails
  <2> SUFFICES ASSUME EvaluationInv, NEW r \in Runs, run[r].at = "log",
                      Script(r).forbids = {}, Passed(Script(r), Read(r))
               PROVE  Passed(Script(r), Script(r).trace)
    BY DEF EarlyTraceOnlyFails
  <2>1. /\ run[r] \in RunRecord /\ run[r].script \in DOMAIN Scripts
        /\ run[r].stored <= Len(Script(r).trace) /\ run[r].seen <= run[r].stored
    BY RunFacts DEF RunOK
  <2>2. Script(r).trace \in Seq(TraceEvents)
    BY <2>1, ScriptFacts
  <2>3. run[r].seen \in Nat /\ run[r].stored \in Nat /\ Len(Script(r).trace) \in Nat
    BY <2>1, <2>2 DEF RunRecord
  <2>4. run[r].seen <= Len(Script(r).trace)
    BY <2>1, <2>3
  <2> QED
    BY <2>2, <2>3, <2>4, PassedGrows DEF Read
<1> QED
  BY <1>1, EvaluationInvHolds, PTL

\* The evaluation's own requests are charged like others: the limiter's promises
\* to and about charged requests hold while it runs beside any other traffic,
\* the uncharged included.
THEOREM LimitedWhileEvaluating == EvaluationSpec => [](BurstBounded /\ SteadyPasses)
<1>1. EvaluationInv => BurstBounded /\ SteadyPasses
  BY InvIsBounded, InvIsSteady DEF EvaluationInv
<1> QED
  BY <1>1, EvaluationInvHolds, PTL
=============================================================================
