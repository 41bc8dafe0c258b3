-------------------------- MODULE AskStreamProofs --------------------------
(* The safety of AskStream for every number of requests, every size of the  *)
(* queue and the batches, and every bound on the events of a generation:    *)
(* the five invariants of its run, and that it implements StreamProtocol.   *)
EXTENDS AskStream, SequenceTheorems, TLAPS

----------------------------------------------------------------------------
(* What is known of a request at each label of its handler.                 *)
SqlLines    == {"sql_generation_started", "sql_generation_running"}
AnswerLines == {"answer_generation_started", "answer_generation_running"}
Verdicts    == {"sql_generation_rejected", "execution_failed",
                "answer_generation_finished", "timeout"}

\* The last line of a stream there: none where no stream comes.
LinesAt(l) ==
    CASE l \in {"new", "received", "starting"} -> {"none"}
      [] l \in {"startRelay", "generating"} -> {"started"}
      [] l \in {"startSql", "sql", "sqlDone", "sqlOpen", "sqlNotice", "cancelSql", "finished",
                "sayFinished", "capped", "sayCapped", "rejected", "logRejected",
                "failRejected", "sayRejected", "clarify", "logClarify", "sayClarify",
                "lateSql", "failSql", "saySql"} -> SqlLines
      [] l = "sayCap" -> {"sql_generation_finished"}
      [] l = "executing" -> {"sql_generation_finished", "row_cap_applied"}
      [] l \in {"emitExecuting", "executeRelay", "execute", "executed", "executedRelay",
                "sayExecuted", "failing", "failingRelay", "logFailing", "failFailing",
                "sayFailing", "lateExecute", "failExecute", "sayExecute"} -> {"execution_started"}
      [] l = "answering" -> {"execution_finished"}
      [] l \in {"emitAnswering", "answerRelay", "decided", "startAnswer", "answer", "answerDone",
                "answerOpen", "answerNotice", "cancelAnswer", "answered", "answeredRelay",
                "sayAnswered", "lateAnswer", "failAnswer", "sayAnswer"} -> AnswerLines
      [] l \in {"learn", "logOk", "keep"} -> {"answer_generation_finished"}
      [] l \in {"emitExecute", "emitAnswer"} -> {"timeout"}
      [] l \in {"replyOk", "replyRejected", "replyClarify", "complete", "lastRelay", "final"}
           -> Verdicts
      [] l = "end" -> {"final"}
      [] l = "over" -> Lines
      [] OTHER -> {}

\* The task that is awaited there: with "none" there is no other.
TasksAt(l) ==
    CASE l \in {"sql", "sqlNotice", "sqlOpen"} -> {"sql", "raised"} \cup SqlResults
      [] l = "sqlDone"      -> {"raised"} \cup SqlResults
      [] l = "cancelSql"    -> {"cancelling", "cancelled", "raised"} \cup SqlResults
      [] l \in {"answer", "answerNotice", "answerOpen"} -> {"answer", "text", "raised"}
      [] l = "answerDone"   -> {"text", "raised"}
      [] l = "cancelAnswer" -> {"cancelling", "cancelled", "raised", "text"}
      [] OTHER -> {"none"}

\* Where the outcome has been logged, and what it is.
LoggedRejected ==
    {"failRejected", "sayRejected", "failFailing", "sayFailing", "failSql", "saySql",
     "failExecute", "sayExecute", "emitExecute", "failAnswer", "sayAnswer", "emitAnswer",
     "replyRejected"}
LoggedClarify == {"sayClarify", "replyClarify"}
LoggedOk      == {"keep", "store", "stored", "replyOk"}
Replied       == {"complete", "lastRelay", "final", "end"}

\* More operations than a handler performs from there without suspending.
Rank(l) ==
    CASE l \in Stops -> 0
      [] l \in {"asked", "startSql", "sqlNotice", "executeRelay", "startAnswer",
                "answerNotice", "end"} -> 1
      [] l \in {"generating", "missed", "logReported", "emitExecuting", "final"} -> 2
      [] l \in {"startRelay", "reported", "executing", "lastRelay"} -> 3
      [] l \in {"starting", "sayFinished", "sayCap", "complete"} -> 4
      [] l \in {"received", "finished", "sayCapped", "replyOk", "replyRejected",
                "replyClarify"} -> 5
      [] l \in {"capped", "keep", "stored", "sayRejected", "sayClarify", "sayFailing",
                "saySql", "emitExecute", "emitAnswer", "failAsk", "hit"} -> 6
      [] l \in {"logOk", "failRejected", "logClarify", "failFailing", "failSql",
                "sayExecute", "sayAnswer", "lateAsk"} -> 7
      [] l \in {"learn", "logRejected", "clarify", "logFailing", "lateSql", "failExecute",
                "failAnswer"} -> 8
      [] l \in {"sayAnswered", "rejected", "failingRelay", "lateExecute", "lateAnswer"} -> 9
      [] l \in {"answeredRelay", "failing"} -> 10
      [] l = "answered"      -> 11
      [] l = "decided"       -> 12
      [] l = "answerRelay"   -> 13
      [] l = "emitAnswering" -> 14
      [] l = "answering"     -> 15
      [] l = "sayExecuted"   -> 16
      [] l = "executedRelay" -> 17
      [] OTHER               -> 18

----------------------------------------------------------------------------
(* The inductive invariant: of a request q ...                              *)
\* Where a request is and what it may hold there.
Placed(q) ==
    /\ (q.out = "open") <=> (q.pc # "over")
    /\ q.out # "open" => q.relay = <<>> /\ q.put["main"] = <<>>
    /\ q.pc \in {"logOk", "end"} => q.relay = <<>> /\ q.put["main"] = <<>>
    /\ q.pc \in {"asked", "lookup", "hit"} => q.kind = "ask" /\ q.budget = "none"
    /\ q.pc \in {"reported", "logReported"} => q.status # "none"
    /\ ~Stream(q) => q.relay = <<>> /\ q.inbox = <<>>
LineKept(q) == Stream(q) /\ q.out = "open" => q.line \in LinesAt(q.pc)
LineEnds(q) ==
    /\ Stream(q) /\ q.out = "closed" => q.line = "final"
    /\ ~Stream(q) => q.line = "none"
TaskKept(q) ==
    /\ q.out \in {"open", "closed"} => q.task \in TasksAt(q.pc)
    /\ q.out = "broken" => q.task \in {"none", "raised"}

\* A hit of the caches of /ask, which logs nothing.
Hit(q) == q.kind = "ask" /\ q.budget = "none" /\ q.logged = <<>>
LogKept(q) ==
    q.budget # "over" =>
        /\ Len(q.logged) <= 1
        /\ q.pc \in LoggedRejected => q.logged = <<"rejected">>
        /\ q.pc \in LoggedClarify  => q.logged = <<"clarification_needed">>
        /\ q.pc \in LoggedOk => q.logged = <<"ok">> \/ (q.pc = "replyOk" /\ Hit(q))
        /\ q.pc \in Replied \/ q.out = "closed" => q.logged = <<q.status>> \/ Hit(q)
        /\ q.pc \notin {"over"} \cup LoggedRejected \cup LoggedClarify \cup LoggedOk \cup Replied
               => q.logged = <<>>
LogLate(q) ==
    q.budget = "over" =>
        /\ q.kind = "ask"
        /\ q.pc \in {"lateAsk", "failAsk", "replyRejected", "over"} \cup Replied
        /\ q.pc = "lateAsk" =>
               /\ Len(q.logged) <= 1
               /\ piped /\ q.logged # <<>> => q.logged = <<"ok">>
        /\ q.pc # "lateAsk" =>
               /\ Len(q.logged) \in {1, 2} /\ Last(q.logged) = "rejected"
               /\ piped /\ Len(q.logged) = 2 => Head(q.logged) = "ok"
        /\ q.pc \in {"over"} \cup Replied => q.status = "rejected"
LateKept(q) == q.pc \in {"lateAsk", "failAsk"} => q.budget = "over"
SaveKept(q) ==
    q.saved => q.rows /\ (q.pc = "logOk" \/ \E i \in DOMAIN q.logged : q.logged[i] = "ok")

\* The events of the recorder that a stream relays or has relayed.
Trace(q) == q.traced \o q.relay \o q.inbox
Clean(t) ==
    /\ \A i, k \in DOMAIN t : t[i][2] = t[k][2] => i = k
    /\ piped => \A i \in DOMAIN t : t[i][2] = i
HasComplete(t) == \E i \in DOMAIN t : t[i][3] = "complete"
TraceKept(q) ==
    Stream(q) =>
        /\ q.out = "gone" => Clean(q.traced)
        /\ q.out # "gone" =>
             /\ Clean(Trace(q))
             /\ \A i \in DOMAIN Trace(q) : Trace(q)[i][2] <= q.seq
             /\ piped => Len(Trace(q)) = q.seq
             /\ \A w \in Emitters : q.put[w] # <<>> =>
                  /\ \A i \in DOMAIN Trace(q) : Trace(q)[i][2] # q.put[w][2]
                  /\ \A v \in Emitters \ {w} : q.put[v] # <<>> => q.put[v][2] # q.put[w][2]
PutKept(q) ==
    /\ \A w \in Emitters : q.put[w] # <<>> => ~piped /\ q.put[w][2] <= q.seq
CompleteKept(q) ==
    Stream(q) =>
        /\ q.pc = "lastRelay" => \/ HasComplete(q.inbox)
                                 \/ q.put["main"] # <<>> /\ q.put["main"][3] = "complete"
        /\ q.pc = "final" => HasComplete(q.traced) \/ HasComplete(q.relay)
        /\ q.pc = "end" \/ q.out = "closed" => HasComplete(q.traced)

ReqInv(r, q) ==
    /\ q \in RequestState(r)
    /\ Placed(q) /\ LineKept(q) /\ LineEnds(q) /\ TaskKept(q) /\ LogKept(q) /\ LogLate(q)
    /\ LateKept(q) /\ SaveKept(q) /\ TraceKept(q) /\ PutKept(q) /\ CompleteKept(q)

(* ... and of the pipeline, whose queue is qu.                              *)
PipeKept ==
    /\ batch \in Seq(UNION {Events(x) : x \in Requests}) /\ Len(batch) <= BatchSize
    /\ worker \in {"get", "flush", "last", "done"}
    /\ stop \in {"up", "closing", "waiting", "stopped"}
    /\ worker = "done" => batch = <<>>
    /\ worker \in {"flush", "last"} => batch # <<>>
    /\ worker = "get" => Len(batch) < BatchSize
    /\ worker \in {"last", "done"} => stop \in {"waiting", "stopped"}
    /\ stop = "stopped" => worker = "done"
    /\ piped \in BOOLEAN
QueueKept(qu) ==
    /\ qu \in Seq({Sentinel} \cup UNION {Events(x) : x \in Requests}) /\ Len(qu) <= QueueSize
    /\ \A i, k \in DOMAIN qu : qu[i] = Sentinel /\ qu[k] = Sentinel => i = k
    /\ worker \in {"last", "done"} \/ stop \in {"up", "closing"} =>
           \A i \in DOMAIN qu : qu[i] # Sentinel

\* The events of b wait and those of se are settled when each request x has
\* emitted n[x] events.
Held(b) == {i \in DOMAIN b : b[i] # Sentinel}
Flow(b, se, n) ==
    /\ \A x \in Requests : \A m \in Nat \ {0} :
          m <= n[x] <=> \/ <<x, m>> \in se
                       \/ \E i \in Held(b) : Id(b[i]) = <<x, m>>
    /\ \A i \in Held(b) : Id(b[i]) \notin se
    /\ \A i, k \in Held(b) : i < k /\ b[i][1] = b[k][1] => b[i][2] < b[k][2]
Seqs == [x \in Requests |-> req[x].seq]

IInv ==
    /\ PipeKept /\ QueueKept(queue)
    /\ settled \subseteq Requests \X (Nat \ {0})
    /\ piped => Flow(Backlog, settled, Seqs)
    /\ req \in [Requests -> UNION {RequestState(x) : x \in Requests}]
    /\ \A r \in Requests : ReqInv(r, req[r]) /\ Suspended(req[r])

----------------------------------------------------------------------------
(* What the table says of an operation c at label l that goes on to n.      *)
Nexts(c) == IF c[1] \in {"det", "ask"} THEN {c[2], c[3]} ELSE {c[3]}
TypeFact(l, c, n) ==
    /\ c[1] \in {"emit", "say", "drain", "log", "report", "fail", "learn", "start", "reply",
                 "end", "det", "ask"}
    /\ c[1] = "emit"  => c[2] \in Stages
    /\ c[1] = "say"   => c[2] \in Lines
    /\ c[1] = "log"   => c[2] \in Statuses
    /\ c[1] = "start" => c[2] \in Working
    /\ c[1] = "reply" => c[2] \in Statuses
NextFact(n) == n \in Labels
RankFact(l, n) == Rank(n) < Rank(l)
PlaceFact(l, c, n) ==
    /\ l \notin Stops
    /\ c[1] = "end" <=> n = "over"
    /\ (n = "logOk" => c[1] = "learn") /\ (n = "end" => c[1] \in {"say", "report"})
    /\ n \in {"asked", "lookup", "hit"} => l = "asked"
    /\ n \in {"reported", "logReported"} => l = "reported"
    /\ n # "lateAsk" /\ (n = "failAsk" => l = "lateAsk")
LineFact(l, c, n) ==
    \/ c[1] = "say" /\ c[2] \in LinesAt(n)
    \/ c[1] = "ask" /\ n # c[3]
    \/ c[1] # "say" /\ LinesAt(l) \subseteq LinesAt(n)
TaskFact(l, c, n) ==
    IF c[1] = "start" THEN c[2] \in TasksAt(n) ELSE TasksAt(l) \subseteq TasksAt(n)
Logged == LoggedRejected \cup LoggedClarify \cup LoggedOk \cup Replied
LogFact(l, c, n) ==
    CASE c[1] = "log" ->
           /\ l \notin Logged
           /\ \/ l = "lateAsk" /\ c[2] = "rejected"
              \/ c[2] = "rejected" /\ n \in LoggedRejected
              \/ c[2] = "clarification_needed" /\ n \in LoggedClarify
              \/ c[2] = "ok" /\ n = "keep"
      [] c[1] = "report" -> l = "logReported" /\ n = "end"
      [] c[1] = "reply" ->
           /\ n = "complete"
           /\ \/ l = "replyOk" /\ c[2] = "ok"
              \/ l = "replyRejected" /\ c[2] = "rejected"
              \/ l = "replyClarify" /\ c[2] = "clarification_needed"
      [] c[1] = "end" -> l = "end"
      [] OTHER ->
           /\ n \in LoggedRejected => l \in LoggedRejected \cup {"failAsk"}
           /\ n \in LoggedClarify => l \in LoggedClarify
           /\ n \in LoggedOk => l \in {"keep", "store", "stored"} \/ (l = "hit" /\ n = "replyOk")
           /\ n \in Replied => l \in Replied
           /\ n \notin Logged => l \notin Logged
LateFact(l, c, n) ==
    /\ l = "lateAsk" => c[1] = "log" /\ c[2] = "rejected" /\ n = "failAsk"
    /\ l = "failAsk" => c[1] = "fail" /\ n = "replyRejected"
    /\ l = "replyRejected" => c[1] = "reply" /\ c[2] = "rejected" /\ n = "complete"
    /\ l \in Replied => c[1] \in {"emit", "drain", "say", "end"} /\ n \in {"over"} \cup Replied
    /\ c[1] = "learn" => l = "learn" /\ n = "logOk"
    /\ l = "logOk" => c[1] = "log" /\ c[2] = "ok"
EndFact(l, c, n) ==
    /\ n = "lastRelay" => c[1] = "emit" /\ c[2] = "complete"
    /\ n = "final"     => l = "lastRelay" /\ c[1] = "drain"
    /\ n = "end"       => (c[1] = "say" /\ l = "final") \/ LinesAt(l) = {}
    /\ c[1] = "end"   <=> l = "end"
Fact(l, c, n) ==
    /\ NextFact(n) /\ RankFact(l, n)
    /\ TypeFact(l, c, n) /\ PlaceFact(l, c, n) /\ LineFact(l, c, n) /\ TaskFact(l, c, n)
    /\ LogFact(l, c, n) /\ LateFact(l, c, n) /\ EndFact(l, c, n)

----------------------------------------------------------------------------
(* The emission of an event.                                                *)
EventTuples == UNION {Events(x) : x \in Requests}

\* What an event is.
LEMMA EventTuple ==
  ASSUME NEW r \in Requests, NEW e \in Events(r)
  PROVE  /\ e \in EventTuples /\ e # Sentinel /\ e # <<>>
         /\ e = <<e[1], e[2], e[3]>> /\ e[1] = r /\ e[2] \in Nat /\ e[2] > 0 /\ e[3] \in Stages
         /\ Id(e) = <<r, e[2]>> /\ Id(e) \in Requests \X (Nat \ {0})
BY DEF Events, EventTuples, Sentinel, Id

\* The next event of a recorder whose last had number n.
LEMMA NewEvent ==
  ASSUME NEW r \in Requests, NEW n \in Nat, NEW stage \in Stages
  PROVE  /\ <<r, n + 1, stage>> \in Events(r)
         /\ <<r, n + 1, stage>>[1] = r /\ <<r, n + 1, stage>>[2] = n + 1
         /\ <<r, n + 1, stage>>[3] = stage
BY DEF Events

\* What waits and is no sentinel is an event of a request.
LEMMA WaitingEvent ==
  ASSUME NEW b \in Seq({Sentinel} \cup EventTuples), NEW i \in Held(b)
  PROVE  /\ i \in 1..Len(b) /\ b[i] \in EventTuples
         /\ b[i][1] \in Requests /\ b[i][2] \in Nat \ {0} /\ Id(b[i]) = <<b[i][1], b[i][2]>>
<1>1. i \in 1..Len(b) /\ b[i] \in {Sentinel} \cup EventTuples /\ b[i] # Sentinel
  BY DEF Held
<1>2. PICK x \in Requests : b[i] \in Events(x)
  BY <1>1 DEF EventTuples
<1> QED  BY <1>1, <1>2, EventTuple DEF Id

\* A new event settles, or waits behind the others.
LEMMA FlowSettles ==
  ASSUME NEW b \in Seq({Sentinel} \cup EventTuples), NEW se, NEW n \in [Requests -> Nat],
         Flow(b, se, n), NEW r \in Requests, NEW e \in Events(r), e[2] = n[r] + 1
  PROVE  Flow(b, se \cup {Id(e)}, [n EXCEPT ![r] = n[r] + 1])
<1> DEFINE p == [n EXCEPT ![r] = n[r] + 1]
<1>e. Id(e) = <<r, n[r] + 1>> /\ n[r] \in Nat
  BY EventTuple
<1>p. p[r] = n[r] + 1 /\ \A x \in Requests : x # r => p[x] = n[x]
  OBVIOUS
<1> HIDE DEF p
<1>1. ASSUME NEW x \in Requests, NEW m \in Nat \ {0}
      PROVE  m <= p[x] <=> \/ <<x, m>> \in se \cup {Id(e)}
                           \/ \E i \in Held(b) : Id(b[i]) = <<x, m>>
  <2>0. m <= n[x] <=> \/ <<x, m>> \in se
                      \/ \E i \in Held(b) : Id(b[i]) = <<x, m>>
    BY DEF Flow
  <2>1. m <= p[x] <=> m <= n[x] \/ <<x, m>> = <<r, n[r] + 1>>
    <3>1. CASE x = r  BY <3>1, <1>p, <1>e
    <3>2. CASE x # r  BY <3>2, <1>p
    <3> QED  BY <3>1, <3>2
  <2> QED  BY <2>0, <2>1, <1>e
<1>2. ASSUME NEW i \in Held(b) PROVE Id(b[i]) \notin se \cup {Id(e)}
  <2>1. Id(b[i]) \notin se  BY DEF Flow
  <2>2. b[i][1] \in Requests /\ b[i][2] \in Nat \ {0} /\ Id(b[i]) = <<b[i][1], b[i][2]>>
    BY WaitingEvent
  <2>3. b[i][2] <= n[b[i][1]]  BY <2>2 DEF Flow
  <2>4. Id(b[i]) # <<r, n[r] + 1>>  BY <2>2, <2>3, <1>e
  <2> QED  BY <2>1, <2>4, <1>e
<1>3. \A i, k \in Held(b) : i < k /\ b[i][1] = b[k][1] => b[i][2] < b[k][2]
  BY DEF Flow
<1>4. Flow(b, se \cup {Id(e)}, p)  BY <1>1, <1>2, <1>3 DEF Flow
<1> QED  BY <1>4 DEF p

\* Behind what waits, at the end.
LEMMA HeldAppend ==
  ASSUME NEW b \in Seq({Sentinel} \cup EventTuples), NEW e
  PROVE  /\ \A i \in Held(b) : i \in Held(Append(b, e)) /\ Append(b, e)[i] = b[i]
         /\ \A i \in Held(Append(b, e)) : i \in Held(b) \/ (i = Len(b) + 1 /\ e # Sentinel)
         /\ e # Sentinel => Len(b) + 1 \in Held(Append(b, e))
         /\ Append(b, e)[Len(b) + 1] = e
         /\ Held(b) \subseteq 1..Len(b)
BY DEF Held

\* ... or it waits behind the others.
LEMMA FlowWaits ==
  ASSUME NEW b \in Seq({Sentinel} \cup EventTuples), NEW se \in SUBSET (Requests \X (Nat \ {0})),
         NEW n \in [Requests -> Nat],
         Flow(b, se, n), NEW r \in Requests, NEW e \in Events(r), e[2] = n[r] + 1
  PROVE  Flow(Append(b, e), se, [n EXCEPT ![r] = n[r] + 1])
<1> DEFINE p == [n EXCEPT ![r] = n[r] + 1]
           d == Append(b, e)
           k == Len(b) + 1
<1>e. Id(e) = <<r, n[r] + 1>> /\ n[r] \in Nat /\ e # Sentinel /\ e[1] = r
  BY EventTuple
<1>p. p[r] = n[r] + 1 /\ \A x \in Requests : x # r => p[x] = n[x]
  OBVIOUS
<1>d. /\ \A i \in Held(b) : i \in Held(d) /\ d[i] = b[i]
      /\ \A i \in Held(d) : i \in Held(b) \/ i = k
      /\ k \in Held(d) /\ d[k] = e /\ Held(b) \subseteq 1..Len(b) /\ Len(b) \in Nat
  BY <1>e, HeldAppend
<1> HIDE DEF p, d
<1>1. ASSUME NEW x \in Requests, NEW m \in Nat \ {0}
      PROVE  m <= p[x] <=> \/ <<x, m>> \in se
                           \/ \E i \in Held(d) : Id(d[i]) = <<x, m>>
  <2>0. m <= n[x] <=> \/ <<x, m>> \in se
                      \/ \E i \in Held(b) : Id(b[i]) = <<x, m>>
    BY DEF Flow
  <2>1. m <= p[x] <=> m <= n[x] \/ <<x, m>> = <<r, n[r] + 1>>
    <3>1. CASE x = r  BY <3>1, <1>p, <1>e
    <3>2. CASE x # r  BY <3>2, <1>p
    <3> QED  BY <3>1, <3>2
  <2>2. (\E i \in Held(d) : Id(d[i]) = <<x, m>>)
          <=> (\E i \in Held(b) : Id(b[i]) = <<x, m>>) \/ <<x, m>> = <<r, n[r] + 1>>
    BY <1>d, <1>e
  <2> QED  BY <2>0, <2>1, <2>2
<1>b. ASSUME NEW i \in Held(b)
      PROVE  /\ b[i][1] \in Requests /\ b[i][2] \in Nat \ {0} /\ Id(b[i]) = <<b[i][1], b[i][2]>>
             /\ b[i][2] <= n[b[i][1]]
  <2>1. b[i][1] \in Requests /\ b[i][2] \in Nat \ {0} /\ Id(b[i]) = <<b[i][1], b[i][2]>>
    BY WaitingEvent
  <2> QED  BY <2>1 DEF Flow
<1>2. ASSUME NEW i \in Held(d) PROVE Id(d[i]) \notin se
  <2>1. CASE i \in Held(b)  BY <2>1, <1>d DEF Flow
  <2>2. CASE i = k
    <3>1. ~(n[r] + 1 <= n[r]) /\ n[r] + 1 \in Nat \ {0}  BY <1>e
    <3>2. <<r, n[r] + 1>> \notin se  BY <3>1 DEF Flow
    <3> QED  BY <2>2, <1>d, <1>e, <3>2
  <2> QED  BY <2>1, <2>2, <1>d
<1>3. ASSUME NEW i \in Held(d), NEW j \in Held(d), i < j, d[i][1] = d[j][1]
      PROVE  d[i][2] < d[j][2]
  <2>1. CASE i \in Held(b) /\ j \in Held(b)  BY <1>3, <2>1, <1>d DEF Flow
  <2>2. CASE i \in Held(b) /\ j = k  BY <1>3, <2>2, <1>d, <1>b, <1>e
  <2>3. CASE i = k  BY <1>3, <2>3, <1>d
  <2> QED  BY <2>1, <2>2, <2>3, <1>d
<1>4. Flow(d, se, p)  BY <1>1, <1>2, <1>3 DEF Flow
<1> QED  BY <1>4 DEF p, d

\* Appending at the end of two sequences joined.
LEMMA AppendConcat ==
  ASSUME NEW S, NEW a \in Seq(S), NEW b \in Seq(S), NEW e \in S
  PROVE  a \o Append(b, e) = Append(a \o b, e) /\ a \o b \in Seq(S)
         /\ Len(a \o b) = Len(a) + Len(b)
OBVIOUS
Pipe(s) ==
    /\ s.queue \in Seq({Sentinel} \cup EventTuples)
    /\ s = [q |-> s.q, queue |-> s.queue, settled |-> s.settled]
    /\ QueueKept(s.queue)
    /\ s.settled \subseteq Requests \X (Nat \ {0})
PipeFlow(r, s) == piped => Flow(batch \o s.queue, s.settled, [Seqs EXCEPT ![r] = s.q.seq])

\* A recorder's number may grow.
LEMMA NextSeq ==
  ASSUME NEW r \in Requests, NEW q \in RequestState(r), NEW n \in Nat
  PROVE  [q EXCEPT !.seq = n] \in RequestState(r)
BY DEF RequestState

\* What the emission of e changes.
Emission(r, who, e, s, t) ==
    /\ t.q \in RequestState(r) /\ e \in Events(r)
    /\ t = [q |-> t.q, queue |-> t.queue, settled |-> t.settled]
    /\ t.q.kind = s.q.kind /\ t.q.pc = s.q.pc /\ t.q.relay = s.q.relay /\ t.q.task = s.q.task
    /\ t.q.rows = s.q.rows /\ t.q.budget = s.q.budget /\ t.q.line = s.q.line
    /\ t.q.traced = s.q.traced /\ t.q.out = s.q.out /\ t.q.status = s.q.status
    /\ t.q.logged = s.q.logged /\ t.q.saved = s.q.saved
    /\ t.q.seq = s.q.seq + 1
    /\ piped => /\ t.q.put = s.q.put
                /\ t.q.inbox = IF Stream(s.q) THEN Append(s.q.inbox, e) ELSE s.q.inbox
                /\ \/ t.settled = s.settled \cup {Id(e)} /\ t.queue = s.queue
                   \/ /\ t.settled = s.settled /\ t.queue = Append(s.queue, e)
                      /\ Len(s.queue) < QueueSize
    /\ ~piped => /\ t.q.put = [s.q.put EXCEPT ![who] = e] /\ t.q.inbox = s.q.inbox
                 /\ t.settled = s.settled /\ t.queue = s.queue

\* TraceRecorder.emit changes what Emission says, and nothing else.
LEMMA EmitFields ==
  ASSUME NEW r \in Requests, NEW who \in Emitters, NEW stage \in Stages, NEW s,
         Pipe(s), s.q \in RequestState(r)
  PROVE  Emission(r, who, <<r, s.q.seq + 1, stage>>, s, Emitted(r, who, stage, s))
<1> DEFINE e == <<r, s.q.seq + 1, stage>>
           t == Emitted(r, who, stage, s)
<1> SUFFICES Emission(r, who, e, s, t)
  OBVIOUS
<1>0. PICK q \in RequestState(r) : s.q = q
  OBVIOUS
<1>1. PICK qu, se : s = [q |-> q, queue |-> qu, settled |-> se]
  BY <1>0 DEF Pipe
<1>2. s.q = q /\ s.queue = qu /\ s.settled = se
  BY <1>1
<1>3. q.seq \in Nat /\ e \in Events(r)
  BY <1>0, NewEvent DEF RequestState
<1> HIDE DEF e, t
<1>n. PICK n \in Nat : n = q.seq + 1
  BY <1>3
<1>4. PICK p : p = [q EXCEPT !.seq = n]
  OBVIOUS
<1>t. p \in RequestState(r)
  BY <1>0, <1>4, NextSeq
<1>5. p \in RequestState(r) /\ p.seq = n /\ p.put = q.put /\ p.inbox = q.inbox
  BY <1>4, <1>t DEF RequestState
<1>6. /\ p.kind = q.kind /\ p.pc = q.pc /\ p.relay = q.relay /\ p.task = q.task
      /\ p.rows = q.rows /\ p.budget = q.budget /\ p.line = q.line
      /\ p.traced = q.traced /\ p.out = q.out /\ p.status = q.status
      /\ p.logged = q.logged /\ p.saved = q.saved
  BY <1>4 DEF RequestState
<1>7. CASE piped
  <2>1. PICK d : d = Deliver(p, e)
    OBVIOUS
  <2>a. Append(p.inbox, e) \in Seq(Events(r))
    BY <1>3, <1>5 DEF RequestState
  <2>2. /\ d \in RequestState(r)
        /\ d.inbox = IF Stream(q) THEN Append(q.inbox, e) ELSE q.inbox
    BY <2>1, <2>a, <1>5, <1>6 DEF Deliver, RequestState, Stream
  <2>3. /\ d.kind = p.kind /\ d.pc = p.pc /\ d.relay = p.relay /\ d.task = p.task
        /\ d.rows = p.rows /\ d.budget = p.budget /\ d.line = p.line
        /\ d.traced = p.traced /\ d.out = p.out /\ d.status = p.status
        /\ d.logged = p.logged /\ d.saved = p.saved /\ d.put = p.put /\ d.seq = p.seq
    BY <2>1, <1>5 DEF Deliver, RequestState
  <2>4. t = [Published(e, s) EXCEPT !.q = d]
    BY <1>7, <1>2, <1>n, <1>4, <2>1 DEF Emitted, e, t
  <2>5. \/ /\ t = [q |-> d, queue |-> Append(qu, e), settled |-> se]
           /\ Len(qu) < QueueSize
        \/ t = [q |-> d, queue |-> qu, settled |-> se \cup {Id(e)}]
    BY <2>4, <1>1 DEF Published
  <2>6. /\ t.q = d
        /\ t = [q |-> t.q, queue |-> t.queue, settled |-> t.settled]
        /\ \/ t.settled = se \cup {Id(e)} /\ t.queue = qu
           \/ t.settled = se /\ t.queue = Append(qu, e) /\ Len(qu) < QueueSize
    BY <2>5
  <2> QED  BY <1>0, <1>7, <1>2, <1>3, <1>n, <1>5, <1>6, <2>2, <2>3, <2>6 DEF Emission
<1>8. CASE ~piped
  <2>1. PICK d : d = [p EXCEPT !.put[who] = e]
    OBVIOUS
  <2>2. d \in RequestState(r) /\ d.put = [q.put EXCEPT ![who] = e] /\ d.inbox = q.inbox
    BY <2>1, <1>3, <1>5 DEF RequestState
  <2>3. /\ d.kind = p.kind /\ d.pc = p.pc /\ d.relay = p.relay /\ d.task = p.task
        /\ d.rows = p.rows /\ d.budget = p.budget /\ d.line = p.line
        /\ d.traced = p.traced /\ d.out = p.out /\ d.status = p.status
        /\ d.logged = p.logged /\ d.saved = p.saved /\ d.seq = p.seq
    BY <2>1, <1>5 DEF RequestState
  <2>4. t = [s EXCEPT !.q = d]
    BY <1>8, <1>2, <1>n, <1>4, <2>1 DEF Emitted, e, t
  <2>5. t = [q |-> d, queue |-> qu, settled |-> se]
    BY <2>4, <1>1
  <2>6. /\ t.q = d /\ t.queue = qu /\ t.settled = se
        /\ t = [q |-> t.q, queue |-> t.queue, settled |-> t.settled]
    BY <2>5
  <2> QED  BY <1>0, <1>8, <1>2, <1>3, <1>n, <1>5, <1>6, <2>2, <2>3, <2>6 DEF Emission
<1> QED  BY <1>7, <1>8

\* The trace of a stream is a sequence of its events.
LEMMA TraceType ==
  ASSUME NEW r \in Requests, NEW q \in RequestState(r)
  PROVE  /\ Trace(q) \in Seq(Events(r))
         /\ \A i \in DOMAIN Trace(q) : Trace(q)[i] \in Events(r) /\ Trace(q)[i][2] \in Nat \ {0}
<1>1. q.traced \in Seq(Events(r)) /\ q.relay \in Seq(Events(r)) /\ q.inbox \in Seq(Events(r))
  BY DEF RequestState
<1>2. Trace(q) \in Seq(Events(r))
  BY <1>1 DEF Trace
<1>3. \A i \in DOMAIN Trace(q) : Trace(q)[i] \in Events(r)
  BY <1>2
<1> QED  BY <1>2, <1>3, EventTuple

\* The events of a sequence may be followed by one that has the next number.
LEMMA CleanAppend ==
  ASSUME NEW r \in Requests, NEW b \in Seq(Events(r)), Clean(b), NEW e \in Events(r),
         \A i \in DOMAIN b : b[i][2] # e[2],
         piped => Len(b) + 1 = e[2]
  PROVE  Clean(Append(b, e))
BY DEF Clean

\* A record with the same events in the same places keeps what is known of them.
SameTrace(q, p) ==
    /\ p.kind = q.kind /\ p.traced = q.traced /\ p.relay = q.relay /\ p.inbox = q.inbox
    /\ p.seq = q.seq /\ p.put = q.put /\ p.out = q.out

\* A request that kept its trace kept what is known of it.
LEMMA TraceSame ==
  ASSUME NEW q, NEW p, SameTrace(q, p), TraceKept(q), PutKept(q)
  PROVE  TraceKept(p) /\ PutKept(p)
BY DEF SameTrace, TraceKept, PutKept, Trace, Stream

\* What is relayed is not lost: the trace stays the same.
LEMMA TraceMoves ==
  ASSUME NEW r \in Requests, NEW q \in RequestState(r), NEW p \in RequestState(r),
         TraceKept(q), PutKept(q),
         p.kind = q.kind, p.seq = q.seq, p.put = q.put, p.out = "gone" <=> q.out = "gone",
         Trace(p) = Trace(q), q.out = "gone" => p.traced = q.traced
  PROVE  TraceKept(p) /\ PutKept(p)
BY DEF TraceKept, PutKept, Stream

\* Draining the recorder's queue moves events within the trace.
LEMMA TraceDrained ==
  ASSUME NEW r \in Requests, NEW q \in RequestState(r), NEW p \in RequestState(r),
         p.traced = q.traced, q.relay = <<>>, p.relay = q.inbox, p.inbox = <<>>
  PROVE  Trace(p) = Trace(q)
BY DEF Trace, RequestState

\* The head of one sequence moved to the end of the other.
LEMMA HeadMoves ==
  ASSUME NEW S, NEW a \in Seq(S), NEW b \in Seq(S), b # <<>>
  PROVE  Append(a, Head(b)) \o Tail(b) = a \o b
<1> DEFINE c == Append(a, Head(b)) \o Tail(b)
           d == a \o b
<1>1. c \in Seq(S) /\ d \in Seq(S) /\ Len(c) = Len(d)
  OBVIOUS
<1>2. ASSUME NEW i \in 1..Len(c) PROVE c[i] = d[i]
  <2>1. CASE i <= Len(a)  BY <2>1
  <2>2. CASE i = Len(a) + 1  BY <2>2
  <2>3. CASE i > Len(a) + 1  BY <2>3
  <2> QED  BY <2>1, <2>2, <2>3
<1> HIDE DEF c, d
<1>3. c = d  BY <1>1, <1>2, SeqEqual
<1> QED  BY <1>3 DEF c, d

\* Relaying an event moves it within the trace.
LEMMA TraceSent ==
  ASSUME NEW r \in Requests, NEW q \in RequestState(r), NEW p \in RequestState(r),
         q.relay # <<>>, p.traced = Append(q.traced, Head(q.relay)), p.relay = Tail(q.relay),
         p.inbox = q.inbox
  PROVE  Trace(p) = Trace(q)
<1>1. q.traced \in Seq(Events(r)) /\ q.relay \in Seq(Events(r)) /\ q.inbox \in Seq(Events(r))
  BY DEF RequestState
<1> QED  BY <1>1, HeadMoves DEF Trace

\* An event queued for the stream comes at the end of its trace.
LEMMA TraceQueued ==
  ASSUME NEW r \in Requests, NEW q \in RequestState(r), NEW p \in RequestState(r),
         NEW e \in Events(r),
         p.traced = q.traced, p.relay = q.relay, p.inbox = Append(q.inbox, e)
  PROVE  Trace(p) = Append(Trace(q), e)
<1>1. q.traced \in Seq(Events(r)) /\ q.relay \in Seq(Events(r)) /\ q.inbox \in Seq(Events(r))
  BY DEF RequestState
<1>2. q.traced \o q.relay \in Seq(Events(r))
  BY <1>1
<1>3. ASSUME NEW a \in Seq(Events(r)), NEW b \in Seq(Events(r))
      PROVE  a \o Append(b, e) = Append(a \o b, e)
  BY AppendConcat
<1> QED  BY <1>1, <1>2, <1>3 DEF Trace

\* An emission keeps the trace of the request.
LEMMA EmitTrace ==
  ASSUME NEW r \in Requests, NEW q \in RequestState(r), NEW p \in RequestState(r),
         NEW who \in Emitters, NEW e \in Events(r), e[2] = q.seq + 1,
         TraceKept(q), PutKept(q),
         p.kind = q.kind, p.out = q.out, p.traced = q.traced, p.relay = q.relay,
         p.seq = q.seq + 1,
         piped => /\ p.put = q.put
                  /\ p.inbox = IF Stream(q) THEN Append(q.inbox, e) ELSE q.inbox,
         ~piped => p.put = [q.put EXCEPT ![who] = e] /\ p.inbox = q.inbox
  PROVE  TraceKept(p) /\ PutKept(p)
<1>0. /\ q.seq \in Nat /\ e # <<>> /\ q.put \in [Emitters -> Events(r) \cup {<<>>}]
      /\ \A w \in Emitters : q.put[w] # <<>> => q.put[w][2] \in Nat /\ q.put[w][2] <= q.seq
  <2>1. q.seq \in Nat /\ q.put \in [Emitters -> Events(r) \cup {<<>>}]
    BY DEF RequestState
  <2>2. \A w \in Emitters : q.put[w] # <<>> => q.put[w][2] \in Nat
    BY <2>1, EventTuple
  <2> QED  BY <2>1, <2>2, EventTuple DEF PutKept
<1>1. PutKept(p)
  <2>1. CASE piped  BY <2>1 DEF PutKept
  <2>2. CASE ~piped
    <3> SUFFICES ASSUME NEW w \in Emitters, p.put[w] # <<>> PROVE p.put[w][2] <= p.seq
      BY <2>2 DEF PutKept
    <3>1. CASE w = who  BY <3>1, <2>2, <1>0
    <3>2. CASE w # who  BY <3>2, <2>2, <1>0
    <3> QED  BY <3>1, <3>2
  <2> QED  BY <2>1, <2>2
<1>2. ASSUME Stream(q), q.out = "gone" PROVE Clean(p.traced)
  BY <1>2 DEF TraceKept
<1>3. ASSUME Stream(q), q.out # "gone", piped PROVE TraceKept(p)
  <2>1. Trace(p) = Append(Trace(q), e)
    BY <1>3, TraceQueued
  <2>2. /\ Clean(Trace(q)) /\ Len(Trace(q)) = q.seq
        /\ \A i \in DOMAIN Trace(q) : Trace(q)[i][2] <= q.seq
    BY <1>3 DEF TraceKept
  <2>3. /\ Trace(q) \in Seq(Events(r))
        /\ \A i \in DOMAIN Trace(q) : Trace(q)[i][2] \in Nat
    BY TraceType
  <2>4. Clean(Trace(p))
    BY <2>1, <2>2, <2>3, <1>0, CleanAppend
  <2>5. /\ Len(Trace(p)) = p.seq
        /\ \A i \in DOMAIN Trace(p) : Trace(p)[i][2] <= p.seq
    BY <2>1, <2>2, <2>3, <1>0
  <2>6. \A w \in Emitters : p.put[w] = <<>>
    BY <1>3 DEF PutKept
  <2> QED  BY <2>4, <2>5, <2>6, <1>3 DEF TraceKept, Stream
<1>4. ASSUME Stream(q), q.out # "gone", ~piped PROVE TraceKept(p)
  <2>1. Trace(p) = Trace(q)
    BY <1>4 DEF Trace
  <2>2. /\ Clean(Trace(q))
        /\ \A i \in DOMAIN Trace(q) : Trace(q)[i][2] <= q.seq
    BY <1>4 DEF TraceKept
  <2>3. \A i \in DOMAIN Trace(q) : Trace(q)[i][2] \in Nat
    BY TraceType
  <2>4. \A i \in DOMAIN Trace(p) : Trace(p)[i][2] <= p.seq /\ Trace(p)[i][2] # e[2]
    BY <2>1, <2>2, <2>3, <1>0
  <2>5. ASSUME NEW w \in Emitters, p.put[w] # <<>>
        PROVE  /\ \A i \in DOMAIN Trace(p) : Trace(p)[i][2] # p.put[w][2]
               /\ \A v \in Emitters \ {w} : p.put[v] # <<>> => p.put[v][2] # p.put[w][2]
    <3>1. CASE w = who
      <4>1. p.put[w] = e  BY <3>1, <1>4, <1>0
      <4>2. \A v \in Emitters \ {w} : p.put[v] = q.put[v]  BY <3>1, <1>4, <1>0
      <4> QED  BY <4>1, <4>2, <2>4, <1>0
    <3>2. CASE w # who
      <4>1. p.put[w] = q.put[w] /\ p.put[who] = e  BY <3>2, <1>4, <1>0
      <4>2. \A v \in Emitters \ {who} : p.put[v] = q.put[v]  BY <1>4, <1>0
      <4>3. \A i \in DOMAIN Trace(p) : Trace(p)[i][2] # p.put[w][2]
        BY <4>1, <2>1, <2>5, <1>4 DEF TraceKept
      <4>4. ASSUME NEW v \in Emitters \ {w}, p.put[v] # <<>> PROVE p.put[v][2] # p.put[w][2]
        <5>1. CASE v = who  BY <5>1, <4>1, <1>0, <2>5
        <5>2. CASE v # who
          <6>1. p.put[v] = q.put[v]  BY <5>2, <4>2
          <6> QED  BY <6>1, <4>1, <4>4, <2>5, <1>4 DEF TraceKept
        <5> QED  BY <5>1, <5>2
      <4> QED  BY <4>3, <4>4
    <3> QED  BY <3>1, <3>2
  <2>6. Clean(Trace(p))  BY <2>1, <2>2
  <2> QED  BY <2>4, <2>5, <2>6, <1>4 DEF TraceKept, Stream
<1>5. TraceKept(p)
  <2>1. CASE ~Stream(q)  BY <2>1 DEF TraceKept, Stream
  <2>2. CASE Stream(q) /\ q.out = "gone"  BY <2>2, <1>2 DEF TraceKept
  <2> QED  BY <2>1, <2>2, <1>3, <1>4
<1> QED  BY <1>1, <1>5

\* An emission keeps the queue and the flow of the events.
LEMMA EmitPipe ==
  ASSUME NEW r \in Requests, NEW who \in Emitters, NEW stage \in Stages, NEW s,
         PipeKept, Pipe(s), PipeFlow(r, s), s.q \in RequestState(r), Seqs \in [Requests -> Nat]
  PROVE  Pipe(Emitted(r, who, stage, s)) /\ PipeFlow(r, Emitted(r, who, stage, s))
<1> DEFINE e == <<r, s.q.seq + 1, stage>>
           t == Emitted(r, who, stage, s)
<1>0. e = <<r, s.q.seq + 1, stage>> /\ t = Emitted(r, who, stage, s)
  OBVIOUS
<1> HIDE DEF e, t
<1>1. /\ e \in Events(r)
      /\ t = [q |-> t.q, queue |-> t.queue, settled |-> t.settled]
      /\ t.q.seq = s.q.seq + 1
      /\ ~piped => t.settled = s.settled /\ t.queue = s.queue
      /\ piped => \/ t.settled = s.settled \cup {Id(e)} /\ t.queue = s.queue
                  \/ /\ t.settled = s.settled /\ t.queue = Append(s.queue, e)
                     /\ Len(s.queue) < QueueSize
  <2>1. Emission(r, who, e, s, t)  BY <1>0, EmitFields
  <2> QED  BY <2>1 DEF Emission
<1>2. e[2] = s.q.seq + 1 /\ s.q.seq \in Nat
  BY <1>0, NewEvent DEF RequestState
<1>3. /\ e \in EventTuples /\ e # Sentinel /\ Id(e) \in Requests \X (Nat \ {0})
  BY <1>1, EventTuple
<1>4. Pipe(t)
  <2>1. CASE t.settled = s.settled /\ t.queue = s.queue
    BY <2>1, <1>1 DEF Pipe
  <2>2. CASE t.settled = s.settled \cup {Id(e)} /\ t.queue = s.queue
    BY <2>2, <1>1, <1>3 DEF Pipe
  <2>3. CASE t.settled = s.settled /\ t.queue = Append(s.queue, e) /\ Len(s.queue) < QueueSize
    <3>1. Append(s.queue, e) \in Seq({Sentinel} \cup EventTuples)
      BY <1>3 DEF Pipe
    <3>2. Len(Append(s.queue, e)) <= QueueSize
      BY <2>3, SizesAssumption DEF Pipe
    <3>3. \A i \in DOMAIN Append(s.queue, e) :
             Append(s.queue, e)[i] = Sentinel => i \in DOMAIN s.queue /\ s.queue[i] = Sentinel
      BY <1>3 DEF Pipe
    <3>4. QueueKept(Append(s.queue, e))
      BY <3>1, <3>2, <3>3 DEF QueueKept, Pipe, EventTuples
    <3> QED  BY <2>3, <3>1, <3>4, <1>1 DEF Pipe
  <2> QED  BY <2>1, <2>2, <2>3, <1>1
<1>5. ASSUME piped PROVE Flow(batch \o t.queue, t.settled, [Seqs EXCEPT ![r] = t.q.seq])
  <2> DEFINE n == [Seqs EXCEPT ![r] = s.q.seq]
  <2>1. n \in [Requests -> Nat] /\ n[r] = s.q.seq
        /\ [n EXCEPT ![r] = n[r] + 1] = [Seqs EXCEPT ![r] = t.q.seq]
    BY <1>1, <1>2
  <2>2. Flow(batch \o s.queue, s.settled, n)
    BY <1>5 DEF PipeFlow
  <2> HIDE DEF n
  <2>3. /\ batch \in Seq({Sentinel} \cup EventTuples)
        /\ s.queue \in Seq({Sentinel} \cup EventTuples)
        /\ batch \o s.queue \in Seq({Sentinel} \cup EventTuples)
    BY DEF PipeKept, Pipe, EventTuples
  <2>4. CASE t.settled = s.settled \cup {Id(e)} /\ t.queue = s.queue
    <3>1. Flow(batch \o s.queue, s.settled \cup {Id(e)}, [n EXCEPT ![r] = n[r] + 1])
      BY <2>1, <2>2, <2>3, <1>1, <1>2, FlowSettles
    <3> QED  BY <2>1, <2>4, <3>1
  <2>5. CASE t.settled = s.settled /\ t.queue = Append(s.queue, e)
    <3>0. ASSUME NEW S, NEW a \in Seq(S), NEW b \in Seq(S), NEW x \in S
          PROVE  a \o Append(b, x) = Append(a \o b, x)
      BY AppendConcat
    <3>a. e \in {Sentinel} \cup EventTuples
      BY <1>3
    <3>b. batch \o Append(s.queue, e) = Append(batch \o s.queue, e)
      BY <3>0, <3>a, <2>3
    <3>1. batch \o t.queue = Append(batch \o s.queue, e)
      BY <2>5, <3>b
    <3>2. s.settled \in SUBSET (Requests \X (Nat \ {0}))
      BY DEF Pipe
    <3>3. Flow(Append(batch \o s.queue, e), s.settled, [n EXCEPT ![r] = n[r] + 1])
      BY <2>1, <2>2, <2>3, <3>2, <1>1, <1>2, FlowWaits
    <3> QED  BY <2>1, <2>5, <3>1, <3>3
  <2> QED  BY <2>4, <2>5, <1>1, <1>5
<1> QED  BY <1>4, <1>5 DEF PipeFlow, t

----------------------------------------------------------------------------
(* One operation of a handler.                                              *)
\* An operation c takes the request from q to p, trace events apart.
Op(r, q, p, c) ==
    /\ q \in RequestState(r) /\ p \in RequestState(r)
    /\ Fact(q.pc, c, p.pc)
    /\ c[1] = "ask" /\ p.pc # c[3] => q.kind = "ask"
    /\ q.out = "open"
    /\ p.kind = q.kind /\ p.budget = q.budget /\ p.rows = q.rows
    /\ p.task = IF c[1] = "start" THEN c[2] ELSE q.task
    /\ p.logged = IF c[1] = "log" THEN Append(q.logged, c[2])
                  ELSE IF c[1] = "report" THEN Append(q.logged, q.status) ELSE q.logged
    /\ p.status = IF c[1] = "reply" THEN c[2] ELSE q.status
    /\ p.out = IF c[1] = "end" THEN "closed" ELSE q.out
    /\ p.saved = IF c[1] = "learn" THEN q.rows ELSE q.saved

\* The operation at a label leaves the last line one of those of the next label.
LEMMA OpLine ==
  ASSUME NEW r, NEW q, NEW p, NEW c, Op(r, q, p, c), LineKept(q), LineEnds(q),
         IF Stream(q) /\ c[1] = "say" THEN p.line = c[2] ELSE p.line = q.line
  PROVE  LineKept(p) /\ LineEnds(p)
<1>1. LineKept(p)
  BY DEF Op, Fact, LineFact, LineKept, Stream, PlaceFact
<1>2. LineEnds(p)
  <2>1. c[1] = "end" => LinesAt(q.pc) = {"final"}
    BY DEF Op, Fact, EndFact, LinesAt
  <2> QED  BY <2>1 DEF Op, LineKept, LineEnds, Stream
<1> QED  BY <1>1, <1>2

\* The task awaited at the next label is one that may be awaited there.
LEMMA OpTask ==
  ASSUME NEW r, NEW q, NEW p, NEW c, Op(r, q, p, c), TaskKept(q)
  PROVE  TaskKept(p)
BY DEF Op, Fact, TaskFact, TaskKept

\* No operation leads back to where the time budget of /ask ends.
LEMMA OpLate ==
  ASSUME NEW r, NEW q, NEW p, NEW c, Op(r, q, p, c), LateKept(q)
  PROVE  LateKept(p)
BY DEF Op, Fact, PlaceFact, LateKept

\* A sequence of statuses, and one appended.
LEMMA Singles ==
  ASSUME NEW u \in Seq(Statuses), NEW x \in Statuses
  PROVE  /\ u = <<>> => Append(u, x) = <<x>>
         /\ Last(<<x>>) = x /\ Len(<<x>>) = 1
         /\ Len(u) \in Nat /\ (Len(u) = 0 => u = <<>>) /\ (u = <<>> => Len(u) = 0)
         /\ Len(Append(u, x)) = Len(u) + 1 /\ Last(Append(u, x)) = x
         /\ \A i \in DOMAIN u : i \in DOMAIN Append(u, x) /\ Append(u, x)[i] = u[i]
         /\ Len(u) + 1 \in DOMAIN Append(u, x) /\ Append(u, x)[Len(u) + 1] = x
         /\ u # <<>> => Head(Append(u, x)) = Head(u)
<1>1. u = <<>> => Append(u, x) = <<x>>
  OBVIOUS
<1>2. Last(<<x>>) = x /\ Len(<<x>>) = 1
  BY DEF Last
<1>3. Len(u) \in Nat /\ (Len(u) = 0 => u = <<>>) /\ (u = <<>> => Len(u) = 0)
  OBVIOUS
<1>4. /\ Len(Append(u, x)) = Len(u) + 1 /\ Last(Append(u, x)) = x
      /\ \A i \in DOMAIN u : i \in DOMAIN Append(u, x) /\ Append(u, x)[i] = u[i]
      /\ Len(u) + 1 \in DOMAIN Append(u, x) /\ Append(u, x)[Len(u) + 1] = x
  BY DEF Last
<1>5. ASSUME u # <<>> PROVE Head(Append(u, x)) = Head(u)
  <2>1. Head(u) = u[1] /\ 1 \in DOMAIN u
    BY <1>5
  <2>2. Append(u, x)[1] = u[1]
    BY <2>1, <1>4
  <2>3. Head(Append(u, x)) = Append(u, x)[1]
    BY <1>4
  <2> QED  BY <2>1, <2>2, <2>3
<1> QED  BY <1>1, <1>2, <1>3, <1>4, <1>5

\* What is logged at each label, while the budget of /ask is not used up.
LEMMA OpLog ==
  ASSUME NEW r, NEW q, NEW p, NEW c, Op(r, q, p, c), LogKept(q), LateKept(q), Placed(q)
  PROVE  LogKept(p)
<1> SUFFICES ASSUME p.budget # "over" PROVE LogKept(p)
  BY DEF LogKept
<1> USE DEF Logged, LoggedRejected, LoggedClarify, LoggedOk, Replied
<1>0. /\ LogFact(q.pc, c, p.pc) /\ PlaceFact(q.pc, c, p.pc) /\ q.pc # "lateAsk" /\ q.pc # "failAsk"
      /\ q.budget # "over" /\ q.out = "open" /\ q.pc # "over"
  BY DEF Op, Fact, LateKept, Placed
<1>1. CASE c[1] = "log"
  <2>1. q.logged = <<>> /\ p.logged = Append(q.logged, c[2]) /\ c[2] \in Statuses
    BY <1>0, <1>1 DEF Op, Fact, TypeFact, LogFact, LogKept
  <2>s. q.logged \in Seq(Statuses)
    BY DEF Op, RequestState
  <2>2. p.logged = <<c[2]>> /\ Len(p.logged) = 1
    BY <2>1, <2>s, Singles
  <2>3. p.pc # "over" /\ p.out = "open"
    BY <1>0, <1>1 DEF Op, PlaceFact
  <2>4. CASE c[2] = "rejected" /\ p.pc \in LoggedRejected
    BY <2>2, <2>3, <2>4 DEF LogKept
  <2>5. CASE c[2] = "clarification_needed" /\ p.pc \in LoggedClarify
    BY <2>2, <2>3, <2>5 DEF LogKept
  <2>6. CASE c[2] = "ok" /\ p.pc = "keep"
    BY <2>2, <2>3, <2>6 DEF LogKept
  <2> QED  BY <2>4, <2>5, <2>6, <1>0, <1>1 DEF LogFact
<1>2. CASE c[1] = "report"
  <2>1. q.logged = <<>> /\ p.logged = Append(q.logged, q.status) /\ q.status \in Statuses
    BY <1>0, <1>2 DEF Op, LogFact, LogKept, Placed, RequestState
  <2>2. p.logged = <<p.status>> /\ Len(p.logged) = 1
    BY <2>1, <1>2, Singles DEF Op, RequestState
  <2>3. p.pc = "end" /\ p.out = "open"
    BY <1>0, <1>2 DEF Op, LogFact
  <2> QED  BY <2>2, <2>3 DEF LogKept
<1>3. CASE c[1] = "reply"
  <2>1. p.logged = q.logged /\ p.status = c[2] /\ p.pc = "complete"
    BY <1>0, <1>3 DEF Op, LogFact
  <2>2. q.logged = <<c[2]>> \/ Hit(q)
    BY <1>0, <1>3 DEF Op, LogFact, LogKept
  <2>3. Len(p.logged) <= 1 /\ (p.logged = <<p.status>> \/ Hit(p))
    BY <2>1, <2>2, <1>0 DEF Op, LogKept, Hit
  <2> QED  BY <2>1, <2>3, <1>0, <1>3 DEF Op, LogKept
<1>4. CASE c[1] = "end"
  <2>1. p.logged = q.logged /\ p.status = q.status /\ p.pc = "over" /\ p.out = "closed"
    BY <1>0, <1>4 DEF Op, PlaceFact
  <2>2. Len(p.logged) <= 1 /\ (p.logged = <<p.status>> \/ Hit(p))
    BY <2>1, <1>0, <1>4 DEF Op, LogFact, LogKept, Hit
  <2> QED  BY <2>1, <2>2 DEF LogKept
<1>5. CASE c[1] \notin {"log", "report", "reply", "end"}
  <2>1. /\ p.logged = q.logged /\ p.status = q.status /\ p.out = q.out
        /\ p.kind = q.kind /\ p.budget = q.budget /\ p.pc # "over" /\ p.out = "open"
    BY <1>0, <1>5 DEF Op, PlaceFact
  <2>2. /\ Len(p.logged) <= 1
        /\ p.pc \in LoggedRejected => p.logged = <<"rejected">>
        /\ p.pc \in LoggedClarify  => p.logged = <<"clarification_needed">>
    BY <2>1, <1>0, <1>5 DEF LogFact, LogKept
  <2>3. p.pc \in LoggedOk => p.logged = <<"ok">> \/ (p.pc = "replyOk" /\ Hit(p))
    <3>1. q.pc = "hit" => Hit(q)
      BY <1>0 DEF LogKept, Placed, Hit
    <3> QED  BY <3>1, <2>1, <1>0, <1>5 DEF LogFact, LogKept, Hit
  <2>4. p.pc \in Replied => p.logged = <<p.status>> \/ Hit(p)
    BY <2>1, <1>0, <1>5 DEF LogFact, LogKept, Hit
  <2>5. p.pc \notin Logged => p.logged = <<>>
    BY <2>1, <1>0, <1>5 DEF LogFact, LogKept
  <2> QED  BY <2>1, <2>2, <2>3, <2>4, <2>5 DEF LogKept
<1> QED  BY <1>1, <1>2, <1>3, <1>4, <1>5

\* What is logged once it is.
LEMMA OpLogLate ==
  ASSUME NEW r, NEW q, NEW p, NEW c, Op(r, q, p, c), LogLate(q)
  PROVE  LogLate(p)
<1> SUFFICES ASSUME p.budget = "over" PROVE LogLate(p)
  BY DEF LogLate
<1>0. /\ LateFact(q.pc, c, p.pc) /\ q.budget = "over" /\ q.kind = "ask" /\ p.kind = "ask"
      /\ q.logged \in Seq(Statuses)
      /\ q.pc \in {"lateAsk", "failAsk", "replyRejected"} \cup Replied
  BY DEF Op, Fact, LogLate, RequestState, PlaceFact, Stops, Waits
<1>1. CASE q.pc = "lateAsk"
  <2>1. /\ p.logged = Append(q.logged, "rejected") /\ p.pc = "failAsk"
        /\ Len(q.logged) <= 1 /\ (piped /\ q.logged # <<>> => q.logged = <<"ok">>)
    BY <1>0, <1>1 DEF Op, LateFact, LogLate
  <2>s. "rejected" \in Statuses
    BY DEF Statuses
  <2>l. /\ Len(q.logged) \in Nat /\ (q.logged = <<>> => Len(q.logged) = 0)
        /\ Len(p.logged) = Len(q.logged) + 1 /\ Last(p.logged) = "rejected"
        /\ q.logged # <<>> => Head(p.logged) = Head(q.logged)
    <3>1. \A u \in Seq(Statuses) : Len(Append(u, "rejected")) = Len(u) + 1
      BY <2>s, Singles
    <3>2. \A u \in Seq(Statuses) : Last(Append(u, "rejected")) = "rejected"
      BY <2>s, Singles
    <3>3. \A u \in Seq(Statuses) : u # <<>> => Head(Append(u, "rejected")) = Head(u)
      BY <2>s, Singles
    <3>4. Len(q.logged) \in Nat /\ (q.logged = <<>> => Len(q.logged) = 0)
      BY <1>0
    <3> QED  BY <3>1, <3>2, <3>3, <3>4, <2>1, <1>0
  <2>2. Len(p.logged) \in {1, 2} /\ Last(p.logged) = "rejected"
    BY <2>1, <2>l
  <2>3. piped /\ Len(p.logged) = 2 => Head(p.logged) = "ok"
    <3>1. q.logged = <<>> => Len(p.logged) = 1
      BY <2>l
    <3>2. q.logged # <<>> /\ piped => q.logged = <<"ok">> /\ Head(p.logged) = Head(q.logged)
      BY <2>1, <2>l
    <3> QED  BY <3>1, <3>2
  <2> QED  BY <2>1, <2>2, <2>3, <1>0 DEF LogLate, Replied
<1>2. CASE q.pc = "failAsk"
  BY <1>0, <1>2 DEF Op, LateFact, LogLate, Replied
<1>3. CASE q.pc = "replyRejected"
  BY <1>0, <1>3 DEF Op, LateFact, LogLate, Replied
<1>4. CASE q.pc \in Replied
  BY <1>0, <1>4 DEF Op, LateFact, LogLate, Replied
<1> QED  BY <1>0, <1>1, <1>2, <1>3, <1>4

\* A question is saved as a pattern only on the way to the log of its success.
LEMMA OpSave ==
  ASSUME NEW r, NEW q, NEW p, NEW c, Op(r, q, p, c), SaveKept(q), Placed(q)
  PROVE  SaveKept(p)
<1>0. LateFact(q.pc, c, p.pc) /\ q.logged \in Seq(Statuses) /\ TypeFact(q.pc, c, p.pc)
  BY DEF Op, Fact, RequestState
<1>1. CASE c[1] = "learn"
  BY <1>0, <1>1 DEF Op, LateFact, SaveKept
<1>2. CASE c[1] # "learn" /\ q.pc = "logOk"
  <2>1. p.logged = Append(q.logged, "ok") /\ p.saved = q.saved /\ p.rows = q.rows
    BY <1>0, <1>2 DEF Op, LateFact
  <2>s. "ok" \in Statuses
    BY DEF Statuses
  <2>2. \E i \in DOMAIN p.logged : p.logged[i] = "ok"
    BY <2>1, <2>s, <1>0, Singles
  <2> QED  BY <2>1, <2>2 DEF SaveKept
<1>3. CASE c[1] # "learn" /\ q.pc # "logOk"
  <2>1. p.saved = q.saved /\ p.rows = q.rows
    BY <1>3 DEF Op
  <2>2. \A i \in DOMAIN q.logged : i \in DOMAIN p.logged /\ p.logged[i] = q.logged[i]
    <3>1. CASE p.logged = q.logged  BY <3>1
    <3>2. CASE c[1] = "log"  BY <3>2, <1>0, Singles DEF Op, TypeFact
    <3>3. CASE c[1] = "report" /\ q.status \in Statuses  BY <3>3, <1>0, Singles DEF Op
    <3>4. c[1] = "report" => q.status \in Statuses
      BY DEF Op, Fact, LogFact, Placed, RequestState
    <3> QED  BY <3>1, <3>2, <3>3, <3>4 DEF Op
  <2> QED  BY <1>3, <2>1, <2>2 DEF SaveKept
<1> QED  BY <1>1, <1>2, <1>3

----------------------------------------------------------------------------
(* What an operation changes, emissions apart.                              *)
Moves(r, q, p, c) ==
    /\ p \in RequestState(r) /\ p.pc \in Nexts(c)
    /\ c[1] = "ask" /\ p.pc # c[3] => q.kind = "ask"
    /\ p.kind = q.kind /\ p.line = q.line /\ p.budget = q.budget /\ p.rows = q.rows
    /\ p.seq = q.seq /\ p.put = q.put /\ p.traced = q.traced
    /\ p.relay = IF c[1] = "drain" THEN q.inbox ELSE q.relay
    /\ p.inbox = IF c[1] = "drain" THEN <<>> ELSE q.inbox
    /\ p.task = IF c[1] = "start" THEN c[2] ELSE q.task
    /\ p.logged = IF c[1] = "log" THEN Append(q.logged, c[2])
                  ELSE IF c[1] = "report" THEN Append(q.logged, q.status) ELSE q.logged
    /\ p.status = IF c[1] = "reply" THEN c[2] ELSE q.status
    /\ p.out = IF c[1] = "end" THEN "closed" ELSE q.out
    /\ p.saved = IF c[1] = "learn" THEN q.rows ELSE q.saved

\* Every operation but emit changes what Moves says, and nothing else.
LEMMA DidMoves ==
  ASSUME NEW r, NEW q \in RequestState(r), NEW l, NEW c, TypeFact(l, c, c[3]), c[1] # "emit",
         Nexts(c) \subseteq Labels, c[1] = "report" => q.status \in Statuses
  PROVE  Moves(r, q, Did([q EXCEPT !.pc = c[3]], c), c)
<1> DEFINE pp == [q EXCEPT !.pc = c[3]]
           dd == Did(pp, c)
<1> SUFFICES Moves(r, q, dd, c)
  OBVIOUS
<1>p. PICK p : p = pp
  OBVIOUS
<1>d. PICK d : d = Did(p, c)
  OBVIOUS
<1>e. d = dd
  BY <1>p, <1>d
<1>n. c[3] \in Labels /\ (c[1] \in {"det", "ask"} => c[2] \in Labels)
  BY DEF Nexts
<1>t. /\ p \in RequestState(r) /\ p.pc = c[3]
      /\ p.kind = q.kind /\ p.line = q.line /\ p.budget = q.budget /\ p.rows = q.rows
      /\ p.seq = q.seq /\ p.put = q.put /\ p.traced = q.traced /\ p.relay = q.relay
      /\ p.inbox = q.inbox /\ p.task = q.task /\ p.logged = q.logged /\ p.status = q.status
      /\ p.out = q.out /\ p.saved = q.saved
  BY <1>p, <1>n DEF RequestState
<1> HIDE DEF pp, dd
<1>1. CASE c[1] = "say"
  <2>1. d = p
    BY <1>1, <1>d DEF Did
  <2>2. /\ d \in RequestState(r) /\ d.kind = p.kind /\ d.line = p.line
        /\ d.budget = p.budget /\ d.rows = p.rows /\ d.seq = p.seq /\ d.put = p.put
        /\ d.traced = p.traced /\ d.relay = p.relay /\ d.inbox = p.inbox /\ d.task = p.task
        /\ d.logged = p.logged /\ d.status = p.status /\ d.out = p.out /\ d.saved = p.saved
        /\ d.pc = p.pc
    BY <2>1, <1>t, <1>n, <1>1 DEF RequestState
  <2> QED  BY <1>1, <1>t, <1>e, <2>2 DEF Moves, Nexts
<1>2. CASE c[1] = "drain"
  <2>0. p.inbox \in Seq(Events(r)) /\ <<>> \in Seq(Events(r))
    BY <1>t DEF RequestState
  <2>1. d = [p EXCEPT !.relay = p.inbox, !.inbox = <<>>]
    BY <1>2, <1>d DEF Did
  <2>2. /\ d \in RequestState(r) /\ d.kind = p.kind /\ d.line = p.line
        /\ d.budget = p.budget /\ d.rows = p.rows /\ d.seq = p.seq /\ d.put = p.put
        /\ d.traced = p.traced /\ d.task = p.task /\ d.logged = p.logged
        /\ d.status = p.status /\ d.out = p.out /\ d.saved = p.saved /\ d.pc = p.pc
        /\ d.relay = p.inbox /\ d.inbox = <<>>
    BY <2>1, <1>t, <1>n, <1>2, <2>0 DEF RequestState
  <2> QED  BY <1>2, <1>t, <1>e, <2>2 DEF Moves, Nexts
<1>3. CASE c[1] = "log"
  <2>a. c[2] \in Statuses /\ p.logged \in Seq(Statuses)
    BY <1>3, <1>t DEF TypeFact, RequestState
  <2>0. Append(p.logged, c[2]) \in Seq(Statuses)
    BY <2>a
  <2>1. d = [p EXCEPT !.logged = Append(p.logged, c[2])]
    BY <1>3, <1>d DEF Did
  <2>2. /\ d \in RequestState(r) /\ d.kind = p.kind /\ d.line = p.line
        /\ d.budget = p.budget /\ d.rows = p.rows /\ d.seq = p.seq /\ d.put = p.put
        /\ d.traced = p.traced /\ d.relay = p.relay /\ d.inbox = p.inbox /\ d.task = p.task
        /\ d.status = p.status /\ d.out = p.out /\ d.saved = p.saved /\ d.pc = p.pc
        /\ d.logged = Append(p.logged, c[2])
    BY <2>1, <1>t, <1>n, <1>3, <2>0 DEF RequestState
  <2> QED  BY <1>3, <1>t, <1>e, <2>2 DEF Moves, Nexts
<1>4. CASE c[1] = "report"
  <2>a. p.status \in Statuses /\ p.logged \in Seq(Statuses)
    BY <1>4, <1>t DEF RequestState
  <2>0. Append(p.logged, p.status) \in Seq(Statuses)
    BY <2>a
  <2>1. d = [p EXCEPT !.logged = Append(p.logged, p.status)]
    BY <1>4, <1>d DEF Did
  <2>2. /\ d \in RequestState(r) /\ d.kind = p.kind /\ d.line = p.line
        /\ d.budget = p.budget /\ d.rows = p.rows /\ d.seq = p.seq /\ d.put = p.put
        /\ d.traced = p.traced /\ d.relay = p.relay /\ d.inbox = p.inbox /\ d.task = p.task
        /\ d.status = p.status /\ d.out = p.out /\ d.saved = p.saved /\ d.pc = p.pc
        /\ d.logged = Append(p.logged, p.status)
    BY <2>1, <1>t, <1>n, <1>4, <2>0 DEF RequestState
  <2> QED  BY <1>4, <1>t, <1>e, <2>2 DEF Moves, Nexts
<1>5. CASE c[1] = "fail" /\ c[2] \notin {"any", p.kind}
  <2>1. d = p
    BY <1>5, <1>d DEF Did
  <2>2. /\ d \in RequestState(r) /\ d.kind = p.kind /\ d.line = p.line
        /\ d.budget = p.budget /\ d.rows = p.rows /\ d.seq = p.seq /\ d.put = p.put
        /\ d.traced = p.traced /\ d.relay = p.relay /\ d.inbox = p.inbox /\ d.task = p.task
        /\ d.logged = p.logged /\ d.status = p.status /\ d.out = p.out /\ d.saved = p.saved
        /\ d.pc = p.pc
    BY <2>1, <1>t, <1>n, <1>5 DEF RequestState
  <2> QED  BY <1>5, <1>t, <1>e, <2>2 DEF Moves, Nexts
<1>6. CASE c[1] = "fail" /\ c[2] \in {"any", p.kind}
  <2>1. d = [p EXCEPT !.bg[IF p.bg["log"] = "idle" THEN "log" ELSE "log2"] = "begin"]
    BY <1>6, <1>d DEF Did
  <2>2. /\ d \in RequestState(r) /\ d.kind = p.kind /\ d.line = p.line
        /\ d.budget = p.budget /\ d.rows = p.rows /\ d.seq = p.seq /\ d.put = p.put
        /\ d.traced = p.traced /\ d.relay = p.relay /\ d.inbox = p.inbox /\ d.task = p.task
        /\ d.logged = p.logged /\ d.status = p.status /\ d.out = p.out /\ d.saved = p.saved
        /\ d.pc = p.pc
    BY <2>1, <1>t, <1>n, <1>6 DEF RequestState, Writers
  <2> QED  BY <1>6, <1>t, <1>e, <2>2 DEF Moves, Nexts
<1>7. CASE c[1] = "learn"
  <2>1. d = [p EXCEPT !.saved = p.rows]
    BY <1>7, <1>d DEF Did
  <2>2. /\ d \in RequestState(r) /\ d.kind = p.kind /\ d.line = p.line
        /\ d.budget = p.budget /\ d.rows = p.rows /\ d.seq = p.seq /\ d.put = p.put
        /\ d.traced = p.traced /\ d.relay = p.relay /\ d.inbox = p.inbox /\ d.task = p.task
        /\ d.logged = p.logged /\ d.status = p.status /\ d.out = p.out /\ d.pc = p.pc
        /\ d.saved = p.rows
    BY <2>1, <1>t, <1>n, <1>7 DEF RequestState
  <2> QED  BY <1>7, <1>t, <1>e, <2>2 DEF Moves, Nexts
<1>8. CASE c[1] = "start"
  <2>0. c[2] \in TaskStates /\ MaxEmits \in 0..MaxEmits
    BY <1>8, KindsAssumption DEF TypeFact, Working, TaskStates
  <2>1. d = [p EXCEPT !.task = c[2], !.left = MaxEmits]
    BY <1>8, <1>d DEF Did
  <2>2. /\ d \in RequestState(r) /\ d.kind = p.kind /\ d.line = p.line
        /\ d.budget = p.budget /\ d.rows = p.rows /\ d.seq = p.seq /\ d.put = p.put
        /\ d.traced = p.traced /\ d.relay = p.relay /\ d.inbox = p.inbox
        /\ d.logged = p.logged /\ d.status = p.status /\ d.out = p.out /\ d.saved = p.saved
        /\ d.pc = p.pc /\ d.task = c[2]
    BY <2>1, <1>t, <1>n, <1>8, <2>0 DEF RequestState
  <2> QED  BY <1>8, <1>t, <1>e, <2>2 DEF Moves, Nexts
<1>9. CASE c[1] = "reply"
  <2>0. c[2] \in Statuses
    BY <1>9 DEF TypeFact
  <2>1. d = [p EXCEPT !.status = c[2]]
    BY <1>9, <1>d DEF Did
  <2>2. /\ d \in RequestState(r) /\ d.kind = p.kind /\ d.line = p.line
        /\ d.budget = p.budget /\ d.rows = p.rows /\ d.seq = p.seq /\ d.put = p.put
        /\ d.traced = p.traced /\ d.relay = p.relay /\ d.inbox = p.inbox /\ d.task = p.task
        /\ d.logged = p.logged /\ d.out = p.out /\ d.saved = p.saved /\ d.pc = p.pc
        /\ d.status = c[2]
    BY <2>1, <1>t, <1>n, <1>9, <2>0 DEF RequestState
  <2> QED  BY <1>9, <1>t, <1>e, <2>2 DEF Moves, Nexts
<1>10. CASE c[1] = "end"
  <2>1. d = [p EXCEPT !.out = "closed"]
    BY <1>10, <1>d DEF Did
  <2>2. /\ d \in RequestState(r) /\ d.kind = p.kind /\ d.line = p.line
        /\ d.budget = p.budget /\ d.rows = p.rows /\ d.seq = p.seq /\ d.put = p.put
        /\ d.traced = p.traced /\ d.relay = p.relay /\ d.inbox = p.inbox /\ d.task = p.task
        /\ d.logged = p.logged /\ d.status = p.status /\ d.saved = p.saved /\ d.pc = p.pc
        /\ d.out = "closed"
    BY <2>1, <1>t, <1>n, <1>10 DEF RequestState
  <2> QED  BY <1>10, <1>t, <1>e, <2>2 DEF Moves, Nexts
<1>11. CASE c[1] = "det"
  <2>1. d = [p EXCEPT !.pc = IF p.det THEN c[2] ELSE p.pc, !.det = FALSE]
    BY <1>11, <1>d DEF Did
  <2>2. /\ d \in RequestState(r) /\ d.kind = p.kind /\ d.line = p.line
        /\ d.budget = p.budget /\ d.rows = p.rows /\ d.seq = p.seq /\ d.put = p.put
        /\ d.traced = p.traced /\ d.relay = p.relay /\ d.inbox = p.inbox /\ d.task = p.task
        /\ d.logged = p.logged /\ d.status = p.status /\ d.out = p.out /\ d.saved = p.saved
        /\ d.pc = IF p.det THEN c[2] ELSE p.pc
    BY <2>1, <1>t, <1>n, <1>11 DEF RequestState
  <2> QED  BY <1>11, <1>t, <1>e, <2>2 DEF Moves, Nexts
<1>12. CASE c[1] = "ask" /\ p.kind = "ask"
  <2>0. MaxEmits \in 0..MaxEmits
    BY KindsAssumption
  <2>1. d = [p EXCEPT !.pc = c[2], !.left = MaxEmits]
    BY <1>12, <1>d DEF Did
  <2>2. /\ d \in RequestState(r) /\ d.kind = p.kind /\ d.line = p.line
        /\ d.budget = p.budget /\ d.rows = p.rows /\ d.seq = p.seq /\ d.put = p.put
        /\ d.traced = p.traced /\ d.relay = p.relay /\ d.inbox = p.inbox /\ d.task = p.task
        /\ d.logged = p.logged /\ d.status = p.status /\ d.out = p.out /\ d.saved = p.saved
        /\ d.pc = c[2]
    BY <2>0, <2>1, <1>t, <1>n, <1>12 DEF RequestState
  <2> QED  BY <1>12, <1>t, <1>e, <2>2 DEF Moves, Nexts
<1>13. CASE c[1] = "ask" /\ p.kind # "ask"
  <2>1. d = p
    BY <1>13, <1>d DEF Did
  <2>2. /\ d \in RequestState(r) /\ d.kind = p.kind /\ d.line = p.line
        /\ d.budget = p.budget /\ d.rows = p.rows /\ d.seq = p.seq /\ d.put = p.put
        /\ d.traced = p.traced /\ d.relay = p.relay /\ d.inbox = p.inbox /\ d.task = p.task
        /\ d.logged = p.logged /\ d.status = p.status /\ d.out = p.out /\ d.saved = p.saved
        /\ d.pc = p.pc
    BY <2>1, <1>t, <1>n, <1>13 DEF RequestState
  <2> QED  BY <1>13, <1>t, <1>e, <2>2 DEF Moves, Nexts
<1> QED  BY <1>1, <1>2, <1>3, <1>4, <1>5, <1>6, <1>7, <1>8, <1>9, <1>10, <1>11, <1>12, <1>13
  DEF TypeFact

----------------------------------------------------------------------------
(* A handler performs one operation.                                        *)
Holds(r, s) == Pipe(s) /\ PipeFlow(r, s) /\ ReqInv(r, s.q)

\* What no operation but the last changes.
Ran(q, p) ==
    /\ p.kind = q.kind /\ p.line = q.line
    /\ p.out = q.out \/ (q.out = "open" /\ p.out = "closed")

\* A handler that is not suspended is at an operation, with nothing to relay.
LEMMA Running ==
  ASSUME NEW r \in Requests, NEW q \in RequestState(r), Placed(q), ~Suspended(q)
  PROVE  /\ q.pc \in DOMAIN Code /\ q.out = "open" /\ q.relay = <<>> /\ q.put["main"] = <<>>
         /\ Code[q.pc][1] = "say" => ~Stream(q)
BY DEF Suspended, RequestState, Labels, Placed, Stops, Waits

\* An operation other than an emission.
LEMMA DidKept ==
  ASSUME NEW r \in Requests, NEW q, NEW p, NEW c, ReqInv(r, q),
         Op(r, q, p, c), Moves(r, q, p, c), c[1] # "emit", c[1] = "say" => ~Stream(q),
         q.relay = <<>>, q.put["main"] = <<>>
  PROVE  ReqInv(r, p)
<1>0. /\ q \in RequestState(r) /\ Placed(q) /\ LineKept(q) /\ LineEnds(q) /\ TaskKept(q)
      /\ LogKept(q) /\ LogLate(q) /\ LateKept(q) /\ SaveKept(q) /\ TraceKept(q) /\ PutKept(q)
      /\ CompleteKept(q)
  BY DEF ReqInv
<1>1. /\ LineKept(p) /\ LineEnds(p) /\ TaskKept(p) /\ LogKept(p) /\ LogLate(p) /\ LateKept(p)
      /\ SaveKept(p)
  <2>1. p.line = q.line  BY DEF Moves
  <2> QED  BY <1>0, <2>1, OpLine, OpTask, OpLog, OpLogLate, OpLate, OpSave
<1>2. Placed(p)
  BY <1>0 DEF Op, Fact, PlaceFact, LogFact, Moves, Placed, Stream
<1>3. TraceKept(p) /\ PutKept(p)
  <2>1. /\ p \in RequestState(r) /\ p.kind = q.kind /\ p.seq = q.seq /\ p.put = q.put
        /\ p.traced = q.traced /\ (p.out = "gone" <=> q.out = "gone")
        /\ IF c[1] = "drain" THEN p.relay = q.inbox /\ p.inbox = <<>>
           ELSE p.relay = q.relay /\ p.inbox = q.inbox
    BY DEF Moves, Op
  <2>2. Trace(p) = Trace(q)
    <3>1. CASE c[1] = "drain"  BY <3>1, <2>1, <1>0, TraceDrained
    <3>2. CASE c[1] # "drain"  BY <3>2, <2>1 DEF Trace
    <3> QED  BY <3>1, <3>2
  <2> QED  BY <1>0, <2>1, <2>2, TraceMoves
<1>4. CompleteKept(p)
  <2> SUFFICES ASSUME Stream(p) PROVE CompleteKept(p)
    BY DEF CompleteKept
  <2>0. Stream(q) /\ CompleteKept(q) /\ q.line \in LinesAt(q.pc) /\ c[1] # "say"
    BY <1>0 DEF Stream, Op, LineKept
  <2>1. EndFact(q.pc, c, p.pc) /\ PlaceFact(q.pc, c, p.pc)
    BY DEF Op, Fact
  <2>2. p.pc # "lastRelay" /\ p.pc # "end"
    BY <2>0, <2>1 DEF EndFact
  <2>3. ASSUME p.pc = "final" PROVE HasComplete(p.relay)
    BY <2>3, <2>0, <2>1 DEF EndFact, CompleteKept, Moves
  <2>4. ASSUME p.out = "closed" PROVE HasComplete(p.traced)
    BY <2>4, <2>0, <2>1 DEF EndFact, CompleteKept, Moves, Op
  <2> QED  BY <2>2, <2>3, <2>4 DEF CompleteKept
<1> QED  BY <1>1, <1>2, <1>3, <1>4 DEF ReqInv, Op

\* The emission of a handler, whose label has moved on to q1.
LEMMA SentKept ==
  ASSUME NEW r \in Requests, NEW q, NEW p, NEW c, NEW e \in Events(r), ReqInv(r, q),
         Op(r, q, p, c), c[1] = "emit", q.relay = <<>>, p.line = q.line,
         p.traced = q.traced, p.relay = q.relay, p.seq = q.seq + 1, e[2] = q.seq + 1,
         e[3] = c[2],
         piped => /\ p.put = q.put
                  /\ p.inbox = IF Stream(q) THEN Append(q.inbox, e) ELSE q.inbox,
         ~piped => p.put = [q.put EXCEPT !["main"] = e] /\ p.inbox = q.inbox
  PROVE  ReqInv(r, p)
<1>0. /\ q \in RequestState(r) /\ Placed(q) /\ LineKept(q) /\ LineEnds(q) /\ TaskKept(q)
      /\ LogKept(q) /\ LogLate(q) /\ LateKept(q) /\ SaveKept(q) /\ TraceKept(q) /\ PutKept(q)
      /\ CompleteKept(q)
  BY DEF ReqInv
<1>1. /\ LineKept(p) /\ LineEnds(p) /\ TaskKept(p) /\ LogKept(p) /\ LogLate(p) /\ LateKept(p)
      /\ SaveKept(p)
  BY <1>0, OpLine, OpTask, OpLog, OpLogLate, OpLate, OpSave
<1>a. /\ p.kind = q.kind /\ p.out = "open" /\ q.out = "open" /\ p \in RequestState(r)
      /\ p.budget = q.budget /\ p.status = q.status
  BY DEF Op
<1>f. PlaceFact(q.pc, c, p.pc) /\ EndFact(q.pc, c, p.pc)
  BY DEF Op, Fact
<1>2. Placed(p)
  BY <1>0, <1>a, <1>f DEF PlaceFact, Placed, Stream
<1>3. TraceKept(p) /\ PutKept(p)
  <2>1. "main" \in Emitters  BY DEF Emitters
  <2> QED  BY <1>0, <1>a, <2>1, EmitTrace
<1>4. CompleteKept(p)
  <2> SUFFICES ASSUME Stream(p) PROVE CompleteKept(p)
    BY DEF CompleteKept
  <2>1. p.pc # "final" /\ p.pc # "end" /\ p.out # "closed"
    BY <1>a, <1>f DEF EndFact, PlaceFact
  <2>2. CASE p.pc = "lastRelay"
    <3>0. c[2] = "complete" /\ Stream(q)
      BY <2>2, <1>f, <1>a DEF EndFact, Stream
    <3>1. ASSUME piped PROVE HasComplete(p.inbox)
      <4>1. p.inbox = Append(q.inbox, e) /\ q.inbox \in Seq(Events(r))
        BY <3>0, <3>1, <1>0 DEF RequestState
      <4>2. Len(p.inbox) \in DOMAIN p.inbox /\ p.inbox[Len(p.inbox)] = e
        BY <4>1
      <4> QED  BY <4>2, <3>0 DEF HasComplete
    <3>2. ASSUME ~piped PROVE p.put["main"] = e
      BY <3>2, <1>0 DEF RequestState, Emitters
    <3>3. e # <<>> /\ e[3] = "complete"
      BY <3>0, EventTuple
    <3> QED  BY <3>1, <3>2, <3>3, <2>1, <2>2 DEF CompleteKept
  <2> QED  BY <2>1, <2>2 DEF CompleteKept
<1> QED  BY <1>1, <1>2, <1>3, <1>4, <1>a DEF ReqInv

----------------------------------------------------------------------------
(* The facts, table by table.                                               *)
LEMMA Tables ==
  ASSUME NEW l \in DOMAIN Code
  PROVE  \/ l \in DOMAIN Generating /\ Code[l] = Generating[l]
         \/ l \in DOMAIN Executing /\ Code[l] = Executing[l]
         \/ l \in DOMAIN Answering /\ Code[l] = Answering[l]
         \/ l \in DOMAIN Rejecting /\ Code[l] = Rejecting[l]
         \/ l \in DOMAIN TimingOutSql /\ Code[l] = TimingOutSql[l]
         \/ l \in DOMAIN TimingOut /\ Code[l] = TimingOut[l]
         \/ l \in DOMAIN Replying /\ Code[l] = Replying[l]
         \/ l \in DOMAIN Closing /\ Code[l] = Closing[l]
<1>1. ASSUME NEW m \in DOMAIN Generating PROVE m \in DOMAIN Code /\ Code[m] = Generating[m]
  BY SMTT(60) DEF Code, Generating, Executing, Answering, Rejecting, TimingOutSql, TimingOut,
     Replying, Closing
<1>2. ASSUME NEW m \in DOMAIN Executing PROVE m \in DOMAIN Code /\ Code[m] = Executing[m]
  BY SMTT(60) DEF Code, Generating, Executing, Answering, Rejecting, TimingOutSql, TimingOut,
     Replying, Closing
<1>3. ASSUME NEW m \in DOMAIN Answering PROVE m \in DOMAIN Code /\ Code[m] = Answering[m]
  BY SMTT(60) DEF Code, Generating, Executing, Answering, Rejecting, TimingOutSql, TimingOut,
     Replying, Closing
<1>4. ASSUME NEW m \in DOMAIN Rejecting PROVE m \in DOMAIN Code /\ Code[m] = Rejecting[m]
  BY SMTT(60) DEF Code, Generating, Executing, Answering, Rejecting, TimingOutSql, TimingOut,
     Replying, Closing
<1>5. ASSUME NEW m \in DOMAIN TimingOutSql PROVE m \in DOMAIN Code /\ Code[m] = TimingOutSql[m]
  BY SMTT(60) DEF Code, Generating, Executing, Answering, Rejecting, TimingOutSql, TimingOut,
     Replying, Closing
<1>6. ASSUME NEW m \in DOMAIN TimingOut PROVE m \in DOMAIN Code /\ Code[m] = TimingOut[m]
  BY SMTT(60) DEF Code, Generating, Executing, Answering, Rejecting, TimingOutSql, TimingOut,
     Replying, Closing
<1>7. ASSUME NEW m \in DOMAIN Replying PROVE m \in DOMAIN Code /\ Code[m] = Replying[m]
  BY SMTT(60) DEF Code, Generating, Executing, Answering, Rejecting, TimingOutSql, TimingOut,
     Replying, Closing
<1>8. ASSUME NEW m \in DOMAIN Closing PROVE m \in DOMAIN Code /\ Code[m] = Closing[m]
  BY SMTT(60) DEF Code, Generating, Executing, Answering, Rejecting, TimingOutSql, TimingOut,
     Replying, Closing
<1> QED  BY <1>1, <1>2, <1>3, <1>4, <1>5, <1>6, <1>7, <1>8 DEF Code

\* Every table's labels are labels.
LEMMA LabelFacts ==
  ASSUME NEW l
  PROVE  /\ l \in DOMAIN Generating => l \in Labels
         /\ l \in DOMAIN Executing => l \in Labels
         /\ l \in DOMAIN Answering => l \in Labels
         /\ l \in DOMAIN Rejecting => l \in Labels
         /\ l \in DOMAIN TimingOutSql => l \in Labels
         /\ l \in DOMAIN TimingOut => l \in Labels
         /\ l \in DOMAIN Replying => l \in Labels
         /\ l \in DOMAIN Closing => l \in Labels
         /\ l \in Stops => l \in Labels
BY DEF Labels, Code

\* Every operation goes on to a label.
LEMMA NextFacts ==
  ASSUME NEW l \in DOMAIN Code, NEW n \in Nexts(Code[l])
  PROVE  n \in Labels
<1>1. ASSUME l \in DOMAIN Generating, n \in Nexts(Generating[l]) PROVE n \in Labels
  <2>1. n \in Stops \cup DOMAIN Generating \cup DOMAIN Closing
    BY <1>1 DEF Nexts, Generating, Stops, Closing, Checks, Waits
  <2> QED  BY <2>1, LabelFacts
<1>2. ASSUME l \in DOMAIN Executing, n \in Nexts(Executing[l]) PROVE n \in Labels
  <2>1. n \in DOMAIN Executing \cup Stops
    BY <1>2 DEF Nexts, Executing, Stops, Checks, Waits
  <2> QED  BY <2>1, LabelFacts
<1>3. ASSUME l \in DOMAIN Answering, n \in Nexts(Answering[l]) PROVE n \in Labels
  <2>1. n \in DOMAIN Answering \cup Stops \cup DOMAIN Replying
    BY <1>3 DEF Nexts, Answering, Stops, Replying, Checks, Waits
  <2> QED  BY <2>1, LabelFacts
<1>4. ASSUME l \in DOMAIN Rejecting, n \in Nexts(Rejecting[l]) PROVE n \in Labels
  <2>1. n \in DOMAIN Rejecting \cup DOMAIN Replying
    BY <1>4 DEF Nexts, Rejecting, Replying
  <2> QED  BY <2>1, LabelFacts
<1>5. ASSUME l \in DOMAIN TimingOutSql, n \in Nexts(TimingOutSql[l]) PROVE n \in Labels
  <2>1. n \in DOMAIN TimingOutSql \cup DOMAIN Replying
    BY <1>5 DEF Nexts, TimingOutSql, Replying
  <2> QED  BY <2>1, LabelFacts
<1>6. ASSUME l \in DOMAIN TimingOut, n \in Nexts(TimingOut[l]) PROVE n \in Labels
  <2>1. n \in DOMAIN TimingOut \cup DOMAIN Replying
    BY <1>6 DEF Nexts, TimingOut, Replying
  <2> QED  BY <2>1, LabelFacts
<1>7. ASSUME l \in DOMAIN Replying, n \in Nexts(Replying[l]) PROVE n \in Labels
  <2>1. n \in DOMAIN Replying \cup DOMAIN Closing
    BY <1>7 DEF Nexts, Replying, Closing
  <2> QED  BY <2>1, LabelFacts
<1>8. ASSUME l \in DOMAIN Closing, n \in Nexts(Closing[l]) PROVE n \in Labels
  <2>1. n \in DOMAIN Closing \cup Stops
    BY <1>8 DEF Nexts, Closing, Stops, Checks, Waits
  <2> QED  BY <2>1, LabelFacts
<1> QED  BY <1>1, <1>2, <1>3, <1>4, <1>5, <1>6, <1>7, <1>8, Tables

\* The operands of every operation are of its kind.
LEMMA TypeFacts ==
  ASSUME NEW l \in DOMAIN Code, NEW n \in Nexts(Code[l])
  PROVE  TypeFact(l, Code[l], n)
<1>1. ASSUME l \in DOMAIN Generating, n \in Nexts(Generating[l]) PROVE TypeFact(l, Generating[l], n)
  BY <1>1 DEF Generating, Nexts, TypeFact, Lines, Stages, Statuses, Working
<1>2. ASSUME l \in DOMAIN Executing, n \in Nexts(Executing[l]) PROVE TypeFact(l, Executing[l], n)
  BY <1>2 DEF Executing, Nexts, TypeFact, Lines, Stages, Statuses, Working
<1>3. ASSUME l \in DOMAIN Answering, n \in Nexts(Answering[l]) PROVE TypeFact(l, Answering[l], n)
  BY <1>3 DEF Answering, Nexts, TypeFact, Lines, Stages, Statuses, Working
<1>4. ASSUME l \in DOMAIN Rejecting, n \in Nexts(Rejecting[l]) PROVE TypeFact(l, Rejecting[l], n)
  BY <1>4 DEF Rejecting, Nexts, TypeFact, Lines, Stages, Statuses, Working
<1>5. ASSUME l \in DOMAIN TimingOutSql, n \in Nexts(TimingOutSql[l])
      PROVE TypeFact(l, TimingOutSql[l], n)
  BY <1>5 DEF TimingOutSql, Nexts, TypeFact, Lines, Stages, Statuses, Working
<1>6. ASSUME l \in DOMAIN TimingOut, n \in Nexts(TimingOut[l]) PROVE TypeFact(l, TimingOut[l], n)
  BY <1>6 DEF TimingOut, Nexts, TypeFact, Lines, Stages, Statuses, Working
<1>7. ASSUME l \in DOMAIN Replying, n \in Nexts(Replying[l]) PROVE TypeFact(l, Replying[l], n)
  BY <1>7 DEF Replying, Nexts, TypeFact, Lines, Stages, Statuses, Working
<1>8. ASSUME l \in DOMAIN Closing, n \in Nexts(Closing[l]) PROVE TypeFact(l, Closing[l], n)
  BY <1>8 DEF Closing, Nexts, TypeFact, Lines, Stages, Statuses, Working
<1> QED  BY <1>1, <1>2, <1>3, <1>4, <1>5, <1>6, <1>7, <1>8, Tables

\* Every operation comes nearer to where the handler suspends.
LEMMA RankFacts ==
  ASSUME NEW l \in DOMAIN Code, NEW n \in Nexts(Code[l])
  PROVE  RankFact(l, n)
<1>1. ASSUME l \in DOMAIN Generating, n \in Nexts(Generating[l]) PROVE RankFact(l, n)
  BY <1>1 DEF Generating, Nexts, RankFact, Rank, Stops, Checks, Waits
<1>2. ASSUME l \in DOMAIN Executing, n \in Nexts(Executing[l]) PROVE RankFact(l, n)
  BY <1>2 DEF Executing, Nexts, RankFact, Rank, Stops, Checks, Waits
<1>3. ASSUME l \in DOMAIN Answering, n \in Nexts(Answering[l]) PROVE RankFact(l, n)
  BY <1>3 DEF Answering, Nexts, RankFact, Rank, Stops, Checks, Waits
<1>4. ASSUME l \in DOMAIN Rejecting, n \in Nexts(Rejecting[l]) PROVE RankFact(l, n)
  BY <1>4 DEF Rejecting, Nexts, RankFact, Rank, Stops, Checks, Waits
<1>5. ASSUME l \in DOMAIN TimingOutSql, n \in Nexts(TimingOutSql[l]) PROVE RankFact(l, n)
  BY <1>5 DEF TimingOutSql, Nexts, RankFact, Rank, Stops, Checks, Waits
<1>6. ASSUME l \in DOMAIN TimingOut, n \in Nexts(TimingOut[l]) PROVE RankFact(l, n)
  BY <1>6 DEF TimingOut, Nexts, RankFact, Rank, Stops, Checks, Waits
<1>7. ASSUME l \in DOMAIN Replying, n \in Nexts(Replying[l]) PROVE RankFact(l, n)
  BY <1>7 DEF Replying, Nexts, RankFact, Rank, Stops, Checks, Waits
<1>8. ASSUME l \in DOMAIN Closing, n \in Nexts(Closing[l]) PROVE RankFact(l, n)
  BY <1>8 DEF Closing, Nexts, RankFact, Rank, Stops, Checks, Waits
<1> QED  BY <1>1, <1>2, <1>3, <1>4, <1>5, <1>6, <1>7, <1>8, Tables

\* Where the operations that need it are reached from.
LEMMA PlaceFacts ==
  ASSUME NEW l \in DOMAIN Code, NEW n \in Nexts(Code[l])
  PROVE  PlaceFact(l, Code[l], n)
<1>1. ASSUME l \in DOMAIN Generating, n \in Nexts(Generating[l])
      PROVE PlaceFact(l, Generating[l], n)
  BY <1>1 DEF Generating, Nexts, PlaceFact, Stops, Checks, Waits
<1>2. ASSUME l \in DOMAIN Executing, n \in Nexts(Executing[l]) PROVE PlaceFact(l, Executing[l], n)
  BY <1>2 DEF Executing, Nexts, PlaceFact, Stops, Checks, Waits
<1>3. ASSUME l \in DOMAIN Answering, n \in Nexts(Answering[l]) PROVE PlaceFact(l, Answering[l], n)
  BY <1>3 DEF Answering, Nexts, PlaceFact, Stops, Checks, Waits
<1>4. ASSUME l \in DOMAIN Rejecting, n \in Nexts(Rejecting[l]) PROVE PlaceFact(l, Rejecting[l], n)
  BY <1>4 DEF Rejecting, Nexts, PlaceFact, Stops, Checks, Waits
<1>5. ASSUME l \in DOMAIN TimingOutSql, n \in Nexts(TimingOutSql[l])
      PROVE PlaceFact(l, TimingOutSql[l], n)
  BY <1>5 DEF TimingOutSql, Nexts, PlaceFact, Stops, Checks, Waits
<1>6. ASSUME l \in DOMAIN TimingOut, n \in Nexts(TimingOut[l]) PROVE PlaceFact(l, TimingOut[l], n)
  BY <1>6 DEF TimingOut, Nexts, PlaceFact, Stops, Checks, Waits
<1>7. ASSUME l \in DOMAIN Replying, n \in Nexts(Replying[l]) PROVE PlaceFact(l, Replying[l], n)
  BY <1>7 DEF Replying, Nexts, PlaceFact, Stops, Checks, Waits
<1>8. ASSUME l \in DOMAIN Closing, n \in Nexts(Closing[l]) PROVE PlaceFact(l, Closing[l], n)
  BY <1>8 DEF Closing, Nexts, PlaceFact, Stops, Checks, Waits
<1> QED  BY <1>1, <1>2, <1>3, <1>4, <1>5, <1>6, <1>7, <1>8, Tables

\* The lines known at a label are those its operation leaves.
LEMMA LineFacts ==
  ASSUME NEW l \in DOMAIN Code, NEW n \in Nexts(Code[l])
  PROVE  LineFact(l, Code[l], n)
<1>1. ASSUME l \in DOMAIN Generating, n \in Nexts(Generating[l]) PROVE LineFact(l, Generating[l], n)
  BY <1>1 DEF Generating, Nexts, LineFact, LinesAt, Lines, SqlLines, AnswerLines, Verdicts
<1>2. ASSUME l \in DOMAIN Executing, n \in Nexts(Executing[l]) PROVE LineFact(l, Executing[l], n)
  BY <1>2 DEF Executing, Nexts, LineFact, LinesAt, Lines, SqlLines, AnswerLines, Verdicts
<1>3. ASSUME l \in DOMAIN Answering, n \in Nexts(Answering[l]) PROVE LineFact(l, Answering[l], n)
  BY <1>3 DEF Answering, Nexts, LineFact, LinesAt, Lines, SqlLines, AnswerLines, Verdicts
<1>4. ASSUME l \in DOMAIN Rejecting, n \in Nexts(Rejecting[l]) PROVE LineFact(l, Rejecting[l], n)
  BY <1>4 DEF Rejecting, Nexts, LineFact, LinesAt, Lines, SqlLines, AnswerLines, Verdicts
<1>5. ASSUME l \in DOMAIN TimingOutSql, n \in Nexts(TimingOutSql[l])
      PROVE LineFact(l, TimingOutSql[l], n)
  BY <1>5 DEF TimingOutSql, Nexts, LineFact, LinesAt, Lines, SqlLines, AnswerLines,
     Verdicts
<1>6. ASSUME l \in DOMAIN TimingOut, n \in Nexts(TimingOut[l]) PROVE LineFact(l, TimingOut[l], n)
  BY <1>6 DEF TimingOut, Nexts, LineFact, LinesAt, Lines, SqlLines, AnswerLines, Verdicts
<1>7. ASSUME l \in DOMAIN Replying, n \in Nexts(Replying[l]) PROVE LineFact(l, Replying[l], n)
  BY <1>7 DEF Replying, Nexts, LineFact, LinesAt, Lines, SqlLines, AnswerLines, Verdicts
<1>8. ASSUME l \in DOMAIN Closing, n \in Nexts(Closing[l]) PROVE LineFact(l, Closing[l], n)
  BY <1>8 DEF Closing, Nexts, LineFact, LinesAt, Lines, SqlLines, AnswerLines, Verdicts
<1> QED  BY <1>1, <1>2, <1>3, <1>4, <1>5, <1>6, <1>7, <1>8, Tables

\* The tasks known at a label are those its operation leaves.
LEMMA TaskFacts ==
  ASSUME NEW l \in DOMAIN Code, NEW n \in Nexts(Code[l])
  PROVE  TaskFact(l, Code[l], n)
<1>1. ASSUME l \in DOMAIN Generating, n \in Nexts(Generating[l]) PROVE TaskFact(l, Generating[l], n)
  BY <1>1 DEF Generating, Nexts, TaskFact, TasksAt, SqlResults
<1>2. ASSUME l \in DOMAIN Executing, n \in Nexts(Executing[l]) PROVE TaskFact(l, Executing[l], n)
  BY <1>2 DEF Executing, Nexts, TaskFact, TasksAt, SqlResults
<1>3. ASSUME l \in DOMAIN Answering, n \in Nexts(Answering[l]) PROVE TaskFact(l, Answering[l], n)
  BY <1>3 DEF Answering, Nexts, TaskFact, TasksAt, SqlResults
<1>4. ASSUME l \in DOMAIN Rejecting, n \in Nexts(Rejecting[l]) PROVE TaskFact(l, Rejecting[l], n)
  BY <1>4 DEF Rejecting, Nexts, TaskFact, TasksAt, SqlResults
<1>5. ASSUME l \in DOMAIN TimingOutSql, n \in Nexts(TimingOutSql[l])
      PROVE TaskFact(l, TimingOutSql[l], n)
  BY <1>5 DEF TimingOutSql, Nexts, TaskFact, TasksAt, SqlResults
<1>6. ASSUME l \in DOMAIN TimingOut, n \in Nexts(TimingOut[l]) PROVE TaskFact(l, TimingOut[l], n)
  BY <1>6 DEF TimingOut, Nexts, TaskFact, TasksAt, SqlResults
<1>7. ASSUME l \in DOMAIN Replying, n \in Nexts(Replying[l]) PROVE TaskFact(l, Replying[l], n)
  BY <1>7 DEF Replying, Nexts, TaskFact, TasksAt, SqlResults
<1>8. ASSUME l \in DOMAIN Closing, n \in Nexts(Closing[l]) PROVE TaskFact(l, Closing[l], n)
  BY <1>8 DEF Closing, Nexts, TaskFact, TasksAt, SqlResults
<1> QED  BY <1>1, <1>2, <1>3, <1>4, <1>5, <1>6, <1>7, <1>8, Tables

\* The outcomes known at a label are those its operation leaves.
LEMMA LogFacts ==
  ASSUME NEW l \in DOMAIN Code, NEW n \in Nexts(Code[l])
  PROVE  LogFact(l, Code[l], n)
<1>1. ASSUME l \in DOMAIN Generating, n \in Nexts(Generating[l]) PROVE LogFact(l, Generating[l], n)
  BY <1>1 DEF Generating, Nexts, LogFact, Logged, LoggedRejected, LoggedClarify,
     LoggedOk, Replied
<1>2. ASSUME l \in DOMAIN Executing, n \in Nexts(Executing[l]) PROVE LogFact(l, Executing[l], n)
  BY <1>2 DEF Executing, Nexts, LogFact, Logged, LoggedRejected, LoggedClarify,
     LoggedOk, Replied
<1>3. ASSUME l \in DOMAIN Answering, n \in Nexts(Answering[l]) PROVE LogFact(l, Answering[l], n)
  BY <1>3 DEF Answering, Nexts, LogFact, Logged, LoggedRejected, LoggedClarify,
     LoggedOk, Replied
<1>4. ASSUME l \in DOMAIN Rejecting, n \in Nexts(Rejecting[l]) PROVE LogFact(l, Rejecting[l], n)
  BY <1>4 DEF Rejecting, Nexts, LogFact, Logged, LoggedRejected, LoggedClarify,
     LoggedOk, Replied
<1>5. ASSUME l \in DOMAIN TimingOutSql, n \in Nexts(TimingOutSql[l])
      PROVE LogFact(l, TimingOutSql[l], n)
  BY <1>5 DEF TimingOutSql, Nexts, LogFact, Logged, LoggedRejected, LoggedClarify,
     LoggedOk, Replied
<1>6. ASSUME l \in DOMAIN TimingOut, n \in Nexts(TimingOut[l]) PROVE LogFact(l, TimingOut[l], n)
  BY <1>6 DEF TimingOut, Nexts, LogFact, Logged, LoggedRejected, LoggedClarify,
     LoggedOk, Replied
<1>7. ASSUME l \in DOMAIN Replying, n \in Nexts(Replying[l]) PROVE LogFact(l, Replying[l], n)
  BY <1>7 DEF Replying, Nexts, LogFact, Logged, LoggedRejected, LoggedClarify, LoggedOk,
     Replied
<1>8. ASSUME l \in DOMAIN Closing, n \in Nexts(Closing[l]) PROVE LogFact(l, Closing[l], n)
  BY <1>8 DEF Closing, Nexts, LogFact, Logged, LoggedRejected, LoggedClarify, LoggedOk,
     Replied
<1> QED  BY <1>1, <1>2, <1>3, <1>4, <1>5, <1>6, <1>7, <1>8, Tables

\* The way of an /ask whose time budget has ended.
LEMMA LateFacts ==
  ASSUME NEW l \in DOMAIN Code, NEW n \in Nexts(Code[l])
  PROVE  LateFact(l, Code[l], n)
<1>1. ASSUME l \in DOMAIN Generating, n \in Nexts(Generating[l]) PROVE LateFact(l, Generating[l], n)
  BY <1>1 DEF Generating, Nexts, LateFact, Replied
<1>2. ASSUME l \in DOMAIN Executing, n \in Nexts(Executing[l]) PROVE LateFact(l, Executing[l], n)
  BY <1>2 DEF Executing, Nexts, LateFact, Replied
<1>3. ASSUME l \in DOMAIN Answering, n \in Nexts(Answering[l]) PROVE LateFact(l, Answering[l], n)
  BY <1>3 DEF Answering, Nexts, LateFact, Replied
<1>4. ASSUME l \in DOMAIN Rejecting, n \in Nexts(Rejecting[l]) PROVE LateFact(l, Rejecting[l], n)
  BY <1>4 DEF Rejecting, Nexts, LateFact, Replied
<1>5. ASSUME l \in DOMAIN TimingOutSql, n \in Nexts(TimingOutSql[l])
      PROVE LateFact(l, TimingOutSql[l], n)
  BY <1>5 DEF TimingOutSql, Nexts, LateFact, Replied
<1>6. ASSUME l \in DOMAIN TimingOut, n \in Nexts(TimingOut[l]) PROVE LateFact(l, TimingOut[l], n)
  BY <1>6 DEF TimingOut, Nexts, LateFact, Replied
<1>7. ASSUME l \in DOMAIN Replying, n \in Nexts(Replying[l]) PROVE LateFact(l, Replying[l], n)
  BY <1>7 DEF Replying, Nexts, LateFact, Replied
<1>8. ASSUME l \in DOMAIN Closing, n \in Nexts(Closing[l]) PROVE LateFact(l, Closing[l], n)
  BY <1>8 DEF Closing, Nexts, LateFact, Replied
<1> QED  BY <1>1, <1>2, <1>3, <1>4, <1>5, <1>6, <1>7, <1>8, Tables

\* The way of every handler to its end.
LEMMA EndFacts ==
  ASSUME NEW l \in DOMAIN Code, NEW n \in Nexts(Code[l])
  PROVE  EndFact(l, Code[l], n)
<1>1. ASSUME l \in DOMAIN Generating, n \in Nexts(Generating[l]) PROVE EndFact(l, Generating[l], n)
  BY <1>1 DEF Generating, Nexts, EndFact, LinesAt, SqlLines, AnswerLines, Verdicts, Lines
<1>2. ASSUME l \in DOMAIN Executing, n \in Nexts(Executing[l]) PROVE EndFact(l, Executing[l], n)
  BY <1>2 DEF Executing, Nexts, EndFact, LinesAt, SqlLines, AnswerLines, Verdicts, Lines
<1>3. ASSUME l \in DOMAIN Answering, n \in Nexts(Answering[l]) PROVE EndFact(l, Answering[l], n)
  BY <1>3 DEF Answering, Nexts, EndFact, LinesAt, SqlLines, AnswerLines, Verdicts, Lines
<1>4. ASSUME l \in DOMAIN Rejecting, n \in Nexts(Rejecting[l]) PROVE EndFact(l, Rejecting[l], n)
  BY <1>4 DEF Rejecting, Nexts, EndFact, LinesAt, SqlLines, AnswerLines, Verdicts, Lines
<1>5. ASSUME l \in DOMAIN TimingOutSql, n \in Nexts(TimingOutSql[l])
      PROVE EndFact(l, TimingOutSql[l], n)
  BY <1>5 DEF TimingOutSql, Nexts, EndFact, LinesAt, SqlLines, AnswerLines, Verdicts,
     Lines
<1>6. ASSUME l \in DOMAIN TimingOut, n \in Nexts(TimingOut[l]) PROVE EndFact(l, TimingOut[l], n)
  BY <1>6 DEF TimingOut, Nexts, EndFact, LinesAt, SqlLines, AnswerLines, Verdicts, Lines
<1>7. ASSUME l \in DOMAIN Replying, n \in Nexts(Replying[l]) PROVE EndFact(l, Replying[l], n)
  BY <1>7 DEF Replying, Nexts, EndFact, LinesAt, SqlLines, AnswerLines, Verdicts, Lines
<1>8. ASSUME l \in DOMAIN Closing, n \in Nexts(Closing[l]) PROVE EndFact(l, Closing[l], n)
  BY <1>8 DEF Closing, Nexts, EndFact, LinesAt, SqlLines, AnswerLines, Verdicts, Lines
<1> QED  BY <1>1, <1>2, <1>3, <1>4, <1>5, <1>6, <1>7, <1>8, Tables

\* All that is known of the operation at a label.
LEMMA CodeFacts ==
  ASSUME NEW l \in DOMAIN Code, NEW n \in Nexts(Code[l])
  PROVE  Fact(l, Code[l], n)
BY NextFacts, TypeFacts, RankFacts, PlaceFacts, LineFacts, TaskFacts, LogFacts,
   LateFacts, EndFacts
DEF Fact, NextFact

----------------------------------------------------------------------------
(* A handler runs until it is suspended.                                    *)
LEMMA TableFacts ==
  ASSUME NEW l \in DOMAIN Code
  PROVE  /\ TypeFact(l, Code[l], Code[l][3])
         /\ \A n \in Nexts(Code[l]) : n \in Labels /\ Fact(l, Code[l], n)
         /\ Code[l][1] \notin {"det", "ask"} => Code[l][3] \in Nexts(Code[l])
         /\ Code[l][3] \in Labels
<1>1. Code[l][3] \in Nexts(Code[l])
  BY DEF Nexts
<1>2. \A n \in Nexts(Code[l]) : Fact(l, Code[l], n)
  BY CodeFacts
<1> QED  BY <1>1, <1>2 DEF Fact, NextFact

\* The pipeline's account depends on the number of the recorder alone.
LEMMA SeqKept ==
  ASSUME NEW r, NEW s, NEW t, PipeFlow(r, s), t.queue = s.queue, t.settled = s.settled,
         t.q.seq = s.q.seq
  PROVE  PipeFlow(r, t)
BY DEF PipeFlow

\* A change of the request alone leaves the pipeline's part.
LEMMA PipeSame ==
  ASSUME NEW s, NEW p, Pipe(s)
  PROVE  /\ Pipe([s EXCEPT !.q = p]) /\ [s EXCEPT !.q = p].q = p
         /\ [s EXCEPT !.q = p].queue = s.queue /\ [s EXCEPT !.q = p].settled = s.settled
<1>0. PICK q, qu, se : s = [q |-> q, queue |-> qu, settled |-> se]
  BY DEF Pipe
<1>1. [s EXCEPT !.q = p] = [q |-> p, queue |-> qu, settled |-> se] /\ s.queue = qu /\ s.settled = se
  BY <1>0
<1>2. /\ [s EXCEPT !.q = p].q = p
      /\ [s EXCEPT !.q = p].queue = s.queue /\ [s EXCEPT !.q = p].settled = s.settled
  BY <1>1
<1>t. PICK t : t = [s EXCEPT !.q = p]
  OBVIOUS
<1>3. t = [q |-> t.q, queue |-> t.queue, settled |-> t.settled]
  BY <1>1, <1>2, <1>t
<1>4. Pipe(t)
  BY <1>2, <1>3, <1>t DEF Pipe
<1> QED  BY <1>2, <1>4, <1>t

\* Whatever operation a handler performs, the invariant holds behind it,
\* and its end is nearer.
LEMMA ActKept ==
  ASSUME NEW r \in Requests, NEW s, PipeKept, Seqs \in [Requests -> Nat], Holds(r, s),
         ~Suspended(s.q)
  PROVE  /\ Holds(r, Act(r, s, Code[s.q.pc])) /\ Ran(s.q, Act(r, s, Code[s.q.pc]).q)
         /\ Rank(Act(r, s, Code[s.q.pc]).q.pc) < Rank(s.q.pc)
<1> DEFINE tt == Act(r, s, Code[s.q.pc])
<1> SUFFICES Holds(r, tt) /\ Ran(s.q, tt.q) /\ Rank(tt.q.pc) < Rank(s.q.pc)
  OBVIOUS
<1>q. PICK q : q = s.q
  OBVIOUS
<1>c. PICK c : c = Code[q.pc]
  OBVIOUS
<1>t. PICK t : t = Act(r, s, c)
  OBVIOUS
<1>e. t = tt
  BY <1>q, <1>c, <1>t
<1> HIDE DEF tt
<1>0. /\ Pipe(s) /\ PipeFlow(r, s) /\ ReqInv(r, q) /\ q \in RequestState(r) /\ Placed(q)
      /\ ~Suspended(q)
  BY <1>q DEF Holds, ReqInv
<1>1. /\ q.pc \in DOMAIN Code /\ q.out = "open" /\ q.relay = <<>> /\ q.put["main"] = <<>>
      /\ c[1] = "say" => ~Stream(q)
  BY <1>0, <1>c, Running
<1>2. /\ TypeFact(q.pc, c, c[3])
      /\ \A n \in Nexts(c) : n \in Labels /\ Fact(q.pc, c, n)
      /\ c[1] \notin {"det", "ask"} => c[3] \in Nexts(c)
      /\ c[3] \in Labels
  BY <1>1, <1>c, TableFacts
<1>3. CASE c[1] # "emit"
  <2>0. PICK p : p = Did([q EXCEPT !.pc = c[3]], c)
    OBVIOUS
  <2>1. t = [s EXCEPT !.q = p]
    BY <1>3, <1>t, <1>q, <2>0 DEF Act
  <2>2. c[1] = "report" => q.status \in Statuses
    <3>1. c[1] = "report" => q.pc = "logReported"
      <4>1. c[1] = "report" => LogFact(q.pc, c, c[3])
        BY <1>2 DEF Fact
      <4> QED  BY <4>1 DEF LogFact
    <3> QED  BY <3>1, <1>0 DEF Placed, RequestState
  <2>3. Moves(r, q, p, c)
    BY <1>0, <1>2, <1>3, <2>0, <2>2, DidMoves
  <2>4. Op(r, q, p, c)
    BY <2>3, <1>0, <1>1, <1>2 DEF Moves, Op
  <2>5. ReqInv(r, p)
    BY <1>0, <1>1, <1>3, <2>3, <2>4, DidKept
  <2>6. Pipe(t) /\ t.q = p /\ t.queue = s.queue /\ t.settled = s.settled
    BY <2>1, <1>0, PipeSame
  <2>7. PipeFlow(r, t)
    BY <2>6, <2>3, <1>0, <1>q, SeqKept DEF Moves
  <2>8. Ran(q, p) /\ Rank(p.pc) < Rank(q.pc)
    BY <2>3, <2>4, <1>1 DEF Op, Fact, RankFact, Ran, Moves
  <2> QED  BY <2>5, <2>6, <2>7, <2>8, <1>q, <1>e DEF Holds
<1>4. CASE c[1] = "emit"
  <2>0. PICK p : p = [q EXCEPT !.pc = c[3]]
    OBVIOUS
  <2>1. /\ p \in RequestState(r) /\ p.pc = c[3]
        /\ p.kind = q.kind /\ p.line = q.line /\ p.budget = q.budget /\ p.rows = q.rows
        /\ p.seq = q.seq /\ p.put = q.put /\ p.traced = q.traced /\ p.relay = q.relay
        /\ p.inbox = q.inbox /\ p.task = q.task /\ p.logged = q.logged /\ p.status = q.status
        /\ p.out = q.out /\ p.saved = q.saved
    BY <2>0, <1>0, <1>2 DEF RequestState
  <2>2. PICK u : u = [s EXCEPT !.q = p]
    OBVIOUS
  <2>3. Pipe(u) /\ u.q = p /\ u.queue = s.queue /\ u.settled = s.settled
    BY <2>2, <1>0, PipeSame
  <2>4. PipeFlow(r, u)
    BY <2>3, <2>1, <1>0, <1>q, SeqKept
  <2>5. t = Emitted(r, "main", c[2], u)
    BY <1>4, <1>t, <1>q, <2>0, <2>2 DEF Act
  <2>6. "main" \in Emitters /\ c[2] \in Stages
    BY <1>2, <1>4 DEF TypeFact, Emitters
  <2>7. Pipe(t) /\ PipeFlow(r, t)
    BY <2>1, <2>3, <2>4, <2>5, <2>6, EmitPipe
  <2>8. PICK e : e = <<r, u.q.seq + 1, c[2]>>
    OBVIOUS
  <2>9. Emission(r, "main", e, u, t)
    BY <2>1, <2>3, <2>5, <2>6, <2>8, EmitFields
  <2>10. e[2] = q.seq + 1 /\ e[3] = c[2] /\ e \in Events(r)
    BY <2>8, <2>6, <2>1, <2>3, <1>0, NewEvent DEF RequestState
  <2>11. /\ t.q \in RequestState(r)
         /\ t.q.kind = q.kind /\ t.q.pc = c[3] /\ t.q.relay = q.relay /\ t.q.task = q.task
         /\ t.q.rows = q.rows /\ t.q.budget = q.budget /\ t.q.line = q.line
         /\ t.q.traced = q.traced /\ t.q.out = q.out /\ t.q.status = q.status
         /\ t.q.logged = q.logged /\ t.q.saved = q.saved /\ t.q.seq = q.seq + 1
         /\ piped => /\ t.q.put = q.put
                     /\ t.q.inbox = IF Stream(q) THEN Append(q.inbox, e) ELSE q.inbox
         /\ ~piped => t.q.put = [q.put EXCEPT !["main"] = e] /\ t.q.inbox = q.inbox
    BY <2>9, <2>1, <2>3 DEF Emission, Stream
  <2>12. Op(r, q, t.q, c)
    BY <2>11, <1>0, <1>1, <1>2, <1>4 DEF Op
  <2>13. ReqInv(r, t.q)
    BY <2>10, <2>11, <2>12, <1>0, <1>1, <1>4, SentKept
  <2>14. Ran(q, t.q) /\ Rank(t.q.pc) < Rank(q.pc)
    BY <2>12, <2>11 DEF Op, Fact, RankFact, Ran
  <2> QED  BY <2>7, <2>13, <2>14, <1>q, <1>e DEF Holds
<1> QED  BY <1>3, <1>4

\* What k operations have made of s, if it was not suspended before.
After(r, s, t, k) ==
    /\ Holds(r, t) /\ Ran(s.q, t.q)
    /\ Suspended(t.q) \/ Rank(t.q.pc) + k <= Rank(s.q.pc)

\* No handler performs more than eighteen operations without suspending.
LEMMA RankBounds ==
  ASSUME NEW l
  PROVE  Rank(l) \in 0..18
BY DEF Rank

\* One operation more.
LEMMA OnceAfter ==
  ASSUME NEW r \in Requests, NEW s, NEW S, NEW k \in Nat, PipeKept, Seqs \in [Requests -> Nat],
         \A u \in S : After(r, s, u, k)
  PROVE  \A t \in Once(r, S) : After(r, s, t, k + 1)
<1> SUFFICES ASSUME NEW u \in S, NEW t \in Step(r, u) PROVE After(r, s, t, k + 1)
  BY DEF Once
<1>1. Holds(r, u) /\ Ran(s.q, u.q) /\ (Suspended(u.q) \/ Rank(u.q.pc) + k <= Rank(s.q.pc))
  BY DEF After
<1>2. CASE Suspended(u.q)
  BY <1>1, <1>2 DEF Step, After
<1>3. CASE ~Suspended(u.q)
  <2>1. t = Act(r, u, Code[u.q.pc])
    BY <1>3 DEF Step
  <2>2. Holds(r, t) /\ Ran(u.q, t.q) /\ Rank(t.q.pc) < Rank(u.q.pc)
    BY <1>1, <1>3, <2>1, ActKept
  <2>3. Ran(s.q, t.q)
    BY <1>1, <2>2 DEF Ran
  <2>4. PICK a \in Int, b \in Int, d \in Int :
            a = Rank(t.q.pc) /\ b = Rank(u.q.pc) /\ d = Rank(s.q.pc)
    BY RankBounds
  <2>5. Rank(t.q.pc) + (k + 1) <= Rank(s.q.pc)
    BY <1>1, <1>3, <2>2, <2>4
  <2> QED  BY <2>2, <2>3, <2>5 DEF After
<1> QED  BY <1>2, <1>3

\* Four operations more.
LEMMA FourAfter ==
  ASSUME NEW r \in Requests, NEW s, NEW S, NEW k \in Nat, PipeKept, Seqs \in [Requests -> Nat],
         \A u \in S : After(r, s, u, k)
  PROVE  \A t \in Four(r, S) : After(r, s, t, k + 4)
<1> SUFFICES ASSUME NEW u \in S,
                    NEW t \in IF Suspended(u.q) THEN {u}
                              ELSE Once(r, Once(r, Once(r, Once(r, {u}))))
             PROVE  After(r, s, t, k + 4)
  BY DEF Four
<1>1. CASE Suspended(u.q)
  BY <1>1 DEF After
<1>2. CASE ~Suspended(u.q)
  <2>0. \A v \in {u} : After(r, s, v, k)
    OBVIOUS
  <2>k. PICK l \in Nat, m \in Nat, n \in Nat : l = k + 1 /\ m = k + 2 /\ n = k + 3
    OBVIOUS
  <2>1. \A v \in Once(r, {u}) : After(r, s, v, l)
    BY <2>0, <2>k, OnceAfter
  <2>a. \A v \in Once(r, Once(r, {u})) : After(r, s, v, l + 1)
    BY <2>1, OnceAfter
  <2>2. \A v \in Once(r, Once(r, {u})) : After(r, s, v, m)
    BY <2>a, <2>k
  <2>b. \A v \in Once(r, Once(r, Once(r, {u}))) : After(r, s, v, m + 1)
    BY <2>2, OnceAfter
  <2>3. \A v \in Once(r, Once(r, Once(r, {u}))) : After(r, s, v, n)
    BY <2>b, <2>k
  <2>4. \A v \in Once(r, Once(r, Once(r, Once(r, {u})))) : After(r, s, v, n + 1)
    BY <2>3, OnceAfter
  <2>5. n + 1 = k + 4
    BY <2>k
  <2> QED  BY <1>2, <2>4, <2>5
<1> QED  BY <1>1, <1>2

\* It suspends: no label is twenty operations away from the next suspension.
LEMMA PerformedKept ==
  ASSUME NEW r \in Requests, NEW s, PipeKept, Seqs \in [Requests -> Nat], Holds(r, s),
         NEW t \in Performed(r, s)
  PROVE  Holds(r, t) /\ Ran(s.q, t.q) /\ Suspended(t.q)
<1>0. \A v \in {s} : After(r, s, v, 0)
  <2>1. Rank(s.q.pc) + 0 <= Rank(s.q.pc)
    BY RankBounds
  <2> QED  BY <2>1 DEF After, Ran
<1>a. ASSUME NEW S, NEW k \in Nat, \A v \in S : After(r, s, v, k)
      PROVE  \A v \in Four(r, S) : After(r, s, v, k + 4)
  BY <1>a, FourAfter
<1>1. \A v \in Four(r, {s}) : After(r, s, v, 4)
  <2>1. \A v \in Four(r, {s}) : After(r, s, v, 0 + 4)
    BY <1>0, <1>a
  <2> QED  BY <2>1
<1>2. \A v \in Four(r, Four(r, {s})) : After(r, s, v, 8)
  <2>1. \A v \in Four(r, Four(r, {s})) : After(r, s, v, 4 + 4)
    BY <1>1, <1>a
  <2> QED  BY <2>1
<1>3. \A v \in Four(r, Four(r, Four(r, {s}))) : After(r, s, v, 12)
  <2>1. \A v \in Four(r, Four(r, Four(r, {s}))) : After(r, s, v, 8 + 4)
    BY <1>2, <1>a
  <2> QED  BY <2>1
<1>4. \A v \in Four(r, Four(r, Four(r, Four(r, {s})))) : After(r, s, v, 16)
  <2>1. \A v \in Four(r, Four(r, Four(r, Four(r, {s})))) : After(r, s, v, 12 + 4)
    BY <1>3, <1>a
  <2> QED  BY <2>1
<1>5. \A v \in Performed(r, s) : After(r, s, v, 16 + 4)
  BY <1>4, <1>a DEF Performed
<1>6. After(r, s, t, 20)
  BY <1>5
<1>7. ~(Rank(t.q.pc) + 20 <= Rank(s.q.pc))
  BY RankBounds
<1> QED  BY <1>6, <1>7 DEF After

----------------------------------------------------------------------------
(* What a step makes of the invariant.                                      *)
LEMMA NextReq ==
  ASSUME NEW x, NEW p, req'[x] = p, piped' = piped, ReqInv(x, p)
  PROVE  ReqInv(x, req[x])'
<1>1. (req[x] \in RequestState(x) /\ Placed(req[x]))'
  BY DEF ReqInv, Placed, Stream
<1>2. (LineKept(req[x]) /\ LineEnds(req[x]) /\ TaskKept(req[x]))'
  BY DEF ReqInv, LineKept, LineEnds, TaskKept, Stream
<1>3. LogKept(req[x])'
  BY DEF ReqInv, LogKept, Hit
<1>4. (LogLate(req[x]) /\ LateKept(req[x]))'
  BY DEF ReqInv, LogLate, LateKept
<1>5. SaveKept(req[x])'
  BY DEF ReqInv, SaveKept
<1>6. PutKept(req[x])'
  BY DEF ReqInv, PutKept
<1>7. TraceKept(req[x])'
  BY DEF ReqInv, TraceKept, Clean, Trace, Stream
<1>8. CompleteKept(req[x])'
  BY DEF ReqInv, CompleteKept, HasComplete, Stream
<1> QED  BY <1>1, <1>2, <1>3, <1>4, <1>5, <1>6, <1>7, <1>8 DEF ReqInv

\* The invariant, of each request.
LEMMA IInvParts ==
  ASSUME IInv
  PROVE  /\ PipeKept /\ QueueKept(queue) /\ Seqs \in [Requests -> Nat]
         /\ \A x \in Requests : /\ req[x] \in RequestState(x) /\ ReqInv(x, req[x])
                                /\ Suspended(req[x]) /\ Seqs[x] = req[x].seq
BY DEF IInv, ReqInv, Seqs, RequestState

\* The step of a request to state t, beside a pipeline that only queues.
LEMMA Becoming ==
  ASSUME IInv, NEW r \in Requests, NEW t, Holds(r, t), Suspended(t.q), Becomes(r, t)
  PROVE  IInv'
<1>0. /\ PipeKept /\ Seqs \in [Requests -> Nat]
      /\ req \in [Requests -> UNION {RequestState(x) : x \in Requests}]
      /\ \A x \in Requests : /\ req[x] \in RequestState(x) /\ ReqInv(x, req[x])
                             /\ Suspended(req[x]) /\ Seqs[x] = req[x].seq
  BY IInvParts DEF IInv
<1>1. /\ req' = [req EXCEPT ![r] = t.q] /\ queue' = t.queue /\ settled' = t.settled
      /\ batch' = batch /\ worker' = worker /\ stop' = stop /\ piped' = piped
  BY DEF Becomes
<1>2. /\ Pipe(t) /\ PipeFlow(r, t) /\ ReqInv(r, t.q) /\ t.q \in RequestState(r)
  BY DEF Holds, ReqInv
<1>3. /\ req'[r] = t.q /\ \A x \in Requests : x # r => req'[x] = req[x]
      /\ req' \in [Requests -> UNION {RequestState(x) : x \in Requests}]
  BY <1>0, <1>1, <1>2
<1>4. PipeKept'
  BY <1>0, <1>1 DEF PipeKept
<1>5. QueueKept(queue)'
  BY <1>1, <1>2 DEF QueueKept, Pipe
<1>6. settled' \subseteq Requests \X (Nat \ {0})
  BY <1>1, <1>2 DEF Pipe
<1>7. Seqs' = [Seqs EXCEPT ![r] = t.q.seq]
  BY <1>0, <1>3 DEF Seqs
<1>8. (piped => Flow(Backlog, settled, Seqs))'
  BY <1>1, <1>2, <1>7 DEF PipeFlow, Flow, Held, Backlog
<1>9. ASSUME NEW x \in Requests
      PROVE  ReqInv(x, req[x])' /\ Suspended(req[x])'
  <2>1. PICK p : p = req'[x]
    OBVIOUS
  <2>2. ReqInv(x, p) /\ Suspended(p)
    BY <2>1, <1>0, <1>2, <1>3
  <2>3. ReqInv(x, req[x])'
    BY <2>1, <2>2, <1>1, NextReq
  <2>4. Suspended(req[x])'
    BY <2>1, <2>2 DEF Suspended, Stream
  <2> QED  BY <2>3, <2>4
<1> QED  BY <1>3, <1>4, <1>5, <1>6, <1>8, <1>9 DEF IInv

\* A request that has only changed itself.
LEMMA NowHolds ==
  ASSUME IInv, NEW r \in Requests, NEW q, ReqInv(r, q), q.seq = req[r].seq
  PROVE  Holds(r, Now(q)) /\ Now(q).q = q
<1>1. Now(q).q = q /\ Now(q).queue = queue /\ Now(q).settled = settled
  BY DEF Now
<1>2. Pipe(Now(q))
  <2>1. PICK t : t = Now(q)
    OBVIOUS
  <2>2. t = [q |-> t.q, queue |-> t.queue, settled |-> t.settled]
    BY <2>1 DEF Now
  <2>3. /\ QueueKept(t.queue) /\ t.settled \subseteq Requests \X (Nat \ {0})
        /\ t.queue \in Seq({Sentinel} \cup EventTuples)
    BY <2>1, <1>1 DEF IInv, QueueKept, EventTuples
  <2> QED  BY <2>1, <2>2, <2>3 DEF Pipe
<1>3. PipeFlow(r, Now(q))
  <2>1. [Seqs EXCEPT ![r] = q.seq] = Seqs
    BY IInvParts
  <2> QED  BY <2>1, <1>1 DEF PipeFlow, IInv, Backlog
<1> QED  BY <1>1, <1>2, <1>3 DEF Holds

\* A step of r in which its reader sees nothing, but perhaps the end.
Quiet(r) ==
    /\ Ran(req[r], req'[r])
    /\ \A x \in Requests \ {r} : req'[x] = req[x]

\* A step of one request leaves the others as they are.
LEMMA Alone ==
  ASSUME IInv, NEW r \in Requests, NEW t, Becomes(r, t)
  PROVE  req'[r] = t.q /\ \A x \in Requests \ {r} : req'[x] = req[x]
BY DEF Becomes, IInv

\* A step that performs no operation.
LEMMA LocalKept ==
  ASSUME IInv, NEW r \in Requests, NEW q, ReqInv(r, q), q.seq = req[r].seq, Suspended(q),
         Local(r, q)
  PROVE  /\ IInv' /\ req'[r] = q /\ \A x \in Requests \ {r} : req'[x] = req[x]
         /\ Ran(req[r], q) => Quiet(r)
<1>1. Holds(r, Now(q)) /\ Now(q).q = q /\ Becomes(r, Now(q))
  BY NowHolds DEF Local
<1>2. IInv'
  BY <1>1, Becoming
<1>3. req'[r] = q /\ \A x \in Requests \ {r} : req'[x] = req[x]
  BY <1>1, Alone
<1> QED  BY <1>2, <1>3 DEF Quiet

\* A step in which the handler goes on from state q until it suspends.
LEMMA ContinueKept ==
  ASSUME IInv, NEW r \in Requests, NEW q, ReqInv(r, q), q.seq = req[r].seq, Continue(r, q)
  PROVE  /\ IInv' /\ Ran(q, req'[r]) /\ \A x \in Requests \ {r} : req'[x] = req[x]
         /\ Ran(req[r], q) => Quiet(r)
<1>1. PICK t \in Performed(r, Now(q)) : Becomes(r, t)
  BY DEF Continue
<1>2. Holds(r, Now(q)) /\ Now(q).q = q
  BY NowHolds
<1>3. Holds(r, t) /\ Ran(q, t.q) /\ Suspended(t.q)
  BY <1>1, <1>2, IInvParts, PerformedKept
<1>4. req'[r] = t.q /\ \A x \in Requests \ {r} : req'[x] = req[x]
  BY <1>1, Alone
<1>5. IInv'
  BY <1>1, <1>3, Becoming
<1> QED  BY <1>3, <1>4, <1>5 DEF Quiet, Ran

----------------------------------------------------------------------------
(* A handler that waits, or looks at a poll, goes on elsewhere.             *)
\* Labels from where, and to where, a handler can be moved.
Movable == Labels \ (Logged \cup {"over", "lateAsk", "failAsk"})

\* A handler moved to another label, with what it may hold there, keeps the
\* invariant.
LEMMA Moving ==
  ASSUME NEW r \in Requests, NEW q, NEW p, ReqInv(r, q), q.relay = <<>>, q.put["main"] = <<>>,
         q.pc \in Movable, p.pc \in Movable, LinesAt(q.pc) \subseteq LinesAt(p.pc) \/ ~Stream(q),
         p.task \in TasksAt(p.pc), p.budget # "over",
         p.pc \in {"asked", "lookup", "hit"} => p.kind = "ask" /\ p.budget = "none",
         p.pc \in {"reported", "logReported"} => p.status # "none",
         p \in RequestState(r), p.kind = q.kind, p.seq = q.seq, p.put = q.put, p.line = q.line,
         p.traced = q.traced, p.out = q.out, p.logged = q.logged, p.saved = q.saved,
         \/ p.relay = q.relay /\ p.inbox = q.inbox
         \/ Stream(q) /\ p.relay = q.inbox /\ p.inbox = <<>>,
         q.pc # "logOk" /\ p.pc \notin {"logOk", "end", "logReported"}
  PROVE  ReqInv(r, p)
<1>0. /\ q \in RequestState(r) /\ Placed(q) /\ LineKept(q) /\ LineEnds(q) /\ LogKept(q)
      /\ LogLate(q) /\ SaveKept(q) /\ TraceKept(q) /\ PutKept(q)
  BY DEF ReqInv
<1>1. /\ q.out = "open" /\ p.out = "open" /\ q.pc # "over" /\ p.pc # "over"
      /\ {"lastRelay", "final", "end"} \cap {q.pc, p.pc} = {}
      /\ q.pc \notin Logged /\ p.pc \notin Logged /\ p.pc \notin {"lateAsk", "failAsk"}
  BY <1>0 DEF Movable, Placed, Logged, Replied
<1>2. q.logged = <<>> /\ p.logged = <<>>
  <2>1. q.budget # "over"
    BY <1>0 DEF LogLate, Movable, Logged, LoggedRejected, Replied
  <2> QED  BY <1>0, <1>1, <2>1 DEF LogKept, Logged
<1>3. Placed(p)
  BY <1>0, <1>1 DEF Placed, Stream
<1>4. LineKept(p) /\ LineEnds(p) /\ TaskKept(p) /\ LateKept(p)
  BY <1>0, <1>1 DEF LineKept, LineEnds, TaskKept, LateKept, Stream
<1>5. LogKept(p) /\ LogLate(p)
  BY <1>1, <1>2 DEF LogKept, LogLate, Logged
<1>6. SaveKept(p)
  <2>1. ~q.saved
    BY <1>0, <1>2 DEF SaveKept
  <2> QED  BY <2>1 DEF SaveKept
<1>7. TraceKept(p) /\ PutKept(p)
  <2>1. Trace(p) = Trace(q)
    <3>1. CASE p.relay = q.relay /\ p.inbox = q.inbox  BY <3>1 DEF Trace
    <3>2. CASE p.relay = q.inbox /\ p.inbox = <<>>  BY <3>2, <1>0, TraceDrained
    <3> QED  BY <3>1, <3>2
  <2> QED  BY <1>0, <2>1, TraceMoves
<1>8. CompleteKept(p)
  BY <1>1 DEF CompleteKept
<1> QED  BY <1>3, <1>4, <1>5, <1>6, <1>7, <1>8 DEF ReqInv

\* What is known where a handler waits or checks a poll.
LEMMA Stopped ==
  ASSUME IInv, NEW r \in Requests, NEW l \in Stops \ {"over", "store"}, At(r, l)
  PROVE  /\ req[r] \in RequestState(r) /\ ReqInv(r, req[r]) /\ req[r].relay = <<>>
         /\ req[r].put["main"] = <<>> /\ req[r].pc = l /\ l \in Movable /\ req[r].out = "open"
         /\ req[r].task \in TasksAt(l) /\ req[r].budget # "over" /\ req[r].pc # "logOk"
         /\ l \in {"lookup"} => req[r].kind = "ask" /\ req[r].budget = "none"
<1>1. /\ req[r] \in RequestState(r) /\ ReqInv(r, req[r]) /\ req[r].relay = <<>>
      /\ req[r].put["main"] = <<>> /\ req[r].pc = l
  BY IInvParts DEF At
<1>2. l \in Movable /\ l # "over" /\ l # "logOk"
  BY DEF Movable, Labels, Stops, Checks, Waits, Logged, LoggedRejected, LoggedClarify,
     LoggedOk, Replied
<1>3. Placed(req[r]) /\ TaskKept(req[r]) /\ LogLate(req[r])
  BY <1>1 DEF ReqInv
<1>4. req[r].out = "open" /\ req[r].task \in TasksAt(l)
  BY <1>1, <1>2, <1>3 DEF Placed, TaskKept
<1>5. req[r].budget # "over"
  BY <1>1, <1>2, <1>3 DEF LogLate, Movable, Logged, LoggedRejected, Replied
<1>6. l \in {"lookup"} => req[r].kind = "ask" /\ req[r].budget = "none"
  BY <1>1, <1>3 DEF Placed
<1> QED  BY <1>1, <1>2, <1>4, <1>5, <1>6

\* What the poll of a stream drains is relayed, and no line is said.
LEMMA PollKept ==
  ASSUME IInv, NEW r \in Requests, Poll(r)
  PROVE  IInv' /\ Quiet(r)
<1>0. PICK l \in {"sql", "answer"} : At(r, l) /\ Idle
  BY DEF Poll, Waiting
<1>q. PICK q : q = req[r]
  OBVIOUS
<1>1. /\ q \in RequestState(r) /\ ReqInv(r, q) /\ q.relay = <<>> /\ q.put["main"] = <<>>
      /\ q.pc = l /\ l \in Movable /\ q.task \in TasksAt(l) /\ q.budget # "over" /\ Stream(q)
  BY <1>0, <1>q, Stopped DEF Stops, Waits, Poll, IsStream
<1>p. PICK p : p = [q EXCEPT !.relay = q.inbox, !.inbox = <<>>,
           !.pc = IF q.pc = "sql" THEN IF q.task \in Working THEN "sqlOpen" ELSE "sqlDone"
                  ELSE IF q.task \in Working THEN "answerOpen" ELSE "answerDone"]
  OBVIOUS
<1>l. Local(r, p)
  BY <1>p, <1>q DEF Poll
<1>2. /\ p.pc \in Checks /\ p.pc \in Movable /\ p.pc \in Stops
      /\ LinesAt(q.pc) \subseteq LinesAt(p.pc) /\ q.task \in TasksAt(p.pc)
  <2>1. p.pc = IF q.pc = "sql" THEN IF q.task \in Working THEN "sqlOpen" ELSE "sqlDone"
                  ELSE IF q.task \in Working THEN "answerOpen" ELSE "answerDone"
    BY <1>p, <1>1 DEF RequestState
  <2>2. p.pc \in Checks /\ p.pc \in Stops
    BY <2>1 DEF Checks, Stops
  <2>3. p.pc \in Movable
    BY <2>2 DEF Movable, Labels, Stops, Checks, Logged, LoggedRejected, LoggedClarify,
       LoggedOk, Replied
  <2>4. LinesAt(q.pc) \subseteq LinesAt(p.pc)
    BY <2>1, <1>0, <1>1 DEF LinesAt
  <2>5. q.task \in TasksAt(p.pc)
    BY <2>1, <1>0, <1>1 DEF TasksAt, Working, SqlResults
  <2> QED  BY <2>2, <2>3, <2>4, <2>5
<1>3. /\ p \in RequestState(r) /\ p.kind = q.kind /\ p.seq = q.seq /\ p.put = q.put
      /\ p.line = q.line /\ p.traced = q.traced /\ p.out = q.out /\ p.logged = q.logged
      /\ p.saved = q.saved /\ p.relay = q.inbox /\ p.inbox = <<>>
      /\ p.task = q.task /\ p.budget = q.budget /\ p.status = q.status
  <2>1. p.pc \in Labels /\ q.inbox \in Seq(Events(r)) /\ <<>> \in Seq(Events(r))
    BY <1>1, <1>2 DEF Labels, Stops, RequestState
  <2> QED  BY <1>p, <1>1, <2>1 DEF RequestState
<1>4. /\ p.pc \notin {"asked", "lookup", "hit", "reported", "logReported", "logOk", "end"}
      /\ q.pc # "logOk"
  BY <1>2, <1>1, <1>0 DEF Checks
<1>5. ReqInv(r, p)
  BY <1>1, <1>2, <1>3, <1>4, Moving
<1>6. Suspended(p) /\ Ran(q, p)
  BY <1>2, <1>3 DEF Suspended, Ran
<1> QED  BY <1>5, <1>6, <1>3, <1>l, <1>q, LocalKept

\* What a handler that is moved to label n may take with it.
Jump(r, q, n, tk, d, w, b, st) ==
    [q EXCEPT !.pc = n, !.task = tk, !.det = d, !.rows = w, !.budget = b, !.status = st]

\* Moving for a handler that waits at label l, as the actions do it.
LEMMA Jumping ==
  ASSUME IInv, NEW r \in Requests, NEW l \in Stops \ {"over", "store"}, At(r, l),
         NEW n \in Movable \ {"lookup", "logReported", "logOk", "end"},
         LinesAt(l) \subseteq LinesAt(n) \/ ~IsStream(r),
         NEW tk \in TasksAt(n), NEW d \in BOOLEAN, NEW w \in BOOLEAN,
         NEW b \in {"none", "running", "late"}, NEW st \in Statuses \cup {"none"},
         n = "reported" => st # "none",
         n \in {"asked", "hit"} => req[r].kind = "ask" /\ b = "none"
  PROVE  LET p == Jump(r, req[r], n, tk, d, w, b, st)
         IN  ReqInv(r, p) /\ p.seq = req[r].seq /\ p.pc = n /\ Ran(req[r], p)
<1>q. PICK q : q = req[r]
  OBVIOUS
<1>1. /\ q \in RequestState(r) /\ ReqInv(r, q) /\ q.relay = <<>> /\ q.put["main"] = <<>>
      /\ q.pc = l /\ l \in Movable /\ q.pc # "logOk"
  BY <1>q, Stopped
<1>t. tk \in TaskStates /\ n \in Labels
  BY DEF TasksAt, TaskStates, Working, SqlResults, Movable
<1>p. PICK p : p = Jump(r, q, n, tk, d, w, b, st)
  OBVIOUS
<1>2. /\ p \in RequestState(r) /\ p.kind = q.kind /\ p.seq = q.seq /\ p.put = q.put
      /\ p.line = q.line /\ p.traced = q.traced /\ p.out = q.out /\ p.logged = q.logged
      /\ p.saved = q.saved /\ p.relay = q.relay /\ p.inbox = q.inbox
      /\ p.task = tk /\ p.budget = b /\ p.status = st /\ p.pc = n
  BY <1>1, <1>t, <1>p DEF Jump, RequestState
<1>3. ~Stream(q) \/ LinesAt(q.pc) \subseteq LinesAt(p.pc)
  BY <1>1, <1>2, <1>q DEF IsStream
<1>4. ReqInv(r, p)
  <2>1. p.pc \in {"asked", "lookup", "hit"} => p.kind = "ask" /\ p.budget = "none"
    BY <1>2, <1>q
  <2> QED  BY <1>1, <1>2, <1>3, <2>1, Moving
<1> QED  BY <1>2, <1>4, <1>p, <1>q DEF Ran

\* The labels the handlers are moved to.
LEMMA MovableLabels ==
  /\ {"asked", "received", "hit", "missed", "reported", "sqlNotice", "finished", "capped",
      "clarify", "rejected", "lateSql", "executed", "failing", "lateExecute", "answered",
      "answerNotice", "lateAnswer"} \subseteq Movable
  /\ {"sql", "answer", "cancelSql", "cancelAnswer", "lookup"} \subseteq Movable
<1>1. {"asked", "received", "hit", "missed", "reported", "sqlNotice", "finished", "capped",
      "clarify", "rejected", "lateSql", "executed", "failing", "lateExecute", "answered",
      "answerNotice", "lateAnswer"} \subseteq Labels
  BY LabelFacts DEF Generating, Executing, Answering, Rejecting, TimingOutSql,
     TimingOut, Replying
<1>2. {"sql", "answer", "cancelSql", "cancelAnswer", "lookup"} \subseteq Labels
  BY LabelFacts DEF Stops, Waits
<1> QED  BY <1>1, <1>2 DEF Movable, Logged, LoggedRejected, LoggedClarify, LoggedOk, Replied

\* What a handler holds where it waits.
LEMMA Here ==
  ASSUME IInv, NEW r \in Requests, NEW l \in Stops \ {"over", "store"}, At(r, l)
  PROVE  /\ req[r] \in RequestState(r) /\ req[r].task \in TasksAt(l) /\ req[r].pc = l
         /\ req[r].det \in BOOLEAN /\ req[r].rows \in BOOLEAN
         /\ req[r].budget \in {"none", "running", "late"}
         /\ req[r].status \in Statuses \cup {"none"}
         /\ l = "lookup" => req[r].kind = "ask" /\ req[r].budget = "none"
<1>1. /\ req[r] \in RequestState(r) /\ req[r].task \in TasksAt(l) /\ req[r].pc = l
      /\ req[r].budget # "over"
      /\ l = "lookup" => req[r].kind = "ask" /\ req[r].budget = "none"
  BY Stopped
<1> QED  BY <1>1 DEF RequestState

\* A handler that waits goes on at another label.
LEMMA GoToKept ==
  ASSUME IInv, NEW r \in Requests, NEW l \in Stops \ {"over", "store"}, At(r, l),
         NEW n \in Movable \ {"lookup", "logReported", "logOk", "end", "reported", "asked"},
         LinesAt(l) \subseteq LinesAt(n) \/ ~IsStream(r), req[r].task \in TasksAt(n),
         n = "hit" => l = "lookup", GoTo(r, n)
  PROVE  IInv' /\ Quiet(r)
<1>q. PICK q : q = req[r]
  OBVIOUS
<1>1. /\ q \in RequestState(r) /\ q.det \in BOOLEAN /\ q.rows \in BOOLEAN
      /\ q.budget \in {"none", "running", "late"} /\ q.status \in Statuses \cup {"none"}
      /\ n = "hit" => q.kind = "ask" /\ q.budget = "none"
  BY <1>q, Here
<1>p. PICK p : p = Jump(r, q, n, q.task, q.det, q.rows, q.budget, q.status)
  OBVIOUS
<1>2. Continue(r, p)
  <2>1. p = [q EXCEPT !.pc = n]
    BY <1>1, <1>p DEF Jump, RequestState
  <2> QED  BY <2>1, <1>q DEF GoTo
<1>3. ReqInv(r, p) /\ p.seq = q.seq /\ Ran(q, p)
  BY <1>1, <1>p, <1>q, Jumping
<1> QED  BY <1>2, <1>3, <1>q, ContinueKept

\* A poll within the budget.
LEMMA CheckEarlyKept ==
  ASSUME IInv, NEW r \in Requests, CheckEarly(r)
  PROVE  IInv' /\ Quiet(r)
<1>1. PICK l \in {"sqlOpen", "answerOpen"}, n \in {"sql", "sqlNotice", "answer", "answerNotice"} :
          /\ At(r, l) /\ GoTo(r, n)
          /\ l = "sqlOpen" <=> n \in {"sql", "sqlNotice"}
  BY DEF CheckEarly
<1>2. /\ l \in Stops \ {"over", "store"}
      /\ n \in Movable \ {"lookup", "logReported", "logOk", "end", "reported", "asked"}
  BY MovableLabels DEF Stops, Checks
<1>3. LinesAt(l) \subseteq LinesAt(n) /\ TasksAt(l) \subseteq TasksAt(n)
  BY <1>1 DEF LinesAt, TasksAt
<1>4. req[r].task \in TasksAt(n)
  BY <1>1, <1>2, <1>3, Here
<1> QED  BY <1>1, <1>2, <1>3, <1>4, GoToKept

\* A hit of a cache of /ask.
LEMMA AskHitKept ==
  ASSUME IInv, NEW r \in Requests, AskHit(r)
  PROVE  IInv' /\ Quiet(r)
<1>1. At(r, "lookup") /\ GoTo(r, "hit") /\ "lookup" \in Stops \ {"over", "store"}
  BY DEF AskHit, Waiting, Stops, Waits
<1>2. /\ LinesAt("lookup") \subseteq LinesAt("hit") /\ TasksAt("lookup") \subseteq TasksAt("hit")
      /\ "hit" \in Movable \ {"lookup", "logReported", "logOk", "end", "reported", "asked"}
  BY MovableLabels DEF LinesAt, TasksAt
<1>3. req[r].task \in TasksAt("hit")
  BY <1>1, <1>2, Here
<1> QED  BY <1>1, <1>2, <1>3, GoToKept

\* The execution of the SQL of a stream times out.
LEMMA ExecuteTimesOutKept ==
  ASSUME IInv, NEW r \in Requests, ExecuteTimesOut(r)
  PROVE  IInv' /\ Quiet(r)
<1>1. At(r, "execute") /\ GoTo(r, "lateExecute") /\ "execute" \in Stops \ {"over", "store"}
  BY DEF ExecuteTimesOut, Waiting, Stops, Waits
<1>2. /\ LinesAt("execute") \subseteq LinesAt("lateExecute")
      /\ TasksAt("execute") \subseteq TasksAt("lateExecute")
      /\ "lateExecute" \in Movable \ {"lookup", "logReported", "logOk", "end", "reported", "asked"}
  BY MovableLabels DEF LinesAt, TasksAt
<1>3. req[r].task \in TasksAt("lateExecute")
  BY <1>1, <1>2, Here
<1> QED  BY <1>1, <1>2, <1>3, GoToKept

\* A poll over the budget cancels the task.
LEMMA CheckLateKept ==
  ASSUME IInv, NEW r \in Requests, CheckLate(r)
  PROVE  IInv' /\ Quiet(r)
<1>q. PICK q : q = req[r]
  OBVIOUS
<1>1. PICK l \in {"sqlOpen", "answerOpen"} : At(r, l)
  BY DEF CheckLate
<1>2. l \in Stops \ {"over", "store"}
  BY DEF Stops, Checks
<1>3. /\ q \in RequestState(r) /\ q.det \in BOOLEAN /\ q.rows \in BOOLEAN /\ q.pc = l
      /\ q.task \in TasksAt(l)
      /\ q.budget \in {"none", "running", "late"} /\ q.status \in Statuses \cup {"none"}
  BY <1>1, <1>2, <1>q, Here
<1>n. PICK n, tk : /\ n = IF l = "sqlOpen" THEN "cancelSql" ELSE "cancelAnswer"
                   /\ tk = IF q.task \in Working THEN "cancelling" ELSE q.task
  OBVIOUS
<1>p. PICK p : p = Jump(r, q, n, tk, q.det, q.rows, q.budget, q.status)
  OBVIOUS
<1>4. Local(r, p)
  <2>1. p = [q EXCEPT !.pc = n, !.task = tk]
    BY <1>3, <1>p DEF Jump, RequestState
  <2> QED  BY <2>1, <1>1, <1>3, <1>n, <1>q DEF CheckLate
<1>5. /\ LinesAt(l) \subseteq LinesAt(n) /\ tk \in TasksAt(n) /\ n \in Stops
      /\ n \in Movable \ {"lookup", "logReported", "logOk", "end", "reported", "asked", "hit"}
  <2>1. LinesAt(l) \subseteq LinesAt(n)
    BY <1>n DEF LinesAt
  <2>2. tk \in TasksAt(n)
    BY <1>n, <1>3 DEF TasksAt, Working, SqlResults
  <2> QED  BY <2>1, <2>2, <1>n, MovableLabels DEF Stops, Waits
<1>6. ReqInv(r, p) /\ p.seq = q.seq /\ Ran(q, p) /\ p.pc = n
  BY <1>1, <1>2, <1>3, <1>5, <1>p, <1>q, Jumping
<1>7. Suspended(p)
  BY <1>5, <1>6 DEF Suspended
<1> QED  BY <1>4, <1>6, <1>7, <1>q, LocalKept

\* A handler that waits goes on at another label, and changes more.
LEMMA JumpKept ==
  ASSUME IInv, NEW r \in Requests, NEW l \in Stops \ {"over", "store"}, At(r, l),
         NEW n \in Movable \ {"lookup", "logReported", "logOk", "end"},
         LinesAt(l) \subseteq LinesAt(n) \/ ~IsStream(r),
         NEW tk \in TasksAt(n), NEW d \in BOOLEAN, NEW w \in BOOLEAN,
         NEW b \in {"none", "running", "late"}, NEW st \in Statuses \cup {"none"},
         n = "reported" => st # "none",
         n \in {"asked", "hit"} => req[r].kind = "ask" /\ b = "none",
         NEW p, p = Jump(r, req[r], n, tk, d, w, b, st), Continue(r, p)
  PROVE  IInv' /\ Quiet(r)
BY Jumping, ContinueKept

\* A request arrives.
LEMMA ArriveKept ==
  ASSUME IInv, NEW r \in Requests, Arrive(r)
  PROVE  IInv' /\ Quiet(r)
<1>q. PICK q : q = req[r]
  OBVIOUS
<1>1. At(r, "new") /\ "new" \in Stops \ {"over", "store"}
  BY DEF Arrive, Waiting, Stops, Waits
<1>3. /\ q \in RequestState(r) /\ q.det \in BOOLEAN /\ q.rows \in BOOLEAN
      /\ q.task \in TasksAt("new") /\ q.status \in Statuses \cup {"none"}
  BY <1>1, <1>q, Here
<1>n. PICK n, b : /\ n = IF q.kind = "ask" THEN "asked" ELSE "received"
                  /\ b = IF Stream(q) THEN "running" ELSE "none"
  OBVIOUS
<1>p. PICK p : p = Jump(r, q, n, q.task, q.det, q.rows, b, q.status)
  OBVIOUS
<1>4. Continue(r, p)
  <2>1. p = [q EXCEPT !.budget = b, !.pc = n]
    BY <1>3, <1>p DEF Jump, RequestState
  <2> QED  BY <2>1, <1>n, <1>q DEF Arrive, IsStream
<1>5. /\ LinesAt("new") \subseteq LinesAt(n) \/ ~IsStream(r)
      /\ q.task \in TasksAt(n) /\ b \in {"none", "running", "late"}
      /\ n \in Movable \ {"lookup", "logReported", "logOk", "end", "reported", "hit"}
      /\ n = "asked" => q.kind = "ask" /\ b = "none"
  <2>1. LinesAt("new") \subseteq LinesAt(n) \/ ~IsStream(r)
    BY <1>n, <1>q DEF LinesAt, IsStream, Stream
  <2>2. q.task \in TasksAt(n)
    BY <1>n, <1>3 DEF TasksAt
  <2> QED  BY <2>1, <2>2, <1>n, MovableLabels DEF Stream
<1> QED  BY <1>1, <1>3, <1>4, <1>5, <1>p, <1>q, JumpKept

\* No cache of /ask answers.
LEMMA AskMissKept ==
  ASSUME IInv, NEW r \in Requests, AskMiss(r)
  PROVE  IInv' /\ Quiet(r)
<1>q. PICK q : q = req[r]
  OBVIOUS
<1>1. At(r, "lookup") /\ "lookup" \in Stops \ {"over", "store"}
  BY DEF AskMiss, Waiting, Stops, Waits
<1>3. /\ q \in RequestState(r) /\ q.det \in BOOLEAN /\ q.rows \in BOOLEAN
      /\ q.task \in TasksAt("lookup") /\ q.status \in Statuses \cup {"none"} /\ q.kind = "ask"
  BY <1>1, <1>q, Here
<1>p. PICK p : p = Jump(r, q, "missed", q.task, q.det, q.rows, "running", q.status)
  OBVIOUS
<1>4. Continue(r, p)
  <2>1. p = [q EXCEPT !.budget = "running", !.pc = "missed"]
    BY <1>3, <1>p DEF Jump, RequestState
  <2> QED  BY <2>1, <1>q DEF AskMiss
<1>5. /\ LinesAt("lookup") \subseteq LinesAt("missed") /\ q.task \in TasksAt("missed")
      /\ "missed" \in Movable \ {"lookup", "logReported", "logOk", "end"}
  BY <1>3, MovableLabels DEF LinesAt, TasksAt
<1> QED  BY <1>1, <1>3, <1>4, <1>5, <1>p, <1>q, JumpKept

\* The SQL was executed, or rejected by the database.
LEMMA ExecutedKept ==
  ASSUME IInv, NEW r \in Requests, Executed(r)
  PROVE  IInv' /\ Quiet(r)
<1>q. PICK q : q = req[r]
  OBVIOUS
<1>1. At(r, "execute") /\ "execute" \in Stops \ {"over", "store"}
  BY DEF Executed, Waiting, Stops, Waits
<1>3. /\ q \in RequestState(r) /\ q.det \in BOOLEAN /\ q.budget \in {"none", "running", "late"}
      /\ q.task \in TasksAt("execute") /\ q.status \in Statuses \cup {"none"}
  BY <1>1, <1>q, Here
<1>2. PICK ok \in BOOLEAN, some \in BOOLEAN :
         Continue(r, [q EXCEPT !.rows = ok /\ some, !.pc = IF ok THEN "executed" ELSE "failing"])
  BY <1>q DEF Executed
<1>n. PICK n : n = IF ok THEN "executed" ELSE "failing"
  OBVIOUS
<1>w. PICK w : w = (ok /\ some)
  OBVIOUS
<1>b. w \in BOOLEAN
  BY <1>w
<1>p. PICK p : p = Jump(r, q, n, q.task, q.det, w, q.budget, q.status)
  OBVIOUS
<1>4. Continue(r, p)
  <2>1. p = [q EXCEPT !.rows = w, !.pc = n]
    BY <1>3, <1>p DEF Jump, RequestState
  <2> QED  BY <2>1, <1>2, <1>n, <1>w
<1>5. /\ LinesAt("execute") \subseteq LinesAt(n) /\ q.task \in TasksAt(n)
      /\ n \in Movable \ {"lookup", "logReported", "logOk", "end", "reported", "asked", "hit"}
  BY <1>n, <1>3, MovableLabels DEF LinesAt, TasksAt
<1> QED  BY <1>1, <1>3, <1>4, <1>5, <1>b, <1>p, <1>q, JumpKept

\* A step in which the answer to r breaks off.
Broken(r) ==
    /\ \A x \in Requests \ {r} : req'[x] = req[x]
    /\ req[r].out = "open" /\ req'[r].out = "broken"
    /\ req'[r].kind = req[r].kind /\ req'[r].line = req[r].line
    /\ Stream(req[r]) => req[r].line \in SqlLines \cup AnswerLines

\* An error of a task, or of the cache look-up of /ask, leaves the handler.
LEMMA BreaksKept ==
  ASSUME IInv, NEW r \in Requests,
         NEW l \in {"sql", "answer", "sqlDone", "answerDone", "cancelSql", "cancelAnswer",
                    "lookup"},
         At(r, l), l # "lookup" => req[r].task = "raised", Breaks(r)
  PROVE  IInv' /\ Broken(r)
<1>q. PICK q : q = req[r]
  OBVIOUS
<1>1. /\ q \in RequestState(r) /\ ReqInv(r, q) /\ q.relay = <<>> /\ q.put["main"] = <<>>
      /\ q.pc = l /\ l \in Movable /\ q.pc # "logOk" /\ q.out = "open" /\ q.budget # "over"
      /\ q.task \in {"none", "raised"} /\ (l = "lookup" => q.kind = "ask")
  <2>1. l \in Stops \ {"over", "store"}  BY DEF Stops, Checks, Waits
  <2>2. TasksAt("lookup") = {"none"}  BY DEF TasksAt
  <2> QED  BY <2>1, <2>2, <1>q, Stopped
<1>2. /\ Placed(q) /\ LineKept(q) /\ LineEnds(q) /\ LogKept(q) /\ SaveKept(q) /\ TraceKept(q)
      /\ PutKept(q)
  BY <1>1 DEF ReqInv
<1>p. PICK p : p = [q EXCEPT !.out = "broken", !.pc = "over"]
  OBVIOUS
<1>3. /\ p \in RequestState(r) /\ p.kind = q.kind /\ p.seq = q.seq /\ p.put = q.put
      /\ p.line = q.line /\ p.traced = q.traced /\ p.logged = q.logged /\ p.task = q.task
      /\ p.saved = q.saved /\ p.relay = q.relay /\ p.inbox = q.inbox /\ p.rows = q.rows
      /\ p.budget = q.budget /\ p.status = q.status /\ p.pc = "over" /\ p.out = "broken"
  BY <1>1, <1>p DEF RequestState, Labels, Stops, Waits
<1>4. Placed(p) /\ LineKept(p) /\ LineEnds(p) /\ TaskKept(p) /\ LateKept(p)
  BY <1>1, <1>2, <1>3 DEF Placed, LineKept, LineEnds, TaskKept, LateKept, Stream
<1>5. LogKept(p) /\ LogLate(p)
  <2>1. Len(p.logged) <= 1
    BY <1>1, <1>2, <1>3 DEF LogKept
  <2> QED  BY <2>1, <1>1, <1>3
          DEF LogKept, LogLate, LoggedRejected, LoggedClarify, LoggedOk, Replied
<1>6. SaveKept(p)
  BY <1>1, <1>2, <1>3 DEF SaveKept
<1>7. TraceKept(p) /\ PutKept(p)
  <2>1. Trace(p) = Trace(q)  BY <1>3 DEF Trace
  <2> QED  BY <2>1, <1>1, <1>2, <1>3, TraceMoves
<1>8. CompleteKept(p)
  BY <1>3 DEF CompleteKept
<1>9. ReqInv(r, p)
  BY <1>3, <1>4, <1>5, <1>6, <1>7, <1>8 DEF ReqInv
<1>10. Suspended(p) /\ Local(r, p)
  BY <1>3, <1>p, <1>q DEF Suspended, Stops, Waits, Breaks
<1>11. Stream(q) => q.line \in SqlLines \cup AnswerLines
  <2>1. Stream(q) => l # "lookup"  BY <1>1 DEF Stream
  <2> QED  BY <2>1, <1>1, <1>2 DEF LineKept, LinesAt
<1> QED  BY <1>1, <1>3, <1>9, <1>10, <1>11, <1>q, LocalKept DEF Broken

\* The result of a task, or its error.
LEMMA TaskDoneKept ==
  ASSUME IInv, NEW r \in Requests, NEW l \in {"sql", "answer", "sqlDone", "answerDone"},
         At(r, l), TaskDone(r)
  PROVE  IInv' /\ (Quiet(r) \/ Broken(r))
<1>q. PICK q : q = req[r]
  OBVIOUS
<1>1. l \in Stops \ {"over", "store"}
  BY DEF Stops, Checks, Waits
<1>2. /\ q \in RequestState(r) /\ q.det \in BOOLEAN /\ q.rows \in BOOLEAN
      /\ q.budget \in {"none", "running", "late"}
      /\ q.task \in TasksAt(l) /\ q.status \in Statuses \cup {"none"}
  BY <1>1, <1>q, Here
<1>3. CASE q.task = "raised" /\ Breaks(r)
  BY <1>3, <1>q, BreaksKept
<1>4. CASE q.task \in SqlResults
  <2>1. PICK n \in AfterSql(r, q.task) :
             Continue(r, [q EXCEPT !.task = "none", !.det = (q.task = "deterministic"),
                    !.status = IF n = "reported" THEN StatusOf(q.task) ELSE "none", !.pc = n])
    BY <1>4, <1>q DEF TaskDone, SqlResults
  <2>d. PICK d : d = (q.task = "deterministic")
    OBVIOUS
  <2>b. d \in BOOLEAN
    BY <2>d
  <2>s. PICK st : st = IF n = "reported" THEN StatusOf(q.task) ELSE "none"
    OBVIOUS
  <2>t. st \in Statuses \cup {"none"} /\ (n = "reported" => st # "none")
    BY <2>s DEF StatusOf, Statuses
  <2>p. PICK p : p = Jump(r, q, n, "none", d, q.rows, q.budget, st)
    OBVIOUS
  <2>2. Continue(r, p)
    <3>1. p = [q EXCEPT !.task = "none", !.det = d, !.status = st, !.pc = n]
      BY <1>2, <2>p DEF Jump, RequestState
    <3> QED  BY <3>1, <2>1, <2>d, <2>s
  <2>3. /\ n \in {"reported", "clarify", "rejected", "finished", "capped"}
        /\ n = "reported" => ~Stream(q)
    BY <1>q DEF AfterSql, Stream
  <2>4. l \in {"sql", "sqlDone"}
    BY <1>2, <1>4 DEF TasksAt, SqlResults
  <2>5. LinesAt(l) \subseteq LinesAt(n) \/ ~IsStream(r)
    BY <2>3, <2>4, <1>q DEF LinesAt, IsStream
  <2>6. "none" \in TasksAt(n)
    BY <2>3 DEF TasksAt
  <2>7. n \in Movable \ {"lookup", "logReported", "logOk", "end", "asked", "hit"}
    BY <2>3, MovableLabels
  <2> QED  BY <1>1, <1>2, <2>b, <2>t, <2>p, <2>2, <2>5, <2>6, <2>7, <1>q, JumpKept
<1>5. CASE q.task = "text"
  <2>1. Continue(r, [q EXCEPT !.task = "none", !.pc = "answered"])
    BY <1>5, <1>q DEF TaskDone, SqlResults
  <2>p. PICK p : p = Jump(r, q, "answered", "none", q.det, q.rows, q.budget, q.status)
    OBVIOUS
  <2>2. Continue(r, p)
    <3>1. p = [q EXCEPT !.task = "none", !.pc = "answered"]
      BY <1>2, <2>p DEF Jump, RequestState
    <3> QED  BY <3>1, <2>1
  <2>4. l \in {"answer", "answerDone"}
    BY <1>2, <1>5 DEF TasksAt, SqlResults
  <2>5. LinesAt(l) \subseteq LinesAt("answered") /\ "none" \in TasksAt("answered")
    BY <2>4 DEF LinesAt, TasksAt
  <2>7. "answered" \in Movable \ {"lookup", "logReported", "logOk", "end"}
    BY MovableLabels
  <2> QED  BY <1>1, <1>2, <2>p, <2>2, <2>5, <2>7, <1>q, JumpKept
<1> QED  BY <1>3, <1>4, <1>5, <1>q DEF TaskDone

\* The same where the task is simply awaited.
LEMMA AwaitTaskKept ==
  ASSUME IInv, NEW r \in Requests, AwaitTask(r)
  PROVE  IInv' /\ (Quiet(r) \/ Broken(r))
BY TaskDoneKept DEF AwaitTask, Waiting

\* The same behind a poll.
LEMMA CheckDoneKept ==
  ASSUME IInv, NEW r \in Requests, CheckDone(r)
  PROVE  IInv' /\ (Quiet(r) \/ Broken(r))
BY TaskDoneKept DEF CheckDone

\* A cancelled task has ended, in whatever way.
LEMMA AwaitCancelledKept ==
  ASSUME IInv, NEW r \in Requests, AwaitCancelled(r)
  PROVE  IInv' /\ (Quiet(r) \/ Broken(r))
<1>q. PICK q : q = req[r]
  OBVIOUS
<1>0. PICK l \in {"cancelSql", "cancelAnswer"} : At(r, l)
  BY DEF AwaitCancelled, Waiting
<1>1. l \in Stops \ {"over", "store"}
  BY DEF Stops, Checks, Waits
<1>2. /\ q \in RequestState(r) /\ q.det \in BOOLEAN /\ q.rows \in BOOLEAN /\ q.pc = l
      /\ q.budget \in {"none", "running", "late"} /\ q.status \in Statuses \cup {"none"}
  BY <1>0, <1>1, <1>q, Here
<1>3. CASE q.task = "raised" /\ Breaks(r)
  BY <1>0, <1>3, <1>q, BreaksKept
<1>4. CASE q.task # "raised"
  <2>n. PICK n : n = IF l = "cancelSql" THEN "lateSql" ELSE "lateAnswer"
    OBVIOUS
  <2>p. PICK p : p = Jump(r, q, n, "none", q.det, q.rows, q.budget, q.status)
    OBVIOUS
  <2>2. Continue(r, p)
    <3>1. p = [q EXCEPT !.task = "none", !.pc = n]
      BY <1>2, <2>p DEF Jump, RequestState
    <3> QED  BY <3>1, <1>2, <1>4, <2>n, <1>q DEF AwaitCancelled
  <2>5. LinesAt(l) \subseteq LinesAt(n) /\ "none" \in TasksAt(n)
    BY <2>n DEF LinesAt, TasksAt
  <2>7. n \in Movable \ {"lookup", "logReported", "logOk", "end", "reported", "asked", "hit"}
    BY <2>n, MovableLabels
  <2> QED  BY <1>0, <1>1, <1>2, <2>p, <2>2, <2>5, <2>7, <1>q, JumpKept
<1> QED  BY <1>3, <1>4, <1>q DEF AwaitCancelled

\* The look-up of the caches of /ask raises.
LEMMA LookupRaisesKept ==
  ASSUME IInv, NEW r \in Requests, LookupRaises(r)
  PROVE  IInv' /\ Broken(r)
BY BreaksKept DEF LookupRaises, Waiting

\* The answer is in the caches of /ask.
LEMMA StoredKept ==
  ASSUME IInv, NEW r \in Requests, Stored(r)
  PROVE  IInv' /\ Quiet(r)
<1>q. PICK q : q = req[r]
  OBVIOUS
<1>1. /\ q \in RequestState(r) /\ ReqInv(r, q) /\ q.relay = <<>> /\ q.put["main"] = <<>>
      /\ q.pc = "store"
  BY <1>q, IInvParts DEF Stored, Waiting, At
<1>2. /\ Placed(q) /\ LineKept(q) /\ LineEnds(q) /\ LogKept(q) /\ SaveKept(q) /\ TraceKept(q)
      /\ PutKept(q) /\ TaskKept(q) /\ LogLate(q)
  BY <1>1 DEF ReqInv
<1>p. PICK p : p = [q EXCEPT !.pc = "stored"]
  OBVIOUS
<1>s. "stored" \in Labels
  BY LabelFacts DEF Answering
<1>3. /\ p \in RequestState(r) /\ p.kind = q.kind /\ p.seq = q.seq /\ p.put = q.put
      /\ p.line = q.line /\ p.traced = q.traced /\ p.logged = q.logged /\ p.task = q.task
      /\ p.saved = q.saved /\ p.relay = q.relay /\ p.inbox = q.inbox /\ p.rows = q.rows
      /\ p.budget = q.budget /\ p.status = q.status /\ p.pc = "stored" /\ p.out = q.out
  BY <1>1, <1>p, <1>s DEF RequestState
<1>4. Placed(p) /\ LineKept(p) /\ LineEnds(p) /\ TaskKept(p) /\ LateKept(p)
  <2>1. TasksAt("stored") = TasksAt("store") /\ LinesAt("store") \subseteq LinesAt("stored")
    BY DEF TasksAt, LinesAt
  <2> QED  BY <2>1, <1>1, <1>2, <1>3 DEF Placed, LineKept, LineEnds, TaskKept, LateKept, Stream
<1>5. LogKept(p) /\ LogLate(p)
  BY <1>1, <1>2, <1>3
  DEF LogKept, LogLate, LoggedRejected, LoggedClarify, LoggedOk, Replied, Placed
<1>6. SaveKept(p)
  BY <1>1, <1>2, <1>3 DEF SaveKept
<1>7. TraceKept(p) /\ PutKept(p)
  <2>1. Trace(p) = Trace(q)  BY <1>3 DEF Trace
  <2> QED  BY <2>1, <1>1, <1>2, <1>3, TraceMoves
<1>8. CompleteKept(p)
  BY <1>1, <1>2, <1>3 DEF CompleteKept, Placed
<1>9. ReqInv(r, p)
  BY <1>3, <1>4, <1>5, <1>6, <1>7, <1>8 DEF ReqInv
<1>10. Continue(r, p) /\ Ran(q, p)
  BY <1>3, <1>p, <1>q DEF Stored, GoTo, Ran
<1> QED  BY <1>3, <1>9, <1>10, <1>q, ContinueKept

----------------------------------------------------------------------------
(* What runs beside a handler.                                              *)
\* Pending events may be given up.
LEMMA TraceDropped ==
  ASSUME NEW r \in Requests, NEW q \in RequestState(r), NEW p \in RequestState(r),
         TraceKept(q), PutKept(q),
         p.kind = q.kind, p.seq = q.seq, p.traced = q.traced, p.relay = q.relay,
         p.inbox = q.inbox, p.out = q.out,
         \A w \in Emitters : p.put[w] = q.put[w] \/ p.put[w] = <<>>
  PROVE  TraceKept(p) /\ PutKept(p)
<1>1. PutKept(p)
  BY DEF PutKept
<1>2. Trace(p) = Trace(q)
  BY DEF Trace
<1>3. TraceKept(p)
  BY <1>2 DEF TraceKept, Stream
<1> QED  BY <1>1, <1>3

\* A step beside the handler that emits nothing.
LEMMA BesideHandler ==
  ASSUME NEW r \in Requests, NEW q, NEW p, ReqInv(r, q), p \in RequestState(r), TaskKept(p),
         p.kind = q.kind, p.pc = q.pc, p.relay = q.relay, p.rows = q.rows, p.inbox = q.inbox,
         p.line = q.line, p.traced = q.traced, p.out = q.out, p.status = q.status,
         p.logged = q.logged, p.saved = q.saved, p.seq = q.seq, p.budget = q.budget,
         p.put["main"] = q.put["main"],
         \A w \in Emitters : p.put[w] = q.put[w] \/ p.put[w] = <<>>
  PROVE  ReqInv(r, p) /\ (Suspended(q) => Suspended(p)) /\ Ran(q, p)
<1>0. /\ Placed(q) /\ LineKept(q) /\ LineEnds(q) /\ LogKept(q) /\ SaveKept(q) /\ TraceKept(q)
      /\ PutKept(q) /\ TaskKept(q) /\ LogLate(q) /\ LateKept(q) /\ CompleteKept(q)
      /\ q \in RequestState(r)
  BY DEF ReqInv
<1>1. Placed(p) /\ LineKept(p) /\ LineEnds(p) /\ LateKept(p) /\ SaveKept(p)
  BY <1>0 DEF Placed, LineKept, LineEnds, LateKept, SaveKept, Stream
<1>2. LogKept(p) /\ LogLate(p)
  BY <1>0 DEF LogKept, LogLate, Hit
<1>3. TraceKept(p) /\ PutKept(p)
  BY <1>0, TraceDropped
<1>4. CompleteKept(p)
  BY <1>0 DEF CompleteKept, Stream
<1>5. Suspended(q) => Suspended(p)
  BY DEF Suspended, Stream
<1> QED  BY <1>1, <1>2, <1>3, <1>4, <1>5 DEF ReqInv, Ran

\* A task ends.
LEMMA TaskEndsKept ==
  ASSUME IInv, NEW r \in Requests, TaskEnds(r)
  PROVE  IInv' /\ Quiet(r)
<1>q. PICK q : q = req[r]
  OBVIOUS
<1>1. q \in RequestState(r) /\ ReqInv(r, q) /\ Suspended(q) /\ TaskKept(q)
  BY <1>q, IInvParts DEF ReqInv
<1>2. /\ q.task \in Working
      /\ \E res \in (IF q.task = "answer" THEN {"text"} ELSE SqlResults) \cup {"raised"} :
            Local(r, [q EXCEPT !.task = res])
  BY <1>q DEF TaskEnds
<1>3. PICK res \in (IF q.task = "answer" THEN {"text"} ELSE SqlResults) \cup {"raised"} :
            Local(r, [q EXCEPT !.task = res])
  BY <1>2
<1>p. PICK p : p = [q EXCEPT !.task = res]
  OBVIOUS
<1>4. /\ p \in RequestState(r) /\ p.kind = q.kind /\ p.pc = q.pc /\ p.relay = q.relay
      /\ p.rows = q.rows /\ p.inbox = q.inbox
      /\ p.line = q.line /\ p.traced = q.traced /\ p.out = q.out /\ p.status = q.status
      /\ p.logged = q.logged /\ p.saved = q.saved /\ p.seq = q.seq /\ p.budget = q.budget
      /\ p.put = q.put /\ p.task = res
  <2>1. res \in TaskStates  BY DEF TaskStates, SqlResults
  <2> QED  BY <1>1, <1>p, <2>1 DEF RequestState
<1>5. TaskKept(p)
  <2>1. q.out \in {"open", "closed"} => res \in TasksAt(q.pc)
    BY <1>1, <1>2 DEF TaskKept, TasksAt, Working, SqlResults
  <2>2. q.out # "broken"
    BY <1>1, <1>2 DEF TaskKept, Working
  <2> QED  BY <2>1, <2>2, <1>4 DEF TaskKept
<1>6. ReqInv(r, p) /\ Suspended(p) /\ Ran(q, p)
  BY <1>1, <1>4, <1>5, BesideHandler
<1> QED  BY <1>3, <1>4, <1>6, <1>p, <1>q, LocalKept

\* A cancelled task ends.
LEMMA CancelLandsKept ==
  ASSUME IInv, NEW r \in Requests, CancelLands(r)
  PROVE  IInv' /\ Quiet(r)
<1>q. PICK q : q = req[r]
  OBVIOUS
<1>1. q \in RequestState(r) /\ ReqInv(r, q) /\ Suspended(q) /\ TaskKept(q)
  BY <1>q, IInvParts DEF ReqInv
<1>2. PICK res \in {"cancelled", "raised"} :
            Local(r, [q EXCEPT !.task = res, !.put["task"] = <<>>])
  BY <1>q DEF CancelLands
<1>3. q.task = "cancelling"
  BY <1>q DEF CancelLands
<1>p. PICK p : p = [q EXCEPT !.task = res, !.put["task"] = <<>>]
  OBVIOUS
<1>4. /\ p \in RequestState(r) /\ p.kind = q.kind /\ p.pc = q.pc /\ p.relay = q.relay
      /\ p.rows = q.rows /\ p.inbox = q.inbox
      /\ p.line = q.line /\ p.traced = q.traced /\ p.out = q.out /\ p.status = q.status
      /\ p.logged = q.logged /\ p.saved = q.saved /\ p.seq = q.seq /\ p.budget = q.budget
      /\ p.put = [q.put EXCEPT !["task"] = <<>>] /\ p.task = res
  <2>1. res \in TaskStates  BY DEF TaskStates
  <2> QED  BY <1>1, <1>p, <2>1 DEF RequestState
<1>u. /\ p.put["main"] = q.put["main"]
      /\ \A w \in Emitters : p.put[w] = q.put[w] \/ p.put[w] = <<>>
  BY <1>1, <1>4 DEF RequestState, Emitters
<1>5. TaskKept(p)
  <2>1. q.out \in {"open", "closed"} => res \in TasksAt(q.pc)
    BY <1>1, <1>3 DEF TaskKept, TasksAt, SqlResults
  <2>2. q.out # "broken"
    BY <1>1, <1>3 DEF TaskKept
  <2> QED  BY <2>1, <2>2, <1>4 DEF TaskKept
<1>6. ReqInv(r, p) /\ Suspended(p) /\ Ran(q, p)
  BY <1>1, <1>4, <1>5, <1>u, BesideHandler
<1> QED  BY <1>2, <1>4, <1>6, <1>p, <1>q, LocalKept
Begun(q, w, b) == [q EXCEPT !.bg[w] = b]

\* The failure log goes on, beside everything else.
LEMMA OnlyBg ==
  ASSUME NEW r \in Requests, NEW q, ReqInv(r, q), NEW w \in Writers,
         NEW b \in {"idle", "begin", "write", "end"}
  PROVE  /\ ReqInv(r, Begun(q, w, b)) /\ (Suspended(q) => Suspended(Begun(q, w, b)))
         /\ Ran(q, Begun(q, w, b)) /\ Begun(q, w, b).seq = q.seq
<1>p. PICK p : p = Begun(q, w, b)
  OBVIOUS
<1>1. q \in RequestState(r) /\ TaskKept(q)
  BY DEF ReqInv
<1>4. /\ p \in RequestState(r) /\ p.kind = q.kind /\ p.pc = q.pc /\ p.relay = q.relay
      /\ p.rows = q.rows /\ p.inbox = q.inbox
      /\ p.line = q.line /\ p.traced = q.traced /\ p.out = q.out /\ p.status = q.status
      /\ p.logged = q.logged /\ p.saved = q.saved /\ p.seq = q.seq /\ p.budget = q.budget
      /\ p.put = q.put /\ p.task = q.task
  BY <1>1, <1>p DEF RequestState, Begun
<1>5. TaskKept(p)
  BY <1>1, <1>4 DEF TaskKept
<1>6. ReqInv(r, p) /\ (Suspended(q) => Suspended(p)) /\ Ran(q, p)
  BY <1>1, <1>4, <1>5, BesideHandler
<1> QED  BY <1>4, <1>6, <1>p

\* The row of the failure log is written.
LEMMA FailureWritesKept ==
  ASSUME IInv, NEW r \in Requests, NEW w \in Writers, FailureWrites(r, w)
  PROVE  IInv' /\ Quiet(r)
<1>1. ReqInv(r, req[r]) /\ Suspended(req[r])
  BY IInvParts
<1>p. PICK p : p = Begun(req[r], w, "end")
  OBVIOUS
<1>2. Local(r, p)
  BY <1>p DEF FailureWrites, Begun
<1>3. ReqInv(r, p) /\ Suspended(p) /\ Ran(req[r], p) /\ p.seq = req[r].seq
  BY <1>1, <1>p, OnlyBg
<1> QED  BY <1>2, <1>3, LocalKept

\* The time of a request passes.
LEMMA TickKept ==
  ASSUME IInv, NEW r \in Requests, Tick(r)
  PROVE  IInv' /\ Quiet(r)
<1>q. PICK q : q = req[r]
  OBVIOUS
<1>1. /\ q \in RequestState(r) /\ ReqInv(r, q) /\ Suspended(q) /\ q.budget = "running"
      /\ q.out = "open"
  BY <1>q, IInvParts DEF Tick
<1>2. /\ Placed(q) /\ LineKept(q) /\ LineEnds(q) /\ LogKept(q) /\ SaveKept(q) /\ TraceKept(q)
      /\ PutKept(q) /\ TaskKept(q) /\ LogLate(q) /\ LateKept(q) /\ CompleteKept(q)
  BY <1>1 DEF ReqInv
<1>p. PICK p : p = [q EXCEPT !.budget = "late"]
  OBVIOUS
<1>3. /\ p \in RequestState(r) /\ p.kind = q.kind /\ p.seq = q.seq /\ p.put = q.put
      /\ p.line = q.line /\ p.traced = q.traced /\ p.logged = q.logged /\ p.task = q.task
      /\ p.saved = q.saved /\ p.relay = q.relay /\ p.inbox = q.inbox /\ p.rows = q.rows
      /\ p.budget = "late" /\ p.status = q.status /\ p.pc = q.pc /\ p.out = q.out
  BY <1>1, <1>p DEF RequestState
<1>4. Placed(p) /\ LineKept(p) /\ LineEnds(p) /\ TaskKept(p) /\ LateKept(p) /\ SaveKept(p)
  BY <1>1, <1>2, <1>3 DEF Placed, LineKept, LineEnds, TaskKept, LateKept, Stream, SaveKept
<1>5. LogKept(p) /\ LogLate(p)
  BY <1>1, <1>2, <1>3 DEF LogKept, LogLate, Hit
<1>7. TraceKept(p) /\ PutKept(p)
  <2>1. Trace(p) = Trace(q)  BY <1>3 DEF Trace
  <2> QED  BY <2>1, <1>1, <1>2, <1>3, TraceMoves
<1>8. CompleteKept(p)
  BY <1>2, <1>3 DEF CompleteKept, Stream
<1>9. ReqInv(r, p)
  BY <1>3, <1>4, <1>5, <1>7, <1>8 DEF ReqInv
<1>10. Suspended(p) /\ Local(r, p) /\ Ran(q, p)
  BY <1>1, <1>3, <1>p, <1>q DEF Suspended, Stream, Tick, Ran
<1> QED  BY <1>3, <1>9, <1>10, <1>q, LocalKept

\* An event queued behind the complete event does not displace it.
LEMMA CompleteStays ==
  ASSUME NEW r, NEW b \in Seq(Events(r)), NEW e \in Events(r), HasComplete(b)
  PROVE  HasComplete(Append(b, e))
<1>1. PICK i \in DOMAIN b : b[i][3] = "complete"
  BY DEF HasComplete
<1>2. i \in DOMAIN Append(b, e) /\ Append(b, e)[i] = b[i]
  OBVIOUS
<1> QED  BY <1>1, <1>2 DEF HasComplete

\* An emission beside the handler, or by what it calls where it waits at the
\* caches.
LEMMA BesideEmits ==
  ASSUME NEW r \in Requests, NEW q, NEW p, NEW who \in Emitters, NEW e \in Events(r),
         ReqInv(r, q), who = "main" => q.pc \in {"lookup", "store"},
         p \in RequestState(r), e[2] = q.seq + 1,
         p.kind = q.kind, p.pc = q.pc, p.relay = q.relay, p.task = q.task, p.rows = q.rows,
         p.line = q.line, p.traced = q.traced, p.out = q.out, p.status = q.status,
         p.logged = q.logged, p.saved = q.saved, p.seq = q.seq + 1, p.budget = q.budget,
         piped => /\ p.put = q.put
                  /\ p.inbox = IF Stream(q) THEN Append(q.inbox, e) ELSE q.inbox,
         ~piped => p.put = [q.put EXCEPT ![who] = e] /\ p.inbox = q.inbox
  PROVE  ReqInv(r, p) /\ (Suspended(q) => Suspended(p)) /\ Ran(q, p)
<1>0. /\ Placed(q) /\ LineKept(q) /\ LineEnds(q) /\ LogKept(q) /\ SaveKept(q) /\ TraceKept(q)
      /\ PutKept(q) /\ TaskKept(q) /\ LogLate(q) /\ LateKept(q) /\ CompleteKept(q)
      /\ q \in RequestState(r)
  BY DEF ReqInv
<1>m. p.put["main"] = q.put["main"] \/ q.pc \in {"lookup", "store"}
  <2>1. q.put \in [Emitters -> Events(r) \cup {<<>>}] /\ "main" \in Emitters
    BY <1>0 DEF RequestState, Emitters
  <2> QED  BY <2>1
<1>1. Placed(p) /\ LineKept(p) /\ LineEnds(p) /\ LateKept(p) /\ SaveKept(p) /\ TaskKept(p)
  <2>1. ~Stream(p) => p.inbox = <<>>
    BY <1>0 DEF Placed, Stream
  <2>2. Placed(p)
    BY <1>0, <1>m, <2>1 DEF Placed, Stream
  <2> QED  BY <2>2, <1>0 DEF LineKept, LineEnds, LateKept, SaveKept, TaskKept, Stream
<1>2. LogKept(p) /\ LogLate(p)
  BY <1>0 DEF LogKept, LogLate, Hit
<1>3. TraceKept(p) /\ PutKept(p)
  BY <1>0, EmitTrace
<1>4. CompleteKept(p)
  <2>1. HasComplete(q.inbox) => HasComplete(p.inbox)
    <3>1. q.inbox \in Seq(Events(r))
      BY <1>0 DEF RequestState
    <3>2. p.inbox = q.inbox \/ p.inbox = Append(q.inbox, e)
      OBVIOUS
    <3> QED  BY <3>1, <3>2, CompleteStays
  <2> QED  BY <2>1, <1>0, <1>m DEF CompleteKept, Stream, Placed
<1>5. Suspended(q) => Suspended(p)
  BY <1>m DEF Suspended, Stream, Stops, Waits
<1> QED  BY <1>1, <1>2, <1>3, <1>4, <1>5 DEF ReqInv, Ran

\* The same, as a step.
LEMMA EmitByKept ==
  ASSUME IInv, NEW r \in Requests, NEW who \in Emitters, NEW stage \in Stages, NEW q,
         who = "main" => q.pc \in {"lookup", "store"},
         ReqInv(r, q), Suspended(q), q.seq = req[r].seq, Ran(req[r], q), EmitBy(r, who, stage, q)
  PROVE  IInv' /\ Quiet(r)
<1>s. PICK s : s = Now(q)
  OBVIOUS
<1>t. PICK t : t = Emitted(r, who, stage, s)
  OBVIOUS
<1>1. Becomes(r, t)
  BY <1>s, <1>t DEF EmitBy
<1>2. Holds(r, s) /\ s.q = q
  BY <1>s, NowHolds
<1>3. Pipe(s) /\ PipeFlow(r, s) /\ q \in RequestState(r)
  BY <1>2 DEF Holds, ReqInv
<1>4. Pipe(t) /\ PipeFlow(r, t)
  BY <1>2, <1>3, <1>t, EmitPipe, IInvParts
<1>e. PICK e : e = <<r, s.q.seq + 1, stage>>
  OBVIOUS
<1>5. Emission(r, who, e, s, t)
  BY <1>2, <1>3, <1>t, <1>e, EmitFields
<1>6. e[2] = q.seq + 1 /\ e \in Events(r)
  BY <1>e, <1>2, <1>3, NewEvent DEF RequestState
<1>7. /\ t.q \in RequestState(r)
      /\ t.q.kind = q.kind /\ t.q.pc = q.pc /\ t.q.relay = q.relay /\ t.q.task = q.task
      /\ t.q.rows = q.rows /\ t.q.budget = q.budget /\ t.q.line = q.line
      /\ t.q.traced = q.traced /\ t.q.out = q.out /\ t.q.status = q.status
      /\ t.q.logged = q.logged /\ t.q.saved = q.saved /\ t.q.seq = q.seq + 1
      /\ piped => /\ t.q.put = q.put
                  /\ t.q.inbox = IF Stream(q) THEN Append(q.inbox, e) ELSE q.inbox
      /\ ~piped => t.q.put = [q.put EXCEPT ![who] = e] /\ t.q.inbox = q.inbox
  BY <1>5, <1>2 DEF Emission
<1>8. ReqInv(r, t.q) /\ Suspended(t.q) /\ Ran(q, t.q)
  BY <1>6, <1>7, BesideEmits
<1>9. IInv'
  BY <1>1, <1>4, <1>8, Becoming DEF Holds
<1>10. req'[r] = t.q /\ \A x \in Requests \ {r} : req'[x] = req[x]
  BY <1>1, Alone
<1> QED  BY <1>8, <1>9, <1>10 DEF Quiet, Ran

\* What embeds and retrieves for the caches of /ask emits.
LEMMA CacheEmitsKept ==
  ASSUME IInv, NEW r \in Requests, CacheEmits(r)
  PROVE  IInv' /\ Quiet(r)
<1>q. PICK q : q = req[r]
  OBVIOUS
<1>1. /\ q \in RequestState(r) /\ ReqInv(r, q) /\ Suspended(q) /\ TaskKept(q) /\ q.left > 0
      /\ q.pc \in {"lookup", "store"}
  BY <1>q, IInvParts DEF ReqInv, CacheEmits, Waiting, At
<1>p. PICK p : p = [q EXCEPT !.left = q.left - 1]
  OBVIOUS
<1>4. /\ p \in RequestState(r) /\ p.kind = q.kind /\ p.pc = q.pc /\ p.relay = q.relay
      /\ p.rows = q.rows /\ p.inbox = q.inbox
      /\ p.line = q.line /\ p.traced = q.traced /\ p.out = q.out /\ p.status = q.status
      /\ p.logged = q.logged /\ p.saved = q.saved /\ p.seq = q.seq /\ p.budget = q.budget
      /\ p.put = q.put /\ p.task = q.task
  <2>1. q.left - 1 \in 0..MaxEmits
    BY <1>1, KindsAssumption DEF RequestState
  <2> QED  BY <1>1, <1>p, <2>1 DEF RequestState
<1>5. TaskKept(p)
  BY <1>1, <1>4 DEF TaskKept
<1>6. ReqInv(r, p) /\ Suspended(p) /\ Ran(q, p)
  BY <1>1, <1>4, <1>5, BesideHandler
<1>7. EmitBy(r, "main", "inner", p) /\ "main" \in Emitters /\ "inner" \in Stages
  BY <1>p, <1>q DEF CacheEmits, Emitters, Stages
<1> QED  BY <1>1, <1>4, <1>6, <1>7, <1>q, EmitByKept

\* A task emits.
LEMMA TaskEmitsKept ==
  ASSUME IInv, NEW r \in Requests, TaskEmits(r)
  PROVE  IInv' /\ Quiet(r)
<1>q. PICK q : q = req[r]
  OBVIOUS
<1>1. q \in RequestState(r) /\ ReqInv(r, q) /\ Suspended(q) /\ TaskKept(q) /\ q.left > 0
  BY <1>q, IInvParts DEF ReqInv, TaskEmits
<1>p. PICK p : p = [q EXCEPT !.left = q.left - 1]
  OBVIOUS
<1>4. /\ p \in RequestState(r) /\ p.kind = q.kind /\ p.pc = q.pc /\ p.relay = q.relay
      /\ p.rows = q.rows /\ p.inbox = q.inbox
      /\ p.line = q.line /\ p.traced = q.traced /\ p.out = q.out /\ p.status = q.status
      /\ p.logged = q.logged /\ p.saved = q.saved /\ p.seq = q.seq /\ p.budget = q.budget
      /\ p.put = q.put /\ p.task = q.task
  <2>1. q.left - 1 \in 0..MaxEmits
    BY <1>1, KindsAssumption DEF RequestState
  <2> QED  BY <1>1, <1>p, <2>1 DEF RequestState
<1>5. TaskKept(p)
  BY <1>1, <1>4 DEF TaskKept
<1>6. ReqInv(r, p) /\ Suspended(p) /\ Ran(q, p)
  BY <1>1, <1>4, <1>5, BesideHandler
<1>7. EmitBy(r, "task", "inner", p) /\ "task" \in Emitters \ {"main"} /\ "inner" \in Stages
  BY <1>p, <1>q DEF TaskEmits, Emitters, Stages
<1> QED  BY <1>4, <1>6, <1>7, <1>q, EmitByKept

\* The failure log begins with an event.
LEMMA FailureBeginsKept ==
  ASSUME IInv, NEW r \in Requests, NEW w \in Writers, FailureBegins(r, w)
  PROVE  IInv' /\ Quiet(r)
<1>1. ReqInv(r, req[r]) /\ Suspended(req[r])
  BY IInvParts
<1>p. PICK p : p = Begun(req[r], w, "write")
  OBVIOUS
<1>2. /\ EmitBy(r, w, "failure_log_write", p)
      /\ w \in Emitters \ {"main"} /\ "failure_log_write" \in Stages
  BY <1>p DEF FailureBegins, Begun, Emitters, Stages, Writers
<1>3. ReqInv(r, p) /\ Suspended(p) /\ Ran(req[r], p) /\ p.seq = req[r].seq
  BY <1>1, <1>p, OnlyBg
<1> QED  BY <1>2, <1>3, EmitByKept

\* The failure log ends with an event.
LEMMA FailureEndsKept ==
  ASSUME IInv, NEW r \in Requests, NEW w \in Writers, FailureEnds(r, w)
  PROVE  IInv' /\ Quiet(r)
<1>1. ReqInv(r, req[r]) /\ Suspended(req[r])
  BY IInvParts
<1>p. PICK p : p = Begun(req[r], w, "idle")
  OBVIOUS
<1>2. /\ EmitBy(r, w, "failure_log_written", p)
      /\ w \in Emitters \ {"main"} /\ "failure_log_written" \in Stages
  BY <1>p DEF FailureEnds, Begun, Emitters, Stages, Writers
<1>3. ReqInv(r, p) /\ Suspended(p) /\ Ran(req[r], p) /\ p.seq = req[r].seq
  BY <1>1, <1>p, OnlyBg
<1> QED  BY <1>2, <1>3, EmitByKept

\* wait_for cancels the workflow of /ask, wherever it is.
LEMMA AskTimesOutKept ==
  ASSUME IInv, NEW r \in Requests, AskTimesOut(r)
  PROVE  IInv' /\ Quiet(r)
<1>q. PICK q : q = req[r]
  OBVIOUS
<1>1. /\ q \in RequestState(r) /\ ReqInv(r, q) /\ Suspended(q) /\ q.budget = "late"
      /\ q.out = "open" /\ q.kind = "ask" /\ ~Stream(q)
  BY <1>q, IInvParts DEF AskTimesOut, Stream
<1>2. /\ Placed(q) /\ LineEnds(q) /\ LogKept(q) /\ SaveKept(q) /\ PutKept(q) /\ TraceKept(q)
  BY <1>1 DEF ReqInv
<1>p. PICK p : p = [q EXCEPT !.budget = "over", !.pc = "lateAsk", !.task = "none",
                             !.put["main"] = <<>>, !.put["task"] = <<>>]
  OBVIOUS
<1>s. "lateAsk" \in Labels
  BY LabelFacts DEF TimingOut
<1>3. /\ p \in RequestState(r) /\ p.kind = q.kind /\ p.seq = q.seq
      /\ p.put = [q.put EXCEPT !["main"] = <<>>, !["task"] = <<>>]
      /\ p.line = q.line /\ p.traced = q.traced /\ p.logged = q.logged /\ p.task = "none"
      /\ p.saved = q.saved /\ p.relay = q.relay /\ p.inbox = q.inbox /\ p.rows = q.rows
      /\ p.budget = "over" /\ p.status = q.status /\ p.pc = "lateAsk" /\ p.out = "open"
  <2>1. "none" \in TaskStates  BY DEF TaskStates
  <2> QED  BY <1>1, <1>p, <1>s, <2>1 DEF RequestState
<1>u. /\ p.put["main"] = <<>>
      /\ \A w \in Emitters : p.put[w] = q.put[w] \/ p.put[w] = <<>>
  BY <1>1, <1>3 DEF RequestState, Emitters
<1>4. Placed(p) /\ LineKept(p) /\ LineEnds(p) /\ LateKept(p)
  BY <1>1, <1>2, <1>3, <1>u DEF Placed, LineKept, LineEnds, LateKept, Stream
<1>t. TaskKept(p)
  BY <1>3 DEF TaskKept, TasksAt
<1>n. q.pc # "over" /\ q.relay = <<>> /\ (piped => q.put["main"] = <<>>)
  BY <1>1, <1>2 DEF Placed, PutKept, Emitters
<1>5. LogKept(p) /\ LogLate(p)
  <2>1. Len(q.logged) <= 1
    BY <1>1, <1>2 DEF LogKept
  <2>2. ASSUME piped PROVE q.logged = <<>> \/ q.logged = <<"ok">>
    <3>1. q.pc \in Stops
      BY <2>2, <1>n, <1>1 DEF Suspended
    <3>2. q.pc = "store" \/ q.pc \notin {"over"} \cup Logged
      BY <3>1, <1>n DEF Stops, Checks, Waits, Logged, LoggedRejected, LoggedClarify,
         LoggedOk, Replied
    <3> QED  BY <3>2, <1>1, <1>2 DEF LogKept, Logged, LoggedOk
  <2>3. LogKept(p)
    BY <1>3 DEF LogKept
  <2>4. p.pc \notin {"over"} \cup Replied
    BY <1>3 DEF Replied
  <2>5. LogLate(p)
    BY <2>1, <2>2, <2>4, <1>1, <1>3 DEF LogLate
  <2> QED  BY <2>3, <2>5
<1>6. SaveKept(p)
  <2>1. q.pc # "logOk"
    <3>1. q.pc = "logOk" => q.pc \in Stops
      BY <1>1, <1>2 DEF Placed, Suspended
    <3> QED  BY <3>1 DEF Stops, Checks, Waits
  <2> QED  BY <2>1, <1>2, <1>3 DEF SaveKept
<1>7. TraceKept(p) /\ PutKept(p)
  BY <1>1, <1>2, <1>3, <1>u, TraceDropped
<1>8. CompleteKept(p)
  BY <1>1, <1>3 DEF CompleteKept, Stream
<1>9. ReqInv(r, p)
  BY <1>3, <1>4, <1>t, <1>5, <1>6, <1>7, <1>8 DEF ReqInv
<1>10. Continue(r, p) /\ Ran(q, p)
  BY <1>1, <1>3, <1>p, <1>q DEF AskTimesOut, Ran
<1> QED  BY <1>3, <1>9, <1>10, <1>q, ContinueKept

\* An event that has been persisted is queued for the stream.
Delivered(q, w) == Deliver([q EXCEPT !.put[w] = <<>>], q.put[w])

\* What queueing a persisted event for the stream changes.
LEMMA DeliveredFields ==
  ASSUME NEW r \in Requests, NEW q \in RequestState(r), NEW w \in Emitters, q.put[w] # <<>>
  PROVE  LET p == Delivered(q, w)
         IN  /\ q.put[w] \in Events(r) /\ p \in RequestState(r)
             /\ p.put = [q.put EXCEPT ![w] = <<>>]
             /\ p.inbox = IF Stream(q) THEN Append(q.inbox, q.put[w]) ELSE q.inbox
             /\ p.kind = q.kind /\ p.pc = q.pc /\ p.relay = q.relay /\ p.task = q.task
             /\ p.rows = q.rows /\ p.budget = q.budget /\ p.line = q.line
             /\ p.traced = q.traced /\ p.out = q.out /\ p.status = q.status
             /\ p.logged = q.logged /\ p.saved = q.saved /\ p.seq = q.seq
<1>p. PICK p : p = Delivered(q, w)
  OBVIOUS
<1>e. PICK e : e = q.put[w]
  OBVIOUS
<1>1. e \in Events(r)
  BY <1>e DEF RequestState
<1>d. PICK d : d = [q EXCEPT !.put[w] = <<>>]
  OBVIOUS
<1>2. d \in RequestState(r) /\ d.put = [q.put EXCEPT ![w] = <<>>] /\ d.inbox = q.inbox
  BY <1>d DEF RequestState
<1>3. /\ d.kind = q.kind /\ d.pc = q.pc /\ d.relay = q.relay /\ d.task = q.task
      /\ d.rows = q.rows /\ d.budget = q.budget /\ d.line = q.line
      /\ d.traced = q.traced /\ d.out = q.out /\ d.status = q.status
      /\ d.logged = q.logged /\ d.saved = q.saved /\ d.seq = q.seq
  BY <1>d DEF RequestState
<1>4. p = Deliver(d, e)
  BY <1>p, <1>d, <1>e DEF Delivered
<1>5. Append(d.inbox, e) \in Seq(Events(r))
  <2>1. d.inbox \in Seq(Events(r))  BY <1>2 DEF RequestState
  <2> QED  BY <1>1, <2>1
<1>6. /\ p \in RequestState(r) /\ p.put = d.put
      /\ p.inbox = IF Stream(d) THEN Append(d.inbox, e) ELSE d.inbox
  BY <1>2, <1>4, <1>5 DEF Deliver, RequestState
<1>7. /\ p.kind = d.kind /\ p.pc = d.pc /\ p.relay = d.relay /\ p.task = d.task
      /\ p.rows = d.rows /\ p.budget = d.budget /\ p.line = d.line
      /\ p.traced = d.traced /\ p.out = d.out /\ p.status = d.status
      /\ p.logged = d.logged /\ p.saved = d.saved /\ p.seq = d.seq
  BY <1>2, <1>4, <1>5 DEF Deliver, RequestState
<1> QED  BY <1>1, <1>2, <1>3, <1>6, <1>7, <1>p, <1>e DEF Stream

\* The event that was being persisted is a new one of the trace.
LEMMA DeliveredTrace ==
  ASSUME NEW r \in Requests, NEW q \in RequestState(r), NEW p \in RequestState(r),
         NEW w \in Emitters, q.put[w] # <<>>, q.put[w] \in Events(r),
         TraceKept(q), PutKept(q),
         p.kind = q.kind, p.out = q.out, p.traced = q.traced, p.relay = q.relay,
         p.seq = q.seq, p.put = [q.put EXCEPT ![w] = <<>>],
         p.inbox = IF Stream(q) THEN Append(q.inbox, q.put[w]) ELSE q.inbox
  PROVE  TraceKept(p) /\ PutKept(p)
<1>e. PICK e \in Events(r) : e = q.put[w]
  OBVIOUS
<1>0. /\ ~piped /\ e[2] <= q.seq /\ q.seq \in Nat /\ e[2] \in Nat
      /\ \A v \in Emitters \ {w} : p.put[v] = q.put[v]
      /\ p.put[w] = <<>>
  BY <1>e, EventTuple DEF PutKept, RequestState
<1>1. PutKept(p)
  BY <1>0 DEF PutKept
<1>2. ASSUME Stream(q), q.out # "gone" PROVE TraceKept(p)
  <2>1. Trace(p) = Append(Trace(q), e)
    BY <1>2, <1>e, TraceQueued
  <2>2. /\ Clean(Trace(q))
        /\ \A i \in DOMAIN Trace(q) : Trace(q)[i][2] <= q.seq
        /\ \A v \in Emitters : q.put[v] # <<>> =>
              /\ \A i \in DOMAIN Trace(q) : Trace(q)[i][2] # q.put[v][2]
              /\ \A u \in Emitters \ {v} : q.put[u] # <<>> => q.put[u][2] # q.put[v][2]
    BY <1>2 DEF TraceKept
  <2>3. Trace(q) \in Seq(Events(r))
    BY TraceType
  <2>4. \A i \in DOMAIN Trace(q) : Trace(q)[i][2] # e[2]
    BY <2>2, <1>e
  <2>5. Clean(Trace(p))
    BY <2>1, <2>2, <2>3, <2>4, <1>0, CleanAppend
  <2>6. \A i \in DOMAIN Trace(p) : \/ i \in DOMAIN Trace(q) /\ Trace(p)[i] = Trace(q)[i]
                                   \/ Trace(p)[i] = e
    BY <2>1, <2>3
  <2>7. \A i \in DOMAIN Trace(p) : Trace(p)[i][2] <= p.seq
    BY <2>2, <2>6, <1>0
  <2>8. ASSUME NEW v \in Emitters, p.put[v] # <<>>
        PROVE  /\ \A i \in DOMAIN Trace(p) : Trace(p)[i][2] # p.put[v][2]
               /\ \A u \in Emitters \ {v} : p.put[u] # <<>> => p.put[u][2] # p.put[v][2]
    <3>1. v # w /\ p.put[v] = q.put[v]
      BY <2>8, <1>0
    <3>2. \A i \in DOMAIN Trace(q) : Trace(q)[i][2] # p.put[v][2]
      BY <2>2, <2>8, <3>1
    <3>3. e[2] # p.put[v][2]
      BY <2>2, <2>8, <3>1, <1>e
    <3>4. \A i \in DOMAIN Trace(p) : Trace(p)[i][2] # p.put[v][2]
      BY <2>6, <3>2, <3>3
    <3>5. \A u \in Emitters \ {v} : p.put[u] # <<>> => p.put[u][2] # p.put[v][2]
      BY <2>2, <2>8, <3>1, <1>0
    <3> QED  BY <3>4, <3>5
  <2> QED  BY <2>5, <2>7, <2>8, <1>0, <1>2 DEF TraceKept, Stream
<1>3. CASE ~Stream(q)
  BY <1>1, <1>3 DEF TraceKept, Stream
<1>4. CASE Stream(q) /\ q.out = "gone"
  BY <1>1, <1>4 DEF TraceKept, Stream
<1> QED  BY <1>1, <1>2, <1>3, <1>4

\* It keeps the invariant of the request, perhaps ready to go on.
LEMMA DeliveredKept ==
  ASSUME NEW r \in Requests, NEW q, ReqInv(r, q), NEW w \in Emitters, q.put[w] # <<>>
  PROVE  /\ ReqInv(r, Delivered(q, w)) /\ Ran(q, Delivered(q, w)) /\ ~piped
         /\ Delivered(q, w).seq = q.seq /\ q.put[w] \in Events(r)
         /\ w # "main" /\ Suspended(q) => Suspended(Delivered(q, w))
<1>p. PICK p : p = Delivered(q, w)
  OBVIOUS
<1>0. /\ Placed(q) /\ LineKept(q) /\ LineEnds(q) /\ LogKept(q) /\ SaveKept(q) /\ TraceKept(q)
      /\ PutKept(q) /\ TaskKept(q) /\ LogLate(q) /\ LateKept(q) /\ CompleteKept(q)
      /\ q \in RequestState(r)
  BY DEF ReqInv
<1>1. /\ q.put[w] \in Events(r) /\ p \in RequestState(r)
      /\ p.put = [q.put EXCEPT ![w] = <<>>]
      /\ p.inbox = IF Stream(q) THEN Append(q.inbox, q.put[w]) ELSE q.inbox
      /\ p.kind = q.kind /\ p.pc = q.pc /\ p.relay = q.relay /\ p.task = q.task
      /\ p.rows = q.rows /\ p.budget = q.budget /\ p.line = q.line
      /\ p.traced = q.traced /\ p.out = q.out /\ p.status = q.status
      /\ p.logged = q.logged /\ p.saved = q.saved /\ p.seq = q.seq
  BY <1>p, <1>0, DeliveredFields
<1>m. p.put["main"] = <<>> \/ p.put["main"] = q.put["main"]
  BY <1>0, <1>1 DEF RequestState, Emitters
<1>2. Placed(p) /\ LineKept(p) /\ LineEnds(p) /\ LateKept(p) /\ SaveKept(p) /\ TaskKept(p)
  <2>1. ~Stream(p) => p.inbox = <<>>
    BY <1>0, <1>1 DEF Placed, Stream
  <2>2. Placed(p)
    BY <1>0, <1>1, <1>m, <2>1 DEF Placed, Stream
  <2> QED  BY <2>2, <1>0, <1>1 DEF LineKept, LineEnds, LateKept, SaveKept, TaskKept, Stream
<1>3. LogKept(p) /\ LogLate(p)
  BY <1>0, <1>1 DEF LogKept, LogLate, Hit
<1>4. TraceKept(p) /\ PutKept(p)
  BY <1>0, <1>1, DeliveredTrace
<1>5. CompleteKept(p)
  <2> SUFFICES ASSUME Stream(p) PROVE CompleteKept(p)
    BY DEF CompleteKept
  <2>0. Stream(q) /\ p.inbox = Append(q.inbox, q.put[w]) /\ q.inbox \in Seq(Events(r))
    BY <1>0, <1>1 DEF Stream, RequestState
  <2>1. HasComplete(q.inbox) => HasComplete(p.inbox)
    BY <2>0, <1>1, CompleteStays
  <2>2. w = "main" /\ q.put["main"][3] = "complete" => HasComplete(p.inbox)
    <3>1. Len(p.inbox) \in DOMAIN p.inbox /\ p.inbox[Len(p.inbox)] = q.put[w]
      BY <2>0, <1>1
    <3> QED  BY <3>1 DEF HasComplete
  <2>3. w # "main" => p.put["main"] = q.put["main"]
    BY <1>0, <1>1 DEF RequestState, Emitters
  <2> QED  BY <2>0, <2>1, <2>2, <2>3, <1>0, <1>1 DEF CompleteKept
<1>6. ~piped
  BY <1>0 DEF PutKept
<1>7. w # "main" /\ Suspended(q) => Suspended(p)
  <2>1. w # "main" => p.put["main"] = q.put["main"]
    BY <1>0, <1>1 DEF RequestState, Emitters
  <2> QED  BY <2>1, <1>1 DEF Suspended, Stream
<1> QED  BY <1>1, <1>2, <1>3, <1>4, <1>5, <1>6, <1>7, <1>p DEF ReqInv, Ran

\* Without a pipeline: an event has been persisted, and its emitter goes on.
LEMMA PersistedKept ==
  ASSUME IInv, NEW r \in Requests, NEW w \in Emitters, Persisted(r, w)
  PROVE  IInv' /\ Quiet(r)
<1>e. PICK e : e = req[r].put[w]
  OBVIOUS
<1>0. ReqInv(r, req[r]) /\ Suspended(req[r]) /\ e # <<>>
  BY <1>e, IInvParts DEF Persisted
<1>p. PICK p : p = Delivered(req[r], w)
  OBVIOUS
<1>1. /\ ReqInv(r, p) /\ Ran(req[r], p) /\ ~piped /\ p.seq = req[r].seq /\ e \in Events(r)
      /\ w # "main" => Suspended(p)
  BY <1>0, <1>e, <1>p, DeliveredKept
<1>s. PICK s : s = [Now(p) EXCEPT !.settled = Now(p).settled \cup {Id(e)}]
  OBVIOUS
<1>2. PICK t \in IF w = "main" THEN Performed(r, s) ELSE {s} : Becomes(r, t)
  BY <1>e, <1>p, <1>s DEF Persisted, Delivered
<1>3. Pipe(Now(p)) /\ Now(p).q = p
  BY <1>1, NowHolds DEF Holds
<1>4. s.q = p /\ Pipe(s)
  <2>1. PICK qu, se : Now(p) = [q |-> p, queue |-> qu, settled |-> se]
    BY <1>3 DEF Pipe
  <2>2. s = [q |-> p, queue |-> qu, settled |-> se \cup {Id(e)}]
    BY <2>1, <1>s
  <2>3. /\ s.q = p /\ s.queue = Now(p).queue /\ s.settled = Now(p).settled \cup {Id(e)}
        /\ s = [q |-> s.q, queue |-> s.queue, settled |-> s.settled]
    BY <2>1, <2>2
  <2>4. Id(e) \in Requests \X (Nat \ {0})
    BY <1>1, EventTuple
  <2> QED  BY <2>3, <2>4, <1>3 DEF Pipe
<1>5. Holds(r, s)
  BY <1>1, <1>4 DEF Holds, PipeFlow
<1>6. Holds(r, t) /\ Ran(p, t.q) /\ Suspended(t.q)
  <2>1. CASE w = "main"
    BY <1>2, <1>4, <1>5, <2>1, PerformedKept, IInvParts
  <2>2. CASE w # "main"
    BY <1>1, <1>2, <1>4, <1>5, <2>2 DEF Ran
  <2> QED  BY <2>1, <2>2
<1>7. IInv'
  BY <1>2, <1>6, Becoming
<1>8. req'[r] = t.q /\ \A x \in Requests \ {r} : req'[x] = req[x]
  BY <1>2, Alone
<1> QED  BY <1>1, <1>6, <1>7, <1>8 DEF Quiet, Ran

\* The client of a stream goes away.
Gone(r) ==
    /\ \A x \in Requests \ {r} : req'[x] = req[x]
    /\ req[r].out = "open" /\ req'[r].out = "gone"
    /\ req'[r].kind = req[r].kind /\ req'[r].line = req[r].line

\* The beginning of a clean trace is clean.
LEMMA CleanPrefix ==
  ASSUME NEW r \in Requests, NEW a \in Seq(Events(r)), NEW b \in Seq(Events(r)), Clean(a \o b)
  PROVE  Clean(a)
<1>1. \A i \in DOMAIN a : i \in DOMAIN (a \o b) /\ (a \o b)[i] = a[i]
  OBVIOUS
<1> QED  BY <1>1 DEF Clean

\* The reader of a stream goes away.
LEMMA DisconnectKept ==
  ASSUME IInv, NEW r \in Requests, Disconnect(r)
  PROVE  IInv' /\ Gone(r)
<1>q. PICK q : q = req[r]
  OBVIOUS
<1>1. /\ q \in RequestState(r) /\ ReqInv(r, q) /\ Suspended(q) /\ q.out = "open" /\ Stream(q)
  BY <1>q, IInvParts DEF Disconnect, IsStream
<1>2. /\ Placed(q) /\ LineEnds(q) /\ LogKept(q) /\ LogLate(q) /\ SaveKept(q) /\ PutKept(q)
      /\ TraceKept(q)
  BY <1>1 DEF ReqInv
<1>p. PICK p : p = [q EXCEPT !.out = "gone", !.pc = "over", !.relay = <<>>,
                             !.put["main"] = <<>>]
  OBVIOUS
<1>3. /\ p \in RequestState(r) /\ p.kind = q.kind /\ p.seq = q.seq
      /\ p.put = [q.put EXCEPT !["main"] = <<>>]
      /\ p.line = q.line /\ p.traced = q.traced /\ p.logged = q.logged /\ p.task = q.task
      /\ p.saved = q.saved /\ p.relay = <<>> /\ p.inbox = q.inbox /\ p.rows = q.rows
      /\ p.budget = q.budget /\ p.status = q.status /\ p.pc = "over" /\ p.out = "gone"
  <2>1. "over" \in Labels /\ <<>> \in Seq(Events(r))
    BY DEF Labels, Stops, Waits
  <2> QED  BY <1>1, <1>p, <2>1 DEF RequestState
<1>u. /\ p.put["main"] = <<>>
      /\ \A w \in Emitters : p.put[w] = q.put[w] \/ p.put[w] = <<>>
  BY <1>1, <1>3 DEF RequestState, Emitters
<1>b. q.budget # "over" /\ p.budget # "over"
  BY <1>1, <1>2, <1>3 DEF LogLate, Stream
<1>4. Placed(p) /\ LineKept(p) /\ LineEnds(p) /\ LateKept(p) /\ TaskKept(p)
  BY <1>1, <1>2, <1>3, <1>u DEF Placed, LineKept, LineEnds, LateKept, Stream, TaskKept
<1>5. LogKept(p) /\ LogLate(p)
  <2>1. Len(p.logged) <= 1
    BY <1>b, <1>2, <1>3 DEF LogKept
  <2>2. p.pc \notin LoggedRejected \cup LoggedClarify \cup LoggedOk \cup Replied
    BY <1>3 DEF LoggedRejected, LoggedClarify, LoggedOk, Replied
  <2> QED  BY <2>1, <2>2, <1>b, <1>3 DEF LogKept, LogLate
<1>6. SaveKept(p)
  <2>1. q.pc # "logOk"
    <3>1. q.pc = "logOk" => q.pc \in Stops \/ Code[q.pc][1] = "say"
      BY <1>1, <1>2 DEF Placed, Suspended
    <3>2. ASSUME q.pc = "logOk" PROVE Code[q.pc][1] = "log"
      <4>1. q.pc \in DOMAIN Code
        BY <3>2, <1>1 DEF RequestState, Labels, Stops, Checks, Waits
      <4>2. Code[q.pc][3] \in Nexts(Code[q.pc])
        BY DEF Nexts
      <4>3. LateFact(q.pc, Code[q.pc], Code[q.pc][3])
        BY <4>1, <4>2, TableFacts DEF Fact
      <4> QED  BY <3>2, <4>3 DEF LateFact
    <3> QED  BY <3>1, <3>2 DEF Stops, Checks, Waits
  <2> QED  BY <2>1, <1>2, <1>3 DEF SaveKept
<1>7. TraceKept(p) /\ PutKept(p)
  <2>1. PutKept(p)
    BY <1>2, <1>3, <1>u DEF PutKept
  <2>2. Clean(q.traced)
    <3>1. Clean(Trace(q))
      BY <1>1, <1>2 DEF TraceKept
    <3>2. /\ q.traced \in Seq(Events(r)) /\ q.relay \o q.inbox \in Seq(Events(r))
          /\ Trace(q) = q.traced \o (q.relay \o q.inbox)
      BY <1>1 DEF RequestState, Trace
    <3> QED  BY <3>1, <3>2, CleanPrefix
  <2> QED  BY <2>1, <2>2, <1>3 DEF TraceKept
<1>8. CompleteKept(p)
  BY <1>3 DEF CompleteKept
<1>9. ReqInv(r, p)
  BY <1>3, <1>4, <1>5, <1>6, <1>7, <1>8 DEF ReqInv
<1>10. Suspended(p) /\ Local(r, p)
  BY <1>3, <1>p, <1>q DEF Suspended, Stops, Waits, Disconnect
<1> QED  BY <1>1, <1>3, <1>9, <1>10, <1>q, LocalKept DEF Gone

\* The reader of a stream takes a line.
LEMMA RelaysKept ==
  ASSUME IInv, NEW r \in Requests, IsStream(r), req[r].put["main"] = <<>>, req[r].relay # <<>>,
         Continue(r, [req[r] EXCEPT !.traced = Append(@, Head(req[r].relay)), !.relay = Tail(@)])
  PROVE  IInv' /\ Quiet(r)
<1>q. PICK q : q = req[r]
  OBVIOUS
<1>1. /\ q \in RequestState(r) /\ ReqInv(r, q) /\ q.put["main"] = <<>> /\ Stream(q)
      /\ q.relay # <<>>
  BY <1>q, IInvParts DEF IsStream
<1>2. /\ Placed(q) /\ LineKept(q) /\ LineEnds(q) /\ LogKept(q) /\ LogLate(q) /\ SaveKept(q)
      /\ PutKept(q) /\ TraceKept(q) /\ TaskKept(q) /\ LateKept(q) /\ CompleteKept(q)
  BY <1>1 DEF ReqInv
<1>p. PICK p : p = [q EXCEPT !.traced = Append(q.traced, Head(q.relay)), !.relay = Tail(q.relay)]
  OBVIOUS
<1>s. /\ q.traced \in Seq(Events(r)) /\ q.relay \in Seq(Events(r)) /\ q.relay # <<>>
      /\ Append(q.traced, Head(q.relay)) \in Seq(Events(r)) /\ Tail(q.relay) \in Seq(Events(r))
  <2>1. q.traced \in Seq(Events(r)) /\ q.relay \in Seq(Events(r)) /\ q.relay # <<>>
    BY <1>1 DEF RequestState
  <2> QED  BY <2>1
<1>3. /\ p \in RequestState(r) /\ p.kind = q.kind /\ p.seq = q.seq /\ p.put = q.put
      /\ p.line = q.line /\ p.logged = q.logged /\ p.task = q.task
      /\ p.saved = q.saved /\ p.inbox = q.inbox /\ p.rows = q.rows
      /\ p.budget = q.budget /\ p.status = q.status /\ p.pc = q.pc /\ p.out = q.out
      /\ p.traced = Append(q.traced, Head(q.relay)) /\ p.relay = Tail(q.relay)
  BY <1>1, <1>p, <1>s DEF RequestState
<1>o. q.out = "open" /\ q.pc \notin {"logOk", "end"}
  BY <1>1, <1>2 DEF Placed
<1>4. Placed(p) /\ LineKept(p) /\ LineEnds(p) /\ LateKept(p) /\ TaskKept(p) /\ SaveKept(p)
  BY <1>1, <1>2, <1>3, <1>o
  DEF Placed, LineKept, LineEnds, LateKept, Stream, TaskKept, SaveKept
<1>5. LogKept(p) /\ LogLate(p)
  BY <1>2, <1>3 DEF LogKept, LogLate, Hit
<1>7. TraceKept(p) /\ PutKept(p)
  <2>1. Trace(p) = Trace(q)
    BY <1>1, <1>3, TraceSent
  <2> QED  BY <2>1, <1>1, <1>2, <1>3, <1>o, TraceMoves
<1>8. CompleteKept(p)
  <2>1. HasComplete(q.traced) => HasComplete(p.traced)
    <3>1. Head(q.relay) \in Events(r)  BY <1>s
    <3> QED  BY <3>1, <1>s, <1>3, CompleteStays
  <2>2. ASSUME HasComplete(q.relay) PROVE HasComplete(p.traced) \/ HasComplete(p.relay)
    <3>1. PICK i \in DOMAIN q.relay : q.relay[i][3] = "complete"
      BY <2>2 DEF HasComplete
    <3>2. CASE i = 1
      <4>1. /\ Len(p.traced) \in DOMAIN p.traced
            /\ p.traced[Len(p.traced)] = q.relay[1]
        BY <1>s, <1>3
      <4> QED  BY <4>1, <3>1, <3>2 DEF HasComplete
    <3>3. CASE i # 1
      <4>1. i - 1 \in DOMAIN p.relay /\ p.relay[i - 1] = q.relay[i]
        BY <3>1, <3>3, <1>s, <1>3
      <4> QED  BY <4>1, <3>1 DEF HasComplete
    <3> QED  BY <3>2, <3>3
  <2> QED  BY <2>1, <2>2, <1>2, <1>3, <1>o DEF CompleteKept, Stream
<1>9. ReqInv(r, p)
  BY <1>3, <1>4, <1>5, <1>7, <1>8 DEF ReqInv
<1>10. Continue(r, p) /\ Ran(q, p)
  BY <1>3, <1>p, <1>q DEF Ran
<1> QED  BY <1>3, <1>9, <1>10, <1>q, ContinueKept

\* A line of its own: the one its label stands for, and the last one ends it.
Says(r, c) ==
    /\ \A x \in Requests \ {r} : req'[x] = req[x]
    /\ req[r].out = "open" /\ Stream(req[r]) /\ req'[r].kind = req[r].kind
    /\ req[r].pc \in DOMAIN Code /\ c = Code[req[r].pc] /\ c[1] = "say"
    /\ req[r].line \in LinesAt(req[r].pc)
    /\ req'[r].line = c[2] /\ req'[r].out = IF c[2] = "final" THEN "closed" ELSE "open"

\* No stream waits at its end, and its last line is the final one only there.
LEMMA FinalEnds ==
  ASSUME NEW r \in Requests, NEW q, ReqInv(r, q), Suspended(q), Stream(q)
  PROVE  /\ q.out = "open" => q.line # "final"
         /\ q.out = "closed" => q.line = "final"
<1>1. Placed(q) /\ LineKept(q) /\ LineEnds(q) /\ q \in RequestState(r)
  BY DEF ReqInv
<1>2. q.pc # "end"
  <2>1. q.pc = "end" => q.pc \in Stops \/ Code[q.pc][1] = "say"
    BY <1>1 DEF Placed, Suspended
  <2>2. ASSUME q.pc = "end" PROVE Code[q.pc][1] = "end"
    <3>1. q.pc \in DOMAIN Code
      BY <2>2, <1>1 DEF RequestState, Labels, Stops, Checks, Waits
    <3>2. Code[q.pc][3] \in Nexts(Code[q.pc])
      BY DEF Nexts
    <3>3. EndFact(q.pc, Code[q.pc], Code[q.pc][3])
      BY <3>1, <3>2, TableFacts DEF Fact
    <3> QED  BY <2>2, <3>3 DEF EndFact
  <2> QED  BY <2>1, <2>2 DEF Stops, Checks, Waits
<1>3. q.out = "open" => q.line # "final"
  BY <1>1, <1>2 DEF LineKept, Placed, LinesAt, SqlLines, AnswerLines, Verdicts
<1>4. q.out = "closed" => q.line = "final"
  BY <1>1 DEF LineEnds
<1> QED  BY <1>3, <1>4

\* What FinalEnds says, of every stream.
Ended ==
    \A r \in Requests : IsStream(r) =>
        /\ req[r].out = "open" => req[r].line # "final"
        /\ req[r].out = "closed" => req[r].line = "final"

\* FinalEnds for all streams.
LEMMA EndsOpen == IInv => Ended
<1> SUFFICES ASSUME IInv PROVE Ended
  OBVIOUS
<1>1. \A r \in Requests : ReqInv(r, req[r]) /\ Suspended(req[r])
  BY IInvParts
<1> QED  BY <1>1, FinalEnds DEF Ended, IsStream

\* The same in the next state.
LEMMA EndsNext == IInv' => Ended'
BY EndsOpen, PTL
Said(q, c) == [q EXCEPT !.line = c[2], !.pc = c[3]]

\* A line said moves the handler on, with the invariant.
LEMMA SayMoves ==
  ASSUME NEW r \in Requests, NEW q, NEW c, ReqInv(r, q), Stream(q), q.put["main"] = <<>>,
         q.relay = <<>>, q.pc \notin Stops, c = Code[q.pc], c[1] = "say"
  PROVE  /\ ReqInv(r, Said(q, c)) /\ Said(q, c).seq = q.seq /\ Said(q, c).kind = q.kind
         /\ Said(q, c).out = q.out /\ Said(q, c).line = c[2]
         /\ q.out = "open" /\ q.pc \in DOMAIN Code /\ q.line \in LinesAt(q.pc)
<1>1. /\ Placed(q) /\ LineKept(q) /\ LineEnds(q) /\ LogKept(q) /\ LogLate(q) /\ SaveKept(q)
      /\ PutKept(q) /\ TraceKept(q) /\ TaskKept(q) /\ LateKept(q) /\ CompleteKept(q)
      /\ q \in RequestState(r)
  BY DEF ReqInv
<1>2. q.pc \in DOMAIN Code /\ q.out = "open"
  BY <1>1 DEF RequestState, Labels, Placed, Stops, Waits
<1>c. TypeFact(q.pc, c, c[3]) /\ Fact(q.pc, c, c[3]) /\ c[3] \in Labels
  BY <1>2, TableFacts
<1>p. PICK p : p = [q EXCEPT !.line = c[2], !.pc = c[3]]
  OBVIOUS
<1>3. /\ p \in RequestState(r) /\ p.kind = q.kind /\ p.seq = q.seq /\ p.put = q.put
      /\ p.line = c[2] /\ p.logged = q.logged /\ p.task = q.task
      /\ p.saved = q.saved /\ p.inbox = q.inbox /\ p.rows = q.rows
      /\ p.budget = q.budget /\ p.status = q.status /\ p.pc = c[3] /\ p.out = q.out
      /\ p.traced = q.traced /\ p.relay = q.relay
  <2>1. c[2] \in Lines /\ c[3] \in Labels
    BY <1>c DEF TypeFact
  <2> QED  BY <2>1, <1>1, <1>p DEF RequestState
<1>o. Op(r, q, p, c)
  BY <1>1, <1>2, <1>3, <1>c DEF Op
<1>4. /\ LineKept(p) /\ LineEnds(p) /\ TaskKept(p) /\ LogKept(p) /\ LogLate(p) /\ LateKept(p)
      /\ SaveKept(p)
  <2>1. IF Stream(q) /\ c[1] = "say" THEN p.line = c[2] ELSE p.line = q.line
    BY <1>3
  <2> QED  BY <1>1, <1>o, <2>1, OpLine, OpTask, OpLog, OpLogLate, OpLate, OpSave
<1>f. PlaceFact(q.pc, c, p.pc) /\ EndFact(q.pc, c, p.pc)
  BY <1>o DEF Op, Fact
<1>l. q.line \in LinesAt(q.pc)
  BY <1>1, <1>2 DEF LineKept
<1>5. Placed(p)
  BY <1>1, <1>2, <1>3, <1>f DEF Placed, PlaceFact, Stream
<1>6. TraceKept(p) /\ PutKept(p)
  <2>1. Trace(p) = Trace(q)
    BY <1>3 DEF Trace
  <2> QED  BY <2>1, <1>1, <1>2, <1>3, TraceMoves
<1>7. CompleteKept(p)
  <2>1. p.pc # "lastRelay" /\ p.pc # "final" /\ p.out = "open"
    BY <1>f, <1>2, <1>3 DEF EndFact
  <2>2. ASSUME p.pc = "end" PROVE HasComplete(q.traced)
    <3>1. q.pc = "final"
      BY <2>2, <1>f, <1>l DEF EndFact
    <3>2. HasComplete(q.traced) \/ HasComplete(q.relay)
      BY <3>1, <1>1 DEF CompleteKept
    <3>3. ~HasComplete(<<>>)
      BY DEF HasComplete
    <3> QED  BY <3>2, <3>3
  <2> QED  BY <2>1, <2>2, <1>3 DEF CompleteKept
<1>8. ReqInv(r, p)
  BY <1>3, <1>4, <1>5, <1>6, <1>7 DEF ReqInv
<1>9. p = Said(q, c)
  BY <1>p DEF Said
<1> QED  BY <1>2, <1>3, <1>8, <1>l, <1>9

\* The reader takes a line of the handler itself.
LEMMA SaysKept ==
  ASSUME IInv, NEW r \in Requests, IsStream(r), req[r].put["main"] = <<>>, req[r].relay = <<>>,
         req[r].pc \notin Stops, Code[req[r].pc][1] = "say",
         Continue(r, [req[r] EXCEPT !.line = Code[req[r].pc][2], !.pc = Code[req[r].pc][3]])
  PROVE  IInv' /\ Says(r, Code[req[r].pc])
<1>q. PICK q : q = req[r]
  OBVIOUS
<1>c. PICK c : c = Code[q.pc]
  OBVIOUS
<1>p. PICK p : p = Said(q, c)
  OBVIOUS
<1>1. ReqInv(r, q) /\ Stream(q)
  BY <1>q, IInvParts DEF IsStream
<1>2. /\ ReqInv(r, p) /\ p.seq = q.seq /\ p.kind = q.kind /\ p.out = q.out
      /\ p.line = c[2] /\ q.out = "open" /\ q.pc \in DOMAIN Code /\ q.line \in LinesAt(q.pc)
  BY <1>1, <1>q, <1>c, <1>p, SayMoves
<1>3. Continue(r, p)
  BY <1>q, <1>c, <1>p DEF Said
<1>4. IInv' /\ Ran(p, req'[r]) /\ \A x \in Requests \ {r} : req'[x] = req[x]
  BY <1>2, <1>3, <1>q, ContinueKept
<1>5. Ended'
  BY <1>4, EndsNext
<1>6. /\ req'[r].kind = "stream" /\ req'[r].line = c[2]
      /\ req'[r].out \in {"open", "closed"}
  BY <1>1, <1>2, <1>4 DEF Ran, Stream
<1>7. req'[r].out = IF c[2] = "final" THEN "closed" ELSE "open"
  BY <1>5, <1>6 DEF Ended, IsStream, Stream
<1> QED  BY <1>1, <1>2, <1>4, <1>6, <1>7, <1>q, <1>c DEF Says, Stream

\* The reader takes a line.
LEMMA SendKept ==
  ASSUME IInv, NEW r \in Requests, Send(r)
  PROVE  IInv' /\ (Quiet(r) \/ Says(r, Code[req[r].pc]))
BY RelaysKept, SaysKept DEF Send

----------------------------------------------------------------------------
(* The worker of the pipeline and the stop.                                 *)
\* What waits, at other places but in its order.
LEMMA FlowSame ==
  ASSUME NEW b \in Seq({Sentinel} \cup EventTuples), NEW d \in Seq({Sentinel} \cup EventTuples),
         NEW se, NEW n \in [Requests -> Nat], Flow(b, se, n),
         NEW f \in [Held(d) -> Held(b)],
         \A i \in Held(d) : d[i] = b[f[i]],
         \A i \in Held(b) : \E k \in Held(d) : f[k] = i,
         \A i, k \in Held(d) : i < k => f[i] < f[k]
  PROVE  Flow(d, se, n)
<1>1. ASSUME NEW x \in Requests, NEW m \in Nat \ {0}
      PROVE  m <= n[x] <=> \/ <<x, m>> \in se
                           \/ \E i \in Held(d) : Id(d[i]) = <<x, m>>
  <2>1. m <= n[x] <=> \/ <<x, m>> \in se
                      \/ \E i \in Held(b) : Id(b[i]) = <<x, m>>
    BY DEF Flow
  <2>2. ASSUME NEW i \in Held(b), Id(b[i]) = <<x, m>>
        PROVE  \E k \in Held(d) : Id(d[k]) = <<x, m>>
    <3>1. PICK k \in Held(d) : f[k] = i
      OBVIOUS
    <3> QED  BY <2>2, <3>1
  <2>3. ASSUME NEW k \in Held(d), Id(d[k]) = <<x, m>>
        PROVE  \E i \in Held(b) : Id(b[i]) = <<x, m>>
    BY <2>3
  <2> QED  BY <2>1, <2>2, <2>3
<1>2. ASSUME NEW i \in Held(d) PROVE Id(d[i]) \notin se
  BY DEF Flow
<1>3. ASSUME NEW i \in Held(d), NEW k \in Held(d), i < k, d[i][1] = d[k][1]
      PROVE  d[i][2] < d[k][2]
  <2>1. f[i] \in Held(b) /\ f[k] \in Held(b) /\ f[i] < f[k]
    BY <1>3
  <2> QED  BY <1>3, <2>1 DEF Flow
<1> QED  BY <1>1, <1>2, <1>3 DEF Flow

\* The sentinel is taken, and put: no event moves past another.
LEMMA FlowSkips ==
  ASSUME NEW a \in Seq({Sentinel} \cup EventTuples), NEW u \in Seq({Sentinel} \cup EventTuples),
         u # <<>>, Head(u) = Sentinel, NEW se, NEW n \in [Requests -> Nat], Flow(a \o u, se, n)
  PROVE  Flow(a \o Tail(u), se, n)
<1>b. PICK b : b = a \o u
  OBVIOUS
<1>d. PICK d : d = a \o Tail(u)
  OBVIOUS
<1>1. /\ b \in Seq({Sentinel} \cup EventTuples) /\ d \in Seq({Sentinel} \cup EventTuples)
      /\ Len(a) \in Nat /\ Len(u) \in Nat /\ Len(u) > 0
      /\ Len(b) = Len(a) + Len(u) /\ Len(d) = Len(a) + Len(u) - 1
  BY <1>b, <1>d
<1>2. /\ \A i \in 1..Len(a) : b[i] = a[i] /\ d[i] = a[i]
      /\ b[Len(a) + 1] = Sentinel
      /\ \A i \in Len(a) + 1 .. Len(d) : d[i] = b[i + 1]
  <2>1. \A i \in 1..Len(a) : b[i] = a[i] /\ d[i] = a[i]
    BY <1>b, <1>d, <1>1
  <2>2. b[Len(a) + 1] = u[1] /\ u[1] = Head(u)
    BY <1>b, <1>1
  <2>3. ASSUME NEW i \in Len(a) + 1 .. Len(d) PROVE d[i] = b[i + 1]
    <3>1. d[i] = Tail(u)[i - Len(a)] /\ i - Len(a) \in 1..Len(u) - 1
      BY <1>d, <1>1
    <3>2. Tail(u)[i - Len(a)] = u[i - Len(a) + 1]
      BY <3>1, <1>1
    <3>3. b[i + 1] = u[i + 1 - Len(a)]
      BY <1>b, <1>1
    <3>4. i - Len(a) + 1 = i + 1 - Len(a)
      BY <1>1
    <3> QED  BY <3>1, <3>2, <3>3, <3>4
  <2> QED  BY <2>1, <2>2, <2>3
<1>3. PICK f : f = [i \in Held(d) |-> IF i <= Len(a) THEN i ELSE i + 1]
  OBVIOUS
<1>h. /\ \A i : i \in Held(b) <=> i \in 1..Len(b) /\ b[i] # Sentinel
      /\ \A i : i \in Held(d) <=> i \in 1..Len(d) /\ d[i] # Sentinel
  BY <1>1 DEF Held
<1>4. ASSUME NEW i \in Held(d)
      PROVE  /\ f[i] = (IF i <= Len(a) THEN i ELSE i + 1) /\ i \in 1..Len(d)
             /\ f[i] \in Held(b) /\ d[i] = b[f[i]]
  <2>1. f[i] = (IF i <= Len(a) THEN i ELSE i + 1) /\ i \in 1..Len(d) /\ d[i] # Sentinel
    BY <1>3, <1>h
  <2>2. CASE i <= Len(a)
    <3>1. f[i] = i /\ i \in 1..Len(a) /\ i \in 1..Len(b)
      BY <2>1, <2>2, <1>1
    <3> QED  BY <3>1, <2>1, <1>2, <1>h
  <2>3. CASE ~(i <= Len(a))
    <3>1. f[i] = i + 1 /\ i \in Len(a) + 1 .. Len(d) /\ i + 1 \in 1..Len(b)
      BY <2>1, <2>3, <1>1
    <3> QED  BY <3>1, <2>1, <1>2, <1>h
  <2> QED  BY <2>2, <2>3
<1>5. f \in [Held(d) -> Held(b)]
  BY <1>3, <1>4
<1>6. ASSUME NEW i \in Held(b) PROVE \E k \in Held(d) : f[k] = i
  <2>0. i \in 1..Len(b) /\ b[i] # Sentinel /\ i # Len(a) + 1
    BY <1>h, <1>2
  <2>1. CASE i <= Len(a)
    <3>1. i \in 1..Len(a) /\ i \in 1..Len(d)
      BY <2>0, <2>1, <1>1
    <3>2. i \in Held(d)
      BY <3>1, <2>0, <1>2, <1>h
    <3> QED  BY <3>2, <2>1, <1>4
  <2>2. CASE i > Len(a) + 1
    <3>1. PICK k \in Len(a) + 1 .. Len(d) : k + 1 = i /\ k \in 1..Len(d) /\ ~(k <= Len(a))
      <4>1. i - 1 \in Len(a) + 1 .. Len(d) /\ i - 1 + 1 = i /\ i - 1 \in 1..Len(d)
        BY <2>0, <2>2, <1>1
      <4>2. ~(i - 1 <= Len(a))
        BY <2>0, <2>2, <1>1
      <4> QED  BY <4>1, <4>2
    <3>2. k \in Held(d)
      BY <3>1, <2>0, <1>2, <1>h
    <3> QED  BY <3>1, <3>2, <1>4
  <2> QED  BY <2>0, <2>1, <2>2, <1>1
<1>7. ASSUME NEW i \in Held(d), NEW k \in Held(d), i < k PROVE f[i] < f[k]
  <2>1. i \in Nat /\ k \in Nat
    BY <1>4
  <2> QED  BY <1>7, <2>1, <1>1, <1>4
<1>8. Flow(d, se, n)
  BY <1>1, <1>4, <1>5, <1>6, <1>7, <1>b, FlowSame
<1> QED  BY <1>8, <1>d

\* The sentinel put behind what waits.
LEMMA FlowEnds ==
  ASSUME NEW b \in Seq({Sentinel} \cup EventTuples), NEW se, NEW n \in [Requests -> Nat],
         Flow(b, se, n)
  PROVE  Flow(Append(b, Sentinel), se, n)
<1>d. PICK d : d = Append(b, Sentinel)
  OBVIOUS
<1>1. d \in Seq({Sentinel} \cup EventTuples)
  BY <1>d
<1>2. Held(d) = Held(b) /\ \A i \in Held(d) : d[i] = b[i] /\ i \in Nat
  <2>1. \A i \in Held(b) : i \in Held(d) /\ d[i] = b[i] /\ i \in Nat
    BY <1>d, HeldAppend
  <2>2. \A i \in Held(d) : i \in Held(b)
    BY <1>d, HeldAppend
  <2> QED  BY <2>1, <2>2
<1>3. PICK f : f = [i \in Held(d) |-> i]
  OBVIOUS
<1>4. f \in [Held(d) -> Held(b)] /\ \A i \in Held(d) : f[i] = i
  BY <1>2, <1>3
<1>5. /\ \A i \in Held(d) : d[i] = b[f[i]]
      /\ \A i \in Held(b) : \E k \in Held(d) : f[k] = i
      /\ \A i, k \in Held(d) : i < k => f[i] < f[k]
  BY <1>2, <1>4
<1>6. Flow(d, se, n)
  BY <1>1, <1>4, <1>5, FlowSame
<1> QED  BY <1>6, <1>d

\* The oldest event is persisted.
LEMMA FlowDone ==
  ASSUME NEW b \in Seq({Sentinel} \cup EventTuples), b # <<>>, b[1] \in EventTuples,
         NEW se, NEW n \in [Requests -> Nat], Flow(b, se, n)
  PROVE  Flow(Tail(b), se \cup {Id(b[1])}, n)
<1>d. PICK d : d = Tail(b)
  OBVIOUS
<1>1. d \in Seq({Sentinel} \cup EventTuples) /\ Len(d) = Len(b) - 1 /\ Len(b) \in Nat \ {0}
  BY <1>d
<1>2. \A i \in 1..Len(d) : d[i] = b[i + 1]
  BY <1>d, <1>1
<1>h. /\ \A i : i \in Held(b) <=> i \in 1..Len(b) /\ b[i] # Sentinel
      /\ \A i : i \in Held(d) <=> i \in 1..Len(d) /\ d[i] # Sentinel
  BY <1>1 DEF Held
<1>3. 1 \in Held(b)
  BY <1>1, <1>h, EventTuple DEF EventTuples
<1>4. ASSUME NEW i \in Held(d)
      PROVE  i \in Nat /\ i + 1 \in Held(b) /\ d[i] = b[i + 1] /\ 1 < i + 1
  BY <1>1, <1>2, <1>h
<1>5. ASSUME NEW i \in Held(b), i # 1 PROVE i - 1 \in Held(d) /\ d[i - 1] = b[i]
  <2>1. i - 1 \in 1..Len(d) /\ i - 1 + 1 = i
    BY <1>5, <1>1, <1>h
  <2> QED  BY <2>1, <1>2, <1>h
<1>6. ASSUME NEW x \in Requests, NEW m \in Nat \ {0}
      PROVE  m <= n[x] <=> \/ <<x, m>> \in se \cup {Id(b[1])}
                           \/ \E i \in Held(d) : Id(d[i]) = <<x, m>>
  <2>1. m <= n[x] <=> \/ <<x, m>> \in se
                      \/ \E i \in Held(b) : Id(b[i]) = <<x, m>>
    BY DEF Flow
  <2>2. (\E i \in Held(b) : Id(b[i]) = <<x, m>>)
          <=> Id(b[1]) = <<x, m>> \/ (\E i \in Held(d) : Id(d[i]) = <<x, m>>)
    BY <1>3, <1>4, <1>5
  <2> QED  BY <2>1, <2>2
<1>7. ASSUME NEW i \in Held(d) PROVE Id(d[i]) \notin se \cup {Id(b[1])}
  <2>0. i + 1 \in Held(b) /\ d[i] = b[i + 1] /\ 1 < i + 1
    BY <1>4
  <2>1. /\ b[1][2] \in Nat /\ b[i + 1][2] \in Nat
        /\ Id(b[1]) = <<b[1][1], b[1][2]>> /\ Id(b[i + 1]) = <<b[i + 1][1], b[i + 1][2]>>
    BY <2>0, <1>3, WaitingEvent
  <2>2. b[1][1] = b[i + 1][1] => b[1][2] < b[i + 1][2]
    BY <2>0, <1>3 DEF Flow
  <2>3. Id(b[i + 1]) # Id(b[1])
    BY <2>1, <2>2
  <2> QED  BY <2>0, <2>3 DEF Flow
<1>8. ASSUME NEW i \in Held(d), NEW k \in Held(d), i < k, d[i][1] = d[k][1]
      PROVE  d[i][2] < d[k][2]
  <2>1. i + 1 < k + 1
    BY <1>8, <1>4
  <2> QED  BY <1>8, <2>1, <1>4 DEF Flow
<1>9. Flow(d, se \cup {Id(b[1])}, n)
  BY <1>6, <1>7, <1>8 DEF Flow
<1> QED  BY <1>9, <1>d

\* A step of the pipeline alone.
LEMMA PipeOnly ==
  ASSUME IInv, req' = req, piped' = piped, PipeKept', QueueKept(queue)',
         settled' \subseteq Requests \X (Nat \ {0}), (piped => Flow(Backlog, settled, Seqs))'
  PROVE  IInv'
<1>1. ASSUME NEW x \in Requests
      PROVE  ReqInv(x, req[x])' /\ Suspended(req[x])'
  <2>1. PICK p : p = req'[x]
    OBVIOUS
  <2>2. ReqInv(x, p) /\ Suspended(p)
    BY <2>1, IInvParts
  <2>3. ReqInv(x, req[x])'
    BY <2>1, <2>2, NextReq
  <2>4. Suspended(req[x])'
    BY <2>1, <2>2 DEF Suspended, Stream
  <2> QED  BY <2>3, <2>4
<1>2. (req \in [Requests -> UNION {RequestState(x) : x \in Requests}])'
  BY DEF IInv
<1> QED  BY <1>1, <1>2 DEF IInv

\* The same, of what is known of the pipeline before.
LEMMA PipeParts ==
  ASSUME IInv
  PROVE  /\ batch \in Seq(EventTuples) /\ batch \in Seq({Sentinel} \cup EventTuples)
         /\ queue \in Seq({Sentinel} \cup EventTuples)
         /\ PipeKept /\ QueueKept(queue) /\ Seqs \in [Requests -> Nat]
         /\ settled \subseteq Requests \X (Nat \ {0}) /\ piped \in BOOLEAN
         /\ piped => Flow(batch \o queue, settled, Seqs)
         /\ Len(batch) \in Nat /\ Len(queue) \in Nat
<1>1. /\ PipeKept /\ QueueKept(queue) /\ Seqs \in [Requests -> Nat]
      /\ settled \subseteq Requests \X (Nat \ {0}) /\ piped \in BOOLEAN
      /\ piped => Flow(batch \o queue, settled, Seqs)
  BY IInvParts DEF IInv, Backlog, PipeKept
<1>2. batch \in Seq(EventTuples) /\ queue \in Seq({Sentinel} \cup EventTuples)
  BY <1>1 DEF PipeKept, QueueKept, EventTuples
<1>3. batch \in Seq({Sentinel} \cup EventTuples)
  BY <1>2
<1> QED  BY <1>1, <1>2, <1>3

\* Tail of the queue.
LEMMA QueueShrinks ==
  ASSUME NEW u \in Seq({Sentinel} \cup EventTuples), u # <<>>
  PROVE  /\ Tail(u) \in Seq({Sentinel} \cup EventTuples) /\ Len(Tail(u)) = Len(u) - 1
         /\ Head(u) = u[1] /\ 1 \in DOMAIN u /\ Head(u) \in {Sentinel} \cup EventTuples
         /\ \A i \in DOMAIN Tail(u) :
               /\ i + 1 \in DOMAIN u /\ Tail(u)[i] = u[i + 1] /\ i \in Nat /\ i # 0
OBVIOUS

\* Taking the head leaves at most one sentinel, and none behind it.
LEMMA SentinelOnce ==
  ASSUME NEW u \in Seq({Sentinel} \cup EventTuples), u # <<>>,
         \A i, k \in DOMAIN u : u[i] = Sentinel /\ u[k] = Sentinel => i = k
  PROVE  /\ \A i, k \in DOMAIN Tail(u) : Tail(u)[i] = Sentinel /\ Tail(u)[k] = Sentinel => i = k
         /\ Head(u) = Sentinel => \A i \in DOMAIN Tail(u) : Tail(u)[i] # Sentinel
<1>1. /\ Head(u) = u[1] /\ 1 \in DOMAIN u
      /\ \A i \in DOMAIN Tail(u) : i + 1 \in DOMAIN u /\ Tail(u)[i] = u[i + 1] /\ i \in Nat /\ i # 0
  BY QueueShrinks
<1>2. ASSUME NEW i \in DOMAIN Tail(u), NEW k \in DOMAIN Tail(u),
             Tail(u)[i] = Sentinel, Tail(u)[k] = Sentinel
      PROVE  i = k
  <2>1. i + 1 = k + 1
    BY <1>1, <1>2
  <2> QED  BY <1>1, <2>1
<1>3. ASSUME Head(u) = Sentinel, NEW i \in DOMAIN Tail(u) PROVE Tail(u)[i] # Sentinel
  <2>1. i + 1 # 1 /\ i + 1 \in DOMAIN u
    BY <1>1
  <2> QED  BY <1>1, <1>3, <2>1
<1> QED  BY <1>2, <1>3

\* Flow in the next state.
LEMMA FlowNext ==
  ASSUME NEW b, NEW se, NEW n, Backlog' = b, settled' = se, Seqs' = n, piped' = piped,
         piped => Flow(b, se, n)
  PROVE  (piped => Flow(Backlog, settled, Seqs))'
BY DEF Flow, Held

\* The worker takes an event.
LEMMA EventTaken ==
  ASSUME IInv, WorkerGet, Head(queue) # Sentinel, UNCHANGED <<piped, req>>
  PROVE  IInv'
<1>0. /\ worker = "get" /\ queue # <<>> /\ queue' = Tail(queue) /\ stop' = stop
      /\ settled' = settled /\ batch' = Append(batch, Head(queue))
      /\ worker' = (IF Len(batch') >= BatchSize THEN "flush" ELSE "get")
      /\ piped' = piped /\ req' = req
  BY DEF WorkerGet
<1>1. /\ batch \in Seq(EventTuples) /\ batch \in Seq({Sentinel} \cup EventTuples)
      /\ queue \in Seq({Sentinel} \cup EventTuples)
      /\ PipeKept /\ QueueKept(queue) /\ settled \subseteq Requests \X (Nat \ {0})
      /\ piped => Flow(batch \o queue, settled, Seqs)
      /\ Len(batch) \in Nat /\ Len(queue) \in Nat
  BY PipeParts
<1>2. /\ Tail(queue) \in Seq({Sentinel} \cup EventTuples) /\ Len(Tail(queue)) = Len(queue) - 1
      /\ Head(queue) = queue[1] /\ Head(queue) \in EventTuples
      /\ \A i \in DOMAIN Tail(queue) : i + 1 \in DOMAIN queue /\ Tail(queue)[i] = queue[i + 1]
  BY <1>0, <1>1, QueueShrinks
<1>3. batch' \in Seq(EventTuples) /\ Len(batch') = Len(batch) + 1 /\ batch' # <<>>
  BY <1>0, <1>1, <1>2
<1>4. PipeKept'
  <2>1. Len(batch') <= BatchSize /\ (worker' = "get" => Len(batch') < BatchSize)
    BY <1>0, <1>1, <1>3, SizesAssumption DEF PipeKept
  <2>2. worker' \in {"get", "flush"} /\ stop # "stopped"
    BY <1>0, <1>1 DEF PipeKept
  <2> QED  BY <1>0, <1>1, <1>3, <2>1, <2>2 DEF PipeKept, EventTuples
<1>5. QueueKept(queue)'
  <2>1. \A i, k \in DOMAIN queue' : queue'[i] = Sentinel /\ queue'[k] = Sentinel => i = k
    BY <1>0, <1>1, SentinelOnce DEF QueueKept
  <2>2. worker' \in {"get", "flush"}
    BY <1>0
  <2>3. Len(queue') <= QueueSize
    BY <1>0, <1>1, <1>2, SizesAssumption DEF QueueKept
  <2>4. stop \in {"up", "closing"} => \A i \in DOMAIN queue' : queue'[i] # Sentinel
    BY <1>0, <1>1, <1>2 DEF QueueKept
  <2> QED  BY <1>0, <1>2, <2>1, <2>2, <2>3, <2>4 DEF QueueKept, EventTuples
<1>6. (piped => Flow(Backlog, settled, Seqs))'
  <2>1. batch' \o queue' = batch \o queue
    <3>1. ASSUME NEW S, NEW a \in Seq(S), NEW b \in Seq(S), b # <<>>
          PROVE  Append(a, Head(b)) \o Tail(b) = a \o b
      BY <3>1, HeadMoves
    <3> QED  BY <3>1, <1>0, <1>1
  <2>2. Seqs' = Seqs
    BY <1>0 DEF Seqs
  <2>3. Backlog' = batch \o queue
    BY <2>1 DEF Backlog
  <2> QED  BY <2>2, <2>3, <1>0, <1>1, FlowNext
<1> QED  BY <1>0, <1>1, <1>4, <1>5, <1>6, PipeOnly

\* The worker takes the sentinel, and returns or flushes a last time.
LEMMA SentinelTaken ==
  ASSUME IInv, WorkerGet, Head(queue) = Sentinel, UNCHANGED <<piped, req>>
  PROVE  IInv'
<1>0. /\ worker = "get" /\ queue # <<>> /\ queue' = Tail(queue) /\ stop' = stop
      /\ settled' = settled /\ batch' = batch
      /\ worker' = (IF batch = <<>> THEN "done" ELSE "last")
      /\ piped' = piped /\ req' = req
  BY DEF WorkerGet
<1>1. /\ batch \in Seq(EventTuples) /\ batch \in Seq({Sentinel} \cup EventTuples)
      /\ queue \in Seq({Sentinel} \cup EventTuples) /\ Seqs \in [Requests -> Nat]
      /\ PipeKept /\ QueueKept(queue) /\ settled \subseteq Requests \X (Nat \ {0})
      /\ piped => Flow(batch \o queue, settled, Seqs)
      /\ Len(batch) \in Nat /\ Len(queue) \in Nat
  BY PipeParts
<1>2. /\ Tail(queue) \in Seq({Sentinel} \cup EventTuples) /\ Len(Tail(queue)) = Len(queue) - 1
      /\ Head(queue) = queue[1] /\ 1 \in DOMAIN queue
  BY <1>0, <1>1, QueueShrinks
<1>3. stop = "waiting"
  <2>1. stop \notin {"up", "closing"}
    BY <1>1, <1>2 DEF QueueKept
  <2> QED  BY <2>1, <1>0, <1>1 DEF PipeKept
<1>4. PipeKept'
  BY <1>0, <1>1, <1>3 DEF PipeKept
<1>5. QueueKept(queue)'
  <2>1. \A i \in DOMAIN queue' : queue'[i] # Sentinel
    BY <1>0, <1>1, SentinelOnce DEF QueueKept
  <2>3. Len(queue') <= QueueSize
    BY <1>0, <1>1, <1>2, SizesAssumption DEF QueueKept
  <2> QED  BY <1>0, <1>2, <2>1, <2>3 DEF QueueKept, EventTuples
<1>6. (piped => Flow(Backlog, settled, Seqs))'
  <2>1. piped => Flow(batch \o Tail(queue), settled, Seqs)
    BY <1>0, <1>1, FlowSkips
  <2>2. Seqs' = Seqs
    BY <1>0 DEF Seqs
  <2>3. Backlog' = batch \o Tail(queue)
    BY <1>0 DEF Backlog
  <2> QED  BY <2>1, <2>2, <2>3, <1>0, FlowNext
<1> QED  BY <1>0, <1>1, <1>4, <1>5, <1>6, PipeOnly

\* The worker flushes because nothing comes.
LEMMA TickFlushes ==
  ASSUME IInv, WorkerTick, UNCHANGED <<piped, req>>
  PROVE  IInv'
<1>0. /\ worker = "get" /\ batch # <<>> /\ queue' = queue /\ stop' = stop
      /\ settled' = settled /\ batch' = batch /\ worker' = "flush"
      /\ piped' = piped /\ req' = req /\ Seqs' = Seqs
  BY DEF WorkerTick, Seqs
<1>1. /\ PipeKept /\ QueueKept(queue) /\ settled \subseteq Requests \X (Nat \ {0})
      /\ piped => Flow(batch \o queue, settled, Seqs)
  BY PipeParts
<1>2. PipeKept'
  BY <1>0, <1>1 DEF PipeKept
<1>3. QueueKept(queue)'
  BY <1>0, <1>1 DEF QueueKept
<1>4. (piped => Flow(Backlog, settled, Seqs))'
  BY <1>0, <1>1 DEF Backlog, Flow, Held
<1> QED  BY <1>0, <1>1, <1>2, <1>3, <1>4, PipeOnly

\* The head and the tail of two sequences joined.
LEMMA ConcatFirst ==
  ASSUME NEW S, NEW a \in Seq(S), a # <<>>, NEW u \in Seq(S)
  PROVE  /\ a \o u \in Seq(S) /\ a \o u # <<>> /\ (a \o u)[1] = Head(a)
         /\ Tail(a \o u) = Tail(a) \o u
<1>1. /\ a \o u \in Seq(S) /\ Len(a \o u) = Len(a) + Len(u) /\ Len(a) \in Nat \ {0}
      /\ Len(u) \in Nat
  OBVIOUS
<1>2. a \o u # <<>> /\ (a \o u)[1] = Head(a)
  BY <1>1
<1> DEFINE c == Tail(a \o u)
           d == Tail(a) \o u
<1>3. c \in Seq(S) /\ d \in Seq(S) /\ Len(c) = Len(d) /\ Len(c) = Len(a) + Len(u) - 1
  BY <1>1, <1>2
<1>4. ASSUME NEW i \in 1..Len(c) PROVE c[i] = d[i]
  <2>1. c[i] = (a \o u)[i + 1]
    BY <1>1, <1>2, <1>3
  <2>2. CASE i + 1 <= Len(a)
    <3>1. d[i] = Tail(a)[i]
      BY <2>2, <1>1
    <3>2. Tail(a)[i] = a[i + 1]
      BY <2>2, <1>1
    <3>3. (a \o u)[i + 1] = a[i + 1]
      BY <2>2, <1>1
    <3> QED  BY <2>1, <3>1, <3>2, <3>3
  <2>3. CASE ~(i + 1 <= Len(a))
    <3>1. d[i] = u[i - Len(Tail(a))] /\ Len(Tail(a)) = Len(a) - 1
      BY <2>3, <1>1, <1>3
    <3>2. (a \o u)[i + 1] = u[i + 1 - Len(a)]
      BY <2>3, <1>1, <1>3
    <3>3. i + 1 - Len(a) = i - (Len(a) - 1)
      BY <1>1
    <3> QED  BY <2>1, <3>1, <3>2, <3>3
  <2> QED  BY <2>2, <2>3
<1> HIDE DEF c, d
<1>5. c = d
  BY <1>3, <1>4, SeqEqual
<1> QED  BY <1>1, <1>2, <1>5 DEF c, d

\* The worker persists the oldest event of its batch.
LEMMA FirstPersisted ==
  ASSUME IInv, WorkerPersist, UNCHANGED <<piped, req>>
  PROVE  IInv'
<1>0. /\ worker \in {"flush", "last"} /\ queue' = queue /\ stop' = stop
      /\ settled' = settled \cup {Id(Head(batch))} /\ batch' = Tail(batch)
      /\ Tail(batch) # <<>> => worker' = worker
      /\ Tail(batch) = <<>> => worker' = IF worker = "flush" THEN "get" ELSE "done"
      /\ piped' = piped /\ req' = req
  BY DEF WorkerPersist
<1>1. /\ batch \in Seq(EventTuples) /\ batch \in Seq({Sentinel} \cup EventTuples)
      /\ queue \in Seq({Sentinel} \cup EventTuples) /\ Seqs \in [Requests -> Nat]
      /\ PipeKept /\ QueueKept(queue) /\ settled \subseteq Requests \X (Nat \ {0})
      /\ piped => Flow(batch \o queue, settled, Seqs)
      /\ Len(batch) \in Nat /\ Len(queue) \in Nat
  BY PipeParts
<1>2. batch # <<>>
  BY <1>0, <1>1 DEF PipeKept
<1>3. /\ Tail(batch) \in Seq(EventTuples) /\ Len(Tail(batch)) = Len(batch) - 1
      /\ Head(batch) = batch[1] /\ batch[1] \in EventTuples
      /\ Tail(batch) = <<>> => Len(Tail(batch)) = 0
  <2>1. Tail(batch) \in Seq(EventTuples) /\ Len(Tail(batch)) = Len(batch) - 1
    BY <1>1, <1>2
  <2>2. Head(batch) = batch[1] /\ batch[1] \in EventTuples
    BY <1>1, <1>2
  <2>3. \A t : t = <<>> => Len(t) = 0
    OBVIOUS
  <2> QED  BY <2>1, <2>2, <2>3
<1>4. PipeKept'
  <2>1. Len(batch') <= BatchSize /\ (batch' = <<>> => Len(batch') < BatchSize)
    BY <1>0, <1>1, <1>3, SizesAssumption DEF PipeKept
  <2>2. stop # "stopped" /\ (worker = "last" => stop \in {"waiting", "stopped"})
    BY <1>0, <1>1 DEF PipeKept
  <2>3. /\ worker' \in {"get", "flush", "last", "done"}
        /\ worker' = "get" => batch' = <<>>
        /\ worker' = "done" => batch' = <<>> /\ worker = "last"
        /\ worker' = "last" => worker = "last" /\ batch' # <<>>
        /\ worker' = "flush" => batch' # <<>>
    BY <1>0
  <2>4. batch' \in Seq(UNION {Events(x) : x \in Requests})
    BY <1>0, <1>3 DEF EventTuples
  <2> QED  BY <1>0, <1>1, <2>1, <2>2, <2>3, <2>4 DEF PipeKept
<1>5. QueueKept(queue)'
  <2>1. worker' \in {"last", "done"} => worker = "last"
    BY <1>0
  <2> QED  BY <1>0, <1>1, <2>1 DEF QueueKept
<1>6. (piped => Flow(Backlog, settled, Seqs))'
  <2>1. PICK b : b = batch \o queue
    OBVIOUS
  <2>2. /\ b \in Seq({Sentinel} \cup EventTuples) /\ b # <<>> /\ b[1] = Head(batch)
        /\ Tail(b) = Tail(batch) \o queue
    BY <1>1, <1>2, <1>3, <2>1, ConcatFirst
  <2>3. b[1] \in EventTuples
    BY <2>2, <1>3
  <2>4. piped => Flow(Tail(b), settled \cup {Id(b[1])}, Seqs)
    BY <1>1, <2>1, <2>2, <2>3, FlowDone
  <2>5. Seqs' = Seqs /\ Backlog' = Tail(b) /\ settled' = settled \cup {Id(b[1])}
    BY <1>0, <2>2 DEF Seqs, Backlog
  <2> QED  BY <2>4, <2>5, <1>0, FlowNext
<1>7. settled' \subseteq Requests \X (Nat \ {0})
  <2>1. PICK x \in Requests : batch[1] \in Events(x)
    BY <1>3 DEF EventTuples
  <2> QED  BY <2>1, <1>0, <1>1, <1>3, EventTuple
<1> QED  BY <1>0, <1>4, <1>5, <1>6, <1>7, PipeOnly

\* stop finds room for its sentinel.
LEMMA SentinelPut ==
  ASSUME IInv, PutSentinel, UNCHANGED <<piped, req>>
  PROVE  IInv'
<1>0. /\ stop = "closing" /\ Len(queue) < QueueSize /\ queue' = Append(queue, Sentinel)
      /\ stop' = "waiting" /\ batch' = batch /\ worker' = worker /\ settled' = settled
      /\ piped' = piped /\ req' = req
  BY DEF PutSentinel
<1>1. /\ batch \in Seq({Sentinel} \cup EventTuples)
      /\ queue \in Seq({Sentinel} \cup EventTuples) /\ Seqs \in [Requests -> Nat]
      /\ PipeKept /\ QueueKept(queue) /\ settled \subseteq Requests \X (Nat \ {0})
      /\ piped => Flow(batch \o queue, settled, Seqs)
      /\ Len(queue) \in Nat
  BY PipeParts
<1>2. /\ \A i \in DOMAIN queue : queue[i] # Sentinel
      /\ worker \in {"get", "flush"}
  BY <1>0, <1>1 DEF QueueKept, PipeKept
<1>3. /\ queue' \in Seq({Sentinel} \cup EventTuples) /\ Len(queue') = Len(queue) + 1
      /\ \A i \in DOMAIN queue' : i = Len(queue) + 1 \/ (i \in DOMAIN queue /\ queue'[i] = queue[i])
  BY <1>0, <1>1
<1>4. PipeKept'
  BY <1>0, <1>1, <1>2 DEF PipeKept
<1>5. QueueKept(queue)'
  <2>1. Len(queue') <= QueueSize
    BY <1>0, <1>1, <1>3, SizesAssumption
  <2>2. \A i, k \in DOMAIN queue' : queue'[i] = Sentinel /\ queue'[k] = Sentinel => i = k
    BY <1>2, <1>3
  <2> QED  BY <1>0, <1>2, <1>3, <2>1, <2>2 DEF QueueKept, EventTuples
<1>6. (piped => Flow(Backlog, settled, Seqs))'
  <2>1. PICK b : b = batch \o queue
    OBVIOUS
  <2>2. b \in Seq({Sentinel} \cup EventTuples) /\ batch \o queue' = Append(b, Sentinel)
    <3>1. Sentinel \in {Sentinel} \cup EventTuples
      OBVIOUS
    <3> QED  BY <3>1, <1>0, <1>1, <2>1, AppendConcat
  <2>4. piped => Flow(Append(b, Sentinel), settled, Seqs)
    BY <1>1, <2>1, <2>2, FlowEnds
  <2>5. Seqs' = Seqs /\ Backlog' = Append(b, Sentinel)
    BY <1>0, <2>2 DEF Seqs, Backlog
  <2> QED  BY <2>4, <2>5, <1>0, FlowNext
<1> QED  BY <1>0, <1>1, <1>4, <1>5, <1>6, PipeOnly

\* The rest of the lifespan's end, and nothing at all.
LEMMA StopKept ==
  ASSUME IInv, UNCHANGED <<queue, batch, worker, settled, piped, req>>,
         \/ stop = "up" /\ stop' = "closing"
         \/ JoinWorker
         \/ stop' = stop
  PROVE  IInv'
<1>0. /\ queue' = queue /\ batch' = batch /\ worker' = worker /\ settled' = settled
      /\ piped' = piped /\ req' = req /\ Seqs' = Seqs /\ Backlog' = batch \o queue
  BY DEF Seqs, Backlog
<1>1. /\ PipeKept /\ QueueKept(queue) /\ settled \subseteq Requests \X (Nat \ {0})
      /\ piped => Flow(batch \o queue, settled, Seqs)
  BY PipeParts
<1>2. PipeKept'
  BY <1>0, <1>1 DEF PipeKept, JoinWorker
<1>3. QueueKept(queue)'
  BY <1>0, <1>1 DEF QueueKept, JoinWorker
<1>4. (piped => Flow(Backlog, settled, Seqs))'
  BY <1>0, <1>1, FlowNext
<1> QED  BY <1>0, <1>1, <1>2, <1>3, <1>4, PipeOnly

\* Every step of the pipeline keeps the invariant.
LEMMA PipelineKept ==
  ASSUME IInv, Pipeline
  PROVE  IInv'
<1>1. CASE WorkerGet
  BY <1>1, EventTaken, SentinelTaken DEF Pipeline
<1>2. CASE WorkerTick
  BY <1>2, TickFlushes DEF Pipeline
<1>3. CASE WorkerPersist
  BY <1>3, FirstPersisted DEF Pipeline
<1>4. CASE PutSentinel
  BY <1>4, SentinelPut DEF Pipeline
<1>5. CASE JoinWorker
  BY <1>5, StopKept DEF Pipeline, JoinWorker
<1> QED  BY <1>1, <1>2, <1>3, <1>4, <1>5 DEF Pipeline, PipeNext

\* No request has begun.
LEMMA InitKept == AskInit => IInv
<1> SUFFICES ASSUME AskInit PROVE IInv
  OBVIOUS
<1>0. /\ queue = <<>> /\ batch = <<>> /\ settled = {} /\ worker = "get" /\ stop = "up"
      /\ piped \in BOOLEAN
  BY KindsAssumption DEF AskInit, PipeInit
<1>1. PipeKept
  BY <1>0, SizesAssumption DEF PipeKept
<1>2. QueueKept(queue)
  BY <1>0, SizesAssumption DEF QueueKept
<1>3. ASSUME NEW r \in Requests
      PROVE  /\ ReqInv(r, req[r]) /\ Suspended(req[r]) /\ req[r].seq = 0
             /\ req[r] \in RequestState(r)
  <2>1. PICK k \in Kinds :
          req[r] = [kind |-> k, pc |-> "new", relay |-> <<>>, task |-> "none", left |-> MaxEmits,
             det |-> FALSE, rows |-> FALSE, seq |-> 0, put |-> [w \in Emitters |-> <<>>],
             inbox |-> <<>>, budget |-> "none", line |-> "none", traced |-> <<>>,
             out |-> "open", status |-> "none", logged |-> <<>>,
             bg |-> [w \in Writers |-> "idle"], saved |-> FALSE]
    BY DEF AskInit
  <2>q. PICK q : q = req[r]
    OBVIOUS
  <2>2. /\ q \in RequestState(r) /\ q.kind \in Kinds /\ q.pc = "new" /\ q.relay = <<>>
        /\ q.task = "none" /\ q.seq = 0 /\ \A w \in Emitters : q.put[w] = <<>>
        /\ q.inbox = <<>> /\ q.budget = "none" /\ q.line = "none" /\ q.traced = <<>>
        /\ q.out = "open" /\ q.logged = <<>> /\ q.saved = FALSE
    <3>1. MaxEmits \in 0..MaxEmits  BY KindsAssumption
    <3>2. "new" \in Labels /\ "none" \in TaskStates /\ "none" \in Lines
      BY DEF Labels, Stops, Waits, TaskStates, Lines
    <3> QED  BY <2>1, <2>q, <3>1, <3>2 DEF RequestState
  <2>3. Placed(q) /\ LineKept(q) /\ LineEnds(q) /\ LateKept(q) /\ TaskKept(q) /\ SaveKept(q)
    <3>1. "main" \in Emitters  BY DEF Emitters
    <3> QED
      BY <2>2, <3>1 DEF Placed, LineKept, LinesAt, LineEnds, LateKept, TaskKept,
         TasksAt, SaveKept
  <2>4. LogKept(q) /\ LogLate(q)
    BY <2>2 DEF LogKept, LogLate, LoggedRejected, LoggedClarify, LoggedOk, Replied
  <2>5. TraceKept(q) /\ PutKept(q)
    <3>1. Trace(q) = <<>>
      BY <2>2 DEF Trace
    <3> QED  BY <3>1, <2>2 DEF TraceKept, Clean, PutKept
  <2>6. CompleteKept(q)
    BY <2>2 DEF CompleteKept
  <2>7. Suspended(q)
    BY <2>2 DEF Suspended, Stops, Waits
  <2> QED  BY <2>q, <2>2, <2>3, <2>4, <2>5, <2>6, <2>7 DEF ReqInv
<1>4. Flow(Backlog, settled, Seqs)
  <2>1. \A x \in Requests : Seqs[x] = 0
    BY <1>3 DEF Seqs
  <2>2. Backlog = <<>> /\ Held(<<>>) = {}
    BY <1>0 DEF Backlog, Held
  <2> QED  BY <1>0, <2>1, <2>2 DEF Flow
<1>5. req \in [Requests -> UNION {RequestState(x) : x \in Requests}]
  <2>1. DOMAIN req = Requests /\ req = [x \in Requests |-> req[x]]
    BY DEF AskInit
  <2> QED  BY <2>1, <1>3
<1>6. settled \subseteq Requests \X (Nat \ {0})
  BY <1>0
<1> QED  BY <1>1, <1>2, <1>3, <1>4, <1>5, <1>6 DEF IInv

----------------------------------------------------------------------------
(* Every step keeps the invariant, and is one of these.                     *)
Shown ==
    \/ req' = req
    \/ \E r \in Requests : Quiet(r) \/ Says(r, Code[req[r].pc]) \/ Broken(r) \/ Gone(r)

\* Every step of a handler that needs no model, store or database.
LEMMA HandlerKept ==
  ASSUME IInv, NEW r \in Requests, Handler(r)
  PROVE  IInv' /\ (Quiet(r) \/ Says(r, Code[req[r].pc]) \/ Broken(r))
<1>1. CASE Poll(r)  BY <1>1, PollKept
<1>2. CASE AwaitTask(r)  BY <1>2, AwaitTaskKept
<1>3. CASE CheckDone(r)  BY <1>3, CheckDoneKept
<1>4. CASE CheckLate(r)  BY <1>4, CheckLateKept
<1>5. CASE CheckEarly(r)  BY <1>5, CheckEarlyKept
<1>6. CASE AwaitCancelled(r)  BY <1>6, AwaitCancelledKept
<1>7. CASE ExecuteTimesOut(r)  BY <1>7, ExecuteTimesOutKept
<1>8. CASE AskTimesOut(r)  BY <1>8, AskTimesOutKept
<1>9. CASE Send(r)  BY <1>9, SendKept
<1>10. CASE Persisted(r, "main")
  <2>1. "main" \in Emitters  BY DEF Emitters
  <2> QED  BY <1>10, <2>1, PersistedKept
<1> QED  BY <1>1, <1>2, <1>3, <1>4, <1>5, <1>6, <1>7, <1>8, <1>9, <1>10 DEF Handler

\* Every step in which one of them answers or fails, or a request arrives.
LEMMA AnswersKept ==
  ASSUME IInv, NEW r \in Requests, Answers(r)
  PROVE  IInv' /\ (Quiet(r) \/ Broken(r))
BY ArriveKept, CacheEmitsKept, LookupRaisesKept, AskHitKept, AskMissKept, ExecutedKept,
   StoredKept DEF Answers

\* Every step beside the handler.
LEMMA BesideKept ==
  ASSUME IInv, NEW r \in Requests,
         Background(r) \/ Generation(r) \/ CancelLands(r) \/ Tick(r)
  PROVE  IInv' /\ Quiet(r)
<1>1. CASE Background(r)
  <2>1. PICK w \in Writers :
          \/ FailureBegins(r, w) \/ FailureWrites(r, w) \/ FailureEnds(r, w)
          \/ Persisted(r, w)
    BY <1>1 DEF Background
  <2>2. w \in Emitters  BY DEF Emitters
  <2> QED  BY <2>1, <2>2, FailureBeginsKept, FailureWritesKept, FailureEndsKept, PersistedKept
<1>2. CASE Generation(r)
  <2>1. "task" \in Emitters  BY DEF Emitters
  <2> QED  BY <1>2, <2>1, TaskEmitsKept, TaskEndsKept, PersistedKept DEF Generation
<1>3. CASE CancelLands(r)  BY <1>3, CancelLandsKept
<1>4. CASE Tick(r)  BY <1>4, TickKept
<1> QED  BY <1>1, <1>2, <1>3, <1>4

\* The invariant is inductive.
LEMMA NextKept ==
  ASSUME IInv, [Next]_vars
  PROVE  IInv' /\ Shown
<1>1. ASSUME NEW r \in Requests, Handler(r) PROVE IInv' /\ Shown
  BY <1>1, HandlerKept DEF Shown
<1>2. ASSUME NEW r \in Requests, Answers(r) PROVE IInv' /\ Shown
  BY <1>2, AnswersKept DEF Shown
<1>3. ASSUME NEW r \in Requests, Background(r) \/ Generation(r) \/ CancelLands(r) \/ Tick(r)
      PROVE  IInv' /\ Shown
  BY <1>3, BesideKept DEF Shown
<1>4. ASSUME NEW r \in Requests, Disconnect(r) PROVE IInv' /\ Shown
  BY <1>4, DisconnectKept DEF Shown
<1>5. CASE BeginStop
  BY <1>5, StopKept DEF BeginStop, Shown
<1>6. CASE Pipeline
  BY <1>6, PipelineKept DEF Pipeline, Shown
<1>7. CASE UNCHANGED vars
  BY <1>7, StopKept DEF vars, pipeVars, Shown
<1> QED  BY <1>1, <1>2, <1>3, <1>4, <1>5, <1>6, <1>7 DEF Next

\* It holds of every behaviour.
LEMMA Invariance == Spec => []IInv
<1>1. AskInit => IInv
  BY InitKept
<1>2. IInv /\ [Next]_vars => IInv'
  BY NextKept
<1> QED  BY <1>1, <1>2, PTL DEF Spec

----------------------------------------------------------------------------
(* What the invariant implies.                                              *)
LEMMA TypeHolds == IInv => TypeOK
<1> SUFFICES ASSUME IInv PROVE TypeOK
  OBVIOUS
<1>1. PipeKept /\ QueueKept(queue) /\ settled \subseteq Requests \X (Nat \ {0})
  BY PipeParts
<1>2. \A r \in Requests : req[r] \in RequestState(r) /\ Suspended(req[r])
  BY IInvParts
<1> QED  BY <1>1, <1>2 DEF PipeKept, QueueKept, TypeOK

\* It implies that the trace is relayed up to its complete event, ...
LEMMA TraceHolds == IInv => TraceRelayed
<1> SUFFICES ASSUME IInv, NEW r \in Requests, IsStream(r)
             PROVE  /\ \A i, k \in DOMAIN Relayed(r) :
                           Relayed(r)[i][2] = Relayed(r)[k][2] => i = k
                    /\ Served(r) => \E i \in DOMAIN Relayed(r) : Relayed(r)[i][3] = "complete"
                    /\ piped => \A i \in DOMAIN Relayed(r) : Relayed(r)[i][2] = i
  BY DEF TraceRelayed
<1>q. PICK q : q = req[r]
  OBVIOUS
<1>1. /\ q \in RequestState(r) /\ TraceKept(q) /\ CompleteKept(q) /\ Stream(q)
  BY <1>q, IInvParts DEF ReqInv, IsStream
<1>2. Clean(q.traced)
  <2>1. CASE q.out = "gone"
    BY <1>1, <2>1 DEF TraceKept
  <2>2. CASE q.out # "gone"
    <3>1. /\ q.traced \in Seq(Events(r)) /\ q.relay \in Seq(Events(r))
          /\ q.inbox \in Seq(Events(r)) /\ q.traced \o q.relay \in Seq(Events(r))
      <4>1. /\ q.traced \in Seq(Events(r)) /\ q.relay \in Seq(Events(r))
            /\ q.inbox \in Seq(Events(r))
        BY <1>1 DEF RequestState
      <4> QED  BY <4>1
    <3>2. Clean((q.traced \o q.relay) \o q.inbox)
      BY <1>1, <2>2 DEF TraceKept, Trace
    <3>3. Clean(q.traced \o q.relay)
      BY <3>1, <3>2, CleanPrefix
    <3> QED  BY <3>1, <3>3, CleanPrefix
  <2> QED  BY <2>1, <2>2
<1>3. q.out = "closed" => HasComplete(q.traced)
  BY <1>1 DEF CompleteKept
<1> QED  BY <1>2, <1>3, <1>q DEF Clean, HasComplete, Relayed, Served

\* ... that an answered request has no task at work, ...
LEMMA WorkHolds == IInv => NoWorkLeft
<1> SUFFICES ASSUME IInv, NEW r \in Requests, Served(r)
             PROVE  req[r].task \notin Working \cup {"cancelling"}
  BY DEF NoWorkLeft
<1>1. Placed(req[r]) /\ TaskKept(req[r])
  BY IInvParts DEF ReqInv
<1> QED  BY <1>1 DEF Placed, TaskKept, TasksAt, Served, Working

\* ... that its outcome is in the request log, ...
LEMMA LogHolds == IInv => OutcomeLogged
<1> SUFFICES ASSUME IInv, NEW r \in Requests
             PROVE  LET q == req[r] IN
                    /\ Served(r) /\ q.logged # <<>> => Last(q.logged) = q.status
                    /\ q.logged = <<>> /\ Served(r) => q.kind = "ask" /\ q.budget = "none"
                    /\ Len(q.logged) > 1 =>
                          /\ q.kind = "ask" /\ Len(q.logged) = 2 /\ Last(q.logged) = "rejected"
                          /\ piped => Head(q.logged) = "ok"
                    /\ q.saved =>
                          /\ q.rows
                          /\ q.out # "open" => "ok" \in ToSet(q.logged)
                          /\ IsStream(r) /\ Served(r) => q.status = "ok"
  BY DEF OutcomeLogged
<1>q. PICK q : q = req[r]
  OBVIOUS
<1>1. /\ q \in RequestState(r) /\ Placed(q) /\ LogKept(q) /\ LogLate(q) /\ SaveKept(q)
  BY <1>q, IInvParts DEF ReqInv
<1>s. /\ q.logged \in Seq(Statuses) /\ Len(q.logged) \in Nat /\ q.status \in Statuses \cup {"none"}
      /\ q.logged = <<>> => Len(q.logged) = 0
  <2>1. q.logged \in Seq(Statuses) /\ q.status \in Statuses \cup {"none"}
    BY <1>1 DEF RequestState
  <2>2. \A t : t = <<>> => Len(t) = 0
    OBVIOUS
  <2> QED  BY <2>1, <2>2
<1>c. q.out = "closed" => q.pc = "over"
  BY <1>1 DEF Placed
<1>2. ASSUME q.out = "closed", q.logged # <<>> PROVE Last(q.logged) = q.status
  <2>1. CASE q.budget = "over"
    BY <1>1, <1>2, <1>c, <2>1 DEF LogLate
  <2>2. CASE q.budget # "over"
    <3>1. q.logged = <<q.status>>
      BY <1>1, <1>2, <2>2 DEF LogKept, Hit
    <3>2. Last(<<q.status>>) = q.status
      BY DEF Last
    <3> QED  BY <3>1, <3>2
  <2> QED  BY <2>1, <2>2
<1>3. ASSUME q.out = "closed", q.logged = <<>> PROVE q.kind = "ask" /\ q.budget = "none"
  <2>1. q.budget # "over"
    BY <1>1, <1>3, <1>c, <1>s DEF LogLate
  <2>2. q.logged = <<q.status>> \/ Hit(q)
    BY <1>1, <1>3, <2>1 DEF LogKept
  <2> QED  BY <2>2, <1>3 DEF Hit
<1>4. ASSUME Len(q.logged) > 1
      PROVE  /\ q.kind = "ask" /\ Len(q.logged) = 2 /\ Last(q.logged) = "rejected"
             /\ piped => Head(q.logged) = "ok"
  <2>1. q.budget = "over"
    BY <1>1, <1>4, <1>s DEF LogKept
  <2>2. q.pc # "lateAsk"
    BY <1>1, <1>4, <1>s, <2>1 DEF LogLate
  <2>3. Len(q.logged) = 2
    <3>1. Len(q.logged) \in {1, 2}
      BY <1>1, <2>1, <2>2 DEF LogLate
    <3> QED  BY <3>1, <1>4
  <2> QED  BY <1>1, <2>1, <2>2, <2>3 DEF LogLate
<1>5. ASSUME q.saved, q.out # "open" PROVE "ok" \in ToSet(q.logged)
  <2>1. PICK i \in DOMAIN q.logged : q.logged[i] = "ok"
    BY <1>1, <1>5 DEF SaveKept, Placed
  <2> QED  BY <2>1 DEF ToSet
<1>6. ASSUME q.saved, Stream(q), q.out = "closed" PROVE q.status = "ok"
  <2>1. q.budget # "over"
    BY <1>1, <1>6 DEF LogLate, Stream
  <2>2. q.logged = <<q.status>>
    BY <1>1, <1>6, <2>1 DEF LogKept, Hit, Stream
  <2>3. PICK i \in DOMAIN q.logged : q.logged[i] = "ok"
    BY <1>1, <1>6, <1>c DEF SaveKept
  <2>4. \A x : DOMAIN <<x>> = {1} /\ <<x>>[1] = x
    OBVIOUS
  <2> QED  BY <2>2, <2>3, <2>4
<1>7. q.saved => q.rows
  BY <1>1 DEF SaveKept
<1> QED  BY <1>q, <1>2, <1>3, <1>4, <1>5, <1>6, <1>7 DEF Served, IsStream

\* ... and that the pipeline accounts for every event.
LEMMA NothingLost == IInv => NothingVanishes
<1> SUFFICES ASSUME IInv, piped PROVE NothingVanishes
  BY DEF NothingVanishes
<1>1. /\ batch \in Seq({Sentinel} \cup EventTuples) /\ batch \in Seq(EventTuples)
      /\ queue \in Seq({Sentinel} \cup EventTuples)
      /\ PipeKept /\ QueueKept(queue) /\ Seqs \in [Requests -> Nat]
      /\ settled \subseteq Requests \X (Nat \ {0})
      /\ Flow(batch \o queue, settled, Seqs)
  BY PipeParts
<1>b. PICK b : b = Backlog
  OBVIOUS
<1>2. b \in Seq({Sentinel} \cup EventTuples) /\ Flow(b, settled, Seqs)
  BY <1>1, <1>b DEF Backlog
<1>n. \A x \in Requests : Seqs[x] = req[x].seq /\ Seqs[x] \in Nat
  BY <1>1, IInvParts
<1>h. Held(b) = {i \in DOMAIN Backlog : Backlog[i] # Sentinel}
  BY <1>b DEF Held
<1>w. ASSUME NEW i \in Held(b)
      PROVE  /\ b[i][1] \in Requests /\ b[i][2] \in Nat \ {0}
             /\ Id(b[i]) = <<b[i][1], b[i][2]>>
  BY <1>2, WaitingEvent
<1>3. settled \cup {Id(b[i]) : i \in Held(b)} = UNION {{x} \X (1..req[x].seq) : x \in Requests}
  <2>1. ASSUME NEW x \in Requests, NEW m \in Nat \ {0}
        PROVE  m \in 1..req[x].seq <=> <<x, m>> \in settled \cup {Id(b[i]) : i \in Held(b)}
    <3>1. m \in 1..req[x].seq <=> m <= Seqs[x]
      BY <1>n
    <3> QED  BY <3>1, <1>2 DEF Flow
  <2>2. ASSUME NEW v \in settled \cup {Id(b[i]) : i \in Held(b)}
        PROVE  v \in UNION {{x} \X (1..req[x].seq) : x \in Requests}
    <3>1. PICK x \in Requests, m \in Nat \ {0} : v = <<x, m>>
      BY <1>1, <1>w
    <3>2. m \in 1..req[x].seq
      BY <2>1, <2>2, <3>1
    <3> QED  BY <3>1, <3>2
  <2>3. ASSUME NEW v \in UNION {{x} \X (1..req[x].seq) : x \in Requests}
        PROVE  v \in settled \cup {Id(b[i]) : i \in Held(b)}
    <3>1. PICK x \in Requests : v \in {x} \X (1..req[x].seq)
      OBVIOUS
    <3>2. PICK m \in 1..req[x].seq : v = <<x, m>>
      BY <3>1
    <3>3. m \in Nat \ {0}
      BY <1>n
    <3> QED  BY <3>2, <3>3, <2>1
  <2> QED  BY <2>2, <2>3
<1>4. \A i \in Held(b) : Id(b[i]) \notin settled
  BY <1>2 DEF Flow
<1>5. \A i, k \in Held(b) : i < k /\ b[i][1] = b[k][1] => b[i][2] < b[k][2]
  BY <1>2 DEF Flow
<1>6. worker = "done" => batch = <<>> /\ \A i \in DOMAIN queue : queue[i] # Sentinel
  BY <1>1 DEF PipeKept, QueueKept
<1> QED  BY <1>3, <1>4, <1>5, <1>6, <1>b, <1>h DEF NothingVanishes

\* Every variable has its type, and a handler suspends where asyncio lets it:
\* no request of main.py is ever seen between two operations.
THEOREM TypeCorrect == Spec => []TypeOK
BY Invariance, TypeHolds, PTL

\* A stream of ask_stream that reaches its end relayed the trace up to its
\* complete event, no event twice, and with a pipeline in order and without gaps.
THEOREM TraceIsRelayed == Spec => []TraceRelayed
BY Invariance, TraceHolds, PTL

\* A handler that has answered leaves no task of its own at work or being
\* cancelled.
THEOREM NoWorkIsLeft == Spec => []NoWorkLeft
BY Invariance, WorkHolds, PTL

\* What _log_request_event has logged agrees with what was replied, and a
\* question is saved as a pattern only together with the log of its success.
THEOREM OutcomeIsLogged == Spec => []OutcomeLogged
BY Invariance, LogHolds, PTL

\* Every event emitted waits, was dropped at a full queue or was handed to
\* persist_event, once, in the order of its request's emits; a worker that
\* has returned left no batch and no sentinel behind.
THEOREM NothingEverVanishes == Spec => []NothingVanishes
BY Invariance, NothingLost, PTL

----------------------------------------------------------------------------
(* The refinement of StreamProtocol.                                        *)
\* Line y may come behind line x.
Allowed(x, y) ==
    y \in IF x \in DOMAIN Protocol!Following THEN Protocol!Following[x]
          ELSE IF x \in DOMAIN Protocol!Deciding THEN Protocol!Deciding[x]
          ELSE IF x \in Protocol!Verdicts THEN {"final"} ELSE {}

\* What the protocol allows behind a line.
LEMMA Order ==
  /\ Allowed("none", "started") /\ Allowed("started", "sql_generation_started")
  /\ \A x \in SqlLines, y \in {"sql_generation_running", "sql_generation_rejected",
                               "sql_generation_finished", "timeout"} : Allowed(x, y)
  /\ Allowed("sql_generation_finished", "row_cap_applied")
  /\ \A x \in {"sql_generation_finished", "row_cap_applied"} : Allowed(x, "execution_started")
  /\ \A y \in {"execution_failed", "execution_finished", "timeout"} :
        Allowed("execution_started", y)
  /\ Allowed("execution_finished", "answer_generation_started")
  /\ \A x \in AnswerLines, y \in {"answer_generation_running", "answer_generation_finished",
                                  "timeout"} : Allowed(x, y)
  /\ \A x \in Verdicts : Allowed(x, "final")
<1>1. /\ Allowed("none", "started") /\ Allowed("started", "sql_generation_started")
      /\ Allowed("sql_generation_finished", "row_cap_applied")
      /\ \A x \in {"sql_generation_finished", "row_cap_applied"} :
            Allowed(x, "execution_started")
      /\ Allowed("execution_finished", "answer_generation_started")
  BY DEF Allowed, Protocol!Following
<1>2. /\ \A x \in SqlLines, y \in {"sql_generation_running", "sql_generation_rejected",
                                   "sql_generation_finished", "timeout"} : Allowed(x, y)
      /\ \A y \in {"execution_failed", "execution_finished", "timeout"} :
            Allowed("execution_started", y)
      /\ \A x \in AnswerLines, y \in {"answer_generation_running", "answer_generation_finished",
                                      "timeout"} : Allowed(x, y)
  BY DEF Allowed, Protocol!Following, Protocol!Deciding, SqlLines, AnswerLines
<1>3. \A x \in Verdicts : Allowed(x, "final")
  BY DEF Allowed, Protocol!Following, Protocol!Deciding, Protocol!Verdicts, Verdicts
<1> QED  BY <1>1, <1>2, <1>3
OrderFact(l, c) == c[1] = "say" => \A x \in LinesAt(l) : Allowed(x, c[2])

\* Every line of the handlers may come behind each of the lines known there.
LEMMA OrderFacts ==
  ASSUME NEW l \in DOMAIN Code
  PROVE  OrderFact(l, Code[l])
<1>1. ASSUME l \in DOMAIN Generating PROVE OrderFact(l, Generating[l])
  BY <1>1, Order DEF Generating, OrderFact, LinesAt
<1>2. ASSUME l \in DOMAIN Executing PROVE OrderFact(l, Executing[l])
  BY <1>2, Order DEF Executing, OrderFact, LinesAt
<1>3. ASSUME l \in DOMAIN Answering PROVE OrderFact(l, Answering[l])
  BY <1>3, Order DEF Answering, OrderFact, LinesAt
<1>4. ASSUME l \in DOMAIN Rejecting PROVE OrderFact(l, Rejecting[l])
  BY <1>4, Order DEF Rejecting, OrderFact, LinesAt
<1>5. ASSUME l \in DOMAIN TimingOutSql PROVE OrderFact(l, TimingOutSql[l])
  BY <1>5, Order DEF TimingOutSql, OrderFact, LinesAt
<1>6. ASSUME l \in DOMAIN TimingOut PROVE OrderFact(l, TimingOut[l])
  BY <1>6, Order DEF TimingOut, OrderFact, LinesAt
<1>7. ASSUME l \in DOMAIN Replying PROVE OrderFact(l, Replying[l])
  BY <1>7, Order DEF Replying, OrderFact, LinesAt
<1>8. ASSUME l \in DOMAIN Closing PROVE OrderFact(l, Closing[l])
  BY <1>8, Order DEF Closing, OrderFact, LinesAt
<1> QED  BY <1>1, <1>2, <1>3, <1>4, <1>5, <1>6, <1>7, <1>8, Tables

\* A step is a step of the protocol, or changes nothing it tells of.
LEMMA QuietShows ==
  ASSUME Ended, Ended', NEW r \in Requests, Quiet(r)
  PROVE  UNCHANGED Protocol!protocolVars
<1>1. \A x \in Requests : req'[x].line = req[x].line
  BY DEF Quiet, Ran
<1>2. \A x \in Requests : IsStream(x)' = IsStream(x)
  BY DEF Quiet, Ran, IsStream, Stream
<1>3. ASSUME NEW x \in Requests, IsStream(x) PROVE req'[x].out = req[x].out
  <2>1. CASE x # r
    BY <2>1 DEF Quiet
  <2>2. CASE x = r
    <3>1. \/ req'[r].out = req[r].out
          \/ req[r].out = "open" /\ req'[r].out = "closed"
      BY DEF Quiet, Ran
    <3>2. req[r].out = "open" => req[r].line # "final"
      BY <1>3, <2>2 DEF Ended
    <3>3. req'[r].out = "closed" => req'[r].line = "final"
      BY <1>2, <1>3, <2>2 DEF Ended
    <3> QED  BY <1>1, <2>2, <3>1, <3>2, <3>3
  <2> QED  BY <2>1, <2>2
<1> QED  BY <1>1, <1>2, <1>3 DEF Protocol!protocolVars

\* A line of the handler itself is a line of the protocol.
LEMMA SaysShows ==
  ASSUME NEW r \in Requests, Says(r, Code[req[r].pc])
  PROVE  Protocol!Line(r)
<1>c. PICK c : c = Code[req[r].pc]
  OBVIOUS
<1>1. /\ \A x \in Requests \ {r} : req'[x] = req[x]
      /\ req[r].out = "open" /\ IsStream(r) /\ req'[r].kind = req[r].kind
      /\ req[r].pc \in DOMAIN Code /\ c[1] = "say" /\ req[r].line \in LinesAt(req[r].pc)
      /\ req'[r].line = c[2] /\ req'[r].out = IF c[2] = "final" THEN "closed" ELSE "open"
  BY <1>c DEF Says, IsStream
<1>2. Allowed(req[r].line, c[2])
  BY <1>1, <1>c, OrderFacts DEF OrderFact
<1>3. \A x \in Requests : IsStream(x)' = IsStream(x)
  BY <1>1 DEF IsStream, Stream
<1>4. [x \in Requests |-> req'[x].line] = [[x \in Requests |-> req[x].line] EXCEPT ![r] = c[2]]
  BY <1>1
<1>5. [x \in Requests |-> IF IsStream(x)' THEN req'[x].out ELSE "open"] =
        IF c[2] = "final"
        THEN [[x \in Requests |-> IF IsStream(x) THEN req[x].out ELSE "open"]
                EXCEPT ![r] = "closed"]
        ELSE [x \in Requests |-> IF IsStream(x) THEN req[x].out ELSE "open"]
  BY <1>1, <1>3
<1> QED  BY <1>1, <1>2, <1>4, <1>5 DEF Protocol!Line, Allowed

\* A stream that breaks off or is left does so in the protocol.
LEMMA EndsShow ==
  ASSUME NEW r \in Requests, Broken(r) \/ Gone(r)
  PROVE  [Protocol!Next]_Protocol!protocolVars
<1>1. /\ \A x \in Requests \ {r} : req'[x] = req[x]
      /\ req[r].out = "open" /\ req'[r].out \in {"broken", "gone"}
      /\ req'[r].kind = req[r].kind /\ req'[r].line = req[r].line
      /\ req'[r].out = "broken" /\ IsStream(r) => req[r].line \in SqlLines \cup AnswerLines
  BY DEF Broken, Gone, IsStream
<1>2. \A x \in Requests : IsStream(x)' = IsStream(x)
  BY <1>1 DEF IsStream, Stream
<1>3. [x \in Requests |-> req'[x].line] = [x \in Requests |-> req[x].line]
  BY <1>1
<1>4. CASE ~IsStream(r)
  <2>1. [x \in Requests |-> IF IsStream(x)' THEN req'[x].out ELSE "open"] =
          [x \in Requests |-> IF IsStream(x) THEN req[x].out ELSE "open"]
    BY <1>1, <1>2, <1>4
  <2> QED  BY <1>3, <2>1 DEF Protocol!protocolVars
<1>5. CASE IsStream(r)
  <2>1. [x \in Requests |-> IF IsStream(x)' THEN req'[x].out ELSE "open"] =
          [[x \in Requests |-> IF IsStream(x) THEN req[x].out ELSE "open"]
             EXCEPT ![r] = req'[r].out]
    BY <1>1, <1>2, <1>5
  <2>2. CASE req'[r].out = "broken"
    <3>1. Protocol!Break(r)
      BY <1>1, <1>3, <1>5, <2>1, <2>2
      DEF Protocol!Break, Protocol!Ends, SqlLines, AnswerLines
    <3> QED  BY <3>1 DEF Protocol!Next
  <2>3. CASE req'[r].out = "gone"
    <3>1. Protocol!Leave(r)
      BY <1>1, <1>3, <1>5, <2>1, <2>3 DEF Protocol!Leave, Protocol!Ends
    <3> QED  BY <3>1 DEF Protocol!Next
  <2> QED  BY <1>1, <2>2, <2>3
<1> QED  BY <1>4, <1>5

\* Every step of the handlers is one of the protocol, or a stutter.
LEMMA StepShows ==
  ASSUME IInv, [Next]_vars
  PROVE  [Protocol!Next]_Protocol!protocolVars
<1>1. IInv' /\ Shown
  BY NextKept
<1>2. Ended /\ Ended'
  BY <1>1, EndsOpen, EndsNext
<1>3. CASE req' = req
  BY <1>3 DEF Protocol!protocolVars, IsStream, Stream
<1>4. ASSUME NEW r \in Requests, Quiet(r) PROVE [Protocol!Next]_Protocol!protocolVars
  BY <1>2, <1>4, QuietShows
<1>5. ASSUME NEW r \in Requests, Says(r, Code[req[r].pc])
      PROVE  [Protocol!Next]_Protocol!protocolVars
  BY <1>5, SaysShows DEF Protocol!Next
<1>6. ASSUME NEW r \in Requests, Broken(r) \/ Gone(r)
      PROVE  [Protocol!Next]_Protocol!protocolVars
  BY <1>6, EndsShow
<1> QED  BY <1>1, <1>3, <1>4, <1>5, <1>6 DEF Shown

\* No line has been sent.
LEMMA InitShows == AskInit => Protocol!Init
BY DEF AskInit, Protocol!Init

\* The handlers implement the protocol of the lines: what README.md and
\* ROUTES.md tell a reader of the stream.
THEOREM ProtocolIsKept == Spec => KeepsProtocol
<1>1. AskInit => Protocol!Init
  BY InitShows
<1>2. IInv /\ [Next]_vars => [Protocol!Next]_Protocol!protocolVars
  BY StepShows
<1> QED  BY <1>1, <1>2, Invariance, PTL DEF Spec, KeepsProtocol, Protocol!Spec
=============================================================================
