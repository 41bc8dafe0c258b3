---------------------------- MODULE ModelsProofs ----------------------------
(* Safety of ModelCalls for any number of calls, targets, chains, retries    *)
(* and any threshold, and of ModelRegistry for any admins, models and keys.  *)
EXTENDS ModelRegistry, ModelCalls, FiniteSetTheorems, TLAPS

-----------------------------------------------------------------------------
(* The calls.  Their inductive invariant.                                    *)

CallRecord == [at : {"idle", "next", "post", "sleep", "failed"}, chain : Seq(Targets),
               index : Nat, tries : 0..MaxRetries, tried : SUBSET Targets]

\* The attempts a call has made, by where it is.
TriesInv(c) ==
    /\ Is(c, "next") => call[c].tries = 0
    /\ Is(c, "post") => call[c].tries >= 1
    /\ Is(c, "sleep") => call[c].tries >= 1 /\ call[c].tries < MaxRetries

\* The targets a call has left are those before the one it is at, or all.
TriedInv(c) ==
    /\ Running(c) => call[c].tried = {call[c].chain[i] : i \in 1..(call[c].index - 1)}
    /\ Is(c, "failed") => call[c].tried = Range(call[c].chain)

CallInv(c) ==
    /\ call[c] \in CallRecord
    /\ Running(c) => call[c].index \in 1..Len(call[c].chain)
    /\ TriesInv(c) /\ TriedInv(c)

\* A circuit is open only at the threshold, and requests are counted only then.
CircuitInv ==
    /\ circuit \in [Targets -> [failures : 0..Threshold, open : BOOLEAN]]
    /\ sent \in [Targets -> Nat]
    /\ \A t \in Targets : circuit[t].open => circuit[t].failures = Threshold
    /\ \A t \in Targets : ~circuit[t].open => sent[t] = 0

\* The attempts that calls which have begun with a target may still make: the
\* n-th last one of a call is there while it has n left.
MayStill(c, t) == call[c].at \in {"post", "sleep"} /\ Target(c) = t
LeftOf(c)   == MaxRetries - call[c].tries
Attempts    == Calls \X (1..(MaxRetries - 1))
Left(t)     == {a \in Attempts : MayStill(a[1], t) /\ a[2] <= LeftOf(a[1])}
Allowance   == (Cardinality(Calls) - 1) * (MaxRetries - 1)

\* What was sent to an open circuit and what may still be sent is within the
\* allowance: OpenSheds alone says nothing of the attempts to come.
BudgetInv == \A t \in Targets : circuit[t].open => sent[t] + Cardinality(Left(t)) <= Allowance

CallsInv ==
    /\ call \in [Calls -> CallRecord] /\ up \subseteq Targets \ Unusable
    /\ \A c \in Calls : CallInv(c)
    /\ CircuitInv /\ BudgetInv

LEMMA LeftFinite ==
    ASSUME NEW t
    PROVE  IsFiniteSet(Left(t)) /\ Cardinality(Left(t)) \in Nat
<1>1. IsFiniteSet(Attempts)
  <2>1. IsFiniteSet(Calls) /\ MaxRetries - 1 \in Int
    BY CallsAssumption
  <2>2. IsFiniteSet(1..(MaxRetries - 1))
    BY <2>1, FS_Interval
  <2> QED
    BY <2>1, <2>2, FS_Product DEF Attempts
<1> QED
  BY <1>1, FS_Subset, FS_CardinalityType DEF Left

LEMMA LeftShrinks ==
    ASSUME NEW t, Left(t)' \subseteq Left(t)
    PROVE  Cardinality(Left(t)') \in Nat /\ Cardinality(Left(t)') <= Cardinality(Left(t))
BY LeftFinite, FS_Subset, FS_CardinalityType

LEMMA CallsInit_Inv == CallsInit => CallsInv
<1> SUFFICES ASSUME CallsInit PROVE CallsInv
  OBVIOUS
<1> USE DEF CallsInit
<1>1. NoCall \in CallRecord
  BY CallsAssumption DEF NoCall, CallRecord
<1>2. \A c \in Calls : CallInv(c)
  BY <1>1 DEF CallInv, TriesInv, TriedInv, Running, Is, NoCall
<1>3. CircuitInv /\ BudgetInv
  BY CallsAssumption DEF CircuitInv, BudgetInv, Closed
<1> QED
  BY <1>1, <1>2, <1>3 DEF CallsInv

-----------------------------------------------------------------------------
(* What the moves of a call keep.                                            *)

\* The target of a call that runs.
LEMMA TargetType ==
    ASSUME CallsInv, NEW c \in Calls, Running(c)
    PROVE  /\ Target(c) \in Targets /\ call[c] \in CallRecord
           /\ call[c].index \in 1..Len(call[c].chain) /\ Len(call[c].chain) \in Nat
BY DEF CallsInv, CallInv, CallRecord, Target

\* A call that is put where its own invariant holds leaves the others alone.
LEMMA Putting ==
    ASSUME CallsInv, NEW c \in Calls, NEW rec \in CallRecord, Put(c, rec), CallInv(c)'
    PROVE  call' \in [Calls -> CallRecord] /\ \A d \in Calls : CallInv(d)'
<1>1. call' = [call EXCEPT ![c] = rec]
  BY DEF Put
<1>2. call' \in [Calls -> CallRecord]
  BY <1>1 DEF CallsInv
<1>3. ASSUME NEW d \in Calls, d # c PROVE CallInv(d)'
  <2>1. call'[d] = call[d]
    BY <1>1, <1>3 DEF CallsInv
  <2> QED
    BY <2>1 DEF CallsInv, CallInv, TriesInv, TriedInv, Running, Is
<1> QED
  BY <1>2, <1>3

\* The attempts left with a target, when call c moves.
LEMMA LeftMoves ==
    ASSUME CallsInv, NEW c \in Calls, NEW rec \in CallRecord, Put(c, rec), NEW t,
           MayStill(c, t)' => MayStill(c, t) /\ rec.tries >= call[c].tries
    PROVE  Left(t)' \subseteq Left(t)
<1>1. call' = [call EXCEPT ![c] = rec] /\ call'[c] = rec
  BY DEF Put, CallsInv
<1>2. ASSUME NEW a \in Left(t)' PROVE a \in Left(t)
  <2>1. a \in Attempts /\ a[1] \in Calls /\ a[2] \in Int
    BY CallsAssumption DEF Left, Attempts
  <2>2. CASE a[1] = c
    <3>1. MaxRetries \in Int /\ rec.tries \in Int /\ call[c].tries \in Int
      BY CallsAssumption DEF CallsInv, CallRecord
    <3> QED
      BY <1>1, <1>2, <2>1, <2>2, <3>1 DEF Left, LeftOf
  <2>3. CASE a[1] # c
    <3>1. call'[a[1]] = call[a[1]]
      BY <1>1, <2>1, <2>3 DEF CallsInv
    <3> QED
      BY <1>2, <2>1, <3>1 DEF Left, LeftOf, MayStill, Target
  <2> QED
    BY <2>2, <2>3
<1> QED
  BY <1>2

\* A call that fails over is past its target, at the next or at the end.
LEMMA FailingOver ==
    ASSUME CallsInv, NEW c \in Calls, Running(c), Failover(c)
    PROVE  /\ call' \in [Calls -> CallRecord] /\ \A d \in Calls : CallInv(d)'
           /\ \A t : Left(t)' \subseteq Left(t)
           /\ \A t : ~MayStill(c, t)'
<1> DEFINE t == Target(c)
           passed == call[c].tried \cup {t}
           ahead == [call[c] EXCEPT !.at = "next", !.index = @ + 1, !.tries = 0, !.tried = passed]
           failed == [NoCall EXCEPT !.at = "failed", !.chain = call[c].chain, !.tried = passed]
<1>1. /\ t \in Targets /\ call[c] \in CallRecord
      /\ call[c].index \in 1..Len(call[c].chain) /\ Len(call[c].chain) \in Nat
  BY TargetType
<1>2. ahead \in CallRecord /\ failed \in CallRecord
  <2>1. passed \subseteq Targets /\ call[c].index + 1 \in Nat /\ 0 \in 0..MaxRetries
    BY <1>1, CallsAssumption DEF CallRecord
  <2>2. ahead \in CallRecord
    BY <1>1, <2>1 DEF CallRecord
  <2>3. NoCall \in CallRecord
    BY <2>1 DEF NoCall, CallRecord
  <2>4. failed \in CallRecord
    <3> HIDE DEF passed
    <3> QED
      BY <1>1, <2>1, <2>3 DEF CallRecord
  <2> QED
    BY <2>2, <2>4
<1>3. call[c].tried = {call[c].chain[i] : i \in 1..(call[c].index - 1)}
  BY DEF CallsInv, CallInv, TriedInv
<1>4. passed = {call[c].chain[i] : i \in 1..call[c].index}
  BY <1>1, <1>3 DEF Target
<1>5. PICK rec \in {ahead, failed} : Put(c, rec) /\ CallInv(c)'
  <2>1. CASE call[c].index < Len(call[c].chain)
    <3>1. Put(c, ahead) /\ call'[c] = ahead
      BY <2>1 DEF Failover, Put, CallsInv
    <3>2. CallInv(c)'
      <4>1. /\ call'[c].at = "next" /\ call'[c].tries = 0 /\ call'[c].tried = passed
            /\ call'[c].chain = call[c].chain /\ call'[c].index = call[c].index + 1
        BY <1>1, <3>1 DEF CallRecord
      <4>2. TriedInv(c)'
        BY <1>1, <1>4, <4>1 DEF TriedInv, Running, Is
      <4> QED
        BY <1>1, <1>2, <2>1, <3>1, <4>1, <4>2 DEF CallInv, TriesInv, Running, Is
    <3> QED
      BY <3>1, <3>2
  <2>2. CASE ~(call[c].index < Len(call[c].chain))
    <3>1. Put(c, failed) /\ call'[c] = failed
      BY <2>2 DEF Failover, Put, CallsInv
    <3>2. Range(call[c].chain) = passed
      <4>1. DOMAIN call[c].chain = 1..Len(call[c].chain)
        BY <1>1 DEF CallRecord
      <4> QED
        BY <1>1, <1>4, <2>2, <4>1 DEF Range
    <3>3. CallInv(c)'
      BY <1>2, <3>1, <3>2 DEF CallInv, TriesInv, TriedInv, Running, Is, NoCall
    <3> QED
      BY <3>1, <3>3
  <2> QED
    BY <2>1, <2>2
<1>6. call'[c].at \in {"next", "failed"}
  BY <1>1, <1>5 DEF Put, CallsInv, CallRecord, NoCall
<1>7. \A u : ~MayStill(c, u)'
  BY <1>6 DEF MayStill
<1> QED
  BY <1>2, <1>5, <1>7, Putting, LeftMoves

\* An attempt sent while the circuit is open is one of those that were left.
LEMMA Sending ==
    ASSUME CallsInv, NEW c \in Calls, Send(c), UNCHANGED <<circuit, up>>,
           Is(c, "sleep") \/ (Is(c, "next") /\ ~circuit[Target(c)].open)
    PROVE  CallsInv'
<1> DEFINE t == Target(c)
           rec == [call[c] EXCEPT !.at = "post", !.tries = @ + 1]
           last == <<c, LeftOf(c)>>
<1>1. /\ t \in Targets /\ call[c] \in CallRecord
      /\ call[c].index \in 1..Len(call[c].chain) /\ Len(call[c].chain) \in Nat
  BY TargetType DEF Is, Running
<1>2. call[c].tries + 1 \in 1..MaxRetries /\ (Is(c, "sleep") => LeftOf(c) \in 1..(MaxRetries - 1))
  BY <1>1, CallsAssumption DEF CallsInv, CallInv, TriesInv, CallRecord, LeftOf
<1>3. rec \in CallRecord
  <2>1. call[c].tries + 1 \in 0..MaxRetries
    BY <1>2, CallsAssumption
  <2> QED
    BY <1>1, <2>1 DEF CallRecord
<1>4. call' = [call EXCEPT ![c] = rec] /\ call'[c] = rec /\ Put(c, rec)
  BY DEF Send, Put, CallsInv
<1>5. CallInv(c)'
  <2>1. /\ call'[c].at = "post" /\ call'[c].tries = call[c].tries + 1
        /\ call'[c].tried = call[c].tried
        /\ call'[c].chain = call[c].chain /\ call'[c].index = call[c].index
    BY <1>1, <1>4 DEF CallRecord
  <2> QED
    BY <1>1, <1>2, <1>3, <1>4, <2>1 DEF CallsInv, CallInv, TriesInv, TriedInv, Running, Is
<1>6. sent' = [sent EXCEPT ![t] = IF circuit[t].open THEN @ + 1 ELSE 0]
  BY DEF Send
<1>7. CircuitInv'
  BY <1>1, <1>6 DEF CallsInv, CircuitInv
<1>8. ASSUME NEW u \in Targets, circuit'[u].open
      PROVE  sent'[u] + Cardinality(Left(u)') <= Allowance
  <2>1. circuit[u].open /\ sent[u] + Cardinality(Left(u)) <= Allowance /\ sent[u] \in Nat
    BY <1>8 DEF CallsInv, BudgetInv, CircuitInv
  <2>2. CASE u # t
    <3>1. ~MayStill(c, u)'
      BY <1>1, <1>4, <2>2 DEF MayStill, Target, CallRecord
    <3>2. Left(u)' \subseteq Left(u)
      BY <1>3, <1>4, <3>1, LeftMoves
    <3>3. sent'[u] = sent[u]
      BY <1>6, <2>2 DEF CallsInv, CircuitInv
    <3>4. Allowance \in Int
      BY CallsAssumption, FS_CardinalityType DEF Allowance
    <3> QED
      BY <2>1, <3>2, <3>3, <3>4, LeftShrinks, LeftFinite
  <2>3. CASE u = t
    <3>1. Is(c, "sleep") /\ MayStill(c, u)
      BY <2>1, <2>3 DEF MayStill, Is
    <3>2. last \in Left(u)
      BY <1>2, <3>1 DEF Left, Attempts
    <3>3. Left(u)' \subseteq Left(u)
      <4>1. rec.tries >= call[c].tries
        BY <1>1, <1>2 DEF CallRecord
      <4> QED
        BY <1>3, <1>4, <3>1, <4>1, LeftMoves
    <3>4. last \notin Left(u)'
      <4>1. LeftOf(c)' = LeftOf(c) - 1 /\ LeftOf(c) \in Int
        <5>1. call'[c].tries = call[c].tries + 1
          BY <1>1, <1>4 DEF CallRecord
        <5>2. MaxRetries \in Int
          BY CallsAssumption
        <5>3. call[c].tries \in Int
          BY <1>1, <5>2 DEF CallRecord
        <5> QED
          BY <5>1, <5>2, <5>3 DEF LeftOf
      <4> QED
        BY <4>1 DEF Left
    <3>5. Cardinality(Left(u)') <= Cardinality(Left(u)) - 1 /\ Cardinality(Left(u)') \in Nat
      <4>1. IsFiniteSet(Left(u) \ {last}) /\ Cardinality(Left(u) \ {last}) = Cardinality(Left(u)) - 1
        BY <3>2, LeftFinite, FS_RemoveElement
      <4>2. Left(u)' \subseteq Left(u) \ {last}
        BY <3>3, <3>4
      <4>3. IsFiniteSet(Left(u)') /\ Cardinality(Left(u)') <= Cardinality(Left(u) \ {last})
        BY <4>1, <4>2, FS_Subset
      <4> QED
        BY <4>1, <4>3, FS_CardinalityType
    <3>6. sent'[u] = sent[u] + 1
      BY <1>1, <1>6, <2>1, <2>3 DEF CallsInv, CircuitInv
    <3>7. Allowance \in Int
      BY CallsAssumption, FS_CardinalityType DEF Allowance
    <3> QED
      BY <2>1, <3>5, <3>6, <3>7, LeftFinite
  <2> QED
    BY <2>2, <2>3
<1>9. Allowance' = Allowance
  BY DEF Allowance
<1> QED
  BY <1>3, <1>4, <1>5, <1>7, <1>8, <1>9, Putting DEF CallsInv, BudgetInv

\* Where no circuit opens and no attempt is added the budget is kept.
LEMMA BudgetKept ==
    ASSUME CallsInv, CircuitInv',
           \A t : Left(t)' \subseteq Left(t),
           \A t \in Targets : circuit'[t].open => circuit[t].open /\ sent'[t] = sent[t]
    PROVE  BudgetInv'
<1> SUFFICES ASSUME NEW t \in Targets, circuit'[t].open
             PROVE  sent'[t] + Cardinality(Left(t)') <= Allowance
  BY DEF BudgetInv, Allowance
<1>1. sent[t] + Cardinality(Left(t)) <= Allowance /\ sent'[t] = sent[t] /\ sent[t] \in Nat
  BY DEF CallsInv, BudgetInv, CircuitInv
<1>2. Allowance \in Int
  BY CallsAssumption, FS_CardinalityType DEF Allowance
<1> QED
  BY <1>1, <1>2, LeftShrinks, LeftFinite

\* A call that is put at the start, at rest or to sleep, with nothing recorded.
LEMMA StartingAnew ==
    ASSUME CallsInv, NEW c \in Calls, NEW rec \in CallRecord, Put(c, rec),
           UNCHANGED <<circuit, up, sent>>,
           rec.at \in {"idle", "next", "sleep"}, CallInv(c)',
           rec.at = "sleep" => Is(c, "post") /\ rec.tries = call[c].tries
                               /\ rec.chain = call[c].chain /\ rec.index = call[c].index
    PROVE  CallsInv'
<1>1. call' = [call EXCEPT ![c] = rec] /\ call'[c] = rec
  BY DEF Put, CallsInv
<1>2. ASSUME NEW t PROVE Left(t)' \subseteq Left(t)
  <2>1. MayStill(c, t)' => MayStill(c, t) /\ rec.tries >= call[c].tries
    <3>1. CASE rec.at = "sleep"
      <4>1. MaxRetries \in Int
        BY CallsAssumption
      <4>2. call[c].tries \in Int
        BY <4>1 DEF CallsInv, CallRecord
      <4> QED
        BY <1>1, <3>1, <4>2 DEF MayStill, Is, Target
    <3>2. CASE rec.at # "sleep"
      BY <1>1, <3>2 DEF MayStill
    <3> QED
      BY <3>1, <3>2
  <2> QED
    BY <2>1, LeftMoves
<1> QED
  BY <1>2, Putting, BudgetKept DEF CallsInv, CircuitInv

\* The failure that opens a circuit is the last attempt of its call, so that
\* only the others have any left.
LEMMA GivingUp == ASSUME CallsInv, NEW c \in Calls, GiveUp(c) PROVE CallsInv'
<1>0. PICK t \in Targets : t = Target(c)
  BY TargetType DEF GiveUp, Running, Is
<1> DEFINE n == IF circuit[t].failures >= Threshold THEN Threshold ELSE circuit[t].failures + 1
<1>1. Running(c) /\ Failover(c) /\ t \in Targets
  BY DEF GiveUp, Running, Is
<1>2. /\ call' \in [Calls -> CallRecord] /\ \A d \in Calls : CallInv(d)'
      /\ \A u : Left(u)' \subseteq Left(u)
      /\ ~MayStill(c, t)'
  BY <1>1, FailingOver
<1>3. circuit' = [circuit EXCEPT ![t] = [failures |-> n, open |-> n >= Threshold]] /\ sent' = sent
  BY <1>0 DEF GiveUp, RecordFailure
<1>4. n \in 0..Threshold /\ (circuit[t].open => n >= Threshold)
  BY <1>1, CallsAssumption DEF CallsInv, CircuitInv
<1>5. CircuitInv'
  <2>1. \A u \in Targets : ~circuit'[u].open => ~circuit[u].open
    BY <1>1, <1>3, <1>4 DEF CallsInv, CircuitInv
  <2>2. Threshold \in Nat
    BY CallsAssumption
  <2>3. [failures |-> n, open |-> n >= Threshold] \in [failures : 0..Threshold, open : BOOLEAN]
    BY <1>4
  <2>4. circuit' \in [Targets -> [failures : 0..Threshold, open : BOOLEAN]]
    BY <1>3, <2>3 DEF CallsInv, CircuitInv
  <2>5. n >= Threshold => n = Threshold
    BY <1>4, <2>2
  <2>6. \A u \in Targets : circuit'[u].open => circuit'[u].failures = Threshold
    BY <1>1, <1>3, <2>5 DEF CallsInv, CircuitInv
  <2> QED
    BY <1>3, <2>1, <2>4, <2>6 DEF CallsInv, CircuitInv
<1>6. CASE circuit[t].open
  <2>1. \A u \in Targets : circuit'[u].open => circuit[u].open /\ sent'[u] = sent[u]
    BY <1>1, <1>3, <1>6 DEF CallsInv, CircuitInv
  <2> QED
    BY <1>2, <1>3, <1>5, <2>1, BudgetKept DEF CallsInv, GiveUp
<1>7. CASE ~circuit[t].open
  <2>1. IsFiniteSet(Calls \ {c}) /\ Cardinality(Calls \ {c}) = Cardinality(Calls) - 1
    BY CallsAssumption, FS_RemoveElement
  <2>2. /\ IsFiniteSet(1..(MaxRetries - 1)) /\ Cardinality(1..(MaxRetries - 1)) = MaxRetries - 1
    <3>1. MaxRetries \in Int /\ MaxRetries >= 1
      BY CallsAssumption
    <3> QED
      <4>1. PICK b \in Int : b = MaxRetries - 1 /\ b >= 0
        BY <3>1
      <4>2. IsFiniteSet(1..b) /\ Cardinality(1..b) = IF 1 > b THEN 0 ELSE b - 1 + 1
        BY FS_Interval
      <4> QED
        BY <4>1, <4>2
  <2> DEFINE others == (Calls \ {c}) \X (1..(MaxRetries - 1))
  <2>3. IsFiniteSet(others) /\ Cardinality(others) = Allowance
    BY <2>1, <2>2, FS_Product DEF Allowance
  <2>4. Left(t)' \subseteq others
    <3>1. ASSUME NEW a \in Left(t)' PROVE a \in others
      <4>1. a \in Attempts /\ MayStill(a[1], t)'
        BY <3>1 DEF Left, Attempts
      <4>2. a[1] # c
        BY <1>2, <4>1
      <4> QED
        BY <4>1, <4>2 DEF Attempts
    <3> QED
      BY <3>1
  <2>5. Cardinality(Left(t)') <= Allowance /\ Cardinality(Left(t)') \in Nat
    BY <2>3, <2>4, FS_Subset, FS_CardinalityType
  <2>6. sent'[t] = 0
    BY <1>1, <1>3, <1>7 DEF CallsInv, CircuitInv
  <2>7. Allowance \in Int
    BY <2>3, FS_CardinalityType
  <2>8. ASSUME NEW u \in Targets, circuit'[u].open
        PROVE  sent'[u] + Cardinality(Left(u)') <= Allowance
    <3>1. CASE u = t
      BY <2>5, <2>6, <2>7, <3>1
    <3>2. CASE u # t
      <4>1. circuit[u].open
        BY <1>3, <2>8, <3>2 DEF CallsInv, CircuitInv
      <4>2. sent[u] + Cardinality(Left(u)) <= Allowance /\ sent[u] \in Nat /\ sent'[u] = sent[u]
        BY <1>3, <4>1 DEF CallsInv, BudgetInv, CircuitInv
      <4> QED
        BY <1>2, <2>7, <4>2, LeftShrinks, LeftFinite
    <3> QED
      BY <3>1, <3>2
  <2>9. BudgetInv'
    BY <2>8 DEF BudgetInv, Allowance
  <2> QED
    BY <1>2, <1>5, <2>9 DEF CallsInv, GiveUp
<1> QED
  BY <1>6, <1>7


LEMMA CallsStep_Inv == CallsInv /\ [CallsNext]_callsVars => CallsInv'
<1> SUFFICES ASSUME CallsInv, [CallsNext]_callsVars PROVE CallsInv'
  OBVIOUS
<1>0. NoCall \in CallRecord
  BY CallsAssumption DEF NoCall, CallRecord
<1>1. ASSUME NEW c \in Calls, Begin(c) PROVE CallsInv'
  <2>1. PICK chain \in Chains :
            Put(c, [NoCall EXCEPT !.at = "next", !.chain = chain, !.index = 1])
    BY <1>1 DEF Begin
  <2> DEFINE rec == [NoCall EXCEPT !.at = "next", !.chain = chain, !.index = 1]
  <2>2. chain \in Seq(Targets) /\ Len(chain) \in Nat /\ Len(chain) >= 1
    BY CallsAssumption
  <2>3. /\ rec.at = "next" /\ rec.chain = chain /\ rec.index = 1 /\ rec.tries = 0 /\ rec.tried = {}
        /\ rec \in CallRecord
    BY <1>0, <2>2 DEF CallRecord, NoCall
  <2>4. call'[c] = rec
    BY <2>1 DEF Put, CallsInv
  <2>5. CallInv(c)'
    BY <2>2, <2>3, <2>4 DEF CallInv, TriesInv, TriedInv, Running, Is
  <2> QED
    BY <1>1, <2>1, <2>3, <2>5, StartingAnew DEF Begin
<1>2. ASSUME NEW c \in Calls, Shed(c) PROVE CallsInv'
  <2>1. /\ call' \in [Calls -> CallRecord] /\ \A d \in Calls : CallInv(d)'
        /\ \A u : Left(u)' \subseteq Left(u)
    BY <1>2, FailingOver DEF Shed, Running, Is
  <2>2. CircuitInv'
    BY <1>2 DEF Shed, CallsInv, CircuitInv
  <2> QED
    BY <1>2, <2>1, <2>2, BudgetKept DEF Shed, CallsInv
<1>3. ASSUME NEW c \in Calls, Post(c) PROVE CallsInv'
  BY <1>3, Sending DEF Post
<1>4. ASSUME NEW c \in Calls, Retry(c) PROVE CallsInv'
  <2> DEFINE rec == [call[c] EXCEPT !.at = "sleep"]
  <2>1. Put(c, rec) /\ call[c] \in CallRecord /\ call'[c] = rec
    BY <1>4 DEF Retry, Put, CallsInv
  <2>2. /\ rec.at = "sleep" /\ rec.chain = call[c].chain /\ rec.index = call[c].index
        /\ rec.tries = call[c].tries /\ rec.tried = call[c].tried /\ rec \in CallRecord
    BY <2>1 DEF CallRecord
  <2>3. CallInv(c)'
    BY <1>4, <2>1, <2>2 DEF Retry, CallsInv, CallInv, TriesInv, TriedInv, Running, Is
  <2> QED
    BY <1>4, <2>1, <2>2, <2>3, StartingAnew DEF Retry
<1>5. ASSUME NEW c \in Calls, Again(c) PROVE CallsInv'
  BY <1>5, Sending DEF Again
<1>6. ASSUME NEW c \in Calls, GiveUp(c) PROVE CallsInv'
  BY <1>6, GivingUp
<1>7. ASSUME NEW c \in Calls, Answer(c) PROVE CallsInv'
  <2>1. /\ call' \in [Calls -> CallRecord] /\ \A d \in Calls : CallInv(d)'
        /\ \A u : Left(u)' \subseteq Left(u)
    <3>1. CASE Put(c, NoCall)
      <4>1. call'[c] = NoCall
        BY <3>1 DEF Put, CallsInv
      <4>2. CallInv(c)'
        BY <1>0, <4>1 DEF CallInv, TriesInv, TriedInv, Running, Is, NoCall
      <4>3. \A u : ~MayStill(c, u)'
        BY <4>1 DEF MayStill, NoCall
      <4> QED
        BY <1>0, <3>1, <4>2, <4>3, Putting, LeftMoves
    <3>2. CASE Failover(c)
      BY <1>7, <3>2, FailingOver DEF Answer, Running, Is
    <3> QED
      BY <1>7, <3>1, <3>2 DEF Answer
  <2>2. Target(c) \in Targets
    BY <1>7, TargetType DEF Answer, Running, Is
  <2>3. circuit' = [circuit EXCEPT ![Target(c)] = Closed] /\ sent' = [sent EXCEPT ![Target(c)] = 0]
    BY <1>7 DEF Answer
  <2>4. CircuitInv'
    BY <2>2, <2>3, CallsAssumption DEF CallsInv, CircuitInv, Closed
  <2>5. \A u \in Targets : circuit'[u].open => circuit[u].open /\ sent'[u] = sent[u]
    BY <2>2, <2>3 DEF CallsInv, CircuitInv, Closed
  <2> QED
    BY <1>7, <2>1, <2>4, <2>5, BudgetKept DEF Answer, CallsInv
<1>8. ASSUME NEW c \in Calls, Blocked(c) PROVE CallsInv'
  <2>1. /\ call' \in [Calls -> CallRecord] /\ \A d \in Calls : CallInv(d)'
        /\ \A u : Left(u)' \subseteq Left(u)
    BY <1>8, FailingOver DEF Blocked, Running, Is
  <2>2. CircuitInv'
    BY <1>8 DEF Blocked, CallsInv, CircuitInv
  <2> QED
    BY <1>8, <2>1, <2>2, BudgetKept DEF Blocked, CallsInv
<1>9. ASSUME NEW c \in Calls, Cancel(c) PROVE CallsInv'
  <2>1. call'[c] = NoCall
    BY <1>9 DEF Cancel, Put, CallsInv
  <2>2. CallInv(c)'
    BY <1>0, <2>1 DEF CallInv, TriesInv, TriedInv, Running, Is, NoCall
  <2> QED
    BY <1>0, <1>9, <2>2, StartingAnew DEF Cancel, NoCall
<1>10. ASSUME NEW t \in Targets, Expire(t) PROVE CallsInv'
  <2>1. /\ circuit' = [circuit EXCEPT ![t].open = FALSE] /\ sent' = [sent EXCEPT ![t] = 0]
        /\ call' = call /\ up' = up
    BY <1>10 DEF Expire
  <2>2. CircuitInv'
    BY <2>1 DEF CallsInv, CircuitInv
  <2>3. \A u \in Targets : circuit'[u].open => circuit[u].open /\ sent'[u] = sent[u]
    BY <2>1 DEF CallsInv, CircuitInv
  <2>4. \A u : Left(u)' = Left(u)
    BY <2>1 DEF Left, MayStill, LeftOf, Target
  <2>5. \A c \in Calls : CallInv(c)'
    BY <2>1 DEF CallsInv, CallInv, TriesInv, TriedInv, Running, Is
  <2> QED
    BY <2>1, <2>2, <2>3, <2>4, <2>5, BudgetKept DEF CallsInv
<1>11. ASSUME Weather \/ UNCHANGED callsVars PROVE CallsInv'
  <2>1. up' \subseteq Targets \ Unusable /\ UNCHANGED <<circuit, call, sent>>
    BY <1>11 DEF Weather, callsVars, CallsInv
  <2>2. \A u : Left(u)' = Left(u)
    BY <2>1 DEF Left, MayStill, LeftOf, Target
  <2>3. \A c \in Calls : CallInv(c)'
    BY <2>1 DEF CallsInv, CallInv, TriesInv, TriedInv, Running, Is
  <2>4. CircuitInv'
    BY <2>1 DEF CallsInv, CircuitInv
  <2> QED
    BY <2>1, <2>2, <2>3, <2>4, BudgetKept DEF CallsInv
<1> QED
  BY <1>1, <1>2, <1>3, <1>4, <1>5, <1>6, <1>7, <1>8, <1>9, <1>10, <1>11 DEF CallsNext, Step

LEMMA CallsInvHolds == CallsSpec => []CallsInv
BY CallsInit_Inv, CallsStep_Inv, PTL DEF CallsSpec

\* A call that runs is at a provider of its chain, with no more attempts than
\* it may make, and no provider that cannot be built is ever up.
THEOREM CallsTypeCorrect == CallsSpec => []CallsTypeOK
<1>1. CallsInv => CallsTypeOK
  BY DEF CallsInv, CallsTypeOK, CallInv, CircuitInv, CallRecord
<1> QED
  BY <1>1, CallsInvHolds, PTL

\* An open circuit lets no more through than what the other calls, begun before
\* it opened, have left (base.py, _circuit_open_response).
THEOREM OpenCircuitsShed == CallsSpec => []OpenSheds
<1>1. CallsInv => OpenSheds
  <2> SUFFICES ASSUME CallsInv, NEW t \in Targets, circuit[t].open
               PROVE  sent[t] <= Allowance
    BY DEF OpenSheds, Allowance
  <2>1. sent[t] + Cardinality(Left(t)) <= Allowance /\ sent[t] \in Nat
    BY DEF CallsInv, BudgetInv, CircuitInv
  <2>2. Allowance \in Int
    BY CallsAssumption, FS_CardinalityType DEF Allowance
  <2> QED
    BY <2>1, <2>2, LeftFinite
<1> QED
  BY <1>1, CallsInvHolds, PTL

\* A call ends without text only when every provider of its chain has turned it
\* away (FallbackLLMProvider.generate).
THEOREM ErrorsMeanAllTried == CallsSpec => []ErrorMeansAllTried
<1>1. CallsInv => ErrorMeansAllTried
  BY DEF CallsInv, CallInv, TriedInv, ErrorMeansAllTried
<1> QED
  BY <1>1, CallsInvHolds, PTL

-----------------------------------------------------------------------------
(* The registry.  Its inductive invariant.                                   *)

\* What a request to switch a role knows: its model is registered.  As long as
\* nothing else has happened its model is the one default of its role, and its
\* key is active.
SwitchInv(a) ==
    LET s == switch[a] role == RoleOf[s.model] IN
    /\ ~At(a, "idle") => s.model \in registered
    /\ s.alone /\ (At(a, "keys") \/ At(a, "secret")) => OfRole(role, active \cap default) = {s.model}
    /\ s.alone /\ At(a, "secret") => s.key \in Of(ProviderOf[s.model], valid)

RegistryInv == RegistryTypeOK /\ \A a \in Admins : SwitchInv(a)

\* Where rows do not decode no request is under way and no role was switched.
UnreadInv ==
    ~decodes => /\ \A a \in Admins : At(a, "idle")
                /\ live = [role \in Roles |-> FromEnv]

\* Another step than a request's own leaves it as it is, but for `alone`.
Seen(a) == switch'[a] = [switch[a] EXCEPT !.alone = FALSE]
SwitchRecord == [at : {"idle", "set", "keys", "secret"}, model : Models \cup {None},
                 key : Keys \cup {None}, alone : BOOLEAN]

LEMMA RegistryInit_Inv == RegistryInit => RegistryInv
<1> SUFFICES ASSUME RegistryInit PROVE RegistryInv
  OBVIOUS
<1>1. RegistryTypeOK
  BY OwnersAssumption, CodecsAssumption DEF RegistryInit, RegistryTypeOK, FromEnv, Idle
<1>2. \A a \in Admins : SwitchInv(a)
  BY DEF RegistryInit, SwitchInv, At, Idle
<1> QED
  BY <1>1, <1>2 DEF RegistryInv

\* A change of the registry that keeps its models and loses the claim of every
\* request that nothing else has happened.
LEMMA OthersSee ==
    ASSUME RegistryInv, NEW a \in Admins, Seen(a),
           registered \subseteq registered'
    PROVE  SwitchInv(a)'
<1>1. switch[a] \in SwitchRecord
  BY DEF RegistryInv, RegistryTypeOK, SwitchRecord
<1>2. /\ switch'[a].at = switch[a].at /\ switch'[a].model = switch[a].model
      /\ switch'[a].key = switch[a].key /\ switch'[a].alone = FALSE
  BY <1>1 DEF Seen, SwitchRecord
<1> QED
  BY <1>2 DEF RegistryInv, SwitchInv, At

LEMMA AllSeen ==
    ASSUME RegistryInv, switch' = [a \in Admins |-> [switch[a] EXCEPT !.alone = FALSE]]
    PROVE  /\ \A a \in Admins : Seen(a)
           /\ switch' \in [Admins -> SwitchRecord]
<1>1. \A a \in Admins : switch[a] \in SwitchRecord
  BY DEF RegistryInv, RegistryTypeOK, SwitchRecord
<1>2. \A a \in Admins : [switch[a] EXCEPT !.alone = FALSE] \in SwitchRecord
  BY <1>1 DEF SwitchRecord
<1> QED
  BY <1>2 DEF Seen

\* The rows, whatever function of the store commits.
Rows ==
    /\ \A x \in stored \cup registered : ProviderOf[x] \in created
    /\ enabled \subseteq created /\ created \subseteq Providers
    /\ valid \subseteq stored /\ stored \subseteq Keys
    /\ active \subseteq registered /\ default \subseteq registered
    /\ registered \subseteq Models

\* No function of the store deletes a model.
Grows == registered \subseteq registered'

LEMMA SettingDefault ==
    ASSUME Rows, NEW m \in Models, SetDefault(m)
    PROVE  Rows' /\ Grows /\ OfRole(RoleOf[m], active' \cap default') = {m}
<1>1. /\ m \in registered /\ registered' = registered /\ active' = active \cup {m}
      /\ default' = Cleared(RoleOf[m]) \cup {m}
      /\ UNCHANGED <<created, enabled, stored, valid>>
  BY DEF SetDefault, Commit
<1>2. Rows' /\ Grows
  BY <1>1 DEF Rows, Grows, Cleared
<1>3. OfRole(RoleOf[m], active' \cap default') = {m}
  BY <1>1 DEF Cleared, OfRole
<1> QED
  BY <1>2, <1>3

LEMMA StoreStep == ASSUME Rows, Store PROVE Rows' /\ Grows
<1>1. ASSUME NEW p \in Providers, CreateProvider(p) \/ UpdateProvider(p) \/ DeactivateProvider(p)
      PROVE  Rows' /\ Grows
  BY <1>1 DEF CreateProvider, UpdateProvider, DeactivateProvider, Rows, Grows, Of
<1>2. ASSUME NEW k \in Keys, AddKey(k) \/ DeactivateKey(k) PROVE Rows' /\ Grows
  BY <1>2 DEF AddKey, DeactivateKey, Rows, Grows
<1>3. ASSUME NEW m \in Models, RegisterModel(m) PROVE Rows' /\ Grows
  BY <1>3 DEF RegisterModel, Commit, Cleared, Rows, Grows
<1>4. ASSUME NEW m \in Models, UpdateModel(m) \/ DeactivateModel(m) PROVE Rows' /\ Grows
  <2>1. CASE SetDefault(m)
    BY <2>1, SettingDefault
  <2>2. CASE ~SetDefault(m)
    BY <1>4, <2>2 DEF UpdateModel, DeactivateModel, Commit, Rows, Grows
  <2> QED
    BY <2>1, <2>2
<1> QED
  BY <1>1, <1>2, <1>3, <1>4 DEF Store

\* A step of a request: it moves where its own invariant holds, and the others
\* see it.
LEMMA Moving ==
    ASSUME RegistryInv, NEW a \in Admins, NEW to \in SwitchRecord, Move(a, to),
           SwitchInv(a)', Rows', Grows, decodes' = decodes,
           live' \in [Roles -> [model : Models \cup {None}, key : Keys \cup {None}]]
    PROVE  RegistryInv'
<1>1. switch' = [b \in Admins |-> IF b = a THEN to ELSE [switch[b] EXCEPT !.alone = FALSE]]
  BY DEF Move
<1>2. \A b \in Admins : switch[b] \in SwitchRecord
  BY DEF RegistryInv, RegistryTypeOK, SwitchRecord
<1>3. \A b \in Admins : [switch[b] EXCEPT !.alone = FALSE] \in SwitchRecord
  BY <1>2 DEF SwitchRecord
<1>4. switch' \in [Admins -> SwitchRecord]
  BY <1>1, <1>3
<1>5. \A b \in Admins : SwitchInv(b)'
  BY <1>1, OthersSee DEF Seen, Grows
<1> QED
  BY <1>4, <1>5 DEF RegistryInv, RegistryTypeOK, Rows, SwitchRecord

LEMMA Routing ==
    ASSUME RegistryInv, NEW a \in Admins, ~At(a, "idle"), NEW k \in Keys \cup {None}, Route(a, k)
    PROVE  /\ switch[a].model \in Models /\ RoleOf[switch[a].model] \in Roles
           /\ live' \in [Roles -> [model : Models \cup {None}, key : Keys \cup {None}]]
           /\ live'[RoleOf[switch[a].model]] = [model |-> switch[a].model, key |-> k]
           /\ Move(a, Idle)
BY OwnersAssumption DEF RegistryInv, RegistryTypeOK, SwitchInv, Route

LEMMA IdleRecord == Idle \in SwitchRecord
BY DEF Idle, SwitchRecord

\* A request that comes to rest.
LEMMA Resting ==
    ASSUME RegistryInv, NEW a \in Admins, Move(a, Idle), UNCHANGED <<decodes, rows>>,
           live' \in [Roles -> [model : Models \cup {None}, key : Keys \cup {None}]]
    PROVE  RegistryInv'
<1>1. switch'[a] = Idle
  BY DEF Move
<1>2. SwitchInv(a)'
  BY <1>1 DEF SwitchInv, At, Idle, rows
<1>3. Rows' /\ Grows
  BY DEF RegistryInv, RegistryTypeOK, Rows, Grows, rows
<1> QED
  BY <1>2, <1>3, Moving, IdleRecord

LEMMA RegistryStep_Inv == RegistryInv /\ [RegistryNext]_registryVars => RegistryInv'
<1> SUFFICES ASSUME RegistryInv, [RegistryNext]_registryVars PROVE RegistryInv'
  OBVIOUS
<1> DEFINE LiveType == [Roles -> [model : Models \cup {None}, key : Keys \cup {None}]]
<1>0. /\ Rows /\ live \in LiveType /\ decodes' = decodes
      /\ \A a \in Admins : SwitchInv(a) /\ switch[a] \in SwitchRecord
  BY DEF RegistryInv, RegistryTypeOK, Rows, SwitchRecord, RegistryNext, registryVars
<1>1. CASE Store /\ UNCHANGED live
           /\ switch' = [a \in Admins |-> [switch[a] EXCEPT !.alone = FALSE]]
  <2>1. Rows' /\ Grows
    BY <1>0, <1>1, StoreStep
  <2>2. (\A a \in Admins : Seen(a)) /\ switch' \in [Admins -> SwitchRecord]
    BY <1>1, AllSeen
  <2>3. \A a \in Admins : SwitchInv(a)'
    BY <2>1, <2>2, OthersSee DEF Grows
  <2> QED
    BY <1>0, <1>1, <2>1, <2>2, <2>3 DEF RegistryInv, RegistryTypeOK, Rows, SwitchRecord
<1>2. ASSUME NEW a \in Admins, Ask(a) PROVE RegistryInv'
  <2>1. PICK m \in registered :
            Move(a, [at |-> "set", model |-> m, key |-> None, alone |-> TRUE])
    BY <1>2 DEF Ask
  <2> DEFINE to == [at |-> "set", model |-> m, key |-> None, alone |-> TRUE]
  <2>2. to \in SwitchRecord
    BY <1>0 DEF Rows, SwitchRecord, Of
  <2>3. switch'[a] = to
    BY <2>1 DEF Move
  <2>4. Rows' /\ Grows /\ UNCHANGED <<live, rows>>
    BY <1>0, <1>2 DEF Ask, Rows, Grows, rows
  <2>5. SwitchInv(a)'
    BY <2>3, <2>4 DEF SwitchInv, At, Of, rows
  <2> QED
    BY <1>0, <2>1, <2>2, <2>4, <2>5, Moving
<1>3. ASSUME NEW a \in Admins, Switch(a) PROVE RegistryInv'
  <2> DEFINE to == [switch[a] EXCEPT !.at = "keys"]
  <2>1. /\ switch[a].at = "set" /\ switch[a].model \in Models /\ SetDefault(switch[a].model)
        /\ Move(a, to) /\ live' = live
    BY <1>0, <1>3 DEF Switch, At, SwitchInv, Rows
  <2>2. Rows' /\ Grows
        /\ OfRole(RoleOf[switch[a].model], active' \cap default') = {switch[a].model}
    BY <1>0, <2>1, SettingDefault
  <2>3. to \in SwitchRecord /\ to.at = "keys" /\ to.model = switch[a].model
    BY <1>0 DEF SwitchRecord
  <2>4. switch'[a] = to
    BY <2>1 DEF Move
  <2>5. SwitchInv(a)'
    <3>1. to.model \in registered'
      BY <1>0, <2>1, <2>2, <2>3 DEF SwitchInv, At, Grows
    <3> QED
      BY <2>2, <2>3, <2>4, <3>1 DEF SwitchInv, At, OfRole
  <2> QED
    BY <1>0, <2>1, <2>2, <2>3, <2>5, Moving
<1>4. ASSUME NEW a \in Admins, FindKey(a) PROVE RegistryInv'
  <2>1. CASE \E k \in Of(ProviderOf[switch[a].model], valid) :
                Move(a, [switch[a] EXCEPT !.at = "secret", !.key = k]) /\ UNCHANGED live
    <3>1. PICK k \in Of(ProviderOf[switch[a].model], valid) :
              Move(a, [switch[a] EXCEPT !.at = "secret", !.key = k])
      BY <2>1
    <3> DEFINE to == [switch[a] EXCEPT !.at = "secret", !.key = k]
    <3>2. k \in valid /\ k \in Keys
      BY <1>0 DEF Of, Rows
    <3>3. /\ to \in SwitchRecord /\ to.at = "secret" /\ to.model = switch[a].model
          /\ to.key = k /\ to.alone = switch[a].alone
      BY <1>0, <3>2 DEF SwitchRecord
    <3>4. switch'[a] = to /\ switch[a].at = "keys"
      BY <1>4, <3>1 DEF Move, FindKey, At
    <3>5. Rows' /\ Grows /\ UNCHANGED <<live, rows>>
      BY <1>0, <1>4, <2>1 DEF FindKey, Rows, Grows, rows
    <3>6. SwitchInv(a)'
      BY <1>0, <3>2, <3>3, <3>4, <3>5 DEF SwitchInv, At, Of, OfRole, rows
    <3> QED
      BY <1>0, <3>1, <3>3, <3>5, <3>6, Moving
  <2>2. CASE Route(a, None)
    BY <1>0, <1>4, <2>2, Routing, Resting DEF FindKey, At
  <2> QED
    BY <1>4, <2>1, <2>2 DEF FindKey
<1>5. ASSUME NEW a \in Admins, Apply(a) PROVE RegistryInv'
  <2>1. switch[a].key \in Keys \cup {None}
    BY <1>0 DEF SwitchRecord
  <2> QED
    BY <1>0, <1>5, <2>1, Routing, Resting DEF Apply, At
<1>6. ASSUME NEW a \in Admins, Fail(a) PROVE RegistryInv'
  <2>1. live' = live /\ UNCHANGED rows /\ Move(a, Idle)
    BY <1>6 DEF Fail
  <2> QED
    BY <1>0, <2>1, Resting
<1>7. ASSUME NEW role \in Roles, PatchRouting(role) PROVE RegistryInv'
  <2>1. live' \in LiveType /\ UNCHANGED <<rows, switch>>
    BY <1>0, <1>7 DEF PatchRouting
  <2> QED
    BY <1>0, <2>1 DEF RegistryInv, RegistryTypeOK, SwitchInv, At, rows
<1>8. CASE Restart
  <2>1. /\ live' \in LiveType /\ UNCHANGED rows
        /\ switch' \in [Admins -> SwitchRecord] /\ \A a \in Admins : switch'[a] = Idle
    BY <1>8, IdleRecord DEF Restart, FromEnv
  <2>2. \A a \in Admins : SwitchInv(a)'
    BY <2>1 DEF SwitchInv, At, Idle
  <2> QED
    BY <1>0, <2>1, <2>2 DEF RegistryInv, RegistryTypeOK, Rows, SwitchRecord, rows
<1>9. CASE UNCHANGED registryVars
  BY <1>9 DEF RegistryInv, RegistryTypeOK, SwitchInv, At, registryVars, rows
<1> QED
  BY <1>1, <1>2, <1>3, <1>4, <1>5, <1>6, <1>7, <1>8, <1>9 DEF RegistryNext

LEMMA RegistryInvHolds == RegistrySpec => []RegistryInv
BY RegistryInit_Inv, RegistryStep_Inv, PTL DEF RegistrySpec

\* What is active was stored before, for a provider that exists, and the routing
\* names models and keys only.
THEOREM RegistryTypeCorrect == RegistrySpec => []RegistryTypeOK
<1>1. RegistryInv => RegistryTypeOK
  BY DEF RegistryInv
<1> QED
  BY <1>1, RegistryInvHolds, PTL

\* A request that answers has routed its role.
LEMMA Answered ==
    ASSUME RegistryInv, NEW a \in Admins, Answers(a)
    PROVE  LET role == RoleOf[switch[a].model] IN
           /\ live'[role].model = switch[a].model
           /\ \/ At(a, "keys") /\ live'[role].key = None
                 /\ Of(ProviderOf[switch[a].model], valid) = {}
              \/ At(a, "secret") /\ live'[role].key = switch[a].key
<1>1. switch[a] \in SwitchRecord
  BY DEF RegistryInv, RegistryTypeOK, SwitchRecord
<1>2. CASE FindKey(a)
  <2>1. switch'[a].at = "idle"
    BY DEF Answers, Idle
  <2>2. Of(ProviderOf[switch[a].model], valid) = {} /\ Route(a, None) /\ At(a, "keys")
    <3>1. ASSUME NEW k, Move(a, [switch[a] EXCEPT !.at = "secret", !.key = k]) PROVE FALSE
      BY <1>1, <2>1, <3>1 DEF Move, SwitchRecord
    <3> QED
      BY <1>2, <3>1 DEF FindKey
  <2>3. ~At(a, "idle") /\ None \in Keys \cup {None}
    BY <2>2 DEF At
  <2>4. live'[RoleOf[switch[a].model]] = [model |-> switch[a].model, key |-> None]
    BY <2>2, <2>3, Routing
  <2> QED
    BY <2>2, <2>4
<1>3. CASE Apply(a)
  <2>1. /\ Route(a, switch[a].key) /\ At(a, "secret") /\ ~At(a, "idle")
        /\ switch[a].key \in Keys \cup {None}
    BY <1>1, <1>3 DEF Apply, At, SwitchRecord
  <2>2. live'[RoleOf[switch[a].model]] = [model |-> switch[a].model, key |-> switch[a].key]
    BY <2>1, Routing
  <2> QED
    BY <2>1, <2>2
<1> QED
  BY <1>2, <1>3 DEF Answers

\* A request to switch a role that completes with nothing beside it leaves the
\* role with its one default, which the process runs, on a key that is active
\* if there is any (activate_model of main.py and set_default_model).
THEOREM QuietSwitchesAgree == RegistrySpec => QuietSwitchAgrees
<1>1. RegistryInv =>
        \A a \in Admins : switch[a].alone /\ Answers(a) =>
          LET role == RoleOf[switch[a].model]
              keys == Of(ProviderOf[switch[a].model], valid)
          IN /\ OfRole(role, active \cap default) = {live'[role].model}
             /\ live'[role].key \in IF keys = {} THEN {None} ELSE keys
  <2> SUFFICES ASSUME RegistryInv, NEW a \in Admins, switch[a].alone, Answers(a)
               PROVE  LET role == RoleOf[switch[a].model]
                          keys == Of(ProviderOf[switch[a].model], valid)
                      IN /\ OfRole(role, active \cap default) = {live'[role].model}
                         /\ live'[role].key \in IF keys = {} THEN {None} ELSE keys
    OBVIOUS
  <2> QED
    BY Answered DEF RegistryInv, SwitchInv
<1> QED
  BY <1>1, RegistryInvHolds, PTL DEF QuietSwitchAgrees

LEMMA UnreadInit == RegistryInit => UnreadInv
BY DEF RegistryInit, UnreadInv, At, Idle

\* A registry that cannot be read lets no request begin, and a request in the
\* making is the only one that routes a role.
LEMMA UnreadStep ==
    ASSUME RegistryInv, UnreadInv, [RegistryNext]_registryVars, ~decodes
    PROVE  /\ \A a \in Admins : At(a, "idle")'
           /\ live' = live /\ live = [role \in Roles |-> FromEnv]
<1>1. (\A a \in Admins : At(a, "idle")) /\ live = [role \in Roles |-> FromEnv]
  BY DEF UnreadInv
<1>2. ~ \E a \in Admins : Ask(a) \/ Switch(a) \/ FindKey(a) \/ Apply(a) \/ Fail(a)
  BY <1>1 DEF Ask, Switch, FindKey, Apply, Fail, At
<1>3. CASE Store /\ UNCHANGED live
           /\ switch' = [a \in Admins |-> [switch[a] EXCEPT !.alone = FALSE]]
  <2>1. \A a \in Admins : switch[a] \in SwitchRecord /\ Seen(a)
    BY <1>3, AllSeen DEF RegistryInv, RegistryTypeOK, SwitchRecord
  <2>2. \A a \in Admins : switch'[a].at = switch[a].at
    BY <2>1 DEF Seen, SwitchRecord
  <2> QED
    BY <1>1, <1>3, <2>2 DEF At
<1>4. ASSUME NEW role \in Roles, PatchRouting(role) PROVE live' = live /\ switch' = switch
  <2>1. live[role].model = None /\ live[role].key = None
    BY <1>1 DEF FromEnv
  <2>2. live' = [live EXCEPT ![role] = FromEnv] /\ switch' = switch
    BY <1>4, <2>1 DEF PatchRouting, FromEnv
  <2> QED
    BY <1>1, <2>2
<1>5. CASE Restart
  BY <1>1, <1>5 DEF Restart, At, Idle
<1> QED
  BY <1>1, <1>2, <1>3, <1>4, <1>5 DEF RegistryNext, registryVars, At

LEMMA UnreadInvHolds == RegistrySpec => []UnreadInv
<1>1. RegistryInv /\ UnreadInv /\ [RegistryNext]_registryVars => UnreadInv'
  <2> SUFFICES ASSUME RegistryInv, UnreadInv, [RegistryNext]_registryVars, ~decodes'
               PROVE  (\A a \in Admins : At(a, "idle")') /\ live' = [role \in Roles |-> FromEnv]
    BY DEF UnreadInv
  <2>1. decodes' = decodes
    BY DEF RegistryNext, registryVars
  <2> QED
    BY <2>1, UnreadStep
<1> QED
  BY <1>1, UnreadInit, RegistryInvHolds, PTL DEF RegistrySpec

\* While rows cannot be read or bound - the code as it stands - no request has
\* registered, activated or made default a model before it failed, and none
\* routes a role (update_model, create_provider and register_model of
\* provider_store.py, patch_active_model of main.py).
THEOREM UnreadModelsAreKept == RegistrySpec => UnreadModelsKept
<1>1. RegistryInv /\ UnreadInv /\ [RegistryNext]_registryVars =>
        (~decodes => /\ registered' = registered /\ created' = created
                     /\ active' \subseteq active /\ default' \subseteq default
                     /\ live' = live)
  <2> SUFFICES ASSUME RegistryInv, UnreadInv, [RegistryNext]_registryVars, ~decodes
               PROVE  /\ registered' = registered /\ created' = created
                      /\ active' \subseteq active /\ default' \subseteq default
                      /\ live' = live
    OBVIOUS
  <2>1. live' = live
    BY UnreadStep
  <2>2. ~ \E a \in Admins : Ask(a) \/ Switch(a) \/ FindKey(a) \/ Apply(a) \/ Fail(a)
    BY DEF UnreadInv, Ask, Switch, FindKey, Apply, Fail, At
  <2>3. CASE Store
    <3>1. ASSUME NEW p \in Providers, CreateProvider(p) \/ UpdateProvider(p) \/ DeactivateProvider(p)
          PROVE  /\ registered' = registered /\ created' = created
                 /\ active' \subseteq active /\ default' \subseteq default
      BY <3>1 DEF CreateProvider, UpdateProvider, DeactivateProvider
    <3>2. ASSUME NEW k \in Keys, AddKey(k) \/ DeactivateKey(k)
          PROVE  UNCHANGED <<registered, created, active, default>>
      BY <3>2 DEF AddKey, DeactivateKey
    <3>3. ASSUME NEW m \in Models, RegisterModel(m) \/ UpdateModel(m) \/ DeactivateModel(m)
          PROVE  /\ registered' = registered /\ created' = created
                 /\ active' \subseteq active /\ default' \subseteq default
      BY <3>3 DEF RegisterModel, UpdateModel, DeactivateModel, Commit
    <3> QED
      BY <2>1, <2>3, <3>1, <3>2, <3>3 DEF Store
  <2>4. CASE UNCHANGED rows
    BY <2>1, <2>4 DEF rows
  <2> QED
    BY <2>2, <2>3, <2>4 DEF RegistryNext, registryVars, PatchRouting, Restart
<1> QED
  BY <1>1, RegistryInvHolds, UnreadInvHolds, PTL DEF UnreadModelsKept, RegistrySpec
=============================================================================
