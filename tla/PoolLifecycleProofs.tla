------------------------ MODULE PoolLifecycleProofs --------------------------
(* Safety of PoolLifecycle for any number of requests and pools. *)
EXTENDS PoolLifecycle, TLAPS

-----------------------------------------------------------------------------
(* The inductive invariant.                                                *)

\* Who holds the reconnect lock is setting a pool up, and nobody else is but
\* the lifespan.
LockInv == \A r \in Requests : pc[r] \in SettingUp <=> lock = r

\* Requests are under way only while the lifespan is between its two halves.
ServingInv == pc[Server] # "serving" => \A r \in Requests : pc[r] \in Over

\* Nothing is published while a pool is being set up.
VacantInv == \A p \in Procs : pc[p] \in SettingUp => current = NoPool

IInv == TypeOK /\ LockInv /\ ServingInv /\ VacantInv

\* What the constants are assumed to be.
Assumptions == Server \notin Requests /\ NoPool \notin Pools /\ NoOne \notin Requests

LEMMA AssumptionsHold == Assumptions
BY ServerAssumption, NoPoolAssumption, NoOneAssumption DEF Assumptions

LEMMA InitInv == ASSUME Init PROVE IInv
<1> USE AssumptionsHold DEF Assumptions, Init
<1>1. TypeOK
  <2>1. \A p \in Procs : pc[p] \in {"connect", "idle"} BY DEF Procs
  <2>2. pc \in [Procs -> RequestPc \cup ServerPc]
    BY <2>1 DEF RequestPc, ServerPc, SettingUp, Over
  <2>3. pc[Server] \in ServerPc /\ \A r \in Requests : pc[r] \in RequestPc
    BY DEF Procs, RequestPc, ServerPc, SettingUp, Over
  <2>4. \A p \in Procs : pc[p] \notin Holding \cup {"ready", "close", "terminate", "bootstrapped", "indexed"}
    BY <2>1 DEF Holding
  <2> QED BY <2>2, <2>3, <2>4 DEF TypeOK
<1>2. LockInv /\ ServingInv BY DEF LockInv, ServingInv, Procs, SettingUp, Over
<1>3. VacantInv BY DEF VacantInv
<1> QED BY <1>1, <1>2, <1>3 DEF IInv

-----------------------------------------------------------------------------
(* One process moves.                                                      *)

\* Where process p may go, and with which pool.
Fits(p, to, q) ==
    /\ q \in Pools \cup {NoPool}
    /\ p = Server => to \in ServerPc
    /\ p # Server => to \in RequestPc
    /\ to \in Holding \cup {"ready", "close", "terminate", "bootstrapped", "indexed"} => q # NoPool

\* The part of TypeOK about the processes.
PcType ==
    /\ pc \in [Procs -> RequestPc \cup ServerPc]
    /\ pc[Server] \in ServerPc /\ \A r \in Requests : pc[r] \in RequestPc
    /\ own \in [Procs -> Pools \cup {NoPool}]
    /\ \A p \in Procs : pc[p] \in Holding \cup {"ready", "close", "terminate", "bootstrapped", "indexed"}
                            => own[p] # NoPool

LEMMA Moved ==
    ASSUME TypeOK, NEW p \in Procs, NEW to, NEW q, Move(p, to, q)
    PROVE  pc'[p] = to /\ \A x \in Procs \ {p} : pc'[x] = pc[x]
BY DEF TypeOK, Move

LEMMA MoveType ==
    ASSUME TypeOK, NEW p \in Procs, NEW to, NEW q, Move(p, to, q), Fits(p, to, q)
    PROVE  PcType'
<1> USE AssumptionsHold DEF Assumptions
<1>1. pc'[p] = to /\ own'[p] = q
  BY DEF TypeOK, Move
<1>2. \A x \in Procs \ {p} : pc'[x] = pc[x] /\ own'[x] = own[x]
  BY DEF TypeOK, Move
<1>3. pc' \in [Procs -> RequestPc \cup ServerPc] /\ own' \in [Procs -> Pools \cup {NoPool}]
  <2>1. to \in RequestPc \cup ServerPc BY DEF Fits
  <2> QED BY <2>1 DEF TypeOK, Move, Fits
<1>4. pc'[Server] \in ServerPc
  BY <1>1, <1>2 DEF TypeOK, Fits, Procs
<1>5. \A r \in Requests : pc'[r] \in RequestPc
  BY <1>1, <1>2 DEF TypeOK, Fits, Procs
<1>6. \A x \in Procs : pc'[x] \in Holding \cup {"ready", "close", "terminate", "bootstrapped", "indexed"}
                            => own'[x] # NoPool
  BY <1>1, <1>2 DEF TypeOK, Fits
<1> QED BY <1>3, <1>4, <1>5, <1>6 DEF PcType

\* A move that leaves the set-up and the lock as they are.
LEMMA QuietMove ==
    ASSUME IInv, NEW p \in Procs, NEW to, NEW q, Move(p, to, q),
           p \in Requests => pc[Server] = "serving" \/ to \in Over,
           p = Server => \A r \in Requests : pc[r] \in Over,
           to \in SettingUp <=> pc[p] \in SettingUp, lock' = lock,
           current' = current \/ current' = NoPool
    PROVE  LockInv' /\ ServingInv' /\ VacantInv'
<1> USE AssumptionsHold DEF Assumptions
<1>0. pc'[p] = to /\ \A x \in Procs \ {p} : pc'[x] = pc[x]
  BY Moved DEF IInv
<1>1. \A x \in Procs : pc'[x] \in SettingUp <=> pc[x] \in SettingUp
  BY <1>0
<1>2. LockInv' BY <1>1 DEF IInv, LockInv, Procs
<1>3. ServingInv' BY <1>0 DEF IInv, ServingInv, Procs
<1>4. VacantInv' BY <1>1 DEF IInv, VacantInv
<1> QED BY <1>2, <1>3, <1>4

\* A process leaves the set-up, and the lock with it.
LEMMA SetupEnds ==
    ASSUME IInv, NEW p \in Procs, NEW to, NEW q, Move(p, to, q),
           pc[p] \in SettingUp, to \notin SettingUp, Unlock(p)
    PROVE  LockInv' /\ ServingInv' /\ VacantInv'
<1> USE AssumptionsHold DEF Assumptions
<1>0. pc'[p] = to /\ \A x \in Procs \ {p} : pc'[x] = pc[x]
  BY Moved DEF IInv
<1>1. \A x \in Procs \ {p} : pc[x] \notin SettingUp
  <2>1. CASE p = Server
    <3>1. \A r \in Requests : pc[r] \in Over
      BY <2>1 DEF IInv, ServingInv, SettingUp
    <3> QED BY <2>1, <3>1 DEF Procs, Over, SettingUp
  <2>2. CASE p \in Requests
    <3>1. pc[Server] = "serving"
      BY <2>2 DEF IInv, ServingInv, SettingUp, Over
    <3> QED BY <2>2, <3>1 DEF IInv, LockInv, Procs, SettingUp
  <2> QED BY <2>1, <2>2 DEF Procs
<1>2. lock' = NoOne \/ (p = Server /\ lock' = lock)
  BY DEF Unlock, IInv, LockInv, Procs
<1>3. LockInv'
  BY <1>0, <1>1, <1>2 DEF IInv, LockInv, Procs
<1>4. ServingInv'
  <2>1. p \in Requests => pc[Server] = "serving"
    BY DEF IInv, ServingInv, SettingUp, Over
  <2>2. p = Server => \A r \in Requests : pc[r] \in Over
    BY DEF IInv, ServingInv, SettingUp
  <2> QED BY <1>0, <2>1, <2>2 DEF IInv, ServingInv, Procs
<1>5. VacantInv' BY <1>0, <1>1 DEF VacantInv
<1> QED BY <1>3, <1>4, <1>5

-----------------------------------------------------------------------------
(* The actions, one by one.                                                *)

LEMMA AttemptInv ==
    ASSUME IInv, NEW r \in Requests, Attempt(r), pc[Server] = "serving",
           pc[r] \notin SettingUp, lock = NoOne \/ current # NoPool \/ recent,
           queue' \in Seq(Requests), UNCHANGED <<life, current, handle>>
    PROVE  IInv'
<1> USE AssumptionsHold DEF Assumptions
<1>0. r \in Procs /\ r # Server /\ TypeOK BY DEF Procs, IInv
<1>1. CASE /\ Move(r, "ready", current) /\ current # NoPool
           /\ UNCHANGED <<recent, lock>>
  <2>1. Fits(r, "ready", current)
    BY <1>0, <1>1 DEF TypeOK, Fits, RequestPc
  <2>2. PcType' BY <1>0, <1>1, <2>1, MoveType
  <2>3. TypeOK' BY <1>0, <1>1, <2>2 DEF TypeOK, PcType
  <2>4. LockInv' /\ ServingInv' /\ VacantInv'
    <3>1. "ready" \notin SettingUp BY DEF SettingUp
    <3> QED BY <1>0, <1>1, <3>1, QuietMove
  <2> QED BY <2>3, <2>4 DEF IInv
<1>2. CASE Move(r, "503", NoPool) /\ UNCHANGED <<recent, lock>>
  <2>1. Fits(r, "503", NoPool)
    BY <1>0 DEF Fits, RequestPc, Over, Holding
  <2>2. PcType' BY <1>0, <1>2, <2>1, MoveType
  <2>3. TypeOK' BY <1>0, <1>2, <2>2 DEF TypeOK, PcType
  <2>4. LockInv' /\ ServingInv' /\ VacantInv'
    <3>1. "503" \notin SettingUp BY DEF SettingUp
    <3> QED BY <1>0, <1>2, <3>1, QuietMove
  <2> QED BY <2>3, <2>4 DEF IInv
<1>3. CASE /\ Move(r, "connect", NoPool) /\ current = NoPool
           /\ lock = NoOne /\ lock' = r /\ recent' = TRUE
  <2>1. Fits(r, "connect", NoPool)
    BY <1>0 DEF Fits, RequestPc, SettingUp, Holding
  <2>2. PcType' BY <1>0, <1>3, <2>1, MoveType
  <2>3. TypeOK' BY <1>0, <1>3, <2>2 DEF TypeOK, PcType
  <2>4. pc'[r] = "connect" /\ \A x \in Procs \ {r} : pc'[x] = pc[x]
    BY <1>0, <1>3, Moved
  <2>5. \A x \in Requests : pc[x] \notin SettingUp
    BY <1>3 DEF IInv, LockInv
  <2>6. LockInv'
    BY <1>3, <2>4, <2>5 DEF LockInv, SettingUp, Procs
  <2>7. ServingInv' BY <1>0, <2>4 DEF ServingInv, Procs
  <2>8. VacantInv' BY <1>3 DEF VacantInv
  <2> QED BY <2>3, <2>6, <2>7, <2>8 DEF IInv
<1> QED BY <1>1, <1>2, <1>3 DEF Attempt

LEMMA ArriveInv == ASSUME IInv, NEW r \in Requests, Arrive(r) PROVE IInv'
<1> USE AssumptionsHold DEF Assumptions
<1>0. /\ r \in Procs /\ r # Server /\ TypeOK
      /\ pc[r] \notin SettingUp /\ pc[Server] = "serving"
  BY DEF Arrive, Over, SettingUp, Procs, IInv
<1>1. CASE Attempt(r) /\ queue' = queue
           /\ (current # NoPool \/ recent \/ (lock = NoOne /\ queue = <<>>))
  <2>1. queue' \in Seq(Requests) BY <1>0, <1>1 DEF TypeOK
  <2>2. UNCHANGED <<life, current, handle>> BY DEF Arrive
  <2> QED BY <1>0, <1>1, <2>1, <2>2, AttemptInv
<1>2. CASE /\ queue' = Append(queue, r) /\ Move(r, "waiting", NoPool)
           /\ UNCHANGED <<recent, lock>>
  <2>1. Fits(r, "waiting", NoPool)
    BY <1>0 DEF Fits, RequestPc, Holding
  <2>2. PcType' BY <1>0, <1>2, <2>1, MoveType
  <2>3. queue' \in Seq(Requests) BY <1>0, <1>2 DEF TypeOK
  <2>4. TypeOK' BY <1>0, <1>2, <2>2, <2>3 DEF TypeOK, PcType, Arrive
  <2>5. LockInv' /\ ServingInv' /\ VacantInv'
    <3>1. "waiting" \notin SettingUp BY DEF SettingUp
    <3> QED BY <1>0, <1>2, <3>1, QuietMove DEF Arrive
  <2> QED BY <2>4, <2>5 DEF IInv
<1> QED BY <1>1, <1>2 DEF Arrive

LEMMA TakeLockInv == ASSUME IInv, NEW r \in Requests, TakeLock(r) PROVE IInv'
<1>0. pc[r] \notin SettingUp /\ pc[r] \notin Over
  BY DEF TakeLock, SettingUp, Over
<1>1. pc[Server] = "serving" BY <1>0 DEF IInv, ServingInv
<1>2. queue' \in Seq(Requests) BY DEF TakeLock, IInv, TypeOK
<1>3. Attempt(r) /\ lock = NoOne /\ UNCHANGED <<life, current, handle>> BY DEF TakeLock
<1> QED BY <1>0, <1>1, <1>2, <1>3, AttemptInv

\* Where a set-up that ends takes its process.
LEMMA EndsTyped ==
    ASSUME IInv, NEW p \in Procs, NEW to, NEW q, Move(p, to, q), Fits(p, to, q),
           pc[p] \in SettingUp, to \notin SettingUp, Unlock(p),
           current' \in Pools \cup {NoPool}, UNCHANGED <<life, handle, recent, queue>>
    PROVE  IInv'
<1>1. PcType' BY MoveType DEF IInv
<1>2. lock' \in Requests \cup {NoOne} BY DEF Unlock, IInv, TypeOK
<1>3. TypeOK' BY <1>1, <1>2 DEF IInv, TypeOK, PcType
<1>4. LockInv' /\ ServingInv' /\ VacantInv' BY SetupEnds
<1> QED BY <1>3, <1>4 DEF IInv

LEMMA SetupFailsInv == ASSUME IInv, NEW p \in Procs, SetupFails(p) PROVE IInv'
<1> DEFINE to == IF p = Server THEN "serving" ELSE "503"
<1>1. Fits(p, to, NoPool) BY DEF Fits, ServerPc, RequestPc, Over, Holding
<1>2. to \notin SettingUp BY DEF SettingUp
<1>3. pc[p] \in SettingUp /\ Move(p, to, NoPool) /\ Unlock(p) /\ current' = NoPool
      /\ UNCHANGED <<life, handle, recent, queue>>
  BY DEF SetupFails
<1> HIDE DEF to
<1> QED BY <1>1, <1>2, <1>3, EndsTyped

LEMMA PublishInv == ASSUME IInv, NEW p \in Procs, Publish(p) PROVE IInv'
<1> DEFINE to == IF p = Server THEN "serving" ELSE "ready"
           q  == IF p = Server THEN NoPool ELSE own[p]
<1>1. own[p] \in Pools BY DEF Publish, IInv, TypeOK
<1>2. Fits(p, to, q) BY <1>1, AssumptionsHold DEF Fits, ServerPc, RequestPc, Holding, Assumptions
<1>3. to \notin SettingUp BY DEF SettingUp
<1>4. pc[p] \in SettingUp /\ Move(p, to, q) /\ Unlock(p) /\ current' \in Pools \cup {NoPool}
      /\ UNCHANGED <<life, handle, recent, queue>>
  BY <1>1 DEF Publish, SettingUp
<1> HIDE DEF to, q
<1> QED BY <1>2, <1>3, <1>4, EndsTyped

\* Every other step of a process: it does not enter or leave the set-up.
LEMMA StepInv ==
    ASSUME IInv, NEW p \in Procs, NEW to, NEW q, Move(p, to, q), Fits(p, to, q),
           p \in Requests => pc[Server] = "serving" \/ to \in Over,
           p = Server => \A r \in Requests : pc[r] \in Over,
           to \in SettingUp <=> pc[p] \in SettingUp,
           life' \in [Pools -> {"new", "open", "closing", "closed"}],
           current' = current \/ current' = NoPool,
           handle' \in Pools \cup {NoPool}, UNCHANGED <<recent, lock, queue>>
    PROVE  IInv'
<1>1. PcType' BY MoveType DEF IInv
<1>2. TypeOK' BY <1>1 DEF IInv, TypeOK, PcType
<1>3. LockInv' /\ ServingInv' /\ VacantInv' BY QuietMove
<1> QED BY <1>2, <1>3 DEF IInv

\* The lifespan and the requests are never under way together.
LEMMA Alone ==
    ASSUME IInv, NEW p \in Procs
    PROVE  /\ p = Server /\ pc[p] # "serving" => \A r \in Requests : pc[r] \in Over
           /\ p \in Requests /\ pc[p] \notin Over => pc[Server] = "serving"
BY DEF IInv, ServingInv

LEMMA ConnectedInv == ASSUME IInv, NEW p \in Procs, Connected(p) PROVE IInv'
<1>1. PICK q \in Pools : /\ life' = [life EXCEPT ![q] = "open"] /\ handle' = q
                         /\ Move(p, "bootstrap", q)
  BY DEF Connected
<1>2. Fits(p, "bootstrap", q)
  BY AssumptionsHold DEF Fits, RequestPc, ServerPc, SettingUp, Assumptions
<1>3. pc[p] \in SettingUp /\ "bootstrap" \in SettingUp /\ pc[p] \notin Over /\ pc[p] # "serving"
  BY DEF Connected, SettingUp, Over
<1>4. life' \in [Pools -> {"new", "open", "closing", "closed"}]
  BY <1>1 DEF IInv, TypeOK
<1> QED BY <1>1, <1>2, <1>3, <1>4, Alone, StepInv DEF Connected

\* The three steps of a set-up that keep its pool.
LEMMA KeepsPool ==
    ASSUME IInv, NEW p \in Procs, NEW to \in SettingUp,
           pc[p] \in {"bootstrap", "bootstrapped", "index"}, Move(p, to, own[p]),
           UNCHANGED <<life, current, handle, recent, lock, queue>>
    PROVE  IInv'
<1>1. own[p] \in Pools BY DEF IInv, TypeOK, Holding
<1>2. Fits(p, to, own[p])
  BY <1>1, AssumptionsHold DEF Fits, RequestPc, ServerPc, Assumptions
<1>3. pc[p] \in SettingUp /\ pc[p] \notin Over /\ pc[p] # "serving"
  BY DEF SettingUp, Over
<1>4. life' \in [Pools -> {"new", "open", "closing", "closed"}] /\ handle' \in Pools \cup {NoPool}
  BY DEF IInv, TypeOK
<1> QED BY <1>2, <1>3, <1>4, Alone, StepInv

\* The two steps of create_pool before there is a pool.
LEMMA NoPoolYet ==
    ASSUME IInv, NEW p \in Procs, RawConnected(p) \/ Extended(p)
    PROVE  IInv'
<1>1. PICK to \in {"extension", "pool"} :
         Move(p, to, NoPool) /\ UNCHANGED <<life, current, handle, recent, lock, queue>>
  BY DEF RawConnected, Extended
<1>2. Fits(p, to, NoPool)
  BY DEF Fits, RequestPc, ServerPc, SettingUp, Holding
<1>3. pc[p] \in SettingUp /\ to \in SettingUp /\ pc[p] \notin Over /\ pc[p] # "serving"
  BY DEF RawConnected, Extended, SettingUp, Over
<1>4. life' \in [Pools -> {"new", "open", "closing", "closed"}] /\ handle' \in Pools \cup {NoPool}
  BY <1>1 DEF IInv, TypeOK
<1> QED BY <1>1, <1>2, <1>3, <1>4, Alone, StepInv

LEMMA SetUpInv == ASSUME IInv, NEW p \in Procs, SetUp(p) PROVE IInv'
<1>1. CASE Bootstrapped(p)
  <2>1. "bootstrapped" \in SettingUp BY DEF SettingUp
  <2> QED BY <1>1, <2>1, KeepsPool DEF Bootstrapped
<1>2. CASE Index(p)
  <2>1. "index" \in SettingUp BY DEF SettingUp
  <2> QED BY <1>2, <2>1, KeepsPool DEF Index
<1>3. CASE Indexed(p)
  <2>1. "indexed" \in SettingUp BY DEF SettingUp
  <2> QED BY <1>3, <2>1, KeepsPool DEF Indexed
<1> QED BY <1>1, <1>2, <1>3, NoPoolYet, ConnectedInv, PublishInv, SetupFailsInv DEF SetUp

LEMMA ClosePoolStep ==
    ASSUME IInv, NEW p \in Procs, NEW done, ClosePool(p, done),
           done \in Over \cup {"stopped"}, p = Server <=> done = "stopped",
           pc[p] \notin SettingUp,
           p \in Requests => pc[Server] = "serving",
           p = Server => \A r \in Requests : pc[r] \in Over,
           current' = current \/ current' = NoPool, UNCHANGED <<recent, lock, queue>>
    PROVE  IInv'
<1> USE AssumptionsHold DEF Assumptions
<1>0. TypeOK BY DEF IInv
<1>1. CASE Move(p, done, NoPool)
  <2>1. Fits(p, done, NoPool)
    BY DEF Fits, RequestPc, ServerPc, Over, Holding, Procs
  <2>2. done \notin SettingUp BY DEF SettingUp, Over
  <2>3. life' = life /\ handle' \in Pools \cup {NoPool}
    BY <1>0, <1>1 DEF ClosePool, TypeOK, Move
  <2> QED BY <1>0, <1>1, <2>1, <2>2, <2>3, StepInv DEF TypeOK
<1>2. CASE handle # NoPool /\ Move(p, "close", handle)
           /\ life' = [life EXCEPT ![handle] = "closing"] /\ handle' = handle
  <2>1. Fits(p, "close", handle)
    BY <1>0, <1>2 DEF Fits, RequestPc, ServerPc, TypeOK
  <2>2. "close" \notin SettingUp BY DEF SettingUp
  <2>3. life' \in [Pools -> {"new", "open", "closing", "closed"}] /\ handle' \in Pools \cup {NoPool}
    BY <1>0, <1>2 DEF TypeOK
  <2> QED BY <1>2, <2>1, <2>2, <2>3, StepInv
<1> QED BY <1>1, <1>2 DEF ClosePool

\* The steps of a handler between two pools' states.
LEMMA HandleInv == ASSUME IInv, NEW r \in Requests, Handle(r) PROVE IInv'
<1> USE AssumptionsHold DEF Assumptions
<1>0. r \in Procs /\ r # Server /\ TypeOK BY DEF Procs, IInv
<1>1. CASE TakeLock(r) BY <1>1, TakeLockInv
<1>2. CASE pc[r] \in {"ready", "query"} /\ ~TakeLock(r)
  <2>1. own[r] \in Pools BY <1>0, <1>2 DEF TypeOK, Holding
  <2>2. pc[r] \notin SettingUp /\ pc[Server] = "serving"
    BY <1>0, <1>2, Alone DEF SettingUp, Over
  <2>3. ASSUME NEW to \in {"query", "ready", "fault", "ok"},
               NEW q \in {NoPool, own[r]}, Move(r, to, q),
               to \in {"query", "ready"} => q = own[r],
               UNCHANGED <<life, current, handle, recent, lock, queue>>
        PROVE  IInv'
    <3>1. Fits(r, to, q)
      BY <1>0, <2>1, <2>3 DEF Fits, RequestPc, Over, Holding
    <3>2. to \notin SettingUp BY DEF SettingUp
    <3> QED BY <1>0, <2>2, <2>3, <3>1, <3>2, StepInv DEF TypeOK
  <2>4. CASE Acquire(r) BY <2>3, <2>4 DEF Acquire
  <2>5. CASE QueryEnds(r) BY <2>3, <2>5 DEF QueryEnds
  <2>6. CASE Answer(r) BY <2>3, <2>6 DEF Answer
  <2>7. CASE RequestFails(r)
    <3>1. "503" \in Over BY DEF Over
    <3> QED BY <1>0, <2>2, <2>7, <3>1, ClosePoolStep DEF RequestFails
  <2> QED BY <1>2, <2>4, <2>5, <2>6, <2>7 DEF Handle
<1>3. TakeLock(r) \/ pc[r] \in {"ready", "query"}
  BY DEF Handle, Acquire, QueryEnds, Answer, RequestFails
<1> QED BY <1>1, <1>2, <1>3

LEMMA ReleasedInv == ASSUME IInv, NEW p \in Procs, Released(p) PROVE IInv'
<1>1. own[p] \in Pools BY DEF Released, IInv, TypeOK
<1>2. Fits(p, "terminate", own[p])
  BY <1>1, AssumptionsHold DEF Fits, RequestPc, ServerPc, Assumptions
<1>3. "terminate" \notin SettingUp /\ pc[p] \notin SettingUp /\ pc[p] \notin Over
      /\ pc[p] # "serving"
  BY DEF Released, SettingUp, Over
<1>4. life' \in [Pools -> {"new", "open", "closing", "closed"}] /\ handle' \in Pools \cup {NoPool}
  BY DEF Released, IInv, TypeOK
<1> QED BY <1>2, <1>3, <1>4, Alone, StepInv DEF Released

LEMMA CloseEndsInv ==
    ASSUME IInv, NEW p \in Procs, Closed(p) \/ CloseFails(p)
    PROVE  IInv'
<1> USE AssumptionsHold DEF Assumptions
<1> DEFINE to == IF p = Server THEN "stopped" ELSE "503"
<1>1. Fits(p, to, NoPool) BY DEF Fits, ServerPc, RequestPc, Over, Holding
<1>2. to \notin SettingUp /\ pc[p] \notin SettingUp
  BY DEF SettingUp, Closed, CloseFails
<1>3. pc[p] = "terminate" /\ Move(p, to, NoPool) /\ life' = [life EXCEPT ![own[p]] = "closed"]
      /\ handle' \in {NoPool, handle} /\ UNCHANGED <<current, recent, lock, queue>>
  BY DEF Closed, CloseFails
<1>4. life' \in [Pools -> {"new", "open", "closing", "closed"}] /\ handle' \in Pools \cup {NoPool}
  BY <1>3 DEF IInv, TypeOK
<1>5. /\ p \in Requests => pc[Server] = "serving"
      /\ p = Server => \A r \in Requests : pc[r] \in Over
  BY <1>3, Alone DEF Over
<1> HIDE DEF to
<1> QED BY <1>1, <1>2, <1>3, <1>4, <1>5, StepInv

LEMMA StopInv == ASSUME IInv, Stop PROVE IInv'
<1>1. Server \in Procs /\ Server \notin Requests
  BY AssumptionsHold DEF Procs, Assumptions
<1>2. pc[Server] \notin SettingUp BY DEF Stop, SettingUp
<1> QED BY <1>1, <1>2, ClosePoolStep DEF Stop

LEMMA NextInv == ASSUME IInv, [Next]_vars PROVE IInv'
<1>1. CASE \E p \in Procs : SetUp(p) BY <1>1, SetUpInv
<1>2. CASE \E p \in Procs : Closed(p) \/ CloseFails(p) BY <1>2, CloseEndsInv
<1>3. CASE \E r \in Requests : Arrive(r) BY <1>3, ArriveInv
<1>4. CASE \E r \in Requests : Handle(r) BY <1>4, HandleInv
<1>5. CASE IntervalPasses
  BY <1>5 DEF IntervalPasses, IInv, TypeOK, LockInv, ServingInv, VacantInv
<1>6. CASE Stop BY <1>6, StopInv
<1>8. CASE \E p \in Procs : Released(p) BY <1>8, ReleasedInv
<1>7. CASE UNCHANGED vars
  BY <1>7 DEF vars, IInv, TypeOK, LockInv, ServingInv, VacantInv
<1> QED BY <1>1, <1>2, <1>3, <1>4, <1>5, <1>6, <1>7, <1>8 DEF Next

-----------------------------------------------------------------------------
(* The theorems.                                                           *)

\* The strengthening holds throughout: the lock's holder and only it sets a
\* pool up while serving, and then nothing is published.
THEOREM Inductive == Spec => []IInv
<1>1. Init => IInv BY InitInv
<1>2. IInv /\ [Next]_vars => IInv' BY NextInv
<1> QED BY <1>1, <1>2, PTL DEF Spec

\* Every variable of the pool's life cycle keeps its type, and whoever uses,
\* sets up or closes a pool has one.
THEOREM TypesHold == Spec => []TypeOK
<1>1. IInv => TypeOK BY DEF IInv
<1> QED BY <1>1, Inductive, PTL

\* At most one process sets up a pool, for any number of requests that found
\* none (pool_reconnect_lock).
THEOREM OneSetupAtATime == Spec => []OneSetup
<1>1. IInv => OneSetup
  BY AssumptionsHold DEF IInv, LockInv, ServingInv, OneSetup, Procs, SettingUp, Over,
     Assumptions
<1> QED BY <1>1, Inductive, PTL

\* A published pool is never replaced by another one, only dropped.
THEOREM PoolStays == Spec => PublishedPoolStays
<1>1. IInv /\ [Next]_vars => [current # NoPool => current' \in {current, NoPool}]_vars
  <2> SUFFICES ASSUME IInv, Next PROVE current # NoPool => current' \in {current, NoPool}
    BY DEF vars
  <2>1. ASSUME NEW p \in Procs, Publish(p) PROVE current = NoPool
    BY <2>1 DEF Publish, IInv, VacantInv, SettingUp
  <2>2. (\E p \in Procs : Publish(p)) \/ current' \in {current, NoPool}
    BY DEF Next, SetUp, Handle, RawConnected, Extended, Released, Connected,
       Bootstrapped, Index, Indexed, SetupFails, Closed, CloseFails, Arrive, TakeLock,
       Acquire, QueryEnds, Answer, RequestFails, IntervalPasses, Stop
  <2> QED BY <2>1, <2>2
<1> QED BY <1>1, Inductive, PTL DEF Spec, PublishedPoolStays

\* Reconnect attempts keep db_reconnect_min_interval apart, whoever makes them
\* and in whatever order waiting requests get the lock.
THEOREM AttemptsKeepApart == Spec => AttemptsApart
<1>1. IInv /\ [Next]_vars
        => [recent => \A r \in Requests : pc'[r] = "connect" => pc[r] = "connect"]_vars
  <2> SUFFICES ASSUME IInv, Next, recent, NEW r \in Requests, pc'[r] = "connect"
               PROVE  pc[r] = "connect"
    BY DEF vars
  <2>0. TypeOK /\ r \in Procs BY DEF IInv, Procs
  <2>1. ASSUME NEW p \in Procs, NEW to, NEW q, Move(p, to, q), to # "connect"
        PROVE  pc[r] = "connect"
    BY <2>0, <2>1, Moved
  <2>2. ASSUME NEW x \in Requests, Attempt(x) PROVE pc[r] = "connect"
    <3>1. x \in Procs BY DEF Procs
    <3> QED BY <2>1, <2>2, <3>1 DEF Attempt
  <2>3. ASSUME NEW p \in Procs, NEW done, ClosePool(p, done), done # "connect"
        PROVE  pc[r] = "connect"
    BY <2>1, <2>3 DEF ClosePool
  <2>4. ASSUME NEW p \in Procs, SetUp(p) \/ Released(p) \/ Closed(p) \/ CloseFails(p)
        PROVE  pc[r] = "connect"
    <3>1. CASE Publish(p) BY <2>1, <3>1 DEF Publish
    <3>2. CASE SetupFails(p) BY <2>1, <3>2 DEF SetupFails
    <3>3. CASE Closed(p) \/ CloseFails(p) BY <2>1, <3>3 DEF Closed, CloseFails
    <3>4. CASE Connected(p) BY <2>1, <3>4 DEF Connected
    <3>5. CASE Bootstrapped(p) \/ Index(p) \/ Indexed(p)
      BY <2>1, <3>5 DEF Bootstrapped, Index, Indexed
    <3>6. CASE RawConnected(p) \/ Extended(p) \/ Released(p)
      BY <2>1, <3>6 DEF RawConnected, Extended, Released
    <3> QED BY <2>4, <3>1, <3>2, <3>3, <3>4, <3>5, <3>6 DEF SetUp
  <2>5. ASSUME NEW x \in Requests, Arrive(x) \/ Handle(x) PROVE pc[r] = "connect"
    <3>0. x \in Procs BY DEF Procs
    <3>1. CASE Arrive(x) BY <2>1, <2>2, <3>0, <3>1 DEF Arrive
    <3>2. CASE TakeLock(x) BY <2>2, <3>2 DEF TakeLock
    <3>3. CASE Acquire(x) \/ QueryEnds(x) \/ Answer(x)
      BY <2>1, <3>0, <3>3 DEF Acquire, QueryEnds, Answer
    <3>4. CASE RequestFails(x) BY <2>3, <3>0, <3>4 DEF RequestFails
    <3> QED BY <2>5, <3>1, <3>2, <3>3, <3>4 DEF Handle
  <2>6. CASE IntervalPasses BY <2>6 DEF IntervalPasses
  <2>7. CASE Stop
    <3>1. Server \in Procs BY DEF Procs
    <3> QED BY <2>3, <2>7, <3>1 DEF Stop
  <2> QED BY <2>4, <2>5, <2>6, <2>7 DEF Next
<1> QED BY <1>1, Inductive, PTL DEF Spec, AttemptsApart
=============================================================================
