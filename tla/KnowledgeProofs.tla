-------------------------- MODULE KnowledgeProofs ---------------------------
(* Proofs about Knowledge, for any sources, requests and bounds.             *)
(*                                                                           *)
(* KnowledgeInv says of rows and chunks that they are not newer than their   *)
(* sources, that a chunk or a row without a version is plain text, and that  *)
(* a request holds each source once.  QuietInv is about requests with which  *)
(* nothing else happens: what such a request still carries is current, and   *)
(* what it no longer carries is stored.  LockInv needs that a row, once      *)
(* there, stays: no step gives a transaction a lock it did not ask for.      *)
EXTENDS Knowledge, FiniteSetTheorems, TLAPS

Places    == {"columns", "filter", "embed", "write", "bump", "ok", "error"}
ChunkSet  == [source : Sources, text : Nat, version : Nat]
RowRecord == [text : Nat, version : Nat, live : BOOLEAN]
JobRecord == [at : Places, asked : SUBSET Sources, todo : Seq(Groups), text : Nat,
              chunks : Seq(ChunkSet), locked : Nat, failed : Nat]

ChunkOK(c) ==
    /\ c.text <= current[c.source] /\ c.version <= current[c.source]
    /\ c.version = 0 => c.source \in Texts /\ c.text = 0
\* What holds of the record q of a request.
RecordOK(q) ==
    /\ q \in JobRecord /\ q.failed < EmbedTries
    /\ q.at = "columns" => q.todo # <<>> /\ q.text <= current[Head(q.todo)]
    /\ q.at # "columns" => q.todo = <<>>
    /\ q.at = "bump" => q.chunks = <<>>
    /\ q.locked <= Len(q.chunks) /\ (q.locked # 0 => q.at = "write")
    /\ \A i \in DOMAIN q.chunks : ChunkOK(q.chunks[i])
    /\ \A i, k \in DOMAIN q.chunks : q.chunks[i].source = q.chunks[k].source => i = k
    /\ \A i, k \in DOMAIN q.todo : q.todo[i] = q.todo[k] => i = k
    /\ \A i \in DOMAIN q.chunks, k \in DOMAIN q.todo : q.chunks[i].source # q.todo[k]

SourceInv ==
    /\ current \in [Sources -> 1..MaxVersion]
    /\ active \subseteq Records /\ deleting \subseteq Rules \ active /\ alone \subseteq Jobs
RowOK(s) ==
    /\ row[s].text <= current[s] /\ row[s].version <= current[s]
    /\ row[s].version = 0 => row[s] = Absent \/ (row[s] = Plain /\ s \in Texts)
RowInv == row \in [Sources -> RowRecord] /\ \A s \in Sources : RowOK(s)
JobInv == job \in [Jobs -> JobRecord] /\ \A j \in Jobs : RecordOK(job[j])
LockInv == \A j \in Jobs : \A k \in Jobs \ {j} : Locks(j) \cap Locks(k) = {}

Stored(s) == row[s] = Plain \/ row[s].version = current[s]
\* What a request needs of its record q to repair what it asked for.
Repairs(q) ==
    /\ \A i \in DOMAIN q.chunks :
         /\ q.chunks[i].version # 0 => q.chunks[i].version = current[q.chunks[i].source]
         /\ q.chunks[i].source \in Rules => q.chunks[i].source \in active
    /\ \A s \in q.asked :
         \/ \E k \in DOMAIN q.todo : q.todo[k] = s
         \/ \E i \in DOMAIN q.chunks : q.chunks[i].source = s /\ q.chunks[i].version = current[s]
         \/ q.at \notin {"columns", "filter"} /\ Stored(s)
QuietInv ==
    \A j \in alone :
        /\ \A k \in Jobs \ {j} : ~Busy(k)
        /\ Busy(j) => Repairs(job[j])
KnowledgeInv == SourceInv /\ RowInv /\ JobInv /\ LockInv /\ QuietInv

----------------------------------------------------------------------------
(* Sequences without repetition.                                             *)
LEMMA OrderFacts ==
  ASSUME NEW S, IsFiniteSet(S), NEW order \in SetToSeqs(S)
  PROVE  /\ order \in Seq(S) /\ Len(order) = Cardinality(S)
         /\ \A i, k \in DOMAIN order : order[i] = order[k] => i = k
         /\ \A s \in S : \E i \in DOMAIN order : order[i] = s
<1> DEFINE D == 1..Cardinality(S)
<1>1. Cardinality(S) \in Nat
  BY FS_CardinalityType
<1>2. order \in [D -> S] /\ \A i, k \in D : i # k => order[i] # order[k]
  BY DEF SetToSeqs
<1>3. order \in Injection(D, S)
  BY <1>2 DEF Injection, IsInjective
<1>4. Cardinality(D) = Cardinality(S)
  BY <1>1, FS_Interval
<1>5. order \in Surjection(D, S)
  BY <1>3, <1>4, FS_Injection
<1>6. \A s \in S : \E i \in D : order[i] = s
  BY <1>5 DEF Surjection
<1> QED
  BY <1>1, <1>2, <1>6

LEMMA Finite == \A S : S \subseteq Groups \/ S \subseteq Records => IsFiniteSet(S)
BY KnowledgeAssumption, FS_Subset

\* The head of a sequence without repetition is not in its tail.
LEMMA TailFacts ==
  ASSUME NEW S, NEW q \in Seq(S), q # <<>>
  PROVE  /\ Head(q) = q[1] /\ 1 \in DOMAIN q /\ Head(q) \in S /\ Tail(q) \in Seq(S)
         /\ \A k \in DOMAIN Tail(q) : k + 1 \in DOMAIN q /\ Tail(q)[k] = q[k + 1]
         /\ \A k \in DOMAIN q : k # 1 => k - 1 \in DOMAIN Tail(q) /\ Tail(q)[k - 1] = q[k]
OBVIOUS

LEMMA NoJobFacts ==
  /\ RecordOK(NoJob) /\ NoJob.chunks = <<>> /\ NoJob.locked = 0
  /\ \A how \in {"ok", "error"} : RecordOK([NoJob EXCEPT !.at = how])
<1>1. ASSUME NEW how \in {"ok", "error"}
      PROVE  RecordOK([NoJob EXCEPT !.at = how])
  <2>1. [NoJob EXCEPT !.at = how] =
          [at |-> how, asked |-> {}, todo |-> <<>>, text |-> 0, chunks |-> <<>>,
           locked |-> 0, failed |-> 0]
    BY DEF NoJob
  <2> DEFINE q == [NoJob EXCEPT !.at = how]
  <2>2. q \in JobRecord
    <3>1. {} \in SUBSET Sources /\ <<>> \in Seq(Groups) /\ <<>> \in Seq(ChunkSet)
      OBVIOUS
    <3>2. how \in Places /\ 0 \in Nat
      BY DEF Places
    <3> QED
      BY <2>1, <3>1, <3>2 DEF JobRecord
  <2>3. /\ q.at = how /\ q.todo = <<>> /\ q.chunks = <<>> /\ q.locked = 0
        /\ q.failed = 0 /\ 0 < EmbedTries
    BY <2>1, KnowledgeAssumption
  <2> HIDE DEF q
  <2>4. RecordOK(q)
    BY <2>2, <2>3 DEF RecordOK
  <2> QED
    BY <2>4 DEF q
<1>2. NoJob = [NoJob EXCEPT !.at = "ok"]
  BY DEF NoJob
<1> QED
  BY <1>1, <1>2 DEF NoJob

LEMMA InitInv == KnowledgeInit => KnowledgeInv
<1> SUFFICES ASSUME KnowledgeInit PROVE KnowledgeInv
  OBVIOUS
<1> USE KnowledgeAssumption DEF KnowledgeInit
<1>1. SourceInv
  BY DEF SourceInv
<1>2. RowInv
  BY DEF RowInv, RowOK, RowRecord, Absent
<1>3. JobInv
  BY NoJobFacts DEF JobInv, RecordOK
<1>4. LockInv
  BY NoJobFacts DEF LockInv, Locks
<1>5. QuietInv
  BY DEF QuietInv
<1> QED
  BY <1>1, <1>2, <1>3, <1>4, <1>5 DEF KnowledgeInv

----------------------------------------------------------------------------
(* What a step of a request leaves of the other parts.                       *)
LEMMA OthersKeep ==
  ASSUME KnowledgeInv, NEW j \in Jobs, NEW q, RecordOK(q), Goes(j, q), UNCHANGED current
  PROVE  /\ JobInv'
         /\ job'[j] = q /\ \A k \in Jobs \ {j} : job'[k] = job[k] /\ (Busy(k)' <=> Busy(k))
         /\ row' = row => \A k \in Jobs \ {j} : Locks(k)' = Locks(k)
         /\ q.locked = 0 => Locks(j)' = {}
<1>1. job \in [Jobs -> JobRecord] /\ q \in JobRecord
  BY DEF KnowledgeInv, JobInv, RecordOK
<1>2. job'[j] = q /\ \A k \in Jobs \ {j} : job'[k] = job[k]
  BY <1>1 DEF Goes
<1>3. job' \in [Jobs -> JobRecord]
  BY <1>1 DEF Goes
<1>4. ASSUME NEW k \in Jobs PROVE RecordOK(job[k])'
  <2>1. RecordOK(job'[k])
    BY <1>2 DEF KnowledgeInv, JobInv
  <2> QED
    BY <2>1 DEF RecordOK, ChunkOK
<1>5. \A k \in Jobs \ {j} : Busy(k)' <=> Busy(k)
  BY <1>2 DEF Busy, In
<1>6. row' = row => \A k \in Jobs \ {j} : Locks(k)' = Locks(k)
  BY <1>2 DEF Locks, Takes
<1>7. q.locked = 0 => Locks(j)' = {}
  BY <1>2 DEF Locks
<1> QED
  BY <1>2, <1>3, <1>4, <1>5, <1>6, <1>7 DEF JobInv

\* A request goes on alone: only its record changes.
LEMMA GoesOn ==
  ASSUME KnowledgeInv, NEW j \in Jobs, Busy(j), NEW q, RecordOK(q), Goes(j, q),
         UNCHANGED <<current, active, row, alone, deleting>>,
         \A k \in Jobs \ {j} : Locks(j)' \cap Locks(k) = {},
         j \in alone /\ q.at \notin {"ok", "error"} => Repairs(q)
  PROVE  KnowledgeInv'
<1>1. SourceInv'
  BY DEF KnowledgeInv, SourceInv
<1>2. RowInv'
  BY DEF KnowledgeInv, RowInv, RowOK
<1>3. JobInv'
  BY OthersKeep
<1>4. LockInv'
  BY OthersKeep DEF KnowledgeInv, LockInv
<1>5. QuietInv'
  <2> SUFFICES ASSUME NEW k \in alone'
               PROVE  /\ \A l \in Jobs \ {k} : ~Busy(l)'
                      /\ Busy(k)' => Repairs(job[k])'
    BY DEF QuietInv
  <2>1. k \in alone /\ k = j
    BY DEF KnowledgeInv, QuietInv, SourceInv
  <2>2. \A l \in Jobs \ {k} : ~Busy(l)'
    BY <2>1, OthersKeep DEF KnowledgeInv, QuietInv
  <2>3. ASSUME Busy(k)' PROVE Repairs(job[k])'
    <3>1. Repairs(q) /\ job'[k] = q
      BY <2>1, <2>3, OthersKeep DEF Busy, In
    <3> QED
      BY <3>1 DEF Repairs, Stored
  <2> QED
    BY <2>2, <2>3
<1> QED
  BY <1>1, <1>2, <1>3, <1>4, <1>5 DEF KnowledgeInv

LEMMA EndsWell ==
  ASSUME KnowledgeInv, NEW j \in Jobs, Busy(j), NEW how \in {"ok", "error"}, Ends(j, how),
         UNCHANGED <<current, active, row, alone, deleting>>
  PROVE  KnowledgeInv'
<1> DEFINE q == [NoJob EXCEPT !.at = how]
<1>1. RecordOK(q) /\ q.locked = 0 /\ q.at = how
  BY NoJobFacts DEF NoJob
<1>2. Goes(j, q)
  BY DEF Ends
<1> HIDE DEF q
<1>3. Locks(j)' = {}
  BY <1>1, <1>2, OthersKeep
<1> QED
  BY <1>1, <1>2, <1>3, GoesOn

LEMMA RecordFacts ==
  ASSUME KnowledgeInv, NEW j \in Jobs
  PROVE  RecordOK(job[j]) /\ job[j] \in JobRecord
BY DEF KnowledgeInv, JobInv

LEMMA EmbedInv ==
  ASSUME KnowledgeInv, NEW j \in Jobs, Embed(j) \/ EmbedAgain(j)
  PROVE  KnowledgeInv'
<1> USE KnowledgeAssumption
<1>1. Busy(j)
  BY DEF Embed, EmbedAgain, Busy, In
<1>2. PICK q \in JobRecord :
        /\ Goes(j, q) /\ q.failed < EmbedTries /\ q.at \in {"embed", "write"}
        /\ q.asked = job[j].asked /\ q.todo = job[j].todo /\ q.text = job[j].text
        /\ q.chunks = job[j].chunks /\ q.locked = job[j].locked
  <2>1. CASE Embed(j)
    <3> DEFINE q == [job[j] EXCEPT !.at = "write", !.failed = 0]
    <3>1. q \in JobRecord
      BY RecordFacts DEF JobRecord, Places
    <3>2. /\ Goes(j, q) /\ q.failed = 0 /\ q.at = "write"
          /\ q.asked = job[j].asked /\ q.todo = job[j].todo /\ q.text = job[j].text
          /\ q.chunks = job[j].chunks /\ q.locked = job[j].locked
      BY <2>1, RecordFacts DEF Embed, JobRecord
    <3> HIDE DEF q
    <3>3. q.failed < EmbedTries
      BY <3>2
    <3> QED
      BY <3>1, <3>2, <3>3
  <2>2. CASE EmbedAgain(j)
    <3> DEFINE q == [job[j] EXCEPT !.failed = @ + 1]
    <3>1. job[j].failed + 1 \in Nat
      BY RecordFacts DEF JobRecord
    <3>2. q \in JobRecord
      BY <3>1, RecordFacts DEF JobRecord
    <3>3. /\ Goes(j, q) /\ q.failed < EmbedTries /\ q.at = "embed"
          /\ q.asked = job[j].asked /\ q.todo = job[j].todo /\ q.text = job[j].text
          /\ q.chunks = job[j].chunks /\ q.locked = job[j].locked
      BY <2>2, RecordFacts DEF EmbedAgain, JobRecord, In
    <3> HIDE DEF q
    <3> QED
      BY <3>2, <3>3
  <2> QED
    BY <2>1, <2>2
<1>3. job[j].at = "embed" /\ q.locked = 0
  BY <1>2, RecordFacts DEF Embed, EmbedAgain, In, RecordOK
<1>4. RecordOK(q)
  BY <1>2, <1>3, RecordFacts DEF RecordOK
<1>5. Locks(j)' = {}
  BY <1>2, <1>3, <1>4, OthersKeep DEF Embed, EmbedAgain
<1>6. j \in alone => Repairs(q)
  <2> SUFFICES ASSUME j \in alone PROVE Repairs(q)
    OBVIOUS
  <2>1. Repairs(job[j])
    BY <1>1 DEF KnowledgeInv, QuietInv
  <2> QED
    BY <2>1, <1>2, <1>3 DEF Repairs
<1> QED
  BY <1>1, <1>2, <1>4, <1>5, <1>6, GoesOn DEF Embed, EmbedAgain

LEMMA WriteInv ==
  ASSUME KnowledgeInv, NEW j \in Jobs, Write(j)
  PROVE  KnowledgeInv'
<1> DEFINE q == [job[j] EXCEPT !.locked = @ + 1]
<1>1. /\ job[j].at = "write" /\ job[j].locked < Len(job[j].chunks) /\ Goes(j, q)
      /\ UNCHANGED <<current, active, row, alone, deleting>>
      /\ \A k \in Jobs : ~WaitsFor(j, k)
  BY DEF Write, Wants, In
<1>2. Busy(j)
  BY <1>1 DEF Busy, In
<1>3. /\ job[j].locked \in Nat /\ job[j].chunks \in Seq(ChunkSet)
      /\ job[j].locked + 1 \in 1..Len(job[j].chunks)
  BY <1>1, RecordFacts DEF JobRecord
<1>4. /\ q \in JobRecord /\ q.at = "write" /\ q.asked = job[j].asked /\ q.todo = job[j].todo
      /\ q.chunks = job[j].chunks /\ q.locked = job[j].locked + 1 /\ q.failed = job[j].failed
  BY <1>1, <1>3, RecordFacts DEF JobRecord
<1> HIDE DEF q
<1>5. RecordOK(q)
  BY <1>1, <1>3, <1>4, RecordFacts DEF RecordOK
<1>6. ASSUME NEW k \in Jobs \ {j} PROVE Locks(j)' \cap Locks(k) = {}
  <2> SUFFICES ASSUME NEW s \in Locks(j)' PROVE s \notin Locks(k)
    OBVIOUS
  <2>1. PICK i \in 1..job'[j].locked : s = job'[j].chunks[i].source /\ Takes(job[j].chunks[i])'
    BY DEF Locks
  <2>2. job'[j] = q
    BY <1>1, <1>5, OthersKeep
  <2>3. /\ i \in 1..(job[j].locked + 1) /\ s = job[j].chunks[i].source
        /\ Takes(job[j].chunks[i])
    BY <2>1, <2>2, <1>1, <1>4 DEF Takes
  <2>4. CASE i = job[j].locked + 1
    <3>1. ~WaitsFor(j, k) /\ Wants(j)
      BY <1>1 DEF Wants, In
    <3> QED
      BY <3>1, <2>3, <2>4 DEF WaitsFor
  <2>5. CASE i # job[j].locked + 1
    <3>1. i \in 1..job[j].locked
      BY <2>3, <2>5, <1>3
    <3>2. s \in Locks(j)
      BY <3>1, <2>3 DEF Locks
    <3> QED
      BY <3>2 DEF KnowledgeInv, LockInv
  <2> QED
    BY <2>4, <2>5
<1>7. j \in alone => Repairs(q)
  <2> SUFFICES ASSUME j \in alone PROVE Repairs(q)
    OBVIOUS
  <2>1. Repairs(job[j])
    BY <1>2 DEF KnowledgeInv, QuietInv
  <2> QED
    BY <2>1, <1>1, <1>4 DEF Repairs
<1> QED
  BY <1>1, <1>2, <1>5, <1>6, <1>7, GoesOn

LEMMA FilterInv ==
  ASSUME KnowledgeInv, NEW j \in Jobs, Filter(j)
  PROVE  KnowledgeInv'
<1> DEFINE chunks == job[j].chunks
           kept   == {i \in DOMAIN chunks : Pending(chunks[i])}
<1>1. Busy(j) /\ job[j].at = "filter" /\ UNCHANGED <<current, active, row, alone, deleting>>
  BY DEF Filter, Busy, In
<1>2. CASE Ends(j, "ok")
  BY <1>1, <1>2, EndsWell
<1>3. ASSUME NEW order \in SetToSeqs(kept), kept # {},
             \A m, n \in DOMAIN order : m < n => order[m] < order[n],
             Goes(j, [job[j] EXCEPT !.at = "embed",
                                    !.chunks = [i \in DOMAIN order |-> chunks[order[i]]]])
      PROVE  KnowledgeInv'
  <2> DEFINE some == [i \in DOMAIN order |-> chunks[order[i]]]
             q == [job[j] EXCEPT !.at = "embed", !.chunks = some]
  <2>1. chunks \in Seq(ChunkSet) /\ IsFiniteSet(kept)
    <3>1. chunks \in Seq(ChunkSet)
      BY RecordFacts DEF JobRecord
    <3>2. IsFiniteSet(DOMAIN chunks)
      BY <3>1, FS_Interval
    <3> QED
      BY <3>1, <3>2, FS_Subset
  <2>2. /\ order \in Seq(kept) /\ \A i, k \in DOMAIN order : order[i] = order[k] => i = k
        /\ \A n \in kept : \E i \in DOMAIN order : order[i] = n
    BY <2>1, OrderFacts
  <2> HIDE DEF kept
  <2>3. /\ some \in Seq(ChunkSet) /\ DOMAIN some = DOMAIN order
        /\ \A i \in DOMAIN some : order[i] \in DOMAIN chunks /\ some[i] = chunks[order[i]]
    BY <2>1, <2>2 DEF kept
  <2>4. /\ q \in JobRecord /\ q.at = "embed" /\ q.asked = job[j].asked
        /\ q.todo = job[j].todo /\ q.chunks = some /\ q.locked = job[j].locked
        /\ q.failed = job[j].failed
    <3> HIDE DEF some
    <3> QED
      BY <2>3, RecordFacts DEF JobRecord, Places
  <2> HIDE DEF q
  <2>5. q.locked = 0 /\ q.todo = <<>>
    BY <2>4, <1>1, RecordFacts DEF RecordOK
  <2>6. RecordOK(q)
    <3> HIDE DEF some
    <3>1. Len(some) \in Nat
      BY <2>3
    <3>2. \A i \in DOMAIN some : ChunkOK(some[i])
      BY <2>3, RecordFacts DEF RecordOK
    <3>3. \A i, k \in DOMAIN some : some[i].source = some[k].source => i = k
      BY <2>2, <2>3, RecordFacts DEF RecordOK
    <3> QED
      BY <2>4, <2>5, <3>1, <3>2, <3>3, RecordFacts DEF RecordOK
  <2>7. Goes(j, q)
    BY <1>3 DEF q
  <2>8. Locks(j)' = {}
    BY <1>1, <2>5, <2>6, <2>7, OthersKeep
  <2>9. ASSUME j \in alone PROVE Repairs(q)
    <3>1. Repairs(job[j])
      BY <1>1, <2>9 DEF KnowledgeInv, QuietInv
    <3>2. \A i \in DOMAIN some :
            /\ some[i].version # 0 => some[i].version = current[some[i].source]
            /\ some[i].source \in Rules => some[i].source \in active
      BY <2>3, <3>1 DEF Repairs
    <3>3. ASSUME NEW s \in job[j].asked
          PROVE  \/ \E i \in DOMAIN some : some[i].source = s /\ some[i].version = current[s]
                 \/ Stored(s)
      <4>1. PICK n \in DOMAIN chunks : chunks[n].source = s /\ chunks[n].version = current[s]
        BY <3>1, <1>1, <2>4, <2>5 DEF Repairs
      <4>2. CASE n \in kept
        BY <4>1, <4>2, <2>2, <2>3
      <4>3. CASE n \notin kept
        BY <4>1, <4>3 DEF kept, Pending, Stored
      <4> QED
        BY <4>2, <4>3
    <3> QED
      BY <3>2, <3>3, <2>4 DEF Repairs
  <2> QED
    BY <1>1, <2>6, <2>7, <2>8, <2>9, GoesOn
<1> QED
  BY <1>2, <1>3 DEF Filter

LEMMA BumpFailInv ==
  ASSUME KnowledgeInv, NEW j \in Jobs, Bump(j) \/ Fail(j) \/ Abort(j)
  PROVE  KnowledgeInv'
<1>1. Busy(j)
  <2>1. Bump(j) => Busy(j)
    BY DEF Bump, Busy, In
  <2>2. Abort(j) => Busy(j)
    BY DEF Abort, WaitsFor, Wants, Busy, In
  <2> QED
    BY <2>1, <2>2 DEF Fail
<1> QED
  BY <1>1, EndsWell DEF Bump, Fail, Abort

----------------------------------------------------------------------------
(* A request starts, and reads the groups one after the other.               *)
LEMMA StartsInv ==
  ASSUME KnowledgeInv, NEW j \in Jobs, NEW q, RecordOK(q), q.locked = 0, Repairs(q), Starts(j, q)
  PROVE  KnowledgeInv'
<1>1. Goes(j, q) /\ UNCHANGED <<current, active, row, deleting>>
  BY DEF Starts
<1>2. SourceInv'
  BY <1>1 DEF KnowledgeInv, SourceInv, Starts
<1>3. RowInv'
  BY <1>1 DEF KnowledgeInv, RowInv, RowOK
<1>4. JobInv'
  BY <1>1, OthersKeep
<1>5. LockInv'
  BY <1>1, OthersKeep DEF KnowledgeInv, LockInv
<1>6. QuietInv'
  <2> SUFFICES ASSUME NEW k \in alone'
               PROVE  /\ \A l \in Jobs \ {k} : ~Busy(l)'
                      /\ Busy(k)' => Repairs(job[k])'
    BY DEF QuietInv
  <2>1. k = j /\ \A l \in Jobs : ~Busy(l)
    BY DEF Starts
  <2>2. Repairs(job'[k])
    BY <2>1, <1>1, OthersKeep
  <2>3. Repairs(job[k])'
    BY <2>2, <1>1 DEF Repairs, Stored
  <2> QED
    BY <2>1, <2>3, <1>1, OthersKeep
<1> QED
  BY <1>2, <1>3, <1>4, <1>5, <1>6 DEF KnowledgeInv

LEMMA CurrentFacts ==
  ASSUME KnowledgeInv, NEW s \in Sources
  PROVE  /\ current[s] \in Nat /\ current[s] # 0
         /\ \A text \in Nat : Chunk(s, text) \in ChunkSet
BY KnowledgeAssumption DEF KnowledgeInv, SourceInv, Chunk, ChunkSet

LEMMA AskGroupsInv ==
  ASSUME KnowledgeInv, NEW j \in Jobs, AskGroups(j)
  PROVE  KnowledgeInv'
<1>1. PICK S \in (SUBSET Groups) \ {{}} : \E order \in SetToSeqs(S) :
        Starts(j, [NoJob EXCEPT !.at = "columns", !.asked = S, !.todo = order,
                                !.text = current[Head(order)]])
  BY DEF AskGroups
<1>2. IsFiniteSet(S) /\ S \subseteq Groups /\ S # {}
  BY Finite
<1>3. PICK order \in SetToSeqs(S) :
        Starts(j, [NoJob EXCEPT !.at = "columns", !.asked = S, !.todo = order,
                                !.text = current[Head(order)]])
  BY <1>1
<1>4. /\ order \in Seq(S) /\ order \in Seq(Groups)
      /\ \A i, k \in DOMAIN order : order[i] = order[k] => i = k
      /\ \A g \in S : \E i \in DOMAIN order : order[i] = g
  BY <1>2, OrderFacts
<1>5. order # <<>> /\ Head(order) \in Groups
  BY <1>2, <1>4
<1>6. current[Head(order)] \in Nat
  BY <1>5, CurrentFacts DEF Sources
<1> DEFINE q == [NoJob EXCEPT !.at = "columns", !.asked = S, !.todo = order,
                              !.text = current[Head(order)]]
<1>7. /\ q.at = "columns" /\ q.asked = S /\ q.todo = order /\ q.text = current[Head(order)]
      /\ q.chunks = <<>> /\ q.locked = 0 /\ q.failed = 0
  BY DEF NoJob
<1>8. q \in JobRecord
  <2>1. S \in SUBSET Sources /\ "columns" \in Places /\ <<>> \in Seq(ChunkSet)
    BY <1>2 DEF Sources, Places
  <2> QED
    BY <2>1, <1>4, <1>6 DEF JobRecord, NoJob
<1> HIDE DEF q
<1>9. RecordOK(q)
  <2>1. 0 < EmbedTries /\ q.text <= current[Head(q.todo)]
    BY <1>6, <1>7, KnowledgeAssumption
  <2> QED
    BY <1>4, <1>5, <1>7, <1>8, <2>1 DEF RecordOK
<1>10. Repairs(q)
  BY <1>4, <1>7 DEF Repairs
<1> QED
  BY <1>3, <1>7, <1>9, <1>10, StartsInv DEF q

LEMMA AskRecordsInv ==
  ASSUME KnowledgeInv, NEW j \in Jobs, NEW kind \in {Rules, Patterns}, AskRecords(j, kind)
  PROVE  KnowledgeInv'
<1> DEFINE S == active \cap kind
<1>1. IsFiniteSet(S) /\ S \subseteq Records /\ S \subseteq active
  BY Finite DEF Records
<1>2. PICK order \in SetToSeqs(S) :
        Starts(j, [NoJob EXCEPT !.at = "filter", !.asked = S,
            !.chunks = [i \in DOMAIN order |-> Chunk(order[i], current[order[i]])]])
  BY DEF AskRecords
<1> HIDE DEF S
<1>3. /\ order \in Seq(S)
      /\ \A i, k \in DOMAIN order : order[i] = order[k] => i = k
      /\ \A s \in S : \E i \in DOMAIN order : order[i] = s
  BY <1>1, OrderFacts
<1> DEFINE chunks == [i \in DOMAIN order |-> Chunk(order[i], current[order[i]])]
           q == [NoJob EXCEPT !.at = "filter", !.asked = S, !.chunks = chunks]
<1>4. ASSUME NEW i \in DOMAIN order
      PROVE  /\ order[i] \in S /\ order[i] \in Sources /\ chunks[i] \in ChunkSet
             /\ chunks[i].source = order[i] /\ chunks[i].version = current[order[i]]
             /\ chunks[i].text = current[order[i]]
  <2>1. order[i] \in S /\ order[i] \in Sources
    BY <1>1, <1>3 DEF Sources
  <2> QED
    BY <2>1, CurrentFacts DEF Chunk
<1>5. chunks \in Seq(ChunkSet) /\ DOMAIN chunks = DOMAIN order
  BY <1>3, <1>4
<1> HIDE DEF chunks
<1>6. /\ q.at = "filter" /\ q.asked = S /\ q.todo = <<>> /\ q.text = 0
      /\ q.chunks = chunks /\ q.locked = 0 /\ q.failed = 0
  BY DEF NoJob
<1>7. q \in JobRecord
  <2>1. S \in SUBSET Sources /\ "filter" \in Places /\ <<>> \in Seq(Groups)
    BY <1>1 DEF Sources, Places
  <2> QED
    BY <2>1, <1>5 DEF JobRecord, NoJob
<1> HIDE DEF q
<1>8. RecordOK(q)
  <2>1. 0 < EmbedTries /\ Len(chunks) \in Nat
    BY <1>5, KnowledgeAssumption
  <2>2. \A i \in DOMAIN chunks : ChunkOK(chunks[i])
    BY <1>4, <1>5, CurrentFacts DEF ChunkOK
  <2>3. \A i, k \in DOMAIN chunks : chunks[i].source = chunks[k].source => i = k
    BY <1>3, <1>4, <1>5
  <2> QED
    BY <1>6, <1>7, <2>1, <2>2, <2>3 DEF RecordOK
<1>9. Repairs(q)
  BY <1>1, <1>3, <1>4, <1>5, <1>6 DEF Repairs
<1> QED
  BY <1>2, <1>6, <1>8, <1>9, StartsInv DEF q, chunks

LEMMA AskTextInv ==
  ASSUME KnowledgeInv, NEW j \in Jobs, AskText(j)
  PROVE  KnowledgeInv'
<1>1. PICK s \in Texts :
        Starts(j, [NoJob EXCEPT !.at = "embed",
                                !.chunks = <<[source |-> s, text |-> 0, version |-> 0]>>])
  BY DEF AskText
<1> DEFINE c == [source |-> s, text |-> 0, version |-> 0]
           q == [NoJob EXCEPT !.at = "embed", !.chunks = <<c>>]
<1>2. c \in ChunkSet /\ s \in Sources /\ c.source = s /\ c.text = 0 /\ c.version = 0
  BY DEF ChunkSet, Sources
<1>3. s \notin Rules
  BY KnowledgeAssumption DEF Records
<1> HIDE DEF c
<1>4. /\ q.at = "embed" /\ q.asked = {} /\ q.todo = <<>> /\ q.text = 0
      /\ q.chunks = <<c>> /\ q.locked = 0 /\ q.failed = 0
  BY DEF NoJob
<1>5. q \in JobRecord
  <2>1. "embed" \in Places /\ <<>> \in Seq(Groups) /\ <<c>> \in Seq(ChunkSet)
    BY <1>2 DEF Places
  <2> QED
    BY <2>1 DEF JobRecord, NoJob
<1> HIDE DEF q
<1>6. DOMAIN q.chunks = {1} /\ q.chunks[1] = c /\ Len(q.chunks) = 1
  BY <1>4
<1>7. RecordOK(q)
  <2>1. 0 < EmbedTries /\ ChunkOK(c)
    BY <1>2, KnowledgeAssumption, CurrentFacts DEF ChunkOK
  <2> QED
    BY <1>4, <1>5, <1>6, <2>1 DEF RecordOK
<1>8. Repairs(q)
  BY <1>2, <1>3, <1>4, <1>6 DEF Repairs
<1> QED
  BY <1>1, <1>4, <1>7, <1>8, StartsInv DEF q, c

LEMMA ReadVersionInv ==
  ASSUME KnowledgeInv, NEW j \in Jobs, ReadVersion(j)
  PROVE  KnowledgeInv'
<1> DEFINE old == job[j]
           g == Head(old.todo)
           rest == Tail(old.todo)
<1>1. PICK chunks \in {old.chunks, Append(old.chunks, Chunk(g, old.text))} :
        Goes(j, [old EXCEPT !.at = IF rest = <<>> THEN "filter" ELSE "columns",
                            !.todo = rest, !.chunks = chunks,
                            !.text = IF rest = <<>> THEN 0 ELSE current[Head(rest)],
                            !.asked = IF chunks = old.chunks THEN @ \ {g} ELSE @])
  BY DEF ReadVersion
<1>2. /\ old.at = "columns" /\ Busy(j)
      /\ UNCHANGED <<current, active, row, alone, deleting>>
  BY DEF ReadVersion, In, Busy
<1>3. /\ old \in JobRecord /\ old.todo \in Seq(Groups) /\ old.todo # <<>>
      /\ old.chunks \in Seq(ChunkSet) /\ old.text \in Nat /\ old.locked = 0
      /\ old.asked \in SUBSET Sources /\ old.failed \in Nat
      /\ old.text <= current[g] /\ RecordOK(old)
  BY <1>2, RecordFacts DEF RecordOK, JobRecord
<1>4. /\ g = old.todo[1] /\ 1 \in DOMAIN old.todo /\ g \in Groups /\ rest \in Seq(Groups)
      /\ \A k \in DOMAIN rest : k + 1 \in DOMAIN old.todo /\ rest[k] = old.todo[k + 1]
      /\ \A k \in DOMAIN old.todo : k # 1 => k - 1 \in DOMAIN rest /\ rest[k - 1] = old.todo[k]
  BY <1>3, TailFacts
<1> DEFINE text == IF rest = <<>> THEN 0 ELSE current[Head(rest)]
           at == IF rest = <<>> THEN "filter" ELSE "columns"
           asked == IF chunks = old.chunks THEN old.asked \ {g} ELSE old.asked
           q == [old EXCEPT !.at = at, !.todo = rest, !.chunks = chunks, !.text = text,
                            !.asked = asked]
<1>5. Goes(j, q)
  BY <1>1
<1> HIDE DEF rest, g, old
<1>6. text \in Nat /\ (at = "columns" => rest # <<>> /\ text <= current[Head(rest)])
      /\ (at # "columns" => rest = <<>> /\ at = "filter") /\ at \in Places
  <2>1. CASE rest = <<>>
    BY <2>1 DEF Places
  <2>2. CASE rest # <<>>
    <3>1. Head(rest) \in Sources
      BY <1>4, <2>2 DEF Sources
    <3>2. current[Head(rest)] \in Nat
      BY <3>1, CurrentFacts
    <3> QED
      BY <2>2, <3>2 DEF Places
  <2> QED
    BY <2>1, <2>2
<1> DEFINE c == Chunk(g, old.text)
<1>7. /\ c \in ChunkSet /\ c.source = g /\ c.version = current[g] /\ c.text = old.text
      /\ ChunkOK(c) /\ c.version # 0
  <2>1. g \in Sources
    BY <1>4 DEF Sources
  <2> QED
    BY <2>1, <1>3, CurrentFacts DEF Chunk, ChunkOK
<1> HIDE DEF c
<1>8. /\ chunks \in Seq(ChunkSet)
      /\ \A i \in DOMAIN old.chunks : i \in DOMAIN chunks /\ chunks[i] = old.chunks[i]
      /\ \A i \in DOMAIN chunks :
           \/ i \in DOMAIN old.chunks
           \/ i = Len(old.chunks) + 1 /\ chunks[i] = c
      /\ chunks # old.chunks => Len(old.chunks) + 1 \in DOMAIN chunks
      /\ Len(chunks) \in Nat
  <2>1. CASE chunks = old.chunks
    BY <2>1, <1>3
  <2>2. CASE chunks = Append(old.chunks, c)
    BY <2>2, <1>3, <1>7
  <2> QED
    BY <2>1, <2>2, <1>1 DEF c
<1>9. /\ q \in JobRecord /\ q.at = at /\ q.todo = rest /\ q.chunks = chunks /\ q.text = text
      /\ q.asked = asked /\ q.locked = 0 /\ q.failed = old.failed
  <2>1. asked \in SUBSET Sources
    BY <1>3
  <2> HIDE DEF asked, text, at
  <2> QED
    BY <1>3, <1>4, <1>6, <1>8, <2>1 DEF JobRecord
<1> HIDE DEF q, text, at
<1>10. RecordOK(q)
  <2>1. \A i \in DOMAIN chunks : ChunkOK(chunks[i])
    BY <1>3, <1>7, <1>8 DEF RecordOK
  <2>2. ASSUME NEW i \in DOMAIN chunks, NEW k \in DOMAIN chunks,
               chunks[i].source = chunks[k].source
        PROVE  i = k
    <3>1. \A m \in DOMAIN old.chunks : old.chunks[m].source # g
      BY <1>3, <1>4 DEF RecordOK
    <3> QED
      BY <2>2, <3>1, <1>3, <1>7, <1>8 DEF RecordOK
  <2>3. ASSUME NEW i \in DOMAIN rest, NEW k \in DOMAIN rest, rest[i] = rest[k]
        PROVE  i = k
    <3>1. i + 1 = k + 1
      BY <2>3, <1>3, <1>4 DEF RecordOK
    <3> QED
      BY <3>1, <1>4
  <2>4. ASSUME NEW i \in DOMAIN chunks, NEW k \in DOMAIN rest
        PROVE  chunks[i].source # rest[k]
    <3>1. CASE i \in DOMAIN old.chunks
      BY <3>1, <1>3, <1>4, <1>8 DEF RecordOK
    <3>2. CASE i \notin DOMAIN old.chunks
      <4>1. chunks[i].source = old.todo[1]
        BY <3>2, <1>4, <1>7, <1>8
      <4>2. k + 1 \in DOMAIN old.todo /\ k + 1 # 1 /\ rest[k] = old.todo[k + 1]
        BY <1>4
      <4> QED
        BY <4>1, <4>2, <1>3, <1>4 DEF RecordOK
    <3> QED
      BY <3>1, <3>2
  <2> QED
    BY <1>3, <1>6, <1>8, <1>9, <2>1, <2>2, <2>3, <2>4 DEF RecordOK
<1>11. Locks(j)' = {}
  BY <1>2, <1>5, <1>9, <1>10, OthersKeep
<1>12. ASSUME j \in alone PROVE Repairs(q)
  <2>1. Repairs(old)
    BY <1>2, <1>12 DEF KnowledgeInv, QuietInv, old
  <2>2. g \notin Rules
    BY <1>4, KnowledgeAssumption DEF Records
  <2>3. \A i \in DOMAIN chunks :
          /\ chunks[i].version # 0 => chunks[i].version = current[chunks[i].source]
          /\ chunks[i].source \in Rules => chunks[i].source \in active
    BY <2>1, <2>2, <1>7, <1>8 DEF Repairs
  <2>4. ASSUME NEW s \in asked
        PROVE  \/ \E k \in DOMAIN rest : rest[k] = s
               \/ \E i \in DOMAIN chunks : chunks[i].source = s /\ chunks[i].version = current[s]
    <3>1. CASE \E i \in DOMAIN old.chunks :
                 old.chunks[i].source = s /\ old.chunks[i].version = current[s]
      BY <3>1, <1>8
    <3>2. CASE s = g
      <4>1. chunks # old.chunks
        BY <3>2
      <4> QED
        BY <3>2, <4>1, <1>7, <1>8
    <3>3. ASSUME s # g, NEW k \in DOMAIN old.todo, old.todo[k] = s
          PROVE  \E n \in DOMAIN rest : rest[n] = s
      BY <3>3, <1>4
    <3> QED
      BY <2>1, <3>1, <3>2, <3>3, <1>2 DEF Repairs
  <2> HIDE DEF asked
  <2> QED
    BY <2>3, <2>4, <1>9 DEF Repairs
<1> QED
  BY <1>2, <1>5, <1>10, <1>11, <1>12, GoesOn

----------------------------------------------------------------------------
(* The transaction commits.                                                  *)
LEMMA CommitFacts ==
  ASSUME KnowledgeInv, NEW j \in Jobs, Commit(j)
  PROVE  /\ Busy(j) /\ job[j].at = "write" /\ UNCHANGED <<current, active, alone, deleting>>
         /\ row' \in [Sources -> RowRecord]
         /\ \A s \in Sources :
              \/ /\ row'[s] = row[s]
                 /\ \A i \in DOMAIN job[j].chunks : job[j].chunks[i].source = s => ~Changes(job[j].chunks[i])
              \/ \E i \in DOMAIN job[j].chunks :
                   /\ job[j].chunks[i].source = s /\ Changes(job[j].chunks[i])
                   /\ row'[s] = [text |-> job[j].chunks[i].text,
                                 version |-> job[j].chunks[i].version, live |-> TRUE]
<1> DEFINE chunks == job[j].chunks
           changed == {c \in ToSet(chunks) : Changes(c)}
           new(c) == [text |-> c.text, version |-> c.version, live |-> TRUE]
<1>1. row' = [s \in Sources |->
                IF \E c \in changed : c.source = s
                THEN LET c == CHOOSE c \in changed : c.source = s
                     IN [text |-> c.text, version |-> c.version, live |-> TRUE]
                ELSE row[s]]
  BY DEF Commit
<1>2. chunks \in Seq(ChunkSet) /\ row \in [Sources -> RowRecord]
  BY RecordFacts DEF JobRecord, KnowledgeInv, RowInv
<1>3. ASSUME NEW s \in Sources
      PROVE  /\ row'[s] \in RowRecord
             /\ \/ /\ row'[s] = row[s]
                   /\ \A i \in DOMAIN chunks : chunks[i].source = s => ~Changes(chunks[i])
                \/ \E i \in DOMAIN chunks :
                     /\ chunks[i].source = s /\ Changes(chunks[i])
                     /\ row'[s] = new(chunks[i])
  <2>1. CASE \E c \in changed : c.source = s
    <3>1. PICK c \in changed : c.source = s /\ row'[s] = new(c)
      BY <2>1, <1>1
    <3>2. PICK i \in DOMAIN chunks : chunks[i] = c /\ Changes(c)
      BY DEF ToSet
    <3>3. c \in ChunkSet
      BY <3>2, <1>2
    <3>4. new(c) \in RowRecord
      BY <3>3 DEF RowRecord, ChunkSet
    <3> HIDE DEF new
    <3> QED
      BY <3>1, <3>2, <3>4
  <2>2. CASE ~\E c \in changed : c.source = s
    BY <2>2, <1>1, <1>2 DEF ToSet
  <2> QED
    BY <2>1, <2>2
<1>4. Busy(j) /\ job[j].at = "write" /\ UNCHANGED <<current, active, alone, deleting>>
  BY DEF Commit, Busy, In
<1>5. row' \in [Sources -> RowRecord]
  BY <1>1, <1>3
<1> QED
  BY <1>3, <1>4, <1>5

LEMMA ChangesFacts ==
  ASSUME KnowledgeInv, NEW j \in Jobs, NEW i \in DOMAIN job[j].chunks
  PROVE  /\ job[j].chunks[i] \in ChunkSet /\ ChunkOK(job[j].chunks[i])
         /\ job[j].chunks[i].source \in Sources
<1>1. job[j].chunks \in Seq(ChunkSet)
  BY RecordFacts DEF JobRecord
<1>2. job[j].chunks[i] \in ChunkSet
  BY <1>1
<1> QED
  BY <1>2, RecordFacts DEF RecordOK, ChunkSet

\* Rows that are there stay: a commit gives nobody a new lock.
LEMMA CommitLocks ==
  ASSUME KnowledgeInv, NEW j \in Jobs, Commit(j), NEW k \in Jobs, job'[k] = job[k]
  PROVE  Locks(k)' \subseteq Locks(k)
<1> SUFFICES ASSUME NEW s \in Locks(k)' PROVE s \in Locks(k)
  OBVIOUS
<1>1. PICK i \in 1..job[k].locked : s = job[k].chunks[i].source /\ Takes(job[k].chunks[i])'
  BY DEF Locks
<1>2. i \in DOMAIN job[k].chunks
  BY RecordFacts DEF RecordOK, JobRecord
<1>3. s \in Sources
  BY <1>1, <1>2, ChangesFacts
<1>4. row'[s] = Absent => row[s] = Absent
  <2>1. ASSUME NEW n \in DOMAIN job[j].chunks,
               row'[s] = [text |-> job[j].chunks[n].text,
                          version |-> job[j].chunks[n].version, live |-> TRUE]
        PROVE  row'[s] # Absent
    BY <2>1 DEF Absent
  <2>2. row'[s] = row[s] \/ row'[s] # Absent
    BY <1>3, <2>1, CommitFacts
  <2> QED
    BY <2>2
<1>5. Takes(job[k].chunks[i])
  BY <1>1, <1>4 DEF Takes
<1> QED
  BY <1>1, <1>5 DEF Locks

\* Whatever a request still holds is stored when it commits.
LEMMA CommitStores ==
  ASSUME KnowledgeInv, NEW j \in Jobs, Commit(j), j \in alone, NEW s \in job[j].asked
  PROVE  row'[s] = Plain \/ row'[s].version = current[s]
<1>1. Repairs(job[j]) /\ job[j].at = "write" /\ job[j].todo = <<>> /\ s \in Sources
  BY CommitFacts, RecordFacts DEF KnowledgeInv, QuietInv, RecordOK, JobRecord
<1>2. \/ \E i \in DOMAIN job[j].chunks :
            job[j].chunks[i].source = s /\ job[j].chunks[i].version = current[s]
      \/ Stored(s)
  BY <1>1 DEF Repairs
<1>3. CASE row'[s] = row[s] /\ \A i \in DOMAIN job[j].chunks :
              job[j].chunks[i].source = s => ~Changes(job[j].chunks[i])
  <2>1. CASE Stored(s)
    BY <1>3, <2>1 DEF Stored
  <2>2. ASSUME NEW i \in DOMAIN job[j].chunks, job[j].chunks[i].source = s,
               job[j].chunks[i].version = current[s]
        PROVE  row[s] = Plain \/ row[s].version = current[s]
    <3>1. ~Changes(job[j].chunks[i]) /\ current[s] # 0
      BY <1>1, <1>3, <2>2, CurrentFacts
    <3>2. row[s] # Absent /\ (row[s].version # 0 => row[s].version = current[s])
      BY <2>2, <3>1 DEF Changes
    <3> QED
      BY <1>1, <3>2 DEF KnowledgeInv, RowInv, RowOK
  <2> QED
    BY <1>2, <1>3, <2>1, <2>2
<1>4. ASSUME NEW i \in DOMAIN job[j].chunks, job[j].chunks[i].source = s,
             row'[s] = [text |-> job[j].chunks[i].text,
                        version |-> job[j].chunks[i].version, live |-> TRUE]
      PROVE  row'[s] = Plain \/ row'[s].version = current[s]
  <2>1. CASE job[j].chunks[i].version = 0
    BY <1>4, <2>1, ChangesFacts DEF ChunkOK, Plain
  <2>2. CASE job[j].chunks[i].version # 0
    BY <1>1, <1>4, <2>2 DEF Repairs
  <2> QED
    BY <2>1, <2>2
<1> QED
  BY <1>1, <1>3, <1>4, CommitFacts

LEMMA CommitInv ==
  ASSUME KnowledgeInv, NEW j \in Jobs, Commit(j)
  PROVE  KnowledgeInv'
<1>1. /\ Busy(j) /\ job[j].at = "write" /\ UNCHANGED <<current, active, alone, deleting>>
      /\ row' \in [Sources -> RowRecord]
  BY CommitFacts
<1>2. PICK q : /\ Goes(j, q) /\ RecordOK(q) /\ q.locked = 0 /\ q.at \in {"ok", "bump"}
               /\ q.chunks = <<>> /\ q.todo = <<>>
               /\ q.at = "bump" => q.asked = job[j].asked
  <2>1. CASE Ends(j, "ok")
    BY <2>1, NoJobFacts DEF Ends, NoJob
  <2>2. CASE Goes(j, [NoJob EXCEPT !.at = "bump", !.asked = job[j].asked])
    <3> DEFINE q == [NoJob EXCEPT !.at = "bump", !.asked = job[j].asked]
    <3>1. /\ q.at = "bump" /\ q.asked = job[j].asked /\ q.todo = <<>> /\ q.text = 0
          /\ q.chunks = <<>> /\ q.locked = 0 /\ q.failed = 0
      BY DEF NoJob
    <3>2. q \in JobRecord
      <4>1. /\ job[j].asked \in SUBSET Sources /\ "bump" \in Places
            /\ <<>> \in Seq(Groups) /\ <<>> \in Seq(ChunkSet)
        BY RecordFacts DEF JobRecord, Places
      <4> QED
        BY <4>1 DEF JobRecord, NoJob
    <3> HIDE DEF q
    <3>3. RecordOK(q)
      BY <3>1, <3>2, KnowledgeAssumption DEF RecordOK
    <3> QED
      BY <2>2, <3>1, <3>3 DEF q
  <2> QED
    BY <2>1, <2>2 DEF Commit
<1>3. SourceInv'
  BY <1>1 DEF KnowledgeInv, SourceInv
<1>4. RowInv'
  <2> SUFFICES ASSUME NEW s \in Sources PROVE RowOK(s)'
    BY <1>1 DEF RowInv
  <2>1. CASE row'[s] = row[s]
    BY <1>1, <2>1 DEF KnowledgeInv, RowInv, RowOK
  <2>2. ASSUME NEW i \in DOMAIN job[j].chunks, job[j].chunks[i].source = s,
               row'[s] = [text |-> job[j].chunks[i].text,
                          version |-> job[j].chunks[i].version, live |-> TRUE]
        PROVE  RowOK(s)'
    <3>1. /\ row'[s].text = job[j].chunks[i].text /\ row'[s].version = job[j].chunks[i].version
      BY <2>2
    <3>2. row'[s].version = 0 => row'[s] = Plain /\ s \in Texts
      <4>1. ChunkOK(job[j].chunks[i])
        BY ChangesFacts
      <4> QED
        BY <2>2, <3>1, <4>1 DEF ChunkOK, Plain
    <3> QED
      BY <1>1, <2>2, <3>1, <3>2, ChangesFacts DEF RowOK, ChunkOK
  <2> QED
    BY <2>1, <2>2, CommitFacts
<1>5. JobInv'
  BY <1>1, <1>2, OthersKeep
<1>6. LockInv'
  <2> SUFFICES ASSUME NEW k \in Jobs, NEW l \in Jobs \ {k}
               PROVE  Locks(k)' \cap Locks(l)' = {}
    BY DEF LockInv
  <2>1. \A m \in Jobs : Locks(m)' \subseteq Locks(m)
    BY <1>1, <1>2, OthersKeep, CommitLocks
  <2> QED
    BY <2>1 DEF KnowledgeInv, LockInv
<1>7. QuietInv'
  <2> SUFFICES ASSUME NEW k \in alone'
               PROVE  /\ \A l \in Jobs \ {k} : ~Busy(l)'
                      /\ Busy(k)' => Repairs(job[k])'
    BY DEF QuietInv
  <2>1. k \in alone /\ k = j
    BY <1>1 DEF KnowledgeInv, QuietInv, SourceInv
  <2>2. \A l \in Jobs \ {k} : ~Busy(l)'
    BY <1>1, <1>2, <2>1, OthersKeep DEF KnowledgeInv, QuietInv
  <2>3. ASSUME Busy(k)' PROVE Repairs(job[k])'
    <3>1. job'[j] = q
      BY <1>1, <1>2, OthersKeep
    <3>2. q.at = "bump"
      BY <3>1, <2>1, <2>3, <1>2 DEF Busy, In
    <3>3. \A s \in q.asked : Stored(s)'
      BY <3>2, <1>1, <1>2, <2>1, CommitStores DEF Stored
    <3> QED
      BY <3>1, <3>2, <3>3, <1>2, <2>1 DEF Repairs
  <2> QED
    BY <2>2, <2>3
<1> QED
  BY <1>3, <1>4, <1>5, <1>6, <1>7 DEF KnowledgeInv

----------------------------------------------------------------------------
(* The sources change; nobody is alone any more.                             *)
LEMMA LocksStay ==
  ASSUME UNCHANGED job, \A s \in Sources : row'[s] = Absent <=> row[s] = Absent,
         KnowledgeInv, NEW j \in Jobs
  PROVE  Locks(j)' = Locks(j)
<1>1. \A i \in 1..job[j].locked : i \in DOMAIN job[j].chunks
  BY RecordFacts DEF RecordOK, JobRecord
<1>2. \A i \in 1..job[j].locked : Takes(job[j].chunks[i])' <=> Takes(job[j].chunks[i])
  BY <1>1, ChangesFacts DEF Takes
<1> QED
  BY <1>2 DEF Locks

LEMMA EditInv ==
  ASSUME KnowledgeInv, NEW s \in Sources, Edit(s)
  PROVE  KnowledgeInv'
<1> USE KnowledgeAssumption
<1>1. /\ current[s] < MaxVersion /\ current' = [current EXCEPT ![s] = @ + 1] /\ alone' = {}
      /\ UNCHANGED <<active, row, job, deleting>>
  BY DEF Edit
<1>2. current' \in [Sources -> 1..MaxVersion] /\ \A t \in Sources : current[t] <= current'[t]
                                              /\ current[t] \in Nat /\ current'[t] \in Nat
  BY <1>1 DEF KnowledgeInv, SourceInv
<1>3. SourceInv'
  BY <1>1, <1>2 DEF KnowledgeInv, SourceInv
<1>4. RowInv'
  BY <1>1, <1>2 DEF KnowledgeInv, RowInv, RowOK, RowRecord
<1>5. ASSUME NEW j \in Jobs PROVE RecordOK(job[j])'
  <2>1. \A i \in DOMAIN job[j].chunks : ChunkOK(job[j].chunks[i])'
    <3> SUFFICES ASSUME NEW i \in DOMAIN job[j].chunks PROVE ChunkOK(job[j].chunks[i])'
      BY <1>1
    <3>1. PICK c \in ChunkSet : c = job[j].chunks[i] /\ ChunkOK(c) /\ c.source \in Sources
      BY ChangesFacts
    <3>2. c.text \in Nat /\ c.version \in Nat
      BY <3>1 DEF ChunkSet
    <3>3. ChunkOK(c)'
      BY <1>2, <3>1, <3>2 DEF ChunkOK
    <3> QED
      BY <1>1, <3>1, <3>3
  <2>2. job[j].at = "columns" => job[j].text <= current'[Head(job[j].todo)]
    <3> SUFFICES ASSUME job[j].at = "columns" PROVE job[j].text <= current'[Head(job[j].todo)]
      OBVIOUS
    <3>1. /\ job[j].text \in Nat /\ Head(job[j].todo) \in Sources
          /\ job[j].text <= current[Head(job[j].todo)]
      BY RecordFacts DEF RecordOK, JobRecord, Sources
    <3> QED
      BY <3>1, <1>2
  <2> QED
    BY <1>1, <2>1, <2>2, RecordFacts DEF RecordOK
<1>6. JobInv'
  BY <1>1, <1>5 DEF KnowledgeInv, JobInv
<1>7. LockInv'
  BY <1>1, LocksStay DEF KnowledgeInv, LockInv
<1> QED
  BY <1>1, <1>3, <1>4, <1>6, <1>7 DEF KnowledgeInv, QuietInv

\* The records and rules change, and rows at most in `live`.
LEMMA RuleInv ==
  ASSUME KnowledgeInv, UNCHANGED <<current, job>>, alone' = {}, SourceInv', RowInv',
         \A s \in Sources : row'[s] = Absent <=> row[s] = Absent
  PROVE  KnowledgeInv'
<1>1. JobInv'
  BY DEF KnowledgeInv, JobInv, RecordOK, ChunkOK
<1>2. LockInv'
  BY LocksStay DEF KnowledgeInv, LockInv
<1> QED
  BY <1>1, <1>2 DEF KnowledgeInv, QuietInv

LEMMA ListInv ==
  ASSUME KnowledgeInv, NEW r,
         \/ r \in Patterns /\ Feedback(r)
         \/ r \in Rules /\ (Delete(r) \/ Forget(r))
  PROVE  KnowledgeInv'
<1>1. UNCHANGED <<current, job, row>> /\ alone' = {}
  BY DEF Feedback, Delete, Forget
<1>2. SourceInv'
  BY DEF KnowledgeInv, SourceInv, Feedback, Delete, Forget
<1>3. RowInv'
  BY <1>1 DEF KnowledgeInv, RowInv, RowOK
<1> QED
  BY <1>1, <1>2, <1>3, RuleInv

LEMMA UnlistInv ==
  ASSUME KnowledgeInv, NEW r \in Rules, Unlist(r)
  PROVE  KnowledgeInv'
<1>1. UNCHANGED <<current, active, job>> /\ alone' = {} /\ deleting' = deleting \ {r}
  BY DEF Unlist
<1>2. SourceInv'
  BY <1>1 DEF KnowledgeInv, SourceInv
<1>3. CASE row' = row
  <2>1. RowInv'
    BY <1>1, <1>3 DEF KnowledgeInv, RowInv, RowOK
  <2> QED
    BY <1>1, <1>2, <1>3, <2>1, RuleInv
<1>4. CASE row[r] # Absent /\ row' = [row EXCEPT ![r].live = FALSE]
  <2>1. r \in Sources /\ r \notin Texts /\ row[r] \in RowRecord /\ row[r].version # 0
    BY <1>4, KnowledgeAssumption DEF Sources, Records, KnowledgeInv, RowInv, RowOK
  <2>2. /\ \A s \in Sources \ {r} : row'[s] = row[s]
        /\ row' \in [Sources -> RowRecord]
        /\ row'[r].text = row[r].text /\ row'[r].version = row[r].version
    BY <1>4, <2>1 DEF KnowledgeInv, RowInv, RowRecord
  <2>3. RowInv'
    BY <1>1, <2>1, <2>2 DEF KnowledgeInv, RowInv, RowOK
  <2>4. row'[r] # Absent
    BY <2>1, <2>2 DEF Absent
  <2> QED
    BY <1>1, <1>2, <1>4, <2>2, <2>3, <2>4, RuleInv
<1> QED
  BY <1>3, <1>4 DEF Unlist

----------------------------------------------------------------------------
LEMMA AsksInv ==
  ASSUME KnowledgeInv, NEW j \in Jobs, Asks(j)
  PROVE  KnowledgeInv'
BY AskGroupsInv, AskRecordsInv, AskTextInv DEF Asks

LEMMA WorksInv ==
  ASSUME KnowledgeInv, NEW j \in Jobs, Works(j) \/ Fail(j)
  PROVE  KnowledgeInv'
BY ReadVersionInv, FilterInv, EmbedInv, WriteInv, CommitInv, BumpFailInv DEF Works

LEMMA StepInv == KnowledgeInv /\ [KnowledgeNext]_knowledgeVars => KnowledgeInv'
<1> SUFFICES ASSUME KnowledgeInv, [KnowledgeNext]_knowledgeVars PROVE KnowledgeInv'
  OBVIOUS
<1>1. ASSUME NEW j \in Jobs, Asks(j) \/ Works(j) \/ Fail(j) PROVE KnowledgeInv'
  BY <1>1, AsksInv, WorksInv
<1>2. ASSUME NEW s \in Sources, Edit(s) PROVE KnowledgeInv'
  BY <1>2, EditInv
<1>3. ASSUME NEW p \in Patterns, Feedback(p) PROVE KnowledgeInv'
  BY <1>3, ListInv
<1>4. ASSUME NEW r \in Rules, Delete(r) \/ Unlist(r) \/ Forget(r) PROVE KnowledgeInv'
  BY <1>4, ListInv, UnlistInv
<1>5. CASE UNCHANGED knowledgeVars
  <2>1. UNCHANGED <<current, active, row, job, alone, deleting>>
    BY <1>5 DEF knowledgeVars
  <2>2. SourceInv'
    BY <2>1 DEF KnowledgeInv, SourceInv
  <2>3. RowInv'
    BY <2>1 DEF KnowledgeInv, RowInv, RowOK
  <2>4. JobInv'
    BY <2>1 DEF KnowledgeInv, JobInv, RecordOK, ChunkOK
  <2>5. LockInv'
    BY <2>1, LocksStay DEF KnowledgeInv, LockInv
  <2>6. QuietInv'
    BY <2>1 DEF KnowledgeInv, QuietInv, Busy, In, Repairs, Stored
  <2> QED
    BY <2>2, <2>3, <2>4, <2>5, <2>6 DEF KnowledgeInv
<1> QED
  BY <1>1, <1>2, <1>3, <1>4, <1>5 DEF KnowledgeNext

LEMMA InvHolds == KnowledgeSpec => []KnowledgeInv
BY InitInv, StepInv, PTL DEF KnowledgeSpec

\* Rows and chunks are never newer than their sources, embeddings are tried no
\* more often than allowed, and no two ingests hold the lock of the same row.
THEOREM KnowledgeTypeCorrect == KnowledgeSpec => []KnowledgeTypeOK
<1>1. KnowledgeInv => KnowledgeTypeOK
  <2> SUFFICES ASSUME KnowledgeInv PROVE KnowledgeTypeOK
    OBVIOUS
  <2>1. ASSUME NEW s \in Sources
        PROVE  /\ row[s].text \in 0..current[s] /\ row[s].version \in 0..current[s]
               /\ row[s].live \in BOOLEAN
    BY CurrentFacts DEF KnowledgeInv, RowInv, RowOK, RowRecord
  <2>2. ASSUME NEW j \in Jobs
        PROVE  /\ job[j].at \in Places /\ job[j].failed < EmbedTries
               /\ \A k \in Jobs \ {j} : Locks(j) \cap Locks(k) = {}
    BY RecordFacts DEF KnowledgeInv, LockInv, RecordOK, JobRecord
  <2> QED
    BY <2>1, <2>2 DEF KnowledgeTypeOK, KnowledgeInv, SourceInv, Places
<1> QED
  BY <1>1, InvHolds, PTL

\* Which steps of a request alone end it with ok.
LEMMA OkFacts ==
  ASSUME KnowledgeInv, [KnowledgeNext]_knowledgeVars, NEW j \in alone, Busy(j),
         job'[j].at = "ok"
  PROVE  Filter(j) \/ Commit(j) \/ Bump(j)
<1>1. /\ j \in Jobs /\ job \in [Jobs -> JobRecord] /\ \A k \in Jobs \ {j} : ~Busy(k)
      /\ job[j].at \notin {"ok", "error"}
  BY DEF KnowledgeInv, SourceInv, JobInv, QuietInv, Busy, In
<1>2. job'[j] # job[j]
  BY <1>1
<1>3. UNCHANGED job => FALSE
  BY <1>2
<1>4. ASSUME NEW k \in Jobs, Asks(k) PROVE FALSE
  <2>1. k = j => ~Asks(k)
    BY <1>1, <1>4 DEF Asks, AskGroups, AskRecords, AskText, Starts
  <2>2. ASSUME NEW q, Starts(k, q), k # j PROVE FALSE
    BY <2>2, <1>1, <1>2 DEF Starts, Goes
  <2> QED
    BY <1>4, <2>1, <2>2 DEF Asks, AskGroups, AskRecords, AskText
<1>5. ASSUME NEW k \in Jobs, Works(k) \/ Fail(k)
      PROVE  k = j
  BY <1>1, <1>5 DEF Works, Fail, ReadVersion, Filter, Embed, EmbedAgain, Write, Wants, Abort,
     WaitsFor, Commit, Bump, Busy, In
<1>6. ASSUME ReadVersion(j) \/ Embed(j) \/ EmbedAgain(j) \/ Write(j) PROVE FALSE
  <2>2. ~ReadVersion(j)
    BY <1>1 DEF ReadVersion, Goes, JobRecord
  <2>3. ~Embed(j)
    BY <1>1 DEF Embed, Goes, JobRecord
  <2>4. ~EmbedAgain(j)
    BY <1>1 DEF EmbedAgain, Goes, JobRecord, In
  <2>5. ~Write(j)
    BY <1>1 DEF Write, Wants, Goes, JobRecord, In
  <2> QED
    BY <1>6, <2>2, <2>3, <2>4, <2>5
<1>7. ASSUME Fail(j) \/ Abort(j) PROVE FALSE
  <2>1. Ends(j, "error")
    BY <1>7 DEF Fail, Abort
  <2>2. job'[j].at = "error"
    BY <2>1, <1>1 DEF Ends, Goes, NoJob
  <2> QED
    BY <2>2
<1>8. ASSUME UNCHANGED job PROVE FALSE
  BY <1>3, <1>8
<1> QED
  BY <1>4, <1>5, <1>6, <1>7, <1>8
  DEF KnowledgeNext, Works, Edit, Feedback, Delete, Unlist, Forget, knowledgeVars

----------------------------------------------------------------------------
\* An ingest that returns ok, with which nothing else happened, leaves every
\* source it read stored with its present version (the filter and the upsert of
\* rag/ingest.py), for any sources, any number of requests and any past.
THEOREM QuietIngestsRepair == KnowledgeSpec => QuietIngestRepairs
<1>1. KnowledgeInv /\ [KnowledgeNext]_knowledgeVars =>
        \A j \in alone : Busy(j) /\ job'[j].at = "ok" =>
          \A s \in job[j].asked : row'[s] = Plain \/ row'[s].version = current[s]
  <2> SUFFICES ASSUME KnowledgeInv, [KnowledgeNext]_knowledgeVars, NEW j \in alone, Busy(j),
                      job'[j].at = "ok", NEW s \in job[j].asked
               PROVE  row'[s] = Plain \/ row'[s].version = current[s]
    OBVIOUS
  <2>1. j \in Jobs /\ Repairs(job[j]) /\ RecordOK(job[j])
    BY RecordFacts DEF KnowledgeInv, SourceInv, QuietInv
  <2>2. CASE Commit(j)
    BY <2>1, <2>2, CommitStores
  <2>3. CASE Bump(j)
    <3>1. job[j].at = "bump" /\ job[j].chunks = <<>> /\ job[j].todo = <<>> /\ row' = row
      BY <2>1, <2>3 DEF Bump, In, RecordOK
    <3> QED
      BY <2>1, <3>1 DEF Repairs, Stored
  <2>4. CASE Filter(j)
    <3> DEFINE chunks == job[j].chunks
               kept == {i \in DOMAIN chunks : Pending(chunks[i])}
    <3>1. job[j].at = "filter" /\ job[j].todo = <<>> /\ row' = row
      BY <2>1, <2>4 DEF Filter, In, RecordOK
    <3>2. kept = {}
      <4>1. job \in [Jobs -> JobRecord]
        BY DEF KnowledgeInv, JobInv
      <4>2. \A c : Goes(j, [job[j] EXCEPT !.at = "embed", !.chunks = c]) => job'[j].at = "embed"
        BY <2>1, <4>1 DEF Goes, JobRecord
      <4> QED
        BY <2>4, <4>2 DEF Filter
    <3>3. PICK i \in DOMAIN chunks : chunks[i].source = s /\ chunks[i].version = current[s]
      BY <2>1, <3>1 DEF Repairs
    <3> QED
      BY <3>1, <3>2, <3>3 DEF Pending
  <2> QED
    BY <2>2, <2>3, <2>4, OkFacts
<1> QED
  BY <1>1, InvHolds, PTL DEF QuietIngestRepairs, KnowledgeSpec

\* The embedding of a deleted rule comes back to life only through an ingest that
\* overlapped the deletion (delete_instruction_endpoint against
\* ingest_instructions_endpoint).
THEOREM RevivalNeedsOverlap == KnowledgeSpec => RevivedByOverlap
<1>1. KnowledgeInv /\ [KnowledgeNext]_knowledgeVars =>
        \A j \in alone, r \in Rules :
          row'[r].live /\ ~row[r].live /\ job'[j] # job[j] => r \in active
  <2> SUFFICES ASSUME KnowledgeInv, [KnowledgeNext]_knowledgeVars, NEW j \in alone,
                      NEW r \in Rules, row'[r].live, ~row[r].live, job'[j] # job[j]
               PROVE  r \in active
    OBVIOUS
  <2>1. j \in Jobs /\ r \in Sources /\ row' # row /\ job' # job
    BY DEF KnowledgeInv, SourceInv, Sources, Records
  <2>2. PICK k \in Jobs : Commit(k)
    BY <2>1 DEF KnowledgeNext, knowledgeVars, Asks, Works, AskGroups, AskRecords, AskText, Starts,
       ReadVersion, Filter, Embed, EmbedAgain, Write, Abort, Bump, Fail, Edit, Feedback, Delete,
       Unlist, Forget
  <2>3. k = j
    <3>1. Busy(k)
      BY <2>2, CommitFacts
    <3> QED
      BY <2>1, <3>1 DEF KnowledgeInv, QuietInv
  <2>4. PICK i \in DOMAIN job[j].chunks : job[j].chunks[i].source = r
    BY <2>1, <2>2, <2>3, CommitFacts
  <2>5. Repairs(job[j])
    BY <2>2, <2>3, CommitFacts DEF KnowledgeInv, QuietInv
  <2> QED
    BY <2>4, <2>5 DEF Repairs
<1> QED
  BY <1>1, InvHolds, PTL DEF RevivedByOverlap, KnowledgeSpec
=============================================================================
