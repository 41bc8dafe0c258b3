-------------------------- MODULE QueryCacheProofs --------------------------
(***************************************************************************)
(* Proofs about QueryCache: the types, EpochRowsFresh, QuietTeachIsRead    *)
(* and OkReplyMovedEpoch hold for every set of keys, requests and          *)
(* mutators, every choice of events, and whether or not the two defects    *)
(* the violation runs show (JsonbDecodes, EmbedImports) are repaired.      *)
(***************************************************************************)
EXTENDS QueryCache, TLAPS

\* Steps at which a handler has computed or fetched nothing yet, and steps at
\* which it holds a result.
Before  == {"memExact", "retrieve", "obvious", "embed", "memSemantic", "epoch",
            "dbExact", "dbSemantic", "plan", "react"}
Holding == {"warmSemantic", "reacting", "memStore", "semStore", "lateEpoch",
            "dbStore", "execute", "reembed", "finish"}

\* Steps only generate_sql takes.
GenOnly == {"retrieve", "obvious", "warmSemantic", "plan", "react", "reacting",
            "semStore"}

\* The shape of a handler's locals at each step.
ShapeInv(q) ==
    /\ q \in ReqRecord
    /\ q.lay = "ask" => q.kind = "ask"
    /\ q.pc \in GenOnly => q.lay = "generate-sql"
    /\ q.pc \in Before => q.ver = -1 /\ q.own = FALSE
    /\ q.pc \in Before /\ q.lay = "ask" => q.ret = -1
    /\ q.pc \in Holding => q.ver # -1
    /\ q.pc = "obvious" => q.ret # -1
    /\ q.pc \in {"dbExact", "dbSemantic", "dbStore"} => q.ep[q.lay] # 0
    /\ q.pc # "done" => q.out = "none"
    /\ \A l \in Endpoints : q.ep[l] <= epoch /\ (q.pin[l] => q.ep[l] # 0)

\* A result is as fresh as the epoch that was read before it was computed.
FreshInv(q) ==
    /\ q.own /\ q.ver # -1 /\ q.path = "react" /\ q.pin["generate-sql"]
          => q.ver >= floor[q.ep["generate-sql"]]
    /\ q.kind = "ask" /\ q.own /\ q.ver # -1 /\ q.pin["ask"]
          => q.ver >= floor[q.ep["ask"]]
    /\ q.kind = "ask" /\ q.ret # -1 /\ q.pin["ask"]
          => q.ret >= floor[q.ep["ask"]]

\* No handler in flight holds anything older than the last undisturbed
\* mutation, nor an epoch older than the one that mutation opened.
SettledInv(q) ==
    /\ q.pc \notin {"idle", "done"} =>
          /\ q.must = settled
          /\ q.ver # -1 => q.ver >= settled
          /\ q.ret # -1 => q.ret >= settled
          /\ \A l \in Endpoints : q.ep[l] # 0 => q.ep[l] >= settledEp
    /\ q.out = "ok" => q.ver >= q.must

ReqInv(q) == ShapeInv(q) /\ FreshInv(q) /\ SettledInv(q)

RowInv(x) ==
    /\ x \in Row
    /\ x.epoch \in 1..epoch
    /\ x.pinned /\ x.own /\ (x.end = "ask" \/ x.path = "react")
          => x.ver >= floor[x.epoch]
    /\ x.epoch >= settledEp => x.ver >= settled

EntryInv(e) == e \in MemEntry /\ e.ver >= settled

\* While a mutation is undisturbed no handler runs, so what it cleared stays
\* empty.
MutInv(m) ==
    /\ mut[m].ver <= kv
    /\ mut[m].quiet /\ mut[m].pc # "idle" => \A r \in Requests : ~InFlight(r)
    /\ mut[m].quiet /\ mut[m].pc = "cleared" => mem = {}
    /\ mut[m].reply = "ok" /\ mut[m].kind # "plain" => floor[epoch] >= mut[m].ver
    /\ mut[m].pc = "cleared" => mut[m].kind # "plain"

ClockInv ==
    /\ kv \in Nat
    /\ epoch \in Nat \ {0}
    /\ floor \in [1..epoch -> Nat]
    /\ settled \in Nat /\ settled <= kv
    /\ settledEp \in Nat /\ settledEp <= epoch
    /\ \A e \in 1..epoch : floor[e] <= kv
    /\ ops \in {"idle", "memory_cleared"}

IInv ==
    /\ ClockInv
    /\ req \in [Requests -> ReqRecord]
    /\ mut \in [Mutators -> MutRecord]
    /\ \A r \in Requests : ReqInv(req[r])
    /\ \A x \in rows : RowInv(x)
    /\ \A e \in mem : EntryInv(e)
    /\ \A m \in Mutators : MutInv(m)

-----------------------------------------------------------------------------
(* Building blocks.                                                        *)

\* A blank record is typed and holds nothing.
LEMMA BlankShape ==
  ASSUME NEW kind \in Endpoints, NEW key \in Keys, NEW pc \in Steps, NEW must \in Nat
  PROVE  /\ Blank(kind, key, pc, must) \in ReqRecord
         /\ Blank(kind, key, pc, must).kind = kind
         /\ Blank(kind, key, pc, must).lay = kind
         /\ Blank(kind, key, pc, must).pc = pc
         /\ Blank(kind, key, pc, must).must = must
         /\ Blank(kind, key, pc, must).ver = -1
         /\ Blank(kind, key, pc, must).ret = -1
         /\ Blank(kind, key, pc, must).own = FALSE
         /\ Blank(kind, key, pc, must).out = "none"
         /\ \A l \in Endpoints : /\ Blank(kind, key, pc, must).ep[l] = 0
                                 /\ Blank(kind, key, pc, must).pin[l] = FALSE
BY DEF Blank, ReqRecord, Endpoints, Steps, Paths, Sources, Outs

\* There is a question to ask.
LEMMA SomeKey == (CHOOSE k \in Keys : TRUE) \in Keys
BY KeysAssumption

\* A reply is a record with no step left to take; an ok reply is as fresh as
\* the request may demand.
LEMMA ReplyInv ==
  ASSUME ClockInv, NEW q, ReqInv(q), q.pc \notin {"idle", "done"},
         NEW out \in Outs, NEW src \in Sources, NEW ver \in Nat \cup {-1},
         out = "ok" => ver >= settled
  PROVE  ReqInv(Reply(q, out, src, ver))
<1> DEFINE k == CHOOSE k \in Keys : TRUE
           b == Blank("ask", k, "done", q.must)
<1>1. q.must = settled /\ q.must \in Nat
  BY DEF ReqInv, SettledInv, ClockInv
<1>2. /\ b \in ReqRecord /\ b.lay = "ask" /\ b.kind = "ask" /\ b.pc = "done"
      /\ b.must = q.must /\ b.ret = -1 /\ b.own = FALSE
      /\ \A l \in Endpoints : b.ep[l] = 0 /\ b.pin[l] = FALSE
  <2>1. k \in Keys /\ "ask" \in Endpoints /\ "done" \in Steps
    BY SomeKey DEF Endpoints, Steps
  <2>. HIDE DEF k
  <2>. QED  BY <1>1, <2>1 DEF Blank, ReqRecord, Endpoints, Steps, Paths, Sources, Outs
<1>3. Reply(q, out, src, ver) = [b EXCEPT !.out = out, !.src = src, !.ver = ver]
  BY DEF Reply
<1> HIDE DEF b
<1>4. Reply(q, out, src, ver) \in ReqRecord
  BY <1>2, <1>3 DEF ReqRecord
<1> DEFINE p == Reply(q, out, src, ver)
<1>5. /\ p \in ReqRecord /\ p.lay = "ask" /\ p.kind = "ask" /\ p.pc = "done"
      /\ p.must = settled /\ p.ret = -1 /\ p.own = FALSE /\ p.out = out /\ p.ver = ver
      /\ \A l \in Endpoints : p.ep[l] = 0 /\ p.pin[l] = FALSE
  BY <1>1, <1>2, <1>3, <1>4 DEF ReqRecord
<1> HIDE DEF p
<1>6. ShapeInv(p)
  BY <1>5 DEF ShapeInv, ClockInv, Before, Holding, GenOnly
<1>7. FreshInv(p)
  BY <1>5 DEF FreshInv, Endpoints
<1>8. SettledInv(p)
  BY <1>5 DEF SettledInv
<1>. QED  BY <1>6, <1>7, <1>8 DEF ReqInv, p

\* A step of one handler in flight that leaves the clocks alone keeps the
\* invariant as soon as its new locals, the memory and the table do.
LEMMA HandlerStep ==
  ASSUME IInv, NEW r \in Requests, NEW q, InFlight(r), Set(r, q), ReqInv(q),
         UNCHANGED <<kv, epoch, mut, ops, floor, settled, settledEp>>,
         \A e \in mem' : EntryInv(e), \A x \in rows' : RowInv(x)
  PROVE  IInv'
<1>1. ClockInv'
  BY DEF IInv, ClockInv
<1>2. q \in ReqRecord
  BY DEF ReqInv, ShapeInv
<1>3. req' \in [Requests -> ReqRecord] /\ mut' \in [Mutators -> MutRecord]
  BY <1>2 DEF IInv, Set
<1>4. ASSUME NEW s \in Requests PROVE ReqInv(req[s])'
  <2>1. ReqInv(req'[s])
    BY DEF IInv, Set
  <2>. QED  BY <2>1 DEF ReqInv, ShapeInv, FreshInv, SettledInv
<1>5. \A x \in rows' : RowInv(x)'
  BY DEF RowInv
<1>6. \A e \in mem' : EntryInv(e)'
  BY DEF EntryInv
<1>7. ASSUME NEW m \in Mutators PROVE MutInv(m)'
  <2>1. ~(mut[m].quiet /\ mut[m].pc # "idle")
    BY DEF IInv, MutInv
  <2>2. MutInv(m)
    BY DEF IInv
  <2>. QED  BY <2>1, <2>2 DEF MutInv, IInv, MutRecord
<1>. QED  BY <1>1, <1>3, <1>4, <1>5, <1>6, <1>7 DEF IInv

-----------------------------------------------------------------------------
(* The moves shared by several steps.                                      *)

\* Moving to another step with the same locals.
LEMMA GotoInv ==
  ASSUME ClockInv, NEW q, ReqInv(q), q.pc \notin {"idle", "done"},
         NEW pc \in Steps \ {"idle", "done"},
         pc \in Before => q.ver = -1 /\ q.own = FALSE /\ (q.lay = "ask" => q.ret = -1),
         pc \in Holding => q.ver # -1,
         pc = "obvious" => q.ret # -1,
         pc \in GenOnly => q.lay = "generate-sql",
         pc \in {"dbExact", "dbSemantic", "dbStore"} => q.ep[q.lay] # 0
  PROVE  ReqInv(Goto(q, pc))
<1> DEFINE p == Goto(q, pc)
<1>1. q \in ReqRecord /\ q.out = "none"
  BY DEF ReqInv, ShapeInv
<1>2. /\ p \in ReqRecord /\ p.pc = pc /\ p.kind = q.kind /\ p.lay = q.lay
      /\ p.ep = q.ep /\ p.pin = q.pin /\ p.ret = q.ret /\ p.ver = q.ver
      /\ p.path = q.path /\ p.own = q.own /\ p.out = "none" /\ p.must = q.must
  BY <1>1 DEF Goto, ReqRecord
<1> HIDE DEF p
<1>3. ShapeInv(p)
  BY <1>2 DEF ReqInv, ShapeInv
<1>4. FreshInv(p)
  BY <1>2 DEF ReqInv, FreshInv
<1>5. SettledInv(p)
  BY <1>2 DEF ReqInv, SettledInv
<1>. QED  BY <1>3, <1>4, <1>5 DEF ReqInv, p

\* Falling through the caches.
LEMMA MissInv ==
  ASSUME ClockInv, NEW q, ReqInv(q), q.pc \in Before
  PROVE  ReqInv(Miss(q))
<1>1. /\ q \in ReqRecord /\ q.out = "none" /\ q.ver = -1 /\ q.own = FALSE /\ q.pc \notin {"idle", "done"}
      /\ q.lay \in Endpoints
  BY DEF ReqInv, ShapeInv, Before, ReqRecord
<1>2. CASE q.lay = "ask"
  <2> DEFINE p == [q EXCEPT !.lay = "generate-sql", !.pc = "memExact"]
  <2>1. /\ p \in ReqRecord /\ p.pc = "memExact" /\ p.kind = q.kind /\ p.lay = "generate-sql"
        /\ p.ep = q.ep /\ p.pin = q.pin /\ p.ret = q.ret /\ p.ver = q.ver
        /\ p.path = q.path /\ p.own = q.own /\ p.out = "none" /\ p.must = q.must
    BY <1>1 DEF ReqRecord, Endpoints, Steps
  <2>2. Miss(q) = p
    BY <1>2 DEF Miss
  <2> HIDE DEF p
  <2>3. ShapeInv(p)
    BY <1>1, <2>1 DEF ReqInv, ShapeInv, Holding, GenOnly
  <2>4. FreshInv(p)
    BY <2>1 DEF ReqInv, FreshInv
  <2>5. SettledInv(p)
    BY <1>1, <2>1 DEF ReqInv, SettledInv
  <2>. QED  BY <2>2, <2>3, <2>4, <2>5 DEF ReqInv
<1>3. CASE q.lay # "ask"
  <2>1. ReqInv(Goto(q, "plan"))
    BY <1>1, <1>3, GotoInv DEF Steps, Before, Holding, GenOnly, Endpoints
  <2>. QED  BY <1>3, <2>1 DEF Miss
<1>. QED  BY <1>2, <1>3

\* generate_sql returns to its caller: the result is cached (not own) or was
\* just stored.
LEMMA ReturnInv ==
  ASSUME ClockInv, NEW q, ReqInv(q), q.pc \notin {"idle", "done"},
         NEW ver \in Nat, NEW path \in Paths, NEW own \in BOOLEAN,
         NEW src \in Sources, ver >= settled,
         own => own = q.own /\ ver = q.ver /\ path = q.path
  PROVE  ReqInv(Return(q, ver, path, own, src))
<1>1. q \in ReqRecord /\ q.out = "none" /\ ver # -1
  BY DEF ReqInv, ShapeInv
<1>2. CASE q.kind = "ask"
  <2> DEFINE p == [q EXCEPT !.lay = "ask", !.pc = "execute",
                            !.ver = ver, !.path = path, !.own = own]
  <2>1. /\ p \in ReqRecord /\ p.pc = "execute" /\ p.kind = q.kind /\ p.lay = "ask"
        /\ p.ep = q.ep /\ p.pin = q.pin /\ p.ret = q.ret /\ p.ver = ver
        /\ p.path = path /\ p.own = own /\ p.out = "none" /\ p.must = q.must
    BY <1>1 DEF ReqRecord, Endpoints, Steps
  <2>2. Return(q, ver, path, own, src) = p
    BY <1>2 DEF Return
  <2> HIDE DEF p
  <2>3. ShapeInv(p)
    BY <1>1, <1>2, <2>1 DEF ReqInv, ShapeInv, Before, GenOnly
  <2>4. FreshInv(p)
    BY <2>1 DEF ReqInv, FreshInv
  <2>5. SettledInv(p)
    BY <2>1 DEF ReqInv, SettledInv
  <2>. QED  BY <2>2, <2>3, <2>4, <2>5 DEF ReqInv
<1>3. CASE q.kind # "ask"
  <2>1. ReqInv(Reply(q, "ok", src, ver))
    BY ReplyInv DEF Outs
  <2>. QED  BY <1>3, <2>1 DEF Return
<1>. QED  BY <1>2, <1>3

\* A hit in memory or in the table.
LEMMA HitInv ==
  ASSUME ClockInv, NEW q, ReqInv(q), q.pc \notin {"idle", "done"}, NEW e,
         e.ver \in Nat, e.path \in Paths, e.ver >= settled, NEW src \in Sources
  PROVE  ReqInv(Hit(q, e, src))
<1>1. CASE q.lay = "ask"
  <2>1. ReqInv(Reply(q, "ok", src, e.ver))
    BY ReplyInv DEF Outs
  <2>. QED  BY <1>1, <2>1 DEF Hit
<1>2. CASE q.lay # "ask"
  <2>1. ReqInv(Return(q, e.ver, e.path, FALSE, src))
    BY ReturnInv
  <2>. QED  BY <1>2, <2>1 DEF Hit
<1>. QED  BY <1>1, <1>2

\* Storing keeps the memory sound when what is stored is.
LEMMA PutInv ==
  ASSUME ClockInv, NEW S, \A e \in S : EntryInv(e),
         NEW store \in Stores, NEW key \in Keys, NEW ver \in Nat, ver >= settled,
         NEW path \in Paths, NEW emb \in BOOLEAN
  PROVE  \A e \in Put(S, store, key, ver, path, emb) : EntryInv(e)
BY DEF Put, EntryInv, MemEntry

\* Under the invariant a handler that moves is in flight and its locals are
\* sound.
LEMMA Moving ==
  ASSUME IInv, NEW r \in Requests, req[r].pc \notin {"idle", "done"}
  PROVE  ClockInv /\ ReqInv(req[r]) /\ InFlight(r) /\ req[r] \in ReqRecord
BY DEF IInv, InFlight, ReqInv, ShapeInv

-----------------------------------------------------------------------------
(* One lemma per handler step.                                             *)

\* The exact lookup in memory.
LEMMA MemExactStep ==
  ASSUME IInv, NEW r \in Requests, MemExact(r) PROVE IInv'
<1> DEFINE q == req[r]
<1>1. ClockInv /\ ReqInv(q) /\ InFlight(r) /\ q \in ReqRecord
      /\ q.pc = "memExact" /\ q.ver = -1 /\ q.pc \notin {"idle", "done"}
  BY Moving DEF MemExact, ReqInv, ShapeInv, Before
<1>2. (\A e \in mem' : EntryInv(e)) /\ (\A x \in rows' : RowInv(x))
  BY DEF MemExact, IInv
<1>3. CASE Set(r, Reply(q, "turned_away", "none", -1))
  <2>1. ReqInv(Reply(q, "turned_away", "none", -1))
    BY <1>1, ReplyInv DEF Outs, Sources
  <2>. QED  BY <1>1, <1>2, <1>3, <2>1, HandlerStep DEF MemExact
<1>4. ASSUME NEW e \in At(ExactStore(q.lay), q.key), Set(r, Hit(q, e, "memory_exact"))
      PROVE  IInv'
  <2>1. EntryInv(e)
    BY DEF At, IInv
  <2>2. ReqInv(Hit(q, e, "memory_exact"))
    BY <1>1, <2>1, HitInv DEF EntryInv, MemEntry, Sources
  <2>. QED  BY <1>1, <1>2, <1>4, <2>2, HandlerStep DEF MemExact
<1>5. CASE Set(r, Goto(q, IF q.lay = "ask" THEN "embed" ELSE "retrieve"))
  <2>1. CASE q.lay = "ask"
    <3>1. ReqInv(Goto(q, "embed"))
      BY <1>1, <2>1, GotoInv DEF Steps, Before, Holding, GenOnly, ReqInv, ShapeInv, ReqRecord, Endpoints
    <3>. QED  BY <1>1, <1>2, <1>5, <2>1, <3>1, HandlerStep DEF MemExact
  <2>2. CASE q.lay # "ask"
    <3>1. ReqInv(Goto(q, "retrieve"))
      BY <1>1, <2>2, GotoInv DEF Steps, Before, Holding, GenOnly, ReqInv, ShapeInv, ReqRecord, Endpoints
    <3>. QED  BY <1>1, <1>2, <1>5, <2>2, <3>1, HandlerStep DEF MemExact
  <2>. QED  BY <2>1, <2>2
<1>. QED  BY <1>3, <1>4, <1>5 DEF MemExact

\* The retrieval pins the knowledge the obvious rule works from.
LEMMA RetrieveStep ==
  ASSUME IInv, NEW r \in Requests, Retrieve(r) PROVE IInv'
<1> DEFINE q == req[r]
           p == [q EXCEPT !.pc = "obvious", !.ret = kv]
<1>1. ClockInv /\ ReqInv(q) /\ InFlight(r) /\ q \in ReqRecord
      /\ q.pc = "retrieve" /\ q.ver = -1 /\ q.pc \notin {"idle", "done"}
  BY Moving DEF Retrieve, ReqInv, ShapeInv, Before
<1>2. (\A e \in mem' : EntryInv(e)) /\ (\A x \in rows' : RowInv(x))
  BY DEF Retrieve, IInv
<1>3. CASE Set(r, p)
  <2>1. /\ p \in ReqRecord /\ p.pc = "obvious" /\ p.kind = q.kind /\ p.lay = q.lay
        /\ p.ep = q.ep /\ p.pin = q.pin /\ p.ret = kv /\ p.ver = -1
        /\ p.path = q.path /\ p.own = q.own /\ p.out = q.out /\ p.must = q.must
    BY <1>1 DEF ReqRecord, Steps, ClockInv
  <2> HIDE DEF p
  <2>2. ShapeInv(p)
    BY <1>1, <2>1 DEF ReqInv, ShapeInv, Before, Holding, GenOnly, ClockInv
  <2>3. FreshInv(p)
    BY <1>1, <2>1 DEF ReqInv, ShapeInv, FreshInv, ClockInv, ReqRecord, Endpoints
  <2>4. SettledInv(p)
    BY <1>1, <2>1 DEF ReqInv, ShapeInv, SettledInv, ClockInv
  <2>. QED  BY <1>1, <1>2, <1>3, <2>2, <2>3, <2>4, HandlerStep DEF Retrieve, ReqInv
<1>4. CASE Set(r, Goto(q, "embed"))
  <2>1. ReqInv(Goto(q, "embed"))
    BY <1>1, GotoInv DEF Steps, Before, Holding, GenOnly, ReqInv, ShapeInv, ReqRecord, Endpoints
  <2>. QED  BY <1>1, <1>2, <1>4, <2>1, HandlerStep DEF Retrieve
<1>. QED  BY <1>3, <1>4 DEF Retrieve

\* The obvious rule answers from its retrieval.
LEMMA ObviousStep ==
  ASSUME IInv, NEW r \in Requests, Obvious(r) PROVE IInv'
<1> DEFINE q == req[r]
           p == [q EXCEPT !.pc = "memStore", !.ver = q.ret, !.path = "obvious", !.own = TRUE]
<1>1. /\ ClockInv /\ ReqInv(q) /\ InFlight(r) /\ q \in ReqRecord
      /\ q.pc = "obvious" /\ q.pc \notin {"idle", "done"}
      /\ q.ver = -1 /\ q.ret \in Nat /\ q.lay = "generate-sql"
  BY Moving DEF Obvious, ReqInv, ShapeInv, Before, Holding, GenOnly, ReqRecord
<1>2. (\A e \in mem' : EntryInv(e)) /\ (\A x \in rows' : RowInv(x))
  BY DEF Obvious, IInv
<1>3. CASE Set(r, p)
  <2>1. /\ p \in ReqRecord /\ p.pc = "memStore" /\ p.kind = q.kind /\ p.lay = q.lay
        /\ p.ep = q.ep /\ p.pin = q.pin /\ p.ret = q.ret /\ p.ver = q.ret
        /\ p.path = "obvious" /\ p.own = TRUE /\ p.out = q.out /\ p.must = q.must
    BY <1>1 DEF ReqRecord, Steps, ClockInv, Endpoints, Paths, ReqInv, ShapeInv
  <2> HIDE DEF p
  <2>2. ShapeInv(p)
    BY <1>1, <2>1 DEF ReqInv, ShapeInv, Before, Holding, GenOnly, ClockInv, ReqRecord, Endpoints
  <2>3. FreshInv(p)
    BY <1>1, <2>1 DEF ReqInv, ShapeInv, FreshInv, ClockInv, ReqRecord, Endpoints, GenOnly, Before
  <2>4. SettledInv(p)
    BY <1>1, <2>1 DEF ReqInv, ShapeInv, SettledInv, ClockInv, ReqRecord, Endpoints
  <2>. QED  BY <1>1, <1>2, <1>3, <2>2, <2>3, <2>4, HandlerStep DEF Obvious, ReqInv
<1>4. CASE Set(r, Goto(q, "embed"))
  <2>1. ReqInv(Goto(q, "embed"))
    BY <1>1, GotoInv DEF Steps, Before, Holding, GenOnly, ReqInv, ShapeInv, ReqRecord, Endpoints
  <2>. QED  BY <1>1, <1>2, <1>4, <2>1, HandlerStep DEF Obvious
<1>. QED  BY <1>3, <1>4 DEF Obvious

\* The embedding, with a repeated retrieval.
LEMMA EmbedStep ==
  ASSUME IInv, NEW r \in Requests, Embed(r) PROVE IInv'
<1> DEFINE q == req[r]
<1>1. /\ ClockInv /\ ReqInv(q) /\ InFlight(r) /\ q \in ReqRecord
      /\ q.pc = "embed" /\ q.pc \notin {"idle", "done"} /\ q.ver = -1
  BY Moving DEF Embed, ReqInv, ShapeInv, Before, Holding, GenOnly
<1>2. (\A e \in mem' : EntryInv(e)) /\ (\A x \in rows' : RowInv(x))
  BY DEF Embed, IInv
<1>3. ASSUME NEW ret \in {q.ret, kv, -1}, ret = q.ret \/ q.lay = "generate-sql",
             Set(r, [q EXCEPT !.pc = "memSemantic", !.emb[q.lay] = TRUE, !.ret = ret])
      PROVE  IInv'
  <2> DEFINE p == [q EXCEPT !.pc = "memSemantic", !.emb[q.lay] = TRUE, !.ret = ret]
  <2>1. /\ p \in ReqRecord /\ p.pc = "memSemantic" /\ p.kind = q.kind /\ p.lay = q.lay
        /\ p.ep = q.ep /\ p.pin = q.pin /\ p.ret = ret /\ p.ver = -1
        /\ p.path = q.path /\ p.own = q.own /\ p.out = q.out /\ p.must = q.must
    BY <1>1 DEF ReqRecord, Steps, ClockInv, Endpoints
  <2>2. Set(r, p)
    BY <1>3
  <2> HIDE DEF p
  <2>3. ShapeInv(p)
    BY <1>1, <1>3, <2>1 DEF ReqInv, ShapeInv, Before, Holding, GenOnly, ClockInv, ReqRecord, Endpoints
  <2>4. FreshInv(p)
    BY <1>1, <1>3, <2>1 DEF ReqInv, ShapeInv, FreshInv, ClockInv, ReqRecord, Endpoints
  <2>5. SettledInv(p)
    BY <1>1, <1>3, <2>1 DEF ReqInv, ShapeInv, SettledInv, ClockInv, ReqRecord, Endpoints
  <2>. QED  BY <1>1, <1>2, <2>2, <2>3, <2>4, <2>5, HandlerStep DEF Embed, ReqInv
<1>4. CASE Set(r, Goto(q, "memSemantic"))
  <2>1. ReqInv(Goto(q, "memSemantic"))
    BY <1>1, GotoInv DEF Steps, Before, Holding, GenOnly, ReqInv, ShapeInv, ReqRecord, Endpoints
  <2>. QED  BY <1>1, <1>2, <1>4, <2>1, HandlerStep DEF Embed
<1>5. CASE Set(r, Reply(q, "error", "none", -1))
  <2>1. ReqInv(Reply(q, "error", "none", -1))
    BY <1>1, ReplyInv DEF Outs, Sources
  <2>. QED  BY <1>1, <1>2, <1>5, <2>1, HandlerStep DEF Embed
<1>. QED  BY <1>3, <1>4, <1>5 DEF Embed

\* The semantic lookup in memory.
LEMMA MemSemanticStep ==
  ASSUME IInv, NEW r \in Requests, MemSemantic(r) PROVE IInv'
<1> DEFINE q == req[r]
<1>1. /\ ClockInv /\ ReqInv(q) /\ InFlight(r) /\ q \in ReqRecord
      /\ q.pc = "memSemantic" /\ q.pc \notin {"idle", "done"} /\ q.ver = -1
  BY Moving DEF MemSemantic, ReqInv, ShapeInv, Before, Holding, GenOnly
<1>2. (\A e \in mem' : EntryInv(e)) /\ (\A x \in rows' : RowInv(x))
  BY DEF MemSemantic, IInv
<1>3. ASSUME NEW e \in mem, Set(r, Hit(q, e, "memory_semantic")) PROVE IInv'
  <2>1. EntryInv(e)
    BY DEF IInv
  <2>2. ReqInv(Hit(q, e, "memory_semantic"))
    BY <1>1, <2>1, HitInv DEF EntryInv, MemEntry, Sources
  <2>. QED  BY <1>1, <1>2, <1>3, <2>2, HandlerStep DEF MemSemantic
<1>4. CASE Set(r, Goto(q, "epoch"))
  <2>1. ReqInv(Goto(q, "epoch"))
    BY <1>1, GotoInv DEF Steps, Before, Holding, GenOnly, ReqInv, ShapeInv, ReqRecord, Endpoints
  <2>. QED  BY <1>1, <1>2, <1>4, <2>1, HandlerStep DEF MemSemantic
<1>. QED  BY <1>3, <1>4 DEF MemSemantic, Nearest

\* The epoch is read before anything is generated, so whatever comes later is
\* at least as fresh as its floor.
LEMMA ReadEpochStep ==
  ASSUME IInv, NEW r \in Requests, ReadEpoch(r) PROVE IInv'
<1> DEFINE q == req[r]
           p == [q EXCEPT !.pc = "dbExact", !.ep[q.lay] = epoch, !.pin[q.lay] = TRUE]
<1>1. /\ ClockInv /\ ReqInv(q) /\ InFlight(r) /\ q \in ReqRecord
      /\ q.pc = "epoch" /\ q.pc \notin {"idle", "done"} /\ q.ver = -1
      /\ q.lay \in Endpoints /\ q.pc \in Before
  BY Moving DEF ReadEpoch, ReqInv, ShapeInv, Before, Holding, GenOnly, ReqRecord
<1>2. (\A e \in mem' : EntryInv(e)) /\ (\A x \in rows' : RowInv(x))
  BY DEF ReadEpoch, IInv
<1>3. CASE Set(r, p)
  <2>1. /\ p \in ReqRecord /\ p.pc = "dbExact" /\ p.kind = q.kind /\ p.lay = q.lay
        /\ p.ep = [q.ep EXCEPT ![q.lay] = epoch] /\ p.pin = [q.pin EXCEPT ![q.lay] = TRUE] /\ p.ret = q.ret /\ p.ver = -1
        /\ p.path = q.path /\ p.own = q.own /\ p.out = q.out /\ p.must = q.must
    BY <1>1 DEF ReqRecord, Steps, ClockInv, Endpoints, Paths, ReqInv, ShapeInv
  <2> HIDE DEF p
  <2>2. ShapeInv(p)
    BY <1>1, <2>1 DEF ReqInv, ShapeInv, Before, Holding, GenOnly, ClockInv, ReqRecord, Endpoints
  <2>3. FreshInv(p)
    BY <1>1, <2>1 DEF ReqInv, ShapeInv, FreshInv, ClockInv, ReqRecord, Endpoints, GenOnly, Before
  <2>4. SettledInv(p)
    BY <1>1, <2>1 DEF ReqInv, ShapeInv, SettledInv, ClockInv, ReqRecord, Endpoints
  <2>. QED  BY <1>1, <1>2, <1>3, <2>2, <2>3, <2>4, HandlerStep DEF ReadEpoch, ReqInv
<1>4. CASE Set(r, Miss(q))
  <2>1. ReqInv(Miss(q))
    BY <1>1, MissInv
  <2>. QED  BY <1>1, <1>2, <1>4, <2>1, HandlerStep DEF ReadEpoch
<1>. QED  BY <1>3, <1>4 DEF ReadEpoch

\* The exact lookup in the table.
LEMMA DbExactStep ==
  ASSUME IInv, NEW r \in Requests, DbExact(r) PROVE IInv'
<1> DEFINE q == req[r]
<1>1. /\ ClockInv /\ ReqInv(q) /\ InFlight(r) /\ q \in ReqRecord
      /\ q.pc = "dbExact" /\ q.pc \notin {"idle", "done"} /\ q.ver = -1
      /\ q.lay \in Endpoints /\ q.key \in Keys /\ q.ep[q.lay] \in Nat
      /\ q.ep[q.lay] # 0 /\ q.pc \in Before /\ q.emb[q.lay] \in BOOLEAN
  BY Moving DEF DbExact, ReqInv, ShapeInv, Before, Holding, GenOnly, ReqRecord, Endpoints
<1>2. ASSUME UNCHANGED mem
      PROVE  (\A e \in mem' : EntryInv(e)) /\ (\A x \in rows' : RowInv(x))
  BY <1>2 DEF DbExact, IInv
<1>3. CASE Set(r, Miss(q)) /\ UNCHANGED mem
  <2>1. ReqInv(Miss(q))
    BY <1>1, MissInv
  <2>. QED  BY <1>1, <1>2, <1>3, <2>1, HandlerStep DEF DbExact
<1>4. CASE Set(r, Goto(q, "dbSemantic")) /\ UNCHANGED mem
  <2>1. ReqInv(Goto(q, "dbSemantic"))
    BY <1>1, GotoInv DEF Steps, Before, Holding, GenOnly, ReqInv, ShapeInv, ReqRecord, Endpoints
  <2>. QED  BY <1>1, <1>2, <1>4, <2>1, HandlerStep DEF DbExact
<1>5. ASSUME NEW x \in RowsAt(q.lay, q.key, q.ep[q.lay]), NEW ev \in SUBSET mem,
             mem' = Put(mem \ ev, ExactStore(q.lay), q.key, x.ver, x.path, q.emb[q.lay]),
             Set(r, IF q.lay = "generate-sql" /\ q.emb[q.lay]
                    THEN [q EXCEPT !.pc = "warmSemantic", !.ver = x.ver, !.path = x.path]
                    ELSE Hit(q, x, "db_exact"))
      PROVE  IInv'
  <2>1. x \in rows /\ RowInv(x) /\ x.epoch = q.ep[q.lay]
    BY DEF RowsAt, IInv
  <2>2. x.ver \in Nat /\ x.path \in Paths /\ x.ver >= settled
    BY <1>1, <2>1 DEF RowInv, Row, ReqInv, SettledInv
  <2>3. ExactStore(q.lay) \in Stores
    BY DEF ExactStore, Stores
  <2>4. \A e \in mem \ ev : EntryInv(e)
    BY DEF IInv
  <2>5. \A e \in mem' : EntryInv(e)
    BY <1>1, <1>5, <2>2, <2>3, <2>4, PutInv
  <2>6. \A y \in rows' : RowInv(y)
    BY DEF DbExact, IInv
  <2>7. CASE q.lay = "generate-sql" /\ q.emb[q.lay]
    <3> DEFINE p == [q EXCEPT !.pc = "warmSemantic", !.ver = x.ver, !.path = x.path]
    <3>1. /\ p \in ReqRecord /\ p.pc = "warmSemantic" /\ p.kind = q.kind /\ p.lay = q.lay
        /\ p.ep = q.ep /\ p.pin = q.pin /\ p.ret = q.ret /\ p.ver = x.ver
        /\ p.path = x.path /\ p.own = q.own /\ p.out = q.out /\ p.must = q.must
      BY <1>1, <2>2 DEF ReqRecord, Steps
    <3>2. Set(r, p)
      BY <1>5, <2>7
    <3> HIDE DEF p
    <3>3. q.own = FALSE
      BY <1>1 DEF ReqInv, ShapeInv, Before
    <3>4. ShapeInv(p)
      BY <1>1, <2>2, <2>7, <3>1 DEF ReqInv, ShapeInv, Before, Holding, GenOnly
    <3>5. FreshInv(p)
      BY <1>1, <3>1, <3>3 DEF ReqInv, FreshInv
    <3>6. SettledInv(p)
      BY <1>1, <2>2, <3>1 DEF ReqInv, ShapeInv, SettledInv
    <3>. QED  BY <1>1, <2>5, <2>6, <3>2, <3>4, <3>5, <3>6, HandlerStep DEF DbExact, ReqInv
  <2>8. CASE ~(q.lay = "generate-sql" /\ q.emb[q.lay])
    <3>1. ReqInv(Hit(q, x, "db_exact"))
      BY <1>1, <2>2, HitInv DEF Sources
    <3>. QED  BY <1>1, <1>5, <2>5, <2>6, <2>8, <3>1, HandlerStep DEF DbExact
  <2>. QED  BY <2>7, <2>8
<1>6. \A ev \in Evictions(ExactStore(q.lay)) : ev \in SUBSET mem
  BY DEF Evictions
<1>. QED  BY <1>3, <1>4, <1>5, <1>6 DEF DbExact

\* The second half of warming the memory.
LEMMA WarmSemanticStep ==
  ASSUME IInv, NEW r \in Requests, WarmSemantic(r) PROVE IInv'
<1> DEFINE q == req[r]
<1>1. /\ ClockInv /\ ReqInv(q) /\ InFlight(r) /\ q \in ReqRecord
      /\ q.pc = "warmSemantic" /\ q.pc \notin {"idle", "done"} /\ q.ver \in Nat
      /\ q.key \in Keys /\ q.path \in Paths /\ q.ver >= settled
  BY Moving DEF WarmSemantic, ReqInv, ShapeInv, Before, Holding, GenOnly, ReqRecord, SettledInv
<1>2. \A x \in rows' : RowInv(x)
  BY DEF WarmSemantic, IInv
<1>3. PICK ev \in Evictions("semantic") :
         mem' = Put(mem \ ev, "semantic", q.key, q.ver, q.path, TRUE)
  BY DEF WarmSemantic
<1>4. \A e \in mem \ ev : EntryInv(e)
  BY DEF IInv
<1>5. \A e \in mem' : EntryInv(e)
  BY <1>1, <1>3, <1>4, PutInv DEF Stores
<1>6. ReqInv(Return(q, q.ver, q.path, FALSE, "db_exact"))
  BY <1>1, ReturnInv DEF Sources
<1>. QED  BY <1>1, <1>2, <1>5, <1>6, HandlerStep DEF WarmSemantic

\* The semantic lookup in the table.
LEMMA DbSemanticStep ==
  ASSUME IInv, NEW r \in Requests, DbSemantic(r) PROVE IInv'
<1> DEFINE q == req[r]
<1>1. /\ ClockInv /\ ReqInv(q) /\ InFlight(r) /\ q \in ReqRecord
      /\ q.pc = "dbSemantic" /\ q.pc \notin {"idle", "done"} /\ q.ver = -1
      /\ q.lay \in Endpoints /\ q.key \in Keys /\ q.ep[q.lay] \in Nat
      /\ q.ep[q.lay] # 0 /\ q.pc \in Before
  BY Moving DEF DbSemantic, ReqInv, ShapeInv, Before, Holding, GenOnly, ReqRecord, Endpoints
<1>2. \A x \in rows' : RowInv(x)
  BY DEF DbSemantic, IInv
<1>3. CASE Set(r, Miss(q)) /\ UNCHANGED mem
  <2>1. ReqInv(Miss(q))
    BY <1>1, MissInv
  <2>2. \A e \in mem' : EntryInv(e)
    BY <1>3 DEF IInv
  <2>. QED  BY <1>1, <1>2, <1>3, <2>1, <2>2, HandlerStep DEF DbSemantic
<1>4. ASSUME NEW x \in RowsIn(q.lay, q.ep[q.lay]), NEW ev \in SUBSET mem,
             mem' = LET m == Put(mem \ ev, ExactStore(q.lay), q.key, x.ver, x.path, TRUE)
                    IN  IF q.lay = "ask" THEN m
                        ELSE Put(m, "semantic", q.key, x.ver, x.path, TRUE),
             Set(r, Hit(q, x, "db_semantic"))
      PROVE  IInv'
  <2>1. x \in rows /\ RowInv(x) /\ x.epoch = q.ep[q.lay]
    BY DEF RowsIn, IInv
  <2>2. x.ver \in Nat /\ x.path \in Paths /\ x.ver >= settled
    BY <1>1, <2>1 DEF RowInv, Row, ReqInv, SettledInv
  <2>3. ExactStore(q.lay) \in Stores /\ "semantic" \in Stores
    BY DEF ExactStore, Stores
  <2>4. \A e \in mem \ ev : EntryInv(e)
    BY DEF IInv
  <2> DEFINE m == Put(mem \ ev, ExactStore(q.lay), q.key, x.ver, x.path, TRUE)
  <2>5. \A e \in m : EntryInv(e)
    BY <1>1, <2>2, <2>3, <2>4, PutInv
  <2>6. mem' = m \/ mem' = Put(m, "semantic", q.key, x.ver, x.path, TRUE)
    BY <1>4
  <2> HIDE DEF m
  <2>7. \A e \in Put(m, "semantic", q.key, x.ver, x.path, TRUE) : EntryInv(e)
    BY <1>1, <2>2, <2>3, <2>5, PutInv
  <2>8. \A e \in mem' : EntryInv(e)
    BY <2>5, <2>6, <2>7
  <2>9. ReqInv(Hit(q, x, "db_semantic"))
    BY <1>1, <2>2, HitInv DEF Sources
  <2>. QED  BY <1>1, <1>2, <1>4, <2>8, <2>9, HandlerStep DEF DbSemantic
<1>5. \A ev \in Evictions(ExactStore(q.lay)) : ev \in SUBSET mem
  BY DEF Evictions
<1>6. Nearest(q.key, RowsIn(q.lay, q.ep[q.lay])) \subseteq RowsIn(q.lay, q.ep[q.lay])
  BY DEF Nearest
<1>. QED  BY <1>3, <1>4, <1>5, <1>6 DEF DbSemantic


\* Deterministic planning.
LEMMA PlanStep ==
  ASSUME IInv, NEW r \in Requests, Plan(r) PROVE IInv'
<1> DEFINE q == req[r]
           p == [q EXCEPT !.pc = "memStore", !.path = "planned", !.own = TRUE,
                          !.ver = IF q.ret = -1 THEN kv ELSE q.ret]
           v == IF q.ret = -1 THEN kv ELSE q.ret
<1>1. /\ ClockInv /\ ReqInv(q) /\ InFlight(r) /\ q \in ReqRecord
      /\ q.pc = "plan" /\ q.pc \notin {"idle", "done"}
      /\ q.lay = "generate-sql" /\ q.ver = -1 /\ q.own = FALSE
  BY Moving DEF Plan, ReqInv, ShapeInv, Before, Holding, GenOnly
<1>0. v \in Nat /\ v >= settled /\ (q.ret # -1 => v = q.ret) /\ (q.ret = -1 => v = kv)
  BY <1>1 DEF ClockInv, ReqInv, SettledInv, ReqRecord
<1>2. (\A e \in mem' : EntryInv(e)) /\ (\A x \in rows' : RowInv(x))
  BY DEF Plan, IInv
<1>3. CASE Set(r, p)
  <2>1. /\ p \in ReqRecord /\ p.pc = "memStore" /\ p.kind = q.kind /\ p.lay = q.lay
        /\ p.ep = q.ep /\ p.pin = q.pin /\ p.ret = q.ret /\ p.ver = v
        /\ p.path = "planned" /\ p.own = TRUE /\ p.out = q.out /\ p.must = q.must
    BY <1>1, <1>0 DEF ReqRecord, Steps, ClockInv, Endpoints, Paths, ReqInv, ShapeInv
  <2> HIDE DEF p
  <2>2. ShapeInv(p)
    BY <1>1, <2>1, <1>0 DEF ReqInv, ShapeInv, Before, Holding, GenOnly, ClockInv, ReqRecord, Endpoints
  <2>3. FreshInv(p)
    BY <1>1, <2>1, <1>0 DEF ReqInv, ShapeInv, FreshInv, ClockInv, ReqRecord, Endpoints, GenOnly, Before
  <2>4. SettledInv(p)
    BY <1>1, <2>1, <1>0 DEF ReqInv, ShapeInv, SettledInv, ClockInv, ReqRecord, Endpoints
  <2>. QED  BY <1>1, <1>2, <1>3, <2>2, <2>3, <2>4, HandlerStep DEF Plan, ReqInv
<1>4. CASE Set(r, Goto(q, "react"))
  <2>1. ReqInv(Goto(q, "react"))
    BY <1>1, GotoInv DEF Steps, Before, Holding, GenOnly, ReqInv, ShapeInv, ReqRecord, Endpoints
  <2>. QED  BY <1>1, <1>2, <1>4, <2>1, HandlerStep DEF Plan
<1>5. CASE Set(r, Reply(q, "error", "none", -1))
  <2>1. ReqInv(Reply(q, "error", "none", -1))
    BY <1>1, ReplyInv DEF Outs, Sources
  <2>. QED  BY <1>1, <1>2, <1>5, <2>1, HandlerStep DEF Plan
<1>. QED  BY <1>3, <1>4, <1>5 DEF Plan

\* The agent starts from the knowledge of the moment.
LEMMA ReactStep ==
  ASSUME IInv, NEW r \in Requests, React(r) PROVE IInv'
<1> DEFINE q == req[r]
           p == [q EXCEPT !.pc = "reacting", !.ver = kv, !.path = "react", !.own = TRUE]
<1>1. /\ ClockInv /\ ReqInv(q) /\ InFlight(r) /\ q \in ReqRecord
      /\ q.pc = "react" /\ q.pc \notin {"idle", "done"}
      /\ q.lay = "generate-sql" /\ q.ver = -1
  BY Moving DEF React, ReqInv, ShapeInv, Before, Holding, GenOnly
<1>2. (\A e \in mem' : EntryInv(e)) /\ (\A x \in rows' : RowInv(x))
  BY DEF React, IInv
<1>3. CASE Set(r, p)
  <2>1. /\ p \in ReqRecord /\ p.pc = "reacting" /\ p.kind = q.kind /\ p.lay = q.lay
        /\ p.ep = q.ep /\ p.pin = q.pin /\ p.ret = q.ret /\ p.ver = kv
        /\ p.path = "react" /\ p.own = TRUE /\ p.out = q.out /\ p.must = q.must
    BY <1>1 DEF ReqRecord, Steps, ClockInv, Endpoints, Paths, ReqInv, ShapeInv
  <2> HIDE DEF p
  <2>2. ShapeInv(p)
    BY <1>1, <2>1 DEF ReqInv, ShapeInv, Before, Holding, GenOnly, ClockInv, ReqRecord, Endpoints
  <2>3. FreshInv(p)
    BY <1>1, <2>1 DEF ReqInv, ShapeInv, FreshInv, ClockInv, ReqRecord, Endpoints, GenOnly, Before
  <2>4. SettledInv(p)
    BY <1>1, <2>1 DEF ReqInv, ShapeInv, SettledInv, ClockInv, ReqRecord, Endpoints
  <2>. QED  BY <1>1, <1>2, <1>3, <2>2, <2>3, <2>4, HandlerStep DEF React, ReqInv
<1>. QED  BY <1>3 DEF React

\* The agent ends.
LEMMA ReactEndsStep ==
  ASSUME IInv, NEW r \in Requests, ReactEnds(r) PROVE IInv'
<1> DEFINE q == req[r]
<1>1. /\ ClockInv /\ ReqInv(q) /\ InFlight(r) /\ q \in ReqRecord
      /\ q.pc = "reacting" /\ q.pc \notin {"idle", "done"}
      /\ q.lay = "generate-sql" /\ q.ver # -1
  BY Moving DEF ReactEnds, ReqInv, ShapeInv, Before, Holding, GenOnly
<1>2. (\A e \in mem' : EntryInv(e)) /\ (\A x \in rows' : RowInv(x))
  BY DEF ReactEnds, IInv
<1>3. CASE Set(r, Goto(q, "memStore"))
  <2>1. ReqInv(Goto(q, "memStore"))
    BY <1>1, GotoInv DEF Steps, Before, Holding, GenOnly, ReqInv, ShapeInv, ReqRecord, Endpoints
  <2>. QED  BY <1>1, <1>2, <1>3, <2>1, HandlerStep DEF ReactEnds
<1>4. CASE Set(r, Reply(q, "turned_away", "none", -1))
  <2>1. ReqInv(Reply(q, "turned_away", "none", -1))
    BY <1>1, ReplyInv DEF Outs, Sources
  <2>. QED  BY <1>1, <1>2, <1>4, <2>1, HandlerStep DEF ReactEnds
<1>5. CASE Set(r, Reply(q, "error", "none", -1))
  <2>1. ReqInv(Reply(q, "error", "none", -1))
    BY <1>1, ReplyInv DEF Outs, Sources
  <2>. QED  BY <1>1, <1>2, <1>5, <2>1, HandlerStep DEF ReactEnds
<1>. QED  BY <1>3, <1>4, <1>5 DEF ReactEnds

\* generate_sql stores its result in memory.
LEMMA SqlMemStoreStep ==
  ASSUME IInv, NEW r \in Requests, SqlMemStore(r) PROVE IInv'
<1> DEFINE q == req[r]
<1>1. /\ ClockInv /\ ReqInv(q) /\ InFlight(r) /\ q \in ReqRecord
      /\ q.pc = "memStore" /\ q.pc \notin {"idle", "done"}
      /\ q.lay = "generate-sql" /\ q.ver \in Nat /\ q.ver >= settled
      /\ q.key \in Keys /\ q.path \in Paths /\ q.emb["generate-sql"] \in BOOLEAN
  <2>1. /\ ClockInv /\ ReqInv(q) /\ InFlight(r) /\ q \in ReqRecord /\ q.pc = "memStore"
        /\ q.lay = "generate-sql"
    BY Moving DEF SqlMemStore
  <2>2. q.ver # -1 /\ (q.ver # -1 => q.ver >= settled)
    BY <2>1 DEF ReqInv, ShapeInv, SettledInv, Holding
  <2>. QED  BY <2>1, <2>2 DEF ReqRecord, Endpoints
<1>2. (\A e \in mem' : EntryInv(e)) /\ (\A x \in rows' : RowInv(x))
  <2>1. PICK ev \in Evictions("sql") :
          mem' = LET m == Put(mem \ ev, "sql", q.key, q.ver, q.path, FALSE)
                 IN  IF q.emb["generate-sql"]
                     THEN Put(m, "semantic", q.key, q.ver, q.path, TRUE) ELSE m
    BY DEF SqlMemStore
  <2> DEFINE m == Put(mem \ ev, "sql", q.key, q.ver, q.path, FALSE)
  <2>2. \A e \in mem \ ev : EntryInv(e)
    BY DEF IInv
  <2>3. \A e \in m : EntryInv(e)
    BY <1>1, <2>2, PutInv DEF Stores
  <2>4. mem' = IF q.emb["generate-sql"] THEN Put(m, "semantic", q.key, q.ver, q.path, TRUE) ELSE m
    BY <2>1
  <2> HIDE DEF m
  <2>5. \A e \in mem' : EntryInv(e)
    BY <1>1, <2>3, <2>4, PutInv DEF Stores
  <2>6. \A x \in rows' : RowInv(x)
    BY DEF SqlMemStore, IInv
  <2>. QED  BY <2>5, <2>6
<1>3. CASE Set(r, Goto(q, "semStore"))
  <2>1. ReqInv(Goto(q, "semStore"))
    BY <1>1, GotoInv DEF Steps, Before, Holding, GenOnly, ReqInv, ShapeInv, ReqRecord, Endpoints
  <2>. QED  BY <1>1, <1>2, <1>3, <2>1, HandlerStep DEF SqlMemStore
<1>4. CASE Set(r, Goto(q, "lateEpoch"))
  <2>1. ReqInv(Goto(q, "lateEpoch"))
    BY <1>1, GotoInv DEF Steps, Before, Holding, GenOnly, ReqInv, ShapeInv, ReqRecord, Endpoints
  <2>. QED  BY <1>1, <1>2, <1>4, <2>1, HandlerStep DEF SqlMemStore
<1>5. CASE Set(r, Goto(q, "dbStore")) /\ q.ep["generate-sql"] # 0
  <2>0. q.ep[q.lay] # 0 /\ q.ver # -1
    BY <1>1, <1>5
  <2>1. ReqInv(Goto(q, "dbStore"))
    BY <1>1, <2>0, GotoInv DEF Steps, Before, Holding, GenOnly, ReqInv, ShapeInv, ReqRecord, Endpoints
  <2>. QED  BY <1>1, <1>2, <1>5, <2>1, HandlerStep DEF SqlMemStore
<1>. QED  BY <1>1, <1>3, <1>4, <1>5 DEF SqlMemStore

\* /ask stores its answer in memory.
LEMMA AskMemStoreStep ==
  ASSUME IInv, NEW r \in Requests, AskMemStore(r) PROVE IInv'
<1> DEFINE q == req[r]
<1>1. /\ ClockInv /\ ReqInv(q) /\ InFlight(r) /\ q \in ReqRecord
      /\ q.pc = "memStore" /\ q.pc \notin {"idle", "done"}
      /\ q.lay = "ask" /\ q.ver \in Nat /\ q.ver >= settled
      /\ q.key \in Keys /\ q.path \in Paths /\ q.emb["ask"] \in BOOLEAN
  <2>1. /\ ClockInv /\ ReqInv(q) /\ InFlight(r) /\ q \in ReqRecord /\ q.pc = "memStore"
        /\ q.lay = "ask"
    BY Moving DEF AskMemStore
  <2>2. q.ver # -1 /\ (q.ver # -1 => q.ver >= settled)
    BY <2>1 DEF ReqInv, ShapeInv, SettledInv, Holding
  <2>. QED  BY <2>1, <2>2 DEF ReqRecord, Endpoints
<1>2. (\A e \in mem' : EntryInv(e)) /\ (\A x \in rows' : RowInv(x))
  <2>1. PICK ev \in Evictions("ask") :
          mem' = Put(mem \ ev, "ask", q.key, q.ver, q.path, q.emb["ask"])
    BY DEF AskMemStore
  <2>2. \A e \in mem \ ev : EntryInv(e)
    BY DEF IInv
  <2>3. \A e \in mem' : EntryInv(e)
    BY <1>1, <2>1, <2>2, PutInv DEF Stores
  <2>4. \A x \in rows' : RowInv(x)
    BY DEF AskMemStore, IInv
  <2>. QED  BY <2>3, <2>4
<1>3. CASE Set(r, Goto(q, "lateEpoch"))
  <2>1. ReqInv(Goto(q, "lateEpoch"))
    BY <1>1, GotoInv DEF Steps, Before, Holding, GenOnly, ReqInv, ShapeInv, ReqRecord, Endpoints
  <2>. QED  BY <1>1, <1>2, <1>3, <2>1, HandlerStep DEF AskMemStore
<1>4. CASE Set(r, Goto(q, "dbStore")) /\ q.ep["ask"] # 0
  <2>0. q.ep[q.lay] # 0 /\ q.ver # -1
    BY <1>1, <1>4
  <2>1. ReqInv(Goto(q, "dbStore"))
    BY <1>1, <2>0, GotoInv DEF Steps, Before, Holding, GenOnly, ReqInv, ShapeInv, ReqRecord, Endpoints
  <2>. QED  BY <1>1, <1>2, <1>4, <2>1, HandlerStep DEF AskMemStore
<1>. QED  BY <1>1, <1>3, <1>4 DEF AskMemStore

\* Leaving a cache write.
LEMMA StoredInv ==
  ASSUME ClockInv, NEW q, ReqInv(q), q.pc \in {"semStore", "lateEpoch", "dbStore"}
  PROVE  ReqInv(Stored(q))
<1>1. q \in ReqRecord /\ q.ver # -1 /\ q.pc \notin {"idle", "done"}
  BY DEF ReqInv, ShapeInv, Holding
<1>2. q.ver \in Nat /\ q.ver >= settled /\ q.path \in Paths /\ q.own \in BOOLEAN
  BY <1>1 DEF ReqInv, SettledInv, ReqRecord
<1>3. ReqInv(Goto(q, "finish"))
  BY <1>1, GotoInv DEF Steps, Before, Holding, GenOnly
<1>4. ReqInv(Return(q, q.ver, q.path, q.own, "none"))
  BY <1>1, <1>2, ReturnInv DEF Sources
<1>. QED  BY <1>3, <1>4 DEF Stored

\* The second attempt at an embedding.
LEMMA SqlSemStoreStep ==
  ASSUME IInv, NEW r \in Requests, SqlSemStore(r) PROVE IInv'
<1> DEFINE q == req[r]
<1>1. /\ ClockInv /\ ReqInv(q) /\ InFlight(r) /\ q \in ReqRecord
      /\ q.pc = "semStore" /\ q.pc \notin {"idle", "done"}
      /\ q.ver \in Nat /\ q.ver >= settled /\ q.key \in Keys /\ q.path \in Paths
      /\ q.lay \in Endpoints
      /\ q.lay = "generate-sql"
  <2>1. ClockInv /\ ReqInv(q) /\ InFlight(r) /\ q \in ReqRecord /\ q.pc = "semStore"
    BY Moving DEF SqlSemStore
  <2>2. q.ver # -1 /\ (q.ver # -1 => q.ver >= settled)
      /\ q.lay = "generate-sql"
    BY <2>1 DEF ReqInv, ShapeInv, SettledInv, Holding, GenOnly
  <2>. QED  BY <2>1, <2>2 DEF ReqRecord
<1> DEFINE next == IF q.ep["generate-sql"] = 0 THEN "lateEpoch" ELSE "dbStore"
           p == [q EXCEPT !.pc = next, !.emb["generate-sql"] = TRUE]
<1>2. \A x \in rows' : RowInv(x)
  BY DEF SqlSemStore, IInv
<1>3. /\ next \in Steps \ {"idle", "done"} /\ next \in {"lateEpoch", "dbStore"}
      /\ next = "dbStore" => q.ep[q.lay] # 0
  BY <1>1 DEF Steps
<1> HIDE DEF next
<1>4. ASSUME Set(r, p), NEW ev \in Evictions("semantic"),
             mem' = Put(mem \ ev, "semantic", q.key, q.ver, q.path, TRUE)
      PROVE  IInv'
  <2>1. /\ p \in ReqRecord /\ p.pc = next /\ p.kind = q.kind /\ p.lay = q.lay
        /\ p.ep = q.ep /\ p.pin = q.pin /\ p.ret = q.ret /\ p.ver = q.ver
        /\ p.path = q.path /\ p.own = q.own /\ p.out = q.out /\ p.must = q.must
    BY <1>1, <1>3 DEF ReqRecord, Endpoints
  <2>2. Set(r, p)
    BY <1>4
  <2> HIDE DEF p
  <2>3. ShapeInv(p)
    BY <1>1, <1>3, <2>1 DEF ReqInv, ShapeInv, Before, Holding, GenOnly
  <2>4. FreshInv(p)
    BY <1>1, <2>1 DEF ReqInv, FreshInv
  <2>5. SettledInv(p)
    BY <1>1, <1>3, <2>1 DEF ReqInv, SettledInv
  <2>6. \A e \in mem \ ev : EntryInv(e)
    BY DEF IInv
  <2>7. \A e \in mem' : EntryInv(e)
    BY <1>1, <1>4, <2>6, PutInv DEF Stores
  <2>. QED  BY <1>1, <1>2, <2>2, <2>3, <2>4, <2>5, <2>7, HandlerStep DEF SqlSemStore, ReqInv
<1>5. CASE Set(r, Goto(q, next)) /\ mem' = mem
  <2>1. /\ next \notin Before /\ next \notin GenOnly /\ next # "obvious" /\ q.ver # -1
        /\ next \in {"dbExact", "dbSemantic", "dbStore"} => q.ep[q.lay] # 0
    BY <1>1, <1>3 DEF Before, GenOnly
  <2>3. ReqInv(Goto(q, next))
    BY <1>1, <1>3, <2>1, GotoInv
  <2>2. \A e \in mem' : EntryInv(e)
    BY <1>5 DEF IInv
  <2>. QED  BY <1>1, <1>2, <1>5, <2>2, <2>3, HandlerStep DEF SqlSemStore
<1>. QED  BY <1>4, <1>5 DEF SqlSemStore, next

\* An epoch read after the generation pins nothing.
LEMMA LateEpochStep ==
  ASSUME IInv, NEW r \in Requests, LateEpoch(r) PROVE IInv'
<1> DEFINE q == req[r]
<1>1. /\ ClockInv /\ ReqInv(q) /\ InFlight(r) /\ q \in ReqRecord
      /\ q.pc = "lateEpoch" /\ q.pc \notin {"idle", "done"}
      /\ q.ver \in Nat /\ q.ver >= settled /\ q.key \in Keys /\ q.path \in Paths
      /\ q.lay \in Endpoints
  <2>1. ClockInv /\ ReqInv(q) /\ InFlight(r) /\ q \in ReqRecord /\ q.pc = "lateEpoch"
    BY Moving DEF LateEpoch
  <2>2. q.ver # -1 /\ (q.ver # -1 => q.ver >= settled)
    BY <2>1 DEF ReqInv, ShapeInv, SettledInv, Holding, GenOnly
  <2>. QED  BY <2>1, <2>2 DEF ReqRecord
<1> DEFINE p == [q EXCEPT !.pc = "dbStore", !.ep[q.lay] = epoch, !.pin[q.lay] = FALSE]
<1>2. (\A e \in mem' : EntryInv(e)) /\ (\A x \in rows' : RowInv(x))
  BY DEF LateEpoch, IInv
<1>3. CASE Set(r, p)
  <2>1. /\ p \in ReqRecord /\ p.pc = "dbStore" /\ p.kind = q.kind /\ p.lay = q.lay
        /\ p.ep = [q.ep EXCEPT ![q.lay] = epoch] /\ p.pin = [q.pin EXCEPT ![q.lay] = FALSE]
        /\ p.ret = q.ret /\ p.ver = q.ver
        /\ p.path = q.path /\ p.own = q.own /\ p.out = q.out /\ p.must = q.must
    BY <1>1 DEF ReqRecord, Steps, ClockInv
  <2>2. /\ q.ep \in [Endpoints -> Nat] /\ q.pin \in [Endpoints -> BOOLEAN]
        /\ q.lay \in Endpoints /\ epoch \in Nat \ {0} /\ epoch >= settledEp
    BY <1>1 DEF ReqRecord, ClockInv
  <2> HIDE DEF p
  <2>3. \A l \in Endpoints : \/ p.ep[l] = epoch /\ p.pin[l] = FALSE /\ l = q.lay
                             \/ p.ep[l] = q.ep[l] /\ p.pin[l] = q.pin[l] /\ l # q.lay
    <3>1. \A l \in Endpoints : IF l = q.lay THEN p.ep[l] = epoch ELSE p.ep[l] = q.ep[l]
      BY <2>1, <2>2
    <3>2. \A l \in Endpoints : IF l = q.lay THEN p.pin[l] = FALSE ELSE p.pin[l] = q.pin[l]
      BY <2>1, <2>2, Zenon
    <3>3. ASSUME NEW l \in Endpoints
          PROVE  \/ p.ep[l] = epoch /\ p.pin[l] = FALSE /\ l = q.lay
                 \/ p.ep[l] = q.ep[l] /\ p.pin[l] = q.pin[l] /\ l # q.lay
      <4>1. CASE l = q.lay
        BY <3>1, <3>2, <4>1, Zenon
      <4>2. CASE l # q.lay
        BY <3>1, <3>2, <4>2, Zenon
      <4>. QED  BY <4>1, <4>2
    <3>. QED  BY <3>3
  <2>4. ShapeInv(p)
    BY <1>1, <2>1, <2>2, <2>3 DEF ReqInv, ShapeInv, Before, Holding, GenOnly
  <2>5. FreshInv(p)
    BY <1>1, <2>1, <2>3 DEF ReqInv, FreshInv, Endpoints
  <2>6. SettledInv(p)
    BY <1>1, <2>1, <2>2, <2>3 DEF ReqInv, SettledInv
  <2>. QED  BY <1>1, <1>2, <1>3, <2>4, <2>5, <2>6, HandlerStep DEF LateEpoch, ReqInv
<1>4. CASE Set(r, Stored(q))
  <2>1. ReqInv(Stored(q))
    BY <1>1, StoredInv
  <2>. QED  BY <1>1, <1>2, <1>4, <2>1, HandlerStep DEF LateEpoch
<1>. QED  BY <1>3, <1>4 DEF LateEpoch

\* The row takes its freshness from the epoch its request pinned.
LEMMA DbStoreStep ==
  ASSUME IInv, NEW r \in Requests, DbStore(r) PROVE IInv'
<1> DEFINE q == req[r]
<1>1. /\ ClockInv /\ ReqInv(q) /\ InFlight(r) /\ q \in ReqRecord
      /\ q.pc = "dbStore" /\ q.pc \notin {"idle", "done"}
      /\ q.ver \in Nat /\ q.ver >= settled /\ q.key \in Keys /\ q.path \in Paths
      /\ q.lay \in Endpoints
  <2>1. ClockInv /\ ReqInv(q) /\ InFlight(r) /\ q \in ReqRecord /\ q.pc = "dbStore"
    BY Moving DEF DbStore
  <2>2. q.ver # -1 /\ (q.ver # -1 => q.ver >= settled)
    BY <2>1 DEF ReqInv, ShapeInv, SettledInv, Holding, GenOnly
  <2>. QED  BY <2>1, <2>2 DEF ReqRecord
<1> DEFINE x == [end |-> q.lay, key |-> q.key, epoch |-> q.ep[q.lay],
                  ver |-> q.ver, path |-> q.path, emb |-> q.emb[q.lay],
                  pinned |-> q.pin[q.lay], own |-> q.own]
<1>2. /\ q.ep[q.lay] \in 1..epoch /\ q.emb[q.lay] \in BOOLEAN
      /\ q.pin[q.lay] \in BOOLEAN /\ q.own \in BOOLEAN /\ q.ver # -1
  <2>1. q.ep[q.lay] # 0 /\ q.ep[q.lay] <= epoch
    BY <1>1 DEF ReqInv, ShapeInv
  <2>. QED  BY <1>1, <2>1 DEF ReqRecord, ClockInv
<1>3. x \in Row
  BY <1>1, <1>2 DEF Row
<1>4. x.pinned /\ x.own /\ (x.end = "ask" \/ x.path = "react")
          => x.ver >= floor[x.epoch]
  <2>1. q.lay = "ask" \/ q.lay = "generate-sql"
    BY <1>1 DEF Endpoints
  <2>2. q.lay = "ask" => q.kind = "ask"
    BY <1>1 DEF ReqInv, ShapeInv
  <2>. QED  BY <1>1, <1>2, <2>1, <2>2 DEF ReqInv, FreshInv
<1>5. RowInv(x)
  BY <1>1, <1>2, <1>3, <1>4 DEF RowInv
<1>6. rows' = Upsert(x) \/ rows' = rows
  BY DEF DbStore
<1> HIDE DEF x
<1>7. \A y \in rows' : RowInv(y)
  BY <1>5, <1>6 DEF Upsert, IInv
<1>8. \A e \in mem' : EntryInv(e)
  BY DEF DbStore, IInv
<1>9. ReqInv(Stored(q))
  BY <1>1, StoredInv
<1>. QED  BY <1>1, <1>7, <1>8, <1>9, HandlerStep DEF DbStore

\* /ask executes the SQL.
LEMMA ExecuteStep ==
  ASSUME IInv, NEW r \in Requests, Execute(r) PROVE IInv'
<1> DEFINE q == req[r]
<1>1. /\ ClockInv /\ ReqInv(q) /\ InFlight(r) /\ q \in ReqRecord
      /\ q.pc = "execute" /\ q.pc \notin {"idle", "done"}
      /\ q.ver \in Nat /\ q.ver >= settled /\ q.key \in Keys /\ q.path \in Paths
      /\ q.lay \in Endpoints
  <2>1. ClockInv /\ ReqInv(q) /\ InFlight(r) /\ q \in ReqRecord /\ q.pc = "execute"
    BY Moving DEF Execute
  <2>2. q.ver # -1 /\ (q.ver # -1 => q.ver >= settled)
    BY <2>1 DEF ReqInv, ShapeInv, SettledInv, Holding, GenOnly
  <2>. QED  BY <2>1, <2>2 DEF ReqRecord
<1>2. (\A e \in mem' : EntryInv(e)) /\ (\A x \in rows' : RowInv(x))
  BY DEF Execute, IInv
<1>3. CASE Set(r, Goto(q, "reembed"))
  <2>1. ReqInv(Goto(q, "reembed"))
    BY <1>1, GotoInv DEF Steps, Before, Holding, GenOnly, ReqInv, ShapeInv, ReqRecord, Endpoints
  <2>. QED  BY <1>1, <1>2, <1>3, <2>1, HandlerStep DEF Execute
<1>4. CASE Set(r, Goto(q, "memStore"))
  <2>1. ReqInv(Goto(q, "memStore"))
    BY <1>1, GotoInv DEF Steps, Before, Holding, GenOnly, ReqInv, ShapeInv, ReqRecord, Endpoints
  <2>. QED  BY <1>1, <1>2, <1>4, <2>1, HandlerStep DEF Execute
<1>5. CASE Set(r, Reply(q, "turned_away", "none", -1))
  <2>1. ReqInv(Reply(q, "turned_away", "none", -1))
    BY <1>1, ReplyInv DEF Outs, Sources
  <2>. QED  BY <1>1, <1>2, <1>5, <2>1, HandlerStep DEF Execute
<1>. QED  BY <1>3, <1>4, <1>5 DEF Execute

\* /ask loads a missing embedding once more.
LEMMA AskReembedStep ==
  ASSUME IInv, NEW r \in Requests, AskReembed(r) PROVE IInv'
<1> DEFINE q == req[r]
<1>1. /\ ClockInv /\ ReqInv(q) /\ InFlight(r) /\ q \in ReqRecord
      /\ q.pc = "reembed" /\ q.pc \notin {"idle", "done"}
      /\ q.ver \in Nat /\ q.ver >= settled /\ q.key \in Keys /\ q.path \in Paths
      /\ q.lay \in Endpoints
  <2>1. ClockInv /\ ReqInv(q) /\ InFlight(r) /\ q \in ReqRecord /\ q.pc = "reembed"
    BY Moving DEF AskReembed
  <2>2. q.ver # -1 /\ (q.ver # -1 => q.ver >= settled)
    BY <2>1 DEF ReqInv, ShapeInv, SettledInv, Holding, GenOnly
  <2>. QED  BY <2>1, <2>2 DEF ReqRecord
<1> DEFINE p == [q EXCEPT !.pc = "memStore", !.emb["ask"] = TRUE]
<1>2. (\A e \in mem' : EntryInv(e)) /\ (\A x \in rows' : RowInv(x))
  BY DEF AskReembed, IInv
<1>3. CASE Set(r, p)
  <2>1. /\ p \in ReqRecord /\ p.pc = "memStore" /\ p.kind = q.kind /\ p.lay = q.lay
        /\ p.ep = q.ep /\ p.pin = q.pin /\ p.ret = q.ret /\ p.ver = q.ver
        /\ p.path = q.path /\ p.own = q.own /\ p.out = q.out /\ p.must = q.must
    BY <1>1 DEF ReqRecord, Steps, ClockInv, Endpoints, Paths, ReqInv, ShapeInv
  <2> HIDE DEF p
  <2>2. ShapeInv(p)
    BY <1>1, <2>1 DEF ReqInv, ShapeInv, Before, Holding, GenOnly, ClockInv, ReqRecord, Endpoints
  <2>3. FreshInv(p)
    BY <1>1, <2>1 DEF ReqInv, ShapeInv, FreshInv, ClockInv, ReqRecord, Endpoints, GenOnly, Before
  <2>4. SettledInv(p)
    BY <1>1, <2>1 DEF ReqInv, ShapeInv, SettledInv, ClockInv, ReqRecord, Endpoints
  <2>. QED  BY <1>1, <1>2, <1>3, <2>2, <2>3, <2>4, HandlerStep DEF AskReembed, ReqInv
<1>4. CASE Set(r, Goto(q, "memStore"))
  <2>1. ReqInv(Goto(q, "memStore"))
    BY <1>1, GotoInv DEF Steps, Before, Holding, GenOnly, ReqInv, ShapeInv, ReqRecord, Endpoints
  <2>. QED  BY <1>1, <1>2, <1>4, <2>1, HandlerStep DEF AskReembed
<1>. QED  BY <1>3, <1>4 DEF AskReembed

\* /ask answers.
LEMMA FinishStep ==
  ASSUME IInv, NEW r \in Requests, Finish(r) PROVE IInv'
<1> DEFINE q == req[r]
<1>1. /\ ClockInv /\ ReqInv(q) /\ InFlight(r) /\ q \in ReqRecord
      /\ q.pc = "finish" /\ q.pc \notin {"idle", "done"}
      /\ q.ver \in Nat /\ q.ver >= settled /\ q.key \in Keys /\ q.path \in Paths
      /\ q.lay \in Endpoints
  <2>1. ClockInv /\ ReqInv(q) /\ InFlight(r) /\ q \in ReqRecord /\ q.pc = "finish"
    BY Moving DEF Finish
  <2>2. q.ver # -1 /\ (q.ver # -1 => q.ver >= settled)
    BY <2>1 DEF ReqInv, ShapeInv, SettledInv, Holding, GenOnly
  <2>. QED  BY <2>1, <2>2 DEF ReqRecord
<1>2. (\A e \in mem' : EntryInv(e)) /\ (\A x \in rows' : RowInv(x))
  BY DEF Finish, IInv
<1>3. ReqInv(Reply(q, "ok", "none", q.ver))
  BY <1>1, ReplyInv DEF Outs, Sources
<1>. QED  BY <1>1, <1>2, <1>3, HandlerStep DEF Finish

\* A cancelled request leaves only its reply.
LEMMA AskTimeoutStep ==
  ASSUME IInv, NEW r \in Requests, AskTimeout(r) PROVE IInv'
<1> DEFINE q == req[r]
<1>1. /\ ClockInv /\ ReqInv(q) /\ q \in ReqRecord /\ q.pc \notin {"idle", "done"}
  BY Moving DEF AskTimeout, InFlight
<1>2. (\A e \in mem' : EntryInv(e)) /\ (\A x \in rows' : RowInv(x))
  BY DEF AskTimeout, IInv
<1>3. ReqInv(Reply(q, "timeout", "none", -1))
  BY <1>1, ReplyInv DEF Outs, Sources
<1>. QED  BY <1>1, <1>2, <1>3, HandlerStep DEF AskTimeout

-----------------------------------------------------------------------------
(* The steps that are not a handler's.                                     *)

\* A handler that has not started, or only just, is sound.
LEMMA BlankInv ==
  ASSUME ClockInv, NEW kind \in Endpoints, NEW key \in Keys, NEW pc \in {"idle", "memExact"},
         NEW must \in Nat, pc = "memExact" => must = settled
  PROVE  ReqInv(Blank(kind, key, pc, must))
<1> DEFINE p == Blank(kind, key, pc, must)
<1>1. /\ p \in ReqRecord /\ p.kind = kind /\ p.lay = kind /\ p.pc = pc /\ p.must = must
      /\ p.ver = -1 /\ p.ret = -1 /\ p.own = FALSE /\ p.out = "none"
      /\ \A l \in Endpoints : p.ep[l] = 0 /\ p.pin[l] = FALSE
  BY DEF Blank, ReqRecord, Endpoints, Steps, Paths, Sources, Outs
<1> HIDE DEF p
<1>2. ShapeInv(p)
  BY <1>1 DEF ShapeInv, ClockInv, Before, Holding, GenOnly
<1>3. FreshInv(p)
  BY <1>1 DEF FreshInv
<1>4. SettledInv(p)
  BY <1>1 DEF SettledInv
<1>. QED  BY <1>2, <1>3, <1>4 DEF ReqInv, p

\* The record of a handler that waits for a request.
LEMMA IdleInv ==
  ASSUME ClockInv
  PROVE  LET b == Blank("ask", CHOOSE k \in Keys : TRUE, "idle", 0)
         IN  b \in ReqRecord /\ ReqInv(b) /\ b.pc = "idle"
<1> DEFINE k == CHOOSE k \in Keys : TRUE
<1>1. k \in Keys /\ "ask" \in Endpoints /\ "idle" \in Steps /\ 0 \in Nat
  BY SomeKey DEF Endpoints, Steps
<1> HIDE DEF k
<1>2. Blank("ask", k, "idle", 0) \in ReqRecord /\ Blank("ask", k, "idle", 0).pc = "idle"
  BY <1>1 DEF Blank, ReqRecord, Endpoints, Steps, Paths, Sources, Outs
<1>3. ReqInv(Blank("ask", k, "idle", 0))
  <2>1. "idle" \in {"idle", "memExact"} /\ "idle" # "memExact"
    OBVIOUS
  <2>. QED  BY <1>1, <2>1, BlankInv
<1>. QED  BY <1>2, <1>3 DEF k

\* A request arrives, and every mutation under way stops being undisturbed.
LEMMA ArriveStep ==
  ASSUME IInv, NEW r \in Requests, Arrive(r) PROVE IInv'
<1>1. PICK c \in Calls[r] : Set(r, Blank(c[1], c[2], "memExact", settled))
  BY DEF Arrive
<1>2. c[1] \in Endpoints /\ c[2] \in Keys
  BY CallsAssumption
<1> DEFINE p == Blank(c[1], c[2], "memExact", settled)
<1>3. ReqInv(p) /\ p \in ReqRecord
  <2>1. ClockInv /\ settled \in Nat /\ "memExact" \in Steps
    BY DEF IInv, ClockInv, Steps
  <2>2. p \in ReqRecord
    BY <1>2, <2>1, BlankShape
  <2>. QED  BY <1>2, <2>1, <2>2, BlankInv
<1> HIDE DEF p
<1>4. req' = [req EXCEPT ![r] = p]
  BY <1>1 DEF Set, p
<1>5. ClockInv'
  BY DEF Arrive, IInv, ClockInv
<1>6. req' \in [Requests -> ReqRecord] /\ mut' \in [Mutators -> MutRecord]
  BY <1>3, <1>4 DEF Arrive, IInv, MutRecord
<1>7. ASSUME NEW s \in Requests PROVE ReqInv(req[s])'
  <2>1. ReqInv(req'[s])
    BY <1>3, <1>4 DEF IInv
  <2>. QED  BY <2>1 DEF Arrive, ReqInv, ShapeInv, FreshInv, SettledInv
<1>8. \A x \in rows' : RowInv(x)'
  BY DEF Arrive, IInv, RowInv
<1>9. \A e \in mem' : EntryInv(e)'
  BY DEF Arrive, IInv, EntryInv
<1>10. ASSUME NEW m \in Mutators PROVE MutInv(m)'
  <2>1. /\ mut'[m].quiet = FALSE /\ mut'[m].pc = mut[m].pc /\ mut'[m].ver = mut[m].ver
        /\ mut'[m].kind = mut[m].kind /\ mut'[m].reply = mut[m].reply
    BY DEF Arrive, IInv, MutRecord
  <2>. QED  BY <2>1 DEF Arrive, IInv, MutInv
<1>. QED  BY <1>5, <1>6, <1>7, <1>8, <1>9, <1>10 DEF IInv

\* A step that changes only what one mutator knows.
LEMMA MutatorStep ==
  ASSUME IInv, NEW m \in Mutators, mut' \in [Mutators -> MutRecord],
         \A n \in Mutators \ {m} : mut'[n] = mut[n],
         UNCHANGED <<epoch, rows, req, floor, settled, settledEp, ops>>,
         kv' \in Nat, kv' >= kv, mem' = mem \/ mem' = {}, MutInv(m)'
  PROVE  IInv'
<1>1. ClockInv'
  BY DEF IInv, ClockInv
<1>2. req' \in [Requests -> ReqRecord]
  BY DEF IInv
<1>3. ASSUME NEW s \in Requests PROVE ReqInv(req[s])'
  BY DEF IInv, ReqInv, ShapeInv, FreshInv, SettledInv
<1>4. \A x \in rows' : RowInv(x)'
  BY DEF IInv, RowInv
<1>5. \A e \in mem' : EntryInv(e)'
  BY DEF IInv, EntryInv
<1>6. ASSUME NEW n \in Mutators \ {m} PROVE MutInv(n)'
  <2>1. mut'[n] = mut[n] /\ mut[n].ver \in Int /\ kv \in Int /\ MutInv(n)
    BY DEF IInv, MutRecord, ClockInv
  <2>2. mem = {} => mem' = {}
    OBVIOUS
  <2>. QED  BY <2>1, <2>2 DEF MutInv, InFlight
<1>. QED  BY <1>1, <1>2, <1>3, <1>4, <1>5, <1>6 DEF IInv

\* The mutation commits: the knowledge is one version newer.
LEMMA CommitStep ==
  ASSUME IInv, NEW m \in Mutators, Commit(m) PROVE IInv'
<1> DEFINE qt == \A r \in Requests : ~InFlight(r)
<1>1. PICK kind \in MutKinds :
        mut' = [mut EXCEPT ![m] = [kind |-> kind, pc |-> "committed", ver |-> kv + 1,
                                   quiet |-> qt, reply |-> "none"]]
  BY DEF Commit
<1>2. kv \in Nat /\ qt \in BOOLEAN /\ mut \in [Mutators -> MutRecord]
  BY DEF IInv, ClockInv
<1>3. /\ UNCHANGED <<epoch, rows, req, floor, settled, settledEp, ops>>
      /\ kv' = kv + 1 /\ mem' = mem
  BY DEF Commit
<1> HIDE DEF qt
<1>4. /\ mut' \in [Mutators -> MutRecord] /\ \A n \in Mutators \ {m} : mut'[n] = mut[n]
      /\ mut'[m].ver = kv + 1 /\ mut'[m].reply = "none" /\ mut'[m].pc = "committed"
      /\ mut'[m].quiet = qt
  BY <1>1, <1>2 DEF MutRecord
<1>5. qt => \A r \in Requests : ~InFlight(r)'
  BY <1>3 DEF qt, InFlight
<1>6. MutInv(m)'
  BY <1>2, <1>3, <1>4, <1>5 DEF MutInv
<1>. QED  BY <1>2, <1>3, <1>4, <1>6, MutatorStep

\* A reply without invalidation.
LEMMA PlainReplyStep ==
  ASSUME IInv, NEW m \in Mutators, PlainReply(m) PROVE IInv'
<1>1. mut[m] \in MutRecord /\ MutInv(m) /\ kv \in Nat
  BY DEF IInv, ClockInv
<1>2. /\ mut' \in [Mutators -> MutRecord] /\ \A n \in Mutators \ {m} : mut'[n] = mut[n]
      /\ mut'[m].ver = mut[m].ver /\ mut'[m].pc = "idle" /\ mut'[m].kind = "plain"
  BY <1>1 DEF PlainReply, IInv, MutRecord
<1>3. /\ UNCHANGED <<epoch, rows, req, floor, settled, settledEp, ops>>
      /\ kv' = kv /\ mem' = mem
  BY DEF PlainReply
<1>4. MutInv(m)'
  BY <1>1, <1>2, <1>3 DEF MutInv, InFlight
<1>. QED  BY <1>1, <1>2, <1>3, <1>4, MutatorStep

\* The memory is cleared.
LEMMA ClearMemoryStep ==
  ASSUME IInv, NEW m \in Mutators, ClearMemory(m) PROVE IInv'
<1>1. mut[m] \in MutRecord /\ MutInv(m) /\ kv \in Nat
  BY DEF IInv, ClockInv
<1>2. /\ mut' \in [Mutators -> MutRecord] /\ \A n \in Mutators \ {m} : mut'[n] = mut[n]
      /\ mut'[m].ver = mut[m].ver /\ mut'[m].pc = "cleared" /\ mut'[m].kind = mut[m].kind
      /\ mut'[m].kind # "plain" /\ mut'[m].quiet = mut[m].quiet /\ mut'[m].reply = mut[m].reply
      /\ mut[m].pc # "idle"
  BY <1>1 DEF ClearMemory, IInv, MutRecord
<1>3. /\ UNCHANGED <<epoch, rows, req, floor, settled, settledEp, ops>>
      /\ kv' = kv /\ mem' = {}
  BY DEF ClearMemory
<1>4. MutInv(m)'
  BY <1>1, <1>2, <1>3 DEF MutInv, InFlight
<1>. QED  BY <1>1, <1>2, <1>3, <1>4, MutatorStep

\* The epoch moves: its floor is the knowledge of the moment, and the mutation,
\* when nothing disturbed it, becomes the settled one.
LEMMA BumpStep ==
  ASSUME IInv, NEW m \in Mutators, Bump(m) PROVE IInv'
<1> DEFINE u == [mut[m] EXCEPT !.pc = "idle", !.reply = "ok"]
<1>1. mut[m] \in MutRecord /\ MutInv(m) /\ ClockInv /\ mut[m].ver \in Nat
  BY DEF IInv, MutRecord
<1>2. /\ u \in MutRecord /\ u.ver = mut[m].ver /\ u.reply = "ok" /\ u.pc = "idle"
  BY <1>1 DEF MutRecord
<1>3. mut' = [mut EXCEPT ![m] = u]
  BY DEF Bump
<1>4. /\ epoch' = epoch + 1 /\ epoch' \in Nat \ {0} /\ kv' = kv
      /\ floor' \in [1..epoch' -> Nat] /\ floor'[epoch'] = kv
      /\ \A e \in 1..epoch : floor'[e] = floor[e]
  BY <1>1 DEF Bump, ClockInv
<1> HIDE DEF u
<1>5. /\ settled' \in Nat /\ settled' <= kv /\ settledEp' \in Nat /\ settledEp' <= epoch'
  BY <1>1, <1>4 DEF Bump, ClockInv, MutInv
<1>6. ClockInv'
  <2>1. \A e \in 1..epoch' : floor'[e] <= kv'
    BY <1>1, <1>4 DEF ClockInv
  <2>. QED  BY <1>1, <1>4, <1>5, <2>1 DEF Bump, ClockInv
<1>7. req' = req /\ rows' = rows /\ mem' = mem
  BY DEF Bump
<1>8. req' \in [Requests -> ReqRecord] /\ mut' \in [Mutators -> MutRecord]
  BY <1>2, <1>3, <1>7 DEF IInv
<1>9. mut[m].quiet => mem = {} /\ \A r \in Requests : ~InFlight(r)
  BY <1>1 DEF MutInv, Bump
<1>10. ~mut[m].quiet => settled' = settled /\ settledEp' = settledEp
  BY DEF Bump
<1>11. mut[m].quiet => settledEp' = epoch + 1
  BY DEF Bump
<1>12. ASSUME NEW s \in Requests PROVE ReqInv(req[s])'
  <2>1. ReqInv(req[s]) /\ req[s] \in ReqRecord
    BY DEF IInv
  <2>2. \A l \in Endpoints : /\ req[s].ep[l] \in Nat /\ req[s].ep[l] <= epoch
                             /\ req[s].pin[l] => req[s].ep[l] # 0
    BY <2>1 DEF ReqInv, ShapeInv, ReqRecord
  <2>3. ShapeInv(req[s])'
    <3>1. \A l \in Endpoints : req[s].ep[l] <= epoch'
      BY <1>1, <1>4, <2>2 DEF ClockInv
    <3>. QED  BY <1>7, <2>1, <3>1 DEF ReqInv, ShapeInv
  <2>4. FreshInv(req[s])'
    <3>1. \A l \in Endpoints : req[s].pin[l] => floor'[req[s].ep[l]] = floor[req[s].ep[l]]
      BY <1>1, <1>4, <2>2 DEF ClockInv
    <3>. QED  BY <1>7, <2>1, <3>1 DEF ReqInv, FreshInv, Endpoints
  <2>5. SettledInv(req[s])'
    <3>1. CASE mut[m].quiet
      BY <1>7, <1>9, <2>1, <3>1 DEF ReqInv, SettledInv, InFlight
    <3>2. CASE ~mut[m].quiet
      BY <1>7, <1>10, <2>1, <3>2 DEF ReqInv, SettledInv
    <3>. QED  BY <3>1, <3>2
  <2>. QED  BY <2>3, <2>4, <2>5 DEF ReqInv
<1>13. ASSUME NEW x \in rows' PROVE RowInv(x)'
  <2>1. RowInv(x) /\ x.epoch \in 1..epoch /\ x.ver \in Nat
    BY <1>7 DEF IInv, RowInv, Row
  <2>2. x.epoch \in 1..epoch' /\ floor'[x.epoch] = floor[x.epoch]
    BY <1>1, <1>4, <2>1 DEF ClockInv
  <2>3. x.epoch >= settledEp' => x.ver >= settled'
    <3>1. CASE mut[m].quiet
      BY <1>1, <1>11, <2>1, <3>1 DEF ClockInv
    <3>2. CASE ~mut[m].quiet
      BY <1>10, <2>1, <3>2 DEF RowInv
    <3>. QED  BY <3>1, <3>2
  <2>. QED  BY <2>1, <2>2, <2>3 DEF RowInv
<1>14. ASSUME NEW e \in mem' PROVE EntryInv(e)'
  BY <1>7, <1>9, <1>10 DEF IInv, EntryInv
<1>15. ASSUME NEW n \in Mutators PROVE MutInv(n)'
  <2>1. CASE n = m
    <3>1. mut'[n] = u
      BY <1>3, <2>1 DEF IInv
    <3>. QED  BY <1>1, <1>2, <1>4, <3>1 DEF MutInv
  <2>2. CASE n # m
    <3>1. mut'[n] = mut[n] /\ MutInv(n)
      BY <1>3, <2>2 DEF IInv
    <3>. QED  BY <1>4, <1>7, <3>1 DEF MutInv, InFlight
  <2>. QED  BY <2>1, <2>2
<1>16. \A x \in rows' : RowInv(x)'
  BY <1>13
<1>17. \A e \in mem' : EntryInv(e)'
  BY <1>14
<1>. QED  BY <1>6, <1>8, <1>12, <1>15, <1>16, <1>17 DEF IInv

\* The bump raises and the caller hears of it.
LEMMA BumpFailsStep ==
  ASSUME IInv, NEW m \in Mutators, BumpFails(m) PROVE IInv'
<1>1. mut[m] \in MutRecord /\ MutInv(m) /\ kv \in Nat
  BY DEF IInv, ClockInv
<1>2. /\ mut' \in [Mutators -> MutRecord] /\ \A n \in Mutators \ {m} : mut'[n] = mut[n]
      /\ mut'[m].ver = mut[m].ver /\ mut'[m].pc = "idle" /\ mut'[m].reply = "failed"
  BY <1>1 DEF BumpFails, IInv, MutRecord
<1>3. /\ UNCHANGED <<epoch, rows, req, floor, settled, settledEp, ops>>
      /\ kv' = kv /\ mem' = mem
  BY DEF BumpFails
<1>4. MutInv(m)'
  BY <1>1, <1>2, <1>3 DEF MutInv, InFlight
<1>. QED  BY <1>1, <1>2, <1>3, <1>4, MutatorStep

\* Losing cached data, from memory or from the table, costs nothing.
LEMMA ForgetStep ==
  ASSUME IInv, mem' \subseteq mem, rows' \subseteq rows, ops' \in {"idle", "memory_cleared"},
         UNCHANGED <<kv, epoch, req, mut, floor, settled, settledEp>>
  PROVE  IInv'
<1>1. ClockInv'
  BY DEF IInv, ClockInv
<1>2. ASSUME NEW s \in Requests PROVE ReqInv(req[s])'
  BY DEF IInv, ReqInv, ShapeInv, FreshInv, SettledInv
<1>3. \A x \in rows' : RowInv(x)'
  BY DEF IInv, RowInv
<1>4. \A e \in mem' : EntryInv(e)'
  BY DEF IInv, EntryInv
<1>5. ASSUME NEW n \in Mutators PROVE MutInv(n)'
  <2>1. MutInv(n) /\ (mem = {} => mem' = {})
    BY DEF IInv
  <2>. QED  BY <2>1 DEF MutInv, InFlight
<1>. QED  BY <1>1, <1>2, <1>3, <1>4, <1>5 DEF IInv

\* After a restart nobody is in flight and nothing is in memory.
LEMMA RestartStep ==
  ASSUME IInv, Restart PROVE IInv'
<1> DEFINE b == Blank("ask", CHOOSE k \in Keys : TRUE, "idle", 0)
<1>1. b \in ReqRecord /\ ReqInv(b) /\ b.pc = "idle"
  <2>1. ClockInv
    BY DEF IInv
  <2>. QED  BY <2>1, IdleInv
<1> HIDE DEF b
<1>2. req' = [r \in Requests |-> b]
  BY DEF Restart, b
<1>3. ClockInv'
  BY DEF Restart, IInv, ClockInv
<1>4. ASSUME NEW s \in Requests PROVE ReqInv(req[s])'
  <2>1. req'[s] = b
    BY <1>2
  <2>. QED  BY <1>1, <2>1 DEF Restart, ReqInv, ShapeInv, FreshInv, SettledInv
<1>5. \A x \in rows' : RowInv(x)'
  BY DEF Restart, IInv, RowInv
<1>6. \A e \in mem' : EntryInv(e)'
  BY DEF Restart
<1>7. ASSUME NEW n \in Mutators
      PROVE  /\ mut'[n] \in MutRecord /\ mut'[n].ver = mut[n].ver /\ mut'[n].kind = mut[n].kind
             /\ mut'[n].pc = "idle" /\ mut'[n].quiet = FALSE
             /\ mut'[n].reply = "ok" => mut[n].reply = "ok"
  BY DEF Restart, IInv, MutRecord
<1>8. mut' \in [Mutators -> MutRecord]
  BY <1>7 DEF Restart
<1>9. ASSUME NEW n \in Mutators PROVE MutInv(n)'
  <2>1. MutInv(n) /\ kv' = kv /\ floor' = floor /\ epoch' = epoch
    BY DEF IInv, Restart
  <2>. QED  BY <1>7, <2>1 DEF MutInv
<1>10. req' \in [Requests -> ReqRecord]
  BY <1>1, <1>2
<1>. QED  BY <1>3, <1>4, <1>5, <1>6, <1>8, <1>9, <1>10 DEF IInv

-----------------------------------------------------------------------------
(* The inductive invariant.                                                *)

\* It holds when the process has just started over an empty cache.
LEMMA InitInv == Init => IInv
<1> SUFFICES ASSUME Init PROVE IInv
  OBVIOUS
<1>1. ClockInv
  BY DEF Init, ClockInv
<1> DEFINE b == Blank("ask", CHOOSE k \in Keys : TRUE, "idle", 0)
<1>2. b \in ReqRecord /\ ReqInv(b)
  BY <1>1, IdleInv
<1> HIDE DEF b
<1>3. req = [r \in Requests |-> b]
  BY DEF Init, b
<1>4. \A m \in Mutators : mut[m] = [kind |-> "teach", pc |-> "idle", ver |-> 0,
                                    quiet |-> FALSE, reply |-> "none"]
  BY DEF Init
<1>5. mut \in [Mutators -> MutRecord]
  BY DEF Init, MutRecord, MutKinds
<1>6. \A m \in Mutators : MutInv(m)
  BY <1>1, <1>4 DEF MutInv, ClockInv
<1>. QED  BY <1>1, <1>2, <1>3, <1>5, <1>6 DEF IInv, Init

\* Every step of every handler keeps it.
LEMMA HandlerInv ==
  ASSUME IInv, NEW r \in Requests, Handler(r) PROVE IInv'
BY MemExactStep, RetrieveStep, ObviousStep, EmbedStep, MemSemanticStep, ReadEpochStep,
   DbExactStep, WarmSemanticStep, DbSemanticStep, PlanStep, ReactStep, ReactEndsStep,
   SqlMemStoreStep, SqlSemStoreStep, LateEpochStep, DbStoreStep, ExecuteStep,
   AskReembedStep, AskMemStoreStep, FinishStep DEF Handler

\* A step that changes nothing keeps it.
LEMMA StutterInv == IInv /\ UNCHANGED vars => IInv'
<1> SUFFICES ASSUME IInv, UNCHANGED vars PROVE IInv'
  OBVIOUS
<1>. QED  BY ForgetStep DEF vars, IInv, ClockInv

\* The induction step.
LEMMA NextInv == IInv /\ [Next]_vars => IInv'
<1> SUFFICES ASSUME IInv, [Next]_vars PROVE IInv'
  OBVIOUS
<1>1. ASSUME NEW r \in Requests, Arrive(r) \/ Handler(r) \/ AskTimeout(r) PROVE IInv'
  BY <1>1, ArriveStep, HandlerInv, AskTimeoutStep
<1>2. ASSUME NEW m \in Mutators, Mutation(m) PROVE IInv'
  BY <1>2, CommitStep, PlainReplyStep, ClearMemoryStep, BumpStep, BumpFailsStep DEF Mutation
<1>3. CASE OpsClearMemory \/ OpsDeleteRows \/ Expire
  BY <1>3, ForgetStep DEF OpsClearMemory, OpsDeleteRows, Expire, IInv, ClockInv
<1>4. CASE Restart
  BY <1>4, RestartStep
<1>5. CASE UNCHANGED vars
  BY <1>5, StutterInv
<1>. QED  BY <1>1, <1>2, <1>3, <1>4, <1>5 DEF Next

\* Every reachable state of the cache satisfies the inductive invariant: every
\* handler's locals, every row, every memory entry and every mutation are sound.
THEOREM Inductive == Spec => []IInv
BY InitInv, NextInv, PTL DEF Spec

\* Every variable keeps its type (main.py, core/cache.py, db/db.py state).
THEOREM TypesHold == Spec => []TypeOK
<1>1. IInv => TypeOK
  <2> SUFFICES ASSUME IInv PROVE TypeOK
    OBVIOUS
  <2>1. rows \subseteq Row /\ mem \subseteq MemEntry
    BY DEF IInv, RowInv, EntryInv
  <2>. QED  BY <2>1 DEF IInv, ClockInv, TypeOK
<1>. QED  BY <1>1, Inductive, PTL

\* Rows written under an epoch pinned before generating (upsert_query_cache_entry
\* with the cache_epoch read by the lookup) are as fresh as that epoch, however
\* many requests, mutations, failures and restarts interleave.
THEOREM EpochRowsStayFresh == Spec => []EpochRowsFresh
<1>1. IInv => EpochRowsFresh
  BY DEF IInv, RowInv, EpochRowsFresh
<1>. QED  BY <1>1, Inductive, PTL

\* Once a mutation has completed with no question in flight (clear, then bump,
\* in _invalidate_query_caches), no later answer is older, from any layer.
THEOREM TeachingIsRead == Spec => []QuietTeachIsRead
<1>1. IInv => QuietTeachIsRead
  BY DEF IInv, ReqInv, SettledInv, QuietTeachIsRead
<1>. QED  BY <1>1, Inductive, PTL

\* A mutation that invalidates and reports success has moved the epoch past its
\* commit, whatever other mutations run beside it.
THEOREM OkRepliesMovedEpoch == Spec => []OkReplyMovedEpoch
<1>1. IInv => OkReplyMovedEpoch
  BY DEF IInv, MutInv, OkReplyMovedEpoch
<1>. QED  BY <1>1, Inductive, PTL

=============================================================================
