--------------------------- MODULE TeachingProofs ----------------------------
(* Safety of Teaching for any clients, lessons and limits. *)
EXTENDS Teaching, FiniteSetTheorems, SequenceTheorems, TLAPS

-----------------------------------------------------------------------------
(* The inductive invariant.                                                *)

\* A token that is still kept, or not yet issued, has been given to nobody.
Unspent == \A t \in 1..MaxTokens : t \in Tokens \/ t > issued => uses[t] = 0

\* What a request is about to save contradicts no rule it looked at.
Looked ==
    \A c \in Clients : pc[c] = "save" =>
        \A i \in 1..req[c].seen :
            rows[i].active => ~Contradicts(req[c].lesson, rows[i].lesson)

\* A replacement saves only after the old rule is out.
OldOut ==
    \A c \in Clients : pc[c] \in {"save", "invalidate"} /\ req[c].op = "replace" =>
        req[c].target \in 1..Len(rows) /\ ~rows[req[c].target].active

\* Only replacements deactivate; they have looked at no rules.
Replacing == \A c \in Clients :
    pc[c] = "deactivate" => req[c].op = "replace" /\ req[c].seen = 0

\* A row was found to contradict only older ones.
SeenOlder == \A j \in 1..Len(rows) : rows[j].seen < j

\* Requests that may insert without evicting any more.
Inserting == {c \in Clients : \/ pc[c] = "insert"
                              \/ pc[c] = "evict" /\ req[c].overflow = 0}

\* There is room for them, and for one that has counted once it has evicted.
Room ==
    LET n == Cardinality(pending) + Cardinality(Inserting)
        limit == MaxPending + Cardinality(Clients)
    IN  /\ n < limit
        /\ \A c \in Clients : pc[c] = "evict" /\ req[c].overflow # 0 =>
              n + 1 < limit + req[c].overflow

IInv ==
    /\ TypeOK /\ IsFiniteSet(pending)
    /\ Unspent /\ TokenActsOnce
    /\ Room
    /\ Looked /\ SeenOlder /\ NoSilentClash
    /\ OldOut /\ Replacing /\ RepliesTrue

USE ClientsAssumption, LessonsAssumption, MaxPendingAssumption, BoundsAssumption

LEMMA BlankType == Blank \in Request
BY DEF Blank, Request

LEMMA InitInv == ASSUME Init PROVE IInv
<1>1. TypeOK
  <2>1. Tokens = {} BY DEF Init, Tokens
  <2> QED BY <2>1, BlankType DEF Init, TypeOK, Steps, Storing, Blank
<1>2. IsFiniteSet(pending) /\ Cardinality(pending) = 0 BY FS_EmptySet DEF Init
<1>3. Room
  <2>1. Inserting = {} BY DEF Init, Inserting
  <2>2. Cardinality(Clients) \in Nat BY FS_CardinalityType
  <2> QED BY <1>2, <2>1, <2>2, FS_EmptySet DEF Room, Init
<1>4. Unspent /\ TokenActsOnce BY DEF Init, Unspent, TokenActsOnce
<1>5. SeenOlder /\ NoSilentClash BY DEF Init, SeenOlder, NoSilentClash
<1>6. Looked /\ OldOut /\ Replacing /\ RepliesTrue
  BY DEF Init, Looked, OldOut, Replacing, RepliesTrue
<1> QED BY <1>1, <1>2, <1>3, <1>4, <1>5, <1>6 DEF IInv

-----------------------------------------------------------------------------
(* One request moves.                                                      *)

LEMMA Gone ==
    ASSUME TypeOK, NEW c \in Clients, NEW to, NEW r, Go(c, to, r)
    PROVE  /\ pc'[c] = to /\ req'[c] = r
           /\ \A x \in Clients \ {c} : pc'[x] = pc[x] /\ req'[x] = req[x]
BY DEF TypeOK, Go

\* The record and the step of a request fit a table of n rules.
Fits(to, r, n) ==
    /\ to \in Steps /\ r \in Request
    /\ to \in Storing \cup {"deactivate"} => r.target \in 1..n
    /\ to \in Storing \cup {"deactivate", "save"} => r.lesson # NoLesson
    /\ r.seen <= n /\ r.row <= n

\* The parts of TypeOK about requests and about tables.
RequestsType ==
    /\ pc \in [Clients -> Steps]
    /\ req \in [Clients -> Request]
    /\ \A c \in Clients : Fits(pc[c], req[c], Len(rows))

TablesType ==
    /\ rows \in Seq(Row) /\ Len(rows) <= MaxRows
    /\ issued \in 0..MaxTokens
    /\ uses \in [1..MaxTokens -> Nat]
    /\ pending \subseteq Pending
    /\ expired \subseteq Tokens
    /\ \A p \in pending : p.token <= issued /\ p.target <= Len(rows)

LEMMA TypeParts == TypeOK <=> RequestsType /\ TablesType /\ changed \subseteq Clients
BY DEF TypeOK, RequestsType, TablesType, Fits

\* Rules stay, with what they say; none becomes active again.
RowsLast ==
    /\ Len(rows) <= Len(rows')
    /\ \A i \in 1..Len(rows) :
          /\ rows'[i].lesson = rows[i].lesson /\ rows'[i].seen = rows[i].seen
          /\ rows'[i].active => rows[i].active

LEMMA GoType ==
    ASSUME TypeOK, TablesType', Len(rows) <= Len(rows'),
           NEW c \in Clients, NEW to, NEW r, Go(c, to, r), Fits(to, r, Len(rows'))
    PROVE  RequestsType'
<1>1. /\ pc'[c] = to /\ req'[c] = r
      /\ \A x \in Clients \ {c} : pc'[x] = pc[x] /\ req'[x] = req[x]
  BY Gone
<1>2. Len(rows) \in Nat /\ Len(rows') \in Nat BY DEF TypeOK, TablesType
<1>3. \A x \in Clients \ {c} : Fits(pc'[x], req'[x], Len(rows'))
  <2> SUFFICES ASSUME NEW x \in Clients \ {c} PROVE Fits(pc'[x], req'[x], Len(rows'))
    OBVIOUS
  <2>1. req[x] \in Request /\ pc[x] \in Steps BY DEF TypeOK
  <2> QED BY <1>1, <1>2, <2>1 DEF TypeOK, Fits, Request
<1>4. pc' \in [Clients -> Steps] /\ req' \in [Clients -> Request]
  BY DEF TypeOK, Go, Fits
<1> QED BY <1>1, <1>3, <1>4 DEF RequestsType

\* An answered request fits any table.
LEMMA BlankFits == ASSUME NEW n \in Nat PROVE Fits("done", Blank, n)
BY BlankType DEF Fits, Blank, Steps, Storing

\* The records requests move on with.
LEMMA Zero == 0 \in 0..MaxRows
OBVIOUS

LEMMA Asking ==
    ASSUME NEW l \in Lessons, NEW i \in 0..MaxRows, NEW r, r = ToAsk(l, i)
    PROVE  r \in Request /\ r.lesson = l /\ r.target = i /\ r.seen = 0 /\ r.row = 0
<1>1. r \in Request BY BlankType DEF ToAsk, Request
<1>2. r.lesson = l /\ r.target = i /\ r.seen = 0 /\ r.row = 0 BY DEF ToAsk, Blank
<1> QED BY <1>1, <1>2

LEMMA Saving ==
    ASSUME NEW l \in Lessons, NEW n \in 0..MaxRows, NEW r, r = ToSave(l, n)
    PROVE  r \in Request /\ r.op = "teach" /\ r.lesson = l /\ r.seen = n /\ r.row = 0
<1>1. r \in Request BY BlankType DEF ToSave, Request
<1>2. r.op = "teach" /\ r.lesson = l /\ r.seen = n /\ r.row = 0 BY DEF ToSave, Blank
<1> QED BY <1>1, <1>2

LEMMA Finding ==
    ASSUME NEW p \in Pending, NEW op \in {"confirm", "replace"}, NEW r, r = Found(p, op)
    PROVE  r \in Request /\ r.op = op /\ r.lesson = p.lesson /\ r.target = p.target
           /\ r.seen = 0 /\ r.row = 0
<1>1. p.lesson \in Lessons /\ p.target \in 0..MaxRows BY DEF Pending
<1>2. r \in Request BY <1>1, BlankType DEF Found, Request
<1>3. r.op = op /\ r.lesson = p.lesson /\ r.target = p.target /\ r.seen = 0 /\ r.row = 0
  BY DEF Found, Blank
<1> QED BY <1>2, <1>3

LEMMA Stored ==
    ASSUME NEW q \in Request, NEW n \in 0..MaxRows, NEW r,
           r = SavedAs(q, n)
    PROVE  r \in Request /\ r.op = q.op /\ r.lesson = q.lesson /\ r.target = q.target
           /\ r.seen = 0 /\ r.row = n
<1>1. r \in Request BY Zero DEF SavedAs, Request
<1>2. r.op = q.op /\ r.lesson = q.lesson /\ r.target = q.target BY DEF SavedAs, Request
<1>3. r.seen = 0 /\ r.row = n BY DEF SavedAs, Request
<1> QED BY <1>1, <1>2, <1>3

LEMMA Counting ==
    ASSUME NEW q \in Request, NEW n \in Nat, NEW r, r = Counted(q, n)
    PROVE  r \in Request /\ r.lesson = q.lesson /\ r.target = q.target
           /\ r.seen = q.seen /\ r.row = q.row /\ r.overflow = n
<1>1. r \in Request BY DEF Counted, Request
<1>2. r.lesson = q.lesson /\ r.target = q.target /\ r.seen = q.seen /\ r.row = q.row
  BY DEF Counted, Request
<1>3. r.overflow = n BY DEF Counted, Request
<1> QED BY <1>1, <1>2, <1>3

\* A deactivated rule keeps the rest.
LEMMA Deactivated ==
    ASSUME rows \in Seq(Row), NEW i \in 1..Len(rows),
           rows' = [rows EXCEPT ![i].active = FALSE]
    PROVE  /\ rows' \in Seq(Row) /\ Len(rows') = Len(rows)
           /\ RowsLast
           /\ ~rows'[i].active
<1>1. rows[i] \in Row OBVIOUS
<1>2. PICK r : r = [rows[i] EXCEPT !.active = FALSE] OBVIOUS
<1>3. r \in Row BY <1>1, <1>2 DEF Row
<1>4. r.lesson = rows[i].lesson /\ r.seen = rows[i].seen BY <1>1, <1>2 DEF Row
<1>5. r.active = FALSE BY <1>1, <1>2 DEF Row
<1>6. rows' = [rows EXCEPT ![i] = r] BY <1>2
<1>7. rows' \in Seq(Row) /\ Len(rows') = Len(rows)
  <2>1. rows \in [1..Len(rows) -> Row] BY LenProperties
  <2>2. rows' \in [1..Len(rows) -> Row] BY <2>1, <1>3, <1>6
  <2>3. Len(rows) \in Nat /\ DOMAIN rows' = 1..Len(rows) BY <2>2
  <2> QED BY <2>2, <2>3, SeqDef
<1>8. rows'[i] = r /\ \A j \in 1..Len(rows) \ {i} : rows'[j] = rows[j] BY <1>6
<1>9. RowsLast
  <2>1. Len(rows) \in Nat OBVIOUS
  <2> QED BY <1>4, <1>5, <1>7, <1>8, <2>1 DEF RowsLast
<1> QED BY <1>5, <1>7, <1>8, <1>9

LEMMA CountingFits ==
    ASSUME NEW q, NEW m \in Nat, NEW n \in Nat, NEW to \in Storing, NEW from \in Storing,
           Fits(from, q, m)
    PROVE  Fits(to, Counted(q, n), m)
<1>1. PICK r : r = Counted(q, n) OBVIOUS
<1>2. q \in Request BY DEF Fits
<1>3. r \in Request /\ r.lesson = q.lesson /\ r.target = q.target
      /\ r.seen = q.seen /\ r.row = q.row
  BY <1>1, <1>2, Counting
<1> QED BY <1>1, <1>3 DEF Fits, Steps, Storing

LEMMA TypeStep ==
    ASSUME TypeOK, IsFiniteSet(pending), [Next]_vars
    PROVE  TypeOK'
<1> USE DEF TablesType
<1>0. RequestsType /\ TablesType /\ changed \subseteq Clients BY TypeParts
<1>1. Len(rows) \in Nat BY <1>0
<1>2. ASSUME NEW c \in Clients, Handle(c) PROVE TypeOK'
  <2>1. ASSUME NEW l \in Lessons, Teach(c, l) PROVE TypeOK'
    <3>1. TablesType' /\ changed' \subseteq Clients BY <1>0, <2>1 DEF Teach, Tokens
    <3>2. \A i \in Foremost(l) : i \in 1..Len(rows) BY DEF Foremost, Contradicting
    <3>3. \A i \in Foremost(l) :
             Fits("count", ToAsk(l, i), Len(rows))
      <4>1. \A i \in 1..Len(rows) : i \in 0..MaxRows BY <1>0, <1>1
      <4> QED
        <5> SUFFICES ASSUME NEW i \in Foremost(l)
                     PROVE  Fits("count", ToAsk(l, i), Len(rows))
          OBVIOUS
        <5>1. PICK r : r = ToAsk(l, i) OBVIOUS
        <5>2. i \in 1..Len(rows) /\ i \in 0..MaxRows BY <3>2, <4>1
        <5>3. r \in Request /\ r.lesson = l /\ r.target = i /\ r.seen = 0 /\ r.row = 0
          BY <5>1, <5>2, Asking
        <5>4. Fits("count", r, Len(rows)) BY <1>1, <5>2, <5>3 DEF Fits, Steps, Storing
        <5> QED BY <5>1, <5>4
    <3>4. Fits("save", ToSave(l, Len(rows)), Len(rows))
      <4>1. Len(rows) \in 0..MaxRows BY <1>0, <1>1
      <4>2. PICK r : r = ToSave(l, Len(rows)) OBVIOUS
      <4>3. r \in Request /\ r.lesson = l /\ r.seen = Len(rows) /\ r.row = 0
        BY <4>1, <4>2, Saving
      <4>4. Fits("save", r, Len(rows)) BY <1>1, <4>3 DEF Fits, Steps, Storing
      <4> QED BY <4>2, <4>4
    <3>5. RequestsType'
      <4>1. UNCHANGED rows BY <2>1 DEF Teach
      <4>2. PICK to, r : Go(c, to, r) /\ Fits(to, r, Len(rows)) BY <2>1, <3>3, <3>4 DEF Teach
      <4> QED BY <1>1, <4>1, <4>2, <3>1, GoType
    <3> QED BY <3>1, <3>5, TypeParts DEF TypeOK, RequestsType, Fits
  <2>2. ASSUME NEW l \in Lessons, TeachUnchecked(c, l) PROVE TypeOK'
    <3>1. TablesType' /\ changed' \subseteq Clients
      BY <1>0, <2>2 DEF TeachUnchecked, Tokens
    <3>2. Fits("save", ToSave(l, 0), Len(rows))
      <4>1. PICK r : r = ToSave(l, 0) OBVIOUS
      <4>2. r \in Request /\ r.lesson = l /\ r.seen = 0 /\ r.row = 0 BY <4>1, Zero, Saving
      <4>3. Fits("save", r, Len(rows)) BY <1>1, <4>2 DEF Fits, Steps, Storing
      <4> QED BY <4>1, <4>3
    <3>3. RequestsType' BY <1>1, <2>2, <3>1, <3>2, GoType DEF TeachUnchecked
    <3> QED BY <3>1, <3>3 DEF TypeOK, RequestsType, Fits
  <2>3. CASE Count(c) \/ Evict(c)
    <3>1. TablesType' /\ changed' \subseteq Clients BY <1>0, <2>3 DEF Count, Evict, Tokens
    <3>2. PICK from \in Storing, to \in Storing,
               n \in {0, Overflow({p \in pending : p.token \notin expired})} :
             pc[c] = from /\ Go(c, to, Counted(req[c], n))
      BY <2>3 DEF Count, Evict, Storing
    <3>3. n \in Nat
      BY <1>0, <3>2, FS_Subset, FS_CardinalityType DEF Overflow
    <3>4. Fits(to, Counted(req[c], n), Len(rows))
      BY <1>0, <1>1, <3>2, <3>3, CountingFits DEF RequestsType
    <3>5. UNCHANGED rows BY <2>3 DEF Count, Evict
    <3>6. RequestsType' BY <1>1, <3>1, <3>2, <3>4, <3>5, GoType
    <3> QED BY <3>1, <3>6 DEF TypeOK, RequestsType, Fits
  <2>4. CASE Insert(c)
    <3>1. [token |-> issued + 1, lesson |-> req[c].lesson, target |-> req[c].target] \in Pending
      BY <1>0, <1>1, <2>4 DEF Insert, RequestsType, Fits, Request, Pending, Storing
    <3>2. req[c].target <= Len(rows) BY <1>0, <1>1, <2>4 DEF Insert, RequestsType, Fits, Storing
    <3>3. TablesType' /\ changed' \subseteq Clients
      BY <1>0, <1>1, <2>4, <3>1, <3>2 DEF Insert, Tokens, Pending
    <3>4. RequestsType' BY <1>1, <2>4, <3>3, BlankFits, GoType DEF Insert, Answer
    <3> QED BY <3>3, <3>4 DEF TypeOK, RequestsType, Fits
  <2>5. ASSUME NEW t \in 1..issued, NEW op \in {"confirm", "replace", "reject"},
               Confirm(c, t, op)
        PROVE  TypeOK'
    <3>1. TablesType' /\ changed' \subseteq Clients
      <4>1. pending' \subseteq pending /\ expired' \subseteq Tokens'
        BY <1>0, <2>5 DEF Confirm, TakeOut, Tokens
      <4>2. uses' \in [1..MaxTokens -> Nat]
        <5>1. CASE UNCHANGED uses BY <1>0, <5>1
        <5>2. CASE uses' = [uses EXCEPT ![t] = @ + 1] BY <1>0, <5>2
        <5> QED BY <2>5, <5>1, <5>2 DEF Confirm
      <4> QED BY <1>0, <2>5, <4>1, <4>2 DEF Confirm
    <3>2. ASSUME NEW p \in pending, op # "reject"
          PROVE  Fits("save", Found(p, op), Len(rows)) /\ Fits("deactivate", Found(p, op), Len(rows))
      <4>1. p \in Pending /\ p.target <= Len(rows) BY <1>0
      <4>2. p.lesson \in Lessons /\ p.target \in 1..MaxRows BY <4>1 DEF Pending
      <4>3. op \in {"confirm", "replace"} BY <3>2
      <4> QED BY <1>1, <4>1, <4>2, <4>3, Finding DEF Fits, Steps, Storing
    <3>3. RequestsType'
      <4>1. CASE Answer(c) BY <1>1, <2>5, <4>1, <3>1, BlankFits, GoType DEF Answer, Confirm
      <4>2. CASE \E p \in pending : op # "reject" /\
                  \E to \in {"save", "deactivate"} : Go(c, to, Found(p, op))
        BY <1>1, <2>5, <4>2, <3>1, <3>2, GoType DEF Confirm
      <4> QED BY <2>5, <4>1, <4>2 DEF Confirm
    <3> QED BY <3>1, <3>3 DEF TypeOK, RequestsType, Fits
  <2>6. CASE Deactivate(c)
    <3>1. req[c].target \in 1..Len(rows) BY <1>0, <2>6 DEF Deactivate, RequestsType, Fits
    <3>2. rows' \in Seq(Row) /\ Len(rows') = Len(rows) BY <1>0, <2>6, <3>1, Deactivated DEF Deactivate
    <3>3. TablesType' /\ changed' \subseteq Clients
      BY <1>0, <2>6, <3>2 DEF Deactivate, Tokens
    <3>4. Fits("save", req[c], Len(rows)) BY <1>0, <2>6 DEF Deactivate, RequestsType, Fits, Steps
    <3>5. RequestsType' BY <1>1, <2>6, <3>2, <3>3, <3>4, GoType DEF Deactivate
    <3> QED BY <3>3, <3>5 DEF TypeOK, RequestsType, Fits
  <2>7. CASE Save(c)
    <3> DEFINE row == [lesson |-> req[c].lesson, active |-> TRUE,
                       verified |-> req[c].op # "teach" \/ req[c].lesson \in Corrections,
                       seen |-> req[c].seen]
    <3>1. req[c] \in Request /\ req[c].lesson # NoLesson
      BY <1>0, <2>7 DEF Save, RequestsType, Fits
    <3>2. row \in Row BY <3>1 DEF Row, Request
    <3>3. rows' = Append(rows, row) BY <2>7 DEF Save
    <3>4. rows' \in Seq(Row) /\ Len(rows') = Len(rows) + 1
      <4> HIDE DEF row
      <4> QED BY <1>0, <3>2, <3>3
    <3>5. TablesType' /\ changed' \subseteq Clients
      BY <1>0, <1>1, <2>7, <3>4 DEF Save, Tokens, Pending
    <3>6. Fits("invalidate", SavedAs(req[c], Len(rows) + 1), Len(rows) + 1)
      <4>1. Len(rows) + 1 \in 0..MaxRows BY <1>0, <1>1, <2>7 DEF Save
      <4>2. PICK n \in 0..MaxRows : n = Len(rows) + 1 BY <4>1
      <4>3. PICK r : r = SavedAs(req[c], n) OBVIOUS
      <4>4. r \in Request /\ r.seen = 0 /\ r.row = n BY <3>1, <4>3, Stored
      <4>5. Fits("invalidate", r, Len(rows) + 1) BY <1>1, <4>2, <4>4 DEF Fits, Steps, Storing
      <4> QED BY <4>2, <4>3, <4>5
    <3>7. RequestsType' BY <1>1, <2>7, <3>4, <3>5, <3>6, GoType DEF Save
    <3> QED BY <3>5, <3>7 DEF TypeOK, RequestsType, Fits
  <2>8. CASE Invalidate(c)
    <3>1. TablesType' /\ changed' \subseteq Clients BY <1>0, <2>8 DEF Invalidate, Tokens
    <3>2. RequestsType' BY <1>1, <2>8, <3>1, BlankFits, GoType DEF Invalidate, Answer
    <3> QED BY <3>1, <3>2 DEF TypeOK, RequestsType, Fits
  <2>9. CASE Fails(c)
    <3>1. TablesType' /\ changed' \subseteq Clients BY <1>0, <2>9 DEF Fails, Tokens
    <3>2. RequestsType' BY <1>1, <2>9, <3>1, BlankFits, GoType DEF Fails, Answer
    <3> QED BY <3>1, <3>2 DEF TypeOK, RequestsType, Fits
  <2> QED BY <1>2, <2>1, <2>2, <2>3, <2>4, <2>5, <2>6, <2>7, <2>8, <2>9 DEF Handle
<1>3. ASSUME NEW i \in 1..Len(rows), Delete(i) PROVE TypeOK'
  <2>1. rows' \in Seq(Row) /\ Len(rows') = Len(rows) BY <1>0, <1>3, Deactivated DEF Delete
  <2> QED BY <1>0, <1>3, <2>1 DEF TypeOK, Delete, Tokens, RequestsType, Fits
<1>4. ASSUME NEW t \in 1..issued, Expire(t) PROVE TypeOK'
  BY <1>0, <1>4 DEF TypeOK, Expire, Tokens, RequestsType, Fits
<1>5. CASE Cleanup
  BY <1>0, <1>5 DEF TypeOK, Cleanup, Tokens, RequestsType, Fits
<1>6. CASE Restart
  <2>1. \A c \in Clients : Fits("done", Blank, Len(rows)) BY <1>1, BlankFits
  <2>2. pc' \in [Clients -> Steps] /\ req' \in [Clients -> Request]
    BY <1>6, BlankType DEF Restart, Steps
  <2> QED BY <1>0, <1>6, <2>1, <2>2 DEF TypeOK, Restart, Tokens, RequestsType, Fits
<1>7. CASE UNCHANGED vars
  BY <1>0, <1>7 DEF vars, TypeOK, Tokens, RequestsType, Fits
<1> QED BY <1>2, <1>3, <1>4, <1>5, <1>6, <1>7 DEF Next

-----------------------------------------------------------------------------
(* Tokens.                                                                 *)

LEMMA TokensStep ==
    ASSUME TypeOK, Unspent, TokenActsOnce, [Next]_vars
    PROVE  Unspent' /\ TokenActsOnce'
<1>0. /\ issued \in Nat /\ issued <= MaxTokens /\ uses \in [1..MaxTokens -> Nat]
      /\ \A p \in pending : p.token \in 1..issued
  BY DEF TypeOK, Pending
<1>1. CASE UNCHANGED <<issued, uses>> /\ pending' \subseteq pending
  BY <1>0, <1>1 DEF Unspent, TokenActsOnce, Tokens
<1>2. ASSUME NEW c \in Clients, Insert(c) PROVE Unspent' /\ TokenActsOnce'
  <2>1. issued' = issued + 1 /\ uses' = uses BY <1>2 DEF Insert
  <2>2. PICK p : p.token = issued + 1 /\ pending' = pending \cup {p} BY <1>2 DEF Insert
  <2>3. Tokens' = Tokens \cup {issued + 1} BY <2>2 DEF Tokens
  <2> QED BY <1>0, <2>1, <2>3 DEF Unspent, TokenActsOnce
<1>3. ASSUME NEW c \in Clients, NEW t \in 1..issued, NEW op \in {"confirm", "replace", "reject"},
             Confirm(c, t, op)
      PROVE  Unspent' /\ TokenActsOnce'
  <2>1. issued' = issued /\ Tokens' = Tokens \ {t}
    BY <1>3 DEF Confirm, TakeOut, Tokens
  <2>2. CASE UNCHANGED uses BY <1>0, <2>1, <2>2 DEF Unspent, TokenActsOnce
  <2>3. CASE t \in Tokens /\ uses' = [uses EXCEPT ![t] = @ + 1]
    <3>1. t \in 1..MaxTokens /\ uses[t] = 0 BY <1>0, <2>3 DEF Unspent
    <3>2. uses'[t] = uses[t] + 1 BY <1>0, <2>3, <3>1
    <3>3. \A u \in 1..MaxTokens \ {t} : uses'[u] = uses[u] BY <1>0, <2>3, <3>1
    <3> QED BY <1>0, <2>1, <3>1, <3>2, <3>3 DEF Unspent, TokenActsOnce
  <2> QED BY <1>3, <2>2, <2>3 DEF Confirm, Tokens
<1>4. ASSUME NEW c \in Clients, Handle(c),
             ~Insert(c), ~(\E t \in 1..issued, op \in {"confirm", "replace", "reject"} :
                               Confirm(c, t, op))
      PROVE  UNCHANGED <<issued, uses>> /\ pending' \subseteq pending
  BY <1>4 DEF Handle, Teach, TeachUnchecked, Count, Evict, Deactivate, Save, Invalidate, Fails
<1>5. ASSUME NEW i \in 1..Len(rows), Delete(i)
      PROVE  UNCHANGED <<issued, uses>> /\ pending' \subseteq pending
  BY <1>5 DEF Delete
<1>6. ASSUME NEW t \in 1..issued, Expire(t)
      PROVE  UNCHANGED <<issued, uses>> /\ pending' \subseteq pending
  BY <1>6 DEF Expire
<1>7. Cleanup \/ Restart \/ UNCHANGED vars
        => UNCHANGED <<issued, uses>> /\ pending' \subseteq pending
  BY DEF Cleanup, Restart, vars
<1> QED BY <1>1, <1>2, <1>3, <1>4, <1>5, <1>6, <1>7 DEF Next

-----------------------------------------------------------------------------
(* The size of the table of pending confirmations.                         *)

\* What an eviction leaves.
LEMMA Evicted ==
    ASSUME IsFiniteSet(pending), NEW c \in Clients, Evict(c), req[c].overflow \in Nat
    PROVE  /\ IsFiniteSet(pending')
           /\ IF req[c].overflow <= Cardinality(pending)
              THEN Cardinality(pending') = Cardinality(pending) - req[c].overflow
              ELSE Cardinality(pending') = 0
<1>1. PICK gone \in SUBSET pending : Oldest(gone, req[c].overflow) /\ pending' = pending \ gone
  BY DEF Evict
<1>2. /\ IsFiniteSet(pending \ gone)
      /\ Cardinality(pending \ gone) = Cardinality(pending) - Cardinality(pending \cap gone)
  BY FS_Difference
<1>3. pending \cap gone = gone OBVIOUS
<1>4. Cardinality(pending) \in Nat BY FS_CardinalityType
<1>5. Cardinality(pending') = Cardinality(pending) - Cardinality(gone) BY <1>1, <1>2, <1>3
<1>6. Cardinality(gone) = IF req[c].overflow <= Cardinality(pending)
                          THEN req[c].overflow ELSE Cardinality(pending)
  BY <1>1 DEF Oldest
<1> QED BY <1>1, <1>2, <1>4, <1>5, <1>6

\* A step that leaves the sum and the other counts as they are keeps the room.
LEMMA RoomKept ==
    ASSUME TypeOK, Room,
           Cardinality(pending) + Cardinality(Inserting) \in Nat,
           Cardinality(pending') + Cardinality(Inserting') \in Nat,
           Cardinality(pending') + Cardinality(Inserting')
               <= Cardinality(pending) + Cardinality(Inserting),
           \A x \in Clients : pc'[x] = "evict" => pc[x] = "evict" /\ req'[x] = req[x]
    PROVE  Room'
<1>1. Cardinality(Clients) \in Nat BY FS_CardinalityType
<1>2. \A x \in Clients : req[x].overflow \in Nat BY DEF TypeOK, Request
<1> QED BY <1>1, <1>2 DEF Room

LEMMA RoomStep ==
    ASSUME TypeOK, IsFiniteSet(pending), Room, [Next]_vars
    PROVE  IsFiniteSet(pending') /\ Room'
<1> DEFINE n == Cardinality(Clients)
           p == Cardinality(pending)
           w == Cardinality(Inserting)
<1>0. /\ IsFiniteSet(Inserting) /\ w \in Nat /\ n \in Nat /\ p \in Nat
      /\ \A x \in Clients : req[x] \in Request /\ req[x].overflow \in Nat
  BY FS_Subset, FS_CardinalityType DEF Inserting, TypeOK, Request
<1>1. /\ p + w < MaxPending + n
      /\ \A x \in Clients : pc[x] = "evict" /\ req[x].overflow # 0 =>
            p + w + 1 < MaxPending + n + req[x].overflow
  BY DEF Room
<1>2. /\ IsFiniteSet(Inserting') /\ Cardinality(Inserting') \in Nat
      /\ Cardinality(Inserting') <= n
  BY FS_Subset, FS_CardinalityType DEF Inserting
<1>3. ASSUME NEW c \in Clients, c \notin Inserting' PROVE Cardinality(Inserting') + 1 <= n
  <2>1. Inserting' \subseteq Clients \ {c} BY <1>3 DEF Inserting
  <2>2. IsFiniteSet(Clients \ {c}) /\ Cardinality(Clients \ {c}) = n - 1
    BY FS_RemoveElement
  <2>3. Cardinality(Inserting') <= Cardinality(Clients \ {c}) BY <2>1, <2>2, FS_Subset
  <2> QED BY <1>0, <1>2, <2>2, <2>3
<1>4. ASSUME pending' \subseteq pending, Inserting' \subseteq Inserting,
             \A x \in Clients : pc'[x] = "evict" => pc[x] = "evict" /\ req'[x] = req[x]
      PROVE  IsFiniteSet(pending') /\ Room'
  <2>1. /\ IsFiniteSet(pending') /\ Cardinality(pending') <= p
        /\ Cardinality(Inserting') <= w
    BY <1>0, <1>4, FS_Subset
  <2>2. Cardinality(pending') \in Nat BY <2>1, FS_CardinalityType
  <2> QED BY <1>0, <1>2, <1>4, <2>1, <2>2, RoomKept
<1>5. ASSUME NEW c \in Clients, Count(c) PROVE IsFiniteSet(pending') /\ Room'
  <2>1. /\ pending' \subseteq pending
        /\ pc[c] = "count" /\ pc'[c] = "evict" /\ req'[c] = Counted(req[c], Overflow(pending'))
        /\ \A x \in Clients \ {c} : pc'[x] = pc[x] /\ req'[x] = req[x]
    BY <1>5, Gone DEF Count
  <2>2. /\ IsFiniteSet(pending') /\ Cardinality(pending') <= p /\ Cardinality(pending') \in Nat
    BY <2>1, FS_Subset, FS_CardinalityType
  <2> DEFINE over == Overflow(pending')
  <2>3. over \in Nat /\ Cardinality(pending') + 1 <= MaxPending + over
    BY <2>2 DEF Overflow
  <2>4. req'[c].overflow = over
    <3>1. req[c] \in Request BY <1>0
    <3>2. PICK q \in Request, m \in Nat : q = req[c] /\ m = over BY <2>3, <3>1
    <3>3. PICK r : r = Counted(q, m) OBVIOUS
    <3>4. r.overflow = m BY <3>3, Counting
    <3> QED BY <2>1, <3>2, <3>3, <3>4
  <2>5. c \notin Inserting BY <2>1 DEF Inserting
  <2> HIDE DEF over
  <2>6. CASE over = 0
    <3>1. Cardinality(pending') + Cardinality(Inserting') < MaxPending + n
      BY <1>0, <1>2, <2>2, <2>3, <2>6
    <3>2. ASSUME NEW x \in Clients, pc'[x] = "evict", req'[x].overflow # 0
          PROVE  Cardinality(pending') + Cardinality(Inserting') + 1
                     < MaxPending + n + req'[x].overflow
      <4>1. x # c BY <2>4, <2>6, <3>2
      <4>2. req'[x].overflow \in Nat BY <1>0, <2>1, <4>1
      <4>3. x \notin Inserting' BY <3>2 DEF Inserting
      <4> QED BY <1>0, <1>2, <1>3, <2>2, <2>3, <2>6, <3>2, <4>2, <4>3
    <3> QED BY <2>2, <3>1, <3>2 DEF Room
  <2>7. CASE over # 0
    <3>1. Inserting' = Inserting BY <2>1, <2>4, <2>5, <2>7 DEF Inserting
    <3>2. w + 1 <= n BY <1>3, <2>5, <3>1
    <3>3. ASSUME NEW x \in Clients, pc'[x] = "evict", req'[x].overflow # 0
          PROVE  Cardinality(pending') + Cardinality(Inserting') + 1
                     < MaxPending + n + req'[x].overflow
      <4>1. CASE x = c BY <1>0, <2>2, <2>3, <2>4, <3>1, <3>2, <4>1
      <4>2. CASE x # c BY <1>0, <1>1, <2>1, <2>2, <3>1, <3>3, <4>2
      <4> QED BY <4>1, <4>2
    <3>4. Cardinality(pending') + Cardinality(Inserting') < MaxPending + n
      BY <1>0, <1>1, <2>2, <3>1
    <3> QED BY <2>2, <3>3, <3>4 DEF Room
  <2> QED BY <2>6, <2>7
<1>6. ASSUME NEW c \in Clients, Evict(c) PROVE IsFiniteSet(pending') /\ Room'
  <2> DEFINE over == req[c].overflow
  <2>1. /\ pc[c] = "evict" /\ pc'[c] = "insert"
        /\ \A x \in Clients \ {c} : pc'[x] = pc[x] /\ req'[x] = req[x]
    BY <1>6, Gone DEF Evict
  <2>2. over \in Nat BY <1>0
  <2>3. /\ IsFiniteSet(pending')
        /\ IF over <= p THEN Cardinality(pending') = p - over ELSE Cardinality(pending') = 0
    BY <1>6, <2>2, Evicted
  <2>4. Cardinality(pending') \in Nat BY <2>3, FS_CardinalityType
  <2>5. CASE over = 0
    <3>1. Inserting' = Inserting BY <2>1, <2>5 DEF Inserting
    <3>2. Cardinality(pending') = p BY <1>0, <2>3, <2>5
    <3>3. \A x \in Clients : pc'[x] = "evict" => pc[x] = "evict" /\ req'[x] = req[x] BY <2>1
    <3> QED BY <1>0, <2>3, <3>1, <3>2, <3>3, RoomKept
  <2>6. CASE over # 0
    <3>1. Inserting' = Inserting \cup {c} /\ c \notin Inserting BY <2>1, <2>6 DEF Inserting
    <3>2. Cardinality(Inserting') = w + 1 BY <1>0, <3>1, FS_AddElement
    <3>3. p + w + 1 < MaxPending + n + over BY <1>1, <2>1, <2>6
    <3>4. Cardinality(pending') + Cardinality(Inserting') < MaxPending + n
      BY <1>0, <1>2, <2>2, <2>3, <3>2, <3>3
    <3>5. ASSUME NEW x \in Clients, pc'[x] = "evict", req'[x].overflow # 0
          PROVE  Cardinality(pending') + Cardinality(Inserting') + 1
                     < MaxPending + n + req'[x].overflow
      <4>1. x # c /\ req'[x].overflow \in Nat BY <1>0, <2>1, <3>5
      <4> QED BY <1>0, <1>2, <2>4, <3>4, <3>5, <4>1
    <3> QED BY <2>3, <3>4, <3>5 DEF Room
  <2> QED BY <2>5, <2>6
<1>7. ASSUME NEW c \in Clients, Insert(c) PROVE IsFiniteSet(pending') /\ Room'
  <2>1. PICK new : pending' = pending \cup {new} BY <1>7 DEF Insert
  <2>2. /\ IsFiniteSet(pending') /\ Cardinality(pending') \in Nat
        /\ Cardinality(pending') <= p + 1
    <3>1. /\ IsFiniteSet(pending \cup {new})
          /\ \/ Cardinality(pending \cup {new}) = Cardinality(pending)
             \/ Cardinality(pending \cup {new}) = Cardinality(pending) + 1
      BY FS_AddElement
    <3> QED BY <1>0, <2>1, <3>1
  <2>3. /\ pc[c] = "insert" /\ pc'[c] = "done"
        /\ \A x \in Clients \ {c} : pc'[x] = pc[x] /\ req'[x] = req[x]
    BY <1>7, Gone DEF Insert, Answer
  <2>4. c \in Inserting /\ Inserting' = Inserting \ {c} BY <2>3 DEF Inserting
  <2>5. Cardinality(Inserting') = w - 1 BY <1>0, <2>4, FS_RemoveElement
  <2>6. \A x \in Clients : pc'[x] = "evict" => pc[x] = "evict" /\ req'[x] = req[x] BY <2>3
  <2> QED BY <1>0, <1>2, <2>2, <2>5, <2>6, RoomKept
<1>8. ASSUME NEW c \in Clients, Handle(c), ~Count(c), ~Evict(c), ~Insert(c)
      PROVE  /\ pending' \subseteq pending /\ Inserting' \subseteq Inserting
             /\ \A x \in Clients : pc'[x] = "evict" => pc[x] = "evict" /\ req'[x] = req[x]
  <2>1. pending' \subseteq pending
    BY <1>8 DEF Handle, Teach, TeachUnchecked, Confirm, TakeOut, Deactivate, Save,
                Invalidate, Fails
  <2>2. \E to \in Steps \ {"evict", "insert"} : \E r : Go(c, to, r)
    BY <1>8 DEF Handle, Teach, TeachUnchecked, Confirm, Deactivate, Save,
                Invalidate, Fails, Answer, Steps, Storing
  <2>3. /\ pc'[c] \notin {"evict", "insert"}
        /\ \A x \in Clients \ {c} : pc'[x] = pc[x] /\ req'[x] = req[x]
    BY <2>2, Gone
  <2> QED BY <2>1, <2>3 DEF Inserting
<1>9. ASSUME NEW i \in 1..Len(rows), Delete(i)
      PROVE  pending' \subseteq pending /\ UNCHANGED <<pc, req>>
  BY <1>9 DEF Delete
<1>10. ASSUME NEW t \in 1..issued, Expire(t)
       PROVE  pending' \subseteq pending /\ UNCHANGED <<pc, req>>
  BY <1>10 DEF Expire
<1>11. Cleanup \/ UNCHANGED vars => pending' \subseteq pending /\ UNCHANGED <<pc, req>>
  BY DEF Cleanup, vars
<1>12. CASE pending' \subseteq pending /\ UNCHANGED <<pc, req>>
  BY <1>4, <1>12 DEF Inserting
<1>13. CASE Restart BY <1>4, <1>13 DEF Restart, Inserting
<1> QED BY <1>4, <1>5, <1>6, <1>7, <1>8, <1>9, <1>10, <1>11, <1>12, <1>13 DEF Next

-----------------------------------------------------------------------------
(* Rules.                                                                  *)

LEMMA RowsStep == ASSUME TypeOK, [Next]_vars PROVE RowsLast
<1>0. rows \in Seq(Row) /\ Len(rows) \in Nat BY DEF TypeOK
<1>1. CASE UNCHANGED rows BY <1>0, <1>1 DEF RowsLast
<1>2. ASSUME NEW c \in Clients, Save(c) PROVE RowsLast
  <2>1. PICK r : rows' = Append(rows, r) BY <1>2 DEF Save
  <2>2. Len(rows') = Len(rows) + 1 /\ \A i \in 1..Len(rows) : rows'[i] = rows[i]
    BY <1>0, <2>1, AppendProperties
  <2> QED BY <1>0, <2>2 DEF RowsLast
<1>3. ASSUME NEW c \in Clients, Deactivate(c) PROVE RowsLast
  <2>1. req[c].target \in 1..Len(rows) BY <1>3 DEF TypeOK, Deactivate
  <2> QED BY <1>0, <1>3, <2>1, Deactivated DEF Deactivate
<1>4. ASSUME NEW i \in 1..Len(rows), Delete(i) PROVE RowsLast
  BY <1>0, <1>4, Deactivated DEF Delete
<1>5. ASSUME NEW c \in Clients, Handle(c), ~Save(c), ~Deactivate(c) PROVE UNCHANGED rows
  BY <1>5 DEF Handle, Teach, TeachUnchecked, Count, Evict, Insert, Confirm, Invalidate, Fails
<1>6. ASSUME NEW t \in 1..issued, Expire(t) PROVE UNCHANGED rows BY <1>6 DEF Expire
<1>7. Cleanup \/ Restart \/ UNCHANGED vars => UNCHANGED rows BY DEF Cleanup, Restart, vars
<1> QED BY <1>1, <1>2, <1>3, <1>4, <1>5, <1>6, <1>7 DEF Next

\* What a step does for request x: nothing, or it brings it to a step where
\* nothing is claimed of its record, or it is one of these.
Rests(x) == pc'[x] = pc[x] /\ req'[x] = req[x]
Leaves(x) == pc'[x] \notin {"deactivate", "save", "invalidate"}
Looks(x) ==
    /\ pc'[x] = "save" /\ req'[x].op = "teach"
    /\ UNCHANGED rows
    /\ req'[x].seen # 0 => Contradicting(req'[x].lesson) = {} /\ req'[x].seen = Len(rows)
Takes(x) ==
    /\ UNCHANGED rows /\ req'[x].seen = 0
    /\ \/ pc'[x] = "save" /\ req'[x].op = "confirm"
       \/ pc'[x] = "deactivate" /\ req'[x].op = "replace"
Puts(x) ==
    /\ Save(x) /\ pc'[x] = "invalidate"
    /\ req'[x] = SavedAs(req[x], Len(rows) + 1)
Outs(x) == Deactivate(x) /\ pc'[x] = "save" /\ req'[x] = req[x]

LEMMA Moves ==
    ASSUME TypeOK, [Next]_vars, NEW x \in Clients
    PROVE  Rests(x) \/ Leaves(x) \/ Looks(x) \/ Takes(x) \/ Puts(x) \/ Outs(x)
<1>0. rows \in Seq(Row) /\ Len(rows) \in 0..MaxRows BY DEF TypeOK
<1>1. ASSUME NEW c \in Clients \ {x}, Handle(c) PROVE Rests(x)
  <2>1. \E to, r : Go(c, to, r)
    BY <1>1 DEF Handle, Teach, TeachUnchecked, Count, Evict, Insert, Confirm, Deactivate, Save,
                Invalidate, Fails, Answer
  <2> QED BY <2>1, Gone DEF Rests
<1>2. ASSUME NEW l \in Lessons, Teach(x, l) PROVE Looks(x) \/ Leaves(x)
  <2>1. CASE \E r : Go(x, "count", r) BY <2>1, Gone DEF Leaves
  <2>2. CASE Contradicting(l) = {} /\ Go(x, "save", ToSave(l, Len(rows)))
    <3>1. PICK r : r = ToSave(l, Len(rows)) OBVIOUS
    <3>2. r.op = "teach" /\ r.lesson = l /\ r.seen = Len(rows) BY <1>0, <3>1, Saving
    <3>3. pc'[x] = "save" /\ req'[x] = r BY <2>2, <3>1, Gone
    <3> QED BY <1>2, <2>2, <3>2, <3>3 DEF Looks, Teach
  <2> QED BY <1>2, <2>1, <2>2 DEF Teach
<1>3. ASSUME NEW l \in Lessons, TeachUnchecked(x, l) PROVE Looks(x)
  <2>1. PICK r : r = ToSave(l, 0) OBVIOUS
  <2>2. r.op = "teach" /\ r.seen = 0 BY <2>1, Zero, Saving
  <2>3. pc'[x] = "save" /\ req'[x] = r BY <1>3, <2>1, Gone DEF TeachUnchecked
  <2> QED BY <1>3, <2>2, <2>3 DEF Looks, TeachUnchecked
<1>4. CASE Count(x) \/ Evict(x) \/ Insert(x) \/ Invalidate(x) \/ Fails(x)
  <2>1. \E to \in {"evict", "insert", "done"} : \E r : Go(x, to, r)
    BY <1>4 DEF Count, Evict, Insert, Invalidate, Fails, Answer
  <2> QED BY <2>1, Gone DEF Leaves
<1>5. ASSUME NEW t \in 1..issued, NEW op \in {"confirm", "replace", "reject"}, Confirm(x, t, op)
      PROVE  Takes(x) \/ Leaves(x)
  <2>1. CASE Answer(x) BY <2>1, Gone DEF Answer, Leaves
  <2>2. ASSUME NEW p \in pending, op # "reject",
               Go(x, IF op = "confirm" THEN "save" ELSE "deactivate", Found(p, op))
        PROVE  Takes(x)
    <3>1. PICK r : r = Found(p, op) OBVIOUS
    <3>2. p \in Pending /\ op \in {"confirm", "replace"} BY <2>2 DEF TypeOK
    <3>3. r.op = op /\ r.seen = 0 BY <3>1, <3>2, Finding
    <3>4. pc'[x] = (IF op = "confirm" THEN "save" ELSE "deactivate") /\ req'[x] = r
      BY <2>2, <3>1, Gone
    <3>5. UNCHANGED rows BY <1>5 DEF Confirm
    <3> QED BY <3>2, <3>3, <3>4, <3>5 DEF Takes
  <2> QED BY <1>5, <2>1, <2>2 DEF Confirm
<1>6. ASSUME Deactivate(x) PROVE Outs(x) BY <1>6, Gone DEF Deactivate, Outs
<1>7. ASSUME Save(x) PROVE Puts(x) BY <1>7, Gone DEF Save, Puts
<1>8. ASSUME NEW i \in 1..Len(rows), Delete(i) PROVE Rests(x) BY <1>8 DEF Delete, Rests
<1>9. ASSUME NEW t \in 1..issued, Expire(t) PROVE Rests(x) BY <1>9 DEF Expire, Rests
<1>10. Cleanup \/ Restart \/ UNCHANGED vars => Rests(x) \/ Leaves(x)
  BY DEF Cleanup, Restart, vars, Rests, Leaves
<1> QED BY <1>1, <1>2, <1>3, <1>4, <1>5, <1>6, <1>7, <1>8, <1>9, <1>10 DEF Next, Handle

\* A saved rule is the last one.
LEMMA PutRow ==
    ASSUME TypeOK, NEW c \in Clients, Save(c)
    PROVE  /\ Len(rows') = Len(rows) + 1
           /\ \A i \in 1..Len(rows) : rows'[i] = rows[i]
           /\ rows'[Len(rows')].lesson = req[c].lesson
           /\ rows'[Len(rows')].seen = req[c].seen
<1>1. rows \in Seq(Row) BY DEF TypeOK
<1>2. PICK r : /\ rows' = Append(rows, r)
               /\ r.lesson = req[c].lesson /\ r.seen = req[c].seen
  BY DEF Save
<1>3. /\ Len(rows') = Len(rows) + 1
      /\ \A i \in 1..Len(rows) : rows'[i] = rows[i]
      /\ rows'[Len(rows) + 1] = r
  BY <1>1, <1>2, AppendProperties
<1> QED BY <1>2, <1>3

\* A step that saves nothing adds no rule.
LEMMA NoRow ==
    ASSUME TypeOK, [Next]_vars, \A c \in Clients : ~Save(c)
    PROVE  Len(rows') = Len(rows)
<1>0. rows \in Seq(Row) BY DEF TypeOK
<1>1. ASSUME NEW c \in Clients, Deactivate(c) PROVE Len(rows') = Len(rows)
  <2>1. req[c].target \in 1..Len(rows) BY <1>1 DEF TypeOK, Deactivate
  <2> QED BY <1>0, <1>1, <2>1, Deactivated DEF Deactivate
<1>2. ASSUME NEW i \in 1..Len(rows), Delete(i) PROVE Len(rows') = Len(rows)
  BY <1>0, <1>2, Deactivated DEF Delete
<1>3. ASSUME NEW c \in Clients, Handle(c), ~Deactivate(c) PROVE UNCHANGED rows
  BY <1>3 DEF Handle, Teach, TeachUnchecked, Count, Evict, Insert, Confirm, Invalidate, Fails
<1>4. ASSUME NEW t \in 1..issued, Expire(t) PROVE UNCHANGED rows BY <1>4 DEF Expire
<1>5. Cleanup \/ Restart \/ UNCHANGED vars => UNCHANGED rows BY DEF Cleanup, Restart, vars
<1> QED BY <1>1, <1>2, <1>3, <1>4, <1>5 DEF Next

LEMMA LookedStep ==
    ASSUME TypeOK, TypeOK', Looked, Replacing, [Next]_vars
    PROVE  Looked' /\ Replacing'
<1>0. Len(rows) \in Nat /\ RowsLast BY RowsStep DEF TypeOK
<1>1. ASSUME NEW x \in Clients, pc'[x] = "save", NEW i \in 1..req'[x].seen, rows'[i].active
      PROVE  ~Contradicts(req'[x].lesson, rows'[i].lesson)
  <2>1. req[x].seen \in 0..Len(rows) BY <1>0 DEF TypeOK, Request
  <2>2. CASE Rests(x)
    <3>1. i \in 1..Len(rows) /\ rows[i].active /\ rows'[i].lesson = rows[i].lesson
      BY <1>0, <1>1, <2>1, <2>2 DEF Rests, RowsLast
    <3> QED BY <1>1, <2>2, <3>1 DEF Rests, Looked
  <2>3. CASE Looks(x)
    <3>1. Contradicting(req'[x].lesson) = {} /\ i \in 1..Len(rows) /\ rows' = rows
      BY <1>0, <1>1, <2>3 DEF Looks
    <3> QED BY <1>1, <3>1 DEF Contradicting
  <2>4. CASE Takes(x) BY <1>1, <2>4 DEF Takes
  <2>5. CASE Outs(x)
    <3>1. req'[x].seen = 0 BY <2>5 DEF Outs, Deactivate, Replacing
    <3> QED BY <1>1, <3>1
  <2>6. ~Puts(x) /\ ~Leaves(x) BY <1>1 DEF Puts, Leaves
  <2> QED BY <2>2, <2>3, <2>4, <2>5, <2>6, Moves
<1>2. ASSUME NEW x \in Clients, pc'[x] = "deactivate"
      PROVE  req'[x].op = "replace" /\ req'[x].seen = 0
  <2>1. Rests(x) \/ Takes(x)
    BY <1>2, Moves DEF Leaves, Looks, Puts, Outs
  <2> QED BY <1>2, <2>1 DEF Rests, Takes, Replacing
<1> QED BY <1>1, <1>2 DEF Looked, Replacing

LEMMA ClashStep ==
    ASSUME TypeOK, TypeOK', Looked, SeenOlder, NoSilentClash, [Next]_vars
    PROVE  SeenOlder' /\ NoSilentClash'
<1> DEFINE n == Len(rows)
<1>0. n \in Nat /\ rows \in Seq(Row) /\ RowsLast BY RowsStep DEF TypeOK
<1>1. \A j \in 1..n : rows'[j].seen < j BY <1>0 DEF RowsLast, SeenOlder
<1>2. ASSUME NEW j \in 1..n, NEW i \in 1..n, i <= rows'[j].seen, rows'[i].active, rows'[j].active
      PROVE  ~Contradicts(rows'[j].lesson, rows'[i].lesson)
  BY <1>0, <1>2 DEF RowsLast, NoSilentClash
<1>3. CASE \A c \in Clients : ~Save(c)
  <2>1. Len(rows') = n BY <1>3, NoRow
  <2> QED BY <1>1, <1>2, <2>1 DEF SeenOlder, NoSilentClash
<1>4. ASSUME NEW c \in Clients, Save(c) PROVE SeenOlder' /\ NoSilentClash'
  <2>1. /\ Len(rows') = n + 1
        /\ \A i \in 1..n : rows'[i] = rows[i]
        /\ rows'[n + 1].lesson = req[c].lesson
        /\ rows'[n + 1].seen = req[c].seen
    BY <1>4, PutRow
  <2>2. req[c].seen \in 0..n BY <1>0 DEF TypeOK, Request
  <2>3. SeenOlder' BY <1>0, <1>1, <2>1, <2>2 DEF SeenOlder
  <2>4. ASSUME NEW j \in 1..(n + 1), NEW i \in 1..(n + 1),
               i <= rows'[j].seen, rows'[i].active, rows'[j].active
        PROVE  ~Contradicts(rows'[j].lesson, rows'[i].lesson)
    <3>1. rows'[j].seen < j BY <2>1, <2>3, <2>4 DEF SeenOlder
    <3>2. CASE j = n + 1
      <4>1. i \in 1..req[c].seen /\ i \in 1..n BY <1>0, <2>1, <2>2, <2>4, <3>2
      <4>2. rows[i].active /\ rows'[i] = rows[i] BY <2>1, <2>4, <4>1
      <4>3. ~Contradicts(req[c].lesson, rows[i].lesson)
        BY <1>4, <4>1, <4>2 DEF Looked, Save
      <4> QED BY <2>1, <3>2, <4>2, <4>3
    <3>3. CASE j # n + 1
      <4>1. rows'[j].seen \in Nat
        <5>1. rows[j] \in Row /\ rows'[j] = rows[j] BY <1>0, <2>1, <3>3
        <5> QED BY <5>1 DEF Row
      <4>2. j \in 1..n /\ i \in 1..n BY <1>0, <2>4, <3>1, <3>3, <4>1
      <4> QED BY <1>2, <2>4, <4>2
    <3> QED BY <3>2, <3>3
  <2> QED BY <2>1, <2>3, <2>4 DEF NoSilentClash
<1> QED BY <1>3, <1>4

LEMMA RepliesStep ==
    ASSUME TypeOK, OldOut, Replacing, RepliesTrue, [Next]_vars
    PROVE  OldOut' /\ RepliesTrue'
<1>0. Len(rows) \in Nat /\ rows \in Seq(Row) /\ RowsLast BY RowsStep DEF TypeOK
<1>1. ASSUME NEW x \in Clients, pc'[x] \in {"save", "invalidate"}, req'[x].op = "replace"
      PROVE  req'[x].target \in 1..Len(rows') /\ ~rows'[req'[x].target].active
  <2>1. CASE Rests(x) BY <1>0, <1>1, <2>1 DEF Rests, OldOut, RowsLast
  <2>2. CASE Puts(x)
    <3>1. req[x] \in Request /\ Len(rows) + 1 \in 0..MaxRows
      BY <1>0, <2>2 DEF TypeOK, Puts, Save
    <3>2. PICK m \in 0..MaxRows, q \in Request : m = Len(rows) + 1 /\ q = req[x] BY <3>1
    <3>3. req'[x].op = req[x].op /\ req'[x].target = req[x].target
      <4>1. PICK r : r = SavedAs(q, m) OBVIOUS
      <4>2. req'[x] = r BY <2>2, <3>2, <4>1 DEF Puts
      <4>3. r.op = q.op /\ r.target = q.target BY <4>1, Stored
      <4> QED BY <3>2, <4>2, <4>3
    <3> QED BY <1>0, <1>1, <2>2, <3>3 DEF Puts, Save, OldOut, RowsLast
  <2>3. CASE Outs(x)
    <3>1. req[x].target \in 1..Len(rows) BY <2>3 DEF TypeOK, Outs, Deactivate
    <3>2. ~rows'[req[x].target].active BY <1>0, <2>3, <3>1, Deactivated DEF Outs, Deactivate
    <3> QED BY <1>0, <2>3, <3>1, <3>2 DEF Outs, RowsLast
  <2>4. ~Leaves(x) /\ ~Looks(x) /\ ~Takes(x) BY <1>1 DEF Leaves, Looks, Takes
  <2> QED BY <2>1, <2>2, <2>3, <2>4, Moves
<1>2. ASSUME NEW x \in Clients, pc'[x] = "invalidate"
      PROVE  req'[x].row \in 1..Len(rows') /\ rows'[req'[x].row].lesson = req'[x].lesson
  <2>1. CASE Rests(x)
    <3>1. req[x].row \in 1..Len(rows) /\ rows[req[x].row].lesson = req[x].lesson
      BY <1>2, <2>1 DEF Rests, RepliesTrue
    <3> QED BY <1>0, <2>1, <3>1 DEF Rests, RowsLast
  <2>2. CASE Puts(x)
    <3>1. req[x] \in Request /\ Len(rows) + 1 \in 0..MaxRows
      BY <1>0, <2>2 DEF TypeOK, Puts, Save
    <3>2. PICK m \in 0..MaxRows, q \in Request : m = Len(rows) + 1 /\ q = req[x] BY <3>1
    <3>3. req'[x].row = Len(rows) + 1 /\ req'[x].lesson = req[x].lesson
      <4>1. PICK r : r = SavedAs(q, m) OBVIOUS
      <4>2. req'[x] = r BY <2>2, <3>2, <4>1 DEF Puts
      <4>3. r.row = m /\ r.lesson = q.lesson BY <4>1, Stored
      <4> QED BY <3>2, <4>2, <4>3
    <3>4. Len(rows') = Len(rows) + 1 /\ rows'[Len(rows')].lesson = req[x].lesson
      BY <2>2, PutRow DEF Puts
    <3> QED BY <1>0, <3>3, <3>4
  <2>3. ~Leaves(x) /\ ~Looks(x) /\ ~Takes(x) /\ ~Outs(x)
    BY <1>2 DEF Leaves, Looks, Takes, Outs
  <2> QED BY <2>1, <2>2, <2>3, Moves
<1> QED BY <1>1, <1>2 DEF OldOut, RepliesTrue

-----------------------------------------------------------------------------
(* The theorems.                                                           *)

LEMMA Inductive == Spec => []IInv
<1>1. Init => IInv BY InitInv
<1>2. IInv /\ [Next]_vars => IInv'
  <2> SUFFICES ASSUME IInv, [Next]_vars PROVE IInv'
    OBVIOUS
  <2>1. TypeOK' BY TypeStep DEF IInv
  <2>2. Unspent' /\ TokenActsOnce' BY TokensStep DEF IInv
  <2>3. IsFiniteSet(pending)' /\ Room' BY RoomStep DEF IInv
  <2>4. Looked' /\ Replacing' BY <2>1, LookedStep DEF IInv
  <2>5. SeenOlder' /\ NoSilentClash' BY <2>1, ClashStep DEF IInv
  <2>6. OldOut' /\ RepliesTrue' BY RepliesStep DEF IInv
  <2> QED BY <2>1, <2>2, <2>3, <2>4, <2>5, <2>6 DEF IInv
<1> QED BY <1>1, <1>2, PTL DEF Spec

\* Requests, tables and tokens stay well formed; ids that are kept are rows.
THEOREM TypesHold == Spec => []TypeOK
<1>1. IInv => TypeOK BY DEF IInv
<1> QED BY <1>1, Inductive, PTL

\* A confirmation token acts at most once (_pop_pending), for any number of
\* clients, failures and restarts.
THEOREM TokensActOnce == Spec => []TokenActsOnce
<1>1. IInv => TokenActsOnce BY DEF IInv
<1> QED BY <1>1, Inductive, PTL

\* The pending table exceeds _MAX_PENDING only by the requests that insert at
\* the same time (_evict_pending, _store_pending).
THEOREM PendingStaysBounded == Spec => []PendingBounded
<1>1. ASSUME IInv PROVE PendingBounded
  <2> DEFINE now == {c \in Clients : pc[c] = "insert"}
  <2>1. now \subseteq Inserting /\ Inserting \subseteq Clients BY DEF Inserting
  <2>2. /\ IsFiniteSet(Inserting) /\ Cardinality(Inserting) \in Nat
        /\ Cardinality(Clients) \in Nat
    BY <2>1, FS_Subset, FS_CardinalityType
  <2>3. IsFiniteSet(now) /\ Cardinality(now) <= Cardinality(Inserting) BY <2>1, <2>2, FS_Subset
  <2>4. Cardinality(now) \in Nat /\ Cardinality(pending) \in Nat
    BY <1>1, <2>3, FS_CardinalityType DEF IInv
  <2> QED BY <1>1, <2>2, <2>3, <2>4 DEF IInv, Room, PendingBounded
<1> QED BY <1>1, Inductive, PTL

\* A lesson saved without asking contradicts no rule its request looked at
\* and that is still active (process_teach_request, detect_conflict).
THEOREM NoSilentClashes == Spec => []NoSilentClash
<1>1. IInv => NoSilentClash BY DEF IInv
<1> QED BY <1>1, Inductive, PTL

\* "saved" names the row of the taught lesson, and a replaced rule is out
\* (process_confirmation).
THEOREM RepliesHold == Spec => []RepliesTrue
<1>1. IInv => RepliesTrue BY DEF IInv
<1> QED BY <1>1, Inductive, PTL
=============================================================================
