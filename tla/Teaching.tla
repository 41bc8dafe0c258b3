------------------------------ MODULE Teaching ------------------------------
(***************************************************************************)
(* Rules taught by users: POST /teach, POST /teach/confirm, DELETE         *)
(* /instructions/{id} and POST /teach/pending/cleanup (main.py) over       *)
(* storage/instruction_store.py.  A lesson that contradicts an active rule *)
(* is kept aside under a token until the user confirms, replaces or        *)
(* rejects.                                                                *)
(*                                                                         *)
(* Rules and pending confirmations are PostgreSQL tables; one SQL          *)
(* statement is one step, also inside a transaction, which reads what      *)
(* others committed since it began (READ COMMITTED).  Lessons are model    *)
(* values, related by what detect_conflict and find_similar_instructions   *)
(* can tell of them.                                                       *)
(***************************************************************************)
EXTENDS Naturals, Sequences, FiniteSets

CONSTANTS
    Clients,      \* concurrent requests
    Lessons,      \* what can be taught: a type, a content and its tables
    Corrections,  \* the lessons of type "correction"
    Clash,        \* pairs of lessons in structural conflict
    Overlap,      \* pairs of lessons with a common table or the same content
    NoLesson,
    MaxPending,   \* _MAX_PENDING
    MaxRows,      \* bound: rules ever saved
    MaxTokens     \* bound: tokens ever issued

ASSUME ClientsAssumption == IsFiniteSet(Clients)
ASSUME LessonsAssumption == Corrections \subseteq Lessons /\ NoLesson \notin Lessons
ASSUME MaxPendingAssumption == MaxPending \in Nat \ {0}
ASSUME BoundsAssumption == MaxRows \in Nat /\ MaxTokens \in Nat

VARIABLES
    rows,     \* nl2sql_user_instructions; a rule's id is its place
    pending,  \* nl2sql_pending_teach_confirmations
    expired,  \* the tokens in it with expires_at <= NOW()
    issued,   \* how many tokens were stored; they are numbered in order of created_at
    uses,     \* how many requests have got what each token stands for (of the model)
    pc,       \* what each request awaits; "done" when it is answered
    req,      \* the request and what it has read
    changed   \* requests that changed the active rules and not yet the cache epoch

vars == <<rows, pending, expired, issued, uses, pc, req, changed>>

\* seen is of the model: how many rules there were when the lesson was found to
\* contradict none of them (0: nobody looked, or looking failed).
Row == [lesson : Lessons, active : BOOLEAN, verified : BOOLEAN, seen : 0..MaxRows]

Pending == [token : 1..MaxTokens, lesson : Lessons, target : 1..MaxRows]

Tokens == {p.token : p \in pending}

Request == [op : {"teach", "confirm", "replace"},
            lesson : Lessons \cup {NoLesson},
            target : 0..MaxRows, seen : 0..MaxRows,
            row : 0..MaxRows, overflow : Nat]

\* The awaits of _store_pending: two statements of _evict_pending and its own.
Storing == {"count", "evict", "insert"}

Steps == Storing \cup {"deactivate", "save", "invalidate", "done"}

TypeOK ==
    /\ rows \in Seq(Row) /\ Len(rows) <= MaxRows
    /\ issued \in 0..MaxTokens
    /\ uses \in [1..MaxTokens -> Nat]
    /\ pending \subseteq Pending
    /\ expired \subseteq Tokens
    /\ pc \in [Clients -> Steps]
    /\ req \in [Clients -> Request]
    /\ changed \subseteq Clients
    /\ \A c \in Clients :
          /\ pc[c] \in Storing \cup {"deactivate"} => req[c].target \in 1..Len(rows)
          /\ pc[c] \in Storing \cup {"deactivate", "save"} => req[c].lesson # NoLesson
          /\ req[c].seen <= Len(rows) /\ req[c].row <= Len(rows)
    /\ \A p \in pending : p.token <= issued /\ p.target <= Len(rows)

Blank == [op |-> "teach", lesson |-> NoLesson, target |-> 0,
          seen |-> 0, row |-> 0, overflow |-> 0]

Init ==
    /\ rows = <<>> /\ issued = 0
    /\ pending = {} /\ expired = {}
    /\ uses = [t \in 1..MaxTokens |-> 0]
    /\ pc = [c \in Clients |-> "done"]
    /\ req = [c \in Clients |-> Blank]
    /\ changed = {}

-----------------------------------------------------------------------------
(* What contradicts a lesson.                                              *)

\* A correction asks about any similar rule, another lesson about those it is
\* in structural conflict with.
Contradicts(l, m) == <<l, m>> \in IF l \in Corrections THEN Overlap ELSE Clash

\* MUTANT of Contradicting: a filter on rules the user has already confirmed.
ContradictingVerified(l) ==
    {i \in 1..Len(rows) : rows[i].active /\ rows[i].verified /\ Contradicts(l, rows[i].lesson)}

Contradicting(l) == {i \in 1..Len(rows) : rows[i].active /\ Contradicts(l, rows[i].lesson)}

\* The rule the user is asked about: detect_conflict prefers a verified one
\* (ORDER BY is_verified DESC, then scores that are not modelled).
Foremost(l) ==
    LET is == Contradicting(l)
        verified == {i \in is : rows[i].verified}
    IN  IF l \in Corrections \/ verified = {} THEN is ELSE verified

\* The records of a request that is to ask about rule i, to save a lesson, has
\* saved it as rule n.
ToAsk(l, i)    == [Blank EXCEPT !.lesson = l, !.target = i]
ToSave(l, n)   == [Blank EXCEPT !.lesson = l, !.seen = n]
SavedAs(r, n)  == [r EXCEPT !.row = n, !.seen = 0]

\* Request c goes on at step `to` with its record changed to r.
Go(c, to, r) ==
    /\ pc' = [pc EXCEPT ![c] = to]
    /\ req' = [req EXCEPT ![c] = r]

\* The reply is sent; what it says is told by the step that sends it.
Answer(c) == Go(c, "done", Blank)

-----------------------------------------------------------------------------
(* POST /teach.                                                            *)

\* A request starts with the first statement it runs: for a correction that of
\* find_similar_instructions, else that of detect_conflict.  (The other lessons'
\* find_similar_instructions only words the reply.)
Teach(c, l) ==
    /\ pc[c] = "done"
    /\ \/ \E i \in Foremost(l) :
             Go(c, "count", ToAsk(l, i))
       \/ /\ Contradicting(l) = {}
          /\ Go(c, "save", ToSave(l, Len(rows)))
    /\ UNCHANGED <<rows, pending, expired, issued, uses, changed>>

\* Both functions answer an error with "nothing found", and the lesson is saved.
TeachUnchecked(c, l) ==
    /\ pc[c] = "done"
    /\ Go(c, "save", ToSave(l, 0))
    /\ UNCHANGED <<rows, pending, expired, issued, uses, changed>>

\* MUTANT of Overflow: pending_count - _MAX_PENDING.
OverflowLate(live) == IF Cardinality(live) > MaxPending THEN Cardinality(live) - MaxPending ELSE 0

\* max(0, pending_count - _MAX_PENDING + 1): room for one more.
Overflow(live) ==
    IF Cardinality(live) + 1 > MaxPending THEN Cardinality(live) + 1 - MaxPending ELSE 0

\* The rows of ORDER BY created_at ASC LIMIT n.
Oldest(gone, n) ==
    /\ Cardinality(gone) = IF n <= Cardinality(pending) THEN n ELSE Cardinality(pending)
    /\ \A p \in gone, q \in pending \ gone : p.token < q.token

\* The same record with another overflow.
Counted(r, n) == [r EXCEPT !.overflow = n]

\* _evict_pending: DELETE of what has expired, and SELECT COUNT.  (A failure of
\* the transaction brings expired rows back; they can only be deleted again.)
Count(c) ==
    /\ pc[c] = "count"
    /\ LET live == {p \in pending : p.token \notin expired}
       IN  /\ pending' = live
           /\ Go(c, "evict", Counted(req[c], Overflow(live)))
    /\ expired' = {}
    /\ UNCHANGED <<rows, issued, uses, changed>>

\* Its second DELETE, for the overflow counted before, and the commit.
Evict(c) ==
    /\ pc[c] = "evict"
    /\ \E gone \in SUBSET pending :
          /\ Oldest(gone, req[c].overflow)
          /\ pending' = pending \ gone
    /\ expired' = expired \cap Tokens'
    /\ Go(c, "insert", Counted(req[c], 0))
    /\ UNCHANGED <<rows, issued, uses, changed>>

\* The INSERT of _store_pending, and "conflict" with the token.  Tokens are
\* random; created_at is DEFAULT NOW().
Insert(c) ==
    /\ pc[c] = "insert"
    /\ issued < MaxTokens
    /\ issued' = issued + 1
    /\ pending' = pending \cup
          {[token |-> issued + 1, lesson |-> req[c].lesson, target |-> req[c].target]}
    /\ Answer(c)
    /\ UNCHANGED <<rows, expired, uses, changed>>

-----------------------------------------------------------------------------
(* POST /teach/confirm.                                                    *)

\* MUTANT of TakeOut: SELECT instead of DELETE ... RETURNING.
TakeOutNothing(t) == UNCHANGED <<pending, expired>>

\* DELETE ... WHERE token = t, by either statement of _pop_pending.
TakeOut(t) ==
    /\ pending' = {p \in pending : p.token # t}
    /\ expired' = expired \ {t}

\* The row that _pop_pending returns.
Found(p, op) ==
    [Blank EXCEPT !.op = op, !.lesson = p.lesson, !.target = p.target]

\* The request starts with _pop_pending, for any token ever issued: clients have
\* it from the reply or from GET /teach/pending.  (Failing there changes nothing.)
Confirm(c, t, op) ==
    /\ pc[c] = "done"
    /\ TakeOut(t)
    /\ \/ /\ t \notin Tokens \ expired
          /\ Answer(c)
          /\ UNCHANGED uses
       \/ \E p \in pending :
             /\ p.token = t /\ t \notin expired
             /\ uses' = [uses EXCEPT ![t] = @ + 1]
             /\ CASE op = "reject"  -> Answer(c)
                  [] op = "confirm" -> Go(c, "save", Found(p, op))
                  [] op = "replace" -> Go(c, "deactivate", Found(p, op))
    /\ UNCHANGED <<rows, issued, changed>>

\* UPDATE ... SET is_active = FALSE, a statement of its own.
Deactivate(c) ==
    LET i == req[c].target
    IN  /\ pc[c] = "deactivate"
        /\ rows' = [rows EXCEPT ![i].active = FALSE]
        /\ changed' = IF rows[i].active THEN changed \cup {c} ELSE changed
        /\ Go(c, "save", req[c])
        /\ UNCHANGED <<pending, expired, issued, uses>>

-----------------------------------------------------------------------------
(* Both.                                                                   *)

\* save_instruction: what a confirmation saves is verified, and so is a
\* correction.
Save(c) ==
    LET r == req[c]
    IN  /\ pc[c] = "save"
        /\ Len(rows) < MaxRows
        /\ rows' = Append(rows, [lesson |-> r.lesson, active |-> TRUE,
                                 verified |-> r.op # "teach" \/ r.lesson \in Corrections,
                                 seen |-> r.seen])
        /\ changed' = changed \cup {c}
        /\ Go(c, "invalidate", SavedAs(r, Len(rows) + 1))
        /\ UNCHANGED <<pending, expired, issued, uses>>

\* _invalidate_query_caches, called for every reply but "conflict" and
\* "rejected"; then "saved" or "confirmed".
Invalidate(c) ==
    /\ pc[c] = "invalidate"
    /\ changed' = changed \ {c}
    /\ Answer(c)
    /\ UNCHANGED <<rows, pending, expired, issued, uses>>

\* MUTANT of Fails: save_instruction's -1 is taken for an id.
FailsUnnoticed(c) ==
    /\ pc[c] \in Storing \cup {"deactivate", "save"}
    /\ IF pc[c] = "save" THEN Go(c, "invalidate", req[c]) ELSE Answer(c)
    /\ UNCHANGED <<rows, pending, expired, issued, uses, changed>>

\* A statement raises: an HTTP 200 with "rejected"; earlier steps stay done.
Fails(c) ==
    /\ pc[c] \in Storing \cup {"deactivate", "save"}
    /\ Answer(c)
    /\ UNCHANGED <<rows, pending, expired, issued, uses, changed>>

-----------------------------------------------------------------------------
(* Operators, time and the process.                                        *)

\* DELETE /instructions/{id}.
Delete(i) ==
    /\ rows[i].active
    /\ rows' = [rows EXCEPT ![i].active = FALSE]
    /\ UNCHANGED <<pending, expired, issued, uses, pc, req, changed>>

\* POST /teach/pending/cleanup.
Cleanup ==
    /\ expired # {}
    /\ pending' = {p \in pending : p.token \notin expired}
    /\ expired' = {}
    /\ UNCHANGED <<rows, issued, uses, pc, req, changed>>

\* _PENDING_TTL passes for a token.  Expiry is computed by the service and
\* creation by the database, so two tokens may expire in either order.
Expire(t) ==
    /\ t \in Tokens \ expired
    /\ expired' = expired \cup {t}
    /\ UNCHANGED <<rows, pending, issued, uses, pc, req, changed>>

\* The service stops and starts: requests are lost, tables are not.
Restart ==
    /\ \E c \in Clients : pc[c] # "done"
    /\ pc' = [c \in Clients |-> "done"]
    /\ req' = [c \in Clients |-> Blank]
    /\ changed' = {}
    /\ UNCHANGED <<rows, pending, expired, issued, uses>>

-----------------------------------------------------------------------------
Handle(c) ==
    \/ \E l \in Lessons : Teach(c, l) \/ TeachUnchecked(c, l)
    \/ Count(c) \/ Evict(c) \/ Insert(c)
    \/ \E t \in 1..issued, op \in {"confirm", "replace", "reject"} : Confirm(c, t, op)
    \/ Deactivate(c) \/ Save(c) \/ Invalidate(c) \/ Fails(c)

Next ==
    \/ \E c \in Clients : Handle(c)
    \/ \E i \in 1..Len(rows) : Delete(i)
    \/ \E t \in 1..issued : Expire(t)
    \/ Cleanup
    \/ Restart

Spec == Init /\ [][Next]_vars

-----------------------------------------------------------------------------
(* Properties.                                                             *)

\* A token acts once: however many clients send it, at the same time or after
\* a failure or a restart, at most one rule comes of it (the DELETE ...
\* RETURNING of _pop_pending).
TokenActsOnce == \A t \in 1..MaxTokens : uses[t] <= 1

\* The table of pending confirmations stays within _MAX_PENDING, but for the
\* teach requests that are between their _evict_pending and their INSERT: each
\* may bring one more.  The counts of _evict_pending may be out of date when
\* they are acted upon.
PendingBounded ==
    Cardinality(pending) + Cardinality({c \in Clients : pc[c] = "insert"})
        < MaxPending + Cardinality(Clients)

\* No silent contradiction: when a lesson was saved without asking, no rule
\* that was there when its request looked contradicts it; whatever has happened
\* to both since, they are not active together.
NoSilentClash ==
    \A j \in 1..Len(rows), i \in 1..Len(rows) :
        i <= rows[j].seen /\ rows[i].active /\ rows[j].active
            => ~Contradicts(rows[j].lesson, rows[i].lesson)

\* A reply says what was done: a request about to answer "saved" or "confirmed"
\* has stored the taught lesson under the id it answers, and when it answers
\* that it replaced a rule, that rule is out.
RepliesTrue ==
    \A c \in Clients :
        LET r == req[c]
        IN  pc[c] = "invalidate" =>
                /\ r.row \in 1..Len(rows) /\ rows[r.row].lesson = r.lesson
                /\ r.op = "replace" => ~rows[r.target].active

\* ROUTES.md:749 ("when the teach action changes effective knowledge, the
\* service bumps cache epoch and clears in-memory caches"): a request that is
\* answered has done so for every rule it put in or out.
ChangesInvalidate == \A c \in Clients : pc[c] = "done" => c \notin changed
=============================================================================
