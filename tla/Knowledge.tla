----------------------------- MODULE Knowledge ------------------------------
(* What retrieval searches: rows of nl2sql_embeddings, written by the ingest *)
(* endpoints of main.py through rag/ingest.py, while the files and tables    *)
(* they are made from are edited, deactivated and deleted.                   *)
(*                                                                           *)
(* A source has a version, the hash of what it is made from; texts and       *)
(* vectors are left out but for the version they were made from.  Every      *)
(* source here is one chunk, of index 0.                                     *)
EXTENDS Naturals, Sequences, FiniteSets, SequencesExt
CONSTANTS Jobs,          \* ingest requests, each made again and again
          Groups,        \* rag_schema entities
          Rules,         \* user instructions
          Patterns,      \* learned patterns
          Texts,         \* names POST /ingest stores text under, Groups or not
          MaxVersion,    \* bound: how often a source is edited
          EmbedTries     \* settings.embed_max_retries
Records == Rules \cup Patterns
Sources == Groups \cup Records \cup Texts
ASSUME KnowledgeAssumption ==
    /\ MaxVersion \in Nat \ {0} /\ EmbedTries \in Nat \ {0}
    /\ IsFiniteSet(Groups) /\ IsFiniteSet(Records)
    /\ Groups \cap Records = {} /\ Rules \cap Patterns = {} /\ Texts \cap Records = {}

VARIABLES
    current,   \* the version of every source now
    active,    \* the records with is_active
    row,       \* the embedding of every source: the version its text was made
               \* from, metadata's schema_version, 0 if there is none, and
               \* whether it lacks is_active = false
    job,       \* per request: where it is, the sources with a version it
               \* reads, the groups among them that are left to be read, the
               \* text read of the first of these, the chunks made and how many
               \* of them are locked, and the failed embeddings
    alone,     \* history: the requests with which nothing else has happened
    deleting   \* rules between the two statements of their deletion
knowledgeVars == <<current, active, row, job, alone, deleting>>

Absent == [text |-> 0, version |-> 0, live |-> FALSE]
Plain  == [text |-> 0, version |-> 0, live |-> TRUE]
NoJob  == [at |-> "ok", asked |-> {}, todo |-> <<>>, text |-> 0, chunks |-> <<>>,
           locked |-> 0, failed |-> 0]
KnowledgeInit ==
    /\ current = [s \in Sources |-> 1]
    /\ active = Records
    /\ row = [s \in Sources |-> Absent]
    /\ job = [j \in Jobs |-> NoJob]
    /\ alone = {} /\ deleting = {}

In(j, where) == job[j].at = where
Busy(j) == ~In(j, "ok") /\ ~In(j, "error")
Goes(j, rec) == job' = [job EXCEPT ![j] = rec]
Ends(j, how) == Goes(j, [NoJob EXCEPT !.at = how])
Chunk(s, text) == [source |-> s, text |-> text, version |-> current[s]]

----------------------------------------------------------------------------
(* A request reads its sources.                                              *)
Starts(j, rec) ==
    /\ ~Busy(j)
    /\ Goes(j, rec)
    /\ alone' = IF \E k \in Jobs : Busy(k) THEN {} ELSE {j}
    /\ UNCHANGED <<current, active, row, deleting>>
\* POST /ingest/groups; the first entity is read
AskGroups(j) ==
    \E S \in (SUBSET Groups) \ {{}} : \E order \in SetToSeqs(S) :
        Starts(j, [NoJob EXCEPT !.at = "columns", !.asked = S, !.todo = order,
                                !.text = current[Head(order)]])

\* MUTANT of AskRecords: is_active is not looked at.
AskAllRecords(j, kind) ==
    \E order \in SetToSeqs(kind) :
        Starts(j, [NoJob EXCEPT !.at = "filter", !.asked = kind,
            !.chunks = [i \in DOMAIN order |-> Chunk(order[i], current[order[i]])]])

\* POST /ingest/patterns, /ingest/instructions: the active rows, in an order of
\* the database, read by one statement; /ingest/knowledge does so with files
AskRecords(j, kind) ==
    \E order \in SetToSeqs(active \cap kind) :
        Starts(j, [NoJob EXCEPT !.at = "filter", !.asked = active \cap kind,
            !.chunks = [i \in DOMAIN order |-> Chunk(order[i], current[order[i]])]])
\* POST /ingest: no version, no filter
AskText(j) ==
    \E s \in Texts :
        Starts(j, [NoJob EXCEPT !.at = "embed",
                                !.chunks = <<[source |-> s, text |-> 0, version |-> 0]>>])

\* After the columns of its tables have been awaited the file of the group is
\* read again for its hash; a group too large is left out.  The next entity is
\* read at once.
ReadVersion(j) ==
    /\ In(j, "columns")
    /\ LET g == Head(job[j].todo)
           rest == Tail(job[j].todo)
       IN \E chunks \in {job[j].chunks, Append(job[j].chunks, Chunk(g, job[j].text))} :
            Goes(j, [job[j] EXCEPT !.at = IF rest = <<>> THEN "filter" ELSE "columns",
                                   !.todo = rest, !.chunks = chunks,
                                   !.text = IF rest = <<>> THEN 0 ELSE current[Head(rest)],
                                   !.asked = IF chunks = job[j].chunks THEN @ \ {g} ELSE @])
    /\ UNCHANGED <<current, active, row, alone, deleting>>

----------------------------------------------------------------------------
(* The chunks are filtered, embedded and written.                            *)

\* MUTANT of Pending: only what is missing is embedded.
PendingAbsent(c) == row[c.source] = Absent

Pending(c) == row[c.source].version # c.version

Filter(j) ==
    /\ In(j, "filter")
    /\ LET chunks == job[j].chunks
           kept == {i \in DOMAIN chunks : Pending(chunks[i])}
       IN IF kept = {} THEN Ends(j, "ok")
          ELSE \E order \in SetToSeqs(kept) :
                 /\ \A m, n \in DOMAIN order : m < n => order[m] < order[n]
                 /\ Goes(j, [job[j] EXCEPT !.at = "embed",
                                          !.chunks = [i \in DOMAIN order |-> chunks[order[i]]]])
    /\ UNCHANGED <<current, active, row, alone, deleting>>
Embed(j) ==
    /\ In(j, "embed")
    /\ Goes(j, [job[j] EXCEPT !.at = "write", !.failed = 0])
    /\ UNCHANGED <<current, active, row, alone, deleting>>

\* MUTANT of EmbedAgain: there is no last attempt.
EmbedForever(j) ==
    /\ In(j, "embed")
    /\ Goes(j, [job[j] EXCEPT !.failed = 1 - @])
    /\ UNCHANGED <<current, active, row, alone, deleting>>

\* embed_batch: a transient failure is tried again
EmbedAgain(j) ==
    /\ In(j, "embed") /\ job[j].failed + 1 < EmbedTries
    /\ Goes(j, [job[j] EXCEPT !.failed = @ + 1])
    /\ UNCHANGED <<current, active, row, alone, deleting>>

\* The transaction locks the rows it inserts or may update to its end; text
\* neither locks a row it finds nor waits for it.
Takes(c) == c.version # 0 \/ row[c.source] = Absent
Locks(j) == {job[j].chunks[i].source : i \in {i \in 1..job[j].locked : Takes(job[j].chunks[i])}}
Wants(j) == In(j, "write") /\ job[j].locked < Len(job[j].chunks)
WaitsFor(j, k) ==
    /\ k # j /\ Wants(j)
    /\ LET c == job[j].chunks[job[j].locked + 1] IN Takes(c) /\ c.source \in Locks(k)
Write(j) ==
    /\ Wants(j) /\ \A k \in Jobs : ~WaitsFor(j, k)
    /\ Goes(j, [job[j] EXCEPT !.locked = @ + 1])
    /\ UNCHANGED <<current, active, row, alone, deleting>>
\* external: PostgreSQL aborts a transaction of a cycle of them
Abort(j) ==
    /\ \E S \in SUBSET Jobs : j \in S /\ \A k \in S : \E l \in S : WaitsFor(k, l)
    /\ Ends(j, "error")
    /\ UNCHANGED <<current, active, row, alone, deleting>>

\* ON CONFLICT DO UPDATE WHERE schema_version != EXCLUDED: false when a version
\* is missing; DO NOTHING for text
Changes(c) ==
    \/ row[c.source] = Absent
    \/ row[c.source].version # 0 /\ c.version # 0 /\ row[c.source].version # c.version
Commit(j) ==
    /\ In(j, "write") /\ ~Wants(j)
    /\ LET changed == {c \in ToSet(job[j].chunks) : Changes(c)}
       IN /\ row' = [s \in Sources |->
                IF \E c \in changed : c.source = s
                THEN LET c == CHOOSE c \in changed : c.source = s
                     IN [text |-> c.text, version |-> c.version, live |-> TRUE]
                ELSE row[s]]
          /\ IF changed = {} \/ job[j].chunks[1].version = 0 THEN Ends(j, "ok")
             ELSE Goes(j, [NoJob EXCEPT !.at = "bump", !.asked = job[j].asked])
    /\ UNCHANGED <<current, active, alone, deleting>>
\* counts > 0: the caches are invalidated (see QueryCache)
Bump(j) == In(j, "bump") /\ Ends(j, "ok") /\ UNCHANGED <<current, active, row, alone, deleting>>
\* the database, the file or the model fails at an await
Fail(j) == Busy(j) /\ Ends(j, "error") /\ UNCHANGED <<current, active, row, alone, deleting>>

----------------------------------------------------------------------------
(* The sources change.                                                       *)
\* a file is edited, a pattern used once more, a rule rewritten
Edit(s) ==
    /\ s \notin Texts \ Groups /\ current[s] < MaxVersion
    /\ current' = [current EXCEPT ![s] = @ + 1] /\ alone' = {}
    /\ UNCHANGED <<active, row, job, deleting>>
\* POST /patterns/feedback: the embedding stays
Feedback(p) ==
    /\ p \in Patterns
    /\ active' = active \ {p} /\ alone' = {}
    /\ UNCHANGED <<current, row, job, deleting>>
\* DELETE /instructions/{id}: two statements, each its own transaction
Delete(r) ==
    /\ r \notin deleting
    /\ active' = active \ {r} /\ deleting' = deleting \cup {r} /\ alone' = {}
    /\ UNCHANGED <<current, row, job>>
Unlist(r) ==
    /\ r \in deleting /\ \A j \in Jobs : r \notin Locks(j)
    /\ row' = IF row[r] = Absent THEN row ELSE [row EXCEPT ![r].live = FALSE]
    /\ deleting' = deleting \ {r} /\ alone' = {}
    /\ UNCHANGED <<current, active, job>>
\* the second statement fails or the process dies
Forget(r) ==
    /\ r \in deleting /\ deleting' = deleting \ {r} /\ alone' = {}
    /\ UNCHANGED <<current, active, row, job>>

Asks(j) == AskGroups(j) \/ AskRecords(j, Rules) \/ AskRecords(j, Patterns) \/ AskText(j)
Works(j) ==
    \/ ReadVersion(j) \/ Filter(j) \/ Embed(j) \/ EmbedAgain(j) \/ Write(j) \/ Abort(j)
    \/ Commit(j) \/ Bump(j)
KnowledgeNext ==
    \/ \E j \in Jobs : Asks(j) \/ Works(j) \/ Fail(j)
    \/ \E s \in Sources : Edit(s)
    \/ \E p \in Patterns : Feedback(p)
    \/ \E r \in Rules : Delete(r) \/ Unlist(r) \/ Forget(r)
\* Awaits end, by a time-out if need be; PostgreSQL grants locks in turn.
KnowledgeFairness == \A j \in Jobs : SF_knowledgeVars(Works(j))
KnowledgeSpec == KnowledgeInit /\ [][KnowledgeNext]_knowledgeVars /\ KnowledgeFairness

----------------------------------------------------------------------------
\* Type invariant; only what was read is stored, and two transactions never
\* hold the same row.
KnowledgeTypeOK ==
    /\ current \in [Sources -> 1..MaxVersion]
    /\ active \subseteq Records /\ deleting \subseteq Rules \ active /\ alone \subseteq Jobs
    /\ \A s \in Sources :
         /\ row[s].text \in 0..current[s] /\ row[s].version \in 0..current[s]
         /\ row[s].live \in BOOLEAN
    /\ \A j \in Jobs :
         /\ job[j].at \in {"columns", "filter", "embed", "write", "bump", "ok", "error"}
         /\ job[j].failed < EmbedTries
         /\ \A k \in Jobs \ {j} : Locks(j) \cap Locks(k) = {}

\* An ingest that returns ok, with which nothing else happened, leaves every
\* source it read stored with its present version, whatever ingests and edits
\* overlapped before: what an older, slower ingest wrote last, or what failed
\* half way, is found and replaced (_filter_chunks_needing_upsert).  The
\* exception is a name that text without a version was stored under.
QuietIngestRepairs ==
    [][\A j \in alone : Busy(j) /\ job'[j].at = "ok" =>
          \A s \in job[j].asked : row'[s] = Plain \/ row'[s].version = current[s]
      ]_knowledgeVars

\* The embedding of a deleted rule comes back to life only through an ingest
\* that overlapped the deletion (delete_instruction_endpoint, is_active = TRUE).
RevivedByOverlap ==
    [][\A j \in alone, r \in Rules :
          row'[r].live /\ ~row[r].live /\ job'[j] # job[j] => r \in active]_knowledgeVars

\* Every ingest ends: the model stops being asked, and transactions that lock
\* the same rows in another order do not wait for each other for ever.
IngestEnds == \A j \in Jobs : Busy(j) ~> ~Busy(j)

\* main.py:1998-2001: "Return current-vs-embedded schema_version comparison per
\* schema group", "to check whether re-ingesting is needed": a group that is
\* reported current was embedded from the text that is current.
StatusTells ==
    \A g \in Groups : row[g].version = current[g] => row[g].text = current[g]
=============================================================================
