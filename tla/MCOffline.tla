------------------------------ MODULE MCOffline -----------------------------
(* Small instances of Knowledge and Evaluation, for one run of TLC.  Groups  *)
(* and records share no row and no lock, and an evaluation shares nothing    *)
(* with either: a behaviour is about one of the three.                       *)
EXTENDS Knowledge, Evaluation, TLC
CONSTANT Edited  \* bound: the sources that are edited
CONSTANTS t, u  \* tables

\* A case that expects the keyword and table t, answered well; the trace shows
\* what was retrieved and what was generated.
Event == [stage |-> "vector_search", status |-> "completed", source |-> "none", named |-> FALSE,
          codes |-> {}, holds |-> FALSE, retrieved |-> {t, u}, selected |-> {}]
Generated == [Event EXCEPT !.stage = "sql_generation", !.retrieved = {}, !.selected = {t}, !.holds = TRUE]
Good == [wants |-> "ok", keyword |-> TRUE, tables |-> {t}, needs |-> {}, forbids |-> {},
         hints |-> <<>>, http |-> "ok", status |-> "ok", holds |-> FALSE, used |-> {t},
         codes |-> {}, brokenSql |-> FALSE, answerShort |-> FALSE, wrong |-> FALSE,
         cached |-> FALSE, asked |-> FALSE, trace |-> <<Event, Generated>>]
Broken == [Generated EXCEPT !.status = "failed", !.codes = {"validation"}, !.holds = FALSE]
Holding == [Event EXCEPT !.holds = TRUE]
WayScripts == <<
    Good,
    \* only the first event holds the keyword
    [Good EXCEPT !.trace = <<Holding, [Generated EXCEPT !.holds = FALSE]>>],
    \* the expected table was retrieved and not selected
    [Good EXCEPT !.used = {u}, !.trace = <<Event, [Broken EXCEPT !.selected = {u}, !.codes = {}]>>],
    \* a rejection that was wanted, with a code only the trace names
    [Good EXCEPT !.wants = "rejected", !.status = "rejected", !.needs = {"validation"}, !.keyword = FALSE,
                 !.tables = {}, !.used = {}, !.trace = <<Event, Broken>>],
    \* 500 after an execution that failed
    [Good EXCEPT !.http = "error", !.status = "none",
                 !.trace = <<Event, [Event EXCEPT !.stage = "execution", !.status = "failed"]>>],
    \* the trace holds a code the case forbids
    [Good EXCEPT !.holds = TRUE, !.forbids = {"provider"},
                 !.trace = <<Event, [Event EXCEPT !.codes = {"provider"}]>>] >>

----------------------------------------------------------------------------
VARIABLE side
Outside == IF side = "groups" THEN Records ELSE Groups
Stays ==
    /\ \A s \in Outside : current'[s] = current[s] /\ row'[s] = row[s]
    /\ \A s \in Sources \ Edited : current'[s] = current[s]
    /\ \A j \in Jobs : (job'[j].asked \cup {c.source : c \in ToSet(job'[j].chunks)}) \cap Outside = {}
    /\ side = "groups" => active' = active
MCInit ==
    /\ side \in {"groups", "records", "evaluation"}
    /\ KnowledgeInit
    /\ IF side = "evaluation" THEN EvaluationInit
       ELSE LimiterInit /\ phase = "failed" /\ run = [r \in Runs |-> Queued]
MCNext ==
    /\ IF side = "evaluation" THEN EvaluationNext /\ UNCHANGED knowledgeVars
       ELSE KnowledgeNext /\ Stays /\ UNCHANGED evaluationVars
    /\ side' = side
MCSpec ==
    /\ MCInit /\ [][MCNext]_<<knowledgeVars, evaluationVars, side>>
    /\ KnowledgeFairness
=============================================================================
