------------------------------ MODULE ReActAgent -----------------------------
(***************************************************************************)
(* One run of the ReAct agent (agent/react_executor.py, run): bootstrap    *)
(* retrieval, the planning loop with its memory guard, SQL generation,     *)
(* validation and the ways a run ends, under the time budget that          *)
(* generate_sql puts around it.                                            *)
(*                                                                         *)
(* What the models and the databases answer is chosen freely.  A schema    *)
(* group is the set of tables it lists; a SQL text is the set of tables it *)
(* reads and the faults the checks can see in it.                          *)
(***************************************************************************)
EXTENDS Integers, FiniteSets

CONSTANTS
    Tables,         \* table names
    Mentioned,      \* the tables the question names
    Groups,         \* schema groups in the vector store
    GroupTables,    \* GroupTables[g]: the group's tables and related tables
    Texts,          \* instructions the planning model may write
    Question,       \* the rewritten question itself, one of Texts
    TopK,           \* groups per retrieval (top_k)
    JoinLimit,      \* join paths per retrieval (react_relation_retrieval_top_k)
    MaxIterations,  \* react_max_iterations
    MaxTables,      \* sql_generation_max_tables
    Drafts,         \* what the SQL model may write (extract_sql)
    LongQuestions   \* may _should_check_past_corrections hold, and fail?

ASSUME TablesAssumption == Mentioned \subseteq Tables /\ Question \notin Tables
ASSUME GroupsAssumption == GroupTables \in [Groups -> SUBSET Tables]
ASSUME TextsAssumption == Question \in Texts
ASSUME LimitsAssumption ==
    /\ TopK \in Nat \ {0} /\ JoinLimit \in Nat
    /\ MaxIterations \in Nat \ {0} /\ MaxTables \in Nat \ {0}
ASSUME LongAssumption == LongQuestions \subseteq BOOLEAN

Faults == {"unsafe", "columns"}
NoSql  == [tables |-> {}, faults |-> {}, kind |-> "none"]
Empty  == [tables |-> {}, faults |-> {}, kind |-> "empty"]
Sql    == [tables: SUBSET Tables, faults: SUBSET Faults, kind: {"text"}]

ASSUME DraftsAssumption == Drafts \subseteq Sql \cup {Empty}

VARIABLES
    pc,           \* the await (or the decision) the run has reached
    task,         \* why schema is being retrieved: "bootstrap", "loop", "parallel"
    asked,        \* the target of the action under way (_action_target)
    targets,      \* target_tables of the retrieval under way
    corr,         \* the corrections lookup run beside it: "off", "running", "done"
    planned,      \* planner_iterations
    checked,      \* past_corrections_checked
    taken,        \* actions_taken
    scope,        \* tables_in_scope
    focus,        \* focus_tables
    schema,       \* retrieved_schema = columns_refreshed_tables = allowed_columns
    retrieved,    \* retrieved_tables
    groups,       \* matched_groups
    joins,        \* number of join_paths
    corrections,  \* past_corrections non-empty
    samples,      \* sample_queries non-empty
    genTables,    \* generation_tables_in_scope
    sql,          \* current_sql
    errs,         \* last_validation_errors non-empty
    count,        \* sql_generation_count
    tablesUsed,   \* tables_used
    late,         \* the time budget is spent
    reason,       \* why a clarification is being worded
    result,       \* the answer
    outcome       \* feedback sent by record_instruction_outcome

control   == <<task, asked, targets, corr, planned, checked, taken>>
knowledge == <<scope, focus, schema, retrieved, groups, joins, corrections, samples>>
candidate == <<genTables, sql, errs, count, tablesUsed>>
verdict   == <<reason, result, outcome>>
vars == <<pc, control, knowledge, candidate, late, verdict>>

-----------------------------------------------------------------------------
Retrievals == {"corrections", "schema", "joins", "samples"}
Acts       == Retrievals \cup {"generate", "clarify", "give_up"}
Awaits     == {"groups", "columns", "gather", "joins", "samples", "reason",
               "focus", "generate", "explain", "credited", "clarify"}

TypeOK ==
    /\ pc \in Awaits \cup {"plan", "validate", "done"}
    /\ task \in {"bootstrap", "loop", "parallel"}
    /\ asked \subseteq Tables \cup Texts
    /\ targets \subseteq Tables
    /\ corr \in {"off", "running", "done"}
    /\ planned \in 0..MaxIterations
    /\ checked \in BOOLEAN
    /\ taken \subseteq Acts \X SUBSET (Tables \cup Texts)
    /\ scope \subseteq Tables /\ focus \subseteq Tables
    /\ schema \subseteq Tables /\ retrieved \subseteq Tables
    /\ groups \subseteq Groups
    /\ joins \in 0..JoinLimit
    /\ corrections \in BOOLEAN /\ samples \in BOOLEAN
    /\ genTables \subseteq Tables
    /\ sql \in Sql \cup {NoSql, Empty}
    /\ errs \in BOOLEAN
    /\ count \in 0..MaxIterations
    /\ tablesUsed \subseteq Tables
    /\ late \in BOOLEAN
    /\ reason \in {"none", "asked", "exhausted"}
    /\ result \in {"none", "ok", "rejected", "clarification", "error"}
    /\ outcome \in {"none", "success", "failure"}

Init ==
    /\ pc = "groups" /\ task = "bootstrap"
    /\ asked = {Question} /\ targets = {} /\ corr = "off"
    /\ planned = 0 /\ checked \in {~long : long \in LongQuestions} /\ taken = {}
    /\ scope = {} /\ focus = {} /\ schema = {} /\ retrieved = {}
    /\ groups = {} /\ joins = 0 /\ corrections = FALSE /\ samples = FALSE
    /\ genTables = {} /\ sql = NoSql /\ errs = FALSE /\ count = 0 /\ tablesUsed = {}
    /\ late = FALSE
    /\ reason = "none" /\ result = "none" /\ outcome = "none"

-----------------------------------------------------------------------------
(* Scoring (compute_context_confidence_score), in percent.                 *)

Weight    == [tables |-> 35, joins |-> 20, groups |-> 15, examples |-> 20]
Penalty   == 8
Threshold == 75

LeastOf(a, b) == IF a < b THEN a ELSE b

\* The tables confidence is measured on.
Conf      == IF focus # {} THEN focus ELSE scope
Uncovered == Conf \ schema

\* score >= threshold, multiplied out so that no fraction is left.
Confident ==
    LET n     == Cardinality(Conf)
        edges == IF n > 1 THEN n - 1 ELSE 1
        linked == IF n > 1 THEN LeastOf(joins, edges) ELSE edges
        unit  == n * edges * TopK
    IN  /\ Conf # {}
        /\ Cardinality(Conf \cap schema) * edges * TopK * Weight.tables
             + linked * n * TopK * Weight.joins
             + LeastOf(Cardinality(groups), TopK) * n * edges * Weight.groups
             + (IF samples \/ corrections THEN unit * Weight.examples ELSE 0)
           >= unit * (Threshold + planned * Penalty)

-----------------------------------------------------------------------------
(* Retrieval.                                                              *)

\* Begin RETRIEVE_SCHEMA_FOR_TABLES.
Fetch(why, target) ==
    /\ pc' = "groups"
    /\ task' = why
    /\ asked' = target

\* retrieve_groups answers.  At most two tables that the question names come
\* into focus, unless the action named its tables; a store that is being
\* refilled may hold fewer than TopK groups.
RetrieveGroups ==
    /\ pc = "groups"
    /\ \E G \in SUBSET Groups :
          /\ Cardinality(G) <= TopK
          /\ groups' = groups \cup G
          /\ scope' = scope \cup UNION {GroupTables[g] : g \in G}
    /\ LET named == Mentioned \cap scope' IN
       \E explicit \in IF asked = {Question} THEN SUBSET named ELSE {asked \cap scope'},
          inferred \in SUBSET named :
          /\ Cardinality(inferred) = LeastOf(Cardinality(named), 2)
          /\ LET seed == IF explicit # {} THEN explicit ELSE inferred IN
             /\ targets' = IF seed # {} THEN seed ELSE scope'
             /\ focus' = focus \cup (IF seed # {} \/ Cardinality(scope') # 1
                                     THEN seed ELSE scope')
    /\ pc' = "columns"
    /\ UNCHANGED <<task, asked, corr, planned, checked, taken, schema, retrieved,
                   joins, corrections, samples, candidate, late, verdict>>

\* The column catalog, or MySQL itself, describes some of the targets.
RetrieveColumns ==
    /\ pc = "columns"
    /\ \E described \in SUBSET targets : schema' = schema \cup described
    /\ retrieved' = retrieved \cup targets
    /\ pc' = IF task = "parallel" THEN "gather" ELSE "plan"
    /\ taken' = IF task = "loop" THEN taken \cup {<<"schema", asked>>} ELSE taken
    /\ UNCHANGED <<task, asked, targets, corr, planned, checked, scope, focus, groups,
                   joins, corrections, samples, candidate, late, verdict>>

\* retrieve_past_corrections, running beside the schema retrieval, finds some
\* corrections, with the tables they affect, or none.
RetrieveCorrections ==
    /\ corr = "running" /\ pc \in {"groups", "columns", "gather"}
    /\ \/ corrections' = FALSE /\ UNCHANGED scope
       \/ corrections' = TRUE /\ \E T \in SUBSET Tables : scope' = scope \cup T
    /\ checked' = TRUE
    /\ corr' = "done"
    /\ UNCHANGED <<pc, task, asked, targets, planned, taken, focus, schema, retrieved,
                   groups, joins, samples, candidate, late, verdict>>

\* asyncio.gather returns once both have ended.
Gather ==
    /\ pc = "gather" /\ corr = "done"
    /\ pc' = "plan" /\ corr' = "off"
    /\ taken' = taken \cup {<<"corrections", {Question}>>, <<"schema", scope>>}
    /\ UNCHANGED <<task, asked, targets, planned, checked, knowledge, candidate, late, verdict>>

\* MUTANT of RetrieveJoins: the retrieval consumes the generation budget.
RetrieveJoinsCounted ==
    /\ pc = "joins"
    /\ joins' \in 0..JoinLimit
    /\ taken' = taken \cup {<<"joins", asked>>}
    /\ planned' = planned + 1
    /\ pc' = "plan"
    /\ UNCHANGED <<task, asked, targets, corr, checked, scope, focus, schema,
                   retrieved, groups, corrections, samples, candidate, late, verdict>>

RetrieveJoins ==
    /\ pc = "joins"
    /\ joins' \in 0..JoinLimit
    /\ taken' = taken \cup {<<"joins", asked>>}
    /\ pc' = "plan"
    /\ UNCHANGED <<task, asked, targets, corr, planned, checked, scope, focus, schema,
                   retrieved, groups, corrections, samples, candidate, late, verdict>>

RetrieveSamples ==
    /\ pc = "samples"
    /\ samples' \in BOOLEAN
    /\ taken' = taken \cup {<<"samples", asked>>}
    /\ pc' = "plan"
    /\ UNCHANGED <<task, asked, targets, corr, planned, checked, scope, focus, schema,
                   retrieved, groups, joins, corrections, candidate, late, verdict>>

-----------------------------------------------------------------------------
(* Endings.                                                                *)

End(answer) == pc' = "done" /\ result' = answer /\ UNCHANGED <<reason, outcome>>

\* PostgreSQL or the embedding model raises out of the run.
RetrievalRaises ==
    /\ pc \in {"groups", "columns", "joins", "focus"}
    /\ End("error")
    /\ UNCHANGED <<control, knowledge, candidate, late>>

\* REQUEST_CLARIFICATION or GIVE_UP: blame the instructions, then let the
\* model word a question.
GoClarify(act) ==
    /\ pc' = "clarify" /\ reason' = "asked" /\ outcome' = "failure"
    /\ planned' = planned + 1
    /\ taken' = taken \cup {<<act, {}>>}
    /\ genTables' = {}
    /\ UNCHANGED <<task, asked, targets, corr, checked, knowledge, sql, errs, count,
                   tablesUsed, late, result>>

\* build_clarification swallows the model's failures.
Clarify ==
    /\ pc = "clarify"
    /\ End("clarification")
    /\ UNCHANGED <<control, knowledge, candidate, late>>

-----------------------------------------------------------------------------
(* The head of the loop.                                                   *)

\* An action other than GENERATE_SQL forgets the generation's tables.
Unfocus == genTables' = {} /\ UNCHANGED <<sql, errs, count, tablesUsed>>

GoGenerate == pc' = "focus" /\ UNCHANGED <<control, candidate>>

Exhausted ==
    /\ pc = "plan" /\ planned >= MaxIterations /\ checked
    /\ pc' = "clarify" /\ reason' = "exhausted" /\ outcome' = "failure"
    /\ UNCHANGED <<control, knowledge, candidate, late, result>>

Planning == pc = "plan" /\ (planned < MaxIterations \/ ~checked)

DeadlinePassed ==
    /\ Planning /\ late
    /\ End("rejected")
    /\ UNCHANGED <<control, knowledge, candidate, late>>

\* Iteration 1 of a long question: corrections and schema side by side.
PlanCorrections ==
    /\ Planning /\ ~late /\ ~checked
    /\ Fetch("parallel", {}) /\ corr' = "running"
    /\ Unfocus
    /\ UNCHANGED <<targets, planned, checked, taken, knowledge, late, verdict>>

\* Tables without columns, or no table at all: apply_iteration_memory_guard
\* turns a repetition into the fallback.
Schemaless == checked /\ ~Confident /\ (Conf = {} \/ Uncovered # {})
SchemaTarget == IF Uncovered # {} THEN Uncovered ELSE {Question}
SchemaKnown ==
    \/ Uncovered # {} /\ Uncovered \subseteq retrieved
    \/ <<"schema", SchemaTarget>> \in taken

PlanSchema ==
    /\ Planning /\ ~late /\ Schemaless
    /\ \/ /\ ~SchemaKnown
          /\ Fetch("loop", SchemaTarget)
          /\ Unfocus
          /\ UNCHANGED <<targets, corr, planned, checked, taken, knowledge, late, verdict>>
       \/ /\ SchemaKnown /\ scope # {}
          /\ GoGenerate
          /\ UNCHANGED <<knowledge, late, verdict>>
       \/ /\ SchemaKnown /\ scope = {}
          /\ GoClarify("clarify")

Unlinked == checked /\ ~Confident /\ ~Schemaless /\ Cardinality(focus) > 1 /\ joins = 0

PlanJoins ==
    /\ Planning /\ ~late /\ Unlinked
    /\ IF <<"joins", scope>> \in taken
       THEN GoGenerate
       ELSE /\ pc' = "joins" /\ asked' = scope
            /\ Unfocus
            /\ UNCHANGED <<task, targets, corr, planned, checked, taken>>
    /\ UNCHANGED <<knowledge, late, verdict>>

\* Enough is known: generate without asking the planning model.
PlanGenerate ==
    /\ Planning /\ ~late /\ checked /\ Confident
    /\ GoGenerate
    /\ UNCHANGED <<knowledge, late, verdict>>

PlanByModel ==
    /\ Planning /\ ~late /\ checked /\ ~Confident /\ ~Schemaless /\ ~Unlinked
    /\ pc' = "reason"
    /\ UNCHANGED <<control, knowledge, candidate, late, verdict>>

-----------------------------------------------------------------------------
(* The planning model.  An action it may not choose becomes the first one  *)
(* it may; an answer that cannot be parsed is recovered in the same way.   *)

Ambiguous == ~samples /\ (Cardinality(focus) > 1 \/ groups = {} \/ errs)

ModelSamples ==
    /\ pc = "reason" /\ Ambiguous
    /\ \E text \in Texts :
          IF <<"samples", {text}>> \in taken
          THEN GoGenerate
          ELSE /\ pc' = "samples" /\ asked' = {text}
               /\ Unfocus
               /\ UNCHANGED <<task, targets, corr, planned, checked, taken>>
    /\ UNCHANGED <<knowledge, late, verdict>>

ModelGenerates ==
    /\ pc = "reason"
    /\ GoGenerate
    /\ UNCHANGED <<knowledge, late, verdict>>

ModelStops == pc = "reason" /\ (GoClarify("clarify") \/ GoClarify("give_up"))

\* A reasoning call without an answer rejects the request.
ModelFails ==
    /\ pc = "reason"
    /\ End("rejected")
    /\ UNCHANGED <<control, knowledge, candidate, late>>

-----------------------------------------------------------------------------
(* Generation and validation.                                              *)

\* MUTANT of Focus: generates at once, whatever is known of the columns.
FocusAtOnce ==
    /\ pc = "focus"
    /\ \E F \in IF Cardinality(scope) <= MaxTables THEN {scope} ELSE SUBSET scope :
          F # {} /\ Cardinality(F) <= MaxTables /\ genTables' = F
    /\ pc' = "generate"
    /\ UNCHANGED <<control, knowledge, sql, errs, count, tablesUsed, late, verdict>>

\* Narrow the scope to MaxTables tables by column similarity.  A scope that is
\* too broad while no column was ever loaded sends the run back to retrieval.
Focus ==
    /\ pc = "focus"
    /\ \E F \in IF Cardinality(scope) <= MaxTables THEN {scope} ELSE SUBSET scope :
          /\ F # {} /\ Cardinality(F) <= MaxTables
          /\ genTables' = F
          /\ IF Cardinality(scope) > MaxTables /\ schema = {}
             THEN Fetch("loop", F)
             ELSE pc' = "generate" /\ UNCHANGED <<task, asked>>
    /\ UNCHANGED <<targets, corr, planned, checked, taken, knowledge, sql, errs, count,
                   tablesUsed, late, verdict>>

Generate ==
    /\ pc = "generate"
    /\ sql' \in Drafts
    /\ count' = count + 1
    /\ errs' = FALSE
    /\ taken' = taken \cup {<<"generate", {}>>}
    /\ pc' = "validate"
    /\ UNCHANGED <<task, asked, targets, corr, planned, checked, knowledge, genTables,
                   tablesUsed, late, verdict>>

\* call_ollama returns a transport warning.
GenerationFails ==
    /\ pc = "generate"
    /\ planned' = planned + 1
    /\ taken' = taken \cup {<<"generate", {}>>}
    /\ End("rejected")
    /\ UNCHANGED <<task, asked, targets, corr, checked, knowledge, candidate, late>>

\* MUTANT of NextIteration: a refused draft is not counted.
NextIterationFree ==
    /\ pc' = "plan"
    /\ UNCHANGED control

\* The iteration ends without an answer.
NextIteration ==
    /\ pc' = "plan"
    /\ planned' = planned + 1
    /\ UNCHANGED <<task, asked, targets, corr, checked, taken>>

\* validate_columns_used checks nothing while no column of the generation's
\* tables is loaded, and is sure of a text whose tables all have columns loaded.
\* Of another it skips a column qualified by a table it knows nothing of and
\* refuses an unqualified one that no loaded table has, right or wrong.
Undescribed == schema \cap genTables = {}
Described(q) == ~Undescribed /\ q.tables \subseteq schema

\* MUTANT of Acceptable: the whole scope is allowed, not the tables in focus.
AcceptableInScope(q) ==
    /\ q.tables \subseteq scope
    /\ ~("columns" \in q.faults /\ Described(q))

\* The checks may accept the text; they may refuse it.
Acceptable(q) ==
    /\ q.tables \subseteq genTables
    /\ ~("columns" \in q.faults /\ Described(q))
Refusable(q) == ~Acceptable(q) \/ ~(Undescribed \/ Described(q))

\* Auto-validation up to EXPLAIN.  An empty text is turned away without being
\* recorded as a validation error.
Validate ==
    /\ pc = "validate"
    /\ \/ /\ sql = Empty
          /\ NextIteration
          /\ UNCHANGED <<errs, tablesUsed>>
       \/ /\ sql # Empty /\ "unsafe" \in sql.faults
          /\ errs' = TRUE
          /\ NextIteration
          /\ UNCHANGED tablesUsed
       \/ /\ sql # Empty /\ "unsafe" \notin sql.faults
          /\ tablesUsed' = sql.tables \cap genTables
          /\ \/ Acceptable(sql) /\ pc' = "explain" /\ UNCHANGED <<control, errs>>
             \/ Refusable(sql) /\ errs' = TRUE /\ NextIteration
    /\ UNCHANGED <<knowledge, genTables, sql, count, late, verdict>>

\* EXPLAIN accepts the text, or MySQL cannot be reached, which only warns.  The
\* instructions are credited by a task of their own before the run awaits the
\* trace of its answer.
ExplainPasses ==
    /\ pc = "explain"
    /\ pc' = "credited" /\ outcome' = "success"
    /\ planned' = planned + 1
    /\ errs' = FALSE
    /\ UNCHANGED <<task, asked, targets, corr, checked, taken, knowledge, genTables, sql,
                   count, tablesUsed, late, reason, result>>

\* The event is out: return the SQL.
Return ==
    /\ pc = "credited"
    /\ End("ok")
    /\ UNCHANGED <<control, knowledge, candidate, late>>

\* MUTANT of ExplainFails: the error is not recorded.
ExplainFailsQuietly ==
    /\ pc = "explain"
    /\ NextIteration
    /\ UNCHANGED <<knowledge, genTables, sql, errs, count, tablesUsed, late, verdict>>

ExplainFails ==
    /\ pc = "explain"
    /\ errs' = TRUE
    /\ NextIteration
    /\ UNCHANGED <<knowledge, genTables, sql, count, tablesUsed, late, verdict>>

-----------------------------------------------------------------------------
(* Time.  generate_sql's wait_for starts before the run sets its own       *)
(* deadline, with the same length, and cancels the run at its next await.  *)

Tick ==
    /\ pc # "done" /\ ~late
    /\ late' = TRUE
    /\ UNCHANGED <<pc, control, knowledge, candidate, verdict>>

\* MUTANT of Cancel: an EXPLAIN that hangs is not cancelled.
CancelModelsOnly ==
    /\ late /\ pc \in Awaits \ {"explain"}
    /\ End("rejected")
    /\ UNCHANGED <<control, knowledge, candidate, late>>

Cancel ==
    /\ late /\ pc \in Awaits
    /\ End("rejected")
    /\ UNCHANGED <<control, knowledge, candidate, late>>

-----------------------------------------------------------------------------
\* Code between two awaits.
Decide ==
    \/ Exhausted \/ DeadlinePassed \/ PlanCorrections \/ PlanSchema \/ PlanJoins
    \/ PlanGenerate \/ PlanByModel \/ Validate

\* An await that returns.
Continue ==
    \/ RetrieveGroups \/ RetrieveColumns \/ RetrieveCorrections \/ Gather
    \/ RetrieveJoins \/ RetrieveSamples \/ RetrievalRaises \/ Clarify
    \/ ModelSamples \/ ModelGenerates \/ ModelStops \/ ModelFails
    \/ Focus \/ Generate \/ GenerationFails \/ ExplainPasses \/ Return \/ ExplainFails

Next == Decide \/ Continue \/ Tick \/ Cancel

Spec == Init /\ [][Next]_vars

\* Time passes, the event loop runs the code that is ready and delivers the
\* cancellation; no database or model is assumed ever to answer.
FairSpec == Spec /\ WF_vars(Decide) /\ WF_vars(Tick) /\ WF_vars(Cancel)
-----------------------------------------------------------------------------
(* Properties.                                                             *)

\* The SQL of an ok answer is the text that was written last, it passed every
\* check against the tables it was generated for, those were in scope, and
\* tables_used lists exactly what it reads (react_executor.py:908-952,
\* 1542-1584).  A wrong column gets through only where columns were missing.
AnswerIsChecked ==
    result = "ok" =>
        /\ sql.kind = "text" /\ "unsafe" \notin sql.faults
        /\ genTables \subseteq scope /\ sql.tables \subseteq genTables
        /\ tablesUsed = sql.tables
        /\ "columns" \in sql.faults => ~Described(sql)

\* README.md:252-253: SQL is drafted for at most MaxTables tables in scope, and
\* for a scope that was broader only after some columns were loaded.
DraftsAreFocused ==
    pc \in {"generate", "validate", "explain"} =>
        /\ genTables # {} /\ genTables \subseteq scope
        /\ Cardinality(genTables) <= MaxTables
        /\ Cardinality(scope) > MaxTables => schema # {}

\* A draft that a check refused is repaired, not forgotten: while the next one
\* is written its errors are still at hand (build_refinement_prompt).
RepairSeesErrors == pc = "generate" /\ sql.kind = "text" => errs

\* README.md:255: retrieval does not consume the generation budget.  The run is
\* given up as exhausted only after MaxIterations drafts, the last one refused.
ExhaustedMeansTried ==
    reason = "exhausted" => count = MaxIterations /\ (sql = Empty \/ errs)

\* The instructions are credited for every answered question, and otherwise
\* only for one that timed out with its checked SQL at hand, the event of the
\* answer still being stored (react_executor.py:1556-1576 under
\* sql_generator.py:1786); they are blamed for every clarification, and never
\* for a failing model or database.
FeedbackMatches ==
    /\ result = "ok" => outcome = "success"
    /\ outcome = "success" => pc = "credited" \/ result = "ok" \/ (result = "rejected" /\ late)
    /\ result = "clarification" => outcome = "failure"
    /\ result = "error" => outcome = "none"

\* What generate_sql's caller relies on: a bounded number of drafts, none
\* answered or credited unchecked, and every answer credited.
Contract == INSTANCE CheckedGeneration WITH
    MaxDrafts <- MaxIterations,
    drafts <- count,
    draft  <- IF result = "ok" \/ pc = "credited" THEN "passed"
              ELSE IF pc = "done" \/ sql.kind = "none" THEN "none"
              ELSE IF pc \in {"validate", "explain"} THEN "unchecked"
              ELSE "failed",
    answer <- IF result = "none" THEN "none" ELSE IF result = "ok" THEN "sql" ELSE "other",
    credit <- outcome

KeepsContract == Contract!Spec

\* Every run ends, even when no database and no model ever answers.
Terminates == <>(pc = "done")

=============================================================================
