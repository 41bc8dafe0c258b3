--------------------------- MODULE ReActAgentProofs ---------------------------
(***************************************************************************)
(* For any tables, groups, limits and model answers, a run of the agent    *)
(* answers only checked SQL, drafts it for tables in focus, counts its     *)
(* drafts and feedback right, and keeps the contract of CheckedGeneration. *)
(***************************************************************************)
EXTENDS ReActAgent, TLAPS

\* The planner is past the head of the loop, with a generation to spend.
Spending == {"joins", "samples", "reason", "focus", "generate", "validate", "explain"}
Drafted  == {"validate", "explain"}

\* Every generation that was checked has been counted by the planner, and a
\* clarification that was asked for counts as one more.
BudgetInv ==
    /\ pc \in Spending => planned < MaxIterations
    /\ result = "none" /\ reason = "none"
         => count = IF pc \in Drafted THEN planned + 1 ELSE planned
    /\ reason = "exhausted" => count = MaxIterations

\* The current draft: none before the first one; under check in Drafted;
\* otherwise it was refused, and its errors are known unless it was empty.
DraftInv ==
    /\ sql = NoSql <=> count = 0
    /\ (pc \notin Drafted \cup {"credited"} /\ result # "ok") \/ reason # "none"
         => (result = "none" => count = 0 \/ sql = Empty \/ errs)
    /\ reason = "exhausted" => sql = Empty \/ errs

\* What a draft is written for, and what has been established of it.
FocusInv ==
    /\ pc \in {"generate", "credited"} \cup Drafted =>
          /\ genTables # {} /\ genTables \subseteq scope
          /\ Cardinality(genTables) <= MaxTables
          /\ Cardinality(scope) > MaxTables => schema # {}
    /\ pc \in {"explain", "credited"} =>
          /\ sql \in Sql /\ "unsafe" \notin sql.faults /\ Acceptable(sql)
          /\ tablesUsed = sql.tables \cap genTables

\* How the answer, the reason and the feedback go together.
VerdictInv ==
    /\ result = "none" <=> pc # "done"
    /\ pc \notin {"done", "clarify", "credited"} => reason = "none" /\ outcome = "none"
    /\ pc = "credited" => reason = "none" /\ outcome = "success"
    /\ pc = "clarify" => reason # "none" /\ outcome = "failure"
    /\ result = "ok" => outcome = "success"
    /\ outcome = "success" => pc = "credited" \/ result = "ok" \/ (result = "rejected" /\ late)
    /\ result = "clarification" => outcome = "failure"
    /\ result = "error" => outcome = "none"
    /\ result = "ok" => reason = "none"
    /\ outcome = "none" => reason = "none"

IInv ==
    /\ TypeOK
    /\ BudgetInv
    /\ DraftInv
    /\ FocusInv
    /\ VerdictInv
    /\ AnswerIsChecked

Assumptions ==
    /\ Mentioned \subseteq Tables /\ Question \in Texts /\ Question \notin Tables
    /\ GroupTables \in [Groups -> SUBSET Tables]
    /\ TopK \in Nat \ {0} /\ JoinLimit \in Nat
    /\ MaxIterations \in Nat \ {0} /\ MaxTables \in Nat \ {0}
    /\ LongQuestions \subseteq BOOLEAN
    /\ Drafts \subseteq Sql \cup {Empty}

\* The assumptions on the constants, in one place.
LEMMA ConstantsHold == Assumptions
BY TablesAssumption, GroupsAssumption, TextsAssumption, LimitsAssumption,
   LongAssumption, DraftsAssumption DEF Assumptions

\* A text is a draft, and neither of the two placeholders.
LEMMA SqlKinds ==
  /\ NoSql # Empty
  /\ \A q \in Sql : q.kind = "text" /\ q # NoSql /\ q # Empty
                    /\ q.tables \subseteq Tables /\ q.faults \subseteq Faults
  /\ NoSql.kind = "none" /\ Empty.kind = "empty"
BY DEF NoSql, Empty, Sql

-----------------------------------------------------------------------------
(* Each part of the invariant, step by step.                               *)

\* No step leaves the types: the budget bounds planned and count.
LEMMA TypesStep ==
  ASSUME IInv, Next, Assumptions
  PROVE  TypeOK'
<1> USE SqlKinds DEF IInv
<1>1. CASE Exhausted
  BY <1>1 DEF TypeOK, BudgetInv, VerdictInv, Assumptions, Spending, Drafted, Awaits,
     Acts, Retrievals, Exhausted, control, knowledge, candidate, verdict
<1>2. CASE DeadlinePassed
  BY <1>2 DEF TypeOK, BudgetInv, VerdictInv, Assumptions, Spending, Drafted, Awaits,
     Acts, Retrievals, DeadlinePassed, Planning, End, control, knowledge, candidate,
     verdict
<1>3. CASE PlanCorrections
  BY <1>3 DEF TypeOK, BudgetInv, VerdictInv, Assumptions, Spending, Drafted, Awaits,
     Acts, Retrievals, PlanCorrections, Planning, Fetch, Unfocus, control, knowledge,
     candidate, verdict
<1>4. CASE PlanSchema
  <2>1. CASE ~SchemaKnown /\ Fetch("loop", SchemaTarget) /\ Unfocus
                /\ UNCHANGED <<targets, corr, planned, checked, taken, knowledge, late, verdict>>
    BY <1>4, <2>1 DEF TypeOK, BudgetInv, VerdictInv, Assumptions, Spending, Drafted,
       Awaits, Acts, Retrievals, Planning, Schemaless, SchemaTarget, SchemaKnown,
       Uncovered, Conf, Fetch, Unfocus, GoGenerate, GoClarify, PlanSchema, control,
       knowledge, candidate, verdict
  <2>2. CASE GoGenerate /\ UNCHANGED <<knowledge, late, verdict>>
    BY <1>4, <2>2 DEF TypeOK, BudgetInv, VerdictInv, Assumptions, Spending, Drafted,
       Awaits, Acts, Retrievals, Planning, Schemaless, SchemaTarget, SchemaKnown,
       Uncovered, Conf, Fetch, Unfocus, GoGenerate, GoClarify, PlanSchema, control,
       knowledge, candidate, verdict
  <2>3. CASE scope = {} /\ GoClarify("clarify")
    BY <1>4, <2>3 DEF TypeOK, BudgetInv, VerdictInv, Assumptions, Spending, Drafted,
       Awaits, Acts, Retrievals, Planning, Schemaless, SchemaTarget, SchemaKnown,
       Uncovered, Conf, Fetch, Unfocus, GoGenerate, GoClarify, PlanSchema, control,
       knowledge, candidate, verdict
  <2>. QED
    BY <1>4, <2>1, <2>2, <2>3 DEF PlanSchema
<1>5. CASE PlanJoins
  BY <1>5 DEF TypeOK, BudgetInv, VerdictInv, Assumptions, Spending, Drafted, Awaits,
     Acts, Retrievals, PlanJoins, Planning, Unlinked, Unfocus, GoGenerate, control,
     knowledge, candidate, verdict
<1>6. CASE PlanGenerate
  BY <1>6 DEF TypeOK, BudgetInv, VerdictInv, Assumptions, Spending, Drafted, Awaits,
     Acts, Retrievals, PlanGenerate, Planning, GoGenerate, control, knowledge,
     candidate, verdict
<1>7. CASE PlanByModel
  BY <1>7 DEF TypeOK, BudgetInv, VerdictInv, Assumptions, Spending, Drafted, Awaits,
     Acts, Retrievals, PlanByModel, Planning, control, knowledge, candidate, verdict
<1>8. CASE Validate
  <2>1. planned + 1 \in 0..MaxIterations
    BY <1>8 DEF TypeOK, BudgetInv, Spending, Assumptions, Validate
  <2>2. tablesUsed' \subseteq Tables /\ errs' \in BOOLEAN /\ planned' \in 0..MaxIterations
    BY <1>8, <2>1 DEF TypeOK, Validate, NextIteration, control
  <2>3. pc' \in {"plan", "explain"}
    BY <1>8 DEF Validate, NextIteration
  <2>4. UNCHANGED <<task, asked, targets, corr, checked, taken, knowledge, genTables, sql,
                    count, late, verdict>>
    BY <1>8 DEF Validate, NextIteration, control
  <2>. QED
    BY <2>2, <2>3, <2>4 DEF TypeOK, Awaits, knowledge, verdict
<1>9. CASE RetrieveGroups
  BY <1>9 DEF TypeOK, BudgetInv, VerdictInv, Assumptions, Spending, Drafted, Awaits,
     Acts, Retrievals, RetrieveGroups, control, knowledge, candidate, verdict
<1>10. CASE RetrieveColumns
  BY <1>10 DEF TypeOK, BudgetInv, VerdictInv, Assumptions, Spending, Drafted, Awaits,
     Acts, Retrievals, RetrieveColumns, control, knowledge, candidate, verdict
<1>11. CASE RetrieveCorrections
  BY <1>11 DEF TypeOK, BudgetInv, VerdictInv, Assumptions, Spending, Drafted, Awaits,
     Acts, Retrievals, RetrieveCorrections, control, knowledge, candidate, verdict
<1>12. CASE Gather
  BY <1>12 DEF TypeOK, BudgetInv, VerdictInv, Assumptions, Spending, Drafted, Awaits,
     Acts, Retrievals, Gather, control, knowledge, candidate, verdict
<1>13. CASE RetrieveJoins
  BY <1>13 DEF TypeOK, BudgetInv, VerdictInv, Assumptions, Spending, Drafted, Awaits,
     Acts, Retrievals, RetrieveJoins, control, knowledge, candidate, verdict
<1>14. CASE RetrieveSamples
  BY <1>14 DEF TypeOK, BudgetInv, VerdictInv, Assumptions, Spending, Drafted, Awaits,
     Acts, Retrievals, RetrieveSamples, control, knowledge, candidate, verdict
<1>15. CASE RetrievalRaises
  BY <1>15 DEF TypeOK, BudgetInv, VerdictInv, Assumptions, Spending, Drafted, Awaits,
     Acts, Retrievals, RetrievalRaises, End, control, knowledge, candidate, verdict
<1>16. CASE Clarify
  BY <1>16 DEF TypeOK, BudgetInv, VerdictInv, Assumptions, Spending, Drafted, Awaits,
     Acts, Retrievals, Clarify, End, control, knowledge, candidate, verdict
<1>17. CASE ModelSamples
  BY <1>17 DEF TypeOK, BudgetInv, VerdictInv, Assumptions, Spending, Drafted, Awaits,
     Acts, Retrievals, ModelSamples, GoGenerate, Unfocus, control, knowledge, candidate,
     verdict
<1>18. CASE ModelGenerates
  BY <1>18 DEF TypeOK, BudgetInv, VerdictInv, Assumptions, Spending, Drafted, Awaits,
     Acts, Retrievals, ModelGenerates, GoGenerate, control, knowledge, candidate,
     verdict
<1>19. CASE ModelStops
  BY <1>19 DEF TypeOK, BudgetInv, VerdictInv, Assumptions, Spending, Drafted, Awaits,
     Acts, Retrievals, ModelStops, GoClarify, control, knowledge, candidate, verdict
<1>20. CASE ModelFails
  BY <1>20 DEF TypeOK, BudgetInv, VerdictInv, Assumptions, Spending, Drafted, Awaits,
     Acts, Retrievals, ModelFails, End, control, knowledge, candidate, verdict
<1>21. CASE Focus
  BY <1>21 DEF TypeOK, BudgetInv, VerdictInv, Assumptions, Spending, Drafted, Awaits,
     Acts, Retrievals, Focus, Fetch, control, knowledge, candidate, verdict
<1>22. CASE Generate
  <2>1. count + 1 \in 0..MaxIterations
    BY <1>22 DEF TypeOK, BudgetInv, VerdictInv, Spending, Drafted, Assumptions, Generate
  <2>2. sql' \in Sql \cup {NoSql, Empty}
    BY <1>22 DEF Generate, Assumptions
  <2>3. taken' \subseteq Acts \X SUBSET (Tables \cup Texts)
    BY <1>22 DEF TypeOK, Generate, Acts
  <2>4. /\ pc' = "validate" /\ errs' \in BOOLEAN /\ count' = count + 1
        /\ UNCHANGED <<task, asked, targets, corr, planned, checked, knowledge, genTables,
                       tablesUsed, late, verdict>>
    BY <1>22 DEF Generate
  <2>. QED
    BY <2>1, <2>2, <2>3, <2>4 DEF TypeOK, knowledge, verdict
<1>23. CASE GenerationFails
  BY <1>23 DEF TypeOK, BudgetInv, VerdictInv, Assumptions, Spending, Drafted, Awaits,
     Acts, Retrievals, GenerationFails, End, control, knowledge, candidate, verdict
<1>24. CASE ExplainPasses
  BY <1>24 DEF TypeOK, BudgetInv, VerdictInv, Assumptions, Spending, Drafted, Awaits,
     Acts, Retrievals, ExplainPasses, control, knowledge, candidate, verdict
<1>25. CASE ExplainFails
  BY <1>25 DEF TypeOK, BudgetInv, VerdictInv, Assumptions, Spending, Drafted, Awaits,
     Acts, Retrievals, ExplainFails, NextIteration, control, knowledge, candidate,
     verdict
<1>26. CASE Tick
  BY <1>26 DEF TypeOK, BudgetInv, VerdictInv, Assumptions, Spending, Drafted, Awaits,
     Acts, Retrievals, Tick, control, knowledge, candidate, verdict
<1>27. CASE Cancel
  BY <1>27 DEF TypeOK, BudgetInv, VerdictInv, Assumptions, Spending, Drafted, Awaits,
     Acts, Retrievals, Cancel, End, control, knowledge, candidate, verdict
<1>28. CASE Return
  BY <1>28 DEF TypeOK, BudgetInv, VerdictInv, Assumptions, Spending, Drafted, Awaits,
     Acts, Retrievals, Return, End, control, knowledge, candidate, verdict
<1>. QED
  BY <1>1, <1>2, <1>3, <1>4, <1>5, <1>6, <1>7, <1>8, <1>9, <1>10, <1>11, <1>12, <1>13,
     <1>14, <1>15, <1>16, <1>17, <1>18, <1>19, <1>20, <1>21, <1>22, <1>23, <1>24, <1>25,
     <1>26, <1>27, <1>28 DEF Next, Decide, Continue

\* Only a finished generation or a clarification is counted.
LEMMA BudgetStep ==
  ASSUME IInv, Next, Assumptions
  PROVE  BudgetInv'
<1> USE SqlKinds DEF IInv
<1>1. CASE Exhausted
  BY <1>1 DEF TypeOK, BudgetInv, VerdictInv, Assumptions, Spending, Drafted, Exhausted,
     control, knowledge, candidate, verdict
<1>2. CASE DeadlinePassed
  BY <1>2 DEF TypeOK, BudgetInv, VerdictInv, Assumptions, Spending, Drafted,
     DeadlinePassed, Planning, End, control, knowledge, candidate, verdict
<1>3. CASE PlanCorrections
  BY <1>3 DEF TypeOK, BudgetInv, VerdictInv, Assumptions, Spending, Drafted,
     PlanCorrections, Planning, Fetch, Unfocus, control, knowledge, candidate, verdict
<1>4. CASE PlanSchema
  BY <1>4 DEF TypeOK, BudgetInv, VerdictInv, Assumptions, Spending, Drafted, PlanSchema,
     Planning, Schemaless, SchemaTarget, SchemaKnown, Uncovered, Conf, Fetch, Unfocus,
     GoGenerate, GoClarify, control, knowledge, candidate, verdict
<1>5. CASE PlanJoins
  BY <1>5 DEF TypeOK, BudgetInv, VerdictInv, Assumptions, Spending, Drafted, PlanJoins,
     Planning, Unlinked, Unfocus, GoGenerate, control, knowledge, candidate, verdict
<1>6. CASE PlanGenerate
  BY <1>6 DEF TypeOK, BudgetInv, VerdictInv, Assumptions, Spending, Drafted,
     PlanGenerate, Planning, GoGenerate, control, knowledge, candidate, verdict
<1>7. CASE PlanByModel
  BY <1>7 DEF TypeOK, BudgetInv, VerdictInv, Assumptions, Spending, Drafted,
     PlanByModel, Planning, control, knowledge, candidate, verdict
<1>8. CASE Validate
  BY <1>8 DEF TypeOK, BudgetInv, VerdictInv, Assumptions, Spending, Drafted, Validate,
     NextIteration, Acceptable, Described, Undescribed, control, knowledge, candidate,
     verdict
<1>9. CASE RetrieveGroups
  BY <1>9 DEF TypeOK, BudgetInv, VerdictInv, Assumptions, Spending, Drafted,
     RetrieveGroups, control, knowledge, candidate, verdict
<1>10. CASE RetrieveColumns
  BY <1>10 DEF TypeOK, BudgetInv, VerdictInv, Assumptions, Spending, Drafted,
     RetrieveColumns, control, knowledge, candidate, verdict
<1>11. CASE RetrieveCorrections
  BY <1>11 DEF TypeOK, BudgetInv, VerdictInv, Assumptions, Spending, Drafted,
     RetrieveCorrections, control, knowledge, candidate, verdict
<1>12. CASE Gather
  BY <1>12 DEF TypeOK, BudgetInv, VerdictInv, Assumptions, Spending, Drafted, Gather,
     control, knowledge, candidate, verdict
<1>13. CASE RetrieveJoins
  BY <1>13 DEF TypeOK, BudgetInv, VerdictInv, Assumptions, Spending, Drafted,
     RetrieveJoins, control, knowledge, candidate, verdict
<1>14. CASE RetrieveSamples
  BY <1>14 DEF TypeOK, BudgetInv, VerdictInv, Assumptions, Spending, Drafted,
     RetrieveSamples, control, knowledge, candidate, verdict
<1>15. CASE RetrievalRaises
  BY <1>15 DEF TypeOK, BudgetInv, VerdictInv, Assumptions, Spending, Drafted,
     RetrievalRaises, End, control, knowledge, candidate, verdict
<1>16. CASE Clarify
  BY <1>16 DEF TypeOK, BudgetInv, VerdictInv, Assumptions, Spending, Drafted, Clarify,
     End, control, knowledge, candidate, verdict
<1>17. CASE ModelSamples
  BY <1>17 DEF TypeOK, BudgetInv, VerdictInv, Assumptions, Spending, Drafted,
     ModelSamples, GoGenerate, Unfocus, control, knowledge, candidate, verdict
<1>18. CASE ModelGenerates
  BY <1>18 DEF TypeOK, BudgetInv, VerdictInv, Assumptions, Spending, Drafted,
     ModelGenerates, GoGenerate, control, knowledge, candidate, verdict
<1>19. CASE ModelStops
  BY <1>19 DEF TypeOK, BudgetInv, VerdictInv, Assumptions, Spending, Drafted,
     ModelStops, GoClarify, control, knowledge, candidate, verdict
<1>20. CASE ModelFails
  BY <1>20 DEF TypeOK, BudgetInv, VerdictInv, Assumptions, Spending, Drafted,
     ModelFails, End, control, knowledge, candidate, verdict
<1>21. CASE Focus
  BY <1>21 DEF TypeOK, BudgetInv, VerdictInv, Assumptions, Spending, Drafted, Focus,
     Fetch, control, knowledge, candidate, verdict
<1>22. CASE Generate
  BY <1>22 DEF TypeOK, BudgetInv, VerdictInv, Assumptions, Spending, Drafted, Generate,
     control, knowledge, candidate, verdict
<1>23. CASE GenerationFails
  BY <1>23 DEF TypeOK, BudgetInv, VerdictInv, Assumptions, Spending, Drafted,
     GenerationFails, End, control, knowledge, candidate, verdict
<1>24. CASE ExplainPasses
  BY <1>24 DEF TypeOK, BudgetInv, VerdictInv, Assumptions, Spending, Drafted,
     ExplainPasses, control, knowledge, candidate, verdict
<1>25. CASE ExplainFails
  BY <1>25 DEF TypeOK, BudgetInv, VerdictInv, Assumptions, Spending, Drafted,
     ExplainFails, NextIteration, control, knowledge, candidate, verdict
<1>26. CASE Tick
  BY <1>26 DEF TypeOK, BudgetInv, VerdictInv, Assumptions, Spending, Drafted, Tick,
     control, knowledge, candidate, verdict
<1>27. CASE Cancel
  BY <1>27 DEF TypeOK, BudgetInv, VerdictInv, Assumptions, Spending, Drafted, Cancel,
     End, Awaits, control, knowledge, candidate, verdict
<1>28. CASE Return
  BY <1>28 DEF TypeOK, BudgetInv, VerdictInv, Assumptions, Spending, Drafted,
     Return, End, control, knowledge, candidate, verdict
<1>. QED
  BY <1>1, <1>2, <1>3, <1>4, <1>5, <1>6, <1>7, <1>8, <1>9, <1>10, <1>11, <1>12, <1>13,
     <1>14, <1>15, <1>16, <1>17, <1>18, <1>19, <1>20, <1>21, <1>22, <1>23, <1>24, <1>25,
     <1>26, <1>27, <1>28 DEF Next, Decide, Continue

\* A draft is refused with its errors recorded, or it was empty.
LEMMA DraftStep ==
  ASSUME IInv, Next, Assumptions
  PROVE  DraftInv'
<1> USE SqlKinds DEF IInv
<1>1. CASE Exhausted
  BY <1>1 DEF TypeOK, BudgetInv, DraftInv, VerdictInv, Assumptions, Drafted, Spending,
     Exhausted, control, knowledge, candidate, verdict
<1>2. CASE DeadlinePassed
  BY <1>2 DEF TypeOK, BudgetInv, DraftInv, VerdictInv, Assumptions, Drafted, Spending,
     DeadlinePassed, Planning, End, control, knowledge, candidate, verdict
<1>3. CASE PlanCorrections
  BY <1>3 DEF TypeOK, BudgetInv, DraftInv, VerdictInv, Assumptions, Drafted, Spending,
     PlanCorrections, Planning, Fetch, Unfocus, control, knowledge, candidate, verdict
<1>4. CASE PlanSchema
  <2>1. CASE ~SchemaKnown /\ Fetch("loop", SchemaTarget) /\ Unfocus
                /\ UNCHANGED <<targets, corr, planned, checked, taken, knowledge, late, verdict>>
    BY <1>4, <2>1 DEF TypeOK, BudgetInv, DraftInv, VerdictInv, Assumptions, Drafted,
       Spending, Planning, Schemaless, SchemaTarget, SchemaKnown, Uncovered, Conf,
       Fetch, Unfocus, GoGenerate, GoClarify, PlanSchema, control, knowledge, candidate,
       verdict
  <2>2. CASE GoGenerate /\ UNCHANGED <<knowledge, late, verdict>>
    BY <1>4, <2>2 DEF TypeOK, BudgetInv, DraftInv, VerdictInv, Assumptions, Drafted,
       Spending, Planning, Schemaless, SchemaTarget, SchemaKnown, Uncovered, Conf,
       Fetch, Unfocus, GoGenerate, GoClarify, PlanSchema, control, knowledge, candidate,
       verdict
  <2>3. CASE scope = {} /\ GoClarify("clarify")
    BY <1>4, <2>3 DEF TypeOK, BudgetInv, DraftInv, VerdictInv, Assumptions, Drafted,
       Spending, Planning, Schemaless, SchemaTarget, SchemaKnown, Uncovered, Conf,
       Fetch, Unfocus, GoGenerate, GoClarify, PlanSchema, control, knowledge, candidate,
       verdict
  <2>. QED
    BY <1>4, <2>1, <2>2, <2>3 DEF PlanSchema
<1>5. CASE PlanJoins
  BY <1>5 DEF TypeOK, BudgetInv, DraftInv, VerdictInv, Assumptions, Drafted, Spending,
     PlanJoins, Planning, Unlinked, Unfocus, GoGenerate, control, knowledge, candidate,
     verdict
<1>6. CASE PlanGenerate
  BY <1>6 DEF TypeOK, BudgetInv, DraftInv, VerdictInv, Assumptions, Drafted, Spending,
     PlanGenerate, Planning, GoGenerate, control, knowledge, candidate, verdict
<1>7. CASE PlanByModel
  BY <1>7 DEF TypeOK, BudgetInv, DraftInv, VerdictInv, Assumptions, Drafted, Spending,
     PlanByModel, Planning, control, knowledge, candidate, verdict
<1>8. CASE Validate
  BY <1>8 DEF TypeOK, BudgetInv, DraftInv, VerdictInv, Assumptions, Drafted, Spending,
     Validate, NextIteration, Acceptable, Described, Undescribed, control, knowledge,
     candidate, verdict
<1>9. CASE RetrieveGroups
  BY <1>9 DEF TypeOK, BudgetInv, DraftInv, VerdictInv, Assumptions, Drafted, Spending,
     RetrieveGroups, control, knowledge, candidate, verdict
<1>10. CASE RetrieveColumns
  BY <1>10 DEF TypeOK, BudgetInv, DraftInv, VerdictInv, Assumptions, Drafted, Spending,
     RetrieveColumns, control, knowledge, candidate, verdict
<1>11. CASE RetrieveCorrections
  BY <1>11 DEF TypeOK, BudgetInv, DraftInv, VerdictInv, Assumptions, Drafted, Spending,
     RetrieveCorrections, control, knowledge, candidate, verdict
<1>12. CASE Gather
  BY <1>12 DEF TypeOK, BudgetInv, DraftInv, VerdictInv, Assumptions, Drafted, Spending,
     Gather, control, knowledge, candidate, verdict
<1>13. CASE RetrieveJoins
  BY <1>13 DEF TypeOK, BudgetInv, DraftInv, VerdictInv, Assumptions, Drafted, Spending,
     RetrieveJoins, control, knowledge, candidate, verdict
<1>14. CASE RetrieveSamples
  BY <1>14 DEF TypeOK, BudgetInv, DraftInv, VerdictInv, Assumptions, Drafted, Spending,
     RetrieveSamples, control, knowledge, candidate, verdict
<1>15. CASE RetrievalRaises
  BY <1>15 DEF TypeOK, BudgetInv, DraftInv, VerdictInv, Assumptions, Drafted, Spending,
     RetrievalRaises, End, control, knowledge, candidate, verdict
<1>16. CASE Clarify
  BY <1>16 DEF TypeOK, BudgetInv, DraftInv, VerdictInv, Assumptions, Drafted, Spending,
     Clarify, End, control, knowledge, candidate, verdict
<1>17. CASE ModelSamples
  BY <1>17 DEF TypeOK, BudgetInv, DraftInv, VerdictInv, Assumptions, Drafted, Spending,
     ModelSamples, GoGenerate, Unfocus, control, knowledge, candidate, verdict
<1>18. CASE ModelGenerates
  BY <1>18 DEF TypeOK, BudgetInv, DraftInv, VerdictInv, Assumptions, Drafted, Spending,
     ModelGenerates, GoGenerate, control, knowledge, candidate, verdict
<1>19. CASE ModelStops
  BY <1>19 DEF TypeOK, BudgetInv, DraftInv, VerdictInv, Assumptions, Drafted, Spending,
     ModelStops, GoClarify, control, knowledge, candidate, verdict
<1>20. CASE ModelFails
  BY <1>20 DEF TypeOK, BudgetInv, DraftInv, VerdictInv, Assumptions, Drafted, Spending,
     ModelFails, End, control, knowledge, candidate, verdict
<1>21. CASE Focus
  BY <1>21 DEF TypeOK, BudgetInv, DraftInv, VerdictInv, Assumptions, Drafted, Spending,
     Focus, Fetch, control, knowledge, candidate, verdict
<1>22. CASE Generate
  BY <1>22 DEF TypeOK, BudgetInv, DraftInv, VerdictInv, Assumptions, Drafted, Spending,
     Generate, control, knowledge, candidate, verdict
<1>23. CASE GenerationFails
  BY <1>23 DEF TypeOK, BudgetInv, DraftInv, VerdictInv, Assumptions, Drafted, Spending,
     GenerationFails, End, control, knowledge, candidate, verdict
<1>24. CASE ExplainPasses
  BY <1>24 DEF TypeOK, BudgetInv, DraftInv, VerdictInv, Assumptions, Drafted, Spending,
     ExplainPasses, control, knowledge, candidate, verdict
<1>25. CASE ExplainFails
  BY <1>25 DEF TypeOK, BudgetInv, DraftInv, VerdictInv, Assumptions, Drafted, Spending,
     ExplainFails, NextIteration, control, knowledge, candidate, verdict
<1>26. CASE Tick
  BY <1>26 DEF TypeOK, BudgetInv, DraftInv, VerdictInv, Assumptions, Drafted, Spending,
     Tick, control, knowledge, candidate, verdict
<1>27. CASE Cancel
  BY <1>27 DEF TypeOK, BudgetInv, DraftInv, VerdictInv, Assumptions, Drafted, Spending,
     Cancel, End, Awaits, control, knowledge, candidate, verdict
<1>28. CASE Return
  BY <1>28 DEF TypeOK, BudgetInv, DraftInv, VerdictInv, Assumptions, Drafted, Spending,
     Return, End, control, knowledge, candidate, verdict
<1>. QED
  BY <1>1, <1>2, <1>3, <1>4, <1>5, <1>6, <1>7, <1>8, <1>9, <1>10, <1>11, <1>12, <1>13,
     <1>14, <1>15, <1>16, <1>17, <1>18, <1>19, <1>20, <1>21, <1>22, <1>23, <1>24, <1>25,
     <1>26, <1>27, <1>28 DEF Next, Decide, Continue

\* Drafting begins with tables in focus, and EXPLAIN with a text that passed.
LEMMA FocusedStep ==
  ASSUME IInv, Next, Assumptions
  PROVE  FocusInv'
<1> USE SqlKinds DEF IInv
<1>1. CASE Exhausted
  BY <1>1 DEF TypeOK, FocusInv, Assumptions, Drafted, Acceptable, Described,
     Undescribed, Exhausted, control, knowledge, candidate, verdict
<1>2. CASE DeadlinePassed
  BY <1>2 DEF TypeOK, FocusInv, Assumptions, Drafted, Acceptable, Described,
     Undescribed, DeadlinePassed, Planning, End, control, knowledge, candidate, verdict
<1>3. CASE PlanCorrections
  BY <1>3 DEF TypeOK, FocusInv, Assumptions, Drafted, Acceptable, Described,
     Undescribed, PlanCorrections, Planning, Fetch, Unfocus, control, knowledge,
     candidate, verdict
<1>4. CASE PlanSchema
  BY <1>4 DEF TypeOK, FocusInv, Assumptions, Drafted, Acceptable, Described,
     Undescribed, PlanSchema, Planning, Schemaless, SchemaTarget, SchemaKnown,
     Uncovered, Conf, Fetch, Unfocus, GoGenerate, GoClarify, control, knowledge,
     candidate, verdict
<1>5. CASE PlanJoins
  BY <1>5 DEF TypeOK, FocusInv, Assumptions, Drafted, Acceptable, Described,
     Undescribed, PlanJoins, Planning, Unlinked, Unfocus, GoGenerate, control,
     knowledge, candidate, verdict
<1>6. CASE PlanGenerate
  BY <1>6 DEF TypeOK, FocusInv, Assumptions, Drafted, Acceptable, Described,
     Undescribed, PlanGenerate, Planning, GoGenerate, control, knowledge, candidate,
     verdict
<1>7. CASE PlanByModel
  BY <1>7 DEF TypeOK, FocusInv, Assumptions, Drafted, Acceptable, Described,
     Undescribed, PlanByModel, Planning, control, knowledge, candidate, verdict
<1>8. CASE Validate
  <2>1. sql \in Sql \cup {Empty}
    BY <1>8 DEF Validate, TypeOK, DraftInv, BudgetInv, VerdictInv, Drafted, Assumptions
  <2>2. FocusInv!1'
    BY <1>8 DEF Validate, NextIteration, FocusInv, Drafted, control, knowledge,
       candidate, verdict
  <2>3. pc' = "explain" => /\ sql # Empty /\ "unsafe" \notin sql.faults /\ Acceptable(sql)
                          /\ tablesUsed' = sql.tables \cap genTables
    BY <1>8 DEF Validate, NextIteration
  <2>4. UNCHANGED <<sql, genTables, schema>>
    BY <1>8 DEF Validate, knowledge
  <2>. QED
    <3>1. pc' # "credited"
      BY <1>8 DEF Validate, NextIteration
    <3>. QED
      BY <2>1, <2>2, <2>3, <2>4, <3>1 DEF FocusInv, Acceptable, Described, Undescribed
<1>9. CASE RetrieveGroups
  BY <1>9 DEF TypeOK, FocusInv, Assumptions, Drafted, Acceptable, Described,
     Undescribed, RetrieveGroups, control, knowledge, candidate, verdict
<1>10. CASE RetrieveColumns
  BY <1>10 DEF TypeOK, FocusInv, Assumptions, Drafted, Acceptable, Described,
     Undescribed, RetrieveColumns, control, knowledge, candidate, verdict
<1>11. CASE RetrieveCorrections
  BY <1>11 DEF TypeOK, FocusInv, Assumptions, Drafted, Acceptable, Described,
     Undescribed, RetrieveCorrections, control, knowledge, candidate, verdict
<1>12. CASE Gather
  BY <1>12 DEF TypeOK, FocusInv, Assumptions, Drafted, Acceptable, Described,
     Undescribed, Gather, control, knowledge, candidate, verdict
<1>13. CASE RetrieveJoins
  BY <1>13 DEF TypeOK, FocusInv, Assumptions, Drafted, Acceptable, Described,
     Undescribed, RetrieveJoins, control, knowledge, candidate, verdict
<1>14. CASE RetrieveSamples
  BY <1>14 DEF TypeOK, FocusInv, Assumptions, Drafted, Acceptable, Described,
     Undescribed, RetrieveSamples, control, knowledge, candidate, verdict
<1>15. CASE RetrievalRaises
  BY <1>15 DEF TypeOK, FocusInv, Assumptions, Drafted, Acceptable, Described,
     Undescribed, RetrievalRaises, End, control, knowledge, candidate, verdict
<1>16. CASE Clarify
  BY <1>16 DEF TypeOK, FocusInv, Assumptions, Drafted, Acceptable, Described,
     Undescribed, Clarify, End, control, knowledge, candidate, verdict
<1>17. CASE ModelSamples
  BY <1>17 DEF TypeOK, FocusInv, Assumptions, Drafted, Acceptable, Described,
     Undescribed, ModelSamples, GoGenerate, Unfocus, control, knowledge, candidate,
     verdict
<1>18. CASE ModelGenerates
  BY <1>18 DEF TypeOK, FocusInv, Assumptions, Drafted, Acceptable, Described,
     Undescribed, ModelGenerates, GoGenerate, control, knowledge, candidate, verdict
<1>19. CASE ModelStops
  BY <1>19 DEF TypeOK, FocusInv, Assumptions, Drafted, Acceptable, Described,
     Undescribed, ModelStops, GoClarify, control, knowledge, candidate, verdict
<1>20. CASE ModelFails
  BY <1>20 DEF TypeOK, FocusInv, Assumptions, Drafted, Acceptable, Described,
     Undescribed, ModelFails, End, control, knowledge, candidate, verdict
<1>21. CASE Focus
  BY <1>21 DEF TypeOK, FocusInv, Assumptions, Drafted, Acceptable, Described,
     Undescribed, Focus, Fetch, control, knowledge, candidate, verdict
<1>22. CASE Generate
  BY <1>22 DEF TypeOK, FocusInv, Assumptions, Drafted, Acceptable, Described,
     Undescribed, Generate, control, knowledge, candidate, verdict
<1>23. CASE GenerationFails
  BY <1>23 DEF TypeOK, FocusInv, Assumptions, Drafted, Acceptable, Described,
     Undescribed, GenerationFails, End, control, knowledge, candidate, verdict
<1>24. CASE ExplainPasses
  BY <1>24 DEF TypeOK, FocusInv, Assumptions, Drafted, Acceptable, Described,
     Undescribed, ExplainPasses, control, knowledge, candidate, verdict
<1>25. CASE ExplainFails
  BY <1>25 DEF TypeOK, FocusInv, Assumptions, Drafted, Acceptable, Described,
     Undescribed, ExplainFails, NextIteration, control, knowledge, candidate, verdict
<1>26. CASE Tick
  BY <1>26 DEF TypeOK, FocusInv, Assumptions, Drafted, Acceptable, Described,
     Undescribed, Tick, control, knowledge, candidate, verdict
<1>27. CASE Cancel
  BY <1>27 DEF TypeOK, FocusInv, Assumptions, Drafted, Acceptable, Described,
     Undescribed, Cancel, End, Awaits, control, knowledge, candidate, verdict
<1>28. CASE Return
  BY <1>28 DEF TypeOK, FocusInv, Assumptions, Drafted, Acceptable, Described,
     Undescribed, Return, control, knowledge, candidate, verdict
<1>. QED
  BY <1>1, <1>2, <1>3, <1>4, <1>5, <1>6, <1>7, <1>8, <1>9, <1>10, <1>11, <1>12, <1>13,
     <1>14, <1>15, <1>16, <1>17, <1>18, <1>19, <1>20, <1>21, <1>22, <1>23, <1>24, <1>25,
     <1>26, <1>27, <1>28 DEF Next, Decide, Continue

\* Answer, reason and feedback are set together.
LEMMA VerdictStep ==
  ASSUME IInv, Next, Assumptions
  PROVE  VerdictInv'
<1> USE SqlKinds DEF IInv
<1>1. CASE Exhausted
  BY <1>1 DEF TypeOK, VerdictInv, Awaits, Exhausted, control, knowledge, candidate,
     verdict
<1>2. CASE DeadlinePassed
  BY <1>2 DEF TypeOK, VerdictInv, Awaits, DeadlinePassed, Planning, End, control,
     knowledge, candidate, verdict
<1>3. CASE PlanCorrections
  BY <1>3 DEF TypeOK, VerdictInv, Awaits, PlanCorrections, Planning, Fetch, Unfocus,
     control, knowledge, candidate, verdict
<1>4. CASE PlanSchema
  BY <1>4 DEF TypeOK, VerdictInv, Awaits, PlanSchema, Planning, Schemaless,
     SchemaTarget, SchemaKnown, Uncovered, Conf, Fetch, Unfocus, GoGenerate, GoClarify,
     control, knowledge, candidate, verdict
<1>5. CASE PlanJoins
  BY <1>5 DEF TypeOK, VerdictInv, Awaits, PlanJoins, Planning, Unlinked, Unfocus,
     GoGenerate, control, knowledge, candidate, verdict
<1>6. CASE PlanGenerate
  BY <1>6 DEF TypeOK, VerdictInv, Awaits, PlanGenerate, Planning, GoGenerate, control,
     knowledge, candidate, verdict
<1>7. CASE PlanByModel
  BY <1>7 DEF TypeOK, VerdictInv, Awaits, PlanByModel, Planning, control, knowledge,
     candidate, verdict
<1>8. CASE Validate
  BY <1>8 DEF TypeOK, VerdictInv, Awaits, Validate, NextIteration, Acceptable,
     Described, Undescribed, control, knowledge, candidate, verdict
<1>9. CASE RetrieveGroups
  BY <1>9 DEF TypeOK, VerdictInv, Awaits, RetrieveGroups, control, knowledge, candidate,
     verdict
<1>10. CASE RetrieveColumns
  BY <1>10 DEF TypeOK, VerdictInv, Awaits, RetrieveColumns, control, knowledge,
     candidate, verdict
<1>11. CASE RetrieveCorrections
  BY <1>11 DEF TypeOK, VerdictInv, Awaits, RetrieveCorrections, control, knowledge,
     candidate, verdict
<1>12. CASE Gather
  BY <1>12 DEF TypeOK, VerdictInv, Awaits, Gather, control, knowledge, candidate, verdict
<1>13. CASE RetrieveJoins
  BY <1>13 DEF TypeOK, VerdictInv, Awaits, RetrieveJoins, control, knowledge, candidate,
     verdict
<1>14. CASE RetrieveSamples
  BY <1>14 DEF TypeOK, VerdictInv, Awaits, RetrieveSamples, control, knowledge,
     candidate, verdict
<1>15. CASE RetrievalRaises
  BY <1>15 DEF TypeOK, VerdictInv, Awaits, RetrievalRaises, End, control, knowledge,
     candidate, verdict
<1>16. CASE Clarify
  BY <1>16 DEF TypeOK, VerdictInv, Awaits, Clarify, End, control, knowledge, candidate,
     verdict
<1>17. CASE ModelSamples
  BY <1>17 DEF TypeOK, VerdictInv, Awaits, ModelSamples, GoGenerate, Unfocus, control,
     knowledge, candidate, verdict
<1>18. CASE ModelGenerates
  BY <1>18 DEF TypeOK, VerdictInv, Awaits, ModelGenerates, GoGenerate, control,
     knowledge, candidate, verdict
<1>19. CASE ModelStops
  BY <1>19 DEF TypeOK, VerdictInv, Awaits, ModelStops, GoClarify, control, knowledge,
     candidate, verdict
<1>20. CASE ModelFails
  BY <1>20 DEF TypeOK, VerdictInv, Awaits, ModelFails, End, control, knowledge,
     candidate, verdict
<1>21. CASE Focus
  BY <1>21 DEF TypeOK, VerdictInv, Awaits, Focus, Fetch, control, knowledge, candidate,
     verdict
<1>22. CASE Generate
  BY <1>22 DEF TypeOK, VerdictInv, Awaits, Generate, control, knowledge, candidate,
     verdict
<1>23. CASE GenerationFails
  BY <1>23 DEF TypeOK, VerdictInv, Awaits, GenerationFails, End, control, knowledge,
     candidate, verdict
<1>24. CASE ExplainPasses
  BY <1>24 DEF TypeOK, VerdictInv, Awaits, ExplainPasses, control, knowledge, candidate,
     verdict
<1>25. CASE ExplainFails
  BY <1>25 DEF TypeOK, VerdictInv, Awaits, ExplainFails, NextIteration, control,
     knowledge, candidate, verdict
<1>26. CASE Tick
  BY <1>26 DEF TypeOK, VerdictInv, Awaits, Tick, control, knowledge, candidate, verdict
<1>27. CASE Cancel
  BY <1>27 DEF TypeOK, VerdictInv, Awaits, Cancel, End, control, knowledge, candidate,
     verdict
<1>28. CASE Return
  BY <1>28 DEF TypeOK, VerdictInv, Awaits, Return, End, control, knowledge, candidate,
     verdict
<1>. QED
  BY <1>1, <1>2, <1>3, <1>4, <1>5, <1>6, <1>7, <1>8, <1>9, <1>10, <1>11, <1>12, <1>13,
     <1>14, <1>15, <1>16, <1>17, <1>18, <1>19, <1>20, <1>21, <1>22, <1>23, <1>24, <1>25,
     <1>26, <1>27, <1>28 DEF Next, Decide, Continue

\* Only a text that passed every check is answered.
LEMMA AnswerStep ==
  ASSUME IInv, Next, Assumptions
  PROVE  AnswerIsChecked'
<1> USE SqlKinds DEF IInv
<1>1. CASE Exhausted
  BY <1>1 DEF TypeOK, FocusInv, VerdictInv, AnswerIsChecked, Acceptable, Described,
     Undescribed, Faults, Exhausted, control, knowledge, candidate, verdict
<1>2. CASE DeadlinePassed
  BY <1>2 DEF TypeOK, FocusInv, VerdictInv, AnswerIsChecked, Acceptable, Described,
     Undescribed, Faults, DeadlinePassed, Planning, End, control, knowledge, candidate,
     verdict
<1>3. CASE PlanCorrections
  BY <1>3 DEF TypeOK, FocusInv, VerdictInv, AnswerIsChecked, Acceptable, Described,
     Undescribed, Faults, PlanCorrections, Planning, Fetch, Unfocus, control, knowledge,
     candidate, verdict
<1>4. CASE PlanSchema
  BY <1>4 DEF TypeOK, FocusInv, VerdictInv, AnswerIsChecked, Acceptable, Described,
     Undescribed, Faults, PlanSchema, Planning, Schemaless, SchemaTarget, SchemaKnown,
     Uncovered, Conf, Fetch, Unfocus, GoGenerate, GoClarify, control, knowledge,
     candidate, verdict
<1>5. CASE PlanJoins
  BY <1>5 DEF TypeOK, FocusInv, VerdictInv, AnswerIsChecked, Acceptable, Described,
     Undescribed, Faults, PlanJoins, Planning, Unlinked, Unfocus, GoGenerate, control,
     knowledge, candidate, verdict
<1>6. CASE PlanGenerate
  BY <1>6 DEF TypeOK, FocusInv, VerdictInv, AnswerIsChecked, Acceptable, Described,
     Undescribed, Faults, PlanGenerate, Planning, GoGenerate, control, knowledge,
     candidate, verdict
<1>7. CASE PlanByModel
  BY <1>7 DEF TypeOK, FocusInv, VerdictInv, AnswerIsChecked, Acceptable, Described,
     Undescribed, Faults, PlanByModel, Planning, control, knowledge, candidate, verdict
<1>8. CASE Validate
  BY <1>8 DEF TypeOK, FocusInv, VerdictInv, AnswerIsChecked, Acceptable, Described,
     Undescribed, Faults, Validate, NextIteration, control, knowledge, candidate,
     verdict
<1>9. CASE RetrieveGroups
  BY <1>9 DEF TypeOK, FocusInv, VerdictInv, AnswerIsChecked, Acceptable, Described,
     Undescribed, Faults, RetrieveGroups, control, knowledge, candidate, verdict
<1>10. CASE RetrieveColumns
  BY <1>10 DEF TypeOK, FocusInv, VerdictInv, AnswerIsChecked, Acceptable, Described,
     Undescribed, Faults, RetrieveColumns, control, knowledge, candidate, verdict
<1>11. CASE RetrieveCorrections
  BY <1>11 DEF TypeOK, FocusInv, VerdictInv, AnswerIsChecked, Acceptable, Described,
     Undescribed, Faults, RetrieveCorrections, control, knowledge, candidate, verdict
<1>12. CASE Gather
  BY <1>12 DEF TypeOK, FocusInv, VerdictInv, AnswerIsChecked, Acceptable, Described,
     Undescribed, Faults, Gather, control, knowledge, candidate, verdict
<1>13. CASE RetrieveJoins
  BY <1>13 DEF TypeOK, FocusInv, VerdictInv, AnswerIsChecked, Acceptable, Described,
     Undescribed, Faults, RetrieveJoins, control, knowledge, candidate, verdict
<1>14. CASE RetrieveSamples
  BY <1>14 DEF TypeOK, FocusInv, VerdictInv, AnswerIsChecked, Acceptable, Described,
     Undescribed, Faults, RetrieveSamples, control, knowledge, candidate, verdict
<1>15. CASE RetrievalRaises
  BY <1>15 DEF TypeOK, FocusInv, VerdictInv, AnswerIsChecked, Acceptable, Described,
     Undescribed, Faults, RetrievalRaises, End, control, knowledge, candidate, verdict
<1>16. CASE Clarify
  BY <1>16 DEF TypeOK, FocusInv, VerdictInv, AnswerIsChecked, Acceptable, Described,
     Undescribed, Faults, Clarify, End, control, knowledge, candidate, verdict
<1>17. CASE ModelSamples
  BY <1>17 DEF TypeOK, FocusInv, VerdictInv, AnswerIsChecked, Acceptable, Described,
     Undescribed, Faults, ModelSamples, GoGenerate, Unfocus, control, knowledge,
     candidate, verdict
<1>18. CASE ModelGenerates
  BY <1>18 DEF TypeOK, FocusInv, VerdictInv, AnswerIsChecked, Acceptable, Described,
     Undescribed, Faults, ModelGenerates, GoGenerate, control, knowledge, candidate,
     verdict
<1>19. CASE ModelStops
  BY <1>19 DEF TypeOK, FocusInv, VerdictInv, AnswerIsChecked, Acceptable, Described,
     Undescribed, Faults, ModelStops, GoClarify, control, knowledge, candidate, verdict
<1>20. CASE ModelFails
  BY <1>20 DEF TypeOK, FocusInv, VerdictInv, AnswerIsChecked, Acceptable, Described,
     Undescribed, Faults, ModelFails, End, control, knowledge, candidate, verdict
<1>21. CASE Focus
  BY <1>21 DEF TypeOK, FocusInv, VerdictInv, AnswerIsChecked, Acceptable, Described,
     Undescribed, Faults, Focus, Fetch, control, knowledge, candidate, verdict
<1>22. CASE Generate
  BY <1>22 DEF TypeOK, FocusInv, VerdictInv, AnswerIsChecked, Acceptable, Described,
     Undescribed, Faults, Generate, control, knowledge, candidate, verdict
<1>23. CASE GenerationFails
  BY <1>23 DEF TypeOK, FocusInv, VerdictInv, AnswerIsChecked, Acceptable, Described,
     Undescribed, Faults, GenerationFails, End, control, knowledge, candidate, verdict
<1>24. CASE ExplainPasses
  BY <1>24 DEF TypeOK, VerdictInv, AnswerIsChecked, ExplainPasses
<1>25. CASE ExplainFails
  BY <1>25 DEF TypeOK, FocusInv, VerdictInv, AnswerIsChecked, Acceptable, Described,
     Undescribed, Faults, ExplainFails, NextIteration, control, knowledge, candidate,
     verdict
<1>26. CASE Tick
  BY <1>26 DEF TypeOK, FocusInv, VerdictInv, AnswerIsChecked, Acceptable, Described,
     Undescribed, Faults, Tick, control, knowledge, candidate, verdict
<1>27. CASE Cancel
  BY <1>27 DEF TypeOK, FocusInv, VerdictInv, AnswerIsChecked, Acceptable, Described,
     Undescribed, Faults, Cancel, End, Awaits, control, knowledge, candidate, verdict
<1>28. CASE Return
  <2>1. pc = "credited" /\ UNCHANGED <<genTables, scope, sql, schema, tablesUsed>>
    BY <1>28 DEF Return, knowledge, candidate
  <2>2. /\ sql \in Sql /\ "unsafe" \notin sql.faults /\ Acceptable(sql)
        /\ tablesUsed = sql.tables \cap genTables /\ genTables \subseteq scope
    BY <2>1 DEF FocusInv, Drafted
  <2>3. tablesUsed = sql.tables /\ sql.kind = "text"
    BY <2>2 DEF Acceptable
  <2>. QED
    BY <2>1, <2>2, <2>3 DEF AnswerIsChecked, Acceptable, Described, Undescribed
<1>. QED
  BY <1>1, <1>2, <1>3, <1>4, <1>5, <1>6, <1>7, <1>8, <1>9, <1>10, <1>11, <1>12, <1>13,
     <1>14, <1>15, <1>16, <1>17, <1>18, <1>19, <1>20, <1>21, <1>22, <1>23, <1>24, <1>25,
     <1>26, <1>27, <1>28 DEF Next, Decide, Continue

-----------------------------------------------------------------------------
(* The invariant holds.                                                    *)

\* A run begins with nothing planned, drafted or answered.
LEMMA InitInv == Assumptions /\ Init => IInv
<1> SUFFICES ASSUME Assumptions, Init PROVE IInv
  OBVIOUS
<1>1. TypeOK
  <2>1. checked \in BOOLEAN /\ corrections \in BOOLEAN /\ samples \in BOOLEAN
        /\ errs \in BOOLEAN /\ late \in BOOLEAN
    BY DEF Init
  <2>2. /\ pc \in Awaits /\ task \in {"bootstrap"} /\ asked \subseteq Tables \cup Texts
        /\ planned \in 0..MaxIterations /\ joins \in 0..JoinLimit /\ count \in 0..MaxIterations
    BY DEF Assumptions, Init, Awaits
  <2>. QED
    BY <2>1, <2>2 DEF Init, TypeOK
<1>2. BudgetInv /\ VerdictInv /\ AnswerIsChecked
  BY DEF Init, BudgetInv, VerdictInv, AnswerIsChecked, Spending, Drafted
<1>3. DraftInv /\ FocusInv
  BY DEF Init, DraftInv, FocusInv, Drafted
<1>. QED
  BY <1>1, <1>2, <1>3 DEF IInv

\* A step that changes no variable changes nothing the invariant reads.
LEMMA StutterInv == IInv /\ UNCHANGED vars => IInv'
BY DEF IInv, TypeOK, BudgetInv, DraftInv, FocusInv, VerdictInv, AnswerIsChecked,
   Acceptable, Described, Undescribed, Awaits, vars, control, knowledge, candidate,
   verdict

\* The inductive invariant: every run of every instance keeps it.
THEOREM Inductive == Spec => []IInv
<1>1. Init => IInv
  BY ConstantsHold, InitInv
<1>2. IInv /\ [Next]_vars => IInv'
  <2> SUFFICES ASSUME IInv, [Next]_vars PROVE IInv'
    OBVIOUS
  <2>1. CASE Next
    BY <2>1, ConstantsHold, TypesStep, BudgetStep, DraftStep, FocusedStep, VerdictStep,
       AnswerStep DEF IInv
  <2>2. CASE UNCHANGED vars
    BY <2>2, StutterInv
  <2>. QED
    BY <2>1, <2>2
<1>. QED
  BY <1>1, <1>2, PTL DEF Spec

\* Every variable keeps its type; in particular no run plans or drafts more
\* than MaxIterations times (react_max_iterations).
THEOREM TypesHold == Spec => []TypeOK
<1>1. IInv => TypeOK
  BY DEF IInv
<1>. QED
  BY <1>1, Inductive, PTL

\* An ok answer is the last draft, checked against the tables it was written
\* for, with tables_used listing what it reads (execute_action, run).
THEOREM AnswersAreChecked == Spec => []AnswerIsChecked
<1>1. IInv => AnswerIsChecked
  BY DEF IInv
<1>. QED
  BY <1>1, Inductive, PTL

\* SQL is drafted and checked for at most MaxTables tables in scope, and for a
\* broader scope only when some columns are loaded (the sql_context_focus step).
THEOREM DraftsFocused == Spec => []DraftsAreFocused
<1>1. IInv => DraftsAreFocused
  BY DEF IInv, FocusInv, DraftsAreFocused, Drafted
<1>. QED
  BY <1>1, Inductive, PTL

\* A refused draft's errors reach the prompt of the next one.
THEOREM RepairsSeeErrors == Spec => []RepairSeesErrors
<1>1. IInv => RepairSeesErrors
  <2> SUFFICES ASSUME IInv, pc = "generate", sql.kind = "text" PROVE errs
    BY DEF RepairSeesErrors
  <2>1. sql # NoSql /\ sql # Empty
    BY SqlKinds
  <2>. QED
    BY <2>1 DEF IInv, TypeOK, DraftInv, VerdictInv, Drafted
<1>. QED
  BY <1>1, Inductive, PTL

\* A run is exhausted only after MaxIterations drafts, the last one refused.
THEOREM ExhaustionIsEarned == Spec => []ExhaustedMeansTried
<1>1. IInv => ExhaustedMeansTried
  BY DEF IInv, BudgetInv, DraftInv, ExhaustedMeansTried
<1>. QED
  BY <1>1, Inductive, PTL

\* Every ok answer was credited to the instructions; credit without it goes only
\* to a request that timed out with its checked SQL at hand; failing models and
\* databases are not blamed.
THEOREM FeedbackIsRight == Spec => []FeedbackMatches
<1>1. IInv => FeedbackMatches
  BY DEF IInv, VerdictInv, FeedbackMatches
<1>. QED
  BY <1>1, Inductive, PTL

-----------------------------------------------------------------------------
(* The agent keeps the contract.                                           *)

\* The state of the current draft, as the contract sees it.
DraftState ==
    IF result = "ok" \/ pc = "credited" THEN "passed"
    ELSE IF pc = "done" \/ sql.kind = "none" THEN "none"
    ELSE IF pc \in {"validate", "explain"} THEN "unchecked"
    ELSE "failed"
AnswerState == IF result = "none" THEN "none" ELSE IF result = "ok" THEN "sql" ELSE "other"
Abstract == <<count, DraftState, AnswerState, outcome>>

\* A step that leaves the draft, its state, the answer and the feedback alone.
Quiet == /\ UNCHANGED <<sql, count, result, outcome>>
         /\ pc # "done" /\ pc' # "done"
         /\ pc = "credited" <=> pc' = "credited"
         /\ pc \in {"validate", "explain"} <=> pc' \in {"validate", "explain"}

\* Quiet steps stutter in the contract.
LEMMA QuietStutters == Quiet => UNCHANGED Abstract
BY DEF Quiet, Abstract, DraftState, AnswerState

\* Which steps are quiet: everything but drafting, refusing, answering, blaming
\* and ending.
LEMMA QuietSteps ==
  ASSUME IInv,
         \/ PlanCorrections \/ PlanJoins \/ PlanGenerate \/ PlanByModel
         \/ RetrieveGroups \/ RetrieveColumns \/ RetrieveCorrections \/ Gather
         \/ RetrieveJoins \/ RetrieveSamples \/ ModelSamples \/ ModelGenerates \/ Focus
         \/ Tick \/ (PlanSchema /\ pc' # "clarify") \/ (Validate /\ pc' = "explain")
  PROVE  Quiet
BY DEF IInv, VerdictInv, Quiet, PlanCorrections, PlanJoins, PlanGenerate, PlanByModel,
       PlanSchema, Validate, RetrieveGroups, RetrieveColumns, RetrieveCorrections, Gather,
       RetrieveJoins, RetrieveSamples, ModelSamples, ModelGenerates, Focus, Tick,
       Planning, Fetch, Unfocus, GoGenerate, GoClarify, NextIteration,
       candidate, verdict

\* Every step of the agent is a step of the contract or a stutter.
LEMMA ContractStep ==
  ASSUME IInv, Next, Assumptions
  PROVE  [Contract!Next]_(Contract!vars)
<1> DEFINE open == result = "none" /\ pc # "done"
<1>0. Contract!vars = Abstract /\ (Contract!vars)' = Abstract'
  BY DEF Contract!vars, Abstract, DraftState, AnswerState
<1>1. CASE Quiet
  BY <1>0, <1>1, QuietStutters
<1>2. CASE Generate
  <2>1. AnswerState = "none" /\ AnswerState' = "none" /\ outcome = "none" /\ outcome' = "none"
    BY <1>2 DEF Generate, IInv, VerdictInv, AnswerState, verdict
  <2>2. DraftState \in {"none", "failed"}
    BY <1>2 DEF Generate, IInv, VerdictInv, DraftState
  <2>3. count' = count + 1 /\ count < MaxIterations
    BY <1>2 DEF Generate, IInv, VerdictInv, BudgetInv, Spending, Drafted
  <2>4. sql'.kind \in {"text", "empty"} /\ pc' = "validate" /\ result' = "none"
    BY <1>2, SqlKinds DEF Generate, IInv, VerdictInv, Assumptions, verdict
  <2>5. DraftState' = "unchecked"
    BY <2>4 DEF DraftState
  <2>6. Contract!Draft
    BY <2>1, <2>2, <2>3, <2>5 DEF Contract!Draft, DraftState, AnswerState
  <2>. QED
    BY <2>6 DEF Contract!Next
<1>3. CASE (Validate /\ pc' # "explain") \/ ExplainFails
  <2>1. /\ pc \in Drafted /\ pc' = "plan" /\ UNCHANGED <<sql, count, result, outcome>>
        /\ result = "none" /\ outcome = "none" /\ count # 0
    BY <1>3 DEF Validate, ExplainFails, NextIteration, IInv, VerdictInv, BudgetInv,
       TypeOK, Drafted, candidate, verdict
  <2>2. sql.kind # "none"
    BY <2>1, SqlKinds DEF IInv, TypeOK, DraftInv
  <2>3. DraftState = "unchecked" /\ DraftState' = "failed" /\ AnswerState = "none"
        /\ AnswerState' = "none"
    BY <2>1, <2>2 DEF DraftState, AnswerState, Drafted
  <2>4. Contract!Fail
    BY <2>1, <2>3 DEF Contract!Fail, DraftState, AnswerState
  <2>. QED
    BY <2>4 DEF Contract!Next
<1>4. CASE ExplainPasses
  <2>1. /\ pc = "explain" /\ result = "none" /\ outcome = "none" /\ count # 0 /\ count' = count
        /\ pc' = "credited" /\ result' = "none" /\ outcome' = "success"
    BY <1>4 DEF ExplainPasses, IInv, VerdictInv, BudgetInv, TypeOK, Drafted
  <2>2. sql.kind # "none"
    BY <2>1, SqlKinds DEF IInv, TypeOK, DraftInv
  <2>3. DraftState = "unchecked" /\ DraftState' = "passed" /\ AnswerState = "none"
        /\ AnswerState' = "none"
    BY <2>1, <2>2 DEF DraftState, AnswerState
  <2>4. Contract!Credit
    BY <2>1, <2>3 DEF Contract!Credit, DraftState, AnswerState
  <2>. QED
    BY <2>4 DEF Contract!Next
<1>7. CASE Return
  <2>1. /\ pc = "credited" /\ result = "none" /\ result' = "ok"
        /\ UNCHANGED <<count, outcome>>
    BY <1>7 DEF Return, End, IInv, VerdictInv, candidate
  <2>2. DraftState = "passed" /\ DraftState' = "passed" /\ AnswerState = "none"
        /\ AnswerState' = "sql"
    BY <2>1 DEF DraftState, AnswerState
  <2>3. Contract!Answer
    BY <2>1, <2>2 DEF Contract!Answer, DraftState, AnswerState
  <2>. QED
    BY <2>3 DEF Contract!Next
<1>5. CASE Exhausted \/ ModelStops \/ (PlanSchema /\ pc' = "clarify")
  <2>1. /\ pc \in {"plan", "reason"} /\ pc' = "clarify"
        /\ UNCHANGED <<sql, count, result>> /\ result = "none"
        /\ outcome = "none" /\ outcome' = "failure"
    BY <1>5 DEF Exhausted, ModelStops, PlanSchema, Planning, Fetch, GoGenerate, GoClarify,
                IInv, VerdictInv, candidate
  <2>2. DraftState \in {"none", "failed"} /\ DraftState' = DraftState /\ AnswerState = "none"
        /\ AnswerState' = "none"
    BY <2>1 DEF DraftState, AnswerState
  <2>3. Contract!Blame
    BY <2>1, <2>2 DEF Contract!Blame, DraftState, AnswerState
  <2>. QED
    BY <2>3 DEF Contract!Next
<1>6. CASE DeadlinePassed \/ RetrievalRaises \/ Clarify \/ ModelFails \/ GenerationFails \/ Cancel
  <2>1. /\ pc' = "done" /\ result' \in {"rejected", "error", "clarification"}
        /\ UNCHANGED <<count, outcome>> /\ result = "none"
    BY <1>6 DEF DeadlinePassed, Planning, RetrievalRaises, Clarify, ModelFails,
                GenerationFails, Cancel, End, Awaits, IInv, VerdictInv, candidate
  <2>2. DraftState' = "none" /\ AnswerState = "none" /\ AnswerState' = "other"
    BY <2>1 DEF DraftState, AnswerState
  <2>3. Contract!Stop
    BY <2>1, <2>2 DEF Contract!Stop, DraftState, AnswerState
  <2>. QED
    BY <2>3 DEF Contract!Next
<1>. QED
  BY <1>1, <1>2, <1>3, <1>4, <1>5, <1>6, <1>7, QuietSteps DEF Next, Decide, Continue

\* The agent implements CheckedGeneration: callers of generate_sql see at most
\* MaxIterations drafts, no answer and no credit for an unchecked one, and no
\* answer without its credit.
THEOREM ContractKept == Spec => KeepsContract
<1>1. Init => Contract!Init
  BY DEF Init, Contract!Init, NoSql
<1>2. IInv /\ [Next]_vars => [Contract!Next]_(Contract!vars)
  <2> SUFFICES ASSUME IInv, [Next]_vars PROVE [Contract!Next]_(Contract!vars)
    OBVIOUS
  <2>1. CASE Next
    BY <2>1, ConstantsHold, ContractStep
  <2>2. CASE UNCHANGED vars
    BY <2>2 DEF Contract!vars, vars, candidate, verdict
  <2>. QED
    BY <2>1, <2>2
<1>. QED
  BY <1>1, <1>2, Inductive, PTL DEF Spec, KeepsContract, Contract!Spec
=============================================================================
