-------------------------- MODULE CheckedGeneration --------------------------
(***************************************************************************)
(* What a caller of generate_sql may rely on, whatever the agent does      *)
(* inside: SQL is drafted a bounded number of times, only a draft that was *)
(* checked is ever answered, and the teaching memory is credited for it    *)
(* before it is answered, never for an unchecked one.  A credited draft    *)
(* may still miss its answer: the time budget may end the request between. *)
(***************************************************************************)
EXTENDS Naturals

CONSTANT MaxDrafts

VARIABLES
    drafts,  \* how many drafts were written
    draft,   \* the latest: "none", "unchecked", "failed" or "passed"
    answer,  \* "none", "sql" or "other" (rejection, clarification, error)
    credit   \* feedback to the instructions: "none", "success", "failure"

vars == <<drafts, draft, answer, credit>>

Init == drafts = 0 /\ draft = "none" /\ answer = "none" /\ credit = "none"

Draft ==
    /\ answer = "none" /\ credit = "none"
    /\ draft \in {"none", "failed"}
    /\ drafts < MaxDrafts
    /\ drafts' = drafts + 1
    /\ draft' = "unchecked"
    /\ UNCHANGED <<answer, credit>>

Fail ==
    /\ answer = "none" /\ draft = "unchecked"
    /\ draft' = "failed"
    /\ UNCHANGED <<drafts, answer, credit>>

Credit ==
    /\ answer = "none" /\ credit = "none" /\ draft = "unchecked"
    /\ draft' = "passed" /\ credit' = "success"
    /\ UNCHANGED <<drafts, answer>>

Answer ==
    /\ answer = "none" /\ draft = "passed"
    /\ answer' = "sql"
    /\ UNCHANGED <<drafts, draft, credit>>

\* The agent gives up drafting, and only then may word a clarification.
Blame ==
    /\ answer = "none" /\ credit = "none" /\ draft \in {"none", "failed"}
    /\ credit' = "failure"
    /\ UNCHANGED <<drafts, draft, answer>>

\* Any other ending: a time-out in the middle of a check, or after the credit.
Stop ==
    /\ answer = "none"
    /\ draft' = "none" /\ answer' = "other"
    /\ UNCHANGED <<drafts, credit>>

Next == Draft \/ Fail \/ Credit \/ Answer \/ Blame \/ Stop

Spec == Init /\ [][Next]_vars
=============================================================================
