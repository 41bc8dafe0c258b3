CONSTANTS
    r1 = r1
    Requests = {r1}
    Kinds = {"stream", "ask", "sql"}
    Piped = {TRUE, FALSE}
    MaxEmits = 1
    QueueSize = 1
    BatchSize = 2
SPECIFICATION FairSpec
INVARIANTS TypeOK TraceRelayed NoWorkLeft OutcomeLogged NothingVanishes
PROPERTIES KeepsProtocol BudgetEnds StopReturns
\* every request may end, and the lifespan with it
CHECK_DEADLOCK FALSE
