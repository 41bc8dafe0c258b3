--------------------------- MODULE StreamProtocol ---------------------------
(* What the lines of POST /ask/stream promise its reader, trace lines apart: *)
(* the order README.md and ROUTES.md list the event names in, with one final *)
(* line behind which nothing comes.                                          *)
CONSTANTS Streams,
          Running  \* lines during which a model works: the only ones an error cuts off
VARIABLES line,    \* per stream, the last line sent
          ended    \* per stream, "open" or how it ended: "closed", "broken", "gone"
protocolVars == <<line, ended>>

\* The lines that may come next.
Following ==
    [l \in {"none", "started", "row_cap_applied", "sql_generation_finished", "execution_finished"} |->
        CASE l = "none"                    -> {"started"}
          [] l = "started"                 -> {"sql_generation_started"}
          [] l = "sql_generation_finished" -> {"row_cap_applied", "execution_started"}
          [] l = "row_cap_applied"         -> {"execution_started"}
          [] OTHER                         -> {"answer_generation_started"}]
Deciding ==
    [l \in {"sql_generation_started", "sql_generation_running", "execution_started",
            "answer_generation_started", "answer_generation_running"} |->
        CASE l \in {"sql_generation_started", "sql_generation_running"} ->
                 {"sql_generation_running", "sql_generation_rejected",
                  "sql_generation_finished", "timeout"}
          [] l = "execution_started" -> {"execution_failed", "execution_finished", "timeout"}
          [] OTHER -> {"answer_generation_running", "answer_generation_finished", "timeout"}]
Verdicts == {"sql_generation_rejected", "execution_failed", "answer_generation_finished",
             "timeout"}

Init == line = [s \in Streams |-> "none"] /\ ended = [s \in Streams |-> "open"]
Line(s) ==
    /\ ended[s] = "open"
    /\ \E l \in IF line[s] \in DOMAIN Following THEN Following[line[s]]
                ELSE IF line[s] \in DOMAIN Deciding THEN Deciding[line[s]]
                ELSE IF line[s] \in Verdicts THEN {"final"} ELSE {} :
          /\ line' = [line EXCEPT ![s] = l]
          /\ ended' = IF l = "final" THEN [ended EXCEPT ![s] = "closed"] ELSE ended
Ends(s, how) == ended[s] = "open" /\ ended' = [ended EXCEPT ![s] = how] /\ UNCHANGED line
\* an error of a model cuts the stream off
Break(s)  == line[s] \in Running /\ Ends(s, "broken")
Leave(s)  == Ends(s, "gone")
Next == \E s \in Streams : Line(s) \/ Break(s) \/ Leave(s)
Spec == Init /\ [][Next]_protocolVars
=============================================================================
