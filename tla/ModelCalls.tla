----------------------------- MODULE ModelCalls -----------------------------
(* A request to a language model: the chain of providers of a role           *)
(* (llm/factory.py), the retry loop and the circuit of each provider and     *)
(* model (llm/providers/base.py), shared by the calls that run at once.      *)
(*                                                                           *)
(* A target is a provider with a model, the key of its circuit.  Prompts and *)
(* answers are left out but for whether there is text.                       *)
EXTENDS Naturals, Sequences, FiniteSets, Functions
CONSTANTS Calls,
          Targets,
          Unusable,       \* targets the factory cannot build a client for
          Chains,         \* what resolve_role_configs yields for some role
          MaxRetries,     \* settings.llm_max_retries
          Threshold       \* _CIRCUIT_FAILURE_THRESHOLD
ASSUME CallsAssumption ==
    /\ IsFiniteSet(Calls)
    /\ MaxRetries \in Nat \ {0} /\ Threshold \in Nat \ {0}
    /\ Unusable \subseteq Targets
    /\ Chains \subseteq Seq(Targets) \ {<<>>}

VARIABLES
    circuit,   \* _CIRCUITS: failures, counted up to Threshold, and whether
               \* opened_until is ahead
    up,        \* the targets that answer well
    call,      \* per call: where it is, its chain, the index of the provider,
               \* the attempts made with it and, as history, those it left
    sent       \* history: requests sent to a target since its circuit opened
callsVars == <<circuit, up, call, sent>>

NoCall == [at |-> "idle", chain |-> <<>>, index |-> 0, tries |-> 0, tried |-> {}]
Closed == [failures |-> 0, open |-> FALSE]
CallsInit ==
    /\ circuit = [t \in Targets |-> Closed]
    /\ up = Targets \ Unusable
    /\ call = [c \in Calls |-> NoCall]
    /\ sent = [t \in Targets |-> 0]

Is(c, where) == call[c].at = where
Target(c) == call[c].chain[call[c].index]
Put(c, rec) == call' = [call EXCEPT ![c] = rec]
Running(c) == ~Is(c, "idle") /\ ~Is(c, "failed")

\* FallbackLLMProvider.generate goes on with the next provider, or returns the
\* last response, which has no text. 
Failover(c) ==
    LET passed == call[c].tried \cup {Target(c)}
    IN IF call[c].index < Len(call[c].chain)
       THEN Put(c, [call[c] EXCEPT !.at = "next", !.index = @ + 1, !.tries = 0, !.tried = passed])
       ELSE Put(c, [NoCall EXCEPT !.at = "failed", !.chain = call[c].chain, !.tried = passed])
Send(c) ==
    /\ Put(c, [call[c] EXCEPT !.at = "post", !.tries = @ + 1])
    /\ sent' = [sent EXCEPT ![Target(c)] = IF circuit[Target(c)].open THEN @ + 1 ELSE 0]

Begin(c) ==
    /\ ~Running(c)
    /\ \E chain \in Chains : Put(c, [NoCall EXCEPT !.at = "next", !.chain = chain, !.index = 1])
    /\ UNCHANGED <<circuit, up, sent>>

\* MUTANT of Shed: an open circuit ends the call.
ShedAll(c) ==
    /\ Is(c, "next")
    /\ Target(c) \notin Unusable /\ circuit[Target(c)].open
    /\ Put(c, [NoCall EXCEPT !.at = "failed", !.chain = call[c].chain,
                             !.tried = call[c].tried \cup {Target(c)}])
    /\ UNCHANGED <<circuit, up, sent>>

\* no client, or an open circuit: an error at once, with no request
Shed(c) ==
    /\ Is(c, "next")
    /\ Target(c) \in Unusable \/ circuit[Target(c)].open
    /\ Failover(c)
    /\ UNCHANGED <<circuit, up, sent>>

\* MUTANT of Post: the circuit is not looked at.
AskAnyway(c) ==
    /\ Is(c, "next")
    /\ Target(c) \notin Unusable
    /\ Send(c)
    /\ UNCHANGED <<circuit, up>>

Post(c) ==
    /\ Is(c, "next")
    /\ Target(c) \notin Unusable /\ ~circuit[Target(c)].open
    /\ Send(c)
    /\ UNCHANGED <<circuit, up>>

\* MUTANT of Retry: one attempt too many.
RetryOnceMore(c) ==
    /\ Is(c, "post") /\ Target(c) \notin up
    /\ call[c].tries <= MaxRetries
    /\ Put(c, [call[c] EXCEPT !.at = "sleep"])
    /\ UNCHANGED <<circuit, up, sent>>

\* MUTANT of Retry: the loop has no last attempt.
RetryForever(c) ==
    /\ Is(c, "post") /\ Target(c) \notin up
    /\ Put(c, [call[c] EXCEPT !.at = "sleep", !.tries = 0])
    /\ UNCHANGED <<circuit, up, sent>>

\* _post_json: any failed attempt but the last is made again after a pause,
\* whatever the status
Retry(c) ==
    /\ Is(c, "post") /\ Target(c) \notin up
    /\ call[c].tries < MaxRetries
    /\ Put(c, [call[c] EXCEPT !.at = "sleep"])
    /\ UNCHANGED <<circuit, up, sent>>

Again(c) == Is(c, "sleep") /\ Send(c) /\ UNCHANGED <<circuit, up>>

\* the count is kept when opened_until has passed: the next failure opens again
RecordFailure(t) ==
    circuit' = [circuit EXCEPT ![t] =
        LET n == IF @.failures >= Threshold THEN Threshold ELSE @.failures + 1
        IN [failures |-> n, open |-> n >= Threshold]]
\* the last attempt failed, or the answer is malformed
GiveUp(c) ==
    /\ Is(c, "post") /\ Target(c) \notin up
    /\ RecordFailure(Target(c))
    /\ Failover(c)
    /\ UNCHANGED <<up, sent>>
\* the circuit is closed by any answer, also one with no text, also when other
\* calls opened it meanwhile
Answer(c) ==
    /\ Is(c, "post") /\ Target(c) \in up
    /\ circuit' = [circuit EXCEPT ![Target(c)] = Closed]
    /\ sent' = [sent EXCEPT ![Target(c)] = 0]
    /\ \/ Put(c, NoCall)
       \/ Failover(c)
    /\ UNCHANGED up
\* Gemini without candidates: an error the circuit does not hear of
Blocked(c) ==
    /\ Is(c, "post") /\ Target(c) \in up
    /\ Failover(c)
    /\ UNCHANGED <<circuit, up, sent>>
\* the caller's time budget ends the call at an await: nothing is recorded
Cancel(c) ==
    /\ Running(c)
    /\ Put(c, NoCall)
    /\ UNCHANGED <<circuit, up, sent>>

\* MUTANT of Expire: the count decides, not the time.
ExpireNever(t) == circuit[t].failures < Threshold /\ circuit[t].open /\ UNCHANGED callsVars

\* _CIRCUIT_OPEN_SECONDS have passed
Expire(t) ==
    /\ circuit[t].open
    /\ circuit' = [circuit EXCEPT ![t].open = FALSE]
    /\ sent' = [sent EXCEPT ![t] = 0]
    /\ UNCHANGED <<up, call>>
\* external: providers come and go
Weather ==
    /\ \E t \in Targets \ Unusable : up' \in {up \cup {t}, up \ {t}}
    /\ UNCHANGED <<circuit, call, sent>>

Step(c) == Shed(c) \/ Post(c) \/ Retry(c) \/ Again(c) \/ GiveUp(c) \/ Answer(c) \/ Blocked(c)
CallsNext ==
    \/ \E c \in Calls : Begin(c) \/ Step(c) \/ Cancel(c)
    \/ \E t \in Targets : Expire(t)
    \/ Weather
\* Attempts time out, pauses end and the clock goes on.
CallsFairness ==
    /\ \A c \in Calls : WF_callsVars(Step(c))
    /\ \A t \in Targets : WF_callsVars(Expire(t))
CallsSpec == CallsInit /\ [][CallsNext]_callsVars /\ CallsFairness

----------------------------------------------------------------------------
\* Type invariant; a call that runs is at a provider of its chain and has made
\* as many attempts as it may.
CallsTypeOK ==
    /\ circuit \in [Targets -> [failures : 0..Threshold, open : BOOLEAN]]
    /\ up \subseteq Targets \ Unusable
    /\ sent \in [Targets -> Nat]
    /\ \A c \in Calls :
         /\ call[c].at \in {"idle", "next", "post", "sleep", "failed"}
         /\ call[c].tries \in 0..MaxRetries /\ call[c].tried \subseteq Targets
         /\ Running(c) => call[c].index \in 1..Len(call[c].chain)

\* While a circuit is open its target gets no more than the attempts which the
\* other calls, begun before it opened, have left (_circuit_open_response is
\* asked once per call, not before each attempt; the call whose failure opened
\* the circuit has none left).
OpenSheds ==
    \A t \in Targets : circuit[t].open =>
        sent[t] <= (Cardinality(Calls) - 1) * (MaxRetries - 1)

\* A call that ends without text has been turned away by every provider of its
\* chain, its open circuits included (FallbackLLMProvider.generate).
ErrorMeansAllTried ==
    \A c \in Calls : Is(c, "failed") => call[c].tried = Range(call[c].chain)

\* Every call ends, also when no provider ever answers.
CallReturns == \A c \in Calls : Running(c) ~> ~Running(c)

\* A provider that stays up is not shed for ever, although calls begun before
\* go on failing and the count of failures survives the open interval.
Recovers == \A t \in Targets : <>[](t \in up) => <>[](~circuit[t].open)
=============================================================================
