------------------------------ MODULE MCModels ------------------------------
(* The registry and the calls share nothing while they run: a call reads the *)
(* routing once, before its first step.  A behaviour is one of either.       *)
EXTENDS ModelRegistry, ModelCalls, TLC
CONSTANTS p, q, k1, m1, m2, sql, t1, t2, u
Owner == (m1 :> p @@ m2 :> q) @@ (k1 :> p)
Role == [m \in Models |-> sql]
Configs == {<<t1, t2>>, <<t1, t1>>, <<u, t2>>}

VARIABLE side
modelsVars == <<registryVars, callsVars, side>>
ModelsInit ==
    /\ RegistryInit /\ CallsInit
    /\ \/ side = "registry"
       \/ side = "calls" /\ created = {} /\ decodes = FALSE
ModelsNext ==
    /\ \/ side = "registry" /\ RegistryNext /\ UNCHANGED callsVars
       \/ side = "calls" /\ CallsNext /\ UNCHANGED registryVars
    /\ UNCHANGED side
ModelsSpec == ModelsInit /\ [][ModelsNext]_modelsVars /\ CallsFairness
=============================================================================
