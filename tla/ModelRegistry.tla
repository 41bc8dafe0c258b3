--------------------------- MODULE ModelRegistry ----------------------------
(* The provider and model registry (storage/provider_store.py) with the      *)
(* endpoints of main.py that change it, and the routing the process uses:    *)
(* fields of `settings` that the environment sets and two endpoints patch.   *)
(*                                                                           *)
(* Every store function is one transaction of PostgreSQL.  Providers and     *)
(* models have a JSONB column, for which db.py registers no codec: what is   *)
(* to be written cannot be bound, and dict(...) raises on the text read.     *)
EXTENDS Naturals, FiniteSets
CONSTANTS Admins,               \* requests of PATCH /config/active-model
          Providers, Keys, Models, Roles,
          ProviderOf,           \* of every model and key
          RoleOf,               \* of every model
          Codecs,               \* may connections have a jsonb codec?
          None                  \* no key; as a model, what is set by hand or
                                \* named by the environment
ASSUME OwnersAssumption ==
    /\ ProviderOf \in [Models \cup Keys -> Providers]
    /\ RoleOf \in [Models -> Roles]
    /\ None \notin Models \cup Keys
ASSUME CodecsAssumption == Codecs \subseteq BOOLEAN

VARIABLES
    decodes,                    \* have they?  as the code stands, FALSE
    created, enabled,           \* providers: rows, and those with is_active
    stored, valid,              \* API keys: rows, and those with is_active
    registered, active, default, \* models: rows, is_active, is_default
    live,                       \* per role, the model and the key in use
    switch                      \* per admin, where its request is
rows == <<created, enabled, stored, valid, registered, active, default>>
registryVars == <<decodes, rows, live, switch>>

Of(p, S) == {x \in S : ProviderOf[x] = p}
OfRole(role, S) == {m \in S : RoleOf[m] = role}

Idle == [at |-> "idle", model |-> None, key |-> None, alone |-> FALSE]
FromEnv == [model |-> None, key |-> None]

\* the unique index: a role has one active default at most
Indexed(act, def) == \A role \in Roles : Cardinality(OfRole(role, act \cap def)) <= 1

\* The tables are empty, or hold what an operator has written with SQL.
RegistryInit ==
    /\ decodes \in Codecs
    /\ \E filled \in BOOLEAN :
         /\ created = (IF filled THEN Providers ELSE {}) /\ enabled = created
         /\ stored = (IF filled THEN Keys ELSE {}) /\ valid = stored
         /\ registered = (IF filled THEN Models ELSE {}) /\ active = registered
    /\ default \in SUBSET registered /\ Indexed(active, default)
    /\ live = [role \in Roles |-> FromEnv]
    /\ switch = [a \in Admins |-> Idle]

\* An update of models commits, or violates the index and changes nothing.
Commit(reg, act, def) ==
    /\ Indexed(act, def)
    /\ registered' = reg /\ active' = act /\ default' = def
    /\ UNCHANGED <<created, enabled, stored, valid>>

----------------------------------------------------------------------------
(* Providers and keys.                                                       *)
CreateProvider(p) ==
    /\ decodes /\ p \notin created
    /\ created' = created \cup {p} /\ enabled' = enabled \cup {p}
    /\ UNCHANGED <<stored, valid, registered, active, default>>
\* update_provider: is_active changes on the provider alone, and is committed
\* before the row is read back, so that a request that fails has changed it
UpdateProvider(p) ==
    /\ p \in created
    /\ \E on \in BOOLEAN : enabled' = IF on THEN enabled \cup {p} ELSE enabled \ {p}
    /\ UNCHANGED <<created, stored, valid, registered, active, default>>
\* deactivate_provider takes its models and keys with it
DeactivateProvider(p) ==
    /\ p \in created
    /\ enabled' = enabled \ {p}
    /\ active' = active \ Of(p, active) /\ default' = default \ Of(p, default)
    /\ valid' = valid \ Of(p, valid)
    /\ UNCHANGED <<created, stored, registered>>

AddKey(k) ==
    /\ ProviderOf[k] \in created /\ k \notin stored
    /\ stored' = stored \cup {k} /\ valid' = valid \cup {k}
    /\ UNCHANGED <<created, enabled, registered, active, default>>

DeactivateKey(k) ==
    /\ k \in stored
    /\ valid' = valid \ {k}
    /\ UNCHANGED <<created, enabled, stored, registered, active, default>>

(* Models.                                                                   *)
\* what is left of the defaults when those of a role are cleared: only active
\* rows are touched
Cleared(role) == default \ OfRole(role, active)
RegisterModel(m) ==
    /\ decodes /\ ProviderOf[m] \in created /\ m \notin registered
    /\ \E isDefault \in BOOLEAN :
         Commit(registered \cup {m}, active \cup {m},
                IF isDefault THEN Cleared(RoleOf[m]) \cup {m} ELSE default)

\* MUTANT of SetDefault: the model is not activated.
SetDefaultInactive(m) ==
    /\ m \in registered
    /\ Commit(registered, active, Cleared(RoleOf[m]) \cup {m})

\* whoever calls it has read the row before
SetDefault(m) ==
    /\ m \in registered
    /\ Commit(registered, active \cup {m}, Cleared(RoleOf[m]) \cup {m})

\* MUTANT of UpdateModel: the row is read back only, as update_provider does.
UpdateModelUnread(m) ==
    \/ SetDefault(m)
    \/ /\ m \in registered
       /\ \E act \in {active, active \cup {m}, active \ {m}} :
             \E def \in {default, default \ {m}} : Commit(registered, act, def)

\* update_model and set-default read the row first; is_default true is a
\* SetDefault, whatever else the body says
UpdateModel(m) ==
    /\ decodes /\ m \in registered
    /\ \/ SetDefault(m)
       \/ \E act \in {active, active \cup {m}, active \ {m}} :
             \E def \in {default, default \ {m}} : Commit(registered, act, def)
DeactivateModel(m) == m \in registered /\ Commit(registered, active \ {m}, default \ {m})

----------------------------------------------------------------------------
(* PATCH /config/active-model: the default is committed, a key is looked up, *)
(* and the live routing is patched; each await may raise.                    *)
At(a, where) == switch[a].at = where
Move(a, to) ==
    switch' = [b \in Admins |-> IF b = a THEN to ELSE [switch[b] EXCEPT !.alone = FALSE]]
Route(a, k) ==
    /\ live' = [live EXCEPT ![RoleOf[switch[a].model]] = [model |-> switch[a].model, key |-> k]]
    /\ Move(a, Idle)

\* get_model_by_id reads the row, whose role is the one asked for; `alone` is
\* history: nothing else has changed the registry or moved a switch since
Ask(a) ==
    /\ decodes /\ At(a, "idle")
    /\ \E m \in registered :
          Move(a, [at |-> "set", model |-> m, key |-> None, alone |-> TRUE])
    /\ UNCHANGED <<rows, live>>
Switch(a) ==
    /\ At(a, "set") /\ SetDefault(switch[a].model)
    /\ Move(a, [switch[a] EXCEPT !.at = "keys"])
    /\ UNCHANGED live

\* list_api_keys: the first active key, whose secret is read next, or none
FindKey(a) ==
    /\ At(a, "keys")
    /\ \/ /\ \E k \in Of(ProviderOf[switch[a].model], valid) :
                Move(a, [switch[a] EXCEPT !.at = "secret", !.key = k])
          /\ UNCHANGED live
       \/ Of(ProviderOf[switch[a].model], valid) = {} /\ Route(a, None)
    /\ UNCHANGED rows
\* the secret is read by id, active or not
Apply(a) == At(a, "secret") /\ Route(a, switch[a].key) /\ UNCHANGED rows
Fail(a)  == ~At(a, "idle") /\ Move(a, Idle) /\ UNCHANGED <<rows, live>>

\* PATCH /config/model-routing and /config/ask-model: fields of a role are set
\* by hand, model and key one by one; an invalid patch is taken back whole
PatchRouting(role) ==
    /\ \E m \in {None, live[role].model}, k \in {None, live[role].key} :
          live' = [live EXCEPT ![role] = [model |-> m, key |-> k]]
    /\ UNCHANGED <<rows, switch>>
\* settings are read from the environment again, the registry is not
Restart ==
    /\ live' = [role \in Roles |-> FromEnv]
    /\ switch' = [a \in Admins |-> Idle]
    /\ UNCHANGED rows

Store ==
    \/ \E p \in Providers : CreateProvider(p) \/ UpdateProvider(p) \/ DeactivateProvider(p)
    \/ \E k \in Keys : AddKey(k) \/ DeactivateKey(k)
    \/ \E m \in Models : RegisterModel(m) \/ UpdateModel(m) \/ DeactivateModel(m)
RegistryNext ==
    /\ \/ /\ Store /\ UNCHANGED live
          /\ switch' = [a \in Admins |-> [switch[a] EXCEPT !.alone = FALSE]]
       \/ \E a \in Admins : Ask(a) \/ Switch(a) \/ FindKey(a) \/ Apply(a) \/ Fail(a)
       \/ \E role \in Roles : PatchRouting(role)
       \/ Restart
    /\ UNCHANGED decodes
RegistrySpec == RegistryInit /\ [][RegistryNext]_registryVars

----------------------------------------------------------------------------
\* Type invariant; what is active was stored before, for a provider that exists.
RegistryTypeOK ==
    /\ decodes \in BOOLEAN
    /\ \A x \in stored \cup registered : ProviderOf[x] \in created
    /\ enabled \subseteq created /\ created \subseteq Providers
    /\ valid \subseteq stored /\ stored \subseteq Keys
    /\ active \subseteq registered /\ default \subseteq registered
    /\ registered \subseteq Models
    /\ live \in [Roles -> [model : Models \cup {None}, key : Keys \cup {None}]]
    /\ switch \in [Admins -> [at : {"idle", "set", "keys", "secret"}, model : Models \cup {None},
                              key : Keys \cup {None}, alone : BOOLEAN]]

\* The step with which a request to switch a role succeeds.
Answers(a) == (FindKey(a) \/ Apply(a)) /\ switch'[a] = Idle

\* Where rows decode, a request to switch a role that completes with nothing
\* beside it leaves the two copies of the routing in agreement, whatever state
\* earlier ones left: the role runs with its one default, on a key that is
\* active if there is any.
QuietSwitchAgrees ==
    [][\A a \in Admins : switch[a].alone /\ Answers(a) =>
          LET role == RoleOf[switch[a].model]
              keys == Of(ProviderOf[switch[a].model], valid)
          IN /\ OfRole(role, active \cap default) = {live'[role].model}
             /\ live'[role].key \in IF keys = {} THEN {None} ELSE keys]_registryVars

\* Where they do not, the code as it stands, no request that is refused because
\* a row cannot be read or written has registered, activated or made default a
\* model on the way, and no request to switch a role gets as far as to patch the
\* routing: models are only ever deactivated, and roles run as the environment
\* or a patch by hand says.
UnreadModelsKept ==
    [][~decodes =>
          /\ registered' = registered /\ created' = created
          /\ active' \subseteq active /\ default' \subseteq default
          /\ live' = live]_registryVars

=============================================================================
