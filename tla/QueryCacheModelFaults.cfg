CONSTANTS
    k1 = k1
    k2 = k2
    r1 = r1
    r2 = r2
    Keys = {k1, k2}
    Requests = {r1}
    Mutators = {m1}
    Similar <- AllSimilar
    Blocked <- OneBlocked
    Calls <- OneAsker
    Events <- ModelFaults
    JsonbDecodes = TRUE
    EmbedImports = TRUE
    MaxKnowledge = 1
SPECIFICATION Spec
INVARIANT QuietTeachIsRead
