CONSTANTS
    k1 = k1
    k2 = k2
    r1 = r1
    r2 = r2
    Keys = {k1, k2}
    Requests = {r1, r2}
    Mutators = {m1}
    Similar <- AllSimilar
    Blocked <- NoKeys
    Calls <- TwoGenerators
    Events <- NoEvents
    JsonbDecodes = TRUE
    EmbedImports = TRUE
    MaxKnowledge = 1
SPECIFICATION Spec
INVARIANTS EpochRowsFresh QuietTeachIsRead
