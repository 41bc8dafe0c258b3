CONSTANTS
    k1 = k1
    k2 = k2
    r1 = r1
    r2 = r2
    Keys = {k1}
    Requests = {r1}
    Mutators = {m1, m2}
    Similar <- AllSimilar
    Blocked <- NoKeys
    Calls <- OneGenerator
    Events <- StoreFaults
    JsonbDecodes = FALSE
    EmbedImports = FALSE
    MaxKnowledge = 2
SPECIFICATION Spec
INVARIANTS EpochRowsFresh OkReplyMovedEpoch
