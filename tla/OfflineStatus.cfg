CONSTANTS
    Jobs = {j1, j2}
    Groups = {g1, g2}
    Rules = {r}
    Patterns = {p}
    Texts = {g1}
    MaxVersion = 2
    EmbedTries = 2
    Edited = {g1, r}
    t = t
    u = u
    Tables = {t, u}
    Runs = {s1, s2}
    Host = h
    Clients = {h}
    Capacity = 1
    Refill = 2
    MaxClock = 2
    MaxFree = 1
    Scripts <- WayScripts
    Parallel = 1
    TraceTries = 2
    LogTries = 2
SPECIFICATION MCSpec
INVARIANT StatusTells
CHECK_DEADLOCK FALSE
