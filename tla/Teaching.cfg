CONSTANTS
    c1 = c1
    c2 = c2
    rule = rule
    fix = fix
    Clients = {c1, c2}
    Lessons <- MCLessons
    Corrections = {fix}
    Clash <- MCClash
    Overlap <- MCOverlap
    NoLesson = none
    MaxPending = 1
    MaxRows = 2
    MaxTokens = 3
SPECIFICATION Spec
SYMMETRY Symmetry
INVARIANTS TokenActsOnce PendingBounded NoSilentClash RepliesTrue
