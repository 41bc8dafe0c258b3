CONSTANTS
    t1 = t1
    t2 = t2
    g1 = g1
    g2 = g2
    Tables = {t1, t2}
    Mentioned = {t1, t2}
    Groups = {g1, g2}
    GroupTables <- SmallGroups
    Question = question
    Texts = {question, hint}
    TopK = 1
    JoinLimit = 1
    MaxIterations = 2
    MaxTables = 1
    LongQuestions = {TRUE, FALSE}
    Drafts <- AllDrafts
SPECIFICATION FairSpec
INVARIANTS AnswerIsChecked RepairSeesErrors DraftsAreFocused ExhaustedMeansTried
PROPERTIES KeepsContract Terminates
\* a run that has answered stops
CHECK_DEADLOCK FALSE
