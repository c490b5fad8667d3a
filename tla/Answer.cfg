SPECIFICATION AnswerSpec

CONSTANTS
    MaxInt  = 999999999
    Powers  <- PowersOfTen
    Outputs <- AllOutputs
    Sources <- AllSources
    Lists   <- AllLists

INVARIANTS
    TypeOK WithinBudget SilenceMeansWhole NoticeIsTrue CutOnlyAtABudget

CHECK_DEADLOCK FALSE
