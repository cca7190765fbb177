CONSTANTS
    MaxIterations = 3
    MaxCallbacks = 1
SPECIFICATION ReplFairSpec
INVARIANTS WorkersOwned AnswersOwnStep FinalVarUpToDate
PROPERTIES CompletionEnds
CHECK_DEADLOCK FALSE
