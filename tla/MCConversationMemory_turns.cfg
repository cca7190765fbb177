CONSTANTS
    Nobody = Nobody
    Chat = {h1, h2, h3}
    Conversation = {c1, c2}
    Policies <- MCPolicies
    MarkLength = 2
    MaxLives = 2
    MaxFaults = 1
SPECIFICATION Spec
INVARIANTS TypeOK AnswersFollowQuestions RecordedIffAnswered ContextStays DeletedForGood
PROPERTIES RevisionMoves
CHECK_DEADLOCK FALSE
