SPECIFICATION Spec
CHECK_DEADLOCK FALSE
CONSTANTS
    NoDoc = NoDoc
    Field <- MCField
    Conversations <- MCConversations
INVARIANTS
    AnswerIsEarned
    PreviewIsOfTheAnswer
