SPECIFICATION MCSpec
CONSTANTS
    Components = {"plans"}
    Tables <- MCTables
    Estimates <- MCEstimates
    UnknownEstimate = 20
    Schema <- MCSchema
    Views <- MCViews
    ParsedQueries <- NoQueries
    WrongQueries <- NoQueries
    BoundQueries <- CteQueries
CHECK_DEADLOCK FALSE
INVARIANTS
    AnswerKept
