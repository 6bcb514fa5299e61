SPECIFICATION MCSpec
CONSTANTS
    Components = {"parser", "plans", "strings", "scalars"}
    Tables <- MCTables
    Estimates <- MCEstimates
    UnknownEstimate = 20
    Schema <- MCSchema
    Views <- MCViews
    ParsedQueries <- MCParsedQueries
    WrongQueries <- MCWrongQueries
    BoundQueries <- MCQueries
CHECK_DEADLOCK FALSE
INVARIANTS
    TypesOK
    ReferencesResolve
    AnswerKept
    FunctionsAsMeant
    StatementsAsMeant
    ImplicitCastsKeep
    ResolutionFixed
