SPECIFICATION MCSpec
CONSTANTS
    Operators = {"hash", "limit", "chains", "loop"}
    NumPartitions = 2
    Keys <- MCKeys
    LeftInputs <- MCLeftInputs
    RightInputs <- MCRightInputs
    JoinTypes = {"inner", "left", "right", "semi", "mark"}
    LimitJoinTypes = {"inner", "right", "semi", "mark"}
    LimitCount = 1
    Null = Null
    Inserters = {"p1", "p2", "p3"}
    Rows <- MCRows
    Owner <- MCOwner
    Pos <- MCPos
    NullPtr = NullPtr
    Hash = Hash
    Appenders = {"a", "b"}
    Scanners = {"p", "q"}
    Outputs = {"drain"}
    Output <- MCOutput
    FirstSegment <- MCFirstSegment
    ChunkCapacity = 2
    SegmentSize = 1
    BuildInput <- MCBuildInput
    ProbeInput <- MCProbeInput
    On <- MCOn
CHECK_DEADLOCK FALSE
INVARIANTS
    TypesOK
    JoinAnswers
    BarriersHold
    ChainsComplete
    OtherJoinsAnswer
PROPERTIES
    StepsAreOrdered
    JoinsEnd
