SPECIFICATION MCSpec
CONSTANTS
    Operators = {"limit", "sort", "merge", "grouped", "ungrouped", "table",
                 "union", "materialize", "insert", "create"}
    Partitions = {"p0", "p1", "p2"}
    LimitCount = 3
    Offset = 3
    MaxBatch = 7
    MaxRows = 12
    SortInputs <- MCSortInputs
    SortHints = {0, 1, 2, 9}
    BlockCapacity = 2
    BatchSize = 2
    MergeRuns <- MCMergeRuns
    MergeHints = {0, 1, 4, 20}
    N = 3
    HashWidth = 2
    BlockRows = 1
    Sets = {"groups", "all"}
    KeyOf <- RollupKey
    GroupHash <- MCGroupHash
    GroupInputs <- MCGroupInputs
    ValueHash <- MCValueHash
    ValueInputs <- MCValueInputs
    TableGroups = {"g1", "g2", "g3", "g4"}
    TableHash <- MCTableHash
    InitialCapacity = 2
    TableBatch = 3
    TableRows = 5
    UnionPartitions = {"p", "q"}
    Batches = 3
    Appenders = {"a", "b"}
    Input <- MCInput
    Scanners = {"s1", "s2", "t1"}
    Outputs = {1, 2}
    Output <- MCOutput
    FirstSegment <- MCFirstSegment
    ChunkCapacity = 1
    SegmentSize = 4
    MaxBatches = 2
CHECK_DEADLOCK FALSE
INVARIANTS
    TypesOK
    RowsReturned
    AnswersAreRight
    InOrder
    EverythingArrives
    AssertionsHold
    NobodyStranded
PROPERTIES
    OperatorsEnd
