SPECIFICATION MCSpec
CONSTANTS
    Components = {"scheduler", "stack", "stream", "cancel"}
    Tasks = {t1, t2}
    Workers = {w1, w2}
    MaxWakes = 3
    NoTask = NoTask
    N = 4
    MaxOutputs = 4
    Partitions = {p1, p2, p3}
    MaxBatches = 2
    None = None
    Consumer = Consumer
    Canceler = Canceler
CHECK_DEADLOCK FALSE
INVARIANTS
    TypesOK
    NoLostWake
    CancelReported
    PipelineInOrder
    StreamDelivers
PROPERTIES
    KeepsWakeContract
    QueriesReturn
    CanceledQueryRests
