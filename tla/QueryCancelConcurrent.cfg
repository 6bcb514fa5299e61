SPECIFICATION FairSpec
CONSTANTS
    Tasks = {t1, t2}
    MaxBatches = 2
    ConcurrentCancel = TRUE
    Consumer = Consumer
    Canceler = Canceler
    None = None
CHECK_DEADLOCK FALSE
PROPERTIES
    CancelEndsQuery
