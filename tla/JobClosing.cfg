CONSTANTS
    w1 = w1
    Jobs <- OneJob
    Workers <- OneWorker
    Kind <- Transcription
    Cancellable <- OneJob
    BatchSize = 1
    Faults = {"crash", "gateway", "pause"}
    OutageFaults = {"enqueue", "redis", "lock", "crash", "db"}
SPECIFICATION ClosingSpec
PROPERTIES EveryJobCloses UnwantedWorkStops
CHECK_DEADLOCK FALSE
