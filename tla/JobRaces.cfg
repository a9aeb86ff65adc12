CONSTANTS
    w1 = w1
    w2 = w2
    Jobs <- OneJob
    Workers <- TwoWorkers
    Kind <- Transcription
    Cancellable <- OneJob
    BatchSize = 1
    Faults = {"enqueue", "db", "lock", "crash", "gateway", "sub"}
SPECIFICATION Spec
SYMMETRY WorkerSymmetry
INVARIANTS ComputesWhatIsItsOwn HealthyWorkerKeepsRow
PROPERTIES TerminalIsFinal ImplementsContract
