CONSTANTS
    w1 = w1
    w2 = w2
    Jobs <- TwoJobs
    Workers <- OneWorker
    Kind <- BurnAndDub
    Cancellable <- OneJob
    BatchSize = 1
    Faults = {"stop", "payload", "publish", "crash"}
SPECIFICATION Spec
INVARIANTS OneHeavyJobPerWorker CancelsAreHonoured
