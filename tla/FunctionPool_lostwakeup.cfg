\* A request queues while the only VM is being parked, and waits forever.
SPECIFICATION FairSpec
CONSTANTS
    Request = {r1, r2}
    MaxVMs = 1
    WarmPoolSize = 1
    Nil = Nil
PROPERTIES
    QueuedRequestResumes
