\* Liveness with one VM per function, as deployed: three requests.
SPECIFICATION FairSpec
CONSTANTS
    Request = {r1, r2, r3}
    MaxVMs = 1
    WarmPoolSize = 1
    Nil = Nil
PROPERTIES
    HandlersEnd
    PoppedWaiterResumes
    BootFailureReleasesWaiters
    BusyVMServesQueue
