\* A VM is sent to a request whose client has just left.
SPECIFICATION Spec
CONSTANTS
    Request = {r1, r2}
    MaxVMs = 1
    WarmPoolSize = 1
    Nil = Nil
INVARIANTS
    EveryVMWarmOrBusy
