\* One instance, one call after the other, crashes and reboots in between.
SPECIFICATION Spec
CONSTANTS
    Instance = {i1}
    Call = {t1, t2, t3, t4}
    Nil = Nil
    Overlap = FALSE
    MaxCrashes = 2
SYMMETRY CallSymmetry
INVARIANTS
    TypeOK
    StartedVMsKnown
    OneGuestPerDisk
    RunningIsReachable
    
