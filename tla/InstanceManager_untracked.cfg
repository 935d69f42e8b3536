\* Two starts at once, then a stop: one of the two VMs lives on, unknown.
SPECIFICATION Spec
CONSTANTS
    Instance = {i1}
    Call = {t1, t2, t3}
    Nil = Nil
    Overlap = TRUE
    MaxCrashes = 0
SYMMETRY CallSymmetry
INVARIANTS
    RunningIDsComplete
