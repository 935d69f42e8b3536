\* One instance, three calls at once, a crash.
SPECIFICATION Spec
CONSTANTS
    Instance = {i1}
    Call = {t1, t2, t3}
    Nil = Nil
    Overlap = TRUE
    MaxCrashes = 1
SYMMETRY CallSymmetry
INVARIANTS
    KilledByOne
    AnswersAreTrue
