\* A function that is deployed twice.
SPECIFICATION Spec
CONSTANTS
    Function = {f1}
    Deploy = {d1, d2}
    Tab = {t1}
    Redeploys = TRUE
    Calm = TRUE
    Nil = Nil
INVARIANTS
    RedeployInvalidates
