\* One browser, one function, two deploys.
SPECIFICATION FairSpec
CONSTANTS
    Function = {f1}
    Deploy = {d1, d2}
    Tab = {t1}
    Redeploys = TRUE
    Calm = TRUE
    Nil = Nil
INVARIANTS
    TypeOK
    
PROPERTIES
    UsableIsSound
    ButtonsComeBack
    RetryWorks
