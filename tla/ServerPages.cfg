\* One server, a browser on its pages and one that may ask for anything.
SPECIFICATION FairSpec
CONSTANTS
    Instance = {i1}
    Client = {t1, u1}
    Tab = {t1}
    Nil = Nil
    MaxSlot = 1
    Patient = TRUE
    Key = {k1, k2}
    MaxSaves = 2
    Apart = TRUE
INVARIANTS
    TypeOK
    
    
    InjectsWhatWasShown
    RetryKeepsKey
PROPERTIES
    PageCatchesUp
    ButtonsComeBack
    Reconciled
