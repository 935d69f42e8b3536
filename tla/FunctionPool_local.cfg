\* Liveness when guests and boots may hang forever; two VMs compete for warm.
SPECIFICATION LocalFairSpec
CONSTANTS
    Request = {r1, r2, r3}
    MaxVMs = 2
    WarmPoolSize = 1
    Nil = Nil
PROPERTIES
    ClientCanLeave
    SweeperGivesBack
