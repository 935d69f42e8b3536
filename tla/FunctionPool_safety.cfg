\* Two VMs per function, one place in warm, four requests.
SPECIFICATION Spec
CONSTANTS
    Request = {r1, r2, r3, r4}
    MaxVMs = 2
    WarmPoolSize = 1
    Nil = Nil
SYMMETRY RequestSymmetry
INVARIANTS
    TypeOK
    VMCustody
    SlotAccounting
    CapacityRespected
    SignalledOnce
    NoWaiterForgotten
PROPERTIES
    ImplementsVMLease
    ServedInOrder
