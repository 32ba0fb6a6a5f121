\* Finding: ErrNoChanges leaves the transaction open.
SPECIFICATION Spec
CONSTANTS
    r1 = r1
    r2 = r2
    r3 = r3
    Requests = {r1, r2}
    Inputs <- NoImages
    MaxRoubles = 1
    Faults <- NoFault
SYMMETRY RequestSymmetry
INVARIANTS
    RollbackOnError
