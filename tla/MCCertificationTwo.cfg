SPECIFICATION Spec
CONSTANTS
    m1 = m1
    m2 = m2
    Models = {m1, m2}
    Searchable = {m1, m2}
    Mlx = {m2}
    MaxFaults = 1
    MaxSubjects = 1
    MaxChanges = 0
INVARIANTS TypeOK ClaimsBacked ProbeWindowExclusive
PROPERTIES BarrierLiftedOverText ImplementsToolAuthority
