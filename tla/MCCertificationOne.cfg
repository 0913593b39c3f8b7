SPECIFICATION FairSpec
CONSTANTS
    m1 = m1
    m2 = m2
    Models = {m1}
    Searchable = {m1}
    Mlx = {}
    MaxFaults = 1
    MaxSubjects = 2
    MaxChanges = 2
INVARIANTS ReceiptsEarned
PROPERTY BarrierLifted
