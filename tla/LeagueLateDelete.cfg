SPECIFICATION Spec
CONSTANTS
    t1 = t1
    t2 = t2
    t3 = t3
    m1 = m1
    m2 = m2
    None = None
    Team <- MCTeam
    Member <- MCMember
    Path <- MCPath
    Composition <- MCComposition
    Seating <- MCSeating
    Mode = {"team"}
    MaxDepth = 3
    Schedulable <- MCSchedulable
    BestOf = 1
    MaxSets = 2
    LateDeletes = TRUE
INVARIANT SomeMatchPlayable
