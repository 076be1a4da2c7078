SPECIFICATION Spec
CONSTANTS
    Table = {Nobody, x}
    Nobody = Nobody
    SlotsPerMonth = 2
    MaxSlot = 1
    MaxRows = 3
    Scheduler = scheduler
    Clerk = {k1, k2}
    Overlap = TRUE
    None = None
INVARIANT NoRepeatedCard
