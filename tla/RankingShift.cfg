SPECIFICATION Spec
CONSTANTS
    Table = {Nobody, x, y}
    Nobody = Nobody
    SlotsPerMonth = 2
    MaxSlot = 3
    MaxRows = 3
    Scheduler = scheduler
    Clerk = {k1}
    Overlap = FALSE
    None = None
INVARIANTS TypeOK CardsConnect NoRepeatedCard SeedsDoNotPile
PROPERTIES CardsStay OncePerSlot CaughtUp

