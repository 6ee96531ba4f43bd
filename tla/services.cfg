CONSTANTS
    w1 = w1
    w2 = w2
    d1 = d1
    d2 = d2
    d3 = d3
    k1 = k1
    k2 = k2
    None = None
    Never = Never
    Creator = creator
    Canceller = canceller
    Actors = {w1, w2}
    Things = {d1, d2}
    Labels = {k1, k2}
    Products = {d1, d2, d3}
    Owners = {owner}
    RequestKeys = {key}
    LastDay = 3
    MaxRequests = 2
    Retries = 3
    Operations = 2
SPECIFICATION ServicesSpec
SYMMETRY Symmetric
INVARIANT TypesOK
INVARIANT AnswersSound
INVARIANT WorkIsDoneOnce
 
INVARIANT RunsHaveWork
INVARIANT ReportsSound
INVARIANT ShelfIsSound
PROPERTY NoSlotPassedOver
PROPERTY ImplementsStore
PROPERTY AloneIsEnough
PROPERTY SkusAsListed
\* The client, the jobs, the calendar come to rest.
CHECK_DEADLOCK FALSE
