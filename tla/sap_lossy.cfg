CONSTANTS
    NumBatches = 2
    Items = {i1, i2}
    BatchOf <- OneEach
    i1 = i1
    i2 = i2
    i3 = i3
    None = None
    Creator = creator
    Workers = {w1, w2}
    Cancellers = {}
    Retriers = {}
    MaxRetries = 1
    Budgets <- LossyAndRefusing
SPECIFICATION Spec
SYMMETRY Symmetric
INVARIANT SoleExecutor
 
PROPERTY ImplementsContract
PROPERTY TerminalJobStays
\* The system rests once every request and message has been served.
CHECK_DEADLOCK FALSE
