CONSTANTS
    NumBatches = 1
    Items = {i1, i2}
    BatchOf <- OneBatch
    i1 = i1
    i2 = i2
    i3 = i3
    None = None
    Creator = creator
    Workers = {w1}
    Cancellers = {c1}
    Retriers = {}
    MaxRetries = 1
    Budgets <- NoFaults
SPECIFICATION Spec
PROPERTY TerminalItemsStay
\* The system rests once every request and message has been served.
CHECK_DEADLOCK FALSE
