CONSTANTS
    NumBatches = 1
    Items = {i1, i2}
    BatchOf <- OneBatch
    i1 = i1
    i2 = i2
    i3 = i3
    None = None
    Creator = creator
    Workers = {w1, w2}
    Cancellers = {c1}
    Retriers = {}
    MaxRetries = 0
    Budgets <- CrashOrDispatchFaults
SPECIFICATION Spec
SYMMETRY Symmetric
INVARIANT TypeOK
INVARIANT NoPhantomSuccess
INVARIANT NoBlindReplay
INVARIANT FinishedBatchSettled
INVARIANT CancelBoundsCalls
\* The system rests once every request and message has been served.
CHECK_DEADLOCK FALSE
