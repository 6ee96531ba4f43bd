CONSTANTS
    Retries = 3
    Operations = 2
SPECIFICATION Spec
INVARIANT ActsAtMostOnce
\* The session rests once it is closed.
CHECK_DEADLOCK FALSE
