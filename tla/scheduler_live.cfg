CONSTANTS
    t1 = t1
    t2 = t2
    u1 = u1
    u2 = u2
    Tasks = {1, 2}
    Period <- EveryMinute
    Ticks = {t1}
    Users = {u1}
    Callers <- AllCallers
    TickLimit = 2
    Horizon = 2
    MaxFaults = 1
SPECIFICATION FairSpec
PROPERTY DueTasksFire
