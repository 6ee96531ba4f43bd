CONSTANTS
    p1 = p1
    p2 = p2
    d1 = d1
    f1 = f1
    r1 = r1
    r2 = r2
    author = author
    reviewer = reviewer
    None = None
    Requests = {r1, r2}
    Ids = {p1, p2}
    Documents = {d1}
    Files = {f1}
    Users = {author, reviewer}
    Holds <- Permissions
    UploadKeys <- DoubleClick
    Retention = 1
    MaxAge = 2
    Horizon = 3
    MaxJobs = 2
    MaxFaults = 1
SPECIFICATION FilesSpec
SYMMETRY Symmetric
INVARIANT TypesOK
INVARIANT VerdictsRestOnDocuments
INVARIANT TicketIsTold
INVARIANT FilesMatchRows
 
PROPERTY OnlyOverlapsUndo
\* The clock of the staging stops at the horizon.
CHECK_DEADLOCK FALSE
