CONSTANTS
    p1 = p1
    p2 = p2
    d1 = d1
    f1 = f1
    r1 = r1
    r2 = r2
    author = author
    reviewer = reviewer
    None = None
    Requests = {r1}
    Ids = {p1, p2}
    Documents = {d1}
    Files = {f1}
    Users = {author, reviewer}
    Holds <- Permissions
SPECIFICATION Spec
INVARIANT NothingHangsFromInactive
