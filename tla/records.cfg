CONSTANTS
    e1 = e1
    e2 = e2
    k1 = k1
    k2 = k2
    All = All
    Actors = {p1, p2}
    Seeds = {x1, x2}
    Companies = {x1, x2}
    Areas = {a1}
    Entries = {e1, e2}
    Kinds = {k1, k2}
    Tables = {"company", "module", "role", "link", "status", "schedule"}
    RowIds = {1, 2, 3}
    Edits = 3
    KeyIds = {1, 2, 3, 4}
    Moves = 3
    Posted <- PostedOn
    RuleIds = {1, 2}
    Shapes <- RuleShapes
    LastDay = 2
    Operations = 4
SPECIFICATION RecordsSpec
SYMMETRY RecordsSymmetric
INVARIANT RowsTyped
INVARIANT NoTwins
INVARIANT SurfacesAgree
INVARIANT DeadSecrets
INVARIANT WellClassified
PROPERTY SeedKeepsDecisions
PROPERTY RightsStayAsSet
 
