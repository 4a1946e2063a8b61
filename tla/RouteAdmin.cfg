SPECIFICATION MCSpec
CONSTANTS
    Slots = {s1, s2}
    Admins = {a1, a2}
    Quotas = {1, 2}
    MaxQuota = 2
    Costs = {0, 1}
    MaxCost = 1
    MaxBilled = 4
    MaxRaised = 1
    Sources = {u1, u2}
    Savers = {ta}
    Resorters = {tr}
    Ensurers = {te}
    MaxId = 3
    Deletion = TRUE
    MaxRows = 3
    MaxNew = 2
    TmpBase = 5
    Routes = {1, 2, 3, 4, 5, 6}
    Rate <- MCRate
    Position <- MCPosition
    Submitted <- MCSubmitted
    Descending = FALSE
SYMMETRY SourceSymmetry
CHECK_DEADLOCK FALSE
INVARIANTS
    TypesOK
    QuotaOvershootBounded
    OrderIsSound
PROPERTIES
    RowsAreKept
