SPECIFICATION MCSpec
CONSTANTS
    Nil = Nil
    Every = Every
    Priced = {x1, x2}
    Prices = {p1}
    Queries = {q1, q2}
    Models = {m1, m2}
    Upstream <- MCUpstream
    Catalog = {m1}
    Groups = {ga, gb}
    Routes = {r1, r2}
    KeyIds = {k1, k2}
    Ids = {1, 2, 3}
    KeysOf <- MCKeysOf
    ModelsOf <- MCModelsOf
    Requests = {u1}
    Cuts = {2}
    Columns = {v1, v2}
    Default = {v1}
    Names = {n1, n2}
    ApiKeys = {k1}
    Bound <- MCBound
    s1 = s1
    p1 = p1
SYMMETRY Symmetry
CHECK_DEADLOCK FALSE
INVARIANTS
    TypeOK
    SettledPanelIsServers
    FlagsAreExact
    PanelTellsTruth
PROPERTIES
    WritesAsAsked
