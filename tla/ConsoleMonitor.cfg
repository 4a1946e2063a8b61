SPECIFICATION MCSpec
CONSTANTS
    Nil = Nil
    All = All
    Absent = Absent
    Channels = {ca, cb}
    KeyIds = {1}
    Groups = {g1}
    Users = {u1, u2}
    Sites = {s1}
    Jobs = {j1, j2}
    Plans = {p1, p2}
    Methods = {a, b}
    AllowedBy <- MCAllowedBy
    Upstreams = {u1, u2}
    RateEvents = {rate}
    OtherEvents = {ev}
    KeyFields = {f1, f2}
    SideFields = {f3}
    Values = {v1}
    Services = {1, 2}
    Secrets = {k1, k2}
    Tabs = {ta, tb}
    Tokens = {k1, k2}
    Codes = {k1}
    Scanners = {ha, hb}
    Hooks = {ha, hb}
    Paths = {x1, x2}
    LoginHooks = {ha}
    LoginPaths = {x1}
    Offered = {k1, k2}
    Keyed = {k1}
    Ratios = {1, 2}
    UpAtFirst <- MCUpAtFirst
    Deleted = {ca}
    Owner <- MCOwner
    Stored = 5
    PageSize = 2
    MaxRows = 6
    Bound <- MCBound
    ca = ca
    cb = cb
    k1 = k1
    k2 = k2
    p1 = p1
    p2 = p2
    a = a
SYMMETRY Symmetry
CHECK_DEADLOCK FALSE
INVARIANTS
    TypeOK
    
    FlagsAreExact
    OwnAndOnly
PROPERTIES
    OnlyAsTyped
    UntouchedIsKept
