SPECIFICATION MCSpec
CONSTANTS
    Channels = {c1, c2}
    Loaders = {l1}
    Slots = {s1, s2}
    Wanted <- MCWanted
    Concurrency = 1
    Changing = {c1}
    MaxVersion = 1
    MaxFailures = 1
    SourceGroups = {g1, g2}
    Routes = {r1, r2, r3}
    First = {k1}
    Second = {r3}
    Fixed = {r1, r3}
    Calls = {k1, k2}
    RoutesOf <- MCRoutesOf
    KeySlots = 2
    MaxCalls = 2
    MaxEdits = 1
    MaxErrors = 1
CHECK_DEADLOCK FALSE
INVARIANTS
    TypesOK
    SingleFlight
    ResortSeesScan
    KeysAreSound
PROPERTIES
    RefreshKeepsRatios
    WorkEnds
