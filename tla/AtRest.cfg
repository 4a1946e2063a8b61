SPECIFICATION MCSpec
CONSTANTS
    Groups = {ga, gb}
    Nothing = Nothing
    MaxRequests = 2
    MaxClicks = 2
    Tabs = {ta, tb}
    Tokens = {k1}
    NoToken = NoToken
    Checks = {b1, b2}
    Targets = {t1, t2}
    NoTarget = NoTarget
    Cooldown = 1
    Lifetime = 2
    MaxAttempts = 2
    MaxFaults = 1
CHECK_DEADLOCK FALSE
INVARIANTS
    TypesOK
    PageIsHonest
    OneRoundPerWindow
PROPERTIES
    CoverNeedsUnnumbered
    ComesToRest
