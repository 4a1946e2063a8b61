SPECIFICATION Spec
CONSTANTS
    Upstreams = {u1}
    RateEvents = {rate}
    OtherEvents = {ev}
    Groups = {g1}
    KeyFields = {f1, f2}
    SideFields = {f3}
    Values = {v1}
    Blank = None
    MaxRules = 1
    MaxClicks = 4
CHECK_DEADLOCK FALSE
PROPERTY LeftEmptyKeepsValue
