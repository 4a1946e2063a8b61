SPECIFICATION Spec
CONSTANTS
    Sources = {s1, s2}
    Admins = {a1}
    Resorters = {r1}
    Ensurers = {}
    MaxId = 3
    Deletion = FALSE
PROPERTY ResortOnlyReorders
