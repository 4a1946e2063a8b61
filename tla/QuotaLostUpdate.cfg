SPECIFICATION Spec
CONSTANTS
    Slots = {s1, s2}
    Admins = {a1}
    Quotas = {2, 3}
    MaxQuota = 3
    Costs = {0, 1, 2}
    MaxCost = 2
    MaxBilled = 8
    MaxRaised = 1
CHECK_DEADLOCK FALSE
INVARIANT QuotaMatchesLedger
