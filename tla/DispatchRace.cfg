SPECIFICATION Spec
CONSTANTS
    Routes = {1, 2}
    Rate <- MCRate
    Descending = TRUE
    Requests = {r1, r2}
    Policies <- RacePolicies
    Answers = {"timeout", "transport", "ok"}
    Modes = {FALSE}
    ClearStreak = 1
    MaxTime = 3
    NoRequest = NoRequest
SYMMETRY RaceSymmetry
INVARIANTS
    CooldownEarned
    FirstTokenTimeoutNeverFinal
    StreakSettles
