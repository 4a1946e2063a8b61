SPECIFICATION FairSpec
CONSTANTS
    Routes = {1, 2, 3}
    Rate <- MCRate
    Descending = FALSE
    Requests = {r1}
    Policies <- AllPolicies
    Answers = {"status", "reject", "transport", "timeout", "canceled", "ok",
               "commit_ok", "commit_gone", "commit_err"}
    Modes = {TRUE, FALSE}
    ClearStreak = 3
    MaxTime = 1
    NoRequest = NoRequest
INVARIANTS
    TypeOK
    AttemptsBounded
    LogIsConsistent
PROPERTIES
    EveryRequestEnds
    ImplementsContract
