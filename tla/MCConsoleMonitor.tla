-------------------------- MODULE MCConsoleMonitor --------------------------
(***************************************************************************)
(* The monitor's side of the console, one run for all: the settings page   *)
(* and its lists, the dialogs of a channel and its progress strip, the     *)
(* requests that pages share, scans, logs read by pages, and the session   *)
(* of the browser's tabs.  The initial state chooses which of them runs.   *)
(* They share no state, so one set of cells serves them all.               *)
(***************************************************************************)
EXTENDS Naturals, FiniteSets, TLC

CONSTANTS
    Nil, All, Absent,
    Channels, KeyIds, Groups,                        \* of the upstreams and their keys
    Users, Sites, Jobs,                              \* of logins
    Plans, Methods, AllowedBy,                       \* of payments
    Upstreams, RateEvents, OtherEvents,              \* of notifications: what they are about,
    KeyFields, SideFields, Values,                   \*   and how they are configured
    Services, Secrets,                               \* of the settings page's lists
    Tabs, Tokens,                                    \* of the browser
    Codes, Scanners,                                 \* of redeeming, and of scans
    Hooks, Paths,                                    \* of shared requests,
    LoginHooks, LoginPaths,                          \*   and of those before and after a login
    Offered, Keyed, Ratios, UpAtFirst,               \* of the upstream's ratios, and what it begins with
    Deleted, Owner, Stored, PageSize, MaxRows,       \* of logs
    Bound,                                           \* bounds of what may happen
    ca, cb, k1, k2, p1, p2, a                        \* model values

VARIABLES
    part,   \* who runs
    c1, c2, c3, c4, c5, c6, c7, c8, c9, c10, c11, c12, c13, c14, c15, c16, c17,
    c18, c19, c20
            \* the variables of the part, in the order in which it declares them

MCAllowedBy == [p \in Plans |-> IF p = p1 THEN {a} ELSE {}]   \* p2 allows every method
MCBound == [schedulers |-> 3, settingsCalls |-> 2, settingsClicks |-> 3, rules |-> 1, ruleClicks |-> 4,
            keyCalls |-> 2, keyClicks |-> 5, tokens |-> 2, edits |-> 1, runs |-> 3,
            orders |-> 2, orderClicks |-> 5, syncs |-> 3, listCalls |-> 2, listClicks |-> 2,
            tabCalls |-> 1, scans |-> 3, moves |-> 1, opens |-> 2,
            ticks |-> 1, bumps |-> 1, writes |-> 1, inFlight |-> 2, cached |-> 1,
            logins |-> 1, loginCached |-> 2]

\* The upstream has two groups, and keys for one of them.
MCUpAtFirst == {u \in [Offered -> {0, 1, 2}] : u[k1] = 1 /\ u[k2] # 1}

\* Rows 2 and 3 are about a channel that may be deleted.
MCOwner == [i \in 1..6 |-> IF i \in {2, 3} THEN ca ELSE cb]

\* Tabs, hooks and paths, and of no other part.
Symmetry == Permutations(Tabs) \cup Permutations(Hooks) \cup Permutations(Paths)

Config == INSTANCE Settings WITH
    MaxSchedulers <- Bound.schedulers, MaxCalls <- Bound.settingsCalls,
    MaxClicks <- Bound.settingsClicks, file <- c1, torn <- c2,
    services <- c3, manager <- c4, schedulers <- c5, form <- c6, saving <- c7,
    applying <- c8, pending <- c9, calls <- c10, doubt <- c11, overlapped <- c12,
    clicks <- c13

Notify == INSTANCE NotifyForm WITH
    Blank <- Nil, MaxRules <- Bound.rules, MaxClicks <- Bound.ruleClicks, upstreams <- c1, stored <- c2,
    open <- c3, form <- c4, submitting <- c5, call <- c6, shown <- c7, clicks <- c8

Keys == INSTANCE ApiKeys WITH
    NoChannel <- Nil, Ids <- KeyIds, NoGroup <- Nil,
    MaxCalls <- Bound.keyCalls, MaxClicks <- Bound.keyClicks, keys <- c1,
    channel <- c2, target <- c3, mode <- c4, editing <- c5, formGroup <- c6,
    selected <- c7, items <- c8, loading <- c9, listError <- c10, groups <- c11,
    groupsLoading <- c12, groupsError <- c13, revealed <- c14, submitting <- c15,
    asking <- c16, calls <- c17, clicks <- c18, validated <- c19, late <- c20

Login == INSTANCE ChannelLogin WITH
    NoUser <- Nil, MaxGen <- Bound.tokens, MaxEdits <- Bound.edits, MaxRuns <- Bound.runs, row <- c1, session <- c2, gen <- c3,
    job <- c4, lock <- c5, form <- c6, edit <- c7, edits <- c8, runs <- c9,
    overlap <- c10, dropped <- c11

Pay == INSTANCE Recharge WITH
    NoChannel <- Nil, Nothing <- Nil, MaxOrders <- Bound.orders, MaxClicks <- Bound.orderClicks,
    channel <- c1, tab <- c2, loading <- c3, methods <- c4, method <- c5,
    amountOk <- c6, subLoading <- c7, offer <- c8, plan <- c9, subMethod <- c10,
    loads <- c11, submitting <- c12, orders <- c13, launch <- c14, made <- c15,
    clicks <- c16, late <- c17

Sync == INSTANCE ChannelSync WITH
    MaxStarts <- Bound.syncs, listed <- c1, strip <- c2,
    timer <- c3, bulk <- c4, open <- c5, starts <- c6

Lists == INSTANCE ServiceLists WITH
    Ids <- Services, Blank <- Nil, MaxCalls <- Bound.listCalls,
    MaxClicks <- Bound.listClicks, kind <- c1, rows <- c2, shown <- c3, load <- c4, busy <- c5,
    asking <- c6, form <- c7, calls <- c8, clicks <- c9

Fetch == INSTANCE SharedFetch WITH
    Nothing <- Nil, MaxTick <- Bound.ticks, MaxBump <- Bound.bumps, MaxWrites <- Bound.writes,
    MaxLogins <- 0, MaxInFlight <- Bound.inFlight, MaxCached <- Bound.cached,
    tick <- c1, hook <- c2, inflight <- c3, cache <- c4, version <- c5,
    since <- c6, logins <- c7

\* Across a login.
Again == INSTANCE SharedFetch WITH
    Hooks <- LoginHooks, Paths <- LoginPaths, Nothing <- Nil, MaxTick <- Bound.ticks,
    MaxBump <- Bound.bumps, MaxWrites <- Bound.writes, MaxLogins <- Bound.logins,
    MaxInFlight <- Bound.inFlight, MaxCached <- Bound.loginCached,
    tick <- c1, hook <- c2, inflight <- c3, cache <- c4, version <- c5,
    since <- c6, logins <- c7

Auth == INSTANCE AuthSession WITH
    NoToken <- Nil, MaxCalls <- Bound.tabCalls,
    token <- c1, status <- c2, enabled <- c3, accepted <- c4, unused <- c5,
    requests <- c6, watched <- c7

Scan == INSTANCE RateScan WITH
    Groups <- Offered, NoGroup <- Nil, MaxScans <- Bound.scans, MaxMoves <- Bound.moves,
    up <- c1, rows <- c2,
    lastId <- c3, last <- c4, scan <- c5, begun <- c6, moves <- c7, base <- c8,
    saw <- c9, heard <- c10, mixed <- c11, torn <- c12

Feed == INSTANCE LogFeed WITH
    Channels <- Deleted, MaxOpens <- Bound.opens, log <- c1, written <- c2, open <- c3, page <- c4, feed <- c5,
    pages <- c6, loading <- c7, error <- c8, calls <- c9, opens <- c10, first <- c11,
    lost <- c12, unseen <- c13, skipped <- c14

Code == INSTANCE Redeem WITH
    NoChannel <- Nil, NoCode <- Nil, MaxScans <- Bound.scans, channel <- c1, code <- c2, submitting <- c3,
    error <- c4, typedFor <- c5, asked <- c6, used <- c7, bal <- c8, row <- c9,
    scan <- c10, begun <- c11, stale <- c12

ASSUME LogAssumption == Scan!ScanAssumption /\ Feed!FeedAssumption

ASSUME ConsoleAssumption ==
    /\ Nil \notin Channels /\ Nil \notin Tokens /\ Nil \notin Users
    /\ All \notin Channels
    /\ "none" \notin Jobs

\* The cells after the nth, which a part with n variables leaves alone.
Rest17 == <<c18, c19, c20>>
Zero17 == c18 = 0 /\ c19 = 0 /\ c20 = 0
Rest14 == <<c15, c16, c17, Rest17>>
Zero14 == c15 = 0 /\ c16 = 0 /\ c17 = 0 /\ Zero17
Rest13 == <<c14, Rest14>>
Zero13 == c14 = 0 /\ Zero14
Rest12 == <<c13, Rest13>>
Zero12 == c13 = 0 /\ Zero13
Rest11 == <<c12, Rest12>>
Zero11 == c12 = 0 /\ Zero12
Rest9 == <<c10, c11, Rest11>>
Zero9 == c10 = 0 /\ c11 = 0 /\ Zero11
Rest8 == <<c9, Rest9>>
Zero8 == c9 = 0 /\ Zero9
Rest7 == <<c8, Rest8>>
Zero7 == c8 = 0 /\ Zero8
Rest6 == <<c7, Rest7>>
Zero6 == c7 = 0 /\ Zero7
allVars == <<part, c1, c2, c3, c4, c5, c6, c7, c8, c9, c10, c11, c12, c13, c14, c15, c16, c17, c18, c19, c20>>

MCInit ==
    \/ part = "settings" /\ Config!Init /\ Zero13
    \/ part = "notify" /\ Notify!Init /\ Zero8
    \/ part = "keys" /\ Keys!Init
    \/ part = "login" /\ Login!Init /\ Zero11
    \/ part = "pay" /\ Pay!Init /\ Zero17
    \/ part = "sync" /\ Sync!Init /\ Zero6
    \/ part = "lists" /\ Lists!Init /\ Zero9
    \/ part = "fetch" /\ Fetch!Init /\ Zero7
    \/ part = "again" /\ Again!Init /\ Zero7
    \/ part = "auth" /\ Auth!Init /\ Zero7
    \/ part = "scan" /\ Scan!Init /\ Zero12 /\ c1 \in UpAtFirst
    \/ part = "feed" /\ Feed!Init /\ Zero14
    \/ part = "redeem" /\ Code!Init /\ Zero12

MCNext ==
    /\ UNCHANGED part
    /\ \/ part = "settings" /\ Config!Next /\ UNCHANGED Rest13
       \/ part = "notify" /\ Notify!Next /\ UNCHANGED Rest8
       \/ part = "keys" /\ Keys!Next
       \/ part = "login" /\ Login!Next /\ UNCHANGED Rest11
       \/ part = "pay" /\ Pay!Next /\ UNCHANGED Rest17
       \/ part = "sync" /\ Sync!Next /\ UNCHANGED Rest6
       \/ part = "lists" /\ Lists!Next /\ UNCHANGED Rest9
       \/ part = "fetch" /\ Fetch!Next /\ UNCHANGED Rest7
       \/ part = "again" /\ Again!Next /\ UNCHANGED Rest7
       \/ part = "auth" /\ Auth!Next /\ UNCHANGED Rest7
       \/ part = "scan" /\ Scan!Next /\ UNCHANGED Rest12
       \/ part = "feed" /\ Feed!Next /\ UNCHANGED Rest14
       \/ part = "redeem" /\ Code!Next /\ UNCHANGED Rest12

MCSpec == MCInit /\ [][MCNext]_allVars

\* The properties, as the modules of the parts state and explain them.
TypeOK ==
    /\ part = "settings" => Config!TypeOK
    /\ part = "notify" => Notify!TypeOK
    /\ part = "keys" => Keys!TypeOK
    /\ part = "login" => Login!TypeOK
    /\ part = "pay" => Pay!TypeOK
    /\ part = "sync" => Sync!TypeOK
    /\ part = "lists" => Lists!TypeOK
    /\ part = "fetch" => Fetch!TypeOK
    /\ part = "again" => Again!TypeOK
    /\ part = "auth" => Auth!TypeOK
    /\ part = "scan" => Scan!TypeOK
    /\ part = "feed" => Feed!TypeOK
    /\ part = "redeem" => Code!TypeOK


\* What says "working" or "not applied yet" has something to wait for, and what is
\* under way says so.
FlagsAreExact ==
    /\ part = "settings" => Config!PendingIsHonest
    /\ part = "lists" => Lists!BusyNamesACall
    /\ part = "fetch" => Fetch!WaitsForSomething
    /\ part = "again" => Again!WaitsForSomething
    /\ part = "sync" => Sync!OpenStreamIsShown /\ Sync!ButtonsComeBack
    /\ part = "scan" => Scan!QuietReportIsDifference
    /\ part = "feed" => Feed!LoadingIsExact
    /\ part = "redeem" => Code!SubmittingIsExact

\* Secrets and payments stay with the channel and the user they were made for, the
\* token that is stored is the last one the upstream has given out, one order at a
\* time is placed, and one scheduler runs unless two calls applied settings at a time.
OwnAndOnly ==
    /\ part = "keys" => Keys!SecretIsThisChannels
    /\ part = "login" => Login!TokenIsLatest /\ Login!SessionIsOfItsUser
    /\ part = "pay" => Pay!LaunchPaysThisChannel /\ Pay!OneOrderAtATime
    /\ part = "settings" => Config!OneScheduler

\* A secret changes when its user has typed another, and a request that costs
\* money or moves a key names what was offered and validated.
RequestStep ==
    /\ part = "notify" => Notify!ConfigStep
    /\ part = "login" => Login!CredentialStep
    /\ part = "lists" => Lists!KeyStep
    /\ part = "keys" => Keys!TargetStep
    /\ part = "pay" => Pay!OfferedStep
    /\ part = "redeem" => Code!SentAsTyped
OnlyAsTyped == [][RequestStep]_allVars

\* What nobody has touched survives the steps of others: sections of the settings
\* a save does not edit, a failure on the strip, a session that is still accepted.
KeptStep ==
    /\ part = "settings" => Config!RestStep
    /\ part = "sync" => Sync!FailureKept
    /\ part = "auth" => Auth!LiveTokenStep
UntouchedIsKept == [][KeptStep]_allVars
=============================================================================
