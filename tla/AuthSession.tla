----------------------------- MODULE AuthSession ------------------------------
(***************************************************************************)
(* The login state of the web console (frontend/lib/api.ts and             *)
(* auth-context.tsx).  The token lies in localStorage, which all tabs of   *)
(* the browser share, the status in the React state of one tab.  Requests  *)
(* carry the token of the moment they were sent and are answered in any    *)
(* order.  The server (backend/auth, backend/api/auth.go) keeps no         *)
(* sessions: it accepts a token or does not, and may switch authentication *)
(* off and on.                                                             *)
(***************************************************************************)
EXTENDS Naturals, FiniteSets

CONSTANTS
    Tabs,        \* tabs of one browser that show the console
    Tokens,      \* tokens the server may hand out, one per login
    NoToken,     \* nothing stored
    MaxCalls     \* bound of one tab's calls in flight

VARIABLES
    watched,   \* the tabs whose page is not hidden
    token,     \* localStorage[TOKEN_KEY]
    status,    \* AuthStatus of each tab
    enabled,   \* does the server ask for authentication
    accepted,  \* tokens it accepts
    unused,    \* tokens it has not handed out yet
    requests   \* sent and not yet seen by the tab

vars == <<watched, token, status, enabled, accepted, unused, requests>>

Kinds == {"me", "login", "logout", "api"}
Answers == {"pending", "ok", "denied", "failed", "disabled"}
Request == [tab : Tabs, kind : Kinds, tok : Tokens \cup {NoToken},
            ans : Answers, grant : Tokens \cup {NoToken}]

TypeOK ==
    /\ watched \subseteq Tabs
    /\ token \in Tokens \cup {NoToken}
    /\ status \in [Tabs -> {"loading", "anonymous", "authenticated"}]
    /\ enabled \in BOOLEAN
    /\ accepted \subseteq Tokens /\ unused \subseteq Tokens /\ accepted \cap unused = {}
    /\ requests \subseteq Request

\* apiFetch and streamSSE read the token just before they send.
Sent(t, kind) == [tab |-> t, kind |-> kind, tok |-> token, ans |-> "pending", grant |-> NoToken]

Init ==
    /\ watched \in SUBSET Tabs
    /\ enabled \in BOOLEAN
    /\ token \in Tokens \cup {NoToken}
    /\ accepted \in {{}, {token} \ {NoToken}}
    /\ unused = Tokens \ {token}
    /\ status = [t \in Tabs |-> "loading"]
    /\ requests = {Sent(t, "me") : t \in Tabs}

Of(t) == {r \in requests : r.tab = t}
Calls(t) == {r \in Of(t) : r.kind \in {"api", "logout"}}

\* The page is loaded again: its requests die with it, /auth/me asks who it is.
Reload(t) ==
    /\ status' = [status EXCEPT ![t] = "loading"]
    /\ requests' = (requests \ Of(t)) \cup {Sent(t, "me")}
    /\ UNCHANGED <<watched, token, enabled, accepted, unused>>

\* Submitting the form of the login page, which is disabled while one is sent.
Login(t) ==
    /\ status[t] = "anonymous"
    /\ \A r \in Of(t) : r.kind # "login"
    /\ requests' = requests \cup {Sent(t, "login")}
    /\ UNCHANGED <<watched, token, status, enabled, accepted, unused>>

\* logout does not wait for the server.
Logout(t) ==
    /\ status[t] = "authenticated"
    /\ Cardinality(Calls(t)) < MaxCalls
    /\ requests' = requests \cup {Sent(t, "logout")}
    /\ token' = NoToken
    /\ status' = [status EXCEPT ![t] = "anonymous"]
    /\ UNCHANGED <<watched, enabled, accepted, unused>>

\* The 30 s poll, a handler or a stream of a page behind AuthGate.
Call(t) ==
    /\ status[t] = "authenticated"
    /\ Cardinality(Calls(t)) < MaxCalls
    /\ requests' = requests \cup {Sent(t, "api")}
    /\ UNCHANGED <<watched, token, status, enabled, accepted, unused>>

\* The timer of RefreshProvider does nothing while document.hidden.
Poll(t) == t \in watched /\ Call(t)

\* The user turns to another tab or window, and comes back.
Show(t) ==
    /\ t \notin watched
    /\ watched' = watched \cup {t}
    /\ UNCHANGED <<token, status, enabled, accepted, unused, requests>>

Hide(t) ==
    /\ t \in watched
    /\ watched' = watched \ {t}
    /\ UNCHANGED <<token, status, enabled, accepted, unused, requests>>

\* The auth middleware, whoami and login on the server's side.
Verdict(r) ==
    IF ~enabled THEN IF r.kind \in {"me", "login"} THEN {"disabled"} ELSE {"ok"}
    ELSE IF r.kind = "login" THEN IF unused = {} THEN {} ELSE {"ok"}
    ELSE IF r.tok \in accepted THEN {"ok"} ELSE {"denied"}

\* Variant: a token handed out may be handed out once more.
Answer_Repeats(r) ==
    /\ r.ans = "pending"
    /\ \E v \in Verdict(r) :
          IF r.kind = "login" /\ v = "ok"
          THEN \E new \in unused :
                  /\ requests' = (requests \ {r}) \cup {[r EXCEPT !.ans = "ok", !.grant = new]}
                  /\ accepted' = accepted \cup {new}
          ELSE /\ requests' = (requests \ {r}) \cup {[r EXCEPT !.ans = v]}
               /\ UNCHANGED accepted
    /\ UNCHANGED <<watched, token, status, enabled, unused>>

Answer(r) ==
    /\ r.ans = "pending"
    /\ \E v \in Verdict(r) :
          IF r.kind = "login" /\ v = "ok"
          THEN \E new \in unused :
                  /\ requests' = (requests \ {r}) \cup {[r EXCEPT !.ans = "ok", !.grant = new]}
                  /\ accepted' = accepted \cup {new}
                  /\ unused' = unused \ {new}
          ELSE /\ requests' = (requests \ {r}) \cup {[r EXCEPT !.ans = v]}
               /\ UNCHANGED <<accepted, unused>>
    /\ UNCHANGED <<watched, token, status, enabled>>

\* A network error, or a status that is neither 2xx nor 401; for a login also
\* the 401 of a wrong password.  Nobody looks at the outcome of a logout that
\* is not a 401.
Fail(r) ==
    /\ r.ans = "pending" /\ r.kind # "logout"
    /\ requests' = (requests \ {r}) \cup {[r EXCEPT !.ans = "failed"]}
    /\ UNCHANGED <<watched, token, status, enabled, accepted, unused>>

\* The mount effect of AuthProvider: every failure of /auth/me ends at the login page.
ProbeAnswered(r) ==
    /\ r.kind = "me" /\ r.ans # "pending"
    /\ token' = IF r.ans = "ok" THEN token ELSE NoToken
    /\ status' = [status EXCEPT ![r.tab] =
                    IF r.ans \in {"ok", "disabled"} THEN "authenticated" ELSE "anonymous"]
    /\ requests' = requests \ {r}
    /\ UNCHANGED <<watched, enabled, accepted, unused>>

\* login and the form's handleSubmit; a denied login only shows an error.
LoginAnswered(r) ==
    /\ r.kind = "login" /\ r.ans # "pending"
    /\ token' = IF r.ans = "ok" THEN r.grant ELSE token
    /\ status' = IF r.ans \in {"ok", "disabled"}
                 THEN [status EXCEPT ![r.tab] = "authenticated"] ELSE status
    /\ requests' = requests \ {r}
    /\ UNCHANGED <<watched, enabled, accepted, unused>>

\* Variants: every failed call logs out; a 401 drops the token but is not passed on.
CallAnswered_AnyFailure(r) ==
    /\ r.kind \in {"api", "logout"} /\ r.ans # "pending"
    /\ token' = IF r.ans \in {"denied", "failed"} THEN NoToken ELSE token
    /\ status' = IF r.ans \in {"denied", "failed"}
                 THEN [status EXCEPT ![r.tab] = "anonymous"] ELSE status
    /\ requests' = requests \ {r}
    /\ UNCHANGED <<watched, enabled, accepted, unused>>

CallAnswered_NoHandler(r) ==
    /\ r.kind \in {"api", "logout"} /\ r.ans # "pending"
    /\ token' = IF r.ans = "denied" THEN NoToken ELSE token
    /\ requests' = requests \ {r}
    /\ UNCHANGED <<watched, status, enabled, accepted, unused>>

\* apiFetch and notifyUnauthorized: a 401 drops the token that is stored now,
\* whichever token the request carried, and calls the unauthorizedHandler.
CallAnswered(r) ==
    /\ r.kind \in {"api", "logout"} /\ r.ans # "pending"
    /\ token' = IF r.ans = "denied" THEN NoToken ELSE token
    /\ status' = IF r.ans = "denied" THEN [status EXCEPT ![r.tab] = "anonymous"] ELSE status
    /\ requests' = requests \ {r}
    /\ UNCHANGED <<watched, enabled, accepted, unused>>

\* Tokens expire or the settings page applies another secret; it may also
\* switch authentication off or on.
Reconfigure ==
    /\ enabled' \in BOOLEAN
    /\ accepted' \in SUBSET accepted
    /\ UNCHANGED <<watched, token, status, unused, requests>>

Arrive(r) == ProbeAnswered(r) \/ LoginAnswered(r) \/ CallAnswered(r)

Next ==
    \/ \E t \in Tabs : Reload(t) \/ Login(t) \/ Logout(t) \/ Call(t) \/ Show(t) \/ Hide(t)
    \/ \E r \in requests : Answer(r) \/ Fail(r) \/ Arrive(r)
    \/ Reconfigure

(***************************************************************************)
(* Properties.                                                             *)
(***************************************************************************)

\* A token that the server still accepts leaves localStorage only by a logout,
\* by a new login, by a probe that did not say yes, or by a 401 to a request
\* that had been sent with another token.  The last two are surprises of this
\* code: a network error while the page loads and a late answer to an old
\* session both end the new one.
DropsLiveToken(r) ==
    \/ r.kind = "me" /\ r.ans \in {"failed", "denied", "disabled"}
    \/ r.kind \in {"api", "logout"} /\ r.ans = "denied" /\ r.tok # token

LiveTokenStep ==
    (token \in accepted /\ token' # token) =>
        \/ \E t \in Tabs : Logout(t)
        \/ \E r \in requests : r.kind = "login" /\ r.ans = "ok" /\ token' = r.grant
        \/ \E r \in (requests \ requests') : DropsLiveToken(r)

LiveTokenKept == [][LiveTokenStep]_vars

\* A tab whose token died and that stays in view does not show the console for
\* ever: it finds its way to the login page, or to a live token.  A hidden tab does
\* not poll and may keep its dead session until somebody looks at it.
Dead(t) == status[t] = "authenticated" /\ enabled /\ token \notin accepted
DeadSessionNoticed == \A t \in Tabs : []<>~(Dead(t) /\ t \in watched)

\* A tab in view keeps polling and takes the answers that reach it.  The server or
\* the network settles every call, and of the polls that carry the stored token
\* the server answers some, although single ones may fail.
PollAnswered(t) == \E r \in Of(t) : r.kind = "api" /\ r.tok = token /\ Answer(r)
CallSettles(t) == \E r \in Calls(t) : Answer(r) \/ Fail(r)
Delivered(t, ans) == t \in watched /\ \E r \in Of(t) : r.ans = ans /\ Arrive(r)

Fairness ==
    \A t \in Tabs :
        /\ WF_vars(Poll(t)) /\ WF_vars(CallSettles(t)) /\ SF_vars(PollAnswered(t))
        /\ \A ans \in Answers : WF_vars(Delivered(t, ans))

Spec == Init /\ [][Next]_vars /\ Fairness

-----------------------------------------------------------------------------
\* What carries LiveTokenStep from step to step: what was sent or stored had been
\* handed out, and a token that was refused is never accepted again.
TokenInv ==
    /\ NoToken \notin unused /\ token \notin unused
    /\ \A r \in requests :
          /\ r = [tab |-> r.tab, kind |-> r.kind, tok |-> r.tok, ans |-> r.ans, grant |-> r.grant]
          /\ r.ans \in Answers /\ r.tok \notin unused /\ r.grant \notin unused
          /\ r.kind \in {"api", "logout"} /\ r.ans = "denied" => r.tok \notin accepted
=============================================================================
