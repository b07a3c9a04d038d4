---------------------------- MODULE ClientSession ----------------------------
(***************************************************************************)
(* The session as the tabs of one browser keep it (web-ui and admin-ui     *)
(* store/user.ts, api/client.ts, Login, UserMenu).  A tab remembers an     *)
(* access token, writes it to the local storage, and reads the storage     *)
(* only when it is loaded.  When a request is answered by 401 its client   *)
(* renews the session with the refresh cookie that all tabs share;         *)
(* requests answered by 401 meanwhile wait for the same call, and all of   *)
(* them are then sent once more with whatever token the tab has.           *)
(*                                                                         *)
(* A session stands for its access token and its refresh token.  The       *)
(* server is Sessions.tla, reduced to what one browser sees of it.         *)
(***************************************************************************)
EXTENDS Naturals, FiniteSets

CONSTANTS Tab, Request, Session, None

VARIABLES sessions,     \* the "session" collection, see Unused
          cookie,       \* the refresh cookie of the browser
          storage,      \* the session in the local storage
          store,        \* per tab: the session it uses, None when logged out
          request,      \* per request: its progress, see New
          refresh,      \* per request: the refresh call it started, see Idle
          current,      \* per tab: whose refresh call its requests wait for
          left,         \* history: tabs that logged out and did not log in again
          lost          \* history: an answer to a refresh was lost

vars == <<sessions, cookie, storage, store, request, refresh, current, left, lost>>
tabs == <<cookie, storage, store, left>>
calls == <<request, refresh, current>>

-----------------------------------------------------------------------------
\* Whether the session exists, its access token is valid, its refresh token is.
Unused == [known |-> FALSE, access |-> FALSE, refresh |-> FALSE]
Opened == [known |-> TRUE, access |-> TRUE, refresh |-> TRUE]

\* at is "new", "held" back during a refresh, "sent" with a token, answered by
\* "unauthorized", "waiting" for the refresh call on, "done", "failed", or
\* "gone" with its page.  again says that it is sent for the second time.
New == [tab |-> None, at |-> "new", token |-> None, on |-> None, again |-> FALSE]

\* A request that is no longer under way keeps no token.
Over(q, at) == [q EXCEPT !.at = at, !.token = None, !.on = None]

\* at is "none", "sent" with the token the browser added, "answered" with the
\* session it made or None, "arrived" in the browser, or "over".
Idle == [at |-> "none", token |-> None, made |-> None]

Init ==
    /\ sessions = [s \in Session |-> Unused]
    /\ cookie = None /\ storage = None /\ store = [t \in Tab |-> None]
    /\ request = [r \in Request |-> New]
    /\ refresh = [r \in Request |-> Idle] /\ current = [t \in Tab |-> None]
    /\ left = {} /\ lost = FALSE

Free == {s \in Session : ~sessions[s].known}
Live(s) == s # None /\ sessions[s].refresh
InFlight(r) == refresh[r].at \in {"sent", "answered"}

\* setUser and clear: zustand's persist writes the storage at once.
SetUser(t, s) == store' = [store EXCEPT ![t] = s] /\ storage' = s

-----------------------------------------------------------------------------
(* The pages.                                                              *)

\* A login that succeeds; the form itself is in SignIn.tla.
Login(t, s) ==
    /\ s \in Free
    /\ sessions' = [sessions EXCEPT ![s] = Opened]
    /\ cookie' = s
    /\ SetUser(t, s)
    /\ left' = left \ {t}
    /\ UNCHANGED <<calls, lost>>

\* handleLogout: nothing is sent to the server.
Logout(t) ==
    /\ store[t] # None
    /\ SetUser(t, None)
    /\ left' = left \cup {t}
    /\ UNCHANGED <<sessions, cookie, calls, lost>>

\* The tab is loaded: what it had under way is gone.
Load(t) ==
    LET mine == {r \in Request : request[r].tab = t} IN
    /\ store[t] # storage \/ \E r \in mine : request[r].at \notin {"done", "failed", "gone"}
    /\ store' = [store EXCEPT ![t] = storage]
    /\ request' = [r \in Request |-> IF r \in mine THEN Over(request[r], "gone")
                                                   ELSE request[r]]
    /\ lost' = (lost \/ \E r \in mine : InFlight(r))
    /\ refresh' = [r \in Request |-> IF r \in mine THEN Idle ELSE refresh[r]]
    /\ current' = [current EXCEPT ![t] = None]
    /\ UNCHANGED <<sessions, cookie, storage, left>>

\* A page calls the API.  A request made while the tab refreshes is held back;
\* the token is added when it is sent.
Send(t, r) ==
    /\ request[r] = New
    /\ request' = [request EXCEPT ![r] =
         IF current[t] # None /\ refresh[current[t]].at # "over"
         THEN [New EXCEPT !.tab = t, !.at = "held", !.on = current[t]]
         ELSE [New EXCEPT !.tab = t, !.at = "sent", !.token = store[t]]]
    /\ UNCHANGED <<sessions, tabs, refresh, current, lost>>

-----------------------------------------------------------------------------
(* The server and the network.                                             *)

\* An access token runs out.
Expire(s) ==
    /\ sessions[s].access
    /\ sessions' = [sessions EXCEPT ![s].access = FALSE]
    /\ UNCHANGED <<tabs, calls, lost>>

\* The outcome of request r.  When a repeated request has ended, its refresh
\* call is forgotten, and with it the call the tab is using by then.
Ended(r, at) ==
    /\ request' = [request EXCEPT ![r] = Over(@, at)]
    /\ current' = IF request[r].again /\ at # "unauthorized"
                  THEN [current EXCEPT ![request[r].tab] = None] ELSE current

Serve(r) ==
    LET s == request[r].token IN
    /\ request[r].at = "sent"
    /\ Ended(r, IF s # None /\ sessions[s].access THEN "done"
                ELSE IF request[r].again THEN "failed" ELSE "unauthorized")
    /\ UNCHANGED <<sessions, tabs, refresh, lost>>

RequestLost(r) ==
    /\ request[r].at = "sent"
    /\ Ended(r, "failed")
    /\ UNCHANGED <<sessions, tabs, refresh, lost>>

\* RefreshSession spends the token and opens a session, or answers 400.
AnswerRefresh(r) ==
    LET old == refresh[r].token IN
    /\ refresh[r].at = "sent"
    /\ \/ /\ Live(old)
          /\ \E s \in Free :
               /\ sessions' = [sessions EXCEPT ![old].refresh = FALSE, ![s] = Opened]
               /\ refresh' = [refresh EXCEPT ![r].at = "answered", ![r].made = s]
       \/ ~Live(old) /\ UNCHANGED sessions /\ refresh' = [refresh EXCEPT ![r].at = "answered"]
    /\ UNCHANGED <<tabs, request, current, lost>>

\* No answer comes; the token may have been spent.
RefreshLost(r) ==
    /\ refresh[r].at = "sent"
    /\ refresh' = [refresh EXCEPT ![r].at = "answered"]
    /\ lost' = TRUE
    /\ \/ UNCHANGED sessions
       \/ /\ Live(refresh[r].token)
          /\ sessions' = [sessions EXCEPT ![refresh[r].token].refresh = FALSE]
    /\ UNCHANGED <<tabs, request, current>>

-----------------------------------------------------------------------------
(* The refresh interceptor.                                                *)

\* A 401 starts the refresh of the tab, joins the one under way, or is sent
\* again at once when that is over.
Intercept(r) ==
    LET t == request[r].tab
        on == IF current[t] = None THEN r ELSE current[t]
    IN
    /\ request[r].at = "unauthorized"
    /\ current' = [current EXCEPT ![t] = on]
    /\ IF on = r
       THEN refresh' = [refresh EXCEPT ![r] = [at |-> "sent", token |-> cookie, made |-> None]]
       ELSE UNCHANGED refresh
    /\ request' = [request EXCEPT ![r] =
         IF refresh[on].at = "over"
         THEN [@ EXCEPT !.at = "sent", !.token = store[t], !.on = None, !.again = TRUE]
         ELSE [@ EXCEPT !.at = "waiting", !.on = on]]
    /\ UNCHANGED <<sessions, tabs, lost>>

\* Mutant of RefreshArrives: sendLogin sets no cookie on a refresh.
RefreshArrivesWithoutCookie(r) ==
    /\ refresh[r].at = "answered"
    /\ refresh' = [refresh EXCEPT ![r].at = "arrived"]
    /\ UNCHANGED <<sessions, tabs, request, current, lost>>

\* The answer reaches the browser, which takes the cookie.
RefreshArrives(r) ==
    /\ refresh[r].at = "answered"
    /\ refresh' = [refresh EXCEPT ![r].at = "arrived"]
    /\ cookie' = IF refresh[r].made # None THEN refresh[r].made ELSE cookie
    /\ UNCHANGED <<sessions, storage, store, left, request, current, lost>>

\* Mutant of SettleRefresh: what was held back meanwhile is not let go.
SettleRefreshForgetting(r) ==
    LET t == request[r].tab
        s == refresh[r].made
        waiting == {q \in Request : request[q].at = "waiting" /\ request[q].on = r}
    IN
    /\ refresh[r].at = "arrived"
    /\ refresh' = [refresh EXCEPT ![r] = [Idle EXCEPT !.at = "over"]]
    /\ IF s # None THEN SetUser(t, s) ELSE UNCHANGED <<storage, store>>
    /\ request' = [q \in Request |->
         IF q \notin waiting THEN request[q]
         ELSE IF s = None THEN Over(request[q], "failed")
         ELSE [request[q] EXCEPT !.at = "sent", !.token = s, !.on = None, !.again = TRUE]]
    /\ current' = IF s = None THEN [current EXCEPT ![t] = None] ELSE current
    /\ UNCHANGED <<sessions, cookie, left, lost>>

\* The tab takes the session, and what waits is sent, or fails.
SettleRefresh(r) ==
    LET t == request[r].tab
        s == refresh[r].made
        waiting == {q \in Request : request[q].at \in {"waiting", "held"} /\ request[q].on = r}
    IN
    /\ refresh[r].at = "arrived"
    /\ refresh' = [refresh EXCEPT ![r] = [Idle EXCEPT !.at = "over"]]
    /\ IF s # None THEN SetUser(t, s) ELSE UNCHANGED <<storage, store>>
    /\ request' = [q \in Request |->
         IF q \notin waiting THEN request[q]
         ELSE IF s = None THEN Over(request[q], "failed")
         ELSE [request[q] EXCEPT !.at = "sent", !.token = s, !.on = None,
                                 !.again = request[q].at = "waiting"]]
    /\ current' = IF s = None THEN [current EXCEPT ![t] = None] ELSE current
    /\ UNCHANGED <<sessions, cookie, left, lost>>

-----------------------------------------------------------------------------
Next ==
    \/ \E t \in Tab : \/ \E s \in Session : Login(t, s)
                      \/ Logout(t) \/ Load(t) \/ \E r \in Request : Send(t, r)
    \/ \E r \in Request : \/ Serve(r) \/ RequestLost(r) \/ Intercept(r)
                          \/ AnswerRefresh(r) \/ RefreshLost(r)
                          \/ RefreshArrives(r) \/ SettleRefresh(r)
    \/ \E s \in Session : Expire(s)

Spec == Init /\ [][Next]_vars

\* Requests are answered or given up, and what arrives is handled.
Fairness ==
    \A r \in Request :
        /\ WF_vars(Serve(r) \/ RequestLost(r))
        /\ WF_vars(Intercept(r))
        /\ WF_vars(AnswerRefresh(r) \/ RefreshLost(r))
        /\ WF_vars(RefreshArrives(r)) /\ WF_vars(SettleRefresh(r))

FairSpec == Spec /\ Fairness

-----------------------------------------------------------------------------
(* Properties.                                                             *)

TypeOK ==
    /\ sessions \in [Session -> [known : BOOLEAN, access : BOOLEAN, refresh : BOOLEAN]]
    /\ {cookie, storage} \subseteq Session \cup {None}
    /\ store \in [Tab -> Session \cup {None}]
    /\ request \in [Request ->
         [tab : Tab \cup {None}, token : Session \cup {None}, on : Request \cup {None},
          again : BOOLEAN,
          at : {"new", "held", "sent", "unauthorized", "waiting", "done", "failed", "gone"}]]
    /\ \A r \in Request : request[r].at \in {"held", "waiting"} <=> request[r].on # None
    /\ refresh \in [Request ->
         [at : {"none", "sent", "answered", "arrived", "over"},
          token : Session \cup {None}, made : Session \cup {None}]]
    /\ current \in [Tab -> Request \cup {None}] /\ left \subseteq Tab /\ lost \in BOOLEAN

\* The session outlives its access tokens, however the refreshes and logins of
\* the tabs overlap: when no refresh is under way, and no answer to one was
\* lost, the browser holds a refresh token that is still good.
CookieIsGood ==
    (cookie # None /\ ~lost /\ \A r \in Request : ~InFlight(r)) => Live(cookie)

\* No request waits for ever on a refresh: neither for one that is refused, nor
\* for one that another request started and that was forgotten meanwhile.
RequestsSettle ==
    \A r \in Request :
        (request[r].at \in {"held", "sent", "unauthorized", "waiting"})
          ~> (request[r].at \in {"done", "failed", "gone"})

\* "Logged out successfully" (web-ui UserMenu.tsx): a tab that logged out is
\* logged out until somebody logs in.
LogoutLasts == \A t \in left : store[t] = None
=============================================================================
