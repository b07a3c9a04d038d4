------------------------------ MODULE Sessions ------------------------------
(***************************************************************************)
(* user-service: sessions and the refresh tokens that renew them           *)
(* (user-service/repo/session.go, app/session.go).  The tabs of a browser  *)
(* share the refresh cookie and renew the session on their own, so that    *)
(* one token may be sent several times at once.  A token names its         *)
(* session, and stands for the session here.                               *)
(***************************************************************************)
CONSTANTS User,
          Browser,
          Request,     \* logins and refreshes (bounded)
          SessionId,   \* ids of session documents (bounded)
          NoUser, NoBrowser, NoSession

ASSUME SessionsAssumption ==
  NoUser \notin User /\ NoBrowser \notin Browser /\ NoSession \notin SessionId

VARIABLES
  sessions,   \* the "session" collection
  cookie,     \* the "refresh" cookie of each browser
  requests,   \* the requests of the tabs of the browsers
  revoked     \* sessions that were invalidated while they could be refreshed

vars == <<sessions, cookie, requests, revoked>>

\* user NoUser stands for an id that is not in the collection.  expired says that
\* expires_at has passed: it ends the access token, not the refresh token.
SessionDoc == [user : User \cup {NoUser}, canRefresh : BOOLEAN, expired : BOOLEAN]

\* A request is "sent" with a token, "creating" once the token is spent (or the
\* password of a login was right), "answering" when it has inserted the new
\* session.  It ends as "done", "refused", or "lost": it failed after its
\* token was spent, or its answer did not arrive.
RequestState ==
  [phase   : {"new", "sent", "creating", "answering", "done", "refused", "lost"},
   browser : Browser \cup {NoBrowser},
   user    : User \cup {NoUser},
   token   : SessionId \cup {NoSession},
   created : SessionId \cup {NoSession}]

TypeOK ==
  /\ sessions \in [SessionId -> SessionDoc]
  /\ cookie \in [Browser -> SessionId \cup {NoSession}]
  /\ requests \in [Request -> RequestState]
  /\ revoked \in SUBSET SessionId

Init ==
  /\ sessions = [s \in SessionId |-> [user |-> NoUser, canRefresh |-> FALSE, expired |-> FALSE]]
  /\ cookie = [b \in Browser |-> NoSession]
  /\ requests = [r \in Request |-> [phase |-> "new", browser |-> NoBrowser, user |-> NoUser,
                                    token |-> NoSession, created |-> NoSession]]
  /\ revoked = {}

-----------------------------------------------------------------------------
(* The browser *)

\* LoginWithPassword has found the user and compared the password.
Login(r, b, u) ==
  /\ requests[r].phase = "new"
  /\ requests' = [requests EXCEPT ![r] = [phase |-> "creating", browser |-> b, user |-> u,
                                          token |-> NoSession, created |-> NoSession]]
  /\ UNCHANGED <<sessions, cookie, revoked>>

\* A tab's client answers a 401 by a refresh; the browser adds its cookie.
SendRefresh(r, b) ==
  /\ requests[r].phase = "new"
  /\ cookie[b] # NoSession
  /\ requests' = [requests EXCEPT ![r] = [phase |-> "sent", browser |-> b,
                                          user |-> sessions[cookie[b]].user,
                                          token |-> cookie[b], created |-> NoSession]]
  /\ UNCHANGED <<sessions, cookie, revoked>>

\* sendLogin: the answer sets the cookie, whatever it is by now.
ReceiveAnswer(r) ==
  /\ requests[r].phase = "answering"
  /\ cookie' = [cookie EXCEPT ![requests[r].browser] = requests[r].created]
  /\ requests' = [requests EXCEPT ![r].phase = "done"]
  /\ UNCHANGED <<sessions, revoked>>

-----------------------------------------------------------------------------
(* RefreshSession *)

\* Mutant of UseSessionRefresh: the filter has no can_refresh.
UseSessionRefreshAgain(r) ==
  /\ requests[r].phase = "sent"
  /\ sessions' = [sessions EXCEPT ![requests[r].token] =
                               [@ EXCEPT !.canRefresh = FALSE, !.expired = TRUE]]
  /\ requests' = [requests EXCEPT ![r].phase = "creating"]
  /\ UNCHANGED <<cookie, revoked>>

\* Mutant of UseSessionRefresh: all the user's sessions are spent, as
\* InvalidateSessions does, instead of the one with the id.
UseSessionRefreshAll(r) ==
  /\ requests[r].phase = "sent"
  /\ sessions[requests[r].token].canRefresh
  /\ sessions' = [s \in SessionId |->
                    IF sessions[s].user = requests[r].user
                    THEN [sessions[s] EXCEPT !.canRefresh = FALSE, !.expired = TRUE]
                    ELSE sessions[s]]
  /\ requests' = [requests EXCEPT ![r].phase = "creating"]
  /\ UNCHANGED <<cookie, revoked>>

\* One update tests and spends the token.  When it fails, it may have been applied.
UseSessionRefresh(r) ==
  /\ requests[r].phase = "sent"
  /\ sessions[requests[r].token].canRefresh
  /\ sessions' = [sessions EXCEPT ![requests[r].token] =
                               [@ EXCEPT !.canRefresh = FALSE, !.expired = TRUE]]
  /\ \E phase \in {"creating", "lost"} : requests' = [requests EXCEPT ![r].phase = phase]
  /\ UNCHANGED <<cookie, revoked>>

\* ErrInvalidRefresh leaves the cookie alone; nor has a request that fails early
\* spent its token.
RefreshRefused(r) ==
  /\ requests[r].phase = "sent"
  /\ requests' = [requests EXCEPT ![r].phase = "refused"]
  /\ UNCHANGED <<sessions, cookie, revoked>>

\* Mutant of CreateSession: the user found is not passed on.
CreateSessionNil(r, s) ==
  /\ requests[r].phase = "creating"
  /\ sessions[s].user = NoUser
  /\ sessions' = [sessions EXCEPT ![s] = [user |-> NoSession, canRefresh |-> TRUE,
                                          expired |-> FALSE]]
  /\ requests' = [requests EXCEPT ![r].phase = "answering", ![r].created = s]
  /\ UNCHANGED <<cookie, revoked>>

CreateSession(r, s) ==
  /\ requests[r].phase = "creating"
  /\ sessions[s].user = NoUser
  /\ sessions' = [sessions EXCEPT ![s] = [user |-> requests[r].user, canRefresh |-> TRUE,
                                          expired |-> FALSE]]
  /\ requests' = [requests EXCEPT ![r].phase = "answering", ![r].created = s]
  /\ UNCHANGED <<cookie, revoked>>

\* The user is not found, the database fails, the service stops, or the answer
\* is lost on its way.
RequestLost(r) ==
  /\ requests[r].phase \in {"creating", "answering"}
  /\ requests' = [requests EXCEPT ![r].phase = "lost"]
  /\ UNCHANGED <<sessions, cookie, revoked>>

-----------------------------------------------------------------------------
(* The end of a session *)

\* expires_at passes, TokenDuration after the session was created.
Expire(s) ==
  /\ sessions[s].user # NoUser
  /\ ~sessions[s].expired
  /\ sessions' = [sessions EXCEPT ![s].expired = TRUE]
  /\ UNCHANGED <<cookie, requests, revoked>>

\* Only sessions that are not expired match.
Invalidate(S) ==
  LET matched == {s \in S : ~sessions[s].expired} IN
  /\ sessions' = [s \in SessionId |->
                    IF s \in matched
                    THEN [sessions[s] EXCEPT !.canRefresh = FALSE, !.expired = TRUE]
                    ELSE sessions[s]]
  /\ revoked' = revoked \cup {s \in matched : sessions[s].canRefresh}
  /\ UNCHANGED <<cookie, requests>>

InvalidateSession(s) == sessions[s].user # NoUser /\ Invalidate({s})

InvalidateSessions(u) == Invalidate({s \in SessionId : sessions[s].user = u})

-----------------------------------------------------------------------------

Next ==
  \/ \E r \in Request :
       \/ \E b \in Browser : SendRefresh(r, b) \/ \E u \in User : Login(r, b, u)
       \/ UseSessionRefresh(r)
       \/ RefreshRefused(r)
       \/ \E s \in SessionId : CreateSession(r, s)
       \/ RequestLost(r)
       \/ ReceiveAnswer(r)
  \/ \E s \in SessionId : Expire(s) \/ InvalidateSession(s)
  \/ \E u \in User : InvalidateSessions(u)

Spec == Init /\ [][Next]_vars

-----------------------------------------------------------------------------
(* Properties *)

\* With a session the set holds the one that renewed it, if any.
FollowsRenewals(S) ==
  \A r \in Request : requests[r].token \in S /\ requests[r].created # NoSession
                      => requests[r].created \in S

\* The sessions a chain of refreshes has led to from session l, itself included: the
\* smallest set that holds l and follows renewals.
RenewedFrom(l) ==
  {s \in SessionId : \A S \in SUBSET SessionId : l \in S /\ FollowsRenewals(S) => s \in S}

\* A login lives in one session at a time: of the sessions renewed from it, through
\* however many refreshes, at most one can be refreshed, although the tabs send the
\* same token at once and requests fail half-way.
OneSessionPerLogin ==
  \A l \in SessionId : \A s, t \in RenewedFrom(l) :
    sessions[s].canRefresh /\ sessions[t].canRefresh => s = t

\* A browser is not logged out by its own refreshes: when the token in its cookie
\* can no longer be used and was not revoked, a request that spent it is being
\* handled, or is about to answer with a token that can be used unless it is
\* revoked, or was lost.
CookieIsRenewed ==
  \A b \in Browser :
    \/ cookie[b] = NoSession
    \/ sessions[cookie[b]].canRefresh
    \/ cookie[b] \in revoked
    \/ \E r \in Request :
         /\ requests[r].browser = b /\ requests[r].token = cookie[b]
         /\ \/ requests[r].phase \in {"creating", "lost"}
            \/ /\ requests[r].phase = "answering"
               /\ \/ sessions[requests[r].created].canRefresh
                  \/ requests[r].created \in revoked
=============================================================================
