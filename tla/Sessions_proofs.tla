--------------------------- MODULE Sessions_proofs ---------------------------
(***************************************************************************)
(* Proof that the refreshes of a browser never leave it with a token that  *)
(* cannot be used, whatever the interleaving of its tabs, unless a request *)
(* was lost or the session revoked; and that they never leave it with two. *)
(***************************************************************************)
EXTENDS Sessions, TLAPS

\* A request that was sent has a browser.  An id that a request has created is
\* that of a document, and of one request only.
CreatedSound ==
  \A r \in Request :
    /\ requests[r].phase # "new" => requests[r].browser \in Browser /\ requests[r].user \in User
    /\ requests[r].phase = "new" => requests[r].token = NoSession
    /\ requests[r].phase = "sent" => requests[r].token \in SessionId
    /\ requests[r].phase = "answering" => requests[r].created \in SessionId
    /\ requests[r].phase \in {"new", "sent", "creating"} => requests[r].created = NoSession
    /\ requests[r].created # NoSession => sessions[requests[r].created].user # NoUser
    /\ \A q \in Request : requests[r].created # NoSession /\ requests[q].created = requests[r].created
                            => q = r

\* The token of session s was received by browser b.
Received(s, b) ==
  \E q \in Request : requests[q].phase = "done" /\ requests[q].created = s /\ requests[q].browser = b

\* A browser has, and sends, only tokens that it has received.
TokensReceived ==
  /\ \A b \in Browser : cookie[b] # NoSession => Received(cookie[b], b)
  /\ \A r \in Request : requests[r].token # NoSession => Received(requests[r].token, requests[r].browser)

Usable(s) == sessions[s].canRefresh \/ s \in revoked

\* A token that is on its way to its browser was never sent by anybody.
AnswersUsable ==
  \A r \in Request : requests[r].phase = "answering" => Usable(requests[r].created)

\* The inductive invariant.
SessionsIInv == TypeOK /\ CreatedSound /\ TokensReceived /\ AnswersUsable /\ CookieIsRenewed

LEMMA InitSessions == Init => SessionsIInv
  BY SessionsAssumption
  DEF Init, SessionsIInv, TypeOK, CreatedSound, TokensReceived, Received, AnswersUsable,
      CookieIsRenewed, SessionDoc, RequestState

LEMMA StepSessions == SessionsIInv /\ [Next]_vars => SessionsIInv'
<1> SUFFICES ASSUME SessionsIInv, [Next]_vars PROVE SessionsIInv'
  OBVIOUS
<1> USE SessionsAssumption DEF SessionsIInv
<1>1. ASSUME NEW r \in Request, NEW b \in Browser, SendRefresh(r, b)
      PROVE  SessionsIInv'
  <2>0. /\ cookie[b] \in SessionId /\ Received(cookie[b], b)
        /\ sessions[cookie[b]].user \in User
    BY <1>1 DEF SendRefresh, TypeOK, TokensReceived, Received, CreatedSound, SessionDoc
  <2>1. TypeOK'
    BY <1>1, <2>0 DEF SendRefresh, TypeOK, RequestState
  <2>2. CreatedSound'
    BY <1>1, <2>0 DEF SendRefresh, TypeOK, CreatedSound, RequestState
  <2>3. \A s \in SessionId, c \in Browser : Received(s, c) => Received(s, c)'
    BY <1>1 DEF SendRefresh, TypeOK, Received, RequestState
  <2>4. TokensReceived'
    BY <1>1, <2>0, <2>3 DEF SendRefresh, TypeOK, TokensReceived, RequestState, CreatedSound
  <2>5. AnswersUsable'
    BY <1>1 DEF SendRefresh, TypeOK, AnswersUsable, Usable, RequestState
  <2>6. CookieIsRenewed'
    BY <1>1 DEF SendRefresh, TypeOK, CookieIsRenewed, RequestState
  <2>. QED BY <2>1, <2>2, <2>4, <2>5, <2>6
<1>2. ASSUME NEW r \in Request, NEW b \in Browser, NEW u \in User, Login(r, b, u)
      PROVE  SessionsIInv'
  <2>1. TypeOK'
    BY <1>2 DEF Login, TypeOK, RequestState
  <2>2. CreatedSound'
    BY <1>2 DEF Login, TypeOK, CreatedSound, RequestState
  <2>3. \A s \in SessionId, c \in Browser : Received(s, c) => Received(s, c)'
    BY <1>2 DEF Login, TypeOK, Received, RequestState
  <2>4. TokensReceived'
    BY <1>2, <2>3 DEF Login, TypeOK, TokensReceived, RequestState, CreatedSound
  <2>5. AnswersUsable'
    BY <1>2 DEF Login, TypeOK, AnswersUsable, Usable, RequestState
  <2>6. CookieIsRenewed'
    BY <1>2 DEF Login, TypeOK, CookieIsRenewed, RequestState, CreatedSound
  <2>. QED BY <2>1, <2>2, <2>4, <2>5, <2>6
<1>3. ASSUME NEW r \in Request, UseSessionRefresh(r)
      PROVE  SessionsIInv'
  <2> DEFINE t == requests[r].token
  <2>0. t \in SessionId /\ Received(t, requests[r].browser)
    BY <1>3 DEF UseSessionRefresh, TypeOK, CreatedSound, TokensReceived
  <2>1. TypeOK'
    <3>1. sessions' \in [SessionId -> SessionDoc]
      <4>1. [sessions[t] EXCEPT !.canRefresh = FALSE, !.expired = TRUE] \in SessionDoc
        BY <2>0 DEF TypeOK, SessionDoc
      <4>. QED BY <4>1, <1>3, <2>0 DEF UseSessionRefresh, TypeOK
    <3>2. requests' \in [Request -> RequestState]
      BY <1>3 DEF UseSessionRefresh, TypeOK, RequestState
    <3>. QED BY <1>3, <3>1, <3>2 DEF UseSessionRefresh, TypeOK
  <2>2. CreatedSound'
    BY <1>3, <2>0 DEF UseSessionRefresh, TypeOK, CreatedSound, RequestState, SessionDoc
  <2>3. \A s \in SessionId, c \in Browser : Received(s, c) => Received(s, c)'
    BY <1>3 DEF UseSessionRefresh, TypeOK, Received, RequestState
  <2>4. TokensReceived'
    BY <1>3, <2>3 DEF UseSessionRefresh, TypeOK, TokensReceived, RequestState, CreatedSound
  \* The token that is spent was received, so no answer still carries it.
  <2>5. AnswersUsable'
    BY <1>3, <2>0 DEF UseSessionRefresh, TypeOK, AnswersUsable, Usable, Received, CreatedSound,
       RequestState, SessionDoc
  \* Only the browser of r has it in its cookie.
  <2>6. \A b \in Browser : cookie[b] = t => b = requests[r].browser
    BY <2>0 DEF TokensReceived, Received, CreatedSound, TypeOK
  <2>7. CookieIsRenewed'
    <3>1. ASSUME NEW b \in Browser, cookie[b] = t
          PROVE  /\ requests'[r].browser = b /\ requests'[r].token = cookie'[b]
                 /\ requests'[r].phase \in {"creating", "lost"}
      BY <1>3, <2>6, <3>1 DEF UseSessionRefresh, TypeOK, RequestState
    <3>2. \A s \in SessionId : s # t => sessions'[s] = sessions[s]
      BY <1>3 DEF UseSessionRefresh, TypeOK
    <3>3. \A q \in Request : q # r => requests'[q] = requests[q]
      BY <1>3 DEF UseSessionRefresh, TypeOK
    <3>4. \A q \in Request : requests[q].phase = "answering" => requests[q].created # t
      BY <2>0 DEF Received, CreatedSound
    <3>5. requests[r].phase = "sent" /\ UNCHANGED <<cookie, revoked>>
      BY <1>3 DEF UseSessionRefresh
    <3>. QED BY <3>1, <3>2, <3>3, <3>4, <3>5 DEF CookieIsRenewed, TypeOK, CreatedSound
  <2>. QED BY <2>1, <2>2, <2>4, <2>5, <2>7
<1>4. ASSUME NEW r \in Request, RefreshRefused(r)
      PROVE  SessionsIInv'
  <2>1. TypeOK'
    BY <1>4 DEF RefreshRefused, TypeOK, RequestState
  <2>2. CreatedSound'
    BY <1>4 DEF RefreshRefused, TypeOK, CreatedSound, RequestState
  <2>3. \A s \in SessionId, c \in Browser : Received(s, c) => Received(s, c)'
    BY <1>4 DEF RefreshRefused, TypeOK, Received, RequestState
  <2>4. TokensReceived'
    BY <1>4, <2>3 DEF RefreshRefused, TypeOK, TokensReceived, RequestState, CreatedSound
  <2>5. AnswersUsable'
    BY <1>4 DEF RefreshRefused, TypeOK, AnswersUsable, Usable, RequestState
  <2>6. CookieIsRenewed'
    BY <1>4 DEF RefreshRefused, TypeOK, CookieIsRenewed, RequestState
  <2>. QED BY <2>1, <2>2, <2>4, <2>5, <2>6
<1>5. ASSUME NEW r \in Request, NEW s \in SessionId, CreateSession(r, s)
      PROVE  SessionsIInv'
  \* The id is new: no request created it, and so no browser has its token.
  <2>0. /\ \A q \in Request : requests[q].created # s
        /\ \A b \in Browser : cookie[b] # s
    BY <1>5 DEF CreateSession, CreatedSound, TokensReceived, Received, TypeOK
  <2>1. TypeOK'
    BY <1>5 DEF CreateSession, TypeOK, CreatedSound, RequestState, SessionDoc
  <2>2. CreatedSound'
    BY <1>5, <2>0 DEF CreateSession, TypeOK, CreatedSound, RequestState, SessionDoc
  <2>3. \A t \in SessionId, c \in Browser : Received(t, c) => Received(t, c)'
    BY <1>5 DEF CreateSession, TypeOK, Received, RequestState
  <2>4. TokensReceived'
    BY <1>5, <2>3 DEF CreateSession, TypeOK, TokensReceived, RequestState, CreatedSound
  <2>5. AnswersUsable'
    BY <1>5, <2>0 DEF CreateSession, TypeOK, AnswersUsable, Usable, RequestState, SessionDoc, CreatedSound
  <2>6. CookieIsRenewed'
    BY <1>5, <2>0 DEF CreateSession, TypeOK, CookieIsRenewed, RequestState, SessionDoc, CreatedSound
  <2>. QED BY <2>1, <2>2, <2>4, <2>5, <2>6
<1>6. ASSUME NEW r \in Request, RequestLost(r)
      PROVE  SessionsIInv'
  <2>1. TypeOK'
    BY <1>6 DEF RequestLost, TypeOK, RequestState
  <2>2. CreatedSound'
    BY <1>6 DEF RequestLost, TypeOK, CreatedSound, RequestState
  <2>3. \A s \in SessionId, c \in Browser : Received(s, c) => Received(s, c)'
    BY <1>6 DEF RequestLost, TypeOK, Received, RequestState
  <2>4. TokensReceived'
    BY <1>6, <2>3 DEF RequestLost, TypeOK, TokensReceived, RequestState, CreatedSound
  <2>5. AnswersUsable'
    BY <1>6 DEF RequestLost, TypeOK, AnswersUsable, Usable, RequestState
  <2>6. CookieIsRenewed'
    BY <1>6 DEF RequestLost, TypeOK, CookieIsRenewed, RequestState
  <2>. QED BY <2>1, <2>2, <2>4, <2>5, <2>6
<1>7. ASSUME NEW r \in Request, ReceiveAnswer(r)
      PROVE  SessionsIInv'
  <2>0. requests[r].created \in SessionId /\ requests[r].browser \in Browser
    BY <1>7 DEF ReceiveAnswer, CreatedSound
  <2>1. TypeOK'
    BY <1>7, <2>0 DEF ReceiveAnswer, TypeOK, RequestState
  <2>2. CreatedSound'
    BY <1>7 DEF ReceiveAnswer, TypeOK, CreatedSound, RequestState
  <2>3. /\ \A s \in SessionId, c \in Browser : Received(s, c) => Received(s, c)'
        /\ Received(requests[r].created, requests[r].browser)'
    BY <1>7 DEF ReceiveAnswer, TypeOK, Received, RequestState
  <2>4. TokensReceived'
    BY <1>7, <2>0, <2>3 DEF ReceiveAnswer, TypeOK, TokensReceived, RequestState, CreatedSound
  <2>5. AnswersUsable'
    BY <1>7 DEF ReceiveAnswer, TypeOK, AnswersUsable, Usable, RequestState
  <2>6. CookieIsRenewed'
    BY <1>7, <2>0 DEF ReceiveAnswer, TypeOK, CookieIsRenewed, RequestState, AnswersUsable, Usable
  <2>. QED BY <2>1, <2>2, <2>4, <2>5, <2>6
<1>8. ASSUME NEW s \in SessionId, Expire(s)
      PROVE  SessionsIInv'
  <2>1. TypeOK'
    BY <1>8 DEF Expire, TypeOK, SessionDoc
  <2>2. \A t \in SessionId : /\ sessions'[t].canRefresh = sessions[t].canRefresh
                            /\ sessions'[t].user = sessions[t].user
    BY <1>8 DEF Expire, TypeOK, SessionDoc
  <2>4. CreatedSound' /\ TokensReceived'
    BY <1>8, <2>2 DEF Expire, TypeOK, CreatedSound, TokensReceived, Received, RequestState
  <2>3. AnswersUsable' /\ CookieIsRenewed'
    BY <1>8, <2>2 DEF Expire, TypeOK, AnswersUsable, Usable, CookieIsRenewed, RequestState, CreatedSound
  <2>. QED BY <2>1, <2>3, <2>4
<1>9. ASSUME NEW S \in SUBSET SessionId, Invalidate(S)
      PROVE  SessionsIInv'
  <2>1. TypeOK'
    BY <1>9 DEF Invalidate, TypeOK, SessionDoc
  <2>2. \A t \in SessionId : sessions'[t].user = sessions[t].user
    BY <1>9 DEF Invalidate, TypeOK, SessionDoc
  <2>3. cookie' = cookie /\ requests' = requests
    BY <1>9 DEF Invalidate
  <2>4. CreatedSound'
    BY <2>2, <2>3 DEF TypeOK, CreatedSound, RequestState
  <2>5. TokensReceived'
    BY <2>3 DEF TokensReceived, Received
  \* What can no longer be refreshed is revoked.
  <2>6. \A t \in SessionId : sessions[t].canRefresh \/ t \in revoked
                             => sessions'[t].canRefresh \/ t \in revoked'
    BY <1>9 DEF Invalidate, TypeOK, SessionDoc
  <2>7. AnswersUsable'
    BY <2>3, <2>6 DEF AnswersUsable, Usable, CreatedSound
  <2>8. CookieIsRenewed'
    BY <2>3, <2>6 DEF CookieIsRenewed, CreatedSound, TypeOK
  <2>. QED BY <2>1, <2>4, <2>5, <2>7, <2>8
<1>10. CASE UNCHANGED vars
  BY <1>10 DEF vars, TypeOK, CreatedSound, TokensReceived, Received, AnswersUsable, Usable,
     CookieIsRenewed
<1>11. CASE Next
  BY <1>1, <1>2, <1>3, <1>4, <1>5, <1>6, <1>7, <1>8, <1>9, <1>11
  DEF Next, InvalidateSession, InvalidateSessions
<1>. QED BY <1>10, <1>11

LEMMA SessionsInvariant == Spec => []SessionsIInv
  BY InitSessions, StepSessions, PTL DEF Spec

\* The collection, the cookies and the requests keep their types.
THEOREM SessionsTypeCorrect == Spec => []TypeOK
  <1>1. SessionsIInv => TypeOK
    BY DEF SessionsIInv
  <1>. QED BY <1>1, SessionsInvariant, PTL

\* For any number of browsers, tabs and sessions: a cookie whose token was spent
\* is about to be renewed, unless the request that spent it was lost or the
\* session revoked.
THEOREM CookieRenewed == Spec => []CookieIsRenewed
  <1>1. SessionsIInv => CookieIsRenewed
    BY DEF SessionsIInv
  <1>. QED BY <1>1, SessionsInvariant, PTL

-----------------------------------------------------------------------------
(* One session per login *)

\* A request in this state has used its token up.
Spent(q) ==
  q.token # NoSession /\ q.phase \in {"creating", "answering", "done", "lost"}

\* A token that was spent is of no more use, and one request has spent it; only a
\* request that spent its token has created a session with it.
SpentOnce ==
  \A r \in Request :
    /\ Spent(requests[r]) => ~sessions[requests[r].token].canRefresh
    /\ \A q \in Request :
         Spent(requests[r]) /\ Spent(requests[q]) /\ requests[q].token = requests[r].token => q = r
    /\ requests[r].created # NoSession => requests[r].phase \in {"answering", "done", "lost"}

LEMMA StepSpentOnce == SessionsIInv /\ SpentOnce /\ [Next]_vars => SpentOnce'
<1> SUFFICES ASSUME SessionsIInv, SpentOnce, [Next]_vars PROVE SpentOnce'
  OBVIOUS
<1> USE SessionsAssumption DEF SessionsIInv
<1>1. ASSUME NEW r \in Request, NEW b \in Browser, SendRefresh(r, b)
      PROVE  SpentOnce'
  BY <1>1 DEF SendRefresh, TypeOK, SpentOnce, Spent, RequestState
<1>2. ASSUME NEW r \in Request, NEW b \in Browser, NEW u \in User, Login(r, b, u)
      PROVE  SpentOnce'
  BY <1>2 DEF Login, TypeOK, SpentOnce, Spent, RequestState
<1>3. ASSUME NEW r \in Request, UseSessionRefresh(r)
      PROVE  SpentOnce'
  <2> DEFINE t == requests[r].token
  <2>1. t \in SessionId /\ t # NoSession
    BY <1>3 DEF UseSessionRefresh, CreatedSound
  \* The token can be used, so nobody has spent it.
  <2>2. \A q \in Request : Spent(requests[q]) => requests[q].token # t
    BY <1>3 DEF UseSessionRefresh, SpentOnce
  <2>3. /\ \A q \in Request \ {r} : requests'[q] = requests[q]
        /\ requests'[r].token = t /\ requests'[r].created = requests[r].created
        /\ requests[r].created = NoSession
    BY <1>3 DEF UseSessionRefresh, TypeOK, RequestState, CreatedSound
  <2>4. /\ ~sessions'[t].canRefresh
        /\ \A s \in SessionId \ {t} : sessions'[s] = sessions[s]
    BY <1>3, <2>1 DEF UseSessionRefresh, TypeOK, SessionDoc
  <2>5. \A q \in Request : requests[q].token \in SessionId \cup {NoSession}
    BY DEF TypeOK, RequestState
  <2>. QED BY <2>1, <2>2, <2>3, <2>4, <2>5 DEF SpentOnce, Spent
<1>4. ASSUME NEW r \in Request, RefreshRefused(r)
      PROVE  SpentOnce'
  BY <1>4 DEF RefreshRefused, TypeOK, SpentOnce, Spent, RequestState, CreatedSound
<1>5. ASSUME NEW r \in Request, NEW s \in SessionId, CreateSession(r, s)
      PROVE  SpentOnce'
  \* The id is new: nobody has its token.
  <2>1. \A q \in Request : requests[q].token # s
    BY <1>5 DEF CreateSession, CreatedSound, TokensReceived, Received, TypeOK
  <2>2. \A t \in SessionId \ {s} : sessions'[t] = sessions[t]
    BY <1>5 DEF CreateSession, TypeOK
  <2>3. \A q \in Request : /\ requests'[q].token = requests[q].token
                           /\ Spent(requests'[q]) => Spent(requests[q])
    BY <1>5 DEF CreateSession, TypeOK, RequestState, Spent
  <2>4. \A q \in Request : requests'[q].created # NoSession
                           => requests'[q].phase \in {"answering", "done", "lost"}
    BY <1>5 DEF CreateSession, TypeOK, RequestState, SpentOnce
  <2>5. ASSUME NEW q \in Request, Spent(requests'[q])
        PROVE  ~sessions'[requests'[q].token].canRefresh
    <3>1. requests'[q].token \in SessionId \ {s}
      BY <2>1, <2>3, <2>5 DEF Spent, TypeOK, RequestState
    <3>. QED BY <3>1, <2>2, <2>3, <2>5 DEF SpentOnce
  <2>6. ASSUME NEW q \in Request, NEW p \in Request, Spent(requests'[q]), Spent(requests'[p]),
               requests'[p].token = requests'[q].token
        PROVE  p = q
    BY <2>3, <2>6 DEF SpentOnce
  <2>. QED BY <2>4, <2>5, <2>6 DEF SpentOnce
<1>6. ASSUME NEW r \in Request, RequestLost(r)
      PROVE  SpentOnce'
  BY <1>6 DEF RequestLost, TypeOK, SpentOnce, Spent, RequestState
<1>7. ASSUME NEW r \in Request, ReceiveAnswer(r)
      PROVE  SpentOnce'
  BY <1>7 DEF ReceiveAnswer, TypeOK, SpentOnce, Spent, RequestState
<1>8. ASSUME NEW s \in SessionId, Expire(s)
      PROVE  SpentOnce'
  <2>1. \A t \in SessionId : sessions'[t].canRefresh = sessions[t].canRefresh
    BY <1>8 DEF Expire, TypeOK, SessionDoc
  <2>. QED BY <1>8, <2>1 DEF Expire, TypeOK, SpentOnce, Spent, RequestState
<1>9. ASSUME NEW S \in SUBSET SessionId, Invalidate(S)
      PROVE  SpentOnce'
  <2>1. \A t \in SessionId : sessions'[t].canRefresh => sessions[t].canRefresh
    BY <1>9 DEF Invalidate, TypeOK, SessionDoc
  <2>2. requests' = requests
    BY <1>9 DEF Invalidate
  <2>. QED BY <2>1, <2>2 DEF TypeOK, SpentOnce, Spent, RequestState
<1>10. CASE UNCHANGED vars
  BY <1>10 DEF vars, SpentOnce, Spent
<1>11. CASE Next
  BY <1>1, <1>2, <1>3, <1>4, <1>5, <1>6, <1>7, <1>8, <1>9, <1>11
  DEF Next, InvalidateSession, InvalidateSessions
<1>. QED BY <1>10, <1>11

\* What a session was renewed by was not renewed before it.
NotRenewed(s) == \A r \in Request : requests[r].token = s => requests[r].created = NoSession

\* What RenewedFrom contains: the session itself, and with each session the next.
LEMMA RenewedFromFollows ==
  ASSUME TypeOK, NEW l \in SessionId
  PROVE  /\ RenewedFrom(l) \in SUBSET SessionId
         /\ l \in RenewedFrom(l)
         /\ FollowsRenewals(RenewedFrom(l))
         /\ \A S \in SUBSET SessionId : l \in S /\ FollowsRenewals(S) => RenewedFrom(l) \subseteq S
  BY DEF RenewedFrom, FollowsRenewals, TypeOK, RequestState

\* When nothing was renewed twice, the chain from a session has at most one end.
LEMMA ChainHasOneEnd ==
  ASSUME TypeOK, SpentOnce, NEW l \in SessionId,
         NEW s \in RenewedFrom(l), NotRenewed(s),
         NEW t \in RenewedFrom(l), NotRenewed(t)
  PROVE  s = t
<1>0. s \in SessionId /\ t \in SessionId
  BY DEF RenewedFrom
<1> DEFINE Before == {x \in SessionId : s \in RenewedFrom(x)}
<1>1. FollowsRenewals(Before)
  <2> SUFFICES ASSUME NEW r \in Request, requests[r].token \in Before,
                      requests[r].created # NoSession
               PROVE  requests[r].created \in Before
    BY DEF FollowsRenewals
  <2> DEFINE x == requests[r].token
             y == requests[r].created
  <2>1. x \in SessionId /\ y \in SessionId /\ s \in RenewedFrom(x) /\ s # x
    BY DEF TypeOK, RequestState, NotRenewed
  \* x was renewed by r alone, so the chain from x is x and the chain from y.
  <2>2. FollowsRenewals({x} \cup RenewedFrom(y))
    <3>1. \A q \in Request : requests[q].token = x /\ requests[q].created # NoSession => q = r
      BY <2>1, SessionsAssumption DEF SpentOnce, Spent
    <3>. QED BY <3>1, <2>1, RenewedFromFollows DEF FollowsRenewals
  <2>3. RenewedFrom(x) \subseteq {x} \cup RenewedFrom(y)
    <3>1. {x} \cup RenewedFrom(y) \in SUBSET SessionId
      BY <2>1, RenewedFromFollows
    <3>. QED BY <3>1, <2>1, <2>2, RenewedFromFollows
  <2>. QED BY <2>1, <2>3
<1>2. l \in Before
  OBVIOUS
<1>3. s \in RenewedFrom(t)
  <2>1. Before \in SUBSET SessionId
    OBVIOUS
  <2>2. RenewedFrom(l) \subseteq Before
    BY <1>1, <1>2, <2>1, RenewedFromFollows
  <2>. QED BY <2>2
<1>4. FollowsRenewals({t})
  BY DEF FollowsRenewals, NotRenewed
<1>5. {t} \in SUBSET SessionId
  BY <1>0
<1>. QED BY <1>0, <1>3, <1>4, <1>5, RenewedFromFollows

\* For any number of browsers, tabs, logins and refreshes: of all sessions a login was
\* renewed by, one at most can be refreshed.
THEOREM LoginHasOneSession == Spec => []OneSessionPerLogin
<1>1. Init => SpentOnce
  BY SessionsAssumption DEF Init, SpentOnce, Spent
<1>2. SessionsIInv /\ SpentOnce => OneSessionPerLogin
  <2> SUFFICES ASSUME SessionsIInv, SpentOnce, NEW l \in SessionId,
                      NEW s \in RenewedFrom(l), sessions[s].canRefresh,
                      NEW t \in RenewedFrom(l), sessions[t].canRefresh
               PROVE  s = t
    BY DEF OneSessionPerLogin
  \* A session that was renewed was spent.
  <2>1. \A x \in SessionId : sessions[x].canRefresh => NotRenewed(x)
    BY SessionsAssumption DEF SpentOnce, Spent, NotRenewed
  <2>2. NotRenewed(s) /\ NotRenewed(t)
    BY <2>1 DEF RenewedFrom
  <2>. QED BY <2>2, ChainHasOneEnd DEF SessionsIInv
<1>. QED BY <1>1, <1>2, SessionsInvariant, StepSpentOnce, PTL DEF Spec
=============================================================================
