-------------------------- MODULE Customers_proofs --------------------------
(***************************************************************************)
(* Proofs about the pages of customers, each with any number of tabs,      *)
(* calls, requests, attempts and sessions (MCCustomers names Two what the  *)
(* runs let have two elements).                                            *)
(*                                                                         *)
(* Only one page moves in a behaviour; a step of another one leaves the    *)
(* variables of this page unchanged, so that its invariant needs no        *)
(* assumption about which one moves.                                       *)
(***************************************************************************)
EXTENDS MCCustomers, SequenceTheorems, FiniteSetTheorems, WellFoundedInduction, TLAPS

\* "Nothing" is no session, and no tab or request.
NoneIsNone == None \notin Two \cup Session

-----------------------------------------------------------------------------
(* The session in the tabs of a browser (ClientSession.tla).               *)

\* A request that was sent has a tab.
RequestsHaveTabs == \A r \in Two : request[r].at # "new" => request[r].tab \in Two

\* A request starts a refresh when it is answered by 401 for the first time,
\* and never afterwards.
RefreshOnce ==
  \A r \in Two :
    /\ request[r].at \in {"held", "unauthorized"} => ~request[r].again
    /\ request[r].at \in {"new", "held", "sent", "unauthorized"} /\ ~request[r].again
         => refresh[r].at = "none"
    /\ refresh[r].at = "sent" => refresh[r].made = None

\* Tokens are of sessions that were opened.
TokensKnown ==
  /\ \A s \in Session : sessions[s].refresh => sessions[s].known
  /\ cookie # None => sessions[cookie].known
  /\ \A r \in Two :
       /\ refresh[r].token # None => sessions[refresh[r].token].known
       /\ refresh[r].made # None => sessions[refresh[r].made].known

\* The answer to refresh r carries a session to the browser.
Carries(r) == refresh[r].at = "answered" /\ refresh[r].made # None

\* The token of a session on its way to the browser is good, and nobody else
\* has it: the cookie is another one, no refresh was sent with it, and no other
\* answer carries it.
AnswersAreFresh ==
  \A r \in Two : Carries(r) =>
    /\ Client!Live(refresh[r].made)
    /\ cookie # refresh[r].made
    /\ \A q \in Two : refresh[q].at = "sent" => refresh[q].token # refresh[r].made
    /\ \A q \in Two : Carries(q) /\ refresh[q].made = refresh[r].made => q = r

\* The browser has a good token, or one is on its way.
GoodTokenIsNear ==
  (cookie # None /\ ~lost) => (Client!Live(cookie) \/ \E r \in Two : Carries(r))

\* The inductive invariant.
ClientIInv ==
  /\ Client!TypeOK
  /\ RequestsHaveTabs /\ RefreshOnce /\ TokensKnown /\ AnswersAreFresh /\ GoodTokenIsNear

LEMMA InitClient == NoneIsNone /\ Client!Init => ClientIInv
<1> SUFFICES ASSUME NoneIsNone, Client!Init PROVE ClientIInv
  OBVIOUS
<1> USE DEF Client!Init, Client!Unused, Client!New, Client!Idle
<1>1. Client!TypeOK
  BY DEF Client!TypeOK
<1>2. RequestsHaveTabs /\ RefreshOnce /\ TokensKnown /\ AnswersAreFresh /\ GoodTokenIsNear
  BY DEF RequestsHaveTabs, RefreshOnce, TokensKnown, AnswersAreFresh, GoodTokenIsNear, Carries
<1> QED
  BY <1>1, <1>2 DEF ClientIInv

\* The type of a request: one that is under way keeps its fields when its
\* progress changes.
RequestState ==
  [tab : Two \cup {None}, token : Session \cup {None}, on : Two \cup {None}, again : BOOLEAN,
   at : {"new", "held", "sent", "unauthorized", "waiting", "done", "failed", "gone"}]

SessionState == [known : BOOLEAN, access : BOOLEAN, refresh : BOOLEAN]

RefreshState ==
  [at : {"none", "sent", "answered", "arrived", "over"},
   token : Session \cup {None}, made : Session \cup {None}]

\* TypeOK, with its parts named.
ClientTyped ==
  /\ sessions \in [Session -> SessionState]
  /\ cookie \in Session \cup {None} /\ storage \in Session \cup {None}
  /\ store \in [Two -> Session \cup {None}]
  /\ request \in [Two -> RequestState]
  /\ \A r \in Two : request[r].at \in {"held", "waiting"} <=> request[r].on # None
  /\ refresh \in [Two -> RefreshState]
  /\ current \in [Two -> Two \cup {None}] /\ left \subseteq Two /\ lost \in BOOLEAN

LEMMA ClientTypes == Client!TypeOK <=> ClientTyped
  BY DEF Client!TypeOK, ClientTyped, RequestState, RefreshState, SessionState

\* The session whose refresh token was spent.
Spent(s) == [s EXCEPT !.refresh = FALSE]

LEMMA TokenIsSpent ==
  ASSUME NEW s \in SessionState
  PROVE  Spent(s) \in SessionState /\ Spent(s).known = s.known /\ ~Spent(s).refresh
  BY DEF Spent, SessionState

\* A request that ends, or is sent, stays a request of its tab.
LEMMA RequestEnds ==
  ASSUME NoneIsNone, NEW q \in RequestState, NEW at \in {"done", "failed", "gone", "unauthorized"}
  PROVE  /\ Client!Over(q, at) \in RequestState
         /\ Client!Over(q, at).at = at /\ Client!Over(q, at).on = None
         /\ Client!Over(q, at).tab = q.tab /\ Client!Over(q, at).again = q.again
  BY DEF Client!Over, RequestState

\* Sent once more with session s.
Resent(q, s) == [q EXCEPT !.at = "sent", !.token = s, !.on = None, !.again = TRUE]

\* Let go after a refresh that made session s.
Released(q, s) ==
  [q EXCEPT !.at = "sent", !.token = s, !.on = None, !.again = q.at = "waiting"]

LEMMA RequestIsSent ==
  ASSUME NoneIsNone, NEW q \in RequestState, NEW s \in Session \cup {None}
  PROVE  /\ Resent(q, s) \in RequestState /\ Released(q, s) \in RequestState
         /\ Resent(q, s).at = "sent" /\ Resent(q, s).on = None /\ Resent(q, s).tab = q.tab
         /\ Resent(q, s).again
         /\ Released(q, s).at = "sent" /\ Released(q, s).on = None /\ Released(q, s).tab = q.tab
         /\ Released(q, s).again <=> q.at = "waiting"
  BY DEF Resent, Released, RequestState

\* A step that takes no part in the refreshes.
LEMMA OtherClientStep ==
  ASSUME ClientIInv, Client!TypeOK', UNCHANGED <<sessions, cookie, refresh, lost>>,
         \A r \in Two : /\ request'[r].at # "new" => request'[r].tab \in Two
                        /\ request'[r].at \in {"held", "unauthorized"} => ~request'[r].again
                        /\ request'[r].at \in {"new", "held", "sent", "unauthorized"} /\ ~request'[r].again
                             => refresh[r].at = "none"
  PROVE  ClientIInv'
<1>1. RequestsHaveTabs' /\ RefreshOnce'
  BY DEF RequestsHaveTabs, RefreshOnce, ClientIInv
<1>2. TokensKnown' /\ AnswersAreFresh' /\ GoodTokenIsNear'
  BY DEF TokensKnown, AnswersAreFresh, GoodTokenIsNear, Carries, Client!Live, ClientIInv
<1> QED
  BY <1>1, <1>2 DEF ClientIInv

LEMMA LoginStep ==
  ASSUME NoneIsNone, ClientIInv, NEW t \in Two, NEW s \in Session, Client!Login(t, s)
  PROVE  ClientIInv'
<1> USE DEF ClientIInv
<1>0. ClientTyped /\ UNCHANGED <<request, refresh, current, lost>> /\ cookie' = s
      /\ ~sessions[s].known /\ sessions' = [sessions EXCEPT ![s] = Client!Opened]
  BY ClientTypes DEF Client!Login, Client!calls, Client!Free
<1>1. Client!TypeOK'
  <2>1. ClientTyped'
    BY <1>0 DEF ClientTyped, SessionState, Client!Login, Client!SetUser, Client!Opened
  <2> QED
    BY <2>1, ClientTypes, PTL
<1>2. RequestsHaveTabs' /\ RefreshOnce'
  BY <1>0 DEF RequestsHaveTabs, RefreshOnce
<1>3. TokensKnown'
  BY <1>0 DEF TokensKnown, ClientTyped, SessionState, RefreshState, Client!Opened
<1>4. AnswersAreFresh'
  BY <1>0 DEF AnswersAreFresh, TokensKnown, Carries, Client!Live, ClientTyped, RefreshState,
              Client!Opened
<1>5. GoodTokenIsNear'
  BY <1>0 DEF GoodTokenIsNear, Client!Live, ClientTyped, SessionState, Client!Opened, NoneIsNone
<1> QED
  BY <1>1, <1>2, <1>3, <1>4, <1>5

LEMMA LogoutStep ==
  ASSUME NoneIsNone, ClientIInv, NEW t \in Two, Client!Logout(t)
  PROVE  ClientIInv'
<1>0. ClientTyped /\ UNCHANGED <<sessions, cookie, request, refresh, current, lost>>
  BY ClientTypes DEF ClientIInv, Client!Logout, Client!calls
<1>1. ClientTyped'
  BY <1>0 DEF ClientTyped, Client!Logout, Client!SetUser
<1>2. Client!TypeOK'
  BY <1>1, ClientTypes, PTL
<1> QED
  BY <1>0, <1>2, OtherClientStep DEF ClientIInv, RequestsHaveTabs, RefreshOnce

LEMMA LoadStep ==
  ASSUME NoneIsNone, ClientIInv, NEW t \in Two, Client!Load(t)
  PROVE  ClientIInv'
<1> USE DEF ClientIInv
<1> DEFINE inTab == {r \in Two : request[r].tab = t}
<1>0. /\ ClientTyped /\ UNCHANGED <<sessions, cookie>>
      /\ lost' = (lost \/ \E r \in inTab : Client!InFlight(r))
      /\ request' = [r \in Two |-> IF r \in inTab THEN Client!Over(request[r], "gone") ELSE request[r]]
      /\ refresh' = [r \in Two |-> IF r \in inTab THEN Client!Idle ELSE refresh[r]]
  BY ClientTypes DEF Client!Load
<1>a. \A r \in Two : /\ request[r] \in RequestState /\ Client!Over(request[r], "gone") \in RequestState
                     /\ Client!Over(request[r], "gone").at = "gone"
                     /\ Client!Over(request[r], "gone").on = None
                     /\ Client!Over(request[r], "gone").tab = request[r].tab
                     /\ Client!Over(request[r], "gone").again = request[r].again
  BY <1>0, RequestEnds DEF ClientTyped
<1>1. Client!TypeOK'
  <2>1. ClientTyped'
    <3>1. request' \in [Two -> RequestState]
          /\ \A r \in Two : request'[r].at \in {"held", "waiting"} <=> request'[r].on # None
      BY <1>0, <1>a DEF ClientTyped
    <3>2. refresh' \in [Two -> RefreshState]
      BY <1>0 DEF ClientTyped, RefreshState, Client!Idle
    <3> QED
      BY <1>0, <3>1, <3>2 DEF ClientTyped, Client!Load
  <2> QED
    BY <2>1, ClientTypes, PTL
<1>2. RequestsHaveTabs' /\ RefreshOnce'
  BY <1>0, <1>a DEF RequestsHaveTabs, RefreshOnce, Client!Idle
<1>3. TokensKnown'
  BY <1>0 DEF TokensKnown, Client!Idle
<1>4. AnswersAreFresh'
  BY <1>0 DEF AnswersAreFresh, Carries, Client!Live, Client!Idle
<1>5. GoodTokenIsNear'
  BY <1>0 DEF GoodTokenIsNear, Carries, Client!Live, Client!InFlight, Client!Idle
<1> QED
  BY <1>1, <1>2, <1>3, <1>4, <1>5

LEMMA SendStep ==
  ASSUME NoneIsNone, ClientIInv, NEW t \in Two, NEW r \in Two, Client!Send(t, r)
  PROVE  ClientIInv'
<1>0. /\ ClientTyped /\ UNCHANGED <<sessions, cookie, storage, store, left, refresh, current, lost>>
      /\ request[r] = Client!New
  BY ClientTypes DEF ClientIInv, Client!Send, Client!tabs
<1> DEFINE held == [Client!New EXCEPT !.tab = t, !.at = "held", !.on = current[t]]
           sent == [Client!New EXCEPT !.tab = t, !.at = "sent", !.token = store[t]]
<1>1. PICK q \in RequestState :
         /\ request' = [request EXCEPT ![r] = q]
         /\ q.tab = t /\ ~q.again /\ q.at \in {"held", "sent"} /\ (q.at = "held" <=> q.on # None)
  <2>1. current[t] \in Two \cup {None} /\ store[t] \in Session \cup {None}
    BY <1>0 DEF ClientTyped
  <2>2. CASE current[t] # None /\ refresh[current[t]].at # "over"
    <3>1. /\ held \in RequestState /\ held.tab = t /\ ~held.again /\ held.at = "held"
          /\ held.on # None
      BY <2>1, <2>2 DEF Client!New, RequestState
    <3>2. request' = [request EXCEPT ![r] = held]
      BY <2>2 DEF Client!Send
    <3> QED
      BY <3>1, <3>2
  <2>3. CASE ~(current[t] # None /\ refresh[current[t]].at # "over")
    <3>1. /\ sent \in RequestState /\ sent.tab = t /\ ~sent.again /\ sent.at = "sent"
          /\ sent.on = None
      BY <2>1 DEF Client!New, RequestState
    <3>2. request' = [request EXCEPT ![r] = sent]
      BY <2>3 DEF Client!Send
    <3> QED
      BY <3>1, <3>2
  <2> QED
    BY <2>2, <2>3
<1> HIDE DEF held, sent
<1>2. refresh[r].at = "none"
  BY <1>0 DEF ClientIInv, RefreshOnce, Client!New
<1>3. ClientTyped'
  BY <1>0, <1>1 DEF ClientTyped
<1>4. Client!TypeOK'
  BY <1>3, ClientTypes, PTL
<1>5. \A p \in Two : request'[p] = IF p = r THEN q ELSE request[p]
  BY <1>0, <1>1 DEF ClientTyped
<1> QED
  BY <1>0, <1>1, <1>2, <1>4, <1>5, OtherClientStep DEF ClientIInv, RequestsHaveTabs, RefreshOnce

LEMMA ExpireStep ==
  ASSUME NoneIsNone, ClientIInv, NEW s \in Session, Client!Expire(s)
  PROVE  ClientIInv'
<1> USE DEF ClientIInv
<1>0. /\ ClientTyped /\ UNCHANGED <<cookie, storage, store, left, request, refresh, current, lost>>
      /\ sessions' = [sessions EXCEPT ![s].access = FALSE]
  BY ClientTypes DEF Client!Expire, Client!tabs, Client!calls
<1>1. \A x \in Session : sessions'[x].known = sessions[x].known /\ sessions'[x].refresh = sessions[x].refresh
  BY <1>0 DEF ClientTyped, SessionState
<1>2. ClientTyped'
  BY <1>0 DEF ClientTyped, SessionState
<1>3. Client!TypeOK'
  BY <1>2, ClientTypes, PTL
<1>4. RequestsHaveTabs' /\ RefreshOnce' /\ TokensKnown'
  BY <1>0, <1>1 DEF RequestsHaveTabs, RefreshOnce, TokensKnown, ClientTyped, RefreshState
<1>5. AnswersAreFresh' /\ GoodTokenIsNear'
  BY <1>0, <1>1 DEF AnswersAreFresh, GoodTokenIsNear, Carries, Client!Live, ClientTyped, RefreshState
<1> QED
  BY <1>3, <1>4, <1>5

LEMMA ServeStep ==
  ASSUME NoneIsNone, ClientIInv, NEW r \in Two, Client!Serve(r) \/ Client!RequestLost(r)
  PROVE  ClientIInv'
<1>0. /\ ClientTyped /\ UNCHANGED <<sessions, cookie, storage, store, left, refresh, lost>>
      /\ request[r].at = "sent" /\ request[r] \in RequestState
  BY ClientTypes DEF ClientIInv, Client!Serve, Client!RequestLost, Client!tabs, ClientTyped
<1>1. PICK at \in {"done", "failed", "unauthorized"} :
         /\ Client!Ended(r, at) /\ (at = "unauthorized" => ~request[r].again)
  BY DEF Client!Serve, Client!RequestLost
<1> DEFINE q == Client!Over(request[r], at)
<1>2. /\ q \in RequestState /\ q.at = at /\ q.on = None
      /\ q.tab = request[r].tab /\ q.again = request[r].again
  BY <1>0, RequestEnds
<1>3. request' = [request EXCEPT ![r] = q] /\ current' \in [Two -> Two \cup {None}]
  BY <1>0, <1>1 DEF Client!Ended, ClientTyped
<1> HIDE DEF q
<1>4. ClientTyped'
  BY <1>0, <1>2, <1>3 DEF ClientTyped
<1>5. Client!TypeOK'
  BY <1>4, ClientTypes, PTL
<1>6. \A p \in Two : request'[p] = IF p = r THEN q ELSE request[p]
  BY <1>0, <1>3 DEF ClientTyped
<1>7. \A p \in Two : /\ request'[p].at # "new" => request'[p].tab \in Two
                     /\ request'[p].at \in {"held", "unauthorized"} => ~request'[p].again
                     /\ request'[p].at \in {"new", "held", "sent", "unauthorized"} /\ ~request'[p].again
                          => refresh[p].at = "none"
  BY <1>0, <1>1, <1>2, <1>6 DEF ClientIInv, RequestsHaveTabs, RefreshOnce
<1> QED
  BY <1>0, <1>5, <1>7, OtherClientStep

LEMMA AnswerRefreshStep ==
  ASSUME NoneIsNone, ClientIInv, NEW r \in Two, Client!AnswerRefresh(r)
  PROVE  ClientIInv'
<1> USE DEF ClientIInv
<1> DEFINE old == refresh[r].token
<1>0. /\ ClientTyped /\ UNCHANGED <<cookie, storage, store, left, request, current, lost>>
      /\ refresh[r].at = "sent" /\ refresh[r] \in RefreshState /\ refresh[r].made = None
  BY ClientTypes DEF Client!AnswerRefresh, Client!tabs, ClientTyped, RefreshOnce
<1>1. CASE /\ Client!Live(old)
           /\ \E s \in Client!Free :
               /\ sessions' = [sessions EXCEPT ![old].refresh = FALSE, ![s] = Client!Opened]
               /\ refresh' = [refresh EXCEPT ![r].at = "answered", ![r].made = s]
  <2>1. PICK s \in Session :
          /\ ~sessions[s].known
          /\ sessions' = [sessions EXCEPT ![old].refresh = FALSE, ![s] = Client!Opened]
          /\ refresh' = [refresh EXCEPT ![r].at = "answered", ![r].made = s]
    BY <1>1 DEF Client!Free
  <2>2. /\ \A q \in Two : q # r => refresh'[q] = refresh[q]
        /\ refresh'[r].at = "answered" /\ refresh'[r].made = s /\ refresh'[r].token = old
        /\ refresh'[r] \in RefreshState
    BY <1>0, <2>1 DEF ClientTyped, RefreshState
  <2>3. /\ s # None /\ old \in Session /\ old # s /\ sessions'[s].known /\ sessions'[s].refresh
        /\ \A x \in Session : x # s => /\ sessions'[x].known = sessions[x].known
                                       /\ x = old => ~sessions'[x].refresh
                                       /\ x # old => sessions'[x].refresh = sessions[x].refresh
    <3>1. old \in Session /\ sessions[old] \in SessionState /\ sessions[old].refresh /\ s # None
      BY <1>0, <1>1 DEF ClientTyped, NoneIsNone, Client!Live, RefreshState
    <3>2. old # s
      BY <2>1, <3>1 DEF TokensKnown
    <3>3. Spent(sessions[old]).known = sessions[old].known /\ ~Spent(sessions[old]).refresh
      BY <3>1, TokenIsSpent
    <3>4. sessions' = [sessions EXCEPT ![old] = Spent(sessions[old]), ![s] = Client!Opened]
      BY <2>1 DEF Spent
    <3>5. Client!Opened.known /\ Client!Opened.refresh
      BY DEF Client!Opened
    <3> QED
      BY <1>0, <3>1, <3>2, <3>3, <3>4, <3>5 DEF ClientTyped
  <2>4. ClientTyped'
    <3>1. sessions' \in [Session -> SessionState]
      <4>1. Client!Opened \in SessionState /\ Spent(sessions[old]) \in SessionState
        BY <1>0, <2>3, TokenIsSpent DEF ClientTyped, SessionState, Client!Opened
      <4>2. sessions' = [sessions EXCEPT ![old] = Spent(sessions[old]), ![s] = Client!Opened]
        BY <2>1 DEF Spent
      <4> QED
        BY <1>0, <4>1, <4>2 DEF ClientTyped
    <3>2. refresh' \in [Two -> RefreshState]
      BY <1>0, <2>1, <2>2 DEF ClientTyped
    <3> QED
      BY <1>0, <3>1, <3>2 DEF ClientTyped
  <2>5. Client!TypeOK'
    BY <2>4, ClientTypes, PTL
  <2>6. RequestsHaveTabs' /\ RefreshOnce'
    BY <1>0, <2>2 DEF RequestsHaveTabs, RefreshOnce
  <2>7. TokensKnown'
    <3>1. \A x \in Session : sessions[x].known => sessions'[x].known
      BY <2>3
    <3>2. \A x \in Session : sessions'[x].refresh => sessions'[x].known
      BY <2>3 DEF TokensKnown
    <3>3. \A q \in Two : refresh[q].token \in Session \cup {None} /\ refresh[q].made \in Session \cup {None}
      BY <1>0 DEF ClientTyped, RefreshState
    <3>4. cookie \in Session \cup {None} /\ cookie' = cookie
      BY <1>0 DEF ClientTyped
    <3> QED
      BY <2>2, <2>3, <3>1, <3>2, <3>3, <3>4 DEF TokensKnown
  <2>8. AnswersAreFresh'
    <3>0. ASSUME NEW q \in Two, q # r, Carries(q)'
          PROVE  Carries(q) /\ refresh'[q] = refresh[q] /\ refresh[q].made # s /\ refresh[q].made \in Session
      BY <1>0, <2>1, <2>2, <3>0 DEF Carries, TokensKnown, ClientTyped, RefreshState
    <3>1. ASSUME NEW q \in Two, Carries(q)'
          PROVE  /\ refresh'[q].made # None /\ sessions'[refresh'[q].made].refresh
                 /\ cookie' # refresh'[q].made
      <4>1. CASE q = r
        <5>1. refresh'[q].made = s /\ s # None /\ sessions'[s].refresh
          BY <2>2, <2>3, <4>1
        <5>2. cookie' # s
          BY <1>0, <2>1, <5>1 DEF TokensKnown
        <5> QED
          BY <5>1, <5>2
      <4>2. CASE q # r
        <5>1. Carries(q) /\ refresh'[q] = refresh[q] /\ refresh[q].made # s /\ refresh[q].made \in Session
          BY <3>0, <3>1, <4>2
        <5>2. /\ refresh[q].made # None /\ sessions[refresh[q].made].refresh
              /\ cookie # refresh[q].made /\ refresh[q].made # old
          BY <1>0, <5>1 DEF AnswersAreFresh, Client!Live
        <5>3. sessions'[refresh[q].made].refresh
          BY <2>3, <5>1, <5>2
        <5> QED
          BY <1>0, <5>1, <5>2, <5>3
      <4> QED
        BY <4>1, <4>2
    <3>2. ASSUME NEW q \in Two, Carries(q)', NEW p \in Two, refresh'[p].at = "sent"
          PROVE  refresh'[p].token # refresh'[q].made
      <4>1. CASE q = r
        <5>1. refresh'[q].made = s /\ s # None /\ ~sessions[s].known
          BY <2>1, <2>2, <2>3, <4>1
        <5>2. p # r /\ refresh'[p] = refresh[p]
          BY <2>2, <3>2
        <5> QED
          BY <5>1, <5>2 DEF TokensKnown
      <4>2. CASE q # r
        BY <1>0, <2>2, <3>0, <3>2, <4>2 DEF AnswersAreFresh
      <4> QED
        BY <4>1, <4>2
    <3>3. ASSUME NEW q \in Two, Carries(q)', NEW p \in Two, Carries(p)', refresh'[p].made = refresh'[q].made
          PROVE  p = q
      BY <2>2, <3>0, <3>3 DEF AnswersAreFresh
    <3> QED
      BY <3>1, <3>2, <3>3 DEF AnswersAreFresh, Client!Live
  <2>9. GoodTokenIsNear'
    BY <2>2, <2>3 DEF GoodTokenIsNear, Carries
  <2> QED
    BY <2>5, <2>6, <2>7, <2>8, <2>9
<1>2. CASE ~Client!Live(old) /\ UNCHANGED sessions /\ refresh' = [refresh EXCEPT ![r].at = "answered"]
  <2>2. /\ \A q \in Two : q # r => refresh'[q] = refresh[q]
        /\ refresh'[r].at = "answered" /\ refresh'[r].made = None /\ refresh'[r].token = old
        /\ refresh'[r] \in RefreshState
    BY <1>0, <1>2 DEF ClientTyped, RefreshState
  <2>3. ClientTyped'
    BY <1>0, <1>2, <2>2 DEF ClientTyped
  <2>4. Client!TypeOK'
    BY <2>3, ClientTypes, PTL
  <2>5. RequestsHaveTabs' /\ RefreshOnce' /\ TokensKnown'
    BY <1>0, <1>2, <2>2 DEF RequestsHaveTabs, RefreshOnce, TokensKnown
  <2>6. AnswersAreFresh' /\ GoodTokenIsNear'
    BY <1>0, <1>2, <2>2 DEF AnswersAreFresh, GoodTokenIsNear, Carries, Client!Live
  <2> QED
    BY <2>4, <2>5, <2>6
<1> QED
  BY <1>1, <1>2 DEF Client!AnswerRefresh

LEMMA RefreshLostStep ==
  ASSUME NoneIsNone, ClientIInv, NEW r \in Two, Client!RefreshLost(r)
  PROVE  ClientIInv'
<1> USE DEF ClientIInv
<1> DEFINE old == refresh[r].token
<1>0. /\ ClientTyped /\ UNCHANGED <<cookie, storage, store, left, request, current>> /\ lost' = TRUE
      /\ refresh[r].at = "sent" /\ refresh[r] \in RefreshState /\ refresh[r].made = None
      /\ refresh' = [refresh EXCEPT ![r].at = "answered"]
  BY ClientTypes DEF Client!RefreshLost, Client!tabs, ClientTyped, RefreshOnce
<1>1. /\ \A q \in Two : q # r => refresh'[q] = refresh[q]
      /\ refresh'[r].at = "answered" /\ refresh'[r].made = None /\ refresh'[r].token = old
      /\ refresh'[r] \in RefreshState
  BY <1>0 DEF ClientTyped, RefreshState
<1>2. /\ sessions' \in [Session -> SessionState]
      /\ \A x \in Session : /\ sessions'[x].known = sessions[x].known
                            /\ sessions'[x].refresh => sessions[x].refresh
                            /\ x # old => sessions'[x].refresh = sessions[x].refresh
  <2>1. CASE UNCHANGED sessions
    BY <1>0, <2>1 DEF ClientTyped
  <2>2. CASE Client!Live(old) /\ sessions' = [sessions EXCEPT ![old].refresh = FALSE]
    <3>1. old \in Session /\ sessions[old].refresh
      BY <1>0, <2>2 DEF Client!Live, RefreshState
    <3>2. /\ Spent(sessions[old]) \in SessionState /\ Spent(sessions[old]).known = sessions[old].known
          /\ ~Spent(sessions[old]).refresh
      BY <1>0, <3>1, TokenIsSpent DEF ClientTyped
    <3>3. sessions' = [sessions EXCEPT ![old] = Spent(sessions[old])]
      BY <2>2 DEF Spent
    <3> QED
      BY <1>0, <3>1, <3>2, <3>3 DEF ClientTyped
  <2> QED
    BY <2>1, <2>2 DEF Client!RefreshLost
<1>3. ClientTyped'
  BY <1>0, <1>1, <1>2 DEF ClientTyped
<1>4. Client!TypeOK'
  BY <1>3, ClientTypes, PTL
<1>5. RequestsHaveTabs' /\ RefreshOnce'
  BY <1>0, <1>1 DEF RequestsHaveTabs, RefreshOnce
<1>6. TokensKnown'
  BY <1>0, <1>1, <1>2 DEF TokensKnown, ClientTyped, RefreshState
<1>7. AnswersAreFresh' /\ GoodTokenIsNear'
  BY <1>0, <1>1, <1>2 DEF AnswersAreFresh, GoodTokenIsNear, Carries, Client!Live, ClientTyped, RefreshState
<1> QED
  BY <1>4, <1>5, <1>6, <1>7

LEMMA InterceptStep ==
  ASSUME NoneIsNone, ClientIInv, NEW r \in Two, Client!Intercept(r)
  PROVE  ClientIInv'
<1> USE DEF ClientIInv
<1> DEFINE t == request[r].tab
           on == IF current[t] = None THEN r ELSE current[t]
<1>0. /\ ClientTyped /\ UNCHANGED <<sessions, cookie, storage, store, left, lost>>
      /\ request[r].at = "unauthorized" /\ request[r] \in RequestState /\ ~request[r].again
      /\ refresh[r].at = "none" /\ current' = [current EXCEPT ![t] = on]
  BY ClientTypes DEF Client!Intercept, Client!tabs, ClientTyped, RefreshOnce
<1>1. t \in Two /\ on \in Two /\ on # None /\ store[t] \in Session \cup {None}
  BY <1>0 DEF RequestsHaveTabs, ClientTyped, NoneIsNone
<1>2. /\ refresh' \in [Two -> RefreshState]
      /\ \A q \in Two : q # r => refresh'[q] = refresh[q]
      /\ \/ refresh'[r] = refresh[r] /\ on # r
         \/ /\ refresh'[r].at = "sent" /\ refresh'[r].token = cookie /\ refresh'[r].made = None
            /\ on = r
  <2>1. CASE on = r
    <3>1. refresh' = [refresh EXCEPT ![r] = [at |-> "sent", token |-> cookie, made |-> None]]
      BY <2>1 DEF Client!Intercept
    <3> QED
      BY <1>0, <2>1, <3>1 DEF ClientTyped, RefreshState
  <2>2. CASE on # r
    <3>1. UNCHANGED refresh
      BY <2>2 DEF Client!Intercept
    <3> QED
      BY <1>0, <2>2, <3>1 DEF ClientTyped
  <2> QED
    BY <2>1, <2>2
<1> DEFINE waits == [request[r] EXCEPT !.at = "waiting", !.on = on]
<1>3. PICK q \in RequestState :
        /\ request' = [request EXCEPT ![r] = q] /\ q.tab = t
        /\ \/ q.at = "waiting" /\ q.on # None
           \/ q.at = "sent" /\ q.on = None /\ q.again
  <2>1. CASE refresh[on].at = "over"
    <3>1. request' = [request EXCEPT ![r] = Resent(request[r], store[t])]
      BY <2>1, <1>0 DEF Client!Intercept, Resent, ClientTyped
    <3> QED
      BY <3>1, <1>0, <1>1, RequestIsSent
  <2>2. CASE refresh[on].at # "over"
    <3>1. request' = [request EXCEPT ![r] = waits]
      BY <2>2, <1>0 DEF Client!Intercept, ClientTyped
    <3>2. waits \in RequestState /\ waits.tab = t /\ waits.at = "waiting" /\ waits.on # None
      BY <1>0, <1>1 DEF RequestState
    <3> QED
      BY <3>1, <3>2
  <2> QED
    BY <2>1, <2>2
<1> HIDE DEF t, on, waits
<1>4. \A p \in Two : request'[p] = IF p = r THEN q ELSE request[p]
  BY <1>0, <1>3 DEF ClientTyped
<1>5. ClientTyped'
  BY <1>0, <1>1, <1>2, <1>3, <1>4 DEF ClientTyped
<1>6. Client!TypeOK'
  BY <1>5, ClientTypes, PTL
<1>7. RequestsHaveTabs' /\ RefreshOnce'
  BY <1>0, <1>1, <1>2, <1>3, <1>4 DEF RequestsHaveTabs, RefreshOnce
<1>8. TokensKnown'
  BY <1>0, <1>2 DEF TokensKnown
<1>9. AnswersAreFresh' /\ GoodTokenIsNear'
  BY <1>0, <1>2 DEF AnswersAreFresh, GoodTokenIsNear, Carries, Client!Live
<1> QED
  BY <1>6, <1>7, <1>8, <1>9

LEMMA RefreshArrivesStep ==
  ASSUME NoneIsNone, ClientIInv, NEW r \in Two, Client!RefreshArrives(r)
  PROVE  ClientIInv'
<1> USE DEF ClientIInv
<1>0. /\ ClientTyped /\ UNCHANGED <<sessions, storage, store, left, request, current, lost>>
      /\ refresh[r].at = "answered" /\ refresh[r] \in RefreshState
      /\ refresh' = [refresh EXCEPT ![r].at = "arrived"]
      /\ cookie' = IF refresh[r].made # None THEN refresh[r].made ELSE cookie
  BY ClientTypes DEF Client!RefreshArrives, ClientTyped
<1>1. /\ \A q \in Two : q # r => refresh'[q] = refresh[q]
      /\ refresh'[r].at = "arrived" /\ refresh'[r].made = refresh[r].made
      /\ refresh'[r].token = refresh[r].token /\ refresh'[r] \in RefreshState
  BY <1>0 DEF ClientTyped, RefreshState
<1>2. ClientTyped'
  <2>1. cookie' \in Session \cup {None} /\ refresh' \in [Two -> RefreshState]
    BY <1>0, <1>1 DEF ClientTyped, RefreshState
  <2> QED
    BY <1>0, <2>1 DEF ClientTyped
<1>3. Client!TypeOK'
  BY <1>2, ClientTypes, PTL
<1>4. RequestsHaveTabs' /\ RefreshOnce' /\ TokensKnown'
  BY <1>0, <1>1 DEF RequestsHaveTabs, RefreshOnce, TokensKnown
<1>5. AnswersAreFresh'
  BY <1>0, <1>1 DEF AnswersAreFresh, Carries, Client!Live
<1>6. GoodTokenIsNear'
  BY <1>0, <1>1 DEF GoodTokenIsNear, AnswersAreFresh, Carries, Client!Live
<1> QED
  BY <1>3, <1>4, <1>5, <1>6

LEMMA SettleRefreshStep ==
  ASSUME NoneIsNone, ClientIInv, NEW r \in Two, Client!SettleRefresh(r)
  PROVE  ClientIInv'
<1> USE DEF ClientIInv
<1> DEFINE t == request[r].tab
           s == refresh[r].made
           waiting == {q \in Two : request[q].at \in {"waiting", "held"} /\ request[q].on = r}
<1>0. /\ ClientTyped /\ UNCHANGED <<sessions, cookie, left, lost>>
      /\ refresh[r].at = "arrived" /\ s \in Session \cup {None}
      /\ refresh' = [refresh EXCEPT ![r] = [Client!Idle EXCEPT !.at = "over"]]
  BY ClientTypes DEF Client!SettleRefresh, ClientTyped, RefreshState
<1>1. /\ refresh' \in [Two -> RefreshState] /\ refresh'[r].at = "over"
      /\ refresh'[r].made = None /\ refresh'[r].token = None
      /\ \A q \in Two : q # r => refresh'[q] = refresh[q]
  BY <1>0 DEF ClientTyped, RefreshState, Client!Idle
<1>2. /\ storage' \in Session \cup {None} /\ store' \in [Two -> Session \cup {None}]
      /\ current' \in [Two -> Two \cup {None}]
  BY <1>0 DEF Client!SettleRefresh, Client!SetUser, ClientTyped
<1>3. /\ request' = [q \in Two |-> request'[q]]
      /\ \A q \in Two :
           \/ request'[q] = request[q]
           \/ /\ request'[q] \in RequestState /\ request'[q].on = None
              /\ request'[q].tab = request[q].tab
              /\ request[q].at \in {"waiting", "held"}
              /\ \/ request'[q].at = "failed"
                 \/ request'[q].at = "sent" /\ (request'[q].again <=> request[q].at = "waiting")
  <2>1. request' = [q \in Two |->
         IF q \notin waiting THEN request[q]
         ELSE IF s = None THEN Client!Over(request[q], "failed")
         ELSE Released(request[q], s)]
    BY DEF Client!SettleRefresh, Released
  <2>2. ASSUME NEW q \in Two
        PROVE  \/ request'[q] = request[q]
               \/ /\ request'[q] \in RequestState /\ request'[q].on = None
                  /\ request'[q].tab = request[q].tab
                  /\ request[q].at \in {"waiting", "held"}
                  /\ \/ request'[q].at = "failed"
                     \/ request'[q].at = "sent" /\ (request'[q].again <=> request[q].at = "waiting")
    <3>1. request[q] \in RequestState
      BY <1>0 DEF ClientTyped
    <3>2. CASE q \notin waiting
      BY <2>1, <3>2
    <3>3. CASE q \in waiting /\ s = None
      BY <2>1, <3>1, <3>3, RequestEnds
    <3>4. CASE q \in waiting /\ s # None
      <4>1. request'[q] = Released(request[q], s)
        BY <2>1, <3>4
      <4> QED
        BY <1>0, <3>1, <3>4, <4>1, RequestIsSent
    <3> QED
      BY <3>2, <3>3, <3>4
  <2> QED
    BY <2>1, <2>2
<1> HIDE DEF t, s, waiting
<1>4. ClientTyped'
  <2>1. request' \in [Two -> RequestState]
        /\ \A q \in Two : request'[q].at \in {"held", "waiting"} <=> request'[q].on # None
    BY <1>0, <1>3 DEF ClientTyped
  <2> QED
    BY <1>0, <1>1, <1>2, <2>1 DEF ClientTyped
<1>5. Client!TypeOK'
  BY <1>4, ClientTypes, PTL
<1>6. RequestsHaveTabs' /\ RefreshOnce'
  BY <1>0, <1>1, <1>3 DEF RequestsHaveTabs, RefreshOnce
<1>7. TokensKnown'
  BY <1>0, <1>1 DEF TokensKnown
<1>8. AnswersAreFresh' /\ GoodTokenIsNear'
  BY <1>0, <1>1 DEF AnswersAreFresh, GoodTokenIsNear, Carries, Client!Live
<1> QED
  BY <1>5, <1>6, <1>7, <1>8

LEMMA StepClient == NoneIsNone /\ ClientIInv /\ [Client!Next]_clientVars => ClientIInv'
<1> SUFFICES ASSUME NoneIsNone, ClientIInv, [Client!Next]_clientVars PROVE ClientIInv'
  OBVIOUS
<1>1. CASE Client!Next
  <2>1. ASSUME NEW t \in Two, NEW s \in Session, Client!Login(t, s) PROVE ClientIInv'
    BY <2>1, LoginStep
  <2>2. ASSUME NEW t \in Two, Client!Logout(t) PROVE ClientIInv'
    BY <2>2, LogoutStep
  <2>3. ASSUME NEW t \in Two, Client!Load(t) PROVE ClientIInv'
    BY <2>3, LoadStep
  <2>4. ASSUME NEW t \in Two, NEW r \in Two, Client!Send(t, r) PROVE ClientIInv'
    BY <2>4, SendStep
  <2>5. ASSUME NEW r \in Two, Client!Serve(r) \/ Client!RequestLost(r) PROVE ClientIInv'
    BY <2>5, ServeStep
  <2>6. ASSUME NEW r \in Two, Client!Intercept(r) PROVE ClientIInv'
    BY <2>6, InterceptStep
  <2>7. ASSUME NEW r \in Two, Client!AnswerRefresh(r) PROVE ClientIInv'
    BY <2>7, AnswerRefreshStep
  <2>8. ASSUME NEW r \in Two, Client!RefreshLost(r) PROVE ClientIInv'
    BY <2>8, RefreshLostStep
  <2>9. ASSUME NEW r \in Two, Client!RefreshArrives(r) PROVE ClientIInv'
    BY <2>9, RefreshArrivesStep
  <2>10. ASSUME NEW r \in Two, Client!SettleRefresh(r) PROVE ClientIInv'
    BY <2>10, SettleRefreshStep
  <2>11. ASSUME NEW s \in Session, Client!Expire(s) PROVE ClientIInv'
    BY <2>11, ExpireStep
  <2> QED
    BY <1>1, <2>1, <2>2, <2>3, <2>4, <2>5, <2>6, <2>7, <2>8, <2>9, <2>10, <2>11 DEF Client!Next
<1>2. CASE UNCHANGED clientVars
  <2>1. UNCHANGED <<sessions, cookie, storage, store, request, refresh, current, left, lost>>
    BY <1>2 DEF clientVars
  <2>2. Client!TypeOK'
    BY <2>1 DEF ClientIInv, Client!TypeOK
  <2> QED
    BY <2>1, <2>2, OtherClientStep DEF ClientIInv, RequestsHaveTabs, RefreshOnce
<1> QED
  BY <1>1, <1>2

\* However the refreshes and logins of any number of tabs overlap, a browser that
\* has a cookie, no refresh under way, and lost no answer to one, has a refresh
\* token that is good (api/client.ts; RefreshSession and sendLogin of user-service).
THEOREM CookieStaysGood == Spec => []CookieIsGood
<1> USE NothingAssumption DEF NoneIsNone
<1>1. Init => ClientIInv
  BY InitClient DEF Init
<1>2. ClientIInv /\ [Next]_vars => ClientIInv'
  <2>1. Next => [Client!Next]_clientVars
    BY DEF Next
  <2>2. [Next]_vars => [Client!Next]_clientVars
    BY <2>1 DEF vars
  <2> QED
    BY <2>2, StepClient
<1>3. ClientIInv => CookieIsGood
  BY DEF ClientIInv, GoodTokenIsNear, Carries, CookieIsGood, Client!CookieIsGood, Client!InFlight
<1> QED
  BY <1>1, <1>2, <1>3, PTL DEF Spec

-----------------------------------------------------------------------------
(* Signing in with Google (SignIn.tla).                                    *)

\* A call is one of an attempt, or of none.  message and popup name attempts too.
CallState ==
  [op : {None, "register", "login", "start", "complete"},
   at : {"idle", "sent", "answered"}, attempt : Two \cup {None},
   ok : BOOLEAN, here : BOOLEAN, email : {"mail", None}, password : {"word", None},
   user : {"old", "new", None}]

PopupTyped ==
  /\ popup \in [attempt : Two \cup {None}, at : {"closed", "google", "error"}]
  /\ message \in [attempt : Two \cup {None}, todo : SUBSET (Two \cup {None})]
  /\ listening \subseteq Two \cup {None}

AttemptsTyped ==
  /\ call \in [Two -> CallState] /\ PopupTyped
  /\ verifiers \subseteq Two /\ exchanged \in [Two -> Nat]

\* Call c asks for the URL of attempt a.
Starts(c, a) == call[c].op = "start" /\ call[c].at = "sent" /\ call[c].attempt = a

\* Nothing was exchanged for an attempt whose URL is asked for, or whose state the
\* server waits for; and its URL is asked for once.
AttemptsFresh ==
  /\ \A c \in Two : call[c].op = "start" /\ call[c].at = "sent" => call[c].attempt \in Two
  /\ \A c, a \in Two : Starts(c, a) =>
       /\ a \notin verifiers /\ exchanged[a] = 0
       /\ \A d \in Two : Starts(d, a) => d = c
  /\ \A a \in verifiers : exchanged[a] = 0
  /\ \A a \in Two : exchanged[a] <= 1

\* The inductive invariant.
SignInIInv == AttemptsTyped /\ AttemptsFresh

LEMMA InitSignIn == Accounts!Init => SignInIInv
  BY DEF Accounts!Init, Accounts!Idle, Accounts!NoPopup, Accounts!NoMessage, SignInIInv, AttemptsTyped, PopupTyped,
         AttemptsFresh, Starts, CallState

\* What the actions do to the calls: they are sent, answered, ended, or lose their page.
LEMMA CallIsAnswered ==
  ASSUME NEW q \in CallState, NEW ok \in BOOLEAN, NEW u \in {"old", "new", None}
  PROVE  /\ [q EXCEPT !.at = "answered", !.ok = ok, !.user = u] \in CallState
         /\ [q EXCEPT !.at = "answered", !.ok = ok, !.user = u].at = "answered"
  BY DEF CallState

LEMMA CallLosesPage ==
  ASSUME NEW q \in CallState
  PROVE  /\ [q EXCEPT !.here = FALSE] \in CallState
         /\ [q EXCEPT !.here = FALSE].at = q.at
         /\ [q EXCEPT !.here = FALSE].op = q.op
         /\ [q EXCEPT !.here = FALSE].attempt = q.attempt
  BY DEF CallState

LEMMA IdleCall == Accounts!Idle \in CallState /\ Accounts!Idle.at = "idle"
  BY DEF Accounts!Idle, CallState

\* No call newly asks for the URL of an attempt.
NoNewStart ==
  \A c \in Two : call'[c].op = "start" /\ call'[c].at = "sent"
                  => call[c].op = "start" /\ call[c].at = "sent" /\ call[c].attempt = call'[c].attempt

LEMMA CallEnds ==
  ASSUME call \in [Two -> CallState], NEW c \in Two, call' = [call EXCEPT ![c] = Accounts!Idle]
  PROVE  call' \in [Two -> CallState] /\ NoNewStart
  BY IdleCall DEF NoNewStart

LEMMA CallAnswered ==
  ASSUME call \in [Two -> CallState], NEW c \in Two, NEW ok \in BOOLEAN,
         NEW u \in {"old", "new", None}, Accounts!Answered(c, ok, u)
  PROVE  call' \in [Two -> CallState] /\ NoNewStart /\ call'[c].at = "answered"
<1> DEFINE q == [call[c] EXCEPT !.at = "answered", !.ok = ok, !.user = u]
<1>1. q \in CallState /\ q.at = "answered"
  <2>1. call[c] \in CallState
    OBVIOUS
  <2> QED
    BY <2>1, CallIsAnswered
<1>2. call' = [call EXCEPT ![c] = q]
  BY DEF Accounts!Answered
<1> HIDE DEF q
<1> QED
  BY <1>1, <1>2 DEF NoNewStart

LEMMA CallSent ==
  ASSUME call \in [Two -> CallState], NEW c \in Two, NEW op \in {"register", "login", "start", "complete"},
         NEW e \in {"mail", None}, NEW p \in {"word", None}, NEW a \in Two \cup {None},
         Accounts!Send(c, op, e, p, a)
  PROVE  /\ call' \in [Two -> CallState] /\ (op # "start" => NoNewStart)
         /\ call'[c].op = op /\ call'[c].at = "sent" /\ call'[c].attempt = a
         /\ \A d \in Two : d # c => call'[d] = call[d]
<1> DEFINE q == [op |-> op, email |-> e, password |-> p, attempt |-> a, at |-> "sent", ok |-> FALSE,
                 user |-> None, here |-> TRUE]
<1>1. q \in CallState /\ q.op = op /\ q.at = "sent" /\ q.attempt = a
  BY DEF CallState
<1>2. call' = [call EXCEPT ![c] = q]
  BY DEF Accounts!Send
<1> HIDE DEF q
<1> QED
  BY <1>1, <1>2 DEF NoNewStart

LEMMA PageLeft ==
  ASSUME call \in [Two -> CallState], NEW calls \in [Two -> CallState], NEW p, Accounts!Mounted(p, calls),
         \/ calls = call \/ \E c \in Two : calls = [call EXCEPT ![c] = Accounts!Idle]
  PROVE  call' \in [Two -> CallState] /\ NoNewStart
<1>1. call' = [c \in Two |-> [calls[c] EXCEPT !.here = FALSE]]
  BY DEF Accounts!Mounted
<1>2. /\ call' \in [Two -> CallState]
      /\ \A c \in Two : call'[c].at = calls[c].at /\ call'[c].op = calls[c].op
                         /\ call'[c].attempt = calls[c].attempt
  BY <1>1, CallLosesPage
<1>3. \A c \in Two : calls[c] = call[c] \/ calls[c].at = "idle"
  BY IdleCall
<1> QED
  BY <1>2, <1>3 DEF NoNewStart

\* A step by which no attempt begins and the server changes nothing.
LEMMA OtherSignInStep ==
  ASSUME SignInIInv, call' \in [Two -> CallState], NoNewStart, UNCHANGED <<verifiers, exchanged>>,
         PopupTyped'
  PROVE  SignInIInv'
<1>1. AttemptsTyped'
  BY DEF SignInIInv, AttemptsTyped
<1>2. AttemptsFresh'
  BY DEF SignInIInv, AttemptsFresh, Starts, NoNewStart
<1> QED
  BY <1>1, <1>2 DEF SignInIInv

LEMMA FormStep ==
  ASSUME SignInIInv, NEW c \in Two,
         \/ \E e \in {"mail"} : \E p, q \in {"word"} : Accounts!SubmitRegister(c, e, p, q)
         \/ \E e \in {"mail"} : \E p \in {"word"} : Accounts!SubmitLogin(c, e, p)
         \/ Accounts!AnswerRegister(c) \/ Accounts!SettleRegister(c)
         \/ Accounts!AnswerLogin(c) \/ Accounts!SettleLogin(c)
  PROVE  SignInIInv'
<1>0. call \in [Two -> CallState] /\ PopupTyped
  BY DEF SignInIInv, AttemptsTyped
<1>a. UNCHANGED <<popup, message, listening>> => PopupTyped'
  BY <1>0 DEF PopupTyped
<1> USE DEF Accounts!server, Accounts!google
<1>1. ASSUME NEW e \in {"mail"}, NEW p \in {"word"}, NEW q \in {"word"}, Accounts!SubmitRegister(c, e, p, q)
      PROVE  SignInIInv'
  <2>1. Accounts!Send(c, "register", e, p, None) /\ UNCHANGED <<verifiers, exchanged, message, popup, listening>>
    BY <1>1 DEF Accounts!SubmitRegister
  <2>2. call' \in [Two -> CallState] /\ NoNewStart
    BY <1>0, <2>1, CallSent
  <2> QED
    BY <1>a, <2>1, <2>2, OtherSignInStep
<1>2. ASSUME NEW e \in {"mail"}, NEW p \in {"word"}, Accounts!SubmitLogin(c, e, p)
      PROVE  SignInIInv'
  <2>1. Accounts!Send(c, "login", e, p, None) /\ UNCHANGED <<verifiers, exchanged, message, popup, listening>>
    BY <1>2 DEF Accounts!SubmitLogin
  <2>2. call' \in [Two -> CallState] /\ NoNewStart
    BY <1>0, <2>1, CallSent
  <2> QED
    BY <1>a, <2>1, <2>2, OtherSignInStep
<1>3. ASSUME Accounts!AnswerRegister(c) PROVE SignInIInv'
  <2>1. /\ Accounts!Answered(c, TRUE, None) \/ Accounts!Answered(c, FALSE, None)
        /\ UNCHANGED <<verifiers, exchanged, message, popup, listening>>
    BY <1>3 DEF Accounts!AnswerRegister
  <2>2. call' \in [Two -> CallState] /\ NoNewStart
    BY <1>0, <2>1, CallAnswered
  <2> QED
    BY <1>a, <2>1, <2>2, OtherSignInStep
<1>4. ASSUME Accounts!AnswerLogin(c) PROVE SignInIInv'
  <2>1. /\ \E ok \in BOOLEAN, u \in {"old", "new", None} : Accounts!Answered(c, ok, u)
        /\ UNCHANGED <<verifiers, exchanged, message, popup, listening>>
    BY <1>4 DEF Accounts!AnswerLogin
  <2>2. call' \in [Two -> CallState] /\ NoNewStart
    BY <1>0, <2>1, CallAnswered
  <2> QED
    BY <1>a, <2>1, <2>2, OtherSignInStep
<1> DEFINE ended == [call EXCEPT ![c] = Accounts!Idle]
<1>5. ended \in [Two -> CallState]
  BY <1>0, IdleCall
<1>6. ASSUME Accounts!SettleRegister(c) PROVE SignInIInv'
  <2>1. /\ call' = ended \/ Accounts!Mounted("login", ended)
        /\ UNCHANGED <<verifiers, exchanged, message, popup, listening>>
    BY <1>6 DEF Accounts!SettleRegister
  <2>2. call' \in [Two -> CallState] /\ NoNewStart
    BY <1>0, <1>5, <2>1, CallEnds, PageLeft
  <2> QED
    BY <1>a, <2>1, <2>2, OtherSignInStep
<1>7. ASSUME Accounts!SettleLogin(c) PROVE SignInIInv'
  <2>1. /\ call' = ended \/ Accounts!Mounted("home", ended)
        /\ UNCHANGED <<verifiers, exchanged, message, popup, listening>>
    BY <1>7 DEF Accounts!SettleLogin, Accounts!SignedIn
  <2>2. call' \in [Two -> CallState] /\ NoNewStart
    BY <1>0, <1>5, <2>1, CallEnds, PageLeft
  <2> QED
    BY <1>a, <2>1, <2>2, OtherSignInStep
<1> QED
  BY <1>1, <1>2, <1>3, <1>4, <1>6, <1>7

LEMMA PopupStep ==
  ASSUME SignInIInv,
         \/ \E p \in {"home", "login", "register"} : Accounts!GoTo(p)
         \/ \E c, a \in Two : Accounts!HandleMessage(a, c)
         \/ \E c \in Two : \/ Accounts!OpenPopup(c) \/ Accounts!OauthComplete(c)
                           \/ Accounts!CallLost(c) \/ Accounts!StartLost(c)
         \/ Accounts!ClosePopup \/ Accounts!OauthCallback \/ \E a \in Two : Accounts!CheckPopup(a)
  PROVE  SignInIInv'
<1>0. /\ call \in [Two -> CallState] /\ \A c \in Two : call[c].attempt \in Two \cup {None}
      /\ PopupTyped /\ message.attempt \in Two \cup {None}
  BY DEF SignInIInv, AttemptsTyped, CallState, PopupTyped
<1>a. UNCHANGED <<popup, message, listening>> => PopupTyped'
  BY <1>0 DEF PopupTyped
<1> USE DEF Accounts!server, Accounts!google, Accounts!place
<1>1. ASSUME NEW p, Accounts!GoTo(p) PROVE SignInIInv'
  <2>1. Accounts!Mounted(p, call) /\ UNCHANGED <<verifiers, exchanged, message, popup, listening>>
    BY <1>1 DEF Accounts!GoTo
  <2>2. call' \in [Two -> CallState] /\ NoNewStart
    BY <1>0, <2>1, PageLeft
  <2> QED
    BY <1>a, <2>1, <2>2, OtherSignInStep
<1>2. ASSUME NEW c \in Two, NEW a \in Two, Accounts!HandleMessage(a, c) PROVE SignInIInv'
  <2>1. /\ Accounts!Send(c, "complete", None, None, message.attempt)
        /\ UNCHANGED <<verifiers, exchanged>> /\ PopupTyped'
    <3>1. message' \in {Accounts!NoMessage, [message EXCEPT !.todo = message.todo \ {a}]}
      BY <1>2 DEF Accounts!HandleMessage
    <3>2. [message EXCEPT !.todo = message.todo \ {a}] \in [attempt : Two \cup {None}, todo : SUBSET (Two \cup {None})]
      BY <1>0 DEF PopupTyped
    <3>3. Accounts!NoMessage \in [attempt : Two \cup {None}, todo : SUBSET (Two \cup {None})]
      BY DEF Accounts!NoMessage
    <3> QED
      BY <1>0, <1>2, <3>1, <3>2, <3>3 DEF Accounts!HandleMessage, Accounts!NoPopup, PopupTyped
  <2>2. call' \in [Two -> CallState] /\ NoNewStart
    BY <1>0, <2>1, CallSent
  <2> QED
    BY <1>a, <2>1, <2>2, OtherSignInStep
<1>3. ASSUME NEW c \in Two, Accounts!OpenPopup(c) PROVE SignInIInv'
  <2>1. /\ call' = [call EXCEPT ![c] = Accounts!Idle]
        /\ UNCHANGED <<verifiers, exchanged>> /\ PopupTyped'
    BY <1>0, <1>3 DEF Accounts!OpenPopup, PopupTyped
  <2>2. call' \in [Two -> CallState] /\ NoNewStart
    BY <1>0, <2>1, CallEnds
  <2> QED
    BY <1>a, <2>1, <2>2, OtherSignInStep
<1>4. ASSUME NEW c \in Two, Accounts!OauthComplete(c) PROVE SignInIInv'
  <2> DEFINE ended == [call EXCEPT ![c] = Accounts!Idle]
  <2>1. /\ call' = ended \/ Accounts!Mounted("home", ended)
        /\ UNCHANGED <<verifiers, exchanged, message, popup, listening>>
    BY <1>4 DEF Accounts!OauthComplete, Accounts!SignedIn
  <2>2. ended \in [Two -> CallState]
    BY <1>0, IdleCall
  <2>3. call' \in [Two -> CallState] /\ NoNewStart
    BY <1>0, <2>1, <2>2, CallEnds, PageLeft
  <2> QED
    BY <1>a, <2>1, <2>3, OtherSignInStep
<1>5. ASSUME NEW c \in Two, Accounts!CallLost(c) PROVE SignInIInv'
  <2>1. /\ Accounts!Answered(c, FALSE, None)
        /\ UNCHANGED <<verifiers, exchanged, message, popup, listening>>
    BY <1>5 DEF Accounts!CallLost
  <2>2. call' \in [Two -> CallState] /\ NoNewStart
    BY <1>0, <2>1, CallAnswered
  <2> QED
    BY <1>a, <2>1, <2>2, OtherSignInStep
<1>6. ASSUME NEW c \in Two, Accounts!StartLost(c) PROVE SignInIInv'
  <2>1. /\ call' = [call EXCEPT ![c] = Accounts!Idle]
        /\ UNCHANGED <<verifiers, exchanged, message, popup, listening>>
    BY <1>6 DEF Accounts!StartLost
  <2>2. call' \in [Two -> CallState] /\ NoNewStart
    BY <1>0, <2>1, CallEnds
  <2> QED
    BY <1>a, <2>1, <2>2, OtherSignInStep
<1>7. ASSUME Accounts!ClosePopup \/ Accounts!OauthCallback \/ \E a \in Two : Accounts!CheckPopup(a)
      PROVE  SignInIInv'
  <2>1. /\ UNCHANGED <<verifiers, exchanged, call>> /\ listening' = listening
        /\ message' \in {message, [attempt |-> popup.attempt, todo |-> listening]}
        /\ popup' \in {popup, Accounts!NoPopup, [popup EXCEPT !.at = "error"]}
    BY <1>7 DEF Accounts!ClosePopup, Accounts!OauthCallback, Accounts!CheckPopup
  <2>2. PopupTyped'
    BY <1>0, <2>1 DEF PopupTyped, Accounts!NoPopup
  <2>3. call' \in [Two -> CallState] /\ NoNewStart
    BY <1>0, <2>1 DEF NoNewStart
  <2> QED
    BY <2>1, <2>2, <2>3, OtherSignInStep
<1> QED
  BY <1>1, <1>2, <1>3, <1>4, <1>5, <1>6, <1>7

LEMMA ClickGoogleStep ==
  ASSUME SignInIInv, NEW c \in Two, NEW a \in Two, Accounts!ClickGoogle(c, a)
  PROVE  SignInIInv'
<1>0. /\ Accounts!Send(c, "start", None, None, a)
      /\ UNCHANGED <<verifiers, exchanged, message, popup, listening>>
      /\ exchanged[a] = 0 /\ a \notin verifiers /\ \A d \in Two : call[d].attempt # a
  BY DEF Accounts!ClickGoogle, Accounts!server, Accounts!google
<1>1. /\ call' \in [Two -> CallState]
      /\ call'[c].op = "start" /\ call'[c].at = "sent" /\ call'[c].attempt = a
      /\ \A d \in Two : d # c => call'[d] = call[d]
  BY <1>0, CallSent DEF SignInIInv, PopupTyped, AttemptsTyped
<1>2. AttemptsTyped'
  BY <1>0, <1>1 DEF SignInIInv, PopupTyped, AttemptsTyped
<1>3. AttemptsFresh'
  BY <1>0, <1>1 DEF SignInIInv, AttemptsFresh, Starts
<1> QED
  BY <1>2, <1>3 DEF SignInIInv

LEMMA StartOAuthStep ==
  ASSUME SignInIInv, NEW c \in Two, Accounts!StartOAuth(c)
  PROVE  SignInIInv'
<1> DEFINE a == call[c].attempt
<1>0. /\ Accounts!Answered(c, TRUE, None) /\ verifiers' = verifiers \cup {a}
      /\ UNCHANGED <<exchanged, message, popup, listening>>
      /\ call \in [Two -> CallState] /\ call[c].op = "start" /\ call[c].at = "sent"
  BY DEF Accounts!StartOAuth, Accounts!google, SignInIInv, AttemptsTyped
<1>1. call' \in [Two -> CallState] /\ NoNewStart /\ call'[c].at = "answered"
  BY <1>0, CallAnswered
<1>2. a \in Two /\ Starts(c, a)
  BY <1>0 DEF SignInIInv, AttemptsFresh, Starts
<1>3. AttemptsTyped'
  BY <1>0, <1>1, <1>2 DEF SignInIInv, PopupTyped, AttemptsTyped
<1>4. AttemptsFresh'
  BY <1>0, <1>1, <1>2 DEF SignInIInv, AttemptsFresh, Starts, NoNewStart
<1> QED
  BY <1>3, <1>4 DEF SignInIInv

LEMMA AuthCallbackStep ==
  ASSUME SignInIInv, NEW c \in Two, Accounts!AuthCallback(c)
  PROVE  SignInIInv'
<1> DEFINE a == call[c].attempt
<1>0. /\ verifiers' = verifiers \ {a} /\ UNCHANGED <<message, popup, listening>>
      /\ call \in [Two -> CallState]
      /\ \/ /\ a \in verifiers /\ exchanged' = [exchanged EXCEPT ![a] = @ + 1]
            /\ Accounts!Answered(c, TRUE, "old")
         \/ Accounts!Answered(c, FALSE, None) /\ UNCHANGED exchanged
  BY DEF Accounts!AuthCallback, Accounts!google, SignInIInv, AttemptsTyped
<1>1. call' \in [Two -> CallState] /\ NoNewStart
  BY <1>0, CallAnswered
<1>2. CASE UNCHANGED exchanged
  <2>1. AttemptsTyped'
    BY <1>0, <1>1, <1>2 DEF SignInIInv, PopupTyped, AttemptsTyped
  <2>2. AttemptsFresh'
    BY <1>0, <1>1, <1>2 DEF SignInIInv, AttemptsFresh, Starts, NoNewStart
  <2> QED
    BY <2>1, <2>2 DEF SignInIInv
<1>3. CASE a \in verifiers /\ exchanged' = [exchanged EXCEPT ![a] = @ + 1]
  <2>1. /\ a \in Two /\ exchanged[a] = 0 /\ exchanged' \in [Two -> Nat]
        /\ \A b \in Two : exchanged'[b] = IF b = a THEN 1 ELSE exchanged[b]
    BY <1>3 DEF SignInIInv, PopupTyped, AttemptsTyped, AttemptsFresh
  <2>2. AttemptsTyped'
    BY <1>0, <1>1, <2>1 DEF SignInIInv, PopupTyped, AttemptsTyped
  <2>3. AttemptsFresh'
    BY <1>0, <1>1, <1>3, <2>1 DEF SignInIInv, PopupTyped, AttemptsTyped, AttemptsFresh, Starts, NoNewStart
  <2> QED
    BY <2>2, <2>3 DEF SignInIInv
<1> QED
  BY <1>0, <1>2, <1>3

LEMMA StepSignIn == SignInIInv /\ [Accounts!Next]_accountsVars => SignInIInv'
<1> SUFFICES ASSUME SignInIInv, [Accounts!Next]_accountsVars PROVE SignInIInv'
  OBVIOUS
<1>1. CASE Accounts!Next
  <2>1. ASSUME NEW c \in Two, NEW a \in Two, Accounts!ClickGoogle(c, a) PROVE SignInIInv'
    BY <2>1, ClickGoogleStep
  <2>2. ASSUME NEW c \in Two, Accounts!StartOAuth(c) PROVE SignInIInv'
    BY <2>2, StartOAuthStep
  <2>3. ASSUME NEW c \in Two, Accounts!AuthCallback(c) PROVE SignInIInv'
    BY <2>3, AuthCallbackStep
  <2> QED
    BY <1>1, <2>1, <2>2, <2>3, FormStep, PopupStep DEF Accounts!Next
<1>2. CASE UNCHANGED accountsVars
  BY <1>2 DEF accountsVars, PopupTyped, SignInIInv, AttemptsTyped, AttemptsFresh, Starts
<1> QED
  BY <1>1, <1>2

\* Listeners of attempts that were given up answer the message of a later attempt and
\* complete it again, in any order with the attempts that are starting; still an attempt
\* to sign in with Google opens at most one session (OauthButton.tsx; AuthCallback of
\* user-service takes the state out before it exchanges the code).
THEOREM SessionsPerAttempt == Spec => []OneSessionPerAttempt
<1>1. Init => SignInIInv
  BY InitSignIn DEF Init
<1>2. SignInIInv /\ [Next]_vars => SignInIInv'
  <2>1. Next => [Accounts!Next]_accountsVars
    BY DEF Next
  <2>2. [Next]_vars => [Accounts!Next]_accountsVars
    BY <2>1 DEF vars
  <2> QED
    BY <2>2, StepSignIn
<1>3. SignInIInv => OneSessionPerAttempt
  BY DEF SignInIInv, AttemptsFresh, OneSessionPerAttempt, Accounts!OneSessionPerAttempt
<1> QED
  BY <1>1, <1>2, <1>3, PTL DEF Spec

-----------------------------------------------------------------------------
(* One entry of a query cache (QueryCache.tla).                            *)

Cache == INSTANCE QueryCache

\* What the operations of the cache do to an entry for values V.
LEMMA EntryFetched ==
  ASSUME NEW V, NEW q \in Cache!Entries(V)
  PROVE  /\ Cache!Fetching(q) \in Cache!Entries(V)
         /\ Cache!Fetching(q).data = q.data /\ Cache!Fetching(q).answer = q.answer
         /\ Cache!Fetching(q).fetch = IF q.fetch = "idle" THEN "sent" ELSE q.fetch
  BY DEF Cache!Fetching, Cache!Entries

LEMMA EntryServed ==
  ASSUME NEW V, NEW q \in Cache!Entries(V), NEW v \in V
  PROVE  /\ Cache!Served(q, v) \in Cache!Entries(V)
         /\ Cache!Served(q, v).data = q.data /\ Cache!Served(q, v).answer = v
         /\ Cache!Served(q, v).fetch = "answered"
  BY DEF Cache!Served, Cache!Entries

LEMMA EntryFilled ==
  ASSUME NEW V, NEW q \in Cache!Entries(V)
  PROVE  /\ Cache!Filled(q) \in Cache!Entries(V)
         /\ Cache!Filled(q).data = q.answer /\ Cache!Filled(q).fetch = "idle"
  BY DEF Cache!Filled, Cache!Entries

LEMMA EntryFailed ==
  ASSUME NEW V, NEW q \in Cache!Entries(V)
  PROVE  /\ Cache!Failed(q) \in Cache!Entries(V)
         /\ Cache!Failed(q).data = q.data /\ Cache!Failed(q).fetch = "idle"
  BY DEF Cache!Failed, Cache!Entries

LEMMA EntryInvalidated ==
  ASSUME NEW V, NEW q \in Cache!Entries(V)
  PROVE  /\ Cache!Invalidated(q) \in Cache!Entries(V) /\ Cache!Invalidated(q).data = q.data
         /\ \/ Cache!Invalidated(q).fetch = "sent"
            \/ q.data = NoData /\ q.fetch # "idle" /\ Cache!Invalidated(q) = q
  BY DEF Cache!Invalidated, Cache!Entries

-----------------------------------------------------------------------------
(* The pages of an order (OrderPages.tla).                                 *)

\* The pages of which the runs open two at a time, all open together: what is
\* proved of them holds whichever are open.
AllOpen == {"tracking", "active", "past", "desk", "detail"}
AllPages ==
  INSTANCE OrderPages
    WITH order <- "order", driver1 <- "driver", txn1 <- "txn", Open <- AllOpen, Call <- Two

\* What an entry renders that was never filled is no status.
NoDataIsNoStatus == NoData \notin AllPages!Status

\* The statuses that may follow s, with the sequence of the kitchen written out.
Followed(s, t) ==
  \/ s = t \/ s = "payment_pending"
  \/ s = "payment_failed" /\ t = "canceled"
  \/ s = "pending_restaurant_accept" /\ t \notin {"payment_pending", "payment_failed"}
  \/ s = "preparing_order" /\ t \in {"awaiting_pickup", "delivering", "delivered"}
  \/ s = "awaiting_pickup" /\ t \in {"delivering", "delivered"}
  \/ s = "delivering" /\ t = "delivered"

LEMMA AfterIsFollowed == \A s, t : AllPages!After(s, t) <=> Followed(s, t)
<1> SUFFICES ASSUME NEW s, NEW t PROVE AllPages!After(s, t) <=> Followed(s, t)
  OBVIOUS
<1> DEFINE K == <<"preparing_order", "awaiting_pickup", "delivering", "delivered">>
<1>1. DOMAIN K = 1..4 /\ Len(K) = 4 /\ AllPages!Kitchen = K
  BY DEF AllPages!Kitchen
<1>2. (\E i \in 1..4 : \E j \in i..4 : s = K[i] /\ t = K[j])
        <=> \/ s = "preparing_order" /\ t \in {"preparing_order", "awaiting_pickup", "delivering", "delivered"}
            \/ s = "awaiting_pickup" /\ t \in {"awaiting_pickup", "delivering", "delivered"}
            \/ s = "delivering" /\ t \in {"delivering", "delivered"}
            \/ s = "delivered" /\ t = "delivered"
  OBVIOUS
<1> HIDE DEF K
<1> QED
  BY <1>1, <1>2 DEF AllPages!After, Followed

LEMMA FollowedIsTransitive ==
  ASSUME NEW s \in AllPages!Status, NEW t \in AllPages!Status, NEW u \in AllPages!Status,
         Followed(s, t), Followed(t, u)
  PROVE  Followed(s, u)
  BY DEF Followed, AllPages!Status

\* Every step of the pages that the runs open is one of all pages.
LEMMA TrackingAreOpen == (Tracking!Init => AllPages!Init) /\ (Tracking!Next => AllPages!Next)
<1>1. Tracking!Init => AllPages!Init
  BY DEF Tracking!Init, Tracking!Fresh, Tracking!Page, Tracking!Idle,
         AllPages!Init, AllPages!Fresh, AllPages!Page, AllPages!Idle
<1>2. \A p : Tracking!Fetch(p) => AllPages!Fetch(p)
  BY DEF Tracking!Fetch, Tracking!Fetching, Tracking!service,
         AllPages!Fetch, AllPages!Fetching, AllPages!service
<1>3. \A p : Tracking!SelectTab(p) => AllPages!SelectTab(p)
  BY DEF Tracking!SelectTab, Tracking!Fetching, Tracking!service,
         AllPages!SelectTab, AllPages!Fetching, AllPages!service
<1>4. \A p : Tracking!GetOrder(p) => AllPages!GetOrder(p)
  BY DEF Tracking!GetOrder, Tracking!Served, Tracking!Now, Tracking!service,
         AllPages!GetOrder, AllPages!Served, AllPages!Now, AllPages!service
<1>5. \A p : Tracking!Show(p) => AllPages!Show(p)
  BY DEF Tracking!Show, Tracking!Filled, Tracking!service,
         AllPages!Show, AllPages!Filled, AllPages!service
<1>6. \A p : Tracking!FetchFails(p) => AllPages!FetchFails(p)
  BY DEF Tracking!FetchFails, Tracking!Failed, Tracking!service,
         AllPages!FetchFails, AllPages!Failed, AllPages!service
<1>7. Tracking!Poll => AllPages!Poll
  BY DEF Tracking!Poll, Tracking!Shown, Tracking!ShouldRefresh, Tracking!Fetching, Tracking!service,
         AllPages!Poll, AllPages!Shown, AllPages!ShouldRefresh, AllPages!Fetching, AllPages!service, AllOpen
<1>8. \A c : Tracking!ClickCancel(c) => AllPages!ClickCancel(c)
  BY DEF Tracking!ClickCancel, Tracking!Shown, Tracking!CanCancelOrder, Tracking!Send, Tracking!Idle, Tracking!service,
         AllPages!ClickCancel, AllPages!Shown, AllPages!CanCancelOrder, AllPages!Send, AllPages!Idle, AllPages!service, AllOpen
<1>9. \A c : Tracking!Answer(c) => AllPages!Answer(c)
  BY DEF Tracking!Answer, Tracking!Now, Tracking!Accepts, Tracking!Effect, Tracking!browser, Tracking!service, Tracking!Service!Cancel, Tracking!Service!Decide, Tracking!Service!MakeReady, Tracking!Service!Move,
         AllPages!Answer, AllPages!Now, AllPages!Accepts, AllPages!Effect, AllPages!browser, AllPages!service, AllPages!Service!Cancel, AllPages!Service!Decide, AllPages!Service!MakeReady, AllPages!Service!Move, AllOpen
<1>10. \A c : Tracking!AnswerLost(c) => AllPages!AnswerLost(c)
  BY DEF Tracking!AnswerLost, Tracking!browser, Tracking!service,
         AllPages!AnswerLost, AllPages!browser, AllPages!service, AllOpen
<1>10a. \A c : Tracking!CallFails(c) => AllPages!CallFails(c)
  BY DEF Tracking!CallFails, Tracking!browser, Tracking!service,
         AllPages!CallFails, AllPages!browser, AllPages!service
<1>11. \A c : Tracking!Settle(c) => AllPages!Settle(c)
  BY DEF Tracking!Settle, Tracking!Idle, Tracking!Page, Tracking!Invalidates, Tracking!Invalidated, Tracking!Outcome, Tracking!service,
         AllPages!Settle, AllPages!Idle, AllPages!Page, AllPages!Invalidates, AllPages!Invalidated, AllPages!Outcome, AllPages!service, AllOpen
<1>12. \A c, op : Tracking!ClickDesk(c, op) => AllPages!ClickDesk(c, op)
  BY DEF Tracking!ClickDesk, Tracking!Shown, Tracking!DeskEnabled, Tracking!Send, Tracking!Idle, Tracking!service,
         AllPages!ClickDesk, AllPages!Shown, AllPages!DeskEnabled, AllPages!Send, AllPages!Idle, AllPages!service, AllOpen
<1>13. Tracking!Elsewhere => AllPages!Elsewhere
  BY DEF Tracking!Elsewhere, Tracking!browser, Tracking!Service!ReportPayment, Tracking!Service!Decide, Tracking!Service!Cancel, Tracking!Service!MakeReady, Tracking!Service!Assign, Tracking!Service!Deliver, Tracking!Service!Move,
         AllPages!Elsewhere, AllPages!browser, AllPages!Service!ReportPayment, AllPages!Service!Decide, AllPages!Service!Cancel, AllPages!Service!MakeReady, AllPages!Service!Assign, AllPages!Service!Deliver, AllPages!Service!Move
<1> QED
  BY <1>1, <1>2, <1>3, <1>4, <1>5, <1>6, <1>7, <1>8, <1>9, <1>10, <1>10a, <1>11, <1>12, <1>13 DEF Tracking!Next, AllPages!Next, Tracking!Op, AllPages!Op, AllOpen

ClickState ==
  [op : AllPages!Op \cup {None}, at : {"idle", "sent", "answered"}, ok : BOOLEAN]

\* The outcome of op, which is not "finish".
Decisions == {"cancel", "accept", "reject"}
OutcomeOf(op) == IF op = "cancel" THEN "canceled"
                 ELSE IF op = "accept" THEN "preparing_order" ELSE "restaurant_rejected"

\* The pages, without what the runs' TypeOK says of them beside this.
PagesTyped ==
  /\ orderStatus \in [{"order"} -> AllPages!Status]
  /\ entry \in [AllPages!Page -> Cache!Entries(AllPages!Status)]
  /\ click \in [Two -> ClickState]
  /\ told \subseteq Decisions

\* The buttons for op are on this page.
PageOf(op) == IF op = "cancel" THEN "tracking" ELSE "desk"

\* What a page shows, and what is on its way to it, was once the status of the
\* order, in this order.
EntriesBehind ==
  \A p \in AllPages!Page :
    /\ entry[p].fetch = "answered" =>
         /\ entry[p].answer \in AllPages!Status
         /\ Followed(entry[p].answer, orderStatus["order"])
         /\ entry[p].data # NoData => Followed(entry[p].data, entry[p].answer)
    /\ entry[p].data # NoData => Followed(entry[p].data, orderStatus["order"])

\* A call is made by a page that shows the order, and one that was carried out
\* had its outcome.
ClicksCarriedOut ==
  \A c \in Two :
    /\ click[c].at # "idle" => click[c].op \in AllPages!Op /\ entry[PageOf(click[c].op)].data # NoData
    /\ click[c].at = "answered" /\ click[c].ok /\ click[c].op \in Decisions
         => Followed(OutcomeOf(click[c].op), orderStatus["order"])

\* What was reported holds; the page that reported it no longer waits for an older
\* answer, and shows nothing older unless its latest fetch failed.
ToldSettled ==
  \A op \in told :
    /\ Followed(OutcomeOf(op), orderStatus["order"])
    /\ entry[PageOf(op)].data # NoData
    /\ entry[PageOf(op)].fetch = "answered" => Followed(OutcomeOf(op), entry[PageOf(op)].answer)
    /\ entry[PageOf(op)].fetch = "idle" /\ PageOf(op) \notin error
         => Followed(OutcomeOf(op), entry[PageOf(op)].data)

\* The inductive invariant.
PagesIInv == PagesTyped /\ EntriesBehind /\ ClicksCarriedOut /\ ToldSettled

LEMMA InitPages == NoDataIsNoStatus /\ AllPages!Init => PagesIInv
<1> SUFFICES ASSUME NoDataIsNoStatus, AllPages!Init PROVE PagesIInv
  OBVIOUS
<1> USE DEF AllPages!Init, AllPages!Fresh, AllPages!Idle
<1>1. PagesTyped
  BY DEF PagesTyped, AllPages!Status, Cache!Entries, ClickState
<1>2. EntriesBehind /\ ClicksCarriedOut /\ ToldSettled
  BY DEF EntriesBehind, ClicksCarriedOut, ToldSettled, PageOf, AllPages!Page
<1> QED
  BY <1>1, <1>2 DEF PagesIInv

\* The other entries, and the page of an op.
LEMMA PagesFacts ==
  ASSUME PagesIInv
  PROVE  /\ \A p \in AllPages!Page : entry[p] \in Cache!Entries(AllPages!Status)
         /\ \A op : PageOf(op) \in AllPages!Page
         /\ orderStatus["order"] \in AllPages!Status
  BY DEF PagesIInv, PagesTyped, PageOf, AllPages!Page

\* A fetch begins, or is under way already.
LEMMA PageFetches ==
  ASSUME NoDataIsNoStatus, PagesIInv, UNCHANGED <<orderStatus, click, told, error>>, NEW p \in AllPages!Page,
         entry' = [entry EXCEPT ![p] = Cache!Fetching(entry[p])]
  PROVE  PagesIInv'
<1>1. /\ Cache!Fetching(entry[p]) \in Cache!Entries(AllPages!Status)
      /\ Cache!Fetching(entry[p]).data = entry[p].data /\ Cache!Fetching(entry[p]).answer = entry[p].answer
      /\ Cache!Fetching(entry[p]).fetch = IF entry[p].fetch = "idle" THEN "sent" ELSE entry[p].fetch
  BY PagesFacts, EntryFetched
<1>2. PagesTyped'
  BY <1>1 DEF PagesIInv, PagesTyped
<1>3. \A q \in AllPages!Page :
        /\ entry'[q].data = entry[q].data /\ entry'[q].answer = entry[q].answer
        /\ entry'[q].fetch = entry[q].fetch \/ entry'[q].fetch = "sent"
  BY <1>1 DEF PagesIInv, PagesTyped
<1>4. EntriesBehind'
  BY <1>3 DEF PagesIInv, EntriesBehind
<1>5. ClicksCarriedOut'
  BY <1>3, PagesFacts DEF PagesIInv, ClicksCarriedOut
<1>6. ToldSettled'
  BY <1>3, PagesFacts DEF PagesIInv, ToldSettled
<1> QED
  BY <1>2, <1>4, <1>5, <1>6 DEF PagesIInv

LEMMA PageServed ==
  ASSUME NoDataIsNoStatus, PagesIInv, NEW p \in AllPages!Page, AllPages!GetOrder(p)
  PROVE  PagesIInv'
<1> DEFINE e == Cache!Served(entry[p], orderStatus["order"])
<1>0. /\ UNCHANGED <<orderStatus, click, told, error>>
      /\ entry' = [entry EXCEPT ![p] = e]
  BY DEF AllPages!GetOrder, AllPages!service, AllPages!Served, Cache!Served, AllPages!Now
<1>1. /\ e \in Cache!Entries(AllPages!Status)
      /\ e.data = entry[p].data /\ e.answer = orderStatus["order"] /\ e.fetch = "answered"
  BY PagesFacts, EntryServed
<1> HIDE DEF e
<1>2. PagesTyped'
  BY <1>0, <1>1 DEF PagesIInv, PagesTyped
<1>3. \A q \in AllPages!Page : entry'[q] = IF q = p THEN e ELSE entry[q]
  BY <1>0 DEF PagesIInv, PagesTyped
<1>4. EntriesBehind'
  BY <1>0, <1>1, <1>3, PagesFacts DEF PagesIInv, EntriesBehind, Followed
<1>5. ClicksCarriedOut'
  BY <1>0, <1>1, <1>3, PagesFacts DEF PagesIInv, ClicksCarriedOut
<1>6. ToldSettled'
  BY <1>0, <1>1, <1>3, PagesFacts DEF PagesIInv, ToldSettled
<1> QED
  BY <1>2, <1>4, <1>5, <1>6 DEF PagesIInv

LEMMA PageShows ==
  ASSUME NoDataIsNoStatus, PagesIInv, NEW p \in AllPages!Page, AllPages!Show(p)
  PROVE  PagesIInv'
<1> DEFINE e == Cache!Filled(entry[p])
<1>0. /\ UNCHANGED <<orderStatus, click, told>> /\ error' = error \ {p}
      /\ entry' = [entry EXCEPT ![p] = e] /\ entry[p].fetch = "answered"
  BY DEF AllPages!Show, AllPages!service, AllPages!Filled, Cache!Filled
<1>1. /\ e \in Cache!Entries(AllPages!Status)
      /\ e.data = entry[p].answer /\ e.fetch = "idle"
  BY PagesFacts, EntryFilled
<1> HIDE DEF e
<1>2. PagesTyped'
  BY <1>0, <1>1 DEF PagesIInv, PagesTyped
<1>3. \A q \in AllPages!Page : entry'[q] = IF q = p THEN e ELSE entry[q]
  BY <1>0 DEF PagesIInv, PagesTyped
<1>4. entry[p].answer \in AllPages!Status /\ entry[p].answer # NoData
  BY <1>0 DEF PagesIInv, EntriesBehind, NoDataIsNoStatus
<1>5. EntriesBehind'
  BY <1>0, <1>1, <1>3 DEF PagesIInv, EntriesBehind
<1>6. ClicksCarriedOut'
  BY <1>0, <1>1, <1>3, <1>4, PagesFacts DEF PagesIInv, ClicksCarriedOut
<1>7. ToldSettled'
  BY <1>0, <1>1, <1>3, <1>4, PagesFacts DEF PagesIInv, ToldSettled
<1> QED
  BY <1>2, <1>5, <1>6, <1>7 DEF PagesIInv

LEMMA PageFails ==
  ASSUME NoDataIsNoStatus, PagesIInv, NEW p \in AllPages!Page, AllPages!FetchFails(p)
  PROVE  PagesIInv'
<1> DEFINE e == Cache!Failed(entry[p])
<1>0. /\ UNCHANGED <<orderStatus, click, told>> /\ error' = error \cup {p}
      /\ entry' = [entry EXCEPT ![p] = e]
  BY DEF AllPages!FetchFails, AllPages!service, AllPages!Failed, Cache!Failed
<1>1. /\ e \in Cache!Entries(AllPages!Status)
      /\ e.data = entry[p].data /\ e.fetch = "idle"
  BY PagesFacts, EntryFailed
<1> HIDE DEF e
<1>2. PagesTyped'
  BY <1>0, <1>1 DEF PagesIInv, PagesTyped
<1>3. \A q \in AllPages!Page : entry'[q] = IF q = p THEN e ELSE entry[q]
  BY <1>0 DEF PagesIInv, PagesTyped
<1>4. EntriesBehind'
  BY <1>0, <1>1, <1>3 DEF PagesIInv, EntriesBehind
<1>5. ClicksCarriedOut'
  BY <1>0, <1>1, <1>3, PagesFacts DEF PagesIInv, ClicksCarriedOut
<1>6. ToldSettled'
  BY <1>0, <1>1, <1>3, PagesFacts DEF PagesIInv, ToldSettled
<1> QED
  BY <1>2, <1>4, <1>5, <1>6 DEF PagesIInv

LEMMA PageClicked ==
  ASSUME NoDataIsNoStatus, PagesIInv, NEW c \in Two,
         AllPages!ClickCancel(c) \/ \E op \in AllPages!Op : AllPages!ClickDesk(c, op)
  PROVE  PagesIInv'
<1>1. PICK op \in AllPages!Op : AllPages!Send(c, op) /\ entry[PageOf(op)].data # NoData
  <2>1. ASSUME AllPages!ClickCancel(c)
        PROVE  AllPages!Send(c, "cancel") /\ entry[PageOf("cancel")].data # NoData /\ "cancel" \in AllPages!Op
    BY <2>1 DEF AllPages!ClickCancel, AllPages!Shown, PageOf, AllPages!Op
  <2>2. ASSUME NEW op \in AllPages!Op, AllPages!ClickDesk(c, op)
        PROVE  AllPages!Send(c, op) /\ entry[PageOf(op)].data # NoData
    BY <2>2 DEF AllPages!ClickDesk, AllPages!Shown, AllPages!DeskEnabled, PageOf, AllPages!Op,
                NoDataIsNoStatus, AllPages!Status
  <2> QED
    BY <2>1, <2>2
<1> DEFINE k == [op |-> op, at |-> "sent", ok |-> FALSE]
<1>2. UNCHANGED <<orderStatus, entry, error, told>> /\ click' = [click EXCEPT ![c] = k]
  BY <1>1 DEF AllPages!Send, AllPages!service
<1>3. k \in ClickState /\ k.op = op /\ k.at = "sent"
  BY DEF ClickState
<1> HIDE DEF k
<1>4. PagesTyped'
  BY <1>2, <1>3 DEF PagesIInv, PagesTyped
<1>5. ClicksCarriedOut'
  BY <1>1, <1>2, <1>3 DEF PagesIInv, PagesTyped, ClicksCarriedOut
<1>6. EntriesBehind' /\ ToldSettled'
  BY <1>2 DEF PagesIInv, EntriesBehind, ToldSettled
<1> QED
  BY <1>4, <1>5, <1>6 DEF PagesIInv

\* The order moves forward, and a call is answered at most by what it did.
LEMMA OrderMoves ==
  ASSUME NoDataIsNoStatus, PagesIInv, UNCHANGED <<entry, error, told>>,
         orderStatus' \in [{"order"} -> AllPages!Status],
         Followed(orderStatus["order"], orderStatus'["order"]),
         click' \in [Two -> ClickState],
         \A c \in Two :
           /\ click'[c].at # "idle" => click[c].at # "idle" /\ click'[c].op = click[c].op
           /\ click'[c].at = "answered" /\ click'[c].ok /\ click'[c].op \in Decisions
                => \/ click[c].at = "answered" /\ click[c].ok
                   \/ orderStatus'["order"] = OutcomeOf(click'[c].op)
  PROVE  PagesIInv'
<1> DEFINE now == orderStatus["order"]
           next == orderStatus'["order"]
<1>1. now \in AllPages!Status /\ next \in AllPages!Status /\ Followed(now, next)
  BY PagesFacts
<1>2. \A s \in AllPages!Status : Followed(s, now) => Followed(s, next)
  BY <1>1, FollowedIsTransitive
<1>3. \A op \in Decisions : OutcomeOf(op) \in AllPages!Status
  BY DEF Decisions, OutcomeOf, AllPages!Status
<1> HIDE DEF now, next
<1>4. PagesTyped'
  BY DEF PagesIInv, PagesTyped
<1>5. EntriesBehind'
  <2>1. \A p \in AllPages!Page : entry[p].data \in AllPages!Status \cup {NoData}
    BY PagesFacts DEF Cache!Entries
  <2> QED
    BY <1>2, <2>1 DEF PagesIInv, EntriesBehind, now, next
<1>6. ClicksCarriedOut'
  <2>1. \A s : Followed(s, s)
    BY DEF Followed
  <2> QED
    BY <1>2, <1>3, <2>1 DEF PagesIInv, ClicksCarriedOut, now, next
<1>7. ToldSettled'
  <2>1. \A op \in told : OutcomeOf(op) \in AllPages!Status
    BY <1>3 DEF PagesIInv, PagesTyped
  <2> QED
    BY <1>2, <2>1 DEF PagesIInv, ToldSettled, now, next
<1> QED
  BY <1>4, <1>5, <1>6, <1>7 DEF PagesIInv

\* Every move of the lifecycle leads to a status that may follow.
LEMMA LifecycleMoves ==
  ASSUME PagesIInv,
         \/ AllPages!Service!ReportPayment("order", "txn") \/ AllPages!Service!Decide("order")
         \/ AllPages!Service!Cancel("order") \/ AllPages!Service!MakeReady("order")
         \/ AllPages!Service!Assign("order", "driver") \/ AllPages!Service!Deliver("order")
  PROVE  /\ orderStatus' \in [{"order"} -> AllPages!Status]
         /\ Followed(orderStatus["order"], orderStatus'["order"])
<1>1. PICK t \in AllPages!Status :
        orderStatus' = [orderStatus EXCEPT !["order"] = t] /\ Followed(orderStatus["order"], t)
  BY DEF AllPages!Service!ReportPayment, AllPages!Service!Decide, AllPages!Service!Cancel,
         AllPages!Service!MakeReady, AllPages!Service!Assign, AllPages!Service!Deliver,
         AllPages!Service!Move, AllPages!Status, Followed
<1>2. orderStatus \in [{"order"} -> AllPages!Status]
  BY DEF PagesIInv, PagesTyped
<1> QED
  BY <1>1, <1>2

LEMMA OrderMovesElsewhere ==
  ASSUME NoDataIsNoStatus, PagesIInv, AllPages!Elsewhere
  PROVE  PagesIInv'
<1>1. UNCHANGED <<entry, error, told, click>>
  BY DEF AllPages!Elsewhere, AllPages!browser
<1>2. /\ orderStatus' \in [{"order"} -> AllPages!Status]
      /\ Followed(orderStatus["order"], orderStatus'["order"])
  BY LifecycleMoves DEF AllPages!Elsewhere
<1>3. click' \in [Two -> ClickState]
  BY <1>1 DEF PagesIInv, PagesTyped
<1> QED
  BY <1>1, <1>2, <1>3, OrderMoves

LEMMA ClickAnswered ==
  ASSUME NEW k \in ClickState, NEW ok \in BOOLEAN
  PROVE  /\ [k EXCEPT !.at = "answered", !.ok = ok] \in ClickState
         /\ [k EXCEPT !.at = "answered", !.ok = ok].op = k.op
         /\ [k EXCEPT !.at = "answered", !.ok = ok].at = "answered"
         /\ [k EXCEPT !.at = "answered", !.ok = ok].ok = ok
         /\ [k EXCEPT !.ok = FALSE] \in ClickState
         /\ [k EXCEPT !.ok = FALSE].op = k.op /\ [k EXCEPT !.ok = FALSE].at = k.at
         /\ ~[k EXCEPT !.ok = FALSE].ok
  BY DEF ClickState

LEMMA PageAnswered ==
  ASSUME NoDataIsNoStatus, PagesIInv, NEW c \in Two, AllPages!Answer(c)
  PROVE  PagesIInv'
<1> DEFINE op == click[c].op
           applies == orderStatus["order"] \in AllPages!Accepts(op)
           k == [click[c] EXCEPT !.at = "answered", !.ok = applies \/ op = "finish"]
<1>0. /\ click[c].at = "sent" /\ UNCHANGED <<entry, error, told>>
      /\ click' = [click EXCEPT ![c] = k]
      /\ IF applies THEN AllPages!Effect(op) ELSE UNCHANGED orderStatus
  BY DEF AllPages!Answer, AllPages!service, AllPages!browser, AllPages!Now
<1>1. click \in [Two -> ClickState] /\ click[c] \in ClickState /\ op \in AllPages!Op
  BY <1>0 DEF PagesIInv, PagesTyped, ClicksCarriedOut
<1>2. /\ k \in ClickState /\ k.op = op /\ k.at = "answered"
      /\ k.ok => applies \/ op = "finish"
  <2>1. CASE applies \/ op = "finish"
    <3>1. k = [click[c] EXCEPT !.at = "answered", !.ok = TRUE]
      BY <2>1
    <3> HIDE DEF k
    <3> QED
      BY <1>1, <2>1, <3>1, ClickAnswered
  <2>2. CASE ~(applies \/ op = "finish")
    <3>1. k = [click[c] EXCEPT !.at = "answered", !.ok = FALSE]
      BY <2>2
    <3> HIDE DEF k
    <3> QED
      BY <1>1, <2>2, <3>1, ClickAnswered
  <2> QED
    BY <2>1, <2>2
<1> HIDE DEF k
<1>3. /\ orderStatus' \in [{"order"} -> AllPages!Status]
      /\ Followed(orderStatus["order"], orderStatus'["order"])
      /\ applies /\ op \in Decisions => orderStatus'["order"] = OutcomeOf(op)
  <2>0. orderStatus \in [{"order"} -> AllPages!Status]
    BY DEF PagesIInv, PagesTyped
  <2>1. CASE applies
    <3>1. \/ op = "cancel" /\ AllPages!Service!Cancel("order")
          \/ op = "accept" /\ AllPages!Service!Decide("order") /\ orderStatus'["order"] = "preparing_order"
          \/ op = "reject" /\ AllPages!Service!Decide("order") /\ orderStatus'["order"] = "restaurant_rejected"
          \/ op = "finish" /\ AllPages!Service!MakeReady("order")
      BY <1>0, <1>1, <2>1 DEF AllPages!Effect, AllPages!Op
    <3>2. op = "cancel" => orderStatus'["order"] = "canceled"
      BY <2>0, <3>1 DEF AllPages!Service!Cancel, AllPages!Service!Move
    <3> QED
      BY <3>1, <3>2, LifecycleMoves DEF Decisions, OutcomeOf
  <2>2. CASE ~applies
    BY <1>0, <2>0, <2>2 DEF Followed
  <2> QED
    BY <2>1, <2>2
<1> HIDE DEF applies, op
<1>4. click' \in [Two -> ClickState] /\ \A d \in Two : click'[d] = IF d = c THEN k ELSE click[d]
  BY <1>0, <1>1, <1>2
<1>5. \A d \in Two :
        /\ click'[d].at # "idle" => click[d].at # "idle" /\ click'[d].op = click[d].op
        /\ click'[d].at = "answered" /\ click'[d].ok /\ click'[d].op \in Decisions
             => \/ click[d].at = "answered" /\ click[d].ok
                \/ orderStatus'["order"] = OutcomeOf(click'[d].op)
  BY <1>0, <1>2, <1>3, <1>4 DEF op, Decisions
<1> QED
  BY <1>0, <1>3, <1>4, <1>5, OrderMoves

LEMMA PageAnswerLost ==
  ASSUME NoDataIsNoStatus, PagesIInv, NEW c \in Two, AllPages!AnswerLost(c) \/ AllPages!CallFails(c)
  PROVE  PagesIInv'
<1> DEFINE k == [click[c] EXCEPT !.at = "answered", !.ok = FALSE]
<1>1. click \in [Two -> ClickState] /\ orderStatus \in [{"order"} -> AllPages!Status]
  BY DEF PagesIInv, PagesTyped
<1>0. /\ UNCHANGED <<orderStatus, entry, error, told>>
      /\ click' = [click EXCEPT ![c] = k] /\ click[c].at \in {"sent", "answered"}
  BY <1>1 DEF AllPages!AnswerLost, AllPages!CallFails, AllPages!service, AllPages!browser, ClickState
<1>2. k \in ClickState /\ k.op = click[c].op /\ k.at = "answered" /\ ~k.ok
  BY <1>0, <1>1, ClickAnswered
<1> HIDE DEF k
<1>3. click' \in [Two -> ClickState] /\ \A d \in Two : click'[d] = IF d = c THEN k ELSE click[d]
  BY <1>0, <1>1, <1>2
<1>4. \A d \in Two :
        /\ click'[d].at # "idle" => click[d].at # "idle" /\ click'[d].op = click[d].op
        /\ click'[d].at = "answered" /\ click'[d].ok /\ click'[d].op \in Decisions
             => \/ click[d].at = "answered" /\ click[d].ok
                \/ orderStatus'["order"] = OutcomeOf(click'[d].op)
  BY <1>0, <1>2, <1>3
<1>5. Followed(orderStatus["order"], orderStatus'["order"])
  BY <1>0 DEF Followed
<1> QED
  BY <1>0, <1>1, <1>3, <1>4, <1>5, OrderMoves

LEMMA ListsAreOpen == (Lists!Init => AllPages!Init) /\ (Lists!Next => AllPages!Next)
<1>1. Lists!Init => AllPages!Init
  BY DEF Lists!Init, Lists!Fresh, Lists!Page, Lists!Idle,
         AllPages!Init, AllPages!Fresh, AllPages!Page, AllPages!Idle
<1>2. \A p : Lists!Fetch(p) => AllPages!Fetch(p)
  BY DEF Lists!Fetch, Lists!Fetching, Lists!service,
         AllPages!Fetch, AllPages!Fetching, AllPages!service
<1>3. \A p : Lists!SelectTab(p) => AllPages!SelectTab(p)
  BY DEF Lists!SelectTab, Lists!Fetching, Lists!service,
         AllPages!SelectTab, AllPages!Fetching, AllPages!service
<1>4. \A p : Lists!GetOrder(p) => AllPages!GetOrder(p)
  BY DEF Lists!GetOrder, Lists!Served, Lists!Now, Lists!service,
         AllPages!GetOrder, AllPages!Served, AllPages!Now, AllPages!service
<1>5. \A p : Lists!Show(p) => AllPages!Show(p)
  BY DEF Lists!Show, Lists!Filled, Lists!service,
         AllPages!Show, AllPages!Filled, AllPages!service
<1>6. \A p : Lists!FetchFails(p) => AllPages!FetchFails(p)
  BY DEF Lists!FetchFails, Lists!Failed, Lists!service,
         AllPages!FetchFails, AllPages!Failed, AllPages!service
<1>7. Lists!Poll => AllPages!Poll
  BY DEF Lists!Poll, Lists!Shown, Lists!ShouldRefresh, Lists!Fetching, Lists!service,
         AllPages!Poll, AllPages!Shown, AllPages!ShouldRefresh, AllPages!Fetching, AllPages!service, AllOpen
<1>8. \A c : Lists!ClickCancel(c) => AllPages!ClickCancel(c)
  BY DEF Lists!ClickCancel, Lists!Shown, Lists!CanCancelOrder, Lists!Send, Lists!Idle, Lists!service,
         AllPages!ClickCancel, AllPages!Shown, AllPages!CanCancelOrder, AllPages!Send, AllPages!Idle, AllPages!service, AllOpen
<1>9. \A c : Lists!Answer(c) => AllPages!Answer(c)
  BY DEF Lists!Answer, Lists!Now, Lists!Accepts, Lists!Effect, Lists!browser, Lists!service, Lists!Service!Cancel, Lists!Service!Decide, Lists!Service!MakeReady, Lists!Service!Move,
         AllPages!Answer, AllPages!Now, AllPages!Accepts, AllPages!Effect, AllPages!browser, AllPages!service, AllPages!Service!Cancel, AllPages!Service!Decide, AllPages!Service!MakeReady, AllPages!Service!Move, AllOpen
<1>10. \A c : Lists!AnswerLost(c) => AllPages!AnswerLost(c)
  BY DEF Lists!AnswerLost, Lists!browser, Lists!service,
         AllPages!AnswerLost, AllPages!browser, AllPages!service, AllOpen
<1>10a. \A c : Lists!CallFails(c) => AllPages!CallFails(c)
  BY DEF Lists!CallFails, Lists!browser, Lists!service,
         AllPages!CallFails, AllPages!browser, AllPages!service
<1>11. \A c : Lists!Settle(c) => AllPages!Settle(c)
  BY DEF Lists!Settle, Lists!Idle, Lists!Page, Lists!Invalidates, Lists!Invalidated, Lists!Outcome, Lists!service,
         AllPages!Settle, AllPages!Idle, AllPages!Page, AllPages!Invalidates, AllPages!Invalidated, AllPages!Outcome, AllPages!service, AllOpen
<1>12. \A c, op : Lists!ClickDesk(c, op) => AllPages!ClickDesk(c, op)
  BY DEF Lists!ClickDesk, Lists!Shown, Lists!DeskEnabled, Lists!Send, Lists!Idle, Lists!service,
         AllPages!ClickDesk, AllPages!Shown, AllPages!DeskEnabled, AllPages!Send, AllPages!Idle, AllPages!service, AllOpen
<1>13. Lists!Elsewhere => AllPages!Elsewhere
  BY DEF Lists!Elsewhere, Lists!browser, Lists!Service!ReportPayment, Lists!Service!Decide, Lists!Service!Cancel, Lists!Service!MakeReady, Lists!Service!Assign, Lists!Service!Deliver, Lists!Service!Move,
         AllPages!Elsewhere, AllPages!browser, AllPages!Service!ReportPayment, AllPages!Service!Decide, AllPages!Service!Cancel, AllPages!Service!MakeReady, AllPages!Service!Assign, AllPages!Service!Deliver, AllPages!Service!Move
<1> QED
  BY <1>1, <1>2, <1>3, <1>4, <1>5, <1>6, <1>7, <1>8, <1>9, <1>10, <1>10a, <1>11, <1>12, <1>13 DEF Lists!Next, AllPages!Next, Lists!Op, AllPages!Op, AllOpen

LEMMA PageSettles ==
  ASSUME NoDataIsNoStatus, PagesIInv, NEW c \in Two, AllPages!Settle(c)
  PROVE  PagesIInv'
<1> DEFINE op == click[c].op
           target == PageOf(op)
           e == Cache!Invalidated(entry[target])
<1>0. /\ UNCHANGED <<orderStatus, error>> /\ click[c].at = "answered"
      /\ click' = [click EXCEPT ![c] = AllPages!Idle]
      /\ op \in AllPages!Op /\ target \in AllPages!Page /\ entry[target].data # NoData
  BY PagesFacts DEF AllPages!Settle, AllPages!service, PagesIInv, ClicksCarriedOut
<1>1. /\ click' \in [Two -> ClickState]
      /\ \A d \in Two : click'[d].at # "idle" => click'[d] = click[d]
  BY <1>0 DEF PagesIInv, PagesTyped, ClickState, AllPages!Idle
<1>2. CASE ~click[c].ok
  <2>1. UNCHANGED <<entry, told>>
    BY <1>2 DEF AllPages!Settle
  <2>2. PagesTyped' /\ EntriesBehind' /\ ToldSettled'
    BY <1>0, <1>1, <2>1 DEF PagesIInv, PagesTyped, EntriesBehind, ToldSettled
  <2>3. ClicksCarriedOut'
    BY <1>0, <1>1, <2>1 DEF PagesIInv, ClicksCarriedOut
  <2> QED
    BY <2>2, <2>3 DEF PagesIInv
<1>3. CASE click[c].ok
  <2>1. /\ told' = told \cup ({op} \cap Decisions)
        /\ entry' = [p \in AllPages!Page |-> IF p = target THEN e ELSE entry[p]]
    BY <1>3 DEF AllPages!Settle, AllPages!Invalidates, AllPages!Invalidated, Cache!Invalidated, PageOf,
             AllPages!Outcome, Decisions
  <2>2. e \in Cache!Entries(AllPages!Status) /\ e.data = entry[target].data /\ e.fetch = "sent"
    BY <1>0, PagesFacts, EntryInvalidated
  <2>3. op \in Decisions => Followed(OutcomeOf(op), orderStatus["order"])
    BY <1>0, <1>3 DEF PagesIInv, ClicksCarriedOut
  <2> HIDE DEF e, target, op
  <2>4. \A p \in AllPages!Page :
          /\ entry'[p].data = entry[p].data
          /\ p # target => entry'[p] = entry[p]
          /\ p = target => entry'[p].fetch = "sent"
    BY <2>1, <2>2
  <2>5. PagesTyped'
    BY <1>0, <1>1, <2>1, <2>2, PagesFacts DEF PagesIInv, PagesTyped
  <2>6. EntriesBehind'
    BY <1>0, <2>4 DEF PagesIInv, EntriesBehind
  <2>7. ClicksCarriedOut'
    BY <1>0, <1>1, <2>4, PagesFacts DEF PagesIInv, ClicksCarriedOut
  <2>8. ToldSettled'
    <3>1. target = PageOf(op)
      BY DEF target
    <3> QED
      BY <1>0, <2>1, <2>3, <2>4, <3>1, PagesFacts DEF PagesIInv, ToldSettled
  <2> QED
    BY <2>5, <2>6, <2>7, <2>8 DEF PagesIInv
<1> QED
  BY <1>2, <1>3

LEMMA StepPages == NoDataIsNoStatus /\ PagesIInv /\ [AllPages!Next]_orderPagesVars => PagesIInv'
<1> SUFFICES ASSUME NoDataIsNoStatus, PagesIInv, [AllPages!Next]_orderPagesVars PROVE PagesIInv'
  OBVIOUS
<1>1. CASE AllPages!Next
  <2>0. AllOpen = AllPages!Page
    BY DEF AllOpen, AllPages!Page
  <2>1. ASSUME NEW p \in AllOpen, AllPages!Fetch(p) \/ AllPages!SelectTab(p) PROVE PagesIInv'
    <3>1. /\ UNCHANGED <<orderStatus, click, told, error>>
          /\ entry' = [entry EXCEPT ![p] = Cache!Fetching(entry[p])]
      BY <2>1 DEF AllPages!Fetch, AllPages!SelectTab, AllPages!service, AllPages!Fetching, Cache!Fetching
    <3> QED
      BY <2>0, <3>1, PageFetches
  <2>2. ASSUME AllPages!Poll PROVE PagesIInv'
    <3>1. /\ UNCHANGED <<orderStatus, click, told, error>>
          /\ entry' = [entry EXCEPT !["tracking"] = Cache!Fetching(entry["tracking"])]
      BY <2>2 DEF AllPages!Poll, AllPages!service, AllPages!Fetching, Cache!Fetching
    <3>2. "tracking" \in AllPages!Page
      BY DEF AllPages!Page
    <3> QED
      BY <3>1, <3>2, PageFetches
  <2>3. ASSUME NEW p \in AllOpen, AllPages!GetOrder(p) PROVE PagesIInv'
    BY <2>0, <2>3, PageServed
  <2>4. ASSUME NEW p \in AllOpen, AllPages!Show(p) PROVE PagesIInv'
    BY <2>0, <2>4, PageShows
  <2>5. ASSUME NEW p \in AllOpen, AllPages!FetchFails(p) PROVE PagesIInv'
    BY <2>0, <2>5, PageFails
  <2>6. ASSUME NEW c \in Two, AllPages!ClickCancel(c) \/ \E op \in AllPages!Op : AllPages!ClickDesk(c, op)
        PROVE  PagesIInv'
    BY <2>6, PageClicked
  <2>7. ASSUME NEW c \in Two, AllPages!Answer(c) PROVE PagesIInv'
    BY <2>7, PageAnswered
  <2>8. ASSUME NEW c \in Two, AllPages!AnswerLost(c) \/ AllPages!CallFails(c) PROVE PagesIInv'
    BY <2>8, PageAnswerLost
  <2>9. ASSUME NEW c \in Two, AllPages!Settle(c) PROVE PagesIInv'
    BY <2>9, PageSettles
  <2>10. ASSUME AllPages!Elsewhere PROVE PagesIInv'
    BY <2>10, OrderMovesElsewhere
  <2> QED
    BY <1>1, <2>1, <2>2, <2>3, <2>4, <2>5, <2>6, <2>7, <2>8, <2>9, <2>10 DEF AllPages!Next
<1>2. CASE UNCHANGED orderPagesVars
  BY <1>2 DEF orderPagesVars, PagesIInv, PagesTyped, EntriesBehind, ClicksCarriedOut, ToldSettled
<1> QED
  BY <1>1, <1>2

LEMMA NothingIsNoStatus == NoDataIsNoStatus
BY NothingAssumption DEF NoDataIsNoStatus, AllPages!Status, Tracking!Status

LEMMA PagesInvariant == Spec => []PagesIInv
<1> USE NothingIsNoStatus
<1>1. Init => PagesIInv
  BY InitPages, TrackingAreOpen, ListsAreOpen DEF Init
<1>2. PagesIInv /\ [Next]_vars => PagesIInv'
  <2>1. Next => [AllPages!Next]_orderPagesVars
    BY TrackingAreOpen, ListsAreOpen DEF Next
  <2>2. [Next]_vars => [AllPages!Next]_orderPagesVars
    BY <2>1 DEF vars
  <2> QED
    BY <2>2, StepPages
<1> QED
  BY <1>1, <1>2, PTL DEF Spec

\* A step changes what a page shows only to an answer it waits for.
LEMMA ShownMoves ==
  ASSUME NoDataIsNoStatus, PagesIInv, [AllPages!Next]_orderPagesVars, NEW p \in AllPages!Page,
         entry'[p].data # entry[p].data
  PROVE  entry[p].fetch = "answered" /\ entry'[p].data = entry[p].answer
<1>0. AllOpen = AllPages!Page
  BY DEF AllOpen, AllPages!Page
<1>1. entry # entry'
  OBVIOUS
<1>2. AllPages!Next
  BY <1>1 DEF orderPagesVars
<1> USE PagesFacts DEF PagesIInv, PagesTyped
<1>3. ASSUME NEW q \in AllOpen, AllPages!Fetch(q) \/ AllPages!SelectTab(q)
      PROVE  FALSE
  <2>1. entry' = [entry EXCEPT ![q] = Cache!Fetching(entry[q])]
    BY <1>3 DEF AllPages!Fetch, AllPages!SelectTab, AllPages!Fetching, Cache!Fetching
  <2> QED
    BY <1>0, <2>1, EntryFetched
<1>4. ASSUME AllPages!Poll PROVE FALSE
  <2>1. entry' = [entry EXCEPT !["tracking"] = Cache!Fetching(entry["tracking"])]
    BY <1>4 DEF AllPages!Poll, AllPages!Fetching, Cache!Fetching
  <2>2. "tracking" \in AllPages!Page
    BY DEF AllPages!Page
  <2> QED
    BY <2>1, <2>2, EntryFetched
<1>5. ASSUME NEW q \in AllOpen, AllPages!GetOrder(q) PROVE FALSE
  <2>1. entry' = [entry EXCEPT ![q] = Cache!Served(entry[q], orderStatus["order"])]
    BY <1>5 DEF AllPages!GetOrder, AllPages!Served, Cache!Served, AllPages!Now
  <2> QED
    BY <1>0, <2>1, EntryServed
<1>6. ASSUME NEW q \in AllOpen, AllPages!Show(q)
      PROVE  entry[p].fetch = "answered" /\ entry'[p].data = entry[p].answer
  <2>1. entry' = [entry EXCEPT ![q] = Cache!Filled(entry[q])] /\ entry[q].fetch = "answered"
    BY <1>6 DEF AllPages!Show, AllPages!Filled, Cache!Filled
  <2> QED
    BY <1>0, <2>1, EntryFilled
<1>7. ASSUME NEW q \in AllOpen, AllPages!FetchFails(q) PROVE FALSE
  <2>1. entry' = [entry EXCEPT ![q] = Cache!Failed(entry[q])]
    BY <1>7 DEF AllPages!FetchFails, AllPages!Failed, Cache!Failed
  <2> QED
    BY <1>0, <2>1, EntryFailed
<1>8. ASSUME NEW c \in Two, AllPages!Settle(c) PROVE FALSE
  <2>1. entry'[p] = Cache!Invalidated(entry[p]) \/ entry'[p] = entry[p]
    BY <1>8 DEF AllPages!Settle, AllPages!Invalidated, Cache!Invalidated
  <2> QED
    BY <2>1, EntryInvalidated
<1>9. ASSUME \/ \E c \in Two : \/ AllPages!ClickCancel(c) \/ \E op \in AllPages!Op : AllPages!ClickDesk(c, op)
                               \/ AllPages!Answer(c) \/ AllPages!CallFails(c) \/ AllPages!AnswerLost(c)
             \/ AllPages!Elsewhere
      PROVE  FALSE
  BY <1>1, <1>9 DEF AllPages!ClickCancel, AllPages!ClickDesk, AllPages!Send, AllPages!Answer,
                    AllPages!CallFails, AllPages!AnswerLost, AllPages!Elsewhere, AllPages!browser
<1> QED
  BY <1>2, <1>3, <1>4, <1>5, <1>6, <1>7, <1>8, <1>9 DEF AllPages!Next

\* No page ever shows an order earlier than it has shown it before, and an order that
\* was seen among the past orders does not leave them again, however fetches,
\* intervals and clicks overlap with what happens to the order (web-ui Order,
\* OrderList; admin-ui OrderTable).
THEOREM PagesGoForward == Spec => ShownNeverGoesBack
<1> USE NothingIsNoStatus
<1>1. \A s, t : Tracking!After(s, t) <=> Followed(s, t)
  BY AfterIsFollowed DEF Tracking!After, AllPages!After, Tracking!Kitchen, AllPages!Kitchen
<1>2. [Next]_vars => [AllPages!Next]_orderPagesVars
  <2>1. Next => [AllPages!Next]_orderPagesVars
    BY TrackingAreOpen, ListsAreOpen DEF Next
  <2> QED
    BY <2>1 DEF vars
<1>3. ASSUME PagesIInv, [Next]_vars, NEW p \in AllPages!Page, entry[p].data # NoData
      PROVE  Followed(entry[p].data, entry'[p].data)
  <2>1. CASE entry'[p].data = entry[p].data
    BY <2>1 DEF Followed
  <2>2. CASE entry'[p].data # entry[p].data
    BY <1>2, <1>3, <2>2, ShownMoves DEF PagesIInv, EntriesBehind
  <2> QED
    BY <2>1, <2>2
<1>4. ASSUME PagesIInv, [Next]_vars, NEW p \in AllPages!Page, entry[p].data # NoData
      PROVE  entry'[p].data # NoData
  <2>1. CASE entry'[p].data = entry[p].data
    BY <1>4, <2>1
  <2>2. CASE entry'[p].data # entry[p].data
    BY <1>2, <1>4, <2>2, ShownMoves DEF PagesIInv, EntriesBehind, NoDataIsNoStatus
  <2> QED
    BY <2>1, <2>2
<1>5. PagesIInv /\ [Next]_vars
        => [\A p \in Tracking!Page : Tracking!Shown(p) # NoData
               => Tracking!After(Tracking!Shown(p), Tracking!Shown(p)')]_entry
  BY <1>1, <1>3 DEF Tracking!Shown, Tracking!Page, AllPages!Page
<1>6. PagesIInv /\ [Next]_vars
        => [("past" \in {"tracking", "past"} /\ Lists!Listed("past")) => Lists!Listed("past")']_entry
  <2> SUFFICES ASSUME PagesIInv, [Next]_vars, Lists!Listed("past") PROVE Lists!Listed("past")'
    OBVIOUS
  <2>1. "past" \in AllPages!Page /\ "past" # "active"
    BY DEF AllPages!Page
  <2>2. entry["past"].data # NoData /\ ~Lists!IsActiveOrder(entry["past"].data)
    BY <2>1 DEF Lists!Listed, Lists!Shown
  <2>3. Followed(entry["past"].data, entry'["past"].data) /\ entry'["past"].data # NoData
    BY <1>3, <1>4, <2>1, <2>2
  <2>4. entry["past"].data \in AllPages!Status
    BY <2>1, <2>2, PagesFacts DEF Cache!Entries
  <2>5. ~Lists!IsActiveOrder(entry'["past"].data)
    BY <2>2, <2>3, <2>4 DEF Lists!IsActiveOrder, Followed, AllPages!Status
  <2> QED
    BY <2>1, <2>3, <2>5 DEF Lists!Listed, Lists!Shown, Lists!IsActiveOrder
<1> QED
  BY <1>5, <1>6, PagesInvariant, PTL DEF Spec, ShownNeverGoesBack, Tracking!ShownNeverGoesBack,
                                        Lists!PastForGood

\* What a page reported about an order as done stays true, whoever else pressed a button
\* at the same moment, and the page shows it once it has loaded (web-ui Order; admin-ui
\* OrderTable).
LEMMA OrderTold ==
  ASSUME PagesIInv
  PROVE  Tracking!ToldHolds /\ Tracking!OwnDecisionShown
<1>1. \A s, t : Tracking!After(s, t) <=> Followed(s, t)
  BY AfterIsFollowed DEF Tracking!After, AllPages!After, Tracking!Kitchen, AllPages!Kitchen
<1>2. /\ DOMAIN Tracking!Outcome = Decisions
      /\ \A op \in Decisions : Tracking!Outcome[op] = OutcomeOf(op)
  BY DEF Tracking!Outcome, Decisions, OutcomeOf
<1>3. \A op \in told : Followed(OutcomeOf(op), orderStatus["order"])
  BY DEF PagesIInv, ToldSettled
<1>4. \A op \in told :
        entry[PageOf(op)].fetch = "idle" /\ PageOf(op) \notin error
          => Followed(OutcomeOf(op), entry[PageOf(op)].data)
  BY DEF PagesIInv, ToldSettled
<1>5. Tracking!ToldHolds
  BY <1>1, <1>2, <1>3 DEF Tracking!ToldHolds, Tracking!Now, PagesIInv, PagesTyped
<1>6. Tracking!OwnDecisionShown
  BY <1>1, <1>2, <1>4 DEF Tracking!OwnDecisionShown, Tracking!Shown, PageOf, PagesIInv, PagesTyped
<1> QED
  BY <1>5, <1>6

-----------------------------------------------------------------------------
(* The dashboard of a driver (DriverDashboard.tla).                        *)

\* The states of the driver's deliveries, as an answer gives them.
DeliveryState == {"absent", "unclaimed", "waiting", "delivering", "done"}
OwnList == [{"delivery"} -> DeliveryState \cup {"none"}]
NoDataIsNoList == NoData \notin OwnList

PressState ==
  [op : OwnTabs!Op \cup {None}, d : {"delivery", None}, w : {"driver", None},
   at : {"idle", "sent", "answered"}, ok : BOOLEAN]

DashboardTyped ==
  /\ deliveries \in [{"delivery"} -> [state : DeliveryState, order : {"order", NoOrder},
                                      driver : {"driver", NoDriver}]]
  /\ mine \in [{"driver"} -> Cache!Entries(OwnList)]
  /\ press \in [Two -> PressState]
  /\ seen \subseteq {"delivery"} \X {"driver"}

\* The driver w has picked d up.
PickedUp(d, w) == deliveries[d].driver = w /\ deliveries[d].state \in {"delivering", "done"}

\* The answer to a fetch of the own deliveries is a list.
AnswersAreLists == \A w \in {"driver"} : mine[w].fetch = "answered" => mine[w].answer \in OwnList

\* A delivery is picked up from the list, by the calls that were carried out.
PressesCarriedOut ==
  \A c \in Two :
    /\ press[c].at # "idle" => press[c].d \in {"delivery"} /\ press[c].w \in {"driver"}
    /\ press[c].at # "idle" /\ press[c].op = "pickup" => mine[press[c].w].data # NoData
    /\ press[c].at = "answered" /\ press[c].ok /\ press[c].op = "pickup"
         => PickedUp(press[c].d, press[c].w)

\* A pickup that was reported in front of the list: the list no longer waits for an
\* older answer, and shows nothing older unless its latest fetch failed.
SeenSettled ==
  \A d \in {"delivery"}, w \in {"driver"} : <<d, w>> \in seen =>
    /\ PickedUp(d, w)
    /\ mine[w].data # NoData
    /\ mine[w].fetch = "answered" => mine[w].answer[d] \in {"delivering", "done"}
    /\ mine[w].fetch = "idle" /\ w \notin mineFailed => mine[w].data[d] \in {"delivering", "done"}

\* The inductive invariant.
DashboardIInv == DashboardTyped /\ AnswersAreLists /\ PressesCarriedOut /\ SeenSettled

LEMMA InitDashboard == NoDataIsNoList /\ OwnTabs!Init => DashboardIInv
<1> SUFFICES ASSUME NoDataIsNoList, OwnTabs!Init PROVE DashboardIInv
  OBVIOUS
<1> USE DEF OwnTabs!Init, OwnTabs!Service!Init, OwnTabs!Fresh, OwnTabs!Idle
<1>1. DashboardTyped
  BY DEF DashboardTyped, DeliveryState, Cache!Entries, PressState
<1>2. AnswersAreLists /\ PressesCarriedOut /\ SeenSettled
  BY DEF AnswersAreLists, PressesCarriedOut, SeenSettled
<1> QED
  BY <1>1, <1>2 DEF DashboardIInv

LEMMA DashboardFacts ==
  ASSUME DashboardIInv
  PROVE  /\ \A w \in {"driver"} : mine[w] \in Cache!Entries(OwnList)
         /\ \A c \in Two : press[c] \in PressState
         /\ press \in [Two -> PressState]
  BY DEF DashboardIInv, DashboardTyped

\* A fetch of the list begins, begins anew, or is under way already; the list shown stays.
LEMMA DashboardFetches ==
  ASSUME NoDataIsNoList, DashboardIInv, UNCHANGED <<deliveries, press, seen, mineFailed>>,
         NEW w \in {"driver"}, mine' = [mine EXCEPT ![w] = Cache!Fetching(mine[w])]
  PROVE  DashboardIInv'
<1>1. /\ Cache!Fetching(mine[w]) \in Cache!Entries(OwnList)
      /\ Cache!Fetching(mine[w]).data = mine[w].data /\ Cache!Fetching(mine[w]).answer = mine[w].answer
      /\ Cache!Fetching(mine[w]).fetch = IF mine[w].fetch = "idle" THEN "sent" ELSE mine[w].fetch
  BY DashboardFacts, EntryFetched
<1>2. DashboardTyped'
  BY <1>1 DEF DashboardIInv, DashboardTyped
<1>3. \A v \in {"driver"} :
        /\ mine'[v].data = mine[v].data /\ mine'[v].answer = mine[v].answer
        /\ mine'[v].fetch = mine[v].fetch \/ mine'[v].fetch = "sent"
  BY <1>1 DEF DashboardIInv, DashboardTyped
<1>4. AnswersAreLists' /\ PressesCarriedOut'
  BY <1>3 DEF DashboardIInv, AnswersAreLists, PressesCarriedOut, PickedUp
<1>5. SeenSettled'
  BY <1>3 DEF DashboardIInv, SeenSettled, PickedUp
<1> QED
  BY <1>2, <1>4, <1>5 DEF DashboardIInv

LEMMA DashboardServed ==
  ASSUME NoDataIsNoList, DashboardIInv, NEW w \in {"driver"}, OwnTabs!GetMyDeliveries(w)
  PROVE  DashboardIInv'
<1> DEFINE e == Cache!Served(mine[w], OwnTabs!Own(w))
<1>0. UNCHANGED <<deliveries, press, seen, mineFailed>> /\ mine' = [mine EXCEPT ![w] = e]
  BY DEF OwnTabs!GetMyDeliveries, OwnTabs!Served, Cache!Served
<1>1. /\ OwnTabs!Own(w) \in OwnList
      /\ \A d \in {"delivery"} : PickedUp(d, w) => OwnTabs!Own(w)[d] \in {"delivering", "done"}
  BY DEF OwnTabs!Own, OwnList, DashboardIInv, DashboardTyped, PickedUp
<1>2. /\ e \in Cache!Entries(OwnList)
      /\ e.data = mine[w].data /\ e.answer = OwnTabs!Own(w) /\ e.fetch = "answered"
  BY <1>1, DashboardFacts, EntryServed
<1> HIDE DEF e
<1>3. DashboardTyped'
  BY <1>0, <1>2 DEF DashboardIInv, DashboardTyped
<1>4. \A v \in {"driver"} : mine'[v] = IF v = w THEN e ELSE mine[v]
  BY <1>0 DEF DashboardIInv, DashboardTyped
<1>5. AnswersAreLists' /\ PressesCarriedOut'
  BY <1>0, <1>1, <1>2, <1>4 DEF DashboardIInv, AnswersAreLists, PressesCarriedOut, PickedUp
<1>6. SeenSettled'
  BY <1>0, <1>1, <1>2, <1>4 DEF DashboardIInv, SeenSettled, PickedUp
<1> QED
  BY <1>3, <1>5, <1>6 DEF DashboardIInv

LEMMA DashboardShows ==
  ASSUME NoDataIsNoList, DashboardIInv, NEW w \in {"driver"}, OwnTabs!ShowMine(w)
  PROVE  DashboardIInv'
<1>0. UNCHANGED <<deliveries, press, seen>>
  BY DEF OwnTabs!ShowMine
<1>1. CASE /\ mine[w].fetch = "answered" /\ mine' = [mine EXCEPT ![w] = Cache!Filled(mine[w])]
           /\ mineFailed' = mineFailed \ {w}
  <2>1. /\ Cache!Filled(mine[w]) \in Cache!Entries(OwnList)
        /\ Cache!Filled(mine[w]).data = mine[w].answer /\ Cache!Filled(mine[w]).fetch = "idle"
    BY DashboardFacts, EntryFilled
  <2>2. mine[w].answer # NoData
    BY <1>1 DEF DashboardIInv, AnswersAreLists, NoDataIsNoList
  <2>3. DashboardTyped'
    BY <1>0, <1>1, <2>1 DEF DashboardIInv, DashboardTyped
  <2>4. \A v \in {"driver"} : mine'[v] = IF v = w THEN Cache!Filled(mine[w]) ELSE mine[v]
    BY <1>1 DEF DashboardIInv, DashboardTyped
  <2>5. AnswersAreLists' /\ PressesCarriedOut'
    BY <1>0, <2>1, <2>2, <2>4 DEF DashboardIInv, AnswersAreLists, PressesCarriedOut, PickedUp
  <2>6. SeenSettled'
    BY <1>0, <1>1, <2>1, <2>2, <2>4 DEF DashboardIInv, SeenSettled, PickedUp
  <2> QED
    BY <2>3, <2>5, <2>6 DEF DashboardIInv
<1>2. CASE mine' = [mine EXCEPT ![w] = Cache!Failed(mine[w])] /\ mineFailed' = mineFailed \cup {w}
  <2>1. /\ Cache!Failed(mine[w]) \in Cache!Entries(OwnList)
        /\ Cache!Failed(mine[w]).data = mine[w].data /\ Cache!Failed(mine[w]).fetch = "idle"
    BY DashboardFacts, EntryFailed
  <2>2. DashboardTyped'
    BY <1>0, <1>2, <2>1 DEF DashboardIInv, DashboardTyped
  <2>3. \A v \in {"driver"} : mine'[v] = IF v = w THEN Cache!Failed(mine[w]) ELSE mine[v]
    BY <1>2 DEF DashboardIInv, DashboardTyped
  <2>4. AnswersAreLists' /\ PressesCarriedOut'
    BY <1>0, <2>1, <2>3 DEF DashboardIInv, AnswersAreLists, PressesCarriedOut, PickedUp
  <2>5. SeenSettled'
    BY <1>0, <1>2, <2>1, <2>3 DEF DashboardIInv, SeenSettled, PickedUp
  <2> QED
    BY <2>2, <2>4, <2>5 DEF DashboardIInv
<1> QED
  BY <1>1, <1>2 DEF OwnTabs!ShowMine, OwnTabs!Filled, OwnTabs!Failed, Cache!Filled, Cache!Failed

LEMMA DashboardClicked ==
  ASSUME NoDataIsNoList, DashboardIInv, NEW c \in Two, NEW w \in {"driver"}, NEW d \in {"delivery"},
         OwnTabs!ClickClaim(c, w, d) \/ OwnTabs!ClickActive(c, w, d)
  PROVE  DashboardIInv'
<1>1. PICK op \in OwnTabs!Op :
        OwnTabs!Click(c, w, op, d) /\ (op = "pickup" => mine[w].data # NoData)
  <2>1. ASSUME OwnTabs!ClickClaim(c, w, d)
        PROVE  "claim" \in OwnTabs!Op /\ OwnTabs!Click(c, w, "claim", d)
    BY <2>1 DEF OwnTabs!ClickClaim, OwnTabs!Op
  <2>2. ASSUME OwnTabs!ClickActive(c, w, d)
        PROVE  /\ OwnTabs!Click(c, w, "pickup", d) \/ OwnTabs!Click(c, w, "complete", d)
               /\ mine[w].data # NoData
    BY <2>2 DEF OwnTabs!ClickActive, OwnTabs!Active, OwnTabs!InState
  <2> QED
    BY <2>1, <2>2 DEF OwnTabs!Op
<1> DEFINE k == [op |-> op, d |-> d, w |-> w, at |-> "sent", ok |-> FALSE]
<1>2. UNCHANGED <<deliveries, mine, mineFailed, seen>> /\ press' = [press EXCEPT ![c] = k]
  BY <1>1 DEF OwnTabs!Click
<1>3. k \in PressState /\ k.op = op /\ k.at = "sent" /\ k.w = w /\ k.d = d
  BY DEF PressState
<1> HIDE DEF k
<1>4. DashboardTyped'
  BY <1>2, <1>3 DEF DashboardIInv, DashboardTyped
<1>5. PressesCarriedOut'
  BY <1>1, <1>2, <1>3 DEF DashboardIInv, DashboardTyped, PressesCarriedOut, PickedUp
<1>6. AnswersAreLists' /\ SeenSettled'
  BY <1>2 DEF DashboardIInv, AnswersAreLists, SeenSettled, PickedUp
<1> QED
  BY <1>4, <1>5, <1>6 DEF DashboardIInv

\* The collection changes so that what was picked up stays picked up, and a call is
\* answered at most by what it did.
LEMMA DeliveriesMove ==
  ASSUME NoDataIsNoList, DashboardIInv, UNCHANGED <<mine, mineFailed, seen>>,
         deliveries' \in [{"delivery"} -> [state : DeliveryState, order : {"order", NoOrder},
                                           driver : {"driver", NoDriver}]],
         \A d \in {"delivery"}, w \in {"driver"} :
           PickedUp(d, w) => deliveries'[d].driver = w /\ deliveries'[d].state \in {"delivering", "done"},
         press' \in [Two -> PressState],
         \A c \in Two :
           /\ press'[c].at # "idle" => press[c].at # "idle" /\ press'[c].op = press[c].op
                                         /\ press'[c].d = press[c].d /\ press'[c].w = press[c].w
           /\ press'[c].at = "answered" /\ press'[c].ok /\ press'[c].op = "pickup"
                => \/ press[c].at = "answered" /\ press[c].ok
                   \/ /\ deliveries'[press'[c].d].driver = press'[c].w
                      /\ deliveries'[press'[c].d].state \in {"delivering", "done"}
  PROVE  DashboardIInv'
<1>1. DashboardTyped' /\ AnswersAreLists'
  BY DEF DashboardIInv, DashboardTyped, AnswersAreLists
<1>2. PressesCarriedOut'
  BY DEF DashboardIInv, PressesCarriedOut, PickedUp
<1>3. SeenSettled'
  BY DEF DashboardIInv, SeenSettled, PickedUp
<1> QED
  BY <1>1, <1>2, <1>3 DEF DashboardIInv

LEMMA PressAnswered ==
  ASSUME NEW k \in PressState, NEW ok \in BOOLEAN
  PROVE  LET a == [k EXCEPT !.at = "answered", !.ok = ok]
             l == [k EXCEPT !.ok = ok]
         IN  /\ a \in PressState /\ a.op = k.op /\ a.d = k.d /\ a.w = k.w /\ a.at = "answered" /\ a.ok = ok
             /\ l \in PressState /\ l.op = k.op /\ l.d = k.d /\ l.w = k.w /\ l.at = k.at /\ l.ok = ok
  BY DEF PressState

LEMMA DashboardAnswered ==
  ASSUME NoDataIsNoList, DashboardIInv, NEW c \in Two, OwnTabs!Answer(c)
  PROVE  DashboardIInv'
<1> DEFINE d == press[c].d
           w == press[c].w
           op == press[c].op
           ok == OwnTabs!Accepts(op, d, w)
           k == [press[c] EXCEPT !.at = "answered", !.ok = ok]
<1>0. /\ UNCHANGED <<mine, mineFailed, seen>> /\ press[c].at = "sent"
      /\ press' = [press EXCEPT ![c] = k]
      /\ \/ op = "claim" /\ OwnTabs!Service!ClaimDelivery(d, w)
         \/ op = "pickup" /\ OwnTabs!Service!DeliveryPickup(d, w)
         \/ op = "complete" /\ OwnTabs!Service!DeliveryComplete(d, w)
         \/ ~ok /\ UNCHANGED deliveries
  BY DEF OwnTabs!Answer
<1>1. press[c] \in PressState /\ d = "delivery" /\ w = "driver"
  BY <1>0, DashboardFacts DEF DashboardIInv, PressesCarriedOut
<1>2. /\ k \in PressState /\ k.op = op /\ k.d = d /\ k.w = w /\ k.at = "answered" /\ (k.ok => ok)
  <2>1. CASE ok
    <3>1. k = [press[c] EXCEPT !.at = "answered", !.ok = TRUE]
      BY <2>1
    <3> HIDE DEF k
    <3> QED
      BY <1>1, <2>1, <3>1, PressAnswered
  <2>2. CASE ~ok
    <3>1. k = [press[c] EXCEPT !.at = "answered", !.ok = FALSE]
      BY <2>2 DEF OwnTabs!Accepts
    <3> HIDE DEF k
    <3> QED
      BY <1>1, <2>2, <3>1, PressAnswered
  <2> QED
    BY <2>1, <2>2
<1> HIDE DEF k
<1>3. /\ deliveries' \in [{"delivery"} -> [state : DeliveryState, order : {"order", NoOrder},
                                           driver : {"driver", NoDriver}]]
      /\ PickedUp("delivery", "driver")
           => deliveries'["delivery"].driver = "driver" /\ deliveries'["delivery"].state \in {"delivering", "done"}
      /\ op = "pickup" /\ ok
           => deliveries'["delivery"].driver = "driver" /\ deliveries'["delivery"].state \in {"delivering", "done"}
  <2>0. deliveries \in [{"delivery"} -> [state : DeliveryState, order : {"order", NoOrder},
                                         driver : {"driver", NoDriver}]]
    BY DEF DashboardIInv, DashboardTyped
  <2>1. CASE op = "claim" /\ OwnTabs!Service!ClaimDelivery(d, w)
    BY <1>1, <2>0, <2>1 DEF OwnTabs!Service!ClaimDelivery, PickedUp, DeliveryState
  <2>2. CASE op = "pickup" /\ OwnTabs!Service!DeliveryPickup(d, w)
    BY <1>1, <2>0, <2>2 DEF OwnTabs!Service!DeliveryPickup, PickedUp, DeliveryState
  <2>3. CASE op = "complete" /\ OwnTabs!Service!DeliveryComplete(d, w)
    BY <1>1, <2>0, <2>3 DEF OwnTabs!Service!DeliveryComplete, PickedUp, DeliveryState
  <2>4. CASE ~ok /\ UNCHANGED deliveries
    BY <2>0, <2>4 DEF PickedUp
  <2> QED
    BY <1>0, <2>1, <2>2, <2>3, <2>4
<1> HIDE DEF ok
<1>4. press' \in [Two -> PressState] /\ \A b \in Two : press'[b] = IF b = c THEN k ELSE press[b]
  BY <1>0, <1>2, DashboardFacts
<1>5. \A b \in Two :
        /\ press'[b].at # "idle" => press[b].at # "idle" /\ press'[b].op = press[b].op
                                      /\ press'[b].d = press[b].d /\ press'[b].w = press[b].w
        /\ press'[b].at = "answered" /\ press'[b].ok /\ press'[b].op = "pickup"
             => \/ press[b].at = "answered" /\ press[b].ok
                \/ /\ deliveries'[press'[b].d].driver = press'[b].w
                   /\ deliveries'[press'[b].d].state \in {"delivering", "done"}
  BY <1>0, <1>1, <1>2, <1>3, <1>4
<1> QED
  BY <1>0, <1>3, <1>4, <1>5, DeliveriesMove

LEMMA DashboardAnswerLost ==
  ASSUME NoDataIsNoList, DashboardIInv, NEW c \in Two, OwnTabs!AnswerLost(c)
  PROVE  DashboardIInv'
<1> DEFINE k == [press[c] EXCEPT !.ok = FALSE]
<1>0. /\ UNCHANGED <<deliveries, mine, mineFailed, seen>>
      /\ press' = [press EXCEPT ![c] = k] /\ press[c].at = "answered"
  BY DEF OwnTabs!AnswerLost
<1>1. k \in PressState /\ k.op = press[c].op /\ k.d = press[c].d /\ k.w = press[c].w
      /\ k.at = press[c].at /\ ~k.ok
  BY DashboardFacts, PressAnswered
<1> HIDE DEF k
<1>2. press' \in [Two -> PressState] /\ \A b \in Two : press'[b] = IF b = c THEN k ELSE press[b]
  BY <1>0, <1>1, DashboardFacts
<1>3. DashboardTyped' /\ AnswersAreLists'
  BY <1>0, <1>2 DEF DashboardIInv, DashboardTyped, AnswersAreLists
<1>4. PressesCarriedOut' /\ SeenSettled'
  BY <1>0, <1>1, <1>2 DEF DashboardIInv, PressesCarriedOut, SeenSettled, PickedUp
<1> QED
  BY <1>3, <1>4 DEF DashboardIInv

LEMMA DashboardSettles ==
  ASSUME NoDataIsNoList, DashboardIInv, NEW c \in Two, OwnTabs!Settle(c)
  PROVE  DashboardIInv'
<1> DEFINE d == press[c].d
           w == press[c].w
           op == press[c].op
           e == Cache!Invalidated(mine[w])
<1>0. /\ UNCHANGED <<deliveries, mineFailed>> /\ press[c].at = "answered"
      /\ press' = [press EXCEPT ![c] = OwnTabs!Idle]
      /\ d = "delivery" /\ w = "driver"
  BY DEF OwnTabs!Settle, DashboardIInv, PressesCarriedOut
<1>1. /\ press' \in [Two -> PressState]
      /\ \A b \in Two : press'[b].at # "idle" => press'[b] = press[b]
  BY <1>0, DashboardFacts DEF PressState, OwnTabs!Idle
<1>2. CASE UNCHANGED <<mine, seen>>
  <2>1. DashboardTyped' /\ AnswersAreLists' /\ SeenSettled'
    BY <1>0, <1>1, <1>2 DEF DashboardIInv, DashboardTyped, AnswersAreLists, SeenSettled, PickedUp
  <2>2. PressesCarriedOut'
    BY <1>0, <1>1, <1>2 DEF DashboardIInv, PressesCarriedOut, PickedUp
  <2> QED
    BY <2>1, <2>2 DEF DashboardIInv
<1>3. CASE /\ press[c].ok /\ mine' = [mine EXCEPT ![w] = e]
           /\ seen' = IF op = "pickup" THEN seen \cup {<<d, w>>} ELSE seen
  <2>1. /\ e \in Cache!Entries(OwnList) /\ e.data = mine[w].data
        /\ \/ e.fetch = "sent"
           \/ mine[w].data = NoData /\ e = mine[w]
    BY <1>0, DashboardFacts, EntryInvalidated
  <2>2. op = "pickup" => PickedUp(d, w) /\ mine[w].data # NoData
    BY <1>0, <1>3 DEF DashboardIInv, PressesCarriedOut
  <2> HIDE DEF e
  <2>3. mine["driver"] \in Cache!Entries(OwnList) /\ mine' = [mine EXCEPT !["driver"] = e]
    BY <1>0, <1>3, DashboardFacts
  <2>4. mine'["driver"] = e
    BY <2>3 DEF DashboardIInv, DashboardTyped
  <2>5. DashboardTyped'
    BY <1>0, <1>1, <1>3, <2>1, <2>3 DEF DashboardIInv, DashboardTyped
  <2>6. AnswersAreLists'
    BY <1>0, <2>1, <2>4 DEF DashboardIInv, AnswersAreLists
  <2>7. PressesCarriedOut'
    BY <1>0, <1>1, <2>1, <2>4 DEF DashboardIInv, PressesCarriedOut, PickedUp
  <2>8. SeenSettled'
    <3> SUFFICES ASSUME <<"delivery", "driver">> \in seen'
                 PROVE  /\ PickedUp("delivery", "driver")
                        /\ e.data # NoData /\ e.fetch = "sent"
      BY <1>0, <2>4 DEF SeenSettled, PickedUp
    <3>1. <<"delivery", "driver">> \in seen \/ op = "pickup"
      BY <1>0, <1>3
    <3> QED
      BY <1>0, <2>1, <2>2, <3>1 DEF DashboardIInv, SeenSettled
  <2> QED
    BY <2>5, <2>6, <2>7, <2>8 DEF DashboardIInv
<1>4. \/ UNCHANGED <<mine, seen>>
      \/ /\ press[c].ok /\ mine' = [mine EXCEPT ![w] = e]
         /\ seen' = IF op = "pickup" THEN seen \cup {<<d, w>>} ELSE seen
  BY DEF OwnTabs!Settle, OwnTabs!Refreshed, OwnTabs!Invalidated, Cache!Invalidated
<1> QED
  BY <1>2, <1>3, <1>4

LEMMA StepDashboard == NoDataIsNoList /\ DashboardIInv /\ [OwnTabs!Next]_dashboardVars => DashboardIInv'
<1> SUFFICES ASSUME NoDataIsNoList, DashboardIInv, [OwnTabs!Next]_dashboardVars PROVE DashboardIInv'
  OBVIOUS
<1>1. CASE OwnTabs!Next
  <2>1. ASSUME NEW w \in {"driver"}, NEW t, OwnTabs!SetActiveTab(w, t) PROVE DashboardIInv'
    <3>1. /\ UNCHANGED <<deliveries, press, seen, mineFailed>>
          /\ mine' = [mine EXCEPT ![w] = Cache!Fetching(mine[w])] \/ mine' = mine
      BY <2>1 DEF OwnTabs!SetActiveTab, OwnTabs!Fetching, Cache!Fetching
    <3>2. CASE mine' = [mine EXCEPT ![w] = Cache!Fetching(mine[w])]
      BY <3>1, <3>2, DashboardFetches
    <3>3. CASE mine' = mine
      BY <3>1, <3>3 DEF DashboardIInv, DashboardTyped, AnswersAreLists, PressesCarriedOut, SeenSettled, PickedUp
    <3> QED
      BY <3>1, <3>2, <3>3
  <2>2. ASSUME NEW w \in {"driver"},
               OwnTabs!ToggleOnline(w) \/ OwnTabs!Poll(w) \/ OwnTabs!GetNearbyDeliveries(w) \/ OwnTabs!ShowNear(w)
        PROVE  DashboardIInv'
    <3>1. UNCHANGED <<deliveries, press, seen, mine, mineFailed>>
      BY <2>2 DEF OwnTabs!ToggleOnline, OwnTabs!Poll, OwnTabs!GetNearbyDeliveries, OwnTabs!ShowNear
    <3> QED
      BY <3>1 DEF DashboardIInv, DashboardTyped, AnswersAreLists, PressesCarriedOut, SeenSettled, PickedUp
  <2>3. ASSUME NEW w \in {"driver"}, OwnTabs!GetMyDeliveries(w) PROVE DashboardIInv'
    BY <2>3, DashboardServed
  <2>4. ASSUME NEW w \in {"driver"}, OwnTabs!ShowMine(w) PROVE DashboardIInv'
    BY <2>4, DashboardShows
  <2>5. ASSUME NEW w \in {"driver"}, NEW c \in Two, NEW d \in {"delivery"},
               OwnTabs!ClickClaim(c, w, d) \/ OwnTabs!ClickActive(c, w, d)
        PROVE  DashboardIInv'
    BY <2>5, DashboardClicked
  <2>6. ASSUME NEW c \in Two, OwnTabs!Answer(c) PROVE DashboardIInv'
    BY <2>6, DashboardAnswered
  <2>7. ASSUME NEW c \in Two, OwnTabs!AnswerLost(c) PROVE DashboardIInv'
    BY <2>7, DashboardAnswerLost
  <2>8. ASSUME NEW c \in Two, OwnTabs!Settle(c) PROVE DashboardIInv'
    BY <2>8, DashboardSettles
  <2>9. ASSUME NEW d \in {"delivery"}, NEW o \in {"order"}, OwnTabs!AddDelivery(d, o) PROVE DashboardIInv'
    <3>1. /\ UNCHANGED <<press, seen, mine, mineFailed>> /\ deliveries[d].state = "absent"
          /\ deliveries' = [deliveries EXCEPT ![d] = [state |-> "unclaimed", order |-> o, driver |-> NoDriver]]
      BY <2>9 DEF OwnTabs!AddDelivery, OwnTabs!Service!AddDelivery
    <3>2. /\ deliveries' \in [{"delivery"} -> [state : DeliveryState, order : {"order", NoOrder},
                                               driver : {"driver", NoDriver}]]
          /\ press' \in [Two -> PressState]
      BY <3>1 DEF DashboardIInv, DashboardTyped, DeliveryState
    <3>3. \A v \in {"driver"} : ~PickedUp(d, v)
      BY <3>1 DEF PickedUp
    <3> QED
      BY <3>1, <3>2, <3>3, DeliveriesMove
  <2> QED
    BY <1>1, <2>1, <2>2, <2>3, <2>4, <2>5, <2>6, <2>7, <2>8, <2>9 DEF OwnTabs!Next
<1>2. CASE UNCHANGED dashboardVars
  BY <1>2 DEF dashboardVars, DashboardIInv, DashboardTyped, AnswersAreLists, PressesCarriedOut, SeenSettled,
              PickedUp
<1> QED
  BY <1>1, <1>2

LEMMA NothingIsNoList == NoDataIsNoList
BY NothingAssumption, DeliveryState \cup {"none"}
     = {"absent", "unclaimed", "waiting", "delivering", "done", "none"}
   DEF NoDataIsNoList, OwnList, DeliveryState

LEMMA DashboardInvariant == Spec => []DashboardIInv
<1> USE NothingIsNoList
<1>1. Init => DashboardIInv
  BY InitDashboard DEF Init
<1>2. DashboardIInv /\ [Next]_vars => DashboardIInv'
  <2>1. Next => [OwnTabs!Next]_dashboardVars
    BY DEF Next
  <2>2. [Next]_vars => [OwnTabs!Next]_dashboardVars
    BY <2>1 DEF vars
  <2> QED
    BY <2>2, StepDashboard
<1> QED
  BY <1>1, <1>2, PTL DEF Spec

\* A pickup that was reported in front of the driver's list is in the list.
LEMMA PickupIsShown ==
  ASSUME DashboardIInv
  PROVE  OwnTabs!PickupShown
<1> SUFFICES ASSUME NEW p \in seen, mine[p[2]].fetch = "idle", p[2] \notin mineFailed
             PROVE  p[1] \in OwnTabs!InState(p[2], {"delivering", "done"})
  BY DEF OwnTabs!PickupShown
<1>1. p = <<"delivery", "driver">>
  BY DEF DashboardIInv, DashboardTyped
<1>2. mine["driver"].data # NoData /\ mine["driver"].data["delivery"] \in {"delivering", "done"}
  BY <1>1 DEF DashboardIInv, SeenSettled
<1> QED
  BY <1>1, <1>2 DEF OwnTabs!InState

-----------------------------------------------------------------------------
(* What pages told, in MCCustomers.                                        *)

\* What a page reported about an order as done stays true and is what the page shows
\* once it has loaded, and a pickup that was reported to a driver is in the driver's list
\* (web-ui Order and DriverPage; admin-ui OrderTable).
THEOREM ToldStays == Spec => []ToldHolds
<1>1. PagesIInv /\ DashboardIInv => ToldHolds
  BY OrderTold, PickupIsShown DEF ToldHolds
<1>2. (Spec => []PagesIInv) /\ (Spec => []DashboardIInv)
  BY PagesInvariant, DashboardInvariant
<1> QED
  BY <1>1, <1>2, PTL

-----------------------------------------------------------------------------
(* The cart and the checkout (CartPage.tla).                               *)

OneCart == [amount : [Slot -> Nat], coupon : Checkout!Coupons]
CartOrder == [items : OneCart, status : {"payment_pending", "canceled"}]
CartAnswer == OneCart \cup Nat \cup {None, DONE, FAILED}
CartCallState ==
  [tab : {"tab", None}, op : Checkout!Op \cup {None}, n : Nat,
   arg : Slot \cup Checkout!Coupons \cup {None},
   at : {"idle", "sent", "answered"}, answer : CartAnswer]

CallsTyped ==
  /\ cartCall \in [Two -> CartCallState]
  /\ \A c \in Two : cartCall[c].at = "idle" => cartCall[c] = Checkout!Idle
  /\ \A c \in Two : cartCall[c].at # "idle" => cartCall[c].tab = "tab"
  /\ \A c \in Two : cartCall[c].at # "idle" /\ cartCall[c].op \in {"edit", "remove"}
                    => cartCall[c].arg \in Slot
  /\ \A c \in Two : cartCall[c].at # "idle" /\ cartCall[c].op = "coupon"
                    => cartCall[c].arg \in Checkout!Coupons
  /\ \A c \in Two : cartCall[c].at = "answered" =>
       /\ cartCall[c].op \in {"add", "edit", "coupon"} => cartCall[c].answer \in OneCart \cup {FAILED}
       /\ cartCall[c].op = "order" => cartCall[c].answer \in Nat \cup {FAILED}
EntryTyped ==
  /\ cache \in [{"tab"} -> Checkout!Entries(OneCart)]
  /\ cache["tab"].fetch = "answered" => cache["tab"].answer \in OneCart
ServiceTyped ==
  /\ cart \in OneCart /\ used \subseteq Slot /\ orders \in Seq(CartOrder)
TabTyped ==
  /\ paying \in [{"tab"} -> 1..Len(orders) \cup {None}] /\ toldCanceled \subseteq 1..Len(orders)
  /\ disturbed \in [{"tab"} -> BOOLEAN]

\* An item that was ordered has left the cart, and no other order has it.
OrderedOnce ==
  /\ \A s \in Slot : cart.amount[s] # 0 => s \in used
  /\ \A i \in 1..Len(orders) : Checkout!Size(orders[i].items) > 0
  /\ \A i \in 1..Len(orders), s \in Slot :
       orders[i].items.amount[s] # 0 => s \in used /\ cart.amount[s] = 0
  /\ \A i, j \in 1..Len(orders), s \in Slot :
       i # j => orders[i].items.amount[s] = 0 \/ orders[j].items.amount[s] = 0

\* Call c asks for the payment of order i, or is about to.
PaysFor(c, i) ==
  \/ cartCall[c].at # "idle" /\ cartCall[c].op = "pay" /\ cartCall[c].n = i
  \/ cartCall[c].at = "answered" /\ cartCall[c].op = "order" /\ cartCall[c].answer = i

\* At most one call asks for the payment of an order, and not once it has gone to the
\* payment page or called the order canceled.
PaymentsSound ==
  /\ paying["tab"] \notin toldCanceled
  /\ \A c \in Two, i \in Nat : PaysFor(c, i) => i \in 1..Len(orders)
  /\ \A c \in Two, i \in Nat : PaysFor(c, i) => i \notin toldCanceled /\ i # paying["tab"]
  /\ \A c, d \in Two, i \in Nat : PaysFor(c, i) /\ PaysFor(d, i) => c = d

\* A call was answered that may have changed the cart, and the page does not know yet.
Changed(c) ==
  /\ cartCall[c].at = "answered" /\ cartCall[c].answer # FAILED
  /\ cartCall[c].op \in {"add", "edit", "coupon", "remove", "clear", "order"}

\* What the page shows, or the answer that it waits for, is the cart of the service.
EntryAgrees ==
  /\ cache["tab"].fetch = "idle" => cache["tab"].data \in {NoData, cart}
  /\ cache["tab"].fetch = "answered" => cache["tab"].answer = cart

\* Nothing was missed: there is one call at most, it knows the cart it was answered
\* with, and when the page does not agree with the service that call will tell it.
CallsInTurn ==
  ~disturbed["tab"] =>
    /\ \A c, d \in Two : cartCall[c].at # "idle" /\ cartCall[d].at # "idle" => c = d
    /\ \A c \in Two : cartCall[c].at # "idle" /\ cartCall[c].op \in {"remove", "clear", "order"}
                        => cache["tab"].data # NoData
    /\ \A c \in Two : Changed(c) /\ cartCall[c].op \in {"add", "edit", "coupon"}
                        => cartCall[c].answer = cart
    /\ EntryAgrees \/ \E c \in Two : Changed(c)

\* The inductive invariant.
CheckoutIInv ==
  /\ CallsTyped /\ EntryTyped /\ ServiceTyped /\ TabTyped
  /\ OrderedOnce /\ PaymentsSound /\ CallsInTurn

\* The service answers v to call c: the page misses a change of the cart when v is an error.
AnsweredWith(c, v) ==
  /\ Checkout!Answer(c, v)
  /\ UNCHANGED <<cache, paying, toldCanceled>>
  /\ disturbed' \in [{"tab"} -> BOOLEAN] /\ (disturbed["tab"] => disturbed'["tab"])
  /\ cart' # cart /\ v = FAILED => disturbed'["tab"]

\* What the order service has stays sound.
StaysSound == ServiceTyped' /\ OrderedOnce' /\ Len(orders) <= Len(orders')

Nothing == Checkout!Nothing

\* There is nothing in an empty cart: the sum is a recursive function, so a smallest set of
\* items with another sum is looked for.
LEMMA SizeOfNothing == Checkout!Size(Nothing) = 0
<1> DEFINE Rest(s) == s \ {CHOOSE x \in s : TRUE}
           Sums(f) == f = [s \in SUBSET Slot |->
                             IF s = {} THEN 0
                             ELSE LET x == CHOOSE y \in s : TRUE
                                  IN  Nothing.amount[x] + f[s \ {x}]]
           sum == CHOOSE f : Sums(f)
<1>1. Checkout!Size(Nothing) = sum[Slot]
  BY DEF Checkout!Size, Checkout!MapThenSumSet, Checkout!MapThenFoldSet
<1>2. Sums([s \in SUBSET Slot |-> 0])
  <2>1. \A s \in SUBSET Slot : s # {} => Rest(s) \in SUBSET Slot /\ (CHOOSE x \in s : TRUE) \in Slot
    OBVIOUS
  <2> QED
    BY <2>1 DEF Nothing, Checkout!Nothing, Checkout!EmptyCart
<1>3. Sums(sum)
  BY <1>2
<1>4. \A s \in SUBSET Slot : 
        sum[s] = IF s = {} THEN 0 ELSE Nothing.amount[CHOOSE x \in s : TRUE] + sum[Rest(s)]
  <2> HIDE DEF sum
  <2> QED
    BY <1>3
<1> DEFINE Wrong == {s \in SUBSET Slot : sum[s] # 0}
<1>5. IsWellFoundedOn(StrictSubsetOrdering(Slot), SUBSET Slot)
  BY SizesAssumption, FS_StrictSubsetOrderingWellFounded, FS_FiniteSubsetsOfFinite
<1>6. Wrong = {}
  <2> HIDE DEF sum
  <2> SUFFICES ASSUME Wrong # {} PROVE FALSE
    OBVIOUS
  <2>1. PICK s \in Wrong : \A r \in Wrong : <<r, s>> \notin StrictSubsetOrdering(Slot)
    <3> HIDE DEF Wrong
    <3>1. Wrong \subseteq SUBSET Slot
      BY DEF Wrong
    <3> QED
      BY <1>5, <3>1, WFMin
  <2>2. s # {}
    BY <1>4
  <2>3. (CHOOSE x \in s : TRUE) \in s
    BY <2>2
  <2>4. Rest(s) \in SUBSET Slot /\ <<Rest(s), s>> \in StrictSubsetOrdering(Slot)
    BY <2>3 DEF StrictSubsetOrdering
  <2>5. sum[Rest(s)] = 0
    BY <2>1, <2>4
  <2>6. Nothing.amount[CHOOSE x \in s : TRUE] = 0
    BY <2>3 DEF Nothing, Checkout!Nothing, Checkout!EmptyCart
  <2> QED
    BY <1>4, <2>2, <2>5, <2>6
<1> QED
  <2> HIDE DEF sum
  <2> QED
    BY <1>1, <1>6

LEMMA InitCheckout == Checkout!Init => CheckoutIInv
<1> SUFFICES ASSUME Checkout!Init PROVE CheckoutIInv
  OBVIOUS
<1>1. orders = << >> /\ orders \in Seq(CartOrder) /\ Len(orders) = 0
  BY DEF Checkout!Init
<1>2. CallsTyped
  BY DEF Checkout!Init, CallsTyped, CartCallState, CartAnswer, Checkout!Idle
<1>3. EntryTyped
  BY DEF Checkout!Init, EntryTyped, Checkout!Fresh, Checkout!Entries
<1>4. ServiceTyped
  BY <1>1 DEF Checkout!Init, ServiceTyped, OneCart, Checkout!Nothing, Checkout!EmptyCart, Checkout!Coupons
<1>5. TabTyped
  BY <1>1 DEF Checkout!Init, TabTyped
<1>6. OrderedOnce
  BY <1>1 DEF Checkout!Init, OrderedOnce, Checkout!Nothing, Checkout!EmptyCart
<1>7. PaymentsSound
  BY DEF Checkout!Init, PaymentsSound, PaysFor, Checkout!Idle
<1>8. CallsInTurn
  <2>1. \A c \in Two : cartCall[c].at = "idle"
    BY DEF Checkout!Init, Checkout!Idle
  <2>2. EntryAgrees
    BY DEF Checkout!Init, EntryAgrees, Checkout!Fresh
  <2> QED
    BY <2>1, <2>2 DEF CallsInTurn, Changed
<1> QED
  BY <1>2, <1>3, <1>4, <1>5, <1>6, <1>7, <1>8 DEF CheckoutIInv

\* The types, one variable at a time.
LEMMA CheckoutFacts ==
  ASSUME CheckoutIInv
  PROVE  /\ Len(orders) \in Nat
         /\ \A i \in toldCanceled : i \in Nat /\ i \in 1..Len(orders)
         /\ paying["tab"] \in 1..Len(orders) \cup {None}
         /\ None \notin toldCanceled
         /\ \A i \in Nat : i # None
         /\ \A c \in Two : cartCall[c] \in CartCallState
         /\ \A c \in Two : cartCall[c].at = "idle" <=> cartCall[c].tab # "tab"
         /\ cache["tab"] \in Checkout!Entries(OneCart)
<1>1. Len(orders) \in Nat
  BY DEF CheckoutIInv, ServiceTyped
<1>2. \A i \in 1..Len(orders) : i \in Nat
  BY <1>1
<1>3. \A i \in Nat : i # None
  BY NothingAssumption
<1>4. \A c \in Two : cartCall[c].at = "idle" <=> cartCall[c].tab # "tab"
  BY NothingAssumption DEF CheckoutIInv, CallsTyped, Checkout!Idle
<1> QED
  BY <1>1, <1>2, <1>3, <1>4 DEF CheckoutIInv, TabTyped, CallsTyped, EntryTyped

\* Nothing was missed, and no call has changed the cart: the page agrees.
LEMMA TurnsAgree ==
  ASSUME CheckoutIInv, ~disturbed["tab"], \A c \in Two : ~Changed(c)
  PROVE  EntryAgrees
BY DEF CheckoutIInv, CallsInTurn

\* The query of the cart.
LEMMA CartQueried ==
  ASSUME CheckoutIInv, \/ Checkout!FetchCart("tab") \/ Checkout!GetCart("tab")
                       \/ Checkout!ShowCart("tab") \/ Checkout!FetchFails("tab")
  PROVE  CheckoutIInv'
<1> DEFINE q == cache["tab"]
           r == cache'["tab"]
<1>0. EntryTyped /\ cart \in OneCart /\ q \in Checkout!Entries(OneCart)
  BY CheckoutFacts DEF CheckoutIInv, ServiceTyped
<1>1. UNCHANGED <<cart, used, orders, cartCall, paying, toldCanceled>>
  BY DEF Checkout!FetchCart, Checkout!GetCart, Checkout!ShowCart, Checkout!FetchFails, Checkout!service
<1>2. /\ cache' \in [{"tab"} -> Checkout!Entries(OneCart)]
      /\ \/ q.fetch = "idle" /\ r.fetch = "sent" /\ r.data = q.data
         \/ r.fetch = "answered" /\ r.answer = cart /\ r.data = q.data
         \/ q.fetch = "answered" /\ r.fetch = "idle" /\ r.data = q.answer
         \/ Checkout!FetchFails("tab") /\ r.fetch = "idle" /\ r.data = q.data
  <2>1. CASE Checkout!FetchCart("tab")
    <3>1. cache' = [cache EXCEPT !["tab"] = [q EXCEPT !.fetch = "sent"]] /\ q.fetch = "idle"
      BY <2>1 DEF Checkout!FetchCart, Checkout!Fetching
    <3>2. [q EXCEPT !.fetch = "sent"] \in Checkout!Entries(OneCart)
      BY <1>0 DEF Checkout!Entries
    <3> QED
      BY <3>1, <3>2, <1>0 DEF EntryTyped, Checkout!Entries
  <2>2. CASE Checkout!GetCart("tab")
    <3>1. cache' = [cache EXCEPT !["tab"] = [q EXCEPT !.fetch = "answered", !.answer = cart]]
      BY <2>2 DEF Checkout!GetCart, Checkout!Served
    <3>2. [q EXCEPT !.fetch = "answered", !.answer = cart] \in Checkout!Entries(OneCart)
      BY <1>0 DEF Checkout!Entries
    <3> QED
      BY <3>1, <3>2, <1>0 DEF EntryTyped, Checkout!Entries
  <2>3. CASE Checkout!ShowCart("tab")
    <3>1. /\ cache' = [cache EXCEPT !["tab"] = [data |-> q.answer, fetch |-> "idle", answer |-> NoData]]
          /\ q.fetch = "answered"
      BY <2>3 DEF Checkout!ShowCart, Checkout!Filled
    <3>2. [data |-> q.answer, fetch |-> "idle", answer |-> NoData] \in Checkout!Entries(OneCart)
      BY <1>0 DEF Checkout!Entries
    <3> QED
      BY <3>1, <3>2, <1>0 DEF EntryTyped
  <2>4. CASE Checkout!FetchFails("tab")
    <3>1. cache' = [cache EXCEPT !["tab"] = [q EXCEPT !.fetch = "idle", !.answer = NoData]]
      BY <2>4 DEF Checkout!FetchFails, Checkout!Failed
    <3>2. [q EXCEPT !.fetch = "idle", !.answer = NoData] \in Checkout!Entries(OneCart)
      BY <1>0 DEF Checkout!Entries
    <3> QED
      BY <2>4, <3>1, <3>2, <1>0 DEF EntryTyped, Checkout!Entries
  <2> QED
    BY <2>1, <2>2, <2>3, <2>4
<1>2a. /\ disturbed' \in [{"tab"} -> BOOLEAN]
       /\ \/ Checkout!FetchFails("tab") /\ disturbed'["tab"]
          \/ ~Checkout!FetchFails("tab") /\ disturbed' = disturbed
          \/ /\ r.fetch = "answered" /\ r.answer = cart
             /\ disturbed'["tab"] = (disturbed["tab"] /\ Checkout!Under("tab") # {})
  <2>1. disturbed \in [{"tab"} -> BOOLEAN]
    BY DEF CheckoutIInv, TabTyped
  <2>2. CASE Checkout!FetchFails("tab")
    BY <2>1, <2>2 DEF Checkout!FetchFails
  <2>3. CASE Checkout!GetCart("tab")
    <3>1. cache' = [cache EXCEPT !["tab"] = [q EXCEPT !.fetch = "answered", !.answer = cart]]
          /\ disturbed' = [disturbed EXCEPT !["tab"] = @ /\ Checkout!Under("tab") # {}]
      BY <2>3 DEF Checkout!GetCart, Checkout!Served
    <3>2. r.fetch = "answered" /\ r.answer = cart
      BY <3>1, <1>0 DEF EntryTyped, Checkout!Entries
    <3> QED
      BY <2>1, <3>1, <3>2
  <2>4. CASE ~Checkout!FetchFails("tab") /\ (Checkout!FetchCart("tab") \/ Checkout!ShowCart("tab"))
    BY <2>1, <2>4 DEF Checkout!FetchCart, Checkout!ShowCart
  <2> QED
    BY <2>2, <2>3, <2>4
<1> HIDE DEF q, r
<1>3. EntryTyped'
  <2>1. cache' \in [{"tab"} -> Checkout!Entries(OneCart)]
    BY <1>2
  <2>2. r.fetch = "answered" => r.answer \in OneCart
    BY <1>0, <1>2
  <2> QED
    BY <2>1, <2>2 DEF EntryTyped, r
<1>4. CallsTyped' /\ ServiceTyped' /\ TabTyped'
  BY <1>1, <1>2a DEF CheckoutIInv, CallsTyped, ServiceTyped, TabTyped
<1>5. OrderedOnce' /\ PaymentsSound'
  BY <1>1 DEF CheckoutIInv, OrderedOnce, PaymentsSound, PaysFor
<1>6. q.data # NoData => r.data # NoData
  BY <1>0, <1>2, NothingAssumption DEF EntryTyped, OneCart, q
<1>7. ~Checkout!FetchFails("tab") /\ EntryAgrees => EntryAgrees'
  <2>1. EntryAgrees <=> (q.fetch = "idle" => q.data \in {NoData, cart})
                        /\ (q.fetch = "answered" => q.answer = cart)
    BY DEF EntryAgrees, q
  <2>2. EntryAgrees' <=> (r.fetch = "idle" => r.data \in {NoData, cart})
                         /\ (r.fetch = "answered" => r.answer = cart)
    BY <1>1 DEF EntryAgrees, r
  <2> QED
    BY <1>2, <2>1, <2>2
<1>8. CallsInTurn'
  <2>1. CASE disturbed'["tab"]
    BY <2>1 DEF CallsInTurn
  <2>2. CASE (EntryAgrees => EntryAgrees') /\ (disturbed["tab"] => disturbed'["tab"])
    BY <1>1, <1>6, <2>1, <2>2 DEF CheckoutIInv, CallsInTurn, Changed, q, r
  <2>3. CASE r.fetch = "answered" /\ r.answer = cart /\ Checkout!Under("tab") = {}
    <3>1. \A c \in Two : cartCall'[c].at = "idle"
      BY <1>1, <2>3, CheckoutFacts DEF Checkout!Under
    <3>2. EntryAgrees'
      BY <1>1, <2>3 DEF EntryAgrees, r
    <3> QED
      BY <3>1, <3>2 DEF CallsInTurn, Changed
  <2>4. r.fetch = "answered" /\ r.answer = cart => EntryAgrees'
    BY <1>1 DEF EntryAgrees, r
  <2>5. CASE ~Checkout!FetchFails("tab") /\ disturbed' = disturbed
    BY <1>7, <2>2, <2>5
  <2>6. CASE /\ r.fetch = "answered" /\ r.answer = cart /\ Checkout!Under("tab") # {}
             /\ disturbed'["tab"] = (disturbed["tab"] /\ Checkout!Under("tab") # {})
    <3>1. disturbed["tab"] => disturbed'["tab"]
      BY <2>6
    <3> QED
      BY <2>2, <2>4, <2>6, <3>1
  <2> QED
    BY <1>2a, <2>1, <2>3, <2>5, <2>6
<1> QED
  BY <1>3, <1>4, <1>5, <1>8 DEF CheckoutIInv

\* The way back from the payment page.
LEMMA CameBack ==
  ASSUME CheckoutIInv, Checkout!ComeBack("tab")
  PROVE  CheckoutIInv'
<1>1. UNCHANGED <<cart, used, orders, cache, cartCall, toldCanceled, disturbed>>
  BY DEF Checkout!ComeBack, Checkout!service
<1>2. paying' = [paying EXCEPT !["tab"] = None]
  BY DEF Checkout!ComeBack
<1>3. CallsTyped' /\ EntryTyped' /\ ServiceTyped' /\ OrderedOnce'
  BY <1>1 DEF CheckoutIInv, CallsTyped, EntryTyped, ServiceTyped, OrderedOnce
<1>4. TabTyped' /\ (paying'["tab"] = paying["tab"] \/ paying'["tab"] = None)
  BY <1>1, <1>2 DEF CheckoutIInv, TabTyped
<1>5. PaymentsSound'
  BY <1>1, <1>4, CheckoutFacts DEF CheckoutIInv, PaymentsSound, PaysFor
<1>6. CallsInTurn'
  BY <1>1 DEF CheckoutIInv, CallsInTurn, Changed, EntryAgrees
<1> QED
  BY <1>3, <1>4, <1>5, <1>6 DEF CheckoutIInv

\* A call is sent, and if the tab has none under way, what it shows is not changed by it.
LEMMA CartCallSent ==
  ASSUME CheckoutIInv, NEW c \in Two, NEW op \in Checkout!Op \ {"pay", "cancel"},
         NEW s \in Slot \cup Checkout!Coupons \cup {None}, NEW n \in Nat, Checkout!Send("tab", c, op, s, n),
         op \in {"edit", "remove"} => s \in Slot, op = "coupon" => s \in Checkout!Coupons,
         op \in {"remove", "clear", "order"} => cache["tab"].data # NoData
  PROVE  CheckoutIInv'
<1> DEFINE new == [tab |-> "tab", op |-> op, arg |-> s, n |-> n, at |-> "sent", answer |-> None]
<1>1. /\ cartCall[c] = Checkout!Idle /\ cartCall' = [cartCall EXCEPT ![c] = new]
      /\ disturbed' = [disturbed EXCEPT !["tab"] = @ \/ Checkout!Under("tab") # {}]
      /\ UNCHANGED <<cart, used, orders, cache, paying, toldCanceled>>
  BY DEF Checkout!Send, Checkout!service
<1>2. new \in CartCallState
  BY DEF CartCallState, CartAnswer
<1>3. /\ cartCall' \in [Two -> CartCallState] /\ cartCall'[c] = new
      /\ \A d \in Two : d # c => cartCall'[d] = cartCall[d]
  BY <1>1, <1>2 DEF CheckoutIInv, CallsTyped
<1>4. CallsTyped'
  BY <1>3 DEF CheckoutIInv, CallsTyped
<1>5. EntryTyped' /\ ServiceTyped' /\ OrderedOnce'
  BY <1>1 DEF CheckoutIInv, EntryTyped, ServiceTyped, OrderedOnce
<1>6. TabTyped'
  BY <1>1 DEF CheckoutIInv, TabTyped
<1>7. \A d \in Two, i \in Nat : PaysFor(d, i)' => PaysFor(d, i)
  BY <1>3 DEF PaysFor
<1>8. PaymentsSound'
  BY <1>1, <1>7 DEF CheckoutIInv, PaymentsSound
<1>9. ~disturbed'["tab"] => ~disturbed["tab"] /\ \A d \in Two : cartCall[d].at = "idle"
  <2>1. ~disturbed'["tab"] => ~disturbed["tab"] /\ Checkout!Under("tab") = {}
    BY <1>1 DEF CheckoutIInv, TabTyped
  <2> QED
    BY <2>1, CheckoutFacts DEF Checkout!Under
<1>10. CallsInTurn'
  <2> SUFFICES ASSUME ~disturbed'["tab"] PROVE CallsInTurn'
    BY DEF CallsInTurn
  <2>1. \A d \in Two : d # c => cartCall'[d].at = "idle"
    BY <1>3, <1>9
  <2>2. EntryAgrees
    BY <1>9, TurnsAgree DEF Changed
  <2>3. EntryAgrees' /\ ~Changed(c)'
    BY <2>2, <1>1, <1>3 DEF EntryAgrees, Changed
  <2> QED
    BY <1>1, <1>3, <2>1, <2>3 DEF CallsInTurn, Changed
<1> QED
  BY <1>4, <1>5, <1>6, <1>8, <1>10 DEF CheckoutIInv

\* The clicks.
LEMMA CartClicked ==
  ASSUME CheckoutIInv, NEW c \in Two,
         \/ \E n \in Amount : Checkout!AddToCart("tab", c, n)
         \/ \E s \in Slot : Checkout!EditItem("tab", c, s) \/ Checkout!RemoveItem("tab", c, s)
         \/ Checkout!ClearCart("tab", c) \/ Checkout!PlaceOrder("tab", c)
         \/ \E v \in Checkout!Coupons : Checkout!Coupon("tab", c, v)
  PROVE  CheckoutIInv'
<1> DEFINE shown == Checkout!Shown("tab")
<1>1. shown \in OneCart
  BY CheckoutFacts DEF Checkout!Shown, Checkout!Entries, OneCart, Checkout!Nothing, Checkout!EmptyCart,
                       Checkout!Coupons
<1>2. cache["tab"].data = NoData => shown = Nothing
  BY DEF Checkout!Shown, Nothing
<1> HIDE DEF shown
<1>3. CASE \E n \in Amount : Checkout!AddToCart("tab", c, n)
  <2>1. PICK n \in Amount : Checkout!Send("tab", c, "add", None, n)
    BY <1>3 DEF Checkout!AddToCart
  <2>2. n \in Nat
    BY SizesAssumption
  <2> QED
    BY <2>1, <2>2, CartCallSent DEF Checkout!Op
<1>4. CASE \E s \in Slot : Checkout!EditItem("tab", c, s)
  <2>1. PICK s \in Slot : Checkout!EditItem("tab", c, s)
    BY <1>4
  <2>2. PICK n \in {shown.amount[s] + 1, shown.amount[s] - 1} :
           shown.amount[s] > 0 /\ Checkout!Send("tab", c, "edit", s, n)
    BY <2>1 DEF Checkout!EditItem, shown
  <2>3. shown.amount[s] \in Nat
    BY <1>1 DEF OneCart
  <2>4. n \in Nat
    BY <2>2, <2>3
  <2> QED
    BY <2>2, <2>4, CartCallSent DEF Checkout!Op
<1>5. CASE \E s \in Slot : Checkout!RemoveItem("tab", c, s)
  <2>1. PICK s \in Slot : shown.amount[s] > 0 /\ Checkout!Send("tab", c, "remove", s, 0)
    BY <1>5 DEF Checkout!RemoveItem, shown
  <2>2. cache["tab"].data # NoData
    BY <2>1, <1>2 DEF Nothing, Checkout!Nothing, Checkout!EmptyCart
  <2> QED
    BY <2>1, <2>2, CartCallSent DEF Checkout!Op
<1>6. CASE Checkout!ClearCart("tab", c)
  <2>1. Checkout!Size(shown) > 0 /\ Checkout!Send("tab", c, "clear", None, 0)
    BY <1>6 DEF Checkout!ClearCart, shown
  <2>2. cache["tab"].data # NoData
    BY <2>1, <1>2, SizeOfNothing
  <2> QED
    BY <2>1, <2>2, CartCallSent DEF Checkout!Op
<1>7. CASE Checkout!PlaceOrder("tab", c)
  <2>1. cache["tab"].data # NoData /\ Checkout!Send("tab", c, "order", None, 0)
    BY <1>7 DEF Checkout!PlaceOrder
  <2> QED
    BY <2>1, CartCallSent DEF Checkout!Op
<1>8. CASE \E v \in Checkout!Coupons : Checkout!Coupon("tab", c, v)
  <2>1. PICK v \in Checkout!Coupons : Checkout!Send("tab", c, "coupon", v, 0)
    BY <1>8 DEF Checkout!Coupon
  <2> QED
    BY <2>1, CartCallSent DEF Checkout!Op
<1> QED
  BY <1>3, <1>4, <1>5, <1>6, <1>7, <1>8

\* The services answer v to call c, and may have changed the cart and the orders.
LEMMA CartCallServed ==
  ASSUME CheckoutIInv, NEW c \in Two, cartCall[c].at = "sent",
         NEW v \in CartAnswer, AnsweredWith(c, v),
         cartCall[c].op \in {"add", "edit", "coupon"} => v \in OneCart \cup {FAILED},
         cartCall[c].op \in {"add", "edit", "coupon"} /\ v # FAILED => v = cart',
         cartCall[c].op = "order" =>
           v = FAILED \/ (v = Len(orders) + 1 /\ v = Len(orders')),
         cart' # cart => cartCall[c].op \in {"add", "edit", "coupon", "remove", "clear", "order"},
         StaysSound
  PROVE  CheckoutIInv'
<1> DEFINE k == cartCall[c]
           new == [k EXCEPT !.at = "answered", !.answer = v]
<1>0. k \in CartCallState /\ k.tab = "tab" /\ Len(orders) \in Nat
  BY CheckoutFacts
<1>1. /\ cartCall' = [cartCall EXCEPT ![c] = new]
      /\ UNCHANGED <<cache, paying, toldCanceled>>
      /\ ServiceTyped' /\ OrderedOnce' /\ Len(orders) <= Len(orders')
  BY DEF Checkout!Answer, AnsweredWith, StaysSound, CheckoutIInv, CallsTyped
<1>2. /\ new \in CartCallState /\ new.at = "answered" /\ new.op = k.op /\ new.tab = "tab"
      /\ new.arg = k.arg /\ new.n = k.n /\ new.answer = v
  BY <1>0 DEF CartCallState
<1> HIDE DEF new
<1>3. /\ cartCall' \in [Two -> CartCallState] /\ cartCall'[c] = new
      /\ \A d \in Two : d # c => cartCall'[d] = cartCall[d]
  BY <1>1, <1>2 DEF CheckoutIInv, CallsTyped
<1>4. CallsTyped'
  <2>1. \A d \in Two : cartCall'[d].at = "idle" => cartCall'[d] = Checkout!Idle
    BY <1>2, <1>3 DEF CheckoutIInv, CallsTyped
  <2>2. \A d \in Two : cartCall'[d].at # "idle" => cartCall'[d].tab = "tab"
    BY <1>2, <1>3 DEF CheckoutIInv, CallsTyped
  <2>3. \A d \in Two : cartCall'[d].at # "idle" /\ cartCall'[d].op \in {"edit", "remove"}
                        => cartCall'[d].arg \in Slot
    BY <1>2, <1>3 DEF CheckoutIInv, CallsTyped
  <2>3a. \A d \in Two : cartCall'[d].at # "idle" /\ cartCall'[d].op = "coupon"
                        => cartCall'[d].arg \in Checkout!Coupons
    BY <1>2, <1>3 DEF CheckoutIInv, CallsTyped
  <2>4. \A d \in Two : cartCall'[d].at = "answered" =>
          /\ cartCall'[d].op \in {"add", "edit", "coupon"} => cartCall'[d].answer \in OneCart \cup {FAILED}
          /\ cartCall'[d].op = "order" => cartCall'[d].answer \in Nat \cup {FAILED}
    BY <1>2, <1>3 DEF CheckoutIInv, CallsTyped
  <2> QED
    BY <1>3, <2>1, <2>2, <2>3, <2>3a, <2>4 DEF CallsTyped
<1>5. EntryTyped'
  BY <1>1 DEF CheckoutIInv, EntryTyped
<1>6. Len(orders') \in Nat /\ \A i \in 1..Len(orders) : i \in 1..Len(orders')
  BY <1>0, <1>1 DEF ServiceTyped
<1>7. TabTyped'
  BY <1>1, <1>6 DEF CheckoutIInv, TabTyped, AnsweredWith
<1>8. \A d \in Two, i \in Nat :
        PaysFor(d, i)' => PaysFor(d, i) \/ (d = c /\ i = Len(orders) + 1 /\ i = Len(orders'))
  <2> SUFFICES ASSUME NEW d \in Two, NEW i \in Nat, PaysFor(d, i)'
               PROVE  PaysFor(d, i) \/ (d = c /\ i = Len(orders) + 1 /\ i = Len(orders'))
    OBVIOUS
  <2>1. CASE d # c
    BY <2>1, <1>3 DEF PaysFor
  <2>2. CASE d = c
    <3>1. (k.op = "pay" /\ k.n = i) \/ (k.op = "order" /\ v = i)
      BY <2>2, <1>2, <1>3 DEF PaysFor
    <3> QED
      BY <3>1, <2>2, NothingAssumption DEF PaysFor
  <2> QED
    BY <2>1, <2>2
<1>9. PaymentsSound'
  <2>1. PaymentsSound
    BY DEF CheckoutIInv
  <2>2. \A i \in toldCanceled : i # Len(orders) + 1
    BY <1>0, CheckoutFacts
  <2>3. paying["tab"] # Len(orders) + 1
    BY <1>0, CheckoutFacts
  <2>4. \A d \in Two, i \in Nat : PaysFor(d, i) => i # Len(orders) + 1
    BY <1>0, <2>1 DEF PaymentsSound
  <2>5. paying'["tab"] \notin toldCanceled'
    BY <1>1, <2>1 DEF PaymentsSound
  <2>6. \A d \in Two, i \in Nat : PaysFor(d, i)' => i \in 1..Len(orders')
    BY <1>6, <1>8, <2>1 DEF PaymentsSound
  <2>7. \A d \in Two, i \in Nat : PaysFor(d, i)' => i \notin toldCanceled' /\ i # paying'["tab"]
    BY <1>1, <1>8, <2>1, <2>2, <2>3 DEF PaymentsSound
  <2>8. \A d, e \in Two, i \in Nat : PaysFor(d, i)' /\ PaysFor(e, i)' => d = e
    BY <1>8, <2>1, <2>4 DEF PaymentsSound
  <2> QED
    BY <2>5, <2>6, <2>7, <2>8 DEF PaymentsSound
<1>10. CallsInTurn'
  <2> SUFFICES ASSUME ~disturbed'["tab"] PROVE CallsInTurn'
    BY DEF CallsInTurn
  <2>0. ~disturbed["tab"] /\ (cart' # cart => v # FAILED)
    BY DEF AnsweredWith
  <2>1. \A d \in Two : d # c => cartCall[d].at = "idle"
    BY <2>0 DEF CheckoutIInv, CallsInTurn
  <2>2. EntryAgrees
    BY <2>0, <2>1, TurnsAgree DEF Changed
  <2>3. \A d \in Two : cartCall'[d].at # "idle" => d = c
    BY <1>3, <2>1
  <2>4. Changed(c)' <=>
          v # FAILED /\ k.op \in {"add", "edit", "coupon", "remove", "clear", "order"}
    BY <1>2, <1>3 DEF Changed
  <2>5. cart' = cart => EntryAgrees'
    BY <1>1, <2>2 DEF EntryAgrees
  <2>6. EntryAgrees' \/ Changed(c)'
    BY <2>0, <2>4, <2>5
  <2>7. k.op \in {"remove", "clear", "order"} => cache'["tab"].data # NoData
    BY <1>1, <2>0 DEF CheckoutIInv, CallsInTurn
  <2>8. Changed(c)' /\ cartCall'[c].op \in {"add", "edit", "coupon"} => cartCall'[c].answer = cart'
    BY <1>2, <1>3, <2>4
  <2>9. \A d \in Two : Changed(d)' => d = c
    BY <2>3 DEF Changed
  <2> QED
    BY <1>2, <1>3, <2>3, <2>6, <2>7, <2>8, <2>9 DEF CallsInTurn
<1> QED
  BY <1>1, <1>4, <1>5, <1>7, <1>9, <1>10 DEF CheckoutIInv

\* The cart changes and the orders do not: what comes into the cart is new.
LEMMA CartMoves ==
  ASSUME CheckoutIInv, cart' \in OneCart, used \subseteq used', used' \subseteq Slot, UNCHANGED orders,
         \A s \in Slot : cart'.amount[s] # 0 => s \in used' /\ (cart.amount[s] # 0 \/ s \notin used)
  PROVE  StaysSound
<1>1. ServiceTyped' /\ Len(orders) <= Len(orders')
  BY CheckoutFacts DEF CheckoutIInv, ServiceTyped
<1>2. \A s \in Slot : cart'.amount[s] # 0 => s \in used'
  OBVIOUS
<1>3. \A i \in 1..Len(orders') : Checkout!Size(orders'[i].items) > 0
  BY DEF CheckoutIInv, OrderedOnce
<1>4. \A i \in 1..Len(orders'), s \in Slot :
        orders'[i].items.amount[s] # 0 => s \in used' /\ cart'.amount[s] = 0
  BY DEF CheckoutIInv, OrderedOnce
<1>5. \A i, j \in 1..Len(orders'), s \in Slot :
        i # j => orders'[i].items.amount[s] = 0 \/ orders'[j].items.amount[s] = 0
  BY DEF CheckoutIInv, OrderedOnce
<1> QED
  BY <1>1, <1>2, <1>3, <1>4, <1>5 DEF OrderedOnce, StaysSound

\* What the order service does with the items and the coupon of the cart.
LEMMA CartEffects ==
  ASSUME CheckoutIInv,
         \/ \E n \in Nat : Checkout!AddItem(n)
         \/ \E s \in Slot, n \in Nat : Checkout!UpdateItem(s, n)
         \/ \E s \in Slot : Checkout!TakeItem(s)
         \/ \E v \in Checkout!Coupons : Checkout!SetCartCoupon(v)
         \/ Checkout!DropCart
  PROVE  cart' \in OneCart /\ UNCHANGED orders /\ StaysSound
<1>1. cart \in OneCart /\ used \subseteq Slot
  BY DEF CheckoutIInv, ServiceTyped
<1>2. cart = [amount |-> cart.amount, coupon |-> cart.coupon] /\ cart.amount \in [Slot -> Nat]
      /\ cart.coupon \in Checkout!Coupons
  BY <1>1 DEF OneCart
<1>3. \A s \in Slot : cart.amount[s] # 0 => s \in used
  BY DEF CheckoutIInv, OrderedOnce
<1>4. CASE \E n \in Nat : Checkout!AddItem(n)
  <2>1. PICK n \in Nat : Checkout!AddItem(n)
    BY <1>4
  <2>2. PICK s \in Slot \ used : used' = used \cup {s} /\ cart' = [cart EXCEPT !.amount[s] = n]
    BY <2>1 DEF Checkout!AddItem
  <2>3. cart' = [amount |-> [cart.amount EXCEPT ![s] = n], coupon |-> cart.coupon] /\ UNCHANGED orders
    BY <1>2, <2>1, <2>2 DEF Checkout!AddItem
  <2>4. cart' \in OneCart
    BY <1>2, <2>3 DEF OneCart
  <2>5. \A x \in Slot : cart'.amount[x] # 0 => x \in used' /\ (cart.amount[x] # 0 \/ x \notin used)
    BY <1>2, <1>3, <2>2, <2>3
  <2> QED
    BY <1>1, <2>2, <2>3, <2>4, <2>5, CartMoves
<1>5. CASE \/ \E s \in Slot, n \in Nat : Checkout!UpdateItem(s, n)
           \/ \E s \in Slot : Checkout!TakeItem(s)
  <2>1. PICK s \in Slot, n \in Nat :
           /\ cart' = [cart EXCEPT !.amount[s] = n] /\ UNCHANGED <<used, orders>>
           /\ cart.amount[s] # 0 \/ n = 0
    BY <1>5, <1>2 DEF Checkout!UpdateItem, Checkout!TakeItem
  <2>2. cart' = [amount |-> [cart.amount EXCEPT ![s] = n], coupon |-> cart.coupon]
    BY <1>2, <2>1
  <2>3. cart' \in OneCart
    BY <1>2, <2>2 DEF OneCart
  <2>4. \A x \in Slot : cart'.amount[x] # 0 => x \in used' /\ (cart.amount[x] # 0 \/ x \notin used)
    BY <1>2, <1>3, <2>1, <2>2
  <2> QED
    BY <1>1, <2>1, <2>3, <2>4, CartMoves
<1>6. CASE \E v \in Checkout!Coupons : Checkout!SetCartCoupon(v)
  <2>1. PICK v \in Checkout!Coupons : cart' = [cart EXCEPT !.coupon = v] /\ UNCHANGED <<used, orders>>
    BY <1>6 DEF Checkout!SetCartCoupon
  <2>2. cart' = [amount |-> cart.amount, coupon |-> v]
    BY <1>2, <2>1
  <2>3. cart' \in OneCart /\ cart'.amount = cart.amount
    BY <1>2, <2>2 DEF OneCart
  <2> QED
    BY <1>1, <1>3, <2>1, <2>3, CartMoves
<1>7. CASE Checkout!DropCart
  <2>1. cart' = Nothing /\ UNCHANGED <<used, orders>>
    BY <1>7 DEF Checkout!DropCart, Nothing
  <2>2. cart' \in OneCart /\ \A s \in Slot : cart'.amount[s] = 0
    BY <2>1 DEF Nothing, Checkout!Nothing, OneCart, Checkout!EmptyCart, Checkout!Coupons
  <2> QED
    BY <1>1, <2>1, <2>2, CartMoves
<1> QED
  BY <1>4, <1>5, <1>6, <1>7

\* The cart becomes an order.
LEMMA OrderEffect ==
  ASSUME CheckoutIInv, Checkout!CreateOrderFromCart
  PROVE  StaysSound /\ Len(orders') = Len(orders) + 1
<1> DEFINE new == [items |-> cart, status |-> "payment_pending"]
           n == Len(orders) + 1
<1>1. cart \in OneCart /\ used \subseteq Slot /\ orders \in Seq(CartOrder) /\ Len(orders) \in Nat
  BY CheckoutFacts DEF CheckoutIInv, ServiceTyped
<1>2. /\ Checkout!Size(cart) > 0 /\ orders' = Append(orders, new)
      /\ cart' = Nothing /\ UNCHANGED used
  BY DEF Checkout!CreateOrderFromCart, Nothing
<1>3. \A s \in Slot : cart.amount[s] # 0 => s \in used
  BY DEF CheckoutIInv, OrderedOnce
<1>4. new \in CartOrder /\ new.items = cart
  BY <1>1 DEF CartOrder
<1> HIDE DEF new
<1>5. orders' \in Seq(CartOrder) /\ Len(orders') = n /\ orders'[n] = new
      /\ \A i \in 1..Len(orders) : orders'[i] = orders[i]
  BY <1>1, <1>2, <1>4
<1>6. \A i \in 1..Len(orders') : i = n \/ i \in 1..Len(orders)
  BY <1>1, <1>5
<1>7. n \in Nat /\ n \notin 1..Len(orders) /\ Len(orders) <= n
  BY <1>1
<1> HIDE DEF n
<1>8. Nothing \in OneCart /\ \A s \in Slot : Nothing.amount[s] = 0
  BY DEF Nothing, Checkout!Nothing, OneCart, Checkout!EmptyCart, Checkout!Coupons
<1>9. ServiceTyped'
  BY <1>1, <1>2, <1>5, <1>8 DEF ServiceTyped
<1>10. OrderedOnce'
  <2>1. OrderedOnce
    BY DEF CheckoutIInv
  <2>2. \A i \in 1..Len(orders') : Checkout!Size(orders'[i].items) > 0
    BY <1>2, <1>4, <1>5, <1>6, <2>1 DEF OrderedOnce
  <2>3. \A i \in 1..Len(orders'), s \in Slot :
          orders'[i].items.amount[s] # 0 => s \in used' /\ cart'.amount[s] = 0
    BY <1>2, <1>3, <1>4, <1>5, <1>6, <1>8, <2>1 DEF OrderedOnce
  <2>4. \A i, j \in 1..Len(orders'), s \in Slot :
          i # j => orders'[i].items.amount[s] = 0 \/ orders'[j].items.amount[s] = 0
    BY <1>4, <1>5, <1>6, <2>1 DEF OrderedOnce
  <2> QED
    BY <1>2, <1>8, <2>2, <2>3, <2>4 DEF OrderedOnce
<1> QED
  BY <1>5, <1>7, <1>9, <1>10 DEF StaysSound, n

\* A call that works on the cart is served.
LEMMA CartServed ==
  ASSUME CheckoutIInv, NEW c \in Two, cartCall[c].at = "sent",
         \A v \in CartAnswer : Checkout!Answer(c, v) => AnsweredWith(c, v),
         \/ Checkout!AnswerAdd(c) \/ Checkout!AnswerEdit(c) \/ Checkout!AnswerRemove(c)
         \/ Checkout!AnswerCoupon(c)
  PROVE  CheckoutIInv'
<1> DEFINE k == cartCall[c]
<1>1. k.n \in Nat
  BY CheckoutFacts DEF CartCallState
<1>2. /\ k.op \in {"edit", "remove"} => k.arg \in Slot
      /\ k.op = "coupon" => k.arg \in Checkout!Coupons
  BY DEF CheckoutIInv, CallsTyped
<1>3. FAILED \notin OneCart /\ OneCart \subseteq CartAnswer /\ {DONE, FAILED} \subseteq CartAnswer
  BY NothingAssumption DEF OneCart, CartAnswer
<1>4. CASE Checkout!AnswerAdd(c) \/ Checkout!AnswerEdit(c) \/ Checkout!AnswerCoupon(c)
  <2>1. /\ k.op \in {"add", "edit", "coupon"}
        /\ Checkout!Answer(c, cart') \/ Checkout!Answer(c, FAILED)
    BY <1>4 DEF Checkout!AnswerAdd, Checkout!AnswerEdit, Checkout!AnswerCoupon, Checkout!Acknowledged
  <2>2. cart' \in OneCart /\ StaysSound
    BY <1>1, <1>2, <1>4, CartEffects
       DEF Checkout!AnswerAdd, Checkout!AnswerEdit, Checkout!AnswerCoupon
  <2>3. PICK v \in {cart', FAILED} : Checkout!Answer(c, v)
    BY <2>1
  <2>4. v \in CartAnswer /\ v \in OneCart \cup {FAILED}
    BY <1>3, <2>2
  <2> QED
    BY <2>1, <2>2, <2>3, <2>4, CartCallServed
<1>5. CASE Checkout!AnswerRemove(c)
  <2>1. /\ k.op \in {"remove", "clear"}
        /\ Checkout!Answer(c, DONE) \/ Checkout!Answer(c, FAILED)
    BY <1>5 DEF Checkout!AnswerRemove, Checkout!Acknowledged
  <2>2. StaysSound
    BY <1>2, <1>5, CartEffects DEF Checkout!AnswerRemove
  <2>3. PICK v \in {DONE, FAILED} : Checkout!Answer(c, v)
    BY <2>1
  <2> QED
    BY <1>3, <2>1, <2>2, <2>3, CartCallServed
<1> QED
  BY <1>4, <1>5

\* Nothing changes but the status of an order.
LEMMA CancelEffect ==
  ASSUME CheckoutIInv, NEW i, UNCHANGED <<cart, used>>,
         orders' = [orders EXCEPT ![i].status = "canceled"] \/ UNCHANGED orders
  PROVE  StaysSound
<1>1. cart \in OneCart /\ used \subseteq Slot /\ orders \in Seq(CartOrder) /\ Len(orders) \in Nat
  BY CheckoutFacts DEF CheckoutIInv, ServiceTyped
<1>2. CASE UNCHANGED orders
  BY <1>1, <1>2 DEF CheckoutIInv, ServiceTyped, OrderedOnce, StaysSound
<1>3. CASE orders' = [orders EXCEPT ![i].status = "canceled"]
  <2>1. \A j \in 1..Len(orders) : orders[j] \in CartOrder
    BY <1>1
  <2>2. \A j \in 1..Len(orders) : [orders[j] EXCEPT !.status = "canceled"] \in CartOrder
    BY <2>1 DEF CartOrder
  <2>3. \A j \in 1..Len(orders) :
          orders'[j] = IF j = i THEN [orders[j] EXCEPT !.status = "canceled"] ELSE orders[j]
    BY <1>1, <1>3
  <2>4. orders' \in Seq(CartOrder) /\ Len(orders') = Len(orders)
    <3>1. CASE i \in 1..Len(orders)
      BY <1>1, <1>3, <2>2, <3>1, ExceptSeq
    <3>2. CASE i \notin 1..Len(orders)
      <4>1. orders \in [1..Len(orders) -> CartOrder]
        BY <1>1
      <4>2. orders' = orders
        BY <1>3, <3>2, <4>1
      <4> QED
        BY <1>1, <4>2
    <3> QED
      BY <3>1, <3>2
  <2>5. \A j \in 1..Len(orders) : orders'[j].items = orders[j].items
    BY <2>1, <2>3 DEF CartOrder
  <2>6. ServiceTyped'
    BY <1>1, <2>4 DEF ServiceTyped
  <2>7. OrderedOnce'
    BY <2>4, <2>5 DEF CheckoutIInv, OrderedOnce
  <2> QED
    BY <1>1, <2>4, <2>6, <2>7 DEF StaysSound
<1> QED
  BY <1>2, <1>3

\* The cart is ordered; the payment service answers; an order is canceled; or nothing is done.
LEMMA OrderServed ==
  ASSUME CheckoutIInv, NEW c \in Two, cartCall[c].at = "sent",
         \A v \in CartAnswer : Checkout!Answer(c, v) => AnsweredWith(c, v),
         \/ Checkout!AnswerOrder(c) \/ Checkout!AnswerPay(c) \/ Checkout!AnswerCancel(c)
         \/ Checkout!Refuse(c)
  PROVE  CheckoutIInv'
<1> DEFINE k == cartCall[c]
<1>1. FAILED \notin Nat /\ Nat \subseteq CartAnswer /\ {DONE, FAILED} \subseteq CartAnswer
  BY NothingAssumption DEF CartAnswer
<1>2. Len(orders) + 1 \in Nat
  BY CheckoutFacts
<1>3. CASE Checkout!AnswerOrder(c)
  <2>1. /\ k.op = "order" /\ Checkout!CreateOrderFromCart
        /\ Checkout!Answer(c, Len(orders')) \/ Checkout!Answer(c, FAILED)
    BY <1>3 DEF Checkout!AnswerOrder, Checkout!Acknowledged
  <2>2. StaysSound /\ Len(orders') = Len(orders) + 1
    BY <2>1, OrderEffect
  <2>3. PICK v \in {Len(orders'), FAILED} : Checkout!Answer(c, v)
    BY <2>1
  <2> QED
    BY <1>1, <1>2, <2>1, <2>2, <2>3, CartCallServed
<1>4. CASE Checkout!AnswerPay(c)
  <2>1. k.op = "pay" /\ Checkout!Answer(c, DONE) /\ UNCHANGED <<cart, used, orders>>
    BY <1>4 DEF Checkout!AnswerPay, Checkout!service
  <2> QED
    BY <1>1, <2>1, CancelEffect, CartCallServed
<1>5. CASE Checkout!AnswerCancel(c)
  <2>1. /\ k.op = "cancel" /\ Checkout!Answer(c, DONE) /\ UNCHANGED <<cart, used>>
        /\ orders' = [orders EXCEPT ![k.n].status = "canceled"]
    BY <1>5 DEF Checkout!AnswerCancel
  <2> QED
    BY <1>1, <2>1, CancelEffect, CartCallServed
<1>6. CASE Checkout!Refuse(c)
  <2>1. Checkout!Answer(c, FAILED) /\ UNCHANGED <<cart, used, orders>>
    BY <1>6 DEF Checkout!Refuse, Checkout!service
  <2> QED
    BY <1>1, <2>1, CancelEffect, CartCallServed
<1> QED
  BY <1>3, <1>4, <1>5, <1>6

\* A call is served.
LEMMA CallServed ==
  ASSUME CheckoutIInv, NEW c \in Two, Checkout!Serve(c)
  PROVE  CheckoutIInv'
<1>1. /\ cartCall[c].at = "sent" /\ UNCHANGED <<cache, paying, toldCanceled>>
      /\ disturbed' = [t \in {"tab"} |-> disturbed[t] \/ Checkout!Unnoticed(c, t)]
  BY DEF Checkout!Serve
<1>2. disturbed["tab"] \in BOOLEAN /\ cartCall[c] \in CartCallState
  BY CheckoutFacts DEF CheckoutIInv, TabTyped
<1>3. ASSUME NEW v \in CartAnswer, Checkout!Answer(c, v) PROVE AnsweredWith(c, v)
  <2>1. cartCall'[c].answer = v
    <3>1. [cartCall[c] EXCEPT !.at = "answered", !.answer = v].answer = v
      BY <1>2 DEF CartCallState
    <3>2. cartCall' = [cartCall EXCEPT ![c] = [cartCall[c] EXCEPT !.at = "answered", !.answer = v]]
      BY <1>3 DEF Checkout!Answer, CheckoutIInv, CallsTyped
    <3> QED
      BY <3>1, <3>2 DEF CheckoutIInv, CallsTyped
  <2>2. /\ disturbed' \in [{"tab"} -> BOOLEAN] /\ (disturbed["tab"] => disturbed'["tab"])
        /\ Checkout!Unnoticed(c, "tab") => disturbed'["tab"]
    BY <1>1, <1>2 DEF Checkout!Unnoticed
  <2> QED
    BY <1>1, <1>3, <2>1, <2>2 DEF AnsweredWith, Checkout!Unnoticed
<1> QED
  BY <1>1, <1>3, CartServed, OrderServed DEF Checkout!Serve

\* Another client of the user changes the cart.
LEMMA OtherClientServed ==
  ASSUME CheckoutIInv, Checkout!OtherClient
  PROVE  CheckoutIInv'
<1>1. UNCHANGED <<cache, cartCall, paying, toldCanceled>> /\ disturbed' = [t \in {"tab"} |-> TRUE]
  BY DEF Checkout!OtherClient
<1>2. StaysSound
  <2>1. Amount \subseteq Nat /\ 1..MaxSize \subseteq Nat
    BY SizesAssumption
  <2>2. \/ Checkout!CreateOrderFromCart
        \/ \E n \in Nat : Checkout!AddItem(n)
        \/ \E s \in Slot, n \in Nat : Checkout!UpdateItem(s, n)
        \/ \E s \in Slot : Checkout!TakeItem(s)
        \/ \E v \in Checkout!Coupons : Checkout!SetCartCoupon(v)
        \/ Checkout!DropCart
    BY <2>1 DEF Checkout!OtherClient
  <2> QED
    BY <2>2, OrderEffect, CartEffects
<1>3. /\ ServiceTyped' /\ OrderedOnce' /\ Len(orders) \in Nat /\ Len(orders') \in Nat
      /\ \A i \in 1..Len(orders) : i \in 1..Len(orders')
  BY <1>2, CheckoutFacts DEF StaysSound, ServiceTyped
<1>4. CallsTyped' /\ EntryTyped' /\ TabTyped' /\ CallsInTurn'
  BY <1>1, <1>3 DEF CheckoutIInv, CallsTyped, EntryTyped, TabTyped, CallsInTurn
<1>5. PaymentsSound'
  BY <1>1, <1>3 DEF CheckoutIInv, PaymentsSound, PaysFor
<1> QED
  BY <1>3, <1>4, <1>5 DEF CheckoutIInv

\* The page is done with call c, and what it shows or waits for is up to date.
LEMMA CartCallDone ==
  ASSUME CheckoutIInv, NEW c \in Two, cartCall[c].at # "idle", Checkout!Done(c), EntryTyped',
         UNCHANGED <<cart, used, orders, paying, toldCanceled>>,
         disturbed' \in [{"tab"} -> BOOLEAN], disturbed["tab"] => disturbed'["tab"],
         ~disturbed'["tab"] /\ (\A d \in Two : d # c => ~Changed(d)) => EntryAgrees'
  PROVE  CheckoutIInv'
<1>1. Checkout!Idle \in CartCallState /\ Checkout!Idle.at = "idle"
  BY DEF Checkout!Idle, CartCallState, CartAnswer
<1>2. /\ cartCall' \in [Two -> CartCallState] /\ cartCall'[c] = Checkout!Idle
      /\ \A d \in Two : d # c => cartCall'[d] = cartCall[d]
  BY <1>1 DEF CheckoutIInv, CallsTyped, Checkout!Done
<1>3. CallsTyped'
  BY <1>1, <1>2 DEF CheckoutIInv, CallsTyped
<1>4. ServiceTyped' /\ TabTyped' /\ OrderedOnce'
  BY DEF CheckoutIInv, ServiceTyped, TabTyped, OrderedOnce
<1>5. \A d \in Two, i \in Nat : PaysFor(d, i)' => PaysFor(d, i)
  BY <1>1, <1>2 DEF PaysFor
<1>6. PaymentsSound'
  BY <1>5 DEF CheckoutIInv, PaymentsSound
<1>7. CallsInTurn'
  <2> SUFFICES ASSUME ~disturbed'["tab"] PROVE CallsInTurn'
    BY DEF CallsInTurn
  <2>1. \A d, e \in Two : cartCall[d].at # "idle" /\ cartCall[e].at # "idle" => d = e
    BY DEF CheckoutIInv, CallsInTurn
  <2>2. \A d \in Two : d # c => cartCall[d].at = "idle"
    BY <2>1
  <2>3. \A d \in Two : cartCall'[d].at = "idle"
    BY <1>1, <1>2, <2>2
  <2>4. EntryAgrees'
    BY <2>2 DEF Changed
  <2> QED
    BY <2>3, <2>4 DEF CallsInTurn, Changed
<1> QED
  BY <1>3, <1>4, <1>6, <1>7 DEF CheckoutIInv

\* The page writes, invalidates or ignores what a call brought.
LEMMA CartAnswered ==
  ASSUME CheckoutIInv, NEW c \in Two,
         \/ Checkout!WriteAnswer(c) \/ Checkout!InvalidateAnswer(c) \/ Checkout!FailedAnswer(c)
         \/ Checkout!CancelAnswered(c)
  PROVE  CheckoutIInv'
<1> DEFINE q == cache["tab"]
           k == cartCall[c]
<1>1. k.at = "answered" /\ Checkout!Done(c) /\ UNCHANGED <<cart, used, orders, paying, toldCanceled>>
  BY DEF Checkout!WriteAnswer, Checkout!InvalidateAnswer, Checkout!FailedAnswer, Checkout!CancelAnswered,
         Checkout!Answered, Checkout!service
<1>2. k.tab = "tab" /\ q \in Checkout!Entries(OneCart) /\ EntryTyped
      /\ disturbed \in [{"tab"} -> BOOLEAN]
  BY <1>1, CheckoutFacts DEF CheckoutIInv, TabTyped
<1>3. CASE Checkout!WriteAnswer(c)
  <2>1. /\ k.op \in {"add", "edit", "coupon"} /\ k.answer # FAILED
        /\ cache' = [cache EXCEPT !["tab"] = [q EXCEPT !.data = k.answer]]
        /\ disturbed' = [disturbed EXCEPT !["tab"] = @ \/ q.fetch # "idle"]
    BY <1>2, <1>3 DEF Checkout!WriteAnswer, Checkout!Answered, Checkout!Written
  <2>2. k.answer \in OneCart
    BY <1>1, <2>1 DEF CheckoutIInv, CallsTyped
  <2>3. /\ [q EXCEPT !.data = k.answer] \in Checkout!Entries(OneCart)
        /\ [q EXCEPT !.data = k.answer].data = k.answer
        /\ [q EXCEPT !.data = k.answer].fetch = q.fetch /\ [q EXCEPT !.data = k.answer].answer = q.answer
    BY <1>2, <2>2 DEF Checkout!Entries
  <2>4. /\ cache' \in [{"tab"} -> Checkout!Entries(OneCart)] /\ cache'["tab"].data = k.answer
        /\ cache'["tab"].fetch = q.fetch /\ cache'["tab"].answer = q.answer
    BY <1>2, <2>1, <2>3 DEF EntryTyped
  <2>5. EntryTyped'
    BY <1>2, <2>4 DEF EntryTyped
  <2>6. /\ disturbed' \in [{"tab"} -> BOOLEAN] /\ (disturbed["tab"] => disturbed'["tab"])
        /\ (~disturbed'["tab"] => ~disturbed["tab"] /\ q.fetch = "idle")
    BY <1>2, <2>1
  <2>7. ~disturbed'["tab"] => EntryAgrees'
    <3> SUFFICES ASSUME ~disturbed'["tab"] PROVE EntryAgrees'
      OBVIOUS
    <3>1. k.answer = cart
      BY <1>1, <2>1, <2>6 DEF CheckoutIInv, CallsInTurn, Changed
    <3> QED
      BY <1>1, <2>4, <2>6, <3>1 DEF EntryAgrees
  <2> QED
    BY <1>1, <2>5, <2>6, <2>7, CartCallDone
<1>4. CASE Checkout!InvalidateAnswer(c)
  <2>1. /\ k.op \in {"remove", "clear"} /\ UNCHANGED disturbed
        /\ cache' = [cache EXCEPT !["tab"] = Checkout!Invalidated(q)]
    BY <1>2, <1>4 DEF Checkout!InvalidateAnswer, Checkout!Answered
  <2>2. /\ Checkout!Invalidated(q) \in Checkout!Entries(OneCart)
        /\ Checkout!Invalidated(q) = q \/ Checkout!Invalidated(q).fetch = "sent"
        /\ q.data # NoData => Checkout!Invalidated(q).fetch = "sent"
    BY <1>2 DEF Checkout!Invalidated, Checkout!Entries
  <2>3. EntryTyped' /\ cache'["tab"] = Checkout!Invalidated(q)
    BY <1>2, <2>1, <2>2 DEF EntryTyped
  <2>4. ~disturbed["tab"] => EntryAgrees'
    <3> SUFFICES ASSUME ~disturbed["tab"] PROVE EntryAgrees'
      OBVIOUS
    <3>1. q.data # NoData
      BY <1>1, <2>1 DEF CheckoutIInv, CallsInTurn
    <3> QED
      BY <2>2, <2>3, <3>1 DEF EntryAgrees
  <2> QED
    BY <1>1, <1>2, <2>1, <2>3, <2>4, CartCallDone
<1>5. CASE Checkout!FailedAnswer(c) \/ Checkout!CancelAnswered(c)
  <2>1. UNCHANGED <<cache, disturbed>> /\ ~Changed(c)
    BY <1>5 DEF Checkout!FailedAnswer, Checkout!CancelAnswered, Checkout!Answered, Changed
  <2>2. ~disturbed["tab"] /\ (\A d \in Two : d # c => ~Changed(d)) => EntryAgrees'
    <3> SUFFICES ASSUME ~disturbed["tab"], \A d \in Two : d # c => ~Changed(d) PROVE EntryAgrees'
      OBVIOUS
    <3>1. EntryAgrees
      BY <2>1, TurnsAgree
    <3> QED
      BY <1>1, <2>1, <3>1 DEF EntryAgrees
  <2>3. EntryTyped'
    BY <1>2, <2>1 DEF EntryTyped
  <2> QED
    BY <1>1, <1>2, <2>1, <2>2, <2>3, CartCallDone
<1> QED
  BY <1>3, <1>4, <1>5

\* The page asks for the payment of the order it was told of.
LEMMA OrderIsCreated ==
  ASSUME CheckoutIInv, NEW c \in Two, Checkout!OrderCreated(c)
  PROVE  CheckoutIInv'
<1> DEFINE q == cache["tab"]
           k == cartCall[c]
           new == [k EXCEPT !.op = "pay", !.n = k.answer, !.at = "sent", !.answer = None]
<1>1. /\ k.at = "answered" /\ k.op = "order" /\ k.answer # FAILED
      /\ UNCHANGED <<cart, used, orders, paying, toldCanceled, disturbed>>
  BY DEF Checkout!OrderCreated, Checkout!Answered, Checkout!service
<1>2. k \in CartCallState /\ k.tab = "tab" /\ k.answer \in Nat
      /\ q \in Checkout!Entries(OneCart) /\ EntryTyped
  BY <1>1, CheckoutFacts DEF CheckoutIInv, CallsTyped
<1>3. /\ cartCall' = [cartCall EXCEPT ![c] = new]
      /\ cache' = [cache EXCEPT !["tab"] = Checkout!Invalidated(q)]
  BY <1>2 DEF Checkout!OrderCreated, CheckoutIInv, CallsTyped
<1>4. new \in CartCallState /\ new.at = "sent" /\ new.op = "pay" /\ new.tab = "tab" /\ new.n = k.answer
  BY <1>2 DEF CartCallState, CartAnswer, Checkout!Op
<1> HIDE DEF new
<1>5. /\ cartCall' \in [Two -> CartCallState] /\ cartCall'[c] = new
      /\ \A d \in Two : d # c => cartCall'[d] = cartCall[d]
  BY <1>3, <1>4 DEF CheckoutIInv, CallsTyped
<1>6. CallsTyped'
  BY <1>4, <1>5 DEF CheckoutIInv, CallsTyped
<1>7. /\ Checkout!Invalidated(q) \in Checkout!Entries(OneCart)
      /\ Checkout!Invalidated(q) = q \/ Checkout!Invalidated(q).fetch = "sent"
      /\ q.data # NoData => Checkout!Invalidated(q).fetch = "sent"
  BY <1>2 DEF Checkout!Invalidated, Checkout!Entries
<1>8. EntryTyped' /\ cache'["tab"] = Checkout!Invalidated(q)
  BY <1>2, <1>3, <1>7 DEF EntryTyped
<1>9. ServiceTyped' /\ TabTyped' /\ OrderedOnce'
  BY <1>1 DEF CheckoutIInv, ServiceTyped, TabTyped, OrderedOnce
<1>10. \A d \in Two, i \in Nat : PaysFor(d, i)' => PaysFor(d, i)
  BY <1>1, <1>4, <1>5 DEF PaysFor
<1>11. PaymentsSound'
  BY <1>1, <1>10 DEF CheckoutIInv, PaymentsSound
<1>12. CallsInTurn'
  <2> SUFFICES ASSUME ~disturbed["tab"] PROVE CallsInTurn'
    BY <1>1 DEF CallsInTurn
  <2>1. \A d \in Two : d # c => cartCall[d].at = "idle"
    BY <1>1 DEF CheckoutIInv, CallsInTurn
  <2>2. q.data # NoData
    BY <1>1 DEF CheckoutIInv, CallsInTurn
  <2>3. EntryAgrees'
    BY <1>7, <1>8, <2>2 DEF EntryAgrees
  <2>4. \A d \in Two : cartCall'[d].at # "idle" => d = c
    BY <1>5, <2>1
  <2> QED
    BY <1>4, <1>5, <2>3, <2>4 DEF CallsInTurn, Changed
<1> QED
  BY <1>6, <1>8, <1>9, <1>11, <1>12 DEF CheckoutIInv

\* The browser leaves for the payment page.
LEMMA PaymentStarted ==
  ASSUME CheckoutIInv, NEW c \in Two, Checkout!GoToPayment(c)
  PROVE  CheckoutIInv'
<1> DEFINE k == cartCall[c]
<1>1. /\ k.at = "answered" /\ k.op = "pay" /\ UNCHANGED <<cart, used, orders, toldCanceled>>
  BY DEF Checkout!GoToPayment, Checkout!Answered, Checkout!service
<1>2. k \in CartCallState /\ k.tab = "tab"
  BY <1>1, CheckoutFacts
<1>3. /\ paying' = [paying EXCEPT !["tab"] = k.n]
      /\ cache' = [cache EXCEPT !["tab"] = Checkout!Fresh]
      /\ cartCall' = [d \in Two |-> IF cartCall[d].tab = "tab" THEN Checkout!Idle ELSE cartCall[d]]
  BY <1>2 DEF Checkout!GoToPayment
<1>4. disturbed' = [disturbed EXCEPT !["tab"] = FALSE]
  BY <1>2 DEF Checkout!GoToPayment
<1>5. PaysFor(c, k.n) /\ k.n \in Nat
  BY <1>1, <1>2 DEF PaysFor, CartCallState
<1>6. k.n \in 1..Len(orders) /\ k.n \notin toldCanceled
  BY <1>5 DEF CheckoutIInv, PaymentsSound
<1>7. Checkout!Idle \in CartCallState /\ Checkout!Idle.at = "idle"
  BY DEF Checkout!Idle, CartCallState, CartAnswer
<1>8. \A d \in Two : cartCall'[d] = Checkout!Idle
  BY <1>3, CheckoutFacts DEF CheckoutIInv, CallsTyped
<1>9. CallsTyped'
  BY <1>3, <1>7, <1>8 DEF CallsTyped
<1>10. EntryTyped' /\ cache'["tab"] = Checkout!Fresh
  BY <1>3 DEF CheckoutIInv, EntryTyped, Checkout!Entries, Checkout!Fresh
<1>11. ServiceTyped' /\ OrderedOnce'
  BY <1>1 DEF CheckoutIInv, ServiceTyped, OrderedOnce
<1>12. TabTyped' /\ paying'["tab"] = k.n
  BY <1>1, <1>3, <1>4, <1>6 DEF CheckoutIInv, TabTyped
<1>13. PaymentsSound'
  BY <1>1, <1>6, <1>7, <1>8, <1>12 DEF PaymentsSound, PaysFor
<1>14. CallsInTurn'
  BY <1>7, <1>8, <1>10 DEF CallsInTurn, Changed, EntryAgrees, Checkout!Fresh
<1> QED
  BY <1>9, <1>10, <1>11, <1>12, <1>13, <1>14 DEF CheckoutIInv

\* The page calls an order canceled.
LEMMA PaymentIsRefused ==
  ASSUME CheckoutIInv, NEW c \in Two, Checkout!PaymentFailed(c)
  PROVE  CheckoutIInv'
<1> DEFINE k == cartCall[c]
           new == [k EXCEPT !.op = "cancel", !.at = "sent", !.answer = None]
<1>1. /\ k.at = "answered" /\ k.op = "pay" /\ toldCanceled' = toldCanceled \cup {k.n}
      /\ UNCHANGED <<cart, used, orders, cache, paying, disturbed>>
  BY DEF Checkout!PaymentFailed, Checkout!Answered, Checkout!service
<1>2. k \in CartCallState /\ k.tab = "tab"
  BY <1>1, CheckoutFacts
<1>3. cartCall' = [cartCall EXCEPT ![c] = new]
  BY DEF Checkout!PaymentFailed, CheckoutIInv, CallsTyped
<1>4. new \in CartCallState /\ new.at = "sent" /\ new.op = "cancel" /\ new.tab = "tab"
  BY <1>2 DEF CartCallState, CartAnswer, Checkout!Op
<1> HIDE DEF new
<1>5. /\ cartCall' \in [Two -> CartCallState] /\ cartCall'[c] = new
      /\ \A d \in Two : d # c => cartCall'[d] = cartCall[d]
  BY <1>3, <1>4 DEF CheckoutIInv, CallsTyped
<1>6. PaysFor(c, k.n) /\ k.n \in Nat
  BY <1>1, <1>2 DEF PaysFor, CartCallState
<1>7. k.n \in 1..Len(orders) /\ k.n # paying["tab"]
      /\ \A d \in Two : d # c => ~PaysFor(d, k.n)
  BY <1>6 DEF CheckoutIInv, PaymentsSound
<1>8. CallsTyped'
  BY <1>4, <1>5 DEF CheckoutIInv, CallsTyped
<1>9. EntryTyped' /\ ServiceTyped' /\ OrderedOnce'
  BY <1>1 DEF CheckoutIInv, EntryTyped, ServiceTyped, OrderedOnce
<1>10. TabTyped'
  BY <1>1, <1>7 DEF CheckoutIInv, TabTyped
<1>11. \A d \in Two, i \in Nat : PaysFor(d, i)' => d # c /\ PaysFor(d, i) /\ i # k.n
  BY <1>4, <1>5, <1>7 DEF PaysFor
<1>12. PaymentsSound'
  BY <1>1, <1>7, <1>11 DEF CheckoutIInv, PaymentsSound
<1>13. CallsInTurn'
  <2> SUFFICES ASSUME ~disturbed["tab"] PROVE CallsInTurn'
    BY <1>1 DEF CallsInTurn
  <2>1. \A d \in Two : d # c => cartCall[d].at = "idle"
    BY <1>1 DEF CheckoutIInv, CallsInTurn
  <2>2. EntryAgrees
    BY <1>1, <2>1, TurnsAgree DEF Changed
  <2>3. EntryAgrees'
    BY <1>1, <2>2 DEF EntryAgrees
  <2>4. \A d \in Two : cartCall'[d].at # "idle" => d = c
    BY <1>5, <2>1
  <2> QED
    BY <1>4, <1>5, <2>3, <2>4 DEF CallsInTurn, Changed
<1> QED
  BY <1>8, <1>9, <1>10, <1>12, <1>13 DEF CheckoutIInv

LEMMA StepCheckout == CheckoutIInv /\ [Checkout!Next]_checkoutVars => CheckoutIInv'
<1> SUFFICES ASSUME CheckoutIInv, [Checkout!Next]_checkoutVars PROVE CheckoutIInv'
  OBVIOUS
<1>1. CASE Checkout!Next
  <2>1. CASE \/ Checkout!FetchCart("tab") \/ Checkout!GetCart("tab")
             \/ Checkout!ShowCart("tab") \/ Checkout!FetchFails("tab")
    BY <2>1, CartQueried
  <2>2. CASE Checkout!ComeBack("tab")
    BY <2>2, CameBack
  <2>3. ASSUME NEW c \in Two,
               \/ \E n \in Amount : Checkout!AddToCart("tab", c, n)
               \/ \E s \in Slot : Checkout!EditItem("tab", c, s) \/ Checkout!RemoveItem("tab", c, s)
               \/ Checkout!ClearCart("tab", c) \/ Checkout!PlaceOrder("tab", c)
               \/ \E v \in Checkout!Coupons : Checkout!Coupon("tab", c, v)
        PROVE  CheckoutIInv'
    BY <2>3, CartClicked
  <2>4. ASSUME NEW c \in Two, Checkout!Serve(c) PROVE CheckoutIInv'
    BY <2>4, CallServed
  <2>5. ASSUME NEW c \in Two, Checkout!Apply(c) PROVE CheckoutIInv'
    BY <2>5, CartAnswered, OrderIsCreated, PaymentStarted, PaymentIsRefused DEF Checkout!Apply
  <2>6. CASE Checkout!OtherClient
    BY <2>6, OtherClientServed
  <2> QED
    BY <1>1, <2>1, <2>2, <2>3, <2>4, <2>5, <2>6 DEF Checkout!Next
<1>2. CASE UNCHANGED checkoutVars
  BY <1>2 DEF checkoutVars, CheckoutIInv, CallsTyped, EntryTyped, ServiceTyped, TabTyped, OrderedOnce,
              PaymentsSound, PaysFor, CallsInTurn, Changed, EntryAgrees
<1> QED
  BY <1>1, <1>2

LEMMA CheckoutInvariant == Spec => []CheckoutIInv
<1>1. Init => CheckoutIInv
  BY InitCheckout DEF Init
<1>2. CheckoutIInv /\ [Next]_vars => CheckoutIInv'
  <2>1. Next => [Checkout!Next]_checkoutVars
    BY DEF Next
  <2>2. [Next]_vars => [Checkout!Next]_checkoutVars
    BY <2>1 DEF vars
  <2> QED
    BY <2>2, StepCheckout
<1> QED
  BY <1>1, <1>2, PTL DEF Spec

\* However often Place Order is clicked, no item is ordered twice, no order is empty, and
\* no tab goes to the payment page of an order it called canceled (web-ui Checkout;
\* order-service CreateOrderFromCart).
THEOREM OrdersOnce == Spec => []OrderedAsTold
<1>1. CheckoutIInv => OrderedAsTold
  <2> SUFFICES ASSUME CheckoutIInv PROVE OrderedAsTold
    OBVIOUS
  <2>1. DOMAIN orders = 1..Len(orders)
    BY DEF CheckoutIInv, ServiceTyped
  <2>2. Checkout!NothingOrderedTwice
    BY <2>1 DEF CheckoutIInv, OrderedOnce, Checkout!NothingOrderedTwice
  <2>3. Checkout!NoPaymentOfCanceled
    BY DEF CheckoutIInv, PaymentsSound, Checkout!NoPaymentOfCanceled
  <2> QED
    BY <2>2, <2>3 DEF OrderedAsTold
<1> QED
  BY <1>1, CheckoutInvariant, PTL

\* A tab that waits for nothing shows the cart of the order service, unless since the cart
\* was last read calls of it overlapped, one was carried out but failed, a fetch failed or
\* another tab or device of the user changed the cart (web-ui CartDialog, CartMenu and
\* CouponSelector).
THEOREM TabAgrees == Spec => []UndisturbedTabAgrees
<1>1. CheckoutIInv => UndisturbedTabAgrees
  <2> SUFFICES ASSUME CheckoutIInv, Checkout!Settled("tab"), ~disturbed["tab"]
               PROVE  cache["tab"].data = cart
    BY DEF UndisturbedTabAgrees, Checkout!UndisturbedTabAgrees
  <2>1. \A c \in Two : cartCall[c].at = "idle"
    BY CheckoutFacts DEF Checkout!Settled, Checkout!Under
  <2>2. EntryAgrees
    BY <2>1, TurnsAgree DEF Changed
  <2> QED
    BY <2>2 DEF EntryAgrees, Checkout!Settled
<1> QED
  BY <1>1, CheckoutInvariant, PTL

-----------------------------------------------------------------------------
(* The reviews of a restaurant (Reviews.tla).                              *)

\* Of some subsets of a finite set, one contains none of the others.
LEMMA SmallestSet ==
  ASSUME NEW S, IsFiniteSet(S), NEW C, C \subseteq SUBSET S, C # {}
  PROVE  \E a \in C : \A b \in C : b \subseteq a => b = a
<1>1. IsWellFoundedOn(StrictSubsetOrdering(S), SUBSET S)
  BY FS_StrictSubsetOrderingWellFounded, FS_FiniteSubsetsOfFinite
<1>2. PICK a \in C : \A b \in C : <<b, a>> \notin StrictSubsetOrdering(S)
  BY <1>1, WFMin
<1> QED
  BY <1>2 DEF StrictSubsetOrdering

\* The newest P of some reviews: a review that is not among them is older than they are,
\* and there are P of them.
LEMMA NewestFill ==
  ASSUME NEW S, IsFiniteSet(S), \A v \in S : v.id \in Nat, \A v, w \in S : v.id = w.id => v = w,
         NEW P \in Nat, NEW x \in S
  PROVE  LET F == {v \in S : Cardinality({w \in S : w.id > v.id}) < P}
         IN  x \in F \/ (Cardinality(F) = P /\ \A v \in F : v.id > x.id)
<1> DEFINE Newer(v) == {w \in S : w.id > v.id}
           F == {v \in S : Cardinality(Newer(v)) < P}
<1>1. \A v \in S : Newer(v) \in SUBSET S /\ IsFiniteSet(Newer(v)) /\ Cardinality(Newer(v)) \in Nat
  BY FS_Subset, FS_CardinalityType
<1>2. \A v, w \in S : w \in Newer(v) => Newer(w) \subseteq Newer(v) /\ w \notin Newer(w)
  OBVIOUS
<1>3. \A v, w \in S : v = w \/ v \in Newer(w) \/ w \in Newer(v)
  OBVIOUS
<1>4. F \subseteq S /\ \A v \in S : v \in F <=> Cardinality(Newer(v)) < P
  OBVIOUS
<1>5. IsFiniteSet(F) /\ Cardinality(F) \in Nat
  BY FS_Subset, FS_CardinalityType
<1> SUFFICES ASSUME x \notin F PROVE Cardinality(F) = P /\ \A v \in F : v.id > x.id
  OBVIOUS
<1>10. \A v, w \in S : w \in Newer(v) <=> w.id > v.id
  OBVIOUS
<1> HIDE DEF Newer, F
<1>6. \A v, w \in S : v \in F /\ w \in Newer(v) => w \in F
  <2> SUFFICES ASSUME NEW v \in S, NEW w \in S, v \in F, w \in Newer(v) PROVE w \in F
    OBVIOUS
  <2>1. Cardinality(Newer(w)) <= Cardinality(Newer(v))
    BY <1>1, <1>2, FS_Subset
  <2> QED
    BY <1>1, <1>4, <2>1
<1>7. P <= Cardinality(F)
  <2> DEFINE C == {Newer(v) : v \in S \ F}
  <2>1. C \subseteq SUBSET S /\ C # {}
    BY <1>1
  <2>2. PICK a \in C : \A b \in C : b \subseteq a => b = a
    <3> HIDE DEF C
    <3> QED
      BY <2>1, SmallestSet
  <2>3. PICK v \in S \ F : a = Newer(v)
    BY <2>2
  <2>4. Newer(v) \subseteq F
    <3> SUFFICES ASSUME NEW w \in Newer(v), w \notin F PROVE FALSE
      BY <1>1
    <3>1. w \in S /\ Newer(w) \in C
      BY <1>1
    <3>2. Newer(w) = Newer(v)
      BY <1>2, <2>2, <2>3, <3>1
    <3> QED
      BY <1>2, <2>3, <3>1, <3>2
  <2>5. P <= Cardinality(Newer(v))
    BY <1>1, <1>4, <2>3
  <2>6. Cardinality(Newer(v)) <= Cardinality(F)
    BY <1>5, <2>4, FS_Subset
  <2> QED
    BY <1>1, <1>5, <2>3, <2>5, <2>6
<1>8. Cardinality(F) <= P
  <2>1. CASE F = {}
    BY <2>1, FS_EmptySet
  <2>2. CASE F # {}
    <3> DEFINE C == {F \ Newer(v) : v \in F}
    <3>1. C \subseteq SUBSET S /\ C # {}
      <4>1. PICK v \in F : TRUE
        BY <2>2
      <4>2. F \ Newer(v) \in C
        OBVIOUS
      <4> QED
        BY <1>4, <4>2
    <3>2. PICK a \in C : \A b \in C : b \subseteq a => b = a
      <4> HIDE DEF C
      <4> QED
        BY <3>1, SmallestSet
    <3>3. PICK v \in F : a = F \ Newer(v)
      BY <3>2
    <3>4. F \subseteq Newer(v) \cup {v}
      <4> SUFFICES ASSUME NEW w \in F, w \notin Newer(v), w # v PROVE FALSE
        OBVIOUS
      <4>1. w \in S /\ v \in S /\ v \in Newer(w) /\ Newer(v) \subseteq Newer(w)
        BY <1>2, <1>3, <1>4
      <4>2. F \ Newer(w) \in C /\ F \ Newer(w) \subseteq a
        BY <3>3, <4>1
      <4>3. F \ Newer(w) = F \ Newer(v)
        BY <3>2, <3>3, <4>2
      <4> QED
        BY <1>2, <1>4, <3>3, <4>1, <4>3
    <3>5. IsFiniteSet(Newer(v) \cup {v}) /\ Cardinality(Newer(v) \cup {v}) <= P
      <4>1. Cardinality(Newer(v)) < P /\ Cardinality(Newer(v)) \in Nat /\ v \notin Newer(v)
        BY <1>1, <1>2, <1>4, <3>3
      <4>2. Cardinality(Newer(v) \cup {v}) = Cardinality(Newer(v)) + 1
        BY <1>1, <1>4, <3>3, <4>1, FS_AddElement
      <4> QED
        BY <1>1, <1>4, <3>3, <4>1, <4>2, FS_AddElement
    <3>6. Cardinality(F) <= Cardinality(Newer(v) \cup {v}) /\ Cardinality(Newer(v) \cup {v}) \in Nat
      BY <3>4, <3>5, FS_Subset, FS_CardinalityType
    <3> QED
      BY <1>5, <3>5, <3>6
  <2> QED
    BY <2>1, <2>2
<1>9. \A v \in F : v.id > x.id
  BY <1>3, <1>4, <1>6, <1>10
<1> QED
  BY <1>5, <1>7, <1>8, <1>9

ReviewDoc == [id : 1..MaxReviews, user : {"one", "two"}, restaurant : {"place"}, rating : Given]
DialogState ==
  [post : {"idle", "sent", "created", "failed"}, stars : Given \cup {0}, id : 0..MaxReviews]

ReviewsTyped ==
  /\ reviews \subseteq ReviewDoc /\ lastId \in 0..MaxReviews
  /\ list \in [{"tab"} -> RestaurantPage!Entries(SUBSET ReviewDoc)]
  /\ list["tab"].fetch = "answered" => list["tab"].answer \subseteq ReviewDoc
  /\ dialog \in [{"tab"} -> DialogState]
  /\ dialog["tab"].post = "sent" => dialog["tab"].stars \in Given
  /\ own \in [{"tab"} -> 0..MaxReviews \cup {None}]

\* Ids are given once.
ReviewsUnique ==
  /\ IsFiniteSet(reviews)
  /\ \A v \in reviews : v.id <= lastId
  /\ \A v, w \in reviews : v.id = w.id => v = w

\* The list has the review that the tab was told of, or is full of newer ones.
HasOwn(l) ==
  \/ \E v \in l : v.id = own["tab"]
  \/ Cardinality(l) = PageSize /\ \A v \in l : v.id > own["tab"]

\* The ids that the tab was told of were given, and an answer on its way to it was read
\* after its review was stored, unless the review has been deleted.
OwnReviewSound ==
  /\ dialog["tab"].post = "created" => dialog["tab"].id <= lastId
  /\ own["tab"] # None => own["tab"] <= lastId
  /\ own["tab"] # None /\ list["tab"].fetch = "answered" /\ (\E v \in reviews : v.id = own["tab"])
       => HasOwn(list["tab"].answer)

ReviewsIInv == ReviewsTyped /\ ReviewsUnique /\ OwnReviewSound

\* The inductive invariant: where drivers are rated there are no reviews.
ReviewPagesIInv ==
  IF moving = "ratings" THEN reviews = {} /\ dialog["tab"].post = "idle" /\ own["tab"] = None
  ELSE ReviewsIInv

LEMMA InitReviews == Init => ReviewsIInv /\ ReviewPagesIInv
<1> SUFFICES ASSUME Init PROVE ReviewsIInv /\ ReviewPagesIInv
  OBVIOUS
<1>1. /\ reviews = {} /\ lastId = 0 /\ list = [t \in {"tab"} |-> RestaurantPage!Fresh]
      /\ dialog = [t \in {"tab"} |-> RestaurantPage!Unused] /\ own = [t \in {"tab"} |-> None]
  BY DEF Init, RestaurantPage!Init, Ratings!Init, RestaurantPage!Fresh, Ratings!Fresh,
         RestaurantPage!Unused, Ratings!Unused
<1>2. RestaurantPage!Unused \in DialogState /\ 0 \in 0..MaxReviews
  BY SizesAssumption DEF RestaurantPage!Unused, DialogState
<1>3. ReviewsTyped
  BY <1>1, <1>2 DEF ReviewsTyped, RestaurantPage!Fresh, RestaurantPage!Entries, RestaurantPage!Unused
<1>4. ReviewsUnique
  BY <1>1, FS_EmptySet DEF ReviewsUnique
<1>5. OwnReviewSound
  BY <1>1 DEF OwnReviewSound, RestaurantPage!Unused
<1> QED
  BY <1>1, <1>3, <1>4, <1>5 DEF ReviewsIInv, ReviewPagesIInv, RestaurantPage!Unused

\* The module of the page counts as this one does.
LEMMA SameCardinality == \A S : RestaurantPage!Cardinality(S) = Cardinality(S)
BY DEF RestaurantPage!Cardinality, Cardinality

\* What is read for a page has a review, or is full of newer ones.
LEMMA FirstPageFull ==
  ASSUME ReviewsTyped, ReviewsUnique
  PROVE  /\ RestaurantPage!FirstPage("place") \subseteq reviews
         /\ \A x \in reviews :
              \/ x \in RestaurantPage!FirstPage("place")
              \/ /\ Cardinality(RestaurantPage!FirstPage("place")) = PageSize
                 /\ \A v \in RestaurantPage!FirstPage("place") : v.id > x.id
<1>1. \A v \in reviews : v.restaurant = "place" /\ v.id \in Nat
  BY SizesAssumption DEF ReviewsTyped, ReviewDoc
<1>2. RestaurantPage!Of("place") = reviews
  BY <1>1 DEF RestaurantPage!Of
<1> DEFINE R == RestaurantPage!Of("place")
<1>3. RestaurantPage!FirstPage("place") = {v \in R : Cardinality({w \in R : w.id > v.id}) < PageSize}
  <2> DEFINE Newer(v) == {w \in R : w.id > v.id}
  <2>1. RestaurantPage!FirstPage("place") = {v \in R : RestaurantPage!Cardinality(Newer(v)) < PageSize}
    BY DEF RestaurantPage!FirstPage
  <2>2. \A v \in R : RestaurantPage!Cardinality(Newer(v)) = Cardinality(Newer(v))
    BY SameCardinality
  <2> HIDE DEF Newer, R
  <2>3. RestaurantPage!FirstPage("place") = {v \in R : Cardinality(Newer(v)) < PageSize}
    BY <2>1, <2>2
  <2> QED
    BY <2>3 DEF Newer
<1> HIDE DEF R
<1>4. R = reviews
  BY <1>2 DEF R
<1>5. \A x \in R : \/ x \in RestaurantPage!FirstPage("place")
                  \/ /\ Cardinality(RestaurantPage!FirstPage("place")) = PageSize
                     /\ \A v \in RestaurantPage!FirstPage("place") : v.id > x.id
  <2>1. IsFiniteSet(R) /\ (\A v \in R : v.id \in Nat) /\ \A v, w \in R : v.id = w.id => v = w
    BY <1>1, <1>4 DEF ReviewsUnique
  <2> QED
    BY <1>3, <2>1, SizesAssumption, NewestFill
<1> QED
  BY <1>3, <1>4, <1>5

\* The collection changes, and no id is given again.
LEMMA ReviewsMove ==
  ASSUME ReviewsIInv, reviews' \subseteq ReviewDoc, lastId' \in 0..MaxReviews, lastId <= lastId',
         ReviewsUnique', UNCHANGED <<list, own>>,
         \A v \in reviews' : v.id <= lastId => \E w \in reviews : w.id = v.id
  PROVE  /\ own["tab"] # None => own["tab"] <= lastId'
         /\ own["tab"] # None /\ list["tab"].fetch = "answered" /\ (\E v \in reviews' : v.id = own["tab"])
              => HasOwn(list["tab"].answer)
<1>1. own["tab"] # None => own["tab"] \in Nat /\ own["tab"] <= lastId
  BY SizesAssumption DEF ReviewsIInv, ReviewsTyped, OwnReviewSound
<1>2. lastId \in Nat /\ lastId' \in Nat
  BY SizesAssumption DEF ReviewsIInv, ReviewsTyped
<1>3. own["tab"] # None /\ (\E v \in reviews' : v.id = own["tab"]) => \E v \in reviews : v.id = own["tab"]
  BY <1>1
<1> QED
  BY <1>1, <1>2, <1>3 DEF ReviewsIInv, OwnReviewSound

\* A review is stored.
LEMMA ReviewStored ==
  ASSUME ReviewsIInv, NEW u \in {"one", "two"}, NEW n \in Given,
         RestaurantPage!CreateReview(u, "place", n)
  PROVE  /\ reviews' \subseteq ReviewDoc /\ lastId' \in 0..MaxReviews /\ lastId' = lastId + 1
         /\ ReviewsUnique'
         /\ \A v \in reviews' : v.id <= lastId => \E w \in reviews : w.id = v.id
<1> DEFINE new == [id |-> lastId + 1, user |-> u, restaurant |-> "place", rating |-> n]
<1>1. /\ lastId < MaxReviews /\ lastId' = lastId + 1 /\ reviews' = reviews \cup {new}
  BY DEF RestaurantPage!CreateReview
<1>2. lastId \in Nat /\ lastId' \in 0..MaxReviews /\ lastId + 1 \in 1..MaxReviews
  BY <1>1, SizesAssumption DEF ReviewsIInv, ReviewsTyped
<1>3. new \in ReviewDoc /\ new.id = lastId + 1
  BY <1>2 DEF ReviewDoc
<1> HIDE DEF new
<1>4. reviews' \subseteq ReviewDoc
  BY <1>1, <1>3 DEF ReviewsIInv, ReviewsTyped
<1>5. \A v \in reviews : v.id \in Nat /\ v.id <= lastId
  BY SizesAssumption DEF ReviewsIInv, ReviewsTyped, ReviewsUnique, ReviewDoc
<1>6. IsFiniteSet(reviews')
  BY <1>1, FS_AddElement DEF ReviewsIInv, ReviewsUnique
<1>7. \A v \in reviews' : v.id <= lastId'
  BY <1>1, <1>2, <1>3, <1>5
<1>8. \A v, w \in reviews' : v.id = w.id => v = w
  BY <1>1, <1>2, <1>3, <1>5 DEF ReviewsIInv, ReviewsUnique
<1>9. \A v \in reviews' : v.id <= lastId => \E w \in reviews : w.id = v.id
  BY <1>1, <1>2, <1>3
<1> QED
  BY <1>1, <1>2, <1>4, <1>6, <1>7, <1>8, <1>9 DEF ReviewsUnique

\* A review gets another rating, or is deleted.
LEMMA ReviewChanged ==
  ASSUME ReviewsIInv, NEW v \in reviews,
         \/ reviews' = reviews \ {v}
         \/ \E n \in Given : reviews' = (reviews \ {v}) \cup {[v EXCEPT !.rating = n]},
         UNCHANGED lastId
  PROVE  /\ reviews' \subseteq ReviewDoc /\ ReviewsUnique'
         /\ \A x \in reviews' : x.id <= lastId => \E w \in reviews : w.id = x.id
<1>1. v \in ReviewDoc /\ reviews \subseteq ReviewDoc
  BY DEF ReviewsIInv, ReviewsTyped
<1>2. IsFiniteSet(reviews \ {v})
  BY FS_RemoveElement DEF ReviewsIInv, ReviewsUnique
<1>3. CASE reviews' = reviews \ {v}
  BY <1>1, <1>2, <1>3 DEF ReviewsIInv, ReviewsUnique
<1>4. CASE \E n \in Given : reviews' = (reviews \ {v}) \cup {[v EXCEPT !.rating = n]}
  <2>1. PICK n \in Given : reviews' = (reviews \ {v}) \cup {[v EXCEPT !.rating = n]}
    BY <1>4
  <2> DEFINE new == [v EXCEPT !.rating = n]
  <2>2. new \in ReviewDoc /\ new.id = v.id
    BY <1>1 DEF ReviewDoc
  <2>3. reviews' = (reviews \ {v}) \cup {new}
    BY <2>1
  <2> HIDE DEF new
  <2>4. IsFiniteSet(reviews')
    BY <1>2, <2>3, FS_AddElement
  <2>5. \A x \in reviews' : x.id <= lastId /\ \E w \in reviews : w.id = x.id
    BY <2>2, <2>3 DEF ReviewsIInv, ReviewsUnique
  <2>6. \A x, w \in reviews' : x.id = w.id => x = w
    BY <2>2, <2>3 DEF ReviewsIInv, ReviewsUnique
  <2>7. reviews' \subseteq ReviewDoc
    BY <1>1, <2>2, <2>3
  <2> QED
    BY <2>4, <2>5, <2>6, <2>7 DEF ReviewsUnique
<1> QED
  BY <1>3, <1>4

\* Other clients store, change and delete reviews.
LEMMA OtherClients ==
  ASSUME ReviewsIInv,
         \/ \E u \in {"one", "two"}, r \in {"place"}, n \in Given : RestaurantPage!OtherClient(u, r, n)
         \/ \E i \in 1..MaxReviews : RestaurantPage!DeleteReview(i)
                                     \/ \E n \in Given : RestaurantPage!UpdateReview(i, n)
  PROVE  ReviewsIInv'
<1>1. UNCHANGED <<list, dialog, own>>
  BY DEF RestaurantPage!OtherClient, RestaurantPage!DeleteReview, RestaurantPage!UpdateReview,
         RestaurantPage!pages
<1>2. lastId \in Nat
  BY SizesAssumption DEF ReviewsIInv, ReviewsTyped
<1>3. /\ reviews' \subseteq ReviewDoc /\ lastId' \in 0..MaxReviews /\ lastId <= lastId' /\ ReviewsUnique'
      /\ \A v \in reviews' : v.id <= lastId => \E w \in reviews : w.id = v.id
  <2>1. CASE \E u \in {"one", "two"}, r \in {"place"}, n \in Given : RestaurantPage!OtherClient(u, r, n)
    <3>1. PICK u \in {"one", "two"}, n \in Given : RestaurantPage!CreateReview(u, "place", n)
      BY <2>1 DEF RestaurantPage!OtherClient
    <3> QED
      BY <1>2, <3>1, ReviewStored
  <2>2. CASE \E i \in 1..MaxReviews : RestaurantPage!DeleteReview(i)
    <3>1. UNCHANGED lastId /\ \E v \in reviews : reviews' = reviews \ {v}
      BY <2>2 DEF RestaurantPage!DeleteReview
    <3> QED
      BY <1>2, <3>1, ReviewChanged DEF ReviewsIInv, ReviewsTyped
  <2>3. CASE \E i \in 1..MaxReviews : \E n \in Given : RestaurantPage!UpdateReview(i, n)
    <3>1. UNCHANGED lastId
          /\ \E v \in reviews : \E n \in Given : reviews' = (reviews \ {v}) \cup {[v EXCEPT !.rating = n]}
      BY <2>3 DEF RestaurantPage!UpdateReview
    <3> QED
      BY <1>2, <3>1, ReviewChanged DEF ReviewsIInv, ReviewsTyped
  <2> QED
    BY <2>1, <2>2, <2>3
<1>4. ReviewsTyped'
  BY <1>1, <1>3 DEF ReviewsIInv, ReviewsTyped
<1>5. dialog["tab"].post = "created" => dialog["tab"].id <= lastId'
  <2>1. dialog["tab"].id \in Nat /\ lastId' \in Nat
    BY <1>3, SizesAssumption DEF ReviewsIInv, ReviewsTyped, DialogState
  <2> QED
    BY <1>2, <1>3, <2>1 DEF ReviewsIInv, OwnReviewSound
<1>6. OwnReviewSound'
  BY <1>1, <1>3, <1>5, ReviewsMove DEF OwnReviewSound, HasOwn
<1> QED
  BY <1>3, <1>4, <1>6 DEF ReviewsIInv

\* The queries of the page.
LEMMA ReviewsQueried ==
  ASSUME ReviewsIInv,
         \/ RestaurantPage!Mount("tab") \/ RestaurantPage!GetReviewsByRestaurantId("tab")
         \/ RestaurantPage!ShowList("tab") \/ RestaurantPage!ListFails("tab")
  PROVE  ReviewsIInv'
<1> DEFINE q == list["tab"]
           r == list'["tab"]
<1>1. UNCHANGED <<reviews, lastId, dialog, own>>
  BY DEF RestaurantPage!Mount, RestaurantPage!GetReviewsByRestaurantId, RestaurantPage!ShowList,
         RestaurantPage!ListFails, RestaurantPage!Service
<1>2. ReviewsTyped /\ q \in RestaurantPage!Entries(SUBSET ReviewDoc)
  BY DEF ReviewsIInv, ReviewsTyped
<1>3. /\ list' \in [{"tab"} -> RestaurantPage!Entries(SUBSET ReviewDoc)]
      /\ r.fetch = "answered" =>
           \/ q.fetch = "answered" /\ r.answer = q.answer
           \/ r.answer = RestaurantPage!FirstPage("place")
  <2>1. CASE RestaurantPage!Mount("tab")
    <3>1. list' = [list EXCEPT !["tab"] = IF q.fetch = "idle" THEN [q EXCEPT !.fetch = "sent"] ELSE q]
      BY <2>1 DEF RestaurantPage!Mount, RestaurantPage!Fetching
    <3>2. [q EXCEPT !.fetch = "sent"] \in RestaurantPage!Entries(SUBSET ReviewDoc)
      BY <1>2 DEF RestaurantPage!Entries
    <3> QED
      BY <1>2, <3>1, <3>2 DEF ReviewsTyped, RestaurantPage!Entries
  <2>2. CASE RestaurantPage!GetReviewsByRestaurantId("tab")
    <3> DEFINE first == RestaurantPage!FirstPage("place")
    <3>1. list' = [list EXCEPT !["tab"] = [q EXCEPT !.fetch = "answered", !.answer = first]]
      BY <2>2 DEF RestaurantPage!GetReviewsByRestaurantId, RestaurantPage!Served
    <3>2. first \in SUBSET ReviewDoc
      BY <1>2, FirstPageFull DEF ReviewsIInv, ReviewsTyped
    <3> HIDE DEF first
    <3>3. [q EXCEPT !.fetch = "answered", !.answer = first] \in RestaurantPage!Entries(SUBSET ReviewDoc)
      BY <1>2, <3>2 DEF RestaurantPage!Entries
    <3>4. [q EXCEPT !.fetch = "answered", !.answer = first].answer = first
      BY <1>2 DEF RestaurantPage!Entries
    <3>5. list' \in [{"tab"} -> RestaurantPage!Entries(SUBSET ReviewDoc)] /\ r.answer = first
      BY <1>2, <3>1, <3>3, <3>4 DEF ReviewsTyped
    <3> QED
      BY <3>5 DEF first
  <2>3. CASE RestaurantPage!ShowList("tab")
    <3>1. list' = [list EXCEPT !["tab"] = [data |-> q.answer, fetch |-> "idle", answer |-> NoData]]
      BY <2>3 DEF RestaurantPage!ShowList, RestaurantPage!Filled
    <3>2. [data |-> q.answer, fetch |-> "idle", answer |-> NoData]
             \in RestaurantPage!Entries(SUBSET ReviewDoc)
      BY <1>2 DEF RestaurantPage!Entries
    <3> QED
      BY <1>2, <3>1, <3>2 DEF ReviewsTyped
  <2>4. CASE RestaurantPage!ListFails("tab")
    <3>1. list' = [list EXCEPT !["tab"] = [q EXCEPT !.fetch = "idle", !.answer = NoData]]
      BY <2>4 DEF RestaurantPage!ListFails, RestaurantPage!Failed
    <3>2. [q EXCEPT !.fetch = "idle", !.answer = NoData] \in RestaurantPage!Entries(SUBSET ReviewDoc)
      BY <1>2 DEF RestaurantPage!Entries
    <3> QED
      BY <1>2, <3>1, <3>2 DEF ReviewsTyped, RestaurantPage!Entries
  <2> QED
    BY <2>1, <2>2, <2>3, <2>4
<1> HIDE DEF q, r
<1>4. RestaurantPage!FirstPage("place") \subseteq ReviewDoc
  BY FirstPageFull DEF ReviewsIInv, ReviewsTyped
<1>5. r.fetch = "answered" => r.answer \subseteq ReviewDoc
  BY <1>2, <1>3, <1>4 DEF ReviewsTyped, q
<1>6. ReviewsTyped'
  BY <1>1, <1>2, <1>3, <1>5 DEF ReviewsTyped, r
<1>7. ReviewsUnique'
  BY <1>1 DEF ReviewsIInv, ReviewsUnique
<1>8. (\E v \in reviews : v.id = own["tab"]) => HasOwn(RestaurantPage!FirstPage("place"))
  BY FirstPageFull DEF ReviewsIInv, HasOwn
<1>9. /\ dialog["tab"].post = "created" => dialog["tab"].id <= lastId
      /\ own["tab"] # None => own["tab"] <= lastId
      /\ own["tab"] # None /\ r.fetch = "answered" /\ (\E v \in reviews : v.id = own["tab"]) => HasOwn(r.answer)
  BY <1>3, <1>8 DEF ReviewsIInv, OwnReviewSound, q
<1>10. OwnReviewSound'
  BY <1>1, <1>9 DEF OwnReviewSound, HasOwn, r
<1> QED
  BY <1>6, <1>7, <1>10 DEF ReviewsIInv

\* The dialog sends a review and is answered.
LEMMA ReviewPosted ==
  ASSUME ReviewsIInv,
         \/ \E n \in Given : RestaurantPage!HandleSubmit("tab", n)
         \/ RestaurantPage!Post("tab") \/ RestaurantPage!SubmitFailed("tab")
  PROVE  ReviewsIInv'
<1> DEFINE d == dialog["tab"]
<1>1. UNCHANGED <<list, own>> /\ d \in DialogState /\ lastId \in Nat /\ lastId \in 0..MaxReviews
  BY SizesAssumption DEF RestaurantPage!HandleSubmit, RestaurantPage!Post, RestaurantPage!SubmitFailed,
         RestaurantPage!Service, ReviewsIInv, ReviewsTyped
<1> DEFINE Moved == /\ reviews' \subseteq ReviewDoc /\ lastId' \in 0..MaxReviews /\ lastId <= lastId'
                    /\ ReviewsUnique'
                    /\ \A v \in reviews' : v.id <= lastId => \E w \in reviews : w.id = v.id
<1>2. CASE /\ Moved /\ dialog' \in [{"tab"} -> DialogState]
           /\ dialog'["tab"].post = "sent" => dialog'["tab"].stars \in Given
           /\ dialog'["tab"].post = "created" => dialog'["tab"].id <= lastId'
  <2>1. ReviewsTyped'
    BY <1>1, <1>2 DEF ReviewsIInv, ReviewsTyped
  <2>2. OwnReviewSound'
    BY <1>1, <1>2, ReviewsMove DEF OwnReviewSound, HasOwn
  <2> QED
    BY <1>2, <2>1, <2>2 DEF ReviewsIInv
<1>6. UNCHANGED <<reviews, lastId>> => Moved
  BY <1>1 DEF ReviewsIInv, ReviewsTyped, ReviewsUnique
<1> HIDE DEF Moved
<1>3. CASE \E n \in Given : RestaurantPage!HandleSubmit("tab", n)
  <2>1. PICK n \in Given : RestaurantPage!HandleSubmit("tab", n)
    BY <1>3
  <2>2. dialog' = [dialog EXCEPT !["tab"] = [d EXCEPT !.post = "sent", !.stars = n]]
    BY <2>1 DEF RestaurantPage!HandleSubmit, ReviewsIInv, ReviewsTyped
  <2>3. /\ [d EXCEPT !.post = "sent", !.stars = n] \in DialogState
        /\ [d EXCEPT !.post = "sent", !.stars = n].post = "sent"
        /\ [d EXCEPT !.post = "sent", !.stars = n].stars = n
    BY <1>1 DEF DialogState
  <2>4. UNCHANGED <<reviews, lastId>>
    BY <2>1 DEF RestaurantPage!HandleSubmit, RestaurantPage!Service
  <2>5. dialog' \in [{"tab"} -> DialogState] /\ dialog'["tab"].post = "sent" /\ dialog'["tab"].stars = n
    BY <2>2, <2>3 DEF ReviewsIInv, ReviewsTyped
  <2> QED
    BY <1>2, <1>6, <2>4, <2>5
<1>4. CASE RestaurantPage!SubmitFailed("tab")
  <2>1. UNCHANGED <<reviews, lastId>> /\ dialog' = [dialog EXCEPT !["tab"] = RestaurantPage!Unused]
    BY <1>4 DEF RestaurantPage!SubmitFailed, RestaurantPage!Service
  <2>2. RestaurantPage!Unused \in DialogState /\ RestaurantPage!Unused.post = "idle"
    BY SizesAssumption DEF RestaurantPage!Unused, DialogState
  <2>3. dialog' \in [{"tab"} -> DialogState] /\ dialog'["tab"].post = "idle"
    BY <2>1, <2>2 DEF ReviewsIInv, ReviewsTyped
  <2> QED
    BY <1>2, <1>6, <2>1, <2>3
<1>5. CASE RestaurantPage!Post("tab")
  <2>1. ASSUME RestaurantPage!CreateReview("one", "place", d.stars)
        PROVE  Moved /\ lastId' \in 0..MaxReviews
    <3>1. d.stars \in Given
      BY <1>5 DEF RestaurantPage!Post, ReviewsIInv, ReviewsTyped
    <3> QED
      BY <1>1, <2>1, <3>1, ReviewStored DEF Moved
  <2>2. CASE /\ RestaurantPage!CreateReview("one", "place", d.stars)
             /\ dialog' = [dialog EXCEPT !["tab"].post = "created", !["tab"].id = lastId']
    <3>1. dialog' = [dialog EXCEPT !["tab"] = [d EXCEPT !.post = "created", !.id = lastId']]
      BY <2>2 DEF ReviewsIInv, ReviewsTyped
    <3>2. /\ [d EXCEPT !.post = "created", !.id = lastId'] \in DialogState
          /\ [d EXCEPT !.post = "created", !.id = lastId'].post = "created"
          /\ [d EXCEPT !.post = "created", !.id = lastId'].id = lastId'
      BY <1>1, <2>1, <2>2 DEF DialogState
    <3>3. /\ dialog' \in [{"tab"} -> DialogState] /\ dialog'["tab"].post = "created"
          /\ dialog'["tab"].id = lastId'
      BY <3>1, <3>2 DEF ReviewsIInv, ReviewsTyped
    <3>4. dialog'["tab"].id <= lastId'
      BY <2>1, <2>2, <3>3, SizesAssumption
    <3> QED
      BY <1>2, <2>1, <2>2, <3>3, <3>4
  <2>3. CASE /\ \/ RestaurantPage!CreateReview("one", "place", d.stars)
                \/ UNCHANGED <<reviews, lastId>>
             /\ dialog' = [dialog EXCEPT !["tab"].post = "failed"]
    <3>1. dialog' = [dialog EXCEPT !["tab"] = [d EXCEPT !.post = "failed"]]
      BY <2>3 DEF ReviewsIInv, ReviewsTyped
    <3>2. [d EXCEPT !.post = "failed"] \in DialogState /\ [d EXCEPT !.post = "failed"].post = "failed"
      BY <1>1 DEF DialogState
    <3>3. dialog' \in [{"tab"} -> DialogState] /\ dialog'["tab"].post = "failed"
      BY <3>1, <3>2 DEF ReviewsIInv, ReviewsTyped
    <3> QED
      BY <1>2, <1>6, <2>1, <2>3, <3>3
  <2> QED
    BY <1>5, <2>2, <2>3 DEF RestaurantPage!Post, RestaurantPage!Service
<1> QED
  BY <1>3, <1>4, <1>5

\* The page is told that its review is stored: a fetch under way is cancelled.
LEMMA ReviewSubmitted ==
  ASSUME ReviewsIInv, RestaurantPage!Submitted("tab")
  PROVE  ReviewsIInv'
<1> DEFINE d == dialog["tab"]
           q == list["tab"]
           next == RestaurantPage!Invalidated(q)
<1>1. /\ d.post = "created" /\ UNCHANGED <<reviews, lastId>>
      /\ dialog' = [dialog EXCEPT !["tab"] = RestaurantPage!Unused]
      /\ own' = [own EXCEPT !["tab"] = IF q.data = NoData THEN None ELSE d.id]
      /\ list' = [list EXCEPT !["tab"] = next]
  BY DEF RestaurantPage!Submitted, RestaurantPage!InvalidateReviews, RestaurantPage!Service
<1>2. d \in DialogState /\ q \in RestaurantPage!Entries(SUBSET ReviewDoc)
  BY DEF ReviewsIInv, ReviewsTyped
<1>3. RestaurantPage!Unused \in DialogState /\ RestaurantPage!Unused.post = "idle"
  BY SizesAssumption DEF RestaurantPage!Unused, DialogState
<1>4. /\ next \in RestaurantPage!Entries(SUBSET ReviewDoc)
      /\ next = q \/ next.fetch = "sent"
      /\ q.data # NoData => next.fetch = "sent"
  BY <1>2 DEF RestaurantPage!Invalidated, RestaurantPage!Entries
<1> HIDE DEF next
<1>5. /\ list' \in [{"tab"} -> RestaurantPage!Entries(SUBSET ReviewDoc)] /\ list'["tab"] = next
      /\ dialog' \in [{"tab"} -> DialogState] /\ dialog'["tab"].post = "idle"
  BY <1>1, <1>3, <1>4 DEF ReviewsIInv, ReviewsTyped
<1>6. /\ own' \in [{"tab"} -> 0..MaxReviews \cup {None}]
      /\ own'["tab"] = None \/ (own'["tab"] = d.id /\ next.fetch = "sent")
  BY <1>1, <1>2, <1>4 DEF ReviewsIInv, ReviewsTyped, DialogState
<1>7. ReviewsTyped'
  BY <1>1, <1>4, <1>5, <1>6 DEF ReviewsIInv, ReviewsTyped
<1>8. OwnReviewSound'
  BY <1>1, <1>5, <1>6 DEF ReviewsIInv, OwnReviewSound
<1> QED
  BY <1>1, <1>7, <1>8 DEF ReviewsIInv, ReviewsUnique

\* The header, and ratings of drivers, touch nothing of this.
LEMMA OtherReviewSteps ==
  ASSUME ReviewsIInv, UNCHANGED <<reviews, lastId, list, dialog, own>>
  PROVE  ReviewsIInv'
BY DEF ReviewsIInv, ReviewsTyped, ReviewsUnique, OwnReviewSound, HasOwn

LEMMA StepReviews == ReviewsIInv /\ [RestaurantPage!Next]_reviewPagesVars => ReviewsIInv'
<1> SUFFICES ASSUME ReviewsIInv, [RestaurantPage!Next]_reviewPagesVars PROVE ReviewsIInv'
  OBVIOUS
<1>1. CASE RestaurantPage!GetAverageRating("tab") \/ RestaurantPage!ShowHeader("tab")
           \/ RestaurantPage!HeaderFails("tab")
  BY <1>1, OtherReviewSteps DEF RestaurantPage!GetAverageRating, RestaurantPage!ShowHeader,
     RestaurantPage!HeaderFails, RestaurantPage!Service
<1>2. CASE UNCHANGED reviewPagesVars
  BY <1>2, OtherReviewSteps DEF reviewPagesVars
<1> QED
  BY <1>1, <1>2, ReviewsQueried, ReviewPosted, ReviewSubmitted, OtherClients
     DEF RestaurantPage!Next, RestaurantPage!UserSteps

\* Where no review can be given there is none.
LEMMA NoReviewsStep ==
  ASSUME reviews = {}, dialog["tab"].post = "idle", own["tab"] = None, [Ratings!Next]_reviewPagesVars
  PROVE  UNCHANGED <<reviews, dialog, own>>
BY DEF Ratings!Next, Ratings!UserSteps, Ratings!Mount, Ratings!HandleSubmit, Ratings!Post,
       Ratings!Submitted, Ratings!SubmitFailed, Ratings!GetReviewsByRestaurantId, Ratings!ShowList,
       Ratings!ListFails, Ratings!HeaderFails, Ratings!GetAverageRating, Ratings!ShowHeader,
       Ratings!OtherClient, Ratings!DeleteReview,
       Ratings!UpdateReview, Ratings!AddDelivery, Ratings!HasUserRatedOrder, Ratings!CreateRating,
       Ratings!Service, Ratings!pages, Ratings!drivers, reviewPagesVars

LEMMA ReviewPagesInvariant == Spec => []ReviewPagesIInv
<1>1. Init => ReviewPagesIInv
  BY InitReviews
<1>2. ReviewPagesIInv /\ [Next]_vars => ReviewPagesIInv'
  <2> SUFFICES ASSUME ReviewPagesIInv, [Next]_vars PROVE ReviewPagesIInv'
    OBVIOUS
  <2>1. UNCHANGED moving
    BY DEF Next, vars
  <2>2. CASE moving = "ratings"
    <3>1. [Ratings!Next]_reviewPagesVars
      BY <2>2 DEF Next, vars
    <3> QED
      BY <2>1, <2>2, <3>1, NoReviewsStep DEF ReviewPagesIInv
  <2>3. CASE moving # "ratings"
    <3>1. [RestaurantPage!Next]_reviewPagesVars
      BY <2>3 DEF Next, vars
    <3> QED
      BY <2>1, <2>3, <3>1, StepReviews DEF ReviewPagesIInv
  <2> QED
    BY <2>2, <2>3
<1> QED
  BY <1>1, <1>2, PTL DEF Spec

\* What a page renders changes when an answer arrives, and becomes that answer.
LEMMA ListRendered ==
  ASSUME ReviewsIInv, [RestaurantPage!Next]_reviewPagesVars, list'["tab"].data # list["tab"].data
  PROVE  /\ list["tab"].fetch = "answered" /\ list'["tab"].data = list["tab"].answer
         /\ UNCHANGED <<reviews, own>>
<1> DEFINE q == list["tab"]
<1>1. q \in RestaurantPage!Entries(SUBSET ReviewDoc) /\ list \in [{"tab"} -> RestaurantPage!Entries(SUBSET ReviewDoc)]
  BY DEF ReviewsIInv, ReviewsTyped
<1>2. list' # list /\ RestaurantPage!Next
  BY DEF reviewPagesVars
<1>3. CASE RestaurantPage!ShowList("tab")
  <2>1. list' = [list EXCEPT !["tab"] = [data |-> q.answer, fetch |-> "idle", answer |-> NoData]]
        /\ q.fetch = "answered" /\ UNCHANGED <<reviews, own>>
    BY <1>3 DEF RestaurantPage!ShowList, RestaurantPage!Filled, RestaurantPage!Service
  <2> QED
    BY <1>1, <2>1
<1>4. CASE RestaurantPage!Mount("tab") \/ RestaurantPage!Submitted("tab")
           \/ RestaurantPage!GetReviewsByRestaurantId("tab") \/ RestaurantPage!ListFails("tab")
  <2>1. PICK x \in {RestaurantPage!Fetching(q), RestaurantPage!Invalidated(q), RestaurantPage!Failed(q),
                    RestaurantPage!Served(q, RestaurantPage!FirstPage("place"))} :
           list' = [list EXCEPT !["tab"] = x]
    BY <1>4 DEF RestaurantPage!Mount, RestaurantPage!Submitted, RestaurantPage!InvalidateReviews,
                RestaurantPage!GetReviewsByRestaurantId, RestaurantPage!ListFails
  <2>2. x.data = q.data
    BY <1>1, <2>1 DEF RestaurantPage!Fetching, RestaurantPage!Invalidated, RestaurantPage!Served,
                      RestaurantPage!Failed, RestaurantPage!Entries
  <2>3. list'["tab"].data = q.data
    BY <1>1, <2>1, <2>2
  <2> QED
    BY <2>3
<1> QED
  BY <1>2, <1>3, <1>4
     DEF RestaurantPage!Next, RestaurantPage!UserSteps, RestaurantPage!HandleSubmit, RestaurantPage!Post,
         RestaurantPage!SubmitFailed, RestaurantPage!GetAverageRating, RestaurantPage!ShowHeader,
         RestaurantPage!HeaderFails, RestaurantPage!OtherClient, RestaurantPage!DeleteReview, RestaurantPage!UpdateReview,
         RestaurantPage!AddDelivery, RestaurantPage!HasUserRatedOrder, RestaurantPage!CreateRating,
         RestaurantPage!pages

\* A list rendered after the tab was told of its review has the review, or is full of newer
\* ones.
LEMMA OwnReviewRendered ==
  ASSUME ReviewPagesIInv, [Next]_vars, own["tab"] # None,
         NEW v \in reviews, v.id = own["tab"],
         RestaurantPage!Shown("tab")' # RestaurantPage!Shown("tab")
  PROVE  \/ \E w \in RestaurantPage!Shown("tab")' : w.id = own["tab"]
         \/ /\ RestaurantPage!Cardinality(RestaurantPage!Shown("tab")') = PageSize
            /\ \A w \in RestaurantPage!Shown("tab")' : w.id > own["tab"]
<1>1. moving # "ratings" /\ ReviewsIInv
  BY DEF ReviewPagesIInv
<1>2. [RestaurantPage!Next]_reviewPagesVars
  BY <1>1 DEF Next, vars
<1>3. list'["tab"].data # list["tab"].data
  BY DEF RestaurantPage!Shown
<1>4. list["tab"].fetch = "answered" /\ list'["tab"].data = list["tab"].answer
  BY <1>1, <1>2, <1>3, ListRendered
<1>5. list["tab"].answer \subseteq ReviewDoc /\ HasOwn(list["tab"].answer)
  BY <1>1, <1>4 DEF ReviewsIInv, ReviewsTyped, OwnReviewSound
<1>6. list["tab"].answer # NoData
  BY <1>5, NothingAssumption DEF ReviewDoc
<1>7. RestaurantPage!Shown("tab")' = list["tab"].answer
  BY <1>4, <1>6 DEF RestaurantPage!Shown
<1> QED
  BY <1>5, <1>7, SameCardinality DEF HasOwn

\* A page told that its review is stored never renders a list read before: it shows the
\* review, or a page full of newer ones, unless the review was deleted (review-service
\* getReviewsByRestaurantId; web-ui RatingDialog and RestaurantReviews).
THEOREM OwnReviewStays == Spec => OwnReviewKept
<1>1. ReviewPagesIInv /\ [Next]_vars => [RestaurantPage!RendersOwnReview]_RestaurantPage!vars
  BY OwnReviewRendered DEF RestaurantPage!RendersOwnReview
<1>2. Spec => RestaurantPage!OwnReviewNotLost
  BY <1>1, ReviewPagesInvariant, PTL DEF Spec, RestaurantPage!OwnReviewNotLost
<1> QED
  BY <1>2, PTL DEF OwnReviewKept

-----------------------------------------------------------------------------
(* The types of the sign-in pages.                                         *)

\* A call for the URL is one of an attempt, and what is registered was typed.
CallsNamed ==
  \A c \in Two : call[c].at # "idle" =>
    /\ call[c].op = "start" => call[c].attempt \in Two
    /\ call[c].op = "register" => call[c].email = "mail" /\ call[c].password = "word"

\* The collection of users and the reports about it; the page and its buttons; the popup.
UsersTyped ==
  /\ users \in [{"old", "new"} -> [email : {"mail"}, password : {"word", Empty}] \cup {Accounts!NoAccount}]
  /\ refused \subseteq registered /\ registered \subseteq {"mail"} \X {"word"}
PageTyped ==
  /\ page \in {"home", "login", "register"} /\ loading \subseteq {"login", "register", "google"}
  /\ signedIn \in {"old", "new", None} /\ attempts \subseteq Two
GoogleTyped == watching \subseteq Two /\ listening \subseteq Two /\ message.todo \subseteq Two

\* The inductive invariant of the types, beside SignInIInv.
AccountsIInv == CallsNamed /\ UsersTyped /\ PageTyped /\ GoogleTyped

\* At the start.
LEMMA InitAccounts == Accounts!Init => AccountsIInv
<1> SUFFICES ASSUME Accounts!Init PROVE AccountsIInv
  OBVIOUS
<1>1. CallsNamed
  BY DEF Accounts!Init, Accounts!Idle, CallsNamed
<1>2. UsersTyped
  BY DEF Accounts!Init, UsersTyped, Accounts!NoAccount
<1>3. PageTyped /\ GoogleTyped
  BY DEF Accounts!Init, PageTyped, GoogleTyped, Accounts!NoMessage
<1> QED
  BY <1>1, <1>2, <1>3 DEF AccountsIInv

\* The calls go on as they were: none begins an attempt or registers anybody.
CallsGoOn ==
  \A c \in Two :
    \/ call'[c].at = "idle" \/ call'[c].op \notin {"start", "register"}
    \/ /\ call'[c].op = call[c].op /\ call'[c].attempt = call[c].attempt /\ call[c].at # "idle"
       /\ call'[c].email = call[c].email /\ call'[c].password = call[c].password

\* An answer, the end of a call, a page that is left and a new call keep what is known of calls.
LEMMA AnsweredGoesOn ==
  ASSUME SignInIInv, NEW c \in Two, NEW ok, NEW u, call[c].at # "idle", Accounts!Answered(c, ok, u)
  PROVE  CallsGoOn /\ call'[c].ok = ok
<1>1. call \in [Two -> CallState]
  BY DEF SignInIInv, AttemptsTyped
<1>2. PICK q \in CallState : q = call[c]
  BY <1>1
<1>3. call' = [call EXCEPT ![c] = [q EXCEPT !.at = "answered", !.ok = ok, !.user = u]]
  BY <1>1, <1>2 DEF Accounts!Answered
<1>4. LET r == [q EXCEPT !.at = "answered", !.ok = ok, !.user = u]
      IN  r.op = q.op /\ r.attempt = q.attempt /\ r.email = q.email /\ r.password = q.password /\ r.ok = ok
  BY DEF CallState
<1>5. \A d \in Two : d # c => call'[d] = call[d]
  BY <1>1, <1>3
<1>6. call'[c] = [q EXCEPT !.at = "answered", !.ok = ok, !.user = u]
  BY <1>1, <1>3
<1> QED
  BY <1>2, <1>4, <1>5, <1>6 DEF CallsGoOn

\* A call ends.
LEMMA EndedGoesOn ==
  ASSUME SignInIInv, NEW c \in Two, call' = [call EXCEPT ![c] = Accounts!Idle]
  PROVE  CallsGoOn
<1>1. call \in [Two -> CallState]
  BY DEF SignInIInv, AttemptsTyped
<1>2. /\ \A d \in Two : d # c => call'[d] = call[d]
      /\ call'[c] = Accounts!Idle
  BY <1>1
<1> QED
  BY <1>2, IdleCall DEF CallsGoOn

\* The page is left: its calls are no longer of it.
LEMMA LeftGoesOn ==
  ASSUME SignInIInv, NEW p, NEW calls \in [Two -> CallState], Accounts!Mounted(p, calls),
         \/ calls = call \/ \E c \in Two : calls = [call EXCEPT ![c] = Accounts!Idle]
  PROVE  CallsGoOn
<1>1. call \in [Two -> CallState]
  BY DEF SignInIInv, AttemptsTyped
<1>2. call' = [c \in Two |-> [calls[c] EXCEPT !.here = FALSE]]
  BY DEF Accounts!Mounted
<1>3. ASSUME NEW q \in CallState
      PROVE  /\ [q EXCEPT !.here = FALSE].email = q.email
             /\ [q EXCEPT !.here = FALSE].password = q.password
  BY DEF CallState
<1>4. \A c \in Two :
        /\ call'[c].at = calls[c].at /\ call'[c].op = calls[c].op /\ call'[c].attempt = calls[c].attempt
        /\ call'[c].email = calls[c].email /\ call'[c].password = calls[c].password
  BY <1>2, <1>3, CallLosesPage
<1>5. \A c \in Two : calls[c] = call[c] \/ calls[c].at = "idle"
  BY <1>1, IdleCall
<1> QED
  BY <1>4, <1>5 DEF CallsGoOn

\* A call is sent.
LEMMA SentGoesOn ==
  ASSUME SignInIInv, CallsNamed, NEW c \in Two, NEW op, NEW e, NEW p, NEW a, Accounts!Send(c, op, e, p, a),
         op = "start" => a \in Two, op = "register" => e = "mail" /\ p = "word"
  PROVE  CallsNamed'
<1>1. call \in [Two -> CallState]
  BY DEF SignInIInv, AttemptsTyped
<1>2. /\ \A d \in Two : d # c => call'[d] = call[d]
      /\ call'[c].op = op /\ call'[c].attempt = a /\ call'[c].email = e /\ call'[c].password = p
  BY <1>1 DEF Accounts!Send
<1> QED
  BY <1>2 DEF CallsNamed

\* Calls that go on are named as before.
LEMMA NamesGoOn == ASSUME CallsNamed, CallsGoOn PROVE CallsNamed'
BY DEF CallsNamed, CallsGoOn

\* Without a change of the calls, neither does what they name.
LEMMA NamesStay == ASSUME CallsNamed, UNCHANGED call PROVE CallsNamed'
BY DEF CallsNamed

\* Every step keeps what calls name.
LEMMA StepCallsNamed == SignInIInv /\ CallsNamed /\ Accounts!Next => CallsNamed'
<1> SUFFICES ASSUME SignInIInv, CallsNamed, Accounts!Next PROVE CallsNamed'
  OBVIOUS
<1>1. call \in [Two -> CallState] /\ \A c \in Two : [call EXCEPT ![c] = Accounts!Idle] \in [Two -> CallState]
  BY IdleCall DEF SignInIInv, AttemptsTyped
<1>2. ASSUME NEW c \in Two, call[c].at # "idle", \E ok, u : Accounts!Answered(c, ok, u)
      PROVE  CallsNamed'
  BY <1>2, AnsweredGoesOn, NamesGoOn
<1>3. ASSUME NEW c \in Two, call' = [call EXCEPT ![c] = Accounts!Idle] PROVE CallsNamed'
  BY <1>3, EndedGoesOn, NamesGoOn
<1>4. ASSUME NEW c \in Two, NEW p, Accounts!Mounted(p, [call EXCEPT ![c] = Accounts!Idle]) PROVE CallsNamed'
  BY <1>1, <1>4, LeftGoesOn, NamesGoOn
<1>5. ASSUME NEW p, Accounts!GoTo(p) PROVE CallsNamed'
  <2>1. Accounts!Mounted(p, call)
    BY <1>5 DEF Accounts!GoTo
  <2> QED
    BY <1>1, <2>1, LeftGoesOn, NamesGoOn
<1>6. ASSUME NEW c \in Two, \/ \E e \in {"mail"} : \E p, q \in {"word"} : Accounts!SubmitRegister(c, e, p, q)
                            \/ \E e \in {"mail"} : \E p \in {"word"} : Accounts!SubmitLogin(c, e, p)
                            \/ \E a \in Two : Accounts!ClickGoogle(c, a) \/ Accounts!HandleMessage(a, c)
      PROVE  CallsNamed'
  <2>1. \E op, e, p, a : /\ Accounts!Send(c, op, e, p, a)
                         /\ op = "start" => a \in Two
                         /\ op = "register" => e = "mail" /\ p = "word"
    <3>1. ASSUME NEW a \in Two, Accounts!ClickGoogle(c, a) PROVE Accounts!Send(c, "start", None, None, a)
      BY <3>1 DEF Accounts!ClickGoogle
    <3>2. ASSUME NEW a \in Two, Accounts!HandleMessage(a, c)
          PROVE  Accounts!Send(c, "complete", None, None, message.attempt)
      BY <3>2 DEF Accounts!HandleMessage
    <3>3. ASSUME Accounts!SubmitLogin(c, "mail", "word") PROVE Accounts!Send(c, "login", "mail", "word", None)
      BY <3>3 DEF Accounts!SubmitLogin
    <3>4. ASSUME Accounts!SubmitRegister(c, "mail", "word", "word")
          PROVE  Accounts!Send(c, "register", "mail", "word", None)
      BY <3>4 DEF Accounts!SubmitRegister
    <3> QED
      BY <1>6, <3>1, <3>2, <3>3, <3>4
  <2> QED
    BY <2>1, SentGoesOn
<1>7. ASSUME NEW c \in Two,
             \/ Accounts!AnswerRegister(c) \/ Accounts!AnswerLogin(c) \/ Accounts!StartOAuth(c)
             \/ Accounts!AuthCallback(c) \/ Accounts!CallLost(c)
      PROVE  CallsNamed'
  <2>1. call[c].at # "idle" /\ \E ok, u : Accounts!Answered(c, ok, u)
    BY <1>7 DEF Accounts!AnswerRegister, Accounts!AnswerLogin, Accounts!StartOAuth, Accounts!AuthCallback,
                Accounts!CallLost
  <2> QED
    BY <1>2, <2>1
<1>8. ASSUME NEW c \in Two,
             \/ Accounts!SettleRegister(c) \/ Accounts!SettleLogin(c) \/ Accounts!OpenPopup(c)
             \/ Accounts!OauthComplete(c) \/ Accounts!StartLost(c)
      PROVE  CallsNamed'
  <2>1. \/ call' = [call EXCEPT ![c] = Accounts!Idle]
        \/ \E p : Accounts!Mounted(p, [call EXCEPT ![c] = Accounts!Idle])
    BY <1>8 DEF Accounts!SettleRegister, Accounts!SettleLogin, Accounts!OpenPopup, Accounts!OauthComplete,
                Accounts!StartLost, Accounts!SignedIn
  <2> QED
    BY <1>3, <1>4, <2>1
<1>9. ASSUME Accounts!ClosePopup \/ Accounts!OauthCallback \/ \E a \in Two : Accounts!CheckPopup(a)
      PROVE  CallsNamed'
  <2>1. UNCHANGED call
    BY <1>9 DEF Accounts!ClosePopup, Accounts!OauthCallback, Accounts!CheckPopup
  <2> QED
    BY <2>1, NamesStay
<1> QED
  BY <1>5, <1>6, <1>7, <1>8, <1>9 DEF Accounts!Next

\* Who is in the collection of users, and what was reported about it.
LEMMA StepUsers == SignInIInv /\ AccountsIInv /\ Accounts!Next => UsersTyped'
<1> SUFFICES ASSUME SignInIInv, AccountsIInv, Accounts!Next PROVE UsersTyped'
  OBVIOUS
<1>1. CallsNamed /\ UsersTyped
  BY DEF AccountsIInv
<1>2. ASSUME NEW c \in Two, Accounts!AnswerRegister(c) PROVE UsersTyped'
  <2>1. call[c].email = "mail"
    BY <1>1, <1>2 DEF CallsNamed, Accounts!AnswerRegister
  <2>2. /\ \/ users' = users
           \/ \E a \in {"old", "new"} : users' = [users EXCEPT ![a] = [email |-> "mail", password |-> Empty]]
        /\ UNCHANGED <<registered, refused>>
    BY <1>2, <2>1 DEF Accounts!AnswerRegister, Accounts!ToUser, Accounts!reports
  <2>3. [email |-> "mail", password |-> Empty] \in [email : {"mail"}, password : {"word", Empty}]
    OBVIOUS
  <2> QED
    BY <1>1, <2>2, <2>3 DEF UsersTyped
<1>3. ASSUME NEW c \in Two, Accounts!SettleRegister(c) PROVE UsersTyped'
  <2>1. call[c].email = "mail" /\ call[c].password = "word"
    BY <1>1, <1>3 DEF CallsNamed, Accounts!SettleRegister
  <2>2. registered' \in {registered, registered \cup {<<"mail", "word">>}} /\ UNCHANGED <<users, refused>>
    BY <1>3, <2>1 DEF Accounts!SettleRegister, Accounts!server
  <2> QED
    BY <1>1, <2>2 DEF UsersTyped
<1>4. ASSUME NEW c \in Two, Accounts!AnswerLogin(c) PROVE UsersTyped'
  <2>1. /\ refused' = refused \/ \E S : refused' = refused \cup (S \cap registered)
        /\ UNCHANGED <<users, registered>>
    BY <1>4 DEF Accounts!AnswerLogin, Accounts!server
  <2> QED
    BY <1>1, <2>1 DEF UsersTyped
<1>5. ASSUME UNCHANGED <<users, registered, refused>> PROVE UsersTyped'
  BY <1>1, <1>5 DEF UsersTyped
<1> QED
  BY <1>2, <1>3, <1>4, <1>5
     DEF Accounts!Next, Accounts!server, Accounts!reports, Accounts!GoTo, Accounts!SubmitRegister,
         Accounts!SubmitLogin, Accounts!SettleLogin, Accounts!ClickGoogle, Accounts!HandleMessage,
         Accounts!StartOAuth, Accounts!OpenPopup, Accounts!AuthCallback, Accounts!OauthComplete,
         Accounts!CallLost, Accounts!StartLost, Accounts!ClosePopup, Accounts!OauthCallback, Accounts!CheckPopup

\* The page, its buttons and who is signed in.
LEMMA StepPage == SignInIInv /\ AccountsIInv /\ Accounts!Next => PageTyped'
<1> SUFFICES ASSUME SignInIInv, AccountsIInv, Accounts!Next PROVE PageTyped'
  OBVIOUS
<1>1. /\ page \in {"home", "login", "register"} /\ loading \subseteq {"login", "register", "google"}
      /\ signedIn \in {"old", "new", None} /\ attempts \subseteq Two
      /\ \A c \in Two : call[c].user \in {"old", "new", None}
  BY DEF AccountsIInv, PageTyped, SignInIInv, AttemptsTyped, CallState
<1>2. ASSUME NEW p \in {"home", "login", "register"}, NEW calls, Accounts!Mounted(p, calls)
      PROVE  page' \in {"home", "login", "register"} /\ attempts' = {} /\ loading' = {}
  BY <1>2 DEF Accounts!Mounted
<1> DEFINE Goal == /\ page' \in {"home", "login", "register"} /\ attempts' \subseteq Two
                   /\ loading' \subseteq {"login", "register", "google"}
<1>3. Goal
  <2>1. ASSUME NEW p \in {"home", "login", "register"}, Accounts!GoTo(p)
        PROVE  Goal
    BY <1>1, <1>2, <2>1 DEF Accounts!GoTo
  <2>2. ASSUME NEW c \in Two,
               Accounts!SettleRegister(c) \/ Accounts!SettleLogin(c) \/ Accounts!OauthComplete(c)
        PROVE  Goal
    BY <1>1, <1>2, <2>2
       DEF Accounts!SettleRegister, Accounts!SettleLogin, Accounts!OauthComplete, Accounts!SignedIn,
           Accounts!Enabled, Accounts!place
  <2>3. ASSUME NEW c \in Two,
               \/ \E e \in {"mail"} : \E p, q \in {"word"} : Accounts!SubmitRegister(c, e, p, q)
               \/ \E e \in {"mail"} : \E p \in {"word"} : Accounts!SubmitLogin(c, e, p)
               \/ \E a \in Two : Accounts!ClickGoogle(c, a) \/ Accounts!HandleMessage(a, c)
               \/ Accounts!AnswerRegister(c) \/ Accounts!AnswerLogin(c)
               \/ Accounts!StartOAuth(c) \/ Accounts!OpenPopup(c) \/ Accounts!AuthCallback(c)
               \/ Accounts!CallLost(c) \/ Accounts!StartLost(c)
        PROVE  Goal
    BY <1>1, <2>3
       DEF Accounts!SubmitRegister, Accounts!SubmitLogin, Accounts!ClickGoogle, Accounts!HandleMessage,
           Accounts!AnswerRegister, Accounts!AnswerLogin, Accounts!StartOAuth, Accounts!OpenPopup,
           Accounts!AuthCallback, Accounts!CallLost, Accounts!StartLost, Accounts!Enabled, Accounts!place
  <2>4. ASSUME Accounts!ClosePopup \/ Accounts!OauthCallback \/ \E a \in Two : Accounts!CheckPopup(a)
        PROVE  Goal
    BY <1>1, <2>4 DEF Accounts!ClosePopup, Accounts!OauthCallback, Accounts!CheckPopup, Accounts!place
  <2> QED
    BY <2>1, <2>2, <2>3, <2>4 DEF Accounts!Next
<1>4. signedIn' \in {signedIn} \cup {call[c].user : c \in Two}
  BY DEF Accounts!Next, Accounts!GoTo, Accounts!SubmitRegister, Accounts!SubmitLogin, Accounts!AnswerRegister,
         Accounts!SettleRegister, Accounts!AnswerLogin, Accounts!SettleLogin, Accounts!SignedIn,
         Accounts!ClickGoogle, Accounts!HandleMessage, Accounts!StartOAuth, Accounts!OpenPopup,
         Accounts!AuthCallback, Accounts!OauthComplete, Accounts!CallLost, Accounts!StartLost,
         Accounts!ClosePopup, Accounts!OauthCallback, Accounts!CheckPopup
<1> QED
  BY <1>1, <1>3, <1>4 DEF PageTyped

\* Intervals, listeners and the message name attempts.
LEMMA StepGoogle == SignInIInv /\ AccountsIInv /\ Accounts!Next => GoogleTyped'
<1> SUFFICES ASSUME SignInIInv, AccountsIInv, Accounts!Next PROVE GoogleTyped'
  OBVIOUS
<1>1. /\ watching \subseteq Two /\ listening \subseteq Two /\ message.todo \subseteq Two
      /\ message \in [attempt : Two \cup {None}, todo : SUBSET (Two \cup {None})]
  BY DEF AccountsIInv, GoogleTyped, SignInIInv, AttemptsTyped, PopupTyped
<1>2. ASSUME NEW c \in Two, Accounts!OpenPopup(c) PROVE GoogleTyped'
  <2>1. call[c].attempt \in Two
    BY <1>2 DEF AccountsIInv, CallsNamed, Accounts!OpenPopup
  <2> QED
    BY <1>1, <1>2, <2>1 DEF GoogleTyped, Accounts!OpenPopup
<1>3. ASSUME NEW a \in Two, NEW c \in Two, Accounts!HandleMessage(a, c) PROVE GoogleTyped'
  <2>1. message'.todo \subseteq Two
    <3>1. message' \in {Accounts!NoMessage, [message EXCEPT !.todo = message.todo \ {a}]}
      BY <1>3 DEF Accounts!HandleMessage
    <3>2. [message EXCEPT !.todo = message.todo \ {a}].todo \subseteq Two /\ Accounts!NoMessage.todo \subseteq Two
      BY <1>1 DEF Accounts!NoMessage
    <3> QED
      BY <3>1, <3>2
  <2> QED
    BY <1>1, <1>3, <2>1 DEF GoogleTyped, Accounts!HandleMessage
<1>4. ASSUME Accounts!OauthCallback PROVE GoogleTyped'
  <2>1. message' = message \/ message'.todo = listening
    BY <1>4 DEF Accounts!OauthCallback
  <2> QED
    BY <1>1, <1>4, <2>1 DEF GoogleTyped, Accounts!OauthCallback
<1>5. ASSUME NEW a \in Two, Accounts!CheckPopup(a) PROVE GoogleTyped'
  BY <1>1, <1>5 DEF GoogleTyped, Accounts!CheckPopup
<1>6. ASSUME UNCHANGED <<watching, listening, message>> PROVE GoogleTyped'
  BY <1>1, <1>6 DEF GoogleTyped
<1> QED
  BY <1>2, <1>3, <1>4, <1>5, <1>6
     DEF Accounts!Next, Accounts!google, Accounts!GoTo, Accounts!SubmitRegister, Accounts!SubmitLogin,
         Accounts!AnswerRegister, Accounts!SettleRegister, Accounts!AnswerLogin, Accounts!SettleLogin,
         Accounts!ClickGoogle, Accounts!StartOAuth, Accounts!AuthCallback, Accounts!OauthComplete,
         Accounts!CallLost, Accounts!StartLost, Accounts!ClosePopup

\* Every step keeps the types of accounts and sign-in pages.
LEMMA StepAccounts == SignInIInv /\ AccountsIInv /\ [Accounts!Next]_accountsVars => AccountsIInv'
<1> SUFFICES ASSUME SignInIInv, AccountsIInv, [Accounts!Next]_accountsVars PROVE AccountsIInv'
  OBVIOUS
<1>1. CASE Accounts!Next
  BY <1>1, StepCallsNamed, StepUsers, StepPage, StepGoogle DEF AccountsIInv
<1>2. CASE UNCHANGED accountsVars
  BY <1>2 DEF accountsVars, AccountsIInv, CallsNamed, UsersTyped, PageTyped, GoogleTyped
<1> QED
  BY <1>1, <1>2

\* The invariants imply the types of the module.
LEMMA AccountsTyped == SignInIInv /\ AccountsIInv => Accounts!TypeOK
<1> SUFFICES ASSUME SignInIInv, AccountsIInv PROVE Accounts!TypeOK
  OBVIOUS
<1>1. \A c \in Two : call[c] \in CallState
  BY DEF SignInIInv, AttemptsTyped
<1>2. \A c \in Two : call[c].at \in {"idle", "sent", "answered"}
  BY <1>1 DEF CallState
<1>3. exchanged \in [Two -> 0..Cardinality(Two)]
  <2>1. exchanged \in [Two -> Nat] /\ \A a \in Two : exchanged[a] <= 1
    BY DEF SignInIInv, AttemptsTyped, AttemptsFresh
  <2>2. ASSUME NEW a \in Two PROVE exchanged[a] \in 0..Cardinality(Two)
    <3>1. Cardinality(Two) \in Nat /\ Cardinality(Two) # 0
      BY SizesAssumption, FS_CardinalityType, FS_EmptySet
    <3> QED
      BY <2>1, <3>1
  <2> QED
    BY <2>1, <2>2
<1>4. /\ verifiers \subseteq Two /\ popup.at \in {"closed", "google", "error"}
  BY DEF SignInIInv, AttemptsTyped, PopupTyped
<1>5. Accounts!Cardinality(Two) = Cardinality(Two)
  BY DEF Accounts!Cardinality, Cardinality
<1> QED
  BY <1>2, <1>3, <1>4, <1>5 DEF AccountsIInv, UsersTyped, PageTyped, GoogleTyped, Accounts!TypeOK

-----------------------------------------------------------------------------
(* The types of the pages of an order.                                     *)

\* The pages whose fetches failed are open ones.
OpenPages == IF moving = "lists" THEN {"tracking", "past"} ELSE {"tracking", "desk"}

\* The inductive invariant of the types, beside PagesIInv.
ErrorsIInv ==
  /\ error \subseteq OpenPages /\ listTab \in {"active", "past"}
  /\ \A c \in Two : click[c].at = "idle" => click[c] = AllPages!Idle

\* At the start.
LEMMA InitErrors == AllPages!Init => ErrorsIInv
BY DEF AllPages!Init, ErrorsIInv, OpenPages

\* A click under way is not taken for none.
LEMMA ClicksIdle ==
  ASSUME PagesIInv, ErrorsIInv, AllPages!Next
  PROVE  \A c \in Two : click'[c].at = "idle" => click'[c] = AllPages!Idle
<1>1. click \in [Two -> ClickState] /\ \A c \in Two : click[c].at = "idle" => click[c] = AllPages!Idle
  BY DEF PagesIInv, PagesTyped, ErrorsIInv
<1>2. UNCHANGED click \/ \E c \in Two : AllPages!Answer(c) \/ AllPages!CallFails(c)
        \/ AllPages!AnswerLost(c) \/ AllPages!Settle(c) \/ \E op : AllPages!Send(c, op)
  BY DEF AllPages!Next, AllPages!Fetch, AllPages!SelectTab, AllPages!GetOrder, AllPages!Show,
         AllPages!FetchFails, AllPages!Poll, AllPages!ClickCancel, AllPages!ClickDesk, AllPages!Elsewhere
<1>3. ASSUME NEW c \in Two, AllPages!Answer(c) \/ AllPages!CallFails(c) \/ AllPages!AnswerLost(c)
                            \/ AllPages!Settle(c) \/ \E op : AllPages!Send(c, op)
      PROVE  \A d \in Two : click'[d].at = "idle" => click'[d] = AllPages!Idle
  <2>1. PICK q \in ClickState : q = click[c]
    BY <1>1
  <2>2. ASSUME AllPages!Answer(c) \/ AllPages!CallFails(c)
        PROVE  \E ok : click' = [click EXCEPT ![c] = [q EXCEPT !.at = "answered", !.ok = ok]]
    BY <1>1, <2>1, <2>2 DEF AllPages!Answer, AllPages!CallFails
  <2>3. ASSUME AllPages!AnswerLost(c)
        PROVE  click' = [click EXCEPT ![c] = [q EXCEPT !.ok = FALSE]] /\ q.at = "answered"
    BY <1>1, <2>1, <2>3 DEF AllPages!AnswerLost
  <2>4. ASSUME AllPages!Settle(c) PROVE click' = [click EXCEPT ![c] = AllPages!Idle]
    BY <2>4 DEF AllPages!Settle
  <2>5. ASSUME NEW op, AllPages!Send(c, op)
        PROVE  click' = [click EXCEPT ![c] = [op |-> op, at |-> "sent", ok |-> FALSE]]
    BY <2>5 DEF AllPages!Send
  <2>6. PICK r : /\ click' = [click EXCEPT ![c] = r]
                 /\ r.at = "idle" => r = AllPages!Idle
    <3>1. \A ok : [q EXCEPT !.at = "answered", !.ok = ok].at = "answered"
      BY DEF ClickState
    <3>2. q.at = "answered" => [q EXCEPT !.ok = FALSE].at = "answered"
      BY DEF ClickState
    <3> DEFINE r(ok) == [q EXCEPT !.at = "answered", !.ok = ok]
               missed == [q EXCEPT !.ok = FALSE]
               posted(op) == [op |-> op, at |-> "sent", ok |-> FALSE]
    <3>3. \A op : posted(op).at = "sent"
      OBVIOUS
    <3> HIDE DEF r, missed, posted
    <3>4. CASE AllPages!Answer(c) \/ AllPages!CallFails(c)
      BY <2>2, <3>1, <3>4 DEF r
    <3>5. CASE AllPages!AnswerLost(c)
      BY <2>3, <3>2, <3>5 DEF missed
    <3>6. CASE AllPages!Settle(c)
      BY <2>4, <3>6
    <3>7. CASE \E op : AllPages!Send(c, op)
      BY <2>5, <3>3, <3>7 DEF posted
    <3> QED
      BY <1>3, <3>4, <3>5, <3>6, <3>7
  <2> QED
    BY <1>1, <2>6
<1> QED
  BY <1>1, <1>2, <1>3

\* Only an open page fails to fetch.
LEMMA ErrorsOfTracking == Tracking!Next => error' \subseteq error \cup {"tracking", "desk"}
BY DEF Tracking!Next, Tracking!Fetch, Tracking!SelectTab, Tracking!GetOrder, Tracking!Show,
       Tracking!FetchFails, Tracking!Poll, Tracking!ClickCancel, Tracking!ClickDesk, Tracking!Send,
       Tracking!Answer, Tracking!CallFails, Tracking!AnswerLost, Tracking!Settle, Tracking!Elsewhere, Tracking!browser

\* Nor with a list beside the page.
LEMMA ErrorsOfLists == Lists!Next => error' \subseteq error \cup {"tracking", "past"}
BY DEF Lists!Next, Lists!Fetch, Lists!SelectTab, Lists!GetOrder, Lists!Show,
       Lists!FetchFails, Lists!Poll, Lists!ClickCancel, Lists!ClickDesk, Lists!Send,
       Lists!Answer, Lists!CallFails, Lists!AnswerLost, Lists!Settle, Lists!Elsewhere, Lists!browser

\* The list shows one of its two tabs.
LEMMA ListTabStays == AllPages!Next => listTab' \in {listTab, "active", "past"}
BY DEF AllPages!Next, AllPages!Fetch, AllPages!SelectTab, AllPages!GetOrder, AllPages!Show,
       AllPages!FetchFails, AllPages!Poll, AllPages!ClickCancel, AllPages!ClickDesk, AllPages!Send,
       AllPages!Answer, AllPages!CallFails, AllPages!AnswerLost, AllPages!Settle, AllPages!Elsewhere, AllPages!browser

\* Every step keeps them.
LEMMA StepErrors == PagesIInv /\ ErrorsIInv /\ [Next]_vars => ErrorsIInv'
<1> SUFFICES ASSUME PagesIInv, ErrorsIInv, [Next]_vars PROVE ErrorsIInv'
  OBVIOUS
<1>1. moving' = moving
  BY DEF Next, vars
<1>2. CASE UNCHANGED orderPagesVars
  BY <1>1, <1>2 DEF orderPagesVars, ErrorsIInv, OpenPages
<1>3. CASE moving = "tracking" /\ Tracking!Next
  <2>1. AllPages!Next
    BY <1>3, TrackingAreOpen
  <2> QED
    BY <1>1, <1>3, <2>1, ClicksIdle, ListTabStays, ErrorsOfTracking DEF ErrorsIInv, OpenPages
<1>4. CASE moving = "lists" /\ Lists!Next
  <2>1. AllPages!Next
    BY <1>4, ListsAreOpen
  <2> QED
    BY <1>1, <1>4, <2>1, ClicksIdle, ListTabStays, ErrorsOfLists DEF ErrorsIInv, OpenPages
<1> QED
  BY <1>2, <1>3, <1>4 DEF Next, vars

\* The invariants imply the types of the module.
LEMMA OrderPagesTyped ==
  PagesIInv /\ ErrorsIInv => (moving = "tracking" => Tracking!TypeOK) /\ (moving = "lists" => Lists!TypeOK)
<1> SUFFICES ASSUME PagesIInv, ErrorsIInv
             PROVE  (moving = "tracking" => Tracking!TypeOK) /\ (moving = "lists" => Lists!TypeOK)
  OBVIOUS
<1>1. /\ Tracking!Status = AllPages!Status /\ Tracking!Page = AllPages!Page /\ Tracking!Op = AllPages!Op
      /\ Lists!Status = AllPages!Status /\ Lists!Page = AllPages!Page /\ Lists!Op = AllPages!Op
      /\ Tracking!Idle = AllPages!Idle /\ Lists!Idle = AllPages!Idle
      /\ Tracking!Entries(AllPages!Status) = Cache!Entries(AllPages!Status)
      /\ Lists!Entries(AllPages!Status) = Cache!Entries(AllPages!Status)
  BY DEF Tracking!Status, AllPages!Status, Tracking!Page, AllPages!Page, Tracking!Op, AllPages!Op,
         Lists!Status, Lists!Page, Lists!Op, Tracking!Idle, AllPages!Idle, Lists!Idle,
         Tracking!Entries, Lists!Entries, Cache!Entries
<1>2. /\ orderStatus["order"] \in AllPages!Status
      /\ entry \in [AllPages!Page -> Cache!Entries(AllPages!Status)]
      /\ click \in [Two -> [op : AllPages!Op \cup {None}, at : {"idle", "sent", "answered"}, ok : BOOLEAN]]
      /\ told \subseteq DOMAIN Tracking!Outcome /\ told \subseteq DOMAIN Lists!Outcome
  BY DEF PagesIInv, PagesTyped, ClickState, Decisions, Tracking!Outcome, Lists!Outcome
<1>3. moving = "tracking" => Tracking!TypeOK
  BY <1>1, <1>2 DEF ErrorsIInv, OpenPages, Tracking!TypeOK, Tracking!Now
<1>4. moving = "lists" => Lists!TypeOK
  BY <1>1, <1>2 DEF ErrorsIInv, OpenPages, Lists!TypeOK, Lists!Now
<1> QED
  BY <1>3, <1>4

-----------------------------------------------------------------------------
(* The types of the pages of reviews and ratings, for any users, places,   *)
(* tabs, orders, requests, ratings and sizes.                              *)

ReviewPages(U, R, T, O, Q, userAt, pageAt, G, P, M) ==
  INSTANCE Reviews
    WITH User <- U, Restaurant <- R, Tab <- T, Order <- O, RatingRequest <- Q, userOf <- userAt,
         pageOf <- pageAt, Given <- G, PageSize <- P, MaxReviews <- M

\* Tabs show the pages of restaurants to users; ratings and ids are numbers.
ReviewPagesAssumed(U, R, T, userAt, pageAt, G, M) ==
  userAt \in [T -> U] /\ pageAt \in [T -> R] /\ G \subseteq Int /\ M \in Nat

ReviewOf(U, R, M) == [id : 1..M, user : U, restaurant : R, rating : 1..5]
DialogOf(M) == [post : {"idle", "sent", "created", "failed"}, stars : 0..5, id : 0..M]
RatingOf(O) ==
  [pc : {"idle", "checked", "answered"}, order : O \cup {None},
   message : {"none", "Delivery not found", "lookup failed"}]

\* The reviews and the page of a tab; the average of the header is any value.
PageIInv(U, R, T, M) ==
  /\ reviews \subseteq ReviewOf(U, R, M) /\ lastId \in 0..M
  /\ list \in [T -> Cache!Entries(SUBSET ReviewOf(U, R, M))]
  /\ \E V : header \in [T -> Cache!Entries(V)]
  /\ dialog \in [T -> DialogOf(M)]
  /\ \A t \in T : /\ dialog[t].post = "sent" => dialog[t].stars \in 1..5
                  /\ dialog[t].post = "created" => dialog[t].id \in 1..M
  /\ own \in [T -> 1..M \cup {None}]
RatingsIInv(O, Q) == handedOver \subseteq O /\ rating \in [Q -> RatingOf(O)]

\* The cache of the pages is the one above.
LEMMA ReviewsCache ==
  ASSUME NEW U, NEW R, NEW T, NEW O, NEW Q, NEW userAt, NEW pageAt, NEW G, NEW P, NEW M
  PROVE  /\ \A q : /\ ReviewPages(U, R, T, O, Q, userAt, pageAt, G, P, M)!Fetching(q) = Cache!Fetching(q)
                   /\ ReviewPages(U, R, T, O, Q, userAt, pageAt, G, P, M)!Filled(q) = Cache!Filled(q)
                   /\ ReviewPages(U, R, T, O, Q, userAt, pageAt, G, P, M)!Failed(q) = Cache!Failed(q)
                   /\ ReviewPages(U, R, T, O, Q, userAt, pageAt, G, P, M)!Invalidated(q) = Cache!Invalidated(q)
         /\ \A q, v : ReviewPages(U, R, T, O, Q, userAt, pageAt, G, P, M)!Served(q, v) = Cache!Served(q, v)
         /\ \A V : ReviewPages(U, R, T, O, Q, userAt, pageAt, G, P, M)!Entries(V) = Cache!Entries(V)
         /\ ReviewPages(U, R, T, O, Q, userAt, pageAt, G, P, M)!Fresh = Cache!Fresh
BY DEF ReviewPages!Fetching, ReviewPages!Filled, ReviewPages!Invalidated, ReviewPages!Served,
       ReviewPages!Failed, ReviewPages!Entries, ReviewPages!Fresh, Cache!Fetching, Cache!Filled,
       Cache!Failed, Cache!Invalidated, Cache!Served, Cache!Entries, Cache!Fresh

\* The pages start with the invariant.
LEMMA InitReviewPages ==
  ASSUME NEW U, NEW R, NEW T, NEW O, NEW Q, NEW userAt, NEW pageAt, NEW G, NEW P, NEW M,
         ReviewPagesAssumed(U, R, T, userAt, pageAt, G, M),
         ReviewPages(U, R, T, O, Q, userAt, pageAt, G, P, M)!Init
  PROVE  PageIInv(U, R, T, M) /\ RatingsIInv(O, Q)
<1>1. Cache!Fresh \in Cache!Entries(SUBSET ReviewOf(U, R, M)) /\ Cache!Fresh \in Cache!Entries({})
  BY DEF Cache!Fresh, Cache!Entries
<1>2. /\ list = [t \in T |-> Cache!Fresh] /\ header = [t \in T |-> Cache!Fresh]
      /\ dialog = [t \in T |-> [post |-> "idle", stars |-> 0, id |-> 0]]
  BY ReviewsCache DEF ReviewPages!Init, ReviewPages!Unused
<1>3. list \in [T -> Cache!Entries(SUBSET ReviewOf(U, R, M))] /\ \E V : header \in [T -> Cache!Entries(V)]
  BY <1>1, <1>2
<1>4. 0 \in 0..M
  BY DEF ReviewPagesAssumed
<1>5. dialog \in [T -> DialogOf(M)] /\ \A t \in T : dialog[t].post = "idle"
  BY <1>2, <1>4 DEF DialogOf
<1>6. PageIInv(U, R, T, M)
  BY <1>3, <1>4, <1>5 DEF ReviewPages!Init, PageIInv
<1>7. RatingsIInv(O, Q)
  BY DEF ReviewPages!Init, RatingsIInv, RatingOf
<1> QED
  BY <1>6, <1>7

\* The queries of a page.
LEMMA ReviewQueries ==
  ASSUME NEW U, NEW R, NEW T, NEW O, NEW Q, NEW userAt, NEW pageAt, NEW G, NEW P, NEW M,
         ReviewPagesAssumed(U, R, T, userAt, pageAt, G, M), PageIInv(U, R, T, M), NEW t \in T,
         \/ ReviewPages(U, R, T, O, Q, userAt, pageAt, G, P, M)!Mount(t)
         \/ ReviewPages(U, R, T, O, Q, userAt, pageAt, G, P, M)!GetReviewsByRestaurantId(t)
         \/ ReviewPages(U, R, T, O, Q, userAt, pageAt, G, P, M)!ShowList(t)
         \/ ReviewPages(U, R, T, O, Q, userAt, pageAt, G, P, M)!GetAverageRating(t)
         \/ ReviewPages(U, R, T, O, Q, userAt, pageAt, G, P, M)!ShowHeader(t)
         \/ ReviewPages(U, R, T, O, Q, userAt, pageAt, G, P, M)!ListFails(t)
         \/ ReviewPages(U, R, T, O, Q, userAt, pageAt, G, P, M)!HeaderFails(t)
  PROVE  PageIInv(U, R, T, M)'
<1> DEFINE Pages == Cache!Entries(SUBSET ReviewOf(U, R, M))
           first == ReviewPages(U, R, T, O, Q, userAt, pageAt, G, P, M)!FirstPage(pageAt[t])
           average == ReviewPages(U, R, T, O, Q, userAt, pageAt, G, P, M)!Average(pageAt[t])
<1>1. list \in [T -> Pages] /\ list[t] \in Pages
  BY DEF PageIInv
<1>2. first \in SUBSET ReviewOf(U, R, M)
  BY DEF ReviewPages!FirstPage, ReviewPages!Of, PageIInv
<1>3. /\ Cache!Fetching(list[t]) \in Pages /\ Cache!Filled(list[t]) \in Pages
      /\ Cache!Served(list[t], first) \in Pages /\ Cache!Failed(list[t]) \in Pages
  BY <1>1, <1>2, EntryFetched, EntryFilled, EntryServed, EntryFailed
<1>4. PICK V : header \in [T -> Cache!Entries(V)]
  BY DEF PageIInv
<1>5. header \in [T -> Cache!Entries(V \cup {average})] /\ header[t] \in Cache!Entries(V \cup {average})
  <2>1. Cache!Entries(V) \subseteq Cache!Entries(V \cup {average})
    BY DEF Cache!Entries
  <2> QED
    BY <1>4, <2>1
<1>6. /\ Cache!Fetching(header[t]) \in Cache!Entries(V \cup {average})
      /\ Cache!Filled(header[t]) \in Cache!Entries(V \cup {average})
      /\ Cache!Served(header[t], average) \in Cache!Entries(V \cup {average})
      /\ Cache!Failed(header[t]) \in Cache!Entries(V \cup {average})
  <2>1. average \in V \cup {average}
    OBVIOUS
  <2> HIDE DEF average
  <2> QED
    BY <1>5, <2>1, EntryFetched, EntryFilled, EntryServed, EntryFailed
<1>7. /\ \/ list' = list
         \/ list' = [list EXCEPT ![t] = Cache!Fetching(list[t])]
         \/ list' = [list EXCEPT ![t] = Cache!Filled(list[t])]
         \/ list' = [list EXCEPT ![t] = Cache!Failed(list[t])]
         \/ list' = [list EXCEPT ![t] = Cache!Served(list[t], first)]
      /\ \/ header' = header
         \/ header' = [header EXCEPT ![t] = Cache!Fetching(header[t])]
         \/ header' = [header EXCEPT ![t] = Cache!Filled(header[t])]
         \/ header' = [header EXCEPT ![t] = Cache!Failed(header[t])]
         \/ header' = [header EXCEPT ![t] = Cache!Served(header[t], average)]
      /\ UNCHANGED <<reviews, lastId, dialog, own>>
  BY ReviewsCache
     DEF ReviewPages!Mount, ReviewPages!GetReviewsByRestaurantId, ReviewPages!ShowList,
         ReviewPages!GetAverageRating, ReviewPages!ShowHeader, ReviewPages!ListFails,
         ReviewPages!HeaderFails, ReviewPages!Service
<1> HIDE DEF Pages, first, average
<1>8. list' \in [T -> Pages] /\ header' \in [T -> Cache!Entries(V \cup {average})]
  BY <1>1, <1>3, <1>5, <1>6, <1>7
<1> QED
  BY <1>7, <1>8 DEF PageIInv, Pages

\* Reviews are created, changed and deleted by other clients.
LEMMA ReviewsElsewhere ==
  ASSUME NEW U, NEW R, NEW T, NEW O, NEW Q, NEW userAt, NEW pageAt, NEW G, NEW P, NEW M,
         ReviewPagesAssumed(U, R, T, userAt, pageAt, G, M), PageIInv(U, R, T, M),
         \/ \E u \in U, r \in R, n \in G :
              ReviewPages(U, R, T, O, Q, userAt, pageAt, G, P, M)!OtherClient(u, r, n)
         \/ \E i \in 1..M : ReviewPages(U, R, T, O, Q, userAt, pageAt, G, P, M)!DeleteReview(i)
         \/ \E i \in 1..M, n \in G : ReviewPages(U, R, T, O, Q, userAt, pageAt, G, P, M)!UpdateReview(i, n)
  PROVE  PageIInv(U, R, T, M)'
<1>1. reviews \subseteq ReviewOf(U, R, M) /\ lastId \in 0..M /\ M \in Nat /\ G \subseteq Int
  BY DEF PageIInv, ReviewPagesAssumed
<1>2. ASSUME NEW u \in U, NEW r \in R, NEW n \in G,
             ReviewPages(U, R, T, O, Q, userAt, pageAt, G, P, M)!OtherClient(u, r, n)
      PROVE  reviews' \subseteq ReviewOf(U, R, M) /\ lastId' \in 0..M /\ UNCHANGED <<list, header, dialog, own>>
  <2>1. n \in 1..5 /\ lastId + 1 \in 1..M /\ lastId' = lastId + 1
        /\ reviews' = reviews \cup {[id |-> lastId + 1, user |-> u, restaurant |-> r, rating |-> n]}
        /\ UNCHANGED <<list, header, dialog, own>>
    BY <1>1, <1>2 DEF ReviewPages!OtherClient, ReviewPages!CreateReview, ReviewPages!InRange, ReviewPages!pages
  <2>2. [id |-> lastId + 1, user |-> u, restaurant |-> r, rating |-> n] \in ReviewOf(U, R, M)
    BY <2>1 DEF ReviewOf
  <2> QED
    BY <1>1, <2>1, <2>2
<1>3. ASSUME NEW i \in 1..M, ReviewPages(U, R, T, O, Q, userAt, pageAt, G, P, M)!DeleteReview(i)
      PROVE  reviews' \subseteq ReviewOf(U, R, M) /\ lastId' \in 0..M /\ UNCHANGED <<list, header, dialog, own>>
  BY <1>1, <1>3 DEF ReviewPages!DeleteReview, ReviewPages!pages
<1>4. ASSUME NEW i \in 1..M, NEW n \in G,
             ReviewPages(U, R, T, O, Q, userAt, pageAt, G, P, M)!UpdateReview(i, n)
      PROVE  reviews' \subseteq ReviewOf(U, R, M) /\ lastId' \in 0..M /\ UNCHANGED <<list, header, dialog, own>>
  <2>1. n \in 1..5 /\ lastId' = lastId /\ UNCHANGED <<list, header, dialog, own>>
    BY <1>1, <1>4 DEF ReviewPages!UpdateReview, ReviewPages!InRange, ReviewPages!pages
  <2>2. PICK v \in reviews : reviews' = (reviews \ {v}) \cup {[v EXCEPT !.rating = n]}
    BY <1>4 DEF ReviewPages!UpdateReview
  <2>3. v \in ReviewOf(U, R, M)
    BY <1>1
  <2>4. [v EXCEPT !.rating = n] \in ReviewOf(U, R, M)
    BY <2>1, <2>3 DEF ReviewOf
  <2> QED
    BY <1>1, <2>1, <2>2, <2>4
<1>5. reviews' \subseteq ReviewOf(U, R, M) /\ lastId' \in 0..M /\ UNCHANGED <<list, header, dialog, own>>
  BY <1>2, <1>3, <1>4
<1> QED
  BY <1>5 DEF PageIInv

\* The dialog is submitted, and the service answers.
LEMMA ReviewDialogs ==
  ASSUME NEW U, NEW R, NEW T, NEW O, NEW Q, NEW userAt, NEW pageAt, NEW G, NEW P, NEW M,
         ReviewPagesAssumed(U, R, T, userAt, pageAt, G, M), PageIInv(U, R, T, M), NEW t \in T,
         \/ \E n \in G : ReviewPages(U, R, T, O, Q, userAt, pageAt, G, P, M)!HandleSubmit(t, n)
         \/ ReviewPages(U, R, T, O, Q, userAt, pageAt, G, P, M)!Post(t)
         \/ ReviewPages(U, R, T, O, Q, userAt, pageAt, G, P, M)!Submitted(t)
         \/ ReviewPages(U, R, T, O, Q, userAt, pageAt, G, P, M)!SubmitFailed(t)
  PROVE  PageIInv(U, R, T, M)'
<1>1. /\ reviews \subseteq ReviewOf(U, R, M) /\ lastId \in 0..M /\ M \in Nat /\ G \subseteq Int
      /\ userAt[t] \in U /\ pageAt[t] \in R
      /\ own \in [T -> 1..M \cup {None}]
  BY DEF PageIInv, ReviewPagesAssumed
<1>2. PICK q \in DialogOf(M) : /\ q = dialog[t] /\ dialog \in [T -> DialogOf(M)]
                               /\ q.post = "sent" => q.stars \in 1..5
                               /\ q.post = "created" => q.id \in 1..M
  BY DEF PageIInv
<1>3. ASSUME NEW r \in DialogOf(M), dialog' = [dialog EXCEPT ![t] = r],
             r.post = "sent" => r.stars \in 1..5, r.post = "created" => r.id \in 1..M
      PROVE  /\ dialog' \in [T -> DialogOf(M)]
             /\ \A s \in T : /\ dialog'[s].post = "sent" => dialog'[s].stars \in 1..5
                             /\ dialog'[s].post = "created" => dialog'[s].id \in 1..M
  BY <1>2, <1>3 DEF PageIInv
<1> DEFINE DialogKept ==
      /\ dialog' \in [T -> DialogOf(M)]
      /\ \A s \in T : /\ dialog'[s].post = "sent" => dialog'[s].stars \in 1..5
                      /\ dialog'[s].post = "created" => dialog'[s].id \in 1..M
<1>4. ASSUME NEW n \in G, ReviewPages(U, R, T, O, Q, userAt, pageAt, G, P, M)!HandleSubmit(t, n) PROVE PageIInv(U, R, T, M)'
  <2>0. n \in 1..5
    BY <1>1, <1>4 DEF ReviewPages!HandleSubmit, ReviewPages!InRange
  <2>1. /\ dialog' = [dialog EXCEPT ![t] = [q EXCEPT !.post = "sent", !.stars = n]]
        /\ UNCHANGED <<reviews, lastId, list, header, own>>
    BY <1>2, <1>4 DEF ReviewPages!HandleSubmit, ReviewPages!Service
  <2>2. LET r == [q EXCEPT !.post = "sent", !.stars = n]
        IN  r \in DialogOf(M) /\ r.post = "sent" /\ r.stars \in 1..5
    <3>1. n \in 0..5
      BY <2>0
    <3> QED
      BY <1>2, <2>0, <3>1 DEF DialogOf
  <2>3. DialogKept
    BY <1>3, <2>1, <2>2
  <2> QED
    BY <2>1, <2>3 DEF PageIInv
<1>5. ASSUME ReviewPages(U, R, T, O, Q, userAt, pageAt, G, P, M)!Post(t) PROVE PageIInv(U, R, T, M)'
  <2>1. q.post = "sent" /\ q.stars \in 1..5 /\ UNCHANGED <<list, header, own>>
    BY <1>2, <1>5 DEF ReviewPages!Post
  <2>2. ASSUME ReviewPages(U, R, T, O, Q, userAt, pageAt, G, P, M)!CreateReview(userAt[t], pageAt[t], dialog[t].stars)
        PROVE  lastId' \in 1..M /\ lastId' \in 0..M /\ reviews' \subseteq ReviewOf(U, R, M)
    <3>1. lastId' = lastId + 1 /\ lastId' \in 1..M /\ lastId' \in 0..M
      BY <1>1, <2>2 DEF ReviewPages!CreateReview
    <3>2. reviews' = reviews \cup {[id |-> lastId + 1, user |-> userAt[t], restaurant |-> pageAt[t],
                                   rating |-> q.stars]}
      BY <1>2, <2>2 DEF ReviewPages!CreateReview
    <3>3. [id |-> lastId + 1, user |-> userAt[t], restaurant |-> pageAt[t], rating |-> q.stars]
            \in ReviewOf(U, R, M)
      BY <1>1, <2>1, <3>1 DEF ReviewOf
    <3> QED
      BY <1>1, <3>1, <3>2, <3>3
  <2>3. CASE /\ ReviewPages(U, R, T, O, Q, userAt, pageAt, G, P, M)!CreateReview(userAt[t], pageAt[t], dialog[t].stars)
             /\ dialog' = [dialog EXCEPT ![t].post = "created", ![t].id = lastId']
    <3>1. dialog' = [dialog EXCEPT ![t] = [q EXCEPT !.post = "created", !.id = lastId']]
      BY <1>2, <2>3
    <3>2. LET r == [q EXCEPT !.post = "created", !.id = lastId']
          IN  r \in DialogOf(M) /\ r.post = "created" /\ r.id \in 1..M
      BY <1>2, <2>2, <2>3 DEF DialogOf
    <3>3. DialogKept
      BY <1>3, <3>1, <3>2
    <3> QED
      BY <2>1, <2>2, <2>3, <3>3 DEF PageIInv
  <2>4. CASE /\ \/ ReviewPages(U, R, T, O, Q, userAt, pageAt, G, P, M)!CreateReview(userAt[t], pageAt[t], dialog[t].stars)
                \/ UNCHANGED <<reviews, lastId>>
             /\ dialog' = [dialog EXCEPT ![t].post = "failed"]
    <3>1. dialog' = [dialog EXCEPT ![t] = [q EXCEPT !.post = "failed"]]
      BY <1>2, <2>4
    <3>2. [q EXCEPT !.post = "failed"] \in DialogOf(M) /\ [q EXCEPT !.post = "failed"].post = "failed"
      BY <1>2 DEF DialogOf
    <3>3. DialogKept
      BY <1>3, <3>1, <3>2
    <3>4. reviews' \subseteq ReviewOf(U, R, M) /\ lastId' \in 0..M
      BY <1>1, <2>2, <2>4
    <3> QED
      BY <2>1, <3>3, <3>4 DEF PageIInv
  <2> QED
    BY <1>5, <2>3, <2>4 DEF ReviewPages!Post, ReviewPages!Service
<1>6. [post |-> "idle", stars |-> 0, id |-> 0] \in DialogOf(M)
  BY <1>1 DEF DialogOf
<1>7. ASSUME dialog' = [dialog EXCEPT ![t] = [post |-> "idle", stars |-> 0, id |-> 0]]
      PROVE  DialogKept
  <2>1. [post |-> "idle", stars |-> 0, id |-> 0].post = "idle"
    OBVIOUS
  <2> QED
    BY <1>3, <1>6, <1>7, <2>1
<1>8. ASSUME ReviewPages(U, R, T, O, Q, userAt, pageAt, G, P, M)!Submitted(t) PROVE PageIInv(U, R, T, M)'
  <2>1. DialogKept
    BY <1>7, <1>8 DEF ReviewPages!Submitted, ReviewPages!Unused
  <2>0. q.post = "created" /\ q.id \in 1..M
    BY <1>2, <1>8 DEF ReviewPages!Submitted
  <2>a. own' = [own EXCEPT ![t] = IF list[t].data = NoData THEN None ELSE q.id]
    BY <1>2, <1>8 DEF ReviewPages!Submitted
  <2>b. list' = [list EXCEPT ![t] = Cache!Invalidated(list[t])]
    <3>1. ReviewPages(U, R, T, O, Q, userAt, pageAt, G, P, M)!Invalidated(list[t])
            = Cache!Invalidated(list[t])
      BY ReviewsCache
    <3> QED
      BY <1>8, <3>1 DEF ReviewPages!Submitted, ReviewPages!InvalidateReviews
  <2>2. /\ own' \in {[own EXCEPT ![t] = None], [own EXCEPT ![t] = q.id]} /\ q.id \in 1..M
        /\ list' = [list EXCEPT ![t] = Cache!Invalidated(list[t])]
        /\ UNCHANGED <<reviews, lastId, header>>
    BY <1>8, <2>0, <2>a, <2>b DEF ReviewPages!Submitted, ReviewPages!InvalidateReviews, ReviewPages!Service
  <2>3. own' \in [T -> 1..M \cup {None}]
    BY <1>1, <2>2
  <2>4. list' \in [T -> Cache!Entries(SUBSET ReviewOf(U, R, M))]
    <3>1. list \in [T -> Cache!Entries(SUBSET ReviewOf(U, R, M))]
      BY DEF PageIInv
    <3>2. Cache!Invalidated(list[t]) \in Cache!Entries(SUBSET ReviewOf(U, R, M))
      BY <3>1, EntryInvalidated
    <3> QED
      BY <2>2, <3>1, <3>2
  <2> QED
    BY <1>1, <2>1, <2>2, <2>3, <2>4 DEF PageIInv
<1>9. ASSUME ReviewPages(U, R, T, O, Q, userAt, pageAt, G, P, M)!SubmitFailed(t) PROVE PageIInv(U, R, T, M)'
  <2>1. DialogKept /\ UNCHANGED <<reviews, lastId, list, header, own>>
    BY <1>7, <1>9 DEF ReviewPages!SubmitFailed, ReviewPages!Unused, ReviewPages!Service
  <2> QED
    BY <2>1 DEF PageIInv
<1> QED
  BY <1>4, <1>5, <1>8, <1>9

\* Requests to rate a driver.
LEMMA RatingSteps ==
  ASSUME NEW U, NEW R, NEW T, NEW O, NEW Q, NEW userAt, NEW pageAt, NEW G, NEW P, NEW M,
         RatingsIInv(O, Q),
         \/ \E o \in O : ReviewPages(U, R, T, O, Q, userAt, pageAt, G, P, M)!AddDelivery(o)
         \/ \E o \in O, q \in Q : ReviewPages(U, R, T, O, Q, userAt, pageAt, G, P, M)!HasUserRatedOrder(q, o)
         \/ \E q \in Q : ReviewPages(U, R, T, O, Q, userAt, pageAt, G, P, M)!CreateRating(q)
  PROVE  RatingsIInv(O, Q)' /\ UNCHANGED <<reviews, lastId, list, header, dialog, own>>
<1>1. handedOver \subseteq O /\ rating \in [Q -> RatingOf(O)]
  BY DEF RatingsIInv
<1>2. UNCHANGED <<reviews, lastId, list, header, dialog, own>>
  BY DEF ReviewPages!AddDelivery, ReviewPages!HasUserRatedOrder, ReviewPages!CreateRating,
         ReviewPages!Service, ReviewPages!pages
<1>3. ASSUME NEW o \in O, ReviewPages(U, R, T, O, Q, userAt, pageAt, G, P, M)!AddDelivery(o) PROVE RatingsIInv(O, Q)'
  BY <1>1, <1>3 DEF ReviewPages!AddDelivery, RatingsIInv
<1>4. ASSUME NEW o \in O, NEW q \in Q, ReviewPages(U, R, T, O, Q, userAt, pageAt, G, P, M)!HasUserRatedOrder(q, o)
      PROVE  RatingsIInv(O, Q)'
  <2>1. PICK k \in RatingOf(O) : k = rating[q]
    BY <1>1
  <2>2. rating' = [rating EXCEPT ![q] = [k EXCEPT !.pc = "checked", !.order = o]] /\ UNCHANGED handedOver
    BY <1>1, <1>4, <2>1 DEF ReviewPages!HasUserRatedOrder
  <2>3. [k EXCEPT !.pc = "checked", !.order = o] \in RatingOf(O)
    BY DEF RatingOf
  <2> QED
    BY <1>1, <2>2, <2>3 DEF RatingsIInv
<1>5. ASSUME NEW q \in Q, ReviewPages(U, R, T, O, Q, userAt, pageAt, G, P, M)!CreateRating(q) PROVE RatingsIInv(O, Q)'
  <2>1. PICK k \in RatingOf(O) : k = rating[q]
    BY <1>1
  <2>2. PICK m \in {"Delivery not found", "lookup failed"} :
          rating' = [rating EXCEPT ![q] = [k EXCEPT !.pc = "answered", !.message = m]] /\ UNCHANGED handedOver
    BY <1>1, <1>5, <2>1 DEF ReviewPages!CreateRating
  <2>3. [k EXCEPT !.pc = "answered", !.message = m] \in RatingOf(O)
    BY DEF RatingOf
  <2> QED
    BY <1>1, <2>2, <2>3 DEF RatingsIInv
<1> QED
  BY <1>2, <1>3, <1>4, <1>5

\* A step of another part keeps it.
LEMMA ReviewPagesStutter ==
  ASSUME NEW U, NEW R, NEW T, NEW O, NEW Q, NEW M,
         PageIInv(U, R, T, M), RatingsIInv(O, Q)
  PROVE  /\ UNCHANGED <<reviews, lastId, list, header, dialog, own>> => PageIInv(U, R, T, M)'
         /\ UNCHANGED <<handedOver, rating>> => RatingsIInv(O, Q)'
BY DEF PageIInv, RatingsIInv

\* Every step keeps the types.
LEMMA StepReviewPages ==
  ASSUME NEW U, NEW R, NEW T, NEW O, NEW Q, NEW userAt, NEW pageAt, NEW G, NEW P, NEW M,
         ReviewPagesAssumed(U, R, T, userAt, pageAt, G, M), PageIInv(U, R, T, M), RatingsIInv(O, Q),
         ReviewPages(U, R, T, O, Q, userAt, pageAt, G, P, M)!Next
  PROVE  PageIInv(U, R, T, M)' /\ RatingsIInv(O, Q)'
<1>1. ASSUME \/ \E o \in O : ReviewPages(U, R, T, O, Q, userAt, pageAt, G, P, M)!AddDelivery(o)
             \/ \E o \in O, q \in Q : ReviewPages(U, R, T, O, Q, userAt, pageAt, G, P, M)!HasUserRatedOrder(q, o)
             \/ \E q \in Q : ReviewPages(U, R, T, O, Q, userAt, pageAt, G, P, M)!CreateRating(q)
      PROVE  PageIInv(U, R, T, M)' /\ RatingsIInv(O, Q)'
  BY <1>1, RatingSteps, ReviewPagesStutter
<1>2. ASSUME NEW t \in T,
             \/ ReviewPages(U, R, T, O, Q, userAt, pageAt, G, P, M)!Mount(t)
             \/ ReviewPages(U, R, T, O, Q, userAt, pageAt, G, P, M)!GetReviewsByRestaurantId(t)
             \/ ReviewPages(U, R, T, O, Q, userAt, pageAt, G, P, M)!ShowList(t)
             \/ ReviewPages(U, R, T, O, Q, userAt, pageAt, G, P, M)!GetAverageRating(t)
             \/ ReviewPages(U, R, T, O, Q, userAt, pageAt, G, P, M)!ShowHeader(t)
             \/ ReviewPages(U, R, T, O, Q, userAt, pageAt, G, P, M)!ListFails(t)
             \/ ReviewPages(U, R, T, O, Q, userAt, pageAt, G, P, M)!HeaderFails(t)
      PROVE  PageIInv(U, R, T, M)' /\ RatingsIInv(O, Q)'
  <2>1. UNCHANGED <<handedOver, rating>>
    BY <1>2 DEF ReviewPages!Mount, ReviewPages!GetReviewsByRestaurantId, ReviewPages!ShowList,
                ReviewPages!GetAverageRating, ReviewPages!ShowHeader, ReviewPages!ListFails,
                ReviewPages!HeaderFails, ReviewPages!drivers
  <2> QED
    BY <1>2, <2>1, ReviewQueries, ReviewPagesStutter
<1>3. ASSUME NEW t \in T,
             \/ \E n \in G : ReviewPages(U, R, T, O, Q, userAt, pageAt, G, P, M)!HandleSubmit(t, n)
             \/ ReviewPages(U, R, T, O, Q, userAt, pageAt, G, P, M)!Post(t)
             \/ ReviewPages(U, R, T, O, Q, userAt, pageAt, G, P, M)!Submitted(t)
             \/ ReviewPages(U, R, T, O, Q, userAt, pageAt, G, P, M)!SubmitFailed(t)
      PROVE  PageIInv(U, R, T, M)' /\ RatingsIInv(O, Q)'
  <2>1. UNCHANGED <<handedOver, rating>>
    BY <1>3 DEF ReviewPages!HandleSubmit, ReviewPages!Post, ReviewPages!Submitted, ReviewPages!SubmitFailed,
                ReviewPages!drivers
  <2> QED
    BY <1>3, <2>1, ReviewDialogs, ReviewPagesStutter
<1>4. ASSUME \/ \E u \in U, r \in R, n \in G :
                  ReviewPages(U, R, T, O, Q, userAt, pageAt, G, P, M)!OtherClient(u, r, n)
             \/ \E i \in 1..M : ReviewPages(U, R, T, O, Q, userAt, pageAt, G, P, M)!DeleteReview(i)
             \/ \E i \in 1..M, n \in G : ReviewPages(U, R, T, O, Q, userAt, pageAt, G, P, M)!UpdateReview(i, n)
      PROVE  PageIInv(U, R, T, M)' /\ RatingsIInv(O, Q)'
  <2>1. UNCHANGED <<handedOver, rating>>
    BY <1>4 DEF ReviewPages!OtherClient, ReviewPages!DeleteReview, ReviewPages!UpdateReview, ReviewPages!drivers
  <2> QED
    BY <1>4, <2>1, ReviewsElsewhere, ReviewPagesStutter
<1> QED
  BY <1>1, <1>2, <1>3, <1>4 DEF ReviewPages!Next, ReviewPages!UserSteps

\* The page of reviews and the ratings of the instances are such pages.
LEMMA SameRestaurantPage ==
  /\ RestaurantPage!Init <=> ReviewPages({"one", "two"}, {"place"}, {"tab"}, {}, {}, [t \in {"tab"} |-> "one"], [t \in {"tab"} |-> "place"], Given, PageSize, MaxReviews)!Init
  /\ RestaurantPage!Next <=> ReviewPages({"one", "two"}, {"place"}, {"tab"}, {}, {}, [t \in {"tab"} |-> "one"], [t \in {"tab"} |-> "place"], Given, PageSize, MaxReviews)!Next
BY
   DEF RestaurantPage!pages, ReviewPages!pages, RestaurantPage!drivers, ReviewPages!drivers, RestaurantPage!Review,
       ReviewPages!Review, RestaurantPage!Dialog, ReviewPages!Dialog, RestaurantPage!Unused, ReviewPages!Unused,
       RestaurantPage!RatingCall, ReviewPages!RatingCall, RestaurantPage!InRange, ReviewPages!InRange,
       RestaurantPage!Of, ReviewPages!Of, RestaurantPage!FirstPage, ReviewPages!FirstPage, RestaurantPage!Average,
       ReviewPages!Average, RestaurantPage!Init, ReviewPages!Init, RestaurantPage!Duplicate, ReviewPages!Duplicate,
       RestaurantPage!CreateReview, ReviewPages!CreateReview, RestaurantPage!OtherClient, ReviewPages!OtherClient,
       RestaurantPage!UpdateReview, ReviewPages!UpdateReview, RestaurantPage!DeleteReview, ReviewPages!DeleteReview,
       RestaurantPage!Service, ReviewPages!Service, RestaurantPage!Mount, ReviewPages!Mount,
       RestaurantPage!GetReviewsByRestaurantId, ReviewPages!GetReviewsByRestaurantId, RestaurantPage!ShowList,
       ReviewPages!ShowList, RestaurantPage!GetAverageRating, ReviewPages!GetAverageRating, RestaurantPage!ShowHeader,
       ReviewPages!ShowHeader, RestaurantPage!HandleSubmit, ReviewPages!HandleSubmit, RestaurantPage!Post,
       ReviewPages!Post, RestaurantPage!InvalidateReviews, ReviewPages!InvalidateReviews, RestaurantPage!Submitted,
       ReviewPages!Submitted, RestaurantPage!SubmitFailed, ReviewPages!SubmitFailed, RestaurantPage!AddDelivery,
       ReviewPages!AddDelivery, RestaurantPage!HasUserRatedOrder, ReviewPages!HasUserRatedOrder,
       RestaurantPage!CreateRating, ReviewPages!CreateRating, RestaurantPage!ListFails, ReviewPages!ListFails, RestaurantPage!HeaderFails, ReviewPages!HeaderFails,
       RestaurantPage!UserSteps, ReviewPages!UserSteps,
       RestaurantPage!Next, ReviewPages!Next, RestaurantPage!TypeOK, ReviewPages!TypeOK, RestaurantPage!Fresh,
       ReviewPages!Fresh, RestaurantPage!Entries, ReviewPages!Entries, RestaurantPage!Fetching, ReviewPages!Fetching,
       RestaurantPage!Served, ReviewPages!Served, RestaurantPage!Filled, ReviewPages!Filled, RestaurantPage!Failed,
       ReviewPages!Failed, RestaurantPage!Invalidated, ReviewPages!Invalidated, RestaurantPage!Written,
       ReviewPages!Written, RestaurantPage!Cardinality, ReviewPages!Cardinality, RestaurantPage!MapThenSumSet,
       ReviewPages!MapThenSumSet, RestaurantPage!MapThenFoldSet, ReviewPages!MapThenFoldSet

\* So are the ratings of drivers.
LEMMA SameRatings ==
  /\ Ratings!Init <=> ReviewPages({"one"}, {"place"}, {"tab"}, {"order"}, {"rating"}, [t \in {"tab"} |-> "one"], [t \in {"tab"} |-> "place"], {}, 1, 1)!Init
  /\ Ratings!Next <=> ReviewPages({"one"}, {"place"}, {"tab"}, {"order"}, {"rating"}, [t \in {"tab"} |-> "one"], [t \in {"tab"} |-> "place"], {}, 1, 1)!Next
BY
   DEF Ratings!pages, ReviewPages!pages, Ratings!drivers, ReviewPages!drivers, Ratings!Review, ReviewPages!Review,
       Ratings!Dialog, ReviewPages!Dialog, Ratings!Unused, ReviewPages!Unused, Ratings!RatingCall,
       ReviewPages!RatingCall, Ratings!InRange, ReviewPages!InRange, Ratings!Of, ReviewPages!Of, Ratings!FirstPage,
       ReviewPages!FirstPage, Ratings!Average, ReviewPages!Average, Ratings!Init, ReviewPages!Init, Ratings!Duplicate,
       ReviewPages!Duplicate, Ratings!CreateReview, ReviewPages!CreateReview, Ratings!OtherClient,
       ReviewPages!OtherClient, Ratings!UpdateReview, ReviewPages!UpdateReview, Ratings!DeleteReview,
       ReviewPages!DeleteReview, Ratings!Service, ReviewPages!Service, Ratings!Mount, ReviewPages!Mount,
       Ratings!GetReviewsByRestaurantId, ReviewPages!GetReviewsByRestaurantId, Ratings!ShowList, ReviewPages!ShowList,
       Ratings!GetAverageRating, ReviewPages!GetAverageRating, Ratings!ShowHeader, ReviewPages!ShowHeader,
       Ratings!HandleSubmit, ReviewPages!HandleSubmit, Ratings!Post, ReviewPages!Post, Ratings!InvalidateReviews,
       ReviewPages!InvalidateReviews, Ratings!Submitted, ReviewPages!Submitted, Ratings!SubmitFailed,
       ReviewPages!SubmitFailed, Ratings!AddDelivery, ReviewPages!AddDelivery, Ratings!HasUserRatedOrder,
       ReviewPages!HasUserRatedOrder, Ratings!CreateRating, ReviewPages!CreateRating, Ratings!ListFails, ReviewPages!ListFails, Ratings!HeaderFails, ReviewPages!HeaderFails,
       Ratings!UserSteps,
       ReviewPages!UserSteps, Ratings!Next, ReviewPages!Next, Ratings!TypeOK, ReviewPages!TypeOK, Ratings!Fresh,
       ReviewPages!Fresh, Ratings!Entries, ReviewPages!Entries, Ratings!Fetching, ReviewPages!Fetching,
       Ratings!Served, ReviewPages!Served, Ratings!Filled, ReviewPages!Filled, Ratings!Failed, ReviewPages!Failed,
       Ratings!Invalidated, ReviewPages!Invalidated, Ratings!Written, ReviewPages!Written, Ratings!Cardinality,
       ReviewPages!Cardinality, Ratings!MapThenSumSet, ReviewPages!MapThenSumSet, Ratings!MapThenFoldSet,
       ReviewPages!MapThenFoldSet

\* The inductive invariant of the types.
ReviewTypesIInv ==
  IF moving = "ratings" THEN PageIInv({"one"}, {"place"}, {"tab"}, 1) /\ RatingsIInv({"order"}, {"rating"})
  ELSE PageIInv({"one", "two"}, {"place"}, {"tab"}, MaxReviews) /\ RatingsIInv({}, {})

\* What is assumed of pages holds for both.
LEMMA ReviewsAssumed ==
  /\ ReviewPagesAssumed({"one", "two"}, {"place"}, {"tab"}, [t \in {"tab"} |-> "one"],
                        [t \in {"tab"} |-> "place"], Given, MaxReviews)
  /\ ReviewPagesAssumed({"one"}, {"place"}, {"tab"}, [t \in {"tab"} |-> "one"],
                        [t \in {"tab"} |-> "place"], {}, 1)
BY SizesAssumption DEF ReviewPagesAssumed

\* At the start.
LEMMA InitReviewTypes == Init => ReviewTypesIInv
<1> SUFFICES ASSUME Init PROVE ReviewTypesIInv
  OBVIOUS
<1>1. CASE moving = "ratings"
  <2>1. ReviewPages({"one"}, {"place"}, {"tab"}, {"order"}, {"rating"}, [t \in {"tab"} |-> "one"], [t \in {"tab"} |-> "place"], {}, 1, 1)!Init
    BY <1>1, SameRatings DEF Init
  <2> QED
    BY <1>1, <2>1, ReviewsAssumed, InitReviewPages DEF ReviewTypesIInv
<1>2. CASE moving # "ratings"
  <2>1. ReviewPages({"one", "two"}, {"place"}, {"tab"}, {}, {}, [t \in {"tab"} |-> "one"], [t \in {"tab"} |-> "place"], Given, PageSize, MaxReviews)!Init
    BY <1>2, SameRestaurantPage DEF Init
  <2> QED
    BY <1>2, <2>1, ReviewsAssumed, InitReviewPages DEF ReviewTypesIInv
<1> QED
  BY <1>1, <1>2

\* Every step keeps the types of reviews and ratings.
LEMMA StepReviewTypes == ReviewTypesIInv /\ [Next]_vars => ReviewTypesIInv'
<1> SUFFICES ASSUME ReviewTypesIInv, [Next]_vars PROVE ReviewTypesIInv'
  OBVIOUS
<1>1. moving' = moving
  BY DEF Next, vars
<1>2. CASE moving = "ratings" /\ Ratings!Next
  <2>1. ReviewPages({"one"}, {"place"}, {"tab"}, {"order"}, {"rating"}, [t \in {"tab"} |-> "one"], [t \in {"tab"} |-> "place"], {}, 1, 1)!Next
    BY <1>2, SameRatings
  <2>2. PageIInv({"one"}, {"place"}, {"tab"}, 1)' /\ RatingsIInv({"order"}, {"rating"})'
    BY <1>2, <2>1, ReviewsAssumed, StepReviewPages DEF ReviewTypesIInv
  <2> QED
    BY <1>1, <1>2, <2>2 DEF ReviewTypesIInv
<1>3. CASE moving = "restaurant" /\ RestaurantPage!Next
  <2>1. ReviewPages({"one", "two"}, {"place"}, {"tab"}, {}, {}, [t \in {"tab"} |-> "one"], [t \in {"tab"} |-> "place"], Given, PageSize, MaxReviews)!Next
    BY <1>3, SameRestaurantPage
  <2>2. PageIInv({"one", "two"}, {"place"}, {"tab"}, MaxReviews)' /\ RatingsIInv({}, {})'
    BY <1>3, <2>1, ReviewsAssumed, StepReviewPages DEF ReviewTypesIInv
  <2> QED
    BY <1>1, <1>3, <2>2 DEF ReviewTypesIInv
<1>4. CASE UNCHANGED reviewPagesVars
  <2>1. UNCHANGED <<reviews, lastId, list, header, dialog, own>> /\ UNCHANGED <<handedOver, rating>>
    BY <1>4 DEF reviewPagesVars
  <2> QED
    BY <1>1, <2>1, ReviewPagesStutter DEF ReviewTypesIInv
<1> QED
  BY <1>2, <1>3, <1>4 DEF Next, vars

\* The invariant implies the types of the module.
LEMMA ReviewPagesTyped ==
  ReviewTypesIInv => /\ moving = "restaurant" => RestaurantPage!TypeOK
                     /\ moving = "ratings" => Ratings!TypeOK
<1> SUFFICES ASSUME ReviewTypesIInv
             PROVE  (moving = "restaurant" => RestaurantPage!TypeOK) /\ (moving = "ratings" => Ratings!TypeOK)
  OBVIOUS
<1>1. ASSUME NEW U, NEW R, NEW T, NEW M, PageIInv(U, R, T, M)
      PROVE  \A t \in T : header[t].fetch \in {"idle", "sent", "answered"}
  <2>1. PICK V : header \in [T -> Cache!Entries(V)]
    BY <1>1 DEF PageIInv
  <2>2. \A q \in Cache!Entries(V) : q.fetch \in {"idle", "sent", "answered"}
    BY DEF Cache!Entries
  <2> QED
    BY <2>1, <2>2
<1>2. ASSUME moving = "restaurant" PROVE RestaurantPage!TypeOK
  <2>1. PageIInv({"one", "two"}, {"place"}, {"tab"}, MaxReviews) /\ RatingsIInv({}, {})
    BY <1>2 DEF ReviewTypesIInv
  <2> QED
    BY <1>1, <2>1
       DEF PageIInv, RatingsIInv, ReviewOf, DialogOf, RatingOf, RestaurantPage!TypeOK, RestaurantPage!Review,
           RestaurantPage!Dialog, RestaurantPage!RatingCall, RestaurantPage!Entries, Cache!Entries
<1>3. ASSUME moving = "ratings" PROVE Ratings!TypeOK
  <2>1. PageIInv({"one"}, {"place"}, {"tab"}, 1) /\ RatingsIInv({"order"}, {"rating"})
    BY <1>3 DEF ReviewTypesIInv
  <2> QED
    BY <1>1, <2>1
       DEF PageIInv, RatingsIInv, ReviewOf, DialogOf, RatingOf, Ratings!TypeOK, Ratings!Review,
           Ratings!Dialog, Ratings!RatingCall, Ratings!Entries, Cache!Entries
<1> QED
  BY <1>2, <1>3

-----------------------------------------------------------------------------
(* The carts keep the limit of their sizes (CartPage.tla).                 *)

\* The units of the items of s, as pairs of an item and a number.
Units(c, s) == {u \in s \X (1..MaxSize) : u[2] <= c.amount[u[1]]}

\* One item has as many units as its amount.
LEMMA UnitsOfOne ==
  ASSUME NEW c \in Checkout!Cart, NEW x \in Slot
  PROVE  IsFiniteSet(Units(c, {x})) /\ Cardinality(Units(c, {x})) = c.amount[x]
<1>1. c.amount[x] \in 0..MaxSize /\ MaxSize \in Nat
  BY SizesAssumption DEF Checkout!Cart
<1>2. PICK n \in 0..MaxSize : n = c.amount[x]
  BY <1>1
<1>3. Units(c, {x}) = {x} \X (1..n)
  <2>1. \A k \in 1..n : k \in 1..MaxSize
    BY <1>1, <1>2
  <2>2. \A k \in 1..MaxSize : k <= n => k \in 1..n
    BY <1>1, <1>2
  <2> QED
    BY <1>2, <2>1, <2>2 DEF Units
<1>4. IsFiniteSet(1..n) /\ Cardinality(1..n) = n
  <2>1. 1 \in Int /\ n \in Int
    BY <1>1
  <2>2. IsFiniteSet(1..n) /\ Cardinality(1..n) = IF 1 > n THEN 0 ELSE n - 1 + 1
    BY <2>1, FS_Interval
  <2> QED
    BY <1>1, <2>2
<1>5. IsFiniteSet({x}) /\ Cardinality({x}) = 1
  BY FS_Singleton
<1>6. IsFiniteSet({x} \X (1..n)) /\ Cardinality({x} \X (1..n)) = Cardinality({x}) * Cardinality(1..n)
  BY <1>4, <1>5, FS_Product
<1>7. n \in Int /\ 1 * n = n
  BY <1>1
<1> QED
  BY <1>2, <1>3, <1>4, <1>5, <1>6, <1>7

\* There are finitely many.
LEMMA UnitsFinite ==
  ASSUME NEW c \in Checkout!Cart, NEW s \in SUBSET Slot
  PROVE  IsFiniteSet(Units(c, s)) /\ Cardinality(Units(c, s)) \in Nat
<1>1. IsFiniteSet(Slot) /\ MaxSize \in Int /\ 1 \in Int
  BY SizesAssumption
<1>2. IsFiniteSet(s)
  BY <1>1, FS_Subset
<1>3. IsFiniteSet(1..MaxSize)
  BY <1>1, FS_Interval
<1>4. IsFiniteSet(s \X (1..MaxSize))
  BY <1>2, <1>3, FS_Product
<1>5. Units(c, s) \in SUBSET (s \X (1..MaxSize))
  BY DEF Units
<1>6. IsFiniteSet(Units(c, s))
  BY <1>4, <1>5, FS_Subset
<1> QED
  BY <1>6, FS_CardinalityType

\* The units of several items are those of one and those of the others.
LEMMA UnitsAdd ==
  ASSUME NEW c \in Checkout!Cart, NEW s \in SUBSET Slot, NEW x \in s
  PROVE  Cardinality(Units(c, s)) = c.amount[x] + Cardinality(Units(c, s \ {x}))
<1> DEFINE one == Units(c, {x})
           rest == Units(c, s \ {x})
<1>1. Units(c, s) = one \cup rest
  BY DEF Units
<1>2. one \cap rest = {}
  BY DEF Units
<1>3. IsFiniteSet(one) /\ Cardinality(one) = c.amount[x]
  BY UnitsOfOne
<1>4. IsFiniteSet(rest) /\ Cardinality(rest) \in Nat
  BY UnitsFinite
<1>5. Cardinality({}) = 0
  BY FS_EmptySet
<1>6. c.amount[x] \in Int
  BY SizesAssumption DEF Checkout!Cart
<1> HIDE DEF one, rest
<1>7. Cardinality(one \cup rest) = Cardinality(one) + Cardinality(rest) - Cardinality(one \cap rest)
  BY <1>3, <1>4, FS_Union
<1>8. PICK a \in Int, b \in Nat : a = c.amount[x] /\ b = Cardinality(rest)
  BY <1>4, <1>6
<1>9. Cardinality(one \cup rest) = a + b - 0
  BY <1>2, <1>3, <1>5, <1>7, <1>8
<1>10. Cardinality(one \cup rest) = a + b
  BY <1>8, <1>9
<1> QED
  BY <1>1, <1>8, <1>10 DEF rest

\* The size of a cart is a number: the recursive sum over its items counts its units, which
\* a smallest set of items with another sum would contradict.
LEMMA SizeIsNat ==
  ASSUME NEW c \in Checkout!Cart
  PROVE  Checkout!Size(c) \in Nat
<1> DEFINE Rest(s) == s \ {CHOOSE x \in s : TRUE}
           Sums(f) == f = [s \in SUBSET Slot |->
                             IF s = {} THEN 0
                             ELSE LET x == CHOOSE y \in s : TRUE
                                  IN  c.amount[x] + f[s \ {x}]]
           sum == CHOOSE f : Sums(f)
           count == [s \in SUBSET Slot |-> Cardinality(Units(c, s))]
<1>1. Checkout!Size(c) = sum[Slot]
  BY DEF Checkout!Size, Checkout!MapThenSumSet, Checkout!MapThenFoldSet
<1>2. Units(c, {}) = {} /\ Cardinality({}) = 0
  BY FS_EmptySet DEF Units
<1>3. Sums(count)
  <2>1. \A s \in SUBSET Slot : s # {} =>
          /\ Rest(s) \in SUBSET Slot
          /\ Cardinality(Units(c, s)) = c.amount[CHOOSE x \in s : TRUE] + Cardinality(Units(c, Rest(s)))
    <3> SUFFICES ASSUME NEW s \in SUBSET Slot, s # {}
                 PROVE  /\ Rest(s) \in SUBSET Slot
                        /\ Cardinality(Units(c, s))
                             = c.amount[CHOOSE x \in s : TRUE] + Cardinality(Units(c, Rest(s)))
      OBVIOUS
    <3>1. (CHOOSE x \in s : TRUE) \in s
      OBVIOUS
    <3> QED
      BY <3>1, UnitsAdd
  <2> QED
    BY <1>2, <2>1
<1>4. Sums(sum)
  <2> HIDE DEF count
  <2> QED
    BY <1>3
<1>5. \A s \in SUBSET Slot :
        sum[s] = IF s = {} THEN 0 ELSE c.amount[CHOOSE x \in s : TRUE] + sum[Rest(s)]
  <2> HIDE DEF sum
  <2> QED
    BY <1>4
<1> DEFINE Wrong == {s \in SUBSET Slot : sum[s] \notin Nat}
<1>6. IsWellFoundedOn(StrictSubsetOrdering(Slot), SUBSET Slot)
  BY SizesAssumption, FS_StrictSubsetOrderingWellFounded, FS_FiniteSubsetsOfFinite
<1>7. Wrong = {}
  <2> HIDE DEF sum
  <2> SUFFICES ASSUME Wrong # {} PROVE FALSE
    OBVIOUS
  <2>1. PICK s \in Wrong : \A r \in Wrong : <<r, s>> \notin StrictSubsetOrdering(Slot)
    <3> HIDE DEF Wrong
    <3>1. Wrong \subseteq SUBSET Slot
      BY DEF Wrong
    <3> QED
      BY <1>6, <3>1, WFMin
  <2>2. s # {}
    BY <1>5
  <2>3. (CHOOSE x \in s : TRUE) \in s
    BY <2>2
  <2>4. Rest(s) \in SUBSET Slot /\ <<Rest(s), s>> \in StrictSubsetOrdering(Slot)
    BY <2>3 DEF StrictSubsetOrdering
  <2>5. sum[Rest(s)] \in Nat
    BY <2>1, <2>4
  <2>6. c.amount[CHOOSE x \in s : TRUE] \in Nat
    BY <2>3, SizesAssumption DEF Checkout!Cart
  <2>7. PICK a, b \in Nat : a = c.amount[CHOOSE x \in s : TRUE] /\ b = sum[Rest(s)]
    BY <2>5, <2>6
  <2>8. sum[s] = a + b
    BY <1>5, <2>2, <2>7
  <2> QED
    BY <2>7, <2>8
<1> QED
  <2> HIDE DEF sum
  <2> QED
    BY <1>1, <1>7

\* What the service keeps, the pages show, and calls ask for and are answered is within the
\* limit of a cart's size.
CartLimited == cart \in Checkout!Cart /\ \A i \in 1..Len(orders) : orders[i].items \in Checkout!Cart
EntryLimited ==
  /\ cache \in [{"tab"} -> Checkout!Entries(Checkout!Cart)]
  /\ cache["tab"].fetch = "answered" => cache["tab"].answer \in Checkout!Cart
CallsLimited ==
  \A c \in Two :
    /\ cartCall[c].at # "idle" /\ cartCall[c].op \in {"add", "edit"} => cartCall[c].n \in 0..MaxSize
    /\ cartCall[c].at = "answered" /\ cartCall[c].op \in {"add", "edit", "coupon"}
         => cartCall[c].answer \in Checkout!Cart \cup {FAILED}
CartBounded == CartLimited /\ EntryLimited /\ CallsLimited

\* An empty cart is within the limit.
LEMMA EmptyIsLimited == Nothing \in Checkout!Cart
BY SizesAssumption DEF Nothing, Checkout!Nothing, Checkout!Cart, Checkout!EmptyCart, Checkout!Coupons

\* At the start.
LEMMA InitBounded == Checkout!Init => CartBounded
<1> SUFFICES ASSUME Checkout!Init PROVE CartBounded
  OBVIOUS
<1>1. cart \in Checkout!Cart /\ Len(orders) = 0
  BY EmptyIsLimited DEF Checkout!Init, Nothing
<1>2. EntryLimited
  BY DEF Checkout!Init, EntryLimited, Checkout!Fresh, Checkout!Entries
<1>3. CallsLimited
  BY DEF Checkout!Init, CallsLimited, Checkout!Idle
<1> QED
  BY <1>1, <1>2, <1>3 DEF CartBounded, CartLimited

\* Calls that are dropped or turn into ones without a cart.
LEMMA CallsStayLimited ==
  ASSUME CallsLimited,
         \A d \in Two : \/ cartCall'[d] = cartCall[d] \/ cartCall'[d].at = "idle"
                        \/ cartCall'[d].op \notin {"add", "edit", "coupon"}
  PROVE  CallsLimited'
BY DEF CallsLimited

\* The query of the cart.
LEMMA QueryLimited ==
  ASSUME CartBounded,
         \/ Checkout!FetchCart("tab") \/ Checkout!GetCart("tab")
         \/ Checkout!ShowCart("tab") \/ Checkout!FetchFails("tab")
  PROVE  CartBounded'
<1>1. UNCHANGED <<cart, orders, cartCall>>
  BY DEF Checkout!FetchCart, Checkout!GetCart, Checkout!ShowCart, Checkout!FetchFails, Checkout!service
<1>2. CartLimited' /\ CallsLimited'
  BY <1>1 DEF CartBounded, CartLimited, CallsLimited
<1>3. PICK q \in Checkout!Entries(Checkout!Cart) :
         q = cache["tab"] /\ (q.fetch = "answered" => q.answer \in Checkout!Cart)
  BY DEF CartBounded, EntryLimited
<1>4. EntryLimited /\ cart \in Checkout!Cart
  BY DEF CartBounded, CartLimited
<1>5. \E r \in Checkout!Entries(Checkout!Cart) :
         /\ cache' = [cache EXCEPT !["tab"] = r]
         /\ r.fetch = "answered" => r.answer \in Checkout!Cart
  <2>1. CASE Checkout!FetchCart("tab")
    <3>1. [q EXCEPT !.fetch = "sent"] \in Checkout!Entries(Checkout!Cart)
          /\ [q EXCEPT !.fetch = "sent"].fetch = "sent"
      BY <1>3 DEF Checkout!Entries
    <3>2. cache' = [cache EXCEPT !["tab"] = [q EXCEPT !.fetch = "sent"]]
      BY <2>1, <1>3 DEF Checkout!FetchCart, Checkout!Fetching
    <3> QED
      BY <3>1, <3>2
  <2>2. CASE Checkout!GetCart("tab")
    <3>1. /\ [q EXCEPT !.fetch = "answered", !.answer = cart] \in Checkout!Entries(Checkout!Cart)
          /\ [q EXCEPT !.fetch = "answered", !.answer = cart].answer = cart
      BY <1>3, <1>4 DEF Checkout!Entries
    <3>2. cache' = [cache EXCEPT !["tab"] = [q EXCEPT !.fetch = "answered", !.answer = cart]]
      BY <2>2, <1>3 DEF Checkout!GetCart, Checkout!Served
    <3> QED
      BY <1>4, <3>1, <3>2
  <2>3. CASE Checkout!ShowCart("tab")
    <3>1. [data |-> q.answer, fetch |-> "idle", answer |-> NoData] \in Checkout!Entries(Checkout!Cart)
      BY <1>3 DEF Checkout!Entries
    <3>2. cache' = [cache EXCEPT !["tab"] = [data |-> q.answer, fetch |-> "idle", answer |-> NoData]]
      BY <2>3, <1>3 DEF Checkout!ShowCart, Checkout!Filled
    <3> QED
      BY <3>1, <3>2
  <2>4. CASE Checkout!FetchFails("tab")
    <3>1. /\ [q EXCEPT !.fetch = "idle", !.answer = NoData] \in Checkout!Entries(Checkout!Cart)
          /\ [q EXCEPT !.fetch = "idle", !.answer = NoData].fetch = "idle"
      BY <1>3 DEF Checkout!Entries
    <3>2. cache' = [cache EXCEPT !["tab"] = [q EXCEPT !.fetch = "idle", !.answer = NoData]]
      BY <2>4, <1>3 DEF Checkout!FetchFails, Checkout!Failed
    <3> QED
      BY <3>1, <3>2
  <2> QED
    BY <2>1, <2>2, <2>3, <2>4
<1>6. EntryLimited'
  BY <1>4, <1>5 DEF EntryLimited
<1> QED
  BY <1>2, <1>6 DEF CartBounded

\* A click: the amounts asked for are checked against the cart that is shown.
LEMMA ClickLimited ==
  ASSUME CheckoutIInv, CartBounded, NEW c \in Two,
         \/ \E n \in Amount : Checkout!AddToCart("tab", c, n)
         \/ \E s \in Slot : Checkout!EditItem("tab", c, s) \/ Checkout!RemoveItem("tab", c, s)
         \/ Checkout!ClearCart("tab", c) \/ Checkout!PlaceOrder("tab", c)
         \/ \E v \in Checkout!Coupons : Checkout!Coupon("tab", c, v)
  PROVE  CartBounded'
<1> DEFINE shown == Checkout!Shown("tab")
<1>1. shown \in Checkout!Cart
  BY EmptyIsLimited DEF Checkout!Shown, CartBounded, EntryLimited, Checkout!Entries, Nothing
<1> HIDE DEF shown
<1>2. PICK op, s, n : /\ Checkout!Send("tab", c, op, s, n)
                      /\ op \in {"add", "edit"} => n \in 0..MaxSize
  <2>1. CASE \E n \in Amount : Checkout!AddToCart("tab", c, n)
    <3>1. PICK n \in Amount : /\ Checkout!Send("tab", c, "add", None, n)
                              /\ n >= 1 /\ n + Checkout!Size(shown) <= MaxSize
      BY <2>1 DEF Checkout!AddToCart, shown
    <3>2. Checkout!Size(shown) \in Nat
      BY <1>1, SizeIsNat
    <3>3. n \in 0..MaxSize
      BY <3>1, <3>2, SizesAssumption
    <3> QED
      BY <3>1, <3>3
  <2>2. CASE \E s \in Slot : Checkout!EditItem("tab", c, s)
    <3>1. PICK s \in Slot : Checkout!EditItem("tab", c, s)
      BY <2>2
    <3>2. PICK k \in 0..MaxSize : k = shown.amount[s]
      BY <1>1 DEF Checkout!Cart
    <3>3. \/ k < MaxSize /\ Checkout!Send("tab", c, "edit", s, k + 1)
          \/ k > 1 /\ Checkout!Send("tab", c, "edit", s, k - 1)
      BY <3>1, <3>2 DEF Checkout!EditItem, shown
    <3>4. (k < MaxSize => k + 1 \in 0..MaxSize) /\ (k > 1 => k - 1 \in 0..MaxSize)
      BY <3>2, SizesAssumption
    <3> QED
      BY <3>3, <3>4
  <2>3. CASE \E s \in Slot : Checkout!RemoveItem("tab", c, s)
    BY <2>3 DEF Checkout!RemoveItem
  <2>4. CASE Checkout!ClearCart("tab", c)
    BY <2>4 DEF Checkout!ClearCart
  <2>5. CASE Checkout!PlaceOrder("tab", c)
    BY <2>5 DEF Checkout!PlaceOrder
  <2>6. CASE \E v \in Checkout!Coupons : Checkout!Coupon("tab", c, v)
    BY <2>6 DEF Checkout!Coupon
  <2> QED
    BY <2>1, <2>2, <2>3, <2>4, <2>5, <2>6
<1>3. /\ UNCHANGED <<cart, orders, cache>>
      /\ cartCall' = [cartCall EXCEPT ![c] = [tab |-> "tab", op |-> op, arg |-> s, n |-> n,
                                             at |-> "sent", answer |-> None]]
  BY <1>2 DEF Checkout!Send, Checkout!service
<1>4. CartLimited' /\ EntryLimited'
  BY <1>3 DEF CartBounded, CartLimited, EntryLimited
<1>5. CallsLimited'
  BY <1>2, <1>3 DEF CartBounded, CallsLimited, CheckoutIInv, CallsTyped
<1> QED
  BY <1>4, <1>5 DEF CartBounded

\* What the order service does with the cart: an amount within the limit is set, the coupon
\* is, or the cart is emptied.
LEMMA EffectLimited ==
  ASSUME CheckoutIInv, CartBounded,
         \/ \E n \in 0..MaxSize : Checkout!AddItem(n)
         \/ \E s \in Slot, n \in 0..MaxSize : Checkout!UpdateItem(s, n)
         \/ \E s \in Slot : Checkout!TakeItem(s)
         \/ \E v \in Checkout!Coupons : Checkout!SetCartCoupon(v)
         \/ Checkout!DropCart
  PROVE  CartLimited'
<1>1. cart = [amount |-> cart.amount, coupon |-> cart.coupon]
      /\ cart.amount \in [Slot -> 0..MaxSize] /\ cart.coupon \in Checkout!Coupons
  BY DEF CartBounded, CartLimited, Checkout!Cart
<1>2. 0 \in 0..MaxSize
  BY SizesAssumption
<1>3. ASSUME NEW s, NEW n \in 0..MaxSize, cart' = [cart EXCEPT !.amount[s] = n]
      PROVE  cart' \in Checkout!Cart
  <2>1. cart' = [amount |-> [cart.amount EXCEPT ![s] = n], coupon |-> cart.coupon]
    BY <1>1, <1>3
  <2>2. [cart.amount EXCEPT ![s] = n] \in [Slot -> 0..MaxSize]
    BY <1>1
  <2> QED
    BY <1>1, <2>1, <2>2 DEF Checkout!Cart
<1>4. ASSUME NEW v \in Checkout!Coupons, cart' = [cart EXCEPT !.coupon = v]
      PROVE  cart' \in Checkout!Cart
  <2>1. cart' = [amount |-> cart.amount, coupon |-> v]
    BY <1>1, <1>4
  <2> QED
    BY <1>1, <2>1 DEF Checkout!Cart
<1>5. cart' \in Checkout!Cart
  BY <1>2, <1>3, <1>4, EmptyIsLimited
     DEF Checkout!AddItem, Checkout!UpdateItem, Checkout!TakeItem, Checkout!SetCartCoupon,
         Checkout!DropCart, Nothing
<1>6. UNCHANGED orders
  BY DEF Checkout!AddItem, Checkout!UpdateItem, Checkout!TakeItem, Checkout!SetCartCoupon,
         Checkout!DropCart
<1> QED
  BY <1>5, <1>6 DEF CartBounded, CartLimited

\* The cart, which is within the limit, becomes an order.
LEMMA NewOrderLimited ==
  ASSUME CheckoutIInv, CartBounded, Checkout!CreateOrderFromCart
  PROVE  CartLimited'
<1> DEFINE new == [items |-> cart, status |-> "payment_pending"]
<1>1. orders \in Seq(CartOrder) /\ Len(orders) \in Nat
  BY CheckoutFacts DEF CheckoutIInv, ServiceTyped
<1>2. orders' = Append(orders, new) /\ cart' = Nothing
  BY DEF Checkout!CreateOrderFromCart, Nothing
<1>3. new.items = cart
  OBVIOUS
<1> HIDE DEF new
<1>4. /\ Len(orders') = Len(orders) + 1 /\ orders'[Len(orders) + 1] = new
      /\ \A i \in 1..Len(orders) : orders'[i] = orders[i]
  BY <1>1, <1>2
<1>5. \A i \in 1..Len(orders') : i = Len(orders) + 1 \/ i \in 1..Len(orders)
  BY <1>1, <1>4
<1> QED
  BY <1>2, <1>3, <1>4, <1>5, EmptyIsLimited DEF CartBounded, CartLimited

\* An order is canceled.
LEMMA CancelLimited ==
  ASSUME CheckoutIInv, CartBounded, NEW i, UNCHANGED cart,
         orders' = [orders EXCEPT ![i].status = "canceled"]
  PROVE  CartLimited'
<1>1. orders \in [1..Len(orders) -> CartOrder] /\ orders \in Seq(CartOrder)
  BY CheckoutFacts DEF CheckoutIInv, ServiceTyped
<1>2. \A j \in 1..Len(orders) :
        orders'[j] = IF j = i THEN [orders[j] EXCEPT !.status = "canceled"] ELSE orders[j]
  BY <1>1
<1>3. \A j \in 1..Len(orders) : orders'[j].items = orders[j].items
  BY <1>1, <1>2 DEF CartOrder
<1>4. Len(orders') = Len(orders)
  BY <1>1
<1> QED
  BY <1>3, <1>4 DEF CartBounded, CartLimited

\* An answer of the services: the cart in it is the one that was written.
LEMMA ServeLimited ==
  ASSUME CheckoutIInv, CartBounded, NEW c \in Two, Checkout!Serve(c)
  PROVE  CartBounded'
<1> DEFINE k == cartCall[c]
<1>1. UNCHANGED cache /\ k.at = "sent"
  BY DEF Checkout!Serve
<1>2. EntryLimited'
  BY <1>1 DEF CartBounded, EntryLimited
<1>3. /\ k.op \in {"add", "edit"} => k.n \in 0..MaxSize
      /\ k.op \in {"edit", "remove"} => k.arg \in Slot
      /\ k.op = "coupon" => k.arg \in Checkout!Coupons
  BY <1>1 DEF CartBounded, CallsLimited, CheckoutIInv, CallsTyped
<1>4. k \in CartCallState
  BY CheckoutFacts
<1>5. ASSUME NEW v, Checkout!Answer(c, v),
             k.op \in {"add", "edit", "coupon"} => v \in Checkout!Cart \cup {FAILED}
      PROVE  CallsLimited'
  <2>1. cartCall' = [cartCall EXCEPT ![c] = [k EXCEPT !.at = "answered", !.answer = v]]
    BY <1>5 DEF Checkout!Answer, CheckoutIInv, CallsTyped
  <2>2. /\ [k EXCEPT !.at = "answered", !.answer = v].op = k.op
        /\ [k EXCEPT !.at = "answered", !.answer = v].n = k.n
        /\ [k EXCEPT !.at = "answered", !.answer = v].answer = v
    BY <1>4 DEF CartCallState
  <2>3. cartCall'[c].op = k.op /\ cartCall'[c].n = k.n /\ cartCall'[c].answer = v
        /\ \A d \in Two : d # c => cartCall'[d] = cartCall[d]
    BY <2>1, <2>2 DEF CheckoutIInv, CallsTyped
  <2> QED
    BY <1>3, <1>5, <2>3, <1>1 DEF CallsLimited, CartBounded
<1>6. CASE Checkout!AnswerAdd(c) \/ Checkout!AnswerEdit(c) \/ Checkout!AnswerCoupon(c)
  <2>1. CartLimited'
    BY <1>3, <1>6, EffectLimited DEF Checkout!AnswerAdd, Checkout!AnswerEdit, Checkout!AnswerCoupon
  <2>2. PICK v \in {cart', FAILED} : Checkout!Answer(c, v)
    BY <1>6 DEF Checkout!AnswerAdd, Checkout!AnswerEdit, Checkout!AnswerCoupon, Checkout!Acknowledged
  <2>3. v \in Checkout!Cart \cup {FAILED}
    BY <2>1 DEF CartLimited
  <2> QED
    BY <1>2, <1>5, <2>1, <2>2, <2>3 DEF CartBounded
<1>7. CASE Checkout!AnswerRemove(c)
  <2>1. CartLimited' /\ k.op \in {"remove", "clear"}
    BY <1>3, <1>7, EffectLimited DEF Checkout!AnswerRemove
  <2>2. PICK v : Checkout!Answer(c, v)
    BY <1>7 DEF Checkout!AnswerRemove, Checkout!Acknowledged
  <2> QED
    BY <1>2, <1>5, <2>1, <2>2 DEF CartBounded
<1>8. CASE Checkout!AnswerOrder(c)
  <2>1. CartLimited' /\ k.op = "order"
    BY <1>8, NewOrderLimited DEF Checkout!AnswerOrder
  <2>2. PICK v : Checkout!Answer(c, v)
    BY <1>8 DEF Checkout!AnswerOrder, Checkout!Acknowledged
  <2> QED
    BY <1>2, <1>5, <2>1, <2>2 DEF CartBounded
<1>9. CASE Checkout!AnswerCancel(c)
  <2>1. CartLimited' /\ k.op = "cancel" /\ Checkout!Answer(c, DONE)
    BY <1>9, CancelLimited DEF Checkout!AnswerCancel
  <2> QED
    BY <1>2, <1>5, <2>1 DEF CartBounded
<1>10. CASE Checkout!AnswerPay(c)
  <2>1. UNCHANGED <<cart, orders>> /\ k.op = "pay" /\ Checkout!Answer(c, DONE)
    BY <1>10 DEF Checkout!AnswerPay, Checkout!service
  <2> QED
    BY <1>2, <1>5, <2>1 DEF CartBounded, CartLimited
<1>11. CASE Checkout!Refuse(c)
  <2>1. UNCHANGED <<cart, orders>> /\ Checkout!Answer(c, FAILED)
    BY <1>11 DEF Checkout!Refuse, Checkout!service
  <2> QED
    BY <1>2, <1>5, <2>1 DEF CartBounded, CartLimited
<1> QED
  BY <1>6, <1>7, <1>8, <1>9, <1>10, <1>11 DEF Checkout!Serve

\* Another client of the user: its page keeps the limits too.
LEMMA OthersLimited ==
  ASSUME CheckoutIInv, CartBounded, Checkout!OtherClient
  PROVE  CartBounded'
<1>1. UNCHANGED <<cache, cartCall>>
  BY DEF Checkout!OtherClient
<1>2. 1..MaxSize \subseteq 0..MaxSize
  BY SizesAssumption
<1>3. CartLimited'
  BY <1>2, EffectLimited, NewOrderLimited DEF Checkout!OtherClient
<1> QED
  BY <1>1, <1>3 DEF CartBounded, EntryLimited, CallsLimited

\* The page applies an answer.
LEMMA ApplyLimited ==
  ASSUME CheckoutIInv, CartBounded, NEW c \in Two, Checkout!Apply(c)
  PROVE  CartBounded'
<1> DEFINE k == cartCall[c]
<1>1. UNCHANGED <<cart, orders>> /\ k.at = "answered"
  BY DEF Checkout!Apply, Checkout!WriteAnswer, Checkout!InvalidateAnswer, Checkout!FailedAnswer,
         Checkout!OrderCreated, Checkout!GoToPayment, Checkout!PaymentFailed, Checkout!CancelAnswered,
         Checkout!Answered, Checkout!service
<1>2. CartLimited'
  BY <1>1 DEF CartBounded, CartLimited
<1>3. k \in CartCallState /\ k.tab = "tab" /\ cartCall \in [Two -> CartCallState]
  BY <1>1, CheckoutFacts DEF CheckoutIInv, CallsTyped
<1>4. CallsLimited'
  <2>1. CASE Checkout!Done(c)
    <3>1. \A d \in Two : cartCall'[d] = cartCall[d] \/ cartCall'[d].at = "idle"
      BY <1>3, <2>1 DEF Checkout!Done, Checkout!Idle
    <3> QED
      BY <3>1, CallsStayLimited DEF CartBounded
  <2>2. CASE Checkout!OrderCreated(c) \/ Checkout!PaymentFailed(c)
    <3>1. \E new : cartCall' = [cartCall EXCEPT ![c] = new] /\ new.op \in {"pay", "cancel"}
      BY <1>3, <2>2 DEF Checkout!OrderCreated, Checkout!PaymentFailed, CartCallState
    <3>2. \A d \in Two : cartCall'[d] = cartCall[d] \/ cartCall'[d].op \in {"pay", "cancel"}
      BY <1>3, <3>1
    <3> QED
      BY <3>2, CallsStayLimited DEF CartBounded
  <2>3. CASE Checkout!GoToPayment(c)
    <3>1. \A d \in Two : cartCall'[d] = cartCall[d] \/ cartCall'[d].at = "idle"
      BY <2>3 DEF Checkout!GoToPayment, Checkout!Idle
    <3> QED
      BY <3>1, CallsStayLimited DEF CartBounded
  <2> QED
    BY <2>1, <2>2, <2>3 DEF Checkout!Apply, Checkout!WriteAnswer, Checkout!InvalidateAnswer,
       Checkout!FailedAnswer, Checkout!CancelAnswered
<1>5. EntryLimited'
  <2>1. PICK q \in Checkout!Entries(Checkout!Cart) :
           q = cache["tab"] /\ (q.fetch = "answered" => q.answer \in Checkout!Cart)
    BY DEF CartBounded, EntryLimited
  <2>2. \/ UNCHANGED cache
        \/ \E r \in Checkout!Entries(Checkout!Cart) :
             /\ cache' = [cache EXCEPT !["tab"] = r]
             /\ r.fetch = "answered" => r.answer \in Checkout!Cart
    <3>1. CASE Checkout!WriteAnswer(c)
      <4>1. cache' = [cache EXCEPT !["tab"] = [q EXCEPT !.data = k.answer]]
        BY <1>3, <2>1, <3>1 DEF Checkout!WriteAnswer, Checkout!Written
      <4>2. k.answer \in Checkout!Cart
        BY <1>1, <3>1 DEF Checkout!WriteAnswer, Checkout!Answered, CartBounded, CallsLimited
      <4>3. /\ [q EXCEPT !.data = k.answer] \in Checkout!Entries(Checkout!Cart)
            /\ [q EXCEPT !.data = k.answer].fetch = q.fetch
            /\ [q EXCEPT !.data = k.answer].answer = q.answer
        BY <2>1, <4>2 DEF Checkout!Entries
      <4> QED
        BY <2>1, <4>1, <4>3
    <3>2. CASE Checkout!InvalidateAnswer(c) \/ Checkout!OrderCreated(c)
      <4>1. cache' = [cache EXCEPT !["tab"] = Checkout!Invalidated(q)]
        BY <1>3, <2>1, <3>2 DEF Checkout!InvalidateAnswer, Checkout!OrderCreated
      <4>2. /\ Checkout!Invalidated(q) \in Checkout!Entries(Checkout!Cart)
            /\ Checkout!Invalidated(q) = q \/ Checkout!Invalidated(q).fetch = "sent"
        BY <2>1 DEF Checkout!Invalidated, Checkout!Entries
      <4> QED
        BY <2>1, <4>1, <4>2
    <3>3. CASE Checkout!GoToPayment(c)
      <4>1. cache' = [cache EXCEPT !["tab"] = Checkout!Fresh]
        BY <1>3, <3>3 DEF Checkout!GoToPayment
      <4>2. Checkout!Fresh \in Checkout!Entries(Checkout!Cart) /\ Checkout!Fresh.fetch = "idle"
        BY DEF Checkout!Fresh, Checkout!Entries
      <4> QED
        BY <4>1, <4>2
    <3> QED
      BY <3>1, <3>2, <3>3 DEF Checkout!Apply, Checkout!FailedAnswer, Checkout!PaymentFailed,
         Checkout!CancelAnswered
  <2>3. EntryLimited
    BY DEF CartBounded
  <2> QED
    BY <2>2, <2>3 DEF EntryLimited
<1> QED
  BY <1>2, <1>4, <1>5 DEF CartBounded

\* Every step keeps the limit.
LEMMA StepBounded == CheckoutIInv /\ CartBounded /\ [Checkout!Next]_checkoutVars => CartBounded'
<1> SUFFICES ASSUME CheckoutIInv, CartBounded, [Checkout!Next]_checkoutVars PROVE CartBounded'
  OBVIOUS
<1>1. CASE UNCHANGED <<cart, orders, cache, cartCall>>
  BY <1>1 DEF CartBounded, CartLimited, EntryLimited, CallsLimited
<1>2. CASE Checkout!Next
  <2>1. CASE \/ Checkout!FetchCart("tab") \/ Checkout!GetCart("tab")
             \/ Checkout!ShowCart("tab") \/ Checkout!FetchFails("tab")
    BY <2>1, QueryLimited
  <2>2. CASE Checkout!ComeBack("tab")
    BY <1>1, <2>2 DEF Checkout!ComeBack, Checkout!service
  <2>3. ASSUME NEW c \in Two,
               \/ \E n \in Amount : Checkout!AddToCart("tab", c, n)
               \/ \E s \in Slot : Checkout!EditItem("tab", c, s) \/ Checkout!RemoveItem("tab", c, s)
               \/ Checkout!ClearCart("tab", c) \/ Checkout!PlaceOrder("tab", c)
               \/ \E v \in Checkout!Coupons : Checkout!Coupon("tab", c, v)
        PROVE  CartBounded'
    BY <2>3, ClickLimited
  <2>4. ASSUME NEW c \in Two, Checkout!Serve(c) \/ Checkout!Apply(c) PROVE CartBounded'
    BY <2>4, ServeLimited, ApplyLimited
  <2>5. CASE Checkout!OtherClient
    BY <2>5, OthersLimited
  <2> QED
    BY <1>2, <2>1, <2>2, <2>3, <2>4, <2>5 DEF Checkout!Next
<1> QED
  BY <1>1, <1>2 DEF checkoutVars

\* A function on 1..n is a sequence.
LEMMA FunctionIsSeq ==
  ASSUME NEW S, NEW n \in Nat, NEW f \in [1..n -> S]
  PROVE  f \in Seq(S)
OBVIOUS

\* The types of the cart and the checkout.
LEMMA CheckoutTyped == CheckoutIInv /\ CartBounded => Checkout!TypeOK
<1> SUFFICES ASSUME CheckoutIInv, CartBounded PROVE Checkout!TypeOK
  OBVIOUS
<1>1. orders \in Seq(CartOrder) /\ used \subseteq Slot /\ Len(orders) \in Nat
  BY CheckoutFacts DEF CheckoutIInv, ServiceTyped
<1>2. orders \in [1..Len(orders) -> CartOrder]
  BY <1>1
<1>3. \A i \in 1..Len(orders) :
        orders[i] \in [items : Checkout!Cart, status : {"payment_pending", "canceled"}]
  BY <1>2 DEF CartBounded, CartLimited, CartOrder
<1>4. orders \in Seq([items : Checkout!Cart, status : {"payment_pending", "canceled"}])
  <2>1. orders \in [1..Len(orders) -> [items : Checkout!Cart, status : {"payment_pending", "canceled"}]]
    BY <1>2, <1>3
  <2> QED
    BY <1>1, <2>1, FunctionIsSeq
<1>5. \A c \in Two : cartCall[c].at \in {"idle", "sent", "answered"}
                     /\ cartCall[c].op \in Checkout!Op \cup {None} /\ cartCall[c].tab \in {"tab"} \cup {None}
  BY CheckoutFacts DEF CartCallState
<1> QED
  BY <1>1, <1>4, <1>5 DEF Checkout!TypeOK, CheckoutIInv, TabTyped, CartBounded, CartLimited, EntryLimited

-----------------------------------------------------------------------------
(* The tabs of the dashboard of one driver (DriverDashboard.tla).          *)

\* The states a delivery of the driver may be listed with.
ListedStates == [{"delivery"} -> {"none", "waiting", "delivering", "done"}]

\* The inductive invariant of the types that DashboardIInv leaves out: a list only shows
\* states of deliveries that have a driver.
TabsIInv ==
  /\ tab \in [{"driver"} -> OwnTabs!Tab] /\ online \in [{"driver"} -> BOOLEAN]
  /\ near \in [{"driver"} -> Cache!Entries(SUBSET {"delivery"})]
  /\ mine \in [{"driver"} -> Cache!Entries(ListedStates)]
  /\ pending \in [{"driver"} -> [OwnTabs!Op -> Two \cup {None}]]
  /\ mineFailed \subseteq {"driver"}
  /\ deliveries["delivery"].driver = "driver"
       => deliveries["delivery"].state \in {"waiting", "delivering", "done"}

\* The cache of the dashboard is the one above.
LEMMA OwnTabsCache ==
  /\ \A q : /\ OwnTabs!Fetching(q) = Cache!Fetching(q) /\ OwnTabs!Filled(q) = Cache!Filled(q)
            /\ OwnTabs!Failed(q) = Cache!Failed(q) /\ OwnTabs!Invalidated(q) = Cache!Invalidated(q)
  /\ \A q, v : OwnTabs!Served(q, v) = Cache!Served(q, v)
  /\ \A V : OwnTabs!Entries(V) = Cache!Entries(V)
  /\ OwnTabs!Fresh = Cache!Fresh
BY DEF OwnTabs!Fetching, OwnTabs!Filled, OwnTabs!Failed, OwnTabs!Invalidated, OwnTabs!Served,
       OwnTabs!Entries, OwnTabs!Fresh, Cache!Fetching, Cache!Filled, Cache!Failed, Cache!Invalidated,
       Cache!Served, Cache!Entries, Cache!Fresh

\* At the start.
LEMMA InitTabs == OwnTabs!Init => TabsIInv
<1> SUFFICES ASSUME OwnTabs!Init PROVE TabsIInv
  OBVIOUS
<1>1. Cache!Fresh \in Cache!Entries(SUBSET {"delivery"}) /\ Cache!Fresh \in Cache!Entries(ListedStates)
  BY DEF Cache!Fresh, Cache!Entries
<1>2. Cache!Fetching(Cache!Fresh) \in Cache!Entries(SUBSET {"delivery"})
  BY <1>1, EntryFetched
<1>3. /\ near = [w \in {"driver"} |-> Cache!Fetching(Cache!Fresh)]
      /\ mine = [w \in {"driver"} |-> Cache!Fresh]
  BY OwnTabsCache DEF OwnTabs!Init
<1>4. deliveries["delivery"].driver # "driver"
  BY NothingAssumption DEF OwnTabs!Init, OwnTabs!Service!Init
<1>5. pending \in [{"driver"} -> [OwnTabs!Op -> Two \cup {None}]]
  BY DEF OwnTabs!Init, OwnTabs!NoCalls
<1> QED
  BY <1>1, <1>2, <1>3, <1>4, <1>5 DEF OwnTabs!Init, TabsIInv, OwnTabs!Tab

\* Tabs, the toggle, fetches and what they bring.
LEMMA TabsPageStep ==
  ASSUME TabsIInv,
         \/ \E t \in {"available", "active", "completed"} : OwnTabs!SetActiveTab("driver", t)
         \/ OwnTabs!ToggleOnline("driver") \/ OwnTabs!Poll("driver")
         \/ OwnTabs!GetNearbyDeliveries("driver") \/ OwnTabs!GetMyDeliveries("driver")
         \/ OwnTabs!ShowNear("driver") \/ OwnTabs!ShowMine("driver")
  PROVE  TabsIInv'
<1>1. /\ near \in [{"driver"} -> Cache!Entries(SUBSET {"delivery"})]
      /\ mine \in [{"driver"} -> Cache!Entries(ListedStates)]
  BY DEF TabsIInv
<1>2. PICK n \in Cache!Entries(SUBSET {"delivery"}) : n = near["driver"]
  BY <1>1
<1>3. PICK m \in Cache!Entries(ListedStates) : m = mine["driver"]
  BY <1>1
<1>4. OwnTabs!Nearby \in SUBSET {"delivery"} /\ OwnTabs!Own("driver") \in ListedStates
  BY DEF OwnTabs!Nearby, OwnTabs!Own, ListedStates, TabsIInv
<1>5. /\ Cache!Fetching(n) \in Cache!Entries(SUBSET {"delivery"})
      /\ Cache!Filled(n) \in Cache!Entries(SUBSET {"delivery"})
      /\ Cache!Failed(n) \in Cache!Entries(SUBSET {"delivery"})
      /\ Cache!Served(n, OwnTabs!Nearby) \in Cache!Entries(SUBSET {"delivery"})
  BY <1>2, <1>4, EntryFetched, EntryFilled, EntryFailed, EntryServed
<1>6. /\ Cache!Fetching(m) \in Cache!Entries(ListedStates)
      /\ Cache!Filled(m) \in Cache!Entries(ListedStates)
      /\ Cache!Failed(m) \in Cache!Entries(ListedStates)
      /\ Cache!Served(m, OwnTabs!Own("driver")) \in Cache!Entries(ListedStates)
  BY <1>3, <1>4, EntryFetched, EntryFilled, EntryFailed, EntryServed
<1>7. /\ \/ near' = near
         \/ \E q \in Cache!Entries(SUBSET {"delivery"}) : near' = [near EXCEPT !["driver"] = q]
      /\ \/ mine' = mine
         \/ \E q \in Cache!Entries(ListedStates) : mine' = [mine EXCEPT !["driver"] = q]
  BY <1>2, <1>3, <1>5, <1>6, OwnTabsCache
     DEF OwnTabs!SetActiveTab, OwnTabs!ToggleOnline, OwnTabs!Poll, OwnTabs!GetNearbyDeliveries,
         OwnTabs!GetMyDeliveries, OwnTabs!ShowNear, OwnTabs!ShowMine
<1>8. /\ near' \in [{"driver"} -> Cache!Entries(SUBSET {"delivery"})]
      /\ mine' \in [{"driver"} -> Cache!Entries(ListedStates)]
  BY <1>1, <1>7
<1>9. /\ tab' \in [{"driver"} -> OwnTabs!Tab] /\ online' \in [{"driver"} -> BOOLEAN]
      /\ pending' \in [{"driver"} -> [OwnTabs!Op -> Two \cup {None}]]
      /\ mineFailed' \subseteq {"driver"} /\ UNCHANGED deliveries
  <2>1. OwnTabs!NoCalls \in [OwnTabs!Op -> Two \cup {None}]
    BY DEF OwnTabs!NoCalls
  <2>2. /\ tab \in [{"driver"} -> OwnTabs!Tab] /\ online \in [{"driver"} -> BOOLEAN]
        /\ pending \in [{"driver"} -> [OwnTabs!Op -> Two \cup {None}]]
        /\ mineFailed \subseteq {"driver"}
    BY DEF TabsIInv
  <2>3. /\ \/ tab' = tab
           \/ \E t \in {"available", "active", "completed"} : tab' = [tab EXCEPT !["driver"] = t]
        /\ online' = online \/ online' = [online EXCEPT !["driver"] = ~ online["driver"]]
        /\ pending' = pending \/ pending' = [pending EXCEPT !["driver"] = OwnTabs!NoCalls]
        /\ mineFailed' \in {mineFailed, mineFailed \ {"driver"}, mineFailed \cup {"driver"}}
        /\ UNCHANGED deliveries
    BY DEF OwnTabs!SetActiveTab, OwnTabs!ToggleOnline, OwnTabs!Poll, OwnTabs!GetNearbyDeliveries,
           OwnTabs!GetMyDeliveries, OwnTabs!ShowNear, OwnTabs!ShowMine
  <2>4. tab' \in [{"driver"} -> OwnTabs!Tab]
    BY <2>2, <2>3 DEF OwnTabs!Tab
  <2>5. online' \in [{"driver"} -> BOOLEAN]
    BY <2>2, <2>3
  <2>6. pending' \in [{"driver"} -> [OwnTabs!Op -> Two \cup {None}]]
    BY <2>1, <2>2, <2>3
  <2> QED
    BY <2>2, <2>3, <2>4, <2>5, <2>6
<1> QED
  BY <1>8, <1>9 DEF TabsIInv

\* A button of a card is clicked.
LEMMA TabsClickStep ==
  ASSUME TabsIInv, NEW c \in Two,
         OwnTabs!ClickClaim(c, "driver", "delivery") \/ OwnTabs!ClickActive(c, "driver", "delivery")
  PROVE  TabsIInv'
<1>1. PICK op \in OwnTabs!Op : OwnTabs!Click(c, "driver", op, "delivery")
  BY DEF OwnTabs!ClickClaim, OwnTabs!ClickActive, OwnTabs!Op
<1>2. /\ pending' = [pending EXCEPT !["driver"][op] = c]
      /\ UNCHANGED <<deliveries, tab, online, near, mine, mineFailed, seen>>
  BY <1>1 DEF OwnTabs!Click
<1>3. pending' \in [{"driver"} -> [OwnTabs!Op -> Two \cup {None}]]
  BY <1>2 DEF TabsIInv
<1> QED
  BY <1>2, <1>3 DEF TabsIInv

\* The service answers a call.
LEMMA TabsAnswerStep ==
  ASSUME DashboardIInv, TabsIInv, NEW c \in Two, OwnTabs!Answer(c)
  PROVE  TabsIInv'
<1>1. press[c].d = "delivery" /\ press[c].w = "driver"
  BY DEF DashboardIInv, PressesCarriedOut, OwnTabs!Answer
<1>2. PICK old \in [state : DeliveryState, order : {"order", NoOrder}, driver : {"driver", NoDriver}] :
         old = deliveries["delivery"]
  BY DEF DashboardIInv, DashboardTyped
<1>3. "delivery" \in DOMAIN deliveries
  BY DEF DashboardIInv, DashboardTyped
<1>4. deliveries'["delivery"].driver = "driver"
        => deliveries'["delivery"].state \in {"waiting", "delivering", "done"}
  <2>1. CASE OwnTabs!Service!ClaimDelivery("delivery", "driver")
    BY <1>2, <1>3, <2>1 DEF OwnTabs!Service!ClaimDelivery
  <2>2. CASE OwnTabs!Service!DeliveryPickup("delivery", "driver")
    BY <1>2, <1>3, <2>2 DEF OwnTabs!Service!DeliveryPickup
  <2>3. CASE OwnTabs!Service!DeliveryComplete("delivery", "driver")
    BY <1>2, <1>3, <2>3 DEF OwnTabs!Service!DeliveryComplete
  <2>4. CASE UNCHANGED deliveries
    BY <2>4 DEF TabsIInv
  <2> QED
    BY <1>1, <2>1, <2>2, <2>3, <2>4 DEF OwnTabs!Answer
<1>5. UNCHANGED <<tab, online, near, mine, mineFailed, pending>>
  BY DEF OwnTabs!Answer
<1> QED
  BY <1>4, <1>5 DEF TabsIInv

\* A call is reported to the driver, and the lists are refreshed.
LEMMA TabsSettleStep ==
  ASSUME DashboardIInv, TabsIInv, NEW c \in Two, OwnTabs!Settle(c)
  PROVE  TabsIInv'
<1>1. press[c].w = "driver"
  BY DEF DashboardIInv, PressesCarriedOut, OwnTabs!Settle
<1>2. pending' \in [{"driver"} -> [OwnTabs!Op -> Two \cup {None}]]
  <2>1. PICK waits \in [OwnTabs!Op -> Two \cup {None}] : waits = pending["driver"]
    BY DEF TabsIInv
  <2>2. pending' = [pending EXCEPT !["driver"] = [p \in OwnTabs!Op |-> IF waits[p] = c THEN None ELSE waits[p]]]
    BY <1>1, <2>1 DEF OwnTabs!Settle
  <2>3. [p \in OwnTabs!Op |-> IF waits[p] = c THEN None ELSE waits[p]] \in [OwnTabs!Op -> Two \cup {None}]
    OBVIOUS
  <2> QED
    BY <2>2, <2>3 DEF TabsIInv
<1>3. /\ near' \in [{"driver"} -> Cache!Entries(SUBSET {"delivery"})]
      /\ mine' \in [{"driver"} -> Cache!Entries(ListedStates)]
  <2>1. /\ near \in [{"driver"} -> Cache!Entries(SUBSET {"delivery"})]
        /\ mine \in [{"driver"} -> Cache!Entries(ListedStates)]
    BY DEF TabsIInv
  <2>2. /\ Cache!Invalidated(near["driver"]) \in Cache!Entries(SUBSET {"delivery"})
        /\ Cache!Invalidated(mine["driver"]) \in Cache!Entries(ListedStates)
    BY <2>1, EntryInvalidated
  <2>3. /\ near' \in {near, [near EXCEPT !["driver"] = Cache!Invalidated(near["driver"])]}
        /\ mine' \in {mine, [mine EXCEPT !["driver"] = Cache!Invalidated(mine["driver"])]}
    BY <1>1, OwnTabsCache DEF OwnTabs!Settle, OwnTabs!Refreshed
  <2> QED
    BY <2>1, <2>2, <2>3
<1>4. UNCHANGED <<deliveries, tab, online, mineFailed>>
  BY DEF OwnTabs!Settle
<1> QED
  BY <1>2, <1>3, <1>4 DEF TabsIInv

\* Every step keeps the types.
LEMMA StepTabs == DashboardIInv /\ TabsIInv /\ [OwnTabs!Next]_dashboardVars => TabsIInv'
<1> SUFFICES ASSUME DashboardIInv, TabsIInv, [OwnTabs!Next]_dashboardVars PROVE TabsIInv'
  OBVIOUS
<1>1. CASE OwnTabs!Next
  <2>1. CASE \/ \E t \in {"available", "active", "completed"} : OwnTabs!SetActiveTab("driver", t)
             \/ OwnTabs!ToggleOnline("driver") \/ OwnTabs!Poll("driver")
             \/ OwnTabs!GetNearbyDeliveries("driver") \/ OwnTabs!GetMyDeliveries("driver")
             \/ OwnTabs!ShowNear("driver") \/ OwnTabs!ShowMine("driver")
    BY <2>1, TabsPageStep
  <2>2. ASSUME NEW c \in Two,
               OwnTabs!ClickClaim(c, "driver", "delivery") \/ OwnTabs!ClickActive(c, "driver", "delivery")
        PROVE  TabsIInv'
    BY <2>2, TabsClickStep
  <2>3. ASSUME NEW c \in Two, OwnTabs!Answer(c) PROVE TabsIInv'
    BY <2>3, TabsAnswerStep
  <2>4. ASSUME NEW c \in Two, OwnTabs!AnswerLost(c) PROVE TabsIInv'
    BY <2>4 DEF OwnTabs!AnswerLost, TabsIInv
  <2>5. ASSUME NEW c \in Two, OwnTabs!Settle(c) PROVE TabsIInv'
    BY <2>5, TabsSettleStep
  <2>6. CASE OwnTabs!AddDelivery("delivery", "order")
    <3>1. deliveries' = [deliveries EXCEPT !["delivery"] = [state |-> "unclaimed", order |-> "order",
                                                            driver |-> NoDriver]]
          /\ UNCHANGED <<tab, online, near, mine, mineFailed, pending>>
      BY <2>6 DEF OwnTabs!AddDelivery, OwnTabs!Service!AddDelivery
    <3>2. deliveries'["delivery"].driver # "driver"
      BY <3>1, NothingAssumption DEF DashboardIInv, DashboardTyped
    <3> QED
      BY <3>1, <3>2 DEF TabsIInv
  <2> QED
    BY <1>1, <2>1, <2>2, <2>3, <2>4, <2>5, <2>6 DEF OwnTabs!Next
<1>2. CASE UNCHANGED dashboardVars
  BY <1>2 DEF dashboardVars, TabsIInv
<1> QED
  BY <1>1, <1>2

\* The types of the dashboard.
LEMMA TabsTyped == DashboardIInv /\ TabsIInv => OwnTabs!TypeOK
<1> SUFFICES ASSUME DashboardIInv, TabsIInv PROVE OwnTabs!TypeOK
  OBVIOUS
<1>1. deliveries \in [{"delivery"} -> OwnTabs!Service!Delivery]
  BY DEF DashboardIInv, DashboardTyped, DeliveryState, OwnTabs!Service!Delivery
<1>2. press \in [Two -> [op : OwnTabs!Op \cup {None}, d : {"delivery"} \cup {None}, w : {"driver"} \cup {None},
                         at : {"idle", "sent", "answered"}, ok : BOOLEAN]]
  BY DEF DashboardIInv, DashboardTyped, PressState
<1>3. seen \subseteq {"delivery"} \X {"driver"}
  BY DEF DashboardIInv, DashboardTyped
<1> QED
  BY <1>1, <1>2, <1>3, OwnTabsCache DEF OwnTabs!TypeOK, OwnTabs!Service!TypeOK, TabsIInv, ListedStates

-----------------------------------------------------------------------------
(* The types of all pages of MCCustomers.                                  *)

\* The inductive invariants of the parts whose types need more than the types.
CustomersIInv ==
  /\ ClientIInv
  /\ SignInIInv /\ AccountsIInv
  /\ PagesIInv /\ ErrorsIInv
  /\ CheckoutIInv /\ CartBounded
  /\ DashboardIInv /\ TabsIInv
  /\ ReviewTypesIInv

\* At the start.
LEMMA InitCustomers == Init => CustomersIInv
<1> SUFFICES ASSUME Init PROVE CustomersIInv
  OBVIOUS
<1>1. Checkout!Init /\ Accounts!Init /\ Client!Init /\ OwnTabs!Init /\ AllPages!Init
  BY TrackingAreOpen, ListsAreOpen DEF Init
<1>2. ClientIInv
  BY <1>1, NothingAssumption, InitClient DEF NoneIsNone
<1>3. PagesIInv /\ ErrorsIInv
  BY <1>1, NothingIsNoStatus, InitPages, InitErrors
<1>4. DashboardIInv /\ TabsIInv
  BY <1>1, NothingIsNoList, InitDashboard, InitTabs
<1> QED
  BY <1>1, <1>2, <1>3, <1>4, InitSignIn, InitAccounts, InitCheckout, InitBounded, InitReviewTypes
     DEF CustomersIInv

\* Each part keeps its own.
LEMMA StepCustomers == CustomersIInv /\ [Next]_vars => CustomersIInv'
<1> SUFFICES ASSUME CustomersIInv, [Next]_vars PROVE CustomersIInv'
  OBVIOUS
<1>1. [Client!Next]_clientVars
  BY DEF Next, vars
<1>2. [Accounts!Next]_accountsVars
  BY DEF Next, vars
<1>3. [AllPages!Next]_orderPagesVars
  BY TrackingAreOpen, ListsAreOpen DEF Next, vars
<1>4. [Checkout!Next]_checkoutVars
  BY DEF Next, vars
<1>5. [OwnTabs!Next]_dashboardVars
  BY DEF Next, vars
<1>6. ClientIInv'
  BY <1>1, NothingAssumption, StepClient DEF CustomersIInv, NoneIsNone
<1>7. SignInIInv' /\ AccountsIInv'
  BY <1>2, StepSignIn, StepAccounts DEF CustomersIInv
<1>8. PagesIInv' /\ ErrorsIInv'
  BY <1>3, NothingIsNoStatus, StepPages, StepErrors DEF CustomersIInv
<1>9. CheckoutIInv' /\ CartBounded'
  BY <1>4, StepCheckout, StepBounded DEF CustomersIInv
<1>10. DashboardIInv' /\ TabsIInv'
  BY <1>5, NothingIsNoList, StepDashboard, StepTabs DEF CustomersIInv
<1>11. ReviewTypesIInv'
  BY StepReviewTypes DEF CustomersIInv
<1> QED
  BY <1>6, <1>7, <1>8, <1>9, <1>10, <1>11 DEF CustomersIInv

\* Whatever page moves, its variables have their types: the cart, its orders and the calls of
\* the checkout with carts that keep the limit of their size, the pages of an order, reviews
\* and ratings, accounts and the sign-in pages, the session of the browser, the tabs of a
\* driver (web-ui; order-service, review-service, user-service and delivery-service behind it).
THEOREM CustomersTypeCorrect == Spec => []TypeOK
<1>1. CustomersIInv => TypeOK
  <2> SUFFICES ASSUME CustomersIInv PROVE TypeOK
    OBVIOUS
  <2>1. Checkout!TypeOK /\ Accounts!TypeOK /\ Client!TypeOK /\ OwnTabs!TypeOK
    BY CheckoutTyped, AccountsTyped, TabsTyped DEF CustomersIInv, ClientIInv
  <2>2. (moving = "tracking" => Tracking!TypeOK) /\ (moving = "lists" => Lists!TypeOK)
    BY OrderPagesTyped DEF CustomersIInv
  <2>3. (moving = "restaurant" => RestaurantPage!TypeOK) /\ (moving = "ratings" => Ratings!TypeOK)
    BY ReviewPagesTyped DEF CustomersIInv
  <2> QED
    BY <2>1, <2>2, <2>3 DEF TypeOK
<1> QED
  BY <1>1, InitCustomers, StepCustomers, PTL DEF Spec
=============================================================================
