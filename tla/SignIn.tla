------------------------------- MODULE SignIn -------------------------------
(***************************************************************************)
(* The ways into web-ui: the registration form, the login form and the     *)
(* Google button, whose popup reports back by a message (web-ui Register,  *)
(* Login, OauthButton, OauthCallback), with the handlers of user-service   *)
(* that answer them (handler_auth, app/user.go, app/oauth).  One tab and   *)
(* its popup.                                                              *)
(*                                                                         *)
(* The Google button starts an attempt: it asks for a URL that carries a   *)
(* fresh state, opens the popup, watches it with an interval and listens   *)
(* for its message.  Interval and listener belong to the attempt and       *)
(* survive it when the customer closes the popup or leaves the page.       *)
(***************************************************************************)
EXTENDS Naturals, FiniteSets

CONSTANTS Account,      \* ids of user documents
          seeded,       \* an account that exists from the start
          Email, Password, \* what may be typed
          seededEmail, seededPassword,
          Empty,        \* the empty string
          Attempt,      \* attempts to sign in with Google, and their states
          Call, None

VARIABLES users,        \* the "user" collection
          verifiers,    \* states the server waits for
          exchanged,    \* history: sessions created per state
          page,         \* "home", "login" or "register"
          attempts,     \* attempts started by the button that is mounted now
          loading,      \* the buttons that are disabled
          call,         \* calls under way
          popup,        \* the popup: the attempt it shows, and where it is
          watching, listening, \* attempts with an interval, with a listener
          message,      \* the popup's message and who has yet to handle it
          signedIn,     \* the account signed in
          registered,   \* history: what was registered, as the form reported
          refused,      \* history: of these, what the server then refused
          blocked       \* the customer was asked to allow popups

vars == <<users, verifiers, exchanged, page, attempts, loading, call, popup, watching, listening,
          message, signedIn, registered, refused, blocked>>
server == <<users, verifiers, exchanged>>
google == <<popup, watching, listening, message, blocked>>
reports == <<registered, refused>>
place == <<page, attempts>>

-----------------------------------------------------------------------------
NoAccount == [email |-> None, password |-> None]
Idle == [op |-> None, email |-> None, password |-> None, attempt |-> None,
         at |-> "idle", ok |-> FALSE, user |-> None, here |-> FALSE]
NoPopup == [attempt |-> None, at |-> "closed"]
NoMessage == [attempt |-> None, todo |-> {}]

Init ==
    /\ users = [a \in Account |-> IF a = seeded THEN [email |-> seededEmail,
                                                      password |-> seededPassword]
                                                ELSE NoAccount]
    /\ verifiers = {} /\ exchanged = [a \in Attempt |-> 0]
    /\ page = "login" /\ attempts = {} /\ loading = {} /\ call = [c \in Call |-> Idle]
    /\ popup = NoPopup /\ watching = {} /\ listening = {} /\ message = NoMessage
    /\ signedIn = None /\ registered = {} /\ refused = {} /\ blocked = FALSE

Send(c, op, e, p, a) ==
    /\ call[c] = Idle
    /\ call' = [call EXCEPT ![c] = [op |-> op, email |-> e, password |-> p, attempt |-> a,
                                    at |-> "sent", ok |-> FALSE, user |-> None, here |-> TRUE]]

Answered(c, ok, u) == call' = [call EXCEPT ![c].at = "answered", ![c].ok = ok, ![c].user = u]

\* A page is mounted with its buttons enabled.  Calls of the page before go on,
\* but can no longer change its buttons.
Mounted(p, calls) ==
    /\ page' = p /\ attempts' = {} /\ loading' = {}
    /\ call' = [c \in Call |-> [calls[c] EXCEPT !.here = FALSE]]

GoTo(p) ==
    /\ page # p
    /\ Mounted(p, call)
    /\ UNCHANGED <<server, google, signedIn, reports>>

\* setIsLoading(false), unless the component is gone.
Enabled(c, button) == loading' = IF call[c].here THEN loading \ {button} ELSE loading

-----------------------------------------------------------------------------
(* The registration form.  It is only sent when it satisfies formSchema and *)
(* a position was picked on the map; without one the handler throws before  *)
(* it calls the service, and the form stays as it is.                       *)

\* The two passwords agree and none of the fields is empty.
FormSchema(p, confirmPassword) == p # Empty /\ confirmPassword = p

SubmitRegister(c, e, p, confirmPassword) ==
    /\ page = "register" /\ "register" \notin loading
    /\ FormSchema(p, confirmPassword)
    /\ Send(c, "register", e, p, None)
    /\ loading' = loading \cup {"register"}
    /\ UNCHANGED <<server, place, google, signedIn, reports>>

\* ToUser does not copy the password of the request: what CreateUser hashes is
\* the empty string.
ToUser(c) == [email |-> call[c].email, password |-> Empty]

\* The rules of UserCreate, stricter than formSchema, may refuse the request.
AnswerRegister(c) ==
    /\ call[c].op = "register" /\ call[c].at = "sent"
    /\ \/ \E a \in Account : /\ users[a] = NoAccount
                             /\ users' = [users EXCEPT ![a] = ToUser(c)]
                             /\ Answered(c, TRUE, None)
       \/ users' = users /\ Answered(c, FALSE, None)
    /\ UNCHANGED <<verifiers, exchanged, place, loading, google, signedIn, reports>>

SettleRegister(c) ==
    /\ call[c].op = "register" /\ call[c].at = "answered"
    /\ IF call[c].ok
       THEN Mounted("login", [call EXCEPT ![c] = Idle])
       ELSE call' = [call EXCEPT ![c] = Idle] /\ Enabled(c, "register") /\ UNCHANGED place
    /\ registered' = registered
         \cup (IF call[c].ok THEN {<<call[c].email, call[c].password>>} ELSE {})
    /\ UNCHANGED <<server, google, signedIn, refused>>

-----------------------------------------------------------------------------
(* The login form.                                                          *)

SubmitLogin(c, e, p) ==
    /\ page = "login" /\ "login" \notin loading
    /\ Send(c, "login", e, p, None)
    /\ loading' = loading \cup {"login"}
    /\ UNCHANGED <<server, place, google, signedIn, reports>>

\* Any of the accounts with the email is found: nothing makes emails unique.
AnswerLogin(c) ==
    LET found == {a \in Account : users[a].email = call[c].email} IN
    /\ call[c].op = "login" /\ call[c].at = "sent"
    /\ \/ found = {} /\ Answered(c, FALSE, None)
       \/ \E a \in found : LET same == users[a].password = call[c].password
                           IN  Answered(c, same, IF same THEN a ELSE None)
    /\ refused' = IF call'[c].ok THEN refused
                  ELSE refused \cup ({<<call[c].email, call[c].password>>} \cap registered)
    /\ UNCHANGED <<server, place, loading, google, signedIn, registered>>

SignedIn(c) ==
    /\ signedIn' = call[c].user
    /\ Mounted("home", [call EXCEPT ![c] = Idle])

SettleLogin(c) ==
    /\ call[c].op = "login" /\ call[c].at = "answered"
    /\ IF call[c].ok
       THEN SignedIn(c)
       ELSE call' = [call EXCEPT ![c] = Idle] /\ Enabled(c, "login") /\ UNCHANGED <<place, signedIn>>
    /\ UNCHANGED <<server, google, reports>>

-----------------------------------------------------------------------------
(* The Google button.                                                       *)

ClickGoogle(c, a) ==
    /\ page = "login" /\ "google" \notin loading
    /\ exchanged[a] = 0 /\ a \notin verifiers \cup watching \cup listening \cup {popup.attempt}
    /\ \A d \in Call : call[d].attempt # a
    /\ Send(c, "start", None, None, a)
    /\ loading' = loading \cup {"google"} /\ attempts' = attempts \cup {a}
    /\ UNCHANGED <<server, page, google, signedIn, reports>>

StartOAuth(c) ==
    /\ call[c].op = "start" /\ call[c].at = "sent"
    /\ verifiers' = verifiers \cup {call[c].attempt}
    /\ Answered(c, TRUE, None)
    /\ UNCHANGED <<users, exchanged, place, loading, google, signedIn, reports>>

\* The popup opens (windows of the same name share it), or the browser blocks
\* it and the handler returns without enabling the button.
OpenPopup(c) ==
    LET a == call[c].attempt IN
    /\ call[c].op = "start" /\ call[c].at = "answered"
    /\ call' = [call EXCEPT ![c] = Idle]
    /\ \/ /\ popup' = [attempt |-> a, at |-> "google"]
          /\ watching' = watching \cup {a} /\ listening' = listening \cup {a}
          /\ UNCHANGED blocked
       \/ blocked' = TRUE /\ UNCHANGED <<popup, watching, listening>>
    /\ UNCHANGED <<server, place, loading, message, signedIn, reports>>

ClosePopup ==
    /\ popup.at # "closed"
    /\ popup' = NoPopup
    /\ UNCHANGED <<server, place, loading, call, watching, listening, message, signedIn, reports,
                   blocked>>

\* Google redirects the popup to OauthCallback, which reports the state and
\* closes it; an error of Google's is shown in the popup, and the message about
\* it has no listener.
OauthCallback ==
    /\ popup.at = "google" /\ message = NoMessage
    /\ \/ /\ message' = [attempt |-> popup.attempt, todo |-> listening]
          /\ popup' = NoPopup
       \/ popup' = [popup EXCEPT !.at = "error"] /\ UNCHANGED message
    /\ UNCHANGED <<server, place, loading, call, watching, listening, signedIn, reports, blocked>>

\* An interval notices that the popup is closed.
CheckPopup(a) ==
    /\ a \in watching /\ popup.at = "closed"
    /\ watching' = watching \ {a}
    /\ loading' = IF a \in attempts THEN loading \ {"google"} ELSE loading
    /\ UNCHANGED <<server, place, call, popup, listening, message, signedIn, reports, blocked>>

\* Every listener takes the message for its own.
HandleMessage(a, c) ==
    LET todo == message.todo \ {a} IN
    /\ a \in message.todo
    /\ message' = IF todo = {} THEN NoMessage ELSE [message EXCEPT !.todo = todo]
    /\ watching' = watching \ {a} /\ listening' = listening \ {a}
    /\ popup' = NoPopup
    /\ Send(c, "complete", None, None, message.attempt)
    /\ UNCHANGED <<server, place, loading, signedIn, reports, blocked>>

\* Mutant of AuthCallback: the state is looked up and left in place.
AuthCallbackKeeping(c) ==
    /\ call[c].op = "complete" /\ call[c].at = "sent"
    /\ IF call[c].attempt \in verifiers
       THEN /\ exchanged' = [exchanged EXCEPT ![call[c].attempt] = @ + 1]
            /\ Answered(c, TRUE, seeded)
       ELSE Answered(c, FALSE, None) /\ UNCHANGED exchanged
    /\ UNCHANGED <<users, verifiers, place, loading, google, signedIn, reports>>

\* The state is taken out before the code is exchanged; the account that is
\* linked to the Google identity may be missing.
AuthCallback(c) ==
    /\ call[c].op = "complete" /\ call[c].at = "sent"
    /\ verifiers' = verifiers \ {call[c].attempt}
    /\ \/ /\ call[c].attempt \in verifiers
          /\ exchanged' = [exchanged EXCEPT ![call[c].attempt] = @ + 1]
          /\ Answered(c, TRUE, seeded)
       \/ Answered(c, FALSE, None) /\ UNCHANGED exchanged
    /\ UNCHANGED <<users, place, loading, google, signedIn, reports>>

\* A failure is not caught: the button stays as it is.
OauthComplete(c) ==
    /\ call[c].op = "complete" /\ call[c].at = "answered"
    /\ IF call[c].ok
       THEN SignedIn(c)
       ELSE call' = [call EXCEPT ![c] = Idle] /\ UNCHANGED <<place, loading, signedIn>>
    /\ UNCHANGED <<server, google, reports>>

\* A request that is not answered, or whose answer is lost.
CallLost(c) ==
    /\ call[c].at = "sent"
    /\ Answered(c, FALSE, None)
    /\ call[c].op # "start"
    /\ UNCHANGED <<server, place, loading, google, signedIn, reports>>

StartLost(c) ==
    /\ call[c].op = "start" /\ call[c].at = "sent"
    /\ call' = [call EXCEPT ![c] = Idle]
    /\ Enabled(c, "google")
    /\ UNCHANGED <<server, place, google, signedIn, reports>>

-----------------------------------------------------------------------------
Next ==
    \/ \E p \in {"home", "login", "register"} : GoTo(p)
    \/ \E c \in Call :
         \/ \E e \in Email : \E p, q \in Password : SubmitRegister(c, e, p, q)
         \/ \E e \in Email : \E p \in Password : SubmitLogin(c, e, p)
         \/ AnswerRegister(c) \/ SettleRegister(c) \/ AnswerLogin(c) \/ SettleLogin(c)
         \/ \E a \in Attempt : ClickGoogle(c, a) \/ HandleMessage(a, c)
         \/ StartOAuth(c) \/ OpenPopup(c) \/ AuthCallback(c) \/ OauthComplete(c)
         \/ CallLost(c) \/ StartLost(c)
    \/ ClosePopup \/ OauthCallback
    \/ \E a \in Attempt : CheckPopup(a)

Spec == Init /\ [][Next]_vars

\* Every request is answered or given up by the browser, and its handler runs.
Fairness ==
    \A c \in Call :
        /\ WF_vars(AnswerRegister(c) \/ AnswerLogin(c) \/ StartOAuth(c) \/ AuthCallback(c)
                     \/ CallLost(c) \/ StartLost(c))
        /\ WF_vars(SettleRegister(c) \/ SettleLogin(c) \/ OpenPopup(c) \/ OauthComplete(c))

FairSpec == Spec /\ Fairness

-----------------------------------------------------------------------------
(* Properties.                                                             *)

TypeOK ==
    /\ users \in [Account -> [email : Email, password : Password \cup {Empty}] \cup {NoAccount}]
    /\ verifiers \subseteq Attempt /\ exchanged \in [Attempt -> 0..Cardinality(Attempt)]
    /\ page \in {"home", "login", "register"} /\ loading \subseteq {"login", "register", "google"}
    /\ \A c \in Call : call[c].at \in {"idle", "sent", "answered"}
    /\ popup.at \in {"closed", "google", "error"}
    /\ watching \subseteq Attempt /\ listening \subseteq Attempt /\ message.todo \subseteq Attempt
    /\ signedIn \in Account \cup {None} /\ attempts \subseteq Attempt
    /\ refused \subseteq registered /\ registered \subseteq Email \X Password

\* Listeners of attempts that were given up also answer the message of a later
\* attempt and complete it again; still it opens one session.
OneSessionPerAttempt == \A a \in Attempt : exchanged[a] <= 1

\* The login and registration buttons do not stay disabled, whatever becomes of
\* the request and whichever pages were visited in between.
FormsComeBack ==
    \A button \in {"login", "register"} : (button \in loading) ~> (button \notin loading)

\* "hash the user password" (user-service/app/user.go): who was told that the
\* registration succeeded is not refused with the same email and password.
RegisteredCanLogIn == refused = {}

\* "Popup blocked. Please allow popups for this site." (OauthButton.tsx): the
\* customer who does so can press the button again.
BlockedCanRetry ==
    (blocked /\ "google" \in loading) =>
        (popup.at # "closed" \/ watching # {} \/ message # NoMessage
           \/ \E c \in Call : call[c] # Idle)
=============================================================================
