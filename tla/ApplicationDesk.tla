--------------------------- MODULE ApplicationDesk ---------------------------
(***************************************************************************)
(* The pages where administrators decide on applications of drivers        *)
(* (admin-ui): the tables of pending and approved applications with their  *)
(* dialogs and the page a row leads to, in one browser, and the page       *)
(* ViewDriverApplication, which no link leads to, in another one.  The     *)
(* decisions are taken by user-service, as ApplicationLifecycle.tla says,  *)
(* by these pages and by other administrators.                             *)
(***************************************************************************)
EXTENDS QueryCache, FiniteSets

CONSTANTS User, Application,
          viewed,        \* the application of the two pages that show one
          Open,          \* the pages that are used, see Entry
          Typed,         \* the reasons that are typed, see Reason
          Call,          \* clicks under way at a time
          NoUser, NoApplication, None

VARIABLES
  deleted, profile, status, applicant,  \* user-service, see ApplicationLifecycle
  remark,      \* the reason stored with a rejected application
  page,        \* what the browser with the tables shows
  cache,       \* query cache entries
  error,       \* entries whose latest fetch failed
  toApprove, toDeny, denyReason,        \* the dialogs of the pending table
  call,        \* the calls under way
  told,        \* history: decisions an administrator was told to have taken
  tried        \* history: entries asked for with "Try Again", not answered yet

vars == <<deleted, profile, status, applicant, remark, page, cache, error, toApprove,
          toDeny, denyReason, call, told, tried>>
service == <<deleted, profile, status, applicant, remark>>
dialogs == <<toApprove, toDeny, denyReason>>

Service == INSTANCE ApplicationLifecycle

Table == {"pending", "approved"}
Page == Table \cup {"details"}
Entry == Page \cup {"view"}

Status == {"absent", "pending", "accepted", "rejected", "withdrawn"}

\* What a reason comes to: less than 10 characters, less only when trimmed, more.
Reason == {"", "short", "padded", "long"}

Idle == [at |-> "idle", from |-> None, op |-> None, app |-> NoApplication,
         reason |-> "", ok |-> FALSE, found |-> "absent"]

Init ==
  /\ Service!Init
  /\ remark = [a \in Application |-> ""]
  /\ page \in Page \cap Open /\ cache = [e \in Entry |-> Fresh] /\ error = {}
  /\ toApprove = NoApplication /\ toDeny = NoApplication /\ denyReason = ""
  /\ call = [c \in Call |-> Idle]
  /\ told = {} /\ tried = {}

-----------------------------------------------------------------------------
(* Fetching and rendering.                                                 *)

Mounted(e) == e \in {page, "view"}

\* A page is opened or its window gets the focus.
Fetch(e) ==
  /\ Mounted(e) /\ cache[e].fetch = "idle"
  /\ cache' = [cache EXCEPT ![e] = Fetching(@)]
  /\ UNCHANGED <<service, page, error, dialogs, call, told, tried>>

\* A tab or the eye of a row is clicked, or the user goes back.  The table
\* that is left loses its dialogs, a call it has sent goes on without it.
Navigate(p) ==
  /\ p # page
  /\ p = "details" => page \in Table /\ cache[page].data # NoData /\ viewed \in cache[page].data
  /\ page' = p
  /\ cache' = [cache EXCEPT ![p] = Fetching(@)]
  /\ toApprove' = NoApplication /\ toDeny' = NoApplication /\ denyReason' = ""
  /\ call' = [c \in Call |-> IF call[c].from = "pending" THEN [call[c] EXCEPT !.from = "left"]
                             ELSE call[c]]
  /\ UNCHANGED <<service, error, told, tried>>

InStatus(s) == {a \in Application : status[a] = s}

\* The service answers a query.
Get(e) ==
  /\ cache[e].fetch = "sent"
  /\ cache' = [cache EXCEPT ![e] =
       Served(@, CASE e = "pending" -> InStatus("pending")
                   [] e = "approved" -> InStatus("accepted")
                   [] OTHER -> status[viewed])]
  /\ UNCHANGED <<service, page, error, dialogs, call, told, tried>>

Show(e) ==
  /\ cache[e].fetch = "answered"
  /\ cache' = [cache EXCEPT ![e] = Filled(@)]
  /\ error' = error \ {e} /\ tried' = tried \ {e}
  /\ UNCHANGED <<service, page, dialogs, call, told>>

FetchFails(e) ==
  /\ cache[e].fetch = "sent"
  /\ cache' = [cache EXCEPT ![e] = Failed(@)]
  /\ error' = error \cup {e} /\ tried' = tried \ {e}
  /\ UNCHANGED <<service, page, dialogs, call, told>>

\* The button of a table that could not be loaded.  Both tables refetch
\* ["driverApplications"].
TryAgain ==
  /\ page \in Table \cap error /\ cache[page].fetch = "idle"
  /\ cache' = [cache EXCEPT !["pending"] = Fetching(@)]
  /\ tried' = tried \cup {page}
  /\ UNCHANGED <<service, page, error, dialogs, call, told>>

-----------------------------------------------------------------------------
(* The table of pending applications and its two dialogs.                  *)

Rows == IF page = "pending" /\ cache["pending"].data # NoData /\ "pending" \notin error
        THEN cache["pending"].data ELSE {}

\* One dialog at a time: it covers the buttons of the table.
HandleApproveClick(a) ==
  /\ a \in Rows /\ toApprove = NoApplication /\ toDeny = NoApplication
  /\ toApprove' = a
  /\ UNCHANGED <<service, page, cache, error, toDeny, denyReason, call, told, tried>>

\* The reason is still that of the dialog that was canceled before.
HandleDenyClick(a) ==
  /\ a \in Rows /\ toApprove = NoApplication /\ toDeny = NoApplication
  /\ toDeny' = a
  /\ UNCHANGED <<service, page, cache, error, toApprove, denyReason, call, told, tried>>

TypeReason(r) ==
  /\ toDeny # NoApplication /\ denyReason # r
  /\ denyReason' = r
  /\ UNCHANGED <<service, page, cache, error, toApprove, toDeny, call, told, tried>>

Cancel ==
  /\ toApprove # NoApplication \/ toDeny # NoApplication
  /\ toApprove' = NoApplication /\ toDeny' = NoApplication
  /\ UNCHANGED <<service, page, cache, error, denyReason, call, told, tried>>

\* The mutation of this page with the operation op is under way.
Pending(op) == \E c \in Call : call[c].from = "pending" /\ call[c].op = op

Send(c, from, op, a, reason) ==
  /\ call[c] = Idle
  /\ call' = [call EXCEPT ![c] = [Idle EXCEPT !.at = "sent", !.from = from, !.op = op,
                                              !.app = a, !.reason = reason]]
  /\ UNCHANGED <<service, page, cache, error, dialogs, told, tried>>

ConfirmApprove(c) ==
  /\ toApprove # NoApplication /\ ~Pending("approve")
  /\ Send(c, "pending", "approve", toApprove, "")

\* A reason that is too short is told to be, and sent all the same.
ConfirmDeny(c) ==
  /\ toDeny # NoApplication /\ ~Pending("deny") /\ denyReason # ""
  /\ Send(c, "pending", "deny", toDeny, denyReason)

\* The page of one application: its buttons are enabled unless it shows who
\* handled it, while a call is under way too.  "Rejected" is a short reason.
ClickView(c, op) ==
  /\ "view" \in Open /\ cache["view"].data \notin {"accepted", "rejected"}
  /\ Send(c, "view", op, viewed, IF op = "deny" THEN "short" ELSE "")

-----------------------------------------------------------------------------
(* Calls are answered and settle.                                          *)

\* The handler's validation: min=10, if there is a reason.
ValidReason(r) == r # "short"

Applies(k) == IF k.op = "approve" THEN Service!CanAccept(k.app)
              ELSE status[k.app] = "pending" /\ ValidReason(k.reason)

Decide(k) ==
  /\ status' = [status EXCEPT ![k.app] = IF k.op = "approve" THEN "accepted" ELSE "rejected"]
  /\ profile' = IF k.op = "approve" THEN [profile EXCEPT ![applicant[k.app]] = k.app] ELSE profile
  /\ remark' = [remark EXCEPT ![k.app] = k.reason]
  /\ UNCHANGED <<deleted, applicant>>

Answer(c) ==
  LET k == call[c] IN
  /\ k.at = "sent"
  /\ call' = [call EXCEPT ![c].at = "answered", ![c].ok = Applies(k), ![c].found = status[k.app]]
  /\ IF Applies(k) THEN Decide(k) ELSE UNCHANGED service
  /\ UNCHANGED <<page, cache, error, dialogs, told, tried>>

\* The call never arrives, or its answer does not: a failure to the page.
CallFails(c) ==
  /\ call[c].at \in {"sent", "answered"}
  /\ call' = [call EXCEPT ![c].at = "lost", ![c].ok = FALSE]
  /\ UNCHANGED <<service, page, cache, error, dialogs, told, tried>>

\* Mutant of Refreshed: the table refreshes the page of one application.
RefreshedView(k) == {"view"}

\* The entries onSuccess invalidates: those under ["driverApplications"] or
\* ["application"] of the browser.
Refreshed(k) == IF k.from = "view" THEN {"view"} ELSE {"pending"}

\* onSuccess or onError.  A dialog of the table is closed, whichever
\* application it is open for by now.  An entry nothing shows is fetched when
\* its page is opened again.
Settle(c) ==
  LET k == call[c] IN
  /\ k.at \in {"answered", "lost"}
  /\ call' = [call EXCEPT ![c] = Idle]
  /\ IF k.ok
     THEN /\ told' = told \cup {<<k.op, k.app, k.from>>}
          /\ cache' = [e \in Entry |-> IF e \in Refreshed(k) \cap Open /\ Mounted(e) THEN Invalidated(cache[e])
                                       ELSE cache[e]]
     ELSE UNCHANGED <<told, cache>>
  /\ IF k.from = "pending"
     THEN IF k.op = "approve"
          THEN toApprove' = NoApplication /\ UNCHANGED <<toDeny, denyReason>>
          ELSE toDeny' = NoApplication /\ denyReason' = "" /\ UNCHANGED toApprove
     ELSE UNCHANGED dialogs
  /\ UNCHANGED <<service, page, error, tried>>

\* Applicants and other administrators.
Elsewhere ==
  /\ \/ \E u \in User : Service!Delete(u) \/ \E a \in Application : Service!Create(u, a)
     \/ \E a \in Application : Service!Withdraw(a) \/ Service!Accept(a)
  /\ UNCHANGED <<remark, page, cache, error, dialogs, call, told, tried>>

\* Another administrator's denial, with a reason the service has accepted.
DenyElsewhere(a) ==
  /\ Service!Deny(a)
  /\ remark' = [remark EXCEPT ![a] = "long"]
  /\ UNCHANGED <<page, cache, error, dialogs, call, told, tried>>

Next ==
  \/ \E e \in Open : Fetch(e) \/ Get(e) \/ Show(e) \/ FetchFails(e)
  \/ \E p \in Page \cap Open : Navigate(p)
  \/ TryAgain \/ Cancel
  \/ \E a \in Application : HandleApproveClick(a) \/ HandleDenyClick(a) \/ DenyElsewhere(a)
  \/ \E r \in Typed : TypeReason(r)
  \/ \E c \in Call :
       \/ ConfirmApprove(c) \/ ConfirmDeny(c) \/ \E op \in {"approve", "deny"} : ClickView(c, op)
       \/ Answer(c) \/ CallFails(c) \/ Settle(c)
  \/ Elsewhere

Spec == Init /\ [][Next]_vars

-----------------------------------------------------------------------------
(* Properties.                                                             *)

TypeOK ==
  /\ status \in [Application -> Status] /\ remark \in [Application -> Reason]
  /\ profile \in [User -> Application \cup {NoApplication}]
  /\ page \in Page /\ error \subseteq Entry /\ tried \subseteq Table
  /\ \A e \in Entry : cache[e] \in Entries(IF e \in Table THEN SUBSET Application ELSE Status)
  /\ {toApprove, toDeny} \subseteq Application \cup {NoApplication} /\ denyReason \in Reason
  /\ \A c \in Call : /\ call[c].at \in {"idle", "sent", "answered", "lost"}
                     /\ call[c].at = "idle" <=> call[c] = Idle
                     /\ call[c].found \in Status

Outcome == [approve |-> "accepted", deny |-> "rejected"]

\* A decision an administrator was told to have taken is the one that stands,
\* although another one, or the applicant, acted on the same row at that time;
\* and the applicant told to be approved is a driver.
ToldDecisionHolds ==
  \A t \in told : /\ status[t[2]] = Outcome[t[1]]
                  /\ t[1] = "approve" => profile[applicant[t[2]]] = t[2]

\* Once the table has told of a decision and has loaded again, it does not offer
\* the application for another one, however its queries and calls overlapped.
DecidedLeavesTable ==
  \A t \in told :
    t[3] = "pending" /\ cache["pending"].fetch = "idle" /\ "pending" \notin error
      => t[2] \notin Rows

\* A page that has shown an application as decided does not show it as open
\* again.
DecidedStaysDecided ==
  [][\A e \in Entry \ Table :
       cache[e].data \in {"accepted", "rejected", "withdrawn"} => cache'[e].data = cache[e].data]_vars

\* "denies the driver registration application by id": the button "Reject" of
\* the page of an application that is still pending does.
RejectDenies ==
  \A c \in Call :
    call[c].at = "answered" /\ call[c].from = "view" /\ call[c].op = "deny"
      /\ call[c].found = "pending" => call[c].ok

\* "Rejection reason must be at least 10 characters!"
ReasonsAreLong == \A a \in Application : remark[a] # "padded"

\* "Try Again" asks for the table that could not be loaded.
TryAgainFetches == \A e \in tried : cache[e].fetch # "idle"
=============================================================================
