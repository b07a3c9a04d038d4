----------------------------- MODULE OrderPages -----------------------------
(***************************************************************************)
(* The pages that show one order and the buttons on them: the customer's   *)
(* tracking page and order lists (web-ui Order, OrderList), the            *)
(* restaurant's table of orders and its detail view (admin-ui              *)
(* RestaurantOrders, OrderTable, Order).  Every page renders its own query *)
(* cache entry; only the tracking page polls, and only while it shows a    *)
(* status that it expects to change.  The order itself moves as            *)
(* OrderLifecycle.tla says, on behalf of these pages and of everybody      *)
(* else.                                                                   *)
(***************************************************************************)
EXTENDS Naturals, Sequences, QueryCache

CONSTANTS order, driver1, txn1,   \* the order, a driver, a transaction
          NoDriver, NoTxn,
          Open,                   \* the pages that are open, see Page
          Call,                   \* clicks under way at a time
          None

VARIABLES orderStatus, driver, txn, \* the order, as functions on {order}
          entry,                  \* per page: its cache entry
          error,                  \* open pages whose latest fetch failed
          listTab,                \* the tab of the order lists that is shown
          click,                  \* the calls under way
          told                    \* history: the decisions reported as done

vars == <<orderStatus, driver, txn, entry, error, listTab, click, told>>
service == <<orderStatus, driver, txn>>
browser == <<entry, error, listTab>>

Service == INSTANCE OrderLifecycle
             WITH Order <- {order}, Driver <- {driver1}, Txn <- {txn1}, status <- orderStatus

-----------------------------------------------------------------------------
Status == {"payment_pending", "payment_failed", "canceled",
           "pending_restaurant_accept", "restaurant_rejected",
           "preparing_order", "awaiting_pickup", "delivering", "delivered"}

Page == {"tracking", "active", "past", "desk", "detail"}

Op == {"cancel", "accept", "reject", "finish"}

Now == orderStatus[order]
Shown(p) == entry[p].data

\* Mutant of ShouldRefresh: the last status before delivery is forgotten.
ShouldRefreshUntilDelivery(s) == s \in {"awaiting_pickup", "pending_restaurant_accept",
                                        "preparing_order", "payment_pending"}

\* The statuses the tracking page polls.
ShouldRefresh(s) == s \in {"awaiting_pickup", "delivering", "pending_restaurant_accept",
                           "preparing_order", "payment_pending"}

CanCancelOrder(s) == s \in {"payment_pending", "payment_failed", "pending_restaurant_accept"}

\* The orders of the "active" list; the other list has the rest.
IsActiveOrder(s) == s \in {"awaiting_pickup", "delivering", "payment_pending",
                           "pending_restaurant_accept", "preparing_order"}

\* The list p shows the order.
Listed(p) == Shown(p) # NoData /\ IsActiveOrder(Shown(p)) = (p = "active")

\* The statuses in which the table of the restaurant has a button for op.
DeskEnabled(op) == IF op \in {"accept", "reject"} THEN {"pending_restaurant_accept"}
                   ELSE IF op = "finish" THEN {"preparing_order"} ELSE {}

Idle == [op |-> None, at |-> "idle", ok |-> FALSE]

Init ==
    /\ orderStatus = [o \in {order} |-> "payment_pending"]
    /\ driver = [o \in {order} |-> NoDriver] /\ txn = [o \in {order} |-> NoTxn]
    /\ entry = [p \in Page |-> Fresh] /\ error = {} /\ listTab = "active"
    /\ click = [c \in Call |-> Idle] /\ told = {}

-----------------------------------------------------------------------------
(* Fetching and rendering.                                                 *)

\* A page is opened, or its window gets the focus.  Of the two lists the one
\* of the selected tab is mounted.
Fetch(p) ==
    /\ p \in {"active", "past"} => listTab = p
    /\ entry[p].fetch = "idle"
    /\ entry' = [entry EXCEPT ![p] = Fetching(@)]
    /\ UNCHANGED <<service, error, listTab, click, told>>

SelectTab(p) ==
    /\ p \in {"active", "past"} /\ listTab # p
    /\ listTab' = p
    /\ entry' = [entry EXCEPT ![p] = Fetching(@)]
    /\ UNCHANGED <<service, error, click, told>>

\* The refetch interval of the tracking page runs out.
Poll ==
    /\ "tracking" \in Open
    /\ Shown("tracking") # NoData /\ ShouldRefresh(Shown("tracking"))
    /\ entry["tracking"].fetch = "idle"
    /\ entry' = [entry EXCEPT !["tracking"] = Fetching(@)]
    /\ UNCHANGED <<service, error, listTab, click, told>>

GetOrder(p) ==
    /\ entry[p].fetch = "sent"
    /\ entry' = [entry EXCEPT ![p] = Served(@, Now)]
    /\ UNCHANGED <<service, error, listTab, click, told>>

Show(p) ==
    /\ entry[p].fetch = "answered"
    /\ entry' = [entry EXCEPT ![p] = Filled(@)]
    /\ error' = error \ {p}
    /\ UNCHANGED <<service, listTab, click, told>>

\* Every retry of the request failed.
FetchFails(p) ==
    /\ entry[p].fetch = "sent"
    /\ entry' = [entry EXCEPT ![p] = Failed(@)]
    /\ error' = error \cup {p}
    /\ UNCHANGED <<service, listTab, click, told>>

-----------------------------------------------------------------------------
(* Buttons.  None is disabled while its call is under way.                 *)

Send(c, op) ==
    /\ click[c] = Idle
    /\ click' = [click EXCEPT ![c] = [op |-> op, at |-> "sent", ok |-> FALSE]]
    /\ UNCHANGED <<service, entry, error, listTab, told>>

\* Mutant of ClickCancel: the page shows the outcome before it is known.
ClickCancelOptimistic(c) ==
    /\ "tracking" \in Open
    /\ Shown("tracking") # NoData /\ CanCancelOrder(Shown("tracking"))
    /\ click[c] = Idle
    /\ click' = [click EXCEPT ![c] = [op |-> "cancel", at |-> "sent", ok |-> FALSE]]
    /\ entry' = [entry EXCEPT !["tracking"] = Written(@, "canceled")]
    /\ UNCHANGED <<service, error, listTab, told>>

ClickCancel(c) ==
    /\ "tracking" \in Open
    /\ Shown("tracking") # NoData /\ CanCancelOrder(Shown("tracking"))
    /\ Send(c, "cancel")

ClickDesk(c, op) ==
    /\ "desk" \in Open
    /\ Shown("desk") \in DeskEnabled(op)
    /\ Send(c, op)

\* The statuses in which the service carries out op.
Accepts(op) == CASE op = "cancel" -> {"payment_pending", "payment_failed",
                                      "pending_restaurant_accept"}
                 [] op \in {"accept", "reject"} -> {"pending_restaurant_accept"}
                 [] op = "finish" -> {"payment_pending", "preparing_order"}

Effect(op) == CASE op = "cancel" -> Service!Cancel(order)
                [] op = "accept" -> Service!Decide(order) /\ orderStatus'[order] = "preparing_order"
                [] op = "reject" -> Service!Decide(order) /\ orderStatus'[order] = "restaurant_rejected"
                [] op = "finish" -> Service!MakeReady(order)

\* A call is answered.  Where it does not apply it is refused, but for
\* "finish": SetOrderPickupReady does not notice that it changed nothing.
Answer(c) ==
    LET op == click[c].op
        applies == Now \in Accepts(op)
    IN  /\ click[c].at = "sent"
        /\ click' = [click EXCEPT ![c].at = "answered", ![c].ok = applies \/ op = "finish"]
        /\ IF applies THEN Effect(op) ELSE UNCHANGED service
        /\ UNCHANGED <<browser, told>>

\* The call does not reach the service, or fails before it has done anything.
CallFails(c) ==
    /\ click[c].at = "sent"
    /\ click' = [click EXCEPT ![c].at = "answered", ![c].ok = FALSE]
    /\ UNCHANGED <<service, browser, told>>

\* The answer is lost: the page takes the call for a failure.
AnswerLost(c) ==
    /\ click[c].at = "answered" /\ click[c].ok
    /\ click' = [click EXCEPT ![c].ok = FALSE]
    /\ UNCHANGED <<service, browser, told>>

\* What an operation reported as done has done; "finish" reports nothing.
Outcome == [cancel |-> "canceled", accept |-> "preparing_order",
            reject |-> "restaurant_rejected"]

\* Mutant of Invalidates: the desk refreshes the order it does not show.
InvalidatesOrder(op) == IF op = "cancel" THEN {"tracking"} ELSE {"detail"}

\* What onSuccess invalidates: ["order", id], or everything under ["orders"]
\* in the browser of the restaurant.
Invalidates(op) == IF op = "cancel" THEN {"tracking"} ELSE {"desk"}

\* onSuccess or onError.  An error only shows a message, at the desk not even
\* that.
Settle(c) ==
    LET op == click[c].op IN
    /\ click[c].at = "answered"
    /\ click' = [click EXCEPT ![c] = Idle]
    /\ IF click[c].ok
       THEN /\ told' = told \cup ({op} \cap DOMAIN Outcome)
            /\ entry' = [p \in Page |-> IF p \in Invalidates(op) THEN Invalidated(entry[p])
                                                                ELSE entry[p]]
       ELSE UNCHANGED <<entry, told>>
    /\ UNCHANGED <<service, error, listTab>>

\* Payment, drivers, and the same buttons in other browsers.
Elsewhere ==
    /\ \/ Service!ReportPayment(order, txn1)
       \/ Service!Decide(order)
       \/ Service!Cancel(order)
       \/ Service!MakeReady(order)
       \/ Service!Assign(order, driver1)
       \/ Service!Deliver(order)
    /\ UNCHANGED <<browser, click, told>>

Next ==
    \/ \E p \in Open : Fetch(p) \/ SelectTab(p) \/ GetOrder(p) \/ Show(p) \/ FetchFails(p)
    \/ Poll
    \/ \E c \in Call :
         \/ ClickCancel(c) \/ \E op \in Op : ClickDesk(c, op)
         \/ Answer(c) \/ CallFails(c) \/ AnswerLost(c) \/ Settle(c)
    \/ Elsewhere

Spec == Init /\ [][Next]_vars

\* The interval is a timer of the page; the network is not down for good.
Fairness ==
    /\ WF_vars(Poll)
    /\ \A p \in Open : SF_vars(GetOrder(p)) /\ WF_vars(Show(p))

FairSpec == Spec /\ Fairness

-----------------------------------------------------------------------------
(* Properties.                                                             *)

TypeOK ==
    /\ Now \in Status
    /\ entry \in [Page -> Entries(Status)] /\ error \subseteq Open /\ listTab \in {"active", "past"}
    /\ click \in [Call -> [op : Op \cup {None}, at : {"idle", "sent", "answered"}, ok : BOOLEAN]]
    /\ \A c \in Call : click[c].at = "idle" => click[c] = Idle
    /\ told \subseteq DOMAIN Outcome

Kitchen == <<"preparing_order", "awaiting_pickup", "delivering", "delivered">>

\* An order that was in s may be in t now or later.
After(s, t) ==
    \/ s = t
    \/ s = "payment_pending"
    \/ s = "payment_failed" /\ t = "canceled"
    \/ s = "pending_restaurant_accept" /\ t \notin {"payment_pending", "payment_failed"}
    \/ \E i \in DOMAIN Kitchen : \E j \in i..Len(Kitchen) : s = Kitchen[i] /\ t = Kitchen[j]

\* What a page reported as done stays true, whoever else pressed a button at
\* the same moment: a customer who was told that the order is canceled has not
\* ordered a meal that the restaurant was told to cook.
ToldHolds == \A op \in told : After(Outcome[op], Now)

\* After its own decision was reported, a page that has loaded shows the order
\* as it is after the decision, however its fetches and the call overlapped.
OwnDecisionShown ==
    \A op \in told : \A p \in Open :
        (p = (IF op = "cancel" THEN "tracking" ELSE "desk")
           /\ entry[p].fetch = "idle" /\ p \notin error)
        => After(Outcome[op], Shown(p))

\* No page ever shows an order earlier than it has shown it before.
ShownNeverGoesBack ==
    [][\A p \in Page : Shown(p) # NoData => After(Shown(p), Shown(p)')]_entry

\* An order that was seen among the past orders does not leave them again.
PastForGood == [][("past" \in Open /\ Listed("past")) => Listed("past")']_entry

\* A tracking page that shows an order in progress gets to know how it ended.
\* The exception is a failed payment: the page does not poll then, and an order
\* canceled from another page stays "payment_failed" here.
TrackingCatchesUp ==
    "tracking" \in Open =>
        \A s \in {"canceled", "restaurant_rejected", "delivered"} :
            (Now = s /\ Shown("tracking") \in Status \ {"payment_failed"})
              ~> (Shown("tracking") \in {s, "payment_failed"})
=============================================================================
