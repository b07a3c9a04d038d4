--------------------------- MODULE DriverDashboard ---------------------------
(***************************************************************************)
(* The dashboard of the drivers (web-ui Driver, NearbyDeliveries,          *)
(* ActiveDeliveries, PastDeliveries), one browser each, and what its       *)
(* buttons make of the deliveries of Deliveries.tla.                       *)
(*                                                                         *)
(* A browser keeps two entries: the deliveries nobody has claimed, polled  *)
(* while that tab is shown to a driver who is online, and the driver's own *)
(* ones, which two tabs share.  A tab that is not shown is unmounted: its  *)
(* entry stays but is not refreshed, a fetch under way goes on, and its    *)
(* buttons forget the call they were waiting for.                          *)
(***************************************************************************)
EXTENDS Naturals, QueryCache

CONSTANTS Driver, DeliveryId, Order, NoOrder, NoDriver, Call, None,
          Tabs      \* the tabs the drivers use, "available" among them, see Tab

VARIABLES deliveries,   \* the collection of delivery-service
          tab, online,  \* per driver: the tab shown, the toggle
          near, mine,   \* per driver: the two entries
          mineFailed,   \* drivers whose latest fetch of mine failed
          press,        \* calls under way, see Idle
          pending,      \* per driver and operation: the call its button waits for
          seen          \* history: pickups reported while w's list was mounted

vars == <<deliveries, tab, online, near, mine, mineFailed, press, pending, seen>>

Service == INSTANCE Deliveries

-----------------------------------------------------------------------------
Tab == {"available", "active", "completed"}

Op == {"claim", "pickup", "complete"}
Idle == [op |-> None, d |-> None, w |-> None, at |-> "idle", ok |-> FALSE]
NoCalls == [op \in Op |-> None]

Init ==
    /\ Service!Init
    /\ tab = [w \in Driver |-> "available"] /\ online = [w \in Driver |-> TRUE]
    /\ near = [w \in Driver |-> Fetching(Fresh)] /\ mine = [w \in Driver |-> Fresh]
    /\ press = [c \in Call |-> Idle] /\ pending = [w \in Driver |-> NoCalls] /\ mineFailed = {}
    /\ seen = {}

NearMounted(w) == tab[w] = "available" /\ online[w]
MineMounted(w) == tab[w] \in {"active", "completed"}

\* getNearbyDeliveries, and getMyDeliveries: the state of each of w's, else "none".
Nearby == {d \in DeliveryId : deliveries[d].state = "unclaimed"}
Own(w) == [d \in DeliveryId |-> IF deliveries[d].driver = w THEN deliveries[d].state ELSE "none"]

\* What the cards of the tabs are made of.
Available(w) == IF near[w].data = NoData THEN {} ELSE near[w].data
InState(w, states) == IF mine[w].data = NoData THEN {}
                      ELSE {d \in DeliveryId : mine[w].data[d] \in states}
Active(w) == InState(w, {"waiting", "delivering"})
Completed(w) == InState(w, {"done"})

-----------------------------------------------------------------------------
(* Tabs and fetches.                                                       *)

\* The tab of the available orders is disabled for a driver who is offline.
SetActiveTab(w, t) ==
    /\ t # tab[w] /\ (t = "available" => online[w])
    /\ tab' = [tab EXCEPT ![w] = t]
    /\ pending' = [pending EXCEPT ![w] = NoCalls]
    /\ near' = IF t = "available" THEN [near EXCEPT ![w] = Fetching(@)] ELSE near
    /\ mine' = IF t # "available" THEN [mine EXCEPT ![w] = Fetching(@)] ELSE mine
    /\ UNCHANGED <<deliveries, online, mineFailed, press, seen>>

\* The toggle only concerns the page; the shown tab stays.
ToggleOnline(w) ==
    /\ online' = [online EXCEPT ![w] = ~@]
    /\ IF tab[w] = "available"
       THEN /\ pending' = [pending EXCEPT ![w] = NoCalls]
            /\ near' = IF online[w] THEN near ELSE [near EXCEPT ![w] = Fetching(@)]
       ELSE UNCHANGED <<pending, near>>
    /\ UNCHANGED <<deliveries, tab, mine, mineFailed, press, seen>>

\* Every two seconds.
Poll(w) ==
    /\ NearMounted(w) /\ near[w].data # NoData /\ near[w].fetch = "idle"
    /\ near' = [near EXCEPT ![w] = Fetching(@)]
    /\ UNCHANGED <<deliveries, tab, online, mine, mineFailed, press, pending, seen>>

GetNearbyDeliveries(w) ==
    /\ near[w].fetch = "sent"
    /\ near' = [near EXCEPT ![w] = Served(@, Nearby)]
    /\ UNCHANGED <<deliveries, tab, online, mine, mineFailed, press, pending, seen>>

GetMyDeliveries(w) ==
    /\ mine[w].fetch = "sent"
    /\ mine' = [mine EXCEPT ![w] = Served(@, Own(w))]
    /\ UNCHANGED <<deliveries, tab, online, near, mineFailed, press, pending, seen>>

\* An answer, or a failure, which leaves what is shown.  (When there is nothing
\* to show yet an error boundary replaces the tab; only successes load it here.)
ShowNear(w) ==
    /\ \/ near[w].fetch = "answered" /\ near' = [near EXCEPT ![w] = Filled(@)]
       \/ near[w].fetch = "sent" /\ near[w].data # NoData /\ near' = [near EXCEPT ![w] = Failed(@)]
    /\ UNCHANGED <<deliveries, tab, online, mine, mineFailed, press, pending, seen>>

ShowMine(w) ==
    /\ \/ /\ mine[w].fetch = "answered"
          /\ mine' = [mine EXCEPT ![w] = Filled(@)]
          /\ mineFailed' = mineFailed \ {w}
       \/ /\ mine[w].fetch = "sent" /\ mine[w].data # NoData
          /\ mine' = [mine EXCEPT ![w] = Failed(@)]
          /\ mineFailed' = mineFailed \cup {w}
    /\ UNCHANGED <<deliveries, tab, online, near, press, pending, seen>>

-----------------------------------------------------------------------------
(* Buttons.                                                                *)

\* isPending and variables are those of the latest call the button made.
Waits(w, op, d) == pending[w][op] # None /\ press[pending[w][op]].d = d

Click(c, w, op, d) ==
    /\ press[c] = Idle
    /\ press' = [press EXCEPT ![c] = [op |-> op, d |-> d, w |-> w, at |-> "sent", ok |-> FALSE]]
    /\ pending' = [pending EXCEPT ![w][op] = c]
    /\ UNCHANGED <<deliveries, tab, online, near, mine, mineFailed, seen>>

ClickClaim(c, w, d) ==
    /\ NearMounted(w) /\ d \in Available(w)
    /\ ~Waits(w, "claim", d)
    /\ Click(c, w, "claim", d)

\* The card of an active delivery has one button.
ClickActive(c, w, d) ==
    /\ tab[w] = "active" /\ d \in Active(w)
    /\ ~Waits(w, "pickup", d) /\ ~Waits(w, "complete", d)
    /\ Click(c, w, IF mine[w].data[d] = "waiting" THEN "pickup" ELSE "complete", d)

Accepts(op, d, w) == IF op = "claim" THEN deliveries[d].state = "unclaimed"
                                     ELSE deliveries[d].driver = w

\* The endpoints of delivery-service; an update without a match is an error.
Answer(c) ==
    LET d == press[c].d
        w == press[c].w
    IN  /\ press[c].at = "sent"
        /\ \/ /\ press[c].op = "claim" /\ Service!ClaimDelivery(d, w)
           \/ /\ press[c].op = "pickup" /\ Service!DeliveryPickup(d, w)
           \/ /\ press[c].op = "complete" /\ Service!DeliveryComplete(d, w)
           \/ /\ ~Accepts(press[c].op, d, w) /\ UNCHANGED deliveries
        /\ press' = [press EXCEPT ![c].at = "answered", ![c].ok = Accepts(press[c].op, d, w)]
        /\ UNCHANGED <<tab, online, near, mine, mineFailed, pending, seen>>

\* The answer is lost: to the page the call has failed.
AnswerLost(c) ==
    /\ press[c].at = "answered" /\ press[c].ok
    /\ press' = [press EXCEPT ![c].ok = FALSE]
    /\ UNCHANGED <<deliveries, tab, online, near, mine, mineFailed, pending, seen>>

\* invalidateQueries fetches what is mounted; the rest is fetched when it is
\* mounted next, unless a fetch is still under way then.
Refreshed(w, op) ==
    /\ near' = IF op = "claim" /\ NearMounted(w) THEN [near EXCEPT ![w] = Invalidated(@)] ELSE near
    /\ mine' = IF MineMounted(w) THEN [mine EXCEPT ![w] = Invalidated(@)] ELSE mine

\* onSuccess or onError; they run although the tab may be gone.
Settle(c) ==
    LET w == press[c].w
        op == press[c].op
        d == press[c].d
    IN
    /\ press[c].at = "answered"
    /\ press' = [press EXCEPT ![c] = Idle]
    /\ pending' = [pending EXCEPT ![w] = [p \in Op |-> IF @[p] = c THEN None ELSE @[p]]]
    /\ IF press[c].ok
       THEN /\ Refreshed(w, op)
            /\ seen' = IF op = "pickup" /\ MineMounted(w) THEN seen \cup {<<d, w>>} ELSE seen
       ELSE UNCHANGED <<near, mine, seen>>
    /\ UNCHANGED <<deliveries, tab, online, mineFailed>>

-----------------------------------------------------------------------------
\* An order becomes ready.
AddDelivery(d, o) ==
    /\ Service!AddDelivery(d, o)
    /\ UNCHANGED <<tab, online, near, mine, mineFailed, press, pending, seen>>

Next ==
    \/ \E w \in Driver :
         \/ \E t \in Tabs : SetActiveTab(w, t)
         \/ ToggleOnline(w) \/ Poll(w)
         \/ GetNearbyDeliveries(w) \/ GetMyDeliveries(w) \/ ShowNear(w) \/ ShowMine(w)
         \/ \E c \in Call : \E d \in DeliveryId : ClickClaim(c, w, d) \/ ClickActive(c, w, d)
    \/ \E c \in Call : Answer(c) \/ AnswerLost(c) \/ Settle(c)
    \/ \E d \in DeliveryId : \E o \in Order : AddDelivery(d, o)

Spec == Init /\ [][Next]_vars

\* The interval is a timer of the page; the network is not down for good.
Fairness ==
    \A w \in Driver : WF_vars(Poll(w)) /\ SF_vars(GetNearbyDeliveries(w)) /\ WF_vars(ShowNear(w))

FairSpec == Spec /\ Fairness

-----------------------------------------------------------------------------
(* Properties.                                                             *)

TypeOK ==
    /\ Service!TypeOK
    /\ tab \in [Driver -> Tab] /\ online \in [Driver -> BOOLEAN]
    /\ near \in [Driver -> Entries(SUBSET DeliveryId)]
    /\ mine \in [Driver -> Entries([DeliveryId -> {"none", "waiting", "delivering", "done"}])]
    /\ press \in [Call -> [op : Op \cup {None}, d : DeliveryId \cup {None},
                          w : Driver \cup {None}, at : {"idle", "sent", "answered"}, ok : BOOLEAN]]
    /\ pending \in [Driver -> [Op -> Call \cup {None}]]
    /\ mineFailed \subseteq Driver /\ seen \subseteq DeliveryId \X Driver

\* When a pickup was reported in front of the list, the list does not ask for
\* it again once it has loaded, although fetches, the other tab and a second
\* call may have overlapped with it.
PickupShown ==
    \A p \in seen : (MineMounted(p[2]) /\ mine[p[2]].fetch = "idle" /\ p[2] \notin mineFailed)
                      => p[1] \in InState(p[2], {"delivering", "done"})

\* A delivery somebody else has claimed leaves the list of a driver who keeps
\* looking at it.
ClaimedLeavesLists ==
    \A w \in Driver : \A d \in DeliveryId :
        (d \in Available(w) /\ deliveries[d].state # "unclaimed")
          ~> (d \notin Available(w) \/ ~NearMounted(w))

\* "Delivery completed successfully" (web-ui ActiveDeliveries.tsx): a delivery that
\* was completed stays completed.
CompletedStays ==
    [][\A d \in DeliveryId : deliveries[d].state = "done" => deliveries'[d].state = "done"]_vars
=============================================================================
