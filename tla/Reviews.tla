------------------------------ MODULE Reviews ------------------------------
(***************************************************************************)
(* The review service (review-service) and the page of a restaurant that   *)
(* uses it (web-ui RestaurantReviews, RestaurantHeader, RatingDialog).     *)
(*                                                                         *)
(* The database keeps the reviews of restaurants under a unique index on   *)
(* user and restaurant.  Ids grow with the time of creation, so the newest *)
(* review has the largest id.  Each tab shows the page of one restaurant   *)
(* and keeps two entries of its query cache, the first page of the reviews *)
(* and the average of the header, beside the state of its review dialog.   *)
(* Ratings of drivers are requests of their own: the test that the order   *)
(* has not been rated and the look-up of the delivery are two steps.       *)
(***************************************************************************)
EXTENDS Integers, FiniteSets, FiniteSetsExt, QueryCache

CONSTANTS User, Restaurant, Tab, Order, RatingRequest,
          userOf,         \* the user logged in in a tab
          pageOf,         \* the restaurant whose page a tab shows
          Given,          \* ratings a client may send, good and bad ones
          PageSize,       \* reviews per page (10 in the code)
          MaxReviews,     \* bound on the reviews ever created
          None

VARIABLES reviews,        \* the documents of the collection
          lastId,         \* the id given last
          list, header,   \* cache entries of each tab
          dialog,         \* the review dialog of each tab
          own,            \* history: the review a tab was told is created
          handedOver,     \* orders the delivery service has a delivery of
          rating          \* requests to rate a driver

vars == <<reviews, lastId, list, header, dialog, own, handedOver, rating>>
pages == <<list, header, dialog, own>>
drivers == <<handedOver, rating>>

Review == [id : 1..MaxReviews, user : User, restaurant : Restaurant, rating : 1..5]

\* id is the review the service created, stars the rating the user gave.
Dialog == [post : {"idle", "sent", "created", "failed"}, stars : 0..5, id : 0..MaxReviews]

Unused == [post |-> "idle", stars |-> 0, id |-> 0]

RatingCall == [pc : {"idle", "checked", "answered"}, order : Order \cup {None},
               message : {"none", "Delivery not found", "lookup failed"}]

InRange(n) == n >= 1 /\ n <= 5

Of(r) == {v \in reviews : v.restaurant = r}

\* The first page of the reviews of r, newest first.
FirstPage(r) ==
    {v \in Of(r) : Cardinality({w \in Of(r) : w.id > v.id}) < PageSize}

Average(r) == [sum |-> MapThenSumSet(LAMBDA v : v.rating, Of(r)),
               number |-> Cardinality(Of(r))]

Init ==
    /\ reviews = {} /\ lastId = 0
    /\ list = [t \in Tab |-> Fresh] /\ header = [t \in Tab |-> Fresh]
    /\ dialog = [t \in Tab |-> Unused]
    /\ own = [t \in Tab |-> None]
    /\ handedOver = {}
    /\ rating = [q \in RatingRequest |-> [pc |-> "idle", order |-> None, message |-> "none"]]

-----------------------------------------------------------------------------
(* The handlers of the service. *)

\* The unique index refuses the second review of a user for a restaurant.
Duplicate(u, r) == \E v \in reviews : v.user = u /\ v.restaurant = r

CreateReview(u, r, n) ==
    /\ InRange(n) /\ ~Duplicate(u, r)
    /\ lastId < MaxReviews
    /\ lastId' = lastId + 1
    /\ reviews' = reviews \cup {[id |-> lastId + 1, user |-> u, restaurant |-> r, rating |-> n]}

\* Another browser of any user reviews a restaurant.
OtherClient(u, r, n) ==
    /\ CreateReview(u, r, n)
    /\ UNCHANGED <<pages, drivers>>

\* Mutant: the rating is not checked.
UpdateReviewUnchecked(i, n) ==
    /\ \E v \in reviews :
          v.id = i /\ reviews' = (reviews \ {v}) \cup {[v EXCEPT !.rating = n]}
    /\ UNCHANGED <<lastId, pages, drivers>>

\* The body may name any review and nothing but the rating and the text is taken
\* from it.  Whoever sends the request need not be the author.
UpdateReview(i, n) ==
    /\ InRange(n)
    /\ \E v \in reviews :
          v.id = i /\ reviews' = (reviews \ {v}) \cup {[v EXCEPT !.rating = n]}
    /\ UNCHANGED <<lastId, pages, drivers>>

DeleteReview(i) ==
    /\ \E v \in reviews : v.id = i /\ reviews' = reviews \ {v}
    /\ UNCHANGED <<lastId, pages, drivers>>

-----------------------------------------------------------------------------
(* The page of a restaurant. *)

Service == <<reviews, lastId>>

\* The page mounts, or its window gets the focus again: both entries are fetched.
Mount(t) ==
    /\ list[t].fetch = "idle" \/ header[t].fetch = "idle"
    /\ list' = [list EXCEPT ![t] = Fetching(@)]
    /\ header' = [header EXCEPT ![t] = Fetching(@)]
    /\ UNCHANGED <<Service, dialog, own, drivers>>

GetReviewsByRestaurantId(t) ==
    /\ list[t].fetch = "sent"
    /\ list' = [list EXCEPT ![t] = Served(@, FirstPage(pageOf[t]))]
    /\ UNCHANGED <<Service, header, dialog, own, drivers>>

ShowList(t) ==
    /\ list[t].fetch = "answered"
    /\ list' = [list EXCEPT ![t] = Filled(@)]
    /\ UNCHANGED <<Service, header, dialog, own, drivers>>

\* The service answers with an error or is not reached, every time it is tried again:
\* what is rendered stays, and nothing asks again by itself.
ListFails(t) ==
    /\ list[t].fetch # "idle"
    /\ list' = [list EXCEPT ![t] = Failed(@)]
    /\ UNCHANGED <<Service, header, dialog, own, drivers>>

HeaderFails(t) ==
    /\ header[t].fetch # "idle"
    /\ header' = [header EXCEPT ![t] = Failed(@)]
    /\ UNCHANGED <<Service, list, dialog, own, drivers>>

GetAverageRating(t) ==
    /\ header[t].fetch = "sent"
    /\ header' = [header EXCEPT ![t] = Served(@, Average(pageOf[t]))]
    /\ UNCHANGED <<Service, list, dialog, own, drivers>>

ShowHeader(t) ==
    /\ header[t].fetch = "answered"
    /\ header' = [header EXCEPT ![t] = Filled(@)]
    /\ UNCHANGED <<Service, list, dialog, own, drivers>>

\* The form is submitted with n stars.  Without stars or text it only shows an
\* error.  The dialog may be closed and opened again while the request runs (with
\* the escape key), but its buttons stay disabled: there is one request at a time.
HandleSubmit(t, n) ==
    /\ dialog[t].post = "idle"
    /\ InRange(n)
    /\ dialog' = [dialog EXCEPT ![t].post = "sent", ![t].stars = n]
    /\ UNCHANGED <<Service, list, header, own, drivers>>

\* The service answers the request of the dialog: with the review it has created, or
\* with an error, because of the index, because something failed before or after the
\* insertion, or because the answer is lost.
Post(t) ==
    /\ dialog[t].post = "sent"
    /\ \/ /\ CreateReview(userOf[t], pageOf[t], dialog[t].stars)
          /\ dialog' = [dialog EXCEPT ![t].post = "created", ![t].id = lastId']
       \/ /\ CreateReview(userOf[t], pageOf[t], dialog[t].stars) \/ UNCHANGED Service
          /\ dialog' = [dialog EXCEPT ![t].post = "failed"]
    /\ UNCHANGED <<list, header, own, drivers>>

\* Mutant: a fetch under way is kept.
InvalidateReviewsKeeping(t) ==
    /\ list' = [list EXCEPT ![t] = Fetching(@)]
    /\ UNCHANGED header

\* The query keys a submitted review invalidates: the list of the restaurant, and
\* an average under the id of the restaurant.  The header caches its average
\* under the restaurant itself, which that key does not match.
InvalidateReviews(t) ==
    /\ list' = [list EXCEPT ![t] = Invalidated(@)]
    /\ UNCHANGED header

Submitted(t) ==
    /\ dialog[t].post = "created"
    /\ dialog' = [dialog EXCEPT ![t] = Unused]
    /\ own' = [own EXCEPT ![t] = IF list[t].data = NoData THEN None ELSE dialog[t].id]
    /\ InvalidateReviews(t)
    /\ UNCHANGED <<Service, drivers>>

SubmitFailed(t) ==
    /\ dialog[t].post = "failed"
    /\ dialog' = [dialog EXCEPT ![t] = Unused]
    /\ UNCHANGED <<Service, list, header, own, drivers>>

-----------------------------------------------------------------------------
(* Ratings of drivers.  The look-up rejects when the delivery service fails or
   has no delivery, and createRating throws when it has one: no call reaches
   the insertion, so no rating is ever stored and none is found. *)

AddDelivery(o) ==
    /\ o \notin handedOver
    /\ handedOver' = handedOver \cup {o}
    /\ UNCHANGED <<Service, pages, rating>>

HasUserRatedOrder(q, o) ==
    /\ rating[q].pc = "idle"
    /\ rating' = [rating EXCEPT ![q].pc = "checked", ![q].order = o]
    /\ UNCHANGED <<Service, pages, handedOver>>

CreateRating(q) ==
    /\ rating[q].pc = "checked"
    /\ rating' = [rating EXCEPT ![q].pc = "answered",
                                ![q].message = IF rating[q].order \in handedOver
                                               THEN "Delivery not found" ELSE "lookup failed"]
    /\ UNCHANGED <<Service, pages, handedOver>>

-----------------------------------------------------------------------------
UserSteps(t) == Mount(t) \/ \E n \in Given : HandleSubmit(t, n)

Next ==
    \/ \E t \in Tab :
          \/ UserSteps(t) \/ Post(t) \/ Submitted(t) \/ SubmitFailed(t)
          \/ GetReviewsByRestaurantId(t) \/ ShowList(t) \/ ListFails(t)
          \/ GetAverageRating(t) \/ ShowHeader(t) \/ HeaderFails(t)
    \/ \E u \in User, r \in Restaurant, n \in Given : OtherClient(u, r, n)
    \/ \E i \in 1..MaxReviews : DeleteReview(i) \/ \E n \in Given : UpdateReview(i, n)
    \/ \E o \in Order : AddDelivery(o) \/ \E q \in RatingRequest : HasUserRatedOrder(q, o)
    \/ \E q \in RatingRequest : CreateRating(q)

Spec == Init /\ [][Next]_vars

-----------------------------------------------------------------------------
TypeOK ==
    /\ reviews \subseteq Review /\ lastId \in 0..MaxReviews
    /\ list \in [Tab -> Entries(SUBSET Review)]
    /\ \A t \in Tab : header[t].fetch \in {"idle", "sent", "answered"}
    /\ dialog \in [Tab -> Dialog]
    /\ own \in [Tab -> 1..MaxReviews \cup {None}]
    /\ handedOver \subseteq Order
    /\ rating \in [RatingRequest -> RatingCall]

Shown(t) == IF list[t].data = NoData THEN {} ELSE list[t].data

\* Once a page that had its reviews loaded was told that its review is stored, it
\* never again renders a list read before: every list it renders from then on
\* has the review, unless it was deleted or is full of newer reviews.
RendersOwnReview ==
    \A t \in Tab :
      /\ own[t] # None
      /\ \E v \in reviews : v.id = own[t]
      /\ Shown(t)' # Shown(t)
      => \/ \E v \in Shown(t)' : v.id = own[t]
         \/ Cardinality(Shown(t)') = PageSize /\ \A v \in Shown(t)' : v.id > own[t]
OwnReviewNotLost == [][RendersOwnReview]_vars

\* The header counts what the service averages: a tab that was told that its review is
\* stored fetches the average again.
HeaderCountsOwnReview ==
    [][\A t \in Tab : own'[t] \notin {own[t], None} => header'[t].fetch = "sent"]_vars

\* "Delivery not found" is said of orders without a delivery only.
NotFoundIsTrue ==
    \A q \in RatingRequest :
      rating[q].message = "Delivery not found" => rating[q].order \notin handedOver

=============================================================================
