--------------------------- MODULE RestaurantDesk ---------------------------
(***************************************************************************)
(* The restaurants of restaurant-service as its pages show them: in one    *)
(* browser the tables where administrators approve and delete restaurants  *)
(* and the page of details a row leads to (admin-ui), in another one the   *)
(* customers' list (web-ui).  Restaurants are registered, approved and     *)
(* deleted elsewhere too.                                                  *)
(***************************************************************************)
EXTENDS QueryCache, FiniteSets

CONSTANTS Restaurant,
          Open,          \* the pages that are used, see Entry
          Call,          \* clicks under way at a time
          NoRestaurant, None

VARIABLES
  state, deleted,  \* the stored restaurants, and which have a deleted_at
  page, shown,     \* the page of the browser and the restaurant in its URL
  cache,           \* query cache entries
  failed,          \* entries whose latest fetch failed
  asked,           \* the restaurant the latest request of the details is for
  toDelete,        \* the dialog of the table of all restaurants
  call,            \* the calls under way
  search,          \* the restaurants the customer's search matches
  told             \* history: what an administrator was told to have done

vars == <<state, deleted, page, shown, cache, failed, asked, toDelete, call, search, told>>
service == <<state, deleted>>

\* "unapproved" is pending and "again" approved, after an approval was taken back.
State == {"absent", "pending", "approved", "unapproved", "again"}
Table == {"all", "pending", "approved"}
Page == Table \cup {"details"}
Entry == Page \cup {"list"}

Idle == [at |-> "idle", from |-> None, op |-> None, r |-> NoRestaurant, ok |-> FALSE]

Init ==
  /\ state \in [Restaurant -> {"absent", "pending"}]
  /\ deleted = {}
  /\ page \in Table \cap Open /\ shown = NoRestaurant
  /\ cache = [e \in Entry |-> Fresh] /\ failed = {} /\ asked = NoRestaurant
  /\ toDelete = NoRestaurant
  /\ call = [c \in Call |-> Idle]
  /\ search = Restaurant /\ told = {}

-----------------------------------------------------------------------------
(* Fetching and rendering.                                                 *)

Mounted(e) == e \in {page, "list"}

\* The details are stored under ["restaurant"], whatever restaurant they are of.
Asking(e) == IF e = "details" THEN shown ELSE asked

\* A page is opened or its window gets the focus.
Fetch(e) ==
  /\ Mounted(e) /\ cache[e].fetch = "idle"
  /\ cache' = [cache EXCEPT ![e] = Fetching(@)]
  /\ asked' = Asking(e)
  /\ UNCHANGED <<service, page, shown, failed, toDelete, call, search, told>>

\* What a page that is left has sent goes on without it.
Orphaned == [c \in Call |-> IF call[c].at = "idle" THEN call[c]
                            ELSE [call[c] EXCEPT !.from = "left"]]

\* A tab is clicked, or the user goes back to the tables.
SelectTab(p) ==
  /\ p \in Table /\ p # page
  /\ page' = p /\ shown' = NoRestaurant
  /\ cache' = [cache EXCEPT ![p] = Fetching(@)]
  /\ toDelete' = NoRestaurant /\ call' = Orphaned
  /\ UNCHANGED <<service, failed, asked, search, told>>

Rows == IF page \in Table /\ cache[page].data # NoData THEN cache[page].data ELSE {}

\* "View Restaurant" of a row.  A fetch of the details that is still under way
\* serves this page as well.
ViewRestaurant(r) ==
  /\ r \in Rows /\ toDelete = NoRestaurant
  /\ page' = "details" /\ shown' = r
  /\ cache' = [cache EXCEPT !["details"] = Fetching(@)]
  /\ asked' = IF cache["details"].fetch = "idle" THEN r ELSE asked
  /\ call' = Orphaned
  /\ UNCHANGED <<service, failed, toDelete, search, told>>

Stored(S) == {r \in Restaurant : state[r] \in S} \ deleted

GetAllRestaurant(filter) ==
  CASE filter = "all" -> Stored(State \ {"absent"})
    [] filter = "pending" -> Stored({"pending", "unapproved"})
    [] OTHER -> Stored({"approved", "again"})

\* The service answers a query, the details of a deleted restaurant by an error.
Get(e) ==
  /\ cache[e].fetch = "sent"
  /\ e = "details" => asked \notin deleted
  /\ cache' = [cache EXCEPT ![e] =
                 Served(@, IF e = "details" THEN asked ELSE GetAllRestaurant(e))]
  /\ UNCHANGED <<service, page, shown, failed, asked, toDelete, call, search, told>>

Show(e) ==
  /\ cache[e].fetch = "answered"
  /\ cache' = [cache EXCEPT ![e] = Filled(@)]
  /\ failed' = failed \ {e}
  /\ UNCHANGED <<service, page, shown, asked, toDelete, call, search, told>>

FetchFails(e) ==
  /\ cache[e].fetch = "sent"
  /\ cache' = [cache EXCEPT ![e] = Failed(@)]
  /\ failed' = failed \cup {e}
  /\ UNCHANGED <<service, page, shown, asked, toDelete, call, search, told>>

-----------------------------------------------------------------------------
(* What administrators click.                                              *)

Waits(op) == \E c \in Call : /\ call[c].at \in {"sent", "approved", "answered"}
                             /\ call[c].op = op /\ call[c].from = page

Send(c, op, r) ==
  /\ call[c].at = "idle"
  /\ call' = [call EXCEPT ![c] = [Idle EXCEPT !.at = "sent", !.from = page, !.op = op, !.r = r]]

HandleDeleteClick(r) ==
  /\ page = "all" /\ r \in Rows /\ toDelete = NoRestaurant
  /\ toDelete' = r
  /\ UNCHANGED <<service, page, shown, cache, failed, asked, call, search, told>>

CloseDialog ==
  /\ toDelete # NoRestaurant
  /\ toDelete' = NoRestaurant
  /\ UNCHANGED <<service, page, shown, cache, failed, asked, call, search, told>>

\* Mutant of ConfirmDelete: the button is not disabled while a deletion is under way.
ConfirmDeleteAgain(c) ==
  /\ toDelete # NoRestaurant
  /\ Send(c, "delete", toDelete)
  /\ UNCHANGED <<service, page, shown, cache, failed, asked, toDelete, search, told>>

ConfirmDelete(c) ==
  /\ toDelete # NoRestaurant /\ ~Waits("delete")
  /\ Send(c, "delete", toDelete)
  /\ UNCHANGED <<service, page, shown, cache, failed, asked, toDelete, search, told>>

\* Nothing disables this button.
HandleApproveRestaurant(c, r) ==
  /\ page = "pending" /\ r \in Rows
  /\ Send(c, "approve", r)
  /\ UNCHANGED <<service, page, shown, cache, failed, asked, toDelete, search, told>>

-----------------------------------------------------------------------------
(* What the service does with a click.                                     *)

DeleteRestaurantById(c) ==
  /\ call[c].at = "sent" /\ call[c].op = "delete"
  /\ deleted' = deleted \cup {call[c].r}
  /\ call' = [call EXCEPT ![c].at = "answered", ![c].ok = TRUE]
  /\ UNCHANGED <<state, page, shown, cache, failed, asked, toDelete, search, told>>

Approved(r, approved) ==
  [state EXCEPT ![r] = CASE @ = "pending" /\ approved -> "approved"
                         [] @ = "unapproved" /\ approved -> "again"
                         [] @ \in {"approved", "again"} /\ ~approved -> "unapproved"
                         [] OTHER -> @]

\* Mutant: that no document was updated goes unnoticed.
ApproveUnchecked(c) ==
  /\ call[c].at = "sent" /\ call[c].op = "approve"
  /\ state' = IF call[c].r \in deleted THEN state ELSE Approved(call[c].r, TRUE)
  /\ call' = [call EXCEPT ![c].at = "answered", ![c].ok = TRUE]
  /\ UNCHANGED <<deleted, page, shown, cache, failed, asked, toDelete, search, told>>

\* The first half of the request: the update of a restaurant not deleted.
ApproveRestaurantById(c) ==
  /\ call[c].at = "sent" /\ call[c].op = "approve"
  /\ \/ /\ call[c].r \notin deleted
        /\ state' = Approved(call[c].r, TRUE)
        /\ call' = [call EXCEPT ![c].at = "approved"]
     \/ /\ call[c].r \in deleted
        /\ call' = [call EXCEPT ![c].at = "answered"]
        /\ UNCHANGED state
  /\ UNCHANGED <<deleted, page, shown, cache, failed, asked, toDelete, search, told>>

\* The second half: the restaurant is read again, for its owner to be mailed.
ApprovedIsRead(c) ==
  /\ call[c].at = "approved"
  /\ call' = [call EXCEPT ![c].at = "answered", ![c].ok = call[c].r \notin deleted]
  /\ UNCHANGED <<service, page, shown, cache, failed, asked, toDelete, search, told>>

\* The request or its answer is lost, or the database fails.
CallFails(c) ==
  /\ call[c].at \in {"sent", "approved"} \/ (call[c].at = "answered" /\ call[c].ok)
  /\ call' = [call EXCEPT ![c].at = "answered", ![c].ok = FALSE]
  /\ UNCHANGED <<service, page, shown, cache, failed, asked, toDelete, search, told>>

-----------------------------------------------------------------------------
(* The answer of a click.                                                  *)

\* Mutant of Invalidates: only the table of approved restaurants.
InvalidatesApproved(ok) == IF ok THEN {"approved"} \cap Open ELSE {}

\* Every key that starts with "restaurants": not that of the details.
Invalidates(ok) == IF ok THEN Table \cap Open ELSE {}

\* A mounted query is fetched again, one that is not when it is mounted.
Refreshed(S) == [e \in Entry |-> IF e \in S /\ Mounted(e) THEN Invalidated(cache[e]) ELSE cache[e]]

\* The callbacks of the mutation run even when its page was left.  They close
\* the dialog, whatever restaurant it is for now.
Settle(c) ==
  /\ call[c].at = "answered"
  /\ cache' = Refreshed(Invalidates(call[c].ok))
  /\ toDelete' = IF call[c].op = "delete" /\ call[c].from = page THEN NoRestaurant ELSE toDelete
  /\ told' = IF call[c].ok THEN told \cup {[op |-> call[c].op, r |-> call[c].r]} ELSE told
  /\ call' = [call EXCEPT ![c] = Idle]
  /\ UNCHANGED <<service, page, shown, failed, asked, search>>

-----------------------------------------------------------------------------
(* Other users, and the customer's search.                                 *)

RegisterElsewhere(r) ==
  /\ state[r] = "absent"
  /\ state' = [state EXCEPT ![r] = "pending"]
  /\ UNCHANGED <<deleted, page, shown, cache, failed, asked, toDelete, call, search, told>>

\* Another administrator approves it or takes that back.
ApproveElsewhere(r, approved) ==
  /\ state[r] # "absent" /\ r \notin deleted
  /\ state' = Approved(r, approved)
  /\ UNCHANGED <<deleted, page, shown, cache, failed, asked, toDelete, call, search, told>>

DeleteElsewhere(r) ==
  /\ state[r] # "absent" /\ r \notin deleted
  /\ deleted' = deleted \cup {r}
  /\ UNCHANGED <<state, page, shown, cache, failed, asked, toDelete, call, search, told>>

HandleSearchChange(S) ==
  /\ "list" \in Open /\ S # search
  /\ search' = S
  /\ UNCHANGED <<service, page, shown, cache, failed, asked, toDelete, call, told>>

Next ==
  \/ \E e \in Open : Fetch(e) \/ Get(e) \/ Show(e) \/ FetchFails(e)
  \/ \E p \in Open : SelectTab(p)
  \/ "details" \in Open /\ \E r \in Restaurant : ViewRestaurant(r)
  \/ \E r \in Restaurant : HandleDeleteClick(r)
  \/ CloseDialog
  \/ \E c \in Call, r \in Restaurant : HandleApproveRestaurant(c, r)
  \/ \E c \in Call :
       \/ ConfirmDelete(c) \/ DeleteRestaurantById(c)
       \/ ApproveRestaurantById(c) \/ ApprovedIsRead(c)
       \/ CallFails(c) \/ Settle(c)
  \/ \E r \in Restaurant : RegisterElsewhere(r) \/ DeleteElsewhere(r)
  \/ \E r \in Restaurant, approved \in BOOLEAN : ApproveElsewhere(r, approved)
  \/ \E S \in SUBSET Restaurant : HandleSearchChange(S)

Spec == Init /\ [][Next]_vars

-----------------------------------------------------------------------------
(* Properties.                                                             *)

Calls == {Idle} \cup
         [at : {"sent", "approved", "answered"}, from : Table \cup {"left"},
          op : {"delete", "approve"}, r : Restaurant, ok : BOOLEAN]

\* Types: the tables hold sets of stored restaurants, the entry of the details one
\* restaurant, the dialog is that of the table of all, one deletion at a time is
\* confirmed in it, and the URL names a restaurant exactly on the page of details.
TypeOK ==
  /\ state \in [Restaurant -> State] /\ deleted \subseteq {r \in Restaurant : state[r] # "absent"}
  /\ page \in Page \cap Open /\ (page = "details" <=> shown \in Restaurant)
  /\ \A e \in Entry : cache[e] \in Entries(IF e = "details" THEN Restaurant ELSE SUBSET Restaurant)
  /\ failed \subseteq Open /\ asked \in Restaurant \cup {NoRestaurant}
  /\ toDelete \in Restaurant \cup {NoRestaurant}
  /\ toDelete # NoRestaurant => page = "all"
  /\ call \in [Call -> Calls] /\ search \subseteq Restaurant
  /\ \A c \in Call : \A d \in Call \ {c} :
       call[c].from = "all" /\ call[d].from = "all" => call[c].op = "approve"
  /\ told \subseteq [op : {"delete", "approve"}, r : Restaurant]

\* A deletion or an approval the administrator was told of did happen, whatever others
\* did to the restaurant between the click, the two halves of the request and the toast.
ToldHolds ==
  \A t \in told : IF t.op = "delete" THEN t.r \in deleted
                  ELSE state[t.r] \in {"approved", "unapproved", "again"}

\* A restaurant the administrator was told to have deleted or approved has left the
\* table where that was clicked, unless it is being fetched, could not be, or somebody
\* took the approval back: the fetch that was under way does not bring the row back.
ToldLeavesTable ==
  \A t \in told :
    LET e == IF t.op = "delete" THEN "all" ELSE "pending" IN
    page = e /\ cache[e].fetch = "idle" /\ e \notin failed
      => t.r \notin Rows \/ (t.op = "approve" /\ state[t.r] \in {"unapproved", "again"})

\* "View Restaurant" shows that restaurant once nothing is being loaded.
DetailsOfRow ==
  page = "details" /\ cache["details"].fetch = "idle" /\ "details" \notin failed
    => cache["details"].data = shown

\* What a search leaves is counted above the customers' list and is what it lists.
Filtered == cache["list"].data \cap search
Listed == cache["list"].data
ListAsCounted ==
  cache["list"].data # NoData => Cardinality(Listed) = Cardinality(Filtered)

=============================================================================
