------------------------------ MODULE MenuDesk ------------------------------
(***************************************************************************)
(* The menu items of restaurant-service (repo/menu.go) and the page where  *)
(* owners manage those of a restaurant (admin-ui MenuManagement), with its *)
(* dialogs to create and to modify or delete an item.  A press of a button *)
(* uploads an image, if one was chosen, asks for permission and then       *)
(* writes; neither the button nor the dialog waits for it.  The fields of  *)
(* an item, what is typed into them, and the query of a dialog that fills  *)
(* them are left out: which items there are, of which restaurant, is not.  *)
(***************************************************************************)
EXTENDS QueryCache, Naturals, FiniteSets

CONSTANTS Restaurant,
          Presses,       \* bound: how often a dialog is submitted
          AtATime,       \* bound: presses under way at a time
          MayLeave,      \* the owner may leave the page, or only look at it
          NoRestaurant

VARIABLES
  items,     \* the stored items: 0, and those that the presses have created
  page,      \* the restaurant in the URL, NoRestaurant on other pages
  dialog,    \* the open dialog
  list,      \* the query of the page, ['own_restaurant_menu']
  asked,     \* the restaurant its latest request is for
  failed,    \* the latest fetch of the list failed
  call,      \* the presses, in their order
  told       \* history: the presses that were reported as successful

vars == <<items, page, dialog, list, asked, failed, call, told>>
queries == <<list, asked, failed>>

Press == 1..Presses
Item == 0..Presses

NoDoc == [of |-> NoRestaurant, deleted |-> FALSE]
Closed == [open |-> "no", item |-> 0]
Idle == [at |-> "unused", op |-> "none", item |-> 0, of |-> NoRestaurant, left |-> FALSE]

Init ==
  /\ items \in [Item -> {NoDoc} \cup [of : Restaurant, deleted : {FALSE}]]
  /\ \A i \in Item : items[i] = NoDoc <=> i # 0
  /\ page \in Restaurant /\ dialog = Closed
  /\ list = Fetching(Fresh) /\ asked = page
  /\ failed = FALSE
  /\ call = [p \in Press |-> Idle] /\ told = {}

-----------------------------------------------------------------------------
(* The page and its queries                                                *)

\* From the list of the owner's restaurants.  What is cached is shown before it is
\* fetched, and a fetch under way, for whichever restaurant, is not repeated.
OpenMenu(r) ==
  /\ page = NoRestaurant
  /\ page' = r
  /\ list' = Fetching(list) /\ asked' = IF list.fetch = "idle" THEN r ELSE asked
  /\ UNCHANGED <<items, dialog, failed, call, told>>

\* The window gets the focus.
Refetch ==
  /\ page # NoRestaurant /\ list.fetch = "idle"
  /\ list' = Fetching(list) /\ asked' = page
  /\ UNCHANGED <<items, page, dialog, failed, call, told>>

\* The calls of the page that is left go on without its dialogs.
Leave ==
  /\ MayLeave /\ page # NoRestaurant
  /\ page' = NoRestaurant /\ dialog' = Closed
  /\ call' = [p \in Press |-> [call[p] EXCEPT !.left = @ \/ call[p].at # "unused"]]
  /\ UNCHANGED <<items, queries, told>>

Sold(r) == {i \in Item : items[i].of = r /\ ~items[i].deleted}

GetRestaurantMenuItems ==
  /\ list.fetch = "sent"
  /\ list' = Served(list, [of |-> asked, rows |-> Sold(asked)])
  /\ UNCHANGED <<items, page, dialog, asked, failed, call, told>>

ShowMenu ==
  /\ list.fetch = "answered"
  /\ list' = Filled(list) /\ failed' = FALSE
  /\ UNCHANGED <<items, page, dialog, asked, call, told>>

MenuFails ==
  /\ list.fetch = "sent"
  /\ list' = Failed(list) /\ failed' = TRUE
  /\ UNCHANGED <<items, page, dialog, asked, call, told>>

Rows == IF page = NoRestaurant \/ list.data = NoData THEN {} ELSE list.data.rows

-----------------------------------------------------------------------------
(* The dialogs.  An open one covers the rows and the other button.         *)

HandleAddMenuButton ==
  /\ page # NoRestaurant /\ dialog = Closed
  /\ dialog' = [open |-> "create", item |-> 0]
  /\ UNCHANGED <<items, page, queries, call, told>>

HandleModifyButton(i) ==
  /\ i \in Rows /\ dialog = Closed
  /\ dialog' = [open |-> "modify", item |-> i]
  /\ UNCHANGED <<items, page, queries, call, told>>

Cancel ==
  /\ dialog # Closed
  /\ dialog' = Closed
  /\ UNCHANGED <<items, page, queries, call, told>>

Running == {p \in Press : call[p].at \notin {"unused", "over"}}

Start(p, op, at) ==
  /\ call[p].at = "unused" /\ \A q \in Press : call[q].at = "unused" => p <= q
  /\ Cardinality(Running) < AtATime
  /\ call' = [call EXCEPT ![p] = [at |-> at, op |-> op, item |-> dialog.item, of |-> page,
                                  left |-> FALSE]]
  /\ UNCHANGED <<items, page, dialog, queries, told>>

OnSubmitCreate(p) == dialog.open = "create" /\ Start(p, "create", "upload")

\* The image may be left as it is.
OnSubmitModify(p) ==
  /\ dialog.open = "modify"
  /\ Start(p, "update", "upload") \/ Start(p, "update", "ask")

\* DeleteButton.
OnDelete(p) == dialog.open = "modify" /\ Start(p, "delete", "ask")

-----------------------------------------------------------------------------
(* What a press does                                                       *)

Moves(p, at) == call' = [call EXCEPT ![p].at = at]

\* Creating needs no permission, anything else does.
UploadImage(p) ==
  /\ call[p].at = "upload"
  /\ Moves(p, IF call[p].op = "create" THEN "write" ELSE "ask")
  /\ UNCHANGED <<items, page, dialog, queries, told>>

\* The item is read to see whose it is; of a deleted one nobody is the owner.
MenuPermissionFunc(p) ==
  /\ call[p].at = "ask"
  /\ Moves(p, IF items[call[p].item].deleted THEN "failed" ELSE "write")
  /\ UNCHANGED <<items, page, dialog, queries, told>>

CreateMenuItem(p) ==
  /\ call[p].at = "write" /\ call[p].op = "create"
  /\ items' = [items EXCEPT ![p] = [of |-> call[p].of, deleted |-> FALSE]]
  /\ Moves(p, "ok")
  /\ UNCHANGED <<page, dialog, queries, told>>

\* The filter finds no item that was deleted since the permission was given.
UpdateMenuItemById(p) ==
  /\ call[p].at = "write" /\ call[p].op = "update"
  /\ Moves(p, IF items[call[p].item].deleted THEN "failed" ELSE "ok")
  /\ UNCHANGED <<items, page, dialog, queries, told>>

\* The filter is the id alone.
DeleteMenuItemById(p) ==
  /\ call[p].at = "write" /\ call[p].op = "delete"
  /\ items' = [items EXCEPT ![call[p].item].deleted = TRUE]
  /\ Moves(p, "ok")
  /\ UNCHANGED <<page, dialog, queries, told>>

\* A request or its answer is lost, or refused.
CallFails(p) ==
  /\ call[p].at \in {"upload", "ask", "write", "ok"}
  /\ Moves(p, "failed")
  /\ UNCHANGED <<items, page, dialog, queries, told>>

\* What no component uses is fetched when one does.
InvalidateMenu ==
  IF page = NoRestaurant THEN UNCHANGED <<list, asked>>
  ELSE /\ list' = Invalidated(list)
       /\ asked' = IF list.data = NoData /\ list.fetch # "idle" THEN asked ELSE page

\* The success closes the dialog of its kind, for whatever item it is open now.
Succeed(p) ==
  LET kind == IF call[p].op = "create" THEN "create" ELSE "modify" IN
  /\ call[p].at = "ok"
  /\ InvalidateMenu
  /\ Moves(p, "over") /\ told' = told \cup {p}
  /\ dialog' = IF dialog.open = kind /\ ~call[p].left THEN Closed ELSE dialog
  /\ UNCHANGED <<items, page, failed>>

Fail(p) ==
  /\ call[p].at = "failed"
  /\ Moves(p, "over")
  /\ UNCHANGED <<items, page, dialog, queries, told>>

\* Another tab of the owner.
DeleteElsewhere(i) ==
  /\ items[i] # NoDoc /\ ~items[i].deleted
  /\ items' = [items EXCEPT ![i].deleted = TRUE]
  /\ UNCHANGED <<page, dialog, queries, call, told>>

Next ==
  \/ \E r \in Restaurant : OpenMenu(r)
  \/ Refetch \/ Leave \/ GetRestaurantMenuItems \/ ShowMenu \/ MenuFails
  \/ HandleAddMenuButton \/ Cancel
  \/ \E i \in Item : HandleModifyButton(i) \/ DeleteElsewhere(i)
  \/ \E p \in Press :
       \/ OnSubmitCreate(p) \/ OnSubmitModify(p) \/ OnDelete(p)
       \/ UploadImage(p) \/ MenuPermissionFunc(p)
       \/ CreateMenuItem(p) \/ UpdateMenuItemById(p) \/ DeleteMenuItemById(p)
       \/ CallFails(p) \/ Succeed(p) \/ Fail(p)

Spec == Init /\ [][Next]_vars

-----------------------------------------------------------------------------
(* Properties                                                              *)

Docs == [of : Restaurant, deleted : BOOLEAN]
Menus == [of : Restaurant, rows : SUBSET Item]

\* Types: an item is there once its press has written it, and the dialog of a page that
\* was left is closed.
TypeOK ==
  /\ items \in [Item -> Docs \cup {NoDoc}] /\ items[0] # NoDoc
  /\ \A p \in Press : items[p] # NoDoc => call[p].op = "create"
  /\ page \in Restaurant \cup {NoRestaurant}
  /\ dialog \in [open : {"no", "create", "modify"}, item : Item]
  /\ page = NoRestaurant => dialog = Closed
  /\ list \in Entries(Menus) /\ asked \in Restaurant /\ failed \in BOOLEAN
  /\ call \in [Press -> [at : {"unused", "upload", "ask", "write", "ok", "failed", "over"},
                         op : {"none", "create", "update", "delete"}, item : Item,
                         of : Restaurant \cup {NoRestaurant},
                         left : BOOLEAN]]
  /\ told \subseteq Press

\* A press creates one item, of the restaurant whose menu was open when it was pressed,
\* although the owner may manage another one before the image is uploaded.  What was
\* reported as created is stored, and what was reported as deleted is no longer sold.
MenuAsPressed ==
  \A p \in Press :
    /\ items[p] # NoDoc => items[p].of = call[p].of
    /\ p \in told /\ call[p].op = "create" => items[p] # NoDoc
    /\ p \in told /\ call[p].op = "delete" => items[call[p].item].deleted

\* An item whose deletion was reported has left the menu on the screen, unless that is
\* being fetched or could not be.  (The page must not have been left: a fetch from
\* before the deletion is neither cancelled nor repeated then.)
ToldLeavesMenu ==
  list.fetch = "idle" /\ ~failed =>
    \A p \in told : call[p].op = "delete" => call[p].item \notin Rows

\* The menu on the page of a restaurant is its own, once nothing is being loaded.
MenuOfRestaurant ==
  page # NoRestaurant /\ list.fetch = "idle" /\ ~failed => list.data.of = page
=============================================================================
