------------------------------ MODULE MCDesks ------------------------------
(***************************************************************************)
(* Instances, for TLC, of the service that decides on applications, of the *)
(* form that files them, and of the pages of owners and administrators.    *)
(* As in MCCustomers, one of them is chosen to move at the start, so that  *)
(* their states add up: they share no variable.                            *)
(***************************************************************************)
EXTENDS DriverApplications, Sequences, TLC

CONSTANTS NoData, None, NoRestaurant, NoText, NoFile

VARIABLES
  moving,                                              \* the part that moves
  formDeleted, formProfile, formStatus, formApplicant, stored, filed, roles, fields, image,
  reading, submit, formError, view, pressed,
  deleted, profile, status, applicant, remark, page, cache, error, toApprove, toDeny, denyReason,
  call, told, tried,
  state, closed, table, shown, tableCache, failed, asked, toDelete, click, search, toldClicks,
  restaurant, removed, open, formCache, form, preview, submission, toldPresses,
  items, menuPage, dialog, menuList, menuAsked, menuFailed, menuCall, menuTold

applicationVars == <<users, applications, decisions, creating>>
formVars == <<formDeleted, formProfile, formStatus, formApplicant, stored, filed, roles, fields, image,
    reading, submit, formError, view, pressed>>
deskVars == <<deleted, profile, status, applicant, remark, page, cache, error, toApprove, toDeny,
    denyReason, call, told, tried>>
restaurantVars == <<state, closed, table, shown, tableCache, failed, asked, toDelete, click, search,
    toldClicks>>
editorVars == <<restaurant, removed, open, formCache, form, preview, submission, toldPresses>>
menuVars == <<items, menuPage, dialog, menuList, menuAsked, menuFailed, menuCall, menuTold>>

-----------------------------------------------------------------------------
Form ==
  INSTANCE ApplicationForm
    WITH user <- "user", Application <- {"application"}, File <- Application, MaxReads <- 1,
         deleted <- formDeleted, profile <- formProfile, status <- formStatus,
         applicant <- formApplicant

\* The table of two pending applications, with two clicks at a time; a table and the
\* details of one; the other table, beside the page no link leads to.
Desk ==
  INSTANCE ApplicationDesk
    WITH User <- {"user"}, viewed <- "none", Open <- {"pending"}, Typed <- {"long"},
         Call <- Decision
DeskTabs ==
  INSTANCE ApplicationDesk
    WITH User <- {"user"}, Application <- {"application"}, viewed <- "application",
         Open <- {"pending", "details"}, Typed <- {}, Call <- {"call"}
DeskPages ==
  INSTANCE ApplicationDesk
    WITH User <- {"user"}, Application <- {"application"}, viewed <- "application",
         Open <- {"approved", "view"}, Typed <- {}, Call <- {"call"}

\* Two restaurants in the table of all, with two clicks at a time, and in the one of
\* pending ones; one restaurant and its details; one in the table of approved ones beside
\* the customers' list.
AllRestaurants ==
  INSTANCE RestaurantDesk
    WITH Restaurant <- Application, Open <- {"all"}, Call <- Decision, deleted <- closed,
         page <- table, cache <- tableCache, call <- click, told <- toldClicks
PendingRestaurants ==
  INSTANCE RestaurantDesk
    WITH Restaurant <- Application, Open <- {"pending"}, Call <- {"call"}, deleted <- closed,
         page <- table, cache <- tableCache, call <- click, told <- toldClicks
RestaurantDetails ==
  INSTANCE RestaurantDesk
    WITH Restaurant <- {"place"}, Open <- {"pending", "details"}, Call <- {"call"}, deleted <- closed,
         page <- table, cache <- tableCache, call <- click, told <- toldClicks
RestaurantList ==
  INSTANCE RestaurantDesk
    WITH Restaurant <- {"place"}, Open <- {"approved", "list"}, Call <- {}, deleted <- closed,
         page <- table, cache <- tableCache, call <- click, told <- toldClicks

\* Two registrations with both images, and two updates or deletions, which may overlap.
Registering ==
  INSTANCE RestaurantForms
    WITH Text <- {"text"}, File <- Application, Image <- <<"logo", "cover">>, Presses <- 2,
         Register <- TRUE, stored <- restaurant, deleted <- removed,
         cache <- formCache, call <- submission, told <- toldPresses
Updating ==
  INSTANCE RestaurantForms
    WITH Text <- {"text"}, File <- Application, Image <- <<"logo">>, Presses <- 2,
         Register <- FALSE, stored <- restaurant, deleted <- removed,
         cache <- formCache, call <- submission, told <- toldPresses

\* Two presses at a time on the page of one restaurant, one press and the pages of two.
OneMenu ==
  INSTANCE MenuDesk
    WITH Restaurant <- {"place"}, Presses <- 2, AtATime <- 2, MayLeave <- FALSE,
         page <- menuPage, list <- menuList, asked <- menuAsked, failed <- menuFailed,
         call <- menuCall, told <- menuTold
TwoMenus ==
  INSTANCE MenuDesk
    WITH Restaurant <- {"place", "other"}, Presses <- 1, AtATime <- 1, MayLeave <- TRUE,
         page <- menuPage, list <- menuList, asked <- menuAsked, failed <- menuFailed,
         call <- menuCall, told <- menuTold

\* What stands for nothing is none of the values it stands beside.
ASSUME NothingAssumption ==
  /\ None \notin {"all", "pending"} /\ NoApplication # "application"
  /\ NoRestaurant \notin Application \cup {"place", "other"}
  /\ NoText # "text" /\ NoFile \notin Application
  /\ NoData \notin Application \cup {"place"} \cup Desk!Status
  /\ \A S \in UNION {SUBSET Application, SUBSET {"place"}, SUBSET {"application"}} : S # NoData
  /\ \A doc \in Registering!Doc \cup Updating!Doc : doc # NoData
  /\ \A m \in OneMenu!Menus \cup TwoMenus!Menus : m # NoData

-----------------------------------------------------------------------------
\* A part that does not move starts in one of its states only.
DesksInit ==
  /\ moving \in {"applications", "form", "desk", "tabs", "desk pages",
                 "all", "pending", "details", "list", "register", "update", "menu", "menus"}
  /\ Init /\ Form!Init
  /\ CASE moving = "tabs" -> DeskTabs!Init
       [] moving = "desk pages" -> DeskPages!Init
       [] OTHER -> Desk!Init
  /\ CASE moving = "pending" -> PendingRestaurants!Init
       [] moving = "details" -> RestaurantDetails!Init
       [] moving = "list" -> RestaurantList!Init
       [] OTHER -> AllRestaurants!Init
  /\ moving \notin {"all", "pending", "details", "list"} => state = [r \in Application |-> "absent"]
  /\ IF moving = "update" THEN Updating!Init ELSE Registering!Init
  /\ IF moving = "menus" THEN TwoMenus!Init ELSE OneMenu!Init

DesksNext ==
  \/ /\ moving = "applications" /\ Next
     /\ UNCHANGED <<formVars, deskVars, restaurantVars, editorVars, menuVars, moving>>
  \/ /\ moving = "form" /\ Form!Next
     /\ UNCHANGED <<applicationVars, deskVars, restaurantVars, editorVars, menuVars, moving>>
  \/ /\ \/ moving = "desk" /\ Desk!Next
        \/ moving = "tabs" /\ DeskTabs!Next
        \/ moving = "desk pages" /\ DeskPages!Next
     /\ UNCHANGED <<applicationVars, formVars, restaurantVars, editorVars, menuVars, moving>>
  \/ /\ \/ moving = "all" /\ AllRestaurants!Next
        \/ moving = "pending" /\ PendingRestaurants!Next
        \/ moving = "details" /\ RestaurantDetails!Next
        \/ moving = "list" /\ RestaurantList!Next
     /\ UNCHANGED <<applicationVars, deskVars, formVars, editorVars, menuVars, moving>>
  \/ /\ \/ moving = "register" /\ Registering!Next
        \/ moving = "update" /\ Updating!Next
     /\ UNCHANGED <<applicationVars, deskVars, formVars, restaurantVars, menuVars, moving>>
  \/ /\ \/ moving = "menu" /\ OneMenu!Next
        \/ moving = "menus" /\ TwoMenus!Next
     /\ UNCHANGED <<applicationVars, deskVars, formVars, restaurantVars, editorVars, moving>>

desksVars == <<moving, applicationVars, formVars, deskVars, restaurantVars, editorVars,
               menuVars>>
DesksSpec == DesksInit /\ [][DesksNext]_desksVars

\* Applications (images, restaurants) are interchangeable, and so are decisions (clicks).
\* Users are too, but permuting them would cost more than it saves.
Symmetry == Permutations(Application) \cup Permutations(Decision)

-----------------------------------------------------------------------------
(* Properties, see the modules of the parts; DriversWereAccepted and       *)
(* ImplementsLifecycle of DriverApplications are checked as they are.      *)

\* Types: the variables of the part that moves have their types.
DesksTypeOK ==
  /\ moving = "applications" => TypeOK
  /\ moving = "form" => Form!TypeOK
  /\ moving = "desk" => Desk!TypeOK
  /\ moving = "tabs" => DeskTabs!TypeOK
  /\ moving = "desk pages" => DeskPages!TypeOK
  /\ moving = "all" => AllRestaurants!TypeOK
  /\ moving = "pending" => PendingRestaurants!TypeOK
  /\ moving = "details" => RestaurantDetails!TypeOK
  /\ moving = "list" => RestaurantList!TypeOK
  /\ moving = "register" => Registering!TypeOK
  /\ moving = "update" => Updating!TypeOK
  /\ moving = "menu" => OneMenu!TypeOK
  /\ moving = "menus" => TwoMenus!TypeOK

\* An application that was filed names two stored images, those the form showed when
\* Submit was pressed; a press registers one restaurant, as its form showed it, or one
\* item, on the menu that was open when it was pressed.
StoredAsPressed ==
  /\ [](/\ Form!FiledIsStored
        /\ moving = "register" => Registering!RegisteredAsPressed
        /\ moving = "menu" => OneMenu!MenuAsPressed
        /\ moving = "menus" => TwoMenus!MenuAsPressed)
  /\ Form!FiledAsPressed

\* An approval or a deletion of a restaurant that was reported stands, and so does an
\* update, but for those that were under way or came after it.
ToldHolds ==
  /\ moving \in {"all", "pending", "details"} => AllRestaurants!ToldHolds
  /\ moving = "update" => Updating!UpdateAsTold

\* What was reported as approved or deleted is not offered again by the
\* list it was reported in front of.
ToldLeavesLists ==
  /\ moving = "all" => AllRestaurants!ToldLeavesTable
  /\ moving = "pending" => PendingRestaurants!ToldLeavesTable
  /\ moving = "menu" => OneMenu!ToldLeavesMenu

\* A decision that was reported to an administrator stands and leaves the table it was
\* taken in, although other clicks, administrators and the applicant were at the same
\* application; and no page that has shown it as decided shows it open again.
DecisionsAsTold ==
  /\ [](moving \in {"desk", "tabs", "desk pages"}
         => Desk!ToldDecisionHolds /\ Desk!DecidedLeavesTable)
  /\ DeskPages!DecidedStaysDecided

-----------------------------------------------------------------------------
(* Promises of texts in the code that the code does not keep.  No run      *)
(* checks them; the README says which text each one is from.  Named under  *)
(* INVARIANT in the cfg, TLC shows how each fails.                         *)
CanRetry == moving = "form" => Form!CanRetry
DriversSeeNoForm == moving = "form" => Form!DriversSeeNoForm
RejectDenies == moving = "desk pages" => DeskPages!RejectDenies
TryAgainFetches == moving = "desk pages" => DeskPages!TryAgainFetches
ListAsCounted == moving = "list" => RestaurantList!ListAsCounted
MenuOfRestaurant == moving = "menus" => TwoMenus!MenuOfRestaurant
LastUpdateStays == moving = "update" => Updating!LastUpdateStays
RemovedImageGoes == moving = "update" => Updating!RemovedImageGoes
=============================================================================
