---------------------------- MODULE MCPagesLive ----------------------------
(***************************************************************************)
(* What must happen in the end, in small instances of the pages and of the *)
(* notification service; with them, the upload service.  As in             *)
(* MCCustomers, one part is chosen to move at the start.  The scheduling a *)
(* property needs is the Fairness its module states; it is assumed of the  *)
(* part that moves and of no other one.  The definitions of Notifications  *)
(* are those of this module; the other parts are instances.                *)
(***************************************************************************)
EXTENDS Notifications, TLC

CONSTANTS NoData, None, Empty, NoDriver, NoTxn, NoOrder, NoUser, NoApplication

VARIABLES
  moving,                                              \* the part that moves
  orderStatus, driver, txn, entry, error, listTab, click, told,
  users, verifiers, exchanged, page, attempts, loading, call, popup, watching,
  listening, message, signedIn, registered, refused, blocked,
  sessions, cookie, storage, store, request, refresh, current, left, lost,
  deliveries, tab, online, near, mine, mineFailed, press, pending, seen,
  deleted, profile, status, applicant, stored, filed, roles, fields, image,
  reading, submit, formError, view, pressed,
  disk, tmp, objects, notFound, flight, upload, get, given, damaged

trackingVars == <<orderStatus, driver, txn, entry, error, listTab, click, told>>
accountsVars == <<users, verifiers, exchanged, page, attempts, loading, call, popup, watching,
    listening, message, signedIn, registered, refused, blocked>>
clientVars == <<sessions, cookie, storage, store, request, refresh, current, left, lost>>
dashboardVars == <<deliveries, tab, online, near, mine, mineFailed, press, pending, seen>>
formVars == <<deleted, profile, status, applicant, stored, filed, roles, fields, image,
    reading, submit, formError, view, pressed>>
queueVars == vars
pageVars == <<trackingVars, accountsVars, clientVars, dashboardVars, formVars, queueVars>>
uploadVars == <<disk, tmp, objects, notFound, flight, upload, get, given, damaged>>

-----------------------------------------------------------------------------
\* The first message has two receivers.
ReceiversOf == [m \in Message |-> IF m = "first" THEN Receiver ELSE {"two"}]

Tracking ==
  INSTANCE OrderPages
    WITH order <- "order", driver1 <- "driver", txn1 <- "txn", Open <- {"tracking"},
         Call <- {"one", "two"}

Accounts ==
  INSTANCE SignIn
    WITH Account <- {"old", "new"}, seeded <- "old", Email <- {"mail", "other"},
         Password <- {"word"}, seededEmail <- "mail", seededPassword <- "word",
         Attempt <- {"attempt"}, Call <- {"call"}

\* One tab and two requests.
Client == INSTANCE ClientSession WITH Tab <- {"tab"}, Request <- {"one", "two"}, Session <- {"s1", "s2"}

\* Two drivers at the list of open deliveries.
Dashboard ==
  INSTANCE DriverDashboard
    WITH Driver <- {"one", "two"}, DeliveryId <- {"delivery"}, Order <- {"order"},
         Call <- {"call 1", "call 2"}, Tabs <- {"available"}

Form ==
  INSTANCE ApplicationForm
    WITH user <- "user", Application <- {"application"}, File <- {"file"}, MaxReads <- 1

\* Two uploads, two requests and a name nobody was given, with S3 behind a disk that
\* may be lost; the same without S3, on a disk that is kept.
UploadsToS3 ==
  INSTANCE Uploads
    WITH Upload <- {"a", "b"}, Wrong <- {"wrong"}, Get <- {"one", "two"}, UseS3 <- TRUE,
         DiskIsLost <- TRUE
UploadsToDisk ==
  INSTANCE Uploads
    WITH Upload <- {"a", "b"}, Wrong <- {"wrong"}, Get <- {"one", "two"}, UseS3 <- FALSE,
         DiskIsLost <- FALSE

\* "No answer yet" is no answer of upload-service; nobody is not one of the drivers.
ASSUME NothingAssumption ==
  None \notin {"part", "whole", "not found", "error"} /\ NoDriver \notin {"one", "two"}

-----------------------------------------------------------------------------
LiveInit ==
  /\ moving \in {"tracking", "accounts", "client", "dashboard", "form", "queue",
                 "s3", "disk"}
  /\ Tracking!Init /\ Accounts!Init /\ Client!Init
  /\ Dashboard!Init /\ Form!Init /\ Init /\ UploadsToS3!Init

LiveNext ==
  \/ /\ moving = "tracking" /\ Tracking!Next
     /\ UNCHANGED <<accountsVars, clientVars, dashboardVars, formVars, queueVars, uploadVars, moving>>
  \/ /\ moving = "accounts" /\ Accounts!Next
     /\ UNCHANGED <<trackingVars, clientVars, dashboardVars, formVars, queueVars, uploadVars, moving>>
  \/ /\ moving = "client" /\ Client!Next
     /\ UNCHANGED <<trackingVars, accountsVars, dashboardVars, formVars, queueVars, uploadVars, moving>>
  \/ /\ moving = "dashboard" /\ Dashboard!Next
     /\ UNCHANGED <<trackingVars, accountsVars, clientVars, formVars, queueVars, uploadVars, moving>>
  \/ /\ moving = "form" /\ Form!Next
     /\ UNCHANGED <<trackingVars, accountsVars, clientVars, dashboardVars, queueVars, uploadVars, moving>>
  \/ /\ moving = "queue" /\ Next
     /\ UNCHANGED <<trackingVars, accountsVars, clientVars, dashboardVars, formVars, uploadVars, moving>>
  \/ /\ \/ moving = "s3" /\ UploadsToS3!Next
        \/ moving = "disk" /\ UploadsToDisk!Next
     /\ UNCHANGED <<pageVars, moving>>

liveVars == <<moving, pageVars, uploadVars>>
LiveSpec == LiveInit /\ [][LiveNext]_liveVars

-----------------------------------------------------------------------------
(* Properties, see the modules of the parts; MessagesAccounted of          *)
(* Notifications is checked as it is.                                      *)

\* Types: the variables of the queue, the dashboard and the uploads have their types.
LiveTypeOK ==
  /\ moving = "queue" => TypeOK
  /\ moving = "dashboard" => Dashboard!TypeOK
  /\ moving = "s3" => UploadsToS3!TypeOK
  /\ moving = "disk" => UploadsToDisk!TypeOK

\* Nobody is sent a part of an image, save of one whose file could not be closed, and
\* the name an upload answered with is never said not to exist.
UploadsServed == UploadsToS3!UploadsServed

\* The tracking page gets to know how the order ended; a delivery that somebody else has
\* claimed leaves a list that is looked at.
PagesCatchUp ==
  /\ moving = "tracking" /\ Tracking!Fairness => Tracking!TrackingCatchesUp
  /\ moving = "dashboard" /\ Dashboard!Fairness => Dashboard!ClaimedLeavesLists

\* Nobody waits for ever for a call: the buttons of login and registration do not stay
\* disabled, submitting an application ends, and a request is answered or given up,
\* although it waited for a refresh.
WaitingEnds ==
  /\ moving = "accounts" /\ Accounts!Fairness => Accounts!FormsComeBack
  /\ moving = "form" /\ Form!Fairness => Form!SubmitEnds
  /\ moving = "client" /\ Client!Fairness => Client!RequestsSettle

\* A message leaves the queue in the end.
MessagesDelivered == moving = "queue" /\ Fairness => QueueDrains

=============================================================================
