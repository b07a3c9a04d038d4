--------------------------- MODULE ApplicationForm ---------------------------
(***************************************************************************)
(* The form with which a user applies to drive (web-ui Application.tsx):   *)
(* two images are chosen and read, submitting uploads one after the other  *)
(* and then files the application.  The uploads are kept by upload-service *)
(* and the applications by user-service, as ApplicationLifecycle.tla says. *)
(* Only a signed-in user who applies for himself is modelled.              *)
(***************************************************************************)
EXTENDS Integers, FiniteSets

CONSTANTS user, Application,
          File,          \* images the user may choose, valid and small enough
          MaxReads,      \* images chosen at a time and still being read
          NoUser, NoApplication, None

VARIABLES
  deleted, profile, status, applicant,  \* user-service, see ApplicationLifecycle
  stored,      \* files upload-service has answered an address for
  filed,       \* the two files each application names
  roles,       \* the user's roles in the browser's user store
  fields,      \* the text fields are filled
  image,       \* vehicleImage and driverLicense
  reading,     \* FileReaders at work
  submit,      \* handleSubmit under way
  formError,   \* the message above the form
  view,        \* "form", "success" or "home"
  pressed      \* history: what the form showed when Submit was last pressed

vars == <<deleted, profile, status, applicant, stored, filed, roles, fields, image,
          reading, submit, formError, view, pressed>>
service == <<deleted, profile, status, applicant>>

Service == INSTANCE ApplicationLifecycle WITH User <- {user}

Slot == {"vehicle", "license"}
NoFiles == [vehicle |-> None, license |-> None]
Idle == [at |-> "idle", files |-> NoFiles]

Init ==
  /\ Service!Init
  /\ stored = {} /\ filed = [a \in Application |-> NoFiles]
  /\ roles = {} /\ fields = FALSE
  /\ image = [s \in Slot |-> [file |-> None, uploading |-> FALSE]]
  /\ reading = {} /\ submit = Idle /\ formError = None /\ view = "form"
  /\ pressed = NoFiles

-----------------------------------------------------------------------------
(* Filling in the form.                                                    *)

\* The page is rendered from the store: a driver sees no form.
IsAlreadyDriver == "user_driver1" \in roles
FormShown == view = "form" /\ ~IsAlreadyDriver

HandleInputChange ==
  /\ FormShown
  /\ \E filled \in BOOLEAN : fields' = filled
  /\ UNCHANGED <<service, stored, filed, roles, image, reading, submit, formError, view, pressed>>

\* The inputs stay usable while a submission is under way.
HandleImageChange(s, f) ==
  /\ FormShown
  /\ Cardinality(reading) < MaxReads
  /\ reading' = reading \cup {<<s, f>>}
  /\ UNCHANGED <<service, stored, filed, roles, fields, image, submit, formError, view, pressed>>

\* Of two files chosen in a row the smaller one may be read first.
OnLoadEnd(s, f) ==
  /\ <<s, f>> \in reading
  /\ reading' = reading \ {<<s, f>>}
  /\ image' = [image EXCEPT ![s] = [file |-> f, uploading |-> FALSE]]
  /\ UNCHANGED <<service, stored, filed, roles, fields, submit, formError, view, pressed>>

-----------------------------------------------------------------------------
(* Submitting.                                                             *)

Disabled == submit.at # "idle" \/ \E s \in Slot : image[s].uploading

Complete == fields /\ \A s \in Slot : image[s].file # None

Press ==
  /\ FormShown /\ ~Disabled
  /\ IF Complete
     THEN /\ submit' = [at |-> "vehicle", files |-> [s \in Slot |-> image[s].file]]
          /\ image' = [image EXCEPT !["vehicle"].uploading = TRUE]
          /\ formError' = None
          /\ pressed' = [s \in Slot |-> image[s].file]
     ELSE /\ formError' = "missing"
          /\ UNCHANGED <<submit, image, pressed>>
  /\ UNCHANGED <<service, stored, filed, roles, fields, reading, view>>

\* Mutant of Upload: what is filed is what the form shows by then.
UploadLatest(s) ==
  /\ submit.at = s
  /\ stored' = stored \cup {image[s].file}
  /\ submit' = [at |-> IF s = "vehicle" THEN "license" ELSE "create",
                files |-> [submit.files EXCEPT ![s] = image[s].file]]
  /\ image' = [t \in Slot |-> [image[t] EXCEPT !.uploading = s = "vehicle" /\ t = "license"]]
  /\ UNCHANGED <<service, filed, roles, fields, reading, formError, view, pressed>>

\* uploadPrivateFile answers, and the next step starts.
Upload(s) ==
  /\ submit.at = s
  /\ stored' = stored \cup {submit.files[s]}
  /\ submit' = [submit EXCEPT !.at = IF s = "vehicle" THEN "license" ELSE "create"]
  /\ image' = [image EXCEPT ![s].uploading = FALSE,
                            !["license"].uploading = s = "vehicle"]
  /\ UNCHANGED <<service, filed, roles, fields, reading, formError, view, pressed>>

\* Create's transaction finds that the user exists and is not a driver.
CreateReads ==
  /\ submit.at = "create"
  /\ user \notin deleted /\ profile[user] = NoApplication
  /\ submit' = [submit EXCEPT !.at = "insert"]
  /\ UNCHANGED <<service, stored, filed, roles, fields, image, reading, formError, view, pressed>>

CreateInserts(a) ==
  /\ submit.at = "insert"
  /\ Service!Create(user, a)
  /\ filed' = [filed EXCEPT ![a] = submit.files]
  /\ submit' = [submit EXCEPT !.at = "created"]
  /\ UNCHANGED <<stored, roles, fields, image, reading, formError, view, pressed>>

Created ==
  /\ submit.at = "created"
  /\ submit' = Idle
  /\ view' = IF view = "form" THEN "success" ELSE view
  /\ UNCHANGED <<service, stored, filed, roles, fields, image, reading, formError, pressed>>

\* A call fails, is refused, or its answer is lost: the catch clause.
Fails ==
  /\ submit.at # "idle"
  /\ submit' = Idle /\ formError' = "failed"
  /\ UNCHANGED <<service, stored, filed, roles, fields, image, reading, view, pressed>>

\* The timer of the success page.
GoHome ==
  /\ view = "success"
  /\ view' = "home"
  /\ UNCHANGED <<service, stored, filed, roles, fields, image, reading, submit, formError, pressed>>

\* "Back": a submission under way goes on without the page.
Leave ==
  /\ view = "form"
  /\ view' = "home"
  /\ UNCHANGED <<service, stored, filed, roles, fields, image, reading, submit, formError, pressed>>

\* The user comes back: a new page (bounded: once the left one has finished).
Open ==
  /\ view = "home" /\ submit = Idle
  /\ view' = "form" /\ fields' = FALSE /\ formError' = None
  /\ image' = [s \in Slot |-> [file |-> None, uploading |-> FALSE]] /\ reading' = {}
  /\ UNCHANGED <<service, stored, filed, roles, submit, pressed>>

-----------------------------------------------------------------------------
(* Elsewhere.                                                              *)

Elsewhere ==
  /\ \/ \E a \in Application : Service!Accept(a) \/ Service!Deny(a)
     \/ Service!Delete(user)
  /\ UNCHANGED <<stored, filed, roles, fields, image, reading, submit, formError, view, pressed>>

\* The access token is renewed: the store gets the roles of the account.
SetUser ==
  /\ user \notin deleted
  /\ roles' = IF profile[user] # NoApplication THEN {"user_driver"} ELSE {}
  /\ UNCHANGED <<service, stored, filed, fields, image, reading, submit, formError, view, pressed>>

Next ==
  \/ HandleInputChange \/ Press
  \/ \E s \in Slot : Upload(s) \/ \E f \in File : HandleImageChange(s, f) \/ OnLoadEnd(s, f)
  \/ CreateReads \/ (\E a \in Application : CreateInserts(a)) \/ Created \/ Fails
  \/ GoHome \/ Leave \/ Open \/ Elsewhere \/ SetUser

Spec == Init /\ [][Next]_vars

\* Each call is answered or fails in the end.
Fairness ==
  WF_vars(\/ (\E s \in Slot : Upload(s)) \/ CreateReads \/ (\E a \in Application : CreateInserts(a))
          \/ Created \/ Fails)

FairSpec == Spec /\ Fairness

-----------------------------------------------------------------------------
(* Properties.                                                             *)

Files == [Slot -> File \cup {None}]

TypeOK ==
  /\ status \in [Application -> {"absent", "pending", "accepted", "rejected"}]
  /\ profile \in [{user} -> Application \cup {NoApplication}]
  /\ stored \subseteq File /\ filed \in [Application -> Files] /\ pressed \in Files
  /\ roles \in SUBSET {"user_driver"} /\ fields \in BOOLEAN
  /\ image \in [Slot -> [file : File \cup {None}, uploading : BOOLEAN]]
  /\ reading \subseteq Slot \X File
  /\ submit \in [at : {"idle", "vehicle", "license", "create", "insert", "created"},
                 files : Files]
  /\ formError \in {None, "missing", "failed"} /\ view \in {"form", "success", "home"}

Filed == {a \in Application : status[a] # "absent"}

\* An application that an administrator will see names two images that are
\* stored, whichever of the three calls of a submission failed.
FiledIsStored == \A a \in Filed : \A s \in Slot : filed[a][s] \in stored

\* It names the two images the form showed together when Submit was pressed,
\* although the user may choose others, and readers finish, during the uploads.
FiledAsPressed ==
  [][\A a \in Application : a \notin Filed /\ a \in Filed' => filed'[a] = pressed]_vars

\* Submitting ends: the button does not spin for ever.
SubmitEnds == submit.at # "idle" ~> submit.at = "idle"

\* "Failed to submit application. Please try again later.": one can.
CanRetry == (FormShown /\ formError = "failed" /\ submit = Idle) => ~Disabled

\* "Check if user is already a driver": one who is gets no form.
DriversSeeNoForm == "user_driver" \in roles => ~FormShown
=============================================================================
