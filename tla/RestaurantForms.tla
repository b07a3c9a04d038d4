--------------------------- MODULE RestaurantForms ---------------------------
(***************************************************************************)
(* The pages where an owner registers a restaurant and edits or deletes    *)
(* one (admin-ui RegisterRestaurant and UpdateRestaurant), with what       *)
(* restaurant-service stores.  A submission uploads the images one after   *)
(* the other and then sends the restaurant with their URLs; nothing        *)
(* disables the buttons or the fields meanwhile.  The text of a restaurant *)
(* stands for all its fields but the images.                               *)
(***************************************************************************)
EXTENDS QueryCache, Naturals, FiniteSets

CONSTANTS Text, File,
          Image,         \* in upload order: <<"logo", "cover">>, or without the cover
          Presses,       \* bound: how often submit or delete is pressed
          Register,      \* the page used: RegisterRestaurant, or UpdateRestaurant
          NoText, NoFile

VARIABLES
  stored,    \* the restaurants that the presses registered, and 0, the one edited
  deleted,   \* whether restaurant 0 has a deleted_at
  open,      \* the form is on the screen
  cache,     \* the query of UpdateRestaurant
  form,      \* the fields: what was typed and which files were chosen
  preview,   \* the images the form shows
  call,      \* the submissions, in the order they were pressed
  told       \* history: the presses that were reported as successful
             \* (call[p].beside, history: those under way when p was pressed)

vars == <<stored, deleted, open, cache, form, preview, call, told>>

Press == 1..Presses
Slot == {Image[i] : i \in DOMAIN Image}
NoImages == [i \in Slot |-> NoFile]
Blank == [text |-> NoText, image |-> NoImages]

Doc == [text : Text, image : [Slot -> File]]
NoDoc == Blank

Idle == [at |-> "unused", op |-> "none", data |-> Blank, shown |-> NoImages, url |-> NoImages,
         beside |-> {}]

Init ==
  /\ stored \in [{0} \cup Press -> {NoDoc} \cup IF Register THEN {} ELSE Doc]
  /\ \A p \in Press : stored[p] = NoDoc
  /\ Register <=> stored[0] = NoDoc
  /\ deleted = FALSE /\ open = Register
  /\ cache = Fresh /\ form = Blank /\ preview = NoImages
  /\ call = [p \in Press |-> Idle] /\ told = {}

-----------------------------------------------------------------------------
(* Editing.  The schema of RegisterRestaurant wants both images, that of   *)
(* UpdateRestaurant none.                                                  *)

Edit(f, v) ==
  /\ open /\ form' = f /\ preview' = v /\ <<form, preview>> # <<f, v>>
  /\ UNCHANGED <<stored, deleted, open, cache, call, told>>

EditText(t) == Edit([form EXCEPT !.text = t], preview)

ChooseImage(i, f) == Edit([form EXCEPT !.image[i] = f], [preview EXCEPT ![i] = f])

RemoveImage(i) ==
  preview[i] # NoFile /\ Edit([form EXCEPT !.image[i] = NoFile], [preview EXCEPT ![i] = NoFile])

Valid == form.text # NoText /\ (Register => \A i \in Slot : form.image[i] # NoFile)

-----------------------------------------------------------------------------
(* Submitting.                                                             *)

Unused == {p \in Press : call[p].at = "unused"}
Running == {p \in Press : call[p].at \notin {"unused", "over"}}

Start(p, op, at) ==
  /\ open /\ Unused # {} /\ p = Presses + 1 - Cardinality(Unused)
  /\ call' = [call EXCEPT ![p] = [Idle EXCEPT !.at = at, !.op = op, !.data = form, !.shown = preview,
                                               !.beside = Running]]
  /\ UNCHANGED <<stored, deleted, open, cache, form, preview, told>>

OnSubmit(p) == Valid /\ Start(p, IF Register THEN "create" ELSE "update", Image[1])

OnDelete(p) == ~Register /\ cache.data # NoData /\ Start(p, "delete", "write")

\* What follows the upload of an image: the next one, or the request itself.
After(i) == IF i = "logo" /\ "cover" \in Slot THEN "cover" ELSE "write"

\* An image is uploaded and its URL kept, one that was not chosen is skipped: the files
\* are those of the form when it was pressed.
Upload(p, i) ==
  /\ call[p].at = i
  /\ call' = [call EXCEPT ![p].at = After(i), ![p].url[i] = call[p].data.image[i]]
  /\ UNCHANGED <<stored, deleted, open, cache, form, preview, told>>

\* A fragment of an update that is missing leaves what is stored.
Merged(doc, text, url) ==
  [text |-> text, image |-> [i \in Slot |-> IF url[i] = NoFile THEN doc.image[i] ELSE url[i]]]

HandleCreateRestaurant(p) ==
  /\ call[p].at = "write" /\ call[p].op = "create"
  /\ stored' = [stored EXCEPT ![p] = Merged(NoDoc, call[p].data.text, call[p].url)]
  /\ call' = [call EXCEPT ![p].at = "ok"]
  /\ UNCHANGED <<deleted, open, cache, form, preview, told>>

\* The conditional update of a restaurant that is not deleted.
HandleUpdateRestaurant(p) ==
  /\ call[p].at = "write" /\ call[p].op = "update"
  /\ stored' = IF deleted THEN stored
               ELSE [stored EXCEPT ![0] = Merged(@, call[p].data.text, call[p].url)]
  /\ call' = [call EXCEPT ![p].at = IF deleted THEN "failed" ELSE "ok"]
  /\ UNCHANGED <<deleted, open, cache, form, preview, told>>

HandleDeleteRestaurantById(p) ==
  /\ call[p].at = "write" /\ call[p].op = "delete"
  /\ deleted' = TRUE
  /\ call' = [call EXCEPT ![p].at = "ok"]
  /\ UNCHANGED <<stored, open, cache, form, preview, told>>

\* A request or its answer is lost.
CallFails(p) ==
  /\ call[p].at \in Slot \cup {"write", "ok"}
  /\ call' = [call EXCEPT ![p].at = "failed"]
  /\ UNCHANGED <<stored, deleted, open, cache, form, preview, told>>

\* The success is reported: the form of a new restaurant is cleared, the page of an
\* edited one left for the one before it.
Succeed(p) ==
  /\ call[p].at = "ok"
  /\ call' = [call EXCEPT ![p].at = "over"] /\ told' = told \cup {p}
  /\ IF Register THEN form' = Blank /\ preview' = NoImages /\ open' = open
                 ELSE open' = FALSE /\ UNCHANGED <<form, preview>>
  /\ UNCHANGED <<stored, deleted, cache>>

Fail(p) ==
  /\ call[p].at = "failed"
  /\ call' = [call EXCEPT ![p].at = "over"]
  /\ UNCHANGED <<stored, deleted, open, cache, form, preview, told>>

-----------------------------------------------------------------------------
(* The query of UpdateRestaurant.  No mutation invalidates it: they name   *)
(* the key of a menu.                                                      *)

\* form.reset with what is stored.
Reset(d) == form' = [text |-> d.text, image |-> NoImages] /\ preview' = d.image

\* "Modify Restaurant" is clicked: what is cached is shown before it is fetched.
OpenUpdate ==
  /\ ~Register /\ ~open
  /\ open' = (cache.data # NoData) /\ cache' = Fetching(cache)
  /\ IF cache.data # NoData THEN Reset(cache.data) ELSE UNCHANGED <<form, preview>>
  /\ UNCHANGED <<stored, deleted, call, told>>

\* The owner goes back.
Leave ==
  /\ ~Register /\ open
  /\ open' = FALSE
  /\ UNCHANGED <<stored, deleted, cache, form, preview, call, told>>

\* The window gets the focus.
Refetch ==
  /\ ~Register /\ open /\ cache.fetch = "idle"
  /\ cache' = Fetching(cache)
  /\ UNCHANGED <<stored, deleted, open, form, preview, call, told>>

GetRestaurantById ==
  /\ cache.fetch = "sent" /\ ~deleted
  /\ cache' = Served(cache, stored[0])
  /\ UNCHANGED <<stored, deleted, open, form, preview, call, told>>

\* The form is reset when the restaurant differs from the one in the cache, what was
\* typed meanwhile is lost.
ShowRestaurant ==
  /\ cache.fetch = "answered"
  /\ cache' = Filled(cache)
  /\ IF cache.answer # cache.data THEN Reset(cache.answer) ELSE UNCHANGED <<form, preview>>
  /\ open' = TRUE
  /\ UNCHANGED <<stored, deleted, call, told>>

\* The page shows an error instead of the form.
FetchFails ==
  /\ cache.fetch = "sent"
  /\ cache' = Failed(cache) /\ open' = FALSE
  /\ UNCHANGED <<stored, deleted, form, preview, call, told>>

Next ==
  \/ \E t \in Text : EditText(t)
  \/ \E i \in Slot : RemoveImage(i) \/ \E f \in File : ChooseImage(i, f)
  \/ \E p \in Press : \/ OnSubmit(p) \/ OnDelete(p)
                      \/ HandleCreateRestaurant(p) \/ HandleUpdateRestaurant(p)
                      \/ HandleDeleteRestaurantById(p)
                      \/ CallFails(p) \/ Succeed(p) \/ Fail(p)
  \/ \E p \in Press, i \in Slot : Upload(p, i)
  \/ OpenUpdate \/ Leave \/ Refetch \/ GetRestaurantById \/ ShowRestaurant \/ FetchFails

Spec == Init /\ [][Next]_vars

-----------------------------------------------------------------------------
(* Properties.                                                             *)

Images == [Slot -> File \cup {NoFile}]
Fields == [text : Text \cup {NoText}, image : Images]

\* Types: what is stored has its images, and a press that came later has not begun
\* before one that came earlier.
TypeOK ==
  /\ stored \in [{0} \cup Press -> Doc \cup {NoDoc}] /\ deleted \in BOOLEAN /\ open \in BOOLEAN
  /\ cache \in Entries(Doc) /\ form \in Fields /\ preview \in Images
  /\ call \in [Press -> [at : Slot \cup {"unused", "write", "ok", "failed", "over"},
                         op : {"none", "create", "update", "delete"},
                         data : Fields, shown : Images, url : Images,
                         beside : SUBSET Press]]
  /\ told \subseteq Press
  /\ \A p, q \in Press : p < q /\ call[p].at = "unused" => call[q].at = "unused"

\* A press registers one restaurant, the one the form showed when it was pressed with the
\* logo as logo and the cover as cover, whatever is typed or chosen during the uploads and
\* however the uploads of two presses interleave.  What is reported is stored.
RegisteredAsPressed ==
  Register => \A p \in Press :
    /\ stored[p] # NoDoc => stored[p] = call[p].data
    /\ p \in told => stored[p] # NoDoc

\* An update that was reported stays, but for updates that were under way or came after
\* it, whatever the order in which they reach the service: what is stored is never what an
\* update left that was over when this one was pressed, and of each image that this one
\* chose it has this choice or one of theirs.
Updates == {p \in Press : call[p].op = "update"}
Since(p) == {q \in Updates : q >= p \/ q \in call[p].beside}
UpdateAsTold ==
  \A p \in told \cap Updates :
    /\ \E q \in Since(p) : stored[0].text = call[q].data.text
    /\ \A i \in Slot : call[p].data.image[i] # NoFile
         => \E q \in Since(p) : /\ call[q].data.image[i] # NoFile
                                /\ stored[0].image[i] = call[q].data.image[i]

\* Once every submission is over, the latest update is what is stored, if it was reported.
LastUpdateStays ==
  \A p \in told \cap Updates :
    Running = {} /\ (\A q \in Updates : q <= p)
      => /\ stored[0].text = call[p].data.text
         /\ \A i \in Slot : call[p].data.image[i] # NoFile
                              => stored[0].image[i] = call[p].data.image[i]

\* An image that was removed in the form is gone after the update.
RemovedImageGoes ==
  \A p \in told \cap Updates :
    Running = {} /\ (\A q \in Updates : q <= p) => stored[0].image = call[p].shown

=============================================================================
