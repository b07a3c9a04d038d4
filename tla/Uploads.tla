------------------------------ MODULE Uploads ------------------------------
(***************************************************************************)
(* upload-service: images on the disk of the process, as a cache of S3.    *)
(*                                                                         *)
(* An upload writes its file to the disk, then to S3, and answers with the *)
(* random name it has given it.  A request opens the file on the disk; if  *)
(* there is none, the file is downloaded to a temporary name, renamed, and *)
(* opened again.  Requests for one name share a download.  What S3 does    *)
(* not have is remembered until the process ends.                          *)
(***************************************************************************)
EXTENDS FiniteSets

CONSTANTS Upload,       \* names that uploads are given
          Wrong,        \* names that are asked for and belong to no upload
          Get,          \* requests for a file
          UseS3,        \* config s3.use
          DiskIsLost,   \* a restart may find an empty disk (a new container)
          None

VARIABLES disk, tmp,    \* the file under a name, and under name + ".tmp"
          objects,       \* the objects in S3
          notFound,     \* sync.Map
          flight,       \* singleflight: the download of a name
          upload, get,
          given,         \* names an upload has answered with
          damaged       \* history: files that could not be closed

files == <<disk, tmp, damaged>>
vars == <<disk, tmp, objects, notFound, flight, upload, get, given, damaged>>

Name == Upload \cup Wrong
File == {"absent", "part", "whole"}
NoGet == [name |-> None, at |-> "idle", answer |-> None]

Init ==
  /\ disk = [n \in Name |-> "absent"] /\ tmp = disk
  /\ objects = {} /\ notFound = {} /\ given = {} /\ damaged = {}
  /\ flight = [n \in Name |-> "none"]
  /\ upload = [n \in Upload |-> "new"]
  /\ get = [g \in Get |-> NoGet]

-----------------------------------------------------------------------------
(* HandleUploadFile *)

\* The upload fails: what it has written stays, in S3 too if only the answer of S3
\* was lost.
UploadFails(n) ==
  /\ upload[n] \in {"created", "written"}
  /\ upload' = [upload EXCEPT ![n] = "failed"]
  /\ \/ UNCHANGED objects
     \/ UseS3 /\ upload[n] = "written" /\ objects' = objects \cup {n}
  /\ UNCHANGED <<files, notFound, flight, get, given>>

UploadCreates(n) ==
  /\ upload[n] = "new"
  /\ upload' = [upload EXCEPT ![n] = "created"]
  /\ disk' = [disk EXCEPT ![n] = "part"]
  /\ UNCHANGED <<tmp, objects, notFound, flight, get, given, damaged>>

\* io.Copy and Close; that Close failed is only logged.
UploadWrites(n) ==
  /\ upload[n] = "created"
  /\ upload' = [upload EXCEPT ![n] = "written"]
  /\ \/ disk' = [disk EXCEPT ![n] = "whole"] /\ UNCHANGED damaged
     \/ damaged' = damaged \cup {n} /\ UNCHANGED disk
  /\ UNCHANGED <<tmp, objects, notFound, flight, get, given>>

\* S3Upload, which does nothing when S3 is disabled, and the answer.
UploadStores(n) ==
  /\ upload[n] = "written"
  /\ upload' = [upload EXCEPT ![n] = "stored"]
  /\ objects' = IF UseS3 THEN objects \cup {n} ELSE objects
  /\ given' = given \cup {n}
  /\ UNCHANGED <<files, notFound, flight, get>>

-----------------------------------------------------------------------------
(* HandleGetFile and openCachedFile *)

Answer(g, answer) == get' = [get EXCEPT ![g].at = "answered", ![g].answer = answer]

\* Names are random: who asks for one was given it, or asks for none there is.
Ask(g, n) ==
  /\ get[g].at = "idle" /\ n \in given \cup Wrong
  /\ get' = [get EXCEPT ![g].name = n, ![g].at = "open"]
  /\ UNCHANGED <<files, objects, notFound, flight, upload, given>>

\* The file is open: a rename no longer changes what is sent.
Found(g) ==
  /\ get[g].at \in {"open", "retry"} /\ disk[get[g].name] # "absent"
  /\ Answer(g, disk[get[g].name])
  /\ UNCHANGED <<files, objects, notFound, flight, upload, given>>

\* Not on the disk: the request starts a download or joins the one under way.
Missing(g) ==
  /\ get[g].at = "open" /\ disk[get[g].name] = "absent" /\ UseS3
  /\ get' = [get EXCEPT ![g].at = "wait"]
  /\ flight' = [flight EXCEPT ![get[g].name] = IF @ = "none" THEN "started" ELSE @]
  /\ UNCHANGED <<files, objects, notFound, upload, given>>

\* Not there after the download either, or there is no S3.
StillMissing(g) ==
  /\ get[g].at = "retry" \/ (get[g].at = "open" /\ ~UseS3)
  /\ disk[get[g].name] = "absent"
  /\ Answer(g, "not found")
  /\ UNCHANGED <<files, objects, notFound, flight, upload, given>>

\* The file cannot be opened, read or sent, or the client is gone.
GetFails(g) ==
  /\ get[g].at \in {"open", "retry"}
  /\ Answer(g, "error")
  /\ UNCHANGED <<files, objects, notFound, flight, upload, given>>

Done(g) ==
  /\ get[g].at = "answered"
  /\ get' = [get EXCEPT ![g] = NoGet]
  /\ UNCHANGED <<files, objects, notFound, flight, upload, given>>

-----------------------------------------------------------------------------
(* S3Download *)

\* A request that waited opens the file again, or is answered.
Resumed(q, result) ==
  IF result = "ok" THEN [q EXCEPT !.at = "retry"]
                   ELSE [q EXCEPT !.at = "answered", !.answer = result]

\* The download ends and everybody who waits for it goes on.
Lands(n, result) ==
  /\ flight' = [flight EXCEPT ![n] = "none"]
  /\ get' = [g \in Get |-> IF get[g].at = "wait" /\ get[g].name = n
                           THEN Resumed(get[g], result) ELSE get[g]]

Remembered(n) ==
  /\ flight[n] = "started" /\ n \in notFound
  /\ Lands(n, "not found")
  /\ UNCHANGED <<files, objects, notFound, upload, given>>

\* Mutant of CreateTmp: the file is written under its own name.
CreateNoTmp(n) ==
  /\ flight[n] = "started" /\ n \notin notFound
  /\ flight' = [flight EXCEPT ![n] = "downloading"]
  /\ disk' = [disk EXCEPT ![n] = "part"]
  /\ UNCHANGED <<tmp, objects, notFound, upload, get, given, damaged>>

\* A temporary file that an earlier download has left is removed.
CreateTmp(n) ==
  /\ flight[n] = "started" /\ n \notin notFound
  /\ flight' = [flight EXCEPT ![n] = "downloading"]
  /\ tmp' = [tmp EXCEPT ![n] = "part"]
  /\ UNCHANGED <<disk, objects, notFound, upload, get, given, damaged>>

Download(n) ==
  /\ flight[n] = "downloading" /\ n \in objects
  /\ flight' = [flight EXCEPT ![n] = "renaming"]
  /\ tmp' = [tmp EXCEPT ![n] = "whole"]
  /\ UNCHANGED <<disk, objects, notFound, upload, get, given, damaged>>

\* NoSuchKey.
NoSuchKey(n) ==
  /\ flight[n] = "downloading" /\ n \notin objects
  /\ tmp' = [tmp EXCEPT ![n] = "absent"]
  /\ notFound' = notFound \cup {n}
  /\ Lands(n, "not found")
  /\ UNCHANGED <<disk, objects, upload, given, damaged>>

Rename(n) ==
  /\ flight[n] = "renaming"
  /\ disk' = [disk EXCEPT ![n] = tmp[n]] /\ tmp' = [tmp EXCEPT ![n] = "absent"]
  /\ Lands(n, "ok")
  /\ UNCHANGED <<objects, notFound, upload, given, damaged>>

\* Any other error of the disk or of S3 leaves the temporary file behind.
DownloadFails(n) ==
  /\ flight[n] # "none"
  /\ Lands(n, "error")
  /\ UNCHANGED <<files, objects, notFound, upload, given>>

-----------------------------------------------------------------------------
\* The process is killed and started again, on its disk or in a new container:
\* what was under way is over, and nothing is remembered.
Restart ==
  /\ upload' = [n \in Upload |->
                  IF upload[n] \in {"created", "written"} THEN "failed" ELSE upload[n]]
  /\ flight' = [n \in Name |-> "none"] /\ notFound' = {}
  /\ get' = [g \in Get |-> NoGet]
  /\ \/ UNCHANGED files
     \/ /\ DiskIsLost
        /\ disk' = [n \in Name |-> "absent"] /\ tmp' = disk' /\ damaged' = {}
  /\ UNCHANGED <<objects, given>>

Next ==
  \/ \E n \in Upload :
       UploadCreates(n) \/ UploadWrites(n) \/ UploadStores(n) \/ UploadFails(n)
  \/ \E g \in Get :
       \/ \E n \in Name : Ask(g, n)
       \/ Found(g) \/ Missing(g) \/ StillMissing(g) \/ GetFails(g) \/ Done(g)
  \/ \E n \in Name :
       \/ Remembered(n) \/ CreateTmp(n) \/ Download(n) \/ NoSuchKey(n)
       \/ Rename(n) \/ DownloadFails(n)
  \/ Restart

Spec == Init /\ [][Next]_vars

-----------------------------------------------------------------------------
(* Properties *)

TypeOK ==
  /\ disk \in [Name -> File] /\ tmp \in [Name -> File]
  /\ objects \subseteq Upload /\ given \subseteq Upload /\ damaged \subseteq Upload
  /\ notFound \subseteq Name
  /\ flight \in [Name -> {"none", "started", "downloading", "renaming"}]
  /\ upload \in [Upload -> {"new", "created", "written", "stored", "failed"}]
  /\ get \in [Get -> [name : Name \cup {None},
                      at : {"idle", "open", "wait", "retry", "answered"},
                      answer : {"part", "whole", "not found", "error", None}]]

\* Whatever downloads, failures and restarts overlap, nobody is sent a part of
\* a file, save of one that could not be closed.
ServedIsWhole ==
  \A g \in Get : get[g].answer = "part" => get[g].name \in damaged

\* Who was given a name is never told that the file does not exist: no restart
\* loses it, and it is not remembered as missing.
UrlStaysGood ==
  \A g \in Get : get[g].answer = "not found" => get[g].name \notin given

\* Both, of the files upload-service sends: none is a part, none that was given is missing.
UploadsServed == ServedIsWhole /\ UrlStaysGood
=============================================================================
