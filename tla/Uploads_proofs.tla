--------------------------- MODULE Uploads_proofs ---------------------------
(***************************************************************************)
(* Proof that nobody is sent a part of an image, and that a name an upload *)
(* was given stays good: for any uploads, requests that share downloads,   *)
(* failures and restarts, with S3 and without it.                          *)
(***************************************************************************)
EXTENDS Uploads, TLAPS

\* Random names hit no name that was made up, and None is no answer.
NamesAreRandom ==
  Upload \cap Wrong = {} /\ None \notin {"part", "whole", "not found", "error"}

\* Without S3 the disk of the process has to be kept.
FilesAreKept == UseS3 \/ ~DiskIsLost

\* What an upload leaves on the disk: a part of a file is of an upload that has not
\* answered, or could not be closed.
FilesSound ==
  /\ \A n \in Upload : n \in given <=> upload[n] = "stored"
  /\ UseS3 => given \subseteq objects
  /\ \A n \in Name : disk[n] = "part" =>
       n \in Upload /\ (upload[n] \in {"created", "failed"} \/ n \in damaged)
  /\ \A n \in Upload :
       upload[n] \in {"created", "written"} \/ (n \in given /\ ~DiskIsLost) => disk[n] # "absent"

\* Only names that can be asked for are downloaded, what is renamed is complete, and
\* no name that was given is remembered as missing.
DownloadsSound ==
  /\ \A n \in Name : flight[n] # "none" => UseS3 /\ n \in given \cup Wrong
  /\ \A n \in Name : flight[n] = "renaming" => tmp[n] = "whole"
  /\ notFound \subseteq Wrong

\* A request asks for a name that was given, or for none there is.
RequestsSound ==
  \A g \in Get :
    /\ get[g].at # "idle" => get[g].name \in given \cup Wrong
    /\ get[g].at # "answered" => get[g].answer = None
    /\ get[g].at = "retry" => disk[get[g].name] # "absent"

\* Who is told that a file does not exist has made up the name.
MissingAreWrong ==
  FilesAreKept => \A g \in Get : get[g].answer = "not found" => get[g].name \in Wrong

\* The inductive invariant.
UploadsIInv ==
  TypeOK /\ FilesSound /\ DownloadsSound /\ RequestsSound /\ MissingAreWrong /\ ServedIsWhole

LEMMA InitUploads == NamesAreRandom /\ Init => UploadsIInv
<1> SUFFICES ASSUME NamesAreRandom, Init PROVE UploadsIInv
  OBVIOUS
<1>1. TypeOK
  BY DEF Init, TypeOK, File, NoGet
<1>2. FilesSound /\ DownloadsSound
  BY DEF Init, FilesSound, DownloadsSound
<1>3. RequestsSound /\ MissingAreWrong /\ ServedIsWhole
  BY DEF Init, RequestsSound, MissingAreWrong, ServedIsWhole, NoGet, NamesAreRandom
<1>. QED BY <1>1, <1>2, <1>3 DEF UploadsIInv

-----------------------------------------------------------------------------
(* Uploads *)

\* Files and objects change, requests and downloads do not.
LEMMA UploadMoves ==
  ASSUME UploadsIInv, UNCHANGED <<tmp, notFound, flight, get>>,
         disk' \in [Name -> File], objects' \subseteq Upload, given' \subseteq Upload,
         damaged' \subseteq Upload,
         upload' \in [Upload -> {"new", "created", "written", "stored", "failed"}],
         FilesSound', given \subseteq given', damaged \subseteq damaged',
         \A n \in Name : disk[n] # "absent" => disk'[n] # "absent"
  PROVE  UploadsIInv'
<1> USE DEF UploadsIInv
<1>1. TypeOK'
  BY DEF TypeOK
<1>2. DownloadsSound'
  BY DEF DownloadsSound
<1>3. RequestsSound'
  BY DEF RequestsSound, TypeOK, Name
<1>4. MissingAreWrong' /\ ServedIsWhole'
  BY DEF MissingAreWrong, ServedIsWhole
<1>. QED BY <1>1, <1>2, <1>3, <1>4

LEMMA UploadFailsIInv ==
  ASSUME UploadsIInv, NEW n \in Upload, UploadFails(n)
  PROVE  UploadsIInv'
<1> USE DEF UploadsIInv
<1>1. /\ upload[n] \in {"created", "written"} /\ upload' = [upload EXCEPT ![n] = "failed"]
      /\ UNCHANGED <<disk, tmp, damaged, notFound, flight, get, given>>
      /\ objects \subseteq objects' /\ objects' \subseteq Upload
  BY DEF UploadFails, files, TypeOK
<1>2. upload' \in [Upload -> {"new", "created", "written", "stored", "failed"}]
  BY <1>1 DEF TypeOK
<1>3. FilesSound'
  BY <1>1 DEF FilesSound, TypeOK
<1>. QED BY <1>1, <1>2, <1>3, UploadMoves DEF TypeOK

LEMMA UploadCreatesIInv ==
  ASSUME UploadsIInv, NEW n \in Upload, UploadCreates(n)
  PROVE  UploadsIInv'
<1> USE DEF UploadsIInv
<1>1. /\ upload[n] = "new" /\ upload' = [upload EXCEPT ![n] = "created"]
      /\ disk' = [disk EXCEPT ![n] = "part"]
      /\ UNCHANGED <<tmp, objects, notFound, flight, get, given, damaged>>
  BY DEF UploadCreates
<1>2. n \in Name /\ disk' \in [Name -> File]
  BY <1>1 DEF TypeOK, Name, File
<1>3. upload' \in [Upload -> {"new", "created", "written", "stored", "failed"}]
  BY <1>1 DEF TypeOK
<1>4. FilesSound'
  <2>1. /\ upload'[n] = "created" /\ \A m \in Upload \ {n} : upload'[m] = upload[m]
        /\ disk'[n] = "part" /\ \A m \in Name \ {n} : disk'[m] = disk[m]
    BY <1>1, <1>2 DEF TypeOK
  <2>2. \A m \in Upload : m \in given <=> upload'[m] = "stored"
    BY <1>1, <2>1 DEF FilesSound
  <2>. QED BY <1>1, <1>2, <2>1, <2>2 DEF FilesSound, Name
<1>5. \A m \in Name : disk[m] # "absent" => disk'[m] # "absent"
  BY <1>1, <1>2 DEF TypeOK
<1>. QED BY <1>1, <1>2, <1>3, <1>4, <1>5, UploadMoves DEF TypeOK

LEMMA UploadWritesIInv ==
  ASSUME UploadsIInv, NEW n \in Upload, UploadWrites(n)
  PROVE  UploadsIInv'
<1> USE DEF UploadsIInv
<1>1. /\ upload[n] = "created" /\ upload' = [upload EXCEPT ![n] = "written"]
      /\ UNCHANGED <<tmp, objects, notFound, flight, get, given>>
      /\ \/ disk' = [disk EXCEPT ![n] = "whole"] /\ UNCHANGED damaged
         \/ damaged' = damaged \cup {n} /\ UNCHANGED disk
  BY DEF UploadWrites
<1>2. n \in Name /\ disk' \in [Name -> File] /\ damaged' \subseteq Upload
  BY <1>1 DEF TypeOK, Name, File
<1>3. upload' \in [Upload -> {"new", "created", "written", "stored", "failed"}]
  BY <1>1 DEF TypeOK
<1>4. FilesSound'
  BY <1>1, <1>2 DEF FilesSound, TypeOK, Name
<1>5. \A m \in Name : disk[m] # "absent" => disk'[m] # "absent"
  BY <1>1, <1>2 DEF TypeOK
<1>. QED BY <1>1, <1>2, <1>3, <1>4, <1>5, UploadMoves DEF TypeOK

LEMMA UploadStoresIInv ==
  ASSUME UploadsIInv, NEW n \in Upload, UploadStores(n)
  PROVE  UploadsIInv'
<1> USE DEF UploadsIInv
<1>1. /\ upload[n] = "written" /\ upload' = [upload EXCEPT ![n] = "stored"]
      /\ objects' = (IF UseS3 THEN objects \cup {n} ELSE objects)
      /\ given' = given \cup {n}
      /\ UNCHANGED <<disk, tmp, damaged, notFound, flight, get>>
  BY DEF UploadStores, files
<1>2. objects' \subseteq Upload /\ given' \subseteq Upload
  BY <1>1 DEF TypeOK
<1>3. upload' \in [Upload -> {"new", "created", "written", "stored", "failed"}]
  BY <1>1 DEF TypeOK
<1>4. FilesSound'
  BY <1>1 DEF FilesSound, TypeOK
<1>. QED BY <1>1, <1>2, <1>3, <1>4, UploadMoves DEF TypeOK

-----------------------------------------------------------------------------
(* Requests *)

GetRequest == [name : Name \cup {None},
               at : {"idle", "open", "wait", "retry", "answered"},
               answer : {"part", "whole", "not found", "error", None}]

\* One request moves; a download may be started for it.
LEMMA RequestMoves ==
  ASSUME UploadsIInv, NEW g \in Get, NEW q \in GetRequest, get' = [get EXCEPT ![g] = q],
         UNCHANGED <<files, objects, notFound, upload, given>>,
         flight' \in [Name -> {"none", "started", "downloading", "renaming"}],
         \A n \in Name : /\ flight'[n] # "none" => UseS3 /\ n \in given \cup Wrong
                         /\ flight'[n] = "renaming" => flight[n] = "renaming",
         q.at # "idle" => q.name \in given \cup Wrong,
         q.at # "answered" => q.answer = None,
         q.at # "retry",
         FilesAreKept /\ q.answer = "not found" => q.name \in Wrong,
         q.answer = "part" => q.name \in damaged
  PROVE  UploadsIInv'
<1> USE DEF UploadsIInv
<1>1. /\ get'[g] = q /\ \A h \in Get \ {g} : get'[h] = get[h]
      /\ get' \in [Get -> GetRequest]
      /\ UNCHANGED <<disk, tmp, damaged>>
  BY DEF TypeOK, GetRequest, files
<1>2. TypeOK'
  BY <1>1 DEF TypeOK, GetRequest
<1>3. FilesSound' /\ DownloadsSound'
  BY <1>1 DEF FilesSound, DownloadsSound
<1>4. RequestsSound'
  BY <1>1 DEF RequestsSound
<1>5. MissingAreWrong' /\ ServedIsWhole'
  BY <1>1 DEF MissingAreWrong, ServedIsWhole
<1>. QED BY <1>2, <1>3, <1>4, <1>5

\* A request is answered.
LEMMA AnswerIInv ==
  ASSUME UploadsIInv, NEW g \in Get, NEW answer \in {"part", "whole", "not found", "error"},
         get[g].at # "idle", Answer(g, answer),
         UNCHANGED <<files, objects, notFound, flight, upload, given>>,
         FilesAreKept /\ answer = "not found" => get[g].name \in Wrong,
         answer = "part" => get[g].name \in damaged
  PROVE  UploadsIInv'
<1> DEFINE q == [get[g] EXCEPT !.at = "answered", !.answer = answer]
<1>1. get[g] \in GetRequest
  BY DEF UploadsIInv, TypeOK, GetRequest
<1>2. /\ q \in GetRequest /\ q.at = "answered" /\ q.answer = answer /\ q.name = get[g].name
  BY <1>1 DEF GetRequest
<1>3. get' = [get EXCEPT ![g] = q]
  BY DEF Answer
<1>4. q.name \in given \cup Wrong
  BY <1>2 DEF UploadsIInv, RequestsSound
<1>5. /\ flight' \in [Name -> {"none", "started", "downloading", "renaming"}]
      /\ \A n \in Name : /\ flight'[n] # "none" => UseS3 /\ n \in given \cup Wrong
                         /\ flight'[n] = "renaming" => flight[n] = "renaming"
  BY DEF UploadsIInv, TypeOK, DownloadsSound
<1> HIDE DEF q
<1>. QED BY <1>2, <1>3, <1>4, <1>5, RequestMoves

LEMMA AskIInv ==
  ASSUME UploadsIInv, NamesAreRandom, NEW g \in Get, NEW n \in Name, Ask(g, n)
  PROVE  UploadsIInv'
<1> DEFINE q == [get[g] EXCEPT !.name = n, !.at = "open"]
<1>1. get[g] \in GetRequest
  BY DEF UploadsIInv, TypeOK, GetRequest
<1>2. /\ get[g].answer = None /\ n \in given \cup Wrong
  BY DEF UploadsIInv, RequestsSound, Ask
<1>3. /\ q \in GetRequest /\ q.at = "open" /\ q.answer = None /\ q.name = n
  BY <1>1, <1>2 DEF GetRequest
<1>4. get' = [get EXCEPT ![g] = q] /\ UNCHANGED <<files, objects, notFound, flight, upload, given>>
  BY DEF Ask
<1>5. /\ flight' \in [Name -> {"none", "started", "downloading", "renaming"}]
      /\ \A m \in Name : /\ flight'[m] # "none" => UseS3 /\ m \in given \cup Wrong
                         /\ flight'[m] = "renaming" => flight[m] = "renaming"
  BY <1>4 DEF UploadsIInv, TypeOK, DownloadsSound
<1> HIDE DEF q
<1>6. /\ FilesAreKept /\ q.answer = "not found" => q.name \in Wrong
      /\ q.answer = "part" => q.name \in damaged
  BY <1>3 DEF NamesAreRandom
<1>. QED BY <1>2, <1>3, <1>4, <1>5, <1>6, RequestMoves

LEMMA FoundIInv ==
  ASSUME UploadsIInv, NamesAreRandom, NEW g \in Get, Found(g)
  PROVE  UploadsIInv'
<1> DEFINE n == get[g].name
<1>1. /\ get[g].at \in {"open", "retry"} /\ disk[n] # "absent" /\ Answer(g, disk[n])
      /\ UNCHANGED <<files, objects, notFound, flight, upload, given>>
  BY DEF Found
<1>2. n \in given \cup Wrong /\ n \in Name /\ disk[n] \in {"part", "whole"}
  BY <1>1 DEF UploadsIInv, TypeOK, RequestsSound, Name, File
<1>3. disk[n] = "part" => n \in damaged
  BY <1>2 DEF UploadsIInv, FilesSound, NamesAreRandom
<1>. QED BY <1>1, <1>2, <1>3, AnswerIInv

LEMMA MissingIInv ==
  ASSUME UploadsIInv, NamesAreRandom, NEW g \in Get, Missing(g)
  PROVE  UploadsIInv'
<1> DEFINE q == [get[g] EXCEPT !.at = "wait"]
           n == get[g].name
<1>1. get[g] \in GetRequest
  BY DEF UploadsIInv, TypeOK, GetRequest
<1>2. /\ get[g].answer = None /\ n \in given \cup Wrong /\ UseS3
  BY DEF UploadsIInv, RequestsSound, Missing
<1>3. /\ q \in GetRequest /\ q.at = "wait" /\ q.answer = None /\ q.name = n
  BY <1>1, <1>2 DEF GetRequest
<1>4. get' = [get EXCEPT ![g] = q] /\ UNCHANGED <<files, objects, notFound, upload, given>>
  BY DEF Missing
<1>5. /\ flight' \in [Name -> {"none", "started", "downloading", "renaming"}]
      /\ \A m \in Name : /\ flight'[m] # "none" => m = n \/ flight[m] # "none"
                         /\ flight'[m] = "renaming" => flight[m] = "renaming"
  <2>1. flight' = [flight EXCEPT ![n] = IF flight[n] = "none" THEN "started" ELSE flight[n]]
    BY DEF Missing
  <2>. QED BY <2>1 DEF UploadsIInv, TypeOK
<1>6. \A m \in Name : flight'[m] # "none" => UseS3 /\ m \in given \cup Wrong
  BY <1>2, <1>5 DEF UploadsIInv, DownloadsSound
<1> HIDE DEF q
<1>7. /\ FilesAreKept /\ q.answer = "not found" => q.name \in Wrong
      /\ q.answer = "part" => q.name \in damaged
  BY <1>3 DEF NamesAreRandom
<1>. QED BY <1>2, <1>3, <1>4, <1>5, <1>6, <1>7, RequestMoves

\* A name that was given is on the disk after a download, and without S3 always.
LEMMA StillMissingIInv ==
  ASSUME UploadsIInv, NEW g \in Get, StillMissing(g)
  PROVE  UploadsIInv'
<1> DEFINE n == get[g].name
<1>1. /\ get[g].at = "retry" \/ (get[g].at = "open" /\ ~UseS3)
      /\ disk[n] = "absent" /\ Answer(g, "not found")
      /\ UNCHANGED <<files, objects, notFound, flight, upload, given>>
  BY DEF StillMissing
<1>2. get[g].at = "open" /\ ~UseS3 /\ n \in given \cup Wrong
  BY <1>1 DEF UploadsIInv, RequestsSound
<1>3. FilesAreKept => n \in Wrong
  BY <1>1, <1>2 DEF UploadsIInv, TypeOK, FilesSound, FilesAreKept
<1>. QED BY <1>1, <1>2, <1>3, AnswerIInv

LEMMA GetFailsIInv ==
  ASSUME UploadsIInv, NEW g \in Get, GetFails(g)
  PROVE  UploadsIInv'
BY AnswerIInv DEF GetFails

LEMMA DoneIInv ==
  ASSUME UploadsIInv, NamesAreRandom, NEW g \in Get, Done(g)
  PROVE  UploadsIInv'
<1>1. get' = [get EXCEPT ![g] = NoGet] /\ UNCHANGED <<files, objects, notFound, flight, upload, given>>
  BY DEF Done
<1>2. NoGet \in GetRequest /\ NoGet.at = "idle" /\ NoGet.answer = None
  BY DEF NoGet, GetRequest
<1>3. /\ flight' \in [Name -> {"none", "started", "downloading", "renaming"}]
      /\ \A m \in Name : /\ flight'[m] # "none" => UseS3 /\ m \in given \cup Wrong
                         /\ flight'[m] = "renaming" => flight[m] = "renaming"
  BY <1>1 DEF UploadsIInv, TypeOK, DownloadsSound
<1>4. NoGet.answer \notin {"part", "not found"}
  BY <1>2 DEF NamesAreRandom
<1>. QED BY <1>1, <1>2, <1>3, <1>4, RequestMoves

-----------------------------------------------------------------------------
(* Downloads *)

\* Those who wait for a download go on to open the file, or are answered.
Landed(n, result) ==
  /\ get' \in [Get -> GetRequest]
  /\ \A g \in Get :
       \/ get'[g] = get[g]
       \/ /\ get[g].at = "wait" /\ get[g].name = n /\ get'[g].name = n
          /\ \/ result = "ok" /\ get'[g].at = "retry" /\ get'[g].answer = get[g].answer
             \/ result # "ok" /\ get'[g].at = "answered" /\ get'[g].answer = result

LEMMA LandsRequests ==
  ASSUME TypeOK, NEW n \in Name, NEW result \in {"ok", "not found", "error"}, Lands(n, result)
  PROVE  Landed(n, result)
<1>1. ASSUME NEW g \in Get
      PROVE  /\ get'[g] \in GetRequest
             /\ \/ get'[g] = get[g]
                \/ /\ get[g].at = "wait" /\ get[g].name = n /\ get'[g].name = n
                   /\ \/ result = "ok" /\ get'[g].at = "retry" /\ get'[g].answer = get[g].answer
                      \/ result # "ok" /\ get'[g].at = "answered" /\ get'[g].answer = result
  <2>1. get[g] \in GetRequest
    BY DEF TypeOK, GetRequest
  <2>2. CASE ~(get[g].at = "wait" /\ get[g].name = n)
    <3>1. get'[g] = get[g]
      BY <2>2 DEF Lands
    <3>. QED BY <2>1, <3>1
  <2>3. CASE get[g].at = "wait" /\ get[g].name = n /\ result = "ok"
    <3>1. get'[g] = [get[g] EXCEPT !.at = "retry"]
      BY <2>3 DEF Lands, Resumed
    <3>. QED BY <2>1, <2>3, <3>1 DEF GetRequest
  <2>4. CASE get[g].at = "wait" /\ get[g].name = n /\ result # "ok"
    <3>1. get'[g] = [get[g] EXCEPT !.at = "answered", !.answer = result]
      BY <2>4 DEF Lands, Resumed
    <3>. QED BY <2>1, <2>4, <3>1 DEF GetRequest
  <2>. QED BY <2>2, <2>3, <2>4
<1>2. get' = [g \in Get |-> get'[g]]
  BY DEF Lands
<1>. QED BY <1>1, <1>2 DEF Landed

LEMMA LandsIInv ==
  ASSUME UploadsIInv, NEW n \in Name, NEW result \in {"ok", "not found", "error"},
         Lands(n, result), UNCHANGED <<objects, upload, given, damaged>>,
         disk' \in [Name -> File], tmp' \in [Name -> File],
         \A m \in Name : disk'[m] = disk[m] \/ disk'[m] = "whole",
         \A m \in Name \ {n} : tmp'[m] = tmp[m],
         notFound' \subseteq Wrong, Wrong \subseteq Name,
         result = "ok" => disk'[n] # "absent",
         result = "not found" => n \in Wrong
  PROVE  UploadsIInv'
<1> USE DEF UploadsIInv
<1>1. flight' = [flight EXCEPT ![n] = "none"] /\ Landed(n, result)
  BY LandsRequests DEF Lands
<1>2. TypeOK'
  BY <1>1 DEF TypeOK, GetRequest, Landed
<1>3. FilesSound'
  BY DEF FilesSound, Name
<1>4. DownloadsSound'
  BY <1>1 DEF DownloadsSound, TypeOK
<1>5. RequestsSound'
  <2>1. ASSUME NEW g \in Get
        PROVE  /\ get'[g].at # "idle" => get'[g].name \in given \cup Wrong
               /\ get'[g].at # "answered" => get'[g].answer = None
               /\ get'[g].at = "retry" => disk'[get'[g].name] # "absent"
    <3>1. CASE get'[g] = get[g]
      <4>1. get[g].at = "retry" => get[g].name \in Name
        BY DEF RequestsSound, TypeOK, Name
      <4>. QED BY <3>1, <4>1 DEF RequestsSound
    <3>2. CASE get'[g] # get[g]
      BY <1>1, <3>2 DEF RequestsSound, Landed
    <3>. QED BY <3>1, <3>2
  <2>. QED BY <2>1 DEF RequestsSound
<1>6. MissingAreWrong'
  BY <1>1 DEF MissingAreWrong, RequestsSound, Landed
<1>7. ServedIsWhole'
  BY <1>1 DEF ServedIsWhole, RequestsSound, Landed
<1>. QED BY <1>2, <1>3, <1>4, <1>5, <1>6, <1>7

LEMMA RememberedIInv ==
  ASSUME UploadsIInv, NEW n \in Name, Remembered(n)
  PROVE  UploadsIInv'
<1>1. /\ Lands(n, "not found") /\ UNCHANGED <<objects, upload, given, damaged, disk, tmp, notFound>>
      /\ n \in Wrong /\ notFound \subseteq Wrong
  BY DEF Remembered, files, UploadsIInv, DownloadsSound
<1>2. disk' \in [Name -> File] /\ tmp' \in [Name -> File] /\ Wrong \subseteq Name
  BY <1>1 DEF UploadsIInv, TypeOK, Name
<1>. QED BY <1>1, <1>2, LandsIInv

\* S3 has every name that was given, so what it does not have was made up.
LEMMA NoSuchKeyIInv ==
  ASSUME UploadsIInv, NEW n \in Name, NoSuchKey(n)
  PROVE  UploadsIInv'
<1>1. /\ Lands(n, "not found") /\ UNCHANGED <<objects, upload, given, damaged, disk>>
      /\ flight[n] = "downloading" /\ n \notin objects
      /\ tmp' = [tmp EXCEPT ![n] = "absent"] /\ notFound' = notFound \cup {n}
  BY DEF NoSuchKey
<1>2. n \in Wrong
  BY <1>1 DEF UploadsIInv, DownloadsSound, FilesSound
<1>3. /\ disk' \in [Name -> File] /\ tmp' \in [Name -> File] /\ Wrong \subseteq Name
      /\ \A m \in Name \ {n} : tmp'[m] = tmp[m]
      /\ notFound' \subseteq Wrong
  BY <1>1, <1>2 DEF UploadsIInv, TypeOK, Name, File, DownloadsSound
<1>. QED BY <1>1, <1>2, <1>3, LandsIInv

LEMMA RenameIInv ==
  ASSUME UploadsIInv, NEW n \in Name, Rename(n)
  PROVE  UploadsIInv'
<1>1. /\ Lands(n, "ok") /\ UNCHANGED <<objects, upload, given, damaged, notFound>>
      /\ disk' = [disk EXCEPT ![n] = "whole"] /\ tmp' = [tmp EXCEPT ![n] = "absent"]
  BY DEF Rename, UploadsIInv, DownloadsSound
<1>2. /\ disk' \in [Name -> File] /\ tmp' \in [Name -> File] /\ Wrong \subseteq Name
      /\ \A m \in Name : disk'[m] = disk[m] \/ disk'[m] = "whole"
      /\ \A m \in Name \ {n} : tmp'[m] = tmp[m]
      /\ disk'[n] # "absent" /\ notFound' \subseteq Wrong
  BY <1>1 DEF UploadsIInv, TypeOK, Name, File, DownloadsSound
<1>. QED BY <1>1, <1>2, LandsIInv

LEMMA DownloadFailsIInv ==
  ASSUME UploadsIInv, NEW n \in Name, DownloadFails(n)
  PROVE  UploadsIInv'
<1>1. Lands(n, "error") /\ UNCHANGED <<objects, upload, given, damaged, disk, tmp, notFound>>
  BY DEF DownloadFails, files
<1>2. /\ disk' \in [Name -> File] /\ tmp' \in [Name -> File] /\ Wrong \subseteq Name
      /\ notFound' \subseteq Wrong
  BY <1>1 DEF UploadsIInv, TypeOK, Name, DownloadsSound
<1>. QED BY <1>1, <1>2, LandsIInv

\* The download goes on in the temporary file.
LEMMA DownloadMovesIInv ==
  ASSUME UploadsIInv, NEW n \in Name, CreateTmp(n) \/ Download(n)
  PROVE  UploadsIInv'
<1> USE DEF UploadsIInv
<1>1. /\ UNCHANGED <<disk, objects, notFound, upload, get, given, damaged>>
      /\ flight[n] # "none"
      /\ \/ /\ flight' = [flight EXCEPT ![n] = "downloading"]
            /\ tmp' = [tmp EXCEPT ![n] = "part"]
         \/ /\ flight' = [flight EXCEPT ![n] = "renaming"]
            /\ tmp' = [tmp EXCEPT ![n] = "whole"]
  BY DEF CreateTmp, Download
<1>2. TypeOK'
  BY <1>1 DEF TypeOK, File
<1>3. FilesSound' /\ RequestsSound' /\ MissingAreWrong' /\ ServedIsWhole'
  BY <1>1 DEF FilesSound, RequestsSound, MissingAreWrong, ServedIsWhole
<1>4. DownloadsSound'
  BY <1>1 DEF DownloadsSound, TypeOK
<1>. QED BY <1>2, <1>3, <1>4

\* After a restart nobody waits for anything, whether or not the disk was kept.
LEMMA RestartIInv ==
  ASSUME UploadsIInv, NamesAreRandom, Restart
  PROVE  UploadsIInv'
<1> USE DEF UploadsIInv
<1>1. /\ upload' = [n \in Upload |->
                      IF upload[n] \in {"created", "written"} THEN "failed" ELSE upload[n]]
      /\ flight' = [n \in Name |-> "none"] /\ notFound' = {}
      /\ get' = [g \in Get |-> NoGet] /\ UNCHANGED <<objects, given>>
      /\ \/ UNCHANGED <<disk, tmp, damaged>>
         \/ /\ DiskIsLost
            /\ disk' = [n \in Name |-> "absent"] /\ tmp' = disk' /\ damaged' = {}
  BY DEF Restart, files
<1>2. NoGet \in GetRequest
  BY DEF NoGet, GetRequest
<1>3. TypeOK'
  BY <1>1, <1>2 DEF TypeOK, File, GetRequest
<1>4. FilesSound'
  BY <1>1 DEF FilesSound, TypeOK, Name
<1>5. DownloadsSound'
  BY <1>1 DEF DownloadsSound
<1>6. RequestsSound' /\ MissingAreWrong' /\ ServedIsWhole'
  BY <1>1 DEF RequestsSound, MissingAreWrong, ServedIsWhole, NoGet, NamesAreRandom
<1>. QED BY <1>3, <1>4, <1>5, <1>6

-----------------------------------------------------------------------------
(* The invariant *)

LEMMA NextUploads == NamesAreRandom /\ UploadsIInv /\ [Next]_vars => UploadsIInv'
<1> SUFFICES ASSUME NamesAreRandom, UploadsIInv, [Next]_vars PROVE UploadsIInv'
  OBVIOUS
<1>1. CASE UNCHANGED vars
  BY <1>1 DEF vars, UploadsIInv, TypeOK, FilesSound, DownloadsSound, RequestsSound,
              MissingAreWrong, ServedIsWhole
<1>2. ASSUME NEW n \in Upload,
             UploadCreates(n) \/ UploadWrites(n) \/ UploadStores(n) \/ UploadFails(n)
      PROVE  UploadsIInv'
  BY <1>2, UploadCreatesIInv, UploadWritesIInv, UploadStoresIInv, UploadFailsIInv
<1>3. ASSUME NEW g \in Get, NEW n \in Name, Ask(g, n) PROVE UploadsIInv'
  BY <1>3, AskIInv
<1>4. ASSUME NEW g \in Get,
             Found(g) \/ Missing(g) \/ StillMissing(g) \/ GetFails(g) \/ Done(g)
      PROVE  UploadsIInv'
  BY <1>4, FoundIInv, MissingIInv, StillMissingIInv, GetFailsIInv, DoneIInv
<1>5. ASSUME NEW n \in Name,
             \/ Remembered(n) \/ CreateTmp(n) \/ Download(n) \/ NoSuchKey(n)
             \/ Rename(n) \/ DownloadFails(n)
      PROVE  UploadsIInv'
  BY <1>5, RememberedIInv, DownloadMovesIInv, NoSuchKeyIInv, RenameIInv, DownloadFailsIInv
<1>6. CASE Restart
  BY <1>6, RestartIInv
<1>. QED BY <1>1, <1>2, <1>3, <1>4, <1>5, <1>6 DEF Next

LEMMA UploadsInvariant == NamesAreRandom => (Spec => []UploadsIInv)
<1> SUFFICES ASSUME NamesAreRandom PROVE Spec => []UploadsIInv
  OBVIOUS
<1>1. Init => UploadsIInv
  BY InitUploads
<1>2. UploadsIInv /\ [Next]_vars => UploadsIInv'
  BY NextUploads
<1>. QED BY <1>1, <1>2, PTL DEF Spec

\* Files, uploads, downloads and requests of upload-service have their types.
THEOREM UploadsTypeCorrect == NamesAreRandom => (Spec => []TypeOK)
<1>1. UploadsIInv => TypeOK
  BY DEF UploadsIInv
<1>. QED BY <1>1, UploadsInvariant, PTL

\* Nobody is sent a part of a file, save of one that could not be closed, with S3 or
\* without it, whether the disk is kept or lost (HandleGetFile, S3Download).
THEOREM FilesAreWhole == NamesAreRandom => (Spec => []ServedIsWhole)
<1>1. UploadsIInv => ServedIsWhole
  BY DEF UploadsIInv
<1>. QED BY <1>1, UploadsInvariant, PTL

\* With S3, or on a disk that is kept, besides, a name an upload has answered with is
\* never said not to exist.
THEOREM UrlsServed == NamesAreRandom /\ FilesAreKept => (Spec => []UploadsServed)
<1> SUFFICES ASSUME NamesAreRandom, FilesAreKept PROVE Spec => []UploadsServed
  OBVIOUS
<1>1. UploadsIInv => UploadsServed
  BY DEF UploadsIInv, TypeOK, MissingAreWrong, UploadsServed, ServedIsWhole, UrlStaysGood,
         NamesAreRandom
<1>. QED BY <1>1, UploadsInvariant, PTL
==============================================================================
