------------------------ MODULE PagesLive_proofs ------------------------
(***************************************************************************)
(* Proof that no receiver is sent a message twice and that nothing is lost *)
(* while the notification service is up: for any messages, receivers,      *)
(* refusals of the broker and the providers, and ends of the process.      *)
(* Then the theorems of Uploads_proofs are carried over to the two         *)
(* instances of upload-service in MCPagesLive.  The last part is about the *)
(* dashboards of any drivers: their types, and that a reported pickup is   *)
(* in the list; then come the types of the whole MCPagesLive.              *)
(***************************************************************************)
EXTENDS MCPagesLive, SequenceTheorems, TLAPS

\* Nothing was sent of message m and nothing is being sent.
Untouched(m) == \A r \in to[m] : <<m, r>> \notin sending /\ sent[<<m, r>>] = 0

\* A message is in one place of the queue, then handled, then sent to each receiver:
\* it never goes back to an earlier place.
StagesSound ==
  /\ \A i, j \in 1..Len(queue) : queue[i] = queue[j] => i = j
  /\ \A m \in Queued : m \notin handling /\ Untouched(m)
  /\ \A m \in handling : Untouched(m)
  /\ \A m \in Message \ published : Untouched(m)
  /\ \A c \in sending : sent[c] = 0

\* The inductive invariant.
NotificationsIInv == TypeOK /\ StagesSound /\ NotSentTwice /\ NothingLostWhileUp

LEMMA InitNotifications == Init => NotificationsIInv
<1> SUFFICES ASSUME Init PROVE NotificationsIInv
  OBVIOUS
<1>1. queue \in Seq(published) /\ Len(queue) = 0 /\ Queued = {}
  BY EmptySeq DEF Init, Queued, Range
<1>2. TypeOK
  BY <1>1, NotificationsAssumption DEF Init, TypeOK
<1>3. \A m \in Message : Untouched(m)
  <2>1. \A m \in Message : \A r \in to[m] : <<m, r>> \in Call
    BY NotificationsAssumption DEF Call
  <2>. QED BY <2>1 DEF Init, Untouched
<1>4. StagesSound /\ NotSentTwice /\ NothingLostWhileUp
  BY <1>1, <1>3 DEF Init, StagesSound, NotSentTwice, NothingLostWhileUp
<1>. QED BY <1>2, <1>4 DEF NotificationsIInv

-----------------------------------------------------------------------------
(* The queue *)

LEMMA QueuedPublished ==
  ASSUME TypeOK
  PROVE  /\ Queued = {queue[i] : i \in 1..Len(queue)} /\ Len(queue) \in Nat
         /\ Queued \subseteq published
<1>1. queue \in Seq(published)
  BY DEF TypeOK
<1>. QED BY <1>1, LenProperties, ElementOfSeq DEF Queued, Range

\* Publishing adds a message at the end.
LEMMA QueueGrows ==
  ASSUME TypeOK, NEW m \in Message, published' = published \cup {m}, queue' = Append(queue, m)
  PROVE  /\ queue' \in Seq(published') /\ Queued' = Queued \cup {m}
         /\ Len(queue') = Len(queue) + 1
         /\ \A i \in 1..Len(queue) : queue'[i] = queue[i]
         /\ queue'[Len(queue) + 1] = m
<1>1. queue \in Seq(published') /\ Len(queue) \in Nat
  BY SeqMonotonic, LenProperties DEF TypeOK
<1>2. /\ queue' \in Seq(published') /\ Len(queue') = Len(queue) + 1
      /\ \A i \in 1..Len(queue) : queue'[i] = queue[i]
      /\ queue'[Len(queue) + 1] = m
  BY <1>1
<1>3. DOMAIN queue' = 1..Len(queue') /\ DOMAIN queue = 1..Len(queue)
  BY <1>1, <1>2, LenProperties
<1>4. Queued = {queue[i] : i \in 1..Len(queue)} /\ Queued' = {queue'[i] : i \in 1..Len(queue')}
  BY <1>3 DEF Queued, Range
<1>5. 1..Len(queue') = 1..Len(queue) \cup {Len(queue) + 1}
  BY <1>1, <1>2
<1>6. Queued' = Queued \cup {m}
  BY <1>2, <1>4, <1>5
<1>. QED BY <1>2, <1>6

\* A delivery removes the first message.
LEMMA QueueShrinks ==
  ASSUME TypeOK, StagesSound, queue # << >>, queue' = Tail(queue), UNCHANGED published
  PROVE  /\ queue' \in Seq(published') /\ Head(queue) \in published
         /\ Queued = Queued' \cup {Head(queue)} /\ Head(queue) \notin Queued'
         /\ \A i, j \in 1..Len(queue') : queue'[i] = queue'[j] => i = j
<1>1. queue \in Seq(published) /\ Len(queue) \in Nat \ {0}
  BY LenProperties, EmptySeq DEF TypeOK
<1>2. /\ queue' \in Seq(published) /\ Head(queue) \in published /\ Len(queue') = Len(queue) - 1
      /\ \A i \in 1..Len(queue') : queue'[i] = queue[i + 1]
      /\ Head(queue) = queue[1]
  BY <1>1, HeadTailProperties
<1>3. Queued = {queue[i] : i \in 1..Len(queue)} /\ Queued' = {queue'[i] : i \in 1..Len(queue')}
  BY <1>1, <1>2, LenProperties DEF Queued, Range
<1>4. \A i, j \in 1..Len(queue) : queue[i] = queue[j] => i = j
  BY DEF StagesSound
<1>5. \A i \in 1..Len(queue') : i + 1 \in 1..Len(queue) /\ i + 1 # 1
  BY <1>1, <1>2
<1>6. \A i \in 1..Len(queue) : i = 1 \/ (i - 1 \in 1..Len(queue') /\ (i - 1) + 1 = i)
  BY <1>1, <1>2
<1>7. 1 \in 1..Len(queue)
  BY <1>1
<1>8. Queued' \subseteq Queued /\ Head(queue) \in Queued /\ Head(queue) \notin Queued'
  BY <1>2, <1>3, <1>4, <1>5, <1>7
<1>9. Queued \subseteq Queued' \cup {Head(queue)}
  <2>1. ASSUME NEW i \in 1..Len(queue) PROVE queue[i] \in Queued' \cup {Head(queue)}
    <3>1. CASE i = 1
      BY <1>2, <3>1
    <3>2. CASE i # 1
      <4>1. queue[i] = queue'[i - 1] /\ i - 1 \in 1..Len(queue')
        BY <1>2, <1>6, <3>2
      <4>. QED BY <1>3, <4>1
    <3>. QED BY <3>1, <3>2
  <2>. QED BY <1>3, <2>1
<1>10. \A i, j \in 1..Len(queue') : queue'[i] = queue'[j] => i = j
  <2> SUFFICES ASSUME NEW i \in 1..Len(queue'), NEW j \in 1..Len(queue'), queue'[i] = queue'[j]
               PROVE  i = j
    OBVIOUS
  <2>1. queue[i + 1] = queue[j + 1]
    BY <1>2
  <2>2. i + 1 = j + 1
    BY <1>4, <1>5, <2>1
  <2>. QED BY <1>1, <1>2, <2>2
<1>. QED BY <1>2, <1>8, <1>9, <1>10

-----------------------------------------------------------------------------
(* The steps *)

LEMMA CallsAre ==
         /\ \A c \in Call : c[1] \in Message /\ c[2] \in to[c[1]] /\ c = <<c[1], c[2]>>
         /\ \A m \in Message : \A r \in to[m] : <<m, r>> \in Call
BY NotificationsAssumption DEF Call

LEMMA SendIInv ==
  ASSUME NotificationsIInv, NEW m \in Message, Send(m)
  PROVE  NotificationsIInv'
<1> USE DEF NotificationsIInv
<1>1. /\ m \notin published /\ published' = published \cup {m} /\ queue' = Append(queue, m)
      /\ UNCHANGED <<process, retries, handling, sending, sent, failed, refusals, kills>>
  BY DEF Send
<1>2. /\ queue' \in Seq(published') /\ Queued' = Queued \cup {m}
      /\ Len(queue') = Len(queue) + 1
      /\ \A i \in 1..Len(queue) : queue'[i] = queue[i]
      /\ queue'[Len(queue) + 1] = m
  BY <1>1, QueueGrows
<1>3. TypeOK'
  BY <1>1, <1>2 DEF TypeOK
<1>4. Len(queue) \in Nat /\ Queued \subseteq published
      /\ \A i \in 1..Len(queue) : queue[i] \in Queued
  BY QueuedPublished
<1>5. \A i, j \in 1..Len(queue') : queue'[i] = queue'[j] => i = j
  <2> SUFFICES ASSUME NEW i \in 1..Len(queue'), NEW j \in 1..Len(queue'), queue'[i] = queue'[j]
               PROVE  i = j
    OBVIOUS
  <2>1. \A k \in 1..Len(queue') : k = Len(queue) + 1 \/ k \in 1..Len(queue)
    BY <1>2, <1>4
  <2>2. \A k \in 1..Len(queue) : queue'[k] # m
    BY <1>1, <1>2, <1>4
  <2>3. CASE i \in 1..Len(queue) /\ j \in 1..Len(queue)
    BY <1>2, <2>3 DEF StagesSound
  <2>. QED BY <1>2, <2>1, <2>2, <2>3
<1>6. \A n : Untouched(n)' <=> Untouched(n)
  BY <1>1 DEF Untouched
<1>7. StagesSound'
  <2>1. m \notin handling /\ Untouched(m)
    BY <1>1 DEF StagesSound, TypeOK
  <2>. QED BY <1>1, <1>2, <1>5, <1>6, <2>1 DEF StagesSound
<1>8. NotSentTwice' /\ NothingLostWhileUp'
  BY <1>1, <1>2 DEF NotSentTwice, NothingLostWhileUp, Accounted
<1>. QED BY <1>3, <1>7, <1>8

\* Starting, connecting and giving up leave messages alone.
LEMMA ProcessIInv ==
  ASSUME NotificationsIInv, Start \/ Connect \/ ConnectRefused
  PROVE  NotificationsIInv'
<1> USE DEF NotificationsIInv
<1>1. UNCHANGED <<published, queue, handling, sending, sent, failed, kills>>
  BY DEF Start, Connect, ConnectRefused
<1>2. TypeOK'
  BY <1>1, NotificationsAssumption DEF Start, Connect, ConnectRefused, TypeOK
<1>3. StagesSound'
  BY <1>1 DEF StagesSound, Untouched, Queued, Range
<1>4. NotSentTwice' /\ NothingLostWhileUp'
  BY <1>1 DEF NotSentTwice, NothingLostWhileUp, Accounted, Queued, Range
<1>. QED BY <1>2, <1>3, <1>4

LEMMA ReceiveIInv ==
  ASSUME NotificationsIInv, Receive
  PROVE  NotificationsIInv'
<1> USE DEF NotificationsIInv
<1> DEFINE m == Head(queue)
<1>1. /\ queue # << >> /\ queue' = Tail(queue) /\ handling' = handling \cup {m}
      /\ UNCHANGED <<published, process, retries, sending, sent, failed, refusals, kills>>
  BY DEF Receive
<1>2. /\ queue' \in Seq(published') /\ m \in published
      /\ Queued = Queued' \cup {m} /\ m \notin Queued'
      /\ \A i, j \in 1..Len(queue') : queue'[i] = queue'[j] => i = j
  BY <1>1, QueueShrinks
<1> HIDE DEF m
<1>3. TypeOK'
  BY <1>1, <1>2 DEF TypeOK
<1>4. \A n : Untouched(n)' <=> Untouched(n)
  BY <1>1 DEF Untouched
<1>5. StagesSound'
  BY <1>1, <1>2, <1>4 DEF StagesSound
<1>6. NotSentTwice' /\ NothingLostWhileUp'
  BY <1>1, <1>2 DEF NotSentTwice, NothingLostWhileUp, Accounted
<1>. QED BY <1>3, <1>5, <1>6

LEMMA HandleIInv ==
  ASSUME NotificationsIInv, NEW m \in Message, Handle(m)
  PROVE  NotificationsIInv'
<1> USE DEF NotificationsIInv
<1>1. /\ m \in handling /\ handling' = handling \ {m}
      /\ sending' = (IF m \in Renders THEN sending \cup Calls(m) ELSE sending)
      /\ UNCHANGED <<published, queue, process, retries, sent, failed, refusals, kills>>
  BY DEF Handle
<1>2. Calls(m) \subseteq Call /\ \A c \in Calls(m) : sent[c] = 0
  BY <1>1, CallsAre DEF Calls, StagesSound, Untouched
<1>3. TypeOK'
  BY <1>1, <1>2 DEF TypeOK
<1>4. ASSUME NEW n, n # m, Untouched(n) PROVE Untouched(n)'
  BY <1>1, <1>4 DEF Untouched, Calls
<1>5. Queued' = Queued
  BY <1>1 DEF Queued, Range
<1>6. StagesSound'
  <2>1. m \in published
    BY <1>1 DEF TypeOK
  <2>. QED BY <1>1, <1>2, <1>4, <1>5, <2>1 DEF StagesSound
<1>7. NotSentTwice'
  BY <1>1 DEF NotSentTwice
<1>8. NothingLostWhileUp'
  BY <1>1, <1>5 DEF NothingLostWhileUp, Accounted, Calls
<1>. QED BY <1>3, <1>6, <1>7, <1>8

\* Calls S end, all others under way end without reaching the provider or go on, and
\* messages may be forgotten while they are handled.
LEMMA CallsEnd ==
  ASSUME NotificationsIInv, NEW S \in SUBSET sending,
         sending' \subseteq sending \ S, handling' \subseteq handling,
         sent' = [c \in Call |-> IF c \in S THEN sent[c] + 1 ELSE sent[c]],
         UNCHANGED <<published, queue>>
  PROVE  /\ sent' \in [Call -> Nat] /\ StagesSound' /\ NotSentTwice'
         /\ \A c \in S : sent'[c] = 1
<1> USE DEF NotificationsIInv
<1>1. S \subseteq Call /\ \A c \in S : sent[c] = 0
  BY DEF TypeOK, StagesSound
<1>2. sent' \in [Call -> Nat] /\ \A c \in S : sent'[c] = 1
  BY <1>1 DEF TypeOK
<1>3. \A c \in Call \ S : sent'[c] = sent[c]
  OBVIOUS
<1>4. ASSUME NEW n \in Message, Untouched(n) PROVE Untouched(n)'
  <2>1. \A r \in to[n] : <<n, r>> \in Call \ S
    BY <1>4, CallsAre DEF Untouched
  <2>. QED BY <1>3, <1>4, <2>1 DEF Untouched
<1>5. StagesSound'
  <2>1. Queued' = Queued
    BY DEF Queued, Range
  <2>2. Queued \subseteq Message /\ handling \subseteq Message
    BY QueuedPublished DEF TypeOK
  <2>3. sending \subseteq Call
    BY DEF TypeOK
  <2>. QED BY <1>1, <1>3, <1>4, <2>1, <2>2, <2>3 DEF StagesSound
<1>6. NotSentTwice'
  BY <1>2, <1>3 DEF NotSentTwice
<1>. QED BY <1>2, <1>5, <1>6

LEMMA AcceptedIInv ==
  ASSUME NotificationsIInv, NEW c \in Call, Accepted(c)
  PROVE  NotificationsIInv'
<1>1. /\ c \in sending /\ sending' = sending \ {c} /\ sent' = [sent EXCEPT ![c] = @ + 1]
      /\ UNCHANGED <<published, queue, process, retries, handling, failed, refusals, kills>>
  BY DEF Accepted
<1>2. sent' = [d \in Call |-> IF d \in {c} THEN sent[d] + 1 ELSE sent[d]]
  BY <1>1 DEF NotificationsIInv, TypeOK
<1>3. /\ sent' \in [Call -> Nat] /\ StagesSound' /\ NotSentTwice'
      /\ \A d \in {c} : sent'[d] = 1
  <2>1. {c} \in SUBSET sending /\ sending' \subseteq sending \ {c} /\ handling' \subseteq handling
    BY <1>1
  <2>. QED BY <1>1, <1>2, <2>1, CallsEnd
<1>4. TypeOK'
  BY <1>1, <1>3 DEF NotificationsIInv, TypeOK
<1>5. NothingLostWhileUp'
  <2>1. Queued' = Queued
    BY <1>1 DEF Queued, Range
  <2>2. \A d \in Call : d # c => sent'[d] = sent[d]
    BY <1>2
  <2>3. \A m \in published : \A r \in to[m] : <<m, r>> \in Call
    BY CallsAre DEF NotificationsIInv, TypeOK
  <2>. QED BY <1>1, <1>3, <2>1, <2>2, <2>3
           DEF NotificationsIInv, NothingLostWhileUp, Accounted
<1>. QED BY <1>3, <1>4, <1>5 DEF NotificationsIInv

LEMMA ExitStages ==
  ASSUME NotificationsIInv, NEW S \in SUBSET sending, Exit(S),
         UNCHANGED published
  PROVE  sent' \in [Call -> Nat] /\ StagesSound' /\ NotSentTwice'
<1>1. /\ sending' \subseteq sending \ S /\ handling' \subseteq handling
      /\ sent' = [c \in Call |-> IF c \in S THEN sent[c] + 1 ELSE sent[c]]
      /\ UNCHANGED <<published, queue>>
  BY DEF Exit
<1>. QED BY <1>1, CallsEnd

LEMMA RejectedIInv ==
  ASSUME NotificationsIInv, NEW c \in Call, Rejected(c)
  PROVE  NotificationsIInv'
<1>1. PICK S \in SUBSET (sending \ {c}) : Exit(S)
  BY DEF Rejected
<1>2. failed' = failed \cup {c} /\ UNCHANGED <<published, retries, refusals, kills>>
  BY DEF Rejected
<1>3. sent' \in [Call -> Nat] /\ StagesSound' /\ NotSentTwice'
  BY <1>1, <1>2, ExitStages
<1>4. TypeOK'
  BY <1>1, <1>2, <1>3 DEF Exit, NotificationsIInv, TypeOK
<1>5. NothingLostWhileUp'
  BY <1>2 DEF NothingLostWhileUp
<1>. QED BY <1>3, <1>4, <1>5 DEF NotificationsIInv

LEMMA KillIInv ==
  ASSUME NotificationsIInv, Kill
  PROVE  NotificationsIInv'
<1>1. PICK S \in SUBSET sending : Exit(S)
  BY DEF Kill
<1>2. kills < MaxKills /\ kills' = kills + 1 /\ UNCHANGED <<published, retries, failed, refusals>>
  BY DEF Kill
<1>3. sent' \in [Call -> Nat] /\ StagesSound' /\ NotSentTwice'
  BY <1>1, <1>2, ExitStages
<1>4. kills \in Nat /\ kills' \in 0..MaxKills /\ kills' # 0
  BY <1>2, NotificationsAssumption DEF NotificationsIInv, TypeOK
<1>5. TypeOK'
  BY <1>1, <1>2, <1>3, <1>4 DEF Exit, NotificationsIInv, TypeOK
<1>6. NothingLostWhileUp'
  BY <1>4 DEF NothingLostWhileUp
<1>. QED BY <1>3, <1>5, <1>6 DEF NotificationsIInv

-----------------------------------------------------------------------------
(* The invariant *)

LEMMA NextNotifications == NotificationsIInv /\ [Next]_vars => NotificationsIInv'
<1> SUFFICES ASSUME NotificationsIInv, [Next]_vars PROVE NotificationsIInv'
  OBVIOUS
<1>1. CASE UNCHANGED vars
  BY <1>1 DEF vars, NotificationsIInv, TypeOK, StagesSound, Untouched, NotSentTwice,
              NothingLostWhileUp, Accounted, Queued, Range
<1>2. ASSUME NEW m \in Message, Send(m) \/ Handle(m) PROVE NotificationsIInv'
  BY <1>2, SendIInv, HandleIInv
<1>3. CASE Start \/ Connect \/ ConnectRefused
  BY <1>3, ProcessIInv
<1>4. CASE Receive \/ Kill
  BY <1>4, ReceiveIInv, KillIInv
<1>5. ASSUME NEW c \in Call, Accepted(c) \/ Rejected(c) PROVE NotificationsIInv'
  BY <1>5, AcceptedIInv, RejectedIInv
<1>. QED BY <1>1, <1>2, <1>3, <1>4, <1>5 DEF Next

LEMMA NotificationsInvariant == Spec => []NotificationsIInv
<1>1. Init => NotificationsIInv
  BY InitNotifications
<1>2. NotificationsIInv /\ [Next]_vars => NotificationsIInv'
  BY NextNotifications
<1>. QED BY <1>1, <1>2, PTL DEF Spec

\* The queue, the process and the calls of notification-service have their types; it
\* never makes more than MAX_RETRIES attempts to connect again.
THEOREM NotificationsTypeCorrect == Spec => []TypeOK
<1>1. NotificationsIInv => TypeOK
  BY DEF NotificationsIInv
<1>. QED BY <1>1, NotificationsInvariant, PTL

\* Wherever the process ends and however deliveries, parsing and calls overlap, no
\* receiver is sent a message twice; and nothing is lost before the process ends.
THEOREM MessagesSafe == Spec => []MessagesAccounted
<1>1. NotificationsIInv => MessagesAccounted
  BY DEF NotificationsIInv, MessagesAccounted
<1>. QED BY <1>1, NotificationsInvariant, PTL

-----------------------------------------------------------------------------
(* The uploads of the instance, to S3 behind a disk that may be lost and to a *)
(* disk that is kept: what Uploads_proofs proves of any uploads and requests. *)

ToS3 ==
  INSTANCE Uploads_proofs
    WITH Upload <- {"a", "b"}, Wrong <- {"wrong"}, Get <- {"one", "two"}, UseS3 <- TRUE,
         DiskIsLost <- TRUE
ToDisk ==
  INSTANCE Uploads_proofs
    WITH Upload <- {"a", "b"}, Wrong <- {"wrong"}, Get <- {"one", "two"}, UseS3 <- FALSE,
         DiskIsLost <- FALSE

LEMMA SameUploads == (UploadsToS3!Next <=> ToS3!Next) /\ (UploadsToDisk!Next <=> ToDisk!Next)
<1>1. UploadsToS3!Next <=> ToS3!Next
  BY DEF UploadsToS3!Next, UploadsToS3!Restart, UploadsToS3!UploadFails, UploadsToS3!UploadCreates,
          UploadsToS3!UploadWrites, UploadsToS3!UploadStores, UploadsToS3!Ask, UploadsToS3!Found,
          UploadsToS3!Missing, UploadsToS3!StillMissing, UploadsToS3!GetFails, UploadsToS3!Done,
          UploadsToS3!Remembered, UploadsToS3!CreateTmp, UploadsToS3!Download,
          UploadsToS3!NoSuchKey, UploadsToS3!Rename, UploadsToS3!DownloadFails, UploadsToS3!Name,
          UploadsToS3!NoGet, UploadsToS3!files, UploadsToS3!Answer, UploadsToS3!Resumed,
          UploadsToS3!Lands, ToS3!Next, ToS3!Restart, ToS3!UploadFails, ToS3!UploadCreates,
          ToS3!UploadWrites, ToS3!UploadStores, ToS3!Ask, ToS3!Found, ToS3!Missing,
          ToS3!StillMissing, ToS3!GetFails, ToS3!Done, ToS3!Remembered, ToS3!CreateTmp,
          ToS3!Download, ToS3!NoSuchKey, ToS3!Rename, ToS3!DownloadFails, ToS3!Name, ToS3!NoGet,
          ToS3!files, ToS3!Answer, ToS3!Resumed, ToS3!Lands
<1>2. UploadsToDisk!Next <=> ToDisk!Next
  BY DEF UploadsToDisk!Next, UploadsToDisk!Restart, UploadsToDisk!UploadFails,
          UploadsToDisk!UploadCreates, UploadsToDisk!UploadWrites, UploadsToDisk!UploadStores,
          UploadsToDisk!Ask, UploadsToDisk!Found, UploadsToDisk!Missing,
          UploadsToDisk!StillMissing, UploadsToDisk!GetFails, UploadsToDisk!Done,
          UploadsToDisk!Remembered, UploadsToDisk!CreateTmp, UploadsToDisk!Download,
          UploadsToDisk!NoSuchKey, UploadsToDisk!Rename, UploadsToDisk!DownloadFails,
          UploadsToDisk!Name, UploadsToDisk!NoGet, UploadsToDisk!files, UploadsToDisk!Answer,
          UploadsToDisk!Resumed, UploadsToDisk!Lands, ToDisk!Next, ToDisk!Restart,
          ToDisk!UploadFails, ToDisk!UploadCreates, ToDisk!UploadWrites, ToDisk!UploadStores,
          ToDisk!Ask, ToDisk!Found, ToDisk!Missing, ToDisk!StillMissing, ToDisk!GetFails,
          ToDisk!Done, ToDisk!Remembered, ToDisk!CreateTmp, ToDisk!Download, ToDisk!NoSuchKey,
          ToDisk!Rename, ToDisk!DownloadFails, ToDisk!Name, ToDisk!NoGet, ToDisk!files,
          ToDisk!Answer, ToDisk!Resumed, ToDisk!Lands
<1> QED
  BY <1>1, <1>2

LEMMA NamesDiffer == ToS3!NamesAreRandom /\ ToDisk!NamesAreRandom
BY NothingAssumption DEF ToS3!NamesAreRandom, ToDisk!NamesAreRandom

\* Uploads start in the same state with S3 and without it; afterwards each has its own steps.
UploadsLive ==
  /\ moving # "disk" => ToS3!UploadsIInv
  /\ moving = "disk" => ToDisk!UploadsIInv

LEMMA InitUploads == LiveInit => UploadsLive
<1> SUFFICES ASSUME UploadsToS3!Init PROVE UploadsLive
  BY DEF LiveInit
<1>1. ToS3!Init /\ ToDisk!Init
  BY DEF UploadsToS3!Init, UploadsToS3!Name, UploadsToS3!NoGet,
         ToS3!Init, ToS3!Name, ToS3!NoGet, ToDisk!Init, ToDisk!Name, ToDisk!NoGet
<1> QED
  BY <1>1, NamesDiffer, ToS3!InitUploads, ToDisk!InitUploads DEF UploadsLive

LEMMA StepUploads == UploadsLive /\ [LiveNext]_liveVars => UploadsLive'
<1> SUFFICES ASSUME UploadsLive, [LiveNext]_liveVars PROVE UploadsLive'
  OBVIOUS
<1>1. moving' = moving
  BY DEF LiveNext, liveVars
<1>2. CASE moving # "disk"
  <2>1. [ToS3!Next]_uploadVars
    BY <1>2, SameUploads DEF LiveNext, liveVars
  <2>2. [ToS3!Next]_ToS3!vars
    BY <2>1 DEF uploadVars, ToS3!vars
  <2> QED
    BY <1>1, <1>2, <2>2, NamesDiffer, ToS3!NextUploads DEF UploadsLive
<1>3. CASE moving = "disk"
  <2>1. [ToDisk!Next]_uploadVars
    BY <1>3, SameUploads DEF LiveNext, liveVars
  <2>2. [ToDisk!Next]_ToDisk!vars
    BY <2>1 DEF uploadVars, ToDisk!vars
  <2> QED
    BY <1>1, <1>3, <2>2, NamesDiffer, ToDisk!NextUploads DEF UploadsLive
<1> QED
  BY <1>2, <1>3

\* Nobody is sent a part of an image, save of one whose file could not be closed, and the
\* name an upload answered with is never said not to exist: with S3 although the disk of
\* upload-service may be lost, and without S3 on a disk that is kept.
THEOREM ImagesServed == LiveSpec => []UploadsServed
<1>1. UploadsLive => UploadsServed
  <2> SUFFICES ASSUME UploadsLive PROVE UploadsServed
    OBVIOUS
  <2>1. CASE moving # "disk"
    <3>1. ToS3!UploadsServed
      BY <2>1, NamesDiffer
         DEF UploadsLive, ToS3!UploadsIInv, ToS3!TypeOK, ToS3!MissingAreWrong, ToS3!FilesAreKept,
             ToS3!UploadsServed, ToS3!ServedIsWhole, ToS3!UrlStaysGood, ToS3!NamesAreRandom
    <3> QED
      BY <3>1 DEF UploadsServed, UploadsToS3!UploadsServed, UploadsToS3!ServedIsWhole,
                  UploadsToS3!UrlStaysGood,
                  ToS3!UploadsServed, ToS3!ServedIsWhole, ToS3!UrlStaysGood
  <2>2. CASE moving = "disk"
    <3>1. ToDisk!UploadsServed
      BY <2>2, NamesDiffer
         DEF UploadsLive, ToDisk!UploadsIInv, ToDisk!TypeOK, ToDisk!MissingAreWrong,
             ToDisk!FilesAreKept, ToDisk!UploadsServed, ToDisk!ServedIsWhole,
             ToDisk!UrlStaysGood, ToDisk!NamesAreRandom
    <3> QED
      BY <3>1 DEF UploadsServed, UploadsToS3!UploadsServed, UploadsToS3!ServedIsWhole,
                  UploadsToS3!UrlStaysGood,
                  ToDisk!UploadsServed, ToDisk!ServedIsWhole, ToDisk!UrlStaysGood
  <2> QED
    BY <2>1, <2>2
<1> QED
  BY <1>1, InitUploads, StepUploads, PTL DEF LiveSpec

-----------------------------------------------------------------------------
(* The dashboard of the drivers (DriverDashboard.tla), for any drivers,    *)
(* deliveries, orders and calls under way.                                 *)

Cache == INSTANCE QueryCache

Boards(Driver, DeliveryId, Order, Clicks, Tabs) ==
  INSTANCE DriverDashboard WITH Call <- Clicks

BoardOp == {"claim", "pickup", "complete"}
BoardTab == {"available", "active", "completed"}
\* No driver is nobody; the tabs in use are known ones.
BoardsAssumed(W, T) == NoDriver \notin W /\ T \subseteq BoardTab

BoardDelivery(W, O) ==
  [state : {"absent", "unclaimed", "waiting", "delivering", "done"}, order : O \cup {NoOrder},
   driver : W \cup {NoDriver}]
OwnDeliveries(D) == [D -> {"none", "waiting", "delivering", "done"}]

\* A call is about a delivery and of a driver, unless there is none.
BoardPress(W, D) ==
  [op : BoardOp, d : D, w : W, at : {"sent", "answered"}, ok : BOOLEAN]
    \cup {[op |-> None, d |-> None, w |-> None, at |-> "idle", ok |-> FALSE]}

\* The inductive invariant: types, calls that are about something, and deliveries that have a
\* driver once they are claimed.
BoardIInv(W, D, O, C) ==
  /\ deliveries \in [D -> BoardDelivery(W, O)]
  /\ \A d \in D : deliveries[d].driver \in W => deliveries[d].state \in {"waiting", "delivering", "done"}
  /\ tab \in [W -> BoardTab] /\ online \in [W -> BOOLEAN]
  /\ near \in [W -> Cache!Entries(SUBSET D)]
  /\ mine \in [W -> Cache!Entries(OwnDeliveries(D))]
  /\ press \in [C -> BoardPress(W, D)]
  /\ pending \in [W -> [BoardOp -> C \cup {None}]]
  /\ mineFailed \subseteq W /\ seen \subseteq D \X W

\* What happens to an entry keeps its type.
LEMMA EntriesTyped ==
  ASSUME NEW V, NEW q \in Cache!Entries(V)
  PROVE  /\ Cache!Fetching(q) \in Cache!Entries(V) /\ Cache!Filled(q) \in Cache!Entries(V)
         /\ Cache!Failed(q) \in Cache!Entries(V) /\ Cache!Invalidated(q) \in Cache!Entries(V)
         /\ \A v \in V : Cache!Served(q, v) \in Cache!Entries(V)
BY DEF Cache!Entries, Cache!Fetching, Cache!Filled, Cache!Failed, Cache!Invalidated, Cache!Served

\* The cache of a dashboard is the one above.
LEMMA BoardCache ==
  ASSUME NEW W, NEW D, NEW O, NEW C, NEW T
  PROVE  /\ \A q : /\ Boards(W, D, O, C, T)!Fetching(q) = Cache!Fetching(q)
                   /\ Boards(W, D, O, C, T)!Filled(q) = Cache!Filled(q)
                   /\ Boards(W, D, O, C, T)!Failed(q) = Cache!Failed(q)
                   /\ Boards(W, D, O, C, T)!Invalidated(q) = Cache!Invalidated(q)
         /\ \A q, v : Boards(W, D, O, C, T)!Served(q, v) = Cache!Served(q, v)
         /\ \A V : Boards(W, D, O, C, T)!Entries(V) = Cache!Entries(V)
         /\ Boards(W, D, O, C, T)!Fresh = Cache!Fresh
BY DEF Boards!Fetching, Boards!Filled, Boards!Failed, Boards!Invalidated, Boards!Served, Boards!Entries,
       Boards!Fresh, Cache!Fetching, Cache!Filled, Cache!Failed, Cache!Invalidated, Cache!Served,
       Cache!Entries, Cache!Fresh

\* The dashboards start with the invariant.
LEMMA InitBoards ==
  ASSUME NEW W, NEW D, NEW O, NEW C, NEW T, BoardsAssumed(W, T), Boards(W, D, O, C, T)!Init
  PROVE  BoardIInv(W, D, O, C)
<1>1. Cache!Fresh \in Cache!Entries(SUBSET D) /\ Cache!Fresh \in Cache!Entries(OwnDeliveries(D))
  BY DEF Cache!Fresh, Cache!Entries
<1>2. Cache!Fetching(Cache!Fresh) \in Cache!Entries(SUBSET D)
  BY <1>1, EntriesTyped
<1>3. near = [w \in W |-> Cache!Fetching(Cache!Fresh)] /\ mine = [w \in W |-> Cache!Fresh]
  BY BoardCache DEF Boards!Init
<1>4. /\ near \in [W -> Cache!Entries(SUBSET D)]
      /\ mine \in [W -> Cache!Entries(OwnDeliveries(D))]
  BY <1>1, <1>2, <1>3
<1>5. /\ deliveries \in [D -> BoardDelivery(W, O)]
      /\ \A d \in D : deliveries[d].driver \notin W
  BY DEF Boards!Init, Boards!Service!Init, BoardDelivery, BoardsAssumed
<1>6. /\ press \in [C -> BoardPress(W, D)]
      /\ pending \in [W -> [BoardOp -> C \cup {None}]]
  BY DEF Boards!Init, Boards!Idle, Boards!NoCalls, Boards!Op, BoardPress, BoardOp
<1>7. /\ tab \in [W -> BoardTab] /\ online \in [W -> BOOLEAN]
      /\ mineFailed \subseteq W /\ seen \subseteq D \X W
  BY DEF Boards!Init, BoardTab
<1> QED
  BY <1>4, <1>5, <1>6, <1>7 DEF BoardIInv

\* Tabs, the toggle, fetches and what they bring.
LEMMA BoardPageStep ==
  ASSUME NEW W, NEW D, NEW O, NEW C, NEW T, BoardsAssumed(W, T), BoardIInv(W, D, O, C), NEW w \in W,
         \/ \E t \in T : Boards(W, D, O, C, T)!SetActiveTab(w, t)
         \/ Boards(W, D, O, C, T)!ToggleOnline(w) \/ Boards(W, D, O, C, T)!Poll(w)
         \/ Boards(W, D, O, C, T)!GetNearbyDeliveries(w) \/ Boards(W, D, O, C, T)!GetMyDeliveries(w)
         \/ Boards(W, D, O, C, T)!ShowNear(w) \/ Boards(W, D, O, C, T)!ShowMine(w)
  PROVE  BoardIInv(W, D, O, C)'
<1>1. /\ near \in [W -> Cache!Entries(SUBSET D)] /\ near[w] \in Cache!Entries(SUBSET D)
      /\ mine \in [W -> Cache!Entries(OwnDeliveries(D))] /\ mine[w] \in Cache!Entries(OwnDeliveries(D))
  BY DEF BoardIInv
<1>2. /\ Boards(W, D, O, C, T)!Nearby \in SUBSET D
      /\ Boards(W, D, O, C, T)!Own(w) \in OwnDeliveries(D)
  <2>1. \A d \in D : deliveries[d].driver = w => deliveries[d].state \in {"waiting", "delivering", "done"}
    BY DEF BoardIInv
  <2>2. Boards(W, D, O, C, T)!Own(w) \in OwnDeliveries(D)
    BY <2>1 DEF Boards!Own, OwnDeliveries
  <2> QED
    BY <2>2 DEF Boards!Nearby
<1>3. /\ near' \in [W -> Cache!Entries(SUBSET D)]
      /\ mine' \in [W -> Cache!Entries(OwnDeliveries(D))]
  <2>1. /\ Cache!Fetching(near[w]) \in Cache!Entries(SUBSET D)
        /\ Cache!Filled(near[w]) \in Cache!Entries(SUBSET D)
        /\ Cache!Failed(near[w]) \in Cache!Entries(SUBSET D)
        /\ Cache!Served(near[w], Boards(W, D, O, C, T)!Nearby) \in Cache!Entries(SUBSET D)
    BY <1>1, <1>2, EntriesTyped
  <2>2. /\ Cache!Fetching(mine[w]) \in Cache!Entries(OwnDeliveries(D))
        /\ Cache!Filled(mine[w]) \in Cache!Entries(OwnDeliveries(D))
        /\ Cache!Failed(mine[w]) \in Cache!Entries(OwnDeliveries(D))
        /\ Cache!Served(mine[w], Boards(W, D, O, C, T)!Own(w)) \in Cache!Entries(OwnDeliveries(D))
    BY <1>1, <1>2, EntriesTyped
  <2>3. /\ \/ near' = near
           \/ \E q \in Cache!Entries(SUBSET D) : near' = [near EXCEPT ![w] = q]
        /\ \/ mine' = mine
           \/ \E q \in Cache!Entries(OwnDeliveries(D)) : mine' = [mine EXCEPT ![w] = q]
    BY <2>1, <2>2, BoardCache
       DEF Boards!SetActiveTab, Boards!ToggleOnline, Boards!Poll, Boards!GetNearbyDeliveries,
           Boards!GetMyDeliveries, Boards!ShowNear, Boards!ShowMine
  <2> QED
    BY <1>1, <2>3
<1>4. /\ tab' \in [W -> BoardTab] /\ online' \in [W -> BOOLEAN]
      /\ pending' \in [W -> [BoardOp -> C \cup {None}]] /\ mineFailed' \subseteq W
      /\ UNCHANGED <<deliveries, press, seen>>
  <2>1. /\ tab \in [W -> BoardTab] /\ online \in [W -> BOOLEAN] /\ T \subseteq BoardTab
        /\ pending \in [W -> [BoardOp -> C \cup {None}]] /\ mineFailed \subseteq W
    BY DEF BoardIInv, BoardsAssumed
  <2>2. Boards(W, D, O, C, T)!NoCalls \in [BoardOp -> C \cup {None}]
    BY DEF Boards!NoCalls, Boards!Op, BoardOp
  <2> QED
    BY <2>1, <2>2
       DEF Boards!SetActiveTab, Boards!ToggleOnline, Boards!Poll, Boards!GetNearbyDeliveries,
           Boards!GetMyDeliveries, Boards!ShowNear, Boards!ShowMine
<1> QED
  BY <1>3, <1>4 DEF BoardIInv

\* A button of a card is clicked.
LEMMA BoardClickStep ==
  ASSUME NEW W, NEW D, NEW O, NEW C, NEW T, BoardsAssumed(W, T), BoardIInv(W, D, O, C),
         NEW w \in W, NEW c \in C, NEW d \in D,
         Boards(W, D, O, C, T)!ClickClaim(c, w, d) \/ Boards(W, D, O, C, T)!ClickActive(c, w, d)
  PROVE  BoardIInv(W, D, O, C)'
<1>1. PICK op \in BoardOp : Boards(W, D, O, C, T)!Click(c, w, op, d)
  BY DEF Boards!ClickClaim, Boards!ClickActive, BoardOp
<1>2. /\ press' = [press EXCEPT ![c] = [op |-> op, d |-> d, w |-> w, at |-> "sent", ok |-> FALSE]]
      /\ pending' = [pending EXCEPT ![w][op] = c]
      /\ UNCHANGED <<deliveries, tab, online, near, mine, mineFailed, seen>>
  BY <1>1 DEF Boards!Click
<1>3. [op |-> op, d |-> d, w |-> w, at |-> "sent", ok |-> FALSE] \in BoardPress(W, D)
  BY DEF BoardPress
<1>4. press' \in [C -> BoardPress(W, D)]
  BY <1>2, <1>3 DEF BoardIInv
<1>5. pending' \in [W -> [BoardOp -> C \cup {None}]]
  BY <1>2 DEF BoardIInv
<1> QED
  BY <1>2, <1>4, <1>5 DEF BoardIInv

\* The service answers a call.
LEMMA BoardAnswerStep ==
  ASSUME NEW W, NEW D, NEW O, NEW C, NEW T, BoardsAssumed(W, T), BoardIInv(W, D, O, C), NEW c \in C,
         Boards(W, D, O, C, T)!Answer(c)
  PROVE  BoardIInv(W, D, O, C)'
<1>1. PICK k \in BoardPress(W, D) : k = press[c]
  BY DEF BoardIInv
<1>2. k.at = "sent" /\ k.d \in D /\ k.w \in W /\ k.op \in BoardOp
  BY <1>1 DEF Boards!Answer, BoardPress
<1>3. PICK ok \in BOOLEAN : ok = Boards(W, D, O, C, T)!Accepts(k.op, k.d, k.w)
  BY DEF Boards!Accepts
<1>4. press' = [press EXCEPT ![c] = [k EXCEPT !.at = "answered", !.ok = ok]]
  BY <1>1, <1>3 DEF Boards!Answer, BoardIInv
<1>5. [k EXCEPT !.at = "answered", !.ok = ok] \in BoardPress(W, D)
  BY <1>2 DEF BoardPress
<1>6. press' \in [C -> BoardPress(W, D)]
  BY <1>4, <1>5 DEF BoardIInv
<1>7. /\ deliveries' \in [D -> BoardDelivery(W, O)]
      /\ \A d \in D : deliveries'[d].driver \in W => deliveries'[d].state \in {"waiting", "delivering", "done"}
  <2>1. PICK old \in BoardDelivery(W, O) :
          old = deliveries[k.d] /\ (old.driver \in W => old.state \in {"waiting", "delivering", "done"})
    BY <1>2 DEF BoardIInv
  <2>2. \/ UNCHANGED deliveries
        \/ \E new \in BoardDelivery(W, O) :
             /\ deliveries' = [deliveries EXCEPT ![k.d] = new]
             /\ new.driver \in W => new.state \in {"waiting", "delivering", "done"}
    <3>1. CASE Boards(W, D, O, C, T)!Service!ClaimDelivery(k.d, k.w)
      <4>1. deliveries' = [deliveries EXCEPT ![k.d] = [state |-> "waiting", order |-> old.order, driver |-> k.w]]
        BY <2>1, <3>1 DEF Boards!Service!ClaimDelivery
      <4>2. [state |-> "waiting", order |-> old.order, driver |-> k.w] \in BoardDelivery(W, O)
        BY <1>2 DEF BoardDelivery
      <4> QED
        BY <4>1, <4>2
    <3>2. CASE Boards(W, D, O, C, T)!Service!DeliveryPickup(k.d, k.w)
      <4>1. deliveries' = [deliveries EXCEPT ![k.d] = [old EXCEPT !.state = "delivering"]]
        BY <2>1, <3>2 DEF Boards!Service!DeliveryPickup, BoardIInv
      <4>2. [old EXCEPT !.state = "delivering"] \in BoardDelivery(W, O)
            /\ [old EXCEPT !.state = "delivering"].state = "delivering"
        BY DEF BoardDelivery
      <4> QED
        BY <4>1, <4>2
    <3>3. CASE Boards(W, D, O, C, T)!Service!DeliveryComplete(k.d, k.w)
      <4>1. deliveries' = [deliveries EXCEPT ![k.d] = [old EXCEPT !.state = "done"]]
        BY <2>1, <3>3 DEF Boards!Service!DeliveryComplete, BoardIInv
      <4>2. [old EXCEPT !.state = "done"] \in BoardDelivery(W, O)
            /\ [old EXCEPT !.state = "done"].state = "done"
        BY DEF BoardDelivery
      <4> QED
        BY <4>1, <4>2
    <3> QED
      BY <1>1, <3>1, <3>2, <3>3 DEF Boards!Answer
  <2> QED
    BY <2>2, <1>2 DEF BoardIInv
<1>8. UNCHANGED <<tab, online, near, mine, mineFailed, pending, seen>>
  BY DEF Boards!Answer
<1> QED
  BY <1>6, <1>7, <1>8 DEF BoardIInv

\* The answer is lost.
LEMMA BoardLostStep ==
  ASSUME NEW W, NEW D, NEW O, NEW C, NEW T, BoardIInv(W, D, O, C), NEW c \in C,
         Boards(W, D, O, C, T)!AnswerLost(c)
  PROVE  BoardIInv(W, D, O, C)'
<1>1. PICK k \in BoardPress(W, D) : k = press[c]
  BY DEF BoardIInv
<1>2. press' = [press EXCEPT ![c] = [k EXCEPT !.ok = FALSE]] /\ k.at = "answered"
      /\ UNCHANGED <<deliveries, tab, online, near, mine, mineFailed, pending, seen>>
  BY <1>1 DEF Boards!AnswerLost, BoardIInv
<1>3. [k EXCEPT !.ok = FALSE] \in BoardPress(W, D)
  <2>1. k \in [op : BoardOp, d : D, w : W, at : {"sent", "answered"}, ok : BOOLEAN]
    BY <1>2 DEF BoardPress
  <2>2. [k EXCEPT !.ok = FALSE] \in [op : BoardOp, d : D, w : W, at : {"sent", "answered"}, ok : BOOLEAN]
    BY <2>1
  <2> QED
    BY <2>2 DEF BoardPress
<1> QED
  BY <1>2, <1>3 DEF BoardIInv

\* A call is reported to the driver, and the lists are refreshed.
LEMMA BoardSettleStep ==
  ASSUME NEW W, NEW D, NEW O, NEW C, NEW T, BoardIInv(W, D, O, C), NEW c \in C,
         Boards(W, D, O, C, T)!Settle(c)
  PROVE  BoardIInv(W, D, O, C)'
<1>1. PICK k \in BoardPress(W, D) : k = press[c]
  BY DEF BoardIInv
<1>2. k.at = "answered" /\ k.d \in D /\ k.w \in W
  BY <1>1 DEF Boards!Settle, BoardPress
<1>3. press' \in [C -> BoardPress(W, D)]
  BY DEF Boards!Settle, Boards!Idle, BoardIInv, BoardPress
<1>4. pending' \in [W -> [BoardOp -> C \cup {None}]]
  <2>1. PICK waits \in [BoardOp -> C \cup {None}] : waits = pending[k.w]
    BY <1>2 DEF BoardIInv
  <2>2. pending' = [pending EXCEPT ![k.w] = [p \in BoardOp |-> IF waits[p] = c THEN None ELSE waits[p]]]
    BY <1>1, <2>1 DEF Boards!Settle, Boards!Op, BoardOp
  <2>3. [p \in BoardOp |-> IF waits[p] = c THEN None ELSE waits[p]] \in [BoardOp -> C \cup {None}]
    OBVIOUS
  <2> QED
    BY <2>2, <2>3 DEF BoardIInv
<1>5. /\ near' \in [W -> Cache!Entries(SUBSET D)]
      /\ mine' \in [W -> Cache!Entries(OwnDeliveries(D))]
  <2>1. /\ near \in [W -> Cache!Entries(SUBSET D)] /\ mine \in [W -> Cache!Entries(OwnDeliveries(D))]
    BY DEF BoardIInv
  <2>2. /\ Cache!Invalidated(near[k.w]) \in Cache!Entries(SUBSET D)
        /\ Cache!Invalidated(mine[k.w]) \in Cache!Entries(OwnDeliveries(D))
    BY <1>2, <2>1, EntriesTyped
  <2>3. /\ near' \in {near, [near EXCEPT ![k.w] = Cache!Invalidated(near[k.w])]}
        /\ mine' \in {mine, [mine EXCEPT ![k.w] = Cache!Invalidated(mine[k.w])]}
    BY <1>1, BoardCache DEF Boards!Settle, Boards!Refreshed
  <2> QED
    BY <2>1, <2>2, <2>3
<1>6. seen' \subseteq D \X W
  BY <1>1, <1>2 DEF Boards!Settle, BoardIInv
<1>7. UNCHANGED <<deliveries, tab, online, mineFailed>>
  BY DEF Boards!Settle
<1> QED
  BY <1>3, <1>4, <1>5, <1>6, <1>7 DEF BoardIInv

\* An order becomes ready.
LEMMA BoardOrderStep ==
  ASSUME NEW W, NEW D, NEW O, NEW C, NEW T, BoardsAssumed(W, T), BoardIInv(W, D, O, C), NEW d \in D, NEW o \in O,
         Boards(W, D, O, C, T)!AddDelivery(d, o)
  PROVE  BoardIInv(W, D, O, C)'
<1>1. deliveries' = [deliveries EXCEPT ![d] = [state |-> "unclaimed", order |-> o, driver |-> NoDriver]]
      /\ UNCHANGED <<tab, online, near, mine, mineFailed, press, pending, seen>>
  BY DEF Boards!AddDelivery, Boards!Service!AddDelivery
<1>2. [state |-> "unclaimed", order |-> o, driver |-> NoDriver] \in BoardDelivery(W, O) /\ NoDriver \notin W
  BY DEF BoardDelivery, BoardsAssumed
<1> QED
  BY <1>1, <1>2 DEF BoardIInv

\* Every step of the dashboards keeps the invariant.
LEMMA BoardStep ==
  ASSUME NEW W, NEW D, NEW O, NEW C, NEW T, BoardsAssumed(W, T), BoardIInv(W, D, O, C),
         Boards(W, D, O, C, T)!Next
  PROVE  BoardIInv(W, D, O, C)'
<1>1. ASSUME NEW w \in W,
             \/ \E t \in T : Boards(W, D, O, C, T)!SetActiveTab(w, t)
             \/ Boards(W, D, O, C, T)!ToggleOnline(w) \/ Boards(W, D, O, C, T)!Poll(w)
             \/ Boards(W, D, O, C, T)!GetNearbyDeliveries(w) \/ Boards(W, D, O, C, T)!GetMyDeliveries(w)
             \/ Boards(W, D, O, C, T)!ShowNear(w) \/ Boards(W, D, O, C, T)!ShowMine(w)
      PROVE  BoardIInv(W, D, O, C)'
  BY <1>1, BoardPageStep
<1>2. ASSUME NEW w \in W, NEW c \in C, NEW d \in D,
             Boards(W, D, O, C, T)!ClickClaim(c, w, d) \/ Boards(W, D, O, C, T)!ClickActive(c, w, d)
      PROVE  BoardIInv(W, D, O, C)'
  BY <1>2, BoardClickStep
<1>3. ASSUME NEW c \in C,
             \/ Boards(W, D, O, C, T)!Answer(c) \/ Boards(W, D, O, C, T)!AnswerLost(c)
             \/ Boards(W, D, O, C, T)!Settle(c)
      PROVE  BoardIInv(W, D, O, C)'
  BY <1>3, BoardAnswerStep, BoardLostStep, BoardSettleStep
<1>4. ASSUME NEW d \in D, NEW o \in O, Boards(W, D, O, C, T)!AddDelivery(d, o)
      PROVE  BoardIInv(W, D, O, C)'
  BY <1>4, BoardOrderStep
<1> QED
  BY <1>1, <1>2, <1>3, <1>4 DEF Boards!Next

\* So does a step of another part.
LEMMA BoardStutter ==
  ASSUME NEW W, NEW D, NEW O, NEW C, BoardIInv(W, D, O, C), UNCHANGED dashboardVars
  PROVE  BoardIInv(W, D, O, C)'
BY DEF BoardIInv, dashboardVars

\* The invariant implies the types of the module.
LEMMA BoardTyped ==
  ASSUME NEW W, NEW D, NEW O, NEW C, NEW T, BoardIInv(W, D, O, C)
  PROVE  Boards(W, D, O, C, T)!TypeOK
<1>1. BoardPress(W, D) \subseteq [op : BoardOp \cup {None}, d : D \cup {None}, w : W \cup {None},
                                  at : {"idle", "sent", "answered"}, ok : BOOLEAN]
  <2>1. ASSUME NEW k \in [op : BoardOp, d : D, w : W, at : {"sent", "answered"}, ok : BOOLEAN]
        PROVE  k \in [op : BoardOp \cup {None}, d : D \cup {None}, w : W \cup {None},
                      at : {"idle", "sent", "answered"}, ok : BOOLEAN]
    OBVIOUS
  <2>2. [op |-> None, d |-> None, w |-> None, at |-> "idle", ok |-> FALSE]
          \in [op : BoardOp \cup {None}, d : D \cup {None}, w : W \cup {None},
               at : {"idle", "sent", "answered"}, ok : BOOLEAN]
    OBVIOUS
  <2> QED
    BY <2>1, <2>2 DEF BoardPress
<1>2. BoardDelivery(W, O) = Boards(W, D, O, C, T)!Service!Delivery
  BY DEF BoardDelivery, Boards!Service!Delivery
<1>3. press \in [C -> [op : BoardOp \cup {None}, d : D \cup {None}, w : W \cup {None},
                       at : {"idle", "sent", "answered"}, ok : BOOLEAN]]
  BY <1>1 DEF BoardIInv
<1>4. /\ near \in [W -> Boards(W, D, O, C, T)!Entries(SUBSET D)]
      /\ mine \in [W -> Boards(W, D, O, C, T)!Entries([D -> {"none", "waiting", "delivering", "done"}])]
  <2>1. /\ Boards(W, D, O, C, T)!Entries(SUBSET D) = Cache!Entries(SUBSET D)
        /\ Boards(W, D, O, C, T)!Entries(OwnDeliveries(D)) = Cache!Entries(OwnDeliveries(D))
    BY BoardCache
  <2> QED
    BY <2>1 DEF BoardIInv, OwnDeliveries
<1> QED
  BY <1>2, <1>3, <1>4 DEF BoardIInv, Boards!TypeOK, Boards!Service!TypeOK, Boards!Tab, Boards!Op, BoardTab, BoardOp

-----------------------------------------------------------------------------
(* What drivers are told about pickups, for any number of drivers.         *)


\* The driver w has picked d up.
PickedUp(d, w) == deliveries[d].driver = w /\ deliveries[d].state \in {"delivering", "done"}

\* A delivery is picked up from a list that is shown, and a call that was answered has done it.
PickupsSound(C) ==
  \A c \in C : press[c].at # "idle" /\ press[c].op = "pickup" =>
    /\ mine[press[c].w].data # NoData
    /\ press[c].at = "answered" /\ press[c].ok => PickedUp(press[c].d, press[c].w)

\* A pickup that was reported in front of the list: the list waits for no older answer, and
\* shows nothing older unless its latest fetch failed.
PickupSettled(q, w, fails, d) ==
  /\ q.data # NoData
  /\ q.fetch = "answered" => q.answer[d] \in {"delivering", "done"}
  /\ q.fetch = "idle" /\ w \notin fails => q.data[d] \in {"delivering", "done"}
SeenSound ==
  \A p \in seen : PickedUp(p[1], p[2]) /\ PickupSettled(mine[p[2]], p[2], mineFailed, p[1])

\* Nothing is no list, and no answer on its way is nothing.
ListsSound(W, D) ==
  /\ NoData \notin OwnDeliveries(D)
  /\ \A w \in W : mine[w].fetch = "answered" => mine[w].answer \in OwnDeliveries(D)

\* The inductive invariant of reported pickups.
PickupIInv(W, D, O, C) == BoardIInv(W, D, O, C) /\ ListsSound(W, D) /\ PickupsSound(C) /\ SeenSound

\* Nothing was reported at the start.
LEMMA InitPickups ==
  ASSUME NEW W, NEW D, NEW O, NEW C, NEW T, BoardsAssumed(W, T), NoData \notin OwnDeliveries(D),
         Boards(W, D, O, C, T)!Init
  PROVE  PickupIInv(W, D, O, C)
<1>1. BoardIInv(W, D, O, C)
  BY InitBoards
<1>2. ListsSound(W, D)
  BY BoardCache DEF Boards!Init, Cache!Fresh, ListsSound
<1>3. PickupsSound(C) /\ SeenSound
  BY DEF Boards!Init, Boards!Idle, PickupsSound, SeenSound
<1> QED
  BY <1>1, <1>2, <1>3 DEF PickupIInv

\* The list old becomes new: if it was settled and the delivery is picked up, it still is.
ListGoesOn(D, w, old, oldFails, new, newFails) ==
  /\ old.data # NoData => new.data # NoData
  /\ new.fetch = "answered" => new.answer \in OwnDeliveries(D)
  /\ \A d \in D : PickedUp(d, w) /\ PickupSettled(old, w, oldFails, d) => PickupSettled(new, w, newFails, d)

\* What happens to the list of one driver so keeps the invariant.
LEMMA ListSettles ==
  ASSUME NEW W, NEW D, NEW O, NEW C, NEW w \in W, PickupIInv(W, D, O, C),
         BoardIInv(W, D, O, C)', UNCHANGED <<deliveries, press, seen>>,
         NEW q, mine' = [mine EXCEPT ![w] = q], ListGoesOn(D, w, mine[w], mineFailed, q, mineFailed'),
         mineFailed' \in {mineFailed, mineFailed \ {w}, mineFailed \cup {w}}
  PROVE  PickupIInv(W, D, O, C)'
<1>1. mine' \in [W -> Cache!Entries(OwnDeliveries(D))] /\ seen \subseteq D \X W
      /\ mine \in [W -> Cache!Entries(OwnDeliveries(D))]
      /\ press \in [C -> BoardPress(W, D)]
  BY DEF PickupIInv, BoardIInv
<1>2. mine'[w] = q /\ \A v \in W \ {w} : mine'[v] = mine[v]
  BY <1>1
<1>3. ListsSound(W, D)'
  BY <1>2 DEF PickupIInv, ListsSound, ListGoesOn
<1>4. PickupsSound(C)'
  <2>1. \A c \in C : press[c].at # "idle" => press[c].w \in W
    BY <1>1 DEF BoardPress
  <2> QED
    BY <1>2, <2>1 DEF PickupIInv, PickupsSound, PickedUp, ListGoesOn
<1>5. SeenSound'
  <2> SUFFICES ASSUME NEW p \in seen
               PROVE  PickedUp(p[1], p[2]) /\ PickupSettled(mine'[p[2]], p[2], mineFailed', p[1])
    BY DEF SeenSound, PickedUp
  <2>1. p[1] \in D /\ p[2] \in W /\ PickedUp(p[1], p[2])
        /\ PickupSettled(mine[p[2]], p[2], mineFailed, p[1])
    BY <1>1 DEF PickupIInv, SeenSound
  <2>2. CASE p[2] = w
    BY <1>2, <2>1, <2>2 DEF ListGoesOn
  <2>3. CASE p[2] # w
    <3>1. mine'[p[2]] = mine[p[2]] /\ (p[2] \in mineFailed' <=> p[2] \in mineFailed)
      BY <1>2, <2>1, <2>3
    <3> QED
      BY <2>1, <3>1 DEF PickupSettled
  <2> QED
    BY <2>2, <2>3
<1> QED
  BY <1>3, <1>4, <1>5 DEF PickupIInv

\* Tabs, the toggle, fetches and what they bring.
LEMMA PickupPageStep ==
  ASSUME NEW W, NEW D, NEW O, NEW C, NEW T, BoardsAssumed(W, T), PickupIInv(W, D, O, C),
         BoardIInv(W, D, O, C)', NEW w \in W,
         \/ \E t \in T : Boards(W, D, O, C, T)!SetActiveTab(w, t)
         \/ Boards(W, D, O, C, T)!ToggleOnline(w) \/ Boards(W, D, O, C, T)!Poll(w)
         \/ Boards(W, D, O, C, T)!GetNearbyDeliveries(w) \/ Boards(W, D, O, C, T)!GetMyDeliveries(w)
         \/ Boards(W, D, O, C, T)!ShowNear(w) \/ Boards(W, D, O, C, T)!ShowMine(w)
  PROVE  PickupIInv(W, D, O, C)'
<1> DEFINE q == mine[w]
<1>1. q \in Cache!Entries(OwnDeliveries(D)) /\ Boards(W, D, O, C, T)!Own(w) \in OwnDeliveries(D)
  <2>1. \A d \in D : deliveries[d].driver = w => deliveries[d].state \in {"waiting", "delivering", "done"}
    BY DEF PickupIInv, BoardIInv
  <2> QED
    BY <2>1 DEF Boards!Own, OwnDeliveries, PickupIInv, BoardIInv
<1>2. NoData \notin OwnDeliveries(D) /\ (q.fetch = "answered" => q.answer \in OwnDeliveries(D))
  BY DEF PickupIInv, ListsSound
<1>3. UNCHANGED <<deliveries, press, seen>>
  BY DEF Boards!SetActiveTab, Boards!ToggleOnline, Boards!Poll, Boards!GetNearbyDeliveries,
         Boards!GetMyDeliveries, Boards!ShowNear, Boards!ShowMine
<1>4. CASE UNCHANGED <<mine, mineFailed>>
  BY <1>3, <1>4 DEF PickupIInv, ListsSound, PickupsSound, SeenSound, PickedUp
<1>5. CASE mine' = [mine EXCEPT ![w] = Cache!Fetching(q)] /\ UNCHANGED mineFailed
  <2>1. /\ Cache!Fetching(q).data = q.data
        /\ \/ Cache!Fetching(q) = q
           \/ Cache!Fetching(q).fetch = "sent"
    BY <1>1 DEF Cache!Fetching, Cache!Entries
  <2> DEFINE r == Cache!Fetching(q)
  <2> HIDE DEF r
  <2>2. \A d \in D : PickupSettled(q, w, mineFailed, d) => PickupSettled(r, w, mineFailed, d)
    BY <2>1 DEF PickupSettled, r
  <2>3. (q.data # NoData => r.data # NoData) /\ (r.fetch = "answered" => r.answer \in OwnDeliveries(D))
    BY <1>2, <2>1 DEF r
  <2>4. mine' = [mine EXCEPT ![w] = r]
    BY <1>5 DEF r
  <2>9. ListGoesOn(D, w, mine[w], mineFailed, r, mineFailed')
    BY <1>5, <2>2, <2>3 DEF ListGoesOn
  <2> QED
    BY <1>3, <1>5, <2>4, <2>9, ListSettles
<1>6. CASE /\ q.fetch = "sent" /\ mine' = [mine EXCEPT ![w] = Cache!Served(q, Boards(W, D, O, C, T)!Own(w))]
           /\ UNCHANGED mineFailed
  <2> DEFINE listed == Boards(W, D, O, C, T)!Own(w)
             r == Cache!Served(q, listed)
  <2>1. r.data = q.data /\ r.fetch = "answered" /\ r.answer = listed
    BY <1>1 DEF Cache!Served, Cache!Entries
  <2>2. \A d \in D : PickedUp(d, w) => listed[d] \in {"delivering", "done"}
    BY DEF Boards!Own, PickedUp
  <2> HIDE DEF listed, r
  <2>3. \A d \in D : PickedUp(d, w) /\ PickupSettled(q, w, mineFailed, d)
                       => PickupSettled(r, w, mineFailed, d)
    BY <2>1, <2>2 DEF PickupSettled
  <2>4. listed \in OwnDeliveries(D) /\ mine' = [mine EXCEPT ![w] = r]
    BY <1>1, <1>6 DEF listed, r
  <2>9. ListGoesOn(D, w, mine[w], mineFailed, r, mineFailed')
    BY <1>6, <2>1, <2>3, <2>4 DEF ListGoesOn
  <2> QED
    BY <1>3, <1>6, <2>4, <2>9, ListSettles
<1>7. CASE /\ q.fetch = "answered" /\ mine' = [mine EXCEPT ![w] = Cache!Filled(q)]
           /\ mineFailed' = mineFailed \ {w}
  <2> DEFINE r == Cache!Filled(q)
  <2>1. r.data = q.answer /\ r.fetch = "idle"
    BY <1>1 DEF Cache!Filled, Cache!Entries
  <2> HIDE DEF r
  <2>2. \A d \in D : PickupSettled(q, w, mineFailed, d) => PickupSettled(r, w, mineFailed', d)
    BY <1>2, <1>7, <2>1 DEF PickupSettled
  <2>3. r.data # NoData /\ mine' = [mine EXCEPT ![w] = r]
    BY <1>2, <1>7, <2>1 DEF r
  <2>9. ListGoesOn(D, w, mine[w], mineFailed, r, mineFailed')
    BY <1>7, <2>1, <2>2, <2>3 DEF ListGoesOn
  <2> QED
    BY <1>3, <1>7, <2>3, <2>9, ListSettles
<1>8. CASE /\ q.fetch = "sent" /\ q.data # NoData /\ mine' = [mine EXCEPT ![w] = Cache!Failed(q)]
           /\ mineFailed' = mineFailed \cup {w}
  <2> DEFINE r == Cache!Failed(q)
  <2>1. r.data = q.data /\ r.fetch = "idle"
    BY <1>1 DEF Cache!Failed, Cache!Entries
  <2> HIDE DEF r
  <2>2. \A d \in D : PickupSettled(q, w, mineFailed, d) => PickupSettled(r, w, mineFailed', d)
    BY <1>8, <2>1 DEF PickupSettled
  <2>3. mine' = [mine EXCEPT ![w] = r]
    BY <1>8 DEF r
  <2>9. ListGoesOn(D, w, mine[w], mineFailed, r, mineFailed')
    BY <1>8, <2>1, <2>2, <2>3 DEF ListGoesOn
  <2> QED
    BY <1>3, <1>8, <2>3, <2>9, ListSettles
<1> QED
  BY <1>4, <1>5, <1>6, <1>7, <1>8, BoardCache
     DEF Boards!SetActiveTab, Boards!ToggleOnline, Boards!Poll, Boards!GetNearbyDeliveries,
         Boards!GetMyDeliveries, Boards!ShowNear, Boards!ShowMine

\* A button of a card is clicked.
LEMMA PickupClickStep ==
  ASSUME NEW W, NEW D, NEW O, NEW C, NEW T, PickupIInv(W, D, O, C), BoardIInv(W, D, O, C)',
         NEW w \in W, NEW c \in C, NEW d \in D,
         Boards(W, D, O, C, T)!ClickClaim(c, w, d) \/ Boards(W, D, O, C, T)!ClickActive(c, w, d)
  PROVE  PickupIInv(W, D, O, C)'
<1>1. PICK op \in BoardOp : /\ Boards(W, D, O, C, T)!Click(c, w, op, d)
                            /\ op = "pickup" => mine[w].data # NoData
  <2>1. ASSUME Boards(W, D, O, C, T)!ClickClaim(c, w, d)
        PROVE  "claim" \in BoardOp /\ Boards(W, D, O, C, T)!Click(c, w, "claim", d)
    BY <2>1 DEF Boards!ClickClaim, BoardOp
  <2>2. ASSUME Boards(W, D, O, C, T)!ClickActive(c, w, d)
        PROVE  /\ \/ Boards(W, D, O, C, T)!Click(c, w, "pickup", d)
                  \/ Boards(W, D, O, C, T)!Click(c, w, "complete", d)
               /\ mine[w].data # NoData
    BY <2>2 DEF Boards!ClickActive, Boards!Active, Boards!InState
  <2> QED
    BY <2>1, <2>2 DEF BoardOp
<1> DEFINE k == [op |-> op, d |-> d, w |-> w, at |-> "sent", ok |-> FALSE]
<1>2. UNCHANGED <<deliveries, mine, mineFailed, seen>> /\ press' = [press EXCEPT ![c] = k]
  BY <1>1 DEF Boards!Click
<1>3. k.op = op /\ k.at = "sent" /\ k.w = w
  OBVIOUS
<1> HIDE DEF k
<1>4. \A b \in C : press'[b] = IF b = c THEN k ELSE press[b]
  BY <1>2 DEF PickupIInv, BoardIInv
<1>5. PickupsSound(C)'
  BY <1>1, <1>2, <1>3, <1>4 DEF PickupIInv, PickupsSound, PickedUp
<1>6. ListsSound(W, D)' /\ SeenSound'
  BY <1>2 DEF PickupIInv, ListsSound, SeenSound, PickedUp
<1> QED
  BY <1>5, <1>6 DEF PickupIInv

\* The collection and the calls change so that what was picked up stays picked up, and a call
\* is answered at most by what it did.
LEMMA PickupsStay ==
  ASSUME NEW W, NEW D, NEW O, NEW C, PickupIInv(W, D, O, C), BoardIInv(W, D, O, C)',
         UNCHANGED <<mine, mineFailed, seen>>,
         \A d \in D, w \in W : PickedUp(d, w) => PickedUp(d, w)',
         \A c \in C : press'[c].at # "idle" =>
           /\ press[c].at # "idle" /\ press'[c].op = press[c].op
           /\ press'[c].d = press[c].d /\ press'[c].w = press[c].w
           /\ press'[c].at = "answered" /\ press'[c].ok /\ press'[c].op = "pickup"
                => (press[c].at = "answered" /\ press[c].ok) \/ PickedUp(press[c].d, press[c].w)'
  PROVE  PickupIInv(W, D, O, C)'
<1>1. \A c \in C : press[c].at # "idle" => press[c].d \in D /\ press[c].w \in W
  BY DEF PickupIInv, BoardIInv, BoardPress
<1>2. PickupsSound(C)'
  <2> SUFFICES ASSUME NEW c \in C, press'[c].at # "idle", press'[c].op = "pickup"
               PROVE  /\ mine[press[c].w].data # NoData
                      /\ press'[c].at = "answered" /\ press'[c].ok => PickedUp(press[c].d, press[c].w)'
    BY DEF PickupsSound, PickedUp
  <2>1. /\ mine[press[c].w].data # NoData
        /\ press[c].at = "answered" /\ press[c].ok => PickedUp(press[c].d, press[c].w)
    BY DEF PickupIInv, PickupsSound
  <2> QED
    BY <1>1, <2>1
<1>3. SeenSound'
  <2>1. seen \subseteq D \X W
    BY DEF PickupIInv, BoardIInv
  <2>2. \A p \in seen : PickedUp(p[1], p[2])'
    BY <2>1 DEF PickupIInv, SeenSound
  <2>3. \A p \in seen : PickupSettled(mine[p[2]], p[2], mineFailed, p[1])
    BY DEF PickupIInv, SeenSound
  <2> QED
    BY <2>2, <2>3 DEF SeenSound, PickedUp
<1>4. ListsSound(W, D)'
  BY DEF PickupIInv, ListsSound
<1> QED
  BY <1>2, <1>3, <1>4 DEF PickupIInv

\* The service answers a call.
LEMMA PickupAnswerStep ==
  ASSUME NEW W, NEW D, NEW O, NEW C, NEW T, PickupIInv(W, D, O, C), BoardIInv(W, D, O, C)', NEW c \in C,
         BoardsAssumed(W, T), Boards(W, D, O, C, T)!Answer(c)
  PROVE  PickupIInv(W, D, O, C)'
<1>1. PICK k \in BoardPress(W, D) : k = press[c]
  BY DEF PickupIInv, BoardIInv
<1>2. k.at = "sent" /\ k.d \in D /\ k.w \in W /\ k.op \in BoardOp
  BY <1>1 DEF Boards!Answer, BoardPress
<1>3. PICK ok \in BOOLEAN : ok = Boards(W, D, O, C, T)!Accepts(k.op, k.d, k.w)
  BY DEF Boards!Accepts
<1>4. /\ press' = [press EXCEPT ![c] = [k EXCEPT !.at = "answered", !.ok = ok]]
      /\ UNCHANGED <<mine, mineFailed, seen>>
  BY <1>1, <1>3 DEF Boards!Answer, PickupIInv, BoardIInv
<1> DEFINE r == [k EXCEPT !.at = "answered", !.ok = ok]
<1>5. r.op = k.op /\ r.d = k.d /\ r.w = k.w /\ r.at = "answered" /\ r.ok = ok
  BY <1>2 DEF BoardPress
<1> HIDE DEF r
<1>6. \A b \in C : press'[b] = IF b = c THEN r ELSE press[b]
  BY <1>4 DEF PickupIInv, BoardIInv, r
<1>7. /\ \A d \in D, w \in W : PickedUp(d, w) => PickedUp(d, w)'
      /\ k.op = "pickup" /\ ok => PickedUp(k.d, k.w)'
  <2>0. deliveries \in [D -> BoardDelivery(W, O)] /\ deliveries[k.d] \in BoardDelivery(W, O) /\ NoDriver \notin W
    BY <1>2 DEF PickupIInv, BoardIInv, BoardsAssumed
  <2>1. CASE k.op = "claim" /\ Boards(W, D, O, C, T)!Service!ClaimDelivery(k.d, k.w)
    <3>1. \A d \in D : d # k.d => deliveries'[d] = deliveries[d]
      BY <2>0, <2>1 DEF Boards!Service!ClaimDelivery
    <3>2. \A w \in W : ~PickedUp(k.d, w)
      BY <2>0, <2>1 DEF Boards!Service!ClaimDelivery, PickedUp
    <3> QED
      BY <2>1, <3>1, <3>2 DEF PickedUp
  <2>2. CASE k.op = "pickup" /\ Boards(W, D, O, C, T)!Service!DeliveryPickup(k.d, k.w)
    <3>1. /\ deliveries[k.d].driver = k.w
          /\ deliveries' = [deliveries EXCEPT ![k.d] = [@ EXCEPT !.state = "delivering"]]
      BY <2>2 DEF Boards!Service!DeliveryPickup
    <3>2. /\ \A d \in D : d # k.d => deliveries'[d] = deliveries[d]
          /\ deliveries'[k.d].state = "delivering" /\ deliveries'[k.d].driver = k.w
      BY <1>2, <2>0, <3>1 DEF BoardDelivery
    <3> QED
      BY <1>2, <3>1, <3>2 DEF PickedUp
  <2>3. CASE k.op = "complete" /\ Boards(W, D, O, C, T)!Service!DeliveryComplete(k.d, k.w)
    <3>1. /\ deliveries[k.d].driver = k.w
          /\ deliveries' = [deliveries EXCEPT ![k.d] = [@ EXCEPT !.state = "done"]]
      BY <2>3 DEF Boards!Service!DeliveryComplete
    <3>2. /\ \A d \in D : d # k.d => deliveries'[d] = deliveries[d]
          /\ deliveries'[k.d].state = "done" /\ deliveries'[k.d].driver = k.w
      BY <1>2, <2>0, <3>1 DEF BoardDelivery
    <3> QED
      BY <2>3, <3>1, <3>2 DEF PickedUp
  <2>4. CASE ~ok /\ UNCHANGED deliveries
    BY <2>4 DEF PickedUp
  <2> QED
    BY <1>1, <1>3, <2>1, <2>2, <2>3, <2>4 DEF Boards!Answer
<1>8. \A b \in C : press'[b].at # "idle" =>
        /\ press[b].at # "idle" /\ press'[b].op = press[b].op
        /\ press'[b].d = press[b].d /\ press'[b].w = press[b].w
        /\ press'[b].at = "answered" /\ press'[b].ok /\ press'[b].op = "pickup"
             => (press[b].at = "answered" /\ press[b].ok) \/ PickedUp(press[b].d, press[b].w)'
  <2> SUFFICES ASSUME NEW b \in C, press'[b].at # "idle"
               PROVE  /\ press[b].at # "idle" /\ press'[b].op = press[b].op
                      /\ press'[b].d = press[b].d /\ press'[b].w = press[b].w
                      /\ press'[b].at = "answered" /\ press'[b].ok /\ press'[b].op = "pickup"
                           => (press[b].at = "answered" /\ press[b].ok) \/ PickedUp(press[b].d, press[b].w)'
    OBVIOUS
  <2>1. CASE b = c
    BY <1>1, <1>2, <1>5, <1>6, <1>7, <2>1
  <2>2. CASE b # c
    BY <1>6, <2>2
  <2> QED
    BY <2>1, <2>2
<1> QED
  BY <1>4, <1>7, <1>8, PickupsStay

\* The answer is lost.
LEMMA PickupLostStep ==
  ASSUME NEW W, NEW D, NEW O, NEW C, NEW T, PickupIInv(W, D, O, C), BoardIInv(W, D, O, C)', NEW c \in C,
         Boards(W, D, O, C, T)!AnswerLost(c)
  PROVE  PickupIInv(W, D, O, C)'
<1>1. PICK k \in BoardPress(W, D) : k = press[c]
  BY DEF PickupIInv, BoardIInv
<1> DEFINE r == [k EXCEPT !.ok = FALSE]
<1>2. press' = [press EXCEPT ![c] = r] /\ UNCHANGED <<deliveries, mine, mineFailed, seen>> /\ k.at = "answered"
  BY <1>1 DEF Boards!AnswerLost, PickupIInv, BoardIInv
<1>3. r.op = k.op /\ r.d = k.d /\ r.w = k.w /\ ~r.ok
  BY <1>2 DEF BoardPress
<1> HIDE DEF r
<1>4. \A b \in C : press'[b] = IF b = c THEN r ELSE press[b]
  BY <1>2 DEF PickupIInv, BoardIInv
<1>5. \A d \in D, w \in W : PickedUp(d, w) => PickedUp(d, w)'
  BY <1>2 DEF PickedUp
<1> QED
  BY <1>1, <1>2, <1>3, <1>4, <1>5, PickupsStay

\* A call is reported to the driver: the list in front of it is fetched again.
LEMMA PickupSettleStep ==
  ASSUME NEW W, NEW D, NEW O, NEW C, NEW T, PickupIInv(W, D, O, C), BoardIInv(W, D, O, C)', NEW c \in C,
         Boards(W, D, O, C, T)!Settle(c)
  PROVE  PickupIInv(W, D, O, C)'
<1>1. PICK k \in BoardPress(W, D) : k = press[c]
  BY DEF PickupIInv, BoardIInv
<1>2. k.at = "answered" /\ k.d \in D /\ k.w \in W
  BY <1>1 DEF Boards!Settle, BoardPress
<1>3. /\ UNCHANGED <<deliveries, mineFailed>>
      /\ \A b \in C : press'[b].at # "idle" => press'[b] = press[b]
  BY DEF Boards!Settle, Boards!Idle, PickupIInv, BoardIInv
<1> DEFINE q == mine[k.w]
           r == Cache!Invalidated(q)
<1>4. \/ UNCHANGED <<mine, seen>>
      \/ /\ k.ok /\ mine' = [mine EXCEPT ![k.w] = r]
         /\ seen' = IF k.op = "pickup" THEN seen \cup {<<k.d, k.w>>} ELSE seen
  BY <1>1, BoardCache DEF Boards!Settle, Boards!Refreshed
<1>5. /\ mine \in [W -> Cache!Entries(OwnDeliveries(D))] /\ q \in Cache!Entries(OwnDeliveries(D))
      /\ seen \subseteq D \X W
  BY <1>2 DEF PickupIInv, BoardIInv
<1>6. /\ r.data = q.data /\ (r.fetch = "sent" \/ (q.data = NoData /\ r = q))
  BY <1>5 DEF Cache!Invalidated, Cache!Entries
<1>7. CASE UNCHANGED <<mine, seen>>
  <2>1. \A d \in D, w \in W : PickedUp(d, w) => PickedUp(d, w)'
    BY <1>3 DEF PickedUp
  <2> QED
    BY <1>3, <1>7, <2>1, PickupsStay
<1>8. CASE /\ k.ok /\ mine' = [mine EXCEPT ![k.w] = r]
           /\ seen' = IF k.op = "pickup" THEN seen \cup {<<k.d, k.w>>} ELSE seen
  <2>1. k.op = "pickup" => PickedUp(k.d, k.w) /\ q.data # NoData
    BY <1>1, <1>2, <1>8 DEF PickupIInv, PickupsSound
  <2> HIDE DEF r
  <2>2. mine'[k.w] = r /\ \A v \in W : v # k.w => mine'[v] = mine[v]
    BY <1>2, <1>5, <1>8
  <2>3. ListsSound(W, D)'
    BY <1>6, <2>2 DEF PickupIInv, ListsSound
  <2>4. PickupsSound(C)'
    <3>1. \A b \in C : press[b].at # "idle" => press[b].w \in W
      BY DEF PickupIInv, BoardIInv, BoardPress
    <3>2. \A v \in W : mine[v].data # NoData => mine'[v].data # NoData
      BY <1>6, <2>2
    <3> QED
      BY <1>3, <3>1, <3>2 DEF PickupIInv, PickupsSound, PickedUp
  <2>5. SeenSound'
    <3> SUFFICES ASSUME NEW p \in seen'
                 PROVE  PickedUp(p[1], p[2]) /\ PickupSettled(mine'[p[2]], p[2], mineFailed, p[1])
      BY <1>3 DEF SeenSound, PickedUp
    <3>1. CASE p[2] = k.w
      <4>1. PickedUp(p[1], p[2]) /\ q.data # NoData
        BY <1>8, <2>1, <3>1 DEF PickupIInv, SeenSound, PickupSettled
      <4>2. r.fetch = "sent" /\ r.data # NoData
        BY <1>6, <4>1
      <4> QED
        BY <2>2, <3>1, <4>1, <4>2, <1>2 DEF PickupSettled
    <3>2. CASE p[2] # k.w
      <4>1. p \in seen
        BY <1>8, <3>2
      <4>2. mine'[p[2]] = mine[p[2]]
        BY <1>5, <2>2, <3>2, <4>1
      <4> QED
        BY <4>1, <4>2 DEF PickupIInv, SeenSound
    <3> QED
      BY <3>1, <3>2
  <2> QED
    BY <2>3, <2>4, <2>5 DEF PickupIInv
<1> QED
  BY <1>4, <1>7, <1>8

\* An order becomes ready.
LEMMA PickupOrderStep ==
  ASSUME NEW W, NEW D, NEW O, NEW C, NEW T, PickupIInv(W, D, O, C), BoardIInv(W, D, O, C)', NEW d \in D, NEW o \in O,
         Boards(W, D, O, C, T)!AddDelivery(d, o)
  PROVE  PickupIInv(W, D, O, C)'
<1>1. /\ deliveries[d].state = "absent"
      /\ deliveries' = [deliveries EXCEPT ![d] = [state |-> "unclaimed", order |-> o, driver |-> NoDriver]]
      /\ UNCHANGED <<mine, mineFailed, press, seen>>
  BY DEF Boards!AddDelivery, Boards!Service!AddDelivery
<1>2. \A e \in D, w \in W : PickedUp(e, w) => PickedUp(e, w)'
  <2>1. \A e \in D : e # d => deliveries'[e] = deliveries[e]
    BY <1>1 DEF PickupIInv, BoardIInv
  <2> QED
    BY <1>1, <2>1 DEF PickedUp
<1> QED
  BY <1>1, <1>2, PickupsStay

\* Every step of the dashboards keeps the invariant.
LEMMA PickupStep ==
  ASSUME NEW W, NEW D, NEW O, NEW C, NEW T, BoardsAssumed(W, T), PickupIInv(W, D, O, C),
         Boards(W, D, O, C, T)!Next
  PROVE  PickupIInv(W, D, O, C)'
<1>0. BoardIInv(W, D, O, C)'
  BY BoardStep DEF PickupIInv
<1>1. ASSUME NEW w \in W,
             \/ \E t \in T : Boards(W, D, O, C, T)!SetActiveTab(w, t)
             \/ Boards(W, D, O, C, T)!ToggleOnline(w) \/ Boards(W, D, O, C, T)!Poll(w)
             \/ Boards(W, D, O, C, T)!GetNearbyDeliveries(w) \/ Boards(W, D, O, C, T)!GetMyDeliveries(w)
             \/ Boards(W, D, O, C, T)!ShowNear(w) \/ Boards(W, D, O, C, T)!ShowMine(w)
      PROVE  PickupIInv(W, D, O, C)'
  BY <1>0, <1>1, PickupPageStep
<1>2. ASSUME NEW w \in W, NEW c \in C, NEW d \in D,
             Boards(W, D, O, C, T)!ClickClaim(c, w, d) \/ Boards(W, D, O, C, T)!ClickActive(c, w, d)
      PROVE  PickupIInv(W, D, O, C)'
  BY <1>0, <1>2, PickupClickStep
<1>3. ASSUME NEW c \in C,
             \/ Boards(W, D, O, C, T)!Answer(c) \/ Boards(W, D, O, C, T)!AnswerLost(c)
             \/ Boards(W, D, O, C, T)!Settle(c)
      PROVE  PickupIInv(W, D, O, C)'
  BY <1>0, <1>3, PickupAnswerStep, PickupLostStep, PickupSettleStep
<1>4. ASSUME NEW d \in D, NEW o \in O, Boards(W, D, O, C, T)!AddDelivery(d, o)
      PROVE  PickupIInv(W, D, O, C)'
  BY <1>0, <1>4, PickupOrderStep
<1> QED
  BY <1>1, <1>2, <1>3, <1>4 DEF Boards!Next

\* A list that has settled shows what was picked up.
LEMMA PickupIsShown ==
  ASSUME NEW W, NEW D, NEW O, NEW C, NEW T, PickupIInv(W, D, O, C)
  PROVE  Boards(W, D, O, C, T)!PickupShown
<1> SUFFICES ASSUME NEW p \in seen, mine[p[2]].fetch = "idle", p[2] \notin mineFailed
             PROVE  p[1] \in Boards(W, D, O, C, T)!InState(p[2], {"delivering", "done"})
  BY DEF Boards!PickupShown
<1>1. p[1] \in D
  BY DEF PickupIInv, BoardIInv
<1>2. mine[p[2]].data # NoData /\ mine[p[2]].data[p[1]] \in {"delivering", "done"}
  BY DEF PickupIInv, SeenSound, PickupSettled
<1> QED
  BY <1>1, <1>2 DEF Boards!InState

\* For any drivers, deliveries, orders, calls and tabs: the dashboards keep their types, and a
\* pickup that was reported in front of a driver's list is in the list once it has loaded,
\* although fetches, claims of other drivers and a second call overlap with it (web-ui
\* ActiveDeliveries, DeliveryPickup of delivery.go).
THEOREM DriversSeePickups ==
  ASSUME NEW CONSTANT W, NEW CONSTANT D, NEW CONSTANT O, NEW CONSTANT C, NEW CONSTANT T,
         BoardsAssumed(W, T), NoData \notin OwnDeliveries(D)
  PROVE  Boards(W, D, O, C, T)!Spec => [](Boards(W, D, O, C, T)!TypeOK /\ Boards(W, D, O, C, T)!PickupShown)
<1> DEFINE IInv == PickupIInv(W, D, O, C)
           Good == Boards(W, D, O, C, T)!TypeOK /\ Boards(W, D, O, C, T)!PickupShown
           Starts == Boards(W, D, O, C, T)!Init
           Step == Boards(W, D, O, C, T)!Next
<1>1. Starts => IInv
  BY InitPickups
<1>2. IInv /\ [Step]_(Boards(W, D, O, C, T)!vars) => IInv'
  <2>1. CASE Step
    BY <2>1, PickupStep
  <2>2. IInv /\ UNCHANGED Boards(W, D, O, C, T)!vars => IInv'
    BY BoardStutter
       DEF Boards!vars, dashboardVars, PickupIInv, ListsSound, PickupsSound, SeenSound, PickedUp
  <2> QED
    BY <2>1, <2>2
<1>3. IInv => Good
  BY PickupIsShown, BoardTyped DEF PickupIInv
<1>4. Boards(W, D, O, C, T)!Spec <=> Starts /\ [][Step]_(Boards(W, D, O, C, T)!vars)
  BY DEF Boards!Spec
<1> HIDE DEF IInv, Good, Starts, Step
<1>5. Boards(W, D, O, C, T)!Spec => []Good
  BY <1>1, <1>2, <1>3, <1>4, PTL
<1> QED
  BY <1>5 DEF Good

-----------------------------------------------------------------------------
(* The dashboards of the instance, and the types of all its parts.         *)

\* The dashboards of the instance are those of two drivers with one delivery.
LEMMA SameBoards ==
  /\ Dashboard!Init <=> Boards({"one", "two"}, {"delivery"}, {"order"}, {"call 1", "call 2"}, {"available"})!Init
  /\ Dashboard!Next <=> Boards({"one", "two"}, {"delivery"}, {"order"}, {"call 1", "call 2"}, {"available"})!Next
  /\ Dashboard!TypeOK <=> Boards({"one", "two"}, {"delivery"}, {"order"}, {"call 1", "call 2"}, {"available"})!TypeOK
BY
   DEF Dashboard!Tab, Boards!Tab, Dashboard!Op, Boards!Op, Dashboard!Idle, Boards!Idle, Dashboard!NoCalls,
       Boards!NoCalls, Dashboard!Init, Boards!Init, Dashboard!NearMounted, Boards!NearMounted, Dashboard!MineMounted,
       Boards!MineMounted, Dashboard!Nearby, Boards!Nearby, Dashboard!Own, Boards!Own, Dashboard!SetActiveTab,
       Boards!SetActiveTab, Dashboard!ToggleOnline, Boards!ToggleOnline, Dashboard!Poll, Boards!Poll,
       Dashboard!GetNearbyDeliveries, Boards!GetNearbyDeliveries, Dashboard!GetMyDeliveries, Boards!GetMyDeliveries,
       Dashboard!ShowNear, Boards!ShowNear, Dashboard!ShowMine, Boards!ShowMine, Dashboard!Waits, Boards!Waits,
       Dashboard!Click, Boards!Click, Dashboard!ClickClaim, Boards!ClickClaim, Dashboard!ClickActive,
       Boards!ClickActive, Dashboard!Accepts, Boards!Accepts, Dashboard!Answer, Boards!Answer, Dashboard!AnswerLost,
       Boards!AnswerLost, Dashboard!Refreshed, Boards!Refreshed, Dashboard!Settle, Boards!Settle,
       Dashboard!AddDelivery, Boards!AddDelivery, Dashboard!Next, Boards!Next, Dashboard!TypeOK, Boards!TypeOK,
       Dashboard!InState, Boards!InState, Dashboard!Active, Boards!Active, Dashboard!Available, Boards!Available,
       Dashboard!Fresh, Boards!Fresh, Dashboard!Entries, Boards!Entries, Dashboard!Fetching, Boards!Fetching,
       Dashboard!Served, Boards!Served, Dashboard!Filled, Boards!Filled, Dashboard!Failed, Boards!Failed,
       Dashboard!Invalidated, Boards!Invalidated, Dashboard!Written, Boards!Written, Dashboard!Service!Delivery,
       Boards!Service!Delivery, Dashboard!Service!TypeOK, Boards!Service!TypeOK, Dashboard!Service!Init,
       Boards!Service!Init, Dashboard!Service!AddDelivery, Boards!Service!AddDelivery,
       Dashboard!Service!ClaimDeliveryById, Boards!Service!ClaimDeliveryById, Dashboard!Service!ClaimDelivery,
       Boards!Service!ClaimDelivery, Dashboard!Service!DeliveryPickupOrderStatus,
       Boards!Service!DeliveryPickupOrderStatus, Dashboard!Service!DeliveryPickup, Boards!Service!DeliveryPickup,
       Dashboard!Service!DeliveryComplete, Boards!Service!DeliveryComplete

\* The two instances of upload-service are those that Uploads_proofs is about.
LEMMA SameUploadTypes ==
  (UploadsToS3!TypeOK <=> ToS3!TypeOK) /\ (UploadsToDisk!TypeOK <=> ToDisk!TypeOK)
BY DEF UploadsToS3!TypeOK, UploadsToS3!Name, UploadsToS3!File, ToS3!TypeOK, ToS3!Name, ToS3!File,
       UploadsToDisk!TypeOK, UploadsToDisk!Name, UploadsToDisk!File, ToDisk!TypeOK, ToDisk!Name, ToDisk!File

\* The inductive invariant of the dashboards of the instance.
BoardsLive == BoardIInv({"one", "two"}, {"delivery"}, {"order"}, {"call 1", "call 2"})

\* Nobody is none of the two drivers.
LEMMA AssumedBoards == BoardsAssumed({"one", "two"}, {"available"})
BY NothingAssumption DEF BoardsAssumed, BoardTab

\* At the start.
LEMMA InitBoardsLive == LiveInit => BoardsLive
<1> SUFFICES ASSUME Dashboard!Init PROVE BoardsLive
  BY DEF LiveInit
<1>1. Boards({"one", "two"}, {"delivery"}, {"order"}, {"call 1", "call 2"}, {"available"})!Init
  BY SameBoards
<1> QED
  BY <1>1, AssumedBoards, InitBoards DEF BoardsLive

\* A step of the dashboards keeps it, and so does a step of another part.
LEMMA StepBoardsLive == BoardsLive /\ [LiveNext]_liveVars => BoardsLive'
<1> SUFFICES ASSUME BoardsLive, [LiveNext]_liveVars PROVE BoardsLive'
  OBVIOUS
<1>1. CASE Dashboard!Next
  <2>1. Boards({"one", "two"}, {"delivery"}, {"order"}, {"call 1", "call 2"}, {"available"})!Next
    BY <1>1, SameBoards
  <2> QED
    BY <2>1, AssumedBoards, BoardStep DEF BoardsLive
<1>2. CASE UNCHANGED dashboardVars
  BY <1>2, BoardStutter DEF BoardsLive
<1> QED
  BY <1>1, <1>2 DEF LiveNext, liveVars, pageVars

\* The queue of the instance is the one above.
LEMMA QueueLive == LiveSpec => []NotificationsIInv
<1>1. LiveInit => NotificationsIInv
  BY InitNotifications DEF LiveInit
<1>2. NotificationsIInv /\ [LiveNext]_liveVars => NotificationsIInv'
  <2>1. [LiveNext]_liveVars => [Next]_vars
    <3> SUFFICES ASSUME [LiveNext]_liveVars PROVE Next \/ UNCHANGED queueVars
      BY DEF queueVars
    <3> QED
      BY DEF LiveNext, liveVars, pageVars
  <2> QED
    BY <2>1, NextNotifications
<1> QED
  BY <1>1, <1>2, PTL DEF LiveSpec

\* Whatever part moves, its variables have their types: of the queue and the process of
\* notification-service, of two dashboards with their calls and lists, of the two
\* instances of upload-service.
THEOREM LiveTypeCorrect == LiveSpec => []LiveTypeOK
<1>1. LiveSpec => []UploadsLive
  BY InitUploads, StepUploads, PTL DEF LiveSpec
<1>2. LiveSpec => []BoardsLive
  BY InitBoardsLive, StepBoardsLive, PTL DEF LiveSpec
<1>3. UploadsLive /\ BoardsLive /\ NotificationsIInv => LiveTypeOK
  <2> SUFFICES ASSUME UploadsLive, BoardsLive, NotificationsIInv PROVE LiveTypeOK
    OBVIOUS
  <2>1. Dashboard!TypeOK
    <3>1. Boards({"one", "two"}, {"delivery"}, {"order"}, {"call 1", "call 2"}, {"available"})!TypeOK
      BY BoardTyped DEF BoardsLive
    <3> QED
      BY <3>1, SameBoards
  <2>2. TypeOK
    BY DEF NotificationsIInv
  <2>3. (moving = "s3" => UploadsToS3!TypeOK) /\ (moving = "disk" => UploadsToDisk!TypeOK)
    BY SameUploadTypes DEF UploadsLive, ToS3!UploadsIInv, ToDisk!UploadsIInv
  <2> QED
    BY <2>1, <2>2, <2>3 DEF LiveTypeOK
<1> QED
  BY <1>1, <1>2, <1>3, QueueLive, PTL
=============================================================================
