---------------------------- MODULE Desks_proofs ----------------------------
(***************************************************************************)
(* Proofs about the service that decides on applications and about the     *)
(* pages of owners and administrators.                                     *)
(*                                                                         *)
(* A decision about an application is one: whatever other decisions,       *)
(* withdrawals and deletions of accounts come between the statements of    *)
(* its transaction, it looks as if it were taken when it commits, and      *)
(* drivers are those who were accepted.                                    *)
(*                                                                         *)
(* What the pages report and show is proved for any restaurants, items,    *)
(* applications, pages in use, clicks and presses: the modules of the      *)
(* pages are instantiated with these as parameters, and MCDesks's          *)
(* instances are shown to be cases of them.                                *)
(***************************************************************************)
EXTENDS MCDesks, Naturals, FiniteSets, FiniteSetTheorems, TLAPS

-----------------------------------------------------------------------------
(* The transactions of user-service (DriverApplications.tla).              *)

\* An application that exists has an applicant, and a decision that was read is about
\* an application that exists.
ReferencesSound ==
  /\ \A a \in Application : applications[a].status # "absent" => applications[a].user \in User
  /\ \A r \in Decision : decisions[r].phase # "new" =>
       /\ decisions[r].app \in Application /\ decisions[r].by \in User
       /\ applications[decisions[r].app].status # "absent"

\* What a transaction has read and nobody has written since is still so.  What it has
\* written it has not read too early.
SnapshotsSound ==
  \A r \in Decision : InTx(r) =>
    /\ ~decisions[r].staleApp => applications[decisions[r].app].status = "pending"
    /\ ~decisions[r].staleUser => decisions[r].found = users[ApplicantOf(r)]
    /\ decisions[r].phase \in {"updated", "granted"} => ~decisions[r].staleApp
    /\ decisions[r].phase = "granted" =>
         /\ ~decisions[r].staleUser
         /\ decisions[r].found.profile = NoApplication /\ ~decisions[r].found.deleted

\* No two transactions have written the same document.
LocksExclusive ==
  \A r, q \in Decision : r # q =>
    /\ \A a \in Application : ~(HoldsApplication(r, a) /\ HoldsApplication(q, a))
    /\ \A u \in User : ~(HoldsUser(r, u) /\ HoldsUser(q, u))

\* The inductive invariant.
ApplicationsIInv ==
  TypeOK /\ ReferencesSound /\ SnapshotsSound /\ LocksExclusive /\ DriversWereAccepted

LEMMA InitApplications == Init => ApplicationsIInv
<1> SUFFICES ASSUME Init PROVE ApplicationsIInv
  OBVIOUS
<1>1. TypeOK
  BY DEF Init, TypeOK, NewUser, UserDoc, ApplicationDoc, DecisionRequest
<1>2. ReferencesSound /\ SnapshotsSound /\ LocksExclusive
  BY DEF Init, ReferencesSound, SnapshotsSound, LocksExclusive, InTx, HoldsApplication, HoldsUser
<1>3. DriversWereAccepted
  BY DEF Init, DriversWereAccepted, NewUser
<1>. QED BY <1>1, <1>2, <1>3 DEF ApplicationsIInv

-----------------------------------------------------------------------------
(* Steps that move one decision and write no document *)

LEMMA DecisionMoves ==
  ASSUME ApplicationsIInv, NEW r \in Decision, NEW d \in DecisionRequest,
         decisions' = [decisions EXCEPT ![r] = d],
         UNCHANGED <<users, applications, creating>>,
         d.phase # "new", d.app \in Application, d.by \in User,
         applications[d.app].status # "absent",
         d.phase \in {"read", "updated", "granted"} =>
           /\ ~d.staleApp => applications[d.app].status = "pending"
           /\ ~d.staleUser => d.found = users[applications[d.app].user],
         d.phase \in {"updated", "granted"} =>
           /\ ~d.staleApp
           /\ \A q \in Decision \ {r} : ~HoldsApplication(q, d.app),
         d.phase = "granted" =>
           /\ ~d.staleUser /\ d.found.profile = NoApplication /\ ~d.found.deleted
           /\ \A q \in Decision \ {r} : ~HoldsUser(q, applications[d.app].user)
  PROVE  ApplicationsIInv'
<1> USE DEF ApplicationsIInv
<1>1. /\ decisions'[r] = d
      /\ \A q \in Decision \ {r} : decisions'[q] = decisions[q]
      /\ users' = users /\ applications' = applications
  BY DEF TypeOK
<1>2. TypeOK'
  BY DEF TypeOK
<1>3. ReferencesSound'
  BY <1>1 DEF ReferencesSound
<1>4. SnapshotsSound'
  BY <1>1 DEF SnapshotsSound, InTx, ApplicantOf
<1>5. LocksExclusive'
  BY <1>1 DEF LocksExclusive, HoldsApplication, HoldsUser, ApplicantOf
<1>6. DriversWereAccepted'
  BY <1>1 DEF DriversWereAccepted
<1>. QED BY <1>2, <1>3, <1>4, <1>5, <1>6

\* A transaction that ends holds nothing and is asked nothing.
LEMMA DecisionEnds ==
  ASSUME ApplicationsIInv, NEW r \in Decision, decisions[r].phase # "new",
         NEW phase \in {"retry", "ok", "error"},
         decisions' = [decisions EXCEPT ![r] = Ends(r, phase)],
         UNCHANGED <<users, applications, creating>>
  PROVE  ApplicationsIInv'
<1> DEFINE d == Ends(r, phase)
<1>1. d \in DecisionRequest /\ d.phase = phase /\ d.app = decisions[r].app /\ d.by = decisions[r].by
  BY DEF ApplicationsIInv, TypeOK, DecisionRequest, Ends, NewUser, UserDoc
<1>2. /\ decisions[r].app \in Application /\ decisions[r].by \in User
      /\ applications[decisions[r].app].status # "absent"
  BY DEF ApplicationsIInv, ReferencesSound
<1> HIDE DEF d
<1>. QED BY <1>1, <1>2, DecisionMoves DEF d

LEMMA DecisionReadsIInv ==
  ASSUME ApplicationsIInv, NEW r \in Decision, NEW a \in Application, NEW accept \in BOOLEAN,
         NEW by \in User, DecisionReads(r, a, accept, by)
  PROVE  ApplicationsIInv'
<1> DEFINE u == applications[a].user
           d == [phase |-> IF applications[a].status = "pending" /\ ~users[by].deleted
                           THEN "read" ELSE "error",
                 app |-> a, accept |-> accept, by |-> by,
                 found |-> users[u], staleApp |-> FALSE, staleUser |-> FALSE]
<1>1. u \in User /\ applications[a].status # "absent"
  BY DEF DecisionReads, ApplicationsIInv, ReferencesSound
<1>2. d \in DecisionRequest
  BY <1>1 DEF ApplicationsIInv, TypeOK, DecisionRequest
<1>3. decisions' = [decisions EXCEPT ![r] = d] /\ UNCHANGED <<users, applications, creating>>
  BY DEF DecisionReads
<1>4. /\ d.phase \in {"read", "error"} /\ d.app = a /\ d.by = by /\ d.found = users[u]
      /\ d.phase = "read" => applications[a].status = "pending"
  OBVIOUS
<1> HIDE DEF d
<1>. QED BY <1>1, <1>2, <1>3, <1>4, DecisionMoves

LEMMA DecisionUpdatesIInv ==
  ASSUME ApplicationsIInv, NEW r \in Decision, DecisionUpdates(r)
  PROVE  ApplicationsIInv'
<1> DEFINE d == [decisions[r] EXCEPT !.phase = "updated"]
<1>1. /\ d \in DecisionRequest /\ d.phase = "updated"
      /\ d.app = decisions[r].app /\ d.by = decisions[r].by /\ d.found = decisions[r].found
      /\ d.staleApp = decisions[r].staleApp /\ d.staleUser = decisions[r].staleUser
  BY DEF ApplicationsIInv, TypeOK, DecisionRequest
<1>2. /\ decisions' = [decisions EXCEPT ![r] = d] /\ UNCHANGED <<users, applications, creating>>
      /\ decisions[r].phase = "read" /\ ~decisions[r].staleApp
      /\ \A q \in Decision \ {r} : ~HoldsApplication(q, decisions[r].app)
  BY DEF DecisionUpdates, ApplicationConflict
<1> HIDE DEF d
<1>3. /\ d.app \in Application /\ d.by \in User /\ applications[d.app].status # "absent"
      /\ ~d.staleApp => applications[d.app].status = "pending"
      /\ ~d.staleUser => d.found = users[applications[d.app].user]
  BY <1>1, <1>2 DEF ApplicationsIInv, ReferencesSound, SnapshotsSound, InTx, ApplicantOf
<1>. QED BY <1>1, <1>2, <1>3, DecisionMoves

LEMMA DecisionGrantsIInv ==
  ASSUME ApplicationsIInv, NEW r \in Decision, DecisionGrants(r)
  PROVE  ApplicationsIInv'
<1> DEFINE d == [decisions[r] EXCEPT !.phase = "granted"]
<1>1. /\ d \in DecisionRequest /\ d.phase = "granted"
      /\ d.app = decisions[r].app /\ d.by = decisions[r].by /\ d.found = decisions[r].found
      /\ d.staleApp = decisions[r].staleApp /\ d.staleUser = decisions[r].staleUser
  BY DEF ApplicationsIInv, TypeOK, DecisionRequest
<1>2. /\ decisions' = [decisions EXCEPT ![r] = d] /\ UNCHANGED <<users, applications, creating>>
      /\ decisions[r].phase = "updated" /\ ~decisions[r].staleUser
      /\ decisions[r].found.profile = NoApplication /\ ~decisions[r].found.deleted
      /\ \A q \in Decision \ {r} : ~HoldsUser(q, ApplicantOf(r))
  BY DEF DecisionGrants, UserConflict
<1>3. \A q \in Decision \ {r} : ~HoldsApplication(q, decisions[r].app)
  <2>1. HoldsApplication(r, decisions[r].app) /\ decisions[r].app \in Application
    BY <1>2 DEF HoldsApplication, ApplicationsIInv, ReferencesSound
  <2>. QED BY <2>1 DEF ApplicationsIInv, LocksExclusive
<1> HIDE DEF d
<1>4. /\ d.app \in Application /\ d.by \in User /\ applications[d.app].status # "absent"
      /\ ~d.staleApp /\ applications[d.app].status = "pending"
      /\ d.found = users[applications[d.app].user]
  BY <1>1, <1>2 DEF ApplicationsIInv, ReferencesSound, SnapshotsSound, InTx, ApplicantOf
<1>. QED BY <1>1, <1>2, <1>3, <1>4, DecisionMoves DEF ApplicantOf

-----------------------------------------------------------------------------
(* Steps that write a document *)

\* Writing a user tells the transactions that have read it, and nothing else.
LEMMA StaleUserIs ==
  ASSUME TypeOK, NEW u \in User, NEW q \in Decision
  PROVE  /\ StaleUser(u)[q] \in DecisionRequest
         /\ StaleUser(u)[q].phase = decisions[q].phase
         /\ StaleUser(u)[q].app = decisions[q].app
         /\ StaleUser(u)[q].by = decisions[q].by
         /\ StaleUser(u)[q].accept = decisions[q].accept
         /\ StaleUser(u)[q].found = decisions[q].found
         /\ StaleUser(u)[q].staleApp = decisions[q].staleApp
         /\ StaleUser(u)[q].staleUser <=> decisions[q].staleUser \/ (InTx(q) /\ ApplicantOf(q) = u)
<1>1. decisions[q] \in DecisionRequest
  BY DEF TypeOK
<1>2. CASE InTx(q) /\ ApplicantOf(q) = u
  BY <1>1, <1>2 DEF StaleUser, DecisionRequest
<1>3. CASE ~(InTx(q) /\ ApplicantOf(q) = u)
  BY <1>1, <1>3 DEF StaleUser
<1>. QED BY <1>2, <1>3

LEMMA StaleApplicationIs ==
  ASSUME TypeOK, NEW a \in Application, NEW q \in Decision
  PROVE  /\ StaleApplication(a)[q] \in DecisionRequest
         /\ StaleApplication(a)[q].phase = decisions[q].phase
         /\ StaleApplication(a)[q].app = decisions[q].app
         /\ StaleApplication(a)[q].by = decisions[q].by
         /\ StaleApplication(a)[q].accept = decisions[q].accept
         /\ StaleApplication(a)[q].found = decisions[q].found
         /\ StaleApplication(a)[q].staleUser = decisions[q].staleUser
         /\ StaleApplication(a)[q].staleApp
              <=> decisions[q].staleApp \/ (InTx(q) /\ decisions[q].app = a)
<1>1. decisions[q] \in DecisionRequest
  BY DEF TypeOK
<1>2. CASE InTx(q) /\ decisions[q].app = a
  BY <1>1, <1>2 DEF StaleApplication, DecisionRequest
<1>3. CASE ~(InTx(q) /\ decisions[q].app = a)
  BY <1>1, <1>3 DEF StaleApplication
<1>. QED BY <1>2, <1>3

\* An update of a user's own fields.
LEMMA WriteUserIInv ==
  ASSUME ApplicationsIInv, NEW u \in User, NEW doc \in UserDoc, WriteUser(u, doc),
         doc.profile = users[u].profile, doc.driver = users[u].driver
  PROVE  ApplicationsIInv'
<1> USE DEF ApplicationsIInv
<1>1. /\ users' \in [User -> UserDoc] /\ users'[u] = doc
      /\ \A v \in User \ {u} : users'[v] = users[v]
      /\ applications' = applications /\ creating' = creating
      /\ decisions' = StaleUser(u)
      /\ \A r \in Decision : ~HoldsUser(r, u)
  BY DEF WriteUser, TypeOK
<1>2. TypeOK'
  <2>1. decisions' \in [Decision -> DecisionRequest]
    BY <1>1, StaleUserIs DEF StaleUser
  <2>. QED BY <1>1, <2>1 DEF TypeOK
<1>3. \A q \in Decision :
        /\ decisions'[q].phase = decisions[q].phase
        /\ decisions'[q].app = decisions[q].app
        /\ decisions'[q].by = decisions[q].by
        /\ decisions'[q].found = decisions[q].found
        /\ decisions'[q].staleApp = decisions[q].staleApp
        /\ decisions'[q].staleUser <=> decisions[q].staleUser \/ (InTx(q) /\ ApplicantOf(q) = u)
  BY <1>1, StaleUserIs
<1>4. ReferencesSound'
  BY <1>1, <1>3 DEF ReferencesSound
<1>5. SnapshotsSound'
  <2> SUFFICES ASSUME NEW q \in Decision, decisions[q].phase \in {"read", "updated", "granted"}
               PROVE  /\ ~decisions[q].staleApp => applications[decisions[q].app].status = "pending"
                      /\ ~decisions'[q].staleUser => decisions[q].found = users'[ApplicantOf(q)]
                      /\ decisions[q].phase \in {"updated", "granted"} => ~decisions[q].staleApp
                      /\ decisions[q].phase = "granted" =>
                           /\ ~decisions'[q].staleUser
                           /\ decisions[q].found.profile = NoApplication /\ ~decisions[q].found.deleted
    BY <1>1, <1>3 DEF SnapshotsSound, InTx, ApplicantOf
  <2>1. InTx(q) /\ ApplicantOf(q) \in User
    BY DEF InTx, ApplicantOf, ReferencesSound
  <2>2. ~decisions'[q].staleUser => ~decisions[q].staleUser /\ ApplicantOf(q) # u
    BY <1>3, <2>1
  <2>3. decisions[q].phase = "granted" => ApplicantOf(q) # u
    BY <1>1 DEF HoldsUser
  <2>. QED BY <1>1, <1>3, <2>1, <2>2, <2>3 DEF SnapshotsSound
<1>6. LocksExclusive'
  BY <1>1, <1>3 DEF LocksExclusive, HoldsApplication, HoldsUser, ApplicantOf
<1>7. DriversWereAccepted'
  BY <1>1 DEF DriversWereAccepted
<1>. QED BY <1>2, <1>4, <1>5, <1>6, <1>7

\* A pending application nobody else holds is closed, and the transactions that have
\* read it, or a user that is written with it, are told.
LEMMA ApplicationCloses ==
  ASSUME ApplicationsIInv, NEW a \in Application, NEW doc \in ApplicationDoc,
         applications[a].status = "pending", doc.status # "absent",
         doc.user = applications[a].user, applications' = [applications EXCEPT ![a] = doc],
         \A q \in Decision : decisions'[q].phase # "new" =>
           /\ decisions[q].phase # "new"
           /\ decisions'[q].app = decisions[q].app /\ decisions'[q].by = decisions[q].by,
         \A q \in Decision : decisions'[q].phase \in {"read", "updated", "granted"} =>
           /\ decisions'[q].phase = decisions[q].phase /\ decisions'[q].found = decisions[q].found
           /\ ~HoldsApplication(q, a)
           /\ decisions'[q].staleApp <=> decisions[q].staleApp \/ decisions[q].app = a
           /\ ~decisions'[q].staleUser => /\ ~decisions[q].staleUser
                                         /\ users'[ApplicantOf(q)] = users[ApplicantOf(q)]
           /\ decisions[q].phase = "granted" => ~decisions'[q].staleUser
  PROVE  ReferencesSound' /\ SnapshotsSound' /\ LocksExclusive'
<1> USE DEF ApplicationsIInv
<1>1. /\ applications'[a] = doc
      /\ \A b \in Application \ {a} : applications'[b] = applications[b]
  BY DEF TypeOK
<1>2. \A b \in Application : applications'[b].user = applications[b].user
  BY <1>1
<1>3. ReferencesSound'
  BY <1>1, <1>2 DEF ReferencesSound
<1>4. SnapshotsSound'
  <2> SUFFICES ASSUME NEW q \in Decision, decisions'[q].phase \in {"read", "updated", "granted"}
               PROVE  /\ ~decisions'[q].staleApp => applications'[decisions'[q].app].status = "pending"
                      /\ ~decisions'[q].staleUser
                           => decisions'[q].found = users'[applications'[decisions'[q].app].user]
                      /\ decisions'[q].phase \in {"updated", "granted"} => ~decisions'[q].staleApp
                      /\ decisions'[q].phase = "granted" =>
                           /\ ~decisions'[q].staleUser
                           /\ decisions'[q].found.profile = NoApplication
                           /\ ~decisions'[q].found.deleted
    BY DEF SnapshotsSound, InTx, ApplicantOf
  <2>1. /\ decisions'[q].phase = decisions[q].phase /\ decisions'[q].app = decisions[q].app
        /\ decisions'[q].found = decisions[q].found /\ decisions[q].app \in Application
    BY DEF ReferencesSound
  <2>2. InTx(q)
    BY <2>1 DEF InTx
  <2>3. decisions[q].phase \in {"updated", "granted"} => decisions[q].app # a
    BY DEF HoldsApplication
  <2>. QED BY <1>1, <1>2, <2>1, <2>2, <2>3 DEF SnapshotsSound, ApplicantOf
<1>5. LocksExclusive'
  <2>1. \A q \in Decision, b \in Application : HoldsApplication(q, b)' => HoldsApplication(q, b)
    BY DEF HoldsApplication
  <2>2. \A q \in Decision, u \in User : HoldsUser(q, u)' => HoldsUser(q, u)
    BY <1>2 DEF HoldsUser, ApplicantOf, ReferencesSound
  <2>. QED BY <2>1, <2>2 DEF LocksExclusive
<1>. QED BY <1>3, <1>4, <1>5

LEMMA CreateInsertsIInv ==
  ASSUME ApplicationsIInv, NEW u \in User, NEW a \in Application, CreateInserts(u, a)
  PROVE  ApplicationsIInv'
<1> USE DEF ApplicationsIInv
<1> DEFINE doc == [status |-> "pending", user |-> u, handled |-> NoUser]
<1>1. /\ applications' = [applications EXCEPT ![a] = doc] /\ users' = users /\ decisions' = decisions
      /\ applications[a].status = "absent" /\ creating' \in SUBSET User
  BY DEF CreateInserts, TypeOK
<1>2. /\ doc \in ApplicationDoc /\ applications'[a] = doc
      /\ \A b \in Application \ {a} : applications'[b] = applications[b]
  BY <1>1 DEF TypeOK, ApplicationDoc
<1>3. doc.status = "pending" /\ doc.user = u
  OBVIOUS
<1> HIDE DEF doc
<1>4. TypeOK'
  BY <1>1, <1>2 DEF TypeOK
<1>5. ReferencesSound'
  BY <1>1, <1>2, <1>3 DEF ReferencesSound
\* No decision is about an application that did not exist.
<1>6. \A q \in Decision : decisions[q].phase # "new" =>
         /\ decisions[q].app \in Application
         /\ applications'[decisions[q].app] = applications[decisions[q].app]
  BY <1>1, <1>2 DEF ReferencesSound
<1>7. SnapshotsSound'
  BY <1>1, <1>6 DEF SnapshotsSound, InTx, ApplicantOf
<1>8. LocksExclusive'
  BY <1>1, <1>6 DEF LocksExclusive, HoldsApplication, HoldsUser, ApplicantOf
<1>9. DriversWereAccepted'
  <2>1. \A b \in Application, v \in User :
           applications'[b].status = "accepted" /\ applications'[b].user = v
             <=> applications[b].status = "accepted" /\ applications[b].user = v
    BY <1>1, <1>2, <1>3
  <2>. QED BY <1>1, <2>1 DEF DriversWereAccepted
<1>. QED BY <1>4, <1>5, <1>7, <1>8, <1>9

LEMMA WithdrawIInv ==
  ASSUME ApplicationsIInv, NEW u \in User, NEW a \in Application, WithdrawApplication(u, a)
  PROVE  ApplicationsIInv'
<1> USE DEF ApplicationsIInv
<1> DEFINE doc == [applications[a] EXCEPT !.status = "withdrawn"]
<1>1. /\ applications' = [applications EXCEPT ![a] = doc] /\ users' = users /\ creating' = creating
      /\ decisions' = StaleApplication(a) /\ applications[a].status = "pending"
      /\ \A q \in Decision : ~HoldsApplication(q, a)
  BY DEF WithdrawApplication
<1>2. doc \in ApplicationDoc /\ doc.status = "withdrawn" /\ doc.user = applications[a].user
  BY DEF TypeOK, ApplicationDoc
<1> HIDE DEF doc
<1>3. TypeOK'
  <2>1. decisions' \in [Decision -> DecisionRequest]
    BY <1>1, StaleApplicationIs DEF StaleApplication
  <2>. QED BY <1>1, <1>2, <2>1 DEF TypeOK
<1>4. \A q \in Decision :
        /\ decisions'[q].phase = decisions[q].phase
        /\ decisions'[q].app = decisions[q].app
        /\ decisions'[q].by = decisions[q].by
        /\ decisions'[q].found = decisions[q].found
        /\ decisions'[q].staleUser = decisions[q].staleUser
        /\ decisions'[q].staleApp <=> decisions[q].staleApp \/ (InTx(q) /\ decisions[q].app = a)
  BY <1>1, StaleApplicationIs
<1>5. ReferencesSound' /\ SnapshotsSound' /\ LocksExclusive'
  <2>1. \A q \in Decision : decisions[q].phase = "granted" => ~decisions[q].staleUser
    BY DEF SnapshotsSound, InTx
  <2>2. \A q \in Decision : decisions'[q].phase \in {"read", "updated", "granted"} =>
          /\ decisions'[q].phase = decisions[q].phase /\ decisions'[q].found = decisions[q].found
          /\ ~HoldsApplication(q, a)
          /\ decisions'[q].staleApp <=> decisions[q].staleApp \/ decisions[q].app = a
          /\ ~decisions'[q].staleUser => /\ ~decisions[q].staleUser
                                        /\ users'[ApplicantOf(q)] = users[ApplicantOf(q)]
          /\ decisions[q].phase = "granted" => ~decisions'[q].staleUser
    BY <1>1, <1>4, <2>1 DEF InTx
  <2>3. \A q \in Decision : decisions'[q].phase # "new" =>
          /\ decisions[q].phase # "new"
          /\ decisions'[q].app = decisions[q].app /\ decisions'[q].by = decisions[q].by
    BY <1>4
  <2>4. ApplicationsIInv /\ doc.status # "absent"
    BY <1>2
  <2> HIDE DEF ApplicationsIInv
  <2>. QED BY <1>1, <1>2, <2>2, <2>3, <2>4, ApplicationCloses
<1>6. DriversWereAccepted'
  <2>1. \A b \in Application, v \in User :
           applications'[b].status = "accepted" /\ applications'[b].user = v
             <=> applications[b].status = "accepted" /\ applications[b].user = v
    BY <1>1, <1>2 DEF TypeOK
  <2>. QED BY <1>1, <2>1 DEF DriversWereAccepted
<1>. QED BY <1>3, <1>5, <1>6

\* A decision that is about to commit is about a pending application, and holds it alone.
LEMMA HeldIsPending ==
  ASSUME ApplicationsIInv, NEW r \in Decision, decisions[r].phase \in {"updated", "granted"}
  PROVE  /\ decisions[r].app \in Application /\ decisions[r].by \in User /\ ApplicantOf(r) \in User
         /\ applications[decisions[r].app].status = "pending"
         /\ \A q \in Decision \ {r} : ~HoldsApplication(q, decisions[r].app)
<1>1. HoldsApplication(r, decisions[r].app) /\ InTx(r)
  BY DEF HoldsApplication, InTx
<1>. QED BY <1>1 DEF ApplicationsIInv, ReferencesSound, SnapshotsSound, LocksExclusive, ApplicantOf

\* One that grants has found the applicant as the account still is: without a profile.
LEMMA GrantedIsNew ==
  ASSUME ApplicationsIInv, NEW r \in Decision, decisions[r].phase = "granted"
  PROVE  /\ ~users[ApplicantOf(r)].deleted
         /\ users[ApplicantOf(r)].profile = NoApplication
         /\ \A q \in Decision \ {r} : ~HoldsUser(q, ApplicantOf(r))
<1>1. HoldsUser(r, ApplicantOf(r)) /\ InTx(r)
  BY DEF HoldsUser, InTx
<1>. QED BY <1>1, HeldIsPending DEF ApplicationsIInv, SnapshotsSound, LocksExclusive

LEMMA DenyIInv ==
  ASSUME ApplicationsIInv, NEW r \in Decision, DenyCommits(r)
  PROVE  ApplicationsIInv'
<1> DEFINE a == decisions[r].app
           doc == [applications[a] EXCEPT !.status = "rejected", !.handled = decisions[r].by]
<1>0. TypeOK /\ ReferencesSound /\ SnapshotsSound /\ DriversWereAccepted
  BY DEF ApplicationsIInv
<1>1. /\ a \in Application /\ decisions[r].by \in User /\ applications[a].status = "pending"
      /\ \A q \in Decision \ {r} : ~HoldsApplication(q, a)
  BY HeldIsPending DEF DenyCommits
<1>2. /\ applications' = [applications EXCEPT ![a] = doc] /\ users' = users /\ creating' = creating
      /\ decisions' = [StaleApplication(a) EXCEPT ![r] = Ends(r, "ok")]
  BY <1>0, <1>1 DEF DenyCommits, TypeOK, ApplicationDoc
<1>3. doc \in ApplicationDoc /\ doc.status = "rejected" /\ doc.user = applications[a].user
  BY <1>0, <1>1 DEF TypeOK, ApplicationDoc
<1> HIDE DEF doc
<1>4. /\ Ends(r, "ok") \in DecisionRequest /\ Ends(r, "ok").phase = "ok"
      /\ Ends(r, "ok").app = decisions[r].app /\ Ends(r, "ok").by = decisions[r].by
  BY <1>0 DEF TypeOK, DecisionRequest, Ends, NewUser, UserDoc
<1>5. /\ decisions' \in [Decision -> DecisionRequest] /\ decisions'[r] = Ends(r, "ok")
      /\ \A q \in Decision \ {r} : decisions'[q] = StaleApplication(a)[q]
  BY <1>0, <1>1, <1>2, <1>4, StaleApplicationIs DEF StaleApplication
<1>6. TypeOK'
  BY <1>0, <1>2, <1>3, <1>5 DEF TypeOK
<1>7. \A q \in Decision : decisions'[q].phase # "new" =>
        /\ decisions[q].phase # "new"
        /\ decisions'[q].app = decisions[q].app /\ decisions'[q].by = decisions[q].by
  BY <1>0, <1>1, <1>4, <1>5, StaleApplicationIs DEF DenyCommits
<1>8. \A q \in Decision : decisions'[q].phase \in {"read", "updated", "granted"} =>
        /\ decisions'[q].phase = decisions[q].phase /\ decisions'[q].found = decisions[q].found
        /\ ~HoldsApplication(q, a)
        /\ decisions'[q].staleApp <=> decisions[q].staleApp \/ decisions[q].app = a
        /\ ~decisions'[q].staleUser => /\ ~decisions[q].staleUser
                                      /\ users'[ApplicantOf(q)] = users[ApplicantOf(q)]
        /\ decisions[q].phase = "granted" => ~decisions'[q].staleUser
  <2> SUFFICES ASSUME NEW q \in Decision \ {r}, InTx(q)
               PROVE  /\ decisions'[q].phase = decisions[q].phase
                      /\ decisions'[q].found = decisions[q].found
                      /\ decisions'[q].staleApp <=> decisions[q].staleApp \/ decisions[q].app = a
                      /\ decisions'[q].staleUser = decisions[q].staleUser
                      /\ decisions[q].phase = "granted" => ~decisions[q].staleUser
    BY <1>0, <1>1, <1>2, <1>4, <1>5, StaleApplicationIs DEF InTx
  <2>. QED BY <1>0, <1>1, <1>5, StaleApplicationIs DEF SnapshotsSound
<1>9. ReferencesSound' /\ SnapshotsSound' /\ LocksExclusive'
  BY <1>1, <1>2, <1>3, <1>7, <1>8, ApplicationCloses
<1>10. DriversWereAccepted'
  <2>1. \A b \in Application, v \in User :
           applications'[b].status = "accepted" /\ applications'[b].user = v
             <=> applications[b].status = "accepted" /\ applications[b].user = v
    BY <1>0, <1>1, <1>2, <1>3 DEF TypeOK
  <2>. QED BY <1>0, <1>2, <2>1 DEF DriversWereAccepted
<1>. QED BY <1>6, <1>9, <1>10 DEF ApplicationsIInv

LEMMA AcceptIInv ==
  ASSUME ApplicationsIInv, NEW r \in Decision, AcceptCommits(r)
  PROVE  ApplicationsIInv'
<1> DEFINE a == decisions[r].app
           u == ApplicantOf(r)
           doc == [applications[a] EXCEPT !.status = "accepted", !.handled = decisions[r].by]
           driver == [users[u] EXCEPT !.profile = a, !.driver = TRUE]
<1>0. TypeOK /\ ReferencesSound /\ SnapshotsSound /\ DriversWereAccepted
  BY DEF ApplicationsIInv
<1>1. /\ a \in Application /\ u \in User /\ u = applications[a].user /\ decisions[r].by \in User
      /\ applications[a].status = "pending" /\ users[u].profile = NoApplication
      /\ \A q \in Decision \ {r} : ~HoldsApplication(q, a) /\ ~HoldsUser(q, u)
  BY HeldIsPending, GrantedIsNew DEF AcceptCommits, ApplicantOf
<1>2. /\ applications' = [applications EXCEPT ![a] = doc] /\ creating' = creating
      /\ users' = [users EXCEPT ![u] = driver]
  BY <1>0, <1>1 DEF AcceptCommits, TypeOK, ApplicationDoc, UserDoc
<1>3. /\ doc \in ApplicationDoc /\ doc.status = "accepted" /\ doc.user = u
      /\ driver \in UserDoc /\ driver.profile = a /\ driver.driver
  <2>1. applications[a] \in ApplicationDoc /\ users[u] \in UserDoc
    BY <1>0, <1>1 DEF TypeOK
  <2>2. doc \in ApplicationDoc /\ doc.status = "accepted" /\ doc.user = u
    BY <1>1, <2>1 DEF ApplicationDoc
  <2>3. driver \in UserDoc /\ driver.profile = a /\ driver.driver
    BY <1>1, <2>1 DEF UserDoc
  <2>. QED BY <2>2, <2>3
<1>4. /\ Ends(r, "ok") \in DecisionRequest /\ Ends(r, "ok").phase = "ok"
      /\ Ends(r, "ok").app = decisions[r].app /\ Ends(r, "ok").by = decisions[r].by
  BY <1>0 DEF TypeOK, DecisionRequest, Ends, NewUser, UserDoc
<1> DEFINE marked(q) == [decisions[q] EXCEPT !.staleApp = StaleApplication(a)[q].staleApp,
                                           !.staleUser = StaleUser(u)[q].staleUser]
<1>5. \A q \in Decision :
        /\ marked(q) \in DecisionRequest
        /\ marked(q).phase = decisions[q].phase /\ marked(q).app = decisions[q].app
        /\ marked(q).by = decisions[q].by /\ marked(q).found = decisions[q].found
        /\ marked(q).staleApp <=> decisions[q].staleApp \/ (InTx(q) /\ decisions[q].app = a)
        /\ marked(q).staleUser <=> decisions[q].staleUser \/ (InTx(q) /\ ApplicantOf(q) = u)
  <2>1. ASSUME NEW q \in Decision
        PROVE  /\ marked(q) \in DecisionRequest
               /\ marked(q).phase = decisions[q].phase /\ marked(q).app = decisions[q].app
               /\ marked(q).by = decisions[q].by /\ marked(q).found = decisions[q].found
               /\ marked(q).staleApp = StaleApplication(a)[q].staleApp
               /\ marked(q).staleUser = StaleUser(u)[q].staleUser
    <3>1. decisions[q] \in DecisionRequest
      BY <1>0 DEF TypeOK
    <3>2. StaleApplication(a)[q].staleApp \in BOOLEAN /\ StaleUser(u)[q].staleUser \in BOOLEAN
      BY <1>0, <1>1, StaleApplicationIs, StaleUserIs DEF DecisionRequest
    <3>. QED BY <3>1, <3>2 DEF DecisionRequest
  <2> HIDE DEF marked, u, a
  <2>. QED BY <1>0, <1>1, <2>1, StaleApplicationIs, StaleUserIs
<1>6. /\ decisions' \in [Decision -> DecisionRequest] /\ decisions'[r] = Ends(r, "ok")
      /\ \A q \in Decision \ {r} : decisions'[q] = marked(q)
  <2>1. decisions' = [q \in Decision |-> IF q = r THEN Ends(r, "ok") ELSE marked(q)]
    BY DEF AcceptCommits
  <2> HIDE DEF marked
  <2>. QED BY <1>4, <1>5, <2>1
<1> HIDE DEF doc, driver, marked
<1>7. TypeOK'
  BY <1>0, <1>2, <1>3, <1>6 DEF TypeOK
<1>8. \A q \in Decision : decisions'[q].phase # "new" =>
        /\ decisions[q].phase # "new"
        /\ decisions'[q].app = decisions[q].app /\ decisions'[q].by = decisions[q].by
  BY <1>4, <1>5, <1>6 DEF AcceptCommits
<1>9. \A q \in Decision : decisions'[q].phase \in {"read", "updated", "granted"} =>
        /\ decisions'[q].phase = decisions[q].phase /\ decisions'[q].found = decisions[q].found
        /\ ~HoldsApplication(q, a)
        /\ decisions'[q].staleApp <=> decisions[q].staleApp \/ decisions[q].app = a
        /\ ~decisions'[q].staleUser => /\ ~decisions[q].staleUser
                                      /\ users'[ApplicantOf(q)] = users[ApplicantOf(q)]
        /\ decisions[q].phase = "granted" => ~decisions'[q].staleUser
  <2> SUFFICES ASSUME NEW q \in Decision \ {r}, InTx(q)
               PROVE  /\ ~decisions'[q].staleUser => /\ ~decisions[q].staleUser
                                                    /\ users'[ApplicantOf(q)] = users[ApplicantOf(q)]
                      /\ decisions[q].phase = "granted" => ~decisions'[q].staleUser
    BY <1>1, <1>4, <1>5, <1>6 DEF InTx
  <2>1. ApplicantOf(q) \in User
    BY <1>0 DEF ReferencesSound, InTx, ApplicantOf
  <2>2. ~decisions'[q].staleUser <=> ~decisions[q].staleUser /\ ApplicantOf(q) # u
    BY <1>5, <1>6
  <2>3. decisions[q].phase = "granted" => ~decisions[q].staleUser /\ ApplicantOf(q) # u
    BY <1>0, <1>1 DEF HoldsUser, SnapshotsSound
  <2>. QED BY <1>0, <1>2, <2>1, <2>2, <2>3 DEF TypeOK
<1>10. ReferencesSound' /\ SnapshotsSound' /\ LocksExclusive'
  <2>1. doc.status # "absent" /\ doc.user = applications[a].user
    BY <1>1, <1>3
  <2> HIDE DEF u, a
  <2>. QED BY <1>1, <1>2, <1>3, <1>8, <1>9, <2>1, ApplicationCloses
<1>11. DriversWereAccepted'
  <2>1. /\ applications'[a].status = "accepted" /\ applications'[a].user = u
        /\ \A b \in Application \ {a} : applications'[b] = applications[b]
        /\ users'[u].profile = a /\ users'[u].driver
        /\ \A v \in User \ {u} : users'[v] = users[v]
    BY <1>0, <1>1, <1>2, <1>3 DEF TypeOK
  \* Nothing of the applicant had been accepted before.
  <2>2. \A b \in Application : ~(applications[b].status = "accepted" /\ applications[b].user = u)
    BY <1>0, <1>1 DEF DriversWereAccepted
  <2> HIDE DEF u, a
  <2>3. ASSUME NEW v \in User
        PROVE  /\ {b \in Application : applications'[b].status = "accepted" /\ applications'[b].user = v}
                    = {users'[v].profile} \ {NoApplication}
               /\ users'[v].driver <=> users'[v].profile # NoApplication
    <3>1. CASE v = u
      BY <1>1, <2>1, <2>2, <3>1, ApplicationsAssumption
    <3>2. CASE v # u
      BY <1>0, <1>1, <2>1, <3>2 DEF DriversWereAccepted
    <3>. QED BY <3>1, <3>2
  <2>. QED BY <2>3 DEF DriversWereAccepted
<1>. QED BY <1>7, <1>10, <1>11 DEF ApplicationsIInv

-----------------------------------------------------------------------------
LEMMA NextIInv == ApplicationsIInv /\ [Next]_vars => ApplicationsIInv'
<1> SUFFICES ASSUME ApplicationsIInv, [Next]_vars PROVE ApplicationsIInv'
  OBVIOUS
<1>1. ASSUME NEW u \in User, DeleteUser(u) \/ UpdateUser(u) PROVE ApplicationsIInv'
  <2>1. PICK doc : /\ WriteUser(u, doc)
                   /\ doc = users[u] \/ doc = [users[u] EXCEPT !.deleted = TRUE]
    BY <1>1 DEF DeleteUser, UpdateUser
  <2>2. doc \in UserDoc /\ doc.profile = users[u].profile /\ doc.driver = users[u].driver
    BY <2>1 DEF ApplicationsIInv, TypeOK, UserDoc
  <2>. QED BY <2>1, <2>2, WriteUserIInv
<1>2. ASSUME NEW u \in User, CreateReads(u) \/ CreateAborts(u) PROVE ApplicationsIInv'
  <2>1. /\ creating' \in SUBSET User
        /\ users' = users /\ applications' = applications /\ decisions' = decisions
    BY <1>2 DEF CreateReads, CreateAborts, ApplicationsIInv, TypeOK
  <2>. QED BY <2>1 DEF ApplicationsIInv, TypeOK, ReferencesSound, SnapshotsSound, InTx, ApplicantOf,
                       LocksExclusive, HoldsApplication, HoldsUser, DriversWereAccepted
<1>3. ASSUME NEW r \in Decision, DecisionRefused(r) \/ DecisionConflict(r) \/ DecisionAborts(r)
      PROVE  ApplicationsIInv'
  BY <1>3, DecisionEnds DEF DecisionRefused, DecisionConflict, DecisionAborts, InTx
<1>4. CASE UNCHANGED vars
  BY <1>4 DEF vars, ApplicationsIInv, TypeOK, ReferencesSound, SnapshotsSound, InTx, ApplicantOf,
              LocksExclusive, HoldsApplication, HoldsUser, DriversWereAccepted
<1>5. CASE Next
  BY <1>1, <1>2, <1>3, <1>5, CreateInsertsIInv, WithdrawIInv, DecisionReadsIInv, DecisionUpdatesIInv,
     DecisionGrantsIInv, DenyIInv, AcceptIInv
  DEF Next
<1>. QED BY <1>4, <1>5

LEMMA ApplicationsInvariant == Spec => []ApplicationsIInv
  BY InitApplications, NextIInv, PTL DEF Spec

\* The collections, the requests and the sets of users keep their types.
THEOREM ApplicationsTypeCorrect == Spec => []TypeOK
  BY ApplicationsInvariant, PTL DEF ApplicationsIInv

\* For any number of users, applications and decisions at once: drivers are those of whom
\* an application was accepted, and of nobody two were.
THEOREM DriversAccepted == Spec => []DriversWereAccepted
  BY ApplicationsInvariant, PTL DEF ApplicationsIInv

-----------------------------------------------------------------------------
(* The service implements the lifecycle of applications *)

\* What the mapping makes of a write of one application.
LEMMA MappedApplication ==
  ASSUME TypeOK, NEW a \in Application, NEW doc \in ApplicationDoc,
         applications' = [applications EXCEPT ![a] = doc]
  PROVE  /\ [b \in Application |-> applications'[b].status] =
              [[b \in Application |-> applications[b].status] EXCEPT ![a] = doc.status]
         /\ [b \in Application |-> applications'[b].user] =
              [[b \in Application |-> applications[b].user] EXCEPT ![a] = doc.user]
  BY DEF TypeOK

\* A write that leaves the applicant closes the application.
LEMMA MappedCloses ==
  ASSUME TypeOK, NEW a \in Application, NEW doc \in ApplicationDoc,
         applications' = [applications EXCEPT ![a] = doc], applications[a].status = "pending",
         doc.user = applications[a].user,
         \A u \in User : users'[u].deleted = users[u].deleted
  PROVE  Lifecycle!Closes(a, doc.status)
<1>1. {u \in User : users'[u].deleted} = {u \in User : users[u].deleted}
  OBVIOUS
<1>2. [b \in Application |-> applications'[b].user] = [b \in Application |-> applications[b].user]
  BY DEF TypeOK
<1>. QED BY <1>1, <1>2, MappedApplication DEF Lifecycle!Closes

LEMMA MappedStep == ApplicationsIInv /\ [Next]_vars => [Lifecycle!Next]_Lifecycle!vars
<1> SUFFICES ASSUME ApplicationsIInv, [Next]_vars PROVE [Lifecycle!Next]_Lifecycle!vars
  OBVIOUS
<1>0. TypeOK
  BY DEF ApplicationsIInv
<1>1. CASE UNCHANGED <<users, applications>>
  BY <1>1 DEF Lifecycle!vars
<1>2. ASSUME NEW u \in User, DeleteUser(u) PROVE Lifecycle!Delete(u)
  <2>1. /\ users' = [users EXCEPT ![u] = [users[u] EXCEPT !.deleted = TRUE]]
        /\ applications' = applications /\ ~users[u].deleted
    BY <1>2 DEF DeleteUser, WriteUser
  <2>2. /\ users'[u].deleted /\ users'[u].profile = users[u].profile
        /\ \A v \in User \ {u} : users'[v] = users[v]
    BY <1>0, <2>1 DEF TypeOK, UserDoc
  <2>3. {v \in User : users'[v].deleted} = {v \in User : users[v].deleted} \cup {u}
    BY <2>2
  <2>4. [v \in User |-> users'[v].profile] = [v \in User |-> users[v].profile]
    BY <2>2
  <2>. QED BY <2>1, <2>3, <2>4 DEF Lifecycle!Delete
<1>3. ASSUME NEW u \in User, UpdateUser(u) PROVE UNCHANGED <<users, applications>>
  BY <1>0, <1>3 DEF UpdateUser, WriteUser, TypeOK
<1>4. ASSUME NEW u \in User, NEW a \in Application, CreateInserts(u, a) PROVE Lifecycle!Create(u, a)
  <2> DEFINE doc == [status |-> "pending", user |-> u, handled |-> NoUser]
  <2>1. /\ applications' = [applications EXCEPT ![a] = doc] /\ doc \in ApplicationDoc
        /\ applications[a].status = "absent" /\ users' = users
        /\ doc.status = "pending" /\ doc.user = u
    BY <1>4 DEF CreateInserts, ApplicationDoc
  <2> HIDE DEF doc
  <2>. QED BY <1>0, <2>1, MappedApplication DEF Lifecycle!Create
<1>5. ASSUME NEW u \in User, NEW a \in Application, WithdrawApplication(u, a)
      PROVE  Lifecycle!Withdraw(a)
  <2> DEFINE doc == [applications[a] EXCEPT !.status = "withdrawn"]
  <2>1. /\ applications' = [applications EXCEPT ![a] = doc] /\ doc \in ApplicationDoc
        /\ applications[a].status = "pending" /\ users' = users
        /\ doc.status = "withdrawn" /\ doc.user = applications[a].user
    BY <1>0, <1>5 DEF WithdrawApplication, TypeOK, ApplicationDoc
  <2> HIDE DEF doc
  <2>. QED BY <1>0, <2>1, MappedCloses DEF Lifecycle!Withdraw
<1>6. ASSUME NEW r \in Decision, DenyCommits(r)
      PROVE  \E a \in Application : Lifecycle!Deny(a)
  <2> DEFINE a == decisions[r].app
             doc == [applications[a] EXCEPT !.status = "rejected", !.handled = decisions[r].by]
  <2>1. a \in Application /\ applications[a].status = "pending" /\ decisions[r].by \in User
    BY <1>6, HeldIsPending DEF DenyCommits
  <2>2. /\ applications' = [applications EXCEPT ![a] = doc] /\ doc \in ApplicationDoc /\ users' = users
        /\ doc.status = "rejected" /\ doc.user = applications[a].user
    BY <1>0, <1>6, <2>1 DEF DenyCommits, TypeOK, ApplicationDoc
  <2> HIDE DEF doc, a
  <2>. QED BY <1>0, <2>1, <2>2, MappedCloses DEF Lifecycle!Deny
<1>7. ASSUME NEW r \in Decision, AcceptCommits(r)
      PROVE  \E a \in Application : Lifecycle!Accept(a)
  <2> DEFINE a == decisions[r].app
             u == ApplicantOf(r)
             doc == [applications[a] EXCEPT !.status = "accepted", !.handled = decisions[r].by]
  <2>1. /\ a \in Application /\ applications[a].status = "pending" /\ decisions[r].by \in User
        /\ u \in User /\ u = applications[a].user
        /\ ~users[u].deleted /\ users[u].profile = NoApplication
    BY <1>7, HeldIsPending, GrantedIsNew DEF AcceptCommits, ApplicantOf
  <2>2. /\ applications' = [applications EXCEPT ![a] = doc] /\ doc \in ApplicationDoc
        /\ doc.status = "accepted" /\ doc.user = applications[a].user
    <3>1. applications[a] \in ApplicationDoc
      BY <1>0, <2>1 DEF TypeOK
    <3>2. doc \in ApplicationDoc /\ doc.status = "accepted" /\ doc.user = applications[a].user
      BY <2>1, <3>1 DEF ApplicationDoc
    <3>3. applications' = [applications EXCEPT ![a] = doc]
      BY <1>0, <1>7, <2>1 DEF AcceptCommits, TypeOK, ApplicationDoc
    <3>. QED BY <3>2, <3>3
  <2>3. /\ users'[u].profile = a /\ users'[u].deleted = users[u].deleted
        /\ \A v \in User \ {u} : users'[v] = users[v]
    BY <1>0, <1>7, <2>1 DEF AcceptCommits, TypeOK, UserDoc
  <2> HIDE DEF doc, a, u
  <2>4. [v \in User |-> users'[v].profile] = [[v \in User |-> users[v].profile] EXCEPT ![u] = a]
    BY <2>1, <2>3
  <2>5. Lifecycle!Closes(a, "accepted")
    BY <1>0, <2>1, <2>2, <2>3, MappedCloses
  <2>6. Lifecycle!CanAccept(a)
    BY <2>1 DEF Lifecycle!CanAccept
  <2>. QED BY <2>1, <2>4, <2>5, <2>6 DEF Lifecycle!Accept
<1>8. ASSUME NEW u \in User, CreateReads(u) \/ CreateAborts(u) PROVE UNCHANGED <<users, applications>>
  BY <1>8 DEF CreateReads, CreateAborts
<1>9. ASSUME NEW r \in Decision,
             \/ \E a \in Application, accept \in BOOLEAN, by \in User : DecisionReads(r, a, accept, by)
             \/ DecisionUpdates(r) \/ DecisionGrants(r) \/ DecisionRefused(r)
             \/ DecisionConflict(r) \/ DecisionAborts(r)
      PROVE  UNCHANGED <<users, applications>>
  BY <1>9 DEF DecisionReads, DecisionUpdates, DecisionGrants, DecisionRefused, DecisionConflict,
              DecisionAborts
<1>. QED
  BY <1>1, <1>2, <1>3, <1>4, <1>5, <1>6, <1>7, <1>8, <1>9 DEF Next, vars, Lifecycle!Next

\* Decisions of many steps, with locks, conflicts and retries, look as if each were taken
\* in one, when it commits: the service implements ApplicationLifecycle.
THEOREM ApplicationsRefine == Spec => ImplementsLifecycle
<1>1. Init => Lifecycle!Init
  BY DEF Init, Lifecycle!Init, NewUser
<1>. QED
  BY <1>1, ApplicationsInvariant, MappedStep, PTL DEF Spec, ImplementsLifecycle, Lifecycle!Spec

-----------------------------------------------------------------------------
(* The query cache.                                                        *)

Cache == INSTANCE QueryCache

\* What the operations on an entry of a cache leave and change.
LEMMA EntryFetching ==
  ASSUME NEW V, NEW q \in Cache!Entries(V)
  PROVE  /\ Cache!Fetching(q) \in Cache!Entries(V) /\ Cache!Fetching(q).data = q.data
         /\ Cache!Fetching(q).answer = q.answer
         /\ q.fetch = "idle" => Cache!Fetching(q).fetch = "sent"
         /\ q.fetch # "idle" => Cache!Fetching(q) = q
BY DEF Cache!Entries, Cache!Fetching

\* A query that is answered.
LEMMA EntryServed ==
  ASSUME NEW V, NEW q \in Cache!Entries(V), NEW v \in V
  PROVE  /\ Cache!Served(q, v) \in Cache!Entries(V) /\ Cache!Served(q, v).data = q.data
         /\ Cache!Served(q, v).fetch = "answered" /\ Cache!Served(q, v).answer = v
BY DEF Cache!Entries, Cache!Served

\* The answer of a query becomes its data.
LEMMA EntryFilled ==
  ASSUME NEW V, NEW q \in Cache!Entries(V)
  PROVE  /\ Cache!Filled(q) \in Cache!Entries(V) /\ Cache!Filled(q).data = q.answer
         /\ Cache!Filled(q).fetch = "idle" /\ Cache!Filled(q).answer = NoData
BY DEF Cache!Entries, Cache!Filled

\* A query that fails keeps its data.
LEMMA EntryFailed ==
  ASSUME NEW V, NEW q \in Cache!Entries(V)
  PROVE  /\ Cache!Failed(q) \in Cache!Entries(V) /\ Cache!Failed(q).data = q.data
         /\ Cache!Failed(q).fetch = "idle" /\ Cache!Failed(q).answer = NoData
BY DEF Cache!Entries, Cache!Failed

\* An entry that has data is fetched anew when it is invalidated.
LEMMA EntryInvalidated ==
  ASSUME NEW V, NEW q \in Cache!Entries(V)
  PROVE  /\ Cache!Invalidated(q) \in Cache!Entries(V) /\ Cache!Invalidated(q).data = q.data
         /\ Cache!Invalidated(q) = q \/ Cache!Invalidated(q).fetch = "sent"
         /\ Cache!Invalidated(q).answer \in {NoData, q.answer}
         /\ q.data # NoData => Cache!Invalidated(q).fetch = "sent"
BY DEF Cache!Entries, Cache!Invalidated

-----------------------------------------------------------------------------
(* The pages about restaurants (RestaurantDesk.tla), for any restaurants,  *)
(* pages that are used and clicks at a time.                               *)

Restaurants(Restaurant, Open, Call) ==
  INSTANCE RestaurantDesk
    WITH deleted <- closed, page <- table, cache <- tableCache, call <- click, told <- toldClicks

RestaurantTable == {"all", "pending", "approved"}
RestaurantEntry == RestaurantTable \cup {"details", "list"}

\* "Nothing" is no restaurant, and no list of them; the pages in use are known ones.
RestaurantsAssumed(R, O) ==
  /\ NoRestaurant \notin R /\ NoData \notin R \cup SUBSET R /\ None \notin {"all", "pending"}
  /\ O \subseteq RestaurantEntry

\* What the pages show, or is on its way to them, are restaurants that are stored.
QueriesSound(R) ==
  /\ tableCache \in [RestaurantEntry -> Cache!Entries(R \cup SUBSET R)]
  /\ \A e \in RestaurantEntry :
       tableCache[e] \in Cache!Entries(IF e = "details" THEN R ELSE SUBSET R)
  /\ \A e \in RestaurantEntry : tableCache[e].fetch = "answered" => tableCache[e].answer # NoData
  /\ tableCache["details"].fetch = "sent" => asked \in R
  /\ \A e \in RestaurantEntry \ {"details"}, r \in R : state[r] = "absent" =>
       /\ tableCache[e].data # NoData => r \notin tableCache[e].data
       /\ tableCache[e].answer # NoData => r \notin tableCache[e].answer

\* The deletion or approval of r has happened.
DoneIn(states, gone, op, r) ==
  IF op = "delete" THEN r \in gone ELSE states[r] \in {"approved", "unapproved", "again"}
Done(op, r) == DoneIn(state, closed, op, r)

\* A click is about a restaurant that is stored, and one that was carried out has happened.
ClicksSound(R, C) ==
  /\ toDelete # NoRestaurant => state[toDelete] # "absent"
  /\ \A c \in C : click[c].at # "idle" =>
       /\ click[c].r \in R /\ state[click[c].r] # "absent"
       /\ click[c].from = "all" => click[c].op = "delete"
       /\ click[c].at \in {"sent", "approved"} => ~click[c].ok
       /\ click[c].at = "approved" => click[c].op = "approve" /\ Done("approve", click[c].r)
       /\ click[c].at = "answered" /\ click[c].ok => Done(click[c].op, click[c].r)

ToldSound == \A t \in toldClicks : Done(t.op, t.r)

\* The inductive invariant.
RestaurantsIInv(R, O, C) ==
  Restaurants(R, O, C)!TypeOK /\ QueriesSound(R) /\ ClicksSound(R, C) /\ ToldSound

\* The pages about restaurants start with the invariant.
LEMMA InitRestaurants ==
  ASSUME NEW R, NEW O, NEW C, RestaurantsAssumed(R, O), Restaurants(R, O, C)!Init
  PROVE  RestaurantsIInv(R, O, C)
<1>1. /\ state \in [R -> {"absent", "pending"}] /\ closed = {} /\ table \in RestaurantTable \cap O
      /\ shown = NoRestaurant /\ failed = {} /\ asked = NoRestaurant /\ toDelete = NoRestaurant
      /\ tableCache = [e \in RestaurantEntry |-> Cache!Fresh]
      /\ click = [c \in C |-> Restaurants(R, O, C)!Idle] /\ search = R /\ toldClicks = {}
  BY DEF Restaurants!Init, Restaurants!Table, Restaurants!Page, Restaurants!Entry, Restaurants!Fresh,
         Cache!Fresh, RestaurantTable, RestaurantEntry
<1>2. QueriesSound(R)
  BY <1>1 DEF QueriesSound, Cache!Fresh, Cache!Entries, RestaurantEntry, RestaurantTable
<1>3. ClicksSound(R, C) /\ ToldSound
  BY <1>1 DEF ClicksSound, ToldSound, Restaurants!Idle, Done
<1>4. Restaurants(R, O, C)!TypeOK
  <2>1. \A e \in RestaurantEntry : tableCache[e] \in Cache!Entries(IF e = "details" THEN R ELSE SUBSET R)
    BY <1>2 DEF QueriesSound
  <2>2. \A c \in C : click[c] = Restaurants(R, O, C)!Idle /\ click[c].from = None
    BY <1>1 DEF Restaurants!Idle
  <2>3. click \in [C -> Restaurants(R, O, C)!Calls]
    BY <1>1 DEF Restaurants!Calls
  <2> QED
    BY <1>1, <2>1, <2>2, <2>3
       DEF Restaurants!TypeOK, Restaurants!State, Restaurants!Table, Restaurants!Page, Restaurants!Entry,
           Restaurants!Entries, Cache!Entries, RestaurantTable, RestaurantEntry, RestaurantsAssumed
<1> QED
  BY <1>2, <1>3, <1>4 DEF RestaurantsIInv

\* A page is fetched, answered, shown, or could not be.
LEMMA RestaurantQueryStep ==
  ASSUME NEW R, NEW O, NEW C, RestaurantsAssumed(R, O), RestaurantsIInv(R, O, C), NEW e \in O,
         \/ Restaurants(R, O, C)!Fetch(e) \/ Restaurants(R, O, C)!Get(e)
         \/ Restaurants(R, O, C)!Show(e) \/ Restaurants(R, O, C)!FetchFails(e)
  PROVE  RestaurantsIInv(R, O, C)'
<1> DEFINE V == IF e = "details" THEN R ELSE SUBSET R
           q == tableCache'[e]
<1>0. e \in RestaurantEntry
  BY DEF RestaurantsAssumed
<1>1. /\ tableCache[e] \in Cache!Entries(V)
      /\ \A x \in RestaurantEntry : tableCache[x] \in Cache!Entries(IF x = "details" THEN R ELSE SUBSET R)
      /\ tableCache[e].fetch = "answered" => tableCache[e].answer # NoData
      /\ tableCache[e].answer \in V \cup {NoData} /\ tableCache[e].data \in V \cup {NoData}
  BY <1>0 DEF RestaurantsIInv, QueriesSound, Cache!Entries
<1>2. /\ tableCache' = [tableCache EXCEPT ![e] = q] /\ q \in Cache!Entries(V)
      /\ q.fetch = "answered" => q.answer # NoData
      /\ (e = "details" /\ q.fetch = "sent") => asked' \in R
      /\ e # "details" => \A r \in R : state[r] = "absent" =>
           /\ q.data # NoData => r \notin q.data
           /\ q.answer # NoData => r \notin q.answer
      /\ asked' \in R \cup {NoRestaurant} /\ (e # "details" => asked' = asked) /\ failed' \subseteq O
  <2> DEFINE old == tableCache[e]
  <2>0. /\ e = "details" => V = R
        /\ e # "details" => V = SUBSET R
        /\ \A v \in V : v # NoData
    BY DEF RestaurantsAssumed
  <2> HIDE DEF V
  <2>1. /\ q = tableCache'[e] /\ tableCache \in [RestaurantEntry -> Cache!Entries(R \cup SUBSET R)]
        /\ old = tableCache[e] /\ old.answer \in V \cup {NoData} /\ old \in Cache!Entries(V)
        /\ tableCache["details"].fetch = "sent" => asked \in R
        /\ asked \in R \cup {NoRestaurant} /\ failed \subseteq O /\ (table = "details" => shown \in R)
        /\ e # "details" => \A r \in R : state[r] = "absent" =>
             /\ old.data # NoData => r \notin old.data
             /\ old.answer # NoData => r \notin old.answer
    BY <1>0, <1>1 DEF RestaurantsIInv, QueriesSound, Restaurants!TypeOK
  <2> HIDE DEF q, old
  <2>2. CASE Restaurants(R, O, C)!Fetch(e)
    <3>1. tableCache' = [tableCache EXCEPT ![e] = Cache!Fetching(old)] /\ failed' = failed
          /\ asked' = (IF e = "details" THEN shown ELSE asked) /\ (e = "details" => table = "details")
          /\ old.fetch = "idle"
      BY <2>2, <2>1 DEF Restaurants!Fetch, Restaurants!Fetching, Cache!Fetching, Restaurants!Asking, Restaurants!Mounted
    <3>2. q = Cache!Fetching(old)
      BY <1>0, <2>1, <3>1
    <3>3. q \in Cache!Entries(V) /\ q.data = old.data /\ q.answer = old.answer /\ q.fetch = "sent"
      BY <2>1, <3>1, <3>2, EntryFetching
    <3> QED
      BY <2>1, <3>1, <3>2, <3>3
  <2>3. CASE Restaurants(R, O, C)!Get(e)
    <3> DEFINE v == IF e = "details" THEN asked ELSE Restaurants(R, O, C)!GetAllRestaurant(e)
    <3>1. tableCache' = [tableCache EXCEPT ![e] = Cache!Served(old, v)] /\ UNCHANGED <<failed, asked>>
          /\ old.fetch = "sent"
      BY <2>3, <2>1 DEF Restaurants!Get, Restaurants!Served, Cache!Served
    <3>2. \A S : Restaurants(R, O, C)!Stored(S) \in SUBSET {r \in R : state[r] \in S}
      BY DEF Restaurants!Stored
    <3>3. Restaurants(R, O, C)!GetAllRestaurant(e) \subseteq {r \in R : state[r] # "absent"}
      BY <3>2 DEF Restaurants!GetAllRestaurant, Restaurants!State
    <3>4. v \in V /\ (e # "details" => v \subseteq {r \in R : state[r] # "absent"})
      BY <2>0, <2>1, <3>1, <3>3
    <3> HIDE DEF v
    <3>5. q = Cache!Served(old, v)
      BY <1>0, <2>1, <3>1
    <3>6. q \in Cache!Entries(V) /\ q.data = old.data /\ q.answer = v /\ q.fetch = "answered"
      BY <2>1, <3>4, <3>5, EntryServed
    <3>7. e # "details" => \A r \in R : state[r] = "absent" => r \notin v
      BY <3>4
    <3>8. e # "details" => \A r \in R : state[r] = "absent" =>
            /\ q.data # NoData => r \notin q.data
            /\ q.answer # NoData => r \notin q.answer
      BY <2>1, <3>6, <3>7
    <3>9. tableCache' = [tableCache EXCEPT ![e] = q] /\ q.answer # NoData
      BY <2>0, <3>1, <3>4, <3>5, <3>6
    <3> QED
      BY <2>1, <3>1, <3>6, <3>8, <3>9
  <2>4. CASE Restaurants(R, O, C)!Show(e)
    <3>1. tableCache' = [tableCache EXCEPT ![e] = Cache!Filled(old)] /\ failed' = failed \ {e} /\ asked' = asked
      BY <2>4, <2>1 DEF Restaurants!Show, Restaurants!Filled, Cache!Filled
    <3>2. q = Cache!Filled(old)
      BY <1>0, <2>1, <3>1
    <3>3. q \in Cache!Entries(V) /\ q.data = old.answer /\ q.answer = NoData /\ q.fetch = "idle"
      BY <2>1, <3>1, <3>2, EntryFilled
    <3>4. e # "details" => \A r \in R : state[r] = "absent" /\ q.data # NoData => r \notin q.data
      BY <2>1, <3>3
    <3> QED
      BY <2>1, <3>1, <3>2, <3>3, <3>4
  <2>5. CASE Restaurants(R, O, C)!FetchFails(e)
    <3>1. tableCache' = [tableCache EXCEPT ![e] = Cache!Failed(old)] /\ failed' = failed \cup {e} /\ asked' = asked
      BY <2>5, <2>1 DEF Restaurants!FetchFails, Restaurants!Failed, Cache!Failed
    <3>2. q = Cache!Failed(old)
      BY <1>0, <2>1, <3>1
    <3>3. q \in Cache!Entries(V) /\ q.data = old.data /\ q.answer = NoData /\ q.fetch = "idle"
      BY <2>1, <3>1, <3>2, EntryFailed
    <3> QED
      BY <2>1, <3>1, <3>2, <3>3
  <2> QED
    BY <2>2, <2>3, <2>4, <2>5
<1>3. UNCHANGED <<state, closed, table, shown, toDelete, click, search, toldClicks>>
  BY DEF Restaurants!Fetch, Restaurants!Get, Restaurants!Show, Restaurants!FetchFails, Restaurants!service
<1>4. QueriesSound(R)'
  BY <1>0, <1>1, <1>2, <1>3 DEF QueriesSound, RestaurantsIInv, Cache!Entries, RestaurantEntry
<1>5. ClicksSound(R, C)' /\ ToldSound'
  BY <1>3 DEF RestaurantsIInv, ClicksSound, ToldSound, Done, DoneIn
<1>6. Restaurants(R, O, C)!TypeOK'
  BY <1>2, <1>3, <1>4 DEF RestaurantsIInv, QueriesSound, Restaurants!TypeOK, Restaurants!Entries, Cache!Entries,
    Restaurants!Entry, Restaurants!Table, Restaurants!Page, RestaurantEntry, RestaurantTable
<1> QED
  BY <1>4, <1>5, <1>6 DEF RestaurantsIInv

\* What happens to the stored restaurants: none vanishes, and what was done stays done.
ServiceGoesOn(R) ==
  /\ state' \in [R -> {"absent", "pending", "approved", "unapproved", "again"}]
  /\ closed \subseteq closed' /\ closed' \subseteq {r \in R : state'[r] # "absent"}
  /\ \A r \in R : state[r] # "absent" => state'[r] # "absent"
  /\ \A op, r : r \in R /\ Done(op, r) => DoneIn(state', closed', op, r)

\* A step of the pages leaves the stored restaurants as they are.
LEMMA ServiceStays ==
  ASSUME NEW R, NEW O, NEW C, RestaurantsIInv(R, O, C), UNCHANGED <<state, closed>>
  PROVE  ServiceGoesOn(R)
BY DEF RestaurantsIInv, Restaurants!TypeOK, Restaurants!State, ServiceGoesOn, Done, DoneIn

\* Setting the approval of a restaurant that is stored undoes nothing that was done.
LEMMA ApprovalGoesOn ==
  ASSUME NEW R, NEW O, NEW C, RestaurantsIInv(R, O, C), NEW r \in R, NEW approved \in BOOLEAN,
         state' = Restaurants(R, O, C)!Approved(r, approved), state[r] # "absent", closed' = closed
  PROVE  /\ ServiceGoesOn(R)
         /\ approved => state'[r] \in {"approved", "unapproved", "again"}
<1>1. /\ state \in [R -> {"absent", "pending", "approved", "unapproved", "again"}]
      /\ closed \subseteq {x \in R : state[x] # "absent"}
  BY DEF RestaurantsIInv, Restaurants!TypeOK, Restaurants!State
<1>2. /\ state' \in [R -> {"absent", "pending", "approved", "unapproved", "again"}]
      /\ state'[r] # "absent"
      /\ approved => state'[r] \in {"approved", "unapproved", "again"}
      /\ state[r] \in {"approved", "unapproved", "again"} => state'[r] \in {"approved", "unapproved", "again"}
      /\ \A x \in R \ {r} : state'[x] = state[x]
  BY <1>1 DEF Restaurants!Approved
<1> QED
  BY <1>1, <1>2 DEF ServiceGoesOn, Done, DoneIn

\* A click that moves on, whoever sends, carries out or loses it, keeps the invariant
\* when what it says about itself is true of the stored restaurants.
LEMMA ClickMoves ==
  ASSUME NEW R, NEW O, NEW C, RestaurantsAssumed(R, O), RestaurantsIInv(R, O, C), ServiceGoesOn(R),
         NEW c \in C, NEW k \in Restaurants(R, O, C)!Calls, click' = [click EXCEPT ![c] = k],
         UNCHANGED <<table, shown, tableCache, failed, asked, toDelete, search, toldClicks>>,
         k.r \in R, state'[k.r] # "absent",
         k.at \in {"sent", "approved"} => ~k.ok,
         k.at = "approved" => k.op = "approve" /\ DoneIn(state', closed', "approve", k.r),
         k.at = "answered" /\ k.ok => DoneIn(state', closed', k.op, k.r),
         k.from = "all" => k.op = "delete" /\ \A d \in C \ {c} : click[d].from # "all"
  PROVE  RestaurantsIInv(R, O, C)'
<1>1. /\ click \in [C -> Restaurants(R, O, C)!Calls]
      /\ \A d \in C : \A e \in C \ {d} : click[d].from = "all" /\ click[e].from = "all" => click[d].op = "approve"
  BY DEF RestaurantsIInv, Restaurants!TypeOK
<1>2. /\ click' \in [C -> Restaurants(R, O, C)!Calls]
      /\ click'[c] = k /\ \A d \in C \ {c} : click'[d] = click[d]
  BY <1>1
<1>3. \A d \in C : \A e \in C \ {d} : click'[d].from = "all" /\ click'[e].from = "all" => click'[d].op = "approve"
  BY <1>1, <1>2
<1>4. Restaurants(R, O, C)!TypeOK'
  BY <1>2, <1>3 DEF RestaurantsIInv, Restaurants!TypeOK, Restaurants!Calls, Restaurants!Idle,
     Restaurants!State, Restaurants!Table, Restaurants!Page, Restaurants!Entry, Restaurants!Entries, ServiceGoesOn
<1>5. QueriesSound(R)'
  BY DEF RestaurantsIInv, QueriesSound, ServiceGoesOn
<1>6. ClicksSound(R, C)'
  <2>0. toDelete' # NoRestaurant => state'[toDelete'] # "absent"
    BY DEF RestaurantsIInv, ClicksSound, ServiceGoesOn, Restaurants!TypeOK
  <2> SUFFICES ASSUME NEW d \in C, click'[d].at # "idle"
               PROVE  /\ click'[d].r \in R /\ state'[click'[d].r] # "absent"
                      /\ click'[d].from = "all" => click'[d].op = "delete"
                      /\ click'[d].at \in {"sent", "approved"} => ~click'[d].ok
                      /\ click'[d].at = "approved" => click'[d].op = "approve" /\ DoneIn(state', closed', "approve", click'[d].r)
                      /\ click'[d].at = "answered" /\ click'[d].ok => DoneIn(state', closed', click'[d].op, click'[d].r)
    BY <2>0 DEF ClicksSound, Done
  <2>1. CASE d = c
    BY <1>2, <2>1
  <2>2. CASE d # c
    BY <1>2, <2>2 DEF RestaurantsIInv, ClicksSound, ServiceGoesOn, Done
  <2> QED
    BY <2>1, <2>2
<1>7. ToldSound'
  <2>1. \A t \in toldClicks : t.r \in R /\ Done(t.op, t.r)
    BY DEF RestaurantsIInv, Restaurants!TypeOK, ToldSound
  <2> QED
    BY <2>1 DEF ServiceGoesOn, ToldSound, Done
<1> QED
  BY <1>4, <1>5, <1>6, <1>7 DEF RestaurantsIInv

\* What a click sends.
LEMMA SentClick ==
  ASSUME NEW R, NEW O, NEW C, NEW c \in C, NEW op, NEW r, Restaurants(R, O, C)!Send(c, op, r)
  PROVE  click' = [click EXCEPT ![c] = [at |-> "sent", from |-> table, op |-> op, r |-> r, ok |-> FALSE]]
<1> DEFINE idle == Restaurants(R, O, C)!Idle
           sent == [idle EXCEPT !.at = "sent", !.from = table, !.op = op, !.r = r]
<1>1. idle \in [at : {"idle"}, from : {None}, op : {None}, r : {NoRestaurant}, ok : {FALSE}]
  BY DEF Restaurants!Idle
<1>2. click' = [click EXCEPT ![c] = sent]
  BY DEF Restaurants!Send
<1>3. sent = [at |-> "sent", from |-> table, op |-> op, r |-> r, ok |-> FALSE]
  <2> HIDE DEF idle
  <2>1. sent \in [at : {"sent"}, from : {table}, op : {op}, r : {r}, ok : {FALSE}]
    BY <1>1
  <2> HIDE DEF sent
  <2> QED
    BY <2>1
<1> QED
  <2> HIDE DEF sent
  <2> QED
    BY <1>2, <1>3

\* A click is sent, carried out by the service in its one or two steps, or lost.
LEMMA RestaurantClickStep ==
  ASSUME NEW R, NEW O, NEW C, RestaurantsAssumed(R, O), RestaurantsIInv(R, O, C), NEW c \in C,
         \/ Restaurants(R, O, C)!ConfirmDelete(c)
         \/ \E r \in R : Restaurants(R, O, C)!HandleApproveRestaurant(c, r)
         \/ Restaurants(R, O, C)!DeleteRestaurantById(c) \/ Restaurants(R, O, C)!ApproveRestaurantById(c)
         \/ Restaurants(R, O, C)!ApprovedIsRead(c) \/ Restaurants(R, O, C)!CallFails(c)
  PROVE  RestaurantsIInv(R, O, C)'
<1> DEFINE Clicks == Restaurants(R, O, C)!Calls
           old == click[c]
           k == click'[c]
<1>1. /\ click \in [C -> Clicks]
      /\ \A d \in C : \A e \in C \ {d} : click[d].from = "all" /\ click[e].from = "all" => click[d].op = "approve"
      /\ toDelete \in R \cup {NoRestaurant} /\ (toDelete # NoRestaurant => table = "all")
      /\ closed \subseteq {r \in R : state[r] # "absent"}
      /\ state \in [R -> {"absent", "pending", "approved", "unapproved", "again"}]
  BY DEF RestaurantsIInv, Restaurants!TypeOK, Restaurants!State
<1>2. /\ toDelete # NoRestaurant => state[toDelete] # "absent"
      /\ \A d \in C : click[d].at # "idle" =>
           /\ click[d].r \in R /\ state[click[d].r] # "absent"
           /\ click[d].from = "all" => click[d].op = "delete"
           /\ click[d].at \in {"sent", "approved"} => ~click[d].ok
           /\ click[d].at = "approved" => click[d].op = "approve" /\ DoneIn(state, closed, "approve", click[d].r)
           /\ click[d].at = "answered" /\ click[d].ok => DoneIn(state, closed, click[d].op, click[d].r)
  BY DEF RestaurantsIInv, ClicksSound, Done
<1>3. \A d \in C : click[d].from = "all" => click[d].at # "idle"
  BY <1>1 DEF Restaurants!Calls, Restaurants!Idle, RestaurantsAssumed
<1>4. Clicks = {Restaurants(R, O, C)!Idle} \cup
               [at : {"sent", "approved", "answered"}, from : RestaurantTable \cup {"left"},
                op : {"delete", "approve"}, r : R, ok : BOOLEAN]
  BY DEF Restaurants!Calls, Restaurants!Table, RestaurantTable
<1>5. Restaurants(R, O, C)!Idle = [at |-> "idle", from |-> None, op |-> None, r |-> NoRestaurant, ok |-> FALSE]
  BY DEF Restaurants!Idle
<1>6. /\ ServiceGoesOn(R) /\ k \in Clicks /\ click' = [click EXCEPT ![c] = k]
      /\ UNCHANGED <<table, shown, tableCache, failed, asked, toDelete, search, toldClicks>>
      /\ k.r \in R /\ state'[k.r] # "absent"
      /\ k.at \in {"sent", "approved"} => ~k.ok
      /\ k.at = "approved" => k.op = "approve" /\ DoneIn(state', closed', "approve", k.r)
      /\ k.at = "answered" /\ k.ok => DoneIn(state', closed', k.op, k.r)
      /\ k.from = "all" => k.op = "delete" /\ \A d \in C \ {c} : click[d].from # "all"
  <2> HIDE DEF Clicks, k, old
  <2>0. /\ old = click[c] /\ k = click'[c] /\ old \in Clicks
        /\ old.at # "idle" => old \in [at : {"sent", "approved", "answered"}, from : RestaurantTable \cup {"left"},
                op : {"delete", "approve"}, r : R, ok : BOOLEAN]
        /\ old.from = "all" /\ old.at # "idle" => \A d \in C \ {c} : click[d].from # "all"
    BY <1>1, <1>2, <1>4, <1>5 DEF Clicks, k, old
  <2>1. CASE Restaurants(R, O, C)!ConfirmDelete(c)
    <3>0. Restaurants(R, O, C)!Send(c, "delete", toDelete) /\ toDelete # NoRestaurant
      BY <2>1 DEF Restaurants!ConfirmDelete
    <3>1. /\ toDelete # NoRestaurant
          /\ click' = [click EXCEPT ![c] = [at |-> "sent", from |-> "all", op |-> "delete", r |-> toDelete, ok |-> FALSE]]
          /\ \A d \in C : ~(click[d].at \in {"sent", "approved", "answered"} /\ click[d].op = "delete" /\ click[d].from = "all")
          /\ UNCHANGED <<state, closed, table, shown, tableCache, failed, asked, toDelete, search, toldClicks>>
      <4>1. table = "all"
        BY <1>1, <3>0
      <4>2. click' = [click EXCEPT ![c] = [at |-> "sent", from |-> "all", op |-> "delete", r |-> toDelete, ok |-> FALSE]]
        BY <3>0, <4>1, SentClick
      <4> QED
        BY <2>1, <3>0, <4>1, <4>2 DEF Restaurants!ConfirmDelete, Restaurants!Waits, Restaurants!service
    <3>2. k = [at |-> "sent", from |-> "all", op |-> "delete", r |-> toDelete, ok |-> FALSE]
      BY <1>1, <2>0, <3>1
    <3>3. \A d \in C : click[d].from # "all"
      BY <1>1, <1>2, <1>3, <1>4, <1>5, <3>1
    <3>4. k \in Clicks
      BY <1>1, <1>4, <3>1, <3>2 DEF RestaurantTable
    <3> QED
      BY <1>1, <1>2, <3>1, <3>2, <3>3, <3>4, ServiceStays
  <2>2. CASE \E r \in R : Restaurants(R, O, C)!HandleApproveRestaurant(c, r)
    <3>1. PICK r \in R : Restaurants(R, O, C)!HandleApproveRestaurant(c, r)
      BY <2>2
    <3>2. /\ tableCache["pending"].data # NoData /\ r \in tableCache["pending"].data
          /\ click' = [click EXCEPT ![c] = [at |-> "sent", from |-> "pending", op |-> "approve", r |-> r, ok |-> FALSE]]
          /\ UNCHANGED <<state, closed, table, shown, tableCache, failed, asked, toDelete, search, toldClicks>>
      <4>1. table = "pending" /\ Restaurants(R, O, C)!Send(c, "approve", r) /\ r \in Restaurants(R, O, C)!Rows
        BY <3>1 DEF Restaurants!HandleApproveRestaurant
      <4>2. click' = [click EXCEPT ![c] = [at |-> "sent", from |-> "pending", op |-> "approve", r |-> r, ok |-> FALSE]]
        BY <4>1, SentClick
      <4>3. tableCache["pending"].data # NoData /\ r \in tableCache["pending"].data
        BY <4>1 DEF Restaurants!Rows
      <4> QED
        BY <3>1, <4>2, <4>3 DEF Restaurants!HandleApproveRestaurant, Restaurants!service
    <3>3. state[r] # "absent"
      BY <3>2 DEF RestaurantsIInv, QueriesSound, RestaurantEntry, RestaurantTable
    <3>4. k = [at |-> "sent", from |-> "pending", op |-> "approve", r |-> r, ok |-> FALSE]
      BY <1>1, <2>0, <3>2
    <3>5. k \in Clicks
      BY <1>4, <3>4 DEF RestaurantTable
    <3> QED
      BY <3>2, <3>3, <3>4, <3>5, ServiceStays
  <2>3. CASE Restaurants(R, O, C)!DeleteRestaurantById(c)
    <3>1. /\ old.at = "sent" /\ old.op = "delete" /\ closed' = closed \cup {old.r}
          /\ click' = [click EXCEPT ![c] = [old EXCEPT !.at = "answered", !.ok = TRUE]]
          /\ UNCHANGED <<state, table, shown, tableCache, failed, asked, toDelete, search, toldClicks>>
      BY <2>3, <2>0, <1>1 DEF Restaurants!DeleteRestaurantById
    <3>2. k = [old EXCEPT !.at = "answered", !.ok = TRUE]
      BY <1>1, <2>0, <3>1
    <3>3. /\ k \in Clicks /\ k.at = "answered" /\ k.op = "delete" /\ k.r = old.r /\ k.from = old.from
      BY <1>4, <2>0, <3>1, <3>2
    <3>4. old.r \in R /\ state[old.r] # "absent"
      BY <1>2, <2>0, <3>1
    <3>5. ServiceGoesOn(R)
      BY <1>1, <3>1, <3>4 DEF ServiceGoesOn, Done, DoneIn
    <3>6. click' = [click EXCEPT ![c] = k]
      BY <3>1, <3>2
    <3> QED
      BY <2>0, <3>1, <3>3, <3>4, <3>5, <3>6 DEF DoneIn
  <2>4. CASE Restaurants(R, O, C)!ApproveRestaurantById(c)
    <3>1. /\ old.at = "sent" /\ old.op = "approve"
          /\ UNCHANGED <<closed, table, shown, tableCache, failed, asked, toDelete, search, toldClicks>>
      BY <2>4, <2>0 DEF Restaurants!ApproveRestaurantById
    <3>2. old.r \in R /\ state[old.r] # "absent"
      BY <1>2, <2>0, <3>1
    <3>3. CASE old.r \notin closed
      <4>1. /\ state' = Restaurants(R, O, C)!Approved(old.r, TRUE)
            /\ click' = [click EXCEPT ![c] = [old EXCEPT !.at = "approved"]]
        BY <2>4, <2>0, <1>1, <3>3 DEF Restaurants!ApproveRestaurantById
      <4>2. ServiceGoesOn(R) /\ state'[old.r] \in {"approved", "unapproved", "again"}
        BY <3>1, <3>2, <4>1, ApprovalGoesOn
      <4>3. k = [old EXCEPT !.at = "approved"]
        BY <1>1, <2>0, <4>1
      <4>4. /\ k \in Clicks /\ k.at = "approved" /\ k.op = "approve" /\ k.r = old.r /\ k.from = old.from
            /\ k.ok = old.ok
        BY <1>4, <2>0, <3>1, <4>3
      <4>5. click' = [click EXCEPT ![c] = k]
        BY <4>1, <4>3
      <4>6. old.from # "all"
        BY <1>2, <2>0, <3>1
      <4>7. ~old.ok
        BY <1>2, <2>0, <3>1
      <4> QED
        BY <3>1, <3>2, <4>2, <4>4, <4>5, <4>6, <4>7 DEF DoneIn
    <3>4. CASE old.r \in closed
      <4>1. /\ UNCHANGED state
            /\ click' = [click EXCEPT ![c] = [old EXCEPT !.at = "answered"]]
        BY <2>4, <2>0, <1>1, <3>4 DEF Restaurants!ApproveRestaurantById
      <4>2. k = [old EXCEPT !.at = "answered"]
        BY <1>1, <2>0, <4>1
      <4>4. /\ k \in Clicks /\ k.at = "answered" /\ k.op = "approve" /\ k.r = old.r /\ k.from = old.from
            /\ k.ok = old.ok
        BY <1>4, <2>0, <3>1, <4>2
      <4>5. click' = [click EXCEPT ![c] = k]
        BY <4>1, <4>2
      <4>6. old.from # "all"
        BY <1>2, <2>0, <3>1
      <4>7. ~old.ok
        BY <1>2, <2>0, <3>1
      <4> QED
        BY <3>1, <3>2, <4>1, <4>4, <4>5, <4>6, <4>7, ServiceStays
    <3> QED
      BY <3>3, <3>4
  <2>5. CASE Restaurants(R, O, C)!ApprovedIsRead(c)
    <3>1. /\ old.at = "approved" /\ click' = [click EXCEPT ![c] = [old EXCEPT !.at = "answered", !.ok = old.r \notin closed]]
          /\ UNCHANGED <<state, closed, table, shown, tableCache, failed, asked, toDelete, search, toldClicks>>
      BY <2>5, <2>0, <1>1 DEF Restaurants!ApprovedIsRead, Restaurants!service
    <3>2. k = [old EXCEPT !.at = "answered", !.ok = old.r \notin closed]
      BY <1>1, <2>0, <3>1
    <3>3. /\ k \in Clicks /\ k.at = "answered" /\ k.op = old.op /\ k.r = old.r /\ k.from = old.from
      BY <1>4, <2>0, <3>1, <3>2
    <3>4. /\ old.op = "approve" /\ DoneIn(state, closed, "approve", old.r) /\ old.r \in R /\ state[old.r] # "absent"
          /\ old.from # "all"
      BY <1>2, <2>0, <3>1
    <3>5. click' = [click EXCEPT ![c] = k]
      BY <3>1, <3>2
    <3> QED
      BY <3>1, <3>3, <3>4, <3>5, ServiceStays DEF DoneIn
  <2>6. CASE Restaurants(R, O, C)!CallFails(c)
    <3>1. /\ old.at \in {"sent", "approved", "answered"}
          /\ click' = [click EXCEPT ![c] = [old EXCEPT !.at = "answered", !.ok = FALSE]]
          /\ UNCHANGED <<state, closed, table, shown, tableCache, failed, asked, toDelete, search, toldClicks>>
      BY <2>6, <2>0, <1>1 DEF Restaurants!CallFails, Restaurants!service
    <3>2. k = [old EXCEPT !.at = "answered", !.ok = FALSE]
      BY <1>1, <2>0, <3>1
    <3>3. /\ k \in Clicks /\ k.at = "answered" /\ ~k.ok /\ k.op = old.op /\ k.r = old.r /\ k.from = old.from
      BY <1>4, <2>0, <3>1, <3>2
    <3>4. old.r \in R /\ state[old.r] # "absent" /\ (old.from = "all" => old.op = "delete")
      BY <1>2, <2>0, <3>1
    <3>5. click' = [click EXCEPT ![c] = k]
      BY <3>1, <3>2
    <3> QED
      BY <2>0, <3>1, <3>3, <3>4, <3>5, ServiceStays
  <2> QED
    BY <2>1, <2>2, <2>3, <2>4, <2>5, <2>6
<1> QED
  BY <1>6, ClickMoves

\* Fetching an entry leaves what the pages show and what is on its way to them.
LEMMA EntryIsFetched ==
  ASSUME NEW R, NEW O, RestaurantsAssumed(R, O), QueriesSound(R), NEW e \in RestaurantEntry,
         tableCache' = [tableCache EXCEPT ![e] = Cache!Fetching(tableCache[e])], UNCHANGED state,
         IF e = "details" THEN tableCache[e].fetch # "answered" => asked' \in R ELSE asked' = asked
  PROVE  QueriesSound(R)'
<1> DEFINE V == IF e = "details" THEN R ELSE SUBSET R
           old == tableCache[e]
           q == Cache!Fetching(old)
<1>1. old \in Cache!Entries(V)
  BY DEF QueriesSound
<1>2. /\ q \in Cache!Entries(V) /\ q.data = old.data /\ q.answer = old.answer
      /\ old.fetch = "idle" => q.fetch = "sent"
      /\ old.fetch # "idle" => q = old
  <2> HIDE DEF old, V
  <2> QED
    BY <1>1, EntryFetching
<1>3. old.fetch \in {"idle", "sent", "answered"}
  BY <1>1 DEF Cache!Entries
<1>4. tableCache' = [tableCache EXCEPT ![e] = q] /\ old = tableCache[e]
  OBVIOUS
<1>5. /\ tableCache' \in [RestaurantEntry -> Cache!Entries(R \cup SUBSET R)]
      /\ \A x \in RestaurantEntry : tableCache'[x] \in Cache!Entries(IF x = "details" THEN R ELSE SUBSET R)
  <2> HIDE DEF q
  <2>1. q \in Cache!Entries(R \cup SUBSET R)
    BY <1>2 DEF Cache!Entries
  <2>2. tableCache' \in [RestaurantEntry -> Cache!Entries(R \cup SUBSET R)]
    BY <1>4, <2>1 DEF QueriesSound
  <2>3. q \in Cache!Entries(IF e = "details" THEN R ELSE SUBSET R)
    BY <1>2
  <2>4. \A x \in RestaurantEntry : tableCache'[x] = IF x = e THEN q ELSE tableCache[x]
    BY <1>4 DEF QueriesSound
  <2>5. ASSUME NEW x \in RestaurantEntry
        PROVE  tableCache'[x] \in Cache!Entries(IF x = "details" THEN R ELSE SUBSET R)
    <3>1. CASE x = e
      BY <2>3, <2>4, <3>1
    <3>2. CASE x # e
      BY <2>4, <3>2 DEF QueriesSound
    <3> QED
      BY <3>1, <3>2
  <2> QED
    BY <2>2, <2>5
<1>6. tableCache'[e] = q /\ \A x \in RestaurantEntry : x # e => tableCache'[x] = tableCache[x]
  <2> HIDE DEF q
  <2> QED
    BY <1>4 DEF QueriesSound
<1> HIDE DEF q, old
<1>7. \A x \in RestaurantEntry : tableCache'[x].fetch = "answered" => tableCache'[x].answer # NoData
  BY <1>2, <1>3, <1>4, <1>6 DEF QueriesSound
<1>8. tableCache'["details"].fetch = "sent" => asked' \in R
  BY <1>2, <1>3, <1>4, <1>6 DEF QueriesSound, RestaurantEntry
<1>9. \A x \in RestaurantEntry \ {"details"}, r \in R : state[r] = "absent" =>
       /\ tableCache'[x].data # NoData => r \notin tableCache'[x].data
       /\ tableCache'[x].answer # NoData => r \notin tableCache'[x].answer
  BY <1>2, <1>4, <1>6 DEF QueriesSound
<1> QED
  BY <1>5, <1>7, <1>8, <1>9 DEF QueriesSound

\* What a click that goes on without its page leaves.
LEMMA OrphanedClicks ==
  ASSUME NEW R, NEW O, NEW C, RestaurantsAssumed(R, O), RestaurantsIInv(R, O, C),
         click' = Restaurants(R, O, C)!Orphaned
  PROVE  /\ click' \in [C -> Restaurants(R, O, C)!Calls]
         /\ \A c \in C :
              /\ click'[c].at = click[c].at /\ click'[c].op = click[c].op /\ click'[c].r = click[c].r
              /\ click'[c].ok = click[c].ok /\ click'[c].from # "all"
<1> DEFINE Sent == [at : {"sent", "approved", "answered"}, from : RestaurantTable \cup {"left"},
                    op : {"delete", "approve"}, r : R, ok : BOOLEAN]
<1>1. /\ click \in [C -> Restaurants(R, O, C)!Calls]
      /\ Restaurants(R, O, C)!Calls = {Restaurants(R, O, C)!Idle} \cup Sent
      /\ Restaurants(R, O, C)!Idle.at = "idle" /\ Restaurants(R, O, C)!Idle.from # "all"
  BY DEF RestaurantsIInv, Restaurants!TypeOK, Restaurants!Calls, Restaurants!Idle, Restaurants!Table,
         RestaurantTable, RestaurantsAssumed
<1>2. click' = [c \in C |-> IF click[c].at = "idle" THEN click[c] ELSE [click[c] EXCEPT !.from = "left"]]
  BY DEF Restaurants!Orphaned
<1> SUFFICES ASSUME NEW c \in C
             PROVE  /\ click'[c] \in Restaurants(R, O, C)!Calls
                    /\ click'[c].at = click[c].at /\ click'[c].op = click[c].op /\ click'[c].r = click[c].r
                    /\ click'[c].ok = click[c].ok /\ click'[c].from # "all"
  BY <1>2
<1>3. CASE click[c].at = "idle"
  <2>1. click'[c] = click[c] /\ click[c] = Restaurants(R, O, C)!Idle
    BY <1>1, <1>2, <1>3
  <2> QED
    BY <1>1, <2>1
<1>4. CASE click[c].at # "idle"
  <2>1. click'[c] = [click[c] EXCEPT !.from = "left"] /\ click[c] \in Sent
    BY <1>1, <1>2, <1>4
  <2> QED
    BY <1>1, <2>1
<1> QED
  BY <1>3, <1>4

\* Tabs, rows, the dialog and the search.
LEMMA RestaurantPageStep ==
  ASSUME NEW R, NEW O, NEW C, RestaurantsAssumed(R, O), RestaurantsIInv(R, O, C),
         \/ \E p \in O : Restaurants(R, O, C)!SelectTab(p)
         \/ "details" \in O /\ \E r \in R : Restaurants(R, O, C)!ViewRestaurant(r)
         \/ \E r \in R : Restaurants(R, O, C)!HandleDeleteClick(r)
         \/ Restaurants(R, O, C)!CloseDialog
         \/ \E S \in SUBSET R : Restaurants(R, O, C)!HandleSearchChange(S)
  PROVE  RestaurantsIInv(R, O, C)'
<1>1. /\ Restaurants(R, O, C)!TypeOK /\ QueriesSound(R) /\ ClicksSound(R, C) /\ ToldSound
      /\ click \in [C -> Restaurants(R, O, C)!Calls] /\ state \in [R -> Restaurants(R, O, C)!State]
  BY DEF RestaurantsIInv, Restaurants!TypeOK
<1>2. /\ UNCHANGED <<state, closed, failed, toldClicks>>
  BY DEF Restaurants!SelectTab, Restaurants!ViewRestaurant, Restaurants!HandleDeleteClick,
         Restaurants!CloseDialog, Restaurants!HandleSearchChange, Restaurants!service
<1>3. QueriesSound(R)'
  <2>1. CASE \E p \in O : Restaurants(R, O, C)!SelectTab(p)
    <3>1. PICK p \in O : Restaurants(R, O, C)!SelectTab(p)
      BY <2>1
    <3>2. /\ p \in RestaurantEntry /\ p # "details" /\ asked' = asked
          /\ tableCache' = [tableCache EXCEPT ![p] = Cache!Fetching(tableCache[p])]
      BY <3>1 DEF Restaurants!SelectTab, Restaurants!Fetching, Cache!Fetching, Restaurants!Table,
                  RestaurantEntry, RestaurantTable
    <3> QED
      BY <1>1, <1>2, <3>2, EntryIsFetched
  <2>2. CASE \E r \in R : Restaurants(R, O, C)!ViewRestaurant(r)
    <3>1. PICK r \in R : Restaurants(R, O, C)!ViewRestaurant(r)
      BY <2>2
    <3>2. /\ asked' = (IF tableCache["details"].fetch = "idle" THEN r ELSE asked)
          /\ tableCache' = [tableCache EXCEPT !["details"] = Cache!Fetching(tableCache["details"])]
      BY <3>1 DEF Restaurants!ViewRestaurant, Restaurants!Fetching, Cache!Fetching
    <3>3. "details" \in RestaurantEntry /\ tableCache["details"].fetch \in {"idle", "sent", "answered"}
      BY <1>1 DEF QueriesSound, RestaurantEntry, Cache!Entries
    <3>4. tableCache["details"].fetch # "answered" => asked' \in R
      BY <1>1, <3>2, <3>3 DEF QueriesSound
    <3> QED
      BY <1>1, <1>2, <3>2, <3>3, <3>4, EntryIsFetched
  <2>3. CASE UNCHANGED <<tableCache, asked>>
    BY <1>1, <1>2, <2>3 DEF QueriesSound
  <2> QED
    BY <2>1, <2>2, <2>3 DEF Restaurants!HandleDeleteClick, Restaurants!CloseDialog, Restaurants!HandleSearchChange
<1>4. /\ click' \in [C -> Restaurants(R, O, C)!Calls]
      /\ \A c \in C : /\ click'[c].at = click[c].at /\ click'[c].op = click[c].op /\ click'[c].r = click[c].r
                      /\ click'[c].ok = click[c].ok
                      /\ click'[c].from = "all" => click'[c].from = click[c].from
  <2>1. CASE click' = Restaurants(R, O, C)!Orphaned
    BY <2>1, OrphanedClicks
  <2>2. CASE click' = click
    BY <1>1, <2>2
  <2> QED
    BY <2>1, <2>2 DEF Restaurants!SelectTab, Restaurants!ViewRestaurant, Restaurants!HandleDeleteClick,
         Restaurants!CloseDialog, Restaurants!HandleSearchChange
<1>5. /\ toDelete' # NoRestaurant => toDelete' \in R /\ state[toDelete'] # "absent" /\ table' = "all"
      /\ table' \in Restaurants(R, O, C)!Page \cap O /\ (table' = "details" <=> shown' \in R)
      /\ search' \subseteq R /\ asked' \in R \cup {NoRestaurant}
  <2>0. /\ toDelete # NoRestaurant => toDelete \in R /\ state[toDelete] # "absent" /\ table = "all"
        /\ table \in Restaurants(R, O, C)!Page \cap O /\ (table = "details" <=> shown \in R)
        /\ search \subseteq R /\ asked \in R \cup {NoRestaurant}
    BY <1>1 DEF Restaurants!TypeOK, ClicksSound
  <2>1. CASE \E p \in O : Restaurants(R, O, C)!SelectTab(p)
    BY <2>0, <2>1 DEF Restaurants!SelectTab, Restaurants!Page, Restaurants!Table, RestaurantsAssumed
  <2>2. CASE "details" \in O /\ \E r \in R : Restaurants(R, O, C)!ViewRestaurant(r)
    BY <2>0, <2>2 DEF Restaurants!ViewRestaurant, Restaurants!Page
  <2>3. CASE \E r \in R : Restaurants(R, O, C)!HandleDeleteClick(r)
    <3>1. PICK r \in R : Restaurants(R, O, C)!HandleDeleteClick(r)
      BY <2>3
    <3>2. /\ toDelete' = r /\ table = "all" /\ r \in tableCache["all"].data /\ tableCache["all"].data # NoData
          /\ UNCHANGED <<table, shown, search, asked>>
      BY <3>1 DEF Restaurants!HandleDeleteClick, Restaurants!Rows
    <3>3. state[r] # "absent"
      BY <1>1, <3>2 DEF QueriesSound, RestaurantEntry, RestaurantTable
    <3> QED
      BY <2>0, <3>2, <3>3
  <2>4. CASE Restaurants(R, O, C)!CloseDialog
    BY <2>0, <2>4 DEF Restaurants!CloseDialog
  <2>5. CASE \E S \in SUBSET R : Restaurants(R, O, C)!HandleSearchChange(S)
    BY <2>0, <2>5 DEF Restaurants!HandleSearchChange
  <2> QED
    BY <2>1, <2>2, <2>3, <2>4, <2>5
<1>6. ClicksSound(R, C)'
  BY <1>1, <1>2, <1>4, <1>5 DEF ClicksSound, Done, DoneIn
<1>7. ToldSound'
  BY <1>1, <1>2 DEF ToldSound, Done, DoneIn
<1>8. Restaurants(R, O, C)!TypeOK'
  <2>1. \A e \in RestaurantEntry : tableCache'[e] \in Cache!Entries(IF e = "details" THEN R ELSE SUBSET R)
    BY <1>3 DEF QueriesSound
  <2>2. \A c \in C : \A d \in C \ {c} : click'[c].from = "all" /\ click'[d].from = "all" => click'[c].op = "approve"
    BY <1>1, <1>4 DEF Restaurants!TypeOK
  <2> QED
    BY <1>1, <1>2, <1>4, <1>5, <2>1, <2>2 DEF Restaurants!TypeOK, Restaurants!Entries, Cache!Entries,
       Restaurants!Entry, Restaurants!Table, Restaurants!Page, RestaurantEntry, RestaurantTable,
       Restaurants!Calls, Restaurants!Idle, Restaurants!State
<1> QED
  BY <1>3, <1>6, <1>7, <1>8 DEF RestaurantsIInv

\* The page reports a click and refreshes what it invalidates.
LEMMA RestaurantSettleStep ==
  ASSUME NEW R, NEW O, NEW C, RestaurantsAssumed(R, O), RestaurantsIInv(R, O, C), NEW c \in C,
         Restaurants(R, O, C)!Settle(c)
  PROVE  RestaurantsIInv(R, O, C)'
<1> DEFINE Idle == Restaurants(R, O, C)!Idle
           Clicks == Restaurants(R, O, C)!Calls
<1>1. /\ Restaurants(R, O, C)!TypeOK /\ QueriesSound(R) /\ ClicksSound(R, C) /\ ToldSound
      /\ click \in [C -> Restaurants(R, O, C)!Calls] /\ state \in [R -> Restaurants(R, O, C)!State]
      /\ \A d \in C : \A e \in C \ {d} : click[d].from = "all" /\ click[e].from = "all" => click[d].op = "approve"
  BY DEF RestaurantsIInv, Restaurants!TypeOK
<1>2. /\ click[c].at = "answered" /\ click' = [click EXCEPT ![c] = Idle]
      /\ toldClicks' = (IF click[c].ok THEN toldClicks \cup {[op |-> click[c].op, r |-> click[c].r]} ELSE toldClicks)
      /\ toDelete' \in {NoRestaurant, toDelete}
      /\ UNCHANGED <<state, closed, table, shown, failed, asked, search>>
  BY DEF Restaurants!Settle, Restaurants!service
<1>3. PICK S : tableCache' = [e \in RestaurantEntry |-> IF e \in S THEN Cache!Invalidated(tableCache[e]) ELSE tableCache[e]]
                /\ S \subseteq RestaurantTable
  <2> DEFINE S == {e \in Restaurants(R, O, C)!Invalidates(click[c].ok) : Restaurants(R, O, C)!Mounted(e)}
  <2>1. S \subseteq RestaurantTable
    BY DEF Restaurants!Invalidates, Restaurants!Table, RestaurantTable
  <2>2. tableCache' = [e \in RestaurantEntry |-> IF e \in S THEN Cache!Invalidated(tableCache[e]) ELSE tableCache[e]]
    BY DEF Restaurants!Settle, Restaurants!Refreshed, Restaurants!Invalidated, Cache!Invalidated,
           Restaurants!Entry, Restaurants!Page, Restaurants!Table, RestaurantEntry, RestaurantTable
  <2> QED
    BY <2>1, <2>2
<1>4. QueriesSound(R)'
  <2>1. \A e \in RestaurantEntry :
          /\ tableCache'[e] \in Cache!Entries(IF e = "details" THEN R ELSE SUBSET R)
          /\ tableCache'[e].data = tableCache[e].data
          /\ tableCache'[e] = tableCache[e] \/ tableCache'[e].fetch = "sent"
          /\ tableCache'[e].answer \in {NoData, tableCache[e].answer}
          /\ e = "details" => tableCache'[e] = tableCache[e]
    <3> SUFFICES ASSUME NEW e \in RestaurantEntry
                 PROVE  /\ tableCache'[e] \in Cache!Entries(IF e = "details" THEN R ELSE SUBSET R)
                        /\ tableCache'[e].data = tableCache[e].data
                        /\ tableCache'[e] = tableCache[e] \/ tableCache'[e].fetch = "sent"
                        /\ tableCache'[e].answer \in {NoData, tableCache[e].answer}
                        /\ e = "details" => tableCache'[e] = tableCache[e]
      OBVIOUS
    <3> DEFINE V == IF e = "details" THEN R ELSE SUBSET R
    <3>1. tableCache[e] \in Cache!Entries(V)
      BY <1>1 DEF QueriesSound
    <3> HIDE DEF V
    <3>2. /\ Cache!Invalidated(tableCache[e]) \in Cache!Entries(V)
          /\ Cache!Invalidated(tableCache[e]).data = tableCache[e].data
          /\ Cache!Invalidated(tableCache[e]) = tableCache[e] \/ Cache!Invalidated(tableCache[e]).fetch = "sent"
          /\ Cache!Invalidated(tableCache[e]).answer \in {NoData, tableCache[e].answer}
      BY <3>1, EntryInvalidated
    <3>3. tableCache'[e] = (IF e \in S THEN Cache!Invalidated(tableCache[e]) ELSE tableCache[e])
      BY <1>3
    <3>4. e = "details" => e \notin S
      BY <1>3 DEF RestaurantTable
    <3>5. /\ tableCache'[e] \in Cache!Entries(V)
          /\ tableCache'[e].data = tableCache[e].data
          /\ tableCache'[e] = tableCache[e] \/ tableCache'[e].fetch = "sent"
          /\ tableCache'[e].answer \in {NoData, tableCache[e].answer}
          /\ e = "details" => tableCache'[e] = tableCache[e]
      BY <3>1, <3>2, <3>3, <3>4
    <3> QED
      BY <3>5 DEF V
  <2>2. tableCache' \in [RestaurantEntry -> Cache!Entries(R \cup SUBSET R)]
    <3>1. \A e \in RestaurantEntry : tableCache'[e] \in Cache!Entries(R \cup SUBSET R)
      BY <2>1 DEF Cache!Entries
    <3>2. tableCache' = [e \in RestaurantEntry |-> tableCache'[e]]
      BY <1>3
    <3> QED
      BY <3>1, <3>2
  <2>3. \A e \in RestaurantEntry : tableCache'[e].fetch = "answered" => tableCache'[e].answer # NoData
    BY <1>1, <2>1 DEF QueriesSound
  <2>4. tableCache'["details"].fetch = "sent" => asked' \in R
    BY <1>1, <1>2, <2>1 DEF QueriesSound, RestaurantEntry
  <2>5. \A e \in RestaurantEntry \ {"details"}, r \in R : state[r] = "absent" =>
         /\ tableCache'[e].data # NoData => r \notin tableCache'[e].data
         /\ tableCache'[e].answer # NoData => r \notin tableCache'[e].answer
    BY <1>1, <2>1 DEF QueriesSound
  <2> QED
    BY <1>2, <2>1, <2>2, <2>3, <2>4, <2>5 DEF QueriesSound
<1>5. /\ click' \in [C -> Clicks]
      /\ click'[c] = Idle /\ \A d \in C \ {c} : click'[d] = click[d]
      /\ Idle.at = "idle" /\ Idle.from # "all"
  BY <1>1, <1>2 DEF Restaurants!Calls, Restaurants!Idle, RestaurantsAssumed
<1> HIDE DEF Idle, Clicks
<1>6. ClicksSound(R, C)'
  <2>1. toDelete' # NoRestaurant => state[toDelete'] # "absent"
    BY <1>1, <1>2 DEF ClicksSound
  <2>2. \A d \in C : click'[d].at # "idle" => d # c /\ click'[d] = click[d]
    BY <1>5
  <2>3. \A d \in C : click'[d].at # "idle" =>
       /\ click'[d].r \in R /\ state[click'[d].r] # "absent"
       /\ click'[d].from = "all" => click'[d].op = "delete"
       /\ click'[d].at \in {"sent", "approved"} => ~click'[d].ok
       /\ click'[d].at = "approved" => click'[d].op = "approve" /\ Done("approve", click'[d].r)
       /\ click'[d].at = "answered" /\ click'[d].ok => Done(click'[d].op, click'[d].r)
    BY <1>1, <2>2 DEF ClicksSound
  <2> QED
    BY <1>2, <2>1, <2>3 DEF ClicksSound, Done, DoneIn
<1>7. ToldSound' /\ toldClicks' \subseteq [op : {"delete", "approve"}, r : R]
  <2>0. toldClicks \subseteq [op : {"delete", "approve"}, r : R] /\ \A t \in toldClicks : Done(t.op, t.r)
    BY <1>1 DEF Restaurants!TypeOK, ToldSound
  <2>1. CASE click[c].ok
    <3>1. click[c].op \in {"delete", "approve"} /\ click[c].r \in R /\ Done(click[c].op, click[c].r)
      BY <1>1, <1>2, <2>1 DEF ClicksSound, Restaurants!Calls, Restaurants!Idle
    <3> DEFINE t == [op |-> click[c].op, r |-> click[c].r]
    <3>2. t \in [op : {"delete", "approve"}, r : R] /\ Done(t.op, t.r)
      BY <3>1
    <3>3. toldClicks' = toldClicks \cup {t}
      BY <1>2, <2>1
    <3> HIDE DEF t
    <3>4. \A u \in toldClicks' : Done(u.op, u.r)
      BY <2>0, <3>2, <3>3
    <3> QED
      BY <1>2, <2>0, <3>2, <3>3, <3>4 DEF ToldSound, Done, DoneIn
  <2>2. CASE ~click[c].ok
    BY <1>2, <2>0, <2>2 DEF ToldSound, Done, DoneIn
  <2> QED
    BY <2>1, <2>2
<1>8. Restaurants(R, O, C)!TypeOK'
  <2>1. \A e \in RestaurantEntry : tableCache'[e] \in Cache!Entries(IF e = "details" THEN R ELSE SUBSET R)
    BY <1>4 DEF QueriesSound
  <2>2. \A d \in C : \A e \in C \ {d} : click'[d].from = "all" /\ click'[e].from = "all" => click'[d].op = "approve"
    BY <1>1, <1>5
  <2> QED
    BY <1>1, <1>2, <1>5, <1>7, <2>1, <2>2 DEF Restaurants!TypeOK, Restaurants!Entries, Cache!Entries,
       Restaurants!Entry, Restaurants!Table, Restaurants!Page, RestaurantEntry, RestaurantTable,
       Restaurants!Calls, Restaurants!Idle, Restaurants!State, Clicks
<1> QED
  BY <1>4, <1>6, <1>7, <1>8 DEF RestaurantsIInv

\* Owners and other administrators.
LEMMA RestaurantElsewhereStep ==
  ASSUME NEW R, NEW O, NEW C, RestaurantsAssumed(R, O), RestaurantsIInv(R, O, C), NEW r \in R,
         \/ Restaurants(R, O, C)!RegisterElsewhere(r) \/ Restaurants(R, O, C)!DeleteElsewhere(r)
         \/ \E approved \in BOOLEAN : Restaurants(R, O, C)!ApproveElsewhere(r, approved)
  PROVE  RestaurantsIInv(R, O, C)' /\ ServiceGoesOn(R)
<1>1. /\ Restaurants(R, O, C)!TypeOK /\ QueriesSound(R) /\ ClicksSound(R, C) /\ ToldSound
      /\ state \in [R -> {"absent", "pending", "approved", "unapproved", "again"}]
      /\ closed \subseteq {x \in R : state[x] # "absent"}
  BY DEF RestaurantsIInv, Restaurants!TypeOK, Restaurants!State
<1>2. UNCHANGED <<table, shown, tableCache, failed, asked, toDelete, click, search, toldClicks>>
  BY DEF Restaurants!RegisterElsewhere, Restaurants!DeleteElsewhere, Restaurants!ApproveElsewhere
<1>3. ServiceGoesOn(R)
  <2>1. CASE Restaurants(R, O, C)!RegisterElsewhere(r)
    BY <1>1, <2>1 DEF Restaurants!RegisterElsewhere, ServiceGoesOn, Done, DoneIn
  <2>2. CASE Restaurants(R, O, C)!DeleteElsewhere(r)
    BY <1>1, <2>2 DEF Restaurants!DeleteElsewhere, ServiceGoesOn, Done, DoneIn
  <2>3. CASE \E approved \in BOOLEAN : Restaurants(R, O, C)!ApproveElsewhere(r, approved)
    <3>1. PICK approved \in BOOLEAN : Restaurants(R, O, C)!ApproveElsewhere(r, approved)
      BY <2>3
    <3>2. state' = Restaurants(R, O, C)!Approved(r, approved) /\ state[r] # "absent" /\ closed' = closed
      BY <3>1 DEF Restaurants!ApproveElsewhere
    <3> QED
      BY <3>2, ApprovalGoesOn
  <2> QED
    BY <2>1, <2>2, <2>3
<1>4. QueriesSound(R)'
  BY <1>1, <1>2, <1>3 DEF QueriesSound, ServiceGoesOn
<1>5. ClicksSound(R, C)'
  <2>1. toDelete' # NoRestaurant => state'[toDelete'] # "absent"
    BY <1>1, <1>2, <1>3 DEF ClicksSound, ServiceGoesOn, Restaurants!TypeOK
  <2>2. \A c \in C : click[c].at # "idle" =>
       /\ click[c].r \in R /\ state'[click[c].r] # "absent"
       /\ click[c].from = "all" => click[c].op = "delete"
       /\ click[c].at \in {"sent", "approved"} => ~click[c].ok
       /\ click[c].at = "approved" => click[c].op = "approve" /\ DoneIn(state', closed', "approve", click[c].r)
       /\ click[c].at = "answered" /\ click[c].ok => DoneIn(state', closed', click[c].op, click[c].r)
    BY <1>1, <1>3 DEF ClicksSound, ServiceGoesOn
  <2> QED
    BY <1>2, <2>1, <2>2 DEF ClicksSound, Done
<1>6. ToldSound'
  <2>1. \A t \in toldClicks : t.r \in R /\ Done(t.op, t.r)
    BY <1>1 DEF Restaurants!TypeOK, ToldSound
  <2> QED
    BY <1>2, <1>3, <2>1 DEF ServiceGoesOn, ToldSound, Done
<1>7. Restaurants(R, O, C)!TypeOK'
  BY <1>1, <1>2, <1>3 DEF Restaurants!TypeOK, Restaurants!Entries,
       Restaurants!Entry, Restaurants!Table, Restaurants!Page,
       Restaurants!Calls, Restaurants!Idle, Restaurants!State, ServiceGoesOn
<1> QED
  BY <1>3, <1>4, <1>5, <1>6, <1>7 DEF RestaurantsIInv

\* Every step of the pages about restaurants keeps the invariant.
LEMMA RestaurantStep ==
  ASSUME NEW R, NEW O, NEW C, RestaurantsAssumed(R, O), RestaurantsIInv(R, O, C), Restaurants(R, O, C)!Next
  PROVE  RestaurantsIInv(R, O, C)'
BY RestaurantQueryStep, RestaurantClickStep, RestaurantPageStep, RestaurantSettleStep, RestaurantElsewhereStep
   DEF Restaurants!Next

\* So does a step of another part.
LEMMA RestaurantStutter ==
  ASSUME NEW R, NEW O, NEW C, RestaurantsIInv(R, O, C), UNCHANGED restaurantVars
  PROVE  RestaurantsIInv(R, O, C)'
BY DEF RestaurantsIInv, Restaurants!TypeOK, restaurantVars, QueriesSound, ClicksSound, ToldSound, Done, DoneIn,
   Restaurants!Entries, Restaurants!Entry, Restaurants!Table, Restaurants!Page,
       Restaurants!Calls, Restaurants!Idle, Restaurants!State

-----------------------------------------------------------------------------
(* One table, of all or of the pending restaurants.                        *)
OpOf(e) == IF e = "all" THEN "delete" ELSE "approve"

\* Rows S of the table e that no longer offer r; somebody may have taken an approval back.
GoneFrom(states, e, r, S) == r \notin S \/ (e = "pending" /\ states[r] \in {"unapproved", "again"})

\* All clicks are those of the table, which has been loaded before; what was reported is
\* gone from what is on its way to it, and from what it shows after the latest fetch.
TableSound(C, e) ==
  /\ \A c \in C : click[c].at # "idle" => click[c].op = OpOf(e) /\ tableCache[e].data # NoData
  /\ toDelete # NoRestaurant => e = "all" /\ tableCache[e].data # NoData
  /\ \A t \in toldClicks :
       /\ t.op = OpOf(e) /\ tableCache[e].data # NoData
       /\ tableCache[e].fetch = "answered" => GoneFrom(state, e, t.r, tableCache[e].answer)
       /\ tableCache[e].fetch = "idle" /\ e \notin failed => GoneFrom(state, e, t.r, tableCache[e].data)

\* What the runs assume of the pages: only one of the two tables is used.
OneTable(O, e) == e \in {"all", "pending"} /\ O = {e}

\* The one page in use is the table.
LEMMA OneTableOpen ==
  ASSUME NEW R, NEW O, NEW C, NEW e, OneTable(O, e), RestaurantsIInv(R, O, C)
  PROVE  table = e /\ e \in RestaurantEntry /\ e # "details"
BY DEF OneTable, RestaurantsIInv, Restaurants!TypeOK, RestaurantEntry, RestaurantTable

\* Nothing is reported at the start.
LEMMA InitTable ==
  ASSUME NEW R, NEW O, NEW C, NEW e, OneTable(O, e), Restaurants(R, O, C)!Init
  PROVE  TableSound(C, e)
BY DEF Restaurants!Init, Restaurants!Idle, TableSound

\* A fetch that comes after the report brings no row of what was reported: it was asked
\* for, or asked for again, after the restaurant was deleted or approved.
LEMMA TableQueryStep ==
  ASSUME NEW R, NEW O, NEW C, NEW e, RestaurantsAssumed(R, O), OneTable(O, e), RestaurantsIInv(R, O, C),
         TableSound(C, e), NEW p \in O,
         \/ Restaurants(R, O, C)!Fetch(p) \/ Restaurants(R, O, C)!Get(p)
         \/ Restaurants(R, O, C)!Show(p) \/ Restaurants(R, O, C)!FetchFails(p)
  PROVE  TableSound(C, e)'
<1> DEFINE old == tableCache[e]
           q == tableCache'[e]
<1>0. /\ p = e /\ e \in RestaurantEntry /\ e # "details" /\ old \in Cache!Entries(SUBSET R)
      /\ tableCache \in [RestaurantEntry -> Cache!Entries(R \cup SUBSET R)]
      /\ old.fetch = "answered" => old.answer # NoData
  BY OneTableOpen DEF OneTable, RestaurantsIInv, QueriesSound
<1>1. UNCHANGED <<state, closed, toDelete, click, toldClicks>>
  BY DEF Restaurants!Fetch, Restaurants!Get, Restaurants!Show, Restaurants!FetchFails, Restaurants!service
<1>2. SUFFICES
        /\ old.data # NoData => q.data # NoData
        /\ \A t \in toldClicks :
             /\ q.fetch = "answered" => GoneFrom(state, e, t.r, q.answer)
             /\ q.fetch = "idle" /\ e \notin failed' => GoneFrom(state, e, t.r, q.data)
  BY <1>1 DEF TableSound
<1>3. \A t \in toldClicks :
        /\ t \in [op : {"delete", "approve"}, r : R]
        /\ t.op = OpOf(e) /\ Done(t.op, t.r)
        /\ old.fetch = "answered" => GoneFrom(state, e, t.r, old.answer)
        /\ old.fetch = "idle" /\ e \notin failed => GoneFrom(state, e, t.r, old.data)
  BY DEF TableSound, RestaurantsIInv, ToldSound, Restaurants!TypeOK
<1>4. old = tableCache[e] /\ q = tableCache'[e]
  OBVIOUS
<1> HIDE DEF old, q
<1>5. CASE Restaurants(R, O, C)!Fetch(e)
  <2>1. tableCache' = [tableCache EXCEPT ![e] = Cache!Fetching(old)] /\ failed' = failed /\ old.fetch = "idle"
    BY <1>4, <1>5 DEF Restaurants!Fetch, Restaurants!Fetching, Cache!Fetching
  <2>2. q = Cache!Fetching(old)
    BY <1>0, <1>4, <2>1
  <2> QED
    BY <1>0, <2>1, <2>2, EntryFetching
<1>6. CASE Restaurants(R, O, C)!Get(e)
  <2> DEFINE v == Restaurants(R, O, C)!GetAllRestaurant(e)
  <2>1. tableCache' = [tableCache EXCEPT ![e] = Cache!Served(old, v)]
    BY <1>0, <1>4, <1>6 DEF Restaurants!Get, Restaurants!Served, Cache!Served
  <2>2. v \in SUBSET R
    BY <1>0 DEF Restaurants!GetAllRestaurant, Restaurants!Stored
  <2>3. \A t \in toldClicks : GoneFrom(state, e, t.r, v)
    <3> SUFFICES ASSUME NEW t \in toldClicks PROVE GoneFrom(state, e, t.r, v)
      OBVIOUS
    <3>1. CASE e = "all"
      <4>1. t.r \in closed
        BY <1>3, <3>1 DEF Done, DoneIn, OpOf
      <4> QED
        BY <3>1, <4>1 DEF GoneFrom, Restaurants!GetAllRestaurant, Restaurants!Stored
    <3>2. CASE e = "pending"
      <4>1. state[t.r] \in {"approved", "unapproved", "again"}
        BY <1>3, <3>2 DEF Done, DoneIn, OpOf
      <4> QED
        BY <3>2, <4>1 DEF GoneFrom, Restaurants!GetAllRestaurant, Restaurants!Stored
    <3> QED
      BY <3>1, <3>2 DEF OneTable
  <2> HIDE DEF v
  <2>4. q = Cache!Served(old, v)
    BY <1>0, <1>4, <2>1
  <2>5. q.data = old.data /\ q.fetch = "answered" /\ q.answer = v
    BY <1>0, <2>2, <2>4, EntryServed
  <2> QED
    BY <2>3, <2>5
<1>7. CASE Restaurants(R, O, C)!Show(e)
  <2>1. tableCache' = [tableCache EXCEPT ![e] = Cache!Filled(old)] /\ old.fetch = "answered"
    BY <1>4, <1>7 DEF Restaurants!Show, Restaurants!Filled, Cache!Filled
  <2>2. q = Cache!Filled(old)
    BY <1>0, <1>4, <2>1
  <2>3. q.data = old.answer /\ q.fetch = "idle"
    BY <1>0, <2>2, EntryFilled
  <2> QED
    BY <1>0, <1>3, <2>1, <2>3
<1>8. CASE Restaurants(R, O, C)!FetchFails(e)
  <2>1. tableCache' = [tableCache EXCEPT ![e] = Cache!Failed(old)] /\ e \in failed'
    BY <1>4, <1>8 DEF Restaurants!FetchFails, Restaurants!Failed, Cache!Failed
  <2>2. q = Cache!Failed(old)
    BY <1>0, <1>4, <2>1
  <2>3. q.data = old.data /\ q.fetch = "idle"
    BY <1>0, <2>2, EntryFailed
  <2> QED
    BY <2>1, <2>3
<1> QED
  BY <1>0, <1>5, <1>6, <1>7, <1>8

\* An approval that was taken back may be given again, and is never forgotten.
StillTakenBack(R) ==
  \A r \in R : state[r] \in {"unapproved", "again"} => state'[r] \in {"unapproved", "again"}

\* An approval that was taken back once is not forgotten.
LEMMA TakenBackStays ==
  ASSUME NEW R, NEW O, NEW C, RestaurantsIInv(R, O, C), NEW r \in R, NEW approved \in BOOLEAN,
         state' = Restaurants(R, O, C)!Approved(r, approved)
  PROVE  StillTakenBack(R)
<1>1. state \in [R -> {"absent", "pending", "approved", "unapproved", "again"}]
  BY DEF RestaurantsIInv, Restaurants!TypeOK, Restaurants!State
<1> QED
  BY <1>1 DEF Restaurants!Approved, StillTakenBack

\* A step that leaves the table as it is.
LEMMA TableStays ==
  ASSUME NEW R, NEW O, NEW C, NEW e, OneTable(O, e), RestaurantsIInv(R, O, C), TableSound(C, e),
         StillTakenBack(R), UNCHANGED <<tableCache, failed, toldClicks>>,
         \A c \in C : click'[c].at # "idle" => click'[c].op = OpOf(e) /\ tableCache[e].data # NoData,
         toDelete' # NoRestaurant => e = "all" /\ tableCache[e].data # NoData
  PROVE  TableSound(C, e)'
<1>1. \A t \in toldClicks : t.r \in R
  BY DEF RestaurantsIInv, Restaurants!TypeOK
<1>2. \A t \in toldClicks :
       /\ t.op = OpOf(e) /\ tableCache[e].data # NoData
       /\ tableCache[e].fetch = "answered" => GoneFrom(state', e, t.r, tableCache[e].answer)
       /\ tableCache[e].fetch = "idle" /\ e \notin failed => GoneFrom(state', e, t.r, tableCache[e].data)
  BY <1>1 DEF TableSound, StillTakenBack, GoneFrom
<1> QED
  BY <1>2 DEF TableSound

\* Clicks that are under way report nothing yet.
LEMMA TableClickStep ==
  ASSUME NEW R, NEW O, NEW C, NEW e, RestaurantsAssumed(R, O), OneTable(O, e), RestaurantsIInv(R, O, C),
         TableSound(C, e), NEW c \in C,
         \/ Restaurants(R, O, C)!ConfirmDelete(c)
         \/ \E r \in R : Restaurants(R, O, C)!HandleApproveRestaurant(c, r)
         \/ Restaurants(R, O, C)!DeleteRestaurantById(c) \/ Restaurants(R, O, C)!ApproveRestaurantById(c)
         \/ Restaurants(R, O, C)!ApprovedIsRead(c) \/ Restaurants(R, O, C)!CallFails(c)
  PROVE  TableSound(C, e)'
<1>1. /\ click \in [C -> Restaurants(R, O, C)!Calls]
      /\ \A d \in C : click[d].at # "idle" => click[d].op = OpOf(e) /\ tableCache[e].data # NoData
      /\ toDelete # NoRestaurant => e = "all" /\ tableCache[e].data # NoData
      /\ table = e
  BY OneTableOpen DEF RestaurantsIInv, Restaurants!TypeOK, TableSound
<1>2. UNCHANGED <<tableCache, failed, toDelete, toldClicks>>
  BY DEF Restaurants!ConfirmDelete, Restaurants!HandleApproveRestaurant, Restaurants!DeleteRestaurantById,
         Restaurants!ApproveRestaurantById, Restaurants!ApprovedIsRead, Restaurants!CallFails
<1>3. \A d \in C : click'[d].at # "idle" => click'[d].op = OpOf(e) /\ tableCache[e].data # NoData
  <2>1. CASE Restaurants(R, O, C)!ConfirmDelete(c)
    <3>1. Restaurants(R, O, C)!Send(c, "delete", toDelete) /\ toDelete # NoRestaurant
      BY <2>1 DEF Restaurants!ConfirmDelete
    <3>2. click' = [click EXCEPT ![c] = [at |-> "sent", from |-> table, op |-> "delete", r |-> toDelete, ok |-> FALSE]]
      BY <3>1, SentClick
    <3> QED
      BY <1>1, <3>1, <3>2 DEF OpOf
  <2>2. CASE \E r \in R : Restaurants(R, O, C)!HandleApproveRestaurant(c, r)
    <3>1. PICK r \in R : Restaurants(R, O, C)!HandleApproveRestaurant(c, r)
      BY <2>2
    <3>2. /\ Restaurants(R, O, C)!Send(c, "approve", r) /\ e = "pending" /\ r \in Restaurants(R, O, C)!Rows
      BY <1>1, <3>1 DEF Restaurants!HandleApproveRestaurant
    <3>3. click' = [click EXCEPT ![c] = [at |-> "sent", from |-> table, op |-> "approve", r |-> r, ok |-> FALSE]]
      BY <3>2, SentClick
    <3>4. tableCache[e].data # NoData
      BY <1>1, <3>2 DEF Restaurants!Rows
    <3> QED
      BY <1>1, <3>2, <3>3, <3>4 DEF OpOf
  <2>3. CASE \/ Restaurants(R, O, C)!DeleteRestaurantById(c) \/ Restaurants(R, O, C)!ApproveRestaurantById(c)
             \/ Restaurants(R, O, C)!ApprovedIsRead(c) \/ Restaurants(R, O, C)!CallFails(c)
    <3> DEFINE Sent == [at : {"sent", "approved", "answered"}, from : RestaurantTable \cup {"left"},
                        op : {"delete", "approve"}, r : R, ok : BOOLEAN]
    <3>1. click[c].at # "idle"
      BY <2>3 DEF Restaurants!DeleteRestaurantById, Restaurants!ApproveRestaurantById,
                  Restaurants!ApprovedIsRead, Restaurants!CallFails
    <3>2. click[c] \in Sent
      BY <1>1, <3>1 DEF Restaurants!Calls, Restaurants!Idle, Restaurants!Table, RestaurantTable
    <3>3. \/ click' = [click EXCEPT ![c] = [@ EXCEPT !.at = "answered", !.ok = TRUE]]
          \/ click' = [click EXCEPT ![c] = [@ EXCEPT !.at = "approved"]]
          \/ click' = [click EXCEPT ![c] = [@ EXCEPT !.at = "answered"]]
          \/ click' = [click EXCEPT ![c] = [@ EXCEPT !.at = "answered", !.ok = click[c].r \notin closed]]
          \/ click' = [click EXCEPT ![c] = [@ EXCEPT !.at = "answered", !.ok = FALSE]]
      BY <1>1, <2>3, <3>2 DEF Restaurants!DeleteRestaurantById, Restaurants!ApproveRestaurantById,
                  Restaurants!ApprovedIsRead, Restaurants!CallFails
    <3>4. click'[c].op = click[c].op /\ \A d \in C \ {c} : click'[d] = click[d]
      BY <1>1, <3>2, <3>3
    <3> QED
      BY <1>1, <3>1, <3>4
  <2> QED
    BY <2>1, <2>2, <2>3
<1>4. StillTakenBack(R)
  <2>1. CASE UNCHANGED state
    BY <2>1 DEF StillTakenBack
  <2>2. CASE Restaurants(R, O, C)!ApproveRestaurantById(c) /\ state' = Restaurants(R, O, C)!Approved(click[c].r, TRUE)
    <3>1. click[c].r \in R
      BY <2>2 DEF RestaurantsIInv, ClicksSound, Restaurants!ApproveRestaurantById
    <3> QED
      BY <2>2, <3>1, TakenBackStays
  <2> QED
    BY <2>1, <2>2 DEF Restaurants!ConfirmDelete, Restaurants!HandleApproveRestaurant,
       Restaurants!DeleteRestaurantById, Restaurants!ApproveRestaurantById, Restaurants!ApprovedIsRead,
       Restaurants!CallFails, Restaurants!service
<1> QED
  BY <1>1, <1>2, <1>3, <1>4, TableStays

\* What others do takes nothing back but approvals.
LEMMA TablePageStep ==
  ASSUME NEW R, NEW O, NEW C, NEW e, RestaurantsAssumed(R, O), OneTable(O, e), RestaurantsIInv(R, O, C),
         TableSound(C, e),
         \/ \E p \in O : Restaurants(R, O, C)!SelectTab(p)
         \/ "details" \in O /\ \E r \in R : Restaurants(R, O, C)!ViewRestaurant(r)
         \/ \E r \in R : Restaurants(R, O, C)!HandleDeleteClick(r)
         \/ Restaurants(R, O, C)!CloseDialog
         \/ \E S \in SUBSET R : Restaurants(R, O, C)!HandleSearchChange(S)
         \/ \E r \in R : Restaurants(R, O, C)!RegisterElsewhere(r) \/ Restaurants(R, O, C)!DeleteElsewhere(r)
         \/ \E r \in R, approved \in BOOLEAN : Restaurants(R, O, C)!ApproveElsewhere(r, approved)
  PROVE  TableSound(C, e)'
<1>1. /\ table = e
      /\ \A d \in C : click[d].at # "idle" => click[d].op = OpOf(e) /\ tableCache[e].data # NoData
      /\ toDelete # NoRestaurant => e = "all" /\ tableCache[e].data # NoData
      /\ state \in [R -> {"absent", "pending", "approved", "unapproved", "again"}]
  BY OneTableOpen DEF RestaurantsIInv, Restaurants!TypeOK, Restaurants!State, TableSound
<1>2. CASE \E p \in O : Restaurants(R, O, C)!SelectTab(p)
  BY <1>1, <1>2 DEF OneTable, Restaurants!SelectTab
<1>3. CASE "details" \in O
  BY <1>3 DEF OneTable
<1>4. CASE \E r \in R : Restaurants(R, O, C)!HandleDeleteClick(r)
  <2>1. PICK r \in R : Restaurants(R, O, C)!HandleDeleteClick(r)
    BY <1>4
  <2>2. e = "all" /\ tableCache[e].data # NoData
    BY <1>1, <2>1 DEF Restaurants!HandleDeleteClick, Restaurants!Rows
  <2>3. UNCHANGED <<state, tableCache, failed, toldClicks, click>>
    BY <2>1 DEF Restaurants!HandleDeleteClick, Restaurants!service
  <2> QED
    BY <1>1, <2>2, <2>3, TableStays DEF StillTakenBack
<1>5. CASE Restaurants(R, O, C)!CloseDialog \/ \E S \in SUBSET R : Restaurants(R, O, C)!HandleSearchChange(S)
  <2>1. UNCHANGED <<state, tableCache, failed, toldClicks, click>> /\ toDelete' \in {toDelete, NoRestaurant}
    BY <1>5 DEF Restaurants!CloseDialog, Restaurants!HandleSearchChange, Restaurants!service
  <2> QED
    BY <1>1, <2>1, TableStays DEF StillTakenBack
<1>6. CASE \/ \E r \in R : Restaurants(R, O, C)!RegisterElsewhere(r) \/ Restaurants(R, O, C)!DeleteElsewhere(r)
           \/ \E r \in R, approved \in BOOLEAN : Restaurants(R, O, C)!ApproveElsewhere(r, approved)
  <2>1. UNCHANGED <<tableCache, failed, toldClicks, click, toDelete>>
    BY <1>6 DEF Restaurants!RegisterElsewhere, Restaurants!DeleteElsewhere, Restaurants!ApproveElsewhere
  <2>2. StillTakenBack(R)
    <3>1. CASE \E r \in R : Restaurants(R, O, C)!RegisterElsewhere(r) \/ Restaurants(R, O, C)!DeleteElsewhere(r)
      BY <1>1, <3>1 DEF Restaurants!RegisterElsewhere, Restaurants!DeleteElsewhere, StillTakenBack
    <3>2. CASE \E r \in R, approved \in BOOLEAN : Restaurants(R, O, C)!ApproveElsewhere(r, approved)
      BY <3>2, TakenBackStays DEF Restaurants!ApproveElsewhere
    <3> QED
      BY <1>6, <3>1, <3>2
  <2> QED
    BY <1>1, <2>1, <2>2, TableStays
<1> QED
  BY <1>2, <1>3, <1>4, <1>5, <1>6

\* A report cancels and repeats the fetch that is under way.
LEMMA TableSettleStep ==
  ASSUME NEW R, NEW O, NEW C, NEW e, RestaurantsAssumed(R, O), OneTable(O, e), RestaurantsIInv(R, O, C),
         TableSound(C, e), NEW c \in C, Restaurants(R, O, C)!Settle(c)
  PROVE  TableSound(C, e)'
<1> DEFINE old == tableCache[e]
           q == tableCache'[e]
<1>0. /\ table = e /\ e \in RestaurantEntry /\ e # "details" /\ old \in Cache!Entries(SUBSET R)
      /\ tableCache \in [RestaurantEntry -> Cache!Entries(R \cup SUBSET R)]
      /\ click \in [C -> Restaurants(R, O, C)!Calls]
  BY OneTableOpen DEF OneTable, RestaurantsIInv, QueriesSound, Restaurants!TypeOK
<1>1. /\ click[c].at = "answered" /\ click' = [click EXCEPT ![c] = Restaurants(R, O, C)!Idle]
      /\ toldClicks' = (IF click[c].ok THEN toldClicks \cup {[op |-> click[c].op, r |-> click[c].r]} ELSE toldClicks)
      /\ toDelete' \in {NoRestaurant, toDelete}
      /\ UNCHANGED <<state, closed, table, shown, failed, asked, search>>
  BY DEF Restaurants!Settle, Restaurants!service
<1>2. click[c].op = OpOf(e) /\ old.data # NoData
  BY <1>1 DEF TableSound
<1>3. \A d \in C : click'[d].at # "idle" => click'[d].op = OpOf(e)
  <2>1. Restaurants(R, O, C)!Idle.at = "idle"
    BY DEF Restaurants!Idle
  <2> QED
    BY <1>0, <1>1, <2>1 DEF TableSound
<1>4. q = (IF click[c].ok THEN Cache!Invalidated(old) ELSE old)
  <2>1. /\ e \in Restaurants(R, O, C)!Entry /\ e \in Restaurants(R, O, C)!Table \cap O
        /\ Restaurants(R, O, C)!Mounted(e)
    BY <1>0 DEF OneTable, Restaurants!Entry, Restaurants!Page, Restaurants!Table, Restaurants!Mounted
  <2>2. q = (IF e \in Restaurants(R, O, C)!Invalidates(click[c].ok) THEN Cache!Invalidated(old) ELSE old)
    BY <2>1 DEF Restaurants!Settle, Restaurants!Refreshed, Restaurants!Invalidated, Cache!Invalidated
  <2>3. e \in Restaurants(R, O, C)!Invalidates(click[c].ok) <=> click[c].ok
    BY <2>1 DEF Restaurants!Invalidates
  <2> QED
    BY <2>2, <2>3
<1>5. q.data = old.data /\ (click[c].ok => q.fetch = "sent") /\ (~click[c].ok => q = old)
  <2> HIDE DEF old, q
  <2>1. old = tableCache[e]
    BY DEF old
  <2> QED
    BY <1>0, <1>2, <1>4, EntryInvalidated
<1>6. old = tableCache[e] /\ q = tableCache'[e]
  OBVIOUS
<1> HIDE DEF old, q
<1>7. CASE click[c].ok
  <2>1. \A t \in toldClicks' : t.op = OpOf(e)
    BY <1>1, <1>2, <1>7 DEF TableSound
  <2> QED
    BY <1>1, <1>2, <1>3, <1>5, <1>6, <1>7, <2>1 DEF TableSound
<1>8. CASE ~click[c].ok
  BY <1>1, <1>2, <1>3, <1>5, <1>6, <1>8 DEF TableSound
<1> QED
  BY <1>7, <1>8

\* Every step keeps what was reported out of the table.
LEMMA TableStep ==
  ASSUME NEW R, NEW O, NEW C, NEW e, RestaurantsAssumed(R, O), OneTable(O, e), RestaurantsIInv(R, O, C),
         TableSound(C, e), Restaurants(R, O, C)!Next
  PROVE  TableSound(C, e)'
BY TableQueryStep, TableClickStep, TablePageStep, TableSettleStep DEF Restaurants!Next

\* So does a step of another part.
LEMMA TableStutter ==
  ASSUME NEW C, NEW e, TableSound(C, e), UNCHANGED restaurantVars
  PROVE  TableSound(C, e)'
BY DEF TableSound, restaurantVars

\* What was reported has left the table.
LEMMA ToldHasLeft ==
  ASSUME NEW R, NEW O, NEW C, NEW e, OneTable(O, e), RestaurantsIInv(R, O, C), TableSound(C, e)
  PROVE  Restaurants(R, O, C)!ToldLeavesTable
<1>1. table = e /\ e \in {"all", "pending"}
  BY OneTableOpen DEF OneTable
<1> SUFFICES ASSUME NEW t \in toldClicks,
                    tableCache[e].fetch = "idle", e \notin failed
             PROVE  t.r \notin Restaurants(R, O, C)!Rows
                      \/ (t.op = "approve" /\ state[t.r] \in {"unapproved", "again"})
  BY <1>1 DEF Restaurants!ToldLeavesTable
<1>2. GoneFrom(state, e, t.r, tableCache[e].data) /\ t.op = OpOf(e)
  BY DEF TableSound
<1> QED
  BY <1>1, <1>2 DEF GoneFrom, OpOf, Restaurants!Rows

-----------------------------------------------------------------------------
(* The page of a restaurant's menu (MenuDesk.tla), for any restaurants,    *)
(* presses and presses at a time, whether or not it may be left.           *)

Menu(Restaurant, Presses, AtATime, MayLeave) ==
  INSTANCE MenuDesk
    WITH page <- menuPage, list <- menuList, asked <- menuAsked, failed <- menuFailed,
         call <- menuCall, told <- menuTold

MenuAssumed(R, P) ==
  /\ P \in Nat /\ NoRestaurant \notin R
  /\ NoData \notin [of : R, rows : SUBSET (0..P)]

Missing == [of |-> NoRestaurant, deleted |-> FALSE]
MenuDocs(R) == [of : R, deleted : BOOLEAN]
MenuLists(R, P) == [of : R, rows : SUBSET (0..P)]
MenuPresses(R, P) ==
  [at : {"unused", "upload", "ask", "write", "ok", "failed", "over"},
   op : {"none", "create", "update", "delete"}, item : 0..P, of : R \cup {NoRestaurant}, left : BOOLEAN]

\* What the page shows, or is on its way to it, are items that are stored, and so is the
\* item of the open dialog.
RowsStored(R, P) ==
  /\ menuList \in Cache!Entries(MenuLists(R, P))
  /\ menuList.fetch = "answered" => menuList.answer # NoData
  /\ menuList.data # NoData => \A i \in menuList.data.rows : items[i] # Missing
  /\ menuList.answer # NoData => \A i \in menuList.answer.rows : items[i] # Missing
  /\ dialog.open = "modify" => items[dialog.item] # Missing

\* The press p, in state k: it creates its item once, of the restaurant it was pressed for,
\* changes stored items only, and what it was told to have done has happened.
PressSound(R, its, reported, p, k) ==
  /\ its[p] # Missing => k.at \in {"ok", "failed", "over"} /\ k.op = "create" /\ its[p].of = k.of
  /\ k.at = "unused" => k.op = "none"
  /\ k.at # "unused" => k.of \in R
  /\ k.op \in {"update", "delete"} => its[k.item] # Missing
  /\ k.at = "ok" \/ p \in reported =>
       /\ k.op = "create" => its[p] # Missing
       /\ k.op = "delete" => its[k.item].deleted
  /\ p \in reported => k.at = "over"

PressesSound(R, P) == \A p \in 1..P : PressSound(R, items, menuTold, p, menuCall[p])

MenuIInv(R, P, A, L) ==
  Menu(R, P, A, L)!TypeOK /\ RowsStored(R, P) /\ PressesSound(R, P)

\* The type invariant, with the names above.
LEMMA MenuTyped ==
  ASSUME NEW R, NEW P, NEW A, NEW L
  PROVE  Menu(R, P, A, L)!TypeOK <=>
           /\ items \in [0..P -> MenuDocs(R) \cup {Missing}] /\ items[0] # Missing
           /\ \A p \in 1..P : items[p] # Missing => menuCall[p].op = "create"
           /\ menuPage \in R \cup {NoRestaurant}
           /\ dialog \in [open : {"no", "create", "modify"}, item : 0..P]
           /\ menuPage = NoRestaurant => dialog = [open |-> "no", item |-> 0]
           /\ menuList \in Cache!Entries(MenuLists(R, P)) /\ menuAsked \in R /\ menuFailed \in BOOLEAN
           /\ menuCall \in [1..P -> MenuPresses(R, P)]
           /\ menuTold \subseteq 1..P
BY DEF Menu!TypeOK, Menu!Item, Menu!Press, Menu!Docs, Menu!NoDoc, Menu!Menus, Menu!Entries, Menu!Closed,
       Cache!Entries, MenuDocs, Missing, MenuLists, MenuPresses

\* The page of a menu starts with the invariant.
LEMMA InitMenu ==
  ASSUME NEW R, NEW P, NEW A, NEW L, MenuAssumed(R, P), Menu(R, P, A, L)!Init
  PROVE  MenuIInv(R, P, A, L)
<1>1. /\ items \in [0..P -> {Missing} \cup [of : R, deleted : {FALSE}]]
      /\ \A i \in 0..P : items[i] = Missing <=> i # 0
      /\ menuPage \in R /\ dialog = [open |-> "no", item |-> 0]
      /\ menuList = Cache!Fetching(Cache!Fresh) /\ menuAsked = menuPage /\ menuFailed = FALSE
      /\ menuCall = [p \in 1..P |-> Menu(R, P, A, L)!Idle] /\ menuTold = {}
  BY DEF Menu!Init, Menu!Item, Menu!Press, Menu!NoDoc, Menu!Closed, Missing, Menu!Fetching, Menu!Fresh,
         Cache!Fetching, Cache!Fresh
<1>2. /\ menuList \in Cache!Entries(MenuLists(R, P)) /\ menuList.data = NoData /\ menuList.answer = NoData
      /\ menuList.fetch = "sent"
  <2>1. /\ Cache!Fresh \in Cache!Entries(MenuLists(R, P)) /\ Cache!Fresh.fetch = "idle"
        /\ Cache!Fresh.data = NoData /\ Cache!Fresh.answer = NoData
    BY DEF Cache!Fresh, Cache!Entries
  <2> QED
    BY <1>1, <2>1, EntryFetching
<1>3. /\ Menu(R, P, A, L)!Idle \in MenuPresses(R, P)
      /\ Menu(R, P, A, L)!Idle.at = "unused" /\ Menu(R, P, A, L)!Idle.op = "none"
  BY DEF Menu!Idle, MenuPresses, MenuAssumed
<1>4. 0 \in 0..P /\ \A p \in 1..P : p \in 0..P /\ p # 0
  BY DEF MenuAssumed
<1>5. RowsStored(R, P)
  BY <1>1, <1>2 DEF RowsStored
<1>6. PressesSound(R, P)
  BY <1>1, <1>3, <1>4 DEF PressesSound, PressSound
<1>7. items \in [0..P -> MenuDocs(R) \cup {Missing}]
  BY <1>1 DEF MenuDocs
<1>8. menuCall \in [1..P -> MenuPresses(R, P)] /\ \A p \in 1..P : items[p] = Missing
  BY <1>1, <1>3, <1>4
<1>9. Menu(R, P, A, L)!TypeOK
  BY <1>1, <1>2, <1>4, <1>7, <1>8, MenuTyped
<1> QED
  BY <1>5, <1>6, <1>9 DEF MenuIInv

\* A list that is fetched, or fetched again, shows the rows it has shown.
LEMMA MenuIsFetched ==
  ASSUME NEW R, NEW P, RowsStored(R, P), UNCHANGED items,
         menuList' \in {menuList, Cache!Fetching(menuList), Cache!Invalidated(menuList), Cache!Failed(menuList),
                        Cache!Filled(menuList)},
         dialog'.open = "modify" => items[dialog'.item] # Missing
  PROVE  RowsStored(R, P)'
<1> DEFINE q == menuList'
           old == menuList
<1>0. q = menuList' /\ old = menuList
  OBVIOUS
<1> HIDE DEF q, old
<1>1. /\ old \in Cache!Entries(MenuLists(R, P))
      /\ q \in {old, Cache!Fetching(old), Cache!Invalidated(old), Cache!Failed(old), Cache!Filled(old)}
  BY <1>0 DEF RowsStored
<1>2. /\ q \in Cache!Entries(MenuLists(R, P)) /\ q.data \in {old.data, old.answer}
      /\ q.answer \in {old.answer, NoData} /\ (q.fetch = "answered" => q = old)
  <2>1. CASE q = old
    BY <1>1, <2>1
  <2>2. CASE q = Cache!Fetching(old)
    BY <1>1, <2>2, EntryFetching
  <2>3. CASE q = Cache!Invalidated(old)
    BY <1>1, <2>3, EntryInvalidated
  <2>4. CASE q = Cache!Failed(old)
    BY <1>1, <2>4, EntryFailed
  <2>5. CASE q = Cache!Filled(old)
    BY <1>1, <2>5, EntryFilled
  <2> QED
    BY <1>1, <2>1, <2>2, <2>3, <2>4, <2>5
<1> QED
  BY <1>0, <1>2 DEF RowsStored

\* The menu is opened, fetched and shown, and its dialogs opened and closed.
LEMMA MenuPageStep ==
  ASSUME NEW R, NEW P, NEW A, NEW L, MenuAssumed(R, P), MenuIInv(R, P, A, L),
         \/ \E r \in R : Menu(R, P, A, L)!OpenMenu(r)
         \/ Menu(R, P, A, L)!Refetch \/ Menu(R, P, A, L)!GetRestaurantMenuItems
         \/ Menu(R, P, A, L)!ShowMenu \/ Menu(R, P, A, L)!MenuFails
         \/ Menu(R, P, A, L)!HandleAddMenuButton \/ Menu(R, P, A, L)!Cancel
         \/ \E i \in 0..P : Menu(R, P, A, L)!HandleModifyButton(i)
  PROVE  MenuIInv(R, P, A, L)'
<1>1. /\ Menu(R, P, A, L)!TypeOK /\ RowsStored(R, P) /\ PressesSound(R, P)
      /\ menuPage \in R \cup {NoRestaurant} /\ menuAsked \in R /\ menuFailed \in BOOLEAN
      /\ dialog \in [open : {"no", "create", "modify"}, item : 0..P]
      /\ menuPage = NoRestaurant => dialog = [open |-> "no", item |-> 0]
      /\ 0 \in 0..P
  BY MenuTyped DEF MenuIInv, MenuAssumed
<1>2. UNCHANGED <<items, menuCall, menuTold>>
  BY DEF Menu!OpenMenu, Menu!Refetch, Menu!GetRestaurantMenuItems, Menu!ShowMenu, Menu!MenuFails,
         Menu!HandleAddMenuButton, Menu!Cancel, Menu!HandleModifyButton
<1>3. /\ RowsStored(R, P)'
      /\ dialog' \in [open : {"no", "create", "modify"}, item : 0..P]
      /\ menuPage' = NoRestaurant => dialog' = [open |-> "no", item |-> 0]
      /\ menuPage' \in R \cup {NoRestaurant} /\ menuAsked' \in R /\ menuFailed' \in BOOLEAN
  <2>1. CASE \E r \in R : Menu(R, P, A, L)!OpenMenu(r)
    <3>1. /\ menuList' = Cache!Fetching(menuList) /\ menuPage' \in R /\ menuAsked' \in R
          /\ UNCHANGED <<dialog, menuFailed>>
      BY <1>1, <2>1 DEF Menu!OpenMenu, Menu!Fetching, Cache!Fetching
    <3>2. RowsStored(R, P)'
      BY <1>1, <1>2, <3>1, MenuIsFetched DEF RowsStored
    <3> QED
      BY <1>1, <3>1, <3>2 DEF MenuAssumed
  <2>2. CASE Menu(R, P, A, L)!Refetch
    <3>1. /\ menuList' = Cache!Fetching(menuList) /\ menuPage # NoRestaurant /\ menuAsked' = menuPage
          /\ UNCHANGED <<dialog, menuFailed, menuPage>>
      BY <2>2 DEF Menu!Refetch, Menu!Fetching, Cache!Fetching
    <3>2. RowsStored(R, P)'
      BY <1>1, <1>2, <3>1, MenuIsFetched DEF RowsStored
    <3> QED
      BY <1>1, <3>1, <3>2
  <2>3. CASE Menu(R, P, A, L)!GetRestaurantMenuItems
    <3> DEFINE v == [of |-> menuAsked, rows |-> Menu(R, P, A, L)!Sold(menuAsked)]
    <3>1. /\ menuList' = Cache!Served(menuList, v)
          /\ UNCHANGED <<dialog, menuFailed, menuPage, menuAsked>>
      BY <2>3 DEF Menu!GetRestaurantMenuItems, Menu!Served, Cache!Served
    <3>2. /\ v \in MenuLists(R, P) /\ \A i \in v.rows : items[i] # Missing
      BY <1>1 DEF MenuLists, Menu!Sold, Menu!Item, Missing, MenuAssumed
    <3>3. v # NoData
      BY <3>2 DEF MenuAssumed, MenuLists
    <3> HIDE DEF v
    <3>4. menuList \in Cache!Entries(MenuLists(R, P))
      BY <1>1 DEF RowsStored
    <3>5. menuList' \in Cache!Entries(MenuLists(R, P)) /\ menuList'.data = menuList.data
          /\ menuList'.answer = v
      BY <3>1, <3>2, <3>4, EntryServed
    <3>6. RowsStored(R, P)'
      BY <1>1, <1>2, <3>1, <3>2, <3>3, <3>5 DEF RowsStored
    <3> QED
      BY <1>1, <3>1, <3>6
  <2>4. CASE Menu(R, P, A, L)!ShowMenu
    <3>1. /\ menuList' = Cache!Filled(menuList) /\ menuFailed' = FALSE
          /\ UNCHANGED <<dialog, menuAsked, menuPage>>
      BY <2>4 DEF Menu!ShowMenu, Menu!Filled, Cache!Filled
    <3>2. RowsStored(R, P)'
      BY <1>1, <1>2, <3>1, MenuIsFetched DEF RowsStored
    <3> QED
      BY <1>1, <3>1, <3>2
  <2>5. CASE Menu(R, P, A, L)!MenuFails
    <3>1. /\ menuList' = Cache!Failed(menuList) /\ menuFailed' = TRUE
          /\ UNCHANGED <<dialog, menuAsked, menuPage>>
      BY <2>5 DEF Menu!MenuFails, Menu!Failed, Cache!Failed
    <3>2. RowsStored(R, P)'
      BY <1>1, <1>2, <3>1, MenuIsFetched DEF RowsStored
    <3> QED
      BY <1>1, <3>1, <3>2
  <2>6. CASE \/ Menu(R, P, A, L)!HandleAddMenuButton \/ Menu(R, P, A, L)!Cancel
             \/ \E i \in 0..P : Menu(R, P, A, L)!HandleModifyButton(i)
    <3>1. UNCHANGED <<menuPage, menuList, menuAsked, menuFailed>>
      BY <2>6 DEF Menu!HandleAddMenuButton, Menu!Cancel, Menu!HandleModifyButton, Menu!queries
    <3>2. /\ dialog' \in [open : {"no", "create", "modify"}, item : 0..P]
          /\ menuPage = NoRestaurant => dialog' = [open |-> "no", item |-> 0]
          /\ dialog'.open = "modify" => items[dialog'.item] # Missing
      BY <1>1, <2>6 DEF Menu!HandleAddMenuButton, Menu!Cancel, Menu!HandleModifyButton, Menu!Closed,
         Menu!Rows, RowsStored
    <3>3. RowsStored(R, P)'
      BY <1>1, <1>2, <3>1, <3>2, MenuIsFetched
    <3> QED
      BY <1>1, <3>1, <3>2, <3>3
  <2> QED
    BY <2>1, <2>2, <2>3, <2>4, <2>5, <2>6
<1>4. PressesSound(R, P)'
  BY <1>1, <1>2 DEF PressesSound, PressSound
<1>5. Menu(R, P, A, L)!TypeOK'
  <2>1. /\ items' \in [0..P -> MenuDocs(R) \cup {Missing}] /\ items'[0] # Missing
        /\ \A p \in 1..P : items'[p] # Missing => menuCall'[p].op = "create"
        /\ menuList' \in Cache!Entries(MenuLists(R, P))
        /\ menuCall' \in [1..P -> MenuPresses(R, P)]
        /\ menuTold' \subseteq 1..P
    BY <1>1, <1>2, <1>3, MenuTyped DEF RowsStored
  <2> QED
    BY <1>3, <2>1 DEF Menu!TypeOK, Menu!Item, Menu!Press, Menu!Docs, Menu!NoDoc, Menu!Menus, Menu!Entries, Menu!Closed,
       Cache!Entries, MenuDocs, Missing, MenuLists, MenuPresses
<1> QED
  BY <1>3, <1>4, <1>5 DEF MenuIInv

\* What happens to the stored items: they stay of their restaurant, and deleted.
ItemsGoOn(R, P) ==
  /\ items' \in [0..P -> MenuDocs(R) \cup {Missing}]
  /\ \A i \in 0..P : items[i] # Missing =>
       items'[i] # Missing /\ items'[i].of = items[i].of /\ (items[i].deleted => items'[i].deleted)

\* A step of the page leaves the stored items as they are.
LEMMA ItemsStay ==
  ASSUME NEW R, NEW P, NEW A, NEW L, MenuIInv(R, P, A, L), UNCHANGED items
  PROVE  ItemsGoOn(R, P)
BY MenuTyped DEF MenuIInv, ItemsGoOn

\* Deleting an item that is stored.
LEMMA ItemIsDeleted ==
  ASSUME NEW R, NEW P, NEW A, NEW L, MenuAssumed(R, P), MenuIInv(R, P, A, L), NEW i \in 0..P,
         items[i] # Missing, items' = [items EXCEPT ![i].deleted = TRUE]
  PROVE  ItemsGoOn(R, P) /\ items'[i].deleted /\ \A j \in 0..P : items[j] = Missing => items'[j] = Missing
<1>1. items \in [0..P -> MenuDocs(R) \cup {Missing}]
  BY MenuTyped DEF MenuIInv
<1>2. items[i] \in MenuDocs(R)
  BY <1>1
<1> DEFINE doc == [items[i] EXCEPT !.deleted = TRUE]
<1>3. doc \in MenuDocs(R) /\ doc.of = items[i].of /\ doc.deleted
  BY <1>2 DEF MenuDocs
<1>4. doc # Missing
  BY <1>3 DEF Missing
<1>5. items' = [items EXCEPT ![i] = doc]
  OBVIOUS
<1> HIDE DEF doc
<1> QED
  BY <1>1, <1>3, <1>4, <1>5 DEF ItemsGoOn

\* A step of the press p to the state k.
LEMMA MenuPressMoves ==
  ASSUME NEW R, NEW P, NEW A, NEW L, MenuAssumed(R, P), MenuIInv(R, P, A, L), ItemsGoOn(R, P),
         NEW p \in 1..P, NEW k \in MenuPresses(R, P), menuCall' = [menuCall EXCEPT ![p] = k],
         \A i \in 0..P : i # p /\ items[i] = Missing => items'[i] = Missing,
         menuTold' \in {menuTold, menuTold \cup {p}},
         PressSound(R, items', menuTold', p, k),
         menuList' \in {menuList, Cache!Invalidated(menuList)}, menuAsked' \in R, UNCHANGED <<menuPage, menuFailed>>,
         dialog' \in {dialog, [open |-> "no", item |-> 0]}
  PROVE  MenuIInv(R, P, A, L)'
<1>1. /\ items \in [0..P -> MenuDocs(R) \cup {Missing}] /\ items[0] # Missing
      /\ menuPage \in R \cup {NoRestaurant}
      /\ dialog \in [open : {"no", "create", "modify"}, item : 0..P]
      /\ menuPage = NoRestaurant => dialog = [open |-> "no", item |-> 0]
      /\ menuList \in Cache!Entries(MenuLists(R, P)) /\ menuAsked \in R /\ menuFailed \in BOOLEAN
      /\ menuCall \in [1..P -> MenuPresses(R, P)]
      /\ menuTold \subseteq 1..P
      /\ 0 \in 0..P
      /\ RowsStored(R, P) /\ PressesSound(R, P)
  BY MenuTyped DEF MenuIInv, MenuAssumed
<1>2. /\ menuCall' \in [1..P -> MenuPresses(R, P)] /\ menuCall'[p] = k
      /\ \A q \in 1..P : q # p => menuCall'[q] = menuCall[q]
      /\ \A q \in 1..P : q \in 0..P /\ menuCall[q].item \in 0..P
  BY <1>1 DEF MenuPresses, MenuAssumed
<1>3. PressesSound(R, P)'
  <2> SUFFICES ASSUME NEW q \in 1..P
               PROVE  PressSound(R, items', menuTold', q, menuCall'[q])
    BY DEF PressesSound
  <2>1. CASE q = p
    BY <1>2, <2>1
  <2>2. CASE q # p
    <3>1. PressSound(R, items, menuTold, q, menuCall[q])
      BY <1>1 DEF PressesSound
    <3>2. /\ items'[q] # Missing => items[q] # Missing /\ items'[q].of = items[q].of
          /\ items[q] # Missing => items'[q] # Missing
          /\ items[menuCall[q].item] # Missing => items'[menuCall[q].item] # Missing
          /\ items[menuCall[q].item] # Missing /\ items[menuCall[q].item].deleted => items'[menuCall[q].item].deleted
          /\ q \in menuTold' <=> q \in menuTold
      BY <1>2, <2>2 DEF ItemsGoOn
    <3>3. PressSound(R, items', menuTold', q, menuCall[q])
      BY <3>1, <3>2 DEF PressSound
    <3> QED
      BY <1>2, <2>2, <3>3
  <2> QED
    BY <2>1, <2>2
<1>4. menuList' \in Cache!Entries(MenuLists(R, P)) /\ menuList'.data = menuList.data
      /\ menuList'.answer \in {NoData, menuList.answer} /\ (menuList'.fetch = "answered" => menuList' = menuList)
  <2>1. CASE menuList' = menuList
    BY <1>1, <2>1
  <2>2. CASE menuList' = Cache!Invalidated(menuList)
    BY <1>1, <2>2, EntryInvalidated
  <2> QED
    BY <2>1, <2>2
<1>5. RowsStored(R, P)'
  <2>1. /\ menuList.data # NoData => menuList.data.rows \subseteq 0..P
        /\ menuList.answer # NoData => menuList.answer.rows \subseteq 0..P
    BY <1>1 DEF Cache!Entries, MenuLists
  <2>2. dialog'.open = "modify" => items'[dialog'.item] # Missing
    BY <1>1 DEF RowsStored, ItemsGoOn
  <2> QED
    BY <1>1, <1>4, <2>1, <2>2 DEF RowsStored, ItemsGoOn
<1>6. Menu(R, P, A, L)!TypeOK'
  <2>1. \A q \in 1..P : items'[q] # Missing => menuCall'[q].op = "create"
    BY <1>3 DEF PressesSound, PressSound
  <2>2. items' \in [0..P -> MenuDocs(R) \cup {Missing}] /\ items'[0] # Missing
    BY <1>1 DEF ItemsGoOn
  <2>3. /\ dialog' \in [open : {"no", "create", "modify"}, item : 0..P]
        /\ menuPage' = NoRestaurant => dialog' = [open |-> "no", item |-> 0]
        /\ menuPage' \in R \cup {NoRestaurant} /\ menuAsked' \in R /\ menuFailed' \in BOOLEAN
        /\ menuTold' \subseteq 1..P
    BY <1>1
  <2> QED
    BY <1>2, <1>4, <2>1, <2>2, <2>3 DEF Menu!TypeOK, Menu!Item, Menu!Press, Menu!Docs, Menu!NoDoc, Menu!Menus,
       Menu!Entries, Menu!Closed, Cache!Entries, MenuDocs, Missing, MenuLists, MenuPresses
<1> QED
  BY <1>3, <1>5, <1>6 DEF MenuIInv

\* A dialog's button is pressed.
LEMMA MenuPressStep ==
  ASSUME NEW R, NEW P, NEW A, NEW L, MenuAssumed(R, P), MenuIInv(R, P, A, L), NEW p \in 1..P,
         \/ Menu(R, P, A, L)!OnSubmitCreate(p) \/ Menu(R, P, A, L)!OnSubmitModify(p)
         \/ Menu(R, P, A, L)!OnDelete(p)
  PROVE  MenuIInv(R, P, A, L)'
<1>1. /\ items \in [0..P -> MenuDocs(R) \cup {Missing}]
      /\ menuPage \in R \cup {NoRestaurant} /\ menuAsked \in R
      /\ dialog \in [open : {"no", "create", "modify"}, item : 0..P]
      /\ menuPage = NoRestaurant => dialog = [open |-> "no", item |-> 0]
      /\ RowsStored(R, P) /\ PressesSound(R, P) /\ menuCall \in [1..P -> MenuPresses(R, P)]
  BY MenuTyped DEF MenuIInv
<1>2. PICK op \in {"create", "update", "delete"}, at \in {"upload", "ask"} :
        /\ Menu(R, P, A, L)!Start(p, op, at)
        /\ op = "create" => dialog.open = "create"
        /\ op \in {"update", "delete"} => dialog.open = "modify"
  BY DEF Menu!OnSubmitCreate, Menu!OnSubmitModify, Menu!OnDelete
<1> DEFINE k == [at |-> at, op |-> op, item |-> dialog.item, of |-> menuPage, left |-> FALSE]
<1>3. /\ menuCall[p].at = "unused" /\ menuCall' = [menuCall EXCEPT ![p] = k]
      /\ UNCHANGED <<items, menuPage, dialog, menuList, menuAsked, menuFailed, menuTold>>
  BY <1>2 DEF Menu!Start, Menu!queries
<1>4. menuPage \in R
  BY <1>1, <1>2
<1>5. k \in MenuPresses(R, P) /\ k.at \in {"upload", "ask"} /\ k.op = op /\ k.item = dialog.item /\ k.of = menuPage
  BY <1>1, <1>2, <1>4 DEF MenuPresses
<1> HIDE DEF k
<1>6. PressSound(R, items', menuTold', p, k)
  <2>1. items[p] = Missing /\ p \notin menuTold
    BY <1>1, <1>3 DEF PressesSound, PressSound
  <2>2. op \in {"update", "delete"} => items[dialog.item] # Missing
    BY <1>1, <1>2 DEF RowsStored
  <2> QED
    BY <1>3, <1>4, <1>5, <2>1, <2>2 DEF PressSound
<1> QED
  BY <1>1, <1>3, <1>5, <1>6, ItemsStay, MenuPressMoves

\* The calls of a press, one after the other, and its end.
LEMMA MenuCallStep ==
  ASSUME NEW R, NEW P, NEW A, NEW L, MenuAssumed(R, P), MenuIInv(R, P, A, L), NEW p \in 1..P,
         \/ Menu(R, P, A, L)!UploadImage(p) \/ Menu(R, P, A, L)!MenuPermissionFunc(p)
         \/ Menu(R, P, A, L)!CreateMenuItem(p) \/ Menu(R, P, A, L)!UpdateMenuItemById(p)
         \/ Menu(R, P, A, L)!DeleteMenuItemById(p)
         \/ Menu(R, P, A, L)!CallFails(p) \/ Menu(R, P, A, L)!Succeed(p) \/ Menu(R, P, A, L)!Fail(p)
  PROVE  MenuIInv(R, P, A, L)'
<1> DEFINE old == menuCall[p]
           k == menuCall'[p]
<1>1. /\ items \in [0..P -> MenuDocs(R) \cup {Missing}]
      /\ menuPage \in R \cup {NoRestaurant} /\ menuAsked \in R /\ items[0] # Missing
      /\ menuCall \in [1..P -> MenuPresses(R, P)] /\ old \in MenuPresses(R, P)
      /\ PressSound(R, items, menuTold, p, old)
      /\ p \in 0..P /\ p # 0
  BY MenuTyped DEF MenuIInv, PressesSound, MenuAssumed
<1> DEFINE Moved(at) == /\ menuCall' = [menuCall EXCEPT ![p] = k] /\ k \in MenuPresses(R, P)
                        /\ k.at = at /\ k.op = old.op /\ k.item = old.item /\ k.of = old.of
<1>2. ASSUME NEW at \in {"ask", "write", "ok", "failed", "over"}, Menu(R, P, A, L)!Moves(p, at)
      PROVE  Moved(at)
  <2> DEFINE new == [menuCall[p] EXCEPT !.at = at]
  <2>1. menuCall' = [menuCall EXCEPT ![p] = new]
    BY <1>2 DEF Menu!Moves
  <2>2. new \in MenuPresses(R, P) /\ new.at = at /\ new.op = old.op /\ new.item = old.item /\ new.of = old.of
    BY <1>1 DEF MenuPresses
  <2> HIDE DEF new
  <2>3. k = new
    BY <1>1, <2>1
  <2> QED
    BY <2>1, <2>2, <2>3
<1> HIDE DEF k, old
<1>3. old = menuCall[p] /\ old.item \in 0..P
  BY <1>1 DEF old, MenuPresses
<1>4. CASE \/ Menu(R, P, A, L)!UploadImage(p) \/ Menu(R, P, A, L)!MenuPermissionFunc(p)
           \/ Menu(R, P, A, L)!CallFails(p) \/ Menu(R, P, A, L)!Fail(p)
  <2>1. PICK at \in {"ask", "write", "failed", "over"} : Menu(R, P, A, L)!Moves(p, at)
    BY <1>4 DEF Menu!UploadImage, Menu!MenuPermissionFunc, Menu!CallFails, Menu!Fail
  <2>2. UNCHANGED <<items, menuPage, dialog, menuList, menuAsked, menuFailed, menuTold>>
    BY <1>4 DEF Menu!UploadImage, Menu!MenuPermissionFunc, Menu!CallFails, Menu!Fail, Menu!queries
  <2>3. Moved(at) /\ old.at \notin {"unused", "over"} /\ (at \in {"ask", "write"} => old.at \in {"upload", "ask"})
    BY <1>2, <1>3, <1>4, <2>1 DEF Menu!UploadImage, Menu!MenuPermissionFunc, Menu!CallFails, Menu!Fail, Menu!Moves
  <2>4. PressSound(R, items', menuTold', p, k)
    BY <1>1, <2>2, <2>3 DEF PressSound
  <2> QED
    BY <1>1, <2>2, <2>3, <2>4, ItemsStay, MenuPressMoves
<1>5. CASE Menu(R, P, A, L)!UpdateMenuItemById(p)
  <2>1. PICK at \in {"ok", "failed"} : Menu(R, P, A, L)!Moves(p, at)
    BY <1>5 DEF Menu!UpdateMenuItemById
  <2>2. UNCHANGED <<items, menuPage, dialog, menuList, menuAsked, menuFailed, menuTold>>
    BY <1>5 DEF Menu!UpdateMenuItemById, Menu!queries
  <2>3. Moved(at) /\ old.at = "write" /\ old.op = "update"
    BY <1>2, <1>3, <1>5, <2>1 DEF Menu!UpdateMenuItemById
  <2>4. PressSound(R, items', menuTold', p, k)
    BY <1>1, <2>2, <2>3 DEF PressSound
  <2> QED
    BY <1>1, <2>2, <2>3, <2>4, ItemsStay, MenuPressMoves
<1>6. CASE Menu(R, P, A, L)!CreateMenuItem(p)
  <2>1. /\ Moved("ok") /\ old.at = "write" /\ old.op = "create"
        /\ items' = [items EXCEPT ![p] = [of |-> old.of, deleted |-> FALSE]]
        /\ UNCHANGED <<menuPage, dialog, menuList, menuAsked, menuFailed, menuTold>>
    BY <1>2, <1>3, <1>6 DEF Menu!CreateMenuItem, Menu!queries
  <2>2. old.of \in R /\ items[p] = Missing
    BY <1>1, <2>1 DEF PressSound
  <2>3. /\ [of |-> old.of, deleted |-> FALSE] \in MenuDocs(R) /\ [of |-> old.of, deleted |-> FALSE] # Missing
    BY <2>2 DEF MenuDocs, Missing, MenuAssumed
  <2>4. ItemsGoOn(R, P) /\ \A i \in 0..P : i # p => items'[i] = items[i]
    BY <1>1, <2>1, <2>2, <2>3 DEF ItemsGoOn
  <2>5. items'[p] # Missing /\ items'[p].of = old.of
    BY <1>1, <2>1, <2>3
  <2>6. PressSound(R, items', menuTold', p, k)
    BY <1>1, <2>1, <2>2, <2>5 DEF PressSound
  <2> QED
    BY <1>1, <2>1, <2>4, <2>6, MenuPressMoves
<1>7. CASE Menu(R, P, A, L)!DeleteMenuItemById(p)
  <2>1. /\ Moved("ok") /\ old.at = "write" /\ old.op = "delete"
        /\ items' = [items EXCEPT ![old.item].deleted = TRUE]
        /\ UNCHANGED <<menuPage, dialog, menuList, menuAsked, menuFailed, menuTold>>
    BY <1>2, <1>3, <1>7 DEF Menu!DeleteMenuItemById, Menu!queries
  <2>2. items[old.item] # Missing /\ items[p] = Missing
    BY <1>1, <2>1 DEF PressSound
  <2>3. ItemsGoOn(R, P) /\ items'[old.item].deleted /\ \A j \in 0..P : items[j] = Missing => items'[j] = Missing
    <3>1. old.item \in 0..P /\ items[old.item] # Missing
      BY <1>3, <2>2
    <3>2. items' = [items EXCEPT ![old.item].deleted = TRUE]
      BY <2>1
    <3> QED
      BY <3>1, <3>2, ItemIsDeleted
  <2>4. items'[old.item] # Missing /\ items'[p] = Missing
    BY <1>1, <1>3, <2>2, <2>3 DEF ItemsGoOn
  <2>5. PressSound(R, items', menuTold', p, k)
    BY <1>1, <2>1, <2>2, <2>3, <2>4 DEF PressSound
  <2> QED
    BY <1>1, <2>1, <2>3, <2>5, MenuPressMoves
<1>8. CASE Menu(R, P, A, L)!Succeed(p)
  <2>1. /\ Moved("over") /\ old.at = "ok" /\ menuTold' = menuTold \cup {p}
        /\ dialog' \in {dialog, [open |-> "no", item |-> 0]} /\ UNCHANGED <<items, menuPage, menuFailed>>
    BY <1>2, <1>3, <1>8 DEF Menu!Succeed, Menu!Closed
  <2>2. menuList' \in {menuList, Cache!Invalidated(menuList)} /\ menuAsked' \in R
    BY <1>1, <1>8 DEF Menu!Succeed, Menu!InvalidateMenu, Menu!Invalidated, Cache!Invalidated
  <2>3. PressSound(R, items', menuTold', p, k)
    BY <1>1, <2>1 DEF PressSound
  <2> QED
    BY <1>1, <2>1, <2>2, <2>3, ItemsStay, MenuPressMoves
<1> QED
  BY <1>4, <1>5, <1>6, <1>7, <1>8

\* The page is left while presses are under way.
LEMMA MenuLeaveStep ==
  ASSUME NEW R, NEW P, NEW A, NEW L, MenuAssumed(R, P), MenuIInv(R, P, A, L), Menu(R, P, A, L)!Leave
  PROVE  MenuIInv(R, P, A, L)'
<1>1. /\ items \in [0..P -> MenuDocs(R) \cup {Missing}] /\ items[0] # Missing
      /\ menuList \in Cache!Entries(MenuLists(R, P)) /\ menuAsked \in R /\ menuFailed \in BOOLEAN
      /\ menuCall \in [1..P -> MenuPresses(R, P)] /\ menuTold \subseteq 1..P
      /\ RowsStored(R, P) /\ PressesSound(R, P) /\ 0 \in 0..P
  BY MenuTyped DEF MenuIInv, MenuAssumed
<1>2. /\ menuPage' = NoRestaurant /\ dialog' = [open |-> "no", item |-> 0]
      /\ menuCall' = [p \in 1..P |-> [menuCall[p] EXCEPT !.left = @ \/ menuCall[p].at # "unused"]]
      /\ UNCHANGED <<items, menuList, menuAsked, menuFailed, menuTold>>
  BY DEF Menu!Leave, Menu!Closed, Menu!Press, Menu!queries
<1>3. \A p \in 1..P : /\ menuCall'[p] \in MenuPresses(R, P) /\ menuCall'[p].at = menuCall[p].at
                      /\ menuCall'[p].op = menuCall[p].op /\ menuCall'[p].item = menuCall[p].item
                      /\ menuCall'[p].of = menuCall[p].of
  <2> SUFFICES ASSUME NEW p \in 1..P
               PROVE  /\ menuCall'[p] \in MenuPresses(R, P) /\ menuCall'[p].at = menuCall[p].at
                      /\ menuCall'[p].op = menuCall[p].op /\ menuCall'[p].item = menuCall[p].item
                      /\ menuCall'[p].of = menuCall[p].of
    OBVIOUS
  <2>1. menuCall[p] \in MenuPresses(R, P) /\ menuCall'[p] = [menuCall[p] EXCEPT !.left = @ \/ menuCall[p].at # "unused"]
    BY <1>1, <1>2
  <2>2. PICK b \in BOOLEAN : menuCall'[p] = [menuCall[p] EXCEPT !.left = b]
    <3>1. menuCall[p].left \in BOOLEAN
      BY <2>1 DEF MenuPresses
    <3>2. (menuCall[p].left \/ menuCall[p].at # "unused") \in BOOLEAN
      BY <3>1
    <3> QED
      BY <2>1, <3>2
  <2> QED
    BY <2>1, <2>2 DEF MenuPresses
<1>4. RowsStored(R, P)'
  BY <1>1, <1>2 DEF RowsStored
<1>5. PressesSound(R, P)'
  BY <1>1, <1>2, <1>3 DEF PressesSound, PressSound
<1>6. Menu(R, P, A, L)!TypeOK'
  <2>1. \A q \in 1..P : items'[q] # Missing => menuCall'[q].op = "create"
    BY <1>5 DEF PressesSound, PressSound
  <2>2. menuCall' \in [1..P -> MenuPresses(R, P)]
    BY <1>2, <1>3
  <2>3. dialog' \in [open : {"no", "create", "modify"}, item : 0..P]
    BY <1>1, <1>2
  <2> QED
    BY <1>1, <1>2, <2>1, <2>2, <2>3 DEF Menu!TypeOK, Menu!Item, Menu!Press, Menu!Docs, Menu!NoDoc, Menu!Menus,
       Menu!Entries, Menu!Closed, Cache!Entries, MenuDocs, Missing, MenuLists, MenuPresses
<1> QED
  BY <1>4, <1>5, <1>6 DEF MenuIInv

\* The item is deleted from another browser.
LEMMA MenuElsewhereStep ==
  ASSUME NEW R, NEW P, NEW A, NEW L, MenuAssumed(R, P), MenuIInv(R, P, A, L), NEW i \in 0..P,
         Menu(R, P, A, L)!DeleteElsewhere(i)
  PROVE  MenuIInv(R, P, A, L)'
<1>1. /\ items[i] # Missing /\ items' = [items EXCEPT ![i].deleted = TRUE]
      /\ UNCHANGED <<menuPage, dialog, menuList, menuAsked, menuFailed, menuCall, menuTold>>
  BY DEF Menu!DeleteElsewhere, Menu!NoDoc, Missing, Menu!queries
<1>2. ItemsGoOn(R, P) /\ \A j \in 0..P : items[j] = Missing => items'[j] = Missing
  BY <1>1, ItemIsDeleted
<1>3. /\ RowsStored(R, P) /\ PressesSound(R, P) /\ items[0] # Missing /\ 0 \in 0..P
      /\ menuList \in Cache!Entries(MenuLists(R, P))
      /\ menuCall \in [1..P -> MenuPresses(R, P)]
      /\ dialog \in [open : {"no", "create", "modify"}, item : 0..P]
      /\ \A q \in 1..P : q \in 0..P /\ menuCall[q].item \in 0..P
  <2>1. /\ RowsStored(R, P) /\ PressesSound(R, P) /\ items[0] # Missing /\ 0 \in 0..P
        /\ menuList \in Cache!Entries(MenuLists(R, P))
        /\ menuCall \in [1..P -> MenuPresses(R, P)]
        /\ dialog \in [open : {"no", "create", "modify"}, item : 0..P]
    BY MenuTyped DEF MenuIInv, MenuAssumed
  <2>2. \A q \in 1..P : q \in 0..P /\ menuCall[q].item \in 0..P
    BY <2>1 DEF MenuPresses, MenuAssumed
  <2> QED
    BY <2>1, <2>2
<1>4. RowsStored(R, P)'
  <2>1. /\ menuList.data # NoData => menuList.data.rows \subseteq 0..P
        /\ menuList.answer # NoData => menuList.answer.rows \subseteq 0..P
    BY <1>3 DEF Cache!Entries, MenuLists
  <2> QED
    BY <1>1, <1>2, <1>3, <2>1 DEF RowsStored, ItemsGoOn
<1>5. PressesSound(R, P)'
  <2> SUFFICES ASSUME NEW q \in 1..P
               PROVE  PressSound(R, items', menuTold', q, menuCall'[q])
    BY DEF PressesSound
  <2>1. PressSound(R, items, menuTold, q, menuCall[q])
    BY <1>3 DEF PressesSound
  <2>2. /\ items'[q] # Missing => items[q] # Missing /\ items'[q].of = items[q].of
        /\ items[q] # Missing => items'[q] # Missing
        /\ items[menuCall[q].item] # Missing => items'[menuCall[q].item] # Missing
        /\ items[menuCall[q].item] # Missing /\ items[menuCall[q].item].deleted => items'[menuCall[q].item].deleted
    BY <1>2, <1>3 DEF ItemsGoOn
  <2>3. PressSound(R, items', menuTold, q, menuCall[q])
    BY <2>1, <2>2 DEF PressSound
  <2> QED
    BY <1>1, <2>3
<1>6. Menu(R, P, A, L)!TypeOK'
  <2>1. \A q \in 1..P : items'[q] # Missing => menuCall'[q].op = "create"
    BY <1>5 DEF PressesSound, PressSound
  <2>2. items' \in [0..P -> MenuDocs(R) \cup {Missing}] /\ items'[0] # Missing
    BY <1>2, <1>3 DEF ItemsGoOn
  <2>3. /\ menuPage \in R \cup {NoRestaurant}
        /\ menuPage = NoRestaurant => dialog = [open |-> "no", item |-> 0]
        /\ menuAsked \in R /\ menuFailed \in BOOLEAN
        /\ menuTold \subseteq 1..P
    BY MenuTyped DEF MenuIInv
  <2> QED
    BY <1>1, <1>3, <2>1, <2>2, <2>3 DEF Menu!TypeOK, Menu!Item, Menu!Press, Menu!Docs, Menu!NoDoc, Menu!Menus,
       Menu!Entries, Menu!Closed, Cache!Entries, MenuDocs, Missing, MenuLists, MenuPresses
<1> QED
  BY <1>4, <1>5, <1>6 DEF MenuIInv

\* Every step of the page of a menu keeps the invariant.
LEMMA MenuStep ==
  ASSUME NEW R, NEW P, NEW A, NEW L, MenuAssumed(R, P), MenuIInv(R, P, A, L), Menu(R, P, A, L)!Next
  PROVE  MenuIInv(R, P, A, L)'
BY MenuPageStep, MenuPressStep, MenuCallStep, MenuLeaveStep, MenuElsewhereStep DEF Menu!Next, Menu!Item, Menu!Press

\* So does a step of another part.
LEMMA MenuStutter ==
  ASSUME NEW R, NEW P, NEW A, NEW L, MenuIInv(R, P, A, L), UNCHANGED menuVars
  PROVE  MenuIInv(R, P, A, L)'
BY DEF MenuIInv, menuVars, RowsStored, PressesSound, Menu!TypeOK, Menu!Item, Menu!Press, Menu!Docs, Menu!NoDoc,
       Menu!Menus, Menu!Entries, Menu!Closed

\* The invariant is what is stated of the menu.
LEMMA MenuIsAsPressed ==
  ASSUME NEW R, NEW P, NEW A, NEW L, MenuIInv(R, P, A, L)
  PROVE  Menu(R, P, A, L)!MenuAsPressed
BY DEF MenuIInv, PressesSound, PressSound, Menu!MenuAsPressed, Menu!Press, Menu!NoDoc, Missing

\* On a page that is not left, whose menu has been loaded when an item of it is clicked,
\* what was reported as deleted is gone from what is on its way to the page, and from
\* what it shows after the latest fetch.
MenuSound(P) ==
  /\ menuPage # NoRestaurant
  /\ dialog.open = "modify" => menuList.data # NoData
  /\ \A p \in 1..P : menuCall[p].op = "delete" => menuList.data # NoData
  /\ \A p \in menuTold : menuCall[p].op = "delete" =>
       /\ menuList.fetch = "answered" => menuCall[p].item \notin menuList.answer.rows
       /\ menuList.fetch = "idle" /\ ~menuFailed => menuCall[p].item \notin menuList.data.rows

\* Nothing is reported at the start.
LEMMA InitMenuSound ==
  ASSUME NEW R, NEW P, NEW A, NEW L, MenuAssumed(R, P), Menu(R, P, A, L)!Init
  PROVE  MenuSound(P)
BY DEF MenuAssumed, Menu!Init, Menu!Idle, Menu!Closed, Menu!Press, MenuSound

\* A deletion that is reported fetches the menu anew, so that no step brings the item back.
LEMMA MenuSoundStep ==
  ASSUME NEW R, NEW P, NEW A, MenuAssumed(R, P), MenuIInv(R, P, A, FALSE), MenuSound(P),
         Menu(R, P, A, FALSE)!Next
  PROVE  MenuSound(P)'
<1> DEFINE old == menuList
           q == menuList'
<1>1. /\ menuPage # NoRestaurant /\ old \in Cache!Entries(MenuLists(R, P))
      /\ old.fetch = "answered" => old.answer # NoData
      /\ menuCall \in [1..P -> MenuPresses(R, P)] /\ menuTold \subseteq 1..P
      /\ \A p \in menuTold : menuCall[p].op = "delete" =>
           /\ menuCall[p].at = "over" /\ items[menuCall[p].item].deleted
           /\ old.data # NoData
           /\ old.fetch = "answered" => menuCall[p].item \notin old.answer.rows
           /\ old.fetch = "idle" /\ ~menuFailed => menuCall[p].item \notin old.data.rows
      /\ old = menuList /\ q = menuList'
  <2>1. menuTold \subseteq 1..P
    BY MenuTyped DEF MenuIInv
  <2> QED
    BY <2>1, MenuTyped DEF MenuIInv, RowsStored, PressesSound, PressSound, MenuSound
<1> HIDE DEF old, q
\* Every step goes on with the list as it is, with a fetch of it, or with its answer.
<1>2. SUFFICES
        /\ menuPage' # NoRestaurant
        /\ old.data # NoData => q.data # NoData
        /\ dialog'.open = "modify" => old.data # NoData
        /\ \A p \in 1..P : menuCall'[p].op = "delete" => old.data # NoData
        /\ \A p \in menuTold' : menuCall'[p].op = "delete" =>
             /\ q.fetch = "answered" => menuCall'[p].item \notin q.answer.rows
             /\ q.fetch = "idle" /\ ~menuFailed' => menuCall'[p].item \notin q.data.rows
  BY <1>1 DEF MenuSound
<1>3. CASE \/ \E r \in R : Menu(R, P, A, FALSE)!OpenMenu(r)
           \/ Menu(R, P, A, FALSE)!Leave
  BY <1>1, <1>3 DEF Menu!OpenMenu, Menu!Leave
<1>4. CASE \/ Menu(R, P, A, FALSE)!Refetch \/ Menu(R, P, A, FALSE)!GetRestaurantMenuItems
           \/ Menu(R, P, A, FALSE)!ShowMenu \/ Menu(R, P, A, FALSE)!MenuFails
  <2>1. UNCHANGED <<items, menuPage, dialog, menuCall, menuTold>>
    BY <1>4 DEF Menu!Refetch, Menu!GetRestaurantMenuItems, Menu!ShowMenu, Menu!MenuFails
  <2>2. SUFFICES
          /\ old.data # NoData => q.data # NoData
          /\ \A p \in menuTold : menuCall[p].op = "delete" =>
               /\ q.fetch = "answered" => menuCall[p].item \notin q.answer.rows
               /\ q.fetch = "idle" /\ ~menuFailed' => menuCall[p].item \notin q.data.rows
    BY <1>1, <2>1 DEF MenuSound
  <2>3. CASE Menu(R, P, A, FALSE)!Refetch
    <3>1. q = Cache!Fetching(old) /\ old.fetch = "idle" /\ menuFailed' = menuFailed
      BY <1>1, <2>3 DEF Menu!Refetch, Menu!Fetching, Cache!Fetching
    <3>2. q.fetch = "sent" /\ q.data = old.data
      BY <1>1, <3>1, EntryFetching
    <3> QED
      BY <3>2
  <2>4. CASE Menu(R, P, A, FALSE)!GetRestaurantMenuItems
    <3> DEFINE v == [of |-> menuAsked, rows |-> Menu(R, P, A, FALSE)!Sold(menuAsked)]
    <3>1. q = Cache!Served(old, v)
      BY <1>1, <2>4 DEF Menu!GetRestaurantMenuItems, Menu!Served, Cache!Served
    <3>2. v \in MenuLists(R, P) /\ \A i \in v.rows : ~items[i].deleted
      BY MenuTyped DEF MenuIInv, MenuLists, Menu!Sold, Menu!Item
    <3> HIDE DEF v
    <3>3. q.data = old.data /\ q.answer = v /\ q.fetch = "answered"
      BY <1>1, <3>1, <3>2, EntryServed
    <3> QED
      BY <1>1, <3>2, <3>3
  <2>5. CASE Menu(R, P, A, FALSE)!ShowMenu
    <3>1. q = Cache!Filled(old) /\ old.fetch = "answered"
      BY <1>1, <2>5 DEF Menu!ShowMenu, Menu!Filled, Cache!Filled
    <3>2. q.data = old.answer /\ q.fetch = "idle"
      BY <1>1, <3>1, EntryFilled
    <3> QED
      BY <1>1, <3>1, <3>2
  <2>6. CASE Menu(R, P, A, FALSE)!MenuFails
    <3>1. q = Cache!Failed(old) /\ menuFailed'
      BY <1>1, <2>6 DEF Menu!MenuFails, Menu!Failed, Cache!Failed
    <3>2. q.data = old.data /\ q.fetch = "idle"
      BY <1>1, <3>1, EntryFailed
    <3> QED
      BY <3>1, <3>2
  <2> QED
    BY <1>4, <2>3, <2>4, <2>5, <2>6
<1>5. CASE \/ Menu(R, P, A, FALSE)!HandleAddMenuButton \/ Menu(R, P, A, FALSE)!Cancel
           \/ \E i \in 0..P : Menu(R, P, A, FALSE)!HandleModifyButton(i) \/ Menu(R, P, A, FALSE)!DeleteElsewhere(i)
  <2>1. UNCHANGED <<menuPage, menuList, menuFailed, menuCall, menuTold>>
    BY <1>5 DEF Menu!HandleAddMenuButton, Menu!Cancel, Menu!HandleModifyButton, Menu!DeleteElsewhere, Menu!queries
  <2>2. dialog'.open = "modify" => old.data # NoData
    <3>1. CASE \E i \in 0..P : Menu(R, P, A, FALSE)!HandleModifyButton(i)
      BY <1>1, <3>1 DEF Menu!HandleModifyButton, Menu!Rows
    <3>2. CASE dialog' = dialog
      BY <1>1, <3>2 DEF MenuSound
    <3>3. CASE Menu(R, P, A, FALSE)!HandleAddMenuButton \/ Menu(R, P, A, FALSE)!Cancel
      <4>1. dialog'.open # "modify"
        <5>1. \/ dialog' = [open |-> "create", item |-> 0]
              \/ dialog' = [open |-> "no", item |-> 0]
          BY <3>3 DEF Menu!HandleAddMenuButton, Menu!Cancel, Menu!Closed
        <5> QED
          BY <5>1
      <4> QED
        BY <4>1
    <3> QED
      BY <1>5, <3>1, <3>2, <3>3 DEF Menu!DeleteElsewhere
  <2> QED
    BY <1>1, <2>1, <2>2 DEF MenuSound
<1>6. CASE \E p \in 1..P : \/ Menu(R, P, A, FALSE)!OnSubmitCreate(p) \/ Menu(R, P, A, FALSE)!OnSubmitModify(p)
                           \/ Menu(R, P, A, FALSE)!OnDelete(p)
  <2>1. PICK p \in 1..P : \/ Menu(R, P, A, FALSE)!OnSubmitCreate(p) \/ Menu(R, P, A, FALSE)!OnSubmitModify(p)
                          \/ Menu(R, P, A, FALSE)!OnDelete(p)
    BY <1>6
  <2>2. PICK op \in {"create", "update", "delete"}, at \in {"upload", "ask"} :
          /\ Menu(R, P, A, FALSE)!Start(p, op, at)
          /\ op \in {"update", "delete"} => dialog.open = "modify"
    BY <2>1 DEF Menu!OnSubmitCreate, Menu!OnSubmitModify, Menu!OnDelete
  <2>3. /\ menuCall[p].at = "unused"
        /\ menuCall' = [menuCall EXCEPT ![p] = [at |-> at, op |-> op, item |-> dialog.item, of |-> menuPage, left |-> FALSE]]
        /\ UNCHANGED <<menuPage, dialog, menuList, menuFailed, menuTold>>
    BY <2>2 DEF Menu!Start, Menu!queries
  <2>4. p \notin menuTold
    BY <2>3 DEF MenuIInv, PressesSound, PressSound
  <2>5. \A r \in 1..P : menuCall'[r] = IF r = p
                          THEN [at |-> at, op |-> op, item |-> dialog.item, of |-> menuPage, left |-> FALSE]
                          ELSE menuCall[r]
    BY <1>1, <2>3
  <2>6. \A r \in 1..P : menuCall'[r].op = "delete" => old.data # NoData
    BY <1>1, <2>2, <2>5 DEF MenuSound
  <2>7. dialog'.open = "modify" => old.data # NoData
    BY <1>1, <2>3 DEF MenuSound
  <2>8. \A r \in menuTold : menuCall'[r] = menuCall[r]
    BY <1>1, <2>4, <2>5
  <2> QED
    BY <1>1, <2>3, <2>6, <2>7, <2>8
<1>7. CASE \E p \in 1..P :
             \/ Menu(R, P, A, FALSE)!UploadImage(p) \/ Menu(R, P, A, FALSE)!MenuPermissionFunc(p)
             \/ Menu(R, P, A, FALSE)!CreateMenuItem(p) \/ Menu(R, P, A, FALSE)!UpdateMenuItemById(p)
             \/ Menu(R, P, A, FALSE)!DeleteMenuItemById(p)
             \/ Menu(R, P, A, FALSE)!CallFails(p) \/ Menu(R, P, A, FALSE)!Fail(p)
  <2>1. PICK p \in 1..P :
             \/ Menu(R, P, A, FALSE)!UploadImage(p) \/ Menu(R, P, A, FALSE)!MenuPermissionFunc(p)
             \/ Menu(R, P, A, FALSE)!CreateMenuItem(p) \/ Menu(R, P, A, FALSE)!UpdateMenuItemById(p)
             \/ Menu(R, P, A, FALSE)!DeleteMenuItemById(p)
             \/ Menu(R, P, A, FALSE)!CallFails(p) \/ Menu(R, P, A, FALSE)!Fail(p)
    BY <1>7
  <2>2. UNCHANGED <<menuPage, dialog, menuList, menuFailed, menuTold>>
    BY <2>1 DEF Menu!UploadImage, Menu!MenuPermissionFunc, Menu!CreateMenuItem, Menu!UpdateMenuItemById,
       Menu!DeleteMenuItemById, Menu!CallFails, Menu!Fail, Menu!queries
  <2>3. PICK at \in {"ask", "write", "ok", "failed", "over"} : menuCall' = [menuCall EXCEPT ![p].at = at]
    BY <2>1 DEF Menu!UploadImage, Menu!MenuPermissionFunc, Menu!CreateMenuItem, Menu!UpdateMenuItemById,
       Menu!DeleteMenuItemById, Menu!CallFails, Menu!Fail, Menu!Moves
  <2>4. \A r \in 1..P : menuCall'[r].op = menuCall[r].op /\ menuCall'[r].item = menuCall[r].item
    <3>1. menuCall[p] \in MenuPresses(R, P)
      BY <1>1
    <3> QED
      BY <1>1, <2>3, <3>1 DEF MenuPresses
  <2> QED
    BY <1>1, <2>2, <2>4 DEF MenuSound
<1>8. CASE \E p \in 1..P : Menu(R, P, A, FALSE)!Succeed(p)
  <2>1. PICK p \in 1..P : Menu(R, P, A, FALSE)!Succeed(p)
    BY <1>8
  <2>2. /\ menuCall' = [menuCall EXCEPT ![p].at = "over"] /\ menuTold' = menuTold \cup {p}
        /\ dialog' \in {dialog, [open |-> "no", item |-> 0]} /\ UNCHANGED <<menuPage, menuFailed>>
        /\ q = Cache!Invalidated(old)
    BY <1>1, <2>1 DEF Menu!Succeed, Menu!Closed, Menu!Moves, Menu!InvalidateMenu, Menu!Invalidated, Cache!Invalidated
  <2>3. \A r \in 1..P : menuCall'[r].op = menuCall[r].op /\ menuCall'[r].item = menuCall[r].item
    <3>1. menuCall[p] \in MenuPresses(R, P)
      BY <1>1
    <3> QED
      BY <1>1, <2>2, <3>1 DEF MenuPresses
  <2>4. q.data = old.data /\ (old.data # NoData => q.fetch = "sent")
    BY <1>1, <2>2, EntryInvalidated
  <2>5. menuTold' \subseteq 1..P /\ \A r \in 1..P : menuCall[r].op = "delete" => old.data # NoData
    BY <1>1, <2>2 DEF MenuSound
  <2>6. dialog'.open = "modify" => old.data # NoData
    BY <1>1, <2>2 DEF MenuSound
  <2> QED
    BY <1>1, <2>2, <2>3, <2>4, <2>5, <2>6
<1> QED
  BY <1>3, <1>4, <1>5, <1>6, <1>7, <1>8 DEF Menu!Next, Menu!Item, Menu!Press

\* Nor does a step of another part.
LEMMA MenuSoundStutter ==
  ASSUME NEW P, MenuSound(P), UNCHANGED menuVars
  PROVE  MenuSound(P)'
BY DEF menuVars, MenuSound

\* What was reported as deleted is not on the menu any more.
LEMMA ToldHasLeftMenu ==
  ASSUME NEW R, NEW P, NEW A, NEW L, MenuIInv(R, P, A, L), MenuSound(P)
  PROVE  Menu(R, P, A, L)!ToldLeavesMenu
<1>1. menuTold \subseteq 1..P
  BY MenuTyped DEF MenuIInv
<1> QED
  BY <1>1 DEF MenuSound, Menu!ToldLeavesMenu, Menu!Rows

-----------------------------------------------------------------------------
(* The pages that register and edit a restaurant (RestaurantForms.tla).    *)

Forms(Text, File, Image, Presses, Register) ==
  INSTANCE RestaurantForms
    WITH stored <- restaurant, deleted <- removed, cache <- formCache, call <- submission,
         told <- toldPresses

Slots(I) == IF I = <<"logo">> THEN {"logo"} ELSE {"logo", "cover"}
NoImages(I) == [i \in Slots(I) |-> NoFile]
BlankForm(I) == [text |-> NoText, image |-> NoImages(I)]
StoredForms(T, F, I) == [text : T, image : [Slots(I) -> F]]
ShownForms(T, F, I) == [text : T \cup {NoText}, image : [Slots(I) -> F \cup {NoFile}]]
Submissions(T, F, I, P) ==
  [at : Slots(I) \cup {"unused", "write", "ok", "failed", "over"},
   op : {"none", "create", "update", "delete"},
   data : ShownForms(T, F, I), shown : [Slots(I) -> F \cup {NoFile}], url : [Slots(I) -> F \cup {NoFile}],
   beside : SUBSET (1..P)]

\* The images are a logo and perhaps a cover, in the order of the uploads.
FormsAssumed(T, F, I, P, G) ==
  /\ P \in Nat /\ I \in {<<"logo">>, <<"logo", "cover">>} /\ G \in BOOLEAN
  /\ NoText \notin T /\ NoFile \notin F /\ NoData \notin StoredForms(T, F, I)

\* The images of a form by name.
LEMMA SlotsOfImages ==
  ASSUME NEW T, NEW F, NEW I, NEW P, NEW G, FormsAssumed(T, F, I, P, G)
  PROVE  Forms(T, F, I, P, G)!Slot = Slots(I) /\ I[1] = "logo"
<1>1. CASE I = <<"logo">>
  <2>1. DOMAIN I = {1} /\ I[1] = "logo"
    BY <1>1
  <2> QED
    BY <1>1, <2>1 DEF Forms!Slot, Slots
<1>2. CASE I = <<"logo", "cover">>
  <2>1. DOMAIN I = {1, 2} /\ I[1] = "logo" /\ I[2] = "cover"
    BY <1>2
  <2>2. I # <<"logo">>
    BY <1>2
  <2> QED
    BY <1>2, <2>1, <2>2 DEF Forms!Slot, Slots
<1> QED
  BY <1>1, <1>2 DEF FormsAssumed

\* The types of the module in the terms of the proofs.
LEMMA FormsTyped ==
  ASSUME NEW T, NEW F, NEW I, NEW P, NEW G, FormsAssumed(T, F, I, P, G)
  PROVE  Forms(T, F, I, P, G)!TypeOK <=>
           /\ restaurant \in [{0} \cup 1..P -> StoredForms(T, F, I) \cup {BlankForm(I)}]
           /\ removed \in BOOLEAN /\ open \in BOOLEAN
           /\ formCache \in Cache!Entries(StoredForms(T, F, I))
           /\ form \in ShownForms(T, F, I) /\ preview \in [Slots(I) -> F \cup {NoFile}]
           /\ submission \in [1..P -> Submissions(T, F, I, P)]
           /\ toldPresses \subseteq 1..P
           /\ \A p, q \in 1..P : p < q /\ submission[p].at = "unused" => submission[q].at = "unused"
BY SlotsOfImages DEF Forms!TypeOK, Forms!Press, Forms!Doc, Forms!NoDoc, Forms!Blank, Forms!NoImages, Forms!Entries,
   Forms!Fields, Forms!Images, Cache!Entries, StoredForms, BlankForm, NoImages, ShownForms, Submissions

\* A submission p in state k: it carries the fields that were shown when it was pressed,
\* its URLs are of their images once all are uploaded, and what it registered is that.
FormSound(I, G, places, reported, p, k) ==
  /\ k.at = "unused" => k.op = "none"
  /\ k.at # "unused" => k.op \in IF G THEN {"create"} ELSE {"update", "delete"}
  /\ k.op \in {"create", "update"} => k.data.text # NoText
  /\ k.op = "create" => \A i \in Slots(I) : k.data.image[i] # NoFile
  /\ k.op \in {"create", "update"} /\ k.at = "write" => k.url = k.data.image
  /\ k.at = "cover" => k.url["logo"] = k.data.image["logo"]
  /\ places[p] # BlankForm(I) => k.op = "create" /\ k.at \in {"ok", "failed", "over"} /\ places[p] = k.data
  /\ G /\ (k.at = "ok" \/ p \in reported) => places[p] # BlankForm(I)
  /\ p \in reported => k.at = "over"

FormsSound(I, P, G) == \A p \in 1..P : FormSound(I, G, restaurant, toldPresses, p, submission[p])

\* The query of the restaurant that is edited brings what is stored.
EditedSound(T, F, I, G) ==
  /\ restaurant[0] \in IF G THEN {BlankForm(I)} ELSE StoredForms(T, F, I)
  /\ formCache.fetch = "answered" => formCache.answer # NoData
  /\ G => formCache.fetch = "idle"

FormsIInv(T, F, I, P, G) ==
  Forms(T, F, I, P, G)!TypeOK /\ FormsSound(I, P, G) /\ EditedSound(T, F, I, G)

\* Both forms start with the invariant.
LEMMA InitForms ==
  ASSUME NEW T, NEW F, NEW I, NEW P, NEW G, FormsAssumed(T, F, I, P, G), Forms(T, F, I, P, G)!Init
  PROVE  FormsIInv(T, F, I, P, G)
<1>1. Forms(T, F, I, P, G)!Slot = Slots(I)
  BY SlotsOfImages
<1>2. /\ restaurant \in [{0} \cup 1..P -> {BlankForm(I)} \cup IF G THEN {} ELSE StoredForms(T, F, I)]
      /\ \A p \in 1..P : restaurant[p] = BlankForm(I)
      /\ G <=> restaurant[0] = BlankForm(I)
      /\ removed = FALSE /\ open = G
      /\ formCache = Cache!Fresh /\ form = BlankForm(I) /\ preview = NoImages(I)
      /\ submission = [p \in 1..P |-> Forms(T, F, I, P, G)!Idle] /\ toldPresses = {}
  BY <1>1 DEF Forms!Init, Forms!Press, Forms!NoDoc, Forms!Blank, Forms!NoImages, Forms!Doc, Forms!Fresh, Cache!Fresh,
     BlankForm, NoImages, StoredForms
<1>3. /\ Forms(T, F, I, P, G)!Idle \in Submissions(T, F, I, P)
      /\ Forms(T, F, I, P, G)!Idle.at = "unused" /\ Forms(T, F, I, P, G)!Idle.op = "none"
  BY <1>1 DEF Forms!Idle, Submissions, Forms!Blank, Forms!NoImages, ShownForms
<1>4. /\ formCache \in Cache!Entries(StoredForms(T, F, I)) /\ formCache.fetch = "idle"
  BY <1>2 DEF Cache!Fresh, Cache!Entries
<1>5. form \in ShownForms(T, F, I) /\ preview \in [Slots(I) -> F \cup {NoFile}]
  BY <1>2 DEF BlankForm, NoImages, ShownForms
<1>6. restaurant \in [{0} \cup 1..P -> StoredForms(T, F, I) \cup {BlankForm(I)}]
  <2>1. CASE G
    BY <1>2, <2>1
  <2>2. CASE ~G
    BY <1>2, <2>2
  <2> QED
    BY <2>1, <2>2
<1>7. \A p \in 1..P : submission[p] = Forms(T, F, I, P, G)!Idle
  BY <1>2
<1>8. Forms(T, F, I, P, G)!TypeOK
  <2>1. submission \in [1..P -> Submissions(T, F, I, P)]
    BY <1>2, <1>3
  <2>2. \A p, q \in 1..P : p < q /\ submission[p].at = "unused" => submission[q].at = "unused"
    BY <1>3, <1>7
  <2>3. removed \in BOOLEAN /\ open \in BOOLEAN /\ toldPresses \subseteq 1..P
    BY <1>2 DEF FormsAssumed
  <2> QED
    BY <1>4, <1>5, <1>6, <2>1, <2>2, <2>3, FormsTyped
<1>9. FormsSound(I, P, G)
  BY <1>2, <1>3, <1>7 DEF FormsSound, FormSound
<1>10. EditedSound(T, F, I, G)
  <2>1. restaurant[0] \in StoredForms(T, F, I) \cup {BlankForm(I)}
    BY <1>6
  <2> QED
    BY <1>2, <1>4, <2>1 DEF EditedSound
<1> QED
  BY <1>8, <1>9, <1>10 DEF FormsIInv

\* Presses are begun in their order: the next one is the first that is unused.
LEMMA NextPress ==
  ASSUME NEW P \in Nat, NEW U \in SUBSET (1..P), \A p, q \in 1..P : p < q /\ p \in U => q \in U,
         NEW n \in 1..P, U # {}, n = P + 1 - Cardinality(U)
  PROVE  n \in U /\ \A q \in 1..P : q < n => q \notin U
<1>1. IsFiniteSet(U) /\ Cardinality(U) \in Nat
  <2>1. IsFiniteSet(1..P)
    <3>1. 1 \in Int /\ P \in Int
      OBVIOUS
    <3> QED
      BY <3>1, FS_Interval
  <2>2. IsFiniteSet(U)
    BY <2>1, FS_Subset
  <2> QED
    BY <2>2, FS_CardinalityType
<1>2. n \in U
  <2>1. SUFFICES ASSUME n \notin U PROVE FALSE
    OBVIOUS
  <2>2. U \subseteq (n + 1)..P
    <3> SUFFICES ASSUME NEW q \in U, q \notin (n + 1)..P PROVE FALSE
      OBVIOUS
    <3>1. q \in 1..P /\ (q < n \/ q = n)
      OBVIOUS
    <3> QED
      BY <2>1, <3>1
  <2>3. IsFiniteSet((n + 1)..P) /\ Cardinality((n + 1)..P) = P - n
    <3>1. n + 1 \in Int /\ P \in Int
      OBVIOUS
    <3>2. /\ IsFiniteSet((n + 1)..P)
          /\ Cardinality((n + 1)..P) = IF n + 1 > P THEN 0 ELSE P - (n + 1) + 1
      BY <3>1, FS_Interval
    <3> QED
      BY <3>2
  <2>4. Cardinality(U) <= P - n
    <3>1. Cardinality(U) <= Cardinality((n + 1)..P)
      BY <2>2, <2>3, FS_Subset
    <3> QED
      BY <2>3, <3>1
  <2> QED
    BY <1>1, <2>4
<1>3. ASSUME NEW q \in 1..P, q < n, q \in U PROVE FALSE
  <2>1. q..P \subseteq U
    BY <1>3
  <2>2. Cardinality(q..P) = P - q + 1
    <3>1. q \in Int /\ P \in Int
      OBVIOUS
    <3>2. Cardinality(q..P) = IF q > P THEN 0 ELSE P - q + 1
      BY <3>1, FS_Interval
    <3> QED
      BY <3>2
  <2>3. P - q + 1 <= Cardinality(U)
    BY <1>1, <2>1, <2>2, FS_Subset
  <2> QED
    BY <1>1, <1>3, <2>3
<1> QED
  BY <1>2, <1>3

\* The fields that are typed or chosen, in the form or in the preview of it.
LEMMA FormsEditStep ==
  ASSUME NEW T, NEW F, NEW I, NEW P, NEW G, FormsAssumed(T, F, I, P, G), FormsIInv(T, F, I, P, G),
         \/ \E t \in T : Forms(T, F, I, P, G)!EditText(t)
         \/ \E i \in Slots(I) : Forms(T, F, I, P, G)!RemoveImage(i)
         \/ \E i \in Slots(I), f \in F : Forms(T, F, I, P, G)!ChooseImage(i, f)
         \/ Forms(T, F, I, P, G)!OpenUpdate \/ Forms(T, F, I, P, G)!Leave
         \/ Forms(T, F, I, P, G)!Refetch \/ Forms(T, F, I, P, G)!GetRestaurantById
         \/ Forms(T, F, I, P, G)!ShowRestaurant \/ Forms(T, F, I, P, G)!FetchFails
  PROVE  /\ FormsIInv(T, F, I, P, G)'
         /\ UNCHANGED <<restaurant, submission, toldPresses>>
<1> DEFINE V == StoredForms(T, F, I)
           old == formCache
           q == formCache'
<1>1. /\ restaurant \in [{0} \cup 1..P -> V \cup {BlankForm(I)}]
      /\ removed \in BOOLEAN /\ open \in BOOLEAN /\ old \in Cache!Entries(V)
      /\ form \in ShownForms(T, F, I) /\ preview \in [Slots(I) -> F \cup {NoFile}]
      /\ submission \in [1..P -> Submissions(T, F, I, P)] /\ toldPresses \subseteq 1..P
      /\ \A p, r \in 1..P : p < r /\ submission[p].at = "unused" => submission[r].at = "unused"
      /\ FormsSound(I, P, G) /\ EditedSound(T, F, I, G)
      /\ old = formCache /\ q = formCache'
  BY FormsTyped DEF FormsIInv
<1> HIDE DEF old, q
<1>2. UNCHANGED <<restaurant, removed, submission, toldPresses>>
  BY DEF Forms!EditText, Forms!RemoveImage, Forms!ChooseImage, Forms!Edit, Forms!OpenUpdate, Forms!Leave,
     Forms!Refetch, Forms!GetRestaurantById, Forms!ShowRestaurant, Forms!FetchFails
<1>3. ASSUME NEW d \in V, Forms(T, F, I, P, G)!Reset(d)
      PROVE  form' \in ShownForms(T, F, I) /\ preview' \in [Slots(I) -> F \cup {NoFile}]
  <2>1. form' = [text |-> d.text, image |-> NoImages(I)] /\ preview' = d.image
    BY <1>3, SlotsOfImages DEF Forms!Reset, Forms!NoImages, NoImages
  <2> QED
    BY <2>1 DEF StoredForms, ShownForms, NoImages
<1>4. /\ open' \in BOOLEAN /\ form' \in ShownForms(T, F, I) /\ preview' \in [Slots(I) -> F \cup {NoFile}]
      /\ q \in Cache!Entries(V) /\ (q.fetch = "answered" => q.answer # NoData) /\ (G => q.fetch = "idle")
  <2>0. /\ (old.fetch = "answered" => old.answer # NoData) /\ (G => old.fetch = "idle")
        /\ ~G => restaurant[0] \in V
        /\ old.data # NoData => old.data \in V
        /\ old.answer # NoData => old.answer \in V
        /\ \A v \in V : v # NoData
    BY <1>1 DEF EditedSound, Cache!Entries, FormsAssumed
  <2>1. CASE \E t \in T : Forms(T, F, I, P, G)!EditText(t)
    BY <1>1, <2>0, <2>1 DEF Forms!EditText, Forms!Edit, ShownForms
  <2>2. CASE \E i \in Slots(I) : Forms(T, F, I, P, G)!RemoveImage(i)
    <3>1. PICK i \in Slots(I) : Forms(T, F, I, P, G)!RemoveImage(i)
      BY <2>2
    <3>2. /\ form' = [form EXCEPT !.image = [form.image EXCEPT ![i] = NoFile]]
          /\ preview' = [preview EXCEPT ![i] = NoFile] /\ UNCHANGED <<open, formCache>>
      BY <1>1, <3>1 DEF Forms!RemoveImage, Forms!Edit, ShownForms
    <3>3. [form.image EXCEPT ![i] = NoFile] \in [Slots(I) -> F \cup {NoFile}]
      BY <1>1 DEF ShownForms
    <3> QED
      BY <1>1, <2>0, <3>2, <3>3 DEF ShownForms
  <2>3. CASE \E i \in Slots(I), f \in F : Forms(T, F, I, P, G)!ChooseImage(i, f)
    <3>1. PICK i \in Slots(I), f \in F : Forms(T, F, I, P, G)!ChooseImage(i, f)
      BY <2>3
    <3>2. /\ form' = [form EXCEPT !.image = [form.image EXCEPT ![i] = f]]
          /\ preview' = [preview EXCEPT ![i] = f] /\ UNCHANGED <<open, formCache>>
      BY <1>1, <3>1 DEF Forms!ChooseImage, Forms!Edit, ShownForms
    <3>3. [form.image EXCEPT ![i] = f] \in [Slots(I) -> F \cup {NoFile}]
      BY <1>1 DEF ShownForms
    <3> QED
      BY <1>1, <2>0, <3>2, <3>3 DEF ShownForms
  <2>4. CASE Forms(T, F, I, P, G)!OpenUpdate
    <3>1. /\ ~G /\ open' = (old.data # NoData) /\ q = Cache!Fetching(old)
          /\ IF old.data # NoData THEN Forms(T, F, I, P, G)!Reset(old.data) ELSE UNCHANGED <<form, preview>>
      BY <1>1, <2>4 DEF Forms!OpenUpdate, Forms!Fetching, Cache!Fetching
    <3>2. /\ q \in Cache!Entries(V) /\ q.answer = old.answer
          /\ q.fetch = "answered" => q = old
      BY <1>1, <3>1, EntryFetching
    <3>3. form' \in ShownForms(T, F, I) /\ preview' \in [Slots(I) -> F \cup {NoFile}]
      BY <1>1, <1>3, <2>0, <3>1
    <3> QED
      BY <2>0, <3>1, <3>2, <3>3
  <2>5. CASE Forms(T, F, I, P, G)!Leave
    BY <1>1, <2>0, <2>5 DEF Forms!Leave
  <2>6. CASE Forms(T, F, I, P, G)!Refetch
    <3>1. /\ ~G /\ q = Cache!Fetching(old) /\ UNCHANGED <<open, form, preview>>
      BY <1>1, <2>6 DEF Forms!Refetch, Forms!Fetching, Cache!Fetching
    <3>2. /\ q \in Cache!Entries(V) /\ q.answer = old.answer
          /\ q.fetch = "answered" => q = old
      BY <1>1, <3>1, EntryFetching
    <3> QED
      BY <1>1, <2>0, <3>1, <3>2
  <2>7. CASE Forms(T, F, I, P, G)!GetRestaurantById
    <3>1. /\ old.fetch = "sent" /\ q = Cache!Served(old, restaurant[0]) /\ UNCHANGED <<open, form, preview>>
      BY <1>1, <2>7 DEF Forms!GetRestaurantById, Forms!Served, Cache!Served
    <3>2. ~G /\ restaurant[0] \in V
      BY <2>0, <3>1
    <3>3. /\ q \in Cache!Entries(V) /\ q.answer = restaurant[0]
      BY <1>1, <3>1, <3>2, EntryServed
    <3> QED
      BY <1>1, <2>0, <3>1, <3>2, <3>3
  <2>8. CASE Forms(T, F, I, P, G)!ShowRestaurant
    <3>1. /\ old.fetch = "answered" /\ q = Cache!Filled(old) /\ open' = TRUE
          /\ IF old.answer # old.data THEN Forms(T, F, I, P, G)!Reset(old.answer) ELSE UNCHANGED <<form, preview>>
      BY <1>1, <2>8 DEF Forms!ShowRestaurant, Forms!Filled, Cache!Filled
    <3>2. /\ q \in Cache!Entries(V) /\ q.fetch = "idle"
      BY <1>1, <3>1, EntryFilled
    <3>3. form' \in ShownForms(T, F, I) /\ preview' \in [Slots(I) -> F \cup {NoFile}]
      BY <1>1, <1>3, <2>0, <3>1
    <3> QED
      BY <3>1, <3>2, <3>3
  <2>9. CASE Forms(T, F, I, P, G)!FetchFails
    <3>1. /\ q = Cache!Failed(old) /\ open' = FALSE /\ UNCHANGED <<form, preview>>
      BY <1>1, <2>9 DEF Forms!FetchFails, Forms!Failed, Cache!Failed
    <3>2. /\ q \in Cache!Entries(V) /\ q.fetch = "idle"
      BY <1>1, <3>1, EntryFailed
    <3> QED
      BY <1>1, <3>1, <3>2
  <2> QED
    BY <2>1, <2>2, <2>3, <2>4, <2>5, <2>6, <2>7, <2>8, <2>9
<1>5. FormsSound(I, P, G)'
  BY <1>1, <1>2 DEF FormsSound, FormSound
<1>6. EditedSound(T, F, I, G)'
  BY <1>1, <1>2, <1>4 DEF EditedSound
<1>7. Forms(T, F, I, P, G)!TypeOK'
  BY <1>1, <1>2, <1>4, SlotsOfImages DEF Forms!TypeOK, Forms!Press, Forms!Doc, Forms!NoDoc, Forms!Blank, Forms!NoImages,
   Forms!Entries, Forms!Fields, Forms!Images, Cache!Entries, StoredForms, BlankForm, NoImages, ShownForms, Submissions
<1> QED
  BY <1>2, <1>5, <1>6, <1>7 DEF FormsIInv

\* A step of the submission p to the state k.
LEMMA SubmissionMoves ==
  ASSUME NEW T, NEW F, NEW I, NEW P, NEW G, FormsAssumed(T, F, I, P, G), FormsIInv(T, F, I, P, G),
         NEW p \in 1..P, NEW k \in Submissions(T, F, I, P), submission' = [submission EXCEPT ![p] = k],
         k.at # "unused", \A r \in 1..P : r < p => submission[r].at # "unused",
         restaurant' \in [{0} \cup 1..P -> StoredForms(T, F, I) \cup {BlankForm(I)}],
         \A r \in 1..P : r # p => restaurant'[r] = restaurant[r],
         restaurant'[0] \in IF G THEN {BlankForm(I)} ELSE StoredForms(T, F, I),
         removed' \in BOOLEAN, open' \in BOOLEAN, UNCHANGED formCache,
         form' \in ShownForms(T, F, I), preview' \in [Slots(I) -> F \cup {NoFile}],
         toldPresses' \in {toldPresses, toldPresses \cup {p}},
         FormSound(I, G, restaurant', toldPresses', p, k)
  PROVE  FormsIInv(T, F, I, P, G)'
<1>1. /\ formCache \in Cache!Entries(StoredForms(T, F, I))
      /\ submission \in [1..P -> Submissions(T, F, I, P)] /\ toldPresses \subseteq 1..P
      /\ \A r, s \in 1..P : r < s /\ submission[r].at = "unused" => submission[s].at = "unused"
      /\ FormsSound(I, P, G) /\ EditedSound(T, F, I, G)
  BY FormsTyped DEF FormsIInv
<1>2. /\ submission' \in [1..P -> Submissions(T, F, I, P)] /\ submission'[p] = k
      /\ \A r \in 1..P : r # p => submission'[r] = submission[r]
  BY <1>1
<1>3. \A r, s \in 1..P : r < s /\ submission'[r].at = "unused" => submission'[s].at = "unused"
  <2> SUFFICES ASSUME NEW r \in 1..P, NEW s \in 1..P, r < s, submission'[r].at = "unused"
               PROVE  submission'[s].at = "unused"
    OBVIOUS
  <2>1. r # p /\ submission[r].at = "unused" /\ submission[s].at = "unused"
    BY <1>1, <1>2
  <2>2. s # p
    BY <2>1
  <2> QED
    BY <1>2, <2>1, <2>2
<1>4. FormsSound(I, P, G)'
  <2> SUFFICES ASSUME NEW r \in 1..P
               PROVE  FormSound(I, G, restaurant', toldPresses', r, submission'[r])
    BY DEF FormsSound
  <2>1. CASE r = p
    BY <1>2, <2>1
  <2>2. CASE r # p
    BY <1>1, <1>2, <2>2 DEF FormsSound, FormSound
  <2> QED
    BY <2>1, <2>2
<1>5. EditedSound(T, F, I, G)'
  BY <1>1 DEF EditedSound
<1>6. toldPresses' \subseteq 1..P
  BY <1>1
<1>7. Forms(T, F, I, P, G)!TypeOK'
  BY <1>1, <1>2, <1>3, <1>6, SlotsOfImages DEF Forms!TypeOK, Forms!Press, Forms!Doc, Forms!NoDoc, Forms!Blank, Forms!NoImages,
   Forms!Entries, Forms!Fields, Forms!Images, Cache!Entries, StoredForms, BlankForm, NoImages, ShownForms, Submissions
<1> QED
  BY <1>4, <1>5, <1>7 DEF FormsIInv

\* A press is the next one, and takes the form as it is shown.
LEMMA SubmissionStarts ==
  ASSUME NEW T, NEW F, NEW I, NEW P, NEW G, FormsAssumed(T, F, I, P, G), FormsIInv(T, F, I, P, G),
         NEW p \in 1..P, NEW op \in {"create", "update", "delete"}, NEW at \in {"logo", "write"},
         Forms(T, F, I, P, G)!Start(p, op, at)
  PROVE  /\ submission[p].at = "unused" /\ \A r \in 1..P : r < p => submission[r].at # "unused"
         /\ submission'[p] \in Submissions(T, F, I, P) /\ submission' = [submission EXCEPT ![p] = submission'[p]]
         /\ submission'[p].at = at /\ submission'[p].op = op /\ submission'[p].data = form
         /\ \A r \in 1..P : submission[r].at \notin {"unused", "over"} => r \in submission'[p].beside
         /\ UNCHANGED <<restaurant, removed, open, formCache, form, preview, toldPresses>>
<1> DEFINE U == {r \in 1..P : submission[r].at = "unused"}
           X == {r \in 1..P : submission[r].at \notin {"unused", "over"}}
           k == [Forms(T, F, I, P, G)!Idle EXCEPT !.at = at, !.op = op, !.data = form, !.shown = preview,
                                               !.beside = X]
<1>1. /\ U = Forms(T, F, I, P, G)!Unused
      /\ Cardinality(U) = Forms(T, F, I, P, G)!Cardinality(U)
      /\ X = Forms(T, F, I, P, G)!Running
  BY DEF Forms!Unused, Forms!Running, Forms!Press, Cardinality, Forms!Cardinality, IsFiniteSet, Forms!IsFiniteSet
<1>2. /\ U # {} /\ p = P + 1 - Cardinality(U)
      /\ submission' = [submission EXCEPT ![p] = k]
      /\ UNCHANGED <<restaurant, removed, open, formCache, form, preview, toldPresses>>
  BY <1>1 DEF Forms!Start
<1>3. /\ submission \in [1..P -> Submissions(T, F, I, P)] /\ form \in ShownForms(T, F, I)
      /\ preview \in [Slots(I) -> F \cup {NoFile}]
      /\ \A q, r \in 1..P : q < r /\ submission[q].at = "unused" => submission[r].at = "unused"
  BY FormsTyped DEF FormsIInv
<1>4. p \in U /\ \A r \in 1..P : r < p => r \notin U
  <2>1. \A q, r \in 1..P : q < r /\ q \in U => r \in U
    BY <1>3
  <2>2. U \in SUBSET (1..P) /\ P \in Nat
    BY DEF FormsAssumed
  <2> HIDE DEF U
  <2> QED
    BY <1>2, <2>1, <2>2, NextPress
<1>5. k \in Submissions(T, F, I, P) /\ k.at = at /\ k.op = op /\ k.data = form /\ k.beside = X
  <2>1. Forms(T, F, I, P, G)!Idle \in Submissions(T, F, I, P)
    BY SlotsOfImages DEF Forms!Idle, Submissions, Forms!Blank, Forms!NoImages, ShownForms
  <2>2. at \in Slots(I) \cup {"unused", "write", "ok", "failed", "over"}
    BY DEF Slots
  <2>3. X \in SUBSET (1..P)
    OBVIOUS
  <2> HIDE DEF X
  <2> QED
    BY <1>3, <2>1, <2>2, <2>3 DEF Submissions
<1> HIDE DEF k
<1>6. submission'[p] = k
  BY <1>2, <1>3
<1> QED
  BY <1>2, <1>4, <1>5, <1>6

\* Submit or Delete is pressed.
LEMMA FormsPressStep ==
  ASSUME NEW T, NEW F, NEW I, NEW P, NEW G, FormsAssumed(T, F, I, P, G), FormsIInv(T, F, I, P, G),
         NEW p \in 1..P,
         Forms(T, F, I, P, G)!OnSubmit(p) \/ Forms(T, F, I, P, G)!OnDelete(p)
  PROVE  FormsIInv(T, F, I, P, G)'
<1>1. /\ restaurant \in [{0} \cup 1..P -> StoredForms(T, F, I) \cup {BlankForm(I)}]
      /\ removed \in BOOLEAN /\ open \in BOOLEAN
      /\ form \in ShownForms(T, F, I) /\ preview \in [Slots(I) -> F \cup {NoFile}]
      /\ FormSound(I, G, restaurant, toldPresses, p, submission[p]) /\ EditedSound(T, F, I, G)
  BY FormsTyped DEF FormsIInv, FormsSound
<1>2. PICK op \in {"create", "update", "delete"}, at \in {"logo", "write"} :
        /\ Forms(T, F, I, P, G)!Start(p, op, at)
        /\ op \in IF G THEN {"create"} ELSE {"update", "delete"}
        /\ op \in {"create", "update"} => at = "logo" /\ form.text # NoText
        /\ op = "create" => \A i \in Slots(I) : form.image[i] # NoFile
  <2>1. CASE Forms(T, F, I, P, G)!OnSubmit(p)
    BY <2>1, SlotsOfImages DEF Forms!OnSubmit, Forms!Valid
  <2>2. CASE Forms(T, F, I, P, G)!OnDelete(p)
    BY <2>2 DEF Forms!OnDelete
  <2> QED
    BY <2>1, <2>2
<1> DEFINE k == submission'[p]
<1>3. /\ submission[p].at = "unused" /\ \A r \in 1..P : r < p => submission[r].at # "unused"
      /\ k \in Submissions(T, F, I, P) /\ submission' = [submission EXCEPT ![p] = k]
      /\ k.at = at /\ k.op = op /\ k.data = form
      /\ UNCHANGED <<restaurant, removed, open, formCache, form, preview, toldPresses>>
  <2>1. Forms(T, F, I, P, G)!Start(p, op, at)
    BY <1>2
  <2>2. op \in {"create", "update", "delete"} /\ at \in {"logo", "write"} /\ p \in 1..P
    OBVIOUS
  <2>3. /\ submission[p].at = "unused" /\ \A r \in 1..P : r < p => submission[r].at # "unused"
        /\ submission'[p] \in Submissions(T, F, I, P) /\ submission' = [submission EXCEPT ![p] = submission'[p]]
        /\ submission'[p].at = at /\ submission'[p].op = op /\ submission'[p].data = form
        /\ UNCHANGED <<restaurant, removed, open, formCache, form, preview, toldPresses>>
    BY <2>1, <2>2, SubmissionStarts
  <2> QED
    BY <2>3
<1> HIDE DEF k
<1>4. FormSound(I, G, restaurant', toldPresses', p, k)
  <2>1. restaurant[p] = BlankForm(I) /\ p \notin toldPresses
    BY <1>1, <1>3 DEF FormSound
  <2>2. k.at \in {"logo", "write"} /\ k.at # "cover"
    BY <1>3
  <2> QED
    BY <1>2, <1>3, <2>1, <2>2 DEF FormSound
<1> QED
  BY <1>1, <1>3, <1>4, SubmissionMoves DEF EditedSound

\* A press uploads its images one after the other, writes, and ends.
LEMMA FormsSubmitStep ==
  ASSUME NEW T, NEW F, NEW I, NEW P, NEW G, FormsAssumed(T, F, I, P, G), FormsIInv(T, F, I, P, G),
         NEW p \in 1..P,
         \/ \E i \in Slots(I) : Forms(T, F, I, P, G)!Upload(p, i)
         \/ Forms(T, F, I, P, G)!HandleCreateRestaurant(p) \/ Forms(T, F, I, P, G)!HandleUpdateRestaurant(p)
         \/ Forms(T, F, I, P, G)!HandleDeleteRestaurantById(p)
         \/ Forms(T, F, I, P, G)!CallFails(p) \/ Forms(T, F, I, P, G)!Succeed(p)
         \/ Forms(T, F, I, P, G)!Fail(p)
  PROVE  FormsIInv(T, F, I, P, G)'
<1> DEFINE old == submission[p]
           k == submission'[p]
           V == StoredForms(T, F, I)
           Keeps == /\ submission' = [submission EXCEPT ![p] = k] /\ k \in Submissions(T, F, I, P)
                    /\ k.op = old.op /\ k.data = old.data
<1>1. /\ restaurant \in [{0} \cup 1..P -> V \cup {BlankForm(I)}]
      /\ removed \in BOOLEAN /\ open \in BOOLEAN
      /\ form \in ShownForms(T, F, I) /\ preview \in [Slots(I) -> F \cup {NoFile}]
      /\ submission \in [1..P -> Submissions(T, F, I, P)] /\ old \in Submissions(T, F, I, P)
      /\ FormSound(I, G, restaurant, toldPresses, p, old)
      /\ restaurant[0] \in IF G THEN {BlankForm(I)} ELSE V
      /\ old.at # "unused" => \A r \in 1..P : r < p => submission[r].at # "unused"
      /\ p # 0 /\ G \in BOOLEAN
      /\ "write" \notin Slots(I) /\ "unused" \notin Slots(I) /\ "ok" \notin Slots(I) /\ "failed" \notin Slots(I)
      /\ "over" \notin Slots(I) /\ Slots(I) \subseteq {"logo", "cover"} /\ "logo" \in Slots(I)
  <2>1. /\ restaurant \in [{0} \cup 1..P -> V \cup {BlankForm(I)}]
        /\ removed \in BOOLEAN /\ open \in BOOLEAN
        /\ form \in ShownForms(T, F, I) /\ preview \in [Slots(I) -> F \cup {NoFile}]
        /\ submission \in [1..P -> Submissions(T, F, I, P)]
        /\ \A q, r \in 1..P : q < r /\ submission[q].at = "unused" => submission[r].at = "unused"
    BY FormsTyped DEF FormsIInv
  <2>2. FormSound(I, G, restaurant, toldPresses, p, old) /\ restaurant[0] \in IF G THEN {BlankForm(I)} ELSE V
    BY DEF FormsIInv, FormsSound, EditedSound
  <2>3. old.at # "unused" => \A r \in 1..P : r < p => submission[r].at # "unused"
    BY <2>1
  <2>4. p # 0 /\ G \in BOOLEAN
    BY DEF FormsAssumed
  <2>5. /\ "write" \notin Slots(I) /\ "unused" \notin Slots(I) /\ "ok" \notin Slots(I) /\ "failed" \notin Slots(I)
        /\ "over" \notin Slots(I) /\ Slots(I) \subseteq {"logo", "cover"} /\ "logo" \in Slots(I)
    BY DEF Slots
  <2> HIDE DEF V
  <2> QED
    BY <2>1, <2>2, <2>3, <2>4, <2>5
<1>2. ASSUME NEW at \in {"write", "ok", "failed", "over"}, submission' = [submission EXCEPT ![p].at = at]
      PROVE  Keeps /\ k.at = at /\ k.url = old.url
  <2> DEFINE new == [submission[p] EXCEPT !.at = at]
  <2>1. submission' = [submission EXCEPT ![p] = new]
    BY <1>2
  <2>2. new \in Submissions(T, F, I, P) /\ new.at = at /\ new.op = old.op /\ new.data = old.data /\ new.url = old.url
    BY <1>1 DEF Submissions
  <2> HIDE DEF new
  <2>3. k = new
    BY <1>1, <2>1
  <2> QED
    BY <2>1, <2>2, <2>3
<1> HIDE DEF k, old, V
<1>3. old = submission[p] /\ k = submission'[p] /\ V = StoredForms(T, F, I)
  BY DEF old, k, V
<1>4. /\ old.data.text \in T \cup {NoText} /\ old.data.image \in [Slots(I) -> F \cup {NoFile}]
      /\ old.url \in [Slots(I) -> F \cup {NoFile}] /\ old.data = [text |-> old.data.text, image |-> old.data.image]
  BY <1>1 DEF Submissions, ShownForms
<1>5. CASE \E i \in Slots(I) : Forms(T, F, I, P, G)!Upload(p, i)
  <2>1. PICK i \in Slots(I) : Forms(T, F, I, P, G)!Upload(p, i)
    BY <1>5
  <2> DEFINE at == IF i = "logo" /\ "cover" \in Slots(I) THEN "cover" ELSE "write"
             url == [old.url EXCEPT ![i] = old.data.image[i]]
             new == [old EXCEPT !.at = at, !.url = url]
  <2>2. /\ old.at = i /\ submission' = [submission EXCEPT ![p] = new]
        /\ UNCHANGED <<restaurant, removed, open, formCache, form, preview, toldPresses>>
    <3>1. Forms(T, F, I, P, G)!After(i) = at
      BY SlotsOfImages DEF Forms!After
    <3>2. /\ old.at = i
          /\ submission' = [submission EXCEPT ![p].at = Forms(T, F, I, P, G)!After(i), ![p].url[i] = submission[p].data.image[i]]
          /\ UNCHANGED <<restaurant, removed, open, formCache, form, preview, toldPresses>>
      BY <1>3, <2>1 DEF Forms!Upload
    <3> QED
      BY <1>1, <1>3, <3>1, <3>2 DEF Submissions
  <2>3. url \in [Slots(I) -> F \cup {NoFile}] /\ url[i] = old.data.image[i] /\ \A j \in Slots(I) : j # i => url[j] = old.url[j]
    BY <1>4
  <2>4. at \in {"cover", "write"} /\ (at = "cover" => i = "logo") /\ at \in Slots(I) \cup {"write"}
    OBVIOUS
  <2> HIDE DEF url, at
  <2>5. /\ new \in Submissions(T, F, I, P) /\ new.at = at /\ new.url = url
        /\ new.op = old.op /\ new.data = old.data
    BY <1>1, <2>3, <2>4 DEF Submissions
  <2> HIDE DEF new
  <2>6. k = new
    BY <1>1, <1>3, <2>2
  <2>7. at = "write" => url = old.data.image
    <3>1. SUFFICES ASSUME at = "write" PROVE \A j \in Slots(I) : url[j] = old.data.image[j]
      BY <1>4, <2>3
    <3>2. CASE "cover" \in Slots(I)
      <4>1. i = "cover"
        BY <1>1, <3>1, <3>2 DEF at
      <4>2. old.url["logo"] = old.data.image["logo"]
        BY <1>1, <2>2, <4>1 DEF FormSound
      <4> QED
        BY <1>1, <2>3, <4>1, <4>2
    <3>3. CASE "cover" \notin Slots(I)
      BY <1>1, <2>3, <3>3
    <3> QED
      BY <3>2, <3>3
  <2>8. at = "cover" => url["logo"] = old.data.image["logo"]
    BY <2>3, <2>4
  <2>9. old.at # "unused" /\ old.at \notin {"ok", "failed", "over", "write"}
    BY <1>1, <2>2
  <2>10. FormSound(I, G, restaurant', toldPresses', p, k)
    BY <1>1, <2>2, <2>4, <2>5, <2>6, <2>7, <2>8, <2>9 DEF FormSound
  <2>11. submission' = [submission EXCEPT ![p] = k] /\ k \in Submissions(T, F, I, P) /\ k.at # "unused"
    BY <2>2, <2>4, <2>5, <2>6
  <2> QED
    BY <1>1, <1>3, <2>2, <2>9, <2>10, <2>11, SubmissionMoves
<1>6. CASE Forms(T, F, I, P, G)!HandleCreateRestaurant(p)
  <2> DEFINE doc == Forms(T, F, I, P, G)!Merged(Forms(T, F, I, P, G)!NoDoc, old.data.text, old.url)
  <2>1. /\ old.at = "write" /\ old.op = "create" /\ restaurant' = [restaurant EXCEPT ![p] = doc]
        /\ submission' = [submission EXCEPT ![p].at = "ok"]
        /\ UNCHANGED <<removed, open, formCache, form, preview, toldPresses>>
    BY <1>3, <1>6 DEF Forms!HandleCreateRestaurant
  <2>2. /\ G /\ old.data.text # NoText /\ old.url = old.data.image /\ \A i \in Slots(I) : old.data.image[i] # NoFile
    BY <1>1, <2>1 DEF FormSound
  <2>3. doc = old.data
    <3>1. doc = [text |-> old.data.text,
                 image |-> [i \in Slots(I) |-> IF old.url[i] = NoFile THEN Forms(T, F, I, P, G)!NoDoc.image[i] ELSE old.url[i]]]
      BY SlotsOfImages DEF Forms!Merged
    <3>2. [i \in Slots(I) |-> IF old.url[i] = NoFile THEN Forms(T, F, I, P, G)!NoDoc.image[i] ELSE old.url[i]] = old.data.image
      BY <1>4, <2>2
    <3> QED
      BY <1>4, <3>1, <3>2
  <2> HIDE DEF doc
  <2>4. doc \in V /\ doc # BlankForm(I)
    <3>1. old.data.image \in [Slots(I) -> F]
      BY <1>4, <2>2
    <3>2. doc.text # NoText /\ doc \in V
      BY <1>3, <1>4, <2>2, <2>3, <3>1 DEF StoredForms
    <3> QED
      BY <3>2 DEF BlankForm
  <2>5. Keeps /\ k.at = "ok" /\ k.url = old.url
    BY <1>2, <2>1
  <2>6. /\ restaurant' \in [{0} \cup 1..P -> V \cup {BlankForm(I)}] /\ restaurant'[p] = doc
        /\ \A r \in 1..P : r # p => restaurant'[r] = restaurant[r]
        /\ restaurant'[0] = restaurant[0]
    BY <1>1, <2>1, <2>4
  <2>7. FormSound(I, G, restaurant', toldPresses', p, k)
    <3>1. p \notin toldPresses
      BY <1>1, <2>1 DEF FormSound
    <3> QED
      BY <1>1, <2>1, <2>2, <2>3, <2>4, <2>5, <2>6, <3>1 DEF FormSound
  <2>8. /\ submission' = [submission EXCEPT ![p] = k] /\ k \in Submissions(T, F, I, P) /\ k.at # "unused"
        /\ \A r \in 1..P : r < p => submission[r].at # "unused"
        /\ restaurant' \in [{0} \cup 1..P -> StoredForms(T, F, I) \cup {BlankForm(I)}]
        /\ \A r \in 1..P : r # p => restaurant'[r] = restaurant[r]
        /\ restaurant'[0] \in IF G THEN {BlankForm(I)} ELSE StoredForms(T, F, I)
        /\ removed' \in BOOLEAN /\ open' \in BOOLEAN /\ UNCHANGED formCache
        /\ form' \in ShownForms(T, F, I) /\ preview' \in [Slots(I) -> F \cup {NoFile}]
        /\ toldPresses' \in {toldPresses, toldPresses \cup {p}}
    BY <1>1, <1>3, <2>1, <2>5, <2>6
  <2> QED
    BY <2>7, <2>8, SubmissionMoves
<1>7. CASE Forms(T, F, I, P, G)!HandleUpdateRestaurant(p)
  <2> DEFINE doc == Forms(T, F, I, P, G)!Merged(restaurant[0], old.data.text, old.url)
  <2>1. /\ old.at = "write" /\ old.op = "update"
        /\ restaurant' = (IF removed THEN restaurant ELSE [restaurant EXCEPT ![0] = doc])
        /\ submission' = [submission EXCEPT ![p].at = IF removed THEN "failed" ELSE "ok"]
        /\ UNCHANGED <<removed, open, formCache, form, preview, toldPresses>>
    BY <1>3, <1>7 DEF Forms!HandleUpdateRestaurant
  <2>2. ~G /\ old.data.text # NoText /\ restaurant[0] \in V /\ restaurant[p] = BlankForm(I) /\ p \notin toldPresses
    BY <1>1, <2>1 DEF FormSound
  <2>3. doc \in V
    <3>1. doc = [text |-> old.data.text,
                 image |-> [i \in Slots(I) |-> IF old.url[i] = NoFile THEN restaurant[0].image[i] ELSE old.url[i]]]
      BY SlotsOfImages DEF Forms!Merged
    <3>2. [i \in Slots(I) |-> IF old.url[i] = NoFile THEN restaurant[0].image[i] ELSE old.url[i]] \in [Slots(I) -> F]
      BY <1>3, <1>4, <2>2 DEF StoredForms
    <3>3. old.data.text \in T
      BY <1>4, <2>2
    <3> QED
      BY <1>3, <3>1, <3>2, <3>3 DEF StoredForms
  <2> HIDE DEF doc
  <2>4. PICK at \in {"failed", "ok"} : submission' = [submission EXCEPT ![p].at = at]
    BY <2>1
  <2>5. Keeps /\ k.at = at
    BY <1>2, <2>4
  <2>6. /\ restaurant' \in [{0} \cup 1..P -> V \cup {BlankForm(I)}]
        /\ \A r \in 1..P : restaurant'[r] = restaurant[r]
        /\ restaurant'[0] \in V
    BY <1>1, <2>1, <2>2, <2>3
  <2>7. FormSound(I, G, restaurant', toldPresses', p, k)
    BY <1>1, <2>1, <2>2, <2>5, <2>6 DEF FormSound
  <2>8. /\ submission' = [submission EXCEPT ![p] = k] /\ k \in Submissions(T, F, I, P) /\ k.at # "unused"
        /\ \A r \in 1..P : r < p => submission[r].at # "unused"
        /\ restaurant' \in [{0} \cup 1..P -> StoredForms(T, F, I) \cup {BlankForm(I)}]
        /\ \A r \in 1..P : r # p => restaurant'[r] = restaurant[r]
        /\ restaurant'[0] \in IF G THEN {BlankForm(I)} ELSE StoredForms(T, F, I)
        /\ removed' \in BOOLEAN /\ open' \in BOOLEAN /\ UNCHANGED formCache
        /\ form' \in ShownForms(T, F, I) /\ preview' \in [Slots(I) -> F \cup {NoFile}]
        /\ toldPresses' \in {toldPresses, toldPresses \cup {p}}
    BY <1>1, <1>3, <2>1, <2>2, <2>5, <2>6
  <2> QED
    BY <2>7, <2>8, SubmissionMoves
<1>8. CASE \/ Forms(T, F, I, P, G)!HandleDeleteRestaurantById(p)
           \/ Forms(T, F, I, P, G)!CallFails(p) \/ Forms(T, F, I, P, G)!Fail(p)
  <2>1. PICK at \in {"ok", "failed", "over"} :
          /\ submission' = [submission EXCEPT ![p].at = at]
          /\ at = "ok" => old.op = "delete" /\ old.at = "write"
          /\ at = "over" => old.at = "failed"
          /\ old.at \notin {"unused", "over"}
          /\ removed' \in {removed, TRUE}
          /\ UNCHANGED <<restaurant, open, formCache, form, preview, toldPresses>>
    <3>1. CASE Forms(T, F, I, P, G)!HandleDeleteRestaurantById(p)
      BY <1>3, <3>1 DEF Forms!HandleDeleteRestaurantById
    <3>2. CASE Forms(T, F, I, P, G)!CallFails(p)
      BY <1>1, <1>3, <3>2, SlotsOfImages DEF Forms!CallFails
    <3>3. CASE Forms(T, F, I, P, G)!Fail(p)
      BY <1>3, <3>3 DEF Forms!Fail
    <3> QED
      BY <1>8, <3>1, <3>2, <3>3
  <2>2. Keeps /\ k.at = at
    BY <1>2, <2>1
  <2>3. FormSound(I, G, restaurant', toldPresses', p, k)
    BY <1>1, <2>1, <2>2 DEF FormSound
  <2>4. /\ submission' = [submission EXCEPT ![p] = k] /\ k \in Submissions(T, F, I, P) /\ k.at # "unused"
        /\ \A r \in 1..P : r < p => submission[r].at # "unused"
        /\ restaurant' \in [{0} \cup 1..P -> StoredForms(T, F, I) \cup {BlankForm(I)}]
        /\ \A r \in 1..P : r # p => restaurant'[r] = restaurant[r]
        /\ restaurant'[0] \in IF G THEN {BlankForm(I)} ELSE StoredForms(T, F, I)
        /\ removed' \in BOOLEAN /\ open' \in BOOLEAN /\ UNCHANGED formCache
        /\ form' \in ShownForms(T, F, I) /\ preview' \in [Slots(I) -> F \cup {NoFile}]
        /\ toldPresses' \in {toldPresses, toldPresses \cup {p}}
    BY <1>1, <1>3, <2>1, <2>2
  <2> QED
    BY <2>3, <2>4, SubmissionMoves
<1>9. CASE Forms(T, F, I, P, G)!Succeed(p)
  <2>1. /\ old.at = "ok" /\ submission' = [submission EXCEPT ![p].at = "over"]
        /\ toldPresses' = toldPresses \cup {p} /\ UNCHANGED <<restaurant, removed, formCache>>
    BY <1>3, <1>9 DEF Forms!Succeed
  <2>2. /\ open' \in BOOLEAN /\ form' \in ShownForms(T, F, I) /\ preview' \in [Slots(I) -> F \cup {NoFile}]
    <3>1. /\ Forms(T, F, I, P, G)!NoImages \in [Slots(I) -> F \cup {NoFile}]
          /\ Forms(T, F, I, P, G)!Blank \in ShownForms(T, F, I)
      BY SlotsOfImages DEF Forms!NoImages, Forms!Blank, ShownForms
    <3> QED
      BY <1>1, <1>9, <3>1 DEF Forms!Succeed
  <2>3. Keeps /\ k.at = "over"
    BY <1>2, <2>1
  <2>4. FormSound(I, G, restaurant', toldPresses', p, k)
    BY <1>1, <2>1, <2>3 DEF FormSound
  <2> QED
    BY <1>1, <1>3, <2>1, <2>2, <2>3, <2>4, SubmissionMoves
<1> QED
  BY <1>5, <1>6, <1>7, <1>8, <1>9

\* Every step of the forms keeps the invariant.
LEMMA FormsStep ==
  ASSUME NEW T, NEW F, NEW I, NEW P, NEW G, FormsAssumed(T, F, I, P, G), FormsIInv(T, F, I, P, G),
         Forms(T, F, I, P, G)!Next
  PROVE  FormsIInv(T, F, I, P, G)'
BY FormsEditStep, FormsPressStep, FormsSubmitStep, SlotsOfImages DEF Forms!Next, Forms!Press

\* So does a step of another part.
LEMMA FormsStutter ==
  ASSUME NEW T, NEW F, NEW I, NEW P, NEW G, FormsIInv(T, F, I, P, G), UNCHANGED editorVars
  PROVE  FormsIInv(T, F, I, P, G)'
BY DEF FormsIInv, editorVars, FormsSound, EditedSound, Forms!TypeOK, Forms!Press, Forms!Doc, Forms!NoDoc, Forms!Blank,
   Forms!NoImages, Forms!Fields, Forms!Images, Forms!Slot, Forms!Entries

\* A registration that is stored is what the form showed when it was pressed.
LEMMA RegistersAsPressed ==
  ASSUME NEW T, NEW F, NEW I, NEW P, NEW G, FormsAssumed(T, F, I, P, G), FormsIInv(T, F, I, P, G)
  PROVE  Forms(T, F, I, P, G)!RegisteredAsPressed
<1>1. Forms(T, F, I, P, G)!NoDoc = BlankForm(I)
  BY SlotsOfImages DEF Forms!NoDoc, Forms!Blank, Forms!NoImages, BlankForm, NoImages
<1> QED
  BY <1>1 DEF FormsIInv, FormsSound, FormSound, Forms!RegisteredAsPressed, Forms!Press

-----------------------------------------------------------------------------
(* Updates of a restaurant, one after the other or at a time.              *)

\* The updates that were under way when p was pressed or came after it, p among them.
SinceIn(P, p) ==
  {q \in 1..P : submission[q].op = "update" /\ (q >= p \/ q \in submission[p].beside)}

\* The stored restaurant has the text of such an update, and of each image that p chose
\* the choice of one.
UpdateStays(I, P, p) ==
  /\ \E q \in SinceIn(P, p) : restaurant[0].text = submission[q].data.text
  /\ \A i \in Slots(I) : submission[p].data.image[i] # NoFile
       => \E q \in SinceIn(P, p) : /\ submission[q].data.image[i] # NoFile
                                   /\ restaurant[0].image[i] = submission[q].data.image[i]

\* p was carried out.
CarriedOut(p) == submission[p].op = "update" /\ (submission[p].at = "ok" \/ p \in toldPresses)

\* An earlier press is over, or p began beside it; what was carried out stays.
UpdatesSound(I, P) ==
  /\ \A p, q \in 1..P : q < p /\ submission[p].at # "unused"
                          => q \in submission[p].beside \/ submission[q].at = "over"
  /\ \A p \in 1..P : CarriedOut(p) => UpdateStays(I, P, p)

\* Nothing was updated at the start.
LEMMA InitUpdates ==
  ASSUME NEW T, NEW F, NEW I, NEW P, NEW G, FormsAssumed(T, F, I, P, G), Forms(T, F, I, P, G)!Init
  PROVE  UpdatesSound(I, P)
<1>1. \A p \in 1..P : submission[p].at = "unused" /\ submission[p].op = "none"
  BY DEF Forms!Init, Forms!Idle, Forms!Press
<1> QED
  BY <1>1 DEF UpdatesSound, CarriedOut

\* A press that is no longer over than before keeps what was carried out.
LEMMA UpdateStaysOn ==
  ASSUME NEW I, NEW P, NEW p \in 1..P, UNCHANGED restaurant, UpdateStays(I, P, p),
         SinceIn(P, p) \subseteq SinceIn(P, p)', submission'[p].data = submission[p].data,
         \A q \in SinceIn(P, p) : submission'[q].data = submission[q].data
  PROVE  UpdateStays(I, P, p)'
BY DEF UpdateStays

\* No update is undone by one that was over when it was pressed.
LEMMA UpdatesStep ==
  ASSUME NEW T, NEW F, NEW I, NEW P, NEW G, G = FALSE, FormsAssumed(T, F, I, P, G), FormsIInv(T, F, I, P, G),
         UpdatesSound(I, P), Forms(T, F, I, P, G)!Next
  PROVE  UpdatesSound(I, P)'
<1>0. Forms(T, F, I, P, G)!Slot = Slots(I) /\ I[1] = "logo"
  BY SlotsOfImages
<1>1. /\ submission \in [1..P -> Submissions(T, F, I, P)] /\ P \in Nat
      /\ restaurant \in [{0} \cup 1..P -> StoredForms(T, F, I) \cup {BlankForm(I)}]
      /\ \A p \in 1..P : FormSound(I, FALSE, restaurant, toldPresses, p, submission[p])
      /\ \A p, q \in 1..P : p < q /\ submission[p].at = "unused" => submission[q].at = "unused"
      /\ \A p, q \in 1..P : q < p /\ submission[p].at # "unused"
                              => q \in submission[p].beside \/ submission[q].at = "over"
      /\ \A p \in 1..P : CarriedOut(p) => UpdateStays(I, P, p)
  BY FormsTyped DEF FormsIInv, FormsSound, UpdatesSound, FormsAssumed
<1>2. CASE \/ \E t \in T : Forms(T, F, I, P, G)!EditText(t)
           \/ \E i \in Slots(I) : Forms(T, F, I, P, G)!RemoveImage(i)
           \/ \E i \in Slots(I), f \in F : Forms(T, F, I, P, G)!ChooseImage(i, f)
           \/ Forms(T, F, I, P, G)!OpenUpdate \/ Forms(T, F, I, P, G)!Leave
           \/ Forms(T, F, I, P, G)!Refetch \/ Forms(T, F, I, P, G)!GetRestaurantById
           \/ Forms(T, F, I, P, G)!ShowRestaurant \/ Forms(T, F, I, P, G)!FetchFails
  <2>1. UNCHANGED <<restaurant, submission, toldPresses>>
    BY <1>2, FormsEditStep
  <2> QED
    BY <2>1 DEF UpdatesSound, CarriedOut, UpdateStays, SinceIn
<1>3. CASE \E p \in 1..P : Forms(T, F, I, P, G)!OnSubmit(p) \/ Forms(T, F, I, P, G)!OnDelete(p)
  <2>1. PICK p \in 1..P : Forms(T, F, I, P, G)!OnSubmit(p) \/ Forms(T, F, I, P, G)!OnDelete(p)
    BY <1>3
  <2>2. PICK op \in {"create", "update", "delete"}, at \in {"logo", "write"} :
          Forms(T, F, I, P, G)!Start(p, op, at)
    BY <1>0, <2>1 DEF Forms!OnSubmit, Forms!OnDelete
  <2>3. op \in {"create", "update", "delete"} /\ at \in {"logo", "write"} /\ p \in 1..P
    OBVIOUS
  <2>4. /\ submission[p].at = "unused" /\ \A r \in 1..P : r < p => submission[r].at # "unused"
        /\ submission'[p] \in Submissions(T, F, I, P) /\ submission' = [submission EXCEPT ![p] = submission'[p]]
        /\ submission'[p].at = at /\ submission'[p].op = op /\ submission'[p].data = form
        /\ \A r \in 1..P : submission[r].at \notin {"unused", "over"} => r \in submission'[p].beside
        /\ UNCHANGED <<restaurant, removed, open, formCache, form, preview, toldPresses>>
    BY <2>2, <2>3, SubmissionStarts
  <2>5. \A r \in 1..P : r # p => submission'[r] = submission[r]
    BY <1>1, <2>4
  <2>6. \A r, q \in 1..P : q < r /\ submission'[r].at # "unused"
                             => q \in submission'[r].beside \/ submission'[q].at = "over"
    <3> SUFFICES ASSUME NEW r \in 1..P, NEW q \in 1..P, q < r, submission'[r].at # "unused"
                 PROVE  q \in submission'[r].beside \/ submission'[q].at = "over"
      OBVIOUS
    <3>1. CASE r = p
      <4>1. submission'[q] = submission[q] /\ submission[q].at # "unused"
        BY <1>1, <2>4, <2>5, <3>1
      <4> QED
        BY <2>4, <3>1, <4>1
    <3>2. CASE r # p
      <4>1. submission'[r] = submission[r] /\ q # p
        BY <1>1, <2>4, <2>5, <3>2
      <4> QED
        BY <1>1, <2>5, <4>1
    <3> QED
      BY <3>1, <3>2
  <2>7. ASSUME NEW r \in 1..P, CarriedOut(r)'
        PROVE  UpdateStays(I, P, r)'
    <3>1. r # p
      BY <1>1, <2>4, <2>7 DEF CarriedOut, FormSound
    <3>2. submission'[r] = submission[r] /\ submission[p].op = "none"
      BY <1>1, <2>4, <2>5, <3>1 DEF FormSound
    <3>3. UpdateStays(I, P, r)
      BY <1>1, <2>4, <2>7, <3>2 DEF CarriedOut
    <3>4. \A q \in SinceIn(P, r) : submission'[q] = submission[q] /\ q \in SinceIn(P, r)'
      BY <2>5, <3>2 DEF SinceIn
    <3> QED
      BY <2>4, <3>2, <3>3, <3>4, UpdateStaysOn
  <2> QED
    BY <2>6, <2>7 DEF UpdatesSound
<1>4. CASE \E p \in 1..P :
        \/ \E i \in Slots(I) : Forms(T, F, I, P, G)!Upload(p, i)
        \/ Forms(T, F, I, P, G)!HandleCreateRestaurant(p) \/ Forms(T, F, I, P, G)!HandleUpdateRestaurant(p)
        \/ Forms(T, F, I, P, G)!HandleDeleteRestaurantById(p)
        \/ Forms(T, F, I, P, G)!CallFails(p) \/ Forms(T, F, I, P, G)!Succeed(p)
        \/ Forms(T, F, I, P, G)!Fail(p)
  <2>1. PICK p \in 1..P :
        \/ \E i \in Slots(I) : Forms(T, F, I, P, G)!Upload(p, i)
        \/ Forms(T, F, I, P, G)!HandleCreateRestaurant(p) \/ Forms(T, F, I, P, G)!HandleUpdateRestaurant(p)
        \/ Forms(T, F, I, P, G)!HandleDeleteRestaurantById(p)
        \/ Forms(T, F, I, P, G)!CallFails(p) \/ Forms(T, F, I, P, G)!Succeed(p)
        \/ Forms(T, F, I, P, G)!Fail(p)
    BY <1>4
  <2> DEFINE old == submission[p]
             k == submission'[p]
             Keeps == /\ k.op = old.op /\ k.data = old.data /\ k.beside = old.beside
                      /\ \A r \in 1..P : r # p => submission'[r] = submission[r]
             Overwrites ==
               /\ restaurant'[0].text = old.data.text
               /\ \A i \in Slots(I) :
                    restaurant'[0].image[i] = IF old.data.image[i] = NoFile THEN restaurant[0].image[i]
                                                                            ELSE old.data.image[i]
  <2>2. old \in Submissions(T, F, I, P)
    BY <1>1
  \* Two kinds of steps: the update that is stored, and the others.
  <2>3. /\ old.at \notin {"unused", "over"} /\ Keeps
        /\ \/ /\ UNCHANGED restaurant
              /\ (k.at = "ok" => old.op # "update")
              /\ (toldPresses' = toldPresses \/ (old.at = "ok" /\ toldPresses' = toldPresses \cup {p}))
           \/ old.op = "update" /\ toldPresses' = toldPresses /\ Overwrites
    <3>1. CASE \E i \in Slots(I) : Forms(T, F, I, P, G)!Upload(p, i)
      <4>1. PICK i \in Slots(I) : Forms(T, F, I, P, G)!Upload(p, i)
        BY <3>1
      <4>2. Forms(T, F, I, P, G)!After(i) \in {"cover", "write"}
        BY DEF Forms!After
      <4>3. /\ old.at = i /\ UNCHANGED <<restaurant, toldPresses>>
            /\ submission' = [submission EXCEPT ![p].at = Forms(T, F, I, P, G)!After(i),
                                                ![p].url[i] = submission[p].data.image[i]]
        BY <4>1 DEF Forms!Upload
      <4>4. i \in {"logo", "cover"}
        BY DEF Slots
      <4>5. Keeps /\ k.at = Forms(T, F, I, P, G)!After(i)
        BY <1>1, <2>2, <4>3 DEF Submissions
      <4> QED
        BY <4>2, <4>3, <4>4, <4>5
    <3>2. CASE Forms(T, F, I, P, G)!HandleCreateRestaurant(p)
      <4>1. old.op = "create" /\ old.at = "write"
        BY <3>2 DEF Forms!HandleCreateRestaurant
      <4> QED
        BY <1>1, <4>1 DEF FormSound
    <3>3. ASSUME NEW at \in {"ok", "failed", "over"}, submission' = [submission EXCEPT ![p].at = at]
          PROVE  Keeps /\ k.at = at
      BY <1>1, <2>2, <3>3 DEF Submissions
    <3>4. CASE Forms(T, F, I, P, G)!HandleUpdateRestaurant(p)
      <4>1. old.op = "update" /\ old.at = "write" /\ toldPresses' = toldPresses
        BY <3>4 DEF Forms!HandleUpdateRestaurant
      <4>2. CASE removed
        <5>1. submission' = [submission EXCEPT ![p].at = "failed"] /\ UNCHANGED restaurant
          BY <3>4, <4>2 DEF Forms!HandleUpdateRestaurant
        <5>2. Keeps /\ k.at = "failed"
          BY <3>3, <5>1
        <5> HIDE DEF Keeps, Overwrites
        <5> QED
          BY <4>1, <5>1, <5>2
      <4>3. CASE ~removed
        <5>1. /\ submission' = [submission EXCEPT ![p].at = "ok"]
              /\ restaurant' = [restaurant EXCEPT ![0] =
                   Forms(T, F, I, P, G)!Merged(restaurant[0], old.data.text, old.url)]
          BY <3>4, <4>3 DEF Forms!HandleUpdateRestaurant
        <5>2. Keeps /\ k.at = "ok"
          BY <3>3, <5>1
        <5>3. restaurant'[0] = [text |-> old.data.text,
                 image |-> [i \in Slots(I) |-> IF old.url[i] = NoFile THEN restaurant[0].image[i] ELSE old.url[i]]]
          BY <1>0, <1>1, <5>1 DEF Forms!Merged
        <5>4. old.url = old.data.image
          BY <1>1, <4>1 DEF FormSound
        <5>5. Overwrites
          BY <5>3, <5>4
        <5> HIDE DEF Keeps, Overwrites
        <5> QED
          BY <4>1, <5>2, <5>5
      <4> QED
        BY <4>2, <4>3
    <3>5. CASE Forms(T, F, I, P, G)!HandleDeleteRestaurantById(p)
      <4>1. /\ old.op = "delete" /\ old.at = "write" /\ UNCHANGED <<restaurant, toldPresses>>
            /\ submission' = [submission EXCEPT ![p].at = "ok"]
        BY <3>5 DEF Forms!HandleDeleteRestaurantById
      <4>2. Keeps /\ k.at = "ok"
        BY <3>3, <4>1
      <4> HIDE DEF Keeps, Overwrites
      <4> QED
        BY <4>1, <4>2
    <3>6. CASE Forms(T, F, I, P, G)!CallFails(p)
      <4>1. /\ old.at \notin {"unused", "over"} /\ UNCHANGED <<restaurant, toldPresses>>
            /\ submission' = [submission EXCEPT ![p].at = "failed"]
        BY <1>0, <3>6 DEF Forms!CallFails, Slots
      <4>2. Keeps /\ k.at = "failed"
        BY <3>3, <4>1
      <4> HIDE DEF Keeps, Overwrites
      <4> QED
        BY <4>1, <4>2
    <3>7. CASE Forms(T, F, I, P, G)!Succeed(p)
      <4>1. /\ old.at = "ok" /\ UNCHANGED restaurant /\ toldPresses' = toldPresses \cup {p}
            /\ submission' = [submission EXCEPT ![p].at = "over"]
        BY <3>7 DEF Forms!Succeed
      <4>2. Keeps /\ k.at = "over"
        BY <3>3, <4>1
      <4> HIDE DEF Keeps, Overwrites
      <4> QED
        BY <4>1, <4>2
    <3>8. CASE Forms(T, F, I, P, G)!Fail(p)
      <4>1. /\ old.at = "failed" /\ UNCHANGED <<restaurant, toldPresses>>
            /\ submission' = [submission EXCEPT ![p].at = "over"]
        BY <3>8 DEF Forms!Fail
      <4>2. Keeps /\ k.at = "over"
        BY <3>3, <4>1
      <4> HIDE DEF Keeps, Overwrites
      <4> QED
        BY <4>1, <4>2
    <3> HIDE DEF Keeps, Overwrites
    <3> QED
      BY <2>1, <3>1, <3>2, <3>4, <3>5, <3>6, <3>7, <3>8
  <2>4. old = submission[p] /\ k = submission'[p]
    OBVIOUS
  <2> HIDE DEF old, k
  <2>5. \A r \in 1..P : /\ submission'[r].op = submission[r].op /\ submission'[r].data = submission[r].data
                        /\ submission'[r].beside = submission[r].beside
    BY <2>3, <2>4
  <2>6. \A r, q \in 1..P : q < r /\ submission'[r].at # "unused"
                             => q \in submission'[r].beside \/ submission'[q].at = "over"
    <3> SUFFICES ASSUME NEW r \in 1..P, NEW q \in 1..P, q < r, submission'[r].at # "unused"
                 PROVE  q \in submission'[r].beside \/ submission'[q].at = "over"
      OBVIOUS
    <3>1. submission[r].at # "unused"
      BY <2>3, <2>4
    <3>2. q \in submission[r].beside \/ submission[q].at = "over"
      BY <1>1, <3>1
    <3> QED
      BY <2>3, <2>4, <2>5, <3>2
  <2>7. ASSUME NEW r \in 1..P, CarriedOut(r)'
        PROVE  UpdateStays(I, P, r)'
    <3>1. submission[r].op = "update"
      BY <2>5, <2>7 DEF CarriedOut
    <3>2. SinceIn(P, r)' = SinceIn(P, r) /\ SinceIn(P, r) \subseteq 1..P
      BY <2>5 DEF SinceIn
    <3>3. CarriedOut(r) => UpdateStays(I, P, r)
      BY <1>1
    <3>4. CASE /\ UNCHANGED restaurant
               /\ (k.at = "ok" => old.op # "update")
               /\ (toldPresses' = toldPresses \/ (old.at = "ok" /\ toldPresses' = toldPresses \cup {p}))
      <4>1. CarriedOut(r)
        BY <2>3, <2>4, <2>7, <3>1, <3>4 DEF CarriedOut
      <4> QED
        BY <2>5, <3>2, <3>3, <3>4, <4>1, UpdateStaysOn
    <3>5. CASE old.op = "update" /\ toldPresses' = toldPresses /\ Overwrites
      <4>1. p \in SinceIn(P, r)
        <5>1. submission[p].op = "update" /\ submission[p].at \notin {"unused", "over"}
          BY <2>3, <2>4, <3>5
        <5>2. submission[r].at # "unused"
          BY <1>1, <3>1 DEF FormSound
        <5>3. r > p => p \in submission[r].beside
          BY <1>1, <5>1, <5>2
        <5> QED
          BY <1>1, <5>1, <5>3 DEF SinceIn
      <4>2. restaurant'[0].text = submission'[p].data.text
        BY <2>4, <2>5, <3>5
      <4>3. ASSUME NEW i \in Slots(I), submission'[r].data.image[i] # NoFile
            PROVE  \E q \in SinceIn(P, r) : /\ submission'[q].data.image[i] # NoFile
                                            /\ restaurant'[0].image[i] = submission'[q].data.image[i]
        <5>1. CASE old.data.image[i] # NoFile
          BY <2>4, <2>5, <3>5, <4>1, <5>1
        <5>2. CASE old.data.image[i] = NoFile
          <6>1. r # p /\ restaurant'[0].image[i] = restaurant[0].image[i]
            BY <2>4, <2>5, <3>5, <4>3, <5>2
          <6>2. UpdateStays(I, P, r)
            BY <2>3, <2>7, <3>1, <3>3, <3>5, <6>1 DEF CarriedOut
          <6>3. PICK q \in SinceIn(P, r) : /\ submission[q].data.image[i] # NoFile
                                           /\ restaurant[0].image[i] = submission[q].data.image[i]
            BY <2>5, <4>3, <6>2 DEF UpdateStays
          <6> QED
            BY <2>5, <3>2, <6>1, <6>3
        <5> QED
          BY <5>1, <5>2
      <4> QED
        BY <3>2, <4>1, <4>2, <4>3 DEF UpdateStays
    <3> QED
      BY <2>3, <3>4, <3>5
  <2> QED
    BY <2>6, <2>7 DEF UpdatesSound
<1> QED
  BY <1>0, <1>2, <1>3, <1>4 DEF Forms!Next, Forms!Press

\* Nor does a step of another part change what is stored.
LEMMA UpdatesStutter ==
  ASSUME NEW I, NEW P, UpdatesSound(I, P), UNCHANGED editorVars
  PROVE  UpdatesSound(I, P)'
BY DEF editorVars, UpdatesSound, CarriedOut, UpdateStays, SinceIn

\* An update that was reported stays.
LEMMA UpdatesAsTold ==
  ASSUME NEW T, NEW F, NEW I, NEW P, NEW G, FormsAssumed(T, F, I, P, G), FormsIInv(T, F, I, P, G),
         UpdatesSound(I, P)
  PROVE  Forms(T, F, I, P, G)!UpdateAsTold
<1>1. Forms(T, F, I, P, G)!Slot = Slots(I)
  BY SlotsOfImages
<1>2. toldPresses \subseteq 1..P
  BY FormsTyped DEF FormsIInv
<1>3. \A p \in 1..P : Forms(T, F, I, P, G)!Since(p) = SinceIn(P, p)
  BY DEF Forms!Since, Forms!Updates, Forms!Press, SinceIn
<1> QED
  BY <1>1, <1>2, <1>3 DEF UpdatesSound, CarriedOut, UpdateStays, Forms!UpdateAsTold, Forms!Updates, Forms!Press

-----------------------------------------------------------------------------
(* The form that files an application.                                     *)

\* What a submission under way carries is what was shown when Submit was pressed, and
\* what it has uploaded is stored.
SubmissionSound ==
  /\ submit.at # "idle" => submit.files = pressed /\ \A s \in Form!Slot : pressed[s] \in Application
  /\ submit.at \in {"license", "create", "insert", "created"} => pressed["vehicle"] \in stored
  /\ submit.at \in {"create", "insert", "created"} => pressed["license"] \in stored

FormIInv == Form!TypeOK /\ SubmissionSound /\ Form!FiledIsStored

\* The form that files an application starts with the invariant.
LEMMA InitForm ==
  ASSUME Form!Init
  PROVE  FormIInv
<1>1. /\ formStatus = [a \in {"application"} |-> "absent"]
      /\ formProfile = [u \in {"user"} |-> NoApplication]
  BY DEF Form!Init, Form!Service!Init
<1>2. Form!NoFiles \in Form!Files
  BY DEF Form!NoFiles, Form!Files, Form!Slot
<1>3. Form!TypeOK
  BY <1>1, <1>2 DEF Form!Init, Form!TypeOK, Form!Idle
<1>4. SubmissionSound
  BY DEF Form!Init, SubmissionSound, Form!Idle
<1>5. Form!FiledIsStored
  BY <1>1 DEF Form!FiledIsStored, Form!Filed
<1> QED
  BY <1>3, <1>4, <1>5 DEF FormIInv

\* One step: an application is filed with the two images that were pressed, and all that is
\* stored stays.
LEMMA FormStep ==
  ASSUME FormIInv, Form!Next
  PROVE  /\ FormIInv'
         /\ \A a \in {"application"} : a \notin Form!Filed /\ a \in Form!Filed' => filed'[a] = pressed
<1> USE DEF Form!Slot
<1>1. /\ formStatus \in [{"application"} -> {"absent", "pending", "accepted", "rejected"}]
      /\ formProfile \in [{"user"} -> {"application"} \cup {NoApplication}]
      /\ stored \subseteq Application /\ filed \in [{"application"} -> Form!Files] /\ pressed \in Form!Files
      /\ roles \in SUBSET {"user_driver"} /\ fields \in BOOLEAN
      /\ image \in [Form!Slot -> [file : Application \cup {None}, uploading : BOOLEAN]]
      /\ reading \subseteq Form!Slot \X Application
      /\ submit \in [at : {"idle", "vehicle", "license", "create", "insert", "created"},
                     files : Form!Files]
      /\ formError \in {None, "missing", "failed"} /\ view \in {"form", "success", "home"}
  BY DEF FormIInv, Form!TypeOK
<1>2. SubmissionSound /\ Form!FiledIsStored
  BY DEF FormIInv
<1>3. /\ Form!Idle.at = "idle" /\ Form!Idle.files \in Form!Files
      /\ Form!Idle \in [at : {"idle", "vehicle", "license", "create", "insert", "created"}, files : Form!Files]
  BY DEF Form!Idle, Form!NoFiles, Form!Files
\* The steps that touch neither the submission nor what is filed.
<1>4. ASSUME UNCHANGED <<formStatus, filed, stored, submit, pressed>>, Form!TypeOK'
      PROVE  /\ FormIInv'
             /\ \A a \in {"application"} : a \notin Form!Filed /\ a \in Form!Filed' => filed'[a] = pressed
  BY <1>2, <1>4 DEF FormIInv, SubmissionSound, Form!FiledIsStored, Form!Filed
<1>5. CASE Form!HandleInputChange \/ Form!GoHome \/ Form!Leave \/ Form!SetUser
  <2>1. Form!TypeOK' /\ UNCHANGED <<formStatus, filed, stored, submit, pressed>>
    BY <1>1, <1>5 DEF Form!HandleInputChange, Form!GoHome, Form!Leave, Form!SetUser, Form!TypeOK, Form!service
  <2> QED
    BY <2>1, <1>4
<1>6. CASE Form!Open
  <2>1. Form!TypeOK' /\ UNCHANGED <<formStatus, filed, stored, submit, pressed>>
    BY <1>1, <1>6 DEF Form!Open, Form!TypeOK, Form!service
  <2> QED
    BY <2>1, <1>4
<1>7. CASE \E s \in Form!Slot, f \in Application : Form!HandleImageChange(s, f) \/ Form!OnLoadEnd(s, f)
  <2>1. PICK s \in Form!Slot, f \in Application : Form!HandleImageChange(s, f) \/ Form!OnLoadEnd(s, f)
    BY <1>7
  <2>2. UNCHANGED <<formProfile, formStatus, stored, filed, roles, fields, submit, formError, view, pressed>>
    BY <2>1 DEF Form!HandleImageChange, Form!OnLoadEnd, Form!service
  <2>3. reading' \subseteq Form!Slot \X Application
    BY <1>1, <2>1 DEF Form!HandleImageChange, Form!OnLoadEnd
  <2>4. image' \in [Form!Slot -> [file : Application \cup {None}, uploading : BOOLEAN]]
    <3>1. [file |-> f, uploading |-> FALSE] \in [file : Application \cup {None}, uploading : BOOLEAN]
      OBVIOUS
    <3> QED
      BY <1>1, <2>1, <3>1 DEF Form!HandleImageChange, Form!OnLoadEnd
  <2>5. Form!TypeOK'
    BY <1>1, <2>2, <2>3, <2>4 DEF Form!TypeOK
  <2> QED
    BY <2>2, <2>5, <1>4
<1>8. CASE Form!Elsewhere
  <2>1. UNCHANGED <<stored, filed, roles, fields, image, reading, submit, formError, view, pressed>>
    BY <1>8 DEF Form!Elsewhere
  <2>2. /\ formStatus' \in [{"application"} -> {"absent", "pending", "accepted", "rejected"}]
        /\ formProfile' \in [{"user"} -> {"application"} \cup {NoApplication}]
        /\ \A a \in {"application"} : formStatus[a] = "absent" <=> formStatus'[a] = "absent"
    BY <1>1, <1>8 DEF Form!Elsewhere, Form!Service!Accept, Form!Service!CanAccept, Form!Service!Closes,
       Form!Service!Deny, Form!Service!Delete
  <2>3. Form!TypeOK'
    BY <1>1, <2>1, <2>2 DEF Form!TypeOK
  <2> QED
    BY <1>2, <2>1, <2>2, <2>3 DEF FormIInv, SubmissionSound, Form!FiledIsStored, Form!Filed
<1>9. CASE Form!Press
  <2>1. CASE ~Form!Complete
    <3>1. Form!TypeOK' /\ UNCHANGED <<formStatus, filed, stored, submit, pressed>>
      BY <1>1, <1>9, <2>1 DEF Form!Press, Form!TypeOK, Form!service
    <3> QED
      BY <3>1, <1>4
  <2>2. CASE Form!Complete
    <3> DEFINE fs == [s \in Form!Slot |-> image[s].file]
    <3>1. fs \in Form!Files /\ \A s \in Form!Slot : fs[s] \in Application
      BY <1>1, <2>2 DEF Form!Complete, Form!Files
    <3>2. /\ submit' = [at |-> "vehicle", files |-> fs] /\ pressed' = fs
          /\ image' = [image EXCEPT !["vehicle"].uploading = TRUE] /\ formError' = None
          /\ UNCHANGED <<formDeleted, formProfile, formStatus, formApplicant, stored, filed, roles, fields,
                         reading, view>>
      BY <1>9, <2>2 DEF Form!Press, Form!service
    <3> HIDE DEF fs
    <3>3. image' \in [Form!Slot -> [file : Application \cup {None}, uploading : BOOLEAN]]
      BY <1>1, <3>2
    <3>4. Form!TypeOK'
      BY <1>1, <3>1, <3>2, <3>3 DEF Form!TypeOK
    <3> QED
      BY <1>2, <3>1, <3>2, <3>4 DEF FormIInv, SubmissionSound, Form!FiledIsStored, Form!Filed
  <2> QED
    BY <2>1, <2>2
<1>10. CASE \E s \in Form!Slot : Form!Upload(s)
  <2>1. PICK s \in Form!Slot : Form!Upload(s)
    BY <1>10
  <2>2. /\ submit.at = s /\ submit.files = pressed /\ pressed[s] \in Application
        /\ stored' = stored \cup {pressed[s]}
        /\ submit' = [submit EXCEPT !.at = IF s = "vehicle" THEN "license" ELSE "create"]
        /\ image' = [image EXCEPT ![s].uploading = FALSE, !["license"].uploading = s = "vehicle"]
        /\ UNCHANGED <<formDeleted, formProfile, formStatus, formApplicant, filed, roles, fields, reading,
                       formError, view, pressed>>
    BY <1>2, <2>1 DEF Form!Upload, SubmissionSound, Form!service
  <2>3. image' \in [Form!Slot -> [file : Application \cup {None}, uploading : BOOLEAN]]
    <3> DEFINE one == [image EXCEPT ![s].uploading = FALSE]
    <3>1. one \in [Form!Slot -> [file : Application \cup {None}, uploading : BOOLEAN]]
      BY <1>1
    <3>2. image' = [one EXCEPT !["license"].uploading = s = "vehicle"]
      BY <2>2
    <3> HIDE DEF one
    <3>3. "license" \in Form!Slot /\ (s = "vehicle") \in BOOLEAN
      OBVIOUS
    <3> QED
      BY <3>1, <3>2, <3>3
  <2>4. /\ submit'.at = IF s = "vehicle" THEN "license" ELSE "create"
        /\ submit'.files = pressed
        /\ submit' \in [at : {"idle", "vehicle", "license", "create", "insert", "created"}, files : Form!Files]
    BY <1>1, <2>2
  <2>5. Form!TypeOK'
    BY <1>1, <2>2, <2>3, <2>4 DEF Form!TypeOK
  <2> QED
    BY <1>2, <2>2, <2>4, <2>5 DEF FormIInv, SubmissionSound, Form!FiledIsStored, Form!Filed
<1>11. CASE Form!CreateReads \/ Form!Created \/ Form!Fails
  <2>1. UNCHANGED <<formDeleted, formProfile, formStatus, formApplicant, stored, filed, roles, fields, image,
                    reading, pressed>>
    BY <1>11 DEF Form!CreateReads, Form!Created, Form!Fails, Form!service
  <2>2. /\ submit' \in [at : {"idle", "vehicle", "license", "create", "insert", "created"}, files : Form!Files]
        /\ submit'.at = "idle" \/ (submit.at = "create" /\ submit'.at = "insert" /\ submit'.files = submit.files)
        /\ formError' \in {None, "missing", "failed"} /\ view' \in {"form", "success", "home"}
    BY <1>1, <1>3, <1>11 DEF Form!CreateReads, Form!Created, Form!Fails
  <2>3. Form!TypeOK'
    BY <1>1, <2>1, <2>2 DEF Form!TypeOK
  <2> QED
    BY <1>2, <2>1, <2>2, <2>3 DEF FormIInv, SubmissionSound, Form!FiledIsStored, Form!Filed
<1>12. CASE \E a \in {"application"} : Form!CreateInserts(a)
  <2>1. PICK a \in {"application"} : Form!CreateInserts(a)
    BY <1>12
  <2>2. /\ submit.at = "insert" /\ submit.files = pressed
        /\ formStatus' = [formStatus EXCEPT ![a] = "pending"]
        /\ filed' = [filed EXCEPT ![a] = pressed]
        /\ submit' = [submit EXCEPT !.at = "created"]
        /\ UNCHANGED <<formProfile, stored, roles, fields, image, reading, formError, view, pressed>>
    BY <1>2, <2>1 DEF Form!CreateInserts, Form!Service!Create, SubmissionSound
  <2>3. /\ submit'.at = "created" /\ submit'.files = pressed
        /\ submit' \in [at : {"idle", "vehicle", "license", "create", "insert", "created"}, files : Form!Files]
        /\ filed' \in [{"application"} -> Form!Files] /\ filed'[a] = pressed
        /\ formStatus' \in [{"application"} -> {"absent", "pending", "accepted", "rejected"}]
    BY <1>1, <2>2
  <2>4. Form!TypeOK'
    BY <1>1, <2>2, <2>3 DEF Form!TypeOK
  <2>5. SubmissionSound' /\ \A s \in Form!Slot : pressed[s] \in stored
    BY <1>2, <2>2, <2>3 DEF SubmissionSound
  <2>6. Form!FiledIsStored'
    BY <2>2, <2>3, <2>5 DEF Form!FiledIsStored, Form!Filed
  <2> QED
    BY <2>3, <2>4, <2>5, <2>6 DEF FormIInv
<1> QED
  BY <1>5, <1>6, <1>7, <1>8, <1>9, <1>10, <1>11, <1>12 DEF Form!Next

\* A step of another part keeps it.
LEMMA FormStutter ==
  ASSUME FormIInv, UNCHANGED formVars
  PROVE  FormIInv'
BY DEF formVars, FormIInv, SubmissionSound, Form!TypeOK, Form!FiledIsStored, Form!Filed

-----------------------------------------------------------------------------
(* The pages that decide on applications (ApplicationDesk.tla), for any    *)
(* applications, pages that are used, reasons and clicks at a time.        *)

Desks(Applied, viewed, Open, Typed, Call) ==
  INSTANCE ApplicationDesk WITH User <- {"user"}, Application <- Applied

DeskTable == {"pending", "approved"}
DeskEntry == {"pending", "approved", "details", "view"}
DeskStatus == {"absent", "pending", "accepted", "rejected", "withdrawn"}
DeskReason == {"", "short", "padded", "long"}
Decided == {"accepted", "rejected", "withdrawn"}

\* "Nothing" is no application, and no list or status of them; a page of one application is
\* used only if there is one.
DesksAssumed(A, v, O, Ty) ==
  /\ NoApplication \notin A /\ None # "pending" /\ NoData \notin DeskStatus \cup SUBSET A
  /\ O \subseteq DeskEntry /\ Ty \subseteq DeskReason
  /\ O \cap {"details", "view"} # {} => v \in A

\* user-service: an application that exists has an applicant.
AppliedSound(A) ==
  /\ status \in [A -> DeskStatus] /\ remark \in [A -> DeskReason]
  /\ profile \in [{"user"} -> A \cup {NoApplication}]
  /\ applicant \in [A -> {"user", NoUser}]
  /\ \A a \in A : status[a] # "absent" => applicant[a] = "user"

\* The dialogs are opened over a table that was loaded.
ScreenSound(A) ==
  /\ page \in DeskEntry \ {"view"} /\ error \subseteq DeskEntry /\ tried \subseteq DeskTable
  /\ {toApprove, toDeny} \subseteq A \cup {NoApplication} /\ denyReason \in DeskReason
  /\ (toApprove # NoApplication \/ toDeny # NoApplication) => page = "pending" /\ cache["pending"].data # NoData

DeskValues(A, e) == IF e \in DeskTable THEN SUBSET A ELSE DeskStatus

QueriesTyped(A) ==
  /\ DOMAIN cache = DeskEntry /\ cache = [e \in DeskEntry |-> cache[e]]
  /\ \A e \in DeskEntry : /\ cache[e] \in Cache!Entries(DeskValues(A, e))
                          /\ cache[e].fetch = "answered" => cache[e].answer # NoData

\* What a page shows as decided is, and so is what is on its way to it.
PagesSound(v, O) ==
  \A e \in O \cap {"details", "view"} :
    /\ cache[e].fetch = "answered" /\ cache[e].answer \in Decided => status[v] = cache[e].answer
    /\ cache[e].data \in Decided =>
         /\ status[v] = cache[e].data
         /\ cache[e].fetch = "answered" => cache[e].answer = cache[e].data

\* What the table has reported is gone from what is on its way to it, and from what it
\* shows after the latest fetch.
GoneIn(S, q, failing) ==
  \A t \in S : t[3] = "pending" =>
    /\ q.data # NoData
    /\ q.fetch = "answered" => t[2] \notin q.answer
    /\ q.fetch = "idle" /\ "pending" \notin failing => t[2] \notin q.data
TableGone == GoneIn(told, cache["pending"], error)

\* The decision op on a has been taken and stands.
TakenIn(statuses, profiles, applicants, op, a) ==
  /\ statuses[a] = IF op = "approve" THEN "accepted" ELSE "rejected"
  /\ op = "approve" => applicants[a] = "user" /\ profiles["user"] = a
Taken(op, a) == TakenIn(status, profile, applicant, op, a)

DeskCalls(A) ==
  [at : {"idle", "sent", "answered", "lost"}, from : {None, "pending", "left", "view"},
   op : {None, "approve", "deny"}, app : A \cup {NoApplication}, reason : DeskReason,
   ok : BOOLEAN, found : DeskStatus]

NoDeskCall == [at |-> "idle", from |-> None, op |-> None, app |-> NoApplication,
               reason |-> "", ok |-> FALSE, found |-> "absent"]

DeskCallSound(A, k) ==
  /\ k.at = "idle" => k = NoDeskCall
  /\ k.at # "idle" => /\ k.app \in A /\ k.op \in {"approve", "deny"} /\ k.from \in {"pending", "left", "view"}
                      /\ k.from = "pending" => page = "pending" /\ cache["pending"].data # NoData
                      /\ k.at \in {"sent", "lost"} => ~k.ok
                      /\ k.ok => Taken(k.op, k.app)

DeskCallsSound(A, C) ==
  call \in [C -> DeskCalls(A)] /\ \A c \in C : DeskCallSound(A, call[c])

DecisionsSound(A) ==
  \A t \in told : /\ t \in {"approve", "deny"} \X A \X {"pending", "left", "view"}
                  /\ Taken(t[1], t[2])

DeskIInv(A, v, O, Ty, C) ==
  /\ page \in O /\ AppliedSound(A) /\ ScreenSound(A) /\ QueriesTyped(A) /\ PagesSound(v, O)
  /\ TableGone /\ DeskCallsSound(A, C) /\ DecisionsSound(A)

\* What a step does to the applications, and to what pages have shown as decided.
AppliedGoesOn(A) ==
  /\ \A a \in A : /\ status[a] \in Decided => status'[a] = status[a]
                  /\ status[a] # "absent" => status'[a] # "absent" /\ applicant'[a] = applicant[a]
  /\ profile["user"] # NoApplication => profile'["user"] = profile["user"]

DecidedStays ==
  \A e \in {"details", "view"} : cache[e].data \in Decided => cache'[e].data = cache[e].data

\* The pages that decide on applications start with the invariant.
LEMMA InitDesk ==
  ASSUME NEW A, NEW v, NEW O, NEW Ty, NEW C, DesksAssumed(A, v, O, Ty), Desks(A, v, O, Ty, C)!Init
  PROVE  DeskIInv(A, v, O, Ty, C)
<1>1. /\ status = [a \in A |-> "absent"] /\ profile = [u \in {"user"} |-> NoApplication]
      /\ applicant = [a \in A |-> NoUser] /\ remark = [a \in A |-> ""]
      /\ page \in {"pending", "approved", "details"} \cap O /\ cache = [e \in DeskEntry |-> Cache!Fresh] /\ error = {}
      /\ toApprove = NoApplication /\ toDeny = NoApplication /\ denyReason = ""
      /\ call = [c \in C |-> NoDeskCall] /\ told = {} /\ tried = {}
  BY DEF Desks!Init, Desks!Service!Init, Desks!Page, Desks!Table, Desks!Entry, Desks!Fresh, Cache!Fresh,
         Desks!Idle, NoDeskCall, DeskEntry
<1>2. AppliedSound(A)
  BY <1>1 DEF AppliedSound, DeskStatus, DeskReason
<1>3. ScreenSound(A)
  BY <1>1 DEF ScreenSound, DeskReason, DeskEntry
<1>4. QueriesTyped(A)
  BY <1>1 DEF QueriesTyped, Cache!Entries, Cache!Fresh
<1>5. PagesSound(v, O)
  <2>1. \A e \in DeskEntry : cache[e].data = NoData /\ cache[e].fetch = "idle"
    BY <1>1 DEF Cache!Fresh
  <2> QED
    BY <2>1 DEF PagesSound, DesksAssumed, Decided, DeskStatus, DeskEntry
<1>6. NoDeskCall \in DeskCalls(A) /\ NoDeskCall.at = "idle"
  BY DEF NoDeskCall, DeskCalls, DeskReason, DeskStatus
<1>7. DeskCallsSound(A, C)
  BY <1>1, <1>6 DEF DeskCallsSound, DeskCallSound
<1> QED
  BY <1>1, <1>2, <1>3, <1>4, <1>5, <1>7 DEF DeskIInv, TableGone, GoneIn, DecisionsSound

\* An entry that is fetched anew, answered, filled or fails, or stays.
EntryGoes(v, e, old, q) ==
  \/ q = old /\ error' = error
  \/ q.fetch = "sent" /\ q.data = old.data /\ error' = error
  \/ /\ q.fetch = "answered" /\ q.data = old.data /\ error' = error
     /\ e \in {"details", "view"} => q.answer = status[v]
     /\ e = "pending" => \A a \in q.answer : status[a] = "pending"
  \/ old.fetch = "answered" /\ q.fetch = "idle" /\ q.data = old.answer /\ error' = error \ {e}
  \/ q.fetch = "idle" /\ q.data = old.data /\ error' = error \cup {e}

\* An entry that goes on, and shows nothing that was not so when the service answered,
\* keeps what is known of all entries.
LEMMA DeskEntryGoes ==
  ASSUME NEW A, NEW v, NEW O, NEW Ty, NEW C, DesksAssumed(A, v, O, Ty), DeskIInv(A, v, O, Ty, C),
         NEW e \in DeskEntry, NEW q \in Cache!Entries(DeskValues(A, e)),
         q.fetch = "answered" => q.answer # NoData, e \in {"details", "view"} /\ q # cache[e] => e \in O,
         cache' = [cache EXCEPT ![e] = q], EntryGoes(v, e, cache[e], q), UNCHANGED status
  PROVE  /\ QueriesTyped(A)' /\ PagesSound(v, O)' /\ GoneIn(told, cache'["pending"], error') /\ DecidedStays
         /\ cache["pending"].data # NoData => cache'["pending"].data # NoData
         /\ error' \subseteq DeskEntry
<1> DEFINE old == cache[e]
<1>1. /\ DOMAIN cache = DeskEntry /\ old \in Cache!Entries(DeskValues(A, e))
      /\ old.fetch = "answered" => old.answer # NoData
      /\ \A x \in DeskEntry : /\ cache[x] \in Cache!Entries(DeskValues(A, x))
                              /\ cache[x].fetch = "answered" => cache[x].answer # NoData
      /\ error \subseteq DeskEntry
  BY DEF DeskIInv, QueriesTyped, ScreenSound
<1>0. EntryGoes(v, e, old, q)
  OBVIOUS
<1>2. cache'[e] = q /\ DOMAIN cache' = DeskEntry /\ \A x \in DeskEntry \ {e} : cache'[x] = cache[x]
  BY <1>1
<1>3. QueriesTyped(A)'
  BY <1>1, <1>2 DEF QueriesTyped
<1>4. old.data # NoData => q.data # NoData
  BY <1>1 DEF EntryGoes
<1>6. ASSUME e \in {"details", "view"} \cap O
      PROVE  /\ q.fetch = "answered" /\ q.answer \in Decided => status[v] = q.answer
             /\ q.data \in Decided => status[v] = q.data
             /\ q.data \in Decided => (q.fetch = "answered" => q.answer = q.data)
  <2>1. /\ old.fetch = "answered" /\ old.answer \in Decided => status[v] = old.answer
        /\ old.data \in Decided => status[v] = old.data
        /\ old.data \in Decided => (old.fetch = "answered" => old.answer = old.data)
    BY <1>6 DEF DeskIInv, PagesSound
  <2> HIDE DEF old
  <2> QED
    BY <1>0, <1>6, <2>1 DEF EntryGoes
<1>7. PagesSound(v, O)'
  <2> SUFFICES ASSUME NEW x \in O \cap {"details", "view"}
               PROVE  /\ cache'[x].fetch = "answered" /\ cache'[x].answer \in Decided => status'[v] = cache'[x].answer
                      /\ cache'[x].data \in Decided => status'[v] = cache'[x].data
                      /\ cache'[x].data \in Decided => (cache'[x].fetch = "answered" => cache'[x].answer = cache'[x].data)
    BY DEF PagesSound
  <2>1. CASE x = e
    BY <1>2, <1>6, <2>1
  <2>2. CASE x # e
    <3>1. x \in DeskEntry
      BY DEF DeskEntry
    <3>2. cache'[x] = cache[x]
      BY <1>2, <2>2, <3>1
    <3> QED
      BY <3>2 DEF DeskIInv, PagesSound
  <2> QED
    BY <2>1, <2>2
<1>8. GoneIn(told, cache'["pending"], error')
  <2>1. "pending" \in DeskEntry
    BY DEF DeskEntry
  <2>2. CASE e # "pending"
    <3>1. cache'["pending"] = cache["pending"] /\ ("pending" \in error' <=> "pending" \in error)
      BY <1>2, <2>1, <2>2 DEF EntryGoes
    <3> QED
      BY <3>1 DEF DeskIInv, TableGone, GoneIn
  <2>3. CASE e = "pending"
    <3> SUFFICES ASSUME NEW t \in told, t[3] = "pending"
                 PROVE  /\ q.data # NoData
                        /\ q.fetch = "answered" => t[2] \notin q.answer
                        /\ q.fetch = "idle" /\ "pending" \notin error' => t[2] \notin q.data
      BY <1>2, <2>1, <2>3 DEF GoneIn
    <3>1. /\ old.data # NoData
          /\ old.fetch = "answered" => t[2] \notin old.answer
          /\ old.fetch = "idle" /\ "pending" \notin error => t[2] \notin old.data
      BY <2>3 DEF DeskIInv, TableGone, GoneIn
    <3>2. status[t[2]] # "pending"
      BY DEF DeskIInv, DecisionsSound, Taken, TakenIn
    <3> HIDE DEF old
    <3> QED
      BY <1>0, <1>4, <2>3, <3>1, <3>2 DEF EntryGoes
  <2> QED
    BY <2>2, <2>3
<1>9. DecidedStays
  <2> SUFFICES ASSUME NEW x \in {"details", "view"}, cache[x].data \in Decided
               PROVE  cache'[x].data = cache[x].data
    BY DEF DecidedStays
  <2>1. x \in DeskEntry
    BY DEF DeskEntry
  <2>2. CASE x = e
    <3>1. q = old \/ (old.fetch = "answered" => old.answer = old.data)
      BY <2>2 DEF DeskIInv, PagesSound
    <3>2. q.data = old.data
      BY <1>0, <3>1 DEF EntryGoes
    <3> QED
      BY <1>2, <2>1, <2>2, <3>2
  <2>3. CASE x # e
    BY <1>2, <2>1, <2>3
  <2> QED
    BY <2>2, <2>3
<1>10. error' \subseteq DeskEntry
  BY <1>1 DEF EntryGoes
<1>11. cache["pending"].data # NoData => cache'["pending"].data # NoData
  <2>1. "pending" \in DeskEntry
    BY DEF DeskEntry
  <2> QED
    BY <1>2, <1>4, <2>1
<1> QED
  BY <1>3, <1>7, <1>8, <1>9, <1>10, <1>11

\* A step of the service decides nothing twice, and takes no profile away.
LEMMA AppliedStep ==
  ASSUME NEW A, NEW v, NEW O, NEW Ty, NEW C, DesksAssumed(A, v, O, Ty), AppliedSound(A),
         remark' \in [A -> DeskReason],
         \/ Desks(A, v, O, Ty, C)!Service!Delete("user")
         \/ \E a \in A :
              \/ Desks(A, v, O, Ty, C)!Service!Create("user", a) \/ Desks(A, v, O, Ty, C)!Service!Withdraw(a)
              \/ Desks(A, v, O, Ty, C)!Service!Accept(a) \/ Desks(A, v, O, Ty, C)!Service!Deny(a)
  PROVE  AppliedSound(A)' /\ AppliedGoesOn(A)
<1>1. /\ status \in [A -> DeskStatus] /\ profile \in [{"user"} -> A \cup {NoApplication}]
      /\ applicant \in [A -> {"user", NoUser}]
      /\ \A a \in A : status[a] # "absent" => applicant[a] = "user"
  BY DEF AppliedSound
<1>2. CASE Desks(A, v, O, Ty, C)!Service!Delete("user")
  BY <1>1, <1>2 DEF Desks!Service!Delete, AppliedSound, AppliedGoesOn
<1>3. CASE \E a \in A : Desks(A, v, O, Ty, C)!Service!Create("user", a)
  <2>1. PICK a \in A : Desks(A, v, O, Ty, C)!Service!Create("user", a)
    BY <1>3
  <2>2. /\ status[a] = "absent" /\ status' = [status EXCEPT ![a] = "pending"]
        /\ applicant' = [applicant EXCEPT ![a] = "user"] /\ profile' = profile
    BY <2>1 DEF Desks!Service!Create
  <2>3. status' \in [A -> DeskStatus] /\ applicant' \in [A -> {"user", NoUser}]
    BY <1>1, <2>2 DEF DeskStatus
  <2> QED
    BY <1>1, <2>2, <2>3 DEF AppliedSound, AppliedGoesOn, Decided
<1>4. CASE \E a \in A : \/ Desks(A, v, O, Ty, C)!Service!Withdraw(a) \/ Desks(A, v, O, Ty, C)!Service!Accept(a)
                        \/ Desks(A, v, O, Ty, C)!Service!Deny(a)
  <2>1. PICK a \in A : \/ Desks(A, v, O, Ty, C)!Service!Withdraw(a) \/ Desks(A, v, O, Ty, C)!Service!Accept(a)
                       \/ Desks(A, v, O, Ty, C)!Service!Deny(a)
    BY <1>4
  <2>2. PICK as \in {"withdrawn", "accepted", "rejected"} : Desks(A, v, O, Ty, C)!Service!Closes(a, as)
    BY <2>1 DEF Desks!Service!Withdraw, Desks!Service!Accept, Desks!Service!Deny
  <2>3. status[a] = "pending" /\ status' = [status EXCEPT ![a] = as] /\ applicant' = applicant
    BY <2>2 DEF Desks!Service!Closes
  <2>4. \/ profile' = profile
        \/ profile["user"] = NoApplication /\ profile' = [profile EXCEPT !["user"] = a]
    BY <1>1, <2>1, <2>3 DEF Desks!Service!Withdraw, Desks!Service!Accept, Desks!Service!Deny, Desks!Service!CanAccept
  <2>5. status' \in [A -> DeskStatus] /\ profile' \in [{"user"} -> A \cup {NoApplication}]
    BY <1>1, <2>3, <2>4 DEF DeskStatus
  <2> QED
    BY <1>1, <2>3, <2>4, <2>5 DEF AppliedSound, AppliedGoesOn, Decided
<1> QED
  BY <1>2, <1>3, <1>4

\* What has been decided stands.
LEMMA TakenStays ==
  ASSUME NEW A, NoApplication \notin A, AppliedGoesOn(A), NEW a \in A, NEW op \in {"approve", "deny"}, Taken(op, a)
  PROVE  Taken(op, a)'
<1>1. /\ status[a] = IF op = "approve" THEN "accepted" ELSE "rejected"
      /\ op = "approve" => applicant[a] = "user" /\ profile["user"] = a
  BY DEF Taken, TakenIn
<1>2. status'[a] = status[a] /\ applicant'[a] = applicant[a]
  BY <1>1 DEF AppliedGoesOn, Decided
<1>3. op = "approve" => profile'["user"] = profile["user"]
  BY <1>1 DEF AppliedGoesOn
<1> QED
  BY <1>1, <1>2, <1>3 DEF Taken, TakenIn

\* The service changes under the pages.
LEMMA DeskServiceGoes ==
  ASSUME NEW A, NEW v, NEW O, NEW Ty, NEW C, DesksAssumed(A, v, O, Ty), DeskIInv(A, v, O, Ty, C),
         AppliedSound(A)', AppliedGoesOn(A), UNCHANGED <<page, cache, error, toApprove, toDeny, denyReason, told, tried>>
  PROVE  /\ ScreenSound(A)' /\ QueriesTyped(A)' /\ PagesSound(v, O)' /\ TableGone' /\ DecisionsSound(A)' /\ DecidedStays
<1>1. ScreenSound(A)' /\ QueriesTyped(A)' /\ TableGone' /\ DecidedStays
  BY DEF DeskIInv, ScreenSound, QueriesTyped, TableGone, GoneIn, DecidedStays
<1>2. PagesSound(v, O)'
  <2>1. O \cap {"details", "view"} # {} /\ status[v] \in Decided => status'[v] = status[v]
    BY DEF DesksAssumed, AppliedGoesOn
  <2>2. PagesSound(v, O)
    BY DEF DeskIInv
  <2> QED
    BY <2>1, <2>2 DEF PagesSound
<1>3. DecisionsSound(A)'
  <2> SUFFICES ASSUME NEW t \in told
               PROVE  /\ t \in {"approve", "deny"} \X A \X {"pending", "left", "view"}
                      /\ Taken(t[1], t[2])'
    BY DEF DecisionsSound
  <2>1. t \in {"approve", "deny"} \X A \X {"pending", "left", "view"} /\ Taken(t[1], t[2])
    BY DEF DeskIInv, DecisionsSound
  <2>2. t[1] \in {"approve", "deny"} /\ t[2] \in A
    BY <2>1
  <2>3. NoApplication \notin A
    BY DEF DesksAssumed
  <2>4. ASSUME NEW op \in {"approve", "deny"}, NEW a \in A, Taken(op, a)
        PROVE  Taken(op, a)'
    BY <2>3, <2>4, TakenStays
  <2> QED
    BY <2>1, <2>2, <2>4 DEF Taken
<1> QED
  BY <1>1, <1>2, <1>3

\* Applicants and other administrators: what was decided stays decided.
LEMMA DeskElsewhereStep ==
  ASSUME NEW A, NEW v, NEW O, NEW Ty, NEW C, DesksAssumed(A, v, O, Ty), DeskIInv(A, v, O, Ty, C),
         \/ Desks(A, v, O, Ty, C)!Elsewhere
         \/ \E a \in A : Desks(A, v, O, Ty, C)!DenyElsewhere(a)
  PROVE  DeskIInv(A, v, O, Ty, C)' /\ DecidedStays
<1>1. AppliedSound(A) /\ DeskCallsSound(A, C) /\ NoApplication \notin A
  BY DEF DeskIInv, DesksAssumed
<1>2. UNCHANGED <<page, cache, error, toApprove, toDeny, denyReason, call, told, tried>>
  BY DEF Desks!Elsewhere, Desks!DenyElsewhere, Desks!dialogs
<1>3. remark' \in [A -> DeskReason]
  BY <1>1 DEF Desks!Elsewhere, Desks!DenyElsewhere, AppliedSound, DeskReason
<1>4. \/ Desks(A, v, O, Ty, C)!Service!Delete("user")
      \/ \E a \in A :
              \/ Desks(A, v, O, Ty, C)!Service!Create("user", a) \/ Desks(A, v, O, Ty, C)!Service!Withdraw(a)
              \/ Desks(A, v, O, Ty, C)!Service!Accept(a) \/ Desks(A, v, O, Ty, C)!Service!Deny(a)
  BY DEF Desks!Elsewhere, Desks!DenyElsewhere
<1>5. AppliedSound(A)' /\ AppliedGoesOn(A)
  BY <1>1, <1>3, <1>4, AppliedStep
<1>6. DeskCallsSound(A, C)'
  <2> SUFFICES ASSUME NEW c \in C PROVE DeskCallSound(A, call[c])'
    BY <1>1, <1>2 DEF DeskCallsSound
  <2>1. DeskCallSound(A, call[c])
    BY <1>1 DEF DeskCallsSound
  <2>2. ASSUME NEW op \in {"approve", "deny"}, NEW a \in A, Taken(op, a)
        PROVE  Taken(op, a)'
    BY <1>1, <1>5, <2>2, TakenStays
  <2> QED
    BY <1>2, <2>1, <2>2 DEF DeskCallSound, Taken
<1>7. /\ ScreenSound(A)' /\ QueriesTyped(A)' /\ PagesSound(v, O)' /\ TableGone' /\ DecisionsSound(A)' /\ DecidedStays
  BY <1>2, <1>5, DeskServiceGoes
<1> QED
  BY <1>2, <1>5, <1>6, <1>7 DEF DeskIInv

\* Steps that change only calls.
LEMMA DeskCallStep ==
  ASSUME NEW A, NEW v, NEW O, NEW Ty, NEW C, DeskIInv(A, v, O, Ty, C), DeskCallsSound(A, C)',
         UNCHANGED <<deleted, profile, status, applicant, remark, page, cache, error, toApprove, toDeny, denyReason,
                     told, tried>>
  PROVE  DeskIInv(A, v, O, Ty, C)' /\ DecidedStays
<1>1. /\ AppliedSound(A) /\ ScreenSound(A) /\ QueriesTyped(A) /\ PagesSound(v, O) /\ TableGone /\ DecisionsSound(A)
  BY DEF DeskIInv
<1>2. AppliedSound(A)' /\ ScreenSound(A)' /\ QueriesTyped(A)' /\ TableGone' /\ DecidedStays
  BY <1>1 DEF AppliedSound, ScreenSound, QueriesTyped, TableGone, GoneIn, DecidedStays
<1>3. PagesSound(v, O)' /\ DecisionsSound(A)'
  BY <1>1 DEF PagesSound, DecisionsSound, Taken
<1> QED
  BY <1>2, <1>3 DEF DeskIInv

\* A call c moves to state k.
LEMMA DeskCallMoves ==
  ASSUME NEW A, NEW C, NEW c \in C, DeskCallsSound(A, C), NEW k \in DeskCalls(A),
         call' = [call EXCEPT ![c] = k], DeskCallSound(A, k)', UNCHANGED <<status, profile, applicant, page, cache>>
  PROVE  DeskCallsSound(A, C)'
<1>1. call' \in [C -> DeskCalls(A)] /\ call'[c] = k /\ \A d \in C \ {c} : call'[d] = call[d]
  BY DEF DeskCallsSound
<1>2. \A d \in C \ {c} : DeskCallSound(A, call[d])'
  BY DEF DeskCallsSound, DeskCallSound, Taken
<1> QED
  BY <1>1, <1>2 DEF DeskCallsSound, DeskCallSound

\* A decision is sent.
LEMMA DeskSendStep ==
  ASSUME NEW A, NEW v, NEW O, NEW Ty, NEW C, DesksAssumed(A, v, O, Ty), DeskIInv(A, v, O, Ty, C), NEW c \in C,
         \/ Desks(A, v, O, Ty, C)!ConfirmApprove(c) \/ Desks(A, v, O, Ty, C)!ConfirmDeny(c)
         \/ \E op \in {"approve", "deny"} : Desks(A, v, O, Ty, C)!ClickView(c, op)
  PROVE  DeskIInv(A, v, O, Ty, C)' /\ DecidedStays
<1>1. PICK from \in {"pending", "view"}, op \in {"approve", "deny"}, a \in A, reason \in DeskReason :
        /\ Desks(A, v, O, Ty, C)!Send(c, from, op, a, reason)
        /\ from = "pending" => page = "pending" /\ cache["pending"].data # NoData
  <2>1. /\ {toApprove, toDeny} \subseteq A \cup {NoApplication} /\ denyReason \in DeskReason
        /\ (toApprove # NoApplication \/ toDeny # NoApplication) => page = "pending" /\ cache["pending"].data # NoData
    BY DEF DeskIInv, ScreenSound
  <2>2. CASE Desks(A, v, O, Ty, C)!ConfirmApprove(c)
    <3>1. toApprove \in A /\ page = "pending" /\ cache["pending"].data # NoData
      BY <2>1, <2>2 DEF Desks!ConfirmApprove
    <3> QED
      BY <2>2, <3>1 DEF Desks!ConfirmApprove, DeskReason
  <2>3. CASE Desks(A, v, O, Ty, C)!ConfirmDeny(c)
    <3>1. toDeny \in A /\ page = "pending" /\ cache["pending"].data # NoData /\ denyReason \in DeskReason
      BY <2>1, <2>3 DEF Desks!ConfirmDeny
    <3> QED
      BY <2>3, <3>1 DEF Desks!ConfirmDeny
  <2>4. CASE \E op \in {"approve", "deny"} : Desks(A, v, O, Ty, C)!ClickView(c, op)
    <3>1. v \in A
      BY <2>4 DEF DesksAssumed, Desks!ClickView
    <3> QED
      BY <2>4, <3>1 DEF Desks!ClickView, DeskReason
  <2> QED
    BY <2>2, <2>3, <2>4
<1> DEFINE k == [NoDeskCall EXCEPT !.at = "sent", !.from = from, !.op = op, !.app = a, !.reason = reason]
<1>2. /\ call' = [call EXCEPT ![c] = k]
      /\ UNCHANGED <<deleted, profile, status, applicant, remark, page, cache, error, toApprove, toDeny, denyReason,
                     told, tried>>
  BY <1>1 DEF Desks!Send, Desks!Idle, NoDeskCall, Desks!service, Desks!dialogs
<1>3. /\ k \in DeskCalls(A) /\ k.at = "sent" /\ k.app = a /\ k.op = op /\ k.from = from /\ k.ok = FALSE
  BY DEF NoDeskCall, DeskCalls, DeskStatus, DeskReason
<1> HIDE DEF k
<1>4. DeskCallSound(A, k)'
  BY <1>1, <1>2, <1>3 DEF DeskCallSound
<1>5. DeskCallsSound(A, C)
  BY DEF DeskIInv
<1>6. DeskCallsSound(A, C)'
  BY <1>2, <1>3, <1>4, <1>5, DeskCallMoves
<1> QED
  BY <1>2, <1>6, DeskCallStep

\* A call is lost.
LEMMA DeskFailStep ==
  ASSUME NEW A, NEW v, NEW O, NEW Ty, NEW C, DesksAssumed(A, v, O, Ty), DeskIInv(A, v, O, Ty, C), NEW c \in C,
         Desks(A, v, O, Ty, C)!CallFails(c)
  PROVE  DeskIInv(A, v, O, Ty, C)' /\ DecidedStays
<1>1. PICK old \in DeskCalls(A) : old = call[c] /\ DeskCallSound(A, old) /\ DeskCallsSound(A, C)
  BY DEF DeskIInv, DeskCallsSound
<1> DEFINE k == [old EXCEPT !.at = "lost", !.ok = FALSE]
<1>2. /\ old.at \in {"sent", "answered"} /\ call' = [call EXCEPT ![c] = k]
      /\ UNCHANGED <<deleted, profile, status, applicant, remark, page, cache, error, toApprove, toDeny, denyReason,
                     told, tried>>
  BY <1>1 DEF Desks!CallFails, Desks!service, Desks!dialogs, DeskCallsSound
<1>3. /\ k \in DeskCalls(A) /\ k.at = "lost" /\ k.app = old.app /\ k.op = old.op /\ k.from = old.from /\ k.ok = FALSE
  BY <1>1 DEF DeskCalls
<1> HIDE DEF k
<1>4. DeskCallSound(A, k)'
  BY <1>1, <1>2, <1>3 DEF DeskCallSound
<1>6. DeskCallsSound(A, C)'
  BY <1>1, <1>2, <1>3, <1>4, DeskCallMoves
<1> QED
  BY <1>2, <1>6, DeskCallStep

\* The service answers a decision: it takes it, or finds that it cannot be taken.
LEMMA DeskAnswerStep ==
  ASSUME NEW A, NEW v, NEW O, NEW Ty, NEW C, DesksAssumed(A, v, O, Ty), DeskIInv(A, v, O, Ty, C), NEW c \in C,
         Desks(A, v, O, Ty, C)!Answer(c)
  PROVE  DeskIInv(A, v, O, Ty, C)' /\ DecidedStays
<1>1. PICK old \in DeskCalls(A) : old = call[c] /\ DeskCallSound(A, old) /\ DeskCallsSound(A, C)
  BY DEF DeskIInv, DeskCallsSound
<1>2. PICK ok \in BOOLEAN : ok = Desks(A, v, O, Ty, C)!Applies(old)
  BY DEF Desks!Applies, Desks!Service!CanAccept
<1>3. old.at = "sent" /\ old.app \in A /\ old.op \in {"approve", "deny"} /\ old.from \in {"pending", "left", "view"}
  BY <1>1 DEF Desks!Answer, DeskCallSound
<1>4. AppliedSound(A) /\ status[old.app] \in DeskStatus /\ old.reason \in DeskReason /\ NoApplication \notin A
  BY <1>1, <1>3 DEF DeskIInv, AppliedSound, DeskCalls, DesksAssumed
<1> DEFINE k == [old EXCEPT !.at = "answered", !.ok = ok, !.found = status[old.app]]
<1>5. /\ call' = [call EXCEPT ![c] = k]
      /\ UNCHANGED <<page, cache, error, toApprove, toDeny, denyReason, told, tried>>
      /\ ok => Desks(A, v, O, Ty, C)!Decide(old)
      /\ ~ok => UNCHANGED <<deleted, profile, status, applicant, remark>>
  <2>1. ok = (Desks(A, v, O, Ty, C)!Applies(call[c])) /\ old = call[c] /\ call \in [C -> DeskCalls(A)]
    BY <1>1, <1>2 DEF DeskCallsSound
  <2> QED
    BY <2>1 DEF Desks!Answer, Desks!service, Desks!dialogs
<1>6. PICK new \in DeskCalls(A) :
        /\ new = k /\ new.at = "answered" /\ new.app = old.app /\ new.op = old.op /\ new.from = old.from
        /\ new.ok = ok
  <2>1. k \in DeskCalls(A) /\ k.at = "answered" /\ k.app = old.app /\ k.op = old.op /\ k.from = old.from /\ k.ok = ok
    BY <1>4 DEF DeskCalls
  <2> HIDE DEF k
  <2> QED
    BY <2>1
<1> HIDE DEF k
\* What the service has stored.
<1>7. ok => /\ status[old.app] = "pending"
            /\ status' = [status EXCEPT ![old.app] = IF old.op = "approve" THEN "accepted" ELSE "rejected"]
            /\ applicant' = applicant /\ deleted' = deleted /\ remark' = [remark EXCEPT ![old.app] = old.reason]
            /\ old.op = "approve" => /\ profile[applicant[old.app]] = NoApplication
                                     /\ profile' = [profile EXCEPT ![applicant[old.app]] = old.app]
            /\ old.op = "deny" => profile' = profile
  BY <1>2, <1>3, <1>5 DEF Desks!Decide, Desks!Applies, Desks!Service!CanAccept
<1>8. AppliedSound(A)' /\ AppliedGoesOn(A)
  <2>1. CASE ~ok
    BY <1>4, <1>5, <2>1 DEF AppliedSound, AppliedGoesOn
  <2>2. CASE ok
    <3>1. applicant[old.app] = "user" /\ status[old.app] = "pending"
      BY <1>3, <1>4, <1>7, <2>2 DEF AppliedSound
    <3>2. /\ status' \in [A -> DeskStatus] /\ remark' \in [A -> DeskReason] /\ applicant' = applicant
          /\ profile' \in [{"user"} -> A \cup {NoApplication}]
          /\ profile["user"] # NoApplication => profile' = profile
          /\ \A a \in A \ {old.app} : status'[a] = status[a]
          /\ status'[old.app] # "absent"
      BY <1>3, <1>4, <1>7, <2>2, <3>1 DEF AppliedSound, DeskStatus
    <3> QED
      BY <1>3, <1>4, <3>1, <3>2 DEF AppliedSound, AppliedGoesOn, Decided
  <2> QED
    BY <2>1, <2>2
<1>9. ok => Taken(old.op, old.app)'
  <2> SUFFICES ASSUME ok PROVE Taken(old.op, old.app)'
    OBVIOUS
  <2>1. applicant[old.app] = "user" /\ status \in [A -> DeskStatus] /\ profile \in [{"user"} -> A \cup {NoApplication}]
    BY <1>3, <1>4, <1>7 DEF AppliedSound
  <2> QED
    BY <1>3, <1>7, <2>1 DEF Taken, TakenIn
<1>10. DeskCallsSound(A, C)'
  <2>1. call' \in [C -> DeskCalls(A)] /\ call'[c] = new /\ \A d \in C \ {c} : call'[d] = call[d]
    BY <1>1, <1>5, <1>6 DEF DeskCallsSound
  <2>2. ASSUME NEW op \in {"approve", "deny"}, NEW a \in A, Taken(op, a)
        PROVE  Taken(op, a)'
    BY <1>4, <1>8, <2>2, TakenStays
  <2>3. \A d \in C \ {c} : DeskCallSound(A, call[d])'
    <3> SUFFICES ASSUME NEW d \in C \ {c} PROVE DeskCallSound(A, call[d])'
      OBVIOUS
    <3>1. DeskCallSound(A, call[d]) /\ call'[d] = call[d]
      BY <1>1, <2>1 DEF DeskCallsSound
    <3> QED
      BY <1>5, <2>2, <3>1 DEF DeskCallSound, Taken
  <2>4. DeskCallSound(A, new)'
    BY <1>1, <1>3, <1>5, <1>6, <1>9 DEF DeskCallSound
  <2> QED
    BY <2>1, <2>3, <2>4 DEF DeskCallsSound, DeskCallSound
<1>11. /\ ScreenSound(A)' /\ QueriesTyped(A)' /\ PagesSound(v, O)' /\ TableGone' /\ DecisionsSound(A)' /\ DecidedStays
  BY <1>5, <1>8, DeskServiceGoes
<1> QED
  BY <1>5, <1>8, <1>10, <1>11 DEF DeskIInv

\* Steps that change an entry and leave the service, the dialogs and the calls alone.
LEMMA DeskQueryStep ==
  ASSUME NEW A, NEW v, NEW O, NEW Ty, NEW C, DesksAssumed(A, v, O, Ty), DeskIInv(A, v, O, Ty, C),
         \/ \E e \in O : \/ Desks(A, v, O, Ty, C)!Fetch(e) \/ Desks(A, v, O, Ty, C)!Get(e)
                         \/ Desks(A, v, O, Ty, C)!Show(e) \/ Desks(A, v, O, Ty, C)!FetchFails(e)
         \/ Desks(A, v, O, Ty, C)!TryAgain
  PROVE  DeskIInv(A, v, O, Ty, C)' /\ DecidedStays
<1>1. /\ page \in O /\ AppliedSound(A) /\ ScreenSound(A) /\ QueriesTyped(A) /\ PagesSound(v, O) /\ TableGone
      /\ DeskCallsSound(A, C) /\ DecisionsSound(A)
  BY DEF DeskIInv
<1>2. /\ UNCHANGED <<deleted, profile, status, applicant, remark, page, toApprove, toDeny, denyReason, call, told>>
      /\ tried' \subseteq DeskTable
  BY <1>1 DEF Desks!Fetch, Desks!Get, Desks!Show, Desks!FetchFails, Desks!TryAgain, Desks!service, Desks!dialogs,
     ScreenSound, Desks!Table, DeskTable
<1>3. PICK e \in DeskEntry : \E q \in Cache!Entries(DeskValues(A, e)) :
        /\ q.fetch = "answered" => q.answer # NoData
        /\ e \in {"details", "view"} => e \in O
        /\ cache' = [cache EXCEPT ![e] = q] /\ EntryGoes(v, e, cache[e], q)
  <2>1. CASE \E e \in O : Desks(A, v, O, Ty, C)!Fetch(e)
    <3>1. PICK e \in O : Desks(A, v, O, Ty, C)!Fetch(e)
      BY <2>1
    <3>2. e \in DeskEntry /\ cache[e] \in Cache!Entries(DeskValues(A, e)) /\ cache[e].fetch = "idle"
      BY <1>1, <3>1 DEF DesksAssumed, QueriesTyped, Desks!Fetch
    <3>3. cache' = [cache EXCEPT ![e] = Cache!Fetching(cache[e])] /\ error' = error
      BY <1>1, <3>1, <3>2 DEF Desks!Fetch, Desks!Fetching, Cache!Fetching, QueriesTyped
    <3>4. /\ Cache!Fetching(cache[e]) \in Cache!Entries(DeskValues(A, e))
          /\ Cache!Fetching(cache[e]).fetch = "sent" /\ Cache!Fetching(cache[e]).data = cache[e].data
      BY <3>2, EntryFetching
    <3> QED
      BY <3>2, <3>3, <3>4 DEF EntryGoes
  <2>2. CASE \E e \in O : Desks(A, v, O, Ty, C)!Get(e)
    <3>1. PICK e \in O : Desks(A, v, O, Ty, C)!Get(e)
      BY <2>2
    <3>2. e \in DeskEntry /\ cache[e] \in Cache!Entries(DeskValues(A, e))
      BY <1>1 DEF DesksAssumed, QueriesTyped
    <3>3. PICK s : s = CASE e = "pending" -> Desks(A, v, O, Ty, C)!InStatus("pending")
                         [] e = "approved" -> Desks(A, v, O, Ty, C)!InStatus("accepted")
                         [] OTHER -> status[v]
      OBVIOUS
    <3>4. /\ s \in DeskValues(A, e) /\ s # NoData
          /\ e \in {"details", "view"} => s = status[v]
          /\ e = "pending" => \A a \in s : status[a] = "pending"
      <4>1. e \in {"details", "view"} => v \in A
        BY DEF DesksAssumed
      <4>2. status \in [A -> DeskStatus] /\ NoData \notin DeskStatus \cup SUBSET A
        BY <1>1 DEF AppliedSound, DesksAssumed
      <4> QED
        BY <3>2, <3>3, <4>1, <4>2 DEF DeskEntry, DeskValues, DeskTable, Desks!InStatus
    <3>5. cache' = [cache EXCEPT ![e] = Cache!Served(cache[e], s)] /\ error' = error
      BY <1>1, <3>1, <3>2, <3>3 DEF Desks!Get, Desks!Served, Cache!Served, QueriesTyped
    <3>6. /\ Cache!Served(cache[e], s) \in Cache!Entries(DeskValues(A, e))
          /\ Cache!Served(cache[e], s).fetch = "answered" /\ Cache!Served(cache[e], s).data = cache[e].data
          /\ Cache!Served(cache[e], s).answer = s
      BY <3>2, <3>4, EntryServed
    <3> QED
      BY <3>2, <3>4, <3>5, <3>6 DEF EntryGoes
  <2>3. CASE \E e \in O : Desks(A, v, O, Ty, C)!Show(e)
    <3>1. PICK e \in O : Desks(A, v, O, Ty, C)!Show(e)
      BY <2>3
    <3>2. e \in DeskEntry /\ cache[e] \in Cache!Entries(DeskValues(A, e)) /\ cache[e].fetch = "answered"
      BY <1>1, <3>1 DEF DesksAssumed, QueriesTyped, Desks!Show
    <3>3. cache' = [cache EXCEPT ![e] = Cache!Filled(cache[e])] /\ error' = error \ {e}
      BY <1>1, <3>1, <3>2 DEF Desks!Show, Desks!Filled, Cache!Filled, QueriesTyped
    <3>4. /\ Cache!Filled(cache[e]) \in Cache!Entries(DeskValues(A, e))
          /\ Cache!Filled(cache[e]).fetch = "idle" /\ Cache!Filled(cache[e]).data = cache[e].answer
      BY <3>2, EntryFilled
    <3> QED
      BY <3>2, <3>3, <3>4 DEF EntryGoes
  <2>4. CASE \E e \in O : Desks(A, v, O, Ty, C)!FetchFails(e)
    <3>1. PICK e \in O : Desks(A, v, O, Ty, C)!FetchFails(e)
      BY <2>4
    <3>2. e \in DeskEntry /\ cache[e] \in Cache!Entries(DeskValues(A, e))
      BY <1>1, <3>1 DEF DesksAssumed, QueriesTyped
    <3>3. cache' = [cache EXCEPT ![e] = Cache!Failed(cache[e])] /\ error' = error \cup {e}
      BY <1>1, <3>1, <3>2 DEF Desks!FetchFails, Desks!Failed, Cache!Failed, QueriesTyped
    <3>4. /\ Cache!Failed(cache[e]) \in Cache!Entries(DeskValues(A, e))
          /\ Cache!Failed(cache[e]).fetch = "idle" /\ Cache!Failed(cache[e]).data = cache[e].data
      BY <3>2, EntryFailed
    <3> QED
      BY <3>2, <3>3, <3>4 DEF EntryGoes
  <2>5. CASE Desks(A, v, O, Ty, C)!TryAgain
    <3>1. "pending" \in DeskEntry /\ cache["pending"] \in Cache!Entries(DeskValues(A, "pending"))
      BY <1>1 DEF DeskEntry, QueriesTyped
    <3>2. cache' = [cache EXCEPT !["pending"] = Cache!Fetching(cache["pending"])] /\ error' = error
      BY <1>1, <2>5, <3>1 DEF Desks!TryAgain, Desks!Fetching, Cache!Fetching, QueriesTyped
    <3>3. /\ Cache!Fetching(cache["pending"]) \in Cache!Entries(DeskValues(A, "pending"))
          /\ Cache!Fetching(cache["pending"]).data = cache["pending"].data
          /\ \/ Cache!Fetching(cache["pending"]).fetch = "sent"
             \/ Cache!Fetching(cache["pending"]) = cache["pending"]
      <4>1. cache["pending"].fetch = "idle" \/ cache["pending"].fetch # "idle"
        OBVIOUS
      <4> QED
        BY <3>1, <4>1, EntryFetching
    <3>4. cache["pending"].fetch = "answered" => cache["pending"].answer # NoData
      BY <1>1, <3>1 DEF QueriesTyped
    <3> QED
      BY <3>1, <3>2, <3>3, <3>4 DEF EntryGoes
  <2> QED
    BY <2>1, <2>2, <2>3, <2>4, <2>5
<1>7. PICK q \in Cache!Entries(DeskValues(A, e)) :
        /\ q.fetch = "answered" => q.answer # NoData
        /\ e \in {"details", "view"} => e \in O
        /\ cache' = [cache EXCEPT ![e] = q] /\ EntryGoes(v, e, cache[e], q)
  BY <1>3
<1>8. /\ QueriesTyped(A)' /\ PagesSound(v, O)' /\ GoneIn(told, cache'["pending"], error') /\ DecidedStays
      /\ cache["pending"].data # NoData => cache'["pending"].data # NoData
      /\ error' \subseteq DeskEntry
  BY <1>2, <1>7, DeskEntryGoes
<1>4. /\ QueriesTyped(A)' /\ PagesSound(v, O)' /\ TableGone' /\ DecidedStays
      /\ cache["pending"].data # NoData => cache'["pending"].data # NoData
      /\ error' \subseteq DeskEntry
  BY <1>2, <1>8 DEF TableGone
<1>5. AppliedSound(A)' /\ ScreenSound(A)' /\ DecisionsSound(A)'
  BY <1>1, <1>2, <1>4 DEF AppliedSound, ScreenSound, DecisionsSound, Taken
<1>6. DeskCallsSound(A, C)'
  BY <1>1, <1>2, <1>4 DEF DeskCallsSound, DeskCallSound, Taken
<1> QED
  BY <1>2, <1>4, <1>5, <1>6 DEF DeskIInv

\* The dialogs are opened, filled and canceled.
LEMMA DeskDialogStep ==
  ASSUME NEW A, NEW v, NEW O, NEW Ty, NEW C, DesksAssumed(A, v, O, Ty), DeskIInv(A, v, O, Ty, C),
         \/ Desks(A, v, O, Ty, C)!Cancel
         \/ \E a \in A : Desks(A, v, O, Ty, C)!HandleApproveClick(a) \/ Desks(A, v, O, Ty, C)!HandleDenyClick(a)
         \/ \E r \in Ty : Desks(A, v, O, Ty, C)!TypeReason(r)
  PROVE  DeskIInv(A, v, O, Ty, C)' /\ DecidedStays
<1>1. /\ page \in O /\ AppliedSound(A) /\ ScreenSound(A) /\ QueriesTyped(A) /\ PagesSound(v, O) /\ TableGone
      /\ DeskCallsSound(A, C) /\ DecisionsSound(A)
  BY DEF DeskIInv
<1>2. /\ UNCHANGED <<deleted, profile, status, applicant, remark, page, cache, error, call, told, tried>>
  BY DEF Desks!Cancel, Desks!HandleApproveClick, Desks!HandleDenyClick, Desks!TypeReason, Desks!service
<1>3. ScreenSound(A)'
  <2>1. CASE Desks(A, v, O, Ty, C)!Cancel
    BY <1>1, <1>2, <2>1 DEF Desks!Cancel, ScreenSound
  <2>2. CASE \E a \in A : Desks(A, v, O, Ty, C)!HandleApproveClick(a) \/ Desks(A, v, O, Ty, C)!HandleDenyClick(a)
    <3>1. PICK a \in A : Desks(A, v, O, Ty, C)!HandleApproveClick(a) \/ Desks(A, v, O, Ty, C)!HandleDenyClick(a)
      BY <2>2
    <3>2. page = "pending" /\ cache["pending"].data # NoData
      BY <3>1 DEF Desks!HandleApproveClick, Desks!HandleDenyClick, Desks!Rows
    <3>3. toApprove' \in A \cup {NoApplication} /\ toDeny' \in A \cup {NoApplication} /\ denyReason' = denyReason
      BY <1>1, <3>1 DEF Desks!HandleApproveClick, Desks!HandleDenyClick, ScreenSound
    <3> QED
      BY <1>1, <1>2, <3>2, <3>3 DEF ScreenSound
  <2>3. CASE \E r \in Ty : Desks(A, v, O, Ty, C)!TypeReason(r)
    BY <1>1, <1>2, <2>3 DEF Desks!TypeReason, ScreenSound, DesksAssumed
  <2> QED
    BY <2>1, <2>2, <2>3
<1>4. AppliedSound(A)' /\ QueriesTyped(A)' /\ TableGone' /\ DecidedStays
  BY <1>1, <1>2 DEF AppliedSound, QueriesTyped, TableGone, GoneIn, DecidedStays
<1>5. PagesSound(v, O)' /\ DecisionsSound(A)'
  BY <1>1, <1>2 DEF PagesSound, DecisionsSound, Taken
<1>6. DeskCallsSound(A, C)'
  BY <1>1, <1>2 DEF DeskCallsSound, DeskCallSound, Taken
<1> QED
  BY <1>2, <1>3, <1>4, <1>5, <1>6 DEF DeskIInv

\* Another page is opened: the dialogs are gone, calls go on without their table.
LEMMA DeskNavigateStep ==
  ASSUME NEW A, NEW v, NEW O, NEW Ty, NEW C, DesksAssumed(A, v, O, Ty), DeskIInv(A, v, O, Ty, C),
         NEW p \in {"pending", "approved", "details"} \cap O, Desks(A, v, O, Ty, C)!Navigate(p)
  PROVE  DeskIInv(A, v, O, Ty, C)' /\ DecidedStays
<1>1. /\ page \in O /\ AppliedSound(A) /\ ScreenSound(A) /\ QueriesTyped(A) /\ PagesSound(v, O) /\ TableGone
      /\ DeskCallsSound(A, C) /\ DecisionsSound(A)
  BY DEF DeskIInv
<1>2. /\ UNCHANGED <<deleted, profile, status, applicant, remark, error, told, tried>>
      /\ page' = p /\ toApprove' = NoApplication /\ toDeny' = NoApplication /\ denyReason' = ""
      /\ call' = [c \in C |-> IF call[c].from = "pending" THEN [call[c] EXCEPT !.from = "left"] ELSE call[c]]
  BY DEF Desks!Navigate, Desks!service
<1>3. p \in DeskEntry /\ p \in O /\ cache[p] \in Cache!Entries(DeskValues(A, p))
      /\ (cache[p].fetch = "answered" => cache[p].answer # NoData)
  BY <1>1 DEF DeskEntry, QueriesTyped
<1>4. cache' = [cache EXCEPT ![p] = Cache!Fetching(cache[p])]
  BY <1>1, <1>3 DEF Desks!Navigate, Desks!Fetching, Cache!Fetching, QueriesTyped
<1>5. PICK q \in Cache!Entries(DeskValues(A, p)) :
        /\ q.fetch = "answered" => q.answer # NoData
        /\ cache' = [cache EXCEPT ![p] = q] /\ EntryGoes(v, p, cache[p], q)
  <2>1. /\ Cache!Fetching(cache[p]) \in Cache!Entries(DeskValues(A, p))
        /\ Cache!Fetching(cache[p]).data = cache[p].data
        /\ \/ Cache!Fetching(cache[p]).fetch = "sent"
           \/ Cache!Fetching(cache[p]) = cache[p]
    <3>1. cache[p].fetch = "idle" \/ cache[p].fetch # "idle"
      OBVIOUS
    <3> QED
      BY <1>3, <3>1, EntryFetching
  <2> QED
    BY <1>2, <1>3, <1>4, <2>1 DEF EntryGoes
<1>9. /\ QueriesTyped(A)' /\ PagesSound(v, O)' /\ GoneIn(told, cache'["pending"], error') /\ DecidedStays
      /\ cache["pending"].data # NoData => cache'["pending"].data # NoData
  BY <1>2, <1>3, <1>5, DeskEntryGoes
<1>6. /\ QueriesTyped(A)' /\ PagesSound(v, O)' /\ TableGone' /\ DecidedStays
      /\ cache["pending"].data # NoData => cache'["pending"].data # NoData
  BY <1>2, <1>9 DEF TableGone
<1>7. AppliedSound(A)' /\ ScreenSound(A)' /\ DecisionsSound(A)'
  BY <1>1, <1>2, <1>3 DEF AppliedSound, ScreenSound, DecisionsSound, Taken, DeskReason, DeskEntry
<1>8. DeskCallsSound(A, C)'
  <2> SUFFICES ASSUME NEW c \in C
               PROVE  call'[c] \in DeskCalls(A) /\ DeskCallSound(A, call[c])'
    BY <1>2 DEF DeskCallsSound
  <2>1. PICK old \in DeskCalls(A) : old = call[c] /\ DeskCallSound(A, old)
    BY <1>1 DEF DeskCallsSound
  <2>2. CASE old.from # "pending"
    <3>1. call'[c] = old
      BY <1>2, <2>1, <2>2
    <3> QED
      BY <1>2, <2>1, <2>2, <3>1 DEF DeskCallSound, Taken
  <2>3. CASE old.from = "pending"
    <3>1. call'[c] = [old EXCEPT !.from = "left"]
      BY <1>2, <2>1, <2>3
    <3>2. PICK new \in DeskCalls(A) : /\ new = call'[c] /\ new.from = "left" /\ new.at = old.at /\ new.app = old.app
                                      /\ new.op = old.op /\ new.ok = old.ok
      BY <3>1 DEF DeskCalls
    <3>3. old.at # "idle"
      <4>1. NoDeskCall.from = None /\ None # "pending"
        BY DEF NoDeskCall, DesksAssumed
      <4> QED
        BY <2>1, <2>3, <4>1 DEF DeskCallSound
    <3>4. DeskCallSound(A, new)'
      BY <1>2, <2>1, <3>2, <3>3 DEF DeskCallSound, Taken
    <3> QED
      BY <3>2, <3>4 DEF DeskCallSound
  <2> QED
    BY <2>2, <2>3
<1> QED
  BY <1>2, <1>6, <1>7, <1>8 DEF DeskIInv

\* A call settles: a decision that was taken is reported, and its page asks again.
LEMMA DeskSettleStep ==
  ASSUME NEW A, NEW v, NEW O, NEW Ty, NEW C, DesksAssumed(A, v, O, Ty), DeskIInv(A, v, O, Ty, C), NEW c \in C,
         Desks(A, v, O, Ty, C)!Settle(c)
  PROVE  DeskIInv(A, v, O, Ty, C)' /\ DecidedStays
<1>1. /\ page \in O /\ AppliedSound(A) /\ ScreenSound(A) /\ QueriesTyped(A) /\ PagesSound(v, O) /\ TableGone
      /\ DeskCallsSound(A, C) /\ DecisionsSound(A)
  BY DEF DeskIInv
<1>2. PICK k \in DeskCalls(A) : k = call[c] /\ DeskCallSound(A, k)
  BY <1>1 DEF DeskCallsSound
<1>3. /\ k.at \in {"answered", "lost"} /\ k.app \in A /\ k.op \in {"approve", "deny"}
      /\ k.from \in {"pending", "left", "view"}
      /\ k.from = "pending" => page = "pending" /\ cache["pending"].data # NoData
      /\ k.ok => k.at = "answered" /\ Taken(k.op, k.app)
  BY <1>2 DEF Desks!Settle, DeskCallSound
<1>4. /\ UNCHANGED <<deleted, profile, status, applicant, remark, page, error, tried>>
      /\ call' = [call EXCEPT ![c] = NoDeskCall]
  BY <1>2 DEF Desks!Settle, Desks!service, Desks!Idle, NoDeskCall
<1>6. /\ toApprove' \in {toApprove, NoApplication} /\ toDeny' \in {toDeny, NoApplication}
      /\ denyReason' \in {denyReason, ""}
  BY DEF Desks!Settle, Desks!dialogs
<1>7. NoDeskCall \in DeskCalls(A) /\ NoDeskCall.at = "idle"
  BY DEF NoDeskCall, DeskCalls, DeskReason, DeskStatus
<1>8. ASSUME cache["pending"].data # NoData => cache'["pending"].data # NoData
      PROVE  AppliedSound(A)' /\ ScreenSound(A)' /\ DeskCallsSound(A, C)'
  <2>1. AppliedSound(A)'
    BY <1>1, <1>4 DEF AppliedSound
  <2>2. ScreenSound(A)'
    BY <1>1, <1>4, <1>6, <1>8 DEF ScreenSound, DeskReason
  <2>3. call' \in [C -> DeskCalls(A)]
    BY <1>1, <1>4, <1>7 DEF DeskCallsSound
  <2>4. \A d \in C : DeskCallSound(A, call[d])'
    <3> SUFFICES ASSUME NEW d \in C PROVE DeskCallSound(A, call[d])'
      OBVIOUS
    <3>1. CASE d = c
      <4>1. call'[d] = NoDeskCall
        BY <1>1, <1>4, <3>1 DEF DeskCallsSound
      <4> QED
        BY <1>7, <4>1 DEF DeskCallSound
    <3>2. CASE d # c
      <4>1. call'[d] = call[d] /\ DeskCallSound(A, call[d])
        BY <1>1, <1>4, <3>2 DEF DeskCallsSound
      <4> QED
        BY <1>4, <1>8, <4>1 DEF DeskCallSound, Taken
    <3> QED
      BY <3>1, <3>2
  <2> QED
    BY <2>1, <2>2, <2>3, <2>4 DEF DeskCallsSound
<1>9. CASE ~k.ok
  <2>1. told' = told /\ cache' = cache
    BY <1>2, <1>9 DEF Desks!Settle
  <2>2. QueriesTyped(A)' /\ TableGone' /\ DecidedStays
    BY <1>1, <1>4, <2>1 DEF QueriesTyped, TableGone, GoneIn, DecidedStays
  <2>3. PagesSound(v, O)' /\ DecisionsSound(A)'
    BY <1>1, <1>4, <2>1 DEF PagesSound, DecisionsSound, Taken
  <2> QED
    BY <1>1, <1>4, <1>8, <2>1, <2>2, <2>3 DEF DeskIInv
<1>10. CASE k.ok
  <2> DEFINE e == IF k.from = "view" THEN "view" ELSE "pending"
             t0 == <<k.op, k.app, k.from>>
  <2>1. /\ told' = told \cup {t0}
        /\ cache' = [x \in DeskEntry |-> IF x \in {e} \cap O /\ (x = page \/ x = "view") THEN Cache!Invalidated(cache[x])
                                         ELSE cache[x]]
    BY <1>2, <1>10 DEF Desks!Settle, Desks!Refreshed, Desks!Mounted, Desks!Entry, Desks!Page, Desks!Table, DeskEntry,
       Desks!Invalidated, Cache!Invalidated
  <2>2. /\ e \in DeskEntry /\ cache[e] \in Cache!Entries(DeskValues(A, e))
        /\ (cache[e].fetch = "answered" => cache[e].answer # NoData)
        /\ cache = [x \in DeskEntry |-> cache[x]]
    BY <1>1 DEF DeskEntry, QueriesTyped
  <2>3. /\ Cache!Invalidated(cache[e]) \in Cache!Entries(DeskValues(A, e))
        /\ Cache!Invalidated(cache[e]).data = cache[e].data
        /\ Cache!Invalidated(cache[e]) = cache[e] \/ Cache!Invalidated(cache[e]).fetch = "sent"
        /\ cache[e].data # NoData => Cache!Invalidated(cache[e]).fetch = "sent"
    BY <2>2, EntryInvalidated
  <2>4. PICK q \in Cache!Entries(DeskValues(A, e)) :
          /\ q = cache'[e] /\ cache' = [cache EXCEPT ![e] = q] /\ (q = cache[e] \/ q.fetch = "sent")
          /\ q.data = cache[e].data /\ (e \in {"details", "view"} /\ q # cache[e] => e \in O)
          /\ k.from = "pending" => q.fetch = "sent" /\ q.data # NoData
    <3>1. CASE e \in O /\ (e = page \/ e = "view")
      <4>1. cache' = [cache EXCEPT ![e] = Cache!Invalidated(cache[e])] /\ cache'[e] = Cache!Invalidated(cache[e])
        BY <2>1, <2>2, <3>1
      <4> HIDE DEF e
      <4>2. k.from = "pending" => e = "pending"
        BY DEF e
      <4> QED
        BY <1>3, <2>2, <2>3, <3>1, <4>1, <4>2
    <3>2. CASE ~(e \in O /\ (e = page \/ e = "view"))
      <4>1. cache' = cache
        BY <2>1, <2>2, <3>2
      <4>2. k.from # "pending"
        BY <1>1, <1>2, <1>3, <3>2
      <4> QED
        BY <2>2, <4>1, <4>2
    <3> QED
      BY <3>1, <3>2
  <2>5. EntryGoes(v, e, cache[e], q)
    BY <1>4, <2>4 DEF EntryGoes
  <2> HIDE DEF e
  <2>6. q.fetch = "answered" => q.answer # NoData
    BY <2>2, <2>4
  <2>7. /\ QueriesTyped(A)' /\ PagesSound(v, O)' /\ GoneIn(told, cache'["pending"], error') /\ DecidedStays
        /\ cache["pending"].data # NoData => cache'["pending"].data # NoData
    <3>1. /\ e \in DeskEntry /\ q \in Cache!Entries(DeskValues(A, e)) /\ UNCHANGED status
          /\ q.fetch = "answered" => q.answer # NoData
          /\ e \in {"details", "view"} /\ q # cache[e] => e \in O
          /\ cache' = [cache EXCEPT ![e] = q] /\ EntryGoes(v, e, cache[e], q)
      BY <1>4, <2>2, <2>4, <2>5, <2>6
    <3> QED
      BY <3>1, DeskEntryGoes
  <2>8. TableGone'
    <3>1. k.from = "pending" => cache'["pending"].fetch = "sent" /\ cache'["pending"].data # NoData
      BY <2>4 DEF e
    <3>2. t0[3] = k.from
      OBVIOUS
    <3> HIDE DEF t0
    <3> QED
      BY <2>1, <2>7, <3>1, <3>2 DEF TableGone, GoneIn
  <2>9. DecisionsSound(A)'
    <3>1. t0 \in {"approve", "deny"} \X A \X {"pending", "left", "view"} /\ t0[1] = k.op /\ t0[2] = k.app
      BY <1>3
    <3> HIDE DEF t0
    <3>2. \A t \in told' : t \in {"approve", "deny"} \X A \X {"pending", "left", "view"} /\ Taken(t[1], t[2])
      BY <1>1, <1>3, <1>10, <2>1, <3>1 DEF DecisionsSound
    <3> QED
      BY <1>4, <3>2 DEF DecisionsSound, Taken
  <2> QED
    BY <1>1, <1>4, <1>8, <2>7, <2>8, <2>9 DEF DeskIInv
<1> QED
  BY <1>9, <1>10

\* Every step of the pages that decide keeps the invariant, and shows nothing as open
\* that has been shown as decided.
LEMMA DeskStep ==
  ASSUME NEW A, NEW v, NEW O, NEW Ty, NEW C, DesksAssumed(A, v, O, Ty), DeskIInv(A, v, O, Ty, C),
         Desks(A, v, O, Ty, C)!Next
  PROVE  DeskIInv(A, v, O, Ty, C)' /\ DecidedStays
<1>1. CASE \/ \E e \in O : \/ Desks(A, v, O, Ty, C)!Fetch(e) \/ Desks(A, v, O, Ty, C)!Get(e)
                           \/ Desks(A, v, O, Ty, C)!Show(e) \/ Desks(A, v, O, Ty, C)!FetchFails(e)
           \/ Desks(A, v, O, Ty, C)!TryAgain
  BY <1>1, DeskQueryStep
<1>2. CASE \E p \in {"pending", "approved", "details"} \cap O : Desks(A, v, O, Ty, C)!Navigate(p)
  BY <1>2, DeskNavigateStep
<1>3. CASE \/ Desks(A, v, O, Ty, C)!Cancel
           \/ \E a \in A : Desks(A, v, O, Ty, C)!HandleApproveClick(a) \/ Desks(A, v, O, Ty, C)!HandleDenyClick(a)
           \/ \E r \in Ty : Desks(A, v, O, Ty, C)!TypeReason(r)
  BY <1>3, DeskDialogStep
<1>4. CASE \/ Desks(A, v, O, Ty, C)!Elsewhere
           \/ \E a \in A : Desks(A, v, O, Ty, C)!DenyElsewhere(a)
  BY <1>4, DeskElsewhereStep
<1>5. ASSUME NEW c \in C,
             \/ Desks(A, v, O, Ty, C)!ConfirmApprove(c) \/ Desks(A, v, O, Ty, C)!ConfirmDeny(c)
             \/ \E op \in {"approve", "deny"} : Desks(A, v, O, Ty, C)!ClickView(c, op)
      PROVE  DeskIInv(A, v, O, Ty, C)' /\ DecidedStays
  BY <1>5, DeskSendStep
<1>6. ASSUME NEW c \in C, Desks(A, v, O, Ty, C)!Answer(c)
      PROVE  DeskIInv(A, v, O, Ty, C)' /\ DecidedStays
  BY <1>6, DeskAnswerStep
<1>7. ASSUME NEW c \in C, Desks(A, v, O, Ty, C)!CallFails(c)
      PROVE  DeskIInv(A, v, O, Ty, C)' /\ DecidedStays
  BY <1>7, DeskFailStep
<1>8. ASSUME NEW c \in C, Desks(A, v, O, Ty, C)!Settle(c)
      PROVE  DeskIInv(A, v, O, Ty, C)' /\ DecidedStays
  BY <1>8, DeskSettleStep
<1>9. Desks(A, v, O, Ty, C)!Page \cap O = {"pending", "approved", "details"} \cap O
  BY DEF Desks!Page, Desks!Table
<1> QED
  BY <1>1, <1>2, <1>3, <1>4, <1>5, <1>6, <1>7, <1>8, <1>9 DEF Desks!Next

\* So does a step of another part.
LEMMA DeskStutter ==
  ASSUME NEW A, NEW v, NEW O, NEW Ty, NEW C, DeskIInv(A, v, O, Ty, C), UNCHANGED deskVars
  PROVE  DeskIInv(A, v, O, Ty, C)' /\ DecidedStays
<1>1. UNCHANGED <<deleted, profile, status, applicant, remark, page, cache, error, toApprove, toDeny, denyReason,
                  call, told, tried>>
  BY DEF deskVars
<1>2. DeskCallsSound(A, C)'
  BY <1>1 DEF DeskIInv, DeskCallsSound, DeskCallSound, Taken
<1> QED
  BY <1>1, <1>2, DeskCallStep

\* The invariant implies the types of the module.
LEMMA DeskTyped ==
  ASSUME NEW A, NEW v, NEW O, NEW Ty, NEW C, DeskIInv(A, v, O, Ty, C)
  PROVE  Desks(A, v, O, Ty, C)!TypeOK
<1>1. /\ AppliedSound(A) /\ ScreenSound(A) /\ QueriesTyped(A) /\ DeskCallsSound(A, C)
  BY DEF DeskIInv
<1>2. \A e \in DeskEntry : cache[e] \in Desks(A, v, O, Ty, C)!Entries(DeskValues(A, e))
  BY <1>1 DEF QueriesTyped, Cache!Entries, Desks!Entries
<1>3. NoDeskCall.at = "idle" /\ NoDeskCall = Desks(A, v, O, Ty, C)!Idle
  BY DEF NoDeskCall, Desks!Idle
<1>4. \A c \in C : /\ call[c].at \in {"idle", "sent", "answered", "lost"}
                   /\ call[c].at = "idle" <=> call[c] = Desks(A, v, O, Ty, C)!Idle
                   /\ call[c].found \in DeskStatus
  BY <1>1, <1>3 DEF DeskCallsSound, DeskCallSound, DeskCalls
<1> QED
  BY <1>1, <1>2, <1>4 DEF Desks!TypeOK, AppliedSound, ScreenSound, DeskValues, DeskTable, DeskEntry, DeskStatus, DeskReason,
     Desks!Entry, Desks!Page, Desks!Table, Desks!Status, Desks!Reason

\* The invariant implies that reported decisions stand and have left the table.
LEMMA ToldDecisions ==
  ASSUME NEW A, NEW v, NEW O, NEW Ty, NEW C, DesksAssumed(A, v, O, Ty), DeskIInv(A, v, O, Ty, C)
  PROVE  Desks(A, v, O, Ty, C)!ToldDecisionHolds /\ Desks(A, v, O, Ty, C)!DecidedLeavesTable
<1>1. \A t \in told : /\ t \in {"approve", "deny"} \X A \X {"pending", "left", "view"}
                      /\ Taken(t[1], t[2])
  BY DEF DeskIInv, DecisionsSound
<1>2. Desks(A, v, O, Ty, C)!ToldDecisionHolds
  BY <1>1 DEF Desks!ToldDecisionHolds, Desks!Outcome, Taken, TakenIn
<1>3. Desks(A, v, O, Ty, C)!DecidedLeavesTable
  BY DEF DeskIInv, TableGone, GoneIn, Desks!DecidedLeavesTable, Desks!Rows
<1> QED
  BY <1>2, <1>3

-----------------------------------------------------------------------------
(* What each page keeps by itself, for constants of any size.              *)

\* The pages about restaurants, whichever of them are used and however many restaurants
\* there are and clicks under way: types, and that reports stand.  A deletion or an approval
\* that the administrator was told of did happen (ApproveRestaurantById of restaurent.go).
THEOREM RestaurantsKeepReports ==
  ASSUME NEW CONSTANT R, NEW CONSTANT O, NEW CONSTANT C, RestaurantsAssumed(R, O)
  PROVE  Restaurants(R, O, C)!Spec => [](Restaurants(R, O, C)!TypeOK /\ Restaurants(R, O, C)!ToldHolds)
<1> DEFINE IInv == RestaurantsIInv(R, O, C)
           Good == Restaurants(R, O, C)!TypeOK /\ Restaurants(R, O, C)!ToldHolds
           Starts == Restaurants(R, O, C)!Init
           Step == Restaurants(R, O, C)!Next
<1>1. Starts => IInv
  BY InitRestaurants
<1>2. IInv /\ [Step]_restaurantVars => IInv'
  BY RestaurantStep, RestaurantStutter
<1>3. IInv => Good
  BY DEF RestaurantsIInv, ToldSound, Done, DoneIn, Restaurants!ToldHolds
<1>4. Restaurants(R, O, C)!Spec => Starts /\ [][Step]_restaurantVars
  BY DEF Restaurants!Spec, Restaurants!vars, restaurantVars
<1> HIDE DEF IInv, Good, Starts, Step
<1>5. Restaurants(R, O, C)!Spec => []Good
  BY <1>1, <1>2, <1>3, <1>4, PTL
<1> QED
  BY <1>5 DEF Good

\* One table by itself: a restaurant that was reported as deleted or approved is not offered
\* again, however its fetches, clicks and other administrators overlap.
THEOREM TablesForgetReported ==
  ASSUME NEW CONSTANT R, NEW CONSTANT O, NEW CONSTANT C, NEW CONSTANT e,
         RestaurantsAssumed(R, O), OneTable(O, e)
  PROVE  Restaurants(R, O, C)!Spec => []Restaurants(R, O, C)!ToldLeavesTable
<1> DEFINE IInv == RestaurantsIInv(R, O, C) /\ TableSound(C, e)
           Gone == Restaurants(R, O, C)!ToldLeavesTable
           Starts == Restaurants(R, O, C)!Init
           Step == Restaurants(R, O, C)!Next
<1>1. Starts => IInv
  BY InitRestaurants, InitTable
<1>2. IInv /\ [Step]_restaurantVars => IInv'
  BY RestaurantStep, RestaurantStutter, TableStep, TableStutter
<1>3. IInv => Gone
  BY ToldHasLeft
<1>4. Restaurants(R, O, C)!Spec => Starts /\ [][Step]_restaurantVars
  BY DEF Restaurants!Spec, Restaurants!vars, restaurantVars
<1> HIDE DEF IInv, Gone, Starts, Step
<1>5. Restaurants(R, O, C)!Spec => []Gone
  BY <1>1, <1>2, <1>3, <1>4, PTL
<1> QED
  BY <1>5 DEF Gone

\* The page of a menu, for any number of restaurants and presses: a press adds one item, to
\* the menu that was open when it was pressed (HandleCreateMenuItem of menuItem.go).
THEOREM MenusAreAsPressed ==
  ASSUME NEW CONSTANT R, NEW CONSTANT P, NEW CONSTANT A, NEW CONSTANT L, MenuAssumed(R, P)
  PROVE  Menu(R, P, A, L)!Spec => [](Menu(R, P, A, L)!TypeOK /\ Menu(R, P, A, L)!MenuAsPressed)
<1> DEFINE IInv == MenuIInv(R, P, A, L)
           Good == Menu(R, P, A, L)!TypeOK /\ Menu(R, P, A, L)!MenuAsPressed
           Starts == Menu(R, P, A, L)!Init
           Step == Menu(R, P, A, L)!Next
<1>1. Starts => IInv
  BY InitMenu
<1>2. IInv /\ [Step]_menuVars => IInv'
  BY MenuStep, MenuStutter
<1>3. IInv => Good
  BY MenuIsAsPressed DEF MenuIInv
<1>4. Menu(R, P, A, L)!Spec => Starts /\ [][Step]_menuVars
  BY DEF Menu!Spec, Menu!vars, menuVars
<1> HIDE DEF IInv, Good, Starts, Step
<1>5. Menu(R, P, A, L)!Spec => []Good
  BY <1>1, <1>2, <1>3, <1>4, PTL
<1> QED
  BY <1>5 DEF Good

\* The page of a menu that is not left: an item that was reported as deleted is not offered
\* again, for any number of presses at a time.
THEOREM MenusForgetReported ==
  ASSUME NEW CONSTANT R, NEW CONSTANT P, NEW CONSTANT A, MenuAssumed(R, P)
  PROVE  Menu(R, P, A, FALSE)!Spec => []Menu(R, P, A, FALSE)!ToldLeavesMenu
<1> DEFINE IInv == MenuIInv(R, P, A, FALSE) /\ MenuSound(P)
           Gone == Menu(R, P, A, FALSE)!ToldLeavesMenu
           Starts == Menu(R, P, A, FALSE)!Init
           Step == Menu(R, P, A, FALSE)!Next
<1>1. Starts => IInv
  BY InitMenu, InitMenuSound
<1>2. IInv /\ [Step]_menuVars => IInv'
  BY MenuStep, MenuStutter, MenuSoundStep, MenuSoundStutter
<1>3. IInv => Gone
  BY ToldHasLeftMenu
<1>4. Menu(R, P, A, FALSE)!Spec => Starts /\ [][Step]_menuVars
  BY DEF Menu!Spec, Menu!vars, menuVars
<1> HIDE DEF IInv, Gone, Starts, Step
<1>5. Menu(R, P, A, FALSE)!Spec => []Gone
  BY <1>1, <1>2, <1>3, <1>4, PTL
<1> QED
  BY <1>5 DEF Gone

\* The forms of owners, for any number of presses one after the other or at a time: what a
\* press registers is what the form showed, and it registers one restaurant.
THEOREM FormsRegisterAsPressed ==
  ASSUME NEW CONSTANT T, NEW CONSTANT F, NEW CONSTANT I, NEW CONSTANT P, NEW CONSTANT G,
         FormsAssumed(T, F, I, P, G)
  PROVE  Forms(T, F, I, P, G)!Spec
           => [](Forms(T, F, I, P, G)!TypeOK /\ Forms(T, F, I, P, G)!RegisteredAsPressed)
<1> DEFINE IInv == FormsIInv(T, F, I, P, G)
           Good == Forms(T, F, I, P, G)!TypeOK /\ Forms(T, F, I, P, G)!RegisteredAsPressed
           Starts == Forms(T, F, I, P, G)!Init
           Step == Forms(T, F, I, P, G)!Next
<1>1. Starts => IInv
  BY InitForms
<1>2. IInv /\ [Step]_editorVars => IInv'
  BY FormsStep, FormsStutter
<1>3. IInv => Good
  BY RegistersAsPressed DEF FormsIInv
<1>4. Forms(T, F, I, P, G)!Spec => Starts /\ [][Step]_editorVars
  BY DEF Forms!Spec, Forms!vars, editorVars
<1> HIDE DEF IInv, Good, Starts, Step
<1>5. Forms(T, F, I, P, G)!Spec => []Good
  BY <1>1, <1>2, <1>3, <1>4, PTL
<1> QED
  BY <1>5 DEF Good

\* Updates of a restaurant, for any number of presses one after the other or at a time: one
\* that was reported stays, but for those that were under way or came after it
\* (UpdateRestaurant.tsx; HandleUpdateRestaurant of restaurent.go).
THEOREM FormsUpdateAsTold ==
  ASSUME NEW CONSTANT T, NEW CONSTANT F, NEW CONSTANT I, NEW CONSTANT P, NEW CONSTANT G,
         G = FALSE, FormsAssumed(T, F, I, P, G)
  PROVE  Forms(T, F, I, P, G)!Spec => []Forms(T, F, I, P, G)!UpdateAsTold
<1> DEFINE IInv == FormsIInv(T, F, I, P, G) /\ UpdatesSound(I, P)
           Told == Forms(T, F, I, P, G)!UpdateAsTold
           Starts == Forms(T, F, I, P, G)!Init
           Step == Forms(T, F, I, P, G)!Next
<1>1. Starts => IInv
  BY InitForms, InitUpdates
<1>2. IInv /\ [Step]_editorVars => IInv'
  BY FormsStep, FormsStutter, UpdatesStep, UpdatesStutter
<1>3. IInv => Told
  BY UpdatesAsTold
<1>4. Forms(T, F, I, P, G)!Spec => Starts /\ [][Step]_editorVars
  BY DEF Forms!Spec, Forms!vars, editorVars
<1> HIDE DEF IInv, Told, Starts, Step
<1>5. Forms(T, F, I, P, G)!Spec => []Told
  BY <1>1, <1>2, <1>3, <1>4, PTL
<1> QED
  BY <1>5 DEF Told

\* The pages that decide on applications, for any number of applications and clicks under
\* way: decisions that were reported stand and have left their table, and no page shows as
\* open what it has shown as decided (AcceptApplication and DenyApplication).
THEOREM DesksKeepDecisions ==
  ASSUME NEW CONSTANT A, NEW CONSTANT v, NEW CONSTANT O, NEW CONSTANT Ty, NEW CONSTANT C,
         DesksAssumed(A, v, O, Ty)
  PROVE  Desks(A, v, O, Ty, C)!Spec
           => /\ [](/\ Desks(A, v, O, Ty, C)!TypeOK
                    /\ Desks(A, v, O, Ty, C)!ToldDecisionHolds
                    /\ Desks(A, v, O, Ty, C)!DecidedLeavesTable)
              /\ Desks(A, v, O, Ty, C)!DecidedStaysDecided
<1> DEFINE IInv == DeskIInv(A, v, O, Ty, C)
           Good == /\ Desks(A, v, O, Ty, C)!TypeOK
                   /\ Desks(A, v, O, Ty, C)!ToldDecisionHolds
                   /\ Desks(A, v, O, Ty, C)!DecidedLeavesTable
           Starts == Desks(A, v, O, Ty, C)!Init
           Step == Desks(A, v, O, Ty, C)!Next
           Stays == \A e \in Desks(A, v, O, Ty, C)!Entry \ Desks(A, v, O, Ty, C)!Table :
                      cache[e].data \in {"accepted", "rejected", "withdrawn"} => cache'[e].data = cache[e].data
<1>1. Starts => IInv
  BY InitDesk
<1>2. IInv /\ [Step]_deskVars => IInv' /\ Stays
  <2>1. IInv /\ [Step]_deskVars => IInv' /\ DecidedStays
    BY DeskStep, DeskStutter
  <2> QED
    BY <2>1 DEF DecidedStays, Decided, Desks!Entry, Desks!Page, Desks!Table
<1>3. IInv => Good
  BY DeskTyped, ToldDecisions
<1>4. Desks(A, v, O, Ty, C)!Spec => Starts /\ [][Step]_deskVars
  BY DEF Desks!Spec, Desks!vars, deskVars
<1>5. deskVars = Desks(A, v, O, Ty, C)!vars
  BY DEF Desks!vars, deskVars
<1> HIDE DEF IInv, Good, Starts, Step, Stays
<1>6. Desks(A, v, O, Ty, C)!Spec => []Good /\ [][Stays]_deskVars
  BY <1>1, <1>2, <1>3, <1>4, PTL
<1>7. Desks(A, v, O, Ty, C)!Spec => Desks(A, v, O, Ty, C)!DecidedStaysDecided
  BY <1>6 DEF Stays, Desks!DecidedStaysDecided, Desks!vars, deskVars
<1>8. Desks(A, v, O, Ty, C)!Spec => []Good
  BY <1>6, PTL
<1> QED
  BY <1>7, <1>8 DEF Good

\* Every instance of the run is the general one with the constants of that instance:
\* here the pages about restaurants.
LEMMA SameRestaurants ==
  /\ /\ AllRestaurants!Init <=> Restaurants(Application, {"all"}, Decision)!Init
     /\ AllRestaurants!Next <=> Restaurants(Application, {"all"}, Decision)!Next
     /\ AllRestaurants!TypeOK <=> Restaurants(Application, {"all"}, Decision)!TypeOK
  /\ /\ PendingRestaurants!Init <=> Restaurants(Application, {"pending"}, {"call"})!Init
     /\ PendingRestaurants!Next <=> Restaurants(Application, {"pending"}, {"call"})!Next
     /\ PendingRestaurants!TypeOK <=> Restaurants(Application, {"pending"}, {"call"})!TypeOK
  /\ /\ RestaurantDetails!Init <=> Restaurants({"place"}, {"pending", "details"}, {"call"})!Init
     /\ RestaurantDetails!Next <=> Restaurants({"place"}, {"pending", "details"}, {"call"})!Next
     /\ RestaurantDetails!TypeOK <=> Restaurants({"place"}, {"pending", "details"}, {"call"})!TypeOK
  /\ /\ RestaurantList!Init <=> Restaurants({"place"}, {"approved", "list"}, {})!Init
     /\ RestaurantList!Next <=> Restaurants({"place"}, {"approved", "list"}, {})!Next
     /\ RestaurantList!TypeOK <=> Restaurants({"place"}, {"approved", "list"}, {})!TypeOK
<1> USE DEF Restaurants!service, Restaurants!State, Restaurants!Table, Restaurants!Page,
            Restaurants!Entry, Restaurants!Idle, Restaurants!Init, Restaurants!Mounted,
            Restaurants!Asking, Restaurants!Fetch, Restaurants!Orphaned, Restaurants!SelectTab,
            Restaurants!Rows, Restaurants!ViewRestaurant, Restaurants!Stored,
            Restaurants!GetAllRestaurant, Restaurants!Get, Restaurants!Show,
            Restaurants!FetchFails, Restaurants!Waits, Restaurants!Send,
            Restaurants!HandleDeleteClick, Restaurants!CloseDialog,
            Restaurants!ConfirmDeleteAgain, Restaurants!ConfirmDelete,
            Restaurants!HandleApproveRestaurant, Restaurants!DeleteRestaurantById,
            Restaurants!Approved, Restaurants!ApproveUnchecked,
            Restaurants!ApproveRestaurantById, Restaurants!ApprovedIsRead,
            Restaurants!CallFails, Restaurants!InvalidatesApproved, Restaurants!Invalidates,
            Restaurants!Refreshed, Restaurants!Settle, Restaurants!RegisterElsewhere,
            Restaurants!ApproveElsewhere, Restaurants!DeleteElsewhere,
            Restaurants!HandleSearchChange, Restaurants!Next, Restaurants!Calls,
            Restaurants!TypeOK, Restaurants!Fresh, Restaurants!Entries, Restaurants!Fetching,
            Restaurants!Served, Restaurants!Filled, Restaurants!Failed, Restaurants!Invalidated
<1>1. /\ AllRestaurants!Init <=> Restaurants(Application, {"all"}, Decision)!Init
      /\ AllRestaurants!Next <=> Restaurants(Application, {"all"}, Decision)!Next
      /\ AllRestaurants!TypeOK <=> Restaurants(Application, {"all"}, Decision)!TypeOK
  BY DEF AllRestaurants!service, AllRestaurants!State, AllRestaurants!Table,
         AllRestaurants!Page, AllRestaurants!Entry, AllRestaurants!Idle, AllRestaurants!Init,
         AllRestaurants!Mounted, AllRestaurants!Asking, AllRestaurants!Fetch,
         AllRestaurants!Orphaned, AllRestaurants!SelectTab, AllRestaurants!Rows,
         AllRestaurants!ViewRestaurant, AllRestaurants!Stored, AllRestaurants!GetAllRestaurant,
         AllRestaurants!Get, AllRestaurants!Show, AllRestaurants!FetchFails,
         AllRestaurants!Waits, AllRestaurants!Send, AllRestaurants!HandleDeleteClick,
         AllRestaurants!CloseDialog, AllRestaurants!ConfirmDeleteAgain,
         AllRestaurants!ConfirmDelete, AllRestaurants!HandleApproveRestaurant,
         AllRestaurants!DeleteRestaurantById, AllRestaurants!Approved,
         AllRestaurants!ApproveUnchecked, AllRestaurants!ApproveRestaurantById,
         AllRestaurants!ApprovedIsRead, AllRestaurants!CallFails,
         AllRestaurants!InvalidatesApproved, AllRestaurants!Invalidates,
         AllRestaurants!Refreshed, AllRestaurants!Settle, AllRestaurants!RegisterElsewhere,
         AllRestaurants!ApproveElsewhere, AllRestaurants!DeleteElsewhere,
         AllRestaurants!HandleSearchChange, AllRestaurants!Next, AllRestaurants!Calls,
         AllRestaurants!TypeOK, AllRestaurants!Fresh, AllRestaurants!Entries,
         AllRestaurants!Fetching, AllRestaurants!Served, AllRestaurants!Filled,
         AllRestaurants!Failed, AllRestaurants!Invalidated
<1>2. /\ PendingRestaurants!Init <=> Restaurants(Application, {"pending"}, {"call"})!Init
      /\ PendingRestaurants!Next <=> Restaurants(Application, {"pending"}, {"call"})!Next
      /\ PendingRestaurants!TypeOK <=> Restaurants(Application, {"pending"}, {"call"})!TypeOK
  BY DEF PendingRestaurants!service, PendingRestaurants!State, PendingRestaurants!Table,
         PendingRestaurants!Page, PendingRestaurants!Entry, PendingRestaurants!Idle,
         PendingRestaurants!Init, PendingRestaurants!Mounted, PendingRestaurants!Asking,
         PendingRestaurants!Fetch, PendingRestaurants!Orphaned, PendingRestaurants!SelectTab,
         PendingRestaurants!Rows, PendingRestaurants!ViewRestaurant, PendingRestaurants!Stored,
         PendingRestaurants!GetAllRestaurant, PendingRestaurants!Get, PendingRestaurants!Show,
         PendingRestaurants!FetchFails, PendingRestaurants!Waits, PendingRestaurants!Send,
         PendingRestaurants!HandleDeleteClick, PendingRestaurants!CloseDialog,
         PendingRestaurants!ConfirmDeleteAgain, PendingRestaurants!ConfirmDelete,
         PendingRestaurants!HandleApproveRestaurant, PendingRestaurants!DeleteRestaurantById,
         PendingRestaurants!Approved, PendingRestaurants!ApproveUnchecked,
         PendingRestaurants!ApproveRestaurantById, PendingRestaurants!ApprovedIsRead,
         PendingRestaurants!CallFails, PendingRestaurants!InvalidatesApproved,
         PendingRestaurants!Invalidates, PendingRestaurants!Refreshed,
         PendingRestaurants!Settle, PendingRestaurants!RegisterElsewhere,
         PendingRestaurants!ApproveElsewhere, PendingRestaurants!DeleteElsewhere,
         PendingRestaurants!HandleSearchChange, PendingRestaurants!Next,
         PendingRestaurants!Calls, PendingRestaurants!TypeOK, PendingRestaurants!Fresh,
         PendingRestaurants!Entries, PendingRestaurants!Fetching, PendingRestaurants!Served,
         PendingRestaurants!Filled, PendingRestaurants!Failed, PendingRestaurants!Invalidated
<1>3. /\ RestaurantDetails!Init <=> Restaurants({"place"}, {"pending", "details"}, {"call"})!Init
      /\ RestaurantDetails!Next <=> Restaurants({"place"}, {"pending", "details"}, {"call"})!Next
      /\ RestaurantDetails!TypeOK <=> Restaurants({"place"}, {"pending", "details"}, {"call"})!TypeOK
  BY DEF RestaurantDetails!service, RestaurantDetails!State, RestaurantDetails!Table,
         RestaurantDetails!Page, RestaurantDetails!Entry, RestaurantDetails!Idle,
         RestaurantDetails!Init, RestaurantDetails!Mounted, RestaurantDetails!Asking,
         RestaurantDetails!Fetch, RestaurantDetails!Orphaned, RestaurantDetails!SelectTab,
         RestaurantDetails!Rows, RestaurantDetails!ViewRestaurant, RestaurantDetails!Stored,
         RestaurantDetails!GetAllRestaurant, RestaurantDetails!Get, RestaurantDetails!Show,
         RestaurantDetails!FetchFails, RestaurantDetails!Waits, RestaurantDetails!Send,
         RestaurantDetails!HandleDeleteClick, RestaurantDetails!CloseDialog,
         RestaurantDetails!ConfirmDeleteAgain, RestaurantDetails!ConfirmDelete,
         RestaurantDetails!HandleApproveRestaurant, RestaurantDetails!DeleteRestaurantById,
         RestaurantDetails!Approved, RestaurantDetails!ApproveUnchecked,
         RestaurantDetails!ApproveRestaurantById, RestaurantDetails!ApprovedIsRead,
         RestaurantDetails!CallFails, RestaurantDetails!InvalidatesApproved,
         RestaurantDetails!Invalidates, RestaurantDetails!Refreshed, RestaurantDetails!Settle,
         RestaurantDetails!RegisterElsewhere, RestaurantDetails!ApproveElsewhere,
         RestaurantDetails!DeleteElsewhere, RestaurantDetails!HandleSearchChange,
         RestaurantDetails!Next, RestaurantDetails!Calls, RestaurantDetails!TypeOK,
         RestaurantDetails!Fresh, RestaurantDetails!Entries, RestaurantDetails!Fetching,
         RestaurantDetails!Served, RestaurantDetails!Filled, RestaurantDetails!Failed,
         RestaurantDetails!Invalidated
<1>4. /\ RestaurantList!Init <=> Restaurants({"place"}, {"approved", "list"}, {})!Init
      /\ RestaurantList!Next <=> Restaurants({"place"}, {"approved", "list"}, {})!Next
      /\ RestaurantList!TypeOK <=> Restaurants({"place"}, {"approved", "list"}, {})!TypeOK
  BY DEF RestaurantList!service, RestaurantList!State, RestaurantList!Table,
         RestaurantList!Page, RestaurantList!Entry, RestaurantList!Idle, RestaurantList!Init,
         RestaurantList!Mounted, RestaurantList!Asking, RestaurantList!Fetch,
         RestaurantList!Orphaned, RestaurantList!SelectTab, RestaurantList!Rows,
         RestaurantList!ViewRestaurant, RestaurantList!Stored, RestaurantList!GetAllRestaurant,
         RestaurantList!Get, RestaurantList!Show, RestaurantList!FetchFails,
         RestaurantList!Waits, RestaurantList!Send, RestaurantList!HandleDeleteClick,
         RestaurantList!CloseDialog, RestaurantList!ConfirmDeleteAgain,
         RestaurantList!ConfirmDelete, RestaurantList!HandleApproveRestaurant,
         RestaurantList!DeleteRestaurantById, RestaurantList!Approved,
         RestaurantList!ApproveUnchecked, RestaurantList!ApproveRestaurantById,
         RestaurantList!ApprovedIsRead, RestaurantList!CallFails,
         RestaurantList!InvalidatesApproved, RestaurantList!Invalidates,
         RestaurantList!Refreshed, RestaurantList!Settle, RestaurantList!RegisterElsewhere,
         RestaurantList!ApproveElsewhere, RestaurantList!DeleteElsewhere,
         RestaurantList!HandleSearchChange, RestaurantList!Next, RestaurantList!Calls,
         RestaurantList!TypeOK, RestaurantList!Fresh, RestaurantList!Entries,
         RestaurantList!Fetching, RestaurantList!Served, RestaurantList!Filled,
         RestaurantList!Failed, RestaurantList!Invalidated
<1> QED
  BY <1>1, <1>2, <1>3, <1>4

\* The page of a menu.
LEMMA SameMenu ==
  /\ /\ OneMenu!Init <=> Menu({"place"}, 2, 2, FALSE)!Init
     /\ OneMenu!Next <=> Menu({"place"}, 2, 2, FALSE)!Next
     /\ OneMenu!TypeOK <=> Menu({"place"}, 2, 2, FALSE)!TypeOK
  /\ /\ TwoMenus!Init <=> Menu({"place", "other"}, 1, 1, TRUE)!Init
     /\ TwoMenus!Next <=> Menu({"place", "other"}, 1, 1, TRUE)!Next
     /\ TwoMenus!TypeOK <=> Menu({"place", "other"}, 1, 1, TRUE)!TypeOK
<1> USE DEF Menu!queries, Menu!Press, Menu!Item, Menu!NoDoc, Menu!Closed, Menu!Idle, Menu!Init,
            Menu!OpenMenu, Menu!Refetch, Menu!Leave, Menu!Sold, Menu!GetRestaurantMenuItems,
            Menu!ShowMenu, Menu!MenuFails, Menu!Rows, Menu!HandleAddMenuButton,
            Menu!HandleModifyButton, Menu!Cancel, Menu!Running, Menu!Start, Menu!OnSubmitCreate,
            Menu!OnSubmitModify, Menu!OnDelete, Menu!Moves, Menu!UploadImage,
            Menu!MenuPermissionFunc, Menu!CreateMenuItem, Menu!UpdateMenuItemById,
            Menu!DeleteMenuItemById, Menu!CallFails, Menu!InvalidateMenu, Menu!Succeed,
            Menu!Fail, Menu!DeleteElsewhere, Menu!Next, Menu!Docs, Menu!Menus, Menu!TypeOK,
            Menu!Fresh, Menu!Entries, Menu!Fetching, Menu!Served, Menu!Filled, Menu!Failed,
            Menu!Invalidated, Menu!Cardinality, Menu!IsFiniteSet
<1>1. /\ OneMenu!Init <=> Menu({"place"}, 2, 2, FALSE)!Init
      /\ OneMenu!Next <=> Menu({"place"}, 2, 2, FALSE)!Next
      /\ OneMenu!TypeOK <=> Menu({"place"}, 2, 2, FALSE)!TypeOK
  BY DEF OneMenu!queries, OneMenu!Press, OneMenu!Item, OneMenu!NoDoc, OneMenu!Closed,
         OneMenu!Idle, OneMenu!Init, OneMenu!OpenMenu, OneMenu!Refetch, OneMenu!Leave,
         OneMenu!Sold, OneMenu!GetRestaurantMenuItems, OneMenu!ShowMenu, OneMenu!MenuFails,
         OneMenu!Rows, OneMenu!HandleAddMenuButton, OneMenu!HandleModifyButton, OneMenu!Cancel,
         OneMenu!Running, OneMenu!Start, OneMenu!OnSubmitCreate, OneMenu!OnSubmitModify,
         OneMenu!OnDelete, OneMenu!Moves, OneMenu!UploadImage, OneMenu!MenuPermissionFunc,
         OneMenu!CreateMenuItem, OneMenu!UpdateMenuItemById, OneMenu!DeleteMenuItemById,
         OneMenu!CallFails, OneMenu!InvalidateMenu, OneMenu!Succeed, OneMenu!Fail,
         OneMenu!DeleteElsewhere, OneMenu!Next, OneMenu!Docs, OneMenu!Menus, OneMenu!TypeOK,
         OneMenu!Fresh, OneMenu!Entries, OneMenu!Fetching, OneMenu!Served, OneMenu!Filled,
         OneMenu!Failed, OneMenu!Invalidated, OneMenu!Cardinality, OneMenu!IsFiniteSet
<1>2. /\ TwoMenus!Init <=> Menu({"place", "other"}, 1, 1, TRUE)!Init
      /\ TwoMenus!Next <=> Menu({"place", "other"}, 1, 1, TRUE)!Next
      /\ TwoMenus!TypeOK <=> Menu({"place", "other"}, 1, 1, TRUE)!TypeOK
  BY DEF TwoMenus!queries, TwoMenus!Press, TwoMenus!Item, TwoMenus!NoDoc, TwoMenus!Closed,
         TwoMenus!Idle, TwoMenus!Init, TwoMenus!OpenMenu, TwoMenus!Refetch, TwoMenus!Leave,
         TwoMenus!Sold, TwoMenus!GetRestaurantMenuItems, TwoMenus!ShowMenu, TwoMenus!MenuFails,
         TwoMenus!Rows, TwoMenus!HandleAddMenuButton, TwoMenus!HandleModifyButton,
         TwoMenus!Cancel, TwoMenus!Running, TwoMenus!Start, TwoMenus!OnSubmitCreate,
         TwoMenus!OnSubmitModify, TwoMenus!OnDelete, TwoMenus!Moves, TwoMenus!UploadImage,
         TwoMenus!MenuPermissionFunc, TwoMenus!CreateMenuItem, TwoMenus!UpdateMenuItemById,
         TwoMenus!DeleteMenuItemById, TwoMenus!CallFails, TwoMenus!InvalidateMenu,
         TwoMenus!Succeed, TwoMenus!Fail, TwoMenus!DeleteElsewhere, TwoMenus!Next,
         TwoMenus!Docs, TwoMenus!Menus, TwoMenus!TypeOK, TwoMenus!Fresh, TwoMenus!Entries,
         TwoMenus!Fetching, TwoMenus!Served, TwoMenus!Filled, TwoMenus!Failed,
         TwoMenus!Invalidated, TwoMenus!Cardinality, TwoMenus!IsFiniteSet
<1> QED
  BY <1>1, <1>2

\* The forms of owners.
LEMMA SameForms ==
  /\ /\ Registering!Init <=> Forms({"text"}, Application, <<"logo", "cover">>, 2, TRUE)!Init
     /\ Registering!Next <=> Forms({"text"}, Application, <<"logo", "cover">>, 2, TRUE)!Next
     /\ Registering!TypeOK <=> Forms({"text"}, Application, <<"logo", "cover">>, 2, TRUE)!TypeOK
  /\ /\ Updating!Init <=> Forms({"text"}, Application, <<"logo">>, 2, FALSE)!Init
     /\ Updating!Next <=> Forms({"text"}, Application, <<"logo">>, 2, FALSE)!Next
     /\ Updating!TypeOK <=> Forms({"text"}, Application, <<"logo">>, 2, FALSE)!TypeOK
<1> USE DEF Forms!Press, Forms!Slot, Forms!NoImages, Forms!Blank, Forms!Doc, Forms!NoDoc,
            Forms!Idle, Forms!Init, Forms!Edit, Forms!EditText, Forms!ChooseImage,
            Forms!RemoveImage, Forms!Valid, Forms!Unused, Forms!Running, Forms!Start,
            Forms!OnSubmit, Forms!OnDelete, Forms!After, Forms!Upload, Forms!Merged,
            Forms!HandleCreateRestaurant, Forms!HandleUpdateRestaurant,
            Forms!HandleDeleteRestaurantById, Forms!CallFails, Forms!Succeed, Forms!Fail,
            Forms!Reset, Forms!OpenUpdate, Forms!Leave, Forms!Refetch, Forms!GetRestaurantById,
            Forms!ShowRestaurant, Forms!FetchFails, Forms!Next, Forms!Images, Forms!Fields,
            Forms!TypeOK, Forms!Fresh, Forms!Entries, Forms!Fetching, Forms!Served,
            Forms!Filled, Forms!Failed, Forms!Invalidated, Forms!Cardinality, Forms!IsFiniteSet
<1>1. /\ Registering!Init <=> Forms({"text"}, Application, <<"logo", "cover">>, 2, TRUE)!Init
      /\ Registering!Next <=> Forms({"text"}, Application, <<"logo", "cover">>, 2, TRUE)!Next
      /\ Registering!TypeOK <=> Forms({"text"}, Application, <<"logo", "cover">>, 2, TRUE)!TypeOK
  BY DEF Registering!Press, Registering!Slot, Registering!NoImages, Registering!Blank,
         Registering!Doc, Registering!NoDoc, Registering!Idle, Registering!Init,
         Registering!Edit, Registering!EditText, Registering!ChooseImage,
         Registering!RemoveImage, Registering!Valid, Registering!Unused, Registering!Running,
         Registering!Start, Registering!OnSubmit, Registering!OnDelete, Registering!After,
         Registering!Upload, Registering!Merged, Registering!HandleCreateRestaurant,
         Registering!HandleUpdateRestaurant, Registering!HandleDeleteRestaurantById,
         Registering!CallFails, Registering!Succeed, Registering!Fail, Registering!Reset,
         Registering!OpenUpdate, Registering!Leave, Registering!Refetch,
         Registering!GetRestaurantById, Registering!ShowRestaurant, Registering!FetchFails,
         Registering!Next, Registering!Images, Registering!Fields, Registering!TypeOK,
         Registering!Fresh, Registering!Entries, Registering!Fetching, Registering!Served,
         Registering!Filled, Registering!Failed, Registering!Invalidated,
         Registering!Cardinality, Registering!IsFiniteSet
<1>2. /\ Updating!Init <=> Forms({"text"}, Application, <<"logo">>, 2, FALSE)!Init
      /\ Updating!Next <=> Forms({"text"}, Application, <<"logo">>, 2, FALSE)!Next
      /\ Updating!TypeOK <=> Forms({"text"}, Application, <<"logo">>, 2, FALSE)!TypeOK
  BY DEF Updating!Press, Updating!Slot, Updating!NoImages, Updating!Blank, Updating!Doc,
         Updating!NoDoc, Updating!Idle, Updating!Init, Updating!Edit, Updating!EditText,
         Updating!ChooseImage, Updating!RemoveImage, Updating!Valid, Updating!Unused,
         Updating!Running, Updating!Start, Updating!OnSubmit, Updating!OnDelete, Updating!After,
         Updating!Upload, Updating!Merged, Updating!HandleCreateRestaurant,
         Updating!HandleUpdateRestaurant, Updating!HandleDeleteRestaurantById,
         Updating!CallFails, Updating!Succeed, Updating!Fail, Updating!Reset,
         Updating!OpenUpdate, Updating!Leave, Updating!Refetch, Updating!GetRestaurantById,
         Updating!ShowRestaurant, Updating!FetchFails, Updating!Next, Updating!Images,
         Updating!Fields, Updating!TypeOK, Updating!Fresh, Updating!Entries, Updating!Fetching,
         Updating!Served, Updating!Filled, Updating!Failed, Updating!Invalidated,
         Updating!Cardinality, Updating!IsFiniteSet
<1> QED
  BY <1>1, <1>2

\* The pages that decide on applications.
LEMMA SameDesks ==
  /\ /\ Desk!Init <=> Desks(Application, "none", {"pending"}, {"long"}, Decision)!Init
     /\ Desk!Next <=> Desks(Application, "none", {"pending"}, {"long"}, Decision)!Next
     /\ Desk!TypeOK <=> Desks(Application, "none", {"pending"}, {"long"}, Decision)!TypeOK
  /\ /\ DeskTabs!Init <=> Desks({"application"}, "application", {"pending", "details"}, {}, {"call"})!Init
     /\ DeskTabs!Next <=> Desks({"application"}, "application", {"pending", "details"}, {}, {"call"})!Next
     /\ DeskTabs!TypeOK <=> Desks({"application"}, "application", {"pending", "details"}, {}, {"call"})!TypeOK
  /\ /\ DeskPages!Init <=> Desks({"application"}, "application", {"approved", "view"}, {}, {"call"})!Init
     /\ DeskPages!Next <=> Desks({"application"}, "application", {"approved", "view"}, {}, {"call"})!Next
     /\ DeskPages!TypeOK <=> Desks({"application"}, "application", {"approved", "view"}, {}, {"call"})!TypeOK
<1> USE DEF Desks!service, Desks!dialogs, Desks!Table, Desks!Page, Desks!Entry, Desks!Status,
            Desks!Reason, Desks!Idle, Desks!Init, Desks!Mounted, Desks!Fetch, Desks!Navigate,
            Desks!InStatus, Desks!Get, Desks!Show, Desks!FetchFails, Desks!TryAgain, Desks!Rows,
            Desks!HandleApproveClick, Desks!HandleDenyClick, Desks!TypeReason, Desks!Cancel,
            Desks!Pending, Desks!Send, Desks!ConfirmApprove, Desks!ConfirmDeny, Desks!ClickView,
            Desks!ValidReason, Desks!Applies, Desks!Decide, Desks!Answer, Desks!CallFails,
            Desks!Refreshed, Desks!Settle, Desks!Elsewhere, Desks!DenyElsewhere, Desks!Next,
            Desks!TypeOK, Desks!Fresh, Desks!Entries, Desks!Fetching, Desks!Served,
            Desks!Filled, Desks!Failed, Desks!Invalidated, Desks!Service!Init,
            Desks!Service!Delete, Desks!Service!Create, Desks!Service!Closes,
            Desks!Service!Withdraw, Desks!Service!Deny, Desks!Service!CanAccept,
            Desks!Service!Accept
<1>1. /\ Desk!Init <=> Desks(Application, "none", {"pending"}, {"long"}, Decision)!Init
      /\ Desk!Next <=> Desks(Application, "none", {"pending"}, {"long"}, Decision)!Next
      /\ Desk!TypeOK <=> Desks(Application, "none", {"pending"}, {"long"}, Decision)!TypeOK
  BY DEF Desk!service, Desk!dialogs, Desk!Table, Desk!Page, Desk!Entry, Desk!Status,
         Desk!Reason, Desk!Idle, Desk!Init, Desk!Mounted, Desk!Fetch, Desk!Navigate,
         Desk!InStatus, Desk!Get, Desk!Show, Desk!FetchFails, Desk!TryAgain, Desk!Rows,
         Desk!HandleApproveClick, Desk!HandleDenyClick, Desk!TypeReason, Desk!Cancel,
         Desk!Pending, Desk!Send, Desk!ConfirmApprove, Desk!ConfirmDeny, Desk!ClickView,
         Desk!ValidReason, Desk!Applies, Desk!Decide, Desk!Answer, Desk!CallFails,
         Desk!Refreshed, Desk!Settle, Desk!Elsewhere, Desk!DenyElsewhere, Desk!Next,
         Desk!TypeOK, Desk!Fresh, Desk!Entries, Desk!Fetching, Desk!Served, Desk!Filled,
         Desk!Failed, Desk!Invalidated, Desk!Service!Init, Desk!Service!Delete,
         Desk!Service!Create, Desk!Service!Closes, Desk!Service!Withdraw, Desk!Service!Deny,
         Desk!Service!CanAccept, Desk!Service!Accept
<1>2. /\ DeskTabs!Init <=> Desks({"application"}, "application", {"pending", "details"}, {}, {"call"})!Init
      /\ DeskTabs!Next <=> Desks({"application"}, "application", {"pending", "details"}, {}, {"call"})!Next
      /\ DeskTabs!TypeOK <=> Desks({"application"}, "application", {"pending", "details"}, {}, {"call"})!TypeOK
  BY DEF DeskTabs!service, DeskTabs!dialogs, DeskTabs!Table, DeskTabs!Page, DeskTabs!Entry,
         DeskTabs!Status, DeskTabs!Reason, DeskTabs!Idle, DeskTabs!Init, DeskTabs!Mounted,
         DeskTabs!Fetch, DeskTabs!Navigate, DeskTabs!InStatus, DeskTabs!Get, DeskTabs!Show,
         DeskTabs!FetchFails, DeskTabs!TryAgain, DeskTabs!Rows, DeskTabs!HandleApproveClick,
         DeskTabs!HandleDenyClick, DeskTabs!TypeReason, DeskTabs!Cancel, DeskTabs!Pending,
         DeskTabs!Send, DeskTabs!ConfirmApprove, DeskTabs!ConfirmDeny, DeskTabs!ClickView,
         DeskTabs!ValidReason, DeskTabs!Applies, DeskTabs!Decide, DeskTabs!Answer,
         DeskTabs!CallFails, DeskTabs!Refreshed, DeskTabs!Settle, DeskTabs!Elsewhere,
         DeskTabs!DenyElsewhere, DeskTabs!Next, DeskTabs!TypeOK, DeskTabs!Fresh,
         DeskTabs!Entries, DeskTabs!Fetching, DeskTabs!Served, DeskTabs!Filled, DeskTabs!Failed,
         DeskTabs!Invalidated, DeskTabs!Service!Init, DeskTabs!Service!Delete,
         DeskTabs!Service!Create, DeskTabs!Service!Closes, DeskTabs!Service!Withdraw,
         DeskTabs!Service!Deny, DeskTabs!Service!CanAccept, DeskTabs!Service!Accept
<1>3. /\ DeskPages!Init <=> Desks({"application"}, "application", {"approved", "view"}, {}, {"call"})!Init
      /\ DeskPages!Next <=> Desks({"application"}, "application", {"approved", "view"}, {}, {"call"})!Next
      /\ DeskPages!TypeOK <=> Desks({"application"}, "application", {"approved", "view"}, {}, {"call"})!TypeOK
  BY DEF DeskPages!service, DeskPages!dialogs, DeskPages!Table, DeskPages!Page, DeskPages!Entry,
         DeskPages!Status, DeskPages!Reason, DeskPages!Idle, DeskPages!Init, DeskPages!Mounted,
         DeskPages!Fetch, DeskPages!Navigate, DeskPages!InStatus, DeskPages!Get, DeskPages!Show,
         DeskPages!FetchFails, DeskPages!TryAgain, DeskPages!Rows, DeskPages!HandleApproveClick,
         DeskPages!HandleDenyClick, DeskPages!TypeReason, DeskPages!Cancel, DeskPages!Pending,
         DeskPages!Send, DeskPages!ConfirmApprove, DeskPages!ConfirmDeny, DeskPages!ClickView,
         DeskPages!ValidReason, DeskPages!Applies, DeskPages!Decide, DeskPages!Answer,
         DeskPages!CallFails, DeskPages!Refreshed, DeskPages!Settle, DeskPages!Elsewhere,
         DeskPages!DenyElsewhere, DeskPages!Next, DeskPages!TypeOK, DeskPages!Fresh,
         DeskPages!Entries, DeskPages!Fetching, DeskPages!Served, DeskPages!Filled,
         DeskPages!Failed, DeskPages!Invalidated, DeskPages!Service!Init,
         DeskPages!Service!Delete, DeskPages!Service!Create, DeskPages!Service!Closes,
         DeskPages!Service!Withdraw, DeskPages!Service!Deny, DeskPages!Service!CanAccept,
         DeskPages!Service!Accept
<1> QED
  BY <1>1, <1>2, <1>3

-----------------------------------------------------------------------------
(* The parts together: only the part moves that was chosen at the start.   *)

\* The constants of the instances are as the general proofs assume: restaurants,
LEMMA RestaurantsAreAssumed ==
  /\ RestaurantsAssumed(Application, {"all"}) /\ RestaurantsAssumed(Application, {"pending"})
  /\ RestaurantsAssumed({"place"}, {"pending", "details"}) /\ RestaurantsAssumed({"place"}, {"approved", "list"})
<1>1. /\ NoData \notin Application /\ NoData \notin SUBSET Application
      /\ NoData \notin {"place"} /\ NoData \notin SUBSET {"place"}
  <2>1. \A S \in (SUBSET Application) \cup (SUBSET {"place"}) : S # NoData
    BY NothingAssumption
  <2> QED
    BY <2>1, NothingAssumption
<1>2. NoRestaurant \notin Application /\ NoRestaurant \notin {"place"} /\ None \notin {"all", "pending"}
  BY NothingAssumption
<1> QED
  BY <1>1, <1>2 DEF RestaurantsAssumed, RestaurantEntry, RestaurantTable

\* menus,
LEMMA MenusAreAssumed == MenuAssumed({"place"}, 2) /\ MenuAssumed({"place", "other"}, 1)
<1>1. /\ NoData \notin [of : {"place"}, rows : SUBSET (0..2)]
      /\ NoData \notin [of : {"place", "other"}, rows : SUBSET (0..1)]
  BY NothingAssumption DEF OneMenu!Menus, TwoMenus!Menus, OneMenu!Item, TwoMenus!Item
<1>2. NoRestaurant \notin {"place"} /\ NoRestaurant \notin {"place", "other"}
  BY NothingAssumption
<1> QED
  BY <1>1, <1>2 DEF MenuAssumed

\* the forms of owners,
LEMMA FormsAreAssumed ==
  /\ FormsAssumed({"text"}, Application, <<"logo", "cover">>, 2, TRUE)
  /\ FormsAssumed({"text"}, Application, <<"logo">>, 2, FALSE)
<1>1. /\ NoData \notin [text : {"text"}, image : [Registering!Slot -> Application]]
      /\ NoData \notin [text : {"text"}, image : [Updating!Slot -> Application]]
  BY NothingAssumption DEF Registering!Doc, Updating!Doc
<1>2. DOMAIN <<"logo", "cover">> = {1, 2} /\ DOMAIN <<"logo">> = {1}
  OBVIOUS
<1>3. Registering!Slot = {"logo", "cover"}
  BY <1>2 DEF Registering!Slot
<1>4. Updating!Slot = {"logo"}
  BY <1>2 DEF Updating!Slot
<1>5. <<"logo", "cover">> # <<"logo">>
  BY <1>2
<1>6. Slots(<<"logo", "cover">>) = {"logo", "cover"} /\ Slots(<<"logo">>) = {"logo"}
  BY <1>5 DEF Slots
<1>7. NoText \notin {"text"} /\ NoFile \notin Application
  BY NothingAssumption
<1> QED
  BY <1>1, <1>3, <1>4, <1>6, <1>7 DEF FormsAssumed, StoredForms

\* and the pages that decide on applications.
LEMMA DesksAreAssumed ==
  /\ DesksAssumed(Application, "none", {"pending"}, {"long"})
  /\ DesksAssumed({"application"}, "application", {"pending", "details"}, {})
  /\ DesksAssumed({"application"}, "application", {"approved", "view"}, {})
<1>1. /\ NoData \notin DeskStatus \cup SUBSET Application
      /\ NoData \notin DeskStatus \cup SUBSET {"application"}
  <2>1. NoData \notin Desk!Status /\ NoData \notin SUBSET Application /\ NoData \notin SUBSET {"application"}
    <3>1. \A S \in (SUBSET Application) \cup (SUBSET {"application"}) : S # NoData
      BY NothingAssumption
    <3>2. NoData \notin Desk!Status
      BY NothingAssumption
    <3> QED
      BY <3>1, <3>2
  <2>2. Desk!Status = DeskStatus
    BY DEF Desk!Status, DeskStatus
  <2> QED
    BY <2>1, <2>2
<1>2. NoApplication \notin Application /\ NoApplication \notin {"application"} /\ None # "pending"
  BY NothingAssumption, ApplicationsAssumption
<1> QED
  BY <1>1, <1>2 DEF DesksAssumed, DeskEntry, DeskReason

\* What each part keeps when it is the one that moves.
PartsIInv ==
  /\ ApplicationsIInv
  /\ FormIInv
  /\ moving = "desk" => DeskIInv(Application, "none", {"pending"}, {"long"}, Decision)
  /\ moving = "tabs" => DeskIInv({"application"}, "application", {"pending", "details"}, {}, {"call"})
  /\ moving = "desk pages" => DeskIInv({"application"}, "application", {"approved", "view"}, {}, {"call"})

TablesIInv ==
  /\ moving = "all" => /\ RestaurantsIInv(Application, {"all"}, Decision)
                       /\ TableSound(Decision, "all")
  /\ moving = "pending" => /\ RestaurantsIInv(Application, {"pending"}, {"call"})
                           /\ TableSound({"call"}, "pending")
  /\ moving = "details" => RestaurantsIInv({"place"}, {"pending", "details"}, {"call"})
  /\ moving = "list" => RestaurantsIInv({"place"}, {"approved", "list"}, {})

OwnersIInv ==
  /\ moving = "register" => FormsIInv({"text"}, Application, <<"logo", "cover">>, 2, TRUE)
  /\ moving = "update" => /\ FormsIInv({"text"}, Application, <<"logo">>, 2, FALSE)
                          /\ UpdatesSound(<<"logo">>, 2)
  /\ moving = "menu" => MenuIInv({"place"}, 2, 2, FALSE) /\ MenuSound(2)
  /\ moving = "menus" => MenuIInv({"place", "other"}, 1, 1, TRUE)

DesksIInv == PartsIInv /\ TablesIInv /\ OwnersIInv

\* The part that moves starts with its invariant.
LEMMA InitParts == DesksInit => PartsIInv
<1> SUFFICES ASSUME DesksInit PROVE PartsIInv
  OBVIOUS
<1>1. FormIInv
  BY InitForm DEF DesksInit
<1>2. ApplicationsIInv
  BY InitApplications DEF DesksInit
<1>3. ASSUME moving = "desk" PROVE DeskIInv(Application, "none", {"pending"}, {"long"}, Decision)
  BY <1>3, SameDesks, DesksAreAssumed, InitDesk DEF DesksInit
<1>4. ASSUME moving = "tabs"
      PROVE DeskIInv({"application"}, "application", {"pending", "details"}, {}, {"call"})
  BY <1>4, SameDesks, DesksAreAssumed, InitDesk DEF DesksInit
<1>5. ASSUME moving = "desk pages"
      PROVE DeskIInv({"application"}, "application", {"approved", "view"}, {}, {"call"})
  BY <1>5, SameDesks, DesksAreAssumed, InitDesk DEF DesksInit
<1> QED
  BY <1>1, <1>2, <1>3, <1>4, <1>5 DEF PartsIInv

\* The part that moves starts with its invariant.
LEMMA InitTables == DesksInit => TablesIInv
<1> SUFFICES ASSUME DesksInit PROVE TablesIInv
  OBVIOUS
<1>1. ASSUME moving = "all" PROVE RestaurantsIInv(Application, {"all"}, Decision) /\ TableSound(Decision, "all")
  <2>1. Restaurants(Application, {"all"}, Decision)!Init
    BY <1>1, SameRestaurants DEF DesksInit
  <2>2. RestaurantsIInv(Application, {"all"}, Decision)
    BY <2>1, RestaurantsAreAssumed, InitRestaurants
  <2>3. OneTable({"all"}, "all")
    BY DEF OneTable
  <2> QED
    BY <2>1, <2>2, <2>3, InitTable
<1>2. ASSUME moving = "pending" PROVE RestaurantsIInv(Application, {"pending"}, {"call"}) /\ TableSound({"call"}, "pending")
  <2>1. Restaurants(Application, {"pending"}, {"call"})!Init
    BY <1>2, SameRestaurants DEF DesksInit
  <2>2. RestaurantsIInv(Application, {"pending"}, {"call"})
    BY <2>1, RestaurantsAreAssumed, InitRestaurants
  <2>3. OneTable({"pending"}, "pending")
    BY DEF OneTable
  <2> QED
    BY <2>1, <2>2, <2>3, InitTable
<1>3. ASSUME moving = "details" PROVE RestaurantsIInv({"place"}, {"pending", "details"}, {"call"})
  BY <1>3, SameRestaurants, RestaurantsAreAssumed, InitRestaurants DEF DesksInit
<1>4. ASSUME moving = "list" PROVE RestaurantsIInv({"place"}, {"approved", "list"}, {})
  BY <1>4, SameRestaurants, RestaurantsAreAssumed, InitRestaurants DEF DesksInit
<1> QED
  BY <1>1, <1>2, <1>3, <1>4 DEF TablesIInv

\* The part that moves starts with its invariant.
LEMMA InitOwners == DesksInit => OwnersIInv
<1> SUFFICES ASSUME DesksInit PROVE OwnersIInv
  OBVIOUS
<1>1. ASSUME moving = "register" PROVE FormsIInv({"text"}, Application, <<"logo", "cover">>, 2, TRUE)
  BY <1>1, SameForms, FormsAreAssumed, InitForms DEF DesksInit
<1>2. ASSUME moving = "update"
      PROVE FormsIInv({"text"}, Application, <<"logo">>, 2, FALSE) /\ UpdatesSound(<<"logo">>, 2)
  BY <1>2, SameForms, FormsAreAssumed, InitForms, InitUpdates DEF DesksInit
<1>3. ASSUME moving = "menu" PROVE MenuIInv({"place"}, 2, 2, FALSE) /\ MenuSound(2)
  BY <1>3, SameMenu, MenusAreAssumed, InitMenu, InitMenuSound DEF DesksInit
<1>4. ASSUME moving = "menus" PROVE MenuIInv({"place", "other"}, 1, 1, TRUE)
  BY <1>4, SameMenu, MenusAreAssumed, InitMenu DEF DesksInit
<1> QED
  BY <1>1, <1>2, <1>3, <1>4 DEF OwnersIInv

\* A step of the part that moves keeps its invariant, a step of another part leaves its
\* variables alone.  An application is filed as pressed, and pages show nothing as open
\* that they have shown as decided.
LEMMA PartsStep ==
  ASSUME DesksIInv, [DesksNext]_desksVars
  PROVE  /\ PartsIInv'
         /\ \A a \in {"application"} : a \notin Form!Filed /\ a \in Form!Filed' => filed'[a] = pressed
         /\ moving \in {"desk", "tabs", "desk pages"} => DecidedStays
<1>0. PartsIInv /\ moving' = moving
  BY DEF DesksIInv, DesksNext, desksVars
<1>1. ApplicationsIInv'
  <2>1. ApplicationsIInv
    BY <1>0 DEF PartsIInv
  <2>2. [Next]_vars
    BY DEF DesksNext, desksVars, applicationVars, vars
  <2> QED
    BY <2>1, <2>2, NextIInv
<1>2. /\ FormIInv'
      /\ \A a \in {"application"} : a \notin Form!Filed /\ a \in Form!Filed' => filed'[a] = pressed
  <2>1. FormIInv
    BY <1>0 DEF PartsIInv
  <2>2. Form!Next \/ UNCHANGED formVars
    BY DEF DesksNext, desksVars
  <2>3. CASE UNCHANGED formVars
    <3>1. FormIInv'
      BY <2>1, <2>3, FormStutter
    <3> QED
      BY <2>3, <3>1 DEF formVars, Form!Filed
  <2> QED
    BY <2>1, <2>2, <2>3, FormStep
<1>3. ASSUME moving = "desk" PROVE DeskIInv(Application, "none", {"pending"}, {"long"}, Decision)' /\ DecidedStays
  <2>1. DeskIInv(Application, "none", {"pending"}, {"long"}, Decision)
    BY <1>0, <1>3 DEF PartsIInv
  <2>2. Desks(Application, "none", {"pending"}, {"long"}, Decision)!Next \/ UNCHANGED deskVars
    BY <1>3, SameDesks DEF DesksNext, desksVars
  <2> QED
    BY <2>1, <2>2, DesksAreAssumed, DeskStep, DeskStutter
<1>4. ASSUME moving = "tabs"
      PROVE DeskIInv({"application"}, "application", {"pending", "details"}, {}, {"call"})' /\ DecidedStays
  <2>1. DeskIInv({"application"}, "application", {"pending", "details"}, {}, {"call"})
    BY <1>0, <1>4 DEF PartsIInv
  <2>2. Desks({"application"}, "application", {"pending", "details"}, {}, {"call"})!Next \/ UNCHANGED deskVars
    BY <1>4, SameDesks DEF DesksNext, desksVars
  <2> QED
    BY <2>1, <2>2, DesksAreAssumed, DeskStep, DeskStutter
<1>5. ASSUME moving = "desk pages"
      PROVE DeskIInv({"application"}, "application", {"approved", "view"}, {}, {"call"})' /\ DecidedStays
  <2>1. DeskIInv({"application"}, "application", {"approved", "view"}, {}, {"call"})
    BY <1>0, <1>5 DEF PartsIInv
  <2>2. Desks({"application"}, "application", {"approved", "view"}, {}, {"call"})!Next \/ UNCHANGED deskVars
    BY <1>5, SameDesks DEF DesksNext, desksVars
  <2> QED
    BY <2>1, <2>2, DesksAreAssumed, DeskStep, DeskStutter
<1> QED
  BY <1>0, <1>1, <1>2, <1>3, <1>4, <1>5 DEF PartsIInv

\* The same for the pages about restaurants.
LEMMA TablesStep == ASSUME DesksIInv, [DesksNext]_desksVars PROVE TablesIInv'
<1>0. TablesIInv /\ moving' = moving
  BY DEF DesksIInv, DesksNext, desksVars
<1>1. ASSUME moving = "all"
      PROVE RestaurantsIInv(Application, {"all"}, Decision)' /\ TableSound(Decision, "all")'
  <2>1. RestaurantsIInv(Application, {"all"}, Decision) /\ TableSound(Decision, "all")
    BY <1>0, <1>1 DEF TablesIInv
  <2>2. Restaurants(Application, {"all"}, Decision)!Next \/ UNCHANGED restaurantVars
    BY <1>1, SameRestaurants DEF DesksNext, desksVars
  <2>3. OneTable({"all"}, "all") /\ RestaurantsAssumed(Application, {"all"})
    BY RestaurantsAreAssumed DEF OneTable
  <2>4. RestaurantsIInv(Application, {"all"}, Decision)'
    BY <2>1, <2>2, <2>3, RestaurantStep, RestaurantStutter
  <2>5. TableSound(Decision, "all")'
    BY <2>1, <2>2, <2>3, TableStep, TableStutter
  <2> QED
    BY <2>4, <2>5
<1>2. ASSUME moving = "pending"
      PROVE RestaurantsIInv(Application, {"pending"}, {"call"})' /\ TableSound({"call"}, "pending")'
  <2>1. RestaurantsIInv(Application, {"pending"}, {"call"}) /\ TableSound({"call"}, "pending")
    BY <1>0, <1>2 DEF TablesIInv
  <2>2. Restaurants(Application, {"pending"}, {"call"})!Next \/ UNCHANGED restaurantVars
    BY <1>2, SameRestaurants DEF DesksNext, desksVars
  <2>3. OneTable({"pending"}, "pending") /\ RestaurantsAssumed(Application, {"pending"})
    BY RestaurantsAreAssumed DEF OneTable
  <2>4. RestaurantsIInv(Application, {"pending"}, {"call"})'
    BY <2>1, <2>2, <2>3, RestaurantStep, RestaurantStutter
  <2>5. TableSound({"call"}, "pending")'
    BY <2>1, <2>2, <2>3, TableStep, TableStutter
  <2> QED
    BY <2>4, <2>5
<1>3. ASSUME moving = "details" PROVE RestaurantsIInv({"place"}, {"pending", "details"}, {"call"})'
  <2>1. RestaurantsIInv({"place"}, {"pending", "details"}, {"call"})
    BY <1>0, <1>3 DEF TablesIInv
  <2>2. Restaurants({"place"}, {"pending", "details"}, {"call"})!Next \/ UNCHANGED restaurantVars
    BY <1>3, SameRestaurants DEF DesksNext, desksVars
  <2> QED
    BY <2>1, <2>2, RestaurantsAreAssumed, RestaurantStep, RestaurantStutter
<1>4. ASSUME moving = "list" PROVE RestaurantsIInv({"place"}, {"approved", "list"}, {})'
  <2>1. RestaurantsIInv({"place"}, {"approved", "list"}, {})
    BY <1>0, <1>4 DEF TablesIInv
  <2>2. Restaurants({"place"}, {"approved", "list"}, {})!Next \/ UNCHANGED restaurantVars
    BY <1>4, SameRestaurants DEF DesksNext, desksVars
  <2> QED
    BY <2>1, <2>2, RestaurantsAreAssumed, RestaurantStep, RestaurantStutter
<1> QED
  BY <1>0, <1>1, <1>2, <1>3, <1>4 DEF TablesIInv

\* The same for the pages of owners.
LEMMA OwnersStep == ASSUME DesksIInv, [DesksNext]_desksVars PROVE OwnersIInv'
<1>0. OwnersIInv /\ moving' = moving
  BY DEF DesksIInv, DesksNext, desksVars
<1>1. ASSUME moving = "register" PROVE FormsIInv({"text"}, Application, <<"logo", "cover">>, 2, TRUE)'
  <2>1. FormsIInv({"text"}, Application, <<"logo", "cover">>, 2, TRUE)
    BY <1>0, <1>1 DEF OwnersIInv
  <2>2. Forms({"text"}, Application, <<"logo", "cover">>, 2, TRUE)!Next \/ UNCHANGED editorVars
    BY <1>1, SameForms DEF DesksNext, desksVars
  <2> QED
    BY <2>1, <2>2, FormsAreAssumed, FormsStep, FormsStutter
<1>2. ASSUME moving = "update"
      PROVE FormsIInv({"text"}, Application, <<"logo">>, 2, FALSE)' /\ UpdatesSound(<<"logo">>, 2)'
  <2>1. FormsIInv({"text"}, Application, <<"logo">>, 2, FALSE) /\ UpdatesSound(<<"logo">>, 2)
    BY <1>0, <1>2 DEF OwnersIInv
  <2>2. Forms({"text"}, Application, <<"logo">>, 2, FALSE)!Next \/ UNCHANGED editorVars
    BY <1>2, SameForms DEF DesksNext, desksVars
  <2>3. FormsIInv({"text"}, Application, <<"logo">>, 2, FALSE)'
    BY <2>1, <2>2, FormsAreAssumed, FormsStep, FormsStutter
  <2>4. UpdatesSound(<<"logo">>, 2)'
    BY <2>1, <2>2, FormsAreAssumed, UpdatesStep, UpdatesStutter
  <2> QED
    BY <2>3, <2>4
<1>3. ASSUME moving = "menu" PROVE MenuIInv({"place"}, 2, 2, FALSE)' /\ MenuSound(2)'
  <2>1. MenuIInv({"place"}, 2, 2, FALSE) /\ MenuSound(2)
    BY <1>0, <1>3 DEF OwnersIInv
  <2>2. Menu({"place"}, 2, 2, FALSE)!Next \/ UNCHANGED menuVars
    BY <1>3, SameMenu DEF DesksNext, desksVars
  <2>3. MenuIInv({"place"}, 2, 2, FALSE)'
    BY <2>1, <2>2, MenusAreAssumed, MenuStep, MenuStutter
  <2>4. MenuSound(2)'
    BY <2>1, <2>2, MenusAreAssumed, MenuSoundStep, MenuSoundStutter
  <2> QED
    BY <2>3, <2>4
<1>4. ASSUME moving = "menus" PROVE MenuIInv({"place", "other"}, 1, 1, TRUE)'
  <2>1. MenuIInv({"place", "other"}, 1, 1, TRUE)
    BY <1>0, <1>4 DEF OwnersIInv
  <2>2. Menu({"place", "other"}, 1, 1, TRUE)!Next \/ UNCHANGED menuVars
    BY <1>4, SameMenu DEF DesksNext, desksVars
  <2> QED
    BY <2>1, <2>2, MenusAreAssumed, MenuStep, MenuStutter
<1> QED
  BY <1>0, <1>1, <1>2, <1>3, <1>4 DEF OwnersIInv

\* The inductive invariant of the run.
LEMMA DesksInvariant == DesksSpec => []DesksIInv
<1>1. DesksInit => DesksIInv
  BY InitParts, InitTables, InitOwners DEF DesksIInv
<1>2. DesksIInv /\ [DesksNext]_desksVars => DesksIInv'
  BY PartsStep, TablesStep, OwnersStep DEF DesksIInv
<1> QED
  BY <1>1, <1>2, PTL DEF DesksSpec

-----------------------------------------------------------------------------
(* What the run checks.                                                    *)

\* The variables of the part that moves have their types: applications, forms, tables,
\* dialogs and calls of owners and administrators, whatever their number.
THEOREM DesksTypeCorrect == DesksSpec => []DesksTypeOK
<1>1. DesksIInv => DesksTypeOK
  <2> SUFFICES ASSUME DesksIInv PROVE DesksTypeOK
    OBVIOUS
  <2>1. TypeOK /\ Form!TypeOK
    BY DEF DesksIInv, PartsIInv, ApplicationsIInv, FormIInv
  <2>2. /\ moving = "desk" => Desk!TypeOK
        /\ moving = "tabs" => DeskTabs!TypeOK
        /\ moving = "desk pages" => DeskPages!TypeOK
    BY SameDesks, DeskTyped DEF DesksIInv, PartsIInv
  <2>3. /\ moving = "all" => AllRestaurants!TypeOK
        /\ moving = "pending" => PendingRestaurants!TypeOK
        /\ moving = "details" => RestaurantDetails!TypeOK
        /\ moving = "list" => RestaurantList!TypeOK
    BY SameRestaurants DEF DesksIInv, TablesIInv, RestaurantsIInv
  <2>4. /\ moving = "register" => Registering!TypeOK
        /\ moving = "update" => Updating!TypeOK
    BY SameForms DEF DesksIInv, OwnersIInv, FormsIInv
  <2>5. /\ moving = "menu" => OneMenu!TypeOK
        /\ moving = "menus" => TwoMenus!TypeOK
    BY SameMenu DEF DesksIInv, OwnersIInv, MenuIInv
  <2> QED
    BY <2>1, <2>2, <2>3, <2>4, <2>5 DEF DesksTypeOK
<1> QED
  BY <1>1, DesksInvariant, PTL

\* A deletion or approval that the administrator was told of did happen, whatever others
\* did to the restaurant between the click, the halves of the request and the toast
\* (ApproveRestaurantById of restaurent.go), and the last update that was reported is
\* the one stored.
THEOREM ReportsHold == DesksSpec => []ToldHolds
<1>1. DesksIInv => ToldHolds
  <2> SUFFICES ASSUME DesksIInv PROVE ToldHolds
    OBVIOUS
  <2>1. ASSUME moving \in {"all", "pending", "details"} PROVE AllRestaurants!ToldHolds
    <3>1. ToldSound
      BY <2>1 DEF DesksIInv, TablesIInv, RestaurantsIInv
    <3> QED
      BY <3>1 DEF ToldSound, Done, DoneIn, AllRestaurants!ToldHolds
  <2>2. ASSUME moving = "update" PROVE Updating!UpdateAsTold
    <3>1. Forms({"text"}, Application, <<"logo">>, 2, FALSE)!UpdateAsTold
      BY <2>2, FormsAreAssumed, UpdatesAsTold DEF DesksIInv, OwnersIInv
    <3> QED
      BY <3>1 DEF Forms!UpdateAsTold, Forms!Updates, Forms!Since, Forms!Press, Forms!Slot,
         Updating!UpdateAsTold, Updating!Updates, Updating!Since, Updating!Press, Updating!Slot
  <2> QED
    BY <2>1, <2>2 DEF ToldHolds
<1> QED
  BY <1>1, DesksInvariant, PTL

\* A restaurant or an item that was reported as deleted or approved is not offered again
\* by the table or menu it was reported in front of: the fetch that was under way when the
\* page invalidated its query does not bring it back.
THEOREM ReportsLeaveLists == DesksSpec => []ToldLeavesLists
<1>1. DesksIInv => ToldLeavesLists
  <2> SUFFICES ASSUME DesksIInv PROVE ToldLeavesLists
    OBVIOUS
  <2>1. ASSUME moving = "all" PROVE AllRestaurants!ToldLeavesTable
    <3>1. Restaurants(Application, {"all"}, Decision)!ToldLeavesTable
      BY <2>1, ToldHasLeft DEF DesksIInv, TablesIInv, OneTable
    <3> QED
      BY <3>1 DEF Restaurants!ToldLeavesTable, Restaurants!Rows, Restaurants!Table,
         AllRestaurants!ToldLeavesTable, AllRestaurants!Rows, AllRestaurants!Table
  <2>2. ASSUME moving = "pending" PROVE PendingRestaurants!ToldLeavesTable
    <3>1. Restaurants(Application, {"pending"}, {"call"})!ToldLeavesTable
      BY <2>2, ToldHasLeft DEF DesksIInv, TablesIInv, OneTable
    <3> QED
      BY <3>1 DEF Restaurants!ToldLeavesTable, Restaurants!Rows, Restaurants!Table,
         PendingRestaurants!ToldLeavesTable, PendingRestaurants!Rows, PendingRestaurants!Table
  <2>3. ASSUME moving = "menu" PROVE OneMenu!ToldLeavesMenu
    <3>1. Menu({"place"}, 2, 2, FALSE)!ToldLeavesMenu
      BY <2>3, ToldHasLeftMenu DEF DesksIInv, OwnersIInv
    <3> QED
      BY <3>1 DEF Menu!ToldLeavesMenu, Menu!Rows, OneMenu!ToldLeavesMenu, OneMenu!Rows
  <2> QED
    BY <2>1, <2>2, <2>3 DEF ToldLeavesLists
<1> QED
  BY <1>1, DesksInvariant, PTL

\* What a form files, registers or adds to a menu is what it showed when it was submitted,
\* although uploads, other presses and edits came in between; an application names images
\* that are stored.
THEOREM StoredIsAsPressed == DesksSpec => StoredAsPressed
<1> DEFINE Stored == /\ Form!FiledIsStored
                     /\ moving = "register" => Registering!RegisteredAsPressed
                     /\ moving = "menu" => OneMenu!MenuAsPressed
                     /\ moving = "menus" => TwoMenus!MenuAsPressed
           Files == \A a \in {"application"} : a \notin Form!Filed /\ a \in Form!Filed' => filed'[a] = pressed
<1>1. DesksIInv => Stored
  <2> SUFFICES ASSUME DesksIInv PROVE Stored
    OBVIOUS
  <2>1. Form!FiledIsStored
    BY DEF DesksIInv, PartsIInv, FormIInv
  <2>2. ASSUME moving = "register" PROVE Registering!RegisteredAsPressed
    <3>1. Forms({"text"}, Application, <<"logo", "cover">>, 2, TRUE)!RegisteredAsPressed
      BY <2>2, FormsAreAssumed, RegistersAsPressed DEF DesksIInv, OwnersIInv
    <3> QED
      BY <3>1 DEF Forms!RegisteredAsPressed, Forms!Press, Forms!NoDoc, Forms!Blank, Forms!NoImages, Forms!Slot,
         Registering!RegisteredAsPressed, Registering!Press, Registering!NoDoc, Registering!Blank,
         Registering!NoImages, Registering!Slot
  <2>3. ASSUME moving = "menu" PROVE OneMenu!MenuAsPressed
    <3>1. Menu({"place"}, 2, 2, FALSE)!MenuAsPressed
      BY <2>3, MenuIsAsPressed DEF DesksIInv, OwnersIInv
    <3> QED
      BY <3>1 DEF Menu!MenuAsPressed, Menu!Press, Menu!NoDoc, OneMenu!MenuAsPressed, OneMenu!Press, OneMenu!NoDoc
  <2>4. ASSUME moving = "menus" PROVE TwoMenus!MenuAsPressed
    <3>1. Menu({"place", "other"}, 1, 1, TRUE)!MenuAsPressed
      BY <2>4, MenuIsAsPressed DEF DesksIInv, OwnersIInv
    <3> QED
      BY <3>1 DEF Menu!MenuAsPressed, Menu!Press, Menu!NoDoc, TwoMenus!MenuAsPressed, TwoMenus!Press, TwoMenus!NoDoc
  <2> QED
    BY <2>1, <2>2, <2>3, <2>4
<1>2. DesksIInv /\ [DesksNext]_desksVars => [Files]_Form!vars
  BY PartsStep
<1>3. DesksSpec => []Stored
  <2> HIDE DEF Stored
  <2> QED
    BY <1>1, DesksInvariant, PTL
<1>4. DesksSpec => [][Files]_Form!vars
  <2> HIDE DEF Files
  <2> QED
    BY <1>2, DesksInvariant, PTL DEF DesksSpec
<1>5. DesksSpec => Form!FiledAsPressed
  BY <1>4, PTL DEF Form!FiledAsPressed
<1> QED
  BY <1>3, <1>5, PTL DEF StoredAsPressed

\* A decision that was reported stands and has left its table, although other clicks,
\* administrators and the applicant were at the same application (AcceptApplication of
\* driver_appl.go); and no page that has shown it as decided shows it open again.
THEOREM DecisionsStand == DesksSpec => DecisionsAsTold
<1> DEFINE Stand == moving \in {"desk", "tabs", "desk pages"} => Desk!ToldDecisionHolds /\ Desk!DecidedLeavesTable
           Stays == \A e \in DeskPages!Entry \ DeskPages!Table :
                      cache[e].data \in {"accepted", "rejected", "withdrawn"} => cache'[e].data = cache[e].data
<1>1. DesksIInv => Stand
  <2> SUFFICES ASSUME DesksIInv, moving \in {"desk", "tabs", "desk pages"}
               PROVE  Desk!ToldDecisionHolds /\ Desk!DecidedLeavesTable
    OBVIOUS
  <2>1. PICK A, v, O, Ty, C : DesksAssumed(A, v, O, Ty) /\ DeskIInv(A, v, O, Ty, C)
    BY DesksAreAssumed DEF DesksIInv, PartsIInv
  <2>2. Desks(A, v, O, Ty, C)!ToldDecisionHolds /\ Desks(A, v, O, Ty, C)!DecidedLeavesTable
    BY <2>1, ToldDecisions
  <2> QED
    BY <2>2 DEF Desks!ToldDecisionHolds, Desks!Outcome, Desks!DecidedLeavesTable, Desks!Rows,
       Desk!ToldDecisionHolds, Desk!Outcome, Desk!DecidedLeavesTable, Desk!Rows
<1>2. DesksIInv /\ [DesksNext]_desksVars => [Stays]_DeskPages!vars
  <2> SUFFICES ASSUME DesksIInv, [DesksNext]_desksVars PROVE Stays \/ UNCHANGED deskVars
    BY DEF deskVars, DeskPages!vars
  <2>1. CASE moving \in {"desk", "tabs", "desk pages"}
    <3>1. DecidedStays
      BY <2>1, PartsStep
    <3> QED
      BY <3>1 DEF DecidedStays, Decided, DeskPages!Entry, DeskPages!Page, DeskPages!Table
  <2>2. CASE moving \notin {"desk", "tabs", "desk pages"}
    BY <2>2 DEF DesksNext, desksVars
  <2> QED
    BY <2>1, <2>2
<1>3. DesksSpec => []Stand
  <2> HIDE DEF Stand
  <2> QED
    BY <1>1, DesksInvariant, PTL
<1>4. DesksSpec => [][Stays]_DeskPages!vars
  <2> HIDE DEF Stays
  <2> QED
    BY <1>2, DesksInvariant, PTL DEF DesksSpec
<1>5. DesksSpec => DeskPages!DecidedStaysDecided
  BY <1>4, PTL DEF DeskPages!DecidedStaysDecided
<1> QED
  BY <1>3, <1>5, PTL DEF DecisionsAsTold

\* The transactions of user-service keep what was proved of them above: drivers were
\* accepted, and decisions look as if each were one step.
THEOREM ServiceKeepsPromises == DesksSpec => []DriversWereAccepted /\ ImplementsLifecycle
<1>1. DesksInit => Init
  BY DEF DesksInit
<1>2. [DesksNext]_desksVars => [Next]_vars
  BY DEF DesksNext, desksVars, applicationVars, vars
<1>3. DesksSpec => Spec
  BY <1>1, <1>2, PTL DEF DesksSpec, Spec
<1> QED
  BY <1>3, DriversAccepted, ApplicationsRefine, PTL
=============================================================================
