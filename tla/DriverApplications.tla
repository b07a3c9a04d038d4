------------------------- MODULE DriverApplications -------------------------
(***************************************************************************)
(* user-service: applications of users who want to drive                   *)
(* (user-service/repo/driver_appl.go) and the users they turn into drivers *)
(* (user-service/repo/user.go).  Deciding and creating an application are  *)
(* transactions over the two collections, under snapshot isolation; the    *)
(* other operations are one update of one document.                        *)
(***************************************************************************)
CONSTANTS User,
          Application,    \* ids of applications (bounded)
          Decision,       \* requests that approve or deny (bounded)
          NoUser, NoApplication

ASSUME ApplicationsAssumption == NoUser \notin User /\ NoApplication \notin Application

VARIABLES
  users,          \* the "user" collection
  applications,   \* the "driver-applications" collection
  decisions,      \* the requests that approve or deny an application
  creating        \* users whose Create has checked the user (bounded: one each)

vars == <<users, applications, decisions, creating>>

\* profile is the application the driver profile was copied from, driver
\* the role user_driver.
UserDoc == [deleted : BOOLEAN,
            profile : Application \cup {NoApplication},
            driver  : BOOLEAN]

\* status "absent" stands for an id that is not in the collection.
ApplicationDoc ==
  [status  : {"absent", "pending", "accepted", "rejected", "withdrawn"},
   user    : User \cup {NoUser},
   handled : User \cup {NoUser}]

\* A decision is "read" once its transaction has its snapshot and has found the
\* application pending, "updated" when it has written the application and
\* "granted" when it has written the user too; each holds the lock of what it
\* wrote.  "retry" waits for WithTransaction to run the callback again.  found is
\* the applicant in the snapshot; staleApp and staleUser say that somebody
\* has written the document since.
DecisionRequest ==
  [phase     : {"new", "read", "updated", "granted", "retry", "ok", "error"},
   app       : Application \cup {NoApplication},
   accept    : BOOLEAN,
   by        : User \cup {NoUser},
   found     : UserDoc,
   staleApp  : BOOLEAN,
   staleUser : BOOLEAN]

TypeOK ==
  /\ users \in [User -> UserDoc]
  /\ applications \in [Application -> ApplicationDoc]
  /\ decisions \in [Decision -> DecisionRequest]
  /\ creating \in SUBSET User

NewUser == [deleted |-> FALSE, profile |-> NoApplication, driver |-> FALSE]

Init ==
  /\ users = [u \in User |-> NewUser]
  /\ applications = [a \in Application |->
                       [status |-> "absent", user |-> NoUser, handled |-> NoUser]]
  /\ decisions = [r \in Decision |->
                    [phase |-> "new", app |-> NoApplication, accept |-> FALSE, by |-> NoUser,
                     found |-> NewUser, staleApp |-> FALSE, staleUser |-> FALSE]]
  /\ creating = {}

-----------------------------------------------------------------------------
(* Locks and snapshots *)

InTx(r) == decisions[r].phase \in {"read", "updated", "granted"}

ApplicantOf(r) == applications[decisions[r].app].user

HoldsApplication(r, a) == decisions[r].phase \in {"updated", "granted"} /\ decisions[r].app = a

HoldsUser(r, u) == decisions[r].phase = "granted" /\ ApplicantOf(r) = u

\* A committed write of application a, of user u.
StaleApplication(a) ==
  [r \in Decision |-> IF InTx(r) /\ decisions[r].app = a
                      THEN [decisions[r] EXCEPT !.staleApp = TRUE]
                      ELSE decisions[r]]

StaleUser(u) ==
  [r \in Decision |-> IF InTx(r) /\ ApplicantOf(r) = u
                      THEN [decisions[r] EXCEPT !.staleUser = TRUE]
                      ELSE decisions[r]]

\* An update outside of a transaction waits for the lock.
WriteUser(u, doc) ==
  /\ \A r \in Decision : ~HoldsUser(r, u)
  /\ users' = [users EXCEPT ![u] = doc]
  /\ decisions' = StaleUser(u)
  /\ UNCHANGED <<applications, creating>>

-----------------------------------------------------------------------------
(* Users *)

\* updateUserByID finds only users that are not deleted.
DeleteUser(u) ==
  /\ ~users[u].deleted
  /\ WriteUser(u, [users[u] EXCEPT !.deleted = TRUE])

\* UpdateUserByID and its like: the fields are not modelled, the write is.
UpdateUser(u) ==
  /\ ~users[u].deleted
  /\ WriteUser(u, users[u])

-----------------------------------------------------------------------------
(* Create and withdraw *)

\* Create's transaction finds the user, and finds that it has no driver profile.
CreateReads(u) ==
  /\ ~users[u].deleted
  /\ users[u].profile = NoApplication
  /\ creating' = creating \cup {u}
  /\ UNCHANGED <<users, applications, decisions>>

\* InsertOne and commit: nothing it has read is written, so no conflict tells it
\* that the user has meanwhile become a driver or was deleted.
CreateInserts(u, a) ==
  /\ u \in creating
  /\ applications[a].status = "absent"
  /\ applications' = [applications EXCEPT ![a] = [status |-> "pending", user |-> u,
                                                  handled |-> NoUser]]
  /\ creating' = creating \ {u}
  /\ UNCHANGED <<users, decisions>>

CreateAborts(u) ==
  /\ u \in creating
  /\ creating' = creating \ {u}
  /\ UNCHANGED <<users, applications, decisions>>

\* Mutant of WithdrawApplication: the filter does not ask for the status.
WithdrawDecided(u, a) ==
  /\ applications[a].status # "absent"
  /\ applications[a].user = u
  /\ \A r \in Decision : ~HoldsApplication(r, a)
  /\ applications' = [applications EXCEPT ![a].status = "withdrawn"]
  /\ decisions' = StaleApplication(a)
  /\ UNCHANGED <<users, creating>>

\* UpdateOne of a pending application of the user, the database picks which.
WithdrawApplication(u, a) ==
  /\ applications[a].status = "pending"
  /\ applications[a].user = u
  /\ \A r \in Decision : ~HoldsApplication(r, a)
  /\ applications' = [applications EXCEPT ![a].status = "withdrawn"]
  /\ decisions' = StaleApplication(a)
  /\ UNCHANGED <<users, creating>>

-----------------------------------------------------------------------------
(* changeApplicationStatus *)

Ends(r, phase) ==
  [decisions[r] EXCEPT !.phase = phase, !.found = NewUser,
                       !.staleApp = FALSE, !.staleUser = FALSE]

\* The transaction starts and finds the changer and the application.
DecisionReads(r, a, accept, by) ==
  /\ \/ decisions[r].phase = "new"
     \/ /\ decisions[r].phase = "retry"
        /\ <<a, accept, by>> = <<decisions[r].app, decisions[r].accept, decisions[r].by>>
  /\ applications[a].status # "absent"
  /\ decisions' = [decisions EXCEPT ![r] =
       [phase |-> IF applications[a].status = "pending" /\ ~users[by].deleted
                  THEN "read" ELSE "error",
        app |-> a, accept |-> accept, by |-> by,
        found |-> users[applications[a].user], staleApp |-> FALSE, staleUser |-> FALSE]]
  /\ UNCHANGED <<users, applications, creating>>

\* Writing the application, or the user, conflicts with a write committed since
\* the snapshot and with the lock of another transaction.
ApplicationConflict(r) ==
  \/ decisions[r].staleApp
  \/ \E q \in Decision \ {r} : HoldsApplication(q, decisions[r].app)

UserConflict(r) ==
  \/ decisions[r].staleUser
  \/ \E q \in Decision \ {r} : HoldsUser(q, ApplicantOf(r))

DecisionUpdates(r) ==
  /\ decisions[r].phase = "read"
  /\ ~ApplicationConflict(r)
  /\ decisions' = [decisions EXCEPT ![r].phase = "updated"]
  /\ UNCHANGED <<users, applications, creating>>

\* Mutant of DecisionGrants: it is not tested that the user is not a driver yet.
DecisionGrantsAgain(r) ==
  /\ decisions[r].phase = "updated" /\ decisions[r].accept
  /\ ~decisions[r].found.deleted
  /\ ~UserConflict(r)
  /\ decisions' = [decisions EXCEPT ![r].phase = "granted"]
  /\ UNCHANGED <<users, applications, creating>>

\* The two updates of the user, whose profile was missing in the snapshot.
DecisionGrants(r) ==
  /\ decisions[r].phase = "updated" /\ decisions[r].accept
  /\ decisions[r].found.profile = NoApplication /\ ~decisions[r].found.deleted
  /\ ~UserConflict(r)
  /\ decisions' = [decisions EXCEPT ![r].phase = "granted"]
  /\ UNCHANGED <<users, applications, creating>>

\* ErrUserIsDriver and ErrNoUser abort the transaction: the application stays
\* pending.
DecisionRefused(r) ==
  /\ decisions[r].phase = "updated" /\ decisions[r].accept
  /\ decisions[r].found.profile # NoApplication \/ decisions[r].found.deleted
  /\ decisions' = [decisions EXCEPT ![r] = Ends(r, "error")]
  /\ UNCHANGED <<users, applications, creating>>

DecisionConflict(r) ==
  /\ \/ decisions[r].phase = "read" /\ ApplicationConflict(r)
     \/ /\ decisions[r].phase = "updated" /\ decisions[r].accept
        /\ decisions[r].found.profile = NoApplication /\ ~decisions[r].found.deleted
        /\ UserConflict(r)
  /\ decisions' = [decisions EXCEPT ![r] = Ends(r, "retry")]
  /\ UNCHANGED <<users, applications, creating>>

DecisionAborts(r) ==
  /\ InTx(r) \/ decisions[r].phase = "retry"
  /\ decisions' = [decisions EXCEPT ![r] = Ends(r, "error")]
  /\ UNCHANGED <<users, applications, creating>>

DenyCommits(r) ==
  LET a == decisions[r].app IN
  /\ decisions[r].phase = "updated" /\ ~decisions[r].accept
  /\ applications' = [applications EXCEPT ![a].status = "rejected",
                                          ![a].handled = decisions[r].by]
  /\ decisions' = [StaleApplication(a) EXCEPT ![r] = Ends(r, "ok")]
  /\ UNCHANGED <<users, creating>>

\* The application, the profile and the role become visible at once.
AcceptCommits(r) ==
  LET a == decisions[r].app
      u == ApplicantOf(r)
  IN
  /\ decisions[r].phase = "granted"
  /\ applications' = [applications EXCEPT ![a].status = "accepted",
                                          ![a].handled = decisions[r].by]
  /\ users' = [users EXCEPT ![u].profile = a, ![u].driver = TRUE]
  /\ decisions' = [q \in Decision |->
                     IF q = r THEN Ends(r, "ok")
                     ELSE [decisions[q] EXCEPT
                             !.staleApp = StaleApplication(a)[q].staleApp,
                             !.staleUser = StaleUser(u)[q].staleUser]]
  /\ UNCHANGED creating

-----------------------------------------------------------------------------

Next ==
  \/ \E u \in User :
       \/ DeleteUser(u)
       \/ UpdateUser(u)
       \/ CreateReads(u)
       \/ CreateAborts(u)
       \/ \E a \in Application : CreateInserts(u, a) \/ WithdrawApplication(u, a)
  \/ \E r \in Decision :
       \/ \E a \in Application, accept \in BOOLEAN, by \in User :
            DecisionReads(r, a, accept, by)
       \/ DecisionUpdates(r)
       \/ DecisionGrants(r)
       \/ DecisionRefused(r)
       \/ DecisionConflict(r)
       \/ DecisionAborts(r)
       \/ DenyCommits(r)
       \/ AcceptCommits(r)

Spec == Init /\ [][Next]_vars

-----------------------------------------------------------------------------
(* Properties *)

\* A user is a driver, profile and role alike, exactly if one of the user's
\* applications was accepted, and the profile is that application's: a user with
\* several pending applications, decided at once, gets one of them accepted.
DriversWereAccepted ==
  \A u \in User :
    /\ {a \in Application : applications[a].status = "accepted" /\ applications[a].user = u} =
         {users[u].profile} \ {NoApplication}
    /\ users[u].driver <=> users[u].profile # NoApplication

\* Taken apart into reads, locks, conflicts and retries, a decision still looks
\* as if it were taken at one moment, the moment it commits: nobody sees a
\* driver whose application is open, or a decision on one withdrawn meanwhile.
Lifecycle ==
  INSTANCE ApplicationLifecycle
    WITH deleted <- {u \in User : users[u].deleted},
         profile <- [u \in User |-> users[u].profile],
         status <- [a \in Application |-> applications[a].status],
         applicant <- [a \in Application |-> applications[a].user]

ImplementsLifecycle == Lifecycle!Spec
=============================================================================
