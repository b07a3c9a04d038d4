------------------------ MODULE ApplicationLifecycle ------------------------
(***************************************************************************)
(* What user-service promises about applications of drivers: creating,     *)
(* withdrawing and deciding one happens at once.  DriverApplications.tla,  *)
(* where a decision is a transaction of several steps, implements it; the  *)
(* pages of ApplicationDesk.tla are built on it.                           *)
(***************************************************************************)
CONSTANTS User, Application, NoUser, NoApplication

VARIABLES
  deleted,     \* users that deleted their account
  profile,     \* per user: the application the driver profile is from
  status,      \* per application, "absent" before it is created
  applicant    \* per application

vars == <<deleted, profile, status, applicant>>

Init ==
  /\ deleted = {}
  /\ profile = [u \in User |-> NoApplication]
  /\ status = [a \in Application |-> "absent"]
  /\ applicant = [a \in Application |-> NoUser]

Delete(u) ==
  /\ u \notin deleted
  /\ deleted' = deleted \cup {u}
  /\ UNCHANGED <<profile, status, applicant>>

\* A user may file several applications, and one filed while another is being
\* accepted, or while the account is being deleted, is stored as well.
Create(u, a) ==
  /\ status[a] = "absent"
  /\ status' = [status EXCEPT ![a] = "pending"]
  /\ applicant' = [applicant EXCEPT ![a] = u]
  /\ UNCHANGED <<deleted, profile>>

Closes(a, as) ==
  /\ status[a] = "pending"
  /\ status' = [status EXCEPT ![a] = as]
  /\ UNCHANGED <<deleted, applicant>>

Withdraw(a) == Closes(a, "withdrawn") /\ UNCHANGED profile

Deny(a) == Closes(a, "rejected") /\ UNCHANGED profile

\* Only a user with an account and without a profile becomes a driver.
CanAccept(a) == status[a] = "pending" /\ applicant[a] \notin deleted
                                      /\ profile[applicant[a]] = NoApplication

Accept(a) ==
  /\ CanAccept(a)
  /\ Closes(a, "accepted")
  /\ profile' = [profile EXCEPT ![applicant[a]] = a]

Next ==
  \/ \E u \in User : Delete(u) \/ \E a \in Application : Create(u, a)
  \/ \E a \in Application : Withdraw(a) \/ Deny(a) \/ Accept(a)

Spec == Init /\ [][Next]_vars
=============================================================================
