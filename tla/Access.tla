------------------------------- MODULE Access -------------------------------
(***************************************************************************)
(* Who may do what in a group.  Every service asks the accounts and the    *)
(* rows of education.groups and gamification.enrollments by one of these   *)
(* rules; they differ in whether the organization of the session counts    *)
(* and in whether the highest role of the user decides.                    *)
(***************************************************************************)
EXTENDS Integers

CONSTANTS
  Accounts,  \* auth.accounts: [user, org, role, id]
  NoOrg,     \* the session belongs to no organization
  NoRow      \* there is no such row

Roles == <<"super", "administrator", "lecturer", "student">>

First(S) == IF S = {} THEN NoRow ELSE (CHOOSE a \in S : TRUE).id

RolesOf(u) == {a.role : a \in {b \in Accounts : b.user = u}}

(* resolvePrimaryRoleForUser: the role of the highest privilege.           *)
PrimaryRole(u) ==
  IF RolesOf(u) = {} THEN NoRow
  ELSE LET held == {i \in DOMAIN Roles : Roles[i] \in RolesOf(u)}
       IN Roles[CHOOSE i \in held : \A j \in held : i <= j]

(* Some account of the user with that role, in any organization ...        *)
AccountId(u, role) == First({a \in Accounts : a.user = u /\ a.role = role})

(* ... and the one in the organization of the session.                     *)
AccountIdIn(u, org, role) ==
  First({a \in Accounts : a.user = u /\ a.org = org /\ a.role = role})

(* resolveOrganizationScopedAccountIds: nothing without an organization.   *)
ScopedId(caller, role) ==
  IF caller.org = NoOrg THEN NoRow ELSE AccountIdIn(caller.user, caller.org, role)

(* assertLecturerOwnsGroup with the organization of the request, ...       *)
LecturerId(caller) ==
  IF caller.org = NoOrg THEN AccountId(caller.user, "lecturer")
  ELSE AccountIdIn(caller.user, caller.org, "lecturer")

OwnsByRequest(caller, teacher) ==
  LecturerId(caller) # NoRow /\ teacher = LecturerId(caller)

(* ... without it, ...                                                     *)
OwnsAnywhere(caller, teacher) ==
  LET id == AccountId(caller.user, "lecturer") IN id # NoRow /\ teacher = id

(* ... and the rule of the group's own page and settings.                  *)
OwnsScoped(caller, teacher) ==
  LET id == ScopedId(caller, "lecturer") IN id # NoRow /\ teacher = id

(* assertLecturerGroupAccess of the backlog: a super administrator may     *)
(* read every group, the others own it with the account of their highest   *)
(* role.                                                                   *)
OversesBacklog(caller, teacher) ==
  LET role == PrimaryRole(caller.user) IN
  \/ role = "super"
  \/ role \in {"administrator", "lecturer"} /\ teacher = AccountId(caller.user, role)

(* assertEnrolledStudent: only who has no higher role reads as a student.  *)
ReadsAsStudent(caller) == PrimaryRole(caller.user) = "student"

(* groupBelongsToStudentOrganization: a student joins only a group whose   *)
(* teacher's account is in the same organization.                          *)
SameOrganization(id, teacher) ==
  \E a, b \in Accounts : a.id = id /\ b.id = teacher /\ a.org = b.org
=============================================================================
