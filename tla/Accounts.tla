------------------------------ MODULE Accounts ------------------------------
(***************************************************************************)
(* Users and their accounts, one account per organization and role.        *)
(* Sign-ins, the bootstrap of the first super-administrator, grants and    *)
(* the maintenance scripts look for a row and insert it when it is         *)
(* missing; a removal is a transaction of several statements; a profile is *)
(* a copy of the row, compared with the row when it is saved, and written  *)
(* where it differs.  Statements of different calls interleave.            *)
(***************************************************************************)
EXTENDS Integers, FiniteSets

CONSTANTS
  UserIds, AccountIds,  \* primary keys, never used twice
  Emails,               \* spellings; Fold[e] is e in lower case
  Fold,
  Bootstrap,            \* SUPERADMIN_BOOTSTRAP_EMAIL, in lower case
  BootOrg,              \* the organization of the bootstrap account
  Orgs, Roles,
  Super, Administrator, \* two of the roles
  Mapped,               \* the roles that affiliations at the university map to
  Editors,              \* users whose own profile requests are followed
  Requests,             \* calls, and scripts, under way at the same time
  Unborn, Gone, NoCall, NoRole

UserRow == [email : Emails, submitted : BOOLEAN, completed : BOOLEAN]
AccountRow == [user : UserIds, org : Orgs, role : Roles]

ASSUME AccountsAssumption ==
  /\ IsFiniteSet(Requests) /\ IsFiniteSet(AccountIds) /\ Editors \subseteq UserIds
  /\ BootOrg \in Orgs /\ {Super, Administrator} \cup Mapped \subseteq Roles
  /\ Super # Administrator /\ NoRole \notin Roles
  /\ Fold \in [Emails -> Emails] /\ Unborn # Gone /\ UserRow \cap {Unborn, Gone} = {}
  /\ NoCall \notin [step : {"commit"}, user : UserIds, rest : SUBSET AccountIds,
                    gone : SUBSET AccountIds, met : BOOLEAN]

VARIABLES
  user,     \* user[u]: the auth.users row, or Unborn, or Gone
  account,  \* account[a]: the auth.accounts row, or Unborn, or Gone
  call,     \* call[r]: what r is doing, or NoCall
  once      \* history: the users whose profile was ever submitted

vars == <<user, account, call, once>>

IsUser(u) == user[u] \notin {Unborn, Gone}
IsAccount(a) == account[a] \notin {Unborn, Gone}

RowsOf(u) == {a \in AccountIds : IsAccount(a) /\ account[a].user = u}

(* listRolesForUser.                                                       *)
RolesOf(u) == {account[a].role : a \in RowsOf(u)}

Same(u, o, p) == {a \in RowsOf(u) : account[a].org = o /\ account[a].role = p}

(* Mutant: an insert is not preceded by a search.                          *)
NeverFound(u, o, p) == FALSE

Exists(u, o, p) == Same(u, o, p) # {}

Supers == {a \in AccountIds : IsAccount(a) /\ account[a].role = Super}

Step(r, s) == call[r] # NoCall /\ call[r].step = s
Goto(r, c) == call' = [call EXCEPT ![r] = c]
At(r, s) == [call[r] EXCEPT !.step = s]
End(r) == Goto(r, NoCall)

Init ==
  /\ user = [u \in UserIds |-> Unborn]
  /\ account = [a \in AccountIds |-> Unborn]
  /\ call = [r \in Requests |-> NoCall]
  /\ once = {}

-----------------------------------------------------------------------------
(* An account is looked for (step "look"), and inserted when it is not     *)
(* there (step "insert"); "boot" comes before, for a sign-in.              *)
Seeking(s, u, e, o, p) == [step |-> s, user |-> u, email |-> e, org |-> o, role |-> p]

(* findOrCreateFromSamlSession finds the address as it is spelled.         *)
SignIn(r, e, o, p) ==
  /\ call[r] = NoCall
  /\ LET known == {u \in UserIds : IsUser(u) /\ user[u].email = e} IN
     IF known = {} THEN Goto(r, [step |-> "create", email |-> e, org |-> o, role |-> p])
     ELSE \E u \in known : Goto(r, Seeking("boot", u, e, o, p))
  /\ UNCHANGED <<user, account>>

(* users.email is unique, as it is spelled.                                *)
Taken(e) == \E u \in UserIds : IsUser(u) /\ user[u].email = e

CreateUser(r) ==
  LET c == call[r] IN
  /\ Step(r, "create")
  /\ IF Taken(c.email) THEN End(r) /\ UNCHANGED user
     ELSE \E u \in UserIds :
            /\ user[u] = Unborn
            /\ user' = [user EXCEPT ![u] = [email |-> c.email, submitted |-> FALSE,
                                            completed |-> FALSE]]
            /\ Goto(r, Seeking("boot", u, c.email, c.org, c.role))
  /\ UNCHANGED account

(* provisionFromSamlSession goes on with the account, unless the identity  *)
(* provider sends no role.                                                 *)
Provision(r) == IF call[r].role = NoRole THEN End(r) ELSE Goto(r, At(r, "look"))

FirstSuper(e) == Fold[e] = Bootstrap /\ Supers = {}

(* tryGrantBootstrapSuperOnLogin.                                          *)
TryBootstrap(r) ==
  /\ Step(r, "boot")
  /\ IF FirstSuper(call[r].email) THEN Goto(r, At(r, "super")) ELSE Provision(r)
  /\ UNCHANGED <<user, account>>

(* accounts.user_id references users: no row is inserted for a user who    *)
(* is gone.                                                                *)
Insert(u, o, p) ==
  /\ IsUser(u)
  /\ \E a \in AccountIds :
       /\ account[a] = Unborn
       /\ account' = [account EXCEPT ![a] = [user |-> u, org |-> o, role |-> p]]
  /\ UNCHANGED user

(* grantSuperRoleIfFirst looks for the row once more, and inserts it.      *)
GrantSuper(r) ==
  /\ Step(r, "super")
  /\ IF Exists(call[r].user, BootOrg, Super) THEN Provision(r)
     ELSE Goto(r, At(r, "promote"))
  /\ UNCHANGED <<user, account>>

Promote(r) ==
  /\ Step(r, "promote")
  /\ \/ Insert(call[r].user, BootOrg, Super) /\ Provision(r)
     \/ ~IsUser(call[r].user) /\ End(r) /\ UNCHANGED <<user, account>>

(* ensureBootstrapSuperAdminIfNeeded, at the start: every call of the      *)
(* process before is gone, transactions are rolled back.                   *)
Restart(r) ==
  /\ \/ \E u \in UserIds :
          /\ Supers = {} /\ IsUser(u) /\ Fold[user[u].email] = Bootstrap
          /\ call' = [q \in Requests |-> IF q = r
                        THEN Seeking("boot", u, user[u].email, BootOrg, NoRole)
                        ELSE NoCall]
     \/ call' = [q \in Requests |-> NoCall]
  /\ UNCHANGED <<user, account>>

LookForAccount(r) ==
  LET c == call[r] IN
  /\ Step(r, "look")
  /\ IF Exists(c.user, c.org, c.role) THEN End(r) ELSE Goto(r, At(r, "insert"))
  /\ UNCHANGED <<user, account>>

InsertAccount(r) ==
  LET c == call[r] IN
  /\ Step(r, "insert")
  /\ \/ Insert(c.user, c.org, c.role)
     \/ ~IsUser(c.user) /\ UNCHANGED <<user, account>>
  /\ End(r)

(* grantAdministrator, by a super-administrator; the address is compared   *)
(* in lower case.                                                          *)
GrantAdministrator(r, u, o) ==
  /\ call[r] = NoCall /\ IsUser(u) /\ Supers # {}
  /\ Goto(r, Seeking("look", u, user[u].email, o, Administrator))
  /\ UNCHANGED <<user, account>>

(* grant-user-role: the super role belongs to the internal organization.   *)
GrantUserRole(r, u, o, p) ==
  /\ call[r] = NoCall /\ IsUser(u) /\ (p = Super => o = BootOrg)
  /\ Goto(r, Seeking("look", u, user[u].email, o, p))
  /\ UNCHANGED <<user, account>>

(* register-user, of an address in lower case, is one transaction: the     *)
(* user is looked for, then inserted or updated, then the account is       *)
(* looked for, and inserted.  What it writes is seen by others at its end. *)
RegisterUser(r, e, o, p, complete) ==
  LET known == {u \in UserIds : IsUser(u) /\ Fold[user[u].email] = e} IN
  /\ call[r] = NoCall /\ (p = Super => o = BootOrg)
  /\ IF known = {}
     THEN Goto(r, [step |-> "admit", email |-> e, org |-> o, role |-> p,
                   complete |-> complete])
     ELSE \E u \in known :
            Goto(r, [step |-> "probe", user |-> u, org |-> o, role |-> p,
                     complete |-> complete])
  /\ UNCHANGED <<user, account>>

(* The address was inserted by another meanwhile: nothing is.              *)
RegisterNew(r) ==
  LET c == call[r] IN
  /\ Step(r, "admit")
  /\ IF Taken(c.email) THEN UNCHANGED <<user, account>>
     ELSE \E u \in UserIds, a \in AccountIds :
            /\ user[u] = Unborn /\ account[a] = Unborn
            /\ user' = [user EXCEPT ![u] = [email |-> c.email, submitted |-> c.complete,
                                            completed |-> c.complete]]
            /\ account' = [account EXCEPT ![a] = [user |-> u, org |-> c.org,
                                                   role |-> c.role]]
  /\ End(r)

ProbeAccount(r) ==
  LET c == call[r] IN
  /\ Step(r, "probe")
  /\ Goto(r, At(r, IF Exists(c.user, c.org, c.role) THEN "amend" ELSE "affix"))
  /\ UNCHANGED <<user, account>>

(* The columns that --complete-registration sets, all in one UPDATE.       *)
Amend(u, complete) ==
  user' = [user EXCEPT ![u].submitted = @ \/ complete, ![u].completed = @ \/ complete]

(* A user who is gone is not updated, and gets no account.                 *)
RegisterKnown(r) ==
  LET c == call[r] IN
  /\ \/ /\ Step(r, "amend") /\ IsUser(c.user)
        /\ Amend(c.user, c.complete) /\ UNCHANGED account
     \/ /\ Step(r, "affix") /\ IsUser(c.user) /\ Amend(c.user, c.complete)
        /\ \E a \in AccountIds :
             /\ account[a] = Unborn
             /\ account' = [account EXCEPT ![a] = [user |-> c.user, org |-> c.org,
                                                    role |-> c.role]]
     \/ /\ Step(r, "amend") \/ Step(r, "affix")
        /\ ~IsUser(c.user) /\ UNCHANGED <<user, account>>
  /\ End(r)

-----------------------------------------------------------------------------
(* A removal of the accounts rest of u, gone so far; met: another removal  *)
(* of an account of u was committed meanwhile.                             *)
Removing(u, rest) ==
  [step |-> "delete", user |-> u, rest |-> rest, gone |-> {}, met |-> FALSE]

InRemoval == {"delete", "count", "drop", "commit"}
Removes(r) == call[r] # NoCall /\ call[r].step \in InRemoval

(* resolveAccountDeletionActor.                                            *)
MayDelete(actor, o) ==
  Super \in RolesOf(actor) \/ Same(actor, o, Administrator) # {}

(* assertDeletionAllowed.                                                  *)
Deletable(actor, a) ==
  /\ account[a].role # Super /\ Super \notin RolesOf(account[a].user)
  /\ Super \in RolesOf(actor) \/ account[a].role # Administrator

(* deleteOrganizationAccount.                                              *)
DeleteAccount(r, actor, a) ==
  /\ call[r] = NoCall /\ IsAccount(a)
  /\ MayDelete(actor, account[a].org) /\ Deletable(actor, a)
  /\ Goto(r, Removing(account[a].user, {a}))
  /\ UNCHANGED <<user, account>>

(* revokeAdministrator, by a super-administrator.                          *)
RevokeAdministrator(r, a) ==
  /\ call[r] = NoCall /\ IsAccount(a) /\ Supers # {}
  /\ account[a].role = Administrator
  /\ Goto(r, Removing(account[a].user, {a}))
  /\ UNCHANGED <<user, account>>

(* revoke-user-role.                                                       *)
RevokeUserRole(r, a) ==
  /\ call[r] = NoCall /\ IsAccount(a)
  /\ account[a].role = Super => account[a].org = BootOrg
  /\ Goto(r, Removing(account[a].user, {a}))
  /\ UNCHANGED <<user, account>>

(* unregister-user, from one organization or from all.                     *)
UnregisterUser(r, u, orgs) ==
  LET rows == {a \in RowsOf(u) : account[a].org \in orgs} IN
  /\ call[r] = NoCall /\ rows # {}
  /\ Goto(r, Removing(u, rows))
  /\ UNCHANGED <<user, account>>

Holds(q, a) == Removes(q) /\ a \in call[q].gone

(* purgeAccountData, which an account that owns groups makes fail (see     *)
(* Fail), and the deletion of the account.  The row is locked until the    *)
(* end; a row that is gone is not missed.                                  *)
DeleteRow(r) ==
  /\ Step(r, "delete")
  /\ \E a \in call[r].rest :
       /\ \A q \in Requests \ {r} : ~Holds(q, a)
       /\ Goto(r, [call[r] EXCEPT !.step = "count", !.rest = @ \ {a},
                                  !.gone = @ \cup {a}])
  /\ UNCHANGED <<user, account>>

(* Mutant: the accounts are counted before the row is deleted.             *)
Counted(r) == RowsOf(call[r].user)

(* The own deletions are seen, those of other transactions are not.        *)
Remaining(r) == RowsOf(call[r].user) \ call[r].gone

(* removeUserIfOrphaned.                                                   *)
CountRemaining(r) ==
  /\ Step(r, "count")
  /\ Goto(r, At(r, IF Remaining(r) = {} /\ IsUser(call[r].user) THEN "drop"
                   ELSE IF call[r].rest # {} THEN "delete" ELSE "commit"))
  /\ UNCHANGED <<user, account>>

(* The transaction's deletions become visible.                             *)
Commit(r) ==
  /\ account' = [a \in AccountIds |-> IF a \in call[r].gone THEN Gone ELSE account[a]]
  /\ call' = [q \in Requests |->
                IF q = r THEN NoCall
                ELSE IF Removes(q) /\ call[q].user = call[r].user
                THEN [call[q] EXCEPT !.met = TRUE] ELSE call[q]]

KeepUser(r) == Step(r, "commit") /\ Commit(r) /\ UNCHANGED user

(* The user goes with the sessions and the links; the foreign key refuses  *)
(* it when an account was inserted meanwhile, and waits for a transaction  *)
(* that deletes one.                                                       *)
DropUser(r) ==
  LET u == call[r].user IN
  /\ Step(r, "drop")
  /\ IF Remaining(r) = {}
     THEN Commit(r) /\ user' = [user EXCEPT ![u] = Gone]
     ELSE /\ \A q \in Requests, a \in Remaining(r) : ~Holds(q, a)
          /\ End(r) /\ UNCHANGED <<user, account>>

(* A statement fails, or a deadlock is resolved: the call ends, and a      *)
(* transaction leaves no trace.                                            *)
Fail(r) == call[r] # NoCall /\ End(r) /\ UNCHANGED <<user, account>>

-----------------------------------------------------------------------------
(* Mutant: the EULA is accepted before the profile.                        *)
AnyProfile(row) == TRUE

(* acceptEula needs a profile that was submitted.                          *)
MayAccept(row) == row.submitted

(* A copy of the row is changed, to be saved later.                        *)
Edit(r, u, row) ==
  /\ call[r] = NoCall /\ IsUser(u)
  /\ Goto(r, [step |-> "save", user |-> u, row |-> row])
  /\ UNCHANGED <<user, account>>

UpdateSettings(r, u) == Edit(r, u, user[u])

UpdateProfile(r, u) ==
  IsUser(u) /\ Edit(r, u, [user[u] EXCEPT !.submitted = TRUE])

AcceptEula(r, u) ==
  IsUser(u) /\ MayAccept(user[u]) /\ Edit(r, u, [user[u] EXCEPT !.completed = TRUE])

(* save: the row is selected, and the columns in which the copy differs    *)
(* from it are to be written; a row that is gone is to be inserted.        *)
Columns == {"submitted", "completed"}

CompareProfile(r) ==
  LET c == call[r] IN
  /\ Step(r, "save")
  /\ IF IsUser(c.user)
     THEN Goto(r, [step |-> "write", user |-> c.user,
                   set |-> [f \in {g \in Columns : c.row[g] # user[c.user][g]}
                              |-> c.row[f]]])
     ELSE Goto(r, At(r, "restore"))
  /\ UNCHANGED <<user, account>>

(* The UPDATE; of a row that is gone meanwhile it finds nothing.           *)
WriteProfile(r) ==
  LET c == call[r] IN
  /\ Step(r, "write")
  /\ user' = IF IsUser(c.user)
             THEN [user EXCEPT ![c.user] =
                     [f \in DOMAIN @ |-> IF f \in DOMAIN c.set THEN c.set[f] ELSE @[f]]]
             ELSE user
  /\ End(r)
  /\ UNCHANGED account

(* The INSERT, refused when the address, or the row, is back meanwhile.    *)
RestoreProfile(r) ==
  LET c == call[r] IN
  /\ Step(r, "restore")
  /\ user' = IF Taken(c.row.email) THEN user ELSE [user EXCEPT ![c.user] = c.row]
  /\ End(r)
  /\ UNCHANGED account

-----------------------------------------------------------------------------
Move(r) ==
  \/ \E e \in Emails, o \in Orgs, p \in Mapped \cup {NoRole} : SignIn(r, e, o, p)
  \/ CreateUser(r) \/ TryBootstrap(r) \/ GrantSuper(r) \/ Promote(r) \/ Restart(r)
  \/ LookForAccount(r) \/ InsertAccount(r)
  \/ \E e \in {Fold[f] : f \in Emails}, o \in Orgs, p \in Roles, complete \in BOOLEAN :
       RegisterUser(r, e, o, p, complete)
  \/ RegisterNew(r) \/ ProbeAccount(r) \/ RegisterKnown(r)
  \/ \E u \in Editors : UpdateSettings(r, u) \/ UpdateProfile(r, u) \/ AcceptEula(r, u)
  \/ \E u \in UserIds :
       \/ \E a \in AccountIds : DeleteAccount(r, u, a)
       \/ \E orgs \in {{o} : o \in Orgs} \cup {Orgs} : UnregisterUser(r, u, orgs)
       \/ \E o \in Orgs : GrantAdministrator(r, u, o)
       \/ \E o \in Orgs, p \in Roles : GrantUserRole(r, u, o, p)
  \/ \E a \in AccountIds : RevokeAdministrator(r, a) \/ RevokeUserRole(r, a)
  \/ DeleteRow(r) \/ CountRemaining(r) \/ KeepUser(r)
  \/ DropUser(r) \/ Fail(r)
  \/ CompareProfile(r) \/ WriteProfile(r) \/ RestoreProfile(r)

Next ==
  /\ \E r \in Requests : Move(r)
  /\ once' = once \cup {u \in UserIds : IsUser(u)' /\ user'[u].submitted}

Spec == Init /\ [][Next]_vars

-----------------------------------------------------------------------------
(* The calls that are about to insert a row with this key.                 *)
Inserting(u, o, p) ==
  {r \in Requests : ((Step(r, "insert") \/ Step(r, "affix")) /\ call[r].user = u
                      /\ call[r].org = o /\ call[r].role = p)
                    \/ (Step(r, "promote") /\ call[r].user = u /\ o = BootOrg /\ p = Super)}

(* No key of the table forbids a second account with the same organization *)
(* and role; only calls under way at once add one, so there are never more *)
(* rows than calls can overlap, and the next call adds none.               *)
FewDuplicates ==
  \A u \in UserIds, o \in Orgs, p \in Roles :
    Cardinality(Same(u, o, p)) <= Cardinality(Requests)

(* A removal that keeps the user leaves an account to it, unless another   *)
(* removal overlapped and each counted the account the other deletes.      *)
KeptUserHasAccount ==
  [][\A r \in Requests :
       Step(r, "commit") /\ call'[r] = NoCall /\ account' # account /\ ~call[r].met
         => \/ user'[call[r].user] = Gone
            \/ \E a \in AccountIds : /\ account'[a] \notin {Unborn, Gone}
                                      /\ account'[a].user = call[r].user]_vars

(* Nobody completes the registration who never submitted a profile,        *)
(* whatever copies of the row are compared, written over each other and    *)
(* restored.  (That the profile is still submitted does not hold: a        *)
(* settings save that compares an old copy clears the column again.)       *)
CompletedOnceSubmitted ==
  \A u \in UserIds : IsUser(u) /\ user[u].completed => u \in once
=============================================================================
