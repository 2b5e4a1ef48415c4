---------------------------- MODULE AccountsProofs ----------------------------
(***************************************************************************)
(* What Accounts promises about duplicate accounts, registrations and      *)
(* removals, for every number of users, accounts, roles and calls that     *)
(* overlap.                                                                *)
(***************************************************************************)
EXTENDS Accounts, FiniteSetTheorems, TLAPS

(* The calls, step by step.                                                *)
CreateCall == [step : {"create"}, email : Emails, org : Orgs, role : Roles \cup {NoRole}]
SeekCall(steps, roles) ==
  [step : steps, user : UserIds, email : Emails, org : Orgs, role : roles]
BootCall == SeekCall({"boot", "super", "promote"}, Roles \cup {NoRole})
LookCall == SeekCall({"look", "insert"}, Roles)
RemovalCall ==
  [step : InRemoval, user : UserIds, rest : SUBSET AccountIds, gone : SUBSET AccountIds,
   met : BOOLEAN]
AdmitCall ==
  [step : {"admit"}, email : Emails, org : Orgs, role : Roles, complete : BOOLEAN]
KnownCall ==
  [step : {"probe", "amend", "affix"}, user : UserIds, org : Orgs, role : Roles,
   complete : BOOLEAN]
CopyCall == [step : {"save", "restore"}, user : UserIds, row : UserRow]
WriteCall ==
  [step : {"write"}, user : UserIds, set : UNION {[D -> BOOLEAN] : D \in SUBSET Columns}]

CallRow ==
  CreateCall \cup BootCall \cup LookCall \cup RemovalCall \cup AdmitCall \cup KnownCall
    \cup CopyCall \cup WriteCall

TypeOK ==
  /\ user \in [UserIds -> UserRow \cup {Unborn, Gone}]
  /\ account \in [AccountIds -> AccountRow \cup {Unborn, Gone}]
  /\ call \in [Requests -> CallRow \cup {NoCall}]

(* A row that is a duplicate was inserted by one of the calls that found   *)
(* none: rows and calls about to insert are never more than the calls.     *)
Bounded ==
  \A u \in UserIds, o \in Orgs, p \in Roles :
    Cardinality(Same(u, o, p)) + Cardinality(Inserting(u, o, p)) <= Cardinality(Requests)

(* An account belongs to a user who was once inserted.                     *)
Owned == \A a \in AccountIds : IsAccount(a) => user[account[a].user] # Unborn

IInv == TypeOK /\ Owned /\ Bounded

-----------------------------------------------------------------------------
(* The sets that are counted are finite.                                   *)
LEMMA SetsFinite ==
  ASSUME NEW u, NEW o, NEW p
  PROVE  /\ IsFiniteSet(Same(u, o, p)) /\ Cardinality(Same(u, o, p)) \in Nat
         /\ IsFiniteSet(Inserting(u, o, p)) /\ Cardinality(Inserting(u, o, p)) \in Nat
         /\ Cardinality(Inserting(u, o, p)) <= Cardinality(Requests)
         /\ Cardinality(Requests) \in Nat
<1>1. Same(u, o, p) \subseteq AccountIds /\ Inserting(u, o, p) \subseteq Requests
  BY DEF Same, RowsOf, Inserting
<1>2. QED
  BY <1>1, AccountsAssumption, FS_Subset, FS_CardinalityType

(* IInv holds at the beginning.                                            *)
LEMMA IInvInit == Init => IInv
<1> SUFFICES ASSUME Init PROVE IInv
  OBVIOUS
<1>1. TypeOK /\ Owned
  BY DEF Init, TypeOK, Owned, IsAccount
<1>2. ASSUME NEW u \in UserIds, NEW o \in Orgs, NEW p \in Roles
      PROVE  Same(u, o, p) = {}
  BY DEF Init, Same, RowsOf, IsAccount
<1>3. QED  BY <1>1, <1>2, SetsFinite, FS_EmptySet DEF IInv, Bounded

(* A step that inserts no account and lets no call begin to insert one     *)
(* keeps the bound.                                                        *)
LEMMA FewerBounded ==
  ASSUME Bounded, NEW u \in UserIds, NEW o \in Orgs, NEW p \in Roles,
         Same(u, o, p)' \subseteq Same(u, o, p), Inserting(u, o, p)' \subseteq Inserting(u, o, p)
  PROVE  Cardinality(Same(u, o, p))' + Cardinality(Inserting(u, o, p))' <= Cardinality(Requests)
<1>1. /\ Cardinality(Same(u, o, p)') <= Cardinality(Same(u, o, p))
      /\ Cardinality(Inserting(u, o, p)') <= Cardinality(Inserting(u, o, p))
      /\ Cardinality(Same(u, o, p)') \in Nat /\ Cardinality(Inserting(u, o, p)') \in Nat
  BY SetsFinite, FS_Subset, FS_CardinalityType
<1>2. Cardinality(Same(u, o, p)) + Cardinality(Inserting(u, o, p)) <= Cardinality(Requests)
  BY DEF Bounded
<1> DEFINE a == Cardinality(Same(u, o, p))   b == Cardinality(Inserting(u, o, p))
           c == Cardinality(Same(u, o, p)')  d == Cardinality(Inserting(u, o, p)')
           n == Cardinality(Requests)
<1>3. a \in Nat /\ b \in Nat /\ c \in Nat /\ d \in Nat /\ n \in Nat /\ c <= a /\ d <= b /\ a + b <= n
  BY <1>1, <1>2, SetsFinite
<1> HIDE DEF a, b, c, d, n
<1>4. c + d <= n
  BY <1>3
<1>5. QED  BY <1>4 DEF c, d, n

(* The step tells the fields of a call.                                    *)
LEMMA StepTyped ==
  ASSUME TypeOK, NEW r \in Requests, call[r] # NoCall
  PROVE  /\ call[r].step = "create" => call[r] \in CreateCall
         /\ call[r].step \in {"boot", "super", "promote"} => call[r] \in BootCall
         /\ call[r].step \in {"look", "insert"} => call[r] \in LookCall
         /\ call[r].step \in InRemoval => call[r] \in RemovalCall
         /\ call[r].step = "admit" => call[r] \in AdmitCall
         /\ call[r].step \in {"probe", "amend", "affix"} => call[r] \in KnownCall
         /\ call[r].step \in {"save", "restore"} => call[r] \in CopyCall
         /\ call[r].step = "write" => call[r] \in WriteCall
<1>1. call[r] \in CallRow
  BY DEF TypeOK
<1>2. QED
  BY <1>1 DEF CallRow, CreateCall, BootCall, LookCall, SeekCall, RemovalCall, InRemoval,
     AdmitCall, KnownCall, CopyCall, WriteCall

(* A call that goes on without an insert or a promotion in sight.          *)
Quiet(r) ==
  /\ UNCHANGED <<user, account>>
  /\ \/ End(r)
     \/ \E c \in CallRow : c.step \notin {"insert", "promote", "affix"} /\ Goto(r, c)

LEMMA QuietKeeps ==
  ASSUME IInv, NEW r \in Requests, Quiet(r)
  PROVE  IInv'
<1>1. PICK c \in CallRow \cup {NoCall} :
        /\ c = NoCall \/ c.step \notin {"insert", "promote", "affix"}
        /\ call' = [call EXCEPT ![r] = c]
  BY DEF Quiet, End, Goto
<1>2. UNCHANGED <<user, account>>
  BY DEF Quiet
<1>3. TypeOK'
  BY <1>1, <1>2 DEF IInv, TypeOK
<1>4. \A q \in Requests : q # r => call'[q] = call[q]
  BY <1>1 DEF IInv, TypeOK
<1>5. call'[r] = c
  BY <1>1 DEF IInv, TypeOK
<1>6. ASSUME NEW u \in UserIds, NEW o \in Orgs, NEW p \in Roles
      PROVE  Cardinality(Same(u, o, p))' + Cardinality(Inserting(u, o, p))'
               <= Cardinality(Requests)
  <2>1. Same(u, o, p)' \subseteq Same(u, o, p)
    BY <1>2 DEF Same, RowsOf, IsAccount
  <2>2. Inserting(u, o, p)' \subseteq Inserting(u, o, p)
    BY <1>1, <1>4, <1>5 DEF Inserting, Step
  <2>3. QED  BY <2>1, <2>2, FewerBounded DEF IInv
<1>7. Owned'
  BY <1>2 DEF IInv, Owned, IsAccount
<1>8. QED  BY <1>3, <1>6, <1>7 DEF IInv, Bounded

(* The calls that begin, and those that only look.                         *)
LEMMA LookKeeps ==
  ASSUME IInv, NEW r \in Requests,
         \/ \E e \in Emails, o \in Orgs, p \in Mapped \cup {NoRole} : SignIn(r, e, o, p)
         \/ TryBootstrap(r) \/ Fail(r)
         \/ \E u \in UserIds :
              \/ \E o \in Orgs : GrantAdministrator(r, u, o)
              \/ \E o \in Orgs, p \in Roles : GrantUserRole(r, u, o, p)
         \/ \E e \in {Fold[f] : f \in Emails}, o \in Orgs, p \in Roles, complete \in BOOLEAN :
              RegisterUser(r, e, o, p, complete)
  PROVE  IInv'
<1> USE AccountsAssumption
<1>1. TypeOK
  BY DEF IInv
<1>2. SUFFICES ASSUME TRUE PROVE Quiet(r)
  BY QuietKeeps
<1>3. ASSUME NEW e \in Emails, NEW o \in Orgs, NEW p \in Roles \cup {NoRole}, SignIn(r, e, o, p)
      PROVE  Quiet(r)
  <2>1. [step |-> "create", email |-> e, org |-> o, role |-> p] \in CallRow
    BY DEF CallRow, CreateCall
  <2>2. ASSUME NEW u \in UserIds PROVE Seeking("boot", u, e, o, p) \in CallRow
    BY DEF CallRow, BootCall, SeekCall, Seeking
  <2>3. QED  BY <1>3, <2>1, <2>2 DEF SignIn, Quiet, Seeking
<1>4. CASE TryBootstrap(r)
  <2>1. call[r] \in BootCall
    BY <1>1, <1>4, StepTyped DEF TryBootstrap, Step
  <2>2. At(r, "super") \in CallRow
    BY <2>1 DEF At, CallRow, BootCall, SeekCall
  <2>3. call[r].role # NoRole => At(r, "look") \in CallRow
    BY <2>1 DEF At, CallRow, BootCall, LookCall, SeekCall
  <2>4. At(r, "super").step = "super" /\ At(r, "look").step = "look"
    BY <2>1 DEF At, BootCall, SeekCall
  <2>5. QED  BY <1>4, <2>2, <2>3, <2>4 DEF TryBootstrap, Provision, Quiet
<1>5. ASSUME NEW u \in UserIds, NEW o \in Orgs, NEW p \in Roles, IsUser(u),
             UNCHANGED <<user, account>>, Goto(r, Seeking("look", u, user[u].email, o, p))
      PROVE  Quiet(r)
  <2>1. Seeking("look", u, user[u].email, o, p) \in CallRow
    BY <1>1, <1>5 DEF CallRow, LookCall, SeekCall, Seeking, TypeOK, IsUser, UserRow
  <2>2. QED  BY <1>5, <2>1 DEF Quiet, Seeking
<1>6. CASE Fail(r)
  BY <1>6 DEF Fail, Quiet
<1>7. ASSUME NEW e \in {Fold[f] : f \in Emails}, NEW o \in Orgs, NEW p \in Roles,
             NEW complete \in BOOLEAN, RegisterUser(r, e, o, p, complete)
      PROVE  Quiet(r)
  <2>1. e \in Emails
    OBVIOUS
  <2>2. [step |-> "admit", email |-> e, org |-> o, role |-> p, complete |-> complete] \in CallRow
    BY <2>1 DEF CallRow, AdmitCall
  <2>3. ASSUME NEW u \in UserIds
        PROVE  [step |-> "probe", user |-> u, org |-> o, role |-> p, complete |-> complete]
                 \in CallRow
    BY DEF CallRow, KnownCall
  <2>4. QED  BY <1>7, <2>2, <2>3 DEF RegisterUser, Quiet
<1>8. QED
  BY <1>3, <1>4, <1>5, <1>6, <1>7 DEF GrantAdministrator, GrantUserRole

(* So do the removals, up to their end.                                    *)
LEMMA RemovalKeeps ==
  ASSUME IInv, NEW r \in Requests,
         \/ \E u \in UserIds :
              \/ \E a \in AccountIds : DeleteAccount(r, u, a)
              \/ \E orgs \in {{o} : o \in Orgs} \cup {Orgs} : UnregisterUser(r, u, orgs)
         \/ \E a \in AccountIds : RevokeAdministrator(r, a) \/ RevokeUserRole(r, a)
         \/ DeleteRow(r) \/ CountRemaining(r)
  PROVE  IInv'
<1> USE AccountsAssumption
<1>1. TypeOK
  BY DEF IInv
<1>2. SUFFICES ASSUME TRUE PROVE Quiet(r)
  BY QuietKeeps
<1>3. ASSUME NEW u \in UserIds, NEW rest \in SUBSET AccountIds,
             UNCHANGED <<user, account>>, Goto(r, Removing(u, rest))
      PROVE  Quiet(r)
  <2>1. Removing(u, rest) \in CallRow /\ Removing(u, rest).step = "delete"
    BY DEF Removing, CallRow, RemovalCall, InRemoval
  <2>2. QED  BY <1>3, <2>1 DEF Quiet
<1>4. ASSUME NEW a \in AccountIds, IsAccount(a)
      PROVE  account[a].user \in UserIds
  BY <1>1, <1>4 DEF TypeOK, IsAccount, AccountRow
<1>5. ASSUME NEW a \in AccountIds, NEW u, DeleteAccount(r, u, a)
      PROVE  Quiet(r)
  BY <1>3, <1>4, <1>5 DEF DeleteAccount
<1>6. ASSUME NEW a \in AccountIds, RevokeAdministrator(r, a) \/ RevokeUserRole(r, a)
      PROVE  Quiet(r)
  BY <1>3, <1>4, <1>6 DEF RevokeAdministrator, RevokeUserRole
<1>7. ASSUME NEW u \in UserIds, NEW orgs, UnregisterUser(r, u, orgs)
      PROVE  Quiet(r)
  <2>1. {a \in RowsOf(u) : account[a].org \in orgs} \in SUBSET AccountIds
    BY DEF RowsOf
  <2>2. QED  BY <1>3, <1>7, <2>1 DEF UnregisterUser
<1>8. ASSUME call[r] # NoCall, call[r].step \in InRemoval PROVE call[r] \in RemovalCall
  BY <1>1, <1>8, StepTyped
<1>9. ASSUME call[r] \in RemovalCall, NEW s \in InRemoval
      PROVE  At(r, s) \in CallRow /\ At(r, s).step = s
  BY <1>9 DEF At, RemovalCall, CallRow
<1>10. CASE CountRemaining(r)
  BY <1>8, <1>9, <1>10 DEF CountRemaining, Step, Quiet, InRemoval
<1>11. CASE DeleteRow(r)
  <2>1. call[r] \in RemovalCall
    BY <1>8, <1>11 DEF DeleteRow, Step, InRemoval
  <2>2. PICK a \in call[r].rest :
          Goto(r, [call[r] EXCEPT !.step = "count", !.rest = @ \ {a}, !.gone = @ \cup {a}])
    BY <1>11 DEF DeleteRow
  <2> DEFINE c == [call[r] EXCEPT !.step = "count", !.rest = @ \ {a}, !.gone = @ \cup {a}]
  <2>3. c \in RemovalCall /\ c.step = "count"
    BY <2>1, <2>2 DEF RemovalCall, InRemoval
  <2>4. QED  BY <1>11, <2>2, <2>3 DEF DeleteRow, Quiet, CallRow
<1>12. QED  BY <1>5, <1>6, <1>7, <1>10, <1>11

(* What a request turns to, and what the others do.                        *)
LEMMA Turns ==
  ASSUME TypeOK, NEW r \in Requests, NEW c \in CallRow \cup {NoCall}, Goto(r, c)
  PROVE  /\ call' \in [Requests -> CallRow \cup {NoCall}] /\ call'[r] = c
         /\ \A q \in Requests : q # r => call'[q] = call[q]
  BY DEF TypeOK, Goto

(* A call that found no account begins to insert one: whoever else is      *)
(* about to insert the same one is a call, too.                            *)
LEMMA BeginInsert ==
  ASSUME IInv, NEW r \in Requests, NEW k \in UserIds, NEW ko \in Orgs, NEW kp \in Roles,
         ~Exists(k, ko, kp), UNCHANGED <<user, account>>,
         NEW c \in CallRow, Goto(r, c),
         \/ c.step \in {"insert", "affix"} /\ c.user = k /\ c.org = ko /\ c.role = kp
         \/ c.step = "promote" /\ c.user = k /\ BootOrg = ko /\ Super = kp
  PROVE  IInv'
<1>1. TypeOK'
  BY Turns DEF IInv, TypeOK
<1>2. call'[r] = c /\ \A q \in Requests : q # r => call'[q] = call[q]
  BY Turns DEF IInv
<1>3. Owned'
  BY DEF IInv, Owned, IsAccount
<1>4. ASSUME NEW u \in UserIds, NEW o \in Orgs, NEW p \in Roles
      PROVE  Cardinality(Same(u, o, p))' + Cardinality(Inserting(u, o, p))'
               <= Cardinality(Requests)
  <2>1. Same(u, o, p)' = Same(u, o, p)
    BY DEF Same, RowsOf, IsAccount
  <2>2. CASE u = k /\ o = ko /\ p = kp
    <3>1. Same(u, o, p)' = {}
      BY <2>1, <2>2 DEF Exists
    <3>2. Inserting(u, o, p)' \subseteq Requests
      BY DEF Inserting
    <3>3. /\ Cardinality(Same(u, o, p)') = 0 /\ Cardinality(Requests) \in Nat
          /\ Cardinality(Inserting(u, o, p)') <= Cardinality(Requests)
          /\ Cardinality(Inserting(u, o, p)') \in Nat
      BY <3>1, <3>2, AccountsAssumption, FS_EmptySet, FS_Subset, FS_CardinalityType
    <3>4. QED  BY <3>3
  <2>3. CASE ~(u = k /\ o = ko /\ p = kp)
    <3>1. Inserting(u, o, p)' \subseteq Inserting(u, o, p)
      BY <1>2, <2>3 DEF Inserting, Step
    <3>2. QED  BY <2>1, <3>1, FewerBounded DEF IInv
  <2>4. QED  BY <2>2, <2>3
<1>5. QED  BY <1>1, <1>3, <1>4 DEF IInv, Bounded

(* The steps that look for an account of a certain key.                    *)
LEMMA SeekKeeps ==
  ASSUME IInv, NEW r \in Requests, LookForAccount(r) \/ GrantSuper(r) \/ ProbeAccount(r)
  PROVE  IInv'
<1> USE AccountsAssumption
<1>1. TypeOK
  BY DEF IInv
<1>2. CASE LookForAccount(r)
  <2>1. call[r] \in SeekCall({"look"}, Roles)
    BY <1>1, <1>2, StepTyped DEF LookForAccount, Step, LookCall, BootCall, SeekCall
  <2>2. CASE End(r)
    BY <1>2, <2>2, QuietKeeps DEF LookForAccount, Quiet
  <2>3. CASE ~End(r)
    <3> DEFINE c == At(r, "insert")
    <3>1. /\ c \in CallRow /\ c.step = "insert" /\ c.user = call[r].user
          /\ c.org = call[r].org /\ c.role = call[r].role
      BY <2>1 DEF At, SeekCall, LookCall, CallRow
    <3>2. call[r].user \in UserIds /\ call[r].org \in Orgs /\ call[r].role \in Roles
      BY <2>1 DEF SeekCall
    <3>3. /\ ~Exists(call[r].user, call[r].org, call[r].role) /\ Goto(r, c)
          /\ UNCHANGED <<user, account>>
      BY <1>2, <2>3 DEF LookForAccount
    <3> HIDE DEF c
    <3>4. QED  BY <3>1, <3>2, <3>3, BeginInsert
  <2>4. QED  BY <2>2, <2>3
<1>3. CASE GrantSuper(r)
  <2>1. call[r] \in SeekCall({"super"}, Roles \cup {NoRole})
    BY <1>1, <1>3, StepTyped DEF GrantSuper, Step, LookCall, BootCall, SeekCall
  <2>2. CASE Provision(r)
    <3>1. call[r].role # NoRole => At(r, "look") \in CallRow
      BY <2>1 DEF At, CallRow, LookCall, SeekCall
    <3>2. At(r, "look").step = "look"
      BY <2>1 DEF At, SeekCall
    <3>3. QED  BY <1>3, <2>2, <3>1, <3>2, QuietKeeps DEF GrantSuper, Provision, Quiet
  <2>3. CASE ~Provision(r)
    <3> DEFINE c == At(r, "promote")
    <3>1. c \in CallRow /\ c.step = "promote" /\ c.user = call[r].user
      BY <2>1 DEF At, SeekCall, BootCall, CallRow
    <3>2. call[r].user \in UserIds
      BY <2>1 DEF SeekCall
    <3>3. /\ ~Exists(call[r].user, BootOrg, Super) /\ Goto(r, c)
          /\ UNCHANGED <<user, account>>
      BY <1>3, <2>3 DEF GrantSuper
    <3> HIDE DEF c
    <3>4. QED  BY <3>1, <3>2, <3>3, BeginInsert
  <2>4. QED  BY <2>2, <2>3
<1>4. CASE ProbeAccount(r)
  <2>1. call[r] \in KnownCall /\ call[r] # NoCall
    BY <1>1, <1>4, StepTyped DEF ProbeAccount, Step
  <2>2. call[r].user \in UserIds /\ call[r].org \in Orgs /\ call[r].role \in Roles
    BY <2>1 DEF KnownCall
  <2>3. CASE Exists(call[r].user, call[r].org, call[r].role)
    <3>1. At(r, "amend") \in CallRow /\ At(r, "amend").step = "amend"
      BY <2>1 DEF At, KnownCall, CallRow
    <3>2. QED  BY <1>4, <2>3, <3>1, QuietKeeps DEF ProbeAccount, Quiet
  <2>4. CASE ~Exists(call[r].user, call[r].org, call[r].role)
    <3> DEFINE c == At(r, "affix")
    <3>1. /\ c \in CallRow /\ c.step = "affix" /\ c.user = call[r].user
          /\ c.org = call[r].org /\ c.role = call[r].role
      BY <2>1 DEF At, KnownCall, CallRow
    <3>2. Goto(r, c) /\ UNCHANGED <<user, account>>
      BY <1>4, <2>4 DEF ProbeAccount
    <3> HIDE DEF c
    <3>3. QED  BY <2>2, <2>4, <3>1, <3>2, BeginInsert
  <2>5. QED  BY <2>3, <2>4
<1>5. QED  BY <1>2, <1>3, <1>4

(* An insert takes the place of the call that was about to do it.          *)
LEMMA InsertKeeps ==
  ASSUME IInv, NEW r \in Requests, NEW k \in UserIds, NEW ko \in Orgs, NEW kp \in Roles,
         r \in Inserting(k, ko, kp), user[k] # Unborn,
         user' \in [UserIds -> UserRow \cup {Unborn, Gone}],
         \A u \in UserIds : user[u] # Unborn => user'[u] # Unborn,
         NEW a \in AccountIds, account[a] = Unborn,
         account' = [account EXCEPT ![a] = [user |-> k, org |-> ko, role |-> kp]],
         NEW c \in CallRow \cup {NoCall}, Goto(r, c),
         c = NoCall \/ c.step \notin {"insert", "promote", "affix"}
  PROVE  IInv'
<1> USE AccountsAssumption
<1>1. call'[r] = c /\ \A q \in Requests : q # r => call'[q] = call[q]
  BY Turns DEF IInv
<1>2. [user |-> k, org |-> ko, role |-> kp] \in AccountRow
  BY DEF AccountRow
<1>3. TypeOK'
  BY <1>2, Turns DEF IInv, TypeOK
<1>4. Owned'
  BY DEF IInv, TypeOK, Owned, IsAccount, AccountRow
<1>5. ASSUME NEW u \in UserIds, NEW o \in Orgs, NEW p \in Roles
      PROVE  Cardinality(Same(u, o, p))' + Cardinality(Inserting(u, o, p))'
               <= Cardinality(Requests)
  <2>1. Inserting(u, o, p)' \subseteq Inserting(u, o, p) \ {r}
    BY <1>1 DEF Inserting, Step
  <2>2. CASE u = k /\ o = ko /\ p = kp
    <3> DEFINE S == Same(u, o, p)      B == Inserting(u, o, p)
               T == Same(u, o, p)'     D == Inserting(u, o, p)'
    <3>1. T \subseteq S \cup {a}
      <4>1. \A d \in AccountIds : d # a => account'[d] = account[d]
        BY DEF IInv, TypeOK
      <4>2. QED  BY <4>1 DEF Same, RowsOf, IsAccount
    <3>2. r \in B /\ D \subseteq B \ {r}
      BY <2>1, <2>2
    <3>3. /\ IsFiniteSet(S) /\ IsFiniteSet(B) /\ Cardinality(S) \in Nat /\ Cardinality(B) \in Nat
          /\ Cardinality(Requests) \in Nat
      BY SetsFinite
    <3>4. Cardinality(S) + Cardinality(B) <= Cardinality(Requests)
      BY DEF IInv, Bounded
    <3> HIDE DEF S, B, T, D
    <3>5. /\ IsFiniteSet(S \cup {a}) /\ Cardinality(S \cup {a}) \in Nat
          /\ Cardinality(S \cup {a}) <= Cardinality(S) + 1
      <4>1. /\ IsFiniteSet(S \cup {a})
            /\ Cardinality(S \cup {a}) = IF a \in S THEN Cardinality(S) ELSE Cardinality(S) + 1
        BY <3>3, FS_AddElement
      <4>2. QED  BY <3>3, <4>1
    <3>6. Cardinality(T) \in Nat /\ Cardinality(T) <= Cardinality(S \cup {a})
      BY <3>1, <3>5, FS_Subset, FS_CardinalityType
    <3>7. IsFiniteSet(B \ {r}) /\ Cardinality(B \ {r}) = Cardinality(B) - 1
      BY <3>2, <3>3, FS_RemoveElement
    <3>8. Cardinality(D) \in Nat /\ Cardinality(D) <= Cardinality(B \ {r})
      BY <3>2, <3>7, FS_Subset, FS_CardinalityType
    <3>9. Cardinality(T) + Cardinality(D) <= Cardinality(Requests)
      BY <3>3, <3>4, <3>5, <3>6, <3>7, <3>8
    <3>10. QED  BY <3>9 DEF T, D
  <2>3. CASE ~(u = k /\ o = ko /\ p = kp)
    <3>1. Same(u, o, p)' \subseteq Same(u, o, p)
      BY <2>3 DEF IInv, TypeOK, Same, RowsOf, IsAccount
    <3>2. QED  BY <2>1, <3>1, FewerBounded DEF IInv
  <2>4. QED  BY <2>2, <2>3
<1>6. QED  BY <1>3, <1>4, <1>5 DEF IInv, Bounded

(* The same for the insert of a call that was looked for alone.            *)
LEMMA InsertOnly ==
  ASSUME IInv, NEW r \in Requests, NEW k \in UserIds, NEW ko \in Orgs, NEW kp \in Roles,
         r \in Inserting(k, ko, kp), Insert(k, ko, kp),
         NEW c \in CallRow \cup {NoCall}, Goto(r, c),
         c = NoCall \/ c.step \notin {"insert", "promote", "affix"}
  PROVE  IInv'
<1>1. PICK a \in AccountIds :
        /\ account[a] = Unborn
        /\ account' = [account EXCEPT ![a] = [user |-> k, org |-> ko, role |-> kp]]
  BY DEF Insert
<1>2. user' = user /\ user[k] # Unborn
  BY DEF Insert, IsUser
<1>3. user' \in [UserIds -> UserRow \cup {Unborn, Gone}]
  BY <1>2 DEF IInv, TypeOK
<1>4. QED  BY <1>1, <1>2, <1>3, InsertKeeps

(* The steps that insert an account that was looked for.                   *)
LEMMA InsertStepKeeps ==
  ASSUME IInv, NEW r \in Requests, InsertAccount(r) \/ Promote(r)
  PROVE  IInv'
<1> USE AccountsAssumption
<1>1. TypeOK
  BY DEF IInv
<1>2. CASE InsertAccount(r)
  <2>1. call[r] # NoCall /\ call[r].step = "insert" /\ call[r] \in LookCall
    BY <1>1, <1>2, StepTyped DEF InsertAccount, Step
  <2>2. call[r].user \in UserIds /\ call[r].org \in Orgs /\ call[r].role \in Roles
    BY <2>1 DEF LookCall, SeekCall
  <2>3. r \in Inserting(call[r].user, call[r].org, call[r].role)
    BY <2>1 DEF Inserting, Step
  <2>4. Goto(r, NoCall)
    BY <1>2 DEF InsertAccount, End
  <2>5. CASE Insert(call[r].user, call[r].org, call[r].role)
    BY <2>2, <2>3, <2>4, <2>5, InsertOnly
  <2>6. CASE UNCHANGED <<user, account>>
    BY <2>4, <2>6, QuietKeeps DEF Quiet, End
  <2>7. QED  BY <1>2, <2>5, <2>6 DEF InsertAccount
<1>3. CASE Promote(r)
  <2>1. call[r] # NoCall /\ call[r].step = "promote" /\ call[r] \in BootCall
    BY <1>1, <1>3, StepTyped DEF Promote, Step
  <2>2. call[r].user \in UserIds /\ r \in Inserting(call[r].user, BootOrg, Super)
    BY <2>1 DEF Inserting, Step, BootCall, SeekCall
  <2>3. CASE Insert(call[r].user, BootOrg, Super) /\ Provision(r)
    <3>1. \E c \in CallRow \cup {NoCall} :
            Goto(r, c) /\ (c = NoCall \/ c.step \notin {"insert", "promote", "affix"})
      <4>1. call[r].role # NoRole => At(r, "look") \in CallRow
        BY <2>1 DEF At, CallRow, BootCall, LookCall, SeekCall
      <4>2. At(r, "look").step = "look"
        BY <2>1 DEF At, BootCall, SeekCall
      <4>3. QED  BY <2>3, <4>1, <4>2 DEF Provision, End
    <3>2. QED  BY <2>2, <2>3, <3>1, InsertOnly
  <2>4. CASE End(r) /\ UNCHANGED <<user, account>>
    BY <2>4, QuietKeeps DEF Quiet
  <2>5. QED  BY <1>3, <2>3, <2>4 DEF Promote
<1>4. QED  BY <1>2, <1>3

(* A user's row may be inserted or rewritten.                              *)
LEMMA RowKeeps ==
  ASSUME IInv, NEW r \in Requests, NEW c \in CallRow \cup {NoCall}, Goto(r, c),
         c = NoCall \/ c.step \notin {"insert", "promote", "affix"},
         account' = account, user' \in [UserIds -> UserRow \cup {Unborn, Gone}],
         \A u \in UserIds : user[u] # Unborn => user'[u] # Unborn
  PROVE  IInv'
<1>1. TypeOK'
  BY Turns DEF IInv, TypeOK
<1>2. call'[r] = c /\ \A q \in Requests : q # r => call'[q] = call[q]
  BY Turns DEF IInv
<1>3. Owned'
  BY DEF IInv, TypeOK, Owned, IsAccount, AccountRow
<1>4. ASSUME NEW u \in UserIds, NEW o \in Orgs, NEW p \in Roles
      PROVE  Cardinality(Same(u, o, p))' + Cardinality(Inserting(u, o, p))'
               <= Cardinality(Requests)
  <2>1. Same(u, o, p)' \subseteq Same(u, o, p)
    BY DEF Same, RowsOf, IsAccount
  <2>2. Inserting(u, o, p)' \subseteq Inserting(u, o, p)
    BY <1>2 DEF Inserting, Step
  <2>3. QED  BY <2>1, <2>2, FewerBounded DEF IInv
<1>5. QED  BY <1>1, <1>3, <1>4 DEF IInv, Bounded

(* A sign-in that finds nobody inserts a user.                             *)
LEMMA CreateUserKeeps ==
  ASSUME IInv, NEW r \in Requests, CreateUser(r)
  PROVE  IInv'
<1> USE AccountsAssumption
<1>1. TypeOK /\ account' = account
  BY DEF IInv, CreateUser
<1>2. call[r] \in CreateCall
  BY <1>1, StepTyped DEF CreateUser, Step
<1>3. CASE End(r) /\ UNCHANGED user
  BY <1>1, <1>3, QuietKeeps DEF Quiet
<1>4. CASE ~(End(r) /\ UNCHANGED user)
  <2> DEFINE row == [email |-> call[r].email, submitted |-> FALSE, completed |-> FALSE]
  <2>1. PICK u \in UserIds :
          /\ user[u] = Unborn /\ user' = [user EXCEPT ![u] = row]
          /\ Goto(r, Seeking("boot", u, call[r].email, call[r].org, call[r].role))
    BY <1>4 DEF CreateUser
  <2>2. row \in UserRow
    BY <1>2 DEF CreateCall, UserRow
  <2> DEFINE c == Seeking("boot", u, call[r].email, call[r].org, call[r].role)
  <2>3. c \in CallRow /\ c.step = "boot"
    BY <1>2 DEF CreateCall, Seeking, CallRow, BootCall, SeekCall
  <2> HIDE DEF row, c
  <2>4. user' \in [UserIds -> UserRow \cup {Unborn, Gone}]
    BY <1>1, <2>1, <2>2 DEF TypeOK
  <2>5. ASSUME NEW v \in UserIds
        PROVE  user[v] # Unborn => user'[v] # Unborn
    BY <1>1, <2>1, <2>2 DEF TypeOK
  <2>6. Goto(r, c)
    BY <2>1 DEF c
  <2>7. QED  BY <1>1, <2>3, <2>4, <2>5, <2>6, RowKeeps
<1>5. QED  BY <1>3, <1>4

(* The copies of a profile.                                                *)
LEMMA ProfileKeeps ==
  ASSUME IInv, NEW r \in Requests,
         \/ \E u \in Editors : UpdateSettings(r, u) \/ UpdateProfile(r, u) \/ AcceptEula(r, u)
         \/ CompareProfile(r) \/ WriteProfile(r) \/ RestoreProfile(r)
  PROVE  IInv'
<1> USE AccountsAssumption
<1>1. TypeOK
  BY DEF IInv
<1>2. ASSUME NEW u \in UserIds, NEW row \in UserRow, Edit(r, u, row)
      PROVE  IInv'
  <2>1. [step |-> "save", user |-> u, row |-> row] \in CallRow
    BY <1>2 DEF CallRow, CopyCall
  <2>2. QED  BY <1>2, <2>1, QuietKeeps DEF Edit, Quiet
<1>3. ASSUME NEW u \in UserIds, IsUser(u)
      PROVE  /\ user[u] \in UserRow /\ [user[u] EXCEPT !.submitted = TRUE] \in UserRow
             /\ [user[u] EXCEPT !.completed = TRUE] \in UserRow
  BY <1>1, <1>3 DEF TypeOK, IsUser, UserRow
<1>4. CASE \E u \in Editors : UpdateSettings(r, u) \/ UpdateProfile(r, u) \/ AcceptEula(r, u)
  BY <1>2, <1>3, <1>4 DEF UpdateSettings, UpdateProfile, AcceptEula, Edit
<1>5. CASE CompareProfile(r)
  <2>1. call[r] \in CopyCall
    BY <1>1, <1>5, StepTyped DEF CompareProfile, Step
  <2> DEFINE D == {g \in Columns : call[r].row[g] # user[call[r].user][g]}
             set == [f \in D |-> call[r].row[f]]
             w == [step |-> "write", user |-> call[r].user, set |-> set]
  <2>2. At(r, "restore") \in CallRow /\ At(r, "restore").step = "restore"
    BY <2>1 DEF At, CopyCall, CallRow
  <2>3. call[r].row.submitted \in BOOLEAN /\ call[r].row.completed \in BOOLEAN
    BY <2>1 DEF CopyCall, UserRow
  <2>4. set \in [D -> BOOLEAN] /\ D \in SUBSET Columns
    BY <2>3 DEF Columns
  <2> HIDE DEF D, set
  <2>5. w \in CallRow /\ w.step = "write"
    BY <2>1, <2>4 DEF CallRow, WriteCall, CopyCall
  <2> HIDE DEF w
  <2>6. Goto(r, w) \/ Goto(r, At(r, "restore"))
    BY <1>5 DEF CompareProfile, w, set, D
  <2>7. QED  BY <1>5, <2>2, <2>5, <2>6, QuietKeeps DEF CompareProfile, Quiet
<1>6. CASE WriteProfile(r)
  <2>1. call[r] \in WriteCall
    BY <1>1, <1>6, StepTyped DEF WriteProfile, Step
  <2> DEFINE u == call[r].user  set == call[r].set
             row == [f \in DOMAIN user[u] |-> IF f \in DOMAIN set THEN set[f] ELSE user[u][f]]
  <2>2. u \in UserIds /\ \E D \in SUBSET Columns : set \in [D -> BOOLEAN]
    BY <2>1 DEF WriteCall
  <2>3. IsUser(u) => row \in UserRow
    BY <1>3, <2>2 DEF UserRow, Columns
  <2> HIDE DEF row
  <2>4. user' = user \/ (IsUser(u) /\ user' = [user EXCEPT ![u] = row])
    BY <1>1, <1>6, <2>2 DEF WriteProfile, row, TypeOK
  <2>5. /\ user' \in [UserIds -> UserRow \cup {Unborn, Gone}]
        /\ \A x \in UserIds : user[x] # Unborn => user'[x] # Unborn
    BY <1>1, <2>2, <2>3, <2>4 DEF TypeOK
  <2>6. Goto(r, NoCall) /\ account' = account
    BY <1>6 DEF WriteProfile, End
  <2>7. QED  BY <2>5, <2>6, RowKeeps
<1>7. CASE RestoreProfile(r)
  <2>1. call[r] \in CopyCall
    BY <1>1, <1>7, StepTyped DEF RestoreProfile, Step
  <2>2. call[r].row \in UserRow /\ call[r].user \in UserIds
    BY <2>1 DEF CopyCall
  <2>3. user' = user \/ user' = [user EXCEPT ![call[r].user] = call[r].row]
    BY <1>7 DEF RestoreProfile
  <2>4. /\ user' \in [UserIds -> UserRow \cup {Unborn, Gone}]
        /\ \A x \in UserIds : user[x] # Unborn => user'[x] # Unborn
    BY <1>1, <2>2, <2>3 DEF TypeOK
  <2>5. Goto(r, NoCall) /\ account' = account
    BY <1>7 DEF RestoreProfile, End
  <2>6. QED  BY <2>4, <2>5, RowKeeps
<1>8. QED  BY <1>4, <1>5, <1>6, <1>7

(* A transaction that inserts one account of a user who had none, while    *)
(* its own call ends.                                                      *)
LEMMA AddedBounded ==
  ASSUME IInv, NEW r \in Requests, Goto(r, NoCall),
         NEW a \in AccountIds, NEW k, NEW ko, NEW kp, account[a] = Unborn,
         account' = [account EXCEPT ![a] = [user |-> k, org |-> ko, role |-> kp]],
         ~Exists(k, ko, kp)
  PROVE  Bounded'
<1> SUFFICES ASSUME NEW u \in UserIds, NEW o \in Orgs, NEW p \in Roles
             PROVE  Cardinality(Same(u, o, p))' + Cardinality(Inserting(u, o, p))'
                      <= Cardinality(Requests)
  BY DEF Bounded
<1> USE AccountsAssumption
<1>1. \A d \in AccountIds : d # a => account'[d] = account[d]
  BY DEF IInv, TypeOK
<1>2. account'[a] = [user |-> k, org |-> ko, role |-> kp]
  BY DEF IInv, TypeOK
<1>3. Inserting(u, o, p)' \subseteq Inserting(u, o, p) \ {r}
  <2>1. call'[r] = NoCall /\ \A q \in Requests : q # r => call'[q] = call[q]
    BY Turns DEF IInv
  <2>2. QED  BY <2>1 DEF Inserting, Step
<1>4. CASE u = k /\ o = ko /\ p = kp
  <2> DEFINE T == Same(u, o, p)'  D == Inserting(u, o, p)'
  <2>1. T \subseteq {a}
    BY <1>1, <1>4 DEF Exists, Same, RowsOf, IsAccount
  <2>2. D \subseteq Requests \ {r}
    BY <1>3 DEF Inserting
  <2> HIDE DEF T, D
  <2>3. IsFiniteSet({a}) /\ Cardinality({a}) = 1
    BY FS_Singleton
  <2>4. Cardinality(T) <= 1 /\ Cardinality(T) \in Nat
    BY <2>1, <2>3, FS_Subset, FS_CardinalityType
  <2>5. /\ IsFiniteSet(Requests \ {r}) /\ Cardinality(Requests) \in Nat
        /\ Cardinality(Requests \ {r}) = Cardinality(Requests) - 1
    BY FS_RemoveElement, FS_CardinalityType
  <2>6. Cardinality(D) <= Cardinality(Requests \ {r}) /\ Cardinality(D) \in Nat
    BY <2>2, <2>5, FS_Subset, FS_CardinalityType
  <2>7. Cardinality(T) + Cardinality(D) <= Cardinality(Requests)
    BY <2>4, <2>5, <2>6
  <2>8. QED  BY <2>7 DEF T, D
<1>5. CASE ~(u = k /\ o = ko /\ p = kp)
  <2>1. Same(u, o, p)' \subseteq Same(u, o, p)
    BY <1>1, <1>2, <1>5 DEF Same, RowsOf, IsAccount
  <2>2. QED  BY <1>3, <2>1, FewerBounded DEF IInv
<1>6. QED  BY <1>4, <1>5

(* The columns of a user who is there.                                     *)
LEMMA Amended ==
  ASSUME TypeOK, NEW u \in UserIds, IsUser(u), NEW complete \in BOOLEAN, Amend(u, complete)
  PROVE  /\ user' \in [UserIds -> UserRow \cup {Unborn, Gone}]
         /\ \A x \in UserIds : IsUser(x) => IsUser(x)'
         /\ \A x \in UserIds : x # u => user'[x] = user[x]
         /\ user'[u] = [user[u] EXCEPT !.submitted = @ \/ complete, !.completed = @ \/ complete]
         /\ user'[u] \in UserRow
<1> USE AccountsAssumption
<1> DEFINE row == [user[u] EXCEPT !.submitted = @ \/ complete, !.completed = @ \/ complete]
<1>1. user[u] \in UserRow
  BY DEF TypeOK, IsUser
<1>2. row \in UserRow
  BY <1>1 DEF UserRow
<1>3. user' = [user EXCEPT ![u] = row]
  BY <1>1 DEF TypeOK, UserRow, Amend
<1> HIDE DEF row
<1>4. user' \in [UserIds -> UserRow \cup {Unborn, Gone}] /\ user'[u] = row
      /\ \A x \in UserIds : x # u => user'[x] = user[x]
  BY <1>2, <1>3 DEF TypeOK
<1>5. \A x \in UserIds : IsUser(x) => IsUser(x)'
  BY <1>2, <1>4 DEF IsUser
<1>6. QED  BY <1>2, <1>4, <1>5 DEF row

(* register-user adds a user, an account, or neither.                      *)
LEMMA RegisterKeeps ==
  ASSUME IInv, NEW r \in Requests, RegisterNew(r) \/ RegisterKnown(r)
  PROVE  IInv'
<1> USE AccountsAssumption
<1>1. TypeOK /\ Owned /\ Goto(r, NoCall)
  BY DEF IInv, RegisterNew, RegisterKnown, End
<1>2. CASE UNCHANGED <<user, account>>
  BY <1>1, <1>2, QuietKeeps DEF Quiet, End
<1>3. CASE RegisterNew(r) /\ ~UNCHANGED <<user, account>>
  <2> DEFINE c == call[r]
             row == [email |-> c.email, submitted |-> c.complete, completed |-> c.complete]
  <2>1. c \in AdmitCall
    BY <1>1, <1>3, StepTyped DEF RegisterNew, Step
  <2>2. PICK u \in UserIds, a \in AccountIds :
          /\ user[u] = Unborn /\ account[a] = Unborn
          /\ user' = [user EXCEPT ![u] = row]
          /\ account' = [account EXCEPT ![a] = [user |-> u, org |-> c.org, role |-> c.role]]
    BY <1>3 DEF RegisterNew
  <2>3. row \in UserRow /\ [user |-> u, org |-> c.org, role |-> c.role] \in AccountRow
    BY <2>1 DEF UserRow, AccountRow, AdmitCall
  <2> HIDE DEF row, c
  <2>4. TypeOK'
    BY <1>1, <2>2, <2>3, Turns DEF TypeOK
  <2>5. Owned'
    BY <1>1, <2>2, <2>3 DEF TypeOK, Owned, IsAccount, AccountRow
  <2>6. ~Exists(u, c.org, c.role)
    BY <1>1, <2>2 DEF Owned, Exists, Same, RowsOf
  <2>7. Bounded'
    BY <1>1, <2>2, <2>6, AddedBounded
  <2>8. QED  BY <2>4, <2>5, <2>7 DEF IInv
<1>4. CASE RegisterKnown(r) /\ ~UNCHANGED <<user, account>>
  <2> DEFINE c == call[r]
  <2>1. c \in KnownCall /\ c # NoCall
    BY <1>1, <1>4, StepTyped DEF RegisterKnown, Step
  <2>2. c.user \in UserIds /\ c.org \in Orgs /\ c.role \in Roles /\ c.complete \in BOOLEAN
    BY <2>1 DEF KnownCall
  <2>3. IsUser(c.user) /\ Amend(c.user, c.complete)
    BY <1>4 DEF RegisterKnown
  <2>4. /\ user' \in [UserIds -> UserRow \cup {Unborn, Gone}]
        /\ \A x \in UserIds : x # c.user => user'[x] = user[x]
        /\ user'[c.user] \in UserRow
    BY <1>1, <2>2, <2>3, Amended
  <2>5. \A x \in UserIds : user[x] # Unborn => user'[x] # Unborn
    BY <2>4
  <2>6. CASE account' = account
    BY <1>1, <2>4, <2>5, <2>6, RowKeeps
  <2>7. CASE account' # account
    <3>1. PICK a \in AccountIds :
            /\ account[a] = Unborn
            /\ account' = [account EXCEPT ![a] = [user |-> c.user, org |-> c.org,
                                                   role |-> c.role]]
      BY <1>4, <2>7 DEF RegisterKnown
    <3>2. r \in Inserting(c.user, c.org, c.role) /\ user[c.user] # Unborn
      BY <1>4, <2>3, <2>7 DEF RegisterKnown, Inserting, IsUser
    <3> HIDE DEF c
    <3>3. QED  BY <1>1, <2>2, <2>4, <2>5, <3>1, <3>2, InsertKeeps
  <2>8. QED  BY <2>6, <2>7
<1>5. QED  BY <1>2, <1>3, <1>4

(* The end of a removal: accounts and a user that are gone bind nothing.   *)
LEMMA CommitKeeps ==
  ASSUME IInv, NEW r \in Requests, KeepUser(r) \/ DropUser(r)
  PROVE  IInv'
<1> USE AccountsAssumption
<1>1. TypeOK /\ Owned
  BY DEF IInv
<1>2. CASE End(r) /\ UNCHANGED <<user, account>>
  BY <1>2, QuietKeeps DEF Quiet
<1>3. CASE Commit(r) /\ (user' = user \/ user' = [user EXCEPT ![call[r].user] = Gone])
  <2>1. account' \in [AccountIds -> AccountRow \cup {Unborn, Gone}]
          /\ \A a \in AccountIds : account'[a] = account[a] \/ account'[a] = Gone
    BY <1>1, <1>3 DEF Commit, TypeOK
  <2>2. user' \in [UserIds -> UserRow \cup {Unborn, Gone}]
          /\ \A u \in UserIds : user'[u] = user[u] \/ user'[u] = Gone
    BY <1>1, <1>3 DEF TypeOK
  <2>3. ASSUME NEW q \in Requests
        PROVE  /\ call'[q] \in CallRow \cup {NoCall}
               /\ \/ call'[q] = call[q] \/ call'[q] = NoCall
                  \/ call'[q] \in RemovalCall
    <3>1. CASE Removes(q)
      <4>1. call[q] \in RemovalCall
        BY <1>1, <3>1, StepTyped DEF Removes
      <4>2. [call[q] EXCEPT !.met = TRUE] \in RemovalCall
        BY <4>1 DEF RemovalCall
      <4>3. QED  BY <1>3, <4>1, <4>2 DEF Commit, CallRow
    <3>2. CASE ~Removes(q)
      BY <1>1, <1>3, <3>2 DEF Commit, TypeOK
    <3>3. QED  BY <3>1, <3>2
  <2>4. call' \in [Requests -> CallRow \cup {NoCall}]
    BY <1>3, <2>3 DEF Commit
  <2>5. TypeOK'
    BY <2>1, <2>2, <2>4 DEF TypeOK
  <2>6. \A q \in Requests : call'[q] \in RemovalCall => call'[q].step \in InRemoval
    BY DEF RemovalCall
  <2>8. Owned'
    BY <1>1, <2>1, <2>2 DEF Owned, TypeOK, IsAccount, AccountRow
  <2>9. ASSUME NEW u \in UserIds, NEW o \in Orgs, NEW p \in Roles
        PROVE  Cardinality(Same(u, o, p))' + Cardinality(Inserting(u, o, p))'
                 <= Cardinality(Requests)
    <3>1. Same(u, o, p)' \subseteq Same(u, o, p)
      BY <2>1 DEF Same, RowsOf, IsAccount
    <3>2. Inserting(u, o, p)' \subseteq Inserting(u, o, p)
      BY <2>3, <2>6 DEF Inserting, Step, InRemoval
    <3>3. QED  BY <3>1, <3>2, FewerBounded DEF IInv
  <2>10. QED  BY <2>5, <2>8, <2>9 DEF IInv, Bounded
<1>4. QED  BY <1>2, <1>3 DEF KeepUser, DropUser

(* A restart ends the calls and may begin one.                             *)
LEMMA RestartKeeps ==
  ASSUME IInv, NEW r \in Requests, Restart(r)
  PROVE  IInv'
<1> USE AccountsAssumption
<1>1. TypeOK /\ UNCHANGED <<user, account>>
  BY DEF IInv, Restart
<1>2. /\ call' \in [Requests -> CallRow \cup {NoCall}]
      /\ \A q \in Requests : call'[q] = NoCall \/ call'[q].step = "boot"
  <2>1. CASE call' = [q \in Requests |-> NoCall]
    BY <2>1
  <2>2. ASSUME NEW u \in UserIds, IsUser(u),
               call' = [q \in Requests |-> IF q = r
                          THEN Seeking("boot", u, user[u].email, BootOrg, NoRole) ELSE NoCall]
        PROVE  /\ call' \in [Requests -> CallRow \cup {NoCall}]
               /\ \A q \in Requests : call'[q] = NoCall \/ call'[q].step = "boot"
    <3>1. Seeking("boot", u, user[u].email, BootOrg, NoRole) \in CallRow
      BY <1>1, <2>2 DEF TypeOK, IsUser, UserRow, Seeking, CallRow, BootCall, SeekCall
    <3>2. Seeking("boot", u, user[u].email, BootOrg, NoRole).step = "boot"
      BY DEF Seeking
    <3>3. QED  BY <2>2, <3>1, <3>2
  <2>3. QED  BY <2>1, <2>2 DEF Restart
<1>3. TypeOK' /\ Owned'
  BY <1>1, <1>2 DEF IInv, TypeOK, Owned, IsAccount
<1>4. ASSUME NEW u \in UserIds, NEW o \in Orgs, NEW p \in Roles
      PROVE  Cardinality(Same(u, o, p))' + Cardinality(Inserting(u, o, p))'
               <= Cardinality(Requests)
  <2>1. Same(u, o, p)' \subseteq Same(u, o, p)
    BY <1>1 DEF Same, RowsOf, IsAccount
  <2>2. Inserting(u, o, p)' \subseteq Inserting(u, o, p)
    BY <1>2 DEF Inserting, Step
  <2>3. QED  BY <2>1, <2>2, FewerBounded DEF IInv
<1>5. QED  BY <1>3, <1>4 DEF IInv, Bounded

(* IInv is kept by every step.                                             *)
LEMMA IInvNext == IInv /\ [Next]_vars => IInv'
<1> SUFFICES ASSUME IInv, [Next]_vars PROVE IInv'
  OBVIOUS
<1>1. CASE Next
  <2>1. PICK r \in Requests : Move(r)
    BY <1>1 DEF Next
  <2>2. CASE \/ \E e \in Emails, o \in Orgs, p \in Mapped \cup {NoRole} : SignIn(r, e, o, p)
             \/ TryBootstrap(r) \/ Fail(r)
             \/ \E u \in UserIds :
                  \/ \E o \in Orgs : GrantAdministrator(r, u, o)
                  \/ \E o \in Orgs, p \in Roles : GrantUserRole(r, u, o, p)
             \/ \E e \in {Fold[f] : f \in Emails}, o \in Orgs, p \in Roles,
                   complete \in BOOLEAN : RegisterUser(r, e, o, p, complete)
    BY <2>2, LookKeeps
  <2>3. CASE \/ \E u \in UserIds :
                  \/ \E a \in AccountIds : DeleteAccount(r, u, a)
                  \/ \E orgs \in {{o} : o \in Orgs} \cup {Orgs} : UnregisterUser(r, u, orgs)
             \/ \E a \in AccountIds : RevokeAdministrator(r, a) \/ RevokeUserRole(r, a)
             \/ DeleteRow(r) \/ CountRemaining(r)
    BY <2>3, RemovalKeeps
  <2>4. CASE LookForAccount(r) \/ GrantSuper(r) \/ ProbeAccount(r)
    BY <2>4, SeekKeeps
  <2>5. CASE InsertAccount(r) \/ Promote(r)
    BY <2>5, InsertStepKeeps
  <2>6. CASE CreateUser(r)
    BY <2>6, CreateUserKeeps
  <2>7. CASE \/ \E u \in Editors : \/ UpdateSettings(r, u) \/ UpdateProfile(r, u)
                                     \/ AcceptEula(r, u)
             \/ CompareProfile(r) \/ WriteProfile(r) \/ RestoreProfile(r)
    BY <2>7, ProfileKeeps
  <2>8. CASE RegisterNew(r) \/ RegisterKnown(r)
    BY <2>8, RegisterKeeps
  <2>9. CASE KeepUser(r) \/ DropUser(r)
    BY <2>9, CommitKeeps
  <2>10. CASE Restart(r)
    BY <2>10, RestartKeeps
  <2>11. QED
    BY <2>1, <2>2, <2>3, <2>4, <2>5, <2>6, <2>7, <2>8, <2>9, <2>10 DEF Move
<1>2. CASE UNCHANGED vars
  <2>1. TypeOK' /\ Owned'
    BY <1>2 DEF vars, IInv, TypeOK, Owned, IsAccount
  <2>2. Bounded'
    BY <1>2 DEF vars, IInv, Bounded, Same, RowsOf, IsAccount, Inserting, Step
  <2>3. QED  BY <2>1, <2>2 DEF IInv
<1>3. QED  BY <1>1, <1>2

(* The rows and the calls keep their types.                                *)
THEOREM AccountsTyped == Spec => []TypeOK
<1>1. IInv => TypeOK
  BY DEF IInv
<1>2. QED  BY <1>1, IInvInit, IInvNext, PTL DEF Spec

(* However many sign-ins, grants and scripts overlap, they leave no more   *)
(* accounts with the same key than there were calls at once.               *)
THEOREM DuplicatesAreFew == Spec => []FewDuplicates
<1>1. IInv => FewDuplicates
  <2> SUFFICES ASSUME IInv, NEW u \in UserIds, NEW o \in Orgs, NEW p \in Roles
               PROVE  Cardinality(Same(u, o, p)) <= Cardinality(Requests)
    BY DEF FewDuplicates
  <2> DEFINE a == Cardinality(Same(u, o, p))   b == Cardinality(Inserting(u, o, p))
             n == Cardinality(Requests)
  <2>1. a \in Nat /\ b \in Nat /\ n \in Nat /\ a + b <= n
    BY SetsFinite DEF IInv, Bounded
  <2> HIDE DEF a, b, n
  <2>2. a <= n
    BY <2>1
  <2>3. QED  BY <2>2 DEF a, n
<1>2. QED  BY <1>1, IInvInit, IInvNext, PTL DEF Spec

-----------------------------------------------------------------------------
(* A copy, or an UPDATE, that would complete the registration.             *)
Completing(c) ==
  /\ c # NoCall
  /\ \/ c.step \in {"save", "restore"} /\ c.row.completed
     \/ c.step = "write" /\ "completed" \in DOMAIN c.set /\ c.set["completed"]

(* Rows, copies and UPDATEs complete what was once submitted.              *)
Recorded ==
  /\ \A u \in UserIds : IsUser(u) /\ (user[u].submitted \/ user[u].completed) => u \in once
  /\ \A r \in Requests : Completing(call[r]) => call[r].user \in once

LEMMA RecordedInit == Init => Recorded
  BY DEF Init, Recorded, Completing, IsUser

(* A call that is given up or goes on with no copy of a row.               *)
LEMMA NoCopyBegins ==
  ASSUME IInv, NEW r \in Requests, Move(r),
         \A u \in Editors : ~UpdateSettings(r, u) /\ ~UpdateProfile(r, u) /\ ~AcceptEula(r, u),
         ~CompareProfile(r)
  PROVE  \A q \in Requests : Completing(call'[q]) => call'[q] = call[q]
<1> USE AccountsAssumption
<1> DEFINE Plain(c) == c = NoCall \/ c.step \notin {"save", "restore", "write"}
<1>1. TypeOK
  BY DEF IInv
<1>2. ASSUME NEW c, Plain(c), Goto(r, c)
      PROVE  \A q \in Requests : Completing(call'[q]) => call'[q] = call[q]
  BY <1>1, <1>2 DEF Goto, TypeOK, Completing
<1>3. ASSUME call[r] # NoCall, NEW s \in {"super", "promote", "look", "insert", "amend", "affix",
                                        "delete", "count", "drop", "commit"}
      PROVE  Plain(At(r, s))
  <2>1. call[r] \in CallRow
    BY <1>1, <1>3 DEF TypeOK
  <2>2. "step" \in DOMAIN call[r] /\ call[r] = [f \in DOMAIN call[r] |-> call[r][f]]
    BY <2>1 DEF CallRow, CreateCall, BootCall, LookCall, SeekCall, RemovalCall, AdmitCall,
                KnownCall, CopyCall, WriteCall
  <2>3. QED  BY <2>2 DEF At
<1>4. CASE \E e \in Emails, o \in Orgs, p \in Mapped \cup {NoRole} : SignIn(r, e, o, p)
  <2>1. PICK e \in Emails, o \in Orgs, p \in Mapped \cup {NoRole} : SignIn(r, e, o, p)
    BY <1>4
  <2>2. /\ Plain([step |-> "create", email |-> e, org |-> o, role |-> p])
        /\ \A u : Plain(Seeking("boot", u, e, o, p))
    BY DEF Seeking
  <2> HIDE DEF Plain
  <2>3. \E c : Goto(r, c) /\ Plain(c)
    BY <2>1, <2>2 DEF SignIn
  <2>4. QED  BY <1>2, <2>3
<1>5. CASE CreateUser(r)
  <2>1. Plain(NoCall) /\ \A u, e, o, p : Plain(Seeking("boot", u, e, o, p))
    BY DEF Seeking
  <2> HIDE DEF Plain
  <2>2. \E c : Goto(r, c) /\ Plain(c)
    BY <1>5, <2>1 DEF CreateUser, End
  <2>3. QED  BY <1>2, <2>2
<1>6. CASE TryBootstrap(r) \/ GrantSuper(r) \/ LookForAccount(r) \/ InsertAccount(r) \/ Fail(r)
           \/ Promote(r)
  <2>1. PICK c : Goto(r, c) /\ Plain(c)
    BY <1>3, <1>6 DEF TryBootstrap, GrantSuper, LookForAccount, InsertAccount, Fail, Promote,
                      Provision, End, Step
  <2>2. QED  BY <1>2, <2>1
<1>7. CASE Restart(r)
  <2>1. \A q \in Requests : Plain(call'[q])
    BY <1>7 DEF Restart, Seeking
  <2>2. QED  BY <2>1 DEF Completing
<1>8. CASE \E e \in {Fold[f] : f \in Emails}, o \in Orgs, p \in Roles, complete \in BOOLEAN :
             RegisterUser(r, e, o, p, complete)
  <2>1. PICK e \in {Fold[f] : f \in Emails}, o \in Orgs, p \in Roles, complete \in BOOLEAN :
          RegisterUser(r, e, o, p, complete)
    BY <1>8
  <2>2. /\ Plain([step |-> "admit", email |-> e, org |-> o, role |-> p, complete |-> complete])
        /\ \A u : Plain([step |-> "probe", user |-> u, org |-> o, role |-> p,
                         complete |-> complete])
    OBVIOUS
  <2> HIDE DEF Plain
  <2>3. \E c : Goto(r, c) /\ Plain(c)
    BY <2>1, <2>2 DEF RegisterUser
  <2>4. QED  BY <1>2, <2>3
<1>9. CASE RegisterNew(r) \/ ProbeAccount(r) \/ RegisterKnown(r) \/ WriteProfile(r)
           \/ RestoreProfile(r)
  <2>1. PICK c : Goto(r, c) /\ Plain(c)
    BY <1>3, <1>9 DEF RegisterNew, ProbeAccount, RegisterKnown, WriteProfile, RestoreProfile,
                      End, Step
  <2>2. QED  BY <1>2, <2>1
<1>10. CASE \E u \in UserIds :
              \/ \E a \in AccountIds : DeleteAccount(r, u, a)
              \/ \E orgs \in {{o} : o \in Orgs} \cup {Orgs} : UnregisterUser(r, u, orgs)
              \/ \E o \in Orgs : GrantAdministrator(r, u, o)
              \/ \E o \in Orgs, p \in Roles : GrantUserRole(r, u, o, p)
  <2>1. /\ \A u, rest : Plain(Removing(u, rest))
        /\ \A u, e, o, p : Plain(Seeking("look", u, e, o, p))
    BY DEF Seeking, Removing
  <2> HIDE DEF Plain
  <2>2. \E c : Goto(r, c) /\ Plain(c)
    BY <1>10, <2>1 DEF DeleteAccount, UnregisterUser, GrantAdministrator, GrantUserRole
  <2>3. QED  BY <1>2, <2>2
<1>11. CASE \E a \in AccountIds : RevokeAdministrator(r, a) \/ RevokeUserRole(r, a)
  <2>1. PICK c : Goto(r, c) /\ Plain(c)
    BY <1>11 DEF RevokeAdministrator, RevokeUserRole, Removing
  <2>2. QED  BY <1>2, <2>1
<1>12. CASE DeleteRow(r)
  <2>1. call[r] \in RemovalCall
    BY <1>1, <1>12, StepTyped DEF DeleteRow, Step, InRemoval
  <2>2. PICK a \in call[r].rest :
          Goto(r, [call[r] EXCEPT !.step = "count", !.rest = @ \ {a}, !.gone = @ \cup {a}])
    BY <1>12 DEF DeleteRow
  <2>3. Plain([call[r] EXCEPT !.step = "count", !.rest = @ \ {a}, !.gone = @ \cup {a}])
    BY <2>1 DEF RemovalCall
  <2>4. QED  BY <1>2, <2>2, <2>3
<1>13. CASE CountRemaining(r)
  <2>1. PICK c : Goto(r, c) /\ Plain(c)
    BY <1>3, <1>13 DEF CountRemaining, Step
  <2>2. QED  BY <1>2, <2>1
<1>14. CASE KeepUser(r) \/ DropUser(r)
  <2>1. CASE End(r)
    BY <1>2, <2>1 DEF End
  <2>2. CASE Commit(r)
    <3>1. ASSUME NEW q \in Requests, Removes(q)
          PROVE  [call[q] EXCEPT !.met = TRUE].step \in InRemoval
      <4>1. call[q] \in RemovalCall
        BY <1>1, <3>1, StepTyped DEF Removes
      <4>2. QED  BY <4>1 DEF RemovalCall
    <3>2. ASSUME NEW q \in Requests, call'[q] # call[q]
          PROVE  Plain(call'[q])
      BY <2>2, <3>1, <3>2 DEF Commit, InRemoval
    <3>3. QED  BY <3>2 DEF Completing
  <2>3. QED  BY <1>14, <2>1, <2>2 DEF KeepUser, DropUser
<1>15. QED
  BY <1>4, <1>5, <1>6, <1>7, <1>8, <1>9, <1>10, <1>11, <1>12, <1>13, <1>14 DEF Move

(* A copy is taken from a row, or compared with it.                        *)
LEMMA CopiesKeep ==
  ASSUME IInv, Recorded, NEW r \in Requests,
         \/ \E u \in Editors : UpdateSettings(r, u) \/ UpdateProfile(r, u) \/ AcceptEula(r, u)
         \/ CompareProfile(r)
  PROVE  \A q \in Requests : Completing(call'[q]) => call'[q].user \in once
<1> USE AccountsAssumption
<1>1. TypeOK
  BY DEF IInv
<1>2. ASSUME NEW c \in CallRow, Goto(r, c), Completing(c) => c.user \in once
      PROVE  \A q \in Requests : Completing(call'[q]) => call'[q].user \in once
  BY <1>1, <1>2, Turns DEF Recorded
<1>3. ASSUME NEW u \in UserIds, NEW row \in UserRow, Edit(r, u, row), row.completed => u \in once
      PROVE  \A q \in Requests : Completing(call'[q]) => call'[q].user \in once
  <2> DEFINE c == [step |-> "save", user |-> u, row |-> row]
  <2>1. c \in CallRow /\ Goto(r, c) /\ (Completing(c) => c.user \in once)
    BY <1>3 DEF Edit, CallRow, CopyCall, Completing
  <2> HIDE DEF c
  <2>2. QED  BY <1>2, <2>1
<1>4. ASSUME NEW u \in Editors, UpdateSettings(r, u) \/ UpdateProfile(r, u) \/ AcceptEula(r, u)
      PROVE  \A q \in Requests : Completing(call'[q]) => call'[q].user \in once
  <2>1. u \in UserIds /\ IsUser(u)
    BY <1>4 DEF UpdateSettings, UpdateProfile, AcceptEula, Edit
  <2>2. /\ user[u] \in UserRow
        /\ user[u].submitted \/ user[u].completed => u \in once
    BY <1>1, <2>1 DEF TypeOK, IsUser, Recorded
  <2>3. /\ [user[u] EXCEPT !.submitted = TRUE] \in UserRow
        /\ [user[u] EXCEPT !.completed = TRUE] \in UserRow
        /\ [user[u] EXCEPT !.submitted = TRUE].completed = user[u].completed
    BY <2>2 DEF UserRow
  <2>4. CASE UpdateSettings(r, u)
    BY <1>3, <2>1, <2>2, <2>4 DEF UpdateSettings
  <2>5. CASE UpdateProfile(r, u)
    BY <1>3, <2>1, <2>2, <2>3, <2>5 DEF UpdateProfile
  <2>6. CASE AcceptEula(r, u)
    BY <1>3, <2>1, <2>2, <2>3, <2>6 DEF AcceptEula, MayAccept
  <2>7. QED  BY <1>4, <2>4, <2>5, <2>6
<1>5. CASE CompareProfile(r)
  <2>1. call[r] \in CopyCall /\ call[r] # NoCall
    BY <1>1, <1>5, StepTyped DEF CompareProfile, Step
  <2>2. Completing(call[r]) <=> call[r].row.completed
    BY <2>1 DEF Completing, CopyCall
  <2>3. call[r].row.completed => call[r].user \in once
    BY <2>2 DEF Recorded
  <2>4. CASE Goto(r, At(r, "restore"))
    <3>1. /\ At(r, "restore") \in CallRow
          /\ At(r, "restore").row = call[r].row /\ At(r, "restore").user = call[r].user
          /\ At(r, "restore").step = "restore"
      BY <2>1 DEF At, CopyCall, CallRow
    <3>2. QED  BY <1>2, <2>3, <2>4, <3>1 DEF Completing
  <2>5. CASE ~Goto(r, At(r, "restore"))
    <3> DEFINE D == {g \in Columns : call[r].row[g] # user[call[r].user][g]}
               set == [f \in D |-> call[r].row[f]]
               w == [step |-> "write", user |-> call[r].user, set |-> set]
    <3>1. Goto(r, w)
      BY <1>5, <2>5 DEF CompareProfile
    <3>2. call[r].row.submitted \in BOOLEAN /\ call[r].row.completed \in BOOLEAN
      BY <2>1 DEF CopyCall, UserRow
    <3>3. set \in [D -> BOOLEAN] /\ D \in SUBSET Columns
      BY <3>2 DEF Columns
    <3>4. "completed" \in DOMAIN set => set["completed"] = call[r].row.completed
      OBVIOUS
    <3> HIDE DEF D, set
    <3>5. w \in CallRow
      BY <2>1, <3>3 DEF CallRow, WriteCall, CopyCall
    <3>6. Completing(w) => w.user \in once
      BY <2>3, <3>4 DEF Completing
    <3> HIDE DEF w
    <3>7. QED  BY <1>2, <3>1, <3>5, <3>6
  <2>6. QED  BY <2>4, <2>5
<1>6. QED  BY <1>4, <1>5

(* What is completed by a step was completed, or is submitted by the same  *)
(* step, or was submitted once.                                            *)
LEMMA CompletesRecorded ==
  ASSUME IInv, Recorded, NEW r \in Requests, Move(r), NEW u \in UserIds,
         IsUser(u)', user'[u].completed
  PROVE  u \in once \/ user'[u].submitted
<1> USE AccountsAssumption
<1>1. TypeOK
  BY DEF IInv
<1>2. CASE user'[u] = user[u]
  BY <1>2 DEF Recorded, IsUser
<1>3. CASE user'[u] # user[u]
  <2>1. CASE CreateUser(r)
    BY <1>1, <1>3, <2>1 DEF CreateUser, TypeOK
  <2>2. CASE RegisterNew(r)
    BY <1>1, <1>3, <2>2 DEF RegisterNew, TypeOK
  <2>3. CASE RegisterKnown(r)
    <3>1. call[r] \in KnownCall
      BY <1>1, <2>3, StepTyped DEF RegisterKnown, Step
    <3> DEFINE v == call[r].user  complete == call[r].complete
    <3>2. /\ v \in UserIds /\ complete \in BOOLEAN
          /\ IsUser(v) /\ Amend(v, complete)
      BY <1>3, <2>3, <3>1 DEF RegisterKnown, KnownCall
    <3>3. u = v
      BY <1>1, <1>3, <3>2, Amended
    <3>4. user[v] \in UserRow
      BY <1>1, <3>2 DEF TypeOK, IsUser
    <3> HIDE DEF v, complete
    <3>5. user'[v] = [user[v] EXCEPT !.submitted = @ \/ complete, !.completed = @ \/ complete]
      BY <1>1, <3>2, Amended
    <3>6. /\ user'[v].completed <=> (user[v].completed \/ complete)
          /\ user'[v].submitted <=> (user[v].submitted \/ complete)
      BY <3>4, <3>5 DEF UserRow
    <3>7. QED  BY <3>2, <3>3, <3>6 DEF Recorded
  <2>4. CASE WriteProfile(r)
    <3>1. call[r] \in WriteCall /\ call[r] # NoCall
      BY <1>1, <2>4, StepTyped DEF WriteProfile, Step
    <3>2. u = call[r].user /\ IsUser(u)
      BY <1>1, <1>3, <2>4 DEF WriteProfile, TypeOK
    <3>3. user[u] \in UserRow
      BY <1>1, <3>2 DEF TypeOK, IsUser
    <3>4. user'[u] = [f \in DOMAIN user[u] |-> IF f \in DOMAIN call[r].set THEN call[r].set[f]
                                                ELSE user[u][f]]
      BY <1>1, <2>4, <3>2 DEF WriteProfile, TypeOK
    <3>5. user'[u].completed = IF "completed" \in DOMAIN call[r].set
                               THEN call[r].set["completed"] ELSE user[u].completed
      BY <3>3, <3>4 DEF UserRow
    <3>6. Completing(call[r]) \/ user[u].completed
      BY <3>1, <3>5 DEF Completing, WriteCall
    <3>7. QED  BY <3>2, <3>6 DEF Recorded
  <2>5. CASE RestoreProfile(r)
    <3>1. call[r] \in CopyCall /\ call[r] # NoCall /\ call[r].step = "restore"
      BY <1>1, <2>5, StepTyped DEF RestoreProfile, Step
    <3>2. u = call[r].user /\ user'[u] = call[r].row
      BY <1>1, <1>3, <2>5 DEF RestoreProfile, TypeOK
    <3>3. Completing(call[r])
      BY <3>1, <3>2 DEF Completing
    <3>4. QED  BY <3>2, <3>3 DEF Recorded
  <2>6. CASE DropUser(r)
    BY <1>1, <1>3, <2>6 DEF DropUser, TypeOK, IsUser
  <2>7. CASE /\ ~CreateUser(r) /\ ~RegisterNew(r) /\ ~RegisterKnown(r) /\ ~WriteProfile(r)
             /\ ~RestoreProfile(r) /\ ~DropUser(r)
    <3>1. user' = user
      BY <2>7 DEF Move, SignIn, TryBootstrap, GrantSuper, Promote, Restart, LookForAccount,
             InsertAccount, Insert, RegisterUser, ProbeAccount, UpdateSettings, UpdateProfile,
             AcceptEula, Edit, DeleteAccount, UnregisterUser, GrantAdministrator, GrantUserRole,
             RevokeAdministrator, RevokeUserRole, DeleteRow, CountRemaining, KeepUser, Fail,
             CompareProfile
    <3>2. QED  BY <1>3, <3>1
  <2>8. QED  BY <2>1, <2>2, <2>3, <2>4, <2>5, <2>6, <2>7
<1>4. QED  BY <1>2, <1>3

LEMMA RecordedNext == IInv /\ Recorded /\ [Next]_vars => Recorded'
<1> SUFFICES ASSUME IInv, Recorded, [Next]_vars PROVE Recorded'
  OBVIOUS
<1>1. CASE Next
  <2>1. PICK r \in Requests : Move(r)
    BY <1>1 DEF Next
  <2>2. once' = once \cup {u \in UserIds : IsUser(u)' /\ user'[u].submitted}
    BY <1>1 DEF Next
  <2>3. ASSUME NEW u \in UserIds, IsUser(u)', user'[u].submitted \/ user'[u].completed
        PROVE  u \in once'
    BY <2>1, <2>2, <2>3, CompletesRecorded
  <2>4. ASSUME NEW q \in Requests, Completing(call'[q])
        PROVE  call'[q].user \in once
    <3>1. CASE \/ \E u \in Editors : \/ UpdateSettings(r, u) \/ UpdateProfile(r, u)
                                       \/ AcceptEula(r, u)
               \/ CompareProfile(r)
      BY <2>4, <3>1, CopiesKeep
    <3>2. CASE ~(\/ \E u \in Editors : \/ UpdateSettings(r, u) \/ UpdateProfile(r, u)
                                         \/ AcceptEula(r, u)
                 \/ CompareProfile(r))
      <4>1. call'[q] = call[q]
        BY <2>1, <2>4, <3>2, NoCopyBegins
      <4>2. QED  BY <2>4, <4>1 DEF Recorded
    <3>3. QED  BY <3>1, <3>2
  <2>5. QED  BY <2>2, <2>3, <2>4 DEF Recorded, Completing
<1>2. CASE UNCHANGED vars
  BY <1>2 DEF vars, Recorded, Completing, IsUser
<1>3. QED  BY <1>1, <1>2

(* However stale copies of a profile are compared, written and restored,   *)
(* nobody completes the registration who never submitted a profile.        *)
THEOREM CompletionWasSubmitted == Spec => []CompletedOnceSubmitted
<1>1. Recorded => CompletedOnceSubmitted
  BY DEF Recorded, CompletedOnceSubmitted
<1>2. Init => IInv /\ Recorded
  BY IInvInit, RecordedInit
<1>3. IInv /\ Recorded /\ [Next]_vars => IInv' /\ Recorded'
  BY IInvNext, RecordedNext
<1>4. QED  BY <1>1, <1>2, <1>3, PTL DEF Spec

-----------------------------------------------------------------------------
(* An account belongs to a user there is: the foreign key.                 *)
Alive == \A a \in AccountIds : IsAccount(a) => IsUser(account[a].user)

(* A removal deletes accounts of its user, or such as are gone already.    *)
Mine ==
  \A r \in Requests, a \in AccountIds :
    Removes(r) /\ a \in call[r].rest \cup call[r].gone =>
      account[a] = Gone \/ (IsAccount(a) /\ account[a].user = call[r].user)

(* What a removal has counted remains, unless it met another of the user.  *)
Kept ==
  \A r \in Requests : Removes(r) /\ ~call[r].met =>
    /\ IsUser(call[r].user)
    /\ call[r].step = "commit" => Remaining(r) # {}

KInv == Alive /\ Mine /\ Kept

LEMMA KInvInit == Init => KInv
  BY DEF Init, KInv, Alive, Mine, Kept, IsAccount, Removes

(* A removal is a call with these fields.                                  *)
LEMMA RemovalTyped ==
  ASSUME TypeOK, NEW r \in Requests, Removes(r)
  PROVE  call[r] \in RemovalCall
  BY StepTyped DEF Removes

(* A step that begins and carries on no removal, and takes away no user    *)
(* and no account, keeps what the removals go by.                          *)
LEMMA OthersKeep ==
  ASSUME KInv,
         \A q \in Requests : Removes(q)' => call'[q] = call[q],
         \A a \in AccountIds : account[a] # Unborn => account'[a] = account[a],
         \A a \in AccountIds : IsAccount(a)' /\ ~IsAccount(a) => IsUser(account[a].user)',
         \A u \in UserIds : IsUser(u) => IsUser(u)',
         \A a \in AccountIds : IsAccount(a) => account[a].user \in UserIds,
         \A r \in Requests : Removes(r) => call[r].user \in UserIds
  PROVE  KInv'
<1> USE AccountsAssumption
<1>1. Alive'
  BY DEF KInv, Alive, IsAccount
<1>2. Mine'
  BY DEF KInv, Mine, IsAccount, Removes
<1>3. Kept'
  BY DEF KInv, Kept, Remaining, RowsOf, IsAccount, Removes
<1>4. QED  BY <1>1, <1>2, <1>3 DEF KInv

(* What the accounts and the calls refer to.                               *)
LEMMA Referred ==
  ASSUME TypeOK
  PROVE  /\ \A a \in AccountIds : IsAccount(a) => account[a].user \in UserIds
         /\ \A r \in Requests : Removes(r) => call[r].user \in UserIds
<1>1. \A a \in AccountIds : IsAccount(a) => account[a].user \in UserIds
  BY DEF TypeOK, IsAccount, AccountRow
<1>2. \A r \in Requests : Removes(r) => call[r].user \in UserIds
  BY RemovalTyped DEF RemovalCall
<1>3. QED  BY <1>1, <1>2

(* So do a call that goes on with something else, ...                      *)
LEMMA ElseKeeps ==
  ASSUME TypeOK, KInv, NEW r \in Requests, NEW c,
         c = NoCall \/ c.step \notin InRemoval, Goto(r, c),
         \A a \in AccountIds : account[a] # Unborn => account'[a] = account[a],
         \A a \in AccountIds : IsAccount(a)' /\ ~IsAccount(a) => IsUser(account[a].user)',
         \A u \in UserIds : IsUser(u) => IsUser(u)'
  PROVE  KInv'
<1>1. \A q \in Requests : Removes(q)' => call'[q] = call[q]
  BY DEF Goto, TypeOK, Removes
<1>2. QED  BY <1>1, Referred, OthersKeep

LEMMA LookKept ==
  ASSUME TypeOK, KInv, NEW r \in Requests, UNCHANGED <<user, account>>,
         NEW c, c = NoCall \/ c.step \notin InRemoval, Goto(r, c)
  PROVE  KInv'
<1>1. /\ \A a \in AccountIds : account'[a] = account[a] /\ (IsAccount(a)' <=> IsAccount(a))
      /\ \A u \in UserIds : IsUser(u) => IsUser(u)'
  BY DEF IsAccount, IsUser
<1>2. QED  BY <1>1, ElseKeeps

(* A step of a call that is no removal.                                    *)
LEMMA OtherStep ==
  ASSUME TypeOK, NEW r \in Requests, call[r] # NoCall, NEW s, s \notin InRemoval
  PROVE  At(r, s).step \notin InRemoval
<1>1. call[r] \in CallRow
  BY DEF TypeOK
<1>2. call[r] = [call[r] EXCEPT !.step = call[r].step] /\ "step" \in DOMAIN call[r]
  BY <1>1 DEF CallRow, CreateCall, BootCall, LookCall, SeekCall, RemovalCall, AdmitCall,
              KnownCall, CopyCall, WriteCall
<1>3. QED  BY <1>2 DEF At

(* ... the calls that look for rows, ...                                   *)
LEMMA SeekersKeep ==
  ASSUME TypeOK, KInv, NEW r \in Requests,
         \/ \E e \in Emails, o \in Orgs, p \in Mapped \cup {NoRole} : SignIn(r, e, o, p)
         \/ TryBootstrap(r) \/ GrantSuper(r) \/ LookForAccount(r) \/ Fail(r)
         \/ ProbeAccount(r) \/ CompareProfile(r)
         \/ \E e \in {Fold[f] : f \in Emails}, o \in Orgs, p \in Roles, complete \in BOOLEAN :
              RegisterUser(r, e, o, p, complete)
         \/ \E u \in Editors : UpdateSettings(r, u) \/ UpdateProfile(r, u) \/ AcceptEula(r, u)
         \/ \E u \in UserIds :
              \/ \E o \in Orgs : GrantAdministrator(r, u, o)
              \/ \E o \in Orgs, p \in Roles : GrantUserRole(r, u, o, p)
  PROVE  KInv'
<1>1. /\ UNCHANGED <<user, account>>
      /\ \E c : (c = NoCall \/ c.step \notin InRemoval) /\ Goto(r, c)
  <2>1. \A s \in {"super", "promote", "look", "insert", "amend", "affix", "restore"} :
          call[r] # NoCall => At(r, s).step \notin InRemoval
    BY OtherStep DEF InRemoval
  <2>2. ASSUME NEW e, NEW o, NEW p, SignIn(r, e, o, p)
        PROVE  /\ UNCHANGED <<user, account>>
               /\ \E c : (c = NoCall \/ c.step \notin InRemoval) /\ Goto(r, c)
    <3>1. [step |-> "create", email |-> e, org |-> o, role |-> p].step \notin InRemoval
            /\ \A u : Seeking("boot", u, e, o, p).step \notin InRemoval
      BY DEF InRemoval, Seeking
    <3>2. QED  BY <2>2, <3>1 DEF SignIn
  <2>3. CASE TryBootstrap(r) \/ GrantSuper(r) \/ LookForAccount(r) \/ Fail(r)
    BY <2>1, <2>3 DEF TryBootstrap, GrantSuper, LookForAccount, Fail, Provision, End, Step
  <2>4. ASSUME NEW u, NEW row, Edit(r, u, row)
        PROVE  /\ UNCHANGED <<user, account>>
               /\ \E c : (c = NoCall \/ c.step \notin InRemoval) /\ Goto(r, c)
    <3>1. [step |-> "save", user |-> u, row |-> row].step \notin InRemoval
      BY DEF InRemoval
    <3>2. QED  BY <2>4, <3>1 DEF Edit
  <2>5. ASSUME NEW u, NEW o, NEW p, GrantAdministrator(r, u, o) \/ GrantUserRole(r, u, o, p)
        PROVE  /\ UNCHANGED <<user, account>>
               /\ \E c : (c = NoCall \/ c.step \notin InRemoval) /\ Goto(r, c)
    <3>1. \A e, q : Seeking("look", u, e, o, q).step \notin InRemoval
      BY DEF InRemoval, Seeking
    <3>2. QED  BY <2>5, <3>1 DEF GrantAdministrator, GrantUserRole
  <2>6. ASSUME NEW e, NEW o, NEW p, NEW complete, RegisterUser(r, e, o, p, complete)
        PROVE  /\ UNCHANGED <<user, account>>
               /\ \E c : (c = NoCall \/ c.step \notin InRemoval) /\ Goto(r, c)
    BY <2>6 DEF RegisterUser, InRemoval
  <2>7. CASE ProbeAccount(r) \/ CompareProfile(r)
    BY <2>1, <2>7 DEF ProbeAccount, CompareProfile, Step, InRemoval
  <2>8. QED  BY <2>2, <2>3, <2>4, <2>5, <2>6, <2>7 DEF UpdateSettings, UpdateProfile, AcceptEula
<1>2. QED  BY <1>1, LookKept

(* ... those that insert or save rows, ...                                 *)
LEMMA InsertersKeep ==
  ASSUME TypeOK, KInv, NEW r \in Requests,
         \/ CreateUser(r) \/ Promote(r) \/ InsertAccount(r) \/ WriteProfile(r)
         \/ RestoreProfile(r) \/ RegisterNew(r) \/ RegisterKnown(r)
  PROVE  KInv'
<1> USE AccountsAssumption
<1>1. CASE CreateUser(r)
  <2>1. call[r] \in CreateCall
    BY <1>1, StepTyped DEF CreateUser, Step
  <2>2. ASSUME NEW u \in UserIds, NEW row, user[u] = Unborn, user' = [user EXCEPT ![u] = row]
        PROVE  \A x \in UserIds : IsUser(x) => IsUser(x)'
    BY <2>2 DEF TypeOK, IsUser
  <2>3. \A x \in UserIds : IsUser(x) => IsUser(x)'
    BY <1>1, <2>2 DEF CreateUser, IsUser
  <2>4. \E c : (c = NoCall \/ c.step \notin InRemoval) /\ Goto(r, c)
    BY <1>1 DEF CreateUser, End, Seeking, InRemoval
  <2>5. account' = account
    BY <1>1 DEF CreateUser
  <2>6. QED  BY <2>3, <2>4, <2>5, ElseKeeps DEF IsAccount
<1>2. ASSUME NEW u, NEW o, NEW p, Insert(u, o, p),
             NEW c, c = NoCall \/ c.step \notin InRemoval, Goto(r, c)
      PROVE  KInv'
  <2>1. PICK a \in AccountIds :
          account[a] = Unborn /\ account' = [account EXCEPT ![a] = [user |-> u, org |-> o, role |-> p]]
    BY <1>2 DEF Insert
  <2>2. user' = user /\ IsUser(u)
    BY <1>2 DEF Insert
  <2>3. account'[a].user = u /\ \A b \in AccountIds \ {a} : account'[b] = account[b]
    BY <2>1 DEF TypeOK
  <2>4. QED  BY <1>2, <2>1, <2>2, <2>3, ElseKeeps DEF IsAccount, IsUser
<1>3. CASE InsertAccount(r) \/ Promote(r)
  <2>1. call[r] # NoCall => At(r, "look").step \notin InRemoval
    BY OtherStep DEF InRemoval
  <2>2. \E c : (c = NoCall \/ c.step \notin InRemoval) /\ Goto(r, c)
    BY <1>3, <2>1 DEF InsertAccount, Promote, Provision, End, Step
  <2>3. CASE \E u, o, p : Insert(u, o, p)
    BY <1>2, <2>2, <2>3
  <2>4. CASE UNCHANGED <<user, account>>
    BY <2>2, <2>4, LookKept
  <2>5. QED  BY <1>3, <2>3, <2>4 DEF InsertAccount, Promote
<1>4. CASE WriteProfile(r) \/ RestoreProfile(r)
  <2>1. CASE WriteProfile(r)
    <3>1. \A x \in UserIds : IsUser(x) => IsUser(x)'
      <4>1. call[r] \in WriteCall
        BY <2>1, StepTyped DEF WriteProfile, Step
      <4> DEFINE u == call[r].user  set == call[r].set
                 row == [f \in DOMAIN user[u] |-> IF f \in DOMAIN set THEN set[f] ELSE user[u][f]]
      <4>2. u \in UserIds /\ \E D \in SUBSET Columns : set \in [D -> BOOLEAN]
        BY <4>1 DEF WriteCall
      <4>3. IsUser(u) => row \in UserRow
        BY <4>2 DEF UserRow, Columns, TypeOK, IsUser
      <4> HIDE DEF row
      <4>4. user' = user \/ (IsUser(u) /\ user' = [user EXCEPT ![u] = row])
        BY <2>1, <4>2 DEF WriteProfile, row, TypeOK
      <4>5. QED  BY <4>2, <4>3, <4>4 DEF TypeOK, IsUser
    <3>2. Goto(r, NoCall) /\ account' = account
      BY <2>1 DEF WriteProfile, End
    <3>3. QED  BY <3>1, <3>2, ElseKeeps DEF IsAccount
  <2>2. CASE RestoreProfile(r)
    <3>1. call[r] \in CopyCall
      BY <2>2, StepTyped DEF RestoreProfile, Step
    <3>2. call[r].row \in UserRow
      BY <3>1 DEF CopyCall
    <3>3. \A x \in UserIds : IsUser(x) => IsUser(x)'
      BY <2>2, <3>2 DEF RestoreProfile, TypeOK, IsUser
    <3>4. Goto(r, NoCall) /\ account' = account
      BY <2>2 DEF RestoreProfile, End
    <3>5. QED  BY <3>3, <3>4, ElseKeeps DEF IsAccount
  <2>3. QED  BY <1>4, <2>1, <2>2
<1>5. CASE RegisterNew(r) \/ RegisterKnown(r)
  <2>1. Goto(r, NoCall)
    BY <1>5 DEF RegisterNew, RegisterKnown, End
  <2>2. CASE UNCHANGED <<user, account>>
    BY <2>1, <2>2, LookKept
  <2>3. CASE ~UNCHANGED <<user, account>>
    <3>1. PICK u \in UserIds :
            /\ IsUser(u)' /\ \A x \in UserIds : IsUser(x) => IsUser(x)'
            /\ \/ account' = account
               \/ \E a \in AccountIds : \E row :
                    /\ account[a] = Unborn /\ row.user = u
                    /\ account' = [account EXCEPT ![a] = row]
      <4>1. CASE RegisterNew(r)
        <5>1. call[r] \in AdmitCall
          BY <4>1, StepTyped DEF RegisterNew, Step
        <5> DEFINE c == call[r]
                   row == [email |-> c.email, submitted |-> c.complete, completed |-> c.complete]
        <5>2. row \in UserRow
          BY <5>1 DEF UserRow, AdmitCall
        <5>3. PICK u \in UserIds, a \in AccountIds :
                /\ user[u] = Unborn /\ account[a] = Unborn
                /\ user' = [user EXCEPT ![u] = row]
                /\ account' = [account EXCEPT ![a] = [user |-> u, org |-> c.org,
                                                       role |-> c.role]]
          BY <2>3, <4>1 DEF RegisterNew
        <5> HIDE DEF row
        <5>4. IsUser(u)' /\ \A x \in UserIds : IsUser(x) => IsUser(x)'
          BY <5>2, <5>3 DEF TypeOK, IsUser
        <5>5. QED  BY <5>3, <5>4
      <4>2. CASE RegisterKnown(r)
        <5>1. call[r] \in KnownCall
          BY <4>2, StepTyped DEF RegisterKnown, Step
        <5>2. /\ call[r].user \in UserIds /\ call[r].complete \in BOOLEAN
              /\ IsUser(call[r].user) /\ Amend(call[r].user, call[r].complete)
          BY <2>3, <4>2, <5>1 DEF RegisterKnown, KnownCall
        <5>3. \A x \in UserIds : IsUser(x) => IsUser(x)'
          BY <5>2, Amended
        <5>4. \/ account' = account
              \/ \E a \in AccountIds :
                   /\ account[a] = Unborn
                   /\ account' = [account EXCEPT ![a] = [user |-> call[r].user,
                                    org |-> call[r].org, role |-> call[r].role]]
          BY <4>2 DEF RegisterKnown
        <5>5. QED  BY <5>2, <5>3, <5>4
      <4>3. QED  BY <1>5, <4>1, <4>2
    <3>2. /\ \A a \in AccountIds : account[a] # Unborn => account'[a] = account[a]
          /\ \A a \in AccountIds : IsAccount(a)' /\ ~IsAccount(a) => account'[a].user = u
      BY <3>1 DEF TypeOK, IsAccount
    <3>3. \A a \in AccountIds : IsAccount(a)' /\ ~IsAccount(a) => IsUser(account[a].user)'
      BY <3>1, <3>2 DEF IsUser
    <3>4. QED  BY <2>1, <3>1, <3>2, <3>3, ElseKeeps
  <2>4. QED  BY <2>2, <2>3
<1>6. QED  BY <1>1, <1>3, <1>4, <1>5

(* ... and a restart.                                                      *)
LEMMA RestartKept ==
  ASSUME TypeOK, KInv, NEW r \in Requests, Restart(r)
  PROVE  KInv'
<1>1. UNCHANGED <<user, account>>
  BY DEF Restart
<1>2. \A q \in Requests : call'[q] = NoCall \/ call'[q].step = "boot"
  BY DEF Restart, Seeking
<1>3. \A q \in Requests : ~Removes(q)'
  BY <1>2 DEF Removes, InRemoval
<1>4. Alive'
  BY <1>1 DEF KInv, Alive, IsAccount, IsUser
<1>5. QED  BY <1>3, <1>4 DEF KInv, Mine, Kept

(* A removal that goes on as c, with the same accounts to delete.          *)
LEMMA RemovalGoesOn ==
  ASSUME TypeOK, KInv, NEW r \in Requests, UNCHANGED <<user, account>>,
         NEW c \in RemovalCall, Goto(r, c),
         \A a \in c.rest \cup c.gone :
           account[a] = Gone \/ (IsAccount(a) /\ account[a].user = c.user),
         ~c.met => /\ IsUser(c.user)
                   /\ c.step = "commit" => RowsOf(c.user) \ c.gone # {}
  PROVE  KInv'
<1>1. call'[r] = c /\ \A q \in Requests \ {r} : call'[q] = call[q]
  BY DEF TypeOK, Goto
<1>2. Alive'
  BY DEF KInv, Alive, IsAccount, IsUser
<1>3. Mine'
  BY <1>1 DEF KInv, Mine, IsAccount, Removes
<1>4. Kept'
  <2> SUFFICES ASSUME NEW q \in Requests, Removes(q)', ~call'[q].met
               PROVE  /\ IsUser(call[q].user)'
                      /\ call'[q].step = "commit" => Remaining(q)' # {}
    BY DEF Kept
  <2>1. CASE q = r
    BY <1>1, <2>1 DEF Remaining, RowsOf, IsAccount, IsUser
  <2>2. CASE q # r
    BY <1>1, <2>2 DEF KInv, Kept, Removes, Remaining, RowsOf, IsAccount, IsUser
  <2>3. QED  BY <2>1, <2>2
<1>5. QED  BY <1>2, <1>3, <1>4 DEF KInv

(* A removal begins with accounts that there are, and so with a user.      *)
LEMMA RemovalBegins ==
  ASSUME TypeOK, KInv, NEW r \in Requests, UNCHANGED <<user, account>>,
         NEW u, NEW rest \in SUBSET AccountIds, rest # {},
         \A a \in rest : IsAccount(a) /\ account[a].user = u, Goto(r, Removing(u, rest))
  PROVE  KInv'
<1>1. u \in UserIds /\ IsUser(u)
  BY Referred DEF KInv, Alive
<1>2. /\ Removing(u, rest) \in RemovalCall
      /\ Removing(u, rest).step = "delete" /\ Removing(u, rest).user = u
      /\ Removing(u, rest).rest = rest /\ Removing(u, rest).gone = {}
  BY <1>1 DEF Removing, RemovalCall, InRemoval
<1>3. QED  BY <1>1, <1>2, RemovalGoesOn

(* The removals, up to their end.                                          *)
LEMMA RemovalsKeep ==
  ASSUME TypeOK, KInv, NEW r \in Requests,
         \/ \E u \in UserIds :
              \/ \E a \in AccountIds : DeleteAccount(r, u, a)
              \/ \E orgs \in {{o} : o \in Orgs} \cup {Orgs} : UnregisterUser(r, u, orgs)
         \/ \E a \in AccountIds : RevokeAdministrator(r, a) \/ RevokeUserRole(r, a)
         \/ DeleteRow(r) \/ CountRemaining(r)
  PROVE  KInv'
<1>1. ASSUME NEW u, NEW a \in AccountIds,
             DeleteAccount(r, u, a) \/ RevokeAdministrator(r, a) \/ RevokeUserRole(r, a)
      PROVE  KInv'
  <2>1. Goto(r, Removing(account[a].user, {a}))
    BY <1>1 DEF DeleteAccount, RevokeAdministrator, RevokeUserRole
  <2>2. IsAccount(a) /\ UNCHANGED <<user, account>>
    BY <1>1 DEF DeleteAccount, RevokeAdministrator, RevokeUserRole
  <2>3. QED  BY <2>1, <2>2, RemovalBegins
<1>2. ASSUME NEW u \in UserIds, NEW orgs, UnregisterUser(r, u, orgs)
      PROVE  KInv'
  <2> DEFINE rows == {a \in RowsOf(u) : account[a].org \in orgs}
  <2>1. rows \in SUBSET AccountIds /\ \A a \in rows : IsAccount(a) /\ account[a].user = u
    BY DEF RowsOf
  <2>2. rows # {} /\ Goto(r, Removing(u, rows)) /\ UNCHANGED <<user, account>>
    BY <1>2 DEF UnregisterUser
  <2>3. QED  BY <2>1, <2>2, RemovalBegins
<1>3. ASSUME Removes(r)
      PROVE  /\ call[r] \in RemovalCall /\ call[r].rest \cup call[r].gone \subseteq AccountIds
             /\ \A a \in call[r].rest \cup call[r].gone :
                  account[a] = Gone \/ (IsAccount(a) /\ account[a].user = call[r].user)
             /\ ~call[r].met => IsUser(call[r].user)
  <2>1. call[r] \in RemovalCall
    BY <1>3, RemovalTyped
  <2>2. call[r].rest \cup call[r].gone \subseteq AccountIds
    BY <2>1 DEF RemovalCall
  <2>3. QED  BY <1>3, <2>1, <2>2 DEF KInv, Mine, Kept
<1>4. ASSUME Removes(r), UNCHANGED <<user, account>>, NEW s \in InRemoval, Goto(r, At(r, s)),
             s = "commit" => ~IsUser(call[r].user) \/ Remaining(r) # {}
      PROVE  KInv'
  <2>1. call[r] \in RemovalCall
    BY <1>3, <1>4
  <2>2. /\ At(r, s) \in RemovalCall /\ At(r, s).step = s /\ At(r, s).user = call[r].user
        /\ At(r, s).rest = call[r].rest /\ At(r, s).gone = call[r].gone
        /\ At(r, s).met = call[r].met
    BY <2>1 DEF At, RemovalCall
  <2>3. QED  BY <1>3, <1>4, <2>2, RemovalGoesOn DEF Remaining
<1>5. CASE CountRemaining(r)
  <2>1. Removes(r) /\ UNCHANGED <<user, account>>
    BY <1>5 DEF CountRemaining, Step, Removes, InRemoval
  <2>2. \E s \in {"drop", "delete", "commit"} :
          /\ Goto(r, At(r, s))
          /\ s = "commit" => ~IsUser(call[r].user) \/ Remaining(r) # {}
    BY <1>5 DEF CountRemaining
  <2>3. QED  BY <1>4, <2>1, <2>2 DEF InRemoval
<1>6. CASE DeleteRow(r)
  <2>1. Removes(r) /\ UNCHANGED <<user, account>>
    BY <1>6 DEF DeleteRow, Step, Removes, InRemoval
  <2>2. PICK a \in call[r].rest :
          Goto(r, [call[r] EXCEPT !.step = "count", !.rest = @ \ {a}, !.gone = @ \cup {a}])
    BY <1>6 DEF DeleteRow
  <2> DEFINE c == [call[r] EXCEPT !.step = "count", !.rest = @ \ {a}, !.gone = @ \cup {a}]
  <2>3. call[r] \in RemovalCall
    BY <1>3, <2>1
  <2>4. /\ c \in RemovalCall /\ c.step = "count" /\ c.user = call[r].user
        /\ c.rest \cup c.gone = call[r].rest \cup call[r].gone /\ c.met = call[r].met
    BY <2>2, <2>3 DEF RemovalCall, InRemoval
  <2> HIDE DEF c
  <2>5. Goto(r, c)
    BY <2>2 DEF c
  <2>6. QED  BY <1>3, <2>1, <2>4, <2>5, RemovalGoesOn
<1>7. QED  BY <1>1, <1>2, <1>5, <1>6

(* The end of a removal: the accounts that go are those of its user, whose *)
(* other removals have met it.                                             *)
LEMMA CommitsKeep ==
  ASSUME TypeOK, KInv, NEW r \in Requests, KeepUser(r) \/ DropUser(r)
  PROVE  KInv'
<1> USE AccountsAssumption
<1>1. Removes(r)
  BY DEF KeepUser, DropUser, Step, Removes, InRemoval
<1>2. call[r] \in RemovalCall
  BY <1>1, RemovalTyped
<1>3. CASE End(r) /\ UNCHANGED <<user, account>>
  BY <1>3, LookKept DEF End
<1>4. CASE /\ Commit(r)
           /\ user' = user \/ (Remaining(r) = {} /\ user' = [user EXCEPT ![call[r].user] = Gone])
  <2> DEFINE u == call[r].user
  <2>1. \A a \in AccountIds : account'[a] = IF a \in call[r].gone THEN Gone ELSE account[a]
    BY <1>4 DEF Commit
  <2>2. \A x \in UserIds : x # u => user'[x] = user[x]
    BY <1>4 DEF TypeOK
  <2>3. \A q \in Requests :
          call'[q] = IF q = r THEN NoCall
                     ELSE IF Removes(q) /\ call[q].user = u
                     THEN [call[q] EXCEPT !.met = TRUE] ELSE call[q]
    BY <1>4 DEF Commit
  <2>4. Alive'
    <3> SUFFICES ASSUME NEW a \in AccountIds, IsAccount(a)'
                 PROVE  IsUser(account[a].user)'
      BY DEF Alive
    <3>1. account'[a] = account[a] /\ a \notin call[r].gone /\ IsAccount(a)
      BY <2>1 DEF IsAccount
    <3>2. IsUser(account[a].user) /\ account[a].user \in UserIds
      BY <3>1, Referred DEF KInv, Alive
    <3>3. Remaining(r) = {} => account[a].user # u
      BY <3>1 DEF Remaining, RowsOf
    <3>4. QED  BY <1>4, <2>2, <3>1, <3>2, <3>3 DEF IsUser
  <2>5. ASSUME NEW q \in Requests, Removes(q)'
        PROVE  /\ Removes(q) /\ q # r /\ call'[q].user = call[q].user
               /\ call'[q].rest = call[q].rest /\ call'[q].gone = call[q].gone
               /\ call'[q].step = call[q].step
               /\ ~call'[q].met => call[q].user # u /\ ~call[q].met
    <3>1. q # r
      BY <2>3, <2>5 DEF Removes
    <3>2. CASE Removes(q) /\ call[q].user = u
      <4>1. call[q] \in RemovalCall
        BY <3>2, RemovalTyped
      <4>2. call'[q] = [call[q] EXCEPT !.met = TRUE]
        BY <2>3, <3>1, <3>2
      <4>3. QED  BY <3>1, <3>2, <4>1, <4>2 DEF RemovalCall
    <3>3. CASE ~(Removes(q) /\ call[q].user = u)
      BY <2>3, <2>5, <3>1, <3>3 DEF Removes
    <3>4. QED  BY <3>2, <3>3
  <2>6. Mine'
    BY <2>1, <2>5 DEF KInv, Mine, IsAccount
  <2>7. Kept'
    <3> SUFFICES ASSUME NEW q \in Requests, Removes(q)', ~call'[q].met
                 PROVE  /\ IsUser(call[q].user)'
                        /\ call'[q].step = "commit" => Remaining(q)' # {}
      BY DEF Kept
    <3>1. /\ Removes(q) /\ call[q].user # u /\ ~call[q].met /\ call[q].user \in UserIds
          /\ call'[q].user = call[q].user /\ call'[q].gone = call[q].gone
          /\ call'[q].step = call[q].step
      BY <2>5, Referred
    <3>2. IsUser(call[q].user)'
      BY <2>2, <3>1 DEF KInv, Kept, IsUser
    <3>3. ASSUME call[q].step = "commit" PROVE Remaining(q)' # {}
      <4>1. PICK a \in RowsOf(call[q].user) : a \notin call[q].gone
        BY <3>1, <3>3 DEF KInv, Kept, Remaining
      <4>2. a \in AccountIds /\ IsAccount(a) /\ account[a].user = call[q].user
        BY <4>1 DEF RowsOf
      <4>3. a \notin call[r].gone
        BY <1>1, <3>1, <4>2 DEF KInv, Mine, IsAccount
      <4>4. account'[a] = account[a]
        BY <2>1, <4>2, <4>3
      <4>5. QED  BY <3>1, <4>1, <4>2, <4>4 DEF Remaining, RowsOf, IsAccount
    <3>4. QED  BY <3>1, <3>2, <3>3
  <2>8. QED  BY <2>4, <2>6, <2>7 DEF KInv
<1>5. QED  BY <1>3, <1>4 DEF KeepUser, DropUser

(* KInv is kept by every step.                                             *)
LEMMA KInvNext == IInv /\ KInv /\ [Next]_vars => KInv'
<1> SUFFICES ASSUME TypeOK, KInv, [Next]_vars PROVE KInv'
  BY DEF IInv
<1>1. CASE Next
  <2>1. PICK r \in Requests : Move(r)
    BY <1>1 DEF Next
  <2>2. CASE \/ \E e \in Emails, o \in Orgs, p \in Mapped \cup {NoRole} : SignIn(r, e, o, p)
             \/ TryBootstrap(r) \/ GrantSuper(r) \/ LookForAccount(r) \/ Fail(r)
             \/ ProbeAccount(r) \/ CompareProfile(r)
             \/ \E e \in {Fold[f] : f \in Emails}, o \in Orgs, p \in Roles,
                   complete \in BOOLEAN : RegisterUser(r, e, o, p, complete)
             \/ \E u \in Editors : \/ UpdateSettings(r, u) \/ UpdateProfile(r, u)
                                     \/ AcceptEula(r, u)
             \/ \E u \in UserIds :
                  \/ \E o \in Orgs : GrantAdministrator(r, u, o)
                  \/ \E o \in Orgs, p \in Roles : GrantUserRole(r, u, o, p)
    BY <2>2, SeekersKeep
  <2>3. CASE \/ CreateUser(r) \/ Promote(r) \/ InsertAccount(r) \/ WriteProfile(r)
             \/ RestoreProfile(r) \/ RegisterNew(r) \/ RegisterKnown(r)
    BY <2>3, InsertersKeep
  <2>4. CASE \/ \E u \in UserIds :
                  \/ \E a \in AccountIds : DeleteAccount(r, u, a)
                  \/ \E orgs \in {{o} : o \in Orgs} \cup {Orgs} : UnregisterUser(r, u, orgs)
             \/ \E a \in AccountIds : RevokeAdministrator(r, a) \/ RevokeUserRole(r, a)
             \/ DeleteRow(r) \/ CountRemaining(r)
    BY <2>4, RemovalsKeep
  <2>5. CASE KeepUser(r) \/ DropUser(r)
    BY <2>5, CommitsKeep
  <2>6. CASE Restart(r)
    BY <2>6, RestartKept
  <2>7. QED  BY <2>1, <2>2, <2>3, <2>4, <2>5, <2>6 DEF Move
<1>2. CASE UNCHANGED vars
  <2>1. Alive' /\ Mine' /\ Kept'
    BY <1>2 DEF vars, KInv, Alive, Mine, Kept, IsAccount, IsUser, Removes, Remaining, RowsOf
  <2>2. QED  BY <2>1 DEF KInv
<1>3. QED  BY <1>1, <1>2

(* Only a removal's own end makes it end and takes accounts away.          *)
LEMMA EndsItself ==
  ASSUME TypeOK, NEW r \in Requests, Step(r, "commit"), Next,
         call'[r] = NoCall, account' # account
  PROVE  KeepUser(r)
<1> USE AccountsAssumption
<1>1. PICK q \in Requests : Move(q)
  BY DEF Next
<1>2. \/ CreateUser(q) \/ Promote(q) \/ InsertAccount(q) \/ WriteProfile(q)
      \/ RestoreProfile(q) \/ RegisterNew(q) \/ RegisterKnown(q) \/ KeepUser(q) \/ DropUser(q)
  BY <1>1 DEF Move, SignIn, TryBootstrap, GrantSuper, Restart, LookForAccount, RegisterUser,
         ProbeAccount, UpdateSettings, UpdateProfile, AcceptEula, Edit, DeleteAccount,
         UnregisterUser, GrantAdministrator, GrantUserRole, RevokeAdministrator, RevokeUserRole,
         DeleteRow, CountRemaining, Fail, CompareProfile
<1>3. call[r] # NoCall /\ call[r].step = "commit"
  BY DEF Step
<1>4. q = r
  <2>1. CASE ~KeepUser(q) /\ ~DropUser(q)
    <3>1. \E c : call' = [call EXCEPT ![q] = c]
      BY <1>2, <2>1 DEF CreateUser, Promote, Provision, InsertAccount, WriteProfile,
         RestoreProfile, RegisterNew, RegisterKnown, End, Goto
    <3>2. QED  BY <1>3, <3>1 DEF TypeOK
  <2>2. CASE KeepUser(q) \/ DropUser(q)
    <3>1. ASSUME q # r PROVE call'[r] # NoCall
      <4>1. call[r] \in RemovalCall /\ Removes(r)
        BY <1>3, RemovalTyped DEF Removes, InRemoval
      <4>2. CASE End(q)
        BY <1>3, <3>1, <4>2 DEF End, Goto, TypeOK
      <4>3. CASE Commit(q) /\ call[r].user = call[q].user
        <5>1. call'[r] = [call[r] EXCEPT !.met = TRUE]
          BY <3>1, <4>1, <4>3 DEF Commit
        <5>2. call'[r] \in [step : {"commit"}, user : UserIds, rest : SUBSET AccountIds,
                             gone : SUBSET AccountIds, met : BOOLEAN]
          BY <1>3, <4>1, <5>1 DEF RemovalCall
        <5>3. QED  BY <5>2
      <4>4. CASE Commit(q) /\ call[r].user # call[q].user
        BY <1>3, <3>1, <4>4 DEF Commit
      <4>5. QED  BY <2>2, <4>2, <4>3, <4>4 DEF KeepUser, DropUser
    <3>2. QED  BY <3>1
  <2>3. QED  BY <2>1, <2>2
<1>5. QED
  BY <1>3, <1>4, <1>2 DEF CreateUser, Promote, InsertAccount, WriteProfile, RestoreProfile,
     RegisterNew, RegisterKnown, DropUser, Step

(* A removal that met no other of the same user and keeps the user has     *)
(* left an account: nobody stays without one, whatever overlaps.           *)
THEOREM KeptUsersHaveAccounts == Spec => KeptUserHasAccount
<1>1. ASSUME IInv, KInv, [Next]_vars
      PROVE  [\A r \in Requests :
                Step(r, "commit") /\ call'[r] = NoCall /\ account' # account /\ ~call[r].met
                  => \/ user'[call[r].user] = Gone
                     \/ \E a \in AccountIds : /\ account'[a] \notin {Unborn, Gone}
                                               /\ account'[a].user = call[r].user]_vars
  <2>1. SUFFICES ASSUME Next, NEW r \in Requests, Step(r, "commit"), call'[r] = NoCall,
                        account' # account, ~call[r].met
                 PROVE  \E a \in AccountIds : /\ account'[a] \notin {Unborn, Gone}
                                               /\ account'[a].user = call[r].user
    BY <1>1
  <2>2. KeepUser(r)
    BY <1>1, <2>1, EndsItself DEF IInv
  <2>3. Removes(r) /\ call[r].step = "commit"
    BY <2>1 DEF Step, Removes, InRemoval
  <2>4. PICK a \in RowsOf(call[r].user) : a \notin call[r].gone
    BY <1>1, <2>1, <2>3 DEF KInv, Kept, Remaining
  <2>5. a \in AccountIds /\ account'[a] = account[a]
    BY <2>2, <2>4 DEF KeepUser, Commit, RowsOf
  <2>6. QED  BY <2>4, <2>5 DEF RowsOf, IsAccount
<1>2. IInv /\ KInv /\ [Next]_vars => IInv' /\ KInv'
  BY IInvNext, KInvNext
<1>3. Init => IInv /\ KInv
  BY IInvInit, KInvInit
<1>4. QED  BY <1>1, <1>2, <1>3, PTL DEF Spec, KeptUserHasAccount
=============================================================================
