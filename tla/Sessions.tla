------------------------------ MODULE Sessions ------------------------------
(***************************************************************************)
(* Session rows: issued at login, found again on every request, prolonged  *)
(* by use up to an absolute limit, revoked at logout.  Finding a row and   *)
(* prolonging it are two statements, so requests of one session overlap.   *)
(***************************************************************************)
EXTENDS Integers

CONSTANTS
  Tokens,       \* plaintext session ids; no id is issued twice
  Users,        \* ids of auth.users
  Orgs,         \* active organizations; Private is the internal one
  Private,
  Roles,        \* role names
  Super,        \* the role of super-administrators
  Rank,         \* Rank[p]: priority of role p, 1 is the highest
  Requests,     \* calls the server handles at the same time
  Idle,         \* idle time-out
  AbsoluteMax,  \* longest life of a session
  Threshold,    \* a refresh that gains less is not written
  Slowest,      \* bound: a request is between two statements this long at most
  MaxTime,      \* bound of the clock
  Mixed,        \* bound: whether logins and other requests are under way at once
  NoSession, NoRole, NoCall

ASSUME SessionsAssumption ==
  /\ Idle \in Nat \ {0} /\ AbsoluteMax \in Nat \ {0} /\ Threshold \in Nat \ {0}
  /\ Slowest \in Nat /\ MaxTime \in Nat /\ Mixed \in BOOLEAN
  /\ Private \in Orgs /\ Super \in Roles /\ NoRole \notin Roles
  /\ Rank \in [Roles -> Nat]
  /\ NoSession \notin [user : Users, created : Int, expires : Int, role : Roles \cup {NoRole}]

VARIABLES
  now,      \* the clock
  alive,    \* ids with an auth.users row
  member,   \* member[u]: the <<organization, role>> of u's auth.accounts rows
  session,  \* session[t]: the auth.sessions row of t, or NoSession
  revoked,  \* tokens whose session was ended by a logout or with its user
  seen,     \* seen[t]: when the last request that was let in had arrived
  call      \* call[r]: what request r is doing, or NoCall

directory == <<alive, member>>
sessionVars == <<session, revoked, seen>>

Row == [user : Users, created : 0..MaxTime, expires : 0..(MaxTime + Idle),
        role : Roles \cup {NoRole}]

Least(a, b) == IF a < b THEN a ELSE b
Most(a, b) == IF a < b THEN b ELSE a

Goto(r, c) == call' = [call EXCEPT ![r] = c]

Step(r, s) == call[r] # NoCall /\ call[r].step = s

At(r, s) == [call[r] EXCEPT !.step = s]

Browsing == {"refresh", "write", "in", "acting", "role"}
LoggingIn == {"mail", "eligible", "bootstrap", "promote", "mint", "answer", "release"}
Removing == {"count", "commit", "sessions", "links", "user"}

(* A request begins; others of its kind, or the removal of an account, may *)
(* be under way.                                                           *)
Free(r, kind) ==
  /\ call[r] = NoCall
  /\ Mixed \/ \A q \in Requests : call[q] # NoCall => call[q].step \in kind \cup Removing

Fresh(t) == session[t] = NoSession /\ t \notin revoked

-----------------------------------------------------------------------------
(* listRolesForUser, of all organizations.                                 *)
Held(u) == {p \in Roles : \E o \in Orgs : <<o, p>> \in member[u]}

Highest(u) == IF Held(u) = {} THEN NoRole
              ELSE CHOOSE p \in Held(u) : \A q \in Held(u) : Rank[p] <= Rank[q]

(* mintSession; sessions.user_id references auth.users.                    *)
FirstExpiry(t) == Least(now + Idle, now + AbsoluteMax)

Mint(t, u) ==
  /\ Fresh(t) /\ u \in alive
  /\ session' = [session EXCEPT ![t] = [user |-> u, created |-> now,
                                        expires |-> FirstExpiry(t), role |-> NoRole]]
  /\ seen' = [seen EXCEPT ![t] = now]
  /\ UNCHANGED revoked

(* resolveSubject: the row must not have expired.                          *)
Found(t) == session[t] # NoSession /\ session[t].expires > now

Arrive(r, t) ==
  /\ Free(r, Browsing) /\ Found(t)
  /\ Goto(r, [step |-> "refresh", token |-> t, at |-> now, row |-> session[t]])
  /\ UNCHANGED <<now, directory, sessionVars>>

(* refreshIdleExpiry, computed from the row that was read.                 *)
NextExpiry(row) == Least(now + Idle, row.created + AbsoluteMax)

(* Mutant: the threshold is compared with the idle time.                   *)
GainsIdle(row) == NextExpiry(row) - now >= Idle + Threshold

Gains(row) == NextExpiry(row) - row.expires >= Threshold

(* The request goes on with the user and the role of the row it read.      *)
LetIn(r) ==
  LET c == call[r] IN
  /\ seen' = [seen EXCEPT ![c.token] =
                IF session[c.token] = NoSession THEN @ ELSE Most(@, c.at)]
  /\ Goto(r, [step |-> "in", token |-> c.token, user |-> c.row.user,
              role |-> c.row.role])

Refresh(r) ==
  LET c == call[r] IN
  /\ Step(r, "refresh")
  /\ IF Gains(c.row)
     THEN /\ Goto(r, [step |-> "write", token |-> c.token, at |-> c.at, row |-> c.row,
                      next |-> NextExpiry(c.row)])
          /\ UNCHANGED seen
     ELSE LetIn(r)
  /\ UNCHANGED <<now, directory, session, revoked>>

(* Mutant: the row is saved, which inserts it when it is gone.             *)
Stored(c) == [session EXCEPT ![c.token] = [c.row EXCEPT !.expires = c.next]]

(* UPDATE ... WHERE id: nothing when the row is gone.                      *)
Prolonged(c) ==
  IF session[c.token] = NoSession THEN session
  ELSE [session EXCEPT ![c.token].expires = c.next]

Write(r) ==
  /\ Step(r, "write")
  /\ session' = Prolonged(call[r])
  /\ LetIn(r)
  /\ UNCHANGED <<now, directory, revoked>>

-----------------------------------------------------------------------------
(* resolveActiveRole: the chosen role if it is still held.                 *)
ActiveRole(u, role) == IF role \in Held(u) THEN role ELSE Highest(u)

Act(r) ==
  /\ Step(r, "in")
  /\ Goto(r, [step |-> "acting", acts |-> ActiveRole(call[r].user, call[r].role)])
  /\ UNCHANGED <<now, directory, sessionVars>>

(* setActiveRole checks the role and then writes it to the session row.    *)
ChooseRole(r) ==
  /\ Step(r, "in")
  /\ \E p \in Held(call[r].user) :
       Goto(r, [step |-> "role", token |-> call[r].token, acts |-> p])
  /\ UNCHANGED <<now, directory, sessionVars>>

SetRole(r) ==
  LET t == call[r].token IN
  /\ Step(r, "role")
  /\ session' = IF session[t] = NoSession THEN session
                ELSE [session EXCEPT ![t].role = call[r].acts]
  /\ Goto(r, NoCall)
  /\ UNCHANGED <<now, directory, revoked, seen>>

Leave(r) ==
  /\ Step(r, "acting")
  /\ Goto(r, NoCall)
  /\ UNCHANGED <<now, directory, sessionVars>>

(* revokeSession, of the token the browser sends.                          *)
Logout(t) ==
  /\ session[t] # NoSession
  /\ session' = [session EXCEPT ![t] = NoSession]
  /\ revoked' = revoked \cup {t} /\ seen' = [seen EXCEPT ![t] = 0]
  /\ UNCHANGED <<now, directory, call>>

-----------------------------------------------------------------------------
(* Who keeps sending requests is not logged out by the idle time-out: the  *)
(* expiry lies an idle time after the last request let in, up to the       *)
(* threshold or to what a late write of an older request takes back.       *)
KeptAlive ==
  \A t \in Tokens : session[t] # NoSession =>
    session[t].expires >= Least(session[t].created + AbsoluteMax, seen[t] + Idle)
                            - Most(Slowest, Threshold - 1)

(* A session that was ended has no row, whatever was under way then.       *)
RevokedIsOver == \A t \in revoked : session[t] = NoSession
=============================================================================
