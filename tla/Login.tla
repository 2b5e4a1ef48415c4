-------------------------------- MODULE Login --------------------------------
(***************************************************************************)
(* Sessions composed with the two ways to log in and with the directory of *)
(* accounts that changes meanwhile.  A mailed link is claimed by one       *)
(* conditional update, the login goes on statement by statement, and an    *)
(* error gives the link back; only a crash in between does not.            *)
(***************************************************************************)
EXTENDS Sessions, FiniteSets

CONSTANTS
  Links,      \* one-time tokens; no token is mailed twice
  Bootstrap,  \* users with the bootstrap address: at most one
  Validity,   \* how long a mailed link is good
  Cooldown,   \* pause between two links to one address
  StartMember,\* the directory at the start
  NoLink, NoOrg

(* What the verification of a link remembers from statement to statement.  *)
LoginCall == [step : LoggingIn \ {"mail"}, link : Links, user : Users, org : Orgs,
              token : Tokens \cup {NoSession}]

LinkRow == [user : Users, org : Orgs, created : 0..MaxTime, used : BOOLEAN]

ASSUME LoginAssumption ==
  /\ NoLink \notin LinkRow /\ NoCall \notin LoginCall
  /\ Validity \in Nat /\ Cooldown \in Nat
  /\ Bootstrap \subseteq Users /\ Cardinality(Bootstrap) <= 1
  /\ StartMember \in [Users -> SUBSET (Orgs \X Roles)]

VARIABLES
  link,    \* link[l]: the auth.magic_link_tokens row of l, or NoLink
  mailed,  \* links that were ever sent
  logins,  \* logins[l]: answers with a session that l was good for
  cut      \* links whose call was cut short by a crash

linkVars == <<link, mailed, logins, cut>>
vars == <<now, directory, sessionVars, call, linkVars>>

Init ==
  /\ now = 0 /\ alive = Users /\ member = StartMember
  /\ session = [t \in Tokens |-> NoSession] /\ revoked = {}
  /\ seen = [t \in Tokens |-> 0] /\ call = [r \in Requests |-> NoCall]
  /\ link = [l \in Links |-> NoLink] /\ mailed = {} /\ cut = {}
  /\ logins = [l \in Links |-> 0]

-----------------------------------------------------------------------------
(* listActiveMagicLinkOrganizationIdsForUser.                              *)
Tenants(u) == {o \in Orgs \ {Private} : \E p \in Roles : <<o, p>> \in member[u]}

(* The internal organization lets in the bootstrap address and its own     *)
(* super-administrators.                                                   *)
Internal(u) == u \in Bootstrap \/ <<Private, Super>> \in member[u]

(* resolveEmailMagicLinkTargetForOrganization.                             *)
Eligible(u, o) == u \in alive /\ (o \in Tenants(u) \/ (o = Private /\ Internal(u)))

(* resolveEmailMagicLinkTarget: several tenants are not told apart.        *)
Target(u) ==
  IF u \notin alive THEN NoOrg
  ELSE IF Cardinality(Tenants(u)) = 1 THEN CHOOSE o \in Tenants(u) : TRUE
  ELSE IF Tenants(u) = {} /\ Internal(u) THEN Private ELSE NoOrg

(* assertCooldownAllowsRequest looks at the latest link only.              *)
Latest(u, o) ==
  {l \in mailed : link[l] # NoLink /\ link[l].user = u /\ link[l].org = o
     /\ \A m \in mailed : link[m] # NoLink /\ link[m].user = u /\ link[m].org = o
                            => link[m].created <= link[l].created}

CooledDown(u, o) ==
  Latest(u, o) = {} \/ \E l \in Latest(u, o) :
                         link[l].used \/ link[l].created + Cooldown <= now

(* requestMagicLink, with the organization given or found by the address.  *)
RequestLink(r, u) ==
  /\ Free(r, LoggingIn) /\ mailed # Links
  /\ \E o \in {p \in Orgs : Eligible(u, p)} \cup ({Target(u)} \ {NoOrg}) :
       /\ CooledDown(u, o)
       /\ Goto(r, [step |-> "mail", user |-> u, org |-> o])
  /\ UNCHANGED <<now, directory, sessionVars, linkVars>>

SendLink(r) ==
  /\ Step(r, "mail")
  /\ \E l \in Links \ mailed :
       /\ link' = [link EXCEPT ![l] = [user |-> call[r].user, org |-> call[r].org,
                                       created |-> now, used |-> FALSE]]
       /\ mailed' = mailed \cup {l}
  /\ Goto(r, NoCall)
  /\ UNCHANGED <<now, directory, sessionVars, logins, cut>>

-----------------------------------------------------------------------------
(* Mutant: the update does not look at consumed_at.                        *)
NotExpired(l) == link[l] # NoLink /\ link[l].created + Validity > now

Claimable(l) == link[l] # NoLink /\ ~link[l].used /\ link[l].created + Validity > now

(* verifyMagicLink claims the link in one conditional UPDATE ...           *)
Claim(r, l) ==
  /\ Free(r, LoggingIn) /\ Claimable(l)
  /\ link' = [link EXCEPT ![l].used = TRUE]
  /\ Goto(r, [step |-> "eligible", link |-> l, user |-> link[l].user,
              org |-> link[l].org, token |-> NoSession])
  /\ UNCHANGED <<now, directory, sessionVars, mailed, logins, cut>>

(* ... checks the account again ...                                        *)
CheckEligible(r) ==
  /\ Step(r, "eligible")
  /\ Goto(r, At(r, IF Eligible(call[r].user, call[r].org) THEN "bootstrap" ELSE "release"))
  /\ UNCHANGED <<now, directory, sessionVars, linkVars>>

HasSuper == \E u \in Users, o \in Orgs : <<o, Super>> \in member[u]

(* ... makes the bootstrap address a super-administrator if there is none: *)
(* tryGrantBootstrapSuperOnLogin reads, then inserts ...                   *)
CheckBootstrap(r) ==
  /\ Step(r, "bootstrap")
  /\ Goto(r, At(r, IF call[r].user \in Bootstrap /\ ~HasSuper THEN "promote" ELSE "mint"))
  /\ UNCHANGED <<now, directory, sessionVars, linkVars>>

Promote(r) ==
  LET u == call[r].user IN
  /\ Step(r, "promote")
  /\ IF u \in alive
     THEN /\ member' = [member EXCEPT ![u] = @ \cup {<<Private, Super>>}]
          /\ Goto(r, At(r, "mint"))
     ELSE Goto(r, At(r, "release")) /\ UNCHANGED member
  /\ UNCHANGED <<now, alive, sessionVars, linkVars>>

(* ... and establishes a session.                                          *)
Establish(r) ==
  /\ Step(r, "mint")
  /\ \/ \E t \in Tokens : /\ Mint(t, call[r].user)
                          /\ Goto(r, [call[r] EXCEPT !.step = "answer", !.token = t])
     \/ /\ call[r].user \notin alive /\ Goto(r, At(r, "release"))
        /\ UNCHANGED sessionVars
  /\ UNCHANGED <<now, directory, linkVars>>

Answer(r) ==
  /\ Step(r, "answer")
  /\ logins' = [logins EXCEPT ![call[r].link] = @ + 1]
  /\ Goto(r, NoCall)
  /\ UNCHANGED <<now, directory, sessionVars, link, mailed, cut>>

Claimed == {"eligible", "bootstrap", "promote", "mint", "answer"}

(* A statement fails, or its answer is lost: the catch block runs.         *)
Throw(r) ==
  /\ \E s \in Claimed : Step(r, s)
  /\ Goto(r, At(r, "release"))
  /\ UNCHANGED <<now, directory, sessionVars, linkVars>>

(* Mutant: the error is passed on without giving the link back.            *)
Kept(l) == link

Released(l) == IF link[l] = NoLink THEN link ELSE [link EXCEPT ![l].used = FALSE]

Release(r) ==
  /\ Step(r, "release")
  /\ link' = Released(call[r].link)
  /\ Goto(r, NoCall)
  /\ UNCHANGED <<now, directory, sessionVars, mailed, logins, cut>>

(* The process dies, or the database is not reached for the release.       *)
Crash(r) ==
  /\ \E s \in Claimed \cup {"release", "mail", "refresh", "write", "role"} : Step(r, s)
  /\ cut' = IF call[r].step \in Claimed \cup {"release"} THEN cut \cup {call[r].link}
            ELSE cut
  /\ Goto(r, NoCall)
  /\ UNCHANGED <<now, directory, sessionVars, link, mailed, logins>>

-----------------------------------------------------------------------------
(* The removal of an account is one transaction; several of them overlap   *)
(* in Accounts.  A row it deleted is locked until its end: who reads still *)
(* finds the row, who updates it waits and then finds it gone.             *)
LinksOf(u) == {l \in Links : link[l] # NoLink /\ link[l].user = u}

SessionsOf(u) == {t \in Tokens : session[t] # NoSession /\ session[t].user = u}

Removals == {r \in Requests : call[r] # NoCall /\ call[r].step \in Removing}

LockedSessions == UNION {call[r].sessions : r \in Removals}
LockedLinks == UNION {call[r].links : r \in Removals}

(* removeOrganizationAccountRecord deletes the account ...                 *)
RemoveAccount(r) ==
  /\ call[r] = NoCall /\ Removals = {}
  /\ \E u \in alive : \E p \in member[u] :
       Goto(r, [step |-> "count", user |-> u, account |-> p, sessions |-> {}, links |-> {}])
  /\ UNCHANGED <<now, directory, sessionVars, linkVars>>

(* ... counts what the user has left ...                                   *)
CountRemaining(r) ==
  /\ Step(r, "count")
  /\ Goto(r, At(r, IF member[call[r].user] = {call[r].account} THEN "sessions" ELSE "commit"))
  /\ UNCHANGED <<now, directory, sessionVars, linkVars>>

(* ... and keeps the user, ...                                             *)
KeepUser(r) ==
  /\ Step(r, "commit")
  /\ member' = [member EXCEPT ![call[r].user] = @ \ {call[r].account}]
  /\ Goto(r, NoCall)
  /\ UNCHANGED <<now, alive, sessionVars, linkVars>>

(* ... or deletes the sessions, ...                                        *)
DeleteSessions(r) ==
  /\ Step(r, "sessions")
  /\ Goto(r, [call[r] EXCEPT !.step = "links", !.sessions = SessionsOf(call[r].user)])
  /\ UNCHANGED <<now, directory, sessionVars, linkVars>>

(* ... the links of the address ...                                        *)
DeleteLinks(r) ==
  /\ Step(r, "links")
  /\ Goto(r, [call[r] EXCEPT !.step = "user", !.links = LinksOf(call[r].user)])
  /\ UNCHANGED <<now, directory, sessionVars, linkVars>>

(* sessions.user_id and accounts.user_id reference auth.users: a session   *)
(* that a login has made since, or an account, makes the deletion fail.    *)
Referenced(c) == ~(SessionsOf(c.user) \subseteq c.sessions) \/ member[c.user] # {c.account}

(* ... and the user, after which all of it becomes visible.                *)
DeleteUser(r) ==
  LET c == call[r] IN
  /\ Step(r, "user") /\ ~Referenced(c)
  /\ member' = [member EXCEPT ![c.user] = {}]
  /\ alive' = alive \ {c.user}
  /\ session' = [t \in Tokens |-> IF t \in c.sessions THEN NoSession ELSE session[t]]
  /\ seen' = [t \in Tokens |-> IF t \in c.sessions THEN 0 ELSE seen[t]]
  /\ revoked' = revoked \cup c.sessions
  /\ link' = [l \in Links |-> IF l \in c.links THEN NoLink ELSE link[l]]
  /\ Goto(r, NoCall)
  /\ UNCHANGED <<now, mailed, logins, cut>>

(* The foreign key refuses the deletion, or a statement fails: everything  *)
(* is rolled back.                                                         *)
RollBack(r) ==
  /\ r \in Removals
  /\ Goto(r, NoCall)
  /\ UNCHANGED <<now, directory, sessionVars, linkVars>>

(* Before the first link nothing is dated, and time need not pass.         *)
Tick ==
  /\ now < MaxTime /\ mailed # {}
  /\ \A r \in Requests : Step(r, "refresh") \/ Step(r, "write") => now - call[r].at < Slowest
  /\ now' = now + 1
  /\ UNCHANGED <<directory, sessionVars, call, linkVars>>

(* The calls of browsers; an update waits while its row is locked.         *)
Browse(r) ==
  \/ \E t \in Tokens : Arrive(r, t)
  \/ Refresh(r) \/ Act(r) \/ ChooseRole(r) \/ Leave(r)
  \/ (Write(r) \/ SetRole(r)) /\ call[r].token \notin LockedSessions

LogIn(r) ==
  \/ \E u \in Users : RequestLink(r, u)
  \/ \E l \in Links \ LockedLinks : Claim(r, l)
  \/ SendLink(r) \/ CheckEligible(r) \/ CheckBootstrap(r) \/ Promote(r)
  \/ Establish(r) \/ Answer(r) \/ Throw(r) \/ Crash(r)
  \/ Release(r) /\ call[r].link \notin LockedLinks

Remove(r) ==
  \/ RemoveAccount(r) \/ CountRemaining(r) \/ KeepUser(r)
  \/ DeleteSessions(r) \/ DeleteLinks(r) \/ DeleteUser(r) \/ RollBack(r)

Next ==
  \/ \E r \in Requests : LogIn(r) \/ Remove(r) \/ (Browse(r) /\ UNCHANGED linkVars)
  \/ \E t \in Tokens \ LockedSessions : Logout(t) /\ UNCHANGED linkVars
  \/ Tick

Spec == Init /\ [][Next]_vars

-----------------------------------------------------------------------------
(* A mailed link answers with a session once at most, although it is given *)
(* back after errors and may be opened several times at once.              *)
OneLoginPerLink == \A l \in Links : logins[l] <= 1

Verifying(l) ==
  \E r \in Requests : call[r] # NoCall /\ call[r].step \in Claimed \cup {"release"}
                        /\ call[r].link = l

(* A link that is used up has logged its owner in, is being worked on, or  *)
(* its call was cut short by a crash: no error uses it up in vain.         *)
LinkNotLost ==
  \A l \in Links : (link[l] # NoLink /\ link[l].used) =>
    logins[l] = 1 \/ Verifying(l) \/ l \in cut
=============================================================================
