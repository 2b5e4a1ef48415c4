----------------------------- MODULE LoginProofs -----------------------------
(***************************************************************************)
(* What Login promises about mailed links and sessions, for every number   *)
(* of users, links, requests and however they overlap.  IInv joins the     *)
(* types, the links (Exclusive: one call at a time verifies a link, which  *)
(* is used meanwhile) and what the runs check of sessions; KInv is for the *)
(* idle time-out: what a request has read of its session is a bounded time *)
(* old (Recent), so what it writes takes back that much at most.           *)
(***************************************************************************)
EXTENDS Login, FiniteSetTheorems, TLAPS

(* The calls that are under way, step by step.                             *)
MailCall == [step : {"mail"}, user : Users, org : Orgs]
RefreshCall == [step : {"refresh"}, token : Tokens, at : 0..MaxTime, row : Row]
WriteCall == [step : {"write"}, token : Tokens, at : 0..MaxTime, row : Row,
              next : 0..(MaxTime + Idle)]
InCall == [step : {"in"}, token : Tokens, user : Users, role : Roles \cup {NoRole}]
RoleCall == [step : {"role"}, token : Tokens, acts : Roles]
RemovalCall == [step : Removing, user : Users, account : Orgs \X Roles,
                sessions : SUBSET Tokens, links : SUBSET Links]

Typed(c) ==
  \/ c \in MailCall \cup LoginCall \cup RefreshCall \cup WriteCall \cup InCall \cup RoleCall
  \/ c \in RemovalCall
  \/ c.step = "acting"

TypeOK ==
  /\ now \in 0..MaxTime
  /\ alive \subseteq Users /\ member \in [Users -> SUBSET (Orgs \X Roles)]
  /\ session \in [Tokens -> Row \cup {NoSession}]
  /\ revoked \subseteq Tokens /\ seen \in [Tokens -> 0..MaxTime]
  /\ link \in [Links -> LinkRow \cup {NoLink}]
  /\ mailed \subseteq Links /\ cut \subseteq Links /\ logins \in [Links -> 0..1]
  /\ DOMAIN call = Requests /\ call = [r \in Requests |-> call[r]]
  /\ \A r \in Requests : call[r] = NoCall \/ Typed(call[r])

(* Request r is verifying link l.                                          *)
Verifies(r, l) ==
  call[r] # NoCall /\ call[r].step \in Claimed \cup {"release"} /\ call[r].link = l

(* A link is verified by one call at a time, and is used while it is; one  *)
(* that has logged its owner in stays used.                                *)
Exclusive ==
  \A l \in Links :
    /\ \A q, r \in Requests : Verifies(q, l) /\ Verifies(r, l) => q = r
    /\ (logins[l] = 1 \/ \E r \in Requests : Verifies(r, l)) =>
         l \in mailed /\ (link[l] = NoLink \/ link[l].used)
    /\ logins[l] = 1 => \A r \in Requests : ~Verifies(r, l)
    /\ link[l] # NoLink => l \in mailed

IInv == TypeOK /\ Exclusive /\ RevokedIsOver /\ LinkNotLost

-----------------------------------------------------------------------------
(* What a request that is at a step remembers.                             *)
LEMMA StepCall ==
  ASSUME TypeOK, NEW r \in Requests
  PROVE  /\ Step(r, "mail") => call[r] \in MailCall
         /\ Step(r, "refresh") => call[r] \in RefreshCall
         /\ Step(r, "write") => call[r] \in WriteCall
         /\ Step(r, "in") => call[r] \in InCall
         /\ Step(r, "role") => call[r] \in RoleCall
         /\ \A s \in Claimed \cup {"release"} : Step(r, s) => call[r] \in LoginCall
         /\ \A s \in Removing : Step(r, s) => call[r] \in RemovalCall
  BY DEF TypeOK, Typed, Step, MailCall, RefreshCall, WriteCall, InCall, RoleCall,
         LoginCall, LoggingIn, Claimed, RemovalCall, Removing

(* A request that goes on keeps the types of the others.                   *)
LEMMA GotoTyped ==
  ASSUME TypeOK, NEW r \in Requests, NEW c, c = NoCall \/ Typed(c), Goto(r, c)
  PROVE  /\ DOMAIN call' = Requests /\ call' = [q \in Requests |-> call'[q]]
         /\ call'[r] = c /\ \A q \in Requests \ {r} : call'[q] = call[q]
         /\ \A q \in Requests : call'[q] = NoCall \/ Typed(call'[q])
  BY DEF TypeOK, Goto

(* What the links are good for does not change with calls that verify none.*)
LEMMA SameLinks ==
  ASSUME Exclusive, LinkNotLost, UNCHANGED linkVars,
         \A r \in Requests, l \in Links : Verifies(r, l)' <=> Verifies(r, l)
  PROVE  Exclusive' /\ LinkNotLost'
  BY DEF Exclusive, LinkNotLost, Verifying, Verifies, linkVars

LEMMA SameSessions ==
  ASSUME RevokedIsOver, UNCHANGED sessionVars
  PROVE  RevokedIsOver'
  BY DEF RevokedIsOver, sessionVars

(* The one organization that a mailed link is for.                         *)
LEMMA TargetIsOrg == ASSUME NEW u PROVE Target(u) \in Orgs \cup {NoOrg}
<1>1. Cardinality({}) = 0
  BY FS_EmptySet
<1>2. Cardinality(Tenants(u)) = 1 => (CHOOSE o \in Tenants(u) : TRUE) \in Tenants(u)
  <2> SUFFICES ASSUME Cardinality(Tenants(u)) = 1, Tenants(u) = {} PROVE FALSE
    OBVIOUS
  <2> QED  BY <1>1
<1>3. Tenants(u) \subseteq Orgs /\ Private \in Orgs
  BY SessionsAssumption DEF Tenants
<1>4. QED
  BY <1>2, <1>3 DEF Target

(* A lookup that prolongs a session keeps it within the clock.             *)
LEMMA ExpiryTyped ==
  ASSUME now \in 0..MaxTime
  PROVE  /\ \A row \in Row : NextExpiry(row) \in 0..(MaxTime + Idle)
         /\ \A t : FirstExpiry(t) \in 0..(MaxTime + Idle)
  BY SessionsAssumption DEF NextExpiry, FirstExpiry, Least, Row

(* IInv holds at the beginning.                                            *)
LEMMA IInvInit == Init => IInv
  BY SessionsAssumption, LoginAssumption
     DEF Init, IInv, TypeOK, Typed, Exclusive, Verifies, RevokedIsOver,
         LinkNotLost

-----------------------------------------------------------------------------
(* What browsers do changes no link.                                       *)
Browses(r) ==
  \/ \E t \in Tokens : Arrive(r, t)
  \/ Refresh(r) \/ Write(r) \/ Act(r) \/ ChooseRole(r) \/ SetRole(r) \/ Leave(r)

LEMMA BrowsingPreserves ==
  ASSUME IInv, NEW r \in Requests, Browses(r), UNCHANGED linkVars
  PROVE  IInv'
<1> USE SessionsAssumption, LoginAssumption DEF IInv, directory, sessionVars
<1> DEFINE Unverified(c) == c = NoCall \/ (Typed(c) /\ c.step \notin Claimed \cup {"release"})
<1>0. ASSUME NEW c, Unverified(c), Goto(r, c), Unverified(call[r])
      PROVE  Exclusive' /\ LinkNotLost'
  <2>1. \A q \in Requests, l \in Links : Verifies(q, l)' <=> Verifies(q, l)
    BY <1>0, GotoTyped DEF Verifies
  <2>2. QED  BY <2>1, SameLinks
<1>1. ASSUME NEW t \in Tokens, Arrive(r, t) PROVE IInv'
  <2> DEFINE c == [step |-> "refresh", token |-> t, at |-> now, row |-> session[t]]
  <2>1. c \in RefreshCall /\ Unverified(c)
    BY <1>1 DEF Arrive, Found, TypeOK, RefreshCall, Typed, Claimed
  <2>2. Goto(r, c) /\ Unverified(call[r]) /\ UNCHANGED <<now, directory, sessionVars>>
    BY <1>1 DEF Arrive, Free
  <2> HIDE DEF c
  <2>3. Exclusive' /\ LinkNotLost'
    BY <1>0, <2>1, <2>2
  <2>4. TypeOK'
    BY <2>1, <2>2, GotoTyped DEF TypeOK, linkVars
  <2>5. QED  BY <2>2, <2>3, <2>4, SameSessions
<1>2. ASSUME LetIn(r), call[r] \in RefreshCall \cup WriteCall,
             UNCHANGED <<now, directory, revoked>>,
             session' \in [Tokens -> Row \cup {NoSession}],
             \A t \in Tokens : \/ session'[t] = session[t]
                               \/ /\ session[t] # NoSession /\ session'[t] # NoSession
                                  /\ session'[t].user = session[t].user
      PROVE  IInv'
  <2> DEFINE c == [step |-> "in", token |-> call[r].token, user |-> call[r].row.user,
                   role |-> call[r].row.role]
  <2>1. c \in InCall /\ Unverified(c) /\ Unverified(call[r])
    BY <1>2 DEF RefreshCall, WriteCall, Row, InCall, Typed, Claimed
  <2>2. Goto(r, c)
    BY <1>2 DEF LetIn
  <2> HIDE DEF c
  <2>3. Exclusive' /\ LinkNotLost'
    BY <1>0, <2>1, <2>2
  <2>4. seen' \in [Tokens -> 0..MaxTime]
    BY <1>2 DEF LetIn, TypeOK, RefreshCall, WriteCall, Most
  <2>5. TypeOK'
    BY <1>2, <2>1, <2>2, <2>4, GotoTyped DEF TypeOK, linkVars
  <2>6. RevokedIsOver'
    BY <1>2 DEF RevokedIsOver, TypeOK
  <2>7. QED  BY <2>3, <2>5, <2>6
<1>3. CASE Refresh(r)
  <2> DEFINE c == [step |-> "write", token |-> call[r].token, at |-> call[r].at,
                   row |-> call[r].row, next |-> NextExpiry(call[r].row)]
  <2>1. call[r] \in RefreshCall /\ UNCHANGED <<now, directory, session, revoked>>
    BY <1>3, StepCall DEF Refresh
  <2>2. CASE Gains(call[r].row)
    <3>1. now \in 0..MaxTime /\ call[r].row \in Row
      BY <2>1 DEF TypeOK, RefreshCall
    <3>2. c \in WriteCall
      BY <2>1, <3>1, ExpiryTyped DEF RefreshCall, WriteCall
    <3>3. Unverified(c) /\ Unverified(call[r])
      BY <2>1, <3>2 DEF RefreshCall, WriteCall, Typed, Claimed
    <3>4. Goto(r, c) /\ UNCHANGED seen
      BY <1>3, <2>2 DEF Refresh
    <3> HIDE DEF c
    <3>5. Exclusive' /\ LinkNotLost'
      BY <1>0, <3>3, <3>4
    <3>6. TypeOK'
      BY <2>1, <3>3, <3>4, GotoTyped DEF TypeOK, linkVars
    <3>7. QED  BY <2>1, <3>4, <3>5, <3>6, SameSessions
  <2>3. CASE ~Gains(call[r].row)
    <3>1. LetIn(r)
      BY <1>3, <2>3 DEF Refresh
    <3>2. QED  BY <1>2, <2>1, <3>1 DEF TypeOK
  <2>4. QED  BY <2>2, <2>3
<1>4. CASE Write(r)
  <2>1. call[r] \in WriteCall /\ UNCHANGED <<now, directory, revoked>> /\ LetIn(r)
    BY <1>4, StepCall DEF Write
  <2>2. \A t \in Tokens : \/ session'[t] = session[t]
                          \/ /\ session[t] # NoSession /\ session'[t] # NoSession
                             /\ session'[t].user = session[t].user
    BY <1>4, <2>1 DEF Write, Prolonged, TypeOK, WriteCall, Row
  <2>3. session' \in [Tokens -> Row \cup {NoSession}]
    BY <1>4, <2>1 DEF Write, Prolonged, TypeOK, WriteCall, Row
  <2>4. QED  BY <1>2, <2>1, <2>2, <2>3
<1>5. CASE Act(r)
  <2> DEFINE c == [step |-> "acting", acts |-> ActiveRole(call[r].user, call[r].role)]
  <2>1. Unverified(c) /\ Unverified(call[r]) /\ Goto(r, c)
    BY <1>5, StepCall DEF Act, Step, InCall, Typed, Claimed
  <2>2. UNCHANGED <<now, directory, sessionVars>>
    BY <1>5 DEF Act
  <2> HIDE DEF c
  <2>3. Exclusive' /\ LinkNotLost'
    BY <1>0, <2>1
  <2>4. TypeOK'
    BY <2>1, <2>2, GotoTyped DEF TypeOK, linkVars
  <2>5. QED  BY <2>2, <2>3, <2>4, SameSessions
<1>6. CASE ChooseRole(r)
  <2>1. PICK p \in Held(call[r].user) :
          Goto(r, [step |-> "role", token |-> call[r].token, acts |-> p])
    BY <1>6 DEF ChooseRole
  <2> DEFINE c == [step |-> "role", token |-> call[r].token, acts |-> p]
  <2>2. call[r] \in InCall /\ p \in Roles
    BY <1>6, StepCall DEF ChooseRole, Held
  <2>3. Unverified(c) /\ Unverified(call[r])
    BY <2>2 DEF InCall, RoleCall, Typed, Claimed
  <2>4. Goto(r, c) /\ UNCHANGED <<now, directory, sessionVars>>
    BY <1>6, <2>1 DEF ChooseRole
  <2> HIDE DEF c
  <2>5. Exclusive' /\ LinkNotLost'
    BY <1>0, <2>3, <2>4
  <2>6. TypeOK'
    BY <2>3, <2>4, GotoTyped DEF TypeOK, linkVars
  <2>7. QED  BY <2>4, <2>5, <2>6, SameSessions
<1>7. CASE SetRole(r)
  <2>1. call[r] \in RoleCall /\ Goto(r, NoCall) /\ UNCHANGED <<now, directory, revoked, seen>>
    BY <1>7, StepCall DEF SetRole
  <2>2. Unverified(call[r])
    BY <2>1 DEF RoleCall, Typed, Claimed
  <2>3. Exclusive' /\ LinkNotLost'
    BY <1>0, <2>1, <2>2
  <2>4. /\ session' \in [Tokens -> Row \cup {NoSession}]
        /\ \A t \in Tokens : \/ session'[t] = session[t]
                             \/ /\ session[t] # NoSession /\ session'[t] # NoSession
                                /\ session'[t].user = session[t].user
    BY <1>7, <2>1 DEF SetRole, TypeOK, RoleCall, Row
  <2>5. TypeOK'
    BY <2>1, <2>4, GotoTyped DEF TypeOK, linkVars
  <2>6. RevokedIsOver'
    BY <2>1, <2>4 DEF RevokedIsOver, TypeOK
  <2>7. QED  BY <2>3, <2>5, <2>6
<1>8. CASE Leave(r)
  <2>1. Unverified(call[r]) /\ Goto(r, NoCall) /\ UNCHANGED <<now, directory, sessionVars>>
    BY <1>8 DEF Leave, Step, Claimed, TypeOK
  <2>2. Exclusive' /\ LinkNotLost'
    BY <1>0, <2>1
  <2>3. TypeOK'
    BY <2>1, GotoTyped DEF TypeOK, linkVars
  <2>4. QED  BY <2>1, <2>2, <2>3, SameSessions
<1>9. QED
  BY <1>1, <1>3, <1>4, <1>5, <1>6, <1>7, <1>8 DEF Browses

-----------------------------------------------------------------------------
(* A verification that goes on to its next step still has its link.        *)
LEMMA GoesOn ==
  ASSUME IInv, NEW r \in Requests, call[r] \in LoginCall, NEW c \in LoginCall,
         c.link = call[r].link, Goto(r, c), UNCHANGED linkVars
  PROVE  /\ Exclusive' /\ LinkNotLost'
         /\ DOMAIN call' = Requests /\ call' = [q \in Requests |-> call'[q]]
         /\ \A q \in Requests : call'[q] = NoCall \/ Typed(call'[q])
<1> USE LoginAssumption DEF IInv
<1>1. c \notin {NoCall} /\ call[r] # NoCall /\ Typed(c)
  BY DEF Typed
<1>2. \A d \in LoginCall : d.step \in Claimed \cup {"release"}
  BY DEF LoginCall, LoggingIn, Claimed
<1>3. \A q \in Requests, l \in Links : Verifies(q, l)' <=> Verifies(q, l)
  BY <1>1, <1>2, GotoTyped DEF Verifies
<1>4. QED  BY <1>1, <1>3, GotoTyped, SameLinks

(* The steps of a verification that change no row of links ...             *)
Proceeds(r) ==
  CheckEligible(r) \/ CheckBootstrap(r) \/ Promote(r) \/ Establish(r) \/ Throw(r)

(* ... keep what is known about links and sessions.                        *)
LEMMA VerifyingPreserves ==
  ASSUME IInv, NEW r \in Requests, Proceeds(r)
  PROVE  IInv'
<1> USE SessionsAssumption, LoginAssumption DEF IInv, directory, sessionVars
<1>1. call[r] \in LoginCall /\ UNCHANGED linkVars /\ UNCHANGED now
  BY StepCall DEF Proceeds, CheckEligible, CheckBootstrap, Promote, Establish, Throw, Claimed
<1>2. \A s \in Claimed \cup {"release"} : At(r, s) \in LoginCall /\ At(r, s).link = call[r].link
  BY <1>1 DEF At, LoginCall, LoggingIn, Claimed
<1>3. ASSUME NEW s \in Claimed \cup {"release"}, Goto(r, At(r, s)), UNCHANGED <<alive, sessionVars>>,
             member' \in [Users -> SUBSET (Orgs \X Roles)]
      PROVE  IInv'
  <2>1. /\ Exclusive' /\ LinkNotLost'
        /\ DOMAIN call' = Requests /\ call' = [q \in Requests |-> call'[q]]
        /\ \A q \in Requests : call'[q] = NoCall \/ Typed(call'[q])
    BY <1>1, <1>2, <1>3, GoesOn
  <2>2. TypeOK'
    BY <1>1, <1>3, <2>1 DEF TypeOK, linkVars
  <2>3. QED  BY <1>3, <2>1, <2>2, SameSessions
<1>4. CASE CheckEligible(r)
  BY <1>3, <1>4 DEF CheckEligible, Claimed, TypeOK
<1>5. CASE CheckBootstrap(r)
  BY <1>3, <1>5 DEF CheckBootstrap, Claimed, TypeOK
<1>6. CASE Promote(r)
  <2>1. member' \in [Users -> SUBSET (Orgs \X Roles)]
    BY <1>6 DEF Promote, TypeOK
  <2>2. QED  BY <1>3, <1>6, <2>1 DEF Promote, Claimed
<1>7. CASE Throw(r)
  BY <1>3, <1>7 DEF Throw, Claimed, TypeOK
<1>8. CASE Establish(r)
  <2>1. CASE call[r].user \notin alive /\ Goto(r, At(r, "release")) /\ UNCHANGED sessionVars
    BY <1>3, <1>8, <2>1 DEF Establish, TypeOK
  <2>2. ASSUME NEW t \in Tokens, Mint(t, call[r].user),
               Goto(r, [call[r] EXCEPT !.step = "answer", !.token = t])
        PROVE  IInv'
    <3> DEFINE c == [call[r] EXCEPT !.step = "answer", !.token = t]
               row == [user |-> call[r].user, created |-> now, expires |-> FirstExpiry(t),
                       role |-> NoRole]
    <3>1. c \in LoginCall /\ c.link = call[r].link /\ call[r].user \in Users
      BY <1>1 DEF LoginCall, LoggingIn
    <3>2. /\ Exclusive' /\ LinkNotLost'
          /\ DOMAIN call' = Requests /\ call' = [q \in Requests |-> call'[q]]
          /\ \A q \in Requests : call'[q] = NoCall \/ Typed(call'[q])
      BY <1>1, <2>2, <3>1, GoesOn
    <3>3. row \in Row /\ row.user \in alive
      BY <2>2, <3>1, ExpiryTyped DEF Mint, Row, TypeOK
    <3>4. session' = [session EXCEPT ![t] = row] /\ seen' = [seen EXCEPT ![t] = now]
            /\ Fresh(t) /\ UNCHANGED <<revoked, alive, member>>
      BY <1>8, <2>2 DEF Mint, Establish
    <3> HIDE DEF c, row
    <3>5. TypeOK'
      BY <1>1, <3>2, <3>3, <3>4 DEF TypeOK, linkVars
    <3>6. RevokedIsOver'
      BY <3>3, <3>4 DEF RevokedIsOver, Fresh, TypeOK
    <3>7. QED  BY <3>2, <3>5, <3>6
  <2>3. QED  BY <1>8, <2>1, <2>2 DEF Establish
<1>9. QED
  BY <1>4, <1>5, <1>6, <1>7, <1>8 DEF Proceeds

-----------------------------------------------------------------------------
(* The steps that change links.                                            *)
LEMMA RequestLinkPreserves ==
  ASSUME IInv, NEW r \in Requests, NEW u \in Users, RequestLink(r, u)
  PROVE  IInv'
<1> USE SessionsAssumption, LoginAssumption DEF IInv
<1>1. PICK o \in {p \in Orgs : Eligible(u, p)} \cup ({Target(u)} \ {NoOrg}) :
        Goto(r, [step |-> "mail", user |-> u, org |-> o])
  BY DEF RequestLink
<1> DEFINE c == [step |-> "mail", user |-> u, org |-> o]
<1>2. c \in MailCall /\ Typed(c) /\ c.step = "mail"
  BY <1>1, TargetIsOrg DEF MailCall, Typed
<1>3. call[r] = NoCall /\ UNCHANGED <<now, directory, sessionVars, linkVars>> /\ Goto(r, c)
  BY <1>1 DEF RequestLink, Free
<1> HIDE DEF c
<1>4. \A q \in Requests, l \in Links : Verifies(q, l)' <=> Verifies(q, l)
  BY <1>2, <1>3, GotoTyped DEF Verifies, Claimed
<1>5. Exclusive' /\ LinkNotLost'
  BY <1>3, <1>4, SameLinks
<1>6. TypeOK'
  BY <1>2, <1>3, GotoTyped DEF TypeOK, linkVars, directory, sessionVars
<1>7. QED  BY <1>3, <1>5, <1>6, SameSessions DEF directory

LEMMA SendLinkPreserves ==
  ASSUME IInv, NEW r \in Requests, SendLink(r)
  PROVE  IInv'
<1> USE SessionsAssumption, LoginAssumption DEF IInv
<1>1. PICK l \in Links \ mailed :
        /\ link' = [link EXCEPT ![l] = [user |-> call[r].user, org |-> call[r].org,
                                        created |-> now, used |-> FALSE]]
        /\ mailed' = mailed \cup {l}
  BY DEF SendLink
<1>2. call[r] \in MailCall /\ Goto(r, NoCall)
        /\ UNCHANGED <<now, directory, sessionVars, logins, cut>>
  BY StepCall DEF SendLink
<1>3. link'[l] \in LinkRow /\ ~link'[l].used /\ \A m \in Links \ {l} : link'[m] = link[m]
  BY <1>1, <1>2 DEF MailCall, LinkRow, TypeOK
<1>4. \A q \in Requests, m \in Links : Verifies(q, m)' <=> Verifies(q, m)
  BY <1>2, GotoTyped DEF Verifies, MailCall, Claimed
<1>5. Exclusive' /\ LinkNotLost'
  BY <1>1, <1>2, <1>3, <1>4 DEF Exclusive, LinkNotLost, Verifying, Verifies, TypeOK
<1>6. TypeOK'
  BY <1>1, <1>2, <1>3, GotoTyped DEF TypeOK, directory, sessionVars
<1>7. QED  BY <1>2, <1>5, <1>6, SameSessions DEF directory

LEMMA ClaimPreserves ==
  ASSUME IInv, NEW r \in Requests, NEW l \in Links, Claim(r, l)
  PROVE  IInv'
<1> USE SessionsAssumption, LoginAssumption DEF IInv
<1> DEFINE c == [step |-> "eligible", link |-> l, user |-> link[l].user,
                 org |-> link[l].org, token |-> NoSession]
<1>1. link[l] \in LinkRow /\ ~link[l].used /\ call[r] = NoCall
        /\ UNCHANGED <<now, directory, sessionVars, mailed, logins, cut>>
  BY DEF Claim, Claimable, Free, TypeOK
<1>2. c \in LoginCall /\ c.link = l /\ c.step \in Claimed /\ Typed(c) /\ Goto(r, c)
  BY <1>1 DEF Claim, LinkRow, LoginCall, LoggingIn, Claimed, Typed
<1>3. link'[l] \in LinkRow /\ link'[l].used /\ \A m \in Links \ {l} : link'[m] = link[m]
  BY <1>1 DEF Claim, LinkRow, TypeOK
<1> HIDE DEF c
<1>4. /\ Verifies(r, l)'
      /\ \A q \in Requests, m \in Links : Verifies(q, m)' <=> Verifies(q, m) \/ (q = r /\ m = l)
  BY <1>1, <1>2, GotoTyped DEF Verifies
<1>5. logins[l] # 1 /\ \A q \in Requests : ~Verifies(q, l)
  BY <1>1 DEF Exclusive
<1>6. Exclusive'
  <2> SUFFICES ASSUME NEW m \in Links
               PROVE  /\ \A p, q \in Requests : Verifies(p, m)' /\ Verifies(q, m)' => p = q
                      /\ (logins'[m] = 1 \/ \E q \in Requests : Verifies(q, m)') =>
                           m \in mailed' /\ (link'[m] = NoLink \/ link'[m].used)
                      /\ logins'[m] = 1 => \A q \in Requests : ~Verifies(q, m)'
                      /\ link'[m] # NoLink => m \in mailed'
    BY DEF Exclusive
  <2>1. CASE m = l
    BY <1>1, <1>3, <1>4, <1>5, <2>1 DEF Exclusive
  <2>2. CASE m # l
    BY <1>1, <1>3, <1>4, <2>2 DEF Exclusive
  <2>3. QED  BY <2>1, <2>2
<1>7. LinkNotLost'
  BY <1>1, <1>3, <1>4 DEF LinkNotLost, Verifying, Verifies
<1>8. TypeOK'
  BY <1>1, <1>2, <1>3, GotoTyped DEF Claim, TypeOK, directory, sessionVars
<1>9. QED  BY <1>1, <1>6, <1>7, <1>8, SameSessions DEF directory

(* A verification that ends, with an answer, with the link given back or   *)
(* with a crash.                                                           *)
LEMMA EndPreserves ==
  ASSUME IInv, NEW r \in Requests, Answer(r) \/ Release(r) \/ Crash(r)
  PROVE  IInv'
<1> USE SessionsAssumption, LoginAssumption DEF IInv
<1> DEFINE l == call[r].link
<1>1. Goto(r, NoCall) /\ UNCHANGED <<now, directory, sessionVars, mailed>>
  BY DEF Answer, Release, Crash
<1>2. \A q \in Requests, m \in Links : Verifies(q, m)' <=> Verifies(q, m) /\ q # r
  BY <1>1, GotoTyped DEF Verifies
<1>3. ASSUME link' \in [Links -> LinkRow \cup {NoLink}], cut' \subseteq Links,
             logins' \in [Links -> 0..1]
      PROVE  TypeOK'
  BY <1>1, <1>3, GotoTyped DEF TypeOK, directory, sessionVars
<1>4. RevokedIsOver'
  BY <1>1, SameSessions DEF directory
<1>5. call[r] \in LoginCall /\ call[r].step \in Claimed \cup {"release"} =>
        l \in Links /\ Verifies(r, l)
  BY DEF LoginCall, Verifies
<1>6. CASE Answer(r)
  <2>1. l \in Links /\ Verifies(r, l)
    BY <1>5, <1>6, StepCall DEF Answer, Step, Claimed
  <2> HIDE DEF l
  <2>2. logins[l] = 0
    BY <2>1 DEF Exclusive, TypeOK
  <2>3. logins' = [logins EXCEPT ![l] = 1] /\ UNCHANGED <<link, cut>>
    BY <1>6, <2>2 DEF Answer, l
  <2>4. TypeOK'
    BY <1>3, <2>1, <2>3 DEF TypeOK
  <2>5. Exclusive' /\ LinkNotLost'
    BY <1>1, <1>2, <2>1, <2>3 DEF Exclusive, LinkNotLost, Verifying, Verifies, TypeOK
  <2>6. QED  BY <1>4, <2>4, <2>5
<1>7. CASE Release(r)
  <2>1. l \in Links /\ Verifies(r, l)
    BY <1>5, <1>7, StepCall DEF Release, Step, Claimed
  <2> HIDE DEF l
  <2>2. link' = Released(l) /\ UNCHANGED <<logins, cut>>
    BY <1>7 DEF Release, l
  <2>3. /\ link' \in [Links -> LinkRow \cup {NoLink}]
        /\ \A m \in Links \ {l} : link'[m] = link[m]
        /\ link'[l] = NoLink \/ (link[l] # NoLink /\ ~link'[l].used)
    BY <2>1, <2>2 DEF Released, TypeOK, LinkRow
  <2>4. TypeOK'
    BY <1>3, <2>2, <2>3 DEF TypeOK
  <2>5. Exclusive' /\ LinkNotLost'
    BY <1>1, <1>2, <2>1, <2>2, <2>3 DEF Exclusive, LinkNotLost, Verifying, Verifies, TypeOK
  <2>6. QED  BY <1>4, <2>4, <2>5
<1>8. CASE Crash(r)
  <2>1. UNCHANGED <<link, logins>> /\ cut \subseteq cut'
    BY <1>8 DEF Crash
  <2>2. cut' \subseteq Links /\ \A m \in Links : Verifies(r, m) => m \in cut'
    BY <1>8, StepCall DEF Crash, Step, Verifies, TypeOK, LoginCall
  <2>3. TypeOK'
    BY <1>3, <2>1, <2>2 DEF TypeOK
  <2>4. Exclusive' /\ LinkNotLost'
    BY <1>1, <1>2, <2>1, <2>2 DEF Exclusive, LinkNotLost, Verifying, Verifies
  <2>5. QED  BY <1>4, <2>3, <2>4
<1>9. QED  BY <1>6, <1>7, <1>8

LEMMA LogoutPreserves ==
  ASSUME IInv, NEW t \in Tokens, Logout(t), UNCHANGED linkVars
  PROVE  IInv'
<1> USE SessionsAssumption, LoginAssumption DEF IInv
<1>1. Exclusive' /\ LinkNotLost'
  BY SameLinks DEF Logout, Verifies
<1>2. TypeOK'
  BY DEF Logout, TypeOK, directory, linkVars
<1>3. RevokedIsOver'
  BY DEF Logout, TypeOK, RevokedIsOver, directory
<1>4. QED  BY <1>1, <1>2, <1>3

(* A removal that goes on, or ends without a trace in sessions and links.  *)
LEMMA RemovalGoesOn ==
  ASSUME IInv, NEW r \in Requests, call[r] \in RemovalCall \cup {NoCall},
         NEW c \in RemovalCall \cup {NoCall}, Goto(r, c),
         member' \in [Users -> SUBSET (Orgs \X Roles)], alive' \subseteq Users,
         UNCHANGED <<now, sessionVars, linkVars>>
  PROVE  IInv'
<1> USE SessionsAssumption, LoginAssumption DEF IInv
<1>1. \A d \in RemovalCall \cup {NoCall} :
        d = NoCall \/ (Typed(d) /\ d.step \notin Claimed \cup {"release"})
  BY DEF RemovalCall, Removing, Typed, Claimed
<1>2. \A q \in Requests, l \in Links : Verifies(q, l)' <=> Verifies(q, l)
  BY <1>1, GotoTyped DEF Verifies
<1>3. Exclusive' /\ LinkNotLost'
  BY <1>2, SameLinks
<1>4. TypeOK'
  BY <1>1, GotoTyped DEF TypeOK, linkVars, sessionVars
<1>5. QED  BY <1>3, <1>4, SameSessions

LEMMA RemovePreserves == ASSUME IInv, NEW r \in Requests, Remove(r) PROVE IInv'
<1> USE SessionsAssumption, LoginAssumption DEF IInv
<1>0. \A s \in Removing : Step(r, s) => call[r] \in RemovalCall
  BY StepCall
<1>1. CASE RemoveAccount(r)
  <2>1. PICK u \in alive : \E p \in member[u] :
          Goto(r, [step |-> "count", user |-> u, account |-> p, sessions |-> {}, links |-> {}])
    BY <1>1 DEF RemoveAccount
  <2>2. PICK p \in member[u] :
          Goto(r, [step |-> "count", user |-> u, account |-> p, sessions |-> {}, links |-> {}])
    BY <2>1
  <2> DEFINE c == [step |-> "count", user |-> u, account |-> p, sessions |-> {}, links |-> {}]
  <2>3. c \in RemovalCall
    BY DEF RemovalCall, Removing, TypeOK
  <2>4. QED  BY <1>1, <2>2, <2>3, RemovalGoesOn DEF RemoveAccount, TypeOK, directory
<1>2. CASE CountRemaining(r)
  <2>1. call[r] \in RemovalCall /\ At(r, "sessions") \in RemovalCall /\ At(r, "commit") \in RemovalCall
    BY <1>0, <1>2 DEF CountRemaining, At, RemovalCall, Removing
  <2>2. QED  BY <1>2, <2>1, RemovalGoesOn DEF CountRemaining, TypeOK, directory
<1>3. CASE KeepUser(r)
  <2>1. call[r] \in RemovalCall
    BY <1>0, <1>3 DEF KeepUser, Removing
  <2>2. member' \in [Users -> SUBSET (Orgs \X Roles)]
    BY <1>3 DEF KeepUser, TypeOK
  <2>3. QED  BY <1>3, <2>1, <2>2, RemovalGoesOn DEF KeepUser, TypeOK
<1>4. CASE DeleteSessions(r)
  <2> DEFINE c == [call[r] EXCEPT !.step = "links", !.sessions = SessionsOf(call[r].user)]
  <2>1. call[r] \in RemovalCall /\ SessionsOf(call[r].user) \subseteq Tokens
    BY <1>0, <1>4 DEF DeleteSessions, Removing, SessionsOf
  <2>2. c \in RemovalCall
    BY <2>1 DEF RemovalCall, Removing
  <2>3. QED  BY <1>4, <2>1, <2>2, RemovalGoesOn DEF DeleteSessions, TypeOK, directory
<1>5. CASE DeleteLinks(r)
  <2> DEFINE c == [call[r] EXCEPT !.step = "user", !.links = LinksOf(call[r].user)]
  <2>1. call[r] \in RemovalCall /\ LinksOf(call[r].user) \subseteq Links
    BY <1>0, <1>5 DEF DeleteLinks, Removing, LinksOf
  <2>2. c \in RemovalCall
    BY <2>1 DEF RemovalCall, Removing
  <2>3. QED  BY <1>5, <2>1, <2>2, RemovalGoesOn DEF DeleteLinks, TypeOK, directory
<1>6. CASE RollBack(r)
  <2>1. call[r] \in RemovalCall
    BY <1>0, <1>6 DEF RollBack, Removals, Step
  <2>2. QED  BY <1>6, <2>1, RemovalGoesOn DEF RollBack, TypeOK, directory
<1>7. CASE DeleteUser(r)
  <2>1. PICK c \in RemovalCall : call[r] = c
    BY <1>0, <1>7 DEF DeleteUser, Removing
  <2>2. /\ member' = [member EXCEPT ![c.user] = {}] /\ alive' = alive \ {c.user}
        /\ session' = [t \in Tokens |-> IF t \in c.sessions THEN NoSession ELSE session[t]]
        /\ seen' = [t \in Tokens |-> IF t \in c.sessions THEN 0 ELSE seen[t]]
        /\ revoked' = revoked \cup c.sessions
        /\ link' = [l \in Links |-> IF l \in c.links THEN NoLink ELSE link[l]]
        /\ Goto(r, NoCall) /\ UNCHANGED <<now, mailed, logins, cut>>
    BY <1>7, <2>1 DEF DeleteUser
  <2>3. \A q \in Requests, l \in Links : Verifies(q, l)' <=> Verifies(q, l)
    BY <2>1, <2>2, GotoTyped DEF Verifies, RemovalCall, Removing, Claimed
  <2>4. \A l \in Links : link'[l] = NoLink \/ link'[l] = link[l]
    BY <2>2
  <2>5. Exclusive' /\ LinkNotLost'
    BY <2>2, <2>3, <2>4 DEF Exclusive, LinkNotLost, Verifying, Verifies
  <2>6. c.sessions \subseteq Tokens
    BY <2>1 DEF RemovalCall
  <2>7. TypeOK'
    <3>1. /\ DOMAIN call' = Requests /\ call' = [q \in Requests |-> call'[q]]
          /\ \A q \in Requests : call'[q] = NoCall \/ Typed(call'[q])
      BY <2>2, GotoTyped
    <3>2. /\ session' \in [Tokens -> Row \cup {NoSession}] /\ seen' \in [Tokens -> 0..MaxTime]
          /\ link' \in [Links -> LinkRow \cup {NoLink}] /\ revoked' \subseteq Tokens
      BY <2>2, <2>6 DEF TypeOK
    <3>3. alive' \subseteq Users /\ member' \in [Users -> SUBSET (Orgs \X Roles)]
      BY <2>2 DEF TypeOK
    <3>4. QED  BY <2>2, <3>1, <3>2, <3>3 DEF TypeOK
  <2>8. RevokedIsOver'
    BY <2>2, <2>6 DEF RevokedIsOver, TypeOK
  <2>9. QED  BY <2>5, <2>7, <2>8
<1>8. QED
  BY <1>1, <1>2, <1>3, <1>4, <1>5, <1>6, <1>7 DEF Remove

LEMMA TickPreserves == ASSUME IInv, Tick \/ UNCHANGED vars PROVE IInv'
<1> USE SessionsAssumption, LoginAssumption DEF IInv
<1>1. UNCHANGED <<directory, sessionVars, call, linkVars>> /\ now' \in 0..MaxTime
  BY DEF Tick, vars, TypeOK
<1>2. Exclusive' /\ LinkNotLost'
  BY <1>1, SameLinks DEF Verifies
<1>3. TypeOK'
  BY <1>1 DEF TypeOK, directory, sessionVars, linkVars
<1>4. QED  BY <1>1, <1>2, <1>3, SameSessions DEF directory

(* Every step preserves IInv.                                              *)
LEMMA IInvNext == IInv /\ [Next]_vars => IInv'
<1> SUFFICES ASSUME IInv, [Next]_vars PROVE IInv'
  OBVIOUS
<1>1. CASE \E r \in Requests : Browses(r) /\ UNCHANGED linkVars
  BY <1>1, BrowsingPreserves
<1>2. CASE \E r \in Requests : \E u \in Users : RequestLink(r, u)
  BY <1>2, RequestLinkPreserves
<1>3. CASE \E r \in Requests : \E l \in Links : Claim(r, l)
  BY <1>3, ClaimPreserves
<1>4. CASE \E r \in Requests : SendLink(r)
  BY <1>4, SendLinkPreserves
<1>5. CASE \E r \in Requests : Proceeds(r)
  BY <1>5, VerifyingPreserves
<1>6. CASE \E r \in Requests : Answer(r) \/ Release(r) \/ Crash(r)
  BY <1>6, EndPreserves
<1>7. CASE \E t \in Tokens : Logout(t) /\ UNCHANGED linkVars
  BY <1>7, LogoutPreserves
<1>8. CASE \E r \in Requests : Remove(r)
  BY <1>8, RemovePreserves
<1>9. CASE Tick \/ UNCHANGED vars
  BY <1>9, TickPreserves
<1>10. QED
  BY <1>1, <1>2, <1>3, <1>4, <1>5, <1>6, <1>7, <1>8, <1>9 DEF Next, LogIn, Browse, Browses, Proceeds

-----------------------------------------------------------------------------
(* What a request knows of its session while it prolongs it.  A write that *)
(* comes late was computed at most Slowest before.                         *)
Prolongs(r) == call[r] # NoCall /\ call[r] \in RefreshCall \cup WriteCall

Recent ==
  \A r \in Requests : Prolongs(r) =>
    LET c == call[r]  t == c.token IN
    /\ c.at <= now /\ now <= c.at + Slowest
    /\ session[t] = NoSession => t \in revoked
    /\ session[t] # NoSession => c.row.created = session[t].created
    /\ (c \in RefreshCall /\ session[t] # NoSession) =>
         \/ session[t].expires >= c.row.expires
         \/ session[t].expires >= Least(c.row.created + AbsoluteMax, c.at + Idle) - Slowest
    /\ c \in WriteCall => c.next >= Least(c.row.created + AbsoluteMax, c.at + Idle)

KInv == Recent /\ KeptAlive /\ \A t \in Tokens : seen[t] <= now

LEMMA KInvInit == Init => KInv
  BY SessionsAssumption DEF Init, KInv, Recent, Prolongs, KeptAlive

(* Types of the next state in the words of this one.                       *)
LEMMA TimeFacts ==
  ASSUME TypeOK
  PROVE  /\ now \in Nat /\ \A t \in Tokens : seen[t] \in Nat
         /\ \A t \in Tokens : session[t] # NoSession =>
              session[t] \in Row /\ session[t].created \in Nat /\ session[t].expires \in Nat
         /\ \A c \in RefreshCall \cup WriteCall :
              c.token \in Tokens /\ c.at \in Nat /\ c.row \in Row
                /\ c.row.created \in Nat /\ c.row.expires \in Nat
         /\ \A c \in WriteCall : c.next \in Nat
  BY SessionsAssumption DEF TypeOK, RefreshCall, WriteCall, Row

(* Steps that neither prolong sessions nor issue them nor pass time.       *)
LEMMA KInvQuiet ==
  ASSUME TypeOK, KInv, UNCHANGED now,
         \A r \in Requests : Prolongs(r)' => Prolongs(r) /\ call'[r] = call[r],
         \A t \in revoked : t \in revoked',
         \A t \in Tokens :
           \/ seen'[t] = seen[t] /\ session[t] # NoSession /\ session'[t] # NoSession
              /\ session'[t].created = session[t].created
              /\ session'[t].expires = session[t].expires
           \/ session'[t] = NoSession /\ (session[t] = NoSession \/ t \in revoked')
              /\ seen'[t] \in {0, seen[t]}
  PROVE  KInv'
<1> USE SessionsAssumption DEF KInv
<1>1. Recent'
  <2> SUFFICES ASSUME NEW r \in Requests, Prolongs(r)'
               PROVE  LET c == call'[r]  t == c.token IN
                      /\ c.at <= now /\ now <= c.at + Slowest
                      /\ session'[t] = NoSession => t \in revoked'
                      /\ session'[t] # NoSession => c.row.created = session'[t].created
                      /\ (c \in RefreshCall /\ session'[t] # NoSession) =>
                           \/ session'[t].expires >= c.row.expires
                           \/ session'[t].expires >=
                                Least(c.row.created + AbsoluteMax, c.at + Idle) - Slowest
                      /\ c \in WriteCall => c.next >= Least(c.row.created + AbsoluteMax, c.at + Idle)
    BY DEF Recent
  <2>1. call'[r] = call[r] /\ Prolongs(r) /\ call[r].token \in Tokens
    BY TimeFacts DEF Prolongs
  <2>2. QED  BY <2>1 DEF Recent
<1>2. KeptAlive'
  BY DEF KeptAlive
<1>3. \A t \in Tokens : seen'[t] <= now
  BY TimeFacts
<1>4. QED  BY <1>1, <1>2, <1>3

LEMMA ArriveKeepsAlive ==
  ASSUME TypeOK, KInv, NEW r \in Requests, NEW t \in Tokens, Arrive(r, t)
  PROVE  KInv'
<1> USE SessionsAssumption DEF KInv
<1> DEFINE c == [step |-> "refresh", token |-> t, at |-> now, row |-> session[t]]
<1>1. session[t] # NoSession /\ UNCHANGED <<now, session, revoked, seen>>
  BY DEF Arrive, Found, sessionVars
<1>2. call'[r] = c /\ \A q \in Requests \ {r} : call'[q] = call[q]
  BY DEF Arrive, Goto, TypeOK
<1>3. c.at = now /\ c.token = t /\ c.row = session[t] /\ c \notin WriteCall
  BY DEF WriteCall
<1> HIDE DEF c
<1>4. Recent'
  BY <1>1, <1>2, <1>3, TimeFacts DEF Recent, Prolongs
<1>5. KeptAlive' /\ \A s \in Tokens : seen'[s] <= now'
  BY <1>1 DEF KeptAlive
<1>6. QED  BY <1>4, <1>5

(* A request that is let in without a write: what its row lacks is below   *)
(* the threshold.                                                          *)
LEMMA NoWriteKeepsAlive ==
  ASSUME TypeOK, KInv, NEW r \in Requests, Refresh(r), ~Gains(call[r].row)
  PROVE  KInv'
<1> USE SessionsAssumption DEF KInv
<1>1. PICK c \in RefreshCall : call[r] = c
  BY StepCall DEF Refresh
<1>2. PICK t \in Tokens : c.token = t
  BY <1>1 DEF RefreshCall
<1>3. /\ UNCHANGED <<now, session, revoked>> /\ call[r] # NoCall
      /\ seen' = [seen EXCEPT ![t] = IF session[t] = NoSession THEN @ ELSE Most(@, c.at)]
      /\ call'[r] = [step |-> "in", token |-> t, user |-> c.row.user, role |-> c.row.role]
      /\ \A q \in Requests \ {r} : call'[q] = call[q]
  BY <1>1, <1>2 DEF Refresh, LetIn, Goto, Step, TypeOK
<1>4. ~Prolongs(r)'
  BY <1>3 DEF Prolongs, RefreshCall, WriteCall
<1>5. Recent'
  <2>1. \A q \in Requests : Prolongs(q)' => q # r /\ Prolongs(q) /\ call'[q] = call[q]
    BY <1>3, <1>4 DEF Prolongs
  <2>2. QED  BY <1>3, <2>1 DEF Recent
<1>6. /\ c.at <= now /\ now <= c.at + Slowest
      /\ session[t] # NoSession =>
           /\ c.row.created = session[t].created
           /\ \/ session[t].expires >= c.row.expires
              \/ session[t].expires >= Least(c.row.created + AbsoluteMax, c.at + Idle) - Slowest
  BY <1>1, <1>2, <1>3 DEF Recent, Prolongs
<1>7. c.row.expires > Least(now + Idle, c.row.created + AbsoluteMax) - Threshold
  BY <1>1, TimeFacts DEF Gains, NextExpiry, Least
<1>8. KeptAlive'
  <2> SUFFICES ASSUME NEW s \in Tokens, session[s] # NoSession
               PROVE  session[s].expires >= Least(session[s].created + AbsoluteMax, seen'[s] + Idle)
                                              - Most(Slowest, Threshold - 1)
    BY <1>3 DEF KeptAlive
  <2>1. session[s].expires >= Least(session[s].created + AbsoluteMax, seen[s] + Idle)
                                - Most(Slowest, Threshold - 1)
    BY DEF KeptAlive
  <2>2. CASE seen'[s] = seen[s]
    BY <2>1, <2>2
  <2>3. CASE s = t /\ seen'[s] = c.at
    <3>1. session[t] \in Row /\ session[t].created \in Nat /\ session[t].expires \in Nat
            /\ c.at \in Nat /\ c.row.expires \in Nat /\ now \in Nat
      BY <1>1, <2>3, TimeFacts
    <3>2. \/ session[t].expires >= c.row.expires
          \/ session[t].expires >= Least(session[t].created + AbsoluteMax, c.at + Idle) - Slowest
      BY <1>6, <2>3
    <3>3. c.row.expires > Least(now + Idle, session[t].created + AbsoluteMax) - Threshold
      BY <1>6, <1>7, <2>3
    <3>4. QED  BY <1>6, <2>3, <3>1, <3>2, <3>3 DEF Least, Most
  <2>4. QED  BY <1>3, <2>2, <2>3 DEF Most, TypeOK
<1>9. \A s \in Tokens : seen'[s] <= now'
  BY <1>3, <1>6 DEF Most, TypeOK
<1>10. QED  BY <1>5, <1>8, <1>9

LEMMA GainKeepsAlive ==
  ASSUME TypeOK, KInv, NEW r \in Requests, Refresh(r), Gains(call[r].row)
  PROVE  KInv'
<1> USE SessionsAssumption DEF KInv
<1>1. PICK c \in RefreshCall : call[r] = c
  BY StepCall DEF Refresh
<1> DEFINE w == [step |-> "write", token |-> c.token, at |-> c.at, row |-> c.row,
                 next |-> NextExpiry(c.row)]
<1>2. /\ UNCHANGED <<now, session, revoked, seen>> /\ call[r] # NoCall
      /\ call'[r] = w /\ \A q \in Requests \ {r} : call'[q] = call[q]
  BY <1>1 DEF Refresh, Goto, Step, TypeOK
<1>3. w \notin RefreshCall /\ w.token = c.token /\ w.at = c.at /\ w.row = c.row
        /\ w.next = NextExpiry(c.row)
  BY DEF RefreshCall
<1> HIDE DEF w
<1>4. /\ c.at <= now /\ now <= c.at + Slowest
      /\ session[c.token] = NoSession => c.token \in revoked
      /\ session[c.token] # NoSession => c.row.created = session[c.token].created
  BY <1>1, <1>2 DEF Recent, Prolongs
<1>5. NextExpiry(c.row) >= Least(c.row.created + AbsoluteMax, c.at + Idle)
  BY <1>4, TimeFacts DEF NextExpiry, Least
<1>6. Recent'
  BY <1>2, <1>3, <1>4, <1>5 DEF Recent, Prolongs
<1>7. KeptAlive' /\ \A s \in Tokens : seen'[s] <= now'
  BY <1>2 DEF KeptAlive
<1>8. QED  BY <1>6, <1>7

(* A late write takes back what other requests gained, up to Slowest.      *)
LEMMA WriteKeepsAlive ==
  ASSUME TypeOK, KInv, NEW r \in Requests, Write(r)
  PROVE  KInv'
<1> USE SessionsAssumption DEF KInv
<1>1. PICK c \in WriteCall : call[r] = c
  BY StepCall DEF Write
<1>2. PICK t \in Tokens : c.token = t
  BY <1>1 DEF WriteCall
<1>3. /\ UNCHANGED <<now, revoked>> /\ call[r] # NoCall
      /\ session' = IF session[t] = NoSession THEN session
                    ELSE [session EXCEPT ![t].expires = c.next]
      /\ seen' = [seen EXCEPT ![t] = IF session[t] = NoSession THEN @ ELSE Most(@, c.at)]
      /\ call'[r] = [step |-> "in", token |-> t, user |-> c.row.user, role |-> c.row.role]
      /\ \A q \in Requests \ {r} : call'[q] = call[q]
  BY <1>1, <1>2 DEF Write, Prolonged, LetIn, Goto, Step, TypeOK
<1>4. /\ \A s \in Tokens : session'[s] = NoSession <=> session[s] = NoSession
      /\ \A s \in Tokens \ {t} : session'[s] = session[s] /\ seen'[s] = seen[s]
      /\ session[t] # NoSession => /\ session'[t].expires = c.next
                                   /\ session'[t].created = session[t].created
      /\ session[t] = NoSession => session'[t] = session[t] /\ seen'[t] = seen[t]
      /\ seen'[t] \in {seen[t], Most(seen[t], c.at)}
  BY <1>1, <1>3 DEF TypeOK, Row, WriteCall
<1>5. /\ c.at <= now /\ now <= c.at + Slowest
      /\ session[t] # NoSession => c.row.created = session[t].created
      /\ c.next >= Least(c.row.created + AbsoluteMax, c.at + Idle)
  BY <1>1, <1>2, <1>3 DEF Recent, Prolongs
<1>6. c.at \in Nat /\ c.next \in Nat /\ c.row.created \in Nat /\ now \in Nat /\ seen[t] \in Nat
  BY <1>1, TimeFacts
<1>7. Recent'
  <2> SUFFICES ASSUME NEW q \in Requests, Prolongs(q)'
               PROVE  LET d == call'[q]  s == d.token IN
                      /\ d.at <= now /\ now <= d.at + Slowest
                      /\ session'[s] = NoSession => s \in revoked
                      /\ session'[s] # NoSession => d.row.created = session'[s].created
                      /\ (d \in RefreshCall /\ session'[s] # NoSession) =>
                           \/ session'[s].expires >= d.row.expires
                           \/ session'[s].expires >=
                                Least(d.row.created + AbsoluteMax, d.at + Idle) - Slowest
                      /\ d \in WriteCall => d.next >= Least(d.row.created + AbsoluteMax, d.at + Idle)
    BY <1>3 DEF Recent
  <2>1. q # r /\ Prolongs(q) /\ call'[q] = call[q]
    BY <1>3 DEF Prolongs, RefreshCall, WriteCall
  <2>2. PICK d \in RefreshCall \cup WriteCall : call[q] = d
    BY <2>1 DEF Prolongs
  <2>3. d.token \in Tokens /\ d.at \in Nat /\ d.row.created \in Nat
    BY <2>2, TimeFacts
  <2>4. /\ d.at <= now /\ now <= d.at + Slowest
        /\ session[d.token] = NoSession => d.token \in revoked
        /\ session[d.token] # NoSession => d.row.created = session[d.token].created
        /\ (d \in RefreshCall /\ session[d.token] # NoSession) =>
             \/ session[d.token].expires >= d.row.expires
             \/ session[d.token].expires >=
                  Least(d.row.created + AbsoluteMax, d.at + Idle) - Slowest
        /\ d \in WriteCall => d.next >= Least(d.row.created + AbsoluteMax, d.at + Idle)
    BY <2>1, <2>2 DEF Recent
  <2>5. CASE d.token # t \/ session[t] = NoSession
    BY <1>4, <2>1, <2>2, <2>3, <2>4, <2>5
  <2>6. CASE d.token = t /\ session[t] # NoSession
    <3>1. session'[t].expires >= Least(d.row.created + AbsoluteMax, d.at + Idle) - Slowest
      BY <1>4, <1>5, <1>6, <2>3, <2>4, <2>6 DEF Least
    <3>2. QED  BY <1>4, <2>1, <2>2, <2>4, <2>6, <3>1
  <2>7. QED  BY <2>5, <2>6
<1>8. KeptAlive'
  <2> SUFFICES ASSUME NEW s \in Tokens, session'[s] # NoSession
               PROVE  session'[s].expires >=
                        Least(session'[s].created + AbsoluteMax, seen'[s] + Idle)
                          - Most(Slowest, Threshold - 1)
    BY DEF KeptAlive
  <2>1. CASE s # t
    BY <1>4, <2>1 DEF KeptAlive
  <2>2. CASE s = t
    <3>1. seen'[t] <= now /\ seen'[t] \in Nat
      BY <1>4, <1>5, <1>6 DEF Most
    <3>2. QED  BY <1>4, <1>5, <1>6, <2>2, <3>1 DEF Least, Most
  <2>3. QED  BY <2>1, <2>2
<1>9. \A s \in Tokens : seen'[s] <= now'
  BY <1>3, <1>4, <1>5, <1>6 DEF Most
<1>10. QED  BY <1>7, <1>8, <1>9

(* A new session belongs to no request that is under way.                  *)
LEMMA MintKeepsAlive ==
  ASSUME TypeOK, KInv, NEW t \in Tokens, NEW u, Mint(t, u), UNCHANGED now,
         \A r \in Requests : Prolongs(r)' => Prolongs(r) /\ call'[r] = call[r]
  PROVE  KInv'
<1> USE SessionsAssumption DEF KInv
<1>1. /\ session[t] = NoSession /\ t \notin revoked /\ UNCHANGED revoked
      /\ session'[t].created = now /\ session'[t].expires = Least(now + Idle, now + AbsoluteMax)
      /\ seen'[t] = now
      /\ \A s \in Tokens \ {t} : session'[s] = session[s] /\ seen'[s] = seen[s]
  BY DEF Mint, Fresh, FirstExpiry, TypeOK
<1>2. Recent'
  <2> SUFFICES ASSUME NEW q \in Requests, Prolongs(q)'
               PROVE  LET d == call'[q]  s == d.token IN
                      /\ d.at <= now /\ now <= d.at + Slowest
                      /\ session'[s] = NoSession => s \in revoked
                      /\ session'[s] # NoSession => d.row.created = session'[s].created
                      /\ (d \in RefreshCall /\ session'[s] # NoSession) =>
                           \/ session'[s].expires >= d.row.expires
                           \/ session'[s].expires >=
                                Least(d.row.created + AbsoluteMax, d.at + Idle) - Slowest
                      /\ d \in WriteCall => d.next >= Least(d.row.created + AbsoluteMax, d.at + Idle)
    BY <1>1 DEF Recent
  <2>1. Prolongs(q) /\ call'[q] = call[q] /\ call[q].token \in Tokens
    BY TimeFacts DEF Prolongs
  <2>2. call[q].token # t
    BY <1>1, <2>1 DEF Recent
  <2>3. QED  BY <1>1, <2>1, <2>2 DEF Recent
<1>3. KeptAlive'
  BY <1>1, TimeFacts DEF KeptAlive, Least, Most
<1>4. \A s \in Tokens : seen'[s] <= now'
  BY <1>1, TimeFacts
<1>5. QED  BY <1>2, <1>3, <1>4

LEMMA TickKeepsAlive == ASSUME TypeOK, KInv, Tick PROVE KInv'
<1> USE SessionsAssumption DEF KInv
<1>1. /\ UNCHANGED <<session, revoked, seen, call>> /\ now' = now + 1 /\ now \in Nat
      /\ \A r \in Requests : Step(r, "refresh") \/ Step(r, "write") => now - call[r].at < Slowest
  BY TimeFacts DEF Tick, sessionVars
<1>2. \A r \in Requests : Prolongs(r) => /\ now - call[r].at < Slowest /\ call[r].at \in Nat
                                         /\ Prolongs(r)' /\ call'[r] = call[r]
  BY <1>1, TimeFacts DEF Prolongs, Step, RefreshCall, WriteCall
<1>3. \A r \in Requests : Prolongs(r)' => Prolongs(r)
  BY <1>1 DEF Prolongs
<1>4. Recent'
  BY <1>1, <1>2, <1>3 DEF Recent
<1>5. KeptAlive' /\ \A s \in Tokens : seen'[s] <= now'
  BY <1>1, TimeFacts DEF KeptAlive
<1>6. QED  BY <1>4, <1>5

(* Every step preserves KInv.                                              *)
LEMMA KInvNext == IInv /\ KInv /\ [Next]_vars => KInv'
<1> SUFFICES ASSUME TypeOK, KInv, [Next]_vars PROVE KInv'
  BY DEF IInv
<1> USE DEF sessionVars, directory
<1>1. ASSUME NEW r \in Requests, NEW c, Goto(r, c),
             c = NoCall \/ c.step \notin {"refresh", "write"}
      PROVE  \A q \in Requests : Prolongs(q)' => Prolongs(q) /\ call'[q] = call[q]
  BY <1>1 DEF Goto, TypeOK, Prolongs, RefreshCall, WriteCall
<1>2. ASSUME UNCHANGED <<now, sessionVars>>,
             \A q \in Requests : Prolongs(q)' => Prolongs(q) /\ call'[q] = call[q]
      PROVE  KInv'
  BY <1>2, KInvQuiet
<1>3. CASE \E r \in Requests : Act(r) \/ ChooseRole(r) \/ Leave(r)
  BY <1>1, <1>2, <1>3 DEF Act, ChooseRole, Leave
<1>4. ASSUME NEW r \in Requests, SetRole(r) PROVE KInv'
  <2>1. \A q \in Requests : Prolongs(q)' => Prolongs(q) /\ call'[q] = call[q]
    BY <1>1, <1>4 DEF SetRole
  <2>2. \A t \in Tokens : \/ session'[t] = session[t]
                          \/ /\ session[t] # NoSession /\ session'[t] # NoSession
                             /\ session'[t].created = session[t].created
                             /\ session'[t].expires = session[t].expires
    BY <1>4, StepCall, SessionsAssumption DEF SetRole, TypeOK, Row, RoleCall
  <2>3. QED  BY <1>4, <2>1, <2>2, KInvQuiet DEF SetRole
<1>5. CASE \E r \in Requests : Refresh(r) \/ Write(r)
  BY <1>5, NoWriteKeepsAlive, GainKeepsAlive, WriteKeepsAlive
<1>6. CASE \E r \in Requests : \E t \in Tokens : Arrive(r, t)
  BY <1>6, ArriveKeepsAlive
<1>7. CASE \E r \in Requests : \/ \E u \in Users : RequestLink(r, u)
                               \/ \E l \in Links : Claim(r, l)
  BY <1>1, <1>2, <1>7 DEF RequestLink, Claim
<1>8. CASE \E r \in Requests : SendLink(r) \/ Answer(r) \/ Release(r) \/ Crash(r)
  BY <1>1, <1>2, <1>8 DEF SendLink, Answer, Release, Crash
<1>9. ASSUME NEW r \in Requests, Proceeds(r) PROVE KInv'
  <2>1. call[r] \in LoginCall
    BY <1>9, StepCall DEF Proceeds, CheckEligible, CheckBootstrap, Promote, Establish, Throw,
                          Claimed
  <2>2. /\ \A s \in Claimed \cup {"release"} : At(r, s).step \notin {"refresh", "write"}
        /\ \A t : [call[r] EXCEPT !.step = "answer", !.token = t].step \notin {"refresh", "write"}
    BY <2>1 DEF At, LoginCall, Claimed
  <2>3. ASSUME NEW s \in Claimed \cup {"release"}, Goto(r, At(r, s)), UNCHANGED <<now, sessionVars>>
        PROVE  KInv'
    BY <1>1, <1>2, <2>2, <2>3
  <2>4. CASE CheckEligible(r) \/ CheckBootstrap(r) \/ Promote(r) \/ Throw(r)
    BY <2>3, <2>4 DEF CheckEligible, CheckBootstrap, Promote, Throw, Claimed
  <2>5. CASE Establish(r)
    <3>1. CASE Goto(r, At(r, "release")) /\ UNCHANGED sessionVars
      BY <2>3, <2>5, <3>1 DEF Establish
    <3>2. ASSUME NEW t \in Tokens, Mint(t, call[r].user),
                 Goto(r, [call[r] EXCEPT !.step = "answer", !.token = t])
          PROVE  KInv'
      <4>1. \A q \in Requests : Prolongs(q)' => Prolongs(q) /\ call'[q] = call[q]
        BY <1>1, <2>2, <3>2
      <4>2. QED  BY <2>5, <3>2, <4>1, MintKeepsAlive DEF Establish
    <3>3. QED  BY <2>5, <3>1, <3>2 DEF Establish
  <2>6. QED  BY <1>9, <2>4, <2>5 DEF Proceeds
<1>10. ASSUME UNCHANGED now, NEW S \in SUBSET Tokens, revoked' = revoked \cup S,
              \A q \in Requests : Prolongs(q)' => Prolongs(q) /\ call'[q] = call[q],
              \A t \in Tokens : IF t \in S THEN session'[t] = NoSession /\ seen'[t] = 0
                                ELSE session'[t] = session[t] /\ seen'[t] = seen[t]
       PROVE  KInv'
  BY <1>10, KInvQuiet
<1>11. ASSUME NEW t \in Tokens, Logout(t) PROVE KInv'
  <2>1. /\ UNCHANGED <<now, call>> /\ {t} \in SUBSET Tokens /\ revoked' = revoked \cup {t}
        /\ \A s \in Tokens : IF s \in {t} THEN session'[s] = NoSession /\ seen'[s] = 0
                              ELSE session'[s] = session[s] /\ seen'[s] = seen[s]
    BY <1>11 DEF Logout, TypeOK
  <2>2. \A q \in Requests : Prolongs(q)' => Prolongs(q) /\ call'[q] = call[q]
    BY <2>1 DEF Prolongs
  <2>3. QED  BY <1>10, <2>1, <2>2
<1>12. ASSUME NEW r \in Requests, Remove(r) PROVE KInv'
  <2>1. \A s \in Removing : Step(r, s) => call[r] \in RemovalCall
    BY StepCall
  <2>2. ASSUME NEW c, c = NoCall \/ c \in RemovalCall, Goto(r, c)
        PROVE  \A q \in Requests : Prolongs(q)' => Prolongs(q) /\ call'[q] = call[q]
    BY <1>1, <2>2 DEF RemovalCall, Removing
  <2>3. CASE RemoveAccount(r)
    BY <1>1, <1>2, <2>3 DEF RemoveAccount
  <2>4. CASE KeepUser(r) \/ RollBack(r)
    BY <1>1, <1>2, <2>4 DEF KeepUser, RollBack
  <2>5. CASE CountRemaining(r)
    <3>1. call[r] \in RemovalCall /\ At(r, "sessions") \in RemovalCall /\ At(r, "commit") \in RemovalCall
      BY <2>1, <2>5 DEF CountRemaining, At, RemovalCall, Removing
    <3>2. QED  BY <1>2, <2>2, <2>5, <3>1 DEF CountRemaining
  <2>6. CASE DeleteSessions(r)
    <3> DEFINE c == [call[r] EXCEPT !.step = "links", !.sessions = SessionsOf(call[r].user)]
    <3>1. c.step = "links" /\ Goto(r, c)
      BY <2>1, <2>6 DEF DeleteSessions, RemovalCall, Removing
    <3>2. QED  BY <1>1, <1>2, <2>6, <3>1 DEF DeleteSessions
  <2>7. CASE DeleteLinks(r)
    <3> DEFINE c == [call[r] EXCEPT !.step = "user", !.links = LinksOf(call[r].user)]
    <3>1. c.step = "user" /\ Goto(r, c)
      BY <2>1, <2>7 DEF DeleteLinks, RemovalCall, Removing
    <3>2. QED  BY <1>1, <1>2, <2>7, <3>1 DEF DeleteLinks
  <2>8. CASE DeleteUser(r)
    <3>1. call[r].sessions \in SUBSET Tokens
      BY <2>1, <2>8 DEF DeleteUser, Removing, RemovalCall
    <3>2. /\ UNCHANGED now /\ revoked' = revoked \cup call[r].sessions /\ Goto(r, NoCall)
          /\ \A t \in Tokens : IF t \in call[r].sessions THEN session'[t] = NoSession /\ seen'[t] = 0
                                ELSE session'[t] = session[t] /\ seen'[t] = seen[t]
      BY <2>8 DEF DeleteUser
    <3>3. \A q \in Requests : Prolongs(q)' => Prolongs(q) /\ call'[q] = call[q]
      BY <2>2, <3>2
    <3>4. QED  BY <1>10, <3>1, <3>2, <3>3
  <2>9. QED
    BY <1>12, <2>3, <2>4, <2>5, <2>6, <2>7, <2>8 DEF Remove
<1>13. CASE Tick
  BY <1>13, TickKeepsAlive
<1>14. CASE UNCHANGED vars
  BY <1>2, <1>14 DEF vars, Prolongs
<1>15. QED
  BY <1>3, <1>4, <1>5, <1>6, <1>7, <1>8, <1>9, <1>11, <1>12, <1>13, <1>14
  DEF Next, LogIn, Browse, Proceeds

-----------------------------------------------------------------------------
(* Rows, links and calls keep their types for every directory and clock.   *)
THEOREM LoginTyped == Spec => []TypeOK
<1>1. IInv => TypeOK
  BY DEF IInv
<1>2. QED  BY <1>1, IInvInit, IInvNext, PTL DEF Spec

(* A mailed link logs in once at most, however often it is opened and      *)
(* given back.                                                             *)
THEOREM LinkLogsInOnce == Spec => []OneLoginPerLink
<1>1. IInv => OneLoginPerLink
  BY DEF IInv, TypeOK, OneLoginPerLink
<1>2. QED  BY <1>1, IInvInit, IInvNext, PTL DEF Spec

(* No error uses a link up in vain: only a crash does.                     *)
THEOREM LinkStaysGood == Spec => []LinkNotLost
<1>1. IInv => LinkNotLost
  BY DEF IInv
<1>2. QED  BY <1>1, IInvInit, IInvNext, PTL DEF Spec

(* No request that was let in before a logout brings the session back.     *)
THEOREM LogoutIsFinal == Spec => []RevokedIsOver
<1>1. IInv => RevokedIsOver
  BY DEF IInv
<1>2. QED  BY <1>1, IInvInit, IInvNext, PTL DEF Spec

(* However requests and their writes overlap, the expiry of a session that *)
(* is used lies an idle time ahead, up to the threshold or to what a late  *)
(* write takes back.                                                       *)
THEOREM UseKeepsAlive == Spec => []KeptAlive
<1>1. IInv /\ KInv /\ [Next]_vars => (IInv /\ KInv)'
  BY IInvNext, KInvNext
<1>2. KInv => KeptAlive
  BY DEF KInv
<1>3. QED  BY <1>1, <1>2, IInvInit, KInvInit, PTL DEF Spec
=============================================================================
