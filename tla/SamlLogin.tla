------------------------------ MODULE SamlLogin ------------------------------
(***************************************************************************)
(* Sign-ins by way of an organization's identity provider, composed with   *)
(* the calls that change the organizations meanwhile.  The strategy that   *)
(* checks the answers is built once per organization and process, from the *)
(* certificate of that moment.                                             *)
(***************************************************************************)
EXTENDS Organizations

CONSTANTS Browsers, Out

VARIABLES
  strategy,  \* strategy[o]: the key of the cached strategy, or NoKey
  web,       \* web[b]: where browser b is in a sign-in or sign-out, or Out
  recent,    \* recent[o]: keys that were current since the process started
  met        \* browsers whose answer has met its organization ready

loginVars == <<strategy, web>>
vars == <<orgVars, loginVars, recent, met>>

On(b, s) == web[b] # Out /\ web[b].step = s
Move(b, w) == web' = [web EXCEPT ![b] = w]
Leave(b) == Move(b, Out)

Loading(o, goal, k) == [step |-> "org", org |-> o, goal |-> goal, key |-> k, cert |-> NoCert]

(* login: assertSamlOrganization, and then the configuration is loaded.    *)
Login(b, o) ==
  /\ web[b] = Out /\ Listed(o)
  /\ Move(b, Loading(o, "login", NoKey))
  /\ UNCHANGED <<orgVars, strategy>>

(* Mutant: an organization with a strategy is not asked whether it is      *)
(* active.                                                                 *)
OpenOrCached(o) ==
  /\ IsOrg(o)
  /\ org[o].active \/ strategy[o] # NoKey
  /\ org[o].url /\ org[o].cert # NoCert

Open(o) == IsOrg(o) /\ org[o].active /\ org[o].url /\ org[o].cert # NoCert

(* loadOrganizationSamlConfig reads the organization ...                   *)
LoadOrg(b) ==
  LET o == web[b].org IN
  /\ On(b, "org")
  /\ IF Open(o) THEN Move(b, [web[b] EXCEPT !.step = "cert", !.cert = org[o].cert])
     ELSE Leave(b)
  /\ UNCHANGED <<orgVars, strategy>>

(* Mutant: the certificate is loaded by its id alone.                      *)
ById(c, o) == IsCert(c)

Usable(c, o) == IsCert(c) /\ cert[c].active /\ cert[c].org = o

(* registerStrategyForOrganization keeps the one that is cached.           *)
Registered(o, k) == IF strategy[o] = NoKey THEN [strategy EXCEPT ![o] = k] ELSE strategy

After(b) ==
  CASE web[b].goal = "login"  -> Move(b, [web[b] EXCEPT !.step = "idp"])
    [] web[b].goal = "answer" -> Move(b, [web[b] EXCEPT !.step = "verify"])
    [] web[b].goal = "logout" -> Leave(b)

(* ... and its certificate; the sign-in, the answer or the sign-out goes   *)
(* on with the strategy.                                                   *)
LoadCert(b) ==
  LET w == web[b] IN
  /\ On(b, "cert")
  /\ IF Usable(w.cert, w.org)
     THEN After(b) /\ strategy' = Registered(w.org, cert[w.cert].key)
     ELSE Leave(b) /\ UNCHANGED strategy
  /\ UNCHANGED orgVars

(* handleAcs takes an answer that an identity provider has signed, and the *)
(* organization that the relay state or the browser's cookie names: the    *)
(* browser need not have asked, nor the two belong together.               *)
HandleAcs(b) ==
  /\ web[b] = Out \/ On(b, "idp")
  /\ \E o, p \in Orgs : Move(b, Loading(o, "answer", key[p]))
  /\ UNCHANGED <<orgVars, strategy>>

(* passport.authenticate, with the strategy that is registered.            *)
Verify(b) ==
  /\ On(b, "verify")
  /\ IF strategy[web[b].org] = web[b].key
     THEN Move(b, [web[b] EXCEPT !.step = "provision"]) ELSE Leave(b)
  /\ UNCHANGED <<orgVars, strategy>>

(* finalizeAcs provisions the account, as in Accounts, and establishes the *)
(* session; either may fail.                                               *)
Provisioned(b) ==
  /\ On(b, "provision")
  /\ Move(b, [web[b] EXCEPT !.step = "mint"])
  /\ UNCHANGED <<orgVars, strategy>>

Establish(b) ==
  /\ On(b, "mint")
  /\ Move(b, [web[b] EXCEPT !.step = "in"])
  /\ UNCHANGED <<orgVars, strategy>>

(* A statement fails, the relay state expires, or the browser goes away.   *)
Abandon(b) ==
  /\ web[b] # Out /\ ~On(b, "in")
  /\ Leave(b)
  /\ UNCHANGED <<orgVars, strategy>>

(* samlLogout ends the session first; the identity provider is told if its *)
(* organization can be loaded.                                             *)
Logout(b) ==
  /\ On(b, "in")
  /\ Leave(b) \/ Move(b, Loading(web[b].org, "logout", NoKey))
  /\ UNCHANGED <<orgVars, strategy>>

(* unregister-org deletes the sessions of the organization.                *)
Unregister(o) ==
  /\ Purge(o)
  /\ web' = [b \in Browsers |-> IF On(b, "in") /\ web[b].org = o THEN Out ELSE web[b]]
  /\ UNCHANGED strategy

(* The process starts anew: browsers at the identity provider come back to *)
(* it, the relay state needs no memory.                                    *)
Restart ==
  /\ CutShort
  /\ strategy' = [o \in Orgs |-> NoKey]
  /\ web' = [b \in Browsers |-> IF On(b, "idp") \/ On(b, "in") THEN web[b] ELSE Out]

-----------------------------------------------------------------------------
CurrentKeys(o) == {cert[c].key : c \in Current(o)}

Ready(o) == IsOrg(o) /\ org[o].active /\ org[o].url /\ Current(o) # {}

MeetsReady(b) == Ready(web[b].org)

Answering(b) ==
  web[b] # Out /\ web[b].goal = "answer" /\ ~On(b, "in")

Init ==
  /\ OrgInit
  /\ strategy = [o \in Orgs |-> NoKey] /\ web = [b \in Browsers |-> Out]
  /\ recent = [o \in Orgs |-> {}] /\ met = {}

(* What the properties look back on.                                       *)
Remember ==
  met' = {b \in Browsers : Answering(b)' /\ (b \in met \/ MeetsReady(b)')}

Run ==
  \/ OrgNext /\ UNCHANGED loginVars
  \/ \E o \in Orgs : ChangeKey(o) /\ UNCHANGED loginVars
  \/ \E o \in Orgs : Unregister(o)
  \/ \E b \in Browsers :
       \/ \E o \in Orgs : Login(b, o)
       \/ LoadOrg(b) \/ LoadCert(b) \/ HandleAcs(b) \/ Verify(b) \/ Provisioned(b)
       \/ Establish(b) \/ Abandon(b) \/ Logout(b)

Next ==
  /\ \/ Run /\ recent' = [o \in Orgs |-> recent[o] \cup CurrentKeys(o)']
     \/ Restart /\ recent' = [o \in Orgs |-> CurrentKeys(o)']
  /\ Remember

Spec == Init /\ [][Next]_vars

-----------------------------------------------------------------------------
(* The cached strategy is never older than the process: its key was that   *)
(* of the organization's active certificate at a moment since the start,   *)
(* although organization and certificate are read one after the other.     *)
StrategyIsRecent ==
  \A o \in Orgs : strategy[o] # NoKey => strategy[o] \in recent[o]

(* No session is opened for an organization that was deactivated, removed  *)
(* or without an active certificate all the time since the answer came,    *)
(* although a strategy for it is still cached.                             *)
AdmittedWhileReady ==
  \A b \in Browsers : On(b, "verify") \/ On(b, "provision") \/ On(b, "mint") => b \in met
=============================================================================
