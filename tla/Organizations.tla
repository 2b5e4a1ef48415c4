---------------------------- MODULE Organizations ----------------------------
(***************************************************************************)
(* Organizations and the signing certificates of their identity providers. *)
(* A call of a super-administrator is a row of statements without a        *)
(* transaction: it reads the organization, changes the copy and saves it.  *)
(* The maintenance scripts use a transaction.                              *)
(***************************************************************************)
EXTENDS Integers, FiniteSets

CONSTANTS
  Orgs, Certs,   \* primary keys, never used twice
  Private,       \* the internal organization
  Keys,          \* key pairs of identity providers
  Requests,      \* calls under way at the same time
  MaxCalls,      \* bound: calls that change organizations
  Unborn, Gone, NoCert, NoKey, NoCall

CertRow == [org : Orgs, key : Keys, active : BOOLEAN]

OrgRow == [active : BOOLEAN, method : {"saml", "email"}, url : BOOLEAN,
           metadata : BOOLEAN, cert : Certs \cup {NoCert}]

CallRecord ==
  [step : {"save", "fetch", "apply", "applySave", "rotate", "off", "insert", "point",
           "drop", "clear", "look", "enlist"},
   org : Orgs, rotates : BOOLEAN, row : OrgRow \cup {Unborn, Gone},
   key : Keys \cup {NoKey}, cert : Certs \cup {NoCert}, sync : BOOLEAN]

ASSUME OrganizationsAssumption ==
  /\ MaxCalls \in Nat /\ NoCert \notin Certs /\ NoKey \notin Keys
  /\ Unborn # Gone /\ Unborn \notin OrgRow \cup CertRow /\ Gone \notin OrgRow \cup CertRow
  /\ NoCall \notin CallRecord

VARIABLES
  org,      \* org[o]: the auth.organizations row, or Unborn, or Gone
  cert,     \* cert[c]: the auth.idp_certificates row, or Unborn, or Gone
  key,      \* key[o]: what the identity provider of o signs with
  call,     \* call[r]: what request r is doing, or NoCall
  calls,    \* calls so far
  crossed   \* organizations with a call that ended half-way or overlapped

orgVars == <<org, cert, key, call, calls, crossed>>

IsOrg(o) == org[o] \notin {Unborn, Gone}
IsCert(c) == cert[c] \notin {Unborn, Gone}

Step(r, s) == call[r] # NoCall /\ call[r].step = s
Goto(r, c) == call' = [call EXCEPT ![r] = c]
At(r, s) == [call[r] EXCEPT !.step = s]
End(r) == Goto(r, NoCall)

(* A call on o begins.  Only rotations may overlap without a trace.        *)
Begin(r, o, rotates) ==
  /\ call[r] = NoCall /\ calls < MaxCalls
  /\ calls' = calls + 1
  /\ crossed' = IF \E q \in Requests : /\ call[q] # NoCall /\ call[q].org = o
                                        /\ ~(rotates /\ call[q].rotates)
                THEN crossed \cup {o} ELSE crossed

Calling(s, o, rotates, row, k, c, sync) ==
  [step |-> s, org |-> o, rotates |-> rotates, row |-> row, key |-> k, cert |-> c,
   sync |-> sync]

(* save: every column that differs is written, a row that is gone is       *)
(* inserted; its certificate must exist.                                   *)
Storable(o, row) == row.cert = NoCert \/ IsCert(row.cert)

Store(o, row) == org' = IF Storable(o, row) THEN [org EXCEPT ![o] = row] ELSE org

-----------------------------------------------------------------------------
(* resolveLoginMethodForCreate.                                            *)
MethodFor(url, metadata, k) ==
  IF url \/ metadata \/ k # NoKey THEN "saml" ELSE "email"

(* createOrganization: the row stays when the metadata cannot be fetched.  *)
Create(r, o) ==
  /\ org[o] = Unborn /\ Begin(r, o, TRUE)
  /\ \E url, metadata \in BOOLEAN, k \in Keys \cup {NoKey} :
       \E method \in {MethodFor(url, metadata, k), "saml", "email"} :
         LET row == [active |-> TRUE, method |-> method, url |-> url,
                     metadata |-> metadata, cert |-> NoCert] IN
         /\ org' = [org EXCEPT ![o] = row]
         /\ IF metadata THEN Goto(r, Calling("fetch", o, TRUE, row, NoKey, NoCert, TRUE))
            ELSE IF k # NoKey
            THEN Goto(r, Calling("rotate", o, TRUE, row, k, NoCert, FALSE))
            ELSE End(r)
  /\ UNCHANGED <<cert, key>>

(* What an update sends: one column, or a metadata address to fetch from.  *)
Changes(row) ==
  {<<[row EXCEPT !.active = ~@], FALSE>>, <<[row EXCEPT !.url = ~@], FALSE>>,
   <<[row EXCEPT !.metadata = FALSE], FALSE>>, <<[row EXCEPT !.metadata = TRUE], TRUE>>}

(* updateOrganization reads the row; a metadata address that is given is   *)
(* fetched after the save.                                                 *)
Update(r, o) ==
  /\ IsOrg(o) /\ Begin(r, o, FALSE)
  /\ \E change \in Changes(org[o]) :
       Goto(r, Calling("save", o, FALSE, change[1], NoKey, NoCert, change[2]))
  /\ UNCHANGED <<org, cert, key>>

(* softDeleteOrganization.                                                 *)
SoftDelete(r, o) ==
  /\ IsOrg(o) /\ Begin(r, o, FALSE)
  /\ Goto(r, Calling("save", o, FALSE, [org[o] EXCEPT !.active = FALSE], NoKey, NoCert, FALSE))
  /\ UNCHANGED <<org, cert, key>>

Save(r) ==
  /\ Step(r, "save")
  /\ Store(call[r].org, call[r].row)
  /\ IF call[r].sync /\ Storable(call[r].org, call[r].row)
     THEN Goto(r, At(r, "fetch")) ELSE End(r)
  /\ UNCHANGED <<cert, key, calls, crossed>>

(* syncFromMetadata.                                                       *)
Sync(r, o) ==
  /\ IsOrg(o) /\ org[o].metadata /\ Begin(r, o, TRUE)
  /\ Goto(r, Calling("fetch", o, TRUE, org[o], NoKey, NoCert, TRUE))
  /\ UNCHANGED <<org, cert, key>>

(* fetchIdpMetadata: the key of the moment, or an error that ends the call *)
(* before it has touched a certificate.                                    *)
Fetch(r) ==
  /\ Step(r, "fetch")
  /\ \/ Goto(r, [At(r, "apply") EXCEPT !.key = key[call[r].org]])
     \/ End(r)
  /\ UNCHANGED <<org, cert, key, calls, crossed>>

(* applyMetadataFromUrl reads the row and saves it with the new columns.   *)
ApplyRead(r) ==
  LET o == call[r].org IN
  /\ Step(r, "apply")
  /\ IF IsOrg(o)
     THEN Goto(r, [At(r, "applySave") EXCEPT
            !.row = [org[o] EXCEPT !.url = TRUE, !.metadata = TRUE, !.method = "saml"]])
     ELSE End(r)
  /\ UNCHANGED <<org, cert, key, calls, crossed>>

ApplySave(r) ==
  /\ Step(r, "applySave")
  /\ Store(call[r].org, call[r].row)
  /\ IF Storable(call[r].org, call[r].row) THEN Goto(r, At(r, "rotate")) ELSE End(r)
  /\ UNCHANGED <<cert, key, calls, crossed>>

-----------------------------------------------------------------------------
(* addCertificate; the text may not be a certificate.                      *)
AddCertificate(r, o) ==
  /\ IsOrg(o) /\ Begin(r, o, TRUE)
  /\ \E k \in Keys : Goto(r, Calling("rotate", o, TRUE, org[o], k, NoCert, FALSE))
  /\ UNCHANGED <<org, cert, key>>

(* addCertificateInternal reads the organization, ...                      *)
RotateRead(r) ==
  LET o == call[r].org IN
  /\ Step(r, "rotate")
  /\ IF IsOrg(o)
     THEN Goto(r, [At(r, IF org[o].cert = NoCert THEN "insert" ELSE "off") EXCEPT
                     !.row = org[o]])
     ELSE End(r)
  /\ UNCHANGED <<org, cert, key, calls, crossed>>

Off(c) == IF IsCert(c) THEN [cert EXCEPT ![c].active = FALSE] ELSE cert

(* ... deactivates the certificate it names, ...                           *)
Deactivate(r) ==
  /\ Step(r, "off")
  /\ cert' = Off(call[r].row.cert)
  /\ Goto(r, At(r, "insert"))
  /\ UNCHANGED <<org, key, calls, crossed>>

(* ... inserts the new one, for an organization that exists, ...           *)
InsertCertificate(r) ==
  LET o == call[r].org IN
  /\ Step(r, "insert")
  /\ IF IsOrg(o)
     THEN \E c \in Certs :
            /\ cert[c] = Unborn
            /\ cert' = [cert EXCEPT ![c] = [org |-> o, key |-> call[r].key, active |-> TRUE]]
            /\ Goto(r, [At(r, "point") EXCEPT !.cert = c])
     ELSE End(r) /\ UNCHANGED cert
  /\ UNCHANGED <<org, key, calls, crossed>>

(* ... and saves the organization as it was read, with the new one.        *)
Point(r) ==
  /\ Step(r, "point")
  /\ Store(call[r].org, [call[r].row EXCEPT !.cert = call[r].cert])
  /\ End(r)
  /\ UNCHANGED <<cert, key, calls, crossed>>

(* revokeCertificate saves the certificate ...                             *)
Revoke(r, c) ==
  /\ IsCert(c) /\ Begin(r, cert[c].org, FALSE)
  /\ cert' = Off(c)
  /\ Goto(r, Calling("drop", cert[c].org, FALSE, org[cert[c].org], NoKey, c, FALSE))
  /\ UNCHANGED <<org, key>>

(* Mutant: only a certificate that is not current is handled.              *)
NeverNames(row, c) == FALSE

Names(row, c) == row.cert = c

(* ... and then the organization that names it.                            *)
RevokeRead(r) ==
  LET o == call[r].org IN
  /\ Step(r, "drop")
  /\ IF IsOrg(o) /\ Names(org[o], call[r].cert)
     THEN Goto(r, [At(r, "clear") EXCEPT !.row = [org[o] EXCEPT !.cert = NoCert]])
     ELSE End(r)
  /\ UNCHANGED <<org, cert, key, calls, crossed>>

RevokeSave(r) ==
  /\ Step(r, "clear")
  /\ Store(call[r].org, call[r].row)
  /\ End(r)
  /\ UNCHANGED <<cert, key, calls, crossed>>

(* A statement fails: what was written before stays, and is not the whole  *)
(* of the call from the moment a certificate is deactivated, or metadata   *)
(* are saved without their certificate.                                    *)
HalfDone(r) ==
  /\ call[r] # NoCall
  /\ \/ call[r].step \in {"insert", "point", "drop", "clear"}
     \/ call[r].step \in {"rotate", "off"} /\ call[r].sync

FailCall(r) ==
  /\ call[r] # NoCall
  /\ End(r) /\ crossed' = IF HalfDone(r) THEN crossed \cup {call[r].org} ELSE crossed
  /\ UNCHANGED <<org, cert, key, calls>>

-----------------------------------------------------------------------------
(* register-org --email-only, of a new or a known name.                    *)
RegisterEmail(r, o) ==
  /\ o # Private /\ org[o] # Gone /\ Begin(r, o, TRUE)
  /\ org' = [org EXCEPT ![o] =
       IF IsOrg(o) THEN [@ EXCEPT !.method = "email", !.active = TRUE]
       ELSE [active |-> TRUE, method |-> "email", url |-> FALSE, metadata |-> FALSE,
             cert |-> NoCert]]
  /\ UNCHANGED <<cert, key, call>>

(* register-org with a metadata address, also of provision-dev-university, *)
(* fetches the metadata before its transaction begins, ...                 *)
RegisterSaml(r, o) ==
  /\ o # Private /\ Begin(r, o, TRUE)
  /\ Goto(r, Calling("look", o, TRUE, Unborn, key[o], NoCert, FALSE))
  /\ UNCHANGED <<org, cert, key>>

(* ... looks for the organization, without a lock; one that was removed is *)
(* registered under another id, ...                                        *)
RegisterLook(r) ==
  LET o == call[r].org IN
  /\ Step(r, "look")
  /\ IF org[o] = Gone THEN End(r) ELSE Goto(r, [At(r, "enlist") EXCEPT !.row = org[o]])
  /\ UNCHANGED <<org, cert, key, calls, crossed>>

(* ... and writes it, with a certificate in the place of the one it saw;   *)
(* its row is locked from the first statement to the commit.               *)
Replaced(row) == IF row # Unborn /\ row.cert # NoCert THEN Off(row.cert) ELSE cert

RegisterWrite(r) ==
  LET o == call[r].org IN
  /\ Step(r, "enlist")
  /\ IF IsOrg(o) = (call[r].row # Unborn) /\ org[o] # Gone
     THEN \E c \in Certs :
            /\ cert[c] = Unborn
            /\ cert' = [Replaced(call[r].row)
                          EXCEPT ![c] = [org |-> o, key |-> call[r].key, active |-> TRUE]]
            /\ org' = [org EXCEPT ![o] = [active |-> TRUE, method |-> "saml", url |-> TRUE,
                                          metadata |-> TRUE, cert |-> c]]
     ELSE UNCHANGED <<org, cert>>
  /\ End(r)
  /\ UNCHANGED <<key, calls, crossed>>

(* purgeOrganization, one transaction; the accounts, users and groups that *)
(* go with it are those of Accounts and GroupPages.                        *)
Purge(o) ==
  /\ o # Private /\ IsOrg(o)
  /\ org' = [org EXCEPT ![o] = Gone]
  /\ cert' = [c \in Certs |-> IF IsCert(c) /\ cert[c].org = o THEN Gone ELSE cert[c]]
  /\ UNCHANGED <<key, call, calls, crossed>>

(* External: the identity provider signs with another key from now on.     *)
ChangeKey(o) ==
  /\ \E k \in Keys \ {key[o]} : key' = [key EXCEPT ![o] = k]
  /\ UNCHANGED <<org, cert, call, calls, crossed>>

(* The calls under way end with the process, the scripts do not.           *)
CutShort ==
  /\ call' = [r \in Requests |->
                IF Step(r, "look") \/ Step(r, "enlist") THEN call[r] ELSE NoCall]
  /\ crossed' = crossed \cup {call[r].org : r \in {q \in Requests : HalfDone(q)}}
  /\ UNCHANGED <<org, cert, key, calls>>

(* Nothing is there yet, or an organization that register-org has made.    *)
OrgInit ==
  /\ key \in [Orgs -> Keys]
  /\ \/ org = [o \in Orgs |-> Unborn] /\ cert = [c \in Certs |-> Unborn]
     \/ \E o \in Orgs \ {Private}, c \in Certs :
          /\ org = [p \in Orgs |-> IF p = o THEN [active |-> TRUE, method |-> "saml", url |-> TRUE,
                                                 metadata |-> TRUE, cert |-> c] ELSE Unborn]
          /\ cert = [d \in Certs |-> IF d = c THEN [org |-> o, key |-> key[o], active |-> TRUE]
                                   ELSE Unborn]
  /\ call = [r \in Requests |-> NoCall] /\ calls = 0 /\ crossed = {}

OrgNext ==
  \E r \in Requests :
    \/ \E o \in Orgs :
         \/ Create(r, o) \/ Update(r, o) \/ SoftDelete(r, o) \/ Sync(r, o)
         \/ AddCertificate(r, o) \/ RegisterEmail(r, o) \/ RegisterSaml(r, o)
    \/ \E c \in Certs : Revoke(r, c)
    \/ Save(r) \/ Fetch(r) \/ ApplyRead(r) \/ ApplySave(r) \/ RotateRead(r)
    \/ Deactivate(r) \/ InsertCertificate(r) \/ Point(r) \/ RevokeRead(r)
    \/ RevokeSave(r) \/ RegisterLook(r) \/ RegisterWrite(r) \/ FailCall(r)

-----------------------------------------------------------------------------
(* listSamlOrganizations, and assertSamlOrganization.                      *)
Listed(o) ==
  /\ IsOrg(o) /\ o # Private
  /\ org[o].active /\ org[o].method = "saml" /\ org[o].url /\ org[o].cert # NoCert

(* The certificate an answer of o is to be checked with, if there is one.  *)
Current(o) ==
  {c \in Certs : IsOrg(o) /\ org[o].cert = c /\ IsCert(c) /\ cert[c].active
                   /\ cert[c].org = o}

(* An organization the login page offers has a certificate that is good,   *)
(* whatever rotations overlapped: the page looks at the organization only. *)
(* Excepted are organizations with a call under way, with one that failed  *)
(* half-way, or with other calls that overlapped.                          *)
ListedIsReady ==
  \A o \in Orgs :
    (Listed(o) /\ o \notin crossed /\ \A r \in Requests : call[r] # NoCall => call[r].org # o)
      => Current(o) # {}
=============================================================================
