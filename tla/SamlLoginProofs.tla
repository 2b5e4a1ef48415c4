--------------------------- MODULE SamlLoginProofs ---------------------------
(***************************************************************************)
(* What SamlLogin promises about cached strategies and sessions, for every *)
(* number of organizations, certificates, keys, administrators' calls and  *)
(* browsers.  A browser reads the organization first and its certificate   *)
(* later: the argument is that a certificate, once inserted, never gets    *)
(* another key, owner or a second life.  The second part is about the      *)
(* organizations alone: rotations that overlap leave a good certificate.   *)
(***************************************************************************)
EXTENDS SamlLogin, TLAPS

(* The calls that change organizations, step by step.                      *)
CallsAt(steps, rows, keys) ==
  [step : steps, org : Orgs, rotates : BOOLEAN, row : rows, key : keys,
   cert : Certs \cup {NoCert}, sync : BOOLEAN]

CallRow ==
  CallsAt({"save", "fetch", "clear"}, OrgRow, Keys \cup {NoKey})
    \cup CallsAt({"apply", "applySave", "rotate", "off", "insert", "point"}, OrgRow, Keys)
    \cup CallsAt({"drop"}, OrgRow \cup {Unborn, Gone}, {NoKey})
    \cup CallsAt({"look", "enlist"}, OrgRow \cup {Unborn}, Keys)

OrgTyped ==
  /\ org \in [Orgs -> OrgRow \cup {Unborn, Gone}]
  /\ cert \in [Certs -> CertRow \cup {Unborn, Gone}]
  /\ key \in [Orgs -> Keys]
  /\ call \in [Requests -> CallRow \cup {NoCall}]

(* The certificate an organization names has been inserted.                *)
NamesInserted ==
  \A o \in Orgs : IsOrg(o) /\ org[o].cert # NoCert => cert[org[o].cert] # Unborn

OrgInv == OrgTyped /\ NamesInserted

(* A certificate can only be deactivated or deleted.                       *)
CertsSettle ==
  \A c \in Certs : cert[c] # Unborn =>
    /\ cert'[c] # Unborn
    /\ IsCert(c)' => /\ IsCert(c) /\ cert'[c].org = cert[c].org /\ cert'[c].key = cert[c].key
                     /\ (cert'[c].active => cert[c].active)

-----------------------------------------------------------------------------
(* What a deactivation leaves of the certificates.                         *)
LEMMA OffSettles ==
  ASSUME OrgTyped, NEW c, cert' = Off(c)
  PROVE  /\ cert' \in [Certs -> CertRow \cup {Unborn, Gone}] /\ CertsSettle
         /\ \A d \in Certs : cert[d] # Unborn => cert'[d] # Unborn
  BY OrganizationsAssumption DEF OrgTyped, Off, CertsSettle, IsCert, CertRow

(* A save stores a row of the table, with a certificate that is there.     *)
LEMMA StoreKeeps ==
  ASSUME OrgInv, NEW o \in Orgs, NEW row \in OrgRow, Store(o, row), cert' = cert
  PROVE  org' \in [Orgs -> OrgRow \cup {Unborn, Gone}] /\ NamesInserted'
  BY DEF OrgInv, OrgTyped, NamesInserted, Store, Storable, IsOrg, IsCert, OrgRow

(* Nothing happens to certificates that do not change.                     *)
LEMMA SameSettles == ASSUME cert' = cert PROVE CertsSettle
  BY DEF CertsSettle, IsCert

(* A request goes on with a call, or ends it.                              *)
LEMMA MoveTyped ==
  ASSUME OrgTyped, NEW r \in Requests, NEW c,
         End(r) \/ (c \in CallRow /\ Goto(r, c))
  PROVE  call' \in [Requests -> CallRow \cup {NoCall}]
  BY DEF OrgTyped, End, Goto

OrgKeeps == OrgInv' /\ CertsSettle

(* The calls that begin by reading keep the tables.                        *)
LEMMA BeginKeeps ==
  ASSUME OrgInv, NEW r \in Requests, NEW o \in Orgs,
         \/ Update(r, o) \/ SoftDelete(r, o) \/ Sync(r, o) \/ AddCertificate(r, o)
         \/ RegisterSaml(r, o)
  PROVE  OrgKeeps
<1> USE OrganizationsAssumption DEF OrgInv
<1>1. CASE Update(r, o)
  <2>1. PICK change \in Changes(org[o]) :
          call' = [call EXCEPT ![r] =
                     Calling("save", o, FALSE, change[1], NoKey, NoCert, change[2])]
    BY <1>1 DEF Update, Goto
  <2>2. change[1] \in OrgRow /\ change[2] \in BOOLEAN
    <3>1. org[o] \in OrgRow
      BY <1>1 DEF Update, OrgTyped, IsOrg
    <3>2. /\ [org[o] EXCEPT !.active = ~@] \in OrgRow /\ [org[o] EXCEPT !.url = ~@] \in OrgRow
          /\ [org[o] EXCEPT !.metadata = FALSE] \in OrgRow
          /\ [org[o] EXCEPT !.metadata = TRUE] \in OrgRow
      BY <3>1 DEF OrgRow
    <3>3. PICK row, sync : change = <<row, sync>> /\ row \in OrgRow /\ sync \in BOOLEAN
      BY <3>2 DEF Changes
    <3>4. QED  BY <3>3
  <2>3. UNCHANGED <<org, cert, key>>
    BY <1>1 DEF Update
  <2>4. Calling("save", o, FALSE, change[1], NoKey, NoCert, change[2]) \in CallRow
    BY <2>2 DEF Calling, CallRow, CallsAt
  <2>5. OrgTyped'
    BY <2>1, <2>3, <2>4 DEF OrgTyped
  <2>6. QED  BY <2>3, <2>5, SameSettles DEF OrgKeeps, NamesInserted, IsOrg
<1>2. CASE SoftDelete(r, o)
  <2>1. [org[o] EXCEPT !.active = FALSE] \in OrgRow
    BY <1>2 DEF SoftDelete, OrgTyped, IsOrg, OrgRow
  <2>2. Calling("save", o, FALSE, [org[o] EXCEPT !.active = FALSE], NoKey, NoCert, FALSE)
          \in CallRow
    BY <2>1 DEF Calling, CallRow, CallsAt
  <2>3. OrgTyped' /\ UNCHANGED <<org, cert>>
    BY <1>2, <2>2 DEF SoftDelete, Goto, OrgTyped
  <2>4. QED  BY <2>3, SameSettles DEF OrgKeeps, NamesInserted, IsOrg
<1>3. CASE Sync(r, o)
  <2>1. OrgTyped' /\ UNCHANGED <<org, cert>>
    BY <1>3 DEF Sync, Goto, OrgTyped, Calling, CallRow, CallsAt, IsOrg
  <2>2. QED  BY <2>1, SameSettles DEF OrgKeeps, NamesInserted, IsOrg
<1>4. CASE AddCertificate(r, o)
  <2>1. OrgTyped' /\ UNCHANGED <<org, cert>>
    BY <1>4 DEF AddCertificate, Goto, OrgTyped, Calling, CallRow, CallsAt, IsOrg
  <2>2. QED  BY <2>1, SameSettles DEF OrgKeeps, NamesInserted, IsOrg
<1>5. CASE RegisterSaml(r, o)
  <2>1. OrgTyped' /\ UNCHANGED <<org, cert>>
    BY <1>5 DEF RegisterSaml, Goto, OrgTyped, Calling, CallRow, CallsAt, IsOrg
  <2>2. QED  BY <2>1, SameSettles DEF OrgKeeps, NamesInserted, IsOrg
<1>6. QED  BY <1>1, <1>2, <1>3, <1>4, <1>5

(* So does the first half of a revocation.                                 *)
LEMMA RevokeKeeps ==
  ASSUME OrgInv, NEW r \in Requests, NEW c \in Certs, Revoke(r, c)
  PROVE  OrgKeeps
<1> USE OrganizationsAssumption DEF OrgInv
<1>1. cert' = Off(c) /\ UNCHANGED <<org, key>> /\ cert[c].org \in Orgs
  BY DEF Revoke, OrgTyped, IsCert, CertRow
<1>2. call' \in [Requests -> CallRow \cup {NoCall}]
  BY <1>1 DEF Revoke, Goto, OrgTyped, Calling, CallRow, CallsAt
<1>3. QED  BY <1>1, <1>2, OffSettles DEF OrgKeeps, OrgTyped, NamesInserted, IsOrg, OrgRow

(* So do the steps of a call that only look or save the organization.      *)
LEMMA GoOnKeeps ==
  ASSUME OrgInv, NEW r \in Requests,
         \/ Save(r) \/ Fetch(r) \/ ApplyRead(r) \/ ApplySave(r) \/ RotateRead(r)
         \/ Point(r) \/ RevokeRead(r) \/ RevokeSave(r) \/ RegisterLook(r) \/ FailCall(r)
  PROVE  OrgKeeps
<1> USE OrganizationsAssumption DEF OrgInv
<1> DEFINE o == call[r].org
<1>1. cert' = cert /\ key' = key
  BY DEF Save, Fetch, ApplyRead, ApplySave, RotateRead, Point, RevokeRead, RevokeSave,
         RegisterLook, FailCall
<1>2. call[r] # NoCall /\ call[r] \in CallRow /\ o \in Orgs
  BY DEF Save, Fetch, ApplyRead, ApplySave, RotateRead, Point, RevokeRead, RevokeSave,
         RegisterLook, FailCall, Step, OrgTyped, CallRow, CallsAt
<1>3. call' \in [Requests -> CallRow \cup {NoCall}]
  <2>1. CASE Save(r)
    <3>1. call[r] \in CallsAt({"save"}, OrgRow, Keys \cup {NoKey})
      BY <1>2, <2>1 DEF Save, Step, CallRow, CallsAt
    <3>2. At(r, "fetch") \in CallsAt({"fetch"}, OrgRow, Keys \cup {NoKey})
      BY <3>1 DEF At, CallsAt
    <3>3. QED  BY <2>1, <3>2, MoveTyped DEF Save, CallRow, CallsAt
  <2>2. CASE Fetch(r)
    <3>1. call[r] \in CallsAt({"fetch"}, OrgRow, Keys \cup {NoKey}) /\ key[o] \in Keys
      BY <1>2, <2>2 DEF Fetch, Step, CallRow, CallsAt, OrgTyped
    <3>2. [At(r, "apply") EXCEPT !.key = key[o]] \in CallsAt({"apply"}, OrgRow, Keys)
      BY <3>1 DEF At, CallsAt
    <3>3. QED  BY <2>2, <3>2, MoveTyped DEF Fetch, CallRow, CallsAt
  <2>3. CASE ApplyRead(r)
    <3> DEFINE new == [org[o] EXCEPT !.url = TRUE, !.metadata = TRUE, !.method = "saml"]
    <3>1. call[r] \in CallsAt({"apply"}, OrgRow, Keys)
      BY <1>2, <2>3 DEF ApplyRead, Step, CallRow, CallsAt
    <3>2. IsOrg(o) => new \in OrgRow
      BY <1>2 DEF OrgTyped, IsOrg, OrgRow
    <3> HIDE DEF new
    <3>3. IsOrg(o) => [At(r, "applySave") EXCEPT !.row = new]
                         \in CallsAt({"applySave"}, OrgRow, Keys)
      BY <3>1, <3>2 DEF At, CallsAt
    <3>4. QED  BY <2>3, <3>3, MoveTyped DEF ApplyRead, CallRow, CallsAt, new
  <2>4. CASE ApplySave(r)
    <3>1. call[r] \in CallsAt({"applySave"}, OrgRow, Keys)
      BY <1>2, <2>4 DEF ApplySave, Step, CallRow, CallsAt
    <3>2. At(r, "rotate") \in CallsAt({"rotate"}, OrgRow, Keys)
      BY <3>1 DEF At, CallsAt
    <3>3. QED  BY <2>4, <3>2, MoveTyped DEF ApplySave, CallRow, CallsAt
  <2>5. CASE RotateRead(r)
    <3>1. call[r] \in CallsAt({"rotate"}, OrgRow, Keys)
      BY <1>2, <2>5 DEF RotateRead, Step, CallRow, CallsAt
    <3>2. IsOrg(o) => org[o] \in OrgRow
      BY <1>2 DEF OrgTyped, IsOrg
    <3>3. ASSUME IsOrg(o), NEW s \in {"insert", "off"}
          PROVE  [At(r, s) EXCEPT !.row = org[o]] \in CallRow
      BY <3>1, <3>2, <3>3 DEF At, CallsAt, CallRow
    <3>4. QED  BY <2>5, <3>3, MoveTyped DEF RotateRead
  <2>6. CASE RevokeRead(r)
    <3> DEFINE new == [org[o] EXCEPT !.cert = NoCert]
    <3>1. call[r] \in CallsAt({"drop"}, OrgRow \cup {Unborn, Gone}, {NoKey})
      BY <1>2, <2>6 DEF RevokeRead, Step, CallRow, CallsAt
    <3>2. IsOrg(o) => new \in OrgRow
      BY <1>2 DEF OrgTyped, IsOrg, OrgRow
    <3> HIDE DEF new
    <3>3. IsOrg(o) => [At(r, "clear") EXCEPT !.row = new]
                         \in CallsAt({"clear"}, OrgRow, Keys \cup {NoKey})
      BY <3>1, <3>2 DEF At, CallsAt
    <3>4. QED  BY <2>6, <3>3, MoveTyped DEF RevokeRead, CallRow, CallsAt, new
  <2>7. CASE Point(r) \/ RevokeSave(r) \/ FailCall(r)
    BY <2>7, MoveTyped DEF Point, RevokeSave, FailCall
  <2>8. CASE RegisterLook(r)
    <3>1. call[r] \in CallsAt({"look"}, OrgRow \cup {Unborn}, Keys)
      BY <1>2, <2>8 DEF RegisterLook, Step, CallRow, CallsAt
    <3>2. org[o] # Gone => org[o] \in OrgRow \cup {Unborn}
      BY <1>2 DEF OrgTyped
    <3>3. org[o] # Gone => [At(r, "enlist") EXCEPT !.row = org[o]] \in CallRow
      BY <3>1, <3>2 DEF At, CallsAt, CallRow
    <3>4. QED  BY <2>8, <3>3, MoveTyped DEF RegisterLook
  <2>9. QED  BY <2>1, <2>2, <2>3, <2>4, <2>5, <2>6, <2>7, <2>8
<1>4. org' = org \/ \E row \in OrgRow : Store(o, row)
  <2>1. CASE Save(r) \/ ApplySave(r) \/ RevokeSave(r)
    <3>1. call[r].row \in OrgRow
      BY <1>2, <2>1 DEF Save, ApplySave, RevokeSave, Step, CallRow, CallsAt
    <3>2. QED  BY <2>1, <3>1 DEF Save, ApplySave, RevokeSave
  <2>2. CASE Point(r)
    <3>1. call[r].row \in OrgRow /\ call[r].cert \in Certs \cup {NoCert}
      BY <1>2, <2>2 DEF Point, Step, CallRow, CallsAt
    <3>2. [call[r].row EXCEPT !.cert = call[r].cert] \in OrgRow
      BY <3>1 DEF OrgRow
    <3>3. QED  BY <2>2, <3>2 DEF Point
  <2>3. QED
    BY <2>1, <2>2 DEF Fetch, ApplyRead, RotateRead, RevokeRead, RegisterLook, FailCall
<1>5. org' \in [Orgs -> OrgRow \cup {Unborn, Gone}] /\ NamesInserted'
  <2>1. CASE org' = org
    BY <1>1, <2>1 DEF OrgTyped, NamesInserted, IsOrg
  <2>2. CASE \E row \in OrgRow : Store(o, row)
    BY <1>1, <1>2, <2>2, StoreKeeps
  <2>3. QED  BY <1>4, <2>1, <2>2
<1>6. QED  BY <1>1, <1>3, <1>5, SameSettles DEF OrgKeeps, OrgTyped

(* So does what creates, replaces and removes certificates.                *)
LEMMA ChangeKeeps ==
  ASSUME OrgInv, NEW r \in Requests, NEW o \in Orgs,
         \/ Create(r, o) \/ RegisterEmail(r, o) \/ RegisterWrite(r)
         \/ Deactivate(r) \/ InsertCertificate(r)
  PROVE  OrgKeeps
<1> USE OrganizationsAssumption DEF OrgInv
<1>1. CASE Create(r, o)
  <2>0. PICK url \in BOOLEAN, metadata \in BOOLEAN, k \in Keys \cup {NoKey} :
          \E method \in {MethodFor(url, metadata, k), "saml", "email"} :
          LET row == [active |-> TRUE, method |-> method, url |-> url,
                      metadata |-> metadata, cert |-> NoCert] IN
          /\ org' = [org EXCEPT ![o] = row]
          /\ IF metadata THEN Goto(r, Calling("fetch", o, TRUE, row, NoKey, NoCert, TRUE))
             ELSE IF k # NoKey
             THEN Goto(r, Calling("rotate", o, TRUE, row, k, NoCert, FALSE))
             ELSE End(r)
    BY <1>1 DEF Create
  <2>1. PICK method \in {MethodFor(url, metadata, k), "saml", "email"} :
          LET row == [active |-> TRUE, method |-> method, url |-> url,
                      metadata |-> metadata, cert |-> NoCert] IN
          /\ org' = [org EXCEPT ![o] = row]
          /\ IF metadata THEN Goto(r, Calling("fetch", o, TRUE, row, NoKey, NoCert, TRUE))
             ELSE IF k # NoKey
             THEN Goto(r, Calling("rotate", o, TRUE, row, k, NoCert, FALSE))
             ELSE End(r)
    BY <2>0
  <2> DEFINE row == [active |-> TRUE, method |-> method, url |-> url,
                     metadata |-> metadata, cert |-> NoCert]
  <2>2. row \in OrgRow /\ row.cert = NoCert
    BY DEF OrgRow, MethodFor
  <2>3. org' = [org EXCEPT ![o] = row] /\ UNCHANGED <<cert, key>>
    BY <1>1, <2>1 DEF Create
  <2> HIDE DEF row
  <2>4. /\ Calling("fetch", o, TRUE, row, NoKey, NoCert, TRUE) \in CallRow
        /\ k # NoKey => Calling("rotate", o, TRUE, row, k, NoCert, FALSE) \in CallRow
    BY <2>2 DEF Calling, CallRow, CallsAt
  <2>5. call' \in [Requests -> CallRow \cup {NoCall}]
    BY <2>1, <2>4, MoveTyped DEF row
  <2>6. QED  BY <2>2, <2>3, <2>5, SameSettles DEF OrgKeeps, OrgTyped, NamesInserted, IsOrg
<1>2. CASE RegisterEmail(r, o)
  <2>1. PICK row \in OrgRow : /\ org' = [org EXCEPT ![o] = row]
                              /\ row.cert = IF IsOrg(o) THEN org[o].cert ELSE NoCert
    <3>1. CASE IsOrg(o)
      <4>1. [org[o] EXCEPT !.method = "email", !.active = TRUE] \in OrgRow
        BY <3>1 DEF OrgTyped, IsOrg, OrgRow
      <4>2. [org[o] EXCEPT !.method = "email", !.active = TRUE].cert = org[o].cert
        BY <3>1 DEF OrgTyped, IsOrg, OrgRow
      <4>3. QED  BY <1>2, <3>1, <4>1, <4>2 DEF RegisterEmail, OrgTyped
    <3>2. CASE ~IsOrg(o)
      <4> DEFINE new == [active |-> TRUE, method |-> "email", url |-> FALSE,
                         metadata |-> FALSE, cert |-> NoCert]
      <4>1. new \in OrgRow /\ new.cert = NoCert
        BY DEF OrgRow
      <4>2. org' = [org EXCEPT ![o] = new]
        BY <1>2, <3>2 DEF RegisterEmail, OrgTyped
      <4>3. QED  BY <3>2, <4>1, <4>2
    <3>3. QED  BY <3>1, <3>2
  <2>2. UNCHANGED <<cert, key, call>>
    BY <1>2 DEF RegisterEmail
  <2>3. QED  BY <2>1, <2>2, SameSettles DEF OrgKeeps, OrgTyped, NamesInserted, IsOrg
<1>3. CASE RegisterWrite(r)
  <2>1. /\ call[r] \in CallsAt({"enlist"}, OrgRow \cup {Unborn}, Keys)
        /\ End(r) /\ key' = key
    BY <1>3 DEF RegisterWrite, Step, OrgTyped, CallRow, CallsAt
  <2>2. call' \in [Requests -> CallRow \cup {NoCall}]
    BY <2>1, MoveTyped
  <2>3. CASE UNCHANGED <<org, cert>>
    BY <2>1, <2>2, <2>3, SameSettles DEF OrgKeeps, OrgTyped, NamesInserted, IsOrg
  <2>4. CASE ~UNCHANGED <<org, cert>>
    <3>1. PICK c \in Certs :
            /\ cert[c] = Unborn
            /\ cert' = [Replaced(call[r].row) EXCEPT ![c] =
                         [org |-> call[r].org, key |-> call[r].key, active |-> TRUE]]
            /\ org' = [org EXCEPT ![call[r].org] =
                         [active |-> TRUE, method |-> "saml", url |-> TRUE,
                          metadata |-> TRUE, cert |-> c]]
      BY <1>3, <2>4 DEF RegisterWrite
    <3>2. PICK p \in Orgs, k \in Keys, row \in OrgRow \cup {Unborn} :
            p = call[r].org /\ k = call[r].key /\ row = call[r].row
      BY <2>1 DEF CallsAt
    <3>3. [org |-> p, key |-> k, active |-> TRUE] \in CertRow
      BY DEF CertRow
    <3>4. [active |-> TRUE, method |-> "saml", url |-> TRUE, metadata |-> TRUE, cert |-> c] \in OrgRow
      BY DEF OrgRow
    <3>5. cert' \in [Certs -> CertRow \cup {Unborn, Gone}] /\ CertsSettle /\ cert'[c] # Unborn
      <4>1. PICK off : off = Replaced(row)
        OBVIOUS
      <4>2. /\ off \in [Certs -> CertRow \cup {Unborn, Gone}]
            /\ \A d \in Certs : cert[d] # Unborn =>
                 /\ off[d] # Unborn
                 /\ off[d] \notin {Unborn, Gone} =>
                      /\ cert[d] \notin {Unborn, Gone}
                      /\ off[d].org = cert[d].org /\ off[d].key = cert[d].key
                      /\ (off[d].active => cert[d].active)
        <5>1. CASE off = cert
          BY <5>1 DEF OrgTyped
        <5>2. CASE off = Off(row.cert)
          BY <5>2 DEF OrgTyped, Off, IsCert, CertRow
        <5>3. QED  BY <4>1, <5>1, <5>2 DEF Replaced
      <4>3. cert' = [off EXCEPT ![c] = [org |-> p, key |-> k, active |-> TRUE]]
        BY <3>1, <3>2, <4>1
      <4>4. cert' \in [Certs -> CertRow \cup {Unborn, Gone}] /\ cert'[c] # Unborn
        BY <3>3, <4>2, <4>3
      <4>5. QED  BY <3>1, <4>2, <4>3, <4>4 DEF CertsSettle, IsCert
    <3>6. QED
      BY <2>1, <2>2, <3>1, <3>2, <3>4, <3>5 DEF OrgKeeps, OrgTyped, NamesInserted, IsOrg, CertsSettle, OrgRow
  <2>5. QED  BY <2>3, <2>4
<1>4. CASE Deactivate(r)
  <2>1. call[r] \in CallsAt({"off"}, OrgRow, Keys)
    BY <1>4 DEF Deactivate, Step, OrgTyped, CallRow, CallsAt
  <2>2. At(r, "insert") \in CallRow
    BY <2>1 DEF At, CallRow, CallsAt
  <2>3. call' \in [Requests -> CallRow \cup {NoCall}]
    BY <1>4, <2>2, MoveTyped DEF Deactivate
  <2>4. cert' = Off(call[r].row.cert) /\ UNCHANGED <<org, key>>
    BY <1>4 DEF Deactivate
  <2>5. QED  BY <2>3, <2>4, OffSettles DEF OrgKeeps, OrgTyped, NamesInserted, IsOrg, OrgRow
<1>5. CASE InsertCertificate(r)
  <2>1. call[r] \in CallsAt({"insert"}, OrgRow, Keys)
    BY <1>5 DEF InsertCertificate, Step, OrgTyped, CallRow, CallsAt
  <2>2. UNCHANGED <<org, key>>
    BY <1>5 DEF InsertCertificate
  <2>3. CASE UNCHANGED cert /\ End(r)
    BY <2>2, <2>3, MoveTyped, SameSettles DEF OrgKeeps, OrgTyped, NamesInserted, IsOrg
  <2>4. CASE \E c \in Certs :
               /\ cert[c] = Unborn
               /\ cert' = [cert EXCEPT ![c] = [org |-> call[r].org, key |-> call[r].key,
                                                active |-> TRUE]]
               /\ Goto(r, [At(r, "point") EXCEPT !.cert = c])
    <3>1. PICK c \in Certs :
            /\ cert[c] = Unborn
            /\ cert' = [cert EXCEPT ![c] = [org |-> call[r].org, key |-> call[r].key,
                                             active |-> TRUE]]
            /\ Goto(r, [At(r, "point") EXCEPT !.cert = c])
      BY <2>4
    <3>2. [org |-> call[r].org, key |-> call[r].key, active |-> TRUE] \in CertRow
      BY <2>1 DEF CallsAt, CertRow
    <3>3. [At(r, "point") EXCEPT !.cert = c] \in CallRow
      BY <2>1 DEF At, CallRow, CallsAt
    <3>4. call' \in [Requests -> CallRow \cup {NoCall}]
      BY <3>1, <3>3, MoveTyped
    <3>5. cert' \in [Certs -> CertRow \cup {Unborn, Gone}] /\ CertsSettle
      BY <3>1, <3>2 DEF OrgTyped, CertsSettle, IsCert
    <3>6. QED  BY <2>2, <3>4, <3>5 DEF OrgKeeps, OrgTyped, NamesInserted, IsOrg, CertsSettle, OrgRow
  <2>5. QED  BY <1>5, <2>3, <2>4 DEF InsertCertificate
<1>6. QED  BY <1>1, <1>2, <1>3, <1>4, <1>5

(* Every step of an administrator, a script or an identity provider.       *)
LEMMA OrganizationsKeep ==
  ASSUME OrgInv,
         \/ OrgNext \/ CutShort \/ UNCHANGED orgVars
         \/ \E o \in Orgs : ChangeKey(o) \/ Purge(o)
  PROVE  OrgKeeps
<1> USE OrganizationsAssumption
<1>1. CASE OrgNext
  <2>1. PICK r \in Requests :
          \/ \E o \in Orgs :
               \/ Create(r, o) \/ Update(r, o) \/ SoftDelete(r, o) \/ Sync(r, o)
               \/ AddCertificate(r, o) \/ RegisterEmail(r, o) \/ RegisterSaml(r, o)
          \/ \E c \in Certs : Revoke(r, c)
          \/ Save(r) \/ Fetch(r) \/ ApplyRead(r) \/ ApplySave(r) \/ RotateRead(r)
          \/ Deactivate(r) \/ InsertCertificate(r) \/ Point(r) \/ RevokeRead(r)
          \/ RevokeSave(r) \/ RegisterLook(r) \/ RegisterWrite(r) \/ FailCall(r)
    BY <1>1 DEF OrgNext
  <2>2. CASE \E o \in Orgs : Create(r, o) \/ RegisterEmail(r, o)
    BY <2>2, ChangeKeeps
  <2>3. CASE \E o \in Orgs : \/ Update(r, o) \/ SoftDelete(r, o) \/ Sync(r, o)
                             \/ AddCertificate(r, o) \/ RegisterSaml(r, o)
    BY <2>3, BeginKeeps
  <2>4. CASE \E c \in Certs : Revoke(r, c)
    BY <2>4, RevokeKeeps
  <2>5. CASE \/ Save(r) \/ Fetch(r) \/ ApplyRead(r) \/ ApplySave(r) \/ RotateRead(r)
             \/ Point(r) \/ RevokeRead(r) \/ RevokeSave(r) \/ RegisterLook(r) \/ FailCall(r)
    BY <2>5, GoOnKeeps
  <2>6. CASE Deactivate(r) \/ InsertCertificate(r) \/ RegisterWrite(r)
    <3>1. PICK o \in Orgs : TRUE
      BY <2>6 DEF Deactivate, InsertCertificate, RegisterWrite, Step, OrgInv, OrgTyped, CallRow,
                  CallsAt
    <3>2. QED  BY <2>6, ChangeKeeps
  <2>7. QED  BY <2>1, <2>2, <2>3, <2>4, <2>5, <2>6
<1>2. CASE CutShort
  BY <1>2, SameSettles DEF CutShort, OrgInv, OrgTyped, OrgKeeps, NamesInserted, IsOrg
<1>3. CASE UNCHANGED orgVars
  BY <1>3, SameSettles DEF orgVars, OrgInv, OrgTyped, OrgKeeps, NamesInserted, IsOrg
<1>4. ASSUME NEW o \in Orgs, ChangeKey(o)  PROVE OrgKeeps
  BY <1>4, SameSettles DEF ChangeKey, OrgInv, OrgTyped, OrgKeeps, NamesInserted, IsOrg
<1>5. ASSUME NEW o \in Orgs, Purge(o)  PROVE OrgKeeps
  BY <1>5 DEF Purge, OrgInv, OrgTyped, OrgKeeps, NamesInserted, IsOrg, IsCert, CertsSettle, OrgRow
<1>6. QED  BY <1>1, <1>2, <1>3, <1>4, <1>5

-----------------------------------------------------------------------------
WebRow ==
  [step : {"org", "cert", "idp", "verify", "provision", "mint", "in"}, org : Orgs,
   goal : {"login", "answer", "logout"}, key : Keys \cup {NoKey},
   cert : Certs \cup {NoCert}]

Admitting == {"verify", "provision", "mint"}

(* What browser b relies on: the certificate it is about to load has been  *)
(* inserted; if it is still good, its key was current and, for an answer,  *)
(* the organization was ready when the browser read it.                    *)
Relies(b) ==
  web[b] # Out =>
    /\ web[b].step = "cert" =>
         /\ web[b].cert \in Certs /\ cert[web[b].cert] # Unborn
         /\ Usable(web[b].cert, web[b].org) =>
              /\ cert[web[b].cert].key \in recent[web[b].org]
              /\ (web[b].goal = "answer" => b \in met)
    /\ web[b].step \in Admitting => web[b].goal = "answer" /\ b \in met

WebTyped ==
  /\ web \in [Browsers -> WebRow \cup {Out}]
  /\ strategy \in [Orgs -> Keys \cup {NoKey}]

IInv == OrgInv /\ WebTyped /\ (\A b \in Browsers : Relies(b)) /\ StrategyIsRecent

(* IInv holds at the beginning.                                            *)
LEMMA IInvInit == Init => IInv
<1> SUFFICES ASSUME Init PROVE IInv
  OBVIOUS
<1> USE OrganizationsAssumption
<1>1. OrgTyped /\ NamesInserted
  <2>1. CASE org = [o \in Orgs |-> Unborn] /\ cert = [c \in Certs |-> Unborn]
    BY <2>1 DEF Init, OrgInit, OrgTyped, NamesInserted, IsOrg
  <2>2. ASSUME NEW o \in Orgs \ {Private}, NEW c \in Certs,
               org = [p \in Orgs |-> IF p = o
                        THEN [active |-> TRUE, method |-> "saml", url |-> TRUE,
                              metadata |-> TRUE, cert |-> c] ELSE Unborn],
               cert = [d \in Certs |-> IF d = c
                         THEN [org |-> o, key |-> key[o], active |-> TRUE] ELSE Unborn]
        PROVE  OrgTyped /\ NamesInserted
    <3>1. key \in [Orgs -> Keys] /\ call = [r \in Requests |-> NoCall]
      BY DEF Init, OrgInit
    <3>2. [org |-> o, key |-> key[o], active |-> TRUE] \in CertRow
      BY <3>1 DEF CertRow
    <3>3. [active |-> TRUE, method |-> "saml", url |-> TRUE, metadata |-> TRUE, cert |-> c]
            \in OrgRow
      BY DEF OrgRow
    <3>4. OrgTyped
      BY <2>2, <3>1, <3>2, <3>3 DEF OrgTyped
    <3>5. NamesInserted
      BY <2>2, <3>2 DEF NamesInserted, IsOrg
    <3>6. QED  BY <3>4, <3>5
  <2>3. QED  BY <2>1, <2>2 DEF Init, OrgInit
<1>2. WebTyped /\ StrategyIsRecent /\ \A b \in Browsers : Relies(b)
  BY DEF Init, WebTyped, StrategyIsRecent, Relies
<1>3. QED  BY <1>1, <1>2 DEF IInv, OrgInv

(* What a step that does not restart the process leaves to a browser that  *)
(* does not move.                                                          *)
Grows ==
  /\ \A o \in Orgs : recent[o] \subseteq recent'[o] /\ CurrentKeys(o)' \subseteq recent'[o]
  /\ \A b \in Browsers : Answering(b)' /\ (b \in met \/ MeetsReady(b)') => b \in met'

LEMMA RunGrows ==
  ASSUME recent' = [o \in Orgs |-> recent[o] \cup CurrentKeys(o)'], Remember
  PROVE  Grows
  BY DEF Grows, Remember

LEMMA StayingRelies ==
  ASSUME CertsSettle, Grows, NEW b \in Browsers, WebTyped, Relies(b),
         web'[b] = web[b]
  PROVE  Relies(b)'
<1> SUFFICES ASSUME web[b] # Out PROVE Relies(b)'
  BY DEF Relies
<1> USE DEF WebTyped, WebRow
<1>1. web[b].step \in Admitting => web[b].goal = "answer" /\ b \in met'
  BY DEF Relies, Grows, Answering, On, Admitting
<1>2. ASSUME web[b].step = "cert"
      PROVE  /\ web[b].cert \in Certs /\ cert'[web[b].cert] # Unborn
             /\ Usable(web[b].cert, web[b].org)' =>
                  /\ cert'[web[b].cert].key \in recent'[web[b].org]
                  /\ (web[b].goal = "answer" => b \in met')
  <2> DEFINE c == web[b].cert
  <2>1. c \in Certs /\ cert[c] # Unborn
    BY <1>2 DEF Relies
  <2>2. cert'[c] # Unborn
    BY <2>1 DEF CertsSettle
  <2>3. ASSUME Usable(c, web[b].org)'
        PROVE  Usable(c, web[b].org) /\ cert'[c].key = cert[c].key
    BY <2>1, <2>3 DEF CertsSettle, Usable, IsCert
  <2>4. web[b].goal = "answer" /\ b \in met => b \in met'
    BY <1>2 DEF Grows, Answering, On
  <2>5. QED  BY <1>2, <2>1, <2>2, <2>3, <2>4 DEF Relies, Grows
<1>3. QED  BY <1>1, <1>2 DEF Relies

WebKeeps == WebTyped' /\ (\A b \in Browsers : Relies(b)') /\ StrategyIsRecent'

(* A browser that moves does not disturb the others.                       *)
LEMMA MoveKeeps ==
  ASSUME IInv, CertsSettle, Grows, NEW b \in Browsers, NEW w \in WebRow \cup {Out},
         Move(b, w), Relies(b)'
  PROVE  web' \in [Browsers -> WebRow \cup {Out}] /\ \A d \in Browsers : Relies(d)'
<1>1. web' = [web EXCEPT ![b] = w] /\ WebTyped
  BY DEF Move, IInv
<1>2. web' \in [Browsers -> WebRow \cup {Out}]
  BY <1>1 DEF WebTyped
<1>3. ASSUME NEW d \in Browsers, d # b PROVE Relies(d)'
  <2>1. web'[d] = web[d] /\ Relies(d)
    BY <1>1, <1>3 DEF WebTyped, IInv
  <2>2. QED  BY <1>1, <2>1, StayingRelies
<1>4. QED  BY <1>2, <1>3

(* A browser that waits, or is out, relies on nothing.                     *)
LEMMA IdleRelies ==
  ASSUME WebTyped, NEW b \in Browsers, NEW w, Move(b, w),
         w = Out \/ w.step \notin Admitting \cup {"cert"}
  PROVE  Relies(b)'
  BY DEF WebTyped, Move, Relies

(* A strategy that is kept stays recent.                                   *)
LEMMA StrategyKeeps ==
  ASSUME IInv, Grows, strategy' = strategy
  PROVE  StrategyIsRecent'
  BY DEF IInv, Grows, StrategyIsRecent

(* The steps of a browser keep what the browsers rely on.                  *)
LEMMA BrowserKeeps ==
  ASSUME IInv, CertsSettle, Grows, NEW b \in Browsers,
         \/ \E o \in Orgs : Login(b, o)
         \/ LoadOrg(b) \/ HandleAcs(b) \/ Verify(b) \/ Provisioned(b)
         \/ Establish(b) \/ Abandon(b) \/ Logout(b)
  PROVE  WebKeeps
<1>1. UNCHANGED <<orgVars, strategy>>
  BY DEF Login, LoadOrg, HandleAcs, Verify, Provisioned, Establish, Abandon, Logout
<1>2. WebTyped /\ OrgTyped /\ Relies(b) /\ NamesInserted
  BY DEF IInv, OrgInv
<1>3. SUFFICES ASSUME TRUE
               PROVE  \E w \in WebRow \cup {Out} : Move(b, w) /\ Relies(b)'
  BY <1>1, <1>2, MoveKeeps, StrategyKeeps DEF WebKeeps, WebTyped
<1>4. CASE Leave(b)
  BY <1>2, <1>4, IdleRelies DEF Leave
<1>5. CASE \E o \in Orgs : Login(b, o)
  <2>1. PICK o \in Orgs : Move(b, Loading(o, "login", NoKey))
    BY <1>5 DEF Login
  <2>2. Loading(o, "login", NoKey) \in WebRow
    BY DEF Loading, WebRow
  <2>3. Loading(o, "login", NoKey).step = "org"
    BY DEF Loading
  <2>4. Relies(b)'
    BY <1>2, <2>1, <2>3, IdleRelies DEF Admitting
  <2>5. QED  BY <2>1, <2>2, <2>4
<1>6. CASE LoadOrg(b) /\ ~Leave(b)
  <2>1. web[b] \in WebRow
    BY <1>2, <1>6 DEF LoadOrg, On, WebTyped
  <2>2. PICK o \in Orgs, c \in {org[web[b].org].cert} : o = web[b].org /\ c = org[o].cert
    BY <2>1 DEF WebRow
  <2> DEFINE w == [web[b] EXCEPT !.step = "cert", !.cert = c]
  <2>3. Open(o) /\ Move(b, w)
    BY <1>6, <2>2 DEF LoadOrg
  <2>4. c \in Certs /\ cert[c] # Unborn
    BY <1>2, <2>2, <2>3 DEF Open, IsOrg, OrgTyped, OrgRow, NamesInserted
  <2>5. w \in WebRow /\ web'[b] = w
    BY <1>2, <2>1, <2>3, <2>4 DEF WebRow, WebTyped, Move
  <2>6. /\ web'[b].step = "cert" /\ web'[b].cert = c /\ web'[b].org = o
        /\ web'[b].goal = web[b].goal
    BY <2>1, <2>2, <2>5 DEF WebRow
  <2>7. org' = org /\ cert' = cert
    BY <1>1 DEF orgVars
  <2>8. ASSUME Usable(c, o)'
        PROVE  cert'[c].key \in recent'[o] /\ Ready(o)'
    <3>1. c \in Current(o)'
      BY <2>2, <2>3, <2>4, <2>7, <2>8 DEF Current, Usable, IsCert, Open, IsOrg
    <3>2. Ready(o)'
      BY <2>3, <2>7, <3>1 DEF Ready, Open, IsOrg
    <3>3. cert'[c].key \in CurrentKeys(o)'
      BY <3>1 DEF CurrentKeys
    <3>4. QED  BY <3>2, <3>3 DEF Grows
  <2>9. web[b].goal = "answer" /\ Ready(o)' => b \in met'
    <3>1. web'[b] # Out
      BY <1>6, <2>3, <2>5 DEF Leave, Move
    <3>2. web[b].goal = "answer" => Answering(b)'
      BY <2>6, <3>1 DEF Answering, On
    <3>3. Ready(o)' => MeetsReady(b)'
      BY <2>6 DEF MeetsReady
    <3>4. QED  BY <3>2, <3>3 DEF Grows
  <2>10. Relies(b)'
    BY <2>4, <2>6, <2>7, <2>8, <2>9 DEF Relies, Admitting
  <2>11. QED  BY <2>3, <2>5, <2>10
<1>7. CASE HandleAcs(b)
  <2>1. PICK o \in Orgs, p \in Orgs : Move(b, Loading(o, "answer", key[p]))
    BY <1>7 DEF HandleAcs
  <2> DEFINE w == Loading(o, "answer", key[p])
  <2>2. w \in WebRow /\ w.step = "org" /\ Move(b, w)
    BY <1>2, <2>1 DEF Loading, WebRow, OrgTyped
  <2>3. Relies(b)'
    BY <1>2, <2>2, IdleRelies DEF Admitting
  <2>4. QED  BY <2>2, <2>3
<1>8. ASSUME NEW s \in {"provision", "mint"}, web[b] # Out, web[b].step \in Admitting,
             Move(b, [web[b] EXCEPT !.step = s])
      PROVE  \E w \in WebRow \cup {Out} : Move(b, w) /\ Relies(b)'
  <2> DEFINE w == [web[b] EXCEPT !.step = s]
  <2>1. w \in WebRow /\ web'[b] = w /\ w.step = s /\ w.goal = web[b].goal
    BY <1>2, <1>8 DEF WebTyped, WebRow, Move
  <2>2. web[b].goal = "answer" /\ b \in met
    BY <1>2, <1>8 DEF Relies
  <2>3. web'[b] # Out => b \in met'
    BY <2>1, <2>2 DEF Grows, Answering, On
  <2>4. Relies(b)'
    BY <2>1, <2>2, <2>3 DEF Relies, Admitting
  <2>5. QED  BY <1>8, <2>1, <2>4
<1>9. CASE (Verify(b) \/ Provisioned(b)) /\ ~Leave(b)
  BY <1>8, <1>9 DEF Verify, Provisioned, On, Admitting
<1>10. CASE Establish(b)
  <2> DEFINE w == [web[b] EXCEPT !.step = "in"]
  <2>1. w \in WebRow /\ w.step = "in" /\ Move(b, w)
    BY <1>2, <1>10 DEF Establish, On, WebTyped, WebRow
  <2>2. Relies(b)'
    BY <1>2, <2>1, IdleRelies DEF Admitting
  <2>3. QED  BY <2>1, <2>2
<1>11. CASE Logout(b) /\ ~Leave(b)
  <2> DEFINE w == Loading(web[b].org, "logout", NoKey)
  <2>1. w \in WebRow /\ w.step = "org" /\ Move(b, w)
    BY <1>2, <1>11 DEF Logout, On, Loading, WebRow, WebTyped
  <2>2. Relies(b)'
    BY <1>2, <2>1, IdleRelies DEF Admitting
  <2>3. QED  BY <2>1, <2>2
<1>12. QED
  BY <1>4, <1>5, <1>6, <1>7, <1>9, <1>10, <1>11 DEF Abandon

(* So does the step that loads a certificate and builds the strategy.      *)
LEMMA LoadCertKeeps ==
  ASSUME IInv, CertsSettle, Grows, NEW b \in Browsers, LoadCert(b)
  PROVE  WebKeeps
<1>1. UNCHANGED orgVars /\ WebTyped /\ OrgTyped /\ Relies(b) /\ StrategyIsRecent
  BY DEF LoadCert, IInv, OrgInv
<1>2. web[b] # Out /\ web[b].step = "cert" /\ web[b] \in WebRow
  BY <1>1 DEF LoadCert, On, WebTyped
<1>3. PICK o \in Orgs, c \in Certs : o = web[b].org /\ c = web[b].cert
  BY <1>1, <1>2 DEF WebRow, Relies
<1>4. CASE Leave(b) /\ UNCHANGED strategy
  <2>1. Relies(b)'
    BY <1>1, <1>4, IdleRelies DEF Leave
  <2>2. QED
    BY <1>1, <1>4, <2>1, MoveKeeps, StrategyKeeps DEF WebKeeps, WebTyped, Leave
<1>5. CASE Usable(c, o) /\ After(b) /\ strategy' = Registered(o, cert[c].key)
  <2>1. cert[c].key \in Keys /\ cert[c].key \in recent[o]
    BY <1>1, <1>2, <1>3, <1>5 DEF Usable, IsCert, OrgTyped, CertRow, Relies
  <2>2. strategy' \in [Orgs -> Keys \cup {NoKey}]
    BY <1>1, <1>5, <2>1 DEF Registered, WebTyped
  <2>3. StrategyIsRecent'
    BY <1>1, <1>5, <2>1 DEF Registered, WebTyped, StrategyIsRecent, Grows
  <2>4. \E w \in WebRow \cup {Out} : Move(b, w) /\ Relies(b)'
    <3>1. CASE web[b].goal = "login"
      <4> DEFINE w == [web[b] EXCEPT !.step = "idp"]
      <4>1. w \in WebRow /\ w.step = "idp" /\ Move(b, w)
        BY <1>2, <1>5, <3>1 DEF After, WebRow
      <4>2. Relies(b)'
        BY <1>1, <4>1, IdleRelies DEF Admitting
      <4>3. QED  BY <4>1, <4>2
    <3>2. CASE web[b].goal = "answer"
      <4> DEFINE w == [web[b] EXCEPT !.step = "verify"]
      <4>1. w \in WebRow /\ w.step = "verify" /\ w.goal = "answer" /\ Move(b, w)
        BY <1>2, <1>5, <3>2 DEF After, WebRow
      <4>2. web'[b] = w
        BY <1>1, <4>1 DEF Move, WebTyped
      <4>3. b \in met
        BY <1>1, <1>2, <1>3, <1>5, <3>2 DEF Relies
      <4>4. web'[b] # Out => b \in met'
        BY <4>1, <4>2, <4>3 DEF Grows, Answering, On
      <4> HIDE DEF w
      <4>5. Relies(b)'
        BY <4>1, <4>2, <4>4 DEF Relies, Admitting
      <4>6. QED  BY <4>1, <4>5
    <3>3. CASE web[b].goal = "logout"
      <4>1. Leave(b)
        BY <1>5, <3>3 DEF After
      <4>2. QED  BY <1>1, <4>1, IdleRelies DEF Leave
    <3>4. QED  BY <1>2, <3>1, <3>2, <3>3 DEF WebRow
  <2>5. QED  BY <2>2, <2>3, <2>4, MoveKeeps DEF WebKeeps, WebTyped
<1>6. QED  BY <1>3, <1>4, <1>5 DEF LoadCert

(* IInv is kept by every step of the process, of administrators, of        *)
(* browsers, and by a restart.                                             *)
LEMMA IInvNext == IInv /\ [Next]_vars => IInv'
<1> SUFFICES ASSUME IInv, [Next]_vars PROVE IInv'
  OBVIOUS
<1>1. OrgInv /\ WebTyped
  BY DEF IInv
<1>2. CASE Run /\ recent' = [o \in Orgs |-> recent[o] \cup CurrentKeys(o)'] /\ Remember
  <2>1. Grows
    BY <1>2, RunGrows
  <2>2. CASE \/ OrgNext /\ UNCHANGED loginVars
             \/ \E o \in Orgs : ChangeKey(o) /\ UNCHANGED loginVars
    <3>1. OrgKeeps
      BY <1>1, <2>2, OrganizationsKeep
    <3>2. \A b \in Browsers : Relies(b)'
      BY <1>1, <2>1, <2>2, <3>1, StayingRelies DEF IInv, OrgKeeps, loginVars
    <3>3. QED
      BY <1>1, <2>1, <2>2, <3>1, <3>2, StrategyKeeps DEF IInv, OrgKeeps, loginVars, WebTyped
  <2>3. ASSUME NEW o \in Orgs, Unregister(o) PROVE IInv'
    <3>1. OrgKeeps
      BY <1>1, <2>3, OrganizationsKeep DEF Unregister
    <3>2. web' \in [Browsers -> WebRow \cup {Out}] /\ strategy' = strategy
      BY <1>1, <2>3 DEF Unregister, WebTyped
    <3>3. ASSUME NEW b \in Browsers PROVE Relies(b)'
      <4>1. CASE web'[b] = web[b]
        BY <1>1, <2>1, <3>1, <4>1, StayingRelies DEF IInv, OrgKeeps
      <4>2. CASE web'[b] = Out
        BY <4>2 DEF Relies
      <4>3. QED  BY <2>3, <4>1, <4>2 DEF Unregister
    <3>4. QED
      BY <1>1, <2>1, <3>1, <3>2, <3>3, StrategyKeeps DEF IInv, OrgKeeps, WebTyped
  <2>4. ASSUME NEW b \in Browsers,
               \/ \E o \in Orgs : Login(b, o)
               \/ LoadOrg(b) \/ LoadCert(b) \/ HandleAcs(b) \/ Verify(b) \/ Provisioned(b)
               \/ Establish(b) \/ Abandon(b) \/ Logout(b)
        PROVE  IInv'
    <3>1. UNCHANGED orgVars
      BY <2>4 DEF Login, LoadOrg, LoadCert, HandleAcs, Verify, Provisioned, Establish,
                  Abandon, Logout
    <3>2. OrgKeeps
      BY <1>1, <3>1, OrganizationsKeep
    <3>3. WebKeeps
      BY <2>1, <2>4, <3>2, BrowserKeeps, LoadCertKeeps DEF OrgKeeps
    <3>4. QED  BY <3>2, <3>3 DEF IInv, OrgKeeps, WebKeeps
  <2>5. QED  BY <1>2, <2>2, <2>3, <2>4 DEF Run
<1>3. CASE Restart
  <2>1. OrgKeeps
    BY <1>1, <1>3, OrganizationsKeep DEF Restart
  <2>2. WebTyped' /\ StrategyIsRecent'
    BY <1>1, <1>3 DEF Restart, WebTyped, StrategyIsRecent
  <2>3. ASSUME NEW b \in Browsers PROVE Relies(b)'
    <3>1. web'[b] = Out \/ web'[b].step \in {"idp", "in"}
      BY <1>3 DEF Restart, On
    <3>2. QED  BY <3>1 DEF Relies, Admitting
  <2>4. QED  BY <2>1, <2>2, <2>3 DEF IInv, OrgKeeps
<1>4. CASE UNCHANGED vars
  <2>1. OrgKeeps
    BY <1>1, <1>4, OrganizationsKeep DEF vars
  <2>2. \A b \in Browsers : Relies(b)'
    BY <1>4 DEF IInv, vars, orgVars, loginVars, Relies, Usable, IsCert
  <2>3. QED
    BY <1>1, <1>4, <2>1, <2>2 DEF IInv, vars, loginVars, OrgKeeps, WebTyped, StrategyIsRecent
<1>5. QED  BY <1>2, <1>3, <1>4 DEF Next

(* The process checks answers with a key that was current since it         *)
(* started, for any number of browsers, rotations and restarts.            *)
THEOREM StrategiesAreRecent == Spec => []StrategyIsRecent
<1>1. IInv => StrategyIsRecent
  BY DEF IInv
<1>2. QED  BY <1>1, IInvInit, IInvNext, PTL DEF Spec

(* Who is admitted has met the organization ready since the answer came.   *)
THEOREM AdmissionMetReady == Spec => []AdmittedWhileReady
<1>1. IInv => AdmittedWhileReady
  BY DEF IInv, AdmittedWhileReady, Relies, On, Admitting
<1>2. QED  BY <1>1, IInvInit, IInvNext, PTL DEF Spec

-----------------------------------------------------------------------------
(* What a row of organization o names was inserted, and for o.             *)
Own(o, row) ==
  row.cert # NoCert =>
    cert[row.cert] # Unborn /\ (IsCert(row.cert) => cert[row.cert].org = o)

(* Call r holds a copy of its organization's row.                          *)
Holds(r) == call[r] # NoCall /\ call[r].step # "drop" /\ call[r].row # Unborn

Works(r, o) == call[r] # NoCall /\ call[r].org = o

Inserted(r) == call[r].cert

(* Certificates go with their organization; what an organization or a copy *)
(* of it names is its own.                                                 *)
Owned ==
  /\ \A c \in Certs : IsCert(c) => IsOrg(cert[c].org)
  /\ \A o \in Orgs : IsOrg(o) => Own(o, org[o]) /\ Storable(o, org[o])
  /\ \A r \in Requests : Holds(r) => Own(call[r].org, call[r].row)

(* Only the call that inserted a certificate knows it until it is named.   *)
Fresh ==
  \A r \in Requests : Step(r, "point") =>
    /\ Inserted(r) \in Certs /\ cert[Inserted(r)] # Unborn
    /\ IsCert(Inserted(r)) => cert[Inserted(r)].org = call[r].org
    /\ \A o \in Orgs : IsOrg(o) => org[o].cert # Inserted(r)
    /\ \A q \in Requests : Holds(q) => call[q].row.cert # Inserted(r)
    /\ \A q \in Requests \ {r} : Step(q, "point") => Inserted(q) # Inserted(r)

(* A call that is no rotation is alone with its organization; what it is   *)
(* about to save names what the organization names.                        *)
Orderly(r) ==
  LET o == call[r].org IN
  /\ call[r].rotates \/ \A q \in Requests \ {r} : ~Works(q, o)
  /\ call[r].step \in {"save", "drop", "clear"} => ~call[r].rotates
  /\ call[r].step = "save" /\ IsOrg(o) => org[o].cert = call[r].row.cert
  /\ call[r].step = "clear" => call[r].row.cert = NoCert
  /\ call[r].step \in {"fetch", "apply", "applySave"} => call[r].sync
  /\ call[r].step = "point" /\ IsCert(Inserted(r)) => cert[Inserted(r)].active

(* Call r will give its organization another certificate, or none, in the  *)
(* place of the one it names, unless the organization is deleted.          *)
Replaces(r) ==
  \/ call[r].step \in {"insert", "clear"}
  \/ call[r].step \in {"rotate", "off"} /\ call[r].sync
  \/ call[r].step = "point" /\ IsCert(Inserted(r))
  \/ call[r].step = "drop" /\ call[r].cert = org[call[r].org].cert

Served(o) ==
  IsOrg(o) /\ org[o].cert # NoCert =>
    cert[org[o].cert].active \/ \E r \in Requests : Works(r, o) /\ Replaces(r)

Quiet(o) ==
  o \notin crossed => Served(o) /\ \A r \in Requests : Works(r, o) => Orderly(r)

CInv == OrgInv /\ Owned /\ Fresh /\ \A o \in Orgs : Quiet(o)

-----------------------------------------------------------------------------
(* What is in a call that goes on.                                         *)
LEMMA CallFields ==
  ASSUME OrgTyped, NEW r \in Requests, call[r] # NoCall
  PROVE  /\ call[r] \in CallRow /\ call[r].org \in Orgs /\ call[r].rotates \in BOOLEAN
         /\ call[r].cert \in Certs \cup {NoCert}
         /\ call[r].sync \in BOOLEAN
         /\ call[r].step \notin {"drop", "look", "enlist"} => call[r].row \in OrgRow
         /\ Holds(r) => call[r].row \in OrgRow
  BY OrganizationsAssumption DEF OrgTyped, CallRow, CallsAt, Holds

LEMMA AtFields ==
  ASSUME OrgTyped, NEW r \in Requests, call[r] # NoCall, NEW s
  PROVE  /\ At(r, s).step = s /\ At(r, s).org = call[r].org
         /\ At(r, s).rotates = call[r].rotates
         /\ At(r, s).row = call[r].row /\ At(r, s).cert = call[r].cert
         /\ At(r, s).sync = call[r].sync
  BY DEF OrgTyped, CallRow, CallsAt, At

WithRow(r, s, row) == [At(r, s) EXCEPT !.row = row]

LEMMA RowFields ==
  ASSUME OrgTyped, NEW r \in Requests, call[r] # NoCall,
         NEW s \in {"applySave", "insert", "off", "clear", "enlist"},
         NEW row \in OrgRow \cup {Unborn}
  PROVE  LET w == WithRow(r, s, row) IN
         /\ w.step = s /\ w.org = call[r].org /\ w.rotates = call[r].rotates
         /\ w.sync = call[r].sync
         /\ w.row = row /\ w.cert = call[r].cert /\ w # NoCall
<1>1. [At(r, s) EXCEPT !.row = row]
        \in CallRecord
  BY DEF OrgTyped, CallRow, CallsAt, At, CallRecord
<1>2. [At(r, s) EXCEPT !.row = row] # NoCall
  BY <1>1, OrganizationsAssumption
<1>3. QED  BY <1>2 DEF OrgTyped, CallRow, CallsAt, At, WithRow

(* A step of a call on o leaves what the others are about.                 *)
Near(o) ==
  /\ \A p \in Orgs : p # o => org'[p] = org[p]
  /\ \A c \in Certs : IsCert(c) /\ cert[c].org # o => cert'[c] = cert[c]
  /\ \A q \in Requests : \/ call'[q] = call[q]
                         \/ /\ call[q] = NoCall \/ call[q].org = o
                            /\ call'[q] = NoCall \/ call'[q].org = o
  /\ crossed \subseteq crossed'

LEMMA Elsewhere ==
  ASSUME CInv, OrgKeeps, NEW o \in Orgs, Near(o), NEW p \in Orgs, p # o
  PROVE  Quiet(p)'
<1> SUFFICES ASSUME p \notin crossed'
             PROVE  Served(p)' /\ \A r \in Requests : Works(r, p)' => Orderly(r)'
  BY DEF Quiet
<1>1. org'[p] = org[p] /\ Quiet(p) /\ p \notin crossed
  BY DEF Near, CInv
<1>2. ASSUME NEW r \in Requests, Works(r, p) \/ Works(r, p)'
      PROVE  call'[r] = call[r] /\ Works(r, p) /\ Works(r, p)'
  BY <1>2 DEF Near, Works
<1>3. ASSUME NEW r \in Requests, Works(r, p), call[r].step = "point"
      PROVE  /\ IsCert(Inserted(r))' <=> IsCert(Inserted(r))
             /\ IsCert(Inserted(r)) => cert'[Inserted(r)] = cert[Inserted(r)]
  <2>1. Inserted(r) \in Certs /\ cert[Inserted(r)] # Unborn
        /\ (IsCert(Inserted(r)) => cert[Inserted(r)].org = p)
    BY <1>3 DEF CInv, Fresh, Step, Works
  <2>2. call'[r] = call[r]
    BY <1>2, <1>3
  <2>3. QED  BY <2>1, <2>2 DEF Near, OrgKeeps, CertsSettle, IsCert, Inserted
<1>4. ASSUME NEW r \in Requests, Works(r, p)' PROVE Orderly(r)'
  <2>1. call'[r] = call[r] /\ Works(r, p) /\ Orderly(r)
    BY <1>1, <1>2, <1>4 DEF Quiet
  <2>2. \A q \in Requests : Works(q, p)' <=> Works(q, p)
    BY <1>2
  <2>3. QED  BY <1>1, <1>3, <2>1, <2>2 DEF Orderly, Works, IsOrg, Inserted
<1>5. Served(p)'
  <2> SUFFICES ASSUME IsOrg(p), org[p].cert # NoCert PROVE Served(p)'
    BY <1>1 DEF Served, IsOrg
  <2>1. org[p].cert \in Certs /\ IsCert(org[p].cert) /\ cert[org[p].cert].org = p
    BY DEF CInv, OrgInv, OrgTyped, OrgRow, Owned, Own, Storable, IsOrg
  <2>2. cert'[org[p].cert] = cert[org[p].cert]
    BY <2>1 DEF Near
  <2>3. ASSUME NEW r \in Requests, Works(r, p), Replaces(r)
        PROVE  Works(r, p)' /\ Replaces(r)'
    BY <1>1, <1>2, <1>3, <2>3 DEF Replaces, Works, Inserted
  <2>4. QED  BY <1>1, <2>2, <2>3 DEF Served, Quiet
<1>6. QED  BY <1>4, <1>5

(* A call goes on with w: what it knows of certificates it has read.       *)
Learns(r, w) ==
  \/ w = NoCall \/ w = call[r] \/ w.step = "drop" \/ (w.step # "point" /\ w.row = Unborn)
  \/ /\ w.step # "point"
     /\ \/ w.row.cert = NoCert
        \/ Holds(r) /\ w.org = call[r].org /\ w.row.cert = call[r].row.cert
        \/ w.org \in Orgs /\ IsOrg(w.org) /\ w.row.cert = org[w.org].cert

(* The row of o is the one before, or one that call r may store.           *)
Stores(r, o, w) ==
  \E row \in OrgRow :
    /\ org' = [org EXCEPT ![o] = row] /\ Storable(o, row)
    /\ \/ row.cert = NoCert
       \/ IsOrg(o) /\ row.cert = org[o].cert
       \/ Holds(r) /\ o = call[r].org /\ row.cert = call[r].row.cert
       \/ Step(r, "point") /\ w = NoCall /\ o = call[r].org /\ row.cert = Inserted(r)

(* Certificates stay, active or not.                                       *)
SameOwners ==
  \A c \in Certs : /\ (cert'[c] = Unborn) = (cert[c] = Unborn)
                   /\ IsCert(c)' = IsCert(c)
                   /\ IsCert(c) => cert'[c].org = cert[c].org

LEMMA KnowledgeKeeps ==
  ASSUME CInv, SameOwners, NEW r \in Requests, NEW o \in Orgs, NEW w,
         call' = [call EXCEPT ![r] = w], Learns(r, w), org' = org \/ Stores(r, o, w),
         OrgTyped'
  PROVE  Owned' /\ Fresh'
<1> USE OrganizationsAssumption
<1>1. /\ OrgTyped /\ Owned /\ Fresh
      /\ \A q \in Requests : call'[q] = IF q = r THEN w ELSE call[q]
  BY DEF CInv, OrgInv, OrgTyped
<1>2. \A q \in Requests : Holds(q)' => call'[q].row.cert \in Certs \cup {NoCert}
  BY <1>1 DEF OrgTyped, CallRow, CallsAt, OrgRow, Holds
<1>3. \A p \in Orgs : IsOrg(p) => IsOrg(p)'
  BY <1>1 DEF Stores, OrgTyped, IsOrg
<1>4. \A q \in Requests : Holds(q)' => Own(call[q].org, call[q].row)'
  <2> SUFFICES ASSUME NEW q \in Requests, Holds(q)' PROVE Own(call[q].org, call[q].row)'
    OBVIOUS
  <2>1. CASE q # r \/ w = call[r]
    BY <1>1, <1>2, <2>1 DEF SameOwners, Holds, Own, Owned
  <2>2. CASE q = r /\ w # call[r]
    <3>1. Own(w.org, w.row)
      BY <1>1, <2>2 DEF Learns, Holds, Own, Owned
    <3>2. QED  BY <1>1, <1>2, <2>2, <3>1 DEF SameOwners, Own
  <2>3. QED  BY <2>1, <2>2
<1>5. \A p \in Orgs : IsOrg(p)' => Own(p, org[p])' /\ Storable(p, org[p])'
  <2> SUFFICES ASSUME NEW p \in Orgs, IsOrg(p)'
               PROVE  Own(p, org[p])' /\ Storable(p, org[p])'
    OBVIOUS
  <2>1. org'[p] \in OrgRow
    BY DEF OrgTyped, IsOrg
  <2>2. Own(p, org'[p]) /\ Storable(p, org'[p])
    <3>1. CASE org' = org
      BY <1>1, <3>1 DEF Owned, IsOrg
    <3>2. CASE Stores(r, o, w)
      <4>1. CASE p # o
        BY <1>1, <3>2, <4>1 DEF Stores, Owned, IsOrg
      <4>2. CASE p = o
        BY <1>1, <3>2, <4>2 DEF Stores, Owned, OrgTyped, Own, Fresh, IsOrg
      <4>3. QED  BY <4>1, <4>2
    <3>3. QED  BY <3>1, <3>2
  <2>3. QED  BY <2>1, <2>2 DEF SameOwners, Own, Storable, OrgRow
<1>6. \A c \in Certs : IsCert(c)' => IsOrg(cert[c].org)'
  BY <1>1, <1>3 DEF SameOwners, Owned, OrgTyped, CertRow, IsCert
<1>7. Fresh'
  <2> SUFFICES ASSUME NEW q \in Requests, Step(q, "point")'
               PROVE  /\ Inserted(q)' \in Certs /\ cert'[Inserted(q)'] # Unborn
                      /\ IsCert(Inserted(q))' => cert'[Inserted(q)'].org = call'[q].org
                      /\ \A p \in Orgs : IsOrg(p)' => org'[p].cert # Inserted(q)'
                      /\ \A d \in Requests : Holds(d)' => call'[d].row.cert # Inserted(q)'
                      /\ \A d \in Requests \ {q} : Step(d, "point")' => Inserted(d)' # Inserted(q)'
    BY DEF Fresh, IsCert
  <2>1. Step(q, "point") /\ call'[q] = call[q] /\ (q = r => w = call[r])
    BY <1>1 DEF Step, Learns
  <2> DEFINE c == Inserted(q)
  <2>2. c \in Certs /\ c # NoCert /\ Inserted(q)' = c
    BY <1>1, <2>1 DEF Fresh, Inserted
  <2>3. cert'[c] # Unborn /\ (IsCert(c)' => cert'[c].org = call'[q].org)
    BY <1>1, <2>1, <2>2 DEF Fresh, SameOwners
  <2>4. \A p \in Orgs : IsOrg(p)' => org'[p].cert # c
    <3> SUFFICES ASSUME NEW p \in Orgs, IsOrg(p)' PROVE org'[p].cert # c
      OBVIOUS
    <3>1. CASE org'[p] = org[p]
      BY <1>1, <2>1, <3>1 DEF Fresh, IsOrg
    <3>2. CASE p = o /\ Stores(r, o, w)
      <4>1. PICK row \in OrgRow :
              /\ org' = [org EXCEPT ![o] = row]
              /\ \/ row.cert = NoCert
                 \/ IsOrg(o) /\ row.cert = org[o].cert
                 \/ Holds(r) /\ row.cert = call[r].row.cert
                 \/ Step(r, "point") /\ w = NoCall /\ row.cert = Inserted(r)
        BY <3>2 DEF Stores
      <4>2. row.cert # c
        BY <1>1, <2>1, <2>2, <4>1 DEF Fresh, Step
      <4>3. QED  BY <1>1, <3>2, <4>1, <4>2 DEF OrgTyped
    <3>3. QED  BY <1>1, <3>1, <3>2 DEF Stores, OrgTyped
  <2>5. \A d \in Requests : Holds(d)' => call'[d].row.cert # c
    <3> SUFFICES ASSUME NEW d \in Requests, Holds(d)' PROVE call'[d].row.cert # c
      OBVIOUS
    <3>1. CASE d # r \/ w = call[r]
      BY <1>1, <2>1, <3>1 DEF Fresh, Holds
    <3>2. CASE d = r /\ w # call[r]
      BY <1>1, <2>1, <2>2, <3>2 DEF Fresh, Holds, Learns
    <3>3. QED  BY <3>1, <3>2
  <2>6. \A d \in Requests \ {q} : Step(d, "point")' => Inserted(d)' # c
    BY <1>1, <2>1 DEF Fresh, Step, Learns, Inserted
  <2>7. QED  BY <2>2, <2>3, <2>4, <2>5, <2>6
<1>8. QED  BY <1>4, <1>5, <1>6, <1>7 DEF Owned

LEMMA Finish ==
  ASSUME CInv, OrgKeeps, SameOwners, NEW r \in Requests, NEW o \in Orgs, NEW w,
         call' = [call EXCEPT ![r] = w], Learns(r, w), org' = org \/ Stores(r, o, w),
         Near(o), Quiet(o)'
  PROVE  CInv'
<1>1. Owned' /\ Fresh'
  BY KnowledgeKeeps DEF OrgKeeps, OrgInv
<1>2. \A p \in Orgs : Quiet(p)'
  BY Elsewhere
<1>3. QED  BY <1>1, <1>2 DEF CInv, OrgKeeps

(* A call on o goes on with w, or ends, and the others are where they were. *)
LEMMA CallMoves ==
  ASSUME OrgTyped, NEW r \in Requests, NEW o \in Orgs, NEW w, Goto(r, w),
         call[r] = NoCall \/ call[r].org = o, w = NoCall \/ w.org = o,
         crossed \subseteq crossed',
         \A p \in Orgs : p # o => org'[p] = org[p],
         \A c \in Certs : IsCert(c) /\ cert[c].org # o => cert'[c] = cert[c]
  PROVE  /\ call' = [call EXCEPT ![r] = w] /\ Near(o)
         /\ \A q \in Requests : call'[q] = IF q = r THEN w ELSE call[q]
  BY DEF OrgTyped, Goto, Near

LEMMA SameKept ==
  ASSUME cert' = cert
  PROVE  SameOwners /\ \A c \in Certs : IsCert(c)' = IsCert(c)
  BY DEF SameOwners, IsCert

LEMMA OffKeeps ==
  ASSUME OrgTyped, NEW c, cert' = Off(c)
  PROVE  SameOwners /\ \A d \in Certs : d # c => cert'[d] = cert[d]
  BY OrganizationsAssumption DEF OrgTyped, SameOwners, Off, IsCert, CertRow

(* Who begins while another call is under way leaves a trace, unless both  *)
(* are rotations.                                                          *)
LEMMA BeginTraces ==
  ASSUME NEW r \in Requests, NEW o \in Orgs, NEW rotates \in BOOLEAN, Begin(r, o, rotates)
  PROVE  /\ call[r] = NoCall /\ crossed \subseteq crossed'
         /\ o \notin crossed' => \A q \in Requests : Works(q, o) => rotates /\ call[q].rotates
  BY DEF Begin, Works

(* A call that begins by reading leaves its organization in order.         *)
LEMMA BeginQuiet ==
  ASSUME CInv, OrgKeeps, NEW r \in Requests, NEW o \in Orgs,
         \/ Update(r, o) \/ SoftDelete(r, o) \/ Sync(r, o) \/ AddCertificate(r, o)
         \/ RegisterSaml(r, o)
  PROVE  CInv'
<1> USE OrganizationsAssumption
<1>1. ~RegisterSaml(r, o) => IsOrg(o) /\ org[o] \in OrgRow
  BY DEF CInv, OrgInv, Update, SoftDelete, Sync, AddCertificate, OrgTyped, IsOrg
<1>2. OrgTyped /\ UNCHANGED <<org, cert>> /\ Quiet(o)
  BY DEF CInv, OrgInv, Update, SoftDelete, Sync, AddCertificate, RegisterSaml
<1>3. ASSUME NEW rotates \in BOOLEAN, Begin(r, o, rotates), NEW w, Goto(r, w),
             w.org = o, w.rotates = rotates,
             w.row = Unborn \/ (IsOrg(o) /\ w.row.cert = org[o].cert),
             w.step \in {"save", "fetch", "rotate", "look"}, w.step = "save" => ~rotates /\ IsOrg(o),
             w.step = "save" => w.row.cert = org[o].cert, w.step = "fetch" => w.sync
      PROVE  CInv'
  <2>1. /\ call[r] = NoCall /\ crossed \subseteq crossed'
        /\ o \notin crossed' => \A q \in Requests : Works(q, o) => rotates /\ call[q].rotates
    BY <1>3, BeginTraces
  <2>2. /\ call' = [call EXCEPT ![r] = w] /\ Near(o)
        /\ \A q \in Requests : call'[q] = IF q = r THEN w ELSE call[q]
    BY <1>2, <1>3, <2>1, CallMoves
  <2>3. Learns(r, w)
    BY <1>2, <1>3 DEF Learns
  <2>4. ASSUME o \notin crossed' PROVE Served(o)' /\ \A q \in Requests : Works(q, o)' => Orderly(q)'
    <3>1. /\ Served(o)
          /\ \A q \in Requests : Works(q, o) => Orderly(q) /\ rotates /\ call[q].rotates
      BY <1>2, <2>1, <2>4 DEF Quiet
    <3>2. ASSUME NEW q \in Requests, Works(q, o)' PROVE Orderly(q)'
      <4>1. CASE q = r
        BY <1>2, <1>3, <2>1, <2>2, <3>1, <4>1 DEF Orderly, Works
      <4>2. CASE q # r
        <5>1. call'[q] = call[q] /\ Works(q, o) /\ Orderly(q) /\ call[q].rotates
          BY <2>2, <3>1, <3>2, <4>2 DEF Works
        <5>2. QED  BY <1>2, <5>1 DEF Orderly, IsOrg, IsCert, Inserted, Works
      <4>3. QED  BY <4>1, <4>2
    <3>3. Served(o)'
      <4>1. ASSUME NEW q \in Requests, Works(q, o), Replaces(q)
            PROVE  Works(q, o)' /\ Replaces(q)'
        BY <1>2, <2>1, <2>2, <4>1 DEF Works, Replaces, IsCert, Inserted
      <4>2. QED  BY <1>2, <3>1, <4>1 DEF Served, IsOrg
    <3>4. QED  BY <3>2, <3>3
  <2>5. Quiet(o)'
    BY <2>4 DEF Quiet
  <2>6. QED  BY <1>2, <2>2, <2>3, <2>5, SameKept, Finish
<1>4. CASE Update(r, o)
  <2>0. IsOrg(o) /\ org[o] \in OrgRow
    BY <1>2, <1>4 DEF Update, OrgTyped, IsOrg
  <2>1. PICK change \in Changes(org[o]) :
          Goto(r, Calling("save", o, FALSE, change[1], NoKey, NoCert, change[2]))
    BY <1>4 DEF Update
  <2>2. change[1].cert = org[o].cert
    <3>1. /\ [org[o] EXCEPT !.active = ~@].cert = org[o].cert
          /\ [org[o] EXCEPT !.url = ~@].cert = org[o].cert
          /\ [org[o] EXCEPT !.metadata = FALSE].cert = org[o].cert
          /\ [org[o] EXCEPT !.metadata = TRUE].cert = org[o].cert
      BY <2>0 DEF OrgRow
    <3>2. PICK row, sync : change = <<row, sync>> /\ row.cert = org[o].cert
      BY <3>1 DEF Changes
    <3>3. QED  BY <3>2
  <2> DEFINE w == Calling("save", o, FALSE, change[1], NoKey, NoCert, change[2])
  <2>3. w.org = o /\ w.rotates = FALSE /\ w.row.cert = org[o].cert /\ w.step = "save"
    BY <2>2 DEF Calling
  <2>4. Begin(r, o, FALSE) /\ Goto(r, w)
    BY <1>4, <2>1 DEF Update
  <2> HIDE DEF w
  <2>5. QED  BY <1>3, <2>0, <2>3, <2>4
<1>5. CASE SoftDelete(r, o)
  <2> DEFINE w == Calling("save", o, FALSE, [org[o] EXCEPT !.active = FALSE], NoKey, NoCert, FALSE)
  <2>0. IsOrg(o) /\ org[o] \in OrgRow
    BY <1>2, <1>5 DEF SoftDelete, OrgTyped, IsOrg
  <2>1. w.org = o /\ w.rotates = FALSE /\ w.row.cert = org[o].cert /\ w.step = "save"
    BY <2>0 DEF Calling, OrgRow
  <2>2. Begin(r, o, FALSE) /\ Goto(r, w)
    BY <1>5 DEF SoftDelete
  <2> HIDE DEF w
  <2>3. QED  BY <1>3, <2>0, <2>1, <2>2
<1>6. CASE Sync(r, o)
  <2> DEFINE w == Calling("fetch", o, TRUE, org[o], NoKey, NoCert, TRUE)
  <2>1. /\ w.org = o /\ w.rotates = TRUE /\ w.row.cert = org[o].cert /\ w.step = "fetch"
        /\ w.sync
    BY DEF Calling
  <2>2. Begin(r, o, TRUE) /\ Goto(r, w) /\ IsOrg(o)
    BY <1>6 DEF Sync
  <2> HIDE DEF w
  <2>3. QED  BY <1>3, <2>1, <2>2
<1>7. CASE AddCertificate(r, o)
  <2>1. PICK k \in Keys : Goto(r, Calling("rotate", o, TRUE, org[o], k, NoCert, FALSE))
    BY <1>7 DEF AddCertificate
  <2> DEFINE w == Calling("rotate", o, TRUE, org[o], k, NoCert, FALSE)
  <2>2. w.org = o /\ w.rotates = TRUE /\ w.row.cert = org[o].cert /\ w.step = "rotate"
    BY DEF Calling
  <2>3. Begin(r, o, TRUE) /\ Goto(r, w) /\ IsOrg(o)
    BY <1>7, <2>1 DEF AddCertificate
  <2> HIDE DEF w
  <2>4. QED  BY <1>3, <2>2, <2>3
<1>8. CASE RegisterSaml(r, o)
  <2> DEFINE w == Calling("look", o, TRUE, Unborn, key[o], NoCert, FALSE)
  <2>1. w.org = o /\ w.rotates = TRUE /\ w.row = Unborn /\ w.step = "look"
    BY DEF Calling
  <2>2. Begin(r, o, TRUE) /\ Goto(r, w)
    BY <1>8 DEF RegisterSaml
  <2> HIDE DEF w
  <2>3. QED  BY <1>3, <2>1, <2>2
<1>9. QED  BY <1>4, <1>5, <1>6, <1>7, <1>8

(* A call that goes on leaves the others with its organization in order.   *)
LEMMA OthersOrderly ==
  ASSUME CInv, NEW r \in Requests, NEW o \in Orgs, Works(r, o), o \notin crossed, NEW w,
         \A q \in Requests : call'[q] = IF q = r THEN w ELSE call[q],
         w = NoCall \/ (w.org = o /\ w.rotates = call[r].rotates),
         \A q \in Requests \ {r} :
           Step(q, "point") /\ Works(q, o) => cert'[Inserted(q)] = cert[Inserted(q)]
  PROVE  /\ \A q \in Requests \ {r} : Works(q, o)' => Orderly(q)'
         /\ w.rotates \/ w = NoCall \/ \A q \in Requests \ {r} : ~Works(q, o)'
<1>1. Orderly(r) /\ call[r].org = o
  BY DEF CInv, Quiet, Works
<1>2. ASSUME NEW q \in Requests \ {r}, Works(q, o)' PROVE Orderly(q)'
  <2>1. call'[q] = call[q] /\ Works(q, o) /\ Orderly(q)
    BY <1>2 DEF Works, CInv, Quiet
  <2>2. call[q].rotates /\ call[q].step \notin {"save", "drop", "clear"}
    BY <2>1 DEF Orderly, Works
  <2>3. call[q].step = "point" /\ IsCert(Inserted(q))' => cert'[Inserted(q)].active
    BY <2>1 DEF Orderly, Works, Step, IsCert, Inserted
  <2>4. QED  BY <2>1, <2>2, <2>3 DEF Orderly, Inserted
<1>3. w.rotates \/ w = NoCall \/ \A q \in Requests \ {r} : ~Works(q, o)'
  BY <1>1 DEF Orderly, Works
<1>4. QED  BY <1>2, <1>3

(* A call that looks, or is cut short, keeps the order.                    *)
LEMMA LookKeeps ==
  ASSUME CInv, OrgKeeps, NEW r \in Requests, NEW o \in Orgs, Works(r, o),
         UNCHANGED <<org, cert>>, crossed \subseteq crossed', NEW w, Goto(r, w), Learns(r, w),
         \/ w = NoCall
         \/ /\ w.org = o /\ w.rotates = call[r].rotates /\ w.sync = call[r].sync
            /\ w.step \notin {"save", "drop", "point"}
            /\ w.step \in {"fetch", "apply", "applySave"} => call[r].step \in {"fetch", "apply"}
            /\ w.step = "off" => call[r].step = "rotate"
            /\ w.step = "clear" => (~w.rotates \/ o \in crossed) /\ w.row.cert = NoCert,
         \/ o \in crossed' \/ ~Replaces(r) \/ ~IsOrg(o)
         \/ call[r].step = "drop" /\ call[r].cert # org[o].cert
         \/ w # NoCall /\ w.step \in {"off", "insert", "clear"}
  PROVE  CInv'
<1>1. OrgTyped /\ Quiet(o) /\ call[r].org = o
  BY DEF CInv, OrgInv, Works
<1>2. /\ call' = [call EXCEPT ![r] = w] /\ Near(o)
      /\ \A q \in Requests : call'[q] = IF q = r THEN w ELSE call[q]
  BY <1>1, CallMoves
<1>3. ASSUME o \notin crossed' PROVE Served(o)' /\ \A q \in Requests : Works(q, o)' => Orderly(q)'
  <2>1. o \notin crossed
    BY <1>3
  <2>2. /\ \A q \in Requests \ {r} : Works(q, o)' => Orderly(q)'
        /\ w.rotates \/ w = NoCall \/ \A q \in Requests \ {r} : ~Works(q, o)'
    BY <1>2, <2>1, OthersOrderly
  <2>3. Works(r, o)' => Orderly(r)'
    BY <1>1, <1>2, <2>1, <2>2 DEF Works, Quiet, Orderly
  <2>4. Served(o)'
    <3>1. ASSUME NEW q \in Requests, Works(q, o), Replaces(q), IsOrg(o)
          PROVE  \E d \in Requests : Works(d, o)' /\ Replaces(d)'
      <4>1. CASE q # r
        BY <1>2, <3>1, <4>1 DEF Works, Replaces, IsCert, Inserted
      <4>2. CASE q = r
        <5>1. w # NoCall /\ w.step \in {"off", "insert", "clear"}
          BY <1>1, <1>3, <3>1, <4>2 DEF Replaces
        <5>2. w.step = "off" => w.sync
          BY <3>1, <4>2, <5>1 DEF Replaces
        <5>3. QED  BY <1>2, <5>1, <5>2 DEF Works, Replaces
      <4>3. QED  BY <4>1, <4>2
    <3>2. QED  BY <1>1, <2>1, <3>1 DEF Served, Quiet, IsOrg
  <2>5. QED  BY <2>2, <2>3, <2>4
<1>4. QED  BY <1>2, <1>3, SameKept, Finish DEF Quiet

LEMMA LooksKeep ==
  ASSUME CInv, OrgKeeps, NEW r \in Requests,
         \/ Fetch(r) \/ ApplyRead(r) \/ RotateRead(r) \/ RevokeRead(r) \/ RegisterLook(r)
         \/ FailCall(r)
  PROVE  CInv'
<1> USE OrganizationsAssumption
<1> DEFINE o == call[r].org
<1>1. /\ UNCHANGED <<org, cert>> /\ crossed \subseteq crossed'
      /\ OrgTyped /\ o \in Orgs /\ Works(r, o) /\ call[r] # NoCall
      /\ IsOrg(o) => org[o] \in OrgRow
  BY CallFields DEF Fetch, ApplyRead, RotateRead, RevokeRead, RegisterLook, FailCall, Step,
                    CInv, OrgInv, Works, OrgTyped, IsOrg
<1>2. CASE /\ End(r)
           /\ \/ o \in crossed' \/ ~Replaces(r) \/ ~IsOrg(o)
              \/ call[r].step = "drop" /\ call[r].cert # org[o].cert
  BY <1>1, <1>2, LookKeeps DEF End, Learns
<1>3. CASE Fetch(r) /\ ~End(r)
  <2> DEFINE w == [At(r, "apply") EXCEPT !.key = key[o]]
  <2>1. Goto(r, w) /\ ~Replaces(r) /\ Holds(r) /\ call[r].step = "fetch"
    BY <1>1, <1>3, CallFields DEF Fetch, Replaces, Step, Holds
  <2>2. /\ w.org = o /\ w.rotates = call[r].rotates /\ w.step = "apply" /\ w.row = call[r].row
        /\ w.sync = call[r].sync
    BY <1>1 DEF OrgTyped, CallRow, CallsAt, At
  <2> HIDE DEF w
  <2>3. QED  BY <1>1, <2>1, <2>2, LookKeeps DEF Learns
<1>4. CASE ApplyRead(r) /\ ~End(r)
  <2> DEFINE row == [org[o] EXCEPT !.url = TRUE, !.metadata = TRUE, !.method = "saml"]
             w == WithRow(r, "applySave", row)
  <2>1. Goto(r, w) /\ IsOrg(o) /\ ~Replaces(r) /\ call[r].step = "apply"
    BY <1>1, <1>4 DEF ApplyRead, Replaces, Step, WithRow
  <2>2. row.cert = org[o].cert /\ row \in OrgRow
    BY <1>1, <2>1 DEF OrgRow
  <2> HIDE DEF row
  <2>3. /\ w.org = o /\ w.rotates = call[r].rotates /\ w.step = "applySave" /\ w.row = row
        /\ w.sync = call[r].sync
    BY <1>1, <2>2, RowFields
  <2> HIDE DEF w
  <2>4. QED  BY <1>1, <2>1, <2>2, <2>3, LookKeeps DEF Learns
<1>5. CASE RotateRead(r) /\ IsOrg(o)
  <2>1. PICK s \in {"insert", "off"} : Goto(r, WithRow(r, s, org[o]))
    BY <1>1, <1>5 DEF RotateRead, WithRow
  <2> DEFINE w == WithRow(r, s, org[o])
  <2>2. /\ w.org = o /\ w.rotates = call[r].rotates /\ w.step = s /\ w.row = org[o]
        /\ w.sync = call[r].sync /\ w # NoCall
    BY <1>1, <1>5, RowFields
  <2>3. Goto(r, w) /\ call[r].step = "rotate"
    BY <1>5, <2>1 DEF RotateRead, Step
  <2> HIDE DEF w
  <2>4. QED  BY <1>1, <1>5, <2>2, <2>3, LookKeeps DEF Learns
<1>6. CASE RevokeRead(r) /\ IsOrg(o) /\ org[o].cert = call[r].cert
  <2> DEFINE row == [org[o] EXCEPT !.cert = NoCert]
             w == WithRow(r, "clear", row)
  <2>1. Goto(r, w)
    BY <1>1, <1>6 DEF RevokeRead, Names, WithRow
  <2>2. row.cert = NoCert /\ row \in OrgRow
    BY <1>1, <1>6 DEF OrgRow
  <2> HIDE DEF row
  <2>3. /\ w.org = o /\ w.rotates = call[r].rotates /\ w.step = "clear" /\ w.row = row
        /\ w.sync = call[r].sync /\ w # NoCall
    BY <1>1, <2>2, RowFields
  <2>4. ~call[r].rotates \/ o \in crossed
    BY <1>1, <1>6 DEF RevokeRead, Step, CInv, Quiet, Orderly
  <2> HIDE DEF w
  <2>5. QED  BY <1>1, <1>6, <2>1, <2>2, <2>3, <2>4, LookKeeps DEF Learns
<1>7. CASE Fetch(r) \/ ApplyRead(r)
  BY <1>2, <1>3, <1>4, <1>7 DEF Fetch, ApplyRead, Step, Replaces
<1>8. CASE RotateRead(r)
  BY <1>2, <1>5, <1>8 DEF RotateRead
<1>9. CASE RevokeRead(r)
  BY <1>2, <1>6, <1>9 DEF RevokeRead, Names, Step
<1>10. CASE FailCall(r)
  BY <1>1, <1>2, <1>10 DEF FailCall, HalfDone, Replaces
<1>11. CASE RegisterLook(r)
  <2>1. CASE End(r)
    BY <1>2, <1>11, <2>1 DEF RegisterLook, Step, Replaces
  <2>2. CASE org[o] # Gone /\ Goto(r, WithRow(r, "enlist", org[o]))
    <3> DEFINE w == WithRow(r, "enlist", org[o])
    <3>1. org[o] \in OrgRow \cup {Unborn} /\ (org[o] # Unborn => IsOrg(o))
      BY <1>1, <2>2 DEF OrgTyped, IsOrg
    <3>2. /\ w.org = o /\ w.rotates = call[r].rotates /\ w.step = "enlist" /\ w.row = org[o]
          /\ w.sync = call[r].sync /\ w # NoCall
      BY <1>1, <3>1, RowFields
    <3>3. Goto(r, w) /\ ~Replaces(r)
      BY <1>11, <2>2 DEF RegisterLook, Step, Replaces
    <3> HIDE DEF w
    <3>4. QED  BY <1>1, <3>1, <3>2, <3>3, LookKeeps DEF Learns
  <2>3. QED  BY <1>11, <2>1, <2>2 DEF RegisterLook, WithRow
<1>12. QED  BY <1>7, <1>8, <1>9, <1>10, <1>11

(* A call that writes and goes on to a step of a rotation, or ends, keeps  *)
(* the order if its organization stays served.                             *)
LEMMA WriteKeeps ==
  ASSUME CInv, OrgKeeps, SameOwners, NEW r \in Requests, NEW o \in Orgs, Works(r, o),
         crossed' = crossed, NEW w, Goto(r, w), Learns(r, w), org' = org \/ Stores(r, o, w),
         \A p \in Orgs : p # o => org'[p] = org[p],
         \A c \in Certs : IsCert(c) /\ cert[c].org # o => cert'[c] = cert[c],
         \A q \in Requests \ {r} :
           Step(q, "point") /\ Works(q, o) => cert'[Inserted(q)] = cert[Inserted(q)],
         \/ w = NoCall
         \/ /\ w.org = o /\ w.rotates = call[r].rotates
            /\ w.step \notin {"save", "drop", "clear", "point"}
            /\ w.step \in {"fetch", "apply", "applySave"} => w.sync,
         o \notin crossed => Served(o)'
  PROVE  CInv'
<1>1. OrgTyped /\ Quiet(o) /\ call[r].org = o
  BY DEF CInv, OrgInv, Works
<1>2. /\ call' = [call EXCEPT ![r] = w] /\ Near(o)
      /\ \A q \in Requests : call'[q] = IF q = r THEN w ELSE call[q]
  BY <1>1, CallMoves
<1>3. ASSUME o \notin crossed PROVE \A q \in Requests : Works(q, o)' => Orderly(q)'
  <2>1. /\ \A q \in Requests \ {r} : Works(q, o)' => Orderly(q)'
        /\ w.rotates \/ w = NoCall \/ \A q \in Requests \ {r} : ~Works(q, o)'
    BY <1>2, <1>3, OthersOrderly
  <2>2. Works(r, o)' => Orderly(r)'
    BY <1>2, <2>1 DEF Works, Orderly
  <2>3. QED  BY <2>1, <2>2
<1>4. QED  BY <1>2, <1>3, Finish DEF Quiet

(* What a call saves is stored, or nothing is.                             *)
LEMMA StoreOrNot ==
  ASSUME OrgTyped, NEW o \in Orgs, NEW row \in OrgRow, Store(o, row), cert' = cert
  PROVE  /\ \A p \in Orgs : p # o => org'[p] = org[p]
         /\ \A c \in Certs : IsCert(c)' = IsCert(c)
         /\ \/ Storable(o, row) /\ org' = [org EXCEPT ![o] = row] /\ org'[o] = row
            \/ ~Storable(o, row) /\ org' = org
  BY DEF OrgTyped, Store, IsCert

LEMMA StoresKeep ==
  ASSUME CInv, OrgKeeps, NEW r \in Requests,
         Save(r) \/ ApplySave(r) \/ Point(r) \/ RevokeSave(r)
  PROVE  CInv'
<1> USE OrganizationsAssumption
<1>1. PICK o \in Orgs, row \in OrgRow : o = call[r].org /\ row = call[r].row
  BY CallFields DEF Save, ApplySave, Point, RevokeSave, Step, CInv, OrgInv
<1>2. /\ o = call[r].org /\ row = call[r].row /\ cert' = cert /\ crossed' = crossed
      /\ OrgTyped /\ o \in Orgs /\ Works(r, o) /\ call[r] # NoCall /\ Holds(r) /\ row \in OrgRow
      /\ Quiet(o) /\ Owned /\ Fresh
  BY <1>1, OrganizationsAssumption DEF Save, ApplySave, Point, RevokeSave, Step, CInv, OrgInv, Works, Holds
<1>3. /\ At(r, "fetch").step = "fetch" /\ At(r, "fetch").row = row
      /\ At(r, "fetch").org = o /\ At(r, "fetch").rotates = call[r].rotates
      /\ At(r, "fetch").sync = call[r].sync
  BY <1>2, AtFields
<1>4. /\ At(r, "rotate").step = "rotate" /\ At(r, "rotate").row = row
      /\ At(r, "rotate").org = o /\ At(r, "rotate").rotates = call[r].rotates
      /\ At(r, "rotate").sync = call[r].sync /\ At(r, "rotate") # NoCall
  <2>1. At(r, "rotate") \in CallRecord
    BY <1>2 DEF At, OrgTyped, CallRow, CallsAt, CallRecord
  <2>2. QED  BY <1>2, <2>1, AtFields
<1>5. ASSUME NEW w, Goto(r, w), Store(o, row),
             \/ w = NoCall
             \/ /\ w.step \in {"fetch", "rotate"} /\ w.org = o /\ w.row = row
                /\ w.rotates = call[r].rotates /\ (w.step = "fetch" => w.sync),
             o \notin crossed => Served(o)'
      PROVE  CInv'
  <2>1. /\ \A p \in Orgs : p # o => org'[p] = org[p]
        /\ org' = org \/ Stores(r, o, w)
    BY <1>2, <1>5, StoreOrNot DEF Stores
  <2>2. Learns(r, w)
    BY <1>2, <1>5 DEF Learns
  <2>3. QED  BY <1>2, <1>5, <2>1, <2>2, SameKept, WriteKeeps
<1>6. CASE Save(r)
  <2>1. PICK w \in {NoCall, At(r, "fetch")} : Goto(r, w) /\ (call[r].sync \/ w = NoCall)
    BY <1>6 DEF Save, End
  <2>2. Store(o, row) /\ call[r].step = "save"
    BY <1>2, <1>6 DEF Save, Step
  <2>3. ASSUME o \notin crossed PROVE Served(o)'
    <3>1. /\ Served(o) /\ ~Replaces(r) /\ \A q \in Requests \ {r} : ~Works(q, o)
          /\ IsOrg(o) => row.cert = org[o].cert
      BY <1>2, <2>2, <2>3 DEF Quiet, Orderly, Replaces
    <3>2. Own(o, row) /\ (IsOrg(o) => Storable(o, org[o]))
      BY <1>2 DEF Owned
    <3>3. CASE Storable(o, row) /\ org'[o] = row
      <4>1. SUFFICES ASSUME row.cert # NoCert PROVE cert[row.cert].active
        BY <1>2, <3>3 DEF Served
      <4>2. IsOrg(o)
        BY <1>2, <3>2, <3>3, <4>1 DEF Storable, Own, Owned, OrgRow
      <4>3. QED  BY <3>1, <4>1, <4>2 DEF Served
    <3>4. CASE ~Storable(o, row) /\ org' = org
      BY <3>1, <3>2, <3>4 DEF Served, IsOrg, Storable
    <3>5. QED  BY <1>2, <2>2, <3>3, <3>4, StoreOrNot
  <2>4. QED  BY <1>3, <1>5, <2>1, <2>2, <2>3
<1>7. CASE ApplySave(r)
  <2>1. PICK w \in {NoCall, At(r, "rotate")} :
          Goto(r, w) /\ (Storable(o, row) => w = At(r, "rotate"))
    BY <1>2, <1>7 DEF ApplySave, End
  <2>2. Store(o, row) /\ ~Replaces(r)
    BY <1>2, <1>7 DEF ApplySave, Step, Replaces
  <2>3. call'[r] = w /\ \A q \in Requests : q # r => call'[q] = call[q]
    BY <1>2, <2>1 DEF Goto, OrgTyped
  <2>4. ASSUME o \notin crossed PROVE Served(o)'
    <3>1. CASE Storable(o, row)
      <4>1. call[r].sync
        BY <1>2, <1>7, <2>4 DEF ApplySave, Step, Quiet, Orderly
      <4>2. QED  BY <1>4, <2>1, <2>3, <3>1, <4>1 DEF Served, Works, Replaces
    <3>2. CASE ~Storable(o, row) /\ org' = org
      <4>1. ASSUME NEW q \in Requests, Works(q, o), Replaces(q)
            PROVE  Works(q, o)' /\ Replaces(q)'
        BY <1>2, <2>2, <2>3, <3>2, <4>1 DEF Works, Replaces, Inserted, IsCert
      <4>2. QED  BY <1>2, <2>4, <3>2, <4>1 DEF Served, Quiet, IsOrg
    <3>3. QED  BY <1>2, <2>2, <3>1, <3>2, StoreOrNot
  <2>5. QED  BY <1>4, <1>5, <2>1, <2>2, <2>4
<1>8. CASE RevokeSave(r)
  <2>1. Goto(r, NoCall) /\ Store(o, row) /\ call[r].step = "clear"
    BY <1>2, <1>8 DEF RevokeSave, End, Step
  <2>2. ASSUME o \notin crossed PROVE Served(o)'
    <3>1. row.cert = NoCert
      BY <1>2, <2>1, <2>2 DEF Quiet, Orderly
    <3>2. QED  BY <1>2, <2>1, <3>1, StoreOrNot DEF Served, Storable
  <2>3. QED  BY <1>5, <2>1, <2>2
<1>9. CASE Point(r)
  <2>0. PICK c \in Certs : c = Inserted(r)
    BY <1>2, <1>9 DEF Point, Fresh
  <2> DEFINE new == [row EXCEPT !.cert = c]
  <2>1. Goto(r, NoCall) /\ Store(o, new) /\ call[r].step = "point"
    BY <1>2, <1>9, <2>0 DEF Point, End, Step, Inserted
  <2>2. c \in Certs /\ c = Inserted(r) /\ Step(r, "point")
    BY <1>9, <2>0 DEF Point
  <2>3. new \in OrgRow /\ new.cert = c
    BY <1>2, <2>2 DEF OrgRow
  <2> HIDE DEF new
  <2>4. /\ \A p \in Orgs : p # o => org'[p] = org[p]
        /\ org' = org \/ Stores(r, o, NoCall)
    BY <1>2, <2>1, <2>2, <2>3, StoreOrNot DEF Stores
  <2>5. \A q \in Requests : call'[q] = IF q = r THEN NoCall ELSE call[q]
    BY <1>2, <2>1 DEF Goto, OrgTyped
  <2>6. ASSUME o \notin crossed PROVE Served(o)'
    <3>1. CASE Storable(o, new) /\ org'[o] = new
      BY <1>2, <2>1, <2>2, <2>3, <2>6, <3>1 DEF Storable, Quiet, Orderly, Served
    <3>2. CASE ~Storable(o, new) /\ org' = org
      <4>1. ~Replaces(r)
        BY <2>1, <2>2, <2>3, <3>2 DEF Replaces, Storable
      <4>2. ASSUME NEW q \in Requests, Works(q, o), Replaces(q)
            PROVE  Works(q, o)' /\ Replaces(q)'
        BY <1>2, <2>5, <3>2, <4>1, <4>2 DEF Works, Replaces, Inserted, IsCert
      <4>3. QED  BY <1>2, <2>6, <3>2, <4>2 DEF Served, Quiet, IsOrg
    <3>3. QED  BY <1>2, <2>1, <2>3, <3>1, <3>2, StoreOrNot
  <2>7. QED  BY <1>2, <2>1, <2>4, <2>6, SameKept, WriteKeeps DEF Learns
<1>10. QED  BY <1>6, <1>7, <1>8, <1>9

(* A rotation deactivates what its organization named when it was read.    *)
LEMMA DeactivateKeeps ==
  ASSUME CInv, OrgKeeps, NEW r \in Requests, Deactivate(r)
  PROVE  CInv'
<1> USE OrganizationsAssumption
<1>1. PICK o \in Orgs, row \in OrgRow : o = call[r].org /\ row = call[r].row
  BY CallFields DEF Deactivate, Step, CInv, OrgInv
<1> DEFINE w == At(r, "insert")
<1>2. /\ OrgTyped /\ Owned /\ Fresh /\ Works(r, o) /\ Holds(r) /\ call[r] # NoCall
      /\ cert' = Off(row.cert) /\ Goto(r, w) /\ UNCHANGED <<org, crossed>>
  BY <1>1 DEF Deactivate, Step, CInv, OrgInv, Works, Holds
<1>3. w.step = "insert" /\ w.org = o /\ w.rotates = call[r].rotates /\ w.row = row
  BY <1>1, <1>2, AtFields
<1>4. w # NoCall
  <2>1. w \in CallRecord
    BY <1>2 DEF At, OrgTyped, CallRow, CallsAt, CallRecord
  <2>2. QED  BY <2>1
<1> HIDE DEF w
<1>5. SameOwners /\ \A d \in Certs : d # row.cert => cert'[d] = cert[d]
  BY <1>2, OffKeeps
<1>6. \A c \in Certs : IsCert(c) /\ cert[c].org # o => cert'[c] = cert[c]
  BY <1>1, <1>2, <1>5 DEF Owned, Own
<1>7. \A q \in Requests \ {r} :
        Step(q, "point") /\ Works(q, o) => cert'[Inserted(q)] = cert[Inserted(q)]
  BY <1>1, <1>2, <1>5 DEF Fresh
<1>8. Served(o)'
  BY <1>2, <1>3, <1>4 DEF Served, Works, Replaces, Goto, OrgTyped
<1>9. Learns(r, w)
  BY <1>1, <1>2, <1>3 DEF Learns
<1>10. QED  BY <1>2, <1>3, <1>5, <1>6, <1>7, <1>8, <1>9, WriteKeeps

(* A revocation deactivates a certificate while it is alone, or leaves a   *)
(* trace.                                                                  *)
LEMMA RevokeQuiet ==
  ASSUME CInv, OrgKeeps, NEW r \in Requests, NEW c \in Certs, Revoke(r, c)
  PROVE  CInv'
<1> USE OrganizationsAssumption
<1>1. PICK o \in Orgs : o = cert[c].org
  BY DEF Revoke, CInv, OrgInv, OrgTyped, IsCert, CertRow
<1>2. PICK w : w = Calling("drop", o, FALSE, org[o], NoKey, c, FALSE)
  OBVIOUS
<1>3. w.step = "drop" /\ w.org = o /\ w.rotates = FALSE /\ w.cert = c
  BY <1>2 DEF Calling
<1>4. /\ OrgTyped /\ Owned /\ Quiet(o) /\ IsCert(c) /\ Begin(r, o, FALSE)
      /\ cert' = Off(c) /\ Goto(r, w) /\ org' = org
  BY <1>1, <1>2 DEF Revoke, CInv, OrgInv
<1>5. w # NoCall
  <2>1. w \in CallRecord
    BY <1>2, <1>4 DEF Calling, CallRecord, OrgTyped
  <2>2. QED  BY <2>1
<1>6. /\ call[r] = NoCall /\ crossed \subseteq crossed'
      /\ o \notin crossed' => \A q \in Requests : ~Works(q, o)
  BY <1>4, BeginTraces
<1>7. SameOwners /\ \A d \in Certs : d # c => cert'[d] = cert[d]
  BY <1>4, OffKeeps
<1>8. /\ call' = [call EXCEPT ![r] = w] /\ Near(o)
      /\ \A q \in Requests : call'[q] = IF q = r THEN w ELSE call[q]
  BY <1>1, <1>3, <1>4, <1>6, <1>7, CallMoves
<1>9. ASSUME o \notin crossed' PROVE Served(o)' /\ \A q \in Requests : Works(q, o)' => Orderly(q)'
  <2>1. \A q \in Requests \ {r} : ~Works(q, o)'
    BY <1>6, <1>8, <1>9 DEF Works
  <2>2. Orderly(r)'
    BY <1>3, <1>8, <2>1 DEF Orderly, Works
  <2>3. Works(r, o)' /\ (org'[o].cert = c => Replaces(r)')
    BY <1>3, <1>5, <1>8 DEF Works, Replaces
  <2>4. IsOrg(o) /\ org[o].cert # NoCert /\ org[o].cert # c => cert'[org[o].cert].active
    BY <1>4, <1>6, <1>7, <1>9 DEF Quiet, Served, OrgTyped, IsOrg, OrgRow
  <2>5. QED  BY <1>4, <2>1, <2>2, <2>3, <2>4 DEF Served, IsOrg
<1>10. Learns(r, w)
  BY <1>3 DEF Learns
<1>11. QED  BY <1>4, <1>7, <1>8, <1>9, <1>10, Finish DEF Quiet

(* A row that names nothing new is written by a rotation that begins.      *)
LEMMA NewRowKeeps ==
  ASSUME CInv, OrgKeeps, NEW r \in Requests, NEW o \in Orgs, Begin(r, o, TRUE),
         NEW row \in OrgRow, org' = [org EXCEPT ![o] = row], cert' = cert,
         row.cert = NoCert \/ (IsOrg(o) /\ row.cert = org[o].cert),
         NEW w, Goto(r, w),
         \/ w = NoCall
         \/ /\ w.org = o /\ w.rotates = TRUE /\ w.step \in {"fetch", "rotate"}
            /\ w.row.cert = NoCert /\ (w.step = "fetch" => w.sync)
  PROVE  CInv'
<1> USE OrganizationsAssumption
<1>1. /\ call[r] = NoCall /\ crossed \subseteq crossed'
      /\ o \notin crossed' => \A q \in Requests : Works(q, o) => call[q].rotates
  BY BeginTraces
<1>2. OrgTyped /\ Owned /\ Quiet(o) /\ org'[o] = row /\ \A p \in Orgs : p # o => org'[p] = org[p]
  BY DEF CInv, OrgInv, OrgTyped
<1>3. /\ call' = [call EXCEPT ![r] = w] /\ Near(o)
      /\ \A q \in Requests : call'[q] = IF q = r THEN w ELSE call[q]
  BY <1>1, <1>2, CallMoves
<1>4. Learns(r, w) /\ Stores(r, o, w)
  BY <1>2 DEF Learns, Stores, Storable, Owned
<1>5. ASSUME o \notin crossed' PROVE Served(o)' /\ \A q \in Requests : Works(q, o)' => Orderly(q)'
  <2>1. /\ Served(o)
        /\ \A q \in Requests : Works(q, o) => Orderly(q) /\ call[q].rotates
    BY <1>1, <1>2, <1>5 DEF Quiet
  <2>2. ASSUME NEW q \in Requests, Works(q, o)' PROVE Orderly(q)'
    <3>1. CASE q = r
      BY <1>3, <2>2, <3>1 DEF Orderly, Works
    <3>2. CASE q # r
      <4>1. call'[q] = call[q] /\ Works(q, o) /\ Orderly(q) /\ call[q].rotates
        BY <1>3, <2>1, <2>2, <3>2 DEF Works
      <4>2. QED  BY <4>1 DEF Orderly, IsCert, Inserted, Works
    <3>3. QED  BY <3>1, <3>2
  <2>3. Served(o)'
    <3>1. CASE row.cert = NoCert
      BY <1>2, <3>1 DEF Served
    <3>2. CASE IsOrg(o) /\ row.cert = org[o].cert
      <4>1. ASSUME NEW q \in Requests, Works(q, o), Replaces(q)
            PROVE  Works(q, o)' /\ Replaces(q)'
        BY <1>1, <1>2, <1>3, <3>2, <4>1 DEF Works, Replaces, IsCert, Inserted
      <4>2. QED  BY <1>2, <2>1, <3>2, <4>1 DEF Served, IsOrg
    <3>3. QED  BY <3>1, <3>2
  <2>4. QED  BY <2>2, <2>3
<1>6. QED  BY <1>3, <1>4, <1>5, SameKept, Finish DEF Quiet

LEMMA NewRowsKeep ==
  ASSUME CInv, OrgKeeps, NEW r \in Requests, NEW o \in Orgs,
         Create(r, o) \/ RegisterEmail(r, o)
  PROVE  CInv'
<1> USE OrganizationsAssumption
<1>1. OrgTyped
  BY DEF CInv, OrgInv
<1>2. CASE Create(r, o)
  <2>0. PICK url \in BOOLEAN, metadata \in BOOLEAN, k \in Keys \cup {NoKey} :
          \E method \in {MethodFor(url, metadata, k), "saml", "email"} :
          LET row == [active |-> TRUE, method |-> method, url |-> url,
                      metadata |-> metadata, cert |-> NoCert] IN
          /\ org' = [org EXCEPT ![o] = row]
          /\ IF metadata THEN Goto(r, Calling("fetch", o, TRUE, row, NoKey, NoCert, TRUE))
             ELSE IF k # NoKey
             THEN Goto(r, Calling("rotate", o, TRUE, row, k, NoCert, FALSE))
             ELSE End(r)
    BY <1>2 DEF Create
  <2>1. PICK method \in {MethodFor(url, metadata, k), "saml", "email"} :
          LET row == [active |-> TRUE, method |-> method, url |-> url,
                      metadata |-> metadata, cert |-> NoCert] IN
          /\ org' = [org EXCEPT ![o] = row]
          /\ IF metadata THEN Goto(r, Calling("fetch", o, TRUE, row, NoKey, NoCert, TRUE))
             ELSE IF k # NoKey
             THEN Goto(r, Calling("rotate", o, TRUE, row, k, NoCert, FALSE))
             ELSE End(r)
    BY <2>0
  <2> DEFINE row == [active |-> TRUE, method |-> method, url |-> url,
                     metadata |-> metadata, cert |-> NoCert]
  <2>2. row \in OrgRow /\ row.cert = NoCert
    BY DEF OrgRow, MethodFor
  <2>3. org' = [org EXCEPT ![o] = row] /\ cert' = cert /\ Begin(r, o, TRUE)
    BY <1>2, <2>1 DEF Create
  <2> HIDE DEF row
  <2>4. PICK w : /\ Goto(r, w)
                 /\ \/ w = NoCall
                    \/ w = Calling("fetch", o, TRUE, row, NoKey, NoCert, TRUE)
                    \/ w = Calling("rotate", o, TRUE, row, k, NoCert, FALSE)
    BY <2>1 DEF row, End
  <2>5. \/ w = NoCall
        \/ /\ w.org = o /\ w.rotates = TRUE /\ w.step \in {"fetch", "rotate"}
           /\ w.row.cert = NoCert /\ (w.step = "fetch" => w.sync)
    BY <2>2, <2>4 DEF Calling
  <2>6. QED  BY <2>2, <2>3, <2>4, <2>5, NewRowKeeps
<1>3. CASE RegisterEmail(r, o)
  <2>1. PICK row \in OrgRow : /\ org' = [org EXCEPT ![o] = row]
                              /\ row.cert = NoCert \/ (IsOrg(o) /\ row.cert = org[o].cert)
    <3>1. CASE IsOrg(o)
      <4>1. [org[o] EXCEPT !.method = "email", !.active = TRUE] \in OrgRow
        BY <1>1, <3>1 DEF OrgTyped, IsOrg, OrgRow
      <4>2. [org[o] EXCEPT !.method = "email", !.active = TRUE].cert = org[o].cert
        BY <1>1, <3>1 DEF OrgTyped, IsOrg, OrgRow
      <4>3. QED  BY <1>1, <1>3, <3>1, <4>1, <4>2 DEF RegisterEmail, OrgTyped
    <3>2. CASE ~IsOrg(o)
      <4> DEFINE new == [active |-> TRUE, method |-> "email", url |-> FALSE,
                         metadata |-> FALSE, cert |-> NoCert]
      <4>1. new \in OrgRow /\ new.cert = NoCert
        BY DEF OrgRow
      <4>2. org' = [org EXCEPT ![o] = new]
        BY <1>1, <1>3, <3>2 DEF RegisterEmail, OrgTyped
      <4>3. QED  BY <4>1, <4>2
    <3>3. QED  BY <3>1, <3>2
  <2>2. Begin(r, o, TRUE) /\ cert' = cert /\ Goto(r, NoCall)
    BY <1>1, <1>3 DEF RegisterEmail, Begin, Goto, OrgTyped
  <2>3. QED  BY <2>1, <2>2, NewRowKeeps
<1>4. QED  BY <1>2, <1>3

(* Nobody knows a certificate that has not been inserted.                  *)
LEMMA InsertKnown ==
  ASSUME CInv, NEW c \in Certs, cert[c] = Unborn
  PROVE  /\ \A p \in Orgs : IsOrg(p) => org[p].cert # c
         /\ \A q \in Requests : Holds(q) => call[q].row.cert # c
         /\ \A q \in Requests : Step(q, "point") => Inserted(q) # c
  BY OrganizationsAssumption
  DEF CInv, OrgInv, OrgTyped, Owned, Own, Fresh, OrgRow, Holds, CallRow, CallsAt

(* A rotation inserts its certificate.                                     *)
LEMMA InsertKeeps ==
  ASSUME CInv, OrgKeeps, NEW r \in Requests, InsertCertificate(r)
  PROVE  CInv'
<1> USE OrganizationsAssumption
<1>1. PICK o \in Orgs, row \in OrgRow : o = call[r].org /\ row = call[r].row
  BY CallFields DEF InsertCertificate, Step, CInv, OrgInv
<1>2. /\ OrgTyped /\ Owned /\ Fresh /\ Quiet(o) /\ Works(r, o) /\ Holds(r) /\ call[r] # NoCall
      /\ call[r].step = "insert" /\ UNCHANGED <<org, crossed>>
  BY <1>1 DEF InsertCertificate, Step, CInv, OrgInv, Works, Holds
<1>3. CASE ~IsOrg(o)
  <2>1. Goto(r, NoCall) /\ cert' = cert
    BY <1>1, <1>3 DEF InsertCertificate, End
  <2>2. QED  BY <1>2, <1>3, <2>1, LookKeeps DEF Learns
<1>4. CASE IsOrg(o)
  <2>1. PICK c \in Certs :
          /\ cert[c] = Unborn
          /\ cert' = [cert EXCEPT ![c] = [org |-> o, key |-> call[r].key, active |-> TRUE]]
          /\ Goto(r, [At(r, "point") EXCEPT !.cert = c])
    BY <1>1, <1>4 DEF InsertCertificate
  <2> DEFINE w == [At(r, "point") EXCEPT !.cert = c]
  <2>2. /\ w.step = "point" /\ w.org = o /\ w.rotates = call[r].rotates /\ w.row = row
        /\ w.cert = c
    BY <1>1, <1>2 DEF OrgTyped, CallRow, CallsAt, At
  <2>3. w # NoCall
    <3>1. w \in CallRecord
      BY <1>2 DEF At, OrgTyped, CallRow, CallsAt, CallRecord
    <3>2. QED  BY <3>1
  <2>4. Goto(r, w)
    BY <2>1
  <2> HIDE DEF w
  <2>5. /\ cert'[c] # Unborn /\ IsCert(c)' /\ cert'[c].org = o /\ cert'[c].active
        /\ \A d \in Certs \ {c} : cert'[d] = cert[d] /\ IsCert(d)' = IsCert(d)
    <3>1. [org |-> o, key |-> call[r].key, active |-> TRUE] \in CertRow
      BY <1>1, <1>2 DEF OrgTyped, CallRow, CallsAt, CertRow
    <3>2. QED  BY <1>2, <2>1, <3>1 DEF OrgTyped, IsCert
  <2>6. /\ \A p \in Orgs : IsOrg(p) => org[p].cert # c
        /\ \A q \in Requests : Holds(q) => call[q].row.cert # c
        /\ \A q \in Requests : Step(q, "point") => Inserted(q) # c
    BY <2>1, InsertKnown
  <2>7. \A c1 \in Certs : IsCert(c1) /\ cert[c1].org # o => cert'[c1] = cert[c1]
    BY <2>1, <2>5 DEF IsCert
  <2>8. /\ call' = [call EXCEPT ![r] = w] /\ Near(o)
        /\ \A q \in Requests : call'[q] = IF q = r THEN w ELSE call[q]
    BY <1>2, <2>2, <2>4, <2>7, CallMoves DEF Works
  <2>9. Owned'
    <3>1. \A d \in Certs : IsCert(d)' => IsOrg(cert[d].org)'
      BY <1>2, <1>4, <2>5 DEF Owned, IsOrg
    <3>2. ASSUME NEW p \in Orgs, IsOrg(p)' PROVE Own(p, org[p])' /\ Storable(p, org[p])'
      <4>1. IsOrg(p) /\ org[p].cert \in Certs \cup {NoCert} /\ org'[p] = org[p]
        BY <1>2, <3>2 DEF IsOrg, OrgTyped, OrgRow
      <4>2. Own(p, org[p]) /\ Storable(p, org[p]) /\ org[p].cert # c
        BY <1>2, <2>6, <4>1 DEF Owned
      <4>3. QED  BY <2>5, <4>1, <4>2 DEF Storable, Own
    <3>3. ASSUME NEW q \in Requests, Holds(q)' PROVE Own(call[q].org, call[q].row)'
      <4>1. Holds(q) /\ call'[q].org = call[q].org /\ call'[q].row = call[q].row
        BY <1>1, <1>2, <2>2, <2>8, <3>3 DEF Holds
      <4>2. /\ call[q].row.cert \in Certs \cup {NoCert} /\ call[q].row.cert # c
            /\ Own(call[q].org, call[q].row)
        BY <1>2, <2>6, <4>1, CallFields DEF Owned, Holds, OrgRow
      <4>3. QED  BY <2>5, <4>1, <4>2 DEF Own
    <3>4. QED  BY <3>1, <3>2, <3>3 DEF Owned
  <2>10. Fresh'
    <3> SUFFICES ASSUME NEW q \in Requests, Step(q, "point")'
                 PROVE  /\ Inserted(q)' \in Certs /\ cert'[Inserted(q)'] # Unborn
                        /\ IsCert(Inserted(q))' => cert'[Inserted(q)'].org = call'[q].org
                        /\ \A p \in Orgs : IsOrg(p)' => org'[p].cert # Inserted(q)'
                        /\ \A d \in Requests : Holds(d)' => call'[d].row.cert # Inserted(q)'
                        /\ \A d \in Requests \ {q} :
                             Step(d, "point")' => Inserted(d)' # Inserted(q)'
      BY DEF Fresh, IsCert
    <3>1. \A d \in Requests : Holds(d)' => Holds(d) /\ call'[d].row = call[d].row
      BY <1>1, <1>2, <2>2, <2>8 DEF Holds
    <3>2. \A d \in Requests \ {r} :
            Step(d, "point")' => Step(d, "point") /\ Inserted(d)' = Inserted(d)
      BY <2>8 DEF Step, Inserted
    <3>3. Inserted(r)' = c /\ call'[r].org = o
      BY <2>2, <2>8 DEF Inserted
    <3>4. CASE q = r
      BY <1>2, <2>5, <2>6, <3>1, <3>2, <3>3, <3>4 DEF IsOrg
    <3>5. CASE q # r
      <4>1. Step(q, "point") /\ Inserted(q)' = Inserted(q) /\ Inserted(q) # c /\ call'[q] = call[q]
        BY <2>6, <2>8, <3>2, <3>5
      <4>2. /\ Inserted(q) \in Certs /\ cert'[Inserted(q)] = cert[Inserted(q)]
            /\ IsCert(Inserted(q))' = IsCert(Inserted(q))
        BY <1>2, <2>5, <4>1 DEF Fresh, IsCert
      <4>3. QED  BY <1>2, <3>1, <3>2, <3>3, <4>1, <4>2 DEF Fresh, IsOrg
    <3>6. QED  BY <3>4, <3>5
  <2>11. ASSUME o \notin crossed PROVE Served(o)' /\ \A q \in Requests : Works(q, o)' => Orderly(q)'
    <3>1. \A q \in Requests \ {r} :
            Step(q, "point") /\ Works(q, o) => cert'[Inserted(q)] = cert[Inserted(q)]
      BY <1>2, <2>5, <2>6 DEF Fresh
    <3>2. /\ \A q \in Requests \ {r} : Works(q, o)' => Orderly(q)'
          /\ w.rotates \/ w = NoCall \/ \A q \in Requests \ {r} : ~Works(q, o)'
      BY <1>2, <2>2, <2>8, <2>11, <3>1, OthersOrderly
    <3>3. Orderly(r)'
      BY <2>2, <2>3, <2>5, <2>8, <3>2 DEF Orderly, Inserted, Works
    <3>4. Works(r, o)' /\ Replaces(r)'
      BY <2>2, <2>3, <2>5, <2>8 DEF Works, Replaces, Inserted
    <3>5. QED  BY <3>2, <3>3, <3>4 DEF Served
  <2>12. \A p \in Orgs : Quiet(p)'
    BY <1>2, <2>8, <2>11, Elsewhere DEF Quiet
  <2>13. QED  BY <2>9, <2>10, <2>12 DEF CInv, OrgKeeps
<1>5. QED  BY <1>3, <1>4

(* register-org inserts and names a certificate at once, in the place of   *)
(* the one that it saw before.                                             *)
LEMMA RegisterKeeps ==
  ASSUME CInv, OrgKeeps, NEW r \in Requests, RegisterWrite(r)
  PROVE  CInv'
<1> USE OrganizationsAssumption
<1>1. PICK o \in Orgs, row \in OrgRow \cup {Unborn}, k \in Keys :
        o = call[r].org /\ row = call[r].row /\ k = call[r].key
  BY DEF RegisterWrite, Step, CInv, OrgInv, OrgTyped, CallRow, CallsAt
<1>2. /\ OrgTyped /\ Owned /\ Fresh /\ Quiet(o) /\ OrgTyped' /\ Works(r, o)
      /\ call[r] # NoCall /\ call[r].step = "enlist" /\ crossed' = crossed /\ Goto(r, NoCall)
      /\ \A q \in Requests : call'[q] = IF q = r THEN NoCall ELSE call[q]
  BY <1>1 DEF RegisterWrite, Step, CInv, OrgInv, OrgKeeps, Works, End, Goto, OrgTyped
<1>3. CASE UNCHANGED <<org, cert>>
  BY <1>2, <1>3, LookKeeps DEF Replaces, Learns
<1>4. SUFFICES ASSUME ~UNCHANGED <<org, cert>> PROVE CInv'
  BY <1>3
<1>5. PICK c \in Certs :
        /\ cert[c] = Unborn
        /\ cert' = [Replaced(row) EXCEPT ![c] = [org |-> o, key |-> k, active |-> TRUE]]
        /\ org' = [org EXCEPT ![o] = [active |-> TRUE, method |-> "saml", url |-> TRUE,
                                       metadata |-> TRUE, cert |-> c]]
  BY <1>1, <1>4 DEF RegisterWrite
<1>6. row # Unborn => row \in OrgRow /\ Own(o, row) /\ Holds(r)
  BY <1>1, <1>2 DEF Owned, Holds
<1>7. /\ org'[o].cert = c /\ IsOrg(o)' /\ \A p \in Orgs : p # o => org'[p] = org[p]
      /\ \A p \in Orgs : IsOrg(p) => IsOrg(p)'
  <2>1. [active |-> TRUE, method |-> "saml", url |-> TRUE, metadata |-> TRUE, cert |-> c] \in OrgRow
    BY DEF OrgRow
  <2>2. QED  BY <1>5, <1>2, <2>1 DEF OrgTyped, IsOrg
<1>8. /\ cert'[c] # Unborn /\ IsCert(c)' /\ cert'[c].org = o /\ cert'[c].active
      /\ \A d \in Certs \ {c} : /\ (cert'[d] = Unborn) = (cert[d] = Unborn)
                                /\ IsCert(d)' = IsCert(d)
                                /\ IsCert(d) => cert'[d].org = cert[d].org
                                /\ row = Unborn \/ d # row.cert => cert'[d] = cert[d]
  <2> DEFINE new == [org |-> o, key |-> k, active |-> TRUE]
  <2>0. PICK off : off = Replaced(row)
    OBVIOUS
  <2>1. new \in CertRow /\ new.org = o /\ new.active
    BY DEF CertRow
  <2>2. /\ off \in [Certs -> CertRow \cup {Unborn, Gone}]
        /\ \A d \in Certs : /\ (off[d] = Unborn) = (cert[d] = Unborn)
                            /\ (off[d] = Gone) = (cert[d] = Gone)
                            /\ IsCert(d) => off[d].org = cert[d].org
                            /\ row = Unborn \/ d # row.cert => off[d] = cert[d]
    <3>1. CASE off = cert
      BY <1>2, <3>1 DEF OrgTyped
    <3>2. CASE row # Unborn /\ row.cert # NoCert /\ IsCert(row.cert) /\ off = Off(row.cert)
      <4>1. PICK n \in Certs : n = row.cert
        BY <1>6, <3>2 DEF OrgRow
      <4>2. cert[n] \in CertRow /\ off = [cert EXCEPT ![n].active = FALSE]
        BY <1>2, <3>2, <4>1 DEF OrgTyped, IsCert, Off
      <4>3. /\ [cert[n] EXCEPT !.active = FALSE] \in CertRow
            /\ [cert[n] EXCEPT !.active = FALSE].org = cert[n].org
        BY <4>2 DEF CertRow
      <4>4. PICK new1 \in CertRow : off = [cert EXCEPT ![n] = new1] /\ new1.org = cert[n].org
        BY <4>2, <4>3
      <4>5. /\ off \in [Certs -> CertRow \cup {Unborn, Gone}] /\ off[n] = new1
            /\ \A d \in Certs : d # n => off[d] = cert[d]
        BY <1>2, <4>1, <4>4 DEF OrgTyped
      <4>6. /\ new1 \notin {Unborn, Gone} /\ cert[n] \notin {Unborn, Gone}
            /\ new1.org = cert[n].org
        BY <4>2, <4>4
      <4>7. QED  BY <3>2, <4>1, <4>5, <4>6 DEF IsCert
    <3>3. QED  BY <2>0, <3>1, <3>2 DEF Replaced, Off
  <2>3. cert' = [off EXCEPT ![c] = new]
    BY <1>5, <2>0
  <2> HIDE DEF new
  <2>4. cert'[c] = new /\ \A d \in Certs \ {c} : cert'[d] = off[d]
    BY <2>2, <2>3
  <2>5. new \notin {Unborn, Gone}
    BY <2>1
  <2>6. QED  BY <2>1, <2>2, <2>4, <2>5 DEF IsCert
<1>9. /\ \A p \in Orgs : IsOrg(p) => org[p].cert # c
      /\ \A q \in Requests : Holds(q) => call[q].row.cert # c
      /\ \A q \in Requests : Step(q, "point") => Inserted(q) # c
  BY <1>5, InsertKnown
<1>10. Near(o)
  <2>1. ASSUME NEW d \in Certs, IsCert(d), cert[d].org # o PROVE cert'[d] = cert[d]
    <3>1. d # c
      BY <1>5, <2>1 DEF IsCert
    <3>2. row # Unborn => d # row.cert
      BY <1>2, <1>6, <2>1 DEF Own, OrgRow, IsCert
    <3>3. QED  BY <1>8, <3>1, <3>2
  <2>2. QED  BY <1>2, <1>7, <2>1 DEF Near, Works
<1>11. Owned'
  <2>1. \A d \in Certs : IsCert(d)' => IsOrg(cert[d].org)'
    BY <1>2, <1>7, <1>8 DEF Owned, OrgTyped, CertRow, IsCert
  <2>2. ASSUME NEW p \in Orgs, IsOrg(p)' PROVE Own(p, org[p])' /\ Storable(p, org[p])'
    <3>1. CASE p = o
      BY <1>7, <1>8, <3>1 DEF Own, Storable
    <3>2. CASE p # o
      <4>1. IsOrg(p) /\ org[p].cert \in Certs \cup {NoCert} /\ org'[p] = org[p]
        BY <1>2, <1>7, <2>2, <3>2 DEF IsOrg, OrgTyped, OrgRow
      <4>2. Own(p, org[p]) /\ Storable(p, org[p]) /\ org[p].cert # c
        BY <1>2, <1>9, <4>1 DEF Owned
      <4>3. QED  BY <1>8, <4>1, <4>2 DEF Storable, Own
    <3>3. QED  BY <3>1, <3>2
  <2>3. ASSUME NEW q \in Requests, Holds(q)' PROVE Own(call[q].org, call[q].row)'
    <3>1. Holds(q) /\ call'[q] = call[q]
      BY <1>2, <2>3 DEF Holds
    <3>2. /\ call[q].row.cert \in Certs \cup {NoCert} /\ call[q].row.cert # c
          /\ Own(call[q].org, call[q].row)
      BY <1>2, <1>9, <3>1, CallFields DEF Owned, Holds, OrgRow
    <3>3. QED  BY <1>8, <3>1, <3>2 DEF Own
  <2>4. QED  BY <2>1, <2>2, <2>3 DEF Owned
<1>12. Fresh'
  <2> SUFFICES ASSUME NEW q \in Requests \ {r}, Step(q, "point")
               PROVE  /\ Inserted(q) \in Certs /\ cert'[Inserted(q)] # Unborn
                      /\ cert'[Inserted(q)] \notin {Unborn, Gone} =>
                           cert'[Inserted(q)].org = call[q].org
                      /\ \A p \in Orgs : IsOrg(p)' => org'[p].cert # Inserted(q)
                      /\ \A d \in Requests : Holds(d) => call[d].row.cert # Inserted(q)
                      /\ \A d \in Requests \ {q} : Step(d, "point") => Inserted(d) # Inserted(q)
    BY <1>2 DEF Fresh, IsCert, Step, Holds, Inserted
  <2>1. Inserted(q) \in Certs \ {c} /\ IsCert(Inserted(q))' = IsCert(Inserted(q))
    <3>1. Inserted(q) \in Certs \ {c} /\ Inserted(q)' = Inserted(q)
      BY <1>2, <1>9 DEF Fresh, Inserted
    <3>2. QED  BY <1>8, <3>1 DEF IsCert
  <2>2. QED  BY <1>2, <1>7, <1>8, <2>1 DEF Fresh, IsOrg, IsCert
<1>13. ASSUME o \notin crossed PROVE Served(o)' /\ \A q \in Requests : Works(q, o)' => Orderly(q)'
  <2>1. Served(o)'
    BY <1>7, <1>8 DEF Served
  <2>2. ASSUME NEW q \in Requests, Works(q, o)' PROVE Orderly(q)'
    <3>1. Works(q, o) /\ Orderly(q) /\ call'[q] = call[q] /\ q # r
      BY <1>2, <1>13, <2>2 DEF Works, Quiet
    <3>2. call[q].rotates /\ call[q].step \notin {"save", "drop", "clear"}
      BY <1>2, <3>1 DEF Orderly, Works
    <3>3. call[q].step = "point" /\ IsCert(Inserted(q))' => cert'[Inserted(q)].active
      <4> SUFFICES ASSUME call[q].step = "point", IsCert(Inserted(q))'
                   PROVE  cert'[Inserted(q)].active
        OBVIOUS
      <4>1. Inserted(q) \in Certs \ {c} /\ (row # Unborn => Inserted(q) # row.cert)
        BY <1>1, <1>2, <1>6, <1>9, <3>1 DEF Fresh, Step, Works
      <4>2. cert'[Inserted(q)] = cert[Inserted(q)]
        BY <1>8, <4>1
      <4>3. IsCert(Inserted(q))
        BY <1>2, <4>2 DEF IsCert, Inserted
      <4>4. QED  BY <3>1, <4>2, <4>3 DEF Orderly
    <3>4. QED  BY <1>2, <3>1, <3>2, <3>3 DEF Orderly, Inserted, IsCert
  <2>3. QED  BY <2>1, <2>2
<1>14. QED  BY <1>2, <1>10, <1>11, <1>12, <1>13, Elsewhere DEF CInv, OrgKeeps, Quiet

(* unregister-org takes an organization with all of its certificates.      *)
LEMMA PurgeKeeps ==
  ASSUME CInv, OrgKeeps, NEW o \in Orgs, Purge(o)
  PROVE  CInv'
<1> USE OrganizationsAssumption
<1>1. /\ OrgTyped /\ Owned /\ Fresh /\ Quiet(o) /\ UNCHANGED <<call, crossed>>
      /\ org' = [org EXCEPT ![o] = Gone]
      /\ cert' = [c \in Certs |-> IF IsCert(c) /\ cert[c].org = o THEN Gone ELSE cert[c]]
  BY DEF Purge, CInv, OrgInv
<1>2. /\ ~IsOrg(o)' /\ \A p \in Orgs : p # o => org'[p] = org[p]
      /\ \A c \in Certs : /\ (cert'[c] = Unborn) = (cert[c] = Unborn)
                          /\ IsCert(c)' = (IsCert(c) /\ cert[c].org # o)
                          /\ IsCert(c)' => cert'[c] = cert[c]
  BY <1>1 DEF OrgTyped, IsOrg, IsCert
<1>3. Near(o)
  BY <1>1, <1>2 DEF Near
<1>4. Owned'
  <2>1. \A d \in Certs : IsCert(d)' => IsOrg(cert[d].org)'
    BY <1>1, <1>2 DEF Owned, OrgTyped, CertRow, IsCert, IsOrg
  <2>2. ASSUME NEW p \in Orgs, IsOrg(p)' PROVE Own(p, org[p])' /\ Storable(p, org[p])'
    <3>1. IsOrg(p) /\ p # o /\ org[p].cert \in Certs \cup {NoCert} /\ org'[p] = org[p]
      BY <1>1, <1>2, <2>2 DEF IsOrg, OrgTyped, OrgRow
    <3>2. Own(p, org[p]) /\ Storable(p, org[p])
      BY <1>1, <3>1 DEF Owned
    <3>3. QED  BY <1>2, <3>1, <3>2 DEF Own, Storable, IsCert
  <2>3. ASSUME NEW q \in Requests, Holds(q)' PROVE Own(call[q].org, call[q].row)'
    <3>1. Holds(q) /\ call'[q] = call[q]
      BY <1>1, <2>3 DEF Holds
    <3>2. call[q].row.cert \in Certs \cup {NoCert} /\ Own(call[q].org, call[q].row)
      BY <1>1, <3>1, CallFields DEF Owned, Holds, OrgRow
    <3>3. QED  BY <1>2, <3>1, <3>2 DEF Own, IsCert
  <2>4. QED  BY <2>1, <2>2, <2>3 DEF Owned
<1>5. \A q \in Requests : Step(q, "point") =>
        Inserted(q) \in Certs /\ (IsCert(Inserted(q))' => IsCert(Inserted(q)))
  BY <1>1, <1>2 DEF Fresh, Inserted, IsCert
<1>6. Fresh'
  <2> SUFFICES ASSUME NEW q \in Requests, Step(q, "point")
               PROVE  /\ Inserted(q) \in Certs /\ cert'[Inserted(q)] # Unborn
                      /\ IsCert(Inserted(q))' => cert'[Inserted(q)].org = call[q].org
                      /\ \A p \in Orgs : IsOrg(p)' => org'[p].cert # Inserted(q)
                      /\ \A d \in Requests : Holds(d) => call[d].row.cert # Inserted(q)
                      /\ \A d \in Requests \ {q} : Step(d, "point") => Inserted(d) # Inserted(q)
    BY <1>1 DEF Fresh, IsCert, Step, Holds, Inserted
  <2>1. IsCert(Inserted(q))' => cert'[Inserted(q)] = cert[Inserted(q)]
    BY <1>1, <1>2, <1>5 DEF Inserted, IsCert
  <2>2. QED  BY <1>1, <1>2, <1>5, <2>1 DEF Fresh, IsOrg
<1>7. Quiet(o)'
  <2> SUFFICES ASSUME o \notin crossed, NEW q \in Requests, Works(q, o) PROVE Orderly(q)'
    BY <1>1, <1>2 DEF Quiet, Served, Works
  <2>1. Orderly(q) /\ call[q].org = o
    BY <1>1 DEF Quiet, Works
  <2>2. call[q].step = "point" => ~IsCert(Inserted(q))'
    BY <1>1, <1>2, <2>1 DEF Fresh, Step, Works, Inserted, IsCert
  <2>3. QED  BY <1>1, <1>2, <2>1, <2>2 DEF Orderly, Works
<1>8. QED  BY <1>3, <1>4, <1>6, <1>7, Elsewhere DEF CInv, OrgKeeps

(* The calls that are cut short are remembered.                            *)
LEMMA CutShortKeeps ==
  ASSUME CInv, OrgKeeps, CutShort
  PROVE  CInv'
<1>1. /\ UNCHANGED <<org, cert>>
      /\ \A q \in Requests :
           \/ call'[q] = NoCall
           \/ call[q] # NoCall /\ call'[q] = call[q] /\ call[q].step \in {"look", "enlist"}
      /\ \A q \in Requests : HalfDone(q) => call[q].org \in crossed'
      /\ crossed \subseteq crossed' /\ Owned /\ Fresh
  BY DEF CutShort, CInv, Step
<1>2. Owned' /\ Fresh'
  BY <1>1 DEF Owned, Fresh, Own, Storable, Holds, Step, IsOrg, IsCert
<1>3. ASSUME NEW o \in Orgs, o \notin crossed'
      PROVE  Served(o)' /\ \A q \in Requests : Works(q, o)' => Orderly(q)'
  <2>1. Served(o) /\ \A q \in Requests : Works(q, o) => Orderly(q)
    BY <1>1, <1>3 DEF CInv, Quiet
  <2>2. \A q \in Requests : Works(q, o) => ~Replaces(q)
    BY <1>1, <1>3 DEF Works, Replaces, HalfDone
  <2>3. ASSUME NEW q \in Requests, Works(q, o)' PROVE Orderly(q)'
    <3>1. Works(q, o) /\ call'[q] = call[q] /\ call[q].step \in {"look", "enlist"}
      BY <1>1, <2>3 DEF Works
    <3>2. \A d \in Requests : Works(d, o)' => Works(d, o)
      BY <1>1 DEF Works
    <3>3. QED  BY <2>1, <3>1, <3>2 DEF Orderly, Works
  <2>4. Served(o)'
    BY <1>1, <2>1, <2>2 DEF Served, IsOrg
  <2>5. QED  BY <2>3, <2>4
<1>4. QED  BY <1>2, <1>3 DEF CInv, OrgKeeps, Quiet

LEMMA IdleKeeps ==
  ASSUME CInv, OrgKeeps, UNCHANGED <<org, cert, call, crossed>>
  PROVE  CInv'
<1>1. Owned' /\ Fresh'
  BY DEF CInv, Owned, Fresh, Own, Storable, Holds, Step, IsOrg, IsCert, Inserted
<1>2. ASSUME NEW o \in Orgs PROVE Quiet(o)'
  BY DEF CInv, Quiet, Served, Orderly, Replaces, Works, IsOrg, IsCert, Inserted
<1>3. QED  BY <1>1, <1>2 DEF CInv, OrgKeeps

(* CInv is kept by every step, of browsers too.                            *)
LEMMA CInvNext == CInv /\ [Next]_vars => CInv'
<1> SUFFICES ASSUME CInv, [Next]_vars PROVE CInv'
  OBVIOUS
<1>1. OrgInv
  BY DEF CInv
<1>2. CASE OrgNext
  <2>1. OrgKeeps
    BY <1>1, <1>2, OrganizationsKeep
  <2>2. PICK r \in Requests :
          \/ \E o \in Orgs :
               \/ Create(r, o) \/ Update(r, o) \/ SoftDelete(r, o) \/ Sync(r, o)
               \/ AddCertificate(r, o) \/ RegisterEmail(r, o) \/ RegisterSaml(r, o)
          \/ \E c \in Certs : Revoke(r, c)
          \/ Save(r) \/ Fetch(r) \/ ApplyRead(r) \/ ApplySave(r) \/ RotateRead(r)
          \/ Deactivate(r) \/ InsertCertificate(r) \/ Point(r) \/ RevokeRead(r)
          \/ RevokeSave(r) \/ RegisterLook(r) \/ RegisterWrite(r) \/ FailCall(r)
    BY <1>2 DEF OrgNext
  <2>3. CASE \E o \in Orgs : Create(r, o) \/ RegisterEmail(r, o)
    BY <2>1, <2>3, NewRowsKeep
  <2>4. CASE \E o \in Orgs : \/ Update(r, o) \/ SoftDelete(r, o) \/ Sync(r, o)
                             \/ AddCertificate(r, o) \/ RegisterSaml(r, o)
    BY <2>1, <2>4, BeginQuiet
  <2>5. CASE \E c \in Certs : Revoke(r, c)
    BY <2>1, <2>5, RevokeQuiet
  <2>6. CASE \/ Fetch(r) \/ ApplyRead(r) \/ RotateRead(r) \/ RevokeRead(r) \/ RegisterLook(r)
             \/ FailCall(r)
    BY <2>1, <2>6, LooksKeep
  <2>7. CASE Save(r) \/ ApplySave(r) \/ Point(r) \/ RevokeSave(r)
    BY <2>1, <2>7, StoresKeep
  <2>8. CASE Deactivate(r) \/ InsertCertificate(r) \/ RegisterWrite(r)
    BY <2>1, <2>8, DeactivateKeeps, InsertKeeps, RegisterKeeps
  <2>9. QED  BY <2>2, <2>3, <2>4, <2>5, <2>6, <2>7, <2>8
<1>3. ASSUME NEW o \in Orgs, Unregister(o) PROVE CInv'
  BY <1>1, <1>3, OrganizationsKeep, PurgeKeeps DEF Unregister
<1>4. CASE Restart
  BY <1>1, <1>4, OrganizationsKeep, CutShortKeeps DEF Restart
<1>5. ASSUME NEW o \in Orgs, ChangeKey(o) PROVE CInv'
  BY <1>1, <1>5, OrganizationsKeep, IdleKeeps DEF ChangeKey
<1>6. CASE UNCHANGED orgVars
  BY <1>1, <1>6, OrganizationsKeep, IdleKeeps DEF orgVars
<1>7. ASSUME NEW b \in Browsers,
             \/ \E o \in Orgs : Login(b, o)
             \/ LoadOrg(b) \/ LoadCert(b) \/ HandleAcs(b) \/ Verify(b) \/ Provisioned(b)
             \/ Establish(b) \/ Abandon(b) \/ Logout(b)
      PROVE  UNCHANGED orgVars
  BY <1>7 DEF Login, LoadOrg, LoadCert, HandleAcs, Verify, Provisioned, Establish, Abandon, Logout
<1>8. QED  BY <1>2, <1>3, <1>4, <1>5, <1>6, <1>7 DEF Next, Run, vars

(* CInv holds at the beginning.                                            *)
LEMMA CInvInit == Init => CInv
<1> SUFFICES ASSUME Init PROVE CInv
  OBVIOUS
<1> USE OrganizationsAssumption
<1>1. OrgInv /\ \A q \in Requests : call[q] = NoCall
  BY IInvInit DEF IInv, Init, OrgInit
<1>2. CASE org = [o \in Orgs |-> Unborn] /\ cert = [c \in Certs |-> Unborn]
  BY <1>1, <1>2 DEF CInv, Owned, Fresh, Holds, Step, Quiet, Served, Works, IsOrg, IsCert
<1>3. ASSUME NEW o \in Orgs \ {Private}, NEW c \in Certs,
             org = [p \in Orgs |-> IF p = o
                      THEN [active |-> TRUE, method |-> "saml", url |-> TRUE,
                            metadata |-> TRUE, cert |-> c] ELSE Unborn],
             cert = [d \in Certs |-> IF d = c
                       THEN [org |-> o, key |-> key[o], active |-> TRUE] ELSE Unborn]
      PROVE  CInv
  <2>1. /\ org[o].cert = c /\ \A p \in Orgs : IsOrg(p) => p = o
        /\ cert[c] = [org |-> o, key |-> key[o], active |-> TRUE]
        /\ \A d \in Certs : IsCert(d) => d = c
    BY <1>3 DEF IsOrg, IsCert
  <2>2. IsOrg(o) /\ IsCert(c) /\ cert[c] # Unborn
    <3>1. key[o] \in Keys
      BY DEF Init, OrgInit
    <3>2. /\ [active |-> TRUE, method |-> "saml", url |-> TRUE, metadata |-> TRUE, cert |-> c]
              \in OrgRow
          /\ [org |-> o, key |-> key[o], active |-> TRUE] \in CertRow
      BY <3>1 DEF OrgRow, CertRow
    <3>3. QED  BY <1>3, <3>2 DEF IsOrg, IsCert
  <2>3. cert[c].org = o /\ cert[c].active
    BY <2>1
  <2>4. QED
    BY <1>1, <2>1, <2>2, <2>3
    DEF CInv, Owned, Own, Storable, Fresh, Holds, Step, Quiet, Served, Works
<1>4. QED  BY <1>2, <1>3 DEF Init, OrgInit

(* Whatever rotations overlap, an organization the login page offers ends  *)
(* up with a certificate that is good, for any number of organizations,    *)
(* administrators and keys: a rotation that leaves another's certificate   *)
(* deactivated is still on its way to name its own.                        *)
THEOREM ListedAreReady == Spec => []ListedIsReady
<1>1. ASSUME CInv PROVE ListedIsReady
  <2> SUFFICES ASSUME NEW o \in Orgs, Listed(o), o \notin crossed,
                      \A r \in Requests : call[r] # NoCall => call[r].org # o
               PROVE  Current(o) # {}
    BY DEF ListedIsReady
  <2>1. Served(o) /\ IsOrg(o) /\ org[o].cert # NoCert /\ org[o].cert \in Certs \cup {NoCert}
    BY <1>1 DEF CInv, Quiet, Listed, OrgInv, OrgTyped, OrgRow, IsOrg
  <2>2. cert[org[o].cert].active
    BY <2>1 DEF Served, Works
  <2>3. IsCert(org[o].cert) /\ cert[org[o].cert].org = o
    BY <1>1, <2>1 DEF CInv, Owned, Own, Storable
  <2>4. org[o].cert \in Current(o)
    BY <2>1, <2>2, <2>3 DEF Current
  <2>5. QED  BY <2>4
<1>2. QED  BY <1>1, CInvInit, CInvNext, PTL DEF Spec
=============================================================================
