-------------------------- MODULE EnrollmentProofs --------------------------
(***************************************************************************)
(* What Enrollment promises, for every number of students, codes, limits   *)
(* and calls that overlap.  A student is admitted later than the code is   *)
(* counted, so the proof counts the calls that still hold a paid seat, and *)
(* the students removed under a call that will enroll them unpaid; an      *)
(* enrollment id is never handed out twice, which keeps the rows of an     *)
(* enrollment that was removed apart from those of a new one.              *)
(***************************************************************************)
EXTENDS Enrollment, FiniteSetTheorems, TLAPS

JoinCall == [student : Students, code : CodeIds \cup {NoCode}, isNew : BOOLEAN,
             asOf : 0..MaxTime, id : Ids \cup {NoRow},
             answer : {"none", "ok", "invalid", "error"}]
EditCall == [edit : CodeIds, row : Code]

(* What a call remembers at each of its steps, when id n is the next.      *)
CallTyped(step, c, n) ==
  /\ step \in Joining => c \in JoinCall
  /\ step \in {"check", "count"} => c.code \in CodeIds
  /\ step = "check" => ~c.isNew
  /\ step = "count" => c.isNew
  /\ step \in {"check", "count", "find", "insert"} => c.id = NoRow
  /\ step \in {"stats", "log"} => c.id \in Ids /\ c.id < n
  /\ step = "save" => c \in EditCall
  /\ step = "idle" => c = NoCall

CallsTyped == \A r \in Requests : CallTyped(pc[r], call[r], nextId)

(* The calls for which c was counted and which may still enroll a student. *)
Holding(c) == {r \in Requests : /\ pc[r] \in {"find", "insert"}
                                 /\ call[r].code = c /\ call[r].isNew}

(* The calls that were not counted because their student was enrolled.     *)
Unpaid(c) == {r \in Requests : /\ pc[r] \in {"find", "insert"}
                                /\ call[r].code = c /\ ~call[r].isNew}

(* The students of such calls who have been removed since: whichever call  *)
(* is first enrolls the student, and no other can.                         *)
Owed(c) == {s \in {call[r].student : r \in Unpaid(c)} : enrolled[s] = NoRow}

Taken(c) == Cardinality(Holding(c)) + Cardinality(Owed(c))

SeatsCover == \A c \in CodeIds : admitted[c] + Taken(c) <= seats[c] + removals

(* A row that no stale copy was written over counts what it let in.        *)
UsesCounted ==
  \A c \in CodeIds \ rewound :
    /\ codes[c] = NoCode => seats[c] = 0
    /\ IsCode(c) => codes[c].uses = seats[c]

(* The sequence hands out every id once.                                   *)
IdsUnique ==
  /\ \A s \in Students : enrolled[s] # NoRow => enrolled[s] < nextId
  /\ \A s, t \in Students : enrolled[s] = enrolled[t] /\ enrolled[s] # NoRow => s = t
  /\ \A e \in stats \cup logged \cup broken : e < nextId

(* A call logs what has its statistics, unless it was removed meanwhile.   *)
LogsComplete ==
  \A r \in Requests : pc[r] = "log" => (Live(call[r].id) => call[r].id \in stats)

IInv ==
  /\ TypeOK /\ CallsTyped /\ SeatsCover /\ UsesCounted
  /\ IdsUnique /\ LogsComplete /\ CompleteOrBroken

-----------------------------------------------------------------------------
(* A call that goes on keeps the types of all calls.                       *)
LEMMA GotoTyped ==
  ASSUME TypeOK, CallsTyped, NEW r \in Requests,
         NEW step \in Joining \cup {"idle", "save"}, NEW c, Goto(r, step, c),
         nextId' \in Int, nextId <= nextId', CallTyped(step, c, nextId')
  PROVE  /\ pc' \in [Requests -> Joining \cup {"idle", "save"}]
         /\ call' \in [Requests -> Calls \cup {NoCall}] /\ CallsTyped'
         /\ pc'[r] = step /\ call'[r] = c
         /\ \A q \in Requests \ {r} : pc'[q] = pc[q] /\ call'[q] = call[q]
<1>1. c \in Calls \cup {NoCall}
  BY DEF CallTyped, Joining, JoinCall, EditCall, Calls
<1>2. /\ pc' \in [Requests -> Joining \cup {"idle", "save"}]
      /\ call' \in [Requests -> Calls \cup {NoCall}]
      /\ pc'[r] = step /\ call'[r] = c
      /\ \A q \in Requests \ {r} : pc'[q] = pc[q] /\ call'[q] = call[q]
  BY <1>1 DEF TypeOK, Goto
<1>3. ASSUME NEW q \in Requests \ {r} PROVE CallTyped(pc[q], call[q], nextId')
  BY DEF CallsTyped, CallTyped, TypeOK, Ids
<1>4. QED  BY <1>2, <1>3 DEF CallsTyped

(* Seats are finitely many.                                                *)
LEMMA HoldingFinite == ASSUME NEW c PROVE IsFiniteSet(Holding(c))
  BY EnrollmentAssumption, FS_Subset DEF Holding

LEMMA OwedFinite == ASSUME NEW c PROVE IsFiniteSet(Owed(c))
<1> DEFINE S == {call[r].student : r \in Unpaid(c)}
           f == [r \in Unpaid(c) |-> call[r].student]
<1>1. IsFiniteSet(Unpaid(c))
  BY EnrollmentAssumption, FS_Subset DEF Unpaid
<1>2. f \in Surjection(Unpaid(c), S)
  BY DEF Surjection
<1> HIDE DEF f
<1>3. IsFiniteSet(S)
  BY <1>1, <1>2, FS_Surjection
<1>4. Owed(c) \subseteq S
  BY DEF Owed
<1> HIDE DEF S
<1>5. QED  BY <1>3, <1>4, FS_Subset

LEMMA TakenType ==
  ASSUME NEW c
  PROVE  Cardinality(Holding(c)) \in Nat /\ Cardinality(Owed(c)) \in Nat
  BY HoldingFinite, OwedFinite, FS_CardinalityType

(* Calls that come to hold no seat leave enough of them.                   *)
LEMMA FewerTaken ==
  ASSUME TypeOK, SeatsCover, UNCHANGED <<seats, admitted, removals>>,
         \A c \in CodeIds : Holding(c)' \subseteq Holding(c) /\ Owed(c)' \subseteq Owed(c)
  PROVE  SeatsCover'
<1> SUFFICES ASSUME NEW c \in CodeIds
             PROVE  admitted[c] + Taken(c)' <= seats[c] + removals
  BY DEF SeatsCover
<1>1. Cardinality(Holding(c)') <= Cardinality(Holding(c)) /\ Cardinality(Holding(c)') \in Nat
  BY HoldingFinite, FS_Subset, FS_CardinalityType
<1>2. Cardinality(Owed(c)') <= Cardinality(Owed(c)) /\ Cardinality(Owed(c)') \in Nat
  BY OwedFinite, FS_Subset, FS_CardinalityType
<1>3. QED  BY <1>1, <1>2, TakenType DEF SeatsCover, TypeOK, Taken

(* IInv holds at the beginning.                                            *)
LEMMA IInvInit == Init => IInv
<1> SUFFICES ASSUME Init PROVE IInv
  OBVIOUS
<1>1. \A c \in CodeIds : Holding(c) = {} /\ Owed(c) = {}
  BY DEF Init, Holding, Owed, Unpaid
<1>2. SeatsCover
  BY <1>1, FS_EmptySet DEF Init, SeatsCover, Taken
<1>3. TypeOK /\ CallsTyped
  BY EnrollmentAssumption DEF Init, TypeOK, CallsTyped, CallTyped, Ids, Joining
<1>4. UsesCounted /\ IdsUnique /\ LogsComplete /\ CompleteOrBroken
  BY EnrollmentAssumption DEF Init, UsesCounted, IsCode, IdsUnique, LogsComplete, CompleteOrBroken
<1>5. QED  BY <1>2, <1>3, <1>4 DEF IInv

-----------------------------------------------------------------------------
(* A step of a call that neither makes rows of the group nor is about to   *)
(* log them.                                                               *)
LEMMA SameGroup ==
  ASSUME IInv, NEW r \in Requests, NEW step \in (Joining \cup {"idle", "save"}) \ {"stats", "log"},
         NEW c, Goto(r, step, c), pc[r] \notin {"stats", "log"},
         CallTyped(step, c, nextId), UNCHANGED <<now, groupRows>>
  PROVE  /\ pc' \in [Requests -> Joining \cup {"idle", "save"}]
         /\ call' \in [Requests -> Calls \cup {NoCall}] /\ CallsTyped'
         /\ IdsUnique' /\ LogsComplete' /\ CompleteOrBroken'
<1> USE DEF IInv, groupRows
<1>1. /\ nextId' \in Int /\ nextId <= nextId' /\ TypeOK /\ CallsTyped
      /\ step \in Joining \cup {"idle", "save"}
      /\ CallTyped(step, c, nextId')
  BY DEF TypeOK, Ids, CallTyped
<1>2. /\ pc' \in [Requests -> Joining \cup {"idle", "save"}]
      /\ call' \in [Requests -> Calls \cup {NoCall}] /\ CallsTyped'
      /\ pc'[r] = step /\ call'[r] = c
      /\ \A q \in Requests \ {r} : pc'[q] = pc[q] /\ call'[q] = call[q]
  BY <1>1, GotoTyped
<1>3. IdsUnique'
  BY DEF IdsUnique
<1>4. LogsComplete'
  BY <1>2 DEF LogsComplete, Live
<1>5. \A e : Working(e)' <=> Working(e)
  BY <1>2 DEF Working
<1>6. CompleteOrBroken'
  BY <1>5 DEF CompleteOrBroken
<1>7. QED  BY <1>2, <1>3, <1>4, <1>6

(* Such a step that leaves the codes alone as well.                        *)
LEMMA QuietStep ==
  ASSUME IInv, NEW r \in Requests, NEW step \in (Joining \cup {"idle", "save"}) \ {"stats", "log"},
         NEW c, Goto(r, step, c), pc[r] \notin {"stats", "log"},
         CallTyped(step, c, nextId), UNCHANGED <<now, codeRows, groupRows>>,
         step \in {"find", "insert"} =>
           \/ c.code = NoCode
           \/ pc[r] \in {"find", "insert"} /\ c = call[r]
           \/ ~c.isNew /\ enrolled[c.student] # NoRow
  PROVE  IInv'
<1> USE EnrollmentAssumption DEF IInv, codeRows
<1>1. /\ pc' \in [Requests -> Joining \cup {"idle", "save"}]
      /\ call' \in [Requests -> Calls \cup {NoCall}] /\ CallsTyped'
      /\ IdsUnique' /\ LogsComplete' /\ CompleteOrBroken'
  BY SameGroup
<1>2. pc'[r] = step /\ call'[r] = c /\ \A q \in Requests \ {r} : pc'[q] = pc[q] /\ call'[q] = call[q]
  BY DEF Goto, TypeOK
<1>3. SeatsCover'
  <2>1. \A d \in CodeIds : Holding(d)' \subseteq Holding(d) /\ Owed(d)' \subseteq Owed(d)
    BY <1>2 DEF Holding, Owed, Unpaid, groupRows
  <2>2. QED  BY <2>1, FewerTaken DEF groupRows
<1>4. UsesCounted'
  BY DEF UsesCounted, IsCode
<1>5. TypeOK'
  BY <1>1 DEF TypeOK, groupRows
<1>6. QED  BY <1>1, <1>3, <1>4, <1>5

LEMMA JoinPreserves ==
  ASSUME IInv, NEW r \in Requests, NEW s \in Students, NEW n \in Names \cup {Direct}, Join(r, s, n)
  PROVE  IInv'
<1> DEFINE new == [student |-> s, code |-> NoCode, isNew |-> FALSE, id |-> NoRow,
                   answer |-> "none", asOf |-> IF n = Direct THEN 0 ELSE now]
<1>1. new \in JoinCall /\ new.id = NoRow /\ new.code = NoCode
  BY EnrollmentAssumption DEF IInv, TypeOK, JoinCall
<1>2. pc[r] = "idle" /\ UNCHANGED <<now, codeRows, groupRows>>
  BY DEF Join
<1>3. CASE n = Direct /\ Goto(r, "find", new)
  BY <1>1, <1>2, <1>3, QuietStep DEF CallTyped, Joining
<1>4. ASSUME NEW c \in CodeIds, Goto(r, "check", [new EXCEPT !.code = c]) PROVE IInv'
  <2>1. [new EXCEPT !.code = c] \in JoinCall /\ [new EXCEPT !.code = c].code = c
          /\ [new EXCEPT !.code = c].id = NoRow
    BY <1>1 DEF JoinCall
  <2>2. QED  BY <1>2, <1>4, <2>1, QuietStep DEF CallTyped, Joining
<1>5. CASE Goto(r, "done", [new EXCEPT !.answer = "invalid"])
  <2>1. [new EXCEPT !.answer = "invalid"] \in JoinCall
    BY <1>1 DEF JoinCall
  <2>2. QED  BY <1>2, <1>5, <2>1, QuietStep DEF CallTyped, Joining
<1>6. QED  BY <1>3, <1>4, <1>5 DEF Join, CodeNamed

LEMMA CheckPreserves == ASSUME IInv, NEW r \in Requests, Check(r) PROVE IInv'
<1>1. call[r] \in JoinCall /\ call[r].code \in CodeIds /\ call[r].id = NoRow
        /\ ~call[r].isNew /\ pc[r] = "check" /\ UNCHANGED <<now, codeRows, groupRows>>
  BY DEF IInv, CallsTyped, CallTyped, Check, Joining
<1>2. CASE Goto(r, "count", [call[r] EXCEPT !.isNew = TRUE])
  <2>1. [call[r] EXCEPT !.isNew = TRUE] \in JoinCall
          /\ [call[r] EXCEPT !.isNew = TRUE].code = call[r].code
          /\ [call[r] EXCEPT !.isNew = TRUE].isNew
          /\ [call[r] EXCEPT !.isNew = TRUE].id = NoRow
    BY <1>1 DEF JoinCall
  <2>2. QED  BY <1>1, <1>2, <2>1, QuietStep DEF CallTyped, Joining
<1>3. CASE Goto(r, "find", call[r]) /\ enrolled[call[r].student] # NoRow
  BY <1>1, <1>3, QuietStep DEF CallTyped, Joining
<1>4. QED  BY <1>2, <1>3 DEF Check, ToCount

LEMMA FindPreserves == ASSUME IInv, NEW r \in Requests, Find(r) PROVE IInv'
<1> DEFINE e == enrolled[call[r].student]
<1>1. call[r] \in JoinCall /\ call[r].id = NoRow /\ e \in Ids \cup {NoRow}
        /\ pc[r] = "find" /\ UNCHANGED <<now, codeRows, groupRows>>
  BY DEF IInv, CallsTyped, CallTyped, Find, Joining, TypeOK, JoinCall
<1>2. CASE Goto(r, "insert", call[r])
  BY <1>1, <1>2, QuietStep DEF CallTyped, Joining
<1>3. CASE Goto(r, "done", [call[r] EXCEPT !.id = e, !.answer = "ok"])
  <2>1. [call[r] EXCEPT !.id = e, !.answer = "ok"] \in JoinCall
    BY <1>1 DEF JoinCall
  <2>2. QED  BY <1>1, <1>3, <2>1, QuietStep DEF CallTyped, Joining
<1>4. QED  BY <1>2, <1>3 DEF Find

LEMMA RespondPreserves == ASSUME IInv, NEW r \in Requests, Respond(r) PROVE IInv'
  BY QuietStep DEF Respond, CallTyped, Joining

LEMMA UpdateReadPreserves == ASSUME IInv, NEW r \in Requests, UpdateRead(r) PROVE IInv'
<1>1. PICK c \in CodeIds, u \in Updates :
        /\ pc[r] = "idle" /\ IsCode(c)
        /\ Goto(r, "save", [edit |-> c, row |-> Updated(codes[c], u)])
        /\ UNCHANGED <<now, codeRows, groupRows>>
  BY DEF UpdateRead
<1>2. codes[c] \in Code /\ u \in Update
  BY <1>1, EnrollmentAssumption DEF IsCode, IInv, TypeOK
<1>3. Updated(codes[c], u) \in Code
  BY <1>2 DEF Updated, Given, Code, Update
<1>4. [edit |-> c, row |-> Updated(codes[c], u)] \in EditCall
  BY <1>3 DEF EditCall
<1>5. QED  BY <1>1, <1>4, QuietStep DEF CallTyped, Joining

-----------------------------------------------------------------------------
(* Counting pays the seat that the call then holds.                        *)
LEMMA CountPreserves == ASSUME IInv, NEW r \in Requests, Count(r) PROVE IInv'
<1> USE EnrollmentAssumption DEF IInv, codeRows
<1>0. PICK c \in CodeIds : call[r].code = c
  BY DEF CallsTyped, CallTyped, Count
<1>1. call[r] \in JoinCall /\ call[r].code = c /\ call[r].id = NoRow /\ pc[r] = "count"
        /\ call[r].isNew
        /\ UNCHANGED <<now, rewound, groupRows>>
  BY <1>0 DEF CallsTyped, CallTyped, Count, Joining
<1>2. CASE Answered(r, "invalid") /\ UNCHANGED <<codes, seats>>
  <2>1. [call[r] EXCEPT !.answer = "invalid"] \in JoinCall
    BY <1>1 DEF JoinCall
  <2>2. QED  BY <1>1, <1>2, <2>1, QuietStep DEF Answered, CallTyped, Joining
<1>3. CASE /\ IsCode(c) /\ codes' = [codes EXCEPT ![c].uses = @ + 1]
           /\ seats' = [seats EXCEPT ![c] = @ + 1] /\ Goto(r, "find", call[r])
  <2>1. CallTyped("find", call[r], nextId)
    BY <1>1 DEF CallTyped, Joining
  <2>2. /\ pc' \in [Requests -> Joining \cup {"idle", "save"}]
        /\ call' \in [Requests -> Calls \cup {NoCall}] /\ CallsTyped'
        /\ IdsUnique' /\ LogsComplete' /\ CompleteOrBroken'
    BY <1>1, <1>3, <2>1, SameGroup DEF Joining
  <2>3. pc'[r] = "find" /\ call' = call /\ \A q \in Requests \ {r} : pc'[q] = pc[q]
    BY <1>3 DEF Goto, TypeOK
  <2>4. codes[c] \in Code /\ codes'[c] \in Code /\ codes'[c].uses = codes[c].uses + 1
          /\ \A d \in CodeIds \ {c} : codes'[d] = codes[d]
    BY <1>1, <1>3 DEF IsCode, Code, TypeOK
  <2>5. TypeOK'
    BY <1>1, <1>3, <2>2, <2>4 DEF TypeOK, groupRows
  <2>6. UsesCounted'
    BY <1>1, <1>3, <2>4 DEF UsesCounted, IsCode, TypeOK
  <2>7. SeatsCover'
    <3> SUFFICES ASSUME NEW d \in CodeIds
                 PROVE  admitted[d] + Taken(d)' <= seats'[d] + removals
      BY <1>1 DEF SeatsCover, groupRows
    <3>0. Owed(d)' = Owed(d)
      BY <1>1, <2>3 DEF Owed, Unpaid, groupRows
    <3>1. CASE d = c
      <4>1. Holding(c)' = Holding(c) \cup {r} /\ r \notin Holding(c)
        BY <1>1, <2>3 DEF Holding
      <4>2. Cardinality(Holding(c)') = Cardinality(Holding(c)) + 1
              /\ Cardinality(Holding(c)) \in Nat
        BY <4>1, HoldingFinite, FS_AddElement, FS_CardinalityType
      <4>3. QED  BY <1>1, <1>3, <3>0, <3>1, <4>2, TakenType DEF SeatsCover, TypeOK, Taken
    <3>2. CASE d # c
      <4>1. Holding(d)' = Holding(d)
        BY <1>1, <2>3, <3>2 DEF Holding
      <4>2. admitted[d] + Taken(d) <= seats[d] + removals /\ seats'[d] = seats[d]
        BY <1>3, <3>2 DEF SeatsCover, TypeOK
      <4>3. QED  BY <3>0, <4>1, <4>2 DEF Taken
    <3>3. QED  BY <3>1, <3>2
  <2>8. QED  BY <2>2, <2>5, <2>6, <2>7
<1>4. QED  BY <1>0, <1>2, <1>3 DEF Count

(* A student is enrolled under an id that no row has seen.                 *)
LEMMA InsertPreserves == ASSUME IInv, NEW r \in Requests, Insert(r) PROVE IInv'
<1> USE EnrollmentAssumption DEF IInv, codeRows
<1> DEFINE s == call[r].student
           k == call[r].code
           new == [call[r] EXCEPT !.id = nextId]
<1>1. call[r] \in JoinCall /\ s \in Students /\ k \in CodeIds \cup {NoCode}
        /\ call[r].id = NoRow /\ pc[r] = "insert"
        /\ UNCHANGED <<now, codeRows, stats, logged, broken, removals>>
  BY DEF CallsTyped, CallTyped, Insert, Joining, JoinCall
<1>2. CASE Answered(r, "error") /\ UNCHANGED <<enrolled, nextId, admitted>>
  <2>1. [call[r] EXCEPT !.answer = "error"] \in JoinCall
    BY <1>1 DEF JoinCall
  <2>2. QED  BY <1>1, <1>2, <2>1, QuietStep DEF Answered, CallTyped, Joining, groupRows
<1>3. CASE /\ enrolled[s] = NoRow /\ nextId \in Ids
           /\ enrolled' = [enrolled EXCEPT ![s] = nextId] /\ nextId' = nextId + 1
           /\ admitted' = IF k = NoCode THEN admitted ELSE [admitted EXCEPT ![k] = @ + 1]
           /\ Goto(r, "stats", new)
  <2>1. new \in JoinCall /\ new.id = nextId
    BY <1>1, <1>3 DEF JoinCall
  <2>2. /\ CallTyped("stats", new, nextId') /\ "stats" \in Joining \cup {"idle", "save"}
        /\ nextId' \in Int /\ nextId <= nextId' /\ TypeOK /\ CallsTyped
        /\ Goto(r, "stats", new)
    BY <1>3, <2>1 DEF CallTyped, Joining, Ids
  <2> HIDE DEF new
  <2>3. /\ pc' \in [Requests -> Joining \cup {"idle", "save"}]
        /\ call' \in [Requests -> Calls \cup {NoCall}] /\ CallsTyped'
        /\ pc'[r] = "stats" /\ call'[r] = new
        /\ \A q \in Requests \ {r} : pc'[q] = pc[q] /\ call'[q] = call[q]
    BY <2>2, GotoTyped
  <2>4. TypeOK'
    BY <1>1, <1>3, <2>3 DEF TypeOK, Ids
  <2>5. UsesCounted'
    BY <1>1 DEF UsesCounted, IsCode
  <2>6. /\ enrolled'[s] = nextId /\ \A t \in Students \ {s} : enrolled'[t] = enrolled[t]
        /\ \A t \in Students : enrolled[t] # nextId
        /\ nextId \notin stats \cup logged \cup broken /\ nextId \in Nat /\ nextId # NoRow
    BY <1>1, <1>3 DEF TypeOK, IdsUnique, Ids
  <2>7. IdsUnique'
    BY <1>1, <1>3, <2>6 DEF IdsUnique, TypeOK, Ids
  <2>8. LogsComplete'
    BY <1>1, <2>3, <2>6 DEF LogsComplete, Live, CallsTyped, CallTyped, Ids
  <2>9. CompleteOrBroken'
    <3>1. \A e : Working(e) \/ e = nextId => Working(e)'
      BY <1>1, <2>1, <2>3 DEF Working
    <3>2. QED  BY <1>1, <2>6, <3>1 DEF CompleteOrBroken
  <2>10. SeatsCover'
    <3> SUFFICES ASSUME NEW d \in CodeIds
                 PROVE  admitted'[d] + Taken(d)' <= seats[d] + removals
      BY <1>1 DEF SeatsCover
    <3>1. Holding(d)' = Holding(d) \ {r} /\ Owed(d)' \subseteq Owed(d) \ {s}
      <4>1. Holding(d)' = Holding(d) \ {r} /\ Unpaid(d)' = Unpaid(d) \ {r}
        BY <2>3 DEF Holding, Unpaid
      <4>2. {call'[q].student : q \in Unpaid(d)'} \subseteq {call[q].student : q \in Unpaid(d)}
        BY <2>3, <4>1 DEF Unpaid
      <4>3. ASSUME NEW u \in {call[q].student : q \in Unpaid(d)}, enrolled'[u] = NoRow
            PROVE  u \in Owed(d) \ {s}
        <5>1. u \in Students
          <6>1. PICK q \in Requests : pc[q] \in {"find", "insert"} /\ u = call[q].student
            BY DEF Unpaid
          <6>2. call[q] \in JoinCall
            BY <6>1 DEF CallsTyped, CallTyped, Joining
          <6>3. QED  BY <6>1, <6>2 DEF JoinCall
        <5>2. QED  BY <2>6, <4>3, <5>1 DEF Owed
      <4>4. QED  BY <4>1, <4>2, <4>3 DEF Owed
    <3>2. Cardinality(Holding(d)) \in Nat /\ Cardinality(Holding(d)') \in Nat
          /\ Cardinality(Holding(d)') = IF r \in Holding(d) THEN Cardinality(Holding(d)) - 1
                                        ELSE Cardinality(Holding(d))
      BY <3>1, HoldingFinite, FS_RemoveElement, FS_CardinalityType
    <3>3. /\ Cardinality(Owed(d)) \in Nat /\ Cardinality(Owed(d)') \in Nat
          /\ Cardinality(Owed(d)') <= Cardinality(Owed(d))
          /\ s \in Owed(d) => Cardinality(Owed(d)') <= Cardinality(Owed(d)) - 1
      <4> DEFINE O == Owed(d)
                 P == Owed(d)'
      <4>1. IsFiniteSet(O) /\ IsFiniteSet(O \ {s}) /\ P \subseteq O \ {s}
            /\ Cardinality(O \ {s}) = IF s \in O THEN Cardinality(O) - 1 ELSE Cardinality(O)
        BY <3>1, OwedFinite, FS_RemoveElement
      <4> HIDE DEF O, P
      <4>2. IsFiniteSet(P) /\ Cardinality(P) <= Cardinality(O \ {s})
            /\ Cardinality(O) \in Nat /\ Cardinality(P) \in Nat
        BY <4>1, FS_Subset, FS_CardinalityType
      <4>3. QED  BY <4>1, <4>2 DEF O, P
    <3>4. d = k => r \in Holding(d) \/ s \in Owed(d)
      BY <1>1, <1>3 DEF Holding, Owed, Unpaid, JoinCall
    <3>5. admitted[d] \in Nat /\ admitted'[d] = IF d = k THEN admitted[d] + 1 ELSE admitted[d]
      BY <1>1, <1>3 DEF TypeOK
    <3>6. /\ admitted[d] + (Cardinality(Holding(d)) + Cardinality(Owed(d))) <= seats[d] + removals
          /\ seats[d] \in Nat /\ removals \in Nat
      BY DEF SeatsCover, TypeOK, Taken
    <3> HIDE DEF k
    <3>7. Taken(d)' = Cardinality(Holding(d)') + Cardinality(Owed(d)')
      BY DEF Taken
    <3>8. QED  BY <3>2, <3>3, <3>4, <3>5, <3>6, <3>7
  <2>11. QED  BY <2>3, <2>4, <2>5, <2>7, <2>8, <2>9, <2>10
<1>4. QED  BY <1>2, <1>3 DEF Insert, NotEnrolled, AfterInsert

-----------------------------------------------------------------------------
(* The last statements of a call, and a call that is cut short.            *)
LEMMA FinishPreserves ==
  ASSUME IInv, NEW r \in Requests, InsertStats(r) \/ Log(r) \/ Fail(r)
  PROVE  IInv'
<1> USE EnrollmentAssumption DEF IInv, codeRows
<1> DEFINE e == call[r].id
<1>1. UNCHANGED <<now, codeRows, enrolled, nextId, admitted, removals>> /\ nextId \in Nat
      /\ pc[r] \notin {"idle", "done"}
  BY DEF InsertStats, Log, Fail, TypeOK, Ids
<1>2. ASSUME NEW step \in {"idle", "log", "done"}, NEW c, Goto(r, step, c),
             CallTyped(step, c, nextId),
             stats' \subseteq Ids, logged' \subseteq Ids, broken' \subseteq Ids,
             \A i \in stats' \cup logged' \cup broken' : i < nextId,
             LogsComplete', CompleteOrBroken'
      PROVE  IInv'
  <2>1. /\ nextId' \in Int /\ nextId <= nextId' /\ CallTyped(step, c, nextId')
        /\ step \in Joining \cup {"idle", "save"} /\ TypeOK /\ CallsTyped
    BY <1>1, <1>2 DEF CallTyped, Joining
  <2>2. /\ pc' \in [Requests -> Joining \cup {"idle", "save"}]
        /\ call' \in [Requests -> Calls \cup {NoCall}] /\ CallsTyped'
        /\ pc'[r] = step /\ call'[r] = c
        /\ \A q \in Requests \ {r} : pc'[q] = pc[q] /\ call'[q] = call[q]
    BY <1>2, <2>1, GotoTyped
  <2>3. TypeOK'
    BY <1>1, <1>2, <2>2 DEF TypeOK
  <2>4. UsesCounted' /\ IdsUnique'
    BY <1>1, <1>2 DEF UsesCounted, IsCode, IdsUnique
  <2>5. \A d \in CodeIds : Holding(d)' \subseteq Holding(d) /\ Owed(d)' \subseteq Owed(d)
    BY <1>1, <1>2, <2>2 DEF Holding, Owed, Unpaid
  <2>6. UNCHANGED <<seats, admitted, removals>>
    BY <1>1
  <2>7. SeatsCover'
    BY <2>5, <2>6, FewerTaken
  <2>8. QED  BY <1>2, <2>2, <2>3, <2>4, <2>7
<1>3. ASSUME NEW step, NEW c, Goto(r, step, c)
      PROVE  /\ pc'[r] = step /\ call'[r] = c
             /\ \A q \in Requests \ {r} : pc'[q] = pc[q] /\ call'[q] = call[q]
  BY <1>3 DEF Goto, TypeOK
<1>4. CASE InsertStats(r)
  <2>1. PICK i \in Ids : call[r] \in JoinCall /\ call[r].id = i /\ i < nextId /\ pc[r] = "stats"
          /\ UNCHANGED <<logged, broken>>
    BY <1>4 DEF CallsTyped, CallTyped, InsertStats, Joining
  <2>2. CASE Live(i) /\ i \notin stats
    <3>1. stats' = stats \cup {i} /\ Goto(r, "log", call[r])
      BY <1>4, <2>1, <2>2 DEF InsertStats, MayInsertStats
    <3>2. LogsComplete'
      BY <1>1, <1>3, <2>1, <3>1 DEF LogsComplete, Live
    <3>3. CompleteOrBroken'
      <4>1. \A k : Working(k) => Working(k)'
        BY <1>3, <3>1 DEF Working
      <4>2. QED  BY <1>1, <2>1, <3>1, <4>1 DEF CompleteOrBroken
    <3>4. CallTyped("log", call[r], nextId)
      BY <2>1 DEF CallTyped, Joining
    <3>5. QED  BY <1>2, <2>1, <3>1, <3>2, <3>3, <3>4 DEF TypeOK, IdsUnique
  <2>3. CASE ~(Live(i) /\ i \notin stats)
    <3> DEFINE c == [call[r] EXCEPT !.answer = "error"]
    <3>1. UNCHANGED stats /\ Goto(r, "done", c)
      BY <1>4, <2>1, <2>3 DEF InsertStats, MayInsertStats, Answered
    <3>2. c \in JoinCall
      BY <2>1 DEF JoinCall
    <3>3. CallTyped("done", c, nextId)
      BY <3>2 DEF CallTyped
    <3> HIDE DEF c
    <3>4. LogsComplete'
      BY <1>1, <1>3, <3>1 DEF LogsComplete, Live
    <3>5. CompleteOrBroken'
      <4>1. \A k : Working(k) /\ k # i => Working(k)'
        BY <1>3, <2>1, <3>1 DEF Working
      <4>2. QED  BY <1>1, <2>1, <2>3, <3>1, <4>1 DEF CompleteOrBroken, Live
    <3>6. QED  BY <1>2, <2>1, <3>1, <3>3, <3>4, <3>5 DEF TypeOK, IdsUnique
  <2>4. QED  BY <2>2, <2>3
<1>5. CASE Log(r)
  <2>1. PICK i \in Ids : call[r] \in JoinCall /\ call[r].id = i /\ i < nextId /\ pc[r] = "log"
          /\ UNCHANGED <<stats, broken>> /\ logged' = logged \cup {i}
    BY <1>5 DEF CallsTyped, CallTyped, Log, Joining
  <2> DEFINE c == [call[r] EXCEPT !.answer = "ok"]
  <2>2. c \in JoinCall
    BY <2>1 DEF JoinCall
  <2>3. Goto(r, "done", c) /\ CallTyped("done", c, nextId)
    BY <1>5, <2>2 DEF Log, Answered, CallTyped
  <2> HIDE DEF c
  <2>4. LogsComplete'
    BY <1>1, <1>3, <2>1, <2>3 DEF LogsComplete, Live
  <2>5. CompleteOrBroken'
    <3>1. \A k : Working(k) /\ k # i => Working(k)'
      BY <1>3, <2>1, <2>3 DEF Working
    <3>2. Live(i) => i \in stats
      BY <2>1 DEF LogsComplete
    <3>3. QED  BY <1>1, <2>1, <3>1, <3>2 DEF CompleteOrBroken, Live
  <2>6. QED  BY <1>2, <2>1, <2>3, <2>4, <2>5 DEF TypeOK, IdsUnique
<1>6. CASE Fail(r)
  <2>1. Goto(r, "idle", NoCall) /\ UNCHANGED <<stats, logged>>
          /\ broken' = IF pc[r] = "save" THEN broken ELSE broken \cup ({e} \ {NoRow})
    BY <1>6 DEF Fail
  <2>2. /\ pc[r] \in {"check", "count", "find", "insert"} => e = NoRow
        /\ pc[r] \in {"stats", "log"} => e \in Ids /\ e < nextId
    BY DEF CallsTyped, CallTyped
  <2>3. pc[r] \in {"check", "count", "find", "insert", "stats", "log", "save"}
    BY <1>1 DEF TypeOK, Joining
  <2>4. /\ broken \subseteq broken' /\ broken' \subseteq Ids /\ \A i \in broken' : i < nextId
        /\ pc[r] \in {"stats", "log"} => e \in broken'
    <3>1. broken \subseteq Ids /\ \A i \in broken : i < nextId
      BY DEF TypeOK, IdsUnique
    <3>2. Ids \subseteq Nat
      BY DEF Ids
    <3> HIDE DEF e, IInv
    <3>3. CASE pc[r] = "save"
      BY <2>1, <3>1, <3>3
    <3>4. CASE pc[r] # "save" /\ e = NoRow
      BY <2>1, <2>2, <3>1, <3>2, <3>4
    <3>5. CASE pc[r] # "save" /\ e \in Ids /\ e < nextId
      BY <2>1, <3>1, <3>2, <3>5
    <3>6. QED  BY <2>2, <2>3, <3>3, <3>4, <3>5
  <2>5. LogsComplete'
    BY <1>1, <1>3, <2>1 DEF LogsComplete, Live
  <2>6. CompleteOrBroken'
    <3>1. \A k : Working(k) => (Working(k)' \/ k \in broken')
      BY <1>3, <2>1, <2>4 DEF Working
    <3>2. QED  BY <1>1, <2>1, <2>4, <3>1 DEF CompleteOrBroken
  <2>7. CallTyped("idle", NoCall, nextId)
    BY DEF CallTyped, Joining
  <2>8. QED  BY <1>2, <2>1, <2>4, <2>5, <2>6, <2>7 DEF TypeOK, IdsUnique
<1>7. QED  BY <1>4, <1>5, <1>6

-----------------------------------------------------------------------------
(* A statement on the codes only: what it writes is uncounted, or was      *)
(* written over.                                                           *)
LEMMA CodesPreserve ==
  ASSUME IInv, UNCHANGED <<now, seats, groupRows>>,
         UNCHANGED <<pc, call>> \/ (\E r \in Requests : pc[r] = "save" /\ Goto(r, "idle", NoCall)),
         NEW c \in CodeIds, \A d \in CodeIds \ {c} : codes'[d] = codes[d],
         codes' \in [CodeIds -> Code \cup {NoCode, Gone}],
         rewound' \in {rewound, rewound \cup {c}},
         \/ codes'[c] = Gone \/ c \in rewound' \/ codes'[c] = codes[c]
         \/ codes'[c] \in Code /\ codes'[c].uses = seats[c]
  PROVE  IInv'
<1> USE EnrollmentAssumption DEF IInv, groupRows
<1>1. /\ pc' \in [Requests -> Joining \cup {"idle", "save"}]
      /\ call' \in [Requests -> Calls \cup {NoCall}] /\ CallsTyped'
      /\ \A q \in Requests : \/ pc'[q] = pc[q] /\ call'[q] = call[q]
                             \/ pc[q] = "save" /\ pc'[q] = "idle"
  BY DEF Goto, TypeOK, CallsTyped, CallTyped, Joining
<1>2. TypeOK'
  BY <1>1 DEF TypeOK
<1>3. \A d \in CodeIds : Holding(d)' \subseteq Holding(d) /\ Owed(d)' \subseteq Owed(d)
  BY <1>1 DEF Holding, Owed, Unpaid
<1>4. SeatsCover'
  BY <1>3, FewerTaken
<1>5. UsesCounted'
  BY DEF UsesCounted, IsCode, TypeOK
<1>6. IdsUnique' /\ LogsComplete'
  BY <1>1 DEF IdsUnique, LogsComplete, Live
<1>7. CompleteOrBroken'
  <2>1. \A e : Working(e) => Working(e)'
    BY <1>1 DEF Working
  <2>2. QED  BY <2>1 DEF CompleteOrBroken
<1>8. QED  BY <1>1, <1>2, <1>4, <1>5, <1>6, <1>7

LEMMA LecturerPreserves ==
  ASSUME IInv, CreateCode \/ GenerateCode \/ DeleteCode PROVE IInv'
<1> USE EnrollmentAssumption DEF IInv, codeRows
<1>1. UNCHANGED <<now, seats, rewound, groupRows, pc, call>>
  BY DEF CreateCode, GenerateCode, DeleteCode
<1>2. ASSUME NEW n \in Names, NEW m \in Limits, NEW x \in Expiries, Persist(n, m, x)
      PROVE  IInv'
  <2> DEFINE row == [name |-> n, maxUses |-> m, expires |-> x, active |-> TRUE, uses |-> 0]
  <2>1. PICK c \in CodeIds : codes[c] = NoCode /\ codes' = [codes EXCEPT ![c] = row]
    BY <1>2 DEF Persist
  <2>2. row \in Code /\ row.uses = 0
    BY DEF Code
  <2> HIDE DEF row
  <2>3. /\ \A d \in CodeIds \ {c} : codes'[d] = codes[d]
        /\ codes' \in [CodeIds -> Code \cup {NoCode, Gone}] /\ codes'[c] = row
    BY <2>1, <2>2 DEF TypeOK
  <2>4. c \in rewound' \/ row.uses = seats[c]
    BY <1>1, <2>1, <2>2 DEF UsesCounted
  <2>5. QED  BY <1>1, <2>2, <2>3, <2>4, CodesPreserve
<1>3. CASE CreateCode
  BY <1>2, <1>3 DEF CreateCode
<1>4. CASE GenerateCode
  BY <1>2, <1>4 DEF GenerateCode, Expiries
<1>5. CASE DeleteCode
  <2>1. PICK c \in CodeIds : codes' = [codes EXCEPT ![c] = Gone]
    BY <1>5 DEF DeleteCode
  <2>2. /\ \A d \in CodeIds \ {c} : codes'[d] = codes[d]
        /\ codes' \in [CodeIds -> Code \cup {NoCode, Gone}] /\ codes'[c] = Gone
    BY <2>1 DEF TypeOK
  <2>3. QED  BY <1>1, <2>2, CodesPreserve
<1>6. QED  BY <1>3, <1>4, <1>5

(* A stale copy marks the code, unless nobody was counted meanwhile.       *)
LEMMA UpdateSavePreserves == ASSUME IInv, NEW r \in Requests, UpdateSave(r) PROVE IInv'
<1> USE EnrollmentAssumption DEF IInv
<1>1. PICK c \in CodeIds, row \in Code : call[r].edit = c /\ call[r].row = row
  BY DEF CallsTyped, CallTyped, UpdateSave, EditCall
<1>2. /\ pc[r] = "save" /\ Goto(r, "idle", NoCall) /\ UNCHANGED <<now, seats, groupRows>>
  BY DEF UpdateSave
<1>3. CASE UNCHANGED <<codes, rewound>>
  <2>1. codes' \in [CodeIds -> Code \cup {NoCode, Gone}]
    BY <1>3 DEF TypeOK
  <2>2. QED  BY <1>1, <1>2, <1>3, <2>1, CodesPreserve
<1>4. CASE /\ codes' = [codes EXCEPT ![c] = row]
           /\ rewound' = IF IsCode(c) /\ codes[c].uses = row.uses THEN rewound
                         ELSE rewound \cup {c}
  <2>1. /\ \A d \in CodeIds \ {c} : codes'[d] = codes[d]
        /\ codes' \in [CodeIds -> Code \cup {NoCode, Gone}] /\ codes'[c] = row
        /\ rewound' \in {rewound, rewound \cup {c}}
    BY <1>4 DEF TypeOK
  <2>2. c \in rewound' \/ row.uses = seats[c]
    BY <1>4 DEF UsesCounted
  <2>3. QED  BY <1>1, <1>2, <2>1, <2>2, CodesPreserve
<1>5. QED  BY <1>1, <1>3, <1>4 DEF UpdateSave

(* Rows of the group that no call works on, and the clock.                 *)
LEMMA OthersPreserve ==
  ASSUME IInv, RemoveStudent \/ EnsureStats \/ Tick \/ UNCHANGED vars
  PROVE  IInv'
<1> USE EnrollmentAssumption DEF IInv, codeRows, groupRows, vars
<1>1. UNCHANGED <<codes, seats, rewound, nextId, logged, admitted, broken, pc, call>>
  BY DEF RemoveStudent, EnsureStats, Tick
<1>2. TypeOK' /\ CallsTyped' /\ UsesCounted'
  BY DEF TypeOK, CallsTyped, UsesCounted, IsCode, RemoveStudent, EnsureStats, Tick
<1>3. SeatsCover'
  <2>1. CASE RemoveStudent
    <3>1. PICK s \in Students : enrolled' = [enrolled EXCEPT ![s] = NoRow] /\ removals' = removals + 1
      BY <2>1 DEF RemoveStudent
    <3> SUFFICES ASSUME NEW c \in CodeIds PROVE admitted[c] + Taken(c)' <= seats[c] + removals'
      BY <1>1 DEF SeatsCover
    <3>2. Holding(c)' = Holding(c) /\ Owed(c)' \subseteq Owed(c) \cup {s}
      BY <1>1, <3>1 DEF Holding, Owed, Unpaid, TypeOK
    <3>3. Cardinality(Owed(c)') <= Cardinality(Owed(c)) + 1 /\ Cardinality(Owed(c)') \in Nat
      <4> DEFINE O == Owed(c)
                 P == Owed(c)'
      <4>0. IsFiniteSet(O) /\ Cardinality(O) \in Nat /\ P \subseteq O \cup {s}
        BY <3>2, OwedFinite, TakenType
      <4> HIDE DEF O, P
      <4>1. IsFiniteSet(O \cup {s}) /\ Cardinality(O \cup {s}) =
              IF s \in O THEN Cardinality(O) ELSE Cardinality(O) + 1
        BY <4>0, FS_AddElement
      <4>2. IsFiniteSet(P) /\ Cardinality(P) <= Cardinality(O \cup {s})
            /\ Cardinality(P) \in Nat /\ Cardinality(O \cup {s}) \in Nat
        BY <4>0, <4>1, FS_Subset, FS_CardinalityType
      <4>3. QED  BY <4>0, <4>1, <4>2 DEF O, P
    <3>4. QED  BY <3>1, <3>2, <3>3, TakenType DEF SeatsCover, TypeOK, Taken
  <2>2. CASE EnsureStats \/ Tick \/ UNCHANGED vars
    <3>1. UNCHANGED <<enrolled, removals>>
      BY <2>2 DEF EnsureStats, Tick
    <3>2. \A c \in CodeIds : Holding(c)' \subseteq Holding(c) /\ Owed(c)' \subseteq Owed(c)
      BY <1>1, <3>1 DEF Holding, Owed, Unpaid
    <3>3. UNCHANGED <<seats, admitted, removals>>
      BY <1>1, <3>1
    <3>4. QED  BY <3>2, <3>3, FewerTaken
  <2>3. QED  BY <2>1, <2>2
<1>4. \A e : Working(e)' <=> Working(e)
  BY <1>1 DEF Working
<1>5. CASE RemoveStudent
  <2>1. PICK s \in Students : /\ enrolled[s] # NoRow /\ stats' = stats \ {enrolled[s]}
                              /\ enrolled' = [enrolled EXCEPT ![s] = NoRow]
    BY <1>5 DEF RemoveStudent
  <2>2. enrolled'[s] = NoRow /\ \A t \in Students \ {s} : /\ enrolled'[t] = enrolled[t]
                                                          /\ enrolled[t] # enrolled[s]
    BY <2>1 DEF TypeOK, IdsUnique
  <2>3. IdsUnique'
    BY <1>1, <2>1, <2>2 DEF IdsUnique
  <2>4. LogsComplete'
    <3> SUFFICES ASSUME NEW r \in Requests, pc[r] = "log", Live(call[r].id)'
                 PROVE  call[r].id \in stats'
      BY <1>1 DEF LogsComplete
    <3>1. call[r].id \in Ids
      BY DEF CallsTyped, CallTyped
    <3>2. PICK t \in Students : enrolled'[t] = call[r].id
      BY <1>1 DEF Live
    <3>3. t # s /\ enrolled[t] = call[r].id
      BY <2>2, <3>1, <3>2 DEF Ids
    <3>4. call[r].id \in stats
      BY <3>3 DEF LogsComplete, Live
    <3>5. QED  BY <2>1, <2>2, <3>3, <3>4
  <2>5. CompleteOrBroken'
    BY <1>1, <1>4, <2>1, <2>2 DEF CompleteOrBroken
  <2>6. QED  BY <1>2, <1>3, <2>3, <2>4, <2>5
<1>6. CASE EnsureStats
  <2>1. PICK s \in Students : /\ enrolled[s] # NoRow /\ stats' = stats \cup {enrolled[s]}
                              /\ UNCHANGED enrolled
    BY <1>6 DEF EnsureStats
  <2>2. IdsUnique' /\ LogsComplete'
    BY <1>1, <2>1 DEF IdsUnique, LogsComplete, Live
  <2>3. CompleteOrBroken'
    BY <1>1, <1>4, <2>1 DEF CompleteOrBroken
  <2>4. QED  BY <1>2, <1>3, <2>2, <2>3
<1>7. CASE Tick \/ UNCHANGED vars
  <2>1. UNCHANGED <<enrolled, stats>>
    BY <1>7 DEF Tick
  <2>2. IdsUnique' /\ LogsComplete'
    BY <1>1, <2>1 DEF IdsUnique, LogsComplete, Live
  <2>3. CompleteOrBroken'
    BY <1>1, <1>4, <2>1 DEF CompleteOrBroken
  <2>4. QED  BY <1>2, <1>3, <2>2, <2>3
<1>8. QED  BY <1>5, <1>6, <1>7

(* Every step preserves IInv.                                              *)
LEMMA IInvNext == IInv /\ [Next]_vars => IInv'
<1> SUFFICES ASSUME IInv, [Next]_vars PROVE IInv'
  OBVIOUS
<1>1. CASE \E r \in Requests : \E s \in Students, n \in Names \cup {Direct} : Join(r, s, n)
  BY <1>1, JoinPreserves
<1>2. CASE \E r \in Requests : Check(r) \/ Find(r) \/ Respond(r)
  BY <1>2, CheckPreserves, FindPreserves, RespondPreserves
<1>3. CASE \E r \in Requests : Count(r) \/ Insert(r)
  BY <1>3, CountPreserves, InsertPreserves
<1>4. CASE \E r \in Requests : InsertStats(r) \/ Log(r) \/ Fail(r)
  BY <1>4, FinishPreserves
<1>5. CASE \E r \in Requests : UpdateRead(r) \/ UpdateSave(r)
  BY <1>5, UpdateReadPreserves, UpdateSavePreserves
<1>6. CASE CreateCode \/ GenerateCode \/ DeleteCode
  BY <1>6, LecturerPreserves
<1>7. CASE RemoveStudent \/ EnsureStats \/ Tick \/ UNCHANGED vars
  BY <1>7, OthersPreserve
<1>8. QED
  BY <1>1, <1>2, <1>3, <1>4, <1>5, <1>6, <1>7 DEF Next

(* In a state of IInv, a code is counted within the limit it shows.        *)
LEMMA CountWithinLimit ==
  ASSUME IInv, [Next]_vars, NEW c \in CodeIds \ rewound, seats'[c] > seats[c],
         codes[c].maxUses # Unlimited
  PROVE  seats[c] < codes[c].maxUses
<1>1. PICK r \in Requests : Count(r)
  <2>1. UNCHANGED seats \/ \E r \in Requests : Count(r)
    BY DEF Next, vars, codeRows, Join, Check, Find, Insert, InsertStats, Log, Respond, Fail,
           UpdateRead, UpdateSave, CreateCode, GenerateCode, DeleteCode, RemoveStudent,
           EnsureStats, Tick
  <2>2. seats[c] \in Nat
    BY DEF IInv, TypeOK
  <2>3. QED  BY <2>1, <2>2
<1>2. call[r].code = c /\ IsCode(c) /\ Valid(codes[c], call[r].asOf)
  BY <1>1 DEF Count, Usable, Answered, IInv, TypeOK
<1>3. QED  BY <1>2 DEF Valid, IInv, UsesCounted

-----------------------------------------------------------------------------
(* Codes, enrollments and calls keep their types.                          *)
THEOREM EnrollmentTyped == Spec => []TypeOK
<1>1. IInv => TypeOK
  BY DEF IInv
<1>2. QED  BY <1>1, IInvInit, IInvNext, PTL DEF Spec

(* Nobody whom a code brings into the group comes in for free, but for one *)
(* student for each removal.                                               *)
THEOREM AdmissionIsPaid == Spec => []AdmittedArePaid
<1>1. IInv => AdmittedArePaid
  <2> SUFFICES ASSUME IInv, NEW c \in CodeIds PROVE admitted[c] <= seats[c] + removals
    BY DEF AdmittedArePaid
  <2>1. QED  BY TakenType DEF IInv, SeatsCover, TypeOK, Taken
<1>2. QED  BY <1>1, IInvInit, IInvNext, PTL DEF Spec

(* An enrollment without statistics is being made or its call was cut      *)
(* short.                                                                  *)
THEOREM EnrollmentComplete == Spec => []CompleteOrBroken
<1>1. IInv => CompleteOrBroken
  BY DEF IInv
<1>2. QED  BY <1>1, IInvInit, IInvNext, PTL DEF Spec

(* Overlapping calls never count a code beyond its limit, until a stale    *)
(* copy of its row is saved.                                               *)
THEOREM LimitHolds == Spec => SeatsWithinLimit
<1>1. IInv /\ [Next]_vars =>
        [\A c \in CodeIds \ rewound :
           (seats'[c] > seats[c] /\ codes[c].maxUses # Unlimited)
             => seats[c] < codes[c].maxUses]_vars
  BY CountWithinLimit
<1>2. QED  BY <1>1, IInvInit, IInvNext, PTL DEF Spec, SeatsWithinLimit
=============================================================================
