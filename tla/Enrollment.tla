----------------------------- MODULE Enrollment -----------------------------
(***************************************************************************)
(* Joining a group, with an enrollment code or without, and the lecturer's *)
(* calls on the codes.  No call opens a transaction: every statement is    *)
(* committed when it ends, so other calls run, and the process may die,    *)
(* between any two of them.                                                *)
(***************************************************************************)
EXTENDS Integers, FiniteSets

CONSTANTS
  Students,    \* accounts that may join the group
  Names,       \* texts of enrollment codes
  CodeIds,     \* primary keys of enrollment_codes
  Unlimited,   \* the SQL NULL of max_uses and of expires_at
  NoCode,      \* no code row has this key yet
  Gone,        \* the code row was deleted
  NoRow,       \* there is no enrollment, or no student_stats row
  NoCall,      \* what an idle request works on
  Direct,      \* joining without a code
  Limits,      \* the values of max_uses lecturers use
  Keep,        \* a field that an update of a code leaves out
  Updates,     \* the updates of codes lecturers send
  MaxTime,     \* bound of the clock
  MaxIds,      \* bound: enrollment ids the sequence hands out
  MaxSeats,    \* bound: no call begins with a code that was used as often
  Requests     \* the calls the server handles at the same time

Expiries == 0..MaxTime \cup {Unlimited}

(* The rows of enrollment_codes, and the DTO of their updates.             *)
Code == [name : Names, maxUses : Limits, expires : Expiries, active : BOOLEAN, uses : Nat]
Update == [maxUses : Limits \cup {Keep}, expires : Expiries \cup {Keep},
           active : BOOLEAN \cup {Keep}]

ASSUME EnrollmentAssumption ==
  /\ Unlimited \notin Nat /\ NoRow \notin Nat /\ NoCode \notin CodeIds
  /\ Limits \subseteq (Nat \ {0}) \cup {Unlimited} /\ Unlimited \in Limits
  /\ Updates \subseteq Update
  /\ NoCode \notin Code /\ Gone \notin Code /\ NoCode # Gone
  /\ MaxTime \in Nat /\ MaxIds \in Nat /\ MaxSeats \in Nat /\ Direct \notin Names
  /\ IsFiniteSet(Requests)

VARIABLES
  now,       \* the clock
  codes,     \* enrollment_codes
  enrolled,  \* enrolled[s]: the id of the enrollment of s, or NoRow
  nextId,    \* the sequence of enrollment ids
  stats,     \* the enrollment ids that have a student_stats row
  logged,    \* the enrollment ids whose STUDENT_JOINED event is in the backlog
  seats,     \* seats[c]: how often use_count of c was incremented
  admitted,  \* admitted[c]: enrollments of students that c was counted for
  broken,    \* the enrollment ids whose call was cut short by a failure
  removals,  \* how often a lecturer removed a student
  rewound,   \* codes whose row a lecturer's stale copy was written over
  pc, call

codeRows == <<codes, seats, rewound>>
groupRows == <<enrolled, nextId, stats, logged, admitted, broken, removals>>
vars == <<now, codeRows, groupRows, pc, call>>

Ids == 1..MaxIds
Calls == [student : Students, code : CodeIds \cup {NoCode}, isNew : BOOLEAN,
          asOf : 0..MaxTime, id : Ids \cup {NoRow}, answer : {"none", "ok", "invalid", "error"}]
           \cup [edit : CodeIds, row : Code]
Joining == {"check", "count", "find", "insert", "stats", "log", "done"}

Init ==
  /\ now = 0
  /\ codes = [c \in CodeIds |-> NoCode]
  /\ enrolled = [s \in Students |-> NoRow] /\ nextId = 1
  /\ stats = {} /\ logged = {} /\ broken = {} /\ removals = 0 /\ rewound = {}
  /\ seats = [c \in CodeIds |-> 0] /\ admitted = [c \in CodeIds |-> 0]
  /\ pc = [r \in Requests |-> "idle"] /\ call = [r \in Requests |-> NoCall]

-----------------------------------------------------------------------------
Goto(r, step, c) ==
  /\ pc' = [pc EXCEPT ![r] = step]
  /\ call' = [call EXCEPT ![r] = c]

Answered(r, a) == Goto(r, "done", [call[r] EXCEPT !.answer = a])

Expired(c, asOf) == c.expires # Unlimited /\ c.expires <= asOf

(* validateCodeEntity, and the same conditions in tryIncrementUseCount.    *)
Valid(c, asOf) ==
  /\ c.active /\ ~Expired(c, asOf)
  /\ c.maxUses # Unlimited => c.uses < c.maxUses

(* Mutant: the update relies on the check that was made before.            *)
ActiveOnly(c, asOf) == c.active /\ ~Expired(c, asOf)

Usable(c, asOf) == Valid(c, asOf)

IsCode(c) == codes[c] \notin {NoCode, Gone}

CodeNamed(n) == {c \in CodeIds : IsCode(c) /\ codes[c].name = n}

(* POST enroll and GET invite: the code is looked up and checked as of the *)
(* instant that counts for the whole call.                                 *)
Join(r, s, n) ==
  LET new == [student |-> s, code |-> NoCode, isNew |-> FALSE, id |-> NoRow,
              answer |-> "none", asOf |-> IF n = Direct THEN 0 ELSE now]
  IN /\ pc[r] = "idle"
     /\ \/ n = Direct /\ Goto(r, "find", new)
        \/ \E c \in CodeNamed(n) :
             /\ Valid(codes[c], now) /\ seats[c] < MaxSeats
             /\ Goto(r, "check", [new EXCEPT !.code = c])
        \/ /\ n # Direct /\ \A c \in CodeNamed(n) : ~Valid(codes[c], now)
           /\ Goto(r, "done", [new EXCEPT !.answer = "invalid"])
     /\ UNCHANGED <<now, codeRows, groupRows>>

(* Mutant: the code is not used up before the student is enrolled.         *)
NoCount == "find"

ToCount == "count"

(* enrollStudentByCode: who is enrolled already does not use up the code,  *)
(* and joins with it all the same.                                         *)
Check(r) ==
  /\ pc[r] = "check"
  /\ IF enrolled[call[r].student] = NoRow
     THEN Goto(r, ToCount, [call[r] EXCEPT !.isNew = TRUE])
     ELSE Goto(r, "find", call[r])
  /\ UNCHANGED <<now, codeRows, groupRows>>

(* tryIncrementUseCount: one conditional UPDATE.                           *)
Count(r) ==
  LET c == call[r].code IN
  /\ pc[r] = "count"
  /\ IF IsCode(c) /\ Usable(codes[c], call[r].asOf)
     THEN /\ codes' = [codes EXCEPT ![c].uses = @ + 1]
          /\ seats' = [seats EXCEPT ![c] = @ + 1]
          /\ Goto(r, "find", call[r])
     ELSE Answered(r, "invalid") /\ UNCHANGED <<codes, seats>>
  /\ UNCHANGED <<now, rewound, groupRows>>

(* enrollStudentById: an enrollment that exists is the answer.             *)
Find(r) ==
  LET e == enrolled[call[r].student] IN
  /\ pc[r] = "find"
  /\ IF e = NoRow THEN Goto(r, "insert", call[r])
     ELSE Goto(r, "done", [call[r] EXCEPT !.id = e, !.answer = "ok"])
  /\ UNCHANGED <<now, codeRows, groupRows>>

(* UNIQUE (group_id, student_account_id).                                  *)
NotEnrolled(s) == enrolled[s] = NoRow

(* Mutant: a new enrollment gets no statistics.                            *)
NoStats == "log"

AfterInsert == "stats"

Insert(r) ==
  LET s == call[r].student
      c == call[r].code
  IN /\ pc[r] = "insert"
     /\ IF NotEnrolled(s)
        THEN /\ nextId \in Ids
             /\ enrolled' = [enrolled EXCEPT ![s] = nextId]
             /\ nextId' = nextId + 1
             /\ admitted' = IF c = NoCode THEN admitted
                            ELSE [admitted EXCEPT ![c] = @ + 1]
             /\ Goto(r, AfterInsert, [call[r] EXCEPT !.id = nextId])
        ELSE Answered(r, "error") /\ UNCHANGED <<enrolled, nextId, admitted>>
     /\ UNCHANGED <<now, codeRows, stats, logged, broken, removals>>

Live(e) == \E s \in Students : enrolled[s] = e

(* student_stats: the enrollment must exist and have no row yet.           *)
MayInsertStats(e) == Live(e) /\ e \notin stats

InsertStats(r) ==
  LET e == call[r].id IN
  /\ pc[r] = "stats"
  /\ IF MayInsertStats(e)
     THEN stats' = stats \cup {e} /\ Goto(r, "log", call[r])
     ELSE Answered(r, "error") /\ UNCHANGED stats
  /\ UNCHANGED <<now, codeRows, enrolled, nextId, logged, admitted, broken, removals>>

Log(r) ==
  /\ pc[r] = "log"
  /\ logged' = logged \cup {call[r].id}
  /\ Answered(r, "ok")
  /\ UNCHANGED <<now, codeRows, enrolled, nextId, stats, admitted, broken, removals>>

(* The response is sent.                                                   *)
Respond(r) ==
  /\ pc[r] = "done"
  /\ Goto(r, "idle", NoCall)
  /\ UNCHANGED <<now, codeRows, groupRows>>

(* The connection, the database or the process fails.                      *)
Fail(r) ==
  /\ pc[r] \notin {"idle", "done"}
  /\ broken' = IF pc[r] = "save" THEN broken
               ELSE broken \cup ({call[r].id} \ {NoRow})
  /\ Goto(r, "idle", NoCall)
  /\ UNCHANGED <<now, codeRows, enrolled, nextId, stats, logged, admitted, removals>>

-----------------------------------------------------------------------------
(* The remaining calls are one statement, or one transaction, each.        *)
Served == \E r \in Requests : pc[r] = "idle"

(* A code is inserted under a text the group does not use yet: a generated *)
(* text that is taken is drawn again.                                      *)
Persist(n, m, x) ==
  \E c \in CodeIds :
    /\ codes[c] = NoCode /\ CodeNamed(n) = {}
    /\ codes' = [codes EXCEPT ![c] = [name |-> n, maxUses |-> m, expires |-> x,
                                      active |-> TRUE, uses |-> 0]]

(* createCode, with a limit and an expiry the lecturer chooses ...         *)
CreateCode ==
  /\ Served
  /\ \E n \in Names, m \in Limits, x \in Expiries : Persist(n, m, x)
  /\ UNCHANGED <<now, seats, rewound, groupRows, pc, call>>

(* ... and generateCodeForGroup, without.                                  *)
GenerateCode ==
  /\ Served
  /\ \E n \in Names : Persist(n, Unlimited, Unlimited)
  /\ UNCHANGED <<now, seats, rewound, groupRows, pc, call>>

DeleteCode ==
  /\ Served
  /\ \E c \in CodeIds :
       /\ IsCode(c)
       /\ codes' = [codes EXCEPT ![c] = Gone]
       /\ UNCHANGED <<now, seats, rewound, groupRows, pc, call>>

Given(field, old) == IF field = Keep THEN old ELSE field

Updated(row, u) == [row EXCEPT !.maxUses = Given(u.maxUses, @),
                               !.expires = Given(u.expires, @),
                               !.active = Given(u.active, @)]

(* updateCode reads the row and applies the fields that are given ...      *)
UpdateRead(r) ==
  \E c \in CodeIds, u \in Updates :
    /\ pc[r] = "idle" /\ IsCode(c)
    /\ Goto(r, "save", [edit |-> c, row |-> Updated(codes[c], u)])
    /\ UNCHANGED <<now, codeRows, groupRows>>

(* ... and save writes every column that differs from the row it finds,    *)
(* or inserts the row when it finds none.                                  *)
UpdateSave(r) ==
  LET c == call[r].edit  row == call[r].row IN
  /\ pc[r] = "save"
  /\ IF ~IsCode(c) /\ CodeNamed(row.name) # {}
     THEN UNCHANGED <<codes, rewound>>
     ELSE /\ codes' = [codes EXCEPT ![c] = row]
          /\ rewound' = IF IsCode(c) /\ codes[c].uses = row.uses THEN rewound
                        ELSE rewound \cup {c}
  /\ Goto(r, "idle", NoCall)
  /\ UNCHANGED <<now, seats, groupRows>>

(* removeStudent: one transaction; a student_stats row inserted meanwhile  *)
(* makes it fail, which changes nothing.                                   *)
RemoveStudent ==
  /\ Served
  /\ \E s \in Students :
       /\ enrolled[s] # NoRow
       /\ stats' = stats \ {enrolled[s]}
       /\ enrolled' = [enrolled EXCEPT ![s] = NoRow]
       /\ removals' = removals + 1
       /\ UNCHANGED <<now, codeRows, nextId, logged, admitted, broken, pc, call>>

(* A lecturer's reward or lives call makes a missing row.                  *)
EnsureStats ==
  /\ Served
  /\ \E s \in Students :
       /\ enrolled[s] # NoRow /\ enrolled[s] \notin stats
       /\ stats' = stats \cup {enrolled[s]}
       /\ UNCHANGED <<now, codeRows, enrolled, nextId, logged, admitted, broken, removals,
                      pc, call>>

Tick ==
  /\ now < MaxTime
  /\ now' = now + 1
  /\ UNCHANGED <<codeRows, groupRows, pc, call>>

Next ==
  \/ \E r \in Requests :
       \/ \E s \in Students, n \in Names \cup {Direct} : Join(r, s, n)
       \/ Check(r) \/ Count(r) \/ Find(r) \/ Insert(r) \/ InsertStats(r)
       \/ Log(r) \/ Respond(r) \/ Fail(r) \/ UpdateRead(r) \/ UpdateSave(r)
  \/ CreateCode \/ GenerateCode \/ DeleteCode \/ RemoveStudent \/ EnsureStats \/ Tick

Spec == Init /\ [][Next]_vars

-----------------------------------------------------------------------------
TypeOK ==
  /\ now \in 0..MaxTime
  /\ codes \in [CodeIds -> Code \cup {NoCode, Gone}]
  /\ enrolled \in [Students -> Ids \cup {NoRow}] /\ nextId \in 1..(MaxIds + 1)
  /\ stats \subseteq Ids /\ logged \subseteq Ids /\ broken \subseteq Ids
  /\ rewound \subseteq CodeIds /\ removals \in Nat
  /\ seats \in [CodeIds -> Nat] /\ admitted \in [CodeIds -> Nat]
  /\ pc \in [Requests -> Joining \cup {"idle", "save"}]
  /\ call \in [Requests -> Calls \cup {NoCall}]

(* However the calls overlap, a code lets in only as many calls as its     *)
(* limit allows at that moment, until a stale copy of its row is saved.    *)
SeatsWithinLimit ==
  [][\A c \in CodeIds \ rewound :
       (seats'[c] > seats[c] /\ codes[c].maxUses # Unlimited)
         => seats[c] < codes[c].maxUses]_vars

(* Every student whom a code brings into the group has used it up once,    *)
(* whatever fails and however calls overlap, but for one case: a call      *)
(* that found its student enrolled lets the student in for free when a     *)
(* lecturer removes the student before its second look.  Each removal      *)
(* gives away one seat of a code at most, however many calls are waiting.  *)
AdmittedArePaid == \A c \in CodeIds : admitted[c] <= seats[c] + removals

Working(e) == \E r \in Requests : pc[r] \in {"stats", "log"} /\ call[r].id = e

(* An enrollment without its statistics is one that a call is still        *)
(* working on, or one whose call was cut short: nothing else that          *)
(* students and lecturers do leaves one behind, and who is said to have    *)
(* joined has statistics.                                                  *)
CompleteOrBroken ==
  \A s \in Students : LET e == enrolled[s] IN
    (e # NoRow /\ e \notin stats) => (Working(e) \/ e \in broken) /\ e \notin logged
=============================================================================
