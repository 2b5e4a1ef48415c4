----------------------------- MODULE ShopOpening -----------------------------
(***************************************************************************)
(* When the shops of the groups open: the cron job that runs every minute, *)
(* updateShopStatus and the schedule part of updateGroup, and the notices  *)
(* students get.  Every statement is committed on its own, the job does    *)
(* not wait for its previous run, and several runs may overlap.            *)
(***************************************************************************)
EXTENDS Integers

CONSTANTS
  Groups,
  Jobs,      \* runs of the cron job that may overlap
  Requests,  \* lecturers' calls the server handles at the same time
  Statuses,  \* the values of shopOpen lecturers send
  Never,     \* the SQL NULL of shop_opens_at
  NoCall,    \* what an idle request works on
  MaxTime,   \* bound of the clock
  MaxFails   \* bound: statements that fail

ASSUME ShopOpeningAssumption ==
  Statuses \subseteq BOOLEAN /\ Never \notin Nat /\ MaxTime \in Nat /\ MaxFails \in Nat

VARIABLES
  now, fails,
  open,      \* groups.shop_open
  opensAt,   \* groups.shop_opens_at
  untold,    \* groups found and opened by the job, students not told yet
  job,       \* what each run of the job does: step, found groups, instant
  pc, call   \* what each request does

groups == <<open, opensAt, untold>>
vars == <<now, fails, groups, job, pc, call>>

Times == 0..(MaxTime + 1)   \* the last one is never reached
Resting == [step |-> "idle", found |-> {}, at |-> 0]
StatusCalls == [group : Groups, open : Statuses]
ScheduleCalls == [group : Groups, at : Times, wasOpen : BOOLEAN]

Init ==
  /\ now = 0 /\ fails = 0
  /\ open \in [Groups -> BOOLEAN]
  /\ opensAt = [g \in Groups |-> Never]
  /\ untold = {}
  /\ job = [j \in Jobs |-> Resting]
  /\ pc = [r \in Requests |-> "idle"] /\ call = [r \in Requests |-> NoCall]

Due(g, at) == ~open[g] /\ opensAt[g] # Never /\ opensAt[g] <= at

-----------------------------------------------------------------------------
(* handleShopOpenings: find the shops that are due, ...                    *)
JobFind(j) ==
  LET due == {g \in Groups : Due(g, now)} IN
  /\ job[j].step = "idle" /\ due # {}
  /\ job' = [job EXCEPT ![j] = [step |-> "update", found |-> due, at |-> now]]
  /\ UNCHANGED <<now, fails, groups, pc, call>>

(* Mutant: the shops that were found are opened by their ids.              *)
Found(j) == job[j].found

(* Mutant: LessThan instead of LessThanOrEqual in the update.              *)
DueBefore(j) == {g \in Groups : Due(g, job[j].at) /\ opensAt[g] < job[j].at}

(* ... open the ones that are due, by the same condition: maybe others as  *)
(* well, about whose opening nobody is told, ...                           *)
Opened(j) == {g \in Groups : Due(g, job[j].at)}

JobUpdate(j) ==
  /\ job[j].step = "update"
  /\ open' = [g \in Groups |-> open[g] \/ g \in Opened(j)]
  /\ opensAt' = [g \in Groups |-> IF g \in Opened(j) THEN Never ELSE opensAt[g]]
  /\ untold' = untold \cup (Opened(j) \cap job[j].found)
  /\ job' = [job EXCEPT ![j] = IF Opened(j) = {} THEN Resting
                               ELSE [job[j] EXCEPT !.step = "notify"]]
  /\ UNCHANGED <<now, fails, pc, call>>

(* Mutant: nobody is told about the last of the shops.                     *)
SomeTold(j, g) == job[j].found # {g}

Told(j, g) == TRUE

(* ... and tell the students of the groups that were found, in any order.  *)
JobNotify(j) ==
  /\ job[j].step = "notify"
  /\ \E g \in job[j].found :
       LET rest == job[j].found \ {g} IN
       /\ untold' = IF Told(j, g) THEN untold \ {g} ELSE untold
       /\ job' = [job EXCEPT ![j] = IF rest = {} THEN Resting
                                    ELSE [job[j] EXCEPT !.found = rest]]
  /\ UNCHANGED <<now, fails, open, opensAt, pc, call>>

AfterError == Resting

(* A statement of the job fails: the error is caught and logged.           *)
JobFail(j) ==
  /\ job[j].step # "idle" /\ fails < MaxFails
  /\ fails' = fails + 1
  /\ untold' = untold \ (IF job[j].step = "notify" THEN job[j].found ELSE {})
  /\ job' = [job EXCEPT ![j] = AfterError]
  /\ UNCHANGED <<now, open, opensAt, pc, call>>

-----------------------------------------------------------------------------
(* updateShopStatus: the opening time stays as it is.                      *)
SetStatus(r) ==
  \E c \in StatusCalls :
    /\ pc[r] = "idle"
    /\ open' = [open EXCEPT ![c.group] = c.open]
    /\ pc' = [pc EXCEPT ![r] = "notify"] /\ call' = [call EXCEPT ![r] = c]
    /\ UNCHANGED <<now, fails, opensAt, untold, job>>

(* updateGroup reads the group and compares the time with the clock ...    *)
Schedule(r) ==
  \E g \in Groups, t \in Times :
    /\ pc[r] = "idle"
    /\ pc' = [pc EXCEPT ![r] = IF t <= now THEN "openNow" ELSE "openLater"]
    /\ call' = [call EXCEPT ![r] = [group |-> g, at |-> t, wasOpen |-> open[g]]]
    /\ UNCHANGED <<now, fails, groups, job>>

(* ... and then opens the shop, or closes it until that time.              *)
OpenNow(r) ==
  LET g == call[r].group IN
  /\ pc[r] = "openNow"
  /\ open' = [open EXCEPT ![g] = TRUE]
  /\ opensAt' = [opensAt EXCEPT ![g] = Never]
  /\ pc' = [pc EXCEPT ![r] = IF call[r].wasOpen THEN "idle" ELSE "notify"]
  /\ call' = [call EXCEPT ![r] = IF @.wasOpen THEN NoCall ELSE @]
  /\ UNCHANGED <<now, fails, untold, job>>

OpenLater(r) ==
  LET g == call[r].group IN
  /\ pc[r] = "openLater"
  /\ open' = [open EXCEPT ![g] = FALSE]
  /\ opensAt' = [opensAt EXCEPT ![g] = call[r].at]
  /\ pc' = [pc EXCEPT ![r] = "idle"] /\ call' = [call EXCEPT ![r] = NoCall]
  /\ UNCHANGED <<now, fails, untold, job>>

(* The notice of a lecturer's call.                                        *)
Notify(r) ==
  /\ pc[r] = "notify"
  /\ untold' = untold \ {call[r].group}
  /\ pc' = [pc EXCEPT ![r] = "idle"] /\ call' = [call EXCEPT ![r] = NoCall]
  /\ UNCHANGED <<now, fails, open, opensAt, job>>

(* updateGroup with shopOpensAt = null.                                    *)
Unschedule(r) ==
  \E g \in Groups :
    /\ pc[r] = "idle"
    /\ opensAt' = [opensAt EXCEPT ![g] = Never]
    /\ UNCHANGED <<now, fails, open, untold, job, pc, call>>

Fail(r) ==
  /\ pc[r] # "idle" /\ fails < MaxFails
  /\ fails' = fails + 1
  /\ untold' = untold \ (IF pc[r] = "notify" THEN {call[r].group} ELSE {})
  /\ pc' = [pc EXCEPT ![r] = "idle"] /\ call' = [call EXCEPT ![r] = NoCall]
  /\ UNCHANGED <<now, open, opensAt, job>>

Tick ==
  /\ now < MaxTime
  /\ now' = now + 1
  /\ UNCHANGED <<fails, groups, job, pc, call>>

JobStep(j) == JobFind(j) \/ JobUpdate(j) \/ JobNotify(j)
Next ==
  \/ \E j \in Jobs : JobStep(j) \/ JobFail(j)
  \/ \E r \in Requests : SetStatus(r) \/ Schedule(r) \/ OpenNow(r) \/ OpenLater(r)
                         \/ Notify(r) \/ Unschedule(r) \/ Fail(r)
  \/ Tick

(* The scheduler starts a run every minute and the database answers it;    *)
(* nobody has to call anything.                                            *)
Fairness == \A j \in Jobs : WF_vars(JobStep(j))
Spec == Init /\ [][Next]_vars
FairSpec == Spec /\ Fairness

-----------------------------------------------------------------------------
TypeOK ==
  /\ now \in 0..MaxTime /\ fails \in 0..MaxFails
  /\ open \in [Groups -> BOOLEAN] /\ opensAt \in [Groups -> Times \cup {Never}]
  /\ untold \subseteq Groups
  /\ job \in [Jobs -> [step : {"idle", "update", "notify"}, found : SUBSET Groups,
                       at : Times]]
  /\ pc \in [Requests -> {"idle", "openNow", "openLater", "notify"}]
  /\ call \in [Requests -> StatusCalls \cup ScheduleCalls \cup {NoCall}]

(* The job opens a shop only at a time the lecturer has set for it and has *)
(* not moved to later since, however the job and the calls overlap.        *)
OpensOnTime ==
  [][\A g \in Groups : (open'[g] /\ ~open[g] /\ pc' = pc)
       => opensAt[g] # Never /\ opensAt[g] <= now]_vars

(* The students of every shop the job has found and opened are told, also  *)
(* when another run has found it too: only a failure loses the notice.     *)
OpeningAnnounced ==
  \A g \in untold : \E j \in Jobs : job[j].step = "notify" /\ g \in job[j].found

(* A shop that is due does not stay closed, unless the lecturer changes    *)
(* its schedule: also after an error the job looks for it again.           *)
DueOpens == \A g \in Groups : Due(g, now) ~> ~Due(g, now)

=============================================================================
