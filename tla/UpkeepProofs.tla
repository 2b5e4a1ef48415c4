----------------------------- MODULE UpkeepProofs -----------------------------
(***************************************************************************)
(* What lecturers and the clock keep up besides the students' rows:        *)
(* ShopOpening, the opening hours and the job that opens the shops that    *)
(* are due, for every number of groups, of runs of the job and of calls    *)
(* that overlap; LogStore, the log files the hourly job archives and       *)
(* deletes, for every calendar, retention and number of interruptions;     *)
(* Catalogue, the items on sale, for every number of items, categories and *)
(* edits that overlap; and Pricing, what an item costs, for every listing, *)
(* number of badges and ranks and discounts they carry.  That what is due  *)
(* opens and what has expired is deleted rests on fairness and is          *)
(* model-checked only.                                                     *)
(***************************************************************************)
EXTENDS ShopOpening, LogStore, Catalogue, Pricing, FiniteSetTheorems,
        WellFoundedInduction, TLAPS

(* What a call and a run of the job rely on: a call that schedules has a   *)
(* time, the instant of a run has passed.                                  *)
Carried ==
  /\ \A r \in Requests :
       /\ pc[r] \in {"openNow", "openLater"} => call[r] \in ScheduleCalls
       /\ pc[r] = "notify" => call[r] \in StatusCalls \cup ScheduleCalls
  /\ \A j \in Jobs : job[j].step # "idle" => job[j].at <= now

IInv == TypeOK /\ Carried /\ OpeningAnnounced

(* IInv holds at the beginning.                                            *)
LEMMA IInvInit == Init => IInv
  BY ShopOpeningAssumption DEF Init, IInv, TypeOK, Carried, OpeningAnnounced, Resting, Times

(* A run of the job keeps what is known about calls and announcements.     *)
LEMMA JobPreserves ==
  ASSUME IInv, NEW j \in Jobs, JobStep(j) \/ JobFail(j)
  PROVE  IInv'
<1> USE ShopOpeningAssumption DEF IInv, groups
<1>1. job[j] \in [step : {"idle", "update", "notify"}, found : SUBSET Groups, at : Times]
        /\ UNCHANGED <<now, pc, call>> /\ now \in Times
  BY DEF JobStep, JobFind, JobUpdate, JobNotify, JobFail, TypeOK, Times
<1> DEFINE Fits(new) ==
      /\ new \in [step : {"idle", "update", "notify"}, found : SUBSET Groups, at : Times]
      /\ job' = [job EXCEPT ![j] = new] /\ (new.step # "idle" => new.at <= now)
      /\ fails' \in 0..MaxFails /\ open' \in [Groups -> BOOLEAN]
      /\ opensAt' \in [Groups -> Times \cup {Never}] /\ untold' \subseteq Groups
      /\ \A g \in untold' : \/ new.step = "notify" /\ g \in new.found
                            \/ g \in untold /\ ~(job[j].step = "notify" /\ g \in job[j].found)
<1>2. ASSUME NEW new, Fits(new) PROVE IInv'
  <2>1. job'[j] = new /\ \A k \in Jobs \ {j} : job'[k] = job[k]
    BY <1>2 DEF TypeOK
  <2>2. TypeOK'
    BY <1>1, <1>2 DEF TypeOK
  <2>3. Carried'
    BY <1>1, <1>2, <2>1 DEF Carried
  <2>4. OpeningAnnounced'
    BY <1>2, <2>1 DEF OpeningAnnounced
  <2>5. QED  BY <2>2, <2>3, <2>4
<1>3. CASE JobFind(j)
  <2> DEFINE new == [step |-> "update", found |-> {g \in Groups : Due(g, now)}, at |-> now]
  <2>1. new \in [step : {"idle", "update", "notify"}, found : SUBSET Groups, at : Times]
    BY <1>1
  <2>2. job' = [job EXCEPT ![j] = new] /\ UNCHANGED <<fails, open, opensAt, untold>>
          /\ job[j].step = "idle" /\ new.at = now
    BY <1>3 DEF JobFind
  <2> HIDE DEF new
  <2>3. Fits(new)
    BY <1>1, <2>1, <2>2 DEF TypeOK, Times
  <2> HIDE DEF Fits
  <2>4. QED  BY <1>2, <2>3
<1>4. CASE JobUpdate(j)
  <2> DEFINE new == IF Opened(j) = {} THEN Resting ELSE [job[j] EXCEPT !.step = "notify"]
  <2>1. /\ new \in [step : {"idle", "update", "notify"}, found : SUBSET Groups, at : Times]
        /\ (new.step # "idle" => new.at <= now)
    BY <1>1, <1>4 DEF Resting, Times, Carried, JobUpdate
  <2>2. /\ job' = [job EXCEPT ![j] = new] /\ UNCHANGED fails
        /\ open' \in [Groups -> BOOLEAN] /\ opensAt' \in [Groups -> Times \cup {Never}]
        /\ untold' = untold \cup (Opened(j) \cap job[j].found) /\ Opened(j) \subseteq Groups
    BY <1>4 DEF JobUpdate, Opened, TypeOK
  <2>3. \A g \in Opened(j) \cap job[j].found : new.step = "notify" /\ g \in new.found
    BY <1>1
  <2>4. job[j].step # "notify"
    BY <1>4 DEF JobUpdate
  <2> HIDE DEF new
  <2>5. \A g \in untold' : \/ new.step = "notify" /\ g \in new.found
                           \/ g \in untold /\ ~(job[j].step = "notify" /\ g \in job[j].found)
    BY <2>2, <2>3, <2>4
  <2>6. fails' \in 0..MaxFails /\ untold' \subseteq Groups
    BY <1>1, <2>2 DEF TypeOK
  <2>7. Fits(new)
    BY <1>1, <2>1, <2>2, <2>5, <2>6 DEF TypeOK, Times
  <2> HIDE DEF Fits
  <2>8. QED  BY <1>2, <2>7
<1>5. CASE JobNotify(j)
  <2>1. PICK g \in job[j].found :
          /\ untold' = untold \ {g}
          /\ job' = [job EXCEPT ![j] = IF job[j].found \ {g} = {} THEN Resting
                                       ELSE [job[j] EXCEPT !.found = job[j].found \ {g}]]
    BY <1>5 DEF JobNotify, Told
  <2> DEFINE new == IF job[j].found \ {g} = {} THEN Resting
                    ELSE [job[j] EXCEPT !.found = job[j].found \ {g}]
  <2>2. job[j].step = "notify" /\ UNCHANGED <<fails, open, opensAt>>
    BY <1>5 DEF JobNotify
  <2>3. /\ new \in [step : {"idle", "update", "notify"}, found : SUBSET Groups, at : Times]
        /\ (new.step # "idle" => new.at <= now)
    BY <1>1, <2>2 DEF Resting, Times, Carried
  <2>4. \A h \in job[j].found \ {g} : new.step = "notify" /\ h \in new.found
    BY <1>1, <2>2
  <2>5. job' = [job EXCEPT ![j] = new]
    BY <2>1
  <2> HIDE DEF new
  <2>6. \A h \in untold' : \/ new.step = "notify" /\ h \in new.found
                           \/ h \in untold /\ ~(job[j].step = "notify" /\ h \in job[j].found)
    BY <2>1, <2>2, <2>4 DEF TypeOK
  <2>7. /\ fails' \in 0..MaxFails /\ untold' \subseteq Groups
        /\ open' \in [Groups -> BOOLEAN] /\ opensAt' \in [Groups -> Times \cup {Never}]
    BY <2>1, <2>2 DEF TypeOK
  <2>8. Fits(new)
    BY <1>1, <2>3, <2>5, <2>6, <2>7 DEF TypeOK, Times
  <2> HIDE DEF Fits
  <2>9. QED  BY <1>2, <2>8
<1>6. CASE JobFail(j)
  <2>1. Resting \in [step : {"idle", "update", "notify"}, found : SUBSET Groups, at : Times]
          /\ Resting.step = "idle"
    BY DEF Resting, Times
  <2>2. job' = [job EXCEPT ![j] = Resting] /\ UNCHANGED <<open, opensAt>> /\ fails' \in 0..MaxFails
          /\ untold' = untold \ (IF job[j].step = "notify" THEN job[j].found ELSE {})
    BY <1>6 DEF JobFail, AfterError, TypeOK
  <2>3. Fits(Resting)
    BY <2>1, <2>2 DEF TypeOK
  <2> HIDE DEF Fits
  <2>4. QED  BY <1>2, <2>3
<1>7. QED  BY <1>3, <1>4, <1>5, <1>6 DEF JobStep

(* So do lecturers and the clock.                                          *)
LEMMA LecturerPreserves ==
  ASSUME IInv, NEW r \in Requests,
         \/ SetStatus(r) \/ Schedule(r) \/ OpenNow(r) \/ OpenLater(r)
         \/ Notify(r) \/ Unschedule(r) \/ Fail(r)
  PROVE  IInv'
<1> USE ShopOpeningAssumption DEF IInv, groups
<1>1. UNCHANGED <<now, job>> /\ untold' \subseteq untold
  BY DEF SetStatus, Schedule, OpenNow, OpenLater, Notify, Unschedule, Fail
<1>2. OpeningAnnounced'
  BY <1>1 DEF OpeningAnnounced
<1>3. CASE SetStatus(r)
  <2>1. PICK c \in StatusCalls : /\ open' = [open EXCEPT ![c.group] = c.open]
                                 /\ pc' = [pc EXCEPT ![r] = "notify"]
                                 /\ call' = [call EXCEPT ![r] = c]
    BY <1>3 DEF SetStatus
  <2>2. c.open \in BOOLEAN
    BY DEF StatusCalls
  <2>3. UNCHANGED <<fails, opensAt, untold>>
    BY <1>3 DEF SetStatus
  <2>4. TypeOK' /\ Carried'
    BY <1>1, <2>1, <2>2, <2>3 DEF TypeOK, Carried
  <2>5. QED  BY <1>2, <2>4
<1>4. CASE Schedule(r)
  <2>1. PICK g \in Groups, t \in Times :
          /\ pc' = [pc EXCEPT ![r] = IF t <= now THEN "openNow" ELSE "openLater"]
          /\ call' = [call EXCEPT ![r] = [group |-> g, at |-> t, wasOpen |-> open[g]]]
    BY <1>4 DEF Schedule
  <2>2. [group |-> g, at |-> t, wasOpen |-> open[g]] \in ScheduleCalls
    BY DEF ScheduleCalls, TypeOK
  <2>3. UNCHANGED <<fails, open, opensAt, untold>> /\ pc[r] = "idle"
    BY <1>4 DEF Schedule
  <2>4. TypeOK' /\ Carried'
    BY <1>1, <2>1, <2>2, <2>3 DEF TypeOK, Carried
  <2>5. QED  BY <1>2, <2>4
<1>5. CASE OpenNow(r) \/ OpenLater(r)
  <2>1. call[r] \in ScheduleCalls /\ call[r].group \in Groups /\ call[r].at \in Times
    BY <1>5 DEF OpenNow, OpenLater, Carried, ScheduleCalls
  <2>2. QED  BY <1>1, <1>2, <1>5, <2>1 DEF OpenNow, OpenLater, TypeOK, Carried
<1>6. CASE Notify(r) \/ Fail(r)
  BY <1>1, <1>2, <1>6 DEF Notify, Fail, TypeOK, Carried
<1>7. CASE Unschedule(r)
  BY <1>1, <1>2, <1>7 DEF Unschedule, TypeOK, Carried
<1>8. QED  BY <1>3, <1>4, <1>5, <1>6, <1>7

LEMMA IInvNext == IInv /\ [Next]_vars => IInv'
<1> SUFFICES ASSUME IInv, [Next]_vars PROVE IInv'
  OBVIOUS
<1>1. CASE Tick
  BY <1>1, ShopOpeningAssumption DEF Tick, groups, IInv, TypeOK, Carried, OpeningAnnounced, Times
<1>2. CASE UNCHANGED vars
  BY <1>2 DEF vars, groups, IInv, TypeOK, Carried, OpeningAnnounced
<1>3. QED
  BY <1>1, <1>2, JobPreserves, LecturerPreserves DEF Next

(* Only the job opens a shop while no call goes on, and only what is due.  *)
LEMMA JobOpensDue ==
  ASSUME IInv, [Next]_vars, NEW g \in Groups, open'[g], ~open[g], pc' = pc
  PROVE  opensAt[g] # Never /\ opensAt[g] <= now
<1> USE ShopOpeningAssumption DEF groups
<1>1. PICK j \in Jobs : JobUpdate(j)
  <2>1. ASSUME NEW r \in Requests PROVE ~(SetStatus(r) \/ OpenNow(r) \/ OpenLater(r))
    BY <2>1 DEF SetStatus, OpenNow, OpenLater, IInv, TypeOK
  <2>2. QED
    BY <2>1 DEF Next, vars, JobStep, JobFind, JobNotify, JobFail, Schedule, Notify, Unschedule,
                Fail, Tick
<1>2. g \in Opened(j)
  BY <1>1 DEF JobUpdate
<1>3. job[j].at <= now /\ job[j].at \in Nat /\ now \in Nat /\ opensAt[g] \in Times \cup {Never}
  BY <1>1 DEF JobUpdate, IInv, TypeOK, Carried, Times
<1>4. QED  BY <1>2, <1>3 DEF Opened, Due, Times

-----------------------------------------------------------------------------
(* Groups, runs of the job and calls keep their types.                     *)
THEOREM OpeningTyped == Spec => []TypeOK
<1>1. IInv => TypeOK
  BY DEF IInv
<1>2. QED  BY <1>1, IInvInit, IInvNext, PTL DEF Spec

(* Whoever finds and opens a shop tells its students.                      *)
THEOREM OpeningIsAnnounced == Spec => []OpeningAnnounced
<1>1. IInv => OpeningAnnounced
  BY DEF IInv
<1>2. QED  BY <1>1, IInvInit, IInvNext, PTL DEF Spec

(* However many runs overlap, the job opens no shop before its time.       *)
THEOREM NeverOpensEarly == Spec => OpensOnTime
<1>1. IInv /\ [Next]_vars =>
        [\A g \in Groups : (open'[g] /\ ~open[g] /\ pc' = pc)
           => opensAt[g] # Never /\ opensAt[g] <= now]_vars
  BY JobOpensDue
<1>2. QED  BY <1>1, IInvInit, IInvNext, PTL DEF Spec, OpensOnTime
-----------------------------------------------------------------------------
(* The log files: invariants StoreTypeOK and RetainedReadable rest on what *)
(* each copy of a day holds (Copies), on which days and months the archive *)
(* may have (ArchivedAreOver) and on what each stage of the job relies on  *)
(* (Stage).                                                                *)

(* Every copy of a day is complete, but for a gzip file that was cut short *)
(* and whose live file is still there; a retained day has a copy.          *)
Copies ==
  \A d \in Days :
    /\ live[d] \in {NoFile, logged[d]}
    /\ gz[d] \in {NoFile, Torn, logged[d]}
    /\ entry[d] \in {NoFile, logged[d]}
    /\ gz[d] = Torn => live[d] # NoFile /\ d < asOf
    /\ Retained(d) => \/ live[d] # NoFile \/ gz[d] # NoFile
                      \/ entry[d] # NoFile \/ MonthOf[d] \in torn

(* Only days that are over have gzip files, only months that are over have *)
(* zips.                                                                   *)
ArchivedAreOver ==
  /\ \A d \in Days : gz[d] # NoFile => d < today
  /\ \A d \in Days : entry[d] # NoFile => MonthOf[d] < MonthOf[today]
  /\ \A m \in torn \cup zips : m < MonthOf[today]

(* What has been written before the next file is deleted.                  *)
Stage ==
  /\ step = "unlink" => at \in Days /\ at < asOf /\ gz[at] = logged[at]
  /\ step \in {"pack", "unlinkPacked", "purge", "purgeZips"} =>
       \A d \in Days : gz[d] # Torn
  /\ step = "unlinkPacked" =>
       at \notin torn /\ \A d \in ToPackOf(at) : entry[d] = gz[d]

StoreInv == StoreTypeOK /\ Copies /\ ArchivedAreOver /\ Stage

(* The month of a day is one of the months and grows with the day.         *)
LEMMA MonthFacts ==
  /\ \A d \in Days : MonthOf[d] \in Months /\ MonthOf[d] \in Nat
  /\ \A d, e \in Days : d <= e => MonthOf[d] <= MonthOf[e]
  /\ Months \subseteq Nat /\ Days \subseteq Nat
  BY LogStoreAssumption DEF Months, Days

(* IInv holds at the beginning.                                            *)
LEMMA StoreInvInit == StoreInit => StoreInv
  BY LogStoreAssumption, MonthFacts
     DEF StoreInit, StoreInv, StoreTypeOK, Copies, ArchivedAreOver, Stage, Files, Stages, Days,
         Retained

(* Every step preserves it.                                                *)
LEMMA StoreInvNext == StoreInv /\ [StoreNext]_storeVars => StoreInv'
<1> SUFFICES ASSUME StoreInv, [StoreNext]_storeVars PROVE StoreInv'
  OBVIOUS
<1> USE LogStoreAssumption, MonthFacts DEF StoreInv, storeVars, files, storeJob, Files, Stages
<1>0. asOf \in Days /\ today \in Days /\ MonthOf[asOf] <= MonthOf[today]
  BY DEF StoreTypeOK, Days
<1>1. CASE AppendLine
  <2>1. StoreTypeOK'
    BY <1>1 DEF AppendLine, StoreTypeOK, Copies
  <2>2. Copies'
    BY <1>1 DEF AppendLine, StoreTypeOK, Copies, Retained, ArchivedAreOver
  <2>3. ArchivedAreOver'
    BY <1>1 DEF AppendLine, ArchivedAreOver
  <2>4. Stage'
    BY <1>1 DEF AppendLine, Stage
  <2>5. QED  BY <2>1, <2>2, <2>3, <2>4
<1>2. CASE Midnight
  <2>1. StoreTypeOK'
    BY <1>2 DEF Midnight, StoreTypeOK, Days
  <2>2. Copies'
    BY <1>2, <1>0 DEF Midnight, Copies, Retained
  <2>3. ArchivedAreOver'
    BY <1>2, <2>1 DEF Midnight, StoreTypeOK, ArchivedAreOver
  <2>4. Stage'
    BY <1>2 DEF Midnight, Stage, ToPackOf, ToPack, MonthOver
  <2>5. QED  BY <2>1, <2>2, <2>3, <2>4
<1>3. CASE StartJob
  <2>1. StoreTypeOK'
    BY <1>3 DEF StartJob, Enter, StoreTypeOK
  <2>2. Copies'
    BY <1>3 DEF StartJob, Enter, StoreTypeOK, Copies, Retained
  <2>3. ArchivedAreOver'
    BY <1>3 DEF StartJob, ArchivedAreOver
  <2>4. Stage'
    BY <1>3 DEF StartJob, Enter, Stage
  <2>5. QED  BY <2>1, <2>2, <2>3, <2>4
<1>4. ASSUME NEW d \in Days, WriteGzip(d) PROVE StoreInv'
  <2>1. StoreTypeOK'
    BY <1>4 DEF WriteGzip, StoreTypeOK
  <2>2. Copies'
    BY <1>4 DEF WriteGzip, ToGzip, Over, Copies, Retained
  <2>3. ArchivedAreOver'
    BY <1>4 DEF WriteGzip, ToGzip, Over, StoreTypeOK, ArchivedAreOver
  <2>4. Stage'
    BY <1>4 DEF WriteGzip, ToGzip, Over, StoreTypeOK, Copies, Stage
  <2>5. QED  BY <2>1, <2>2, <2>3, <2>4
<1>5. CASE UnlinkLive
  <2>1. StoreTypeOK'
    BY <1>5 DEF UnlinkLive, StoreTypeOK
  <2>2. Copies'
    BY <1>5 DEF UnlinkLive, StoreTypeOK, Copies, Stage, Retained
  <2>3. ArchivedAreOver'
    BY <1>5 DEF UnlinkLive, ArchivedAreOver
  <2>4. Stage'
    BY <1>5 DEF UnlinkLive, Stage
  <2>5. QED  BY <2>1, <2>2, <2>3, <2>4
<1>6. CASE StartPack
  <2>1. StoreTypeOK'
    BY <1>6 DEF StartPack, Enter, StoreTypeOK
  <2>2. Copies'
    BY <1>6 DEF StartPack, ToGzip, Over, Copies, Retained
  <2>3. ArchivedAreOver'
    BY <1>6 DEF StartPack, ArchivedAreOver
  <2>4. Stage'
    BY <1>6 DEF StartPack, Enter, ToGzip, Over, Copies, Stage
  <2>5. QED  BY <2>1, <2>2, <2>3, <2>4
<1>7. ASSUME NEW m \in Months, WriteZip(m) PROVE StoreInv'
  <2>0. Merged(m) \in [Days -> Files]
    BY <1>7 DEF WriteZip, StoreTypeOK, Stage, Merged
  <2>1. StoreTypeOK'
    BY <1>7, <2>0 DEF WriteZip, StoreTypeOK
  <2>2. Copies'
    BY <1>7, <2>1 DEF WriteZip, Merged, ToPackOf, ToPack, StoreTypeOK, Copies, Retained
  <2>3. ArchivedAreOver'
    BY <1>7, <1>0 DEF WriteZip, Merged, ToPackOf, ToPack, MonthOver, ArchivedAreOver
  <2>4. Stage'
    BY <1>7 DEF WriteZip, Merged, ToPackOf, ToPack, MonthOver, Stage
  <2>5. QED  BY <2>1, <2>2, <2>3, <2>4
<1>8. ASSUME NEW d \in Days, UnlinkPacked(d) PROVE StoreInv'
  <2>1. StoreTypeOK'
    BY <1>8 DEF UnlinkPacked, StoreTypeOK
  <2>2. Copies'
    BY <1>8 DEF UnlinkPacked, Copies, Stage, Retained
  <2>3. ArchivedAreOver'
    BY <1>8 DEF UnlinkPacked, ArchivedAreOver
  <2>4. Stage'
    BY <1>8 DEF UnlinkPacked, ToPackOf, ToPack, MonthOver, Stage
  <2>5. QED  BY <2>1, <2>2, <2>3, <2>4
<1>9. ASSUME NEW m \in Months, PackFails(m) PROVE StoreInv'
  <2>1. StoreTypeOK'
    BY <1>9 DEF PackFails, StoreTypeOK
  <2>2. Copies'
    BY <1>9 DEF PackFails, Copies, Retained
  <2>3. ArchivedAreOver'
    BY <1>9 DEF PackFails, ArchivedAreOver
  <2>4. Stage'
    BY <1>9 DEF PackFails, Stage
  <2>5. QED  BY <2>1, <2>2, <2>3, <2>4
<1>10. CASE StartPurge
  <2>1. StoreTypeOK'
    BY <1>10 DEF StartPurge, Enter, StoreTypeOK
  <2>2. Copies'
    BY <1>10 DEF StartPurge, Enter, StoreTypeOK, Copies, Retained
  <2>3. ArchivedAreOver'
    BY <1>10 DEF StartPurge, ArchivedAreOver
  <2>4. Stage'
    BY <1>10 DEF StartPurge, Enter, Stage
  <2>5. QED  BY <2>1, <2>2, <2>3, <2>4
<1>11. ASSUME NEW d \in Days, PurgeLive(d) PROVE StoreInv'
  <2>1. StoreTypeOK'
    BY <1>11 DEF PurgeLive, StoreTypeOK
  <2>2. Copies'
    BY <1>11 DEF PurgeLive, Expired, StoreTypeOK, Copies, Stage, Retained
  <2>3. ArchivedAreOver'
    BY <1>11 DEF PurgeLive, ArchivedAreOver
  <2>4. Stage'
    BY <1>11 DEF PurgeLive, Stage
  <2>5. QED  BY <2>1, <2>2, <2>3, <2>4
<1>12. ASSUME NEW d \in Days, PurgeGzip(d) PROVE StoreInv'
  <2>1. StoreTypeOK'
    BY <1>12 DEF PurgeGzip, StoreTypeOK
  <2>2. Copies'
    BY <1>12 DEF PurgeGzip, Expired, StoreTypeOK, Copies, Retained
  <2>3. ArchivedAreOver'
    BY <1>12 DEF PurgeGzip, ArchivedAreOver
  <2>4. Stage'
    BY <1>12 DEF PurgeGzip, Stage
  <2>5. QED  BY <2>1, <2>2, <2>3, <2>4
<1>13. CASE StartPurgeZips
  <2>0. \A m \in zips' : m \in Months
    BY <1>13 DEF StartPurgeZips, StoreTypeOK, Months
  <2>1. StoreTypeOK'
    BY <1>13, <2>0 DEF StartPurgeZips, StoreTypeOK
  <2>2. Copies'
    BY <1>13 DEF StartPurgeZips, Copies, Retained
  <2>3. ArchivedAreOver'
    BY <1>13 DEF StartPurgeZips, ArchivedAreOver
  <2>4. Stage'
    BY <1>13 DEF StartPurgeZips, Stage
  <2>5. QED  BY <2>1, <2>2, <2>3, <2>4
<1>14. ASSUME NEW m \in Months, PurgeZip(m) PROVE StoreInv'
  <2>0. Kept(m) \in [Days -> Files]
    BY DEF StoreTypeOK, Kept
  <2>1. StoreTypeOK'
    BY <1>14, <2>0 DEF PurgeZip, StoreTypeOK
  <2>2. Copies'
    BY <1>14 DEF PurgeZip, Kept, Expired, StoreTypeOK, Copies, Retained
  <2>3. ArchivedAreOver'
    BY <1>14 DEF PurgeZip, Kept, ArchivedAreOver
  <2>4. Stage'
    BY <1>14 DEF PurgeZip, Stage
  <2>5. QED  BY <2>1, <2>2, <2>3, <2>4
<1>15. CASE EndJob
  <2>1. StoreTypeOK'
    BY <1>15 DEF EndJob, StoreTypeOK
  <2>2. Copies'
    BY <1>15 DEF EndJob, Copies, Retained
  <2>3. ArchivedAreOver'
    BY <1>15 DEF EndJob, ArchivedAreOver
  <2>4. Stage'
    BY <1>15 DEF EndJob, Stage
  <2>5. QED  BY <2>1, <2>2, <2>3, <2>4
<1>16. CASE Cut
  <2>1. StoreTypeOK'
    BY <1>16 DEF Cut, CutShort, StoreTypeOK
  <2>2. Copies'
    BY <1>16 DEF Cut, Copies, Retained
  <2>3. ArchivedAreOver'
    BY <1>16 DEF Cut, CutShort, ArchivedAreOver
  <2>4. Stage'
    BY <1>16 DEF Cut, CutShort, Stage
  <2>5. QED  BY <2>1, <2>2, <2>3, <2>4
<1>17. ASSUME NEW d \in Days, TearGzip(d) PROVE StoreInv'
  <2>1. StoreTypeOK'
    BY <1>17 DEF TearGzip, CutShort, StoreTypeOK
  <2>2. Copies'
    BY <1>17 DEF TearGzip, ToGzip, Over, Copies, Retained
  <2>3. ArchivedAreOver'
    BY <1>17 DEF TearGzip, CutShort, ToGzip, Over, StoreTypeOK, ArchivedAreOver
  <2>4. Stage'
    BY <1>17 DEF TearGzip, CutShort, Stage
  <2>5. QED  BY <2>1, <2>2, <2>3, <2>4
<1>18. ASSUME NEW m \in Months, TearZip(m) PROVE StoreInv'
  <2>1. StoreTypeOK'
    BY <1>18 DEF TearZip, CutShort, StoreTypeOK
  <2>2. Copies'
    BY <1>18 DEF TearZip, Copies, Retained
  <2>3. ArchivedAreOver'
    BY <1>18, <1>0 DEF TearZip, WritesZip, ToPackOf, ToPack, MonthOver, CutShort, ArchivedAreOver
  <2>4. Stage'
    BY <1>18 DEF TearZip, CutShort, Stage
  <2>5. QED  BY <2>1, <2>2, <2>3, <2>4
<1>19. CASE UNCHANGED storeVars
  BY <1>19 DEF StoreTypeOK, Copies, ArchivedAreOver, Stage, Retained, ToPackOf, ToPack, MonthOver
<1>20. QED
  BY <1>1, <1>2, <1>3, <1>4, <1>5, <1>6, <1>7, <1>8, <1>9, <1>10, <1>11, <1>12,
     <1>13, <1>14, <1>15, <1>16, <1>17, <1>18, <1>19 DEF StoreNext, StoreStep

(* IInv implies the two properties.                                        *)
LEMMA StoreInvReadable == StoreInv => RetainedReadable
  BY LogStoreAssumption, MonthFacts
     DEF StoreInv, StoreTypeOK, Copies, RetainedReadable, Content, Retained, Days

(* Variables keep their types, whatever cuts the job short.                *)
THEOREM LogStoreTyped == StoreSpec => []StoreTypeOK
<1>1. StoreInv => StoreTypeOK
  BY DEF StoreInv
<1>2. QED
  BY <1>1, StoreInvInit, StoreInvNext, PTL DEF StoreSpec

(* Every retained line can be read: archiving, packing and deleting lose   *)
(* none, and nor does being cut short, but for a zip that is truncated.    *)
THEOREM LogStoreReadable == StoreSpec => []RetainedReadable
<1>1. QED
  BY StoreInvInit, StoreInvNext, StoreInvReadable, PTL DEF StoreSpec

(***************************************************************************)
(* The catalogue.                                                          *)
(***************************************************************************)
UpdateRow ==
  [step : {"unlink", "link", "save"}, item : Items, first : Cats \cup {NoCat},
   cats : SUBSET Cats \cup {Keep}, gone : SUBSET Cats, keeps : BOOLEAN, old : BOOLEAN,
   stock : Nat \cup {Unlimited, NoListing}]

(* The rows of items, links and listings; what was not saved from an       *)
(* overtaken copy has its listing and links.                               *)
ItemsOK ==
  /\ cat \in [Cats -> {"is", Unborn, Gone}]
  /\ first \in [Items -> Existing \cup {NoCat, Unborn, Gone}]
  /\ links \in [Items -> SUBSET Existing]
  /\ stock \in [Items -> Nat \cup {Unlimited, NoListing}]
  /\ IsItem(ExtraLife) /\ stock[ExtraLife] # NoListing
  /\ \A i \in Items : IsItem(i) /\ i \notin mixed =>
       stock[i] # NoListing /\ first[i] \in links[i] \cup {NoCat}

(* What an update holds that has not been overtaken is what there is.      *)
Upheld(c) ==
  /\ IsItem(c.item)
  /\ c.cats = Keep => c.first = first[c.item]
  /\ c.cats # Keep /\ c.step # "unlink" => c.gone = links[c.item]
  /\ c.keeps => c.stock \in {NoListing, stock[c.item]}

UpdateOK(c) ==
  /\ c \in UpdateRow
  /\ IF c.cats = Keep THEN c.step = "save" ELSE c.first \in c.cats \cup {NoCat}
  /\ c.step = "save" /\ c.cats # Keep => c.cats \subseteq Existing
  /\ ~c.old => Upheld(c)

EditOK(c) ==
  \/ c = NoEdit
  \/ c \in [step : {"category"}, cat : Cats]
  \/ UpdateOK(c)

CatalogueInv ==
  /\ ItemsOK
  /\ DOMAIN edit = Edits /\ \A r \in Edits : EditOK(edit[r])

(* A step leaves a call as it is, while the rows it relies on stay, or     *)
(* marks it to be overtaken.                                               *)
LEMMA EditStays ==
  ASSUME NEW c, EditOK(c), NEW d,
         \/ d = c /\ (UpdateOK(c) /\ ~c.old =>
                        /\ first'[c.item] = first[c.item] /\ links'[c.item] = links[c.item]
                        /\ stock'[c.item] = stock[c.item])
         \/ UpdateOK(c) /\ d = [c EXCEPT !.old = TRUE],
         UpdateOK(c) /\ c.step = "save" /\ c.cats # Keep => c.cats \subseteq Existing'
  PROVE  EditOK(d)'
<1>1. CASE ~UpdateOK(c)
  BY <1>1 DEF EditOK
<1>2. CASE UpdateOK(c) /\ d = c
  <2>1. ~d.old => Upheld(d)'
    BY <1>2 DEF UpdateOK, UpdateRow, Upheld, IsItem
  <2>2. UpdateOK(d)'
    BY <1>2, <2>1 DEF UpdateOK
  <2>3. QED  BY <2>2 DEF EditOK
<1>3. CASE UpdateOK(c) /\ d = [c EXCEPT !.old = TRUE]
  <2>1. /\ d \in UpdateRow /\ d.old /\ d.cats = c.cats /\ d.step = c.step /\ d.first = c.first
    BY <1>3 DEF UpdateOK, UpdateRow
  <2>2. UpdateOK(d)'
    BY <1>3, <2>1 DEF UpdateOK
  <2>3. QED  BY <2>2 DEF EditOK
<1>4. QED  BY <1>1, <1>2, <1>3

(* What a call writes that takes no copy away: all other calls stay.       *)
LEMMA EditMoves ==
  ASSUME CatalogueInv, NEW r \in Edits, NEW c, EditOK(c)', DOMAIN edit' = Edits,
         \A q \in Edits : edit'[q] = IF q = r THEN c ELSE edit[q],
         \A j \in Items : IsItem(j) =>
           first'[j] = first[j] /\ links'[j] = links[j] /\ stock'[j] = stock[j],
         Existing \subseteq Existing'
  PROVE  \A q \in Edits : EditOK(edit[q])'
<1>1. ASSUME NEW q \in Edits
      PROVE  EditOK(edit[q])'
  <2>1. PICK d : d = edit[q] /\ EditOK(d)
    BY DEF CatalogueInv
  <2>2. UpdateOK(d) => (d.item \in Items /\ (~d.old => IsItem(d.item)))
    BY DEF UpdateOK, UpdateRow, Upheld
  <2>3. UpdateOK(d) /\ d.step = "save" /\ d.cats # Keep => d.cats \subseteq Existing'
    BY DEF UpdateOK
  <2>4. EditOK(d)'
    BY <2>1, <2>2, <2>3, EditStays
  <2>5. edit'[q] = c \/ edit'[q] = d
    BY <2>1
  <2>6. QED  BY <2>4, <2>5 DEF EditOK, UpdateOK, Upheld, IsItem
<1>2. QED  BY <1>1

(* A change of item i overtakes all copies of it.                          *)
LEMMA OvertakenStay ==
  ASSUME CatalogueInv, NEW i \in Items, NEW e, DOMAIN e = Edits,
         \A q \in Edits : e[q] = edit[q] \/ e[q] = NoEdit, edit' = Overtake(i, e),
         \A j \in Items \ {i} :
           first'[j] = first[j] /\ links'[j] = links[j] /\ stock'[j] = stock[j],
         Existing \subseteq Existing'
  PROVE  DOMAIN edit' = Edits /\ \A q \in Edits : EditOK(edit[q])'
<1>1. DOMAIN edit' = Edits
  BY DEF Overtake
<1>2. ASSUME NEW q \in Edits
      PROVE  EditOK(edit[q])'
  <2>1. PICK c : c = e[q] /\ EditOK(c)
    <3>1. EditOK(e[q])
      <4>1. EditOK(edit[q]) /\ EditOK(NoEdit)
        BY DEF CatalogueInv, EditOK
      <4>2. CASE e[q] = edit[q]
        BY <4>1, <4>2
      <4>3. CASE e[q] = NoEdit
        BY <4>1, <4>3
      <4>4. QED  BY <4>2, <4>3
    <3>2. QED  BY <3>1
  <2>2. PICK d : d = edit'[q]
    OBVIOUS
  <2>3. d = IF c # NoEdit /\ c.step # "category" /\ c.item = i THEN [c EXCEPT !.old = TRUE] ELSE c
    BY <2>1, <2>2 DEF Overtake
  <2>4. UpdateOK(c) => c # NoEdit /\ c.step # "category" /\ c.item \in Items
    BY CatalogueAssumption DEF UpdateOK, UpdateRow
  <2>5. UpdateOK(c) /\ c.step = "save" /\ c.cats # Keep => c.cats \subseteq Existing'
    BY DEF UpdateOK
  <2>6. UpdateOK(c) \/ c = NoEdit \/ c.step = "category"
    BY <2>1 DEF EditOK
  <2>7. EditOK(d)'
    BY <2>1, <2>3, <2>4, <2>5, <2>6, EditStays
  <2>8. QED  BY <2>2, <2>7 DEF EditOK, UpdateOK, Upheld, IsItem
<1>3. QED  BY <1>1, <1>2

LEMMA CatalogueStarts ==
  ASSUME CatalogueInit
  PROVE  CatalogueInv
  BY CatalogueAssumption DEF CatalogueInit, CatalogueInv, ItemsOK, EditOK, IsItem, Existing

(* A new item, with categories that exist.                                 *)
LEMMA ItemBorn ==
  ASSUME CatalogueInv, NEW i \in Items, NEW cs \in SUBSET Existing, NEW n \in Stocks,
         NEW c \in cs \cup {NoCat}, first[i] = Unborn,
         first' = [first EXCEPT ![i] = c], links' = [links EXCEPT ![i] = cs],
         stock' = [stock EXCEPT ![i] = n], UNCHANGED <<cat, held, edit, mixed>>,
         NEW r \in Edits, edit[r] = NoEdit
  PROVE  CatalogueInv'
<1>1. Existing' = Existing
  BY DEF Existing
<1>2. ItemsOK'
  <2>1. /\ cat' \in [Cats -> {"is", Unborn, Gone}]
        /\ first' \in [Items -> Existing' \cup {NoCat, Unborn, Gone}]
        /\ links' \in [Items -> SUBSET Existing']
    BY <1>1 DEF CatalogueInv, ItemsOK
  <2>2. stock' \in [Items -> Nat \cup {Unlimited, NoListing}] /\ n # NoListing
    BY CatalogueAssumption DEF CatalogueInv, ItemsOK
  <2>3. i # ExtraLife
    BY DEF CatalogueInv, ItemsOK, IsItem
  <2>4. QED
    BY <2>1, <2>2, <2>3, CatalogueAssumption DEF CatalogueInv, ItemsOK, IsItem
<1>3. DOMAIN edit' = Edits /\ \A q \in Edits : EditOK(edit[q])'
  <2>1. DOMAIN edit' = Edits /\ \A q \in Edits : edit'[q] = IF q = r THEN NoEdit ELSE edit[q]
    BY DEF CatalogueInv
  <2>2. EditOK(NoEdit)'
    BY DEF EditOK
  <2>3. \A j \in Items : IsItem(j) =>
           first'[j] = first[j] /\ links'[j] = links[j] /\ stock'[j] = stock[j]
    BY DEF IsItem, CatalogueInv, ItemsOK
  <2>4. QED  BY <1>1, <2>1, <2>2, <2>3, EditMoves
<1>4. QED  BY <1>2, <1>3 DEF CatalogueInv

LEMMA CreatedItem ==
  ASSUME CatalogueInv, NEW r \in Edits, CreateItem(r) \/ CreateItemFromTemplate(r)
  PROVE  CatalogueInv'
<1>1. CASE CreateItem(r)
  <2>1. PICK i \in Items, cs \in SUBSET Existing, n \in Stocks :
          \E c \in IF cs = {} THEN {NoCat} ELSE cs :
            /\ first[i] = Unborn
            /\ first' = [first EXCEPT ![i] = c] /\ links' = [links EXCEPT ![i] = cs]
            /\ stock' = [stock EXCEPT ![i] = n]
    BY <1>1 DEF CreateItem
  <2>2. QED  BY <1>1, <2>1, ItemBorn DEF CreateItem
<1>2. CASE CreateItemFromTemplate(r)
  <2>1. PICK i \in Items, c \in Existing \cup {NoCat}, n \in Stocks :
          /\ first[i] = Unborn
          /\ first' = [first EXCEPT ![i] = c] /\ links' = [links EXCEPT ![i] = {c} \ {NoCat}]
          /\ stock' = [stock EXCEPT ![i] = n]
    BY <1>2 DEF CreateItemFromTemplate
  <2>2. {c} \ {NoCat} \in SUBSET Existing /\ c \in ({c} \ {NoCat}) \cup {NoCat}
    OBVIOUS
  <2>3. QED  BY <1>2, <2>1, <2>2, ItemBorn DEF CreateItemFromTemplate
<1>3. QED  BY <1>1, <1>2


(* A call goes on: it writes no row.                                       *)
LEMMA EditGoes ==
  ASSUME CatalogueInv, NEW r \in Edits, NEW c, EditOK(c), Goto(r, c),
         UNCHANGED <<cat, first, links, stock, held, mixed>>
  PROVE  CatalogueInv'
<1>1. ItemsOK'
  BY DEF CatalogueInv, ItemsOK, Existing, IsItem
<1>2. EditOK(c)'
  BY DEF EditOK, UpdateOK, Upheld, Existing, IsItem
<1>3. DOMAIN edit' = Edits /\ \A q \in Edits : edit'[q] = IF q = r THEN c ELSE edit[q]
  BY DEF CatalogueInv, Goto
<1>4. Existing' = Existing
  BY DEF Existing
<1>5. \A q \in Edits : EditOK(edit[q])'
  BY <1>2, <1>3, <1>4, EditMoves
<1>6. QED  BY <1>1, <1>3, <1>5 DEF CatalogueInv

LEMMA UpdateBegins ==
  ASSUME CatalogueInv, NEW r \in Edits, NEW i \in Items, NEW cs \in SUBSET Cats \cup {Keep},
         NEW n \in Stocks \cup {Keep}, NEW saves \in BOOLEAN, UpdateItem(r, i, cs, n, saves)
  PROVE  CatalogueInv'
<1>1. PICK c \in FirstOf(i, cs) :
        Goto(r, [step |-> IF cs = Keep THEN "save" ELSE "unlink", item |-> i, first |-> c,
                 cats |-> cs, gone |-> {}, keeps |-> n = Keep, old |-> FALSE,
                 stock |-> IF ~saves THEN NoListing ELSE IF n = Keep THEN stock[i] ELSE n])
  BY DEF UpdateItem
<1>2. PICK phase, keeps, m :
        /\ phase = (IF cs = Keep THEN "save" ELSE "unlink") /\ keeps = (n = Keep)
        /\ m = IF ~saves THEN NoListing ELSE IF n = Keep THEN stock[i] ELSE n
  OBVIOUS
<1>3. PICK d : d = [step |-> phase, item |-> i, first |-> c, cats |-> cs, gone |-> {},
                    keeps |-> keeps, old |-> FALSE, stock |-> m]
  OBVIOUS
<1>4. Goto(r, d)
  BY <1>1, <1>2, <1>3
<1>5. /\ phase \in {"unlink", "link", "save"} /\ c \in Cats \cup {NoCat} /\ keeps \in BOOLEAN
      /\ m \in Nat \cup {Unlimited, NoListing} /\ (keeps => m \in {NoListing, stock[i]})
  <2>1. c \in Cats \cup {NoCat}
    BY <1>1 DEF UpdateItem, FirstOf, IsItem, CatalogueInv, ItemsOK, Existing
  <2>2. stock[i] \in Nat \cup {Unlimited, NoListing}
    BY DEF CatalogueInv, ItemsOK
  <2>3. QED  BY <1>2, <2>1, <2>2, CatalogueAssumption
<1>6. /\ d \in UpdateRow /\ d.step = phase /\ d.item = i /\ d.first = c /\ d.cats = cs
      /\ d.gone = {} /\ d.keeps = keeps /\ d.stock = m
  BY <1>3, <1>5 DEF UpdateRow
<1>7. IF cs = Keep THEN phase = "save" /\ c = first[i] ELSE phase = "unlink" /\ c \in cs \cup {NoCat}
  BY <1>1, <1>2 DEF FirstOf
<1>8. Upheld(d)
  BY <1>5, <1>6, <1>7 DEF Upheld, UpdateItem
<1>9. EditOK(d)
  BY <1>6, <1>7, <1>8 DEF EditOK, UpdateOK
<1>10. QED  BY <1>4, <1>9, EditGoes DEF UpdateItem

LEMMA UpdateHolds ==
  ASSUME CatalogueInv, NEW r \in Edits, NEW s \in {"unlink", "link", "save"}, Step(r, s)
  PROVE  UpdateOK(edit[r])
  BY DEF CatalogueInv, EditOK, Step

LEMMA LinksMove ==
  ASSUME CatalogueInv, NEW r \in Edits, Unlink(r) \/ Link(r)
  PROVE  CatalogueInv'
<1>1. PICK c : c = edit[r] /\ UpdateOK(c)
  BY UpdateHolds DEF Unlink, Link
<1>2. CASE Unlink(r)
  <2>1. PICK d, g : g = links[c.item] /\ d = [c EXCEPT !.step = "link", !.gone = g]
    OBVIOUS
  <2>2. c.item \in Items /\ c.step = "unlink" /\ g \in SUBSET Cats
    BY <1>1, <1>2, <2>1 DEF UpdateOK, UpdateRow, Unlink, Step, CatalogueInv, ItemsOK, Existing
  <2>3. /\ d \in UpdateRow /\ d.step = "link" /\ d.gone = g /\ d.item = c.item
        /\ d.first = c.first /\ d.cats = c.cats /\ d.keeps = c.keeps /\ d.old = c.old
        /\ d.stock = c.stock
    BY <1>1, <2>1, <2>2 DEF UpdateOK, UpdateRow
  <2>4. ~d.old => Upheld(d)
    BY <1>1, <2>1, <2>2, <2>3 DEF UpdateOK, Upheld
  <2>5. EditOK(d)
    BY <1>1, <2>2, <2>3, <2>4 DEF EditOK, UpdateOK
  <2>6. Goto(r, d)
    BY <1>1, <1>2, <2>1 DEF Unlink
  <2>7. QED  BY <1>2, <2>5, <2>6, EditGoes DEF Unlink
<1>3. CASE Link(r)
  <2>1. PICK d : d = [c EXCEPT !.step = "save"]
    OBVIOUS
  <2>2. c.item \in Items /\ c.step = "link" /\ c.cats \subseteq Existing
    BY <1>1, <1>3 DEF UpdateOK, UpdateRow, Link, Step
  <2>3. /\ d \in UpdateRow /\ d.step = "save" /\ d.gone = c.gone /\ d.item = c.item
        /\ d.first = c.first /\ d.cats = c.cats /\ d.keeps = c.keeps /\ d.old = c.old
        /\ d.stock = c.stock
    BY <1>1, <2>1, <2>2 DEF UpdateOK, UpdateRow
  <2>4. ~d.old => Upheld(d)
    BY <1>1, <2>1, <2>2, <2>3 DEF UpdateOK, Upheld
  <2>5. EditOK(d)
    BY <1>1, <2>2, <2>3, <2>4 DEF EditOK, UpdateOK
  <2>6. Goto(r, d)
    BY <1>1, <1>3, <2>1 DEF Link
  <2>7. QED  BY <1>3, <2>5, <2>6, EditGoes DEF Link
<1>4. QED  BY <1>2, <1>3

(* Saving item and listing: what has not been overtaken is what there is.  *)
LEMMA ItemSaved ==
  ASSUME CatalogueInv, NEW r \in Edits, Save(r)
  PROVE  CatalogueInv'
<1>1. PICK c, i : c = edit[r] /\ i = c.item /\ UpdateOK(c)
  BY UpdateHolds DEF Save
<1>2. /\ i \in Items /\ c.step = "save" /\ c.first \in Existing \cup {NoCat}
      /\ c.stock \in Nat \cup {Unlimited, NoListing}
      /\ c.cats # Keep => c.cats \subseteq Existing
  BY <1>1 DEF UpdateOK, UpdateRow, Save, Step
<1>3. /\ first' = [first EXCEPT ![i] = c.first]
      /\ links' = IF c.cats = Keep THEN links
                  ELSE [links EXCEPT ![i] = (links[i] \ c.gone) \cup c.cats]
      /\ stock' = IF c.stock # NoListing THEN [stock EXCEPT ![i] = c.stock] ELSE stock
      /\ mixed' = IF c.old THEN mixed \cup {i} ELSE mixed
      /\ edit' = Overtake(i, [edit EXCEPT ![r] = NoEdit]) /\ UNCHANGED <<cat, held>>
  BY <1>1 DEF Save, Relinked, SavedStock
<1>4. Existing' = Existing
  BY <1>3 DEF Existing
<1>5. ItemsOK'
  <2>1. /\ cat' \in [Cats -> {"is", Unborn, Gone}]
        /\ first' \in [Items -> Existing' \cup {NoCat, Unborn, Gone}]
        /\ stock' \in [Items -> Nat \cup {Unlimited, NoListing}]
    BY <1>2, <1>3, <1>4 DEF CatalogueInv, ItemsOK
  <2>2. links' \in [Items -> SUBSET Existing']
    BY <1>2, <1>3, <1>4 DEF CatalogueInv, ItemsOK
  <2>3. first'[i] = c.first /\ IsItem(i)'
    BY <1>2, <1>3, CatalogueAssumption DEF CatalogueInv, ItemsOK, IsItem, Existing
  <2>4. ASSUME NEW j \in Items, j # i
        PROVE  /\ first'[j] = first[j] /\ links'[j] = links[j] /\ stock'[j] = stock[j]
               /\ j \in mixed' <=> j \in mixed
    BY <1>3, <2>4 DEF CatalogueInv, ItemsOK
  <2>5. stock[i] # NoListing => stock'[i] # NoListing
    BY <1>2, <1>3 DEF CatalogueInv, ItemsOK
  <2>6. ASSUME i \notin mixed'
        PROVE  stock'[i] # NoListing /\ first'[i] \in links'[i] \cup {NoCat}
    <3>1. ~c.old /\ i \notin mixed
      BY <1>2, <1>3, <2>6 DEF UpdateOK, UpdateRow
    <3>2. /\ IsItem(i) /\ (c.cats = Keep => c.first = first[i])
          /\ (c.cats # Keep => c.gone = links[i] /\ c.first \in c.cats \cup {NoCat})
      BY <1>1, <1>2, <3>1 DEF UpdateOK, Upheld
    <3>3. stock[i] # NoListing /\ first[i] \in links[i] \cup {NoCat}
      BY <1>2, <3>1, <3>2 DEF CatalogueInv, ItemsOK
    <3>4. CASE c.cats = Keep
      BY <1>3, <2>3, <2>5, <3>2, <3>3, <3>4
    <3>5. CASE c.cats # Keep
      <4>1. links'[i] = c.cats
        BY <1>2, <1>3, <3>2, <3>5 DEF CatalogueInv, ItemsOK
      <4>2. QED  BY <2>3, <2>5, <3>2, <3>3, <3>5, <4>1
    <3>6. QED  BY <3>4, <3>5
  <2>7. IsItem(ExtraLife)' /\ stock'[ExtraLife] # NoListing
    BY <2>3, <2>4, <2>5, CatalogueAssumption DEF CatalogueInv, ItemsOK, IsItem
  <2>8. \A j \in Items : IsItem(j)' /\ j \notin mixed' =>
          stock'[j] # NoListing /\ first'[j] \in links'[j] \cup {NoCat}
    BY <2>4, <2>6 DEF CatalogueInv, ItemsOK, IsItem
  <2>9. QED  BY <2>1, <2>2, <2>7, <2>8 DEF ItemsOK, IsItem
<1>6. DOMAIN edit' = Edits /\ \A q \in Edits : EditOK(edit[q])'
  <2>1. \A j \in Items \ {i} :
           first'[j] = first[j] /\ links'[j] = links[j] /\ stock'[j] = stock[j]
    BY <1>3 DEF CatalogueInv, ItemsOK
  <2>2. PICK e : e = [edit EXCEPT ![r] = NoEdit]
    OBVIOUS
  <2>3. DOMAIN e = Edits /\ \A q \in Edits : e[q] = edit[q] \/ e[q] = NoEdit
    BY <2>2 DEF CatalogueInv
  <2>4. QED  BY <1>2, <1>3, <1>4, <2>1, <2>2, <2>3, OvertakenStay
<1>7. QED  BY <1>5, <1>6 DEF CatalogueInv

(* Deleting an item, and buying it.                                        *)
LEMMA ItemGone ==
  ASSUME CatalogueInv, NEW r \in Edits, NEW i \in Items, DeleteItem(r, i)
  PROVE  CatalogueInv'
<1>1. Existing' = Existing
  BY DEF DeleteItem, Existing
<1>2. ItemsOK'
  <2>1. i # ExtraLife
    BY DEF DeleteItem, Deletable
  <2>2. QED
    BY <1>1, <2>1, CatalogueAssumption DEF CatalogueInv, ItemsOK, DeleteItem, IsItem
<1>3. \A j \in Items \ {i} :
        first'[j] = first[j] /\ links'[j] = links[j] /\ stock'[j] = stock[j]
  BY DEF CatalogueInv, ItemsOK, DeleteItem
<1>4. DOMAIN edit' = Edits /\ \A q \in Edits : EditOK(edit[q])'
  BY <1>1, <1>3, OvertakenStay DEF DeleteItem, CatalogueInv
<1>5. QED  BY <1>2, <1>4 DEF CatalogueInv

LEMMA ItemBought ==
  ASSUME CatalogueInv, NEW i \in Items, Buy(i)
  PROVE  CatalogueInv'
<1>1. Existing' = Existing
  BY DEF Buy, Existing
<1>2. PICK n : /\ n = (IF stock[i] = Unlimited THEN stock[i] ELSE stock[i] - 1)
               /\ stock' = [stock EXCEPT ![i] = n]
  BY DEF Buy
<1>3. n \in Nat \cup {Unlimited} /\ n # NoListing
  <2>1. stock[i] = Unlimited \/ (stock[i] \in Nat /\ stock[i] # 0)
    BY DEF Buy, CatalogueInv, ItemsOK
  <2>2. QED  BY <1>2, <2>1, CatalogueAssumption
<1>4. stock' \in [Items -> Nat \cup {Unlimited, NoListing}]
  BY <1>2, <1>3 DEF CatalogueInv, ItemsOK
<1>5. \A j \in Items : stock[j] # NoListing => stock'[j] # NoListing
  BY <1>2, <1>3 DEF CatalogueInv, ItemsOK
<1>6. ItemsOK'
  BY <1>1, <1>4, <1>5, CatalogueAssumption DEF CatalogueInv, ItemsOK, Buy, IsItem
<1>7. \A j \in Items \ {i} :
        first'[j] = first[j] /\ links'[j] = links[j] /\ stock'[j] = stock[j]
  BY <1>2 DEF CatalogueInv, ItemsOK, Buy
<1>8. DOMAIN edit' = Edits /\ \A q \in Edits : EditOK(edit[q])'
  BY <1>1, <1>7, OvertakenStay DEF Buy, CatalogueInv
<1>9. QED  BY <1>6, <1>8 DEF CatalogueInv


(* The categories: one that goes is taken from links and items, and a call *)
(* that has inserted a link to it keeps it.                                *)
LEMMA CategoryKept ==
  ASSUME CatalogueInv, NEW r \in Edits, NEW c \in Cats, CreateCategory(r, c) \/ UpdateCategory(r, c)
  PROVE  CatalogueInv'
<1>1. CASE UpdateCategory(r, c) /\ cat' = cat
  <2>1. PICK d \in {NoEdit, [step |-> "category", cat |-> c]} : Goto(r, d)
    BY <1>1 DEF UpdateCategory, End
  <2>2. EditOK(d)
    BY <2>1 DEF EditOK
  <2>3. QED  BY <1>1, <2>1, <2>2, EditGoes DEF UpdateCategory
<1>2. CASE cat' = [cat EXCEPT ![c] = "is"] /\ UNCHANGED <<first, links, stock, held, mixed>>
           /\ (edit' = edit \/ End(r))
  <2>1. Existing \subseteq Existing'
    BY <1>2 DEF Existing, CatalogueInv, ItemsOK
  <2>2. ItemsOK'
    <3>1. /\ cat' \in [Cats -> {"is", Unborn, Gone}]
          /\ first' \in [Items -> Existing' \cup {NoCat, Unborn, Gone}]
          /\ links' \in [Items -> SUBSET Existing']
      BY <1>2, <2>1 DEF CatalogueInv, ItemsOK
    <3>2. QED  BY <1>2, <3>1 DEF CatalogueInv, ItemsOK, IsItem
  <2>3. PICK d : /\ d = edit'[r] /\ EditOK(d)
    BY <1>2 DEF CatalogueInv, End, Goto, EditOK
  <2>4. DOMAIN edit' = Edits /\ \A q \in Edits : edit'[q] = IF q = r THEN d ELSE edit[q]
    BY <1>2, <2>3 DEF CatalogueInv, End, Goto
  <2>5. EditOK(d)'
    <3>1. UpdateOK(d) => d.item \in Items /\ (d.step = "save" /\ d.cats # Keep => d.cats \subseteq Existing')
      BY <2>1 DEF UpdateOK, UpdateRow
    <3>2. QED  BY <1>2, <2>3, <3>1, EditStays
  <2>6. \A q \in Edits : EditOK(edit[q])'
    BY <1>2, <2>1, <2>4, <2>5, EditMoves
  <2>7. QED  BY <2>2, <2>4, <2>6 DEF CatalogueInv
<1>3. QED  BY <1>1, <1>2 DEF CreateCategory, UpdateCategory

LEMMA CategoryGone ==
  ASSUME CatalogueInv, NEW r \in Edits, NEW c \in Cats, DeleteCategory(r, c)
  PROVE  CatalogueInv'
<1>1. Existing' = Existing \ {c}
  BY CatalogueAssumption DEF DeleteCategory, Existing, CatalogueInv, ItemsOK
<1>2. ItemsOK'
  <2>1. cat' \in [Cats -> {"is", Unborn, Gone}]
    BY DEF DeleteCategory, CatalogueInv, ItemsOK
  <2>2. \A i \in Items : /\ first'[i] = IF first[i] = c THEN NoCat ELSE first[i]
                         /\ links'[i] = links[i] \ {c}
    BY DEF DeleteCategory, Unnamed
  <2>3. first' \in [Items -> Existing' \cup {NoCat, Unborn, Gone}]
    BY <1>1 DEF DeleteCategory, Unnamed, CatalogueInv, ItemsOK
  <2>4. links' \in [Items -> SUBSET Existing']
    BY <1>1 DEF DeleteCategory, CatalogueInv, ItemsOK
  <2>5. \A i \in Items : IsItem(i)' <=> IsItem(i)
    BY <2>2, CatalogueAssumption DEF IsItem
  <2>6. stock' = stock /\ mixed' = mixed
    BY DEF DeleteCategory
  <2>7. \A i \in Items : first[i] \in links[i] \cup {NoCat} => first'[i] \in links'[i] \cup {NoCat}
    BY <2>2
  <2>8. QED
    BY <2>1, <2>3, <2>4, <2>5, <2>6, <2>7, CatalogueAssumption DEF CatalogueInv, ItemsOK
<1>3. DOMAIN edit' = Edits
  BY DEF DeleteCategory
<1>4. ASSUME NEW q \in Edits
      PROVE  EditOK(edit[q])'
  <2>1. PICK e : e = edit[q] /\ EditOK(e)
    BY DEF CatalogueInv
  <2>2. PICK d : d = edit'[q]
    OBVIOUS
  <2>3. UpdateOK(e) => /\ e # NoEdit /\ e.step # "category" /\ e.item \in Items
                       /\ e.step = "save" /\ e.cats # Keep => e.cats \subseteq Existing'
    BY <1>1, <2>1, CatalogueAssumption DEF UpdateOK, UpdateRow, DeleteCategory, Step
  <2>4. \A i \in Items : ~(first[i] = c \/ c \in links[i]) =>
          first'[i] = first[i] /\ links'[i] = links[i] /\ stock'[i] = stock[i]
    BY DEF DeleteCategory, Unnamed
  <2>5. UpdateOK(e) => \/ d = [e EXCEPT !.old = TRUE]
                       \/ d = e /\ ~(first[e.item] = c \/ c \in links[e.item])
    BY <2>1, <2>2, <2>3 DEF DeleteCategory
  <2>6. ~UpdateOK(e) => d = e
    BY <2>1, <2>2 DEF DeleteCategory, EditOK
  <2>7. EditOK(d)'
    BY <2>1, <2>3, <2>4, <2>5, <2>6, EditStays
  <2>8. QED  BY <2>2, <2>7 DEF EditOK, UpdateOK, Upheld, IsItem
<1>5. QED  BY <1>2, <1>3, <1>4 DEF CatalogueInv

LEMMA CatalogueMoves ==
  ASSUME CatalogueInv, [CatalogueNext]_catalogueVars
  PROVE  CatalogueInv'
<1>1. ASSUME NEW r \in Edits, EditFails(r)
      PROVE  CatalogueInv'
  <2>1. EditOK(NoEdit)
    BY DEF EditOK
  <2>2. QED  BY <1>1, <2>1, EditGoes DEF EditFails, End
<1>2. CASE UNCHANGED catalogueVars
  BY <1>2 DEF catalogueVars, CatalogueInv, ItemsOK, EditOK, UpdateOK, Upheld, IsItem, Existing
<1>3. QED
  BY <1>1, <1>2, CreatedItem, UpdateBegins, LinksMove, ItemSaved, ItemGone, ItemBought,
     CategoryKept, CategoryGone DEF CatalogueNext

(* The invariant and what follows from it.                                 *)
THEOREM CatalogueInvariant == CatalogueSpec => []CatalogueInv
<1>1. CatalogueInit => CatalogueInv
  BY CatalogueStarts
<1>2. CatalogueInv /\ [CatalogueNext]_catalogueVars => CatalogueInv'
  BY CatalogueMoves
<1>3. QED  BY <1>1, <1>2, PTL DEF CatalogueSpec

(* Whatever edits and purchases overlap, the page shows categories that    *)
(* exist and the extra life on sale, and items with listing and links but  *)
(* for those saved from an overtaken copy (updateItem, deleteCategory).    *)
THEOREM PageIsSound == CatalogueSpec => []PageSound
<1>1. CatalogueInv => PageSound
  <2> SUFFICES ASSUME CatalogueInv PROVE PageSound
    OBVIOUS
  <2>1. \E shown \in ItemsForGroup : shown.item = ExtraLife /\ shown.stock # NoListing
    <3>1. ExtraLife \in {j \in Items : IsItem(j)} /\ stock[ExtraLife] # NoListing
      BY CatalogueAssumption DEF CatalogueInv, ItemsOK
    <3>2. [item |-> ExtraLife, categories |-> CategoryIds(ExtraLife), stock |-> stock[ExtraLife]]
            \in ItemsForGroup
      BY <3>1 DEF ItemsForGroup
    <3>3. QED  BY <3>1, <3>2
  <2>2. ASSUME NEW shown \in ItemsForGroup
        PROVE  /\ shown.categories \subseteq Existing
               /\ shown.item \notin mixed =>
                    /\ shown.stock # NoListing
                    /\ first[shown.item] \in links[shown.item] \cup {NoCat}
    <3>1. PICK i \in Items : /\ IsItem(i) /\ shown.item = i /\ shown.stock = stock[i]
                             /\ shown.categories = CategoryIds(i)
      BY DEF ItemsForGroup
    <3>2. CategoryIds(i) \subseteq Existing
      BY <3>1 DEF CategoryIds, CatalogueInv, ItemsOK, IsItem
    <3>3. QED  BY <3>1, <3>2 DEF CatalogueInv, ItemsOK
  <2>3. QED  BY <2>1, <2>2 DEF PageSound
<1>2. QED  BY <1>1, CatalogueInvariant, PTL

(* An update that sends no stock leaves the one there is, also when it is  *)
(* saved long after the listing was read, unless it was overtaken.         *)
THEOREM StockIsUntouched == CatalogueSpec => StockUntouched
<1>1. ASSUME CatalogueInv, [CatalogueNext]_catalogueVars, NEW r \in Edits, Step(r, "save"),
             edit[r].keeps, ~edit[r].old, edit'[r] = NoEdit
      PROVE  stock' = stock
  <2>1. PICK c, i : c = edit[r] /\ i = c.item /\ UpdateOK(c)
    BY <1>1, UpdateHolds
  <2>2. c # NoEdit /\ [c EXCEPT !.old = TRUE] # NoEdit
    <3>1. c \in UpdateRow /\ [c EXCEPT !.old = TRUE] \in UpdateRow
      BY <2>1 DEF UpdateOK, UpdateRow
    <3>2. NoEdit \notin UpdateRow
      BY CatalogueAssumption DEF UpdateRow
    <3>3. QED  BY <3>1, <3>2
  <2>3. i \in Items /\ c.stock \in {NoListing, stock[i]}
    BY <1>1, <2>1 DEF UpdateOK, UpdateRow, Upheld
  <2>4. CASE Save(r)
    <3>1. stock' = IF c.stock # NoListing THEN [stock EXCEPT ![i] = c.stock] ELSE stock
      BY <2>1, <2>4 DEF Save, SavedStock
    <3>2. QED  BY <1>1, <2>3, <3>1 DEF CatalogueInv, ItemsOK
  <2>5. ASSUME NEW j \in Items, NEW e, e[r] = edit[r], edit' = Overtake(j, e)
        PROVE  FALSE
    <3>1. e[r] = c
      BY <2>1, <2>5
    <3>2. edit'[r] = c \/ edit'[r] = [c EXCEPT !.old = TRUE]
      BY <2>5, <3>1 DEF Overtake
    <3>3. QED  BY <1>1, <2>2, <3>2
  <2>6. ASSUME NEW q \in Edits, NEW j \in Items, DeleteItem(q, j)
        PROVE  FALSE
    BY <2>5, <2>6 DEF DeleteItem
  <2>7. ASSUME NEW j \in Items, Buy(j)
        PROVE  FALSE
    BY <2>5, <2>7 DEF Buy
  <2>8. ASSUME NEW q \in Edits, Save(q), q # r
        PROVE  FALSE
    <3>1. PICK j : j = edit[q].item
      OBVIOUS
    <3>2. j \in Items
      <4>1. Step(q, "save")
        BY <2>8 DEF Save
      <4>2. UpdateOK(edit[q])
        BY <1>1, <2>8, <4>1, UpdateHolds
      <4>3. QED  BY <3>1, <4>2 DEF UpdateOK, UpdateRow
    <3>3. PICK e : e = [edit EXCEPT ![q] = NoEdit]
      OBVIOUS
    <3>4. edit' = Overtake(j, e) /\ e[r] = edit[r]
      BY <2>8, <3>1, <3>3 DEF Save
    <3>5. QED  BY <2>5, <3>2, <3>4
  <2>9. ASSUME NEW q \in Edits, CreateItem(q) \/ CreateItemFromTemplate(q)
        PROVE  FALSE
    BY <1>1, <2>1, <2>2, <2>9 DEF CreateItem, CreateItemFromTemplate
  <2>10. ASSUME NEW q \in Edits, Unlink(q) \/ Link(q) \/ EditFails(q)
         PROVE  stock' = stock
    BY <2>10 DEF Unlink, Link, EditFails
  <2>11. ASSUME NEW q \in Edits, NEW j, NEW cs, NEW n, NEW saves, UpdateItem(q, j, cs, n, saves)
         PROVE  stock' = stock
    BY <2>11 DEF UpdateItem
  <2>12. ASSUME NEW q \in Edits, NEW k,
                CreateCategory(q, k) \/ UpdateCategory(q, k) \/ DeleteCategory(q, k)
         PROVE  stock' = stock
    BY <2>12 DEF CreateCategory, UpdateCategory, DeleteCategory
  <2>13. CASE UNCHANGED catalogueVars
    BY <2>13 DEF catalogueVars
  <2>14. ASSUME NEW q \in Edits, Save(q)
         PROVE  stock' = stock
    BY <2>4, <2>8, <2>14
  <2>15. QED
    BY <1>1, <2>6, <2>7, <2>9, <2>10, <2>11, <2>12, <2>13, <2>14 DEF CatalogueNext
<1>2. CatalogueInv /\ [CatalogueNext]_catalogueVars =>
        [\A r \in Edits : Step(r, "save") /\ edit[r].keeps /\ ~edit[r].old /\ edit'[r] = NoEdit
           => stock' = stock]_catalogueVars
  BY <1>1
<1>3. QED  BY <1>2, CatalogueInvariant, PTL DEF CatalogueSpec, StockUntouched

-----------------------------------------------------------------------------
(* Prices.  The badges' discounts are summed over a finite set, in the     *)
(* order CHOOSE picks its members: that the sum does not depend on it is   *)
(* shown by way of the sums of all parts of the set (Adds).                *)

(* A set of naturals that is not empty has a least member.                 *)
LEMMA Least ==
  ASSUME NEW D \in SUBSET Nat, D # {}
  PROVE  \E m \in D : \A j \in D : m <= j
<1> DEFINE R == OpToRel(<, Nat)
<1>1. IsWellFoundedOn(R, Nat)
  BY NatLessThanWellFounded
<1>2. PICK m \in D : \A j \in D : ~ (<<j, m>> \in R)
  <2> HIDE DEF R
  <2>1. QED  BY <1>1, WFMin
<1>3. \A j \in D : ~(j < m)
  BY <1>2 DEF OpToRel
<1>4. QED  BY <1>3

(* A finite set whose members are weighed has a sum for each of its parts: *)
(* nothing has none, and a further member adds its weight.                 *)
Adds(A, U, w) ==
  /\ A \in [SUBSET U -> Nat] /\ A[{}] = 0
  /\ \A T \in SUBSET U : \A x \in U \ T : A[T \cup {x}] = A[T] + w[x]

LEMMA SumsOneMore ==
  ASSUME NEW U, NEW x \in U, NEW w \in [U -> Nat], NEW A, Adds(A, U \ {x}, w)
  PROVE  \E B : Adds(B, U, w)
<1> DEFINE V == U \ {x}
           B == [T \in SUBSET U |-> A[T \ {x}] + IF x \in T THEN w[x] ELSE 0]
<1>1. \A T \in SUBSET U : T \ {x} \in SUBSET V
  OBVIOUS
<1>2. A \in [SUBSET V -> Nat] /\ A[{}] = 0
  BY DEF Adds
<1>3. B \in [SUBSET U -> Nat]
  BY <1>1, <1>2
<1>4. B[{}] = 0
  <2>1. {} \ {x} = {}
    OBVIOUS
  <2>2. QED  BY <1>2, <2>1
<1>5. ASSUME NEW T \in SUBSET U, NEW y \in U \ T
      PROVE  B[T \cup {y}] = B[T] + w[y]
  <2>1. B[T] = A[T \ {x}] + (IF x \in T THEN w[x] ELSE 0)
    OBVIOUS
  <2>2. B[T \cup {y}] = A[(T \cup {y}) \ {x}] + (IF x \in T \cup {y} THEN w[x] ELSE 0)
    OBVIOUS
  <2>3. A[T \ {x}] \in Nat /\ w[x] \in Nat /\ w[y] \in Nat
    BY <1>1, <1>2
  <2>4. CASE y = x
    <3>1. (T \cup {y}) \ {x} = T \ {x}
      BY <2>4
    <3>2. QED  BY <1>5, <2>1, <2>2, <2>3, <2>4, <3>1
  <2>5. CASE y # x
    <3>1. (T \cup {y}) \ {x} = (T \ {x}) \cup {y} /\ y \in V \ (T \ {x})
      BY <1>5, <2>5
    <3>2. A[(T \ {x}) \cup {y}] = A[T \ {x}] + w[y]
      BY <1>1, <3>1 DEF Adds
    <3>3. (IF x \in T \cup {y} THEN w[x] ELSE 0) = IF x \in T THEN w[x] ELSE 0
      BY <2>5
    <3> HIDE DEF B
    <3>4. QED  BY <2>1, <2>2, <2>3, <3>1, <3>2, <3>3
  <2>6. QED  BY <2>4, <2>5
<1>6. Adds(B, U, w)
  <2> HIDE DEF B
  <2>1. QED  BY <1>3, <1>4, <1>5 DEF Adds
<1>7. QED  BY <1>6

LEMMA SumsExist ==
  ASSUME NEW U, IsFiniteSet(U), NEW w \in [U -> Nat]
  PROVE  \E A : Adds(A, U, w)
<1> DEFINE Short == {T \in SUBSET U : ~ \E A : Adds(A, T, w)}
           Sizes == {Cardinality(T) : T \in Short}
<1>1. \A T \in SUBSET U : IsFiniteSet(T) /\ Cardinality(T) \in Nat
  BY FS_Subset, FS_CardinalityType
<1>2. SUFFICES ASSUME Short # {}
               PROVE  FALSE
  OBVIOUS
<1>3. Sizes \in SUBSET Nat /\ Sizes # {}
  BY <1>1, <1>2
<1>4. PICK n \in Sizes : \A m \in Sizes : n <= m
  <2> HIDE DEF Sizes
  <2>1. QED  BY <1>3, Least
<1>5. PICK T \in Short : n = Cardinality(T)
  BY <1>4
<1>6. CASE T = {}
  <2> DEFINE A == [S \in SUBSET T |-> 0]
  <2>1. Adds(A, T, w)
    BY <1>6 DEF Adds
  <2>2. QED  BY <1>5, <2>1
<1>7. CASE T # {}
  <2>1. PICK x \in T : TRUE
    BY <1>7
  <2>2. Cardinality(T \ {x}) = n - 1 /\ n \in Nat /\ T \ {x} \in SUBSET U
    BY <1>1, <1>5, FS_RemoveElement
  <2>3. T \ {x} \notin Short
    <3>1. Cardinality(T \ {x}) < n
      BY <2>2
    <3>2. ASSUME T \ {x} \in Short
          PROVE  FALSE
      <4>1. Cardinality(T \ {x}) \in Sizes
        BY <3>2
      <4>2. QED  BY <1>4, <2>2, <3>1, <4>1
    <3>3. QED  BY <3>2
  <2>4. PICK A : Adds(A, T \ {x}, w)
    BY <2>2, <2>3
  <2> DEFINE v == [y \in T |-> w[y]]
  <2>5. v \in [T -> Nat]
    OBVIOUS
  <2>6. Adds(A, T \ {x}, v)
    BY <2>4 DEF Adds
  <2>7. PICK B : Adds(B, T, v)
    <3> HIDE DEF v
    <3>1. QED  BY <2>1, <2>5, <2>6, SumsOneMore
  <2>8. Adds(B, T, w)
    BY <2>7 DEF Adds
  <2>9. QED  BY <1>5, <2>8
<1>8. QED  BY <1>6, <1>7

(* What counts down the members of S, one chosen after the other, adds up  *)
(* their weights.                                                          *)
Counts(F, w, S) ==
  /\ F[{}] = 0
  /\ \A T \in SUBSET S :
       T # {} => F[T] = w[CHOOSE x \in T : TRUE] + F[T \ {CHOOSE x \in T : TRUE}]

LEMMA CountedIsSum ==
  ASSUME NEW U, NEW w, NEW A, Adds(A, U, w), NEW S \in SUBSET U, IsFiniteSet(S),
         NEW F, Counts(F, w, S), \A x \in S : w[x] \in Nat
  PROVE  F[S] = A[S]
<1> DEFINE Wrong == {T \in SUBSET S : F[T] # A[T]}
           Sizes == {Cardinality(T) : T \in Wrong}
<1>1. \A T \in SUBSET S : IsFiniteSet(T) /\ Cardinality(T) \in Nat
  BY FS_Subset, FS_CardinalityType
<1>2. SUFFICES ASSUME Wrong # {}
               PROVE  FALSE
  OBVIOUS
<1>3. Sizes \in SUBSET Nat /\ Sizes # {}
  BY <1>1, <1>2
<1>4. PICK n \in Sizes : \A m \in Sizes : n <= m
  <2> HIDE DEF Sizes
  <2>1. QED  BY <1>3, Least
<1>5. PICK T \in Wrong : n = Cardinality(T)
  BY <1>4
<1>6. T # {}
  BY <1>5 DEF Adds, Counts
<1> DEFINE x == CHOOSE y \in T : TRUE
<1>7. x \in T
  BY <1>6
<1>8. F[T] = w[x] + F[T \ {x}]
  BY <1>5, <1>6 DEF Counts
<1> HIDE DEF x
<1>9. Cardinality(T \ {x}) = n - 1 /\ n \in Nat /\ T \ {x} \in SUBSET S
  BY <1>1, <1>5, <1>7, FS_RemoveElement
<1>10. F[T \ {x}] = A[T \ {x}]
  <2>1. ASSUME T \ {x} \in Wrong
        PROVE  FALSE
    <3>1. Cardinality(T \ {x}) \in Sizes
      BY <2>1
    <3>2. n <= n - 1
      BY <1>4, <1>9, <3>1
    <3>3. QED  BY <1>9, <3>2
  <2>2. QED  BY <1>9, <2>1
<1>11. A[T] = A[T \ {x}] + w[x] /\ A[T \ {x}] \in Nat /\ w[x] \in Nat
  <2>1. T = (T \ {x}) \cup {x} /\ T \ {x} \in SUBSET U /\ x \in U \ (T \ {x})
    BY <1>5, <1>7
  <2>2. A[(T \ {x}) \cup {x}] = A[T \ {x}] + w[x] /\ A[T \ {x}] \in Nat
    BY <2>1 DEF Adds
  <2>3. QED  BY <1>5, <1>7, <2>1, <2>2
<1>12. QED  BY <1>5, <1>8, <1>10, <1>11
(* The sum of the values of a function is that sum over its domain.        *)
LEMMA FunctionSum ==
  ASSUME NEW U, NEW w \in [U -> Nat], NEW A, Adds(A, U, w),
         NEW fun, DOMAIN fun \in SUBSET U, IsFiniteSet(DOMAIN fun),
         \A x \in DOMAIN fun : fun[x] = w[x]
  PROVE  SumFunction(fun) = A[DOMAIN fun]
<1> DEFINE S == DOMAIN fun
           Count(F) == [T \in SUBSET S |->
                          IF T = {} THEN 0
                          ELSE fun[CHOOSE x \in T : TRUE] + F[T \ {CHOOSE x \in T : TRUE}]]
           F == CHOOSE f : f = Count(f)
           G == [T \in SUBSET S |-> A[T]]
<1>1. SumFunction(fun) = F[S]
  BY DEF SumFunction, SumFunctionOnSet, FoldFunctionOnSet, MapThenFoldSet
<1>2. ASSUME NEW T \in SUBSET S, T # {}, NEW x \in T
      PROVE  A[T] = w[x] + A[T \ {x}] /\ fun[x] = w[x]
  <2>1. T = (T \ {x}) \cup {x} /\ T \ {x} \in SUBSET U /\ x \in U \ (T \ {x})
    BY <1>2
  <2>2. A[(T \ {x}) \cup {x}] = A[T \ {x}] + w[x] /\ A[T \ {x}] \in Nat
    BY <2>1 DEF Adds
  <2>3. w[x] \in Nat
    BY <2>1
  <2>4. QED  BY <1>2, <2>1, <2>2, <2>3
<1>3. G = Count(G)
  <2>1. ASSUME NEW T \in SUBSET S
        PROVE  A[T] = IF T = {} THEN 0
                      ELSE fun[CHOOSE x \in T : TRUE] + G[T \ {CHOOSE x \in T : TRUE}]
    <3>1. CASE T = {}
      BY <3>1 DEF Adds
    <3>2. CASE T # {}
      <4> DEFINE x == CHOOSE y \in T : TRUE
      <4>1. x \in T
        BY <3>2
      <4> HIDE DEF x
      <4>2. T \ {x} \in SUBSET S
        BY <2>1
      <4>3. G[T \ {x}] = A[T \ {x}]
        BY <4>2
      <4>4. A[T] = fun[x] + G[T \ {x}]
        BY <1>2, <2>1, <3>2, <4>1, <4>3
      <4>5. QED  BY <3>2, <4>4 DEF x
    <3>3. QED  BY <3>1, <3>2
  <2>2. QED  BY <2>1
<1>4. F = Count(F)
  <2> HIDE DEF Count, G
  <2>1. QED  BY <1>3
<1>5. Counts(F, w, S)
  <2> HIDE DEF F
  <2>1. \A T \in SUBSET S : T # {} => (CHOOSE x \in T : TRUE) \in T
    OBVIOUS
  <2>2. \A T \in SUBSET S : F[T] = Count(F)[T]
    BY <1>4
  <2>3. QED  BY <2>1, <2>2 DEF Counts
<1>6. \A x \in S : w[x] \in Nat
  OBVIOUS
<1>7. F[S] = A[S]
  <2>1. S \in SUBSET U /\ IsFiniteSet(S)
    OBVIOUS
  <2> HIDE DEF F, S
  <2>2. QED  BY <1>5, <1>6, <2>1, CountedIsSum
<1>8. QED  BY <1>1, <1>7


(* Adding a member to what is summed never lowers the sum.                 *)
LEMMA SumGrows ==
  ASSUME NEW U, IsFiniteSet(U), NEW w \in [U -> Nat], NEW S \in SUBSET U, NEW b \in U
  PROVE  /\ SumFunction([x \in S |-> w[x]]) \in Nat
         /\ SumFunction([x \in S \cup {b} |-> w[x]]) \in Nat
         /\ SumFunction([x \in S |-> w[x]]) <= SumFunction([x \in S \cup {b} |-> w[x]])
<1>1. PICK A : Adds(A, U, w)
  BY SumsExist
<1>2. ASSUME NEW T \in SUBSET U
      PROVE  SumFunction([x \in T |-> w[x]]) = A[T] /\ A[T] \in Nat
  <2> DEFINE fun == [x \in T |-> w[x]]
  <2>1. DOMAIN fun = T /\ \A x \in T : fun[x] = w[x]
    OBVIOUS
  <2>2. IsFiniteSet(T)
    BY FS_Subset
  <2>3. SumFunction(fun) = A[DOMAIN fun]
    <3> HIDE DEF fun
    <3>1. QED  BY <1>1, <2>1, <2>2, FunctionSum
  <2>4. A[T] \in Nat
    BY <1>1 DEF Adds
  <2>5. QED  BY <2>1, <2>3, <2>4
<1>3. S \cup {b} \in SUBSET U
  OBVIOUS
<1>4. A[S] <= A[S \cup {b}]
  <2>1. CASE b \in S
    <3>1. S \cup {b} = S
      BY <2>1
    <3>2. A[S \cup {b}] = A[S]
      BY <3>1
    <3>3. A[S] \in Nat
      BY <1>2
    <3>4. QED  BY <3>2, <3>3
  <2>2. CASE b \notin S
    <3>1. A[S \cup {b}] = A[S] + w[b]
      BY <1>1, <2>2 DEF Adds
    <3>2. w[b] \in Nat /\ A[S] \in Nat
      BY <1>2
    <3>3. QED  BY <3>1, <3>2
  <2>3. QED  BY <2>1, <2>2
<1>5. QED  BY <1>2, <1>3, <1>4

(* Nothing adds up to nothing.                                             *)
LEMMA SumOfNone ==
  ASSUME NEW fun, IsFiniteSet(DOMAIN fun), \A x \in DOMAIN fun : fun[x] \in Nat
  PROVE  DOMAIN fun = {} => SumFunction(fun) = 0
<1> DEFINE w == [x \in DOMAIN fun |-> fun[x]]
<1>1. w \in [DOMAIN fun -> Nat] /\ \A x \in DOMAIN fun : fun[x] = w[x]
  OBVIOUS
<1>2. PICK A : Adds(A, DOMAIN fun, w)
  <2> HIDE DEF w
  <2>1. QED  BY <1>1, SumsExist
<1>3. SumFunction(fun) = A[DOMAIN fun]
  <2> HIDE DEF w
  <2>1. QED  BY <1>1, <1>2, FunctionSum
<1>4. QED  BY <1>2, <1>3 DEF Adds

(* No percentage but those between 0 and 100 falls short.                  *)
LEMMA ShortPairs ==
  ASSUME NEW b, NEW p, <<b, p>> \in FloatShort
  PROVE  b \in Nat \ {0} /\ p \in 1..99
<1>1. <<b, p>> \in (Nat \ {0}) \X (1..99)
  BY DiscountAssumption DEF DiscountAssumption
<1>2. QED  BY <1>1

(* A price cannot rise with the percentage taken off: what the floating    *)
(* point loses at the lower percentage is less than the step to the next.  *)
LEMMA ReducedFalls ==
  ASSUME NEW base \in Nat, NEW p \in 0..100, NEW q \in 0..100, p <= q
  PROVE  Reduced(base, p) \in Int /\ Reduced(base, q) \in Int /\ Reduced(base, q) <= Reduced(base, p)
<1> DEFINE a == base * (100 - p)
           c == base * (100 - q)
<1>1. a \in Nat /\ c \in Nat /\ c <= a
  OBVIOUS
<1>2. base # 0 /\ p # q => c < a
  OBVIOUS
<1>3. <<base, p>> \in FloatShort => base # 0 /\ a % 100 = 0
  BY DiscountAssumption DEF DiscountAssumption
<1> HIDE DEF a, c
<1>4. a \div 100 \in Nat /\ c \div 100 \in Nat /\ c \div 100 <= a \div 100
  BY <1>1
<1>5. a % 100 = 0 /\ c < a => c \div 100 <= a \div 100 - 1
  BY <1>1
<1>6. Reduced(base, p) = (a \div 100) - (IF <<base, p>> \in FloatShort THEN 1 ELSE 0)
  BY DEF Reduced, a
<1>7. Reduced(base, q) = (c \div 100) - (IF <<base, q>> \in FloatShort THEN 1 ELSE 0)
  BY DEF Reduced, c
<1>8. CASE p = q
  BY <1>4, <1>6, <1>8
<1>9. CASE p # q
  BY <1>2, <1>3, <1>4, <1>5, <1>6, <1>7, <1>9
<1>10. QED  BY <1>8, <1>9

(* The total comes off whole: a higher percentage and a higher amount give *)
(* no higher price.                                                        *)
LEMMA DiscountedFalls ==
  ASSUME NEW base \in Nat, NEW m \in Nat, NEW p \in 0..100, NEW q \in 0..100, p <= q,
         NEW f \in Nat, NEW g \in Nat, f <= g
  PROVE  Discounted(base, m, q, g) <= Discounted(base, m, p, f)
<1>1. Reduced(base, p) \in Int /\ Reduced(base, q) \in Int /\ Reduced(base, q) <= Reduced(base, p)
  BY ReducedFalls
<1>2. \A x, y \in Int : x <= y => AtLeast(x, m) <= AtLeast(y, m)
  BY DEF AtLeast
<1>3. Reduced(base, q) - g <= Reduced(base, p) - f
  BY <1>1
<1>4. QED  BY <1>1, <1>2, <1>3 DEF Discounted

(* What a discount takes off is a number.                                  *)
LEMMA DiscountNumbers ==
  ASSUME NEW d \in Discounts
  PROVE  Percent(d) \in Nat /\ Fixed(d) \in Nat
BY DEF Discounts, Percent, Fixed

(* What is left of the price when the rank with discount d is the only one.*)
Left(base, d) == AtLeast(Reduced(base, Percent(d)) - Fixed(d), 0)

LEMMA LeftNumber ==
  ASSUME NEW base \in Nat, NEW d \in Discounts
  PROVE  Left(base, d) \in Nat /\ Saving(base, d) = base - Left(base, d)
<1>1. Percent(d) \in Nat /\ Fixed(d) \in Nat
  BY DiscountNumbers
<1> DEFINE a == base * (100 - Percent(d))
<1>2. a \in Int
  BY <1>1
<1>3. a \div 100 \in Int
  <2> HIDE DEF a
  <2>1. QED  BY <1>2
<1>4. Reduced(base, Percent(d)) \in Int
  <2>1. Reduced(base, Percent(d)) = (a \div 100) - (IF <<base, Percent(d)>> \in FloatShort THEN 1 ELSE 0)
    BY DEF Reduced
  <2> HIDE DEF a
  <2>2. QED  BY <1>3, <2>1
<1>5. \A x \in Int : AtLeast(x, 0) \in Nat
  BY DEF AtLeast
<1>6. QED  BY <1>1, <1>4, <1>5 DEF Left, Saving

(* The rank that counts saves the most of all, and something.              *)
LEMMA BestSaves ==
  ASSUME NEW base \in Nat, NEW ranks, DOMAIN ranks \in SUBSET Nat,
         \A i \in DOMAIN ranks : ranks[i] \in Discounts
  PROVE  \/ /\ BestRank(base, ranks) = 0
            /\ \A i \in DOMAIN ranks : base <= Left(base, ranks[i])
         \/ /\ BestRank(base, ranks) \in DOMAIN ranks
            /\ Left(base, ranks[BestRank(base, ranks)]) < base
            /\ \A i \in DOMAIN ranks :
                 Left(base, ranks[BestRank(base, ranks)]) <= Left(base, ranks[i])
<1> DEFINE left(i) == Left(base, ranks[i])
           Best(i) == /\ Saving(base, ranks[i]) > 0
                      /\ \A j \in DOMAIN ranks :
                           IF j < i THEN Saving(base, ranks[j]) < Saving(base, ranks[i])
                                    ELSE Saving(base, ranks[j]) <= Saving(base, ranks[i])
<1>1. \A i \in DOMAIN ranks : left(i) \in Nat /\ Saving(base, ranks[i]) = base - left(i)
  BY LeftNumber
<1>2. BestRank(base, ranks) = IF \E i \in DOMAIN ranks : Best(i)
                              THEN CHOOSE i \in DOMAIN ranks : Best(i) ELSE 0
  BY DEF BestRank
<1>3. ASSUME NEW i \in DOMAIN ranks, Best(i)
      PROVE  left(i) < base /\ \A j \in DOMAIN ranks : left(i) <= left(j)
  <2>1. Saving(base, ranks[i]) = base - left(i) /\ left(i) \in Nat
    BY <1>1
  <2>2. ASSUME NEW j \in DOMAIN ranks
        PROVE  left(i) <= left(j)
    <3>1. Saving(base, ranks[j]) = base - left(j) /\ left(j) \in Nat
      BY <1>1
    <3>2. Saving(base, ranks[j]) <= Saving(base, ranks[i])
      BY <1>3, <2>1, <3>1
    <3> HIDE DEF left
    <3>3. QED  BY <2>1, <3>1, <3>2
  <2>3. Saving(base, ranks[i]) > 0
    BY <1>3
  <2> HIDE DEF left
  <2>4. QED  BY <2>1, <2>2, <2>3
<1>4. ASSUME NEW i \in DOMAIN ranks, left(i) < base
      PROVE  \E k \in DOMAIN ranks : Best(k)
  <2> DEFINE Lefts == {left(j) : j \in DOMAIN ranks}
  <2>1. Lefts \in SUBSET Nat /\ Lefts # {}
    BY <1>1
  <2>2. PICK m \in Lefts : \A n \in Lefts : m <= n
    <3> HIDE DEF Lefts
    <3>1. QED  BY <2>1, Least
  <2> DEFINE Places == {j \in DOMAIN ranks : left(j) = m}
  <2>3. Places \in SUBSET Nat /\ Places # {}
    BY <2>2
  <2>4. PICK k \in Places : \A j \in Places : k <= j
    <3> HIDE DEF Places
    <3>1. QED  BY <2>3, Least
  <2>5. k \in DOMAIN ranks /\ left(k) = m /\ k \in Nat /\ m <= left(i)
    BY <2>2, <2>3, <2>4
  <2>6. ASSUME NEW j \in DOMAIN ranks
        PROVE  left(k) <= left(j) /\ (j < k => left(k) # left(j)) /\ j \in Nat
    <3>1. m <= left(j) /\ j \in Nat
      BY <2>2
    <3>2. left(j) = m => k <= j
      BY <2>4
    <3> HIDE DEF left
    <3>3. QED  BY <2>5, <3>1, <3>2
  <2>7. \A j \in DOMAIN ranks : /\ left(k) <= left(j) /\ (j < k => left(k) < left(j))
                                /\ left(j) \in Nat /\ Saving(base, ranks[j]) = base - left(j)
    <3> HIDE DEF left
    <3>1. QED  BY <1>1, <2>5, <2>6
  <2>8. left(k) < base /\ left(k) \in Nat /\ Saving(base, ranks[k]) = base - left(k)
    <3> HIDE DEF left
    <3>1. QED  BY <1>1, <1>4, <2>5
  <2>9. Best(k)
    <3> HIDE DEF left
    <3>1. QED  BY <2>7, <2>8
  <2>10. QED  BY <2>5, <2>9
<1>5. CASE \E i \in DOMAIN ranks : Best(i)
  <2>1. BestRank(base, ranks) \in DOMAIN ranks /\ Best(BestRank(base, ranks))
    <3> HIDE DEF Best
    <3>1. QED  BY <1>2, <1>5
  <2>2. QED
    <3> HIDE DEF Best
    <3>1. QED  BY <1>3, <2>1
<1>6. CASE ~ \E i \in DOMAIN ranks : Best(i)
  <2>1. BestRank(base, ranks) = 0
    <3> HIDE DEF Best
    <3>1. QED  BY <1>2, <1>6
  <2>2. \A i \in DOMAIN ranks : ~(left(i) < base) /\ left(i) \in Nat
    <3> HIDE DEF Best, left
    <3>1. QED  BY <1>1, <1>4, <1>6
  <2>3. QED  BY <2>1, <2>2
<1>7. QED  BY <1>5, <1>6


(* What the rank that counts contributes are numbers.                      *)
LEMMA RankNumbers ==
  ASSUME NEW base \in Nat, NEW ranks, DOMAIN ranks \in SUBSET Nat,
         \A i \in DOMAIN ranks : ranks[i] \in Discounts
  PROVE  /\ RankPercent(ranks, BestRank(base, ranks)) \in Nat
         /\ RankFixed(ranks, BestRank(base, ranks)) \in Nat
<1> DEFINE best == BestRank(base, ranks)
<1>1. best = 0 \/ ranks[best] \in Discounts
  BY BestSaves
<1> HIDE DEF best
<1>2. RankPercent(ranks, best) \in Nat /\ RankFixed(ranks, best) \in Nat
  BY <1>1, DiscountNumbers DEF RankPercent, RankFixed
<1>3. QED  BY <1>2 DEF best

(* Without badges the price is what the best rank leaves, but not less     *)
(* than the minimum.                                                       *)
LEMMA PriceWithoutBadges ==
  ASSUME NEW base \in Nat, NEW m \in Nat, NEW badges, DOMAIN badges = {},
         NEW ranks, DOMAIN ranks \in SUBSET Nat,
         \A i \in DOMAIN ranks : ranks[i] \in Discounts
  PROVE  LET best == BestRank(base, ranks)
         IN FinalPrice(base, m, badges, ranks)
              = AtLeast(IF best = 0 THEN base ELSE Left(base, ranks[best]), m)
<1> DEFINE best == BestRank(base, ranks)
           p == RankPercent(ranks, best)
           f == RankFixed(ranks, best)
<1>1. BadgePercent(badges) = 0 /\ BadgeFixed(badges) = 0
  BY SumOfNone, FS_EmptySet DEF BadgePercent, BadgeFixed
<1>2. p \in Nat /\ f \in Nat
  BY RankNumbers
<1>3. FinalPrice(base, m, badges, ranks) = Discounted(base, m, Capped(p), f)
  <2>1. Capped(Capped(0) + p) = Capped(p) /\ 0 + f = f
    <3> HIDE DEF p, f
    <3>1. QED  BY <1>2 DEF Capped
  <2>2. QED  BY <1>1, <2>1 DEF FinalPrice
<1>4. base * 100 \in Nat /\ (base * 100) \div 100 = base
  OBVIOUS
<1>5. <<base, 0>> \notin FloatShort /\ <<base, 100>> \notin FloatShort
  <2>1. ASSUME NEW e \in {0, 100}, <<base, e>> \in FloatShort
        PROVE  FALSE
    <3>1. e \in 1..99
      BY <2>1, ShortPairs
    <3>2. QED  BY <2>1, <3>1
  <2>2. QED  BY <2>1
<1>6. Reduced(base, 0) = base /\ Reduced(base, 100) = 0
  BY <1>4, <1>5 DEF Reduced
<1>7. CASE best = 0
  <2>1. p = 0 /\ f = 0
    BY <1>7 DEF RankPercent, RankFixed
  <2>2. Capped(0) = 0 /\ base - 0 = base
    BY DEF Capped
  <2>3. Discounted(base, m, Capped(p), f) = AtLeast(base, m)
    BY <1>6, <2>1, <2>2 DEF Discounted
  <2>4. QED  BY <1>3, <1>7, <2>3
<1>8. CASE best # 0
  <2>1. ranks[best] \in Discounts
    BY <1>8, BestSaves
  <2>2. PICK d \in Discounts : d = ranks[best]
    BY <2>1
  <2>3. p = Percent(d) /\ f = Fixed(d)
    BY <1>8, <2>2 DEF RankPercent, RankFixed
  <2>4. Left(base, d) \in Nat
    BY LeftNumber
  <2>5. CASE p <= 100
    <3>1. Capped(p) = p
      <4> HIDE DEF p
      <4>1. QED  BY <1>2, <2>5 DEF Capped
    <3>2. Reduced(base, p) \in Int
      <4> HIDE DEF p
      <4>1. p \in 0..100 /\ p <= p
        BY <1>2, <2>5
      <4>2. QED  BY <4>1, ReducedFalls
    <3>3. \A x \in Int : AtLeast(x, m) = AtLeast(AtLeast(x, 0), m)
      BY DEF AtLeast
    <3>4. Discounted(base, m, p, f) = AtLeast(Left(base, d), m)
      <4> HIDE DEF p, f
      <4>1. Reduced(base, p) - f \in Int
        BY <1>2, <3>2
      <4>2. QED  BY <2>3, <3>3, <4>1 DEF Discounted, Left
    <3>5. QED  BY <1>3, <1>8, <2>2, <3>1, <3>4
  <2>6. CASE ~(p <= 100)
    <3>1. Capped(p) = 100
      <4> HIDE DEF p
      <4>1. QED  BY <1>2, <2>6 DEF Capped
    <3>2. d.type = "percent"
      BY <2>3, <2>6 DEF Percent
    <3>3. f = 0
      BY <2>3, <3>2 DEF Fixed
    <3>4. Discounted(base, m, 100, f) = AtLeast(0, m)
      BY <1>6, <3>3 DEF Discounted
    <3>5. Left(base, d) = 0
      <4> DEFINE a == base * (100 - p)
      <4>1. a \in Int /\ a <= 0
        <5> HIDE DEF p
        <5>1. QED  BY <1>2, <2>6
      <4>2. <<base, p>> \notin FloatShort
        <5>1. ASSUME <<base, p>> \in FloatShort
              PROVE  FALSE
          <6> HIDE DEF p
          <6>1. p \in 1..99
            BY <5>1, ShortPairs
          <6>2. QED  BY <2>6, <6>1
        <5>2. QED  BY <5>1
      <4>3. Reduced(base, p) = a \div 100
        <5>1. a \div 100 \in Int
          <6> HIDE DEF a
          <6>1. QED  BY <4>1
        <5> HIDE DEF p
        <5>2. QED  BY <4>2, <5>1 DEF Reduced
      <4>4. a \div 100 <= 0 /\ a \div 100 \in Int
        <5> HIDE DEF a
        <5>1. QED  BY <4>1
      <4>5. \A x \in Int : x <= 0 => AtLeast(x - 0, 0) = 0
        BY DEF AtLeast
      <4> HIDE DEF a, p, f
      <4>6. QED  BY <2>3, <3>3, <4>3, <4>4, <4>5 DEF Left
    <3>6. QED  BY <1>3, <1>8, <2>2, <3>1, <3>4, <3>5
  <2>7. QED  BY <2>5, <2>6
<1>9. QED  BY <1>7, <1>8


(* Listings, rules, promotions and row orders stay what the dialogues and  *)
(* the database may make of them.                                          *)
LEMMA PricingTyped ==
  PricingSpec => []PricingTypeOK
<1>1. PricingInit => PricingTypeOK
  BY PricingAssumption DEF PricingInit, PricingTypeOK, PricingAssumption, Accepted
<1>2. PricingTypeOK /\ [PricingNext]_priceVars => PricingTypeOK'
  <2> SUFFICES ASSUME PricingTypeOK, [PricingNext]_priceVars
               PROVE  PricingTypeOK'
    OBVIOUS
  <2>1. CASE EditListing
    BY <2>1 DEF EditListing, Accepted, PricingTypeOK, RowOrders
  <2>2. CASE PromoteBadge
    BY <2>2 DEF PromoteBadge, PricingTypeOK, RowOrders
  <2>3. CASE PromoteRank
    BY <2>3 DEF PromoteRank, PricingTypeOK, RowOrders
  <2>4. CASE UpdateBadge
    BY <2>4 DEF UpdateBadge, PricingTypeOK, RowOrders
  <2>5. CASE UpdateRank
    BY <2>5 DEF UpdateRank, PricingTypeOK, RowOrders
  <2>6. CASE ToggleBadge
    BY <2>6 DEF ToggleBadge, PricingTypeOK, RowOrders, rules
  <2>7. CASE SetPoints
    BY <2>7 DEF SetPoints, PricingTypeOK, RowOrders, rules
  <2>8. CASE UNCHANGED priceVars
    BY <2>8 DEF priceVars, rules, PricingTypeOK, RowOrders
  <2>9. QED
    BY <2>1, <2>2, <2>3, <2>4, <2>5, <2>6, <2>7, <2>8 DEF PricingNext
<1>3. QED  BY <1>1, <1>2, PTL DEF PricingSpec

(* What a badge or a rank offers, promoted or not, is a discount, and the  *)
(* rows are numbered.                                                      *)
LEMMA OffersOK ==
  ASSUME PricingTypeOK
  PROVE  /\ \A b \in Badges : Offer(badgePromo[b], badgeRule[b]) \in Discounts
         /\ \A n \in Nat : /\ DOMAIN RankOffersOf(Eligible(n)) \in SUBSET Nat
                           /\ 0 \notin DOMAIN RankOffersOf(Eligible(n))
                           /\ \A i \in DOMAIN RankOffersOf(Eligible(n)) :
                                RankOffersOf(Eligible(n))[i] \in Discounts
         /\ listing.base \in Nat /\ listing.minPrice \in Nat
<1> USE PricingAssumption DEF PricingAssumption, PricingTypeOK
<1>1. \A b \in Badges : Offer(badgePromo[b], badgeRule[b]) \in Discounts
  BY DEF Offer
<1>2. \A k \in Ranks : Offer(rankPromo[k], rankRule[k]) \in Discounts
  BY DEF Offer
<1>3. rows \in [1..Cardinality(Ranks) -> Ranks] /\ Cardinality(Ranks) \in Nat
  BY FS_CardinalityType DEF RowOrders, SetToSeqs
<1>4. ASSUME NEW n \in Nat
      PROVE  /\ DOMAIN RankOffersOf(Eligible(n)) \in SUBSET Nat
             /\ 0 \notin DOMAIN RankOffersOf(Eligible(n))
             /\ \A i \in DOMAIN RankOffersOf(Eligible(n)) :
                  RankOffersOf(Eligible(n))[i] \in Discounts
  <2>1. Eligible(n) \in SUBSET (1..Cardinality(Ranks))
    BY <1>3 DEF Eligible
  <2>2. \A i \in Eligible(n) : i \in Nat \ {0} /\ rows[i] \in Ranks
    BY <1>3, <2>1
  <2> DEFINE places == Eligible(n)
  <2>3. \A i \in places : i \in Nat \ {0} /\ Offer(rankPromo[rows[i]], rankRule[rows[i]]) \in Discounts
    BY <1>2, <2>2
  <2> HIDE DEF places
  <2>4. DOMAIN RankOffersOf(places) \in SUBSET Nat /\ 0 \notin DOMAIN RankOffersOf(places)
        /\ \A i \in DOMAIN RankOffersOf(places) : RankOffersOf(places)[i] \in Discounts
    BY <2>3 DEF RankOffersOf
  <2>5. QED  BY <2>4 DEF places
<1>5. listing.base \in Nat /\ listing.minPrice \in Nat
  OBVIOUS
<1>6. QED  BY <1>1, <1>4, <1>5

(* Earning a badge adds to the percentage and the amount that come off.    *)
LEMMA BadgesAdd ==
  ASSUME PricingTypeOK, NEW S \in SUBSET Badges, NEW b \in Badges
  PROVE  /\ BadgePercent(BadgeOffersOf(S)) \in Nat
         /\ BadgePercent(BadgeOffersOf(S \cup {b})) \in Nat
         /\ BadgePercent(BadgeOffersOf(S)) <= BadgePercent(BadgeOffersOf(S \cup {b}))
         /\ BadgeFixed(BadgeOffersOf(S)) \in Nat
         /\ BadgeFixed(BadgeOffersOf(S \cup {b})) \in Nat
         /\ BadgeFixed(BadgeOffersOf(S)) <= BadgeFixed(BadgeOffersOf(S \cup {b}))
<1> DEFINE offer(x) == Offer(badgePromo[x], badgeRule[x])
           pct == [x \in Badges |-> Percent(offer(x))]
           fix == [x \in Badges |-> Fixed(offer(x))]
<1>1. pct \in [Badges -> Nat] /\ fix \in [Badges -> Nat]
  BY OffersOK, DiscountNumbers
<1>2. ASSUME NEW T \in SUBSET Badges
      PROVE  /\ BadgePercent(BadgeOffersOf(T)) = SumFunction([x \in T |-> pct[x]])
             /\ BadgeFixed(BadgeOffersOf(T)) = SumFunction([x \in T |-> fix[x]])
  <2>1. DOMAIN BadgeOffersOf(T) = T /\ \A x \in T : BadgeOffersOf(T)[x] = offer(x)
    BY DEF BadgeOffersOf
  <2>2. [x \in DOMAIN BadgeOffersOf(T) |-> Percent(BadgeOffersOf(T)[x])] = [x \in T |-> pct[x]]
    BY <2>1
  <2>3. [x \in DOMAIN BadgeOffersOf(T) |-> Fixed(BadgeOffersOf(T)[x])] = [x \in T |-> fix[x]]
    BY <2>1
  <2>4. QED  BY <2>2, <2>3 DEF BadgePercent, BadgeFixed
<1>3. IsFiniteSet(Badges) /\ S \cup {b} \in SUBSET Badges
  BY PricingAssumption DEF PricingAssumption
<1> HIDE DEF pct, fix
<1>4. /\ SumFunction([x \in S |-> pct[x]]) \in Nat
      /\ SumFunction([x \in S \cup {b} |-> pct[x]]) \in Nat
      /\ SumFunction([x \in S |-> pct[x]]) <= SumFunction([x \in S \cup {b} |-> pct[x]])
  BY <1>1, <1>3, SumGrows
<1>5. /\ SumFunction([x \in S |-> fix[x]]) \in Nat
      /\ SumFunction([x \in S \cup {b} |-> fix[x]]) \in Nat
      /\ SumFunction([x \in S |-> fix[x]]) <= SumFunction([x \in S \cup {b} |-> fix[x]])
  BY <1>1, <1>3, SumGrows
<1>6. QED  BY <1>2, <1>3, <1>4, <1>5

(* Earning a badge never makes a listing dearer (getDiscountDetails), for  *)
(* every base price and minimum, every number of badges and ranks, any     *)
(* discounts they carry and any points.                                    *)
THEOREM BadgesNeverHurt == PricingSpec => []BadgeNeverHurts
<1>1. ASSUME PricingTypeOK, NEW b \in Badges
      PROVE  Price(earned \cup {b}, points) <= Price(earned, points)
  <2> DEFINE ranks == RankOffersOf(Eligible(points))
             rp == RankPercent(ranks, BestRank(listing.base, ranks))
             rf == RankFixed(ranks, BestRank(listing.base, ranks))
             bp(S) == BadgePercent(BadgeOffersOf(S))
             bf(S) == BadgeFixed(BadgeOffersOf(S))
             pct(S) == Capped(Capped(bp(S)) + rp)
  <2>1. points \in Nat /\ earned \in SUBSET Badges
    BY <1>1, PricingAssumption DEF PricingTypeOK, PricingAssumption
  <2>2. listing.base \in Nat /\ listing.minPrice \in Nat /\ DOMAIN ranks \in SUBSET Nat
        /\ \A i \in DOMAIN ranks : ranks[i] \in Discounts
    BY <1>1, <2>1, OffersOK
  <2>3. rp \in Nat /\ rf \in Nat
    <3> HIDE DEF ranks
    <3>1. QED  BY <2>2, RankNumbers
  <2>4. /\ bp(earned) \in Nat /\ bp(earned \cup {b}) \in Nat /\ bp(earned) <= bp(earned \cup {b})
        /\ bf(earned) \in Nat /\ bf(earned \cup {b}) \in Nat /\ bf(earned) <= bf(earned \cup {b})
    BY <1>1, <2>1, BadgesAdd
  <2> HIDE DEF rp, rf, bp, bf
  <2>5. /\ pct(earned) \in 0..100 /\ pct(earned \cup {b}) \in 0..100
        /\ pct(earned) <= pct(earned \cup {b})
    BY <2>3, <2>4 DEF Capped
  <2>6. /\ bf(earned) + rf \in Nat /\ bf(earned \cup {b}) + rf \in Nat
        /\ bf(earned) + rf <= bf(earned \cup {b}) + rf
    BY <2>3, <2>4
  <2>7. \A S : Price(S, points)
                 = Discounted(listing.base, listing.minPrice, pct(S), bf(S) + rf)
    BY DEF Price, FinalPrice, rp, rf, bp, bf
  <2> HIDE DEF pct
  <2>8. Discounted(listing.base, listing.minPrice, pct(earned \cup {b}), bf(earned \cup {b}) + rf)
          <= Discounted(listing.base, listing.minPrice, pct(earned), bf(earned) + rf)
    BY <2>2, <2>5, <2>6, DiscountedFalls
  <2>9. QED  BY <2>7, <2>8
<1>2. PricingTypeOK => BadgeNeverHurts
  BY <1>1 DEF BadgeNeverHurts
<1>3. QED  BY <1>2, PricingTyped, PTL

(* Without badges the eligible rank that gives the lowest price is the one *)
(* that counts (getDiscountDetails), for every listing, any number of      *)
(* ranks, any discounts and whatever order the rows come in.               *)
THEOREM BestRankCounts == PricingSpec => []BestRankAlone
<1>1. ASSUME PricingTypeOK, NEW i \in DOMAIN RankOffersOf(Eligible(points))
      PROVE  Price({}, points)
               <= FinalPrice(listing.base, listing.minPrice, BadgeOffersOf({}),
                             <<RankOffersOf(Eligible(points))[i]>>)
  <2> DEFINE ranks == RankOffersOf(Eligible(points))
             base == listing.base
             m == listing.minPrice
             d == ranks[i]
             best == BestRank(base, ranks)
             alone == BestRank(base, <<d>>)
             low == IF best = 0 THEN base ELSE Left(base, ranks[best])
             high == IF alone = 0 THEN base ELSE Left(base, <<d>>[alone])
  <2>1. points \in Nat
    BY <1>1, PricingAssumption DEF PricingTypeOK, PricingAssumption
  <2>2. base \in Nat /\ m \in Nat /\ DOMAIN ranks \in SUBSET Nat /\ 0 \notin DOMAIN ranks
        /\ \A j \in DOMAIN ranks : ranks[j] \in Discounts
    BY <1>1, <2>1, OffersOK
  <2>3. d \in Discounts
    BY <1>1, <2>2
  <2>4. DOMAIN BadgeOffersOf({}) = {}
    BY DEF BadgeOffersOf
  <2>5. DOMAIN <<d>> = {1} /\ <<d>>[1] = d
    OBVIOUS
  <2>6. Price({}, points) = AtLeast(low, m)
    <3>1. Price({}, points) = FinalPrice(base, m, BadgeOffersOf({}), ranks)
      BY DEF Price
    <3> HIDE DEF ranks, base, m
    <3>2. QED  BY <2>2, <2>4, <3>1, PriceWithoutBadges
  <2>7. DOMAIN <<d>> \in SUBSET Nat /\ \A j \in DOMAIN <<d>> : <<d>>[j] \in Discounts
    BY <2>3, <2>5
  <2>8. FinalPrice(base, m, BadgeOffersOf({}), <<d>>) = AtLeast(high, m)
    <3> DEFINE one == <<d>>
    <3>1. DOMAIN one \in SUBSET Nat /\ \A j \in DOMAIN one : one[j] \in Discounts
      BY <2>7
    <3> HIDE DEF base, m, one
    <3>2. FinalPrice(base, m, BadgeOffersOf({}), one)
            = AtLeast(IF BestRank(base, one) = 0 THEN base ELSE Left(base, one[BestRank(base, one)]), m)
      BY <2>2, <2>4, <3>1, PriceWithoutBadges
    <3>3. QED  BY <3>2 DEF one
  <2>9. \A j \in DOMAIN ranks : low <= Left(base, ranks[j])
    <3> HIDE DEF ranks, base
    <3>1. CASE best = 0
      BY <2>2, <3>1, BestSaves
    <3>2. CASE best # 0
      BY <2>2, <3>2, BestSaves
    <3>3. QED  BY <3>1, <3>2
  <2>10. low <= base /\ low \in Nat
    <3> HIDE DEF ranks, base
    <3>1. best # 0 => best \in DOMAIN ranks /\ Left(base, ranks[best]) < base
      BY <2>2, BestSaves
    <3>2. best # 0 => Left(base, ranks[best]) \in Nat
      BY <2>2, <3>1, LeftNumber
    <3> HIDE DEF best
    <3>3. QED  BY <2>2, <3>1, <3>2
  <2>11. high = base \/ high = Left(base, d)
    <3> DEFINE one == <<d>>
    <3>1. DOMAIN one \in SUBSET Nat /\ (\A j \in DOMAIN one : one[j] \in Discounts) /\ DOMAIN one = {1} /\ one[1] = d
      BY <2>5, <2>7
    <3> HIDE DEF base, one
    <3>2. BestRank(base, one) = 0 \/ BestRank(base, one) \in DOMAIN one
      BY <2>2, <3>1, BestSaves
    <3>3. BestRank(base, one) = 0 \/ BestRank(base, one) = 1
      BY <3>1, <3>2
    <3>4. (IF BestRank(base, one) = 0 THEN base ELSE Left(base, one[BestRank(base, one)]))
            \in {base, Left(base, d)}
      BY <3>1, <3>3
    <3>5. QED  BY <3>4 DEF one
  <2>12. Left(base, d) \in Nat
    BY <2>2, <2>3, LeftNumber
  <2>13. low <= high /\ high \in Nat
    <3>1. low <= Left(base, d)
      BY <1>1, <2>9
    <3> HIDE DEF low, high, base, d
    <3>2. QED  BY <2>2, <2>10, <2>11, <2>12, <3>1
  <2>14. \A x, y \in Nat : x <= y => AtLeast(x, m) <= AtLeast(y, m)
    <3> HIDE DEF m
    <3>1. QED  BY <2>2 DEF AtLeast
  <2>15. AtLeast(low, m) <= AtLeast(high, m)
    <3> HIDE DEF low, high, m
    <3>1. QED  BY <2>10, <2>13, <2>14
  <2>16. QED  BY <2>6, <2>8, <2>15
<1>2. PricingTypeOK => BestRankAlone
  BY <1>1 DEF BestRankAlone
<1>3. QED  BY <1>2, PricingTyped, PTL
=============================================================================
