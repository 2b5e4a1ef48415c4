------------------------------ MODULE Reports ------------------------------
(***************************************************************************)
(* What lecturers and students are shown of the progress in a group: the   *)
(* lists of members, a student's profile, the progress page, who completed *)
(* an activity, and the reports.  All of them only read, by different      *)
(* queries: an activity is in a group by its stage, which may be moved to  *)
(* another group, a completion by the group it was given in.               *)
(***************************************************************************)
EXTENDS Ranks, Stages

(* fetchStageActivities, fetchCompletions.                                 *)
ActivitiesOf(g) == {a \in There(activities) : stages[activities[a].stage].group = g}
CompletedBy(g, s) == {a \in ActivityIds : <<g, s>> \in done[a]}

(* The owner by any account of the caller asks for the reports.            *)
MayReport(c, g) == groups[g] # NoRow /\ OwnsAnywhere(c, groups[g].teacher)

(* A row for each member with what is marked 1: of all activities ...      *)
GroupReport(g) == [s \in Members(g) |-> CompletedBy(g, s) \cap ActivitiesOf(g)]

(* ... or of the activities of one stage of the group ...                  *)
StageReport(g, stage) == [s \in Members(g) |-> CompletedBy(g, s) \cap Inside(stage)]

(* ... and an activity for each row, for one member.                       *)
StudentReport(g, s) == [a \in ActivitiesOf(g) |-> a \in CompletedBy(g, s)]

StagesOf(g) == {x \in There(stages) : stages[x].group = g}

(* getStudentProgress: the stages with their activities.                   *)
Progress(g, s) == [x \in StagesOf(g) |-> [a \in Inside(x) |-> a \in CompletedBy(g, s)]]

(* getActivityCompletions.                                                 *)
Completions(g, a) == {s \in Students : <<g, s>> \in done[a]}

(* getStudentProfile: a lecturer sees the profiles of his group, a student *)
(* the own one.                                                            *)
MayReadProfile(c, g, s) ==
  IF AccountId(c.user, "lecturer") # NoRow
  THEN OwnsAnywhere(c, groups[g].teacher)
  ELSE s = AccountId(c.user, "student")

Profile(g, s) ==
  [rank |-> stats[g][s].rank, coins |-> stats[g][s].coins, points |-> stats[g][s].points,
   badges |-> {earned[e].badge : e \in {x \in There(earned) :
                                         earned[x].group = g /\ earned[x].student = s}},
   completed |-> {a \in There(activities) : <<g, s>> \in done[a]}]

(* getStudents for the owner; getParticipants for members as well.         *)
StudentsShown(g) == [s \in Members(g) |-> stats[g][s]]
MaySeeParticipants(c, g) ==
  \/ OwnsByRequest(c, groups[g].teacher)
  \/ (IF c.org = NoOrg THEN AccountId(c.user, "student")
      ELSE AccountIdIn(c.user, c.org, "student")) \in Members(g)
-----------------------------------------------------------------------------
(* The automatic rank that a profile shows, the best one or not, is one of *)
(* those that the page of the group's ranks shows: also when the rank has  *)
(* been deleted, and inserted again by the save of an update, between the  *)
(* read and the write of a member's statistics.  A rank that a lecturer    *)
(* sets is not looked for in the group.                                    *)
ProfileRankShown ==
  \A g \in There(groups) : \A s \in Members(g) :
    stats[g][s].auto /\ Profile(g, s).rank # NoRow => Profile(g, s).rank \in RanksShown(g)
=============================================================================
