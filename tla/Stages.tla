------------------------------- MODULE Stages -------------------------------
(***************************************************************************)
(* The stages of a group and their activities: one endpoint each, whose    *)
(* body names the method.  Removing a stage and reordering the stages are  *)
(* transactions, the rest is one statement after another.                  *)
(***************************************************************************)
EXTENDS GroupRows, Sequences

CONSTANTS
  StageIds, ActivityIds,
  Orders       \* the lists of stages that clients send

ASSUME StagesAssumption == Orders \subseteq Seq(StageIds)

VARIABLES
  stages,      \* education.stages: [group, order, shown], or NoRow
  activities,  \* education.activities: [stage, shown], or NoRow
  done         \* done[a]: <<group, student>> of the rows in activity_backlog

stageRows == <<stages, activities, done>>
groupRows == <<groups, ranks, members, notices, raced>>

(* visibility_status: hidden, visible, to be unlocked.                     *)
Visibility == {0, 1, 2}

StageRow == [group : There(groups), order : Nat \cup {NoRow}, shown : Visibility]
ActivityRow == [stage : There(stages), shown : BOOLEAN]
Completion == There(activities) \X (There(groups) \X Students)

Inside(s) == {a \in ActivityIds : activities[a] # NoRow /\ activities[a].stage = s}

(* Owned by the caller: the stage's group, not the session's, decides.     *)
MayChange(c, s) == stages[s] # NoRow /\ OwnsAnywhere(c, groups[stages[s].group].teacher)

-----------------------------------------------------------------------------
CreateStage(r) ==
  \E c \in Callers, g \in Groups, s \in StageIds, v \in Visibility :
    /\ groups[g] # NoRow /\ OwnsAnywhere(c, groups[g].teacher) /\ Fresh(stages, s)
    /\ Begin(r, "notify", [group |-> g])
    /\ stages' = [stages EXCEPT ![s] = [group |-> g, order |-> NoRow, shown |-> v]]
    /\ UNCHANGED <<groupRows, activities, done>>

(* modifyStage reads the stage; it may be moved to any group there is, ... *)
ModifyStageRead(r) ==
  \E c \in Callers, s \in StageIds :
    /\ pc[r] = "idle" /\ MayChange(c, s)
    /\ \E row \in {[stages[s] EXCEPT !.group = g] : g \in There(groups)}
                   \cup {[stages[s] EXCEPT !.order = 0]}
                   \cup {[stages[s] EXCEPT !.shown = v] : v \in Visibility} :
         Begin(r, "stageSave", [stage |-> s, row |-> row])
    /\ UNCHANGED <<groupRows, stageRows>>

(* ... and saved as it was read, also if it is gone.                       *)
ModifyStageSave(r) ==
  /\ pc[r] = "stageSave"
  /\ stages' = [stages EXCEPT ![call[r].stage] = call[r].row]
  /\ Done(r)
  /\ UNCHANGED <<groupRows, activities, done>>

(* deleteStageAndLinkedRows: the transaction looks for the activities, ... *)
RemoveStageFind(r) ==
  \E c \in Callers, s \in StageIds :
    /\ MayChange(c, s)
    /\ Begin(r, "stageDelete", [stage |-> s, found |-> Inside(s)])
    /\ UNCHANGED <<groupRows, stageRows>>

(* ... deletes their completions, all activities the stage has if it has   *)
(* found one, and the stage; a foreign key that stands in the way undoes   *)
(* everything.                                                             *)

StageDeletable(s, found) ==
  IF found = {} THEN Inside(s) = {}
  ELSE \A a \in Inside(s) \ found : done[a] = {}

RemoveStage(r) ==
  LET s == call[r].stage
      found == call[r].found
      lost == IF found = {} THEN {} ELSE Inside(s)
  IN /\ pc[r] = "stageDelete"
     /\ IF StageDeletable(s, found)
        THEN /\ stages' = [stages EXCEPT ![s] = NoRow]
             /\ activities' = [a \in ActivityIds |-> IF a \in lost THEN NoRow ELSE activities[a]]
             /\ done' = [a \in ActivityIds |-> IF a \in found THEN {} ELSE done[a]]
        ELSE UNCHANGED stageRows
     /\ Done(r)
     /\ UNCHANGED groupRows

(* reorderStages: one update per stage of the list, in one transaction;    *)
(* stages of other groups stay as they are.                                *)
ReorderStages(r) ==
  \E c \in Callers, g \in Groups, list \in Orders :
    /\ groups[g] # NoRow /\ OwnsAnywhere(c, groups[g].teacher)
    /\ AtOnce(r)
    /\ stages' = [s \in StageIds |->
         IF stages[s] # NoRow /\ stages[s].group = g /\ \E i \in DOMAIN list : list[i] = s
         THEN [stages[s] EXCEPT !.order = (CHOOSE i \in DOMAIN list :
                 list[i] = s /\ \A j \in DOMAIN list : list[j] = s => j <= i) - 1]
         ELSE stages[s]]
    /\ UNCHANGED <<groupRows, activities, done>>

(* retrieveStages: hidden stages are for the owner of the group.           *)
StagesShown(c, g) ==
  {s \in StageIds : /\ stages[s] # NoRow /\ stages[s].group = g
                    /\ stages[s].shown = 1 \/ OwnsAnywhere(c, groups[g].teacher)}

-----------------------------------------------------------------------------
(* createActivity finds the stage ...                                      *)
CreateActivityCheck(r) ==
  \E c \in Callers, a \in ActivityIds, s \in StageIds :
    /\ MayChange(c, s) /\ Fresh(activities, a)
    /\ Begin(r, "activityNew", [activity |-> a, row |-> [stage |-> s, shown |-> TRUE]])
    /\ UNCHANGED <<groupRows, stageRows>>

(* ... and inserts the activity, if the stage is still there.              *)
CreateActivity(r) ==
  LET a == call[r].activity IN
  /\ pc[r] = "activityNew"
  /\ activities' = IF stages[call[r].row.stage] # NoRow /\ activities[a] = NoRow
                   THEN [activities EXCEPT ![a] = call[r].row] ELSE activities
  /\ Done(r)
  /\ UNCHANGED <<groupRows, stages, done>>

(* modifyActivity may move it to a stage of another group the caller owns. *)
ModifyActivityRead(r) ==
  \E c \in Callers, a \in There(activities) :
    /\ pc[r] = "idle" /\ MayChange(c, activities[a].stage)
    /\ \E row \in {[activities[a] EXCEPT !.stage = s] : s \in {x \in StageIds : MayChange(c, x)}}
                   \cup {[activities[a] EXCEPT !.shown = v] : v \in BOOLEAN} :
         Begin(r, "activitySave", [activity |-> a, row |-> row])
    /\ UNCHANGED <<groupRows, stageRows>>

ModifyActivitySave(r) ==
  /\ pc[r] = "activitySave"
  /\ activities' = IF stages[call[r].row.stage] # NoRow
                   THEN [activities EXCEPT ![call[r].activity] = call[r].row] ELSE activities
  /\ Done(r)
  /\ UNCHANGED <<groupRows, stages, done>>

(* removeActivity deletes the completions, in a statement of their own ... *)
RemoveCompletions(r) ==
  \E c \in Callers, a \in ActivityIds :
    /\ activities[a] # NoRow /\ MayChange(c, activities[a].stage)
    /\ Begin(r, "activityDelete", [activity |-> a])
    /\ done' = [done EXCEPT ![a] = {}]
    /\ UNCHANGED <<groupRows, stages, activities>>

(* ... and the activity, unless it was completed again meanwhile.          *)
RemoveActivity(r) ==
  LET a == call[r].activity IN
  /\ pc[r] = "activityDelete"
  /\ activities' = IF done[a] = {} THEN [activities EXCEPT ![a] = NoRow] ELSE activities
  /\ Done(r)
  /\ UNCHANGED <<groupRows, stages, done>>

Toggled(S, x) == IF x \in S THEN S \ {x} ELSE S \cup {x}

(* toggleActivity: completed by a member, in the group it stands in now.   *)
Complete(r) ==
  \E c \in Callers, a \in ActivityIds, s \in Students :
    LET g == stages[activities[a].stage].group IN
    /\ activities[a] # NoRow /\ OwnsByRequest(c, groups[g].teacher)
    /\ stats[g][s] # NoRow
    /\ AtOnce(r)
    /\ done' = [done EXCEPT ![a] = Toggled(@, <<g, s>>)]
    /\ UNCHANGED <<groupRows, stages, activities>>

(* retrieveActivities: what is hidden, or in a hidden stage, is for        *)
(* lecturers, whether they own the group or not.                           *)
ActivitiesShown(c, s) ==
  {a \in Inside(s) : \/ "lecturer" \in RolesOf(c.user)
                     \/ stages[s].shown # 0 /\ activities[a].shown}

StageStep(r) ==
  \/ CreateStage(r) \/ ModifyStageRead(r) \/ ModifyStageSave(r)
  \/ RemoveStageFind(r) \/ RemoveStage(r) \/ ReorderStages(r)
  \/ CreateActivityCheck(r) \/ CreateActivity(r)
  \/ ModifyActivityRead(r) \/ ModifyActivitySave(r)
  \/ RemoveCompletions(r) \/ RemoveActivity(r) \/ Complete(r)

=============================================================================
