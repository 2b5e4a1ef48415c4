------------------------------- MODULE Ranks -------------------------------
(***************************************************************************)
(* The ranks and the badges of a group while lecturers change them and     *)
(* students earn and lose them.  A rank is saved in one statement and the  *)
(* ranks of all members are recalculated in a later one.                   *)
(***************************************************************************)
EXTENDS GroupRows

CONSTANTS
  EarnedIds,
  Thresholds,  \* the points a rank may require
  Reward       \* what a badge is worth; one worth nothing changes no statistics

ASSUME RanksAssumption ==
  /\ IsFiniteSet(EarnedIds) /\ NoRow \notin EarnedIds
  /\ Thresholds \subseteq Nat /\ Reward \in Nat \ {0}

VARIABLES
  badges,  \* gamification.badges: [group, published], or NoRow
  earned   \* gamification.earned_badges: [badge, group and student (the enrollment)], or NoRow;
           \* no key keeps a member from having a badge twice

badgeRows == <<badges, earned>>

BadgeRow == [group : There(groups), published : BOOLEAN]
EarnedRows(b) == {e \in EarnedIds : earned[e] # NoRow /\ earned[e].badge = b}

(* A transaction in progress has deleted the row.                          *)
Locked(e) ==
  e # NoRow /\ \E q \in Requests : pc[q] \in {"award", "awardWrite"} /\ call[q].takes = e

(* createRank: the new row, ...                                            *)
CreateRank(r) ==
  \E c \in Callers, g \in Groups, k \in RankIds, n \in Thresholds :
    /\ pc[r] = "idle" /\ begun < MaxCalls /\ begun' = begun + 1
    /\ groups[g] # NoRow /\ OwnsByRequest(c, groups[g].teacher) /\ Fresh(ranks, k)
    /\ ranks' = [ranks EXCEPT ![k] = [group |-> g, required |-> n]]
    /\ Outdated(r, g, "recalc", [group |-> g, then |-> "notify"])
    /\ UNCHANGED <<groups, members, notices, raced, badgeRows>>

(* updateRank reads the row ...                                            *)
UpdateRankRead(r) ==
  \E c \in Callers, k \in RankIds, n \in Thresholds :
    LET g == ranks[k].group IN
    /\ ranks[k] # NoRow /\ OwnsByRequest(c, groups[g].teacher)
    /\ Begin(r, "rankSave", [group |-> g, rank |-> k, row |-> [ranks[k] EXCEPT !.required = n]])
    /\ UNCHANGED <<groups, ranks, members, notices, raced, badgeRows>>

(* Mutant: the members keep their ranks.                                   *)
NoRecalc == "idle"

AfterRankSave == "recalc"

(* ... and saves it, again as a new row if it is gone, ...                 *)
UpdateRankSave(r) ==
  LET k == call[r].rank
      g == call[r].group
  IN /\ pc[r] = "rankSave"
     /\ ranks' = [ranks EXCEPT ![k] = call[r].row]
     /\ Outdated(r, g, AfterRankSave, [group |-> g, then |-> "idle"])
     /\ UNCHANGED <<begun, groups, members, notices, raced, badgeRows>>

DeleteRankRead(r) ==
  \E c \in Callers, k \in RankIds :
    LET g == ranks[k].group IN
    /\ ranks[k] # NoRow /\ OwnsByRequest(c, groups[g].teacher)
    /\ Begin(r, "rankDelete", [group |-> g, rank |-> k])
    /\ UNCHANGED <<groups, ranks, members, notices, raced, badgeRows>>

(* deleteRank takes the rank from the members and deletes it in one        *)
(* transaction, ...                                                        *)
DeleteRank(r) ==
  LET k == call[r].rank
      g == call[r].group
      without(row) == IF row # NoRow /\ row.rank = k THEN [row EXCEPT !.rank = NoRow] ELSE row
  IN /\ pc[r] = "rankDelete"
     /\ ranks' = [ranks EXCEPT ![k] = NoRow]
     /\ stats' = [stats EXCEPT ![g] = [s \in Students |-> without(@[s])]]
     /\ Outdated(r, g, "recalc", [group |-> g, then |-> "idle"])
     /\ UNCHANGED <<begun, groups, blurred, notices, raced, badgeRows>>

(* ... and every one of them recalculates the members' automatic ranks.    *)
Recalculated(g, row) ==
  IF row # NoRow /\ row.auto THEN [row EXCEPT !.rank = RankFor(g, row.points)] ELSE row

Recalculate(r) ==
  LET g == call[r].group
      then == call[r].then
  IN /\ pc[r] = "recalc"
     /\ stats' = [stats EXCEPT ![g] = [s \in Students |-> Recalculated(g, @[s])]]
     /\ blurred' = {m \in blurred : m[1] # g}
     /\ Outdated(r, g, then, IF then = "idle" THEN NoCall ELSE [group |-> g])
     /\ UNCHANGED <<begun, groups, ranks, notices, raced, badgeRows>>

-----------------------------------------------------------------------------
CreateBadge(r) ==
  \E c \in Callers, g \in Groups, b \in BadgeIds :
    /\ groups[g] # NoRow /\ OwnsByRequest(c, groups[g].teacher) /\ Fresh(badges, b)
    /\ Begin(r, "notify", [group |-> g])
    /\ badges' = [badges EXCEPT ![b] = [group |-> g, published |-> FALSE]]
    /\ UNCHANGED <<groups, ranks, members, notices, raced, earned>>

(* updateBadge reads the row and saves it.                                 *)
UpdateBadgeRead(r) ==
  \E c \in Callers, b \in BadgeIds :
    LET g == badges[b].group IN
    /\ badges[b] # NoRow /\ OwnsByRequest(c, groups[g].teacher)
    /\ Begin(r, "badgeSave", [group |-> g, badge |-> b, row |-> [badges[b] EXCEPT !.published = ~@]])
    /\ UNCHANGED <<groups, ranks, members, notices, raced, badgeRows>>

UpdateBadge(r) ==
  /\ pc[r] = "badgeSave"
  /\ badges' = [badges EXCEPT ![call[r].badge] = call[r].row]
  /\ Done(r)
  /\ UNCHANGED <<groups, ranks, members, notices, raced, earned>>

(* applyBadgeGrantDelta and applyBadgeRevokeDelta, of n badges: what was   *)
(* spent already is not owed; the rank is computed anew, also one that a   *)
(* lecturer has set.                                                       *)
Given(g, row) ==
  [row EXCEPT !.points = @ + Reward, !.coins = @ + Reward,
              !.rank = RankFor(g, row.points + Reward)]

Revoked(g, row, n) ==
  [row EXCEPT !.coins = IF @ < n * Reward THEN 0 ELSE @ - n * Reward,
              !.rank = RankFor(g, row.points)]

(* deleteBadge reads the badge and who has earned it, ...                  *)
DeleteBadgeRead(r) ==
  \E c \in Callers, b \in BadgeIds :
    LET g == badges[b].group
        found == EarnedRows(b)
    IN /\ badges[b] # NoRow /\ OwnsByRequest(c, groups[g].teacher)
       /\ Begin(r, "badgeDelete", [group |-> g, badge |-> b,
                                   found |-> [e \in found |-> earned[e].student]])
       /\ UNCHANGED <<groups, ranks, members, notices, raced, badgeRows>>

(* ... in a transaction the statistics of each of them, which it computes  *)
(* anew ...                                                                *)
RevokeRead(r) ==
  LET g == call[r].group
      found == call[r].found
      times(s) == Cardinality({e \in DOMAIN found : found[e] = s})
      holders == {s \in Members(g) : \E e \in DOMAIN found : found[e] = s}
  IN /\ pc[r] = "badgeDelete"
     /\ Goto(r, "revoke", [group |-> g, badge |-> call[r].badge, found |-> DOMAIN found,
               old |-> FALSE, seen |-> <<>>,
               rows |-> [s \in holders |-> Revoked(g, stats[g][s], times(s))]])
     /\ UNCHANGED <<groups, ranks, members, notices, raced, badgeRows>>

RevokeCompare(r) == Compare(r, "revoke", "revokeWrite") /\ UNCHANGED badgeRows

(* ... and saves, and deletes what they earned and the badge, which cannot *)
(* be deleted if somebody has got it meanwhile.                            *)
DeleteBadge(r) ==
  LET b == call[r].badge
      found == call[r].found
  IN /\ pc[r] = "revokeWrite"
     /\ \A e \in found : ~Locked(e)
     /\ IF EarnedRows(b) \subseteq found /\ Writable(call[r].rows, call[r].seen)
        THEN /\ WriteRows(r)
             /\ badges' = [badges EXCEPT ![b] = NoRow]
             /\ earned' = [e \in EarnedIds |-> IF e \in found THEN NoRow ELSE earned[e]]
             /\ Overtaking(r, "idle", NoCall)
        ELSE Done(r) /\ UNCHANGED <<badgeRows, members>>
     /\ UNCHANGED <<groups, ranks, notices, raced>>

-----------------------------------------------------------------------------
(* toggleBadge finds the badge, and whether the member has it: the row of  *)
(* earned_badges to take, or NoRow, ...                                    *)
ToggleBadge(r) ==
  \E c \in Callers, b \in BadgeIds, s \in Students :
    LET g == badges[b].group
        has == {e \in EarnedRows(b) : earned[e].student = s}
    IN /\ badges[b] # NoRow /\ OwnsByRequest(c, groups[g].teacher) /\ stats[g][s] # NoRow
       /\ \E e \in IF has = {} THEN {NoRow} ELSE has :
            Begin(r, "toggle", [group |-> g, badge |-> b, student |-> s, takes |-> e])
       /\ UNCHANGED <<groups, ranks, members, notices, raced, badgeRows>>

(* ... deletes that row, when nobody else is deleting it, or inserts one,  *)
(* reads the member's statistics, computes them anew with the rank ...     *)
AwardRead(r) ==
  LET g == call[r].group
      s == call[r].student
      e == call[r].takes
      row == stats[g][s]
  IN /\ pc[r] = "toggle" /\ ~Locked(e)
     /\ Goto(r, "award", [group |-> g, badge |-> call[r].badge, student |-> s, takes |-> e,
               old |-> FALSE, seen |-> <<>>,
               rows |-> [x \in {s} |-> IF e = NoRow THEN Given(g, row) ELSE Revoked(g, row, 1)]])
     /\ UNCHANGED <<groups, ranks, members, notices, raced, badgeRows>>

AwardCompare(r) == Compare(r, "award", "awardWrite") /\ UNCHANGED badgeRows

(* ... and saves them; BADGE_EARNED is logged and all of it committed,     *)
(* unless the badge is gone.                                               *)
AwardWrite(r) ==
  LET b == call[r].badge
      g == call[r].group
      e == call[r].takes
      s == call[r].student
  IN /\ pc[r] = "awardWrite"
     /\ IF Writable(call[r].rows, call[r].seen) /\ (e = NoRow => badges[b] # NoRow)
        THEN /\ WriteRows(r)
             /\ IF e = NoRow
                THEN /\ \E new \in EarnedIds : /\ Fresh(earned, new)
                        /\ earned' = [earned EXCEPT ![new] = [badge |-> b, group |-> g, student |-> s]]
                     /\ notices' = [notices EXCEPT ![g][s]["news"] = "unread"]
                ELSE earned' = [earned EXCEPT ![e] = NoRow] /\ UNCHANGED notices
             /\ Overtaking(r, "idle", NoCall)
        ELSE Done(r) /\ UNCHANGED <<members, earned, notices>>
     /\ UNCHANGED <<groups, ranks, raced, badges>>

(* getRanksForGroup and getBadgesForGroup.                                 *)
RanksShown(g) == {k \in RankIds : ranks[k] # NoRow /\ ranks[k].group = g}
BadgesShown(c, g) ==
  {b \in BadgeIds : /\ badges[b] # NoRow /\ badges[b].group = g
                    /\ badges[b].published \/ OwnsAnywhere(c, groups[g].teacher)}

RankStep(r) ==
  \/ CreateRank(r) \/ UpdateRankRead(r) \/ UpdateRankSave(r)
  \/ DeleteRankRead(r) \/ DeleteRank(r) \/ Recalculate(r)
  \/ CreateBadge(r) \/ UpdateBadgeRead(r) \/ UpdateBadge(r)
  \/ DeleteBadgeRead(r) \/ RevokeRead(r) \/ RevokeCompare(r) \/ DeleteBadge(r)
  \/ ToggleBadge(r) \/ AwardRead(r) \/ AwardCompare(r) \/ AwardWrite(r)

-----------------------------------------------------------------------------
Recalculating(g) == \E r \in Requests : pc[r] = "recalc" /\ call[r].group = g

(* When no recalculation is outstanding, every automatic rank is the best  *)
(* one the points are enough for: however the calls on ranks, the badges   *)
(* given, taken back and deleted, the joins and the lives overlap, and     *)
(* though each of them saves, column by column, a row it has read before.  *)
(* Only a row that was computed from ranks which have changed since, or    *)
(* that another call has written between the two statements of a save, or  *)
(* a call that failed before it recalculated, leaves a wrong rank behind,  *)
(* until the next recalculation.                                           *)
RanksSettled ==
  \A g \in Groups : ~Recalculating(g) =>
    \A s \in Members(g) : LET row == stats[g][s] IN
      (row.auto /\ <<g, s>> \notin blurred) =>
        \/ row.rank = NoRow /\ RankFor(g, row.points) = NoRow
        \/ /\ row.rank # NoRow /\ ranks[row.rank] # NoRow /\ RankFor(g, row.points) # NoRow
           /\ ranks[row.rank].required = ranks[RankFor(g, row.points)].required
=============================================================================
