------------------------------ MODULE Backlog ------------------------------
(***************************************************************************)
(* The backlog of a group: what its members and its teacher are told and   *)
(* have read.  A row belongs to a group, an account and a kind; the        *)
(* highest role of the caller decides which rows a call is about.          *)
(***************************************************************************)
EXTENDS GroupRows

(* STUDENT_NOTIFICATION_TYPES and LECTURER_ACTIVITY_TYPES.                 *)
StudentKinds == {"news"}
LecturerKinds == {"joined", "used"}

(* buildListFilter: the rows <<student, kind>> that a list shows.  Members *)
(* see their own, who oversees the group sees those of everybody.          *)
Listed(c, g) ==
  IF ReadsAsStudent(c)
  THEN ({AccountId(c.user, "student")} \cap Members(g)) \X StudentKinds
  ELSE IF groups[g] # NoRow /\ OversesBacklog(c, groups[g].teacher)
       THEN Students \X LecturerKinds ELSE {}

(* markAsRead goes by the id of the row, not by its kind: who oversees the *)
(* group can mark what a member has not read; a super administrator is     *)
(* not asked whether there is a group.                                     *)
Markable(c, g) ==
  IF ReadsAsStudent(c)
  THEN ({AccountId(c.user, "student")} \cap Members(g)) \X Kinds
  ELSE IF \/ PrimaryRole(c.user) = "super"
          \/ groups[g] # NoRow /\ OversesBacklog(c, groups[g].teacher)
       THEN Students \X Kinds ELSE {}

Marked(g, rows, from, to) ==
  [notices EXCEPT ![g] = [s \in Students |-> [k \in Kinds |->
     IF <<s, k>> \in rows /\ @[s][k] \in from THEN to ELSE @[s][k]]]]

-----------------------------------------------------------------------------
MarkAsRead(r) ==
  \E c \in Callers, g \in Groups :
    \E row \in Markable(c, g) :
      /\ notices[g][row[1]][row[2]] = "unread"
      /\ AtOnce(r)
      /\ notices' = Marked(g, {row}, {"unread"}, "read")
      /\ UNCHANGED <<groups, ranks, members, raced>>

MarkAllAsRead(r) ==
  \E c \in Callers, g \in Groups :
    /\ \E row \in Listed(c, g) : notices[g][row[1]][row[2]] = "unread"
    /\ AtOnce(r)
    /\ notices' = Marked(g, Listed(c, g), {"unread"}, "read")
    /\ UNCHANGED <<groups, ranks, members, raced>>

(* excludeItemUses is for who oversees the group.                          *)
Cleared(c, g, exclude) ==
  {row \in Listed(c, g) : ~exclude \/ row[2] # "used"}

ClearBacklog(r) ==
  \E c \in Callers, g \in Groups, exclude \in BOOLEAN :
    LET rows == Cleared(c, g, exclude) IN
    /\ \E row \in rows : notices[g][row[1]][row[2]] # "none"
    /\ AtOnce(r)
    /\ notices' = Marked(g, rows, {"unread", "read"}, "none")
    /\ UNCHANGED <<groups, ranks, members, raced>>

(* useItem of the shop logs ITEM_USED.                                     *)
UseItem(r) ==
  \E c \in Callers, g \in Groups :
    LET s == AccountId(c.user, "student") IN
    /\ s \in Members(g) /\ notices[g][s]["used"] # "unread"
    /\ AtOnce(r)
    /\ notices' = [notices EXCEPT ![g][s]["used"] = "unread"]
    /\ UNCHANGED <<groups, ranks, members, raced>>

(* getUnreadCount, getBacklogCount and the two lists.                      *)
UnreadCount(c, g) == Cardinality({row \in Listed(c, g) : notices[g][row[1]][row[2]] = "unread"})
BacklogShown(c, g) == {row \in Listed(c, g) : notices[g][row[1]][row[2]] # "none"}

BacklogStep(r) == MarkAsRead(r) \/ MarkAllAsRead(r) \/ ClearBacklog(r) \/ UseItem(r)
=============================================================================
