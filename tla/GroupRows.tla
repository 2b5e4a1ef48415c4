----------------------------- MODULE GroupRows -----------------------------
(***************************************************************************)
(* The rows every part of a group's page works on: the group, the          *)
(* statistics of its members and what the calls in progress hold; and the  *)
(* calls on the group's own row: creating and changing a group, its lives, *)
(* joining it.  Each step is one statement or one short transaction.       *)
(***************************************************************************)
EXTENDS Access, Integers, FiniteSets, TLC

CONSTANTS
  Groups, RankIds, BadgeIds, Students,
  Callers,     \* [user, org] of the sessions that call
  Unlimited,   \* the SQL NULL of groups.lives
  Keep,        \* a field the call does not send
  NoCall,      \* what an idle request works on
  LivesSent,   \* the numbers of lives lecturers send
  Requests,    \* the calls the server handles at the same time
  MaxCalls     \* bound: calls that change something

ASSUME GroupRowsAssumption ==
  /\ Unlimited \notin Int /\ Keep \notin Int /\ Keep # Unlimited
  /\ LivesSent \subseteq Nat \cup {Unlimited}
  /\ MaxCalls \in Nat

VARIABLES
  groups,   \* education.groups: [teacher, lives, starting], or NoRow
  stats,    \* stats[g][s]: [lives, points, coins, rank, auto], or NoRow
  ranks,    \* gamification.ranks: [group, required], or NoRow
  notices,  \* notices[g][s][kind]: what the backlog holds for a student
  raced,    \* groups whose settings two calls have changed at once
  blurred,  \* members whose row was written from what had changed since
  gone,     \* ids of rows that were deleted: no row is ever given them again
  begun,    \* how many calls have begun
  pc, call

members == <<stats, blurred>>
calls == <<begun, pc, call>>

Kinds == {"news", "joined", "used"}

(* Rows of the tables, whose foreign keys refer to rows there are.         *)
There(table) == {x \in DOMAIN table : table[x] # NoRow}
GroupRow == [teacher : {a.id : a \in Accounts}, lives : Nat \cup {Unlimited}, starting : Nat]
Row == [lives : Nat, points : Nat, coins : Nat, rank : There(ranks) \cup {NoRow},
        auto : BOOLEAN]
Filled(table, rows) == \A x \in There(table) : table[x] \in rows
Members(g) == {s \in Students : stats[g][s] # NoRow}

-----------------------------------------------------------------------------
Begin(r, step, c) ==
  /\ pc[r] = "idle" /\ begun < MaxCalls
  /\ begun' = begun + 1
  /\ pc' = [pc EXCEPT ![r] = step] /\ call' = [call EXCEPT ![r] = c]

(* A call of one statement.                                                *)
AtOnce(r) ==
  /\ pc[r] = "idle" /\ begun < MaxCalls
  /\ begun' = begun + 1 /\ UNCHANGED <<pc, call>>

Goto(r, step, c) ==
  /\ pc' = [pc EXCEPT ![r] = step] /\ call' = [call EXCEPT ![r] = c]
  /\ UNCHANGED begun

Done(r) == Goto(r, "idle", NoCall)

(* A serial id that no row has had so far.                                 *)
Fresh(table, x) == table[x] = NoRow /\ x \notin gone

Sent(v, old) == IF v = Keep THEN old ELSE v

(* Mutant: the ranks of every group are looked at.                         *)
ReachedAnywhere(g, n) == {k \in RankIds : ranks[k] # NoRow /\ ranks[k].required <= n}

(* calculateRankForPoints among the ranks of the group: of those n points  *)
(* are enough for, one that requires the most.                             *)
Reached(g, n) ==
  {k \in RankIds : ranks[k] # NoRow /\ ranks[k].group = g /\ ranks[k].required <= n}

RankFor(g, n) ==
  LET best == {k \in Reached(g, n) : \A j \in Reached(g, n) : ranks[j].required <= ranks[k].required}
  IN IF Reached(g, n) = {} THEN NoRow ELSE CHOOSE k \in best : TRUE

-----------------------------------------------------------------------------
(* Statistics are read, computed anew and saved.  A call in progress has   *)
(* the rows it is going to save under `rows', and `old' once what they     *)
(* were computed from has changed.  A save is two statements: it reads     *)
(* every row again, `seen', and then writes what differs from it, ...      *)
Writing == {"capWrite", "awardWrite", "revokeWrite"}
Drafting == {"join", "capSave", "award", "revoke"} \cup Writing

(* What other calls at the given steps hold of some members is out of date.*)
Outdating(r, g, some, steps, step, c) ==
  /\ pc' = [pc EXCEPT ![r] = step]
  /\ call' = [q \in Requests |->
       IF q = r THEN c
       ELSE IF pc[q] \in steps /\ call[q].group = g /\ DOMAIN call[q].rows \cap some # {}
       THEN [call[q] EXCEPT !.old = TRUE] ELSE call[q]]

(* The ranks of a group have changed, or those of all members.             *)
Outdated(r, g, step, c) == Outdating(r, g, Students, Drafting, step, c)

Compare(r, from, to) ==
  /\ pc[r] = from
  /\ Goto(r, to, [call[r] EXCEPT
       !.seen = [s \in DOMAIN call[r].rows |-> stats[call[r].group][s]]])
  /\ UNCHANGED <<groups, ranks, members, notices, raced>>

Differing(draft, seen, now) == IF draft = seen THEN now ELSE draft

Merged(row, draft, seen) ==
  [row EXCEPT !.lives = Differing(draft.lives, seen.lives, @),
              !.points = Differing(draft.points, seen.points, @),
              !.coins = Differing(draft.coins, seen.coins, @),
              !.rank = Differing(draft.rank, seen.rank, @)]

(* ... unless it would write a rank that is gone.                          *)
Writable(rows, seen) ==
  \A s \in DOMAIN rows :
    rows[s].rank \notin {seen[s].rank, NoRow} => ranks[rows[s].rank] # NoRow

WriteRows(r) ==
  LET g == call[r].group
      rows == call[r].rows
  IN /\ stats' = [stats EXCEPT ![g] = [s \in Students |->
          IF s \in DOMAIN rows THEN Merged(@[s], rows[s], call[r].seen[s]) ELSE @[s]]]
     /\ blurred' = IF call[r].old THEN blurred \cup {<<g, s>> : s \in DOMAIN rows} ELSE blurred

(* Who has read these rows for a save is about to write over them.         *)
Overtaking(r, step, c) ==
  /\ Outdating(r, call[r].group, DOMAIN call[r].rows, Writing, step, c)
  /\ UNCHANGED begun

-----------------------------------------------------------------------------

(* notifyEnrolledStudents.                                                 *)
Announced(g) ==
  [notices EXCEPT ![g] = [s \in Students |->
     IF stats[g][s] = NoRow THEN @[s] ELSE [@[s] EXCEPT !["news"] = "unread"]]]

Notify(r) ==
  /\ pc[r] = "notify"
  /\ notices' = Announced(call[r].group)
  /\ Done(r)
  /\ UNCHANGED <<groups, ranks, members, raced>>

-----------------------------------------------------------------------------
LivesFit(lives, starting) == lives # Unlimited => starting <= lives

Payloads == [lives : LivesSent \cup {Keep}, starting : (LivesSent \ {Unlimited}) \cup {Keep}]

(* createGroup: starting lives default to the limit, or to 3.              *)
NewGroup(teacher, p) ==
  LET lives == Sent(p.lives, Unlimited) IN
  [teacher |-> teacher, lives |-> lives,
   starting |-> IF p.starting # Keep THEN p.starting
                ELSE IF lives # Unlimited THEN lives ELSE 3]

CreateGroup(r) ==
  \E c \in Callers, g \in Groups :
    /\ AtOnce(r)
    /\ Fresh(groups, g) /\ ScopedId(c, "lecturer") # NoRow
    /\ \E row \in {NewGroup(ScopedId(c, "lecturer"), p) : p \in Payloads} :
         /\ LivesFit(row.lives, row.starting)
         /\ groups' = [groups EXCEPT ![g] = row]
    /\ UNCHANGED <<ranks, members, notices, raced>>

(* Mutant: only the fields that are sent are compared.                     *)
SentFit(p, old) ==
  (p.lives \notin {Keep, Unlimited} /\ p.starting # Keep) => p.starting <= p.lives

(* updateGroup and updateLivesConfig compare the limit and the starting    *)
(* lives as they will be, with the row as it is now, ...                   *)
Fits(p, old) == LivesFit(Sent(p.lives, old.lives), Sent(p.starting, old.starting))

ConfigRead(r) ==
  \E c \in Callers, g \in Groups :
    /\ pc[r] = "idle" /\ groups[g] # NoRow /\ OwnsScoped(c, groups[g].teacher)
    /\ \E p \in Payloads, op \in {"group", "lives"}, tell \in BOOLEAN :
         /\ p.lives # Keep \/ p.starting # Keep \/ tell
         /\ op = "group" => ~tell
         /\ Fits(p, groups[g])
         /\ Begin(r, "config", [op |-> op, group |-> g, sent |-> p, tell |-> tell])
    /\ raced' = IF \E q \in Requests : pc[q] = "config" /\ call[q].group = g
                THEN raced \cup {g} ELSE raced
    /\ UNCHANGED <<groups, ranks, members, notices>>

(* ... write the fields that are sent, ...                                 *)
ConfigWrite(r) ==
  LET g == call[r].group
      p == call[r].sent
  IN /\ pc[r] = "config"
     /\ groups' = [groups EXCEPT ![g].lives = Sent(p.lives, @),
                                 ![g].starting = Sent(p.starting, @)]
     /\ IF call[r].op = "lives" /\ p.lives \notin {Keep, Unlimited}
        THEN Goto(r, "capRead", call[r])
        ELSE IF call[r].tell THEN Goto(r, "notify", [group |-> g]) ELSE Done(r)
     /\ UNCHANGED <<ranks, members, notices, raced>>

(* ... and updateLivesConfig takes away the lives above a new limit: the   *)
(* rows are read, ...                                                      *)
CapRead(r) ==
  LET g == call[r].group
      above == {s \in Members(g) : stats[g][s].lives > call[r].sent.lives}
  IN /\ pc[r] = "capRead"
     /\ IF above = {} /\ ~call[r].tell THEN Done(r)
        ELSE Goto(r, IF above = {} THEN "notify" ELSE "capSave",
               [group |-> g, old |-> FALSE, tell |-> call[r].tell, seen |-> <<>>,
                rows |-> [s \in above |-> [stats[g][s] EXCEPT !.lives = call[r].sent.lives]]])
     /\ UNCHANGED <<groups, ranks, members, notices, raced>>

CapCompare(r) == Compare(r, "capSave", "capWrite")

(* ... and saved.  Then students are told.                                 *)
CapWrite(r) ==
  /\ pc[r] = "capWrite"
  /\ IF Writable(call[r].rows, call[r].seen)
     THEN /\ WriteRows(r)
          /\ IF call[r].tell THEN Overtaking(r, "notify", [group |-> call[r].group])
             ELSE Overtaking(r, "idle", NoCall)
     ELSE Done(r) /\ UNCHANGED members
  /\ UNCHANGED <<groups, ranks, notices, raced>>

-----------------------------------------------------------------------------
(* enrollStudentById: the lives and the rank are read, ...                 *)
JoinRead(r) ==
  \E c \in Callers, g \in Groups :
    LET s == ScopedId(c, "student")
        row == groups[g]
    IN /\ s # NoRow /\ row # NoRow /\ SameOrganization(s, row.teacher)
       /\ stats[g][s] = NoRow
       /\ Begin(r, "join", [group |-> g, old |-> FALSE, rows |-> [x \in {s} |->
            [lives |-> IF row.lives # Unlimited /\ row.lives < row.starting
                       THEN row.lives ELSE row.starting,
             points |-> 0, coins |-> 0, rank |-> RankFor(g, 0), auto |-> TRUE]]])
       /\ UNCHANGED <<groups, ranks, members, notices, raced>>

(* ... and the statistics written, and STUDENT_JOINED logged.              *)
JoinWrite(r) ==
  /\ pc[r] = "join"
  /\ \E s \in DOMAIN call[r].rows :
       LET g == call[r].group
           row == call[r].rows[s]
       IN IF stats[g][s] = NoRow /\ (row.rank # NoRow => ranks[row.rank] # NoRow)
          THEN /\ stats' = [stats EXCEPT ![g][s] = row]
               /\ blurred' = IF call[r].old THEN blurred \cup {<<g, s>>} ELSE blurred
               /\ notices' = [notices EXCEPT ![g][s]["joined"] = "unread"]
          ELSE UNCHANGED <<members, notices>>
  /\ Done(r)
  /\ UNCHANGED <<groups, ranks, raced>>

(* getGroupsCatalog, getGroupPreview and getLivesConfig: the groups of the *)
(* session's organization, and which of them the caller may open.          *)
Catalog(c) ==
  {g \in Groups : groups[g] # NoRow
     /\ \E a \in Accounts : a.id = groups[g].teacher /\ a.org = c.org}
MyGroups(c) ==
  {g \in Catalog(c) :
     \/ OwnsScoped(c, groups[g].teacher)
     \/ ScopedId(c, "student") \in Members(g)}

(* The call is cut short: what it has committed stays.                     *)
Fail(r) ==
  /\ pc[r] # "idle"
  /\ blurred' = IF pc[r] = "recalc"
                THEN blurred \cup {<<call[r].group, s>> : s \in Students} ELSE blurred
  /\ Done(r)
  /\ UNCHANGED <<groups, ranks, stats, notices, raced>>

GroupStep(r) ==
  \/ CreateGroup(r) \/ ConfigRead(r) \/ ConfigWrite(r) \/ CapRead(r) \/ CapCompare(r)
  \/ CapWrite(r) \/ JoinRead(r) \/ JoinWrite(r) \/ Notify(r)

-----------------------------------------------------------------------------
(* The checks that createGroup, updateGroup and updateLivesConfig make on  *)
(* their own payload and the row keep the starting lives within the limit, *)
(* whatever is sent and left out, unless two calls change the settings of  *)
(* one group at once: the checks then are about rows that have changed.    *)
StartWithinLives ==
  \A g \in Groups : groups[g] # NoRow /\ g \notin raced
    => LivesFit(groups[g].lives, groups[g].starting)
=============================================================================
