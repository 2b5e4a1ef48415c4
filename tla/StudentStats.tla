---------------------------- MODULE StudentStats ----------------------------
(***************************************************************************)
(* The lecturer's calls that write student_stats: toggling and setting     *)
(* completed activities, toggling badges, bulk edits and lives.  Each is   *)
(* one READ COMMITTED transaction that takes no lock when it reads.  For   *)
(* every student it reads the row, computes a new one in memory and calls  *)
(* TypeORM's save: save reloads the row, finds the columns that differ and *)
(* updates only those; the update locks the row until the COMMIT.          *)
(***************************************************************************)
EXTENDS Integers

CONSTANTS
  Students,   \* enrolled students of one group
  Activities, \* activities a lecturer can mark as completed
  Badges,     \* badges a lecturer can grant
  Ranks,      \* ids of the group's ranks
  NoRank,     \* the SQL NULL of rank_id
  NoRow,      \* there is no student_stats row
  Keep,       \* a field that a bulk edit does not mention
  Unlimited,  \* the SQL NULL of the group's number of lives
  NoCall,     \* what an idle request works on
  Required,   \* Required[k]: the points rank k requires
  RowIds,     \* primary keys of activity_backlog and earned_badges rows
  Rewards,    \* the amounts an activity or a badge can be worth
  Calls,      \* the calls clients make
  MaxGranted, \* bound: no call starts once a student was granted as much
  Requests    \* the requests the server handles at the same time

Awards == Activities \cup Badges

AwardCalls ==
  [op : {"toggle"}, award : Awards, students : {{s} : s \in Students}]
  \cup [op : {"complete"}, award : Activities, students : SUBSET Students]
BulkCalls ==
  [op : {"bulk"}, students : SUBSET Students, currency : Nat \cup {Keep},
   total : Nat \cup {Keep}, rank : Ranks \cup {NoRank, Keep},
   auto : BOOLEAN \cup {Keep}]
LivesCalls ==
  [op : {"lives"}, students : SUBSET Students, delta : Int,
   most : Nat \cup {Unlimited}]
BuyCalls == [op : {"buy"}, student : Students, price : Nat, life : BOOLEAN]

(* What the entities and DTO validators guarantee.                         *)
ASSUME StudentStatsAssumption ==
  /\ Required \in [Ranks -> Nat]
  /\ Rewards \subseteq Nat
  /\ MaxGranted \in Nat
  /\ Unlimited \notin Nat /\ Keep \notin Nat \cup BOOLEAN \cup Ranks
  /\ Calls \subseteq AwardCalls \cup BulkCalls \cup LivesCalls \cup BuyCalls

VARIABLES
  stats,   \* stats[s]: the committed row of s, or NoRow
  held,    \* held[s][a]: the committed rows that say s has award a
  reward,  \* reward[a]: what award a is worth now
  granted, \* granted[s]: points the backlog says s was given
  spent,   \* spent[s]: points the backlog says s has paid
  pc,      \* the step each request takes next
  call,    \* the call each request makes
  tx       \* what each request has read, and its uncommitted writes

data == <<stats, held, reward, granted, spent>>
vars == <<data, pc, call, tx>>

DefaultLives == 3

(* calculateRankForPoints: of the ranks n points are enough for, the one   *)
(* that requires the most.                                                 *)
Attains(k, n) ==
  /\ Required[k] <= n
  /\ \A j \in Ranks : Required[j] <= n => Required[j] <= Required[k]

RankFor(n) == IF \E k \in Ranks : Attains(k, n)
              THEN CHOOSE k \in Ranks : Attains(k, n) ELSE NoRank

Columns == {"currency", "earned", "rank", "auto", "lives"}
Rows == [currency : Nat, earned : Nat, rank : Ranks \cup {NoRank},
         auto : BOOLEAN, lives : Nat]

(* A row as inserted for a student who has none yet.                       *)
NewRow(rank) == [currency |-> 0, earned |-> 0, rank |-> rank,
                 auto |-> TRUE, lives |-> DefaultLives]

Unwritten == [cols |-> {}, row |-> NewRow(NoRank), gain |-> 0]
Writes == [cols : SUBSET Columns, row : Rows, gain : Nat]

Nothing ==
  [reward |-> 0, grant |-> {}, revoke |-> {}, student |-> NoRow,
   target |-> NoRow, fresh |-> FALSE, save |-> Unwritten,
   added |-> {}, removed |-> {}, written |-> [s \in Students |-> Unwritten]]

Init ==
  /\ stats \in [Students -> {NoRow, NewRow(RankFor(0))}]
  /\ held = [s \in Students |-> [a \in Awards |-> {}]]
  /\ reward \in [Awards -> Rewards]
  /\ granted = [s \in Students |-> 0]
  /\ spent = [s \in Students |-> 0]
  /\ pc = [r \in Requests |-> "idle"]
  /\ call = [r \in Requests |-> NoCall]
  /\ tx = [r \in Requests |-> Nothing]

-----------------------------------------------------------------------------
(* The new row each operation computes from the row it has read.           *)

(* Math.max(0, n).                                                         *)
AtLeast0(n) == IF n < 0 THEN 0 ELSE n

(* Mutant: the rank is computed before the points are added.               *)
RewardedOldRank(row, n) ==
  [row EXCEPT !.currency = @ + n, !.earned = @ + n, !.rank = RankFor(row.earned)]

(* applyActivityCurrencyDelta with n > 0, and applyBadgeGrantDelta.        *)
Rewarded(row, n) ==
  [row EXCEPT !.currency = @ + n, !.earned = @ + n,
              !.rank = RankFor(row.earned + n)]

(* Mutant: the delta of a revoke is not negated.                           *)
RevokedAdds(row, n) ==
  [row EXCEPT !.currency = @ + n, !.earned = @ + n, !.rank = RankFor(row.earned + n)]

(* applyActivityCurrencyDelta with a negative delta.                       *)
ActivityRevoked(row, n) ==
  LET e == AtLeast0(row.earned - n) IN
  [row EXCEPT !.currency = AtLeast0(@ - n), !.earned = e, !.rank = RankFor(e)]

(* applyBadgeRevokeDelta: what was earned once stays earned.               *)
BadgeRevoked(row, n) ==
  [row EXCEPT !.currency = AtLeast0(@ - n), !.rank = RankFor(row.earned)]

(* One item of bulkUpdate.                                                 *)
Edited(row, c) ==
  LET currency == IF c.currency = Keep THEN row.currency ELSE c.currency
      raised   == row.earned + AtLeast0(currency - row.currency)
      earned   == IF c.total = Keep THEN raised ELSE c.total
      manual   == c.rank # Keep /\ c.auto # TRUE
      auto     == IF manual THEN FALSE ELSE IF c.auto = Keep THEN row.auto
                                                             ELSE c.auto
  IN [row EXCEPT !.currency = currency, !.earned = earned, !.auto = auto,
        !.rank = IF manual THEN c.rank ELSE IF auto THEN RankFor(earned)
                                                    ELSE @]

(* Mutant: only a new total is logged, not the new balance.                *)
TotalGain(row, c) ==
  IF c.total = Keep THEN 0 ELSE AtLeast0(c.total - row.earned)

(* The points its CURRENCY_ADDED entries say were added.                   *)
EditGain(row, c) ==
  LET currency == IF c.currency = Keep THEN row.currency ELSE c.currency
      gain     == AtLeast0(currency - row.currency)
  IN gain + (IF c.total = Keep THEN 0 ELSE AtLeast0(c.total - row.earned - gain))

(* incrementLives, decrementLives and one item of bulkUpdateLives.         *)
LivesChanged(row, c) ==
  LET n == AtLeast0(row.lives + c.delta) IN
  [row EXCEPT !.lives = IF c.most # Unlimited /\ n > c.most THEN c.most ELSE n]

-----------------------------------------------------------------------------
(* Row locks, kept until the transaction that wrote the row ends.          *)

LockedStats(s, r) ==
  \E q \in Requests \ {r} : tx[q].written[s].cols # {}

LockedAward(id, r) == \E q \in Requests \ {r} : id \in tx[q].removed

Goto(r, step) == pc' = [pc EXCEPT ![r] = step]

(* The request's transaction is now x.                                     *)
Become(r, x) == tx' = [tx EXCEPT ![r] = x]

End(r) ==
  /\ Goto(r, "idle")
  /\ call' = [call EXCEPT ![r] = NoCall]
  /\ Become(r, Nothing)

-----------------------------------------------------------------------------
(* Awards: toggleActivity, setActivityCompletions and toggleBadge.         *)

(* The amount is read before the transaction starts.                       *)
AwardStart(r, c) ==
  /\ pc[r] = "idle" /\ c.op \in {"toggle", "complete"}
  /\ call' = [call EXCEPT ![r] = c]
  /\ Become(r, [tx[r] EXCEPT !.reward = reward[c.award]])
  /\ Goto(r, "check")
  /\ UNCHANGED data

(* toGrant: the students the call is for who lack the award.               *)
ToGrant(c) == {s \in c.students : held[s][c.award] = {}}

(* toRevoke: holders the call is for (toggle) or does not name (complete). *)
ToRevoke(c) ==
  {s \in Students : /\ held[s][c.award] # {}
                    /\ (c.op = "toggle") = (s \in c.students)}

(* One statement reads which students hold the award.                      *)
ActivityCheck(r) ==
  /\ pc[r] = "check" /\ call[r].award \in Activities
  /\ Become(r, [tx[r] EXCEPT !.grant = ToGrant(call[r]),
                             !.revoke = ToRevoke(call[r])])
  /\ Goto(r, "next")
  /\ UNCHANGED <<data, call>>

(* toggleBadge removes the very row this statement finds.                  *)
BadgeCheck(r) ==
  /\ pc[r] = "check" /\ call[r].award \in Badges
  /\ \/ /\ ToRevoke(call[r]) = {}
        /\ Become(r, [tx[r] EXCEPT !.grant = ToGrant(call[r])])
        /\ Goto(r, "next")
     \/ \E s \in ToRevoke(call[r]) : \E id \in held[s][call[r].award] :
        /\ Become(r, [tx[r] EXCEPT !.student = s, !.target = id])
        /\ Goto(r, "delete")
  /\ UNCHANGED <<data, call>>

(* Keys that no row, inserted or about to be removed, goes by.             *)
FreeIds ==
  {id \in RowIds :
     /\ \A s \in Students, a \in Awards : id \notin held[s][a]
     /\ \A r \in Requests : /\ id # tx[r].target /\ id \notin tx[r].removed
                            /\ \A x \in tx[r].added : x.id # id}

(* Insert the award's row, then read the statistics.  A reward of 0 leaves *)
(* the statistics alone.                                                   *)
Grant(r, s) ==
  /\ pc[r] = "next" /\ call[r].op \in {"toggle", "complete"}
  /\ s \in tx[r].grant
  /\ FreeIds # {}
  /\ LET id  == CHOOSE x \in FreeIds : TRUE
         n   == tx[r].reward
         row == IF stats[s] = NoRow THEN NewRow(RankFor(0)) ELSE stats[s]
     IN Become(r, [tx[r] EXCEPT
          !.grant = @ \ {s}, !.student = s,
          !.added = @ \cup {[student |-> s, id |-> id]},
          !.fresh = (stats[s] = NoRow),
          !.save = IF n = 0 THEN Unwritten
                   ELSE [cols |-> {}, row |-> Rewarded(row, n), gain |-> n]])
  /\ Goto(r, IF tx[r].reward = 0 THEN "next" ELSE "save")
  /\ UNCHANGED <<data, call>>

(* revokeActivityCompletion looks for the row again; it may be gone now.   *)
RevokeFind(r, s) ==
  /\ pc[r] = "next" /\ call[r].op \in {"toggle", "complete"}
  /\ tx[r].grant = {} /\ s \in tx[r].revoke
  /\ \/ /\ held[s][call[r].award] = {}
        /\ Become(r, [tx[r] EXCEPT !.revoke = @ \ {s}])
        /\ Goto(r, "next")
     \/ \E id \in held[s][call[r].award] :
        /\ Become(r, [tx[r] EXCEPT !.revoke = @ \ {s}, !.student = s,
                                   !.target = id])
        /\ Goto(r, "delete")
  /\ UNCHANGED <<data, call>>

(* DELETE waits for a transaction that deletes the same row, and deletes   *)
(* nothing when that one has committed; the reward is taken either way.    *)
RevokeDelete(r) ==
  /\ pc[r] = "delete" /\ ~LockedAward(tx[r].target, r)
  /\ LET s   == tx[r].student  n == tx[r].reward
         row == IF stats[s] = NoRow THEN NewRow(RankFor(0)) ELSE stats[s]
     IN Become(r, [tx[r] EXCEPT
          !.removed = @ \cup {tx[r].target}, !.target = NoRow,
          !.fresh = (stats[s] = NoRow),
          !.save = IF n = 0 THEN Unwritten
                   ELSE [cols |-> {}, gain |-> 0,
                         row |-> IF call[r].award \in Badges
                                 THEN BadgeRevoked(row, n)
                                 ELSE ActivityRevoked(row, n)]])
  /\ Goto(r, IF tx[r].reward = 0 THEN "next" ELSE "save")
  /\ UNCHANGED <<data, call>>

-----------------------------------------------------------------------------
(* bulkUpdate, bulkUpdateLives, incrementLives and decrementLives.         *)

EditStart(r, c) ==
  /\ pc[r] = "idle" /\ c.op \in {"bulk", "lives"}
  /\ call' = [call EXCEPT ![r] = c]
  /\ Become(r, [tx[r] EXCEPT !.grant = c.students])
  /\ Goto(r, "next")
  /\ UNCHANGED data

(* Read the statistics of the next student and compute the new row.        *)
Edit(r, s) ==
  /\ pc[r] = "next" /\ call[r].op \in {"bulk", "lives"}
  /\ s \in tx[r].grant
  /\ LET row  == IF stats[s] = NoRow THEN NewRow(NoRank) ELSE stats[s]
         bulk == call[r].op = "bulk"
     IN Become(r, [tx[r] EXCEPT
          !.grant = @ \ {s}, !.student = s, !.fresh = (stats[s] = NoRow),
          !.save = [cols |-> {},
                    row  |-> IF bulk THEN Edited(row, call[r])
                                     ELSE LivesChanged(row, call[r]),
                    gain |-> IF bulk THEN EditGain(row, call[r]) ELSE 0]])
  /\ Goto(r, "save")
  /\ UNCHANGED <<data, call>>

-----------------------------------------------------------------------------
(* save.                                                                   *)

(* The row is read again and the columns that differ are found; a student  *)
(* who had no row gets an INSERT of all columns.                           *)
SaveReload(r) ==
  /\ pc[r] = "save"
  /\ LET row == tx[r].save.row  old == stats[tx[r].student]
     IN Become(r, [tx[r] EXCEPT !.save = [@ EXCEPT !.cols =
          IF tx[r].fresh THEN Columns ELSE {c \in Columns : row[c] # old[c]}]])
  /\ Goto(r, "write")
  /\ UNCHANGED <<data, call>>

(* UPDATE of those columns, or INSERT.  Nothing is locked if none differs. *)
SaveWrite(r) ==
  LET s == tx[r].student IN
  /\ pc[r] = "write"
  /\ tx[r].save.cols # {} => ~LockedStats(s, r)
  /\ tx[r].fresh => stats[s] = NoRow
  /\ Become(r, [tx[r] EXCEPT !.written = [@ EXCEPT ![s] = tx[r].save],
                             !.save = Unwritten, !.student = NoRow,
                             !.fresh = FALSE])
  /\ Goto(r, "next")
  /\ UNCHANGED <<data, call>>

(* Mutant: after a duplicate key the same entity is saved again.           *)
SaveAgain(r) ==
  /\ pc[r] = "write" /\ tx[r].fresh /\ stats[tx[r].student] # NoRow
  /\ Goto(r, "save")
  /\ UNCHANGED <<data, call, tx>>

(* The INSERT meets a row that another request has committed meanwhile.    *)
SaveDuplicate(r) ==
  /\ pc[r] = "write" /\ tx[r].fresh /\ stats[tx[r].student] # NoRow
  /\ End(r)
  /\ UNCHANGED data

(* The row after an update of some of its columns, or after the INSERT.    *)
Overwritten(old, w) ==
  LET Col(c) == IF c \in w.cols THEN w.row[c] ELSE old[c] IN
  IF old = NoRow THEN w.row
  ELSE [currency |-> Col("currency"), earned |-> Col("earned"),
        rank |-> Col("rank"), auto |-> Col("auto"), lives |-> Col("lives")]

Commit(r) ==
  /\ pc[r] = "next" /\ tx[r].grant = {} /\ tx[r].revoke = {}
  /\ stats' = [s \in Students |->
                 IF tx[r].written[s].cols = {} THEN stats[s]
                 ELSE Overwritten(stats[s], tx[r].written[s])]
  /\ held' = [s \in Students |-> [a \in Awards |->
                 (held[s][a] \ tx[r].removed)
                 \cup {x.id : x \in {y \in tx[r].added :
                          y.student = s /\ call[r].award = a}}]]
  /\ granted' = [s \in Students |-> granted[s] + tx[r].written[s].gain]
  /\ End(r)
  /\ UNCHANGED <<reward, spent>>

-----------------------------------------------------------------------------
(* The row after buyItem has charged it.                                   *)
Bought(row, c) == [row EXCEPT !.currency = @ - c.price,
                              !.lives = IF c.life THEN @ + 1 ELSE @]

(* buyItem (module Shop), which locks the row before it reads it, as one   *)
(* step.                                                                   *)
Buy(r, c) ==
  /\ pc[r] = "idle" /\ c.op = "buy"
  /\ LET s == c.student IN
     /\ ~LockedStats(s, r)
     /\ stats[s] # NoRow
     /\ c.price <= stats[s].currency
     /\ stats' = [stats EXCEPT ![s] = Bought(stats[s], c)]
     /\ spent' = [spent EXCEPT ![s] = @ + c.price]
  /\ UNCHANGED <<held, reward, granted, pc, call, tx>>

(* The lecturer edits an activity or a badge.                              *)
SetReward(a, n) ==
  /\ reward[a] # n
  /\ reward' = [reward EXCEPT ![a] = n]
  /\ UNCHANGED <<stats, held, granted, spent, pc, call, tx>>

(* The connection or the process fails and PostgreSQL rolls back.          *)
Fail(r) ==
  /\ pc[r] # "idle"
  /\ End(r)
  /\ UNCHANGED data

(* r waits for a row that q has locked.                                    *)
WaitsFor(r, q) ==
  /\ q # r
  /\ \/ pc[r] = "delete" /\ tx[r].target \in tx[q].removed
     \/ /\ pc[r] = "write" /\ tx[r].save.cols # {}
        /\ tx[q].written[tx[r].student].cols # {}

(* PostgreSQL finds a circle of waiting transactions and aborts one.       *)
DeadlockVictim(r) ==
  /\ \E C \in SUBSET Requests :
       r \in C /\ \A p \in C : (\E q \in C : WaitsFor(p, q))
                              /\ (\E q \in C : WaitsFor(q, p))
  /\ End(r)
  /\ UNCHANGED data

-----------------------------------------------------------------------------
(* Bound: once this much has been granted, or spent, only lives change.    *)
InRange(c) ==
  CASE c.op = "lives" -> TRUE
    [] c.op = "buy"   -> spent[c.student] < MaxGranted
    [] OTHER          -> \A s \in Students : granted[s] < MaxGranted

Step(r) ==
  \/ ActivityCheck(r) \/ BadgeCheck(r) \/ RevokeDelete(r)
  \/ SaveReload(r) \/ SaveWrite(r) \/ SaveDuplicate(r)
  \/ Commit(r) \/ DeadlockVictim(r)
  \/ \E s \in Students : Grant(r, s) \/ RevokeFind(r, s) \/ Edit(r, s)

Start(r) ==
  \E c \in Calls : /\ InRange(c)
                  /\ (AwardStart(r, c) \/ EditStart(r, c) \/ Buy(r, c))

Next ==
  \/ \E r \in Requests : Start(r) \/ Step(r) \/ Fail(r)
  \/ \E a \in Awards, n \in Rewards : SetReward(a, n)

Spec == Init /\ [][Next]_vars

(* The server goes on with every running transaction; a waiter for a row   *)
(* is served in turn (PostgreSQL queues them); a deadlock is found.        *)
Fairness ==
  \A r \in Requests : SF_vars(Step(r))

FairSpec == Spec /\ Fairness

-----------------------------------------------------------------------------
(* Rows and requests keep their types: nothing stored becomes negative.    *)
Transactions ==
  [reward : Nat, grant : SUBSET Students, revoke : SUBSET Students,
   student : Students \cup {NoRow}, target : RowIds \cup {NoRow},
   fresh : BOOLEAN, save : Writes,
   added : SUBSET [student : Students, id : RowIds],
   removed : SUBSET RowIds, written : [Students -> Writes]]
Steps == {"idle", "check", "next", "delete", "save", "write"}

TypeOK ==
  /\ stats \in [Students -> Rows \cup {NoRow}]
  /\ held \in [Students -> [Awards -> SUBSET RowIds]]
  /\ reward \in [Awards -> Nat]
  /\ granted \in [Students -> Nat]
  /\ spent \in [Students -> Nat]
  /\ pc \in [Requests -> Steps]
  /\ call \in [Requests -> Calls \cup {NoCall}]
  /\ tx \in [Requests -> Transactions]

(* However the calls overlap and whatever they overwrite, a balance and a  *)
(* total never exceed the points the backlog says the student was given    *)
(* (ACTIVITY_COMPLETED, BADGE_EARNED and CURRENCY_ADDED): a lost update    *)
(* can take points away or keep spent ones, but invents none.              *)
BalanceCovered ==
  \A s \in Students : stats[s] # NoRow =>
    stats[s].currency <= granted[s] /\ stats[s].earned <= granted[s]

(* A student never gets to spend more than it was given: whatever was paid *)
(* stays paid, also when awards are revoked and granted again.             *)
SpentIsGone ==
  \A s \in Students : stats[s] # NoRow =>
    stats[s].currency + spent[s] <= granted[s]

(* While rank assignment is automatic (autoRankEnabled of the entity), the *)
(* rank is the one the points earned attain, but for a row that a change   *)
(* of lives has inserted without a rank and no award or edit has touched.  *)
RankFollowsEarned ==
  \A s \in Students : stats[s] # NoRow /\ stats[s].auto =>
    \/ stats[s].rank = RankFor(stats[s].earned)
    \/ stats[s].rank = NoRank /\ stats[s].earned = 0

(* Every call ends, also when the rows of two calls are locked crosswise.  *)
RequestsEnd == \A r \in Requests : pc[r] # "idle" ~> pc[r] = "idle"

=============================================================================
