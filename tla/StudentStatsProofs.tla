------------------------- MODULE StudentStatsProofs -------------------------
(***************************************************************************)
(* Proofs about StudentStats: its types; that no overlap of calls can give *)
(* a student points that the backlog does not say were granted; and that   *)
(* calls which do not overlap keep what was paid and the ranks in order.   *)
(***************************************************************************)
EXTENDS StudentStats, TLAPS

(* A computed row is worth at most what the student was granted once the   *)
(* gain of the call is added.                                              *)
CoveredBy(w, n) ==
  /\ w.row.currency <= n + w.gain
  /\ w.row.earned <= n + w.gain

(* The rows requests have computed, saved or not, are covered.             *)
WritesCovered ==
  \A r \in Requests :
    /\ pc[r] \in {"save", "write"} => CoveredBy(tx[r].save, granted[tx[r].student])
    /\ \A s \in Students : CoveredBy(tx[r].written[s], granted[s])

(* A running request works on a call and, while it saves, on a student.    *)
Working ==
  \A r \in Requests :
    /\ pc[r] # "idle" => call[r] \in Calls
    /\ pc[r] \in {"delete", "save", "write"} => tx[r].student \in Students
    /\ pc[r] = "delete" => tx[r].target \in RowIds
    /\ pc[r] \in {"check", "delete"} => call[r].op \in {"toggle", "complete"}

IInv == TypeOK /\ Working /\ BalanceCovered /\ WritesCovered

-----------------------------------------------------------------------------
(* The operators on rows.                                                  *)

LEMMA RankForType == ASSUME NEW n PROVE RankFor(n) \in Ranks \cup {NoRank}
BY DEF RankFor

LEMMA NewRowType ==
  ASSUME NEW k \in Ranks \cup {NoRank} PROVE NewRow(k) \in Rows
BY DEF NewRow, Rows, DefaultLives

LEMMA UnwrittenType == Unwritten \in Writes
BY NewRowType DEF Unwritten, Writes

LEMMA AtLeast0Type ==
  ASSUME NEW n \in Int
  PROVE  AtLeast0(n) \in Nat /\ AtLeast0(n) >= n
           /\ \A m \in Nat : n <= m => AtLeast0(n) <= m
BY DEF AtLeast0

LEMMA RewardedType ==
  ASSUME NEW row \in Rows, NEW n \in Nat
  PROVE  /\ Rewarded(row, n) \in Rows
         /\ Rewarded(row, n).currency = row.currency + n
         /\ Rewarded(row, n).earned = row.earned + n
<1>1. row.currency + n \in Nat /\ row.earned + n \in Nat
  BY DEF Rows
<1>2. RankFor(row.earned + n) \in Ranks \cup {NoRank}
  BY RankForType
<1> QED BY <1>1, <1>2 DEF Rewarded, Rows

LEMMA ActivityRevokedType ==
  ASSUME NEW row \in Rows, NEW n \in Nat
  PROVE  /\ ActivityRevoked(row, n) \in Rows
         /\ ActivityRevoked(row, n).currency <= row.currency
         /\ ActivityRevoked(row, n).earned <= row.earned
<1>1. row.currency \in Nat /\ row.earned \in Nat
  BY DEF Rows
<1>2. /\ AtLeast0(row.currency - n) \in Nat
      /\ AtLeast0(row.currency - n) <= row.currency
      /\ AtLeast0(row.earned - n) \in Nat
      /\ AtLeast0(row.earned - n) <= row.earned
  BY <1>1 DEF AtLeast0
<1>3. RankFor(AtLeast0(row.earned - n)) \in Ranks \cup {NoRank}
  BY RankForType
<1>4. ActivityRevoked(row, n) =
        [row EXCEPT !.currency = AtLeast0(row.currency - n),
                    !.earned = AtLeast0(row.earned - n),
                    !.rank = RankFor(AtLeast0(row.earned - n))]
  BY DEF ActivityRevoked
<1>5. ActivityRevoked(row, n) \in Rows
  BY <1>2, <1>3, <1>4 DEF Rows
<1>6. /\ ActivityRevoked(row, n).currency = AtLeast0(row.currency - n)
      /\ ActivityRevoked(row, n).earned = AtLeast0(row.earned - n)
  BY <1>4 DEF Rows
<1> QED BY <1>2, <1>5, <1>6

LEMMA BadgeRevokedType ==
  ASSUME NEW row \in Rows, NEW n \in Nat
  PROVE  /\ BadgeRevoked(row, n) \in Rows
         /\ BadgeRevoked(row, n).currency <= row.currency
         /\ BadgeRevoked(row, n).earned = row.earned
<1>1. row.currency \in Nat
  BY DEF Rows
<1>2. /\ AtLeast0(row.currency - n) \in Nat
      /\ AtLeast0(row.currency - n) <= row.currency
  BY <1>1 DEF AtLeast0
<1>3. RankFor(row.earned) \in Ranks \cup {NoRank}
  BY RankForType
<1>4. BadgeRevoked(row, n) =
        [row EXCEPT !.currency = AtLeast0(row.currency - n),
                    !.rank = RankFor(row.earned)]
  BY DEF BadgeRevoked
<1>5. BadgeRevoked(row, n) \in Rows
  BY <1>2, <1>3, <1>4 DEF Rows
<1>6. /\ BadgeRevoked(row, n).currency = AtLeast0(row.currency - n)
      /\ BadgeRevoked(row, n).earned = row.earned
  BY <1>4 DEF Rows
<1> QED BY <1>2, <1>5, <1>6

LEMMA EditedType ==
  ASSUME NEW row \in Rows, NEW c \in BulkCalls
  PROVE  /\ Edited(row, c) \in Rows
         /\ EditGain(row, c) \in Nat
         /\ Edited(row, c).currency <= row.currency + EditGain(row, c)
         /\ Edited(row, c).earned <= row.earned + EditGain(row, c)
<1> DEFINE currency == IF c.currency = Keep THEN row.currency ELSE c.currency
           gain     == AtLeast0(currency - row.currency)
           earned   == IF c.total = Keep THEN row.earned + gain ELSE c.total
           manual   == c.rank # Keep /\ c.auto # TRUE
           auto     == IF manual THEN FALSE ELSE IF c.auto = Keep THEN row.auto
                                                                  ELSE c.auto
           more     == IF c.total = Keep THEN 0
                       ELSE AtLeast0(c.total - row.earned - gain)
<1>1. /\ row.currency \in Nat /\ row.earned \in Nat /\ row.auto \in BOOLEAN
      /\ row.rank \in Ranks \cup {NoRank} /\ row.lives \in Nat
  BY DEF Rows
<1>2. /\ c.currency \in Nat \cup {Keep} /\ c.total \in Nat \cup {Keep}
      /\ c.rank \in Ranks \cup {NoRank, Keep} /\ c.auto \in BOOLEAN \cup {Keep}
  BY DEF BulkCalls
<1>3. currency \in Nat
  BY <1>1, <1>2
<1>4. gain \in Nat /\ gain >= currency - row.currency
  BY <1>1, <1>3, AtLeast0Type
<1>5. earned \in Nat
  BY <1>1, <1>2, <1>4
<1>6. more \in Nat /\ earned <= row.earned + gain + more
  <2>1. CASE c.total = Keep
    BY <2>1, <1>1, <1>4
  <2>2. CASE c.total # Keep
    <3>1. c.total - row.earned - gain \in Int
      BY <2>2, <1>1, <1>2, <1>4
    <3>2. more \in Nat /\ more >= c.total - row.earned - gain
      BY <2>2, <3>1, AtLeast0Type
    <3> QED BY <2>2, <3>2, <1>1, <1>2, <1>4
  <2> QED BY <2>1, <2>2
<1>7. auto \in BOOLEAN
  BY <1>1, <1>2
<1>8. EditGain(row, c) = gain + more
  BY DEF EditGain
<1>9. Edited(row, c) = [row EXCEPT !.currency = currency, !.earned = earned,
        !.auto = auto,
        !.rank = IF manual THEN c.rank ELSE IF auto THEN RankFor(earned) ELSE @]
  BY DEF Edited
<1> HIDE DEF currency, gain, earned, auto, more
<1>10. (IF manual THEN c.rank ELSE IF auto THEN RankFor(earned) ELSE row.rank)
         \in Ranks \cup {NoRank}
  BY <1>1, <1>2, RankForType
<1>11. Edited(row, c) \in Rows
  BY <1>3, <1>5, <1>7, <1>9, <1>10 DEF Rows
<1>12. Edited(row, c).currency = currency /\ Edited(row, c).earned = earned
  BY <1>9 DEF Rows
<1> QED BY <1>1, <1>3, <1>4, <1>5, <1>6, <1>8, <1>11, <1>12

LEMMA LivesChangedType ==
  ASSUME NEW row \in Rows, NEW c \in LivesCalls
  PROVE  /\ LivesChanged(row, c) \in Rows
         /\ LivesChanged(row, c).currency = row.currency
         /\ LivesChanged(row, c).earned = row.earned
<1>1. AtLeast0(row.lives + c.delta) \in Nat
  BY AtLeast0Type DEF Rows, LivesCalls
<1>2. c.most # Unlimited => c.most \in Nat
  BY DEF LivesCalls
<1> QED BY <1>1, <1>2 DEF LivesChanged, Rows

LEMMA OverwrittenType ==
  ASSUME NEW old \in Rows \cup {NoRow}, NEW w \in Writes
  PROVE  /\ Overwritten(old, w) \in Rows
         /\ old = NoRow => Overwritten(old, w) = w.row
         /\ old # NoRow => /\ Overwritten(old, w).currency
                               \in {old.currency, w.row.currency}
                           /\ Overwritten(old, w).earned
                               \in {old.earned, w.row.earned}
BY DEF Overwritten, Writes, Rows

(* STEPS *)
-----------------------------------------------------------------------------
(* Steps of one request that change no committed row.                      *)

LEMMA NothingType ==
  /\ Nothing \in Transactions
  /\ \A n \in Nat : CoveredBy(Nothing.save, n)
  /\ \A n \in Nat, s \in Students : CoveredBy(Nothing.written[s], n)
<1>1. Unwritten \in Writes /\ Unwritten.row.currency = 0
        /\ Unwritten.row.earned = 0 /\ Unwritten.gain = 0
  BY UnwrittenType DEF Unwritten, NewRow
<1> QED BY <1>1 DEF Nothing, Transactions, CoveredBy

LEMMA LocalStep ==
  ASSUME IInv, UNCHANGED data, NEW r \in Requests,
         NEW x \in Transactions, NEW step \in Steps,
         NEW c \in Calls \cup {NoCall},
         Become(r, x), Goto(r, step), call' = [call EXCEPT ![r] = c],
         step # "idle" => c \in Calls,
         step \in {"delete", "save", "write"} => x.student \in Students,
         step = "delete" => x.target \in RowIds,
         step \in {"check", "delete"} => c.op \in {"toggle", "complete"},
         step \in {"save", "write"} => CoveredBy(x.save, granted[x.student]),
         \A s \in Students : CoveredBy(x.written[s], granted[s])
  PROVE  IInv'
<1> USE DEF IInv, data
<1>1. /\ tx \in [Requests -> Transactions] /\ pc \in [Requests -> Steps]
      /\ call \in [Requests -> Calls \cup {NoCall}]
  BY DEF TypeOK
<1>2. tx' = [tx EXCEPT ![r] = x] /\ pc' = [pc EXCEPT ![r] = step]
  BY DEF Become, Goto
<1>3. TypeOK'
  BY <1>1, <1>2 DEF TypeOK
<1>4. Working'
  BY <1>1, <1>2 DEF Working
<1>5. BalanceCovered'
  BY DEF BalanceCovered
<1>6. WritesCovered'
  BY <1>1, <1>2 DEF WritesCovered
<1> QED BY <1>3, <1>4, <1>5, <1>6

(* A request that keeps its call and leaves what it has computed alone.    *)
LEMMA PlanStep ==
  ASSUME IInv, UNCHANGED <<data, call>>, NEW r \in Requests,
         NEW x \in Transactions, NEW step \in Steps,
         Become(r, x), Goto(r, step), pc[r] # "idle",
         step \in {"delete", "save", "write"} => x.student \in Students,
         step = "delete" => x.target \in RowIds,
         step \in {"check", "delete"} => call[r].op \in {"toggle", "complete"},
         step \in {"save", "write"} => CoveredBy(x.save, granted[x.student]),
         x.written = tx[r].written
  PROVE  IInv'
<1>1. call[r] \in Calls /\ call' = [call EXCEPT ![r] = call[r]]
  BY DEF IInv, Working, TypeOK
<1>2. \A s \in Students : CoveredBy(x.written[s], granted[s])
  BY DEF IInv, WritesCovered
<1> QED BY <1>1, <1>2, LocalStep

LEMMA EndStep ==
  ASSUME IInv, UNCHANGED data, NEW r \in Requests, End(r)
  PROVE  IInv'
<1>1. \A s \in Students : granted[s] \in Nat
  BY DEF IInv, TypeOK
<1>2. "idle" \in Steps
  BY DEF Steps
<1> QED BY <1>1, <1>2, NothingType, LocalStep, Zenon DEF End

-----------------------------------------------------------------------------
(* Every action preserves the invariant.                                   *)

LEMMA AwardStartStep ==
  ASSUME IInv, NEW r \in Requests, NEW c \in Calls, AwardStart(r, c)
  PROVE  IInv'
<1> DEFINE x == [tx[r] EXCEPT !.reward = reward[c.award]]
<1>1. tx[r] \in Transactions /\ c.award \in Awards
  BY StudentStatsAssumption
     DEF IInv, TypeOK, AwardStart, AwardCalls, BulkCalls, LivesCalls, BuyCalls, Awards
<1>2. reward[c.award] \in Nat
  BY <1>1 DEF IInv, TypeOK
<1>3. x \in Transactions /\ x.written = tx[r].written
  BY <1>1, <1>2 DEF Transactions
<1>4. "check" \in Steps
  BY DEF Steps
<1>5. /\ Become(r, x) /\ Goto(r, "check") /\ UNCHANGED data
      /\ c.op \in {"toggle", "complete"}
      /\ call' = [call EXCEPT ![r] = c]
  BY DEF AwardStart
<1>6. \A s \in Students : CoveredBy(x.written[s], granted[s])
  BY <1>3 DEF IInv, WritesCovered
<1> QED BY <1>3, <1>4, <1>5, <1>6, LocalStep

LEMMA EditStartStep ==
  ASSUME IInv, NEW r \in Requests, NEW c \in Calls, EditStart(r, c)
  PROVE  IInv'
<1> DEFINE x == [tx[r] EXCEPT !.grant = c.students]
<1>1. tx[r] \in Transactions /\ c.students \subseteq Students
  BY StudentStatsAssumption
     DEF IInv, TypeOK, EditStart, AwardCalls, BulkCalls, LivesCalls, BuyCalls
<1>3. x \in Transactions /\ x.written = tx[r].written
  BY <1>1 DEF Transactions
<1>4. "next" \in Steps
  BY DEF Steps
<1>5. /\ Become(r, x) /\ Goto(r, "next") /\ UNCHANGED data
      /\ call' = [call EXCEPT ![r] = c]
  BY DEF EditStart
<1>6. \A s \in Students : CoveredBy(x.written[s], granted[s])
  BY <1>3 DEF IInv, WritesCovered
<1> QED BY <1>3, <1>4, <1>5, <1>6, LocalStep

LEMMA CallTypes ==
  ASSUME NEW c \in Calls
  PROVE  /\ c.op \in {"toggle", "complete"} =>
              c.award \in Awards /\ c.students \subseteq Students
         /\ c.op \in {"toggle", "complete", "bulk", "lives", "buy"}
         /\ c.op = "bulk" => c \in BulkCalls
         /\ c.op = "lives" => c \in LivesCalls
         /\ c.op = "buy" => c \in BuyCalls
BY StudentStatsAssumption DEF AwardCalls, BulkCalls, LivesCalls, BuyCalls, Awards

LEMMA CheckTypes ==
  ASSUME IInv, NEW r \in Requests, pc[r] = "check"
  PROVE  /\ call[r] \in Calls /\ tx[r] \in Transactions
         /\ ToGrant(call[r]) \subseteq Students
         /\ ToRevoke(call[r]) \subseteq Students
         /\ call[r].award \in Awards
<1>1. call[r] \in Calls /\ call[r].op \in {"toggle", "complete"}
        /\ tx[r] \in Transactions
  BY DEF IInv, TypeOK, Working
<1>2. call[r].award \in Awards /\ call[r].students \subseteq Students
  BY <1>1, CallTypes
<1> QED BY <1>1, <1>2 DEF ToGrant, ToRevoke

LEMMA ActivityCheckStep ==
  ASSUME IInv, NEW r \in Requests, ActivityCheck(r)
  PROVE  IInv'
<1> DEFINE x == [tx[r] EXCEPT !.grant = ToGrant(call[r]),
                              !.revoke = ToRevoke(call[r])]
<1>1. /\ tx[r] \in Transactions
      /\ ToGrant(call[r]) \subseteq Students
      /\ ToRevoke(call[r]) \subseteq Students
  BY CheckTypes DEF ActivityCheck
<1>2. x \in Transactions /\ x.written = tx[r].written
  BY <1>1 DEF Transactions
<1>3. "next" \in Steps
  BY DEF Steps
<1>4. Become(r, x) /\ Goto(r, "next") /\ UNCHANGED <<data, call>> /\ pc[r] # "idle"
  BY DEF ActivityCheck
<1> QED BY <1>2, <1>3, <1>4, PlanStep

LEMMA BadgeCheckStep ==
  ASSUME IInv, NEW r \in Requests, BadgeCheck(r)
  PROVE  IInv'
<1>1. /\ tx[r] \in Transactions
      /\ ToGrant(call[r]) \subseteq Students
      /\ ToRevoke(call[r]) \subseteq Students
      /\ call[r].award \in Awards
  BY CheckTypes DEF BadgeCheck
<1>2. pc[r] = "check" /\ UNCHANGED <<data, call>>
  BY DEF BadgeCheck
<1>3. call[r].op \in {"toggle", "complete"}
  BY <1>2 DEF IInv, Working
<1>4. {"next", "delete"} \subseteq Steps
  BY DEF Steps
<1>5. CASE Become(r, [tx[r] EXCEPT !.grant = ToGrant(call[r])]) /\ Goto(r, "next")
  <2> DEFINE x == [tx[r] EXCEPT !.grant = ToGrant(call[r])]
  <2>1. x \in Transactions /\ x.written = tx[r].written
    BY <1>1 DEF Transactions
  <2> QED BY <1>2, <1>4, <1>5, <2>1, PlanStep
<1>6. ASSUME NEW s \in ToRevoke(call[r]), NEW id \in held[s][call[r].award],
             Become(r, [tx[r] EXCEPT !.student = s, !.target = id]),
             Goto(r, "delete")
      PROVE  IInv'
  <2> DEFINE x == [tx[r] EXCEPT !.student = s, !.target = id]
  <2>1. s \in Students /\ id \in RowIds
    BY <1>1, <1>6 DEF IInv, TypeOK
  <2>2. x \in Transactions /\ x.student = s /\ x.target = id
          /\ x.written = tx[r].written
    BY <1>1, <2>1 DEF Transactions
  <2> QED BY <1>2, <1>3, <1>4, <1>6, <2>1, <2>2, PlanStep
<1> QED BY <1>2, <1>5, <1>6 DEF BadgeCheck

(* The row a call starts from, whether or not there is one.                *)
LEMMA StartRowType ==
  ASSUME IInv, NEW s \in Students, NEW k \in Ranks \cup {NoRank}
  PROVE  LET row == IF stats[s] = NoRow THEN NewRow(k) ELSE stats[s]
         IN row \in Rows /\ row.currency <= granted[s] /\ row.earned <= granted[s]
<1>1. granted[s] \in Nat /\ stats[s] \in Rows \cup {NoRow}
  BY DEF IInv, TypeOK
<1>2. CASE stats[s] = NoRow
  BY <1>1, <1>2, NewRowType DEF NewRow
<1>3. CASE stats[s] # NoRow
  BY <1>1, <1>3 DEF IInv, BalanceCovered
<1> QED BY <1>2, <1>3

LEMMA GrantStep ==
  ASSUME IInv, NEW r \in Requests, NEW s \in Students, Grant(r, s)
  PROVE  IInv'
<1> DEFINE id   == CHOOSE x \in FreeIds : TRUE
           n    == tx[r].reward
           row  == IF stats[s] = NoRow THEN NewRow(RankFor(0)) ELSE stats[s]
           save == IF n = 0 THEN Unwritten
                   ELSE [cols |-> {}, row |-> Rewarded(row, n), gain |-> n]
           added == tx[r].added \cup {[student |-> s, id |-> id]}
           grant == tx[r].grant \ {s}
           fresh == stats[s] = NoRow
           x    == [tx[r] EXCEPT
                      !.grant = grant, !.student = s, !.added = added,
                      !.fresh = fresh, !.save = save]
           step == IF tx[r].reward = 0 THEN "next" ELSE "save"
<1>1. tx[r] \in Transactions /\ pc[r] = "next"
  BY DEF IInv, TypeOK, Grant
<1>2. n \in Nat
  BY <1>1 DEF Transactions
<1>3. id \in RowIds
  BY DEF Grant, FreeIds
<1>4. row \in Rows /\ row.currency <= granted[s] /\ row.earned <= granted[s]
  BY RankForType, StartRowType
<1>5. granted[s] \in Nat
  BY DEF IInv, TypeOK
<1> HIDE DEF row, id
<1>6. save \in Writes /\ (n # 0 => CoveredBy(save, granted[s]))
  <2>1. Rewarded(row, n) \in Rows /\ Rewarded(row, n).currency = row.currency + n
          /\ Rewarded(row, n).earned = row.earned + n
    BY <1>2, <1>4, RewardedType
  <2>2. row.currency \in Nat /\ row.earned \in Nat
    BY <1>4 DEF Rows
  <2> QED BY <1>2, <1>4, <1>5, <2>1, <2>2, UnwrittenType DEF Writes, CoveredBy
<1>7. Become(r, x) /\ Goto(r, step) /\ UNCHANGED <<data, call>>
  BY DEF Grant, row, id
<1>10. /\ added \in SUBSET [student : Students, id : RowIds]
       /\ grant \in SUBSET Students /\ fresh \in BOOLEAN
  BY <1>1, <1>3 DEF Transactions
<1> HIDE DEF save, n, added, grant, fresh
<1>8. /\ x \in Transactions /\ x.student = s /\ x.save = save
      /\ x.written = tx[r].written
  BY <1>1, <1>6, <1>10 DEF Transactions
<1>9. /\ step \in Steps /\ step \in {"next", "save"}
      /\ step \in {"save", "write"} => CoveredBy(x.save, granted[x.student])
  BY <1>6, <1>8 DEF Steps, n
<1> HIDE DEF x, step
<1> QED BY <1>1, <1>7, <1>8, <1>9, PlanStep

LEMMA RevokeFindStep ==
  ASSUME IInv, NEW r \in Requests, NEW s \in Students, RevokeFind(r, s)
  PROVE  IInv'
<1>1. /\ tx[r] \in Transactions /\ pc[r] = "next" /\ call[r] \in Calls
      /\ UNCHANGED <<data, call>>
  BY DEF IInv, TypeOK, Working, RevokeFind
<1>2. {"next", "delete"} \subseteq Steps
  BY DEF Steps
<1>3. CASE Become(r, [tx[r] EXCEPT !.revoke = @ \ {s}]) /\ Goto(r, "next")
  <2> DEFINE x == [tx[r] EXCEPT !.revoke = @ \ {s}]
  <2>1. x \in Transactions /\ x.written = tx[r].written
    BY <1>1 DEF Transactions
  <2> QED BY <1>1, <1>2, <1>3, <2>1, PlanStep
<1>4. ASSUME NEW id \in held[s][call[r].award], Goto(r, "delete"),
             Become(r, [tx[r] EXCEPT !.revoke = @ \ {s}, !.student = s,
                                     !.target = id])
      PROVE  IInv'
  <2> DEFINE x == [tx[r] EXCEPT !.revoke = @ \ {s}, !.student = s, !.target = id]
  <2>1. call[r].op \in {"toggle", "complete"} /\ call[r].award \in Awards
    BY <1>1, CallTypes DEF RevokeFind
  <2>2. id \in RowIds
    BY <1>4, <2>1 DEF IInv, TypeOK
  <2>3. x \in Transactions /\ x.student = s /\ x.target = id
          /\ x.written = tx[r].written
    BY <1>1, <2>2 DEF Transactions
  <2> QED BY <1>1, <1>2, <1>4, <2>1, <2>2, <2>3, PlanStep
<1> QED BY <1>3, <1>4 DEF RevokeFind

LEMMA RevokeDeleteStep ==
  ASSUME IInv, NEW r \in Requests, RevokeDelete(r)
  PROVE  IInv'
<1> DEFINE s    == tx[r].student
           n    == tx[r].reward
           row  == IF stats[s] = NoRow THEN NewRow(RankFor(0)) ELSE stats[s]
           new  == IF call[r].award \in Badges THEN BadgeRevoked(row, n)
                                               ELSE ActivityRevoked(row, n)
           save == IF n = 0 THEN Unwritten
                   ELSE [cols |-> {}, gain |-> 0, row |-> new]
           x    == [tx[r] EXCEPT
                      !.removed = @ \cup {tx[r].target}, !.target = NoRow,
                      !.fresh = (stats[s] = NoRow), !.save = save]
           step == IF tx[r].reward = 0 THEN "next" ELSE "save"
<1>1. tx[r] \in Transactions /\ pc[r] = "delete" /\ s \in Students
  BY DEF IInv, TypeOK, Working, RevokeDelete
<1>2. n \in Nat /\ granted[s] \in Nat
  BY <1>1 DEF IInv, TypeOK, Transactions
<1>3. tx[r].target \in RowIds
  BY <1>1 DEF IInv, Working
<1>4. row \in Rows /\ row.currency <= granted[s] /\ row.earned <= granted[s]
  BY <1>1, RankForType, StartRowType
<1> HIDE DEF row
<1>5. new \in Rows /\ new.currency <= row.currency /\ new.earned <= row.earned
  <2>1. row.earned \in Nat
    BY <1>4 DEF Rows
  <2>2. /\ BadgeRevoked(row, n) \in Rows
        /\ BadgeRevoked(row, n).currency <= row.currency
        /\ BadgeRevoked(row, n).earned = row.earned
    BY <1>2, <1>4, BadgeRevokedType
  <2>3. /\ ActivityRevoked(row, n) \in Rows
        /\ ActivityRevoked(row, n).currency <= row.currency
        /\ ActivityRevoked(row, n).earned <= row.earned
    BY <1>2, <1>4, ActivityRevokedType
  <2> HIDE DEF n
  <2>4. CASE call[r].award \in Badges
    BY <2>1, <2>2, <2>4
  <2>5. CASE call[r].award \notin Badges
    BY <2>3, <2>5
  <2> QED BY <2>4, <2>5
<1> HIDE DEF new
<1>6. save \in Writes /\ (n # 0 => CoveredBy(save, granted[s]))
  <2>1. /\ new.currency \in Nat /\ new.earned \in Nat
        /\ row.currency \in Nat /\ row.earned \in Nat
    BY <1>4, <1>5 DEF Rows
  <2> QED BY <1>2, <1>4, <1>5, <2>1, UnwrittenType DEF Writes, CoveredBy
<1>7. Become(r, x) /\ Goto(r, step) /\ UNCHANGED <<data, call>>
  BY DEF RevokeDelete, row, new
<1> HIDE DEF save, n
<1>8. /\ x \in Transactions /\ x.student = s /\ x.save = save
      /\ x.written = tx[r].written
  BY <1>1, <1>3, <1>6 DEF Transactions
<1>9. /\ step \in Steps /\ step \in {"next", "save"}
      /\ step \in {"save", "write"} => CoveredBy(x.save, granted[x.student])
  BY <1>6, <1>8 DEF Steps, n
<1> HIDE DEF x, step
<1> QED BY <1>1, <1>7, <1>8, <1>9, PlanStep

LEMMA EditStep ==
  ASSUME IInv, NEW r \in Requests, NEW s \in Students, Edit(r, s)
  PROVE  IInv'
<1> DEFINE row   == IF stats[s] = NoRow THEN NewRow(NoRank) ELSE stats[s]
           bulk  == call[r].op = "bulk"
           new   == IF bulk THEN Edited(row, call[r]) ELSE LivesChanged(row, call[r])
           gain  == IF bulk THEN EditGain(row, call[r]) ELSE 0
           save  == [cols |-> {}, row |-> new, gain |-> gain]
           grant == tx[r].grant \ {s}
           fresh == stats[s] = NoRow
           x     == [tx[r] EXCEPT !.grant = grant, !.student = s,
                                  !.fresh = fresh, !.save = save]
<1>1. /\ tx[r] \in Transactions /\ pc[r] = "next" /\ call[r] \in Calls
      /\ granted[s] \in Nat /\ call[r].op \in {"bulk", "lives"}
  BY DEF IInv, TypeOK, Working, Edit
<1>2. row \in Rows /\ row.currency <= granted[s] /\ row.earned <= granted[s]
  BY StartRowType
<1>3. Become(r, x) /\ Goto(r, "save") /\ UNCHANGED <<data, call>>
  BY DEF Edit
<1> HIDE DEF row
<1>4. row.currency \in Nat /\ row.earned \in Nat
  BY <1>2 DEF Rows
<1>5. /\ new \in Rows /\ gain \in Nat /\ new.currency <= row.currency + gain
      /\ new.earned <= row.earned + gain
  <2>1. CASE bulk
    <3>1. call[r] \in BulkCalls
      BY <1>1, <2>1, CallTypes
    <3>2. /\ Edited(row, call[r]) \in Rows /\ EditGain(row, call[r]) \in Nat
          /\ Edited(row, call[r]).currency <= row.currency + EditGain(row, call[r])
          /\ Edited(row, call[r]).earned <= row.earned + EditGain(row, call[r])
      BY <1>2, <3>1, EditedType
    <3> QED BY <2>1, <3>2
  <2>2. CASE ~bulk
    <3>1. call[r] \in LivesCalls
      BY <1>1, <2>2, CallTypes
    <3>2. /\ LivesChanged(row, call[r]) \in Rows
          /\ LivesChanged(row, call[r]).currency = row.currency
          /\ LivesChanged(row, call[r]).earned = row.earned
      BY <1>2, <3>1, LivesChangedType
    <3> QED BY <1>4, <2>2, <3>2
  <2> QED BY <2>1, <2>2
<1> HIDE DEF new, gain
<1>6. save \in Writes /\ CoveredBy(save, granted[s])
  <2>1. new.currency \in Nat /\ new.earned \in Nat
    BY <1>5 DEF Rows
  <2> QED BY <1>1, <1>2, <1>4, <1>5, <2>1 DEF Writes, CoveredBy
<1>7. grant \in SUBSET Students /\ fresh \in BOOLEAN
  BY <1>1 DEF Transactions
<1> HIDE DEF save, grant, fresh
<1>8. /\ x \in Transactions /\ x.student = s /\ x.save = save
      /\ x.written = tx[r].written
  BY <1>1, <1>6, <1>7 DEF Transactions
<1>9. "save" \in Steps
  BY DEF Steps
<1> HIDE DEF x
<1> QED BY <1>1, <1>3, <1>6, <1>8, <1>9, PlanStep

LEMMA SaveReloadStep ==
  ASSUME IInv, NEW r \in Requests, SaveReload(r)
  PROVE  IInv'
<1> DEFINE s    == tx[r].student
           cols == IF tx[r].fresh THEN Columns
                   ELSE {c \in Columns : tx[r].save.row[c] # stats[s][c]}
           save == [tx[r].save EXCEPT !.cols = cols]
           x    == [tx[r] EXCEPT !.save = save]
<1>1. /\ tx[r] \in Transactions /\ pc[r] = "save" /\ s \in Students
      /\ CoveredBy(tx[r].save, granted[s])
  BY DEF IInv, TypeOK, Working, WritesCovered, SaveReload
<1>2. Become(r, x) /\ Goto(r, "write") /\ UNCHANGED <<data, call>>
  BY DEF SaveReload
<1>3. cols \subseteq Columns
  OBVIOUS
<1> HIDE DEF cols
<1>4. tx[r].save \in Writes
  BY <1>1 DEF Transactions
<1>5. /\ save \in Writes /\ save.row = tx[r].save.row
      /\ save.gain = tx[r].save.gain
  BY <1>3, <1>4 DEF Writes
<1>6. CoveredBy(save, granted[s])
  BY <1>1, <1>5 DEF CoveredBy
<1> HIDE DEF save
<1>7. /\ x \in Transactions /\ x.student = s /\ x.save = save
      /\ x.written = tx[r].written
  BY <1>1, <1>5 DEF Transactions
<1>8. "write" \in Steps
  BY DEF Steps
<1> HIDE DEF x
<1> QED BY <1>1, <1>2, <1>6, <1>7, <1>8, PlanStep

LEMMA SaveWriteStep ==
  ASSUME IInv, NEW r \in Requests, SaveWrite(r)
  PROVE  IInv'
<1> DEFINE s       == tx[r].student
           written == [tx[r].written EXCEPT ![s] = tx[r].save]
           x       == [tx[r] EXCEPT !.written = written, !.save = Unwritten,
                                    !.student = NoRow, !.fresh = FALSE]
<1>1. /\ tx[r] \in Transactions /\ pc[r] = "write" /\ s \in Students
      /\ CoveredBy(tx[r].save, granted[s]) /\ call[r] \in Calls
      /\ \A t \in Students : CoveredBy(tx[r].written[t], granted[t])
      /\ call \in [Requests -> Calls \cup {NoCall}]
  BY DEF IInv, TypeOK, Working, WritesCovered, SaveWrite
<1>2. Become(r, x) /\ Goto(r, "next") /\ UNCHANGED <<data, call>>
  BY DEF SaveWrite
<1>3. tx[r].save \in Writes /\ tx[r].written \in [Students -> Writes]
  BY <1>1 DEF Transactions
<1>4. /\ written \in [Students -> Writes]
      /\ \A t \in Students : CoveredBy(written[t], granted[t])
  BY <1>1, <1>3
<1> HIDE DEF written
<1>5. x \in Transactions /\ x.written = written
  BY <1>1, <1>4, UnwrittenType DEF Transactions
<1>6. "next" \in Steps /\ call' = [call EXCEPT ![r] = call[r]]
  BY <1>1, <1>2 DEF Steps
<1> HIDE DEF x
<1> QED BY <1>1, <1>2, <1>4, <1>5, <1>6, LocalStep

(* A COMMIT publishes covered columns and the gain that covers them; what  *)
(* other requests have computed stays covered, as grants are never undone. *)
LEMMA CommitStep ==
  ASSUME IInv, NEW r \in Requests, Commit(r)
  PROVE  IInv'
<1> DEFINE w(s) == tx[r].written[s]
<1>1. /\ stats \in [Students -> Rows \cup {NoRow}]
      /\ held \in [Students -> [Awards -> SUBSET RowIds]]
      /\ granted \in [Students -> Nat] /\ spent \in [Students -> Nat]
      /\ tx \in [Requests -> Transactions] /\ pc \in [Requests -> Steps]
      /\ call \in [Requests -> Calls \cup {NoCall}]
      /\ reward \in [Awards -> Nat]
  BY DEF IInv, TypeOK
<1>2. /\ tx' = [tx EXCEPT ![r] = Nothing] /\ pc' = [pc EXCEPT ![r] = "idle"]
      /\ call' = [call EXCEPT ![r] = NoCall] /\ UNCHANGED <<reward, spent>>
      /\ granted' = [s \in Students |-> granted[s] + w(s).gain]
      /\ stats' = [s \in Students |-> IF w(s).cols = {} THEN stats[s]
                                      ELSE Overwritten(stats[s], w(s))]
  BY DEF Commit, End, Become, Goto
<1>3. \A s \in Students : w(s) \in Writes /\ CoveredBy(w(s), granted[s])
  BY <1>1 DEF IInv, WritesCovered, Transactions
<1>4. \A s \in Students : granted'[s] \in Nat /\ granted'[s] >= granted[s]
        /\ granted'[s] = granted[s] + w(s).gain
  BY <1>1, <1>2, <1>3 DEF Writes
<1>5. \A q \in Requests \ {r} :
        tx'[q] = tx[q] /\ pc'[q] = pc[q] /\ call'[q] = call[q]
  BY <1>1, <1>2
<1>6. \A s \in Students :
        /\ stats'[s] \in Rows \cup {NoRow}
        /\ stats'[s] # NoRow => /\ stats'[s].currency <= granted'[s]
                                /\ stats'[s].earned <= granted'[s]
  <2> TAKE s \in Students
  <2>1. stats'[s] = IF w(s).cols = {} THEN stats[s] ELSE Overwritten(stats[s], w(s))
    BY <1>2
  <2>2. CASE w(s).cols = {}
    <3>1. stats[s] # NoRow => /\ stats[s] \in Rows /\ stats[s].currency <= granted[s]
                              /\ stats[s].earned <= granted[s]
      BY <1>1 DEF IInv, BalanceCovered
    <3>2. stats[s] # NoRow => stats[s].currency \in Nat /\ stats[s].earned \in Nat
      BY <3>1 DEF Rows
    <3> QED BY <1>1, <1>4, <2>1, <2>2, <3>1, <3>2
  <2>3. CASE w(s).cols # {}
    <3>1. /\ w(s).row \in Rows /\ w(s).gain \in Nat
          /\ w(s).row.currency <= granted'[s] /\ w(s).row.earned <= granted'[s]
      BY <1>3, <1>4 DEF Writes, CoveredBy
    <3>2. w(s).row.currency \in Nat /\ w(s).row.earned \in Nat
      BY <3>1 DEF Rows
    <3>3. stats[s] # NoRow => /\ stats[s] \in Rows
                              /\ stats[s].currency <= granted[s]
                              /\ stats[s].earned <= granted[s]
      BY <1>1 DEF IInv, BalanceCovered
    <3>4. stats[s] # NoRow => stats[s].currency \in Nat /\ stats[s].earned \in Nat
      BY <3>3 DEF Rows
    <3>5. /\ Overwritten(stats[s], w(s)) \in Rows
          /\ stats[s] = NoRow => Overwritten(stats[s], w(s)) = w(s).row
          /\ stats[s] # NoRow =>
               /\ Overwritten(stats[s], w(s)).currency
                    \in {stats[s].currency, w(s).row.currency}
               /\ Overwritten(stats[s], w(s)).earned
                    \in {stats[s].earned, w(s).row.earned}
      BY <1>1, <1>3, OverwrittenType
    <3> HIDE DEF w
    <3> QED BY <1>1, <1>4, <2>1, <2>3, <3>1, <3>2, <3>3, <3>4, <3>5
  <2> QED BY <2>2, <2>3
<1>7. held' \in [Students -> [Awards -> SUBSET RowIds]]
  <2>1. \A y \in tx[r].added : y.id \in RowIds
    BY <1>1 DEF Transactions
  <2> QED BY <1>1, <2>1 DEF Commit
<1>8. stats' \in [Students -> Rows \cup {NoRow}] /\ granted' \in [Students -> Nat]
  BY <1>2, <1>4, <1>6
<1>9. TypeOK'
  BY <1>1, <1>2, <1>7, <1>8, NothingType DEF TypeOK, Steps
<1>10. Working'
  BY <1>1, <1>2, <1>5 DEF Working, IInv
<1>11. BalanceCovered'
  BY <1>6 DEF BalanceCovered
<1>12. WritesCovered'
  <2>1. ASSUME NEW v \in Writes, NEW s \in Students, CoveredBy(v, granted[s])
        PROVE  CoveredBy(v, granted'[s])
    BY <1>1, <1>4, <2>1 DEF CoveredBy, Writes, Rows
  <2>2. ASSUME NEW q \in Requests \ {r}
        PROVE  /\ pc'[q] \in {"save", "write"} =>
                    CoveredBy(tx'[q].save, granted'[tx'[q].student])
               /\ \A s \in Students : CoveredBy(tx'[q].written[s], granted'[s])
    <3>1. tx[q].save \in Writes /\ tx[q].written \in [Students -> Writes]
      BY <1>1 DEF Transactions
    <3>2. pc[q] \in {"save", "write"} => /\ tx[q].student \in Students
                                        /\ CoveredBy(tx[q].save, granted[tx[q].student])
      BY DEF IInv, Working, WritesCovered
    <3>3. \A s \in Students : CoveredBy(tx[q].written[s], granted[s])
      BY DEF IInv, WritesCovered
    <3> QED BY <1>5, <2>1, <3>1, <3>2, <3>3
  <2>3. /\ pc'[r] \notin {"save", "write"}
        /\ \A s \in Students : CoveredBy(tx'[r].written[s], granted'[s])
    BY <1>1, <1>2, <1>4, NothingType
  <2> QED BY <2>2, <2>3 DEF WritesCovered
<1> QED BY <1>9, <1>10, <1>11, <1>12 DEF IInv

LEMMA BuyStep ==
  ASSUME IInv, NEW r \in Requests, NEW c \in Calls, Buy(r, c)
  PROVE  IInv'
<1> DEFINE s   == c.student
           old == stats[s]
           new == Bought(old, c)
<1>1. /\ s \in Students /\ c.price \in Nat
      /\ stats' = [stats EXCEPT ![s] = new]
      /\ spent' = [spent EXCEPT ![s] = @ + c.price]
      /\ UNCHANGED <<held, reward, granted, pc, call, tx>>
      /\ old # NoRow /\ c.price <= old.currency
  BY CallTypes DEF Buy, BuyCalls
<1>2. /\ stats \in [Students -> Rows \cup {NoRow}] /\ spent \in [Students -> Nat]
      /\ granted \in [Students -> Nat]
  BY DEF IInv, TypeOK
<1>3. old \in Rows
  BY <1>1, <1>2
<1>4. /\ new \in Rows /\ new.currency <= old.currency
      /\ new.earned = old.earned
  <2>1. /\ old.currency - c.price \in Nat /\ old.currency - c.price <= old.currency
        /\ (IF c.life THEN old.lives + 1 ELSE old.lives) \in Nat
    BY <1>1, <1>3 DEF Rows
  <2> DEFINE currency == old.currency - c.price
             lives    == IF c.life THEN old.lives + 1 ELSE old.lives
  <2>2. new = [old EXCEPT !.currency = currency, !.lives = lives]
    BY DEF Bought
  <2> HIDE DEF new, currency, lives
  <2>3. currency \in Nat /\ lives \in Nat /\ currency <= old.currency
    BY <2>1 DEF currency, lives
  <2>4. new \in Rows /\ new.currency = currency /\ new.earned = old.earned
    BY <1>3, <2>2, <2>3 DEF Rows
  <2> QED BY <2>3, <2>4
<1> HIDE DEF new
<1>5. spent' \in [Students -> Nat]
  BY <1>1, <1>2
<1>6. stats' \in [Students -> Rows \cup {NoRow}]
  BY <1>1, <1>2, <1>4
<1>7. TypeOK'
  BY <1>1, <1>5, <1>6 DEF IInv, TypeOK
<1>8. Working' /\ WritesCovered'
  BY <1>1 DEF IInv, Working, WritesCovered
<1>9. BalanceCovered'
  <2>1. old.currency <= granted[s] /\ old.earned <= granted[s]
    BY <1>1 DEF IInv, BalanceCovered
  <2>2. /\ old.currency \in Nat /\ old.earned \in Nat /\ new.currency \in Nat
        /\ granted[s] \in Nat
    BY <1>1, <1>2, <1>3, <1>4 DEF Rows
  <2>3. new.currency <= granted[s] /\ new.earned <= granted[s]
    BY <1>4, <2>1, <2>2
  <2> QED BY <1>1, <1>2, <2>3 DEF IInv, BalanceCovered
<1> QED BY <1>7, <1>8, <1>9 DEF IInv

LEMMA SetRewardStep ==
  ASSUME IInv, NEW a \in Awards, NEW n \in Rewards, SetReward(a, n)
  PROVE  IInv'
<1>1. reward' \in [Awards -> Nat] /\ UNCHANGED <<stats, held, granted, spent, pc, call, tx>>
  BY StudentStatsAssumption DEF IInv, TypeOK, SetReward
<1> QED BY <1>1 DEF IInv, TypeOK, Working, BalanceCovered, WritesCovered

-----------------------------------------------------------------------------
LEMMA InitInv == Init => IInv
<1> SUFFICES ASSUME Init PROVE IInv
  OBVIOUS
<1>1. NewRow(RankFor(0)) \in Rows
  BY RankForType, NewRowType
<1>2. \A s \in Students : stats[s] # NoRow => stats[s].currency = 0 /\ stats[s].earned = 0
  BY DEF Init, NewRow
<1>3. TypeOK
  <2>1. stats \in [Students -> Rows \cup {NoRow}]
    BY <1>1 DEF Init
  <2>2. reward \in [Awards -> Nat]
    BY StudentStatsAssumption DEF Init
  <2> QED BY <2>1, <2>2, NothingType DEF Init, TypeOK, Steps
<1>4. Working
  BY DEF Init, Working
<1>5. BalanceCovered
  BY <1>2 DEF Init, BalanceCovered
<1>6. WritesCovered
  BY NothingType DEF Init, WritesCovered
<1> QED BY <1>3, <1>4, <1>5, <1>6 DEF IInv

LEMMA NextInv == IInv /\ [Next]_vars => IInv'
<1> SUFFICES ASSUME IInv, [Next]_vars PROVE IInv'
  OBVIOUS
<1>1. ASSUME NEW r \in Requests, Start(r) PROVE IInv'
  <2>1. PICK c \in Calls : AwardStart(r, c) \/ EditStart(r, c) \/ Buy(r, c)
    BY <1>1 DEF Start
  <2> QED BY <2>1, AwardStartStep, EditStartStep, BuyStep
<1>2. ASSUME NEW r \in Requests, Step(r) PROVE IInv'
  <2>1. CASE ActivityCheck(r) \/ BadgeCheck(r)
    BY <2>1, ActivityCheckStep, BadgeCheckStep
  <2>2. CASE \E s \in Students : Grant(r, s) \/ RevokeFind(r, s) \/ Edit(r, s)
    BY <2>2, GrantStep, RevokeFindStep, EditStep
  <2>3. CASE RevokeDelete(r)
    BY <2>3, RevokeDeleteStep
  <2>4. CASE SaveReload(r) \/ SaveWrite(r)
    BY <2>4, SaveReloadStep, SaveWriteStep
  <2>5. CASE SaveDuplicate(r)
    BY <2>5, EndStep DEF SaveDuplicate
  <2>6. CASE Commit(r)
    BY <2>6, CommitStep
  <2>7. CASE DeadlockVictim(r)
    BY <2>7, EndStep DEF DeadlockVictim
  <2> QED BY <1>2, <2>1, <2>2, <2>3, <2>4, <2>5, <2>6, <2>7 DEF Step
<1>3. ASSUME NEW r \in Requests, Fail(r) PROVE IInv'
  BY <1>3, EndStep DEF Fail
<1>4. ASSUME NEW a \in Awards, NEW n \in Rewards, SetReward(a, n) PROVE IInv'
  BY <1>4, SetRewardStep
<1>5. CASE UNCHANGED vars
  BY <1>5 DEF vars, data, IInv, TypeOK, Working, BalanceCovered, WritesCovered
<1> QED BY <1>1, <1>2, <1>3, <1>4, <1>5 DEF Next

LEMMA SpecInv == Spec => []IInv
BY InitInv, NextInv, PTL DEF Spec

(* Rows keep their types for any number of students, awards and requests:  *)
(* the code's Math.max(0, ...) is enough to keep every balance, total and  *)
(* number of lives from becoming negative.                                 *)
THEOREM StatsTyped == Spec => []TypeOK
<1>1. IInv => TypeOK
  BY DEF IInv
<1> QED BY <1>1, SpecInv, PTL

(* A student never has more points than the backlog says were granted,     *)
(* however many calls overlap, fail, or overwrite each other's columns.    *)
THEOREM StatsNotInvented == Spec => []BalanceCovered
<1>1. IInv => BalanceCovered
  BY DEF IInv
<1> QED BY <1>1, SpecInv, PTL

(***************************************************************************)
(* One call at a time.  When no two requests overlap, nothing is computed  *)
(* from a row that has changed since: what was paid stays paid, and the    *)
(* rank follows the points.                                                *)
(***************************************************************************)
(* There is one request at most.                                           *)
Serial == \A q, r \in Requests : q = r

(* An automatic rank is the one the points attain; a row a change of lives *)
(* has inserted has none, nor points.                                      *)
RankSound(row) ==
  row.auto => \/ row.rank = RankFor(row.earned)
              \/ row.rank = NoRank /\ row.earned = 0

(* A computed row leaves what the student has paid out of the balance.     *)
Affordable(w, s) == w.row.currency + spent[s] <= granted[s] + w.gain

(* The columns an update leaves alone are as they were computed.           *)
Merges(w, s) ==
  stats[s] # NoRow => \A c \in Columns \ w.cols : w.row[c] = stats[s][c]

(* What a request has computed or written is affordable, has its rank and  *)
(* leaves the other columns as they are in the row.                        *)
TxSound(r) ==
  /\ pc[r] = "idle" => tx[r] = Nothing
  /\ pc[r] \in {"save", "write"} =>
       Affordable(tx[r].save, tx[r].student) /\ RankSound(tx[r].save.row)
  /\ pc[r] = "write" => Merges(tx[r].save, tx[r].student)
  /\ \A s \in Students : LET w == tx[r].written[s] IN
       Affordable(w, s) /\ RankSound(w.row) /\ (w.cols # {} => Merges(w, s))

(* The inductive invariant of calls that do not overlap.                   *)
SerialInv ==
  /\ \A s \in Students : spent[s] <= granted[s]
  /\ SpentIsGone /\ RankFollowsEarned
  /\ \A r \in Requests : TxSound(r)

-----------------------------------------------------------------------------
(* What each operation computes keeps the rank with the points.            *)

LEMMA NewRowSound ==
  ASSUME NEW k, k = NoRank \/ k = RankFor(0)
  PROVE  RankSound(NewRow(k))
BY DEF RankSound, NewRow

LEMMA RewardedSound ==
  ASSUME NEW row \in Rows, NEW n \in Nat
  PROVE  /\ RankSound(Rewarded(row, n))
         /\ RankSound(ActivityRevoked(row, n)) /\ RankSound(BadgeRevoked(row, n))
BY DEF Rewarded, ActivityRevoked, BadgeRevoked, RankSound, Rows

LEMMA EditedSound ==
  ASSUME NEW row \in Rows, RankSound(row), NEW c \in BulkCalls
  PROVE  RankSound(Edited(row, c))
<1> DEFINE currency == IF c.currency = Keep THEN row.currency ELSE c.currency
           gain     == AtLeast0(currency - row.currency)
           earned   == IF c.total = Keep THEN row.earned + gain ELSE c.total
           manual   == c.rank # Keep /\ c.auto # TRUE
           auto     == IF manual THEN FALSE ELSE IF c.auto = Keep THEN row.auto
                                                                  ELSE c.auto
           rank     == IF manual THEN c.rank ELSE IF auto THEN RankFor(earned)
                                                          ELSE row.rank
           new      == [row EXCEPT !.currency = currency, !.earned = earned,
                                   !.auto = auto, !.rank = rank]
<1>1. Edited(row, c) = new
  BY DEF Edited
<1>2. auto => rank = RankFor(earned)
  OBVIOUS
<1> HIDE DEF currency, gain, earned, manual, auto, rank
<1>3. new.auto = auto /\ new.rank = rank /\ new.earned = earned
  BY DEF Rows
<1> QED BY <1>1, <1>2, <1>3 DEF RankSound

LEMMA LivesSound ==
  ASSUME NEW row \in Rows, RankSound(row), NEW c \in LivesCalls
  PROVE  RankSound(LivesChanged(row, c))
BY DEF LivesChanged, RankSound, Rows

LEMMA StartRowSound ==
  ASSUME IInv, SerialInv, NEW s \in Students, NEW k, k = NoRank \/ k = RankFor(0)
  PROVE  LET row == IF stats[s] = NoRow THEN NewRow(k) ELSE stats[s]
         IN row.currency + spent[s] <= granted[s] /\ RankSound(row)
<1>1. granted[s] \in Nat /\ spent[s] \in Nat /\ stats[s] \in Rows \cup {NoRow}
  BY DEF IInv, TypeOK
<1>2. CASE stats[s] = NoRow
  <2>1. NewRow(k).currency = 0 /\ RankSound(NewRow(k)) /\ spent[s] <= granted[s]
    BY NewRowSound DEF NewRow, SerialInv
  <2> QED BY <1>1, <1>2, <2>1
<1>3. CASE stats[s] # NoRow
  BY <1>1, <1>3 DEF SerialInv, SpentIsGone, RankFollowsEarned, RankSound
<1> QED BY <1>2, <1>3

LEMMA NothingSound ==
  ASSUME IInv, NEW s \in Students, spent[s] <= granted[s]
  PROVE  /\ Affordable(Nothing.written[s], s) /\ RankSound(Nothing.written[s].row)
         /\ Nothing.written[s].cols = {}
<1>1. granted[s] \in Nat /\ spent[s] \in Nat
  BY DEF IInv, TypeOK
<1>2. Nothing.written[s] = Unwritten
  BY DEF Nothing
<1>3. Unwritten.cols = {} /\ Unwritten.row = NewRow(NoRank) /\ Unwritten.gain = 0
  BY DEF Unwritten
<1>4. NewRow(NoRank).currency = 0 /\ RankSound(NewRow(NoRank))
  BY NewRowSound DEF NewRow
<1> QED BY <1>1, <1>2, <1>3, <1>4 DEF Affordable

-----------------------------------------------------------------------------
(* Steps that change no committed row.                                     *)

LEMMA SerialLocalStep ==
  ASSUME IInv, SerialInv, UNCHANGED data, NEW r \in Requests, NEW x, NEW step,
         Become(r, x), Goto(r, step),
         step = "idle" => x = Nothing,
         step \in {"save", "write"} => Affordable(x.save, x.student) /\ RankSound(x.save.row),
         step = "write" => Merges(x.save, x.student),
         \A s \in Students : LET w == x.written[s] IN
           Affordable(w, s) /\ RankSound(w.row) /\ (w.cols # {} => Merges(w, s))
  PROVE  SerialInv'
<1>1. /\ UNCHANGED <<stats, granted, spent>>
      /\ tx' = [tx EXCEPT ![r] = x] /\ pc' = [pc EXCEPT ![r] = step]
      /\ tx \in [Requests -> Transactions] /\ pc \in [Requests -> Steps]
  BY DEF data, Become, Goto, IInv, TypeOK
<1>2. (\A s \in Students : spent[s] <= granted[s])' /\ SpentIsGone' /\ RankFollowsEarned'
  BY <1>1 DEF SerialInv, SpentIsGone, RankFollowsEarned
<1>3. TxSound(r)'
  <2>1. tx'[r] = x /\ pc'[r] = step
    BY <1>1
  <2> QED BY <1>1, <2>1 DEF TxSound, Affordable, RankSound, Merges
<1>4. ASSUME NEW q \in Requests, q # r PROVE TxSound(q)'
  <2>1. tx'[q] = tx[q] /\ pc'[q] = pc[q]
    BY <1>1, <1>4
  <2>2. TxSound(q)
    BY DEF SerialInv
  <2> QED BY <1>1, <2>1, <2>2 DEF TxSound, Affordable, RankSound, Merges
<1> QED BY <1>2, <1>3, <1>4 DEF SerialInv

LEMMA SerialPlanStep ==
  ASSUME IInv, SerialInv, UNCHANGED data, NEW r \in Requests, NEW x, NEW step,
         Become(r, x), Goto(r, step), step # "idle",
         step \in {"save", "write"} => Affordable(x.save, x.student) /\ RankSound(x.save.row),
         step = "write" => Merges(x.save, x.student),
         x.written = tx[r].written
  PROVE  SerialInv'
<1>1. TxSound(r)
  BY DEF SerialInv
<1>2. \A s \in Students : LET w == x.written[s] IN
        Affordable(w, s) /\ RankSound(w.row) /\ (w.cols # {} => Merges(w, s))
  BY <1>1 DEF TxSound
<1> QED BY <1>2, SerialLocalStep

LEMMA SerialEndStep ==
  ASSUME IInv, SerialInv, UNCHANGED data, NEW r \in Requests, End(r)
  PROVE  SerialInv'
<1>1. \A s \in Students : LET w == Nothing.written[s] IN
        Affordable(w, s) /\ RankSound(w.row) /\ (w.cols # {} => Merges(w, s))
  BY NothingSound DEF SerialInv
<1>2. Become(r, Nothing) /\ Goto(r, "idle")
  BY DEF End
<1> QED BY <1>1, <1>2, SerialLocalStep

(* Calls that start, check, look for a row to remove, or compute nothing.  *)
LEMMA SerialPlanSteps ==
  ASSUME IInv, SerialInv, NEW r \in Requests,
         \/ \E c \in Calls : AwardStart(r, c) \/ EditStart(r, c)
         \/ ActivityCheck(r) \/ BadgeCheck(r)
         \/ \E s \in Students : RevokeFind(r, s)
  PROVE  SerialInv'
<1>1. tx[r] \in Transactions
  BY DEF IInv, TypeOK
<1>2. \E x, step : /\ Become(r, x) /\ Goto(r, step) /\ x.written = tx[r].written
                   /\ step \in {"check", "next", "delete"}
  <2>1. CASE \E c \in Calls : AwardStart(r, c) \/ EditStart(r, c)
    BY <1>1, <2>1 DEF AwardStart, EditStart, Transactions
  <2>2. CASE ActivityCheck(r)
    BY <1>1, <2>2 DEF ActivityCheck, Transactions
  <2>3. CASE BadgeCheck(r)
    <3>1. CASE /\ Become(r, [tx[r] EXCEPT !.grant = ToGrant(call[r])])
               /\ Goto(r, "next")
      BY <1>1, <3>1 DEF Transactions
    <3>2. CASE \E s \in ToRevoke(call[r]) : \E id \in held[s][call[r].award] :
                 /\ Become(r, [tx[r] EXCEPT !.student = s, !.target = id])
                 /\ Goto(r, "delete")
      <4>1. PICK s \in ToRevoke(call[r]) : \E id \in held[s][call[r].award] :
                 /\ Become(r, [tx[r] EXCEPT !.student = s, !.target = id])
                 /\ Goto(r, "delete")
        BY <3>2
      <4>2. PICK id \in held[s][call[r].award] :
                 /\ Become(r, [tx[r] EXCEPT !.student = s, !.target = id])
                 /\ Goto(r, "delete")
        BY <4>1
      <4> QED BY <1>1, <4>2 DEF Transactions
    <3> QED BY <2>3, <3>1, <3>2 DEF BadgeCheck
  <2>4. CASE \E s \in Students : RevokeFind(r, s)
    <3>1. PICK s \in Students : RevokeFind(r, s)
      BY <2>4
    <3>2. CASE Become(r, [tx[r] EXCEPT !.revoke = @ \ {s}]) /\ Goto(r, "next")
      BY <1>1, <3>2 DEF Transactions
    <3>3. CASE \E id \in held[s][call[r].award] :
                 /\ Become(r, [tx[r] EXCEPT !.revoke = @ \ {s}, !.student = s, !.target = id])
                 /\ Goto(r, "delete")
      <4>1. PICK id \in held[s][call[r].award] :
                 /\ Become(r, [tx[r] EXCEPT !.revoke = @ \ {s}, !.student = s, !.target = id])
                 /\ Goto(r, "delete")
        BY <3>3
      <4> QED BY <1>1, <4>1 DEF Transactions
    <3> QED BY <3>1, <3>2, <3>3 DEF RevokeFind
  <2> QED BY <2>1, <2>2, <2>3, <2>4
<1>3. PICK x, step : /\ Become(r, x) /\ Goto(r, step) /\ x.written = tx[r].written
                     /\ step \in {"check", "next", "delete"}
  BY <1>2
<1>4. UNCHANGED data
  BY DEF AwardStart, EditStart, ActivityCheck, BadgeCheck, RevokeFind
<1> QED BY <1>3, <1>4, SerialPlanStep

LEMMA SerialGrantStep ==
  ASSUME IInv, SerialInv, NEW r \in Requests, NEW s \in Students, Grant(r, s)
  PROVE  SerialInv'
<1> DEFINE id   == CHOOSE x \in FreeIds : TRUE
           n    == tx[r].reward
           row  == IF stats[s] = NoRow THEN NewRow(RankFor(0)) ELSE stats[s]
           save == IF n = 0 THEN Unwritten
                   ELSE [cols |-> {}, row |-> Rewarded(row, n), gain |-> n]
           added == tx[r].added \cup {[student |-> s, id |-> id]}
           grant == tx[r].grant \ {s}
           fresh == stats[s] = NoRow
           x    == [tx[r] EXCEPT
                      !.grant = grant, !.student = s, !.added = added,
                      !.fresh = fresh, !.save = save]
           step == IF tx[r].reward = 0 THEN "next" ELSE "save"
<1>1. tx[r] \in Transactions /\ granted[s] \in Nat /\ spent[s] \in Nat
  BY DEF IInv, TypeOK
<1>2. n \in Nat
  BY <1>1 DEF Transactions
<1>3. row \in Rows /\ row.currency + spent[s] <= granted[s]
  BY RankForType, StartRowType, StartRowSound
<1>4. Become(r, x) /\ Goto(r, step) /\ UNCHANGED data
  BY DEF Grant
<1> HIDE DEF row, id
<1>5. n # 0 => Affordable(save, s) /\ RankSound(save.row)
  <2>1. Rewarded(row, n).currency = row.currency + n /\ RankSound(Rewarded(row, n))
    BY <1>2, <1>3, RewardedType, RewardedSound
  <2>2. row.currency \in Nat
    BY <1>3 DEF Rows
  <2> QED BY <1>1, <1>2, <1>3, <2>1, <2>2 DEF Affordable
<1> HIDE DEF save, added, grant, fresh
<1>6. x.student = s /\ x.save = save /\ x.written = tx[r].written
  BY <1>1 DEF Transactions
<1>7. step \in {"next", "save"} /\ (step = "save" => n # 0)
  OBVIOUS
<1> HIDE DEF x, step
<1> QED BY <1>4, <1>5, <1>6, <1>7, SerialPlanStep

LEMMA SerialRevokeDeleteStep ==
  ASSUME IInv, SerialInv, NEW r \in Requests, RevokeDelete(r)
  PROVE  SerialInv'
<1> DEFINE s    == tx[r].student
           n    == tx[r].reward
           row  == IF stats[s] = NoRow THEN NewRow(RankFor(0)) ELSE stats[s]
           new  == IF call[r].award \in Badges THEN BadgeRevoked(row, n)
                                               ELSE ActivityRevoked(row, n)
           save == IF n = 0 THEN Unwritten
                   ELSE [cols |-> {}, gain |-> 0, row |-> new]
           x    == [tx[r] EXCEPT
                      !.removed = @ \cup {tx[r].target}, !.target = NoRow,
                      !.fresh = (stats[s] = NoRow), !.save = save]
           step == IF tx[r].reward = 0 THEN "next" ELSE "save"
<1>1. tx[r] \in Transactions /\ pc[r] = "delete" /\ s \in Students
  BY DEF IInv, TypeOK, Working, RevokeDelete
<1>2. n \in Nat /\ granted[s] \in Nat /\ spent[s] \in Nat
  BY <1>1 DEF IInv, TypeOK, Transactions
<1>3. row \in Rows /\ row.currency + spent[s] <= granted[s]
  BY <1>1, RankForType, StartRowType, StartRowSound
<1>4. Become(r, x) /\ Goto(r, step) /\ UNCHANGED data
  BY DEF RevokeDelete
<1> HIDE DEF row
<1>5. new \in Rows /\ new.currency <= row.currency /\ RankSound(new)
  BY <1>2, <1>3, BadgeRevokedType, ActivityRevokedType, RewardedSound
<1> HIDE DEF new
<1>6. n # 0 => Affordable(save, s) /\ RankSound(save.row)
  <2>1. new.currency \in Nat /\ row.currency \in Nat
    BY <1>3, <1>5 DEF Rows
  <2> QED BY <1>2, <1>3, <1>5, <2>1 DEF Affordable
<1> HIDE DEF save
<1>7. x.student = s /\ x.save = save /\ x.written = tx[r].written
  BY <1>1 DEF Transactions
<1>8. step \in {"next", "save"} /\ (step = "save" => n # 0)
  OBVIOUS
<1> HIDE DEF x, step
<1> QED BY <1>4, <1>6, <1>7, <1>8, SerialPlanStep

LEMMA SerialEditStep ==
  ASSUME IInv, SerialInv, NEW r \in Requests, NEW s \in Students, Edit(r, s)
  PROVE  SerialInv'
<1> DEFINE row   == IF stats[s] = NoRow THEN NewRow(NoRank) ELSE stats[s]
           bulk  == call[r].op = "bulk"
           new   == IF bulk THEN Edited(row, call[r]) ELSE LivesChanged(row, call[r])
           gain  == IF bulk THEN EditGain(row, call[r]) ELSE 0
           save  == [cols |-> {}, row |-> new, gain |-> gain]
           grant == tx[r].grant \ {s}
           fresh == stats[s] = NoRow
           x     == [tx[r] EXCEPT !.grant = grant, !.student = s,
                                  !.fresh = fresh, !.save = save]
<1>1. /\ tx[r] \in Transactions /\ pc[r] = "next" /\ call[r] \in Calls
      /\ granted[s] \in Nat /\ spent[s] \in Nat /\ call[r].op \in {"bulk", "lives"}
  BY DEF IInv, TypeOK, Working, Edit
<1>2. row \in Rows /\ row.currency + spent[s] <= granted[s] /\ RankSound(row)
  BY StartRowType, StartRowSound
<1>3. Become(r, x) /\ Goto(r, "save") /\ UNCHANGED data
  BY DEF Edit
<1> HIDE DEF row
<1>4. /\ new \in Rows /\ gain \in Nat /\ new.currency <= row.currency + gain
      /\ RankSound(new)
  <2>1. CASE bulk
    <3>1. call[r] \in BulkCalls
      BY <1>1, <2>1, CallTypes
    <3>2. /\ Edited(row, call[r]) \in Rows /\ EditGain(row, call[r]) \in Nat
          /\ Edited(row, call[r]).currency <= row.currency + EditGain(row, call[r])
          /\ RankSound(Edited(row, call[r]))
      BY <1>2, <3>1, EditedType, EditedSound
    <3> QED BY <2>1, <3>2
  <2>2. CASE ~bulk
    <3>1. call[r] \in LivesCalls
      BY <1>1, <2>2, CallTypes
    <3>2. /\ LivesChanged(row, call[r]) \in Rows /\ row.currency \in Nat
          /\ LivesChanged(row, call[r]).currency = row.currency
          /\ RankSound(LivesChanged(row, call[r]))
      BY <1>2, <3>1, LivesChangedType, LivesSound DEF Rows
    <3> QED BY <2>2, <3>2
  <2> QED BY <2>1, <2>2
<1> HIDE DEF new, gain
<1>5. Affordable(save, s) /\ RankSound(save.row)
  <2>1. new.currency \in Nat /\ row.currency \in Nat
    BY <1>2, <1>4 DEF Rows
  <2> QED BY <1>1, <1>2, <1>4, <2>1 DEF Affordable
<1> HIDE DEF save, grant, fresh
<1>6. x.student = s /\ x.save = save /\ x.written = tx[r].written
  BY <1>1 DEF Transactions
<1> HIDE DEF x
<1> QED BY <1>3, <1>5, <1>6, SerialPlanStep

(* The columns that do not differ from the row are the row's.              *)
LEMMA SerialSaveReloadStep ==
  ASSUME IInv, SerialInv, NEW r \in Requests, SaveReload(r)
  PROVE  SerialInv'
<1> DEFINE s    == tx[r].student
           cols == IF tx[r].fresh THEN Columns
                   ELSE {c \in Columns : tx[r].save.row[c] # stats[s][c]}
           save == [tx[r].save EXCEPT !.cols = cols]
           x    == [tx[r] EXCEPT !.save = save]
<1>1. tx[r] \in Transactions /\ pc[r] = "save"
  BY DEF IInv, TypeOK, SaveReload
<1>2. Become(r, x) /\ Goto(r, "write") /\ UNCHANGED data
  BY DEF SaveReload
<1>3. \A c \in Columns \ cols : tx[r].save.row[c] = stats[s][c]
  OBVIOUS
<1>4. Affordable(tx[r].save, s) /\ RankSound(tx[r].save.row)
  BY <1>1 DEF SerialInv, TxSound
<1> HIDE DEF cols
<1>5. /\ save.row = tx[r].save.row /\ save.gain = tx[r].save.gain /\ save.cols = cols
      /\ x.student = s /\ x.save = save /\ x.written = tx[r].written
  BY <1>1 DEF Transactions, Writes
<1> HIDE DEF save, x
<1>6. Affordable(x.save, x.student) /\ RankSound(x.save.row) /\ Merges(x.save, x.student)
  BY <1>3, <1>4, <1>5 DEF Affordable, Merges
<1> QED BY <1>2, <1>5, <1>6, SerialPlanStep

LEMMA SerialSaveWriteStep ==
  ASSUME IInv, SerialInv, NEW r \in Requests, SaveWrite(r)
  PROVE  SerialInv'
<1> DEFINE s       == tx[r].student
           written == [tx[r].written EXCEPT ![s] = tx[r].save]
           x       == [tx[r] EXCEPT !.written = written, !.save = Unwritten,
                                    !.student = NoRow, !.fresh = FALSE]
<1>1. tx[r] \in Transactions /\ pc[r] = "write" /\ TxSound(r)
  BY DEF IInv, TypeOK, SerialInv, SaveWrite
<1>2. Become(r, x) /\ Goto(r, "next") /\ UNCHANGED data
  BY DEF SaveWrite
<1>3. \A t \in Students : LET w == written[t] IN
        Affordable(w, t) /\ RankSound(w.row) /\ (w.cols # {} => Merges(w, t))
  <2>1. tx[r].written \in [Students -> Writes]
    BY <1>1 DEF Transactions
  <2> QED BY <1>1, <2>1 DEF TxSound
<1> HIDE DEF written
<1>4. x.written = written
  BY <1>1 DEF Transactions
<1> HIDE DEF x
<1> QED BY <1>2, <1>3, <1>4, SerialLocalStep

(* What a request has computed is the row after its COMMIT.                *)
LEMMA OverwrittenWhole ==
  ASSUME NEW s \in Students, stats[s] \in Rows \cup {NoRow},
         NEW w \in Writes, Merges(w, s)
  PROVE  LET new == Overwritten(stats[s], w) IN
           /\ new.currency = w.row.currency /\ new.earned = w.row.earned
           /\ new.rank = w.row.rank /\ new.auto = w.row.auto
<1>1. CASE stats[s] = NoRow
  BY <1>1 DEF Overwritten
<1>2. CASE stats[s] # NoRow
  <2>1. {"currency", "earned", "rank", "auto"} \subseteq Columns
    BY DEF Columns
  <2>2. \A c \in Columns : (IF c \in w.cols THEN w.row[c] ELSE stats[s][c]) = w.row[c]
    BY <1>2 DEF Merges
  <2> QED BY <1>2, <2>1, <2>2 DEF Overwritten
<1> QED BY <1>1, <1>2

LEMMA SerialCommitStep ==
  ASSUME Serial, IInv, IInv', SerialInv, NEW r \in Requests, Commit(r)
  PROVE  SerialInv'
<1> DEFINE w(s) == tx[r].written[s]
<1>1. /\ stats \in [Students -> Rows \cup {NoRow}]
      /\ granted \in [Students -> Nat] /\ spent \in [Students -> Nat]
      /\ tx \in [Requests -> Transactions] /\ pc \in [Requests -> Steps]
  BY DEF IInv, TypeOK
<1>2. /\ tx'[r] = Nothing /\ pc'[r] = "idle" /\ spent' = spent
      /\ granted' = [s \in Students |-> granted[s] + w(s).gain]
      /\ stats' = [s \in Students |-> IF w(s).cols = {} THEN stats[s]
                                      ELSE Overwritten(stats[s], w(s))]
  BY <1>1 DEF Commit, End, Become, Goto
<1>3. ASSUME NEW s \in Students
      PROVE  /\ w(s) \in Writes /\ Affordable(w(s), s) /\ RankSound(w(s).row)
             /\ w(s).cols # {} => Merges(w(s), s)
  BY <1>1 DEF SerialInv, TxSound, Transactions
<1>4. ASSUME NEW s \in Students
      PROVE  /\ spent'[s] <= granted'[s]
             /\ stats'[s] # NoRow => /\ stats'[s].currency + spent'[s] <= granted'[s]
                                     /\ RankSound(stats'[s])
  <2>1. /\ granted'[s] = granted[s] + w(s).gain /\ w(s).gain \in Nat /\ w(s).row \in Rows
        /\ granted[s] \in Nat /\ spent[s] \in Nat /\ spent'[s] = spent[s]
        /\ stats'[s] = IF w(s).cols = {} THEN stats[s] ELSE Overwritten(stats[s], w(s))
    BY <1>1, <1>2, <1>3 DEF Writes
  <2>2. /\ spent[s] <= granted[s]
        /\ stats[s] # NoRow => /\ stats[s].currency + spent[s] <= granted[s]
                               /\ RankSound(stats[s])
    BY DEF SerialInv, SpentIsGone, RankFollowsEarned, RankSound
  <2>3. CASE w(s).cols = {}
    <3>1. stats[s] # NoRow => stats[s].currency \in Nat
      BY <1>1 DEF Rows
    <3> HIDE DEF w
    <3> QED BY <2>1, <2>2, <2>3, <3>1
  <2>4. CASE w(s).cols # {}
    <3>1. stats[s] \in Rows \cup {NoRow}
      BY <1>1
    <3>2. LET new == Overwritten(stats[s], w(s)) IN
            /\ new.currency = w(s).row.currency /\ new.earned = w(s).row.earned
            /\ new.rank = w(s).row.rank /\ new.auto = w(s).row.auto
      BY <1>3, <2>4, <3>1, OverwrittenWhole
    <3>3. w(s).row.currency \in Nat
      BY <2>1 DEF Rows
    <3>4. w(s).row.currency + spent[s] <= granted[s] + w(s).gain /\ RankSound(w(s).row)
      BY <1>3 DEF Affordable
    <3> HIDE DEF w
    <3> QED BY <2>1, <2>2, <2>4, <3>2, <3>3, <3>4 DEF RankSound
  <2> QED BY <2>3, <2>4
<1>5. (\A s \in Students : spent[s] <= granted[s])' /\ SpentIsGone' /\ RankFollowsEarned'
  BY <1>4 DEF SpentIsGone, RankFollowsEarned, RankSound
<1>6. TxSound(r)'
  <2>1. \A s \in Students : spent'[s] <= granted'[s]
    BY <1>4
  <2>2. ASSUME NEW s \in Students
        PROVE  /\ Affordable(Nothing.written[s], s)' /\ RankSound(Nothing.written[s].row)'
               /\ Nothing.written[s].cols = {}
    <3>1. granted'[s] \in Nat /\ spent'[s] \in Nat
      BY DEF IInv, TypeOK
    <3>2. /\ Nothing.written[s].cols = {} /\ Nothing.written[s].gain = 0
          /\ Nothing.written[s].row = NewRow(NoRank)
      BY DEF Nothing, Unwritten
    <3>3. NewRow(NoRank).currency = 0 /\ RankSound(NewRow(NoRank))
      BY NewRowSound DEF NewRow
    <3> QED BY <2>1, <3>1, <3>2, <3>3 DEF Affordable, RankSound
  <2> QED BY <1>2, <2>2 DEF TxSound, Affordable, RankSound
<1> QED BY <1>5, <1>6 DEF SerialInv, Serial

LEMMA SerialBuyStep ==
  ASSUME Serial, IInv, SerialInv, NEW r \in Requests, NEW c \in Calls, Buy(r, c)
  PROVE  SerialInv'
<1> DEFINE s   == c.student
           old == stats[s]
           new == Bought(old, c)
<1>1. /\ s \in Students /\ c.price \in Nat /\ pc[r] = "idle"
      /\ stats' = [stats EXCEPT ![s] = new]
      /\ spent' = [spent EXCEPT ![s] = @ + c.price]
      /\ UNCHANGED <<granted, pc, tx>>
      /\ old # NoRow /\ c.price <= old.currency
  BY CallTypes DEF Buy, BuyCalls
<1>2. /\ stats \in [Students -> Rows \cup {NoRow}] /\ spent \in [Students -> Nat]
      /\ granted \in [Students -> Nat] /\ old \in Rows
  BY <1>1 DEF IInv, TypeOK
<1>3. /\ new.currency = old.currency - c.price /\ new.rank = old.rank
      /\ new.earned = old.earned /\ new.auto = old.auto
  BY <1>2 DEF Bought, Rows
<1> HIDE DEF new
<1>4. /\ old.currency + spent[s] <= granted[s] /\ RankSound(old)
      /\ old.currency \in Nat
  BY <1>1, <1>2 DEF SerialInv, SpentIsGone, RankFollowsEarned, RankSound, Rows
<1>5. /\ stats'[s] = new /\ spent'[s] = spent[s] + c.price
      /\ \A t \in Students \ {s} : stats'[t] = stats[t] /\ spent'[t] = spent[t]
  BY <1>1, <1>2
<1>6. spent'[s] <= granted[s] /\ new.currency + spent'[s] <= granted[s]
  <2>1. spent[s] \in Nat /\ granted[s] \in Nat
    BY <1>1, <1>2
  <2> QED BY <1>1, <1>3, <1>4, <1>5, <2>1
<1>7. (\A t \in Students : spent[t] <= granted[t])'
  BY <1>1, <1>5, <1>6 DEF SerialInv
<1>8. SpentIsGone'
  BY <1>1, <1>5, <1>6 DEF SerialInv, SpentIsGone
<1>9. RankFollowsEarned'
  BY <1>1, <1>3, <1>4, <1>5 DEF SerialInv, RankFollowsEarned, RankSound
<1>10. TxSound(r)'
  <2>1. tx'[r] = Nothing /\ pc'[r] = "idle"
    BY <1>1 DEF SerialInv, TxSound
  <2>2. ASSUME NEW t \in Students
        PROVE  /\ Affordable(Nothing.written[t], t)' /\ RankSound(Nothing.written[t].row)
               /\ Nothing.written[t].cols = {}
    <3>1. spent'[t] \in Nat /\ granted'[t] \in Nat /\ spent'[t] <= granted'[t]
      BY <1>1, <1>2, <1>5, <1>7
    <3>2. /\ Nothing.written[t].cols = {} /\ Nothing.written[t].gain = 0
          /\ Nothing.written[t].row = NewRow(NoRank)
      BY DEF Nothing, Unwritten
    <3>3. NewRow(NoRank).currency = 0 /\ RankSound(NewRow(NoRank))
      BY NewRowSound DEF NewRow
    <3> QED BY <3>1, <3>2, <3>3 DEF Affordable
  <2> QED BY <2>1, <2>2 DEF TxSound, Affordable, RankSound
<1> QED BY <1>7, <1>8, <1>9, <1>10 DEF SerialInv, Serial

LEMMA SerialInit == IInv /\ Init => SerialInv
<1> SUFFICES ASSUME IInv, Init PROVE SerialInv
  OBVIOUS
<1>1. \A s \in Students : spent[s] <= granted[s]
  <2> SUFFICES ASSUME NEW s \in Students PROVE spent[s] <= granted[s]
    OBVIOUS
  <2>1. spent[s] = 0 /\ granted[s] = 0
    BY DEF Init
  <2>2. spent[s] \in Nat /\ granted[s] \in Nat
    BY <2>1
  <2> QED BY <2>1, <2>2
<1>2. ASSUME NEW s \in Students, stats[s] # NoRow
      PROVE  stats[s].currency + spent[s] <= granted[s] /\ RankSound(stats[s])
  <2>1. stats[s] = NewRow(RankFor(0)) /\ spent[s] = 0 /\ granted[s] = 0
    BY <1>2 DEF Init
  <2>2. NewRow(RankFor(0)).currency = 0 /\ RankSound(NewRow(RankFor(0)))
    BY NewRowSound DEF NewRow
  <2> QED BY <2>1, <2>2
<1>3. ASSUME NEW r \in Requests PROVE TxSound(r)
  <2>1. tx[r] = Nothing /\ pc[r] = "idle"
    BY DEF Init
  <2> QED BY <1>1, <2>1, NothingSound DEF TxSound
<1> QED BY <1>1, <1>2, <1>3 DEF SerialInv, SpentIsGone, RankFollowsEarned, RankSound

LEMMA SerialNext == Serial /\ IInv /\ IInv' /\ SerialInv /\ [Next]_vars => SerialInv'
<1> SUFFICES ASSUME Serial, IInv, IInv', SerialInv, [Next]_vars PROVE SerialInv'
  OBVIOUS
<1>1. ASSUME NEW r \in Requests, Start(r) PROVE SerialInv'
  <2>1. PICK c \in Calls : AwardStart(r, c) \/ EditStart(r, c) \/ Buy(r, c)
    BY <1>1 DEF Start
  <2> QED BY <2>1, SerialPlanSteps, SerialBuyStep
<1>2. ASSUME NEW r \in Requests, Step(r) PROVE SerialInv'
  <2>1. CASE ActivityCheck(r) \/ BadgeCheck(r)
    BY <2>1, SerialPlanSteps
  <2>2. CASE \E s \in Students : Grant(r, s) \/ RevokeFind(r, s) \/ Edit(r, s)
    BY <2>2, SerialGrantStep, SerialPlanSteps, SerialEditStep
  <2>3. CASE RevokeDelete(r)
    BY <2>3, SerialRevokeDeleteStep
  <2>4. CASE SaveReload(r) \/ SaveWrite(r)
    BY <2>4, SerialSaveReloadStep, SerialSaveWriteStep
  <2>5. CASE SaveDuplicate(r)
    BY <2>5, SerialEndStep DEF SaveDuplicate
  <2>6. CASE Commit(r)
    BY <2>6, SerialCommitStep
  <2>7. CASE DeadlockVictim(r)
    BY <2>7, SerialEndStep DEF DeadlockVictim
  <2> QED BY <1>2, <2>1, <2>2, <2>3, <2>4, <2>5, <2>6, <2>7 DEF Step
<1>3. ASSUME NEW r \in Requests, Fail(r) PROVE SerialInv'
  BY <1>3, SerialEndStep DEF Fail
<1>4. CASE \/ \E a \in Awards, n \in Rewards : SetReward(a, n)
           \/ UNCHANGED vars
  <2>1. UNCHANGED <<stats, granted, spent, pc, tx>>
    BY <1>4 DEF SetReward, vars, data
  <2>2. (\A s \in Students : spent[s] <= granted[s])' /\ SpentIsGone' /\ RankFollowsEarned'
    BY <2>1 DEF SerialInv, SpentIsGone, RankFollowsEarned
  <2>3. (\A r \in Requests : TxSound(r))'
    BY <2>1 DEF SerialInv, TxSound, Affordable, RankSound, Merges
  <2> QED BY <2>2, <2>3 DEF SerialInv
<1> QED BY <1>1, <1>2, <1>3, <1>4 DEF Next

LEMMA SpecSerial ==
  ASSUME Serial
  PROVE  Spec => []SerialInv
<1>1. IInv /\ IInv' /\ SerialInv /\ [Next]_vars => SerialInv'
  BY SerialNext
<1> QED BY <1>1, SerialInit, SpecInv, PTL DEF Spec

(* Calls that do not overlap never give back what a student has paid: what *)
(* the balance and the purchases add up to is covered by what was granted. *)
THEOREM StatsSpentIsGone ==
  ASSUME Serial
  PROVE  Spec => []SpentIsGone
<1>1. SerialInv => SpentIsGone
  BY DEF SerialInv
<1> QED BY <1>1, SpecSerial, PTL

(* Calls that do not overlap leave every automatic rank at what the points *)
(* attain, through awards, revocations, edits, purchases and failures.     *)
THEOREM StatsRankFollows ==
  ASSUME Serial
  PROVE  Spec => []RankFollowsEarned
<1>1. SerialInv => RankFollowsEarned
  BY DEF SerialInv
<1> QED BY <1>1, SpecSerial, PTL
=============================================================================
