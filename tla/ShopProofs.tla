----------------------------- MODULE ShopProofs -----------------------------
(***************************************************************************)
(* For every number of students, items and concurrent requests: the shop's *)
(* rows keep their types, its locks make every snapshot current, and so    *)
(* its requests implement the indivisible purchases of ShopLedger.         *)
(***************************************************************************)
EXTENDS Shop, TLAPS

USE ShopDataAssumption DEF Targets, Reads, Steps, Shops

-----------------------------------------------------------------------------
(* Typing.                                                                 *)

LEMMA LedgerInitTyped ==
  ASSUME Ledger!Init
  PROVE  /\ currency \in [Students -> Nat]
         /\ lives \in [Students -> Nat]
         /\ stock \in [Items -> Nat \cup {Unlimited}]
         /\ owned \in [Students -> [Items -> Nat]]
BY DEF Ledger!Init

LEMMA InitTyped == Init => TypeOK
BY LedgerInitTyped DEF Init, TypeOK, Nothing

LEMMA EndTyped ==
  ASSUME TypeOK, NEW r \in Requests, End(r)
  PROVE  /\ shop' \in Shops
         /\ pc' \in [Requests -> Steps]
         /\ req' \in [Requests -> Targets]
         /\ seen' \in [Requests -> Reads]
BY DEF TypeOK, End, Nothing

LEMMA RollbackTyped ==
  ASSUME TypeOK, NEW r \in Requests, Rollback(r)
  PROVE  TypeOK'
BY EndTyped DEF TypeOK, Rollback, rows, backlog

(* A commit needs what the request read to be what it checked.             *)
LEMMA BuyCommitTyped ==
  ASSUME TypeOK, SnapshotsCurrent, NEW r \in Requests, BuyCommit(r)
  PROVE  TypeOK'
<1> DEFINE s == req[r].student
           i == req[r].item
           p == seen[r].price
<1>1. /\ s \in Students /\ i \in Items /\ p \in Nat /\ seen[r].currency \in Nat
      /\ seen[r].lives \in Nat /\ seen[r].owned \in Nat
      /\ seen[r].stock \in Nat \cup {Unlimited}
  BY DEF TypeOK
<1>2. pc[r] = "buy" /\ End(r)
  BY DEF BuyCommit
<1>3. p <= seen[r].currency /\ InStock(seen[r].stock)
  BY <1>1, <1>2 DEF SnapshotsCurrent, CurrentStats, CurrentListing
<1>4. /\ shop' \in Shops
      /\ pc' \in [Requests -> Steps]
      /\ req' \in [Requests -> Targets]
      /\ seen' \in [Requests -> Reads]
  BY <1>2, EndTyped
<1>5. currency' \in [Students -> Nat]
  BY <1>1, <1>3 DEF TypeOK, BuyCommit
<1>6. stock' \in [Items -> Nat \cup {Unlimited}]
  BY <1>1, <1>3 DEF TypeOK, BuyCommit, Decremented, InStock
<1>7. lives' \in [Students -> Nat]
  BY <1>1 DEF TypeOK, BuyCommit, OneMoreLife
<1>8. owned' \in [Students -> [Items -> Nat]]
  <2>1. CASE i \in ExtraLife
    BY <2>1 DEF TypeOK, BuyCommit
  <2>2. CASE i \notin ExtraLife
    <3>1. owned[s] \in [Items -> Nat] /\ seen[r].owned + 1 \in Nat
      BY <1>1 DEF TypeOK
    <3>2. owned' = [owned EXCEPT ![s] = [owned[s] EXCEPT ![i] = seen[r].owned + 1]]
      BY <2>2 DEF BuyCommit
    <3> QED
      BY <1>1, <3>1, <3>2 DEF TypeOK
  <2> QED
    BY <2>1, <2>2
<1>9. sold' \in [Items -> Nat] /\ bought' \in [Students -> [Items -> Nat]]
  BY <1>1 DEF TypeOK, BuyCommit
<1>10. spent' \in [Students -> Nat] /\ used' \in [Students -> [Items -> Nat]]
  BY <1>1 DEF TypeOK, BuyCommit
<1> QED
  BY <1>4, <1>5, <1>6, <1>7, <1>8, <1>9, <1>10 DEF TypeOK
LEMMA UseCommitTyped ==
  ASSUME TypeOK, SnapshotsCurrent, NEW r \in Requests, UseCommit(r)
  PROVE  TypeOK'
<1> DEFINE s == req[r].student
           i == req[r].item
<1>1. s \in Students /\ i \in Items /\ owned[s][i] \in Nat /\ owned[s] \in [Items -> Nat]
  BY DEF TypeOK
<1>2. pc[r] = "use" /\ End(r)
  BY DEF UseCommit
<1>3. seen[r].owned - 1 \in Nat
  BY <1>1, <1>2 DEF SnapshotsCurrent, CurrentEarned, OwnedBy
<1>4. owned' = [owned EXCEPT ![s] = [owned[s] EXCEPT ![i] = seen[r].owned - 1]]
  BY DEF UseCommit
<1>5. owned' \in [Students -> [Items -> Nat]]
  BY <1>1, <1>3, <1>4 DEF TypeOK
<1>6. used' \in [Students -> [Items -> Nat]]
  BY <1>1 DEF TypeOK, UseCommit
<1>7. UNCHANGED <<currency, lives, stock, sold, bought, spent>>
  BY DEF UseCommit
<1> QED
  BY <1>2, <1>5, <1>6, <1>7, EndTyped DEF TypeOK

(* The steps that only read: locks, checks and starts.                     *)
LEMMA ReadTyped ==
  ASSUME TypeOK, NEW r \in Requests,
         \/ Start(r)
         \/ BuyLockListing(r) \/ BuyLockStats(r) \/ BuyLockEarned(r) \/ UseLockEarned(r)
  PROVE  TypeOK'
<1>1. /\ req[r].student \in Students /\ req[r].item \in Items
      /\ seen[r] \in Reads /\ shop.sellsLives \in BOOLEAN
      /\ stock[req[r].item] \in Nat \cup {Unlimited}
      /\ currency[req[r].student] \in Nat /\ lives[req[r].student] \in Nat
      /\ OwnedBy(r) \in Nat
  BY DEF TypeOK, OwnedBy
<1>2. ASSUME NEW s \in Students, NEW i \in Items, BuyStart(r, s, i)
      PROVE  TypeOK'
  BY <1>1, <1>2 DEF TypeOK, BuyStart, Goto, rows, backlog
<1>3. ASSUME NEW s \in Students, NEW i \in Items, UseStart(r, s, i)
      PROVE  TypeOK'
  BY <1>1, <1>3 DEF TypeOK, UseStart, Goto, rows, backlog
<1>4. CASE BuyLockListing(r)
  BY <1>1, <1>4 DEF TypeOK, BuyLockListing, Goto, rows, backlog
<1>5. CASE BuyLockStats(r)
  <2>1. PICK p \in Prices[req[r].item] :
          seen' = [seen EXCEPT ![r].currency = currency[req[r].student],
                               ![r].lives = lives[req[r].student],
                               ![r].price = p]
    BY <1>5 DEF BuyLockStats
  <2>2. p \in Nat
    BY <1>1
  <2> QED
    BY <1>1, <1>5, <2>1, <2>2 DEF TypeOK, BuyLockStats, Goto, rows, backlog
<1>6. CASE BuyLockEarned(r)
  BY <1>1, <1>6 DEF TypeOK, BuyLockEarned, Goto, rows, backlog
<1>7. CASE UseLockEarned(r)
  BY <1>1, <1>7 DEF TypeOK, UseLockEarned, Goto, rows, backlog
<1> QED
  BY <1>2, <1>3, <1>4, <1>5, <1>6, <1>7 DEF Start

LEMMA NextTyped == TypeOK /\ SnapshotsCurrent /\ [Next]_vars => TypeOK'
<1> SUFFICES ASSUME TypeOK, SnapshotsCurrent, [Next]_vars
             PROVE  TypeOK'
  OBVIOUS
<1>1. CASE SetShop
  BY <1>1 DEF TypeOK, SetShop, rows, backlog
<1>2. ASSUME NEW r \in Requests, Start(r)
      PROVE  TypeOK'
  BY <1>2, ReadTyped
<1>3. ASSUME NEW r \in Requests, Continue(r)
      PROVE  TypeOK'
  BY <1>3, ReadTyped, RollbackTyped, BuyCommitTyped, UseCommitTyped
     DEF Continue, BuyRefused, BuyOverLimit, UseRefused
<1>4. ASSUME NEW r \in Requests, Fail(r)
      PROVE  TypeOK'
  BY <1>4, RollbackTyped DEF Fail
<1>5. CASE UNCHANGED vars
  BY <1>5 DEF TypeOK, vars, rows, backlog
<1> QED
  BY <1>1, <1>2, <1>3, <1>4, <1>5 DEF Next, Step
-----------------------------------------------------------------------------
(* Locks.                                                                  *)

(* A step of one request leaves what the others do and have read alone.    *)
LEMMA Frame ==
  ASSUME TypeOK, NEW r \in Requests, Step(r)
  PROVE  \A q \in Requests \ {r} :
           pc'[q] = pc[q] /\ req'[q] = req[q] /\ seen'[q] = seen[q]
<1>1. CASE Start(r)
  BY <1>1 DEF TypeOK, Start, BuyStart, UseStart, Goto
<1>2. CASE End(r)
  BY <1>2 DEF TypeOK, End
<1>3. CASE BuyLockListing(r) \/ BuyLockEarned(r) \/ UseLockEarned(r)
  BY <1>3 DEF TypeOK, BuyLockListing, BuyLockEarned, UseLockEarned, Goto
<1>4. CASE BuyLockStats(r)
  BY <1>4 DEF TypeOK, BuyLockStats, Goto
<1> QED
  BY <1>1, <1>2, <1>3, <1>4
     DEF Step, Continue, Fail, Rollback, BuyRefused, BuyOverLimit, UseRefused,
         BuyCommit, UseCommit

(* The lock a request holds after its step it held before or took free.    *)
LEMMA Acquired ==
  ASSUME TypeOK, NEW r \in Requests, Step(r)
  PROVE  /\ \A i \in Items : HoldsListing(r, i)' =>
              HoldsListing(r, i) \/ (ListingFree(r) /\ i = req[r].item)
         /\ \A s \in Students : HoldsStats(r, s)' =>
              HoldsStats(r, s) \/ (StatsFree(r) /\ s = req[r].student)
         /\ \A s \in Students, i \in Items : HoldsEarned(r, s, i)' =>
              \/ HoldsEarned(r, s, i)
              \/ EarnedFree(r) /\ s = req[r].student /\ i = req[r].item
<1>1. CASE Start(r)
  BY <1>1 DEF TypeOK, Start, BuyStart, UseStart, Goto, HoldsListing, HoldsStats,
              HoldsEarned
<1>2. CASE End(r)
  BY <1>2 DEF TypeOK, End, HoldsListing, HoldsStats, HoldsEarned
<1>3. CASE BuyLockListing(r)
  BY <1>3 DEF TypeOK, BuyLockListing, Goto, HoldsListing, HoldsStats, HoldsEarned
<1>4. CASE BuyLockStats(r)
  BY <1>4 DEF TypeOK, BuyLockStats, Goto, HoldsListing, HoldsStats, HoldsEarned
<1>5. CASE BuyLockEarned(r)
  BY <1>5 DEF TypeOK, BuyLockEarned, Goto, OwnedBy, HoldsListing, HoldsStats,
              HoldsEarned
<1>6. CASE UseLockEarned(r)
  BY <1>6 DEF TypeOK, UseLockEarned, Goto, HoldsListing, HoldsStats, HoldsEarned
<1> QED
  BY <1>1, <1>2, <1>3, <1>4, <1>5, <1>6
     DEF Step, Continue, Fail, Rollback, BuyRefused, BuyOverLimit, UseRefused,
         BuyCommit, UseCommit

LEMMA StepLocks ==
  ASSUME TypeOK, LocksExclusive, NEW r \in Requests, Step(r)
  PROVE  LocksExclusive'
<1>1. \A q \in Requests \ {r} :
        /\ \A i \in Items : HoldsListing(q, i)' <=> HoldsListing(q, i)
        /\ \A s \in Students : HoldsStats(q, s)' <=> HoldsStats(q, s)
        /\ \A s \in Students, i \in Items :
             HoldsEarned(q, s, i)' <=> HoldsEarned(q, s, i)
  BY Frame DEF HoldsListing, HoldsStats, HoldsEarned
<1>2. \A q \in Requests \ {r} :
        /\ \A i \in Items : ~(HoldsListing(q, i) /\ HoldsListing(r, i))'
        /\ \A s \in Students : ~(HoldsStats(q, s) /\ HoldsStats(r, s))'
        /\ \A s \in Students, i \in Items :
             ~(HoldsEarned(q, s, i) /\ HoldsEarned(r, s, i))'
  BY <1>1, Acquired DEF LocksExclusive, ListingFree, StatsFree, EarnedFree
<1> QED
  BY <1>1, <1>2 DEF LocksExclusive
-----------------------------------------------------------------------------
(* Snapshots.                                                              *)

(* Only the holder of a row's locks changes the row.                       *)
LEMMA WritesAreLocked ==
  ASSUME TypeOK, NEW r \in Requests, Step(r)
  PROVE  /\ \A i \in Items : stock'[i] # stock[i] => HoldsListing(r, i)
         /\ \A s \in Students :
              currency'[s] # currency[s] \/ lives'[s] # lives[s] => HoldsStats(r, s)
         /\ \A s \in Students, i \in Items : owned'[s][i] # owned[s][i] =>
              /\ s = req[r].student /\ i = req[r].item
              /\ pc[r] \in {"buy", "use"}
<1>1. CASE UNCHANGED rows
  BY <1>1 DEF rows
<1>2. CASE BuyCommit(r)
  BY <1>2 DEF TypeOK, BuyCommit, HoldsListing, HoldsStats
<1>3. CASE UseCommit(r)
  BY <1>3 DEF TypeOK, UseCommit
<1> QED
  BY <1>1, <1>2, <1>3
     DEF Step, Start, BuyStart, UseStart, Continue, Fail, Rollback, BuyRefused,
         BuyOverLimit, UseRefused, BuyLockListing, BuyLockStats, BuyLockEarned,
         UseLockEarned

(* A request that has read an inventory row keeps others from changing it. *)
LEMMA InventoryIsStable ==
  ASSUME TypeOK, LocksExclusive, SnapshotsCurrent,
         NEW r \in Requests, Step(r), NEW q \in Requests \ {r},
         pc[q] \in {"buy", "use"}
  PROVE  owned'[req[q].student][req[q].item] = owned[req[q].student][req[q].item]
<1> DEFINE s == req[q].student
           i == req[q].item
<1> SUFFICES ASSUME owned'[s][i] # owned[s][i]
             PROVE  FALSE
  OBVIOUS
<1>1. s \in Students /\ i \in Items /\ owned[s][i] \in Nat
  BY DEF TypeOK
<1>2. req[r] = [student |-> s, item |-> i] /\ req[q] = [student |-> s, item |-> i]
  BY <1>1, WritesAreLocked DEF TypeOK
<1>3. pc[r] \in {"buy", "use"}
  BY <1>1, WritesAreLocked
<1>4. CASE pc[r] = "buy" /\ pc[q] = "buy"
  BY <1>1, <1>2, <1>4 DEF LocksExclusive, HoldsListing
<1>5. CASE pc[r] = "use" \/ pc[q] = "use"
  <2>1. owned[s][i] > 0 /\ seen[r].owned = owned[s][i] /\ seen[q].owned = owned[s][i]
    BY <1>1, <1>2, <1>3, <1>5 DEF SnapshotsCurrent, CurrentEarned, OwnedBy
  <2>2. HoldsEarned(r, s, i) /\ HoldsEarned(q, s, i)
    BY <1>2, <1>3, <2>1 DEF HoldsEarned
  <2> QED
    BY <1>1, <2>2 DEF LocksExclusive
<1> QED
  BY <1>3, <1>4, <1>5

(* The snapshots of the other requests stay current.                       *)
LEMMA OthersCurrent ==
  ASSUME TypeOK, LocksExclusive, SnapshotsCurrent,
         NEW r \in Requests, Step(r), NEW q \in Requests \ {r}
  PROVE  CurrentListing(q)' /\ CurrentStats(q)' /\ CurrentEarned(q)'
<1> DEFINE s == req[q].student
           i == req[q].item
<1>1. s \in Students /\ i \in Items
  BY DEF TypeOK
<1>2. pc'[q] = pc[q] /\ req'[q] = req[q] /\ seen'[q] = seen[q]
  BY Frame
<1>3. CurrentListing(q) /\ CurrentStats(q) /\ CurrentEarned(q)
  BY DEF SnapshotsCurrent
<1>4. HoldsListing(q, i) => stock'[i] = stock[i]
  BY <1>1, WritesAreLocked DEF LocksExclusive
<1>5. HoldsStats(q, s) => currency'[s] = currency[s] /\ lives'[s] = lives[s]
  BY <1>1, WritesAreLocked DEF LocksExclusive
<1>6. CurrentListing(q)'
  BY <1>2, <1>3, <1>4 DEF CurrentListing, HoldsListing
<1>7. CurrentStats(q)'
  BY <1>2, <1>3, <1>4, <1>5 DEF CurrentStats, HoldsListing, HoldsStats
<1>8. CurrentEarned(q)'
  <2>1. CASE pc[q] \in {"buy", "use"}
    BY <1>2, <1>3, <2>1, InventoryIsStable DEF CurrentEarned, OwnedBy, UnderLimit
  <2>2. CASE pc[q] \notin {"buy", "use"}
    BY <1>2, <2>2 DEF CurrentEarned
  <2> QED
    BY <2>1, <2>2
<1> QED
  BY <1>6, <1>7, <1>8

(* A request's own snapshot is current when it is taken and as it grows.   *)
LEMMA OwnCurrent ==
  ASSUME TypeOK, SnapshotsCurrent, NEW r \in Requests, Step(r)
  PROVE  CurrentListing(r)' /\ CurrentStats(r)' /\ CurrentEarned(r)'
<1> USE DEF CurrentListing, CurrentStats, CurrentEarned, OwnedBy, UnderLimit, rows
<1>0. /\ CurrentListing(r) /\ CurrentStats(r) /\ CurrentEarned(r)
      /\ req[r].student \in Students /\ req[r].item \in Items
  BY DEF SnapshotsCurrent, TypeOK
<1>1. CASE Start(r)
  BY <1>1 DEF TypeOK, Start, BuyStart, UseStart, Goto
<1>2. CASE End(r)
  BY <1>2 DEF TypeOK, End
<1>3. CASE BuyLockListing(r)
  BY <1>3 DEF TypeOK, BuyLockListing, Goto
<1>4. CASE BuyLockStats(r)
  BY <1>0, <1>4 DEF TypeOK, BuyLockStats, MayBuy, Goto
<1>5. CASE BuyLockEarned(r)
  BY <1>0, <1>5 DEF TypeOK, BuyLockEarned, Goto
<1>6. CASE UseLockEarned(r)
  BY <1>0, <1>6 DEF TypeOK, UseLockEarned, Goto
<1> QED
  BY <1>1, <1>2, <1>3, <1>4, <1>5, <1>6
     DEF Step, Continue, Fail, Rollback, BuyRefused, BuyOverLimit, UseRefused,
         BuyCommit, UseCommit

LEMMA StepCurrent ==
  ASSUME TypeOK, LocksExclusive, SnapshotsCurrent, NEW r \in Requests, Step(r)
  PROVE  SnapshotsCurrent'
BY OthersCurrent, OwnCurrent DEF SnapshotsCurrent

-----------------------------------------------------------------------------
(* The inductive invariant: types, exclusive locks, current snapshots.     *)

IInv == TypeOK /\ LocksExclusive /\ SnapshotsCurrent

LEMMA InitIInv == Init => IInv
BY InitTyped DEF Init, IInv, TypeOK, LocksExclusive, SnapshotsCurrent, HoldsListing, HoldsStats,
   HoldsEarned, CurrentListing, CurrentStats, CurrentEarned

LEMMA NextIInv == IInv /\ [Next]_vars => IInv'
<1> SUFFICES ASSUME IInv, [Next]_vars
             PROVE  LocksExclusive' /\ SnapshotsCurrent'
  BY NextTyped DEF IInv
<1>1. ASSUME NEW r \in Requests, Step(r)
      PROVE  LocksExclusive' /\ SnapshotsCurrent'
  BY <1>1, StepLocks, StepCurrent DEF IInv
<1>2. CASE UNCHANGED <<rows, pc, req, seen>>
  BY <1>2 DEF IInv, rows, LocksExclusive, SnapshotsCurrent, HoldsListing, HoldsStats,
     HoldsEarned, CurrentListing, CurrentStats, CurrentEarned, OwnedBy, UnderLimit
<1> QED
  BY <1>1, <1>2 DEF Next, SetShop, vars

(* Every row and every request keeps its type, whatever the schedule.      *)
THEOREM ShopTyped == Spec => []TypeOK
<1>1. IInv => TypeOK
  BY DEF IInv
<1> QED
  BY <1>1, InitIInv, NextIInv, PTL DEF Spec

(* The row locks of ShopStudentService exclude one another, and what a     *)
(* request checked still holds when it writes.                             *)
THEOREM ShopLocksProtect == Spec => [](LocksExclusive /\ SnapshotsCurrent)
<1>1. IInv => LocksExclusive /\ SnapshotsCurrent
  BY DEF IInv
<1> QED
  BY <1>1, InitIInv, NextIInv, PTL DEF Spec
-----------------------------------------------------------------------------
(* What a commit writes, in terms of the rows it finds.                    *)

LEMMA BuyCommitWrites ==
  ASSUME IInv, NEW r \in Requests, BuyCommit(r)
  PROVE  LET s == req[r].student  i == req[r].item  p == seen[r].price IN
         /\ s \in Students /\ i \in Items
         /\ p \in Prices[i] /\ p \in Nat /\ p <= currency[s]
         /\ InStock(stock[i]) /\ Purchasable(s, i)
         /\ currency' = [currency EXCEPT ![s] = currency[s] - p]
         /\ stock' = [stock EXCEPT ![i] = Decremented(stock[i])]
         /\ i \notin ExtraLife =>
              /\ Below(owned[s][i], Limit[i])
              /\ owned' = [owned EXCEPT ![s][i] = owned[s][i] + 1]
              /\ lives' = lives
         /\ i \in ExtraLife =>
              /\ Below(lives[s], LifeCap)
              /\ lives' = [lives EXCEPT ![s] = lives[s] + 1]
              /\ owned' = owned
<1> DEFINE s == req[r].student
           i == req[r].item
           p == seen[r].price
<1>1. TypeOK /\ CurrentListing(r) /\ CurrentStats(r) /\ CurrentEarned(r)
  BY DEF IInv, SnapshotsCurrent
<1>2. pc[r] = "buy"
  BY DEF BuyCommit
<1>3. /\ s \in Students /\ i \in Items /\ p \in Nat
      /\ seen[r].stock = stock[i] /\ seen[r].currency = currency[s]
      /\ seen[r].lives = lives[s] /\ seen[r].owned = owned[s][i]
      /\ lives[s] \in Nat /\ LifeCap \in Nat \cup {Unlimited}
  BY <1>1, <1>2 DEF TypeOK, CurrentListing, CurrentStats, CurrentEarned, OwnedBy
<1>4. /\ p \in Prices[i] /\ p <= currency[s]
      /\ InStock(stock[i]) /\ Purchasable(s, i)
      /\ i \in ExtraLife => Below(lives[s], LifeCap)
      /\ i \notin ExtraLife => Below(owned[s][i], Limit[i])
  BY <1>1, <1>2 DEF CurrentStats, CurrentEarned, UnderLimit, OwnedBy
<1>5. i \in ExtraLife => OneMoreLife(lives[s]) = lives[s] + 1
  BY <1>3, <1>4 DEF OneMoreLife, Below
<1>6. /\ currency' = [currency EXCEPT ![s] = currency[s] - p]
      /\ stock' = [stock EXCEPT ![i] = Decremented(stock[i])]
  BY <1>3 DEF BuyCommit
<1>7. i \notin ExtraLife =>
        /\ owned' = [owned EXCEPT ![s][i] = owned[s][i] + 1]
        /\ lives' = lives
  BY <1>3 DEF BuyCommit
<1>8. i \in ExtraLife =>
        /\ lives' = [lives EXCEPT ![s] = lives[s] + 1]
        /\ owned' = owned
  BY <1>3, <1>5 DEF BuyCommit
<1> QED
  BY <1>3, <1>4, <1>6, <1>7, <1>8

LEMMA UseCommitWrites ==
  ASSUME IInv, NEW r \in Requests, UseCommit(r)
  PROVE  LET s == req[r].student  i == req[r].item IN
         /\ s \in Students /\ i \in Items /\ owned[s][i] > 0
         /\ owned' = [owned EXCEPT ![s][i] = owned[s][i] - 1]
         /\ UNCHANGED <<currency, lives, stock, sold, bought, spent>>
         /\ used' = [used EXCEPT ![s][i] = @ + 1]
BY DEF IInv, TypeOK, UseCommit, SnapshotsCurrent, CurrentEarned, OwnedBy

(* The steps that commit nothing.                                          *)
LEMMA OtherSteps ==
  ASSUME NEW r \in Requests, Step(r)
  PROVE  \/ BuyCommit(r) \/ UseCommit(r)
         \/ UNCHANGED <<rows, backlog>>
BY DEF Step, Start, BuyStart, UseStart, Continue, Fail, Rollback, BuyRefused,
       BuyOverLimit, UseRefused, BuyLockListing, BuyLockStats, BuyLockEarned,
       UseLockEarned

-----------------------------------------------------------------------------
(* Refinement: a committed purchase or use is one step of the ledger and   *)
(* every other step of the shop leaves the ledger alone.                   *)

LEMMA StepRefines == IInv /\ [Next]_vars => [Ledger!Next]_<<currency, lives, stock, owned>>
<1> SUFFICES ASSUME IInv, [Next]_vars
             PROVE  Ledger!Next \/ UNCHANGED rows
  BY DEF rows
<1>1. ASSUME NEW r \in Requests, BuyCommit(r)
      PROVE  Ledger!Next
  <2> DEFINE s == req[r].student
             i == req[r].item
             p == seen[r].price
  <2>1. /\ s \in Students /\ i \in Items /\ p \in Prices[i]
        /\ Ledger!PurchaseItem(s, i, p) \/ Ledger!PurchaseLife(s, i, p)
    BY <1>1, BuyCommitWrites
       DEF Ledger!PurchaseItem, Ledger!PurchaseLife, Ledger!InStock, Ledger!Below,
           Ledger!Purchasable, Ledger!Decremented, InStock, Below, Purchasable,
           Decremented
  <2> QED
    BY <2>1 DEF Ledger!Next
<1>2. ASSUME NEW r \in Requests, UseCommit(r)
      PROVE  Ledger!Next
  <2> DEFINE s == req[r].student
             i == req[r].item
  <2>1. s \in Students /\ i \in Items /\ Ledger!Use(s, i)
    BY <1>2, UseCommitWrites DEF Ledger!Use
  <2> QED
    BY <2>1 DEF Ledger!Next
<1> QED
  BY <1>1, <1>2, OtherSteps DEF Next, SetShop, vars

(* The shop implements the ledger: concurrent, failing and interrupted     *)
(* requests look like indivisible purchases and uses.                      *)
THEOREM ShopImplementsLedger == Spec => ImplementsLedger
<1>1. Init => Ledger!Init
  BY DEF Init
<1> QED
  BY <1>1, InitIInv, NextIInv, StepRefines, PTL
     DEF Spec, ImplementsLedger, Ledger!Spec, Ledger!ledgerVars

-----------------------------------------------------------------------------
(* Conservation.                                                           *)

(* Units owned and used are the units bought; a life is no unit.           *)
UnitsConserved ==
  \A s \in Students, i \in Items :
    owned[s][i] + used[s][i] = IF i \in ExtraLife THEN 0 ELSE bought[s][i]

Conserved ==
  StockConserved /\ BalanceConserved /\ UnitsConserved /\ LimitRespected

LEMMA BuyConserves ==
  ASSUME IInv, Conserved, NEW r \in Requests, BuyCommit(r)
  PROVE  Conserved'
<1> DEFINE s == req[r].student
           i == req[r].item
           p == seen[r].price
<1>1. /\ s \in Students /\ i \in Items /\ p \in Nat
      /\ InStock(stock[i])
      /\ currency' = [currency EXCEPT ![s] = currency[s] - p]
      /\ stock' = [stock EXCEPT ![i] = Decremented(stock[i])]
  BY BuyCommitWrites
<1>2. i \notin ExtraLife =>
        /\ Below(owned[s][i], Limit[i])
        /\ owned' = [owned EXCEPT ![s][i] = owned[s][i] + 1]
  BY BuyCommitWrites
<1>3. i \in ExtraLife => owned' = owned
  BY BuyCommitWrites
<1>4. /\ sold' = [sold EXCEPT ![i] = @ + 1]
      /\ bought' = [bought EXCEPT ![s][i] = @ + 1]
      /\ spent' = [spent EXCEPT ![s] = @ + p]
      /\ used' = used
  BY DEF BuyCommit
<1>5. TypeOK
  BY DEF IInv
<1>6. StockConserved'
  <2> SUFFICES ASSUME NEW j \in Items
               PROVE  IF StartStock[j] = Unlimited
                      THEN stock'[j] = Unlimited
                      ELSE /\ stock'[j] # Unlimited
                           /\ stock'[j] + sold'[j] = StartStock[j]
    BY DEF StockConserved
  <2>1. /\ stock[j] \in Nat \cup {Unlimited} /\ sold[j] \in Nat
        /\ IF StartStock[j] = Unlimited
           THEN stock[j] = Unlimited
           ELSE stock[j] # Unlimited /\ stock[j] + sold[j] = StartStock[j]
    BY <1>5 DEF TypeOK, Conserved, StockConserved
  <2>2. stock'[j] = IF j = i THEN Decremented(stock[j]) ELSE stock[j]
    BY <1>1, <1>5 DEF TypeOK
  <2>3. sold'[j] = IF j = i THEN sold[j] + 1 ELSE sold[j]
    BY <1>4, <1>5 DEF TypeOK
  <2>4. j = i /\ stock[j] # Unlimited => stock[j] - 1 \in Nat
    BY <1>1, <2>1 DEF InStock
  <2> HIDE DEF i
  <2> QED
    BY <2>1, <2>2, <2>3, <2>4 DEF Decremented
<1>7. BalanceConserved'
  BY <1>1, <1>4, <1>5 DEF TypeOK, Conserved, BalanceConserved
<1>8. UnitsConserved'
  BY <1>1, <1>2, <1>3, <1>4, <1>5 DEF TypeOK, Conserved, UnitsConserved
<1>9. LimitRespected'
  <2> SUFFICES ASSUME NEW t \in Students, NEW j \in Items, Limit[j] # Unlimited
               PROVE  owned'[t][j] <= Limit[j]
    BY DEF LimitRespected
  <2>1. owned[t][j] <= Limit[j] /\ Limit[j] \in Nat /\ owned[t][j] \in Nat
    BY <1>5 DEF TypeOK, Conserved, LimitRespected
  <2>2. CASE i \in ExtraLife
    BY <1>3, <2>1, <2>2
  <2>3. CASE i \notin ExtraLife
    <3>1. CASE t = s /\ j = i
      BY <1>1, <1>2, <1>5, <2>1, <2>3, <3>1 DEF TypeOK, Below
    <3>2. CASE ~(t = s /\ j = i)
      BY <1>1, <1>2, <1>5, <2>1, <2>3, <3>2 DEF TypeOK
    <3> QED
      BY <3>1, <3>2
  <2> QED
    BY <2>2, <2>3
<1> QED
  BY <1>6, <1>7, <1>8, <1>9 DEF Conserved

LEMMA UseConserves ==
  ASSUME IInv, Conserved, NEW r \in Requests, UseCommit(r)
  PROVE  Conserved'
<1> DEFINE s == req[r].student
           i == req[r].item
<1>1. /\ s \in Students /\ i \in Items /\ owned[s][i] > 0
      /\ owned' = [owned EXCEPT ![s][i] = owned[s][i] - 1]
      /\ UNCHANGED <<currency, lives, stock, sold, bought, spent>>
      /\ used' = [used EXCEPT ![s][i] = @ + 1]
  BY UseCommitWrites
<1>2. TypeOK
  BY DEF IInv
<1>3. StockConserved' /\ BalanceConserved'
  BY <1>1 DEF Conserved, StockConserved, BalanceConserved
<1>4. UnitsConserved'
  BY <1>1, <1>2 DEF TypeOK, Conserved, UnitsConserved
<1>5. LimitRespected'
  BY <1>1, <1>2 DEF TypeOK, Conserved, LimitRespected
<1> QED
  BY <1>3, <1>4, <1>5 DEF Conserved

LEMMA NextConserves == IInv /\ Conserved /\ [Next]_vars => Conserved'
<1> SUFFICES ASSUME IInv, Conserved, [Next]_vars
             PROVE  Conserved'
  OBVIOUS
<1>1. CASE UNCHANGED <<rows, backlog>>
  BY <1>1 DEF rows, backlog, Conserved, StockConserved, BalanceConserved,
     UnitsConserved, LimitRespected
<1> QED
  BY <1>1, BuyConserves, UseConserves, OtherSteps DEF Next, SetShop, vars

LEMMA InitConserved == Init => Conserved
BY DEF Init, Ledger!Init, Conserved, StockConserved, BalanceConserved,
   UnitsConserved, LimitRespected

LEMMA UnitsExplain == TypeOK /\ UnitsConserved => InventoryExplained
<1> SUFFICES ASSUME TypeOK, UnitsConserved, NEW s \in Students, NEW i \in Items
             PROVE  IF owned[s][i] > 0
                    THEN i \notin ExtraLife /\ owned[s][i] + used[s][i] = bought[s][i]
                    ELSE i \in ExtraLife \/ used[s][i] = bought[s][i]
  BY DEF InventoryExplained, Inventory, InventoryHistory
<1>1. owned[s][i] \in Nat /\ used[s][i] \in Nat /\ bought[s][i] \in Nat
  BY DEF TypeOK
<1>2. owned[s][i] + used[s][i] = IF i \in ExtraLife THEN 0 ELSE bought[s][i]
  BY DEF UnitsConserved
<1> QED
  BY <1>1, <1>2

(* Stock, balances and inventories agree with the backlog for ever, and no *)
(* student exceeds the limit of an item.                                   *)
THEOREM ShopConserves ==
  Spec => [](StockConserved /\ BalanceConserved /\ InventoryExplained /\ LimitRespected)
<1>1. IInv /\ Conserved =>
        StockConserved /\ BalanceConserved /\ InventoryExplained /\ LimitRespected
  BY UnitsExplain DEF IInv, Conserved
<1> QED
  BY <1>1, InitIInv, NextIInv, InitConserved, NextConserves, PTL DEF Spec

(* A balance is what was earned minus what the purchases cost.             *)
THEOREM BalancesConserved == Spec => []BalanceConserved
<1>1. StockConserved /\ BalanceConserved /\ InventoryExplained /\ LimitRespected => BalanceConserved
  OBVIOUS
<1> QED
  BY <1>1, ShopConserves, PTL

(* What a student owns was bought and not used up.                         *)
THEOREM InventoriesExplained == Spec => []InventoryExplained
<1>1. StockConserved /\ BalanceConserved /\ InventoryExplained /\ LimitRespected => InventoryExplained
  OBVIOUS
<1> QED
  BY <1>1, ShopConserves, PTL

(* Nobody ever owns more of an item than its limit per student.            *)
THEOREM LimitsRespected == Spec => []LimitRespected
<1>1. StockConserved /\ BalanceConserved /\ InventoryExplained /\ LimitRespected => LimitRespected
  OBVIOUS
<1> QED
  BY <1>1, ShopConserves, PTL
=============================================================================
