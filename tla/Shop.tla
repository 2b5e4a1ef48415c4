-------------------------------- MODULE Shop --------------------------------
(***************************************************************************)
(* ShopStudentService: buyItem and useItem as PostgreSQL runs them.  Each  *)
(* request is one READ COMMITTED transaction; SELECT ... FOR UPDATE takes a *)
(* row lock that is kept until the transaction ends.  Writes are visible   *)
(* to others only at COMMIT and every row written is locked, so the writes *)
(* of a request and its COMMIT are one step.                               *)
(***************************************************************************)
EXTENDS ShopData

CONSTANT Requests   \* the requests the server handles at the same time

VARIABLES
  shop,      \* the group's row: [open, sellsLives]
  currency,  \* student_stats.currency
  lives,     \* student_stats.lives
  stock,     \* shop_listings.stock_quantity
  owned,     \* earned_items.quantity, 0 when there is no row
  sold,      \* sold[i]: SHOP_PURCHASE rows of the backlog about i
  bought,    \* bought[s][i]: those that belong to s
  spent,     \* spent[s]: the sum of their prices
  used,      \* used[s][i]: ITEM_USED rows of the backlog of s about i
  pc,        \* the statement each request runs next
  req,       \* the student and item each request is about
  seen       \* the columns each request has read

rows    == <<currency, lives, stock, owned>>
backlog == <<sold, bought, spent, used>>
vars    == <<shop, rows, backlog, pc, req, seen>>

Shops   == [open : BOOLEAN, sellsLives : BOOLEAN]
Targets == [student : Students, item : Items]
Reads   == [sellsLives : BOOLEAN, currency : Nat, lives : Nat, price : Nat,
            stock : Nat \cup {Unlimited}, owned : Nat]
Nothing == [sellsLives |-> FALSE, currency |-> 0, lives |-> 0, price |-> 0,
            stock |-> 0, owned |-> 0]
Steps   == {"idle", "lockListing", "lockStats", "lockEarned", "buy",
            "lockUsed", "use"}

Ledger == INSTANCE ShopLedger WITH
  currency <- currency, lives <- lives, stock <- stock, owned <- owned

Init ==
  /\ Ledger!Init
  /\ shop \in Shops
  /\ sold = [i \in Items |-> 0]
  /\ bought = [s \in Students |-> [i \in Items |-> 0]]
  /\ spent = [s \in Students |-> 0]
  /\ used = [s \in Students |-> [i \in Items |-> 0]]
  /\ pc = [r \in Requests |-> "idle"]
  /\ req \in [Requests -> Targets]
  /\ seen = [r \in Requests |-> Nothing]

-----------------------------------------------------------------------------
(* Row locks, as the position of the request that holds them.              *)

HoldsListing(r, i) ==
  req[r].item = i /\ pc[r] \in {"lockStats", "lockEarned", "buy"}

HoldsStats(r, s) ==
  req[r].student = s /\ pc[r] \in {"lockEarned", "buy"}

(* Mutant: a request that only waits for the row already keeps others out. *)
WaitsForEarned(r, s, i) ==
  req[r] = [student |-> s, item |-> i] /\ pc[r] \in {"lockEarned", "lockUsed"}

HoldsEarned(r, s, i) ==
  /\ req[r] = [student |-> s, item |-> i]
  /\ pc[r] = "use" \/ (pc[r] = "buy" /\ seen[r].owned > 0)

(* Mutant: the listing is read without its lock.                           *)
ListingUnlocked(r) == r \in Requests

(* Mutant: the statistics are read without their lock.                     *)
StatsUnlocked(r) == r \in Requests

(* Mutant: the inventory row is read without its lock.                     *)
EarnedUnlocked(r) == r \in Requests

ListingFree(r) == \A q \in Requests \ {r} : ~HoldsListing(q, req[r].item)
StatsFree(r)   == \A q \in Requests \ {r} : ~HoldsStats(q, req[r].student)
EarnedFree(r) ==
  \A q \in Requests \ {r} : ~HoldsEarned(q, req[r].student, req[r].item)

(* Committed quantity of the row a request is about.                       *)
OwnedBy(r) == owned[req[r].student][req[r].item]

Goto(r, from, to) == pc[r] = from /\ pc' = [pc EXCEPT ![r] = to]

(* The transaction ends: its locks and what it read are gone.              *)
End(r) ==
  /\ pc' = [pc EXCEPT ![r] = "idle"]
  /\ seen' = [seen EXCEPT ![r] = Nothing]
  /\ UNCHANGED <<shop, req>>

(* ROLLBACK: no row has changed.                                           *)
Rollback(r) == End(r) /\ UNCHANGED <<rows, backlog>>

-----------------------------------------------------------------------------
(* buyItem.                                                                *)

(* The group is read without a lock and must be open.                      *)
BuyStart(r, s, i) ==
  /\ shop.open
  /\ Goto(r, "idle", "lockListing")
  /\ req' = [req EXCEPT ![r] = [student |-> s, item |-> i]]
  /\ seen' = [seen EXCEPT ![r].sellsLives = shop.sellsLives]
  /\ UNCHANGED <<shop, rows, backlog>>

BuyLockListing(r) ==
  /\ Goto(r, "lockListing", "lockStats")
  /\ ListingFree(r)
  /\ seen' = [seen EXCEPT ![r].stock = stock[req[r].item]]
  /\ UNCHANGED <<shop, rows, backlog, req>>

(* Mutant: a life is sold although the student has the most lives.         *)
MayBuyAtCap(r, p) ==
  /\ p <= currency[req[r].student]
  /\ req[r].item \in ExtraLife => seen[r].sellsLives
  /\ InStock(seen[r].stock)

(* The conditions checked once listing and stats are locked, at price p.   *)
MayBuy(r, p) ==
  LET s == req[r].student  i == req[r].item IN
  /\ i \in ExtraLife => seen[r].sellsLives /\ Below(lives[s], LifeCap)
  /\ Purchasable(s, i)
  /\ p <= currency[s]
  /\ InStock(seen[r].stock)

BuyLockStats(r) ==
  /\ Goto(r, "lockStats", "lockEarned")
  /\ StatsFree(r)
  /\ \E p \in Prices[req[r].item] :
       /\ MayBuy(r, p)
       /\ seen' = [seen EXCEPT ![r].currency = currency[req[r].student],
                               ![r].lives = lives[req[r].student],
                               ![r].price = p]
  /\ UNCHANGED <<shop, rows, backlog, req>>

BuyRefused(r) ==
  /\ pc[r] = "lockStats" /\ StatsFree(r)
  /\ \E p \in Prices[req[r].item] : ~MayBuy(r, p)
  /\ Rollback(r)

(* The inventory row is locked when there is one; a missing row locks      *)
(* nothing.                                                                *)
UnderLimit(r) == req[r].item \in ExtraLife \/ Below(OwnedBy(r), Limit[req[r].item])

BuyLockEarned(r) ==
  /\ Goto(r, "lockEarned", "buy")
  /\ OwnedBy(r) > 0 => EarnedFree(r)
  /\ UnderLimit(r)
  /\ seen' = [seen EXCEPT ![r].owned = OwnedBy(r)]
  /\ UNCHANGED <<shop, rows, backlog, req>>

BuyOverLimit(r) ==
  /\ pc[r] = "lockEarned"
  /\ OwnedBy(r) > 0 => EarnedFree(r)
  /\ ~UnderLimit(r)
  /\ Rollback(r)

(* The writes, from the columns read, and COMMIT.  Inserting a second row  *)
(* for the same student and item would violate the unique constraint.      *)
BuyCommit(r) ==
  LET s == req[r].student  i == req[r].item  p == seen[r].price IN
  /\ pc[r] = "buy" /\ End(r)
  /\ currency' = [currency EXCEPT ![s] = seen[r].currency - p]
  /\ stock' = [stock EXCEPT ![i] = Decremented(seen[r].stock)]
  /\ \/ /\ i \in ExtraLife
        /\ lives' = [lives EXCEPT ![s] = OneMoreLife(seen[r].lives)]
        /\ UNCHANGED owned
     \/ /\ i \notin ExtraLife
        /\ seen[r].owned = 0 => owned[s][i] = 0
        /\ owned' = [owned EXCEPT ![s][i] = seen[r].owned + 1]
        /\ UNCHANGED lives
  /\ sold' = [sold EXCEPT ![i] = @ + 1]
  /\ bought' = [bought EXCEPT ![s][i] = @ + 1]
  /\ spent' = [spent EXCEPT ![s] = @ + p]
  /\ UNCHANGED used

-----------------------------------------------------------------------------
(* useItem.                                                                *)

UseStart(r, s, i) ==
  /\ Goto(r, "idle", "lockUsed")
  /\ req' = [req EXCEPT ![r] = [student |-> s, item |-> i]]
  /\ UNCHANGED <<shop, rows, backlog, seen>>

UseLockEarned(r) ==
  /\ Goto(r, "lockUsed", "use")
  /\ OwnedBy(r) > 0 /\ EarnedFree(r)
  /\ seen' = [seen EXCEPT ![r].owned = OwnedBy(r)]
  /\ UNCHANGED <<shop, rows, backlog, req>>

UseRefused(r) == pc[r] = "lockUsed" /\ OwnedBy(r) = 0 /\ Rollback(r)

(* The row is saved with one unit less, or removed when none is left.      *)
UseCommit(r) ==
  LET s == req[r].student  i == req[r].item IN
  /\ pc[r] = "use" /\ End(r)
  /\ owned' = [owned EXCEPT ![s][i] = seen[r].owned - 1]
  /\ used' = [used EXCEPT ![s][i] = @ + 1]
  /\ UNCHANGED <<currency, lives, stock, sold, bought, spent>>

-----------------------------------------------------------------------------
(* What a student, and a lecturer about a student, sees: the quantities    *)
(* owned, and the purchases and uses in the backlog.                       *)
Inventory(s) ==
  [i \in {j \in Items : owned[s][j] > 0} |-> owned[s][i]]

InventoryHistory(s) ==
  [i \in Items |-> [purchases |-> bought[s][i], uses |-> used[s][i]]]

-----------------------------------------------------------------------------
(* A statement fails, the pool times out or the server stops.              *)
Fail(r) == pc[r] # "idle" /\ Rollback(r)

(* The lecturer opens or closes the shop or the sale of lives.             *)
SetShop ==
  /\ \E new \in Shops \ {shop} : shop' = new
  /\ UNCHANGED <<rows, backlog, pc, req, seen>>

(* What a running request does next when nothing fails.                    *)
Continue(r) ==
  \/ BuyLockListing(r) \/ BuyLockStats(r) \/ BuyRefused(r)
  \/ BuyLockEarned(r) \/ BuyOverLimit(r) \/ BuyCommit(r)
  \/ UseLockEarned(r) \/ UseRefused(r) \/ UseCommit(r)

Start(r) ==
  \E s \in Students, i \in Items : BuyStart(r, s, i) \/ UseStart(r, s, i)

Step(r) == Start(r) \/ Continue(r) \/ Fail(r)

Next == SetShop \/ \E r \in Requests : Step(r)

Spec == Init /\ [][Next]_vars

(* A waiter for a row lock is queued, so it is served if the lock is free  *)
(* again and again.                                                        *)
FairSpec == Spec /\ \A r \in Requests : SF_vars(Continue(r))
-----------------------------------------------------------------------------

TypeOK ==
  /\ shop \in Shops
  /\ currency \in [Students -> Nat]
  /\ lives \in [Students -> Nat]
  /\ stock \in [Items -> Nat \cup {Unlimited}]
  /\ owned \in [Students -> [Items -> Nat]]
  /\ sold \in [Items -> Nat]
  /\ bought \in [Students -> [Items -> Nat]]
  /\ spent \in [Students -> Nat]
  /\ used \in [Students -> [Items -> Nat]]
  /\ pc \in [Requests -> Steps]
  /\ req \in [Requests -> Targets]
  /\ seen \in [Requests -> Reads]

(* No row is locked by two requests.                                       *)
LocksExclusive ==
  \A q, r \in Requests : q # r =>
    /\ \A i \in Items : ~(HoldsListing(q, i) /\ HoldsListing(r, i))
    /\ \A s \in Students : ~(HoldsStats(q, s) /\ HoldsStats(r, s))
    /\ \A s \in Students, i \in Items :
         ~(HoldsEarned(q, s, i) /\ HoldsEarned(r, s, i))

(* What a request read under its locks, or checked from it, still holds of *)
(* the committed rows when it is about to write them.                      *)
CurrentListing(r) ==
  pc[r] \in {"lockStats", "lockEarned", "buy"} => seen[r].stock = stock[req[r].item]

CurrentStats(r) ==
  LET s == req[r].student  i == req[r].item IN
  pc[r] \in {"lockEarned", "buy"} =>
    /\ seen[r].currency = currency[s] /\ seen[r].lives = lives[s]
    /\ seen[r].price \in Prices[i] /\ seen[r].price <= currency[s]
    /\ InStock(stock[i]) /\ Purchasable(s, i)
    /\ i \in ExtraLife => Below(lives[s], LifeCap)

CurrentEarned(r) ==
  /\ pc[r] \in {"buy", "use"} => seen[r].owned = OwnedBy(r)
  /\ pc[r] = "buy" => UnderLimit(r)
  /\ pc[r] = "use" => OwnedBy(r) > 0

SnapshotsCurrent ==
  \A r \in Requests : CurrentListing(r) /\ CurrentStats(r) /\ CurrentEarned(r)

(* No unit is sold twice and none is lost: what is in stock and what the   *)
(* backlog says was sold always add up to the first stock.                 *)
StockConserved ==
  \A i \in Items :
    IF StartStock[i] = Unlimited
    THEN stock[i] = Unlimited
    ELSE stock[i] # Unlimited /\ stock[i] + sold[i] = StartStock[i]

(* No purchase is free and none is charged twice: balance and recorded     *)
(* expenses add up.                                                        *)
BalanceConserved ==
  \A s \in Students : currency[s] + spent[s] = StartCurrency[s]

(* The history explains the inventory: every unit bought is shown in it or *)
(* was used, exactly once, and an extra life is never shown.               *)
InventoryExplained ==
  \A s \in Students : LET inventory == Inventory(s) IN
    \A i \in Items : LET h == InventoryHistory(s)[i] IN
      IF i \in DOMAIN inventory
      THEN i \notin ExtraLife /\ inventory[i] + h.uses = h.purchases
      ELSE i \in ExtraLife \/ h.uses = h.purchases

(* A student never owns more units of an item than its limit.              *)
LimitRespected ==
  \A s \in Students, i \in Items :
    Limit[i] # Unlimited => owned[s][i] <= Limit[i]

(* Concurrent requests look like indivisible purchases and uses.           *)
ImplementsLedger == Ledger!Spec

(* No request waits for ever: the row locks are never taken in a circle    *)
(* and every end of a request gives them back.                             *)
RequestsEnd == \A r \in Requests : pc[r] # "idle" ~> pc[r] = "idle"
=============================================================================
