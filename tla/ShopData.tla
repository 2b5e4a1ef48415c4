------------------------------ MODULE ShopData ------------------------------
(***************************************************************************)
(* The data the group shop works on: the students of one group, the items  *)
(* of its catalogue with their listing columns that no student changes,    *)
(* and the values the rows hold when the group starts.                     *)
(***************************************************************************)
EXTENDS Integers

CONSTANTS
  Students,      \* enrolled students (one enrollment and one stats row each)
  Items,         \* catalogue items, each with its shop listing
  ExtraLife,     \* the items whose isExtraLife flag is set
  Unlimited,     \* the SQL NULL of stock_quantity, per_student_limit, lives
  Prices,        \* Prices[i]: the prices DiscountCalculator can return for i
  Limit,         \* Limit[i]: per_student_limit, or Unlimited
  LockedFor,     \* <<s, i>>: s has no rank that unlocks the rank-bound item i
  LifeCap,       \* the group's maximal number of lives, or Unlimited
  StartCurrency, \* StartCurrency[s]: the balance s starts with
  StartLives,    \* StartLives[s]: the lives s starts with
  StartStock     \* StartStock[i]: the stock i starts with, or Unlimited

(* The types the entities and DTO validators give those columns.           *)
ASSUME ShopDataAssumption ==
  /\ Unlimited \notin Nat
  /\ ExtraLife \subseteq Items
  /\ Prices \in [Items -> SUBSET Nat]
  /\ Limit \in [Items -> Nat \cup {Unlimited}]
  /\ LockedFor \subseteq Students \X Items
  /\ LifeCap \in Nat \cup {Unlimited}
  /\ StartCurrency \in [Students -> Nat]
  /\ StartLives \in [Students -> Nat]
  /\ StartStock \in [Items -> Nat \cup {Unlimited}]

(* Mutant: a bound that is off by one.                                     *)
BelowInclusive(n, bound) == bound # Unlimited => n <= bound

(* A nullable bound that value n has not reached yet.                      *)
Below(n, bound) == bound # Unlimited => n < bound

(* stock_quantity is NULL (unlimited) or positive.                         *)
InStock(quantity) == quantity # Unlimited => quantity > 0

(* stock_quantity after one unit is sold.                                  *)
Decremented(quantity) == IF quantity = Unlimited THEN Unlimited
                                                 ELSE quantity - 1

(* lives after an extra life is bought: capped only when a cap is set.     *)
OneMoreLife(n) == IF LifeCap # Unlimited /\ n + 1 > LifeCap THEN LifeCap
                                                            ELSE n + 1

(* isItemLocked is ignored for the extra-life item.                        *)
Purchasable(s, i) == i \in ExtraLife \/ <<s, i>> \notin LockedFor
=============================================================================
