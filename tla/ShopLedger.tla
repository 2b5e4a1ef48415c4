----------------------------- MODULE ShopLedger -----------------------------
(***************************************************************************)
(* What the shop promises: a purchase and a use of an item are single      *)
(* indivisible steps on the balance, the lives, the stock and the          *)
(* inventory, each taken only while its conditions hold.  Module Shop      *)
(* implements it with row locks and database transactions.                 *)
(***************************************************************************)
EXTENDS ShopData

VARIABLES currency, lives, stock, owned

ledgerVars == <<currency, lives, stock, owned>>

Init ==
  /\ currency = StartCurrency
  /\ lives = StartLives
  /\ stock = StartStock
  /\ owned = [s \in Students |-> [i \in Items |-> 0]]

(* Student s pays p for one unit of the ordinary item i.                   *)
PurchaseItem(s, i, p) ==
  /\ i \notin ExtraLife
  /\ p \in Prices[i] /\ p <= currency[s]
  /\ InStock(stock[i])
  /\ Below(owned[s][i], Limit[i])
  /\ Purchasable(s, i)
  /\ currency' = [currency EXCEPT ![s] = @ - p]
  /\ stock' = [stock EXCEPT ![i] = Decremented(@)]
  /\ owned' = [owned EXCEPT ![s][i] = @ + 1]
  /\ UNCHANGED lives

(* Student s pays p for one more life.                                     *)
PurchaseLife(s, i, p) ==
  /\ i \in ExtraLife
  /\ p \in Prices[i] /\ p <= currency[s]
  /\ InStock(stock[i])
  /\ Below(lives[s], LifeCap)
  /\ currency' = [currency EXCEPT ![s] = @ - p]
  /\ stock' = [stock EXCEPT ![i] = Decremented(@)]
  /\ lives' = [lives EXCEPT ![s] = @ + 1]
  /\ UNCHANGED owned

(* Student s uses up one unit of item i.                                   *)
Use(s, i) ==
  /\ owned[s][i] > 0
  /\ owned' = [owned EXCEPT ![s][i] = @ - 1]
  /\ UNCHANGED <<currency, lives, stock>>

Next ==
  \E s \in Students, i \in Items :
    \/ \E p \in Prices[i] : PurchaseItem(s, i, p) \/ PurchaseLife(s, i, p)
    \/ Use(s, i)

Spec == Init /\ [][Next]_ledgerVars
=============================================================================
