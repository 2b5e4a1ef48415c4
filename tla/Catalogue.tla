------------------------------ MODULE Catalogue ------------------------------
(***************************************************************************)
(* What a lecturer sells in a group: items with their categories and       *)
(* listings.  An item names its first category in its own row and all of   *)
(* them in a table of links; an update reads item and listing first, and   *)
(* then rewrites links, item and listing in a transaction, while students  *)
(* buy and other edits go on.                                              *)
(***************************************************************************)
EXTENDS Integers, FiniteSets

CONSTANTS
  Items, ExtraLife,   \* item ids; the built-in item
  Cats,               \* category ids
  Stocks,             \* quantities a lecturer sets, or Unlimited
  Edits,              \* the calls the server handles at the same time
  Unlimited, Keep,    \* a listing without a stock; a field that is not sent
  Unborn, Gone, NoCat, NoListing, NoEdit

(* What stands for no row, no value or no call is none of the others.      *)
ASSUME CatalogueAssumption ==
  /\ ExtraLife \in Items /\ Stocks \subseteq Nat \cup {Unlimited}
  /\ Unlimited \notin Nat /\ Keep \notin Nat \cup {Unlimited} /\ \A cs \in SUBSET Cats : cs # Keep
  /\ NoListing \notin Nat \cup {Unlimited}
  /\ NoCat \notin Cats /\ {Unborn, Gone} \cap (Cats \cup {NoCat, "is"}) = {}
  /\ NoEdit \notin [step : {"unlink", "link", "save"}, item : Items,
                    first : Cats \cup {NoCat}, cats : SUBSET Cats \cup {Keep},
                    gone : SUBSET Cats, keeps : BOOLEAN, old : BOOLEAN,
                    stock : Nat \cup {Unlimited, NoListing}]

VARIABLES
  cat,      \* cat[c]: "is" if the category exists, Unborn or Gone
  first,    \* first[i]: category_id of the item, or Unborn, or Gone
  links,    \* links[i]: the categories in item_category_links
  stock,    \* stock[i]: stock_quantity of the listing, or NoListing
  held,     \* items some student owns
  edit,     \* edit[r]: what call r is doing, or NoEdit
  mixed     \* items saved from a copy another change had overtaken

catalogueVars == <<cat, first, links, stock, held, edit, mixed>>

Existing == {c \in Cats : cat[c] = "is"}
IsItem(i) == first[i] \notin {Unborn, Gone}

Step(r, s) == edit[r] # NoEdit /\ edit[r].step = s
Goto(r, c) == edit' = [edit EXCEPT ![r] = c]
End(r) == Goto(r, NoEdit)

(* ensureDefaultExtraLifeItem, in the transaction that makes the group.    *)
CatalogueInit ==
  /\ cat = [c \in Cats |-> Unborn]
  /\ first = [i \in Items |-> IF i = ExtraLife THEN NoCat ELSE Unborn]
  /\ links = [i \in Items |-> {}]
  /\ stock = [i \in Items |-> IF i = ExtraLife THEN Unlimited ELSE NoListing]
  /\ held = {} /\ mixed = {}
  /\ edit = [r \in Edits |-> NoEdit]

(* The calls that hold a copy of i are overtaken.                          *)
Overtake(i, c) ==
  [q \in Edits |-> IF c[q] # NoEdit /\ c[q].step # "category" /\ c[q].item = i
                      THEN [c[q] EXCEPT !.old = TRUE] ELSE c[q]]

-----------------------------------------------------------------------------
(* createItem: one transaction, that must find every category of the       *)
(* group; nobody sees the item before.                                     *)
CreateItem(r) ==
  /\ edit[r] = NoEdit
  /\ \E i \in Items, cs \in SUBSET Existing, n \in Stocks :
       \E c \in IF cs = {} THEN {NoCat} ELSE cs :
         /\ first[i] = Unborn
         /\ first' = [first EXCEPT ![i] = c] /\ links' = [links EXCEPT ![i] = cs]
         /\ stock' = [stock EXCEPT ![i] = n]
  /\ UNCHANGED <<cat, held, edit, mixed>>

(* createItemFromTemplate: one category at most.                           *)
CreateItemFromTemplate(r) ==
  /\ edit[r] = NoEdit
  /\ \E i \in Items, c \in Existing \cup {NoCat}, n \in Stocks :
       /\ first[i] = Unborn
       /\ first' = [first EXCEPT ![i] = c] /\ links' = [links EXCEPT ![i] = {c} \ {NoCat}]
       /\ stock' = [stock EXCEPT ![i] = n]
  /\ UNCHANGED <<cat, held, edit, mixed>>

(* Mutant: an update changes the links only.                               *)
OldFirst(i, cs) == {first[i]}

FirstOf(i, cs) ==
  IF cs = Keep THEN {first[i]} ELSE IF cs = {} THEN {NoCat} ELSE cs

(* updateItem reads item and listing; cs are the new categories, n the new *)
(* stock, saves tells whether the listing will be written at all.          *)
UpdateItem(r, i, cs, n, saves) ==
  /\ edit[r] = NoEdit /\ IsItem(i)
  /\ cs # Keep => cs \subseteq Existing
  /\ (n # Keep => saves) /\ (saves => stock[i] # NoListing)
  /\ \E c \in FirstOf(i, cs) :
       Goto(r, [step |-> IF cs = Keep THEN "save" ELSE "unlink", item |-> i, first |-> c,
                cats |-> cs, gone |-> {}, keeps |-> n = Keep, old |-> FALSE,
                stock |-> IF ~saves THEN NoListing ELSE IF n = Keep THEN stock[i] ELSE n])
  /\ UNCHANGED <<cat, first, links, stock, held, mixed>>

Others(r, i) == {q \in Edits \ {r} : edit[q] # NoEdit /\ edit[q].step \in {"link", "save"}
                                         /\ edit[q].item = i /\ edit[q].cats # Keep}

(* syncItemCategoryLinks deletes the links it sees; it waits for another   *)
(* transaction that has deleted one of them ...                            *)
Unlink(r) ==
  LET i == edit[r].item IN
  /\ Step(r, "unlink")
  /\ \A q \in Others(r, i) : edit[q].gone \cap links[i] = {}
  /\ Goto(r, [edit[r] EXCEPT !.step = "link", !.gone = links[i]])
  /\ UNCHANGED <<cat, first, links, stock, held, mixed>>

(* ... and inserts the new ones, if category, item and key allow it.       *)
Link(r) ==
  LET c == edit[r] IN
  /\ Step(r, "link")
  /\ \A q \in Others(r, c.item) : Step(q, "save") => edit[q].cats \cap c.cats = {}
  /\ c.cats \subseteq Existing /\ (c.cats # {} => IsItem(c.item))
  /\ c.cats \cap (links[c.item] \ c.gone) = {}
  /\ Goto(r, [c EXCEPT !.step = "save"])
  /\ UNCHANGED <<cat, first, links, stock, held, mixed>>

Relinked(r) == (links[edit[r].item] \ edit[r].gone) \cup edit[r].cats

(* Mutant: a stock that is not sent is taken as unlimited.                 *)
SentStock(r) == IF edit[r].keeps THEN Unlimited ELSE edit[r].stock

SavedStock(r) == edit[r].stock

(* Item and listing are saved as they were read, with the changes: every   *)
(* column that differs is written, a row that is gone is inserted again.   *)
Save(r) ==
  LET c == edit[r] IN
  /\ Step(r, "save") /\ c.first \in Existing \cup {NoCat}
  /\ first' = [first EXCEPT ![c.item] = c.first]
  /\ links' = IF c.cats = Keep THEN links ELSE [links EXCEPT ![c.item] = Relinked(r)]
  /\ stock' = IF c.stock # NoListing THEN [stock EXCEPT ![c.item] = SavedStock(r)] ELSE stock
  /\ mixed' = IF c.old THEN mixed \cup {c.item} ELSE mixed
  /\ edit' = Overtake(c.item, [edit EXCEPT ![r] = NoEdit])
  /\ UNCHANGED <<cat, held>>

(* A statement fails or a key refuses it: the transaction is rolled back.  *)
EditFails(r) == edit[r] # NoEdit /\ End(r) /\ UNCHANGED <<cat, first, links, stock, held, mixed>>

Deletable(i) == i # ExtraLife

(* deleteItem: refused by the foreign key while a student owns the item,   *)
(* delayed by a transaction that links it.                                 *)
DeleteItem(r, i) ==
  /\ edit[r] = NoEdit /\ IsItem(i) /\ Deletable(i) /\ i \notin held
  /\ \A q \in Others(r, i) : Step(q, "save") => edit[q].cats = {}
  /\ first' = [first EXCEPT ![i] = Gone] /\ links' = [links EXCEPT ![i] = {}]
  /\ stock' = [stock EXCEPT ![i] = NoListing]
  /\ edit' = Overtake(i, edit)
  /\ UNCHANGED <<cat, held, mixed>>

-----------------------------------------------------------------------------
CreateCategory(r, c) ==
  /\ edit[r] = NoEdit /\ cat[c] = Unborn
  /\ cat' = [cat EXCEPT ![c] = "is"]
  /\ UNCHANGED <<first, links, stock, held, edit, mixed>>

(* updateCategory saves a copy it has read, too.                           *)
UpdateCategory(r, c) ==
  \/ /\ edit[r] = NoEdit /\ cat[c] = "is"
     /\ Goto(r, [step |-> "category", cat |-> c])
     /\ UNCHANGED <<cat, first, links, stock, held, mixed>>
  \/ /\ Step(r, "category") /\ edit[r].cat = c
     /\ cat' = [cat EXCEPT ![c] = "is"] /\ End(r)
     /\ UNCHANGED <<first, links, stock, held, mixed>>

Unnamed(c) == [i \in Items |-> IF first[i] = c THEN NoCat ELSE first[i]]

(* deleteCategory: the links go with it, the items' rows lose the name.    *)
DeleteCategory(r, c) ==
  LET touched == {i \in Items : first[i] = c \/ c \in links[i]} IN
  /\ edit[r] = NoEdit /\ cat[c] = "is"
  /\ \A q \in Edits : Step(q, "save") /\ edit[q].cats # Keep => c \notin edit[q].cats
  /\ cat' = [cat EXCEPT ![c] = Gone]
  /\ links' = [i \in Items |-> links[i] \ {c}]
  /\ first' = Unnamed(c)
  /\ edit' = [q \in Edits |-> IF edit[q] # NoEdit /\ edit[q].step # "category"
                                    /\ edit[q].item \in touched
                                 THEN [edit[q] EXCEPT !.old = TRUE] ELSE edit[q]]
  /\ UNCHANGED <<stock, held, mixed>>

(* buyItem, under the lock of the listing.                                 *)
Buy(i) ==
  /\ IsItem(i) /\ stock[i] \notin {NoListing, 0}
  /\ stock' = [stock EXCEPT ![i] = IF @ = Unlimited THEN @ ELSE @ - 1]
  /\ held' = held \cup {i}
  /\ edit' = Overtake(i, edit)
  /\ UNCHANGED <<cat, first, links, mixed>>

-----------------------------------------------------------------------------
(* What the shop page shows: the linked categories of an item, or the one  *)
(* in its row when it has no links, and its listing if there is one.       *)
CategoryIds(i) == IF links[i] # {} THEN links[i] ELSE {first[i]} \ {NoCat}

ItemsForGroup ==
  {[item |-> i, categories |-> CategoryIds(i), stock |-> stock[i]] :
     i \in {j \in Items : IsItem(j)}}

-----------------------------------------------------------------------------
CatalogueNext ==
  \/ \E r \in Edits :
       \/ CreateItem(r) \/ CreateItemFromTemplate(r)
       \/ \E i \in Items, cs \in SUBSET Cats \cup {Keep},
            n \in Stocks \cup {Keep}, saves \in BOOLEAN :
            UpdateItem(r, i, cs, n, saves)
       \/ Unlink(r) \/ Link(r) \/ Save(r) \/ EditFails(r)
       \/ \E i \in Items : DeleteItem(r, i)
       \/ \E c \in Cats : CreateCategory(r, c) \/ UpdateCategory(r, c) \/ DeleteCategory(r, c)
  \/ \E i \in Items : Buy(i)

CatalogueSpec == CatalogueInit /\ [][CatalogueNext]_catalogueVars

-----------------------------------------------------------------------------
(* Whatever edits of items and categories overlap, the page shows only     *)
(* categories that exist, and the extra life on sale; and an item has its  *)
(* listing and the category of its row is linked, until a copy that        *)
(* another change had overtaken is saved, which may revive a deleted item  *)
(* without links or listing.                                               *)
PageSound ==
  /\ \E shown \in ItemsForGroup : shown.item = ExtraLife /\ shown.stock # NoListing
  /\ \A shown \in ItemsForGroup :
       /\ shown.categories \subseteq Existing
       /\ shown.item \notin mixed =>
            /\ shown.stock # NoListing
            /\ first[shown.item] \in links[shown.item] \cup {NoCat}

(* A stock changes by a purchase or by an update that sends one; an update *)
(* of something else undoes a purchase only if its copy was overtaken.     *)
StockUntouched ==
  [][\A r \in Edits : Step(r, "save") /\ edit[r].keeps /\ ~edit[r].old /\ edit'[r] = NoEdit
       => stock' = stock]_catalogueVars
=============================================================================
