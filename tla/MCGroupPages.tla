---------------------------- MODULE MCGroupPages ----------------------------
(* A lecturer and a student of one organization, a group of the lecturer   *)
(* with the student in it and one row of every kind, room for one more.    *)
EXTENDS GroupPages

CONSTANTS lec, stu, org, tea, mem, g1, g2, k1, k2, b1, b2, s1, s2, a1, a2, e1, e2, p1, p2, o1, o2, t1, t2

MCAccounts == {[user |-> lec, org |-> org, role |-> "lecturer", id |-> tea],
               [user |-> stu, org |-> org, role |-> "student", id |-> mem]}
MCCallers == {[user |-> lec, org |-> org], [user |-> stu, org |-> org]}
MCOrders == {<<s1>>, <<s2, s1>>}

One(ids, x, row) == [y \in ids |-> IF y = x THEN row ELSE NoRow]

(* What g1 looked like when a template was made of it.                     *)
Taken == [lives |-> 3, starting |-> 1, raced |-> FALSE, ranks |-> k1 :> 1, badges |-> {b1},
          offers |-> o1 :> [ranks |-> {k1}, badges |-> {b1}], posts |-> {p1},
          orders |-> s1 :> 0, acts |-> a1 :> [stage |-> s1, shown |-> TRUE]]

(* The student has not joined yet, has joined, or has earned the badge and *)
(* done the activity, and is in a second group as well.                    *)
StartWith(joined, earns) ==
  [groups |-> [g \in Groups |-> IF g = g1 \/ earns THEN [teacher |-> tea, lives |-> 3, starting |-> 1]
                                ELSE NoRow],
   stats |-> [g \in Groups |-> [s \in Students |->
                IF ~earns /\ (~joined \/ g # g1) THEN NoRow ELSE
                [lives |-> 3, points |-> IF earns /\ g = g1 THEN 1 ELSE 0, coins |-> 0,
                 rank |-> IF earns /\ g = g1 THEN k1 ELSE NoRow, auto |-> TRUE]]],
   ranks |-> One(RankIds, k1, [group |-> g1, required |-> 1]),
   badges |-> One(BadgeIds, b1, [group |-> g1, published |-> TRUE]),
   earned |-> [e \in EarnedIds |-> IF earns /\ e = e1
                                   THEN [badge |-> b1, group |-> g1, student |-> mem] ELSE NoRow],
   stages |-> One(StageIds, s1, [group |-> g1, order |-> 0, shown |-> 1]),
   activities |-> IF joined THEN One(ActivityIds, a1, [stage |-> s1, shown |-> TRUE])
                  ELSE [a \in ActivityIds |-> NoRow],
   done |-> [a \in ActivityIds |-> IF earns /\ a = a1 THEN {<<g1, mem>>} ELSE {}],
   posts |-> One(PostIds, p1, [group |-> g1, shown |-> earns,
                               at |-> IF earns THEN "never" ELSE "later"]),
   told |-> [p \in PostIds |-> IF earns /\ p = p1 THEN "yes" ELSE "no"],
   offers |-> One(OfferIds, o1, [group |-> g1, ranks |-> {k1}, badges |-> {b1}]),
   templates |-> One(TemplateIds, t1, [creator |-> tea, public |-> earns, data |-> Taken])]

MCStarts == {StartWith(FALSE, FALSE), StartWith(TRUE, FALSE), StartWith(TRUE, TRUE)}

MCSymmetry == Permutations(Requests)
=============================================================================
