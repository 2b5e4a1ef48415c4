------------------------- MODULE DiscountCalculator -------------------------
(***************************************************************************)
(* DiscountCalculator: the price a student pays, from the listing, the     *)
(* badges the student has earned and the ranks its points are enough for.  *)
(* A discount is a percentage or a fixed amount; badges add up, of the     *)
(* ranks only the one that saves the most counts.                          *)
(***************************************************************************)
EXTENDS Integers, SequencesExt

CONSTANT
  FloatShort  \* <<b, p>>: Math.floor(b * (1 - p / 100)) is one too low

(* The pairs are what IEEE 754 doubles do to b * (1 - p / 100): the error  *)
(* is far below a hundredth, so that only an exact price can fall short.   *)
ASSUME DiscountAssumption ==
  /\ FloatShort \subseteq (Nat \ {0}) \X (1..99)
  /\ \A q \in FloatShort : (q[1] * (100 - q[2])) % 100 = 0

(* A value below 0 takes nothing off, as 0 does.                           *)
Discounts == [type : {"percent", "fixed"}, value : Nat]

(* Math.floor(base * (1 - percent / 100)).                                 *)
Reduced(base, percent) ==
  ((base * (100 - percent)) \div 100)
    - (IF <<base, percent>> \in FloatShort THEN 1 ELSE 0)

Percent(d) == IF d.type = "percent" THEN d.value ELSE 0
Fixed(d)   == IF d.type = "fixed" THEN d.value ELSE 0

(* SHOP_PROMOTION_PERCENT_MAX.                                             *)
Capped(percent) == IF percent > 100 THEN 100 ELSE percent

AtLeast(n, m) == IF n < m THEN m ELSE n

(* What the discount of one rank saves.                                    *)
Saving(base, d) == base - AtLeast(Reduced(base, Percent(d)) - Fixed(d), 0)

(* Mutant: the first eligible rank counts, not the best.                   *)
FirstRank(base, ranks) ==
  IF \E i \in DOMAIN ranks : Saving(base, ranks[i]) > 0
  THEN CHOOSE i \in DOMAIN ranks :
         Saving(base, ranks[i]) > 0 /\ \A j \in DOMAIN ranks : j >= i
  ELSE 0

(* The place of the first rank that saves the most, or 0 if none saves.    *)
BestRank(base, ranks) ==
  LET Best(i) ==
        /\ Saving(base, ranks[i]) > 0
        /\ \A j \in DOMAIN ranks :
             IF j < i THEN Saving(base, ranks[j]) < Saving(base, ranks[i])
                      ELSE Saving(base, ranks[j]) <= Saving(base, ranks[i])
  IN IF \E i \in DOMAIN ranks : Best(i)
     THEN CHOOSE i \in DOMAIN ranks : Best(i) ELSE 0

(* What the badges add up to, and what the rank that counts contributes.   *)
BadgePercent(badges) == SumFunction([b \in DOMAIN badges |-> Percent(badges[b])])
BadgeFixed(badges)   == SumFunction([b \in DOMAIN badges |-> Fixed(badges[b])])
RankPercent(ranks, best) == IF best = 0 THEN 0 ELSE Percent(ranks[best])
RankFixed(ranks, best)   == IF best = 0 THEN 0 ELSE Fixed(ranks[best])

(* The price once all discounts are added up.                              *)
Discounted(base, minPrice, percent, fixed) ==
  AtLeast(Reduced(base, percent) - fixed, minPrice)

(* Mutant: the badges' discounts count instead of the rank's.              *)
BadgesInstead(base, minPrice, badges, ranks) ==
  LET best == IF DOMAIN badges = {} THEN BestRank(base, ranks) ELSE 0
  IN Discounted(base, minPrice,
                Capped(Capped(BadgePercent(badges)) + RankPercent(ranks, best)),
                BadgeFixed(badges) + RankFixed(ranks, best))

(* finalPrice: badges is a function from the earned badges to their        *)
(* discounts, ranks one from the places of the eligible ranks to theirs.   *)
FinalPrice(base, minPrice, badges, ranks) ==
  LET best == BestRank(base, ranks)
  IN Discounted(base, minPrice,
                Capped(Capped(BadgePercent(badges)) + RankPercent(ranks, best)),
                BadgeFixed(badges) + RankFixed(ranks, best))

(* rankDiscountedPrice: the price the rank alone would give.               *)
RankPrice(base, minPrice, ranks) ==
  LET best == BestRank(base, ranks) IN
  Discounted(base, minPrice, RankPercent(ranks, best),
             RankFixed(ranks, best))
=============================================================================
