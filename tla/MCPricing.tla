------------------------------ MODULE MCPricing ------------------------------
(* Two badges and two ranks; discounts that add up beyond 100 percent, that  *)
(* tie after flooring, and base prices at which flooring loses one.          *)
EXTENDS Pricing

Pct(n) == [type |-> "percent", value |-> n]
Fix(n) == [type |-> "fixed", value |-> n]

MCListings == {[base |-> 10, minPrice |-> 0], [base |-> 25, minPrice |-> 2],
               [base |-> 2, minPrice |-> 3]}
MCBadgeOffers == {Pct(5), Pct(75)}
MCRankOffers  == {Pct(5), Fix(1)}
MCPromos      == {NoPromo, Pct(80)}
MCFloatShort  == {<<10, 80>>, <<10, 90>>, <<25, 56>>, <<25, 68>>, <<25, 80>>, <<25, 92>>}
MCBadges == {"diligent", "helper"}
MCRanks  == {"novice", "expert"}
=============================================================================
