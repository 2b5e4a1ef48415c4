------------------------------- MODULE Pricing -------------------------------
(***************************************************************************)
(* The price of one listing for one student while the lecturer edits the   *)
(* listing, its promotions, the badges and the ranks, and the student      *)
(* earns and loses badges and points.  Every call here is one committed    *)
(* transaction: what overlapping calls do to the rows is the subject of    *)
(* Shop, StudentStats and Catalogue; this module is about the rules.       *)
(***************************************************************************)
EXTENDS DiscountCalculator

CONSTANTS
  Badges,       \* badges of the group
  Ranks,        \* ranks of the group
  Listings,     \* [base, minPrice] that the edit dialogue may send
  BadgeOffers,  \* discounts a badge may carry
  RankOffers,   \* discounts a rank may carry
  Promos,       \* promotions of the listing, NoPromo among them
  NoPromo,      \* the listing has no promotion for that badge or rank
  MaxPoints     \* bound on the points earned in total

ASSUME PricingAssumption ==
  /\ IsFiniteSet(Badges) /\ IsFiniteSet(Ranks)
  /\ Listings \subseteq [base : Nat, minPrice : Nat]
  /\ BadgeOffers \cup RankOffers \subseteq Discounts
  /\ NoPromo \notin Discounts
  /\ NoPromo \in Promos /\ Promos \ {NoPromo} \subseteq Discounts
  /\ MaxPoints \in Nat

VARIABLES
  listing,     \* shop_listings: base_price, min_price
  badgeRule,   \* badges.global_discount_*
  badgePromo,  \* shop_listing_badge_promotions
  rankRule,    \* ranks.global_discount_*
  rankPromo,   \* shop_listing_rank_promotions
  required,    \* ranks.required_points
  rows,        \* the order in which the database returns the ranks
  earned,      \* badges of the student
  points       \* student_stats.total_earned

rules == <<listing, badgeRule, badgePromo, rankRule, rankPromo, required, rows>>
priceVars == <<rules, earned, points>>

(* The orders in which a query without ORDER BY may return the ranks.      *)
RowOrders == SetToSeqs(Ranks)

(* createItem and updateItem refuse a minimum above the base price.        *)
Accepted(l) == l.minPrice <= l.base

(* A promotion of the listing replaces the discount of the badge or rank.  *)
Offer(promo, rule) == IF promo = NoPromo THEN rule ELSE promo

(* The rows of the ranks whose threshold the points reach.                 *)
Eligible(n) == {i \in DOMAIN rows : required[rows[i]] <= n}

RankOffersOf(places) ==
  [i \in places |-> Offer(rankPromo[rows[i]], rankRule[rows[i]])]
BadgeOffersOf(bs) == [b \in bs |-> Offer(badgePromo[b], badgeRule[b])]

(* calculateDiscountedPrice and rankDiscountedPrice of the listing for a   *)
(* student with badges bs and n points.                                    *)
Price(bs, n) ==
  FinalPrice(listing.base, listing.minPrice, BadgeOffersOf(bs),
             RankOffersOf(Eligible(n)))
PriceOfRanks(n) ==
  RankPrice(listing.base, listing.minPrice, RankOffersOf(Eligible(n)))

PricingInit ==
  /\ listing \in {l \in Listings : Accepted(l)}
  /\ badgeRule \in [Badges -> BadgeOffers]
  /\ badgePromo = [b \in Badges |-> NoPromo]
  /\ rankRule \in [Ranks -> RankOffers]
  /\ rankPromo = [k \in Ranks |-> NoPromo]
  /\ required \in [Ranks -> 0..MaxPoints]
  /\ rows \in RowOrders
  /\ earned = {} /\ points = 0

(* updateItem: prices and promotions of the listing.                       *)
EditListing ==
  \E l \in Listings :
    /\ Accepted(l)
    /\ listing' = l
    /\ UNCHANGED <<badgeRule, badgePromo, rankRule, rankPromo, required, rows,
                   earned, points>>

PromoteBadge ==
  \E b \in Badges, p \in Promos :
    /\ badgePromo' = [badgePromo EXCEPT ![b] = p]
    /\ UNCHANGED <<listing, badgeRule, rankRule, rankPromo, required, rows,
                   earned, points>>

PromoteRank ==
  \E k \in Ranks, p \in Promos :
    /\ rankPromo' = [rankPromo EXCEPT ![k] = p]
    /\ UNCHANGED <<listing, badgeRule, badgePromo, rankRule, required, rows,
                   earned, points>>

(* updateBadge.                                                            *)
UpdateBadge ==
  \E b \in Badges, d \in BadgeOffers :
    /\ badgeRule' = [badgeRule EXCEPT ![b] = d]
    /\ UNCHANGED <<listing, badgePromo, rankRule, rankPromo, required, rows,
                   earned, points>>

(* updateRank: PostgreSQL may return an updated row at another place.      *)
UpdateRank ==
  \E k \in Ranks, d \in RankOffers, n \in 0..MaxPoints :
    /\ rankRule' = [rankRule EXCEPT ![k] = d]
    /\ required' = [required EXCEPT ![k] = n]
    /\ rows' \in RowOrders
    /\ UNCHANGED <<listing, badgeRule, badgePromo, rankPromo, earned, points>>

(* toggleBadge.                                                            *)
ToggleBadge ==
  \E b \in Badges :
    /\ earned' = IF b \in earned THEN earned \ {b} ELSE earned \cup {b}
    /\ UNCHANGED <<rules, points>>

(* Rewards only add to the points, bulkUpdate sets them.                   *)
SetPoints ==
  /\ points' \in 0..MaxPoints
  /\ UNCHANGED <<rules, earned>>

PricingNext ==
  \/ EditListing \/ PromoteBadge \/ PromoteRank \/ UpdateBadge \/ UpdateRank
  \/ ToggleBadge \/ SetPoints

PricingSpec == PricingInit /\ [][PricingNext]_priceVars

-----------------------------------------------------------------------------
PricingTypeOK ==
  /\ listing \in Listings /\ listing.minPrice <= listing.base
  /\ badgeRule \in [Badges -> BadgeOffers] /\ badgePromo \in [Badges -> Promos]
  /\ rankRule \in [Ranks -> RankOffers] /\ rankPromo \in [Ranks -> Promos]
  /\ required \in [Ranks -> 0..MaxPoints] /\ rows \in RowOrders
  /\ earned \subseteq Badges /\ points \in 0..MaxPoints

(* Earning a badge, whatever it carries and whatever else the student has, *)
(* never makes the listing dearer: the cap at 100 percent and the flooring *)
(* of the price do not work against the student.                           *)
BadgeNeverHurts ==
  \A b \in Badges : Price(earned \cup {b}, points) <= Price(earned, points)

(* Of the eligible ranks a student without badges gets the one that gives  *)
(* the lowest price, whatever the order of the rows.  (With badges that is *)
(* not so: the rank is chosen before the badges' percentage is known.)     *)
BestRankAlone ==
  LET ks == RankOffersOf(Eligible(points))
      Alone(i) == FinalPrice(listing.base, listing.minPrice, BadgeOffersOf({}), <<ks[i]>>)
  IN \A i \in DOMAIN ks : Price({}, points) <= Alone(i)
=============================================================================
