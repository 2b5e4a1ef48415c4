SPECIFICATION PricingSpec
CONSTANTS
  Badges <- MCBadges
  Ranks <- MCRanks
  Listings <- MCListings
  BadgeOffers <- MCBadgeOffers
  RankOffers <- MCRankOffers
  Promos <- MCPromos
  FloatShort <- MCFloatShort
  NoPromo = NoPromo
  MaxPoints = 2
INVARIANTS BadgeNeverHurts BestRankAlone
