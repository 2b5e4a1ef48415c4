--------------------------- MODULE MCShopOpening ---------------------------
(* Two groups whose shops open at the same or at different times, two runs  *)
(* of the job, one lecturer's call at a time.                               *)
EXTENDS ShopOpening
=============================================================================
