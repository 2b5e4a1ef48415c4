----------------------------- MODULE MCCatalogue -----------------------------
(* The extra life, one more item, one category.                          *)
EXTENDS Catalogue, TLC
MCSymmetry == Permutations(Cats) \cup Permutations(Edits)
=============================================================================
