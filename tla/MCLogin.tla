------------------------------- MODULE MCLogin -------------------------------
(* The bootstrap address, which is a student of one university as well.    *)
EXTENDS Login, TLC
CONSTANTS root, uni, student, super
MCRank == super :> 1 @@ student :> 2
MCSymmetry == Permutations(Tokens) \cup Permutations(Requests)
MCMember == root :> {<<uni, student>>}
=============================================================================
