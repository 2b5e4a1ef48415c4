----------------------------- MODULE MCSamlLogin -----------------------------
(* One organization, two keys, two administrators at once, one browser.    *)
EXTENDS SamlLogin, TLC

Symmetry == Permutations(Requests) \cup Permutations(Certs)
=============================================================================
