----------------------------- MODULE MCAccounts -----------------------------
(* One person, spelled in two ways, has the bootstrap address.             *)
EXTENDS Accounts, TLC
CONSTANTS lower, upper
MCFold == lower :> lower @@ upper :> lower
MCSymmetry == Permutations(UserIds \ Editors) \cup Permutations(AccountIds) \cup Permutations(Requests)
=============================================================================
