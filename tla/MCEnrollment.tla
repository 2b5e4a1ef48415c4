---------------------------- MODULE MCEnrollment ----------------------------
(* One code that two students, or one student twice, use at the same time, *)
(* while the lecturer limits or closes it.                                 *)
EXTENDS Enrollment, TLC
MCLimits == {1, Unlimited}
MCUpdates == {[maxUses |-> Keep, expires |-> Keep, active |-> FALSE],
              [maxUses |-> 1, expires |-> Keep, active |-> Keep]}
MCSymmetry == Permutations(Students) \cup Permutations(Requests)
=============================================================================
