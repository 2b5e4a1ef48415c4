----------------------------- MODULE MCLogStore -----------------------------
(* Two whole months of two days and a third that has begun; three days are  *)
(* kept, so that a zip holds both expired and retained days.                *)
EXTENDS LogStore
MCMonthOf == [d \in Days |-> d \div 2]
=============================================================================
