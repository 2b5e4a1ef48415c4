--------------------------- MODULE MCStudentStats ---------------------------
(* Calls and values for StudentStats.                                      *)
EXTENDS StudentStats, TLC

CONSTANTS s1, s2, quiz, medal, i1, i2, i3, i4, novice, master

(* Two ranks: the first for everybody, the second from 2 points on.        *)
MCRequired == (novice :> 0) @@ (master :> 2)

Toggle(a, s) == [op |-> "toggle", award |-> a, students |-> {s}]
Complete(a, S) == [op |-> "complete", award |-> a, students |-> S]
Bulk(S, currency, total, rank, auto) ==
  [op |-> "bulk", students |-> S, currency |-> currency, total |-> total,
   rank |-> rank, auto |-> auto]
Lives(S, delta, most) ==
  [op |-> "lives", students |-> S, delta |-> delta, most |-> most]
Purchase(s, price, life) ==
  [op |-> "buy", student |-> s, price |-> price, life |-> life]

(* Everything a lecturer and a student can do to one row.                  *)
OneRowCalls ==
  {Toggle(quiz, s1), Toggle(medal, s1), Complete(quiz, {s1}),
   Bulk({s1}, 1, Keep, Keep, Keep), Bulk({s1}, Keep, Keep, master, Keep),
   Lives({s1}, 1, 4), Lives({s1}, -1, Unlimited), Purchase(s1, 1, TRUE)}

(* Calls that overlap: rows of two students are locked in either order,    *)
(* a purchase comes in between.                                             *)
OverlapCalls ==
  {Complete(quiz, {s1, s2}), Complete(quiz, {}), Lives({s1, s2}, 1, 3),
   Purchase(s1, 1, FALSE)}
=============================================================================
