---------------------------- MODULE MCSessions ----------------------------
(* Two addresses, two tabs of one browser or of two, a password the policy accepts and one it
   refuses; limits are scaled down to the few minutes of a run, with an idle
   time-out that ends before the absolute one. *)
EXTENDS Sessions, TLC

CONSTANTS u1, u2, b1, b2, t1, t2, good, weak
Addresses == {u1, u2}
Two == {b1, b2}
Both == {t1, t2}
Known == {good, weak}
Strong == {good}
Alike == Permutations(Two) \cup Permutations(Both)
=============================================================================
