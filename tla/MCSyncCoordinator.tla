------------------------- MODULE MCSyncCoordinator -------------------------
(* SyncCoordinator for TLC: two tasks with a worker each, or one with two. *)
EXTENDS SyncCoordinator, TLC

CONSTANTS t1, t2, w1, w2

OneEach == (t1 :> {w1}) @@ (t2 :> {w2})
Alone == t1 :> {w1, w2}

\* Two tasks may be exchanged together with their crews.
Exchange == (t1 :> t2) @@ (t2 :> t1) @@ (w1 :> w2) @@ (w2 :> w1)
Symmetry == {Exchange}
Pool == Permutations(Players) \cup Permutations({w1, w2})
=============================================================================
