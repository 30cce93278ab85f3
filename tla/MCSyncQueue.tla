----------------------------- MODULE MCSyncQueue -----------------------------
(* The queue alone, for TLC.  Players and workers are interchangeable in    *)
(* every definition of SyncQueue.                                           *)
EXTENDS SyncQueue, TLC

Symmetry == Permutations(Players) \cup Permutations(Workers)
=============================================================================
