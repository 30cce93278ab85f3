----------------------------- MODULE MCLiveFacts -----------------------------
(* LiveFacts for TLC: a tick is a third of the cadence of the three        *)
(* policies that are enabled.                                              *)
EXTENDS LiveFacts

Cadence == [p \in Policies |-> IF p \in {"finalization", "live", "catalog"} THEN 3 ELSE 0]
=============================================================================
