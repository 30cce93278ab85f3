----------------------------- MODULE MCManagerSync -----------------------------
(* ManagerSync for TLC: a league whose first member is the user's own entry. *)
EXTENDS ManagerSync

CONSTANTS rival

League == <<Own, rival>>
BothScopes == {"entry", "league"}
=============================================================================
