---------------------------- MODULE MCWarehouse ----------------------------
(* Warehouse for TLC: the requests that people and the scheduler make, all *)
(* or a few of them.                                                       *)
EXTENDS Warehouse

Usual == {<<"full", 0>>, <<"catalog", 1>>, <<"fixtures", 1>>, <<"fixtures", 2>>, <<"player-history", 2>>}
Few == {<<"full", 0>>, <<"catalog", 0>>, <<"fixtures", 1>>}
=============================================================================
