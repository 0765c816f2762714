------------------------------- MODULE MCReload -------------------------------
(* A service and one that depends on it, listed in that order.              *)
EXTENDS Reload, TLC

CONSTANTS db, web

MCDeps == (db :> {}) @@ (web :> {db})
MCOrder == <<db, web>>
MCMonitors == 1..4
MCSymmetry == Permutations(Clients)
===============================================================================
