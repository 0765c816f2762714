-------------------------------- MODULE MCWatch --------------------------------
(* Two services; the first client watches both, the others only one.        *)
EXTENDS WatchHub, TLC

CONSTANTS w1, w2, w3, a, b

MCKeys == (w1 :> {a, b}) @@ (w2 :> {b}) @@ (w3 :> {b})
================================================================================
