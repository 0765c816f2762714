-------------------------------- MODULE MCLogs --------------------------------
(* A service and microinit itself; one client reads all lines, two read the *)
(* service's.                                                               *)
EXTENDS LogHub, TLC

CONSTANTS w1, w2, a, init, r1, r2, r3

MCServiceOf == (w1 :> a) @@ (w2 :> init)
MCWants == (r1 :> {a, init}) @@ (r2 :> {a}) @@ (r3 :> {a})
MCMaxLines == (w1 :> 2) @@ (w2 :> 1)
MCSymmetry == Permutations({r2, r3})
===============================================================================
