-------------------------------- MODULE MCGraph --------------------------------
(* Three services a < b < c, listed in the configuration as b, c, a.        *)
EXTENDS ServiceGraph

MCConfig == <<2, 3, 1>>
MCDepLists == {q \in UNION {[1..k -> 0..3] : k \in 0..2} :
                  Len(q) = 2 => q[1] <= q[2] /\ q[1] # 0}
================================================================================
