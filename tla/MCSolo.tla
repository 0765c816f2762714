-------------------------------- MODULE MCSolo --------------------------------
(* One daemon with stop and restart scripts and a liveness probe.           *)
EXTENDS Supervisor, TLC

CONSTANT sv

Scripted == [enabled |-> TRUE, daemon |-> TRUE, policy |-> "always",
                startWait |-> FALSE, dependsOn |-> {}, cmd |-> FALSE,
                startCmd |-> TRUE, stopCmd |-> TRUE, restartCmd |-> TRUE,
                threshold |-> 2]
MCCfg == sv :> Scripted
\* --force only skips the dependencies, and there are none.
MCAsks == {sv} \X {"Start", "Restart", "Stop", "disable", "enable"}
MCBootOrder == <<sv>>
MCStopOrder == <<sv>>
Symmetry == Permutations(Pids) \cup Permutations(Clients)
===============================================================================
