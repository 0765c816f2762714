------------------------------- MODULE MCChain -------------------------------
(* The daemon web, with startCmd and stopCmd only, waits for the job        *)
(* migrate; an operator may restart it.                                     *)
EXTENDS Supervisor, TLC

CONSTANTS migrate, web

Daemon == [enabled |-> TRUE, daemon |-> TRUE, policy |-> "onError",
           startWait |-> TRUE, dependsOn |-> {migrate}, cmd |-> FALSE,
           startCmd |-> TRUE, stopCmd |-> FALSE, restartCmd |-> FALSE,
           threshold |-> 0]
Job == [Daemon EXCEPT !.daemon = FALSE, !.policy = "none", !.dependsOn = {}]

MCCfg == (migrate :> Job) @@ (web :> [Daemon EXCEPT !.stopCmd = TRUE])
TwoDaemons == (migrate :> [Daemon EXCEPT !.dependsOn = {}]) @@ (web :> Daemon)
MCAsks == {<<web, "Restart">>}
MCBootOrder == <<migrate, web>>
MCStopOrder == <<web, migrate>>
==============================================================================
