-------------------------------- MODULE MCExits --------------------------------
(* Two threads, two reapers and orphans over two pids, so that numbers come  *)
(* back while the map still has their entries; one entry at most, so that   *)
(* the registry overflows.                                                  *)
EXTENDS ExitRegistry
================================================================================
