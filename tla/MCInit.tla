-------------------------------- MODULE MCInit --------------------------------
(* Process 1, init with a required and with an optional early boot, init    *)
(* without one, and supervise as process 1 of a container.                  *)
EXTENDS InitSequence

MCLaunches ==
    {o \in Options : \/ o.pid1
                     \/ o.require /\ o.cli
                     \/ ~o.require /\ ~o.skip /\ ~o.cli
                     \/ o.skip /\ o.machine /\ ~o.cli}
===============================================================================
