---------------------------- MODULE ProcessContract ----------------------------
(****************************************************************************)
(* What the supervisor promises of the processes of a service, whatever     *)
(* probes, scripts, timers and requests do: it answers for one at a time,   *)
(* each one reaped before the next is spawned, none after a Stop until a    *)
(* later order says otherwise, and none once supervision has ended.         *)
(*                                                                          *)
(* The promise has one way out: a process that was sent SIGKILL may be      *)
(* given up without having been reaped.  From then on the books are loose:  *)
(* its exit comes when nobody waits, and a process that is later given the  *)
(* same pid is blind, as that exit may be taken for its own.                *)
(****************************************************************************)
CONSTANT Services

VARIABLES
    life,   \* of each service: idle, up, doomed (sent SIGKILL), blind,
            \* exited (not reaped yet), retired
    order,  \* the last order taken: "stop", or "go" for any other
    loose   \* some process was given up

vars == <<life, order, loose>>

Init ==
    /\ life = [s \in Services |-> "idle"]
    /\ order = [s \in Services |-> "go"]
    /\ loose = FALSE

Move(s, from, to) ==
    /\ life[s] = from
    /\ life' = [life EXCEPT ![s] = to]
    /\ UNCHANGED order

Spawn(s) ==
    /\ order[s] = "go"
    /\ Move(s, "idle", "up") \/ (loose /\ Move(s, "idle", "blind"))
    /\ UNCHANGED loose

Kill(s) == Move(s, "up", "doomed") /\ UNCHANGED loose
Exit(s) ==
    /\ \E from \in {"up", "doomed", "blind"} : Move(s, from, "exited")
    /\ UNCHANGED loose
Reap(s) == Move(s, "exited", "idle") /\ UNCHANGED loose
GiveUp(s) == Move(s, "doomed", "idle") /\ loose' = TRUE
Misread(s) == Move(s, "blind", "idle") /\ UNCHANGED loose
Retire(s) == Move(s, "idle", "retired") /\ UNCHANGED loose

TakeOrder(s) ==
    /\ life[s] # "retired"
    /\ \E o \in {"stop", "go"} : order' = [order EXCEPT ![s] = o]
    /\ UNCHANGED <<life, loose>>

Next ==
    \E s \in Services :
        \/ Spawn(s) \/ Kill(s) \/ Exit(s) \/ Reap(s) \/ GiveUp(s) \/ Misread(s)
        \/ Retire(s) \/ TakeOrder(s)

Spec == Init /\ [][Next]_vars
================================================================================
