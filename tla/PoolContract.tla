---------------------------- MODULE PoolContract ----------------------------
(***************************************************************************)
(* What the worker pool promises its callers, with nothing of how it does   *)
(* it: a published task is accepted or refused, an accepted one runs once,  *)
(* and stopping completes only when no accepted task is left and none can   *)
(* be accepted any more.                                                    *)
(***************************************************************************)
CONSTANT Calls

VARIABLES
    status,     \* of each task: "new", "accepted", "refused", "done"
    phase       \* of the pool: "running", "draining", "stopped"

vars == <<status, phase>>

Init == status = [c \in Calls |-> "new"] /\ phase = "running"

Become(c, from, to) ==
    /\ status[c] = from
    /\ status' = [status EXCEPT ![c] = to]
    /\ UNCHANGED phase

Accept(c) == phase # "stopped" /\ Become(c, "new", "accepted")
Refuse(c) == Become(c, "new", "refused")
Run(c)    == Become(c, "accepted", "done")

BeginStop == phase = "running" /\ phase' = "draining" /\ UNCHANGED status

FinishStop ==
    /\ phase = "draining"
    /\ \A c \in Calls : status[c] # "accepted"
    /\ phase' = "stopped"
    /\ UNCHANGED status

Next == (\E c \in Calls : Accept(c) \/ Refuse(c) \/ Run(c)) \/ BeginStop \/ FinishStop

Spec == Init /\ [][Next]_vars
=============================================================================
