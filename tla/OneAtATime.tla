------------------------------- MODULE OneAtATime -------------------------------
(***************************************************************************)
(* What agent/internal/app promises of its sessions: at any time at most   *)
(* one of them polls the sources, another takes its place only once it has *)
(* stopped, and an agent that has ended its last session never starts one  *)
(* again.                                                                  *)
(***************************************************************************)
CONSTANT Sessions

VARIABLES
    polling,    \* the sessions whose sources run
    phase       \* "up", "changing" between two sessions, or "down"

Init == phase = "up" /\ \E n \in Sessions : polling = {n}

(* Nothing polls for a while, or for good.                                 *)
StopPolling ==
    /\ phase = "up" /\ phase' \in {"changing", "down"}
    /\ polling' = {}

Replace ==
    /\ phase = "changing" /\ phase' = "up"
    /\ polling = {} /\ \E n \in Sessions : polling' = {n}

GiveUp ==
    /\ phase = "changing" /\ phase' = "down"
    /\ polling = {} /\ UNCHANGED polling

Next == StopPolling \/ Replace \/ GiveUp

Spec == Init /\ [][Next]_<<polling, phase>>
===============================================================================
