------------------------------ MODULE SleepWindow ------------------------------
(***************************************************************************)
(* The clock source's sleep window, agent/internal/sources/clock/clock.go: *)
(* two times of day between which the panel is dark.                       *)
(***************************************************************************)
EXTENDS Integers

(* Mutant: an empty window is taken for the whole day.                     *)
SleepingOnEmpty(start, end, mins) ==
    IF start < end THEN mins >= start /\ mins < end ELSE mins >= start \/ mins < end

(* Source.sleeping.  No window configured is a window with no times in it. *)
Sleeping(start, end, mins) ==
    /\ start # end
    /\ IF start < end THEN mins >= start /\ mins < end
       ELSE mins >= start \/ mins < end         \* crosses midnight

(* What it means on a day of so many minutes (1440): counting on from the  *)
(* start, round midnight if need be, the time comes before the end does.   *)
InWindow(day, start, end, mins) ==
    \E k \in 0..(((end - start) % day) - 1) : mins = (start + k) % day
===============================================================================
