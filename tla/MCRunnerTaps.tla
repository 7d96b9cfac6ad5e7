----------------------------- MODULE MCRunnerTaps -----------------------------
(* Runner with the time since the last poll that a tap asked for.           *)
EXTENDS MCRunner

VARIABLE sinceRequested   \* ticks since then, counted up to the interval

TapsInit == RunnerInit /\ sinceRequested = Interval

Requested(s) == repoll[s] /\ ~repoll'[s]

TapsNext ==
    /\ RunnerNext
    /\ sinceRequested' =
          [s \in Enabled |->
              IF Requested(s) THEN 0
              ELSE IF left' # left /\ pc' = pc /\ sinceRequested[s] < Interval[s]
                   THEN sinceRequested[s] + 1
              ELSE sinceRequested[s]]

TapsSpec == TapsInit /\ [][TapsNext]_<<runnerVars, sinceRequested>>

(* runner.go's comment on the repoll case, and the architecture document:  *)
(* a burst of taps cannot bunch polls closer than the configured interval. *)
(* Two polls that taps asked for are at least an interval apart.           *)
BurstCannotBunchPolls ==
    [][\A s \in Enabled : Requested(s) => sinceRequested[s] >= Interval[s]]_<<runnerVars, sinceRequested>>
===============================================================================
