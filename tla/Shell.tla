--------------------------------- MODULE Shell ---------------------------------
(***************************************************************************)
(* The kiosk shell, shell/app: an activity that loads the panel into a     *)
(* WebView, watches the agent's /health, and covers the web layer with a   *)
(* native fallback while either says the panel is not to be trusted.       *)
(* Everything here runs on the main thread, one callback at a time; what   *)
(* interleaves is the order of the callbacks: loads that finish, fail or   *)
(* are abandoned, probes answered after a pause, timers, the user.         *)
(*                                                                         *)
(* The WebView, Android and adb are external.  Delays are left out, so is  *)
(* which side a protocol mismatch blames.                                  *)
(***************************************************************************)
EXTENDS Naturals, Sequences

CONSTANTS
    DownAfter,      \* failed probes that make DOWN_AFTER_MS
    MaxProbes,      \* bound: probes whose answer is still to be recorded
    MaxFinishes     \* bound: onPageFinished calls still to come, of failed or abandoned loads

ASSUME BoundsAssumption ==
    DownAfter \in Nat \ {0} /\ MaxProbes \in Nat \ {0} /\ MaxFinishes \in Nat \ {0}

VARIABLES
    agent,          \* whether the agent can be reached, and speaks our protocol
    file,           \* provision.json: a payload, or "none"
    foreground,     \* between onResume and onPause
    shell,          \* the activity, its watcher and its WebView
    probes,         \* answers on their way to record()
    outage          \* history: down was reported and no probe has answered since

vars == <<agent, file, foreground, shell, probes, outage>>

\* What the settings hold: nothing, or an address with a token the agent accepts or refuses.
Configs == {"none", "good", "rejected"}
Answers == {"ok", "other", "failure"}

TypeOK ==
    /\ agent \in [up : BOOLEAN, same : BOOLEAN]
    /\ file \in Configs \cup {"junk"}
    /\ foreground \in BOOLEAN
    /\ shell \in [config : Configs, fallback : BOOLEAN, retry : BOOLEAN, pageFailed : BOOLEAN,
                  mismatch : BOOLEAN, wifi : BOOLEAN, loading : BOOLEAN, finishes : 0..MaxFinishes,
                  page : {"none", "panel", "error"}, running : BOOLEAN, fails : 0..DownAfter,
                  down : BOOLEAN]
    /\ probes \in UNION {[1..n -> Answers] : n \in 0..MaxProbes}
    /\ outage \in BOOLEAN

-------------------------------------------------------------------------------
(* The methods, as functions of the shell's state: they call each other.   *)

(* AgentWatcher.start: reportedDown survives a stop and start.             *)
Start(s) == IF s.running THEN s ELSE [s EXCEPT !.running = TRUE, !.fails = 0]

Stop(s) == [s EXCEPT !.running = FALSE]

ShowFallback(s) == [s EXCEPT !.fallback = TRUE, !.retry = TRUE]

AnotherFinish(n) == IF n < MaxFinishes THEN n + 1 ELSE n

(* WebView.loadUrl: a load still hanging is abandoned, and its             *)
(* onPageFinished is still to come.                                        *)
LoadUrl(s) ==
    [s EXCEPT !.loading = TRUE, !.page = "none",
              !.finishes = IF s.loading THEN AnotherFinish(@) ELSE @]

(* Mutant: the last load's failure is held against the next.               *)
LoadPanelStillFailed(s) ==
    IF s.config = "none" THEN ShowFallback(s) ELSE Start(LoadUrl(s))

LoadPanel(s) ==
    IF s.config = "none" THEN ShowFallback(s)
    ELSE Start(LoadUrl([s EXCEPT !.pageFailed = FALSE]))

HideFallbackAndReload(s) == LoadPanel([s EXCEPT !.fallback = FALSE])

(* Mutant: what the WebView says last is believed.                         *)
FinishedPageClearsFallbackAlways(s) == ~s.down /\ ~s.mismatch

FinishedPageClearsFallback(s) == ~s.pageFailed /\ ~s.down /\ ~s.mismatch

OnPageFinished(s) ==
    IF FinishedPageClearsFallback(s) THEN [s EXCEPT !.fallback = FALSE] ELSE s

CheckProtocol(s, mismatch) ==
    LET t == [s EXCEPT !.mismatch = mismatch]
        changed == mismatch # s.mismatch
    IN  CASE mismatch /\ (changed \/ ~s.fallback) -> ShowFallback(t)
          [] ~mismatch /\ changed                 -> HideFallbackAndReload(t)
          [] OTHER                                -> t

(* A success: up first, if it had been down, then the protocol.            *)
RecordSuccess(s, mismatch) ==
    LET up == IF s.down THEN HideFallbackAndReload(s) ELSE s
    IN  CheckProtocol([up EXCEPT !.fails = 0, !.down = FALSE], mismatch)

(* Mutant: every failure restarts the thirty seconds.                      *)
RecordFailureAnew(s) ==
    IF DownAfter = 1 THEN ShowFallback([s EXCEPT !.fails = 1, !.down = TRUE])
    ELSE [s EXCEPT !.fails = 1]

RecordFailure(s) ==
    LET fails == IF s.fails < DownAfter THEN s.fails + 1 ELSE s.fails
        t == [s EXCEPT !.fails = fails]
    IN  IF ~s.down /\ fails = DownAfter THEN ShowFallback([t EXCEPT !.down = TRUE]) ELSE t

(* onCreate, before onResume.                                              *)
Created(config) ==
    LET s == [config |-> config, fallback |-> FALSE, retry |-> FALSE, pageFailed |-> FALSE,
              mismatch |-> FALSE, wifi |-> FALSE, loading |-> FALSE, finishes |-> 0,
              page |-> "none", running |-> FALSE, fails |-> 0, down |-> FALSE]
    IN  LoadPanel(s)

Init ==
    /\ agent \in [up : BOOLEAN, same : BOOLEAN]
    /\ file = "none" /\ foreground = FALSE
    /\ \E config \in Configs : shell = Created(config)
    /\ probes = <<>> /\ outage = FALSE

-------------------------------------------------------------------------------
(* The WebView.                                                            *)
Serves == agent.up /\ shell.config = "good"

LoadSucceeds ==
    /\ shell.loading /\ Serves
    /\ shell' = OnPageFinished([shell EXCEPT !.loading = FALSE, !.page = "panel"])
    /\ UNCHANGED <<agent, file, foreground, probes, outage>>

(* onReceivedError or onReceivedHttpError; onPageFinished follows.         *)
LoadFails ==
    /\ shell.loading
    /\ shell' = ShowFallback([shell EXCEPT !.loading = FALSE, !.page = "error",
                                           !.pageFailed = TRUE, !.finishes = AnotherFinish(@)])
    /\ UNCHANGED <<agent, file, foreground, probes, outage>>

LateFinish ==
    /\ shell.finishes > 0
    /\ shell' = OnPageFinished([shell EXCEPT !.finishes = @ - 1])
    /\ UNCHANGED <<agent, file, foreground, probes, outage>>

(* The retry's timer fires, paused or not.                                 *)
RetryFires ==
    /\ shell.retry
    /\ LET s == [shell EXCEPT !.retry = FALSE]
       IN  shell' = IF s.fallback /\ s.config # "none"
                    THEN [LoadPanel(s) EXCEPT !.retry = TRUE] ELSE s
    /\ UNCHANGED <<agent, file, foreground, probes, outage>>

-------------------------------------------------------------------------------
(* AgentWatcher: the poll asks on its own thread ...                       *)
Check ==
    /\ shell.running /\ shell.config # "none" /\ Len(probes) < MaxProbes
    /\ probes' = Append(probes, IF ~agent.up THEN "failure" ELSE IF agent.same THEN "ok" ELSE "other")
    /\ UNCHANGED <<agent, file, foreground, shell, outage>>

(* ... and the answer is recorded on this one, if the watcher runs by then.*)
Record ==
    /\ probes # <<>> /\ probes' = Tail(probes)
    /\ shell' = IF ~shell.running THEN shell
                ELSE IF Head(probes) = "failure" THEN RecordFailure(shell)
                ELSE RecordSuccess(shell, Head(probes) = "other")
    /\ outage' = IF ~shell.running THEN outage
                 ELSE IF Head(probes) = "failure" THEN outage \/ shell'.down ELSE FALSE
    /\ UNCHANGED <<agent, file, foreground>>

-------------------------------------------------------------------------------
(* Mutant: a payload that was rejected is stored all the same.             *)
ProvisionUnchecked(s, saved) == IF file = "none" \/ ~saved THEN s ELSE [s EXCEPT !.config = file]

(* applyProvisioning: the file is read and deleted; a valid one is stored  *)
(* in one commit.  Either may fail.                                        *)
Provision(s, saved) == IF file \in {"none", "junk"} \/ ~saved THEN s ELSE [s EXCEPT !.config = file]

Consume(deleted) == file' = IF deleted THEN "none" ELSE file

OnResume(saved) ==
    LET s == Provision(shell, saved)
        t == [(IF s.config # "none" THEN Start(s) ELSE s) EXCEPT !.wifi = FALSE]
        provisioned == file \notin {"none", "junk"} /\ saved
    IN  IF provisioned THEN HideFallbackAndReload(t)
        ELSE IF s.wifi /\ s.config # "none" /\ s.fallback THEN LoadPanel(t) ELSE t

Resume ==
    /\ ~foreground /\ foreground' = TRUE
    /\ \E saved, deleted \in BOOLEAN : shell' = OnResume(saved) /\ Consume(deleted)
    /\ UNCHANGED <<agent, probes, outage>>

(* onNewIntent, while in front: adb starts the activity again.             *)
NewIntent ==
    /\ foreground /\ file # "none"
    /\ \E saved, deleted \in BOOLEAN :
          /\ shell' = IF file # "junk" /\ saved THEN HideFallbackAndReload(Provision(shell, saved))
                      ELSE shell
          /\ Consume(deleted)
    /\ UNCHANGED <<agent, foreground, probes, outage>>

Pause ==
    /\ foreground /\ foreground' = FALSE
    /\ shell' = Stop(shell)
    /\ UNCHANGED <<agent, file, probes, outage>>

OpenWifiSettings ==
    /\ foreground /\ foreground' = FALSE
    /\ shell' = Stop([shell EXCEPT !.wifi = TRUE])
    /\ UNCHANGED <<agent, file, probes, outage>>

BackPressed ==
    /\ foreground /\ shell.fallback /\ shell.config # "none"
    /\ shell' = HideFallbackAndReload(shell)
    /\ UNCHANGED <<agent, file, foreground, probes, outage>>

SaveSettings ==
    /\ foreground
    /\ \E config \in Configs \ {shell.config} :
          shell' = HideFallbackAndReload([shell EXCEPT !.config = config])
    /\ UNCHANGED <<agent, file, foreground, probes, outage>>

(* The system kills the process in the background and starts it again.     *)
Recreate ==
    /\ ~foreground
    /\ shell' = Created(shell.config) /\ probes' = <<>> /\ outage' = FALSE
    /\ UNCHANGED <<agent, file, foreground>>

PushFile ==
    /\ file = "none" /\ file' \in {"junk", "good", "rejected"}
    /\ UNCHANGED <<agent, foreground, shell, probes, outage>>

AgentChanges ==
    /\ \/ agent' = [agent EXCEPT !.up = ~@]
       \/ agent' = [agent EXCEPT !.same = ~@]
    /\ UNCHANGED <<file, foreground, shell, probes, outage>>

Next ==
    \/ LoadSucceeds \/ LoadFails \/ LateFinish \/ RetryFires \/ Check \/ Record
    \/ Resume \/ NewIntent \/ Pause \/ OpenWifiSettings \/ BackPressed \/ SaveSettings \/ Recreate
    \/ PushFile \/ AgentChanges

(* The main thread's callbacks and timers run, probes are answered, a      *)
(* reachable agent does not fail every load, and a load no retry abandons  *)
(* ends.                                                                   *)
Fairness ==
    /\ SF_vars(LoadSucceeds) /\ WF_vars(~shell.fallback /\ LoadFails)
    /\ WF_vars(LateFinish) /\ WF_vars(RetryFires) /\ WF_vars(Check) /\ WF_vars(Record)

Spec == Init /\ [][Next]_vars /\ Fairness

-------------------------------------------------------------------------------
(* What is not covered by the fallback is the panel, or a load that may    *)
(* yet become it: nobody is left with a black or an error page, although   *)
(* onPageFinished is also called for failed and for abandoned loads.       *)
NeverBlank == ~shell.fallback => shell.page = "panel" \/ shell.loading

(* With the agent reachable, its protocol ours, its token accepted and the *)
(* shell in front, the panel comes back by itself and stays.               *)
PanelComesBack ==
    <>[](agent.up /\ agent.same /\ foreground /\ shell.config = "good" /\ file = "none")
        => <>[](~shell.fallback /\ shell.page = "panel")

(* An agent that stays away is found out, whatever pauses restart the      *)
(* count, and the screen never stays black: the error is up again and      *)
(* again, or a page that loaded since the outage was reported.             *)
OutageIsReported ==
    <>[](~agent.up /\ foreground /\ shell.config # "none")
        => <>[]outage /\ []<>(shell.fallback \/ shell.page = "panel")

(* docs/architecture.md, Failure behaviour: an agent "unreachable 30s+,    *)
(* shows a native fallback".                                               *)
OutageShows ==
    <>[](~agent.up /\ foreground /\ shell.config # "none") => []<>shell.fallback
===============================================================================
