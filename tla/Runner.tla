-------------------------------- MODULE Runner --------------------------------
(***************************************************************************)
(* The poll loop, agent/internal/sources/runner.go: one goroutine per      *)
(* enabled source that polls, records the outcome in the state store,      *)
(* waits out a backoff, and can be asked to poll at once.                  *)
(*                                                                         *)
(* Time is discrete.  A poll may take any time up to its deadline, and the *)
(* clock does not pass a deadline or an expired timer: a source returns    *)
(* when its context expires and the scheduler runs a woken goroutine       *)
(* within a tick.  The store is used without subscribers (Conns = {}).     *)
(***************************************************************************)
EXTENDS StateStore

CONSTANTS
    Interval,         \* Interval[s]: the configured period, in ticks
    MaxBackoff,       \* maxBackoff
    MinPollTimeout,   \* minPollTimeout
    FailureCap        \* bound: failures counted, past which the delay is flat

ASSUME IntervalAssumption == Interval \in [Enabled -> Nat \ {0}]
ASSUME MaxBackoffAssumption == MaxBackoff \in Nat \ {0}
ASSUME MinPollTimeoutAssumption == MinPollTimeout \in Nat \ {0}
ASSUME FailureCapAssumption == FailureCap \in Nat \ {0} /\ 2^FailureCap >= MaxBackoff
\* What the proofs use of ^, which the provers know of literals only.
ASSUME PowersAssumption == \A k \in 0..FailureCap : 2^k \in Nat /\ 2^(k + 1) = 2 * 2^k

VARIABLES
    pc,           \* pc[s]: where the loop of source s is
    failures,     \* failures[s]: consecutive failed polls, up to FailureCap
    left,         \* left[s]: ticks to the poll's deadline, or to the timer
    repoll,       \* repoll[s]: the one-place channel PollNow sends to
    cancelled,    \* the session's context
    unserved,     \* unserved[s]: a tap no poll has started since (history)
    age           \* age[s]: ticks since the last good poll began (history)

loopVars == <<pc, failures, left, repoll, cancelled>>
runnerVars == <<storeVars, loopVars, unserved, age>>

Larger(a, b) == IF a < b THEN b ELSE a
PollTimeout(s) == IF Interval[s] < MinPollTimeout THEN MinPollTimeout ELSE Interval[s]
AgeCap(s) == PollTimeout(s) + PollTimeout(s) + Interval[s] + 1

(* Mutant: no cap.                                                         *)
BackoffUncapped(interval, consecutiveFailures) == interval * 2^consecutiveFailures

(* backoffDelay: the doubling loop, stopped early at the cap.              *)
BackoffDelay(interval, consecutiveFailures) ==
    LET doubled[k \in 0..FailureCap] ==
            IF k = 0 THEN interval
            ELSE IF doubled[k - 1] * 2 >= MaxBackoff THEN MaxBackoff
            ELSE doubled[k - 1] * 2
    IN  IF consecutiveFailures = 0 THEN interval
        ELSE Larger(doubled[consecutiveFailures], interval)

RunnerTypeOK ==
    /\ StoreTypeOK
    /\ pc \in [Enabled -> {"polling", "waiting", "stopped"}]
    /\ failures \in [Enabled -> 0..FailureCap]
    /\ left \in [Enabled -> Nat]
    /\ repoll \in [Enabled -> BOOLEAN]
    /\ cancelled \in BOOLEAN
    /\ unserved \in [Enabled -> BOOLEAN]
    /\ age \in [Enabled -> Nat]

(* Start: every loop polls first.                                          *)
RunnerInit ==
    /\ StoreInit
    /\ pc = [s \in Enabled |-> "polling"]
    /\ failures = [s \in Enabled |-> 0]
    /\ left = [s \in Enabled |-> PollTimeout(s)]
    /\ repoll = [s \in Enabled |-> FALSE]
    /\ cancelled = FALSE
    /\ unserved = [s \in Enabled |-> FALSE]
    /\ age = [s \in Enabled |-> 0]

-------------------------------------------------------------------------------
(* pollOnce returns and the loop arms its timer.                           *)
Wait(s, consecutive) ==
    /\ pc' = [pc EXCEPT ![s] = "waiting"]
    /\ failures' = [failures EXCEPT ![s] = consecutive]
    /\ left' = [left EXCEPT ![s] = BackoffDelay(Interval[s], consecutive)]

(* How long ago the poll now ending began.                                 *)
Elapsed(s) == PollTimeout(s) - left[s]

PollOK(s) ==
    /\ pc[s] = "polling"
    /\ Update(s)
    /\ Wait(s, 0)
    /\ age' = [age EXCEPT ![s] = Elapsed(s)]
    /\ UNCHANGED <<repoll, cancelled, unserved>>

(* A partial result is stored, marks the source degraded and does not      *)
(* count toward the backoff.                                               *)
PollPartial(s) ==
    /\ pc[s] = "polling"
    /\ UpdatePartial(s, "reduced capability")
    /\ Wait(s, 0)
    /\ age' = [age EXCEPT ![s] = Elapsed(s)]
    /\ UNCHANGED <<repoll, cancelled, unserved>>

(* An error, an expired deadline, a panic, or a partial without a value.   *)
PollFails(s) ==
    /\ pc[s] = "polling"
    /\ Fail(s)
    /\ Wait(s, IF failures[s] < FailureCap THEN failures[s] + 1 ELSE FailureCap)
    /\ UNCHANGED <<repoll, cancelled, unserved, age>>

BeginPoll(s) ==
    /\ pc' = [pc EXCEPT ![s] = "polling"]
    /\ left' = [left EXCEPT ![s] = PollTimeout(s)]
    /\ unserved' = [unserved EXCEPT ![s] = FALSE]
    /\ UNCHANGED <<storeVars, failures, cancelled, age>>

(* The three cases of the select, any of which may win when several are    *)
(* ready.                                                                  *)
TakeRepoll(s) ==
    /\ pc[s] = "waiting" /\ repoll[s]
    /\ repoll' = [repoll EXCEPT ![s] = FALSE]
    /\ BeginPoll(s)

TimerFires(s) ==
    /\ pc[s] = "waiting" /\ left[s] = 0
    /\ BeginPoll(s)
    /\ UNCHANGED repoll

(* Mutant: the context is looked at only when the timer fires.             *)
StopLoopAtTimer(s) ==
    /\ pc[s] = "waiting" /\ cancelled /\ left[s] = 0
    /\ pc' = [pc EXCEPT ![s] = "stopped"]
    /\ UNCHANGED <<storeVars, failures, left, repoll, cancelled, unserved, age>>

StopLoop(s) ==
    /\ pc[s] = "waiting" /\ cancelled
    /\ pc' = [pc EXCEPT ![s] = "stopped"]
    /\ UNCHANGED <<storeVars, failures, left, repoll, cancelled, unserved, age>>

PollEnds(s) == PollOK(s) \/ PollPartial(s) \/ PollFails(s)

(* Mutant: the channel has no buffer, so a busy loop misses the request.   *)
PollNowUnbuffered(s) ==
    /\ repoll' = [repoll EXCEPT ![s] = pc[s] = "waiting"]
    /\ unserved' = [unserved EXCEPT ![s] = TRUE]
    /\ UNCHANGED <<storeVars, pc, failures, left, cancelled, age>>

(* A tap, or a finished sign-in, from any goroutine; the send is dropped   *)
(* when a request is already pending.                                      *)
PollNow(s) ==
    /\ repoll' = [repoll EXCEPT ![s] = TRUE]
    /\ unserved' = [unserved EXCEPT ![s] = TRUE]
    /\ UNCHANGED <<storeVars, pc, failures, left, cancelled, age>>

(* stopSession cancels the session's context.                              *)
CancelAll ==
    /\ ~cancelled
    /\ cancelled' = TRUE
    /\ UNCHANGED <<storeVars, pc, failures, left, repoll, unserved, age>>

Overdue(s) == pc[s] # "stopped" /\ left[s] = 0

Tick ==
    /\ \A s \in Enabled : ~Overdue(s)
    /\ left' = [s \in Enabled |-> IF pc[s] = "stopped" THEN left[s] ELSE left[s] - 1]
    /\ age' = [s \in Enabled |-> IF age[s] < AgeCap(s) THEN age[s] + 1 ELSE age[s]]
    /\ UNCHANGED <<storeVars, pc, failures, repoll, cancelled, unserved>>

RunnerNext ==
    \/ \E s \in Enabled : \/ PollOK(s) \/ PollPartial(s) \/ PollFails(s)
                          \/ TakeRepoll(s) \/ TimerFires(s) \/ StopLoop(s)
                          \/ PollNow(s)
    \/ CancelAll \/ Tick

(* Goroutines are scheduled and time passes.  select picks at random among *)
(* the ready cases, so none of them loses for ever: strong fairness.       *)
RunnerFairness ==
    /\ WF_runnerVars(Tick)
    /\ \A s \in Enabled : /\ WF_runnerVars(PollEnds(s))
                          /\ WF_runnerVars(TimerFires(s))
                          /\ SF_runnerVars(TakeRepoll(s))
                          /\ SF_runnerVars(StopLoop(s))

RunnerSpec == RunnerInit /\ [][RunnerNext]_runnerVars /\ RunnerFairness

-------------------------------------------------------------------------------
(* A tap that lands while a poll is in flight is answered by a poll that   *)
(* begins after it: until one begins, the request is still in the channel. *)
TapNotLost == \A s \in Enabled : unserved[s] => repoll[s]

(* The wait armed after a poll is the interval after a success and         *)
(* otherwise the interval doubled per failure, capped, never below the     *)
(* interval: the closed form of backoffDelay's loop.                       *)
WaitIsCappedDoubling ==
    [][\A s \in Enabled :
        (pc[s] = "polling" /\ pc'[s] = "waiting") =>
            left'[s] = LET wish == Interval[s] * 2^(failures'[s])
                           capped == IF wish < MaxBackoff THEN wish ELSE MaxBackoff
                       IN  IF failures'[s] = 0 THEN Interval[s]
                           ELSE Larger(Interval[s], capped)]_runnerVars

(* A source that reports ok is not showing an old reading: the poll behind *)
(* it began no longer ago than a poll, an interval and another poll take.  *)
OkIsRecent ==
    \A s \in Enabled :
        (entry[s].status = "ok" /\ ~cancelled) =>
            age[s] <= PollTimeout(s) + Interval[s] + PollTimeout(s)

(* Runner.Wait returns once the session's context is cancelled, taps       *)
(* arriving meanwhile or not.                                              *)
WaitReturns == cancelled ~> (\A s \in Enabled : pc[s] = "stopped")
===============================================================================
