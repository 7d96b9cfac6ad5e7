------------------------------ MODULE ShellProofs ------------------------------
(***************************************************************************)
(* Proofs about Shell, for every threshold and every number of probes and  *)
(* late callbacks.  The methods call each other, so the argument goes      *)
(* method by method: each keeps a shell presentable.                       *)
(***************************************************************************)
EXTENDS Shell, SequenceTheorems, TLAPS

ShellRec ==
    [config : Configs, fallback : BOOLEAN, retry : BOOLEAN, pageFailed : BOOLEAN,
     mismatch : BOOLEAN, wifi : BOOLEAN, loading : BOOLEAN, finishes : 0..MaxFinishes,
     page : {"none", "panel", "error"}, running : BOOLEAN, fails : 0..DownAfter,
     down : BOOLEAN]

Coming(s) == s.page = "panel" \/ s.loading

(* An onPageFinished still to come can lift the fallback only off a page   *)
(* that is coming: the load it belongs to failed, or another took over.    *)
Presentable(s) ==
    /\ s \in ShellRec
    /\ ~s.fallback => Coming(s)
    /\ s.finishes > 0 /\ ~s.pageFailed => Coming(s)

(* Shell without a fallback until the panel is loaded again.               *)
Exposed(s) ==
    /\ s \in ShellRec
    /\ s.finishes > 0 /\ ~s.pageFailed => Coming(s)

-------------------------------------------------------------------------------
LEMMA Bounds == MaxFinishes \in Nat \ {0} /\ DownAfter \in Nat \ {0} /\ MaxProbes \in Nat \ {0}
  BY BoundsAssumption

LEMMA ShowFallbackKeeps ==
    ASSUME NEW s, Exposed(s)
    PROVE  Presentable(ShowFallback(s)) /\ ShowFallback(s).down = s.down
           /\ ShowFallback(s).mismatch = s.mismatch /\ ShowFallback(s).fallback = TRUE
  BY DEF Exposed, Presentable, ShowFallback, ShellRec, Coming

LEMMA StartRecord ==
    ASSUME NEW s \in ShellRec
    PROVE  /\ Start(s) \in ShellRec
           /\ Start(s).fallback = s.fallback /\ Start(s).pageFailed = s.pageFailed
           /\ Start(s).finishes = s.finishes /\ Start(s).page = s.page
           /\ Start(s).loading = s.loading /\ Start(s).config = s.config
<1>1. 0 \in 0..DownAfter
  BY Bounds
<1> DEFINE u == [s EXCEPT !.running = TRUE, !.fails = 0]
<1>2. u \in ShellRec
  BY <1>1 DEF ShellRec
<1>3. /\ u.fallback = s.fallback /\ u.pageFailed = s.pageFailed
      /\ u.finishes = s.finishes /\ u.page = s.page
      /\ u.loading = s.loading /\ u.config = s.config
  BY DEF ShellRec
<1>4. Start(s) = s \/ Start(s) = u
  BY DEF Start
<1> HIDE DEF u
<1> QED
  BY <1>2, <1>3, <1>4

LEMMA StartKeeps ==
    ASSUME NEW s, Presentable(s) PROVE Presentable(Start(s))
  BY StartRecord DEF Presentable, Coming

LEMMA StartExposed ==
    ASSUME NEW s, Exposed(s) PROVE Exposed(Start(s))
  BY StartRecord DEF Exposed, Coming

LEMMA LoadUrlKeeps ==
    ASSUME NEW s \in ShellRec PROVE Presentable(LoadUrl(s))
<1> DEFINE n == IF s.loading THEN AnotherFinish(s.finishes) ELSE s.finishes
           u == [s EXCEPT !.loading = TRUE, !.page = "none", !.finishes = n]
<1>1. s.finishes \in 0..MaxFinishes
  BY DEF ShellRec
<1>2. n \in 0..MaxFinishes
  BY <1>1, Bounds DEF AnotherFinish
<1>3. LoadUrl(s) = u
  BY DEF LoadUrl
<1> HIDE DEF n
<1>4. u \in ShellRec /\ u.loading = TRUE
  BY <1>2 DEF ShellRec
<1> HIDE DEF u
<1> QED
  BY <1>3, <1>4 DEF Presentable, Coming

LEMMA LoadPanelKeeps ==
    ASSUME NEW s, Exposed(s) PROVE Presentable(LoadPanel(s))
<1>1. CASE s.config = "none"
  BY <1>1, ShowFallbackKeeps DEF LoadPanel
<1>2. CASE s.config # "none"
  <2> DEFINE u == [s EXCEPT !.pageFailed = FALSE]
  <2>1. u \in ShellRec
    BY DEF Exposed, ShellRec
  <2>2. LoadPanel(s) = Start(LoadUrl(u))
    BY <1>2 DEF LoadPanel
  <2> HIDE DEF u
  <2> QED
    BY <2>1, <2>2, LoadUrlKeeps, StartKeeps
<1> QED
  BY <1>1, <1>2

LEMMA HideFallbackAndReloadKeeps ==
    ASSUME NEW s, Exposed(s) PROVE Presentable(HideFallbackAndReload(s))
<1> DEFINE u == [s EXCEPT !.fallback = FALSE]
<1>1. Exposed(u)
  BY DEF Exposed, ShellRec, Coming
<1>2. HideFallbackAndReload(s) = LoadPanel(u)
  BY DEF HideFallbackAndReload
<1> HIDE DEF u
<1> QED
  BY <1>1, <1>2, LoadPanelKeeps

LEMMA OnPageFinishedKeeps ==
    ASSUME NEW s, s \in ShellRec, ~s.pageFailed => Coming(s), ~s.fallback => Coming(s)
    PROVE  Presentable(OnPageFinished(s))
<1> DEFINE u == [s EXCEPT !.fallback = FALSE]
<1>1. u \in ShellRec /\ u.pageFailed = s.pageFailed /\ Coming(u) = Coming(s)
  BY DEF ShellRec, Coming
<1>2. OnPageFinished(s) = s \/ (~s.pageFailed /\ OnPageFinished(s) = u)
  BY DEF OnPageFinished, FinishedPageClearsFallback
<1> HIDE DEF u
<1> QED
  BY <1>1, <1>2 DEF Presentable

(* The watcher's calls.                                                    *)
LEMMA CheckProtocolKeeps ==
    ASSUME NEW s, Presentable(s), NEW mismatch \in BOOLEAN
    PROVE  Presentable(CheckProtocol(s, mismatch))
<1> DEFINE t == [s EXCEPT !.mismatch = mismatch]
<1>1. t \in ShellRec /\ Presentable(t) /\ Exposed(t)
  BY DEF Presentable, Exposed, ShellRec, Coming
<1>2. CheckProtocol(s, mismatch) \in {t, ShowFallback(t), HideFallbackAndReload(t)}
  BY DEF CheckProtocol
<1> HIDE DEF t
<1> QED
  BY <1>1, <1>2, ShowFallbackKeeps, HideFallbackAndReloadKeeps

LEMMA RecordSuccessKeeps ==
    ASSUME NEW s, Presentable(s), NEW mismatch \in BOOLEAN
    PROVE  Presentable(RecordSuccess(s, mismatch))
<1> DEFINE up == IF s.down THEN HideFallbackAndReload(s) ELSE s
           u == [up EXCEPT !.fails = 0, !.down = FALSE]
<1>1. Presentable(up)
  BY HideFallbackAndReloadKeeps DEF Presentable, Exposed
<1> HIDE DEF up
<1>2. 0 \in 0..DownAfter
  BY Bounds
<1>3. u \in ShellRec
  BY <1>1, <1>2 DEF Presentable, ShellRec
<1>4. /\ u.fallback = up.fallback /\ u.pageFailed = up.pageFailed
      /\ u.finishes = up.finishes /\ u.page = up.page /\ u.loading = up.loading
  BY <1>1 DEF Presentable, ShellRec
<1>5. RecordSuccess(s, mismatch) = CheckProtocol(u, mismatch)
  BY DEF RecordSuccess, up
<1> HIDE DEF u
<1>6. Presentable(u)
  BY <1>1, <1>3, <1>4 DEF Presentable, Coming
<1> QED
  BY <1>5, <1>6, CheckProtocolKeeps

LEMMA RecordFailureKeeps ==
    ASSUME NEW s, Presentable(s) PROVE Presentable(RecordFailure(s))
<1> DEFINE n == IF s.fails < DownAfter THEN s.fails + 1 ELSE s.fails
           t == [s EXCEPT !.fails = n]
           d == [t EXCEPT !.down = TRUE]
<1>1. n \in 0..DownAfter
  <2>1. s.fails \in 0..DownAfter
    BY DEF Presentable, ShellRec
  <2> QED
    BY <2>1, Bounds
<1>2. RecordFailure(s) \in {t, ShowFallback(d)}
  BY DEF RecordFailure
<1> HIDE DEF n
<1>3. t \in ShellRec /\ Presentable(t)
  BY <1>1 DEF Presentable, ShellRec, Coming
<1> HIDE DEF t
<1>4. Exposed(d)
  BY <1>3 DEF Presentable, Exposed, ShellRec, Coming
<1> HIDE DEF d
<1> QED
  BY <1>2, <1>3, <1>4, ShowFallbackKeeps

LEMMA CreatedPresentable ==
    ASSUME NEW config \in Configs PROVE Presentable(Created(config))
<1> DEFINE s == [config |-> config, fallback |-> FALSE, retry |-> FALSE, pageFailed |-> FALSE,
                 mismatch |-> FALSE, wifi |-> FALSE, loading |-> FALSE, finishes |-> 0,
                 page |-> "none", running |-> FALSE, fails |-> 0, down |-> FALSE]
<1>1. Exposed(s)
  BY Bounds DEF Exposed, ShellRec
<1>2. Created(config) = LoadPanel(s)
  BY DEF Created
<1> HIDE DEF s
<1> QED
  BY <1>1, <1>2, LoadPanelKeeps

-------------------------------------------------------------------------------
(* The invariant, and the actions one by one.                              *)
RestTypeOK ==
    /\ agent \in [up : BOOLEAN, same : BOOLEAN]
    /\ file \in Configs \cup {"junk"}
    /\ foreground \in BOOLEAN
    /\ probes \in Seq(Answers) /\ Len(probes) <= MaxProbes
    /\ outage \in BOOLEAN

ShellInv == RestTypeOK /\ Presentable(shell)

LEMMA ShellInit == Init => ShellInv
<1> SUFFICES ASSUME Init PROVE ShellInv
  OBVIOUS
<1>1. Presentable(shell)
  BY CreatedPresentable DEF Init
<1>2. probes \in Seq(Answers) /\ Len(probes) <= MaxProbes
  BY EmptySeq, Bounds DEF Init
<1> QED
  BY <1>1, <1>2 DEF Init, ShellInv, RestTypeOK, Configs

LEMMA PresentableIsExposed == ASSUME NEW s, Presentable(s) PROVE Exposed(s) /\ s \in ShellRec
  BY DEF Presentable, Exposed

LEMMA LoadSucceedsKeeps == ASSUME ShellInv, LoadSucceeds PROVE ShellInv'
<1> DEFINE u == [shell EXCEPT !.loading = FALSE, !.page = "panel"]
<1>1. u \in ShellRec /\ Coming(u)
  BY DEF ShellInv, Presentable, ShellRec, Coming
<1>2. shell' = OnPageFinished(u) /\ UNCHANGED <<agent, file, foreground, probes, outage>>
  BY DEF LoadSucceeds
<1> HIDE DEF u
<1>3. Presentable(shell')
  BY <1>1, <1>2, OnPageFinishedKeeps
<1> QED
  BY <1>2, <1>3 DEF ShellInv, RestTypeOK, Presentable, Coming

LEMMA LoadFailsKeeps == ASSUME ShellInv, LoadFails PROVE ShellInv'
<1> DEFINE n == AnotherFinish(shell.finishes)
           u == [shell EXCEPT !.loading = FALSE, !.page = "error", !.pageFailed = TRUE,
                              !.finishes = n]
<1>1. n \in 0..MaxFinishes
  <2>1. shell.finishes \in 0..MaxFinishes
    BY DEF ShellInv, Presentable, ShellRec
  <2> QED
    BY <2>1, Bounds DEF AnotherFinish
<1>2. shell' = ShowFallback(u) /\ UNCHANGED <<agent, file, foreground, probes, outage>>
  BY DEF LoadFails
<1> HIDE DEF n
<1>3. u \in ShellRec /\ u.pageFailed = TRUE
  BY <1>1 DEF ShellInv, Presentable, ShellRec
<1> HIDE DEF u
<1>4. Presentable(shell')
  BY <1>2, <1>3, ShowFallbackKeeps DEF Exposed
<1> QED
  BY <1>2, <1>4 DEF ShellInv, RestTypeOK, Presentable, Coming

LEMMA LateFinishKeeps == ASSUME ShellInv, LateFinish PROVE ShellInv'
<1> DEFINE n == shell.finishes - 1
           u == [shell EXCEPT !.finishes = n]
<1>1. n \in 0..MaxFinishes /\ (~shell.pageFailed => Coming(shell))
  <2>1. shell.finishes \in 0..MaxFinishes /\ shell.finishes > 0
    BY DEF ShellInv, Presentable, ShellRec, LateFinish
  <2> QED
    BY <2>1, Bounds DEF ShellInv, Presentable
<1>2. shell' = OnPageFinished(u) /\ UNCHANGED <<agent, file, foreground, probes, outage>>
  BY DEF LateFinish
<1> HIDE DEF n
<1>3. /\ u \in ShellRec /\ u.pageFailed = shell.pageFailed /\ u.fallback = shell.fallback
      /\ Coming(u) = Coming(shell)
  BY <1>1 DEF ShellInv, Presentable, ShellRec, Coming
<1> HIDE DEF u
<1>4. Presentable(shell')
  BY <1>1, <1>2, <1>3, OnPageFinishedKeeps DEF ShellInv, Presentable
<1> QED
  BY <1>2, <1>4 DEF ShellInv, RestTypeOK, Presentable, Coming

(* A new value for one of the flags the argument does not mention.         *)
LEMMA FlagsKeep ==
    ASSUME NEW s, Presentable(s), NEW b \in BOOLEAN
    PROVE  /\ Presentable([s EXCEPT !.retry = b])
           /\ Presentable([s EXCEPT !.wifi = b])
           /\ Presentable([s EXCEPT !.running = b])
  BY DEF Presentable, ShellRec, Coming

LEMMA ConfigKeeps ==
    ASSUME NEW s, Presentable(s), NEW config \in Configs
    PROVE  Presentable([s EXCEPT !.config = config])
  BY DEF Presentable, ShellRec, Coming

LEMMA RetryFiresKeeps == ASSUME ShellInv, RetryFires PROVE ShellInv'
<1> DEFINE s == [shell EXCEPT !.retry = FALSE]
<1>1. Presentable(s)
  BY FlagsKeep DEF ShellInv
<1>2. /\ shell' = s \/ shell' = [LoadPanel(s) EXCEPT !.retry = TRUE]
      /\ UNCHANGED <<agent, file, foreground, probes, outage>>
  BY DEF RetryFires
<1> HIDE DEF s
<1>3. Presentable(LoadPanel(s))
  BY <1>1, PresentableIsExposed, LoadPanelKeeps
<1>4. Presentable(shell')
  BY <1>1, <1>2, <1>3, FlagsKeep
<1> QED
  BY <1>2, <1>4 DEF ShellInv, RestTypeOK, Presentable, Coming

LEMMA CheckKeeps == ASSUME ShellInv, Check PROVE ShellInv'
<1>1. PICK x \in Answers : probes' = Append(probes, x)
  BY DEF Check, Answers
<1>2. probes' \in Seq(Answers) /\ Len(probes') = Len(probes) + 1
  BY <1>1, AppendProperties DEF ShellInv, RestTypeOK
<1>3. Len(probes') <= MaxProbes
  BY <1>2, Bounds, LenProperties DEF Check, ShellInv, RestTypeOK
<1> QED
  BY <1>2, <1>3 DEF Check, ShellInv, RestTypeOK, Presentable, Coming

LEMMA RecordKeeps == ASSUME ShellInv, Record PROVE ShellInv'
<1> USE DEF Record
<1>1. Presentable(shell')
  BY RecordFailureKeeps, RecordSuccessKeeps DEF ShellInv
<1>2. probes' \in Seq(Answers) /\ Len(probes') <= MaxProbes
  <2>1. probes \in Seq(Answers) /\ probes # <<>> /\ Len(probes) <= MaxProbes /\ Len(probes) \in Nat
    BY LenProperties DEF ShellInv, RestTypeOK
  <2>2. Tail(probes) \in Seq(Answers) /\ Len(Tail(probes)) = Len(probes) - 1
    BY <2>1, HeadTailProperties
  <2> QED
    BY <2>1, <2>2, Bounds
<1>3. outage' \in BOOLEAN
  BY <1>1 DEF ShellInv, RestTypeOK, Presentable, ShellRec
<1> QED
  BY <1>1, <1>2, <1>3 DEF ShellInv, RestTypeOK, Presentable, Coming

LEMMA ProvisionKeeps ==
    ASSUME ShellInv, NEW saved \in BOOLEAN PROVE Presentable(Provision(shell, saved))
<1>1. file \notin {"none", "junk"} => file \in Configs
  BY DEF ShellInv, RestTypeOK
<1> QED
  BY <1>1, ConfigKeeps DEF Provision, ShellInv

LEMMA OnResumeKeeps ==
    ASSUME ShellInv, NEW saved \in BOOLEAN PROVE Presentable(OnResume(saved))
<1> DEFINE s == Provision(shell, saved)
           r == IF s.config # "none" THEN Start(s) ELSE s
           t == [r EXCEPT !.wifi = FALSE]
<1>1. Presentable(s)
  BY ProvisionKeeps
<1>2. OnResume(saved) \in {t, HideFallbackAndReload(t), LoadPanel(t)}
  BY DEF OnResume
<1> HIDE DEF s
<1>3. Presentable(r)
  BY <1>1, StartKeeps
<1> HIDE DEF r
<1>4. Presentable(t)
  BY <1>3, FlagsKeep
<1> HIDE DEF t
<1> QED
  BY <1>2, <1>4, PresentableIsExposed, HideFallbackAndReloadKeeps, LoadPanelKeeps

LEMMA ConsumeKeeps ==
    ASSUME ShellInv, NEW deleted \in BOOLEAN, Consume(deleted)
    PROVE  file' \in Configs \cup {"junk"}
  BY DEF ShellInv, RestTypeOK, Consume, Configs

LEMMA ResumeKeeps == ASSUME ShellInv, Resume PROVE ShellInv'
<1>1. Presentable(shell') /\ file' \in Configs \cup {"junk"}
  BY OnResumeKeeps, ConsumeKeeps DEF Resume
<1> QED
  BY <1>1 DEF Resume, ShellInv, RestTypeOK, Presentable, Coming

LEMMA NewIntentKeeps == ASSUME ShellInv, NewIntent PROVE ShellInv'
<1>1. PICK saved \in BOOLEAN, deleted \in BOOLEAN :
        /\ shell' \in {HideFallbackAndReload(Provision(shell, saved)), shell}
        /\ Consume(deleted)
  BY DEF NewIntent
<1>2. Presentable(Provision(shell, saved))
  BY ProvisionKeeps
<1>3. Presentable(shell') /\ file' \in Configs \cup {"junk"}
  BY <1>1, <1>2, PresentableIsExposed, HideFallbackAndReloadKeeps, ConsumeKeeps DEF ShellInv
<1> QED
  BY <1>3 DEF NewIntent, ShellInv, RestTypeOK, Presentable, Coming

LEMMA LeaveKeeps == ASSUME ShellInv, Pause \/ OpenWifiSettings PROVE ShellInv'
<1>1. Presentable(Stop(shell)) /\ Presentable(Stop([shell EXCEPT !.wifi = TRUE]))
  BY FlagsKeep DEF Stop, ShellInv
<1>2. Presentable(shell')
  BY <1>1 DEF Pause, OpenWifiSettings
<1> QED
  BY <1>2 DEF Pause, OpenWifiSettings, ShellInv, RestTypeOK, Presentable, Coming

LEMMA UserKeeps == ASSUME ShellInv, BackPressed \/ SaveSettings \/ Recreate PROVE ShellInv'
<1>1. CASE BackPressed
  <2>1. Presentable(shell')
    BY <1>1, PresentableIsExposed, HideFallbackAndReloadKeeps DEF BackPressed, ShellInv
  <2> QED
    BY <1>1, <2>1 DEF BackPressed, ShellInv, RestTypeOK, Presentable, Coming
<1>2. CASE SaveSettings
  <2>1. PICK config \in Configs : shell' = HideFallbackAndReload([shell EXCEPT !.config = config])
    BY <1>2 DEF SaveSettings
  <2>2. Presentable([shell EXCEPT !.config = config])
    BY ConfigKeeps DEF ShellInv
  <2>3. Presentable(shell')
    BY <2>1, <2>2, PresentableIsExposed, HideFallbackAndReloadKeeps
  <2> QED
    BY <1>2, <2>3 DEF SaveSettings, ShellInv, RestTypeOK, Presentable, Coming
<1>3. CASE Recreate
  <2>1. shell.config \in Configs
    BY DEF ShellInv, Presentable, ShellRec
  <2>2. Presentable(shell') /\ probes' = <<>> /\ outage' = FALSE
    BY <1>3, <2>1, CreatedPresentable DEF Recreate
  <2>3. probes' \in Seq(Answers) /\ Len(probes') <= MaxProbes
    BY <2>2, EmptySeq, Bounds
  <2> QED
    BY <1>3, <2>2, <2>3 DEF Recreate, ShellInv, RestTypeOK, Presentable, Coming
<1> QED
  BY <1>1, <1>2, <1>3

LEMMA OutsideKeeps == ASSUME ShellInv, PushFile \/ AgentChanges \/ UNCHANGED vars PROVE ShellInv'
<1>1. UNCHANGED <<foreground, shell, probes, outage>>
  BY DEF PushFile, AgentChanges, vars
<1>2. agent' \in [up : BOOLEAN, same : BOOLEAN] /\ file' \in Configs \cup {"junk"}
  BY DEF PushFile, AgentChanges, vars, ShellInv, RestTypeOK, Configs
<1> QED
  BY <1>1, <1>2 DEF ShellInv, RestTypeOK, Presentable, Coming

LEMMA ShellStep == ASSUME ShellInv, [Next]_vars PROVE ShellInv'
  BY LoadSucceedsKeeps, LoadFailsKeeps, LateFinishKeeps, RetryFiresKeeps, CheckKeeps, RecordKeeps,
     ResumeKeeps, NewIntentKeeps, LeaveKeeps, UserKeeps, OutsideKeeps DEF Next

LEMMA ShellInvHolds == Spec => []ShellInv
  BY ShellInit, ShellStep, PTL DEF Spec

(* Every variable keeps its type, through every nesting of the methods.    *)
THEOREM ShellTypeCorrect == Spec => []TypeOK
<1>1. ASSUME NEW p \in Seq(Answers), Len(p) <= MaxProbes
      PROVE  p \in UNION {[1..n -> Answers] : n \in 0..MaxProbes}
  <2>1. p \in [1..Len(p) -> Answers] /\ Len(p) \in 0..MaxProbes
    BY <1>1, LenProperties, Bounds
  <2> QED
    BY <2>1
<1>2. ShellInv => TypeOK
  BY <1>1 DEF ShellInv, RestTypeOK, Presentable, ShellRec, TypeOK
<1> QED
  BY <1>2, ShellInvHolds, PTL

(* No order of finished, failed and abandoned loads, probes, pauses and    *)
(* provisioning leaves a black or an error page uncovered.                 *)
THEOREM ShellNeverBlank == Spec => []NeverBlank
<1>1. ShellInv => NeverBlank
  BY DEF ShellInv, Presentable, Coming, NeverBlank
<1> QED
  BY <1>1, ShellInvHolds, PTL
================================================================================
