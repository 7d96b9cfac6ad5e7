----------------------------- MODULE ScheduleProofs -----------------------------
(***************************************************************************)
(* The panel sleeps in the configured window: on a day of any length, for  *)
(* every pair of times of day, and whenever the clock source polls.  The   *)
(* agenda is in order, what is next up stays next up, and the days the     *)
(* rules are expanded to are the days they fall on, frequency by           *)
(* frequency, on any calendar.                                             *)
(***************************************************************************)
EXTENDS Schedule, FiniteSetTheorems, FunctionTheorems, SequenceTheorems, WellFoundedInduction,
        TLAPS

(* A minute count that has passed midnight once, or been taken back before *)
(* it, names the time of day one expects.                                  *)
LEMMA ModWithin ==
    ASSUME NEW d \in Nat \ {0}, NEW a \in Int, 0 <= a, a < d
    PROVE  a % d = a
OBVIOUS

LEMMA ModAbove ==
    ASSUME NEW d \in Nat \ {0}, NEW a \in Int, d <= a, a < d + d
    PROVE  a % d = a - d
OBVIOUS

LEMMA ModBelow ==
    ASSUME NEW d \in Nat \ {0}, NEW a \in Int, 0 - d <= a, a < 0
    PROVE  a % d = a + d
OBVIOUS

(* Source.sleeping's comparisons, with their special cases for an empty    *)
(* window and one that crosses midnight, hold in exactly the minutes that  *)
(* come after the start and before the end, counted round the clock.       *)
THEOREM SleepsInWindow ==
    ASSUME NEW day \in Nat \ {0},
           NEW start \in 0..(day - 1), NEW end \in 0..(day - 1), NEW mins \in 0..(day - 1)
    PROVE  Sleeping(start, end, mins) <=> InWindow(day, start, end, mins)
<1> DEFINE length == (end - start) % day
<1>1. ASSUME start = end PROVE ~InWindow(day, start, end, mins)
  <2>1. length = 0
    BY <1>1, ModWithin
  <2> QED
    BY <2>1 DEF InWindow
<1>2. ASSUME start < end
      PROVE  InWindow(day, start, end, mins) <=> (mins >= start /\ mins < end)
  <2>1. length = end - start
    BY <1>2, ModWithin
  <2>2. \A k \in 0..(length - 1) : (start + k) % day = start + k
    BY <2>1, ModWithin
  <2>3. ASSUME mins >= start, mins < end PROVE InWindow(day, start, end, mins)
    <3>1. mins - start \in 0..(length - 1) /\ mins = start + (mins - start)
      BY <2>1, <2>3
    <3> QED
      BY <2>2, <3>1 DEF InWindow
  <2>4. ASSUME NEW k \in 0..(length - 1), mins = (start + k) % day
        PROVE  mins >= start /\ mins < end
    BY <2>1, <2>2, <2>4
  <2> QED
    BY <2>3, <2>4 DEF InWindow
<1>3. ASSUME end < start
      PROVE  InWindow(day, start, end, mins) <=> (mins >= start \/ mins < end)
  <2>1. length = end - start + day
    BY <1>3, ModBelow
  <2>3. ASSUME mins >= start PROVE InWindow(day, start, end, mins)
    <3>1. mins - start \in 0..(length - 1)
      BY <1>3, <2>1, <2>3
    <3>2. mins = (start + (mins - start)) % day
      BY ModWithin
    <3> QED
      BY <3>1, <3>2 DEF InWindow
  <2>4. ASSUME mins < end PROVE InWindow(day, start, end, mins)
    <3>1. mins + day - start \in 0..(length - 1)
      BY <1>3, <2>1, <2>4
    <3>2. mins = (start + (mins + day - start)) % day
      BY ModAbove
    <3> QED
      BY <3>1, <3>2 DEF InWindow
  <2>5. ASSUME NEW k \in 0..(length - 1), mins = (start + k) % day
        PROVE  mins >= start \/ mins < end
    <3> HIDE DEF length
    <3>1. k \in Nat /\ k < end - start + day
      BY <1>3, <2>1
    <3>2. CASE start + k < day
      BY <2>5, <3>1, <3>2, ModWithin
    <3>3. CASE ~(start + k < day)
      <4> DEFINE sum == start + k
      <4>0. sum \in Int /\ day <= sum /\ sum < day + day
        BY <3>1, <3>3
      <4> HIDE DEF sum
      <4>1. sum % day = sum - day
        BY <4>0, ModAbove
      <4>2. mins = start + k - day
        BY <2>5, <4>1 DEF sum
      <4> QED
        BY <3>1, <4>2
    <3> QED
      BY <3>2, <3>3
  <2> QED
    BY <2>3, <2>4, <2>5 DEF InWindow
<1> QED
  BY <1>1, <1>2, <1>3 DEF Sleeping

-------------------------------------------------------------------------------
(* What makes AsleepInWindow inductive: the window's ends are times of day.*)
ClockInv ==
    /\ setup \in Setups /\ now \in Int
    /\ clock \in [time : 0..(Slots - 1), sleep : BOOLEAN]
    /\ clock.sleep <=> Sleeping(setup.sleepStart, setup.sleepEnd, clock.time)

LEMMA ClockInvInit == Init => ClockInv
<1> SUFFICES ASSUME Init PROVE ClockInv
  OBVIOUS
<1>1. setup \in Setups /\ clock = [time |-> setup.sleepEnd, sleep |-> FALSE]
  BY DEF Init
<1>2. setup.sleepStart \in 0..(Slots - 1) /\ setup.sleepEnd \in 0..(Slots - 1)
  BY <1>1, WindowAssumption
<1>3. ~Sleeping(setup.sleepStart, setup.sleepEnd, clock.time)
  BY <1>1, <1>2 DEF Sleeping
<1>4. clock \in [time : 0..(Slots - 1), sleep : BOOLEAN] /\ ~clock.sleep
  BY <1>1, <1>2
<1> QED
  BY <1>1, <1>3, <1>4 DEF Init, ClockInv

LEMMA ClockInvStep == ClockInv /\ [Next]_vars => ClockInv'
<1> SUFFICES ASSUME ClockInv, [Next]_vars PROVE ClockInv'
  OBVIOUS
<1>1. CASE Tick
  BY <1>1 DEF Tick, ClockInv, Instants
<1>2. CASE PollICS
  BY <1>2 DEF PollICS, ClockInv
<1>3. CASE PollMock
  BY <1>3 DEF PollMock, ClockInv
<1>4. CASE PollClock
  <2> DEFINE asleep == Sleeping(setup.sleepStart, setup.sleepEnd, now % Slots)
  <2>1. now % Slots \in 0..(Slots - 1)
    BY CalendarAssumption DEF ClockInv
  <2>2. asleep \in BOOLEAN
    BY DEF Sleeping
  <2>3. clock' = [time |-> now % Slots, sleep |-> asleep] /\ setup' = setup /\ now' = now
    BY <1>4 DEF PollClock
  <2>4. clock' \in [time : 0..(Slots - 1), sleep : BOOLEAN]
    <3> HIDE DEF asleep
    <3> QED
      BY <2>1, <2>2, <2>3
  <2>5. clock'.time = now % Slots /\ (clock'.sleep <=> asleep)
    BY <2>3, Zenon
  <2> QED
    BY <2>3, <2>4, <2>5 DEF ClockInv
<1>5. CASE UNCHANGED vars
  BY <1>5 DEF vars, ClockInv
<1> QED
  BY <1>1, <1>2, <1>3, <1>4, <1>5 DEF Next

(* Whatever the configuration and whenever the clock source polls, the     *)
(* published sleep flag is true in the configured window and nowhere else. *)
THEOREM PanelSleepsInWindow == Spec => []AsleepInWindow
<1>1. ClockInv => AsleepInWindow
  <2> SUFFICES ASSUME ClockInv PROVE AsleepInWindow
    OBVIOUS
  <2>1. /\ setup.sleepStart \in 0..(Slots - 1) /\ setup.sleepEnd \in 0..(Slots - 1)
        /\ clock.time \in 0..(Slots - 1) /\ Slots \in Nat \ {0}
    BY WindowAssumption, CalendarAssumption DEF ClockInv
  <2>2. Sleeping(setup.sleepStart, setup.sleepEnd, clock.time)
            <=> InWindow(Slots, setup.sleepStart, setup.sleepEnd, clock.time)
    BY <2>1, SleepsInWindow
  <2> QED
    BY <2>2 DEF ClockInv, AsleepInWindow
<1> QED
  BY <1>1, ClockInvInit, ClockInvStep, PTL DEF Spec

-------------------------------------------------------------------------------
(* Any set of naturals but the empty one has a least element, which Least  *)
(* chooses.                                                                *)
LEMMA LeastIsLeast ==
    ASSUME NEW T \in SUBSET Nat, T # {}
    PROVE  Least(T) \in T /\ \A y \in T : Least(T) <= y
<1> DEFINE R == {ss \in Nat \X Nat : ss[1] < ss[2]}
<1>1. IsWellFoundedOn(R, Nat)
  BY NatLessThanWellFounded, Zenon DEF OpToRel
<1>2. \E x \in T : \A y \in T : <<y, x>> \notin R
  BY <1>1, WFMin, Zenon
<1>3. PICK x \in T : \A y \in T : <<y, x>> \notin R
  BY <1>2
<1>4. ASSUME NEW y \in T PROVE x <= y
  <2>1. <<y, x>> \notin R /\ x \in Nat /\ y \in Nat /\ <<y, x>> \in Nat \X Nat
    BY <1>3
  <2>2. ~(y < x)
    BY <2>1
  <2> QED
    BY <2>1, <2>2
<1>5. \E z \in T : \A y \in T : z <= y
  BY <1>4
<1> QED
  BY <1>5 DEF Least

-------------------------------------------------------------------------------
(* The days tabulated: the first days of the months are numbers, so they   *)
(* are finitely many.                                                      *)
LEMMA Inductive ==
    ASSUME NEW S, 0 \in S, \A n \in Nat : n \in S => n + 1 \in S
    PROVE  Nat \subseteq S
<1> DEFINE T == Nat \ S
<1>1. SUFFICES ASSUME T # {} PROVE FALSE
  OBVIOUS
<1>2. T \in SUBSET Nat
  OBVIOUS
<1>3. Least(T) \in T /\ \A y \in T : Least(T) <= y
  <2> HIDE DEF T
  <2> QED
    BY <1>1, <1>2, LeastIsLeast
<1>4. PICK x \in T : \A y \in T : x <= y
  BY <1>3
<1>5. x \in Nat \ {0} /\ x - 1 \in Nat /\ (x - 1) + 1 = x /\ ~(x <= x - 1)
  BY <1>4
<1>6. x - 1 \in S
  BY <1>4, <1>5
<1> QED
  BY <1>4, <1>5, <1>6

LEMMA LengthIsNat == ASSUME NEW k \in Nat PROVE Length(k) \in Nat \ {0}
<1>1. Months \in Nat \ {0} /\ \A m \in 1..Months : MonthLengths[m] \in Nat \ {0}
  BY CalendarAssumption DEF Months
<1>2. MonthOfYear(k) \in 1..Months
  BY <1>1 DEF MonthOfYear
<1> QED
  BY <1>1, <1>2 DEF Length

Added(g, n) == [k \in 0..n |-> IF k = 0 THEN 0 ELSE g[k - 1] + Length(k - 1)]

LEMMA AddedExists == \A n \in Nat : \E g : g = Added(g, n)
<1> DEFINE S == {n \in Nat : \E g : g = Added(g, n)}
<1>1. 0 \in S
  <2> DEFINE g == [k \in 0..0 |-> 0]
  <2>1. g = Added(g, 0)
    BY DEF Added
  <2> QED
    BY <2>1
<1>2. ASSUME NEW n \in Nat, n \in S PROVE n + 1 \in S
  <2>1. PICK g : g = Added(g, n)
    BY <1>2
  <2> DEFINE last == g[n] + Length(n)
             h == [k \in 0..(n + 1) |-> IF k = n + 1 THEN last ELSE g[k]]
  <2>2. \A k \in 0..n : h[k] = g[k] /\ g[k] = IF k = 0 THEN 0 ELSE g[k - 1] + Length(k - 1)
    <3>1. \A k \in 0..n : Added(g, n)[k] = IF k = 0 THEN 0 ELSE g[k - 1] + Length(k - 1)
      BY DEF Added
    <3>2. \A k \in 0..n : h[k] = g[k]
      OBVIOUS
    <3> HIDE DEF h
    <3> QED
      BY <2>1, <3>1, <3>2
  <2>3. h[n + 1] = last /\ h = [k \in 0..(n + 1) |-> h[k]]
    OBVIOUS
  <2> HIDE DEF h
  <2>4. ASSUME NEW k \in 0..(n + 1)
        PROVE  h[k] = IF k = 0 THEN 0 ELSE h[k - 1] + Length(k - 1)
    <3>1. CASE k = 0
      BY <2>2, <3>1
    <3>2. CASE k \in 1..n
      <4>1. k - 1 \in 0..n /\ k \in 0..n /\ k # 0
        BY <3>2
      <4> QED
        BY <2>2, <4>1
    <3>3. CASE k = n + 1
      <4>1. k # 0 /\ k - 1 = n /\ n \in 0..n
        BY <3>3
      <4> QED
        BY <2>2, <2>3, <3>3, <4>1
    <3> QED
      BY <3>1, <3>2, <3>3
  <2>5. h = Added(h, n + 1)
    BY <2>3, <2>4 DEF Added
  <2> QED
    BY <2>5
<1> HIDE DEF S
<1>3. Nat \subseteq S
  BY <1>1, <1>2, Inductive
<1> QED
  BY <1>3 DEF S

LEMMA FirstDayAdds ==
    /\ FirstDay \in [0..MaxMonth -> Nat]
    /\ 0 \in 0..MaxMonth /\ FirstDay[0] = 0
    /\ \A k \in Nat : k + 1 \in 0..MaxMonth => FirstDay[k + 1] = FirstDay[k] + Length(k)
<1>0. MaxMonth \in Nat \ {0}
  BY CalendarAssumption
<1>1. FirstDay = Added(FirstDay, MaxMonth)
  <2>1. \E g : g = Added(g, MaxMonth)
    BY <1>0, AddedExists
  <2>2. FirstDay = CHOOSE g : g = Added(g, MaxMonth)
    BY DEF FirstDay, Added
  <2> QED
    BY <2>1, <2>2
<1>2. /\ DOMAIN FirstDay = 0..MaxMonth /\ FirstDay = [k \in 0..MaxMonth |-> FirstDay[k]]
      /\ \A k \in 0..MaxMonth : FirstDay[k] = IF k = 0 THEN 0 ELSE FirstDay[k - 1] + Length(k - 1)
  <2> DEFINE g == Added(FirstDay, MaxMonth)
  <2>1. /\ DOMAIN g = 0..MaxMonth /\ g = [k \in 0..MaxMonth |-> g[k]]
        /\ \A k \in 0..MaxMonth : g[k] = IF k = 0 THEN 0 ELSE FirstDay[k - 1] + Length(k - 1)
    BY DEF Added
  <2>2. g = FirstDay
    BY <1>1
  <2> HIDE DEF g
  <2> QED
    BY <2>1, <2>2
<1>3. \A k \in Nat : k + 1 \in 0..MaxMonth => FirstDay[k + 1] = FirstDay[k] + Length(k)
  <2> SUFFICES ASSUME NEW k \in Nat, k + 1 \in 0..MaxMonth
               PROVE  FirstDay[k + 1] = FirstDay[k] + Length(k)
    OBVIOUS
  <2>1. k + 1 # 0 /\ (k + 1) - 1 = k
    OBVIOUS
  <2> QED
    BY <1>2, <2>1
<1> DEFINE S == {k \in Nat : k \in 0..MaxMonth => FirstDay[k] \in Nat}
<1>4. 0 \in S /\ 0 \in 0..MaxMonth /\ FirstDay[0] = 0
  <2>1. 0 \in 0..MaxMonth
    BY <1>0
  <2>2. FirstDay[0] = 0
    BY <1>2, <2>1
  <2> QED
    BY <2>1, <2>2
<1>5. ASSUME NEW k \in Nat, k \in S PROVE k + 1 \in S
  <2>1. SUFFICES ASSUME k + 1 \in 0..MaxMonth PROVE FirstDay[k + 1] \in Nat
    OBVIOUS
  <2>2. FirstDay[k] \in Nat
    BY <1>0, <1>5, <2>1
  <2> QED
    BY <1>3, <2>1, <2>2, LengthIsNat
<1>6. Nat \subseteq S
  <2> HIDE DEF S
  <2> QED
    BY <1>4, <1>5, Inductive
<1>7. \A k \in 0..MaxMonth : FirstDay[k] \in Nat
  BY <1>0, <1>6
<1>8. FirstDay \in [0..MaxMonth -> Nat]
  <2> DEFINE D == 0..MaxMonth
  <2>1. FirstDay = [k \in D |-> FirstDay[k]] /\ \A k \in D : FirstDay[k] \in Nat
    BY <1>2, <1>7
  <2> HIDE DEF D
  <2> QED
    BY <2>1 DEF D
<1> QED
  BY <1>3, <1>4, <1>8

LEMMA HorizonIsDays ==
    /\ DOMAIN MonthTable = Horizon /\ Horizon \subseteq Nat /\ IsFiniteSet(Horizon)
    /\ \A S \in SUBSET Horizon : IsFiniteSet(S) /\ Cardinality(S) \in Nat
<1>1. FirstDay[MaxMonth] \in Int
  BY FirstDayAdds, CalendarAssumption
<1>2. DOMAIN MonthTable = Horizon
  BY DEF MonthTable, Horizon
<1>3. Horizon \subseteq Nat /\ IsFiniteSet(Horizon)
  <2> DEFINE last == FirstDay[MaxMonth] - 1
  <2>1. last \in Int
    BY <1>1
  <2> HIDE DEF last
  <2>2. IsFiniteSet(0..last)
    BY <2>1, FS_Interval
  <2> QED
    BY <2>1, <2>2 DEF Horizon, last
<1> QED
  BY <1>2, <1>3, FS_Subset, FS_CardinalityType

LEMMA CandidatesAreDays ==
    \A e \in Series : CandidateOccurrences[e] \subseteq Horizon /\ CandidateOccurrences[e] \subseteq Nat
BY HorizonIsDays, TabulatedAssumption

-------------------------------------------------------------------------------
(* The order of the agenda, of events with a start that is a number: by    *)
(* start, then by place in the feed.                                       *)
Startable(start, n) ==
    n \in Nat /\ DOMAIN start = 1..n /\ \A i \in 1..n : start[i] \in Int
Resolved(start) == {i \in DOMAIN start : start[i] # None}
Sooner(start, R, i) == {j \in R : Earlier(start, j, i)}

LEMMA ResolvedFinite ==
    ASSUME NEW start, NEW n, Startable(start, n)
    PROVE  /\ IsFiniteSet(Resolved(start)) /\ Cardinality(Resolved(start)) \in Nat
           /\ \A i \in Resolved(start) : i \in Nat /\ start[i] \in Int
<1>1. IsFiniteSet(1..n) /\ Resolved(start) \in SUBSET (1..n)
  BY FS_Interval DEF Resolved, Startable
<1> QED
  BY <1>1, FS_Subset, FS_CardinalityType DEF Startable

(* How many come before an event tells which comes before which.           *)
LEMMA RankTells ==
    ASSUME NEW start, NEW R, IsFiniteSet(R), \A i \in R : i \in Nat /\ start[i] \in Int
    PROVE  /\ \A i \in R : Cardinality(Sooner(start, R, i)) \in 0..(Cardinality(R) - 1)
           /\ \A i, k \in R : Earlier(start, i, k) =>
                 Cardinality(Sooner(start, R, i)) < Cardinality(Sooner(start, R, k))
           /\ \A i, k \in R : Earlier(start, i, k) \/ Earlier(start, k, i) \/ i = k
           /\ \A i, k \in R : Earlier(start, i, k) => i # k /\ ~Earlier(start, k, i)
<1>1. \A i, k \in R : Earlier(start, i, k) \/ Earlier(start, k, i) \/ i = k
  BY DEF Earlier
<1>2. \A i, k \in R : Earlier(start, i, k) => i # k /\ ~Earlier(start, k, i)
  BY DEF Earlier
<1>3. \A i, j, k \in R : Earlier(start, i, j) /\ Earlier(start, j, k) => Earlier(start, i, k)
  BY DEF Earlier
<1>4. ASSUME NEW i \in R
      PROVE  /\ IsFiniteSet(Sooner(start, R, i)) /\ Cardinality(Sooner(start, R, i)) \in Nat
             /\ Cardinality(Sooner(start, R, i)) <= Cardinality(R) - 1
             /\ Cardinality(R) \in Nat
  <2>1. Sooner(start, R, i) \in SUBSET (R \ {i})
    BY <1>2 DEF Sooner
  <2>2. IsFiniteSet(R \ {i}) /\ Cardinality(R \ {i}) = Cardinality(R) - 1
    BY FS_RemoveElement
  <2> QED
    BY <2>1, <2>2, FS_Subset, FS_CardinalityType
<1>5. ASSUME NEW i \in R, NEW k \in R, Earlier(start, i, k)
      PROVE  Cardinality(Sooner(start, R, i)) < Cardinality(Sooner(start, R, k))
  <2> DEFINE S == Sooner(start, R, k)
  <2>1. i \in S /\ Sooner(start, R, i) \in SUBSET (S \ {i})
    BY <1>2, <1>3, <1>5 DEF Sooner
  <2>2. IsFiniteSet(S) /\ Cardinality(S) \in Nat
    BY <1>4
  <2> HIDE DEF S
  <2>3. IsFiniteSet(S \ {i}) /\ Cardinality(S \ {i}) = Cardinality(S) - 1
    BY <2>1, <2>2, FS_RemoveElement
  <2>4. Cardinality(Sooner(start, R, i)) <= Cardinality(S \ {i})
    BY <2>1, <2>3, FS_Subset
  <2>5. Cardinality(Sooner(start, R, i)) \in Nat
    BY <1>4
  <2> QED
    BY <2>2, <2>3, <2>4, <2>5 DEF S
<1>6. \A i \in R : Cardinality(Sooner(start, R, i)) \in 0..(Cardinality(R) - 1)
  <2> SUFFICES ASSUME NEW i \in R
               PROVE  Cardinality(Sooner(start, R, i)) \in 0..(Cardinality(R) - 1)
    OBVIOUS
  <2> QED
    BY <1>4
<1> QED
  BY <1>1, <1>2, <1>5, <1>6

(* Every rank is taken: as many events as ranks, and no two share one.     *)
LEMMA RankTaken ==
    ASSUME NEW start, NEW R, IsFiniteSet(R), \A i \in R : i \in Nat /\ start[i] \in Int,
           NEW n \in 1..Cardinality(R)
    PROVE  \E i \in R : Cardinality(Sooner(start, R, i)) = n - 1
<1> DEFINE ranks == 0..(Cardinality(R) - 1)
           f == [i \in R |-> Cardinality(Sooner(start, R, i))]
<1>1. Cardinality(R) \in Nat
  BY FS_CardinalityType
<1>2. IsFiniteSet(ranks) /\ Cardinality(ranks) = Cardinality(R)
  <2> DEFINE last == Cardinality(R) - 1
  <2>1. last \in Int /\ (IF 0 > last THEN 0 ELSE last - 0 + 1) = Cardinality(R)
    BY <1>1
  <2> HIDE DEF last
  <2>2. IsFiniteSet(0..last) /\ Cardinality(0..last) = IF 0 > last THEN 0 ELSE last - 0 + 1
    BY <2>1, FS_Interval
  <2> QED
    BY <2>1, <2>2 DEF last
<1>3. \A i \in R : f[i] \in ranks
  BY RankTells
<1>4. \A i, k \in R : f[i] = f[k] => i = k
  <2> SUFFICES ASSUME NEW i \in R, NEW k \in R, f[i] = f[k] PROVE i = k
    OBVIOUS
  <2>1. f[i] \in Int /\ f[k] \in Int
    BY <1>1, <1>3
  <2>2. /\ Earlier(start, i, k) => f[i] < f[k]
        /\ Earlier(start, k, i) => f[k] < f[i]
        /\ Earlier(start, i, k) \/ Earlier(start, k, i) \/ i = k
    BY RankTells
  <2> HIDE DEF f
  <2> QED
    BY <2>1, <2>2
<1>5. f \in Injection(R, ranks)
  <2>1. f \in [R -> ranks]
    BY <1>3
  <2> HIDE DEF f
  <2> QED
    BY <1>4, <2>1 DEF Injection, IsInjective
<1> HIDE DEF f, ranks
<1>6. f \in Surjection(R, ranks)
  BY <1>2, <1>5, FS_Injection
<1>7. n - 1 \in ranks
  BY <1>1 DEF ranks
<1>8. PICK i \in R : f[i] = n - 1
  BY <1>6, <1>7 DEF Surjection
<1> QED
  BY <1>8 DEF f

(* InOrder lists what is resolved, each event in the place of its rank.    *)
LEMMA InOrderLists ==
    ASSUME NEW start, NEW R, IsFiniteSet(R), \A i \in R : i \in Nat /\ start[i] \in Int
    PROVE  LET o == InOrder(start, R)
               N == Cardinality(R)
           IN  /\ N \in Nat /\ o \in Seq(R) /\ Len(o) = N
               /\ \A n \in 1..N : o[n] \in R /\ Cardinality(Sooner(start, R, o[n])) = n - 1
               /\ \A i \in R : \E n \in 1..N : o[n] = i
               /\ \A m, n \in 1..N : m < n => Earlier(start, o[m], o[n])
<1> DEFINE o == InOrder(start, R)
           N == Cardinality(R)
<1>1. N \in Nat
  BY FS_CardinalityType
<1>2. /\ DOMAIN o = 1..N
      /\ \A n \in 1..N : o[n] = CHOOSE i \in R : Cardinality(Sooner(start, R, i)) = n - 1
  BY DEF InOrder, Sooner
<1>3. o \in [1..N -> R]
  <2>1. \A n \in 1..N : (CHOOSE i \in R : Cardinality(Sooner(start, R, i)) = n - 1) \in R
    BY RankTaken
  <2> QED
    BY <2>1 DEF InOrder, Sooner
<1> HIDE DEF o, N
<1>4. ASSUME NEW n \in 1..N PROVE o[n] \in R /\ Cardinality(Sooner(start, R, o[n])) = n - 1
  <2>1. \E i \in R : Cardinality(Sooner(start, R, i)) = n - 1
    BY RankTaken DEF N
  <2> QED
    BY <1>2, <2>1
<1>5. o \in Seq(R) /\ Len(o) = N
  <2>1. o \in Seq(R)
    BY <1>1, <1>3, SeqDef
  <2> QED
    BY <1>1, <1>2, <2>1, LenProperties
<1>6. ASSUME NEW i \in R PROVE \E n \in 1..N : o[n] = i
  <2> DEFINE r == Cardinality(Sooner(start, R, i))
             n == r + 1
  <2>1. r \in 0..(N - 1)
    BY RankTells DEF N
  <2> HIDE DEF r
  <2>2. n \in 1..N /\ n - 1 = r
    BY <1>1, <2>1
  <2>3. o[n] \in R /\ Cardinality(Sooner(start, R, o[n])) = r
    BY <1>4, <2>2
  <2> HIDE DEF n
  <2>4. /\ Earlier(start, i, o[n]) => r < r
        /\ Earlier(start, o[n], i) => r < r
        /\ Earlier(start, i, o[n]) \/ Earlier(start, o[n], i) \/ i = o[n]
    <3>1. r = Cardinality(Sooner(start, R, i))
      BY DEF r
    <3> QED
      BY <2>3, <3>1, RankTells
  <2> QED
    BY <1>1, <2>1, <2>2, <2>4
<1>7. ASSUME NEW m \in 1..N, NEW n \in 1..N, m < n PROVE Earlier(start, o[m], o[n])
  <2>1. o[m] \in R /\ o[n] \in R
    BY <1>4
  <2>2. Earlier(start, o[m], o[n]) \/ Earlier(start, o[n], o[m]) \/ o[m] = o[n]
    BY <2>1, RankTells
  <2>3. Earlier(start, o[n], o[m]) =>
            Cardinality(Sooner(start, R, o[n])) < Cardinality(Sooner(start, R, o[m]))
    BY <2>1, RankTells
  <2>4. /\ Cardinality(Sooner(start, R, o[m])) = m - 1
        /\ Cardinality(Sooner(start, R, o[n])) = n - 1
    BY <1>4
  <2>5. ~(n - 1 < m - 1) /\ m - 1 # n - 1
    BY <1>1, <1>7
  <2> QED
    BY <2>2, <2>3, <2>4, <2>5
<1> QED
  BY <1>1, <1>4, <1>5, <1>6, <1>7 DEF o, N

(* The published list: the first so many of them, each with its start.     *)
Kept(start, limit) == IF Cardinality(Resolved(start)) > limit THEN limit ELSE Cardinality(Resolved(start))

LEMMA SortedLists ==
    ASSUME NEW start, NEW count, Startable(start, count), NEW limit \in Nat
    PROVE  LET s == Sorted(start, limit)
               m == Kept(start, limit)
           IN  /\ m \in Nat /\ m <= limit
               /\ s \in Seq([event : Resolved(start), start : Int]) /\ Len(s) = m /\ DOMAIN s = 1..m
               /\ \A n \in 1..m : s[n].event \in Resolved(start) /\ s[n].start = start[s[n].event]
               /\ \A k, n \in 1..m : k < n => Earlier(start, s[k].event, s[n].event)
               /\ \A i \in Resolved(start) :
                     \/ \E n \in 1..m : s[n].event = i
                     \/ m = limit /\ \A n \in 1..m : Earlier(start, s[n].event, i)
<1> DEFINE R == Resolved(start)
           o == InOrder(start, R)
           N == Cardinality(R)
           m == Kept(start, limit)
           s == Sorted(start, limit)
<1>1. /\ N \in Nat /\ o \in Seq(R) /\ Len(o) = N
      /\ \A n \in 1..N : o[n] \in R
      /\ \A i \in R : \E n \in 1..N : o[n] = i
      /\ \A k, n \in 1..N : k < n => Earlier(start, o[k], o[n])
  BY ResolvedFinite, InOrderLists
<1>2. \A i \in R : start[i] \in Int
  BY ResolvedFinite
<1>3. m = (IF N > limit THEN limit ELSE N) /\ s = Entries(start, o, limit)
  BY DEF Kept, Sorted, Resolved
<1> HIDE DEF R, o, N, m, s
<1>4. m \in Nat /\ m <= limit /\ m <= N /\ (m = N \/ m = limit)
  BY <1>1, <1>3
<1>5. /\ DOMAIN s = 1..m
      /\ \A n \in 1..m : s[n] = [event |-> o[n], start |-> start[o[n]]]
      /\ s = [n \in 1..m |-> [event |-> o[n], start |-> start[o[n]]]]
  BY <1>1, <1>3 DEF Entries
<1>6. \A n \in 1..m : n \in 1..N
  BY <1>1, <1>4
<1>7. \A n \in 1..m : [event |-> o[n], start |-> start[o[n]]] \in [event : R, start : Int]
  BY <1>1, <1>2, <1>6
<1>8. s \in [1..m -> [event : R, start : Int]]
  BY <1>5, <1>7
<1>9. s \in Seq([event : R, start : Int]) /\ Len(s) = m
  <2> DEFINE E == [event : R, start : Int]
  <2>1. s \in [1..m -> E]
    BY <1>8
  <2> HIDE DEF E
  <2>2. s \in Seq(E)
    BY <1>4, <2>1, SeqDef
  <2> QED
    BY <1>4, <1>5, <2>2, LenProperties DEF E
<1>10. \A n \in 1..m : s[n].event = o[n] /\ s[n].start = start[o[n]]
  BY <1>5
<1>11. ASSUME NEW i \in R, ~\E n \in 1..m : s[n].event = i
       PROVE  m = limit /\ \A n \in 1..m : Earlier(start, s[n].event, i)
  <2>1. PICK k \in 1..N : o[k] = i
    BY <1>1
  <2>2. ~(k <= m)
    BY <1>10, <1>11, <2>1
  <2>3. m = limit /\ k > m
    BY <1>1, <1>4, <2>1, <2>2
  <2>4. \A n \in 1..m : n \in 1..N /\ n < k
    BY <1>4, <1>6, <2>1, <2>3
  <2>5. \A n \in 1..m : Earlier(start, o[n], i)
    BY <1>1, <2>1, <2>4
  <2> QED
    BY <1>10, <2>3, <2>5
<1> QED
  BY <1>1, <1>4, <1>5, <1>6, <1>9, <1>10, <1>11 DEF R, m, s

-------------------------------------------------------------------------------
(* An event of a feed, and where it stands.                                *)
Dated(e) ==
    /\ e.day \in Nat /\ e.time \in 0..(Slots - 1)
    /\ e.freq \in {"ONCE", "UNSUPPORTED"} \/ e \in Series

LEMMA DaysInOrder ==
    ASSUME NEW e, Dated(e), NEW c \in Nat, NEW d \in Nat, c <= d
    PROVE  At(e, c) \in Int /\ At(e, d) \in Int /\ At(e, c) <= At(e, d) /\ 0 <= At(e, c)
<1>1. Slots \in Nat /\ e.time \in Nat
  BY CalendarAssumption DEF Dated
<1>2. PICK k \in Nat : d = c + k
  <2>1. d - c \in Nat /\ d = c + (d - c)
    OBVIOUS
  <2> QED
    BY <2>1
<1>3. d * Slots = c * Slots + k * Slots /\ k * Slots \in Nat /\ c * Slots \in Nat
  BY <1>1, <1>2
<1> QED
  BY <1>1, <1>3 DEF At

(* The days a rule may still give at a time.                               *)
Left(e, t) ==
    {d \in CandidateOccurrences[e] :
        /\ At(e, d) > t
        /\ e.count = 0 \/ Before(CandidateOccurrences[e], d) < e.count
        /\ e.until = None \/ At(e, d) <= e.until}

LEMMA NextIsLeastLeft ==
    ASSUME NEW e \in Series, Dated(e), NEW t \in Int
    PROVE  /\ NextOccurrence(e, t) = FirstOf(Left(e, t))
           /\ Left(e, t) \in SUBSET Nat
           /\ Left(e, t) = {} => Timed(e, FirstOf(Left(e, t))) = None
           /\ Left(e, t) # {} =>
                 /\ Least(Left(e, t)) \in Left(e, t)
                 /\ \A d \in Left(e, t) : Least(Left(e, t)) <= d
                 /\ Timed(e, FirstOf(Left(e, t))) = At(e, Least(Left(e, t)))
<1>1. Left(e, t) \in SUBSET Nat
  BY CandidatesAreDays DEF Left
<1>2. NextOccurrence(e, t) = FirstOf(Left(e, t))
  BY DEF NextOccurrence, FirstAfter, Left
<1>3. Left(e, t) # {} => Least(Left(e, t)) \in Left(e, t) /\ \A d \in Left(e, t) : Least(Left(e, t)) <= d
  BY <1>1, LeastIsLeast
<1>4. Left(e, t) # {} => Least(Left(e, t)) # None
  BY <1>1, <1>3 DEF None
<1> QED
  BY <1>1, <1>2, <1>3, <1>4 DEF FirstOf, Timed

(* Where an event stands at a time, and the agenda of a feed then.         *)
StartAt(e, t) ==
    IF e.freq = "UNSUPPORTED" THEN None
    ELSE IF e.freq = "ONCE"
         THEN IF At(e, e.day) > t THEN At(e, e.day) ELSE None
         ELSE Timed(e, NextOccurrence(e, t))
Starts(feed, t) == [i \in DOMAIN feed |-> StartAt(feed[i], t)]
Agenda(feed, t) == Sorted(Starts(feed, t), AgendaSize)

LEMMA UpcomingIsAgenda == Upcoming(AgendaSize) = Agenda(setup.feed, now)
BY DEF Upcoming, Agenda, Starts, StartAt, StartOf, Feed

(* A start is a time to come, or None.                                     *)
LEMMA StartComes ==
    ASSUME NEW e, Dated(e), NEW t \in Nat
    PROVE  StartAt(e, t) \in Int /\ (StartAt(e, t) # None => StartAt(e, t) > t)
<1>1. None \in Int /\ t \in Int
  BY DEF None
<1>2. CASE e.freq = "UNSUPPORTED"
  BY <1>1, <1>2 DEF StartAt
<1>3. CASE e.freq = "ONCE"
  <2>1. At(e, e.day) \in Int
    BY DaysInOrder DEF Dated
  <2> QED
    BY <1>1, <1>3, <2>1 DEF StartAt
<1>4. CASE e.freq \notin {"ONCE", "UNSUPPORTED"}
  <2>1. e \in Series /\ StartAt(e, t) = Timed(e, FirstOf(Left(e, t)))
    BY <1>1, <1>4, NextIsLeastLeft DEF StartAt, Dated
  <2>2. CASE Left(e, t) = {}
    <3>1. Timed(e, FirstOf(Left(e, t))) = None
      BY <1>1, <2>1, <2>2, NextIsLeastLeft
    <3> QED
      BY <1>1, <2>1, <3>1
  <2>3. CASE Left(e, t) # {}
    <3>1. Least(Left(e, t)) \in Left(e, t) /\ Least(Left(e, t)) \in Nat
          /\ StartAt(e, t) = At(e, Least(Left(e, t)))
      BY <1>1, <2>1, <2>3, NextIsLeastLeft
    <3>2. At(e, Least(Left(e, t))) > t
      BY <3>1 DEF Left
    <3> QED
      BY <3>1, <3>2, DaysInOrder
  <2> QED
    BY <2>2, <2>3
<1> QED
  BY <1>2, <1>3, <1>4

(* While it is still to come it stays, and one that is over stays over.    *)
LEMMA StartStays ==
    ASSUME NEW e, Dated(e), NEW t \in Nat, StartAt(e, t) = None \/ StartAt(e, t) > t + 1
    PROVE  StartAt(e, t + 1) = StartAt(e, t)
<1> DEFINE u == t + 1
<1>1. u \in Nat /\ u \in Int /\ t \in Int /\ u > t
  OBVIOUS
<1>2. StartAt(e, t) = None \/ StartAt(e, t) > u
  OBVIOUS
<1> SUFFICES StartAt(e, u) = StartAt(e, t)
  OBVIOUS
<1> HIDE DEF u
<1>3. CASE e.freq = "UNSUPPORTED"
  BY <1>3 DEF StartAt
<1>4. CASE e.freq = "ONCE"
  <2>1. At(e, e.day) \in Int /\ At(e, e.day) >= 0
    BY DaysInOrder DEF Dated
  <2> QED
    BY <1>1, <1>2, <1>4, <2>1 DEF StartAt, None
<1>5. CASE e.freq \notin {"ONCE", "UNSUPPORTED"}
  <2>1. /\ e \in Series
        /\ StartAt(e, t) = Timed(e, FirstOf(Left(e, t)))
        /\ StartAt(e, u) = Timed(e, FirstOf(Left(e, u)))
    BY <1>1, <1>5, NextIsLeastLeft DEF StartAt, Dated
  <2>2. Left(e, u) \subseteq Left(e, t)
    <3>1. \A d \in CandidateOccurrences[e] : At(e, d) \in Int
      BY <2>1, DaysInOrder, CandidatesAreDays
    <3> QED
      BY <1>1, <3>1 DEF Left
  <2>3. CASE Left(e, t) = {}
    <3>1. Left(e, u) = Left(e, t)
      BY <2>2, <2>3
    <3> QED
      BY <2>1, <3>1
  <2>4. CASE Left(e, t) # {}
    <3> DEFINE x == Least(Left(e, t))
    <3>1. /\ x \in Left(e, t) /\ \A d \in Left(e, t) : x <= d
          /\ StartAt(e, t) = At(e, x) /\ Left(e, t) \in SUBSET Nat
      BY <1>1, <2>1, <2>4, NextIsLeastLeft
    <3> HIDE DEF x
    <3>2. StartAt(e, t) > u
      <4>1. At(e, x) \in Int /\ At(e, x) >= 0
        BY <3>1, DaysInOrder
      <4> QED
        BY <1>2, <3>1, <4>1 DEF None
    <3>3. ASSUME NEW d \in Left(e, t) PROVE At(e, d) > u
      <4>1. At(e, x) <= At(e, d) /\ At(e, x) \in Int /\ At(e, d) \in Int
        BY <3>1, DaysInOrder
      <4> QED
        BY <1>1, <3>1, <3>2, <4>1
    <3>4. Left(e, t) \subseteq Left(e, u)
      BY <3>3 DEF Left
    <3>5. Left(e, u) = Left(e, t)
      BY <2>2, <3>4
    <3> QED
      BY <2>1, <3>5
  <2> QED
    BY <2>3, <2>4
<1> QED
  BY <1>3, <1>4, <1>5

-------------------------------------------------------------------------------
(* What is listed is to come, in order, no event twice; what is not comes  *)
(* after a full list.                                                      *)
InOrderOf(feed, t, s) ==
    /\ Len(s) \in Nat /\ Len(s) <= AgendaSize /\ DOMAIN s = 1..Len(s)
    /\ \A n \in 1..Len(s) :
          /\ s[n].event \in DOMAIN feed
          /\ s[n].start = StartAt(feed[s[n].event], t) /\ s[n].start \in Nat /\ s[n].start > t
    /\ \A k, n \in 1..Len(s) : k < n => s[k].start <= s[n].start /\ s[k].event # s[n].event
    /\ \A i \in DOMAIN feed :
          \/ StartAt(feed[i], t) = None
          \/ \E n \in 1..Len(s) : s[n].event = i
          \/ Len(s) = AgendaSize /\ \A n \in 1..Len(s) : s[n].start <= StartAt(feed[i], t)

LEMMA FeedDated ==
    ASSUME NEW s \in Setups
    PROVE  Len(s.feed) \in Nat /\ DOMAIN s.feed = 1..Len(s.feed) /\ \A i \in DOMAIN s.feed : Dated(s.feed[i])
BY SetupsAssumption DEF Dated

LEMMA AgendaInOrder ==
    ASSUME NEW s \in Setups, NEW t \in Nat
    PROVE  InOrderOf(s.feed, t, Agenda(s.feed, t))
<1> DEFINE feed == s.feed
           start == Starts(feed, t)
           a == Agenda(feed, t)
           m == Kept(start, AgendaSize)
<1>1. /\ Len(feed) \in Nat /\ DOMAIN feed = 1..Len(feed)
      /\ \A i \in DOMAIN feed : /\ StartAt(feed[i], t) \in Int
                                /\ StartAt(feed[i], t) # None => StartAt(feed[i], t) > t
  BY FeedDated, StartComes
<1>2. DOMAIN start = DOMAIN feed /\ \A i \in DOMAIN feed : start[i] = StartAt(feed[i], t)
  BY DEF Starts
<1>3. AgendaSize \in Nat /\ a = Sorted(start, AgendaSize)
  BY ScheduleAssumption DEF Agenda
<1> HIDE DEF feed, start, a, m
<1>4. Startable(start, Len(feed))
  BY <1>1, <1>2 DEF Startable
<1>5. /\ m \in Nat /\ m <= AgendaSize /\ Len(a) = m /\ DOMAIN a = 1..m
      /\ \A n \in 1..m : a[n].event \in Resolved(start) /\ a[n].start = start[a[n].event]
      /\ \A k, n \in 1..m : k < n => Earlier(start, a[k].event, a[n].event)
      /\ \A i \in Resolved(start) :
            \/ \E n \in 1..m : a[n].event = i
            \/ m = AgendaSize /\ \A n \in 1..m : Earlier(start, a[n].event, i)
  BY <1>3, <1>4, SortedLists DEF m
<1>6. \A i \in Resolved(start) :
          /\ i \in DOMAIN feed /\ i \in Nat /\ start[i] = StartAt(feed[i], t)
          /\ start[i] \in Nat /\ start[i] > t
  BY <1>1, <1>2 DEF Resolved
<1>7. \A i, j \in Resolved(start) : Earlier(start, i, j) => start[i] <= start[j] /\ i # j
  BY <1>6 DEF Earlier
<1>8. ASSUME NEW n \in 1..m
      PROVE  /\ a[n].event \in DOMAIN feed
             /\ a[n].start = StartAt(feed[a[n].event], t) /\ a[n].start \in Nat /\ a[n].start > t
  BY <1>5, <1>6
<1>9. ASSUME NEW k \in 1..m, NEW n \in 1..m, k < n
      PROVE  a[k].start <= a[n].start /\ a[k].event # a[n].event
  BY <1>5, <1>7, <1>9
<1>10. ASSUME NEW i \in DOMAIN feed, StartAt(feed[i], t) # None, ~\E n \in 1..m : a[n].event = i
       PROVE  m = AgendaSize /\ \A n \in 1..m : a[n].start <= StartAt(feed[i], t)
  <2>1. i \in Resolved(start) /\ start[i] = StartAt(feed[i], t)
    BY <1>2, <1>10 DEF Resolved
  <2>2. m = AgendaSize /\ \A n \in 1..m : Earlier(start, a[n].event, i)
    BY <1>5, <1>10, <2>1
  <2> QED
    BY <1>5, <1>7, <2>1, <2>2
<1>11. Len(a) \in Nat /\ Len(a) <= AgendaSize /\ DOMAIN a = 1..Len(a) /\ Len(a) = m
  BY <1>5
<1> QED
  BY <1>8, <1>9, <1>10, <1>11 DEF InOrderOf, feed, a

(* A list that is not empty has a first entry.                             *)
LEMMA FirstOfAgenda ==
    ASSUME NEW s \in Setups, NEW t \in Nat, Agenda(s.feed, t) # <<>>
    PROVE  /\ 1 \in 1..Len(Agenda(s.feed, t)) /\ Len(Agenda(s.feed, t)) \in Nat
           /\ Agenda(s.feed, t)[1].start \in Nat
<1> DEFINE feed == s.feed
           a == Agenda(feed, t)
           start == Starts(feed, t)
           E == [event : Resolved(start), start : Int]
<1>1. InOrderOf(feed, t, a) /\ a # <<>>
  BY AgendaInOrder
<1>2. AgendaSize \in Nat /\ a = Sorted(start, AgendaSize)
  BY ScheduleAssumption DEF Agenda
<1>3. Startable(start, Len(feed))
  BY FeedDated, StartComes DEF Startable, Starts
<1> HIDE DEF a, start
<1>4. a \in Seq(E)
  BY <1>2, <1>3, SortedLists
<1> HIDE DEF E
<1>5. Len(a) \in Nat \ {0}
  BY <1>1, <1>4, EmptySeq
<1>6. 1 \in 1..Len(a)
  BY <1>5
<1> QED
  BY <1>1, <1>5, <1>6 DEF InOrderOf, a

(* As long as the first has not begun, no start of any event changes.      *)
LEMMA AgendaStays ==
    ASSUME NEW s \in Setups, NEW t \in Nat,
           Agenda(s.feed, t) # <<>>, Agenda(s.feed, t)[1].start > t + 1
    PROVE  Agenda(s.feed, t + 1) = Agenda(s.feed, t)
<1> DEFINE feed == s.feed
           a == Agenda(feed, t)
<1>1. InOrderOf(feed, t, a) /\ a # <<>> /\ a[1].start > t + 1
  BY AgendaInOrder
<1>2. \A i \in DOMAIN feed : Dated(feed[i])
  BY FeedDated
<1>3. 1 \in 1..Len(a) /\ Len(a) \in Nat /\ a[1].start \in Nat
  BY FirstOfAgenda
<1> HIDE DEF feed, a
<1>5. ASSUME NEW i \in DOMAIN feed
      PROVE  StartAt(feed[i], t) = None \/ StartAt(feed[i], t) > t + 1
  <2>1. SUFFICES ASSUME StartAt(feed[i], t) # None PROVE StartAt(feed[i], t) > t + 1
    OBVIOUS
  <2>2. StartAt(feed[i], t) \in Int
    BY <1>2, StartComes
  <2>4. CASE \E n \in 1..Len(a) : a[n].event = i
    <3>1. PICK n \in 1..Len(a) : a[n].event = i
      BY <2>4
    <3>2. a[n].start = StartAt(feed[i], t)
      BY <1>1, <3>1 DEF InOrderOf
    <3>3. a[1].start <= a[n].start
      <4>1. CASE n = 1
        BY <1>3, <4>1
      <4>2. CASE n # 1
        <5>1. 1 < n
          BY <1>3, <4>2
        <5> QED
          BY <1>1, <1>3, <5>1 DEF InOrderOf
      <4> QED
        BY <4>1, <4>2
    <3> QED
      BY <1>1, <2>2, <1>3, <3>2, <3>3
  <2>5. CASE ~\E n \in 1..Len(a) : a[n].event = i
    <3>1. a[1].start <= StartAt(feed[i], t)
      BY <1>1, <2>1, <1>3, <2>5 DEF InOrderOf
    <3> QED
      BY <1>1, <2>2, <1>3, <3>1
  <2> QED
    BY <2>4, <2>5
<1>6. \A i \in DOMAIN feed : StartAt(feed[i], t + 1) = StartAt(feed[i], t)
  BY <1>2, <1>5, StartStays
<1>7. Starts(feed, t + 1) = Starts(feed, t)
  BY <1>6 DEF Starts
<1> QED
  BY <1>7 DEF Agenda, feed

-------------------------------------------------------------------------------
(* What is published is the sample event or the agenda of some poll, and   *)
(* an agenda whose first event is still to come is the one a poll would    *)
(* publish now.                                                            *)
AgendaInv ==
    /\ setup \in Setups /\ now \in Instants
    /\ mockStart \in Nat \cup {None}
    /\ calendar.urgent \in BOOLEAN
    /\ \/ calendar.entries = <<>>
       \/ /\ setup.mode = "mock" /\ mockStart \in Nat
          /\ calendar.entries = <<[event |-> 1, start |-> mockStart]>>
       \/ /\ setup.mode = "ics"
          /\ \E t \in Nat : calendar.entries = Agenda(setup.feed, t)
          /\ (calendar.entries # <<>> /\ calendar.entries[1].start > now)
                 => calendar.entries = Agenda(setup.feed, now)

LEMMA NowIsNat == ASSUME now \in Instants PROVE now \in Nat
<1>1. LastDay * Slots \in Int
  BY ScheduleAssumption, CalendarAssumption
<1> QED
  BY <1>1 DEF Instants

LEMMA MockStartIsTime ==
    ASSUME setup \in Setups, now \in Nat, mockStart \in Nat \cup {None}
    PROVE  MockStart \in Nat
<1>1. /\ setup.inSlots \in Nat /\ setup.atTime \in Nat /\ Slots \in Nat \ {0}
  BY SetupsAssumption, CalendarAssumption
<1>2. (now \div Slots) * Slots \in Nat
  <2>1. now \div Slots \in Nat
    BY <1>1
  <2> QED
    BY <1>1, <2>1
<1> QED
  BY <1>1, <1>2 DEF MockStart, None

LEMMA AgendaInvInit == Init => AgendaInv
<1>1. 0 \in Instants
  <2>1. LastDay * Slots \in Nat
    BY ScheduleAssumption, CalendarAssumption
  <2> QED
    BY <2>1 DEF Instants
<1> QED
  BY <1>1 DEF Init, AgendaInv, NoEvents

LEMMA AgendaInvStep == ASSUME AgendaInv, [Next]_vars PROVE AgendaInv'
<1>0. now \in Nat
  BY NowIsNat DEF AgendaInv
<1>1. CASE Tick
  <2>1. /\ now' = now + 1 /\ now' \in Instants
        /\ setup' = setup /\ mockStart' = mockStart /\ calendar' = calendar
    BY <1>1 DEF Tick, Instants
  <2>2. ASSUME calendar.entries = Agenda(setup.feed, now), calendar.entries # <<>>,
               calendar.entries[1].start > now + 1
        PROVE  calendar.entries = Agenda(setup.feed, now + 1)
    BY <1>0, <2>2, AgendaStays DEF AgendaInv
  <2>3. ASSUME setup.mode = "ics", NEW t \in Nat, calendar.entries = Agenda(setup.feed, t),
               calendar.entries # <<>>, calendar.entries[1].start > now + 1
        PROVE  calendar.entries[1].start > now
    <3>1. calendar.entries[1].start \in Nat
      BY <2>3, FirstOfAgenda DEF AgendaInv
    <3> QED
      BY <1>0, <2>3, <3>1
  <2> QED
    BY <2>1, <2>2, <2>3 DEF AgendaInv
<1>2. CASE PollICS
  <2>1. /\ setup.mode = "ics" /\ calendar' = Reading(Agenda(setup.feed, now))
        /\ setup' = setup /\ now' = now /\ mockStart' = mockStart
    BY <1>2, UpcomingIsAgenda DEF PollICS
  <2>2. calendar'.entries = Agenda(setup.feed, now) /\ calendar'.urgent \in BOOLEAN
    BY <2>1 DEF Reading
  <2> QED
    BY <1>0, <2>1, <2>2 DEF AgendaInv
<1>3. CASE PollMock
  <2>1. /\ setup.mode = "mock" /\ mockStart' = MockStart
        /\ calendar' = Reading(<<[event |-> 1, start |-> MockStart]>>)
        /\ setup' = setup /\ now' = now
    BY <1>3 DEF PollMock
  <2>2. MockStart \in Nat
    BY <1>0, MockStartIsTime DEF AgendaInv
  <2>3. /\ calendar'.entries = <<[event |-> 1, start |-> mockStart']>>
        /\ calendar'.urgent \in BOOLEAN
    BY <2>1 DEF Reading
  <2> QED
    BY <2>1, <2>2, <2>3 DEF AgendaInv
<1>4. CASE PollClock \/ UNCHANGED vars
  BY <1>4 DEF PollClock, vars, AgendaInv, Instants
<1> QED
  BY <1>1, <1>2, <1>3, <1>4 DEF Next

(* The readings have their types: no start before the time began, no more  *)
(* events than fit the panel, a time of day.                               *)
THEOREM ScheduleTypeCorrect == Spec => []TypeOK
<1>1. AgendaInv /\ ClockInv => TypeOK
  <2> SUFFICES ASSUME AgendaInv, ClockInv PROVE TypeOK
    OBVIOUS
  <2>1. /\ \A i \in DOMAIN calendar.entries : calendar.entries[i].start >= 0
        /\ Len(calendar.entries) <= AgendaSize
    <3>1. CASE calendar.entries = <<>>
      BY <3>1, ScheduleAssumption
    <3>2. CASE mockStart \in Nat /\ calendar.entries = <<[event |-> 1, start |-> mockStart]>>
      BY <3>2, ScheduleAssumption
    <3>3. ASSUME NEW t \in Nat, calendar.entries = Agenda(setup.feed, t)
          PROVE  /\ \A i \in DOMAIN calendar.entries : calendar.entries[i].start >= 0
                 /\ Len(calendar.entries) <= AgendaSize
      <4>1. InOrderOf(setup.feed, t, calendar.entries)
        BY <3>3, AgendaInOrder DEF AgendaInv
      <4> QED
        BY <4>1 DEF InOrderOf
    <3> QED
      BY <3>1, <3>2, <3>3 DEF AgendaInv
  <2>2. mockStart \in Int
    BY DEF AgendaInv, None
  <2>3. clock \in [time : 0..(Slots - 1), sleep : BOOLEAN]
    BY DEF ClockInv
  <2> QED
    BY <2>1, <2>2, <2>3 DEF TypeOK, AgendaInv
<1> QED
  BY <1>1, AgendaInvInit, AgendaInvStep, ClockInvInit, ClockInvStep, PTL DEF Spec

(* An event announced as next up stays next up until it begins, whatever   *)
(* the feed holds and however its rules repeat: a poll before that finds   *)
(* the same agenda, and the sample event is placed once.                   *)
THEOREM ScheduleNextUpIsStable == Spec => NextUpIsStable
<1> DEFINE Stays == (calendar.entries # <<>> /\ calendar.entries[1].start > now')
                       => calendar'.entries # <<>> /\ calendar'.entries[1] = calendar.entries[1]
<1>1. AgendaInv /\ [Next]_vars => [Stays]_vars
  <2> SUFFICES ASSUME AgendaInv, Next, calendar.entries # <<>>, calendar.entries[1].start > now'
               PROVE  calendar'.entries = calendar.entries
    BY DEF vars
  <2>1. CASE Tick \/ PollClock
    BY <2>1 DEF Tick, PollClock
  <2>2. CASE PollICS
    <3>1. /\ calendar'.entries = Agenda(setup.feed, now) /\ now' = now /\ setup.mode = "ics"
      BY <2>2, UpcomingIsAgenda DEF PollICS, Reading
    <3> QED
      BY <3>1 DEF AgendaInv
  <2>3. CASE PollMock
    <3>1. setup.mode = "mock" /\ calendar'.entries = <<[event |-> 1, start |-> MockStart]>>
      BY <2>3 DEF PollMock, Reading
    <3>2. mockStart \in Nat /\ calendar.entries = <<[event |-> 1, start |-> mockStart]>>
      BY <3>1 DEF AgendaInv
    <3>3. MockStart = mockStart
      BY <3>2 DEF MockStart, None
    <3> QED
      BY <3>1, <3>2, <3>3
  <2> QED
    BY <2>1, <2>2, <2>3 DEF Next
<1> QED
  BY <1>1, AgendaInvInit, AgendaInvStep, PTL DEF Spec, NextUpIsStable

(* What an ICS poll would publish at any time is sorted and cut rightly,   *)
(* for every feed: as many events as fit, none twice, each starting after  *)
(* now, in order, and one that is left out is over, or comes after the     *)
(* last of a full agenda.                                                  *)
THEOREM ScheduleAgendaInOrder == Spec => []InOrderOf(Feed, now, Upcoming(AgendaSize))
<1>1. AgendaInv => InOrderOf(Feed, now, Upcoming(AgendaSize))
  BY NowIsNat, AgendaInOrder, UpcomingIsAgenda DEF AgendaInv, Feed
<1> QED
  BY <1>1, AgendaInvInit, AgendaInvStep, PTL DEF Spec

-------------------------------------------------------------------------------
(* The expansion against the rule.  It has found the days a rule falls on  *)
(* when it found none but those, left out none before the last it found,   *)
(* and all of them or as many as the cap.                                  *)
FallDays(e) == {d \in Horizon : Falls(e, d)}

Expands(e) ==
    /\ CandidateOccurrences[e] \subseteq FallDays(e)
    /\ \A c \in CandidateOccurrences[e], d \in FallDays(e) : d < c => d \in CandidateOccurrences[e]
    /\ \/ CandidateOccurrences[e] = FallDays(e)
       \/ Cardinality(CandidateOccurrences[e]) >= RecurrenceCap

(* The periods the expansion may try.  A rule is expanded rightly when its *)
(* periods hold the days it falls on and nothing else, come in order, and  *)
(* are not empty but for the first.                                        *)
Tries == 0..(2 * RecurrenceCap + 1)

PeriodsRight(e) ==
    /\ \A i \in Tries : \A d \in Period(e, i) \cap Horizon : Falls(e, d)
    /\ \A i \in Tries : \A c \in Period(e, i), d \in FallDays(e) :
          d <= c => \E j \in 0..i : d \in Period(e, j)
    /\ \A i, j \in Tries : i < j => \A c \in Period(e, i), d \in Period(e, j) : c < d
    /\ \A i \in Tries \ {0} : Period(e, i) # {}

LEMMA PeriodsExpand ==
    ASSUME NEW e \in Series, PeriodsRight(e)
    PROVE  Expands(e)
<1> DEFINE cap == RecurrenceCap
           most == 2 * cap + 2
           Upto(n) == UNION {Period(e, i) : i \in 0..(n - 1)}
           Enough == {n \in 1..most : Cardinality(Upto(n)) >= cap \/ n = most}
           N == Least(Enough)
           C == CandidateOccurrences[e]
<1>1. cap \in Nat \ {0} /\ most \in Nat /\ most \in 1..most
  BY CalendarAssumption
<1>2. N \in Enough
  <2>1. Enough \in SUBSET Nat /\ most \in Enough
    BY <1>1
  <2> HIDE DEF Enough
  <2> QED
    BY <2>1, LeastIsLeast
<1>3. C = Upto(N)
  BY DEF CandidateOccurrences, Candidates
<1>4. N \in 1..most /\ (Cardinality(Upto(N)) >= cap \/ N = most)
  <2> HIDE DEF N, Upto
  <2> QED
    BY <1>2
<1>5. C \subseteq Horizon /\ C \subseteq Nat /\ IsFiniteSet(C) /\ Cardinality(C) \in Nat
  BY CandidatesAreDays, HorizonIsDays
<1> HIDE DEF N, Enough
<1>6. /\ \A i \in 0..(N - 1) : Period(e, i) \subseteq C
      /\ \A d \in C : \E i \in 0..(N - 1) : d \in Period(e, i)
  <2> HIDE DEF C
  <2> QED
    BY <1>3
<1> HIDE DEF C, Upto
<1>7. 0..(N - 1) \subseteq Tries
  BY <1>1, <1>4 DEF Tries
<1>8. C \subseteq FallDays(e)
  <2> SUFFICES ASSUME NEW d \in C PROVE d \in Horizon /\ Falls(e, d)
    BY DEF FallDays
  <2>1. PICK i \in 0..(N - 1) : d \in Period(e, i)
    BY <1>6
  <2> QED
    BY <1>5, <1>7, <2>1 DEF PeriodsRight
<1>9. ASSUME NEW c \in C, NEW d \in FallDays(e), d < c PROVE d \in C
  <2>1. PICK i \in 0..(N - 1) : c \in Period(e, i)
    BY <1>6
  <2>2. d \in Nat /\ c \in Nat
    BY <1>5, HorizonIsDays DEF FallDays
  <2>3. PICK j \in 0..i : d \in Period(e, j)
    BY <1>7, <1>9, <2>1, <2>2 DEF PeriodsRight
  <2>4. j \in 0..(N - 1)
    BY <1>4
  <2> QED
    BY <1>6, <2>3, <2>4
<1>10. CASE N = most
  <2> DEFINE f == [i \in 1..cap |-> CHOOSE d \in Period(e, i) : TRUE]
  <2>1. ASSUME NEW i \in 1..cap
        PROVE  i \in Tries \ {0} /\ i \in 0..(N - 1)
    BY <1>1, <1>10 DEF Tries
  <2>2. ASSUME NEW i \in 1..cap
        PROVE  f[i] \in Period(e, i) /\ f[i] \in C
    <3>1. Period(e, i) # {}
      BY <2>1 DEF PeriodsRight
    <3>2. f[i] \in Period(e, i)
      BY <3>1
    <3> QED
      BY <1>6, <2>1, <3>2
  <2>3. ASSUME NEW i \in 1..cap, NEW j \in 1..cap, i < j
        PROVE  f[i] # f[j]
    <3>1. f[i] < f[j]
      BY <2>1, <2>2, <2>3 DEF PeriodsRight
    <3>2. f[i] \in Nat
      BY <1>5, <2>2
    <3> HIDE DEF f
    <3> QED
      BY <3>1, <3>2
  <2>4. f \in Injection(1..cap, C)
    <3>1. f \in [1..cap -> C]
      BY <2>2
    <3>2. \A i, j \in 1..cap : f[i] = f[j] => i = j
      <4> SUFFICES ASSUME NEW i \in 1..cap, NEW j \in 1..cap, f[i] = f[j], i # j PROVE FALSE
        OBVIOUS
      <4>1. i < j \/ j < i
        OBVIOUS
      <4> HIDE DEF f
      <4> QED
        BY <2>3, <4>1
    <3> HIDE DEF f
    <3> QED
      BY <3>1, <3>2 DEF Injection, IsInjective
  <2>5. Cardinality(1..cap) = cap
    BY <1>1, FS_Interval
  <2> HIDE DEF f
  <2>6. Cardinality(1..cap) <= Cardinality(C)
    BY <1>5, <2>4, FS_Injection
  <2> QED
    BY <1>1, <1>5, <1>8, <1>9, <2>5, <2>6 DEF Expands, C
<1>11. CASE Cardinality(Upto(N)) >= cap
  BY <1>3, <1>8, <1>9, <1>11 DEF Expands, C
<1> QED
  BY <1>4, <1>10, <1>11

(* A number is a multiple of another exactly if nothing remains.           *)
LEMMA MultipleOf ==
    ASSUME NEW x \in Int, NEW m \in Nat \ {0}
    PROVE  x % m = 0 <=> \E k \in Int : x = k * m
<1>1. ASSUME x % m = 0 PROVE \E k \in Int : x = k * m
  <2>1. x = (x \div m) * m /\ x \div m \in Int
    BY <1>1
  <2> QED
    BY <2>1
<1>2. ASSUME NEW k \in Int PROVE (k * m) % m = 0
  OBVIOUS
<1> QED
  BY <1>1, <1>2

(* Multiples are as far apart as what they are multiples of.               *)
LEMMA MultiplesApart ==
    ASSUME NEW i \in Int, NEW j \in Int, NEW m \in Nat \ {0}
    PROVE  /\ i * m \in Int /\ j * m \in Int
           /\ i < j <=> i * m + m <= j * m
           /\ i <= j <=> i * m <= j * m
<1>1. ASSUME NEW a \in Int, NEW b \in Int, a < b PROVE a * m + m <= b * m
  <2>1. PICK k \in Nat : b = a + 1 + k
    <3>1. b - a - 1 \in Nat /\ b = a + 1 + (b - a - 1)
      BY <1>1
    <3> QED
      BY <3>1
  <2>2. b * m = a * m + m + k * m /\ k * m \in Nat /\ a * m \in Int
    BY <2>1
  <2> QED
    BY <2>2
<1>2. i * m \in Int /\ j * m \in Int
  OBVIOUS
<1>3. i < j => i * m + m <= j * m
  BY <1>1
<1>4. j < i => j * m + m <= i * m
  BY <1>1
<1>5. i = j => i * m = j * m
  OBVIOUS
<1>6. i < j \/ j < i \/ i = j
  OBVIOUS
<1> DEFINE a == i * m
           b == j * m
<1>7. a \in Int /\ b \in Int /\ (i < j => a + m <= b) /\ (j < i => b + m <= a) /\ (i = j => a = b)
  BY <1>2, <1>3, <1>4, <1>5
<1> HIDE DEF a, b
<1>8. (i < j <=> a + m <= b) /\ (i <= j <=> a <= b)
  BY <1>6, <1>7
<1> QED
  BY <1>2, <1>8 DEF a, b

(* A rule that repeats every so many days, by DAILY or by a week's day.    *)
LEMMA EveryStepExpands ==
    ASSUME NEW e \in Series, NEW step \in Nat \ {0},
           \A i \in Tries : Period(e, i) = {e.day + i * step},
           \A d \in Horizon : Falls(e, d) <=> d >= e.day /\ (d - e.day) % step = 0
    PROVE  Expands(e)
<1>0. e.day \in Nat /\ Tries \subseteq Nat /\ RecurrenceCap \in Nat
  BY SeriesAssumption, CalendarAssumption DEF Tries
<1>1. ASSUME NEW i \in Tries, e.day + i * step \in Horizon
      PROVE  Falls(e, e.day + i * step)
  <2>1. i * step \in Nat /\ (i * step) % step = 0
    BY <1>0, MultipleOf
  <2>2. (e.day + i * step) - e.day = i * step /\ e.day + i * step >= e.day
    BY <1>0, <2>1
  <2> QED
    BY <1>1, <2>1, <2>2
<1>2. ASSUME NEW i \in Tries, NEW d \in FallDays(e), d <= e.day + i * step
      PROVE  \E j \in 0..i : d \in Period(e, j)
  <2>1. d \in Nat /\ d >= e.day /\ (d - e.day) % step = 0
    BY HorizonIsDays DEF FallDays
  <2>2. PICK j \in Int : d - e.day = j * step
    <3>1. d - e.day \in Int
      BY <1>0, <2>1
    <3> QED
      BY <2>1, <3>1, MultipleOf
  <2>3. 0 * step = 0 /\ 0 * step <= j * step /\ j * step <= i * step /\ j * step \in Int
    BY <1>0, <1>2, <2>1, <2>2
  <2>4. j \in 0..i
    <3>1. 0 <= j
      BY <2>3, MultiplesApart
    <3>2. j <= i
      BY <1>0, <2>3, MultiplesApart
    <3> QED
      BY <1>0, <3>1, <3>2
  <2>5. d = e.day + j * step /\ j \in Tries
    BY <1>0, <2>1, <2>2, <2>3, <2>4 DEF Tries
  <2> QED
    BY <2>4, <2>5
<1>3. ASSUME NEW i \in Tries, NEW j \in Tries, i < j
      PROVE  e.day + i * step < e.day + j * step
  <2>1. i * step + step <= j * step /\ i * step \in Int /\ j * step \in Int
    BY <1>0, <1>3, MultiplesApart
  <2> QED
    BY <1>0, <2>1
<1>4. PeriodsRight(e)
  BY <1>1, <1>2, <1>3 DEF PeriodsRight
<1> QED
  BY <1>4, PeriodsExpand

(* A daily rule is expanded to the first days it falls on, as many as the  *)
(* cap, whatever its interval and its first day.                           *)
THEOREM DailyExpands ==
    ASSUME NEW e \in Series, e.freq = "DAILY"
    PROVE  Expands(e)
<1>0. e.day \in Nat /\ e.interval \in Nat \ {0} /\ Tries \subseteq Nat
  BY SeriesAssumption DEF Tries
<1>1. ASSUME NEW i \in Tries PROVE Period(e, i) = {e.day + i * e.interval}
  <2>1. e.day + i * e.interval >= e.day
    BY <1>0
  <2>2. Period(e, i) = {d \in {e.day + i * e.interval} : d >= e.day}
    BY DEF Period
  <2> QED
    BY <2>1, <2>2
<1>2. ASSUME NEW d \in Horizon
      PROVE  Falls(e, d) <=> d >= e.day /\ (d - e.day) % e.interval = 0
  BY DEF Falls
<1> QED
  BY <1>0, <1>1, <1>2, EveryStepExpands

(* A date is so many days past a Monday, by its weekday.                   *)
LEMMA WeekdayPast ==
    ASSUME NEW m \in Int, NEW w \in 0..6
    PROVE  (7 * m + w) % 7 = w
OBVIOUS

LEMMA MondayBefore ==
    ASSUME NEW d \in Nat
    PROVE  \E m \in Nat : d = 7 * m + Weekday(d) /\ Weekday(d) \in 0..6
<1>1. d = 7 * (d \div 7) + (d % 7) /\ d \div 7 \in Nat /\ d % 7 \in 0..6
  OBVIOUS
<1> QED
  BY <1>1 DEF Weekday

(* A weekly rule, on the first day's weekday or on those it names.         *)
THEOREM WeeklyExpands ==
    ASSUME NEW e \in Series, e.freq = "WEEKLY"
    PROVE  Expands(e)
<1> DEFINE step == 7 * e.interval
           monday == e.day - Weekday(e.day)
<1>0. /\ e.day \in Nat /\ e.interval \in Nat \ {0} /\ e.by \subseteq 0..6
      /\ Tries \subseteq Nat /\ step \in Nat \ {0} /\ RecurrenceCap \in Nat
  <2>1. e.day \in Nat /\ e.interval \in Nat \ {0} /\ e.by \subseteq 0..6
    BY SeriesAssumption
  <2>2. Tries \subseteq Nat /\ RecurrenceCap \in Nat
    BY CalendarAssumption DEF Tries
  <2> QED
    BY <2>1, <2>2
<1>1. ASSUME NEW i \in Nat PROVE 7 * i * e.interval = i * step /\ i * step \in Nat
  <2>1. ASSUME NEW n \in Nat PROVE 7 * i * n = i * (7 * n) /\ i * (7 * n) \in Nat
    OBVIOUS
  <2> QED
    BY <1>0, <2>1
<1>2. PICK m0 \in Nat : e.day = 7 * m0 + Weekday(e.day) /\ Weekday(e.day) \in 0..6
  BY <1>0, MondayBefore
<1>3. ASSUME NEW d \in Horizon
      PROVE  Falls(e, d) <=> /\ d >= e.day
                             /\ Weekday(d) \in (IF e.by = {} THEN {Weekday(e.day)} ELSE e.by)
                             /\ ((d - Weekday(d)) - monday) % step = 0
  BY DEF Falls
<1>4. CASE e.by = {}
  <2>1. ASSUME NEW i \in Tries PROVE Period(e, i) = {e.day + i * step}
    <3>1. Period(e, i) = {d \in {e.day + 7 * i * e.interval} : d >= e.day}
      BY <1>4 DEF Period
    <3>2. i \in Nat /\ 7 * i * e.interval = i * step /\ i * step \in Nat
      BY <1>0, <1>1
    <3> HIDE DEF step
    <3>3. e.day + i * step >= e.day
      BY <1>0, <3>2
    <3> QED
      BY <3>1, <3>2, <3>3
  <2>2. ASSUME NEW d \in Horizon
        PROVE  Falls(e, d) <=> d >= e.day /\ (d - e.day) % step = 0
    <3>0. d \in Nat
      BY HorizonIsDays
    <3>1. PICK m \in Nat : d = 7 * m + Weekday(d) /\ Weekday(d) \in 0..6
      BY <3>0, MondayBefore
    <3>2. Weekday(d) = Weekday(e.day) => (d - Weekday(d)) - monday = d - e.day
      BY <1>0, <1>2, <3>0, <3>1
    <3>3. ASSUME (d - e.day) % step = 0 PROVE Weekday(d) = Weekday(e.day)
      <4>1. PICK k \in Int : d - e.day = k * step
        <5>1. d - e.day \in Int
          BY <1>0, <3>0
        <5> QED
          BY <1>0, <3>3, <5>1, MultipleOf
      <4> DEFINE n == k * e.interval
      <4>2. n \in Int /\ k * step = 7 * n
        BY <1>0
      <4> HIDE DEF n, step
      <4>3. d = 7 * (m0 + n) + Weekday(e.day)
        BY <1>0, <1>2, <3>0, <4>1, <4>2
      <4>4. Weekday(d) = Weekday(e.day)
        BY <1>2, <4>2, <4>3, WeekdayPast DEF Weekday
      <4> QED
        BY <4>4
    <3> HIDE DEF step, monday
    <3> QED
      BY <1>3, <1>4, <3>2, <3>3
  <2> HIDE DEF step
  <2> QED
    BY <1>0, <2>1, <2>2, EveryStepExpands
<1>5. CASE e.by # {}
  <2>1. monday \in Nat /\ monday = 7 * m0 /\ monday <= e.day /\ e.day < monday + 7
    BY <1>0, <1>2
  <2>2. step >= 7
    BY <1>0
  <2>3. ASSUME NEW i \in Tries
        PROVE  Period(e, i) = {d \in {monday + i * step + w : w \in e.by} : d >= e.day}
    <3>1. Period(e, i) = {d \in {monday + 7 * i * e.interval + w : w \in e.by} : d >= e.day}
      BY <1>5 DEF Period
    <3>2. 7 * i * e.interval = i * step
      BY <1>0, <1>1
    <3> QED
      BY <3>1, <3>2
  <2>4. ASSUME NEW i \in Int
        PROVE  i * step \in Int /\ \E n \in Int : monday + i * step = 7 * n
    <3>1. i * step = 7 * (i * e.interval) /\ i * e.interval \in Int
      BY <1>0
    <3> HIDE DEF step, monday
    <3>2. monday + i * step = 7 * (m0 + i * e.interval) /\ m0 + i * e.interval \in Int
      BY <2>1, <3>1
    <3> QED
      BY <3>1, <3>2
  <2> HIDE DEF step, monday
  <2>5. ASSUME NEW i \in Tries, NEW d \in Period(e, i), d \in Horizon
        PROVE  Falls(e, d)
    <3>1. PICK w \in e.by : d = monday + i * step + w /\ d >= e.day
      BY <2>3, <2>5
    <3>2. w \in 0..6 /\ i \in Int
      BY <1>0
    <3>3. PICK n \in Int : monday + i * step = 7 * n
      BY <2>4, <3>2
    <3>4. Weekday(d) = w
      BY <3>1, <3>2, <3>3, WeekdayPast DEF Weekday
    <3>5. (d - Weekday(d)) - monday = i * step
      BY <2>1, <2>4, <3>1, <3>2, <3>4
    <3>6. (i * step) % step = 0
      BY <1>0, <2>4, <3>2, MultipleOf
    <3> QED
      BY <1>3, <1>5, <2>5, <3>1, <3>4, <3>5, <3>6
  <2>6. ASSUME NEW i \in Tries, NEW c \in Period(e, i), NEW d \in FallDays(e), d <= c
        PROVE  \E j \in 0..i : d \in Period(e, j)
    <3> DEFINE w == Weekday(d)
    <3>1. d \in Nat /\ d >= e.day /\ w \in e.by /\ w \in 0..6 /\ ((d - w) - monday) % step = 0
      BY <1>0, <1>3, <1>5, HorizonIsDays DEF FallDays
    <3> HIDE DEF w
    <3>2. (d - w) - monday \in Int
      BY <2>1, <3>1
    <3>3. PICK j \in Int : (d - w) - monday = j * step
      BY <1>0, <3>1, <3>2, MultipleOf
    <3>4. PICK u \in e.by : c = monday + i * step + u /\ u \in 0..6
      BY <1>0, <2>3
    <3>5. i \in Int /\ i * step \in Int /\ j * step \in Int /\ d = monday + j * step + w
      BY <1>0, <2>1, <2>4, <3>1, <3>3
    <3>6. 0 <= j
      <4>1. (-1) * step = 0 - step
        BY <1>0
      <4>2. ~(j * step <= (-1) * step)
        BY <1>0, <2>1, <2>2, <3>1, <3>5, <4>1
      <4>3. ~(j <= -1)
        BY <1>0, <4>2, MultiplesApart
      <4> QED
        BY <4>3
    <3>7. j <= i
      <4>1. ~(i * step + step <= j * step)
        BY <1>0, <2>1, <2>2, <2>6, <3>1, <3>4, <3>5
      <4>2. ~(i < j)
        BY <1>0, <3>5, <4>1, MultiplesApart
      <4> QED
        BY <3>5, <4>2
    <3>8. j \in 0..i /\ j \in Tries
      BY <1>0, <3>5, <3>6, <3>7 DEF Tries
    <3> QED
      BY <2>3, <3>1, <3>5, <3>8
  <2>7. ASSUME NEW i \in Tries, NEW j \in Tries, i < j,
               NEW c \in Period(e, i), NEW d \in Period(e, j)
        PROVE  c < d
    <3>1. PICK u \in e.by : c = monday + i * step + u /\ u \in 0..6
      BY <1>0, <2>3
    <3>2. PICK w \in e.by : d = monday + j * step + w /\ w \in 0..6
      BY <1>0, <2>3
    <3>3. i * step + step <= j * step /\ i * step \in Int /\ j * step \in Int
      BY <1>0, <2>7, MultiplesApart
    <3> QED
      BY <1>0, <2>1, <2>2, <3>1, <3>2, <3>3
  <2>8. ASSUME NEW i \in Tries \ {0} PROVE Period(e, i) # {}
    <3>1. PICK w \in e.by : w \in 0..6
      BY <1>0, <1>5
    <3>2. i \in Int /\ 0 \in Int /\ 0 < i /\ 0 * step = 0
      BY <1>0
    <3>3. 0 * step + step <= i * step /\ i * step \in Int
      BY <1>0, <3>2, MultiplesApart
    <3>4. monday + i * step + w >= e.day
      BY <1>0, <2>1, <2>2, <3>1, <3>2, <3>3
    <3> QED
      BY <2>3, <3>4
  <2>9. PeriodsRight(e)
    BY <2>5, <2>6, <2>7, <2>8 DEF PeriodsRight
  <2> QED
    BY <2>9, PeriodsExpand
<1> QED
  BY <1>4, <1>5

-------------------------------------------------------------------------------
(* Where an event stands is where the rule puts it: at the first day to    *)
(* come on which the event falls, within COUNT and UNTIL.  It stands       *)
(* nowhere when there is none, or none among the first the cap allows.     *)
ComingAt(e, t) ==
    {d \in DOMAIN Calendar[e] : At(e, d) > t /\ (e.count = 0 \/ Calendar[e][d] <= e.count)}

StartRight(e, t) ==
    /\ StartAt(e, t) # None =>
          ComingAt(e, t) # {} /\ StartAt(e, t) = At(e, Least(ComingAt(e, t)))
    /\ StartAt(e, t) = None =>
          ComingAt(e, t) = {} \/ Calendar[e][Least(ComingAt(e, t))] > RecurrenceCap

LEMMA CalendarCounts ==
    ASSUME NEW e \in Events
    PROVE  /\ DOMAIN Calendar[e] = Days(e) /\ Days(e) \subseteq Horizon
           /\ \A d \in Days(e) : Calendar[e][d] = Cardinality({x \in Days(e) : x <= d})
BY DEF Calendar, Ordinals, Days

LEMMA UnsupportedStart ==
    ASSUME NEW e \in Events, NEW t \in Nat, e.freq = "UNSUPPORTED"
    PROVE  StartRight(e, t)
<1>1. \A d : ~Falls(e, d)
  BY DEF Falls
<1>2. ComingAt(e, t) = {}
  BY <1>1, CalendarCounts DEF ComingAt, Days
<1> QED
  BY <1>2 DEF StartRight, StartAt

LEMMA OnceStart ==
    ASSUME NEW e \in Events, Dated(e), NEW t \in Nat, e.freq = "ONCE",
           e.day \in Horizon, e.count = 0, e.until = None
    PROVE  StartRight(e, t)
<1>1. e.day \in Nat /\ At(e, e.day) \in Int /\ 0 <= At(e, e.day)
  BY DaysInOrder DEF Dated
<1>2. \A d \in Horizon : Falls(e, d) <=> d = e.day
  <2> SUFFICES ASSUME NEW d \in Horizon PROVE Falls(e, d) <=> d = e.day
    OBVIOUS
  <2>1. d \in Nat
    BY HorizonIsDays
  <2> QED
    BY <1>1, <2>1 DEF Falls
<1>3. Days(e) = {e.day}
  BY <1>2 DEF Days
<1>4. ComingAt(e, t) = {d \in {e.day} : At(e, d) > t}
  BY <1>3, CalendarCounts DEF ComingAt
<1>5. CASE At(e, e.day) > t
  <2>1. ComingAt(e, t) = {e.day}
    BY <1>4, <1>5
  <2>2. Least(ComingAt(e, t)) = e.day
    BY <1>1, <2>1 DEF Least
  <2> QED
    BY <1>1, <1>5, <2>1, <2>2 DEF StartRight, StartAt, None
<1>6. CASE ~(At(e, e.day) > t)
  BY <1>4, <1>6 DEF StartRight, StartAt
<1> QED
  BY <1>5, <1>6

(* The days left to an expansion are the days to come that it found.       *)
LEMMA LeftIsComing ==
    ASSUME NEW e \in Series, e \in Events, Dated(e), Expands(e), NEW t \in Nat
    PROVE  Left(e, t) = ComingAt(e, t) \cap CandidateOccurrences[e]
<1> DEFINE C == CandidateOccurrences[e]
           F == FallDays(e)
           D == Days(e)
<1>1. /\ C \subseteq F /\ F \subseteq Horizon /\ Horizon \subseteq Nat
      /\ \A c \in C, d \in F : d < c => d \in C
  BY HorizonIsDays DEF Expands, FallDays
<1>2. D = {d \in F : e.until = None \/ At(e, d) <= e.until}
  BY DEF Days, FallDays
<1>3. /\ DOMAIN Calendar[e] = D
      /\ \A d \in D : Calendar[e][d] = Cardinality({x \in D : x <= d})
  BY CalendarCounts
<1>4. e.count \in Nat /\ e.until \in Int
  BY SeriesAssumption
<1> HIDE DEF F, D
<1>5. ASSUME NEW d \in C, d \in D
      PROVE  Before(C, d) < e.count <=> Calendar[e][d] <= e.count
  <2> DEFINE B == {x \in C : x < d}
             U == {x \in D : x <= d}
  <2>1. B = U \ {d} /\ d \in U
    <3>1. ASSUME NEW x \in B PROVE x \in U \ {d}
      <4>1. x \in C /\ x < d /\ x \in Nat /\ d \in Nat /\ x \in F
        BY <1>1, <1>5
      <4>2. At(e, x) <= At(e, d) /\ At(e, x) \in Int /\ At(e, d) \in Int
        BY <4>1, DaysInOrder
      <4>3. e.until = None \/ At(e, x) <= e.until
        BY <1>2, <1>4, <1>5, <4>2
      <4> QED
        BY <1>2, <4>1, <4>3
    <3>2. ASSUME NEW x \in U, x # d PROVE x \in B
      <4>1. x \in F /\ x <= d /\ x \in Nat /\ d \in Nat
        BY <1>1, <1>2, <1>5
      <4> QED
        BY <1>1, <3>2, <4>1
    <3>3. d \in U
      <4>1. d \in Nat
        BY <1>1, <1>5
      <4> QED
        BY <1>5, <4>1
    <3> QED
      BY <3>1, <3>2, <3>3
  <2>2. IsFiniteSet(U) /\ Cardinality(U) \in Nat
    <3>1. U \in SUBSET Horizon
      BY <1>1, <1>2
    <3> QED
      BY <3>1, HorizonIsDays
  <2>3. Cardinality(U \ {d}) = Cardinality(U) - 1
    <3> HIDE DEF U
    <3> QED
      BY <2>1, <2>2, FS_RemoveElement
  <2>4. Before(C, d) = Cardinality(U) - 1 /\ Calendar[e][d] = Cardinality(U)
    BY <1>3, <1>5, <2>1, <2>3 DEF Before
  <2> HIDE DEF U
  <2> QED
    BY <1>4, <2>2, <2>4
<1> QED
  BY <1>1, <1>2, <1>3, <1>5 DEF Left, ComingAt

LEMMA SeriesStart ==
    ASSUME NEW e \in Series, e \in Events, Dated(e), Expands(e), NEW t \in Nat
    PROVE  StartRight(e, t)
<1> DEFINE C == CandidateOccurrences[e]
           G == ComingAt(e, t)
           L == Left(e, t)
           first == Least(G)
<1>1. e.freq \notin {"ONCE", "UNSUPPORTED"}
  BY SeriesAssumption
<1>2. StartAt(e, t) = Timed(e, FirstOf(L))
  BY <1>1, NextIsLeastLeft DEF StartAt
<1>3. L = G \cap C /\ L \in SUBSET Nat
  BY LeftIsComing, NextIsLeastLeft
<1>4. /\ C \subseteq FallDays(e) /\ G \subseteq FallDays(e) /\ FallDays(e) \subseteq Nat
      /\ \A c \in C, d \in FallDays(e) : d < c => d \in C
      /\ C = FallDays(e) \/ Cardinality(C) >= RecurrenceCap
  BY CalendarCounts, HorizonIsDays DEF Expands, FallDays, ComingAt, Days
<1>5. G # {} => first \in G /\ \A d \in G : first <= d
  BY <1>4, LeastIsLeast
<1>6. L # {} => /\ Least(L) \in L /\ \A d \in L : Least(L) <= d
                /\ StartAt(e, t) = At(e, Least(L))
  <2>1. t \in Int
    OBVIOUS
  <2> QED
    BY <1>2, <2>1, NextIsLeastLeft
<1>7. L = {} => StartAt(e, t) = None
  <2>1. t \in Int
    OBVIOUS
  <2> QED
    BY <1>2, <2>1, NextIsLeastLeft
<1> HIDE DEF C, L, first
<1>8. CASE L # {}
  <2>1. Least(L) \in G /\ Least(L) \in C /\ Least(L) \in Nat
    BY <1>3, <1>6, <1>8
  <2>2. first \in G /\ first \in Nat /\ first <= Least(L)
    BY <1>4, <1>5, <2>1
  <2>3. first \in L
    <3>1. first = Least(L) \/ first < Least(L)
      BY <2>1, <2>2
    <3> QED
      BY <1>3, <1>4, <2>1, <2>2, <3>1
  <2>4. first = Least(L)
    BY <1>6, <1>8, <2>1, <2>2, <2>3
  <2>5. At(e, first) # None
    BY <2>2, DaysInOrder DEF None
  <2> QED
    BY <1>6, <1>8, <2>1, <2>4, <2>5 DEF StartRight, first
<1>9. CASE L = {} /\ G # {}
  <2>1. first \in G /\ first \notin C /\ first \in Nat /\ first \in FallDays(e)
    BY <1>3, <1>4, <1>5, <1>9
  <2>2. Cardinality(C) >= RecurrenceCap
    BY <1>4, <2>1
  <2> DEFINE U == {x \in Days(e) : x <= first}
  <2>3. first \in Days(e) /\ Calendar[e][first] = Cardinality(U)
    BY <2>1, CalendarCounts DEF ComingAt
  <2>4. ASSUME NEW c \in C PROVE c \in U \ {first}
    <3>1. c \in Nat /\ c \in FallDays(e) /\ c < first
      <4>1. c \in Nat /\ c \in FallDays(e) /\ ~(first < c) /\ c # first
        BY <1>4, <2>1
      <4> QED
        BY <2>1, <4>1
    <3>2. At(e, c) <= At(e, first) /\ At(e, c) \in Int /\ At(e, first) \in Int
      BY <2>1, <3>1, DaysInOrder
    <3>3. e.until = None \/ At(e, c) <= e.until
      BY <2>3, <3>2, SeriesAssumption DEF Days
    <3>4. c \in Days(e)
      BY <3>1, <3>3 DEF Days, FallDays
    <3> QED
      BY <2>1, <3>1, <3>4
  <2>5. IsFiniteSet(U) /\ Cardinality(U) \in Nat /\ first \in U
    <3>1. U \in SUBSET Horizon
      BY DEF Days
    <3> QED
      BY <2>1, <2>3, <3>1, HorizonIsDays
  <2> HIDE DEF U
  <2>6. IsFiniteSet(U \ {first}) /\ Cardinality(U \ {first}) = Cardinality(U) - 1
    BY <2>5, FS_RemoveElement
  <2>7. Cardinality(C) <= Cardinality(U \ {first}) /\ Cardinality(C) \in Nat
    <3>1. C \in SUBSET (U \ {first})
      BY <2>4
    <3> QED
      BY <2>6, <3>1, FS_Subset, FS_CardinalityType
  <2>8. Cardinality(U) > RecurrenceCap
    BY <2>2, <2>5, <2>6, <2>7, CalendarAssumption
  <2> QED
    BY <1>7, <1>9, <2>3, <2>8 DEF StartRight, first
<1>10. CASE G = {}
  BY <1>3, <1>7, <1>10 DEF StartRight
<1> QED
  BY <1>8, <1>9, <1>10

(* Every event of every feed stands where its rule puts it.                *)
LEMMA FeedStarts ==
    ASSUME NEW s \in Setups, NEW i \in DOMAIN s.feed, NEW t \in Nat,
           \A e \in Series : Expands(e)
    PROVE  s.feed[i] \in Events /\ Dated(s.feed[i]) /\ StartRight(s.feed[i], t)
<1> DEFINE e == s.feed[i]
<1>1. e \in Events /\ Dated(e)
  BY FeedDated DEF Events
<1>2. e.freq = "ONCE" => e.day \in Horizon /\ e.count = 0 /\ e.until = None
  BY SetupsAssumption, HorizonIsDays
<1> HIDE DEF e
<1>3. e.freq = "UNSUPPORTED" => StartRight(e, t)
  BY <1>1, UnsupportedStart
<1>4. e.freq = "ONCE" => StartRight(e, t)
  BY <1>1, <1>2, OnceStart
<1>5. e \in Series => StartRight(e, t)
  BY <1>1, SeriesStart
<1> QED
  BY <1>1, <1>3, <1>4, <1>5 DEF Dated, e

LEMMA AgendaIsRight ==
    ASSUME setup \in Setups, now \in Nat, \A e \in Series : Expands(e)
    PROVE  AgendaMatchesRules
<1> DEFINE a == Upcoming(AgendaSize)
           shown == {a[n].event : n \in DOMAIN a}
           coming == [i \in DOMAIN Feed |-> Coming(Feed[i])]
           m == Len(a)
<1>1. InOrderOf(Feed, now, a)
  BY AgendaInOrder, UpcomingIsAgenda DEF Feed
<1>2. \A i \in DOMAIN Feed : StartRight(Feed[i], now) /\ Feed[i] \in Events /\ Dated(Feed[i])
  BY FeedStarts DEF Feed
<1>3. \A i \in DOMAIN Feed : coming[i] = ComingAt(Feed[i], now)
  BY DEF Coming, ComingAt
<1>4. \A i \in DOMAIN Feed : coming[i] # {} =>
          /\ Least(coming[i]) \in coming[i] /\ Least(coming[i]) \in Nat
          /\ At(Feed[i], Least(coming[i])) > now
  <2> SUFFICES ASSUME NEW i \in DOMAIN Feed, coming[i] # {}
               PROVE  /\ Least(coming[i]) \in coming[i] /\ Least(coming[i]) \in Nat
                      /\ At(Feed[i], Least(coming[i])) > now
    OBVIOUS
  <2>1. coming[i] = ComingAt(Feed[i], now)
    BY <1>3
  <2> HIDE DEF coming
  <2>2. coming[i] \in SUBSET Nat
    BY <1>2, <2>1, CalendarCounts, HorizonIsDays DEF ComingAt
  <2>3. Least(coming[i]) \in coming[i]
    BY <2>2, LeastIsLeast
  <2> QED
    BY <2>1, <2>2, <2>3 DEF ComingAt
<1>5. /\ m \in Nat /\ m <= AgendaSize /\ DOMAIN a = 1..m
      /\ \A n \in 1..m : /\ a[n].event \in DOMAIN Feed /\ a[n].start \in Nat
                         /\ a[n].start = StartAt(Feed[a[n].event], now)
      /\ \A k, n \in 1..m : k < n => a[k].start <= a[n].start /\ a[k].event # a[n].event
      /\ \A i \in DOMAIN Feed :
            \/ StartAt(Feed[i], now) = None
            \/ \E n \in 1..m : a[n].event = i
            \/ m = AgendaSize /\ \A n \in 1..m : a[n].start <= StartAt(Feed[i], now)
  BY <1>1 DEF InOrderOf
<1>6. AgendaSize \in Nat \ {0}
  BY ScheduleAssumption
<1>7. shown = {a[n].event : n \in 1..m}
  BY <1>5
<1> HIDE DEF a, coming, m, shown
<1>8. Cardinality(shown) = m
  <2> DEFINE f == [n \in 1..m |-> a[n].event]
  <2>1. f \in [1..m -> shown]
    BY <1>7
  <2>2. \A k, n \in 1..m : f[k] = f[n] => k = n
    <3> SUFFICES ASSUME NEW k \in 1..m, NEW n \in 1..m, f[k] = f[n], k # n PROVE FALSE
      OBVIOUS
    <3>1. k < n \/ n < k
      BY <1>5
    <3>2. f[k] = a[k].event /\ f[n] = a[n].event
      OBVIOUS
    <3> HIDE DEF f
    <3> QED
      BY <1>5, <3>1, <3>2
  <2>3. \A i \in shown : \E n \in 1..m : f[n] = i
    BY <1>7
  <2> HIDE DEF f
  <2>4. f \in Bijection(1..m, shown)
    BY <2>1, <2>2, <2>3 DEF Bijection, Injection, Surjection, IsInjective
  <2>5. IsFiniteSet(1..m) /\ Cardinality(1..m) = m
    BY <1>5, FS_Interval
  <2> QED
    BY <2>4, <2>5, FS_Bijection DEF ExistsBijection
<1>9. ASSUME NEW n \in 1..m
      PROVE  LET i == a[n].event
             IN  coming[i] # {} /\ a[n].start = At(Feed[i], Least(coming[i]))
  <2> DEFINE i == a[n].event
  <2>1. i \in DOMAIN Feed /\ a[n].start = StartAt(Feed[i], now) /\ a[n].start \in Nat
    BY <1>5
  <2> HIDE DEF i
  <2>2. StartAt(Feed[i], now) # None
    BY <2>1 DEF None
  <2>3. ComingAt(Feed[i], now) # {} /\ a[n].start = At(Feed[i], Least(ComingAt(Feed[i], now)))
    BY <1>2, <2>1, <2>2 DEF StartRight
  <2>4. coming[i] = ComingAt(Feed[i], now)
    BY <1>3, <2>1
  <2> QED
    BY <2>3, <2>4 DEF i
<1>10. ASSUME NEW i \in DOMAIN Feed, i \notin shown, coming[i] # {},
              ~(Calendar[Feed[i]][Least(coming[i])] > RecurrenceCap)
       PROVE  m = AgendaSize /\ At(Feed[i], Least(coming[i])) >= a[AgendaSize].start
  <2>1. StartRight(Feed[i], now) /\ coming[i] = ComingAt(Feed[i], now)
    BY <1>2, <1>3
  <2>2. StartAt(Feed[i], now) # None
    BY <1>10, <2>1 DEF StartRight
  <2>3. StartAt(Feed[i], now) = At(Feed[i], Least(coming[i]))
    BY <2>1, <2>2 DEF StartRight
  <2>4. m = AgendaSize /\ \A n \in 1..m : a[n].start <= StartAt(Feed[i], now)
    BY <1>5, <1>7, <1>10, <2>2
  <2>5. AgendaSize \in 1..m
    BY <1>6, <2>4
  <2>6. a[AgendaSize].start \in Nat /\ At(Feed[i], Least(coming[i])) \in Int
    <3>1. Least(coming[i]) \in Nat
      BY <1>4, <1>10
    <3>2. Dated(Feed[i])
      BY <1>2
    <3>3. At(Feed[i], Least(coming[i])) \in Int
      BY <3>1, <3>2, DaysInOrder
    <3> QED
      BY <1>5, <2>5, <3>3
  <2> QED
    BY <2>3, <2>4, <2>5, <2>6
<1>11. Matches(a, shown, coming)
  BY <1>5, <1>8, <1>9, <1>10 DEF Matches, m
<1> QED
  BY <1>11 DEF AgendaMatchesRules, AgendaMatches, a, shown, coming

(* The agenda agrees with the rules, whatever the feed holds, if the       *)
(* expansions of the rules in it do: placing the events, counting COUNT,   *)
(* stopping at UNTIL, sorting and cutting add no error.                    *)
THEOREM ScheduleAgendaMatches ==
    ASSUME \A e \in Series : Expands(e)
    PROVE  Spec => []AgendaMatchesRules
<1>1. AgendaInv => AgendaMatchesRules
  BY AgendaIsRight, NowIsNat DEF AgendaInv
<1> QED
  BY <1>1, AgendaInvInit, AgendaInvStep, PTL DEF Spec

-------------------------------------------------------------------------------
(* Months.  A day tabulated lies in exactly one month, at one place in it. *)
LEMMA LengthOfAny == ASSUME NEW k \in Int PROVE Length(k) \in Nat \ {0}
<1>1. Months \in Nat \ {0} /\ \A m \in 1..Months : MonthLengths[m] \in Nat \ {0}
  BY CalendarAssumption DEF Months
<1>2. MonthOfYear(k) \in 1..Months
  BY <1>1 DEF MonthOfYear
<1> QED
  BY <1>1, <1>2 DEF Length

LEMMA MonthsFollow ==
    ASSUME NEW j \in Nat, NEW k \in Nat, j < k, k <= MaxMonth
    PROVE  /\ FirstDay[j] \in Nat /\ FirstDay[k] \in Nat
           /\ FirstDay[j + 1] = FirstDay[j] + Length(j)
           /\ FirstDay[j] + Length(j) <= FirstDay[k]
<1> DEFINE F(n) == FirstDay[j + 1 + n]
           S == {n \in Nat : j + 1 + n <= MaxMonth => FirstDay[j] + Length(j) <= F(n)}
<1>0. MaxMonth \in Nat
  BY CalendarAssumption
<1>1. ASSUME NEW n \in Nat, n <= MaxMonth PROVE FirstDay[n] \in Nat
  BY <1>0, <1>1, FirstDayAdds
<1>2. ASSUME NEW n \in Nat, n + 1 <= MaxMonth PROVE FirstDay[n + 1] = FirstDay[n] + Length(n)
  BY <1>0, <1>2, FirstDayAdds
<1>3. Length(j) \in Nat /\ FirstDay[j] \in Nat /\ FirstDay[j + 1] = FirstDay[j] + Length(j)
  BY <1>0, <1>1, <1>2, LengthOfAny
<1>4. 0 \in S
  <2>1. j + 1 + 0 = j + 1
    OBVIOUS
  <2> QED
    BY <1>3, <2>1
<1>5. ASSUME NEW n \in Nat, n \in S PROVE n + 1 \in S
  <2>1. SUFFICES ASSUME j + 1 + (n + 1) <= MaxMonth PROVE FirstDay[j] + Length(j) <= F(n + 1)
    OBVIOUS
  <2>2. j + 1 + n \in Nat /\ (j + 1 + n) + 1 = j + 1 + (n + 1) /\ j + 1 + n <= MaxMonth
    BY <1>0, <2>1
  <2>3. F(n + 1) = F(n) + Length(j + 1 + n) /\ F(n) \in Nat /\ Length(j + 1 + n) \in Nat
    BY <1>1, <1>2, <2>1, <2>2, LengthOfAny
  <2>4. FirstDay[j] + Length(j) <= F(n)
    BY <1>5, <2>2
  <2> HIDE DEF F
  <2> QED
    BY <1>3, <2>3, <2>4
<1>6. Nat \subseteq S
  <2> HIDE DEF S
  <2> QED
    BY <1>4, <1>5, Inductive
<1>7. k - j - 1 \in Nat /\ j + 1 + (k - j - 1) = k
  OBVIOUS
<1>8. FirstDay[j] + Length(j) <= FirstDay[k]
  BY <1>6, <1>7
<1> QED
  BY <1>1, <1>3, <1>8

LEMMA MonthFound ==
    ASSUME NEW d \in Horizon
    PROVE  /\ MonthOf(d) \in Nat /\ MonthOf(d) + 1 <= MaxMonth
           /\ FirstDay[MonthOf(d)] <= d /\ d < FirstDay[MonthOf(d) + 1]
<1> DEFINE T == {k \in Nat : k <= MaxMonth /\ d < FirstDay[k]}
           x == Least(T)
<1>0. MaxMonth \in Nat \ {0} /\ d \in Nat
  BY CalendarAssumption, HorizonIsDays
<1>1. FirstDay[MaxMonth] \in Nat /\ FirstDay[0] = 0
  BY <1>0, FirstDayAdds
<1>2. T \in SUBSET Nat /\ MaxMonth \in T
  BY <1>0, <1>1 DEF Horizon
<1>3. x \in T /\ \A y \in T : x <= y
  <2> HIDE DEF T
  <2> QED
    BY <1>2, LeastIsLeast
<1> HIDE DEF x
<1>4. x \in Nat /\ x # 0 /\ x <= MaxMonth /\ d < FirstDay[x]
  BY <1>0, <1>1, <1>3
<1>5. x - 1 \in Nat /\ (x - 1) + 1 = x /\ x - 1 \in 0..(MaxMonth - 1) /\ x - 1 \in 0..MaxMonth
  BY <1>0, <1>4
<1>6. FirstDay[x - 1] <= d
  <2>1. x - 1 \notin T /\ FirstDay[x - 1] \in Nat
    BY <1>3, <1>4, <1>5, FirstDayAdds
  <2> QED
    BY <1>0, <1>4, <1>5, <2>1
<1>7. \E k \in 0..(MaxMonth - 1) : FirstDay[k] <= d /\ d < FirstDay[k + 1]
  BY <1>4, <1>5, <1>6
<1>8. MonthOf(d) = CHOOSE k \in 0..(MaxMonth - 1) : FirstDay[k] <= d /\ d < FirstDay[k + 1]
  BY DEF MonthOf, MonthTable, Horizon
<1>9. /\ MonthOf(d) \in 0..(MaxMonth - 1)
      /\ FirstDay[MonthOf(d)] <= d /\ d < FirstDay[MonthOf(d) + 1]
  BY <1>7, <1>8
<1> QED
  BY <1>0, <1>9

(* The date of a day, and the day of a date.                               *)
LEMMA DateOfDay ==
    ASSUME NEW d \in Horizon
    PROVE  /\ MonthOf(d) \in Nat /\ MonthOf(d) + 1 <= MaxMonth
           /\ DayOfMonth(d) \in 1..Length(MonthOf(d))
           /\ d = FirstDay[MonthOf(d)] + DayOfMonth(d) - 1
<1> DEFINE k == MonthOf(d)
<1>1. k \in Nat /\ k + 1 <= MaxMonth /\ FirstDay[k] <= d /\ d < FirstDay[k + 1]
  BY MonthFound
<1> HIDE DEF k
<1>2. /\ FirstDay[k] \in Nat /\ Length(k) \in Nat /\ d \in Nat
      /\ FirstDay[k + 1] = FirstDay[k] + Length(k)
  <2>1. k + 1 \in Nat /\ k < k + 1
    BY <1>1
  <2> QED
    BY <1>1, <2>1, MonthsFollow, LengthOfAny, HorizonIsDays
<1>3. DayOfMonth(d) = d - FirstDay[k] + 1
  BY DEF DayOfMonth, k
<1> QED
  BY <1>1, <1>2, <1>3 DEF k

LEMMA DayOfDate ==
    ASSUME NEW k \in Nat, k + 1 <= MaxMonth, NEW n \in 1..Length(k)
    PROVE  LET d == FirstDay[k] + n - 1
           IN  d \in Horizon /\ MonthOf(d) = k /\ DayOfMonth(d) = n
<1> DEFINE d == FirstDay[k] + n - 1
           j == MonthOf(d)
<1>0. MaxMonth \in Nat /\ Length(k) \in Nat /\ n \in Nat
  BY CalendarAssumption, LengthOfAny
<1>1. /\ FirstDay[k] \in Nat /\ FirstDay[k + 1] = FirstDay[k] + Length(k)
      /\ FirstDay[k + 1] <= FirstDay[MaxMonth] /\ FirstDay[MaxMonth] \in Nat
  <2>1. k < MaxMonth /\ k + 1 \in Nat
    BY <1>0
  <2> QED
    BY <1>0, <2>1, MonthsFollow
<1>2. d \in Nat /\ FirstDay[k] <= d /\ d < FirstDay[k + 1]
  BY <1>0, <1>1
<1>3. d \in Horizon
  <2> HIDE DEF d
  <2>1. d < FirstDay[MaxMonth]
    BY <1>0, <1>1, <1>2
  <2> QED
    BY <1>1, <1>2, <2>1 DEF Horizon
<1>4. j \in Nat /\ j + 1 <= MaxMonth /\ FirstDay[j] <= d /\ d < FirstDay[j + 1]
  BY <1>3, MonthFound
<1> HIDE DEF j, d
<1>5. ~(j < k)
  <2> SUFFICES ASSUME j < k PROVE FALSE
    OBVIOUS
  <2>1. k <= MaxMonth
    BY <1>0
  <2>2. FirstDay[j + 1] <= FirstDay[k] /\ FirstDay[j + 1] \in Nat
    <3>1. /\ FirstDay[j + 1] = FirstDay[j] + Length(j) /\ FirstDay[j] \in Nat
          /\ FirstDay[j] + Length(j) <= FirstDay[k]
      BY <1>4, <2>1, MonthsFollow
    <3> QED
      BY <1>4, <3>1, LengthOfAny
  <2> QED
    BY <1>1, <1>2, <1>4, <2>2
<1>6. ~(k < j)
  <2> SUFFICES ASSUME k < j PROVE FALSE
    OBVIOUS
  <2>1. j <= MaxMonth
    BY <1>0, <1>4
  <2>2. FirstDay[k] + Length(k) <= FirstDay[j] /\ FirstDay[j] \in Nat
    BY <1>4, <2>1, MonthsFollow
  <2> QED
    BY <1>0, <1>1, <1>2, <1>4, <2>2
<1>7. j = k
  BY <1>4, <1>5, <1>6
<1>8. DayOfMonth(d) = d - FirstDay[j] + 1
  BY DEF DayOfMonth, j
<1> QED
  BY <1>0, <1>1, <1>3, <1>7, <1>8 DEF d, j

(* A day number that the month does not have runs over into the next.      *)
LEMMA DateRuns ==
    ASSUME NEW k \in Nat, k + 2 <= MaxMonth,
           NEW n \in Nat \ {0}, n <= Length(k) + Length(k + 1)
    PROVE  LET d == FirstDay[k] + n - 1
           IN  /\ d \in Horizon
               /\ n <= Length(k) => MonthOf(d) = k /\ DayOfMonth(d) = n
               /\ n > Length(k) => MonthOf(d) = k + 1 /\ DayOfMonth(d) = n - Length(k)
<1> DEFINE d == FirstDay[k] + n - 1
<1>0. MaxMonth \in Nat /\ Length(k) \in Nat /\ Length(k + 1) \in Nat
  BY CalendarAssumption, LengthOfAny
<1>1. CASE n <= Length(k)
  <2>1. n \in 1..Length(k) /\ k + 1 <= MaxMonth
    BY <1>0, <1>1
  <2> QED
    BY <1>0, <1>1, <2>1, DayOfDate
<1>2. CASE n > Length(k)
  <2> DEFINE late == n - Length(k)
  <2>1. late \in 1..Length(k + 1) /\ (k + 1) + 1 <= MaxMonth /\ k + 1 \in Nat
    BY <1>0, <1>2
  <2>2. FirstDay[k + 1] = FirstDay[k] + Length(k) /\ FirstDay[k] \in Nat
    <3>1. k < k + 1 /\ k + 1 <= MaxMonth /\ k + 1 \in Nat
      BY <1>0
    <3> QED
      BY <3>1, MonthsFollow
  <2>3. d = FirstDay[k + 1] + late - 1
    BY <1>0, <2>2
  <2> HIDE DEF late
  <2>4. d \in Horizon /\ MonthOf(d) = k + 1 /\ DayOfMonth(d) = late
    BY <2>1, <2>3, DayOfDate
  <2> QED
    BY <1>0, <1>2, <2>4 DEF late
<1> QED
  BY <1>0, <1>1, <1>2

LEMMA MonthsInOrder ==
    ASSUME NEW c \in Horizon, NEW d \in Horizon
    PROVE  MonthOf(c) < MonthOf(d) => c < d
<1> SUFFICES ASSUME MonthOf(c) < MonthOf(d) PROVE c < d
  OBVIOUS
<1>1. /\ MonthOf(c) \in Nat /\ MonthOf(d) \in Nat /\ MonthOf(d) <= MaxMonth
      /\ c < FirstDay[MonthOf(c) + 1] /\ FirstDay[MonthOf(d)] <= d
  BY MonthFound, CalendarAssumption
<1>2. /\ FirstDay[MonthOf(c) + 1] <= FirstDay[MonthOf(d)]
      /\ FirstDay[MonthOf(c) + 1] \in Int /\ FirstDay[MonthOf(d)] \in Int
  BY <1>1, MonthsFollow, LengthOfAny
<1> QED
  BY <1>1, <1>2, HorizonIsDays

(* The months a monthly or yearly rule tries, one or so many years apart.  *)
MonthStep(e) == e.interval * (IF e.freq = "YEARLY" THEN Months ELSE 1)

LEMMA MonthsTried ==
    ASSUME NEW e \in Series, e.freq \in {"MONTHLY", "YEARLY"}
    PROVE  /\ e.day \in Horizon /\ MonthOf(e.day) \in Nat /\ MonthStep(e) \in Nat \ {0}
           /\ Tries \subseteq Nat /\ Months \in Nat \ {0}
           /\ \A i \in Tries : /\ i * MonthStep(e) \in Nat
                               /\ MonthOf(e.day) + i * MonthStep(e) + 2 <= MaxMonth
<1> DEFINE step == MonthStep(e)
           most == 2 * RecurrenceCap + 1
<1>1. Months \in Nat \ {0} /\ e.interval \in Nat \ {0} /\ most \in Nat /\ MaxMonth \in Nat
  BY SeriesAssumption, CalendarAssumption DEF Months
<1>2. step \in Nat \ {0}
  BY <1>1 DEF MonthStep
<1>3. e.day \in Horizon /\ MonthOf(e.day) + most * step + 1 < MaxMonth
  BY TabulatedAssumption, HorizonIsDays DEF MonthStep
<1>4. MonthOf(e.day) \in Nat
  BY <1>3, MonthFound
<1> HIDE DEF step
<1>5. ASSUME NEW i \in Tries
      PROVE  i * step \in Nat /\ MonthOf(e.day) + i * step + 2 <= MaxMonth
  <2>1. i \in Nat /\ i <= most
    BY <1>1 DEF Tries
  <2>2. i * step \in Nat
    BY <1>2, <2>1
  <2>3. i * step <= most * step /\ most * step \in Int
    <3> HIDE DEF most
    <3> QED
      BY <1>1, <1>2, <2>1, MultiplesApart
  <2> HIDE DEF most
  <2> QED
    BY <1>1, <1>3, <1>4, <2>2, <2>3
<1>6. Tries \subseteq Nat
  BY DEF Tries
<1> QED
  BY <1>1, <1>2, <1>3, <1>4, <1>5, <1>6 DEF step

(* A number is so many times another and a remainder, in one way.          *)
LEMMA Remainder ==
    ASSUME NEW M \in Nat \ {0}, NEW q \in Int, NEW r \in 0..(M - 1)
    PROVE  (q * M + r) % M = r
OBVIOUS

LEMMA Divides ==
    ASSUME NEW M \in Nat \ {0}, NEW n \in Int
    PROVE  \E q \in Int : n = q * M + (n % M) /\ n % M \in 0..(M - 1)
<1>1. n = (n \div M) * M + (n % M) /\ n \div M \in Int /\ n % M \in 0..(M - 1)
  OBVIOUS
<1> QED
  BY <1>1

(* Two months in a row are different ones of the year, and a month is the  *)
(* same one years later.                                                   *)
LEMMA NextMonthDiffers ==
    ASSUME NEW k \in Nat, Months \in Nat, Months > 1
    PROVE  MonthOfYear(k) # MonthOfYear(k + 1)
<1> DEFINE M == Months
           r == k % M
<1>0. M \in Nat \ {0} /\ M > 1 /\ k \in Int
  OBVIOUS
<1>1. PICK q \in Int : k = q * M + r /\ r \in 0..(M - 1)
  BY <1>0, Divides
<1>2. MonthOfYear(k) = r + 1 /\ MonthOfYear(k + 1) = ((k + 1) % M) + 1
  BY DEF MonthOfYear
<1> HIDE DEF r, M
<1>3. CASE r < M - 1
  <2>1. k + 1 = q * M + (r + 1) /\ r + 1 \in 0..(M - 1)
    BY <1>0, <1>1, <1>3
  <2>2. (k + 1) % M = r + 1
    BY <1>0, <2>1, Remainder
  <2> QED
    BY <1>1, <1>2, <2>2
<1>4. CASE r = M - 1
  <2>1. k + 1 = (q + 1) * M + 0 /\ 0 \in 0..(M - 1) /\ q + 1 \in Int
    BY <1>0, <1>1, <1>4
  <2>2. (k + 1) % M = 0
    BY <1>0, <2>1, Remainder
  <2> QED
    BY <1>0, <1>2, <1>4, <2>2
<1> QED
  BY <1>0, <1>1, <1>3, <1>4

LEMMA SameMonthOfYear ==
    ASSUME NEW k \in Int, NEW y \in Int, Months \in Nat \ {0}
    PROVE  MonthOfYear(k + y * Months) = MonthOfYear(k)
<1> DEFINE M == Months
           r == k % M
<1>1. PICK q \in Int : k = q * M + r /\ r \in 0..(M - 1)
  BY Divides
<1> HIDE DEF r
<1>2. k + y * M = (q + y) * M + r /\ q + y \in Int
  BY <1>1
<1>3. (k + y * M) % M = r
  BY <1>1, <1>2, Remainder
<1> QED
  BY <1>3 DEF MonthOfYear, r

(* A yearly rule is expanded to the first days it falls on: the date in    *)
(* later years, or the day after it where a year has no such date.         *)
THEOREM YearlyExpands ==
    ASSUME NEW e \in Series, e.freq = "YEARLY"
    PROVE  Expands(e)
<1> DEFINE step == MonthStep(e)
           k0 == MonthOf(e.day)
           n == DayOfMonth(e.day)
           Day(k) == FirstDay[k] + n - 1
<1>0. /\ e.day \in Horizon /\ k0 \in Nat /\ step \in Nat \ {0}
      /\ Tries \subseteq Nat /\ Months \in Nat \ {0}
      /\ \A i \in Tries : i * step \in Nat /\ k0 + i * step + 2 <= MaxMonth
      /\ e.interval \in Nat \ {0} /\ MaxMonth \in Nat
  BY MonthsTried, SeriesAssumption, CalendarAssumption
<1>1. /\ n \in 1..Length(k0) /\ n \in Nat \ {0} /\ k0 + 1 <= MaxMonth
      /\ e.day = Day(k0) /\ e.day \in Nat
  <2>1. n \in 1..Length(k0) /\ k0 + 1 <= MaxMonth /\ e.day = FirstDay[k0] + n - 1
    <3>1. e.day \in Horizon
      BY <1>0
    <3> QED
      BY <3>1, DateOfDay
  <2>2. Length(k0) \in Nat /\ e.day \in Nat
    <3>1. e.day \in Horizon /\ k0 \in Int
      BY <1>0
    <3> HIDE DEF k0
    <3> QED
      BY <3>1, HorizonIsDays, LengthOfAny
  <2> HIDE DEF n, k0
  <2> QED
    BY <2>1, <2>2
<1>2. step = e.interval * Months
  BY DEF MonthStep
<1>3. ASSUME NEW i \in Nat PROVE i * e.interval * Months = i * step
  <2>1. ASSUME NEW a \in Nat, NEW b \in Nat PROVE i * a * b = i * (a * b)
    OBVIOUS
  <2> QED
    BY <1>0, <1>2, <2>1
<1>4. ASSUME NEW i \in Tries PROVE Period(e, i) = {d \in {Day(k0 + i * step)} : d >= e.day}
  BY <1>0, <1>3 DEF Period, AddMonths
<1>5. ASSUME NEW d \in Horizon
      PROVE  Falls(e, d) <=>
                /\ d >= e.day
                /\ \E late \in {0, 1} :
                      /\ ((MonthOf(d) - k0) - late) % step = 0
                      /\ late = 0 => DayOfMonth(d) = n
                      /\ late = 1 => DayOfMonth(d) = 1 /\ Length(MonthOf(d) - 1) = n - 1
  BY <1>2 DEF Falls
<1> HIDE DEF k0, n, step
\* The same month of another year is as long, or a day longer or shorter.
<1>6. ASSUME NEW x \in Int PROVE n <= Length(k0 + x * step) + 1
  <2>1. PICK y \in Int : x * step = y * Months
    <3>1. ASSUME NEW a \in Nat, NEW b \in Nat PROVE x * (a * b) = (x * a) * b /\ x * a \in Int
      OBVIOUS
    <3>2. x * step = (x * e.interval) * Months /\ x * e.interval \in Int
      BY <1>0, <1>2, <3>1
    <3> QED
      BY <3>2
  <2>2. MonthOfYear(k0 + x * step) = MonthOfYear(k0)
    <3>1. MonthOfYear(k0 + y * Months) = MonthOfYear(k0)
      BY <1>0, SameMonthOfYear
    <3>2. k0 + x * step = k0 + y * Months
      BY <2>1
    <3> QED
      BY <3>1, <3>2
  <2>3. MonthLengths[MonthOfYear(k0)] \in Nat
    <3>1. MonthOfYear(k0) \in 1..Months
      BY <1>0 DEF MonthOfYear
    <3> QED
      BY <3>1, CalendarAssumption DEF Months
  <2>4. n <= Length(k0)
    BY <1>1
  <2>5. Length(k0) <= Length(k0 + x * step) + 1
    BY <2>2, <2>3 DEF Length
  <2>6. Length(k0) \in Nat /\ Length(k0 + x * step) \in Nat
    <3>1. k0 + x * step \in Int /\ k0 \in Int
      BY <1>0
    <3> QED
      BY <3>1, LengthOfAny
  <2> QED
    BY <1>1, <2>4, <2>5, <2>6
\* Months so many steps apart give days in that order.
<1>7. ASSUME NEW j \in Nat, NEW k \in Nat, j < k, k <= MaxMonth
      PROVE  Day(j) < Day(k) /\ Day(j) \in Int /\ Day(k) \in Int
  <2>1. /\ FirstDay[j] \in Nat /\ FirstDay[k] \in Nat
        /\ FirstDay[j] + Length(j) <= FirstDay[k] /\ Length(j) \in Nat \ {0}
    BY <1>0, <1>7, MonthsFollow, LengthOfAny
  <2> QED
    BY <1>1, <2>1
<1>8. ASSUME NEW i \in Tries
      PROVE  /\ k0 + i * step \in Nat /\ i \in Nat /\ i * step \in Nat
             /\ Day(k0 + i * step) \in Nat /\ Day(k0 + i * step) >= e.day
             /\ Period(e, i) = {Day(k0 + i * step)}
  <2>1. k0 + i * step \in Nat /\ i \in Nat /\ i * step \in Nat /\ k0 + i * step <= MaxMonth
    BY <1>0
  <2>2. Day(k0 + i * step) >= e.day /\ Day(k0 + i * step) \in Int
    <3>1. CASE i * step = 0
      <4>1. k0 + i * step = k0
        BY <1>0, <3>1
      <4> QED
        BY <1>1, <4>1
    <3>2. CASE i * step # 0
      <4>1. k0 < k0 + i * step
        BY <1>0, <2>1, <3>2
      <4>2. Day(k0) < Day(k0 + i * step) /\ Day(k0) \in Int /\ Day(k0 + i * step) \in Int
        BY <1>0, <1>7, <2>1, <4>1
      <4> HIDE DEF Day
      <4> QED
        BY <1>1, <4>2
    <3> QED
      BY <3>1, <3>2
  <2> HIDE DEF Day
  <2> QED
    BY <1>1, <1>4, <2>1, <2>2
<1>9. ASSUME NEW i \in Tries, NEW d \in Period(e, i), d \in Horizon
      PROVE  Falls(e, d)
  <2> DEFINE k == k0 + i * step
  <2>1. k \in Nat /\ k + 2 <= MaxMonth /\ d = Day(k) /\ d >= e.day /\ i \in Int /\ i * step \in Int
        /\ k - k0 = i * step
    BY <1>0, <1>8, <1>9
  <2>2. n <= Length(k) + 1
    BY <1>6, <2>1
  <2>3. (i * step) % step = 0
    BY <1>0, <2>1, MultipleOf
  <2> HIDE DEF k
  <2>4. Length(k) \in Nat \ {0} /\ Length(k + 1) \in Nat \ {0}
    BY <2>1, LengthOfAny
  <2>5. n <= Length(k) + Length(k + 1)
    BY <1>1, <2>2, <2>4
  <2>6. CASE n <= Length(k)
    <3>1. MonthOf(d) = k /\ DayOfMonth(d) = n
      BY <1>1, <2>1, <2>5, <2>6, DateRuns
    <3>2. ((MonthOf(d) - k0) - 0) % step = 0
      BY <1>0, <2>1, <2>3, <3>1
    <3> QED
      BY <1>5, <1>9, <2>1, <3>1, <3>2
  <2>7. CASE n > Length(k)
    <3>1. MonthOf(d) = k + 1 /\ DayOfMonth(d) = n - Length(k)
      BY <1>1, <2>1, <2>5, <2>7, DateRuns
    <3>2. n - Length(k) = 1 /\ Length(k) = n - 1 /\ (k + 1) - 1 = k
      BY <1>1, <2>1, <2>2, <2>4, <2>7
    <3>3. ((MonthOf(d) - k0) - 1) = i * step
      BY <1>0, <2>1, <3>1
    <3>4. ((MonthOf(d) - k0) - 1) % step = 0
      BY <2>3, <3>3
    <3> QED
      BY <1>5, <1>9, <2>1, <3>1, <3>2, <3>4
  <2> QED
    BY <1>1, <2>4, <2>6, <2>7
\* A day it falls on lies so many steps on.
<1>10. ASSUME NEW d \in FallDays(e)
       PROVE  \E x \in Nat : d = Day(k0 + x * step) /\ x * step \in Nat /\ k0 + x * step <= MaxMonth
  <2>1. d \in Horizon /\ d \in Nat /\ Falls(e, d)
    BY HorizonIsDays DEF FallDays
  <2>2. /\ MonthOf(d) \in Nat /\ MonthOf(d) + 1 <= MaxMonth
        /\ d = FirstDay[MonthOf(d)] + DayOfMonth(d) - 1 /\ DayOfMonth(d) \in Nat
    BY <2>1, DateOfDay, LengthOfAny
  <2>3. d >= e.day
    BY <1>5, <2>1
  <2>4. k0 <= MonthOf(d)
    <3>1. ~(MonthOf(d) < k0)
      <4>1. MonthOf(d) < k0 => d < e.day
        BY <1>0, <2>1, MonthsInOrder DEF k0
      <4> QED
        BY <1>1, <2>1, <2>3, <4>1
    <3> QED
      BY <1>0, <2>2, <3>1
  <2>5. PICK late \in {0, 1} :
              /\ ((MonthOf(d) - k0) - late) % step = 0
              /\ late = 0 => DayOfMonth(d) = n
              /\ late = 1 => DayOfMonth(d) = 1 /\ Length(MonthOf(d) - 1) = n - 1
    BY <1>5, <2>1
  <2>6. PICK x \in Int : (MonthOf(d) - k0) - late = x * step
    <3>1. (MonthOf(d) - k0) - late \in Int
      BY <1>0, <2>2
    <3> QED
      BY <1>0, <2>5, <3>1, MultipleOf
  <2>7. x * step \in Int /\ MonthOf(d) = k0 + x * step + late
    BY <1>0, <2>2, <2>6
  <2>8. x * step >= 0
    <3>1. CASE late = 0
      BY <1>0, <2>2, <2>4, <2>7, <3>1
    <3>2. CASE late = 1 /\ x * step = -1
      <4>1. MonthOf(d) = k0 /\ DayOfMonth(d) = 1 /\ Length(k0 - 1) = n - 1
        BY <1>0, <2>2, <2>5, <2>7, <3>2
      <4>2. n - 1 >= 1
        BY <1>0, <1>1, <4>1, LengthOfAny
      <4>3. d = FirstDay[k0] + 1 - 1 /\ e.day = FirstDay[k0] + n - 1 /\ FirstDay[k0] \in Nat
        <5>1. FirstDay[k0] \in Nat
          BY <1>0, <1>1, FirstDayAdds
        <5> QED
          BY <1>1, <2>2, <4>1, <5>1
      <4> QED
        BY <1>1, <2>1, <2>3, <4>2, <4>3
    <3>3. CASE late = 1 /\ x * step # -1
      BY <1>0, <2>2, <2>4, <2>7, <3>3
    <3> QED
      BY <3>1, <3>2, <3>3
  <2>9. x \in Nat
    <3>1. 0 * step = 0 /\ 0 \in Int
      BY <1>0
    <3>2. 0 <= x
      BY <1>0, <2>8, <3>1, MultiplesApart
    <3> QED
      BY <3>2
  <2> DEFINE k == k0 + x * step
  <2>10. k \in Nat /\ k <= MaxMonth /\ MonthOf(d) = k + late
    BY <1>0, <2>2, <2>7, <2>8
  <2> HIDE DEF k
  <2>11. d = Day(k)
    <3>1. CASE late = 0
      <4>1. MonthOf(d) = k
        BY <2>10, <3>1
      <4> QED
        BY <2>2, <2>5, <3>1, <4>1
    <3>2. CASE late = 1
      <4>1. MonthOf(d) = k + 1 /\ MonthOf(d) - 1 = k /\ k < k + 1
        BY <2>10, <3>2
      <4>2. Length(k) = n - 1 /\ DayOfMonth(d) = 1
        BY <2>5, <3>2, <4>1
      <4>3. FirstDay[k + 1] = FirstDay[k] + Length(k) /\ FirstDay[k] \in Nat
        <5>1. k + 1 \in Nat /\ k + 1 <= MaxMonth
          BY <1>0, <2>2, <2>10, <4>1
        <5> QED
          BY <2>10, <4>1, <5>1, MonthsFollow
      <4>4. d = FirstDay[k + 1] + 1 - 1
        BY <2>2, <4>1, <4>2
      <4> QED
        BY <1>1, <4>2, <4>3, <4>4
    <3> QED
      BY <3>1, <3>2
  <2> HIDE DEF Day
  <2>12. x * step \in Nat
    BY <2>7, <2>8
  <2> QED
    BY <2>9, <2>10, <2>11, <2>12 DEF k
<1>11. ASSUME NEW i \in Tries, NEW d \in FallDays(e), d <= Day(k0 + i * step)
       PROVE  \E j \in 0..i : d \in Period(e, j)
  <2>1. PICK x \in Nat : d = Day(k0 + x * step) /\ x * step \in Nat /\ k0 + x * step <= MaxMonth
    BY <1>10
  <2>2. x <= i
    <3> SUFFICES ASSUME i < x PROVE FALSE
      BY <1>8, <2>1
    <3>1. i * step < x * step
      <4>1. i * step + step <= x * step /\ i * step \in Int
        BY <1>0, <1>8, MultiplesApart
      <4> QED
        BY <1>0, <2>1, <4>1
    <3>2. k0 + i * step < k0 + x * step /\ k0 + x * step \in Nat /\ k0 + i * step \in Nat
      BY <1>0, <1>8, <2>1, <3>1
    <3>3. /\ Day(k0 + i * step) < Day(k0 + x * step)
          /\ Day(k0 + i * step) \in Int /\ Day(k0 + x * step) \in Int
      BY <1>7, <2>1, <3>2
    <3> HIDE DEF Day
    <3> QED
      BY <1>11, <2>1, <3>3
  <2>3. x \in 0..i /\ x \in Tries
    BY <1>8, <2>2, CalendarAssumption DEF Tries
  <2> HIDE DEF Day
  <2> QED
    BY <1>8, <2>1, <2>3
<1>12. ASSUME NEW i \in Tries, NEW j \in Tries, i < j
       PROVE  Day(k0 + i * step) < Day(k0 + j * step)
  <2>1. i * step < j * step
    <3>1. i * step + step <= j * step /\ i * step \in Int
      BY <1>0, <1>8, <1>12, MultiplesApart
    <3> QED
      BY <1>0, <1>8, <3>1
  <2>2. k0 + i * step < k0 + j * step /\ k0 + j * step <= MaxMonth
    BY <1>0, <1>8, <2>1
  <2> QED
    BY <1>7, <1>8, <2>2
<1> HIDE DEF Day
<1>13. PeriodsRight(e)
  <2>1. \A i \in Tries : Period(e, i) = {Day(k0 + i * step)}
    BY <1>8
  <2>2. \A i \in Tries : \A c \in Period(e, i), d \in FallDays(e) :
           d <= c => \E j \in 0..i : d \in Period(e, j)
    BY <1>11, <2>1
  <2>3. \A i, j \in Tries : i < j => \A c \in Period(e, i), d \in Period(e, j) : c < d
    BY <1>12, <2>1
  <2>4. \A i \in Tries : \A d \in Period(e, i) \cap Horizon : Falls(e, d)
    BY <1>9
  <2> QED
    BY <2>1, <2>2, <2>3, <2>4 DEF PeriodsRight
<1> QED
  BY <1>13, PeriodsExpand

(* The days of the month a monthly rule names, its first day's if none.    *)
MonthDays(e) == IF e.by = {} THEN {DayOfMonth(e.day)} ELSE e.by

(* Every month has one of them, and two months in a row have them all.     *)
EveryMonthHas(e) ==
    /\ \E n \in MonthDays(e) : \A k \in Nat : n <= Length(k)
    /\ \A n \in MonthDays(e) : \A k \in Nat : n <= Length(k) + Length(k + 1)

(* A monthly rule is expanded to the first days it falls on, of those      *)
(* whose months have them, where one of its days is in every month.  One   *)
(* that is only on days some months lack may give up after twice as many   *)
(* months as the cap.                                                      *)
THEOREM MonthlyExpands ==
    ASSUME NEW e \in Series, e.freq = "MONTHLY", Months > 1, EveryMonthHas(e)
    PROVE  Expands(e)
<1> DEFINE step == MonthStep(e)
           k0 == MonthOf(e.day)
           B == MonthDays(e)
           K(i) == k0 + i * step
           Day(k, n) == FirstDay[k] + n - 1
<1>0. /\ e.day \in Horizon /\ k0 \in Nat /\ step \in Nat \ {0}
      /\ Tries \subseteq Nat /\ Months \in Nat \ {0}
      /\ \A i \in Tries : i * step \in Nat /\ K(i) + 2 <= MaxMonth
      /\ e.interval \in Nat \ {0} /\ MaxMonth \in Nat
  BY MonthsTried, SeriesAssumption, CalendarAssumption
<1>1. e.day \in Nat /\ B \subseteq Nat \ {0}
  <2>1. e.day \in Horizon /\ e.day \in Nat
    BY <1>0, HorizonIsDays
  <2>2. DayOfMonth(e.day) \in 1..Length(MonthOf(e.day)) /\ MonthOf(e.day) \in Int
    BY <2>1, DateOfDay
  <2>3. DayOfMonth(e.day) \in Nat \ {0}
    BY <2>2, LengthOfAny
  <2>4. e.by \subseteq Nat \ {0}
    BY SeriesAssumption
  <2> QED
    BY <2>1, <2>3, <2>4 DEF MonthDays
<1>2. step = e.interval
  BY <1>0 DEF MonthStep
<1>3. ASSUME NEW i \in Tries
      PROVE  Period(e, i) =
                {d \in {Day(K(i), n) : n \in B} :
                    d >= e.day /\ MonthOfYear(MonthOf(d)) = MonthOfYear(K(i))}
  <2> DEFINE On(n) == AddMonthsOnDay(e.day, i * e.interval, n)
  <2>1. Period(e, i) = {d \in UNION {On(n) : n \in B} : d >= e.day}
    BY DEF Period, MonthDays
  <2>2. ASSUME NEW n
        PROVE  On(n) = IF MonthOfYear(MonthOf(Day(K(i), n))) = MonthOfYear(K(i))
                       THEN {Day(K(i), n)} ELSE {}
    BY <1>2 DEF AddMonthsOnDay
  <2> HIDE DEF On, K, Day, B
  <2> QED
    BY <2>1, <2>2
<1>4. ASSUME NEW d \in Horizon
      PROVE  Falls(e, d) <=> /\ d >= e.day
                             /\ DayOfMonth(d) \in B
                             /\ (MonthOf(d) - k0) % step = 0
  BY <1>2 DEF Falls, MonthDays
<1>5. /\ \E n \in B : \A k \in Nat : n <= Length(k)
      /\ \A n \in B : \A k \in Nat : n <= Length(k) + Length(k + 1)
  BY DEF EveryMonthHas
<1> HIDE DEF k0, B, step
<1>6. ASSUME NEW i \in Tries
      PROVE  /\ i \in Nat /\ i * step \in Nat /\ K(i) \in Nat /\ K(i) + 2 <= MaxMonth
             /\ k0 <= K(i) /\ K(i) - k0 = i * step
  <2>1. i \in Nat /\ i * step \in Nat
    BY <1>0
  <2> QED
    BY <1>0, <2>1
\* What a period gives lies in its month, on one of the days.
<1>7. ASSUME NEW i \in Tries, NEW d \in Period(e, i)
      PROVE  /\ d \in Horizon /\ d \in Nat /\ d >= e.day
             /\ MonthOf(d) = K(i) /\ DayOfMonth(d) \in B
  <2> DEFINE k == K(i)
  <2>1. PICK n \in B : d = Day(k, n)
    BY <1>3, <1>7
  <2>2. d >= e.day /\ MonthOfYear(MonthOf(d)) = MonthOfYear(k)
    BY <1>3, <1>7
  <2>3. k \in Nat /\ k + 2 <= MaxMonth
    BY <1>6
  <2> HIDE DEF k
  <2>4. n \in Nat \ {0} /\ n <= Length(k) + Length(k + 1)
    BY <1>1, <1>5, <2>3
  <2>5. /\ d \in Horizon
        /\ n <= Length(k) => MonthOf(d) = k /\ DayOfMonth(d) = n
        /\ n > Length(k) => MonthOf(d) = k + 1
    BY <2>1, <2>3, <2>4, DateRuns
  <2>6. MonthOfYear(k) # MonthOfYear(k + 1)
    BY <1>0, <2>3, NextMonthDiffers
  <2>7. Length(k) \in Nat
    BY <2>3, LengthOfAny
  <2>8. n <= Length(k)
    BY <2>2, <2>4, <2>5, <2>6, <2>7
  <2> QED
    BY <2>2, <2>5, <2>8, HorizonIsDays DEF k
<1>8. ASSUME NEW i \in Tries, NEW d \in Period(e, i)
      PROVE  Falls(e, d)
  <2>1. /\ d \in Horizon /\ d >= e.day /\ DayOfMonth(d) \in B
        /\ MonthOf(d) - k0 = i * step
    BY <1>6, <1>7, <1>8
  <2>2. (i * step) % step = 0
    <3>1. i \in Int /\ i * step \in Int
      BY <1>6
    <3> QED
      BY <1>0, <3>1, MultipleOf
  <2> QED
    BY <1>4, <2>1, <2>2
\* A day it falls on lies in a month so many steps on.
<1>9. ASSUME NEW i \in Tries, NEW c \in Period(e, i), NEW d \in FallDays(e), d <= c
      PROVE  \E j \in 0..i : d \in Period(e, j)
  <2>1. d \in Horizon /\ d \in Nat /\ Falls(e, d)
    BY HorizonIsDays DEF FallDays
  <2>2. d >= e.day /\ DayOfMonth(d) \in B /\ (MonthOf(d) - k0) % step = 0
    BY <1>4, <2>1
  <2>3. MonthOf(d) \in Nat /\ d = FirstDay[MonthOf(d)] + DayOfMonth(d) - 1
    BY <2>1, DateOfDay
  <2>4. c \in Horizon /\ c \in Nat /\ MonthOf(c) = K(i)
    BY <1>7, <1>9
  <2>5. MonthOf(d) <= K(i)
    <3>1. ~(K(i) < MonthOf(d))
      BY <1>9, <2>1, <2>4, MonthsInOrder
    <3> QED
      BY <1>6, <2>3, <3>1
  <2>6. k0 <= MonthOf(d)
    <3>1. ~(MonthOf(d) < k0)
      <4>1. MonthOf(d) < k0 => d < e.day
        BY <1>0, <2>1, MonthsInOrder DEF k0
      <4> QED
        BY <1>1, <2>1, <2>2, <4>1
    <3> QED
      BY <1>0, <2>3, <3>1
  <2>7. PICK j \in Int : MonthOf(d) - k0 = j * step
    <3>1. MonthOf(d) - k0 \in Int
      BY <1>0, <2>3
    <3> QED
      BY <1>0, <2>2, <3>1, MultipleOf
  <2>8. j \in 0..i
    <3>1. 0 * step = 0 /\ 0 \in Int /\ i \in Int /\ i * step \in Int /\ j * step \in Int
      BY <1>0, <1>6, <2>3, <2>7
    <3>2. 0 * step <= j * step /\ j * step <= i * step
      BY <1>0, <1>6, <2>3, <2>5, <2>6, <2>7, <3>1
    <3>3. 0 <= j /\ j <= i
      BY <1>0, <3>1, <3>2, MultiplesApart
    <3> QED
      BY <3>1, <3>3
  <2>9. j \in Tries /\ MonthOf(d) = K(j)
    <3>1. j \in Tries
      BY <1>6, <2>8, CalendarAssumption DEF Tries
    <3>2. MonthOf(d) = k0 + j * step
      BY <1>0, <1>6, <2>3, <2>7, <3>1
    <3> QED
      BY <3>1, <3>2
  <2>10. d = Day(K(j), DayOfMonth(d))
    BY <2>3, <2>9
  <2> HIDE DEF K, Day
  <2>11. d \in Period(e, j)
    BY <1>3, <2>2, <2>9, <2>10
  <2> QED
    BY <2>8, <2>11
<1>10. ASSUME NEW i \in Tries, NEW j \in Tries, i < j
       PROVE  K(i) < K(j)
  <2>1. i * step + step <= j * step
    BY <1>0, <1>6, <1>10, MultiplesApart
  <2> QED
    BY <1>0, <1>6, <2>1
<1>11. ASSUME NEW i \in Tries, NEW j \in Tries, i < j,
              NEW c \in Period(e, i), NEW d \in Period(e, j)
       PROVE  c < d
  BY <1>7, <1>10, <1>11, MonthsInOrder
<1>12. ASSUME NEW i \in Tries \ {0} PROVE Period(e, i) # {}
  <2> DEFINE k == K(i)
  <2>1. PICK n \in B : \A l \in Nat : n <= Length(l)
    BY <1>5
  <2>2. 0 \in Tries /\ i \in Nat /\ 0 < i
    BY <1>0, CalendarAssumption DEF Tries
  <2>3. K(0) < K(i) /\ K(0) = k0
    <3>1. 0 * step = 0
      BY <1>0
    <3> QED
      BY <1>0, <1>10, <2>2, <3>1
  <2>4. k \in Nat /\ k + 1 <= MaxMonth /\ k0 < k
    BY <1>0, <1>6, <2>3
  <2> HIDE DEF k
  <2>5. n \in 1..Length(k)
    <3>1. n \in Nat \ {0} /\ n <= Length(k) /\ Length(k) \in Nat
      BY <1>1, <2>1, <2>4, LengthOfAny
    <3> QED
      BY <3>1
  <2>6. Day(k, n) \in Horizon /\ MonthOf(Day(k, n)) = k
    BY <2>4, <2>5, DayOfDate
  <2> HIDE DEF Day
  <2>7. e.day < Day(k, n) /\ Day(k, n) \in Nat
    BY <1>0, <2>4, <2>6, MonthsInOrder, HorizonIsDays DEF k0
  <2>8. Day(k, n) \in Period(e, i)
    <3>1. Day(k, n) >= e.day
      BY <1>1, <2>7
    <3>2. k = K(i)
      BY DEF k
    <3> HIDE DEF K
    <3> QED
      BY <1>3, <2>6, <3>1, <3>2
  <2> QED
    BY <2>8
<1>13. PeriodsRight(e)
  <2> HIDE DEF K
  <2> QED
    BY <1>8, <1>9, <1>11, <1>12 DEF PeriodsRight
<1> QED
  BY <1>13, PeriodsExpand

(* The agenda agrees with the rules for daily, weekly and yearly rules of  *)
(* every kind, with COUNT and UNTIL, and for monthly ones on a day every   *)
(* month has, on every calendar of years with more than one month: each    *)
(* entry starts when its event next falls, and what is missing has no such *)
(* day, or none among the first the cap allows, or comes after a full      *)
(* agenda.                                                                 *)
THEOREM ScheduleAgendaMatchesRules ==
    ASSUME Months > 1, \A e \in Series : e.freq = "MONTHLY" => EveryMonthHas(e)
    PROVE  Spec => []AgendaMatchesRules
<1>1. ASSUME NEW e \in Series PROVE Expands(e)
  <2>1. e.freq \in {"DAILY", "WEEKLY", "MONTHLY", "YEARLY"}
    BY SeriesAssumption
  <2> QED
    BY <2>1, DailyExpands, WeeklyExpands, MonthlyExpands, YearlyExpands
<1> QED
  BY <1>1, ScheduleAgendaMatches
===============================================================================
