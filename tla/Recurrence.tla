------------------------------- MODULE Recurrence -------------------------------
(***************************************************************************)
(* Which day a recurring event falls on next: the expansion of RRULE in    *)
(* agent/internal/sources/calendar/rrule.go, over a calendar whose months  *)
(* are a parameter, so that a short one has every irregularity of the real *)
(* one within few days: months of unequal length, a leap day, weeks that   *)
(* do not divide them.  Days are counted from a Monday that begins month   *)
(* 0; a month is counted across years.                                     *)
(***************************************************************************)
EXTENDS Integers, Sequences, FiniteSets

CONSTANTS
    MonthLengths,   \* days in each month of a common year
    LeapMonth,      \* the month with a day more every LeapEvery-th year
    LeapEvery,
    MaxMonth,       \* bound: months tabulated
    Series,         \* the events whose rule is understood
    Slots,          \* times of day told apart
    RecurrenceCap   \* recurrenceCap, 500 in the code

ASSUME CalendarAssumption ==
    /\ MonthLengths \in Seq(Nat \ {0}) /\ LeapMonth \in 1..Len(MonthLengths)
    /\ {LeapEvery, MaxMonth, Slots, RecurrenceCap} \subseteq Nat \ {0}

Months == Len(MonthLengths)
MonthOfYear(k) == (k % Months) + 1
IsLeap(k) == (k \div Months) % LeapEvery = 0
Length(k) == MonthLengths[MonthOfYear(k)]
             + (IF MonthOfYear(k) = LeapMonth /\ IsLeap(k) THEN 1 ELSE 0)

FirstDay[k \in 0..MaxMonth] == IF k = 0 THEN 0 ELSE FirstDay[k - 1] + Length(k - 1)
MonthTable == [d \in 0..(FirstDay[MaxMonth] - 1) |->
                  CHOOSE k \in 0..(MaxMonth - 1) : FirstDay[k] <= d /\ d < FirstDay[k + 1]]
MonthOf(d) == MonthTable[d]
DayOfMonth(d) == d - FirstDay[MonthOf(d)] + 1
Weekday(d) == d % 7

Least(S) == CHOOSE x \in S : \A y \in S : x <= y
None == -1

\* What parseRRule accepts: an interval, a count (0 for none) and an end.
ASSUME SeriesAssumption ==
    \A e \in Series :
        /\ e.freq \in {"DAILY", "WEEKLY", "MONTHLY", "YEARLY"}
        /\ e.day \in Nat /\ e.interval \in Nat \ {0} /\ e.count \in Nat /\ e.until \in Int
        /\ e.freq = "WEEKLY" => e.by \subseteq 0..6
        /\ e.freq = "MONTHLY" => e.by \subseteq Nat \ {0}

-------------------------------------------------------------------------------
(* time.AddDate over whole months: a day that the month does not have runs *)
(* over into the next.                                                     *)
AddMonths(d, n) == FirstDay[MonthOf(d) + n] + DayOfMonth(d) - 1

(* Mutant: AddDate, which rolls over, where the day must exist.            *)
AddMonthsRolling(start, offset, day) == {FirstDay[MonthOf(start) + offset] + day - 1}

(* addMonthsOnDay: no day at all where the month does not have it.         *)
AddMonthsOnDay(start, offset, day) ==
    LET k == MonthOf(start) + offset
        candidate == FirstDay[k] + day - 1
    IN  IF MonthOfYear(MonthOf(candidate)) = MonthOfYear(k) THEN {candidate} ELSE {}

(* The days of the i-th period from the start, by frequency.  The dates a  *)
(* first week or month would have before the start are dropped.            *)
Period(e, i) ==
    LET monday == e.day - Weekday(e.day)
        days == CASE e.freq = "DAILY" -> {e.day + i * e.interval}
                  [] e.freq = "WEEKLY" /\ e.by = {} -> {e.day + 7 * i * e.interval}
                  [] e.freq = "WEEKLY" /\ e.by # {} -> {monday + 7 * i * e.interval + w : w \in e.by}
                  [] e.freq = "MONTHLY" ->
                        UNION {AddMonthsOnDay(e.day, i * e.interval, n) :
                               n \in IF e.by = {} THEN {DayOfMonth(e.day)} ELSE e.by}
                  [] e.freq = "YEARLY" -> {AddMonths(e.day, i * e.interval * Months)}
    IN  {d \in days : d >= e.day}

(* candidateOccurrences: whole periods until there are recurrenceCap days, *)
(* or twice as many periods have been tried.                               *)
Candidates(e) ==
    LET Upto(n) == UNION {Period(e, i) : i \in 0..(n - 1)}
        Enough == {n \in 1..(2 * RecurrenceCap + 2) :
                      Cardinality(Upto(n)) >= RecurrenceCap \/ n = 2 * RecurrenceCap + 2}
    IN  Upto(Least(Enough))

CandidateOccurrences == [e \in Series |-> Candidates(e)]

(* The months tabulated reach as far as the expansions do, and a month     *)
(* past the last one they may try.                                         *)
ASSUME TabulatedAssumption ==
    \A e \in Series :
        /\ CandidateOccurrences[e] \subseteq DOMAIN MonthTable
        /\ e.freq \in {"MONTHLY", "YEARLY"} =>
              LET step == e.interval * (IF e.freq = "YEARLY" THEN Months ELSE 1)
              IN  /\ e.day \in DOMAIN MonthTable
                  /\ MonthOf(e.day) + (2 * RecurrenceCap + 1) * step + 1 < MaxMonth

Before(S, d) == Cardinality({x \in S : x < d})

(* An event keeps its time of day on every day it falls on.                *)
At(e, d) == d * Slots + e.time

FirstOf(S) == IF S = {} THEN None ELSE Least(S)

(* nextOccurrence: the day of the first candidate after now, unless COUNT  *)
(* or UNTIL ended the series.  The candidates are in order, so a series    *)
(* that ends before that one ends at it.                                   *)
FirstAfter(candidates, e, now) ==
    FirstOf({d \in candidates : /\ At(e, d) > now
                                /\ e.count = 0 \/ Before(candidates, d) < e.count
                                /\ e.until = None \/ At(e, d) <= e.until})

NextOccurrence(e, now) == FirstAfter(CandidateOccurrences[e], e, now)
===============================================================================
