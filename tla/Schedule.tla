-------------------------------- MODULE Schedule --------------------------------
(***************************************************************************)
(* What the agent makes of the time: the next-up event, the agenda and the *)
(* urgency of agent/internal/sources/calendar, and the sleep flag of the   *)
(* clock source, as time passes and each source polls now and then.        *)
(*                                                                         *)
(* An event is a number in a feed.  Fetching and parsing are left out: an  *)
(* event that is all day, unnamed or of a rule the parser refuses has freq *)
(* "UNSUPPORTED", and a poll that fails leaves the readings alone.         *)
(***************************************************************************)
EXTENDS Recurrence, SleepWindow

CONSTANTS
    Setups,         \* configurations to start from, each a feed and a window
    AgendaSize,     \* events published in all, 8 in the code
    NotifySlots,    \* notify_minutes
    LastDay         \* bound: days that pass

ASSUME ScheduleAssumption ==
    {AgendaSize, NotifySlots, LastDay} \subseteq Nat /\ AgendaSize > 0
\* An event has a date and a time of day, and a rule that is expanded, if any.
\* A sample event comes in so many slots, or else at a time of day.
ASSUME SetupsAssumption ==
    \A s \in Setups :
        /\ s.inSlots \in Nat /\ s.atTime \in 0..(Slots - 1)
        /\ Len(s.feed) \in Nat /\ DOMAIN s.feed = 1..Len(s.feed)
        /\ \A i \in DOMAIN s.feed :
              /\ s.feed[i].day \in Nat /\ s.feed[i].time \in 0..(Slots - 1)
              /\ s.feed[i].freq \in {"ONCE", "UNSUPPORTED"} \/ s.feed[i] \in Series
              /\ s.feed[i].freq = "ONCE" =>
                    s.feed[i].day \in DOMAIN MonthTable /\ s.feed[i].count = 0 /\ s.feed[i].until = None
\* parseClockTime accepts times of day only.
ASSUME WindowAssumption ==
    \A s \in Setups : s.sleepStart \in 0..(Slots - 1) /\ s.sleepEnd \in 0..(Slots - 1)

VARIABLES
    setup,          \* mode, the feed or the sample event, and the sleep window
    now,            \* in slots, from midnight of day 0
    mockStart,      \* Source.start of mock mode
    calendar,       \* the published reading: entries [event, start], urgent
    clock           \* the published reading: time of day, sleep

vars == <<setup, now, mockStart, calendar, clock>>

Instants == 0..(LastDay * Slots)
Feed == setup.feed

TypeOK ==
    /\ setup \in Setups
    /\ now \in Instants
    /\ mockStart \in Int
    /\ \A i \in DOMAIN calendar.entries : calendar.entries[i].start >= 0
    /\ Len(calendar.entries) <= AgendaSize
    /\ calendar.urgent \in BOOLEAN
    /\ clock \in [time : 0..(Slots - 1), sleep : BOOLEAN]

NoEvents == [entries |-> <<>>, urgent |-> FALSE]

(* Nothing is asleep before the clock has polled.                          *)
Init ==
    /\ setup \in Setups
    /\ now = 0 /\ mockStart = None
    /\ calendar = NoEvents
    /\ clock = [time |-> setup.sleepEnd, sleep |-> FALSE]

Tick ==
    /\ now + 1 \in Instants
    /\ now' = now + 1
    /\ UNCHANGED <<setup, mockStart, calendar, clock>>

-------------------------------------------------------------------------------
(* Where an event of the feed stands: the start of its next occurrence, or *)
(* its own start if that is still to come, or None.                        *)
Timed(e, d) == IF d = None THEN None ELSE At(e, d)

StartOf(e) ==
    IF e.freq = "UNSUPPORTED" THEN None
    ELSE IF e.freq = "ONCE"
         THEN IF At(e, e.day) > now THEN At(e, e.day) ELSE None
         ELSE Timed(e, NextOccurrence(e, now))

(* The events that have a start, in its order, and in the feed's order at  *)
(* one time, as many as the limit lets through.                            *)
Earlier(start, i, j) == start[i] < start[j] \/ (start[i] = start[j] /\ i < j)
InOrder(start, resolved) ==
    [n \in 1..Cardinality(resolved) |->
        CHOOSE i \in resolved : Cardinality({j \in resolved : Earlier(start, j, i)}) = n - 1]
Entries(start, order, limit) ==
    [n \in 1..(IF Len(order) > limit THEN limit ELSE Len(order)) |->
        [event |-> order[n], start |-> start[order[n]]]]
Sorted(start, limit) ==
    Entries(start, InOrder(start, {i \in DOMAIN start : start[i] # None}), limit)

(* Mutant: the agenda is not cut to its size.                              *)
UpcomingUncapped(limit) ==
    Sorted([i \in DOMAIN Feed |-> StartOf(Feed[i])], limit + Len(Feed))

(* upcomingEvents: one entry for each event, no more than limit.           *)
Upcoming(limit) == Sorted([i \in DOMAIN Feed |-> StartOf(Feed[i])], limit)

(* reading: urgent within notify_minutes of the start.                     *)
Reading(entries) ==
    [entries |-> entries,
     urgent |-> entries # <<>> /\ entries[1].start - now <= NotifySlots]

PollICS ==
    /\ setup.mode = "ics"
    /\ calendar' = Reading(Upcoming(AgendaSize))
    /\ UNCHANGED <<setup, now, mockStart, clock>>

(* Mutant: the start is worked out anew at every poll.                     *)
MockStartAnew == setup.inSlots + now

(* The sample event is placed on the first poll, in so many minutes or at  *)
(* the next such time of day, and stays there.                             *)
MockStart ==
    IF mockStart # None THEN mockStart
    ELSE IF setup.inSlots > 0 THEN now + setup.inSlots
         ELSE LET candidate == (now \div Slots) * Slots + setup.atTime
              IN  IF candidate < now THEN candidate + Slots ELSE candidate

PollMock ==
    /\ setup.mode = "mock"
    /\ mockStart' = MockStart
    /\ calendar' = Reading(<<[event |-> 1, start |-> MockStart]>>)
    /\ UNCHANGED <<setup, now, clock>>

PollClock ==
    /\ clock' = [time |-> now % Slots,
                 sleep |-> Sleeping(setup.sleepStart, setup.sleepEnd, now % Slots)]
    /\ UNCHANGED <<setup, now, mockStart, calendar>>

Next == Tick \/ PollICS \/ PollMock \/ PollClock

Spec == Init /\ [][Next]_vars

-------------------------------------------------------------------------------
(* What the rule says, day by day, with no expansion and no cap.  A yearly *)
(* event on the leap day falls on the day after in other years.            *)
Falls(e, d) ==
    LET months == MonthOf(d) - MonthOf(e.day)
    IN  /\ d >= e.day
        /\ CASE e.freq = "ONCE" -> d = e.day
             [] e.freq = "DAILY" -> (d - e.day) % e.interval = 0
             [] e.freq = "WEEKLY" ->
                   /\ Weekday(d) \in (IF e.by = {} THEN {Weekday(e.day)} ELSE e.by)
                   /\ ((d - Weekday(d)) - (e.day - Weekday(e.day))) % (7 * e.interval) = 0
             [] e.freq = "MONTHLY" ->
                   /\ DayOfMonth(d) \in (IF e.by = {} THEN {DayOfMonth(e.day)} ELSE e.by)
                   /\ months % e.interval = 0
             [] e.freq = "YEARLY" ->
                   \E late \in {0, 1} :
                      /\ (months - late) % (e.interval * Months) = 0
                      /\ late = 0 => DayOfMonth(d) = DayOfMonth(e.day)
                      /\ late = 1 => /\ DayOfMonth(d) = 1
                                     /\ Length(MonthOf(d) - 1) = DayOfMonth(e.day) - 1
             [] OTHER -> FALSE

Horizon == 0..(FirstDay[MaxMonth] - 1)
Days(e) == {d \in Horizon : Falls(e, d) /\ (e.until = None \/ At(e, d) <= e.until)}

(* Each day an event falls on, with its place in the series.               *)
Ordinals(e) == LET days == Days(e) IN [d \in days |-> Cardinality({x \in days : x <= d})]
Events == UNION {{s.feed[i] : i \in DOMAIN s.feed} : s \in Setups}
Calendar == [e \in Events |-> Ordinals(e)]
Coming(e) == {d \in DOMAIN Calendar[e] : At(e, d) > now /\ (e.count = 0 \/ Calendar[e][d] <= e.count)}

Matches(entries, shown, coming) ==
    /\ Cardinality(shown) = Len(entries)
    /\ \A n \in DOMAIN entries :
          LET i == entries[n].event
          IN  coming[i] # {} /\ entries[n].start = At(Feed[i], Least(coming[i]))
    /\ \A m, n \in DOMAIN entries : m < n => entries[m].start <= entries[n].start
    /\ \A i \in DOMAIN Feed \ shown :
          \/ coming[i] = {} \/ Calendar[Feed[i]][Least(coming[i])] > RecurrenceCap
          \/ /\ Len(entries) = AgendaSize
             /\ At(Feed[i], Least(coming[i])) >= entries[AgendaSize].start

AgendaMatches(entries) ==
    Matches(entries, {entries[n].event : n \in DOMAIN entries},
            [i \in DOMAIN Feed |-> Coming(Feed[i])])

(* The agenda is right whatever the calendar does to the dates: an entry   *)
(* starts when its event next falls, the entries are in order, no event    *)
(* has two, and one that is missing has no more than its first             *)
(* recurrenceCap days to come, or comes after a full agenda.               *)
AgendaMatchesRules == AgendaMatches(Upcoming(AgendaSize))

(* An event announced as next stays next until it begins: no later poll    *)
(* skips it, moves it or puts another in front, so the countdown only runs *)
(* down, in both modes.                                                    *)
NextUpIsStable ==
    [][(calendar.entries # <<>> /\ calendar.entries[1].start > now')
          => calendar'.entries # <<>> /\ calendar'.entries[1] = calendar.entries[1]]_vars

(* The panel sleeps in the configured window and at no other time: one     *)
(* that crosses midnight, begins or ends at it, or is empty.               *)
AsleepInWindow ==
    clock.sleep <=> InWindow(Slots, setup.sleepStart, setup.sleepEnd, clock.time)
===============================================================================
