------------------------------- MODULE MCSchedule -------------------------------
(* A year of three short months, with a leap day every third year.  Every   *)
(* frequency meets short months, the leap day, COUNT, UNTIL and the cap.    *)
EXTENDS Schedule

ShortYear == <<3, 2, 4>>

Event(freq, day, time, interval, by) ==
    [freq |-> freq, day |-> day, time |-> time, interval |-> interval, by |-> by,
     count |-> 0, until |-> None]

Once(day, time) == Event("ONCE", day, time, 1, {})

Rules ==
    {Event("DAILY", 1, 1, n, {}) : n \in {1, 2}}
    \cup {Event("WEEKLY", d, 0, n, by) : d \in {2, 5}, n \in {1, 2}, by \in {{}, {1, 6}}}
    \cup {Event("MONTHLY", d, 1, n, {}) : d \in {2, 9}, n \in {1, 2}}
    \cup {Event("MONTHLY", 4, 1, n, {1, 4}) : n \in {1, 2}}
    \cup {Event("YEARLY", d, 0, 1, {}) : d \in {4, 5, 6}}

Ruled == Rules
    \cup {[r EXCEPT !.count = 3] : r \in {x \in Rules : x.interval = 1}}
    \cup {[r EXCEPT !.until = 10 * Slots] : r \in {x \in Rules : x.interval = 1}}

Chore == Event("DAILY", 6, 0, 4, {})
SmallSeries == Ruled \cup {Chore}
Feeds == {<<r, Once(7, 1), Event("UNSUPPORTED", 1, 1, 1, {}), Once(3, 1), Event("DAILY", 6, 0, 4, {})>> : r \in Ruled}

ICS(feed, s, e) == [mode |-> "ics", feed |-> feed, inSlots |-> 0, atTime |-> 0,
                    sleepStart |-> s, sleepEnd |-> e]
Mock(n, at, s, e) == [mode |-> "mock", feed |-> <<>>, inSlots |-> n, atTime |-> at,
                      sleepStart |-> s, sleepEnd |-> e]

SmallSetups ==
    {ICS(f, 0, 0) : f \in Feeds}
    \cup {Mock(n, at, s, e) : n \in {0, 3}, at \in {0, 2}, s, e \in 0..(Slots - 1)}
===============================================================================
