------------------------------ MODULE PanelFaces ------------------------------
(***************************************************************************)
(* The panel's face manager, agent/web/app.js: which faces exist follows   *)
(* the settings /health reports, taps step through them, the clock dims    *)
(* the panel at night, and an urgent calendar event takes the panel for a  *)
(* while and gives it back.  The poll of /health is started by a timer and *)
(* not awaited, so two may be in flight and be answered in either order.   *)
(* A face whose render or teardown throws is left out.                     *)
(***************************************************************************)
EXTENDS Naturals, Sequences

CONSTANTS
    AllFaces,       \* ALL_FACES, titles in tap order
    Settings,       \* what the settings page can save: [hidden, style]
    Events,         \* urgent events, occurrences told apart
    KeyOf(_),       \* what the panel tells events by: title and start time
    NoEvent,
    NoAnswer,
    Requests,       \* /health requests that may be in flight at once
    MaxChanges      \* bound: settings changes

ASSUME FacesAssumption ==
    /\ AllFaces \in Seq(STRING) /\ Len(AllFaces) >= 2
    /\ AllFaces[1] = "clock" /\ AllFaces[2] = "calendar"
    /\ \A i, j \in DOMAIN AllFaces : AllFaces[i] = AllFaces[j] => i = j
\* config.Validate: the clock cannot be hidden.
ASSUME SettingsAssumption == Settings # {} /\ \A s \in Settings : "clock" \notin s.hidden
ASSUME NoneAssumption == NoEvent \notin Events /\ NoAnswer \notin Settings /\ MaxChanges \in Nat

VARIABLES
    settings,       \* the agent's settings
    changes,
    answer,         \* answer[q]: the settings request q brings, or NoAnswer
    faces,          \* FACES
    index,          \* currentIndex
    face,           \* currentFace's title
    style,          \* lastClockStyle and lastHideNextEvent
    asleep,         \* state.sources.clock.data.sleep
    dark,           \* panel.dataset.sleep
    latest,         \* the last urgent event heard of; urgentKey is its key
    hold,           \* urgentHoldTimer: whether it runs, and its calendarIndex
    returnTo,       \* urgentReturnTo, kept when hold.on
    before          \* history: FACES up to the face a running hold interrupted, else <<>>

panel == <<faces, index, face, dark>>
urgent == <<latest, hold, returnTo>>
vars == <<settings, changes, answer, panel, style, asleep, urgent, before>>

Titles == {AllFaces[i] : i \in DOMAIN AllFaces}

(* visibleFaces: the filter, and everything rather than nothing.           *)
VisibleFaces(hidden) ==
    LET visible[n \in 0..Len(AllFaces)] ==
            IF n = 0 THEN <<>>
            ELSE IF AllFaces[n] \in hidden THEN visible[n - 1]
            ELSE Append(visible[n - 1], AllFaces[n])
    IN  IF visible[Len(AllFaces)] = <<>> THEN AllFaces ELSE visible[Len(AllFaces)]

Has(fs, title) == \E i \in DOMAIN fs : fs[i] = title
FindIndex(fs, title) == (CHOOSE i \in DOMAIN fs : fs[i] = title) - 1

(* Among the types: the face on screen is the one currentIndex names, so   *)
(* that a tap goes to its neighbour, whatever faces appeared or went.      *)
TypeOK ==
    /\ settings \in Settings /\ changes \in 0..MaxChanges
    /\ answer \in [Requests -> Settings \cup {NoAnswer}]
    /\ faces \in {VisibleFaces(s.hidden) : s \in Settings} \cup {AllFaces}
    /\ index \in 0..(Len(faces) - 1) /\ face = faces[index + 1]
    /\ style \in {s.style : s \in Settings} \cup {"digital"}
    /\ asleep \in BOOLEAN /\ dark \in BOOLEAN
    /\ latest \in Events \cup {NoEvent}
    /\ hold \in [on : BOOLEAN, calendar : 0..Len(AllFaces)]
    /\ returnTo \in 0..(Len(AllFaces) - 1)
    /\ before \in Seq(Titles)

NoHold == [on |-> FALSE, calendar |-> 0]

Init ==
    /\ settings \in Settings /\ changes = 0
    /\ answer = [q \in Requests |-> NoAnswer]
    /\ faces = AllFaces /\ index \in 0..(Len(AllFaces) - 1) /\ face = AllFaces[index + 1]
    /\ style = "digital"
    /\ asleep = FALSE /\ dark = FALSE
    /\ latest = NoEvent /\ hold = NoHold /\ returnTo = 0
    /\ before = <<>>

-------------------------------------------------------------------------------
(* showFace: the clock's teardown wakes the panel, its render dims it again *)
(* if its last reading says so.                                            *)
ShowFace(fs, i) ==
    /\ faces' = fs
    /\ index' = i % Len(fs)
    /\ face' = fs[index' + 1]
    /\ dark' = (face' = "clock" /\ asleep)

(* Mutant: the faces are replaced under the face that is showing.          *)
SyncFacesInPlace(s) ==
    LET next == VisibleFaces(s.hidden)
    IN  IF next = faces \/ Has(next, face)
        THEN faces' = next /\ UNCHANGED <<index, face, dark>>
        ELSE ShowFace(next, 0)

(* Mutant: as many faces as before are taken for the same faces.           *)
SyncFacesByLength(s) ==
    LET next == VisibleFaces(s.hidden)
    IN  IF Len(next) = Len(faces)
        THEN UNCHANGED panel
        ELSE ShowFace(next, IF Has(next, face) THEN FindIndex(next, face) ELSE 0)

(* syncFaces: the face shown stays if it still exists.                     *)
SyncFaces(s) ==
    LET next == VisibleFaces(s.hidden)
    IN  IF next = faces
        THEN UNCHANGED panel
        ELSE ShowFace(next, IF Has(next, face) THEN FindIndex(next, face) ELSE 0)

(* pollHealth applies its answer: the faces, then the clock's variant,     *)
(* which is rendered again when it changed under the clock face.           *)
HealthArrives(q) ==
    /\ answer[q] # NoAnswer
    /\ answer' = [answer EXCEPT ![q] = NoAnswer]
    /\ style' = answer[q].style
    /\ IF style' # style /\ face = "clock" /\ VisibleFaces(answer[q].hidden) = faces
       THEN ShowFace(faces, index)
       ELSE SyncFaces(answer[q])
    /\ UNCHANGED <<settings, changes, asleep, urgent, before>>

HealthFails(q) ==
    /\ answer[q] # NoAnswer
    /\ answer' = [answer EXCEPT ![q] = NoAnswer]
    /\ UNCHANGED <<settings, changes, panel, style, asleep, urgent, before>>

(* The interval timer; the agent answers with the settings of the moment.  *)
PollHealth(q) ==
    /\ answer[q] = NoAnswer
    /\ answer' = [answer EXCEPT ![q] = settings]
    /\ UNCHANGED <<settings, changes, panel, style, asleep, urgent, before>>

SaveSettings ==
    /\ changes < MaxChanges /\ changes' = changes + 1
    /\ settings' \in Settings \ {settings}
    /\ UNCHANGED <<answer, panel, style, asleep, urgent, before>>

(* Taps and arrow keys.                                                    *)
Tap ==
    /\ \E step \in {1, Len(faces) - 1} : ShowFace(faces, index + step)
    /\ UNCHANGED <<settings, changes, answer, style, asleep, urgent, before>>

-------------------------------------------------------------------------------
(* Mutant: every message wakes the panel, a hold or none.                  *)
WakeAlways(running, d) == FALSE

(* The end of the message handler: a running hold keeps the panel lit.     *)
Wake(running, d) == d /\ ~running

ClockMessage(s) ==
    /\ asleep' = s
    /\ dark' = Wake(hold.on, IF face = "clock" THEN s ELSE dark)
    /\ UNCHANGED <<settings, changes, answer, faces, index, face, style, urgent, before>>

(* Any other source, and a calendar reading that is not urgent, or whose   *)
(* key is the last one's, or that comes while the calendar is hidden.      *)
QuietMessage(e) ==
    /\ e = NoEvent \/ KeyOf(e) = KeyOf(latest) \/ ~Has(faces, "calendar")
    /\ latest' = IF e = NoEvent THEN latest ELSE e
    /\ dark' = Wake(hold.on, dark)
    /\ UNCHANGED <<settings, changes, answer, faces, index, face, style, asleep, hold,
                   returnTo, before>>

(* Mutant: a second event during a hold takes the calendar for the face to *)
(* return to.                                                              *)
ReturnToOverwritten == index

(* A retrigger keeps the face the first event interrupted.                 *)
ReturnTo == IF hold.on THEN returnTo ELSE index

(* handleCalendarUrgency.                                                  *)
UrgentMessage(e) ==
    /\ e # NoEvent /\ KeyOf(e) # KeyOf(latest) /\ Has(faces, "calendar")
    /\ latest' = e
    /\ hold' = [on |-> TRUE, calendar |-> FindIndex(faces, "calendar")]
    /\ returnTo' = ReturnTo
    /\ before' = IF hold.on THEN before ELSE SubSeq(faces, 1, index + 1)
    /\ faces' = faces /\ index' = hold'.calendar /\ face' = "calendar"
    /\ dark' = FALSE
    /\ UNCHANGED <<settings, changes, answer, style, asleep>>

(* The hold's timer: back to the index of before, unless the panel is not  *)
(* at the calendar's.                                                      *)
HoldEnds ==
    /\ hold.on
    /\ hold' = NoHold /\ returnTo' = 0 /\ before' = <<>>
    /\ IF index = hold.calendar THEN ShowFace(faces, returnTo) ELSE UNCHANGED panel
    /\ UNCHANGED <<settings, changes, answer, style, asleep, latest>>

Next ==
    \/ \E q \in Requests : PollHealth(q) \/ HealthArrives(q) \/ HealthFails(q)
    \/ SaveSettings \/ Tap \/ HoldEnds
    \/ \E s \in BOOLEAN : ClockMessage(s)
    \/ \E e \in Events \cup {NoEvent} : QuietMessage(e) \/ UrgentMessage(e)

(* The interval timer goes on, and the clock source goes on reporting,     *)
(* mostly what it reported before; not every request fails.                *)
Fairness ==
    /\ \A q \in Requests : WF_vars(PollHealth(q)) /\ SF_vars(HealthArrives(q))
    /\ WF_vars(HoldEnds) /\ WF_vars(ClockMessage(asleep))

Spec == Init /\ [][Next]_vars /\ Fairness

-------------------------------------------------------------------------------
(* The face a running hold interrupted, and whether FACES still starts with *)
(* what stood there up to that face.                                       *)
Interrupted == before[Len(before)]
StillInPlace == Len(before) <= Len(faces) /\ SubSeq(faces, 1, Len(before)) = before

(* A hold goes by indices into FACES, which a settings change may rebuild  *)
(* meanwhile.  When it ends on the calendar the panel goes back to the     *)
(* face it took the place of, however many events followed each other and  *)
(* whatever came or went behind that face; and a viewer who has moved on   *)
(* is left where they are as long as there is a calendar face.  What both  *)
(* leave out, a face that came or went in front, is HoldGivesBack's.       *)
ReturnsToBefore ==
    [][(hold.on /\ ~hold'.on) =>
          /\ face = "calendar" /\ StillInPlace => face' = Interrupted
          /\ face # "calendar" /\ Has(faces, "calendar") => face' = face]_vars

(* The faces come to match the saved settings and stay so, although an     *)
(* older answer may overtake a newer one.                                  *)
FacesFollowSettings == <>[](faces = VisibleFaces(settings.hidden))

(* A hold does not leave the panel lit all night: left on the clock, with  *)
(* no hold running and the agent reporting night, it goes dark and stays.  *)
DarkAgain == <>[](face = "clock" /\ asleep /\ ~hold.on) => <>[]dark

(* docs/architecture.md, Calendar: "Client switches to the calendar face   *)
(* on a new urgent event".                                                 *)
NewEventRaises ==
    [][(latest' # latest /\ Has(faces, "calendar")) => face' = "calendar"]_vars

(* app.js, handleCalendarUrgency: "holds it for show_seconds, then returns *)
(* to the previous face", "Leave the panel alone if someone tapped away".  *)
(* The interrupted face still exists: it comes back.                       *)
HoldGivesBack ==
    [][(hold.on /\ ~hold'.on) =>
          /\ face = "calendar" /\ Has(faces, Interrupted) => face' = Interrupted
          /\ face # "calendar" => face' = face]_vars
===============================================================================
