# spotdash, verified

TLA+ models of spotdash: a Go **agent** on a Windows PC polls a few sources
(clock, calendar, Spotify, telemetry), keeps the latest reading of each, and
feeds them over a WebSocket to a web **panel** shown by an Android **shell** on
a kiosk. The modules here follow the code under `src/`; TLC checks them on
small instances and TLAPS proves the central safety properties for every
instance.

    tlc -workers 2 -config MCFeed.cfg MCFeed      # one file per run, see "Runs"
    tlapm StoreProofs.tla                         # and the other *Proofs modules

`PROJECT.json` holds the machine-readable side: the runs, the source lines each
definition stands for, the mutants that show each property can fail, the
hazards, the findings and the theorems.

## Inventory

| component | state | operations | who it meets |
|---|---|---|---|
| state store (`internal/state`) | entry per source, subscriber channels | Register, Update, UpdatePartial, Fail, Snapshot, Subscribe, cancel | runner writes; handlers subscribe; `/health` reads |
| WebSocket feed (`internal/server/ws.go`) | one goroutine per connection, its channel, the frame in hand | accept, subscribe, hello, snapshot, live loop, write timeout, drop | store on one side, TCP and the panel on the other |
| panel connection (`web/app.js`) | `state.sources`, socket, reconnect timer, watchdog; face list, index, urgent hold | connect, message, close, checkStaleness, reconnect; pollHealth, syncFaces, tap, hold, wake | the feed, `/health` |
| source runner (`sources/runner.go`) | per source: failure count, timer, one-place repoll channel; the session context | poll, back off, PollNow, cancel, Wait | sources, store, lifecycle, taps |
| Spotify connection (`sources/spotify/auth.go`, `token.go`, `store.go`) | tokens in memory, refresh token on disk, one pending sign-in | accessToken, refresh, beginAuth, callback, save, clear | poller, control requests, browser tabs, Spotify |
| Spotify playback (`apisource.go`, `api.go`) | last track, art file, expectingChange | poll with retries, skip, play/pause, art | Spotify connection, runner, the Spotify face |
| lifecycle (`internal/app`) | `current` session under `App.mu`, listener, config file | Start, Reload, Stop, GET/POST settings | tray, main, every request, the port |
| startup (`cmd/spotdash`, `internal/config`, `internal/instance`) | config files in two places, named mutex, port | resolve, create default, load, acquire, start, finish, release | other copies of the program, the user |
| calendar (`sources/calendar`) | the mock event's start | parse, expand recurrences, choose next-up, urgency | runner |
| clock (`sources/clock`) | none | time, sleep window | runner, panel |
| telemetry | counters | read, degrade | runner |
| panel faces (`web/faces`) | optimistic icon, cover, dimming | draw, control, teardown | feed messages |
| kiosk shell (`src/shell`) | page state, fallback, retries, watcher, provisioning | load, finish, fail, retry, probe, pause, provision | the agent's HTTP side, the user |
| HTTP server, registry, tray menus, autostart, logging, tools | little or none | routing, I/O | - |

How they interact: the runner's goroutines call the store, the store broadcasts
under its mutex to bounded channels, each handler moves one event at a time from
its channel to its socket, and the panel folds what arrives into one map. A
reload replaces everything from the listener to the runner under `App.mu`. The
Spotify connection is the one piece of state that outlives a process besides the
configuration, each through a file written by rename.

What is hard here, by kind: subscribe-then-snapshot against concurrent updates;
a bounded channel at its limit; reconnects racing watchdogs; network requests
and file writes done between critical sections on copied fields; requests that
wait for a lock whose holder waits for the requests; copies of the program
racing on a first run; the panel's and the shell's timers and late callbacks;
dates. `hazards` lists each at its line.

What makes each part correct:

- store and feed: a subscriber is never quietly stale, order is kept, a panel
  the store feeds ends up with exactly the stored readings, no subscription
  outlives its handler;
- panel connection: always a socket or a timer, never both for the next one; a
  step back to an older reading is made good at once; the faces come to match the settings, a hold gives the panel back;
- runner: no tap is lost, an ok reading is recent, Wait returns;
- Spotify connection: a code is exchanged once, an answer is saved before it is
  relied on, a dead grant is given up;
- Spotify playback: a published cover is the track's, a skip shows at the next
  poll, the face ends up right;
- lifecycle: one session polls, the current one is whole, Stop is final, saved
  settings arrive, requests and reloads do not wait for each other for good;
- startup: one configuration and token for life, no failure without a cause,
  one copy serves;
- calendar, clock: occurrences and windows agree with their definition;
- shell: nothing blank is left uncovered, the panel comes back by itself.

## Modules

| module | models | with |
|---|---|---|
| `StateStore` | `state.go`, `subscribe.go` | the store both of these use |
| `Feed` | `ws.go`, the connection half of `app.js` | EXTENDS StateStore |
| `Runner` | `runner.go`, `partial.go` | EXTENDS StateStore |
| `SpotifyAuth` | `auth.go`, `token.go`, `store.go`, the poll's retry | - |
| `SpotifyPlayback` | `apisource.go`, `api.go`, `faces/spotify.js` | agent and face composed |
| `OneAtATime` | what `app.go` promises of its sessions | abstract |
| `Lifecycle` | `app.go` | implements OneAtATime |
| `Startup` | `main.go`, `config.go`, `resolve.go`, `instance_windows.go` | - |
| `PanelFaces` | the face half of `app.js`, `faces/clock.js` | - |
| `Shell` | `PanelActivity.kt`, `AgentWatcher.kt`, `PanelLoad.kt`, `Settings.kt`, `Provisioning.kt`, `Protocol.kt` | - |
| `SleepWindow`, `Recurrence` | `clock.go`'s window, `rrule.go` | pure operators |
| `Schedule` | `calendar.go`, `ics.go`'s choice of events, `clock.go`'s poll | EXTENDS both |
| `*Proofs` | theorems about the module of that name (`StoreProofs`: StateStore, Feed and Runner) | - |
| `MC*` | constants for TLC | - |

**StateStore.** Every method runs under the store's mutex, so each is one
action. A reading is its version, the number of readings the source has had; 0
is a source never polled. `Broadcast` is `broadcastLocked`: append where it
fits, drop and close who is full. `Subscribe` reuses a connection's slot with an
empty channel. Go's data and timestamps are left out, as nothing here looks into
them.

**Feed.** `handler[c]` is where `handleWebSocket` stands: `accepted`,
`hello` (subscribed, hello in hand), `loop`, `returned`. `pending[c]` holds the
frames taken from the store and not yet written; the snapshot's frames leave in
any order, which cannot be told apart as no source is in it twice. `wire[c]` is
the TCP stream; a full one blocks the write until the panel reads or the write
times out. `link[c]` says whether the path works; nobody is told when it stops
(`Vanish`). A slot is taken again only when its handler has returned and no
panel holds it, so reconnection is unbounded in a finite state. The ping and
`CloseRead` are one action, `PeerGone`. Authorisation is a refused connect. A
refused connect ends in the close handler (`ConnectRefused`); a `new WebSocket`
that throws only arms the timer, and the panel goes on saying `connecting`
(`ConnectThrows`). The panel's watchdog fires after 60 quiet seconds: either the path is dead or there
was nothing to send, and `CheckStaleness` allows both.

**Runner.** Time is discrete: `left[s]` counts down to the poll's deadline or to
the timer, and the clock does not pass either. `select` picks at random, so the
three cases are three actions. `unserved` and `age` are history variables for
the properties.

**SpotifyAuth.** The mutex guards fields only, so each step between two critical
sections is an action: copy the token, ask Spotify, write the file, set the
fields. Tokens are numbered as issued; `valid` and `accepted` are what Spotify
honours. `Restart` may come anywhere. A failing disk is the constant
`SavesMayFail`.

**SpotifyPlayback.** One poll at a time goes through fetch, the chase after a
skip (`TakeFlag`, `AwaitRetry`, `AwaitGivesUp`), the cover (`Settle`,
`CoverFails`) and `Publish`; a control request and the face's click handler run
beside it, each await being a step. The way of a reading to the panel is a queue
in order. `behind` is how many fetches still show the track before a skip.
The repoll a control request asks for is any `BeginPoll`. Left out: reloads,
tracks without a cover, `previous` (it is handled as `next`), mock mode.

**Lifecycle.** A session is a slot: `bound`, `serving`, `draining`, `closed`.
`op[t]` is a Reload or Stop by the tray, by main, or by the timer a save arms.
`net/http` is external: Shutdown closes the listener only once Serve has
registered it (else Serve does, later), waits for active requests up to
`shutdownGrace`, and leaves upgraded sockets alone. `Edit` is the user's editor,
`GrabPort` another program. A finished slot is reused when nothing refers to it.
`Phase` and `Polling` are the refinement mapping to `OneAtATime`: the agent is
`up` while its current session polls, `changing` inside a Reload, `down` when
there is no current session or main's Stop has run.

**Startup.** Each copy walks through `run()`: resolve, create (temporary file,
then a link that fails if the name exists), load, acquire the mutex, start,
serve, save, finish, release. A configuration is its token and whether the file
is complete. A process may be killed anywhere, and the system closes its mutex
handle and frees its port in either order. Left out: temporary files left
behind, the `-config` flag and the working directory, hand edits and deletion of
the file, and the lock off Windows, where Acquire always succeeds.

**PanelFaces.** The main thread's handlers: a `/health` answer rebuilds the
face list, a tap steps through it, an urgent event takes the panel and a timer
gives it back, the clock's messages dim it. Requests are not awaited, so two are
in flight and may be answered in either order. `currentIndex`, `calendarIndex`
and `urgentReturnTo` stay indices, as in the code, although the list under them
changes. The history variable `before` is the list up to the face a hold
interrupted: as long as the list still starts with it, the index to return to
names that face, whatever came or went behind it. `FacesAssumption` keeps the
order of `app.js:12`: the clock, which cannot be hidden, then the calendar. So a
viewer who moved on is recognised by the index while there is a calendar face.
When a face up to the interrupted one is hidden or shown meanwhile the indices
do go wrong: `MCPanelFacesHold` under "Findings". Left out: faces whose render
or teardown throws.

**Shell.** The activity's methods are operators from a shell record to a shell
record and nest as the methods call each other; the actions are the callbacks.
`onPageFinished` is also called for loads that failed or were abandoned
(`LateFinish`). Left out: the length of delays, which side a protocol mismatch
blames, and the drawing of the settings sheet.

**Recurrence, SleepWindow, Schedule.** Days are counted, and the calendar's
month lengths and leap rule are parameters, so that a short year has every
irregularity of the real one. `Candidates` is `candidateOccurrences` with its
cap; an occurrence keeps its time of day. `Schedule` lets time pass and each
source poll now and then. Left out: fetching, the ICS syntax, time zones and
changes of clock, UNTIL given as a date, repeated BYDAY entries, mock mode
without an event.

## Runs

| run | expect | shows |
|---|---|---|
| `feed` | pass | `Gapless`, `InStoredOrder`, `Converges`, `NoOrphanSubscriber`, `OneSocket`, `StepsBackBriefly`, `EventuallyFresh`, with a stale handler beside the new connection |
| `runner` | pass | `TapNotLost`, `OkIsRecent`, `WaitIsCappedDoubling`, `WaitReturns` |
| `auth` | pass | `OneExchangePerAttempt`, `SavedBeforeTrusted`, `GivesUpDeadGrant` |
| `lifecycle` | pass | `CurrentIsServing`, and that Lifecycle implements OneAtATime |
| `lifecycle_ends` | pass | `NobodyWaitsForever`, `SavedIsApplied` |
| `panel` | pass | `ReturnsToBefore`, `FacesFollowSettings`, `DarkAgain` |
| `panel_urgent` | violation | a daily event raises the panel on the first day only |
| `shell` | pass | `NeverBlank`, `PanelComesBack`, `OutageIsReported` |
| `shell_outage` | violation | an outage once dismissed may never be shown again |
| `playback` | pass | `CachedIsInFile`, `SkipShows`, `FaceSettles` |
| `startup` | pass | `ConfigForLife`, `FailsForCause`, `SomebodyServes` |
| `schedule` | pass | `AgendaMatchesRules`, `AsleepInWindow`, `NextUpIsStable` |

Most runs also check a type invariant. Every passing property has a mutant in
`PROJECT.json`: one definition replaced by a plausible bug (its operator stands
just before the one it mutates), under which TLC finds that property violated.

Seven further configurations each show a disagreement, see "Findings":
`MCRunnerTaps`, `MCSpotifyAuthDenial`, `MCSpotifyAuthDisk`, `MCSpotifyAuth401`,
`MCLifecycleSockets`, `MCSpotifyPlaybackIcon` and `MCPanelFacesHold`; TLC finds the counterexample
within seconds.

### Bounds

- Feed: `BufferCap` 2 (32 in the code) and `WireCap` 1, the smallest that lets a
  queue be neither empty nor full, and both fill at once. `MaxVersion` 3
  overflows the buffer. `MaxFaults` 1: one broken link, refused or throwing
  connect or stalled write; drops by the store and idle watchdog closes are free, so
  reconnects are unbounded. Two slots for one panel leave a handler on a dead
  path beside the next connection. The proofs need no bound.
- Runner: `FailureCap` 3; the delay is flat beyond
  `2^FailureCap >= MaxBackoff` (an assumption), the age is counted to the largest
  value compared. `MaxBackoff` 7 and `MinPollTimeout` 3 make the cap uneven and
  the deadline longer than the interval.
- SpotifyAuth: `MaxIssued` 3, `MaxAttempts` 1: an old grant, its rotation, and a
  new sign-in whose callback two tabs deliver.
- SpotifyPlayback: two tracks, one retry with a lag of one fetch, two taps one
  after the other and one change at another device: a skip away, a skip back,
  and a phone that does either in between.
- Lifecycle: `MaxSessions` 3: the current one, the one before it still referred
  to by a request or socket, and the one being started; slots are reused.
  `MaxGrabs` 1 is enough for a failed bind and a failed restore. In
  `lifecycle_ends` it is 0, a bind still fails when Serve has not run, and two
  savers let a save overlap the reload of the one before.
- Startup: three copies: one may hold the lock, one the port, and a third race
  both. Starts, kills and quits are unbounded. There are two tokens more than
  copies, so a fresh one always exists (`TokenLeft` in StartupProofs).
- PanelFaces: four faces, each but the clock hidden by one of the settings, two
  changes of settings, two requests in flight, two events. Taps, holds and
  nights are unbounded.
- Shell: `DownAfter` 2 (one probe begins an outage, the next reports it), one
  probe under way, two late `onPageFinished`: one of a failed and one of an
  abandoned load. Everything else is unbounded.
- Schedule: a year of months of 3, 2 and 4 days with a leap day every third
  year, three times of day, a cap of 6 occurrences, 24 days. Every frequency
  meets a short month, the leap day, COUNT, UNTIL and the cap; a feed holds a
  rule of each kind beside two single events, a rule that is refused and a
  chore, one more than fit the agenda. Every window of the day, empty and past
  midnight, is a setup.

### Fairness

The Go scheduler runs goroutines that can run, and the browser and Android run
their event loops: weak fairness on their steps. `select` among ready cases is
random, hence strong fairness on its cases in `Runner`. A goroutine waiting for
`App.mu` gets it in the end (Go's starvation mode), hence strong fairness on
`Refuse`, `BeginStop` and `GetAnswered`. What the network does is assumed only
not to fail every time: a denial in `SpotifyAuth`, a fetch, a cover or an image
in `SpotifyPlayback`, a `/health` answer in `PanelFaces`, a page load in `Shell`
happen in the end if they stay possible (strong fairness). In `PanelFaces` the
clock source goes on reporting what it reported before, as its interval makes it
do. In `Startup` a process that was started runs on. `Schedule` has no liveness
property. Nothing is assumed of users, faults, taps or other programs.

### Findings

Two have a run; `PROJECT.json` quotes the lines.

- `panel_urgent`: `handleCalendarUrgency` knows an event by its title and HH:MM
  and never forgets the last one, so tomorrow's occurrence of a daily event is
  taken for today's and does not raise the panel.
- `shell_outage`: the watcher reports an outage once. If the fallback is hidden
  by the user or by a provisioning file, and the agent comes back for less than
  the time between two probes, the panel page that loaded then stays up for the
  rest of the outage.

Seven have a configuration that shows them:

- `MCRunnerTaps` (`BurstCannotBunchPolls`): a tap polls at once even if the last
  tapped poll has just ended; a comment in `runner.go` says a burst of taps
  cannot bunch polls.
- `MCSpotifyAuthDenial` (`OnlyDeadGrantsCleared`): the denial of an old refresh
  token is applied to whatever token is held by then.
- `MCSpotifyAuthDisk` (`DiskMatchesMemory`): two writers of the Spotify state can
  leave the file and the memory with different tokens.
- `MCSpotifyAuth401` (`RetryUsesAnotherToken`): a poll's retry after a 401 gets
  the refused token from the cache.
- `MCLifecycleSockets` (`SocketsCloseWithSession`): a WebSocket is not closed
  when its session stops.
- `MCSpotifyPlaybackIcon` (`KnownOutcomeApplied`): a reading that arrives before
  the answer to the tap it reports makes the click handler set the opposite
  icon, until the next reading.
- `MCPanelFacesHold` (`HoldGivesBack`): a hold keeps two indices into the face
  list, and a settings change meanwhile moves what they name. With the panel on
  status, an event takes it, the settings hide spotify, and the hold goes back to
  the fourth of three faces, the clock. With the calendar hidden instead, a viewer
  who has tapped to the face that is now second is taken for one still on the
  calendar, and is moved. `app.js:142-144`, `app.js:176` and
  `docs/architecture.md:202` say the hold returns to the previous face unless the
  viewer tapped away. `ReturnsToBefore` is what does hold.

The rest were read off the code while modelling:

- when a sign-in cannot be saved the page says it is connected until a restart,
  but `handleCallback` has returned before it set the tokens (`auth.go:153-157`,
  `SaveExchangedFails`);
- a reload that fails to restore the old session leaves none, where
  `tray/run.go:91` says the agent stays on its previous configuration
  (`Restore`);
- a save overwrites an edit made between its read and its write, where
  `docs/architecture.md:429` says a manual edit is kept (`PostArrives`,
  `PostSaved`);
- the agenda has 8 entries, where `docs/architecture.md:194` says 3;
- a yearly event on 29 February falls on 1 March in other years (`AddMonths`,
  and `Falls` says so);
- the mock event's start is kept in the source, which a reload replaces, where
  the comment on `pollMock` says the countdown survives a reload (true of the
  panel's, not of the agent's);
- a copy that meets another one's mutex handle during that one's own refusal
  exits as the second although nobody serves, if the first has meanwhile quit
  (`Acquire`, `ExitSecond`).

## Proofs

Eight modules hold theorems, for every value of the constants. They rest on the
named assumptions of the modules (enabled sources are configured ones,
capacities are positive, markers such as `NoConn` or `Nobody` are not what they
mark, the set of copies is finite, an event has a date and a time of day) and on
the library's facts about finite sets, functions, sequences and well-founded
orders. Two assumptions deserve a word. `PowersAssumption` (Runner) says of the
powers of two that each is twice the one before, which is all the provers need
to know of `^`. `TabulatedAssumption` (Recurrence) says that the table of months
is long enough for the expansions. TLC evaluates both.

What is computed by recursion over data is proved by least elements: the
library's induction theorems take a predicate, which the provers cannot
instantiate, but a set can be given, and a set of naturals that holds 0 and the
successor of each of its members holds all of them (`Inductive`, from the
library's `WFMin`; `LeastIsLeast` and `LeastNumber` are the same fact).

- **StoreProofs**, StateStore: `StoreTypeCorrect`, `StoreGapless`,
  `StoreInStoredOrder`. `Gapless` is inductive with typing. `InStoredOrder` is
  not: the appended event must exceed all that wait, so it is proved with
  `QueuedIsPast`, no queued event is ahead of the store. Steps that do not
  publish are handled once (`OtherSteps`: a queue stays, loses its head or is
  emptied).
- **StoreProofs**, Feed: `FeedGapless` and `FeedInStoredOrder` carry the store's
  two theorems over, since only `Write`, `SubscribeFirst`, `TakeEvent` and the
  returns touch the store, and through its methods. `FeedConverges` and `FeedNoOrphanSubscriber` from
  `FeedInv`: typing, `NoOrphanSubscriber` (or a slot could be accepted while
  still subscribed), `LastIsCurrent` (the last event queued about a source is the
  stored reading: what makes a late snapshot safe), `OnePerSource` (a write moves
  the only frame of its source), `OneHolder` (a frame is not received by another
  panel) and `Converges`; and `FeedQuietIsFresh`, that a fed panel with nothing on
  its way shows what the store holds, which is the safety half of
  `EventuallyFresh`. `FeedStepsBackBriefly` adds `NoneAhead` (no frame on its way
  and nothing on screen is newer than the store) and `HelloFirst` (before the
  snapshot a panel is sent the hello only): a step back is then one of a panel
  `Converges` speaks of, and what it still has coming is the stored reading.
  `FeedOneSocket` is inductive with typing.
- **StoreProofs**, Runner: `BackoffIsCappedDoubling`, that the loop which stops
  at the cap computes the closed form, one round at a time, and from it
  `RunnerTypeCorrect` and `RunnerWaitIsCappedDoubling`. `RunnerTapNotLost` and
  `RunnerOkIsRecent`: the latter bounds a sum: in `AgeInv` the age of an ok
  reading and the time left to the next event of its loop add up to what the
  loop's stages allow: a tick leaves the sum alone, and entering a stage raises
  it by that stage's length.
- **SpotifyAuthProofs**: `AuthTypeCorrect`, `AuthOneExchange`,
  `AuthSavedBeforeTrusted`. `AttemptInv` adds that an exchanged attempt is no
  longer pending and one not begun was never exchanged; `SavedInv` that what
  is about to be set, and what is in use, came in an answer that was saved. `TryInv` is what the type of
  the poll's retry counter needs.
- **SpotifyPlaybackProofs**: `PlaybackTypeCorrect`, `PlaybackCachedIsInFile`,
  `PlaybackSkipShows`. The last holds where Spotify's lag is at most the number
  of retries, and only there: with a lag of 2 and one retry TLC finds a skip that
  does not show. `SkipInv` has three parts: a skip leaves the track it was made
  from (`SkipLeaves`), the flag it sets is still there for the first poll begun
  after it (`FlagKept`), and that poll chases the skipped track with enough
  retries left to outlast the lag (`PollChases`).
- **LifecycleProofs**: `LifecycleTypeCorrect`, `LifecycleCurrentIsServing`,
  `LifecycleSavedIsApplied`, `LifecycleImplementsOneAtATime`. One invariant
  serves all four: `LockInv` (whoever has an operation in progress holds
  `App.mu`), `CurrentInv` (how far that operation has come determines what the
  current session still does, and no other session does anything), `ReloadInv`
  (what a reload starts is valid and has a slot) and `UnreadInv` (what a reload
  read is what was last saved, or another reload is armed).
- **StartupProofs**: `StartupTypeCorrect`, `StartupConfigForLife`,
  `StartupFailsForCause`. `CopyInv` adds that a copy which got past creation has
  a file in its place, that one which serves holds the token in it, so what it
  saves is what is there, and that a creating copy has no token yet. Then a
  counting argument (`TokenLeft`) shows a fresh token exists whenever one is
  drawn. `LockInv` is the mutex: of the copies that hold a handle of one
  configuration at most one got past Acquire, so the port a second one meets
  belongs to a process that was killed, that has another configuration, or that
  could not check the lock.
- **PanelFacesProofs**: `FacesTypeCorrect`, `FacesReturnsToBefore`. Whatever is
  hidden, the list of faces begins with the clock and holds the calendar second
  or not at all (`FilterLists`, by induction over the filter). `PanelOK` is the
  part of the type about the screen; every `showFace` reestablishes it (`Shown`).
  `HoldInv`: a running hold remembers the calendar where it always is, and
  `urgentReturnTo` counts the faces up to the interrupted one.
- **ShellProofs**: `ShellTypeCorrect`, `ShellNeverBlank`. Methods nest, so the
  argument goes method by method: each keeps a shell `Presentable`, which adds to
  `NeverBlank` that a finish callback still to come cannot lift the fallback off
  a page that is not coming.
- **ScheduleProofs**: `SleepsInWindow` (the window's comparisons agree with
  counting round the clock, for every day length), and `PanelSleepsInWindow`.
  `ScheduleAgendaInOrder`: events take the places of their ranks, every rank is
  taken because as many distinct ranks as events fit between 0 and their number
  (`RankTells`, `RankTaken`), and the list is cut after the first so many.
  `ScheduleTypeCorrect` and `ScheduleNextUpIsStable` rest on `AgendaInv`: as long
  as the first event listed has not begun, neither has any other, so every start
  is still what it was (`StartStays`) and a poll would list the same.
  `ScheduleAgendaMatchesRules`, that the agenda agrees with the rules, has two
  halves. `ScheduleAgendaMatches` reduces it to the expansion of each rule
  (`Expands`: only days the rule falls on, none left out before the last, and all
  of them or as many as the cap): the days before one in the expansion are then
  the days before it in the series, which is what COUNT counts (`LeftIsComing`).
  `PeriodsExpand` gives `Expands` for periods that are disjoint, in order and
  not empty, and `DailyExpands`, `WeeklyExpands`, `MonthlyExpands` and
  `YearlyExpands` show that of each frequency, from division with remainder and
  from the months' first days (`DateOfDay`, `DayOfDate`, `DateRuns`). The proof of
  `WeeklyExpands` found that two guards of a CASE in `Period` overlapped, which
  TLC, taking the first, could not notice; they no longer do.

Only model-checked: the liveness properties, which need fairness and ENABLED;
and `AgendaMatchesRules` for monthly rules on days that some months lack. There
the expansion may give up early: it tries twice as many months as the cap, and a
rule that falls on fewer than every other of them gets fewer days than the cap,
contrary to the formula. With the real calendar and the cap of 500 that takes a
rule such as day 31 of every second month from February on, and 167 years.

## Not modelled

The HTTP server is stateless routing and a constant-time comparison;
telemetry reads the operating system, and its partial result is the one
`Runner` models; the registry is a table; tray menus, autostart, logging, the
settings page and the PowerShell tools are I/O. Within the modelled parts:
payload contents, token expiry times (a token becomes due at any moment),
PKCE values, TLS, the text of pages, the rules of `Validate`, the ICS syntax,
and what each module's section above says it leaves out.

## What is left

1. `SpotifyPlayback` across a reload, and with tracks that have no cover.
2. A second source in `Runner`'s run, with an interval beyond the cap (the
   theorems cover both).
