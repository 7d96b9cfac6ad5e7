---------------------------- MODULE SpotifyPlayback ----------------------------
(***************************************************************************)
(* What is playing, from Spotify to the panel and back: the api-mode       *)
(* source (agent/internal/sources/spotify), which polls the Web API,       *)
(* chases its lag after a skip and keeps the cover in one file that the    *)
(* agent serves, and the Spotify face (agent/web/faces/spotify.js), whose  *)
(* buttons go through POST /spotify/control.  The poller, the request      *)
(* handler and the face run concurrently.                                  *)
(*                                                                         *)
(* Spotify and the image loader are external.  The token is SpotifyAuth's; *)
(* the way a reading takes to the panel is Feed's: here a queue in order.  *)
(* The session is not reloaded, every track has a cover, and previous is   *)
(* a skip like next.                                                       *)
(***************************************************************************)
EXTENDS Naturals, Sequences

CONSTANTS
    Tracks, Idle,   \* tracks, and nothing playing (np == nil)
    Retries,        \* consistencyRetries
    Lag,            \* fetches that may still show the track before a skip
    Taps,           \* requests of the panel's buttons under way at once
    MaxFeed,        \* bound: readings on their way
    MaxTaps,        \* bound: taps
    MaxChanges      \* bound: changes made at another device

ASSUME TracksAssumption == Idle \notin Tracks /\ \E a, b \in Tracks : a # b
ASSUME BoundsAssumption ==
    /\ Retries \in Nat /\ Lag \in Nat /\ MaxFeed \in Nat \ {0}
    /\ MaxTaps \in Nat /\ MaxChanges \in Nat

VARIABLES
    player,         \* Spotify: the track, whether it plays, and what fetches still show
    changes,
    poll,           \* the poll in flight
    source,         \* apiSource's fields
    cover,          \* whose cover the art file holds
    feed,           \* readings on their way to the panel
    held,           \* state.sources.spotify.data
    face,           \* the face: mounted, currentlyPlaying, shownArt, the image shown
    tap,            \* tap[t]: progress of a control request
    taps,
    skipped         \* history: the known track a skip leaves, and how far the skip is

spotify == <<player, changes>>
agent == <<poll, source, cover>>
vars == <<spotify, agent, feed, held, face, tap, taps, skipped>>

Playing == Tracks \cup {Idle}
Readings == [track : Playing, playing : BOOLEAN, art : BOOLEAN]
Actions == {"pause", "resume", "next"}

TypeOK ==
    /\ player \in [track : Playing, playing : BOOLEAN, old : Playing, behind : 0..Lag]
    /\ changes \in 0..MaxChanges
    /\ poll \in [pc : {"idle", "fetch", "fetched", "await", "art", "publish"}, track : Playing,
                 playing : BOOLEAN, art : BOOLEAN, tries : 0..Retries]
    /\ source \in [previous : Playing, last : Playing, hasArt : BOOLEAN, expecting : BOOLEAN]
    /\ cover \in Playing
    /\ feed \in UNION {[1..n -> Readings] : n \in 0..MaxFeed} /\ held \in Readings
    /\ face \in [mounted : BOOLEAN, playing : BOOLEAN, url : Playing, img : Playing \cup {"loading"}]
    /\ tap \in [Taps -> [pc : {"idle", "sent", "acted", "ok"}, action : Actions]]
    /\ taps \in 0..MaxTaps
    /\ skipped \in [track : Playing, at : {"no", "spotify", "answered", "polled"}]

NoPoll == [pc |-> "idle", track |-> Idle, playing |-> FALSE, art |-> FALSE, tries |-> 0]
NoTap == [pc |-> "idle", action |-> "pause"]
NoSkip == [track |-> Idle, at |-> "no"]
Nothing == [track |-> Idle, playing |-> FALSE, art |-> FALSE]

Init ==
    /\ \E t \in Playing : player = [track |-> t, playing |-> t # Idle, old |-> t, behind |-> 0]
    /\ changes = 0 /\ poll = NoPoll
    /\ source = [previous |-> Idle, last |-> Idle, hasArt |-> FALSE, expecting |-> FALSE]
    /\ cover = Idle /\ feed = <<>> /\ held = Nothing
    /\ face = [mounted |-> TRUE, playing |-> FALSE, url |-> Idle, img |-> Idle]
    /\ tap = [t \in Taps |-> NoTap] /\ taps = 0 /\ skipped = NoSkip

-------------------------------------------------------------------------------
(* Spotify.  A fetch soon after a skip still shows the old track.          *)
Seen == IF player.behind > 0 THEN player.old ELSE player.track
AfterFetch ==
    IF player.behind > 1 THEN [player EXCEPT !.behind = @ - 1]
    ELSE [player EXCEPT !.behind = 0, !.old = player.track]

PhoneChanges ==
    /\ changes < MaxChanges /\ changes' = changes + 1
    /\ \E t \in Playing, p \in BOOLEAN :
          /\ <<t, p>> # <<player.track, player.playing>> /\ (t = Idle => ~p)
          /\ player' = [track |-> t, playing |-> p, old |-> t, behind |-> 0]
    /\ skipped' = NoSkip
    /\ UNCHANGED <<agent, feed, held, face, tap, taps>>

-------------------------------------------------------------------------------
(* apiSource.poll, from the runner's timer or because a tap asked for it.  *)
BeginPoll ==
    /\ poll.pc = "idle"
    /\ poll' = [NoPoll EXCEPT !.pc = "fetch"]
    /\ skipped' = IF skipped.at = "answered" THEN [skipped EXCEPT !.at = "polled"] ELSE skipped
    /\ UNCHANGED <<spotify, source, cover, feed, held, face, tap, taps>>

(* fetchCurrentlyPlaying, with the retry after a 401.                      *)
Fetch ==
    /\ poll.pc = "fetch"
    /\ poll' = [poll EXCEPT !.pc = "fetched", !.track = Seen, !.playing = player.playing]
    /\ player' = AfterFetch
    /\ UNCHANGED <<changes, source, cover, feed, held, face, tap, taps, skipped>>

(* Mutant: the flag is taken down before it is known that the poll         *)
(* succeeds.                                                               *)
PollFailsForgetting ==
    /\ poll.pc = "fetch"
    /\ poll' = NoPoll
    /\ source' = [source EXCEPT !.expecting = FALSE]
    /\ UNCHANGED <<spotify, cover, feed, held, face, tap, taps, skipped>>

(* No token, or no answer: an error, and the flag stays for the next poll. *)
PollFails ==
    /\ poll.pc = "fetch"
    /\ poll' = NoPoll
    /\ UNCHANGED <<spotify, source, cover, feed, held, face, tap, taps, skipped>>

(* expectingChange.Swap(false).                                            *)
TakeFlag ==
    /\ poll.pc = "fetched"
    /\ poll' = IF source.expecting /\ poll.track # Idle
               THEN [poll EXCEPT !.pc = "await", !.tries = Retries]
               ELSE [poll EXCEPT !.pc = "art"]
    /\ source' = [source EXCEPT !.expecting = FALSE]
    /\ UNCHANGED <<spotify, cover, feed, held, face, tap, taps, skipped>>

(* awaitTrackChange: the loop's condition, then a sleep and a fetch.       *)
(* Mutant: it is retried until the track changes.                          *)
Unchanged == source.previous # Idle /\ poll.track = source.previous

AwaitRetryForever ==
    /\ poll.pc = "await" /\ Unchanged /\ Seen # Idle
    /\ poll' = [poll EXCEPT !.track = Seen, !.playing = player.playing, !.tries = @ - 1]
    /\ player' = AfterFetch
    /\ UNCHANGED <<changes, source, cover, feed, held, face, tap, taps, skipped>>

AwaitRetry ==
    /\ poll.pc = "await" /\ Unchanged /\ poll.tries > 0 /\ Seen # Idle
    /\ poll' = [poll EXCEPT !.track = Seen, !.playing = player.playing, !.tries = @ - 1]
    /\ player' = AfterFetch
    /\ UNCHANGED <<changes, source, cover, feed, held, face, tap, taps, skipped>>

(* A fetch that fails or finds nothing keeps what there is.                *)
AwaitGivesUp ==
    /\ poll.pc = "await" /\ Unchanged /\ poll.tries > 0
    /\ poll' = [poll EXCEPT !.pc = "art"]
    /\ skipped' = NoSkip
    /\ UNCHANGED <<spotify, source, cover, feed, held, face, tap, taps>>

AwaitEnds ==
    /\ poll.pc = "await" /\ ~(Unchanged /\ poll.tries > 0)
    /\ poll' = [poll EXCEPT !.pc = "art"]
    /\ UNCHANGED <<spotify, source, cover, feed, held, face, tap, taps, skipped>>

(* ensureArtCached.                                                        *)
Cached == source.hasArt /\ poll.track = source.last

(* History: a poll begun before the skip was done has seen another track.  *)
Outdated ==
    skipped' = IF skipped.at # "polled" /\ poll.track # skipped.track THEN NoSkip ELSE skipped

(* The rest of poll, up to the reading it returns: nothing playing, a      *)
(* cover that is cached or downloaded and written, or none.                *)
Settle ==
    /\ poll.pc = "art"
    /\ \/ /\ poll.track = Idle \/ Cached
          /\ poll' = [poll EXCEPT !.pc = "publish", !.art = poll.track # Idle]
          /\ source' = [source EXCEPT !.previous = poll.track]
          /\ UNCHANGED cover
       \/ /\ poll.track # Idle /\ ~Cached
          /\ poll' = [poll EXCEPT !.pc = "publish", !.art = TRUE]
          /\ cover' = poll.track
          /\ source' = [source EXCEPT !.previous = poll.track, !.last = poll.track, !.hasArt = TRUE]
    /\ Outdated
    /\ UNCHANGED <<spotify, feed, held, face, tap, taps>>

(* Mutant: the cover is believed cached although it was not written.       *)
CoverFailsUnnoticed ==
    /\ poll.pc = "art" /\ poll.track # Idle /\ ~Cached
    /\ poll' = [poll EXCEPT !.pc = "publish", !.art = FALSE]
    /\ source' = [source EXCEPT !.previous = poll.track, !.last = poll.track, !.hasArt = TRUE]
    /\ Outdated
    /\ UNCHANGED <<spotify, cover, feed, held, face, tap, taps>>

(* The download or the write failed: the file is as it was.                *)
CoverFails ==
    /\ poll.pc = "art" /\ poll.track # Idle /\ ~Cached
    /\ poll' = [poll EXCEPT !.pc = "publish", !.art = FALSE]
    /\ source' = [source EXCEPT !.previous = poll.track, !.hasArt = FALSE]
    /\ Outdated
    /\ UNCHANGED <<spotify, cover, feed, held, face, tap, taps>>

Publish ==
    /\ poll.pc = "publish" /\ Len(feed) < MaxFeed
    /\ feed' = Append(feed, [track |-> poll.track, playing |-> poll.playing, art |-> poll.art])
    /\ poll' = NoPoll
    /\ skipped' = IF skipped.at = "polled" THEN NoSkip ELSE skipped
    /\ UNCHANGED <<spotify, source, cover, held, face, tap, taps>>

-------------------------------------------------------------------------------
(* The face.  setArt swaps the image only when the URL, which carries the  *)
(* track, is another.                                                      *)
SetArt(f, url) ==
    IF url = f.url THEN f
    ELSE [f EXCEPT !.url = url, !.img = IF url = Idle THEN Idle ELSE "loading"]

(* Mutant: a reading that says what the last one said leaves the icon.     *)
OnStateIfChanged(f, r) ==
    IF r.track = Idle THEN SetArt(f, Idle)
    ELSE [SetArt(f, IF r.art THEN r.track ELSE Idle) EXCEPT
            !.playing = IF r.playing = held.playing /\ held.track # Idle THEN @ ELSE r.playing]

(* onState: nothing playing leaves currentlyPlaying as it was.             *)
OnState(f, r) ==
    IF r.track = Idle THEN SetArt(f, Idle)
    ELSE [SetArt(f, IF r.art THEN r.track ELSE Idle) EXCEPT !.playing = r.playing]

Receive ==
    /\ feed # <<>> /\ feed' = Tail(feed) /\ held' = Head(feed)
    /\ face' = IF face.mounted THEN OnState(face, Head(feed)) ELSE face
    /\ UNCHANGED <<spotify, agent, tap, taps, skipped>>

(* The image request is answered with what the file holds by then.         *)
ImageLoads ==
    /\ face.img = "loading" /\ face' = [face EXCEPT !.img = cover]
    /\ UNCHANGED <<spotify, agent, feed, held, tap, taps, skipped>>

ImageFails ==
    /\ face.img = "loading" /\ face' = [face EXCEPT !.img = Idle, !.url = Idle]
    /\ UNCHANGED <<spotify, agent, feed, held, tap, taps, skipped>>

Leave ==
    /\ face.mounted
    /\ face' = [mounted |-> FALSE, playing |-> FALSE, url |-> Idle, img |-> Idle]
    /\ UNCHANGED <<spotify, agent, feed, held, tap, taps, skipped>>

Return ==
    /\ ~face.mounted /\ face' = OnState([face EXCEPT !.mounted = TRUE], held)
    /\ UNCHANGED <<spotify, agent, feed, held, tap, taps, skipped>>

-------------------------------------------------------------------------------
(* A tap on play/pause or next; the controls are hidden while idle.        *)
Tap(t) ==
    /\ face.mounted /\ held.track # Idle
    /\ tap[t].pc = "idle" /\ taps < MaxTaps /\ taps' = taps + 1
    /\ \E action \in {"next", IF face.playing THEN "pause" ELSE "resume"} :
          tap' = [tap EXCEPT ![t] = [pc |-> "sent", action |-> action]]
    /\ UNCHANGED <<spotify, agent, feed, held, face, skipped>>

(* handleControl: Spotify acts ...                                         *)
Act(t) ==
    /\ tap[t].pc = "sent" /\ player.track # Idle
    /\ tap' = [tap EXCEPT ![t].pc = "acted"]
    /\ IF tap[t].action = "next"
       THEN /\ \E n \in Tracks \ {player.track}, lag \in 0..Lag :
                  player' = [player EXCEPT !.track = n, !.behind = lag,
                                            !.old = IF lag = 0 THEN n ELSE Seen]
            /\ skipped' = IF source.previous = player.track /\ Seen = player.track
                          THEN [track |-> player.track, at |-> "spotify"] ELSE NoSkip
       ELSE /\ player' = [player EXCEPT !.playing = (tap[t].action = "resume")]
            /\ UNCHANGED skipped
    /\ UNCHANGED <<changes, agent, feed, held, face, taps>>

(* ... and the handler raises the flag, asks for a poll and answers.       *)
Acted(t) ==
    /\ tap[t].pc = "acted"
    /\ tap' = [tap EXCEPT ![t].pc = "ok"]
    /\ source' = [source EXCEPT !.expecting = @ \/ tap[t].action = "next"]
    /\ skipped' = IF tap[t].action = "next" /\ skipped.at = "spotify"
                   THEN [skipped EXCEPT !.at = "answered"] ELSE skipped
    /\ UNCHANGED <<spotify, poll, cover, feed, held, face, taps>>

(* Refused, or the answer of Spotify or of the agent is lost.              *)
Denied(t) ==
    /\ tap[t].pc \in {"sent", "acted"}
    /\ tap' = [tap EXCEPT ![t] = NoTap]
    /\ skipped' = NoSkip
    /\ UNCHANGED <<spotify, agent, feed, held, face, taps>>

(* The click handler, after its await.                                     *)
Answered(t) ==
    /\ tap[t].pc = "ok"
    /\ tap' = [tap EXCEPT ![t] = NoTap]
    /\ face' = IF tap[t].action = "next" THEN face ELSE [face EXCEPT !.playing = ~@]
    /\ UNCHANGED <<spotify, agent, feed, held, taps, skipped>>

PollStep ==
    \/ BeginPoll \/ Fetch \/ PollFails \/ TakeFlag \/ AwaitRetry \/ AwaitGivesUp \/ AwaitEnds
    \/ Settle \/ CoverFails \/ Publish

Next ==
    \/ PhoneChanges \/ PollStep
    \/ Receive \/ ImageLoads \/ ImageFails \/ Leave \/ Return
    \/ \E t \in Taps : Tap(t) \/ Act(t) \/ Acted(t) \/ Denied(t) \/ Answered(t)

(* The poller goes on; not every fetch, download or image load fails.      *)
Fairness ==
    /\ WF_vars(BeginPoll) /\ SF_vars(Fetch) /\ WF_vars(TakeFlag)
    /\ WF_vars(AwaitRetry \/ AwaitGivesUp) /\ WF_vars(AwaitEnds)
    /\ SF_vars(Settle) /\ WF_vars(Publish) /\ WF_vars(Receive) /\ SF_vars(ImageLoads)
    /\ \A t \in Taps : WF_vars(Answered(t)) /\ WF_vars(Acted(t))

Spec == Init /\ [][Next]_vars /\ Fairness

-------------------------------------------------------------------------------
(* What the source believes cached is in the file, whichever of download,  *)
(* write and poll failed: a reading never points the panel at a cover the  *)
(* file does not hold when it is published.                                *)
CachedIsInFile ==
    /\ source.hasArt => cover = source.last
    /\ poll.pc = "publish" /\ poll.art => cover = poll.track

(* After a skip away from a track the agent knew, the first poll begun     *)
(* once the skip is done shows another, provided Spotify needs no more     *)
(* fetches than are retried: a poll in flight at the skip, or one that     *)
(* fails, does not use up the flag.                                        *)
SkipShows ==
    poll.pc = "publish" /\ skipped.at = "polled" => poll.track # skipped.track

(* When nothing changes at Spotify any more, a mounted face ends up with   *)
(* the right track, the right icon and the right cover, and keeps them.    *)
FaceSettles ==
    (<>[](face.mounted)) =>
        <>[](/\ held.track = player.track
             /\ player.track # Idle => /\ face.playing = player.playing
                                       /\ face.img = player.track)

(* faces/spotify.js, the click handler: "Apply the known outcome now."     *)
KnownOutcomeApplied ==
    [][\A t \in Taps :
          (face.mounted /\ tap[t].pc = "ok" /\ tap'[t].pc = "idle" /\ tap[t].action # "next")
          => face'.playing = (tap[t].action = "resume")]_vars
===============================================================================
