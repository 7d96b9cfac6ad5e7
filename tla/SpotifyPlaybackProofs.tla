------------------------ MODULE SpotifyPlaybackProofs ------------------------
(***************************************************************************)
(* Proofs about SpotifyPlayback, for every set of tracks, every number of  *)
(* concurrent taps and every bound: typing, the cover file, and that a     *)
(* skip shows in the first poll begun after it.                            *)
(***************************************************************************)
EXTENDS SpotifyPlayback, SequenceTheorems, TLAPS

(* TypeOK says what it says of the feed as a union of function sets, which *)
(* TLC enumerates; the provers know sequences.                             *)
LEMMA FeedIsShortSeq ==
    feed \in UNION {[1..n -> Readings] : n \in 0..MaxFeed}
        <=> feed \in Seq(Readings) /\ Len(feed) <= MaxFeed
<1>1. ASSUME NEW n \in 0..MaxFeed, feed \in [1..n -> Readings]
      PROVE  feed \in Seq(Readings) /\ Len(feed) <= MaxFeed
  BY <1>1, BoundsAssumption
<1>2. ASSUME feed \in Seq(Readings), Len(feed) <= MaxFeed
      PROVE  Len(feed) \in 0..MaxFeed /\ feed \in [1..Len(feed) -> Readings]
  BY <1>2, BoundsAssumption, LenProperties
<1> QED
  BY <1>1, <1>2

(* The same of the next state's feed.                                      *)
LEMMA NextFeedIsShortSeq ==
    feed' \in UNION {[1..n -> Readings] : n \in 0..MaxFeed}
        <=> feed' \in Seq(Readings) /\ Len(feed') <= MaxFeed
<1>1. ASSUME NEW n \in 0..MaxFeed, feed' \in [1..n -> Readings]
      PROVE  feed' \in Seq(Readings) /\ Len(feed') <= MaxFeed
  BY <1>1, BoundsAssumption
<1>2. ASSUME feed' \in Seq(Readings), Len(feed') <= MaxFeed
      PROVE  Len(feed') \in 0..MaxFeed /\ feed' \in [1..Len(feed') -> Readings]
  BY <1>2, BoundsAssumption, LenProperties
<1> QED
  BY <1>1, <1>2

Players == [track : Playing, playing : BOOLEAN, old : Playing, behind : 0..Lag]
Polls == [pc : {"idle", "fetch", "fetched", "await", "art", "publish"}, track : Playing,
          playing : BOOLEAN, art : BOOLEAN, tries : 0..Retries]
Faces == [mounted : BOOLEAN, playing : BOOLEAN, url : Playing, img : Playing \cup {"loading"}]
Skips == [track : Playing, at : {"no", "spotify", "answered", "polled"}]

(* A fetch leaves the player with the lag one shorter, and shows a track   *)
(* or nothing.                                                             *)
LEMMA FetchTypes ==
    ASSUME player \in Players
    PROVE  Seen \in Playing /\ AfterFetch \in Players
<1>1. Seen \in Playing
  BY DEF Seen, Players
<1>2. CASE player.behind > 1
  <2>1. player.behind - 1 \in 0..Lag
    BY <1>2, BoundsAssumption DEF Players
  <2> QED
    BY <1>1, <1>2, <2>1 DEF AfterFetch, Players
<1>3. CASE ~(player.behind > 1)
  <2>1. 0 \in 0..Lag /\ player.track \in Playing
    BY BoundsAssumption DEF Players
  <2>2. [player EXCEPT !.behind = 0, !.old = player.track] \in Players
    BY <2>1 DEF Players
  <2> QED
    BY <1>1, <1>3, <2>2 DEF AfterFetch
<1> QED
  BY <1>2, <1>3, <1>1

LEMMA FaceTypes ==
    ASSUME NEW f \in Faces, NEW r \in Readings
    PROVE  OnState(f, r) \in Faces
<1>1. ASSUME NEW u \in Playing PROVE SetArt(f, u) \in Faces
  BY <1>1 DEF SetArt, Faces
<1>2. Idle \in Playing /\ r.track \in Playing /\ r.playing \in BOOLEAN
  BY DEF Readings, Playing
<1>3. SetArt(f, Idle) \in Faces /\ SetArt(f, IF r.art THEN r.track ELSE Idle) \in Faces
  BY <1>1, <1>2
<1> DEFINE g == SetArt(f, IF r.art THEN r.track ELSE Idle)
<1>4. [g EXCEPT !.playing = r.playing] \in Faces
  BY <1>2, <1>3 DEF Faces
<1> QED
  BY <1>3, <1>4 DEF OnState

-------------------------------------------------------------------------------
LEMMA PlaybackTypeInit == Init => TypeOK
<1> SUFFICES ASSUME Init PROVE TypeOK
  OBVIOUS
<1>1. player \in Players
  BY BoundsAssumption DEF Init, Players, Playing
<1>2. poll \in Polls /\ Nothing \in Readings
  BY BoundsAssumption DEF Init, NoPoll, Polls, Playing, Nothing, Readings
<1>3. feed \in Seq(Readings) /\ Len(feed) = 0
  BY EmptySeq DEF Init
<1>4. tap \in [Taps -> [pc : {"idle", "sent", "acted", "ok"}, action : Actions]]
  BY DEF Init, NoTap, Actions
<1>5. changes \in 0..MaxChanges /\ taps \in 0..MaxTaps
  BY BoundsAssumption DEF Init
<1>6. feed \in UNION {[1..n -> Readings] : n \in 0..MaxFeed}
  BY <1>3, FeedIsShortSeq, BoundsAssumption
<1>7. /\ source \in [previous : Playing, last : Playing, hasArt : BOOLEAN, expecting : BOOLEAN]
      /\ cover \in Playing /\ held \in Readings /\ face \in Faces /\ skipped \in Skips
  BY <1>2 DEF Init, Playing, NoSkip, Faces, Skips
<1> QED
  BY <1>1, <1>2, <1>4, <1>5, <1>6, <1>7 DEF TypeOK, Players, Polls, Faces, Skips

(* Spotify's half of the state and the poller's, one action after another. *)
LEMMA PollTypes == ASSUME TypeOK, PollStep PROVE TypeOK'
<1>0. /\ player \in Players /\ poll \in Polls /\ skipped \in Skips
      /\ source \in [previous : Playing, last : Playing, hasArt : BOOLEAN, expecting : BOOLEAN]
      /\ Idle \in Playing
  BY DEF TypeOK, Players, Polls, Skips, Playing
<1>1. CASE BeginPoll
  <2>0. NoPoll \in Polls
    BY <1>0, BoundsAssumption DEF NoPoll, Polls
  <2>1. poll' \in Polls
    BY <1>1, <2>0 DEF BeginPoll, Polls
  <2>2. skipped' \in Skips
    BY <1>0, <1>1 DEF BeginPoll, Skips
  <2> QED
    BY <1>1, <2>1, <2>2 DEF BeginPoll, spotify, TypeOK, Polls, Skips
<1>2. CASE Fetch
  <2>1. Seen \in Playing /\ player' \in Players /\ player.playing \in BOOLEAN
    BY <1>0, <1>2, FetchTypes DEF Fetch, Players
  <2>2. poll' \in Polls
    BY <1>0, <1>2, <2>1 DEF Fetch, Polls
  <2> QED
    BY <1>2, <2>1, <2>2 DEF Fetch, TypeOK, Polls, Players
<1>3. CASE PollFails
  <2>1. poll' \in Polls
    BY <1>0, <1>3, BoundsAssumption DEF PollFails, NoPoll, Polls
  <2> QED
    BY <1>3, <2>1 DEF PollFails, spotify, TypeOK, Polls
<1>4. CASE TakeFlag
  <2>1. Retries \in 0..Retries
    BY BoundsAssumption
  <2>2. /\ [poll EXCEPT !.pc = "await", !.tries = Retries] \in Polls
        /\ [poll EXCEPT !.pc = "art"] \in Polls
    BY <1>0, <2>1 DEF Polls
  <2>3. poll' \in Polls
    BY <1>4, <2>2 DEF TakeFlag
  <2> QED
    BY <1>4, <2>3 DEF TakeFlag, spotify, TypeOK, Polls
<1>5. CASE AwaitRetry
  <2>1. poll.tries - 1 \in 0..Retries
    BY <1>0, <1>5, BoundsAssumption DEF AwaitRetry, Polls
  <2>2. Seen \in Playing /\ player' \in Players /\ player.playing \in BOOLEAN
    BY <1>0, <1>5, FetchTypes DEF AwaitRetry, Players
  <2>3. poll' \in Polls
    BY <1>0, <1>5, <2>1, <2>2 DEF AwaitRetry, Polls
  <2> QED
    BY <1>5, <2>2, <2>3 DEF AwaitRetry, TypeOK, Polls, Players
<1>6. CASE AwaitGivesUp
  <2>1. poll' \in Polls /\ skipped' \in Skips
    BY <1>0, <1>6 DEF AwaitGivesUp, Polls, Skips, NoSkip
  <2> QED
    BY <1>6, <2>1 DEF AwaitGivesUp, spotify, TypeOK, Polls, Skips
<1>7. CASE AwaitEnds
  <2>1. poll' \in Polls
    BY <1>0, <1>7 DEF AwaitEnds, Polls
  <2> QED
    BY <1>7, <2>1 DEF AwaitEnds, spotify, TypeOK, Polls
<1>8. CASE Settle \/ CoverFails
  <2>1. poll' \in Polls /\ cover' \in Playing /\ skipped' \in Skips
        /\ source' \in [previous : Playing, last : Playing, hasArt : BOOLEAN, expecting : BOOLEAN]
    <3>1. skipped' \in Skips
      BY <1>0, <1>8 DEF Settle, CoverFails, Outdated, Skips, NoSkip
    <3>2. CASE Settle
      <4>1. poll' \in Polls
        BY <1>0, <3>2 DEF Settle, Polls
      <4>2. poll.track \in Playing /\ cover \in Playing
        BY <1>0 DEF Polls, TypeOK
      <4>3. /\ cover' \in Playing
            /\ source' \in [previous : Playing, last : Playing, hasArt : BOOLEAN, expecting : BOOLEAN]
        BY <1>0, <3>2, <4>2 DEF Settle
      <4> QED
        BY <3>1, <4>1, <4>3
    <3>3. CASE CoverFails
      BY <1>0, <3>1, <3>3 DEF CoverFails, Polls, TypeOK
    <3> QED
      BY <1>8, <3>1, <3>2, <3>3
  <2>2. UNCHANGED <<player, changes, feed, held, face, tap, taps>>
    BY <1>8 DEF Settle, CoverFails, spotify
  <2> QED
    BY <2>1, <2>2 DEF TypeOK, Polls, Skips
<1>9. CASE Publish
  <2> DEFINE r == [track |-> poll.track, playing |-> poll.playing, art |-> poll.art]
  <2>1. r \in Readings
    BY <1>0 DEF Readings, Polls
  <2>2. feed \in Seq(Readings) /\ Len(feed) \in Nat /\ Len(feed) < MaxFeed /\ feed' = Append(feed, r)
    BY <1>9, FeedIsShortSeq, LenProperties DEF TypeOK, Publish
  <2> HIDE DEF r
  <2>3. feed' \in Seq(Readings) /\ Len(feed') = Len(feed) + 1
    BY <2>1, <2>2, AppendProperties
  <2>4. feed' \in UNION {[1..n -> Readings] : n \in 0..MaxFeed}
    BY <2>2, <2>3, NextFeedIsShortSeq, BoundsAssumption
  <2>5. poll' \in Polls /\ skipped' \in Skips
    BY <1>0, <1>9, BoundsAssumption DEF Publish, NoPoll, NoSkip, Polls, Skips
  <2> QED
    BY <1>9, <2>4, <2>5 DEF Publish, spotify, TypeOK, Polls, Skips
<1> QED
  BY <1>1, <1>2, <1>3, <1>4, <1>5, <1>6, <1>7, <1>8, <1>9 DEF PollStep

(* The face's handlers and the taps.                                       *)
LEMMA PanelTypes ==
    ASSUME TypeOK, PhoneChanges \/ Receive \/ ImageLoads \/ ImageFails \/ Leave \/ Return
    PROVE  TypeOK'
<1>0. /\ face \in Faces /\ held \in Readings /\ cover \in Playing /\ Idle \in Playing
      /\ feed \in Seq(Readings) /\ Len(feed) \in Nat /\ Len(feed) <= MaxFeed
  BY FeedIsShortSeq, LenProperties DEF TypeOK, Faces, Playing
<1>1. CASE PhoneChanges
  <2>1. player' \in Players /\ skipped' \in Skips /\ changes' \in 0..MaxChanges
    BY <1>0, <1>1, BoundsAssumption DEF PhoneChanges, Players, Skips, NoSkip, TypeOK
  <2> QED
    BY <1>1, <2>1 DEF PhoneChanges, agent, TypeOK, Players, Skips
<1>2. CASE Receive
  <2>1. Head(feed) \in Readings /\ Tail(feed) \in Seq(Readings) /\ Len(Tail(feed)) = Len(feed) - 1
    BY <1>0, <1>2, HeadTailProperties DEF Receive
  <2>2. feed' \in UNION {[1..n -> Readings] : n \in 0..MaxFeed}
    <3>1. feed' = Tail(feed)
      BY <1>2 DEF Receive
    <3>2. feed' \in Seq(Readings) /\ Len(feed') <= MaxFeed
      BY <1>0, <2>1, <3>1, BoundsAssumption
    <3> QED
      BY <3>2, NextFeedIsShortSeq
  <2>3. face' \in Faces
    BY <1>0, <1>2, <2>1, FaceTypes DEF Receive
  <2> QED
    BY <1>2, <2>1, <2>2, <2>3 DEF Receive, spotify, agent, TypeOK, Faces
<1>3. CASE ImageLoads \/ ImageFails
  <2>1. face' \in Faces
    BY <1>0, <1>3 DEF ImageLoads, ImageFails, Faces
  <2> QED
    BY <1>3, <2>1 DEF ImageLoads, ImageFails, spotify, agent, TypeOK, Faces
<1>4. CASE Leave
  BY <1>0, <1>4 DEF Leave, spotify, agent, TypeOK
<1>5. CASE Return
  <2>1. [face EXCEPT !.mounted = TRUE] \in Faces
    BY <1>0 DEF Faces
  <2>2. face' \in Faces
    BY <1>0, <1>5, <2>1, FaceTypes DEF Return
  <2> QED
    BY <1>5, <2>2 DEF Return, spotify, agent, TypeOK, Faces
<1> QED
  BY <1>1, <1>2, <1>3, <1>4, <1>5

LEMMA TapTypes ==
    ASSUME TypeOK, NEW t \in Taps, Tap(t) \/ Act(t) \/ Acted(t) \/ Denied(t) \/ Answered(t)
    PROVE  TypeOK'
<1> DEFINE Requests == [pc : {"idle", "sent", "acted", "ok"}, action : Actions]
<1>0. tap \in [Taps -> Requests] /\ tap[t] \in Requests /\ NoTap \in Requests
  BY DEF TypeOK, NoTap, Actions
<1>1. CASE Tap(t)
  <2>1. taps' \in 0..MaxTaps
    BY <1>1, BoundsAssumption DEF Tap, TypeOK
  <2>2. tap' \in [Taps -> Requests]
    BY <1>0, <1>1 DEF Tap, Actions
  <2> QED
    BY <1>1, <2>1, <2>2 DEF Tap, spotify, agent, TypeOK
<1>2. CASE Act(t)
  <2>1. player' \in Players
    <3>1. player \in Players /\ Seen \in Playing
      BY FetchTypes DEF TypeOK, Players
    <3>2. CASE tap[t].action = "next"
      <4>1. PICK n \in Tracks, lag \in 0..Lag :
               player' = [player EXCEPT !.track = n, !.behind = lag,
                                        !.old = IF lag = 0 THEN n ELSE Seen]
        BY <1>2, <3>2 DEF Act
      <4>2. n \in Playing /\ (IF lag = 0 THEN n ELSE Seen) \in Playing
        BY <3>1 DEF Playing
      <4> QED
        BY <3>1, <4>1, <4>2 DEF Players
    <3>3. CASE tap[t].action # "next"
      BY <1>2, <3>1, <3>3 DEF Act, Players
    <3> QED
      BY <3>2, <3>3
  <2>2. skipped' \in Skips
    <3>1. player.track \in Playing /\ NoSkip \in Skips /\ skipped \in Skips
      BY DEF TypeOK, NoSkip, Skips, Playing
    <3>2. [track |-> player.track, at |-> "spotify"] \in Skips
      BY <3>1 DEF Skips
    <3> QED
      BY <1>2, <3>1, <3>2 DEF Act
  <2>3. tap' \in [Taps -> Requests]
    BY <1>0, <1>2 DEF Act
  <2> QED
    BY <1>2, <2>1, <2>2, <2>3 DEF Act, agent, TypeOK, Players, Skips
<1>3. CASE Acted(t)
  <2>1. /\ source' \in [previous : Playing, last : Playing, hasArt : BOOLEAN, expecting : BOOLEAN]
        /\ skipped' \in Skips
    BY <1>3 DEF Acted, TypeOK, Skips
  <2>2. tap' \in [Taps -> Requests]
    BY <1>0, <1>3 DEF Acted
  <2> QED
    BY <1>3, <2>1, <2>2 DEF Acted, spotify, TypeOK, Skips
<1>4. CASE Denied(t)
  BY <1>0, <1>4 DEF Denied, NoSkip, Playing, spotify, agent, TypeOK
<1>5. CASE Answered(t)
  <2>1. face' \in Faces
    BY <1>5 DEF Answered, TypeOK, Faces
  <2>2. tap' \in [Taps -> Requests]
    BY <1>0, <1>5 DEF Answered
  <2> QED
    BY <1>5, <2>1, <2>2 DEF Answered, spotify, agent, TypeOK, Faces
<1> QED
  BY <1>1, <1>2, <1>3, <1>4, <1>5

LEMMA PlaybackTypeStep == TypeOK /\ [Next]_vars => TypeOK'
<1>1. CASE UNCHANGED vars
  BY <1>1 DEF vars, spotify, agent, TypeOK
<1> QED
  BY <1>1, PollTypes, PanelTypes, TapTypes DEF Next

(* Every variable keeps its type: among other things no retry is counted   *)
(* below zero and no reading in the feed is malformed.                     *)
THEOREM PlaybackTypeCorrect == Spec => []TypeOK
<1>1. QED
  BY PlaybackTypeInit, PlaybackTypeStep, PTL DEF Spec

-------------------------------------------------------------------------------
(* The cover file changes in the step that also records whose cover it is, *)
(* and a reading claims a cover only when that step or a cached one is its *)
(* own.                                                                    *)
LEMMA CachedStep == TypeOK /\ CachedIsInFile /\ [Next]_vars => CachedIsInFile'
<1> SUFFICES ASSUME TypeOK, CachedIsInFile, [Next]_vars PROVE CachedIsInFile'
  OBVIOUS
<1>0. /\ poll \in Polls
      /\ source \in [previous : Playing, last : Playing, hasArt : BOOLEAN, expecting : BOOLEAN]
  BY DEF TypeOK, Polls
<1>1. CASE Settle
  <2>1. CASE poll.track = Idle \/ Cached
    <3>1. UNCHANGED cover /\ source' = [source EXCEPT !.previous = poll.track]
          /\ poll' = [poll EXCEPT !.pc = "publish", !.art = poll.track # Idle]
      BY <1>1, <2>1 DEF Settle
    <3>2. poll'.art = (poll.track # Idle) /\ poll'.track = poll.track
      BY <1>0, <3>1 DEF Polls
    <3>3. source'.hasArt = source.hasArt /\ source'.last = source.last
      BY <1>0, <3>1
    <3> QED
      BY <2>1, <3>1, <3>2, <3>3 DEF CachedIsInFile, Cached
  <2>2. CASE ~(poll.track = Idle \/ Cached)
    <3>1. /\ poll' = [poll EXCEPT !.pc = "publish", !.art = TRUE]
          /\ cover' = poll.track
          /\ source' = [source EXCEPT !.previous = poll.track, !.last = poll.track, !.hasArt = TRUE]
      BY <1>1, <2>2 DEF Settle
    <3>2. poll'.track = poll.track /\ source'.last = poll.track
      BY <1>0, <3>1 DEF Polls
    <3> QED
      BY <3>1, <3>2 DEF CachedIsInFile
  <2> QED
    BY <2>1, <2>2
<1>2. CASE CoverFails
  <2>1. poll'.art = FALSE /\ source'.hasArt = FALSE
    BY <1>0, <1>2 DEF CoverFails, Polls
  <2> QED
    BY <2>1 DEF CachedIsInFile
<1>3. CASE BeginPoll \/ Fetch \/ PollFails \/ TakeFlag \/ AwaitRetry \/ AwaitGivesUp \/ AwaitEnds
           \/ Publish
  <2>1. poll'.pc # "publish"
    <3>1. CASE BeginPoll \/ PollFails \/ Publish
      BY <3>1 DEF BeginPoll, PollFails, Publish, NoPoll
    <3>2. CASE Fetch \/ AwaitRetry
      BY <1>0, <3>2 DEF Fetch, AwaitRetry, Polls
    <3>3. CASE TakeFlag \/ AwaitGivesUp \/ AwaitEnds
      BY <1>0, <3>3 DEF TakeFlag, AwaitGivesUp, AwaitEnds, Polls
    <3> QED
      BY <1>3, <3>1, <3>2, <3>3
  <2>2. cover' = cover /\ source'.hasArt = source.hasArt /\ source'.last = source.last
    <3>1. cover' = cover /\ (source' = source \/ source' = [source EXCEPT !.expecting = FALSE])
      BY <1>3 DEF BeginPoll, Fetch, PollFails, TakeFlag, AwaitRetry, AwaitGivesUp, AwaitEnds, Publish
    <3> QED
      BY <1>0, <3>1
  <2> QED
    BY <2>1, <2>2 DEF CachedIsInFile
<1>4. ASSUME NEW t \in Taps, Acted(t) PROVE CachedIsInFile'
  <2>1. source'.hasArt = source.hasArt /\ source'.last = source.last
    BY <1>0, <1>4 DEF Acted
  <2> QED
    BY <1>4, <2>1 DEF Acted, CachedIsInFile
<1>5. CASE UNCHANGED <<poll, source, cover>>
  BY <1>5 DEF CachedIsInFile
<1> QED
  BY <1>1, <1>2, <1>3, <1>4, <1>5
  DEF Next, PollStep, vars, agent, PhoneChanges, Receive, ImageLoads, ImageFails, Leave, Return,
      Tap, Act, Denied, Answered

(* What apiSource believes cached is in the art file, and no reading is    *)
(* published that points the panel at a cover the file does not hold,      *)
(* whichever download, write or poll fails.                                *)
THEOREM PlaybackCachedIsInFile == Spec => []CachedIsInFile
<1>1. Init => CachedIsInFile
  BY DEF Init, CachedIsInFile, NoPoll
<1> QED
  BY <1>1, CachedStep, PlaybackTypeCorrect, PTL DEF Spec

-------------------------------------------------------------------------------
(* The skip that SkipShows follows, from the tap to the poll that shows    *)
(* it: Spotify has left the track, and the source still remembers it until *)
(* the poll that reports another settles.                                  *)
SkipLeaves ==
    skipped.at # "no" =>
        /\ skipped.track \in Tracks
        /\ player.track # skipped.track
        /\ player.behind > 0 => player.old = skipped.track
        /\ skipped.at # "polled" \/ poll.pc \notin {"art", "publish"}
              => source.previous = skipped.track

StillShows == poll.track = skipped.track

(* Between the answer and the next poll the flag is up, unless the poll    *)
(* that was in flight used it; then it also uses up the lag, or it has     *)
(* seen another track and is what shows the skip.                          *)
FlagKept ==
    skipped.at = "answered" =>
        \/ source.expecting \/ player.behind = 0
        \/ poll.pc = "await" /\ StillShows /\ player.behind <= poll.tries
        \/ poll.pc \in {"await", "art"} /\ ~StillShows

(* The poll begun after the answer has more retries left than Spotify has  *)
(* fetches that still show the old track.                                  *)
PollChases ==
    skipped.at = "polled" =>
        /\ poll.pc \in {"idle", "fetch"} => source.expecting \/ player.behind = 0
        /\ poll.pc = "fetched" /\ StillShows => source.expecting /\ player.behind < Retries
        /\ poll.pc = "await" /\ StillShows => player.behind < poll.tries
        /\ poll.pc \in {"art", "publish"} => ~StillShows

SkipInv == SkipLeaves /\ FlagKept /\ PollChases

(* What a fetch does while the skip is under way.                          *)
LEMMA FetchChases ==
    ASSUME TypeOK, SkipLeaves, skipped.at # "no", player' = AfterFetch
    PROVE  /\ player'.track = player.track
           /\ player'.behind \in Nat
           /\ player'.behind > 0 => player'.old = skipped.track
           /\ Seen = skipped.track => player.behind > 0 /\ player'.behind = player.behind - 1
           /\ player.behind = 0 => player'.behind = 0
<1>1. player \in Players /\ player.behind \in Nat
  BY BoundsAssumption DEF TypeOK, Players
<1>2. player.track # skipped.track /\ (player.behind > 0 => player.old = skipped.track)
  BY DEF SkipLeaves
<1>3. CASE player.behind > 1
  <2>1. player' = [player EXCEPT !.behind = @ - 1]
    BY <1>3 DEF AfterFetch
  <2>2. player'.track = player.track /\ player'.behind = player.behind - 1 /\ player'.old = player.old
    BY <1>1, <2>1 DEF Players
  <2> QED
    BY <1>1, <1>2, <1>3, <2>2
<1>4. CASE ~(player.behind > 1)
  <2>1. player' = [player EXCEPT !.behind = 0, !.old = player.track]
    BY <1>4 DEF AfterFetch
  <2>2. player'.track = player.track /\ player'.behind = 0
    BY <1>1, <2>1 DEF Players
  <2> QED
    BY <1>1, <1>2, <1>4, <2>2 DEF Seen
<1> QED
  BY <1>3, <1>4

(* What SkipInv reads of the state.                                        *)
LEMMA SkipFrame ==
    ASSUME SkipInv, UNCHANGED <<player, poll, source, skipped>>
    PROVE  SkipInv'
BY DEF SkipInv, SkipLeaves, FlagKept, PollChases, StillShows

(* With no skip to follow there is nothing to keep.                        *)
LEMMA NoSkipToFollow == ASSUME skipped'.at = "no" PROVE SkipInv'
BY DEF SkipInv, SkipLeaves, FlagKept, PollChases

LEMMA FetchKeepsSkip ==
    ASSUME TypeOK, SkipInv, Lag <= Retries, Fetch \/ AwaitRetry
    PROVE  SkipInv'
<1>1. CASE skipped.at = "no"
  BY <1>1, NoSkipToFollow DEF Fetch, AwaitRetry
<1>2. CASE skipped.at # "no"
  <2>1. /\ poll \in Polls /\ player \in Players /\ player.behind \in Nat /\ player.behind <= Lag
        /\ poll.tries \in Nat /\ Retries \in Nat /\ Lag \in Nat
    BY BoundsAssumption DEF TypeOK, Polls, Players
  <2>2. UNCHANGED <<source, skipped>> /\ player' = AfterFetch
    BY DEF Fetch, AwaitRetry
  <2>3. /\ player'.track = player.track
        /\ player'.behind \in Nat
        /\ player'.behind > 0 => player'.old = skipped.track
        /\ Seen = skipped.track => player.behind > 0 /\ player'.behind = player.behind - 1
        /\ player.behind = 0 => player'.behind = 0
    BY <1>2, <2>2, FetchChases DEF SkipInv
  <2>4. /\ skipped.track \in Tracks /\ player.track # skipped.track
        /\ poll.pc \notin {"art", "publish"} => source.previous = skipped.track
        /\ skipped.at # "polled" => source.previous = skipped.track
    BY <1>2 DEF SkipInv, SkipLeaves
  <2>5. CASE Fetch
    <3>1. poll.pc = "fetch" /\ poll'.pc = "fetched" /\ poll'.track = Seen
      BY <2>1, <2>5 DEF Fetch, Polls
    <3>2. SkipLeaves'
      BY <2>2, <2>3, <2>4, <3>1 DEF SkipLeaves
    <3>3. FlagKept'
      BY <2>2, <2>3, <3>1 DEF SkipInv, FlagKept
    <3>4. PollChases'
      <4>1. CASE skipped.at = "polled" /\ Seen = skipped.track
        <5>1. source.expecting
          BY <2>1, <2>3, <3>1, <4>1 DEF SkipInv, PollChases
        <5> QED
          BY <2>1, <2>2, <2>3, <3>1, <4>1, <5>1 DEF PollChases
      <4>2. CASE ~(skipped.at = "polled" /\ Seen = skipped.track)
        BY <2>2, <3>1, <4>2 DEF PollChases, StillShows
      <4> QED
        BY <4>1, <4>2
    <3> QED
      BY <3>2, <3>3, <3>4 DEF SkipInv
  <2>6. CASE AwaitRetry
    <3>1. /\ poll.pc = "await" /\ poll'.pc = "await" /\ poll'.track = Seen
          /\ poll'.tries = poll.tries - 1 /\ poll.tries > 0
      BY <2>1, <2>6 DEF AwaitRetry, Polls
    <3>2. poll.track = source.previous
      BY <2>6 DEF AwaitRetry, Unchanged
    <3>3. StillShows
      BY <2>4, <3>1, <3>2 DEF StillShows
    <3>4. SkipLeaves'
      BY <2>2, <2>3, <2>4, <3>1 DEF SkipLeaves
    <3>5. FlagKept'
      <4>1. skipped.at = "answered" => source.expecting \/ player.behind <= poll.tries
        BY <2>1, <3>1, <3>3 DEF SkipInv, FlagKept
      <4>2. CASE Seen = skipped.track
        BY <2>1, <2>2, <2>3, <3>1, <4>1, <4>2 DEF FlagKept, StillShows
      <4>3. CASE Seen # skipped.track
        BY <2>2, <3>1, <4>3 DEF FlagKept, StillShows
      <4> QED
        BY <4>2, <4>3
    <3>6. PollChases'
      <4>1. skipped.at = "polled" => player.behind < poll.tries
        BY <3>1, <3>3 DEF SkipInv, PollChases
      <4>2. CASE Seen = skipped.track
        BY <2>1, <2>2, <2>3, <3>1, <4>1, <4>2 DEF PollChases, StillShows
      <4>3. CASE Seen # skipped.track
        BY <2>2, <3>1, <4>3 DEF PollChases, StillShows
      <4> QED
        BY <4>2, <4>3
    <3> QED
      BY <3>4, <3>5, <3>6 DEF SkipInv
  <2> QED
    BY <2>5, <2>6
<1> QED
  BY <1>1, <1>2

LEMMA PollKeepsSkip ==
    ASSUME TypeOK, SkipInv, Lag <= Retries, PollStep
    PROVE  SkipInv'
<1>0. /\ poll \in Polls /\ player.behind \in Nat /\ player.behind <= Lag /\ poll.tries \in Nat
      /\ Retries \in Nat /\ Lag \in Nat
      /\ source \in [previous : Playing, last : Playing, hasArt : BOOLEAN, expecting : BOOLEAN]
      /\ skipped \in Skips
  BY BoundsAssumption DEF TypeOK, Polls, Skips
<1>1. CASE Fetch \/ AwaitRetry
  BY <1>1, FetchKeepsSkip
<1>2. CASE BeginPoll
  <2>1. player' = player /\ source' = source /\ poll.pc = "idle" /\ poll'.pc = "fetch"
    BY <1>2 DEF BeginPoll, NoPoll, spotify
  <2>2. CASE skipped.at = "answered"
    <3>1. skipped'.at = "polled" /\ skipped'.track = skipped.track
      BY <1>0, <1>2, <2>2 DEF BeginPoll, Skips
    <3>2. source.expecting \/ player.behind = 0
      BY <2>1, <2>2 DEF SkipInv, FlagKept
    <3> QED
      BY <2>1, <2>2, <3>1, <3>2 DEF SkipInv, SkipLeaves, FlagKept, PollChases
  <2>3. CASE skipped.at # "answered"
    BY <1>2, <2>1, <2>3 DEF BeginPoll, SkipInv, SkipLeaves, FlagKept, PollChases
  <2> QED
    BY <2>2, <2>3
<1>3. CASE PollFails
  <2>1. player' = player /\ source' = source /\ skipped' = skipped
        /\ poll.pc = "fetch" /\ poll'.pc = "idle"
    BY <1>3 DEF PollFails, NoPoll, spotify
  <2> QED
    BY <2>1 DEF SkipInv, SkipLeaves, FlagKept, PollChases
<1>4. CASE TakeFlag
  <2>1. /\ player' = player /\ skipped' = skipped /\ source'.previous = source.previous
        /\ poll.pc = "fetched" /\ poll'.track = poll.track
    BY <1>0, <1>4 DEF TakeFlag, Polls, spotify
  <2>2. SkipLeaves'
    BY <1>0, <1>4, <2>1 DEF TakeFlag, SkipInv, SkipLeaves
  <2>3. CASE source.expecting /\ poll.track # Idle
    <3>1. poll'.pc = "await" /\ poll'.tries = Retries
      BY <1>0, <1>4, <2>3 DEF TakeFlag, Polls
    <3>2. FlagKept' /\ PollChases'
      BY <1>0, <2>1, <3>1 DEF SkipInv, FlagKept, PollChases, StillShows
    <3> QED
      BY <2>2, <3>2 DEF SkipInv
  <2>4. CASE ~(source.expecting /\ poll.track # Idle)
    <3>1. poll'.pc = "art"
      BY <1>0, <1>4, <2>4 DEF TakeFlag, Polls
    <3>2. skipped.at # "no" => skipped.track # Idle
      BY TracksAssumption DEF SkipInv, SkipLeaves
    <3>3. FlagKept'
      BY <2>1, <2>4, <3>1, <3>2 DEF SkipInv, FlagKept, StillShows
    <3>4. PollChases'
      BY <2>1, <2>4, <3>1, <3>2 DEF SkipInv, PollChases, StillShows
    <3> QED
      BY <2>2, <3>3, <3>4 DEF SkipInv
  <2> QED
    BY <2>3, <2>4
<1>5. CASE AwaitGivesUp
  BY <1>5, NoSkipToFollow DEF AwaitGivesUp, NoSkip
<1>6. CASE AwaitEnds
  <2>1. /\ player' = player /\ skipped' = skipped /\ source' = source
        /\ poll.pc = "await" /\ poll'.track = poll.track /\ poll'.pc = "art"
        /\ ~(Unchanged /\ poll.tries > 0)
    BY <1>0, <1>6 DEF AwaitEnds, Polls, spotify
  <2>2. skipped.at # "no" /\ StillShows => poll.tries = 0
    <3>1. skipped.at # "no" => skipped.track # Idle /\ source.previous = skipped.track
      BY <2>1, TracksAssumption DEF SkipInv, SkipLeaves
    <3> QED
      BY <1>0, <2>1, <3>1 DEF StillShows, Unchanged
  <2>3. SkipLeaves'
    BY <2>1 DEF SkipInv, SkipLeaves
  <2>4. FlagKept'
    BY <1>0, <2>1, <2>2 DEF SkipInv, FlagKept, StillShows
  <2>5. PollChases'
    BY <1>0, <2>1, <2>2 DEF SkipInv, PollChases, StillShows
  <2> QED
    BY <2>3, <2>4, <2>5 DEF SkipInv
<1>7. CASE Settle \/ CoverFails
  <2>1. /\ player' = player /\ poll.pc = "art" /\ Outdated
        /\ poll'.pc = "publish" /\ poll'.track = poll.track
        /\ source'.previous = poll.track /\ source'.expecting = source.expecting
    BY <1>0, <1>7 DEF Settle, CoverFails, Polls, spotify
  <2>2. CASE skipped.at # "polled" /\ poll.track # skipped.track
    BY <2>1, <2>2, NoSkipToFollow DEF Outdated, NoSkip
  <2>3. CASE ~(skipped.at # "polled" /\ poll.track # skipped.track)
    <3>1. skipped' = skipped
      BY <2>1, <2>3 DEF Outdated
    <3> QED
      BY <2>1, <2>3, <3>1 DEF SkipInv, SkipLeaves, FlagKept, PollChases, StillShows
  <2> QED
    BY <2>2, <2>3
<1>8. CASE Publish
  <2>1. player' = player /\ source' = source /\ poll.pc = "publish" /\ poll'.pc = "idle"
    BY <1>8 DEF Publish, NoPoll, spotify
  <2>2. CASE skipped.at = "polled"
    BY <1>8, <2>2, NoSkipToFollow DEF Publish, NoSkip
  <2>3. CASE skipped.at # "polled"
    BY <1>8, <2>1, <2>3 DEF Publish, SkipInv, SkipLeaves, FlagKept, PollChases
  <2> QED
    BY <2>2, <2>3
<1> QED
  BY <1>1, <1>2, <1>3, <1>4, <1>5, <1>6, <1>7, <1>8 DEF PollStep

(* Taps: a skip starts the history, the handler's answer moves it on, and  *)
(* pausing or resuming leaves it alone.                                    *)
LEMMA TapKeepsSkip ==
    ASSUME TypeOK, SkipInv, NEW t \in Taps, Act(t) \/ Acted(t)
    PROVE  SkipInv'
<1>0. /\ player \in Players /\ skipped \in Skips
      /\ source \in [previous : Playing, last : Playing, hasArt : BOOLEAN, expecting : BOOLEAN]
  BY DEF TypeOK, Players, Skips
<1>1. CASE Act(t) /\ tap[t].action = "next"
  <2>1. PICK n \in Tracks \ {player.track}, lag \in 0..Lag :
           player' = [player EXCEPT !.track = n, !.behind = lag, !.old = IF lag = 0 THEN n ELSE Seen]
    BY <1>1 DEF Act
  <2>2. /\ player'.track = n /\ player'.behind = lag /\ player'.old = IF lag = 0 THEN n ELSE Seen
        /\ lag \in Nat
    BY <1>0, <2>1, BoundsAssumption DEF Players
  <2>3. player.track # Idle /\ player.track \in Tracks /\ UNCHANGED <<poll, source>>
    BY <1>0, <1>1 DEF Act, Players, Playing, agent
  <2>4. CASE source.previous = player.track /\ Seen = player.track
    <3>0. skipped' = [track |-> player.track, at |-> "spotify"]
      BY <1>1, <2>4, Zenon DEF Act
    <3>1. skipped'.track = player.track /\ skipped'.at = "spotify"
      BY <3>0
    <3> QED
      BY <2>2, <2>3, <2>4, <3>1 DEF SkipInv, SkipLeaves, FlagKept, PollChases
  <2>5. CASE ~(source.previous = player.track /\ Seen = player.track)
    <3>1. skipped' = NoSkip
      BY <1>1, <2>5, Zenon DEF Act
    <3> QED
      BY <3>1, NoSkipToFollow DEF NoSkip
  <2> QED
    BY <2>4, <2>5
<1>2. CASE Act(t) /\ tap[t].action # "next"
  <2>1. /\ player'.track = player.track /\ player'.behind = player.behind
        /\ player'.old = player.old /\ UNCHANGED <<poll, source, skipped>>
    BY <1>0, <1>2 DEF Act, Players, agent
  <2> QED
    BY <2>1 DEF SkipInv, SkipLeaves, FlagKept, PollChases, StillShows
<1>3. CASE Acted(t)
  <2>1. /\ UNCHANGED <<player, poll>> /\ source'.previous = source.previous
        /\ source.expecting => source'.expecting
    BY <1>0, <1>3 DEF Acted, spotify
  <2>2. CASE tap[t].action = "next" /\ skipped.at = "spotify"
    <3>1. skipped'.track = skipped.track /\ skipped'.at = "answered" /\ source'.expecting
      BY <1>0, <1>3, <2>2 DEF Acted, Skips
    <3> QED
      BY <2>1, <2>2, <3>1 DEF SkipInv, SkipLeaves, FlagKept, PollChases
  <2>3. CASE ~(tap[t].action = "next" /\ skipped.at = "spotify")
    <3>1. skipped' = skipped
      BY <1>3, <2>3 DEF Acted
    <3> QED
      BY <2>1, <3>1 DEF SkipInv, SkipLeaves, FlagKept, PollChases, StillShows
  <2> QED
    BY <2>2, <2>3
<1> QED
  BY <1>1, <1>2, <1>3

LEMMA SkipStep == ASSUME Lag <= Retries PROVE TypeOK /\ SkipInv /\ [Next]_vars => SkipInv'
<1> SUFFICES ASSUME TypeOK, SkipInv, [Next]_vars PROVE SkipInv'
  OBVIOUS
<1>1. CASE PhoneChanges
  BY <1>1, NoSkipToFollow DEF PhoneChanges, NoSkip
<1>2. CASE PollStep
  BY <1>2, PollKeepsSkip
<1>3. CASE Receive \/ ImageLoads \/ ImageFails \/ Leave \/ Return
  BY <1>3, SkipFrame DEF Receive, ImageLoads, ImageFails, Leave, Return, spotify, agent
<1>4. ASSUME NEW t \in Taps, Tap(t) \/ Answered(t) PROVE SkipInv'
  BY <1>4, SkipFrame DEF Tap, Answered, spotify, agent
<1>5. ASSUME NEW t \in Taps, Denied(t) PROVE SkipInv'
  BY <1>5, NoSkipToFollow DEF Denied, NoSkip
<1>6. CASE UNCHANGED vars
  BY <1>6, SkipFrame DEF vars, spotify, agent
<1> QED
  BY <1>1, <1>2, <1>3, <1>4, <1>5, <1>6, TapKeepsSkip DEF Next

(* A skip away from a known track shows in the first poll begun after it   *)
(* was answered, for any number of buttons tapped together, as long as     *)
(* Spotify lags by no more fetches than consistencyRetries: with more,     *)
(* the invariant is false.                                                 *)
THEOREM PlaybackSkipShows == ASSUME Lag <= Retries PROVE Spec => []SkipShows
<1>1. Init => SkipInv
  BY NoSkipToFollow DEF Init, NoSkip, SkipInv, SkipLeaves, FlagKept, PollChases
<1>2. SkipInv => SkipShows
  BY DEF SkipInv, PollChases, StillShows, SkipShows
<1> QED
  BY <1>1, <1>2, SkipStep, PlaybackTypeCorrect, PTL DEF Spec
===============================================================================
