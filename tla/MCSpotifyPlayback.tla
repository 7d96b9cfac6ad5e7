-------------------------- MODULE MCSpotifyPlayback --------------------------
(* Small instances of SpotifyPlayback.                                      *)
EXTENDS SpotifyPlayback

CONSTANTS a, b, t1

TwoTracks == {a, b}
OneTap == {t1}
===============================================================================
