---------------------------- MODULE MCSpotifyAuth ----------------------------
(* Small instances of SpotifyAuth: who works on the connection at once.     *)
EXTENDS SpotifyAuth

CONSTANTS poll, control, t1, t2

Poll == {poll}
PollAndControl == {poll, control}
NoTabs == {}
OneTab == {t1}
TwoTabs == {t1, t2}
===============================================================================
