----------------------------- MODULE MCPanelFaces -----------------------------
(* Small instances of PanelFaces: four faces, a daily event and another.    *)
EXTENDS PanelFaces

FourFaces == <<"clock", "calendar", "spotify", "status">>
SomeSettings == {[hidden |-> {}, style |-> "digital"],
                 [hidden |-> {"spotify"}, style |-> "digital"],
                 [hidden |-> {"calendar"}, style |-> "analogue"],
                 [hidden |-> {"status"}, style |-> "digital"]}
Unanswered == [hidden |-> {}, style |-> "none"]
TwoEvents == {<<"standup", 1>>, <<"review", 1>>}
OneEvent == {<<"standup", 1>>}
DailyEvents == {<<"standup", 1>>, <<"standup", 2>>}
KeyOfEvent(e) == e[1]
Nothing == <<"", 0>>
===============================================================================
