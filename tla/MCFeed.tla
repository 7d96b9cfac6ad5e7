-------------------------------- MODULE MCFeed --------------------------------
(* Small instances of Feed.  Two slots for one panel let an old handler     *)
(* linger on a dead path beside the new connection; a buffer of one or two  *)
(* and a stream of one make drops and stalled writes happen at once.        *)
EXTENDS Feed

CONSTANTS clock, calendar, off, c1, c2, p1

OneSource == {clock}
TwoSources == {clock, calendar}
WithDisabled == {clock, off}
OneConn == {c1}
OnePanel == {p1}
TwoConns == {c1, c2}
===============================================================================
