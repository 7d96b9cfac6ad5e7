------------------------------- MODULE MCRunner -------------------------------
(* Runner on one source beside one that is switched off.                    *)
EXTENDS Runner

CONSTANTS fast, off

NoConns == {}
One == {fast}
OneAndOff == {fast, off}
IntervalOne == [s \in {fast} |-> 2]
===============================================================================
