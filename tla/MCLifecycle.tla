----------------------------- MODULE MCLifecycle -----------------------------
(* Small instances of Lifecycle.                                            *)
EXTENDS Lifecycle

CONSTANTS a1, a2, r1, r2, k1, s1, s2

None == {}
OneAddr == {a1}
TwoAddrs == {a1, a2}
OneRequest == {r1}
TwoRequests == {r1, r2}
OneSocket == {k1}
OneSaver == {s1}
TwoSavers == {s1, s2}
TwoLooks == {"plain", "dim"}
OneLook == {"plain"}
===============================================================================
