------------------------------- MODULE MCStartup -------------------------------
(* Small instances of Startup.                                              *)
EXTENDS Startup

CONSTANTS first, second, third

TwoCopies == {first, second}
ThreeCopies == {first, second, third}
===============================================================================
