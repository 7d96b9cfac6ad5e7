-------------------------------- MODULE MCShell --------------------------------
(* A small instance of Shell: its constants are numbers.                    *)
EXTENDS Shell
===============================================================================
