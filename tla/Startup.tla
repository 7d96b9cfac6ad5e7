-------------------------------- MODULE Startup --------------------------------
(***************************************************************************)
(* From the command line to a serving agent, agent/cmd/spotdash/main.go    *)
(* with internal/config and internal/instance: several copies of the       *)
(* program that start at once look for a configuration, create one on a    *)
(* first run, load it, check for another instance and bind the port.       *)
(*                                                                         *)
(* A configuration is its token and whether the file is complete; every    *)
(* copy of it names the same address.  A copy keeps what the process owns: *)
(* a handle on the named mutex of its configuration, and the port.         *)
(***************************************************************************)
EXTENDS Naturals, FiniteSets

CONSTANTS
    Copies,         \* processes of the program
    Nobody, Other   \* owners of the port: none, and another program

Places == {"beside", "user"}     \* the executable's folder, and the user's
Tokens == 1..(Cardinality(Copies) + 2)

ASSUME CopiesAssumption == IsFiniteSet(Copies)
ASSUME OwnersAssumption == {Nobody, Other} \cap Copies = {} /\ Nobody # Other

VARIABLES
    config,     \* config[l]: the config.json in place l, token 0 for none
    copy,       \* copy[p]: where p is in run()
    port,       \* who has the address bound
    calm        \* nothing but copies starting has happened so far

vars == <<config, copy, port, calm>>

NoConfig == [token |-> 0, whole |-> TRUE]
Alive == {"creating", "writing", "loading", "acquiring", "refused", "starting", "serving",
          "saving", "stopped"}
PCs == Alive \cup {"exited", "failed", "killed"}

(* handle: p holds a handle on the mutex; token: the one p generated, or   *)
(* the one it serves.  The port of a copy is freed before it is done.      *)
TypeOK ==
    /\ config \in [Places -> [token : Tokens \cup {0}, whole : BOOLEAN]]
    /\ copy \in [Copies -> [pc : PCs, at : Places, handle : BOOLEAN, token : Tokens \cup {0}]]
    /\ port \in Copies \cup {Nobody, Other}
    /\ port \in Copies => copy[port].pc \in {"serving", "saving", "killed"}
    /\ calm \in BOOLEAN

Init ==
    /\ config = [l \in Places |-> NoConfig]
    /\ copy = [p \in Copies |-> [pc |-> "exited", at |-> "user", handle |-> FALSE, token |-> 0]]
    /\ port = Nobody
    /\ calm = TRUE

Goto(p, pc) == copy' = [copy EXCEPT ![p].pc = pc]
Exists(l) == config[l].token # 0
Mine(p) == config[copy[p].at]

(* Where the process ends, by returning or by being killed, its handle     *)
(* goes with it.                                                           *)
End(p, pc) == copy' = [copy EXCEPT ![p] = [pc |-> pc, at |-> "user", handle |-> FALSE, token |-> 0]]

-------------------------------------------------------------------------------
(* config.Resolve: the first place that holds a file, or else the user's   *)
(* folder, where a first run creates one.                                  *)
Resolve == IF Exists("beside") THEN "beside" ELSE "user"

Start(p) ==
    /\ copy[p].pc \in {"exited", "failed"}
    /\ copy' = [copy EXCEPT ![p] =
          [pc |-> IF Exists(Resolve) THEN "loading" ELSE "creating",
           at |-> Resolve, handle |-> FALSE, token |-> 0]]
    /\ UNCHANGED <<config, port, calm>>

(* GenerateToken: a random token is one that nothing else uses.            *)
GenerateToken == CHOOSE t \in Tokens : /\ \A l \in Places : config[l].token # t
                                       /\ \A q \in Copies : copy[q].token # t

(* CreateDefault writes the whole file under a temporary name ...          *)
WriteTemp(p) ==
    /\ copy[p].pc = "creating"
    /\ copy' = [copy EXCEPT ![p].pc = "writing", ![p].token = GenerateToken]
    /\ UNCHANGED <<config, port, calm>>

(* ... in a folder that may be read-only or full.                          *)
WriteFails(p) ==
    /\ copy[p].pc = "creating"
    /\ End(p, "failed") /\ calm' = FALSE
    /\ UNCHANGED <<config, port>>

(* Mutants: a rename in place of the link; losing the race is an error.    *)
LinkByRename(p) ==
    /\ copy[p].pc = "writing"
    /\ config' = [config EXCEPT ![copy[p].at] = [token |-> copy[p].token, whole |-> TRUE]]
    /\ copy' = [copy EXCEPT ![p].pc = "loading", ![p].token = 0]
    /\ UNCHANGED <<port, calm>>

LinkOrFail(p) ==
    /\ copy[p].pc = "writing"
    /\ IF Exists(copy[p].at)
       THEN End(p, "failed") /\ UNCHANGED config
       ELSE /\ config' = [config EXCEPT ![copy[p].at] = [token |-> copy[p].token, whole |-> TRUE]]
            /\ copy' = [copy EXCEPT ![p].pc = "loading", ![p].token = 0]
    /\ UNCHANGED <<port, calm>>

(* ... and os.Link gives it its name unless one is there: "Another copy    *)
(* created it a moment ago.  Use theirs."                                  *)
Link(p) ==
    /\ copy[p].pc = "writing"
    /\ config' = IF Exists(copy[p].at) THEN config
                 ELSE [config EXCEPT ![copy[p].at] = [token |-> copy[p].token, whole |-> TRUE]]
    /\ copy' = [copy EXCEPT ![p].pc = "loading", ![p].token = 0]
    /\ UNCHANGED <<port, calm>>

(* config.Load, for the log's sake, refuses what does not parse.           *)
Load(p) ==
    /\ copy[p].pc = "loading"
    /\ IF Mine(p).whole THEN Goto(p, "acquiring") ELSE End(p, "failed")
    /\ UNCHANGED <<config, port, calm>>

-------------------------------------------------------------------------------
(* instance.Acquire.  CreateMutex opens a handle either way; the mutex     *)
(* exists as long as anybody has one.                                      *)
MutexExists(l) == \E q \in Copies : copy[q].handle /\ copy[q].at = l

Acquire(p) ==
    /\ copy[p].pc = "acquiring"
    /\ copy' = [copy EXCEPT ![p].handle = TRUE,
                            ![p].pc = IF MutexExists(copy[p].at) THEN "refused" ELSE "starting"]
    /\ UNCHANGED <<config, port, calm>>

(* Mutant: the error is taken for a refusal.                               *)
AcquireErrorExits(p) ==
    /\ copy[p].pc = "acquiring"
    /\ End(p, "exited")
    /\ UNCHANGED <<config, port, calm>>

(* "could not check whether another spotdash is running, carrying on"      *)
AcquireError(p) ==
    /\ copy[p].pc = "acquiring"
    /\ Goto(p, "starting")
    /\ UNCHANGED <<config, port, calm>>

(* Not the first: the handle is closed and the process exits with 0.       *)
ExitSecond(p) ==
    /\ copy[p].pc = "refused"
    /\ End(p, "exited")
    /\ UNCHANGED <<config, port, calm>>

(* app.Start loads the file again and binds its address, or run() returns  *)
(* the error.                                                              *)
AppStart(p) ==
    /\ copy[p].pc = "starting"
    /\ IF Mine(p).whole /\ port = Nobody
       THEN /\ copy' = [copy EXCEPT ![p].pc = "serving", ![p].token = Mine(p).token]
            /\ port' = p
       ELSE End(p, "failed") /\ UNCHANGED port
    /\ UNCHANGED <<config, calm>>

-------------------------------------------------------------------------------
(* config.Save: a settings change, from a fresh read that keeps the token, *)
(* through a temporary file ...                                            *)
SaveTemp(p) ==
    /\ copy[p].pc = "serving"
    /\ Goto(p, "saving")
    /\ UNCHANGED <<config, port, calm>>

(* ... and a rename.                                                       *)
SaveRename(p) ==
    /\ copy[p].pc = "saving"
    /\ Goto(p, "serving")
    /\ config' = [config EXCEPT ![copy[p].at] = [token |-> copy[p].token, whole |-> TRUE]]
    /\ UNCHANGED <<port, calm>>

(* Mutant: the lock is released before the agent has stopped.              *)
ReleaseFirst(p) ==
    /\ copy[p].pc = "serving"
    /\ copy' = [copy EXCEPT ![p].pc = "stopped", ![p].handle = FALSE]
    /\ calm' = FALSE
    /\ UNCHANGED <<config, port>>

(* A signal or the tray's Quit: finish() stops the agent, which frees the  *)
(* port ...                                                                *)
Finish(p) ==
    /\ copy[p].pc = "serving"
    /\ Goto(p, "stopped") /\ port' = Nobody
    /\ calm' = FALSE
    /\ UNCHANGED config

(* ... and then the deferred release runs.                                 *)
Release(p) ==
    /\ copy[p].pc = "stopped"
    /\ End(p, "exited")
    /\ port' = IF port = p THEN Nobody ELSE port
    /\ UNCHANGED <<config, calm>>

(* The process dies anywhere, and the system takes back what it owned, the *)
(* mutex before the port or after it.                                      *)
Kill(p) ==
    /\ copy[p].pc \in Alive
    /\ IF copy[p].handle \/ port = p
       THEN copy' = [copy EXCEPT ![p].pc = "killed", ![p].token = 0]
       ELSE End(p, "exited")
    /\ calm' = FALSE
    /\ UNCHANGED <<config, port>>

TakeBack(p) ==
    /\ copy[p].pc = "killed"
    /\ \/ /\ copy[p].handle /\ UNCHANGED port
          /\ IF port = p THEN copy' = [copy EXCEPT ![p].handle = FALSE] ELSE End(p, "exited")
       \/ /\ port = p /\ port' = Nobody
          /\ IF copy[p].handle THEN UNCHANGED copy ELSE End(p, "exited")
    /\ UNCHANGED <<config, calm>>

-------------------------------------------------------------------------------
(* The user puts a configuration beside the executable; another program    *)
(* takes the port, or lets it go.                                          *)
PlaceConfig ==
    /\ ~Exists("beside")
    /\ config' = [config EXCEPT !["beside"] = [token |-> GenerateToken, whole |-> TRUE]]
    /\ calm' = FALSE
    /\ UNCHANGED <<copy, port>>

OtherPort ==
    /\ port \in {Nobody, Other}
    /\ port' = IF port = Nobody THEN Other ELSE Nobody
    /\ calm' = FALSE
    /\ UNCHANGED <<config, copy>>

Step(p) ==
    \/ WriteTemp(p) \/ Link(p) \/ Load(p) \/ Acquire(p) \/ AcquireError(p) \/ ExitSecond(p)
    \/ AppStart(p) \/ SaveRename(p) \/ Release(p) \/ TakeBack(p)

Next ==
    \/ \E p \in Copies : Start(p) \/ Step(p) \/ WriteFails(p) \/ SaveTemp(p) \/ Finish(p) \/ Kill(p)
    \/ PlaceConfig \/ OtherPort

(* A process runs on once it is started.                                   *)
Spec == Init /\ [][Next]_vars /\ \A p \in Copies : WF_vars(Step(p))

-------------------------------------------------------------------------------
(* A configuration that exists is never replaced by another, nor ever seen *)
(* half-written: the token of a first run, which the user types on the     *)
(* device, is the one all copies serve from then on.                       *)
ConfigForLife == [][\A l \in Places : Exists(l) => config'[l] = config[l]]_vars

(* A copy that fails has a reason another start would not explain away:    *)
(* losing the race of a first run is no failure, and a copy of the same    *)
(* configuration that quits gives up its port before its lock.  Only a     *)
(* process being killed, one that could not check the lock, one of another *)
(* configuration, or another program can make the bind fail.               *)
FailsForCause ==
    [][\A p \in Copies : (copy[p].pc # "failed" /\ copy'[p].pc = "failed") =>
          \/ copy[p].pc = "creating"
          \/ /\ copy[p].pc = "starting"
             /\ \/ port = Other
                \/ port \in Copies /\ \/ copy[port].pc = "killed"
                                      \/ copy[port].at # copy[p].at
                                      \/ ~copy[p].handle
                                      \/ /\ ~copy[port].handle
                                         /\ copy[port].pc \in {"serving", "saving"}]_vars

(* However many copies start at once, one of them serves, whichever lost   *)
(* the race for the file, the lock or the port, and even if the lock       *)
(* cannot be checked: unless something other than a start interferes.      *)
SomebodyServes ==
    (\E p \in Copies : copy[p].pc \in Alive)
        ~> (~calm \/ \E p \in Copies : copy[p].pc \in {"serving", "saving"})
===============================================================================
