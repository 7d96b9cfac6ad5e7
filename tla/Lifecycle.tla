------------------------------- MODULE Lifecycle -------------------------------
(***************************************************************************)
(* Starting, reloading and stopping the agent, agent/internal/app: one     *)
(* session at a time (a listener, an HTTP server, the source goroutines),  *)
(* replaced wholesale by a reload under App.mu, while requests are being   *)
(* served, settings are being saved, and other programs take ports.        *)
(*                                                                         *)
(* net/http is external: Shutdown closes the listener once Serve has       *)
(* registered it, waits for active requests, and leaves an upgraded        *)
(* WebSocket connection alone.                                             *)
(***************************************************************************)
EXTENDS Naturals

CONSTANTS
    Addrs,          \* listen addresses
    Requests,       \* HTTP requests in flight
    Sockets,        \* upgraded WebSocket connections
    Savers,         \* timers armed by a settings save
    Tray, Quit,     \* the tray's Reload item, and main's finish()
    Nobody,         \* no holder of App.mu, no owner of a port
    Other,          \* another program holding a port
    Looks,          \* what the settings page can save
    MaxSessions,    \* bound: sessions that still matter to anybody
    MaxGrabs        \* bound: ports taken by other programs

ASSUME BoundsAssumption == MaxSessions \in Nat \ {0} /\ MaxGrabs \in Nat
ASSUME DistinctAssumption ==
    /\ {Nobody, Other} \cap (1..MaxSessions) = {}
    /\ Nobody \notin Savers \cup Requests \cup {Tray, Quit}
    /\ Quit # Tray /\ {Tray, Quit} \cap Savers = {}

VARIABLES
    mu,             \* who holds App.mu
    current,        \* App.current, 0 for nil
    sess,           \* sess[n]: a session, its slot reused once nothing refers to it
    owner,          \* owner[a]: who has address a bound
    file,           \* config.json: valid, listen address, saved settings
    op,             \* op[t]: progress of a Reload or Stop, and the config it read
    req,            \* req[r]: progress of a request
    socket,         \* socket[k]: the session a WebSocket was upgraded in, or 0
    grabs

vars == <<mu, current, sess, owner, file, op, req, socket, grabs>>

Threads == Savers \cup {Tray, Quit}
Sessions == 1..MaxSessions
Configs == [valid : BOOLEAN, addr : Addrs, look : Looks]
Loaded == {c \in Configs : c.valid}
Up == {"bound", "serving"}
NoConfig == [valid |-> FALSE, addr |-> CHOOSE a \in Addrs : TRUE, look |-> CHOOSE l \in Looks : TRUE]
IdleReq == [pc |-> "idle", session |-> 0, cfg |-> NoConfig]
IdleOp == [pc |-> "idle", cfg |-> NoConfig]

TypeOK ==
    /\ mu \in Threads \cup {Nobody}
    /\ current \in 0..MaxSessions
    /\ sess \in [Sessions -> [state : {"none", "draining", "closed"} \cup Up,
                              polling : BOOLEAN, cfg : Loaded \cup {NoConfig}]]
    /\ owner \in [Addrs -> Sessions \cup {Nobody, Other}]
    /\ file \in Configs
    /\ op \in [Threads -> [pc : {"idle", "armed", "draining", "starting", "restoring", "exited"},
                           cfg : Configs]]
    /\ req \in [Requests -> [pc : {"idle", "getting", "saving"}, session : 0..MaxSessions,
                             cfg : Configs]]
    /\ socket \in [Sockets -> 0..MaxSessions]
    /\ grabs \in 0..MaxGrabs

(* App.Start has succeeded: anything else ends the process.                *)
Init ==
    \E a \in Addrs, l \in Looks :
        LET cfg == [valid |-> TRUE, addr |-> a, look |-> l]
        IN  /\ mu = Nobody /\ current = 1 /\ grabs = 0
            /\ sess = [n \in Sessions |->
                         [state |-> IF n = 1 THEN "bound" ELSE "none",
                          polling |-> n = 1, cfg |-> IF n = 1 THEN cfg ELSE NoConfig]]
            /\ owner = [x \in Addrs |-> IF x = a THEN 1 ELSE Nobody]
            /\ file = cfg
            /\ op = [t \in Threads |-> IdleOp]
            /\ req = [r \in Requests |-> IdleReq]
            /\ socket = [k \in Sockets |-> 0]

-------------------------------------------------------------------------------
(* net/http.  The Serve goroutine registers the listener; if Shutdown came *)
(* first it closes the listener itself.                                    *)
Serve(n) ==
    /\ sess[n].state = "bound"
    /\ sess' = [sess EXCEPT ![n].state = "serving"]
    /\ UNCHANGED <<mu, current, owner, file, op, req, socket, grabs>>

ServeAfterShutdown(n) ==
    /\ sess[n].state \in {"draining", "closed"} /\ owner[sess[n].cfg.addr] = n
    /\ owner' = [owner EXCEPT ![sess[n].cfg.addr] = Nobody]
    /\ UNCHANGED <<mu, current, sess, file, op, req, socket, grabs>>

(* Shutdown's first act.                                                   *)
CloseListener(n) ==
    /\ sess' = [sess EXCEPT ![n].state = "draining"]
    /\ owner' = IF sess[n].state = "serving"
                THEN [owner EXCEPT ![sess[n].cfg.addr] = Nobody] ELSE owner

Active(n) == \E r \in Requests : req[r].pc # "idle" /\ req[r].session = n

-------------------------------------------------------------------------------
(* startSession: build, bind, start the sources, serve in a goroutine.     *)
CanStart(cfg) == owner[cfg.addr] = Nobody

(* Slots no session, port, request or socket refers to any more.           *)
FreeSlots ==
    {n \in Sessions : /\ sess[n].state \in {"none", "closed"} /\ n # current
                      /\ \A a \in Addrs : owner[a] # n
                      /\ \A r \in Requests : req[r].session # n
                      /\ \A k \in Sockets : socket[k] # n}

StartSession(cfg) ==
    LET n == CHOOSE x \in FreeSlots : TRUE
    IN  /\ sess' = [sess EXCEPT ![n] = [state |-> "bound", polling |-> TRUE, cfg |-> cfg]]
        /\ owner' = [owner EXCEPT ![cfg.addr] = n]
        /\ current' = n

Finish(t) == op' = [op EXCEPT ![t] = [IdleOp EXCEPT !.pc = IF t = Quit THEN "exited" ELSE "idle"]]

(* A Reload or Stop takes the lock.  Stop with nothing running is done; so *)
(* is a Reload, with an error, as is one whose config does not load.       *)
Ready(t) == op[t].pc = IF t \in Savers THEN "armed" ELSE "idle"

Nothing(t) == current = 0 \/ (t # Quit /\ ~file.valid)

Refuse(t) ==
    /\ Ready(t) /\ mu = Nobody /\ Nothing(t)
    /\ Finish(t)
    /\ UNCHANGED <<mu, current, sess, owner, file, req, socket, grabs>>

BeginStop(t) ==
    /\ Ready(t) /\ mu = Nobody /\ ~Nothing(t)
    /\ FreeSlots # {} \/ t = Quit
    /\ mu' = t
    /\ op' = [op EXCEPT ![t] = [pc |-> "draining", cfg |-> file]]
    /\ CloseListener(current)
    /\ UNCHANGED <<current, file, req, socket, grabs>>

(* Mutant: the sources are not cancelled.                                  *)
EndStopStillPolling(t) ==
    /\ op[t].pc = "draining"
    /\ sess' = [sess EXCEPT ![current].state = "closed"]
    /\ IF t = Quit
       THEN Finish(t) /\ mu' = Nobody /\ current' = 0
       ELSE op' = [op EXCEPT ![t].pc = "starting"] /\ UNCHANGED <<mu, current>>
    /\ UNCHANGED <<owner, file, req, socket, grabs>>

(* Shutdown returns when the requests are done, or after shutdownGrace, in *)
(* which case Close follows; then the sources are cancelled and waited for.*)
EndStop(t) ==
    /\ op[t].pc = "draining"
    /\ sess' = [sess EXCEPT ![current] = [state |-> "closed", polling |-> FALSE, cfg |-> @.cfg]]
    /\ IF t = Quit
       THEN Finish(t) /\ mu' = Nobody /\ current' = 0
       ELSE op' = [op EXCEPT ![t].pc = "starting"] /\ UNCHANGED <<mu, current>>
    /\ UNCHANGED <<owner, file, req, socket, grabs>>

Drained(t) == ~Active(current) /\ EndStop(t)

(* Mutant: Shutdown without a deadline.                                    *)
NoGrace(t) == FALSE

GraceExpires(t) == Active(current) /\ EndStop(t)

StartNew(t) ==
    /\ op[t].pc = "starting"
    /\ IF CanStart(op[t].cfg)
       THEN StartSession(op[t].cfg) /\ Finish(t) /\ mu' = Nobody
       ELSE /\ op' = [op EXCEPT ![t].pc = "restoring"]
            /\ UNCHANGED <<mu, current, sess, owner>>
    /\ UNCHANGED <<file, req, socket, grabs>>

(* Mutant: a restore that fails leaves the stopped session current.        *)
RestoreKeepingDead(t) ==
    /\ op[t].pc = "restoring"
    /\ IF CanStart(sess[current].cfg)
       THEN StartSession(sess[current].cfg)
       ELSE UNCHANGED <<current, sess, owner>>
    /\ Finish(t) /\ mu' = Nobody
    /\ UNCHANGED <<file, req, socket, grabs>>

(* Back to previous.cfg; failing that too, nothing runs.                   *)
Restore(t) ==
    /\ op[t].pc = "restoring"
    /\ IF CanStart(sess[current].cfg)
       THEN StartSession(sess[current].cfg)
       ELSE current' = 0 /\ UNCHANGED <<sess, owner>>
    /\ Finish(t) /\ mu' = Nobody
    /\ UNCHANGED <<file, req, socket, grabs>>

OpStep(t) == Refuse(t) \/ BeginStop(t) \/ Drained(t) \/ GraceExpires(t) \/ StartNew(t) \/ Restore(t)

-------------------------------------------------------------------------------
(* Requests.  GET /settings waits for App.mu inside its handler.           *)
GetArrives(r) ==
    /\ req[r].pc = "idle" /\ current # 0 /\ sess[current].state = "serving"
    /\ req' = [req EXCEPT ![r] = [pc |-> "getting", session |-> current, cfg |-> NoConfig]]
    /\ UNCHANGED <<mu, current, sess, owner, file, op, socket, grabs>>

GetAnswered(r) ==
    /\ req[r].pc = "getting" /\ mu = Nobody
    /\ req' = [req EXCEPT ![r] = IdleReq]
    /\ UNCHANGED <<mu, current, sess, owner, file, op, socket, grabs>>

(* POST /settings without the lock: a fresh read of the file with the new  *)
(* settings put in ...                                                     *)
PostArrives(r) ==
    /\ req[r].pc = "idle" /\ current # 0 /\ sess[current].state = "serving"
    /\ file.valid
    /\ \E look \in Looks :
          req' = [req EXCEPT ![r] = [pc |-> "saving", session |-> current,
                                     cfg |-> [file EXCEPT !.look = look]]]
    /\ UNCHANGED <<mu, current, sess, owner, file, op, socket, grabs>>

(* Mutant: a reload that is already armed or under way is left to apply it.*)
PostSavedCoalescing(r) ==
    /\ req[r].pc = "saving"
    /\ file' = req[r].cfg
    /\ req' = [req EXCEPT ![r] = IdleReq]
    /\ IF \E t \in Savers : op[t].pc # "idle"
       THEN UNCHANGED op
       ELSE \E t \in Savers : op' = [op EXCEPT ![t].pc = "armed"]
    /\ UNCHANGED <<mu, current, sess, owner, socket, grabs>>

(* ... then the write, the answer, and a reload 200 ms later ...           *)
PostSaved(r) ==
    /\ req[r].pc = "saving"
    /\ file' = req[r].cfg
    /\ req' = [req EXCEPT ![r] = IdleReq]
    /\ \E t \in Savers : op[t].pc = "idle" /\ op' = [op EXCEPT ![t].pc = "armed"]
    /\ UNCHANGED <<mu, current, sess, owner, socket, grabs>>

(* ... or a setting that does not validate, or a write that fails.         *)
PostRefused(r) ==
    /\ req[r].pc = "saving"
    /\ req' = [req EXCEPT ![r] = IdleReq]
    /\ UNCHANGED <<mu, current, sess, owner, file, op, socket, grabs>>

Upgrade(k) ==
    /\ socket[k] = 0 /\ current # 0 /\ sess[current].state = "serving"
    /\ socket' = [socket EXCEPT ![k] = current]
    /\ UNCHANGED <<mu, current, sess, owner, file, op, req, grabs>>

(* The panel goes away, or its watchdog gives up on a silent socket.       *)
PeerCloses(k) ==
    /\ socket[k] # 0
    /\ socket' = [socket EXCEPT ![k] = 0]
    /\ UNCHANGED <<mu, current, sess, owner, file, op, req, grabs>>

-------------------------------------------------------------------------------
(* The user edits config.json by hand; another program binds a port.       *)
Edit ==
    /\ \E a \in Addrs, v \in BOOLEAN : file' = [file EXCEPT !.addr = a, !.valid = v]
    /\ UNCHANGED <<mu, current, sess, owner, op, req, socket, grabs>>

GrabPort(a) ==
    /\ owner[a] = Nobody /\ grabs < MaxGrabs
    /\ owner' = [owner EXCEPT ![a] = Other] /\ grabs' = grabs + 1
    /\ UNCHANGED <<mu, current, sess, file, op, req, socket>>

Next ==
    \/ \E n \in Sessions : Serve(n) \/ ServeAfterShutdown(n)
    \/ \E t \in Threads : OpStep(t)
    \/ \E r \in Requests : GetArrives(r) \/ GetAnswered(r) \/ PostArrives(r)
                            \/ PostSaved(r) \/ PostRefused(r)
    \/ \E k \in Sockets : Upgrade(k) \/ PeerCloses(k)
    \/ Edit \/ \E a \in Addrs : GrabPort(a)

(* Goroutines run; a woken waiter on App.mu gets it in the end; an armed   *)
(* timer fires and shutdownGrace passes.                                   *)
Fairness ==
    /\ \A n \in Sessions : WF_vars(Serve(n)) /\ WF_vars(ServeAfterShutdown(n))
    /\ \A t \in Threads : /\ WF_vars(Drained(t)) /\ WF_vars(GraceExpires(t))
                          /\ WF_vars(StartNew(t)) /\ WF_vars(Restore(t))
    /\ \A t \in Savers : SF_vars(Refuse(t)) /\ SF_vars(BeginStop(t))
    /\ \A r \in Requests : SF_vars(GetAnswered(r)) /\ WF_vars(PostSaved(r) \/ PostRefused(r))

Spec == Init /\ [][Next]_vars /\ Fairness

-------------------------------------------------------------------------------
(* The sources of two sessions never poll at once: a reload cancels and    *)
(* waits for the old ones before it starts the new, so nothing refreshes   *)
(* the same Spotify token or writes the same art file twice.  And once the *)
(* last session has ended, by main's Stop or by a restore that failed, a   *)
(* settings timer that still fires starts nothing again.                   *)
Polling == {n \in Sessions : sess[n].polling}
Phase == IF current = 0 \/ op[Quit].pc = "exited" THEN "down"
         ELSE IF current \in Polling THEN "up" ELSE "changing"

Abstract == INSTANCE OneAtATime WITH polling <- Polling, phase <- Phase

ImplementsOneAtATime == Abstract!Spec

(* Whenever App.mu is free, the current session is up, polling and owner   *)
(* of its address, and no other session is any of these: no path through   *)
(* Reload leaves a half-started session behind or a dead one current.      *)
CurrentIsServing ==
    mu = Nobody =>
        /\ current # 0 => /\ sess[current].state \in Up /\ sess[current].polling
                         /\ owner[sess[current].cfg.addr] = current
        /\ \A n \in Sessions \ {current} : ~sess[n].polling /\ sess[n].state \notin Up

(* Saved settings reach the running session: a reload that succeeds runs   *)
(* what was last saved, or the reload that will is armed behind it, so a   *)
(* save that lands while an older reload is under way is never left unread.*)
SavedIsApplied ==
    [][\A t \in Threads : (op[t].pc = "starting" /\ op'[t].pc = "idle") =>
          \/ sess'[current'].cfg.look = file'.look
          \/ \E s \in Savers : op'[s].pc = "armed"]_vars

(* Requests and reloads never wait on each other for good: GET /settings   *)
(* waits for App.mu, its holder waits for the request, and shutdownGrace   *)
(* breaks the circle.                                                      *)
NobodyWaitsForever ==
    /\ \A r \in Requests : (req[r].pc # "idle") ~> (req[r].pc = "idle")
    /\ \A t \in Savers : (op[t].pc # "idle") ~> (op[t].pc = "idle")

(* docs/architecture.md, Lifecycle: "Shutdown: stop accepting requests,    *)
(* close connections, stop sources".  No connection outlives its session.  *)
SocketsCloseWithSession ==
    \A k \in Sockets : socket[k] # 0 => sess[socket[k]].state # "closed"
===============================================================================
