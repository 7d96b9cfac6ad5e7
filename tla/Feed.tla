--------------------------------- MODULE Feed ---------------------------------
(***************************************************************************)
(* The live feed: the WebSocket handler of agent/internal/server/ws.go     *)
(* between the state store and the panel of agent/web/app.js.              *)
(*                                                                         *)
(* A connection is a slot in Conns: its handler goroutine, the frames the  *)
(* handler has in hand, the frames in the TCP stream, and whether the path *)
(* is still up.  A slot is reused once its handler has returned and no     *)
(* panel holds it, so reconnection is unbounded while the state is finite. *)
(***************************************************************************)
EXTENDS StateStore

CONSTANTS
    Panels,
    NoConn,       \* a panel without a socket
    WireCap,      \* bound: frames the TCP stream buffers before a write blocks
    MaxFaults     \* bound: broken links, failed connects and stalled writes

ASSUME NoConnAssumption == NoConn \notin Conns
ASSUME WireCapAssumption == WireCap \in Nat \ {0}
ASSUME MaxFaultsAssumption == MaxFaults \in Nat
ASSUME HelloAssumption == "protocol" \notin Sources

VARIABLES
    handler,      \* handler[c]: where handleWebSocket is
    pending,      \* pending[c]: frames the handler has taken and not yet written
    wire,         \* wire[c]: frames written and not yet received
    link,         \* link[c]: the TCP path still carries bytes
    panel,        \* panel[p]: state.connection, "closing" after socket.close()
    sock,         \* sock[p]: the connection of the panel's current socket
    timer,        \* timer[p]: reconnectTimer is armed
    shown,        \* shown[p][s]: version in state.sources[s], 0 for none
    faults

connVars == <<handler, pending, wire, link>>
panelVars == <<panel, sock, timer, shown>>
vars == <<storeVars, connVars, panelVars, faults>>

Hello == [source |-> "protocol", version |-> 0]
Frames == Events \cup {Hello}
Serving == {"accepted", "hello", "loop"}

TypeOK ==
    /\ StoreTypeOK
    /\ handler \in [Conns -> {"idle", "returned"} \cup Serving]
    /\ pending \in [Conns -> SUBSET Frames]
    /\ wire \in [Conns -> Seq(Frames)]
    /\ link \in [Conns -> BOOLEAN]
    /\ panel \in [Panels -> {"connecting", "live", "closing", "down"}]
    /\ sock \in [Panels -> Conns \cup {NoConn}]
    /\ timer \in [Panels -> BOOLEAN]
    /\ shown \in [Panels -> [Sources -> 0..MaxVersion]]
    /\ faults \in 0..MaxFaults

(* start() connects at once.                                               *)
Init ==
    /\ StoreInit
    /\ handler = [c \in Conns |-> "idle"]
    /\ pending = [c \in Conns |-> {}]
    /\ wire = [c \in Conns |-> <<>>]
    /\ link = [c \in Conns |-> FALSE]
    /\ panel = [p \in Panels |-> "connecting"]
    /\ sock = [p \in Panels |-> NoConn]
    /\ timer = [p \in Panels |-> FALSE]
    /\ shown = [p \in Panels |-> [s \in Sources |-> 0]]
    /\ faults = 0

Fault == faults < MaxFaults /\ faults' = faults + 1

-------------------------------------------------------------------------------
(* Sources write to the store whatever the connections do.                 *)
Write(s) ==
    /\ Publish(s) \/ Fail(s)
    /\ UNCHANGED <<connVars, panelVars, faults>>

-------------------------------------------------------------------------------
(* The handler, one goroutine per connection.                              *)

Held(c) == \E p \in Panels : sock[p] = c

(* connect() is making a socket; one that threw has armed the timer.       *)
Connecting(p) == panel[p] = "connecting" /\ sock[p] = NoConn /\ ~timer[p]

Accept(p, c) ==
    /\ Connecting(p)
    /\ handler[c] \in {"idle", "returned"} /\ ~Held(c)
    /\ handler' = [handler EXCEPT ![c] = "accepted"]
    /\ pending' = [pending EXCEPT ![c] = {}]
    /\ wire' = [wire EXCEPT ![c] = <<>>]
    /\ link' = [link EXCEPT ![c] = TRUE]
    /\ sock' = [sock EXCEPT ![p] = c]
    /\ UNCHANGED <<storeVars, panel, timer, shown, faults>>

(* Subscribes before the snapshot is read, so an update in between is      *)
(* queued, and puts the hello frame in hand.                               *)
SubscribeFirst(c) ==
    /\ handler[c] = "accepted"
    /\ Subscribe(c)
    /\ handler' = [handler EXCEPT ![c] = "hello"]
    /\ pending' = [pending EXCEPT ![c] = {Hello}]
    /\ UNCHANGED <<wire, link, panelVars, faults>>

(* Mutant: a degraded source is left out of the snapshot.                  *)
SnapshotOfHealthy ==
    {[source |-> s, version |-> entry[s].version] : s \in {x \in Sources : entry[x].status = "ok"}}

(* The frames of Store.Snapshot, a source that was never polled left out.  *)
SnapshotFrames ==
    {[source |-> s, version |-> entry[s].version] : s \in {x \in Sources : entry[x].version > 0}}

(* One read of the whole store once the hello is out.  The frames follow   *)
(* in any order; the code's order by name cannot be told apart, since no   *)
(* source appears twice.                                                   *)
SendSnapshot(c) ==
    /\ handler[c] = "hello" /\ pending[c] = {}
    /\ handler' = [handler EXCEPT ![c] = "loop"]
    /\ pending' = [pending EXCEPT ![c] = SnapshotFrames]
    /\ UNCHANGED <<storeVars, wire, link, panelVars, faults>>

(* conn.Write returns: the frame is in the TCP stream, to a dead peer too. *)
Send(c) ==
    /\ Len(wire[c]) < WireCap
    /\ \E f \in pending[c] :
          /\ pending' = [pending EXCEPT ![c] = @ \ {f}]
          /\ wire' = [wire EXCEPT ![c] = Append(@, f)]
    /\ UNCHANGED <<storeVars, handler, link, panelVars, faults>>

AtSelect(c) == handler[c] = "loop" /\ pending[c] = {}

TakeEvent(c) ==
    /\ AtSelect(c)
    /\ Dequeue(c)
    /\ pending' = [pending EXCEPT ![c] = {Head(buffer[c])}]
    /\ UNCHANGED <<handler, wire, link, panelVars, faults>>

(* Mutant: the cancel is not deferred.                                     *)
ReturnSubscribed(c) ==
    /\ handler' = [handler EXCEPT ![c] = "returned"]
    /\ pending' = [pending EXCEPT ![c] = {}]
    /\ UNCHANGED <<storeVars, wire, link, panelVars>>

(* Every return runs the deferred cancel and CloseNow.                     *)
Return(c) ==
    /\ Cancel(c)
    /\ handler' = [handler EXCEPT ![c] = "returned"]
    /\ pending' = [pending EXCEPT ![c] = {}]
    /\ UNCHANGED <<wire, link, panelVars>>

(* The channel reads as closed, but only once it has been drained.         *)
FellBehind(c) ==
    /\ AtSelect(c) /\ c \in closed /\ buffer[c] = <<>>
    /\ Return(c)
    /\ UNCHANGED faults

(* writeTimeout: the device stopped reading for ten seconds.               *)
WriteTimeout(c) ==
    /\ pending[c] # {} /\ Len(wire[c]) = WireCap /\ link[c]
    /\ Return(c)
    /\ Fault

(* CloseRead saw the panel close, the keepalive ping went unanswered, or a *)
(* write failed: the handler is talking to nobody.                         *)
PeerGone(c) ==
    /\ handler[c] \in Serving \ {"accepted"}
    /\ ~link[c] \/ \A p \in Panels : sock[p] = c => panel[p] = "closing"
    /\ Return(c)
    /\ UNCHANGED faults

HandlerStep(c) ==
    \/ SubscribeFirst(c) \/ SendSnapshot(c) \/ Send(c)
    \/ TakeEvent(c) \/ FellBehind(c) \/ PeerGone(c)

-------------------------------------------------------------------------------
(* The panel.                                                              *)

Open(p) ==
    /\ panel[p] = "connecting" /\ sock[p] # NoConn /\ link[sock[p]]
    /\ panel' = [panel EXCEPT ![p] = "live"]
    /\ UNCHANGED <<storeVars, connVars, sock, timer, shown, faults>>

(* applyMessage folds a reading into state.sources whatever it replaces;   *)
(* the hello is not a source.                                              *)
ApplyMessage(sources, f) ==
    IF f.source \in Sources THEN [sources EXCEPT ![f.source] = f.version] ELSE sources

(* The message handler.                                                    *)
Receive(p) ==
    LET c == sock[p]
        f == Head(wire[c])
    IN  /\ panel[p] = "live" /\ c # NoConn /\ link[c] /\ wire[c] # <<>>
        /\ wire' = [wire EXCEPT ![c] = Tail(@)]
        /\ shown' = [shown EXCEPT ![p] = ApplyMessage(@, f)]
        /\ UNCHANGED <<storeVars, handler, pending, link, panel, sock, timer, faults>>

(* The close handler: down, and one reconnect scheduled unless one is.     *)
GoDown(p) ==
    /\ panel' = [panel EXCEPT ![p] = "down"]
    /\ sock' = [sock EXCEPT ![p] = NoConn]
    /\ timer' = [timer EXCEPT ![p] = TRUE]

(* The close event follows the panel's own close, the agent's, or a        *)
(* handshake that never finished.  Frames still in flight are lost.        *)
CloseEvent(p) ==
    LET c == sock[p]
    IN  /\ c # NoConn
        /\ \/ panel[p] = "closing"
           \/ handler[c] = "returned" /\ link[c]
           \/ panel[p] = "connecting" /\ ~link[c]
        /\ GoDown(p)
        /\ wire' = [wire EXCEPT ![c] = <<>>]
        /\ UNCHANGED <<storeVars, handler, pending, link, shown, faults>>

(* Refused, or 401: the close event of a socket that never opened.         *)
ConnectRefused(p) ==
    /\ Connecting(p)
    /\ Fault
    /\ GoDown(p)
    /\ UNCHANGED <<storeVars, connVars, shown>>

(* new WebSocket throws: there is no socket to close, so a retry is armed  *)
(* at once and the connection goes on being called connecting.             *)
ConnectThrows(p) ==
    /\ Connecting(p)
    /\ Fault
    /\ timer' = [timer EXCEPT ![p] = TRUE]
    /\ UNCHANGED <<storeVars, connVars, panel, sock, shown>>

(* Sixty seconds without a frame: the path is dead, or there was nothing   *)
(* to say for a minute.                                                    *)
Quiet(c) == AtSelect(c) /\ buffer[c] = <<>> /\ wire[c] = <<>>

(* Mutants: the watchdog reconnects by itself; it never fires on a path    *)
(* that died with frames on it.                                            *)
CheckStalenessReconnecting(p) ==
    /\ panel[p] = "live" /\ sock[p] # NoConn
    /\ ~link[sock[p]] \/ Quiet(sock[p])
    /\ panel' = [panel EXCEPT ![p] = "closing"]
    /\ timer' = [timer EXCEPT ![p] = TRUE]
    /\ UNCHANGED <<storeVars, connVars, sock, shown, faults>>

CheckStalenessWhenIdle(p) ==
    /\ panel[p] = "live" /\ sock[p] # NoConn
    /\ Quiet(sock[p])
    /\ panel' = [panel EXCEPT ![p] = "closing"]
    /\ UNCHANGED <<storeVars, connVars, sock, timer, shown, faults>>

CheckStaleness(p) ==
    /\ panel[p] = "live" /\ sock[p] # NoConn
    /\ ~link[sock[p]] \/ Quiet(sock[p])
    /\ panel' = [panel EXCEPT ![p] = "closing"]
    /\ UNCHANGED <<storeVars, connVars, sock, timer, shown, faults>>

(* reconnectTimer fires and connect() makes the next socket.               *)
Reconnect(p) ==
    /\ timer[p]
    /\ timer' = [timer EXCEPT ![p] = FALSE]
    /\ panel' = [panel EXCEPT ![p] = "connecting"]
    /\ sock' = [sock EXCEPT ![p] = NoConn]
    /\ UNCHANGED <<storeVars, connVars, shown, faults>>

PanelStep(p) == Open(p) \/ Receive(p) \/ CloseEvent(p) \/ CheckStaleness(p) \/ Reconnect(p)

-------------------------------------------------------------------------------
(* The kiosk drops off the network without a word to either side.          *)
Vanish(c) ==
    /\ link[c]
    /\ Fault
    /\ link' = [link EXCEPT ![c] = FALSE]
    /\ UNCHANGED <<storeVars, handler, pending, wire, panelVars>>

Next ==
    \/ \E s \in Enabled : Write(s)
    \/ \E c \in Conns : HandlerStep(c) \/ WriteTimeout(c) \/ Vanish(c)
    \/ \E p \in Panels : PanelStep(p) \/ ConnectRefused(p) \/ ConnectThrows(p) \/ \E c \in Conns : Accept(p, c)

(* The Go scheduler runs a runnable goroutine, the browser delivers frames *)
(* and fires timers, and the listener accepts.  Sources and faults are     *)
(* owed nothing.                                                           *)
Fairness ==
    /\ \A c \in Conns : WF_vars(HandlerStep(c))
    /\ \A p \in Panels : /\ WF_vars(Open(p)) /\ WF_vars(Receive(p))
                         /\ WF_vars(CloseEvent(p)) /\ WF_vars(Reconnect(p))
                         /\ WF_vars(CheckStaleness(p) /\ ~link[sock[p]])
                         /\ WF_vars(\E c \in Conns : Accept(p, c))

Spec == Init /\ [][Next]_vars /\ Fairness

-------------------------------------------------------------------------------
(* The last frame of source s in queue q carries version v.                *)
EndsAt(q, s, v) ==
    \E i \in 1..Len(q) :
        /\ q[i].source = s /\ q[i].version = v
        /\ \A j \in (i + 1)..Len(q) : q[j].source # s

Silent(q, s) == \A i \in 1..Len(q) : q[i].source # s

(* Looking upstream from the panel, the last thing said about s is v.      *)
Settles(p, c, s, v) ==
    \/ EndsAt(buffer[c], s, v)
    \/ /\ Silent(buffer[c], s)
       /\ \/ [source |-> s, version |-> v] \in pending[c]
          \/ /\ \A f \in pending[c] : f.source # s
             /\ \/ EndsAt(wire[c], s, v)
                \/ Silent(wire[c], s) /\ shown[p][s] = v

Attached(p, c) ==
    sock[p] = c /\ handler[c] = "loop" /\ c \in subscribers

(* A panel whose connection the store still feeds will, once everything on *)
(* its way has arrived, show exactly what the store holds.  The handler's  *)
(* order (subscribe, then read the snapshot) and the store's drop of a     *)
(* full subscriber are both there for this.                                *)
Converges ==
    \A p \in Panels, c \in Conns : Attached(p, c) =>
        \A s \in Sources :
            entry[s].version > 0 => Settles(p, c, s, entry[s].version)

(* A subscription outlives its handler on no path out of handleWebSocket,  *)
(* so the store never feeds a channel nobody reads.                        *)
NoOrphanSubscriber ==
    \A c \in subscribers : handler[c] \in {"hello", "loop"}

(* A panel has a socket or a reconnect ahead of it, never both and never   *)
(* neither: checkStaleness only closes, and what fails (the socket, or the *)
(* constructor that was to make one) schedules the next connect().         *)
OneSocket ==
    \A p \in Panels : /\ timer[p] => sock[p] = NoConn
                      /\ panel[p] = "down" => timer[p]
                      /\ panel[p] \in {"live", "closing"} => sock[p] # NoConn

(* What connection c still has in store for its panel.                     *)
InFlight(c) ==
    pending[c] \cup {wire[c][i] : i \in DOMAIN wire[c]} \cup {buffer[c][i] : i \in DOMAIN buffer[c]}

(* A reading queued before the snapshot was read comes after it and takes  *)
(* the panel back, as applyMessage keeps whatever arrives last.  Over a    *)
(* connection the store still feeds that is a replay: one at least as new  *)
(* as the reading it replaced is right behind it.  Over one the store has  *)
(* dropped it need not be, and the handler is about to close.              *)
StepsBackBriefly ==
    [][\A p \in Panels, c \in subscribers, s \in Sources :
          (sock[p] = c /\ shown'[p][s] < shown[p][s]) =>
              \E f \in InFlight(c)' : f.source = s /\ f.version >= shown[p][s]]_vars

(* Once the sources and the faults have run out, every panel comes to show *)
(* the stored reading of every source and keeps showing it, through drops, *)
(* dead links and the watchdog's reconnects.                               *)
EventuallyFresh ==
    <>[](\A p \in Panels, s \in Sources : shown[p][s] = entry[s].version)
===============================================================================
