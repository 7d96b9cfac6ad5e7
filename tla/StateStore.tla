------------------------------ MODULE StateStore ------------------------------
(***************************************************************************)
(* The agent's state store, agent/internal/state: the latest reading and   *)
(* status of every source, and the fan-out of each new reading to          *)
(* subscribers through bounded channels that never block the writer.       *)
(*                                                                         *)
(* Every method of the store runs under its mutex, so each is one action.  *)
(* A reading is abstracted to its version: the number of readings the      *)
(* source has had, standing for Data and UpdatedAt together.  Version 0 is *)
(* the zero UpdatedAt of a source that was never polled.                   *)
(***************************************************************************)
EXTENDS Naturals, Sequences

CONSTANTS
    Sources,      \* names in the configuration
    Enabled,      \* the ones switched on, which are the ones ever polled
    Conns,        \* subscriptions, one per WebSocket connection
    BufferCap,    \* subscriberBuffer
    MaxVersion    \* bound: readings counted per source

ASSUME EnabledAssumption == Enabled \subseteq Sources
ASSUME BufferCapAssumption == BufferCap \in Nat \ {0}
ASSUME MaxVersionAssumption == MaxVersion \in Nat \ {0}

VARIABLES
    entry,        \* entry[s]: status, version and lastError of source s
    subscribers,  \* Store.subscribers: channels that receive broadcasts
    closed,       \* channels closed by a drop or a cancel
    buffer        \* buffer[c]: events queued in channel c, oldest first

storeVars == <<entry, subscribers, closed, buffer>>

Statuses == {"ok", "degraded", "disabled"}
Errors == {"none", "awaiting first poll", "poll failed", "reduced capability"}
Entries == [status : Statuses, version : 0..MaxVersion, lastError : Errors]
Events == [source : Sources, version : 0..MaxVersion]

StoreTypeOK ==
    /\ entry \in [Sources -> Entries]
    /\ subscribers \in SUBSET Conns
    /\ closed \in SUBSET Conns
    /\ subscribers \cap closed = {}
    /\ buffer \in [Conns -> Seq(Events)]
    /\ \A c \in Conns : Len(buffer[c]) <= BufferCap

(* Mutant: only the enabled sources are registered.                        *)
RegisterEnabledOnly(s) ==
    IF s \in Enabled
    THEN [status |-> "degraded", version |-> 0, lastError |-> "awaiting first poll"]
    ELSE [status |-> "", version |-> 0, lastError |-> "none"]

(* startSession registers every configured source before anything polls.   *)
Register(s) ==
    IF s \in Enabled
    THEN [status |-> "degraded", version |-> 0, lastError |-> "awaiting first poll"]
    ELSE [status |-> "disabled", version |-> 0, lastError |-> "none"]

StoreInit ==
    /\ entry = [s \in Sources |-> Register(s)]
    /\ subscribers = {}
    /\ closed = {}
    /\ buffer = [c \in Conns |-> <<>>]

-------------------------------------------------------------------------------
(* Writers.  The version saturates at MaxVersion; StoreNext stops there.   *)
NextVersion(s) ==
    IF entry[s].version < MaxVersion THEN entry[s].version + 1 ELSE MaxVersion

Full(c) == Len(buffer[c]) = BufferCap

(* Mutant: a full channel misses the event instead of being dropped.       *)
BroadcastSkipping(event) ==
    /\ buffer' = [c \in Conns |-> IF c \in subscribers /\ ~Full(c)
                                  THEN Append(buffer[c], event)
                                  ELSE buffer[c]]
    /\ UNCHANGED <<subscribers, closed>>

(* broadcastLocked: a full channel is dropped and closed, never waited for *)
(* and never skipped.                                                      *)
Broadcast(event) ==
    /\ buffer' = [c \in Conns |-> IF c \in subscribers /\ ~Full(c)
                                  THEN Append(buffer[c], event)
                                  ELSE buffer[c]]
    /\ subscribers' = {c \in subscribers : ~Full(c)}
    /\ closed' = closed \cup {c \in subscribers : Full(c)}

Reading(s) == [source |-> s, version |-> NextVersion(s)]

Update(s) ==
    /\ entry' = [entry EXCEPT ![s] = [status |-> "ok", version |-> NextVersion(s),
                                      lastError |-> "none"]]
    /\ Broadcast(Reading(s))

(* A nil reason ("none") leaves the last error as it was.                  *)
UpdatePartial(s, reason) ==
    /\ entry' = [entry EXCEPT ![s] =
                    [status |-> "degraded", version |-> NextVersion(s),
                     lastError |-> IF reason = "none" THEN @.lastError ELSE reason]]
    /\ Broadcast(Reading(s))

(* Mutants: a failed poll is broadcast too; it leaves the status alone.    *)
FailBroadcasting(s) ==
    /\ entry' = [entry EXCEPT ![s].status = "degraded", ![s].lastError = "poll failed"]
    /\ Broadcast([source |-> s, version |-> entry[s].version])

FailKeepingStatus(s) ==
    /\ entry' = [entry EXCEPT ![s].lastError = "poll failed"]
    /\ UNCHANGED <<subscribers, closed, buffer>>

(* Keeps the last good reading and tells no subscriber.                    *)
Fail(s) ==
    /\ entry' = [entry EXCEPT ![s].status = "degraded", ![s].lastError = "poll failed"]
    /\ UNCHANGED <<subscribers, closed, buffer>>

(* partial.New marks nothing without a reason, so the runner has one.      *)
Publish(s) ==
    /\ entry[s].version < MaxVersion
    /\ Update(s) \/ UpdatePartial(s, "reduced capability")

-------------------------------------------------------------------------------
(* Subscribers.                                                            *)
(* Mutant: the channel of the connection before is used again.             *)
SubscribeReusing(c) ==
    /\ c \notin subscribers
    /\ subscribers' = subscribers \cup {c}
    /\ closed' = closed \ {c}
    /\ UNCHANGED <<entry, buffer>>

Subscribe(c) ==
    /\ c \notin subscribers
    /\ subscribers' = subscribers \cup {c}
    /\ closed' = closed \ {c}
    /\ buffer' = [buffer EXCEPT ![c] = <<>>]
    /\ UNCHANGED entry

(* A receive from a channel that holds something.  A closed channel still  *)
(* hands over what was queued before it was closed.                        *)
Dequeue(c) ==
    /\ buffer[c] # <<>>
    /\ buffer' = [buffer EXCEPT ![c] = Tail(@)]
    /\ UNCHANGED <<entry, subscribers, closed>>

(* The cancel function Subscribe returns: removeLocked, a no-op for a      *)
(* channel that was already dropped.                                       *)
Cancel(c) ==
    /\ subscribers' = subscribers \ {c}
    /\ closed' = IF c \in subscribers THEN closed \cup {c} ELSE closed
    /\ UNCHANGED <<entry, buffer>>

StoreNext ==
    \/ \E s \in Enabled : Publish(s) \/ Fail(s)
    \/ \E c \in Conns : Subscribe(c) \/ Dequeue(c) \/ Cancel(c)

StoreSpec == StoreInit /\ [][StoreNext]_storeVars

-------------------------------------------------------------------------------
(* Every event queued for a subscriber that was not dropped is either the  *)
(* stored reading or is followed, later in the same queue, by the very     *)
(* next reading of its source: broadcastLocked drops a slow subscriber     *)
(* rather than skip a message and leave it quietly stale.                  *)
Gapless ==
    \A c \in subscribers : \A i \in 1..Len(buffer[c]) :
        LET e == buffer[c][i]
        IN  \/ e.version = entry[e.source].version
            \/ \E j \in (i + 1)..Len(buffer[c]) :
                  buffer[c][j] = [source |-> e.source, version |-> e.version + 1]

(* Subscribers see the readings of a source in stored order and each one   *)
(* once, dropped subscribers included: Update broadcasts under the lock,   *)
(* and a failed poll broadcasts nothing.                                   *)
InStoredOrder ==
    \A c \in Conns : \A i, j \in 1..Len(buffer[c]) :
        (i < j /\ buffer[c][i].source = buffer[c][j].source)
            => buffer[c][i].version < buffer[c][j].version
===============================================================================
