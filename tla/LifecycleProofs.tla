---------------------------- MODULE LifecycleProofs ----------------------------
(***************************************************************************)
(* Proofs about Lifecycle, for every number of sessions, addresses,        *)
(* requests, sockets and savers.  The argument: App.mu names the one       *)
(* Reload or Stop in progress, and how far it has come determines what the *)
(* current session still does.                                             *)
(***************************************************************************)
EXTENDS Lifecycle, TLAPS

(* Who has a Reload or Stop in progress holds App.mu, and nobody else.     *)
Holding == {"draining", "starting", "restoring"}
LockInv ==
    /\ \A t \in Threads : op[t].pc \in Holding <=> mu = t
    /\ op[Quit].pc \in {"idle", "draining", "exited"}
    /\ op[Quit].pc = "exited" => current = 0
    /\ mu # Nobody => current # 0

(* The current session: up while App.mu is free, draining and then closed  *)
(* and silent under a Reload.  No other session is up or polls.            *)
CurrentInv ==
    /\ \A n \in Sessions :
          /\ sess[n].polling => n = current
          /\ sess[n].state \in Up =>
                n = current /\ mu = Nobody /\ owner[sess[n].cfg.addr] = n
    /\ current # 0 =>
          /\ sess[current].cfg.valid
          /\ mu = Nobody => sess[current].state \in Up /\ sess[current].polling
          /\ \A t \in Threads :
                /\ op[t].pc = "draining" =>
                      sess[current].state = "draining" /\ sess[current].polling
                /\ op[t].pc \in {"starting", "restoring"} =>
                      sess[current].state = "closed" /\ ~sess[current].polling

(* A Reload starts only what it read as valid, and has a slot to start in. *)
ReloadInv ==
    \A t \in Threads \ {Quit} :
        op[t].pc \in Holding => op[t].cfg.valid /\ FreeSlots # {}

(* What a Reload read is what was last saved, or another is armed.         *)
UnreadInv ==
    \A t \in Threads \ {Quit} :
        op[t].pc \in {"draining", "starting"} =>
            \/ op[t].cfg.look = file.look
            \/ \E s \in Savers : op[s].pc = "armed"

LInv == TypeOK /\ LockInv /\ CurrentInv /\ ReloadInv /\ UnreadInv

-------------------------------------------------------------------------------
(* Initially.                                                              *)
LEMMA ConfigsUsed == ASSUME NEW c \in Configs PROVE NoConfig \in Configs
<1>1. Addrs # {} /\ Looks # {}
  BY DEF Configs
<1>2. (CHOOSE a \in Addrs : TRUE) \in Addrs
  BY <1>1
<1>3. (CHOOSE l \in Looks : TRUE) \in Looks
  BY <1>1
<1> QED
  BY <1>2, <1>3 DEF Configs, NoConfig

LEMMA SessionNames == 1 \in Sessions /\ Nobody \notin Threads /\ 0 \notin Sessions /\ Nobody \notin Sessions
  BY BoundsAssumption, DistinctAssumption DEF Sessions, Threads

LEMMA InitLInv == Init => LInv
<1> SUFFICES ASSUME Init PROVE LInv
  OBVIOUS
<1>1. PICK a \in Addrs, l \in Looks :
        LET cfg == [valid |-> TRUE, addr |-> a, look |-> l]
        IN  /\ mu = Nobody /\ current = 1 /\ grabs = 0
            /\ sess = [n \in Sessions |->
                         [state |-> IF n = 1 THEN "bound" ELSE "none",
                          polling |-> n = 1, cfg |-> IF n = 1 THEN cfg ELSE NoConfig]]
            /\ owner = [x \in Addrs |-> IF x = a THEN 1 ELSE Nobody]
            /\ file = cfg
            /\ op = [t \in Threads |-> IdleOp]
            /\ req = [r \in Requests |-> IdleReq]
            /\ socket = [k \in Sockets |-> 0]
  BY DEF Init
<1> DEFINE cfg == [valid |-> TRUE, addr |-> a, look |-> l]
<1>2. cfg \in Configs /\ cfg \in Loaded /\ NoConfig \in Configs
  <2>1. cfg \in Configs
    BY DEF Configs
  <2>2. cfg \in Loaded
    BY <2>1 DEF Loaded
  <2>3. NoConfig \in Configs
    BY <2>1, ConfigsUsed
  <2> QED
    BY <2>1, <2>2, <2>3
<1>3. op = [t \in Threads |-> [pc |-> "idle", cfg |-> NoConfig]]
  BY <1>1 DEF IdleOp
<1>4. TypeOK
  <2>1. sess \in [Sessions -> [state : {"none", "draining", "closed"} \cup Up,
                              polling : BOOLEAN, cfg : Loaded \cup {NoConfig}]]
    BY <1>1, <1>2 DEF Up
  <2>2. owner \in [Addrs -> Sessions \cup {Nobody, Other}]
    BY <1>1, SessionNames
  <2>3. req \in [Requests -> [pc : {"idle", "getting", "saving"}, session : 0..MaxSessions,
                             cfg : Configs]]
    BY <1>1, <1>2, BoundsAssumption DEF IdleReq
  <2>4. current \in 0..MaxSessions /\ grabs \in 0..MaxGrabs
    BY <1>1, BoundsAssumption
  <2>5. socket \in [Sockets -> 0..MaxSessions]
    BY <1>1, BoundsAssumption
  <2>6. op \in [Threads -> [pc : {"idle", "armed", "draining", "starting", "restoring", "exited"},
                           cfg : Configs]]
    BY <1>3, <1>2
  <2> QED
    BY <2>1, <2>2, <2>3, <2>4, <2>5, <2>6, <1>1, <1>2 DEF TypeOK
<1>5. LockInv
  BY <1>1, <1>3, SessionNames DEF LockInv, Holding, Threads
<1>6. CurrentInv
  <2>1. \A n \in Sessions : /\ sess[n].polling = (n = 1)
                            /\ sess[n].state = IF n = 1 THEN "bound" ELSE "none"
    BY <1>1
  <2>2. owner[sess[1].cfg.addr] = 1 /\ 1 \in Sessions
    BY <1>1, SessionNames
  <2>3. \A t \in Threads : op[t].pc = "idle"
    BY <1>3
  <2> QED
    BY <1>1, <2>1, <2>2, <2>3 DEF CurrentInv, Up
<1>7. ReloadInv /\ UnreadInv
  BY <1>3 DEF ReloadInv, UnreadInv, Holding
<1> QED
  BY <1>4, <1>5, <1>6, <1>7 DEF LInv

-------------------------------------------------------------------------------
(* What a step leaves alone.                                               *)
LEMMA OpsKept ==
    ASSUME LockInv, UNCHANGED <<mu, current, op>> PROVE LockInv'
  BY DEF LockInv, Holding

LEMMA CurrentKept ==
    ASSUME CurrentInv, UNCHANGED <<mu, current, sess, owner, op>> PROVE CurrentInv'
  BY DEF CurrentInv, Up

LEMMA SlotsKept ==
    ASSUME ReloadInv, op' = op, FreeSlots \subseteq FreeSlots' PROVE ReloadInv'
  BY DEF ReloadInv, Holding

LEMMA ReadKept ==
    ASSUME UnreadInv, op' = op, file'.look = file.look PROVE UnreadInv'
  BY DEF UnreadInv

(* Requests and sockets attach to the current session only.                *)
LEMMA ArrivalsKeepSlots ==
    ASSUME UNCHANGED <<current, sess, owner>>,
           \A r \in Requests : req'[r].session \in {req[r].session, 0, current},
           \A k \in Sockets : socket'[k] \in {socket[k], 0, current}
    PROVE  FreeSlots \subseteq FreeSlots'
  BY SessionNames DEF FreeSlots

LEMMA ArrivalKeeps ==
    ASSUME LInv, TypeOK', UNCHANGED <<mu, current, sess, owner, op>>,
           file'.look = file.look,
           \A r \in Requests : req'[r].session \in {req[r].session, 0, current},
           \A k \in Sockets : socket'[k] \in {socket[k], 0, current}
    PROVE  LInv'
<1>1. LockInv' /\ CurrentInv' /\ UnreadInv'
  BY OpsKept, CurrentKept, ReadKept DEF LInv
<1>2. ReloadInv'
  BY ArrivalsKeepSlots, SlotsKept DEF LInv
<1> QED
  BY <1>1, <1>2 DEF LInv

-------------------------------------------------------------------------------
(* net/http.                                                               *)
LEMMA ServeKeeps == ASSUME LInv, NEW n \in Sessions, Serve(n) PROVE LInv'
<1> USE DEF Serve
<1>1. TypeOK'
  <2>1. sess' \in [Sessions -> [state : {"none", "draining", "closed"} \cup Up,
                              polling : BOOLEAN, cfg : Loaded \cup {NoConfig}]]
    BY DEF LInv, TypeOK, Up
  <2> QED
    BY <2>1 DEF LInv, TypeOK
<1>2. LockInv' /\ UnreadInv'
  BY OpsKept, ReadKept DEF LInv
<1>3. /\ \A m \in Sessions : /\ sess'[m].polling = sess[m].polling
                             /\ sess'[m].cfg = sess[m].cfg
                             /\ m # n => sess'[m].state = sess[m].state
      /\ sess'[n].state = "serving"
  BY DEF LInv, TypeOK
<1>4. n = current /\ mu = Nobody /\ owner[sess[n].cfg.addr] = n
  BY DEF LInv, CurrentInv, Up
<1>5. CurrentInv'
  <2>1. \A t \in Threads : op[t].pc \notin Holding
    BY <1>4, SessionNames DEF LInv, LockInv
  <2>2. sess'[n].state \in Up
    BY <1>3 DEF Up
  <2>3. \A m \in Sessions : sess'[m].state \in Up => sess[m].state \in Up
    BY <1>3 DEF Up
  <2> QED
    BY <1>3, <1>4, <2>1, <2>2, <2>3 DEF LInv, CurrentInv, Holding
<1>6. FreeSlots \subseteq FreeSlots'
  BY <1>3, <1>4 DEF FreeSlots
<1> QED
  BY <1>1, <1>2, <1>5, <1>6, SlotsKept DEF LInv

LEMMA ServeAfterShutdownKeeps == ASSUME LInv, NEW n \in Sessions, ServeAfterShutdown(n) PROVE LInv'
<1> USE DEF ServeAfterShutdown
<1>1. TypeOK'
  <2>1. owner' \in [Addrs -> Sessions \cup {Nobody, Other}]
    BY DEF LInv, TypeOK
  <2> QED
    BY <2>1 DEF LInv, TypeOK
<1>2. LockInv' /\ UnreadInv'
  BY OpsKept, ReadKept DEF LInv
<1>3. \A m \in Sessions \ {n} : owner[sess[m].cfg.addr] = m => owner'[sess[m].cfg.addr] = m
  BY DEF LInv, TypeOK
<1>4. CurrentInv'
  BY <1>3 DEF LInv, CurrentInv, Up
<1>5. FreeSlots \subseteq FreeSlots'
  BY SessionNames DEF FreeSlots, LInv, TypeOK
<1> QED
  BY <1>1, <1>2, <1>4, <1>5, SlotsKept DEF LInv

-------------------------------------------------------------------------------
(* Requests, sockets, the user's editor and other programs.                *)
ReqType == [Requests -> [pc : {"idle", "getting", "saving"}, session : 0..MaxSessions,
                         cfg : Configs]]

LEMMA IdleReqType == ASSUME TypeOK PROVE IdleReq \in [pc : {"idle", "getting", "saving"},
                                                      session : 0..MaxSessions, cfg : Configs]
<1>1. NoConfig \in Configs
  BY ConfigsUsed DEF TypeOK
<1> QED
  BY <1>1, BoundsAssumption DEF IdleReq

LEMMA GetArrivesKeeps == ASSUME LInv, NEW r \in Requests, GetArrives(r) PROVE LInv'
<1> USE DEF GetArrives
<1>1. NoConfig \in Configs
  BY ConfigsUsed DEF LInv, TypeOK
<1>2. req' \in ReqType
  BY <1>1 DEF LInv, TypeOK, ReqType
<1>3. TypeOK'
  BY <1>2 DEF LInv, TypeOK, ReqType
<1>4. \A q \in Requests : req'[q].session \in {req[q].session, 0, current}
  BY DEF LInv, TypeOK
<1> QED
  BY <1>3, <1>4, ArrivalKeeps

LEMMA RequestDoneKeeps ==
    ASSUME LInv, NEW r \in Requests, req' = [req EXCEPT ![r] = IdleReq],
           UNCHANGED <<mu, current, sess, owner, file, op, socket, grabs>>
    PROVE  LInv'
<1>1. req' \in ReqType
  BY IdleReqType DEF LInv, TypeOK, ReqType
<1>2. TypeOK'
  BY <1>1 DEF LInv, TypeOK, ReqType
<1>3. \A q \in Requests : req'[q].session \in {req[q].session, 0, current}
  BY DEF LInv, TypeOK, IdleReq
<1> QED
  BY <1>2, <1>3, ArrivalKeeps

LEMMA PostArrivesKeeps == ASSUME LInv, NEW r \in Requests, PostArrives(r) PROVE LInv'
<1>1. PICK look \in Looks :
          req' = [req EXCEPT ![r] = [pc |-> "saving", session |-> current,
                                     cfg |-> [file EXCEPT !.look = look]]]
  BY DEF PostArrives
<1>2. UNCHANGED <<mu, current, sess, owner, file, op, socket, grabs>>
  BY DEF PostArrives
<1>3. [file EXCEPT !.look = look] \in Configs
  BY DEF LInv, TypeOK, Configs
<1>4. req' \in ReqType
  BY <1>1, <1>3 DEF LInv, TypeOK, ReqType
<1>5. TypeOK'
  BY <1>2, <1>4 DEF LInv, TypeOK, ReqType
<1>6. \A q \in Requests : req'[q].session \in {req[q].session, 0, current}
  BY <1>1 DEF LInv, TypeOK
<1> QED
  BY <1>2, <1>5, <1>6, ArrivalKeeps

LEMMA PostSavedKeeps == ASSUME LInv, NEW r \in Requests, PostSaved(r) PROVE LInv'
<1> USE DEF PostSaved
<1>1. PICK t \in Savers : op[t].pc = "idle" /\ op' = [op EXCEPT ![t].pc = "armed"]
  OBVIOUS
<1>2. /\ t \in Threads /\ t # Quit
      /\ \A u \in Threads : /\ op'[u].cfg = op[u].cfg
                            /\ u # t => op'[u].pc = op[u].pc
      /\ op'[t].pc = "armed"
  BY <1>1, DistinctAssumption DEF Threads, LInv, TypeOK
<1>3. TypeOK'
  <2>1. req' \in ReqType
    BY IdleReqType DEF LInv, TypeOK, ReqType
  <2>2. file' \in Configs
    BY DEF LInv, TypeOK
  <2>3. op' \in [Threads -> [pc : {"idle", "armed", "draining", "starting", "restoring", "exited"},
                             cfg : Configs]]
    BY <1>1, <1>2 DEF LInv, TypeOK
  <2> QED
    BY <2>1, <2>2, <2>3 DEF LInv, TypeOK, ReqType
<1>4. \A u \in Threads : /\ op'[u].pc \in Holding <=> op[u].pc \in Holding
                         /\ op'[u].pc \in Holding => op'[u].pc = op[u].pc
  BY <1>1, <1>2 DEF Holding
<1>5. LockInv'
  <2>1. Quit \in Threads
    BY DEF Threads
  <2> QED
    BY <1>2, <1>4, <2>1 DEF LInv, LockInv
<1>6. CurrentInv'
  BY <1>4 DEF LInv, CurrentInv, Up, Holding
<1>7. FreeSlots \subseteq FreeSlots'
  BY ArrivalsKeepSlots DEF LInv, TypeOK, IdleReq
<1>8. ReloadInv'
  BY <1>2, <1>4, <1>7 DEF LInv, ReloadInv
<1>9. UnreadInv'
  BY <1>2 DEF UnreadInv
<1> QED
  BY <1>3, <1>5, <1>6, <1>8, <1>9 DEF LInv

LEMMA SocketKeeps == ASSUME LInv, NEW k \in Sockets, Upgrade(k) \/ PeerCloses(k) PROVE LInv'
<1>1. UNCHANGED <<mu, current, sess, owner, file, op, req, grabs>>
  BY DEF Upgrade, PeerCloses
<1>2. TypeOK'
  <2>1. socket' \in [Sockets -> 0..MaxSessions]
    BY BoundsAssumption DEF LInv, TypeOK, Upgrade, PeerCloses
  <2> QED
    BY <1>1, <2>1 DEF LInv, TypeOK
<1>3. \A j \in Sockets : socket'[j] \in {socket[j], 0, current}
  BY DEF LInv, TypeOK, Upgrade, PeerCloses
<1> QED
  BY <1>1, <1>2, <1>3, ArrivalKeeps

LEMMA EditKeeps == ASSUME LInv, Edit PROVE LInv'
<1>1. PICK a \in Addrs, v \in BOOLEAN : file' = [file EXCEPT !.addr = a, !.valid = v]
  BY DEF Edit
<1>2. UNCHANGED <<mu, current, sess, owner, op, req, socket, grabs>>
  BY DEF Edit
<1>3. file' \in Configs /\ file'.look = file.look
  BY <1>1 DEF LInv, TypeOK, Configs
<1>4. TypeOK'
  BY <1>2, <1>3 DEF LInv, TypeOK
<1> QED
  BY <1>2, <1>3, <1>4, ArrivalKeeps

LEMMA GrabKeeps == ASSUME LInv, NEW a \in Addrs, GrabPort(a) PROVE LInv'
<1> USE DEF GrabPort
<1>1. TypeOK'
  <2>1. owner' \in [Addrs -> Sessions \cup {Nobody, Other}]
    BY DEF LInv, TypeOK
  <2>2. grabs' \in 0..MaxGrabs
    BY BoundsAssumption DEF LInv, TypeOK
  <2> QED
    BY <2>1, <2>2 DEF LInv, TypeOK
<1>2. LockInv' /\ UnreadInv'
  BY OpsKept, ReadKept DEF LInv
<1>3. \A m \in Sessions : owner[sess[m].cfg.addr] = m => owner'[sess[m].cfg.addr] = m
  BY SessionNames DEF LInv, TypeOK
<1>4. CurrentInv'
  BY <1>3 DEF LInv, CurrentInv, Up
<1>5. Other \notin Sessions
  BY DistinctAssumption DEF Sessions
<1>6. FreeSlots \subseteq FreeSlots'
  BY <1>5 DEF FreeSlots, LInv, TypeOK
<1> QED
  BY <1>1, <1>2, <1>4, <1>6, SlotsKept DEF LInv

-------------------------------------------------------------------------------
(* Reload and Stop.                                                        *)
OpType == [Threads -> [pc : {"idle", "armed", "draining", "starting", "restoring", "exited"},
                       cfg : Configs]]
SessType == [Sessions -> [state : {"none", "draining", "closed"} \cup Up,
                          polling : BOOLEAN, cfg : Loaded \cup {NoConfig}]]

(* Only its holder is inside App.mu.                                       *)
LEMMA OneHolder ==
    ASSUME LockInv, NEW t \in Threads, op[t].pc \in Holding
    PROVE  mu = t /\ mu # Nobody /\ current # 0 /\ \A u \in Threads \ {t} : op[u].pc \notin Holding
  BY SessionNames DEF LockInv

LEMMA FinishTypes ==
    ASSUME TypeOK, NEW t \in Threads, Finish(t)
    PROVE  /\ op' \in OpType
           /\ op'[t].pc = IF t = Quit THEN "exited" ELSE "idle"
           /\ \A u \in Threads \ {t} : op'[u] = op[u]
<1>1. NoConfig \in Configs
  BY ConfigsUsed DEF TypeOK
<1> QED
  BY <1>1 DEF TypeOK, Finish, IdleOp, OpType

LEMMA StartsFresh ==
    ASSUME TypeOK, FreeSlots # {}, NEW cfg \in Loaded, CanStart(cfg), StartSession(cfg)
    PROVE  /\ current' \in FreeSlots
           /\ sess' \in SessType
           /\ sess'[current'] = [state |-> "bound", polling |-> TRUE, cfg |-> cfg]
           /\ \A n \in Sessions \ {current'} : sess'[n] = sess[n]
           /\ owner' \in [Addrs -> Sessions \cup {Nobody, Other}]
           /\ owner'[cfg.addr] = current'
<1>1. current' = CHOOSE x \in FreeSlots : TRUE
  BY DEF StartSession
<1>2. current' \in FreeSlots /\ current' \in Sessions
  BY <1>1 DEF FreeSlots
<1>3. /\ sess' = [sess EXCEPT ![current'] = [state |-> "bound", polling |-> TRUE, cfg |-> cfg]]
      /\ owner' = [owner EXCEPT ![cfg.addr] = current']
  BY DEF StartSession
<1>4. cfg.addr \in Addrs
  BY DEF Loaded, Configs
<1> QED
  BY <1>2, <1>3, <1>4 DEF TypeOK, SessType, Up

(* A session that starts with no other up or polling is the current one.   *)
LEMMA StartKeeps ==
    ASSUME LInv, NEW t \in Threads \ {Quit}, op[t].pc \in {"starting", "restoring"},
           FreeSlots # {}, NEW cfg \in Loaded, CanStart(cfg), StartSession(cfg),
           Finish(t), mu' = Nobody, UNCHANGED <<file, req, socket, grabs>>
    PROVE  LInv'
<1>1. /\ current' \in FreeSlots
      /\ sess' \in SessType
      /\ sess'[current'] = [state |-> "bound", polling |-> TRUE, cfg |-> cfg]
      /\ \A n \in Sessions \ {current'} : sess'[n] = sess[n]
      /\ owner' \in [Addrs -> Sessions \cup {Nobody, Other}]
      /\ owner'[cfg.addr] = current'
  BY StartsFresh DEF LInv
<1>2. /\ op' \in OpType
      /\ op'[t].pc = "idle"
      /\ \A u \in Threads \ {t} : op'[u] = op[u]
  BY FinishTypes DEF LInv
<1>3. mu = t /\ mu # Nobody /\ current # 0 /\ \A u \in Threads \ {t} : op[u].pc \notin Holding
  BY OneHolder DEF LInv, Holding
<1>4. current' \in Sessions /\ current' # 0 /\ current' \in 0..MaxSessions
  BY <1>1, SessionNames, BoundsAssumption DEF FreeSlots, Sessions
<1>5. TypeOK'
  BY <1>1, <1>2, <1>4 DEF LInv, TypeOK, OpType, SessType
<1>6. \A u \in Threads : op'[u].pc \notin Holding
  BY <1>2, <1>3 DEF Holding
<1>7. LockInv'
  <2>1. op[Quit].pc # "exited"
    BY <1>3 DEF LInv, LockInv
  <2>2. Quit \in Threads \ {t}
    BY DEF Threads
  <2> QED
    BY <1>2, <1>6, <2>1, <2>2, SessionNames DEF LInv, LockInv
<1>8. \A n \in Sessions : ~sess[n].polling /\ sess[n].state \notin Up
  BY <1>3 DEF LInv, CurrentInv
<1>9. CurrentInv'
  <2>1. \A n \in Sessions \ {current'} : ~sess'[n].polling /\ sess'[n].state \notin Up
    BY <1>1, <1>8
  <2>2. sess'[current'].state \in Up /\ sess'[current'].polling
         /\ sess'[current'].cfg = cfg /\ cfg.valid
    BY <1>1 DEF Up, Loaded
  <2> QED
    BY <1>1, <1>6, <2>1, <2>2 DEF CurrentInv, Holding, Up
<1>10. ReloadInv' /\ UnreadInv'
  BY <1>6 DEF ReloadInv, UnreadInv, Holding
<1> QED
  BY <1>5, <1>7, <1>9, <1>10 DEF LInv

LEMMA RefuseKeeps == ASSUME LInv, NEW t \in Threads, Refuse(t) PROVE LInv'
<1> USE DEF Refuse
<1>1. /\ op' \in OpType
      /\ op'[t].pc = IF t = Quit THEN "exited" ELSE "idle"
      /\ \A u \in Threads \ {t} : op'[u] = op[u]
  BY FinishTypes DEF LInv
<1>2. TypeOK'
  BY <1>1 DEF LInv, TypeOK, OpType
<1>3. \A u \in Threads : op[u].pc \notin Holding /\ op'[u].pc \notin Holding
  BY <1>1, SessionNames DEF LInv, LockInv, Holding
<1>4. LockInv'
  <2>1. t = Quit => current = 0
    BY DEF Nothing
  <2>2. Quit \in Threads
    BY DEF Threads
  <2> QED
    BY <1>1, <1>3, <2>1, <2>2, SessionNames DEF LInv, LockInv
<1>5. CurrentInv' /\ ReloadInv' /\ UnreadInv'
  BY <1>3 DEF LInv, CurrentInv, ReloadInv, UnreadInv, Up, Holding
<1> QED
  BY <1>2, <1>4, <1>5 DEF LInv

LEMMA BeginStopKeeps == ASSUME LInv, NEW t \in Threads, BeginStop(t) PROVE LInv'
<1> USE DEF BeginStop
<1>1. /\ op' \in OpType
      /\ op'[t] = [pc |-> "draining", cfg |-> file]
      /\ \A u \in Threads \ {t} : op'[u] = op[u]
  BY DEF LInv, TypeOK, OpType
<1>2. current # 0 /\ current \in Sessions
  BY BoundsAssumption DEF LInv, TypeOK, Nothing, Sessions
<1>3. /\ sess' \in SessType
      /\ sess'[current].state = "draining"
      /\ \A n \in Sessions : sess'[n].polling = sess[n].polling /\ sess'[n].cfg = sess[n].cfg
      /\ \A n \in Sessions \ {current} : sess'[n] = sess[n]
  BY <1>2 DEF LInv, TypeOK, CloseListener, SessType
<1>4. sess[current].cfg \in Configs
  <2>1. NoConfig \in Configs
    BY ConfigsUsed DEF LInv, TypeOK
  <2> QED
    BY <1>2, <2>1 DEF LInv, TypeOK, Loaded
<1>5. /\ owner' \in [Addrs -> Sessions \cup {Nobody, Other}]
      /\ \A a \in Addrs : owner'[a] \in {owner[a], Nobody}
  BY <1>4 DEF LInv, TypeOK, CloseListener, Configs
<1>6. TypeOK'
  BY <1>1, <1>3, <1>5 DEF LInv, TypeOK, OpType, SessType
<1>7. \A u \in Threads : op[u].pc \notin Holding
  BY SessionNames DEF LInv, LockInv
<1>8. \A u \in Threads : op'[u].pc \in Holding <=> u = t
  BY <1>1, <1>7 DEF Holding
<1>9. LockInv'
  <2>1. Quit \in Threads
    BY DEF Threads
  <2> QED
    BY <1>1, <1>2, <1>8, <2>1 DEF LInv, LockInv, Holding
<1>10. \A n \in Sessions : sess'[n].state \notin Up
  <2>1. \A n \in Sessions \ {current} : sess[n].state \notin Up
    BY DEF LInv, CurrentInv
  <2> QED
    BY <1>3, <2>1 DEF Up
<1>11. CurrentInv'
  <2>1. \A n \in Sessions : sess'[n].polling => n = current'
    BY <1>3 DEF LInv, CurrentInv
  <2>2. sess'[current].state = "draining" /\ sess'[current].polling
    BY <1>2, <1>3 DEF LInv, CurrentInv
  <2>3. \A u \in Threads : op'[u].pc \notin {"starting", "restoring"}
    BY <1>1, <1>8 DEF Holding
  <2>4. mu' # Nobody
    BY SessionNames
  <2>5. current' = current /\ current \in Sessions /\ sess[current].cfg.valid
    BY <1>2 DEF LInv, CurrentInv
  <2> QED
    BY <1>3, <1>10, <2>1, <2>2, <2>3, <2>4, <2>5 DEF CurrentInv
<1>12. ReloadInv'
  <2>1. FreeSlots \subseteq FreeSlots'
    BY <1>3, <1>5, SessionNames DEF FreeSlots
  <2>2. t # Quit => file.valid /\ FreeSlots # {}
    BY DEF Nothing
  <2> QED
    BY <1>1, <1>8, <2>1, <2>2 DEF ReloadInv
<1>13. UnreadInv'
  BY <1>1, <1>8 DEF UnreadInv, Holding
<1> QED
  BY <1>6, <1>9, <1>11, <1>12, <1>13 DEF LInv

LEMMA EndStopKeeps == ASSUME LInv, NEW t \in Threads, EndStop(t) PROVE LInv'
<1> USE DEF EndStop
<1>1. mu = t /\ mu # Nobody /\ current # 0 /\ \A u \in Threads \ {t} : op[u].pc \notin Holding
  BY OneHolder DEF LInv, Holding
<1>2. current \in Sessions
  BY <1>1, BoundsAssumption DEF LInv, TypeOK, Sessions
<1>3. /\ sess' \in SessType
      /\ sess'[current].state = "closed" /\ ~sess'[current].polling
      /\ \A n \in Sessions : sess'[n].cfg = sess[n].cfg
      /\ \A n \in Sessions \ {current} : sess'[n] = sess[n]
  <2>1. /\ sess \in SessType
        /\ sess' = [sess EXCEPT ![current] =
                       [state |-> "closed", polling |-> FALSE, cfg |-> sess[current].cfg]]
    BY DEF LInv, TypeOK, SessType
  <2>2. /\ sess[current].cfg \in Loaded \cup {NoConfig}
        /\ sess'[current] = [state |-> "closed", polling |-> FALSE, cfg |-> sess[current].cfg]
    BY <1>2, <2>1 DEF SessType
  <2>3. \A n \in Sessions \ {current} : sess'[n] = sess[n]
    BY <2>1
  <2>4. sess' \in SessType
    BY <1>2, <2>1, <2>2 DEF SessType
  <2> QED
    BY <2>2, <2>3, <2>4
<1>4. \A n \in Sessions : ~sess'[n].polling /\ sess'[n].state \notin Up
  <2>1. \A n \in Sessions \ {current} : ~sess[n].polling /\ sess[n].state \notin Up
    BY DEF LInv, CurrentInv
  <2> QED
    BY <1>3, <2>1 DEF Up
<1>5. CASE t = Quit
  <2>1. /\ op' \in OpType
        /\ op'[t].pc = "exited"
        /\ \A u \in Threads \ {t} : op'[u] = op[u]
    BY <1>5, FinishTypes DEF LInv
  <2>2. mu' = Nobody /\ current' = 0
    BY <1>5
  <2>3. TypeOK'
    BY <1>3, <2>1, <2>2, BoundsAssumption DEF LInv, TypeOK, OpType, SessType
  <2>4. \A u \in Threads : op'[u].pc \notin Holding
    BY <1>1, <2>1 DEF Holding
  <2>5. LockInv'
    BY <1>5, <2>1, <2>2, <2>4, SessionNames DEF LockInv
  <2>6. CurrentInv' /\ ReloadInv' /\ UnreadInv'
    BY <1>4, <2>2, <2>4 DEF CurrentInv, ReloadInv, UnreadInv, Holding
  <2> QED
    BY <2>3, <2>5, <2>6 DEF LInv
<1>6. CASE t # Quit
  <2>1. mu' = mu /\ current' = current /\ op' = [op EXCEPT ![t].pc = "starting"]
    BY <1>6
  <2>2. /\ op' \in OpType
        /\ op'[t].pc = "starting" /\ op'[t].cfg = op[t].cfg
        /\ \A u \in Threads \ {t} : op'[u] = op[u]
    BY <2>1 DEF LInv, TypeOK, OpType
  <2>3. TypeOK'
    BY <1>3, <2>1, <2>2 DEF LInv, TypeOK, OpType, SessType
  <2>4. LockInv'
    <3>1. op'[Quit] = op[Quit] /\ Quit \in Threads
      BY <1>6, <2>2 DEF Threads
    <3> QED
      BY <1>1, <2>1, <2>2, <3>1 DEF LInv, LockInv, Holding
  <2>5. CurrentInv'
    <3>1. \A u \in Threads : op'[u].pc # "draining"
      BY <1>1, <2>2 DEF Holding
    <3>2. sess[current].cfg.valid
      BY <1>1 DEF LInv, CurrentInv
    <3>3. sess'[current'].cfg.valid
      BY <1>2, <1>3, <2>1, <3>2
    <3> QED
      BY <1>1, <1>3, <1>4, <2>1, <3>1, <3>3 DEF CurrentInv
  <2>6. FreeSlots \subseteq FreeSlots'
    BY <1>3, <2>1 DEF FreeSlots
  <2>7. ReloadInv'
    BY <1>1, <2>2, <2>6 DEF LInv, ReloadInv, Holding
  <2>8. UnreadInv'
    <3>1. \A u \in Threads : /\ op'[u].cfg = op[u].cfg
                             /\ op'[u].pc \in {"draining", "starting"} =>
                                  op[u].pc \in {"draining", "starting"}
                             /\ op[u].pc = "armed" => op'[u].pc = "armed"
      BY <2>2
    <3> QED
      BY <3>1 DEF LInv, UnreadInv, Threads
  <2> QED
    BY <2>3, <2>4, <2>5, <2>7, <2>8 DEF LInv
<1> QED
  BY <1>5, <1>6

LEMMA QuitOnlyDrains ==
    ASSUME LInv, NEW t \in Threads, op[t].pc \in {"starting", "restoring"}
    PROVE  t \in Threads \ {Quit} /\ op[t].pc \in Holding /\ FreeSlots # {} /\ op[t].cfg \in Loaded
<1>1. t # Quit
  BY DEF LInv, LockInv
<1>2. op[t].cfg \in Configs
  BY DEF LInv, TypeOK
<1> QED
  BY <1>1, <1>2 DEF LInv, ReloadInv, Holding, Loaded

LEMMA StartNewKeeps == ASSUME LInv, NEW t \in Threads, StartNew(t) PROVE LInv'
<1> USE DEF StartNew
<1>1. t \in Threads \ {Quit} /\ op[t].pc \in Holding /\ FreeSlots # {} /\ op[t].cfg \in Loaded
  BY QuitOnlyDrains
<1>2. CASE CanStart(op[t].cfg)
  BY <1>1, <1>2, StartKeeps
<1>3. CASE ~CanStart(op[t].cfg)
  <2>1. /\ op' = [op EXCEPT ![t].pc = "restoring"]
        /\ UNCHANGED <<mu, current, sess, owner, file, req, socket, grabs>>
    BY <1>3
  <2>2. /\ op' \in OpType
        /\ op'[t].pc = "restoring" /\ op'[t].cfg = op[t].cfg
        /\ \A u \in Threads \ {t} : op'[u] = op[u]
    BY <2>1 DEF LInv, TypeOK, OpType
  <2>3. TypeOK'
    BY <2>1, <2>2 DEF LInv, TypeOK, OpType
  <2>4. mu = t /\ mu # Nobody /\ current # 0 /\ \A u \in Threads \ {t} : op[u].pc \notin Holding
    BY <1>1, OneHolder DEF LInv
  <2>5. LockInv'
    <3>1. op'[Quit] = op[Quit] /\ Quit \in Threads
      BY <1>1, <2>2 DEF Threads
    <3> QED
      BY <2>1, <2>2, <2>4, <3>1 DEF LInv, LockInv, Holding
  <2>6. CurrentInv'
    <3>1. \A u \in Threads : op'[u].pc # "draining"
      BY <2>2, <2>4 DEF Holding
    <3>2. sess[current].state = "closed" /\ ~sess[current].polling
      BY <2>4 DEF LInv, CurrentInv
    <3> QED
      BY <2>1, <2>4, <3>1, <3>2 DEF LInv, CurrentInv, Up
  <2>7. FreeSlots' = FreeSlots
    BY <2>1 DEF FreeSlots
  <2>8. ReloadInv'
    BY <1>1, <2>2, <2>4, <2>7 DEF LInv, ReloadInv, Holding
  <2>9. UnreadInv'
    BY <2>2, <2>4 DEF UnreadInv, Holding
  <2> QED
    BY <2>3, <2>5, <2>6, <2>8, <2>9 DEF LInv
<1> QED
  BY <1>2, <1>3

(* A session that ran had a valid configuration.                           *)
LEMMA RestoreKeeps == ASSUME LInv, NEW t \in Threads, Restore(t) PROVE LInv'
<1> USE DEF Restore
<1>1. t \in Threads \ {Quit} /\ op[t].pc \in Holding /\ FreeSlots # {} /\ op[t].cfg \in Loaded
  BY QuitOnlyDrains
<1>2. mu = t /\ mu # Nobody /\ current # 0 /\ \A u \in Threads \ {t} : op[u].pc \notin Holding
  BY <1>1, OneHolder DEF LInv
<1>3. CASE CanStart(sess[current].cfg)
  <2>1. current \in Sessions /\ sess[current].cfg.valid
    BY <1>2, BoundsAssumption DEF LInv, TypeOK, CurrentInv, Sessions
  <2>2. sess[current].cfg \in Loaded
    BY <2>1 DEF LInv, TypeOK, NoConfig
  <2> QED
    BY <1>1, <1>3, <2>2, StartKeeps
<1>4. CASE ~CanStart(sess[current].cfg)
  <2>1. /\ op' \in OpType
        /\ op'[t].pc = "idle"
        /\ \A u \in Threads \ {t} : op'[u] = op[u]
    BY <1>1, FinishTypes DEF LInv
  <2>2. current' = 0 /\ mu' = Nobody /\ UNCHANGED <<sess, owner>>
    BY <1>4
  <2>3. TypeOK'
    BY <2>1, <2>2, BoundsAssumption DEF LInv, TypeOK, OpType
  <2>4. \A u \in Threads : op'[u].pc \notin Holding
    BY <1>2, <2>1 DEF Holding
  <2>5. LockInv'
    <3>1. op'[Quit] = op[Quit] /\ Quit \in Threads
      BY <1>1, <2>1 DEF Threads
    <3> QED
      BY <2>2, <2>4, <3>1, SessionNames DEF LInv, LockInv
  <2>6. CurrentInv'
    <3>1. \A n \in Sessions : ~sess[n].polling /\ sess[n].state \notin Up
      BY <1>2 DEF LInv, CurrentInv
    <3> QED
      BY <2>2, <3>1 DEF CurrentInv, Up
  <2>7. ReloadInv' /\ UnreadInv'
    BY <2>4 DEF ReloadInv, UnreadInv, Holding
  <2> QED
    BY <2>3, <2>5, <2>6, <2>7 DEF LInv
<1> QED
  BY <1>3, <1>4

-------------------------------------------------------------------------------
LEMMA OpStepKeeps == ASSUME LInv, NEW t \in Threads, OpStep(t) PROVE LInv'
<1>1. CASE Refuse(t)
  BY <1>1, RefuseKeeps
<1>2. CASE BeginStop(t)
  BY <1>2, BeginStopKeeps
<1>3. CASE Drained(t)
  BY <1>3, EndStopKeeps DEF Drained
<1>4. CASE GraceExpires(t)
  BY <1>4, EndStopKeeps DEF GraceExpires
<1>5. CASE StartNew(t)
  BY <1>5, StartNewKeeps
<1>6. CASE Restore(t)
  BY <1>6, RestoreKeeps
<1> QED
  BY <1>1, <1>2, <1>3, <1>4, <1>5, <1>6 DEF OpStep

LEMMA NextKeeps == ASSUME LInv, [Next]_vars PROVE LInv'
<1>1. CASE \E n \in Sessions : Serve(n) \/ ServeAfterShutdown(n)
  BY <1>1, ServeKeeps, ServeAfterShutdownKeeps
<1>2. CASE \E t \in Threads : OpStep(t)
  BY <1>2, OpStepKeeps
<1>3. ASSUME NEW r \in Requests,
             \/ GetArrives(r) \/ GetAnswered(r) \/ PostArrives(r) \/ PostSaved(r) \/ PostRefused(r)
      PROVE  LInv'
  <2>1. CASE GetAnswered(r) \/ PostRefused(r)
    BY <2>1, RequestDoneKeeps DEF GetAnswered, PostRefused
  <2> QED
    BY <1>3, <2>1, GetArrivesKeeps, PostArrivesKeeps, PostSavedKeeps
<1>4. CASE \E k \in Sockets : Upgrade(k) \/ PeerCloses(k)
  BY <1>4, SocketKeeps
<1>5. CASE Edit \/ \E a \in Addrs : GrabPort(a)
  BY <1>5, EditKeeps, GrabKeeps
<1>6. CASE UNCHANGED vars
  <2>1. UNCHANGED <<mu, current, sess, owner, file, op, req, socket, grabs>>
    BY <1>6 DEF vars
  <2>2. TypeOK'
    BY <2>1 DEF LInv, TypeOK
  <2> QED
    BY <2>1, <2>2, ArrivalKeeps
<1> QED
  BY <1>1, <1>2, <1>3, <1>4, <1>5, <1>6 DEF Next

LEMMA LInvHolds == Spec => []LInv
<1> QED
  BY InitLInv, NextKeeps, PTL DEF Spec

(* Every variable keeps its type; a session slot is taken only when it is  *)
(* free, which a Reload knows before it stops anything.                    *)
THEOREM LifecycleTypeCorrect == Spec => []TypeOK
<1>1. LInv => TypeOK
  BY DEF LInv
<1> QED
  BY <1>1, LInvHolds, PTL

(* Whenever App.mu is free, the current session is up and alone, on every  *)
(* path through Reload and Stop.                                           *)
THEOREM LifecycleCurrentIsServing == Spec => []CurrentIsServing
<1>1. LInv => CurrentIsServing
  <2> SUFFICES ASSUME LInv, mu = Nobody PROVE CurrentIsServing
    BY DEF CurrentIsServing
  <2>1. current # 0 => /\ current \in Sessions
                       /\ sess[current].state \in Up /\ sess[current].polling
                       /\ owner[sess[current].cfg.addr] = current
    BY BoundsAssumption DEF LInv, TypeOK, CurrentInv, Sessions
  <2>2. \A n \in Sessions \ {current} : ~sess[n].polling /\ sess[n].state \notin Up
    BY DEF LInv, CurrentInv
  <2> QED
    BY <2>1, <2>2 DEF CurrentIsServing
<1> QED
  BY <1>1, LInvHolds, PTL

-------------------------------------------------------------------------------
(* A Reload that goes from starting to idle has started what it read, and  *)
(* what it read is what was last saved, or another reload is armed.        *)
LEMMA StartingEndsInStart ==
    ASSUME LInv, [Next]_vars, NEW t \in Threads, op[t].pc = "starting", op'[t].pc = "idle"
    PROVE  StartNew(t) /\ CanStart(op[t].cfg)
<1>1. mu = t /\ mu # Nobody /\ \A u \in Threads \ {t} : op[u].pc \notin Holding
  BY OneHolder DEF LInv, Holding
<1>2. op' # op
  OBVIOUS
<1>3. ~(\E r \in Requests : PostSaved(r))
  BY DEF PostSaved, LInv, TypeOK, Threads
<1>4. PICK u \in Threads : OpStep(u)
  BY <1>2, <1>3 DEF Next, vars, Serve, ServeAfterShutdown, GetArrives, GetAnswered, PostArrives,
                    PostRefused, Upgrade, PeerCloses, Edit, GrabPort
<1>5. op[u].pc \in Holding
  BY <1>1, <1>4 DEF OpStep, Refuse, BeginStop, Drained, GraceExpires, EndStop, StartNew,
                    Restore, Holding
<1>6. u = t
  BY <1>1, <1>5
<1>7. StartNew(t)
  BY <1>1, <1>4, <1>6 DEF OpStep, Refuse, BeginStop, Drained, GraceExpires, EndStop, Restore
<1> QED
  BY <1>7 DEF StartNew, LInv, TypeOK

(* A reload that succeeds runs the settings last saved, or the reload that *)
(* will run them is armed behind it.                                       *)
THEOREM LifecycleSavedIsApplied == Spec => SavedIsApplied
<1>1. ASSUME LInv, [Next]_vars, NEW t \in Threads, op[t].pc = "starting", op'[t].pc = "idle"
      PROVE  \/ sess'[current'].cfg.look = file'.look
             \/ \E s \in Savers : op'[s].pc = "armed"
  <2>1. StartNew(t) /\ CanStart(op[t].cfg)
    BY <1>1, StartingEndsInStart
  <2>2. t \in Threads \ {Quit} /\ FreeSlots # {} /\ op[t].cfg \in Loaded
    BY <1>1, QuitOnlyDrains
  <2>3. StartSession(op[t].cfg) /\ Finish(t) /\ file' = file
    BY <2>1 DEF StartNew
  <2>4. sess'[current'].cfg = op[t].cfg
    <3>1. TypeOK /\ CanStart(op[t].cfg)
      BY <1>1, <2>1 DEF LInv
    <3>2. sess'[current'] = [state |-> "bound", polling |-> TRUE, cfg |-> op[t].cfg]
      BY <2>2, <2>3, <3>1, StartsFresh
    <3> QED
      BY <3>2
  <2>5. \A u \in Threads \ {t} : op'[u] = op[u]
    BY <1>1, <2>3, FinishTypes DEF LInv
  <2>6. \A s \in Savers : op[s].pc = "armed" => op'[s].pc = "armed"
    BY <1>1, <2>5 DEF Threads
  <2>7. \/ op[t].cfg.look = file.look
        \/ \E s \in Savers : op[s].pc = "armed"
    BY <1>1, <2>2 DEF LInv, UnreadInv
  <2> QED
    BY <2>3, <2>4, <2>6, <2>7
<1>2. ASSUME LInv, [Next]_vars
      PROVE  [\A t \in Threads : (op[t].pc = "starting" /\ op'[t].pc = "idle") =>
                 \/ sess'[current'].cfg.look = file'.look
                 \/ \E s \in Savers : op'[s].pc = "armed"]_vars
  BY <1>1, <1>2
<1> QED
  BY <1>2, LInvHolds, PTL DEF Spec, SavedIsApplied

-------------------------------------------------------------------------------
(* The refinement: one step of the agent is one step of OneAtATime, or     *)
(* changes neither who polls nor the phase.                                *)
LEMMA MapsInit == Init => Abstract!Init
<1> SUFFICES ASSUME Init PROVE Abstract!Init
  OBVIOUS
<1>1. /\ current = 1
      /\ \A n \in Sessions : sess[n].polling = (n = 1)
      /\ op[Quit].pc = "idle"
  BY DEF Init, Threads, IdleOp
<1>2. Polling = {1}
  BY <1>1, SessionNames DEF Polling
<1>3. Phase = "up"
  BY <1>1, <1>2 DEF Phase
<1> QED
  BY <1>2, <1>3, SessionNames DEF Abstract!Init

(* Who polls, and what phase that makes, in a state of the agent.          *)
LEMMA WhoPolls ==
    ASSUME LInv
    PROVE  /\ mu = Nobody => Phase = IF current = 0 THEN "down" ELSE "up"
           /\ current = 0 => Polling = {}
           /\ \A t \in Threads :
                 /\ op[t].pc = "draining" => Phase = "up"
                 /\ op[t].pc \in {"starting", "restoring"} => Phase = "changing" /\ Polling = {}
<1>1. current # 0 => current \in Sessions
  BY BoundsAssumption DEF LInv, TypeOK, Sessions
<1>2. op[Quit].pc = "exited" => current = 0
  BY DEF LInv, LockInv
<1>3. current = 0 => Polling = {}
  BY SessionNames DEF LInv, CurrentInv, Polling
<1>4. mu = Nobody => Phase = IF current = 0 THEN "down" ELSE "up"
  BY <1>1, <1>2 DEF LInv, CurrentInv, Polling, Phase
<1>5. ASSUME NEW t \in Threads, op[t].pc = "draining" PROVE Phase = "up"
  <2>1. current # 0
    BY <1>5, OneHolder DEF LInv, Holding
  <2> QED
    BY <1>1, <1>2, <1>5, <2>1 DEF LInv, CurrentInv, Polling, Phase
<1>6. ASSUME NEW t \in Threads, op[t].pc \in {"starting", "restoring"}
      PROVE  Phase = "changing" /\ Polling = {}
  <2>1. current # 0
    BY <1>6, OneHolder DEF LInv, Holding
  <2>2. Polling = {}
    BY <1>6, <2>1 DEF LInv, CurrentInv, Polling
  <2> QED
    BY <1>2, <2>1, <2>2 DEF Phase
<1> QED
  BY <1>3, <1>4, <1>5, <1>6

LEMMA SamePhase ==
    ASSUME UNCHANGED <<current, op>>, \A n \in Sessions : sess'[n].polling = sess[n].polling
    PROVE  UNCHANGED <<Polling, Phase>>
<1>1. Polling' = Polling
  BY DEF Polling
<1> QED
  BY <1>1 DEF Phase

LEMMA StartMaps ==
    ASSUME LInv, LInv', NEW t \in Threads, op[t].pc \in {"starting", "restoring"},
           FreeSlots # {}, NEW cfg \in Loaded, CanStart(cfg), StartSession(cfg), mu' = Nobody
    PROVE  Abstract!Replace
<1>1. Phase = "changing" /\ Polling = {}
  BY WhoPolls
<1>2. /\ current' \in Sessions
      /\ sess'[current'].polling
      /\ \A n \in Sessions \ {current'} : sess'[n] = sess[n]
  <2>1. TypeOK
    BY DEF LInv
  <2>2. /\ current' \in FreeSlots
        /\ sess'[current'] = [state |-> "bound", polling |-> TRUE, cfg |-> cfg]
        /\ \A n \in Sessions \ {current'} : sess'[n] = sess[n]
    BY <2>1, StartsFresh
  <2> QED
    BY <2>2 DEF FreeSlots
<1>3. Polling' = {current'}
  BY <1>1, <1>2 DEF Polling
<1>4. Phase' = "up"
  <2>1. op'[Quit].pc # "exited"
    BY <1>2, SessionNames DEF LInv, LockInv
  <2> QED
    BY <1>2, <1>3, <2>1, SessionNames DEF Phase
<1> QED
  BY <1>1, <1>2, <1>3, <1>4 DEF Abstract!Replace

LEMMA EndStopMaps ==
    ASSUME LInv, LInv', NEW t \in Threads, EndStop(t) PROVE Abstract!StopPolling
<1> USE DEF EndStop
<1>1. Phase = "up"
  BY WhoPolls
<1>2. current # 0 /\ current \in Sessions /\ mu = t /\ mu # Nobody
  BY OneHolder, BoundsAssumption DEF LInv, Holding, TypeOK, Sessions
<1>3. Polling' = {}
  <2>1. \A n \in Sessions \ {current} : ~sess[n].polling
    BY DEF LInv, CurrentInv
  <2>2. \A n \in Sessions : ~sess'[n].polling
    BY <1>2, <2>1 DEF LInv, TypeOK
  <2> QED
    BY <2>2 DEF Polling
<1>4. Phase' \in {"changing", "down"}
  BY <1>3 DEF Phase
<1> QED
  BY <1>1, <1>3, <1>4 DEF Abstract!StopPolling

LEMMA RefuseMaps ==
    ASSUME LInv, LInv', NEW t \in Threads, Refuse(t) PROVE UNCHANGED <<Polling, Phase>>
<1> USE DEF Refuse
<1>1. Polling' = Polling
  BY DEF Polling
<1>2. mu = Nobody /\ mu' = Nobody /\ current' = current
  OBVIOUS
<1>3. Phase' = (IF current' = 0 THEN "down" ELSE "up")
  <2>1. op'[Quit].pc = "exited" => current' = 0
    BY DEF LInv, LockInv
  <2>2. current' # 0 => current' \in Polling'
    BY <1>2, BoundsAssumption DEF LInv, TypeOK, CurrentInv, Polling, Sessions
  <2> QED
    BY <2>1, <2>2 DEF Phase
<1> QED
  BY <1>1, <1>2, <1>3, WhoPolls

LEMMA BeginStopMaps ==
    ASSUME LInv, LInv', NEW t \in Threads, BeginStop(t) PROVE UNCHANGED <<Polling, Phase>>
<1> USE DEF BeginStop
<1>1. mu = Nobody /\ current' = current /\ current # 0 /\ current \in Sessions
  BY BoundsAssumption DEF LInv, TypeOK, Nothing, Sessions
<1>2. \A n \in Sessions : sess'[n].polling = sess[n].polling
  BY <1>1 DEF CloseListener, LInv, TypeOK
<1>3. Polling' = Polling
  BY <1>2 DEF Polling
<1>4. current \in Polling
  BY <1>1 DEF LInv, CurrentInv, Polling
<1>5. op[Quit].pc # "exited" /\ op'[Quit].pc # "exited"
  BY <1>1 DEF LInv, LockInv
<1> QED
  BY <1>1, <1>3, <1>4, <1>5 DEF Phase

LEMMA OpStepMaps ==
    ASSUME LInv, LInv', NEW t \in Threads, OpStep(t)
    PROVE  Abstract!Next \/ UNCHANGED <<Polling, Phase>>
<1>1. CASE Refuse(t)
  BY <1>1, RefuseMaps
<1>2. CASE BeginStop(t)
  BY <1>2, BeginStopMaps
<1>3. CASE Drained(t) \/ GraceExpires(t)
  BY <1>3, EndStopMaps DEF Drained, GraceExpires, Abstract!Next
<1>4. CASE StartNew(t)
  <2>1. op[t].pc = "starting"
    BY <1>4 DEF StartNew
  <2>2. FreeSlots # {} /\ op[t].cfg \in Loaded
    BY <2>1, QuitOnlyDrains
  <2>3. CASE CanStart(op[t].cfg)
    <3>1. StartSession(op[t].cfg) /\ mu' = Nobody
      BY <1>4, <2>3 DEF StartNew
    <3> QED
      BY <2>1, <2>2, <2>3, <3>1, StartMaps DEF Abstract!Next
  <2>4. CASE ~CanStart(op[t].cfg)
    <3>1. UNCHANGED <<current, sess>> /\ op' = [op EXCEPT ![t].pc = "restoring"]
      BY <1>4, <2>4 DEF StartNew
    <3>2. op'[t].pc = "restoring"
      BY <3>1 DEF LInv, TypeOK
    <3>3. Phase' = "changing" /\ Polling' = {}
      <4>1. current # 0 /\ op'[Quit].pc # "exited"
        BY <2>1, <3>1, OneHolder DEF LInv, LockInv, Holding
      <4>2. Polling' = Polling
        BY <3>1 DEF Polling
      <4> QED
        BY <2>1, <3>1, <4>1, <4>2, WhoPolls DEF Phase
    <3> QED
      BY <2>1, <3>3, WhoPolls
  <2> QED
    BY <2>3, <2>4
<1>5. CASE Restore(t)
  <2>1. op[t].pc = "restoring"
    BY <1>5 DEF Restore
  <2>2. FreeSlots # {}
    BY <2>1, QuitOnlyDrains
  <2>3. CASE CanStart(sess[current].cfg)
    <3>1. StartSession(sess[current].cfg) /\ mu' = Nobody
      BY <1>5, <2>3 DEF Restore
    <3>2. current # 0 /\ current \in Sessions
      BY <2>1, OneHolder, BoundsAssumption DEF LInv, Holding, TypeOK, Sessions
    <3>3. sess[current].cfg \in Loaded
      BY <3>2 DEF LInv, TypeOK, CurrentInv, NoConfig
    <3> QED
      BY <2>1, <2>2, <2>3, <3>1, <3>3, StartMaps DEF Abstract!Next
  <2>4. CASE ~CanStart(sess[current].cfg)
    <3>1. current' = 0 /\ UNCHANGED sess
      BY <1>5, <2>4 DEF Restore
    <3>2. Phase' = "down" /\ Polling' = Polling
      BY <3>1 DEF Phase, Polling
    <3> QED
      BY <2>1, <3>2, WhoPolls DEF Abstract!Next, Abstract!GiveUp
  <2> QED
    BY <2>3, <2>4
<1> QED
  BY <1>1, <1>2, <1>3, <1>4, <1>5 DEF OpStep

LEMMA MapsStep ==
    ASSUME LInv, LInv', [Next]_vars
    PROVE  Abstract!Next \/ UNCHANGED <<Polling, Phase>>
<1>1. CASE \E n \in Sessions : Serve(n) \/ ServeAfterShutdown(n)
  <2>1. UNCHANGED <<current, op>>
    BY <1>1 DEF Serve, ServeAfterShutdown
  <2>2. \A n \in Sessions : sess'[n].polling = sess[n].polling
    BY <1>1 DEF Serve, ServeAfterShutdown, LInv, TypeOK
  <2> QED
    BY <2>1, <2>2, SamePhase
<1>2. CASE \E t \in Threads : OpStep(t)
  BY <1>2, OpStepMaps
<1>3. ASSUME NEW r \in Requests, PostSaved(r)
      PROVE  UNCHANGED <<Polling, Phase>>
  <2>1. PICK t \in Savers : op' = [op EXCEPT ![t].pc = "armed"]
    BY <1>3 DEF PostSaved
  <2>2. UNCHANGED <<current, sess>>
    BY <1>3 DEF PostSaved
  <2>3. op'[Quit] = op[Quit]
    BY <2>1, DistinctAssumption DEF LInv, TypeOK, Threads
  <2> QED
    BY <2>2, <2>3 DEF Polling, Phase
<1>4. CASE \/ \E r \in Requests : GetArrives(r) \/ GetAnswered(r) \/ PostArrives(r) \/ PostRefused(r)
           \/ \E k \in Sockets : Upgrade(k) \/ PeerCloses(k)
           \/ Edit
           \/ \E a \in Addrs : GrabPort(a)
           \/ UNCHANGED vars
  <2>1. UNCHANGED <<current, sess, op>>
    BY <1>4 DEF GetArrives, GetAnswered, PostArrives, PostRefused, Upgrade, PeerCloses, Edit,
                GrabPort, vars
  <2> QED
    BY <2>1, SamePhase
<1> QED
  BY <1>1, <1>2, <1>3, <1>4 DEF Next

(* The agent keeps what OneAtATime promises: no two sessions poll at once, *)
(* and nothing starts after the last session has ended.                    *)
THEOREM LifecycleImplementsOneAtATime == Spec => ImplementsOneAtATime
<1>1. Init => Abstract!Init
  BY MapsInit
<1>2. LInv /\ LInv' /\ [Next]_vars => [Abstract!Next]_<<Polling, Phase>>
  BY MapsStep
<1> QED
  BY <1>1, <1>2, LInvHolds, PTL DEF Spec, ImplementsOneAtATime, Abstract!Spec
===============================================================================
