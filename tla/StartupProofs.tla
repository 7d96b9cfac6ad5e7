----------------------------- MODULE StartupProofs -----------------------------
(***************************************************************************)
(* Proofs about Startup, for every finite number of copies of the program. *)
(***************************************************************************)
EXTENDS Startup, FunctionTheorems, FiniteSetTheorems, TLAPS

CopyRec == [pc : PCs, at : Places, handle : BOOLEAN, token : Tokens \cup {0}]
Serving == {"serving", "saving"}
Found == {"loading", "acquiring", "refused", "starting"} \cup Serving
HasPort == {"serving", "saving", "killed"}

(* A copy past Link or past Resolve has a configuration in its place, and  *)
(* one that serves holds the token that is in it.                          *)
CopyInv(p) ==
    /\ copy[p].pc = "creating" => copy[p].token = 0
    /\ copy[p].pc = "writing" => copy[p].token # 0
    /\ copy[p].pc \in Found => config[copy[p].at].token # 0
    /\ copy[p].pc \in Serving => config[copy[p].at].token = copy[p].token

StartupInv ==
    /\ TypeOK
    /\ \A l \in Places : config[l].whole
    /\ \A p \in Copies : CopyInv(p)

ForLife == \A l \in Places : config[l].token # 0 => config'[l] = config[l]

-------------------------------------------------------------------------------
(* There is always a token left: the copies and the two places cannot use  *)
(* them all, as one of them uses none.                                     *)
LEMMA TokenLeft ==
    ASSUME TypeOK,
           (\E l \in Places : config[l].token = 0) \/ (\E q \in Copies : copy[q].token = 0)
    PROVE  GenerateToken \in Tokens
<1> DEFINE ofCopies == {copy[q].token : q \in Copies}
           ofPlaces == {config["beside"].token} \cup {config["user"].token}
           used == ofCopies \cup ofPlaces
           n == Cardinality(Copies)
<1>1. n \in Nat
  BY CopiesAssumption, FS_CardinalityType
<1>2. IsFiniteSet(ofCopies) /\ Cardinality(ofCopies) <= n
  <2> DEFINE f == [q \in Copies |-> copy[q].token]
  <2>1. f \in Surjection(Copies, ofCopies)
    BY DEF Surjection
  <2> HIDE DEF f
  <2> QED
    BY <2>1, CopiesAssumption, FS_Surjection
<1>3. IsFiniteSet(ofPlaces) /\ Cardinality(ofPlaces) \in Nat /\ Cardinality(ofPlaces) <= 2
  <2>1. /\ IsFiniteSet({config["beside"].token}) /\ Cardinality({config["beside"].token}) = 1
    BY FS_Singleton
  <2> QED
    BY <2>1, FS_AddElement
<1> HIDE DEF ofCopies, ofPlaces
<1>4. IsFiniteSet(used) /\ Cardinality(used) \in Nat /\ Cardinality(used) <= n + 2
  <2>1. /\ IsFiniteSet(used)
        /\ Cardinality(used) = Cardinality(ofCopies) + Cardinality(ofPlaces)
                                - Cardinality(ofCopies \cap ofPlaces)
    BY <1>2, <1>3, FS_Union
  <2>2. /\ IsFiniteSet(ofCopies \cap ofPlaces)
        /\ Cardinality(ofCopies \cap ofPlaces) <= Cardinality(ofCopies)
    <3>1. ofCopies \cap ofPlaces \in SUBSET ofCopies
      OBVIOUS
    <3> QED
      BY <3>1, <1>2, FS_Subset
  <2>3. Cardinality(ofCopies \cap ofPlaces) \in Nat /\ Cardinality(ofCopies) \in Nat
    BY <1>2, <2>2, FS_CardinalityType
  <2> QED
    BY <1>1, <1>2, <1>3, <2>1, <2>2, <2>3
<1>5. 0 \in used
  BY DEF ofCopies, ofPlaces, Places
<1> HIDE DEF used
<1>6. IsFiniteSet(used \ {0}) /\ Cardinality(used \ {0}) = Cardinality(used) - 1
  BY <1>4, <1>5, FS_RemoveElement
<1>7. Cardinality(1..(n + 2)) = n + 2
  BY <1>1, FS_Interval
<1>8. ~(1..(n + 2) \subseteq used \ {0})
  <2> SUFFICES ASSUME 1..(n + 2) \in SUBSET (used \ {0}) PROVE FALSE
    OBVIOUS
  <2>1. Cardinality(1..(n + 2)) <= Cardinality(used \ {0})
    BY <1>6, FS_Subset
  <2> QED
    BY <1>1, <1>4, <1>6, <1>7, <2>1
<1>9. PICK t \in 1..(n + 2) : t \notin used
  BY <1>8
<1>10. /\ t \in Tokens
       /\ \A l \in Places : config[l].token # t
       /\ \A q \in Copies : copy[q].token # t
  BY <1>9 DEF used, ofCopies, ofPlaces, Places, Tokens
<1> QED
  BY <1>10 DEF GenerateToken

LEMMA NoTokenZero == 0 \notin Tokens
  BY DEF Tokens

LEMMA StartupInit == Init => StartupInv
<1> SUFFICES ASSUME Init PROVE StartupInv
  OBVIOUS
<1> USE DEF Init
<1>1. /\ config \in [Places -> [token : Tokens \cup {0}, whole : BOOLEAN]]
      /\ \A l \in Places : config[l].whole
  BY DEF NoConfig
<1>2. copy \in [Copies -> CopyRec] /\ \A p \in Copies : copy[p].pc = "exited"
  BY DEF CopyRec, PCs, Places
<1>3. TypeOK
  BY <1>1, <1>2, OwnersAssumption DEF TypeOK, CopyRec
<1> QED
  BY <1>1, <1>2, <1>3 DEF StartupInv, CopyInv, Serving, Found

-------------------------------------------------------------------------------
(* What a step of p has to show: the record it leaves p in is true of the  *)
(* configurations, and none that exists has changed.                       *)
LEMMA CopyMoves ==
    ASSUME StartupInv, NEW p \in Copies, NEW c \in CopyRec,
           copy' = [copy EXCEPT ![p] = c],
           config' \in [Places -> [token : Tokens \cup {0}, whole : BOOLEAN]],
           \A l \in Places : config'[l].whole, ForLife,
           c.pc = "creating" => c.token = 0,
           c.pc = "writing" => c.token # 0,
           c.pc \in Found => config'[c.at].token # 0,
           c.pc \in Serving => config'[c.at].token = c.token,
           port' = p => c.pc \in HasPort,
           port' \in {p, port, Nobody, Other}, calm' \in BOOLEAN
    PROVE  StartupInv'
<1>1. /\ copy \in [Copies -> CopyRec] /\ port \in Copies \cup {Nobody, Other}
      /\ config \in [Places -> [token : Tokens \cup {0}, whole : BOOLEAN]]
  BY DEF StartupInv, TypeOK, CopyRec
<1>2. copy' \in [Copies -> CopyRec] /\ copy'[p] = c
  BY <1>1
<1>3. \A q \in Copies : q # p => copy'[q] = copy[q]
  BY <1>1
<1>4. port' \in Copies \cup {Nobody, Other}
  BY <1>1
<1>5. ASSUME port' \in Copies PROVE copy'[port'].pc \in HasPort
  <2>1. CASE port' = p
    BY <2>1, <1>2
  <2>2. CASE port' # p
    <3>1. port' = port
      BY <2>2, <1>5, OwnersAssumption
    <3> QED
      BY <3>1, <2>2, <1>3, <1>5 DEF StartupInv, TypeOK, HasPort
  <2> QED
    BY <2>1, <2>2
<1>6. TypeOK'
  BY <1>2, <1>4, <1>5 DEF TypeOK, CopyRec, HasPort
<1>7. ASSUME NEW q \in Copies PROVE CopyInv(q)'
  <2>1. CASE q = p
    BY <2>1, <1>2 DEF CopyInv
  <2>2. CASE q # p
    <3>1. copy'[q] = copy[q] /\ CopyInv(q) /\ copy[q].at \in Places
      BY <2>2, <1>1, <1>3 DEF StartupInv, CopyRec
    <3>2. config[copy[q].at].token # 0 => config'[copy[q].at] = config[copy[q].at]
      BY <3>1 DEF ForLife
    <3> QED
      BY <3>1, <3>2 DEF CopyInv, Serving, Found
  <2> QED
    BY <2>1, <2>2
<1> QED
  BY <1>6, <1>7 DEF StartupInv

(* A step that leaves the configurations alone.                            *)
LEMMA SameConfig ==
    ASSUME StartupInv, config' = config
    PROVE  /\ config' \in [Places -> [token : Tokens \cup {0}, whole : BOOLEAN]]
           /\ \A l \in Places : config'[l].whole
           /\ ForLife
BY DEF StartupInv, TypeOK, ForLife

(* A process that ends, for whatever reason.                               *)
LEMMA CopyEnds ==
    ASSUME StartupInv, NEW p \in Copies, NEW pc \in {"exited", "failed"}, End(p, pc),
           config' = config, port' \in {port, Nobody}, port' # p, calm' \in BOOLEAN
    PROVE  StartupInv' /\ ForLife
<1> DEFINE c == [pc |-> pc, at |-> "user", handle |-> FALSE, token |-> 0]
<1>1. c \in CopyRec /\ c.pc \notin {"creating", "writing"} \cup Found \cup Serving
  BY DEF CopyRec, PCs, Places, Found, Serving
<1>2. copy' = [copy EXCEPT ![p] = c]
  BY DEF End
<1> HIDE DEF c
<1>3. port' \in {p, port, Nobody, Other} /\ (port' = p => c.pc \in HasPort)
  OBVIOUS
<1> QED
  BY <1>1, <1>2, <1>3, SameConfig, CopyMoves

(* A process that goes on in the code, its other fields as they are.       *)
LEMMA CopyGoes ==
    ASSUME StartupInv, NEW p \in Copies, NEW pc \in PCs, Goto(p, pc),
           config' = config, port' \in {port, Nobody}, port' = p => pc \in HasPort,
           calm' \in BOOLEAN,
           pc \notin {"creating", "writing"},
           pc \in Found => copy[p].pc \in Found,
           pc \in Serving => copy[p].pc \in Serving
    PROVE  StartupInv' /\ ForLife
<1> DEFINE c == [copy[p] EXCEPT !.pc = pc]
<1>1. copy \in [Copies -> CopyRec] /\ copy[p] \in CopyRec
  BY DEF StartupInv, TypeOK, CopyRec
<1>2. c \in CopyRec /\ c.pc = pc /\ c.at = copy[p].at /\ c.token = copy[p].token
  BY <1>1 DEF CopyRec
<1>3. copy' = [copy EXCEPT ![p] = c]
  BY <1>1 DEF Goto
<1> HIDE DEF c
<1>4. CopyInv(p)
  BY DEF StartupInv
<1>5. /\ c.pc \in Found => config'[c.at].token # 0
      /\ c.pc \in Serving => config'[c.at].token = c.token
  BY <1>2, <1>4 DEF CopyInv
<1>6. port' \in {p, port, Nobody, Other}
  OBVIOUS
<1> QED
  BY <1>2, <1>3, <1>5, <1>6, SameConfig, CopyMoves

-------------------------------------------------------------------------------
(* The steps that write a configuration.                                   *)
LEMMA LinkStep ==
    ASSUME StartupInv, NEW p \in Copies, Link(p)
    PROVE  StartupInv' /\ ForLife
<1> DEFINE c == [copy[p] EXCEPT !.pc = "loading", !.token = 0]
           l == copy[p].at
           new == [token |-> copy[p].token, whole |-> TRUE]
<1>1. /\ copy \in [Copies -> CopyRec] /\ copy[p] \in CopyRec /\ l \in Places
      /\ config \in [Places -> [token : Tokens \cup {0}, whole : BOOLEAN]]
      /\ port \in Copies => copy[port].pc \in HasPort
  BY DEF StartupInv, TypeOK, CopyRec, HasPort
<1>2. c \in CopyRec /\ c.pc = "loading" /\ c.at = l
  BY <1>1 DEF CopyRec, PCs, Alive
<1>3. copy' = [copy EXCEPT ![p] = c]
  BY <1>1 DEF Link
<1>4. new \in [token : Tokens \cup {0}, whole : BOOLEAN] /\ new.whole /\ new.token # 0
  BY <1>1 DEF CopyRec, Link, StartupInv, CopyInv
<1>5. port' = port /\ calm' = calm /\ copy[p].pc = "writing"
  BY DEF Link
<1>6. port' # p /\ calm' \in BOOLEAN
  BY <1>1, <1>5 DEF HasPort, StartupInv, TypeOK
<1> HIDE DEF c
<1>7. CASE config[l].token # 0
  <2>1. config' = config
    BY <1>7 DEF Link, Exists
  <2>2. c.pc \in Found => config'[c.at].token # 0
    BY <1>2, <1>7, <2>1
  <2> QED
    BY <1>2, <1>3, <1>5, <1>6, <2>1, <2>2, SameConfig, CopyMoves DEF Serving
<1>8. CASE config[l].token = 0
  <2>1. config' = [config EXCEPT ![l] = new]
    BY <1>8 DEF Link, Exists
  <2> HIDE DEF new, l
  <2>2. config' \in [Places -> [token : Tokens \cup {0}, whole : BOOLEAN]]
    BY <1>1, <1>4, <2>1
  <2>3. config'[l] = new /\ \A m \in Places : m # l => config'[m] = config[m]
    BY <1>1, <2>1
  <2>4. \A m \in Places : config'[m].whole
    BY <1>4, <2>3 DEF StartupInv
  <2>5. ForLife
    BY <1>8, <2>3 DEF ForLife
  <2>6. c.pc \in Found => config'[c.at].token # 0
    BY <1>2, <1>4, <2>3
  <2> QED
    BY <1>2, <1>3, <1>5, <1>6, <2>2, <2>4, <2>5, <2>6, CopyMoves DEF Serving
<1> QED
  BY <1>7, <1>8

(* A settings change writes the token the copy serves, which is the one    *)
(* that is there.                                                          *)
LEMMA SaveRenameStep ==
    ASSUME StartupInv, NEW p \in Copies, SaveRename(p)
    PROVE  StartupInv' /\ ForLife
<1>1. /\ copy[p] \in CopyRec /\ copy[p].at \in Places /\ copy[p].pc = "saving"
      /\ config \in [Places -> [token : Tokens \cup {0}, whole : BOOLEAN]]
      /\ calm \in BOOLEAN
  BY DEF StartupInv, TypeOK, CopyRec, SaveRename
<1>2. config[copy[p].at] = [token |-> copy[p].token, whole |-> TRUE]
  <2>1. /\ config[copy[p].at].token = copy[p].token /\ config[copy[p].at].whole = TRUE
        /\ config[copy[p].at] \in [token : Tokens \cup {0}, whole : BOOLEAN]
    BY <1>1 DEF StartupInv, CopyInv, Serving
  <2> QED
    BY <2>1
<1>3. config' = config
  BY <1>1, <1>2 DEF SaveRename
<1>4. Goto(p, "serving") /\ port' = port /\ calm' = calm
  BY DEF SaveRename
<1> QED
  BY <1>1, <1>3, <1>4, CopyGoes DEF PCs, Alive, Found, Serving, HasPort

LEMMA PlaceConfigStep ==
    ASSUME StartupInv, PlaceConfig
    PROVE  StartupInv' /\ ForLife
<1> DEFINE new == [token |-> GenerateToken, whole |-> TRUE]
<1>1. config["beside"].token = 0 /\ "beside" \in Places
  BY DEF PlaceConfig, Exists, Places
<1>2. GenerateToken \in Tokens
  BY <1>1, TokenLeft DEF StartupInv
<1>3. new \in [token : Tokens \cup {0}, whole : BOOLEAN] /\ new.whole
  BY <1>2
<1>4. config' = [config EXCEPT !["beside"] = new]
  BY DEF PlaceConfig
<1> HIDE DEF new
<1>5. config \in [Places -> [token : Tokens \cup {0}, whole : BOOLEAN]]
  BY DEF StartupInv, TypeOK
<1>6. config' \in [Places -> [token : Tokens \cup {0}, whole : BOOLEAN]]
  BY <1>3, <1>4, <1>5
<1>7. config'["beside"] = new /\ \A m \in Places : m # "beside" => config'[m] = config[m]
  BY <1>1, <1>4, <1>5
<1>8. \A m \in Places : config'[m].whole
  BY <1>3, <1>7 DEF StartupInv
<1>9. ForLife
  BY <1>1, <1>7 DEF ForLife
<1>10. copy' = copy /\ port' = port /\ calm' = FALSE
  BY DEF PlaceConfig
<1>11. TypeOK'
  BY <1>6, <1>10 DEF StartupInv, TypeOK
<1>12. ASSUME NEW q \in Copies PROVE CopyInv(q)'
  <2>1. CopyInv(q) /\ copy[q].at \in Places
    BY DEF StartupInv, TypeOK
  <2>2. config[copy[q].at].token # 0 => config'[copy[q].at] = config[copy[q].at]
    BY <1>9, <2>1 DEF ForLife
  <2> QED
    BY <1>10, <2>1, <2>2 DEF CopyInv, Serving, Found
<1> QED
  BY <1>8, <1>9, <1>11, <1>12 DEF StartupInv

-------------------------------------------------------------------------------
(* The steps that give the copy more than a place in the code.             *)
LEMMA StartStep ==
    ASSUME StartupInv, NEW p \in Copies, Start(p)
    PROVE  StartupInv' /\ ForLife
<1> DEFINE c == [pc |-> IF Exists(Resolve) THEN "loading" ELSE "creating",
                 at |-> Resolve, handle |-> FALSE, token |-> 0]
<1>1. Resolve \in Places
  BY DEF Resolve, Places
<1>2. /\ c \in CopyRec /\ c.token = 0 /\ c.at = Resolve /\ c.pc \in {"loading", "creating"}
      /\ c.pc = "loading" => config[Resolve].token # 0
  BY <1>1 DEF CopyRec, PCs, Alive, Exists
<1>3. copy' = [copy EXCEPT ![p] = c] /\ config' = config /\ port' = port /\ calm' = calm
  BY DEF Start
<1>4. copy[p].pc \in {"exited", "failed"}
  BY DEF Start
<1> HIDE DEF c
<1>5. port' # p /\ calm' \in BOOLEAN
  BY <1>3, <1>4 DEF StartupInv, TypeOK
<1>6. /\ c.pc # "writing" /\ c.pc \notin Serving
      /\ c.pc \in Found => config'[c.at].token # 0
  BY <1>2, <1>3 DEF Serving, Found
<1> QED
  BY <1>2, <1>3, <1>5, <1>6, SameConfig, CopyMoves

LEMMA WriteTempStep ==
    ASSUME StartupInv, NEW p \in Copies, WriteTemp(p)
    PROVE  StartupInv' /\ ForLife
<1> DEFINE c == [copy[p] EXCEPT !.pc = "writing", !.token = GenerateToken]
<1>1. copy \in [Copies -> CopyRec] /\ copy[p] \in CopyRec
  BY DEF StartupInv, TypeOK, CopyRec
<1>2. copy[p].pc = "creating" /\ config' = config /\ port' = port /\ calm' = calm
  BY DEF WriteTemp
<1>3. copy[p].token = 0
  BY <1>2 DEF StartupInv, CopyInv
<1>4. GenerateToken \in Tokens
  BY <1>3, TokenLeft DEF StartupInv
<1>5. c \in CopyRec /\ c.pc = "writing" /\ c.token # 0
  BY <1>1, <1>4, NoTokenZero DEF CopyRec, PCs, Alive
<1>6. copy' = [copy EXCEPT ![p] = c]
  BY <1>1 DEF WriteTemp
<1> HIDE DEF c
<1>7. port' # p /\ calm' \in BOOLEAN
  BY <1>2 DEF StartupInv, TypeOK
<1>8. c.pc # "creating" /\ c.pc \notin Serving /\ c.pc \notin Found
  BY <1>5 DEF Serving, Found
<1> QED
  BY <1>2, <1>5, <1>6, <1>7, <1>8, SameConfig, CopyMoves

LEMMA AcquireStep ==
    ASSUME StartupInv, NEW p \in Copies, Acquire(p)
    PROVE  StartupInv' /\ ForLife
<1> DEFINE pc == IF MutexExists(copy[p].at) THEN "refused" ELSE "starting"
           c == [copy[p] EXCEPT !.handle = TRUE, !.pc = pc]
<1>1. copy \in [Copies -> CopyRec] /\ copy[p] \in CopyRec
  BY DEF StartupInv, TypeOK, CopyRec
<1>2. copy[p].pc = "acquiring" /\ config' = config /\ port' = port /\ calm' = calm
  BY DEF Acquire
<1>3. pc \in {"refused", "starting"}
  OBVIOUS
<1>4. copy' = [copy EXCEPT ![p] = c]
  BY <1>1 DEF Acquire
<1> HIDE DEF pc
<1>5. c \in CopyRec /\ c.pc = pc /\ c.at = copy[p].at
  BY <1>1, <1>3 DEF CopyRec, PCs, Alive
<1> HIDE DEF c
<1>6. config[copy[p].at].token # 0
  BY <1>2 DEF StartupInv, CopyInv, Found
<1>7. port' # p /\ calm' \in BOOLEAN
  BY <1>2 DEF StartupInv, TypeOK
<1>8. /\ c.pc # "creating" /\ c.pc # "writing" /\ c.pc \notin Serving
      /\ config'[c.at].token # 0
  BY <1>2, <1>3, <1>5, <1>6 DEF Serving
<1> QED
  BY <1>2, <1>4, <1>5, <1>7, <1>8, SameConfig, CopyMoves

LEMMA AppStartStep ==
    ASSUME StartupInv, NEW p \in Copies, AppStart(p)
    PROVE  StartupInv' /\ ForLife
<1> DEFINE c == [copy[p] EXCEPT !.pc = "serving", !.token = Mine(p).token]
<1>1. copy \in [Copies -> CopyRec] /\ copy[p] \in CopyRec
  BY DEF StartupInv, TypeOK, CopyRec
<1>2. copy[p].pc = "starting" /\ config' = config /\ calm' = calm /\ calm' \in BOOLEAN
  BY DEF AppStart, StartupInv, TypeOK
<1>3. port # p
  BY <1>2 DEF StartupInv, TypeOK
<1>4. CASE End(p, "failed") /\ UNCHANGED port
  BY <1>2, <1>3, <1>4, CopyEnds
<1>5. CASE copy' = [copy EXCEPT ![p].pc = "serving", ![p].token = Mine(p).token] /\ port' = p
  <2>1. copy' = [copy EXCEPT ![p] = c]
    BY <1>1, <1>5
  <2>2. config[copy[p].at] \in [token : Tokens \cup {0}, whole : BOOLEAN]
    BY <1>1 DEF StartupInv, TypeOK, CopyRec
  <2>3. c \in CopyRec /\ c.pc = "serving" /\ c.at = copy[p].at /\ c.token = config[c.at].token
    BY <1>1, <2>2 DEF Mine, CopyRec, PCs, Alive
  <2> HIDE DEF c
  <2>4. config[copy[p].at].token # 0
    BY <1>2 DEF StartupInv, CopyInv, Found
  <2>5. c.pc \in HasPort /\ port' \in {p, port, Nobody, Other}
    BY <1>5, <2>3 DEF HasPort
  <2>6. config'[c.at].token # 0 /\ config'[c.at].token = c.token
    BY <1>2, <2>3, <2>4
  <2>7. c.pc # "creating" /\ c.pc # "writing"
    BY <2>3
  <2> QED
    BY <1>2, <2>1, <2>3, <2>5, <2>6, <2>7, SameConfig, CopyMoves
<1> QED
  BY <1>4, <1>5 DEF AppStart

LEMMA KillStep ==
    ASSUME StartupInv, NEW p \in Copies, Kill(p)
    PROVE  StartupInv' /\ ForLife
<1> DEFINE c == [copy[p] EXCEPT !.pc = "killed", !.token = 0]
<1>1. copy \in [Copies -> CopyRec] /\ copy[p] \in CopyRec
  BY DEF StartupInv, TypeOK, CopyRec
<1>2. config' = config /\ port' = port /\ calm' \in BOOLEAN
  BY DEF Kill
<1>3. CASE (copy[p].handle \/ port = p) /\ copy' = [copy EXCEPT ![p].pc = "killed", ![p].token = 0]
  <2>1. copy' = [copy EXCEPT ![p] = c]
    BY <1>1, <1>3
  <2>2. c \in CopyRec /\ c.pc = "killed"
    BY <1>1 DEF CopyRec, PCs
  <2> HIDE DEF c
  <2> QED
    BY <1>2, <2>1, <2>2, SameConfig, CopyMoves DEF Serving, Found, HasPort
<1>4. CASE port # p /\ End(p, "exited")
  BY <1>2, <1>4, CopyEnds
<1> QED
  BY <1>3, <1>4 DEF Kill

LEMMA TakeBackStep ==
    ASSUME StartupInv, NEW p \in Copies, TakeBack(p)
    PROVE  StartupInv' /\ ForLife
<1> DEFINE c == [copy[p] EXCEPT !.handle = FALSE]
<1>1. copy \in [Copies -> CopyRec] /\ copy[p] \in CopyRec
  BY DEF StartupInv, TypeOK, CopyRec
<1>2. /\ copy[p].pc = "killed" /\ config' = config /\ calm' = calm /\ calm' \in BOOLEAN
  BY DEF TakeBack, StartupInv, TypeOK
<1>3. CASE port' # p /\ port' \in {port, Nobody} /\ End(p, "exited")
  BY <1>2, <1>3, CopyEnds
<1>4. CASE port' = port /\ copy' = [copy EXCEPT ![p].handle = FALSE]
  <2>1. copy' = [copy EXCEPT ![p] = c]
    BY <1>1, <1>4
  <2>2. c \in CopyRec /\ c.pc = "killed"
    BY <1>1, <1>2 DEF CopyRec
  <2> HIDE DEF c
  <2> QED
    BY <1>2, <1>4, <2>1, <2>2, SameConfig, CopyMoves DEF Serving, Found, HasPort
<1>5. CASE port = p /\ port' = Nobody /\ copy' = copy
  <2>1. copy' = [copy EXCEPT ![p] = copy[p]]
    BY <1>1, <1>5
  <2> QED
    BY <1>1, <1>2, <1>5, <2>1, SameConfig, CopyMoves DEF Serving, Found, HasPort
<1>6. p # Nobody
  BY OwnersAssumption
<1> QED
  BY <1>3, <1>4, <1>5, <1>6 DEF TakeBack

LEMMA StartupStep ==
    ASSUME StartupInv, [Next]_vars
    PROVE  StartupInv' /\ ForLife
<1>1. \A q \in Copies : port = q => copy[q].pc \in HasPort
  BY DEF StartupInv, TypeOK, HasPort
<1>2. calm \in BOOLEAN
  BY DEF StartupInv, TypeOK
<1>3. ASSUME NEW p \in Copies, Load(p) PROVE StartupInv' /\ ForLife
  <2>1. /\ copy[p].pc = "loading" /\ config' = config /\ port' = port /\ calm' = calm
        /\ Goto(p, "acquiring") \/ End(p, "failed")
    BY <1>3 DEF Load
  <2>2. port' # p
    BY <1>1, <2>1 DEF HasPort
  <2> QED
    BY <1>2, <2>1, <2>2, CopyEnds, CopyGoes DEF PCs, Alive, Found, Serving
<1>4. ASSUME NEW p \in Copies, AcquireError(p) PROVE StartupInv' /\ ForLife
  <2>1. /\ copy[p].pc = "acquiring" /\ config' = config /\ port' = port /\ calm' = calm
        /\ Goto(p, "starting")
    BY <1>4 DEF AcquireError
  <2>2. port' # p
    BY <1>1, <2>1 DEF HasPort
  <2> QED
    BY <1>2, <2>1, <2>2, CopyGoes DEF PCs, Alive, Found, Serving
<1>5. ASSUME NEW p \in Copies, ExitSecond(p) \/ WriteFails(p) PROVE StartupInv' /\ ForLife
  <2>1. /\ copy[p].pc \in {"refused", "creating"} /\ config' = config /\ port' = port
        /\ calm' \in BOOLEAN /\ (End(p, "exited") \/ End(p, "failed"))
    BY <1>2, <1>5 DEF ExitSecond, WriteFails
  <2>2. port' # p
    BY <1>1, <2>1 DEF HasPort
  <2> QED
    BY <2>1, <2>2, CopyEnds
<1>6. ASSUME NEW p \in Copies, SaveTemp(p) PROVE StartupInv' /\ ForLife
  BY <1>2, <1>6, CopyGoes DEF SaveTemp, PCs, Alive, Found, Serving, HasPort
<1>7. ASSUME NEW p \in Copies, Finish(p) PROVE StartupInv' /\ ForLife
  <2>1. p # Nobody
    BY OwnersAssumption
  <2>2. /\ Goto(p, "stopped") /\ port' = Nobody /\ config' = config /\ calm' \in BOOLEAN
        /\ "stopped" \in PCs
    BY <1>7 DEF Finish, PCs, Alive
  <2>3. "stopped" \notin Found /\ "stopped" \notin Serving
    BY DEF Found, Serving
  <2> QED
    BY <2>1, <2>2, <2>3, CopyGoes
<1>8. ASSUME NEW p \in Copies, Release(p) PROVE StartupInv' /\ ForLife
  <2>1. /\ End(p, "exited") /\ config' = config /\ calm' = calm /\ copy[p].pc = "stopped"
        /\ port' \in {port, Nobody}
    BY <1>8 DEF Release
  <2>2. port' # p
    BY <1>1, <1>8, <2>1, OwnersAssumption DEF Release, HasPort
  <2> QED
    BY <1>2, <2>1, <2>2, CopyEnds
<1>9. CASE OtherPort \/ UNCHANGED vars
  <2>1. /\ copy' = copy /\ config' = config /\ calm' \in BOOLEAN
        /\ port' = port \/ port' \in {Nobody, Other}
    BY <1>2, <1>9 DEF OtherPort, vars
  <2>2. TypeOK'
    BY <2>1, OwnersAssumption DEF StartupInv, TypeOK
  <2> QED
    BY <2>1, <2>2, SameConfig DEF StartupInv, CopyInv
<1>10. ASSUME NEW p \in Copies, Step(p) PROVE StartupInv' /\ ForLife
  BY <1>3, <1>4, <1>5, <1>8, <1>10, WriteTempStep, LinkStep, AcquireStep, AppStartStep,
     SaveRenameStep, TakeBackStep DEF Step
<1> QED
  BY <1>5, <1>6, <1>7, <1>9, <1>10, StartStep, KillStep, PlaceConfigStep DEF Next

-------------------------------------------------------------------------------
(* The variables have their types, and the port of a copy belongs to one   *)
(* that serves, or that was killed and has not been cleaned up after.      *)
THEOREM StartupTypeCorrect == Spec => []TypeOK
<1>1. Init => StartupInv
  BY StartupInit
<1>2. StartupInv /\ [Next]_vars => StartupInv'
  BY StartupStep
<1>3. StartupInv => TypeOK
  BY DEF StartupInv
<1> QED
  BY <1>1, <1>2, <1>3, PTL DEF Spec

(* A configuration that exists stays as it is, and with it the token: not  *)
(* only is it created once, what a serving copy saves is what it read.     *)
THEOREM StartupConfigForLife == Spec => ConfigForLife
<1>1. Init => StartupInv
  BY StartupInit
<1>2. StartupInv /\ [Next]_vars => StartupInv'
  BY StartupStep
<1>3. StartupInv /\ [Next]_vars
          => [\A l \in Places : Exists(l) => config'[l] = config[l]]_vars
  BY StartupStep DEF ForLife, Exists
<1> QED
  BY <1>1, <1>2, <1>3, PTL DEF Spec, ConfigForLife

-------------------------------------------------------------------------------
(* The named mutex: whoever has a handle got past Acquire, and of those    *)
(* that hold one of the same configuration at most one went on; the others *)
(* were refused, or killed.                                                *)
Past == {"starting", "serving", "saving", "stopped"}
LockInv ==
    /\ \A p \in Copies : copy[p].handle => copy[p].pc \in Past \cup {"refused", "killed"}
    /\ \A p, q \in Copies :
          /\ copy[p].handle /\ copy[p].pc \in Past
          /\ copy[q].handle /\ copy[q].pc \in Past
          /\ copy[p].at = copy[q].at
          => p = q

(* What a step of p has to show: it leaves p without a handle, or off the  *)
(* way, or where it was on it, or first at it.                             *)
LEMMA LockMoves ==
    ASSUME StartupInv, LockInv, NEW p \in Copies, NEW c,
           copy' = [copy EXCEPT ![p] = c],
           c.handle => c.pc \in Past \cup {"refused", "killed"},
           c.handle /\ c.pc \in Past =>
              \/ copy[p].handle /\ copy[p].pc \in Past /\ copy[p].at = c.at
              \/ ~MutexExists(c.at)
    PROVE  LockInv'
<1>1. copy'[p] = c /\ \A q \in Copies : q # p => copy'[q] = copy[q]
  BY DEF StartupInv, TypeOK
<1>2. ASSUME NEW q \in Copies, q # p, copy[q].handle, copy[q].pc \in Past,
             c.handle, c.pc \in Past, c.at = copy[q].at
      PROVE  FALSE
  <2>1. MutexExists(c.at)
    BY <1>2 DEF MutexExists
  <2> QED
    BY <1>2, <2>1 DEF LockInv
<1>3. ASSUME NEW q \in Copies, copy'[q].handle PROVE copy'[q].pc \in Past \cup {"refused", "killed"}
  BY <1>1, <1>3 DEF LockInv
<1>4. ASSUME NEW r \in Copies, NEW q \in Copies,
             copy'[r].handle, copy'[r].pc \in Past, copy'[q].handle, copy'[q].pc \in Past,
             copy'[r].at = copy'[q].at
      PROVE  r = q
  <2>1. CASE r = p /\ q # p
    BY <1>1, <1>2, <1>4, <2>1
  <2>2. CASE q = p /\ r # p
    BY <1>1, <1>2, <1>4, <2>2
  <2>3. CASE q # p /\ r # p
    BY <1>1, <1>4, <2>3 DEF LockInv
  <2> QED
    BY <2>1, <2>2, <2>3
<1> QED
  BY <1>3, <1>4 DEF LockInv

LEMMA LockEnds ==
    ASSUME StartupInv, LockInv, NEW p \in Copies, NEW pc, End(p, pc) PROVE LockInv'
<1> DEFINE c == [pc |-> pc, at |-> "user", handle |-> FALSE, token |-> 0]
<1>1. copy' = [copy EXCEPT ![p] = c] /\ ~c.handle
  BY DEF End
<1> HIDE DEF c
<1> QED
  BY <1>1, LockMoves

(* A step that leaves the handle and the place alone.                      *)
LEMMA LockGoes ==
    ASSUME StartupInv, LockInv, NEW p \in Copies, NEW c,
           copy' = [copy EXCEPT ![p] = c],
           c.handle = copy[p].handle, c.at = copy[p].at,
           \/ ~copy[p].handle
           \/ copy[p].pc \in Past /\ c.pc \in Past
           \/ c.pc \in {"refused", "killed"}
    PROVE  LockInv'
<1>1. c.handle => c.pc \in Past \cup {"refused", "killed"}
  OBVIOUS
<1>2. c.handle /\ c.pc \in Past => copy[p].handle /\ copy[p].pc \in Past /\ copy[p].at = c.at
  BY DEF Past
<1> QED
  BY <1>1, <1>2, LockMoves

LEMMA LockStep == ASSUME StartupInv, LockInv, [Next]_vars PROVE LockInv'
<1>1. copy \in [Copies -> CopyRec] /\ \A p \in Copies : copy[p] \in CopyRec
  BY DEF StartupInv, TypeOK, CopyRec
<1>2. ASSUME NEW p \in Copies, NEW pc, Goto(p, pc),
             ~copy[p].handle \/ (copy[p].pc \in Past /\ pc \in Past)
      PROVE  LockInv'
  <2> DEFINE c == [copy[p] EXCEPT !.pc = pc]
  <2>1. copy' = [copy EXCEPT ![p] = c]
    BY <1>1, <1>2 DEF Goto
  <2>2. c.pc = pc /\ c.handle = copy[p].handle /\ c.at = copy[p].at
    BY <1>1 DEF CopyRec
  <2> HIDE DEF c
  <2> QED
    BY <1>2, <2>1, <2>2, LockGoes
<1>3. \A p \in Copies : copy[p].pc \in {"writing", "loading", "acquiring", "creating", "exited", "failed"}
                           => ~copy[p].handle
  BY DEF LockInv, Past
<1>4. ASSUME NEW p \in Copies, Start(p) PROVE LockInv'
  <2> DEFINE c == [pc |-> IF Exists(Resolve) THEN "loading" ELSE "creating",
                   at |-> Resolve, handle |-> FALSE, token |-> 0]
  <2>1. copy' = [copy EXCEPT ![p] = c] /\ ~c.handle
    BY <1>4 DEF Start
  <2> HIDE DEF c
  <2> QED
    BY <2>1, LockMoves
<1>5. ASSUME NEW p \in Copies, WriteTemp(p) PROVE LockInv'
  <2> DEFINE c == [copy[p] EXCEPT !.pc = "writing", !.token = GenerateToken]
  <2>1. copy' = [copy EXCEPT ![p] = c] /\ copy[p].pc = "creating"
    BY <1>1, <1>5 DEF WriteTemp
  <2>2. c.handle = copy[p].handle /\ c.at = copy[p].at
    BY <1>1 DEF CopyRec
  <2> HIDE DEF c
  <2> QED
    BY <1>3, <2>1, <2>2, LockGoes
<1>6. ASSUME NEW p \in Copies, Link(p) PROVE LockInv'
  <2> DEFINE c == [copy[p] EXCEPT !.pc = "loading", !.token = 0]
  <2>1. copy' = [copy EXCEPT ![p] = c] /\ copy[p].pc = "writing"
    BY <1>1, <1>6 DEF Link
  <2>2. c.handle = copy[p].handle /\ c.at = copy[p].at
    BY <1>1 DEF CopyRec
  <2> HIDE DEF c
  <2> QED
    BY <1>3, <2>1, <2>2, LockGoes
<1>7. ASSUME NEW p \in Copies, Load(p) PROVE LockInv'
  BY <1>2, <1>3, <1>7, LockEnds DEF Load
<1>8. ASSUME NEW p \in Copies, Acquire(p) PROVE LockInv'
  <2> DEFINE pc == IF MutexExists(copy[p].at) THEN "refused" ELSE "starting"
             c == [copy[p] EXCEPT !.handle = TRUE, !.pc = pc]
  <2>1. copy' = [copy EXCEPT ![p] = c]
    BY <1>1, <1>8 DEF Acquire
  <2>2. /\ pc \in {"refused", "starting"}
        /\ pc \in Past => ~MutexExists(copy[p].at)
    BY DEF Past
  <2> HIDE DEF pc
  <2>3. c.pc = pc /\ c.at = copy[p].at
    BY <1>1 DEF CopyRec
  <2> HIDE DEF c
  <2> QED
    BY <2>1, <2>2, <2>3, LockMoves DEF Past
<1>9. ASSUME NEW p \in Copies, AcquireError(p) PROVE LockInv'
  BY <1>2, <1>3, <1>9 DEF AcquireError
<1>10. ASSUME NEW p \in Copies, ExitSecond(p) \/ WriteFails(p) \/ Release(p) PROVE LockInv'
  BY <1>10, LockEnds DEF ExitSecond, WriteFails, Release
<1>11. ASSUME NEW p \in Copies, AppStart(p) PROVE LockInv'
  <2> DEFINE c == [copy[p] EXCEPT !.pc = "serving", !.token = Mine(p).token]
  <2>1. CASE copy' = [copy EXCEPT ![p].pc = "serving", ![p].token = Mine(p).token]
    <3>1. copy' = [copy EXCEPT ![p] = c] /\ copy[p].pc = "starting"
      BY <1>1, <1>11, <2>1 DEF AppStart
    <3>2. c.handle = copy[p].handle /\ c.at = copy[p].at /\ c.pc = "serving"
      BY <1>1 DEF CopyRec
    <3> HIDE DEF c
    <3> QED
      BY <3>1, <3>2, LockGoes DEF Past
  <2> QED
    BY <1>11, <2>1, LockEnds DEF AppStart
<1>12. ASSUME NEW p \in Copies, SaveTemp(p) \/ SaveRename(p) \/ Finish(p) PROVE LockInv'
  BY <1>2, <1>12 DEF SaveTemp, SaveRename, Finish, Past
<1>13. ASSUME NEW p \in Copies, Kill(p) PROVE LockInv'
  <2> DEFINE c == [copy[p] EXCEPT !.pc = "killed", !.token = 0]
  <2>1. CASE copy' = [copy EXCEPT ![p].pc = "killed", ![p].token = 0]
    <3>1. copy' = [copy EXCEPT ![p] = c]
      BY <1>1, <2>1
    <3>2. c.handle = copy[p].handle /\ c.at = copy[p].at /\ c.pc = "killed"
      BY <1>1 DEF CopyRec
    <3> HIDE DEF c
    <3> QED
      BY <3>1, <3>2, LockGoes
  <2> QED
    BY <1>13, <2>1, LockEnds DEF Kill
<1>14. ASSUME UNCHANGED copy PROVE LockInv'
  BY <1>14 DEF LockInv
<1>15. ASSUME NEW p \in Copies, TakeBack(p) PROVE LockInv'
  <2> DEFINE c == [copy[p] EXCEPT !.handle = FALSE]
  <2>1. CASE copy' = [copy EXCEPT ![p].handle = FALSE]
    <3>1. copy' = [copy EXCEPT ![p] = c] /\ ~c.handle
      BY <1>1, <2>1 DEF CopyRec
    <3> HIDE DEF c
    <3> QED
      BY <3>1, LockMoves
  <2> QED
    BY <1>14, <1>15, <2>1, LockEnds DEF TakeBack
<1>16. ASSUME NEW p \in Copies, Step(p) PROVE LockInv'
  BY <1>5, <1>6, <1>7, <1>8, <1>9, <1>10, <1>11, <1>12, <1>15, <1>16 DEF Step
<1>17. CASE PlaceConfig \/ OtherPort \/ UNCHANGED vars
  BY <1>14, <1>17 DEF PlaceConfig, OtherPort, vars
<1> QED
  BY <1>4, <1>10, <1>12, <1>13, <1>16, <1>17 DEF Next

(* Where a copy fails, by the step it fails in.                            *)
Cause(p) ==
    \/ copy[p].pc = "creating"
    \/ /\ copy[p].pc = "starting"
       /\ \/ port = Other
          \/ port \in Copies /\ \/ copy[port].pc = "killed"
                                \/ copy[port].at # copy[p].at
                                \/ ~copy[p].handle
                                \/ /\ ~copy[port].handle
                                   /\ copy[port].pc \in {"serving", "saving"}

LEMMA BindFailsForCause ==
    ASSUME StartupInv, LockInv, NEW p \in Copies, copy[p].pc = "starting", port # Nobody
    PROVE  Cause(p)
<1>1. port \in Copies \cup {Other} /\ (port \in Copies => copy[port].pc \in HasPort)
  BY DEF StartupInv, TypeOK, HasPort
<1>2. ASSUME port \in Copies, copy[port].pc \in {"serving", "saving"},
             copy[port].at = copy[p].at, copy[p].handle
      PROVE  ~copy[port].handle
  <2>1. port # p
    BY <1>2
  <2> QED
    BY <1>2, <2>1 DEF LockInv, Past
<1> QED
  BY <1>1, <1>2 DEF Cause, HasPort

(* The step in which a copy fails is one of that copy.                     *)
LEMMA FailingStep ==
    ASSUME StartupInv, Next, NEW p \in Copies, copy[p].pc # "failed", copy'[p].pc = "failed"
    PROVE  WriteFails(p) \/ (Load(p) /\ End(p, "failed")) \/ (AppStart(p) /\ End(p, "failed"))
<1>1. copy \in [Copies -> CopyRec] /\ \A q \in Copies : copy[q] \in CopyRec
  BY DEF StartupInv, TypeOK, CopyRec
<1>2. ASSUME NEW q \in Copies, NEW c, copy' = [copy EXCEPT ![q] = c], c.pc # "failed"
      PROVE  FALSE
  BY <1>1, <1>2
<1>3. ASSUME NEW q \in Copies, NEW pc, Goto(q, pc), pc # "failed" PROVE FALSE
  <2>1. copy' = [copy EXCEPT ![q] = [copy[q] EXCEPT !.pc = pc]]
    BY <1>1, <1>3 DEF Goto
  <2>2. [copy[q] EXCEPT !.pc = pc].pc = pc
    BY <1>1 DEF CopyRec
  <2> QED
    BY <1>2, <1>3, <2>1, <2>2
<1>4. ASSUME NEW q \in Copies, End(q, "exited") PROVE FALSE
  BY <1>2, <1>4 DEF End
<1>5. ASSUME NEW q \in Copies, End(q, "failed") PROVE q = p
  BY <1>1, <1>5 DEF End
<1>6. ASSUME UNCHANGED copy PROVE FALSE
  BY <1>6
<1>8. ASSUME NEW q \in Copies, Start(q) PROVE FALSE
  <2> DEFINE c == [pc |-> IF Exists(Resolve) THEN "loading" ELSE "creating",
                   at |-> Resolve, handle |-> FALSE, token |-> 0]
  <2>1. copy' = [copy EXCEPT ![q] = c] /\ c.pc # "failed"
    BY <1>8 DEF Start
  <2> HIDE DEF c
  <2> QED
    BY <1>2, <2>1
<1>9. ASSUME NEW q \in Copies, NEW pc, NEW t, pc # "failed",
             copy' = [copy EXCEPT ![q].pc = pc, ![q].token = t]
      PROVE  FALSE
  <2> DEFINE c == [copy[q] EXCEPT !.pc = pc, !.token = t]
  <2>1. copy' = [copy EXCEPT ![q] = c] /\ c.pc = pc
    BY <1>1, <1>9 DEF CopyRec
  <2> HIDE DEF c
  <2> QED
    BY <1>2, <1>9, <2>1
<1>10. ASSUME NEW q \in Copies, Acquire(q) PROVE FALSE
  <2> DEFINE pc == IF MutexExists(copy[q].at) THEN "refused" ELSE "starting"
             c == [copy[q] EXCEPT !.handle = TRUE, !.pc = pc]
  <2>1. copy' = [copy EXCEPT ![q] = c]
    BY <1>1, <1>10 DEF Acquire
  <2>2. pc # "failed"
    OBVIOUS
  <2> HIDE DEF pc
  <2>3. c.pc = pc
    BY <1>1 DEF CopyRec
  <2> HIDE DEF c
  <2> QED
    BY <1>2, <2>1, <2>2, <2>3
<1>11. ASSUME NEW q \in Copies, TakeBack(q) PROVE FALSE
  <2> DEFINE c == [copy[q] EXCEPT !.handle = FALSE]
  <2>1. CASE copy' = [copy EXCEPT ![q].handle = FALSE]
    <3>1. copy' = [copy EXCEPT ![q] = c] /\ c.pc = copy[q].pc /\ copy[q].pc = "killed"
      BY <1>1, <1>11, <2>1 DEF CopyRec, TakeBack
    <3> HIDE DEF c
    <3> QED
      BY <1>2, <3>1
  <2> QED
    BY <1>4, <1>6, <1>11, <2>1 DEF TakeBack
<1>12. ASSUME NEW q \in Copies, Load(q) PROVE Load(p) /\ End(p, "failed")
  BY <1>3, <1>5, <1>12 DEF Load
<1>13. ASSUME NEW q \in Copies, AppStart(q) PROVE AppStart(p) /\ End(p, "failed")
  BY <1>5, <1>9, <1>13 DEF AppStart
<1>14. ASSUME NEW q \in Copies, WriteFails(q) PROVE WriteFails(p)
  BY <1>5, <1>14 DEF WriteFails
<1>15. ASSUME NEW q \in Copies, Kill(q) PROVE FALSE
  BY <1>4, <1>9, <1>15 DEF Kill
<1>16. ASSUME NEW q \in Copies, Link(q) \/ WriteTemp(q) PROVE FALSE
  BY <1>9, <1>16 DEF Link, WriteTemp
<1>17. ASSUME NEW q \in Copies, AcquireError(q) \/ SaveTemp(q) \/ SaveRename(q) \/ Finish(q) PROVE FALSE
  BY <1>3, <1>17 DEF AcquireError, SaveTemp, SaveRename, Finish
<1>18. ASSUME NEW q \in Copies, ExitSecond(q) \/ Release(q) PROVE FALSE
  BY <1>4, <1>18 DEF ExitSecond, Release
<1>19. CASE PlaceConfig \/ OtherPort
  BY <1>6, <1>19 DEF PlaceConfig, OtherPort
<1> QED
  BY <1>8, <1>10, <1>11, <1>12, <1>13, <1>14, <1>15, <1>16, <1>17, <1>18, <1>19 DEF Next, Step

(* A copy fails because it cannot write a first configuration, or because  *)
(* the port is taken by what its lock says nothing of: never because it    *)
(* lost a race to another copy of the same configuration, whose token it   *)
(* takes over and whose port is free before its lock is.                   *)
THEOREM StartupFailsForCause == Spec => FailsForCause
<1> DEFINE Inv == StartupInv /\ LockInv
<1>1. Init => Inv
  <2> SUFFICES ASSUME Init PROVE LockInv
    BY StartupInit
  <2>1. \A p \in Copies : ~copy[p].handle
    BY DEF Init
  <2> QED
    BY <2>1 DEF LockInv
<1>2. Inv /\ [Next]_vars => Inv'
  BY StartupStep, LockStep
<1>3. Inv /\ [Next]_vars =>
         [\A p \in Copies : (copy[p].pc # "failed" /\ copy'[p].pc = "failed") => Cause(p)]_vars
  <2> SUFFICES ASSUME Inv, Next, NEW p \in Copies, copy[p].pc # "failed", copy'[p].pc = "failed"
               PROVE  Cause(p)
    OBVIOUS
  <2>1. CASE WriteFails(p)
    BY <2>1 DEF WriteFails, Cause
  <2>2. config[copy[p].at].whole
    BY DEF StartupInv, TypeOK
  <2>3. CASE Load(p) /\ End(p, "failed")
    <3>1. copy'[p].pc = "acquiring"
      BY <2>2, <2>3 DEF Load, Mine, Goto, StartupInv, TypeOK
    <3> QED
      BY <3>1
  <2>4. CASE AppStart(p) /\ End(p, "failed")
    <3>1. copy[p].pc = "starting"
      BY <2>4 DEF AppStart
    <3>2. ASSUME port = Nobody PROVE FALSE
      <4>1. copy' = [copy EXCEPT ![p].pc = "serving", ![p].token = Mine(p).token]
        BY <2>2, <2>4, <3>2 DEF AppStart, Mine
      <4>2. copy[p] \in CopyRec /\ copy \in [Copies -> CopyRec]
        BY DEF StartupInv, TypeOK, CopyRec
      <4>3. copy'[p].pc = "serving"
        BY <4>1, <4>2 DEF CopyRec
      <4> QED
        BY <4>3
    <3> QED
      BY <3>1, <3>2, BindFailsForCause
  <2> QED
    BY <2>1, <2>3, <2>4, FailingStep
<1> HIDE DEF Inv
<1> QED
  BY <1>1, <1>2, <1>3, PTL DEF Spec, FailsForCause, Cause
===============================================================================
