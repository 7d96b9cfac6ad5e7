--------------------------- MODULE SpotifyAuthProofs ---------------------------
(***************************************************************************)
(* Proofs about SpotifyAuth, for any number of pollers, control requests,  *)
(* browser tabs, tokens and sign-ins, and with a disk that may fail.       *)
(***************************************************************************)
EXTENDS SpotifyAuth, TLAPS

CallerRec == [pc : CallerPCs, refresh : Token, access : Token, try : 1..2, refused : Token]
TabRec == [pc : TabPCs, attempt : 0..MaxAttempts, refresh : Token, access : Token]

(* The types of everything that is neither a caller's nor a tab's.         *)
RestTypeOK ==
    /\ refreshToken \in Token /\ accessTokenCache \in Token /\ disk \in Token
    /\ fresh \in BOOLEAN /\ expired \in BOOLEAN
    /\ pending \in 0..MaxAttempts /\ attempts \in 0..MaxAttempts
    /\ issued \in Token /\ valid \in SUBSET Token /\ accepted \in SUBSET Token
    /\ everSaved \in SUBSET Token
    /\ exchanges \in [1..MaxAttempts -> Nat]
(* A poll is tried a second time only from its first rejection.            *)
TryInv == \A t \in Callers : caller[t].pc = "rejected" => caller[t].try = 1

(* A sign-in whose code is being or was exchanged is not pending, and one  *)
(* not yet begun was never exchanged.                                      *)
AttemptInv ==
    /\ pending <= attempts
    /\ \A a \in 1..MaxAttempts :
          /\ exchanges[a] <= 1
          /\ exchanges[a] = 1 => a <= attempts /\ a # pending

(* What is about to be trusted came in an answer that was saved.           *)
SavedInv ==
    /\ {refreshToken, accessTokenCache} \subseteq everSaved \cup {0} /\ disk \in everSaved
    /\ \A t \in Callers : caller[t].pc = "setting" => {caller[t].refresh, caller[t].access} \subseteq everSaved
    /\ \A t \in Callers : caller[t].pc = "using" => caller[t].access \in everSaved
    /\ \A b \in Tabs : tab[b].pc = "setting" => {tab[b].refresh, tab[b].access} \subseteq everSaved

AuthInv == TypeOK /\ TryInv /\ AttemptInv /\ SavedInv

-------------------------------------------------------------------------------
LEMMA Bounds == MaxIssued \in Nat /\ 0 \in Token /\ 1 \in Token /\ Token \subseteq Nat
                /\ MaxAttempts \in Nat
  BY MaxIssuedAssumption, MaxAttemptsAssumption DEF Token

LEMMA Typed == TypeOK <=> /\ RestTypeOK
                          /\ caller \in [Callers -> CallerRec]
                          /\ tab \in [Tabs -> TabRec]
  BY DEF TypeOK, RestTypeOK, CallerRec, TabRec

LEMMA IdleTypes ==
    /\ IdleCaller \in CallerRec /\ IdleTab \in TabRec
    /\ IdleCaller.pc = "idle" /\ IdleTab.pc = "idle"
  BY Bounds DEF IdleCaller, IdleTab, CallerPCs, TabPCs, CallerRec, TabRec

LEMMA AuthInit == Init => AuthInv
<1> SUFFICES ASSUME Init PROVE AuthInv
  OBVIOUS
<1> USE DEF Init
<1>1. TypeOK
  <2>1. caller \in [Callers -> CallerRec] /\ tab \in [Tabs -> TabRec]
    BY IdleTypes
  <2>2. exchanges \in [1..MaxAttempts -> Nat]
    OBVIOUS
  <2>3. pending \in 0..MaxAttempts /\ attempts \in 0..MaxAttempts
    BY Bounds
  <2> QED
    BY <2>1, <2>2, <2>3, Bounds, Typed DEF RestTypeOK
<1>2. TryInv
  BY IdleTypes DEF TryInv
<1>3. AttemptInv
  BY DEF AttemptInv
<1>4. SavedInv
  BY IdleTypes DEF SavedInv
<1> QED
  BY <1>1, <1>2, <1>3, <1>4 DEF AuthInv

-------------------------------------------------------------------------------
(* One caller moves on; the sign-ins are not its business.                 *)
LEMMA CallerMoves ==
    ASSUME AuthInv, NEW t \in Callers, NEW c \in CallerRec,
           caller' = [caller EXCEPT ![t] = c],
           c.pc = "rejected" => c.try = 1,
           c.pc = "setting" => {c.refresh, c.access} \subseteq everSaved',
           c.pc = "using" => c.access \in everSaved',
           RestTypeOK', everSaved \subseteq everSaved',
           {refreshToken', accessTokenCache'} \subseteq everSaved' \cup {0}, disk' \in everSaved',
           UNCHANGED <<pending, attempts, exchanges, tab>>
    PROVE  AuthInv'
<1>1. caller \in [Callers -> CallerRec] /\ tab \in [Tabs -> TabRec]
  BY Typed DEF AuthInv
<1>2. caller' \in [Callers -> CallerRec]
  BY <1>1
<1>3. TypeOK'
  BY <1>1, <1>2, Typed DEF TypeOK, RestTypeOK, CallerRec, TabRec
<1>4. \A u \in Callers : caller'[u] = IF u = t THEN c ELSE caller[u]
  BY <1>1
<1>5. TryInv' /\ SavedInv'
  BY <1>4 DEF AuthInv, TryInv, SavedInv
<1>6. AttemptInv'
  BY DEF AuthInv, AttemptInv
<1> QED
  BY <1>3, <1>5, <1>6 DEF AuthInv

LEMMA CallerAlone ==
    ASSUME AuthInv, NEW t \in Callers, NEW c \in CallerRec,
           caller' = [caller EXCEPT ![t] = c],
           c.pc = "rejected" => c.try = 1, c.pc # "setting",
           c.pc = "using" => c.access \in everSaved,
           RestTypeOK', UNCHANGED <<memory, signIn, disk, tab, history>>
    PROVE  AuthInv'
<1>1. UNCHANGED <<refreshToken, accessTokenCache, disk, everSaved, pending, attempts, exchanges,
                  tab>>
  BY DEF memory, signIn, history
<1> QED
  BY <1>1, CallerMoves DEF AuthInv, SavedInv

LEMMA RestKept ==
    ASSUME RestTypeOK, UNCHANGED <<memory, signIn, disk, spotify, history>> PROVE RestTypeOK'
  BY DEF RestTypeOK, memory, signIn, spotify, history

LEMMA Fields ==
    ASSUME AuthInv, NEW t \in Callers
    PROVE  /\ caller[t] \in CallerRec /\ RestTypeOK
           /\ caller[t].refresh \in Token /\ caller[t].access \in Token
           /\ caller[t].try \in 1..2 /\ caller[t].pc \in CallerPCs
           /\ caller \in [Callers -> CallerRec]
  BY Typed DEF AuthInv, CallerRec

(* Goto and Done, as a new record for the caller.                          *)
LEMMA GotoRecord ==
    ASSUME AuthInv, NEW t \in Callers, NEW pc \in CallerPCs, Goto(t, pc)
    PROVE  \E c \in CallerRec : /\ caller' = [caller EXCEPT ![t] = c]
                                /\ c.pc = pc /\ c.refresh = caller[t].refresh
                                /\ c.access = caller[t].access /\ c.try = caller[t].try
<1> DEFINE c == [caller[t] EXCEPT !.pc = pc]
<1>1. caller[t] \in CallerRec
  BY Fields
<1>2. /\ c \in CallerRec /\ c.pc = pc /\ c.refresh = caller[t].refresh
      /\ c.access = caller[t].access /\ c.try = caller[t].try
  BY <1>1 DEF CallerRec
<1>3. caller' = [caller EXCEPT ![t] = c]
  BY DEF Goto
<1> HIDE DEF c
<1> QED
  BY <1>2, <1>3

LEMMA GotoKeeps ==
    ASSUME AuthInv, NEW t \in Callers, NEW pc \in CallerPCs \ {"setting", "rejected", "using"}, Goto(t, pc),
           UNCHANGED <<memory, signIn, disk, tab, spotify, history>>
    PROVE  AuthInv'
<1>1. PICK c \in CallerRec : caller' = [caller EXCEPT ![t] = c] /\ c.pc = pc
  BY GotoRecord
<1>2. RestTypeOK'
  BY RestKept, Fields
<1> QED
  BY <1>1, <1>2, CallerAlone

LEMMA DoneKeeps ==
    ASSUME AuthInv, NEW t \in Callers, Done(t), RestTypeOK',
           UNCHANGED <<memory, signIn, disk, tab, history>>
    PROVE  AuthInv'
  BY IdleTypes, CallerAlone DEF Done

LEMMA AccessTokenKeeps ==
    ASSUME AuthInv, NEW t \in Callers, NEW try \in 1..2, AccessToken(t, try)
    PROVE  AuthInv'
<1> DEFINE c == IF refreshToken = 0 THEN IdleCaller
                ELSE IF accessTokenCache # 0 /\ fresh
                     THEN [caller[t] EXCEPT !.pc = "using", !.access = accessTokenCache, !.try = try]
                     ELSE [caller[t] EXCEPT !.pc = "refreshing", !.refresh = refreshToken, !.try = try]
<1>1. caller[t] \in CallerRec /\ RestTypeOK
  BY Fields
<1>2. refreshToken \in Token /\ accessTokenCache \in Token
  BY <1>1 DEF RestTypeOK
<1>3. /\ c \in CallerRec /\ c.pc \in {"idle", "using", "refreshing"}
      /\ c.pc = "using" => c.access \in everSaved
  <2>1. [caller[t] EXCEPT !.pc = "using", !.access = accessTokenCache, !.try = try] \in CallerRec
    BY <1>1, <1>2 DEF CallerRec, CallerPCs
  <2>2. [caller[t] EXCEPT !.pc = "refreshing", !.refresh = refreshToken, !.try = try] \in CallerRec
    BY <1>1, <1>2 DEF CallerRec, CallerPCs
  <2>3. [caller[t] EXCEPT !.pc = "using", !.access = accessTokenCache, !.try = try].pc = "using"
    BY <1>1, <1>2 DEF CallerRec
  <2>5. [caller[t] EXCEPT !.pc = "using", !.access = accessTokenCache, !.try = try].access
            = accessTokenCache
    BY <1>1, <1>2 DEF CallerRec
  <2>6. accessTokenCache \in everSaved \cup {0}
    BY DEF AuthInv, SavedInv
  <2>4. [caller[t] EXCEPT !.pc = "refreshing", !.refresh = refreshToken, !.try = try].pc = "refreshing"
    BY <1>1, <1>2 DEF CallerRec
  <2> QED
    BY <2>1, <2>2, <2>3, <2>4, <2>5, <2>6, IdleTypes
<1>4. caller' = [caller EXCEPT ![t] = c] /\ UNCHANGED <<memory, signIn, disk, tab, spotify, history>>
  BY DEF AccessToken
<1> HIDE DEF c
<1>5. RestTypeOK'
  BY <1>1, <1>4, RestKept
<1> QED
  BY <1>3, <1>4, <1>5, CallerAlone

LEMMA RotateTypes ==
    ASSUME RestTypeOK, NEW old \in Token, NEW new, Rotate(old, new),
           UNCHANGED <<memory, signIn, disk, history>>
    PROVE  RestTypeOK' /\ issued + 1 \in Token
<1>1. issued + 1 \in Token
  BY Bounds DEF RestTypeOK, Rotate, Token
<1>2. new \in Token
  BY <1>1 DEF Rotate
<1> QED
  BY <1>1, <1>2 DEF RestTypeOK, Rotate, memory, signIn, history

LEMMA RefreshGrantedKeeps == ASSUME AuthInv, NEW t \in Callers, RefreshGranted(t) PROVE AuthInv'
<1>1. caller[t] \in CallerRec /\ RestTypeOK /\ caller[t].refresh \in Token
  BY Fields
<1>2. PICK new \in Token :
          /\ Rotate(caller[t].refresh, new)
          /\ caller' = [caller EXCEPT ![t].pc = "saving", ![t].refresh = new,
                                      ![t].access = issued + 1]
  BY DEF RefreshGranted
<1>3. UNCHANGED <<memory, signIn, disk, tab, history>>
  BY DEF RefreshGranted
<1>4. RestTypeOK' /\ issued + 1 \in Token
  BY <1>1, <1>2, <1>3, RotateTypes
<1> DEFINE c == [caller[t] EXCEPT !.pc = "saving", !.refresh = new, !.access = issued + 1]
<1>5. c \in CallerRec /\ c.pc = "saving"
  BY <1>1, <1>4 DEF CallerRec, CallerPCs
<1>6. caller' = [caller EXCEPT ![t] = c]
  BY <1>2
<1> HIDE DEF c
<1> QED
  BY <1>3, <1>4, <1>5, <1>6, CallerAlone

LEMMA UseKeeps == ASSUME AuthInv, NEW t \in Callers, Use(t) PROVE AuthInv'
<1>1. caller[t] \in CallerRec /\ RestTypeOK /\ caller[t].access \in Token
  BY Fields
<1>2. UNCHANGED <<memory, signIn, disk, tab, spotify, history>>
  BY DEF Use
<1>3. RestTypeOK'
  BY <1>1, <1>2, RestKept
<1>4. CASE Done(t)
  BY <1>2, <1>3, <1>4, DoneKeeps
<1>5. CASE /\ caller[t].try = 1
           /\ caller' = [caller EXCEPT ![t].pc = "rejected", ![t].refused = caller[t].access]
  <2> DEFINE c == [caller[t] EXCEPT !.pc = "rejected", !.refused = caller[t].access]
  <2>1. c \in CallerRec /\ c.pc = "rejected" /\ c.try = caller[t].try
    BY <1>1 DEF CallerRec, CallerPCs
  <2>2. caller' = [caller EXCEPT ![t] = c]
    BY <1>5
  <2> HIDE DEF c
  <2> QED
    BY <1>2, <1>3, <1>5, <2>1, <2>2, CallerAlone
<1> QED
  BY <1>4, <1>5 DEF Use

LEMMA ForgetKeeps ==
    ASSUME AuthInv, NEW t \in Callers, ClearMemory(t) \/ ClearDisk(t) PROVE AuthInv'
<1>1. RestTypeOK
  BY Fields
<1>2. CASE ClearMemory(t)
  <2>1. PICK c \in CallerRec : caller' = [caller EXCEPT ![t] = c] /\ c.pc = "forgetting"
    BY <1>2, GotoRecord DEF ClearMemory, CallerPCs
  <2>2. /\ refreshToken' = 0 /\ accessTokenCache' = 0
        /\ UNCHANGED <<fresh, disk, tab, signIn, spotify, history>>
    BY <1>2 DEF ClearMemory
  <2>3. RestTypeOK'
    BY <1>1, <2>2, Bounds DEF RestTypeOK, signIn, spotify, history
  <2> QED
    BY <2>1, <2>2, <2>3, CallerMoves DEF AuthInv, SavedInv, signIn, history
<1>3. CASE ClearDisk(t)
  <2>1. /\ Done(t) /\ UNCHANGED <<memory, signIn, tab, spotify, exchanges>>
        /\ \/ disk' = 0 /\ everSaved' = everSaved \cup {0}
           \/ UNCHANGED <<disk, everSaved>>
    BY <1>3 DEF ClearDisk, SaveState
  <2>2. RestTypeOK'
    BY <1>1, <2>1, Bounds DEF RestTypeOK, memory, signIn, spotify
  <2>3. /\ everSaved \subseteq everSaved' /\ disk' \in everSaved'
        /\ {refreshToken', accessTokenCache'} \subseteq everSaved' \cup {0}
    BY <2>1 DEF AuthInv, SavedInv, memory
  <2>4. IdleCaller.pc \notin {"rejected", "setting", "using"} /\ IdleCaller \in CallerRec
    BY IdleTypes
  <2>5. caller' = [caller EXCEPT ![t] = IdleCaller]
    BY <2>1 DEF Done
  <2>6. UNCHANGED <<pending, attempts, exchanges, tab>>
    BY <2>1 DEF signIn
  <2> QED
    BY <2>2, <2>3, <2>4, <2>5, <2>6, CallerMoves
<1> QED
  BY <1>2, <1>3

LEMMA SaveRefreshedKeeps == ASSUME AuthInv, NEW t \in Callers, SaveRefreshed(t) PROVE AuthInv'
<1> USE DEF SaveRefreshed
<1>1. RestTypeOK /\ caller[t].refresh \in Token /\ caller[t].access \in Token
  BY Fields
<1>2. PICK c \in CallerRec : /\ caller' = [caller EXCEPT ![t] = c]
                             /\ c.pc = "setting" /\ c.refresh = caller[t].refresh
                             /\ c.access = caller[t].access
  BY GotoRecord DEF CallerPCs
<1>3. disk' = caller[t].refresh /\ everSaved' = everSaved \cup {caller[t].refresh, caller[t].access}
  BY DEF SaveState
<1>4. RestTypeOK'
  BY <1>1, <1>3 DEF RestTypeOK, memory, signIn, spotify
<1>5. {refreshToken', accessTokenCache'} \subseteq everSaved' \cup {0}
  BY <1>3 DEF AuthInv, SavedInv, memory
<1>6. UNCHANGED <<pending, attempts, exchanges, tab>>
  BY DEF signIn
<1> QED
  BY <1>2, <1>3, <1>4, <1>5, <1>6, CallerMoves

LEMMA SetRefreshedKeeps == ASSUME AuthInv, NEW t \in Callers, SetRefreshed(t) PROVE AuthInv'
<1> USE DEF SetRefreshed
<1>1. RestTypeOK /\ caller[t].refresh \in Token /\ caller[t].access \in Token
  BY Fields
<1>2. PICK c \in CallerRec : /\ caller' = [caller EXCEPT ![t] = c]
                             /\ c.pc = "using" /\ c.access = caller[t].access
  BY GotoRecord DEF CallerPCs
<1>3. refreshToken' = caller[t].refresh /\ accessTokenCache' = caller[t].access /\ fresh' = TRUE
  BY DEF SetMemory
<1>4. RestTypeOK'
  BY <1>1, <1>3 DEF RestTypeOK, signIn, spotify, history
<1>5. /\ {refreshToken', accessTokenCache'} \subseteq everSaved' \cup {0} /\ disk' \in everSaved'
      /\ everSaved \subseteq everSaved'
  BY <1>3 DEF AuthInv, SavedInv, history
<1>6. UNCHANGED <<pending, attempts, exchanges, tab>>
  BY DEF signIn, history
<1>7. caller[t].access \in everSaved'
  BY DEF AuthInv, SavedInv, history
<1> QED
  BY <1>2, <1>4, <1>5, <1>6, <1>7, CallerMoves

LEMMA CallerStepKeeps == ASSUME AuthInv, NEW t \in Callers, CallerStep(t) PROVE AuthInv'
<1>1. CASE Call(t)
  BY <1>1, AccessTokenKeeps DEF Call
<1>2. CASE Retry(t)
  <2>1. caller[t].try + 1 \in 1..2
    BY <1>2 DEF Retry, AuthInv, TryInv
  <2> QED
    BY <1>2, <2>1, AccessTokenKeeps DEF Retry
<1>3. CASE RefreshDenied(t)
  BY <1>3, GotoKeeps DEF RefreshDenied, CallerPCs
<1>4. CASE RefreshFails(t) \/ SaveRefreshedFails(t)
  <2>1. RestTypeOK'
    BY <1>4, RestKept, Fields DEF RefreshFails, SaveRefreshedFails
  <2> QED
    BY <1>4, <2>1, DoneKeeps DEF RefreshFails, SaveRefreshedFails
<1> QED
  BY <1>1, <1>2, <1>3, <1>4, RefreshGrantedKeeps, ForgetKeeps, SaveRefreshedKeeps,
     SetRefreshedKeeps, UseKeeps DEF CallerStep

-------------------------------------------------------------------------------
(* Browser tabs.                                                           *)
LEMMA TabMoves ==
    ASSUME AuthInv, NEW b \in Tabs, NEW c \in TabRec, tab' = [tab EXCEPT ![b] = c],
           c.pc = "setting" => {c.refresh, c.access} \subseteq everSaved',
           RestTypeOK', AttemptInv', everSaved \subseteq everSaved',
           {refreshToken', accessTokenCache'} \subseteq everSaved' \cup {0}, disk' \in everSaved', caller' = caller
    PROVE  AuthInv'
<1>1. caller \in [Callers -> CallerRec] /\ tab \in [Tabs -> TabRec]
  BY Typed DEF AuthInv
<1>2. tab' \in [Tabs -> TabRec]
  BY <1>1
<1>3. TypeOK'
  BY <1>1, <1>2, Typed DEF TypeOK, RestTypeOK, CallerRec, TabRec
<1>4. \A d \in Tabs : tab'[d] = IF d = b THEN c ELSE tab[d]
  BY <1>1
<1>5. TryInv' /\ SavedInv'
  BY <1>4 DEF AuthInv, TryInv, SavedInv
<1> QED
  BY <1>3, <1>5 DEF AuthInv

LEMMA TabFields ==
    ASSUME AuthInv, NEW b \in Tabs
    PROVE  /\ tab[b] \in TabRec /\ RestTypeOK
           /\ tab[b].refresh \in Token /\ tab[b].access \in Token
           /\ tab \in [Tabs -> TabRec]
  BY Typed DEF AuthInv, TabRec

LEMMA SavedFields ==
    ASSUME AuthInv PROVE {refreshToken, accessTokenCache} \subseteq everSaved \cup {0} /\ disk \in everSaved
  BY DEF AuthInv, SavedInv

(* takePending: the attempt is not pending any more, so a later callback   *)
(* for it finds nothing.                                                   *)
LEMMA CallbackKeeps ==
    ASSUME AuthInv, NEW b \in Tabs, NEW a \in 1..MaxAttempts, Callback(b, a) PROVE AuthInv'
<1> USE DEF Callback
<1>1. RestTypeOK /\ tab[b] \in TabRec /\ tab \in [Tabs -> TabRec]
  BY TabFields
<1>2. UNCHANGED <<refreshToken, accessTokenCache, fresh, expired, attempts, disk, caller,
                  issued, valid, accepted, everSaved>>
  BY DEF memory, spotify
<1>3. attempts \in 0..MaxAttempts /\ a <= attempts /\ exchanges[a] = 0
  BY <1>1 DEF RestTypeOK, AuthInv, AttemptInv
<1>4. exchanges' = exchanges \/ exchanges' = [exchanges EXCEPT ![a] = @ + 1]
  OBVIOUS
<1>5. AttemptInv'
  <2>1. \A x \in 1..MaxAttempts :
           exchanges'[x] = exchanges[x] \/ (x = a /\ exchanges'[x] = 1)
    <3>1. exchanges \in [1..MaxAttempts -> Nat]
      BY <1>1 DEF RestTypeOK
    <3> HIDE DEF Callback
    <3>2. CASE exchanges' = [exchanges EXCEPT ![a] = @ + 1]
      <4>1. exchanges' = [exchanges EXCEPT ![a] = exchanges[a] + 1]
        BY <3>2
      <4>2. exchanges[a] + 1 = 1
        BY <1>3
      <4>3. exchanges' = [exchanges EXCEPT ![a] = 1]
        BY <4>1, <4>2
      <4> QED
        BY <3>1, <4>3
    <3> QED
      BY <1>4, <3>2
  <2>2. pending' = 0 /\ attempts' = attempts /\ a \in Nat /\ a > 0
    BY <1>2
  <2> QED
    BY <1>3, <2>1, <2>2 DEF AuthInv, AttemptInv
<1>6. RestTypeOK'
  BY <1>1, <1>2, <1>4, Bounds DEF RestTypeOK
<1>7. PICK c \in TabRec : tab' = [tab EXCEPT ![b] = c] /\ c.pc # "setting"
  <2>1. CASE UNCHANGED tab
    <3>1. tab' = [tab EXCEPT ![b] = tab[b]]
      BY <1>1, <2>1
    <3> QED
      BY <1>1, <3>1
  <2>2. CASE tab' = [tab EXCEPT ![b] = [IdleTab EXCEPT !.pc = "exchanging", !.attempt = a]]
    <3> DEFINE c == [IdleTab EXCEPT !.pc = "exchanging", !.attempt = a]
    <3>1. a \in 0..MaxAttempts
      BY Bounds
    <3>2. c \in TabRec /\ c.pc = "exchanging"
      BY <3>1, IdleTypes DEF TabRec, TabPCs
    <3>3. tab' = [tab EXCEPT ![b] = c]
      BY <2>2
    <3> HIDE DEF c
    <3> QED
      BY <3>2, <3>3
  <2> QED
    BY <2>1, <2>2
<1>8. {refreshToken', accessTokenCache'} \subseteq everSaved' \cup {0} /\ disk' \in everSaved' /\ everSaved \subseteq everSaved'
  BY <1>2, SavedFields
<1> QED
  BY <1>2, <1>5, <1>6, <1>7, <1>8, TabMoves

LEMMA ExchangeKeeps == ASSUME AuthInv, NEW b \in Tabs, Exchange(b) PROVE AuthInv'
<1>1. RestTypeOK /\ tab[b] \in TabRec
  BY TabFields
<1>2. UNCHANGED <<memory, signIn, disk, caller, history>>
  BY DEF Exchange
<1>3. AttemptInv'
  BY <1>2 DEF AuthInv, AttemptInv, signIn, history
<1>4. /\ {refreshToken', accessTokenCache'} \subseteq everSaved' \cup {0} /\ disk' \in everSaved'
      /\ everSaved \subseteq everSaved' /\ caller' = caller
  BY <1>2, SavedFields DEF memory, history
<1>5. CASE /\ Rotate(0, issued + 1)
           /\ tab' = [tab EXCEPT ![b].pc = "saving", ![b].refresh = issued + 1,
                                 ![b].access = issued + 1]
  <2>1. RestTypeOK' /\ issued + 1 \in Token
    BY <1>1, <1>2, <1>5, Bounds, RotateTypes
  <2> DEFINE c == [tab[b] EXCEPT !.pc = "saving", !.refresh = issued + 1, !.access = issued + 1]
  <2>2. c \in TabRec /\ c.pc = "saving"
    BY <1>1, <2>1 DEF TabRec, TabPCs
  <2>3. tab' = [tab EXCEPT ![b] = c]
    BY <1>5
  <2> HIDE DEF c
  <2> QED
    BY <1>3, <1>4, <2>1, <2>2, <2>3, TabMoves
<1>6. CASE tab' = [tab EXCEPT ![b] = IdleTab] /\ UNCHANGED spotify
  <2>1. RestTypeOK'
    BY <1>1, <1>2, <1>6, RestKept
  <2> QED
    BY <1>3, <1>4, <1>6, <2>1, IdleTypes, TabMoves
<1> QED
  BY <1>5, <1>6 DEF Exchange

LEMMA SaveExchangedKeeps == ASSUME AuthInv, NEW b \in Tabs, SaveExchanged(b) PROVE AuthInv'
<1> USE DEF SaveExchanged
<1>1. RestTypeOK /\ tab[b] \in TabRec /\ tab[b].refresh \in Token /\ tab[b].access \in Token
  BY TabFields
<1>2. disk' = tab[b].refresh /\ everSaved' = everSaved \cup {tab[b].refresh, tab[b].access}
  BY DEF SaveState
<1>3. RestTypeOK'
  BY <1>1, <1>2 DEF RestTypeOK, memory, signIn, spotify
<1>4. AttemptInv'
  BY DEF AuthInv, AttemptInv, signIn
<1>5. {refreshToken', accessTokenCache'} \subseteq everSaved' \cup {0}
  BY <1>2, SavedFields DEF memory
<1> DEFINE c == [tab[b] EXCEPT !.pc = "setting"]
<1>6. c \in TabRec /\ c.refresh = tab[b].refresh /\ c.access = tab[b].access
  BY <1>1 DEF TabRec, TabPCs
<1>7. tab' = [tab EXCEPT ![b] = c]
  OBVIOUS
<1> HIDE DEF c
<1> QED
  BY <1>2, <1>3, <1>4, <1>5, <1>6, <1>7, TabMoves

LEMMA TabEndsKeeps ==
    ASSUME AuthInv, NEW b \in Tabs, SaveExchangedFails(b) \/ SetExchanged(b) PROVE AuthInv'
<1>1. RestTypeOK /\ tab[b].refresh \in Token /\ tab[b].access \in Token
  BY TabFields
<1>2. tab' = [tab EXCEPT ![b] = IdleTab] /\ UNCHANGED <<signIn, disk, caller, spotify, history>>
  BY DEF SaveExchangedFails, SetExchanged
<1>3. AttemptInv'
  BY <1>2 DEF AuthInv, AttemptInv, signIn, history
<1>4. RestTypeOK' /\ {refreshToken', accessTokenCache'} \subseteq everSaved' \cup {0}
  <2>1. CASE SaveExchangedFails(b)
    <3>1. UNCHANGED memory
      BY <2>1 DEF SaveExchangedFails
    <3> QED
      BY <1>1, <1>2, <3>1, RestKept, SavedFields DEF memory, history
  <2>2. CASE SetExchanged(b)
    <3>1. refreshToken' = tab[b].refresh /\ accessTokenCache' = tab[b].access /\ fresh' = TRUE
      BY <2>2 DEF SetExchanged, SetMemory
    <3>2. {tab[b].refresh, tab[b].access} \subseteq everSaved
      BY <2>2 DEF SetExchanged, AuthInv, SavedInv
    <3> QED
      BY <1>1, <1>2, <3>1, <3>2 DEF RestTypeOK, signIn, spotify, history
  <2> QED
    BY <2>1, <2>2
<1>5. disk' \in everSaved' /\ everSaved \subseteq everSaved' /\ caller' = caller
  BY <1>2, SavedFields DEF history
<1> QED
  BY <1>2, <1>3, <1>4, <1>5, IdleTypes, TabMoves

-------------------------------------------------------------------------------
(* The rest: no caller or tab moves, or all are lost in a restart.         *)
LEMMA NobodyMoves ==
    ASSUME AuthInv, RestTypeOK', AttemptInv',
           UNCHANGED <<caller, tab, everSaved, disk, refreshToken, accessTokenCache>>
    PROVE  AuthInv'
<1>1. caller \in [Callers -> CallerRec] /\ tab \in [Tabs -> TabRec]
  BY Typed DEF AuthInv
<1>2. TypeOK'
  BY <1>1, Typed DEF TypeOK, RestTypeOK, CallerRec, TabRec
<1>3. TryInv' /\ SavedInv'
  BY DEF AuthInv, TryInv, SavedInv
<1> QED
  BY <1>2, <1>3 DEF AuthInv

LEMMA CallbackErrorKeeps == ASSUME AuthInv, NEW b \in Tabs, CallbackError(b) PROVE AuthInv'
<1> USE DEF CallbackError
<1>1. RestTypeOK
  BY TabFields
<1>4. /\ pending' = 0
      /\ UNCHANGED <<refreshToken, accessTokenCache, fresh, expired, attempts, disk, caller, tab,
                     issued, valid, accepted, everSaved, exchanges>>
  BY DEF memory, spotify, history
<1>2. RestTypeOK'
  BY <1>1, <1>4, Bounds DEF RestTypeOK
<1>3. AttemptInv'
  BY <1>1, <1>4, Bounds DEF RestTypeOK, AuthInv, AttemptInv
<1> QED
  BY <1>2, <1>3, <1>4, NobodyMoves

LEMMA BeginAuthKeeps == ASSUME AuthInv, BeginAuth PROVE AuthInv'
<1> USE DEF BeginAuth
<1>1. RestTypeOK
  BY Typed DEF AuthInv
<1>4. /\ attempts' = attempts + 1 /\ pending' = attempts + 1 /\ expired' = FALSE
      /\ UNCHANGED <<refreshToken, accessTokenCache, fresh, disk, caller, tab,
                     issued, valid, accepted, everSaved, exchanges>>
  BY DEF memory, spotify, history
<1>5. attempts \in Nat /\ attempts + 1 \in 0..MaxAttempts
  BY <1>1, Bounds DEF RestTypeOK
<1>2. RestTypeOK'
  BY <1>1, <1>4, <1>5 DEF RestTypeOK
<1>3. AttemptInv'
  BY <1>4, <1>5 DEF AuthInv, AttemptInv
<1> QED
  BY <1>2, <1>3, <1>4, NobodyMoves

LEMMA QuietKeeps ==
    ASSUME AuthInv, PendingExpires \/ NearExpiry \/ Revoke \/ UNCHANGED vars PROVE AuthInv'
<1>1. RestTypeOK
  BY Typed DEF AuthInv
<1>2. UNCHANGED <<refreshToken, accessTokenCache, disk, caller, tab, pending, attempts, history>>
  BY DEF PendingExpires, NearExpiry, Revoke, vars, memory, signIn
<1>3. RestTypeOK'
  BY <1>1 DEF RestTypeOK, PendingExpires, NearExpiry, Revoke, vars, memory, signIn, spotify, history
<1>4. AttemptInv'
  BY <1>2 DEF AuthInv, AttemptInv, history
<1> QED
  BY <1>2, <1>3, <1>4, NobodyMoves DEF history

LEMMA RestartKeeps == ASSUME AuthInv, Restart PROVE AuthInv'
<1> USE DEF Restart
<1>1. RestTypeOK
  BY Typed DEF AuthInv
<1>7. /\ refreshToken' = disk /\ accessTokenCache' = 0 /\ fresh' = FALSE
      /\ pending' = 0 /\ expired' = FALSE
      /\ UNCHANGED <<attempts, disk, issued, valid, accepted, everSaved, exchanges>>
  BY DEF spotify, history
<1>8. refreshToken' \in Token /\ accessTokenCache' \in Token /\ pending' \in 0..MaxAttempts
  BY <1>1, <1>7, Bounds DEF RestTypeOK
<1>2. RestTypeOK'
  BY <1>1, <1>7, <1>8 DEF RestTypeOK
<1>3. caller' \in [Callers -> CallerRec] /\ tab' \in [Tabs -> TabRec]
  BY IdleTypes
<1>4. TypeOK'
  BY <1>2, <1>3, Typed DEF TypeOK, RestTypeOK, CallerRec, TabRec
<1>5. AttemptInv'
  BY <1>1 DEF RestTypeOK, AuthInv, AttemptInv, history
<1>6. TryInv' /\ SavedInv'
  BY IdleTypes, SavedFields DEF TryInv, SavedInv, history
<1> QED
  BY <1>4, <1>5, <1>6 DEF AuthInv

LEMMA AuthStep == ASSUME AuthInv, [Next]_vars PROVE AuthInv'
<1>1. ASSUME NEW b \in Tabs, TabStep(b) PROVE AuthInv'
  BY <1>1, CallbackKeeps, CallbackErrorKeeps, ExchangeKeeps, SaveExchangedKeeps, TabEndsKeeps
     DEF TabStep
<1> QED
  BY <1>1, CallerStepKeeps, BeginAuthKeeps, QuietKeeps, RestartKeeps DEF Next

LEMMA AuthInvHolds == Spec => []AuthInv
  BY AuthInit, AuthStep, PTL DEF Spec

(* Every variable keeps its type; a poll is never retried twice.           *)
THEOREM AuthTypeCorrect == Spec => []TypeOK
<1>1. AuthInv => TypeOK
  BY DEF AuthInv
<1> QED
  BY <1>1, AuthInvHolds, PTL

(* However many tabs deliver a callback, and however late, its code is     *)
(* exchanged once.                                                         *)
THEOREM AuthOneExchange == Spec => []OneExchangePerAttempt
<1>1. AuthInv => OneExchangePerAttempt
  BY DEF AuthInv, AttemptInv, OneExchangePerAttempt
<1> QED
  BY <1>1, AuthInvHolds, PTL

(* Neither the manager nor a request relies on a token before the answer   *)
(* it came in was saved, through failed writes and restarts.               *)
THEOREM AuthSavedBeforeTrusted == Spec => []SavedBeforeTrusted
<1>1. AuthInv => SavedBeforeTrusted
  BY DEF AuthInv, SavedInv, SavedBeforeTrusted
<1> QED
  BY <1>1, AuthInvHolds, PTL
================================================================================
