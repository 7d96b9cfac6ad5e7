------------------------------ MODULE SpotifyAuth ------------------------------
(***************************************************************************)
(* The Spotify connection, agent/internal/sources/spotify: authManager     *)
(* with its pending sign-in, the tokens in memory, the refresh token on    *)
(* disk, and the goroutines that work on them at once: the poller, the     *)
(* playback-control requests, and the browser tabs that return from the    *)
(* consent page.  The mutex guards the fields only; the token requests and *)
(* the file writes happen between critical sections, and each is a step.   *)
(*                                                                         *)
(* Tokens are numbered as Spotify issues them; 0 is no token.              *)
(***************************************************************************)
EXTENDS Naturals

CONSTANTS
    Callers,        \* goroutines that call accessToken
    Pollers,        \* those that are polls: they retry once on a 401
    Tabs,           \* browser tabs delivering callbacks
    MaxIssued,      \* bound: tokens Spotify issues
    MaxAttempts,    \* bound: sign-ins begun
    SavesMayFail    \* whether the disk may refuse a write

ASSUME PollersAssumption == Pollers \subseteq Callers
ASSUME MaxIssuedAssumption == MaxIssued \in Nat \ {0}
ASSUME MaxAttemptsAssumption == MaxAttempts \in Nat
ASSUME SavesMayFailAssumption == SavesMayFail \in BOOLEAN

VARIABLES
    refreshToken, accessTokenCache,   \* authManager's fields
    fresh,          \* the cached access token is not near its expiry
    pending,        \* the pending sign-in's state value, 0 for nil
    expired,        \* it is older than pendingAttemptTTL
    disk,           \* refresh_token in the state file
    caller,         \* caller[t]: where t is, and its local variables
    tab,            \* tab[b]: where the callback is, and its local variables
    attempts,       \* sign-ins begun so far: their state values are 1..attempts
    issued,         \* tokens Spotify has issued: 1..issued
    valid,          \* refresh tokens Spotify honours
    accepted,       \* access tokens Spotify honours
    everSaved,      \* answers of Spotify that were saved (history)
    exchanges       \* exchanges[a]: code exchanges begun for sign-in a (history)

memory == <<refreshToken, accessTokenCache, fresh>>
signIn == <<pending, expired, attempts>>
spotify == <<issued, valid, accepted>>
history == <<everSaved, exchanges>>
vars == <<memory, signIn, disk, caller, tab, spotify, history>>

Token == 0..MaxIssued
CallerPCs == {"idle", "refreshing", "denied", "forgetting", "saving", "setting", "using", "rejected"}
TabPCs == {"idle", "exchanging", "saving", "setting"}
IdleCaller == [pc |-> "idle", refresh |-> 0, access |-> 0, try |-> 1, refused |-> 0]
IdleTab == [pc |-> "idle", attempt |-> 0, refresh |-> 0, access |-> 0]

TypeOK ==
    /\ refreshToken \in Token /\ accessTokenCache \in Token /\ disk \in Token
    /\ fresh \in BOOLEAN /\ expired \in BOOLEAN
    /\ pending \in 0..MaxAttempts /\ attempts \in 0..MaxAttempts
    /\ caller \in [Callers -> [pc : CallerPCs, refresh : Token, access : Token,
                               try : 1..2, refused : Token]]
    /\ tab \in [Tabs -> [pc : TabPCs, attempt : 0..MaxAttempts, refresh : Token,
                         access : Token]]
    /\ issued \in Token /\ valid \in SUBSET Token /\ accepted \in SUBSET Token
    /\ everSaved \in SUBSET Token
    /\ exchanges \in [1..MaxAttempts -> Nat]

(* newAuthManager: whatever the file holds, nothing cached.  Nobody has    *)
(* signed in yet, or the agent starts with a grant that still works.       *)
Init ==
    /\ disk \in {0, 1}
    /\ refreshToken = disk /\ accessTokenCache = 0 /\ fresh = FALSE
    /\ pending = 0 /\ expired = FALSE /\ attempts = 0
    /\ caller = [t \in Callers |-> IdleCaller]
    /\ tab = [b \in Tabs |-> IdleTab]
    /\ issued = disk /\ valid = {disk} \ {0} /\ accepted = {}
    /\ everSaved = {disk}
    /\ exchanges = [a \in 1..MaxAttempts |-> 0]

-------------------------------------------------------------------------------
(* Spotify, as the agent meets it.                                         *)

(* A 2xx answer carries a new access token and perhaps a new refresh token *)
(* in place of the old, which then no longer works.                        *)
Rotate(old, new) ==
    /\ issued < MaxIssued
    /\ issued' = issued + 1
    /\ new \in {old, issued + 1} \ {0}
    /\ valid' = (valid \ {old}) \cup {new}
    /\ accepted' = accepted \cup {issued + 1}

(* The user removes the app's access.                                      *)
Revoke ==
    /\ valid # {}
    /\ valid' = {} /\ accepted' = {}
    /\ UNCHANGED <<memory, signIn, disk, caller, tab, issued, history>>

-------------------------------------------------------------------------------
(* saveState: a rename, so the file holds the old token or the new one.    *)
(* The answer it saves is known by the tokens that came in it.             *)
SaveState(refresh, access) ==
    /\ disk' = refresh
    /\ everSaved' = everSaved \cup {refresh, access}

SetMemory(refresh, access) ==
    /\ refreshToken' = refresh
    /\ accessTokenCache' = access
    /\ fresh' = TRUE

-------------------------------------------------------------------------------
(* accessToken.                                                            *)

Goto(t, pc) == caller' = [caller EXCEPT ![t].pc = pc]
Done(t) == caller' = [caller EXCEPT ![t] = IdleCaller]

(* The fields are copied under the lock; what follows uses the copies.     *)
AccessToken(t, try) ==
    /\ caller' = [caller EXCEPT ![t] =
          IF refreshToken = 0 THEN IdleCaller
          ELSE IF accessTokenCache # 0 /\ fresh
               THEN [@ EXCEPT !.pc = "using", !.access = accessTokenCache, !.try = try]
               ELSE [@ EXCEPT !.pc = "refreshing", !.refresh = refreshToken, !.try = try]]
    /\ UNCHANGED <<memory, signIn, disk, tab, spotify, history>>

Call(t) == caller[t].pc = "idle" /\ AccessToken(t, 1)

RefreshGranted(t) ==
    /\ caller[t].pc = "refreshing" /\ caller[t].refresh \in valid
    /\ \E new \in Token :
          /\ Rotate(caller[t].refresh, new)
          /\ caller' = [caller EXCEPT ![t].pc = "saving", ![t].refresh = new,
                                      ![t].access = issued + 1]
    /\ UNCHANGED <<memory, signIn, disk, tab, history>>

(* Mutant: a denial counts as any failed refresh.                          *)
RefreshDeniedIgnored(t) ==
    /\ caller[t].pc = "refreshing" /\ caller[t].refresh \notin valid
    /\ Done(t)
    /\ UNCHANGED <<memory, signIn, disk, tab, spotify, history>>

(* invalid_grant                                                           *)
RefreshDenied(t) ==
    /\ caller[t].pc = "refreshing" /\ caller[t].refresh \notin valid
    /\ Goto(t, "denied")
    /\ UNCHANGED <<memory, signIn, disk, tab, spotify, history>>

(* No answer, or one that makes no sense.                                  *)
RefreshFails(t) ==
    /\ caller[t].pc = "refreshing"
    /\ Done(t)
    /\ UNCHANGED <<memory, signIn, disk, tab, spotify, history>>

ClearMemory(t) ==
    /\ caller[t].pc = "denied"
    /\ refreshToken' = 0 /\ accessTokenCache' = 0
    /\ Goto(t, "forgetting")
    /\ UNCHANGED <<fresh, signIn, disk, tab, spotify, history>>

(* Best effort: a failed write is ignored.                                 *)
ClearDisk(t) ==
    /\ caller[t].pc = "forgetting"
    /\ \/ SaveState(0, 0)
       \/ SavesMayFail /\ UNCHANGED <<disk, everSaved>>
    /\ Done(t)
    /\ UNCHANGED <<memory, signIn, tab, spotify, exchanges>>

SaveRefreshed(t) ==
    /\ caller[t].pc = "saving"
    /\ SaveState(caller[t].refresh, caller[t].access)
    /\ Goto(t, "setting")
    /\ UNCHANGED <<memory, signIn, tab, spotify, exchanges>>

(* Mutant: the error of the write is ignored.                              *)
SaveRefreshedIgnored(t) ==
    /\ caller[t].pc = "saving" /\ SavesMayFail
    /\ Goto(t, "setting")
    /\ UNCHANGED <<memory, signIn, disk, tab, spotify, history>>

SaveRefreshedFails(t) ==
    /\ caller[t].pc = "saving" /\ SavesMayFail
    /\ Done(t)
    /\ UNCHANGED <<memory, signIn, disk, tab, spotify, history>>

SetRefreshed(t) ==
    /\ caller[t].pc = "setting"
    /\ SetMemory(caller[t].refresh, caller[t].access)
    /\ Goto(t, "using")
    /\ UNCHANGED <<signIn, disk, tab, spotify, history>>

(* Mutant: a poll retries for as long as it is refused.                    *)
UseUntilAccepted(t) ==
    /\ caller[t].pc = "using"
    /\ \/ Done(t)
       \/ /\ caller[t].access \notin accepted /\ t \in Pollers
          /\ caller' = [caller EXCEPT ![t].pc = "rejected", ![t].refused = caller[t].access]
    /\ UNCHANGED <<memory, signIn, disk, tab, spotify, history>>

(* The request the token was wanted for.  A poll that is answered 401 asks *)
(* accessToken again and retries once; a control request just reports it.  *)
Use(t) ==
    /\ caller[t].pc = "using"
    /\ \/ Done(t)
       \/ /\ caller[t].access \notin accepted
          /\ t \in Pollers /\ caller[t].try = 1
          /\ caller' = [caller EXCEPT ![t].pc = "rejected", ![t].refused = caller[t].access]
    /\ UNCHANGED <<memory, signIn, disk, tab, spotify, history>>

Retry(t) == caller[t].pc = "rejected" /\ AccessToken(t, caller[t].try + 1)

CallerStep(t) ==
    \/ Call(t) \/ RefreshGranted(t) \/ RefreshDenied(t) \/ RefreshFails(t)
    \/ ClearMemory(t) \/ ClearDisk(t) \/ SaveRefreshed(t) \/ SaveRefreshedFails(t)
    \/ SetRefreshed(t) \/ Use(t) \/ Retry(t)

(* accessTokenSkew before its expiry the cached token is due.              *)
NearExpiry ==
    /\ fresh /\ fresh' = FALSE
    /\ UNCHANGED <<refreshToken, accessTokenCache, signIn, disk, caller, tab, spotify, history>>

-------------------------------------------------------------------------------
(* Signing in.                                                             *)

(* beginAuth, from /spotify/connect: replaces an unfinished attempt.       *)
BeginAuth ==
    /\ attempts < MaxAttempts
    /\ attempts' = attempts + 1
    /\ pending' = attempts + 1 /\ expired' = FALSE
    /\ UNCHANGED <<memory, disk, caller, tab, spotify, history>>

PendingExpires ==
    /\ pending # 0 /\ ~expired /\ expired' = TRUE
    /\ UNCHANGED <<memory, pending, attempts, disk, caller, tab, spotify, history>>

(* Mutant: a matching callback does not consume the attempt.               *)
CallbackKeepingPending(b, a) ==
    /\ tab[b].pc = "idle"
    /\ pending = a /\ ~expired
    /\ tab' = [tab EXCEPT ![b] = [IdleTab EXCEPT !.pc = "exchanging", !.attempt = a]]
    /\ exchanges' = [exchanges EXCEPT ![a] = @ + 1]
    /\ UNCHANGED <<memory, signIn, disk, caller, spotify, everSaved>>

(* handleCallback for sign-in a, first time or replayed.  takePending      *)
(* consumes a match; only an unexpired one with a code goes on.            *)
Callback(b, a) ==
    /\ tab[b].pc = "idle"
    /\ pending = a
    /\ pending' = 0
    /\ \/ UNCHANGED <<tab, exchanges>>
       \/ /\ ~expired
          /\ tab' = [tab EXCEPT ![b] = [IdleTab EXCEPT !.pc = "exchanging", !.attempt = a]]
          /\ exchanges' = [exchanges EXCEPT ![a] = @ + 1]
    /\ UNCHANGED <<memory, expired, attempts, disk, caller, spotify, everSaved>>

(* Spotify sent the user back with an error, whoever's attempt it was.     *)
CallbackError(b) ==
    /\ tab[b].pc = "idle" /\ pending # 0
    /\ pending' = 0
    /\ UNCHANGED <<memory, expired, attempts, disk, caller, tab, spotify, history>>

Exchange(b) ==
    /\ tab[b].pc = "exchanging"
    /\ \/ /\ Rotate(0, issued + 1)
          /\ tab' = [tab EXCEPT ![b].pc = "saving", ![b].refresh = issued + 1,
                                ![b].access = issued + 1]
       \/ /\ tab' = [tab EXCEPT ![b] = IdleTab]
          /\ UNCHANGED spotify
    /\ UNCHANGED <<memory, signIn, disk, caller, history>>

SaveExchanged(b) ==
    /\ tab[b].pc = "saving"
    /\ SaveState(tab[b].refresh, tab[b].access)
    /\ tab' = [tab EXCEPT ![b].pc = "setting"]
    /\ UNCHANGED <<memory, signIn, caller, spotify, exchanges>>

(* "Connected, but could not save it", and the handler returns.            *)
SaveExchangedFails(b) ==
    /\ tab[b].pc = "saving" /\ SavesMayFail
    /\ tab' = [tab EXCEPT ![b] = IdleTab]
    /\ UNCHANGED <<memory, signIn, disk, caller, spotify, history>>

SetExchanged(b) ==
    /\ tab[b].pc = "setting"
    /\ SetMemory(tab[b].refresh, tab[b].access)
    /\ tab' = [tab EXCEPT ![b] = IdleTab]
    /\ UNCHANGED <<signIn, disk, caller, spotify, history>>

TabStep(b) ==
    \/ \E a \in 1..MaxAttempts : Callback(b, a)
    \/ CallbackError(b) \/ Exchange(b) \/ SaveExchanged(b)
    \/ SaveExchangedFails(b) \/ SetExchanged(b)

(* The agent dies anywhere and starts again from the file.                 *)
Restart ==
    /\ refreshToken' = disk /\ accessTokenCache' = 0 /\ fresh' = FALSE
    /\ pending' = 0 /\ expired' = FALSE
    /\ caller' = [t \in Callers |-> IdleCaller]
    /\ tab' = [b \in Tabs |-> IdleTab]
    /\ UNCHANGED <<attempts, disk, spotify, history>>

Next ==
    \/ \E t \in Callers : CallerStep(t)
    \/ \E b \in Tabs : TabStep(b)
    \/ BeginAuth \/ PendingExpires \/ NearExpiry \/ Revoke \/ Restart

(* The poller never stops calling, tokens do expire, the network does not  *)
(* fail for ever, and the agent is not killed for ever (see Restart).      *)
Fairness ==
    /\ WF_vars(NearExpiry)
    /\ \A t \in Callers : /\ WF_vars(CallerStep(t))
                          /\ SF_vars(RefreshDenied(t))
                          /\ SF_vars(ClearMemory(t))

Spec == Init /\ [][Next]_vars /\ Fairness

-------------------------------------------------------------------------------
(* A sign-in's code is exchanged at most once, however many tabs deliver   *)
(* its callback and in whatever order: takePending consumes the attempt.   *)
OneExchangePerAttempt == \A a \in 1..MaxAttempts : exchanges[a] <= 1

(* Nothing Spotify answered is relied on before it was saved, disks that   *)
(* fail and restarts included: the manager neither holds its refresh token *)
(* nor caches its access token, and no poll or control request goes out    *)
(* with it.  So a connection seen to work has been in the file.  What was  *)
(* answered and not yet saved can be lost, to a crash or a full disk: the  *)
(* file then has a grant that is used up, which GivesUpDeadGrant is about. *)
SavedBeforeTrusted ==
    /\ {refreshToken, accessTokenCache} \subseteq everSaved \cup {0}
    /\ \A t \in Callers : caller[t].pc = "using" => caller[t].access \in everSaved

(* accessToken clears a grant when that grant is dead, never a live one:   *)
(* "Clear the saved token so a restart does not retry the dead grant".     *)
OnlyDeadGrantsCleared ==
    [][\A t \in Callers :
          /\ (caller[t].pc = "denied" /\ caller'[t].pc = "forgetting") => refreshToken \notin valid
          /\ (caller[t].pc = "forgetting" /\ disk' = 0) => disk \notin valid]_vars

(* state_file is where the connection is remembered between restarts: when *)
(* nobody is half way through changing it, the file holds what memory does.*)
DiskMatchesMemory ==
    (\A t \in Callers : caller[t].pc = "idle") /\ (\A b \in Tabs : tab[b].pc = "idle")
        => disk = refreshToken

(* The manager stops claiming a connection that Spotify no longer honours. *)
GivesUpDeadGrant ==
    (refreshToken \notin valid \cup {0}) ~> (refreshToken \in valid \cup {0})

(* "Token refreshed before expiry or on 401": the retry after a 401 uses   *)
(* another token than the one just refused.                                *)
RetryUsesAnotherToken ==
    \A t \in Callers : (caller[t].pc = "using" /\ caller[t].try = 2)
                            => caller[t].access # caller[t].refused
===============================================================================
