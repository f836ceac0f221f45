---------------------------- MODULE TokenRefresh ----------------------------
(* The token refresh of one downstream server: ServerContext keeps a timer   *)
(* that asks the authentication strategy for a new access token, saves a     *)
(* rotated refresh token with the launch configuration, and starts over.     *)
EXTENDS Naturals, FiniteSets, FiniteSetsExt

CONSTANTS
    TrRuns,     \* runs of startTokenRefresh and performTokenRefresh
    MaxGen,     \* bound: strategies created
    MaxRotate,  \* bound: refresh tokens the provider issues
    TimerIds,   \* bound: timers armed at a time
    MaxOther    \* bound: saves of another server's configuration
ASSUME RefreshAssumption ==
    /\ {MaxGen, MaxRotate, MaxOther} \subseteq Nat \ {0} /\ TimerIds \subseteq Nat \ {0}
    /\ IsFiniteSet(TrRuns)

(* The strategies. rotates: whether the answer of the provider can bring a   *)
(* new refresh token (external); required: an answer without one is an       *)
(* error; caches: the access token is kept in the configuration and used     *)
(* while it is valid; persists: getCurrentOAuthConfig reports changes;       *)
(* refused: what an answer that refuses the token leads to.                  *)
NotionAuthStrategy == [rotates |-> {TRUE}, required |-> FALSE, caches |-> TRUE, persists |-> TRUE, refused |-> "stop"]
CanvaAuthStrategy == [rotates |-> BOOLEAN, required |-> TRUE, caches |-> TRUE, persists |-> TRUE, refused |-> "stop"]
ZendeskAuthStrategy == [rotates |-> BOOLEAN, required |-> TRUE, caches |-> TRUE, persists |-> TRUE, refused |-> "stop"]
GithubAuthStrategy == [rotates |-> BOOLEAN, required |-> FALSE, caches |-> TRUE, persists |-> TRUE, refused |-> "stop"]
HubSpotAuthStrategy == [rotates |-> BOOLEAN, required |-> FALSE, caches |-> TRUE, persists |-> TRUE, refused |-> "stop"]
PipedriveAuthStrategy == [rotates |-> BOOLEAN, required |-> FALSE, caches |-> TRUE, persists |-> TRUE, refused |-> "stop"]
SlackAuthStrategy == [rotates |-> BOOLEAN, required |-> FALSE, caches |-> TRUE, persists |-> TRUE, refused |-> "stop"]
FigmaAuthStrategy == [rotates |-> {FALSE}, required |-> FALSE, caches |-> TRUE, persists |-> TRUE, refused |-> "stop"]
GoogleAuthStrategy == [rotates |-> {FALSE}, required |-> FALSE, caches |-> FALSE, persists |-> FALSE, refused |-> "stop"]
PetaAuthStrategy == [rotates |-> {FALSE}, required |-> FALSE, caches |-> TRUE, persists |-> FALSE, refused |-> "retry"]
IntercomAuthStrategy == [rotates |-> {FALSE}, required |-> FALSE, caches |-> TRUE, persists |-> TRUE, refused |-> "clear"]

\* AuthStrategyFactory.create, and PetaAuthStrategy for servers that use Peta's
\* OAuth client.
AuthStrategies == {NotionAuthStrategy, CanvaAuthStrategy, ZendeskAuthStrategy, GithubAuthStrategy,
    HubSpotAuthStrategy, PipedriveAuthStrategy, SlackAuthStrategy, FigmaAuthStrategy, GoogleAuthStrategy,
    PetaAuthStrategy, IntercomAuthStrategy}

VARIABLES
    trKind,    \* the strategy of the server
    trStrats,  \* configuration of each strategy object: refresh token, whether
               \* it has a valid access token, configChanged
    trGen,     \* strategies created so far
    trCur,     \* authStrategy, 0 when undefined
    trToken,   \* currentTokenInfo is set
    trTimers,  \* armed timers
    trHandle,  \* tokenRefreshTimer, 0 when undefined
    trRun,     \* runs
    trValid,   \* the refresh token the provider accepts, 0 none
    trDb,      \* saved configuration: refresh token, valid access token, and the
               \* configuration of another server in the same row
    trOther,   \* the other server's save: its step, what it read, what it saved last
    trExcuse   \* what happened that may lose a token: subset of Excuses
refreshVars == <<trKind, trStrats, trGen, trCur, trToken, trTimers, trHandle, trRun, trValid,
                 trDb, trOther, trExcuse>>

\* restarted: a strategy was started while a run or a timer of an older one was
\* left; lost: an answer of the provider was lost, or came when its strategy was no
\* longer the current one, or the process ended with changes unsaved; save: a
\* save failed; overlap: two saves of the row overlapped.
Excuses == {"restarted", "lost", "save", "overlap"}

NoStrat == [refresh |-> 0, cached |-> FALSE, changed |-> FALSE]
IdleRun == [pc |-> "idle", gen |-> 0, first |-> FALSE, data |-> NoStrat, other |-> 0]
Busy == {r \in TrRuns : trRun[r].pc # "idle"}

RefreshInit ==
    /\ trKind \in AuthStrategies
    /\ trStrats = [g \in 1..MaxGen |-> NoStrat]
    /\ trGen = 0 /\ trCur = 0 /\ trToken = FALSE
    /\ trTimers = {} /\ trHandle = 0
    /\ trRun = [r \in TrRuns |-> IdleRun]
    /\ trValid = 1
    /\ trDb = [refresh |-> 1, cached |-> FALSE, other |-> 0]
    /\ trOther = [pc |-> "idle", read |-> 0, saved |-> 0]
    /\ trExcuse = {}

\* setTimeout
Arm(timers) ==
    \E t \in TimerIds :
        /\ t \notin timers /\ \A u \in TimerIds : u < t => u \in timers
        /\ trTimers' = timers \cup {t}
        /\ trHandle' = t
TimersKept == UNCHANGED <<trTimers, trHandle>>

\* Mutant: an expiry far away is not clamped.
RefreshDelayUnclamped(left) == Max({left - 300, 10})

\* The delay until the refresh, in seconds, of a token that expires in left
\* seconds.
RefreshDelay(left) == Min({Max({left - 300, 10}), 2147000})

\* Expiries: already over, soon, and beyond the range of a timer.
ExpiresIn == {0, 400, 3000000}

\* scheduleNextRefresh
ScheduleNextRefresh ==
    IF trToken
    THEN Arm(trTimers \ {trHandle})
    ELSE TimersKept

\* The other timers of catch: 3 minutes, and the handle of an older timer is
\* overwritten.
RetryLater == Arm(trTimers)

\* stopTokenRefresh
Stopped ==
    /\ trTimers' = trTimers \ {trHandle}
    /\ trHandle' = 0
    /\ trCur' = 0 /\ trToken' = FALSE

\* startTokenRefresh, for a connection that is being made: the strategy is
\* created from the saved configuration.
StartTokenRefresh(r) ==
    /\ trRun[r].pc = "idle" /\ trCur = 0 /\ trGen < MaxGen /\ trDb.refresh # 0
    /\ trGen' = trGen + 1
    /\ trCur' = trGen + 1
    /\ trStrats' = [trStrats EXCEPT ![trGen + 1] =
           [refresh |-> trDb.refresh, cached |-> trDb.cached /\ trKind.caches, changed |-> FALSE]]
    /\ trRun' = [trRun EXCEPT ![r] = [IdleRun EXCEPT !.pc = "call", !.gen = trGen + 1, !.first = TRUE]]
    /\ trExcuse' = IF Busy # {} \/ trTimers # {} THEN trExcuse \cup {"restarted"} ELSE trExcuse
    /\ UNCHANGED <<trKind, trToken, trTimers, trHandle, trValid, trDb, trOther>>

\* A timer fires; performTokenRefresh returns at once without a strategy.
TimerFires(t, r) ==
    /\ t \in trTimers /\ trRun[r].pc = "idle"
    /\ trTimers' = trTimers \ {t}
    /\ trRun' = IF trCur = 0 THEN trRun
                ELSE [trRun EXCEPT ![r] = [IdleRun EXCEPT !.pc = "call", !.gen = trCur]]
    /\ UNCHANGED <<trKind, trStrats, trGen, trCur, trToken, trHandle, trValid, trDb, trOther, trExcuse>>

\* The cached access token comes near its expiry.
TokenAges ==
    /\ trDb.cached \/ \E g \in 1..MaxGen : trStrats[g].cached
    /\ trDb' = [trDb EXCEPT !.cached = FALSE]
    /\ trStrats' = [g \in 1..MaxGen |-> [trStrats[g] EXCEPT !.cached = FALSE]]
    /\ UNCHANGED <<trKind, trGen, trCur, trToken, trTimers, trHandle, trRun, trValid, trOther, trExcuse>>

\* catch of performTokenRefresh, for an error that is not about the token. A
\* first run throws to the caller, which stops the refresh.
FailedOther(r) ==
    /\ trRun' = [trRun EXCEPT ![r] = IdleRun]
    /\ IF trRun[r].first THEN Stopped
       ELSE RetryLater /\ UNCHANGED <<trCur, trToken>>

\* The rest of a run that has a token: the configuration to save is that of the
\* current strategy, whichever it is by now; without one the run fails.
Proceed(r, strats) ==
    IF trCur = 0
    THEN /\ trRun' = [trRun EXCEPT ![r] = IdleRun]
         /\ IF trRun[r].first THEN Stopped
            ELSE RetryLater /\ trToken' = TRUE /\ UNCHANGED trCur
    ELSE /\ trToken' = TRUE
         /\ IF trKind.persists /\ strats[trCur].changed
            THEN trRun' = [trRun EXCEPT ![r] = [@ EXCEPT !.pc = "read", !.gen = 0, !.data = strats[trCur]]]
            ELSE trRun' = [trRun EXCEPT ![r] = [@ EXCEPT !.pc = "notify", !.gen = 0]]
         /\ TimersKept /\ UNCHANGED trCur

\* refreshToken with a cached access token: no request.
UseCached(r) ==
    /\ trRun[r].pc = "call" /\ trStrats[trRun[r].gen].cached
    /\ Proceed(r, trStrats)
    /\ UNCHANGED <<trKind, trStrats, trGen, trValid, trDb, trOther, trExcuse>>

Asked(r) == trRun[r].pc = "call" /\ ~trStrats[trRun[r].gen].cached
Accepted(r) == Asked(r) /\ trStrats[trRun[r].gen].refresh = trValid

\* Mutant: the change is not noted.
AnsweredUnmarked(n) == [refresh |-> n, cached |-> trKind.caches, changed |-> FALSE]

\* The strategy object after an answer, which may have brought a new refresh
\* token: configChanged is set.
Answered(n) == [refresh |-> n, cached |-> trKind.caches, changed |-> trKind.persists]

\* The provider's answer changes the strategy object the run called.
RefreshOk(r, rotated) ==
    LET g == trRun[r].gen
        n == IF rotated THEN trValid + 1 ELSE trValid
        strats == [trStrats EXCEPT ![g] = Answered(n)] IN
    /\ Accepted(r) /\ rotated \in trKind.rotates /\ (trKind.required => rotated)
    /\ n <= MaxRotate
    /\ trValid' = n
    /\ trStrats' = strats
    /\ trExcuse' = IF g # trCur THEN trExcuse \cup {"lost"} ELSE trExcuse
    /\ Proceed(r, strats)
    /\ UNCHANGED <<trKind, trGen, trDb, trOther>>

\* A network error, a failing provider, or an answer without the new refresh
\* token the strategy requires; lost when the provider had rotated the token.
RefreshFails(r, lost) ==
    /\ Asked(r)
    /\ lost => TRUE \in trKind.rotates /\ Accepted(r) /\ trValid < MaxRotate
    /\ trValid' = IF lost THEN trValid + 1 ELSE trValid
    /\ trExcuse' = IF lost THEN trExcuse \cup {"lost"} ELSE trExcuse
    /\ FailedOther(r)
    /\ UNCHANGED <<trKind, trStrats, trGen, trDb, trOther>>

\* The provider refuses the token (400, 401): the refresh stops, even if the
\* strategy is a newer one. Peta's strategy hides the status and is retried.
RefreshRefused(r) ==
    /\ Asked(r) /\ ~Accepted(r) /\ trKind.refused # "clear"
    /\ IF trKind.refused = "retry" THEN FailedOther(r)
       ELSE trRun' = [trRun EXCEPT ![r] = IdleRun] /\ Stopped
    /\ UNCHANGED <<trKind, trStrats, trGen, trValid, trDb, trOther, trExcuse>>

\* handleInvalidIntercomToken: the saved tokens are cleared, then the server is
\* disconnected and disabled.
IntercomInvalid(r) ==
    /\ Asked(r) /\ ~Accepted(r) /\ trKind.refused = "clear"
    /\ trRun' = [trRun EXCEPT ![r].pc = "clear"]
    /\ UNCHANGED <<trKind, trStrats, trGen, trCur, trToken, trTimers, trHandle, trValid, trDb, trOther, trExcuse>>
ClearIntercomOAuthState(r, saved) ==
    /\ trRun[r].pc = "clear"
    /\ trDb' = IF saved THEN [trDb EXCEPT !.refresh = 0, !.cached = FALSE] ELSE trDb
    /\ trRun' = [trRun EXCEPT ![r] = IdleRun]
    /\ Stopped
    /\ UNCHANGED <<trKind, trStrats, trGen, trValid, trOther, trExcuse>>

\* updateUserLaunchConfig: the row holds the configurations of all the user's
\* servers, is read...
ReadLaunchConfigs(r) ==
    /\ trRun[r].pc = "read"
    /\ trRun' = [trRun EXCEPT ![r].pc = "save", ![r].other = trDb.other]
    /\ trExcuse' = IF trOther.pc = "write" \/ \E q \in TrRuns : trRun[q].pc = "save"
                   THEN trExcuse \cup {"overlap"} ELSE trExcuse
    /\ UNCHANGED <<trKind, trStrats, trGen, trCur, trToken, trTimers, trHandle, trValid, trDb, trOther>>

\* Mutant: only the server's own configuration is written.
MergedAlone(r) == 0

\* The configurations of the other servers, as they were read.
Merged(r) == trRun[r].other

MarkPersisted == IF trCur = 0 THEN trStrats ELSE [trStrats EXCEPT ![trCur].changed = FALSE]

\* ... changed and written back. A failure is caught in ServerManager, so the
\* strategy is marked as persisted in any case.
SaveLaunchConfigs(r, saved) ==
    /\ trRun[r].pc = "save"
    /\ trDb' = IF saved THEN [refresh |-> trRun[r].data.refresh, cached |-> trRun[r].data.cached, other |-> Merged(r)]
                        ELSE trDb
    /\ trExcuse' = IF saved THEN trExcuse ELSE trExcuse \cup {"save"}
    /\ trStrats' = MarkPersisted
    /\ trRun' = [trRun EXCEPT ![r] = [IdleRun EXCEPT !.pc = "notify", !.first = trRun[r].first]]
    /\ UNCHANGED <<trKind, trGen, trCur, trToken, trTimers, trHandle, trValid, trOther>>

\* Mutant: the next refresh is scheduled only after a run of the timer.
NotifyTokenUpdateOnly(r) ==
    /\ trRun[r].pc = "notify"
    /\ trRun' = [trRun EXCEPT ![r] = IdleRun]
    /\ IF trRun[r].first THEN TimersKept ELSE ScheduleNextRefresh
    /\ UNCHANGED <<trKind, trStrats, trGen, trCur, trToken, trValid, trDb, trOther, trExcuse>>

\* notifyTokenUpdate, whose errors are caught, and the next timer.
NotifyTokenUpdate(r) ==
    /\ trRun[r].pc = "notify"
    /\ trRun' = [trRun EXCEPT ![r] = IdleRun]
    /\ ScheduleNextRefresh
    /\ UNCHANGED <<trKind, trStrats, trGen, trCur, trToken, trValid, trDb, trOther, trExcuse>>

\* disconnectServerContext, or the cleanup of a connection that failed.
StopTokenRefresh ==
    /\ trCur # 0
    /\ Stopped
    /\ UNCHANGED <<trKind, trStrats, trGen, trRun, trValid, trDb, trOther, trExcuse>>

\* The user or the provider withdraws the token.
Revoke ==
    /\ trValid # 0
    /\ trValid' = 0
    /\ UNCHANGED <<trKind, trStrats, trGen, trCur, trToken, trTimers, trHandle, trRun, trDb, trOther, trExcuse>>

\* Another server of the same user saves its configuration.
OtherReads ==
    /\ trOther.pc = "idle" /\ trOther.saved < MaxOther
    /\ trOther' = [trOther EXCEPT !.pc = "write", !.read = trDb]
    /\ trExcuse' = IF \E q \in TrRuns : trRun[q].pc = "save" THEN trExcuse \cup {"overlap"} ELSE trExcuse
    /\ UNCHANGED <<trKind, trStrats, trGen, trCur, trToken, trTimers, trHandle, trRun, trValid, trDb>>
OtherWrites ==
    /\ trOther.pc = "write"
    /\ trDb' = [trOther.read EXCEPT !.other = trOther.saved + 1]
    /\ trOther' = [pc |-> "idle", read |-> 0, saved |-> trOther.saved + 1]
    /\ UNCHANGED <<trKind, trStrats, trGen, trCur, trToken, trTimers, trHandle, trRun, trValid, trExcuse>>

\* The process ends and starts again: what is in memory is gone.
ProcessRestarts ==
    /\ trCur # 0 \/ Busy # {}
    /\ trExcuse' = trExcuse \cup (IF Busy # {} \/ (trCur # 0 /\ trStrats[trCur].changed) THEN {"lost"} ELSE {})
    /\ trCur' = 0 /\ trToken' = FALSE /\ trTimers' = {} /\ trHandle' = 0
    /\ trRun' = [r \in TrRuns |-> IdleRun]
    /\ trOther' = [trOther EXCEPT !.pc = "idle", !.read = 0]
    /\ UNCHANGED <<trKind, trStrats, trGen, trValid, trDb>>

RefreshStep ==
    \/ \E r \in TrRuns :
        \/ StartTokenRefresh(r) \/ UseCached(r) \/ RefreshRefused(r) \/ IntercomInvalid(r)
        \/ ReadLaunchConfigs(r) \/ NotifyTokenUpdate(r)
        \/ \E t \in TimerIds : TimerFires(t, r)
        \/ \E b \in BOOLEAN :
            RefreshOk(r, b) \/ RefreshFails(r, b) \/ SaveLaunchConfigs(r, b) \/ ClearIntercomOAuthState(r, b)
    \/ TokenAges \/ StopTokenRefresh \/ Revoke \/ ProcessRestarts
OtherStep == OtherReads \/ OtherWrites
RefreshNext == RefreshStep \/ OtherStep
RefreshSpec == RefreshInit /\ [][RefreshNext]_refreshVars

-----------------------------------------------------------------------------
(* Properties *)

\* The longest delay of a timer of Node, 2^31 - 1 ms, in seconds.
LongestTimer == 2147483

\* The types of the variables; a timer is armed for at least ten seconds and
\* for no more than a timer of Node takes, which would fire at once
\* (ServerContext.ts:342-356).
RefreshTypeOK ==
    /\ trGen \in 0..MaxGen /\ trCur \in 0..trGen /\ trValid \in 0..MaxRotate
    /\ trTimers \subseteq TimerIds /\ trHandle \in TimerIds \cup {0}
    /\ \A r \in TrRuns : /\ trRun[r].pc \in {"idle", "call", "read", "save", "notify", "clear"}
                         /\ trRun[r].gen \in 0..trGen
    /\ trExcuse \subseteq Excuses
    /\ \A left \in ExpiresIn : RefreshDelay(left) \in 10..LongestTimer

\* As long as the context has a strategy its token goes on being refreshed: a
\* run is under way or a timer is armed, whatever refreshes, saves and
\* notifications fail; and only one, unless the refresh was restarted while a
\* run or a retry of the former one was left (ServerContext.ts:300-444).
OneChain ==
    trCur # 0 =>
        LET chains == Cardinality(trTimers) + Cardinality(Busy) IN
        chains >= 1 /\ ("restarted" \notin trExcuse => chains = 1)

\* The refresh token the provider accepts is in the database, in a save
\* under way or with a strategy that is in use, over any number of rotations, failed refreshes and
\* restarts, unless one of the losses of trExcuse happened: an answer that got
\* lost or came after its strategy was stopped or replaced, a restart while a
\* former run was left, a failed save, a crash before the save or two saves
\* that overlapped
\* (ServerContext.ts:384-399, ServerManager.ts:2024-2099).
RotationKept ==
    trExcuse = {} =>
        trValid \in {0, trDb.refresh} \cup {trRun[r].data.refresh : r \in Busy}
                    \cup {trStrats[g].refresh : g \in ({trCur} \cup {trRun[r].gen : r \in Busy}) \ {0}}

\* A save of one server's configuration keeps what was saved for another
\* server of the same user, unless the two overlapped
\* (ServerManager.ts:2042-2086).
OthersKept ==
    "overlap" \notin trExcuse => trDb.other = trOther.saved

\* "flag remains true, will retry next time" (ServerContext.ts:616): a
\* strategy whose configuration counts as persisted is the one in the database,
\* also when a save has failed.
MarkedIsSaved ==
    (trCur # 0 /\ trExcuse \subseteq {"save"} /\ Busy = {} /\ trKind.persists /\ ~trStrats[trCur].changed /\ trDb.refresh # 0)
        => trDb.refresh = trStrats[trCur].refresh

\* Tokens go on being refreshed, and what a refresh rotated is not lost
\* (ServerContext.ts, ServerManager.ts:2024-2099).
TokensRefreshed == RefreshTypeOK /\ OneChain /\ RotationKept /\ OthersKept
=============================================================================
