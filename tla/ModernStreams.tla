---------------------------- MODULE ModernStreams ----------------------------
(* subscriptions/listen of the stateless controller: a stream subscribes to  *)
(* resources of legacy downstream servers, then listens on the bus where     *)
(* GlobalRequestRouter publishes what those servers announce.                *)
EXTENDS Naturals, FiniteSets, FiniteSetsExt

CONSTANTS
    MStreams,    \* requests for a stream
    MsManaged,   \* contexts of managed servers, with a resource each
    MsTemp,      \* contexts of temporary servers, with a resource each
    MsSessions,  \* sessions of legacy clients
    MUpdates,    \* announcements being handled
    MaxVersion,  \* bound: versions of a resource
    MaxTick,     \* bound: milliseconds
    NoScope
MsScopes == MsManaged \cup MsTemp
ASSUME StreamsAssumption == {MaxVersion, MaxTick} \subseteq Nat \ {0} /\ NoScope \notin MsScopes

VARIABLES
    msStream,  \* streams
    msMay,     \* managed servers the token of a stream gives access to
    msDown,    \* subscribedSessions of each context's resource
    msBus,     \* streams that listen
    msLive,    \* contexts that exist
    msAble,    \* contexts with a legacy connection that supports subscriptions
    msVersion, \* version of each resource
    msCache,   \* cached version of each resource, 0 none
    msFence,   \* purges of each resource
    msRead,    \* a read that fills the cache
    msUpd,     \* announcements
    msTold,    \* last version each stream was told of
    msBad,     \* resources of which a purge failed
    msTick,    \* Date.now()
    msSubs,    \* resources each session is subscribed to
    msSentAt,  \* last time a session was told of a resource
    msDone     \* arrival of the last announcement of a resource that was handled
streamVars == <<msStream, msMay, msDown, msBus>>
scopeVars == <<msLive, msAble>>
readVars == <<msVersion, msCache, msFence, msRead, msBad>>
tellVars == <<msUpd, msTold, msTick, msSubs, msSentAt, msDone>>
modernVars == <<streamVars, scopeVars, readVars, tellVars>>

NoStream == [pc |-> "none", todo |-> {}, wait |-> NoScope, held |-> {}, match |-> {}, gone |-> FALSE]
IdleUpdate == [pc |-> "idle", scope |-> NoScope, ver |-> 0, at |-> 0]
IdleRead == [pc |-> "idle", scope |-> NoScope, fence |-> 0, ver |-> 0]

StreamsInit ==
    /\ msStream = [s \in MStreams |-> NoStream]
    /\ msMay \in [MStreams -> SUBSET MsManaged]
    /\ msDown = [c \in MsScopes |-> {}]
    /\ msBus = {}
    /\ msLive = MsScopes
    /\ msAble \in SUBSET MsScopes
    /\ msVersion = [c \in MsScopes |-> 1]
    /\ msCache = [c \in MsScopes |-> 0]
    /\ msFence = [c \in MsScopes |-> 0]
    /\ msRead = IdleRead
    /\ msUpd = [u \in MUpdates |-> IdleUpdate]
    /\ msTold = [s \in MStreams |-> [c \in MsScopes |-> 0]]
    /\ msBad = {}
    /\ msTick = 1
    /\ msSubs \in [MsSessions -> SUBSET MsManaged]
    /\ msSentAt = [e \in MsSessions |-> [c \in MsScopes |-> 0]]
    /\ msDone = [c \in MsScopes |-> 0]

\* Mutant: the temporary servers of users as well.
CanAccessUserInput(s, c) == c \in msLive /\ (c \in MsManaged => c \in msMay[s])

\* getServerContextByID and getTemporaryServerContextByID, then canAccessServer
\* and canAccessResource: a temporary context belongs to a server that needs
\* user input, which no stream may see; the permissions of the token are those
\* of the moment the stream was requested.
CanAccess(s, c) == c \in msLive /\ c \in MsManaged /\ c \in msMay[s]

\* buildSubscriptionFilter: a gateway URI names the resource of one context, an
\* original URI (raw) that of every context that has it, and a filter without
\* URIs matches them all.
Filter(uris, raw) == IF raw \/ uris = {} THEN MsScopes ELSE uris

\* handleSubscriptionListen, up to the first subscription.
Listen(s, uris, raw) ==
    /\ msStream[s].pc = "none"
    /\ msStream' = [msStream EXCEPT ![s] =
           [NoStream EXCEPT !.pc = "subscribing", !.todo = uris, !.match = Filter(uris, raw)]]
    /\ UNCHANGED <<msMay, msDown, msBus, scopeVars, readVars, tellVars>>

\* One turn of the loop of subscribeModernResources: an unknown or forbidden
\* resource ends it, a server that cannot subscribe is passed over; otherwise
\* the stream is a subscriber from before the downstream call on.
SubscribeNext(s, c) ==
    /\ msStream[s].pc = "subscribing" /\ msStream[s].wait = NoScope /\ c \in msStream[s].todo
    /\ IF ~CanAccess(s, c)
       THEN /\ msStream' = [msStream EXCEPT ![s].pc = "rollback"]
            /\ UNCHANGED msDown
       ELSE IF c \notin msAble
       THEN /\ msStream' = [msStream EXCEPT ![s].todo = @ \ {c}]
            /\ UNCHANGED msDown
       ELSE /\ msStream' = [msStream EXCEPT ![s].todo = @ \ {c}, ![s].wait = c]
            /\ msDown' = [msDown EXCEPT ![c] = @ \cup {s}]
    /\ UNCHANGED <<msMay, msBus, scopeVars, readVars, tellVars>>

Subscribed(s) ==
    /\ msStream[s].wait # NoScope
    /\ msStream' = [msStream EXCEPT ![s].wait = NoScope, ![s].held = @ \cup {msStream[s].wait}]
    /\ UNCHANGED <<msMay, msDown, msBus, scopeVars, readVars, tellVars>>

SubscribeFails(s) ==
    /\ msStream[s].wait # NoScope
    /\ msDown' = [msDown EXCEPT ![msStream[s].wait] = @ \ {s}]
    /\ msStream' = [msStream EXCEPT ![s].pc = "rollback", ![s].wait = NoScope]
    /\ UNCHANGED <<msMay, msBus, scopeVars, readVars, tellVars>>

\* Mutant: the subscriptions made before the failure stay.
RollbackNothing(s) ==
    /\ msStream[s].pc = "rollback"
    /\ msStream' = [msStream EXCEPT ![s] = [NoStream EXCEPT !.pc = "failed", !.gone = msStream[s].gone]]
    /\ UNCHANGED <<msMay, msDown, msBus, scopeVars, readVars, tellVars>>

\* cleanupModernResourceSubscriptions: unsubscribeResource drops the subscriber
\* at once; errors of the downstream call after it are caught.
Released(s) == [c \in MsScopes |-> IF c \in msStream[s].held THEN msDown[c] \ {s} ELSE msDown[c]]

\* The stream cannot be set up: what was subscribed is undone, then the error
\* is sent.
Rollback(s) ==
    /\ msStream[s].pc = "rollback"
    /\ msDown' = Released(s)
    /\ msStream' = [msStream EXCEPT ![s] = [NoStream EXCEPT !.pc = "failed", !.gone = msStream[s].gone]]
    /\ UNCHANGED <<msMay, msBus, scopeVars, readVars, tellVars>>

\* The acknowledgement, the listener on the bus, and the handler of the close of
\* the response, which is too late for a client that has already gone.
Open(s) ==
    /\ msStream[s].pc = "subscribing" /\ msStream[s].wait = NoScope /\ msStream[s].todo = {}
    /\ msStream' = [msStream EXCEPT ![s].pc = "open"]
    /\ msBus' = msBus \cup {s}
    /\ UNCHANGED <<msMay, msDown, scopeVars, readVars, tellVars>>

\* Mutant: the listener stays on the bus.
ClosedListening(s) == msDown' = Released(s) /\ UNCHANGED msBus

\* closeSubscription
Closed(s) ==
    /\ msBus' = msBus \ {s}
    /\ msDown' = Released(s)

\* The client closes its connection; nobody is told before the stream is open.
ClientCloses(s) ==
    /\ msStream[s].pc \in {"subscribing", "rollback", "open"} /\ ~msStream[s].gone
    /\ IF msStream[s].pc = "open"
       THEN /\ Closed(s)
            /\ msStream' = [msStream EXCEPT ![s] = [NoStream EXCEPT !.pc = "ended", !.gone = TRUE]]
       ELSE /\ msStream' = [msStream EXCEPT ![s].gone = TRUE]
            /\ UNCHANGED <<msDown, msBus>>
    /\ UNCHANGED <<msMay, scopeVars, readVars, tellVars>>

\* The timer of the token's expiry.
AuthExpires(s) ==
    /\ msStream[s].pc = "open"
    /\ Closed(s)
    /\ msStream' = [msStream EXCEPT ![s] = [NoStream EXCEPT !.pc = "ended", !.gone = msStream[s].gone]]
    /\ UNCHANGED <<msMay, scopeVars, readVars, tellVars>>

\* A server is removed, with its context.
ScopeRemoved(c) ==
    /\ c \in msLive
    /\ msLive' = msLive \ {c}
    /\ UNCHANGED <<streamVars, msAble, readVars, tellVars>>

\* A read through the result cache: it keeps what it fetched only if nothing
\* purged the resource since it began.
ReadBegins(c) ==
    /\ msRead.pc = "idle"
    /\ msRead' = [pc |-> "fetch", scope |-> c, fence |-> msFence[c], ver |-> 0]
    /\ UNCHANGED <<streamVars, scopeVars, msVersion, msCache, msFence, msBad, tellVars>>
ReadFetched ==
    /\ msRead.pc = "fetch"
    /\ msRead' = [msRead EXCEPT !.pc = "store", !.ver = msVersion[msRead.scope]]
    /\ UNCHANGED <<streamVars, scopeVars, msVersion, msCache, msFence, msBad, tellVars>>
ReadStored ==
    /\ msRead.pc = "store"
    /\ msCache' = IF msFence[msRead.scope] = msRead.fence
                  THEN [msCache EXCEPT ![msRead.scope] = msRead.ver] ELSE msCache
    /\ msRead' = IdleRead
    /\ UNCHANGED <<streamVars, scopeVars, msVersion, msFence, msBad, tellVars>>

\* A resource changes and its server announces it: handleResourceUpdated.
UpdateArrives(u, c) ==
    /\ msUpd[u].pc = "idle" /\ c \in msLive /\ msVersion[c] < MaxVersion
    /\ msVersion' = [msVersion EXCEPT ![c] = @ + 1]
    /\ msUpd' = [msUpd EXCEPT ![u] = [pc |-> "purge", scope |-> c, ver |-> msVersion[c] + 1, at |-> msTick]]
    /\ UNCHANGED <<streamVars, scopeVars, msCache, msFence, msRead, msBad, msTold, msTick, msSubs, msSentAt, msDone>>

\* invalidateResource, which may fail.
Purge(u, done) ==
    LET c == msUpd[u].scope IN
    /\ msUpd[u].pc = "purge"
    /\ IF done
       THEN /\ msCache' = [msCache EXCEPT ![c] = 0]
            /\ msFence' = [msFence EXCEPT ![c] = @ + 1]
            /\ UNCHANGED msBad
       ELSE msBad' = msBad \cup {c} /\ UNCHANGED <<msCache, msFence>>
    /\ msUpd' = [msUpd EXCEPT ![u].pc = "publish"]
    /\ UNCHANGED <<streamVars, scopeVars, msVersion, msRead, msTold, msTick, msSubs, msSentAt, msDone>>

\* subscriptionMatches and canReceiveSubscriptionEvent: the resource matches the
\* filter of the stream, and its context is still one the stream may see.
Receives(s, c) == s \in msBus /\ c \in msStream[s].match /\ CanAccess(s, c)

\* Mutant: a session is told once and for all.
ToldBefore(e, c) == msSentAt[e][c] # 0

\* sentNotifications: the key of a notification has the time in it.
AlreadySent(e, c) == msSentAt[e][c] = msTick

\* Mutant: the streams are told before the purge.
PublishFirst(u) ==
    LET c == msUpd[u].scope IN
    /\ msUpd[u].pc # "idle"
    /\ msTold' = [s \in MStreams |-> IF Receives(s, c)
           THEN [msTold[s] EXCEPT ![c] = Max({@, msUpd[u].ver})] ELSE msTold[s]]
    /\ msSentAt' = [e \in MsSessions |-> IF c \in msSubs[e] /\ ~AlreadySent(e, c)
           THEN [msSentAt[e] EXCEPT ![c] = msTick] ELSE msSentAt[e]]
    /\ msDone' = [msDone EXCEPT ![c] = Max({@, msUpd[u].at})]
    /\ msUpd' = [msUpd EXCEPT ![u] = IdleUpdate]
    /\ UNCHANGED <<streamVars, scopeVars, readVars, msTick, msSubs>>

\* The event on the bus, then the sessions that subscribed and have access.
Publish(u) ==
    LET c == msUpd[u].scope IN
    /\ msUpd[u].pc = "publish"
    /\ msTold' = [s \in MStreams |-> IF Receives(s, c)
           THEN [msTold[s] EXCEPT ![c] = Max({@, msUpd[u].ver})] ELSE msTold[s]]
    /\ msSentAt' = [e \in MsSessions |-> IF c \in msSubs[e] /\ ~AlreadySent(e, c)
           THEN [msSentAt[e] EXCEPT ![c] = msTick] ELSE msSentAt[e]]
    /\ msDone' = [msDone EXCEPT ![c] = Max({@, msUpd[u].at})]
    /\ msUpd' = [msUpd EXCEPT ![u] = IdleUpdate]
    /\ UNCHANGED <<streamVars, scopeVars, readVars, msTick, msSubs>>

Millisecond ==
    /\ msTick < MaxTick
    /\ msTick' = msTick + 1
    /\ UNCHANGED <<streamVars, scopeVars, readVars, msUpd, msTold, msSubs, msSentAt, msDone>>

StreamStep(s) ==
    \/ \E c \in MsScopes : SubscribeNext(s, c)
    \/ Subscribed(s) \/ SubscribeFails(s) \/ Rollback(s) \/ Open(s) \/ ClientCloses(s) \/ AuthExpires(s)
ReadStep(scopes) == (\E c \in scopes : ReadBegins(c)) \/ ReadFetched \/ ReadStored
UpdateStep(updates, scopes) ==
    \E u \in updates :
        \/ \E c \in scopes : UpdateArrives(u, c)
        \/ \E d \in BOOLEAN : Purge(u, d)
        \/ Publish(u)
StreamsNext ==
    \/ \E s \in MStreams : (\E uris \in SUBSET MsScopes, raw \in BOOLEAN : Listen(s, uris, raw)) \/ StreamStep(s)
    \/ \E c \in MsScopes : ScopeRemoved(c)
    \/ ReadStep(MsScopes) \/ UpdateStep(MUpdates, MsScopes) \/ Millisecond
StreamsSpec == StreamsInit /\ [][StreamsNext]_modernVars

-----------------------------------------------------------------------------
(* Properties *)

\* The types of the variables; an open stream and nobody else listens, and is a
\* subscriber of every resource it acknowledged (ModernMcpController.ts:685-775).
StreamsTypeOK ==
    /\ \A s \in MStreams :
        /\ msStream[s].pc \in {"none", "subscribing", "rollback", "open", "ended", "failed"}
        /\ msStream[s].todo \subseteq MsScopes /\ msStream[s].held \subseteq MsScopes
        /\ msStream[s].wait # NoScope => msStream[s].pc = "subscribing"
        /\ (s \in msBus) = (msStream[s].pc = "open")
        /\ \A c \in msStream[s].held : s \in msDown[c]
    /\ msLive \subseteq MsScopes /\ msAble \subseteq MsScopes
    /\ \A c \in MsScopes : msCache[c] \in 0..msVersion[c] /\ msVersion[c] \in 1..MaxVersion
    /\ \A u \in MUpdates : msUpd[u].pc \in {"idle", "purge", "publish"}

\* A stream that ended or could not be set up holds nothing: no listener on the
\* bus and no downstream subscription, whichever of several subscriptions
\* failed ("a failed multi-resource setup removes subscriptions already
\* established by that request", docs/api/API.md; ModernMcpController.ts:1349-1364).
NothingHeld ==
    \A s \in MStreams : msStream[s].pc \in {"none", "ended", "failed"} =>
        s \notin msBus /\ \A c \in MsScopes : s \notin msDown[c]

\* A stream that was told of a version of a resource finds none older in the
\* result cache, with reads under way during the purge, unless a purge of the
\* resource failed (GlobalRequestRouter.ts:136-158).
FreshOnUpdate ==
    \A s \in MStreams, c \in MsScopes \ msBad :
        msTold[s][c] > 0 /\ msCache[c] > 0 => msCache[c] >= msTold[s][c]

\* What a temporary server announces reaches no stream, and what a managed one
\* announces only streams with access to it, also those whose filter names the
\* resource without its context, or no resource (docs/architecture.md:133,
\* ModernMcpController.ts:1245-1321).
ScopeKept ==
    \A s \in MStreams, c \in MsScopes : msTold[s][c] > 0 => c \in msMay[s]

\* A session that is subscribed has been told of every announcement that was
\* handled, at its arrival or later: the deduplication of the router drops no
\* announcement of a later millisecond (GlobalRequestRouter.ts:171-203).
SessionsHear ==
    \A e \in MsSessions : \A c \in msSubs[e] : msSentAt[e][c] >= msDone[c]

\* Streams and sessions hear what they subscribed to and may hear, find it in
\* the cache, and leave nothing behind (ModernMcpController.ts:1166-1364,
\* GlobalRequestRouter.ts).
StreamsServed == StreamsTypeOK /\ NothingHeld /\ FreshOnUpdate /\ ScopeKept /\ SessionsHear
=============================================================================
