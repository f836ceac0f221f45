--------------------------- MODULE RequestRouting ---------------------------
(* The requests of clients on their way to a shared downstream connection    *)
(* (ProxySession, RequestIdMapper, the transport wrapper of ServerManager):   *)
(* the id maps, the retries after a timeout, the cancellations and progress   *)
(* notifications that find their request through the maps.                   *)
EXTENDS Naturals, FiniteSets

CONSTANTS
    RSess,      \* sessions
    Rids,       \* request ids of clients: every client counts from the same one
    RetryLimit, \* retries of a request (2 in the code)
    MaxEpoch    \* bound on the connections to the downstream server
ASSUME RtAssumption == RetryLimit \in Nat /\ MaxEpoch \in Nat \ {0}

Calls == RSess \X Rids           \* a client uses an id once in a session
Kinds == {"tool", "resource", "prompt", "completion"}
Gens == 1..(RetryLimit + 1)      \* timestamps in the proxy ids of one request
Proxies == Calls \X Gens         \* session:originalRequestId:timestamp
Dids == 0..(Cardinality(Calls) * (RetryLimit + 1))
NoDown == [epoch |-> 0, did |-> 0]
NoEntry == [here |-> FALSE, token |-> FALSE, down |-> NoDown]

VARIABLES
    rpc,      \* where the handler of each call is
    kind,     \* the method
    tries,    \* retryCount
    client,   \* the connection it captured, 0 if none
    down,     \* the downstream request it waits for
    gen,      \* timestamps used so far by its proxy ids
    mine,     \* proxy ids its attempts registered
    clientToProxy, proxyToClient, proxyToDownstream, downstreamToProxy,
    epoch,    \* the current connection of the server, 0 while there is none
    opened,   \* connections opened so far
    nextDid,  \* request counter of each connection
    wire,     \* requests the downstream server has not answered
    live,     \* sessions in the SessionStore
    astray,   \* history: a cancellation hit another request on the connection of its own
    late      \* history: progress was forwarded for a finished call
rtVars == <<rpc, kind, tries, client, down, gen, mine, clientToProxy, proxyToClient,
            proxyToDownstream, downstreamToProxy, epoch, opened, nextDid, wire, live,
            astray, late>>
mapVars == <<clientToProxy, proxyToClient, proxyToDownstream, downstreamToProxy>>
connVars == <<epoch, opened, nextDid, wire>>
callVars == <<rpc, kind, tries, client, down, gen, mine>>
histVars == <<live, astray, late>>

NoProxy == <<>>
Ended == {"done", "error", "lost"}

RtInit ==
    /\ rpc = [c \in Calls |-> "new"] /\ kind = [c \in Calls |-> "none"]
    /\ tries = [c \in Calls |-> 0] /\ client = [c \in Calls |-> 0]
    /\ down = [c \in Calls |-> NoDown] /\ gen = [c \in Calls |-> 0]
    /\ mine = [c \in Calls |-> {}]
    /\ clientToProxy = [c \in Calls |-> NoProxy] /\ proxyToClient = {}
    /\ proxyToDownstream = [p \in Proxies |-> NoEntry]
    /\ downstreamToProxy = [k \in RSess \X Dids |-> NoProxy]
    /\ epoch = 1 /\ opened = 1 /\ nextDid = [e \in 1..MaxEpoch |-> 0] /\ wire = {}
    /\ live = RSess /\ astray = FALSE /\ late = FALSE

-----------------------------------------------------------------------------
(* The maps *)

\* removeMapping for a set of proxy ids of one call.
Removed(c, ps) ==
    LET gone == {p \in ps : proxyToDownstream[p].here} IN
    /\ clientToProxy' = [clientToProxy EXCEPT ![c] = IF gone # {} THEN NoProxy ELSE @]
    /\ proxyToClient' = proxyToClient \ gone
    /\ proxyToDownstream' = [p \in Proxies |-> IF p \in gone THEN NoEntry ELSE proxyToDownstream[p]]
    /\ downstreamToProxy' = [k \in RSess \X Dids |->
           IF \E p \in gone : /\ proxyToDownstream[p].down # NoDown
                              /\ k = <<c[1], proxyToDownstream[p].down.did>>
           THEN NoProxy ELSE downstreamToProxy[k]]

\* registerClientRequest and setOriginalProgressToken: the id of an attempt
\* before it, a retry, is used again.
Registered(c) ==
    LET p == IF clientToProxy[c] # NoProxy THEN clientToProxy[c] ELSE <<c, gen[c] + 1>> IN
    /\ gen' = [gen EXCEPT ![c] = IF clientToProxy[c] # NoProxy THEN @ ELSE @ + 1]
    /\ mine' = [mine EXCEPT ![c] = @ \cup {p}]
    /\ clientToProxy' = [clientToProxy EXCEPT ![c] = p]
    /\ proxyToClient' = proxyToClient \cup {p}
    /\ proxyToDownstream' = [proxyToDownstream EXCEPT ![p].here = TRUE, ![p].token = TRUE]
    /\ UNCHANGED downstreamToProxy

\* Mutant: the key of an earlier attempt stays.
TrackWithoutReset(p, d) ==
    IF proxyToDownstream[p].here
    THEN /\ proxyToDownstream' = [proxyToDownstream EXCEPT ![p].down = d]
         /\ downstreamToProxy' = [downstreamToProxy EXCEPT ![<<p[1][1], d.did>>] = p]
         /\ UNCHANGED <<clientToProxy, proxyToClient>>
    ELSE UNCHANGED mapVars

\* registerDownstreamMapping: the key of an earlier attempt goes.
TrackDownstream(p, d) ==
    IF proxyToDownstream[p].here
    THEN LET old == proxyToDownstream[p].down   s == p[1][1] IN
         /\ proxyToDownstream' = [proxyToDownstream EXCEPT ![p].down = d]
         /\ downstreamToProxy' = [k \in RSess \X Dids |->
                IF k = <<s, d.did>> THEN p
                ELSE IF old # NoDown /\ k = <<s, old.did>> THEN NoProxy
                ELSE downstreamToProxy[k]]
         /\ UNCHANGED <<clientToProxy, proxyToClient>>
    ELSE UNCHANGED mapVars

-----------------------------------------------------------------------------
(* The handlers *)

\* Mutant: the mappings of the attempts stay.
FinishKeeping(c, how) ==
    /\ rpc' = [rpc EXCEPT ![c] = how]
    /\ kind' = [kind EXCEPT ![c] = "none"]
    /\ client' = [client EXCEPT ![c] = 0]
    /\ down' = [down EXCEPT ![c] = NoDown]
    /\ gen' = [gen EXCEPT ![c] = 0]
    /\ mine' = [mine EXCEPT ![c] = {}]
    /\ UNCHANGED <<tries, mapVars>>

\* The call ends; the finally blocks of its attempts remove their mappings.
Finish(c, how) ==
    /\ rpc' = [rpc EXCEPT ![c] = how]
    /\ Removed(c, mine[c])
    /\ kind' = [kind EXCEPT ![c] = "none"]
    /\ client' = [client EXCEPT ![c] = 0]
    /\ down' = [down EXCEPT ![c] = NoDown]
    /\ gen' = [gen EXCEPT ![c] = 0]
    /\ mine' = [mine EXCEPT ![c] = {}]
    /\ tries' = tries

\* An attempt starts: the name cannot be resolved or is not permitted, the cache
\* has the answer, or the server is made available.
Enter(c, k, outcomes) ==
    /\ rpc[c] \in {"new", "retry"} /\ kind[c] \in {"none", k}
    /\ \/ \E how \in outcomes : Finish(c, how)
       \/ /\ rpc' = [rpc EXCEPT ![c] = "avail"]
          /\ kind' = [kind EXCEPT ![c] = k]
          /\ UNCHANGED <<tries, client, down, gen, mine, mapVars>>
    /\ UNCHANGED <<connVars, histVars>>

HandleToolCall(c) == Enter(c, "tool", {"error", "done"})
HandleResourceRead(c) == Enter(c, "resource", {"error", "done"})
HandlePromptGet(c) == Enter(c, "prompt", {"error", "done"})
\* A completion is neither cached nor checked for permission.
HandleComplete(c) == Enter(c, "completion", {"error"})

\* No context or no connection: the client is told.
NoServer(c) ==
    /\ rpc[c] = "avail"
    /\ Finish(c, "error")
    /\ UNCHANGED <<connVars, histVars>>

\* A tool call captures the connection before the policy and the approval are
\* looked at, which may take long, and registers after them.
CaptureForTool(c) ==
    /\ rpc[c] = "avail" /\ kind[c] = "tool" /\ epoch # 0
    /\ rpc' = [rpc EXCEPT ![c] = "gate"]
    /\ client' = [client EXCEPT ![c] = epoch]
    /\ UNCHANGED <<kind, tries, down, gen, mine, mapVars, connVars, histVars>>

RegisterTool(c) ==
    /\ rpc[c] = "gate"
    /\ rpc' = [rpc EXCEPT ![c] = "ready"]
    /\ Registered(c)
    /\ UNCHANGED <<kind, tries, client, down, connVars, histVars>>

\* The policy denies the call or the approval is not given.
Denied(c) ==
    /\ rpc[c] = "gate"
    /\ Finish(c, "error")
    /\ UNCHANGED <<connVars, histVars>>

\* The other methods capture and register in one step.
CaptureAndRegister(c, k) ==
    /\ rpc[c] = "avail" /\ kind[c] = k /\ epoch # 0
    /\ rpc' = [rpc EXCEPT ![c] = "ready"]
    /\ client' = [client EXCEPT ![c] = epoch]
    /\ Registered(c)
    /\ UNCHANGED <<kind, tries, down, connVars, histVars>>
CaptureForResource(c) == CaptureAndRegister(c, "resource")
CaptureForPrompt(c) == CaptureAndRegister(c, "prompt")
CaptureForComplete(c) == CaptureAndRegister(c, "completion")

\* executeWithCache: another request's fetch answers this one.
Followed(c) ==
    /\ rpc[c] = "ready" /\ kind[c] # "completion"
    /\ Finish(c, "done")
    /\ UNCHANGED <<connVars, histVars>>

\* The wrapped transport: the downstream id is recorded if the session is there,
\* then the message is sent; on a closed connection that fails.
Send(c) ==
    LET e == client[c]
        d == [epoch |-> e, did |-> nextDid[e]]
    IN
    /\ rpc[c] = "ready"
    /\ IF e = epoch
       THEN /\ rpc' = [rpc EXCEPT ![c] = "wait"]
            /\ down' = [down EXCEPT ![c] = d]
            /\ nextDid' = [nextDid EXCEPT ![e] = @ + 1]
            /\ wire' = wire \cup {[at |-> d, token |-> clientToProxy[c], call |-> c]}
            /\ IF c[1] \in live /\ clientToProxy[c] # NoProxy
               THEN TrackDownstream(clientToProxy[c], d) ELSE UNCHANGED mapVars
       ELSE /\ rpc' = [rpc EXCEPT ![c] = "closed"]
            /\ UNCHANGED <<down, nextDid, wire, mapVars>>
    /\ UNCHANGED <<kind, tries, client, gen, mine, epoch, opened, histVars>>

\* The server answers (external).
Answer(c, k) ==
    /\ rpc[c] = "wait" /\ kind[c] = k
    /\ down[c].epoch = epoch
    /\ \E w \in wire : w.at = down[c] /\ wire' = wire \ {w}
    /\ Finish(c, "done")
    /\ UNCHANGED <<epoch, opened, nextDid, histVars>>
ToolAnswered(c) == Answer(c, "tool")
ResourceAnswered(c) == Answer(c, "resource")
PromptAnswered(c) == Answer(c, "prompt")
CompleteAnswered(c) == Answer(c, "completion")

\* The SDK gives up after its timeout, the handler's catch block awaits
\* recordTimeout and the log.
TimesOut(c) ==
    /\ rpc[c] = "wait"
    /\ rpc' = [rpc EXCEPT ![c] = "timeout"]
    /\ UNCHANGED <<kind, tries, client, down, gen, mine, mapVars, connVars, histVars>>

\* Mutant: off by one.
RetryOnceMore(c) ==
    /\ rpc[c] = "timeout" /\ tries[c] <= RetryLimit
    /\ rpc' = [rpc EXCEPT ![c] = "retry"]
    /\ tries' = [tries EXCEPT ![c] = @ + 1]
    /\ UNCHANGED <<kind, client, down, gen, mine, mapVars, connVars, histVars>>

\* recordTimeout returned false, the connection was not replaced: the request is
\* made again, with its mapping still there.
Retry(c) ==
    /\ rpc[c] = "timeout" /\ tries[c] < RetryLimit
    /\ rpc' = [rpc EXCEPT ![c] = "retry"]
    /\ tries' = [tries EXCEPT ![c] = @ + 1]
    /\ UNCHANGED <<kind, client, down, gen, mine, mapVars, connVars, histVars>>

\* The retries are used up, recordTimeout has reconnected, or the error was not
\* a timeout: recordTimeout returns undefined and the request fails.
Fail(c, k) ==
    /\ kind[c] = k
    /\ \/ /\ rpc[c] = "timeout" /\ (tries[c] = RetryLimit \/ epoch # down[c].epoch)
          /\ Finish(c, "error")
       \/ rpc[c] = "closed" /\ Finish(c, "lost")
    /\ UNCHANGED <<connVars, histVars>>
ToolFailed(c) == Fail(c, "tool")
ResourceFailed(c) == Fail(c, "resource")
PromptFailed(c) == Fail(c, "prompt")
CompleteFailed(c) == Fail(c, "completion")

\* The connection is lost; what waited on it fails with ConnectionClosed.
Lose ==
    /\ epoch # 0
    /\ epoch' = 0
    /\ wire' = {}
    /\ rpc' = [c \in Calls |-> IF rpc[c] = "wait" THEN "closed" ELSE rpc[c]]
    /\ UNCHANGED <<kind, tries, client, down, gen, mine, mapVars, opened, nextDid, histVars>>

\* A new client connects; its request ids start again.
Reconnected ==
    /\ epoch = 0 /\ opened < MaxEpoch
    /\ opened' = opened + 1 /\ epoch' = opened + 1
    /\ UNCHANGED <<callVars, mapVars, nextDid, wire, histVars>>

-----------------------------------------------------------------------------
(* Notifications and cleanup *)

\* Mutant: the id of the client is used.
CancelIdOfClient(c) == [epoch |-> epoch, did |-> 0]

\* The connection that is current when the cancellation arrives is used, with
\* the id the request had on the connection it was sent on.
CancelId(c) == proxyToDownstream[clientToProxy[c]].down

\* handleCancelledNotification: unknown and unsent requests are ignored.
HandleCancelled(c) ==
    /\ c[1] \in live /\ rpc[c] \notin {"new"} \cup Ended
    /\ clientToProxy[c] # NoProxy
    /\ CancelId(c) # NoDown /\ epoch # 0
    /\ astray' = (astray \/ \E w \in wire :
           w.at = [epoch |-> epoch, did |-> CancelId(c).did] /\ w.call # c
           /\ CancelId(c).epoch = epoch)
    /\ UNCHANGED <<callVars, mapVars, connVars, live, late>>

\* Progress from the server: the token names the session and the entry.
ForwardProgress(w) ==
    /\ w \in wire /\ w.token # NoProxy
    /\ w.token[1][1] \in live
    /\ proxyToDownstream[w.token].token /\ w.token \in proxyToClient
    /\ late' = (late \/ rpc[w.token[1]] \in Ended)
    /\ UNCHANGED <<callVars, mapVars, connVars, live, astray>>

\* cleanupExpired: a mapping older than five minutes goes, finished or not.
CleanupExpired(c) ==
    /\ c[1] \in live /\ clientToProxy[c] # NoProxy
    /\ Removed(c, {clientToProxy[c]})
    /\ UNCHANGED <<callVars, connVars, histVars>>

\* The cleanup of the session destroys its mapper; its handlers go on.
CloseSession(s) ==
    /\ s \in live
    /\ live' = live \ {s}
    /\ clientToProxy' = [c \in Calls |-> IF c[1] = s THEN NoProxy ELSE clientToProxy[c]]
    /\ proxyToClient' = {p \in proxyToClient : p[1][1] # s}
    /\ proxyToDownstream' = [p \in Proxies |->
           IF p[1][1] = s THEN NoEntry ELSE proxyToDownstream[p]]
    /\ downstreamToProxy' = [k \in RSess \X Dids |->
           IF k[1] = s THEN NoProxy ELSE downstreamToProxy[k]]
    /\ UNCHANGED <<callVars, connVars, astray, late>>

ToolStep(c) == HandleToolCall(c) \/ CaptureForTool(c) \/ RegisterTool(c) \/ Denied(c)
            \/ ToolAnswered(c) \/ ToolFailed(c)
ReadStep(c) == HandleResourceRead(c) \/ CaptureForResource(c) \/ ResourceAnswered(c)
            \/ ResourceFailed(c)
PromptStep(c) == HandlePromptGet(c) \/ CaptureForPrompt(c) \/ PromptAnswered(c) \/ PromptFailed(c)
CompleteStep(c) == HandleComplete(c) \/ CaptureForComplete(c) \/ CompleteAnswered(c)
                \/ CompleteFailed(c)

\* The calls that are made and their methods are parameters.
RtNextOn(C, K) ==
    \/ \E c \in C :
        \/ "tool" \in K /\ ToolStep(c)
        \/ "resource" \in K /\ ReadStep(c)
        \/ "prompt" \in K /\ PromptStep(c)
        \/ "completion" \in K /\ CompleteStep(c)
        \/ NoServer(c) \/ Followed(c) \/ Send(c) \/ TimesOut(c) \/ Retry(c)
        \/ HandleCancelled(c) \/ CleanupExpired(c)
    \/ \E w \in wire : ForwardProgress(w)
    \/ Lose \/ Reconnected
    \/ \E c \in C : CloseSession(c[1])
RtSpec == RtInit /\ [][RtNextOn(Calls, Kinds)]_rtVars

-----------------------------------------------------------------------------
(* Properties *)

\* The types; a call waits for an answer on a connection it captured.
RtTypeOK ==
    /\ \A c \in Calls :
        /\ rpc[c] \in {"new", "retry", "avail", "gate", "ready", "wait", "timeout", "closed"} \cup Ended
        /\ kind[c] \in Kinds \cup {"none"}
        /\ tries[c] \in 0..RetryLimit /\ client[c] \in 0..MaxEpoch
        /\ clientToProxy[c] \in Proxies \cup {NoProxy}
        /\ rpc[c] = "wait" => down[c].epoch = client[c]
    /\ proxyToClient \subseteq Proxies
    /\ epoch \in 0..opened /\ live \subseteq RSess

\* The four maps agree (RequestIdMapper.ts:36-40), in spite of retries that
\* share a mapping, expiries and equal downstream ids of two connections.
MapsMirror ==
    /\ \A c \in Calls : clientToProxy[c] # NoProxy =>
        proxyToDownstream[clientToProxy[c]].here /\ clientToProxy[c][1] = c
    /\ \A p \in Proxies :
        /\ proxyToDownstream[p].here = (p \in proxyToClient)
        /\ proxyToDownstream[p].here => clientToProxy[p[1]] = p
    /\ \A k \in RSess \X Dids : downstreamToProxy[k] # NoProxy =>
        /\ proxyToDownstream[downstreamToProxy[k]].here
        /\ proxyToDownstream[downstreamToProxy[k]].down.did = k[2]

\* Progress is forwarded to a client only while the request it belongs to is
\* still being handled (ProxySession.ts:2754-2787).
NoLateProgress == ~late

\* A cancellation that goes out on the connection its request was sent on
\* names that request and no other client's (ProxySession.ts:2674-2735),
\* although all clients count their requests from the same number.
CancelOwn == ~astray

\* Answers, progress and cancellations find the request they are about, over
\* retries, expiry and reconnections (RequestIdMapper.ts, ProxySession.ts).
RequestsKeptApart == RtTypeOK /\ MapsMirror /\ NoLateProgress /\ CancelOwn
=============================================================================
