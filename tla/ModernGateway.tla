---------------------------- MODULE ModernGateway ----------------------------
(* A request to the stateless endpoint: which protocol era handles it, what   *)
(* the token makes visible, how a gateway name (name_-_contextId) is resolved *)
(* and the request forwarded while servers come, go, sleep and are edited.    *)
(* Requests share nothing but the servers, so the model follows one.          *)
EXTENDS Naturals, FiniteSets

CONSTANTS
    GServers,   \* managed servers
    GKinds,     \* tool, resource, prompt: each server offers at most one of a kind, by the same name
    MaxContext, \* bound: context ids
    NoServer
ASSUME GatewayAssumption ==
    MaxContext \in Nat \ {0} /\ "tool" \in GKinds /\ GKinds \subseteq {"tool", "resource", "prompt"}

VARIABLES
    gwCtx,   \* serverContexts
    gwNext,  \* ServerContext.nextId
    gwLive,  \* the session the header of the request names is in the SessionStore
    gwCall,  \* the request
    gwOwner  \* first server of each context id handed out
gatewayVars == <<gwCtx, gwNext, gwLive, gwCall, gwOwner>>

ModernOnly == {"discover", "listen"}
GwRequests ==
    [verb : {"POST", "GET"}, method : ModernOnly \cup {"initialize", "notify", "list", "use", "complete"},
     kind : GKinds, named : 0..MaxContext, session : BOOLEAN, lastEvent : BOOLEAN,
     signal : BOOLEAN, origin : BOOLEAN]
\* What a token gives: the servers by permission (unset: publicAccess decides),
\* the capabilities switched off by permissions or preferences, its scopes.
GwAuths ==
    [perm : [GServers -> {"yes", "no", "unset"}], refused : SUBSET (GServers \X GKinds), scopes : SUBSET GKinds]

NoContext == [id |-> 0, status |-> "Down", enabled |-> FALSE, input |-> FALSE, public |-> FALSE, offers |-> {}, off |-> {}]
NoAuth == [perm |-> [s \in GServers |-> "no"], refused |-> {}, scopes |-> {}]
NoRequest == [verb |-> "GET", method |-> "list", kind |-> "tool", named |-> 0, session |-> FALSE,
              lastEvent |-> FALSE, signal |-> FALSE, origin |-> TRUE]
NoCall == [pc |-> "none", req |-> NoRequest, auth |-> NoAuth, server |-> NoServer, held |-> 0]

GatewayInit ==
    /\ gwCtx = [s \in GServers |-> NoContext]
    /\ gwNext = 1
    /\ gwLive \in BOOLEAN
    /\ gwCall = NoCall
    /\ gwOwner = [i \in 1..MaxContext |-> NoServer]

-----------------------------------------------------------------------------
(* The era of a request *)

HasModernSignal(r) == r.signal \/ r.method \in ModernOnly

ShouldPreferLegacy(r) == r.method = "initialize" \/ (r.session /\ r.method \notin ModernOnly /\ gwLive)
ShouldHandle(r) == ~ShouldPreferLegacy(r) /\ HasModernSignal(r)

\* Mutant: modern-looking requests of a live session are refused as well.
RejectEveryMix(r) == HasModernSignal(r) /\ (r.session \/ r.lastEvent)

RejectMixedEra(r) == ~ShouldPreferLegacy(r) /\ HasModernSignal(r) /\ (r.session \/ r.lastEvent)

\* The middlewares in their order up to the first that waits: the Origin guard,
\* rejectMixedEra, POST only, then one of the two authentications.
Arrive(r) ==
    /\ gwCall.pc = "none"
    /\ gwCall' = [gwCall EXCEPT !.req = r, !.pc =
           CASE ShouldHandle(r) /\ ~r.origin -> "refused"
             [] (~ShouldHandle(r) \/ r.origin) /\ RejectMixedEra(r) -> "refused"
             [] ~RejectMixedEra(r) /\ ShouldHandle(r) /\ r.origin /\ r.verb # "POST" -> "refused"
             [] ~RejectMixedEra(r) /\ ShouldHandle(r) /\ r.origin /\ r.verb = "POST" -> "auth"
             [] OTHER -> "legacy"]
    /\ UNCHANGED <<gwCtx, gwNext, gwLive, gwOwner>>

\* The session of the request's header ends (SessionStore).
SessionEnds ==
    /\ gwLive
    /\ gwLive' = FALSE
    /\ UNCHANGED <<gwCtx, gwNext, gwCall, gwOwner>>

-----------------------------------------------------------------------------
(* What a token makes visible *)

\* getAvailableServers and canAccessServer. Temporary contexts belong to servers
\* that need user input, which the endpoint never serves.
CanAccessServer(a, s) ==
    /\ gwCtx[s].id # 0 /\ gwCtx[s].enabled
    /\ gwCtx[s].status \in {"Online", "Sleeping"}
    /\ ~gwCtx[s].input
    /\ a.perm[s] = "yes" \/ (a.perm[s] = "unset" /\ gwCtx[s].public)

\* canAccessCapability, canUseTool, canAccessResource, canUsePrompt
CanUse(a, s, k) == CanAccessServer(a, s) /\ k \notin gwCtx[s].off /\ <<s, k>> \notin a.refused

\* Mutant: what the server offers, the user's choices aside.
ListedByServer(a, k) == {s \in GServers : CanAccessServer(a, s) /\ k \in gwCtx[s].offers}

\* listTools, listResources, listResourceTemplates, listPrompts: the servers
\* whose capability of a kind is listed, under the id of their context.
Listed(a, k) == {s \in GServers : CanUse(a, s, k) /\ k \in gwCtx[s].offers}

\* buildServerCapabilities: the kinds some accessible server has a catalog of.
Advertised(a) == {k \in GKinds : \E s \in GServers : CanAccessServer(a, s) /\ k \in gwCtx[s].offers}

\* parseGatewayName: the context with the id after the separator.
ParseGatewayName(n) == {s \in GServers : n # 0 /\ gwCtx[s].id = n}

\* Mutant: the id of a context that has gone is ignored.
UniqueByAnyName(a, n, k) == IF Cardinality(Listed(a, k)) = 1 THEN Listed(a, k) ELSE {}

\* A name without a context is accepted when a single visible server has it.
UniqueByName(a, n, k) == IF n = 0 /\ Cardinality(Listed(a, k)) = 1 THEN Listed(a, k) ELSE {}

\* resolveToolName, resolveResourceUri, resolvePromptName, and the check of the
\* permission by server id after them: the server, or nothing.
ResolveName(a, n, k) ==
    IF ParseGatewayName(n) # {}
    THEN {s \in ParseGatewayName(n) : k \in gwCtx[s].offers /\ CanUse(a, s, k)}
    ELSE UniqueByName(a, n, k)

-----------------------------------------------------------------------------
(* The request after its authentication *)

Refuse ==
    /\ gwCall.pc = "auth"
    /\ gwCall' = [gwCall EXCEPT !.pc = "refused"]
    /\ UNCHANGED <<gwCtx, gwNext, gwLive, gwOwner>>

\* ModernMcpAuthMiddleware: no bearer token, a token in the query, a token that
\* is not valid for this resource, or a client outside of the rollout.
Unauthenticated == Refuse

\* validateRequest, or a parameter that is missing: the body, the headers and
\* their mirrors.
InvalidRequest == ShouldHandle(gwCall.req) /\ Refuse

\* requiredScopesForRequest
InScope(a, r) == r.method \in {"list", "use", "complete"} => r.kind \in a.scopes

\* What the handlers do up to ensureRoutableServer, which refuses a server that
\* needs user input before it waits for it.
Forward(a, n, k) ==
    IF ResolveName(a, n, k) = {} THEN gwCall' = [gwCall EXCEPT !.auth = a, !.pc = "refused"]
    ELSE \E s \in ResolveName(a, n, k) :
             gwCall' = [gwCall EXCEPT !.auth = a, !.server = s, !.pc = "waking"]

\* The handlers, whose rest is Woken, PolicyDecides (for a tool) and Send.
CallTool(a, n) == Forward(a, n, "tool")
ReadResource(a, n) == Forward(a, n, "resource")
GetPrompt(a, n) == Forward(a, n, "prompt")
Complete(a, r) == Forward(a, r.named, r.kind)

Dispatch(a, r) ==
    CASE r.method \in {"discover", "list"} -> gwCall' = [gwCall EXCEPT !.auth = a, !.pc = "done"]
      [] r.method = "use" /\ r.kind = "tool" -> CallTool(a, r.named)
      [] r.method = "use" /\ r.kind = "resource" -> ReadResource(a, r.named)
      [] r.method = "use" /\ r.kind = "prompt" -> GetPrompt(a, r.named)
      [] r.method = "complete" -> Complete(a, r)

\* The token is valid: nothing waits between the rate limit and the dispatch,
\* which reads the era again.
Authenticated(a) ==
    LET r == gwCall.req IN
    /\ gwCall.pc = "auth"
    /\ IF ~ShouldHandle(r) THEN gwCall' = [gwCall EXCEPT !.auth = a, !.pc = "legacy"]
       ELSE IF r.method = "notify" THEN gwCall' = [gwCall EXCEPT !.auth = a, !.pc = "done"]
       ELSE IF r.method = "listen" THEN gwCall' = [gwCall EXCEPT !.auth = a, !.pc = "stream"]
       ELSE IF ~InScope(a, r) THEN gwCall' = [gwCall EXCEPT !.auth = a, !.pc = "refused"]
       ELSE Dispatch(a, r)
    /\ UNCHANGED <<gwCtx, gwNext, gwLive, gwOwner>>

\* ensureServerAvailable returned: the server's context is read again. A tool
\* goes through the policy next, the rest goes to the cache and the server.
Woken ==
    LET x == gwCtx[gwCall.server] IN
    /\ gwCall.pc = "waking"
    /\ gwCall' = IF x.id = 0 \/ x.input THEN [gwCall EXCEPT !.pc = "refused"]
                 ELSE [gwCall EXCEPT !.held = x.id,
                       !.pc = IF gwCall.req.kind = "tool" /\ gwCall.req.method = "use" THEN "policy" ELSE "send"]
    /\ UNCHANGED <<gwCtx, gwNext, gwLive, gwOwner>>

\* It threw, or a mirrored header does not match its argument.
WakeFails ==
    /\ gwCall.pc = "waking"
    /\ gwCall' = [gwCall EXCEPT !.pc = "refused"]
    /\ UNCHANGED <<gwCtx, gwNext, gwLive, gwOwner>>

\* policyEngine.evaluate and checkOrCreateApproval: denied, or answered with the
\* approval that is pending, rate limited or already claimed, or forwarded.
PolicyDecides(d) ==
    /\ gwCall.pc = "policy"
    /\ gwCall' = [gwCall EXCEPT !.pc = d]
    /\ UNCHANGED <<gwCtx, gwNext, gwLive, gwOwner>>

\* requireClient on the context that was read, which another may have replaced
\* since: its connection is there until its close has finished.
Send(open) ==
    LET x == gwCtx[gwCall.server] IN
    /\ gwCall.pc = "send"
    /\ x.id = gwCall.held /\ x.status = "Online" => open
    /\ gwCall' = [gwCall EXCEPT !.pc = IF open THEN "sent" ELSE "refused"]
    /\ UNCHANGED <<gwCtx, gwNext, gwLive, gwOwner>>

-----------------------------------------------------------------------------
(* The servers *)

\* Mutant: the ids of the contexts in the map decide.
FirstFreeId == CHOOSE i \in 1..MaxContext + 1 :
    /\ \A s \in GServers : gwCtx[s].id # i
    /\ \A j \in 1..i - 1 : \E s \in GServers : gwCtx[s].id = j

\* new ServerContext: ids are never used again in the life of the process.
NextContextId == gwNext

\* A context is created for a server that has none.
ContextCreated(s, x) ==
    /\ gwCtx[s].id = 0 /\ NextContextId <= MaxContext
    /\ gwCtx' = [gwCtx EXCEPT ![s] = [x EXCEPT !.id = NextContextId]]
    /\ gwNext' = gwNext + 1
    /\ gwOwner' = [gwOwner EXCEPT ![NextContextId] = IF @ = NoServer THEN s ELSE @]
    /\ UNCHANGED <<gwLive, gwCall>>

ContextRemoved(s) ==
    /\ gwCtx[s].id # 0
    /\ gwCtx' = [gwCtx EXCEPT ![s] = NoContext]
    /\ UNCHANGED <<gwNext, gwLive, gwCall, gwOwner>>

\* The server sleeps, wakes, fails; an administrator edits it; its catalog
\* changes: the context stays.
ContextChanged(s, x) ==
    /\ gwCtx[s].id # 0
    /\ gwCtx' = [gwCtx EXCEPT ![s] = [x EXCEPT !.id = gwCtx[s].id]]
    /\ UNCHANGED <<gwNext, gwLive, gwCall, gwOwner>>

\* What a context can be, its id aside; Down stands for every status in which a
\* server is not offered.
GwContexts ==
    [id : {0}, status : {"Online", "Sleeping", "Down"}, enabled : BOOLEAN, input : BOOLEAN, public : BOOLEAN,
     offers : SUBSET GKinds, off : SUBSET GKinds]

GatewayNext ==
    \/ \E r \in GwRequests : Arrive(r)
    \/ SessionEnds \/ Unauthenticated \/ InvalidRequest
    \/ \E a \in GwAuths : Authenticated(a)
    \/ Woken \/ WakeFails
    \/ \E d \in {"refused", "pending", "send"} : PolicyDecides(d)
    \/ \E o \in BOOLEAN : Send(o)
    \/ \E s \in GServers :
        \/ ContextRemoved(s)
        \/ \E x \in GwContexts : ContextCreated(s, x) \/ ContextChanged(s, x)
GatewaySpec == GatewayInit /\ [][GatewayNext]_gatewayVars

-----------------------------------------------------------------------------
(* Properties *)

\* The types of the variables; a context id belongs to one server and to one
\* context at a time (ServerContext.ts:67, ModernMcpController.ts:1542-1554).
GatewayTypeOK ==
    /\ gwCall.pc \in {"none", "legacy", "refused", "auth", "stream", "waking", "policy", "pending", "send", "sent", "done"}
    /\ gwCall.server \in GServers \cup {NoServer} /\ gwCall.held \in 0..MaxContext
    /\ gwNext \in 1..MaxContext + 1
    /\ \A s \in GServers : gwCtx[s].id # 0 => gwCtx[s].id < gwNext /\ gwOwner[gwCtx[s].id] = s
    /\ \A s, t \in GServers : gwCtx[s].id = gwCtx[t].id /\ gwCtx[s].id # 0 => s = t

\* Whatever a token lists it can call: under the token of the request, the
\* gateway name of every listed capability resolves to the server that listed
\* it, and its kind is advertised, however servers are edited, replaced or put
\* to sleep (ModernMcpController.ts:335-416, 892-987, 1012-1068).
ListedIsCallable ==
    \A k \in GKinds : \A s \in Listed(gwCall.auth, k) :
        /\ ResolveName(gwCall.auth, gwCtx[s].id, k) = {s}
        /\ k \in Advertised(gwCall.auth)

\* A request with a gateway name is only ever sent to the server that name was
\* made for, on that context or a later one of the same server, although the
\* server is looked up again after every wait; the name of a context that has
\* gone reaches nobody (ModernMcpController.ts:892-911, 989-1003, 1542-1554).
RoutedAsNamed ==
    gwCall.pc = "sent" =>
        /\ gwOwner[gwCall.held] = gwCall.server
        /\ gwCall.req.named # 0 =>
               gwOwner[gwCall.req.named] = gwCall.server /\ gwCall.req.named <= gwCall.held

\* "initialize always enters the standard sessionful handshake", "Active legacy
\* sessions remain on the sessionful path even if a client sends extra
\* modern-looking headers" (docs/architecture.md:129), and a request the modern
\* controller takes carries no session id and no event id, with the session
\* ending at any moment (MCPRouter.ts:57-97, ModernMcpController.ts:99-145).
OneEra ==
    /\ gwCall.pc \in {"auth", "waking", "policy", "send", "sent", "pending", "stream", "done"} =>
           ~gwCall.req.session /\ ~gwCall.req.lastEvent /\ gwCall.req.method # "initialize"
    /\ gwCall.pc = "refused" /\ gwLive /\ gwCall.req.session => gwCall.req.method \in ModernOnly

\* A request is taken by the right endpoint and reaches the server it names
\* (MCPRouter.ts, ModernMcpController.ts).
CallsRouted == GatewayTypeOK /\ ListedIsCallable /\ RoutedAsNamed /\ OneEra
=============================================================================
