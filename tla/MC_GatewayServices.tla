------------------------- MODULE MC_GatewayServices -------------------------
(* What a call passes on its way: the stateless endpoint and its streams, the *)
(* policy engine, the tokens of the downstream servers and the log. They      *)
(* share no state in the model, so a behaviour is about one of them.          *)
EXTENDS Logs, PolicyCache, TokenRefresh, ModernStreams, ModernGateway, TLC

VARIABLE part
gatewayServiceVars == <<logVars, policyVars, refreshVars, modernVars, gatewayVars, part>>

Parts == {"logs", "policy cache", "policy rules", "tokens", "launch configs", "streams", "updates", "scopes", "sessions told", "era", "routing"}

\* Requests, tokens and contexts of the routing part: one thing differs at a time.
Request(m, k, n) == [NoRequest EXCEPT !.verb = "POST", !.method = m, !.kind = k, !.named = n, !.signal = TRUE]
AnyRequest == {r \in GwRequests : r.kind = "tool" /\ r.named = 0}
Plain == [id |-> 0, status |-> "Online", enabled |-> TRUE, input |-> FALSE, public |-> TRUE, offers |-> {"tool"}, off |-> {}]
Contexts ==
    {Plain, [Plain EXCEPT !.status = "Sleeping"], [Plain EXCEPT !.status = "Down"], [Plain EXCEPT !.input = TRUE],
     [Plain EXCEPT !.public = FALSE], [Plain EXCEPT !.enabled = FALSE], [Plain EXCEPT !.off = {"tool"}],
     [Plain EXCEPT !.offers = {"prompt"}]}
Everything == [NoAuth EXCEPT !.perm = [s \in GServers |-> "unset"], !.scopes = GKinds]
Tokens ==
    {Everything, [Everything EXCEPT !.scopes = {}], [Everything EXCEPT !.perm = [s \in GServers |-> "yes"]]}
        \cup {[Everything EXCEPT !.refused = {<<s, "tool">>}] : s \in GServers}

\* The saves of two servers, while the provider does not withdraw the token.
Saves == RefreshNext /\ trValid' # 0

OneUpdate == {CHOOSE u \in MUpdates : TRUE}
OneStream == {CHOOSE s \in MStreams : TRUE}

Init ==
    /\ part \in Parts
    /\ LogInit /\ RefreshInit /\ StreamsInit /\ GatewayInit
    /\ part # "logs" => ~lgUrl
    /\ part # "tokens" => trKind = GithubAuthStrategy
    /\ part \notin {"streams", "updates", "scopes"} => msMay = [s \in MStreams |-> {}]
    /\ part # "streams" => msAble = MsScopes
    /\ part = "updates" => msMay = [s \in MStreams |-> MsManaged]
    /\ msSubs = [e \in MsSessions |-> IF part = "sessions told" THEN MsManaged ELSE {}]
    /\ part # "era" => ~gwLive
    /\ pcSets \in IF part = "policy rules" THEN BoundedSeq(Rules, 2) \X BoundedSeq(Rules, 1) ELSE {<<>>}
    /\ PolicyInit

Setup ==
    \/ \E s \in MStreams : (\E uris \in SUBSET MsScopes : Listen(s, uris, FALSE)) \/ StreamStep(s)
    \/ \E c \in MsScopes : ScopeRemoved(c)
Told ==
    \/ \E s \in OneStream : Listen(s, MsManaged, FALSE) \/ StreamStep(s)
    \/ ReadStep(MsManaged) \/ UpdateStep(MUpdates, MsManaged)
Scoped ==
    \/ \E s \in OneStream : Listen(s, {}, FALSE) \/ (\E c \in MsScopes, raw \in BOOLEAN : Listen(s, {c}, raw)) \/ StreamStep(s)
    \/ UpdateStep(OneUpdate, MsScopes)
Era ==
    \/ \E r \in AnyRequest : Arrive(r)
    \/ SessionEnds \/ Unauthenticated \/ InvalidRequest \/ Authenticated(NoAuth)
Routing ==
    \/ \E n \in 0..MaxContext : 
        Arrive(Request("use", "tool", n)) \/ Arrive(Request("complete", "prompt", n))
    \/ Arrive(Request("use", "resource", 1)) \/ Arrive(Request("use", "prompt", 1))
    \/ \E m \in {"discover", "list", "notify", "listen"} : Arrive(Request(m, "tool", 0))
    \/ \E a \in Tokens : Authenticated(a)
    \/ Woken \/ WakeFails
    \/ \E d \in {"refused", "pending", "send"} : PolicyDecides(d)
    \/ \E o \in BOOLEAN : Send(o)
    \/ \E s \in GServers :
        \/ ContextRemoved(s)
        \/ \E x \in Contexts : ContextCreated(s, x) \/ ContextChanged(s, x)

Next ==
    /\ \/ part = "logs" /\ LogNext /\ UNCHANGED <<policyVars, refreshVars, modernVars, gatewayVars>>
       \/ part = "policy cache" /\ PolicyNext /\ UNCHANGED <<logVars, refreshVars, modernVars, gatewayVars>>
       \/ /\ \/ part = "tokens" /\ RefreshStep
             \/ part = "launch configs" /\ Saves
          /\ UNCHANGED <<logVars, policyVars, modernVars, gatewayVars>>
       \/ /\ \/ part = "streams" /\ Setup
             \/ part = "updates" /\ Told
             \/ part = "scopes" /\ Scoped
             \/ part = "sessions told" /\ (UpdateStep(MUpdates, MsScopes) \/ Millisecond)
          /\ UNCHANGED <<logVars, policyVars, refreshVars, gatewayVars>>
       \/ /\ \/ part = "era" /\ Era
             \/ part = "routing" /\ Routing
          /\ UNCHANGED <<logVars, policyVars, refreshVars, modernVars>>
    /\ part' = part

Spec == Init /\ [][Next]_gatewayServiceVars
=============================================================================
