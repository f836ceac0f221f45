--------------------------- MODULE MC_Downstream ---------------------------
(* A downstream server as ServerManager keeps it, and the cache of its      *)
(* results. They share no state in the model, so a behaviour is about one   *)
(* of them.                                                                 *)
EXTENDS ServerLifecycle, ResultCache, TLC

CONSTANTS Parts, u1, u2, u3, i1

VARIABLE part
downstreamVars == <<serverVars, cacheVars, part>>

\* One user with an identity in the scope of the cache policy, two without.
OneIdentity == (u1 :> i1) @@ (u2 :> NoIdentity) @@ (u3 :> NoIdentity)

\* Operations are interchangeable, and so are the requests, which the
\* configuration names alike; not used for liveness.
ProcsAlike == Permutations(Procs)

Init == ServerInit /\ CacheInit /\ part \in Parts

Next ==
    /\ \/ part = "server" /\ ServerNext /\ UNCHANGED cacheVars
       \/ part = "cache" /\ CacheNext /\ UNCHANGED serverVars
    /\ part' = part

Spec == Init /\ [][Next]_downstreamVars

LiveSpec == Spec /\ ServerFairness

\* The types of contexts, clients and operations (ServerManager.ts), and of
\* the entries, flights and requests of the cache.
TypesOK == ServerTypeOK /\ CacheTypeOK
=============================================================================
