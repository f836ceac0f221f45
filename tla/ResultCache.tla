---------------------------- MODULE ResultCache ----------------------------
(***************************************************************************)
(* The result cache (ResultCacheService, ResultCacheManager,               *)
(* SingleflightRegistry and the stores), for one cached request: one       *)
(* operation of one entity of one server with one set of parameters.  The  *)
(* other parts of a cache key do not interact.                             *)
(*                                                                         *)
(* A key holds the identity of the requester in the scope of the policy    *)
(* (user, tenant or one for all) and the versions of the namespaces the    *)
(* entry lies in.  A purge bumps the version of a namespace, so that       *)
(* entries under the old one are never found again.  The versions are read *)
(* one by one, and everything that awaits the store is an action.          *)
(***************************************************************************)
EXTENDS Integers, FiniteSets

CONSTANTS
    Requests,       \* requests in flight together, and admin purges of one key
    Users,
    Identities,  \* scope identities
    NoIdentity,  \* the policy's scope needs an identity that the user lacks
    IdentityOf,  \* resolveScopeIdentity
    Namespaces,  \* global, server and entity
    MaxPurges,   \* bound: purges of all namespaces together
    SecondHit,   \* admissionPolicy: SecondHit, otherwise Immediate
    StoreFaults       \* calls of the store that may fail

ASSUME IdentityAssumption ==
    IdentityOf \in [Users -> Identities \cup {NoIdentity}] /\ NoIdentity \notin Identities
ASSUME VersionAssumption == MaxPurges \in Nat
ASSUME AdmissionAssumption ==
    SecondHit \in BOOLEAN /\ StoreFaults \subseteq {"versions", "get", "set", "admission"}
ASSUME RequestsAssumption == IsFiniteSet(Requests)

VARIABLES
    vers,       \* the namespace versions in the store
    entries,    \* the result entries in the store
    admissions, \* the admission counters in the store, up to 2
    flights,    \* inflight of SingleflightRegistry
    reqs,      \* the requests under way
    purges      \* how many there were

cacheVars == <<vers, entries, admissions, flights, reqs, purges>>

-----------------------------------------------------------------------------
Unread == -1
Versions == [Namespaces -> 0..MaxPurges]
Reading == [Namespaces -> 0..MaxPurges \cup {Unread}]
NoVersions == [n \in Namespaces |-> Unread]

Keys == Identities \X Versions

(* A result: for whom it was fetched, the versions when the fetch began,    *)
(* and whether the fetching request knew its versions (history).            *)
Value == [of : Users, born : Versions, blind : BOOLEAN]

Req == [pc    : {"get", "solo", "fetch", "observe", "done", "admit", "set",
                  "clear", "exact"},
         who   : Users,
         since : Versions,  \* history: the versions when the request began
         ver   : Reading,   \* versions as far as read
         blind : BOOLEAN,   \* no lookupVersions
         inc   : Nat,       \* observations still to record
         out   : {"none", "hit", "shared", "fetched", "error"},
         val   : Value]

(* The operations that need all versions first. *)
Resolving == {"get", "admit", "set", "clear", "exact"}
Resolved(p) == \A n \in Namespaces : reqs[p].ver[n] # Unread

Fresh(u) == [of |-> u, born |-> vers, blind |-> FALSE]
NewProc(pc, u) == [pc |-> pc, who |-> u, since |-> vers, ver |-> NoVersions,
                   blind |-> FALSE, inc |-> 0, out |-> "none", val |-> Fresh(u)]

Identity(p) == IdentityOf[reqs[p].who]
Key(p) == <<Identity(p), reqs[p].ver>>

(* Maps. *)
Empty == [x \in {} |-> x]
Without(f, k) == [x \in DOMAIN f \ {k} |-> f[x]]
With(f, k, y) == [x \in DOMAIN f \cup {k} |-> IF x = k THEN y ELSE f[x]]

Busy == DOMAIN reqs

CacheInit ==
    /\ vers = [n \in Namespaces |-> 0]
    /\ entries = Empty
    /\ admissions = Empty
    /\ flights = Empty
    /\ reqs = Empty
    /\ purges = 0

StopRequest(p) == reqs' = Without(reqs, p)

-----------------------------------------------------------------------------
(* executeWithCache: the lookup.                                           *)

(* Mutant: requests without an identity share a flight of their own. *)
BeginCoalesced(p, u) ==
    LET k == <<NoIdentity, NoVersions>>
        none == IdentityOf[u] = NoIdentity
        joins == none /\ k \in DOMAIN flights
    IN /\ p \notin Busy
       /\ reqs' = With(reqs, p,
             NewProc(IF joins THEN "observe" ELSE IF none THEN "fetch" ELSE "get", u))
       /\ flights' = IF joins THEN [flights EXCEPT ![k].observers = @ \cup {p}]
                     ELSE IF none THEN With(flights, k, [leader |-> p, observers |-> {}])
                     ELSE flights
       /\ UNCHANGED <<vers, entries, admissions, purges>>

(* Without an identity the cache and the flights are bypassed. *)
Begin(p, u) ==
    /\ p \notin Busy
    /\ reqs' = With(reqs, p,
          NewProc(IF IdentityOf[u] = NoIdentity THEN "solo" ELSE "get", u))
    /\ UNCHANGED <<vers, entries, admissions, flights, purges>>

ReadVersion(p, n) ==
    /\ reqs[p].pc \in Resolving
    /\ reqs[p].ver[n] = Unread
    /\ reqs' = [reqs EXCEPT ![p].ver[n] = vers[n]]
    /\ UNCHANGED <<vers, entries, admissions, flights, purges>>

(* The key in the registry; a request that could not read the versions has *)
(* none in it.                                                             *)
FlightKey(p, ver) == <<Identity(p), ver>>

(* A request that missed joins the flight of its key or starts one.        *)
Join(p, ver) ==
    LET k == FlightKey(p, ver)
        new == [reqs[p] EXCEPT !.ver = ver, !.blind = (ver = NoVersions)]
    IN /\ IF k \in DOMAIN flights
          THEN /\ flights' = [flights EXCEPT ![k].observers = @ \cup {p}]
               /\ reqs' = [reqs EXCEPT ![p] = [new EXCEPT !.pc = "observe"]]
          ELSE /\ flights' = With(flights, k, [leader |-> p, observers |-> {}])
               /\ reqs' = [reqs EXCEPT ![p] = [new EXCEPT !.pc = "fetch",
                   !.val = [Fresh(reqs[p].who) EXCEPT !.blind = (ver = NoVersions)]]]
       /\ UNCHANGED <<vers, entries, admissions, purges>>

Hit(p) ==
    /\ reqs[p].pc = "get" /\ Resolved(p)
    /\ Key(p) \in DOMAIN entries
    /\ reqs' = [reqs EXCEPT ![p].pc = "done", ![p].ver = NoVersions,
                              ![p].out = "hit", ![p].val = entries[Key(p)]]
    /\ UNCHANGED <<vers, entries, admissions, flights, purges>>

(* There is no entry, or it cannot be read. *)
Miss(p) ==
    /\ reqs[p].pc = "get" /\ Resolved(p)
    /\ Key(p) \notin DOMAIN entries \/ "get" \in StoreFaults
    /\ Join(p, reqs[p].ver)

(* The versions cannot be read. *)
LookupFails(p) ==
    /\ "versions" \in StoreFaults
    /\ reqs[p].pc = "get" /\ ~Resolved(p)
    /\ Join(p, NoVersions)

-----------------------------------------------------------------------------
(* The flight ends.                                                        *)

(* Mutant: the versions are read again after the fetch. *)
StoreVersionsAfter(p) == NoVersions

(* capturedVersions: those of the lookup; if there are none they are read  *)
(* when they are needed.                                                   *)
StoreVersions(p) == IF reqs[p].blind THEN NoVersions ELSE reqs[p].ver

(* Mutant: the leader is not counted. *)
ObservationsOfOthers(f) == Cardinality(f.observers)

(* requestCount. *)
Observations(f) == Cardinality(f.observers) + 1

(* The leader after its factory returned; an isError result of a tool is    *)
(* not stored.                                                              *)
Fetched(p, f, isError) ==
    [reqs[p] EXCEPT !.pc = IF isError THEN "done" ELSE IF SecondHit THEN "admit" ELSE "set",
                     !.ver = IF isError THEN NoVersions ELSE StoreVersions(p),
                     !.inc = IF SecondHit /\ ~isError THEN Observations(f) ELSE 0,
                     !.out = "fetched"]

(* Mutant: only the leader is told. *)
LandAlone(p, k, mine, how) ==
    /\ reqs' = [reqs EXCEPT ![p] = mine]
    /\ flights' = Without(flights, k)

(* The promise settles: leader and observers go on, the key is free. *)
Land(p, k, mine, how) ==
    /\ reqs' = [q \in Busy |->
          IF q = p THEN mine
          ELSE IF q \in flights[k].observers
               THEN [reqs[q] EXCEPT !.pc = "done", !.ver = NoVersions,
                                     !.out = how, !.val = mine.val]
          ELSE reqs[q]]
    /\ flights' = Without(flights, k)

Succeed(p, isError) ==
    /\ reqs[p].pc = "fetch"
    /\ LET k == FlightKey(p, reqs[p].ver) IN
          Land(p, k, Fetched(p, flights[k], isError), "shared")
    /\ UNCHANGED <<vers, entries, admissions, purges>>

(* The factory throws, for the observers as well.                           *)
Fail(p) ==
    /\ reqs[p].pc = "fetch"
    /\ LET k == FlightKey(p, reqs[p].ver) IN
          Land(p, k, [reqs[p] EXCEPT !.pc = "done", !.ver = NoVersions, !.out = "error"],
               "error")
    /\ UNCHANGED <<vers, entries, admissions, purges>>

(* The caller has its answer. *)
Return(p) ==
    /\ reqs[p].pc = "done"
    /\ StopRequest(p)
    /\ UNCHANGED <<vers, entries, admissions, flights, purges>>

(* A request without an identity is answered. *)
Solo(p) ==
    /\ reqs[p].pc = "solo"
    /\ \E how \in {"fetched", "error"} :
          reqs' = [reqs EXCEPT ![p].pc = "done", ![p].out = how]
    /\ UNCHANGED <<vers, entries, admissions, flights, purges>>

-----------------------------------------------------------------------------
(* storeResult, in the background.                                         *)

(* shouldPromote *)
Promote(count) == count >= 2

(* recordAdmission returned count: the next observation, the store, or      *)
(* nothing.                                                                 *)
Admitted(p, count) ==
    IF reqs[p].inc <= 1 /\ ~Promote(count)
    THEN StopRequest(p)
    ELSE reqs' = [reqs EXCEPT ![p].inc = @ - 1,
                                ![p].pc = IF reqs[p].inc > 1 THEN "admit" ELSE "set",
                                ![p].ver = StoreVersions(p)]

(* recordAdmissionAttempt; an existing counter goes up. *)
RecordAdmission(p) ==
    /\ reqs[p].pc = "admit" /\ Resolved(p)
    /\ LET count == IF Key(p) \in DOMAIN admissions THEN 2 ELSE 1 IN
          /\ admissions' = With(admissions, Key(p), count)
          /\ Admitted(p, count)
    /\ UNCHANGED <<vers, entries, flights, purges>>

AdmissionFails(p) ==
    /\ reqs[p].pc = "admit"
    /\ \/ "versions" \in StoreFaults /\ ~Resolved(p)
       \/ "admission" \in StoreFaults /\ Resolved(p)
    /\ Admitted(p, 0)
    /\ UNCHANGED <<vers, entries, admissions, flights, purges>>

(* cacheStore.set; a promoted entry's counter is cleared next, under the    *)
(* versions of that time.                                                   *)
Set(p) ==
    /\ reqs[p].pc = "set" /\ Resolved(p)
    /\ entries' = With(entries, Key(p), reqs[p].val)
    /\ IF SecondHit
       THEN reqs' = [reqs EXCEPT ![p] = NewProc("clear", reqs[p].who)]
       ELSE StopRequest(p)
    /\ UNCHANGED <<vers, admissions, flights, purges>>

(* The result is too large or the store fails. *)
SetFails(p) ==
    /\ reqs[p].pc = "set"
    /\ "set" \in StoreFaults \/ ("versions" \in StoreFaults /\ ~Resolved(p))
    /\ StopRequest(p)
    /\ UNCHANGED <<vers, entries, admissions, flights, purges>>

ClearAdmission(p) ==
    /\ reqs[p].pc = "clear" /\ Resolved(p)
    /\ admissions' = Without(admissions, Key(p))
    /\ StopRequest(p)
    /\ UNCHANGED <<vers, entries, flights, purges>>

(* clearAdmission and purgeExact do nothing without the versions, and the  *)
(* store may fail to clear.                                                *)
ClearFails(p) ==
    /\ \/ reqs[p].pc \in {"clear", "exact"} /\ ~Resolved(p) /\ "versions" \in StoreFaults
       \/ reqs[p].pc = "clear" /\ Resolved(p) /\ "admission" \in StoreFaults
    /\ StopRequest(p)
    /\ UNCHANGED <<vers, entries, admissions, flights, purges>>

-----------------------------------------------------------------------------
(* Purges, expiry and eviction.                                            *)

(* purgeGlobal, purgeServer, purgeTool, purgePrompt, purgeResource and      *)
(* invalidateResource.                                                      *)
BumpNamespace(n) ==
    /\ purges < MaxPurges
    /\ purges' = purges + 1
    /\ vers' = [vers EXCEPT ![n] = @ + 1]
    /\ UNCHANGED <<entries, admissions, flights, reqs>>

PurgeExact(p, u) ==
    /\ p \notin Busy
    /\ IdentityOf[u] # NoIdentity
    /\ reqs' = With(reqs, p, NewProc("exact", u))
    /\ UNCHANGED <<vers, entries, admissions, flights, purges>>

(* Two store calls at once; each may fail without the other. *)
DeleteExact(p) ==
    /\ reqs[p].pc = "exact" /\ Resolved(p)
    /\ \/ entries' = Without(entries, Key(p))
       \/ "set" \in StoreFaults /\ UNCHANGED entries
    /\ \/ admissions' = Without(admissions, Key(p))
       \/ "admission" \in StoreFaults /\ UNCHANGED admissions
    /\ StopRequest(p)
    /\ UNCHANGED <<vers, flights, purges>>

(* The entry expires, is evicted, or is deleted because it is corrupt. *)
Evict(k) ==
    /\ k \in DOMAIN entries
    /\ entries' = Without(entries, k)
    /\ UNCHANGED <<vers, admissions, flights, reqs, purges>>

(* The admission window of the counter ends. *)
WindowEnds(k) ==
    /\ k \in DOMAIN admissions
    /\ admissions' = Without(admissions, k)
    /\ UNCHANGED <<vers, entries, flights, reqs, purges>>

-----------------------------------------------------------------------------
CacheStep(p) ==
    \/ \E n \in Namespaces : ReadVersion(p, n)
    \/ Hit(p) \/ Miss(p) \/ LookupFails(p) \/ Fail(p) \/ Solo(p) \/ Return(p)
    \/ \E isError \in BOOLEAN : Succeed(p, isError)
    \/ RecordAdmission(p) \/ AdmissionFails(p) \/ Set(p) \/ SetFails(p)
    \/ ClearAdmission(p) \/ ClearFails(p) \/ DeleteExact(p)

CacheNext ==
    \/ \E p \in Busy : CacheStep(p)
    \/ \E p \in Requests, u \in Users : Begin(p, u) \/ PurgeExact(p, u)
    \/ \E n \in Namespaces : BumpNamespace(n)
    \/ \E k \in Keys : Evict(k) \/ WindowEnds(k)

CacheSpec == CacheInit /\ [][CacheNext]_cacheVars

-----------------------------------------------------------------------------
(* Properties.                                                             *)

PartialOn(f, D, R) == DOMAIN f \subseteq D /\ \A x \in DOMAIN f : f[x] \in R

CacheTypeOK ==
    /\ vers \in Versions
    /\ PartialOn(entries, Keys, Value)
    /\ PartialOn(admissions, Keys, 1..2)
    /\ PartialOn(flights, (Identities \cup {NoIdentity}) \X Reading,
                 [leader : Requests, observers : SUBSET Requests])
    /\ PartialOn(reqs, Requests, Req)
    /\ purges \in 0..MaxPurges

Served(p) == reqs[p].out \in {"hit", "shared", "fetched"}

(* A purge is final: no request that began after it is given a result whose *)
(* fetch began before it, from the store or from a flight, although fetches *)
(* and stores are under way while versions change.  (Not true of results    *)
(* fetched by a request that could not read its versions.)                  *)
FreshAfterPurge ==
    \A p \in Busy : Served(p) /\ ~reqs[p].val.blind =>
        \A n \in Namespaces : reqs[p].val.born[n] >= reqs[p].since[n]

(* Nobody gets the result of another identity: neither entries nor flights  *)
(* are shared across scopes, also not by requests without an identity.      *)
SameIdentity ==
    \A p \in Busy : Served(p) => LET of == reqs[p].val.of IN
        \/ of = reqs[p].who
        \/ IdentityOf[of] = Identity(p) /\ Identity(p) # NoIdentity

(* What a request is given, fetched, stored or shared, it could have been   *)
(* given by a fetch of its own (ResultCacheService.ts).                     *)
ResultsSound == FreshAfterPurge /\ SameIdentity

(* Nobody waits for a flight that is over: every observer belongs to a      *)
(* flight in the registry, and every flight has a leader that is fetching   *)
(* under its key, so that its end, good or bad, reaches all of them.        *)
NobodyStranded ==
    /\ \A p \in Busy : reqs[p].pc = "observe" =>
          \E k \in DOMAIN flights : p \in flights[k].observers
    /\ \A k \in DOMAIN flights : LET p == flights[k].leader IN
          p \in Busy /\ reqs[p].pc = "fetch" /\ FlightKey(p, reqs[p].ver) = k
=============================================================================
