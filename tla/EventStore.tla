---------------------------- MODULE EventStore ----------------------------
(* The resumable event streams (PersistentEventStore, EventRepository,      *)
(* EventCleanupService): events are persisted, cached and sent; a client    *)
(* that lost its connection resumes after the last event it received. The   *)
(* stream ids are shared by sessions (the SDK names the stream of GET       *)
(* requests alike in all of them), the table is too.                        *)
EXTENDS Naturals, FiniteSets

CONSTANTS
    ESessions, Streams,
    MaxEvents,     \* bound on the events of a behaviour
    CacheSize,     \* cacheSize, per stream of a session
    MaxCacheSize,  \* maxCacheSize, per session
    NoStream
ASSUME EventAssumption ==
    MaxEvents \in Nat /\ CacheSize \in Nat \ {0} /\ MaxCacheSize \in Nat \ {0}

Events == 1..MaxEvents

VARIABLES
    created,  \* events made so far: event n was the n-th
    event,    \* session and stream of each event
    stage,    \* of storeEvent: "none", "persisting", "persisted", "returned", "failed"
    rowId,    \* autoincremented id of an event's row, 0 without one
    nextRow,
    aged,     \* events 1..aged have passed their expiresAt
    cache,    \* eventCache of each session: [event, at], at the order of the timestamps
    up,       \* streams whose connection is open
    last,     \* the last event the client of each stream received, 0 if none
    got,      \* the events each client received
    replay,   \* replayEventsAfter under way in each session
    due       \* history: the rows the last replay of a stream had to send
evVars == <<created, event, stage, rowId, nextRow, aged, cache, up, last, got,
            replay, due>>

NoReplay == [pc |-> "idle", stream |-> NoStream, anchor |-> 0, queue |-> {}]

EvInit ==
    /\ created = 0
    /\ event = [n \in Events |-> [sess |-> NoStream, stream |-> NoStream]]
    /\ stage = [n \in Events |-> "none"]
    /\ rowId = [n \in Events |-> 0] /\ nextRow = 1
    /\ aged = 0
    /\ cache = [s \in ESessions |-> {}]
    /\ up = ESessions \X Streams
    /\ last = [x \in ESessions \X Streams |-> 0]
    /\ got = [x \in ESessions \X Streams |-> {}]
    /\ replay = [s \in ESessions |-> NoReplay]
    /\ due = [x \in ESessions \X Streams |-> {}]

\* storeEvent up to the insert: the event gets its id.
StoreEvent(s, m) ==
    /\ created < MaxEvents
    /\ created' = created + 1
    /\ event' = [event EXCEPT ![created + 1] = [sess |-> s, stream |-> m]]
    /\ stage' = [stage EXCEPT ![created + 1] = "persisting"]
    /\ UNCHANGED <<rowId, nextRow, aged, cache, up, last, got, replay, due>>

\* Mutant: not awaited, the id is returned whatever becomes of the row.
PersistInBackground(n) ==
    /\ stage[n] = "persisting"
    /\ stage' = [stage EXCEPT ![n] = "persisted"]
    /\ \/ rowId' = [rowId EXCEPT ![n] = nextRow] /\ nextRow' = nextRow + 1
       \/ UNCHANGED <<rowId, nextRow>>
    /\ UNCHANGED <<created, event, aged, cache, up, last, got, replay, due>>

\* EventRepository.create: the row gets the next id, or the insert fails and
\* storeEvent throws.
PersistToDatabase(n) ==
    /\ stage[n] = "persisting"
    /\ \/ /\ stage' = [stage EXCEPT ![n] = "persisted"]
          /\ rowId' = [rowId EXCEPT ![n] = nextRow]
          /\ nextRow' = nextRow + 1
       \/ /\ stage' = [stage EXCEPT ![n] = "failed"]
          /\ UNCHANGED <<rowId, nextRow>>
    /\ UNCHANGED <<created, event, aged, cache, up, last, got, replay, due>>

\* The entries of a stream in a cache; all but the smallest id; all but the k
\* oldest; the timestamp of an entry made now.
OfStream(c, m) == {x \in c : event[x.event].stream = m}
WithoutSmallest(c, among) == {x \in c : x \in among => \E y \in among : y.event < x.event}
WithoutOldest(c, k) == {x \in c : Cardinality({y \in c : y.at < x.at}) >= k}
Now == Cardinality({n \in Events : stage[n] = "returned"})
Entry(n) == [event |-> n, at |-> Now]

\* Mutant: the limit of the session is not enforced, the other off by one.
CachedUnbounded(c, n) ==
    LET mine == OfStream(c, event[n].stream) IN
    (IF Cardinality(mine) > CacheSize THEN WithoutSmallest(c, mine) ELSE c) \cup {Entry(n)}

\* storeEventInCache: the smallest id of a full stream makes room, then
\* enforceTotalCacheLimit removes the oldest entries that are too many.
Cached(c, n) ==
    LET mine == OfStream(c, event[n].stream)
        room == IF Cardinality(mine) >= CacheSize THEN WithoutSmallest(c, mine) ELSE c
        all == room \cup {Entry(n)}
        size == Cardinality(all)
    IN IF size > MaxCacheSize THEN WithoutOldest(all, size - MaxCacheSize) ELSE all

\* The id is returned to the transport, which writes the event if the stream is
\* connected (external).
Return(n) ==
    LET s == event[n].sess   x == <<s, event[n].stream>> IN
    /\ stage[n] = "persisted"
    /\ stage' = [stage EXCEPT ![n] = "returned"]
    /\ cache' = [cache EXCEPT ![s] = Cached(@, n)]
    /\ IF x \in up
       THEN /\ last' = [last EXCEPT ![x] = n]
            /\ got' = [got EXCEPT ![x] = @ \cup {n}]
       ELSE UNCHANGED <<last, got>>
    /\ UNCHANGED <<created, event, rowId, nextRow, aged, up, replay, due>>

\* The client of a stream loses its connection (external); one that received
\* nothing has nothing to resume after and is left out.
Drop(x) ==
    /\ x \in up /\ last[x] # 0
    /\ up' = up \ {x}
    /\ due' = [due EXCEPT ![x] = {}]
    /\ UNCHANGED <<created, event, stage, rowId, nextRow, aged, cache, last, got, replay>>

\* A client comes back with its Last-Event-ID: replayEventsAfter looks its row up.
Resume(s, m) ==
    LET x == <<s, m>> IN
    /\ x \notin up /\ last[x] # 0 /\ replay[s].pc = "idle"
    /\ replay' = [replay EXCEPT ![s] =
           [pc |-> "anchor", stream |-> m, anchor |-> last[x], queue |-> {}]]
    /\ UNCHANGED <<created, event, stage, rowId, nextRow, aged, cache, up, last, got,
                   due>>

\* findByEventIdForSession: without a row the event id is invalid.
FindAnchor(s) ==
    /\ replay[s].pc = "anchor"
    /\ replay' = [replay EXCEPT ![s] =
           IF rowId[replay[s].anchor] # 0
           THEN [@ EXCEPT !.pc = "rows", !.anchor = rowId[replay[s].anchor]]
           ELSE NoReplay]
    /\ UNCHANGED <<created, event, stage, rowId, nextRow, aged, cache, up, last, got,
                   due>>

Row(n) == [id |-> rowId[n], event |-> n]

\* Mutant: the session is not part of the query.
RowsOfStream(s, m, id) ==
    {Row(n) : n \in {e \in Events : rowId[e] > id /\ event[e].stream = m}}

\* Mutant: off by one.
RowsAfterNext(s, m, id) ==
    {Row(n) : n \in {e \in Events : rowId[e] > id + 1 /\ event[e].sess = s /\ event[e].stream = m}}

\* findByStreamIdForSessionAfterId: the later rows, to be sent in the order of their ids.
RowsAfter(s, m, id) ==
    {Row(n) : n \in {e \in Events : rowId[e] > id /\ event[e].sess = s /\ event[e].stream = m}}

FindRows(s) ==
    LET r == replay[s] IN
    /\ r.pc = "rows"
    /\ replay' = [replay EXCEPT ![s] =
           [@ EXCEPT !.pc = "send", !.queue = RowsAfter(s, r.stream, r.anchor)]]
    /\ due' = [due EXCEPT ![<<s, r.stream>>] = {n \in Events :
           event[n] = [sess |-> s, stream |-> r.stream] /\ rowId[n] > r.anchor}]
    /\ UNCHANGED <<created, event, stage, rowId, nextRow, aged, cache, up, last, got>>

\* One event is sent; with the last one the transport takes the connection as
\* the stream's (external). A send that fails is logged and the loop goes on.
SendNext(s) ==
    LET r == replay[s]   x == <<s, r.stream>> IN
    /\ r.pc = "send"
    /\ \/ /\ r.queue = {}
          /\ replay' = [replay EXCEPT ![s] = NoReplay]
          /\ up' = up \cup {x}
          /\ UNCHANGED <<last, got>>
       \/ \E row \in r.queue :
          /\ \A other \in r.queue : row.id <= other.id
          /\ replay' = [replay EXCEPT ![s].queue = @ \ {row}]
          /\ last' = [last EXCEPT ![x] = row.event]
          /\ got' = [got EXCEPT ![x] = @ \cup {row.event}]
          /\ up' = up
    /\ UNCHANGED <<created, event, stage, rowId, nextRow, aged, cache, due>>

\* The connection breaks during the replay: nothing more arrives.
BreakReplay(s) ==
    /\ replay[s].pc # "idle"
    /\ replay' = [replay EXCEPT ![s] = NoReplay]
    /\ due' = [due EXCEPT ![<<s, replay[s].stream>>] = {}]
    /\ UNCHANGED <<created, event, stage, rowId, nextRow, aged, cache, up, last, got>>

\* cleanupStream and cleanupExpiredCache, which compares the time an event was
\* cached, not its expiry, with now: every event goes. So it is when the session
\* ends and its id comes back with a new store: the rows are still there.
CleanupCache(s, m) ==
    /\ OfStream(cache[s], m) # {}
    /\ cache' = [cache EXCEPT ![s] = @ \ OfStream(@, m)]
    /\ UNCHANGED <<created, event, stage, rowId, nextRow, aged, up, last, got, replay,
                   due>>

CleanupExpiredCache(s) ==
    /\ cache[s] # {}
    /\ cache' = [cache EXCEPT ![s] = {}]
    /\ UNCHANGED <<created, event, stage, rowId, nextRow, aged, up, last, got, replay,
                   due>>

\* Time: the oldest event that has not expired does.
Age ==
    /\ aged < created
    /\ aged' = aged + 1
    /\ UNCHANGED <<created, event, stage, rowId, nextRow, cache, up, last, got, replay,
                   due>>

\* cleanupExpiredEvents on its timer or by hand: deleteExpired.
CleanupExpiredEvents ==
    /\ \E n \in 1..aged : rowId[n] # 0
    /\ rowId' = [n \in Events |-> IF n <= aged THEN 0 ELSE rowId[n]]
    /\ UNCHANGED <<created, event, stage, nextRow, aged, cache, up, last, got, replay,
                   due>>

\* The sessions and streams that are used are parameters.
EvNextOn(S, M, R) ==
    \/ \E s \in S, m \in M : StoreEvent(s, m) \/ CleanupCache(s, m)
    \/ \E s \in R, m \in M : Resume(s, m) \/ Drop(<<s, m>>)
    \/ \E n \in 1..created : PersistToDatabase(n) \/ Return(n)
    \/ \E s \in S :
        \/ FindAnchor(s) \/ FindRows(s) \/ SendNext(s) \/ BreakReplay(s)
        \/ CleanupExpiredCache(s)
    \/ Age \/ CleanupExpiredEvents

EvSpec == EvInit /\ [][EvNextOn(ESessions, Streams, ESessions)]_evVars

-----------------------------------------------------------------------------
(* Properties *)

\* The types; the cache of a session stays within its limits, per stream and in
\* all, and holds no event of another session (PersistentEventStore.ts:202-268).
EvTypeOK ==
    /\ created \in 0..MaxEvents /\ aged \in 0..created
    /\ \A n \in Events : stage[n] \in {"none", "persisting", "persisted", "returned", "failed"}
    /\ \A n \in Events : rowId[n] \in 0..(nextRow - 1)
    /\ up \subseteq ESessions \X Streams
    /\ \A s \in ESessions :
        /\ replay[s].pc \in {"idle", "anchor", "rows", "send"}
        /\ Cardinality(cache[s]) <= MaxCacheSize
        /\ \A x \in cache[s] : event[x.event].sess = s
        /\ \A m \in Streams : Cardinality(OfStream(cache[s], m)) <= CacheSize

\* An event whose id a client may hold can be resumed from until it expires: it
\* is in the table before its id is returned ("Persist before returning the
\* event ID so SDK resumption can replay it", PersistentEventStore.ts:43).
ResumableUntilExpired ==
    \A n \in Events : (stage[n] = "returned" /\ n > aged) => rowId[n] # 0

\* No client is sent an event of another session or stream, although the stream
\* ids and the table are shared (docs/api/API.md:158).
NoForeignEvents ==
    \A x \in ESessions \X Streams : \A n \in got[x] :
        event[n] = [sess |-> x[1], stream |-> x[2]]

\* A client whose replay ran to its end has every event of its stream whose row
\* followed the one it resumed after, whatever was stored, expired or deleted
\* while it ran (PersistentEventStore.ts:71-107).
ReplayComplete == \A x \in up : due[x] \subseteq got[x]

\* A client that resumes its stream misses nothing that is still stored and
\* sees nothing of others (PersistentEventStore.ts).
ResumptionFaithful == EvTypeOK /\ ResumableUntilExpired /\ NoForeignEvents /\ ReplayComplete
=============================================================================
