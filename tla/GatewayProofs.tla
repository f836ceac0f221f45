---------------------------- MODULE GatewayProofs ----------------------------
(***************************************************************************)
(* What the services of the gateway guarantee for any number of streams,   *)
(* servers, resources, runs and entries: the streams of the stateless      *)
(* controller, the routing of its requests, the token refresh, the log and *)
(* the cache of the policies.                                              *)
(***************************************************************************)
EXTENDS Integers, ModernStreams, ModernGateway, TokenRefresh, Logs, PolicyCache,
        FiniteSetTheorems, SequenceTheorems, WellFoundedInduction, TLAPS

(* The maximum of two numbers. *)
LEMMA MaxOfTwo ==
    ASSUME NEW a \in Int, NEW b \in Int
    PROVE  Max({a, b}) \in {a, b} /\ Max({a, b}) >= a /\ Max({a, b}) >= b
<1>1. \E x \in {a, b} : \A y \in {a, b} : x >= y
  OBVIOUS
<1>2. Max({a, b}) \in {a, b} /\ \A y \in {a, b} : Max({a, b}) >= y
  BY <1>1 DEF Max
<1> QED
  BY <1>2

(* The minimum of two numbers. *)
LEMMA MinOfTwo ==
    ASSUME NEW a \in Int, NEW b \in Int
    PROVE  Min({a, b}) \in {a, b} /\ Min({a, b}) <= a /\ Min({a, b}) <= b
<1>1. \E x \in {a, b} : \A y \in {a, b} : x <= y
  OBVIOUS
<1>2. Min({a, b}) \in {a, b} /\ \A y \in {a, b} : Min({a, b}) <= y
  BY <1>1 DEF Min
<1> QED
  BY <1>2

(* A set of numbers has a least one. *)
LEMMA MinOfNumbers ==
    ASSUME NEW S \in SUBSET Nat, S # {}
    PROVE  Min(S) \in S /\ \A y \in S : Min(S) <= y
<1>1. S \subseteq Nat /\ S # {}
  OBVIOUS
<1>2. PICK x \in S : \A y \in S : ~ (<<y, x>> \in OpToRel(<, Nat))
  BY <1>1, NatLessThanWellFounded, WFMin, Zenon
<1>3. ASSUME NEW y \in S PROVE x <= y
  <2>1. <<y, x>> \in Nat \X Nat /\ x \in Nat /\ y \in Nat
    OBVIOUS
  <2>2. ~ (y < x)
    BY <1>2, <2>1 DEF OpToRel
  <2> QED
    BY <2>1, <2>2
<1> QED
  BY <1>3 DEF Min

(* A set of numbers below a bound has a greatest one. *)
LEMMA MaxBelow ==
    ASSUME NEW S \in SUBSET Nat, S # {}, NEW n \in Nat, \A x \in S : x < n
    PROVE  Max(S) \in S /\ \A y \in S : y <= Max(S)
<1> DEFINE D == {n - x : x \in S}
<1>1. D \subseteq Nat /\ D # {}
  <2>1. \A x \in S : n - x \in Nat
    OBVIOUS
  <2>2. D \subseteq Nat
    BY <2>1
  <2>3. PICK x \in S : TRUE
    OBVIOUS
  <2>4. n - x \in D
    OBVIOUS
  <2> QED
    BY <2>2, <2>4
<1>2. PICK d \in D : \A y \in D : ~ (<<y, d>> \in OpToRel(<, Nat))
  BY <1>1, NatLessThanWellFounded, WFMin
<1>3. \A y \in D : d <= y
  <2> HIDE DEF D
  <2> TAKE y \in D
  <2>1. y \in Nat /\ d \in Nat /\ <<y, d>> \in Nat \X Nat
    BY <1>1
  <2>2. ~(y < d)
    BY <1>2, <2>1 DEF OpToRel
  <2> QED
    BY <2>1, <2>2
<1>4. PICK x \in S : d = n - x
  BY <1>2
<1>5. \A y \in S : x >= y
  <2> TAKE y \in S
  <2>1. n - y \in D
    OBVIOUS
  <2>2. d <= n - y
    BY <1>3, <2>1
  <2> QED
    BY <1>4, <2>2
<1>6. Max(S) \in S /\ \A y \in S : Max(S) >= y
  BY <1>5 DEF Max
<1> QED
  BY <1>6

-----------------------------------------------------------------------------
(* Streams: the inductive invariant. *)

StreamRec ==
    [pc : {"none", "subscribing", "rollback", "open", "ended", "failed"}, todo : SUBSET MsScopes,
     wait : MsScopes \cup {NoScope}, held : SUBSET MsScopes, match : SUBSET MsScopes, gone : BOOLEAN]
UpdateRec ==
    [pc : {"idle", "purge", "publish"}, scope : MsScopes \cup {NoScope}, ver : Nat, at : Nat]
ReadRec ==
    [pc : {"idle", "fetch", "store"}, scope : MsScopes \cup {NoScope}, fence : Nat, ver : Nat]

(* The types of what streams change. *)
StreamTypes ==
    /\ msStream \in [MStreams -> StreamRec]
    /\ msMay \in [MStreams -> SUBSET MsManaged]
    /\ msDown \in [MsScopes -> SUBSET MStreams]
    /\ msBus \subseteq MStreams
    /\ msLive \subseteq MsScopes /\ msAble \subseteq MsScopes

(* The types of what reads and announcements change. *)
ReadTypes ==
    /\ msVersion \in [MsScopes -> 1..MaxVersion]
    /\ msCache \in [MsScopes -> Nat] /\ msFence \in [MsScopes -> Nat]
    /\ msRead \in ReadRec /\ (msRead.pc # "idle" => msRead.scope \in MsScopes)
    /\ msBad \subseteq MsScopes
TellTypes ==
    /\ msUpd \in [MUpdates -> UpdateRec]
    /\ \A u \in MUpdates : msUpd[u].pc # "idle" => msUpd[u].scope \in MsScopes
    /\ msTold \in [MStreams -> [MsScopes -> Nat]]
    /\ msTick \in Nat
    /\ msSubs \in [MsSessions -> SUBSET MsManaged]
    /\ msSentAt \in [MsSessions -> [MsScopes -> Nat]]
    /\ msDone \in [MsScopes -> Nat]

(* A stream r of s, with the subscriptions down and the listeners bus: it   *)
(* is a subscriber of exactly what it holds and what it is waiting for,     *)
(* listens while it is open, and holds nothing when it is over.             *)
StreamHolds(s, r, down, bus) ==
    /\ r.wait # NoScope => r.pc = "subscribing"
    /\ (s \in bus) = (r.pc = "open")
    /\ \A c \in MsScopes : (s \in down[c]) = (c \in r.held \/ c = r.wait)
    /\ r.todo \cap r.held = {} /\ r.wait \notin r.todo \cup r.held
    /\ r.pc \in {"none", "ended", "failed"} => r.held = {} /\ r.wait = NoScope
HoldInv == \A s \in MStreams : StreamHolds(s, msStream[s], msDown, msBus)

(* Nothing older than version v of c is in the cache, and nothing older     *)
(* will get there: a read that would store it was overtaken by a purge.     *)
NoneOlder(c, v) ==
    /\ msCache[c] > 0 => msCache[c] >= v
    /\ msRead.pc = "store" /\ msRead.scope = c /\ msRead.fence = msFence[c] => msRead.ver >= v

(* It is so of what streams were told and of what they are about to be told. *)
FreshInv ==
    \A c \in MsScopes \ msBad :
        /\ \A s \in MStreams : NoneOlder(c, msTold[s][c])
        /\ \A u \in MUpdates : msUpd[u].pc = "publish" /\ msUpd[u].scope = c => NoneOlder(c, msUpd[u].ver)

(* Versions and fences are of the past. *)
PastInv ==
    /\ \A c \in MsScopes : msCache[c] <= msVersion[c] /\ \A s \in MStreams : msTold[s][c] <= msVersion[c]
    /\ msRead.pc # "idle" =>
           /\ msRead.ver <= msVersion[msRead.scope]
           /\ msRead.fence <= msFence[msRead.scope]
    /\ \A u \in MUpdates : msUpd[u].pc # "idle" => msUpd[u].ver <= msVersion[msUpd[u].scope]

(* Arrivals are of the past, and sessions heard of what was handled. *)
HearInv ==
    /\ \A u \in MUpdates : msUpd[u].at <= msTick
    /\ \A c \in MsScopes : msDone[c] <= msTick
    /\ SessionsHear

ReadInv == ReadTypes /\ TellTypes /\ FreshInv /\ PastInv /\ HearInv
StrInv == StreamTypes /\ HoldInv /\ ReadInv /\ ScopeKept

(* A stream that is not there, a handler that has nothing to do. *)
LEMMA StreamRecords ==
    /\ NoStream \in StreamRec /\ IdleUpdate \in UpdateRec /\ IdleRead \in ReadRec
    /\ NoScope \notin MsScopes
BY StreamsAssumption DEF NoStream, StreamRec, IdleUpdate, UpdateRec, IdleRead, ReadRec

(* Initially. *)
LEMMA StreamsInitInv == StreamsInit => StrInv
<1> SUFFICES ASSUME StreamsInit PROVE StrInv
  OBVIOUS
<1>1. StreamTypes
  BY StreamRecords DEF StreamsInit, StreamTypes
<1>2. HoldInv
  BY StreamRecords DEF StreamsInit, HoldInv, StreamHolds, NoStream
<1>3. ReadTypes
  BY StreamRecords, StreamsAssumption DEF StreamsInit, ReadTypes, IdleRead
<1>4. TellTypes
  BY StreamRecords DEF StreamsInit, TellTypes, IdleUpdate
<1>5. FreshInv /\ PastInv
  BY StreamsAssumption DEF StreamsInit, FreshInv, PastInv, NoneOlder, IdleRead, IdleUpdate
<1>6. HearInv /\ ScopeKept
  <2>1. \A c \in MsManaged : c \in MsScopes
    BY DEF MsScopes
  <2> QED
    BY <2>1 DEF StreamsInit, HearInv, ScopeKept, SessionsHear, IdleUpdate
<1> QED
  BY <1>1, <1>2, <1>3, <1>4, <1>5, <1>6 DEF StrInv, ReadInv

-----------------------------------------------------------------------------
(* Parts that a step leaves alone. *)

LEMMA ReadKept ==
    ASSUME StrInv, UNCHANGED <<msMay, readVars, tellVars>>
    PROVE  ReadInv' /\ ScopeKept'
BY DEF StrInv, ReadInv, ReadTypes, TellTypes, FreshInv, NoneOlder, PastInv, HearInv, SessionsHear,
       ScopeKept, readVars, tellVars

LEMMA HoldKept ==
    ASSUME StrInv, UNCHANGED streamVars, msLive' \subseteq MsScopes, UNCHANGED msAble
    PROVE  StreamTypes' /\ HoldInv'
BY DEF StrInv, StreamTypes, HoldInv, streamVars

(* A step of one stream, to n: what it does to the subscriptions and the    *)
(* listeners concerns only itself.                                          *)
LEMMA OneStreamKeeps ==
    ASSUME StrInv, UNCHANGED <<msMay, scopeVars, readVars, tellVars>>,
           NEW s \in MStreams, NEW n \in StreamRec,
           msStream' = [msStream EXCEPT ![s] = n],
           msDown' \in [MsScopes -> SUBSET MStreams], msBus' \subseteq MStreams,
           \A t \in MStreams \ {s} : \A c \in MsScopes : t \in msDown'[c] <=> t \in msDown[c],
           \A t \in MStreams \ {s} : t \in msBus' <=> t \in msBus,
           StreamHolds(s, n, msDown', msBus')
    PROVE  StrInv'
<1>1. StreamTypes'
  BY DEF StrInv, StreamTypes, scopeVars
<1>2. ASSUME NEW t \in MStreams PROVE StreamHolds(t, msStream'[t], msDown', msBus')
  <2>1. CASE t = s
    BY <2>1 DEF StrInv, StreamTypes
  <2>2. CASE t # s
    <3>1. StreamHolds(t, msStream[t], msDown, msBus) /\ msStream'[t] = msStream[t]
      BY <2>2 DEF StrInv, StreamTypes, HoldInv
    <3> QED
      BY <2>2, <3>1 DEF StreamHolds
  <2> QED
    BY <2>1, <2>2
<1>3. HoldInv'
  BY <1>2 DEF HoldInv
<1> QED
  BY <1>1, <1>3, ReadKept DEF StrInv

-----------------------------------------------------------------------------
(* The steps of a stream. *)

LEMMA ListenInv ==
    ASSUME StrInv, NEW s \in MStreams, NEW uris \in SUBSET MsScopes, NEW raw \in BOOLEAN, Listen(s, uris, raw)
    PROVE  StrInv'
<1>1. PICK n : n = [NoStream EXCEPT !.pc = "subscribing", !.todo = uris, !.match = Filter(uris, raw)]
  OBVIOUS
<1>2. n \in StreamRec /\ n.pc = "subscribing" /\ n.wait = NoScope /\ n.held = {} /\ n.todo = uris
  BY <1>1 DEF NoStream, StreamRec, Filter
<1>3. msStream' = [msStream EXCEPT ![s] = n] /\ UNCHANGED <<msMay, msDown, msBus, scopeVars, readVars, tellVars>>
  BY <1>1 DEF Listen
<1>4. StreamHolds(s, msStream[s], msDown, msBus) /\ msStream[s].pc = "none"
  BY DEF StrInv, HoldInv, Listen
<1>5. StreamHolds(s, n, msDown', msBus')
  BY <1>2, <1>3, <1>4, StreamRecords DEF StreamHolds
<1> QED
  BY <1>2, <1>3, <1>5, OneStreamKeeps DEF StrInv, StreamTypes

LEMMA SubscribeNextInv ==
    ASSUME StrInv, NEW s \in MStreams, NEW c \in MsScopes, SubscribeNext(s, c)
    PROVE  StrInv'
<1> DEFINE r == msStream[s]
<1>0. r \in StreamRec /\ StreamHolds(s, r, msDown, msBus) /\ r.pc = "subscribing" /\ r.wait = NoScope /\ c \in r.todo
      /\ msDown \in [MsScopes -> SUBSET MStreams] /\ msBus \subseteq MStreams
      /\ UNCHANGED <<msMay, msBus, scopeVars, readVars, tellVars>> /\ msStream \in [MStreams -> StreamRec]
  BY DEF StrInv, HoldInv, StreamTypes, SubscribeNext
<1>1. CASE msStream' = [msStream EXCEPT ![s].pc = "rollback"] /\ UNCHANGED msDown
  <2>1. PICK n : n = [r EXCEPT !.pc = "rollback"]
    OBVIOUS
  <2>2. n \in StreamRec /\ n.pc = "rollback" /\ n.wait = NoScope /\ n.held = r.held /\ n.todo = r.todo
    BY <2>1, <1>0 DEF StreamRec
  <2>3. msStream' = [msStream EXCEPT ![s] = n]
    BY <2>1, <1>1
  <2>4. StreamHolds(s, n, msDown', msBus')
    BY <2>2, <1>0, <1>1 DEF StreamHolds
  <2> QED
    BY <1>0, <1>1, <2>2, <2>3, <2>4, OneStreamKeeps
<1>2. CASE msStream' = [msStream EXCEPT ![s].todo = @ \ {c}] /\ UNCHANGED msDown
  <2>1. PICK n : n = [r EXCEPT !.todo = r.todo \ {c}]
    OBVIOUS
  <2>2. n \in StreamRec /\ n.pc = r.pc /\ n.wait = NoScope /\ n.held = r.held /\ n.todo = r.todo \ {c}
    BY <2>1, <1>0 DEF StreamRec
  <2>3. msStream' = [msStream EXCEPT ![s] = n]
    BY <2>1, <1>2
  <2>4. StreamHolds(s, n, msDown', msBus')
    BY <2>2, <1>0, <1>2 DEF StreamHolds
  <2> QED
    BY <1>0, <1>2, <2>2, <2>3, <2>4, OneStreamKeeps
<1>3. CASE /\ msStream' = [msStream EXCEPT ![s].todo = @ \ {c}, ![s].wait = c]
           /\ msDown' = [msDown EXCEPT ![c] = @ \cup {s}]
  <2>1. PICK n : n = [r EXCEPT !.todo = r.todo \ {c}, !.wait = c]
    OBVIOUS
  <2>2. n \in StreamRec /\ n.pc = r.pc /\ n.wait = c /\ n.held = r.held /\ n.todo = r.todo \ {c}
    BY <2>1, <1>0 DEF StreamRec
  <2>3. msStream' = [msStream EXCEPT ![s] = n]
    BY <2>1, <1>3
  <2>4. \A d \in MsScopes : msDown'[d] = IF d = c THEN msDown[d] \cup {s} ELSE msDown[d]
    BY <1>0, <1>3
  <2>5. StreamHolds(s, n, msDown', msBus')
    <3>1. \A d \in MsScopes : (s \in msDown'[d]) = (d \in n.held \/ d = n.wait)
      BY <2>2, <2>4, <1>0, StreamRecords DEF StreamHolds
    <3> QED
      BY <3>1, <2>2, <1>0 DEF StreamHolds
  <2>6. \A t \in MStreams \ {s} : \A d \in MsScopes : t \in msDown'[d] <=> t \in msDown[d]
    BY <2>4
  <2>7. msDown' \in [MsScopes -> SUBSET MStreams]
    BY <1>0, <1>3
  <2> QED
    BY <1>0, <2>2, <2>3, <2>5, <2>6, <2>7, OneStreamKeeps
<1> QED
  BY <1>1, <1>2, <1>3 DEF SubscribeNext

LEMMA SubscribedInv ==
    ASSUME StrInv, NEW s \in MStreams, Subscribed(s)
    PROVE  StrInv'
<1> DEFINE r == msStream[s]
<1>0. r \in StreamRec /\ StreamHolds(s, r, msDown, msBus) /\ r.wait # NoScope
      /\ msDown \in [MsScopes -> SUBSET MStreams] /\ msBus \subseteq MStreams
      /\ UNCHANGED <<msMay, msDown, msBus, scopeVars, readVars, tellVars>> /\ msStream \in [MStreams -> StreamRec]
  BY DEF StrInv, HoldInv, StreamTypes, Subscribed
<1>1. PICK n : n = [r EXCEPT !.wait = NoScope, !.held = r.held \cup {r.wait}]
  OBVIOUS
<1>2. n \in StreamRec /\ n.pc = r.pc /\ n.wait = NoScope /\ n.held = r.held \cup {r.wait} /\ n.todo = r.todo
  BY <1>0, <1>1 DEF StreamRec
<1>3. msStream' = [msStream EXCEPT ![s] = n]
  BY <1>1 DEF Subscribed
<1>4. StreamHolds(s, n, msDown', msBus')
  BY <1>0, <1>2, StreamRecords DEF StreamHolds, StreamRec
<1> QED
  BY <1>0, <1>2, <1>3, <1>4, OneStreamKeeps

LEMMA SubscribeFailsInv ==
    ASSUME StrInv, NEW s \in MStreams, SubscribeFails(s)
    PROVE  StrInv'
<1> DEFINE r == msStream[s]
<1>0. r \in StreamRec /\ StreamHolds(s, r, msDown, msBus) /\ r.wait # NoScope
      /\ msDown \in [MsScopes -> SUBSET MStreams] /\ msBus \subseteq MStreams
      /\ msDown' = [msDown EXCEPT ![r.wait] = @ \ {s}]
      /\ UNCHANGED <<msMay, msBus, scopeVars, readVars, tellVars>> /\ msStream \in [MStreams -> StreamRec]
  BY DEF StrInv, HoldInv, StreamTypes, SubscribeFails
<1>1. PICK n : n = [r EXCEPT !.pc = "rollback", !.wait = NoScope]
  OBVIOUS
<1>2. n \in StreamRec /\ n.pc = "rollback" /\ n.wait = NoScope /\ n.held = r.held /\ n.todo = r.todo
  BY <1>0, <1>1 DEF StreamRec
<1>3. msStream' = [msStream EXCEPT ![s] = n]
  BY <1>1 DEF SubscribeFails
<1>4. \A d \in MsScopes : msDown'[d] = IF d = r.wait THEN msDown[d] \ {s} ELSE msDown[d]
  BY <1>0
<1>5. \A d \in MsScopes : (s \in msDown'[d]) = (d \in n.held \/ d = n.wait)
  BY <1>0, <1>2, <1>4, StreamRecords DEF StreamHolds
<1>6. StreamHolds(s, n, msDown', msBus')
  BY <1>0, <1>2, <1>5, StreamRecords DEF StreamHolds, StreamRec
<1>7. \A t \in MStreams \ {s} : \A d \in MsScopes : t \in msDown'[d] <=> t \in msDown[d]
  BY <1>4
<1>8. msDown' \in [MsScopes -> SUBSET MStreams]
  BY <1>0
<1> QED
  BY <1>0, <1>2, <1>3, <1>6, <1>7, <1>8, OneStreamKeeps

(* A stream that ends gives up what it holds. *)
LEMMA ReleasedInv ==
    ASSUME StrInv, NEW s \in MStreams, msStream[s].wait = NoScope,
           NEW n \in StreamRec, n.pc \in {"ended", "failed"}, n.held = {}, n.wait = NoScope, n.todo = {},
           msStream' = [msStream EXCEPT ![s] = n],
           msDown' = Released(s), msBus' = msBus \ {s},
           UNCHANGED <<msMay, scopeVars, readVars, tellVars>>
    PROVE  StrInv'
<1>1. msDown \in [MsScopes -> SUBSET MStreams] /\ msBus \subseteq MStreams /\ StreamHolds(s, msStream[s], msDown, msBus)
  BY DEF StrInv, StreamTypes, HoldInv
<1>2. \A d \in MsScopes : msDown'[d] = IF d \in msStream[s].held THEN msDown[d] \ {s} ELSE msDown[d]
  BY DEF Released
<1>3. msDown' \in [MsScopes -> SUBSET MStreams]
  BY <1>1 DEF Released
<1>4. \A d \in MsScopes : s \notin msDown'[d]
  BY <1>1, <1>2, StreamRecords DEF StreamHolds
<1>5. StreamHolds(s, n, msDown', msBus')
  BY <1>4, StreamRecords DEF StreamHolds
<1>6. \A t \in MStreams \ {s} : \A d \in MsScopes : t \in msDown'[d] <=> t \in msDown[d]
  BY <1>2
<1> QED
  BY <1>1, <1>3, <1>5, <1>6, OneStreamKeeps

LEMMA RollbackInv ==
    ASSUME StrInv, NEW s \in MStreams, Rollback(s)
    PROVE  StrInv'
<1>1. msStream[s] \in StreamRec /\ StreamHolds(s, msStream[s], msDown, msBus) /\ msStream[s].pc = "rollback"
  BY DEF StrInv, StreamTypes, HoldInv, Rollback
<1>2. PICK n : n = [NoStream EXCEPT !.pc = "failed", !.gone = msStream[s].gone]
  OBVIOUS
<1>3. n \in StreamRec /\ n.pc = "failed" /\ n.held = {} /\ n.wait = NoScope /\ n.todo = {}
  BY <1>1, <1>2 DEF NoStream, StreamRec
<1>4. msBus' = msBus \ {s} /\ msStream[s].wait = NoScope
  BY <1>1 DEF StreamHolds, Rollback
<1>5. /\ msStream' = [msStream EXCEPT ![s] = n] /\ msDown' = Released(s)
      /\ UNCHANGED <<msMay, scopeVars, readVars, tellVars>>
  BY <1>2 DEF Rollback
<1> QED
  BY <1>3, <1>4, <1>5, ReleasedInv

LEMMA OpenInv ==
    ASSUME StrInv, NEW s \in MStreams, Open(s)
    PROVE  StrInv'
<1> DEFINE r == msStream[s]
<1>0. r \in StreamRec /\ StreamHolds(s, r, msDown, msBus) /\ r.wait = NoScope
      /\ msDown \in [MsScopes -> SUBSET MStreams] /\ msBus \subseteq MStreams
      /\ msBus' = msBus \cup {s}
      /\ UNCHANGED <<msMay, msDown, scopeVars, readVars, tellVars>> /\ msStream \in [MStreams -> StreamRec]
  BY DEF StrInv, HoldInv, StreamTypes, Open
<1>1. PICK n : n = [r EXCEPT !.pc = "open"]
  OBVIOUS
<1>2. n \in StreamRec /\ n.pc = "open" /\ n.wait = NoScope /\ n.held = r.held /\ n.todo = r.todo
  BY <1>0, <1>1 DEF StreamRec
<1>3. msStream' = [msStream EXCEPT ![s] = n]
  BY <1>1 DEF Open
<1>4. StreamHolds(s, n, msDown', msBus')
  BY <1>0, <1>2 DEF StreamHolds
<1> QED
  BY <1>0, <1>2, <1>3, <1>4, OneStreamKeeps

LEMMA ClientClosesInv ==
    ASSUME StrInv, NEW s \in MStreams, ClientCloses(s)
    PROVE  StrInv'
<1> DEFINE r == msStream[s]
<1>0. r \in StreamRec /\ StreamHolds(s, r, msDown, msBus)
      /\ msDown \in [MsScopes -> SUBSET MStreams] /\ msBus \subseteq MStreams
      /\ UNCHANGED <<msMay, scopeVars, readVars, tellVars>> /\ msStream \in [MStreams -> StreamRec]
  BY DEF StrInv, HoldInv, StreamTypes, ClientCloses
<1>1. CASE r.pc = "open"
  <2>1. PICK n : n = [NoStream EXCEPT !.pc = "ended", !.gone = TRUE]
    OBVIOUS
  <2>2. n \in StreamRec /\ n.pc = "ended" /\ n.held = {} /\ n.wait = NoScope /\ n.todo = {}
    BY <2>1 DEF NoStream, StreamRec
  <2>3. r.wait = NoScope
    BY <1>0, <1>1 DEF StreamHolds
  <2>4. msStream' = [msStream EXCEPT ![s] = n] /\ msDown' = Released(s) /\ msBus' = msBus \ {s}
    BY <1>1, <2>1 DEF ClientCloses, Closed
  <2> QED
    BY <1>0, <2>2, <2>3, <2>4, ReleasedInv
<1>2. CASE r.pc # "open"
  <2>1. PICK n : n = [r EXCEPT !.gone = TRUE]
    OBVIOUS
  <2>2. n \in StreamRec /\ n.pc = r.pc /\ n.wait = r.wait /\ n.held = r.held /\ n.todo = r.todo
    BY <1>0, <2>1 DEF StreamRec
  <2>3. msStream' = [msStream EXCEPT ![s] = n] /\ UNCHANGED <<msDown, msBus>>
    BY <1>2, <2>1 DEF ClientCloses
  <2>4. StreamHolds(s, n, msDown', msBus')
    BY <1>0, <2>2, <2>3 DEF StreamHolds
  <2> QED
    BY <1>0, <2>2, <2>3, <2>4, OneStreamKeeps
<1> QED
  BY <1>1, <1>2

LEMMA AuthExpiresInv ==
    ASSUME StrInv, NEW s \in MStreams, AuthExpires(s)
    PROVE  StrInv'
<1>1. msStream[s] \in StreamRec /\ StreamHolds(s, msStream[s], msDown, msBus) /\ msStream[s].pc = "open"
  BY DEF StrInv, StreamTypes, HoldInv, AuthExpires
<1>2. PICK n : n = [NoStream EXCEPT !.pc = "ended", !.gone = msStream[s].gone]
  OBVIOUS
<1>3. n \in StreamRec /\ n.pc = "ended" /\ n.held = {} /\ n.wait = NoScope /\ n.todo = {}
  BY <1>1, <1>2 DEF NoStream, StreamRec
<1>4. msBus' = msBus \ {s} /\ msStream[s].wait = NoScope
  BY <1>1 DEF StreamHolds, AuthExpires, Closed
<1>5. /\ msStream' = [msStream EXCEPT ![s] = n] /\ msDown' = Released(s)
      /\ UNCHANGED <<msMay, scopeVars, readVars, tellVars>>
  BY <1>2 DEF AuthExpires, Closed
<1> QED
  BY <1>3, <1>4, <1>5, ReleasedInv

LEMMA ScopeRemovedInv ==
    ASSUME StrInv, NEW c \in MsScopes, ScopeRemoved(c)
    PROVE  StrInv'
<1>1. UNCHANGED <<streamVars, msAble, readVars, tellVars>> /\ msLive' \subseteq MsScopes
  BY DEF ScopeRemoved, StrInv, StreamTypes
<1>2. UNCHANGED <<msMay, readVars, tellVars>>
  BY <1>1 DEF streamVars
<1> QED
  BY <1>1, <1>2, ReadKept, HoldKept DEF StrInv


-----------------------------------------------------------------------------
(* Reads and announcements. *)

(* Streams are not concerned. *)
LEMMA StreamsKept ==
    ASSUME StrInv, UNCHANGED <<streamVars, scopeVars>>
    PROVE  StreamTypes' /\ HoldInv' /\ msMay' = msMay
BY HoldKept DEF streamVars, scopeVars, StrInv, StreamTypes

(* Nobody is told anything. *)
LEMMA TellKept ==
    ASSUME StrInv, UNCHANGED <<streamVars, scopeVars, tellVars>>
    PROVE  TellTypes' /\ HearInv' /\ ScopeKept'
BY DEF StrInv, ReadInv, TellTypes, HearInv, SessionsHear, ScopeKept, tellVars, streamVars

LEMMA ReadBeginsInv ==
    ASSUME StrInv, NEW c \in MsScopes, ReadBegins(c)
    PROVE  StrInv'
<1> USE DEF StrInv, ReadInv
<1>1. /\ UNCHANGED <<streamVars, scopeVars, msVersion, msCache, msFence, msBad, tellVars>>
      /\ msRead' = [pc |-> "fetch", scope |-> c, fence |-> msFence[c], ver |-> 0]
  BY DEF ReadBegins
<1>2. /\ msRead' \in ReadRec /\ msRead'.pc = "fetch" /\ msRead'.scope = c
      /\ msRead'.fence = msFence[c] /\ msRead'.ver = 0
  BY <1>1 DEF ReadTypes, ReadRec
<1>3. ReadTypes'
  BY <1>1, <1>2 DEF ReadTypes
<1>4. FreshInv'
  BY <1>1, <1>2 DEF FreshInv, NoneOlder, tellVars
<1>5. PastInv'
  BY <1>1, <1>2 DEF PastInv, tellVars, ReadTypes
<1> QED
  BY <1>1, <1>3, <1>4, <1>5, StreamsKept, TellKept

LEMMA ReadFetchedInv ==
    ASSUME StrInv, ReadFetched
    PROVE  StrInv'
<1> USE DEF StrInv, ReadInv
<1>1. /\ UNCHANGED <<streamVars, scopeVars, msVersion, msCache, msFence, msBad, tellVars>>
      /\ msRead' = [msRead EXCEPT !.pc = "store", !.ver = msVersion[msRead.scope]]
      /\ msRead.pc = "fetch" /\ msRead \in ReadRec /\ msRead.scope \in MsScopes
  BY DEF ReadFetched, ReadTypes
<1>0. msVersion[msRead.scope] \in Nat
  BY <1>1, StreamsAssumption DEF ReadTypes
<1>2. /\ msRead' \in ReadRec /\ msRead'.pc = "store" /\ msRead'.scope = msRead.scope
      /\ msRead'.fence = msRead.fence /\ msRead'.ver = msVersion[msRead.scope]
  BY <1>0, <1>1 DEF ReadRec
<1>3. ReadTypes'
  BY <1>1, <1>2 DEF ReadTypes
<1>4. FreshInv'
  <2>1. ASSUME NEW c \in MsScopes \ msBad, NEW v \in Nat, NoneOlder(c, v), v <= msVersion[c] PROVE NoneOlder(c, v)'
    BY <1>1, <1>2, <2>1 DEF NoneOlder
  <2>2. \A s \in MStreams, c \in MsScopes : msTold[s][c] \in Nat /\ msTold[s][c] <= msVersion[c]
    BY DEF TellTypes, PastInv
  <2>3. \A u \in MUpdates : msUpd[u].ver \in Nat /\ (msUpd[u].pc = "publish" => msUpd[u].ver <= msVersion[msUpd[u].scope])
    BY DEF TellTypes, PastInv, UpdateRec
  <2>4. msUpd' = msUpd /\ msTold' = msTold /\ msBad' = msBad
    BY <1>1 DEF tellVars
  <2>5. ASSUME NEW c \in MsScopes \ msBad, NEW s \in MStreams PROVE NoneOlder(c, msTold[s][c])'
    <3>1. PICK v \in Nat : v = msTold[s][c]
      BY <2>2
    <3>2. NoneOlder(c, v) /\ v <= msVersion[c]
      BY <3>1, <2>2 DEF FreshInv
    <3>3. NoneOlder(c, v)'
      BY <3>2, <2>1
    <3> QED
      BY <3>1, <3>3, <2>4
  <2>6. ASSUME NEW c \in MsScopes \ msBad, NEW u \in MUpdates, msUpd[u].pc = "publish", msUpd[u].scope = c
        PROVE  NoneOlder(c, msUpd[u].ver)'
    <3>1. PICK v \in Nat : v = msUpd[u].ver
      BY <2>3
    <3>2. NoneOlder(c, v) /\ v <= msVersion[c]
      BY <3>1, <2>3, <2>6 DEF FreshInv
    <3>3. NoneOlder(c, v)'
      BY <3>2, <2>1
    <3> QED
      BY <3>1, <3>3, <2>4
  <2> QED
    BY <2>4, <2>5, <2>6 DEF FreshInv
<1>5. PastInv'
  BY <1>1, <1>2 DEF PastInv, tellVars, ReadTypes
<1> QED
  BY <1>1, <1>3, <1>4, <1>5, StreamsKept, TellKept

LEMMA ReadStoredInv ==
    ASSUME StrInv, ReadStored
    PROVE  StrInv'
<1> USE DEF StrInv, ReadInv
<1>1. /\ UNCHANGED <<streamVars, scopeVars, msVersion, msFence, msBad, tellVars>>
      /\ msCache' = IF msFence[msRead.scope] = msRead.fence
                    THEN [msCache EXCEPT ![msRead.scope] = msRead.ver] ELSE msCache
      /\ msRead' = IdleRead
      /\ msRead.pc = "store" /\ msRead \in ReadRec /\ msRead.scope \in MsScopes
  BY DEF ReadStored, ReadTypes
<1>2. msRead' \in ReadRec /\ msRead'.pc = "idle" /\ msRead.ver \in Nat
  BY <1>1, StreamRecords DEF IdleRead, ReadRec
<1>3. ReadTypes'
  BY <1>1, <1>2 DEF ReadTypes
<1>4. \A c \in MsScopes : msCache'[c] = IF c = msRead.scope /\ msFence[c] = msRead.fence THEN msRead.ver ELSE msCache[c]
  BY <1>1 DEF ReadTypes
<1>5. FreshInv'
  <2>1. \A c \in MsScopes : \A v : NoneOlder(c, v) => ((msCache'[c] > 0 => msCache'[c] >= v) /\ msRead'.pc # "store")
    BY <1>1, <1>2, <1>4 DEF NoneOlder
  <2>2. msUpd' = msUpd /\ msTold' = msTold /\ msBad' = msBad
    BY <1>1 DEF tellVars
  <2> QED
    BY <2>1, <2>2 DEF FreshInv, NoneOlder
<1>6. PastInv'
  BY <1>1, <1>2, <1>4 DEF PastInv, tellVars, ReadTypes
<1> QED
  BY <1>1, <1>3, <1>5, <1>6, StreamsKept, TellKept

LEMMA UpdateArrivesInv ==
    ASSUME StrInv, NEW u \in MUpdates, NEW c \in MsScopes, UpdateArrives(u, c)
    PROVE  StrInv'
<1> USE DEF StrInv, ReadInv
<1>1. /\ UNCHANGED <<streamVars, scopeVars, msCache, msFence, msRead, msBad, msTold, msTick, msSubs, msSentAt, msDone>>
      /\ msVersion' = [msVersion EXCEPT ![c] = @ + 1] /\ msVersion[c] < MaxVersion
      /\ msUpd[u].pc = "idle"
  BY DEF UpdateArrives
<1>2. PICK n : n = [pc |-> "purge", scope |-> c, ver |-> msVersion[c] + 1, at |-> msTick]
  OBVIOUS
<1>3. n \in UpdateRec /\ n.pc = "purge" /\ n.scope = c /\ n.ver = msVersion[c] + 1 /\ n.at = msTick
  BY <1>2, StreamsAssumption DEF UpdateRec, ReadTypes, TellTypes
<1>4. msUpd' = [msUpd EXCEPT ![u] = n] /\ msUpd \in [MUpdates -> UpdateRec]
  BY <1>2 DEF UpdateArrives, TellTypes
<1>5. \A w \in MUpdates : msUpd'[w] = IF w = u THEN n ELSE msUpd[w]
  BY <1>4
<1>6. \A d \in MsScopes : msVersion'[d] = IF d = c THEN msVersion[d] + 1 ELSE msVersion[d]
  BY <1>1 DEF ReadTypes
<1>7. \A d \in MsScopes : msVersion[d] \in Nat /\ msVersion'[d] \in Nat /\ msVersion'[d] >= msVersion[d]
  BY <1>6, StreamsAssumption DEF ReadTypes
<1>8. ReadTypes'
  BY <1>1, StreamsAssumption DEF ReadTypes
<1>9. TellTypes'
  BY <1>1, <1>3, <1>4, <1>5 DEF TellTypes
<1>10. FreshInv'
  BY <1>1, <1>3, <1>5 DEF FreshInv, NoneOlder
<1>11. PastInv'
  <2>1. \A d \in MsScopes : msCache[d] \in Nat /\ \A s \in MStreams : msTold[s][d] \in Nat
    BY DEF ReadTypes, TellTypes
  <2>2. /\ \A d \in MsScopes : msCache'[d] <= msVersion'[d] /\ \A s \in MStreams : msTold'[s][d] <= msVersion'[d]
    BY <1>1, <1>7, <2>1 DEF PastInv
  <2>3. msRead'.pc # "idle" => msRead'.ver <= msVersion'[msRead'.scope] /\ msRead'.fence <= msFence'[msRead'.scope]
    BY <1>1, <1>7 DEF PastInv, ReadTypes, ReadRec
  <2>4. ASSUME NEW w \in MUpdates, msUpd'[w].pc # "idle" PROVE msUpd'[w].ver <= msVersion'[msUpd'[w].scope]
    <3>1. CASE w = u
      BY <3>1, <1>3, <1>5, <1>6, <1>7
    <3>2. CASE w # u
      <4>1. msUpd'[w] = msUpd[w] /\ msUpd[w].ver \in Nat /\ msUpd[w].scope \in MsScopes
            /\ msUpd[w].ver <= msVersion[msUpd[w].scope]
        BY <3>2, <1>5, <2>4 DEF PastInv, TellTypes, UpdateRec
      <4> QED
        BY <4>1, <1>7
    <3> QED
      BY <3>1, <3>2
  <2> QED
    BY <2>2, <2>3, <2>4 DEF PastInv
<1>12. HearInv'
  BY <1>1, <1>3, <1>5 DEF HearInv, SessionsHear, TellTypes
<1>13. ScopeKept'
  BY <1>1 DEF ScopeKept, streamVars
<1> QED
  BY <1>1, <1>8, <1>9, <1>10, <1>11, <1>12, <1>13, StreamsKept

LEMMA PurgeInv ==
    ASSUME StrInv, NEW u \in MUpdates, NEW done \in BOOLEAN, Purge(u, done)
    PROVE  StrInv'
<1> USE DEF StrInv, ReadInv
<1>0. PICK c : c = msUpd[u].scope
  OBVIOUS
<1>1. /\ UNCHANGED <<streamVars, scopeVars, msVersion, msRead, msTold, msTick, msSubs, msSentAt, msDone>>
      /\ msUpd[u].pc = "purge" /\ msUpd[u] \in UpdateRec /\ c \in MsScopes
      /\ msUpd' = [msUpd EXCEPT ![u].pc = "publish"] /\ msUpd \in [MUpdates -> UpdateRec]
  BY <1>0 DEF Purge, TellTypes
<1>2. PICK n : n = [msUpd[u] EXCEPT !.pc = "publish"]
  OBVIOUS
<1>3. n \in UpdateRec /\ n.pc = "publish" /\ n.scope = c /\ n.ver = msUpd[u].ver /\ n.at = msUpd[u].at
  BY <1>0, <1>1, <1>2 DEF UpdateRec
<1>4. \A w \in MUpdates : msUpd'[w] = IF w = u THEN n ELSE msUpd[w]
  BY <1>1, <1>2
<1>5. TellTypes'
  BY <1>1, <1>3, <1>4 DEF TellTypes
<1>6. HearInv'
  BY <1>1, <1>3, <1>4 DEF HearInv, SessionsHear
<1>7. ScopeKept'
  BY <1>1 DEF ScopeKept, streamVars
<1>8. CASE /\ msCache' = [msCache EXCEPT ![c] = 0]
           /\ msFence' = [msFence EXCEPT ![c] = @ + 1]
           /\ UNCHANGED msBad
  <2>1. \A d \in MsScopes : msCache'[d] = (IF d = c THEN 0 ELSE msCache[d])
    BY <1>8 DEF ReadTypes
  <2>2. \A d \in MsScopes : msFence[d] \in Nat /\ msFence'[d] = (IF d = c THEN msFence[d] + 1 ELSE msFence[d])
    BY <1>8 DEF ReadTypes
  <2>3. ReadTypes'
    BY <1>1, <1>8 DEF ReadTypes
  <2>4. PastInv'
    <3>1. \A d \in MsScopes : msVersion[d] \in Nat
      BY StreamsAssumption DEF ReadTypes
    <3>2. \A d \in MsScopes : msCache'[d] <= msVersion'[d] /\ \A s \in MStreams : msTold'[s][d] <= msVersion'[d]
      BY <1>1, <2>1, <3>1 DEF PastInv
    <3>3. msRead'.pc # "idle" => msRead'.ver <= msVersion'[msRead'.scope] /\ msRead'.fence <= msFence'[msRead'.scope]
      BY <1>1, <2>2 DEF PastInv, ReadTypes, ReadRec
    <3>4. \A w \in MUpdates : msUpd'[w].pc # "idle" => msUpd'[w].ver <= msVersion'[msUpd'[w].scope]
      BY <1>1, <1>3, <1>4 DEF PastInv
    <3> QED
      BY <3>2, <3>3, <3>4 DEF PastInv
  <2>5. \A v : NoneOlder(c, v)'
    <3>1. msRead.pc = "store" /\ msRead.scope = c => msRead.fence \in Nat /\ msRead.fence <= msFence[c]
      BY DEF PastInv, ReadTypes, ReadRec
    <3>2. msCache'[c] = 0 /\ ~(msRead'.pc = "store" /\ msRead'.scope = c /\ msRead'.fence = msFence'[c])
      BY <1>1, <2>1, <2>2, <3>1
    <3> QED
      BY <3>2 DEF NoneOlder
  <2>6. ASSUME NEW d \in MsScopes, d # c PROVE \A v : NoneOlder(d, v) => NoneOlder(d, v)'
    BY <1>1, <2>1, <2>2, <2>6 DEF NoneOlder
  <2>7. FreshInv'
    <3>1. SUFFICES ASSUME NEW d \in MsScopes \ msBad
                   PROVE  /\ \A s \in MStreams : NoneOlder(d, msTold[s][d])'
                          /\ \A w \in MUpdates : msUpd'[w].pc = "publish" /\ msUpd'[w].scope = d => NoneOlder(d, msUpd[w].ver)'
      BY <1>8 DEF FreshInv
    <3>2. CASE d = c
      BY <3>2, <2>5
    <3>3. CASE d # c
      BY <3>3, <1>1, <1>3, <1>4, <2>6 DEF FreshInv
    <3> QED
      BY <3>2, <3>3
  <2> QED
    BY <1>1, <1>5, <1>6, <1>7, <2>3, <2>4, <2>7, StreamsKept
<1>9. CASE msBad' = msBad \cup {c} /\ UNCHANGED <<msCache, msFence>>
  <2>1. ReadTypes'
    BY <1>1, <1>9 DEF ReadTypes
  <2>2. PastInv'
    BY <1>1, <1>3, <1>4, <1>9 DEF PastInv
  <2>3. FreshInv'
    BY <1>1, <1>3, <1>4, <1>9 DEF FreshInv, NoneOlder
  <2> QED
    BY <1>1, <1>5, <1>6, <1>7, <2>1, <2>2, <2>3, StreamsKept
<1> QED
  BY <1>0, <1>8, <1>9 DEF Purge

LEMMA PublishInv ==
    ASSUME StrInv, NEW u \in MUpdates, Publish(u)
    PROVE  StrInv'
<1> USE DEF StrInv, ReadInv
<1> DEFINE c == msUpd[u].scope
<1>1. /\ UNCHANGED <<streamVars, scopeVars, readVars, msTick, msSubs>>
      /\ msUpd[u].pc = "publish" /\ msUpd[u] \in UpdateRec /\ c \in MsScopes
      /\ msUpd' = [msUpd EXCEPT ![u] = IdleUpdate] /\ msUpd \in [MUpdates -> UpdateRec]
  BY DEF Publish, TellTypes
<1>2. \A w \in MUpdates : msUpd'[w] = IF w = u THEN IdleUpdate ELSE msUpd[w]
  BY <1>1
<1>3. IdleUpdate \in UpdateRec /\ IdleUpdate.pc = "idle" /\ IdleUpdate.at = 0
  BY StreamRecords DEF IdleUpdate
<1>4. \A s \in MStreams : msTold[s] \in [MsScopes -> Nat] /\ msTold[s][c] \in Nat
  BY <1>1 DEF TellTypes
<1>5. msUpd[u].ver \in Nat /\ msUpd[u].at \in Nat /\ msDone[c] \in Nat /\ msTick \in Nat
  BY <1>1 DEF UpdateRec, TellTypes
<1>6. ASSUME NEW s \in MStreams
      PROVE  /\ msTold'[s] \in [MsScopes -> Nat]
             /\ \A d \in MsScopes \ {c} : msTold'[s][d] = msTold[s][d]
             /\ \/ msTold'[s][c] = msTold[s][c]
                \/ Receives(s, c) /\ msTold'[s][c] = msUpd[u].ver
  <2>1. Max({msTold[s][c], msUpd[u].ver}) \in {msTold[s][c], msUpd[u].ver}
    <3>1. msTold[s][c] \in Int /\ msUpd[u].ver \in Int
      BY <1>4, <1>5
    <3> QED
      BY <3>1, MaxOfTwo
  <2>2. msTold'[s] = IF Receives(s, c) THEN [msTold[s] EXCEPT ![c] = Max({msTold[s][c], msUpd[u].ver})] ELSE msTold[s]
    BY DEF Publish
  <2> QED
    BY <1>1, <1>4, <1>5, <2>1, <2>2
<1>7. ASSUME NEW e \in MsSessions
      PROVE  /\ msSentAt'[e] \in [MsScopes -> Nat]
             /\ \A d \in MsScopes \ {c} : msSentAt'[e][d] = msSentAt[e][d]
             /\ c \in msSubs[e] => msSentAt'[e][c] = msTick
  <2>1. msSentAt'[e] = IF c \in msSubs[e] /\ ~AlreadySent(e, c) THEN [msSentAt[e] EXCEPT ![c] = msTick] ELSE msSentAt[e]
    BY DEF Publish
  <2>2. msSentAt[e] \in [MsScopes -> Nat]
    BY DEF TellTypes
  <2> QED
    BY <1>1, <1>5, <2>1, <2>2 DEF AlreadySent
<1>8. /\ msDone' \in [MsScopes -> Nat] /\ msDone'[c] \in {msDone[c], msUpd[u].at}
      /\ \A d \in MsScopes \ {c} : msDone'[d] = msDone[d]
  <2>1. Max({msDone[c], msUpd[u].at}) \in {msDone[c], msUpd[u].at}
    <3>1. msDone[c] \in Int /\ msUpd[u].at \in Int
      BY <1>5
    <3> QED
      BY <3>1, MaxOfTwo
  <2>2. msDone' = [msDone EXCEPT ![c] = Max({msDone[c], msUpd[u].at})] /\ msDone \in [MsScopes -> Nat]
    BY DEF Publish, TellTypes
  <2> QED
    BY <1>1, <1>5, <2>1, <2>2
<1>9. ReadTypes'
  BY <1>1 DEF ReadTypes, readVars
<1>10. TellTypes'
  <2>1. msTold' \in [MStreams -> [MsScopes -> Nat]]
    <3>1. msTold' = [s \in MStreams |-> msTold'[s]]
      BY DEF Publish
    <3> QED
      BY <3>1, <1>6
  <2>2. msSentAt' \in [MsSessions -> [MsScopes -> Nat]]
    <3>1. msSentAt' = [e \in MsSessions |-> msSentAt'[e]]
      BY DEF Publish
    <3> QED
      BY <3>1, <1>7
  <2> QED
    BY <1>1, <1>2, <1>3, <1>8, <2>1, <2>2 DEF TellTypes
<1>11. FreshInv'
  <2>1. \A d, v : NoneOlder(d, v)' = NoneOlder(d, v)
    BY <1>1 DEF NoneOlder, readVars
  <2>2. ASSUME NEW d \in MsScopes \ msBad, NEW s \in MStreams PROVE NoneOlder(d, msTold'[s][d])
    BY <1>1, <1>6 DEF FreshInv
  <2>3. msBad' = msBad
    BY <1>1 DEF readVars
  <2>4. ASSUME NEW d \in MsScopes \ msBad, NEW w \in MUpdates, msUpd'[w].pc = "publish", msUpd'[w].scope = d
        PROVE  NoneOlder(d, msUpd'[w].ver)
    BY <1>2, <1>3, <2>4 DEF FreshInv
  <2> QED
    BY <2>1, <2>2, <2>3, <2>4 DEF FreshInv
<1>12. PastInv'
  <2>1. \A s \in MStreams, d \in MsScopes : msTold'[s][d] <= msVersion[d]
    BY <1>1, <1>6 DEF PastInv
  <2> QED
    BY <1>1, <1>2, <1>3, <2>1 DEF PastInv, readVars
<1>13. HearInv'
  <2>1. \A w \in MUpdates : msUpd'[w].at <= msTick
    BY <1>2, <1>3, <1>5 DEF HearInv
  <2>2. \A d \in MsScopes : msDone'[d] <= msTick
    BY <1>1, <1>8 DEF HearInv
  <2>3. \A e \in MsSessions : \A d \in msSubs[e] : msSentAt'[e][d] >= msDone'[d]
    <3>1. SUFFICES ASSUME NEW e \in MsSessions, NEW d \in msSubs[e] PROVE msSentAt'[e][d] >= msDone'[d]
      OBVIOUS
    <3>2. d \in MsScopes
      BY DEF TellTypes, MsScopes
    <3>3. CASE d = c
      BY <1>5, <1>7, <1>8, <2>2, <3>2, <3>3
    <3>4. CASE d # c
      BY <1>7, <1>8, <3>2, <3>4 DEF HearInv, SessionsHear
    <3> QED
      BY <3>3, <3>4
  <2> QED
    BY <1>1, <2>1, <2>2, <2>3 DEF HearInv, SessionsHear
<1>14. ScopeKept'
  <2>1. ASSUME NEW s \in MStreams, NEW d \in MsScopes, msTold'[s][d] > 0 PROVE d \in msMay[s]
    <3>1. CASE msTold'[s][d] = msTold[s][d]
      BY <2>1, <3>1 DEF ScopeKept
    <3>2. CASE msTold'[s][d] # msTold[s][d]
      <4>1. d = c /\ Receives(s, c)
        BY <1>6, <3>2
      <4> QED
        BY <4>1 DEF Receives, CanAccess
    <3> QED
      BY <3>1, <3>2
  <2>2. msMay' = msMay
    BY <1>1 DEF streamVars
  <2> QED
    BY <2>1, <2>2 DEF ScopeKept
<1> QED
  BY <1>1, <1>9, <1>10, <1>11, <1>12, <1>13, <1>14, StreamsKept

LEMMA MillisecondInv ==
    ASSUME StrInv, Millisecond
    PROVE  StrInv'
<1> USE DEF StrInv, ReadInv
<1>1. /\ UNCHANGED <<streamVars, scopeVars, readVars, msUpd, msTold, msSubs, msSentAt, msDone>>
      /\ msTick' = msTick + 1 /\ msTick \in Nat
  BY DEF Millisecond, TellTypes
<1>2. ReadTypes' /\ TellTypes'
  BY <1>1 DEF ReadTypes, TellTypes, readVars
<1>3. FreshInv' /\ PastInv' /\ ScopeKept'
  BY <1>1 DEF FreshInv, NoneOlder, PastInv, ScopeKept, readVars, streamVars
<1>4. HearInv'
  BY <1>1 DEF HearInv, SessionsHear, TellTypes, UpdateRec
<1> QED
  BY <1>1, <1>2, <1>3, <1>4, StreamsKept

(* No step breaks it. *)
LEMMA StreamsStep == StrInv /\ [StreamsNext]_modernVars => StrInv'
<1> SUFFICES ASSUME StrInv, [StreamsNext]_modernVars PROVE StrInv'
  OBVIOUS
<1>1. CASE UNCHANGED modernVars
  <2>1. UNCHANGED <<streamVars, scopeVars, readVars, tellVars>>
    BY <1>1 DEF modernVars
  <2>2. UNCHANGED <<msMay, readVars, tellVars>>
    BY <2>1 DEF streamVars
  <2> QED
    BY <2>1, <2>2, StreamsKept, ReadKept DEF StrInv
<1>2. CASE StreamsNext
  <2>1. CASE \E s \in MStreams : (\E uris \in SUBSET MsScopes, raw \in BOOLEAN : Listen(s, uris, raw)) \/ StreamStep(s)
    BY <2>1, ListenInv, SubscribeNextInv, SubscribedInv, SubscribeFailsInv, RollbackInv, OpenInv, ClientClosesInv,
       AuthExpiresInv DEF StreamStep
  <2>2. CASE \E c \in MsScopes : ScopeRemoved(c)
    BY <2>2, ScopeRemovedInv
  <2>3. CASE ReadStep(MsScopes)
    BY <2>3, ReadBeginsInv, ReadFetchedInv, ReadStoredInv DEF ReadStep
  <2>4. CASE UpdateStep(MUpdates, MsScopes)
    BY <2>4, UpdateArrivesInv, PurgeInv, PublishInv DEF UpdateStep
  <2>5. CASE Millisecond
    BY <2>5, MillisecondInv
  <2> QED
    BY <1>2, <2>1, <2>2, <2>3, <2>4, <2>5 DEF StreamsNext
<1> QED
  BY <1>1, <1>2

(* What the invariant is for. *)
LEMMA StreamsInvServes == StrInv => StreamsServed
<1> SUFFICES ASSUME StrInv PROVE StreamsServed
  OBVIOUS
<1> USE DEF StrInv, ReadInv
<1>1. StreamsTypeOK
  <2>1. \A c \in MsScopes : msCache[c] \in 0..msVersion[c] /\ msVersion[c] \in 1..MaxVersion
    BY StreamsAssumption DEF ReadTypes, PastInv
  <2>2. \A s \in MStreams : msStream[s] \in StreamRec /\ StreamHolds(s, msStream[s], msDown, msBus)
    BY DEF StreamTypes, HoldInv
  <2>3. \A s \in MStreams :
          /\ msStream[s].pc \in {"none", "subscribing", "rollback", "open", "ended", "failed"}
          /\ msStream[s].todo \subseteq MsScopes /\ msStream[s].held \subseteq MsScopes
          /\ msStream[s].wait # NoScope => msStream[s].pc = "subscribing"
          /\ (s \in msBus) = (msStream[s].pc = "open")
          /\ \A c \in msStream[s].held : s \in msDown[c]
    BY <2>2 DEF StreamRec, StreamHolds
  <2>4. \A u \in MUpdates : msUpd[u].pc \in {"idle", "purge", "publish"}
    BY DEF TellTypes, UpdateRec
  <2> QED
    BY <2>1, <2>3, <2>4 DEF StreamsTypeOK, StreamTypes
<1>2. NothingHeld
  BY StreamRecords DEF NothingHeld, HoldInv, StreamHolds
<1>3. FreshOnUpdate
  BY DEF FreshOnUpdate, FreshInv, NoneOlder
<1> QED
  BY <1>1, <1>2, <1>3 DEF StreamsServed, HearInv

(* A stream hears what it subscribed to and may hear, finds it in the       *)
(* cache, and leaves nothing behind when it ends or cannot be set up, and a *)
(* session is told of every announcement (ModernMcpController.ts,           *)
(* GlobalRequestRouter.ts), for any number of streams, resources, sessions  *)
(* and announcements under way.                                             *)
THEOREM StreamsAreServed == StreamsSpec => []StreamsServed
<1>1. StrInv /\ [StreamsNext]_modernVars => StrInv'
  BY StreamsStep
<1> QED
  BY <1>1, StreamsInitInv, StreamsInvServes, PTL DEF StreamsSpec

-----------------------------------------------------------------------------
(* The requests of the stateless endpoint: the inductive invariant. *)

ContextRec ==
    [id : 0..MaxContext, status : {"Online", "Sleeping", "Down"}, enabled : BOOLEAN, input : BOOLEAN,
     public : BOOLEAN, offers : SUBSET GKinds, off : SUBSET GKinds]
CallRec ==
    [pc : {"none", "legacy", "refused", "auth", "stream", "waking", "policy", "pending", "send", "sent", "done"},
     req : GwRequests, auth : GwAuths, server : GServers \cup {NoServer}, held : 0..MaxContext]

GatewayTypes ==
    /\ gwCtx \in [GServers -> ContextRec]
    /\ gwNext \in 1..MaxContext + 1
    /\ gwLive \in BOOLEAN
    /\ gwCall \in CallRec
    /\ gwOwner \in [1..MaxContext -> GServers \cup {NoServer}]

(* A context id is handed out once: it is of the server it was made for, and *)
(* those to come are of nobody.                                              *)
OwnerInv ==
    /\ \A s \in GServers : gwCtx[s].id # 0 => gwCtx[s].id < gwNext /\ gwOwner[gwCtx[s].id] = s
    /\ \A i \in 1..MaxContext : i >= gwNext => gwOwner[i] = NoServer

(* Once the name is resolved the request stays with the server it was made   *)
(* for, whose contexts only become younger; what it holds afterwards is a    *)
(* context of that server.                                                   *)
NamedFor(q) ==
    q.req.named # 0 =>
        /\ q.req.named < gwNext /\ gwOwner[q.req.named] = q.server
        /\ gwCtx[q.server].id # 0 => q.req.named <= gwCtx[q.server].id
HeldFor(q) ==
    /\ q.held \in 1..MaxContext /\ q.held < gwNext /\ gwOwner[q.held] = q.server
    /\ q.req.named # 0 => q.req.named <= q.held
CallInv ==
    /\ gwCall.pc \in {"waking", "policy", "send", "sent", "pending"} => gwCall.server \in GServers /\ NamedFor(gwCall)
    /\ gwCall.pc \in {"policy", "send", "sent", "pending"} => HeldFor(gwCall)

GwInv == GatewayTypes /\ OwnerInv /\ CallInv /\ OneEra

-----------------------------------------------------------------------------
(* The records of a request that is not there. *)
LEMMA GatewayRecords ==
    /\ NoContext \in ContextRec /\ NoContext.id = 0
    /\ NoCall \in CallRec /\ NoCall.pc = "none"
<1>1. NoContext \in ContextRec /\ NoContext.id = 0
  BY GatewayAssumption DEF NoContext, ContextRec
<1>2. NoAuth \in GwAuths
  BY DEF NoAuth, GwAuths
<1>3. NoRequest \in GwRequests
  BY GatewayAssumption DEF NoRequest, GwRequests
<1>4. NoCall \in CallRec /\ NoCall.pc = "none"
  BY <1>2, <1>3, GatewayAssumption DEF NoCall, CallRec
<1> QED
  BY <1>1, <1>4

LEMMA GatewayInitInv == GatewayInit => GwInv
<1> SUFFICES ASSUME GatewayInit PROVE GwInv
  OBVIOUS
<1>1. GatewayTypes
  BY GatewayRecords, GatewayAssumption DEF GatewayInit, GatewayTypes
<1>2. OwnerInv /\ CallInv /\ OneEra
  BY GatewayRecords DEF GatewayInit, OwnerInv, CallInv, OneEra
<1> QED
  BY <1>1, <1>2 DEF GwInv

(* A step of the request, to n. *)
LEMMA CallStepKeeps ==
    ASSUME GwInv, UNCHANGED <<gwCtx, gwNext, gwLive, gwOwner>>,
           NEW n \in CallRec, gwCall' = n,
           n.pc \in {"waking", "policy", "send", "sent", "pending"} => n.server \in GServers /\ NamedFor(n),
           n.pc \in {"policy", "send", "sent", "pending"} => HeldFor(n),
           n.pc \in {"auth", "waking", "policy", "send", "sent", "pending", "stream", "done"} =>
               ~n.req.session /\ ~n.req.lastEvent /\ n.req.method # "initialize",
           n.pc = "refused" /\ gwLive /\ n.req.session => n.req.method \in ModernOnly
    PROVE  GwInv'
<1>1. GatewayTypes' /\ OwnerInv'
  BY DEF GwInv, GatewayTypes, OwnerInv
<1>2. CallInv'
  BY DEF CallInv, NamedFor, HeldFor
<1>3. OneEra'
  BY DEF OneEra
<1> QED
  BY <1>1, <1>2, <1>3 DEF GwInv

LEMMA ArriveInv ==
    ASSUME GwInv, NEW r \in GwRequests, Arrive(r)
    PROVE  GwInv'
<1>0. gwCall \in CallRec /\ gwLive \in BOOLEAN /\ UNCHANGED <<gwCtx, gwNext, gwLive, gwOwner>>
      /\ r.session \in BOOLEAN /\ r.lastEvent \in BOOLEAN /\ r.signal \in BOOLEAN /\ r.origin \in BOOLEAN
  BY DEF GwInv, GatewayTypes, Arrive, GwRequests
<1>1. PICK p : p = (CASE ShouldHandle(r) /\ ~r.origin -> "refused"
             [] (~ShouldHandle(r) \/ r.origin) /\ RejectMixedEra(r) -> "refused"
             [] ~RejectMixedEra(r) /\ ShouldHandle(r) /\ r.origin /\ r.verb # "POST" -> "refused"
             [] ~RejectMixedEra(r) /\ ShouldHandle(r) /\ r.origin /\ r.verb = "POST" -> "auth"
             [] OTHER -> "legacy")
  OBVIOUS
<1>2. /\ p \in {"refused", "auth", "legacy"}
      /\ p = "refused" => ShouldHandle(r) \/ RejectMixedEra(r)
      /\ p = "auth" => ShouldHandle(r) /\ ~RejectMixedEra(r)
  BY <1>1, <1>0
<1>3. PICK n : n = [gwCall EXCEPT !.req = r, !.pc = p]
  OBVIOUS
<1>4. n \in CallRec /\ n.req = r /\ n.pc = p
  BY <1>0, <1>2, <1>3 DEF CallRec
<1>5. gwCall' = n
  BY <1>1, <1>3 DEF Arrive
<1>6. p = "refused" /\ gwLive /\ r.session => r.method \in ModernOnly
  BY <1>2, <1>0 DEF ShouldHandle, RejectMixedEra, ShouldPreferLegacy
<1>7. p = "auth" => ~r.session /\ ~r.lastEvent /\ r.method # "initialize"
  BY <1>2, <1>0 DEF ShouldHandle, RejectMixedEra, ShouldPreferLegacy
<1> QED
  BY <1>0, <1>2, <1>4, <1>5, <1>6, <1>7, CallStepKeeps

LEMMA SessionEndsInv ==
    ASSUME GwInv, SessionEnds
    PROVE  GwInv'
<1>1. UNCHANGED <<gwCtx, gwNext, gwCall, gwOwner>> /\ gwLive' = FALSE
  BY DEF SessionEnds
<1> QED
  BY <1>1 DEF GwInv, GatewayTypes, OwnerInv, CallInv, NamedFor, HeldFor, OneEra

(* A request that goes no further. *)
LEMMA RefusedInv ==
    ASSUME GwInv, gwCall.pc \in {"auth", "waking", "policy", "send"},
           NEW p \in {"refused", "pending"}, p = "pending" => gwCall.pc = "policy",
           gwCall' = [gwCall EXCEPT !.pc = p], UNCHANGED <<gwCtx, gwNext, gwLive, gwOwner>>
    PROVE  GwInv'
<1>1. gwCall \in CallRec
  BY DEF GwInv, GatewayTypes
<1>2. PICK n : n = [gwCall EXCEPT !.pc = p]
  OBVIOUS
<1>3. n \in CallRec /\ n.pc = p /\ n.req = gwCall.req /\ n.server = gwCall.server /\ n.held = gwCall.held
  BY <1>1, <1>2 DEF CallRec
<1>4. ~n.req.session /\ ~n.req.lastEvent /\ n.req.method # "initialize"
  BY <1>3 DEF GwInv, OneEra
<1>5. p = "pending" => n.server \in GServers /\ NamedFor(n) /\ HeldFor(n)
  BY <1>3 DEF GwInv, CallInv, NamedFor, HeldFor
<1> QED
  BY <1>2, <1>3, <1>4, <1>5, CallStepKeeps

(* Whatever resolves a name was made for it. *)
LEMMA ResolvedAsNamed ==
    ASSUME GwInv, NEW a \in GwAuths, NEW m \in 0..MaxContext, NEW k, NEW s \in ResolveName(a, m, k)
    PROVE  s \in GServers /\ (m # 0 => gwCtx[s].id = m)
<1>1. CASE ParseGatewayName(m) # {}
  BY <1>1 DEF ResolveName, ParseGatewayName
<1>2. CASE ParseGatewayName(m) = {}
  <2>1. s \in UniqueByName(a, m, k)
    BY <1>2 DEF ResolveName
  <2>2. m = 0 /\ s \in Listed(a, k)
    BY <2>1 DEF UniqueByName
  <2> QED
    BY <2>2 DEF Listed
<1> QED
  BY <1>1, <1>2

LEMMA ForwardInv ==
    ASSUME GwInv, NEW a \in GwAuths, NEW k, gwCall.pc = "auth", Forward(a, gwCall.req.named, k),
           UNCHANGED <<gwCtx, gwNext, gwLive, gwOwner>>
    PROVE  GwInv'
<1>1. gwCall \in CallRec /\ gwCall.req.named \in 0..MaxContext
  BY DEF GwInv, GatewayTypes, CallRec, GwRequests
<1>2. ~gwCall.req.session /\ ~gwCall.req.lastEvent /\ gwCall.req.method # "initialize"
  BY DEF GwInv, OneEra
<1>3. CASE gwCall' = [gwCall EXCEPT !.auth = a, !.pc = "refused"]
  <2>1. PICK n : n = [gwCall EXCEPT !.auth = a, !.pc = "refused"]
    OBVIOUS
  <2>2. n \in CallRec /\ n.pc = "refused" /\ n.req = gwCall.req
    BY <1>1, <2>1 DEF CallRec
  <2> QED
    BY <1>2, <1>3, <2>1, <2>2, CallStepKeeps
<1>4. ASSUME NEW s \in ResolveName(a, gwCall.req.named, k), gwCall' = [gwCall EXCEPT !.auth = a, !.server = s, !.pc = "waking"]
      PROVE  GwInv'
  <2>1. s \in GServers /\ (gwCall.req.named # 0 => gwCtx[s].id = gwCall.req.named)
    BY <1>1, ResolvedAsNamed
  <2>2. PICK n : n = [gwCall EXCEPT !.auth = a, !.server = s, !.pc = "waking"]
    OBVIOUS
  <2>3. n \in CallRec /\ n.pc = "waking" /\ n.req = gwCall.req /\ n.server = s
    BY <1>1, <2>1, <2>2 DEF CallRec
  <2>4. NamedFor(n)
    BY <1>1, <2>1, <2>3 DEF NamedFor, GwInv, OwnerInv
  <2> QED
    BY <1>2, <1>4, <2>1, <2>2, <2>3, <2>4, CallStepKeeps
<1> QED
  BY <1>3, <1>4 DEF Forward

(* The request is answered, handed to the sessions or becomes a stream. *)
LEMMA AnsweredInv ==
    ASSUME GwInv, gwCall.pc = "auth", NEW a \in GwAuths, NEW p \in {"legacy", "done", "stream", "refused"},
           gwCall' = [gwCall EXCEPT !.auth = a, !.pc = p], UNCHANGED <<gwCtx, gwNext, gwLive, gwOwner>>
    PROVE  GwInv'
<1>1. gwCall \in CallRec
  BY DEF GwInv, GatewayTypes
<1>2. PICK n : n = [gwCall EXCEPT !.auth = a, !.pc = p]
  OBVIOUS
<1>3. n \in CallRec /\ n.pc = p /\ n.req = gwCall.req
  BY <1>1, <1>2 DEF CallRec
<1>4. ~n.req.session /\ ~n.req.lastEvent /\ n.req.method # "initialize"
  BY <1>3 DEF GwInv, OneEra
<1> QED
  BY <1>2, <1>3, <1>4, CallStepKeeps

LEMMA AuthenticatedInv ==
    ASSUME GwInv, NEW a \in GwAuths, Authenticated(a)
    PROVE  GwInv'
<1>1. gwCall.pc = "auth" /\ UNCHANGED <<gwCtx, gwNext, gwLive, gwOwner>> /\ gwCall \in CallRec
  BY DEF Authenticated, GwInv, GatewayTypes
<1>2. CASE \E p \in {"legacy", "done", "stream", "refused"} : gwCall' = [gwCall EXCEPT !.auth = a, !.pc = p]
  BY <1>1, <1>2, AnsweredInv
<1>3. CASE Dispatch(a, gwCall.req) /\ gwCall.req.method \notin {"notify", "listen"}
  <2>1. gwCall.req.method \in {"discover", "list", "use", "complete"} /\ gwCall.req.kind \in {"tool", "resource", "prompt"}
    <3>1. gwCall.req \in GwRequests /\ gwCall.req.method # "initialize"
      BY <1>1 DEF GwInv, OneEra, CallRec
    <3> QED
      BY <3>1, <1>3, GatewayAssumption DEF GwRequests, ModernOnly
  <2>2. CASE gwCall.req.method \in {"discover", "list"}
    <3>1. gwCall' = [gwCall EXCEPT !.auth = a, !.pc = "done"]
      BY <1>3, <2>2 DEF Dispatch
    <3> QED
      BY <1>1, <3>1, AnsweredInv
  <2>3. CASE gwCall.req.method = "use" /\ gwCall.req.kind = "tool"
    <3>1. Forward(a, gwCall.req.named, "tool")
      BY <1>3, <2>3 DEF Dispatch, CallTool
    <3> QED
      BY <1>1, <3>1, ForwardInv
  <2>4. CASE gwCall.req.method = "use" /\ gwCall.req.kind = "resource"
    <3>1. Forward(a, gwCall.req.named, "resource")
      BY <1>3, <2>4 DEF Dispatch, ReadResource
    <3> QED
      BY <1>1, <3>1, ForwardInv
  <2>5. CASE gwCall.req.method = "use" /\ gwCall.req.kind = "prompt"
    <3>1. Forward(a, gwCall.req.named, "prompt")
      BY <1>3, <2>5 DEF Dispatch, GetPrompt
    <3> QED
      BY <1>1, <3>1, ForwardInv
  <2>6. CASE gwCall.req.method = "complete"
    <3>1. Forward(a, gwCall.req.named, gwCall.req.kind)
      BY <1>3, <2>6 DEF Dispatch, Complete
    <3> QED
      BY <1>1, <3>1, ForwardInv
  <2> QED
    BY <2>1, <2>2, <2>3, <2>4, <2>5, <2>6
<1> QED
  BY <1>1, <1>2, <1>3 DEF Authenticated

LEMMA WokenInv ==
    ASSUME GwInv, Woken
    PROVE  GwInv'
<1> DEFINE x == gwCtx[gwCall.server]
           p == IF gwCall.req.kind = "tool" /\ gwCall.req.method = "use" THEN "policy" ELSE "send"
<1>1. /\ gwCall.pc = "waking" /\ UNCHANGED <<gwCtx, gwNext, gwLive, gwOwner>> /\ gwCall \in CallRec
      /\ gwCall.server \in GServers /\ NamedFor(gwCall) /\ x \in ContextRec
  BY DEF Woken, GwInv, GatewayTypes, CallInv
<1>2. CASE gwCall' = [gwCall EXCEPT !.pc = "refused"]
  BY <1>1, <1>2, RefusedInv
<1>3. CASE x.id # 0 /\ gwCall' = [gwCall EXCEPT !.held = x.id, !.pc = p]
  <2>1. PICK n : n = [gwCall EXCEPT !.held = x.id, !.pc = p]
    OBVIOUS
  <2>2. /\ n \in CallRec /\ n.pc \in {"policy", "send"} /\ n.req = gwCall.req
        /\ n.server = gwCall.server /\ n.held = x.id
    BY <1>1, <2>1 DEF CallRec, ContextRec
  <2>3. x.id \in 1..MaxContext /\ x.id < gwNext /\ gwOwner[x.id] = gwCall.server
    BY <1>1, <1>3, GatewayAssumption DEF GwInv, OwnerInv, ContextRec
  <2>4. NamedFor(n) /\ HeldFor(n)
    BY <1>1, <1>3, <2>2, <2>3 DEF NamedFor, HeldFor
  <2>5. ~n.req.session /\ ~n.req.lastEvent /\ n.req.method # "initialize"
    BY <1>1, <2>2 DEF GwInv, OneEra
  <2> QED
    BY <1>1, <1>3, <2>1, <2>2, <2>4, <2>5, CallStepKeeps
<1> QED
  BY <1>2, <1>3 DEF Woken

(* The request goes on with the context it holds. *)
LEMMA SendingInv ==
    ASSUME GwInv, gwCall.pc \in {"policy", "send"}, NEW p \in {"send", "sent"},
           gwCall' = [gwCall EXCEPT !.pc = p], UNCHANGED <<gwCtx, gwNext, gwLive, gwOwner>>
    PROVE  GwInv'
<1>1. gwCall \in CallRec
  BY DEF GwInv, GatewayTypes
<1>2. PICK n : n = [gwCall EXCEPT !.pc = p]
  OBVIOUS
<1>3. n \in CallRec /\ n.pc = p /\ n.req = gwCall.req /\ n.server = gwCall.server /\ n.held = gwCall.held
  BY <1>1, <1>2 DEF CallRec
<1>4. ~n.req.session /\ ~n.req.lastEvent /\ n.req.method # "initialize"
  BY <1>3 DEF GwInv, OneEra
<1>5. n.server \in GServers /\ NamedFor(n) /\ HeldFor(n)
  BY <1>3 DEF GwInv, CallInv, NamedFor, HeldFor
<1> QED
  BY <1>2, <1>3, <1>4, <1>5, CallStepKeeps

LEMMA ContextCreatedInv ==
    ASSUME GwInv, NEW s \in GServers, NEW x \in GwContexts, ContextCreated(s, x)
    PROVE  GwInv'
<1>1. /\ gwCtx \in [GServers -> ContextRec] /\ gwNext \in 1..MaxContext /\ gwCtx[s].id = 0
      /\ gwOwner \in [1..MaxContext -> GServers \cup {NoServer}] /\ gwOwner[gwNext] = NoServer
      /\ gwNext' = gwNext + 1 /\ UNCHANGED <<gwLive, gwCall>> /\ gwCall \in CallRec
  BY GatewayAssumption DEF GwInv, GatewayTypes, OwnerInv, ContextCreated, NextContextId
<1>2. PICK n : n = [x EXCEPT !.id = gwNext]
  OBVIOUS
<1>3. n \in ContextRec /\ n.id = gwNext
  <2>1. gwNext \in 0..MaxContext
    BY <1>1, GatewayAssumption
  <2> QED
    BY <1>2, <2>1 DEF GwContexts, ContextRec
<1>4. gwCtx' = [gwCtx EXCEPT ![s] = n] /\ gwOwner' = [gwOwner EXCEPT ![gwNext] = s]
  BY <1>1, <1>2 DEF ContextCreated, NextContextId
<1>5. \A t \in GServers : gwCtx'[t] = IF t = s THEN n ELSE gwCtx[t]
  BY <1>1, <1>4
<1>6. \A i \in 1..MaxContext : gwOwner'[i] = IF i = gwNext THEN s ELSE gwOwner[i]
  BY <1>1, <1>4
<1>7. GatewayTypes'
  BY <1>1, <1>3, <1>4, GatewayAssumption DEF GwInv, GatewayTypes
<1>8. OwnerInv'
  <2>1. ASSUME NEW t \in GServers, gwCtx'[t].id # 0 PROVE gwCtx'[t].id < gwNext' /\ gwOwner'[gwCtx'[t].id] = t
    <3>1. CASE t = s
      BY <1>1, <1>3, <1>5, <1>6, <3>1, GatewayAssumption
    <3>2. CASE t # s
      <4>1. gwCtx[t].id \in 1..MaxContext /\ gwCtx[t].id < gwNext /\ gwOwner[gwCtx[t].id] = t /\ gwCtx'[t] = gwCtx[t]
        BY <1>1, <1>5, <2>1, <3>2, GatewayAssumption DEF GwInv, OwnerInv, ContextRec
      <4> QED
        BY <4>1, <1>1, <1>6, GatewayAssumption
    <3> QED
      BY <3>1, <3>2
  <2>2. \A i \in 1..MaxContext : i >= gwNext' => gwOwner'[i] = NoServer
    BY <1>1, <1>6, GatewayAssumption DEF GwInv, OwnerInv
  <2> QED
    BY <2>1, <2>2 DEF OwnerInv
<1>9. CallInv'
  <2>1. gwCall.req.named \in 0..MaxContext /\ gwCall.held \in 0..MaxContext
    BY <1>1 DEF CallRec, GwRequests
  <2>2. ASSUME gwCall.server \in GServers, NamedFor(gwCall) PROVE NamedFor(gwCall)'
    <3>1. CASE gwCall.req.named # 0
      <4>1. gwCall.req.named \in 1..MaxContext /\ gwCall.req.named < gwNext /\ gwOwner[gwCall.req.named] = gwCall.server
        BY <2>1, <2>2, <3>1, GatewayAssumption DEF NamedFor
      <4>2. gwCall.req.named < gwNext' /\ gwOwner'[gwCall.req.named] = gwCall.server
        BY <4>1, <1>1, <1>6, GatewayAssumption
      <4>3. gwCtx'[gwCall.server].id # 0 => gwCall.req.named <= gwCtx'[gwCall.server].id
        <5>1. CASE gwCall.server = s
          BY <5>1, <4>1, <1>1, <1>3, <1>5, GatewayAssumption
        <5>2. CASE gwCall.server # s
          BY <5>2, <1>5, <2>2, <3>1 DEF NamedFor
        <5> QED
          BY <5>1, <5>2
      <4> QED
        BY <1>1, <4>2, <4>3 DEF NamedFor
    <3>2. CASE gwCall.req.named = 0
      BY <3>2, <1>1 DEF NamedFor
    <3> QED
      BY <3>1, <3>2
  <2>3. ASSUME HeldFor(gwCall) PROVE HeldFor(gwCall)'
    BY <1>1, <1>6, <2>3, GatewayAssumption DEF HeldFor
  <2> QED
    BY <1>1, <2>2, <2>3 DEF GwInv, CallInv
<1>10. OneEra'
  BY <1>1 DEF GwInv, OneEra
<1> QED
  BY <1>7, <1>8, <1>9, <1>10 DEF GwInv

(* A context that goes, or changes without changing its id. *)
LEMMA ContextStaysInv ==
    ASSUME GwInv, NEW s \in GServers, NEW n \in ContextRec, n.id = 0 \/ n.id = gwCtx[s].id,
           gwCtx' = [gwCtx EXCEPT ![s] = n], UNCHANGED <<gwNext, gwLive, gwCall, gwOwner>>
    PROVE  GwInv'
<1>1. \A t \in GServers : gwCtx'[t] = IF t = s THEN n ELSE gwCtx[t]
  BY DEF GwInv, GatewayTypes
<1>2. \A t \in GServers : gwCtx'[t].id # 0 => gwCtx'[t].id = gwCtx[t].id
  BY <1>1
<1>3. GatewayTypes'
  BY DEF GwInv, GatewayTypes
<1>4. OwnerInv'
  BY <1>2 DEF GwInv, OwnerInv
<1>5. CallInv'
  <2>1. ASSUME gwCall.server \in GServers, NamedFor(gwCall) PROVE NamedFor(gwCall)'
    BY <1>2, <2>1 DEF NamedFor
  <2>2. HeldFor(gwCall) => HeldFor(gwCall)'
    BY DEF HeldFor
  <2> QED
    BY <2>1, <2>2 DEF GwInv, CallInv
<1>6. OneEra'
  BY DEF GwInv, OneEra
<1> QED
  BY <1>3, <1>4, <1>5, <1>6 DEF GwInv

(* No step breaks it. *)
LEMMA GatewayStep == GwInv /\ [GatewayNext]_gatewayVars => GwInv'
<1> SUFFICES ASSUME GwInv, [GatewayNext]_gatewayVars PROVE GwInv'
  OBVIOUS
<1>1. CASE UNCHANGED gatewayVars
  BY <1>1 DEF gatewayVars, GwInv, GatewayTypes, OwnerInv, CallInv, NamedFor, HeldFor, OneEra
<1>2. ASSUME NEW r \in GwRequests, Arrive(r) PROVE GwInv'
  BY <1>2, ArriveInv
<1>3. CASE SessionEnds
  BY <1>3, SessionEndsInv
<1>4. CASE Unauthenticated \/ InvalidRequest
  BY <1>4, RefusedInv DEF Unauthenticated, InvalidRequest, Refuse
<1>5. ASSUME NEW a \in GwAuths, Authenticated(a) PROVE GwInv'
  BY <1>5, AuthenticatedInv
<1>6. CASE Woken
  BY <1>6, WokenInv
<1>7. CASE WakeFails
  BY <1>7, RefusedInv DEF WakeFails
<1>8. ASSUME NEW d \in {"refused", "pending", "send"}, PolicyDecides(d) PROVE GwInv'
  BY <1>8, RefusedInv, SendingInv DEF PolicyDecides
<1>9. ASSUME NEW o \in BOOLEAN, Send(o) PROVE GwInv'
  BY <1>9, RefusedInv, SendingInv DEF Send
<1>10. ASSUME NEW s \in GServers, ContextRemoved(s) PROVE GwInv'
  BY <1>10, ContextStaysInv, GatewayRecords DEF ContextRemoved
<1>11. ASSUME NEW s \in GServers, NEW x \in GwContexts, ContextCreated(s, x) PROVE GwInv'
  BY <1>11, ContextCreatedInv
<1>12. ASSUME NEW s \in GServers, NEW x \in GwContexts, ContextChanged(s, x) PROVE GwInv'
  <2>1. PICK n : n = [x EXCEPT !.id = gwCtx[s].id]
    OBVIOUS
  <2>2. n \in ContextRec /\ n.id = gwCtx[s].id
    <3>1. gwCtx[s].id \in 0..MaxContext
      BY DEF GwInv, GatewayTypes, ContextRec
    <3> QED
      BY <2>1, <3>1 DEF GwContexts, ContextRec
  <2>3. gwCtx' = [gwCtx EXCEPT ![s] = n] /\ UNCHANGED <<gwNext, gwLive, gwCall, gwOwner>>
    BY <1>12, <2>1 DEF ContextChanged
  <2> QED
    BY <2>2, <2>3, ContextStaysInv
<1> QED
  BY <1>1, <1>2, <1>3, <1>4, <1>5, <1>6, <1>7, <1>8, <1>9, <1>10, <1>11, <1>12 DEF GatewayNext

(* The gateway name of what is listed resolves to the server that listed it. *)
LEMMA ListedResolves == GwInv => ListedIsCallable
<1> SUFFICES ASSUME GwInv, NEW k \in GKinds, NEW s \in Listed(gwCall.auth, k)
             PROVE  /\ ResolveName(gwCall.auth, gwCtx[s].id, k) = {s}
                    /\ k \in Advertised(gwCall.auth)
  BY DEF ListedIsCallable
<1> DEFINE a == gwCall.auth
<1>1. s \in GServers /\ CanUse(a, s, k) /\ k \in gwCtx[s].offers
  BY DEF Listed
<1>2. CanAccessServer(a, s) /\ gwCtx[s].id # 0
  BY <1>1 DEF CanUse, CanAccessServer
<1>3. ParseGatewayName(gwCtx[s].id) = {s}
  <2>1. \A t \in GServers : gwCtx[t].id = gwCtx[s].id => t = s
    BY <1>1, <1>2 DEF GwInv, OwnerInv
  <2> QED
    BY <1>1, <1>2, <2>1 DEF ParseGatewayName
<1>4. ResolveName(a, gwCtx[s].id, k) = {s}
  <2>1. ParseGatewayName(gwCtx[s].id) # {}
    BY <1>3
  <2>2. ResolveName(a, gwCtx[s].id, k) = {t \in ParseGatewayName(gwCtx[s].id) : k \in gwCtx[t].offers /\ CanUse(a, t, k)}
    BY <2>1 DEF ResolveName
  <2> QED
    BY <1>1, <1>3, <2>2
<1>5. k \in Advertised(a)
  BY <1>1, <1>2 DEF Advertised
<1> QED
  BY <1>4, <1>5

(* What the invariant is for. *)
LEMMA GatewayInvRoutes == GwInv => CallsRouted
<1> SUFFICES ASSUME GwInv PROVE CallsRouted
  OBVIOUS
<1>1. GatewayTypeOK
  BY DEF GwInv, GatewayTypes, CallRec, OwnerInv, GatewayTypeOK
<1>2. RoutedAsNamed
  BY DEF GwInv, CallInv, NamedFor, HeldFor, RoutedAsNamed
<1> QED
  BY <1>1, <1>2, ListedResolves DEF CallsRouted, GwInv

(* A request is taken by the right endpoint, whatever a token lists it can  *)
(* call, and a request with a gateway name only reaches the server that     *)
(* name was made for, while servers are created, edited, replaced and put   *)
(* to sleep between its steps (MCPRouter.ts, ModernMcpController.ts), for   *)
(* any number of servers and context ids.                                   *)
THEOREM CallsAreRouted == GatewaySpec => []CallsRouted
<1>1. GwInv /\ [GatewayNext]_gatewayVars => GwInv'
  BY GatewayStep
<1> QED
  BY <1>1, GatewayInitInv, GatewayInvRoutes, PTL DEF GatewaySpec

-----------------------------------------------------------------------------
(* The token refresh: the inductive invariant. *)

StratRec == [refresh : Nat, cached : BOOLEAN, changed : BOOLEAN]
RunRec ==
    [pc : {"idle", "call", "read", "save", "notify", "clear"}, gen : Nat, first : BOOLEAN, data : StratRec, other : Nat]
RowRec == [refresh : Nat, cached : BOOLEAN, other : Nat]
OtherRec == [pc : {"idle", "write"}, read : RowRec \cup {0}, saved : Nat]

RefreshTypes ==
    /\ trKind \in AuthStrategies
    /\ trStrats \in [1..MaxGen -> StratRec]
    /\ trGen \in 0..MaxGen /\ trCur \in 0..trGen /\ trToken \in BOOLEAN
    /\ trTimers \subseteq TimerIds /\ IsFiniteSet(trTimers) /\ trHandle \in TimerIds \cup {0}
    /\ trRun \in [TrRuns -> RunRec]
    /\ \A r \in TrRuns : trRun[r].gen <= trGen /\ (trRun[r].pc = "call" => trRun[r].gen # 0)
    /\ trValid \in 0..MaxRotate
    /\ trDb \in RowRec
    /\ trOther \in OtherRec /\ (trOther.pc = "write" => trOther.read \in RowRec)
    /\ trExcuse \subseteq Excuses

(* A run or a timer goes on with the refresh, and one of them only.         *)
Chained ==
    /\ Busy # {} \/ trTimers # {}
    /\ "restarted" \notin trExcuse =>
           \/ trTimers = {} /\ \E r \in TrRuns : Busy = {r}
           \/ Busy = {} /\ \E t \in TimerIds : trTimers = {t}

(* Until the strategy has its first token the run that started it is        *)
(* waiting for it: a run of an older strategy that ends now arms no timer,   *)
(* and must not be the only one.                                             *)
Starting == \E r \in TrRuns : trRun[r].pc \in {"call", "clear"} /\ trRun[r].first
ChainInv == trCur # 0 => Chained /\ (trToken \/ Starting)

(* The token the provider accepts: saved or about to be, and the one that   *)
(* every save, every request and the strategy have, so that no later save    *)
(* overwrites it with an older one.                                          *)
Saving(r) == trRun[r].pc \in {"read", "save"}
ValidKept ==
    /\ trDb.refresh = trValid \/ \E r \in TrRuns : Saving(r)
    /\ \A r \in TrRuns : Saving(r) => trRun[r].data.refresh = trValid
    /\ \A r \in TrRuns : trRun[r].pc = "call" => trStrats[trRun[r].gen].refresh = trValid
    /\ trCur # 0 => trStrats[trCur].refresh = trValid
    /\ \A r \in TrRuns : trRun[r].pc # "clear"
    /\ trOther.pc = "write" => trOther.read.refresh = trDb.refresh
KeptInv ==
    /\ \A g \in 1..trGen : trStrats[g].refresh # 0
    /\ trExcuse = {} /\ trValid # 0 => ValidKept

(* What another server saved is in the row, and in what is written to it.   *)
OtherInv ==
    "overlap" \notin trExcuse =>
        /\ trDb.other = trOther.saved
        /\ \A r \in TrRuns : trRun[r].pc = "save" => trRun[r].other = trDb.other
        /\ trOther.pc = "write" => \A r \in TrRuns : trRun[r].pc # "save"

RefreshInv == RefreshTypes /\ ChainInv /\ KeptInv /\ OtherInv

-----------------------------------------------------------------------------
(* What the strategies have in common: one that does not report changes      *)
(* never brings a new refresh token.                                         *)
LEMMA StrategyFacts ==
    ASSUME NEW k \in AuthStrategies
    PROVE  /\ k.persists \in BOOLEAN /\ k.caches \in BOOLEAN /\ k.refused \in {"stop", "retry", "clear"}
           /\ ~k.persists => k.rotates = {FALSE}
<1>1. CASE k = NotionAuthStrategy
  BY <1>1 DEF NotionAuthStrategy
<1>2. CASE k = CanvaAuthStrategy
  BY <1>2 DEF CanvaAuthStrategy
<1>3. CASE k = ZendeskAuthStrategy
  BY <1>3 DEF ZendeskAuthStrategy
<1>4. CASE k = GithubAuthStrategy
  BY <1>4 DEF GithubAuthStrategy
<1>5. CASE k = HubSpotAuthStrategy
  BY <1>5 DEF HubSpotAuthStrategy
<1>6. CASE k = PipedriveAuthStrategy
  BY <1>6 DEF PipedriveAuthStrategy
<1>7. CASE k = SlackAuthStrategy
  BY <1>7 DEF SlackAuthStrategy
<1>8. CASE k = FigmaAuthStrategy
  BY <1>8 DEF FigmaAuthStrategy
<1>9. CASE k = GoogleAuthStrategy
  BY <1>9 DEF GoogleAuthStrategy
<1>10. CASE k = PetaAuthStrategy
  BY <1>10 DEF PetaAuthStrategy
<1>11. CASE k = IntercomAuthStrategy
  BY <1>11 DEF IntercomAuthStrategy
<1> QED
  BY <1>1, <1>2, <1>3, <1>4, <1>5, <1>6, <1>7, <1>8, <1>9, <1>10, <1>11 DEF AuthStrategies

(* The bounds are numbers. *)
LEMMA RefreshBounds ==
    /\ MaxGen \in Nat /\ MaxGen >= 1 /\ MaxRotate \in Nat /\ MaxRotate >= 1
    /\ 0 \notin TimerIds /\ TimerIds \subseteq Nat
BY RefreshAssumption

LEMMA RefreshRecords ==
    /\ NoStrat \in StratRec
    /\ IdleRun \in RunRec /\ IdleRun.pc = "idle" /\ IdleRun.gen = 0
BY DEF NoStrat, StratRec, IdleRun, RunRec

LEMMA RefreshInitInv == RefreshInit => RefreshInv
<1> SUFFICES ASSUME RefreshInit PROVE RefreshInv
  OBVIOUS
<1>1. RefreshTypes
  <2>1. trDb \in RowRec /\ trOther \in OtherRec /\ trOther.pc = "idle"
    BY DEF RefreshInit, RowRec, OtherRec
  <2>2. IsFiniteSet(trTimers)
    BY FS_EmptySet DEF RefreshInit
  <2>3. trValid \in 0..MaxRotate /\ trGen \in 0..MaxGen /\ trCur \in 0..trGen
    BY RefreshBounds DEF RefreshInit
  <2>6. trToken \in BOOLEAN
    BY DEF RefreshInit
  <2>4. trStrats \in [1..MaxGen -> StratRec] /\ trRun \in [TrRuns -> RunRec]
    BY RefreshRecords DEF RefreshInit
  <2>5. \A r \in TrRuns : trRun[r].gen <= trGen /\ (trRun[r].pc = "call" => trRun[r].gen # 0)
    BY RefreshRecords DEF RefreshInit
  <2> QED
    BY <2>1, <2>2, <2>3, <2>4, <2>5, <2>6 DEF RefreshInit, RefreshTypes
<1>2. ChainInv
  BY DEF RefreshInit, ChainInv
<1>3. KeptInv
  BY RefreshRecords DEF RefreshInit, KeptInv, ValidKept, Saving
<1>4. OtherInv
  BY RefreshRecords DEF RefreshInit, OtherInv
<1> QED
  BY <1>1, <1>2, <1>3, <1>4 DEF RefreshInv

(* Run r becomes n. *)
LEMMA RunBecomes ==
    ASSUME RefreshInv, NEW r \in TrRuns, NEW n \in RunRec, trRun' = [trRun EXCEPT ![r] = n]
    PROVE  /\ trRun' \in [TrRuns -> RunRec]
           /\ \A q \in TrRuns : trRun'[q] = IF q = r THEN n ELSE trRun[q]
           /\ Busy' = IF n.pc = "idle" THEN Busy \ {r} ELSE Busy \cup {r}
<1>1. trRun' \in [TrRuns -> RunRec] /\ \A q \in TrRuns : trRun'[q] = IF q = r THEN n ELSE trRun[q]
  BY DEF RefreshInv, RefreshTypes
<1>2. Busy' = IF n.pc = "idle" THEN Busy \ {r} ELSE Busy \cup {r}
  BY <1>1 DEF Busy
<1> QED
  BY <1>1, <1>2

-----------------------------------------------------------------------------
(* The parts of the invariant, for a step in which one run r becomes n and   *)
(* neither the strategies nor the row change.                                *)

LEMMA RunStepTypes ==
    ASSUME RefreshInv, NEW r \in TrRuns, NEW n \in RunRec, trRun' = [trRun EXCEPT ![r] = n],
           n.gen <= trGen, n.pc = "call" => n.gen # 0,
           UNCHANGED <<trKind, trGen>>, trStrats' \in [1..MaxGen -> StratRec], trDb' \in RowRec,
           trOther' = trOther,
           trCur' \in {0, trCur}, trToken' \in BOOLEAN, trValid' \in 0..MaxRotate,
           trTimers' \subseteq TimerIds, IsFiniteSet(trTimers'), trHandle' \in TimerIds \cup {0},
           trExcuse' \subseteq Excuses
    PROVE  RefreshTypes'
<1>1. trRun' \in [TrRuns -> RunRec] /\ \A q \in TrRuns : trRun'[q] = IF q = r THEN n ELSE trRun[q]
  BY RunBecomes
<1>2. \A q \in TrRuns : trRun'[q].gen <= trGen /\ (trRun'[q].pc = "call" => trRun'[q].gen # 0)
  BY <1>1 DEF RefreshInv, RefreshTypes
<1>3. trCur' \in 0..trGen'
  BY DEF RefreshInv, RefreshTypes
<1> QED
  BY <1>1, <1>2, <1>3 DEF RefreshInv, RefreshTypes

LEMMA RunStepKept ==
    ASSUME RefreshInv, NEW r \in TrRuns, NEW n \in RunRec, trRun' = [trRun EXCEPT ![r] = n],
           UNCHANGED <<trStrats, trGen, trValid, trDb, trOther>>, trExcuse \subseteq trExcuse',
           ~Saving(r), trCur' \in {0, trCur},
           \/ n.pc \in {"idle", "notify"}
           \/ n.pc = "call" /\ trCur # 0 /\ n.gen = trCur
           \/ n.pc = "read" /\ trCur # 0 /\ n.data = trStrats[trCur]
           \/ n.pc = "clear" /\ trRun[r].pc = "call" /\ trStrats[trRun[r].gen].refresh # trValid
    PROVE  KeptInv' /\ OtherInv'
<1>1. \A q \in TrRuns : trRun'[q] = IF q = r THEN n ELSE trRun[q]
  BY RunBecomes
<1>2. KeptInv'
  <2>1. \A g \in 1..trGen' : trStrats'[g].refresh # 0
    BY DEF RefreshInv, KeptInv
  <2>2. ASSUME trExcuse' = {}, trValid' # 0 PROVE ValidKept'
    <3>1. ValidKept
      BY <2>2 DEF RefreshInv, KeptInv
    <3>2. trDb'.refresh = trValid' \/ \E q \in TrRuns : Saving(q)'
      BY <1>1, <3>1 DEF ValidKept, Saving
    <3>3. \A q \in TrRuns : Saving(q)' => trRun'[q].data.refresh = trValid'
      BY <1>1, <3>1 DEF ValidKept, Saving
    <3>4. \A q \in TrRuns : trRun'[q].pc = "call" => trStrats'[trRun'[q].gen].refresh = trValid'
      BY <1>1, <3>1 DEF ValidKept
    <3>5. trCur' # 0 => trStrats'[trCur'].refresh = trValid'
      BY <3>1 DEF ValidKept
    <3>6. \A q \in TrRuns : trRun'[q].pc # "clear"
      BY <1>1, <3>1 DEF ValidKept
    <3> QED
      BY <3>1, <3>2, <3>3, <3>4, <3>5, <3>6 DEF ValidKept
  <2> QED
    BY <2>1, <2>2 DEF KeptInv
<1>3. OtherInv'
  BY <1>1 DEF RefreshInv, OtherInv
<1> QED
  BY <1>2, <1>3

(* The refresh is off. *)
LEMMA ChainOff == trCur' = 0 => ChainInv'
BY DEF ChainInv

(* Run r goes on. *)
LEMMA ChainBusy ==
    ASSUME RefreshInv, NEW r \in TrRuns, NEW n \in RunRec, trRun' = [trRun EXCEPT ![r] = n],
           trRun[r].pc # "idle", n.pc # "idle", trTimers' = trTimers, trCur' = trCur, trExcuse \subseteq trExcuse',
           trToken' \/ (trToken' = trToken /\ (trRun[r].pc \in {"call", "clear"} => n.pc \in {"call", "clear"} /\ n.first = trRun[r].first))
    PROVE  ChainInv'
<1>1. /\ \A q \in TrRuns : trRun'[q] = IF q = r THEN n ELSE trRun[q]
      /\ Busy' = Busy
  BY RunBecomes DEF Busy
<1>2. ASSUME trCur' # 0 PROVE Chained'
  <2>1. Chained
    BY <1>2 DEF RefreshInv, ChainInv
  <2> QED
    BY <1>1, <2>1 DEF Chained
<1>3. ASSUME trCur' # 0 PROVE trToken' \/ Starting'
  <2>1. trToken \/ Starting
    BY <1>3 DEF RefreshInv, ChainInv
  <2>2. CASE trToken'
    BY <2>2
  <2>3. CASE ~trToken' /\ Starting
    <3>1. PICK q \in TrRuns : trRun[q].pc \in {"call", "clear"} /\ trRun[q].first
      BY <2>3 DEF Starting
    <3>2. trRun'[q].pc \in {"call", "clear"} /\ trRun'[q].first
      BY <1>1, <2>3, <3>1
    <3> QED
      BY <3>2 DEF Starting
  <2> QED
    BY <2>1, <2>2, <2>3
<1> QED
  BY <1>2, <1>3 DEF ChainInv

(* Run r ends and leaves a timer. *)
LEMMA ChainArmed ==
    ASSUME RefreshInv, NEW r \in TrRuns, NEW n \in RunRec, trRun' = [trRun EXCEPT ![r] = n],
           trRun[r].pc # "idle", n.pc = "idle", trCur' = trCur, trExcuse \subseteq trExcuse',
           NEW t \in TimerIds, NEW S \in SUBSET trTimers, trTimers' = S \cup {t},
           trToken' \/ (trToken' = trToken /\ ~(trRun[r].pc \in {"call", "clear"} /\ trRun[r].first))
    PROVE  ChainInv'
<1>1. /\ \A q \in TrRuns : trRun'[q] = IF q = r THEN n ELSE trRun[q]
      /\ Busy' = Busy \ {r} /\ r \in Busy
  BY RunBecomes DEF Busy
<1>2. ASSUME trCur' # 0 PROVE Chained'
  <2>1. Chained
    BY <1>2 DEF RefreshInv, ChainInv
  <2>2. ASSUME "restarted" \notin trExcuse' PROVE Busy' = {} /\ trTimers' = {t}
    <3>1. trTimers = {} /\ \E q \in TrRuns : Busy = {q}
      BY <1>1, <2>1, <2>2 DEF Chained
    <3> QED
      BY <1>1, <3>1
  <2> QED
    BY <2>2 DEF Chained
<1>3. ASSUME trCur' # 0 PROVE trToken' \/ Starting'
  BY <1>1, <1>3 DEF RefreshInv, ChainInv, Starting
<1> QED
  BY <1>2, <1>3 DEF ChainInv

(* A timer was set. *)
LEMMA Armed ==
    ASSUME NEW S \in SUBSET TimerIds, IsFiniteSet(S), Arm(S)
    PROVE  /\ \E t \in TimerIds : trTimers' = S \cup {t}
           /\ trTimers' \subseteq TimerIds /\ IsFiniteSet(trTimers') /\ trHandle' \in TimerIds
BY FS_AddElement DEF Arm

(* The refresh was stopped. *)
LEMMA StoppedTypes ==
    ASSUME RefreshInv, Stopped
    PROVE  /\ trCur' = 0 /\ trToken' \in BOOLEAN
           /\ trTimers' \subseteq TimerIds /\ IsFiniteSet(trTimers') /\ trHandle' \in TimerIds \cup {0}
BY FS_RemoveElement DEF Stopped, RefreshInv, RefreshTypes

-----------------------------------------------------------------------------
(* The steps of the token refresh. *)

LEMMA StartTokenRefreshInv ==
    ASSUME RefreshInv, NEW r \in TrRuns, StartTokenRefresh(r)
    PROVE  RefreshInv'
<1>1. PICK n : n = [IdleRun EXCEPT !.pc = "call", !.gen = trGen + 1, !.first = TRUE]
  OBVIOUS
<1>2. PICK st : st = [refresh |-> trDb.refresh, cached |-> trDb.cached /\ trKind.caches, changed |-> FALSE]
  OBVIOUS
<1>3. /\ trRun' = [trRun EXCEPT ![r] = n] /\ trRun[r].pc = "idle" /\ trCur = 0 /\ trGen < MaxGen /\ trDb.refresh # 0
      /\ trGen' = trGen + 1 /\ trCur' = trGen + 1 /\ trStrats' = [trStrats EXCEPT ![trGen + 1] = st]
      /\ trExcuse' = IF Busy # {} \/ trTimers # {} THEN trExcuse \cup {"restarted"} ELSE trExcuse
      /\ UNCHANGED <<trKind, trToken, trTimers, trHandle, trValid, trDb, trOther>>
  BY <1>1, <1>2 DEF StartTokenRefresh
<1>4. trGen \in Nat /\ trGen + 1 \in Nat /\ trGen + 1 \in 1..MaxGen /\ MaxGen \in Nat
  BY <1>3, RefreshBounds DEF RefreshInv, RefreshTypes
<1>5. n \in RunRec /\ n.pc = "call" /\ n.gen = trGen + 1 /\ n.first = TRUE
  <2>1. trGen + 1 \in Nat /\ NoStrat \in StratRec
    BY <1>4, RefreshRecords
  <2> QED
    BY <1>1, <2>1 DEF IdleRun, RunRec
<1>6. st \in StratRec /\ st.refresh = trDb.refresh
  <2>1. trDb.refresh \in Nat /\ (trDb.cached /\ trKind.caches) \in BOOLEAN
    BY DEF RefreshInv, RefreshTypes, RowRec
  <2> QED
    BY <1>2, <2>1 DEF StratRec
<1>7. /\ trRun' \in [TrRuns -> RunRec]
      /\ \A q \in TrRuns : trRun'[q] = IF q = r THEN n ELSE trRun[q]
      /\ Busy' = Busy \cup {r}
  BY <1>3, <1>5, RunBecomes
<1>8. trStrats' \in [1..MaxGen -> StratRec] /\ \A g \in 1..MaxGen : trStrats'[g] = IF g = trGen + 1 THEN st ELSE trStrats[g]
  BY <1>3, <1>4, <1>6 DEF RefreshInv, RefreshTypes
<1>9. \A q \in TrRuns : trRun[q].gen \in 0..trGen
  BY DEF RefreshInv, RefreshTypes, RunRec
<1>10. RefreshTypes'
  <2>1. \A q \in TrRuns : trRun'[q].gen <= trGen' /\ (trRun'[q].pc = "call" => trRun'[q].gen # 0)
    BY <1>3, <1>4, <1>5, <1>7, <1>9 DEF RefreshInv, RefreshTypes
  <2>2. trGen' \in 0..MaxGen /\ trCur' \in 0..trGen'
    BY <1>3, <1>4
  <2>3. trExcuse' \subseteq Excuses
    BY <1>3 DEF RefreshInv, RefreshTypes, Excuses
  <2> QED
    BY <1>3, <1>7, <1>8, <2>1, <2>2, <2>3 DEF RefreshInv, RefreshTypes
<1>11. ChainInv'
  <2>1. Chained'
    BY <1>3, <1>7 DEF Chained
  <2>2. Starting'
    BY <1>5, <1>7 DEF Starting
  <2> QED
    BY <2>1, <2>2 DEF ChainInv
<1>12. KeptInv'
  <2>1. \A g \in 1..trGen' : trStrats'[g].refresh # 0
    BY <1>3, <1>4, <1>6, <1>8 DEF RefreshInv, KeptInv
  <2>2. ASSUME trExcuse' = {}, trValid' # 0 PROVE ValidKept'
    <3>1. ValidKept /\ Busy = {} /\ \A q \in TrRuns : trRun[q].pc = "idle"
      BY <1>3, <2>2 DEF RefreshInv, KeptInv, Busy
    <3>2. trDb.refresh = trValid
      BY <3>1 DEF ValidKept, Saving
    <3>3. trStrats'[trGen + 1].refresh = trValid
      BY <1>4, <1>6, <1>8, <3>2
    <3> QED
      BY <1>3, <1>5, <1>7, <3>1, <3>2, <3>3 DEF ValidKept, Saving
  <2> QED
    BY <2>1, <2>2 DEF KeptInv
<1>13. OtherInv'
  BY <1>3, <1>5, <1>7 DEF RefreshInv, OtherInv
<1> QED
  BY <1>10, <1>11, <1>12, <1>13 DEF RefreshInv

LEMMA TimerFiresInv ==
    ASSUME RefreshInv, NEW r \in TrRuns, NEW t \in TimerIds, TimerFires(t, r)
    PROVE  RefreshInv'
<1>1. /\ t \in trTimers /\ trRun[r].pc = "idle" /\ trTimers' = trTimers \ {t} /\ trTimers \subseteq TimerIds
      /\ UNCHANGED <<trKind, trStrats, trGen, trCur, trToken, trHandle, trValid, trDb, trOther, trExcuse>>
  BY DEF TimerFires, RefreshInv, RefreshTypes
<1>2. IsFiniteSet(trTimers')
  BY <1>1, FS_RemoveElement DEF RefreshInv, RefreshTypes
<1>3. CASE trCur = 0
  <2>1. trRun' = trRun
    BY <1>3 DEF TimerFires
  <2>2. RefreshTypes'
    BY <1>1, <1>2, <2>1 DEF RefreshInv, RefreshTypes
  <2>3. KeptInv' /\ OtherInv'
    BY <1>1, <2>1 DEF RefreshInv, KeptInv, ValidKept, Saving, OtherInv
  <2> QED
    BY <1>1, <1>3, <2>2, <2>3, ChainOff DEF RefreshInv
<1>4. CASE trCur # 0
  <2>1. PICK n : n = [IdleRun EXCEPT !.pc = "call", !.gen = trCur]
    OBVIOUS
  <2>2. trCur \in Nat /\ trCur <= trGen
    BY DEF RefreshInv, RefreshTypes
  <2>3. n \in RunRec /\ n.pc = "call" /\ n.gen = trCur
    BY <2>1, <2>2, RefreshRecords DEF IdleRun, RunRec
  <2>4. trRun' = [trRun EXCEPT ![r] = n]
    BY <1>4, <2>1 DEF TimerFires
  <2>5. RefreshTypes'
    <3>1. trToken' \in BOOLEAN /\ trHandle' \in TimerIds \cup {0} /\ trExcuse' \subseteq Excuses /\ trValid' \in 0..MaxRotate
          /\ trTimers' \subseteq TimerIds /\ trStrats' \in [1..MaxGen -> StratRec] /\ trDb' \in RowRec
      BY <1>1 DEF RefreshInv, RefreshTypes
    <3> QED
      BY <1>1, <1>2, <1>4, <2>2, <2>3, <2>4, <3>1, RunStepTypes
  <2>6. KeptInv' /\ OtherInv'
    <3>1. ~Saving(r)
      BY <1>1 DEF Saving
    <3> QED
      BY <1>1, <1>4, <2>3, <2>4, <3>1, RunStepKept
  <2>7. ChainInv'
    <3>1. /\ \A q \in TrRuns : trRun'[q] = IF q = r THEN n ELSE trRun[q]
          /\ Busy' = Busy \cup {r} /\ r \notin Busy
      BY <1>1, <2>3, <2>4, RunBecomes DEF Busy
    <3>2. Chained /\ (trToken \/ Starting)
      BY <1>4 DEF RefreshInv, ChainInv
    <3>3. Chained'
      <4>1. ASSUME "restarted" \notin trExcuse' PROVE trTimers' = {} /\ Busy' = {r}
        <5>1. Busy = {} /\ \E u \in TimerIds : trTimers = {u}
          BY <1>1, <3>2, <4>1 DEF Chained
        <5> QED
          BY <1>1, <3>1, <5>1
      <4> QED
        BY <3>1, <4>1 DEF Chained
    <3>4. Starting => Starting'
      <4>1. ASSUME NEW q \in TrRuns, trRun[q].pc \in {"call", "clear"}, trRun[q].first PROVE q # r /\ trRun'[q] = trRun[q]
        BY <1>1, <3>1, <4>1
      <4> QED
        BY <4>1 DEF Starting
    <3> QED
      BY <1>1, <3>2, <3>3, <3>4 DEF ChainInv
  <2> QED
    BY <2>5, <2>6, <2>7 DEF RefreshInv
<1> QED
  BY <1>3, <1>4

LEMMA TokenAgesInv ==
    ASSUME RefreshInv, TokenAges
    PROVE  RefreshInv'
<1>1. /\ trDb' = [trDb EXCEPT !.cached = FALSE] /\ trDb \in RowRec /\ trStrats \in [1..MaxGen -> StratRec]
      /\ trStrats' = [g \in 1..MaxGen |-> [trStrats[g] EXCEPT !.cached = FALSE]]
      /\ UNCHANGED <<trKind, trGen, trCur, trToken, trTimers, trHandle, trRun, trValid, trOther, trExcuse>>
  BY DEF TokenAges, RefreshInv, RefreshTypes
<1>2. trDb' \in RowRec /\ trDb'.refresh = trDb.refresh /\ trDb'.other = trDb.other
  BY <1>1 DEF RowRec
<1>3. ASSUME NEW g \in 1..MaxGen PROVE trStrats'[g] \in StratRec /\ trStrats'[g].refresh = trStrats[g].refresh
  BY <1>1 DEF StratRec
<1>4. trStrats' \in [1..MaxGen -> StratRec]
  BY <1>1, <1>3
<1>5. RefreshTypes'
  BY <1>1, <1>2, <1>4 DEF RefreshInv, RefreshTypes
<1>6. ChainInv'
  BY <1>1 DEF RefreshInv, ChainInv, Chained, Starting, Busy
<1>7. KeptInv'
  <2>1. trGen \in 0..MaxGen /\ trCur \in 0..trGen /\ MaxGen \in Nat
    BY RefreshBounds DEF RefreshInv, RefreshTypes
  <2>2. \A r \in TrRuns : trRun[r].pc = "call" => trRun[r].gen \in 1..MaxGen
    BY <2>1 DEF RefreshInv, RefreshTypes, RunRec
  <2> QED
    BY <1>1, <1>2, <1>3, <2>1, <2>2 DEF RefreshInv, KeptInv, ValidKept, Saving
<1>8. OtherInv'
  BY <1>1, <1>2 DEF RefreshInv, OtherInv
<1> QED
  BY <1>5, <1>6, <1>7, <1>8 DEF RefreshInv


(* What may be left of timers and token after a step of a run. *)
TimersFine ==
    /\ trToken' \in BOOLEAN /\ trTimers' \subseteq TimerIds /\ IsFiniteSet(trTimers')
    /\ trHandle' \in TimerIds \cup {0}

LEMMA RetryArmed ==
    ASSUME RefreshInv, RetryLater, trToken' \in BOOLEAN
    PROVE  TimersFine /\ \E t \in TimerIds : trTimers' = trTimers \cup {t}
BY Armed DEF RetryLater, TimersFine, RefreshInv, RefreshTypes

Onward(r, n, strats) ==
    /\ trRun' = [trRun EXCEPT ![r] = n] /\ n.gen <= trGen /\ n.pc # "call"
    /\ \/ trCur = 0 /\ trCur' = 0 /\ n.pc = "idle"
       \/ /\ trCur # 0 /\ trCur' = trCur /\ trToken' = TRUE /\ trTimers' = trTimers
          /\ \/ trKind.persists /\ strats[trCur].changed /\ n.pc = "read" /\ n.data = strats[trCur]
             \/ ~(trKind.persists /\ strats[trCur].changed) /\ n.pc = "notify"

(* A run that has its token: the refresh is off, or the run goes on to save  *)
(* the strategy's configuration or to notify.                                *)
LEMMA Proceeds ==
    ASSUME RefreshInv, NEW r \in TrRuns, trRun[r].pc = "call",
           NEW strats \in [1..MaxGen -> StratRec], Proceed(r, strats)
    PROVE  /\ TimersFine
           /\ \E n \in RunRec : Onward(r, n, strats)
<1>0. trGen \in Nat /\ trCur \in 0..trGen /\ trGen <= MaxGen /\ MaxGen \in Nat /\ trRun[r] \in RunRec
  BY RefreshBounds DEF RefreshInv, RefreshTypes
<1>1. CASE trCur = 0
  <2>1. trRun' = [trRun EXCEPT ![r] = IdleRun]
    BY <1>1 DEF Proceed
  <2>2. TimersFine /\ trCur' = 0
    <3>1. CASE Stopped
      BY <3>1, StoppedTypes DEF TimersFine
    <3>2. CASE RetryLater /\ trToken' = TRUE /\ UNCHANGED trCur
      <4>1. trToken' \in BOOLEAN
        BY <3>2
      <4> QED
        BY <1>1, <3>2, <4>1, RetryArmed
    <3> QED
      BY <1>1, <3>1, <3>2 DEF Proceed
  <2>3. Onward(r, IdleRun, strats)
    BY <1>0, <1>1, <2>1, <2>2, RefreshRecords DEF Onward
  <2> QED
    BY <2>2, <2>3, RefreshRecords
<1>2. CASE trCur # 0
  <2>1. trToken' = TRUE /\ trTimers' = trTimers /\ trHandle' = trHandle /\ trCur' = trCur
    BY <1>2 DEF Proceed, TimersKept
  <2>2. TimersFine
    BY <2>1 DEF TimersFine, RefreshInv, RefreshTypes
  <2>3. strats[trCur] \in StratRec
    BY <1>0, <1>2
  <2>4. CASE trKind.persists /\ strats[trCur].changed
    <3>1. PICK n : n = [trRun[r] EXCEPT !.pc = "read", !.gen = 0, !.data = strats[trCur]]
      OBVIOUS
    <3>2. n \in RunRec /\ n.pc = "read" /\ n.gen = 0 /\ n.data = strats[trCur]
      BY <1>0, <2>3, <3>1 DEF RunRec
    <3>3. trRun' = [trRun EXCEPT ![r] = n]
      BY <1>2, <2>4, <3>1 DEF Proceed
    <3>4. Onward(r, n, strats)
      BY <1>0, <1>2, <2>1, <2>4, <3>2, <3>3 DEF Onward
    <3> QED
      BY <2>2, <3>2, <3>4
  <2>5. CASE ~(trKind.persists /\ strats[trCur].changed)
    <3>1. PICK n : n = [trRun[r] EXCEPT !.pc = "notify", !.gen = 0]
      OBVIOUS
    <3>2. n \in RunRec /\ n.pc = "notify" /\ n.gen = 0
      BY <1>0, <3>1 DEF RunRec
    <3>3. trRun' = [trRun EXCEPT ![r] = n]
      BY <1>2, <2>5, <3>1 DEF Proceed
    <3>4. Onward(r, n, strats)
      BY <1>0, <1>2, <2>1, <2>5, <3>2, <3>3 DEF Onward
    <3> QED
      BY <2>2, <3>2, <3>4
  <2> QED
    BY <2>4, <2>5
<1> QED
  BY <1>1, <1>2

LEMMA UseCachedInv ==
    ASSUME RefreshInv, NEW r \in TrRuns, UseCached(r)
    PROVE  RefreshInv'
<1>1. /\ trRun[r].pc = "call" /\ Proceed(r, trStrats) /\ trStrats \in [1..MaxGen -> StratRec]
      /\ UNCHANGED <<trKind, trStrats, trGen, trValid, trDb, trOther, trExcuse>>
  BY DEF UseCached, RefreshInv, RefreshTypes
<1>2. TimersFine
  BY <1>1, Proceeds
<1>3. PICK n \in RunRec :
        /\ trRun' = [trRun EXCEPT ![r] = n] /\ n.gen <= trGen /\ n.pc # "call"
        /\ \/ trCur = 0 /\ trCur' = 0 /\ n.pc = "idle"
           \/ /\ trCur # 0 /\ trCur' = trCur /\ trToken' = TRUE /\ trTimers' = trTimers
              /\ \/ trKind.persists /\ trStrats[trCur].changed /\ n.pc = "read" /\ n.data = trStrats[trCur]
                 \/ ~(trKind.persists /\ trStrats[trCur].changed) /\ n.pc = "notify"
  BY <1>1, Proceeds DEF Onward
<1>4. RefreshTypes'
  <2>1. trExcuse' \subseteq Excuses /\ trValid' \in 0..MaxRotate /\ trStrats' \in [1..MaxGen -> StratRec] /\ trDb' \in RowRec
    BY <1>1 DEF RefreshInv, RefreshTypes
  <2> QED
    BY <1>1, <1>2, <1>3, <2>1, RunStepTypes DEF TimersFine
<1>5. KeptInv' /\ OtherInv'
  <2>1. ~Saving(r)
    BY <1>1 DEF Saving
  <2>2. trExcuse \subseteq trExcuse' /\ trCur' \in {0, trCur}
    BY <1>1, <1>3
  <2> QED
    BY <1>1, <1>3, <2>1, <2>2, RunStepKept
<1>6. ChainInv'
  <2>1. CASE trCur' = 0
    BY <2>1, ChainOff
  <2>2. CASE trCur' # 0
    <3>1. trCur' = trCur /\ trToken' /\ trTimers' = trTimers /\ n.pc # "idle" /\ trExcuse \subseteq trExcuse'
      BY <1>1, <1>3, <2>2
    <3> QED
      BY <1>1, <1>3, <3>1, ChainBusy
  <2> QED
    BY <2>1, <2>2
<1> QED
  BY <1>4, <1>5, <1>6 DEF RefreshInv

(* A token that is accepted and kept becomes another one; only the run that  *)
(* asked is under way then.                                                  *)
LEMMA RefreshOkInv ==
    ASSUME RefreshInv, NEW r \in TrRuns, NEW rotated \in BOOLEAN, RefreshOk(r, rotated)
    PROVE  RefreshInv'
<1>0. PICK g : g = trRun[r].gen
  OBVIOUS
<1>1. PICK v : v = IF rotated THEN trValid + 1 ELSE trValid
  OBVIOUS
<1>2. PICK strats : strats = [trStrats EXCEPT ![g] = Answered(v)]
  OBVIOUS
<1>3. /\ trRun[r].pc = "call" /\ trStrats[g].refresh = trValid /\ rotated \in trKind.rotates
      /\ v <= MaxRotate /\ trValid' = v /\ trStrats' = strats
      /\ trExcuse' = IF g # trCur THEN trExcuse \cup {"lost"} ELSE trExcuse
      /\ Proceed(r, strats)
      /\ UNCHANGED <<trKind, trGen, trDb, trOther>>
  BY <1>0, <1>1, <1>2 DEF RefreshOk, Accepted, Asked
<1>4. g \in 1..trGen /\ trGen \in Nat /\ trGen <= MaxGen /\ MaxGen \in Nat /\ trValid \in Nat /\ trCur \in 0..trGen
  BY <1>0, <1>3, RefreshBounds DEF RefreshInv, RefreshTypes, RunRec
<1>5. v \in Nat /\ v # 0 /\ trValid # 0
  <2>1. trStrats[g].refresh # 0
    BY <1>4 DEF RefreshInv, KeptInv
  <2> QED
    BY <1>1, <1>3, <1>4, <2>1
<1>6. /\ Answered(v) \in StratRec /\ Answered(v).refresh = v /\ Answered(v).changed = trKind.persists
      /\ trKind.persists \in BOOLEAN /\ (~trKind.persists => v = trValid)
  <2>1. trKind \in AuthStrategies
    BY DEF RefreshInv, RefreshTypes
  <2>2. /\ trKind.persists \in BOOLEAN /\ trKind.caches \in BOOLEAN
        /\ ~trKind.persists => trKind.rotates = {FALSE}
    BY <2>1, StrategyFacts
  <2> QED
    BY <1>1, <1>3, <1>5, <2>2 DEF Answered, StratRec
<1>7. /\ strats \in [1..MaxGen -> StratRec]
      /\ \A h \in 1..MaxGen : strats[h] = IF h = g THEN Answered(v) ELSE trStrats[h]
  BY <1>2, <1>4, <1>6 DEF RefreshInv, RefreshTypes
<1>8. TimersFine
  BY <1>3, <1>7, Proceeds
<1>9. PICK n \in RunRec :
        /\ trRun' = [trRun EXCEPT ![r] = n] /\ n.gen <= trGen /\ n.pc # "call"
        /\ \/ trCur = 0 /\ trCur' = 0 /\ n.pc = "idle"
           \/ /\ trCur # 0 /\ trCur' = trCur /\ trToken' = TRUE /\ trTimers' = trTimers
              /\ \/ trKind.persists /\ strats[trCur].changed /\ n.pc = "read" /\ n.data = strats[trCur]
                 \/ ~(trKind.persists /\ strats[trCur].changed) /\ n.pc = "notify"
  BY <1>3, <1>7, Proceeds DEF Onward
<1>10. /\ \A q \in TrRuns : trRun'[q] = IF q = r THEN n ELSE trRun[q]
  BY <1>9, RunBecomes
<1>11. RefreshTypes'
  <2>1. trExcuse' \subseteq Excuses /\ trValid' \in 0..MaxRotate /\ trDb' \in RowRec /\ trCur' \in {0, trCur}
    BY <1>3, <1>5, <1>9, RefreshBounds DEF RefreshInv, RefreshTypes, Excuses
  <2> QED
    BY <1>3, <1>7, <1>8, <1>9, <2>1, RunStepTypes DEF TimersFine
<1>12. ChainInv'
  <2>1. CASE trCur' = 0
    BY <2>1, ChainOff
  <2>2. CASE trCur' # 0
    <3>1. trCur' = trCur /\ trToken' /\ trTimers' = trTimers /\ n.pc # "idle" /\ trExcuse \subseteq trExcuse'
      BY <1>3, <1>9, <2>2
    <3> QED
      BY <1>3, <1>9, <3>1, ChainBusy
  <2> QED
    BY <2>1, <2>2
<1>13. KeptInv'
  <2>1. \A h \in 1..trGen' : trStrats'[h].refresh # 0
    BY <1>3, <1>4, <1>5, <1>6, <1>7 DEF RefreshInv, KeptInv
  <2>2. ASSUME trExcuse' = {} PROVE ValidKept'
    <3>1. g = trCur /\ trCur # 0 /\ trExcuse = {} /\ ValidKept
      BY <1>3, <1>4, <1>5, <2>2 DEF RefreshInv, KeptInv
    <3>2. \A q \in TrRuns : q # r => trRun[q].pc = "idle"
      <4>1. r \in Busy
        BY <1>3 DEF Busy
      <4>2. Busy = {r}
        BY <3>1, <4>1 DEF RefreshInv, ChainInv, Chained
      <4> QED
        BY <4>2 DEF Busy
    <3>3. trCur' = trCur /\ trStrats'[trCur].refresh = v /\ trStrats'[trCur].changed = trKind.persists
      BY <1>3, <1>4, <1>6, <1>7, <1>9, <3>1
    <3>4. CASE trKind.persists
      <4>1. n.pc = "read" /\ n.data.refresh = v
        BY <1>3, <1>9, <3>1, <3>3, <3>4
      <4> QED
        BY <1>3, <1>10, <3>1, <3>2, <3>3, <4>1 DEF ValidKept, Saving
    <3>5. CASE ~trKind.persists
      <4>1. n.pc = "notify" /\ v = trValid /\ trDb.refresh = trValid
        BY <1>3, <1>6, <1>9, <3>1, <3>2, <3>3, <3>5 DEF ValidKept, Saving
      <4> QED
        BY <1>3, <1>10, <3>1, <3>2, <3>3, <4>1 DEF ValidKept, Saving
    <3> QED
      BY <1>6, <3>4, <3>5
  <2> QED
    BY <2>1, <2>2 DEF KeptInv
<1>14. OtherInv'
  BY <1>3, <1>9, <1>10 DEF RefreshInv, OtherInv
<1> QED
  BY <1>11, <1>12, <1>13, <1>14 DEF RefreshInv

(* A run that fails, or is refused, from a request. *)
LEMMA FailedInv ==
    ASSUME RefreshInv, NEW r \in TrRuns, trRun[r].pc = "call",
           \/ FailedOther(r)
           \/ trRun' = [trRun EXCEPT ![r] = IdleRun] /\ Stopped,
           UNCHANGED <<trKind, trStrats, trGen, trDb, trOther>>,
           trExcuse' \in {trExcuse, trExcuse \cup {"lost"}}, trValid' \in 0..MaxRotate,
           "lost" \in trExcuse' \/ trValid' = trValid
    PROVE  RefreshInv'
<1>1. IdleRun \in RunRec /\ IdleRun.pc = "idle" /\ IdleRun.gen = 0 /\ trRun' = [trRun EXCEPT ![r] = IdleRun]
  BY RefreshRecords DEF FailedOther
<1>2. \/ Stopped
      \/ ~trRun[r].first /\ RetryLater /\ UNCHANGED <<trCur, trToken>>
  BY DEF FailedOther
<1>3. TimersFine /\ trCur' \in {0, trCur}
  <2>1. CASE Stopped
    BY <2>1, StoppedTypes DEF TimersFine
  <2>2. CASE RetryLater /\ UNCHANGED <<trCur, trToken>>
    <3>1. trToken' \in BOOLEAN
      BY <2>2 DEF RefreshInv, RefreshTypes
    <3> QED
      BY <2>2, <3>1, RetryArmed
  <2> QED
    BY <1>2, <2>1, <2>2
<1>4. RefreshTypes'
  <2>1. trExcuse' \subseteq Excuses /\ trStrats' \in [1..MaxGen -> StratRec] /\ trDb' \in RowRec /\ 0 <= trGen
    BY DEF RefreshInv, RefreshTypes, Excuses
  <2> QED
    BY <1>1, <1>3, <2>1, RunStepTypes DEF TimersFine
<1>5. ChainInv'
  <2>1. CASE Stopped
    BY <2>1, ChainOff DEF Stopped
  <2>2. CASE ~trRun[r].first /\ RetryLater /\ UNCHANGED <<trCur, trToken>>
    <3>1. PICK t \in TimerIds : trTimers' = trTimers \cup {t}
      BY <2>2, RetryArmed DEF RefreshInv, RefreshTypes
    <3>2. trExcuse \subseteq trExcuse' /\ trTimers \in SUBSET trTimers
      OBVIOUS
    <3> QED
      BY <1>1, <2>2, <3>1, <3>2, ChainArmed
  <2> QED
    BY <1>2, <2>1, <2>2
<1>6. KeptInv' /\ OtherInv'
  <2>1. CASE trValid' = trValid
    <3>1. ~Saving(r) /\ trExcuse \subseteq trExcuse'
      BY DEF Saving
    <3> QED
      BY <1>1, <1>3, <2>1, <3>1, RunStepKept
  <2>2. CASE "lost" \in trExcuse'
    <3>1. KeptInv'
      BY <2>2 DEF RefreshInv, KeptInv
    <3>2. \A q \in TrRuns : trRun'[q] = IF q = r THEN IdleRun ELSE trRun[q]
      BY <1>1, RunBecomes
    <3>3. OtherInv'
      BY <1>1, <3>2 DEF RefreshInv, OtherInv
    <3> QED
      BY <3>1, <3>3
  <2> QED
    BY <2>1, <2>2
<1> QED
  BY <1>4, <1>5, <1>6 DEF RefreshInv

LEMMA RefreshFailsInv ==
    ASSUME RefreshInv, NEW r \in TrRuns, NEW lost \in BOOLEAN, RefreshFails(r, lost)
    PROVE  RefreshInv'
<1>1. /\ trRun[r].pc = "call" /\ FailedOther(r) /\ UNCHANGED <<trKind, trStrats, trGen, trDb, trOther>>
      /\ trExcuse' \in {trExcuse, trExcuse \cup {"lost"}}
      /\ "lost" \in trExcuse' \/ trValid' = trValid
  BY DEF RefreshFails, Asked
<1>2. trValid' \in 0..MaxRotate
  <2>1. trValid \in 0..MaxRotate
    BY DEF RefreshInv, RefreshTypes
  <2>2. trValid' = trValid \/ (trValid < MaxRotate /\ trValid' = trValid + 1)
    BY DEF RefreshFails
  <2> QED
    BY <2>1, <2>2, RefreshBounds
<1> QED
  BY <1>1, <1>2, FailedInv

LEMMA RefreshRefusedInv ==
    ASSUME RefreshInv, NEW r \in TrRuns, RefreshRefused(r)
    PROVE  RefreshInv'
<1>1. /\ trRun[r].pc = "call" /\ UNCHANGED <<trKind, trStrats, trGen, trDb, trOther, trValid, trExcuse>>
      /\ FailedOther(r) \/ (trRun' = [trRun EXCEPT ![r] = IdleRun] /\ Stopped)
  BY DEF RefreshRefused, Asked
<1>2. trValid' \in 0..MaxRotate
  BY <1>1 DEF RefreshInv, RefreshTypes
<1> QED
  BY <1>1, <1>2, FailedInv


LEMMA IntercomInvalidInv ==
    ASSUME RefreshInv, NEW r \in TrRuns, IntercomInvalid(r)
    PROVE  RefreshInv'
<1>1. /\ trRun[r].pc = "call" /\ trStrats[trRun[r].gen].refresh # trValid /\ trRun[r] \in RunRec
      /\ trRun' = [trRun EXCEPT ![r].pc = "clear"]
      /\ UNCHANGED <<trKind, trStrats, trGen, trCur, trToken, trTimers, trHandle, trValid, trDb, trOther, trExcuse>>
  BY DEF IntercomInvalid, Asked, Accepted, RefreshInv, RefreshTypes
<1>2. PICK n : n = [trRun[r] EXCEPT !.pc = "clear"]
  OBVIOUS
<1>3. n \in RunRec /\ n.pc = "clear" /\ n.gen = trRun[r].gen /\ n.first = trRun[r].first
  BY <1>1, <1>2 DEF RunRec
<1>4. trRun' = [trRun EXCEPT ![r] = n]
  BY <1>1, <1>2
<1>5. RefreshTypes'
  <2>1. /\ trToken' \in BOOLEAN /\ trHandle' \in TimerIds \cup {0} /\ trExcuse' \subseteq Excuses /\ trValid' \in 0..MaxRotate
        /\ trTimers' \subseteq TimerIds /\ IsFiniteSet(trTimers') /\ trStrats' \in [1..MaxGen -> StratRec] /\ trDb' \in RowRec
        /\ n.gen <= trGen
    BY <1>1, <1>3 DEF RefreshInv, RefreshTypes
  <2> QED
    BY <1>1, <1>3, <1>4, <2>1, RunStepTypes
<1>6. KeptInv' /\ OtherInv'
  <2>1. ~Saving(r)
    BY <1>1 DEF Saving
  <2> QED
    BY <1>1, <1>3, <1>4, <2>1, RunStepKept
<1>7. ChainInv'
  BY <1>1, <1>3, <1>4, ChainBusy
<1> QED
  BY <1>5, <1>6, <1>7 DEF RefreshInv

LEMMA ClearIntercomOAuthStateInv ==
    ASSUME RefreshInv, NEW r \in TrRuns, NEW saved \in BOOLEAN, ClearIntercomOAuthState(r, saved)
    PROVE  RefreshInv'
<1>1. /\ trRun[r].pc = "clear" /\ trRun' = [trRun EXCEPT ![r] = IdleRun] /\ Stopped /\ trDb \in RowRec
      /\ trDb' = IF saved THEN [trDb EXCEPT !.refresh = 0, !.cached = FALSE] ELSE trDb
      /\ UNCHANGED <<trKind, trStrats, trGen, trValid, trOther, trExcuse>>
  BY DEF ClearIntercomOAuthState, RefreshInv, RefreshTypes
<1>2. trDb' \in RowRec /\ trDb'.other = trDb.other
  BY <1>1 DEF RowRec
<1>3. \A q \in TrRuns : trRun'[q] = IF q = r THEN IdleRun ELSE trRun[q]
  BY <1>1, RunBecomes, RefreshRecords
<1>4. RefreshTypes'
  <2>1. /\ trExcuse' \subseteq Excuses /\ trValid' \in 0..MaxRotate /\ trStrats' \in [1..MaxGen -> StratRec] /\ 0 <= trGen
    BY <1>1 DEF RefreshInv, RefreshTypes
  <2>2. TimersFine /\ trCur' = 0
    BY <1>1, StoppedTypes DEF TimersFine
  <2> QED
    BY <1>1, <1>2, <2>1, <2>2, RunStepTypes, RefreshRecords DEF TimersFine
<1>5. ChainInv'
  BY <1>1, ChainOff DEF Stopped
<1>6. KeptInv'
  BY <1>1 DEF RefreshInv, KeptInv, ValidKept
<1>7. OtherInv'
  BY <1>1, <1>2, <1>3, RefreshRecords DEF RefreshInv, OtherInv
<1> QED
  BY <1>4, <1>5, <1>6, <1>7 DEF RefreshInv

LEMMA ReadLaunchConfigsInv ==
    ASSUME RefreshInv, NEW r \in TrRuns, ReadLaunchConfigs(r)
    PROVE  RefreshInv'
<1>1. /\ trRun[r].pc = "read" /\ trRun[r] \in RunRec /\ trDb.other \in Nat
      /\ trRun' = [trRun EXCEPT ![r].pc = "save", ![r].other = trDb.other]
      /\ trExcuse' = IF trOther.pc = "write" \/ \E q \in TrRuns : trRun[q].pc = "save"
                     THEN trExcuse \cup {"overlap"} ELSE trExcuse
      /\ UNCHANGED <<trKind, trStrats, trGen, trCur, trToken, trTimers, trHandle, trValid, trDb, trOther>>
  BY DEF ReadLaunchConfigs, RefreshInv, RefreshTypes, RowRec
<1>2. PICK n : n = [trRun[r] EXCEPT !.pc = "save", !.other = trDb.other]
  OBVIOUS
<1>3. /\ n \in RunRec /\ n.pc = "save" /\ n.gen = trRun[r].gen /\ n.first = trRun[r].first
      /\ n.data = trRun[r].data /\ n.other = trDb.other
  BY <1>1, <1>2 DEF RunRec
<1>4. trRun' = [trRun EXCEPT ![r] = n]
  BY <1>1, <1>2
<1>5. \A q \in TrRuns : trRun'[q] = IF q = r THEN n ELSE trRun[q]
  BY <1>3, <1>4, RunBecomes
<1>6. RefreshTypes'
  <2>1. /\ trToken' \in BOOLEAN /\ trHandle' \in TimerIds \cup {0} /\ trExcuse' \subseteq Excuses /\ trValid' \in 0..MaxRotate
        /\ trTimers' \subseteq TimerIds /\ IsFiniteSet(trTimers') /\ trStrats' \in [1..MaxGen -> StratRec] /\ trDb' \in RowRec
        /\ n.gen <= trGen
    BY <1>1, <1>3 DEF RefreshInv, RefreshTypes, Excuses
  <2> QED
    BY <1>1, <1>3, <1>4, <2>1, RunStepTypes
<1>7. ChainInv'
  BY <1>1, <1>3, <1>4, ChainBusy
<1>8. KeptInv'
  <2>1. \A q \in TrRuns : Saving(q)' <=> Saving(q)
    BY <1>1, <1>3, <1>5 DEF Saving
  <2>2. \A q \in TrRuns : trRun'[q].data = trRun[q].data
    BY <1>3, <1>5
  <2>3. \A q \in TrRuns : trRun'[q].pc \in {"call", "clear"} => trRun'[q] = trRun[q]
    BY <1>3, <1>5
  <2> QED
    BY <1>1, <2>1, <2>2, <2>3 DEF RefreshInv, KeptInv, ValidKept
<1>9. OtherInv'
  BY <1>1, <1>3, <1>5 DEF RefreshInv, OtherInv
<1> QED
  BY <1>6, <1>7, <1>8, <1>9 DEF RefreshInv

LEMMA SaveLaunchConfigsInv ==
    ASSUME RefreshInv, NEW r \in TrRuns, NEW saved \in BOOLEAN, SaveLaunchConfigs(r, saved)
    PROVE  RefreshInv'
<1>1. /\ trRun[r].pc = "save" /\ trRun[r] \in RunRec /\ trStrats' = MarkPersisted
      /\ trDb' = IF saved THEN [refresh |-> trRun[r].data.refresh, cached |-> trRun[r].data.cached, other |-> trRun[r].other]
                          ELSE trDb
      /\ trExcuse' = IF saved THEN trExcuse ELSE trExcuse \cup {"save"}
      /\ UNCHANGED <<trKind, trGen, trCur, trToken, trTimers, trHandle, trValid, trOther>>
  BY DEF SaveLaunchConfigs, RefreshInv, RefreshTypes, Merged
<1>2. PICK n : n = [IdleRun EXCEPT !.pc = "notify", !.first = trRun[r].first]
  OBVIOUS
<1>3. n \in RunRec /\ n.pc = "notify" /\ n.gen = 0
  <2>1. trRun[r].first \in BOOLEAN /\ NoStrat \in StratRec
    BY <1>1, RefreshRecords DEF RunRec
  <2> QED
    BY <1>2, <2>1 DEF IdleRun, RunRec
<1>4. trRun' = [trRun EXCEPT ![r] = n]
  BY <1>2 DEF SaveLaunchConfigs
<1>5. \A q \in TrRuns : trRun'[q] = IF q = r THEN n ELSE trRun[q]
  BY <1>3, <1>4, RunBecomes
<1>6. trGen \in 0..MaxGen /\ trCur \in 0..trGen /\ MaxGen \in Nat /\ trStrats \in [1..MaxGen -> StratRec]
  BY RefreshBounds DEF RefreshInv, RefreshTypes
<1>7. ASSUME NEW g \in 1..MaxGen PROVE trStrats'[g] \in StratRec /\ trStrats'[g].refresh = trStrats[g].refresh
  <2>1. CASE trCur = 0
    BY <1>1, <1>6, <2>1 DEF MarkPersisted
  <2>2. CASE trCur # 0
    <3>1. trStrats' = [trStrats EXCEPT ![trCur].changed = FALSE]
      BY <1>1, <2>2 DEF MarkPersisted
    <3> QED
      BY <1>6, <3>1 DEF StratRec
  <2> QED
    BY <2>1, <2>2
<1>8. trStrats' \in [1..MaxGen -> StratRec]
  <2>1. CASE trCur = 0
    BY <1>1, <1>6, <2>1 DEF MarkPersisted
  <2>2. CASE trCur # 0
    <3>1. trStrats' = [trStrats EXCEPT ![trCur].changed = FALSE]
      BY <1>1, <2>2 DEF MarkPersisted
    <3>2. trStrats' = [g \in 1..MaxGen |-> trStrats'[g]]
      BY <1>6, <3>1
    <3> QED
      BY <1>7, <3>2
  <2> QED
    BY <2>1, <2>2
<1>9. trDb' \in RowRec /\ (saved => trDb'.refresh = trRun[r].data.refresh /\ trDb'.other = trRun[r].other)
  <2>1. trRun[r].data.refresh \in Nat /\ trRun[r].data.cached \in BOOLEAN /\ trRun[r].other \in Nat
    BY <1>1 DEF RunRec, StratRec
  <2> QED
    BY <1>1, <2>1 DEF RowRec, RefreshInv, RefreshTypes
<1>10. RefreshTypes'
  <2>1. /\ trToken' \in BOOLEAN /\ trHandle' \in TimerIds \cup {0} /\ trExcuse' \subseteq Excuses /\ trValid' \in 0..MaxRotate
        /\ trTimers' \subseteq TimerIds /\ IsFiniteSet(trTimers') /\ n.gen <= trGen
    BY <1>1, <1>3, <1>6 DEF RefreshInv, RefreshTypes, Excuses
  <2> QED
    BY <1>1, <1>3, <1>4, <1>8, <1>9, <2>1, RunStepTypes
<1>11. ChainInv'
  <2>1. trExcuse \subseteq trExcuse'
    BY <1>1
  <2> QED
    BY <1>1, <1>3, <1>4, <2>1, ChainBusy
<1>12. KeptInv'
  <2>1. \A g \in 1..trGen' : trStrats'[g].refresh # 0
    BY <1>1, <1>6, <1>7 DEF RefreshInv, KeptInv
  <2>2. ASSUME trExcuse' = {}, trValid' # 0 PROVE ValidKept'
    <3>1. saved /\ trExcuse = {} /\ ValidKept /\ "overlap" \notin trExcuse
      BY <1>1, <2>2 DEF RefreshInv, KeptInv
    <3>2. trDb'.refresh = trValid'
      BY <1>1, <1>9, <3>1 DEF ValidKept, Saving
    <3>3. \A q \in TrRuns : Saving(q)' => trRun'[q].data.refresh = trValid'
      BY <1>1, <1>3, <1>5, <3>1 DEF ValidKept, Saving
    <3>4. ASSUME NEW q \in TrRuns, trRun'[q].pc = "call" PROVE trStrats'[trRun'[q].gen].refresh = trValid'
      <4>1. trRun'[q] = trRun[q] /\ trRun[q].gen \in 1..MaxGen
        BY <1>3, <1>5, <1>6, <3>4 DEF RefreshInv, RefreshTypes, RunRec
      <4> QED
        BY <1>1, <1>7, <3>1, <3>4, <4>1 DEF ValidKept
    <3>5. trCur' # 0 => trStrats'[trCur'].refresh = trValid'
      BY <1>1, <1>6, <1>7, <3>1 DEF ValidKept
    <3>6. \A q \in TrRuns : trRun'[q].pc # "clear"
      BY <1>3, <1>5, <3>1 DEF ValidKept
    <3>7. trOther'.pc # "write"
      BY <1>1, <3>1 DEF RefreshInv, OtherInv
    <3> QED
      BY <3>2, <3>3, <3>4, <3>5, <3>6, <3>7 DEF ValidKept
  <2> QED
    BY <2>1, <2>2 DEF KeptInv
<1>13. OtherInv'
  <2>1. "overlap" \notin trExcuse => trDb'.other = trDb.other
    BY <1>1, <1>9 DEF RefreshInv, OtherInv
  <2> QED
    BY <1>1, <1>3, <1>5, <2>1 DEF RefreshInv, OtherInv
<1> QED
  BY <1>10, <1>11, <1>12, <1>13 DEF RefreshInv

LEMMA NotifyTokenUpdateInv ==
    ASSUME RefreshInv, NEW r \in TrRuns, NotifyTokenUpdate(r)
    PROVE  RefreshInv'
<1>1. /\ trRun[r].pc = "notify" /\ trRun' = [trRun EXCEPT ![r] = IdleRun] /\ ScheduleNextRefresh
      /\ UNCHANGED <<trKind, trStrats, trGen, trCur, trToken, trValid, trDb, trOther, trExcuse>>
      /\ trTimers \subseteq TimerIds /\ IsFiniteSet(trTimers) /\ trHandle \in TimerIds \cup {0} /\ trToken \in BOOLEAN
  BY DEF NotifyTokenUpdate, RefreshInv, RefreshTypes
<1>2. IdleRun \in RunRec /\ IdleRun.pc = "idle" /\ IdleRun.gen = 0
  BY RefreshRecords
<1>3. TimersFine /\ ChainInv'
  <2>1. CASE trToken
    <3>1. IsFiniteSet(trTimers \ {trHandle}) /\ trTimers \ {trHandle} \in SUBSET trTimers
      BY <1>1, FS_RemoveElement
    <3>2. Arm(trTimers \ {trHandle}) /\ trTimers \ {trHandle} \in SUBSET TimerIds
      BY <1>1, <2>1 DEF ScheduleNextRefresh
    <3>3. TimersFine
      BY <1>1, <3>1, <3>2, Armed DEF TimersFine
    <3>4. PICK t \in TimerIds : trTimers' = (trTimers \ {trHandle}) \cup {t}
      BY <3>1, <3>2, Armed
    <3>5. trToken' /\ trCur' = trCur /\ trExcuse \subseteq trExcuse' /\ trRun[r].pc # "idle"
      BY <1>1, <2>1
    <3>6. ChainInv'
      BY <1>1, <1>2, <3>1, <3>4, <3>5, ChainArmed
    <3> QED
      BY <3>3, <3>6
  <2>2. CASE ~trToken
    <3>1. UNCHANGED <<trTimers, trHandle>>
      BY <1>1, <2>2 DEF ScheduleNextRefresh, TimersKept
    <3>2. TimersFine
      BY <1>1, <3>1 DEF TimersFine
    <3>3. ASSUME trCur # 0 PROVE Chained' /\ Starting'
      <4>1. Chained /\ Starting
        BY <2>2, <3>3 DEF RefreshInv, ChainInv
      <4>2. PICK q \in TrRuns : trRun[q].pc \in {"call", "clear"} /\ trRun[q].first
        BY <4>1 DEF Starting
      <4>3. /\ \A p \in TrRuns : trRun'[p] = IF p = r THEN IdleRun ELSE trRun[p]
            /\ Busy' = Busy \ {r}
        BY <1>1, <1>2, RunBecomes
      <4>4. q # r /\ trRun'[q] = trRun[q] /\ q \in Busy /\ r \in Busy /\ q \in Busy'
        BY <1>1, <4>2, <4>3 DEF Busy
      <4>5. "restarted" \in trExcuse
        BY <4>1, <4>4 DEF Chained
      <4>6. Chained'
        BY <1>1, <4>4, <4>5 DEF Chained
      <4> QED
        BY <4>2, <4>4, <4>6 DEF Starting
    <3> QED
      BY <1>1, <3>2, <3>3 DEF ChainInv
  <2> QED
    BY <1>1, <2>1, <2>2
<1>4. RefreshTypes'
  <2>1. /\ trExcuse' \subseteq Excuses /\ trValid' \in 0..MaxRotate /\ trStrats' \in [1..MaxGen -> StratRec] /\ 0 <= trGen
        /\ trDb' \in RowRec
    BY <1>1 DEF RefreshInv, RefreshTypes
  <2> QED
    BY <1>1, <1>2, <1>3, <2>1, RunStepTypes DEF TimersFine
<1>5. KeptInv' /\ OtherInv'
  <2>1. ~Saving(r)
    BY <1>1 DEF Saving
  <2> QED
    BY <1>1, <1>2, <2>1, RunStepKept
<1> QED
  BY <1>3, <1>4, <1>5 DEF RefreshInv

LEMMA StopTokenRefreshInv ==
    ASSUME RefreshInv, StopTokenRefresh
    PROVE  RefreshInv'
<1>1. Stopped /\ UNCHANGED <<trKind, trStrats, trGen, trRun, trValid, trDb, trOther, trExcuse>>
  BY DEF StopTokenRefresh
<1>2. TimersFine /\ trCur' = 0
  BY <1>1, StoppedTypes DEF TimersFine
<1>3. RefreshTypes'
  BY <1>1, <1>2 DEF RefreshInv, RefreshTypes, TimersFine
<1>4. KeptInv' /\ OtherInv'
  BY <1>1, <1>2 DEF RefreshInv, KeptInv, ValidKept, Saving, OtherInv
<1> QED
  BY <1>2, <1>3, <1>4, ChainOff DEF RefreshInv

LEMMA RevokeInv ==
    ASSUME RefreshInv, Revoke
    PROVE  RefreshInv'
<1>1. /\ trValid' = 0
      /\ UNCHANGED <<trKind, trStrats, trGen, trCur, trToken, trTimers, trHandle, trRun, trDb, trOther, trExcuse>>
  BY DEF Revoke
<1>2. RefreshTypes'
  BY <1>1, RefreshBounds DEF RefreshInv, RefreshTypes
<1>3. ChainInv' /\ KeptInv' /\ OtherInv'
  BY <1>1 DEF RefreshInv, ChainInv, Chained, Starting, Busy, KeptInv, OtherInv
<1> QED
  BY <1>2, <1>3 DEF RefreshInv

LEMMA OtherReadsInv ==
    ASSUME RefreshInv, OtherReads
    PROVE  RefreshInv'
<1>1. /\ trOther' = [trOther EXCEPT !.pc = "write", !.read = trDb] /\ trOther \in OtherRec /\ trDb \in RowRec
      /\ trExcuse' = IF \E q \in TrRuns : trRun[q].pc = "save" THEN trExcuse \cup {"overlap"} ELSE trExcuse
      /\ UNCHANGED <<trKind, trStrats, trGen, trCur, trToken, trTimers, trHandle, trRun, trValid, trDb>>
  BY DEF OtherReads, RefreshInv, RefreshTypes
<1>2. trOther' \in OtherRec /\ trOther'.pc = "write" /\ trOther'.read = trDb /\ trOther'.saved = trOther.saved
  BY <1>1 DEF OtherRec
<1>3. RefreshTypes'
  <2>1. trExcuse' \subseteq Excuses
    BY <1>1 DEF RefreshInv, RefreshTypes, Excuses
  <2> QED
    BY <1>1, <1>2, <2>1 DEF RefreshInv, RefreshTypes
<1>4. ChainInv'
  BY <1>1 DEF RefreshInv, ChainInv, Chained, Starting, Busy
<1>5. KeptInv' /\ OtherInv'
  BY <1>1, <1>2 DEF RefreshInv, KeptInv, ValidKept, Saving, OtherInv
<1> QED
  BY <1>3, <1>4, <1>5 DEF RefreshInv

LEMMA OtherWritesInv ==
    ASSUME RefreshInv, OtherWrites
    PROVE  RefreshInv'
<1>1. /\ trOther.pc = "write" /\ trOther.read \in RowRec /\ trOther.saved \in Nat
      /\ trDb' = [trOther.read EXCEPT !.other = trOther.saved + 1]
      /\ trOther' = [pc |-> "idle", read |-> 0, saved |-> trOther.saved + 1]
      /\ UNCHANGED <<trKind, trStrats, trGen, trCur, trToken, trTimers, trHandle, trRun, trValid, trExcuse>>
  BY DEF OtherWrites, RefreshInv, RefreshTypes, OtherRec
<1>2. trDb' \in RowRec /\ trDb'.refresh = trOther.read.refresh /\ trDb'.other = trOther.saved + 1
  BY <1>1 DEF RowRec
<1>3. trOther' \in OtherRec /\ trOther'.pc = "idle" /\ trOther'.saved = trOther.saved + 1
  BY <1>1 DEF OtherRec
<1>4. RefreshTypes'
  BY <1>1, <1>2, <1>3 DEF RefreshInv, RefreshTypes
<1>5. ChainInv'
  BY <1>1 DEF RefreshInv, ChainInv, Chained, Starting, Busy
<1>6. KeptInv' /\ OtherInv'
  BY <1>1, <1>2, <1>3 DEF RefreshInv, KeptInv, ValidKept, Saving, OtherInv
<1> QED
  BY <1>4, <1>5, <1>6 DEF RefreshInv

LEMMA ProcessRestartsInv ==
    ASSUME RefreshInv, ProcessRestarts
    PROVE  RefreshInv'
<1>1. /\ trExcuse' = trExcuse \cup (IF Busy # {} \/ (trCur # 0 /\ trStrats[trCur].changed) THEN {"lost"} ELSE {})
      /\ trCur' = 0 /\ trToken' = FALSE /\ trTimers' = {} /\ trHandle' = 0
      /\ trRun' = [r \in TrRuns |-> IdleRun]
      /\ trOther' = [trOther EXCEPT !.pc = "idle", !.read = 0] /\ trOther \in OtherRec
      /\ UNCHANGED <<trKind, trStrats, trGen, trValid, trDb>>
  BY DEF ProcessRestarts, RefreshInv, RefreshTypes
<1>2. trOther' \in OtherRec /\ trOther'.pc = "idle" /\ trOther'.saved = trOther.saved
  BY <1>1 DEF OtherRec
<1>3. trRun' \in [TrRuns -> RunRec] /\ \A r \in TrRuns : trRun'[r].pc = "idle" /\ trRun'[r].gen = 0
  BY <1>1, RefreshRecords
<1>4. RefreshTypes'
  <2>1. IsFiniteSet(trTimers') /\ trTimers' \subseteq TimerIds /\ trHandle' \in TimerIds \cup {0}
    BY <1>1, FS_EmptySet
  <2>2. trExcuse' \subseteq Excuses
    BY <1>1 DEF RefreshInv, RefreshTypes, Excuses
  <2>3. trToken' \in BOOLEAN
    BY <1>1
  <2> QED
    BY <1>1, <1>2, <1>3, <2>1, <2>2, <2>3 DEF RefreshInv, RefreshTypes
<1>5. KeptInv'
  <2>1. ASSUME trExcuse' = {}, trValid' # 0 PROVE ValidKept'
    <3>1. ValidKept /\ Busy = {}
      BY <1>1, <2>1 DEF RefreshInv, KeptInv
    <3>2. trDb.refresh = trValid
      BY <3>1 DEF ValidKept, Saving, Busy
    <3> QED
      BY <1>1, <1>2, <1>3, <3>2 DEF ValidKept, Saving
  <2> QED
    BY <1>1, <2>1 DEF RefreshInv, KeptInv
<1>6. OtherInv'
  BY <1>1, <1>2, <1>3 DEF RefreshInv, OtherInv
<1> QED
  BY <1>1, <1>4, <1>5, <1>6, ChainOff DEF RefreshInv

(* No step breaks it. *)
LEMMA RefreshStepInv == RefreshInv /\ [RefreshNext]_refreshVars => RefreshInv'
<1> SUFFICES ASSUME RefreshInv, [RefreshNext]_refreshVars PROVE RefreshInv'
  OBVIOUS
<1>1. CASE UNCHANGED refreshVars
  <2>1. RefreshTypes' /\ ChainInv'
    BY <1>1 DEF refreshVars, RefreshInv, RefreshTypes, ChainInv, Chained, Starting, Busy
  <2>2. KeptInv' /\ OtherInv'
    BY <1>1 DEF refreshVars, RefreshInv, KeptInv, ValidKept, Saving, OtherInv
  <2> QED
    BY <2>1, <2>2 DEF RefreshInv
<1>2. CASE RefreshStep
  <2>1. CASE TokenAges \/ StopTokenRefresh \/ Revoke \/ ProcessRestarts
    BY <2>1, TokenAgesInv, StopTokenRefreshInv, RevokeInv, ProcessRestartsInv
  <2>2. ASSUME NEW r \in TrRuns,
               \/ StartTokenRefresh(r) \/ UseCached(r) \/ RefreshRefused(r) \/ IntercomInvalid(r)
               \/ ReadLaunchConfigs(r) \/ NotifyTokenUpdate(r)
        PROVE  RefreshInv'
    BY <2>2, StartTokenRefreshInv, UseCachedInv, RefreshRefusedInv, IntercomInvalidInv, ReadLaunchConfigsInv,
       NotifyTokenUpdateInv
  <2>3. ASSUME NEW r \in TrRuns, NEW t \in TimerIds, TimerFires(t, r) PROVE RefreshInv'
    BY <2>3, TimerFiresInv
  <2>4. ASSUME NEW r \in TrRuns, NEW b \in BOOLEAN,
               RefreshOk(r, b) \/ RefreshFails(r, b) \/ SaveLaunchConfigs(r, b) \/ ClearIntercomOAuthState(r, b)
        PROVE  RefreshInv'
    BY <2>4, RefreshOkInv, RefreshFailsInv, SaveLaunchConfigsInv, ClearIntercomOAuthStateInv
  <2> QED
    BY <1>2, <2>1, <2>2, <2>3, <2>4 DEF RefreshStep
<1>3. CASE OtherStep
  BY <1>3, OtherReadsInv, OtherWritesInv DEF OtherStep
<1> QED
  BY <1>1, <1>2, <1>3 DEF RefreshNext

(* The delays of the timers, at both ends of what a token may last. *)
LEMMA DelaysFit == \A left \in ExpiresIn : RefreshDelay(left) \in 10..LongestTimer
<1> SUFFICES ASSUME NEW left \in ExpiresIn PROVE RefreshDelay(left) \in 10..LongestTimer
  OBVIOUS
<1>1. PICK b \in Int : b = 2147000
  BY SMT
<1>2. LongestTimer \in Int /\ b <= LongestTimer /\ b >= 10
  BY <1>1, SMT DEF LongestTimer
<1>3. PICK a \in Int : a = left - 300
  BY SMT DEF ExpiresIn
<1>4. PICK m : m = Max({a, 10})
  OBVIOUS
<1>5. m \in Int /\ m >= 10
  BY <1>4, MaxOfTwo
<1>6. Min({m, b}) \in {m, b} /\ Min({m, b}) <= b
  BY <1>5, MinOfTwo
<1>7. RefreshDelay(left) = Min({m, b})
  BY <1>1, <1>3, <1>4, SMT DEF RefreshDelay
<1> QED
  BY <1>2, <1>5, <1>6, <1>7

(* What the invariant is for. *)
LEMMA RefreshInvServes == RefreshInv => TokensRefreshed
<1> SUFFICES ASSUME RefreshInv PROVE TokensRefreshed
  OBVIOUS
<1>1. RefreshTypeOK
  BY DelaysFit DEF RefreshInv, RefreshTypes, RunRec, RefreshTypeOK
<1>2. OneChain
  <2>1. ASSUME trCur # 0
        PROVE  /\ Cardinality(trTimers) + Cardinality(Busy) >= 1
               /\ "restarted" \notin trExcuse => Cardinality(trTimers) + Cardinality(Busy) = 1
    <3>1. Chained
      BY <2>1 DEF RefreshInv, ChainInv
    <3>2. IsFiniteSet(trTimers) /\ IsFiniteSet(Busy)
      <4>1. Busy \subseteq TrRuns
        BY DEF Busy
      <4> QED
        BY <4>1, RefreshAssumption, FS_Subset DEF RefreshInv, RefreshTypes
    <3>3. Cardinality(trTimers) \in Nat /\ Cardinality(Busy) \in Nat
      BY <3>2, FS_CardinalityType
    <3>4. (Cardinality(trTimers) = 0 <=> trTimers = {}) /\ (Cardinality(Busy) = 0 <=> Busy = {})
      BY <3>2, FS_EmptySet
    <3>5. \A x : Cardinality({x}) = 1
      BY FS_Singleton
    <3>6. Cardinality(trTimers) + Cardinality(Busy) >= 1
      BY <3>1, <3>3, <3>4 DEF Chained
    <3>7. ASSUME "restarted" \notin trExcuse PROVE Cardinality(trTimers) + Cardinality(Busy) = 1
      <4>1. \/ trTimers = {} /\ \E r \in TrRuns : Busy = {r}
            \/ Busy = {} /\ \E t \in TimerIds : trTimers = {t}
        BY <3>1, <3>7 DEF Chained
      <4>2. CASE trTimers = {} /\ \E r \in TrRuns : Busy = {r}
        <5>1. Cardinality(trTimers) = 0 /\ Cardinality(Busy) = 1
          BY <4>2, <3>4, <3>5
        <5> QED
          BY <5>1
      <4>3. CASE Busy = {} /\ \E t \in TimerIds : trTimers = {t}
        <5>1. Cardinality(trTimers) = 1 /\ Cardinality(Busy) = 0
          BY <4>3, <3>4, <3>5
        <5> QED
          BY <5>1
      <4> QED
        BY <4>1, <4>2, <4>3
    <3> QED
      BY <3>6, <3>7
  <2> QED
    BY <2>1 DEF OneChain
<1>3. RotationKept
  <2>1. ASSUME trExcuse = {}, trValid # 0, trDb.refresh # trValid
        PROVE  trValid \in {trRun[r].data.refresh : r \in Busy}
    <3>1. ValidKept
      BY <2>1 DEF RefreshInv, KeptInv
    <3>2. PICK r \in TrRuns : Saving(r)
      BY <2>1, <3>1 DEF ValidKept
    <3>3. r \in Busy /\ trRun[r].data.refresh = trValid
      BY <3>1, <3>2 DEF ValidKept, Saving, Busy
    <3> QED
      BY <3>3
  <2> QED
    BY <2>1 DEF RotationKept
<1>4. OthersKept
  BY DEF RefreshInv, OtherInv, OthersKept
<1> QED
  BY <1>1, <1>2, <1>3, <1>4 DEF TokensRefreshed

(* As long as a server's context has a strategy its token goes on being     *)
(* refreshed by exactly one run or timer, the refresh token the provider    *)
(* accepts is never overwritten by an older one, and saves keep what other  *)
(* servers of the user saved (ServerContext.ts:300-444,                     *)
(* ServerManager.ts:2024-2099), for any number of runs, timers, strategies  *)
(* and rotations and each of the authentication strategies, unless one of   *)
(* the losses the property names has happened.                              *)
THEOREM TokensGoOn == RefreshSpec => []TokensRefreshed
<1>1. RefreshInv /\ [RefreshNext]_refreshVars => RefreshInv'
  BY RefreshStepInv
<1> QED
  BY <1>1, RefreshInitInv, RefreshInvServes, PTL DEF RefreshSpec

-----------------------------------------------------------------------------
(* The log: the inductive invariant. *)

LogBatchRec == [all : SUBSET Entries, left : SUBSET Entries]
InsertRec == [id : Nat, entry : Entries, own : BOOLEAN]
LogRowRec == [id : Nat, entry : Entries]
SyncRec == [pc : {"idle", "read", "send", "mark", "marked"}, logs : SUBSET Nat, attempt : Nat]
Stored == {r.entry : r \in lgRows}

(* Where an entry is; what a batch no longer waits for is in the table.      *)
QueueInv ==
    /\ lgFresh \subseteq Entries /\ lgQueue \subseteq Entries /\ lgDropped \subseteq Entries
    /\ lgBatches \subseteq LogBatchRec
    /\ \A b \in lgBatches : b.left # {} /\ b.left \subseteq b.all /\ b.all \subseteq b.left \cup Stored
    /\ \A e \in Entries \ lgFresh : e \in lgQueue \/ (\E b \in lgBatches : e \in b.all) \/ e \in Stored \/ e \in lgDropped

(* An id is drawn once.                                                      *)
IdInv ==
    /\ lgNextId \in Nat
    /\ lgRows \subseteq LogRowRec /\ lgInserts \subseteq InsertRec
    /\ \A r \in lgRows \cup lgInserts : r.id < lgNextId
    /\ \A r \in lgRows, i \in lgInserts : r.id # i.id
    /\ \A i \in lgInserts, j \in lgInserts : i.id = j.id => i = j

(* What was taken for sending is all there was between the last id and the   *)
(* greatest that was taken, but for the rows that came late; the mark is of  *)
(* what was sent, and the proxy row is ahead only between the two marks.     *)
SyncInv ==
    /\ lgLast \in Nat /\ lgSaved \in Nat /\ lgLast <= lgSaved /\ lgSaved < lgNextId
    /\ lgSync \in SyncRec
    /\ lgSync.logs = {} <=> lgSync.pc \in {"idle", "read"}
    /\ \A l \in lgSync.logs : lgLast < l /\ l < lgNextId
    /\ \A r \in lgRows : \A l \in lgSync.logs : lgLast < r.id /\ r.id <= l => r.id \in lgSync.logs \cup lgLate
    /\ lgSync.pc \in {"mark", "marked"} => lgSync.logs \subseteq lgSent
    /\ lgSync.pc # "marked" => lgSaved = lgLast
    /\ lgSync.pc = "marked" => lgSaved \in lgSync.logs /\ \A l \in lgSync.logs : l <= lgSaved
    /\ \A r \in lgRows : r.id <= lgSaved => r.id \in lgSent \cup lgLate

UrlInv == lgUrl \in BOOLEAN /\ lgTimer \in BOOLEAN /\ (lgTimer => lgUrl)

LogInv == QueueInv /\ IdInv /\ SyncInv /\ UrlInv

(* Each part is about some of the variables.                                 *)
LEMMA QueueKept ==
    ASSUME QueueInv, UNCHANGED <<lgFresh, lgQueue, lgBatches, lgRows, lgDropped>>
    PROVE  QueueInv'
BY DEF QueueInv, Stored

LEMMA IdsKept ==
    ASSUME IdInv, UNCHANGED <<lgNextId, lgRows, lgInserts>>
    PROVE  IdInv'
BY DEF IdInv

LEMMA SyncKept ==
    ASSUME SyncInv, UNCHANGED <<lgNextId, lgRows, lgLate, lgSync, lgLast, lgSaved, lgSent>>
    PROVE  SyncInv'
BY DEF SyncInv

LEMMA UrlKept ==
    ASSUME UrlInv, UNCHANGED <<lgUrl, lgTimer>>
    PROVE  UrlInv'
BY DEF UrlInv

LEMMA LogInitInv == LogInit => LogInv
<1> SUFFICES ASSUME LogInit PROVE LogInv
  OBVIOUS
<1>1. QueueInv /\ UrlInv
  BY DEF LogInit, QueueInv, UrlInv
<1>2. IdInv
  BY DEF LogInit, IdInv
<1>3. IdleSync \in SyncRec /\ IdleSync.pc = "idle" /\ IdleSync.logs = {}
  BY DEF IdleSync, SyncRec
<1>4. SyncInv
  BY <1>3 DEF LogInit, SyncInv
<1> QED
  BY <1>1, <1>2, <1>4 DEF LogInv

(* A batch that is flushed waits for all it has.                             *)
LEMMA FlushKept ==
    ASSUME QueueInv, NEW q \in SUBSET Entries, q # {}, Flushed(q), lgQueue \subseteq q,
           lgFresh' \subseteq lgFresh, lgFresh \ lgFresh' \subseteq q, UNCHANGED <<lgRows, lgDropped>>
    PROVE  QueueInv'
<1>1. PICK b : b = [all |-> q, left |-> q]
  OBVIOUS
<1>2. b \in LogBatchRec /\ b.all = q /\ b.left = q
  BY <1>1 DEF LogBatchRec
<1>3. lgQueue' = {} /\ lgBatches' = lgBatches \cup {b} /\ Stored' = Stored
  BY <1>1 DEF Flushed, Stored
<1> QED
  BY <1>2, <1>3 DEF QueueInv

LEMMA QueuedKept ==
    ASSUME QueueInv, NEW e \in Entries, Queued(e), UNCHANGED <<lgRows, lgDropped>>
    PROVE  QueueInv'
<1>1. lgFresh' = lgFresh \ {e} /\ lgQueue \cup {e} \in SUBSET Entries /\ e \in lgFresh
  BY DEF Queued, QueueInv
<1>2. CASE Cardinality(lgQueue \cup {e}) >= LogBatch
  <2>1. Flushed(lgQueue \cup {e})
    BY <1>2 DEF Queued
  <2> QED
    BY <1>1, <2>1, FlushKept
<1>3. CASE ~(Cardinality(lgQueue \cup {e}) >= LogBatch)
  <2>1. lgQueue' = lgQueue \cup {e} /\ lgBatches' = lgBatches /\ Stored' = Stored
    BY <1>3 DEF Queued, Stored
  <2> QED
    BY <1>1, <2>1 DEF QueueInv
<1> QED
  BY <1>2, <1>3

LEMMA EnqueueInv ==
    ASSUME LogInv, NEW e \in Entries, Enqueue(e)
    PROVE  LogInv'
BY QueuedKept, IdsKept, SyncKept, UrlKept DEF LogInv, Enqueue, syncVars, endVars

LEMMA FlushTimerInv ==
    ASSUME LogInv, FlushTimer
    PROVE  LogInv'
<1>1. lgQueue \in SUBSET Entries /\ lgQueue # {} /\ Flushed(lgQueue) /\ lgFresh' = lgFresh
  BY DEF FlushTimer, LogInv, QueueInv
<1>2. QueueInv'
  BY <1>1, FlushKept DEF LogInv, FlushTimer, endVars
<1> QED
  BY <1>2, IdsKept, SyncKept, UrlKept DEF LogInv, FlushTimer, syncVars, endVars

LEMMA InsertInv ==
    ASSUME LogInv, NEW e \in Entries, Insert(e)
    PROVE  LogInv'
<1>1. PICK n : n = [id |-> lgNextId, entry |-> e, own |-> TRUE]
  OBVIOUS
<1>2. n \in InsertRec /\ n.id = lgNextId /\ lgNextId \in Nat
  BY <1>1 DEF InsertRec, LogInv, IdInv
<1>3. lgInserts' = lgInserts \cup {n} /\ lgNextId' = lgNextId + 1 /\ lgRows' = lgRows
  BY <1>1 DEF Insert
<1>4. IdInv'
  <2>1. \A r \in lgRows' \cup lgInserts' : r.id \in Nat /\ (r = n \/ r.id < lgNextId)
    BY <1>2, <1>3 DEF LogInv, IdInv, InsertRec, LogRowRec
  <2>2. \A r \in lgRows' \cup lgInserts' : r.id < lgNextId'
    BY <1>2, <1>3, <2>1
  <2>3. \A r \in lgRows, i \in lgInserts' : r.id # i.id
    BY <1>2, <1>3, <2>1 DEF LogInv, IdInv
  <2>4. \A i \in lgInserts', j \in lgInserts' : i.id = j.id => i = j
    BY <1>2, <1>3, <2>1 DEF LogInv, IdInv
  <2>5. lgNextId' \in Nat /\ lgInserts' \subseteq InsertRec /\ lgRows' \subseteq LogRowRec
    BY <1>2, <1>3 DEF LogInv, IdInv
  <2> QED
    BY <1>3, <2>2, <2>3, <2>4, <2>5 DEF IdInv
<1>5. SyncInv'
  <2>1. UNCHANGED <<lgRows, lgLate, lgSync, lgLast, lgSaved, lgSent>>
    BY DEF Insert, syncVars
  <2>2. \A x \in Nat : x < lgNextId => x < lgNextId'
    BY <1>2, <1>3
  <2>3. lgSync.logs \subseteq Nat
    BY DEF LogInv, SyncInv, SyncRec
  <2> QED
    BY <2>1, <2>2, <2>3 DEF LogInv, SyncInv
<1> QED
  BY <1>4, <1>5, QueueKept, UrlKept DEF LogInv, Insert, syncVars, endVars


(* A row that comes after larger ones were taken is late.                    *)
LEMMA CommitInv ==
    ASSUME LogInv, NEW i \in lgInserts, Commit(i)
    PROVE  LogInv'
<1>1. /\ i \in InsertRec /\ i.id \in Nat /\ i.entry \in Entries /\ i.own \in BOOLEAN /\ i.id < lgNextId
      /\ lgNextId \in Nat
  BY DEF LogInv, IdInv, InsertRec
<1>2. PICK n : n = RowOf(i)
  OBVIOUS
<1>3. n \in LogRowRec /\ n.id = i.id /\ n.entry = i.entry
  BY <1>1, <1>2 DEF RowOf, LogRowRec
<1>4. /\ lgInserts' = lgInserts \ {i} /\ lgRows' = lgRows \cup {n} /\ lgNextId' = lgNextId
      /\ UNCHANGED <<lgFresh, lgQueue, lgDropped, lgUrl, lgTimer, lgSync, lgLast, lgSaved, lgSent>>
  BY <1>2 DEF Commit, syncVars, endVars
<1>5. IdInv'
  <2>1. \A j \in lgInserts' : j.id # i.id
    BY <1>4 DEF LogInv, IdInv
  <2> QED
    BY <1>1, <1>3, <1>4, <2>1 DEF LogInv, IdInv
<1>6. QueueInv'
  <2>1. Stored' = Stored \cup {i.entry}
    BY <1>3, <1>4 DEF Stored
  <2> DEFINE Less(c) == [c EXCEPT !.left = IF i.own THEN @ \ {i.entry} ELSE @]
  <2>2. lgBatches' = {b \in {Less(c) : c \in lgBatches} : b.left # {}}
    BY DEF Commit
  <2>3. ASSUME NEW c \in lgBatches
        PROVE  /\ Less(c) \in LogBatchRec /\ Less(c).all = c.all
               /\ Less(c).left = (IF i.own THEN c.left \ {i.entry} ELSE c.left)
               /\ c.all \subseteq Less(c).left \cup Stored' /\ Less(c).left \subseteq c.all
    <3>1. c \in LogBatchRec /\ c.left \subseteq c.all /\ c.all \subseteq c.left \cup Stored
      BY DEF LogInv, QueueInv
    <3>2. /\ Less(c) \in LogBatchRec /\ Less(c).all = c.all
          /\ Less(c).left = (IF i.own THEN c.left \ {i.entry} ELSE c.left)
      BY <3>1 DEF LogBatchRec
    <3> HIDE DEF Less
    <3>3. c.all \subseteq Less(c).left \cup Stored' /\ Less(c).left \subseteq c.all
      BY <2>1, <3>1, <3>2
    <3> QED
      BY <3>2, <3>3
  <2> HIDE DEF Less
  <2>4. \A b \in lgBatches' : /\ b \in LogBatchRec /\ b.left # {}
                              /\ b.left \subseteq b.all /\ b.all \subseteq b.left \cup Stored'
    BY <2>2, <2>3
  <2>5. ASSUME NEW e \in Entries \ lgFresh
        PROVE  e \in lgQueue \/ (\E b \in lgBatches' : e \in b.all) \/ e \in Stored' \/ e \in lgDropped
    <3>1. e \in lgQueue \/ (\E b \in lgBatches : e \in b.all) \/ e \in Stored \/ e \in lgDropped
      BY DEF LogInv, QueueInv
    <3>2. ASSUME NEW c \in lgBatches, e \in c.all
          PROVE  (\E b \in lgBatches' : e \in b.all) \/ e \in Stored'
      <4>1. CASE Less(c).left = {}
        BY <2>3, <3>2, <4>1
      <4>2. CASE Less(c).left # {}
        BY <2>2, <2>3, <3>2, <4>2
      <4> QED
        BY <4>1, <4>2
    <3> QED
      BY <2>1, <3>1, <3>2
  <2> QED
    BY <1>4, <2>4, <2>5 DEF LogInv, QueueInv
<1>7. SyncInv'
  <2>1. Taken \in SUBSET Nat /\ Taken # {} /\ \A x \in Taken : x < lgNextId
    BY <1>1 DEF LogInv, SyncInv, SyncRec, Taken
  <2>2. PICK m \in Taken : m = Max(Taken) /\ \A y \in Taken : y <= m
    BY <1>1, <2>1, MaxBelow
  <2>3. lgLate' = IF i.id <= m THEN lgLate \cup {i.id} ELSE lgLate
    BY <2>2 DEF Commit
  <2>4. lgLate \subseteq lgLate' /\ (i.id \in lgLate' \/ \A y \in Taken : y < i.id)
    BY <1>1, <2>1, <2>2, <2>3
  <2>5. lgSaved \in Taken /\ lgSync.logs \subseteq Taken
    BY DEF LogInv, SyncInv, Taken
  <2>6. \A r \in lgRows' : \A l \in lgSync.logs : lgLast < r.id /\ r.id <= l => r.id \in lgSync.logs \cup lgLate'
    <3>1. ASSUME NEW l \in lgSync.logs, i.id <= l PROVE i.id \in lgLate'
      <4>1. l \in Taken
        BY <2>5, <3>1
      <4>2. l \in Nat
        BY <2>1, <4>1
      <4>3. ~(l < i.id)
        BY <1>1, <3>1, <4>2
      <4> QED
        BY <2>4, <4>1, <4>3
    <3> QED
      BY <1>3, <1>4, <2>4, <3>1 DEF LogInv, SyncInv
  <2>7. \A r \in lgRows' : r.id <= lgSaved => r.id \in lgSent \cup lgLate'
    <3>1. ASSUME i.id <= lgSaved PROVE i.id \in lgLate'
      <4>1. lgSaved \in Nat /\ ~(lgSaved < i.id)
        BY <1>1, <3>1 DEF LogInv, SyncInv
      <4> QED
        BY <2>4, <2>5, <4>1
    <3> QED
      BY <1>3, <1>4, <2>4, <3>1 DEF LogInv, SyncInv
  <2> QED
    BY <1>4, <2>6, <2>7 DEF LogInv, SyncInv
<1> QED
  BY <1>4, <1>5, <1>6, <1>7, UrlKept DEF LogInv

LEMMA SaveFailsInv ==
    ASSUME LogInv, NEW i \in lgInserts, SaveFails(i)
    PROVE  LogInv'
<1> DEFINE hit == {b \in lgBatches : i.own /\ i.entry \in b.left}
           entries == UNION {b.all : b \in hit}
           Off(j) == [j EXCEPT !.own = @ /\ j.entry \notin entries]
<1>1. /\ lgInserts' = {Off(j) : j \in lgInserts \ {i}}
      /\ lgQueue' = lgQueue \cup entries
      /\ lgBatches' = lgBatches \ hit
      /\ UNCHANGED <<lgFresh, lgRows, lgNextId, lgLate, lgUrl, lgTimer, lgSync, lgLast, lgSaved, lgSent, lgDropped>>
  BY DEF SaveFails, syncVars, endVars
<1>2. QueueInv'
  <2>1. Stored' = Stored /\ entries \subseteq Entries
    BY <1>1 DEF Stored, LogInv, QueueInv, LogBatchRec
  <2>2. \A b \in lgBatches : b \in lgBatches' \/ b.all \subseteq lgQueue'
    BY <1>1
  <2> HIDE DEF hit, entries
  <2> QED
    BY <1>1, <2>1, <2>2 DEF LogInv, QueueInv
<1>3. \A j \in lgInserts : Off(j) \in InsertRec /\ Off(j).id = j.id
  <2> HIDE DEF entries
  <2> TAKE j \in lgInserts
  <2>1. j \in InsertRec /\ (j.own /\ j.entry \notin entries) \in BOOLEAN
    BY DEF LogInv, IdInv
  <2>2. Off(j) \in InsertRec /\ Off(j).id = j.id
    BY <2>1 DEF InsertRec
  <2> QED
    BY <2>2
<1>4. IdInv'
  <2> HIDE DEF Off
  <2>1. \A k \in lgInserts' : \E j \in lgInserts : k = Off(j) /\ k \in InsertRec /\ k.id = j.id
    BY <1>1, <1>3
  <2>2. \A k \in lgInserts', j \in lgInserts' : k.id = j.id => k = j
    BY <2>1 DEF LogInv, IdInv
  <2> QED
    BY <1>1, <2>1, <2>2 DEF LogInv, IdInv
<1> QED
  BY <1>1, <1>2, <1>4, SyncKept, UrlKept DEF LogInv


(* Steps of the synchronisation that move no mark.                           *)
LEMMA SyncStepKept ==
    ASSUME LogInv, UNCHANGED <<queueVars, lgDropped, lgUrl, lgTimer>>, SyncInv'
    PROVE  LogInv'
BY QueueKept, IdsKept, UrlKept DEF LogInv, queueVars

LEMMA IdleSyncInv ==
    ASSUME SyncInv, lgSync.pc # "marked", lgSync' = IdleSync,
           UNCHANGED <<lgNextId, lgRows, lgLate, lgLast, lgSaved>>, lgSent \subseteq lgSent'
    PROVE  SyncInv'
<1>1. IdleSync \in SyncRec /\ IdleSync.pc = "idle" /\ IdleSync.logs = {}
  BY DEF IdleSync, SyncRec
<1> QED
  BY <1>1 DEF SyncInv

LEMMA SyncLogsInv ==
    ASSUME LogInv, SyncLogs
    PROVE  LogInv'
<1>1. lgSync'.pc = "read" /\ lgSync'.logs = {} /\ lgSync' \in SyncRec /\ lgSync.pc = "idle"
  BY DEF SyncLogs, IdleSync, SyncRec
<1>2. SyncInv'
  BY <1>1 DEF LogInv, SyncInv, SyncLogs, queueVars
<1> QED
  BY <1>2, SyncStepKept DEF SyncLogs, queueVars, endVars

(* The rows that are taken are the first ones.                               *)
LEMMA FindLogsFromIdInv ==
    ASSUME LogInv, FindLogsFromId
    PROVE  LogInv'
<1> DEFINE above == {i \in IdsOf(lgRows) : i > lgLast}
           UpTo(i) == {j \in above : j <= i}
           logs == {i \in above : Cardinality(UpTo(i)) <= SyncBatch}
<1>1. /\ lgSync.pc = "read"
      /\ lgSync' = (IF logs = {} THEN IdleSync ELSE [lgSync EXCEPT !.pc = "send", !.logs = logs])
      /\ UNCHANGED <<queueVars, lgUrl, lgTimer, lgLast, lgSaved, lgSent, lgDropped>>
  BY DEF FindLogsFromId, endVars
<1>2. /\ above \in SUBSET Nat /\ \A i \in above : lgLast < i /\ i < lgNextId
      /\ lgNextId \in Nat /\ lgLast \in Nat
  BY DEF LogInv, IdInv, SyncInv, IdsOf, LogRowRec
<1>3. ASSUME NEW i \in logs, NEW j \in above, j <= i
      PROVE  j \in logs
  <2>1. UpTo(j) \in SUBSET UpTo(i) /\ UpTo(i) \in SUBSET Nat /\ \A k \in UpTo(i) : k <= lgNextId
    BY <1>2, <1>3
  <2> HIDE DEF UpTo
  <2>2. IsFiniteSet(UpTo(i))
    BY <1>2, <2>1, FS_BoundedSetOfNaturals
  <2>3. /\ IsFiniteSet(UpTo(j)) /\ Cardinality(UpTo(j)) <= Cardinality(UpTo(i))
        /\ Cardinality(UpTo(i)) \in Nat /\ Cardinality(UpTo(j)) \in Nat
    BY <2>1, <2>2, FS_Subset, FS_CardinalityType
  <2>4. Cardinality(UpTo(i)) <= SyncBatch /\ SyncBatch \in Nat
    BY LogAssumption
  <2>5. Cardinality(UpTo(j)) <= SyncBatch
    BY <2>3, <2>4
  <2> QED
    BY <2>5
<1>4. SyncInv'
  <2>1. CASE logs = {}
    <3>1. lgSync' = IdleSync
      BY <1>1, <2>1
    <3> QED
      BY <1>1, <3>1, IdleSyncInv DEF LogInv, queueVars
  <2>2. CASE logs # {}
    <3>1. logs \in SUBSET Nat /\ lgSync \in SyncRec /\ lgSync.pc = "read" /\ lgSaved = lgLast
      BY <1>1, <1>2 DEF LogInv, SyncInv
    <3>2. \A r \in lgRows : lgLast < r.id => r.id \in above
      BY DEF IdsOf, LogInv, IdInv, SyncInv, LogRowRec
    <3>3. \A l \in logs : l \in above
      OBVIOUS
    <3> HIDE DEF logs, above
    <3>4. lgSync' \in SyncRec /\ lgSync'.pc = "send" /\ lgSync'.logs = logs
      BY <1>1, <2>2, <3>1 DEF SyncRec
    <3>5. \A l \in logs : lgLast < l /\ l < lgNextId
      BY <1>2, <3>3
    <3>6. \A r \in lgRows : \A l \in logs : lgLast < r.id /\ r.id <= l => r.id \in logs
      BY <1>3, <3>2
    <3> QED
      BY <1>1, <2>2, <3>1, <3>4, <3>5, <3>6 DEF LogInv, SyncInv, queueVars
  <2> QED
    BY <2>1, <2>2
<1> QED
  BY <1>1, <1>4, SyncStepKept DEF queueVars

LEMMA SendLogsInv ==
    ASSUME LogInv, SendLogs
    PROVE  LogInv'
<1>1. /\ lgSync.pc = "send" /\ lgSync \in SyncRec /\ lgSync' = [lgSync EXCEPT !.pc = "mark"]
      /\ lgSent' = lgSent \cup lgSync.logs
      /\ UNCHANGED <<queueVars, lgUrl, lgTimer, lgLast, lgSaved, lgDropped>>
  BY DEF SendLogs, endVars, LogInv, SyncInv
<1>2. lgSync' \in SyncRec /\ lgSync'.pc = "mark" /\ lgSync'.logs = lgSync.logs
  BY <1>1 DEF SyncRec
<1>3. SyncInv'
  BY <1>1, <1>2 DEF LogInv, SyncInv, queueVars
<1> QED
  BY <1>1, <1>3, SyncStepKept DEF queueVars

LEMMA SendFailsInv ==
    ASSUME LogInv, NEW received \in BOOLEAN, SendFails(received)
    PROVE  LogInv'
<1>1. /\ lgSync.pc = "send" /\ lgSync \in SyncRec /\ lgSent \subseteq lgSent'
      /\ lgSync' = (IF lgSync.attempt < LogRetry THEN [lgSync EXCEPT !.attempt = @ + 1] ELSE IdleSync)
      /\ UNCHANGED <<queueVars, lgUrl, lgTimer, lgLast, lgSaved, lgDropped>>
  BY DEF SendFails, endVars, LogInv, SyncInv
<1>2. CASE lgSync.attempt < LogRetry
  <2>1. lgSync' \in SyncRec /\ lgSync'.pc = "send" /\ lgSync'.logs = lgSync.logs
    BY <1>1, <1>2 DEF SyncRec
  <2>2. SyncInv'
    BY <1>1, <2>1 DEF LogInv, SyncInv, queueVars
  <2> QED
    BY <1>1, <2>2, SyncStepKept DEF queueVars
<1>3. CASE ~(lgSync.attempt < LogRetry)
  <2>1. SyncInv'
    BY <1>1, <1>3, IdleSyncInv DEF LogInv, queueVars
  <2> QED
    BY <1>1, <2>1, SyncStepKept DEF queueVars
<1> QED
  BY <1>2, <1>3

(* The greatest of the rows that were taken.                                 *)
LEMMA MaxTaken ==
    ASSUME LogInv, lgSync.pc \in {"mark", "marked"}
    PROVE  Max(lgSync.logs) \in lgSync.logs /\ \A l \in lgSync.logs : l <= Max(lgSync.logs)
<1>1. lgSync.logs \in SUBSET Nat /\ lgSync.logs # {} /\ lgNextId \in Nat /\ \A l \in lgSync.logs : l < lgNextId
  BY DEF LogInv, SyncInv, SyncRec, IdInv
<1> QED
  BY <1>1, MaxBelow


(* What is marked was sent, or came late.                                    *)
LEMMA MarkSyncedInv ==
    ASSUME LogInv, MarkSynced
    PROVE  LogInv'
<1>1. /\ lgSync.pc = "mark" /\ lgSync \in SyncRec /\ lgSync' = [lgSync EXCEPT !.pc = "marked"]
      /\ lgSaved' = Max(lgSync.logs)
      /\ UNCHANGED <<queueVars, lgUrl, lgTimer, lgLast, lgSent, lgDropped>>
  BY DEF MarkSynced, endVars, LogInv, SyncInv
<1>2. lgSync' \in SyncRec /\ lgSync'.pc = "marked" /\ lgSync'.logs = lgSync.logs
  BY <1>1 DEF SyncRec
<1>3. lgSaved' \in lgSync.logs /\ \A l \in lgSync.logs : l <= lgSaved'
  BY <1>1, MaxTaken
<1>4. /\ lgSync.logs \subseteq Nat /\ lgLast \in Nat /\ lgSaved = lgLast /\ lgSync.logs \subseteq lgSent
      /\ \A l \in lgSync.logs : lgLast < l /\ l < lgNextId
      /\ lgSync.logs # {}
  BY <1>1 DEF LogInv, SyncInv, SyncRec
<1>5. lgSaved' \in Nat /\ lgLast <= lgSaved' /\ lgSaved' < lgNextId
  BY <1>3, <1>4
<1>6. ASSUME NEW r \in lgRows, r.id <= lgSaved' PROVE r.id \in lgSent \cup lgLate
  <2>1. r.id \in Nat
    BY DEF LogInv, IdInv, LogRowRec
  <2>2. CASE r.id <= lgSaved
    BY <2>2 DEF LogInv, SyncInv
  <2>3. CASE lgLast < r.id
    <3>1. r.id \in lgSync.logs \cup lgLate
      BY <1>3, <1>6, <2>3 DEF LogInv, SyncInv
    <3> QED
      BY <1>4, <3>1
  <2> QED
    BY <1>4, <2>1, <2>2, <2>3
<1>7. \A r \in lgRows : \A l \in lgSync.logs : lgLast < r.id /\ r.id <= l => r.id \in lgSync.logs \cup lgLate
  BY DEF LogInv, SyncInv
<1>8. SyncInv'
  BY <1>1, <1>2, <1>3, <1>4, <1>5, <1>6, <1>7 DEF SyncInv, queueVars
<1> QED
  BY <1>1, <1>8, SyncStepKept DEF queueVars

LEMMA MarkedInv ==
    ASSUME LogInv, Marked
    PROVE  LogInv'
<1>1. /\ lgSync.pc = "marked" /\ lgSync' = IdleSync /\ lgLast' = Max(lgSync.logs)
      /\ UNCHANGED <<queueVars, lgUrl, lgTimer, lgSaved, lgSent, lgDropped>>
      /\ lgSync.logs \subseteq Nat /\ lgSaved \in Nat /\ lgSaved < lgNextId
      /\ lgSaved \in lgSync.logs /\ \A l \in lgSync.logs : l <= lgSaved
      /\ \A r \in lgRows : r.id <= lgSaved => r.id \in lgSent \cup lgLate
  BY DEF Marked, endVars, LogInv, SyncInv, SyncRec
<1>2. lgLast' \in lgSync.logs /\ \A l \in lgSync.logs : l <= lgLast'
  BY <1>1, MaxTaken
<1>3. lgLast' = lgSaved
  <2>1. lgLast' \in Nat /\ lgLast' <= lgSaved /\ lgSaved <= lgLast'
    BY <1>1, <1>2
  <2> QED
    BY <1>1, <2>1
<1>4. IdleSync \in SyncRec /\ IdleSync.pc = "idle" /\ IdleSync.logs = {}
  BY DEF IdleSync, SyncRec
<1>5. SyncInv'
  BY <1>1, <1>3, <1>4 DEF SyncInv, queueVars
<1> QED
  BY <1>1, <1>5, SyncStepKept DEF queueVars

LEMMA SyncThrowsInv ==
    ASSUME LogInv, SyncThrows
    PROVE  LogInv'
<1>1. /\ lgSync.pc # "marked" /\ lgSync' = IdleSync
      /\ UNCHANGED <<lgInserts, lgRows, lgNextId, lgLate, lgUrl, lgTimer, lgLast, lgSaved, lgSent, lgDropped>>
  BY DEF SyncThrows, endVars
<1>2. SyncInv'
  BY <1>1, IdleSyncInv DEF LogInv
<1>3. QueueInv'
  <2>1. CASE UNCHANGED <<lgFresh, lgQueue, lgBatches>>
    BY <1>1, <2>1, QueueKept DEF LogInv
  <2>2. ASSUME NEW e \in lgFresh, Queued(e) PROVE QueueInv'
    <3>1. e \in Entries
      BY DEF LogInv, QueueInv
    <3> QED
      BY <1>1, <2>2, <3>1, QueuedKept DEF LogInv
  <2> QED
    BY <2>1, <2>2 DEF SyncThrows
<1> QED
  BY <1>1, <1>2, <1>3, IdsKept, UrlKept DEF LogInv

LEMMA ReloadWebhookUrlInv ==
    ASSUME LogInv, NEW url \in BOOLEAN, ReloadWebhookUrl(url)
    PROVE  LogInv'
<1>1. UrlInv'
  BY DEF ReloadWebhookUrl, UrlInv
<1> QED
  BY <1>1, QueueKept, IdsKept, SyncKept DEF LogInv, ReloadWebhookUrl, queueVars, endVars

LEMMA SyncShutdownInv ==
    ASSUME LogInv, SyncShutdown
    PROVE  LogInv'
<1>1. UrlInv'
  BY DEF SyncShutdown, UrlInv, LogInv
<1> QED
  BY <1>1, QueueKept, IdsKept, SyncKept DEF LogInv, SyncShutdown, queueVars

(* A restart begins with the row of the proxy, which is never behind.        *)
LEMMA RestartInv ==
    ASSUME LogInv, Restart
    PROVE  LogInv'
<1>1. /\ lgDropped' = lgDropped \cup ((lgQueue \cup InBatches) \ Stored)
      /\ lgQueue' = {} /\ lgBatches' = {} /\ lgInserts' = {} /\ lgSync' = IdleSync
      /\ lgLast' = lgSaved /\ lgTimer' = lgUrl
      /\ UNCHANGED <<lgFresh, lgRows, lgNextId, lgUrl, lgSaved, lgSent, lgLate>>
  BY DEF Restart, Stored
<1>2. QueueInv'
  <2>1. Stored' = Stored /\ \A e : e \in InBatches <=> \E b \in lgBatches : e \in b.all
    BY <1>1 DEF Stored, InBatches
  <2>2. InBatches \subseteq Entries
    BY DEF InBatches, LogInv, QueueInv, LogBatchRec
  <2>3. lgDropped' \subseteq Entries
    BY <1>1, <2>2 DEF LogInv, QueueInv
  <2> QED
    BY <1>1, <2>1, <2>3 DEF LogInv, QueueInv
<1>3. IdInv' /\ UrlInv'
  BY <1>1 DEF LogInv, IdInv, UrlInv
<1>4. IdleSync \in SyncRec /\ IdleSync.pc = "idle" /\ IdleSync.logs = {}
  BY DEF IdleSync, SyncRec
<1>5. SyncInv'
  BY <1>1, <1>4 DEF LogInv, SyncInv
<1> QED
  BY <1>2, <1>3, <1>5 DEF LogInv

(* No step breaks it. *)
LEMMA LogStepInv == LogInv /\ [LogNext]_logVars => LogInv'
<1> SUFFICES ASSUME LogInv, [LogNext]_logVars PROVE LogInv'
  OBVIOUS
<1>1. CASE UNCHANGED logVars
  BY <1>1, QueueKept, IdsKept, SyncKept, UrlKept DEF logVars, LogInv
<1>2. ASSUME NEW e \in Entries, Enqueue(e) \/ Insert(e) PROVE LogInv'
  BY <1>2, EnqueueInv, InsertInv
<1>3. ASSUME NEW i \in lgInserts, Commit(i) \/ SaveFails(i) PROVE LogInv'
  BY <1>3, CommitInv, SaveFailsInv
<1>4. CASE FlushTimer \/ SyncLogs \/ FindLogsFromId \/ SendLogs
  BY <1>4, FlushTimerInv, SyncLogsInv, FindLogsFromIdInv, SendLogsInv
<1>5. CASE MarkSynced \/ Marked \/ SyncThrows \/ SyncShutdown \/ Restart
  BY <1>5, MarkSyncedInv, MarkedInv, SyncThrowsInv, SyncShutdownInv, RestartInv
<1>6. ASSUME NEW b \in BOOLEAN, SendFails(b) \/ ReloadWebhookUrl(b) PROVE LogInv'
  BY <1>6, SendFailsInv, ReloadWebhookUrlInv
<1> QED
  BY <1>1, <1>2, <1>3, <1>4, <1>5, <1>6 DEF LogNext

(* What the invariant is for. *)
LEMMA LogInvServes == LogInv => LogsKept
<1> SUFFICES ASSUME LogInv PROVE LogsKept
  OBVIOUS
<1>1. LogTypeOK
  <2>1. /\ lgFresh \subseteq Entries /\ lgQueue \subseteq Entries /\ lgDropped \subseteq Entries
        /\ \A b \in lgBatches : b.left # {} /\ b.left \subseteq b.all /\ b.all \subseteq Entries
    BY DEF LogInv, QueueInv, LogBatchRec
  <2>2. /\ \A r \in lgRows \cup lgInserts : r.id < lgNextId /\ r.entry \in Entries
        /\ IdsOf(lgRows) \cap IdsOf(lgInserts) = {}
    BY DEF LogInv, IdInv, InsertRec, LogRowRec, IdsOf
  <2>3. /\ lgLast <= lgSaved /\ lgSaved < lgNextId
        /\ lgSync.pc \in {"idle", "read", "send", "mark", "marked"}
        /\ lgTimer => lgUrl
    BY DEF LogInv, SyncInv, SyncRec, UrlInv
  <2>4. lgSync.logs = {} <=> lgSync.pc \in {"idle", "read"}
    BY DEF LogInv, SyncInv
  <2>5. (lgSync.logs = {}) = (lgSync.pc \in {"idle", "read"})
    BY <2>4
  <2> QED
    BY <2>1, <2>2, <2>3, <2>5 DEF LogTypeOK
<1>2. NoLogLost
  BY DEF LogInv, QueueInv, NoLogLost, InBatches, Stored
<1>3. SyncedWereSent
  BY DEF LogInv, SyncInv, SyncedWereSent
<1> QED
  BY <1>1, <1>2, <1>3 DEF LogsKept

(* No entry of the log is lost on its way, whatever saves and sends fail,    *)
(* unless the process ends with it in memory, and every row up to the last   *)
(* synchronised id has reached the webhook, over retries, cleared webhooks   *)
(* and restarts, unless it was committed after larger ids were taken         *)
(* (LogService.ts:99-116, LogSyncService.ts:109-150): for any set of         *)
(* entries, any sizes of the batches and any number of retries.              *)
THEOREM LogsStayKept == LogSpec => []LogsKept
<1>1. LogInv /\ [LogNext]_logVars => LogInv'
  BY LogStepInv
<1> QED
  BY <1>1, LogInitInv, LogInvServes, PTL DEF LogSpec

-----------------------------------------------------------------------------
(* The policy cache: the inductive invariant. *)

EvalRec ==
    [pc : {"idle", "both", "own", "glob", "install"}, srv : PServers \cup {NoPolicy}, at : Nat, own : Nat, glob : Nat,
     stale : BOOLEAN]
EditorRec ==
    [pc : {"idle", "create", "update", "clear"}, scope : Scopes \cup {NoPolicy}, row : Nat, latest : Nat, attempt : Nat]
EntryRec == [own : Nat, glob : Nat, at : Nat]
PairRec == [own : Nat, glob : Nat]

(* The rows of the policies and the editors, each of whom knows a scope and, *)
(* for an update, a row of it.                                               *)
EditInv ==
    /\ pcNow \in Nat
    /\ pcEnded \in [Scopes -> Seq(Nat)] /\ pcRows \in [Scopes -> Seq(Nat)]
    /\ \A s \in Scopes : \E n \in Nat : \A i \in DOMAIN pcRows[s] : pcRows[s][i] < n
    /\ pcEditor \in [PEditors -> EditorRec]
    /\ \A a \in PEditors :
        /\ pcEditor[a].pc # "idle" => pcEditor[a].scope \in Scopes
        /\ pcEditor[a].pc = "update" => pcEditor[a].row \in DOMAIN pcRows[pcEditor[a].scope]
    /\ VersionsDiffer

(* The k-th content of a scope, read since the time t, was in force then.    *)
InForce(s, k, t) == k <= Content(s) /\ (k < Content(s) => t <= pcEnded[s][k + 1])

(* What evaluations have read, and what the entries hold.                    *)
OwnRead(e) == e.pc \in {"glob", "install"}
GlobRead(e) == e.pc \in {"own", "install"}
FetchInv ==
    /\ pcEval \in [PEvals -> EvalRec]
    /\ \A p \in PEvals : LET e == pcEval[p] IN
        /\ e.pc # "idle" => e.srv \in PServers
        /\ e.at <= pcNow
        /\ OwnRead(e) => InForce(e.srv, e.own, e.at)
        /\ GlobRead(e) => InForce(Global, e.glob, e.at)
EntryInv ==
    /\ DOMAIN pcCache = PServers
    /\ \A s \in PServers : pcCache[s] # NoPolicy =>
        /\ pcCache[s] \in EntryRec /\ pcCache[s].at <= pcNow
        /\ InForce(s, pcCache[s].own, pcCache[s].at) /\ InForce(Global, pcCache[s].glob, pcCache[s].at)

(* A fetch that no clear overtook has read what was there at the last clear, *)
(* or later.                                                                 *)
ClearInv ==
    /\ pcCleared \in [PServers -> PairRec]
    /\ \A s \in PServers : pcCleared[s].own <= Content(s) /\ pcCleared[s].glob <= Content(Global)
    /\ \A p \in PEvals : LET e == pcEval[p] IN
        ~e.stale /\ e.pc # "idle" =>
            /\ OwnRead(e) => e.own >= pcCleared[e.srv].own
            /\ GlobRead(e) => e.glob >= pcCleared[e.srv].glob
    /\ ClearedIsGone

PolicyInv == EditInv /\ FetchInv /\ EntryInv /\ ClearInv

LEMMA PolicyRecords ==
    /\ IdleEval \in EvalRec /\ IdleEval.pc = "idle" /\ IdleEval.at = 0 /\ ~IdleEval.stale
    /\ IdleEditor \in EditorRec /\ IdleEditor.pc = "idle"
BY DEF IdleEval, EvalRec, IdleEditor, EditorRec

LEMMA ScopeFacts == Global \in Scopes /\ PServers \subseteq Scopes
BY DEF Scopes

LEMMA PolicyInitInv == PolicyInit => PolicyInv
<1> SUFFICES ASSUME PolicyInit PROVE PolicyInv
  OBVIOUS
<1>1. /\ pcNow = 0 /\ pcEnded = [s \in Scopes |-> <<>>] /\ pcRows = [s \in Scopes |-> <<>>]
      /\ pcCache = [s \in PServers |-> NoPolicy]
      /\ pcEval = [p \in PEvals |-> IdleEval] /\ pcEditor = [a \in PEditors |-> IdleEditor]
      /\ pcCleared = [s \in PServers |-> [own |-> 0, glob |-> 0]]
  BY DEF PolicyInit
<1>2. \A s \in Scopes : Content(s) = 0 /\ DOMAIN pcRows[s] = {}
  BY <1>1 DEF Content
<1>3. EditInv
  BY <1>1, <1>2, PolicyRecords DEF EditInv, VersionsDiffer
<1>4. FetchInv
  BY <1>1, PolicyRecords DEF FetchInv, OwnRead, GlobRead
<1>5. EntryInv
  BY <1>1 DEF EntryInv
<1>6. [own |-> 0, glob |-> 0] \in PairRec
  BY DEF PairRec
<1>7. ClearInv
  BY <1>1, <1>2, <1>6, PolicyRecords, ScopeFacts DEF ClearInv, ClearedIsGone
<1> QED
  BY <1>3, <1>4, <1>5, <1>7 DEF PolicyInv


(* Each part is about some of the variables.                                 *)
LEMMA FetchedKept ==
    ASSUME FetchInv, EntryInv, ClearInv, UNCHANGED <<pcNow, pcEnded, pcEval, pcCache, pcCleared, pcRaced>>
    PROVE  FetchInv' /\ EntryInv' /\ ClearInv'
BY DEF FetchInv, EntryInv, ClearInv, ClearedIsGone, InForce, OwnRead, GlobRead, Content

LEMMA EditKept ==
    ASSUME EditInv, UNCHANGED <<pcNow, pcEnded, pcRows, pcEditor>>
    PROVE  EditInv'
BY DEF EditInv, VersionsDiffer

(* The contents are counted.                                                 *)
LEMMA ContentCounts ==
    ASSUME EditInv
    PROVE  \A s \in Scopes : Content(s) \in Nat /\ pcEnded[s] \in Seq(Nat)
<1> TAKE s \in Scopes
<1>1. pcEnded[s] \in Seq(Nat)
  BY DEF EditInv
<1> QED
  BY <1>1, LenProperties DEF Content

LEMMA TickInv ==
    ASSUME PolicyInv, Tick
    PROVE  PolicyInv'
<1>1. /\ pcNow' = pcNow + 1 /\ pcNow \in Nat
      /\ UNCHANGED <<pcEnded, pcRows, pcCache, pcEval, pcEditor, pcCleared, pcRaced>>
  BY DEF Tick, PolicyInv, EditInv
<1>2. \A t \in Nat : t <= pcNow => t <= pcNow'
  BY <1>1
<1>3. EditInv'
  BY <1>1 DEF PolicyInv, EditInv, VersionsDiffer
<1>4. \A p \in PEvals : pcEval[p].at \in Nat
  BY DEF PolicyInv, FetchInv, EvalRec
<1>5. FetchInv'
  BY <1>1, <1>2, <1>4 DEF PolicyInv, FetchInv, InForce, Content, OwnRead, GlobRead
<1>6. EntryInv'
  BY <1>1, <1>2 DEF PolicyInv, EntryInv, EntryRec, InForce, Content
<1>7. ClearInv'
  BY <1>1 DEF PolicyInv, ClearInv, ClearedIsGone, Content, OwnRead, GlobRead
<1> QED
  BY <1>3, <1>5, <1>6, <1>7 DEF PolicyInv

(* An evaluation that goes on with what it may.                              *)
EvalFine(n) ==
    /\ n \in EvalRec
    /\ n.pc # "idle" => n.srv \in PServers
    /\ n.at <= pcNow
    /\ OwnRead(n) => InForce(n.srv, n.own, n.at)
    /\ GlobRead(n) => InForce(Global, n.glob, n.at)
    /\ ~n.stale /\ n.pc # "idle" =>
        /\ OwnRead(n) => n.own >= pcCleared[n.srv].own
        /\ GlobRead(n) => n.glob >= pcCleared[n.srv].glob

LEMMA EvalsAreFine ==
    ASSUME PolicyInv, NEW p \in PEvals
    PROVE  EvalFine(pcEval[p])
BY DEF PolicyInv, FetchInv, ClearInv, EvalFine

LEMMA EvalStep ==
    ASSUME PolicyInv, NEW p \in PEvals, NEW n, EvalFine(n), pcEval' = [pcEval EXCEPT ![p] = n],
           UNCHANGED <<pcNow, pcEnded, pcCleared>>
    PROVE  FetchInv' /\ (ClearedIsGone' => ClearInv')
<1>1. pcEval' \in [PEvals -> EvalRec] /\ \A q \in PEvals : pcEval'[q] = IF q = p THEN n ELSE pcEval[q]
  BY DEF PolicyInv, FetchInv, EvalFine
<1>2. ASSUME NEW q \in PEvals PROVE EvalFine(pcEval'[q])
  BY <1>1, EvalsAreFine
<1>3. /\ \A s, k, t : InForce(s, k, t)' <=> InForce(s, k, t)
      /\ \A s : Content(s)' = Content(s)
  BY DEF InForce, Content
<1>4. FetchInv'
  <2>1. ASSUME NEW q \in PEvals
        PROVE  /\ pcEval'[q].pc # "idle" => pcEval'[q].srv \in PServers
               /\ pcEval'[q].at <= pcNow
               /\ OwnRead(pcEval'[q]) => InForce(pcEval'[q].srv, pcEval'[q].own, pcEval'[q].at)
               /\ GlobRead(pcEval'[q]) => InForce(Global, pcEval'[q].glob, pcEval'[q].at)
    <3>1. EvalFine(pcEval'[q])
      BY <1>2
    <3> QED
      BY <3>1 DEF EvalFine
  <2> QED
    BY <1>1, <2>1 DEF FetchInv, OwnRead, GlobRead, InForce, Content
<1>5. ASSUME ClearedIsGone' PROVE ClearInv'
  <2>1. \A s \in PServers : pcCleared[s].own <= Content(s)' /\ pcCleared[s].glob <= Content(Global)'
    BY <1>3 DEF PolicyInv, ClearInv
  <2> QED
    BY <1>2, <1>5, <2>1 DEF PolicyInv, ClearInv, EvalFine, OwnRead, GlobRead
<1> QED
  BY <1>4, <1>5

LEMMA EvaluateFetchInv ==
    ASSUME PolicyInv, NEW p \in PEvals, NEW s \in PServers, EvaluateFetch(p, s)
    PROVE  PolicyInv'
<1>1. PICK n : n = [IdleEval EXCEPT !.pc = "both", !.srv = s, !.at = pcNow]
  OBVIOUS
<1>2. pcNow \in Nat
  BY DEF PolicyInv, EditInv
<1>3. n \in EvalRec /\ n.pc = "both" /\ n.srv = s /\ n.at = pcNow
  BY <1>1, <1>2 DEF IdleEval, EvalRec
<1>4. EvalFine(n)
  BY <1>2, <1>3 DEF EvalFine, OwnRead, GlobRead
<1>5. /\ pcEval' = [pcEval EXCEPT ![p] = n]
      /\ UNCHANGED <<pcNow, pcEnded, pcRows, pcCache, pcEditor, pcCleared, pcRaced>>
  BY <1>1 DEF EvaluateFetch
<1>6. ClearedIsGone' /\ EntryInv'
  BY <1>5 DEF PolicyInv, ClearInv, ClearedIsGone, EntryInv, InForce, Content
<1> QED
  BY <1>4, <1>5, <1>6, EvalStep, EditKept DEF PolicyInv

LEMMA ReadOwnInv ==
    ASSUME PolicyInv, NEW p \in PEvals, ReadOwn(p)
    PROVE  PolicyInv'
<1>1. PICK n : n = [pcEval[p] EXCEPT !.own = Content(pcEval[p].srv),
                                     !.pc = IF @ = "both" THEN "glob" ELSE "install"]
  OBVIOUS
<1>2. EvalFine(pcEval[p]) /\ pcEval[p].pc \in {"both", "own"}
  BY EvalsAreFine DEF ReadOwn
<1>3. pcEval[p].srv \in PServers /\ Content(pcEval[p].srv) \in Nat
  BY <1>2, ContentCounts, ScopeFacts DEF EvalFine, PolicyInv
<1>4. /\ n \in EvalRec /\ n.pc = (IF pcEval[p].pc = "both" THEN "glob" ELSE "install")
      /\ n.srv = pcEval[p].srv /\ n.own = Content(n.srv) /\ n.glob = pcEval[p].glob /\ n.at = pcEval[p].at
      /\ n.stale = pcEval[p].stale
  BY <1>1, <1>2, <1>3 DEF EvalFine, EvalRec
<1>5. EvalFine(n)
  <2>1. InForce(n.srv, n.own, n.at) /\ n.own >= pcCleared[n.srv].own
    <3>1. pcCleared[n.srv].own <= Content(n.srv) /\ pcCleared[n.srv].own \in Nat
      BY <1>3, <1>4 DEF PolicyInv, ClearInv, PairRec
    <3> QED
      BY <1>3, <1>4, <3>1 DEF InForce
  <2> QED
    BY <1>2, <1>3, <1>4, <2>1 DEF EvalFine, OwnRead, GlobRead
<1>6. /\ pcEval' = [pcEval EXCEPT ![p] = n]
      /\ UNCHANGED <<pcNow, pcEnded, pcRows, pcCache, pcEditor, pcCleared, pcRaced>>
  BY <1>1 DEF ReadOwn, PolicyInv, FetchInv
<1>7. ClearedIsGone' /\ EntryInv'
  BY <1>6 DEF PolicyInv, ClearInv, ClearedIsGone, EntryInv, InForce, Content
<1> QED
  BY <1>5, <1>6, <1>7, EvalStep, EditKept DEF PolicyInv

LEMMA ReadGlobalInv ==
    ASSUME PolicyInv, NEW p \in PEvals, ReadGlobal(p)
    PROVE  PolicyInv'
<1>1. PICK n : n = [pcEval[p] EXCEPT !.glob = Content(Global),
                                     !.pc = IF @ = "both" THEN "own" ELSE "install"]
  OBVIOUS
<1>2. EvalFine(pcEval[p]) /\ pcEval[p].pc \in {"both", "glob"}
  BY EvalsAreFine DEF ReadGlobal
<1>3. pcEval[p].srv \in PServers /\ Content(Global) \in Nat
  BY <1>2, ContentCounts, ScopeFacts DEF EvalFine, PolicyInv
<1>4. /\ n \in EvalRec /\ n.pc = (IF pcEval[p].pc = "both" THEN "own" ELSE "install")
      /\ n.srv = pcEval[p].srv /\ n.glob = Content(Global) /\ n.own = pcEval[p].own /\ n.at = pcEval[p].at
      /\ n.stale = pcEval[p].stale
  BY <1>1, <1>2, <1>3 DEF EvalFine, EvalRec
<1>5. EvalFine(n)
  <2>1. InForce(Global, n.glob, n.at) /\ n.glob >= pcCleared[n.srv].glob
    <3>1. pcCleared[n.srv].glob <= Content(Global) /\ pcCleared[n.srv].glob \in Nat
      BY <1>3, <1>4 DEF PolicyInv, ClearInv, PairRec
    <3> QED
      BY <1>3, <1>4, <3>1 DEF InForce
  <2> QED
    BY <1>2, <1>3, <1>4, <2>1 DEF EvalFine, OwnRead, GlobRead
<1>6. /\ pcEval' = [pcEval EXCEPT ![p] = n]
      /\ UNCHANGED <<pcNow, pcEnded, pcRows, pcCache, pcEditor, pcCleared, pcRaced>>
  BY <1>1 DEF ReadGlobal, PolicyInv, FetchInv
<1>7. ClearedIsGone' /\ EntryInv'
  BY <1>6 DEF PolicyInv, ClearInv, ClearedIsGone, EntryInv, InForce, Content
<1> QED
  BY <1>5, <1>6, <1>7, EvalStep, EditKept DEF PolicyInv


LEMMA IdleEvalFine ==
    ASSUME PolicyInv
    PROVE  EvalFine(IdleEval)
BY PolicyRecords DEF EvalFine, PolicyInv, EditInv, OwnRead, GlobRead

LEMMA FetchFailsInv ==
    ASSUME PolicyInv, NEW p \in PEvals, FetchFails(p)
    PROVE  PolicyInv'
<1>1. /\ pcEval' = [pcEval EXCEPT ![p] = IdleEval]
      /\ UNCHANGED <<pcNow, pcEnded, pcRows, pcCache, pcEditor, pcCleared, pcRaced>>
  BY DEF FetchFails
<1>2. ClearedIsGone' /\ EntryInv'
  BY <1>1 DEF PolicyInv, ClearInv, ClearedIsGone, EntryInv, InForce, Content
<1> QED
  BY <1>1, <1>2, IdleEvalFine, EvalStep, EditKept DEF PolicyInv

LEMMA InstallInv ==
    ASSUME PolicyInv, NEW p \in PEvals, Install(p)
    PROVE  PolicyInv'
<1>1. PICK e : e = pcEval[p]
  OBVIOUS
<1>2. PICK n : n = [own |-> e.own, glob |-> e.glob, at |-> e.at]
  OBVIOUS
<1>3. /\ e.pc = "install" /\ pcCache' = [pcCache EXCEPT ![e.srv] = n]
      /\ pcRaced' = (IF e.stale THEN pcRaced \cup {e.srv} ELSE pcRaced \ {e.srv})
      /\ pcEval' = [pcEval EXCEPT ![p] = IdleEval]
      /\ UNCHANGED <<pcNow, pcEnded, pcRows, pcEditor, pcCleared>>
  BY <1>1, <1>2 DEF Install
<1>4. EvalFine(e)
  BY <1>1, EvalsAreFine
<1>5. /\ e.srv \in PServers /\ e.at <= pcNow
      /\ InForce(e.srv, e.own, e.at) /\ InForce(Global, e.glob, e.at)
      /\ ~e.stale => e.own >= pcCleared[e.srv].own /\ e.glob >= pcCleared[e.srv].glob
  BY <1>3, <1>4 DEF EvalFine, OwnRead, GlobRead
<1>6. n \in EntryRec /\ n.own = e.own /\ n.glob = e.glob /\ n.at = e.at
  BY <1>2, <1>4 DEF EvalFine, EvalRec, EntryRec
<1>7. DOMAIN pcCache' = PServers /\ \A s \in PServers : pcCache'[s] = IF s = e.srv THEN n ELSE pcCache[s]
  BY <1>3, <1>5 DEF PolicyInv, EntryInv
<1>8. EntryInv'
  BY <1>3, <1>5, <1>6, <1>7 DEF PolicyInv, EntryInv, InForce, Content
<1>9. ClearedIsGone'
  <2>1. ASSUME NEW s \in PServers \ pcRaced', pcCache'[s] # NoPolicy
        PROVE  pcCache'[s].own >= pcCleared[s].own /\ pcCache'[s].glob >= pcCleared[s].glob
    <3>1. CASE s = e.srv
      <4>1. ~e.stale
        BY <1>3, <2>1, <3>1
      <4> QED
        BY <1>5, <1>6, <1>7, <3>1, <4>1
    <3>2. CASE s # e.srv
      <4>1. s \notin pcRaced /\ pcCache'[s] = pcCache[s]
        BY <1>3, <1>7, <3>2
      <4> QED
        BY <2>1, <4>1 DEF PolicyInv, ClearInv, ClearedIsGone
    <3> QED
      BY <3>1, <3>2
  <2> QED
    BY <1>3, <2>1 DEF ClearedIsGone
<1> QED
  BY <1>3, <1>8, <1>9, IdleEvalFine, EvalStep, EditKept DEF PolicyInv

-----------------------------------------------------------------------------
(* Edits. *)

(* An edit ends the content that is in force, now.                           *)
LEMMA EditedKept ==
    ASSUME PolicyInv, NEW s \in Scopes, pcEnded' = [pcEnded EXCEPT ![s] = Append(@, pcNow)],
           UNCHANGED <<pcNow, pcEval, pcCache, pcCleared, pcRaced>>
    PROVE  pcEnded' \in [Scopes -> Seq(Nat)] /\ FetchInv' /\ EntryInv' /\ ClearInv'
<1>1. pcNow \in Nat /\ pcEnded \in [Scopes -> Seq(Nat)] /\ pcEnded[s] \in Seq(Nat)
  BY DEF PolicyInv, EditInv
<1>2. \A c \in Scopes : pcEnded'[c] = IF c = s THEN Append(pcEnded[s], pcNow) ELSE pcEnded[c]
  BY <1>1
<1>3. /\ Append(pcEnded[s], pcNow) \in Seq(Nat) /\ Len(Append(pcEnded[s], pcNow)) = Len(pcEnded[s]) + 1
      /\ \A i \in 1..Len(pcEnded[s]) : Append(pcEnded[s], pcNow)[i] = pcEnded[s][i]
      /\ Append(pcEnded[s], pcNow)[Len(pcEnded[s]) + 1] = pcNow
  BY <1>1, AppendProperties
<1>4. ASSUME NEW c \in Scopes
      PROVE  /\ Content(c) \in Nat /\ Len(pcEnded'[c]) \in Nat /\ Content(c) <= Len(pcEnded'[c])
             /\ c # s => pcEnded'[c] = pcEnded[c]
             /\ c = s => Len(pcEnded'[c]) = Content(c) + 1 /\ pcEnded'[c][Content(c) + 1] = pcNow
             /\ \A i \in 1..Content(c) : pcEnded'[c][i] = pcEnded[c][i]
  <2>1. Content(c) \in Nat /\ Content(c) = Len(pcEnded[c])
    BY ContentCounts DEF PolicyInv, Content
  <2>2. CASE c = s
    <3>1. pcEnded'[c] = Append(pcEnded[c], pcNow)
      BY <1>2, <2>2
    <3>2. Len(pcEnded'[c]) = Content(c) + 1
      BY <1>3, <2>1, <2>2, <3>1
    <3>3. pcEnded'[c][Content(c) + 1] = pcNow /\ \A i \in 1..Content(c) : pcEnded'[c][i] = pcEnded[c][i]
      BY <1>3, <2>1, <2>2, <3>1
    <3> QED
      BY <2>1, <2>2, <3>2, <3>3
  <2>3. CASE c # s
    <3>1. pcEnded'[c] = pcEnded[c]
      BY <1>2, <2>3
    <3> QED
      BY <2>1, <2>3, <3>1
  <2> QED
    BY <2>2, <2>3
<1>5. ASSUME NEW c \in Scopes, NEW k \in Nat, NEW t \in Nat, t <= pcNow, InForce(c, k, t)
      PROVE  k <= Len(pcEnded'[c]) /\ (k < Len(pcEnded'[c]) => t <= pcEnded'[c][k + 1])
  <2>1. k <= Content(c) /\ (k < Content(c) => t <= pcEnded[c][k + 1])
    BY <1>5 DEF InForce
  <2>2. CASE k < Content(c)
    <3>1. k + 1 \in 1..Content(c)
      BY <1>4, <2>2
    <3>2. t <= pcEnded'[c][k + 1]
      BY <1>4, <2>1, <2>2, <3>1
    <3> QED
      BY <1>4, <2>1, <3>2
  <2>3. CASE k = Content(c)
    <3>1. CASE c = s
      BY <1>4, <1>5, <2>3, <3>1
    <3>2. CASE c # s
      <4>1. Len(pcEnded'[c]) = Content(c)
        BY <1>4, <3>2 DEF Content
      <4> QED
        BY <1>4, <2>3, <4>1
    <3> QED
      BY <3>1, <3>2
  <2> QED
    BY <1>4, <2>1, <2>2, <2>3
<1>6. FetchInv'
  <2>1. ASSUME NEW p \in PEvals
        PROVE  /\ OwnRead(pcEval[p]) => InForce(pcEval[p].srv, pcEval[p].own, pcEval[p].at)'
               /\ GlobRead(pcEval[p]) => InForce(Global, pcEval[p].glob, pcEval[p].at)'
    <3>1. PICK e : e = pcEval[p]
      OBVIOUS
    <3>2. EvalFine(e) /\ e.own \in Nat /\ e.glob \in Nat /\ e.at \in Nat
      BY <3>1, EvalsAreFine DEF EvalFine, EvalRec
    <3>3. ASSUME OwnRead(e) PROVE e.srv \in Scopes
      BY <3>2, <3>3, ScopeFacts DEF EvalFine, OwnRead
    <3>4. OwnRead(e) => e.own <= Len(pcEnded'[e.srv]) /\ (e.own < Len(pcEnded'[e.srv]) => e.at <= pcEnded'[e.srv][e.own + 1])
      BY <1>5, <3>2, <3>3 DEF EvalFine
    <3>5. GlobRead(e) => e.glob <= Len(pcEnded'[Global]) /\ (e.glob < Len(pcEnded'[Global]) => e.at <= pcEnded'[Global][e.glob + 1])
      BY <1>5, <3>2, ScopeFacts DEF EvalFine
    <3> QED
      BY <3>1, <3>4, <3>5 DEF InForce, Content
  <2> QED
    BY <2>1 DEF PolicyInv, FetchInv, OwnRead, GlobRead
<1>7. EntryInv'
  <2>1. ASSUME NEW c \in PServers, pcCache[c] # NoPolicy
        PROVE  InForce(c, pcCache[c].own, pcCache[c].at)' /\ InForce(Global, pcCache[c].glob, pcCache[c].at)'
    <3>1. PICK e : e = pcCache[c]
      OBVIOUS
    <3>2. /\ e.own \in Nat /\ e.glob \in Nat /\ e.at \in Nat /\ e.at <= pcNow
          /\ InForce(c, e.own, e.at) /\ InForce(Global, e.glob, e.at)
      BY <2>1, <3>1 DEF PolicyInv, EntryInv, EntryRec
    <3>3. /\ e.own <= Len(pcEnded'[c]) /\ (e.own < Len(pcEnded'[c]) => e.at <= pcEnded'[c][e.own + 1])
          /\ e.glob <= Len(pcEnded'[Global]) /\ (e.glob < Len(pcEnded'[Global]) => e.at <= pcEnded'[Global][e.glob + 1])
      BY <1>5, <3>2, ScopeFacts
    <3> QED
      BY <3>1, <3>3 DEF InForce, Content
  <2> QED
    BY <2>1 DEF PolicyInv, EntryInv
<1>8. ClearInv'
  <2>1. \A c \in PServers : pcCleared[c].own <= Len(pcEnded'[c]) /\ pcCleared[c].glob <= Len(pcEnded'[Global])
    <3> TAKE c \in PServers
    <3>1. /\ pcCleared[c].own \in Nat /\ pcCleared[c].glob \in Nat
          /\ pcCleared[c].own <= Content(c) /\ pcCleared[c].glob <= Content(Global)
      BY DEF PolicyInv, ClearInv, PairRec
    <3>2. /\ Content(c) \in Nat /\ Len(pcEnded'[c]) \in Nat /\ Content(c) <= Len(pcEnded'[c])
          /\ Content(Global) \in Nat /\ Len(pcEnded'[Global]) \in Nat /\ Content(Global) <= Len(pcEnded'[Global])
      BY <1>4, ScopeFacts
    <3> QED
      BY <3>1, <3>2
  <2> QED
    BY <2>1 DEF PolicyInv, ClearInv, ClearedIsGone, OwnRead, GlobRead, Content
<1>9. pcEnded' \in [Scopes -> Seq(Nat)]
  BY <1>1, <1>3
<1> QED
  BY <1>6, <1>7, <1>8, <1>9


(* The latest version of a scope is a number.                                *)
LEMMA LatestIsNat ==
    ASSUME EditInv, NEW s \in Scopes
    PROVE  LatestVersion(s) \in Nat
<1>1. PICK n \in Nat : \A i \in DOMAIN pcRows[s] : pcRows[s][i] < n
  BY DEF EditInv
<1>2. pcRows[s] \in Seq(Nat)
  BY DEF EditInv
<1>3. \A i \in DOMAIN pcRows[s] : pcRows[s][i] \in Nat
  BY <1>2, ElementOfSeq
<1>4. PICK S : S = Range(pcRows[s]) \cup {0}
  OBVIOUS
<1>5. S \in SUBSET Nat /\ S # {} /\ \A x \in S : x < n + 1
  BY <1>1, <1>3, <1>4 DEF Range
<1>6. n + 1 \in Nat
  BY <1>1
<1>7. Max(S) \in S
  BY <1>5, <1>6, MaxBelow
<1> QED
  BY <1>4, <1>5, <1>7 DEF LatestVersion

(* The rows of a scope after an edit.                                        *)
LEMMA RowsKept ==
    ASSUME PolicyInv, NEW s \in Scopes, NEW rows \in Seq(Nat), Edited(s, rows),
           \E n \in Nat : \A i \in DOMAIN rows : rows[i] < n,
           \A i, j \in DOMAIN rows : rows[i] = rows[j] => i = j \/ rows[i] = 0,
           DOMAIN pcRows[s] \subseteq DOMAIN rows,
           NEW a \in PEditors, NEW e \in EditorRec, e.pc = "clear", e.scope \in Scopes,
           pcEditor' = [pcEditor EXCEPT ![a] = e],
           UNCHANGED <<pcNow, pcEval, pcCache, pcCleared, pcRaced>>
    PROVE  PolicyInv'
<1>1. /\ pcEnded' = [pcEnded EXCEPT ![s] = Append(@, pcNow)]
      /\ pcRows' = [pcRows EXCEPT ![s] = rows]
  BY DEF Edited
<1>2. pcEnded' \in [Scopes -> Seq(Nat)] /\ FetchInv' /\ EntryInv' /\ ClearInv'
  BY <1>1, EditedKept
<1>3. pcRows' \in [Scopes -> Seq(Nat)] /\ \A c \in Scopes : pcRows'[c] = IF c = s THEN rows ELSE pcRows[c]
  BY <1>1 DEF PolicyInv, EditInv
<1>4. \A c \in Scopes : \E n \in Nat : \A i \in DOMAIN pcRows'[c] : pcRows'[c][i] < n
  BY <1>3 DEF PolicyInv, EditInv
<1>5. VersionsDiffer'
  <2>1. ASSUME NEW c \in Scopes
        PROVE  \A i, j \in DOMAIN pcRows'[c] : pcRows'[c][i] = pcRows'[c][j] => i = j \/ pcRows'[c][i] = 0
    <3>1. CASE c = s
      <4>1. pcRows'[c] = rows
        BY <1>3, <3>1
      <4> QED
        BY <4>1
    <3>2. CASE c # s
      <4>1. pcRows'[c] = pcRows[c]
        BY <1>3, <3>2
      <4> QED
        BY <4>1 DEF PolicyInv, EditInv, VersionsDiffer
    <3> QED
      BY <3>1, <3>2
  <2> QED
    BY <2>1 DEF VersionsDiffer
<1>6. pcEditor' \in [PEditors -> EditorRec] /\ \A b \in PEditors : pcEditor'[b] = IF b = a THEN e ELSE pcEditor[b]
  BY DEF PolicyInv, EditInv
<1>7. ASSUME NEW b \in PEditors
      PROVE  /\ pcEditor'[b].pc # "idle" => pcEditor'[b].scope \in Scopes
             /\ pcEditor'[b].pc = "update" => pcEditor'[b].row \in DOMAIN pcRows'[pcEditor'[b].scope]
  BY <1>3, <1>6 DEF PolicyInv, EditInv
<1>8. EditInv'
  BY <1>2, <1>3, <1>4, <1>5, <1>6, <1>7 DEF PolicyInv, EditInv
<1> QED
  BY <1>2, <1>8 DEF PolicyInv

(* An editor who changes no row.                                             *)
LEMMA EditorStep ==
    ASSUME PolicyInv, NEW a \in PEditors, NEW e \in EditorRec, e.pc # "idle" => e.scope \in Scopes,
           e.pc = "update" => e.row \in DOMAIN pcRows[e.scope],
           pcEditor' = [pcEditor EXCEPT ![a] = e],
           UNCHANGED <<pcNow, pcEnded, pcRows>>
    PROVE  EditInv'
<1>1. pcEditor' \in [PEditors -> EditorRec] /\ \A b \in PEditors : pcEditor'[b] = IF b = a THEN e ELSE pcEditor[b]
  BY DEF PolicyInv, EditInv
<1> QED
  BY <1>1 DEF PolicyInv, EditInv, VersionsDiffer

LEMMA EditBeginsInv ==
    ASSUME PolicyInv, NEW a \in PEditors, NEW s \in Scopes, NEW row \in Nat, EditBegins(a, s, row)
    PROVE  PolicyInv'
<1>1. PICK e : e = [pc |-> IF row > Len(pcRows[s]) THEN "create" ELSE "update",
                    scope |-> s, row |-> row, attempt |-> 1, latest |-> LatestVersion(s)]
  OBVIOUS
<1>2. LatestVersion(s) \in Nat
  BY LatestIsNat DEF PolicyInv
<1>3. pcRows[s] \in Seq(Nat)
  BY DEF PolicyInv, EditInv
<1>4. Len(pcRows[s]) \in Nat /\ DOMAIN pcRows[s] = 1..Len(pcRows[s])
  BY <1>3, LenProperties
<1>5. /\ e \in EditorRec /\ e.scope = s /\ e.row = row
      /\ e.pc = IF row > Len(pcRows[s]) THEN "create" ELSE "update"
  BY <1>1, <1>2 DEF EditorRec
<1>6. row \in 1..(Len(pcRows[s]) + 1)
  BY DEF EditBegins
<1>7. e.pc = "update" => e.row \in DOMAIN pcRows[e.scope]
  BY <1>4, <1>5, <1>6
<1>8. /\ pcEditor' = [pcEditor EXCEPT ![a] = e]
      /\ UNCHANGED <<pcNow, pcEnded, pcRows, pcCache, pcEval, pcCleared, pcRaced>>
  BY <1>1 DEF EditBegins
<1>9. EditInv'
  BY <1>5, <1>7, <1>8, EditorStep
<1> QED
  BY <1>8, <1>9, FetchedKept DEF PolicyInv

LEMMA ChangeSetInv ==
    ASSUME PolicyInv, NEW a \in PEditors, NEW s \in Scopes, NEW row \in Nat, NEW d \in BOOLEAN, ChangeSet(a, s, row, d)
    PROVE  PolicyInv'
<1>1. PICK rows : rows = IF d THEN [pcRows[s] EXCEPT ![row] = 0] ELSE pcRows[s]
  OBVIOUS
<1>2. PICK e : e = [IdleEditor EXCEPT !.pc = "clear", !.scope = s]
  OBVIOUS
<1>3. e \in EditorRec /\ e.pc = "clear" /\ e.scope = s
  BY <1>2 DEF IdleEditor, EditorRec
<1>4. /\ Edited(s, rows) /\ row \in DOMAIN pcRows[s] /\ pcEditor' = [pcEditor EXCEPT ![a] = e]
      /\ UNCHANGED <<pcNow, pcCache, pcEval, pcCleared, pcRaced>>
  BY <1>1, <1>2 DEF ChangeSet
<1>5. PICK n \in Nat : \A i \in DOMAIN pcRows[s] : pcRows[s][i] < n
  BY DEF PolicyInv, EditInv
<1>6. pcRows[s] \in Seq(Nat) /\ \A i, j \in DOMAIN pcRows[s] : pcRows[s][i] = pcRows[s][j] => i = j \/ pcRows[s][i] = 0
  BY DEF PolicyInv, EditInv, VersionsDiffer
<1>7. /\ rows \in Seq(Nat) /\ DOMAIN rows = DOMAIN pcRows[s]
      /\ \A i \in DOMAIN rows : rows[i] = pcRows[s][i] \/ rows[i] = 0
  BY <1>1, <1>4, <1>6, ExceptSeq
<1>8. \A i \in DOMAIN rows : rows[i] < n + 1
  <2> TAKE i \in DOMAIN rows
  <2>1. pcRows[s][i] \in Nat /\ pcRows[s][i] < n
    BY <1>5, <1>6, <1>7, ElementOfSeq
  <2>2. CASE rows[i] = 0
    BY <1>5, <2>2
  <2>3. CASE rows[i] = pcRows[s][i]
    BY <1>5, <2>1, <2>3
  <2> QED
    BY <1>7, <2>2, <2>3
<1>9. n + 1 \in Nat
  BY <1>5
<1>10. \A i, j \in DOMAIN rows : rows[i] = rows[j] => i = j \/ rows[i] = 0
  BY <1>6, <1>7
<1> QED
  BY <1>3, <1>4, <1>7, <1>8, <1>9, <1>10, RowsKept


(* The unique index: a version is written only if no row has it.             *)
LEMMA WriteSetInv ==
    ASSUME PolicyInv, NEW a \in PEditors, WriteSet(a)
    PROVE  PolicyInv'
<1>1. PICK e : e = pcEditor[a]
  OBVIOUS
<1>2. /\ e \in EditorRec /\ e.pc \in {"create", "update"} /\ e.scope \in Scopes
      /\ e.pc = "update" => e.row \in DOMAIN pcRows[e.scope]
      /\ UNCHANGED <<pcNow, pcCache, pcEval, pcCleared, pcRaced>>
  BY <1>1 DEF WriteSet, PolicyInv, EditInv
<1> DEFINE gone == e.pc = "update" /\ pcRows[e.scope][e.row] = 0
           taken == e.latest + 1 \in Range(pcRows[e.scope])
<1>3. e.latest \in Nat /\ e.attempt \in Nat /\ pcRows[e.scope] \in Seq(Nat) /\ LatestVersion(e.scope) \in Nat
  BY <1>2, LatestIsNat DEF EditorRec, PolicyInv, EditInv
<1>4. CASE gone \/ taken
  <2>1. PICK f : f = IF ~gone /\ e.attempt < EditAttempts
                     THEN [e EXCEPT !.attempt = @ + 1, !.latest = LatestVersion(e.scope)] ELSE IdleEditor
    OBVIOUS
  <2>2. pcEditor' = [pcEditor EXCEPT ![a] = f] /\ UNCHANGED <<pcEnded, pcRows>>
    BY <1>1, <1>4, <2>1 DEF WriteSet
  <2>3. e.attempt + 1 \in Nat
    BY <1>3
  <2>4. f \in EditorRec /\ (f.pc = "idle" \/ (f.pc = e.pc /\ f.scope = e.scope /\ f.row = e.row))
    <3>1. CASE f = IdleEditor
      BY <3>1, PolicyRecords
    <3>2. CASE f = [e EXCEPT !.attempt = @ + 1, !.latest = LatestVersion(e.scope)]
      BY <1>2, <1>3, <2>3, <3>2 DEF EditorRec
    <3> QED
      BY <2>1, <3>1, <3>2
  <2>5. EditInv'
    BY <1>2, <2>2, <2>4, EditorStep
  <2> QED
    BY <1>2, <2>2, <2>5, FetchedKept DEF PolicyInv
<1>5. CASE ~(gone \/ taken)
  <2>1. PICK v \in Nat : v = e.latest + 1
    BY <1>3
  <2>2. PICK rows : rows = WithVersion(e, v)
    OBVIOUS
  <2>3. PICK f : f = [e EXCEPT !.pc = "clear"]
    OBVIOUS
  <2>4. f \in EditorRec /\ f.pc = "clear" /\ f.scope = e.scope
    BY <1>2, <2>3 DEF EditorRec
  <2>5. Edited(e.scope, rows) /\ pcEditor' = [pcEditor EXCEPT ![a] = f]
    BY <1>1, <1>5, <2>1, <2>2, <2>3 DEF WriteSet, PolicyInv, EditInv
  <2>6. PICK old \in Seq(Nat) : old = pcRows[e.scope]
    BY <1>3
  <2>7. /\ DOMAIN old = 1..Len(old) /\ Len(old) \in Nat
        /\ \A i \in DOMAIN old : old[i] \in Nat /\ old[i] # v
        /\ \A i, j \in DOMAIN old : old[i] = old[j] => i = j \/ old[i] = 0
    <3>1. DOMAIN old = 1..Len(old) /\ Len(old) \in Nat
      BY <2>6, LenProperties
    <3>2. \A i \in DOMAIN old : old[i] \in Nat
      BY <2>6, <3>1, ElementOfSeq
    <3>3. \A i \in DOMAIN old : old[i] # v
      BY <1>5, <2>1, <2>6 DEF Range
    <3>4. \A i, j \in DOMAIN old : old[i] = old[j] => i = j \/ old[i] = 0
      BY <1>2, <2>6 DEF PolicyInv, EditInv, VersionsDiffer
    <3> QED
      BY <3>1, <3>2, <3>3, <3>4
  <2>8. /\ rows \in Seq(Nat) /\ DOMAIN rows = 1..Len(rows) /\ Len(rows) \in Nat /\ Len(old) <= Len(rows)
        /\ \E k \in DOMAIN rows : /\ rows[k] = v
                                  /\ \A i \in DOMAIN rows \ {k} : i \in DOMAIN old /\ rows[i] = old[i]
    <3>1. CASE e.pc = "create"
      <4>1. rows = Append(old, v)
        BY <2>2, <2>6, <3>1 DEF WithVersion
      <4>2. /\ rows \in Seq(Nat) /\ Len(rows) = Len(old) + 1 /\ rows[Len(old) + 1] = v
            /\ \A i \in 1..Len(old) : rows[i] = old[i]
        BY <2>1, <2>6, <4>1, AppendProperties
      <4>3. DOMAIN rows = 1..(Len(old) + 1)
        BY <2>7, <4>2, LenProperties
      <4>4. Len(old) + 1 \in DOMAIN rows /\ \A i \in DOMAIN rows \ {Len(old) + 1} : i \in 1..Len(old)
        BY <2>7, <4>3
      <4> QED
        BY <2>7, <4>2, <4>3, <4>4
    <3>2. CASE e.pc # "create"
      <4>1. rows = [old EXCEPT ![e.row] = v] /\ e.row \in 1..Len(old)
        BY <1>2, <2>2, <2>6, <2>7, <3>2 DEF WithVersion
      <4>2. /\ rows \in Seq(Nat) /\ Len(rows) = Len(old)
            /\ \A i \in 1..Len(old) : rows[i] = IF i = e.row THEN v ELSE old[i]
        BY <2>1, <2>6, <4>1, ExceptSeq
      <4>3. DOMAIN rows = 1..Len(old)
        BY <4>2, LenProperties
      <4> QED
        BY <2>7, <4>1, <4>2, <4>3
    <3> QED
      BY <3>1, <3>2
  <2>9. PICK k \in DOMAIN rows : rows[k] = v /\ \A i \in DOMAIN rows \ {k} : i \in DOMAIN old /\ rows[i] = old[i]
    BY <2>8
  <2>10. \E n \in Nat : \A i \in DOMAIN rows : rows[i] < n
    <3>1. PICK n \in Nat : \A i \in DOMAIN old : old[i] < n
      BY <1>2, <2>6 DEF PolicyInv, EditInv
    <3>2. n + v + 1 \in Nat /\ v < n + v + 1
      BY <2>1, <3>1
    <3>3. \A i \in DOMAIN old : old[i] < n + v + 1
      BY <2>1, <2>7, <3>1
    <3>4. \A i \in DOMAIN rows : rows[i] < n + v + 1
      BY <2>9, <3>2, <3>3
    <3> QED
      BY <3>2, <3>4
  <2>11. \A i, j \in DOMAIN rows : rows[i] = rows[j] => i = j \/ rows[i] = 0
    BY <2>7, <2>9
  <2>12. DOMAIN pcRows[e.scope] \subseteq DOMAIN rows
    BY <2>6, <2>7, <2>8
  <2> QED
    BY <1>2, <2>4, <2>5, <2>8, <2>10, <2>11, <2>12, RowsKept
<1> QED
  BY <1>4, <1>5

(* A clear overtakes the fetches under way, which are marked.                *)
LEMMA ClearCacheInv ==
    ASSUME PolicyInv, NEW a \in PEditors, ClearCache(a)
    PROVE  PolicyInv'
<1>1. PICK c : c = pcEditor[a].scope
  OBVIOUS
<1> DEFINE hit == {s \in PServers : c = Global \/ s = c}
           Over(q) == [pcEval[q] EXCEPT !.stale = @ \/ (pcEval[q].pc # "idle" /\ (c = Global \/ pcEval[q].srv = c))]
<1>2. /\ pcCache' = [s \in PServers |-> IF s \in KeysOf(c) THEN NoPolicy ELSE pcCache[s]]
      /\ pcCleared' = [s \in PServers |-> IF c = Global \/ s = c
                          THEN [own |-> Content(s), glob |-> Content(Global)] ELSE pcCleared[s]]
      /\ pcEval' = [q \in PEvals |-> Over(q)]
      /\ pcEditor' = [pcEditor EXCEPT ![a] = IdleEditor]
      /\ UNCHANGED <<pcNow, pcEnded, pcRows, pcRaced>>
  BY <1>1 DEF ClearCache
<1>3. EditInv'
  BY <1>2, PolicyRecords, EditorStep
<1>4. ASSUME NEW q \in PEvals
      PROVE  /\ pcEval'[q] \in EvalRec /\ pcEval'[q].pc = pcEval[q].pc /\ pcEval'[q].srv = pcEval[q].srv
             /\ pcEval'[q].at = pcEval[q].at /\ pcEval'[q].own = pcEval[q].own /\ pcEval'[q].glob = pcEval[q].glob
             /\ ~pcEval'[q].stale => ~pcEval[q].stale /\ (pcEval[q].pc # "idle" => pcEval[q].srv \notin hit)
  <2>1. pcEval[q] \in EvalRec /\ (pcEval[q].pc # "idle" => pcEval[q].srv \in PServers)
    BY DEF PolicyInv, FetchInv
  <2>2. PICK b \in BOOLEAN : b <=> pcEval[q].stale \/ (pcEval[q].pc # "idle" /\ (c = Global \/ pcEval[q].srv = c))
    OBVIOUS
  <2>3. pcEval[q].stale \in BOOLEAN
    BY <2>1 DEF EvalRec
  <2>4. (pcEval[q].stale \/ (pcEval[q].pc # "idle" /\ (c = Global \/ pcEval[q].srv = c))) = b
    BY <2>2, <2>3
  <2>5. pcEval'[q] = [pcEval[q] EXCEPT !.stale = b]
    BY <1>2, <2>4
  <2>6. /\ pcEval'[q] \in EvalRec /\ pcEval'[q].pc = pcEval[q].pc /\ pcEval'[q].srv = pcEval[q].srv
        /\ pcEval'[q].at = pcEval[q].at /\ pcEval'[q].own = pcEval[q].own /\ pcEval'[q].glob = pcEval[q].glob
        /\ pcEval'[q].stale = b
    BY <2>1, <2>5 DEF EvalRec
  <2> QED
    BY <2>1, <2>2, <2>3, <2>6
<1>5. FetchInv'
  <2>1. pcEval' \in [PEvals -> EvalRec]
    BY <1>2, <1>4
  <2> QED
    BY <1>2, <1>4, <2>1 DEF PolicyInv, FetchInv, InForce, Content, OwnRead, GlobRead
<1>6. \A s \in PServers : pcCache'[s] # NoPolicy => pcCache'[s] = pcCache[s] /\ s \notin hit
  BY <1>2 DEF KeysOf
<1>7. EntryInv'
  BY <1>2, <1>6 DEF PolicyInv, EntryInv, InForce, Content
<1>8. ASSUME NEW s \in PServers
      PROVE  /\ pcCleared'[s] \in PairRec
             /\ s \in hit => pcCleared'[s].own = Content(s) /\ pcCleared'[s].glob = Content(Global)
             /\ s \notin hit => pcCleared'[s] = pcCleared[s]
  <2>1. Content(s) \in Nat /\ Content(Global) \in Nat
    BY ContentCounts, ScopeFacts DEF PolicyInv
  <2>2. CASE s \in hit
    <3>1. pcCleared'[s] = [own |-> Content(s), glob |-> Content(Global)]
      BY <1>2, <2>2
    <3> QED
      BY <2>1, <2>2, <3>1 DEF PairRec
  <2>3. CASE s \notin hit
    <3>1. pcCleared'[s] = pcCleared[s]
      BY <1>2, <2>3
    <3> QED
      BY <2>3, <3>1 DEF PolicyInv, ClearInv
  <2> QED
    BY <2>2, <2>3
<1> HIDE DEF hit
<1>9. ClearInv'
  <2>1. pcCleared' \in [PServers -> PairRec]
    BY <1>2, <1>8
  <2>2. \A s \in PServers : pcCleared'[s].own <= Content(s) /\ pcCleared'[s].glob <= Content(Global)
    <3> TAKE s \in PServers
    <3>1. Content(s) \in Nat /\ Content(Global) \in Nat
      BY ContentCounts, ScopeFacts DEF PolicyInv
    <3> QED
      BY <1>8, <3>1 DEF PolicyInv, ClearInv
  <2>3. ASSUME NEW q \in PEvals, ~pcEval'[q].stale, pcEval'[q].pc # "idle"
        PROVE  /\ OwnRead(pcEval'[q]) => pcEval'[q].own >= pcCleared'[pcEval'[q].srv].own
               /\ GlobRead(pcEval'[q]) => pcEval'[q].glob >= pcCleared'[pcEval'[q].srv].glob
    <3>1. pcEval[q].srv \in PServers /\ ~pcEval[q].stale /\ pcEval[q].srv \notin hit /\ pcEval[q].pc # "idle"
      BY <1>4, <2>3 DEF PolicyInv, FetchInv
    <3>2. pcCleared'[pcEval[q].srv] = pcCleared[pcEval[q].srv]
      BY <1>8, <3>1
    <3> QED
      BY <1>4, <3>1, <3>2 DEF PolicyInv, ClearInv, OwnRead, GlobRead
  <2>4. ClearedIsGone'
    BY <1>2, <1>6, <1>8 DEF PolicyInv, ClearInv, ClearedIsGone
  <2> QED
    BY <1>2, <2>1, <2>2, <2>3, <2>4 DEF ClearInv, Content, OwnRead, GlobRead
<1> QED
  BY <1>3, <1>5, <1>7, <1>9 DEF PolicyInv

(* No step breaks it. *)
LEMMA PolicyStepInv == PolicyInv /\ [PolicyNext]_policyVars => PolicyInv'
<1> SUFFICES ASSUME PolicyInv, [PolicyNext]_policyVars PROVE PolicyInv'
  OBVIOUS
<1>1. CASE UNCHANGED policyVars
  BY <1>1, EditKept, FetchedKept DEF policyVars, PolicyInv
<1>2. CASE Tick
  BY <1>2, TickInv
<1>3. ASSUME NEW p \in PEvals, NEW s \in PServers, EvaluateFetch(p, s) PROVE PolicyInv'
  BY <1>3, EvaluateFetchInv
<1>4. ASSUME NEW p \in PEvals, ReadOwn(p) \/ ReadGlobal(p) \/ Install(p) \/ FetchFails(p) PROVE PolicyInv'
  BY <1>4, ReadOwnInv, ReadGlobalInv, InstallInv, FetchFailsInv
<1>5. ASSUME NEW a \in PEditors, NEW s \in Scopes, NEW row \in 1..(MaxEdits + 1), EditBegins(a, s, row)
      PROVE  PolicyInv'
  <2>1. row \in Nat
    BY PolicyAssumption
  <2> QED
    BY <1>5, <2>1, EditBeginsInv
<1>6. ASSUME NEW a \in PEditors, NEW s \in Scopes, NEW row \in 1..(MaxEdits + 1), NEW d \in BOOLEAN,
             ChangeSet(a, s, row, d)
      PROVE  PolicyInv'
  <2>1. row \in Nat
    BY PolicyAssumption
  <2> QED
    BY <1>6, <2>1, ChangeSetInv
<1>7. ASSUME NEW a \in PEditors, WriteSet(a) \/ ClearCache(a) PROVE PolicyInv'
  BY <1>7, WriteSetInv, ClearCacheInv
<1> QED
  BY <1>1, <1>2, <1>3, <1>4, <1>5, <1>6, <1>7 DEF PolicyNext

(* An entry younger than the TTL holds contents that ended since it was read.*)
LEMMA PolicyInvServes == PolicyInv => VersionsDiffer /\ HitsAreRecent /\ ClearedIsGone
<1> SUFFICES ASSUME PolicyInv PROVE VersionsDiffer /\ HitsAreRecent /\ ClearedIsGone
  OBVIOUS
<1>1. ASSUME NEW s \in PServers, Usable(s), NEW c \in Scopes, NEW k \in Nat, InForce(c, k, pcCache[s].at), k < Content(c)
      PROVE  pcNow - pcEnded[c][k + 1] < PolicyTtl
  <2>1. pcCache[s].at \in Nat /\ pcNow - pcCache[s].at < PolicyTtl /\ pcNow \in Nat /\ PolicyTtl \in Nat
    BY <1>1, PolicyAssumption DEF Usable, PolicyInv, EntryInv, EntryRec, EditInv
  <2>2. pcCache[s].at <= pcEnded[c][k + 1]
    BY <1>1 DEF InForce
  <2>3. pcEnded[c][k + 1] \in Nat
    <3>1. pcEnded[c] \in Seq(Nat) /\ Content(c) \in Nat /\ Content(c) = Len(pcEnded[c])
      BY ContentCounts DEF PolicyInv, Content
    <3>2. k + 1 \in 1..Len(pcEnded[c])
      BY <1>1, <3>1
    <3> QED
      BY <3>1, <3>2, ElementOfSeq
  <2> QED
    BY <2>1, <2>2, <2>3
<1>2. ASSUME NEW s \in PServers, Usable(s)
      PROVE  /\ s \in Scopes /\ pcCache[s].own \in Nat /\ InForce(s, pcCache[s].own, pcCache[s].at)
             /\ Global \in Scopes /\ pcCache[s].glob \in Nat /\ InForce(Global, pcCache[s].glob, pcCache[s].at)
  BY <1>2, ScopeFacts DEF Usable, PolicyInv, EntryInv, EntryRec
<1>3. HitsAreRecent
  <2> SUFFICES ASSUME NEW s \in PServers, Usable(s),
                      NEW k \in {<<s, pcCache[s].own>>, <<Global, pcCache[s].glob>>}, k[2] < Content(k[1])
               PROVE  pcNow - pcEnded[k[1]][k[2] + 1] < PolicyTtl
    BY DEF HitsAreRecent
  <2>1. k[1] \in Scopes /\ k[2] \in Nat /\ InForce(k[1], k[2], pcCache[s].at)
    BY <1>2
  <2> QED
    BY <1>1, <2>1
<1> QED
  BY <1>3 DEF PolicyInv, EditInv, ClearInv

-----------------------------------------------------------------------------
(* The bounds of the policy cache. *)

BoundsInv ==
    /\ pcNow <= MaxTime
    /\ pcEdits \in 0..MaxEdits /\ \A s \in Scopes : Content(s) <= pcEdits
    /\ \A a \in PEditors : pcEditor[a].attempt <= EditAttempts
    /\ pcRaced \subseteq PServers
    /\ pcSets \in Seq(Seq(Rules))

LEMMA BoundsInitInv == PolicyInit => BoundsInv
<1> SUFFICES ASSUME PolicyInit PROVE BoundsInv
  OBVIOUS
<1>1. /\ pcNow = 0 /\ pcEdits = 0 /\ pcEnded = [s \in Scopes |-> <<>>]
      /\ pcEditor = [a \in PEditors |-> IdleEditor] /\ pcRaced = {} /\ pcSets \in Seq(Seq(Rules))
  BY DEF PolicyInit
<1>2. \A s \in Scopes : Content(s) = 0
  BY <1>1 DEF Content
<1>3. IdleEditor.attempt = 0
  BY DEF IdleEditor
<1> QED
  BY <1>1, <1>2, <1>3, PolicyAssumption DEF BoundsInv

(* An edit is counted, and is one of one scope.                              *)
LEMMA EditIsCounted ==
    ASSUME PolicyInv, BoundsInv, pcEdits < MaxEdits, NEW s \in Scopes, NEW rows, Edited(s, rows)
    PROVE  pcEdits' \in 0..MaxEdits /\ \A c \in Scopes : Content(c)' <= pcEdits'
<1>1. pcEdits' = pcEdits + 1 /\ pcEnded' = [pcEnded EXCEPT ![s] = Append(@, pcNow)]
  BY DEF Edited
<1>2. pcEdits' \in 0..MaxEdits /\ pcEdits \in Nat
  BY <1>1, PolicyAssumption DEF BoundsInv
<1>3. ASSUME NEW c \in Scopes PROVE Len(pcEnded'[c]) <= pcEdits'
  <2>1. pcNow \in Nat /\ pcEnded \in [Scopes -> Seq(Nat)] /\ pcEnded[c] \in Seq(Nat)
    BY DEF PolicyInv, EditInv
  <2>2. Len(pcEnded[c]) \in Nat /\ Len(pcEnded[c]) <= pcEdits
    BY <2>1, LenProperties DEF BoundsInv, Content
  <2>3. CASE c = s
    <3>1. pcEnded'[c] = Append(pcEnded[c], pcNow)
      BY <1>1, <2>1, <2>3
    <3>2. Len(pcEnded'[c]) = Len(pcEnded[c]) + 1
      BY <2>1, <3>1, AppendProperties
    <3> QED
      BY <1>1, <1>2, <2>2, <3>2
  <2>4. CASE c # s
    <3>1. pcEnded'[c] = pcEnded[c]
      BY <1>1, <2>1, <2>4
    <3> QED
      BY <1>1, <1>2, <2>2, <3>1
  <2> QED
    BY <2>3, <2>4
<1> QED
  BY <1>2, <1>3 DEF Content

(* The attempts of an editor whose record is replaced.                       *)
LEMMA AttemptsKept ==
    ASSUME PolicyInv, BoundsInv, NEW a \in PEditors, NEW e, e.attempt <= EditAttempts,
           pcEditor' = [pcEditor EXCEPT ![a] = e]
    PROVE  \A b \in PEditors : pcEditor'[b].attempt <= EditAttempts
<1>1. \A b \in PEditors : pcEditor'[b] = IF b = a THEN e ELSE pcEditor[b]
  BY DEF PolicyInv, EditInv
<1> QED
  BY <1>1 DEF BoundsInv

LEMMA BoundsStepInv == PolicyInv /\ BoundsInv /\ [PolicyNext]_policyVars => BoundsInv'
<1> SUFFICES ASSUME PolicyInv, BoundsInv, [PolicyNext]_policyVars PROVE BoundsInv'
  OBVIOUS
<1>1. IdleEditor.attempt <= EditAttempts /\ EditAttempts \in Nat \ {0} /\ MaxTime \in Nat
  BY PolicyAssumption DEF IdleEditor
<1>2. CASE UNCHANGED policyVars
  BY <1>2 DEF policyVars, BoundsInv, Content
<1>3. CASE Tick
  BY <1>1, <1>3 DEF Tick, BoundsInv, Content, PolicyInv, EditInv
<1>4. ASSUME NEW p \in PEvals, NEW s \in PServers, EvaluateFetch(p, s) PROVE BoundsInv'
  BY <1>4 DEF EvaluateFetch, BoundsInv, Content
<1>5. ASSUME NEW p \in PEvals, ReadOwn(p) \/ ReadGlobal(p) \/ FetchFails(p) PROVE BoundsInv'
  BY <1>5 DEF ReadOwn, ReadGlobal, FetchFails, BoundsInv, Content
<1>6. ASSUME NEW p \in PEvals, Install(p) PROVE BoundsInv'
  <2>1. pcEval[p].srv \in PServers
    BY <1>6 DEF Install, PolicyInv, FetchInv
  <2> QED
    BY <1>6, <2>1 DEF Install, BoundsInv, Content
<1>7. ASSUME NEW a \in PEditors, NEW s \in Scopes, NEW row, EditBegins(a, s, row) PROVE BoundsInv'
  <2>1. PICK e : e = [pc |-> IF row > Len(pcRows[s]) THEN "create" ELSE "update",
                      scope |-> s, row |-> row, attempt |-> 1, latest |-> LatestVersion(s)]
    OBVIOUS
  <2>2. e.attempt <= EditAttempts
    BY <1>1, <2>1
  <2>3. pcEditor' = [pcEditor EXCEPT ![a] = e] /\ UNCHANGED <<pcNow, pcEdits, pcEnded, pcRaced, pcSets>>
    BY <1>7, <2>1 DEF EditBegins
  <2> QED
    BY <2>2, <2>3, AttemptsKept DEF BoundsInv, Content
<1>8. ASSUME NEW a \in PEditors, NEW s \in Scopes, NEW row, NEW d \in BOOLEAN, ChangeSet(a, s, row, d) PROVE BoundsInv'
  <2>1. PICK e : e = [IdleEditor EXCEPT !.pc = "clear", !.scope = s]
    OBVIOUS
  <2>2. e.attempt <= EditAttempts
    BY <1>1, <2>1 DEF IdleEditor
  <2>3. PICK rows : rows = IF d THEN [pcRows[s] EXCEPT ![row] = 0] ELSE pcRows[s]
    OBVIOUS
  <2>4. /\ pcEdits < MaxEdits /\ Edited(s, rows) /\ pcEditor' = [pcEditor EXCEPT ![a] = e]
        /\ UNCHANGED <<pcNow, pcRaced, pcSets>>
    BY <1>8, <2>1, <2>3 DEF ChangeSet
  <2> QED
    BY <2>2, <2>4, AttemptsKept, EditIsCounted DEF BoundsInv
<1>9. ASSUME NEW a \in PEditors, WriteSet(a) PROVE BoundsInv'
  <2>1. PICK e : e = pcEditor[a]
    OBVIOUS
  <2>2. e \in EditorRec /\ e.attempt <= EditAttempts /\ e.attempt \in Nat /\ e.scope \in Scopes
    BY <1>9, <2>1 DEF WriteSet, PolicyInv, EditInv, BoundsInv, EditorRec
  <2>3. /\ pcEdits < MaxEdits /\ UNCHANGED <<pcNow, pcRaced, pcSets>>
        /\ \/ /\ UNCHANGED <<pcEdits, pcEnded>>
              /\ \/ pcEditor' = [pcEditor EXCEPT ![a] = IdleEditor]
                 \/ /\ e.attempt < EditAttempts
                    /\ pcEditor' = [pcEditor EXCEPT ![a] =
                                      [e EXCEPT !.attempt = @ + 1, !.latest = LatestVersion(e.scope)]]
           \/ /\ Edited(e.scope, WithVersion(e, e.latest + 1))
              /\ pcEditor' = [pcEditor EXCEPT ![a].pc = "clear"]
    BY <1>9, <2>1 DEF WriteSet
  <2>4. CASE UNCHANGED <<pcEdits, pcEnded>> /\ pcEditor' = [pcEditor EXCEPT ![a] = IdleEditor]
    BY <1>1, <2>3, <2>4, AttemptsKept DEF BoundsInv, Content
  <2>5. CASE /\ UNCHANGED <<pcEdits, pcEnded>> /\ e.attempt < EditAttempts
             /\ pcEditor' = [pcEditor EXCEPT ![a] = [e EXCEPT !.attempt = @ + 1, !.latest = LatestVersion(e.scope)]]
    <3>1. PICK f : f = [e EXCEPT !.attempt = @ + 1, !.latest = LatestVersion(e.scope)]
      OBVIOUS
    <3>2. f.attempt = e.attempt + 1
      BY <2>2, <3>1 DEF EditorRec
    <3>3. f.attempt <= EditAttempts
      BY <1>1, <2>2, <2>5, <3>2
    <3> QED
      BY <2>3, <2>5, <3>1, <3>3, AttemptsKept DEF BoundsInv, Content
  <2>6. CASE /\ Edited(e.scope, WithVersion(e, e.latest + 1))
             /\ pcEditor' = [pcEditor EXCEPT ![a].pc = "clear"]
    <3>1. PICK f : f = [e EXCEPT !.pc = "clear"]
      OBVIOUS
    <3>2. f.attempt <= EditAttempts
      BY <2>2, <3>1 DEF EditorRec
    <3>3. pcEditor' = [pcEditor EXCEPT ![a] = f]
      BY <2>1, <2>6, <3>1 DEF PolicyInv, EditInv
    <3> QED
      BY <2>2, <2>3, <2>6, <3>2, <3>3, AttemptsKept, EditIsCounted DEF BoundsInv
  <2> QED
    BY <2>3, <2>4, <2>5, <2>6
<1>10. ASSUME NEW a \in PEditors, ClearCache(a) PROVE BoundsInv'
  BY <1>1, <1>10, AttemptsKept DEF ClearCache, BoundsInv, Content
<1> QED
  BY <1>2, <1>3, <1>4, <1>5, <1>6, <1>7, <1>8, <1>9, <1>10 DEF PolicyNext

(* The types follow from both. *)
LEMMA PolicyTyped == PolicyInv /\ BoundsInv => PolicyTypeOK
<1> SUFFICES ASSUME PolicyInv, BoundsInv PROVE PolicyTypeOK
  OBVIOUS
<1>1. pcNow \in 0..MaxTime
  BY PolicyAssumption DEF PolicyInv, EditInv, BoundsInv
<1>2. pcEdits \in 0..MaxEdits /\ \A s \in Scopes : Content(s) \in 0..pcEdits
  BY ContentCounts, PolicyAssumption DEF PolicyInv, BoundsInv
<1>3. \A s \in PServers : pcCache[s] # NoPolicy => pcCache[s].at \in 0..pcNow
  BY DEF PolicyInv, EditInv, EntryInv, EntryRec
<1>4. \A p \in PEvals : pcEval[p].pc \in {"idle", "both", "own", "glob", "install"}
  BY DEF PolicyInv, FetchInv, EvalRec
<1> QED
  BY <1>1, <1>2, <1>3, <1>4 DEF PolicyTypeOK, BoundsInv

-----------------------------------------------------------------------------
(* The order of the rules. *)

(* Rules are ordered by priority and position. *)
LEMMA RanksAreOrdered ==
    ASSUME NEW rules \in Seq(Rules)
    PROVE  /\ \A i, j \in DOMAIN rules : i = j \/ Before(rules, i, j) \/ Before(rules, j, i)
           /\ \A i, j, k \in DOMAIN rules :
                Before(rules, i, j) /\ Before(rules, j, k) => Before(rules, i, k)
<1>1. DOMAIN rules \subseteq Nat
  BY LenProperties
<1>2. \A i \in DOMAIN rules : PriorityOf(rules[i]) \in Int
  <2> TAKE i \in DOMAIN rules
  <2>1. rules[i] \in Rules
    BY LenProperties, ElementOfSeq
  <2>2. PICK x : x = rules[i].prio
    OBVIOUS
  <2>3. x \in Priorities \/ x = NoPolicy
    BY <2>1, <2>2 DEF Rules
  <2>4. PriorityOf(rules[i]) = IF x = NoPolicy THEN 1000 ELSE x
    BY <2>2 DEF PriorityOf
  <2>5. CASE x = NoPolicy
    BY <2>4, <2>5
  <2>6. CASE x \in Priorities
    <3>1. x # NoPolicy /\ x \in Int
      BY <2>6, PriorityAssumption
    <3>2. PriorityOf(rules[i]) = x
      BY <2>4, <3>1
    <3> QED
      BY <3>1, <3>2
  <2> QED
    BY <2>3, <2>5, <2>6
<1>3. \A i \in DOMAIN rules : i \in Int
  BY <1>1
<1> QED
  BY <1>2, <1>3 DEF Before

(* The first m rules can be sorted. *)
Sorts(rules, m, p) ==
    /\ p \in Surjection(1..m, 1..m)
    /\ \A i, j \in 1..m : i < j => Before(rules, p[i], p[j])

(* The next rule has its place among those that are sorted: before the first *)
(* it comes before.                                                          *)
LEMMA NextIsInserted ==
    ASSUME NEW rules \in Seq(Rules), NEW m \in Nat \ {0}, 1..m \subseteq DOMAIN rules,
           NEW p, Sorts(rules, m - 1, p)
    PROVE  \E q : Sorts(rules, m, q)
<1>1. /\ p \in [1..(m - 1) -> 1..(m - 1)]
      /\ \A t \in 1..(m - 1) : \E s \in 1..(m - 1) : p[s] = t
      /\ \A i, j \in 1..(m - 1) : i < j => Before(rules, p[i], p[j])
  BY DEF Sorts, Surjection
<1>2. PICK K : K = {k \in 1..(m - 1) : Before(rules, m, p[k])} \cup {m}
  OBVIOUS
<1>3. PICK k0 \in K : \A k \in K : k0 <= k
  <2>1. K \in SUBSET Nat /\ K # {}
    BY <1>2
  <2> QED
    BY <2>1, MinOfNumbers
<1>4. /\ k0 \in 1..m /\ (k0 < m => Before(rules, m, p[k0]))
      /\ \A i \in 1..(m - 1) : i < k0 => ~Before(rules, m, p[i])
  BY <1>2, <1>3
<1>5. PICK q : q = [i \in 1..m |-> IF i < k0 THEN p[i] ELSE IF i = k0 THEN m ELSE p[i - 1]]
  OBVIOUS
<1>6. /\ \A i \in 1..m : i < k0 => i \in 1..(m - 1) /\ q[i] = p[i]
      /\ q[k0] = m
      /\ \A i \in 1..m : k0 < i => i - 1 \in 1..(m - 1) /\ q[i] = p[i - 1]
  BY <1>4, <1>5
<1>7. \A i \in 1..m : q[i] \in 1..m
  <2> TAKE i \in 1..m
  <2>4. \A k \in 1..(m - 1) : p[k] \in 1..m
    <3> TAKE k \in 1..(m - 1)
    <3>1. p[k] \in 1..(m - 1)
      BY <1>1
    <3> QED
      BY <3>1
  <2>1. CASE i < k0
    BY <1>6, <2>4, <2>1
  <2>2. CASE i = k0
    BY <1>6, <2>2
  <2>3. CASE k0 < i
    BY <1>6, <2>4, <2>3
  <2> QED
    BY <1>4, <2>1, <2>2, <2>3
<1>8. ASSUME NEW t \in 1..m PROVE \E s \in 1..m : q[s] = t
  <2>1. CASE t = m
    BY <1>4, <1>6, <2>1
  <2>2. CASE t # m
    <3>1. PICK s \in 1..(m - 1) : p[s] = t
      BY <1>1, <2>2
    <3>2. CASE s < k0
      BY <1>6, <3>1, <3>2
    <3>3. CASE ~(s < k0)
      <4>1. s + 1 \in 1..m /\ k0 < s + 1 /\ (s + 1) - 1 = s
        BY <1>4, <3>3
      <4> QED
        BY <1>6, <3>1, <4>1
    <3> QED
      BY <3>2, <3>3
  <2> QED
    BY <2>1, <2>2
<1>9. ASSUME NEW i \in 1..m, NEW j \in 1..m, i < j PROVE Before(rules, q[i], q[j])
  <2>1. m \in DOMAIN rules /\ \A k \in 1..(m - 1) : p[k] \in DOMAIN rules /\ p[k] # m
    <3>1. m \in 1..m
      OBVIOUS
    <3>2. ASSUME NEW k \in 1..(m - 1) PROVE p[k] \in 1..m /\ p[k] # m
      <4>1. p[k] \in 1..(m - 1)
        BY <1>1
      <4> QED
        BY <4>1
    <3> QED
      BY <3>1, <3>2
  <2>2. CASE j < k0
    <3>1. i < k0 /\ i \in 1..(m - 1) /\ j \in 1..(m - 1) /\ q[i] = p[i] /\ q[j] = p[j]
      BY <1>4, <1>6, <1>9, <2>2
    <3> QED
      BY <1>1, <1>9, <3>1
  <2>3. CASE j = k0
    <3>1. i \in 1..(m - 1) /\ q[i] = p[i] /\ ~Before(rules, m, p[i]) /\ q[j] = m
      BY <1>4, <1>6, <1>9, <2>3
    <3> QED
      BY <2>1, <3>1, RanksAreOrdered
  <2>4. CASE k0 < j /\ i < k0
    <3>1. i \in 1..(m - 1) /\ j - 1 \in 1..(m - 1) /\ i < j - 1 /\ q[i] = p[i] /\ q[j] = p[j - 1]
      BY <1>4, <1>6, <2>4
    <3> QED
      BY <1>1, <3>1
  <2>5. CASE k0 < j /\ i = k0
    <3>1. /\ j - 1 \in 1..(m - 1) /\ k0 \in 1..(m - 1) /\ k0 <= j - 1 /\ q[i] = m /\ q[j] = p[j - 1]
          /\ Before(rules, m, p[k0])
      BY <1>4, <1>6, <2>5
    <3>2. CASE k0 = j - 1
      BY <3>1, <3>2
    <3>3. CASE k0 < j - 1
      <4>1. Before(rules, p[k0], p[j - 1])
        BY <1>1, <3>1, <3>3
      <4> QED
        BY <2>1, <3>1, <4>1, RanksAreOrdered
    <3> QED
      BY <3>1, <3>2, <3>3
  <2>6. CASE k0 < i
    <3>1. /\ i - 1 \in 1..(m - 1) /\ j - 1 \in 1..(m - 1) /\ i - 1 < j - 1 /\ q[i] = p[i - 1] /\ q[j] = p[j - 1]
      BY <1>4, <1>6, <1>9, <2>6
    <3> QED
      BY <1>1, <3>1
  <2> QED
    BY <1>4, <1>9, <2>2, <2>3, <2>4, <2>5, <2>6
<1>10. q \in [1..m -> 1..m]
  BY <1>5, <1>7
<1> QED
  BY <1>8, <1>9, <1>10 DEF Sorts, Surjection

(* Induction on the number of rules, by its least exception. *)
LEMMA RulesCanBeSorted ==
    ASSUME NEW rules \in Seq(Rules)
    PROVE  \E p : Sorts(rules, Len(rules), p)
<1> DEFINE Bad == {m \in 0..Len(rules) : ~ \E p : Sorts(rules, m, p)}
<1>1. Len(rules) \in Nat /\ DOMAIN rules = 1..Len(rules)
  BY LenProperties
<1>2. Sorts(rules, 0, [i \in 1..0 |-> i])
  BY DEF Sorts, Surjection
<1>3. ASSUME Bad # {} PROVE FALSE
  <2>1. Bad \in SUBSET Nat
    BY <1>1
  <2>2. PICK m \in Bad : \A k \in Bad : m <= k
    BY <1>3, <2>1, MinOfNumbers
  <2>3. m \in Nat \ {0} /\ m - 1 \in 0..Len(rules) /\ 1..m \subseteq DOMAIN rules /\ ~(m <= m - 1)
    BY <1>1, <1>2, <2>2
  <2>4. m - 1 \notin Bad
    BY <2>2, <2>3
  <2>5. PICK p : Sorts(rules, m - 1, p)
    BY <2>3, <2>4
  <2>6. \E q : Sorts(rules, m, q)
    BY <2>3, <2>5, NextIsInserted
  <2> QED
    BY <2>2, <2>6
<1> QED
  BY <1>1, <1>3

(* What sort returns: every rule, in the order of the ranks. *)
LEMMA SortedProperties ==
    ASSUME NEW rules \in Seq(Rules)
    PROVE  \E p \in Surjection(DOMAIN rules, DOMAIN rules) :
             /\ \A m, n \in DOMAIN rules : m < n => Before(rules, p[m], p[n])
             /\ SortedRules(rules) = [n \in DOMAIN rules |-> rules[p[n]]]
<1>1. DOMAIN rules = 1..Len(rules)
  BY LenProperties
<1>2. \E p \in Surjection(DOMAIN rules, DOMAIN rules) :
         \A m, n \in DOMAIN rules : m < n => Before(rules, p[m], p[n])
  BY <1>1, RulesCanBeSorted DEF Sorts
<1> DEFINE order == CHOOSE p \in Surjection(DOMAIN rules, DOMAIN rules) :
                        \A m, n \in DOMAIN rules : m < n => Before(rules, p[m], p[n])
<1>3. /\ order \in Surjection(DOMAIN rules, DOMAIN rules)
      /\ \A m, n \in DOMAIN rules : m < n => Before(rules, order[m], order[n])
  BY <1>2
<1>4. SortedRules(rules) = [n \in DOMAIN rules |-> rules[order[n]]]
  BY DEF SortedRules
<1> HIDE DEF order
<1> QED
  BY <1>3, <1>4

(* The first rule that matches in the sorted order is the one of the highest *)
(* rank.                                                                     *)
LEMMA FirstHitProperties ==
    ASSUME NEW rules \in Seq(Rules)
    PROVE  /\ FirstHit(rules) # 0 <=> \E i \in DOMAIN rules : rules[i].hit
           /\ FirstHit(rules) # 0 =>
                \E i \in DOMAIN rules :
                    /\ rules[i].hit /\ SortedRules(rules)[FirstHit(rules)] = rules[i]
                    /\ \A j \in DOMAIN rules : rules[j].hit => i = j \/ Before(rules, i, j)
<1>1. PICK p \in Surjection(DOMAIN rules, DOMAIN rules) :
             /\ \A m, n \in DOMAIN rules : m < n => Before(rules, p[m], p[n])
             /\ SortedRules(rules) = [n \in DOMAIN rules |-> rules[p[n]]]
  BY SortedProperties
<1>2. PICK s : s = SortedRules(rules)
  OBVIOUS
<1>3. Len(rules) \in Nat /\ DOMAIN rules = 1..Len(rules)
  BY LenProperties
<1>4. p \in [DOMAIN rules -> DOMAIN rules] /\ \A t \in DOMAIN rules : \E n \in DOMAIN rules : p[n] = t
  BY <1>1 DEF Surjection
<1>5. \A n \in DOMAIN rules : s[n] = rules[p[n]] /\ rules[p[n]] \in Rules
  BY <1>1, <1>2, <1>3, <1>4, ElementOfSeq
<1>6. Len(s) = Len(rules)
  <2>1. s = [n \in 1..Len(rules) |-> rules[p[n]]]
    BY <1>1, <1>2, <1>3
  <2> QED
    BY <1>3, <2>1
<1>7. PICK I : I = {n \in DOMAIN rules : s[n].hit}
  OBVIOUS
<1>8. FirstHit(rules) = IF I # {} THEN Min(I) ELSE 0
  BY <1>2, <1>3, <1>6, <1>7 DEF FirstHit, SelectInSeq
<1>9. I \in SUBSET Nat /\ 0 \notin I
  BY <1>3, <1>7
<1>10. I # {} <=> \E i \in DOMAIN rules : rules[i].hit
  <2>1. ASSUME NEW n \in I PROVE \E i \in DOMAIN rules : rules[i].hit
    BY <1>4, <1>5, <1>7
  <2>2. ASSUME NEW i \in DOMAIN rules, rules[i].hit PROVE I # {}
    <3>1. PICK n \in DOMAIN rules : p[n] = i
      BY <1>4
    <3>2. s[n].hit
      BY <1>5, <2>2, <3>1
    <3> QED
      BY <1>7, <3>2
  <2> QED
    BY <2>1, <2>2
<1>11. I # {} => Min(I) \in I /\ \A y \in I : Min(I) <= y
  BY <1>9, MinOfNumbers
<1>12. FirstHit(rules) # 0 <=> I # {}
  BY <1>8, <1>9, <1>11
<1>13. ASSUME I # {}
       PROVE  \E i \in DOMAIN rules :
                    /\ rules[i].hit /\ s[FirstHit(rules)] = rules[i]
                    /\ \A j \in DOMAIN rules : rules[j].hit => i = j \/ Before(rules, i, j)
  <2>1. PICK h \in I : h = FirstHit(rules) /\ \A y \in I : h <= y
    BY <1>8, <1>11, <1>13
  <2>2. h \in DOMAIN rules /\ p[h] \in DOMAIN rules /\ rules[p[h]].hit /\ s[h] = rules[p[h]]
    BY <1>4, <1>5, <1>7, <2>1
  <2>3. ASSUME NEW j \in DOMAIN rules, rules[j].hit PROVE p[h] = j \/ Before(rules, p[h], j)
    <3>1. PICK n \in DOMAIN rules : p[n] = j
      BY <1>4
    <3>2. n \in I
      BY <1>5, <1>7, <2>3, <3>1
    <3>3. h <= n /\ h \in Nat /\ n \in Nat
      BY <1>9, <2>1, <3>2
    <3>4. CASE h = n
      BY <3>1, <3>4
    <3>5. CASE h < n
      BY <1>1, <2>2, <3>1, <3>5
    <3> QED
      BY <3>3, <3>4, <3>5
  <2> QED
    BY <2>1, <2>2, <2>3
<1> QED
  BY <1>2, <1>10, <1>12, <1>13

(* The i-th rule of the n-th set matches and comes first, in its set by rank.*)
ComesFirst(sets, n, i) ==
    /\ sets[n][i].hit
    /\ \A j \in DOMAIN sets[n] : sets[n][j].hit => i = j \/ Before(sets[n], i, j)
    /\ \A m \in DOMAIN sets : (\E j \in DOMAIN sets[m] : sets[m][j].hit) => n <= m
NoneMatches(sets) == \A n \in DOMAIN sets : \A i \in DOMAIN sets[n] : ~sets[n][i].hit

(* The first set with a rule that matches decides, by its first such rule.   *)
LEMMA FirstSetDecides ==
    ASSUME NEW sets \in Seq(Seq(Rules)), NEW fallback
    PROVE  \/ NoneMatches(sets) /\ EvaluateSets(sets, fallback) = fallback
           \/ \E n \in DOMAIN sets : \E i \in DOMAIN sets[n] :
                ComesFirst(sets, n, i) /\ EvaluateSets(sets, fallback) = MapDecision(sets[n][i].decision)
<1>1. Len(sets) \in Nat /\ DOMAIN sets = 1..Len(sets) /\ \A n \in DOMAIN sets : sets[n] \in Seq(Rules)
  BY LenProperties, ElementOfSeq
<1>2. PICK I : I = {n \in 1..Len(sets) : FirstHit(sets[n]) # 0}
  OBVIOUS
<1>3. PICK n : n = IF I # {} THEN Min(I) ELSE 0
  OBVIOUS
<1>4. EvaluateSets(sets, fallback) =
        IF n = 0 THEN fallback ELSE MapDecision(SortedRules(sets[n])[FirstHit(sets[n])].decision)
  BY <1>2, <1>3 DEF EvaluateSets, SelectInSeq
<1>5. I \in SUBSET Nat /\ 0 \notin I /\ \A m \in DOMAIN sets : m \in I <=> \E j \in DOMAIN sets[m] : sets[m][j].hit
  <2>1. I \in SUBSET Nat /\ 0 \notin I
    BY <1>1, <1>2
  <2>2. ASSUME NEW m \in DOMAIN sets PROVE m \in I <=> \E j \in DOMAIN sets[m] : sets[m][j].hit
    <3>1. m \in I <=> FirstHit(sets[m]) # 0
      BY <1>1, <1>2
    <3>2. sets[m] \in Seq(Rules)
      BY <1>1
    <3> QED
      BY <3>1, <3>2, FirstHitProperties
  <2> QED
    BY <2>1, <2>2
<1>6. CASE I = {}
  BY <1>3, <1>4, <1>5, <1>6 DEF NoneMatches
<1>7. CASE I # {}
  <2>1. n \in I /\ \A m \in I : n <= m
    BY <1>3, <1>5, <1>7, MinOfNumbers
  <2>2. n # 0 /\ n \in DOMAIN sets /\ FirstHit(sets[n]) # 0 /\ sets[n] \in Seq(Rules)
    BY <1>1, <1>2, <1>5, <2>1
  <2>3. PICK i \in DOMAIN sets[n] :
           /\ sets[n][i].hit /\ SortedRules(sets[n])[FirstHit(sets[n])] = sets[n][i]
           /\ \A j \in DOMAIN sets[n] : sets[n][j].hit => i = j \/ Before(sets[n], i, j)
    BY <2>2, FirstHitProperties
  <2>4. EvaluateSets(sets, fallback) = MapDecision(sets[n][i].decision)
    BY <1>4, <2>2, <2>3
  <2>5. \A m \in DOMAIN sets : (\E j \in DOMAIN sets[m] : sets[m][j].hit) => n <= m
    BY <1>5, <2>1
  <2> QED
    BY <2>2, <2>3, <2>4, <2>5 DEF ComesFirst
<1> QED
  BY <1>6, <1>7

(* The rule that decides is the first by set, priority and position.         *)
LEMMA RulesAreRanked ==
    ASSUME pcSets \in Seq(Seq(Rules))
    PROVE  FirstRuleDecides
<1> DEFINE live == {k \in UNION {{n} \X DOMAIN pcSets[n] : n \in DOMAIN pcSets} : pcSets[k[1]][k[2]].hit}
           Rule(k) == pcSets[k[1]][k[2]]
           Prio(k) == IF Rule(k).prio \in Priorities THEN Rule(k).prio ELSE 1000
           Beats(k, m) == \/ k[1] < m[1]
                          \/ k[1] = m[1] /\ Prio(k) < Prio(m)
                          \/ k[1] = m[1] /\ Prio(k) = Prio(m) /\ k[2] <= m[2]
           Right(fallback) ==
               IF live = {} THEN EvaluateSets(pcSets, fallback) = fallback
               ELSE \E k \in live : /\ \A m \in live : Beats(k, m)
                                    /\ EvaluateSets(pcSets, fallback) =
                                         IF Rule(k).decision = "other" THEN "ALLOW" ELSE Rule(k).decision
<1>1. \A n \in DOMAIN pcSets : pcSets[n] \in Seq(Rules) /\ n \in Nat
  BY LenProperties, ElementOfSeq
<1>2. \A n \in DOMAIN pcSets : \A i \in DOMAIN pcSets[n] : pcSets[n][i] \in Rules /\ i \in Nat
  BY <1>1, LenProperties, ElementOfSeq
<1>3. ASSUME NEW n \in DOMAIN pcSets, NEW i \in DOMAIN pcSets[n], pcSets[n][i].hit
      PROVE  <<n, i>> \in live
  BY <1>3
<1>4. ASSUME NEW k \in live
      PROVE  k[1] \in DOMAIN pcSets /\ k[2] \in DOMAIN pcSets[k[1]] /\ Rule(k).hit /\ k = <<k[1], k[2]>>
  BY <1>4
<1>5. ASSUME NEW n \in DOMAIN pcSets, NEW i \in DOMAIN pcSets[n]
      PROVE  Prio(<<n, i>>) = PriorityOf(pcSets[n][i])
  <2>1. PICK x : x = pcSets[n][i].prio
    OBVIOUS
  <2>2. x \in Priorities <=> x # NoPolicy
    BY <1>2, <2>1, PriorityAssumption DEF Rules
  <2> QED
    BY <2>1, <2>2 DEF PriorityOf
<1>6. ASSUME NEW fallback PROVE Right(fallback)
  <2>1. CASE live = {}
    <3>1. EvaluateSets(pcSets, fallback) = fallback
      <4> HIDE DEF live
      <4> QED
        BY <1>3, <2>1, FirstSetDecides DEF ComesFirst
    <3> QED
      BY <2>1, <3>1
  <2>2. CASE live # {}
    <3>1. PICK k \in live : TRUE
      BY <2>2
    <3>5. PICK n \in DOMAIN pcSets : \E i \in DOMAIN pcSets[n] :
                ComesFirst(pcSets, n, i) /\ EvaluateSets(pcSets, fallback) = MapDecision(pcSets[n][i].decision)
      <4>1. k[1] \in DOMAIN pcSets /\ k[2] \in DOMAIN pcSets[k[1]] /\ pcSets[k[1]][k[2]].hit
        BY <1>4
      <4> QED
        BY <4>1, FirstSetDecides DEF NoneMatches
    <3>2. PICK i \in DOMAIN pcSets[n] :
                /\ pcSets[n][i].hit /\ EvaluateSets(pcSets, fallback) = MapDecision(pcSets[n][i].decision)
                /\ \A j \in DOMAIN pcSets[n] : pcSets[n][j].hit => i = j \/ Before(pcSets[n], i, j)
                /\ \A m \in DOMAIN pcSets : (\E j \in DOMAIN pcSets[m] : pcSets[m][j].hit) => n <= m
      BY <3>5 DEF ComesFirst
    <3>3. ASSUME NEW m \in live PROVE Beats(<<n, i>>, m)
      <4>5. PICK a \in DOMAIN pcSets : \E j \in DOMAIN pcSets[a] : m = <<a, j>> /\ pcSets[a][j].hit
        BY <1>4
      <4>1. PICK j \in DOMAIN pcSets[a] : m = <<a, j>> /\ pcSets[a][j].hit
        BY <4>5
      <4>2. n <= a /\ n \in Nat /\ a \in Nat /\ i \in Nat /\ j \in Nat
        BY <1>1, <1>2, <3>2, <4>1
      <4>3. CASE n < a
        BY <4>1, <4>3
      <4>4. CASE n = a
        <5>1. i = j \/ Before(pcSets[n], i, j)
          BY <3>2, <4>1, <4>4
        <5>2. /\ Prio(<<n, i>>) = PriorityOf(pcSets[n][i])
              /\ Prio(m) = PriorityOf(pcSets[n][j])
          BY <1>5, <3>2, <4>1, <4>4
        <5>3. m[1] = n /\ m[2] = j
          BY <4>1, <4>4
        <5> HIDE DEF Prio
        <5> QED
          BY <4>1, <4>2, <4>4, <5>1, <5>2, <5>3 DEF Before
      <4> QED
        BY <4>2, <4>3, <4>4
    <3>4. MapDecision(pcSets[n][i].decision) =
            IF Rule(<<n, i>>).decision = "other" THEN "ALLOW" ELSE Rule(<<n, i>>).decision
      BY <1>2, <3>2 DEF Rules, Decisions, MapDecision
    <3>6. <<n, i>> \in live
      BY <1>3, <3>2
    <3> HIDE DEF live, Rule, Beats
    <3> QED
      BY <2>2, <3>2, <3>3, <3>4, <3>6
  <2> QED
    BY <2>1, <2>2
<1>7. (\A fallback \in {"ALLOW", "REQUIRE_APPROVAL"} : Right(fallback)) => FirstRuleDecides
  BY DEF FirstRuleDecides
<1> HIDE DEF Right
<1> QED
  BY <1>6, <1>7

(* A decision from the cache follows policies that were in force less than   *)
(* the TTL ago; once an edit has cleared the cache nothing is decided by     *)
(* older ones, unless a fetch was under way; no two sets of a scope have the *)
(* same version; and of all rules that match the one decides that is first   *)
(* by set, priority and position (PolicyEngine.ts:72-125, 168-175,           *)
(* PolicyDslEvaluator.ts:32-64, PolicyRepository.ts:85-107): for any number  *)
(* of servers, evaluations, editors, edits and attempts, any TTL, and any    *)
(* number of sets and rules with any priorities.                             *)
THEOREM PoliciesStayFollowed == PolicySpec => []PoliciesFollowed
<1>1. PolicyInv /\ BoundsInv /\ [PolicyNext]_policyVars => PolicyInv' /\ BoundsInv'
  BY PolicyStepInv, BoundsStepInv
<1>2. PolicyInv /\ BoundsInv => PoliciesFollowed
  BY PolicyInvServes, PolicyTyped, RulesAreRanked DEF PoliciesFollowed, BoundsInv
<1> QED
  BY <1>1, <1>2, PolicyInitInv, BoundsInitInv, PTL DEF PolicySpec
=============================================================================
