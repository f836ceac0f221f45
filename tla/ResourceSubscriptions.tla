----------------------- MODULE ResourceSubscriptions -----------------------
(***************************************************************************)
(* The reference-counted resource subscriptions of ServerManager, for one  *)
(* downstream context and one resource: SubscriptionState objects, the     *)
(* sessions that subscribe and unsubscribe (the sessions of legacy clients *)
(* and the streams of modern ones alike), and the connection that is       *)
(* closed, lost and established again under them.                          *)
(*                                                                         *)
(* A request still in flight when its connection closes is rejected by the *)
(* client library before anything else runs, so the model needs no request *)
(* of an earlier connection.                                               *)
(***************************************************************************)
EXTENDS Naturals, FiniteSets

CONSTANTS
    Sessions,
    MaxStates  \* bound: SubscriptionState objects alive together

ASSUME ConstAssumption == MaxStates \in Nat \ {0}

VARIABLES
    objs,   \* the SubscriptionState objects
    cur,    \* the one in resourceSubscriptions, 0 if none
    conn,   \* connection of the context: "down", "restoring" or "up"
    server, \* the downstream server has the subscription
    sub,    \* subscribeResource in progress, per session
    unsub,  \* unsubscribeResource in progress, per session
    acked,  \* history: sessions told that they are subscribed
    seen    \* history: a session has left, a connection was lost

vars == <<objs, cur, conn, server, sub, unsub, acked, seen>>

-----------------------------------------------------------------------------
ObjIds == 1..MaxStates
None == 0

Obj == [subs   : SUBSET Sessions, \* subscribedSessions
        down   : BOOLEAN,         \* downstreamSubscribed
        flight : {"none", "session", "restore"}] \* downstreamSubscription: whose

Sub == [pc    : {"idle", "wait"},
        obj   : ObjIds \cup {None},
        again : BOOLEAN,  \* sessionAlreadySubscribed
        void  : BOOLEAN]  \* history: the session unsubscribed meanwhile

Unsub == [pc  : {"idle", "wait", "go", "sent"},
          obj : ObjIds \cup {None}]

NewObj == [subs |-> {}, down |-> FALSE, flight |-> "none"]
NoSub == [pc |-> "idle", obj |-> None, again |-> FALSE, void |-> FALSE]
NoUnsub == [pc |-> "idle", obj |-> None]

Init ==
    /\ objs = [o \in ObjIds |-> NewObj]
    /\ cur = None
    /\ conn = "up"
    /\ server = FALSE
    /\ sub = [s \in Sessions |-> NoSub]
    /\ unsub = [s \in Sessions |-> NoUnsub]
    /\ acked = {}
    /\ seen = {}

FreeObjs == {o \in ObjIds \ {cur} : objs[o].flight = "none"
             /\ \A s \in Sessions : sub[s].obj # o /\ unsub[s].obj # o}

(* Continuations of a settled promise run before anything else.             *)
Settled == \A s \in Sessions : unsub[s].pc # "go"

-----------------------------------------------------------------------------
(* Mutant: the session waits without a connection, too. *)
JoinedOffline(s, o, again) ==
    [sub EXCEPT ![s] = [pc |-> "wait", obj |-> o, again |-> again, void |-> FALSE]]

(* The session waits for the request in flight, if there can be one. *)
Joined(s, o, again) ==
    IF conn = "down" THEN sub
    ELSE [sub EXCEPT ![s] = [pc |-> "wait", obj |-> o, again |-> again, void |-> FALSE]]

(* subscribeResource up to its await.  The state is the one in the map or a *)
(* new one.  Without a connection the session stays in the set although its *)
(* request fails.                                                           *)
Subscribe(s) ==
    /\ Settled
    /\ sub[s].pc = "idle"
    /\ \E o \in ObjIds :
        /\ IF cur # None THEN o = cur
                         ELSE o \in FreeObjs /\ \A q \in FreeObjs : o <= q
        /\ cur' = o
        /\ LET old == IF cur # None THEN objs[o] ELSE NewObj
               new == [old EXCEPT !.subs = @ \cup {s},
                                  !.flight = IF @ = "none" /\ ~old.down /\ conn # "down"
                                             THEN "session" ELSE @]
           IN /\ objs' = [objs EXCEPT ![o] = new]
              /\ IF old.down
                 THEN acked' = acked \cup {s} /\ UNCHANGED sub
                 ELSE sub' = Joined(s, o, s \in old.subs) /\ UNCHANGED acked
    /\ UNCHANGED <<conn, server, unsub, seen>>

(* Who waits for the request of object o. *)
SubWaiters(o) == {s \in Sessions : sub[s].pc = "wait" /\ sub[s].obj = o}
UnsubWaiters(o) == {s \in Sessions : unsub[s].pc = "wait" /\ unsub[s].obj = o}

(* What the waiting subscribers do once the request of o has settled. *)
Resume(o) ==
    /\ sub' = [s \in Sessions |-> IF s \in SubWaiters(o) THEN NoSub ELSE sub[s]]
    /\ unsub' = [s \in Sessions |-> IF s \in UnsubWaiters(o)
                                    THEN [unsub[s] EXCEPT !.pc = "go"] ELSE unsub[s]]

(* Mutant: sessions that were subscribed before leave the set, too. *)
LeaversAll(o) == SubWaiters(o)

(* After a failure a session that was not subscribed before leaves the set, *)
(* and the last one removes the key from the map.                           *)
Leavers(o) == {s \in SubWaiters(o) : ~sub[s].again}
AfterFailure(o) == objs[o].subs \ Leavers(o)
DropIfEmpty(o) == IF SubWaiters(o) # {} /\ AfterFailure(o) = {} THEN None ELSE cur

SubscribeSucceeds(o) ==
    /\ Settled
    /\ objs[o].flight # "none"
    /\ objs' = [objs EXCEPT ![o].flight = "none", ![o].down = TRUE]
    /\ server' = TRUE
    /\ acked' = acked \cup {s \in SubWaiters(o) : ~sub[s].void}
    /\ Resume(o)
    /\ UNCHANGED <<cur, conn, seen>>

(* If the request was that of restoreResourceSubscriptions the connection   *)
(* is given up with it.                                                     *)
SubscribeFails(o) ==
    /\ Settled
    /\ objs[o].flight # "none"
    /\ objs' = [objs EXCEPT ![o].flight = "none", ![o].subs = AfterFailure(o)]
    /\ cur' = DropIfEmpty(o)
    /\ conn' = IF objs[o].flight = "restore" THEN "down" ELSE conn
    /\ server' = IF objs[o].flight = "restore" THEN FALSE ELSE server
    /\ Resume(o)
    /\ UNCHANGED <<acked, seen>>

-----------------------------------------------------------------------------
(* unsubscribeResource, and cleanupSessionSubscriptions for this resource.  *)

(* Mutant: the key is removed only after a downstream request. *)
UnsubscribedKeepsKey(s, o) ==
    IF objs[o].down /\ conn # "down"
    THEN /\ unsub' = [unsub EXCEPT ![s] = [pc |-> "sent", obj |-> o]]
         /\ \E ok \in BOOLEAN : server' = IF ok THEN FALSE ELSE server
         /\ UNCHANGED cur
    ELSE /\ unsub' = [unsub EXCEPT ![s] = NoUnsub]
         /\ UNCHANGED <<cur, server>>

(* The end of unsubscribeResourceState, for a state without subscribers:    *)
(* the downstream request, then the key is removed.                         *)
Unsubscribed(s, o) ==
    IF objs[o].down /\ conn # "down"
    THEN /\ unsub' = [unsub EXCEPT ![s] = [pc |-> "sent", obj |-> o]]
         /\ \E ok \in BOOLEAN : server' = IF ok THEN FALSE ELSE server
         /\ UNCHANGED cur
    ELSE /\ unsub' = [unsub EXCEPT ![s] = NoUnsub]
         /\ cur' = None
         /\ UNCHANGED server

Unsubscribe(s) ==
    /\ Settled
    /\ cur # None /\ unsub[s].pc = "idle"
    /\ LET left == objs[cur].subs \ {s} IN
       /\ objs' = [objs EXCEPT ![cur].subs = left]
       /\ IF left # {}
          THEN UNCHANGED <<cur, server, unsub>>
          ELSE IF objs[cur].flight # "none"
               THEN /\ unsub' = [unsub EXCEPT ![s] = [pc |-> "wait", obj |-> cur]]
                    /\ UNCHANGED <<cur, server>>
               ELSE Unsubscribed(s, cur)
    /\ acked' = acked \ {s}
    /\ sub' = [sub EXCEPT ![s].void = sub[s].pc # "idle"]
    /\ seen' = seen \cup {"left"}
    /\ UNCHANGED conn

(* The request it waited for has settled. *)
UnsubscribeGoes(s) ==
    /\ unsub[s].pc = "go"
    /\ IF objs[unsub[s].obj].subs = {}
       THEN Unsubscribed(s, unsub[s].obj)
       ELSE /\ unsub' = [unsub EXCEPT ![s] = NoUnsub]
            /\ UNCHANGED <<cur, server>>
    /\ UNCHANGED <<objs, conn, sub, acked, seen>>

(* The downstream answered (an error is logged): the key is removed.        *)
UnsubscribeAnswered(s) ==
    /\ Settled
    /\ unsub[s].pc = "sent"
    /\ unsub' = [unsub EXCEPT ![s] = NoUnsub]
    /\ cur' = None
    /\ UNCHANGED <<objs, conn, server, sub, acked, seen>>

-----------------------------------------------------------------------------
(* The connection ends: requests in flight fail, and so do the waits on     *)
(* them.  disconnectServerContext (reset) then clears what the states in    *)
(* the map say of the old connection; the transport's close event does not. *)
ConnectionEnds(reset) ==
    LET hit == {o \in ObjIds : objs[o].flight # "none"}
        emptied == \E o \in hit : DropIfEmpty(o) = None /\ cur # None
        sent == {s \in Sessions : unsub[s].pc = "sent"}
    IN /\ conn' = "down"
       /\ server' = FALSE
       /\ objs' = [o \in ObjIds |->
             [subs   |-> IF o \in hit THEN AfterFailure(o) ELSE objs[o].subs,
              down   |-> objs[o].down /\ ~(reset /\ o = cur),
              flight |-> "none"]]
       /\ cur' = IF emptied \/ sent # {} THEN None ELSE cur
       /\ sub' = [s \in Sessions |-> IF sub[s].obj \in hit THEN NoSub ELSE sub[s]]
       /\ unsub' = [s \in Sessions |->
             IF s \in sent THEN NoUnsub
             ELSE IF unsub[s].pc = "wait" THEN [unsub[s] EXCEPT !.pc = "go"]
             ELSE unsub[s]]
       /\ UNCHANGED acked

(* Mutant: a planned close resets nothing either. *)
CloseNoReset == Settled /\ conn # "down" /\ ConnectionEnds(FALSE) /\ UNCHANGED seen

Close == Settled /\ conn # "down" /\ ConnectionEnds(TRUE) /\ UNCHANGED seen
Lose == /\ Settled /\ conn # "down"
        /\ ConnectionEnds(FALSE)
        /\ seen' = seen \cup {"lost"}

(* Mutant: the new connection gets a status nobody knows. *)
ConnectUnknown ==
    /\ Settled
    /\ conn = "down"
    /\ conn' = "connected"
    /\ UNCHANGED <<objs, cur, server, sub, unsub, acked, seen>>

(* The server is connected again, for any reason. *)
Connect ==
    /\ Settled
    /\ conn = "down"
    /\ conn' = "restoring"
    /\ UNCHANGED <<objs, cur, server, sub, unsub, acked, seen>>

(* Mutant: only what was subscribed downstream is asked for again. *)
MissingIfFlagged == cur # None /\ objs[cur].subs # {} /\ objs[cur].down
                    /\ objs[cur].flight = "none"

(* restoreResourceSubscriptions asks again for what has subscribers and is  *)
(* neither subscribed nor being subscribed.                                 *)
Missing == cur # None /\ objs[cur].subs # {} /\ ~objs[cur].down
           /\ objs[cur].flight = "none"

Restore ==
    /\ Settled
    /\ conn = "restoring"
    /\ Missing
    /\ objs' = [objs EXCEPT ![cur].flight = "restore"]
    /\ UNCHANGED <<cur, conn, server, sub, unsub, acked, seen>>

Restored ==
    /\ Settled
    /\ conn = "restoring"
    /\ ~Missing
    /\ \A o \in ObjIds : objs[o].flight # "restore"
    /\ conn' = "up"
    /\ UNCHANGED <<objs, cur, server, sub, unsub, acked, seen>>

Next ==
    \/ \E s \in Sessions : \/ Subscribe(s) \/ Unsubscribe(s)
                           \/ UnsubscribeGoes(s) \/ UnsubscribeAnswered(s)
    \/ \E o \in ObjIds : SubscribeSucceeds(o) \/ SubscribeFails(o)
    \/ Close \/ Lose \/ Connect \/ Restore \/ Restored

Spec == Init /\ [][Next]_vars

(* Requests are answered and the server is reconnected (lazily, by the next *)
(* request that needs it).                                                  *)
Fairness ==
    /\ \A s \in Sessions : WF_vars(UnsubscribeGoes(s)) /\ WF_vars(UnsubscribeAnswered(s))
    /\ \A o \in ObjIds : SF_vars(SubscribeSucceeds(o) \/ SubscribeFails(o))
    /\ WF_vars(Connect) /\ WF_vars(Restore) /\ WF_vars(Restored)

LiveSpec == Spec /\ Fairness

-----------------------------------------------------------------------------
(* Properties.                                                             *)

TypeOK ==
    /\ objs \in [ObjIds -> Obj]
    /\ cur \in ObjIds \cup {None}
    /\ conn \in {"down", "restoring", "up"}
    /\ server \in BOOLEAN
    /\ sub \in [Sessions -> Sub]
    /\ unsub \in [Sessions -> Unsub]
    /\ acked \subseteq Sessions
    /\ seen \subseteq {"left", "lost"}

Idle == \A s \in Sessions : sub[s].pc = "idle" /\ unsub[s].pc = "idle"

(* "subscribedSessions: Session IDs subscribed to this resource": a session *)
(* that was told it is subscribed, and did not unsubscribe, is in the set   *)
(* that updates are fanned out to.                                          *)
AckedIsSubscribed == \A s \in acked : cur # None /\ s \in objs[cur].subs

(* Failed requests, and connections that come and go, take no session out   *)
(* of that set which was told that it is subscribed.                        *)
FailuresKeepSubscribers == "left" \notin seen => AckedIsSubscribed

(* "downstreamSubscribed: Whether already subscribed to downstream": the    *)
(* flag is never left set by an earlier connection, which would stop the    *)
(* subscription from being sent on this one.                                *)
FlagIsTrue == conn = "up" /\ cur # None /\ objs[cur].down => server \/ ~Idle

(* It is so as long as connections end by disconnectServerContext, however  *)
(* that interleaves with subscribing, unsubscribing and restoring.          *)
PlannedCloseResetsFlag == "lost" \notin seen => FlagIsTrue

(* A connection is not called restored before the sessions that were        *)
(* subscribed on the one before are served by it, or their resource is just *)
(* being subscribed.                                                        *)
RestoreCovers ==
    [][seen = {} /\ conn = "restoring" /\ conn' = "up" /\ acked # {} =>
          server \/ (cur # None /\ objs[cur].flight # "none")]_vars

(* Nothing is kept for a resource nobody waits for: when all is quiet, a    *)
(* state in the map has a subscriber.                                       *)
NoEmptyState == Idle /\ cur # None => objs[cur].subs # {} \/ objs[cur].flight # "none"

(* A session that subscribes is answered. *)
SubscribersAnswered == \A s \in Sessions : sub[s].pc = "wait" ~> sub[s].pc = "idle"

(* The state of a resource is well formed, its flag is of this connection   *)
(* and it is kept for somebody.                                             *)
StatesSound == TypeOK /\ PlannedCloseResetsFlag /\ NoEmptyState
=============================================================================
