------------------------------ MODULE Sessions ------------------------------
(***************************************************************************)
(* SessionStore: client sessions are created when an initialize request is *)
(* authenticated, and removed one by one (DELETE, closed transport,        *)
(* sweeper), per user (disabled user, invalid OAuth token, expiry) or all  *)
(* at once.  Creation and removal await several things in between, and the *)
(* store is keyed by the session id, which a client that terminated its    *)
(* session may use again for a short time.                                 *)
(*                                                                         *)
(* sessions and proxySessions change together and are one map here, as are *)
(* eventStores and sessionLoggers.  A session object has an identity of    *)
(* its own, so that two sessions with one id can be told apart.  Which     *)
(* sessions the sweeper finds inactive or expired is left open.            *)
(***************************************************************************)
EXTENDS Integers, FiniteSets

CONSTANTS
    Users,          \* user ids
    Creds,          \* tokens (or anonymous identities)
    NoCred,         \* no tombstone
    Owner,          \* the user of a token
    Tasks,          \* requests, sweeps and admin operations in flight
    MaxSids,        \* session ids that are generated
    MaxObjs,        \* session objects that are created
    Ops             \* the operations that occur besides the client's own

ASSUME OwnerAssumption == Owner \in [Creds -> Users] /\ NoCred \notin Creds
ASSUME BoundsAssumption == MaxSids \in Nat \ {0} /\ MaxObjs \in Nat \ {0}
ASSUME OpsAssumption == Ops \subseteq {"sweep", "bulk", "clear", "disable", "fail"}

VARIABLES
    store,      \* sessions and proxySessions: the object of a session id, or 0
    events,     \* eventStores and sessionLoggers, likewise
    index,      \* userSessions
    tombs,      \* terminatedSessions
    objs,       \* the session objects
    disabled,   \* users whose status in the database is Disabled
    temps,      \* users whose temporary servers run
    tasks

vars == <<store, events, index, tombs, objs, disabled, temps, tasks>>

Sids == 1..MaxSids
Objs == 1..MaxObjs
NoSid == 0
NoObj == 0

(* "new" is being created, "live" stored, "ready" initialized by the        *)
(* client.  trig: closeTriggered of the ProxySession.  raced (history): it  *)
(* was stored while all sessions of its user were being removed.            *)
Obj == [sid : Sids \cup {NoSid}, cred : Creds \cup {NoCred},
        st : {"free", "new", "live", "ready", "closed"},
        trig : BOOLEAN, raced : BOOLEAN]
NewObj(s, c, st) == [sid |-> s, cred |-> c, st |-> st, trig |-> FALSE, raced |-> FALSE]
FreeObj == NewObj(NoSid, NoCred, "free")

Task == [pc : {"idle", "admit", "create", "cleanup", "temp", "close",
               "bulk", "each", "clear", "sweep"},
         sid : Sids \cup {NoSid}, cred : Creds \cup {NoCred}, obj : Objs \cup {NoObj},
         users : SUBSET Users, work : SUBSET Objs, closing : SUBSET Objs,
         todo : SUBSET Sids]
IdleTask == [pc |-> "idle", sid |-> NoSid, cred |-> NoCred, obj |-> NoObj,
             users |-> {}, work |-> {}, closing |-> {}, todo |-> {}]

UserOf(o) == Owner[objs[o].cred]
Stored == {store[s] : s \in Sids} \ {NoObj}
Used == {objs[o].sid : o \in Objs}
FreeObjs == {o \in Objs : objs[o].st = "free"}

Init ==
    /\ store = [s \in Sids |-> NoObj]
    /\ events = [s \in Sids |-> NoObj]
    /\ index = [u \in Users |-> {}]
    /\ tombs = [s \in Sids |-> NoCred]
    /\ objs = [o \in Objs |-> FreeObj]
    /\ disabled = {}
    /\ temps = {}
    /\ tasks = [t \in Tasks |-> IdleTask]

-----------------------------------------------------------------------------
(* authenticate and createSession.                                         *)

(* Every admitted request finds an object. *)
Bounded == Cardinality({t \in Tasks : tasks[t].pc = "admit"}) < Cardinality(FreeObjs)

(* An initialize request with a token and perhaps the id of an earlier     *)
(* session: no session of that id is stored and the token is valid.        *)
Validate(t, s, c) ==
    /\ tasks[t].pc = "idle"
    /\ s # NoSid => store[s] = NoObj
    /\ Owner[c] \notin disabled
    /\ Bounded
    /\ tasks' = [tasks EXCEPT ![t] = [IdleTask EXCEPT !.pc = "admit",
                                                      !.sid = s, !.cred = c]]
    /\ UNCHANGED <<store, events, index, tombs, objs, disabled, temps>>

(* generateSessionId: ids are never generated twice. *)
FreshSid(s) == s \notin Used /\ \A r \in Sids \ Used : s <= r

(* Mutant: any tombstone of the id will do. *)
MatchesAny(s, c) == s # NoSid /\ tombs[s] # NoCred

(* consumeTerminatedSession: user, kind and fingerprint of the token match. *)
Matches(s, c) == s # NoSid /\ tombs[s] = c

(* Mutant: the tombstone stays until it expires. *)
ConsumedKeeps(s, c) == tombs

Consumed(s, c) == IF Matches(s, c) THEN [tombs EXCEPT ![s] = NoCred] ELSE tombs

(* The id is settled, and createSession runs up to its first await.         *)
Admit(t) ==
    /\ tasks[t].pc = "admit"
    /\ LET c == tasks[t].cred IN
       \E s \in Sids :
          /\ IF Matches(tasks[t].sid, c) THEN s = tasks[t].sid ELSE FreshSid(s)
          /\ tombs' = Consumed(tasks[t].sid, c)
          /\ \/ /\ store[s] # NoObj
                /\ tasks' = [tasks EXCEPT ![t] = IdleTask]
                /\ UNCHANGED <<objs, events>>
             \/ /\ store[s] = NoObj
                /\ \E o \in FreeObjs :
                     /\ \A q \in FreeObjs : o <= q
                     /\ objs' = [objs EXCEPT ![o] = NewObj(s, c, "new")]
                     /\ events' = [events EXCEPT ![s] = o]
                     /\ tasks' = [tasks EXCEPT ![t] = [IdleTask EXCEPT
                                     !.pc = "create", !.obj = o]]
    /\ UNCHANGED <<store, index, disabled, temps>>

(* The bound MaxSids: there is no id left for the request.                  *)
SidsUsedUp(t) ==
    /\ tasks[t].pc = "admit"
    /\ ~Matches(tasks[t].sid, tasks[t].cred) /\ Sids \subseteq Used
    /\ tasks' = [tasks EXCEPT ![t] = IdleTask]
    /\ UNCHANGED <<store, events, index, tombs, objs, disabled, temps>>

(* removeAllUserSessions has listed the sessions of u and waits for them.   *)
BulkOf(u) == \E t \in Tasks : tasks[t].pc = "each" /\ u \in tasks[t].users

(* The rest of createSession, after the log entry and the profile. *)
Create(t) ==
    /\ tasks[t].pc = "create"
    /\ LET o == tasks[t].obj IN
          /\ store' = [store EXCEPT ![objs[o].sid] = o]
          /\ index' = [index EXCEPT ![UserOf(o)] = @ \cup {objs[o].sid}]
          /\ objs' = [objs EXCEPT ![o].st = "live", ![o].raced = BulkOf(UserOf(o))]
    /\ tasks' = [tasks EXCEPT ![t] = IdleTask]
    /\ UNCHANGED <<events, tombs, disabled, temps>>

(* The profile cannot be read: the session never comes to exist.           *)
CreateFails(t) ==
    /\ "fail" \in Ops
    /\ tasks[t].pc = "create"
    /\ objs' = [objs EXCEPT ![tasks[t].obj].st = "closed"]
    /\ tasks' = [tasks EXCEPT ![t] = IdleTask]
    /\ UNCHANGED <<store, events, index, tombs, disabled, temps>>

(* oninitialized: the user's temporary servers are started, if need be. *)
Initialized(o) ==
    /\ objs[o].st = "live" /\ ~objs[o].trig
    /\ store[objs[o].sid] = o
    /\ objs' = [objs EXCEPT ![o].st = "ready"]
    /\ temps' = temps \cup {UserOf(o)}
    /\ UNCHANGED <<store, events, index, tombs, disabled, tasks>>

-----------------------------------------------------------------------------
(* removeSingleSession.                                                    *)

(* The session stored under the id is cleaned up first.                    *)
StartRemoval(t, s) ==
    /\ tasks' = [tasks EXCEPT ![t].pc = "cleanup", ![t].sid = s,
                              ![t].obj = store[s], ![t].todo = @ \ {s}]
    /\ objs' = [objs EXCEPT ![store[s]].trig = TRUE]

(* Mutant: the tombstone holds the session id instead of the identity. *)
TerminateRecordsId(t, o) ==
    /\ tasks[t].pc = "idle"
    /\ objs[o].st \in {"live", "ready"} /\ ~objs[o].trig
    /\ store[objs[o].sid] = o
    /\ StartRemoval(t, objs[o].sid)
    /\ tombs' = [tombs EXCEPT ![objs[o].sid] = objs[o].sid]
    /\ UNCHANGED <<store, events, index, disabled, temps>>

(* DELETE of the client: a tombstone keeps the id for a reconnect. *)
Terminate(t, o) ==
    /\ tasks[t].pc = "idle"
    /\ objs[o].st \in {"live", "ready"} /\ ~objs[o].trig
    /\ store[objs[o].sid] = o
    /\ StartRemoval(t, objs[o].sid)
    /\ tombs' = [tombs EXCEPT ![objs[o].sid] = objs[o].cred]
    /\ UNCHANGED <<store, events, index, disabled, temps>>

(* The transport of a session closes by itself. *)
TransportCloses(t, o) ==
    /\ tasks[t].pc = "idle"
    /\ objs[o].st \in {"live", "ready"} /\ ~objs[o].trig
    /\ IF store[objs[o].sid] # NoObj
       THEN /\ tasks' = [tasks EXCEPT ![t].pc = "cleanup", ![t].sid = objs[o].sid,
                                      ![t].obj = store[objs[o].sid]]
            /\ objs' = [objs EXCEPT ![o].trig = TRUE,
                                    ![store[objs[o].sid]].trig = TRUE]
       ELSE /\ objs' = [objs EXCEPT ![o].trig = TRUE]
            /\ UNCHANGED tasks
    /\ UNCHANGED <<store, events, index, tombs, disabled, temps>>

(* What a task does when it has removed what it wanted to remove. *)
Rest(t) == [tasks EXCEPT ![t] = [IdleTask EXCEPT
    !.pc = IF tasks[t].todo = {} THEN "idle" ELSE "sweep", !.todo = tasks[t].todo]]

(* Mutant: the id stays in the user's set. *)
RemoveKeepsIndex(t) ==
    /\ tasks[t].pc = "cleanup"
    /\ store' = [store EXCEPT ![tasks[t].sid] = NoObj]
    /\ events' = [events EXCEPT ![tasks[t].sid] = NoObj]
    /\ tasks' = [tasks EXCEPT ![t].pc = "close"]
    /\ UNCHANGED <<index, tombs, objs, disabled, temps>>

(* Mutant: the user's set is dropped with the first session. *)
RemoveDropsUser(t) ==
    /\ tasks[t].pc = "cleanup"
    /\ store' = [store EXCEPT ![tasks[t].sid] = NoObj]
    /\ events' = [events EXCEPT ![tasks[t].sid] = NoObj]
    /\ index' = [index EXCEPT ![UserOf(tasks[t].obj)] = {}]
    /\ tasks' = [tasks EXCEPT ![t].pc = "close"]
    /\ UNCHANGED <<tombs, objs, disabled, temps>>

(* Mutant: the event store stays. *)
RemoveKeepsEvents(t) ==
    /\ tasks[t].pc = "cleanup"
    /\ LET s == tasks[t].sid  u == UserOf(tasks[t].obj) IN
          /\ store' = [store EXCEPT ![s] = NoObj]
          /\ index' = [index EXCEPT ![u] = @ \ {s}]
          /\ tasks' = [tasks EXCEPT ![t].pc = "close"]
    /\ UNCHANGED <<events, tombs, objs, disabled, temps>>

(* The clean-up is over: whatever has the id leaves the maps.  If it was    *)
(* the user's last session the temporary servers there are now are closed  *)
(* next.                                                                   *)
Remove(t) ==
    /\ tasks[t].pc = "cleanup"
    /\ LET s == tasks[t].sid
           u == UserOf(tasks[t].obj)
           last == index[u] # {} /\ index[u] \ {s} = {}
       IN /\ store' = [store EXCEPT ![s] = NoObj]
          /\ events' = [events EXCEPT ![s] = NoObj]
          /\ index' = [index EXCEPT ![u] = @ \ {s}]
          /\ tasks' = [tasks EXCEPT ![t].pc = IF last THEN "temp" ELSE "close",
                                    ![t].users = {u} \cap temps]
    /\ UNCHANGED <<tombs, objs, disabled, temps>>

(* closeUserTemporaryServers. *)
CloseTemps(t) ==
    /\ tasks[t].pc = "temp"
    /\ temps' = temps \ tasks[t].users
    /\ tasks' = IF tasks[t].obj = NoObj THEN Rest(t)
                ELSE [tasks EXCEPT ![t].pc = "close"]
    /\ UNCHANGED <<store, events, index, tombs, objs, disabled>>

(* ClientSession.close. *)
Close(t) ==
    /\ tasks[t].pc = "close"
    /\ objs' = [objs EXCEPT ![tasks[t].obj].st = "closed"]
    /\ tasks' = Rest(t)
    /\ UNCHANGED <<store, events, index, tombs, disabled, temps>>

-----------------------------------------------------------------------------
(* removeAllUserSessions, removeAllSessions and the sweeper.               *)

(* disableUser writes the status first. *)
Disable(t, u) ==
    /\ "disable" \in Ops
    /\ tasks[t].pc = "idle"
    /\ disabled' = disabled \cup {u}
    /\ tasks' = [tasks EXCEPT ![t].pc = "bulk", ![t].users = {u}]
    /\ UNCHANGED <<store, events, index, tombs, objs, temps>>

(* The OAuth token of a stored session is not valid any more, or its user   *)
(* expired.                                                                *)
Reject(t, o) ==
    /\ "bulk" \in Ops
    /\ tasks[t].pc = "idle"
    /\ o \in Stored
    /\ tasks' = [tasks EXCEPT ![t].pc = "bulk", ![t].users = {UserOf(o)}]
    /\ UNCHANGED <<store, events, index, tombs, objs, disabled, temps>>

Triggered(S) == [o \in Objs |-> IF o \in S THEN [objs[o] EXCEPT !.trig = TRUE]
                                           ELSE objs[o]]

(* All sessions of the user are cleaned up at once. *)
Bulk(t) ==
    /\ tasks[t].pc = "bulk"
    /\ LET ids == UNION {index[u] : u \in tasks[t].users}
           work == {store[s] : s \in ids} \ {NoObj}
       IN IF ids = {}
          THEN tasks' = Rest(t) /\ UNCHANGED objs
          ELSE /\ tasks' = [tasks EXCEPT ![t].pc = "each", ![t].work = work]
               /\ objs' = Triggered(work)
    /\ UNCHANGED <<store, events, index, tombs, disabled, temps>>

(* One of them is cleaned up: its id leaves the store ... *)
BulkRemove(t, o) ==
    /\ tasks[t].pc = "each" /\ o \in tasks[t].work
    /\ store' = [store EXCEPT ![objs[o].sid] = NoObj]
    /\ tasks' = [tasks EXCEPT ![t].work = @ \ {o}, ![t].closing = @ \cup {o}]
    /\ UNCHANGED <<events, index, tombs, objs, disabled, temps>>

(* ... and it is closed. *)
BulkClose(t, o) ==
    /\ tasks[t].pc = "each" /\ o \in tasks[t].closing
    /\ events' = [events EXCEPT ![objs[o].sid] = NoObj]
    /\ objs' = [objs EXCEPT ![o].st = "closed"]
    /\ tasks' = [tasks EXCEPT ![t].closing = @ \ {o}]
    /\ UNCHANGED <<store, index, tombs, disabled, temps>>

(* All are closed: the user's set is dropped. *)
BulkEnd(t) ==
    /\ tasks[t].pc = "each" /\ tasks[t].work = {} /\ tasks[t].closing = {}
    /\ index' = [u \in Users |-> IF u \in tasks[t].users THEN {} ELSE index[u]]
    /\ tasks' = [tasks EXCEPT ![t].pc = "temp", ![t].users = @ \cap temps]
    /\ UNCHANGED <<store, events, tombs, objs, disabled, temps>>

(* removeAllSessions: a reset, a restore or the shutdown. *)
Clear(t) ==
    /\ "clear" \in Ops
    /\ tasks[t].pc = "idle"
    /\ tasks' = [tasks EXCEPT ![t].pc = "clear", ![t].work = Stored]
    /\ objs' = Triggered(Stored)
    /\ UNCHANGED <<store, events, index, tombs, disabled, temps>>

ClearOne(t, o) ==
    /\ tasks[t].pc = "clear" /\ o \in tasks[t].work
    /\ objs' = [objs EXCEPT ![o].st = "closed"]
    /\ tasks' = [tasks EXCEPT ![t].work = @ \ {o}]
    /\ UNCHANGED <<store, events, index, tombs, disabled, temps>>

ClearEnd(t) ==
    /\ tasks[t].pc = "clear" /\ tasks[t].work = {}
    /\ store' = [s \in Sids |-> NoObj]
    /\ events' = [s \in Sids |-> NoObj]
    /\ index' = [u \in Users |-> {}]
    /\ tasks' = Rest(t)
    /\ UNCHANGED <<tombs, objs, disabled, temps>>

(* cleanupExpiredSessions lists the sessions to remove ... *)
Sweep(t, S) ==
    /\ "sweep" \in Ops
    /\ tasks[t].pc = "idle"
    /\ S # {} /\ \A s \in S : store[s] # NoObj
    /\ tasks' = [tasks EXCEPT ![t].pc = "sweep", ![t].todo = S]
    /\ UNCHANGED <<store, events, index, tombs, objs, disabled, temps>>

(* ... and removes one after the other, or all of the user if the user     *)
(* expired.                                                                *)
SweepNext(t, s) ==
    /\ tasks[t].pc = "sweep" /\ s \in tasks[t].todo
    /\ \/ /\ store[s] = NoObj
          /\ tasks' = [tasks EXCEPT ![t].todo = @ \ {s},
                          ![t].pc = IF tasks[t].todo = {s} THEN "idle" ELSE "sweep"]
          /\ UNCHANGED objs
       \/ /\ store[s] # NoObj
          /\ StartRemoval(t, s)
       \/ /\ store[s] # NoObj /\ "bulk" \in Ops
          /\ tasks' = [tasks EXCEPT ![t].todo = @ \ {s}, ![t].pc = "bulk",
                                    ![t].users = {UserOf(store[s])}]
          /\ UNCHANGED objs
    /\ UNCHANGED <<store, events, index, tombs, disabled, temps>>

(* The grace window of a tombstone ends. *)
TombstoneExpires(s) ==
    /\ tombs[s] # NoCred
    /\ tombs' = [tombs EXCEPT ![s] = NoCred]
    /\ UNCHANGED <<store, events, index, objs, disabled, temps, tasks>>

-----------------------------------------------------------------------------
Step(t) ==
    \/ Admit(t) \/ SidsUsedUp(t) \/ Create(t)
    \/ Remove(t) \/ CloseTemps(t) \/ Close(t)
    \/ Bulk(t) \/ BulkEnd(t) \/ ClearEnd(t)
    \/ \E o \in Objs : BulkRemove(t, o) \/ BulkClose(t, o) \/ ClearOne(t, o)
    \/ \E s \in Sids : SweepNext(t, s)

Start(t) ==
    \/ \E s \in Sids \cup {NoSid}, c \in Creds : Validate(t, s, c)
    \/ \E o \in Objs : Terminate(t, o) \/ TransportCloses(t, o) \/ Reject(t, o)
    \/ \E u \in Users : Disable(t, u)
    \/ \E S \in SUBSET Sids : Sweep(t, S)
    \/ Clear(t)

Next ==
    \/ \E t \in Tasks : Step(t) \/ Start(t) \/ CreateFails(t)
    \/ \E o \in Objs : Initialized(o)
    \/ \E s \in Sids : TombstoneExpires(s)

Spec == Init /\ [][Next]_vars

-----------------------------------------------------------------------------
(* Properties.                                                             *)

TypeOK ==
    /\ store \in [Sids -> Objs \cup {NoObj}]
    /\ events \in [Sids -> Objs \cup {NoObj}]
    /\ index \in [Users -> SUBSET Sids]
    /\ tombs \in [Sids -> Creds \cup {NoCred}]
    /\ objs \in [Objs -> Obj]
    /\ disabled \subseteq Users
    /\ temps \subseteq Users
    /\ tasks \in [Tasks -> Task]

Open == {o \in Objs : objs[o].st \in {"new", "live", "ready"} /\ ~objs[o].trig}

(* A session id names one session: a reconnect gets the id of a terminated *)
(* session only once, also if requests, removals and reconnects overlap.   *)
OneOpenPerId == \A o, p \in Open : objs[o].sid = objs[p].sid => o = p

(* An id is only ever reused by the identity that terminated the session.  *)
ReuseKeepsOwner ==
    \A o, p \in Objs : objs[o].sid = objs[p].sid => objs[o].cred = objs[p].cred

Quiet == \A t \in Tasks : tasks[t].pc \in {"idle", "admit", "create"}

(* When no removal is under way the sets of userSessions hold no id of a   *)
(* session that is gone.                                                   *)
NoGhosts == Quiet => \A u \in Users : \A s \in index[u] :
    store[s] # NoObj /\ UserOf(store[s]) = u

(* Every stored session is found under its user, which removeAllUserSessions *)
(* depends on; only a session that was stored while the others were being    *)
(* removed is lost to it.                                                    *)
Indexed == \A s \in Sids :
    LET o == store[s] IN o # NoObj /\ ~objs[o].raced => s \in index[UserOf(o)]

(* The event store of a session that was stored does not outlive it.         *)
NoOrphanEvents == Quiet => \A s \in Sids :
    LET o == events[s] IN o # NoObj /\ objs[o].trig => store[s] = o

(* The three maps of SessionStore agree: what is in one of them, and no     *)
(* removal under way, is in the others as long as the session lives.        *)
MapsAgree == NoGhosts /\ Indexed /\ NoOrphanEvents
=============================================================================
