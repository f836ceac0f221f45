------------------------------ MODULE Sockets ------------------------------
(* The Socket.IO layer (SocketService, SocketNotifier): the devices of a     *)
(* user, the requests the server makes of them, the pushes of the list of    *)
(* MCP sessions and the decisions on approvals that devices send.            *)
EXTENDS Naturals, FiniteSets

CONSTANTS
    SUsers,     \* users
    Devices,    \* socket ids
    Asks,       \* requests of the server to a user (sendRequest)
    Jobs,       \* events of devices being handled
    Sids,       \* ids of MCP sessions
    Approvals,  \* rows of the approval table
    ApprovalOwner, \* the user of each row: a function on Approvals
    NoUser, NoList, NoDev
ASSUME SockAssumption ==
    /\ ApprovalOwner \in [Approvals -> SUsers]
    /\ NoUser \notin SUsers /\ SUsers \cap {"PENDING", "EXPIRED"} = {}
    /\ \A S \in SUBSET Sids : S # NoList

VARIABLES
    io,          \* the server: "up", "drained" (disconnectAll ran), "closed"
    handshake,   \* user of a device whose token is being validated
    connections, \* the map connections, and the rooms of the users
    ask,         \* state of the promise of each sendRequest
    askUser,
    pendingRequests, \* the map, by request id
    timers,      \* requests whose timer is armed
    received,    \* requests each device was sent
    sess,        \* MCP sessions of each user in the SessionStore
    owed,        \* users with changes of sessions that are not announced yet
    push,        \* onlineSessionsNotifyInFlight: "none", "asked" or "read"
    pushList,    \* the list that was read
    shown,       \* the list each device was sent last
    missed,      \* users whose change was announced between a read and its push
    row,         \* status of each approval
    job,         \* handlers of events of devices
    acks         \* successful approval_decide acknowledgements per approval
sockVars == <<io, handshake, connections, ask, askUser, pendingRequests, timers,
              received, sess, owed, push, pushList, shown, missed, row, job, acks>>
askVars == <<ask, askUser, pendingRequests, timers>>
listVars == <<sess, owed, push, pushList, missed>>
jobVars == <<row, job, acks>>

Online(u) == connections[u] # {}
IsConnected(d) == \E u \in SUsers : d \in connections[u]
IdleJob == [pc |-> "idle", dev |-> NoDev, user |-> NoUser, ap |-> NoList]

SockInit ==
    /\ io = "up"
    /\ handshake = [d \in Devices |-> NoUser]
    /\ connections = [u \in SUsers |-> {}]
    /\ ask = [r \in Asks |-> "new"]
    /\ askUser = [r \in Asks |-> NoUser]
    /\ pendingRequests = {} /\ timers = {}
    /\ received = [d \in Devices |-> {}]
    /\ sess = [u \in SUsers |-> {}]
    /\ owed = {}
    /\ push = [u \in SUsers |-> "none"]
    /\ pushList = [u \in SUsers |-> NoList]
    /\ shown = [d \in Devices |-> NoList]
    /\ missed = {}
    /\ row = [a \in Approvals |-> "PENDING"]
    /\ job = [j \in Jobs |-> IdleJob]
    /\ acks = [a \in Approvals |-> 0]

\* notifyOnlineSessions: a call joins the push that is in flight.
Notified(u) ==
    /\ push' = [push EXCEPT ![u] = IF @ = "none" THEN "asked" ELSE @]
    /\ missed' = IF push[u] = "read" THEN missed \cup {u} ELSE missed

\* The middleware: the token is validated asynchronously.
Authenticate(d, u) ==
    /\ io # "closed" /\ handshake[d] = NoUser /\ ~IsConnected(d)
    /\ handshake' = [handshake EXCEPT ![d] = u]
    /\ UNCHANGED <<io, connections, askVars, received, listVars, shown, jobVars>>

\* An invalid token, or one that could not be looked up: next(error).
Reject(d) ==
    /\ handshake[d] # NoUser
    /\ handshake' = [handshake EXCEPT ![d] = NoUser]
    /\ UNCHANGED <<io, connections, askVars, received, listVars, shown, jobVars>>

\* Mutant: the new device is not sent the list.
ConnectSilently(d) ==
    LET u == handshake[d] IN
    /\ io # "closed" /\ u # NoUser
    /\ handshake' = [handshake EXCEPT ![d] = NoUser]
    /\ connections' = [connections EXCEPT ![u] = @ \cup {d}]
    /\ UNCHANGED <<io, askVars, received, listVars, shown, jobVars>>

\* The connection handler joins the room, records the device and pushes the
\* list of sessions.
Connect(d) ==
    LET u == handshake[d] IN
    /\ io # "closed" /\ u # NoUser
    /\ handshake' = [handshake EXCEPT ![d] = NoUser]
    /\ connections' = [connections EXCEPT ![u] = @ \cup {d}]
    /\ Notified(u)
    /\ UNCHANGED <<io, askVars, received, sess, owed, pushList, shown, jobVars>>

\* Mutant: the timers are not cleared.
KeepTimers(rs) ==
    /\ pendingRequests' = pendingRequests \ rs
    /\ UNCHANGED <<timers, ask, askUser>>

\* Mutant: the requests of a user who left stay.
KeepPending(rs) == UNCHANGED askVars

\* clearUserPendingRequests, clearAllPendingRequests: timers are cleared and the
\* entries removed; the promises are not resolved.
ClearPending(rs) ==
    /\ pendingRequests' = pendingRequests \ rs
    /\ timers' = timers \ rs
    /\ UNCHANGED <<ask, askUser>>

\* The disconnect handler: with the last device the user's requests go.
Disconnect(d) ==
    /\ IsConnected(d)
    /\ LET u == CHOOSE x \in SUsers : d \in connections[x] IN
       /\ connections' = [connections EXCEPT ![u] = @ \ {d}]
       /\ IF connections[u] = {d}
          THEN ClearPending({r \in pendingRequests : askUser[r] = u})
          ELSE UNCHANGED askVars
    /\ received' = [received EXCEPT ![d] = {}]
    /\ shown' = [shown EXCEPT ![d] = NoList]
    /\ UNCHANGED <<io, handshake, listVars, jobVars>>

\* disconnectAll, the first step of the shutdown: everybody is disconnected.
DisconnectAll ==
    /\ io = "up"
    /\ io' = "drained"
    /\ connections' = [u \in SUsers |-> {}]
    /\ received' = [d \in Devices |-> {}]
    /\ shown' = [d \in Devices |-> NoList]
    /\ ClearPending(pendingRequests)
    /\ UNCHANGED <<handshake, listVars, jobVars>>

\* shutdown: io.close() also drops the devices that came in the meantime.
Shutdown ==
    /\ io = "drained"
    /\ io' = "closed"
    /\ handshake' = [d \in Devices |-> NoUser]
    /\ connections' = [u \in SUsers |-> {}]
    /\ received' = [d \in Devices |-> {}]
    /\ shown' = [d \in Devices |-> NoList]
    /\ ClearPending(pendingRequests)
    /\ UNCHANGED <<listVars, jobVars>>

\* sendRequest: an offline user answers at once, else the timer is armed, the
\* request recorded and sent to every device, all in one step.
SendRequest(r, u) ==
    /\ ask[r] = "new"
    /\ askUser' = [askUser EXCEPT ![r] = u]
    /\ IF Online(u)
       THEN /\ ask' = [ask EXCEPT ![r] = "waiting"]
            /\ pendingRequests' = pendingRequests \cup {r}
            /\ timers' = timers \cup {r}
            /\ received' = [d \in Devices |->
                   IF d \in connections[u] THEN received[d] \cup {r} ELSE received[d]]
       ELSE /\ ask' = [ask EXCEPT ![r] = "USER_OFFLINE"]
            /\ UNCHANGED <<pendingRequests, timers, received>>
    /\ UNCHANGED <<io, handshake, connections, listVars, shown, jobVars>>

\* handleClientResponse: an answer to an unknown id is dropped.
HandleClientResponse(d, r) ==
    /\ IsConnected(d) /\ r \in received[d]
    /\ received' = [received EXCEPT ![d] = @ \ {r}]
    /\ IF r \in pendingRequests
       THEN /\ ask' = [ask EXCEPT ![r] = "answered"]
            /\ pendingRequests' = pendingRequests \ {r}
            /\ timers' = timers \ {r}
       ELSE UNCHANGED <<ask, pendingRequests, timers>>
    /\ UNCHANGED <<io, handshake, connections, askUser, listVars, shown, jobVars>>

\* The timer of sendRequest.
Timeout(r) ==
    /\ r \in timers
    /\ ask' = [ask EXCEPT ![r] = "TIMEOUT"]
    /\ pendingRequests' = pendingRequests \ {r}
    /\ timers' = timers \ {r}
    /\ UNCHANGED <<io, handshake, connections, askUser, received, listVars, shown, jobVars>>

\* A session enters or leaves the store; it is announced later, when the
\* connection was initialized or closed.
ChangeSessions(u, s) ==
    /\ u \notin owed
    /\ sess' = [sess EXCEPT ![u] = IF s \in @ THEN @ \ {s} ELSE @ \cup {s}]
    /\ owed' = owed \cup {u}
    /\ UNCHANGED <<io, handshake, connections, askVars, received, push, pushList,
                   missed, shown, jobVars>>

Announce(u) ==
    /\ u \in owed
    /\ owed' = owed \ {u}
    /\ Notified(u)
    /\ UNCHANGED <<io, handshake, connections, askVars, received, sess, pushList,
                   shown, jobVars>>

\* handleGetOnlineSessions reads the store after its dynamic import.
ReadSessions(u) ==
    /\ push[u] = "asked"
    /\ push' = [push EXCEPT ![u] = "read"]
    /\ pushList' = [pushList EXCEPT ![u] = sess[u]]
    /\ UNCHANGED <<io, handshake, connections, askVars, received, sess, owed, missed,
                   shown, jobVars>>

\* The list goes to the room; the entry of the push in flight is removed. A
\* full push makes up for what an earlier one missed.
PushSessions(u) ==
    /\ push[u] = "read"
    /\ push' = [push EXCEPT ![u] = "none"]
    /\ pushList' = [pushList EXCEPT ![u] = NoList]
    /\ missed' = IF pushList[u] = sess[u] THEN missed \ {u} ELSE missed
    /\ shown' = [d \in Devices |-> IF d \in connections[u] THEN pushList[u] ELSE shown[d]]
    /\ UNCHANGED <<io, handshake, connections, askVars, received, sess, owed, jobVars>>

\* get_capabilities, set_capabilities, configure_server, unconfigure_server:
\* the handler awaits the UserRequestHandler and answers its own socket.
Operation(j, d) ==
    /\ job[j].pc = "idle" /\ IsConnected(d)
    /\ job' = [job EXCEPT ![j] = [pc |-> "op", dev |-> d, ap |-> NoList,
                  user |-> CHOOSE u \in SUsers : d \in connections[u]]]
    /\ UNCHANGED <<io, handshake, connections, askVars, received, listVars, shown, row, acks>>

Reply(j) ==
    /\ job[j].pc = "op"
    /\ job' = [job EXCEPT ![j] = IdleJob]
    /\ UNCHANGED <<io, handshake, connections, askVars, received, listVars, shown, row, acks>>

\* approval_decide: the row is read, its owner compared, then it is decided.
DecideEvent(j, d, a) ==
    /\ job[j].pc = "idle" /\ IsConnected(d)
    /\ job' = [job EXCEPT ![j] = [pc |-> "get", dev |-> d, ap |-> a,
                  user |-> CHOOSE u \in SUsers : d \in connections[u]]]
    /\ UNCHANGED <<io, handshake, connections, askVars, received, listVars, shown, row, acks>>

CheckOwner(j) ==
    /\ job[j].pc = "get"
    /\ job' = [job EXCEPT ![j] =
           IF job[j].user = ApprovalOwner[job[j].ap] THEN [@ EXCEPT !.pc = "decide"] ELSE IdleJob]
    /\ UNCHANGED <<io, handshake, connections, askVars, received, listVars, shown, row, acks>>

\* Mutant: the status of the row is not part of the update.
DecideAlways(j) ==
    /\ job[j].pc = "decide"
    /\ row' = [row EXCEPT ![job[j].ap] = job[j].user]
    /\ job' = [job EXCEPT ![j].pc = "ack"]
    /\ UNCHANGED <<io, handshake, connections, askVars, received, listVars, shown, acks>>

\* approvalService.decide updates the row where it is still PENDING.
Decide(j) ==
    /\ job[j].pc = "decide"
    /\ IF row[job[j].ap] = "PENDING"
       THEN /\ row' = [row EXCEPT ![job[j].ap] = job[j].user]
            /\ job' = [job EXCEPT ![j].pc = "ack"]
       ELSE /\ job' = [job EXCEPT ![j] = IdleJob]
            /\ row' = row
    /\ UNCHANGED <<io, handshake, connections, askVars, received, listVars, shown, acks>>

\* notifyApprovalDecided, after another dynamic import, and the acknowledgement.
Acknowledge(j) ==
    /\ job[j].pc = "ack"
    /\ acks' = [acks EXCEPT ![job[j].ap] = @ + 1]
    /\ job' = [job EXCEPT ![j] = IdleJob]
    /\ UNCHANGED <<io, handshake, connections, askVars, received, listVars, shown, row>>

\* The approval times out in the meantime (external to the socket layer).
Expire(a) ==
    /\ row[a] = "PENDING"
    /\ row' = [row EXCEPT ![a] = "EXPIRED"]
    /\ UNCHANGED <<io, handshake, connections, askVars, received, listVars, shown, job, acks>>

DeviceStep(d) ==
    \/ \E u \in SUsers : Authenticate(d, u)
    \/ Reject(d) \/ Connect(d) \/ Disconnect(d)
ListStep == \E u \in SUsers :
    \/ \E s \in Sids : ChangeSessions(u, s)
    \/ Announce(u) \/ ReadSessions(u) \/ PushSessions(u)
AskStep ==
    \E r \in Asks :
        \/ \E u \in SUsers : SendRequest(r, u)
        \/ \E d \in Devices : HandleClientResponse(d, r)
        \/ Timeout(r)
JobStep ==
    \/ \E j \in Jobs :
        \/ \E d \in Devices : Operation(j, d) \/ \E a \in Approvals : DecideEvent(j, d, a)
        \/ Reply(j) \/ CheckOwner(j) \/ Decide(j) \/ Acknowledge(j)
    \/ \E a \in Approvals : Expire(a)
ServerStep == DisconnectAll \/ Shutdown \/ \E d \in Devices : DeviceStep(d)

SockNext == ServerStep \/ AskStep \/ ListStep \/ JobStep
SockSpec == SockInit /\ [][SockNext]_sockVars

-----------------------------------------------------------------------------
(* Properties *)

\* The types of the variables; a request that is pending has its timer armed
\* (the two are made and dropped together, SocketService.ts:576-653), and a
\* push in flight has a list exactly when it was read.
SockTypeOK ==
    /\ io \in {"up", "drained", "closed"}
    /\ handshake \in [Devices -> SUsers \cup {NoUser}]
    /\ connections \in [SUsers -> SUBSET Devices]
    /\ \A u, v \in SUsers : u # v => connections[u] \cap connections[v] = {}
    /\ \A r \in Asks : ask[r] \in {"new", "waiting", "answered", "TIMEOUT", "USER_OFFLINE"}
    /\ \A r \in Asks : askUser[r] \in SUsers \cup {NoUser}
    /\ pendingRequests \subseteq Asks /\ timers = pendingRequests
    /\ sess \in [SUsers -> SUBSET Sids] /\ owed \subseteq SUsers /\ missed \subseteq SUsers
    /\ \A u \in SUsers : push[u] \in {"none", "asked", "read"}
    /\ \A u \in SUsers : (pushList[u] = NoList) = (push[u] # "read")
    /\ \A j \in Jobs : job[j].pc \in {"idle", "op", "get", "decide", "ack"}
    /\ acks \in [Approvals -> Nat]

\* A request is pending only for a user who has a device that could answer it
\* (SocketService.ts:425-446): otherwise it would sit in the map for its
\* whole timeout although nobody can answer.
NoPendingOffline == \A r \in pendingRequests : Online(askUser[r])

\* What the devices of a user show is the list of the store, once every change
\* is announced and no push is in flight (docs/api/SOCKET_USAGE.md:95-103): the
\* coalescing of calls loses no change, except one announced between the read
\* of the list and its push (SocketNotifier.ts:236-262).
SessionListShown ==
    \A u \in SUsers : (u \notin owed \cup missed /\ push[u] = "none")
        => \A d \in connections[u] : shown[d] = sess[u]

\* Whatever devices decide at the same time, an approval is acknowledged as
\* decided to one of them at most, one of its owner's devices, and never after
\* it expired (SocketService.ts:364-422).
OneDecision ==
    \A a \in Approvals :
        /\ acks[a] + Cardinality({j \in Jobs : job[j].pc = "ack" /\ job[j].ap = a}) <= 1
        /\ row[a] \in {"PENDING", "EXPIRED", ApprovalOwner[a]}
        /\ acks[a] = 1 => row[a] = ApprovalOwner[a]

\* What devices are promised, with connections, answers, time-outs and the
\* shutdown in any order (SocketService.ts, SocketNotifier.ts).
DevicesServed == SockTypeOK /\ NoPendingOffline /\ SessionListShown /\ OneDecision
=============================================================================
