----------------------- MODULE SessionServicesProofs -----------------------
(* Proofs about what serves a session: the sockets of its user, its event    *)
(* streams, the routing of its requests and the guards they pass, for every  *)
(* number of users, devices, sessions, events, requests, limits, addresses.  *)
EXTENDS Sockets, EventStore, RequestRouting, AccessGuards, Sequences, FiniteSetTheorems,
        WellFoundedInduction, TLAPS

-----------------------------------------------------------------------------
(* Sockets: the inductive invariant *)

\* The records of the handlers of events of devices.
JobRecs == [pc : {"idle", "op", "get", "decide", "ack"}, dev : Devices \cup {NoDev},
            user : SUsers \cup {NoUser}, ap : Approvals \cup {NoList}]

ServerTypes ==
    /\ io \in {"up", "drained", "closed"}
    /\ handshake \in [Devices -> SUsers \cup {NoUser}]
    /\ connections \in [SUsers -> SUBSET Devices]
AskTypes ==
    /\ ask \in [Asks -> {"new", "waiting", "answered", "TIMEOUT", "USER_OFFLINE"}]
    /\ askUser \in [Asks -> SUsers \cup {NoUser}]
    /\ pendingRequests \subseteq Asks /\ timers = pendingRequests
    /\ \A r \in pendingRequests : ask[r] = "waiting"
ListTypes ==
    /\ sess \in [SUsers -> SUBSET Sids] /\ owed \subseteq SUsers /\ missed \subseteq SUsers
    /\ push \in [SUsers -> {"none", "asked", "read"}]
    /\ pushList \in [SUsers -> (SUBSET Sids) \cup {NoList}]
    /\ shown \in [Devices -> (SUBSET Sids) \cup {NoList}]
    /\ \A u \in SUsers : (pushList[u] = NoList) <=> (push[u] # "read")
JobTypes ==
    /\ row \in [Approvals -> SUsers \cup {"PENDING", "EXPIRED"}]
    /\ job \in [Jobs -> JobRecs]
    /\ acks \in [Approvals -> Nat]

\* A device belongs to one user, and a socket is not connected while its token
\* is validated.
DevicesApart ==
    /\ \A u, v \in SUsers : u # v => connections[u] \cap connections[v] = {}
    /\ \A d \in Devices : handshake[d] # NoUser => \A u \in SUsers : d \notin connections[u]

\* Pending requests are of users who are online.
PendingServed ==
    \A r \in pendingRequests : askUser[r] \in SUsers /\ connections[askUser[r]] # {}

\* What was read for a push is current, and what devices show is too, unless a
\* change is not announced or was missed.
ListsCurrent ==
    \A u \in SUsers : u \notin owed \cup missed =>
        /\ push[u] = "read" => pushList[u] = sess[u]
        /\ push[u] = "none" => \A d \in connections[u] : shown[d] = sess[u]

\* The handlers about to acknowledge a decision of an approval.
Acking(a) == {j \in Jobs : job[j].pc = "ack" /\ job[j].ap = a}

\* An approval is undecided, decided by a handler that will acknowledge it, or
\* acknowledged.
DecisionStage(a) ==
    \/ row[a] \in {"PENDING", "EXPIRED"} /\ acks[a] = 0 /\ Acking(a) = {}
    \/ row[a] = ApprovalOwner[a] /\ acks[a] = 0 /\ \E j \in Jobs : Acking(a) = {j}
    \/ row[a] = ApprovalOwner[a] /\ acks[a] = 1 /\ Acking(a) = {}
Decisions ==
    /\ \A j \in Jobs : job[j].pc \in {"get", "decide", "ack"} => job[j].ap \in Approvals
    /\ \A j \in Jobs : job[j].pc = "decide" => job[j].user = ApprovalOwner[job[j].ap]
    /\ \A a \in Approvals : DecisionStage(a)

ConnInv == ServerTypes /\ AskTypes /\ DevicesApart /\ PendingServed
ListInv == ListTypes /\ ListsCurrent
JobInv == JobTypes /\ Decisions
SockInv == ConnInv /\ ListInv /\ JobInv

\* Initially nobody is connected and nothing is pending (SocketService.ts).
LEMMA SockInitial == SockInit => SockInv
<1> SUFFICES ASSUME SockInit PROVE SockInv
  OBVIOUS
<1>1. ConnInv
  BY DEF SockInit, ConnInv, ServerTypes, AskTypes, DevicesApart, PendingServed
<1>2. ListInv
  BY DEF SockInit, ListInv, ListTypes, ListsCurrent
<1>3. JobTypes
  BY DEF SockInit, JobTypes, JobRecs, IdleJob
<1>4. \A j \in Jobs : job[j].pc = "idle"
  BY DEF SockInit, IdleJob
<1>5. Decisions
  BY <1>4 DEF SockInit, Decisions, DecisionStage, Acking
<1> QED
  BY <1>1, <1>2, <1>3, <1>5 DEF SockInv, JobInv

-----------------------------------------------------------------------------
(* Sockets: the parts a step leaves alone *)

\* A step that touches neither rows, handlers nor acknowledgements keeps them.
LEMMA JobsKept == JobInv /\ UNCHANGED jobVars => JobInv'
<1> SUFFICES ASSUME JobInv, UNCHANGED jobVars PROVE JobInv'
  OBVIOUS
<1>1. JobTypes'
  BY DEF JobInv, JobTypes, jobVars
<1>2. Decisions'
  BY DEF JobInv, Decisions, DecisionStage, Acking, jobVars
<1> QED
  BY <1>1, <1>2 DEF JobInv

\* A step that touches neither the lists nor what devices show, and connects no
\* device, keeps the lists current.
LEMMA ListsKept ==
    ASSUME ListInv, UNCHANGED <<listVars, shown>>,
           \A u \in SUsers : connections'[u] \subseteq connections[u]
    PROVE  ListInv'
BY DEF ListInv, ListTypes, ListsCurrent, listVars

\* A step that touches neither connections nor requests keeps them.
LEMMA ConnectionsKept == ConnInv /\ UNCHANGED <<io, handshake, connections, askVars>> => ConnInv'
BY DEF ConnInv, ServerTypes, AskTypes, DevicesApart, PendingServed, askVars

-----------------------------------------------------------------------------
(* Sockets: devices come and go *)

\* The middleware keeps the invariant (SocketService.ts, validateToken).
LEMMA AuthenticateKeeps ==
    ASSUME SockInv, NEW d \in Devices, NEW u \in SUsers, Authenticate(d, u) PROVE SockInv'
<1>1. JobInv'
  BY JobsKept DEF SockInv, Authenticate
<1>2. ListInv'
  BY ListsKept DEF SockInv, Authenticate, listVars
<1>3. ServerTypes' /\ AskTypes' /\ PendingServed'
  BY DEF SockInv, ConnInv, ServerTypes, AskTypes, PendingServed, Authenticate, askVars
<1>4. DevicesApart'
  BY DEF SockInv, ConnInv, ServerTypes, DevicesApart, Authenticate, IsConnected
<1> QED
  BY <1>1, <1>2, <1>3, <1>4 DEF SockInv, ConnInv

\* So does a rejected token.
LEMMA RejectKeeps == ASSUME SockInv, NEW d \in Devices, Reject(d) PROVE SockInv'
<1>1. JobInv'
  BY JobsKept DEF SockInv, Reject
<1>2. ListInv'
  BY ListsKept DEF SockInv, Reject, listVars
<1>3. ServerTypes' /\ AskTypes' /\ PendingServed'
  BY DEF SockInv, ConnInv, ServerTypes, AskTypes, PendingServed, Reject, askVars
<1>4. DevicesApart'
  BY DEF SockInv, ConnInv, ServerTypes, DevicesApart, Reject
<1> QED
  BY <1>1, <1>2, <1>3, <1>4 DEF SockInv, ConnInv

\* A call of notifyOnlineSessions keeps the lists: it starts a push, joins one
\* that has not read yet, or is recorded as missed.
LEMMA NotifiedKeeps ==
    ASSUME ListInv, NEW u \in SUsers, Notified(u), UNCHANGED <<sess, pushList, shown>>,
           owed' \subseteq owed, \A v \in owed : v = u \/ v \in owed',
           \A v \in SUsers : v = u \/ connections'[v] = connections[v]
    PROVE  ListInv'
<1>1. push' \in [SUsers -> {"none", "asked", "read"}]
      /\ missed' \subseteq SUsers
  BY DEF ListInv, ListTypes, Notified
<1>2. push'[u] # "none" /\ (push'[u] = "read" => push[u] = "read" /\ u \in missed')
  BY DEF ListInv, ListTypes, Notified
<1>3. \A v \in SUsers : v # u => push'[v] = push[v] /\ (v \in missed' <=> v \in missed)
  BY DEF ListInv, ListTypes, Notified
<1>4. (push'[u] = "read") <=> (push[u] = "read")
  BY DEF ListInv, ListTypes, Notified
<1>5. ListTypes'
  BY <1>1, <1>3, <1>4 DEF ListInv, ListTypes
<1>6. ListsCurrent'
  BY <1>2, <1>3 DEF ListInv, ListsCurrent
<1> QED
  BY <1>5, <1>6 DEF ListInv

\* The connection handler keeps the invariant.
LEMMA ConnectKeeps == ASSUME SockInv, NEW d \in Devices, Connect(d) PROVE SockInv'
<1> PICK u \in SUsers : u = handshake[d]
  BY DEF SockInv, ConnInv, ServerTypes, Connect
<1>1. JobInv'
  BY JobsKept DEF SockInv, Connect
<1>2. connections' = [connections EXCEPT ![u] = @ \cup {d}] /\ Notified(u)
      /\ handshake' = [handshake EXCEPT ![d] = NoUser] /\ u # NoUser
      /\ UNCHANGED <<io, askVars, sess, owed, pushList, shown>>
  BY DEF Connect
<1>3. ListInv'
  <2>1. \A v \in SUsers : v = u \/ connections'[v] = connections[v]
    BY <1>2 DEF SockInv, ConnInv, ServerTypes
  <2> QED
    BY <1>2, <2>1, NotifiedKeeps DEF SockInv
<1>4. ServerTypes' /\ AskTypes'
  BY <1>2 DEF SockInv, ConnInv, ServerTypes, AskTypes, askVars
<1>5. PendingServed'
  BY <1>2 DEF SockInv, ConnInv, ServerTypes, AskTypes, PendingServed, askVars
<1>6. DevicesApart'
  BY <1>2 DEF SockInv, ConnInv, ServerTypes, DevicesApart
<1> QED
  BY <1>1, <1>3, <1>4, <1>5, <1>6 DEF SockInv, ConnInv

\* The disconnect handler keeps the invariant: with the last device of a user
\* the requests to that user go (SocketService.ts:425-446).
LEMMA DisconnectKeeps == ASSUME SockInv, NEW d \in Devices, Disconnect(d) PROVE SockInv'
<1> PICK u \in SUsers : /\ u = CHOOSE x \in SUsers : d \in connections[x]
                        /\ d \in connections[u]
  BY DEF Disconnect, IsConnected
<1>1. /\ connections' = [connections EXCEPT ![u] = @ \ {d}]
      /\ IF connections[u] = {d}
         THEN ClearPending({r \in pendingRequests : askUser[r] = u})
         ELSE UNCHANGED askVars
      /\ shown' = [shown EXCEPT ![d] = NoList]
      /\ UNCHANGED <<io, handshake, listVars, jobVars>>
  BY DEF Disconnect
<1>2. JobInv'
  BY <1>1, JobsKept DEF SockInv
<1>3. ServerTypes' /\ DevicesApart'
  BY <1>1 DEF SockInv, ConnInv, ServerTypes, DevicesApart
<1>4. /\ AskTypes' /\ pendingRequests' \subseteq pendingRequests /\ UNCHANGED askUser
      /\ connections[u] = {d} => \A r \in pendingRequests' : askUser[r] # u
  BY <1>1 DEF SockInv, ConnInv, AskTypes, ClearPending, askVars
<1>5. PendingServed'
  <2>1. connections'[u] = {} => connections[u] = {d}
    BY <1>1 DEF SockInv, ConnInv, ServerTypes
  <2>2. \A v \in SUsers : v # u => connections'[v] = connections[v]
    BY <1>1 DEF SockInv, ConnInv, ServerTypes
  <2> QED
    BY <1>4, <2>1, <2>2 DEF SockInv, ConnInv, PendingServed
<1>6. ListInv'
  <2>1. \A v \in SUsers : connections'[v] \subseteq connections[v] /\ d \notin connections'[v]
    BY <1>1 DEF SockInv, ConnInv, ServerTypes, DevicesApart
  <2>2. ListTypes'
    BY <1>1 DEF SockInv, ListInv, ListTypes, listVars
  <2>3. \A v \in SUsers : \A e \in connections'[v] : shown'[e] = shown[e]
    BY <1>1, <2>1 DEF SockInv, ConnInv, ServerTypes, ListInv, ListTypes
  <2> QED
    BY <1>1, <2>1, <2>2, <2>3 DEF SockInv, ListInv, ListsCurrent, listVars
<1> QED
  BY <1>2, <1>3, <1>4, <1>5, <1>6 DEF SockInv, ConnInv

\* With nobody connected and nothing pending, what is left of the invariant is
\* about the lists and the handlers: both steps of the shutdown keep it.
LEMMA ShutdownKeeps == ASSUME SockInv, DisconnectAll \/ Shutdown PROVE SockInv'
<1>1. /\ io' \in {"drained", "closed"}
      /\ handshake' = handshake \/ handshake' = [d \in Devices |-> NoUser]
      /\ connections' = [u \in SUsers |-> {}] /\ shown' = [d \in Devices |-> NoList]
      /\ pendingRequests' = {} /\ timers' = timers \ pendingRequests
      /\ UNCHANGED <<ask, askUser, listVars, jobVars>>
  BY DEF DisconnectAll, Shutdown, ClearPending
<1>2. JobInv'
  BY <1>1, JobsKept DEF SockInv
<1>3. ServerTypes' /\ DevicesApart'
  BY <1>1 DEF SockInv, ConnInv, ServerTypes, DevicesApart
<1>4. AskTypes' /\ PendingServed'
  BY <1>1 DEF SockInv, ConnInv, AskTypes, PendingServed
<1>5. ListInv'
  BY <1>1 DEF SockInv, ListInv, ListTypes, ListsCurrent, listVars
<1> QED
  BY <1>2, <1>3, <1>4, <1>5 DEF SockInv, ConnInv


-----------------------------------------------------------------------------
(* Sockets: requests of the server *)

\* sendRequest keeps the invariant: only a user who is online gets a pending
\* request.
LEMMA SendRequestKeeps ==
    ASSUME SockInv, NEW r \in Asks, NEW u \in SUsers, SendRequest(r, u) PROVE SockInv'
<1>1. JobInv'
  BY JobsKept DEF SockInv, SendRequest
<1>2. ListInv'
  BY ListsKept DEF SockInv, SendRequest, listVars
<1>3. ServerTypes' /\ DevicesApart'
  BY DEF SockInv, ConnInv, ServerTypes, DevicesApart, SendRequest
<1>4. CASE Online(u)
  <2>1. AskTypes'
    BY <1>4 DEF SockInv, ConnInv, AskTypes, SendRequest
  <2>2. PendingServed'
    BY <1>4 DEF SockInv, ConnInv, AskTypes, PendingServed, SendRequest, Online
  <2> QED
    BY <1>1, <1>2, <1>3, <2>1, <2>2 DEF SockInv, ConnInv
<1>5. CASE ~Online(u)
  <2>1. AskTypes'
    BY <1>5 DEF SockInv, ConnInv, AskTypes, SendRequest
  <2>3. askUser' = [askUser EXCEPT ![r] = u] /\ UNCHANGED <<pendingRequests, connections>>
    BY <1>5 DEF SendRequest
  <2>4. r \notin pendingRequests
    BY DEF SockInv, ConnInv, AskTypes, SendRequest
  <2>5. PendingServed'
    BY <2>3, <2>4 DEF SockInv, ConnInv, AskTypes, PendingServed
  <2> QED
    BY <1>1, <1>2, <1>3, <2>1, <2>5 DEF SockInv, ConnInv
<1> QED
  BY <1>4, <1>5

\* An answer and a time-out only remove what is pending.
LEMMA AnswerKeeps ==
    ASSUME SockInv, NEW r \in Asks, Timeout(r) \/ \E d \in Devices : HandleClientResponse(d, r)
    PROVE  SockInv'
<1>1. /\ \/ UNCHANGED <<ask, pendingRequests, timers>>
         \/ /\ pendingRequests' = pendingRequests \ {r} /\ timers' = timers \ {r}
            /\ \/ ask' = [ask EXCEPT ![r] = "answered"]
               \/ ask' = [ask EXCEPT ![r] = "TIMEOUT"]
      /\ UNCHANGED <<io, handshake, connections, askUser, listVars, shown, jobVars>>
  BY DEF Timeout, HandleClientResponse
<1>2. JobInv'
  BY <1>1, JobsKept DEF SockInv
<1>3. ListInv'
  BY <1>1, ListsKept DEF SockInv, listVars
<1>4. ServerTypes' /\ DevicesApart'
  BY <1>1 DEF SockInv, ConnInv, ServerTypes, DevicesApart
<1>5. AskTypes' /\ PendingServed'
  BY <1>1 DEF SockInv, ConnInv, AskTypes, PendingServed
<1> QED
  BY <1>2, <1>3, <1>4, <1>5 DEF SockInv, ConnInv

-----------------------------------------------------------------------------
(* Sockets: the lists of sessions *)

\* A change of the store that is not announced yet.
LEMMA ChangeSessionsKeeps ==
    ASSUME SockInv, NEW u \in SUsers, NEW s \in Sids, ChangeSessions(u, s) PROVE SockInv'
<1>1. JobInv' /\ ConnInv'
  BY JobsKept, ConnectionsKept DEF SockInv, ChangeSessions
<1>2. /\ sess' \in [SUsers -> SUBSET Sids] /\ \A v \in SUsers : v # u => sess'[v] = sess[v]
      /\ owed' = owed \cup {u} /\ UNCHANGED <<connections, push, pushList, missed, shown>>
  BY DEF SockInv, ListInv, ListTypes, ChangeSessions
<1>3. ListInv'
  BY <1>2 DEF SockInv, ListInv, ListTypes, ListsCurrent
<1> QED
  BY <1>1, <1>3 DEF SockInv

\* The announcement of a change.
LEMMA AnnounceKeeps == ASSUME SockInv, NEW u \in SUsers, Announce(u) PROVE SockInv'
<1>1. JobInv' /\ ConnInv'
  BY JobsKept, ConnectionsKept DEF SockInv, Announce
<1>2. /\ Notified(u) /\ UNCHANGED <<sess, pushList, shown>>
      /\ owed' \subseteq owed /\ (\A v \in owed : v = u \/ v \in owed')
      /\ \A v \in SUsers : v = u \/ connections'[v] = connections[v]
  BY DEF Announce
<1>3. ListInv'
  BY <1>2, NotifiedKeeps DEF SockInv
<1> QED
  BY <1>1, <1>3 DEF SockInv

\* The read of the store: what it reads is current.
LEMMA ReadSessionsKeeps == ASSUME SockInv, NEW u \in SUsers, ReadSessions(u) PROVE SockInv'
<1>1. JobInv' /\ ConnInv'
  BY JobsKept, ConnectionsKept DEF SockInv, ReadSessions
<1>2. sess[u] \in SUBSET Sids /\ sess[u] # NoList
  BY SockAssumption DEF SockInv, ListInv, ListTypes
<1>3. ListTypes'
  BY <1>2 DEF SockInv, ListInv, ListTypes, ReadSessions
<1>4. ListsCurrent'
  BY DEF SockInv, ListInv, ListTypes, ListsCurrent, ReadSessions
<1> QED
  BY <1>1, <1>3, <1>4 DEF SockInv, ListInv

\* The push: a list that is out of date is one of a user whose change is not
\* announced or was missed (SocketNotifier.ts:236-262).
LEMMA PushSessionsKeeps == ASSUME SockInv, NEW u \in SUsers, PushSessions(u) PROVE SockInv'
<1>1. JobInv' /\ ConnInv'
  BY JobsKept, ConnectionsKept DEF SockInv, PushSessions
<1>2. /\ push' = [push EXCEPT ![u] = "none"] /\ pushList' = [pushList EXCEPT ![u] = NoList]
      /\ missed' = IF pushList[u] = sess[u] THEN missed \ {u} ELSE missed
      /\ shown' = [d \in Devices |-> IF d \in connections[u] THEN pushList[u] ELSE shown[d]]
      /\ push[u] = "read" /\ UNCHANGED <<sess, owed, connections>>
  BY DEF PushSessions
<1>3. ListTypes'
  BY <1>2 DEF SockInv, ListInv, ListTypes
<1>4. /\ push'[u] = "none" /\ (u \notin owed \cup missed' => pushList[u] = sess[u])
      /\ \A d \in connections[u] : shown'[d] = pushList[u]
  BY <1>2 DEF SockInv, ConnInv, ServerTypes, ListInv, ListTypes, ListsCurrent
<1>5. \A v \in SUsers : v # u =>
        /\ push'[v] = push[v] /\ pushList'[v] = pushList[v] /\ (v \in missed' <=> v \in missed)
        /\ \A d \in connections[v] : shown'[d] = shown[d]
  BY <1>2 DEF SockInv, ConnInv, ServerTypes, DevicesApart, ListInv, ListTypes
<1>6. ListsCurrent'
  BY <1>2, <1>4, <1>5 DEF SockInv, ListInv, ListsCurrent
<1> QED
  BY <1>1, <1>3, <1>6 DEF SockInv, ListInv

-----------------------------------------------------------------------------
(* Sockets: the decisions *)

\* A handler that is not about to acknowledge, and will not be, changes no
\* stage: its record may become any other one of which that is true.
LEMMA HandlerMoves ==
    ASSUME SockInv, NEW j \in Jobs, NEW n \in JobRecs,
           job' = [job EXCEPT ![j] = n], UNCHANGED <<row, acks>>,
           job[j].pc # "ack", n.pc # "ack",
           n.pc \in {"get", "decide"} => n.ap \in Approvals,
           n.pc = "decide" => n.user = ApprovalOwner[n.ap]
    PROVE  JobInv'
<1>1. JobTypes'
  BY DEF SockInv, JobInv, JobTypes
<1>2. job'[j] = n /\ \A i \in Jobs : i # j => job'[i] = job[i]
  BY DEF SockInv, JobInv, JobTypes
<1>3. \A a \in Approvals : Acking(a)' = Acking(a)
  BY <1>2 DEF Acking
<1>4. \A a \in Approvals : DecisionStage(a)'
  BY <1>3 DEF SockInv, JobInv, Decisions, DecisionStage
<1>5. /\ \A i \in Jobs : job'[i].pc \in {"get", "decide", "ack"} => job'[i].ap \in Approvals
      /\ \A i \in Jobs : job'[i].pc = "decide" => job'[i].user = ApprovalOwner[job'[i].ap]
  BY <1>2 DEF SockInv, JobInv, Decisions
<1> QED
  BY <1>1, <1>4, <1>5 DEF JobInv, Decisions

\* The idle record is one.
LEMMA IdleTyped == IdleJob \in JobRecs /\ IdleJob.pc = "idle"
BY DEF IdleJob, JobRecs

\* The events of devices start a handler for the user of the device.
LEMMA EventKeeps ==
    ASSUME SockInv, NEW j \in Jobs, NEW d \in Devices,
           Operation(j, d) \/ \E a \in Approvals : DecideEvent(j, d, a)
    PROVE  SockInv'
<1> PICK u \in SUsers : u = CHOOSE x \in SUsers : d \in connections[x]
  BY DEF Operation, DecideEvent, IsConnected
<1>1. \E n \in JobRecs : /\ job' = [job EXCEPT ![j] = n] /\ n.pc \in {"op", "get"}
                         /\ n.pc = "get" => n.ap \in Approvals
  <2>1. CASE Operation(j, d)
    <3> DEFINE n == [pc |-> "op", dev |-> d, ap |-> NoList, user |-> u]
    <3>1. n \in JobRecs /\ n.pc = "op"
      BY DEF JobRecs
    <3>2. job' = [job EXCEPT ![j] = n]
      BY <2>1 DEF Operation
    <3> QED
      BY <3>1, <3>2
  <2>2. CASE \E a \in Approvals : DecideEvent(j, d, a)
    <3> PICK a \in Approvals : DecideEvent(j, d, a)
      BY <2>2
    <3> DEFINE n == [pc |-> "get", dev |-> d, ap |-> a, user |-> u]
    <3>1. n \in JobRecs /\ n.pc = "get" /\ n.ap \in Approvals
      BY DEF JobRecs
    <3>2. job' = [job EXCEPT ![j] = n]
      BY DEF DecideEvent
    <3> QED
      BY <3>1, <3>2
  <2> QED
    BY <2>1, <2>2
<1>2. /\ job[j].pc # "ack" /\ UNCHANGED <<row, acks>>
      /\ UNCHANGED <<io, handshake, connections, askVars, received, listVars, shown>>
  BY DEF Operation, DecideEvent
<1>3. JobInv'
  <2> PICK n \in JobRecs : /\ job' = [job EXCEPT ![j] = n] /\ n.pc \in {"op", "get"}
                           /\ n.pc = "get" => n.ap \in Approvals
    BY <1>1
  <2>1. n.pc # "ack" /\ (n.pc \in {"get", "decide"} => n.ap \in Approvals)
        /\ (n.pc = "decide" => n.user = ApprovalOwner[n.ap])
    OBVIOUS
  <2> QED
    BY <1>2, <2>1, HandlerMoves
<1>4. ListInv' /\ ConnInv'
  BY <1>2, ListsKept, ConnectionsKept DEF SockInv, listVars
<1> QED
  BY <1>3, <1>4 DEF SockInv

\* The answer of an operation, and the check of the owner of an approval.
LEMMA CheckKeeps ==
    ASSUME SockInv, NEW j \in Jobs, Reply(j) \/ CheckOwner(j) PROVE SockInv'
<1>1. /\ job[j].pc # "ack" /\ UNCHANGED <<row, acks>>
      /\ UNCHANGED <<io, handshake, connections, askVars, received, listVars, shown>>
  BY DEF Reply, CheckOwner
<1>2. JobInv'
  <2>1. CASE job' = [job EXCEPT ![j] = IdleJob]
    BY <1>1, <2>1, IdleTyped, HandlerMoves
  <2>2. CASE /\ job[j].pc = "get" /\ job[j].user = ApprovalOwner[job[j].ap]
             /\ job' = [job EXCEPT ![j] = [job[j] EXCEPT !.pc = "decide"]]
    <3> PICK n : n = [job[j] EXCEPT !.pc = "decide"]
      OBVIOUS
    <3>1. job[j] \in JobRecs /\ job[j].ap \in Approvals
      BY <2>2 DEF SockInv, JobInv, JobTypes, Decisions
    <3>2. n \in JobRecs /\ n.pc = "decide" /\ n.user = job[j].user /\ n.ap = job[j].ap
      BY <3>1 DEF JobRecs
    <3> QED
      BY <1>1, <2>2, <3>1, <3>2, HandlerMoves
  <2> QED
    BY <2>1, <2>2 DEF Reply, CheckOwner
<1>3. ListInv' /\ ConnInv'
  BY <1>1, ListsKept, ConnectionsKept DEF SockInv, listVars
<1> QED
  BY <1>2, <1>3 DEF SockInv

\* approvalService.decide: of the handlers that got this far, the first finds
\* the row PENDING and is the one to acknowledge.
LEMMA DecideKeeps == ASSUME SockInv, NEW j \in Jobs, Decide(j) PROVE SockInv'
<1>1. /\ job[j].pc = "decide" /\ UNCHANGED acks
      /\ UNCHANGED <<io, handshake, connections, askVars, received, listVars, shown>>
  BY DEF Decide
<1> PICK a \in Approvals : a = job[j].ap
  BY <1>1 DEF SockInv, JobInv, Decisions
<1>2. ListInv' /\ ConnInv'
  BY <1>1, ListsKept, ConnectionsKept DEF SockInv, listVars
<1>3. CASE row[a] # "PENDING"
  <2>1. job' = [job EXCEPT ![j] = IdleJob] /\ row' = row
    BY <1>3 DEF Decide
  <2>2. JobInv'
    BY <1>1, <2>1, IdleTyped, HandlerMoves
  <2> QED
    BY <1>2, <2>2 DEF SockInv
<1>4. CASE row[a] = "PENDING"
  <2> PICK n : n = [job[j] EXCEPT !.pc = "ack"]
    OBVIOUS
  <2> PICK u : u = job[j].user
    OBVIOUS
  <2>1. job[j] \in JobRecs /\ u = ApprovalOwner[a] /\ u \in SUsers
    BY <1>1, SockAssumption DEF SockInv, JobInv, JobTypes, Decisions
  <2>2. n \in JobRecs /\ n.pc = "ack" /\ n.ap = a
    BY <2>1 DEF JobRecs
  <2>3. job' = [job EXCEPT ![j] = n] /\ row' = [row EXCEPT ![a] = u]
    BY <1>4 DEF Decide
  <2>4. JobTypes'
    BY <1>1, <2>1, <2>2, <2>3 DEF SockInv, JobInv, JobTypes
  <2>5. job'[j] = n /\ \A i \in Jobs : i # j => job'[i] = job[i]
    BY <2>3 DEF SockInv, JobInv, JobTypes
  <2>6. row[a] \notin {ApprovalOwner[a]} /\ Acking(a) = {} /\ acks[a] = 0
    BY <1>4, SockAssumption DEF SockInv, JobInv, Decisions, DecisionStage
  <2>7. Acking(a)' = {j} /\ \A b \in Approvals : b # a => Acking(b)' = Acking(b)
    <3>1. \A b \in Approvals : \A i \in Jobs : i # j => (i \in Acking(b)' <=> i \in Acking(b))
      BY <2>5 DEF Acking
    <3>2. j \in Acking(a)' /\ \A b \in Approvals : b # a => j \notin Acking(b)'
      BY <2>2, <2>5 DEF Acking
    <3>3. \A b \in Approvals : j \notin Acking(b) /\ Acking(b) \subseteq Jobs /\ Acking(b)' \subseteq Jobs
      BY <1>1 DEF Acking
    <3> QED
      BY <2>6, <3>1, <3>2, <3>3
  <2>8. row'[a] = u /\ \A b \in Approvals : b # a => row'[b] = row[b]
    BY <2>3 DEF SockInv, JobInv, JobTypes
  <2>9. \A b \in Approvals : DecisionStage(b)'
    BY <1>1, <2>1, <2>6, <2>7, <2>8 DEF SockInv, JobInv, Decisions, DecisionStage
  <2>10. /\ \A i \in Jobs : job'[i].pc \in {"get", "decide", "ack"} => job'[i].ap \in Approvals
         /\ \A i \in Jobs : job'[i].pc = "decide" => job'[i].user = ApprovalOwner[job'[i].ap]
    BY <2>2, <2>5 DEF SockInv, JobInv, Decisions
  <2> QED
    BY <1>2, <2>4, <2>9, <2>10 DEF SockInv, JobInv, Decisions
<1> QED
  BY <1>3, <1>4

\* The acknowledgement: the handler that decided is the only one.
LEMMA AcknowledgeKeeps == ASSUME SockInv, NEW j \in Jobs, Acknowledge(j) PROVE SockInv'
<1>1. /\ job[j].pc = "ack" /\ job' = [job EXCEPT ![j] = IdleJob] /\ UNCHANGED row
      /\ acks' = [acks EXCEPT ![job[j].ap] = @ + 1]
      /\ UNCHANGED <<io, handshake, connections, askVars, received, listVars, shown>>
  BY DEF Acknowledge
<1> PICK a \in Approvals : a = job[j].ap
  BY <1>1 DEF SockInv, JobInv, Decisions
<1>2. ListInv' /\ ConnInv'
  BY <1>1, ListsKept, ConnectionsKept DEF SockInv, listVars
<1>3. JobTypes'
  BY <1>1, IdleTyped DEF SockInv, JobInv, JobTypes
<1>4. job'[j] = IdleJob /\ \A i \in Jobs : i # j => job'[i] = job[i]
  BY <1>1 DEF SockInv, JobInv, JobTypes
<1>5. j \in Acking(a)
  BY <1>1 DEF Acking
<1>6. row[a] = ApprovalOwner[a] /\ acks[a] = 0 /\ Acking(a) = {j}
  BY <1>5 DEF SockInv, JobInv, Decisions, DecisionStage
<1>7. Acking(a)' = {} /\ \A b \in Approvals : b # a => Acking(b)' = Acking(b)
  BY <1>4, <1>6, IdleTyped DEF Acking
<1>8. acks'[a] = 1 /\ \A b \in Approvals : b # a => acks'[b] = acks[b]
  BY <1>1, <1>6 DEF SockInv, JobInv, JobTypes
<1>9. \A b \in Approvals : DecisionStage(b)'
  BY <1>1, <1>6, <1>7, <1>8 DEF SockInv, JobInv, Decisions, DecisionStage
<1>10. /\ \A i \in Jobs : job'[i].pc \in {"get", "decide", "ack"} => job'[i].ap \in Approvals
       /\ \A i \in Jobs : job'[i].pc = "decide" => job'[i].user = ApprovalOwner[job'[i].ap]
  BY <1>4, IdleTyped DEF SockInv, JobInv, Decisions
<1> QED
  BY <1>2, <1>3, <1>9, <1>10 DEF SockInv, JobInv, Decisions

\* The expiry of an approval that is still undecided.
LEMMA ExpireKeeps == ASSUME SockInv, NEW a \in Approvals, Expire(a) PROVE SockInv'
<1>1. /\ row[a] = "PENDING" /\ row' = [row EXCEPT ![a] = "EXPIRED"] /\ UNCHANGED <<job, acks>>
      /\ UNCHANGED <<io, handshake, connections, askVars, received, listVars, shown>>
  BY DEF Expire
<1>2. ListInv' /\ ConnInv'
  BY <1>1, ListsKept, ConnectionsKept DEF SockInv, listVars
<1>3. JobTypes'
  BY <1>1 DEF SockInv, JobInv, JobTypes
<1>4. row[a] # ApprovalOwner[a]
  BY <1>1, SockAssumption
<1>5. row'[a] = "EXPIRED" /\ \A b \in Approvals : b # a => row'[b] = row[b]
  BY <1>1 DEF SockInv, JobInv, JobTypes
<1>6. \A b \in Approvals : Acking(b)' = Acking(b)
  BY <1>1 DEF Acking
<1>7. \A b \in Approvals : DecisionStage(b)'
  BY <1>1, <1>4, <1>5, <1>6 DEF SockInv, JobInv, Decisions, DecisionStage
<1>8. Decisions'
  BY <1>1, <1>7 DEF SockInv, JobInv, Decisions
<1> QED
  BY <1>2, <1>3, <1>8 DEF SockInv, JobInv

-----------------------------------------------------------------------------
(* Sockets: the theorem *)

\* The invariant is inductive.
LEMMA SockStep == SockInv /\ [SockNext]_sockVars => SockInv'
<1> SUFFICES ASSUME SockInv, [SockNext]_sockVars PROVE SockInv'
  OBVIOUS
<1>1. CASE ServerStep
  BY <1>1, ShutdownKeeps, AuthenticateKeeps, RejectKeeps, ConnectKeeps, DisconnectKeeps
     DEF ServerStep, DeviceStep
<1>2. CASE AskStep
  BY <1>2, SendRequestKeeps, AnswerKeeps DEF AskStep
<1>3. CASE ListStep
  BY <1>3, ChangeSessionsKeeps, AnnounceKeeps, ReadSessionsKeeps, PushSessionsKeeps DEF ListStep
<1>4. CASE JobStep
  BY <1>4, EventKeeps, CheckKeeps, DecideKeeps, AcknowledgeKeeps, ExpireKeeps DEF JobStep
<1>5. CASE UNCHANGED sockVars
  BY <1>5, JobsKept, ListsKept, ConnectionsKept
     DEF SockInv, sockVars, listVars, askVars, jobVars
<1> QED
  BY <1>1, <1>2, <1>3, <1>4, <1>5 DEF SockNext

\* The inductive invariant holds in every state: the connections of a user, the
\* requests that wait for its devices, the session lists on their way and the
\* decisions on approvals agree (SocketService.ts, SocketNotifier.ts).
THEOREM SocketsInvariant == SockSpec => []SockInv
BY SockInitial, SockStep, PTL DEF SockSpec

\* The invariant implies what devices are promised: of the handlers about to
\* acknowledge an approval and the acknowledgements there is one at most.
LEMMA SockInvImplies == SockInv => DevicesServed
<1> SUFFICES ASSUME SockInv PROVE DevicesServed
  OBVIOUS
<1>1. SockTypeOK
  BY DEF SockInv, ConnInv, ListInv, JobInv, ServerTypes, AskTypes, ListTypes, JobTypes, JobRecs,
         DevicesApart, SockTypeOK
<1>2. NoPendingOffline
  BY DEF SockInv, ConnInv, PendingServed, NoPendingOffline, Online
<1>3. SessionListShown
  BY DEF SockInv, ListInv, ListsCurrent, SessionListShown
<1>4. OneDecision
  <2> SUFFICES ASSUME NEW a \in Approvals
               PROVE  /\ acks[a] + Cardinality(Acking(a)) <= 1
                      /\ row[a] \in {"PENDING", "EXPIRED", ApprovalOwner[a]}
                      /\ acks[a] = 1 => row[a] = ApprovalOwner[a]
    BY DEF OneDecision, Acking
  <2>1. DecisionStage(a)
    BY DEF SockInv, JobInv, Decisions
  <2>2. CASE Acking(a) = {}
    BY <2>1, <2>2, FS_EmptySet DEF DecisionStage
  <2>3. CASE \E j \in Jobs : Acking(a) = {j}
    <3>1. Cardinality(Acking(a)) = 1
      BY <2>3, FS_Singleton
    <3> QED
      BY <2>1, <2>3, <3>1 DEF DecisionStage
  <2> QED
    BY <2>1, <2>2, <2>3 DEF DecisionStage
<1> QED
  BY <1>1, <1>2, <1>3, <1>4 DEF DevicesServed

\* What devices are promised, for every number of users, devices, requests and
\* approvals: requests are pending only for users who can answer, lists are
\* current unless a change is under way or was announced between a read and its
\* push, and an approval is acknowledged once, to its owner (SocketService.ts,
\* SocketNotifier.ts).
THEOREM DevicesAreServed == SockSpec => []DevicesServed
BY SocketsInvariant, SockInvImplies, PTL


-----------------------------------------------------------------------------
(* Request routing: the inductive invariant *)

Downs == [epoch : 0 .. MaxEpoch, did : Nat]
Entries == [here : BOOLEAN, token : BOOLEAN, down : Downs]
Sent == [at : Downs, token : Proxies \cup {NoProxy}, call : Calls]
Keys == RSess \X Dids

CallTypes ==
    /\ rpc \in [Calls -> {"new", "retry", "avail", "gate", "ready", "wait", "timeout", "closed"} \cup Ended]
    /\ kind \in [Calls -> Kinds \cup {"none"}]
    /\ tries \in [Calls -> 0 .. RetryLimit]
    /\ client \in [Calls -> 0 .. MaxEpoch]
    /\ down \in [Calls -> Downs]
    /\ gen \in [Calls -> Nat]
    /\ mine \in [Calls -> SUBSET Proxies]
MapTypes ==
    /\ clientToProxy \in [Calls -> Proxies \cup {NoProxy}]
    /\ proxyToClient \subseteq Proxies
    /\ proxyToDownstream \in [Proxies -> Entries]
    /\ downstreamToProxy \in [Keys -> Proxies \cup {NoProxy}]
LineTypes ==
    /\ opened \in 1 .. MaxEpoch /\ epoch \in 0 .. opened
    /\ nextDid \in [1 .. MaxEpoch -> Nat]
    /\ wire \subseteq Sent
    /\ live \subseteq RSess

\* The maps agree; a downstream key is of the session of its proxy id, and only
\* of an id that was recorded.
Mirror ==
    /\ \A c \in Calls : clientToProxy[c] # NoProxy =>
        proxyToDownstream[clientToProxy[c]].here /\ clientToProxy[c][1] = c
    /\ \A p \in Proxies :
        /\ proxyToDownstream[p].here <=> p \in proxyToClient
        /\ proxyToDownstream[p].here => clientToProxy[p[1]] = p
        /\ ~proxyToDownstream[p].here => proxyToDownstream[p].down = NoDown
        /\ proxyToDownstream[p].down = NoDown \/ proxyToDownstream[p].down.epoch # 0
    /\ \A k \in Keys : downstreamToProxy[k] # NoProxy =>
        /\ proxyToDownstream[downstreamToProxy[k]].here
        /\ proxyToDownstream[downstreamToProxy[k]].down # NoDown
        /\ proxyToDownstream[downstreamToProxy[k]].down.did = k[2]
        /\ downstreamToProxy[k][1][1] = k[1]

\* Ids are given out in order on each connection: what is recorded for a
\* request is on the wire for that request and no other.
Owned ==
    /\ \A w \in wire : w.at.epoch # 0 /\ w.at.did < nextDid[w.at.epoch]
    /\ \A p \in Proxies : proxyToDownstream[p].down # NoDown =>
        /\ proxyToDownstream[p].down.did < nextDid[proxyToDownstream[p].down.epoch]
        /\ \A w \in wire : w.at = proxyToDownstream[p].down => w.call = p[1]

\* A mapping is one its call registered and will remove; a call registers once
\* in an attempt, and sends on the connection it captured.
CallSound(c) ==
    /\ \A p \in mine[c] : p[1] = c
    /\ rpc[c] \in Ended => mine[c] = {}
    /\ gen[c] <= tries[c] + 1
    /\ rpc[c] \in {"new", "retry", "avail", "gate"} => gen[c] <= tries[c]
    /\ rpc[c] \in {"gate", "ready", "wait"} => client[c] # 0
    /\ rpc[c] = "wait" => down[c].epoch = client[c]
CallsSound ==
    /\ \A c \in Calls : CallSound(c)
    /\ \A p \in Proxies : proxyToDownstream[p].here => p \in mine[p[1]]

RtInv == CallTypes /\ MapTypes /\ LineTypes /\ Mirror /\ Owned /\ CallsSound /\ ~astray /\ ~late

\* Proxy ids and keys are pairs.
LEMMA Pairs ==
    /\ \A c \in Calls : c[1] \in RSess
    /\ \A p \in Proxies : p # NoProxy /\ p[1] \in Calls
    /\ \A c \in Calls : \A g \in Gens : <<c, g>> \in Proxies /\ <<c, g>>[1] = c
    /\ \A k \in Keys : k = <<k[1], k[2]>>
<1>1. \A c \in Calls : c[1] \in RSess
  BY DEF Calls
<1>2. \A p \in Proxies : p[1] \in Calls /\ p = <<p[1], p[2]>>
  BY DEF Proxies
<1>3. \A p \in Proxies : p # NoProxy
  <2> SUFFICES ASSUME NEW p \in Proxies, p = <<>> PROVE FALSE
    BY DEF NoProxy
  <2>1. Len(<<p[1], p[2]>>) = 2 /\ Len(<<>>) = 0
    OBVIOUS
  <2> QED
    BY <1>2, <2>1
<1>4. \A c \in Calls : \A g \in Gens : <<c, g>> \in Proxies /\ <<c, g>>[1] = c
  BY DEF Proxies
<1>5. \A k \in Keys : k = <<k[1], k[2]>>
  BY DEF Keys
<1> QED
  BY <1>1, <1>2, <1>3, <1>4, <1>5

\* The empty records.
LEMMA Nothings ==
    /\ NoDown \in Downs /\ NoDown.epoch = 0 /\ NoDown.did = 0
    /\ NoEntry \in Entries /\ ~NoEntry.here /\ NoEntry.down = NoDown
BY RtAssumption DEF NoDown, NoEntry, Downs, Entries

\* Initially there are no requests, no mappings and one connection.
LEMMA RtInitial == RtInit => RtInv
<1> SUFFICES ASSUME RtInit PROVE RtInv
  OBVIOUS
<1>1. CallTypes
  BY RtAssumption, Nothings DEF RtInit, CallTypes
<1>2. MapTypes
  BY Nothings DEF RtInit, MapTypes, Keys
<1>3. LineTypes
  BY RtAssumption DEF RtInit, LineTypes
<1>4. Mirror
  BY Nothings DEF RtInit, Mirror, Keys
<1>5. Owned
  BY Nothings DEF RtInit, Owned
<1>6. CallsSound
  BY Nothings DEF RtInit, CallsSound, CallSound, Ended
<1> QED
  BY <1>1, <1>2, <1>3, <1>4, <1>5, <1>6 DEF RtInit, RtInv

-----------------------------------------------------------------------------
(* Request routing: the maps *)

\* removeMapping keeps the maps in agreement, and removes exactly the ids it is
\* given (RequestIdMapper.ts).
LEMMA RemovedMaps ==
    ASSUME RtInv, NEW c \in Calls, NEW ps \in SUBSET Proxies, \A p \in ps : p[1] = c, Removed(c, ps)
    PROVE  /\ MapTypes' /\ Mirror'
           /\ \A p \in Proxies : proxyToDownstream'[p].here <=> proxyToDownstream[p].here /\ p \notin ps
           /\ \A p \in Proxies : proxyToDownstream'[p] \in {proxyToDownstream[p], NoEntry}
<1> PICK gone \in SUBSET Proxies : gone = {p \in ps : proxyToDownstream[p].here}
  OBVIOUS
<1>1. /\ clientToProxy' = [clientToProxy EXCEPT ![c] = IF gone # {} THEN NoProxy ELSE @]
      /\ proxyToClient' = proxyToClient \ gone
      /\ proxyToDownstream' = [p \in Proxies |-> IF p \in gone THEN NoEntry ELSE proxyToDownstream[p]]
      /\ downstreamToProxy' = [k \in Keys |->
           IF \E p \in gone : /\ proxyToDownstream[p].down # NoDown
                              /\ k = <<c[1], proxyToDownstream[p].down.did>>
           THEN NoProxy ELSE downstreamToProxy[k]]
  BY DEF Removed, Keys
<1>2. MapTypes'
  BY <1>1, Nothings DEF RtInv, MapTypes
<1>3. \A p \in gone : p[1] = c /\ clientToProxy[c] = p
  BY DEF RtInv, Mirror
<1>4. \A q \in Calls : clientToProxy'[q] = IF q = c /\ gone # {} THEN NoProxy ELSE clientToProxy[q]
  BY <1>1 DEF RtInv, MapTypes
<1>5. \A p \in Proxies : proxyToDownstream'[p] = IF p \in gone THEN NoEntry ELSE proxyToDownstream[p]
  BY <1>1
<1>6. \A q \in Calls : clientToProxy'[q] # NoProxy =>
        proxyToDownstream'[clientToProxy'[q]].here /\ clientToProxy'[q][1] = q
  <2> SUFFICES ASSUME NEW q \in Calls, clientToProxy'[q] # NoProxy
               PROVE  proxyToDownstream'[clientToProxy'[q]].here /\ clientToProxy'[q][1] = q
    OBVIOUS
  <2>1. clientToProxy'[q] = clientToProxy[q] /\ clientToProxy[q] \in Proxies
    BY <1>4 DEF RtInv, MapTypes
  <2>2. clientToProxy[q][1] = q /\ proxyToDownstream[clientToProxy[q]].here
    BY <2>1 DEF RtInv, Mirror
  <2>3. clientToProxy[q] \notin gone
    BY <1>3, <1>4, <2>2
  <2> QED
    BY <1>5, <2>1, <2>2, <2>3
<1>7. \A p \in Proxies :
        /\ proxyToDownstream'[p].here <=> p \in proxyToClient'
        /\ proxyToDownstream'[p].here => clientToProxy'[p[1]] = p
        /\ ~proxyToDownstream'[p].here => proxyToDownstream'[p].down = NoDown
        /\ proxyToDownstream'[p].down = NoDown \/ proxyToDownstream'[p].down.epoch # 0
  <2> SUFFICES ASSUME NEW p \in Proxies
               PROVE  /\ proxyToDownstream'[p].here <=> p \in proxyToClient'
                      /\ proxyToDownstream'[p].here => clientToProxy'[p[1]] = p
                      /\ ~proxyToDownstream'[p].here => proxyToDownstream'[p].down = NoDown
                      /\ proxyToDownstream'[p].down = NoDown \/ proxyToDownstream'[p].down.epoch # 0
    OBVIOUS
  <2>1. CASE p \in gone
    BY <1>1, <1>5, <2>1, Nothings
  <2>2. CASE p \notin gone
    <3>1. proxyToDownstream'[p] = proxyToDownstream[p] /\ (p \in proxyToClient' <=> p \in proxyToClient)
      BY <1>1, <1>5, <2>2
    <3>2. proxyToDownstream[p].here => clientToProxy[p[1]] = p /\ (p[1] = c => gone = {})
      BY <1>3, <2>2 DEF RtInv, Mirror
    <3>3. p[1] \in Calls
      BY Pairs
    <3> QED
      BY <1>4, <3>1, <3>2, <3>3 DEF RtInv, Mirror
  <2> QED
    BY <2>1, <2>2
<1>8. \A k \in Keys : downstreamToProxy'[k] # NoProxy =>
        /\ proxyToDownstream'[downstreamToProxy'[k]].here
        /\ proxyToDownstream'[downstreamToProxy'[k]].down # NoDown
        /\ proxyToDownstream'[downstreamToProxy'[k]].down.did = k[2]
        /\ downstreamToProxy'[k][1][1] = k[1]
  <2> SUFFICES ASSUME NEW k \in Keys, downstreamToProxy'[k] # NoProxy
               PROVE  /\ proxyToDownstream'[downstreamToProxy'[k]].here
                      /\ proxyToDownstream'[downstreamToProxy'[k]].down # NoDown
                      /\ proxyToDownstream'[downstreamToProxy'[k]].down.did = k[2]
                      /\ downstreamToProxy'[k][1][1] = k[1]
    OBVIOUS
  <2> PICK p : p = downstreamToProxy[k]
    OBVIOUS
  <2>1. downstreamToProxy'[k] = p /\ p \in Proxies
    BY <1>1 DEF RtInv, MapTypes
  <2>2. /\ proxyToDownstream[p].down # NoDown /\ proxyToDownstream[p].here
        /\ proxyToDownstream[p].down.did = k[2] /\ p[1][1] = k[1]
    BY <2>1 DEF RtInv, Mirror
  <2>3. p \notin gone
    <3> SUFFICES ASSUME p \in gone PROVE FALSE
      OBVIOUS
    <3>1. k = <<c[1], proxyToDownstream[p].down.did>>
      BY <1>3, <2>2, Pairs
    <3> QED
      BY <1>1, <2>2, <3>1
  <2> QED
    BY <1>5, <2>1, <2>2, <2>3
<1>9. Mirror'
  BY <1>6, <1>7, <1>8 DEF Mirror
<1> QED
  BY <1>2, <1>5, <1>9, Nothings

\* What is recorded stays owned when mappings and messages only go.
LEMMA OwnedKept ==
    ASSUME RtInv, wire' \subseteq wire, UNCHANGED nextDid,
           \A p \in Proxies : proxyToDownstream'[p].down \in {proxyToDownstream[p].down, NoDown}
    PROVE  Owned'
BY DEF RtInv, Owned

\* The types of a call that moves on in its handler.
LEMMA FinishKeeps ==
    ASSUME RtInv, NEW c \in Calls, NEW how \in Ended, Finish(c, how),
           wire' \subseteq wire, UNCHANGED <<epoch, opened, nextDid, histVars>>
    PROVE  RtInv'
<1> USE DEF histVars
<1>1. mine[c] \in SUBSET Proxies /\ (\A p \in mine[c] : p[1] = c) /\ Removed(c, mine[c])
  BY DEF RtInv, CallTypes, CallsSound, CallSound, Finish
<1>2. /\ MapTypes' /\ Mirror'
      /\ \A p \in Proxies : proxyToDownstream'[p].here <=> proxyToDownstream[p].here /\ p \notin mine[c]
      /\ \A p \in Proxies : proxyToDownstream'[p] \in {proxyToDownstream[p], NoEntry}
  BY <1>1, RemovedMaps
<1>3. CallTypes'
  BY RtAssumption, Nothings DEF RtInv, CallTypes, Finish
<1>4. LineTypes'
  BY DEF RtInv, LineTypes
<1>5. Owned'
  BY <1>2, OwnedKept, Nothings
<1>6. \A q \in Calls : CallSound(q)'
  <2> SUFFICES ASSUME NEW q \in Calls PROVE CallSound(q)'
    OBVIOUS
  <2>1. CASE q = c
    <3>1. mine'[c] = {} /\ gen'[c] = 0 /\ rpc'[c] = how /\ tries'[c] = tries[c] /\ tries[c] \in Nat
      BY RtAssumption DEF RtInv, CallTypes, Finish
    <3> QED
      BY <2>1, <3>1 DEF CallSound, Ended
  <2>2. CASE q # c
    <3>1. /\ rpc'[q] = rpc[q] /\ mine'[q] = mine[q] /\ gen'[q] = gen[q] /\ tries'[q] = tries[q]
          /\ client'[q] = client[q] /\ down'[q] = down[q]
      BY <2>2 DEF RtInv, CallTypes, Finish
    <3> QED
      BY <3>1 DEF RtInv, CallsSound, CallSound
  <2> QED
    BY <2>1, <2>2
<1>7. \A p \in Proxies : proxyToDownstream'[p].here => p \in mine'[p[1]]
  BY <1>2, Pairs DEF RtInv, CallTypes, CallsSound, Finish
<1> QED
  BY <1>2, <1>3, <1>4, <1>5, <1>6, <1>7 DEF RtInv, CallsSound


\* A call that moves on without touching the maps or the wire.
LEMMA MoveKeeps ==
    ASSUME RtInv, NEW c \in Calls, CallTypes', UNCHANGED <<mine, gen, down, mapVars, connVars, histVars>>,
           \A q \in Calls : q # c => rpc'[q] = rpc[q] /\ tries'[q] = tries[q] /\ client'[q] = client[q],
           CallSound(c)'
    PROVE  RtInv'
<1> USE DEF mapVars, connVars, histVars
<1>1. MapTypes' /\ LineTypes'
  BY DEF RtInv, MapTypes, LineTypes
<1>2. Mirror'
  BY DEF RtInv, Mirror
<1>3. Owned'
  BY DEF RtInv, Owned
<1>4. \A q \in Calls : CallSound(q)'
  <2> SUFFICES ASSUME NEW q \in Calls, q # c PROVE CallSound(q)'
    OBVIOUS
  <2>1. CallSound(q)
    BY DEF RtInv, CallsSound
  <2> QED
    BY <2>1 DEF CallSound
<1>5. CallsSound'
  BY <1>4 DEF RtInv, CallsSound
<1> QED
  BY <1>1, <1>2, <1>3, <1>5 DEF RtInv

\* The start of an attempt.
LEMMA EnterKeeps ==
    ASSUME RtInv, NEW c \in Calls, NEW k \in Kinds, NEW outcomes \in SUBSET {"error", "done"},
           Enter(c, k, outcomes)
    PROVE  RtInv'
<1>1. CASE \E how \in outcomes : Finish(c, how)
  <2> PICK how \in Ended : Finish(c, how)
    BY <1>1 DEF Ended
  <2>1. wire' \subseteq wire /\ UNCHANGED <<epoch, opened, nextDid, histVars>>
    BY DEF Enter, connVars
  <2> QED
    BY <2>1, FinishKeeps
<1>2. CASE /\ rpc' = [rpc EXCEPT ![c] = "avail"] /\ kind' = [kind EXCEPT ![c] = k]
           /\ UNCHANGED <<tries, client, down, gen, mine, mapVars>>
  <2>1. CallTypes'
    BY <1>2 DEF RtInv, CallTypes
  <2>2. rpc'[c] = "avail" /\ rpc[c] \in {"new", "retry"} /\ \A q \in Calls : q # c => rpc'[q] = rpc[q]
    BY <1>2 DEF RtInv, CallTypes, Enter
  <2>3. CallSound(c)'
    BY <1>2, <2>2 DEF RtInv, CallsSound, CallSound, Ended
  <2> QED
    BY <1>2, <2>1, <2>2, <2>3, MoveKeeps DEF Enter
<1> QED
  BY <1>1, <1>2 DEF Enter

\* A request that ends before it is sent, or with its answer.
LEMMA EndKeeps ==
    ASSUME RtInv, NEW c \in Calls,
           \/ NoServer(c) \/ Denied(c) \/ Followed(c)
           \/ \E k \in Kinds : Answer(c, k) \/ Fail(c, k)
    PROVE  RtInv'
<1>1. /\ \E how \in Ended : Finish(c, how)
      /\ wire' \subseteq wire /\ UNCHANGED <<epoch, opened, nextDid, histVars>>
  <2>1. CASE NoServer(c) \/ Denied(c) \/ Followed(c)
    BY <2>1 DEF NoServer, Denied, Followed, Ended, connVars
  <2>2. CASE \E k \in Kinds : Answer(c, k)
    BY <2>2 DEF Answer, Ended
  <2>3. CASE \E k \in Kinds : Fail(c, k)
    BY <2>3 DEF Fail, Ended, connVars
  <2> QED
    BY <2>1, <2>2, <2>3
<1> QED
  BY <1>1, FinishKeeps

\* A tool call captures the connection.
LEMMA CaptureForToolKeeps == ASSUME RtInv, NEW c \in Calls, CaptureForTool(c) PROVE RtInv'
<1>0. epoch \in 0 .. MaxEpoch
  BY RtAssumption DEF RtInv, LineTypes
<1>1. CallTypes'
  BY <1>0 DEF RtInv, CallTypes, CaptureForTool
<1>2. /\ rpc'[c] = "gate" /\ rpc[c] = "avail" /\ client'[c] = epoch /\ epoch # 0
      /\ \A q \in Calls : q # c => rpc'[q] = rpc[q] /\ client'[q] = client[q]
  BY DEF RtInv, CallTypes, CaptureForTool
<1>3. CallSound(c)'
  BY <1>2 DEF RtInv, CallsSound, CallSound, Ended, CaptureForTool
<1> QED
  BY <1>1, <1>2, <1>3, MoveKeeps DEF CaptureForTool

\* The time-out of the SDK and the retry.
LEMMA RetryKeeps == ASSUME RtInv, NEW c \in Calls, TimesOut(c) \/ Retry(c) PROVE RtInv'
<1>1. CASE TimesOut(c)
  <2>1. CallTypes'
    BY <1>1 DEF RtInv, CallTypes, TimesOut
  <2>2. rpc'[c] = "timeout" /\ rpc[c] = "wait" /\ \A q \in Calls : q # c => rpc'[q] = rpc[q]
    BY <1>1 DEF RtInv, CallTypes, TimesOut
  <2>3. CallSound(c)'
    BY <1>1, <2>2 DEF RtInv, CallsSound, CallSound, Ended, TimesOut
  <2> QED
    BY <1>1, <2>1, <2>2, <2>3, MoveKeeps DEF TimesOut
<1>2. CASE Retry(c)
  <2>1. CallTypes'
    BY <1>2, RtAssumption DEF RtInv, CallTypes, Retry
  <2>2. /\ rpc'[c] = "retry" /\ rpc[c] = "timeout" /\ tries'[c] = tries[c] + 1
        /\ tries[c] \in Nat /\ gen[c] \in Nat
        /\ \A q \in Calls : q # c => rpc'[q] = rpc[q] /\ tries'[q] = tries[q]
    BY <1>2, RtAssumption DEF RtInv, CallTypes, Retry
  <2>3. CallSound(c)'
    BY <1>2, <2>2 DEF RtInv, CallsSound, CallSound, Ended, Retry
  <2> QED
    BY <1>2, <2>1, <2>2, <2>3, MoveKeeps DEF Retry
<1> QED
  BY <1>1, <1>2

-----------------------------------------------------------------------------
(* Request routing: registration and sending *)

\* registerClientRequest keeps the maps in agreement: the id of an earlier
\* attempt is used again, a new one has no entry yet.
LEMMA RegisteredMaps ==
    ASSUME RtInv, NEW c \in Calls, Registered(c), gen[c] <= tries[c]
    PROVE  /\ MapTypes' /\ Mirror'
           /\ gen' \in [Calls -> Nat] /\ gen'[c] <= tries[c] + 1
           /\ \A q \in Calls : q # c => gen'[q] = gen[q] /\ mine'[q] = mine[q]
           /\ \E p \in Proxies : /\ p[1] = c /\ mine' = [mine EXCEPT ![c] = @ \cup {p}]
                                 /\ \A x \in Proxies : proxyToDownstream'[x].here <=>
                                        x = p \/ proxyToDownstream[x].here
           /\ \A x \in Proxies : proxyToDownstream'[x].down = proxyToDownstream[x].down
<1> PICK p : p = IF clientToProxy[c] # NoProxy THEN clientToProxy[c] ELSE <<c, gen[c] + 1>>
  OBVIOUS
<1>1. gen[c] + 1 \in Gens /\ gen[c] \in Nat /\ tries[c] \in Nat
  BY RtAssumption DEF RtInv, CallTypes, Gens
<1>2. p \in Proxies /\ p[1] = c
  BY <1>1, Pairs DEF RtInv, MapTypes, Mirror
<1>3. /\ gen' = [gen EXCEPT ![c] = IF clientToProxy[c] # NoProxy THEN @ ELSE @ + 1]
      /\ mine' = [mine EXCEPT ![c] = @ \cup {p}]
      /\ clientToProxy' = [clientToProxy EXCEPT ![c] = p]
      /\ proxyToClient' = proxyToClient \cup {p}
      /\ proxyToDownstream' = [proxyToDownstream EXCEPT ![p].here = TRUE, ![p].token = TRUE]
      /\ UNCHANGED downstreamToProxy
  BY DEF Registered
<1>4. /\ proxyToDownstream' \in [Proxies -> Entries]
      /\ proxyToDownstream'[p].here /\ proxyToDownstream'[p].down = proxyToDownstream[p].down
      /\ \A x \in Proxies : x # p => proxyToDownstream'[x] = proxyToDownstream[x]
  <2> PICK n : n = [proxyToDownstream[p] EXCEPT !.here = TRUE, !.token = TRUE]
    OBVIOUS
  <2>1. proxyToDownstream[p] \in Entries
    BY <1>2 DEF RtInv, MapTypes
  <2>2. n \in Entries /\ n.here /\ n.down = proxyToDownstream[p].down
    BY <2>1 DEF Entries
  <2>3. proxyToDownstream' = [proxyToDownstream EXCEPT ![p] = n]
    BY <1>2, <1>3, <2>1 DEF RtInv, MapTypes, Entries
  <2> QED
    BY <1>2, <2>2, <2>3 DEF RtInv, MapTypes
<1>5. MapTypes'
  BY <1>2, <1>3, <1>4 DEF RtInv, MapTypes
<1>6. clientToProxy'[c] = p /\ \A q \in Calls : q # c => clientToProxy'[q] = clientToProxy[q]
  BY <1>3 DEF RtInv, MapTypes
<1>7. \A x \in Proxies : x[1] = c /\ proxyToDownstream[x].here => x = p
  BY <1>2, Pairs DEF RtInv, Mirror
<1>8. \A q \in Calls : clientToProxy'[q] # NoProxy =>
        proxyToDownstream'[clientToProxy'[q]].here /\ clientToProxy'[q][1] = q
  <2> SUFFICES ASSUME NEW q \in Calls, q # c, clientToProxy'[q] # NoProxy
               PROVE  proxyToDownstream'[clientToProxy'[q]].here /\ clientToProxy'[q][1] = q
    BY <1>2, <1>4, <1>6
  <2>1. clientToProxy'[q] = clientToProxy[q] /\ clientToProxy[q] \in Proxies
    BY <1>6 DEF RtInv, MapTypes
  <2> QED
    BY <1>4, <2>1 DEF RtInv, Mirror
<1>9. \A x \in Proxies :
        /\ proxyToDownstream'[x].here <=> x \in proxyToClient'
        /\ proxyToDownstream'[x].here => clientToProxy'[x[1]] = x
        /\ ~proxyToDownstream'[x].here => proxyToDownstream'[x].down = NoDown
        /\ proxyToDownstream'[x].down = NoDown \/ proxyToDownstream'[x].down.epoch # 0
  <2> SUFFICES ASSUME NEW x \in Proxies
               PROVE  /\ proxyToDownstream'[x].here <=> x \in proxyToClient'
                      /\ proxyToDownstream'[x].here => clientToProxy'[x[1]] = x
                      /\ ~proxyToDownstream'[x].here => proxyToDownstream'[x].down = NoDown
                      /\ proxyToDownstream'[x].down = NoDown \/ proxyToDownstream'[x].down.epoch # 0
    OBVIOUS
  <2>1. CASE x = p
    BY <1>2, <1>3, <1>4, <1>6, <2>1 DEF RtInv, Mirror
  <2>2. CASE x # p
    <3>1. proxyToDownstream'[x] = proxyToDownstream[x] /\ x[1] \in Calls
      BY <1>4, <2>2, Pairs
    <3>2. proxyToDownstream[x].here => x[1] # c
      BY <1>7, <2>2
    <3> QED
      BY <1>3, <1>6, <2>2, <3>1, <3>2 DEF RtInv, Mirror
  <2> QED
    BY <2>1, <2>2
<1>10. \A k \in Keys : downstreamToProxy'[k] # NoProxy =>
        /\ proxyToDownstream'[downstreamToProxy'[k]].here
        /\ proxyToDownstream'[downstreamToProxy'[k]].down # NoDown
        /\ proxyToDownstream'[downstreamToProxy'[k]].down.did = k[2]
        /\ downstreamToProxy'[k][1][1] = k[1]
  <2> SUFFICES ASSUME NEW k \in Keys, downstreamToProxy[k] # NoProxy
               PROVE  /\ proxyToDownstream'[downstreamToProxy[k]].here
                      /\ proxyToDownstream'[downstreamToProxy[k]].down # NoDown
                      /\ proxyToDownstream'[downstreamToProxy[k]].down.did = k[2]
                      /\ downstreamToProxy[k][1][1] = k[1]
    BY <1>3
  <2>1. downstreamToProxy[k] \in Proxies
    BY DEF RtInv, MapTypes
  <2> QED
    BY <1>4, <2>1 DEF RtInv, Mirror
<1>11. Mirror'
  BY <1>8, <1>9, <1>10 DEF Mirror
<1>12. gen' \in [Calls -> Nat] /\ gen'[c] <= tries[c] + 1
       /\ \A q \in Calls : q # c => gen'[q] = gen[q] /\ mine'[q] = mine[q]
  BY <1>1, <1>3 DEF RtInv, CallTypes
<1>13. /\ \A x \in Proxies : proxyToDownstream'[x].here <=> x = p \/ proxyToDownstream[x].here
       /\ \A x \in Proxies : proxyToDownstream'[x].down = proxyToDownstream[x].down
  BY <1>4
<1> QED
  BY <1>2, <1>3, <1>5, <1>11, <1>12, <1>13

\* The registration of a tool call after its gate, and that of the other
\* methods with the capture of the connection.
LEMMA RegisterKeeps ==
    ASSUME RtInv, NEW c \in Calls, RegisterTool(c) \/ \E k \in Kinds : CaptureAndRegister(c, k)
    PROVE  RtInv'
<1> USE DEF connVars, histVars
<1>1. /\ rpc[c] \in {"avail", "gate"} /\ rpc' = [rpc EXCEPT ![c] = "ready"] /\ Registered(c)
      /\ \/ client' = client /\ rpc[c] = "gate"
         \/ client' = [client EXCEPT ![c] = epoch] /\ epoch # 0
      /\ UNCHANGED <<kind, tries, down, connVars, histVars>>
  BY DEF RegisterTool, CaptureAndRegister
<1>2. gen[c] <= tries[c] /\ \A q \in Calls : CallSound(q)
  BY <1>1 DEF RtInv, CallsSound, CallSound
<1>3. /\ MapTypes' /\ Mirror'
      /\ gen' \in [Calls -> Nat] /\ gen'[c] <= tries[c] + 1
      /\ \A q \in Calls : q # c => gen'[q] = gen[q] /\ mine'[q] = mine[q]
      /\ \E p \in Proxies : /\ p[1] = c /\ mine' = [mine EXCEPT ![c] = @ \cup {p}]
                            /\ \A x \in Proxies : proxyToDownstream'[x].here <=>
                                   x = p \/ proxyToDownstream[x].here
      /\ \A x \in Proxies : proxyToDownstream'[x].down = proxyToDownstream[x].down
  BY <1>1, <1>2, RegisteredMaps
<1> PICK p \in Proxies : /\ p[1] = c /\ mine' = [mine EXCEPT ![c] = @ \cup {p}]
                         /\ \A x \in Proxies : proxyToDownstream'[x].here <=>
                                x = p \/ proxyToDownstream[x].here
  BY <1>3
<1>4. CallTypes'
  <2>1. epoch \in 0 .. MaxEpoch
    BY RtAssumption DEF RtInv, LineTypes
  <2>2. mine' \in [Calls -> SUBSET Proxies]
    BY DEF RtInv, CallTypes
  <2> QED
    BY <1>1, <1>3, <2>1, <2>2 DEF RtInv, CallTypes
<1>5. LineTypes'
  BY <1>1 DEF RtInv, LineTypes
<1>6. Owned'
  <2>1. wire' \subseteq wire /\ UNCHANGED nextDid
    BY <1>1
  <2>2. \A x \in Proxies : proxyToDownstream'[x].down \in {proxyToDownstream[x].down, NoDown}
    BY <1>3
  <2> QED
    BY <2>1, <2>2, OwnedKept
<1>7. CallSound(c)'
  <2>1. rpc'[c] = "ready" /\ mine'[c] = mine[c] \cup {p} /\ tries'[c] = tries[c] /\ client'[c] # 0
    BY <1>1, <1>2 DEF RtInv, CallTypes, CallSound
  <2> QED
    BY <1>2, <1>3, <2>1 DEF CallSound, Ended
<1>8. \A q \in Calls : q # c => CallSound(q)'
  <2> SUFFICES ASSUME NEW q \in Calls, q # c PROVE CallSound(q)'
    OBVIOUS
  <2>1. /\ rpc'[q] = rpc[q] /\ tries'[q] = tries[q] /\ client'[q] = client[q] /\ down'[q] = down[q]
        /\ mine'[q] = mine[q] /\ gen'[q] = gen[q]
    BY <1>1, <1>3 DEF RtInv, CallTypes
  <2> QED
    BY <1>2, <2>1 DEF CallSound
<1>9. \A x \in Proxies : proxyToDownstream'[x].here => x \in mine'[x[1]]
  <2>1. \A q \in Calls : mine[q] \subseteq mine'[q] /\ p \in mine'[c]
    BY <1>3 DEF RtInv, CallTypes
  <2> QED
    BY <2>1, Pairs DEF RtInv, CallsSound
<1> QED
  BY <1>1, <1>3, <1>4, <1>5, <1>6, <1>7, <1>8, <1>9 DEF RtInv, CallsSound


\* registerDownstreamMapping keeps the maps in agreement although keys of other
\* connections may be the same (RequestIdMapper.ts:94-131).
LEMMA TrackedMaps ==
    ASSUME RtInv, NEW p \in Proxies, proxyToDownstream[p].here,
           NEW d \in Downs, d.epoch # 0, TrackDownstream(p, d)
    PROVE  /\ MapTypes' /\ Mirror'
           /\ proxyToDownstream'[p].down = d
           /\ \A x \in Proxies : x # p => proxyToDownstream'[x] = proxyToDownstream[x]
           /\ \A x \in Proxies : proxyToDownstream'[x].here <=> proxyToDownstream[x].here
<1> PICK s : s = p[1][1]
  OBVIOUS
<1> PICK old : old = proxyToDownstream[p].down
  OBVIOUS
<1>1. /\ proxyToDownstream' = [proxyToDownstream EXCEPT ![p].down = d]
      /\ downstreamToProxy' = [k \in Keys |->
             IF k = <<s, d.did>> THEN p
             ELSE IF old # NoDown /\ k = <<s, old.did>> THEN NoProxy
             ELSE downstreamToProxy[k]]
      /\ UNCHANGED <<clientToProxy, proxyToClient>>
  BY DEF TrackDownstream, Keys
<1>2. /\ proxyToDownstream' \in [Proxies -> Entries]
      /\ proxyToDownstream'[p].here /\ proxyToDownstream'[p].down = d
      /\ \A x \in Proxies : x # p => proxyToDownstream'[x] = proxyToDownstream[x]
  <2> PICK n : n = [proxyToDownstream[p] EXCEPT !.down = d]
    OBVIOUS
  <2>1. proxyToDownstream[p] \in Entries
    BY DEF RtInv, MapTypes
  <2>2. n \in Entries /\ n.here /\ n.down = d
    BY <2>1 DEF Entries
  <2>3. proxyToDownstream' = [proxyToDownstream EXCEPT ![p] = n]
    BY <1>1, <2>1 DEF RtInv, MapTypes, Entries
  <2> QED
    BY <2>2, <2>3 DEF RtInv, MapTypes
<1>3. MapTypes'
  BY <1>1, <1>2 DEF RtInv, MapTypes
<1>4. d # NoDown
  BY Nothings
<1>5. \A x \in Proxies : proxyToDownstream'[x].here <=> proxyToDownstream[x].here
  BY <1>2
<1>6. \A q \in Calls : clientToProxy'[q] # NoProxy =>
        proxyToDownstream'[clientToProxy'[q]].here /\ clientToProxy'[q][1] = q
  <2> SUFFICES ASSUME NEW q \in Calls, clientToProxy[q] # NoProxy
               PROVE  proxyToDownstream'[clientToProxy[q]].here /\ clientToProxy[q][1] = q
    BY <1>1
  <2>1. clientToProxy[q] \in Proxies
    BY DEF RtInv, MapTypes
  <2> QED
    BY <1>5, <2>1 DEF RtInv, Mirror
<1>7. \A x \in Proxies :
        /\ proxyToDownstream'[x].here <=> x \in proxyToClient'
        /\ proxyToDownstream'[x].here => clientToProxy'[x[1]] = x
        /\ ~proxyToDownstream'[x].here => proxyToDownstream'[x].down = NoDown
        /\ proxyToDownstream'[x].down = NoDown \/ proxyToDownstream'[x].down.epoch # 0
  BY <1>1, <1>2, <1>5 DEF RtInv, Mirror
<1>8. \A k \in Keys : downstreamToProxy'[k] # NoProxy =>
        /\ proxyToDownstream'[downstreamToProxy'[k]].here
        /\ proxyToDownstream'[downstreamToProxy'[k]].down # NoDown
        /\ proxyToDownstream'[downstreamToProxy'[k]].down.did = k[2]
        /\ downstreamToProxy'[k][1][1] = k[1]
  <2> SUFFICES ASSUME NEW k \in Keys, downstreamToProxy'[k] # NoProxy
               PROVE  /\ proxyToDownstream'[downstreamToProxy'[k]].here
                      /\ proxyToDownstream'[downstreamToProxy'[k]].down # NoDown
                      /\ proxyToDownstream'[downstreamToProxy'[k]].down.did = k[2]
                      /\ downstreamToProxy'[k][1][1] = k[1]
    OBVIOUS
  <2>1. CASE k = <<s, d.did>>
    <3>1. downstreamToProxy'[k] = p /\ k[1] = s /\ k[2] = d.did
      BY <1>1, <2>1
    <3> QED
      BY <1>2, <1>4, <3>1
  <2>2. CASE k # <<s, d.did>>
    <3> PICK x : x = downstreamToProxy[k]
      OBVIOUS
    <3>1. downstreamToProxy'[k] = x /\ x \in Proxies /\ ~(old # NoDown /\ k = <<s, old.did>>)
      BY <1>1, <2>2 DEF RtInv, MapTypes
    <3>2. /\ proxyToDownstream[x].here /\ proxyToDownstream[x].down # NoDown
          /\ proxyToDownstream[x].down.did = k[2] /\ x[1][1] = k[1]
      BY <3>1 DEF RtInv, Mirror
    <3>3. x # p
      BY <3>1, <3>2, Pairs
    <3> QED
      BY <1>2, <3>1, <3>2, <3>3
  <2> QED
    BY <2>1, <2>2
<1>9. Mirror'
  BY <1>6, <1>7, <1>8 DEF Mirror
<1> QED
  BY <1>2, <1>3, <1>5, <1>9

\* The wrapped transport keeps the invariant: the id it takes from the counter
\* of the connection is on the wire for nobody else.
LEMMA SendKeeps == ASSUME RtInv, NEW c \in Calls, Send(c) PROVE RtInv'
<1> USE DEF histVars
<1> PICK e \in 0 .. MaxEpoch : e = client[c]
  BY DEF RtInv, CallTypes
<1>1. rpc[c] = "ready" /\ e # 0 /\ e \in 1 .. MaxEpoch /\ \A q \in Calls : CallSound(q)
  BY RtAssumption DEF Send, RtInv, CallsSound, CallSound
<1> PICK d : d = [epoch |-> e, did |-> nextDid[e]]
  OBVIOUS
<1>2. d \in Downs /\ d.epoch = e /\ d.did = nextDid[e] /\ nextDid[e] \in Nat
  BY <1>1 DEF Downs, RtInv, LineTypes
<1>3. CASE e # epoch
  <2>1. /\ rpc' = [rpc EXCEPT ![c] = "closed"]
        /\ UNCHANGED <<kind, tries, client, down, gen, mine, mapVars, connVars, histVars>>
    BY <1>3 DEF Send, connVars
  <2>2. CallTypes'
    BY <2>1 DEF RtInv, CallTypes
  <2>3. rpc'[c] = "closed" /\ \A q \in Calls : q # c => rpc'[q] = rpc[q]
    BY <2>1 DEF RtInv, CallTypes
  <2>4. CallSound(c)'
    BY <1>1, <2>1, <2>3 DEF CallSound, Ended
  <2> QED
    BY <2>1, <2>2, <2>3, <2>4, MoveKeeps
<1>4. CASE e = epoch
  <2> PICK w0 : w0 = [at |-> d, token |-> clientToProxy[c], call |-> c]
    OBVIOUS
  <2>1. /\ rpc' = [rpc EXCEPT ![c] = "wait"] /\ down' = [down EXCEPT ![c] = d]
        /\ nextDid' = [nextDid EXCEPT ![e] = @ + 1] /\ wire' = wire \cup {w0}
        /\ IF c[1] \in live /\ clientToProxy[c] # NoProxy
           THEN TrackDownstream(clientToProxy[c], d) ELSE UNCHANGED mapVars
        /\ UNCHANGED <<kind, tries, client, gen, mine, epoch, opened, histVars>>
    BY <1>4 DEF Send
  <2>2. w0 \in Sent /\ w0.at = d /\ w0.call = c
    BY <1>2 DEF Sent, RtInv, MapTypes
  <2>3. CallTypes'
    BY <1>2, <2>1 DEF RtInv, CallTypes
  <2>4. /\ nextDid'[e] = nextDid[e] + 1 /\ nextDid' \in [1 .. MaxEpoch -> Nat]
        /\ \A i \in 1 .. MaxEpoch : nextDid[i] <= nextDid'[i]
    BY <1>1, <1>2, <2>1 DEF RtInv, LineTypes
  <2>5. LineTypes'
    BY <2>1, <2>2, <2>4 DEF RtInv, LineTypes
  <2>6. /\ MapTypes' /\ Mirror'
        /\ \A x \in Proxies : proxyToDownstream'[x].here <=> proxyToDownstream[x].here
        /\ \A x \in Proxies : \/ proxyToDownstream'[x].down = proxyToDownstream[x].down
                              \/ x[1] = c /\ proxyToDownstream'[x].down = d
    <3>1. CASE c[1] \in live /\ clientToProxy[c] # NoProxy
      <4> PICK p \in Proxies : p = clientToProxy[c]
        BY <3>1 DEF RtInv, MapTypes
      <4>1. proxyToDownstream[p].here /\ p[1] = c /\ TrackDownstream(p, d) /\ d.epoch # 0
        BY <1>1, <1>2, <2>1, <3>1 DEF RtInv, Mirror
      <4> QED
        BY <1>2, <4>1, TrackedMaps
    <3>2. CASE ~(c[1] \in live /\ clientToProxy[c] # NoProxy)
      <4>1. UNCHANGED mapVars
        BY <2>1, <3>2
      <4> QED
        BY <4>1 DEF RtInv, MapTypes, Mirror, mapVars
    <3> QED
      BY <3>1, <3>2
  <2>7. \A w \in wire : /\ w.at.epoch # 0 /\ w.at \in Downs /\ w.at.epoch \in 1 .. MaxEpoch
                        /\ w.at.did < nextDid[w.at.epoch] /\ w.at # d
    BY <1>2 DEF RtInv, LineTypes, Sent, Downs, Owned
  <2>8. \A w \in wire' : w.at.epoch # 0 /\ w.at.did < nextDid'[w.at.epoch]
    <3>1. w0.at.epoch # 0 /\ w0.at.did < nextDid'[w0.at.epoch]
      BY <1>1, <1>2, <2>2, <2>4
    <3>2. \A w \in wire : w.at.did \in Nat /\ nextDid[w.at.epoch] \in Nat
      BY <2>7 DEF Downs, RtInv, LineTypes
    <3>3. \A w \in wire : w.at.did < nextDid'[w.at.epoch]
      BY <2>4, <2>7, <3>2
    <3> QED
      BY <2>1, <2>7, <3>1, <3>3
  <2>9. \A p \in Proxies : proxyToDownstream'[p].down # NoDown =>
          /\ proxyToDownstream'[p].down.did < nextDid'[proxyToDownstream'[p].down.epoch]
          /\ \A w \in wire' : w.at = proxyToDownstream'[p].down => w.call = p[1]
    <3> SUFFICES ASSUME NEW p \in Proxies, proxyToDownstream'[p].down # NoDown
                 PROVE  /\ proxyToDownstream'[p].down.did < nextDid'[proxyToDownstream'[p].down.epoch]
                        /\ \A w \in wire' : w.at = proxyToDownstream'[p].down => w.call = p[1]
      OBVIOUS
    <3>1. CASE p[1] = c /\ proxyToDownstream'[p].down = d
      BY <1>2, <2>1, <2>2, <2>4, <2>7, <3>1
    <3>2. CASE proxyToDownstream'[p].down = proxyToDownstream[p].down
      <4> PICK x : x = proxyToDownstream[p].down
        OBVIOUS
      <4>1. x \in Downs /\ x # NoDown /\ x.epoch # 0
        BY <3>2 DEF RtInv, MapTypes, Entries, Mirror
      <4>2. x.epoch \in 1 .. MaxEpoch /\ x.did \in Nat
        BY <4>1 DEF Downs
      <4>3. x.did < nextDid[x.epoch] /\ \A w \in wire : w.at = x => w.call = p[1]
        BY <4>1 DEF RtInv, Owned
      <4>4. x # d
        BY <1>2, <4>3
      <4>5. x.did < nextDid'[x.epoch]
        BY <2>4, <4>2, <4>3 DEF RtInv, LineTypes
      <4> QED
        BY <2>1, <2>2, <3>2, <4>3, <4>4, <4>5
    <3> QED
      BY <2>6, <3>1, <3>2
  <2>10. Owned'
    BY <2>8, <2>9 DEF Owned
  <2>11. \A q \in Calls : CallSound(q)'
    <3> SUFFICES ASSUME NEW q \in Calls PROVE CallSound(q)'
      OBVIOUS
    <3>1. CASE q = c
      <4>1. rpc'[c] = "wait" /\ down'[c] = d
        BY <2>1 DEF RtInv, CallTypes
      <4> QED
        BY <1>1, <1>2, <2>1, <3>1, <4>1 DEF CallSound, Ended
    <3>2. CASE q # c
      <4>1. rpc'[q] = rpc[q] /\ down'[q] = down[q]
        BY <2>1, <3>2 DEF RtInv, CallTypes
      <4> QED
        BY <1>1, <2>1, <4>1 DEF CallSound
    <3> QED
      BY <3>1, <3>2
  <2>12. CallsSound'
    BY <2>1, <2>6, <2>11 DEF RtInv, CallsSound
  <2> QED
    BY <2>1, <2>3, <2>5, <2>6, <2>10, <2>12 DEF RtInv
<1> QED
  BY <1>3, <1>4

-----------------------------------------------------------------------------
(* Request routing: connections, notifications and cleanup *)

\* The loss of the connection.
LEMMA LoseKeeps == ASSUME RtInv, Lose PROVE RtInv'
<1> USE DEF histVars, mapVars
<1>1. CallTypes'
  BY DEF RtInv, CallTypes, Lose
<1>2. MapTypes' /\ Mirror'
  BY DEF RtInv, MapTypes, Mirror, Lose
<1>3. LineTypes'
  BY DEF RtInv, LineTypes, Lose
<1>4. Owned'
  BY OwnedKept DEF Lose
<1>5. CallsSound'
  <2>1. \A q \in Calls : rpc'[q] = IF rpc[q] = "wait" THEN "closed" ELSE rpc[q]
    BY DEF Lose
  <2>2. \A q \in Calls : CallSound(q)'
    BY <2>1 DEF RtInv, CallsSound, CallSound, Ended, Lose
  <2> QED
    BY <2>2 DEF RtInv, CallsSound, Lose
<1> QED
  BY <1>1, <1>2, <1>3, <1>4, <1>5 DEF RtInv, Lose

\* A step that changes none of the maps, the calls and the wire.
LEMMA QuietKeeps ==
    ASSUME RtInv, UNCHANGED <<callVars, mapVars, nextDid, wire>>, LineTypes', ~astray', ~late'
    PROVE  RtInv'
<1> USE DEF callVars, mapVars
<1>1. CallTypes' /\ MapTypes'
  BY DEF RtInv, CallTypes, MapTypes
<1>2. Mirror' /\ Owned'
  BY DEF RtInv, Mirror, Owned
<1>3. CallsSound'
  BY DEF RtInv, CallsSound, CallSound
<1> QED
  BY <1>1, <1>2, <1>3 DEF RtInv

\* A new connection.
LEMMA ReconnectedKeeps == ASSUME RtInv, Reconnected PROVE RtInv'
<1>1. LineTypes'
  BY RtAssumption DEF RtInv, LineTypes, Reconnected, histVars
<1> QED
  BY <1>1, QuietKeeps DEF RtInv, Reconnected, histVars

\* A cancellation on the connection of its request hits that request
\* (ProxySession.ts:2674-2735).
LEMMA CancelledKeeps == ASSUME RtInv, NEW c \in Calls, HandleCancelled(c) PROVE RtInv'
<1> PICK p \in Proxies : p = clientToProxy[c]
  BY DEF RtInv, MapTypes, HandleCancelled
<1>1. p[1] = c /\ proxyToDownstream[p].down # NoDown /\ CancelId(c) = proxyToDownstream[p].down
  BY DEF RtInv, Mirror, HandleCancelled, CancelId
<1>2. proxyToDownstream[p].down \in Downs
  BY DEF RtInv, MapTypes, Entries
<1>3. \A w \in wire : /\ w.at = [epoch |-> epoch, did |-> CancelId(c).did]
                      /\ CancelId(c).epoch = epoch
                      => w.call = c
  <2> SUFFICES ASSUME NEW w \in wire, w.at = [epoch |-> epoch, did |-> CancelId(c).did],
                      CancelId(c).epoch = epoch
               PROVE  w.call = c
    OBVIOUS
  <2>1. w.at = proxyToDownstream[p].down
    BY <1>1, <1>2 DEF Downs
  <2> QED
    BY <1>1, <2>1 DEF RtInv, Owned
<1>4. ~astray'
  BY <1>3 DEF RtInv, HandleCancelled
<1>5. LineTypes'
  BY DEF RtInv, LineTypes, HandleCancelled, connVars
<1> QED
  BY <1>4, <1>5, QuietKeeps DEF RtInv, HandleCancelled, connVars

\* Progress finds an entry only while its call is under way: the call removes
\* its entries when it ends (ProxySession.ts:2754-2787).
LEMMA ProgressKeeps == ASSUME RtInv, NEW w \in wire, ForwardProgress(w) PROVE RtInv'
<1> PICK p \in Proxies : p = w.token
  BY DEF RtInv, LineTypes, Sent, ForwardProgress
<1>1. proxyToDownstream[p].here
  BY DEF RtInv, Mirror, ForwardProgress
<1>2. rpc[p[1]] \notin Ended
  BY <1>1, Pairs DEF RtInv, CallsSound, CallSound
<1>3. ~late'
  BY <1>2 DEF RtInv, ForwardProgress
<1>4. LineTypes'
  BY DEF RtInv, LineTypes, ForwardProgress, connVars
<1> QED
  BY <1>3, <1>4, QuietKeeps DEF RtInv, ForwardProgress, connVars

\* cleanupExpired.
LEMMA CleanupKeeps == ASSUME RtInv, NEW c \in Calls, CleanupExpired(c) PROVE RtInv'
<1> USE DEF callVars, connVars, histVars
<1> PICK p \in Proxies : p = clientToProxy[c]
  BY DEF RtInv, MapTypes, CleanupExpired
<1>1. {p} \in SUBSET Proxies /\ (\A x \in {p} : x[1] = c) /\ Removed(c, {p})
  BY DEF RtInv, Mirror, CleanupExpired
<1>2. /\ MapTypes' /\ Mirror'
      /\ \A x \in Proxies : proxyToDownstream'[x].here <=> proxyToDownstream[x].here /\ x \notin {p}
      /\ \A x \in Proxies : proxyToDownstream'[x] \in {proxyToDownstream[x], NoEntry}
  BY <1>1, RemovedMaps
<1>3. CallTypes' /\ LineTypes'
  BY DEF RtInv, CallTypes, LineTypes, CleanupExpired
<1>4. Owned'
  BY <1>2, OwnedKept, Nothings DEF CleanupExpired
<1>5. CallsSound'
  BY <1>2 DEF RtInv, CallsSound, CallSound, CleanupExpired
<1> QED
  BY <1>2, <1>3, <1>4, <1>5 DEF RtInv, CleanupExpired

\* The end of a session: its maps are emptied, its handlers go on.
LEMMA CloseSessionKeeps == ASSUME RtInv, NEW s \in RSess, CloseSession(s) PROVE RtInv'
<1> USE DEF callVars, connVars
<1>1. /\ \A c \in Calls : clientToProxy'[c] = IF c[1] = s THEN NoProxy ELSE clientToProxy[c]
      /\ \A p \in Proxies : p \in proxyToClient' <=> p \in proxyToClient /\ p[1][1] # s
      /\ \A p \in Proxies :
            proxyToDownstream'[p] = IF p[1][1] = s THEN NoEntry ELSE proxyToDownstream[p]
      /\ \A k \in Keys : downstreamToProxy'[k] = IF k[1] = s THEN NoProxy ELSE downstreamToProxy[k]
  BY DEF CloseSession, Keys, RtInv, MapTypes
<1>2. MapTypes'
  BY Nothings DEF RtInv, MapTypes, CloseSession, Keys
<1>3. \A c \in Calls : clientToProxy'[c] # NoProxy =>
        proxyToDownstream'[clientToProxy'[c]].here /\ clientToProxy'[c][1] = c
  BY <1>1 DEF RtInv, MapTypes, Mirror
<1>4. \A p \in Proxies :
        /\ proxyToDownstream'[p].here <=> p \in proxyToClient'
        /\ proxyToDownstream'[p].here => clientToProxy'[p[1]] = p
        /\ ~proxyToDownstream'[p].here => proxyToDownstream'[p].down = NoDown
        /\ proxyToDownstream'[p].down = NoDown \/ proxyToDownstream'[p].down.epoch # 0
  BY <1>1, Pairs, Nothings DEF RtInv, Mirror
<1>5. \A k \in Keys : downstreamToProxy'[k] # NoProxy =>
        /\ proxyToDownstream'[downstreamToProxy'[k]].here
        /\ proxyToDownstream'[downstreamToProxy'[k]].down # NoDown
        /\ proxyToDownstream'[downstreamToProxy'[k]].down.did = k[2]
        /\ downstreamToProxy'[k][1][1] = k[1]
  BY <1>1 DEF RtInv, MapTypes, Mirror
<1>6. Mirror'
  BY <1>3, <1>4, <1>5 DEF Mirror
<1>7. CallTypes' /\ LineTypes'
  BY DEF RtInv, CallTypes, LineTypes, CloseSession
<1>8. Owned'
  <2>1. \A p \in Proxies : proxyToDownstream'[p].down \in {proxyToDownstream[p].down, NoDown}
    BY <1>1, Nothings
  <2> QED
    BY <2>1, OwnedKept DEF CloseSession
<1>9. CallsSound'
  <2>1. \A p \in Proxies : proxyToDownstream'[p].here => proxyToDownstream[p].here
    BY <1>1, Nothings
  <2> QED
    BY <2>1 DEF RtInv, CallsSound, CallSound, CloseSession
<1> QED
  BY <1>2, <1>6, <1>7, <1>8, <1>9 DEF RtInv, CloseSession

-----------------------------------------------------------------------------
(* Request routing: the theorem *)

\* The handlers of the four methods keep the invariant.
LEMMA HandlersKeep ==
    ASSUME RtInv, NEW c \in Calls, ToolStep(c) \/ ReadStep(c) \/ PromptStep(c) \/ CompleteStep(c)
    PROVE  RtInv'
<1>1. {"tool", "resource", "prompt", "completion"} \subseteq Kinds
  BY DEF Kinds
<1>2. CASE HandleToolCall(c) \/ HandleResourceRead(c) \/ HandlePromptGet(c) \/ HandleComplete(c)
  <2>1. {"error", "done"} \in SUBSET {"error", "done"} /\ {"error"} \in SUBSET {"error", "done"}
    OBVIOUS
  <2>2. \E k \in Kinds : \E O \in SUBSET {"error", "done"} : Enter(c, k, O)
    BY <1>1, <1>2, <2>1 DEF HandleToolCall, HandleResourceRead, HandlePromptGet, HandleComplete
  <2> QED
    BY <2>2, EnterKeeps
<1>3. CASE CaptureForTool(c)
  BY <1>3, CaptureForToolKeeps
<1>4. CASE RegisterTool(c) \/ CaptureForResource(c) \/ CaptureForPrompt(c) \/ CaptureForComplete(c)
  BY <1>1, <1>4, RegisterKeeps DEF CaptureForResource, CaptureForPrompt, CaptureForComplete
<1>5. CASE Denied(c) \/ \E k \in Kinds : Answer(c, k) \/ Fail(c, k)
  BY <1>5, EndKeeps
<1>6. ASSUME \/ ToolAnswered(c) \/ ToolFailed(c) \/ ResourceAnswered(c) \/ ResourceFailed(c)
             \/ PromptAnswered(c) \/ PromptFailed(c) \/ CompleteAnswered(c) \/ CompleteFailed(c)
      PROVE  \E k \in Kinds : Answer(c, k) \/ Fail(c, k)
  BY <1>1, <1>6 DEF ToolAnswered, ToolFailed, ResourceAnswered, ResourceFailed, PromptAnswered,
     PromptFailed, CompleteAnswered, CompleteFailed
<1> QED
  BY <1>2, <1>3, <1>4, <1>5, <1>6 DEF ToolStep, ReadStep, PromptStep, CompleteStep

\* The invariant is inductive.
LEMMA RtStep == RtInv /\ [RtNextOn(Calls, Kinds)]_rtVars => RtInv'
<1> SUFFICES ASSUME RtInv, [RtNextOn(Calls, Kinds)]_rtVars PROVE RtInv'
  OBVIOUS
<1>1. CASE RtNextOn(Calls, Kinds)
  <2>1. ASSUME NEW c \in Calls, ToolStep(c) \/ ReadStep(c) \/ PromptStep(c) \/ CompleteStep(c)
        PROVE  RtInv'
    BY <2>1, HandlersKeep
  <2>2. ASSUME NEW c \in Calls, \/ NoServer(c) \/ Followed(c) \/ Send(c) \/ TimesOut(c) \/ Retry(c)
                                \/ HandleCancelled(c) \/ CleanupExpired(c)
        PROVE  RtInv'
    BY <2>2, EndKeeps, SendKeeps, RetryKeeps, CancelledKeeps, CleanupKeeps
  <2>3. ASSUME NEW w \in wire, ForwardProgress(w) PROVE RtInv'
    BY <2>3, ProgressKeeps
  <2>4. CASE Lose \/ Reconnected
    BY <2>4, LoseKeeps, ReconnectedKeeps
  <2>5. ASSUME NEW c \in Calls, CloseSession(c[1]) PROVE RtInv'
    BY <2>5, Pairs, CloseSessionKeeps
  <2> QED
    BY <1>1, <2>1, <2>2, <2>3, <2>4, <2>5 DEF RtNextOn
<1>2. CASE UNCHANGED rtVars
  <2>1. LineTypes'
    BY <1>2 DEF RtInv, LineTypes, rtVars
  <2> QED
    BY <1>2, <2>1, QuietKeeps DEF RtInv, rtVars, callVars, mapVars
<1> QED
  BY <1>1, <1>2

\* The inductive invariant holds in every state: calls under way, the four maps of
\* RequestIdMapper.ts and the ids handed out on each connection agree.
THEOREM RoutingInvariant == RtSpec => []RtInv
BY RtInitial, RtStep, PTL DEF RtSpec

\* The invariant implies what requests are promised.
LEMMA RtInvImplies == RtInv => RequestsKeptApart
<1> SUFFICES ASSUME RtInv PROVE RequestsKeptApart
  OBVIOUS
<1>1. RtTypeOK
  BY DEF RtInv, CallTypes, MapTypes, LineTypes, CallsSound, CallSound, RtTypeOK
<1>2. MapsMirror
  <2>1. \A p \in Proxies : proxyToDownstream[p].here \in BOOLEAN
    BY DEF RtInv, MapTypes, Entries
  <2>2. \A p \in Proxies : proxyToDownstream[p].here = (p \in proxyToClient)
    BY <2>1 DEF RtInv, Mirror
  <2> QED
    BY <2>2 DEF RtInv, Mirror, MapsMirror, Keys
<1> QED
  BY <1>1, <1>2 DEF RtInv, RequestsKeptApart, NoLateProgress, CancelOwn

\* For every number of sessions, requests, retries and reconnections, the maps
\* agree, progress is forwarded for requests under way only, and a cancellation
\* on the connection of its request hits no other request
\* (RequestIdMapper.ts, ProxySession.ts).
THEOREM RequestsStayApart == RtSpec => []RequestsKeptApart
BY RoutingInvariant, RtInvImplies, PTL

-----------------------------------------------------------------------------
(* Rate limit: the inductive invariant *)

RateTypes ==
    /\ rlCount \in [count : 0 .. MaxLimit, age : 0 .. Window, idle : 0 .. 2 * Window + 1]
    /\ rlAdmitted \in [0 .. Window - 1 -> Nat]
    /\ rlTold \in 0 .. NotTold

\* What was admitted since a time within the window does not include the request
\* the window began with; together with what came before it is one less than
\* two full windows; nothing was admitted since the last request.
AdmittedInv ==
    \A a \in 0 .. Window - 1 :
        /\ rlCount.count = 0 => rlAdmitted[a] = 0
        /\ rlCount.count > 0 =>
             /\ a < rlCount.age => rlAdmitted[a] <= rlCount.count - 1
             /\ rlAdmitted[a] <= rlCount.count + MaxLimit - 1
             /\ a < rlCount.idle => rlAdmitted[a] = 0

\* The wait a user was told and has left lasts until the window ends.
ToldInv == rlTold # NotTold /\ rlCount.count > 0 => rlTold >= Window - rlCount.age

RateInv == RateTypes /\ AdmittedInv /\ ToldInv

\* What the rate limit is given.
LEMMA RateConstants ==
    /\ MaxLimit \in Nat \ {0} /\ Limits \subseteq 0 .. MaxLimit
    /\ Window \in Nat \ {0, 1} /\ Second \in Nat \ {0}
  BY GuardAssumption

\* The smaller of two numbers.
LEMMA MinOfTwo ==
    ASSUME NEW a \in Nat, NEW b \in Nat
    PROVE  Min({a, b}) = IF a <= b THEN a ELSE b
<1> DEFINE m == IF a <= b THEN a ELSE b
<1>1. m \in {a, b} /\ \A y \in {a, b} : m <= y
  OBVIOUS
<1>2. \A x \in {a, b} : (\A y \in {a, b} : x <= y) => x = m
  OBVIOUS
<1> HIDE DEF m
<1>3. Min({a, b}) = m
  BY <1>1, <1>2 DEF Min
<1> QED
  BY <1>3 DEF m

\* Quotient and remainder.
LEMMA Division ==
    ASSUME NEW n \in Nat, NEW m \in Nat \ {0}
    PROVE  /\ n \div m \in Nat /\ n % m \in 0 .. m - 1
           /\ n = m * (n \div m) + (n % m)
<1>1. n \div m \in Nat
  OBVIOUS
<1>2. n % m \in 0 .. m - 1
  OBVIOUS
<1>3. n = m * (n \div m) + (n % m)
  OBVIOUS
<1> QED
  BY <1>1, <1>2, <1>3

\* Rounding up to seconds loses nothing and adds less than a second.
LEMMA RoundedUp ==
    ASSUME NEW n \in Nat, NEW m \in Nat \ {0}
    PROVE  /\ ((n + m - 1) \div m) * m \in Nat
           /\ ((n + m - 1) \div m) * m >= n
           /\ ((n + m - 1) \div m) * m <= n + m - 1
<1> DEFINE q == (n + m - 1) \div m
           p == (n + m - 1) % m
<1>1. n + m - 1 \in Nat
  OBVIOUS
<1>2. q \in Nat /\ p \in 0 .. m - 1 /\ n + m - 1 = m * q + p
  BY <1>1, Division
<1>3. m * q = q * m /\ m * q \in Nat
  BY <1>2
<1> HIDE DEF q, p
<1>4. q * m = n + m - 1 - p
  BY <1>2, <1>3
<1>5. q * m \in Nat /\ q * m >= n /\ q * m <= n + m - 1
  BY <1>2, <1>4, <1>3
<1> QED
  BY <1>5 DEF q

\* The invariant holds when nobody has asked.
LEMMA RateInitial == ASSUME GuardInit PROVE RateInv
  BY RateConstants DEF GuardInit, RateInv, RateTypes, AdmittedInv, ToldInv, NoCount, NotTold

\* A request that is admitted with a record of its own.
LEMMA AdmittedKeeps ==
    ASSUME RateInv, NEW r \in [count : 1 .. MaxLimit, age : 0 .. Window, idle : {0}], Admitted(r),
           r.age < Window,
           \/ r.count = rlCount.count + 1 /\ r.age = rlCount.age /\ rlCount.count > 0
           \/ r.count = 1 /\ r.age = 0 /\ WindowOver
    PROVE  RateInv'
<1> USE RateConstants
<1>0. /\ rlCount.count \in 0 .. MaxLimit /\ rlCount.age \in 0 .. Window
      /\ r.count \in 1 .. MaxLimit /\ r.age \in 0 .. Window /\ r.idle = 0
  BY DEF RateInv, RateTypes
<1>1. RateTypes'
  <2>1. rlCount' \in [count : 0 .. MaxLimit, age : 0 .. Window, idle : 0 .. 2 * Window + 1]
    BY DEF Admitted
  <2>2. rlAdmitted' \in [0 .. Window - 1 -> Nat]
    <3>1. DOMAIN rlAdmitted = 0 .. Window - 1 /\ \A a \in 0 .. Window - 1 : rlAdmitted[a] + 1 \in Nat
      BY DEF RateInv, RateTypes
    <3> QED
      BY <3>1 DEF Admitted
  <2>3. rlTold' \in 0 .. NotTold
    BY DEF Admitted, NotTold
  <2> QED
    BY <2>1, <2>2, <2>3 DEF RateTypes
<1>2. ToldInv'
  BY DEF ToldInv, Admitted
<1>3. ASSUME NEW a \in 0 .. Window - 1
      PROVE  /\ a < r.age => rlAdmitted'[a] <= r.count - 1
             /\ rlAdmitted'[a] <= r.count + MaxLimit - 1
  <2>1. rlAdmitted'[a] = rlAdmitted[a] + 1 /\ rlAdmitted[a] \in Nat
    BY DEF Admitted, RateInv, RateTypes
  <2>a. /\ rlCount.count = 0 => rlAdmitted[a] = 0
        /\ rlCount.count > 0 => /\ a < rlCount.age => rlAdmitted[a] <= rlCount.count - 1
                                /\ rlAdmitted[a] <= rlCount.count + MaxLimit - 1
    BY DEF RateInv, AdmittedInv
  <2>2. CASE r.count = rlCount.count + 1 /\ r.age = rlCount.age /\ rlCount.count > 0
    BY <2>1, <2>a, <2>2, <1>0
  <2>3. CASE r.count = 1 /\ r.age = 0 /\ WindowOver
    BY <2>1, <2>a, <2>3, <1>0 DEF WindowOver
  <2> QED
    BY <2>2, <2>3
<1>4. AdmittedInv'
  BY <1>0, <1>3 DEF AdmittedInv, Admitted
<1> QED
  BY <1>1, <1>2, <1>4 DEF RateInv

\* A first request, or one after the window has ended.
LEMMA NewWindowKeeps == ASSUME RateInv, NewWindow PROVE RateInv'
<1> DEFINE r == [count |-> 1, age |-> 0, idle |-> 0]
<1>1. r \in [count : 1 .. MaxLimit, age : 0 .. Window, idle : {0}] /\ r.age < Window /\ r.count = 1 /\ r.age = 0
  BY RateConstants
<1>2. Admitted(r) /\ WindowOver
  BY DEF NewWindow
<1> QED
  BY <1>1, <1>2, AdmittedKeeps

\* A request within the limit.
LEMMA CountRequestKeeps ==
    ASSUME RateInv, NEW l \in Limits, CountRequest(l)
    PROVE  RateInv'
<1> DEFINE r == [rlCount EXCEPT !.count = @ + 1, !.idle = 0]
<1>1. l \in 0 .. MaxLimit
  BY RateConstants
<1>2. /\ r \in [count : 1 .. MaxLimit, age : 0 .. Window, idle : {0}] /\ r.age < Window
      /\ r.count = rlCount.count + 1 /\ r.age = rlCount.age /\ rlCount.count > 0
  <2>1. /\ rlCount.count \in 0 .. MaxLimit /\ rlCount.age \in 0 .. Window
        /\ rlCount.count > 0 /\ rlCount.age < Window /\ rlCount.count + 1 \in 1 .. MaxLimit
    BY <1>1, RateConstants DEF RateInv, RateTypes, CountRequest
  <2>2. rlCount \in [count : Nat, age : Nat, idle : Nat]
    BY RateConstants DEF RateInv, RateTypes
  <2>3. r \in [count : 1 .. MaxLimit, age : 0 .. Window, idle : {0}]
    BY <2>1, <2>2
  <2>4. r.count = rlCount.count + 1 /\ r.age = rlCount.age
    BY <2>2
  <2> QED
    BY <2>1, <2>3, <2>4
<1>3. Admitted(r)
  BY DEF CountRequest
<1> QED
  BY <1>2, <1>3, AdmittedKeeps

\* A refusal: the wait it names reaches the end of the window.
LEMMA RefuseKeeps ==
    ASSUME RateInv, NEW l \in Limits, Refuse(l)
    PROVE  RateInv'
<1> DEFINE left == Window - rlCount.age
<1>1. left \in Nat /\ left <= Window /\ rlCount.age \in Nat
  BY RateConstants DEF RateInv, RateTypes, Refuse
<1>2. RetryAfter * Second \in Nat /\ RetryAfter * Second >= left /\ RetryAfter * Second <= left + Second - 1
  BY <1>1, RoundedUp, RateConstants DEF RetryAfter
<1>3. rlTold' \in 0 .. NotTold /\ rlTold' >= left
  BY <1>1, <1>2, RateConstants DEF Refuse, NotTold
<1> QED
  BY <1>3 DEF Refuse, RateInv, RateTypes, AdmittedInv, ToldInv

\* A record is forgotten only when nothing of it is recent.
LEMMA CleanupCountsKeeps == ASSUME RateInv, CleanupCounts PROVE RateInv'
<1> USE RateConstants
<1>1. RateTypes'
  BY DEF RateInv, RateTypes, CleanupCounts, NoCount
<1>2. \A a \in 0 .. Window - 1 : rlAdmitted[a] = 0
  BY DEF RateInv, RateTypes, AdmittedInv, CleanupCounts
<1> QED
  BY <1>1, <1>2 DEF RateInv, AdmittedInv, ToldInv, CleanupCounts, NoCount

\* Time passes: what is admitted, the window and the wait age together.
LEMMA TickKeeps == ASSUME RateInv, Tick PROVE RateInv'
<1> USE RateConstants
<1> DEFINE age1 == IF rlCount.age < Window THEN rlCount.age + 1 ELSE Window
           idle1 == IF rlCount.idle < 2 * Window + 1 THEN rlCount.idle + 1 ELSE 2 * Window + 1
<1>1. /\ rlCount.age \in 0 .. Window /\ rlCount.idle \in 0 .. 2 * Window + 1 /\ rlCount.count \in 0 .. MaxLimit
      /\ Window \in Nat /\ 2 * Window + 1 \in Nat
  BY DEF RateInv, RateTypes
<1>2. Min({rlCount.age + 1, Window}) = age1 /\ Min({rlCount.idle + 1, 2 * Window + 1}) = idle1
  BY <1>1, MinOfTwo
<1>3. rlCount' = IF rlCount.count = 0 THEN NoCount ELSE [rlCount EXCEPT !.age = age1, !.idle = idle1]
  BY <1>2 DEF Tick
<1>4. CASE rlCount.count = 0
  <2>1. RateTypes'
    BY <1>1, <1>3, <1>4 DEF RateInv, RateTypes, NoCount, Tick, NotTold
  <2>2. rlCount'.count = 0
    BY <1>3, <1>4 DEF NoCount
  <2>3. AdmittedInv'
    BY <2>2, <1>4 DEF RateInv, RateTypes, AdmittedInv, Tick
  <2> QED
    BY <2>1, <2>2, <2>3 DEF RateInv, ToldInv
<1>5. CASE rlCount.count # 0
  <2>1. /\ age1 \in 0 .. Window /\ idle1 \in 0 .. 2 * Window + 1
        /\ age1 <= rlCount.age + 1 /\ idle1 <= rlCount.idle + 1
        /\ Window - age1 <= Window - rlCount.age
        /\ age1 < Window => age1 = rlCount.age + 1
        /\ rlCount.age = Window => age1 = Window
        /\ rlCount.age < Window => age1 = rlCount.age + 1
    BY <1>1
  <2> HIDE DEF age1, idle1
  <2>2. rlCount'.count = rlCount.count /\ rlCount'.age = age1 /\ rlCount'.idle = idle1
    BY <1>3, <1>5 DEF RateInv, RateTypes
  <2>3. RateTypes'
    <3>1. rlCount' \in [count : 0 .. MaxLimit, age : 0 .. Window, idle : 0 .. 2 * Window + 1]
      BY <1>3, <1>5, <2>1 DEF RateInv, RateTypes
    <3>2. rlAdmitted' \in [0 .. Window - 1 -> Nat]
      BY DEF RateInv, RateTypes, Tick
    <3>3. rlTold' \in 0 .. NotTold
      BY DEF RateInv, RateTypes, Tick, NotTold
    <3> QED
      BY <3>1, <3>2, <3>3 DEF RateTypes
  <2>4. ToldInv'
    <3>1. /\ rlTold \in 0 .. NotTold /\ NotTold \in Nat
          /\ rlTold' = IF rlTold \in {0, NotTold} THEN rlTold ELSE rlTold - 1
          /\ rlTold # NotTold => rlTold >= Window - rlCount.age
      BY <1>1, <1>5 DEF RateInv, RateTypes, ToldInv, Tick, NotTold
    <3>2. rlTold' # NotTold => rlTold' >= Window - age1
      BY <3>1, <2>1, <1>1
    <3> QED
      BY <3>2, <2>2 DEF ToldInv, NotTold
  <2>5. ASSUME NEW a \in 0 .. Window - 1
        PROVE  /\ a < age1 => rlAdmitted'[a] <= rlCount.count - 1
               /\ rlAdmitted'[a] <= rlCount.count + MaxLimit - 1
               /\ a < idle1 => rlAdmitted'[a] = 0
    <3>1. CASE a = 0
      BY <3>1, <1>1, <1>5 DEF RateInv, RateTypes, Tick
    <3>2. CASE a # 0
      <4>1. a - 1 \in 0 .. Window - 1 /\ rlAdmitted'[a] = rlAdmitted[a - 1]
        BY <3>2 DEF RateInv, RateTypes, Tick
      <4>2. /\ a - 1 < rlCount.age => rlAdmitted[a - 1] <= rlCount.count - 1
            /\ rlAdmitted[a - 1] <= rlCount.count + MaxLimit - 1
            /\ a - 1 < rlCount.idle => rlAdmitted[a - 1] = 0
        BY <4>1, <1>1, <1>5 DEF RateInv, AdmittedInv
      <4> QED
        BY <4>1, <4>2, <2>1, <1>1
    <3> QED
      BY <3>1, <3>2
  <2>6. AdmittedInv'
    BY <1>1, <1>5, <2>2, <2>5 DEF AdmittedInv
  <2> QED
    BY <2>3, <2>4, <2>6 DEF RateInv
<1> QED
  BY <1>4, <1>5

\* Every request, refusal, clean-up and passage of time keeps it.
LEMMA RateStepKeeps == ASSUME RateInv, RateNext \/ UNCHANGED rateVars PROVE RateInv'
<1>1. CASE UNCHANGED rateVars
  BY <1>1 DEF RateInv, RateTypes, AdmittedInv, ToldInv, rateVars
<1> QED
  BY <1>1, NewWindowKeeps, CountRequestKeeps, RefuseKeeps, CleanupCountsKeeps, TickKeeps DEF RateNext

\* What the invariant says of the limit.
LEMMA RateInvGives == ASSUME RateInv PROVE RateHonoured
<1> USE RateConstants
<1>1. BoundedRate
  BY DEF BoundedRate, RateInv, RateTypes, AdmittedInv
<1>2. RetryAfterHonoured
  BY DEF RetryAfterHonoured, WindowOver, RateInv, RateTypes, ToldInv, NotTold
<1> QED
  BY <1>1, <1>2 DEF RateHonoured

(* The limit holds for every stretch of time, wherever windows begin, end    *)
(* and are forgotten, and a user who waits as long as a refusal said is      *)
(* admitted (RateLimitService.ts).                                           *)
THEOREM RateStaysHonoured == GuardSpec => []RateHonoured
<1>1. GuardInit => RateInv
  BY RateInitial
<1>2. RateInv /\ [GuardNext]_guardVars => RateInv'
  BY RateStepKeeps DEF GuardNext, guardVars
<1>3. RateInv => RateHonoured
  BY RateInvGives
<1> QED
  BY <1>1, <1>2, <1>3, PTL DEF GuardSpec

-----------------------------------------------------------------------------
(* Blocks of addresses *)

\* A factor that is not zero can be cancelled.
LEMMA Cancel ==
    ASSUME NEW m \in Nat \ {0}, NEW a \in Nat, NEW b \in Nat, m * a = m * b
    PROVE  a = b
<1>1. ASSUME NEW x \in Nat, NEW y \in Nat, x < y
      PROVE  m * x # m * y
  <2>1. m * (y - x) >= 1
    BY <1>1
  <2>2. m * y = m * x + m * (y - x)
    BY <1>1
  <2>3. m * x \in Nat /\ m * (y - x) \in Int /\ m * y \in Nat
    BY <1>1
  <2> QED
    BY <2>1, <2>2, <2>3
<1> QED
  BY <1>1

\* Numbers that agree but for their remainders have the same quotient.
LEMMA SameBlock ==
    ASSUME NEW m \in Nat \ {0}, NEW a \in Nat, NEW b \in Nat
    PROVE  a - (a % m) = b - (b % m) <=> a \div m = b \div m
<1> DEFINE p == a \div m   q == b \div m   r == a % m   s == b % m
<1>1. /\ p \in Nat /\ r \in 0 .. m - 1 /\ a = m * p + r
      /\ q \in Nat /\ s \in 0 .. m - 1 /\ b = m * q + s
  BY Division
<1> HIDE DEF p, q, r, s
<1>2. m * p \in Nat /\ m * q \in Nat
  BY <1>1
<1>3. a - r = m * p /\ b - s = m * q
  BY <1>1, <1>2
<1>4. m * p = m * q <=> p = q
  BY <1>1, Cancel
<1> QED
  BY <1>3, <1>4 DEF p, q, r, s

\* The only block of as many addresses as there are is the first one.
LEMMA WholeBlock ==
    ASSUME NEW m \in Nat \ {0}, NEW a \in 0 .. m - 1
    PROVE  a \div m = 0
<1> DEFINE p == a \div m   r == a % m
<1>0. a \in Nat
  OBVIOUS
<1>1. p \in Nat /\ r \in 0 .. m - 1 /\ a = m * p + r
  BY <1>0, Division
<1> HIDE DEF p, r
<1>2. ASSUME p >= 1 PROVE FALSE
  <2>1. m * p >= m /\ m * p \in Nat
    BY <1>1, <1>2
  <2> QED
    BY <2>1, <1>1
<1> QED
  BY <1>1, <1>2 DEF p

\* The entries there are.
ListedIps == IpEntries \cup {AllowAll}

\* The parts of the entries, "0.0.0.0/0" included.
LEMMA EntryParts ==
    /\ 2 ^ AddrBits \in Nat \ {0} /\ AddrBits \in Nat \ {0} /\ 0 \in Addrs
    /\ \A e \in ListedIps : e.net \in Addrs /\ e.bits \in 0 .. AddrBits /\ e.cidr \in BOOLEAN
<1>1. AddrBits \in Nat \ {0} /\ AddrBits \in 0 .. AddrBits
  BY GuardAssumption
<1>2. 2 ^ AddrBits \in Nat \ {0}
  BY <1>1, PowerAssumption
<1>3. 0 \in Addrs /\ 0 \in 0 .. AddrBits
  BY <1>1, <1>2 DEF Addrs
<1>4. IpEntries \subseteq [net : Addrs, bits : 0 .. AddrBits, cidr : BOOLEAN]
  BY GuardAssumption DEF Addrs
<1>5. \A e \in IpEntries : e.net \in Addrs /\ e.bits \in 0 .. AddrBits /\ e.cidr \in BOOLEAN
  BY <1>4
<1>6. AllowAll.net = 0 /\ AllowAll.bits = 0 /\ AllowAll.cidr = TRUE
  BY DEF AllowAll
<1> QED
  BY <1>1, <1>2, <1>3, <1>5, <1>6 DEF ListedIps

\* The comparison of masked numbers decides whether an address lies in a block,
\* also where the code's shift would take its count modulo the width.
LEMMA MatchIsCover ==
    ASSUME NEW e \in ListedIps, NEW addr \in Addrs
    PROVE  isIpMatch(addr, e) <=> Covers(e, addr)
<1>1. /\ e.net \in Addrs /\ e.bits \in 0 .. AddrBits /\ e.cidr \in BOOLEAN
      /\ 2 ^ AddrBits \in Nat \ {0} /\ AddrBits \in Nat \ {0}
  BY EntryParts
<1>2. e.net \in Nat /\ addr \in Nat /\ e.net \in 0 .. 2 ^ AddrBits - 1 /\ addr \in 0 .. 2 ^ AddrBits - 1
  BY <1>1 DEF Addrs
<1>3. CASE ~ e.cidr
  BY <1>3 DEF isIpMatch, Covers
<1>4. CASE e.cidr /\ e.bits = 0
  <2>1. AddrBits - e.bits = AddrBits
    BY <1>1, <1>4
  <2>2. addr \div 2 ^ AddrBits = 0 /\ e.net \div 2 ^ AddrBits = 0
    BY <1>1, <1>2, WholeBlock
  <2>3. addr \div 2 ^ (AddrBits - e.bits) = e.net \div 2 ^ (AddrBits - e.bits)
    BY <2>1, <2>2
  <2> QED
    BY <1>4, <2>3 DEF isIpMatch, Covers
<1>5. CASE e.cidr /\ e.bits # 0
  <2> DEFINE k == AddrBits - e.bits
             m == 2 ^ k
  <2>1. k \in 0 .. AddrBits /\ k < AddrBits
    BY <1>1, <1>5
  <2>2. k % AddrBits = k
    BY <2>1, <1>1
  <2>3. m \in Nat \ {0}
    BY <2>1, PowerAssumption
  <2>4. Masked(addr, e.bits) = addr - (addr % m) /\ Masked(e.net, e.bits) = e.net - (e.net % m)
    BY <2>2 DEF Masked
  <2>5. isIpMatch(addr, e) <=> addr - (addr % m) = e.net - (e.net % m)
    BY <2>4, <1>5 DEF isIpMatch
  <2>6. Covers(e, addr) <=> addr \div m = e.net \div m
    BY <1>5 DEF Covers
  <2> HIDE DEF m
  <2>7. addr - (addr % m) = e.net - (e.net % m) <=> addr \div m = e.net \div m
    BY <1>2, <2>3, SameBlock
  <2> QED
    BY <2>5, <2>6, <2>7
<1> QED
  BY <1>1, <1>3, <1>4, <1>5

\* An address is allowed exactly if the block of an entry covers it.
LEMMA AllowedIsCovered ==
    ASSUME NEW list \in SUBSET ListedIps, NEW addr \in Addrs
    PROVE  isIpAllowed(list, addr) <=> \E e \in list : Covers(e, addr)
<1>1. isIpMatch(addr, AllowAll)
  BY DEF isIpMatch, AllowAll
<1>2. \A e \in list : isIpMatch(addr, e) <=> Covers(e, addr)
  BY MatchIsCover
<1> QED
  BY <1>1, <1>2 DEF isIpAllowed

-----------------------------------------------------------------------------
(* Allow list: the inductive invariant *)

IpPcs == {"done", "find", "write", "added", "query", "install", "answered"}
IpKinds == {"none", "update", "delete", "add", "allow", "deny", "request", "init"}
IpCallRecs == [kind : IpKinds, pc : IpPcs, ips : SUBSET ListedIps, rows : SUBSET [id : Nat, ip : ListedIps],
               old : BOOLEAN, addr : Addrs, allowed : BOOLEAN]

\* A load whose rows were not changed since it read them has those of the table;
\* an answer is that of the list it was made from.
CallOK(call, ips) ==
    /\ call \in IpCallRecs
    /\ call.old => call.pc = "install"
    /\ call.pc = "install" /\ ~ call.old => call.ips = ips
    /\ call.pc = "answered" => (call.allowed <=> \E e \in call.ips : Covers(e, call.addr))

\* A call that has changed the table, or starts the program, and has yet to load it.
Reloads(call) == call.kind # "request" /\ call.pc \in {"added", "query", "install"}

TableTypes ==
    /\ ipRows \subseteq [id : Nat, ip : ListedIps] /\ \A r \in ipRows : r.id \in 1 .. ipNext - 1
    /\ ipNext \in 1 .. MaxIpId + 1
ListTypesOK == ipList \subseteq ListedIps /\ ipList # {} /\ ipFresh \in BOOLEAN /\ ipExcused \in BOOLEAN
CallsOK ==
    /\ ipCalls = [c \in Guards |-> ipCalls[c]]
    /\ \A c \in Guards : CallOK(ipCalls[c], IpsOf(ipRows))
ListKept ==
    ~ ipExcused => ipList = Effective(IpsOf(ipRows)) \/ \E c \in Guards : Reloads(ipCalls[c])
IpInv == TableTypes /\ ListTypesOK /\ CallsOK /\ ListKept

\* What a load reads is entries.
LEMMA IpsOfEntries ==
    ASSUME NEW rows, rows \subseteq [id : Nat, ip : ListedIps]
    PROVE  IpsOf(rows) \subseteq ListedIps
  BY DEF IpsOf

\* What a load installs is never empty.
LEMMA EffectiveEntries ==
    ASSUME NEW ips \in SUBSET ListedIps
    PROVE  Effective(ips) \subseteq ListedIps /\ Effective(ips) # {}
  BY DEF Effective, ListedIps

\* A call that has ended relies on nothing.
LEMMA DoneOK == CallOK(Done, IpsOf(ipRows)) /\ ~ Reloads(Done)
  BY EntryParts DEF CallOK, Done, IpCallRecs, IpPcs, IpKinds, Reloads

\* A call that changes no row.
LEMMA MovesKeeps ==
    ASSUME IpInv, NEW c \in Guards, NEW call, Goes(c, call), CallOK(call, IpsOf(ipRows)),
           UNCHANGED <<ipRows, ipNext>>, ListTypesOK',
           \/ ipExcused' \/ ipList' = Effective(IpsOf(ipRows))
           \/ ipExcused' = ipExcused /\ ipList' = ipList /\ (Reloads(call) \/ ~ Reloads(ipCalls[c]))
    PROVE  IpInv'
<1>1. TableTypes'
  BY DEF IpInv, TableTypes
<1>2. ipCalls' = [x \in Guards |-> IF x = c THEN call ELSE ipCalls[x]]
  BY DEF Goes, IpInv, CallsOK
<1>3. CallsOK'
  BY <1>2 DEF IpInv, CallsOK
<1>4. ListKept'
  BY <1>2 DEF IpInv, ListKept
<1> QED
  BY <1>1, <1>3, <1>4 DEF IpInv

\* A call that edits the table goes on to the reload; loads under way learn of it.
LEMMA ChangesKeeps ==
    ASSUME IpInv, NEW c \in Guards, NEW rows, NEW next, NEW pc \in {"added", "query"},
           Changes(c, rows, next, pc), ipCalls[c].kind # "request", ipCalls[c].pc = "write",
           rows \subseteq [id : Nat, ip : ListedIps], \A r \in rows : r.id \in 1 .. next - 1,
           next \in 1 .. MaxIpId + 1
    PROVE  IpInv'
<1>1. TableTypes'
  BY DEF Changes, TableTypes
<1>2. ListTypesOK'
  BY DEF IpInv, ListTypesOK, Changes
<1>3. \A x \in Guards : CallOK(ipCalls[x], IpsOf(ipRows))
  BY DEF IpInv, CallsOK
<1>4. ipCalls' = [x \in Guards |-> ipCalls'[x]]
  BY DEF Changes
<1>5. ipCalls'[c] = [ipCalls[c] EXCEPT !.pc = pc, !.rows = {}]
  BY DEF Changes
<1>6. CallOK(ipCalls'[c], IpsOf(rows)) /\ Reloads(ipCalls'[c])
  <2>1. ipCalls[c] \in IpCallRecs /\ ~ ipCalls[c].old
    BY <1>3 DEF CallOK, IpCallRecs
  <2>2. ipCalls'[c] \in IpCallRecs /\ ipCalls'[c].pc = pc /\ ipCalls'[c].kind = ipCalls[c].kind
        /\ ~ ipCalls'[c].old
    BY <1>5, <2>1 DEF IpCallRecs, IpPcs
  <2> QED
    BY <2>2 DEF CallOK, Reloads
<1>7. ASSUME NEW x \in Guards, x # c PROVE CallOK(ipCalls'[x], IpsOf(rows))
  <2> DEFINE o == ipCalls[x].old \/ (ipCalls[x].pc = "install" /\ IpsOf(rows) # IpsOf(ipRows))
  <2>1. ipCalls'[x] = [ipCalls[x] EXCEPT !.old = o]
    BY <1>7 DEF Changes
  <2>2. o \in BOOLEAN /\ ipCalls[x] \in IpCallRecs
    BY <1>3 DEF CallOK
  <2>3. /\ ipCalls'[x] \in IpCallRecs /\ ipCalls'[x].old = o /\ ipCalls'[x].pc = ipCalls[x].pc
        /\ ipCalls'[x].ips = ipCalls[x].ips /\ ipCalls'[x].allowed = ipCalls[x].allowed
        /\ ipCalls'[x].addr = ipCalls[x].addr
    BY <2>1, <2>2 DEF IpCallRecs
  <2> QED
    BY <1>3, <2>2, <2>3 DEF CallOK
<1>8. CallsOK'
  BY <1>4, <1>6, <1>7 DEF CallsOK, Changes
<1>9. ListKept'
  BY <1>6 DEF ListKept
<1> QED
  BY <1>1, <1>2, <1>8, <1>9 DEF IpInv

\* A call between two loads relies on nothing.
LEMMA PlainOK ==
    ASSUME NEW call \in IpCallRecs, ~ call.old, call.pc \notin {"install", "answered"}, NEW ips
    PROVE  CallOK(call, ips)
  BY DEF CallOK

\* The parts of a call.
LEMMA IpCallTypes ==
    ASSUME IpInv, NEW c \in Guards
    PROVE  /\ ipCalls[c] \in IpCallRecs /\ ipCalls[c].ips \subseteq ListedIps /\ ipCalls[c].addr \in Addrs
           /\ ipCalls[c].rows \subseteq [id : Nat, ip : ListedIps] /\ ipCalls[c].kind \in IpKinds
           /\ ipCalls[c].old \in BOOLEAN /\ ipCalls[c].pc \in IpPcs /\ ipCalls[c].allowed \in BOOLEAN
           /\ ipCalls[c].pc # "install" => ~ ipCalls[c].old
  BY DEF IpInv, CallsOK, CallOK, IpCallRecs

\* A call that has just begun.
LEMMA NewCall ==
    ASSUME NEW what \in IpKinds, NEW pc \in IpPcs
    PROVE  /\ Call(what, pc) \in IpCallRecs /\ Call(what, pc).kind = what /\ Call(what, pc).pc = pc
           /\ Call(what, pc).old = FALSE
<1>1. Done \in IpCallRecs /\ Done.old = FALSE
  BY DoneOK DEF CallOK, Done
<1> QED
  BY <1>1 DEF Call, IpCallRecs

\* A request of an admin begins.
LEMMA BeginKeeps ==
    ASSUME IpInv, NEW c \in Guards, NEW what \in {"update", "delete", "add", "allow", "deny"},
           NEW ips \in SUBSET IpEntries, Begin(c, what, ips)
    PROVE  IpInv'
<1> DEFINE pc == IF what = "update" THEN "write" ELSE "find"
           call == [Call(what, pc) EXCEPT !.ips = ips]
<1>1. Goes(c, call)
  BY DEF Begin
<1>2. call \in IpCallRecs /\ ~ call.old /\ call.pc \notin {"install", "answered"}
  <2>1. what \in IpKinds /\ pc \in IpPcs /\ pc \notin {"install", "answered"}
    BY DEF IpKinds, IpPcs
  <2> HIDE DEF pc
  <2>2. ips \in SUBSET ListedIps
    BY DEF ListedIps
  <2>3. Call(what, pc) \in IpCallRecs /\ Call(what, pc).pc = pc /\ Call(what, pc).old = FALSE
    BY <2>1, NewCall
  <2>4. call \in IpCallRecs
    BY <2>2, <2>3 DEF IpCallRecs
  <2>5. call.old = FALSE /\ call.pc = pc
    BY <2>3 DEF IpCallRecs
  <2> QED
    BY <2>1, <2>4, <2>5
<1> HIDE DEF call
<1>3. CallOK(call, IpsOf(ipRows))
  BY <1>2, PlainOK
<1>4. ~ Reloads(ipCalls[c]) /\ UNCHANGED <<ipRows, ipNext, ipList, ipFresh, ipExcused>>
  BY DEF Begin, Reloads
<1>5. ListTypesOK'
  BY <1>4 DEF IpInv, ListTypesOK
<1> QED
  BY <1>1, <1>3, <1>4, <1>5, MovesKeeps

\* A query before an edit.
LEMMA FindKeeps ==
    ASSUME IpInv, NEW c \in Guards, NEW what, NEW call, Find(c, what, call),
           call \in IpCallRecs, ~ call.old, call.pc \notin {"install", "answered"}
    PROVE  IpInv'
<1>1. Goes(c, call) /\ ~ Reloads(ipCalls[c]) /\ UNCHANGED <<ipRows, ipNext, ipList, ipFresh, ipExcused>>
  BY DEF Find, At, Reloads
<1>2. CallOK(call, IpsOf(ipRows)) /\ ListTypesOK'
  BY <1>1, PlainOK DEF IpInv, ListTypesOK
<1> QED
  BY <1>1, <1>2, MovesKeeps

\* What the query before an edit finds is rows of the table.
LEMMA FoundRows ==
    ASSUME IpInv, NEW c \in Guards
    PROVE  Found(c) \subseteq [id : Nat, ip : ListedIps] /\ IpsOf(ipRows) \subseteq ListedIps
  BY DEF Found, IpInv, TableTypes, IpsOf

\* A deletion looks for its rows.
LEMMA FindDeletedKeeps ==
    ASSUME IpInv, NEW c \in Guards, FindDeleted(c) PROVE IpInv'
<1>1. PICK call : /\ Find(c, "delete", call)
                  /\ call = IF Found(c) = {} THEN Done ELSE [ipCalls[c] EXCEPT !.pc = "write", !.rows = Found(c)]
  BY DEF FindDeleted
<1>2. ~ ipCalls[c].old
  BY <1>1, IpCallTypes DEF Find, At
<1>3. call \in IpCallRecs /\ ~ call.old /\ call.pc \notin {"install", "answered"}
  <2>1. CASE Found(c) = {}
    BY <1>1, <2>1, DoneOK DEF CallOK, Done
  <2>2. CASE Found(c) # {}
    BY <1>1, <1>2, <2>2, IpCallTypes, FoundRows DEF IpCallRecs, IpPcs
  <2> QED
    BY <2>1, <2>2
<1> QED
  BY <1>1, <1>3, FindKeeps

\* An addition looks for what is there.
LEMMA FindExistingKeeps ==
    ASSUME IpInv, NEW c \in Guards, FindExisting(c) PROVE IpInv'
<1>1. PICK call : /\ Find(c, "add", call)
                  /\ call = IF ipCalls[c].ips = IpsOf(Found(c)) THEN [ipCalls[c] EXCEPT !.pc = "query"]
                            ELSE [ipCalls[c] EXCEPT !.pc = "write", !.ips = @ \ IpsOf(Found(c))]
  BY DEF FindExisting
<1>2. ~ ipCalls[c].old /\ ipCalls[c] \in IpCallRecs /\ ipCalls[c].ips \in SUBSET ListedIps
  BY <1>1, IpCallTypes DEF Find, At
<1>3. call \in IpCallRecs /\ ~ call.old /\ call.pc \notin {"install", "answered"}
  BY <1>1, <1>2 DEF IpCallRecs, IpPcs
<1> QED
  BY <1>1, <1>3, FindKeeps

\* The two switches look at the table.
LEMMA FindSwitchKeeps ==
    ASSUME IpInv, NEW c \in Guards, FindAllowAll(c) \/ FindOthers(c) PROVE IpInv'
<1>1. \E what \in IpKinds, pc \in {"query", "write"} : Find(c, what, [ipCalls[c] EXCEPT !.pc = pc])
  <2>1. CASE FindAllowAll(c)
    <3> DEFINE pc == IF AllowAll \in IpsOf(ipRows) THEN "query" ELSE "write"
    <3>1. Find(c, "allow", [ipCalls[c] EXCEPT !.pc = pc]) /\ pc \in {"query", "write"}
      BY <2>1 DEF FindAllowAll
    <3> QED
      BY <3>1 DEF IpKinds
  <2>2. CASE FindOthers(c)
    <3> DEFINE pc == IF IpsOf(ipRows) \subseteq {AllowAll} THEN "query" ELSE "write"
    <3>1. Find(c, "deny", [ipCalls[c] EXCEPT !.pc = pc]) /\ pc \in {"query", "write"}
      BY <2>2 DEF FindOthers
    <3> QED
      BY <3>1 DEF IpKinds
  <2> QED
    BY <2>1, <2>2
<1> PICK what \in IpKinds, pc \in {"query", "write"} : Find(c, what, [ipCalls[c] EXCEPT !.pc = pc])
  BY <1>1
<1>2. ~ ipCalls[c].old /\ ipCalls[c] \in IpCallRecs
  BY IpCallTypes DEF Find, At
<1> DEFINE call == [ipCalls[c] EXCEPT !.pc = pc]
<1>3. call \in IpCallRecs /\ ~ call.old /\ call.pc \notin {"install", "answered"}
  BY <1>2 DEF IpCallRecs, IpPcs
<1> QED
  BY <1>3, FindKeeps

\* An insert: the new rows have an id of their own.
LEMMA InsertKeeps ==
    ASSUME IpInv, NEW c \in Guards, NEW rows \in SUBSET ipRows, NEW ips \in SUBSET ListedIps,
           NEW pc \in {"added", "query"}, Insert(c, rows, ips, pc),
           ipCalls[c].kind # "request", ipCalls[c].pc = "write"
    PROVE  IpInv'
<1> DEFINE new == rows \cup {[id |-> ipNext, ip |-> e] : e \in ips}
<1>1. ipNext \in 1 .. MaxIpId + 1 /\ ipNext <= MaxIpId /\ MaxIpId \in Nat
  BY GuardAssumption DEF IpInv, TableTypes, Insert
<1>2. ipNext \in Nat /\ ipNext + 1 \in 1 .. MaxIpId + 1 /\ ipNext \in 1 .. (ipNext + 1) - 1
  BY <1>1
<1>3. rows \subseteq [id : Nat, ip : ListedIps] /\ \A r \in rows : r.id \in 1 .. (ipNext + 1) - 1
  BY <1>1 DEF IpInv, TableTypes
<1>4. new \subseteq [id : Nat, ip : ListedIps] /\ \A r \in new : r.id \in 1 .. (ipNext + 1) - 1
  BY <1>2, <1>3
<1>5. Changes(c, new, ipNext + 1, pc)
  BY DEF Insert
<1> QED
  BY <1>2, <1>4, <1>5, ChangesKeeps

\* The five edits of the table.
LEMMA EditsKeep ==
    ASSUME IpInv, NEW c \in Guards, Replace(c) \/ Delete(c) \/ Add(c) \/ SwitchOff(c) \/ SwitchOn(c)
    PROVE  IpInv'
<1>1. ipCalls[c].ips \in SUBSET ListedIps /\ {AllowAll} \in SUBSET ListedIps
  BY IpCallTypes DEF ListedIps
<1>2. ipCalls[c].pc = "write" /\ ipCalls[c].kind # "request"
  BY DEF Replace, Delete, Add, SwitchOff, SwitchOn, At
<1>3. CASE Replace(c)
  BY <1>1, <1>2, <1>3, InsertKeeps DEF Replace
<1>4. CASE Add(c)
  BY <1>1, <1>2, <1>4, InsertKeeps DEF Add
<1>5. CASE SwitchOff(c)
  BY <1>1, <1>2, <1>5, InsertKeeps DEF SwitchOff
<1>6. ASSUME NEW rows \in SUBSET ipRows, Changes(c, rows, ipNext, "query") PROVE IpInv'
  <2>1. /\ rows \subseteq [id : Nat, ip : ListedIps] /\ \A r \in rows : r.id \in 1 .. ipNext - 1
        /\ ipNext \in 1 .. MaxIpId + 1
    BY DEF IpInv, TableTypes
  <2> QED
    BY <1>2, <1>6, <2>1, ChangesKeeps
<1>7. CASE Delete(c)
  BY <1>6, <1>7 DEF Delete
<1>8. CASE SwitchOn(c)
  BY <1>6, <1>8 DEF SwitchOn
<1> QED
  BY <1>3, <1>4, <1>5, <1>7, <1>8

\* An addition reads its new rows and has yet to load.
LEMMA ReadAddedKeeps ==
    ASSUME IpInv, NEW c \in Guards, ReadAdded(c) PROVE IpInv'
<1> DEFINE call == [ipCalls[c] EXCEPT !.pc = "query"]
<1>1. Goes(c, call) /\ ipCalls[c].pc = "added" /\ UNCHANGED <<ipRows, ipNext, ipList, ipFresh, ipExcused>>
  BY DEF ReadAdded, GoesOn
<1>2. /\ call \in IpCallRecs /\ ~ call.old /\ call.pc \notin {"install", "answered"}
      /\ call.kind = ipCalls[c].kind /\ call.pc = "query"
  BY <1>1, IpCallTypes DEF IpCallRecs, IpPcs
<1> HIDE DEF call
<1>3. CallOK(call, IpsOf(ipRows)) /\ ListTypesOK'
  BY <1>1, <1>2, PlainOK DEF IpInv, ListTypesOK
<1>4. Reloads(call) \/ ~ Reloads(ipCalls[c])
  BY <1>2 DEF Reloads
<1> QED
  BY <1>1, <1>3, <1>4, MovesKeeps

\* A failing edit: only one past its insert leaves the list behind.
LEMMA EditFailsKeeps ==
    ASSUME IpInv, NEW c \in Guards, EditFails(c) PROVE IpInv'
<1>1. Goes(c, Done) /\ CallOK(Done, IpsOf(ipRows)) /\ UNCHANGED <<ipRows, ipNext, ipList, ipFresh>>
  BY DoneOK DEF EditFails
<1>2. ListTypesOK'
  BY <1>1 DEF IpInv, ListTypesOK, EditFails
<1>3. ipExcused' \/ (ipExcused' = ipExcused /\ ~ Reloads(ipCalls[c]))
  BY DEF EditFails, IpInv, ListTypesOK, Reloads
<1> QED
  BY <1>1, <1>2, <1>3, MovesKeeps

\* An answer from a list.
LEMMA AnsweredOK ==
    ASSUME NEW addr \in Addrs, NEW list \in SUBSET ListedIps
    PROVE  CallOK(Answered(addr, list), IpsOf(ipRows)) /\ ~ Reloads(Answered(addr, list))
<1> DEFINE call == Answered(addr, list)
<1>1. Call("request", "answered") \in IpCallRecs /\ Call("request", "answered").old = FALSE
      /\ Call("request", "answered").kind = "request" /\ Call("request", "answered").pc = "answered"
  BY NewCall DEF IpKinds, IpPcs
<1>2. isIpAllowed(list, addr) <=> \E e \in list : Covers(e, addr)
  BY AllowedIsCovered
<1>3. isIpAllowed(list, addr) \in BOOLEAN
  BY DEF isIpAllowed
<1>4. call \in IpCallRecs
  BY <1>1, <1>3 DEF Answered, IpCallRecs
<1>5. call.old = FALSE /\ call.pc = "answered" /\ call.kind = "request" /\ call.ips = list /\ call.addr = addr
      /\ call.allowed = isIpAllowed(list, addr)
  BY <1>1 DEF Answered, IpCallRecs
<1> HIDE DEF call
<1> QED
  BY <1>2, <1>4, <1>5 DEF call, CallOK, Reloads

\* A request is answered from the list or loads it.
LEMMA RequestKeeps ==
    ASSUME IpInv, NEW c \in Guards, NEW addr \in Addrs, Request(c, addr) PROVE IpInv'
<1>1. ~ Reloads(ipCalls[c]) /\ UNCHANGED <<ipRows, ipNext, ipList, ipFresh, ipExcused>>
  BY DEF Request, Reloads
<1>2. ListTypesOK' /\ ipList \in SUBSET ListedIps
  BY <1>1 DEF IpInv, ListTypesOK
<1>3. CASE ipFresh
  <2>1. Goes(c, Answered(addr, ipList)) /\ CallOK(Answered(addr, ipList), IpsOf(ipRows))
    BY <1>2, <1>3, AnsweredOK DEF Request
  <2> QED
    BY <1>1, <1>2, <2>1, MovesKeeps
<1>4. CASE ~ ipFresh
  <2> DEFINE call == [Call("request", "query") EXCEPT !.addr = addr]
  <2>1. Goes(c, call)
    BY <1>4 DEF Request
  <2>2. call \in IpCallRecs /\ ~ call.old /\ call.pc \notin {"install", "answered"}
    <3>1. "request" \in IpKinds /\ "query" \in IpPcs
      BY DEF IpPcs, IpKinds
    <3>2. /\ Call("request", "query") \in IpCallRecs /\ Call("request", "query").pc = "query"
          /\ Call("request", "query").old = FALSE
      BY <3>1, NewCall
    <3>3. call \in IpCallRecs
      BY <3>2 DEF IpCallRecs
    <3>4. call.old = FALSE /\ call.pc = "query"
      BY <3>2 DEF IpCallRecs
    <3> QED
      BY <3>3, <3>4
  <2> HIDE DEF call
  <2> QED
    BY <1>1, <1>2, <2>1, <2>2, PlainOK, MovesKeeps
<1> QED
  BY <1>3, <1>4

\* A load reads the table.
LEMMA QueryKeeps ==
    ASSUME IpInv, NEW c \in Guards, Query(c) PROVE IpInv'
<1> DEFINE call == [ipCalls[c] EXCEPT !.pc = "install", !.ips = IpsOf(ipRows)]
<1>1. Goes(c, call) /\ ipCalls[c].pc = "query" /\ UNCHANGED <<ipRows, ipNext, ipList, ipFresh, ipExcused>>
  BY DEF Query
<1>2. /\ call \in IpCallRecs /\ call.pc = "install" /\ call.kind = ipCalls[c].kind
      /\ ~ call.old /\ call.ips = IpsOf(ipRows)
  BY <1>1, IpCallTypes, FoundRows DEF IpCallRecs, IpPcs
<1> HIDE DEF call
<1>3. CallOK(call, IpsOf(ipRows)) /\ ListTypesOK' /\ (Reloads(call) \/ ~ Reloads(ipCalls[c]))
  BY <1>1, <1>2 DEF IpInv, ListTypesOK, CallOK, Reloads
<1> QED
  BY <1>1, <1>3, MovesKeeps

\* A load installs what it read: the table, or what it was before a change.
LEMMA InstallKeeps ==
    ASSUME IpInv, NEW c \in Guards, Install(c) PROVE IpInv'
<1>1. /\ ipCalls[c].pc = "install" /\ ipList' = Effective(ipCalls[c].ips) /\ ipFresh' = TRUE
      /\ ipExcused' = ipCalls[c].old /\ UNCHANGED <<ipRows, ipNext>>
      /\ Goes(c, IF ipCalls[c].kind = "request" THEN Answered(ipCalls[c].addr, ipList') ELSE Done)
  BY DEF Install
<1>2. ipCalls[c].ips \in SUBSET ListedIps /\ ipCalls[c].old \in BOOLEAN /\ ipCalls[c].addr \in Addrs
  BY IpCallTypes
<1>3. ListTypesOK' /\ ipList' \in SUBSET ListedIps
  BY <1>1, <1>2, EffectiveEntries DEF ListTypesOK
<1>4. ipExcused' \/ ipList' = Effective(IpsOf(ipRows))
  BY <1>1, <1>2 DEF IpInv, CallsOK, CallOK
<1>5. PICK call : Goes(c, call) /\ CallOK(call, IpsOf(ipRows))
  BY <1>1, <1>2, <1>3, AnsweredOK, DoneOK
<1> QED
  BY <1>1, <1>3, <1>4, <1>5, MovesKeeps

\* A load fails: a request's own failure changes nothing.
LEMMA LoadFailsKeeps ==
    ASSUME IpInv, NEW c \in Guards, LoadFails(c) PROVE IpInv'
<1>1. /\ ipCalls[c].pc = "query" /\ UNCHANGED <<ipRows, ipNext, ipFresh>>
      /\ ipList' = IF ipCalls[c].kind = "init" THEN {AllowAll} ELSE ipList
      /\ ipExcused' = (ipExcused \/ ipCalls[c].kind # "request")
      /\ Goes(c, IF ipCalls[c].kind = "request" THEN Answered(ipCalls[c].addr, ipList) ELSE Done)
  BY DEF LoadFails
<1>2. ListTypesOK' /\ ipList \in SUBSET ListedIps
  BY <1>1 DEF IpInv, ListTypesOK, ListedIps
<1>3. ipExcused' \/ (ipExcused' = ipExcused /\ ipList' = ipList /\ ~ Reloads(ipCalls[c]))
  BY <1>1 DEF IpInv, ListTypesOK, Reloads
<1>4. PICK call : Goes(c, call) /\ CallOK(call, IpsOf(ipRows))
  BY <1>1, <1>2, IpCallTypes, AnsweredOK, DoneOK
<1> QED
  BY <1>1, <1>2, <1>3, <1>4, MovesKeeps

\* A request is answered.
LEMMA RespondKeeps ==
    ASSUME IpInv, NEW c \in Guards, Respond(c) PROVE IpInv'
<1>1. Goes(c, Done) /\ ~ Reloads(ipCalls[c]) /\ UNCHANGED <<ipRows, ipNext, ipList, ipFresh, ipExcused>>
  BY DEF Respond, Reloads
<1> QED
  BY <1>1, DoneOK, MovesKeeps DEF IpInv, ListTypesOK

\* Every step keeps it.
LEMMA IpStepKeeps ==
    ASSUME IpInv, IpNextOn(Guards, IpEntries, Addrs) \/ UNCHANGED ipVars PROVE IpInv'
<1>1. CASE UNCHANGED ipVars
  BY <1>1 DEF IpInv, TableTypes, ListTypesOK, CallsOK, ListKept, ipVars
<1>2. CASE Outdate
  BY <1>2 DEF IpInv, TableTypes, ListTypesOK, CallsOK, ListKept, Outdate
<1>3. ASSUME NEW c \in Guards,
             \/ \E ips \in SUBSET IpEntries :
                  Begin(c, "update", ips) \/ Begin(c, "delete", ips) \/ Begin(c, "add", ips)
             \/ Begin(c, "allow", {}) \/ Begin(c, "deny", {})
      PROVE  IpInv'
  <2>1. {} \in SUBSET IpEntries
    OBVIOUS
  <2> QED
    BY <1>3, <2>1, BeginKeeps
<1>4. ASSUME NEW c \in Guards,
             \/ FindDeleted(c) \/ FindExisting(c) \/ FindAllowAll(c) \/ FindOthers(c)
             \/ Replace(c) \/ Delete(c) \/ Add(c) \/ SwitchOff(c) \/ SwitchOn(c)
             \/ ReadAdded(c) \/ EditFails(c)
             \/ Query(c) \/ Install(c) \/ LoadFails(c) \/ Respond(c)
      PROVE  IpInv'
  BY <1>4, FindDeletedKeeps, FindExistingKeeps, FindSwitchKeeps, EditsKeep, ReadAddedKeeps,
     EditFailsKeeps, QueryKeeps, InstallKeeps, LoadFailsKeeps, RespondKeeps
<1>5. CASE IpNextOn(Guards, IpEntries, Addrs)
  BY <1>2, <1>3, <1>4, <1>5, RequestKeeps DEF IpNextOn
<1> QED
  BY <1>1, <1>5

\* The invariant holds at the start, while initialize loads the list.
LEMMA IpInitial == ASSUME GuardInit PROVE IpInv
<1>1. PICK c \in Guards : ipCalls = [x \in Guards |-> IF x = c THEN Call("init", "query") ELSE Done]
  BY DEF GuardInit
<1>2. CallOK(Call("init", "query"), IpsOf(ipRows)) /\ Reloads(Call("init", "query"))
  BY EntryParts DEF Call, CallOK, Done, IpCallRecs, IpPcs, IpKinds, Reloads
<1>3. TableTypes
  BY GuardAssumption DEF GuardInit, TableTypes, ListedIps
<1>4. ListTypesOK
  BY DEF GuardInit, ListTypesOK, ListedIps
<1>5. CallsOK /\ ListKept
  BY <1>1, <1>2, DoneOK DEF CallsOK, ListKept
<1> QED
  BY <1>3, <1>4, <1>5 DEF IpInv

\* What it says of the lists and the answers.
LEMMA IpInvGives == ASSUME IpInv, RateTypes PROVE ListEnforced
<1>1. GuardTypeOK
  BY DEF GuardTypeOK, RateTypes, IpInv, TableTypes, ListTypesOK, CallsOK, CallOK, IpCallRecs, IpPcs, ListedIps
<1>2. ListIsOfTable
  BY DEF ListIsOfTable, IpInv, ListKept, Reloads
<1>3. DecidedByBlocks
  BY DEF DecidedByBlocks, IpInv, CallsOK, CallOK
<1> QED
  BY <1>1, <1>2, <1>3 DEF ListEnforced

(* Requests are held against the list of the table, as blocks of addresses,  *)
(* however edits, loads and failures overlap (IpWhitelistService.ts).        *)
THEOREM ListStaysEnforced == GuardSpec => []ListEnforced
<1>1. GuardInit => RateInv /\ IpInv
  BY RateInitial, IpInitial
<1>2. RateInv /\ IpInv /\ [GuardNext]_guardVars => (RateInv /\ IpInv)'
  BY RateStepKeeps, IpStepKeeps DEF GuardNext, guardVars
<1>3. RateInv /\ IpInv => ListEnforced
  BY IpInvGives DEF RateInv
<1> QED
  BY <1>1, <1>2, <1>3, PTL DEF GuardSpec

-----------------------------------------------------------------------------
(* Event store: the cache *)

CacheEntries == [event : Nat, at : Nat]

\* The entries of a stream, for some assignment of events to streams.
StreamEntries(ev, c, m) == {x \in c : ev[x.event].stream = m}

\* A cache of a session keeps its limits and holds events of the session only.
CacheFits(ev, made, c, s) ==
    /\ c \subseteq CacheEntries /\ IsFiniteSet(c)
    /\ Cardinality(c) <= MaxCacheSize
    /\ \A x \in c : x.event \in 1 .. made /\ ev[x.event].sess = s
    /\ \A m \in Streams : Cardinality(StreamEntries(ev, c, m)) <= CacheSize

\* A set of numbers has a least member.
LEMMA LeastNumber ==
    ASSUME NEW S \in SUBSET Nat, S # {}
    PROVE  \E x \in S : \A y \in S : x <= y
<1>1. PICK x \in S : \A y \in S : ~ (<<y, x>> \in OpToRel(<, Nat))
  BY NatLessThanWellFounded, WFMin
<1>2. ASSUME NEW y \in S PROVE x <= y
  <2>1. <<y, x>> \notin {ss \in Nat \X Nat : ss[1] < ss[2]}
    BY <1>1 DEF OpToRel
  <2>2. <<y, x>> \in Nat \X Nat /\ x \in Nat /\ y \in Nat
    OBVIOUS
  <2>3. ~ (y < x)
    BY <2>1, <2>2
  <2> QED
    BY <2>2, <2>3
<1> QED
  BY <1>2

\* The smallest id of a full stream makes room.
LEMMA SmallestGoes ==
    ASSUME NEW c \in SUBSET CacheEntries, NEW among \in SUBSET c, among # {}
    PROVE  \E x \in among : WithoutSmallest(c, among) \subseteq c \ {x}
<1> DEFINE S == {x.event : x \in among}
<1>1. S \in SUBSET Nat /\ S # {}
  BY DEF CacheEntries
<1>2. PICK k \in S : \A y \in S : k <= y
  BY <1>1, LeastNumber
<1>3. PICK x \in among : x.event = k
  OBVIOUS
<1>4. \A y \in among : ~ (y.event < x.event)
  <2> TAKE y \in among
  <2>1. y.event \in S /\ y.event \in Nat /\ k \in Nat
    BY <1>1
  <2> QED
    BY <1>2, <1>3, <2>1
<1> QED
  BY <1>4 DEF WithoutSmallest

\* The oldest entry goes when any does.
LEMMA OldestGoes ==
    ASSUME NEW c \in SUBSET CacheEntries, c # {}, NEW k \in Nat \ {0}
    PROVE  \E x \in c : WithoutOldest(c, k) \subseteq c \ {x}
<1> DEFINE S == {x.at : x \in c}
<1>1. S \in SUBSET Nat /\ S # {}
  BY DEF CacheEntries
<1>2. PICK a \in S : \A y \in S : a <= y
  BY <1>1, LeastNumber
<1>3. PICK x \in c : x.at = a
  OBVIOUS
<1>4. {y \in c : y.at < x.at} = {}
  <2>1. \A y \in c : ~ (y.at < x.at)
    <3> TAKE y \in c
    <3>1. y.at \in S /\ y.at \in Nat /\ a \in Nat
      BY <1>1
    <3> QED
      BY <1>2, <1>3, <3>1
  <2> QED
    BY <2>1
<1>5. Cardinality({y \in c : y.at < x.at}) = 0
  BY <1>4, FS_EmptySet
<1>6. ~ (Cardinality({y \in c : y.at < x.at}) >= k)
  BY <1>5
<1>7. x \notin WithoutOldest(c, k) /\ WithoutOldest(c, k) \subseteq c
  BY <1>6, Zenon DEF WithoutOldest
<1> QED
  BY <1>7

\* Fewer entries fit as well.
LEMMA FewerFit ==
    ASSUME NEW ev, NEW made \in Nat, NEW s, NEW c, NEW d \in SUBSET c,
           c \subseteq CacheEntries, IsFiniteSet(c),
           \A x \in c : x.event \in 1 .. made /\ ev[x.event].sess = s,
           \A m \in Streams : Cardinality(StreamEntries(ev, c, m)) <= CacheSize,
           Cardinality(d) <= MaxCacheSize
    PROVE  CacheFits(ev, made, d, s)
<1>1. d \subseteq CacheEntries /\ IsFiniteSet(d)
  BY FS_Subset
<1>2. ASSUME NEW m \in Streams PROVE Cardinality(StreamEntries(ev, d, m)) <= CacheSize
  <2> DEFINE D == StreamEntries(ev, d, m)   C == StreamEntries(ev, c, m)
  <2>1. D \in SUBSET C /\ C \in SUBSET c
    BY DEF StreamEntries
  <2>2. IsFiniteSet(C) /\ IsFiniteSet(D)
    BY <2>1, FS_Subset
  <2>3. Cardinality(D) \in Nat /\ Cardinality(C) \in Nat /\ Cardinality(D) <= Cardinality(C)
    BY <2>1, <2>2, FS_Subset, FS_CardinalityType
  <2>4. Cardinality(C) <= CacheSize /\ CacheSize \in Nat
    BY EventAssumption
  <2> HIDE DEF D, C
  <2>5. Cardinality(D) <= CacheSize
    BY <2>3, <2>4
  <2> QED
    BY <2>5 DEF D
<1> QED
  BY <1>1, <1>2 DEF CacheFits

\* Later events change nothing for a cache.
LEMMA FitsOn ==
    ASSUME NEW ev, NEW made \in Nat, NEW s, NEW c, CacheFits(ev, made, c, s),
           NEW ev2, NEW made2 \in Nat, made <= made2, \A n \in 1 .. made : ev2[n] = ev[n]
    PROVE  CacheFits(ev2, made2, c, s)
<1>1. \A x \in c : ev2[x.event] = ev[x.event] /\ x.event \in 1 .. made2
  BY DEF CacheFits
<1>2. \A m \in Streams : StreamEntries(ev2, c, m) = StreamEntries(ev, c, m)
  BY <1>1 DEF StreamEntries
<1> QED
  BY <1>1, <1>2 DEF CacheFits

\* An empty cache fits.
LEMMA NothingFits == ASSUME NEW ev, NEW made, NEW s PROVE CacheFits(ev, made, {}, s)
<1>1. \A m \in Streams : StreamEntries(ev, {}, m) = {}
  BY DEF StreamEntries
<1> QED
  BY <1>1, FS_EmptySet, EventAssumption DEF CacheFits

\* Timestamps are numbers.
LEMMA NowIsNumber == Now \in Nat
<1>1. IsFiniteSet(Events)
  BY FS_Interval, EventAssumption DEF Events
<1>2. IsFiniteSet({n \in Events : stage[n] = "returned"})
  BY <1>1, FS_Subset
<1> QED
  BY <1>2, FS_CardinalityType DEF Now

\* storeEventInCache keeps both limits.
LEMMA CachedFits ==
    ASSUME created \in Nat, NEW s, NEW c, CacheFits(event, created, c, s),
           NEW n \in 1 .. created, event[n].sess = s, event[n].stream \in Streams
    PROVE  CacheFits(event, created, Cached(c, n), s)
<1> DEFINE m0 == event[n].stream
           own == OfStream(c, m0)
           room == IF Cardinality(own) >= CacheSize THEN WithoutSmallest(c, own) ELSE c
           all == room \cup {Entry(n)}
           size == Cardinality(all)
           SE(d, m) == StreamEntries(event, d, m)
<1>1. /\ c \in SUBSET CacheEntries /\ IsFiniteSet(c) /\ Cardinality(c) <= MaxCacheSize
      /\ MaxCacheSize \in Nat \ {0} /\ CacheSize \in Nat \ {0}
      /\ \A x \in c : x.event \in 1 .. created /\ event[x.event].sess = s
      /\ \A m \in Streams : Cardinality(SE(c, m)) <= CacheSize
  BY EventAssumption DEF CacheFits
<1>2. own = SE(c, m0) /\ own \in SUBSET c /\ IsFiniteSet(own)
  BY <1>1, FS_Subset DEF OfStream, StreamEntries
<1>3. Cardinality(own) \in Nat /\ Cardinality(c) \in Nat /\ Cardinality(own) <= CacheSize
  BY <1>1, <1>2, FS_CardinalityType
<1>4. Entry(n) \in CacheEntries /\ Entry(n).event = n
  BY NowIsNumber DEF Entry, CacheEntries
<1>5. room \in SUBSET c /\ IsFiniteSet(room) /\ Cardinality(room) \in Nat /\ Cardinality(room) <= Cardinality(c)
  <2>1. room \in SUBSET c
    BY DEF WithoutSmallest
  <2> HIDE DEF room
  <2> QED
    BY <1>1, <2>1, FS_Subset, FS_CardinalityType
<1>6. SE(room, m0) \in SUBSET own /\ Cardinality(SE(room, m0)) \in Nat /\ Cardinality(SE(room, m0)) <= CacheSize - 1
      /\ IsFiniteSet(SE(room, m0))
  <2>1. SE(room, m0) \in SUBSET own
    BY <1>2, <1>5 DEF StreamEntries
  <2>2. IsFiniteSet(SE(room, m0)) /\ Cardinality(SE(room, m0)) \in Nat
        /\ Cardinality(SE(room, m0)) <= Cardinality(own)
    BY <2>1, <1>2, FS_Subset, FS_CardinalityType
  <2>3. CASE Cardinality(own) >= CacheSize
    <3>1. own # {}
      BY <2>3, <1>1, FS_EmptySet
    <3>2. PICK x \in own : WithoutSmallest(c, own) \subseteq c \ {x}
      BY <3>1, <1>1, <1>2, SmallestGoes
    <3>3. SE(room, m0) \in SUBSET (own \ {x})
      BY <2>1, <2>3, <3>2 DEF StreamEntries
    <3>4. IsFiniteSet(own \ {x}) /\ Cardinality(own \ {x}) = Cardinality(own) - 1
      BY <1>2, FS_RemoveElement
    <3>5. Cardinality(SE(room, m0)) <= Cardinality(own) - 1
      BY <3>3, <3>4, FS_Subset
    <3> HIDE DEF own, room
    <3> QED
      BY <3>5, <2>1, <2>2, <1>3, <1>1
  <2>4. CASE ~ (Cardinality(own) >= CacheSize)
    <3> HIDE DEF own, room
    <3> QED
      BY <2>4, <2>1, <2>2, <1>3, <1>1
  <2> QED
    BY <2>3, <2>4
<1>7. /\ all \subseteq CacheEntries /\ IsFiniteSet(all) /\ size \in Nat /\ size <= MaxCacheSize + 1
      /\ \A x \in all : x.event \in 1 .. created /\ event[x.event].sess = s
  <2> HIDE DEF room
  <2>0. IsFiniteSet(all) /\ size = IF Entry(n) \in room THEN Cardinality(room) ELSE Cardinality(room) + 1
    BY <1>5, FS_AddElement
  <2>1. IsFiniteSet(all) /\ size <= Cardinality(room) + 1 /\ size \in Nat
    BY <1>5, <2>0
  <2>2. all \subseteq CacheEntries /\ \A x \in all : x.event \in 1 .. created /\ event[x.event].sess = s
    BY <1>1, <1>4, <1>5
  <2> HIDE DEF all
  <2> QED
    BY <2>1, <2>2, <1>1, <1>3, <1>5
<1>8. ASSUME NEW m \in Streams PROVE Cardinality(SE(all, m)) <= CacheSize
  <2> HIDE DEF room
  <2>1. CASE m = m0
    <3>1. SE(all, m) = SE(room, m0) \cup {Entry(n)}
      BY <2>1, <1>4 DEF StreamEntries
    <3> HIDE DEF all, SE, m0
    <3>2. Cardinality(SE(all, m)) = IF Entry(n) \in SE(room, m0) THEN Cardinality(SE(room, m0))
                                    ELSE Cardinality(SE(room, m0)) + 1
      BY <3>1, <1>6, FS_AddElement
    <3> QED
      BY <3>2, <1>6, <1>1
  <2>2. CASE m # m0
    <3>1. SE(all, m) \in SUBSET SE(c, m)
      BY <2>2, <1>4, <1>5 DEF StreamEntries
    <3>2. SE(c, m) \in SUBSET c
      BY DEF StreamEntries
    <3>3. IsFiniteSet(SE(c, m)) /\ IsFiniteSet(SE(all, m)) /\ Cardinality(SE(all, m)) <= Cardinality(SE(c, m))
      BY <3>1, <3>2, <1>1, FS_Subset
    <3>4. Cardinality(SE(c, m)) \in Nat /\ Cardinality(SE(all, m)) \in Nat /\ Cardinality(SE(c, m)) <= CacheSize
      BY <3>3, <1>1, FS_CardinalityType
    <3> HIDE DEF all, SE
    <3> QED
      BY <3>3, <3>4, <1>1
  <2> QED
    BY <2>1, <2>2
<1>9. CASE size > MaxCacheSize
  <2> DEFINE kept == WithoutOldest(all, size - MaxCacheSize)
  <2>1. Cached(c, n) = kept
    BY <1>9 DEF Cached
  <2>2. all # {} /\ size - MaxCacheSize \in Nat \ {0}
    BY <1>7, <1>9, <1>1
  <2> HIDE DEF all
  <2>3. PICK x \in all : kept \subseteq all \ {x}
    BY <1>7, <2>2, OldestGoes
  <2>4. IsFiniteSet(all \ {x}) /\ Cardinality(all \ {x}) = size - 1
    BY <1>7, FS_RemoveElement
  <2>5. Cardinality(kept) <= size - 1 /\ Cardinality(kept) \in Nat /\ kept \in SUBSET all
    BY <2>3, <2>4, FS_Subset, FS_CardinalityType
  <2>6. Cardinality(kept) <= MaxCacheSize
    <3> HIDE DEF size, kept
    <3> QED
      BY <2>5, <1>7, <1>1
  <2> HIDE DEF kept
  <2> QED
    BY <2>1, <2>5, <2>6, <1>7, <1>8, FewerFit
<1>10. CASE ~ (size > MaxCacheSize)
  <2>1. Cached(c, n) = all
    BY <1>10 DEF Cached
  <2> HIDE DEF all
  <2>2. Cardinality(all) <= MaxCacheSize
    BY <1>10, <1>7, <1>1
  <2> QED
    BY <2>1, <2>2, <1>7, <1>8, FewerFit
<1> QED
  BY <1>9, <1>10


-----------------------------------------------------------------------------
(* Event store: the inductive invariant *)

Connections == ESessions \X Streams
EvStages == {"none", "persisting", "persisted", "returned", "failed"}
Replays == [pc : {"idle", "anchor", "rows", "send"}, stream : Streams \cup {NoStream}, anchor : Nat,
            queue : SUBSET [id : Nat, event : Nat]]
IsOf(n, s, m) == n \in 1 .. created /\ event[n] = [sess |-> s, stream |-> m]

EvTypes ==
    /\ created \in 0 .. MaxEvents /\ aged \in 0 .. created
    /\ event = [n \in Events |-> event[n]]
    /\ \A n \in 1 .. created : event[n] \in [sess : ESessions, stream : Streams]
    /\ stage \in [Events -> EvStages]
    /\ rowId \in [Events -> Nat] /\ nextRow \in Nat \ {0}
    /\ cache = [s \in ESessions |-> cache[s]]
ClientTypes ==
    /\ up \subseteq Connections /\ last \in [Connections -> 0 .. created]
    /\ got \in [Connections -> SUBSET Events] /\ due \in [Connections -> SUBSET Events]
    /\ replay \in [ESessions -> Replays]

\* Rows are of events that were made, and there is one as long as its id may be
\* in use and the event has not expired.
RowsInv ==
    \A n \in Events :
        /\ stage[n] = "none" <=> n > created
        /\ rowId[n] < nextRow /\ (rowId[n] # 0 => n <= created)
        /\ stage[n] \in {"persisted", "returned"} /\ n > aged => rowId[n] # 0
CachesFit == \A s \in ESessions : CacheFits(event, created, cache[s], s)

\* What clients got, and are about to get, is of their stream.
GotInv == \A s \in ESessions, m \in Streams : \A n \in got[<<s, m>>] : IsOf(n, s, m)

\* The stream of a replay stays without a connection until the replay ends.
ReplayOK(s) ==
    LET r == replay[s] IN
    r.pc # "idle" =>
        /\ r.stream \in Streams /\ <<s, r.stream>> \notin up
        /\ r.pc = "anchor" => r.anchor \in 1 .. created
        /\ \A q \in r.queue : IsOf(q.event, s, r.stream)

\* What a replay owes is sent or in its queue.
DueOK(s) ==
    LET r == replay[s] IN
    r.pc = "send" => due[<<s, r.stream>>] \subseteq got[<<s, r.stream>>] \cup {q.event : q \in r.queue}
ReplaysInv == (\A s \in ESessions : ReplayOK(s) /\ DueOK(s)) /\ ReplayComplete

EvInv == EvTypes /\ ClientTypes /\ RowsInv /\ CachesFit /\ GotInv /\ ReplaysInv

\* Bounds of the events.
LEMMA MadeEvents ==
    ASSUME created \in 0 .. MaxEvents
    PROVE  created \in Nat /\ MaxEvents \in Nat /\ 1 .. created \subseteq Events /\ Events \subseteq Nat
  BY EventAssumption DEF Events

\* The invariant holds of an empty store.
LEMMA EvInitial == ASSUME EvInit PROVE EvInv
<1> USE EventAssumption
<1>1. EvTypes
  BY DEF EvInit, EvTypes, Events, EvStages
<1>2. ClientTypes
  BY DEF EvInit, ClientTypes, Connections, Replays, NoReplay
<1>3. RowsInv
  BY DEF EvInit, RowsInv, Events
<1>4. CachesFit
  BY NothingFits DEF EvInit, CachesFit
<1>5. GotInv
  BY DEF EvInit, GotInv
<1>6. ReplaysInv
  BY DEF EvInit, ReplaysInv, ReplayOK, DueOK, NoReplay, ReplayComplete
<1> QED
  BY <1>1, <1>2, <1>3, <1>4, <1>5, <1>6 DEF EvInv

\* A step that touches neither the events nor what clients have and replay.
LEMMA EventsOnly ==
    ASSUME EvInv, UNCHANGED <<created, event, up, last, got, replay, due>>,
           EvTypes', RowsInv', CachesFit'
    PROVE  EvInv'
<1>1. ClientTypes'
  BY DEF EvInv, ClientTypes
<1>2. GotInv'
  BY DEF EvInv, GotInv, IsOf
<1>3. ReplaysInv'
  BY DEF EvInv, ReplaysInv, ReplayOK, DueOK, ReplayComplete, IsOf
<1> QED
  BY <1>1, <1>2, <1>3 DEF EvInv

\* A step that touches neither events nor rows nor caches.
LEMMA ClientsOnly ==
    ASSUME EvInv, UNCHANGED <<created, event, stage, rowId, nextRow, aged, cache>>,
           ClientTypes', GotInv', ReplaysInv'
    PROVE  EvInv'
<1>1. EvTypes'
  BY DEF EvInv, EvTypes
<1>2. RowsInv'
  BY DEF EvInv, RowsInv
<1>3. CachesFit'
  BY DEF EvInv, CachesFit
<1> QED
  BY <1>1, <1>2, <1>3 DEF EvInv

\* An event gets its id.
LEMMA StoreEventKeeps ==
    ASSUME EvInv, NEW s \in ESessions, NEW m \in Streams, StoreEvent(s, m) PROVE EvInv'
<1> DEFINE k == created + 1
<1>1. /\ created \in Nat /\ MaxEvents \in Nat /\ k \in Events /\ created' = k /\ k \in 0 .. MaxEvents
      /\ 1 .. created \subseteq Events /\ Events \subseteq Nat /\ 1 .. k = 1 .. created \cup {k}
  BY EventAssumption DEF EvInv, EvTypes, Events, StoreEvent
<1>2. event' = [n \in Events |-> IF n = k THEN [sess |-> s, stream |-> m] ELSE event[n]]
  BY <1>1 DEF StoreEvent, EvInv, EvTypes
<1>3. \A n \in 1 .. created : event'[n] = event[n] /\ n # k
  BY <1>1, <1>2
<1>4. \A n, t, l : IsOf(n, t, l) => IsOf(n, t, l)'
  BY <1>1, <1>3 DEF IsOf
<1>5. EvTypes'
  <2>1. created' \in 0 .. MaxEvents /\ aged' \in 0 .. created'
    BY <1>1 DEF EvInv, EvTypes, StoreEvent
  <2>2. \A n \in 1 .. created' : event'[n] \in [sess : ESessions, stream : Streams]
    BY <1>1, <1>2, <1>3 DEF EvInv, EvTypes
  <2>3. stage' \in [Events -> EvStages]
    BY DEF EvInv, EvTypes, EvStages, StoreEvent
  <2> QED
    BY <1>2, <2>1, <2>2, <2>3 DEF EvInv, EvTypes, StoreEvent
<1>6. ClientTypes'
  <2>1. 0 .. created \subseteq 0 .. created'
    BY <1>1
  <2> QED
    BY <2>1 DEF EvInv, ClientTypes, StoreEvent
<1>7. RowsInv'
  <2> SUFFICES ASSUME NEW n \in Events
               PROVE  /\ stage'[n] = "none" <=> n > k
                      /\ rowId[n] < nextRow /\ (rowId[n] # 0 => n <= k)
                      /\ stage'[n] \in {"persisted", "returned"} /\ n > aged => rowId[n] # 0
    BY DEF RowsInv, StoreEvent
  <2>1. n \in Nat /\ stage'[n] = IF n = k THEN "persisting" ELSE stage[n]
    BY <1>1 DEF StoreEvent, EvInv, EvTypes
  <2>2. /\ stage[n] = "none" <=> n > created
        /\ rowId[n] < nextRow /\ (rowId[n] # 0 => n <= created)
        /\ stage[n] \in {"persisted", "returned"} /\ n > aged => rowId[n] # 0
    BY DEF EvInv, RowsInv
  <2> QED
    BY <1>1, <2>1, <2>2
<1>8. CachesFit'
  <2>1. ASSUME NEW t \in ESessions PROVE CacheFits(event', created', cache[t], t)
    <3>1. CacheFits(event, created, cache[t], t) /\ created <= created' /\ created' \in Nat
      BY <1>1 DEF EvInv, CachesFit
    <3> QED
      BY <1>1, <1>3, <3>1, FitsOn
  <2> QED
    BY <2>1 DEF CachesFit, StoreEvent
<1>9. GotInv'
  BY <1>4 DEF EvInv, GotInv, StoreEvent
<1>10. ReplaysInv'
  <2>1. ASSUME NEW t \in ESessions PROVE ReplayOK(t)'
    BY <1>1, <1>4 DEF EvInv, ReplaysInv, ReplayOK, StoreEvent
  <2> QED
    BY <2>1 DEF EvInv, ReplaysInv, DueOK, ReplayComplete, StoreEvent
<1> QED
  BY <1>5, <1>6, <1>7, <1>8, <1>9, <1>10 DEF EvInv

\* Its row is inserted, or the insert fails.
LEMMA PersistKeeps ==
    ASSUME EvInv, NEW n \in 1 .. created, PersistToDatabase(n) PROVE EvInv'
<1>1. /\ created \in Nat /\ 1 .. created \subseteq Events /\ Events \subseteq Nat /\ n \in Events
      /\ nextRow \in Nat \ {0} /\ stage[n] = "persisting"
  BY MadeEvents DEF EvInv, EvTypes, PersistToDatabase
<1>2. UNCHANGED <<created, event, aged, cache, up, last, got, replay, due>>
  BY DEF PersistToDatabase
<1>3. PICK st \in {"persisted", "failed"} : stage' = [stage EXCEPT ![n] = st]
  BY DEF PersistToDatabase
<1>4. \/ st = "persisted" /\ rowId' = [rowId EXCEPT ![n] = nextRow] /\ nextRow' = nextRow + 1
      \/ st = "failed" /\ UNCHANGED <<rowId, nextRow>>
  <2>1. stage'[n] = st
    BY <1>1, <1>3 DEF EvInv, EvTypes
  <2>2. \/ stage' = [stage EXCEPT ![n] = "persisted"] /\ rowId' = [rowId EXCEPT ![n] = nextRow] /\ nextRow' = nextRow + 1
        \/ stage' = [stage EXCEPT ![n] = "failed"] /\ UNCHANGED <<rowId, nextRow>>
    BY DEF PersistToDatabase
  <2> QED
    BY <1>1, <2>1, <2>2 DEF EvInv, EvTypes
<1>5. EvTypes'
  BY <1>1, <1>2, <1>3, <1>4 DEF EvInv, EvTypes, EvStages
<1>6. RowsInv'
  <2> SUFFICES ASSUME NEW e \in Events
               PROVE  /\ stage'[e] = "none" <=> e > created
                      /\ rowId'[e] < nextRow' /\ (rowId'[e] # 0 => e <= created)
                      /\ stage'[e] \in {"persisted", "returned"} /\ e > aged => rowId'[e] # 0
    BY <1>2 DEF RowsInv
  <2>1. /\ stage[e] = "none" <=> e > created
        /\ rowId[e] < nextRow /\ (rowId[e] # 0 => e <= created)
        /\ stage[e] \in {"persisted", "returned"} /\ e > aged => rowId[e] # 0
    BY DEF EvInv, RowsInv
  <2>2. /\ e \in Nat /\ rowId[e] \in Nat /\ stage'[e] = IF e = n THEN st ELSE stage[e]
        /\ n <= created
    BY <1>1, <1>3 DEF EvInv, EvTypes
  <2>3. CASE st = "persisted" /\ rowId' = [rowId EXCEPT ![n] = nextRow] /\ nextRow' = nextRow + 1
    <3>1. rowId'[e] = IF e = n THEN nextRow ELSE rowId[e]
      BY <2>3 DEF EvInv, EvTypes
    <3> QED
      BY <1>1, <2>1, <2>2, <2>3, <3>1
  <2>4. CASE st = "failed" /\ UNCHANGED <<rowId, nextRow>>
    BY <1>1, <2>1, <2>2, <2>4
  <2> QED
    BY <1>4, <2>3, <2>4
<1>7. CachesFit'
  BY <1>2 DEF EvInv, CachesFit
<1> QED
  BY <1>2, <1>5, <1>6, <1>7, EventsOnly

\* Its id is returned: it is cached, and sent if the stream is connected.
LEMMA ReturnKeeps ==
    ASSUME EvInv, NEW n \in 1 .. created, Return(n) PROVE EvInv'
<1> DEFINE s == event[n].sess   m == event[n].stream   x == <<s, m>>
<1>1. /\ created \in Nat /\ 1 .. created \subseteq Events /\ Events \subseteq Nat /\ n \in Events
      /\ s \in ESessions /\ m \in Streams /\ x \in Connections /\ event[n] = [sess |-> s, stream |-> m]
  BY MadeEvents DEF EvInv, EvTypes, Connections
<1>2. /\ stage[n] = "persisted" /\ stage' = [stage EXCEPT ![n] = "returned"]
      /\ cache' = [cache EXCEPT ![s] = Cached(cache[s], n)]
      /\ IF x \in up
         THEN last' = [last EXCEPT ![x] = n] /\ got' = [got EXCEPT ![x] = got[x] \cup {n}]
         ELSE UNCHANGED <<last, got>>
      /\ UNCHANGED <<created, event, rowId, nextRow, aged, up, replay, due>>
  BY DEF Return
<1> HIDE DEF s, m, x
<1>3. EvTypes'
  BY <1>1, <1>2 DEF EvInv, EvTypes, EvStages
<1>4. RowsInv'
  <2> SUFFICES ASSUME NEW e \in Events
               PROVE  /\ stage'[e] = "none" <=> e > created
                      /\ stage'[e] \in {"persisted", "returned"} /\ e > aged => rowId[e] # 0
    BY <1>2 DEF RowsInv, EvInv
  <2>1. stage'[e] = IF e = n THEN "returned" ELSE stage[e]
    BY <1>1, <1>2 DEF EvInv, EvTypes
  <2> QED
    BY <1>2, <2>1 DEF RowsInv, EvInv
<1>5. CachesFit'
  <2>1. CacheFits(event, created, cache[s], s)
    BY <1>1 DEF EvInv, CachesFit
  <2>2. CacheFits(event, created, Cached(cache[s], n), s)
    BY <1>1, <2>1, CachedFits DEF s, m
  <2>3. ASSUME NEW t \in ESessions PROVE cache'[t] = IF t = s THEN Cached(cache[s], n) ELSE cache[t]
    BY <1>1, <1>2 DEF EvInv, EvTypes
  <2> QED
    BY <1>2, <2>2, <2>3 DEF EvInv, CachesFit
<1>6. ASSUME NEW y \in Connections
      PROVE  got'[y] = IF y = x /\ x \in up THEN got[y] \cup {n} ELSE got[y]
  <2>1. DOMAIN got = Connections
    BY DEF EvInv, ClientTypes
  <2>2. CASE x \in up
    BY <1>1, <1>2, <2>1, <2>2
  <2>3. CASE x \notin up
    BY <1>2, <2>3
  <2> QED
    BY <2>2, <2>3
<1>7. ClientTypes'
  <2>1. got' \in [Connections -> SUBSET Events]
    BY <1>1, <1>2 DEF EvInv, ClientTypes
  <2>2. last' \in [Connections -> 0 .. created]
    BY <1>1, <1>2 DEF EvInv, ClientTypes
  <2> QED
    BY <1>2, <2>1, <2>2 DEF EvInv, ClientTypes
<1>8. GotInv'
  <2> SUFFICES ASSUME NEW t \in ESessions, NEW l \in Streams, NEW e \in got'[<<t, l>>]
               PROVE  IsOf(e, t, l)
    BY <1>2 DEF GotInv, IsOf
  <2>1. <<t, l>> \in Connections
    BY DEF Connections
  <2>2. e \in got[<<t, l>>] \/ (e = n /\ <<t, l>> = x)
    BY <1>6, <2>1
  <2>3. CASE e \in got[<<t, l>>]
    BY <2>3 DEF EvInv, GotInv
  <2>4. CASE e = n /\ <<t, l>> = x
    BY <1>1, <2>4 DEF IsOf, x
  <2> QED
    BY <2>2, <2>3, <2>4
<1>9. ReplaysInv'
  <2>1. \A y \in Connections : got[y] \subseteq got'[y]
    BY <1>6
  <2>2. ASSUME NEW t \in ESessions PROVE ReplayOK(t)'
    BY <1>2 DEF EvInv, ReplaysInv, ReplayOK, IsOf
  <2>3. ASSUME NEW t \in ESessions PROVE DueOK(t)'
    <3>1. replay[t].pc = "send" => <<t, replay[t].stream>> \in Connections
      BY DEF EvInv, ReplaysInv, ReplayOK, Connections
    <3> QED
      BY <1>2, <2>1, <3>1 DEF EvInv, ReplaysInv, DueOK
  <2>4. ReplayComplete'
    BY <1>2, <2>1 DEF EvInv, ReplaysInv, ReplayComplete, ClientTypes
  <2> QED
    BY <2>2, <2>3, <2>4 DEF ReplaysInv
<1> QED
  BY <1>3, <1>4, <1>5, <1>7, <1>8, <1>9 DEF EvInv


\* A client loses its connection.
LEMMA DropKeeps ==
    ASSUME EvInv, NEW x \in Connections, Drop(x) PROVE EvInv'
<1>1. /\ up' = up \ {x} /\ due' = [due EXCEPT ![x] = {}]
      /\ UNCHANGED <<created, event, stage, rowId, nextRow, aged, cache, last, got, replay>>
  BY DEF Drop
<1>2. ClientTypes' /\ \A y \in Connections : due'[y] = IF y = x THEN {} ELSE due[y]
  BY <1>1 DEF EvInv, ClientTypes
<1>3. GotInv'
  BY <1>1 DEF EvInv, GotInv, IsOf
<1>4. ASSUME NEW t \in ESessions PROVE ReplayOK(t)'
  BY <1>1 DEF EvInv, ReplaysInv, ReplayOK, IsOf
<1>5. ASSUME NEW t \in ESessions PROVE DueOK(t)'
  <2>1. replay[t].pc = "send" => <<t, replay[t].stream>> \in Connections
    BY DEF EvInv, ReplaysInv, ReplayOK, Connections
  <2> QED
    BY <1>1, <1>2, <2>1 DEF EvInv, ReplaysInv, DueOK
<1>6. ReplayComplete'
  BY <1>1, <1>2 DEF EvInv, ReplaysInv, ReplayComplete, ClientTypes
<1> QED
  BY <1>1, <1>2, <1>3, <1>4, <1>5, <1>6, ClientsOnly DEF ReplaysInv

\* A step of a replay that sends nothing: it has a new record, and perhaps owes
\* something else on its stream, which has no connection.
LEMMA ReplayMoves ==
    ASSUME EvInv, NEW s \in ESessions, NEW r \in Replays, NEW x \in Connections, NEW d \in SUBSET Events,
           replay' = [replay EXCEPT ![s] = r],
           UNCHANGED due \/ (x \notin up /\ x[1] = s /\ due' = [due EXCEPT ![x] = d]),
           UNCHANGED <<created, event, stage, rowId, nextRow, aged, cache, up, last, got>>,
           ReplayOK(s)', DueOK(s)'
    PROVE  EvInv'
<1>1. \A t \in ESessions : replay'[t] = IF t = s THEN r ELSE replay[t]
  BY DEF EvInv, ClientTypes
<1>2. ClientTypes'
  BY DEF EvInv, ClientTypes
<1>3. GotInv'
  BY DEF EvInv, GotInv, IsOf
<1>4. \A y \in Connections : due'[y] = due[y] \/ (y = x /\ x \notin up /\ x[1] = s)
  BY DEF EvInv, ClientTypes
<1>5. ASSUME NEW t \in ESessions, t # s PROVE ReplayOK(t)' /\ DueOK(t)'
  <2>1. replay'[t] = replay[t]
    BY <1>1, <1>5
  <2>2. replay[t].pc = "send" => <<t, replay[t].stream>> \in Connections
    BY DEF EvInv, ReplaysInv, ReplayOK, Connections
  <2>3. replay[t].pc = "send" => due'[<<t, replay[t].stream>>] = due[<<t, replay[t].stream>>]
    BY <1>4, <1>5, <2>2
  <2>4. ReplayOK(t)'
    BY <2>1 DEF EvInv, ReplaysInv, ReplayOK, IsOf
  <2>5. DueOK(t)'
    BY <2>1, <2>3 DEF EvInv, ReplaysInv, DueOK
  <2> QED
    BY <2>4, <2>5
<1>6. ReplayComplete'
  BY <1>4 DEF EvInv, ReplaysInv, ReplayComplete, ClientTypes
<1> QED
  BY <1>2, <1>3, <1>5, <1>6, ClientsOnly DEF ReplaysInv

\* A client comes back and names the last event it received.
LEMMA ResumeKeeps ==
    ASSUME EvInv, NEW s \in ESessions, NEW m \in Streams, Resume(s, m) PROVE EvInv'
<1> DEFINE x == <<s, m>>
           r == [pc |-> "anchor", stream |-> m, anchor |-> last[x], queue |-> {}]
<1>1. /\ replay' = [replay EXCEPT ![s] = r] /\ x \notin up /\ last[x] # 0
      /\ UNCHANGED <<created, event, stage, rowId, nextRow, aged, cache, up, last, got, due>>
  BY DEF Resume
<1>2. x \in Connections /\ last[x] \in 0 .. created /\ created \in Nat /\ {} \in SUBSET Events
  BY MadeEvents DEF EvInv, EvTypes, ClientTypes, Connections
<1>3. last[x] \in Nat /\ last[x] \in 1 .. created
  BY <1>1, <1>2
<1>4. r \in Replays
  BY <1>3 DEF Replays
<1>5. replay'[s] = r
  BY <1>1 DEF EvInv, ClientTypes
<1>6. ReplayOK(s)' /\ DueOK(s)'
  BY <1>1, <1>3, <1>5 DEF ReplayOK, DueOK
<1> HIDE DEF r, x
<1> QED
  BY <1>1, <1>2, <1>4, <1>6, ReplayMoves

\* The parts of a replay under way.
LEMMA ReplayParts ==
    ASSUME EvInv, NEW s \in ESessions, replay[s].pc # "idle"
    PROVE  /\ replay[s] \in Replays /\ replay[s].stream \in Streams
           /\ <<s, replay[s].stream>> \in Connections /\ <<s, replay[s].stream>> \notin up
           /\ replay[s].pc = "anchor" => replay[s].anchor \in 1 .. created
           /\ \A q \in replay[s].queue : IsOf(q.event, s, replay[s].stream)
           /\ replay[s].anchor \in Nat /\ replay[s].queue \subseteq [id : Nat, event : Nat]
  BY DEF EvInv, ClientTypes, ReplaysInv, ReplayOK, Connections, Replays

\* No replay is under way.
LEMMA NoReplayOK == NoReplay \in Replays /\ NoReplay.pc = "idle"
  BY DEF NoReplay, Replays

\* The row of that event is found, or the replay ends.
LEMMA FindAnchorKeeps ==
    ASSUME EvInv, NEW s \in ESessions, FindAnchor(s) PROVE EvInv'
<1> DEFINE old == replay[s]
           x == <<s, old.stream>>
           r == IF rowId[old.anchor] # 0 THEN [old EXCEPT !.pc = "rows", !.anchor = rowId[old.anchor]] ELSE NoReplay
<1>1. /\ old.pc = "anchor" /\ replay' = [replay EXCEPT ![s] = r]
      /\ UNCHANGED <<created, event, stage, rowId, nextRow, aged, cache, up, last, got, due>>
  BY DEF FindAnchor
<1>2. /\ old \in Replays /\ old.stream \in Streams /\ x \in Connections /\ x \notin up
      /\ old.anchor \in 1 .. created /\ \A q \in old.queue : IsOf(q.event, s, old.stream)
  BY <1>1, ReplayParts
<1>3. rowId[old.anchor] \in Nat
  BY <1>2, MadeEvents DEF EvInv, EvTypes
<1>4. /\ r \in Replays
      /\ r.pc = "idle" \/ (r.pc = "rows" /\ r.stream = old.stream /\ r.queue = old.queue)
  <2>1. CASE rowId[old.anchor] # 0
    BY <1>2, <1>3, <2>1 DEF Replays
  <2>2. CASE rowId[old.anchor] = 0
    BY <2>2, NoReplayOK
  <2> QED
    BY <2>1, <2>2
<1>5. replay'[s] = r
  BY <1>1 DEF EvInv, ClientTypes
<1> HIDE DEF r
<1>6. ReplayOK(s)' /\ DueOK(s)'
  BY <1>1, <1>2, <1>4, <1>5 DEF ReplayOK, DueOK, IsOf
<1>7. {} \in SUBSET Events
  OBVIOUS
<1> HIDE DEF old, x
<1> QED
  BY <1>1, <1>2, <1>4, <1>6, <1>7, ReplayMoves

\* The rows that are read are those of the stream, and all that are due.
LEMMA RowsRead ==
    ASSUME EvInv, NEW s \in ESessions, NEW m \in Streams, NEW id \in Nat
    PROVE  /\ RowsAfter(s, m, id) \subseteq [id : Nat, event : Nat]
           /\ \A q \in RowsAfter(s, m, id) : IsOf(q.event, s, m)
           /\ \A n \in Events : event[n] = [sess |-> s, stream |-> m] /\ rowId[n] > id =>
                n \in {q.event : q \in RowsAfter(s, m, id)}
<1>1. created \in Nat /\ 1 .. created \subseteq Events /\ Events \subseteq Nat /\ Events = 1 .. MaxEvents
  BY MadeEvents DEF EvInv, EvTypes, Events
<1>2. ASSUME NEW n \in Events, rowId[n] > id PROVE n \in 1 .. created /\ rowId[n] \in Nat
  <2>1. rowId[n] \in Nat /\ (rowId[n] # 0 => n <= created) /\ n \in Nat /\ n >= 1
    BY <1>1 DEF EvInv, EvTypes, RowsInv
  <2> QED
    BY <1>1, <1>2, <2>1
<1>3. ASSUME NEW n \in Events, rowId[n] > id, event[n].sess = s, event[n].stream = m
      PROVE  Row(n) \in [id : Nat, event : Nat] /\ Row(n).event = n /\ IsOf(n, s, m)
  <2>1. n \in 1 .. created /\ rowId[n] \in Nat /\ n \in Nat
    BY <1>1, <1>2, <1>3
  <2>2. event[n] \in [sess : ESessions, stream : Streams]
    BY <2>1 DEF EvInv, EvTypes
  <2> QED
    BY <1>3, <2>1, <2>2 DEF Row, IsOf
<1>4. ASSUME NEW n \in Events, event[n] = [sess |-> s, stream |-> m], rowId[n] > id
      PROVE  n \in {q.event : q \in RowsAfter(s, m, id)}
  <2>1. event[n].sess = s /\ event[n].stream = m
    BY <1>4
  <2>2. Row(n) \in RowsAfter(s, m, id) /\ Row(n).event = n
    BY <1>3, <1>4, <2>1 DEF RowsAfter
  <2> QED
    BY <2>2
<1>5. ASSUME NEW q \in RowsAfter(s, m, id) PROVE q \in [id : Nat, event : Nat] /\ IsOf(q.event, s, m)
  <2>1. PICK n \in Events : q = Row(n) /\ rowId[n] > id /\ event[n].sess = s /\ event[n].stream = m
    BY DEF RowsAfter
  <2> QED
    BY <2>1, <1>3
<1> QED
  BY <1>4, <1>5

\* The rows after it are read.
LEMMA FindRowsKeeps ==
    ASSUME EvInv, NEW s \in ESessions, FindRows(s) PROVE EvInv'
<1> DEFINE old == replay[s]
           m == old.stream
           x == <<s, m>>
           rows == RowsAfter(s, m, old.anchor)
           r == [old EXCEPT !.pc = "send", !.queue = rows]
           d == {n \in Events : event[n] = [sess |-> s, stream |-> m] /\ rowId[n] > old.anchor}
<1>1. /\ old.pc = "rows" /\ replay' = [replay EXCEPT ![s] = r] /\ due' = [due EXCEPT ![x] = d]
      /\ UNCHANGED <<created, event, stage, rowId, nextRow, aged, cache, up, last, got>>
  BY DEF FindRows
<1>2. old \in Replays /\ m \in Streams /\ x \in Connections /\ x \notin up /\ old.anchor \in Nat /\ x[1] = s
  BY <1>1, ReplayParts
<1>3. /\ rows \subseteq [id : Nat, event : Nat] /\ \A q \in rows : IsOf(q.event, s, m)
      /\ d \subseteq {q.event : q \in rows}
  BY <1>2, RowsRead
<1> HIDE DEF rows, d
<1>4. r \in Replays /\ r.pc = "send" /\ r.stream = m /\ r.queue = rows
  BY <1>2, <1>3 DEF Replays
<1>5. replay'[s] = r /\ due'[x] = d
  BY <1>1, <1>2 DEF EvInv, ClientTypes
<1> HIDE DEF r
<1>6. ReplayOK(s)'
  BY <1>1, <1>2, <1>3, <1>4, <1>5 DEF ReplayOK, IsOf
<1>7. DueOK(s)'
  BY <1>1, <1>3, <1>4, <1>5 DEF DueOK
<1>8. d \in SUBSET Events
  BY DEF d
<1> HIDE DEF x, m, old
<1> QED
  BY <1>1, <1>2, <1>4, <1>6, <1>7, <1>8, ReplayMoves

\* The connection breaks again.
LEMMA BreakReplayKeeps ==
    ASSUME EvInv, NEW s \in ESessions, BreakReplay(s) PROVE EvInv'
<1> DEFINE x == <<s, replay[s].stream>>
<1>1. /\ replay[s].pc # "idle" /\ replay' = [replay EXCEPT ![s] = NoReplay] /\ due' = [due EXCEPT ![x] = {}]
      /\ UNCHANGED <<created, event, stage, rowId, nextRow, aged, cache, up, last, got>>
  BY DEF BreakReplay
<1>2. x \in Connections /\ x \notin up /\ x[1] = s
  BY <1>1, ReplayParts
<1>3. replay'[s] = NoReplay /\ {} \in SUBSET Events
  BY <1>1 DEF EvInv, ClientTypes
<1>4. ReplayOK(s)' /\ DueOK(s)'
  BY <1>3, NoReplayOK DEF ReplayOK, DueOK
<1> HIDE DEF x
<1> QED
  BY <1>1, <1>2, <1>3, <1>4, NoReplayOK, ReplayMoves


\* The replay has nothing more to send: its stream is connected, and what was due is there.
LEMMA ReplayEndsKeeps ==
    ASSUME EvInv, NEW s \in ESessions, replay[s].pc = "send", replay[s].queue = {},
           replay' = [replay EXCEPT ![s] = NoReplay], up' = up \cup {<<s, replay[s].stream>>},
           UNCHANGED <<created, event, stage, rowId, nextRow, aged, cache, last, got, due>>
    PROVE  EvInv'
<1> DEFINE x == <<s, replay[s].stream>>
<1>1. x \in Connections /\ due[x] \subseteq got[x]
  BY ReplayParts DEF EvInv, ReplaysInv, DueOK
<1>2. \A t \in ESessions : replay'[t] = IF t = s THEN NoReplay ELSE replay[t]
  BY DEF EvInv, ClientTypes
<1>3. ClientTypes'
  BY <1>1, NoReplayOK DEF EvInv, ClientTypes
<1>4. GotInv'
  BY DEF EvInv, GotInv, IsOf
<1>5. ASSUME NEW t \in ESessions PROVE ReplayOK(t)' /\ DueOK(t)'
  <2>1. CASE t = s
    BY <1>2, <2>1, NoReplayOK DEF ReplayOK, DueOK
  <2>2. CASE t # s
    <3>1. replay'[t] = replay[t] /\ <<t, replay[t].stream>> # x
      BY <1>2, <2>2
    <3>2. ReplayOK(t)'
      BY <3>1 DEF EvInv, ReplaysInv, ReplayOK, IsOf
    <3>3. DueOK(t)'
      BY <3>1 DEF EvInv, ReplaysInv, DueOK
    <3> QED
      BY <3>2, <3>3
  <2> QED
    BY <2>1, <2>2
<1>6. ReplayComplete'
  BY <1>1 DEF EvInv, ReplaysInv, ReplayComplete
<1> QED
  BY <1>3, <1>4, <1>5, <1>6, ClientsOnly DEF ReplaysInv

\* A sent leaves the queue and reaches the client.
LEMMA RowSentKeeps ==
    ASSUME EvInv, NEW s \in ESessions, NEW sent \in replay[s].queue, replay[s].pc = "send",
           replay' = [replay EXCEPT ![s].queue = @ \ {sent}],
           last' = [last EXCEPT ![<<s, replay[s].stream>>] = sent.event],
           got' = [got EXCEPT ![<<s, replay[s].stream>>] = @ \cup {sent.event}],
           UNCHANGED <<created, event, stage, rowId, nextRow, aged, cache, up, due>>
    PROVE  EvInv'
<1> DEFINE m == replay[s].stream
           x == <<s, m>>
           e == sent.event
<1>1. /\ x \in Connections /\ replay[s] \in Replays /\ m \in Streams /\ x \notin up /\ IsOf(e, s, m)
      /\ replay[s].queue \subseteq [id : Nat, event : Nat]
      /\ \A q \in replay[s].queue : IsOf(q.event, s, m)
  BY ReplayParts
<1>2. e \in 1 .. created /\ e \in Events /\ e \in 0 .. created
  BY <1>1, MadeEvents DEF IsOf, EvInv, EvTypes
<1> HIDE DEF e
<1>3. /\ \A t \in ESessions : t # s => replay'[t] = replay[t]
      /\ replay'[s] = [replay[s] EXCEPT !.queue = replay[s].queue \ {sent}]
  BY DEF EvInv, ClientTypes
<1>4. /\ replay'[s] \in Replays /\ replay'[s].pc = "send" /\ replay'[s].stream = m
      /\ replay'[s].queue = replay[s].queue \ {sent}
  BY <1>1, <1>3 DEF Replays
<1>5. \A y \in Connections : got'[y] = IF y = x THEN got[y] \cup {e} ELSE got[y]
  BY <1>1 DEF EvInv, ClientTypes, e
<1>6. ClientTypes'
  <2>1. got' \in [Connections -> SUBSET Events]
    BY <1>1, <1>2 DEF EvInv, ClientTypes, e
  <2>2. last' \in [Connections -> 0 .. created]
    BY <1>1, <1>2 DEF EvInv, ClientTypes, e
  <2>3. replay' \in [ESessions -> Replays]
    BY <1>3, <1>4 DEF EvInv, ClientTypes
  <2> QED
    BY <2>1, <2>2, <2>3 DEF EvInv, ClientTypes
<1>7. GotInv'
  <2> SUFFICES ASSUME NEW t \in ESessions, NEW l \in Streams, NEW n \in got'[<<t, l>>]
               PROVE  IsOf(n, t, l)
    BY DEF GotInv, IsOf
  <2>1. <<t, l>> \in Connections
    BY DEF Connections
  <2>2. n \in got[<<t, l>>] \/ (n = e /\ <<t, l>> = x)
    <3> HIDE DEF x
    <3>1. got'[<<t, l>>] = IF <<t, l>> = x THEN got[<<t, l>>] \cup {e} ELSE got[<<t, l>>]
      BY <1>5, <2>1
    <3> QED
      BY <3>1
  <2>3. CASE n \in got[<<t, l>>]
    BY <2>3 DEF EvInv, GotInv
  <2>4. CASE n = e /\ <<t, l>> = x
    BY <1>1, <2>4
  <2> QED
    BY <2>2, <2>3, <2>4
<1>8. ASSUME NEW t \in ESessions PROVE ReplayOK(t)'
  <2>1. CASE t = s
    BY <1>1, <1>4, <2>1 DEF ReplayOK, IsOf
  <2>2. CASE t # s
    BY <1>3, <2>2 DEF EvInv, ReplaysInv, ReplayOK, IsOf
  <2> QED
    BY <2>1, <2>2
<1>9. ASSUME NEW t \in ESessions PROVE DueOK(t)'
  <2>1. CASE t = s
    <3>1. due[x] \subseteq got[x] \cup {q.event : q \in replay[s].queue}
      BY DEF EvInv, ReplaysInv, DueOK
    <3>2. {q.event : q \in replay[s].queue} \subseteq {q.event : q \in replay[s].queue \ {sent}} \cup {e}
      BY DEF e
    <3>3. due[x] \subseteq got'[x] \cup {q.event : q \in replay'[s].queue}
      BY <1>1, <1>4, <1>5, <3>1, <3>2
    <3> QED
      BY <1>4, <2>1, <3>3 DEF DueOK
  <2>2. CASE t # s
    <3>1. replay[t].pc = "send" => <<t, replay[t].stream>> \in Connections
      BY DEF EvInv, ReplaysInv, ReplayOK, Connections
    <3>2. replay[t].pc = "send" => got'[<<t, replay[t].stream>>] = got[<<t, replay[t].stream>>]
      BY <1>5, <2>2, <3>1
    <3> QED
      BY <1>3, <2>2, <3>2 DEF EvInv, ReplaysInv, DueOK
  <2> QED
    BY <2>1, <2>2
<1>10. ReplayComplete'
  <2>1. \A y \in Connections : got[y] \subseteq got'[y]
    BY <1>5
  <2> QED
    BY <2>1 DEF EvInv, ReplaysInv, ReplayComplete, ClientTypes
<1> QED
  BY <1>6, <1>7, <1>8, <1>9, <1>10, ClientsOnly DEF ReplaysInv

\* The replay sends the next row, or ends.
LEMMA SendNextKeeps ==
    ASSUME EvInv, NEW s \in ESessions, SendNext(s) PROVE EvInv'
<1>1. CASE replay[s].queue = {} /\ replay' = [replay EXCEPT ![s] = NoReplay]
           /\ up' = up \cup {<<s, replay[s].stream>>} /\ UNCHANGED <<last, got>>
  BY <1>1, ReplayEndsKeeps DEF SendNext
<1>2. CASE \E sent \in replay[s].queue :
             /\ replay' = [replay EXCEPT ![s].queue = @ \ {sent}]
             /\ last' = [last EXCEPT ![<<s, replay[s].stream>>] = sent.event]
             /\ got' = [got EXCEPT ![<<s, replay[s].stream>>] = @ \cup {sent.event}]
             /\ up' = up
  BY <1>2, RowSentKeeps DEF SendNext
<1> QED
  BY <1>1, <1>2 DEF SendNext

\* Entries are dropped from a cache.
LEMMA CacheOnlyKeeps ==
    ASSUME EvInv, NEW s \in ESessions, NEW c \in SUBSET cache[s], cache' = [cache EXCEPT ![s] = c],
           UNCHANGED <<created, event, stage, rowId, nextRow, aged, up, last, got, replay, due>>
    PROVE  EvInv'
<1>1. EvTypes' /\ RowsInv' /\ \A t \in ESessions : cache'[t] = IF t = s THEN c ELSE cache[t]
  BY DEF EvInv, EvTypes, RowsInv
<1>2. CacheFits(event, created, c, s)
  <2>1. CacheFits(event, created, cache[s], s) /\ created \in Nat
    BY MadeEvents DEF EvInv, EvTypes, CachesFit
  <2>2. IsFiniteSet(cache[s]) /\ Cardinality(c) <= Cardinality(cache[s]) /\ Cardinality(c) \in Nat
        /\ Cardinality(cache[s]) \in Nat /\ Cardinality(cache[s]) <= MaxCacheSize /\ MaxCacheSize \in Nat
    BY <2>1, FS_Subset, FS_CardinalityType, EventAssumption DEF CacheFits
  <2>3. Cardinality(c) <= MaxCacheSize
    BY <2>2
  <2>4. /\ cache[s] \subseteq CacheEntries /\ IsFiniteSet(cache[s])
        /\ \A x \in cache[s] : x.event \in 1 .. created /\ event[x.event].sess = s
        /\ \A m \in Streams : Cardinality(StreamEntries(event, cache[s], m)) <= CacheSize
    BY <2>1 DEF CacheFits
  <2> QED
    BY <2>1, <2>3, <2>4, FewerFit
<1>3. CachesFit'
  BY <1>1, <1>2 DEF EvInv, CachesFit
<1> QED
  BY <1>1, <1>3, EventsOnly

\* The two clean-ups of a cache.
LEMMA CacheCleanupKeeps ==
    ASSUME EvInv, NEW s \in ESessions, CleanupExpiredCache(s) \/ \E m \in Streams : CleanupCache(s, m)
    PROVE  EvInv'
<1>1. PICK c \in SUBSET cache[s] : cache' = [cache EXCEPT ![s] = c]
  BY DEF CleanupExpiredCache, CleanupCache
<1> QED
  BY <1>1, CacheOnlyKeeps DEF CleanupExpiredCache, CleanupCache

\* An event expires.
LEMMA AgeKeeps == ASSUME EvInv, Age PROVE EvInv'
<1>1. aged' = aged + 1 /\ aged \in Nat /\ created \in Nat /\ aged < created /\ Events \subseteq Nat
  BY MadeEvents DEF EvInv, EvTypes, Age
<1>2. EvTypes' /\ CachesFit'
  BY <1>1 DEF EvInv, EvTypes, CachesFit, Age
<1>3. RowsInv'
  BY <1>1 DEF EvInv, RowsInv, Age
<1> QED
  BY <1>2, <1>3, EventsOnly DEF Age

\* The rows of expired events are deleted.
LEMMA CleanupEventsKeeps == ASSUME EvInv, CleanupExpiredEvents PROVE EvInv'
<1>1. rowId' = [n \in Events |-> IF n <= aged THEN 0 ELSE rowId[n]] /\ nextRow' = nextRow
  BY DEF CleanupExpiredEvents
<1>2. aged \in Nat /\ Events \subseteq Nat /\ nextRow \in Nat \ {0}
  BY MadeEvents DEF EvInv, EvTypes
<1>3. EvTypes' /\ CachesFit'
  BY <1>1 DEF EvInv, EvTypes, CachesFit, CleanupExpiredEvents
<1>4. RowsInv'
  <2> SUFFICES ASSUME NEW n \in Events
               PROVE  /\ stage[n] = "none" <=> n > created
                      /\ rowId'[n] < nextRow /\ (rowId'[n] # 0 => n <= created)
                      /\ stage[n] \in {"persisted", "returned"} /\ n > aged => rowId'[n] # 0
    BY <1>1 DEF RowsInv, CleanupExpiredEvents
  <2>1. rowId'[n] = IF n <= aged THEN 0 ELSE rowId[n]
    BY <1>1
  <2>2. n \in Nat
    BY <1>2
  <2> QED
    BY <1>2, <2>1, <2>2 DEF EvInv, RowsInv
<1> QED
  BY <1>3, <1>4, EventsOnly DEF CleanupExpiredEvents

\* Every step of the store, of its clean-up and of the clients keeps it.
LEMMA EvStepKeeps ==
    ASSUME EvInv, EvNextOn(ESessions, Streams, ESessions) \/ UNCHANGED evVars PROVE EvInv'
<1>1. CASE UNCHANGED evVars
  <2>1. EvTypes' /\ RowsInv' /\ CachesFit'
    BY <1>1 DEF EvInv, EvTypes, RowsInv, CachesFit, evVars
  <2> QED
    BY <1>1, <2>1, EventsOnly DEF evVars
<1>2. ASSUME NEW s \in ESessions, NEW m \in Streams, Drop(<<s, m>>) PROVE EvInv'
  BY <1>2, DropKeeps DEF Connections
<1> QED
  BY <1>1, <1>2, StoreEventKeeps, PersistKeeps, ReturnKeeps, ResumeKeeps, FindAnchorKeeps, FindRowsKeeps,
     SendNextKeeps, BreakReplayKeeps, CacheCleanupKeeps, AgeKeeps, CleanupEventsKeeps DEF EvNextOn

\* What the invariant says of resumption.
LEMMA EvInvGives == ASSUME EvInv PROVE ResumptionFaithful
<1>1. created \in Nat /\ Events \subseteq Nat /\ nextRow \in Nat \ {0}
  BY MadeEvents DEF EvInv, EvTypes
<1>2. EvTypeOK
  <2>1. created \in 0 .. MaxEvents /\ aged \in 0 .. created /\ up \subseteq ESessions \X Streams
    BY DEF EvInv, EvTypes, ClientTypes, Connections
  <2>2. \A n \in Events : stage[n] \in {"none", "persisting", "persisted", "returned", "failed"}
    BY DEF EvInv, EvTypes, EvStages
  <2>3. \A n \in Events : rowId[n] \in 0 .. (nextRow - 1)
    BY <1>1 DEF EvInv, EvTypes, RowsInv
  <2>4. ASSUME NEW s \in ESessions
        PROVE  /\ replay[s].pc \in {"idle", "anchor", "rows", "send"}
               /\ Cardinality(cache[s]) <= MaxCacheSize
               /\ \A x \in cache[s] : event[x.event].sess = s
               /\ \A m \in Streams : Cardinality(OfStream(cache[s], m)) <= CacheSize
    <3>1. replay[s].pc \in {"idle", "anchor", "rows", "send"}
      BY DEF EvInv, ClientTypes, Replays
    <3>2. CacheFits(event, created, cache[s], s)
      BY DEF EvInv, CachesFit
    <3>3. \A m \in Streams : OfStream(cache[s], m) = StreamEntries(event, cache[s], m)
      BY DEF OfStream, StreamEntries
    <3> QED
      BY <3>1, <3>2, <3>3 DEF CacheFits
  <2> QED
    BY <2>1, <2>2, <2>3, <2>4 DEF EvTypeOK
<1>3. ResumableUntilExpired
  BY DEF EvInv, RowsInv, ResumableUntilExpired
<1>4. NoForeignEvents
  BY DEF EvInv, GotInv, IsOf, NoForeignEvents
<1>5. ReplayComplete
  BY DEF EvInv, ReplaysInv
<1> QED
  BY <1>2, <1>3, <1>4, <1>5 DEF ResumptionFaithful

(* A client that resumes its stream misses nothing that is still stored and  *)
(* sees nothing of other sessions and streams, and the caches keep both of   *)
(* their limits (PersistentEventStore.ts).                                   *)
THEOREM ResumptionStaysFaithful == EvSpec => []ResumptionFaithful
<1>1. EvInit => EvInv
  BY EvInitial
<1>2. EvInv /\ [EvNextOn(ESessions, Streams, ESessions)]_evVars => EvInv'
  BY EvStepKeeps
<1>3. EvInv => ResumptionFaithful
  BY EvInvGives
<1> QED
  BY <1>1, <1>2, <1>3, PTL DEF EvSpec
=============================================================================
