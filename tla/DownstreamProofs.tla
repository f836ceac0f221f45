-------------------------- MODULE DownstreamProofs --------------------------
(***************************************************************************)
(* What ServerLifecycle and ResultCache guarantee for any number of        *)
(* operations, contexts, clients, requests, identities and versions.       *)
(***************************************************************************)
EXTENDS MC_Downstream, FiniteSetTheorems, TLAPS

-----------------------------------------------------------------------------
(* ServerLifecycle.  The parts of the inductive invariant.                 *)

(* An operation at these points captured a context, and a client.          *)
KnownProc(r) ==
    /\ r.pc \in Starting \cup {"closing", "picked", "log", "probe"} => r.ctx \in CtxIds
    /\ r.pc \in {"dial", "redial", "ping", "caps", "closing"} => r.client \in ClientIds

(* A client that is not closed knows its context.                          *)
ClientsKnown == \A k \in ClientIds :
    clients[k].st # "closed" => clients[k].ctx \in CtxIds

(* Contexts that are well typed and have a connection if they are Online.  *)
SoundCtxs(cs) ==
    /\ cs \in [CtxIds -> Ctx]
    /\ ~Modern => \A x \in CtxIds : cs[x].status = "Online" => cs[x].conn # None

(* The points at which an operation has yet to change the status of the    *)
(* context it declared Connecting.                                         *)
Starters == IF Modern THEN Starting ELSE Starting \ {"caps"}

UnderWay == \A x \in CtxIds : ctxs[x].status = "Connecting" =>
    \E p \in Procs : procs[p].pc \in Starters /\ procs[p].ctx = x

CoreInv ==
    /\ SoundCtxs(ctxs)
    /\ queue \in Procs \cup {NoProc}
    /\ procs \in [Procs -> Proc]
    /\ \A p \in Procs : KnownProc(procs[p])
    /\ UnderWay
    /\ QueueIsUnderWay

ClientInv == clients \in [ClientIds -> Client] /\ ClientsKnown

ServerInv == CoreInv /\ ClientInv /\ cur \in CtxIds \cup {None} /\ kind \in Kinds

(* Contexts an operation that is not connecting may leave behind: it       *)
(* declares nothing Connecting.                                            *)
Permitted(cs) ==
    /\ SoundCtxs(cs)
    /\ \A x \in CtxIds : cs[x].status = "Connecting" => ctxs[x].status = "Connecting"

-----------------------------------------------------------------------------
(* An idle operation, and one that starts, has a well-typed state.         *)
LEMMA ProcShapes ==
    /\ IdleProc \in Proc /\ KnownProc(IdleProc) /\ IdleProc.pc = "idle"
    /\ \A x \in CtxIds : \A pc \in {"picked", "log", "probe"} :
          LET r == [IdleProc EXCEPT !.pc = pc, !.ctx = x]
          IN r \in Proc /\ KnownProc(r) /\ r.pc = pc
    /\ LET r == [IdleProc EXCEPT !.pc = "restore"]
       IN r \in Proc /\ KnownProc(r) /\ r.pc = "restore"
BY DEF IdleProc, Proc, KnownProc, Starting, None

(* The statuses that stand for rest and for failure are neither Online nor *)
(* Connecting.                                                             *)
LEMMA QuietStatus ==
    /\ Resting \in {"Sleeping", "Offline"}
    /\ Broken \in {"Sleeping", "Error"}
    /\ \A op : Target(op) \in {"Sleeping", "Offline"}
BY DEF Resting, Broken, Target

(* Changing the status of a context, with or without dropping its          *)
(* connection, keeps its type.                                             *)
LEMMA CtxShapes ==
    ASSUME NEW c \in Ctx, NEW s \in Status
    PROVE  /\ [c EXCEPT !.status = s] \in Ctx
           /\ [c EXCEPT !.status = s, !.conn = None] \in Ctx
           /\ [c EXCEPT !.timeouts = 0] \in Ctx
           /\ [c EXCEPT !.idle = FALSE] \in Ctx
           /\ [c EXCEPT !.idle = TRUE] \in Ctx
           /\ NewCtx(s) \in Ctx
<1>1. 0 \in 0..MaxTimeouts
  BY ServerAssumption
<1>2. [c EXCEPT !.status = s] \in Ctx /\ [c EXCEPT !.status = s, !.conn = None] \in Ctx
  BY DEF Ctx
<1>3. [c EXCEPT !.timeouts = 0] \in Ctx
  BY <1>1 DEF Ctx
<1>4. [c EXCEPT !.idle = FALSE] \in Ctx /\ [c EXCEPT !.idle = TRUE] \in Ctx
  BY Zenon DEF Ctx
<1>5. NewCtx(s) \in Ctx
  BY <1>1 DEF Ctx, NewCtx
<1> QED BY <1>2, <1>3, <1>4, <1>5

(* A closed client is well typed.                                          *)
LEMMA GoneType == Gone \in Client /\ Gone.st = "closed"
BY DEF Gone, Client

(* So is one that dials.                                                   *)
LEMMA DialingType ==
    ASSUME NEW x \in CtxIds, NEW sse \in BOOLEAN
    PROVE  Dialing(x, sse) \in Client /\ Dialing(x, sse).ctx = x
BY DEF Dialing, Client

(* An operation that is not connecting moves on, or ends.                  *)
LEMMA MoveCore ==
    ASSUME CoreInv, UNCHANGED <<kind, queue>>,
           NEW p \in Procs, procs[p].pc \notin Starting,
           NEW r \in Proc, KnownProc(r), r.pc \notin Starting,
           r.pc = "join" => queue # NoProc,
           procs' = [procs EXCEPT ![p] = r],
           Permitted(ctxs')
    PROVE  CoreInv'
<1>1. SoundCtxs(ctxs)'
  BY DEF Permitted, SoundCtxs, Modern
<1>2. /\ queue' \in Procs \cup {NoProc} /\ procs' \in [Procs -> Proc]
      /\ \A q \in Procs : KnownProc(procs'[q])
  BY DEF CoreInv
<1>3. UnderWay'
  <2> SUFFICES ASSUME NEW x \in CtxIds, ctxs'[x].status = "Connecting"
               PROVE  \E q \in Procs : procs'[q].pc \in Starters /\ procs'[q].ctx = x
    BY DEF UnderWay, Starters, Modern
  <2>1. PICK q \in Procs : procs[q].pc \in Starters /\ procs[q].ctx = x
    BY DEF CoreInv, UnderWay, Permitted
  <2>2. q # p
    BY <2>1 DEF Starters
  <2> QED BY <2>1, <2>2 DEF CoreInv
<1>4. QueueIsUnderWay'
  BY ProcAssumption DEF CoreInv, QueueIsUnderWay
<1> QED BY <1>1, <1>2, <1>3, <1>4 DEF CoreInv, KnownProc

(* An operation that is not connecting starts to connect.                  *)
LEMMA StartCore ==
    ASSUME CoreInv, UNCHANGED kind,
           NEW p \in Procs, procs[p].pc \notin Starting,
           NEW x \in CtxIds, NEW cs, Permitted(cs),
           ctxs' = [cs EXCEPT ![x].status = "Connecting"],
           At(p, "prep", x),
           queue' = queue \/ (queue = NoProc /\ queue' = p)
    PROVE  CoreInv'
<1>1. SoundCtxs(ctxs)'
  <2>1. ctxs' \in [CtxIds -> Ctx]
    BY CtxShapes DEF Permitted, SoundCtxs, Status
  <2>2. \A y \in CtxIds : ctxs'[y].status = "Online" =>
           cs[y].status = "Online" /\ ctxs'[y].conn = cs[y].conn
    BY DEF Permitted, SoundCtxs, Ctx
  <2> QED BY <2>1, <2>2 DEF Permitted, SoundCtxs, Modern
<1>2. /\ queue' \in Procs \cup {NoProc} /\ procs' \in [Procs -> Proc]
      /\ \A q \in Procs : KnownProc(procs'[q])
  BY DEF CoreInv, At, Proc, KnownProc, Starting
<1>3. procs'[p].pc \in Starters /\ procs'[p].ctx = x
  BY DEF CoreInv, At, Proc, Starters, Starting
<1>4. UnderWay'
  <2> SUFFICES ASSUME NEW y \in CtxIds, ctxs'[y].status = "Connecting"
               PROVE  \E q \in Procs : procs'[q].pc \in Starters /\ procs'[q].ctx = y
    BY DEF UnderWay, Starters, Modern
  <2>1. CASE y = x
    BY <2>1, <1>3
  <2>2. CASE y # x
    <3>1. cs[y].status = "Connecting"
      BY <2>2 DEF Permitted, SoundCtxs
    <3>2. PICK q \in Procs : procs[q].pc \in Starters /\ procs[q].ctx = y
      BY <3>1 DEF CoreInv, UnderWay, Permitted
    <3>3. q # p
      BY <3>2 DEF Starters
    <3> QED BY <3>2, <3>3 DEF CoreInv, At
  <2> QED BY <2>1, <2>2
<1>5. QueueIsUnderWay'
  BY ProcAssumption DEF CoreInv, QueueIsUnderWay, At, Proc, Starting
<1> QED BY <1>1, <1>2, <1>4, <1>5 DEF CoreInv, KnownProc

(* An operation that connects ends, and leaves its context in another      *)
(* state than Connecting unless somebody else is connecting it.            *)
LEMMA FinishCore ==
    ASSUME CoreInv, UNCHANGED kind,
           NEW p \in Procs, procs[p].pc \in Starting,
           Permitted(ctxs'), Finish(p),
           \/ ctxs'[procs[p].ctx].status # "Connecting"
           \/ procs[p].pc \notin Starters
    PROVE  CoreInv'
<1>1. SoundCtxs(ctxs)'
  BY DEF Permitted, SoundCtxs, Modern
<1>2. /\ queue' \in Procs \cup {NoProc} /\ procs' \in [Procs -> Proc]
      /\ \A q \in Procs : KnownProc(procs'[q])
  BY ProcShapes DEF CoreInv, Finish
<1>3. UnderWay'
  <2> SUFFICES ASSUME NEW x \in CtxIds, ctxs'[x].status = "Connecting"
               PROVE  \E q \in Procs : procs'[q].pc \in Starters /\ procs'[q].ctx = x
    BY DEF UnderWay, Starters, Modern
  <2>1. PICK q \in Procs : procs[q].pc \in Starters /\ procs[q].ctx = x
    BY DEF CoreInv, UnderWay, Permitted
  <2>2. q # p /\ procs[q].pc # "join"
    BY <2>1 DEF Starters, Starting
  <2> QED BY <2>1, <2>2 DEF Finish
<1>4. QueueIsUnderWay'
  BY ProcAssumption, ProcShapes DEF CoreInv, QueueIsUnderWay, Finish, Starting
<1> QED BY <1>1, <1>2, <1>3, <1>4 DEF CoreInv, KnownProc

(* createServerConnection gives up. *)
LEMMA FailCore ==
    ASSUME CoreInv, UNCHANGED kind, NEW p \in Procs, procs[p].pc \in Starting,
           StartFails(p)
    PROVE  CoreInv'
<1>1. procs[p].ctx \in CtxIds
  BY DEF CoreInv, KnownProc
<1>2. Permitted(ctxs') /\ ctxs'[procs[p].ctx].status # "Connecting"
  BY <1>1, QuietStatus DEF CoreInv, StartFails, Permitted, SoundCtxs, Ctx, Status
<1> QED BY <1>2, FinishCore DEF StartFails

(* createServerConnection is entered. *)
LEMMA ConnectCore ==
    ASSUME CoreInv, UNCHANGED <<kind, queue>>,
           NEW p \in Procs, procs[p].pc \notin Starting,
           NEW x \in CtxIds, NEW cs, Permitted(cs), Connect(p, x, cs)
    PROVE  CoreInv'
<1>1. CASE cs[x].status \in {"Online", "Connecting"}
  <2>1. ctxs' = cs /\ procs' = [procs EXCEPT ![p] = IdleProc]
    BY <1>1 DEF Connect, Stop
  <2> QED BY <2>1, MoveCore, ProcShapes DEF Starting
<1>2. CASE ~(cs[x].status \in {"Online", "Connecting"})
  BY <1>2, StartCore DEF Connect
<1> QED BY <1>1, <1>2

(* Moving an operation to a point outside createServerConnection. *)
LEMMA AtCore ==
    ASSUME CoreInv, UNCHANGED <<kind, queue>>,
           NEW p \in Procs, procs[p].pc \notin Starting,
           NEW x \in CtxIds, NEW pc \in {"join", "ready"},
           pc = "join" => queue # NoProc,
           At(p, pc, x), Permitted(ctxs')
    PROVE  CoreInv'
<1> DEFINE r == [procs[p] EXCEPT !.pc = pc, !.ctx = x]
<1>1. r \in Proc /\ r.pc = pc /\ KnownProc(r) /\ r.pc \notin Starting
  BY DEF CoreInv, Proc, KnownProc, Starting
<1>2. procs' = [procs EXCEPT ![p] = r]
  BY DEF At, CoreInv
<1> HIDE DEF r
<1> QED BY <1>1, <1>2, MoveCore

(* The rest of ensureServerAvailable. *)
LEMMA DispatchCore ==
    ASSUME CoreInv, UNCHANGED kind,
           NEW p \in Procs, procs[p].pc \notin Starting,
           NEW x \in CtxIds, NEW cs, Permitted(cs), Dispatch(p, x, cs)
    PROVE  CoreInv'
<1>1. CASE /\ ctxs' = [cs EXCEPT ![x].idle = FALSE]
           /\ Stop(p) /\ UNCHANGED queue
  <2>1. ctxs' \in [CtxIds -> Ctx]
    BY <1>1, CtxShapes DEF Permitted, SoundCtxs, Status
  <2>2. \A y \in CtxIds : ctxs'[y].status = cs[y].status /\ ctxs'[y].conn = cs[y].conn
    BY <1>1 DEF Permitted, SoundCtxs, Ctx
  <2>3. Permitted(ctxs')
    BY <2>1, <2>2 DEF Permitted, SoundCtxs
  <2> QED BY <1>1, <2>3, MoveCore, ProcShapes DEF Stop, Starting
<1>2. CASE queue # NoProc /\ ctxs' = cs /\ At(p, "join", x) /\ UNCHANGED queue
  BY <1>2, AtCore
<1>3. CASE /\ queue = NoProc
           /\ ctxs' = [cs EXCEPT ![x].status = "Connecting"]
           /\ At(p, "prep", x) /\ queue' = p
  BY <1>3, StartCore
<1>4. CASE ctxs' = cs /\ At(p, "ready", x) /\ UNCHANGED queue
  BY <1>4, AtCore
<1>5. CASE ctxs' = cs /\ Stop(p) /\ UNCHANGED queue
  BY <1>5, MoveCore, ProcShapes DEF Stop, Starting
<1> QED BY <1>1, <1>2, <1>3, <1>4, <1>5 DEF Dispatch

(* What is there is always permitted. *)
LEMMA SamePermitted == ASSUME CoreInv PROVE Permitted(ctxs)
BY DEF CoreInv, Permitted

(* Contexts of which one was replaced by a fresh one, or given a status of *)
(* rest.                                                                   *)
LEMMA ReplacedPermitted ==
    ASSUME NEW cs, Permitted(cs), NEW x \in CtxIds, NEW c \in Ctx,
           \/ c.status \in {"Sleeping", "Offline", "Error"}
           \/ c.status = cs[x].status /\ c.conn = cs[x].conn
    PROVE  Permitted([cs EXCEPT ![x] = c])
BY DEF Permitted, SoundCtxs

(* initializeManagedServerContext declares nothing Online or Connecting. *)
LEMMA InitializePermitted ==
    ASSUME CoreInv, NEW x \in CtxIds, NEW w \in BOOLEAN
    PROVE  Permitted(Initialize(x, w))
<1> DEFINE c == IF cur = None THEN NewCtx(IF w THEN Resting ELSE "Offline")
                ELSE IF w /\ ctxs[x].conn = None THEN [ctxs[x] EXCEPT !.status = Resting]
                ELSE ctxs[x]
<1>1. ctxs[x] \in Ctx /\ Resting \in Status /\ "Offline" \in Status
  BY QuietStatus DEF CoreInv, SoundCtxs, Status
<1>2. c \in Ctx
  BY <1>1, CtxShapes
<1>3. \/ c.status \in {"Sleeping", "Offline", "Error"}
      \/ c.status = ctxs[x].status /\ c.conn = ctxs[x].conn
  BY <1>1, QuietStatus DEF NewCtx, Ctx
<1>4. Initialize(x, w) = [ctxs EXCEPT ![x] = c]
  BY DEF CoreInv, SoundCtxs, Initialize
<1> HIDE DEF c
<1>5. Permitted(ctxs)
  BY SamePermitted
<1>6. Permitted([ctxs EXCEPT ![x] = c])
  BY <1>2, <1>3, <1>5, ReplacedPermitted
<1> QED BY <1>4, <1>6

(* What follows a disconnection. *)
LEMMA AfterCore ==
    ASSUME CoreInv, UNCHANGED <<kind, queue>>, cur \in CtxIds \cup {None},
           NEW p \in Procs, procs[p].pc \notin Starting,
           NEW op, NEW cs, Permitted(cs), After(p, op, cs)
    PROVE  CoreInv' /\ cur' \in CtxIds \cup {None}
<1>1. CASE ctxs' = cs /\ Stop(p) /\ cur' \in {cur, None}
  BY <1>1, MoveCore, ProcShapes DEF Stop, Starting
<1>2. CASE \E x \in CtxIds :
             /\ cur' = x
             /\ Connect(p, x, [cs EXCEPT ![x] = IF cur = None THEN NewCtx("Offline")
                                                ELSE [@ EXCEPT !.timeouts = 0]])
  <2>1. PICK x \in CtxIds :
             /\ cur' = x
             /\ Connect(p, x, [cs EXCEPT ![x] = IF cur = None THEN NewCtx("Offline")
                                                ELSE [@ EXCEPT !.timeouts = 0]])
    BY <1>2
  <2> DEFINE c == IF cur = None THEN NewCtx("Offline") ELSE [cs[x] EXCEPT !.timeouts = 0]
  <2>2. cs[x] \in Ctx /\ "Offline" \in Status
    BY DEF Permitted, SoundCtxs, Status
  <2>3. c \in Ctx
    BY <2>2, CtxShapes
  <2>4. \/ c.status \in {"Sleeping", "Offline", "Error"}
        \/ c.status = cs[x].status /\ c.conn = cs[x].conn
    BY <2>2 DEF NewCtx, Ctx
  <2>5. Connect(p, x, [cs EXCEPT ![x] = c])
    BY <2>1 DEF Permitted, SoundCtxs
  <2> HIDE DEF c
  <2>6. Permitted([cs EXCEPT ![x] = c])
    BY <2>3, <2>4, ReplacedPermitted
  <2> QED BY <2>1, <2>5, <2>6, ConnectCore
<1> QED BY <1>1, <1>2 DEF After

(* disconnectServerContext. *)
LEMMA DisconnectInv ==
    ASSUME ServerInv, UNCHANGED <<kind, queue>>,
           NEW p \in Procs, procs[p].pc \notin Starting,
           NEW op \in {"sleep", "timeout", "reconnect", "remove"},
           NEW x \in CtxIds, Disconnect(p, op, x)
    PROVE  ServerInv'
<1> DEFINE k == ctxs[x].conn
           c == [ctxs[x] EXCEPT !.status = Target(op)]
           cs == [ctxs EXCEPT ![x] = c]
<1>1. ctxs[x] \in Ctx /\ Target(op) \in Status /\ CoreInv /\ cur \in CtxIds \cup {None}
  BY QuietStatus DEF ServerInv, CoreInv, SoundCtxs, Status
<1>2. c \in Ctx /\ c.status \in {"Sleeping", "Offline", "Error"} /\ k \in ClientIds \cup {None}
  BY <1>1, CtxShapes, QuietStatus DEF Ctx
<1>3. Permitted(cs)
  BY <1>1, <1>2, SamePermitted, ReplacedPermitted
<1>4. cs = [ctxs EXCEPT ![x].status = Target(op)]
  BY <1>1 DEF CoreInv, SoundCtxs
<1>5. CASE k = None /\ After(p, op, cs) /\ UNCHANGED clients
  <2>1. CoreInv' /\ cur' \in CtxIds \cup {None}
    BY <1>1, <1>3, <1>5, AfterCore
  <2> QED BY <1>5, <2>1 DEF ServerInv, ClientInv, ClientsKnown
<1>6. CASE /\ k # None /\ ctxs' = cs
           /\ clients' = [clients EXCEPT ![k].planned = TRUE]
           /\ procs' = [procs EXCEPT ![p] =
                [pc |-> "closing", op |-> op, ctx |-> x, client |-> k]]
           /\ UNCHANGED cur
  <2> DEFINE r == [pc |-> "closing", op |-> op, ctx |-> x, client |-> k]
  <2>1. r \in Proc /\ KnownProc(r) /\ r.pc = "closing"
    BY <1>2, <1>6 DEF Proc, KnownProc
  <2>2. CoreInv'
    BY <1>1, <1>3, <1>6, <2>1, MoveCore DEF Starting
  <2>3. ClientInv'
    <3>1. \A j \in Client : [j EXCEPT !.planned = TRUE] \in Client
      BY Zenon DEF Client
    <3>2. clients' \in [ClientIds -> Client]
      BY <1>6, <3>1 DEF ServerInv, ClientInv
    <3>3. \A j \in ClientIds : clients'[j].st = clients[j].st /\ clients'[j].ctx = clients[j].ctx
      BY <1>6 DEF ServerInv, ClientInv, Client
    <3> QED BY <3>2, <3>3 DEF ServerInv, ClientInv, ClientsKnown
  <2> QED BY <1>6, <2>2, <2>3 DEF ServerInv
<1> QED BY <1>4, <1>5, <1>6 DEF Disconnect

-----------------------------------------------------------------------------
(* Every step of the server's operations keeps the invariant: those that   *)
(* work outside createServerConnection.                                    *)
LEMMA OutsideInv ==
    ASSUME ServerInv, NEW p \in Procs, UNCHANGED kind,
           \/ Ensure(p) \/ CheckIdle(p) \/ RecordTimeout(p) \/ AddServer(p)
           \/ CreateSleeping(p) \/ ReconnectServer(p) \/ RemoveServer(p)
           \/ Restore(p) \/ Ready(p) \/ Closed(p) \/ SleepServer(p) \/ Probe(p)
           \/ RemoveLogged(p)
    PROVE  ServerInv'
<1> USE DEF ServerInv
<1>0. /\ procs[p] \in Proc /\ KnownProc(procs[p]) /\ Permitted(ctxs)
      /\ cur # None => cur \in CtxIds
  BY SamePermitted DEF CoreInv
<1>a. ASSUME UNCHANGED clients PROVE ClientInv'
  BY <1>a DEF ClientInv, ClientsKnown
<1>1. CASE Ensure(p)
  <2>1. procs[p].pc \notin Starting
    BY <1>1 DEF Ensure, Starting
  <2>2. CoreInv'
    <3>1. CASE cur # None
      BY <1>0, <1>1, <2>1, <3>1, DispatchCore DEF Ensure
    <3>2. CASE cur = None
      BY <1>0, <1>1, <2>1, <3>2, MoveCore, ProcShapes DEF Ensure, Starting
    <3> QED BY <3>1, <3>2
  <2> QED BY <1>1, <1>a, <2>2 DEF Ensure
<1>2. CASE CheckIdle(p)
  <2>1. CoreInv'
    BY <1>0, <1>2, MoveCore, ProcShapes DEF CheckIdle, Starting
  <2> QED BY <1>2, <1>a, <2>1 DEF CheckIdle
<1>3. CASE RecordTimeout(p)
  <2>1. PICK k \in ClientIds :
          LET x == clients[k].ctx
              n == ctxs[x].timeouts + 1
          IN /\ clients[k].st = "open"
             /\ ctxs' = [ctxs EXCEPT ![x].timeouts = IF n <= MaxTimeouts THEN n ELSE @]
             /\ IF n < MaxTimeouts
                THEN UNCHANGED procs
                ELSE procs' = [procs EXCEPT ![p] = [IdleProc EXCEPT !.pc = "probe",
                                                                    !.ctx = x]]
    BY <1>3 DEF RecordTimeout
  <2> DEFINE x == clients[k].ctx
             n == ctxs[x].timeouts + 1
             t == IF n <= MaxTimeouts THEN n ELSE ctxs[x].timeouts
             c == [ctxs[x] EXCEPT !.timeouts = t]
  <2>2. x \in CtxIds
    BY <2>1 DEF ClientInv, ClientsKnown
  <2>3. ctxs[x] \in Ctx /\ ctxs[x].timeouts \in 0..MaxTimeouts
    BY <2>2 DEF CoreInv, SoundCtxs, Ctx
  <2>4. t \in 0..MaxTimeouts
    BY <2>3, ServerAssumption
  <2>5. ctxs' = [ctxs EXCEPT ![x] = c]
    BY <2>1, <2>2 DEF CoreInv, SoundCtxs
  <2>x. x \in CtxIds /\ (procs' = procs \/ procs' = [procs EXCEPT ![p] = [IdleProc EXCEPT !.pc = "probe",
                                                                    !.ctx = x]])
    BY <2>1, <2>2
  <2> HIDE DEF t, x
  <2>6. c \in Ctx /\ c.status = ctxs[x].status /\ c.conn = ctxs[x].conn
    BY <2>3, <2>4 DEF Ctx
  <2>7. Permitted(ctxs')
    BY <1>0, <2>2, <2>5, <2>6, ReplacedPermitted
  <2>8. procs[p].pc = "idle" /\ UNCHANGED <<cur, queue, clients>>
    BY <1>3 DEF RecordTimeout
  <2>9. CASE procs' = procs
    <3>1. procs' = [procs EXCEPT ![p] = procs[p]]
      BY <2>9 DEF CoreInv
    <3>2. CoreInv'
      BY <1>0, <2>7, <2>8, <3>1, MoveCore DEF Starting
    <3> QED BY <3>2, <2>8, <1>a
  <2>10. CASE procs' = [procs EXCEPT ![p] = [IdleProc EXCEPT !.pc = "probe", !.ctx = x]]
    <3>1. CoreInv'
      BY <1>0, <2>x, <2>7, <2>8, <2>10, MoveCore, ProcShapes DEF Starting
    <3> QED BY <3>1, <2>8, <1>a
  <2> QED BY <2>x, <2>9, <2>10
<1>4. CASE AddServer(p)
  <2>1. PICK x \in CtxIds : cur' = x /\ Connect(p, x, Initialize(x, FALSE))
    BY <1>4 DEF AddServer
  <2>2. CoreInv'
    BY <1>4, <2>1, InitializePermitted, ConnectCore DEF AddServer, Starting
  <2> QED BY <1>4, <1>a, <2>1, <2>2 DEF AddServer
<1>5. CASE CreateSleeping(p)
  <2>1. PICK x \in CtxIds :
          /\ cur' = x
          /\ LET cs == Initialize(x, FALSE) IN
                ctxs' = IF cs[x].status = "Online" THEN cs
                        ELSE [cs EXCEPT ![x].status = "Sleeping"]
    BY <1>5 DEF CreateSleeping
  <2> DEFINE cs == Initialize(x, FALSE)
             c == [cs[x] EXCEPT !.status = "Sleeping"]
  <2>2. Permitted(cs)
    BY InitializePermitted
  <2> HIDE DEF cs
  <2>3. cs \in [CtxIds -> Ctx] /\ "Sleeping" \in Status
    BY <2>2 DEF Permitted, SoundCtxs, Status
  <2>4. c \in Ctx /\ c.status = "Sleeping"
    <3>1. cs[x] \in Ctx
      BY <2>3
    <3> QED BY <2>3, <3>1, CtxShapes DEF Ctx
  <2>5. Permitted([cs EXCEPT ![x] = c])
    BY <2>2, <2>4, ReplacedPermitted
  <2>6. ctxs' = cs \/ ctxs' = [cs EXCEPT ![x] = c]
    BY <2>1, <2>3 DEF cs
  <2>7. procs' = [procs EXCEPT ![p] = procs[p]] /\ procs[p].pc = "idle"
    BY <1>5 DEF CreateSleeping, CoreInv
  <2>8. CoreInv'
    BY <1>0, <1>5, <2>2, <2>5, <2>6, <2>7, MoveCore DEF CreateSleeping, Starting
  <2> QED BY <1>5, <1>a, <2>1, <2>8 DEF CreateSleeping
<1>6. CASE ReconnectServer(p)
  <2>1. CASE cur # None
    BY <1>0, <1>6, <2>1, DisconnectInv DEF ReconnectServer, Starting
  <2>2. CASE cur = None
    <3>1. CoreInv' /\ cur' \in CtxIds \cup {None}
      BY <1>0, <1>6, <2>2, AfterCore DEF ReconnectServer, Starting
    <3> QED BY <1>6, <1>a, <2>2, <3>1 DEF ReconnectServer
  <2> QED BY <2>1, <2>2
<1>7. CASE RemoveServer(p)
  <2>1. CoreInv'
    BY <1>0, <1>7, MoveCore, ProcShapes DEF RemoveServer, Starting
  <2> QED BY <1>7, <1>a, <2>1 DEF RemoveServer
<1>8. CASE Restore(p)
  <2>1. procs[p].pc \notin Starting
    BY <1>8 DEF Restore, Starting
  <2>2. CASE \E x \in CtxIds : cur' = x /\ Dispatch(p, x, Initialize(x, TRUE))
    <3>1. PICK x \in CtxIds : cur' = x /\ Dispatch(p, x, Initialize(x, TRUE))
      BY <2>2
    <3>2. CoreInv'
      BY <2>1, <3>1, InitializePermitted, DispatchCore
    <3> QED BY <1>8, <1>a, <3>1, <3>2 DEF Restore
  <2>3. CASE Stop(p) /\ UNCHANGED <<ctxs, cur, queue>>
    <3>1. CoreInv'
      BY <1>0, <2>1, <2>3, MoveCore, ProcShapes DEF Stop, Starting
    <3> QED BY <1>8, <1>a, <2>3, <3>1 DEF Restore
  <2> QED BY <1>8, <2>2, <2>3 DEF Restore
<1>9. CASE Ready(p)
  <2>1. CoreInv'
    BY <1>0, <1>9, MoveCore, ProcShapes DEF Ready, Stop, Starting
  <2> QED BY <1>9, <1>a, <2>1 DEF Ready
<1>10. CASE Closed(p)
  <2> DEFINE x == procs[p].ctx
             k == procs[p].client
             op == procs[p].op
             c == [ctxs[x] EXCEPT !.status = Target(op), !.conn = None]
  <2>1. procs[p].pc = "closing" /\ x \in CtxIds /\ k \in ClientIds /\ UNCHANGED queue
    BY <1>0, <1>10 DEF Closed, KnownProc
  <2>2. After(p, op, [ctxs EXCEPT ![x] = c])
    BY <1>10, <2>1 DEF Closed, CoreInv, SoundCtxs
  <2>3. ctxs[x] \in Ctx /\ Target(op) \in Status
    BY <2>1, QuietStatus DEF CoreInv, SoundCtxs, Status
  <2>4. c \in Ctx /\ c.status \in {"Sleeping", "Offline", "Error"}
    BY <2>3, CtxShapes, QuietStatus DEF Ctx
  <2>5. ClientInv'
    <3>1. clients' = [clients EXCEPT ![k] = Gone] \/ clients' = clients
      BY <1>10 DEF Closed
    <3>2. Gone \in Client /\ Gone.st = "closed"
      BY GoneType
    <3> QED BY <2>1, <3>1, <3>2 DEF ClientInv, ClientsKnown
  <2> HIDE DEF x, c, k, op
  <2>6. Permitted([ctxs EXCEPT ![x] = c])
    BY <1>0, <2>1, <2>4, ReplacedPermitted
  <2>7. CoreInv' /\ cur' \in CtxIds \cup {None}
    BY <2>1, <2>2, <2>6, AfterCore DEF Starting
  <2> QED BY <2>5, <2>7
<1>11. CASE SleepServer(p)
  BY <1>0, <1>11, DisconnectInv DEF SleepServer, Starting, KnownProc
<1>12. CASE Probe(p)
  <2>1. procs[p].pc = "probe" /\ UNCHANGED queue /\ procs[p].ctx \in CtxIds
    BY <1>0, <1>12 DEF Probe, KnownProc
  <2>2. CASE /\ ctxs' = [ctxs EXCEPT ![procs[p].ctx].timeouts = 0]
             /\ Stop(p) /\ UNCHANGED <<cur, clients>>
    <3> DEFINE c == [ctxs[procs[p].ctx] EXCEPT !.timeouts = 0]
    <3>1. ctxs' = [ctxs EXCEPT ![procs[p].ctx] = c] /\ ctxs[procs[p].ctx] \in Ctx
      BY <2>1, <2>2 DEF CoreInv, SoundCtxs
    <3>2. c \in Ctx /\ c.status = ctxs[procs[p].ctx].status /\ c.conn = ctxs[procs[p].ctx].conn
      <4>1. "Offline" \in Status
        BY DEF Status
      <4>2. c \in Ctx
        BY <3>1, <4>1, CtxShapes
      <4> QED BY <3>1, <4>2 DEF Ctx
    <3>3. Permitted(ctxs')
      BY <1>0, <2>1, <3>1, <3>2, ReplacedPermitted
    <3>4. CoreInv'
      BY <2>1, <2>2, <3>3, MoveCore, ProcShapes DEF Stop, Starting
    <3> QED BY <1>a, <2>2, <3>4
  <2>3. CASE Stop(p) /\ UNCHANGED <<ctxs, cur, clients>>
    <3>1. CoreInv'
      BY <1>0, <2>1, <2>3, MoveCore, ProcShapes DEF Stop, Starting
    <3> QED BY <1>a, <2>3, <3>1
  <2>4. CASE cur # None /\ Disconnect(p, "timeout", cur)
    BY <1>0, <2>1, <2>4, DisconnectInv DEF Starting
  <2>5. CASE After(p, "timeout", ctxs) /\ UNCHANGED clients
    <3>1. CoreInv' /\ cur' \in CtxIds \cup {None}
      BY <1>0, <2>1, <2>5, AfterCore DEF Starting
    <3> QED BY <1>a, <2>5, <3>1
  <2> QED BY <1>12, <2>2, <2>3, <2>4, <2>5 DEF Probe
<1>13. CASE RemoveLogged(p)
  BY <1>0, <1>13, DisconnectInv DEF RemoveLogged, Starting, KnownProc
<1> QED BY <1>1, <1>2, <1>3, <1>4, <1>5, <1>6, <1>7, <1>8, <1>9, <1>10, <1>11, <1>12, <1>13

(* An operation moves on within createServerConnection.                    *)
LEMMA AdvanceCore ==
    ASSUME CoreInv, UNCHANGED <<kind, queue>>,
           NEW p \in Procs, procs[p].pc \in Starting,
           NEW pc \in Starting, NEW k \in ClientIds,
           procs' = [procs EXCEPT ![p] = [procs[p] EXCEPT !.pc = pc, !.client = k]],
           Permitted(ctxs'),
           \/ pc \in Starters
           \/ ctxs'[procs[p].ctx].status # "Connecting"
    PROVE  CoreInv'
<1>1. SoundCtxs(ctxs)'
  BY DEF Permitted, SoundCtxs, Modern
<1>2. /\ procs'[p] \in Proc /\ KnownProc(procs'[p])
      /\ procs'[p].pc = pc /\ procs'[p].ctx = procs[p].ctx
  BY DEF CoreInv, KnownProc, Proc, Starting
<1>3. \A q \in Procs : q # p => procs'[q] = procs[q]
  BY DEF CoreInv
<1>4. /\ queue' \in Procs \cup {NoProc} /\ procs' \in [Procs -> Proc]
      /\ \A q \in Procs : KnownProc(procs'[q])
  <2>1. \A q \in Procs : procs'[q] \in Proc /\ KnownProc(procs'[q])
    BY <1>2, <1>3 DEF CoreInv
  <2> QED BY <2>1 DEF CoreInv
<1>5. UnderWay'
  <2> SUFFICES ASSUME NEW x \in CtxIds, ctxs'[x].status = "Connecting"
               PROVE  \E q \in Procs : procs'[q].pc \in Starters /\ procs'[q].ctx = x
    BY DEF UnderWay, Starters, Modern
  <2>1. PICK q \in Procs : procs[q].pc \in Starters /\ procs[q].ctx = x
    BY DEF CoreInv, UnderWay, Permitted
  <2>2. CASE q = p
    BY <2>1, <2>2, <1>2
  <2>3. CASE q # p
    BY <2>1, <2>3, <1>3
  <2> QED BY <2>2, <2>3
<1>6. QueueIsUnderWay'
  <2>1. ASSUME NEW q \in Procs, procs'[q].pc = "join" PROVE procs[q].pc = "join"
    BY <1>2, <1>3, <2>1 DEF Starting
  <2> QED BY <1>2, <1>3, <2>1, ProcAssumption DEF CoreInv, QueueIsUnderWay
<1> QED BY <1>1, <1>4, <1>5, <1>6 DEF CoreInv, KnownProc

(* The steps of createServerConnection. *)
LEMMA StartingInv ==
    ASSUME ServerInv, NEW p \in Procs, UNCHANGED kind,
           Prep(p) \/ Dial(p) \/ Redial(p) \/ Ping(p) \/ Caps(p)
    PROVE  ServerInv'
<1> USE DEF ServerInv
<1> DEFINE x == procs[p].ctx
<1>0. /\ procs[p] \in Proc /\ KnownProc(procs[p]) /\ Permitted(ctxs)
      /\ procs[p].pc \in Starting /\ x \in CtxIds /\ UNCHANGED cur
  BY SamePermitted DEF CoreInv, Prep, Dial, Redial, Ping, Caps, Starting, KnownProc
<1>a. ASSUME NEW k \in ClientIds, NEW c \in Client, c.st # "closed" => c.ctx \in CtxIds,
             clients' = [clients EXCEPT ![k] = c]
      PROVE  ClientInv'
  BY <1>a DEF ClientInv, ClientsKnown
<1>b. ASSUME UNCHANGED clients PROVE ClientInv'
  BY <1>b DEF ClientInv, ClientsKnown
<1>c. /\ Dialing(x, FALSE) \in Client /\ Dialing(x, TRUE) \in Client
      /\ Dialing(x, FALSE).ctx = x /\ Dialing(x, TRUE).ctx = x
      /\ Gone \in Client /\ Gone.st = "closed"
  BY <1>0, GoneType, DialingType
<1>d. ASSUME NEW k \in ClientIds, clients[k].st = "dialing",
             clients' = [clients EXCEPT ![k].st = "open"]
      PROVE  ClientInv'
  <2> DEFINE c == [clients[k] EXCEPT !.st = "open"]
  <2>1. c \in Client /\ c.ctx = clients[k].ctx
    BY DEF ClientInv, Client
  <2>2. clients' = [clients EXCEPT ![k] = c]
    BY <1>d DEF ClientInv
  <2> HIDE DEF c
  <2> QED BY <1>a, <1>d, <2>1, <2>2 DEF ClientInv, ClientsKnown
<1>e. ASSUME NEW pc \in Starting, NEW k \in ClientIds, UNCHANGED queue,
             procs' = [procs EXCEPT ![p] = [procs[p] EXCEPT !.pc = pc, !.client = k]],
             Permitted(ctxs'), pc \in Starters \/ ctxs'[x].status # "Connecting"
      PROVE  CoreInv'
  BY <1>0, <1>e, AdvanceCore
<1>1. CASE Prep(p)
  <2>1. CASE \E k \in FreeClients :
             /\ clients' = [clients EXCEPT ![k] = Dialing(procs[p].ctx, FALSE)]
             /\ procs' = [procs EXCEPT ![p].pc = "dial", ![p].client = k]
             /\ UNCHANGED <<ctxs, queue>>
    <3>1. PICK k \in ClientIds :
             /\ clients' = [clients EXCEPT ![k] = Dialing(procs[p].ctx, FALSE)]
             /\ procs' = [procs EXCEPT ![p].pc = "dial", ![p].client = k]
             /\ UNCHANGED <<ctxs, queue>>
      BY <2>1 DEF FreeClients
    <3>2. procs' = [procs EXCEPT ![p] = [procs[p] EXCEPT !.pc = "dial", !.client = k]]
      BY <3>1 DEF CoreInv
    <3>3. "dial" \in Starters /\ "dial" \in Starting
      BY DEF Starters, Starting
    <3>4. CoreInv'
      BY <1>0, <1>e, <3>1, <3>2, <3>3
    <3>5. ClientInv'
      BY <1>0, <1>a, <1>c, <3>1
    <3> QED BY <1>0, <3>4, <3>5
  <2>2. CASE StartFails(p) /\ UNCHANGED clients
    <3>1. CoreInv'
      BY <1>0, <2>2, FailCore
    <3> QED BY <1>0, <1>b, <2>2, <3>1
  <2> QED BY <1>1, <2>1, <2>2 DEF Prep
<1>2. CASE Dial(p)
  <2> DEFINE k == procs[p].client
  <2>0. k \in ClientIds
    BY <1>0, <1>2 DEF Dial, KnownProc
  <2>a. ASSUME NEW pc \in {"ping", "redial"}, procs' = [procs EXCEPT ![p].pc = pc],
               UNCHANGED <<ctxs, queue>>
        PROVE  CoreInv'
    <3>1. procs' = [procs EXCEPT ![p] = [procs[p] EXCEPT !.pc = pc, !.client = k]]
      BY <1>0, <2>a DEF CoreInv, Proc
    <3>2. pc \in Starters /\ pc \in Starting
      BY DEF Starters, Starting
    <3> QED BY <1>0, <1>e, <2>0, <2>a, <3>1, <3>2
  <2>1. CASE /\ clients[k].st = "dialing"
             /\ clients' = [clients EXCEPT ![k].st = "open"]
             /\ procs' = [procs EXCEPT ![p].pc = "ping"]
             /\ UNCHANGED <<ctxs, queue>>
    <3>1. CoreInv'
      BY <2>1, <2>a
    <3>2. ClientInv'
      BY <1>d, <2>0, <2>1
    <3> QED BY <1>0, <3>1, <3>2
  <2>2. CASE /\ clients' = [clients EXCEPT ![k] = Dialing(procs[p].ctx, TRUE)]
             /\ procs' = [procs EXCEPT ![p].pc = "redial"]
             /\ UNCHANGED <<ctxs, queue>>
    <3>1. CoreInv'
      BY <2>2, <2>a
    <3>2. ClientInv'
      BY <1>0, <1>a, <1>c, <2>0, <2>2
    <3> QED BY <1>0, <3>1, <3>2
  <2>3. CASE clients' = [clients EXCEPT ![k] = Gone] /\ StartFails(p)
    <3>1. CoreInv'
      BY <1>0, <2>3, FailCore
    <3>2. ClientInv'
      BY <1>a, <1>c, <2>0, <2>3
    <3> QED BY <1>0, <3>1, <3>2
  <2> QED BY <1>2, <2>1, <2>2, <2>3 DEF Dial
<1>3. CASE Redial(p)
  <2> DEFINE k == procs[p].client
  <2>0. k \in ClientIds
    BY <1>0, <1>3 DEF Redial, KnownProc
  <2>1. CoreInv'
    BY <1>0, <1>3, FailCore DEF Redial
  <2>2. CASE clients[k].st = "dialing" /\ clients' = [clients EXCEPT ![k].st = "open"]
    BY <1>0, <1>d, <2>0, <2>1, <2>2
  <2>3. CASE clients' = [clients EXCEPT ![k] = Gone]
    BY <1>0, <1>a, <1>c, <2>0, <2>1, <2>3
  <2> QED BY <1>3, <2>2, <2>3 DEF Redial
<1>4. CASE Ping(p)
  <2> DEFINE k == procs[p].client
             s == IF Modern THEN ctxs[x].status ELSE "Online"
             c == [ctxs[x] EXCEPT !.conn = k, !.status = s]
  <2>0. k \in ClientIds /\ UNCHANGED clients
    BY <1>0, <1>4 DEF Ping, KnownProc
  <2>1. CASE /\ ctxs' = Published(procs[p].ctx, k)
             /\ procs' = [procs EXCEPT ![p].pc = "caps"]
             /\ UNCHANGED queue
    <3>1. ctxs[x] \in Ctx /\ ctxs \in [CtxIds -> Ctx]
      BY <1>0 DEF CoreInv, SoundCtxs
    <3>2. ctxs' = [ctxs EXCEPT ![x] = c]
      BY <1>0, <2>1, <3>1 DEF Published, Ctx
    <3>3. s \in Status
      BY <3>1 DEF Status, Ctx
    <3>4. c \in Ctx /\ c.conn # None /\ c.status = s
      <4>1. k # None
        BY <2>0 DEF ClientIds, None
      <4> HIDE DEF s, k
      <4> QED BY <2>0, <3>1, <3>3, <4>1 DEF Ctx
    <3>5. Permitted(ctxs') /\ ("caps" \in Starters \/ ctxs'[x].status # "Connecting")
      <4>1. ctxs'[x] = c /\ \A y \in CtxIds : y # x => ctxs'[y] = ctxs[y]
        BY <1>0, <3>1, <3>2
      <4>2. ctxs' \in [CtxIds -> Ctx]
        BY <3>1, <3>2, <3>4
      <4>3. Modern \/ c.status = "Online"
        BY <3>4
      <4>4. Modern => c.status = ctxs[x].status
        BY <3>4
      <4> HIDE DEF c
      <4>5. SoundCtxs(ctxs')
        BY <1>0, <3>4, <4>1, <4>2 DEF SoundCtxs, Permitted
      <4> QED BY <1>0, <4>1, <4>3, <4>4, <4>5 DEF Permitted, Starters, Starting
    <3>6. procs' = [procs EXCEPT ![p] = [procs[p] EXCEPT !.pc = "caps", !.client = k]]
      BY <1>0, <2>1 DEF CoreInv, Proc
    <3>7. "caps" \in Starting
      BY DEF Starting
    <3>8. CoreInv'
      BY <1>e, <2>0, <2>1, <3>5, <3>6, <3>7
    <3> QED BY <1>0, <1>b, <2>0, <3>8
  <2>2. CASE StartFails(p)
    <3>1. CoreInv'
      BY <1>0, <2>2, FailCore
    <3> QED BY <1>0, <1>b, <2>0, <3>1
  <2> QED BY <1>4, <2>1, <2>2 DEF Ping
<1>5. CASE Caps(p)
  <2>0. procs[p].pc = "caps" /\ UNCHANGED clients
    BY <1>5 DEF Caps
  <2>1. CASE /\ ctxs' = [ctxs EXCEPT ![procs[p].ctx].timeouts = 0,
                                  ![procs[p].ctx].idle = IF queue = p THEN FALSE ELSE @,
                                  ![procs[p].ctx].status = IF Modern THEN "Online" ELSE @]
             /\ Finish(p)
    <3> DEFINE i == IF queue = p THEN FALSE ELSE ctxs[x].idle
               s == IF Modern THEN "Online" ELSE ctxs[x].status
               c == [ctxs[x] EXCEPT !.timeouts = 0, !.idle = i, !.status = s]
    <3>1. ctxs[x] \in Ctx /\ ctxs \in [CtxIds -> Ctx] /\ 0 \in 0..MaxTimeouts
      BY <1>0, ServerAssumption DEF CoreInv, SoundCtxs
    <3>2. ctxs' = [ctxs EXCEPT ![x] = c]
      BY <1>0, <2>1, <3>1 DEF Ctx
    <3>3. s \in Status /\ ctxs[x].conn \in ClientIds \cup {None}
      BY <3>1 DEF Status, Ctx
    <3>4. i \in BOOLEAN
      BY <3>1 DEF Ctx
    <3>5. c \in Ctx /\ c.conn = ctxs[x].conn /\ c.status = s
      <4> HIDE DEF s, i
      <4> QED BY <3>1, <3>3, <3>4 DEF Ctx
    <3>6. Permitted(ctxs') /\ ("caps" \notin Starters \/ ctxs'[x].status # "Connecting")
      <4>1. ctxs'[x] = c /\ \A y \in CtxIds : y # x => ctxs'[y] = ctxs[y]
        BY <1>0, <3>1, <3>2
      <4>2. ctxs' \in [CtxIds -> Ctx]
        BY <3>1, <3>2, <3>5
      <4>3. (Modern /\ c.status = "Online") \/ (~Modern /\ c.status = ctxs[x].status)
        BY <3>5
      <4> HIDE DEF c
      <4>4. SoundCtxs(ctxs')
        BY <1>0, <3>5, <4>1, <4>2, <4>3 DEF SoundCtxs, Permitted
      <4> QED BY <1>0, <4>1, <4>3, <4>4 DEF Permitted, Starters
    <3>7. CoreInv'
      BY <1>0, <2>0, <2>1, <3>6, FinishCore
    <3> QED BY <1>0, <1>b, <2>0, <3>7
  <2>2. CASE StartFails(p)
    <3>1. CoreInv'
      BY <1>0, <2>2, FailCore
    <3> QED BY <1>0, <1>b, <2>0, <3>1
  <2> QED BY <1>5, <2>1, <2>2 DEF Caps
<1> QED BY <1>1, <1>2, <1>3, <1>4, <1>5

(* What happens to the server of itself. *)
LEMMA EventsInv ==
    ASSUME ServerInv, UNCHANGED kind,
           (\E k \in ClientIds : TransportCloses(k)) \/ GetsIdle
    PROVE  ServerInv'
<1> USE DEF ServerInv
<1>0. Permitted(ctxs)
  BY SamePermitted
<1>a. ASSUME Permitted(ctxs'), UNCHANGED <<queue, procs>> PROVE CoreInv'
  BY <1>a DEF CoreInv, Permitted, SoundCtxs, UnderWay, QueueIsUnderWay, KnownProc,
              Starters, Modern
<1>1. ASSUME NEW k \in ClientIds, TransportCloses(k) PROVE ServerInv'
  <2> DEFINE x == clients[k].ctx
             c == [ctxs[x] EXCEPT !.status = Broken, !.conn = None]
  <2>1. x \in CtxIds /\ UNCHANGED <<cur, queue, procs>>
    BY <1>1 DEF TransportCloses, ClientInv, ClientsKnown
  <2>2. ClientInv'
    BY <1>1, GoneType DEF TransportCloses, ClientInv, ClientsKnown
  <2>3. ctxs[x] \in Ctx /\ ctxs \in [CtxIds -> Ctx] /\ Broken \in Status
    BY <2>1, QuietStatus DEF CoreInv, SoundCtxs, Status
  <2>4. c \in Ctx /\ c.status \in {"Sleeping", "Offline", "Error"}
    BY <2>3, CtxShapes, QuietStatus DEF Ctx
  <2>5. ctxs' = ctxs \/ ctxs' = [ctxs EXCEPT ![x] = c]
    BY <1>1, <2>1, <2>3 DEF TransportCloses
  <2> HIDE DEF x, c
  <2>6. Permitted(ctxs')
    BY <1>0, <2>1, <2>4, <2>5, ReplacedPermitted
  <2> QED BY <1>a, <2>1, <2>2, <2>6
<1>2. CASE GetsIdle
  <2> DEFINE c == [ctxs[cur] EXCEPT !.idle = TRUE]
  <2>1. cur \in CtxIds /\ UNCHANGED <<cur, queue, clients, procs>>
    BY <1>2 DEF GetsIdle
  <2>2. ctxs[cur] \in Ctx /\ ctxs \in [CtxIds -> Ctx] /\ "Online" \in Status
    BY <2>1 DEF CoreInv, SoundCtxs, Status
  <2>3. c \in Ctx
    BY <2>2, CtxShapes
  <2>4. c.status = ctxs[cur].status /\ c.conn = ctxs[cur].conn
    BY <2>2 DEF Ctx
  <2>5. ctxs' = [ctxs EXCEPT ![cur] = c]
    BY <1>2, <2>1, <2>2 DEF GetsIdle
  <2> HIDE DEF c
  <2>6. Permitted(ctxs')
    BY <1>0, <2>1, <2>3, <2>4, <2>5, ReplacedPermitted
  <2>7. ClientInv'
    BY <2>1 DEF ClientInv, ClientsKnown
  <2> QED BY <1>a, <2>1, <2>6, <2>7
<1> QED BY <1>1, <1>2

(* The invariant holds initially. *)
LEMMA ServerInvInit == ServerInit => ServerInv
<1> SUFFICES ASSUME ServerInit PROVE ServerInv
  OBVIOUS
<1>1. SoundCtxs(ctxs)
  <2>1. Resting \in Status /\ Resting \in {"Sleeping", "Offline"}
    BY QuietStatus DEF Status
  <2>2. NewCtx(Resting) \in Ctx /\ NewCtx(Resting).status = Resting
    <3>1. 0 \in 0..MaxTimeouts
      BY ServerAssumption
    <3> QED BY <2>1, <3>1 DEF NewCtx, Ctx
  <2> QED BY <2>1, <2>2 DEF ServerInit, SoundCtxs
<1>2. \A x \in CtxIds : ctxs[x].status # "Connecting"
  BY QuietStatus DEF ServerInit, NewCtx
<1>3. CoreInv
  BY <1>1, <1>2, ProcShapes DEF CoreInv, ServerInit, UnderWay, QueueIsUnderWay
<1>4. ClientInv
  BY GoneType DEF ServerInit, ClientInv, ClientsKnown
<1>5. cur \in CtxIds /\ kind \in Kinds
  BY ServerAssumption DEF ServerInit, CtxIds
<1> QED BY <1>3, <1>4, <1>5 DEF ServerInv

(* And every step keeps it. *)
LEMMA ServerInvNext == ServerInv /\ [ServerNext]_serverVars => ServerInv'
<1> SUFFICES ASSUME ServerInv, [ServerNext]_serverVars PROVE ServerInv'
  OBVIOUS
<1>1. CASE UNCHANGED serverVars
  BY <1>1 DEF serverVars, ServerInv, CoreInv, ClientInv, ClientsKnown, SoundCtxs, UnderWay,
              QueueIsUnderWay, KnownProc, Starters, Modern
<1>2. CASE ServerNext
  BY <1>2, OutsideInv, StartingInv, EventsInv DEF ServerNext, ServerStep
<1> QED BY <1>1, <1>2

(* So the invariant holds throughout. *)
LEMMA ServerInvHolds == ServerSpec => []ServerInv
BY ServerInvInit, ServerInvNext, PTL DEF ServerSpec

(* The state of the lifecycle is well typed: status, connection, time-out  *)
(* count, wait queue and captured contexts stay what ServerContext and the *)
(* managers' maps declare.                                                 *)
THEOREM ServerTypeCorrect == ServerSpec => []ServerTypeOK
<1>1. ServerInv => ServerTypeOK
  BY DEF ServerInv, CoreInv, ClientInv, SoundCtxs, ServerTypeOK
<1> QED BY <1>1, ServerInvHolds, PTL

(* A server that is Online has a connection, however many operations       *)
(* connect, close and restore it at once.                                  *)
THEOREM OnlineConnected == ServerSpec => []OnlineHasConnection
<1>1. ServerInv => OnlineHasConnection
  BY DEF ServerInv, CoreInv, SoundCtxs, OnlineHasConnection
<1> QED BY <1>1, ServerInvHolds, PTL

(* No context stays Connecting, no wait queue stays occupied and nobody    *)
(* stays joined to a start after the operation that connects has ended     *)
(* (createServerConnection and its catch block, serverWaitQueues).         *)
THEOREM StartsStayUnderWay == ServerSpec => []StartsAreUnderWay
<1>1. ServerInv => StartsAreUnderWay
  BY DEF ServerInv, CoreInv, UnderWay, Starters, StartsAreUnderWay, ConnectingIsUnderWay
<1> QED BY <1>1, ServerInvHolds, PTL

-----------------------------------------------------------------------------
(* Operations come closer to their end. *)

(* Operation p goes to a point in S; the others stay, unless they joined    *)
(* the start that ended.                                                    *)
Moved(p, S) ==
    /\ procs'[p].pc \in S
    /\ \A q \in Procs : q # p =>
          \/ procs'[q].pc = procs[q].pc
          \/ procs[q].pc = "join" /\ procs'[q].pc = "idle"

(* The elementary moves. *)
LEMMA Moves ==
    ASSUME procs \in [Procs -> Proc], NEW p \in Procs
    PROVE  /\ Stop(p) => Moved(p, {"idle"})
           /\ Finish(p) => Moved(p, {"idle"})
           /\ \A pc, x : At(p, pc, x) => Moved(p, {pc})
<1>1. ASSUME Stop(p) PROVE Moved(p, {"idle"})
  <2>1. procs'[p] = IdleProc /\ \A q \in Procs : q # p => procs'[q] = procs[q]
    BY <1>1 DEF Stop
  <2>2. IdleProc.pc = "idle"
    BY DEF IdleProc
  <2> QED BY <2>1, <2>2 DEF Moved
<1>2. ASSUME Finish(p) PROVE Moved(p, {"idle"})
  <2>1. /\ procs'[p] = IdleProc
        /\ \A q \in Procs : q # p =>
              procs'[q] = procs[q] \/ (procs[q].pc = "join" /\ procs'[q] = IdleProc)
    BY <1>2 DEF Finish
  <2>2. IdleProc.pc = "idle"
    BY DEF IdleProc
  <2> QED BY <2>1, <2>2 DEF Moved
<1>3. ASSUME NEW pc, NEW x, At(p, pc, x) PROVE Moved(p, {pc})
  <2>1. procs'[p] = [procs[p] EXCEPT !.pc = pc, !.ctx = x] /\ \A q \in Procs : q # p => procs'[q] = procs[q]
    BY <1>3 DEF At
  <2>2. procs'[p].pc = pc
    BY <2>1 DEF Proc
  <2> QED BY <2>1, <2>2 DEF Moved
<1> QED BY <1>1, <1>2, <1>3

(* What follows a disconnection ends the operation or starts to connect.    *)
LEMMA AfterMoves ==
    ASSUME procs \in [Procs -> Proc], NEW p \in Procs, NEW op, NEW cs, After(p, op, cs)
    PROVE  Moved(p, {"idle", "prep"})
<1>1. Stop(p) \/ \E x : At(p, "prep", x)
  BY DEF After, Connect
<1> QED BY <1>1, Moves DEF Moved

(* A disconnection does the same, or closes the client first.               *)
LEMMA DisconnectMoves ==
    ASSUME procs \in [Procs -> Proc], NEW p \in Procs, NEW op, NEW x, Disconnect(p, op, x)
    PROVE  Moved(p, {"idle", "prep", "closing"})
<1>1. ASSUME NEW cs, After(p, op, cs) PROVE Moved(p, {"idle", "prep"})
  BY <1>1, AfterMoves
<1>2. ASSUME NEW k, procs' = [procs EXCEPT ![p] = [pc |-> "closing", op |-> op, ctx |-> x, client |-> k]]
      PROVE  Moved(p, {"closing"})
  <2>1. procs'[p].pc = "closing" /\ \A q \in Procs : q # p => procs'[q] = procs[q]
    BY <1>2
  <2> QED BY <2>1 DEF Moved
<1>3. \/ \E cs : After(p, op, cs)
      \/ \E k : procs' = [procs EXCEPT ![p] = [pc |-> "closing", op |-> op, ctx |-> x, client |-> k]]
  BY DEF Disconnect
<1> QED BY <1>1, <1>2, <1>3 DEF Moved

(* Where the steps of an operation lead. *)
LEMMA StepMoves ==
    ASSUME procs \in [Procs -> Proc], NEW p \in Procs, ServerStep(p)
    PROVE  \E S : Moved(p, S) /\ \A pc \in S : Rank(pc) < Rank(procs[p].pc)
<1> DEFINE Nearer(S) == \A pc \in S : Rank(pc) < Rank(procs[p].pc)
<1>1. CASE Restore(p)
  <2>1. procs[p].pc = "restore" /\ (Stop(p) \/ \E pc \in {"join", "prep", "ready"} : \E x : At(p, pc, x))
    BY <1>1 DEF Restore, Dispatch
  <2>2. Moved(p, {"idle", "join", "prep", "ready"})
    BY <2>1, Moves DEF Moved
  <2>3. Nearer({"idle", "join", "prep", "ready"})
    BY <2>1 DEF Rank
  <2> QED BY <2>2, <2>3
<1>2. ASSUME Finish(p) \/ Stop(p), procs[p].pc \in {"ready", "prep", "dial", "redial", "ping", "caps", "probe"}
      PROVE  Moved(p, {"idle"}) /\ Nearer({"idle"})
  BY <1>2, Moves DEF Rank
<1>3. ASSUME NEW to,
             \/ procs[p].pc = "prep" /\ to = "dial"
             \/ procs[p].pc = "dial" /\ to \in {"redial", "ping"}
             \/ procs[p].pc = "ping" /\ to = "caps",
             procs'[p].pc = to, \A q \in Procs : q # p => procs'[q] = procs[q]
      PROVE  Moved(p, {to}) /\ Nearer({to})
  <2>1. Moved(p, {to})
    BY <1>3 DEF Moved
  <2>2. Nearer({to})
    BY <1>3 DEF Rank
  <2> QED BY <2>1, <2>2
<1>4. CASE Ready(p)
  BY <1>2, <1>4 DEF Ready
<1>5. CASE Prep(p)
  <2>1. procs[p].pc = "prep" /\ (Finish(p) \/ \E k : procs' = [procs EXCEPT ![p].pc = "dial", ![p].client = k])
    BY <1>5 DEF Prep, StartFails
  <2>2. ASSUME NEW k, procs' = [procs EXCEPT ![p].pc = "dial", ![p].client = k]
        PROVE  procs'[p].pc = "dial" /\ \A q \in Procs : q # p => procs'[q] = procs[q]
    BY <2>2 DEF Proc
  <2>3. Finish(p) \/ (Moved(p, {"dial"}) /\ Nearer({"dial"}))
    BY <1>3, <2>1, <2>2
  <2> QED BY <1>2, <2>1, <2>3
<1>6. CASE Dial(p)
  <2>1. procs[p].pc = "dial" /\ (Finish(p) \/ \E to \in {"redial", "ping"} : procs' = [procs EXCEPT ![p].pc = to])
    BY <1>6 DEF Dial, StartFails
  <2>2. ASSUME NEW to \in {"redial", "ping"}, procs' = [procs EXCEPT ![p].pc = to]
        PROVE  procs'[p].pc = to /\ \A q \in Procs : q # p => procs'[q] = procs[q]
    BY <2>2 DEF Proc
  <2>3. Finish(p) \/ \E to \in {"redial", "ping"} : Moved(p, {to}) /\ Nearer({to})
    BY <1>3, <2>1, <2>2
  <2> QED BY <1>2, <2>1, <2>3
<1>7. CASE Redial(p)
  BY <1>2, <1>7 DEF Redial, StartFails
<1>8. CASE Ping(p)
  <2>1. procs[p].pc = "ping" /\ (Finish(p) \/ procs' = [procs EXCEPT ![p].pc = "caps"])
    BY <1>8 DEF Ping, StartFails
  <2>2. ASSUME procs' = [procs EXCEPT ![p].pc = "caps"]
        PROVE  procs'[p].pc = "caps" /\ \A q \in Procs : q # p => procs'[q] = procs[q]
    BY <2>2 DEF Proc
  <2>3. Finish(p) \/ (Moved(p, {"caps"}) /\ Nearer({"caps"}))
    BY <1>3, <2>1, <2>2
  <2> QED BY <1>2, <2>1, <2>3
<1>9. CASE Caps(p)
  BY <1>2, <1>9 DEF Caps, StartFails
<1>10. CASE Closed(p)
  <2>1. Moved(p, {"idle", "prep"})
    BY <1>10, AfterMoves DEF Closed
  <2>2. Nearer({"idle", "prep"})
    BY <1>10 DEF Closed, Rank
  <2> QED BY <2>1, <2>2
<1>11. ASSUME procs[p].pc \in {"picked", "log", "probe"}, \E op, x : Disconnect(p, op, x)
       PROVE  Moved(p, {"idle", "prep", "closing"}) /\ Nearer({"idle", "prep", "closing"})
  <2>1. Moved(p, {"idle", "prep", "closing"})
    BY <1>11, DisconnectMoves
  <2>2. Nearer({"idle", "prep", "closing"})
    BY <1>11 DEF Rank
  <2> QED BY <2>1, <2>2
<1>12. CASE SleepServer(p) \/ RemoveLogged(p)
  BY <1>11, <1>12 DEF SleepServer, RemoveLogged
<1>13. CASE Probe(p)
  <2>1. ASSUME After(p, "timeout", ctxs) PROVE Moved(p, {"idle", "prep"}) /\ Nearer({"idle", "prep"})
    BY <1>13, <2>1, AfterMoves DEF Probe, Rank
  <2> QED BY <1>2, <1>11, <1>13, <2>1 DEF Probe
<1> QED
  BY <1>1, <1>4, <1>5, <1>6, <1>7, <1>8, <1>9, <1>10, <1>12, <1>13 DEF ServerStep

(* No operation runs in circles, however many run together: each of its     *)
(* steps brings it closer to its end, and what others do, the settling of a *)
(* start it joined included, never takes it back.  With the invariants on   *)
(* starts under way this is why every operation ends; that a step is always *)
(* possible is left to the run.                                             *)
THEOREM OperationsComeCloser == ServerSpec => OperationsProgress
<1> DEFINE Onwards == \A p \in Running :
               /\ ServerStep(p) => Rank(procs'[p].pc) < Rank(procs[p].pc)
               /\ Rank(procs'[p].pc) <= Rank(procs[p].pc)
<1>1. ServerTypeOK /\ [ServerNext]_serverVars => [Onwards]_serverVars
  <2> SUFFICES ASSUME procs \in [Procs -> Proc], ServerNext, NEW p \in Procs, procs[p].pc # "idle"
               PROVE  /\ ServerStep(p) => Rank(procs'[p].pc) < Rank(procs[p].pc)
                      /\ Rank(procs'[p].pc) <= Rank(procs[p].pc)
    BY DEF Running, ServerTypeOK
  <2>0. \A pc : Rank(pc) \in 0..7
    BY DEF Rank
  <2>1. ServerStep(p) => Rank(procs'[p].pc) < Rank(procs[p].pc)
    BY StepMoves DEF Moved
  <2>2. ASSUME NEW q \in Procs, q # p, NEW S, Moved(q, S) PROVE Rank(procs'[p].pc) <= Rank(procs[p].pc)
    <3>1. procs'[p].pc = procs[p].pc \/ (procs[p].pc = "join" /\ procs'[p].pc = "idle")
      BY <2>2 DEF Moved
    <3>2. Rank("idle") <= Rank("join")
      BY DEF Rank
    <3> QED BY <2>0, <3>1, <3>2
  <2>3. ASSUME NEW q \in Procs, ServerStep(q), q # p PROVE Rank(procs'[p].pc) <= Rank(procs[p].pc)
    BY <2>2, <2>3, StepMoves
  <2>4. ASSUME procs'[p] = procs[p] PROVE Rank(procs'[p].pc) <= Rank(procs[p].pc)
    BY <2>0, <2>4
  <2>5. ASSUME NEW q \in Procs, \/ Ensure(q) \/ CheckIdle(q) \/ RecordTimeout(q) \/ AddServer(q)
                               \/ CreateSleeping(q) \/ ReconnectServer(q) \/ RemoveServer(q)
        PROVE  procs'[p] = procs[p]
    <3>1. CASE q = p
      BY <2>5, <3>1 DEF Ensure, CheckIdle, RecordTimeout, AddServer, CreateSleeping, ReconnectServer, RemoveServer
    <3>2. CASE q # p
      BY <2>5, <3>2 DEF Ensure, Dispatch, CheckIdle, RecordTimeout, AddServer, CreateSleeping,
         ReconnectServer, RemoveServer, Connect, Disconnect, After, At, Stop
    <3> QED BY <3>1, <3>2
  <2>6. ASSUME GetsIdle \/ \E k \in ClientIds : TransportCloses(k) PROVE procs'[p] = procs[p]
    BY <2>6 DEF GetsIdle, TransportCloses
  <2>7. ServerStep(p) => Rank(procs'[p].pc) <= Rank(procs[p].pc)
    BY <2>0, <2>1
  <2> QED BY <2>1, <2>3, <2>4, <2>5, <2>6, <2>7 DEF ServerNext
<1> HIDE DEF Onwards
<1>2. ServerSpec => [][Onwards]_serverVars
  BY <1>1, ServerTypeCorrect, PTL DEF ServerSpec
<1> USE DEF Onwards
<1> QED BY <1>2 DEF OperationsProgress

-----------------------------------------------------------------------------
(* ResultCache.  The parts of the inductive invariant.                     *)

(* A result that belongs to the user, or to somebody of the same identity. *)
Rightful(u, v) ==
    v.of = u \/ (IdentityOf[v.of] = IdentityOf[u] /\ IdentityOf[u] # NoIdentity)

(* A result whose fetch did not begin before these versions were current.  *)
NotOlder(v, ver) == ~v.blind => \A n \in Namespaces : v.born[n] >= ver[n]

(* The versions a request has read are not older than the request.         *)
ReadSince(r) == \A n \in Namespaces :
    /\ r.since[n] <= vers[n]
    /\ r.ver[n] # Unread => r.since[n] <= r.ver[n] /\ r.ver[n] <= vers[n]

(* A request that uses a key has an identity. *)
Identified(r) == r.pc \notin {"solo", "done"} => IdentityOf[r.who] # NoIdentity

(* A request that fetches or stores has its own result, and knows all the  *)
(* versions, none younger than the result, unless the result is blind.     *)
OwnResult(r) ==
    /\ r.pc \in {"fetch", "admit", "set"} =>
          /\ r.val.of = r.who
          /\ ~r.val.blind => ~r.blind /\ \A n \in Namespaces : r.ver[n] # Unread
          /\ NotOlder(r.val, r.ver)
    /\ r.pc = "solo" => r.val.of = r.who /\ r.val.born = r.since

(* What a request was answered with is its own and fresh. *)
Answered(r) ==
    /\ r.out \in {"hit", "shared", "fetched"} =>
          Rightful(r.who, r.val) /\ NotOlder(r.val, r.since)
    /\ r.pc \in {"get", "solo", "fetch", "observe", "clear", "exact"} => r.out = "none"

ReqOK(r) ==
    /\ ReadSince(r) /\ Identified(r) /\ OwnResult(r) /\ Answered(r)
    /\ r.pc = "admit" => r.inc >= 1

ReqsInv == PartialOn(reqs, Requests, Req) /\ \A p \in Busy : ReqOK(reqs[p])

(* An entry is the result of the identity in its key, not older than the   *)
(* versions in it.                                                         *)
EntriesInv ==
    /\ PartialOn(entries, Keys, Value)
    /\ \A k \in DOMAIN entries :
          IdentityOf[entries[k].of] = k[1] /\ NotOlder(entries[k], k[2])

InFlight(p) == reqs[p].pc \in {"fetch", "observe"}
FK(r) == <<IdentityOf[r.who], r.ver>>

(* Leaders and observers are the requests that fetch and observe under the *)
(* key of the flight.                                                      *)
FlightsInv ==
    /\ PartialOn(flights, (Identities \cup {NoIdentity}) \X Reading,
                 [leader : Requests, observers : SUBSET Requests])
    /\ \A p \in Busy : InFlight(p) => FK(reqs[p]) \in DOMAIN flights
    /\ \A p \in Busy : reqs[p].pc = "fetch" => flights[FK(reqs[p])].leader = p
    /\ \A p \in Busy : reqs[p].pc = "observe" => p \in flights[FK(reqs[p])].observers
    /\ \A k \in DOMAIN flights :
          /\ flights[k].leader \in Busy
          /\ reqs[flights[k].leader].pc = "fetch"
          /\ FK(reqs[flights[k].leader]) = k
          /\ \A q \in flights[k].observers :
                q \in Busy /\ reqs[q].pc = "observe" /\ FK(reqs[q]) = k

VersInv ==
    /\ vers \in Versions /\ purges \in 0..MaxPurges
    /\ \A n \in Namespaces : vers[n] <= purges

CacheInv ==
    /\ VersInv /\ ReqsInv /\ EntriesInv /\ FlightsInv
    /\ PartialOn(admissions, Keys, 1..2)

-----------------------------------------------------------------------------
(* Maps with a key less, or a key more. *)
LEMMA MapShapes ==
    ASSUME NEW f, NEW D, NEW R, PartialOn(f, D, R), NEW k, NEW y
    PROVE  /\ DOMAIN Without(f, k) = DOMAIN f \ {k}
           /\ \A x \in DOMAIN f \ {k} : Without(f, k)[x] = f[x]
           /\ PartialOn(Without(f, k), D, R)
           /\ DOMAIN With(f, k, y) = DOMAIN f \cup {k}
           /\ With(f, k, y)[k] = y
           /\ \A x \in DOMAIN f : x # k => With(f, k, y)[x] = f[x]
           /\ k \in D /\ y \in R => PartialOn(With(f, k, y), D, R)
BY DEF PartialOn, With, Without

(* One request changes, or begins. *)
LEMMA ReqChanges ==
    ASSUME ReqsInv, UNCHANGED vers, NEW p \in Requests, NEW r \in Req, ReqOK(r),
           \/ p \in Busy /\ reqs' = [reqs EXCEPT ![p] = r]
           \/ reqs' = With(reqs, p, r)
    PROVE  /\ ReqsInv' /\ Busy' = Busy \cup {p} /\ reqs'[p] = r
           /\ \A q \in Busy : q # p => reqs'[q] = reqs[q]
<1>1. /\ Busy' = Busy \cup {p} /\ reqs'[p] = r
      /\ \A q \in Busy : q # p => reqs'[q] = reqs[q]
  <2>1. CASE p \in Busy /\ reqs' = [reqs EXCEPT ![p] = r]
    BY <2>1 DEF Busy
  <2>2. CASE reqs' = With(reqs, p, r)
    BY <2>2 DEF Busy, With
  <2> QED BY <2>1, <2>2
<1>2. ReqsInv'
  BY <1>1 DEF ReqsInv, PartialOn, Busy, ReqOK, ReadSince, Identified, OwnResult, Answered,
              NotOlder, Rightful
<1> QED BY <1>1, <1>2

(* One request ends. *)
LEMMA ReqEnds ==
    ASSUME ReqsInv, UNCHANGED vers, NEW p \in Busy, StopRequest(p)
    PROVE  /\ ReqsInv' /\ Busy' = Busy \ {p}
           /\ \A q \in Busy \ {p} : reqs'[q] = reqs[q]
<1>1. /\ Busy' = Busy \ {p}
      /\ \A q \in Busy \ {p} : reqs'[q] = reqs[q]
  BY DEF Busy, StopRequest, Without
<1>2. ReqsInv'
  BY <1>1 DEF ReqsInv, PartialOn, Busy, ReqOK, ReadSince, Identified, OwnResult, Answered,
              NotOlder, Rightful
<1> QED BY <1>1, <1>2

(* Steps of requests that are in no flight, before and after. *)
LEMMA FlightsQuiet ==
    ASSUME FlightsInv, UNCHANGED flights, NEW p,
           p \in Busy => ~InFlight(p),
           Busy' \subseteq Busy \cup {p}, Busy \subseteq Busy' \cup {p},
           \A q \in Busy : q # p => reqs'[q] = reqs[q],
           p \in Busy' => ~InFlight(p)'
    PROVE  FlightsInv'
<1>1. \A q \in Busy : InFlight(q) => q \in Busy' /\ reqs'[q] = reqs[q]
  OBVIOUS
<1>2. \A q \in Busy' : InFlight(q)' => q \in Busy /\ reqs'[q] = reqs[q]
  OBVIOUS
<1> QED BY <1>1, <1>2 DEF FlightsInv, InFlight, FK

(* A new request is well typed. *)
LEMMA NewProcOK ==
    ASSUME VersInv, NEW u \in Users,
           NEW pc \in {"get", "solo", "clear", "exact"},
           pc # "solo" => IdentityOf[u] # NoIdentity
    PROVE  NewProc(pc, u) \in Req /\ ReqOK(NewProc(pc, u)) /\ NewProc(pc, u).pc = pc
<1>1. NoVersions \in Reading /\ Fresh(u) \in Value
  BY DEF NoVersions, Reading, Fresh, Value, VersInv
<1>2. NewProc(pc, u) \in Req
  BY <1>1 DEF NewProc, Req, VersInv
<1>3. NewProc(pc, u).pc = pc
  BY DEF NewProc
<1>4. ReqOK(NewProc(pc, u))
  BY DEF NewProc, ReqOK, ReadSince, Identified, OwnResult, Answered, NoVersions, Fresh,
         VersInv, Versions
<1> QED BY <1>2, <1>3, <1>4

(* ReadVersion: the version read is the current one. *)
LEMMA ReadVersionInv ==
    ASSUME CacheInv, NEW p \in Busy, NEW n \in Namespaces, ReadVersion(p, n)
    PROVE  CacheInv'
<1> DEFINE r == [reqs[p] EXCEPT !.ver[n] = vers[n]]
           ver == [reqs[p].ver EXCEPT ![n] = vers[n]]
<1>0. /\ reqs[p] \in Req /\ ReqOK(reqs[p]) /\ p \in Requests
      /\ reqs[p].pc \in Resolving /\ reqs[p].ver[n] = Unread
      /\ vers[n] \in 0..MaxPurges
  BY DEF CacheInv, ReqsInv, PartialOn, Busy, ReadVersion, VersInv, Versions
<1>1. ver \in Reading /\ reqs[p].ver \in Reading /\ reqs[p].since \in Versions
  BY <1>0 DEF Reading, Req
<1>2. r = [reqs[p] EXCEPT !.ver = ver]
  BY <1>0 DEF Req
<1>3. r \in Req
  BY <1>0, <1>1, <1>2 DEF Req
<1>4. /\ r.pc = reqs[p].pc /\ r.ver = ver /\ r.since = reqs[p].since
      /\ r.who = reqs[p].who /\ r.val = reqs[p].val /\ r.blind = reqs[p].blind
      /\ r.out = reqs[p].out /\ r.inc = reqs[p].inc
  BY <1>0, <1>2 DEF Req
<1>5. \A m \in Namespaces : ver[m] = IF m = n THEN vers[n] ELSE reqs[p].ver[m]
  BY <1>1 DEF Reading
<1> HIDE DEF r, ver
<1>6. ReqOK(r)
  <2>1. ReadSince(r)
    BY <1>0, <1>4, <1>5 DEF ReqOK, ReadSince, Unread
  <2>2. OwnResult(r)
    <3>1. reqs[p].pc \in {"admit", "set"} => reqs[p].val.blind
      BY <1>0 DEF ReqOK, OwnResult
    <3> QED BY <1>0, <1>4, <3>1 DEF ReqOK, OwnResult, Resolving, NotOlder
  <2>3. Identified(r) /\ Answered(r) /\ (r.pc = "admit" => r.inc >= 1)
    BY <1>0, <1>4 DEF ReqOK, Identified, Answered
  <2> QED BY <2>1, <2>2, <2>3 DEF ReqOK
<1>7. reqs' = [reqs EXCEPT ![p] = r] /\ UNCHANGED <<vers, entries, admissions, flights, purges>>
  BY DEF ReadVersion, r
<1>8. /\ ReqsInv' /\ Busy' = Busy \cup {p} /\ reqs'[p] = r
      /\ \A q \in Busy : q # p => reqs'[q] = reqs[q]
  BY <1>0, <1>3, <1>6, <1>7, ReqChanges DEF CacheInv
<1>9. FlightsInv'
  BY <1>0, <1>4, <1>7, <1>8, FlightsQuiet DEF CacheInv, InFlight, Resolving
<1> QED BY <1>7, <1>8, <1>9 DEF CacheInv, VersInv, EntriesInv

(* A request that is in no flight goes on, or begins, outside the flights. *)
LEMMA QuietStep ==
    ASSUME CacheInv, NEW p \in Requests, p \in Busy => ~InFlight(p),
           NEW r \in Req, ReqOK(r), r.pc \notin {"fetch", "observe"},
           \/ p \in Busy /\ reqs' = [reqs EXCEPT ![p] = r]
           \/ reqs' = With(reqs, p, r),
           UNCHANGED <<vers, flights, purges>>, EntriesInv',
           PartialOn(admissions, Keys, 1..2)'
    PROVE  CacheInv'
<1>1. /\ ReqsInv' /\ Busy' = Busy \cup {p} /\ reqs'[p] = r
      /\ \A q \in Busy : q # p => reqs'[q] = reqs[q]
  BY ReqChanges DEF CacheInv
<1>2. FlightsInv'
  BY <1>1, FlightsQuiet DEF CacheInv, InFlight
<1> QED BY <1>1, <1>2 DEF CacheInv, VersInv

(* And one that is in no flight ends. *)
LEMMA QuietEnd ==
    ASSUME CacheInv, NEW p \in Busy, ~InFlight(p), StopRequest(p),
           UNCHANGED <<vers, flights, purges>>, EntriesInv',
           PartialOn(admissions, Keys, 1..2)'
    PROVE  CacheInv'
<1>1. /\ ReqsInv' /\ Busy' = Busy \ {p}
      /\ \A q \in Busy \ {p} : reqs'[q] = reqs[q]
  BY ReqEnds DEF CacheInv
<1>2. FlightsInv'
  BY <1>1, FlightsQuiet DEF CacheInv
<1> QED BY <1>1, <1>2 DEF CacheInv, VersInv

(* The key of a request that has read all versions. *)
LEMMA KeyType ==
    ASSUME CacheInv, NEW p \in Busy, reqs[p].pc \notin {"solo", "done"}, Resolved(p)
    PROVE  Key(p) \in Keys /\ Key(p) = FK(reqs[p])
<1>1. reqs[p] \in Req /\ ReqOK(reqs[p])
  BY DEF CacheInv, ReqsInv, PartialOn, Busy
<1>2. IdentityOf[reqs[p].who] \in Identities
  BY <1>1, IdentityAssumption DEF ReqOK, Identified, Req
<1>3. reqs[p].ver \in Versions
  BY <1>1 DEF Resolved, Versions, Reading, Req, Unread
<1> QED BY <1>2, <1>3 DEF Keys, Key, Identity, FK

(* Requests begin, are answered, and return. *)
LEMMA LookupInv ==
    ASSUME CacheInv,
           \/ \E p \in Requests, u \in Users : Begin(p, u) \/ PurgeExact(p, u)
           \/ \E p \in Busy : Hit(p) \/ Solo(p) \/ Return(p)
    PROVE  CacheInv'
<1>a. EntriesInv /\ PartialOn(admissions, Keys, 1..2) /\ VersInv
  BY DEF CacheInv
<1>b. ASSUME UNCHANGED entries PROVE EntriesInv'
  BY <1>a, <1>b DEF EntriesInv
<1>1. ASSUME NEW p \in Requests, NEW u \in Users, Begin(p, u) PROVE CacheInv'
  <2> DEFINE pc == IF IdentityOf[u] = NoIdentity THEN "solo" ELSE "get"
             r == NewProc(pc, u)
  <2>1. r \in Req /\ ReqOK(r) /\ r.pc \notin {"fetch", "observe"}
    BY <1>a, NewProcOK
  <2>2. /\ p \notin Busy /\ reqs' = With(reqs, p, r)
        /\ UNCHANGED <<vers, entries, admissions, flights, purges>>
    BY <1>1 DEF Begin
  <2> HIDE DEF r
  <2> QED BY <1>a, <1>b, <2>1, <2>2, QuietStep
<1>2. ASSUME NEW p \in Requests, NEW u \in Users, PurgeExact(p, u) PROVE CacheInv'
  <2> DEFINE r == NewProc("exact", u)
  <2>1. r \in Req /\ ReqOK(r) /\ r.pc \notin {"fetch", "observe"}
    BY <1>2, <1>a, NewProcOK DEF PurgeExact
  <2>2. /\ p \notin Busy /\ reqs' = With(reqs, p, r)
        /\ UNCHANGED <<vers, entries, admissions, flights, purges>>
    BY <1>2 DEF PurgeExact
  <2> HIDE DEF r
  <2> QED BY <1>a, <1>b, <2>1, <2>2, QuietStep
<1>3. ASSUME NEW p \in Busy, Hit(p) PROVE CacheInv'
  <2> DEFINE v == entries[Key(p)]
             r == [reqs[p] EXCEPT !.pc = "done", !.ver = NoVersions, !.out = "hit", !.val = v]
  <2>0. /\ reqs[p] \in Req /\ ReqOK(reqs[p]) /\ p \in Requests /\ reqs[p].pc = "get"
        /\ Resolved(p) /\ Key(p) \in DOMAIN entries
        /\ UNCHANGED <<vers, entries, admissions, flights, purges>>
    BY <1>3 DEF CacheInv, ReqsInv, PartialOn, Busy, Hit
  <2>1. v \in Value /\ IdentityOf[v.of] = Identity(p) /\ NotOlder(v, reqs[p].ver)
    BY <1>a, <2>0 DEF EntriesInv, PartialOn, Key
  <2>2. NoVersions \in Reading
    BY DEF NoVersions, Reading
  <2>3. reqs' = [reqs EXCEPT ![p] = r]
    BY <1>3 DEF Hit
  <2> HIDE DEF v
  <2>4. /\ r \in Req /\ r.pc = "done" /\ r.ver = NoVersions /\ r.out = "hit" /\ r.val = v
        /\ r.who = reqs[p].who /\ r.since = reqs[p].since
    BY <2>0, <2>1, <2>2 DEF Req
  <2> HIDE DEF r
  <2>5. Rightful(r.who, v) /\ NotOlder(v, r.since)
    <3>1. Rightful(r.who, v)
      BY <2>0, <2>1, <2>4 DEF Rightful, Identity, ReqOK, Identified
    <3>2. \A n \in Namespaces : reqs[p].since[n] <= reqs[p].ver[n]
      BY <2>0 DEF ReqOK, ReadSince, Resolved
    <3>3. \A n \in Namespaces : reqs[p].since[n] \in Int /\ reqs[p].ver[n] \in Int /\ v.born[n] \in Int
      BY <2>0, <2>1, VersionAssumption DEF Req, Versions, Reading, Value, Unread
    <3> QED BY <2>1, <2>4, <3>1, <3>2, <3>3 DEF NotOlder
  <2>6. ReadSince(r)
    BY <2>0, <2>4 DEF ReadSince, NoVersions, ReqOK
  <2>7. ReqOK(r)
    BY <2>4, <2>5, <2>6 DEF ReqOK, Identified, OwnResult, Answered
  <2> QED BY <1>a, <1>b, <2>0, <2>3, <2>4, <2>7, QuietStep DEF InFlight
<1>4. ASSUME NEW p \in Busy, Solo(p) PROVE CacheInv'
  <2>1. PICK how \in {"fetched", "error"} : reqs' = [reqs EXCEPT ![p].pc = "done", ![p].out = how]
    BY <1>4 DEF Solo
  <2> DEFINE r == [reqs[p] EXCEPT !.pc = "done", !.out = how]
  <2>0. /\ reqs[p] \in Req /\ ReqOK(reqs[p]) /\ p \in Requests /\ reqs[p].pc = "solo"
        /\ UNCHANGED <<vers, entries, admissions, flights, purges>>
    BY <1>4 DEF CacheInv, ReqsInv, PartialOn, Busy, Solo
  <2>2. reqs' = [reqs EXCEPT ![p] = r]
    BY <2>1
  <2>4. /\ r \in Req /\ r.pc = "done" /\ r.ver = reqs[p].ver /\ r.out = how
        /\ r.val = reqs[p].val /\ r.who = reqs[p].who /\ r.since = reqs[p].since
    BY <2>0 DEF Req
  <2> HIDE DEF r
  <2>5. Rightful(r.who, r.val)
    BY <2>0, <2>4 DEF ReqOK, OwnResult, Rightful
  <2>6. NotOlder(r.val, r.since)
    <3>1. r.val.born = r.since /\ \A n \in Namespaces : r.since[n] \in Int
      BY <2>0, <2>4, VersionAssumption DEF ReqOK, OwnResult, Req, Versions
    <3> QED BY <3>1 DEF NotOlder
  <2>7. ReqOK(r)
    BY <2>0, <2>4, <2>5, <2>6 DEF ReqOK, Identified, OwnResult, Answered, ReadSince
  <2> QED BY <1>a, <1>b, <2>0, <2>2, <2>4, <2>7, QuietStep DEF InFlight
<1>5. ASSUME NEW p \in Busy, Return(p) PROVE CacheInv'
  BY <1>a, <1>b, <1>5, QuietEnd DEF Return, InFlight
<1> QED BY <1>1, <1>2, <1>3, <1>4, <1>5

(* Purges, expiry and eviction. *)
LEMMA PurgeInv ==
    ASSUME CacheInv,
           \/ \E n \in Namespaces : BumpNamespace(n)
           \/ \E k \in Keys : Evict(k) \/ WindowEnds(k)
    PROVE  CacheInv'
<1>1. ASSUME NEW n \in Namespaces, BumpNamespace(n) PROVE CacheInv'
  <2>1. VersInv'
    BY <1>1, VersionAssumption DEF CacheInv, VersInv, BumpNamespace, Versions
  <2>2. \A m \in Namespaces : vers[m] \in Int /\ vers'[m] \in Int /\ vers[m] <= vers'[m]
    BY <1>1, VersionAssumption DEF CacheInv, VersInv, BumpNamespace, Versions
  <2>3. ReqsInv'
    <3> SUFFICES ASSUME NEW p \in Busy PROVE ReqOK(reqs[p])'
      BY <1>1 DEF CacheInv, ReqsInv, BumpNamespace, Busy
    <3>1. reqs[p] \in Req /\ ReqOK(reqs[p]) /\ reqs' = reqs
      BY <1>1 DEF CacheInv, ReqsInv, PartialOn, Busy, BumpNamespace
    <3>2. \A m \in Namespaces : reqs[p].since[m] \in Int /\ reqs[p].ver[m] \in Int
      BY <3>1, VersionAssumption DEF Req, Versions, Reading, Unread
    <3>3. ReadSince(reqs[p])'
      BY <2>2, <3>1, <3>2 DEF ReqOK, ReadSince
    <3> QED BY <3>1, <3>3 DEF ReqOK, Identified, OwnResult, Answered, NotOlder, Rightful
  <2> QED BY <1>1, <2>1, <2>3 DEF CacheInv, BumpNamespace, EntriesInv, FlightsInv, Busy, InFlight, FK
<1>2. ASSUME NEW k \in Keys, Evict(k) PROVE CacheInv'
  <2>1. EntriesInv'
    BY <1>2 DEF CacheInv, EntriesInv, Evict, Without, PartialOn
  <2> QED BY <1>2, <2>1 DEF CacheInv, Evict, VersInv, ReqsInv, FlightsInv, Busy, InFlight, FK,
             ReqOK, ReadSince, Identified, OwnResult, Answered, NotOlder, Rightful
<1>3. ASSUME NEW k \in Keys, WindowEnds(k) PROVE CacheInv'
  <2>1. PartialOn(admissions, Keys, 1..2)'
    BY <1>3 DEF CacheInv, WindowEnds, Without, PartialOn
  <2> QED BY <1>3, <2>1 DEF CacheInv, WindowEnds, VersInv, EntriesInv, ReqsInv, FlightsInv, Busy,
             InFlight, FK, ReqOK, ReadSince, Identified, OwnResult, Answered, NotOlder, Rightful
<1> QED BY <1>1, <1>2, <1>3

(* recordAdmission returned: the leader goes on, or is done. *)
LEMMA AdmittedInv ==
    ASSUME CacheInv, NEW p \in Busy, reqs[p].pc = "admit", NEW count, Admitted(p, count),
           UNCHANGED <<vers, entries, flights, purges>>,
           PartialOn(admissions, Keys, 1..2)'
    PROVE  CacheInv'
<1>a. EntriesInv'
  BY DEF CacheInv, EntriesInv
<1>b. ~InFlight(p)
  BY DEF InFlight
<1>1. CASE StopRequest(p)
  BY <1>1, <1>a, <1>b, QuietEnd
<1>2. CASE ~StopRequest(p)
  <2> DEFINE pc == IF reqs[p].inc > 1 THEN "admit" ELSE "set"
             ver == StoreVersions(p)
             r == [reqs[p] EXCEPT !.inc = reqs[p].inc - 1, !.pc = pc, !.ver = ver]
  <2>0. reqs[p] \in Req /\ ReqOK(reqs[p]) /\ p \in Requests /\ reqs[p].inc \in Nat
    BY DEF CacheInv, ReqsInv, PartialOn, Busy, Req
  <2>1. reqs' = [reqs EXCEPT ![p] = r]
    BY <1>2 DEF Admitted
  <2>2. reqs[p].inc - 1 \in Nat /\ (pc = "admit" => reqs[p].inc - 1 >= 1)
    BY <2>0 DEF ReqOK
  <2>3. ver \in Reading /\ (reqs[p].blind => ver = NoVersions) /\ (~reqs[p].blind => ver = reqs[p].ver)
    BY <2>0 DEF StoreVersions, NoVersions, Reading, Req
  <2>4. pc \in {"admit", "set"}
    OBVIOUS
  <2> HIDE DEF pc, ver
  <2>5. /\ r \in Req /\ r.pc = pc /\ r.ver = ver /\ r.out = reqs[p].out
        /\ r.val = reqs[p].val /\ r.who = reqs[p].who /\ r.since = reqs[p].since
        /\ r.blind = reqs[p].blind /\ r.inc = reqs[p].inc - 1
    BY <2>0, <2>2, <2>3, <2>4 DEF Req
  <2> HIDE DEF r
  <2>6. ReadSince(r)
    BY <2>0, <2>3, <2>5 DEF ReadSince, ReqOK, NoVersions
  <2>7. OwnResult(r)
    <3>1. ~r.val.blind => ~r.blind
      BY <2>0, <2>5 DEF ReqOK, OwnResult
    <3>2. ~r.val.blind => r.ver = reqs[p].ver
      BY <3>1, <2>3, <2>5
    <3> QED BY <2>0, <2>4, <2>5, <3>1, <3>2 DEF ReqOK, OwnResult, NotOlder
  <2>8. Identified(r) /\ Answered(r)
    BY <2>0, <2>4, <2>5 DEF ReqOK, Identified, Answered
  <2>9. ReqOK(r) /\ r.pc \notin {"fetch", "observe"}
    BY <2>2, <2>4, <2>5, <2>6, <2>7, <2>8 DEF ReqOK
  <2> QED BY <1>a, <1>b, <2>0, <2>1, <2>5, <2>9, QuietStep
<1> QED BY <1>1, <1>2

(* storeResult, and what is done under a key of its own. *)
LEMMA StoreInv ==
    ASSUME CacheInv, NEW p \in Busy,
           \/ RecordAdmission(p) \/ AdmissionFails(p) \/ Set(p) \/ SetFails(p)
           \/ ClearAdmission(p) \/ ClearFails(p) \/ DeleteExact(p)
    PROVE  CacheInv'
<1>0. /\ reqs[p] \in Req /\ ReqOK(reqs[p]) /\ p \in Requests
      /\ EntriesInv /\ PartialOn(admissions, Keys, 1..2) /\ VersInv
  BY DEF CacheInv, ReqsInv, PartialOn, Busy
<1>b. ASSUME UNCHANGED entries PROVE EntriesInv'
  BY <1>0, <1>b DEF EntriesInv
<1>1. CASE RecordAdmission(p)
  <2> DEFINE count == IF Key(p) \in DOMAIN admissions THEN 2 ELSE 1
  <2>1. /\ reqs[p].pc = "admit" /\ Resolved(p) /\ admissions' = With(admissions, Key(p), count)
        /\ Admitted(p, count) /\ UNCHANGED <<vers, entries, flights, purges>>
    BY <1>1 DEF RecordAdmission
  <2>2. Key(p) \in Keys /\ count \in 1..2
    BY <2>1, KeyType
  <2> HIDE DEF count
  <2>3. PartialOn(admissions, Keys, 1..2)'
    BY <1>0, <2>1, <2>2 DEF With, PartialOn
  <2> QED BY <2>1, <2>3, AdmittedInv
<1>2. CASE AdmissionFails(p)
  BY <1>0, <1>2, AdmittedInv DEF AdmissionFails
<1>3. CASE Set(p)
  <2>1. /\ reqs[p].pc = "set" /\ Resolved(p) /\ entries' = With(entries, Key(p), reqs[p].val)
        /\ UNCHANGED <<vers, admissions, flights, purges>>
    BY <1>3 DEF Set
  <2>2. Key(p) \in Keys /\ Key(p) = FK(reqs[p])
    BY <2>1, KeyType
  <2>3. reqs[p].val \in Value /\ reqs[p].val.of = reqs[p].who /\ NotOlder(reqs[p].val, reqs[p].ver)
    BY <1>0, <2>1 DEF ReqOK, OwnResult, Req
  <2>4. IdentityOf[reqs[p].val.of] = Key(p)[1] /\ NotOlder(reqs[p].val, Key(p)[2])
    BY <2>2, <2>3 DEF FK
  <2>5. EntriesInv'
    BY <1>0, <2>1, <2>2, <2>3, <2>4 DEF EntriesInv, With, PartialOn, NotOlder
  <2>6. CASE StopRequest(p)
    BY <1>0, <2>1, <2>5, <2>6, QuietEnd DEF InFlight
  <2>7. CASE reqs' = [reqs EXCEPT ![p] = NewProc("clear", reqs[p].who)]
    <3>1. reqs[p].who \in Users /\ IdentityOf[reqs[p].who] # NoIdentity
      BY <1>0, <2>1 DEF Req, ReqOK, Identified
    <3>2. /\ NewProc("clear", reqs[p].who) \in Req /\ ReqOK(NewProc("clear", reqs[p].who))
          /\ NewProc("clear", reqs[p].who).pc = "clear"
      BY <1>0, <3>1, NewProcOK
    <3> QED BY <1>0, <2>1, <2>5, <2>7, <3>2, QuietStep DEF InFlight
  <2> QED BY <1>3, <2>6, <2>7 DEF Set
<1>4. CASE SetFails(p)
  BY <1>0, <1>4, <1>b, QuietEnd DEF SetFails, InFlight
<1>5. CASE ClearAdmission(p)
  <2>1. PartialOn(admissions, Keys, 1..2)'
    BY <1>0, <1>5 DEF ClearAdmission, Without, PartialOn
  <2> QED BY <1>5, <1>b, <2>1, QuietEnd DEF ClearAdmission, InFlight
<1>6. CASE ClearFails(p)
  BY <1>0, <1>6, <1>b, QuietEnd DEF ClearFails, InFlight
<1>7. CASE DeleteExact(p)
  <2>1. PartialOn(admissions, Keys, 1..2)'
    BY <1>0, <1>7 DEF DeleteExact, Without, PartialOn
  <2>2. EntriesInv'
    BY <1>0, <1>7 DEF DeleteExact, EntriesInv, Without, PartialOn, NotOlder
  <2> QED BY <1>7, <2>1, <2>2, QuietEnd DEF DeleteExact, InFlight
<1> QED BY <1>1, <1>2, <1>3, <1>4, <1>5, <1>6, <1>7

(* A request that missed joins a flight, or leads a new one. *)
LEMMA JoinInv ==
    ASSUME CacheInv, NEW p \in Busy, reqs[p].pc = "get",
           NEW ver, ver = NoVersions \/ (Resolved(p) /\ ver = reqs[p].ver),
           Join(p, ver)
    PROVE  CacheInv'
<1> DEFINE k == FlightKey(p, ver)
           blind == (ver = NoVersions)
           new == [reqs[p] EXCEPT !.ver = ver, !.blind = blind]
           obs == [new EXCEPT !.pc = "observe"]
           v == [Fresh(reqs[p].who) EXCEPT !.blind = blind]
           lead == [new EXCEPT !.pc = "fetch", !.val = v]
<1>0. /\ reqs[p] \in Req /\ ReqOK(reqs[p]) /\ p \in Requests /\ VersInv /\ FlightsInv
      /\ UNCHANGED <<vers, entries, admissions, purges>>
  BY DEF CacheInv, ReqsInv, PartialOn, Busy, Join
<1>1. ver \in Reading /\ blind \in BOOLEAN
  BY <1>0 DEF NoVersions, Reading, Req
<1>2. v \in Value /\ v.of = reqs[p].who /\ v.born = vers /\ v.blind = blind
  BY <1>0, <1>1 DEF Fresh, Value, VersInv, Req
<1>3. k \in (Identities \cup {NoIdentity}) \X Reading
  BY <1>0, <1>1, IdentityAssumption DEF FlightKey, Identity, Req
<1>x. ~blind => \A n \in Namespaces : ver[n] # Unread
  BY DEF Resolved
<1>y. ~blind => ver = reqs[p].ver
  OBVIOUS
<1>4. CASE k \in DOMAIN flights
  <2>1. /\ flights' = [flights EXCEPT ![k].observers = @ \cup {p}]
        /\ reqs' = [reqs EXCEPT ![p] = obs]
    BY <1>4 DEF Join
  <2>2. /\ obs \in Req /\ obs.pc = "observe" /\ obs.ver = ver /\ obs.out = reqs[p].out
        /\ obs.who = reqs[p].who /\ obs.since = reqs[p].since
    BY <1>0, <1>1 DEF Req
  <2>3. ReqOK(obs)
    <3> HIDE DEF obs
    <3>1. ReadSince(obs)
      BY <1>0, <2>2 DEF ReadSince, ReqOK, NoVersions
    <3> QED BY <1>0, <2>2, <3>1 DEF ReqOK, Identified, OwnResult, Answered
  <2> HIDE DEF obs
  <2>4. /\ ReqsInv' /\ Busy' = Busy /\ reqs'[p] = obs
        /\ \A q \in Busy : q # p => reqs'[q] = reqs[q]
    <3>1. /\ ReqsInv' /\ Busy' = Busy \cup {p} /\ reqs'[p] = obs
          /\ \A q \in Busy : q # p => reqs'[q] = reqs[q]
      BY <1>0, <2>1, <2>2, <2>3, ReqChanges DEF CacheInv
    <3> QED BY <3>1
  <2>5. FK(obs) = k
    BY <2>2 DEF FK, FlightKey, Identity
  <2> HIDE DEF k
  <2>6. /\ DOMAIN flights' = DOMAIN flights
        /\ flights[k].leader \in Requests /\ flights[k].observers \in SUBSET Requests
        /\ flights'[k] = [leader |-> flights[k].leader,
                          observers |-> flights[k].observers \cup {p}]
        /\ \A j \in DOMAIN flights : j # k => flights'[j] = flights[j]
    <3>1. /\ flights[k] \in [leader : Requests, observers : SUBSET Requests]
          /\ DOMAIN flights' = DOMAIN flights
          /\ \A j \in DOMAIN flights : j # k => flights'[j] = flights[j]
          /\ flights'[k] = [flights[k] EXCEPT !.observers = flights[k].observers \cup {p}]
      BY <1>0, <1>4, <2>1 DEF FlightsInv, PartialOn
    <3> QED BY <3>1
  <2>7. \A j \in DOMAIN flights : flights'[j].leader = flights[j].leader
    BY <2>6
  <2>8. \A j \in DOMAIN flights : flights[j].leader # p /\ p \notin flights[j].observers
    BY <1>0 DEF FlightsInv
  <2>9. PartialOn(flights, (Identities \cup {NoIdentity}) \X Reading,
                 [leader : Requests, observers : SUBSET Requests])'
    <3>1. flights'[k] \in [leader : Requests, observers : SUBSET Requests]
      BY <1>0, <2>6
    <3> QED BY <1>0, <2>6, <3>1 DEF FlightsInv, PartialOn
  <2>10. FlightsInv'
    <3>1. \A q \in Busy : InFlight(q)' => FK(reqs'[q]) \in DOMAIN flights'
      BY <1>0, <1>4, <2>4, <2>5, <2>6 DEF FlightsInv, InFlight
    <3>2. \A q \in Busy : reqs'[q].pc = "fetch" => flights'[FK(reqs'[q])].leader = q
      BY <1>0, <2>2, <2>4, <2>7 DEF FlightsInv, InFlight
    <3>3. \A q \in Busy : reqs'[q].pc = "observe" => q \in flights'[FK(reqs'[q])].observers
      BY <1>0, <2>2, <2>4, <2>5, <2>6 DEF FlightsInv, InFlight
    <3>4. \A j \in DOMAIN flights' :
          /\ flights'[j].leader \in Busy'
          /\ reqs'[flights'[j].leader].pc = "fetch"
          /\ FK(reqs'[flights'[j].leader]) = j
      BY <1>0, <2>4, <2>6, <2>7, <2>8 DEF FlightsInv
    <3>5. ASSUME NEW j \in DOMAIN flights', NEW q \in flights'[j].observers
          PROVE  q \in Busy' /\ reqs'[q].pc = "observe" /\ FK(reqs'[q]) = j
      <4>1. CASE q = p
        BY <4>1, <2>2, <2>4, <2>5, <2>6, <2>8
      <4>2. CASE q # p
        <5>1. q \in flights[j].observers /\ j \in DOMAIN flights
          BY <4>2, <2>6
        <5> QED BY <1>0, <4>2, <5>1, <2>4 DEF FlightsInv
      <4> QED BY <4>1, <4>2
    <3> QED BY <2>4, <2>9, <3>1, <3>2, <3>3, <3>4, <3>5 DEF FlightsInv, FK
  <2> QED BY <1>0, <2>4, <2>10 DEF CacheInv, VersInv, EntriesInv
<1>5. CASE k \notin DOMAIN flights
  <2>1. /\ flights' = With(flights, k, [leader |-> p, observers |-> {}])
        /\ reqs' = [reqs EXCEPT ![p] = lead]
    BY <1>5 DEF Join
  <2>2. /\ lead \in Req /\ lead.pc = "fetch" /\ lead.ver = ver /\ lead.out = reqs[p].out
        /\ lead.who = reqs[p].who /\ lead.since = reqs[p].since /\ lead.val = v
        /\ lead.blind = blind
    <3> HIDE DEF v, blind
    <3> QED BY <1>0, <1>1, <1>2 DEF Req
  <2>3. ReqOK(lead)
    <3> HIDE DEF lead, v
    <3>1. ReadSince(lead)
      BY <1>0, <2>2 DEF ReadSince, ReqOK, NoVersions
    <3>2. OwnResult(lead)
      <4>1. NotOlder(v, ver)
        BY <1>0, <1>2, <1>x, <1>y DEF ReqOK, ReadSince, NotOlder
      <4> QED BY <1>2, <1>x, <2>2, <4>1 DEF OwnResult
    <3> QED BY <1>0, <2>2, <3>1, <3>2 DEF ReqOK, Identified, Answered
  <2> HIDE DEF lead
  <2>4. /\ ReqsInv' /\ Busy' = Busy /\ reqs'[p] = lead
        /\ \A q \in Busy : q # p => reqs'[q] = reqs[q]
    <3>1. /\ ReqsInv' /\ Busy' = Busy \cup {p} /\ reqs'[p] = lead
          /\ \A q \in Busy : q # p => reqs'[q] = reqs[q]
      BY <1>0, <2>1, <2>2, <2>3, ReqChanges DEF CacheInv
    <3> QED BY <3>1
  <2>5. FK(lead) = k
    BY <2>2 DEF FK, FlightKey, Identity
  <2> HIDE DEF k
  <2>6. /\ DOMAIN flights' = DOMAIN flights \cup {k}
        /\ flights'[k] = [leader |-> p, observers |-> {}]
        /\ \A j \in DOMAIN flights : j # k => flights'[j] = flights[j]
    BY <1>5, <2>1 DEF With
  <2>7. flights'[k] \in [leader : Requests, observers : SUBSET Requests]
    BY <1>0, <2>6
  <2>8. \A j \in DOMAIN flights : j # k /\ flights[j].leader # p /\ p \notin flights[j].observers
    BY <1>0, <1>5 DEF FlightsInv
  <2>9. PartialOn(flights, (Identities \cup {NoIdentity}) \X Reading,
                 [leader : Requests, observers : SUBSET Requests])'
    BY <1>0, <1>3, <2>6, <2>7 DEF FlightsInv, PartialOn
  <2>10. FlightsInv'
    <3>1. \A q \in Busy : InFlight(q)' => FK(reqs'[q]) \in DOMAIN flights'
      BY <1>0, <2>4, <2>5, <2>6 DEF FlightsInv, InFlight
    <3>2. \A q \in Busy : reqs'[q].pc = "fetch" => flights'[FK(reqs'[q])].leader = q
      BY <1>0, <1>5, <2>4, <2>5, <2>6 DEF FlightsInv, InFlight
    <3>3. \A q \in Busy : reqs'[q].pc = "observe" => q \in flights'[FK(reqs'[q])].observers
      BY <1>0, <1>5, <2>2, <2>4, <2>6 DEF FlightsInv, InFlight
    <3>4. \A j \in DOMAIN flights' :
          /\ flights'[j].leader \in Busy'
          /\ reqs'[flights'[j].leader].pc = "fetch"
          /\ FK(reqs'[flights'[j].leader]) = j
      BY <1>0, <2>2, <2>4, <2>5, <2>6, <2>8 DEF FlightsInv
    <3>5. ASSUME NEW j \in DOMAIN flights', NEW q \in flights'[j].observers
          PROVE  q \in Busy' /\ reqs'[q].pc = "observe" /\ FK(reqs'[q]) = j
      BY <1>0, <2>4, <2>6, <2>8 DEF FlightsInv
    <3> QED BY <2>4, <2>9, <3>1, <3>2, <3>3, <3>4, <3>5 DEF FlightsInv, FK
  <2> QED BY <1>0, <2>4, <2>10 DEF CacheInv, VersInv, EntriesInv
<1> QED BY <1>4, <1>5

(* The flight ends, and everybody in it goes on with the leader's result.  *)
LEMMA LandInv ==
    ASSUME CacheInv, NEW p \in Busy, reqs[p].pc = "fetch",
           NEW mine \in Req, ReqOK(mine), mine.pc \notin {"fetch", "observe"},
           mine.val = reqs[p].val, NEW how \in {"shared", "error"},
           Land(p, FlightKey(p, reqs[p].ver), mine, how),
           UNCHANGED <<vers, entries, admissions, purges>>
    PROVE  CacheInv'
<1> DEFINE k == FK(reqs[p])
           told(q) == [reqs[q] EXCEPT !.pc = "done", !.ver = NoVersions,
                                      !.out = how, !.val = mine.val]
<1>0. /\ reqs[p] \in Req /\ ReqOK(reqs[p]) /\ p \in Requests /\ VersInv /\ FlightsInv
      /\ k = FlightKey(p, reqs[p].ver)
  BY DEF CacheInv, ReqsInv, PartialOn, Busy, FK, FlightKey, Identity
<1>1. k \in DOMAIN flights /\ flights[k].leader = p /\ p \notin flights[k].observers
  BY <1>0 DEF FlightsInv, InFlight
<1>2. /\ Busy' = Busy /\ reqs'[p] = mine
      /\ \A q \in Busy : q \in flights[k].observers => reqs'[q] = told(q)
      /\ \A q \in Busy : q # p /\ q \notin flights[k].observers => reqs'[q] = reqs[q]
  BY <1>0, <1>1 DEF Land, Busy
<1>3. DOMAIN flights' = DOMAIN flights \ {k} /\ \A j \in DOMAIN flights' : flights'[j] = flights[j]
  BY <1>0 DEF Land, Without
<1>4. ASSUME NEW q \in Busy, q \in flights[k].observers
      PROVE  told(q) \in Req /\ ReqOK(told(q)) /\ told(q).pc = "done"
  <2>1. /\ reqs[q] \in Req /\ ReqOK(reqs[q]) /\ reqs[q].pc = "observe" /\ FK(reqs[q]) = k
    BY <1>0, <1>1, <1>4 DEF CacheInv, ReqsInv, PartialOn, Busy, FlightsInv
  <2>2. IdentityOf[reqs[q].who] = IdentityOf[reqs[p].who] /\ reqs[q].ver = reqs[p].ver
    BY <2>1 DEF FK
  <2>3. NoVersions \in Reading /\ mine.val \in Value
    BY DEF NoVersions, Reading, Req
  <2>4. /\ told(q) \in Req /\ told(q).pc = "done" /\ told(q).ver = NoVersions
        /\ told(q).out = how /\ told(q).val = mine.val
        /\ told(q).who = reqs[q].who /\ told(q).since = reqs[q].since
    BY <2>1, <2>3 DEF Req
  <2>5. Rightful(reqs[q].who, mine.val)
    BY <1>0, <2>1, <2>2 DEF Rightful, ReqOK, OwnResult, Identified
  <2>6. NotOlder(mine.val, reqs[q].since)
    <3> SUFFICES ASSUME ~mine.val.blind, NEW n \in Namespaces
                 PROVE  mine.val.born[n] >= reqs[q].since[n]
      BY DEF NotOlder
    <3>1. reqs[q].ver[n] # Unread /\ mine.val.born[n] >= reqs[q].ver[n]
      BY <1>0, <2>2 DEF ReqOK, OwnResult, NotOlder
    <3>2. reqs[q].since[n] <= reqs[q].ver[n]
      BY <2>1, <3>1 DEF ReqOK, ReadSince
    <3>3. reqs[q].since[n] \in Int /\ reqs[q].ver[n] \in Int /\ mine.val.born[n] \in Int
      BY <2>1, <2>3, VersionAssumption DEF Req, Versions, Reading, Value, Unread
    <3> QED BY <3>1, <3>2, <3>3
  <2>7. ReadSince(told(q))
    BY <2>1, <2>4 DEF ReadSince, NoVersions, ReqOK
  <2> HIDE DEF told
  <2> QED BY <2>4, <2>5, <2>6, <2>7 DEF ReqOK, Identified, OwnResult, Answered
<1> HIDE DEF told
<1>5. ReqsInv'
  <2>1. \A q \in Busy : reqs'[q] \in Req /\ ReqOK(reqs'[q])
    BY <1>2, <1>4 DEF CacheInv, ReqsInv, PartialOn, Busy
  <2>2. ASSUME NEW r, ReqOK(r) PROVE ReadSince(r)'
    BY <2>2 DEF ReqOK, ReadSince
  <2>3. Busy' \subseteq Requests
    BY <1>2 DEF CacheInv, ReqsInv, PartialOn, Busy
  <2> QED BY <1>2, <2>1, <2>2, <2>3 DEF ReqsInv, PartialOn, Busy, ReqOK, ReadSince, Identified,
                OwnResult, Answered, NotOlder, Rightful
<1> HIDE DEF k
<1>6. \A q \in Busy : InFlight(q)' => q # p /\ q \notin flights[k].observers /\ reqs'[q] = reqs[q]
  BY <1>2, <1>4 DEF InFlight
<1>7. \A j \in DOMAIN flights' : j \in DOMAIN flights /\ j # k /\ flights'[j] = flights[j]
  BY <1>3
<1>8. FlightsInv'
  <2>1. PartialOn(flights, (Identities \cup {NoIdentity}) \X Reading,
                 [leader : Requests, observers : SUBSET Requests])'
    BY <1>0, <1>7 DEF FlightsInv, PartialOn
  <2>2. \A q \in Busy : InFlight(q)' => FK(reqs'[q]) \in DOMAIN flights /\ FK(reqs'[q]) # k
    BY <1>0, <1>1, <1>6 DEF FlightsInv, InFlight
  <2>3. \A q \in Busy : InFlight(q)' => FK(reqs'[q]) \in DOMAIN flights'
    BY <1>3, <2>2
  <2>4. \A q \in Busy : reqs'[q].pc = "fetch" => flights'[FK(reqs'[q])].leader = q
    BY <1>0, <1>6, <1>7, <2>3 DEF FlightsInv, InFlight
  <2>5. \A q \in Busy : reqs'[q].pc = "observe" => q \in flights'[FK(reqs'[q])].observers
    BY <1>0, <1>6, <1>7, <2>3 DEF FlightsInv, InFlight
  <2>6. ASSUME NEW q \in Busy, q = p \/ q \in flights[k].observers, NEW j \in DOMAIN flights, j # k
        PROVE  flights[j].leader # q /\ q \notin flights[j].observers
    BY <1>0, <1>1, <2>6 DEF FlightsInv
  <2>7. \A j \in DOMAIN flights' :
          /\ flights'[j].leader \in Busy'
          /\ reqs'[flights'[j].leader].pc = "fetch"
          /\ FK(reqs'[flights'[j].leader]) = j
    BY <1>0, <1>2, <1>7, <2>6 DEF FlightsInv
  <2>8. ASSUME NEW j \in DOMAIN flights', NEW q \in flights'[j].observers
        PROVE  q \in Busy' /\ reqs'[q].pc = "observe" /\ FK(reqs'[q]) = j
    BY <1>0, <1>2, <1>7, <2>6 DEF FlightsInv
  <2> QED BY <1>2, <2>1, <2>3, <2>4, <2>5, <2>7, <2>8 DEF FlightsInv, FK
<1> QED BY <1>0, <1>5, <1>8 DEF CacheInv, VersInv, EntriesInv

(* The factory returns, or throws. *)
LEMMA FlightEndsInv ==
    ASSUME CacheInv, NEW p \in Busy,
           Fail(p) \/ \E isError \in BOOLEAN : Succeed(p, isError)
    PROVE  CacheInv'
<1>0. /\ reqs[p] \in Req /\ ReqOK(reqs[p]) /\ p \in Requests /\ FlightsInv
      /\ reqs[p].pc = "fetch"
      /\ UNCHANGED <<vers, entries, admissions, purges>>
  BY DEF CacheInv, ReqsInv, PartialOn, Busy, Fail, Succeed
<1>1. NoVersions \in Reading
  BY DEF NoVersions, Reading
<1>2. CASE Fail(p)
  <2> DEFINE r == [reqs[p] EXCEPT !.pc = "done", !.ver = NoVersions, !.out = "error"]
  <2>1. /\ r \in Req /\ r.pc = "done" /\ r.ver = NoVersions /\ r.out = "error"
        /\ r.val = reqs[p].val /\ r.who = reqs[p].who /\ r.since = reqs[p].since
    BY <1>0, <1>1 DEF Req
  <2>2. Land(p, FlightKey(p, reqs[p].ver), r, "error")
    BY <1>2 DEF Fail
  <2> HIDE DEF r
  <2>3. ReadSince(r)
    BY <1>0, <2>1 DEF ReadSince, NoVersions, ReqOK
  <2>4. ReqOK(r)
    BY <2>1, <2>3 DEF ReqOK, Identified, OwnResult, Answered
  <2> QED BY <1>0, <2>1, <2>2, <2>4, LandInv
<1>3. ASSUME NEW isError \in BOOLEAN, Succeed(p, isError) PROVE CacheInv'
  <2> DEFINE f == flights[FlightKey(p, reqs[p].ver)]
             pc == IF isError THEN "done" ELSE IF SecondHit THEN "admit" ELSE "set"
             ver == IF isError THEN NoVersions ELSE StoreVersions(p)
             inc == IF SecondHit /\ ~isError THEN Observations(f) ELSE 0
             r == [reqs[p] EXCEPT !.pc = pc, !.ver = ver, !.inc = inc, !.out = "fetched"]
  <2>1. Land(p, FlightKey(p, reqs[p].ver), r, "shared")
    BY <1>3 DEF Succeed, Fetched
  <2>2. Observations(f) \in Nat /\ Observations(f) >= 1
    <3>1. f.observers \subseteq Requests
      BY <1>0 DEF FlightsInv, PartialOn, InFlight, FK, FlightKey, Identity
    <3>2. IsFiniteSet(f.observers)
      BY <3>1, RequestsAssumption, FS_Subset
    <3>3. Cardinality(f.observers) \in Nat
      BY <3>2, FS_CardinalityType
    <3> QED BY <3>3 DEF Observations
  <2>3. inc \in Nat /\ (pc = "admit" => inc >= 1)
    BY <2>2
  <2>4. ver \in Reading /\ (ver = NoVersions \/ (~reqs[p].blind /\ ver = reqs[p].ver))
    BY <1>0, <1>1 DEF StoreVersions, Req
  <2>4a. pc # "done" /\ ~reqs[p].blind => ver = reqs[p].ver
    BY DEF StoreVersions
  <2>5. pc \in {"done", "admit", "set"}
    OBVIOUS
  <2> HIDE DEF pc, ver, inc
  <2>6. /\ r \in Req /\ r.pc = pc /\ r.ver = ver /\ r.out = "fetched" /\ r.inc = inc
        /\ r.val = reqs[p].val /\ r.who = reqs[p].who /\ r.since = reqs[p].since
        /\ r.blind = reqs[p].blind
    BY <1>0, <2>3, <2>4, <2>5 DEF Req
  <2> HIDE DEF r
  <2>7. ReadSince(r)
    BY <1>0, <2>4, <2>6 DEF ReadSince, NoVersions, ReqOK
  <2>8. OwnResult(r)
    <3>1. ~r.val.blind => ~r.blind
      BY <1>0, <2>6 DEF ReqOK, OwnResult
    <3>2. r.pc # "done" /\ ~r.val.blind => r.ver = reqs[p].ver
      BY <3>1, <2>4a, <2>6
    <3> QED BY <1>0, <2>5, <2>6, <3>1, <3>2 DEF ReqOK, OwnResult, NotOlder
  <2>9. Answered(r)
    <3>1. Rightful(r.who, r.val)
      BY <1>0, <2>6 DEF ReqOK, OwnResult, Rightful
    <3>2. NotOlder(r.val, r.since)
      <4> SUFFICES ASSUME ~r.val.blind, NEW n \in Namespaces
                   PROVE  r.val.born[n] >= r.since[n]
        BY DEF NotOlder
      <4>1. /\ reqs[p].ver[n] # Unread /\ r.val.born[n] >= reqs[p].ver[n]
            /\ r.since[n] <= reqs[p].ver[n]
        BY <1>0, <2>6 DEF ReqOK, OwnResult, NotOlder, ReadSince
      <4>2. r.since[n] \in Int /\ reqs[p].ver[n] \in Int /\ r.val.born[n] \in Int
        BY <1>0, <2>6, VersionAssumption DEF Req, Versions, Reading, Value, Unread
      <4> QED BY <4>1, <4>2
    <3> QED BY <2>5, <2>6, <3>1, <3>2 DEF Answered
  <2>10. ReqOK(r)
    BY <1>0, <2>3, <2>6, <2>7, <2>8, <2>9 DEF ReqOK, Identified
  <2> QED BY <1>0, <2>1, <2>5, <2>6, <2>10, LandInv
<1> QED BY <1>2, <1>3

(* The invariant holds initially. *)
LEMMA CacheInvInit == CacheInit => CacheInv
BY VersionAssumption DEF CacheInit, CacheInv, VersInv, ReqsInv, EntriesInv, FlightsInv, Empty,
   PartialOn, Busy, Versions

(* Every step keeps it. *)
LEMMA CacheInvNext == CacheInv /\ [CacheNext]_cacheVars => CacheInv'
<1> SUFFICES ASSUME CacheInv, [CacheNext]_cacheVars PROVE CacheInv'
  OBVIOUS
<1>1. CASE UNCHANGED cacheVars
  BY <1>1 DEF cacheVars, CacheInv, VersInv, EntriesInv, ReqsInv, FlightsInv, Busy, InFlight, FK,
              ReqOK, ReadSince, Identified, OwnResult, Answered, NotOlder, Rightful
<1>2. ASSUME NEW p \in Busy, Miss(p) \/ LookupFails(p) PROVE CacheInv'
  BY <1>2, JoinInv DEF Miss, LookupFails
<1>3. ASSUME NEW p \in Busy, CacheStep(p) PROVE CacheInv'
  BY <1>2, <1>3, ReadVersionInv, LookupInv, FlightEndsInv, StoreInv DEF CacheStep
<1> QED BY <1>1, <1>3, LookupInv, PurgeInv DEF CacheNext

(* So it holds for ever. *)
LEMMA CacheInvHolds == CacheSpec => []CacheInv
BY CacheInvInit, CacheInvNext, PTL DEF CacheSpec

(* The maps of the cache stay what the stores and the registry declare.    *)
THEOREM CacheTypeCorrect == CacheSpec => []CacheTypeOK
<1>1. CacheInv => CacheTypeOK
  BY DEF CacheInv, VersInv, ReqsInv, EntriesInv, FlightsInv, CacheTypeOK
<1> QED BY <1>1, CacheInvHolds, PTL

(* Nobody is given the result of another identity, from the store or from  *)
(* a flight (buildExactKeyParts, the scope identity in the key).           *)
LEMMA IdentityKept == CacheSpec => []SameIdentity
<1>1. CacheInv => SameIdentity
  BY DEF CacheInv, ReqsInv, ReqOK, Answered, Rightful, SameIdentity, Served, Identity
<1> QED BY <1>1, CacheInvHolds, PTL

(* A purge is final for every request that begins after it, whatever is    *)
(* being fetched and stored meanwhile (the versions in the key).           *)
LEMMA PurgesAreFinal == CacheSpec => []FreshAfterPurge
<1>1. CacheInv => FreshAfterPurge
  BY DEF CacheInv, ReqsInv, ReqOK, Answered, NotOlder, FreshAfterPurge, Served
<1> QED BY <1>1, CacheInvHolds, PTL

(* For any users, identities and namespaces, any number of requests at once *)
(* and any failures of the store: what a request is given was fetched for   *)
(* its own identity and not before a purge that preceded it                 *)
(* (ResultCacheService.ts, SingleflightRegistry.ts).                        *)
THEOREM ResultsStaySound == CacheSpec => []ResultsSound
<1>1. FreshAfterPurge /\ SameIdentity => ResultsSound
  BY DEF ResultsSound
<1> QED BY <1>1, IdentityKept, PurgesAreFinal, PTL

(* Every observer is in a flight whose leader is still fetching, so that   *)
(* its end reaches it (SingleflightRegistry).                              *)
THEOREM ObserversAreServed == CacheSpec => []NobodyStranded
<1>1. CacheInv => NobodyStranded
  BY DEF CacheInv, FlightsInv, InFlight, FK, FlightKey, Identity, NobodyStranded
<1> QED BY <1>1, CacheInvHolds, PTL

-----------------------------------------------------------------------------
(* The composition that the runs check. *)

(* A server and the cache of its results, started together: every behaviour *)
(* of the composition is one of ServerLifecycle and one of ResultCache, so  *)
(* that what is proved of them holds of it (ServerManager.ts,               *)
(* ResultCacheService.ts).                                                  *)
THEOREM DownstreamComposes == Spec => ServerSpec /\ CacheSpec
<1>1. Init => ServerInit /\ CacheInit
  BY DEF Init
<1>2. [Next]_downstreamVars => [ServerNext]_serverVars /\ [CacheNext]_cacheVars
  BY DEF Next, downstreamVars
<1> QED
  BY <1>1, <1>2, PTL DEF Spec, ServerSpec, CacheSpec

(* Contexts, clients and operations of ServerManager, and entries, flights  *)
(* and requests of the cache, have their types in the composition, for any  *)
(* number of each.                                                          *)
THEOREM DownstreamTypeCorrect == Spec => []TypesOK
BY DownstreamComposes, ServerTypeCorrect, CacheTypeCorrect, PTL DEF TypesOK
=============================================================================
