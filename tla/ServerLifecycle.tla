-------------------------- MODULE ServerLifecycle --------------------------
(***************************************************************************)
(* The life of one downstream server in ServerManager: its context         *)
(* (ServerContext: status, connection, idle time, time-out count), the     *)
(* wait queue of lazy starts, and the asynchronous operations that work on *)
(* them: requests that wake the server up (ensureServerAvailable), the     *)
(* idle check, time-out recovery, administrators who add, reconnect or     *)
(* remove it, and the transport's close event.  A temporary server (one    *)
(* per user) goes through the same operations under its own key.           *)
(*                                                                         *)
(* An operation runs without interruption up to its next await; one action *)
(* is one such stretch.  The state of an operation names the context and   *)
(* the downstream client it captured before the await.                     *)
(***************************************************************************)
EXTENDS Naturals, FiniteSets

CONSTANTS
    Procs,       \* asynchronous operations that may be in flight together
    NoProc,
    MaxContexts, \* bound: ServerContext objects alive together
    MaxClients,  \* bound: downstream clients alive together
    MaxTimeouts, \* maxTimeoutCount
    Kinds,       \* the kinds of server that are configured
    Faults,      \* which steps may fail: "prep", "dial", "ping", "caps", "close"
    Ops          \* the operations that may be started

ASSUME ProcAssumption == NoProc \notin Procs
ASSUME ServerAssumption ==
    /\ MaxContexts \in Nat \ {0} /\ MaxClients \in Nat \ {0}
    /\ MaxTimeouts \in Nat \ {0}
    /\ Kinds \subseteq {"lazy", "eager", "modern"}
    /\ Faults \subseteq {"prep", "dial", "ping", "caps", "close"}
    /\ Ops \subseteq {"ensure", "sleep", "timeout", "add", "create",
                      "reconnect", "remove"}

VARIABLES
    ctxs,    \* the ServerContext objects
    cur,     \* the one in serverContexts (or temporaryServers), 0 if none
    queue,   \* serverWaitQueues: the operation whose promise is there
    clients, \* the downstream clients (child process, HTTP session)
    procs,   \* the operations' local state
    kind     \* how the server is configured; it does not change

serverVars == <<ctxs, cur, queue, clients, procs, kind>>

-----------------------------------------------------------------------------
CtxIds == 1..MaxContexts
ClientIds == 1..MaxClients
None == 0

Status == {"Online", "Offline", "Connecting", "Error", "Sleeping"}

Ctx == [status   : Status,
        conn     : ClientIds \cup {None}, \* connection, and with it transport
        idle     : BOOLEAN,               \* lastActive is IDLE_TIMEOUT ago
        timeouts : 0..MaxTimeouts]

Client == [st      : {"closed", "dialing", "open"},
           ctx     : CtxIds \cup {None},
           planned : BOOLEAN,              \* in plannedTransportCloses
           sse     : BOOLEAN]              \* the fallback transport

Starting == {"prep", "dial", "redial", "ping", "caps"} \* in createServerConnection

Proc == [pc     : {"idle", "restore", "join", "ready", "picked", "log", "probe",
                   "closing"} \cup Starting,
         op     : {"ensure", "sleep", "timeout", "add", "reconnect", "remove"},
         ctx    : CtxIds \cup {None},
         client : ClientIds \cup {None}]

(* isLazyStartApplicable; the stateless HTTP protocol; canFallbackHttpToSse, *)
(* for an HTTP URL without a transport type.                                 *)
Lazy == kind # "eager"
Modern == kind = "modern"
Fallback == kind = "eager"

Resting == IF Lazy THEN "Sleeping" ELSE "Offline" \* status of a restored context
Broken == IF Lazy THEN "Sleeping" ELSE "Error"    \* status after a failure

NewCtx(status) == [status |-> status, conn |-> None, idle |-> FALSE, timeouts |-> 0]
Dialing(x, sse) == [st |-> "dialing", ctx |-> x, planned |-> FALSE, sse |-> sse]
Gone == [st |-> "closed", ctx |-> None, planned |-> FALSE, sse |-> FALSE]
IdleProc == [pc |-> "idle", op |-> "ensure", ctx |-> None, client |-> None]

ServerInit ==
    /\ kind \in Kinds
    /\ ctxs = [x \in CtxIds |-> NewCtx(Resting)]
    /\ cur = 1
    /\ queue = NoProc
    /\ clients = [k \in ClientIds |-> Gone]
    /\ procs = [p \in Procs |-> IdleProc]

Running == {p \in Procs : procs[p].pc # "idle"}

(* Objects nothing refers to any more; the bounds above count the others.   *)
FreeCtxs == {x \in CtxIds \ {cur} :
    /\ \A p \in Procs : procs[p].ctx # x
    /\ \A k \in ClientIds : clients[k].st # "closed" => clients[k].ctx # x}
FreeClients == {k \in ClientIds :
    /\ clients[k].st = "closed"
    /\ \A x \in CtxIds : ctxs[x].conn # k
    /\ \A p \in Procs : procs[p].client # k}

At(p, pc, x) == procs' = [procs EXCEPT ![p].pc = pc, ![p].ctx = x]
Stop(p) == procs' = [procs EXCEPT ![p] = IdleProc]

-----------------------------------------------------------------------------
(* createServerConnection, entered with the contexts as in cs: nothing to  *)
(* do if another operation connects or has connected.                      *)
Connect(p, x, cs) ==
    IF cs[x].status \in {"Online", "Connecting"}
    THEN ctxs' = cs /\ Stop(p)
    ELSE ctxs' = [cs EXCEPT ![x].status = "Connecting"] /\ At(p, "prep", x)

(* The rest of ensureServerAvailable once the context x is known. *)
Dispatch(p, x, cs) ==
    \/ /\ cs[x].status = "Online"
       /\ ctxs' = [cs EXCEPT ![x].idle = FALSE]
       /\ Stop(p)
       /\ UNCHANGED queue
    \/ /\ cs[x].status # "Online" /\ queue # NoProc
       /\ ctxs' = cs
       /\ At(p, "join", x)
       /\ UNCHANGED queue
    \/ /\ cs[x].status \in {"Sleeping", "Offline"} /\ queue = NoProc /\ Lazy
       /\ ctxs' = [cs EXCEPT ![x].status = "Connecting"]
       /\ At(p, "prep", x)
       /\ queue' = p
    \/ /\ cs[x].status = "Connecting" /\ queue = NoProc
       /\ ctxs' = cs
       /\ At(p, "ready", x)
       /\ UNCHANGED queue
    \/ /\ cs[x].status # "Online" /\ cs[x].status # "Connecting" /\ queue = NoProc
       /\ ctxs' = cs  \* not a lazy server, or no token to start it with
       /\ Stop(p)
       /\ UNCHANGED queue

Ensure(p) ==
    /\ procs[p].pc = "idle" /\ "ensure" \in Ops
    /\ IF cur # None
       THEN Dispatch(p, cur, ctxs)
       ELSE /\ procs' = [procs EXCEPT ![p] = [IdleProc EXCEPT !.pc = "restore"]]
            /\ UNCHANGED <<ctxs, queue>>
    /\ UNCHANGED <<cur, clients>>

(* initializeManagedServerContext: the context in the map, or a new one.    *)
(* With a status it resets one that has no connection, whatever it does.    *)
Initialize(x, withStatus) ==
    [ctxs EXCEPT ![x] =
        IF cur = None THEN NewCtx(IF withStatus THEN Resting ELSE "Offline")
        ELSE IF withStatus /\ @.conn = None THEN [@ EXCEPT !.status = Resting]
        ELSE @]

Mapped(x) == IF cur = None THEN x \in FreeCtxs /\ \A y \in FreeCtxs : x <= y
                           ELSE x = cur

(* restoreServerContext after its query. *)
Restore(p) ==
    /\ procs[p].pc = "restore"
    /\ \/ \E x \in CtxIds : /\ Mapped(x)
                            /\ cur' = x
                            /\ Dispatch(p, x, Initialize(x, TRUE))
       \/ Stop(p) /\ UNCHANGED <<ctxs, cur, queue>>  \* gone or disabled
    /\ UNCHANGED clients

(* waitForServerReady: Online, or an error, or too late. *)
Ready(p) ==
    /\ procs[p].pc = "ready"
    /\ Stop(p)
    /\ UNCHANGED <<ctxs, cur, queue, clients>>

-----------------------------------------------------------------------------
(* The steps of createServerConnection.                                    *)

(* Mutant: the key stays in serverWaitQueues. *)
FinishKeepsQueue(p) ==
    /\ procs' = [d \in Procs |->
          IF d = p \/ (queue = p /\ procs[d].pc = "join") THEN IdleProc ELSE procs[d]]
    /\ UNCHANGED queue

(* Mutant: nobody who joined is told. *)
FinishAlone(p) ==
    /\ procs' = [procs EXCEPT ![p] = IdleProc]
    /\ queue' = IF queue = p THEN NoProc ELSE queue

(* The operation is over.  If it was a wake-up its promise settles, which  *)
(* releases the queue and everybody who joined it.                         *)
Finish(p) ==
    /\ procs' = [d \in Procs |->
          IF d = p \/ (queue = p /\ procs[d].pc = "join") THEN IdleProc ELSE procs[d]]
    /\ queue' = IF queue = p THEN NoProc ELSE queue

(* Mutant: the status is left as it is. *)
StartFailsConnecting(p) ==
    /\ ctxs' = [ctxs EXCEPT ![procs[p].ctx].conn = None]
    /\ Finish(p)

(* The catch block.  The client is not closed here. *)
StartFails(p) ==
    /\ ctxs' = [ctxs EXCEPT ![procs[p].ctx].status = Broken,
                            ![procs[p].ctx].conn = None]
    /\ Finish(p)

(* decryptLaunchConfig, initializeAuthentication, the transport. *)
Prep(p) ==
    /\ procs[p].pc = "prep"
    /\ \/ \E k \in FreeClients :
             /\ \A j \in FreeClients : k <= j
             /\ clients' = [clients EXCEPT ![k] = Dialing(procs[p].ctx, FALSE)]
             /\ procs' = [procs EXCEPT ![p].pc = "dial", ![p].client = k]
             /\ UNCHANGED <<ctxs, queue>>
       \/ /\ "prep" \in Faults \/ FreeClients = {}
          /\ StartFails(p)
          /\ UNCHANGED clients
    /\ UNCHANGED cur

(* client.connect.  A failure of auto-detected HTTP closes the transport as *)
(* planned and dials again over SSE.                                        *)
Dial(p) ==
    /\ procs[p].pc = "dial"
    /\ LET k == procs[p].client IN
       \/ /\ clients[k].st = "dialing"
          /\ clients' = [clients EXCEPT ![k].st = "open"]
          /\ procs' = [procs EXCEPT ![p].pc = "ping"]
          /\ UNCHANGED <<ctxs, queue>>
       \/ /\ "dial" \in Faults \/ clients[k].st = "closed"
          /\ IF Fallback
             THEN /\ clients' = [clients EXCEPT ![k] = Dialing(procs[p].ctx, TRUE)]
                  /\ procs' = [procs EXCEPT ![p].pc = "redial"]
                  /\ UNCHANGED <<ctxs, queue>>
             ELSE /\ clients' = [clients EXCEPT ![k] = Gone]
                  /\ StartFails(p)
    /\ UNCHANGED cur

(* Mutant: a second attempt that fails starts over. *)
RedialLoops(p) ==
    /\ procs[p].pc = "redial"
    /\ LET k == procs[p].client IN
          \/ /\ clients[k].st = "dialing"
             /\ clients' = [clients EXCEPT ![k].st = "open"]
             /\ StartFails(p)
          \/ /\ "dial" \in Faults \/ clients[k].st = "closed"
             /\ clients' = [clients EXCEPT ![k] = Dialing(procs[p].ctx, FALSE)]
             /\ procs' = [procs EXCEPT ![p].pc = "dial"]
             /\ UNCHANGED <<ctxs, queue>>
    /\ UNCHANGED cur

(* The second attempt.  Whether or not it succeeds, the block ends with     *)
(* "throw error", the error of the first.                                   *)
Redial(p) ==
    /\ procs[p].pc = "redial"
    /\ LET k == procs[p].client IN
          \/ /\ clients[k].st = "dialing"
             /\ clients' = [clients EXCEPT ![k].st = "open"]
          \/ /\ "dial" \in Faults \/ clients[k].st = "closed"
             /\ clients' = [clients EXCEPT ![k] = Gone]
    /\ StartFails(p)
    /\ UNCHANGED cur

(* The modern client is published without its status. *)
Published(x, k) == [ctxs EXCEPT ![x].conn = k,
                                ![x].status = IF Modern THEN @ ELSE "Online"]

(* The awaits before the connection is published: caching the transport     *)
(* type, ping.                                                              *)
Ping(p) ==
    /\ procs[p].pc = "ping"
    /\ LET k == procs[p].client IN
       \/ /\ clients[k].st = "open"
          /\ ctxs' = Published(procs[p].ctx, k)
          /\ procs' = [procs EXCEPT ![p].pc = "caps"]
          /\ UNCHANGED queue
       \/ /\ "ping" \in Faults \/ clients[k].st = "closed"
          /\ StartFails(p)
    /\ UNCHANGED <<cur, clients>>

(* updateServerCapabilities; it throws only if a subscription cannot be     *)
(* restored, and the modern client has none.  The starter of a wake-up also *)
(* resets lastActive.                                                       *)
Caps(p) ==
    /\ procs[p].pc = "caps"
    /\ \/ /\ ctxs' = [ctxs EXCEPT ![procs[p].ctx].timeouts = 0,
                                  ![procs[p].ctx].idle = IF queue = p THEN FALSE ELSE @,
                                  ![procs[p].ctx].status = IF Modern THEN "Online" ELSE @]
          /\ Finish(p)
       \/ "caps" \in Faults /\ ~Modern /\ StartFails(p)
    /\ UNCHANGED <<cur, clients>>

-----------------------------------------------------------------------------
(* disconnectServerContext and what its callers do afterwards.             *)

Target(op) == IF op = "sleep" THEN "Sleeping" ELSE "Offline"

(* What follows the disconnection, in the contexts cs. *)
After(p, op, cs) ==
    \/ op = "sleep" /\ ctxs' = cs /\ Stop(p) /\ UNCHANGED cur
    \/ op = "remove" /\ ctxs' = cs /\ Stop(p) /\ cur' = None
    \/ /\ op \in {"reconnect", "timeout"}
       /\ \E x \in CtxIds :
             /\ Mapped(x)
             /\ cur' = x
             /\ Connect(p, x, [cs EXCEPT ![x] = IF cur = None THEN NewCtx("Offline")
                                                ELSE [@ EXCEPT !.timeouts = 0]])
    \/ /\ op \in {"reconnect", "timeout"}  \* bound: no context left
       /\ cur = None /\ FreeCtxs = {}
       /\ ctxs' = cs /\ Stop(p) /\ UNCHANGED cur

(* The first stretch: status, the planned close, then close if connected.  *)
Disconnect(p, op, x) ==
    LET k == ctxs[x].conn
        cs == [ctxs EXCEPT ![x].status = Target(op)]
    IN \/ k = None /\ After(p, op, cs) /\ UNCHANGED clients
       \/ /\ k # None
          /\ ctxs' = cs
          /\ clients' = [clients EXCEPT ![k].planned = TRUE]
          /\ procs' = [procs EXCEPT ![p] =
                [pc |-> "closing", op |-> op, ctx |-> x, client |-> k]]
          /\ UNCHANGED cur

(* Mutant: the finally block does not set the status again. *)
ClosedKeepsStatus(p) ==
    /\ procs[p].pc = "closing"
    /\ LET x == procs[p].ctx
           k == procs[p].client
       IN /\ \/ clients' = [clients EXCEPT ![k] = Gone]
             \/ "close" \in Faults /\ UNCHANGED clients
          /\ After(p, procs[p].op, [ctxs EXCEPT ![x].conn = None])
    /\ UNCHANGED queue

(* The client is closed, or could not be, and the finally block clears the *)
(* context whatever it holds by now.                                       *)
Closed(p) ==
    /\ procs[p].pc = "closing"
    /\ LET x == procs[p].ctx
           k == procs[p].client
       IN /\ \/ clients' = [clients EXCEPT ![k] = Gone]
             \/ "close" \in Faults /\ UNCHANGED clients
          /\ After(p, procs[p].op, [ctxs EXCEPT ![x].status = Target(procs[p].op),
                                                ![x].conn = None])
    /\ UNCHANGED queue

(* checkIdleServers lists the idle servers first and puts them to sleep one *)
(* after the other.                                                         *)
ShouldSleep(x) == ctxs[x].status = "Online" /\ Lazy /\ ctxs[x].idle

CheckIdle(p) ==
    /\ procs[p].pc = "idle" /\ "sleep" \in Ops
    /\ cur # None /\ ShouldSleep(cur)
    /\ procs' = [procs EXCEPT ![p] = [IdleProc EXCEPT !.pc = "picked", !.ctx = cur]]
    /\ UNCHANGED <<ctxs, cur, queue, clients>>

SleepServer(p) ==
    /\ procs[p].pc = "picked"
    /\ Disconnect(p, "sleep", procs[p].ctx)
    /\ UNCHANGED queue

(* Mutant: the counter runs on and only one value of it triggers the probe. *)
RecordTimeoutOnce(p) ==
    /\ procs[p].pc = "idle" /\ "timeout" \in Ops
    /\ \E k \in ClientIds :
          LET x == clients[k].ctx IN
          /\ clients[k].st = "open"
          /\ ctxs' = [ctxs EXCEPT ![x].timeouts = @ + 1]
          /\ IF ctxs[x].timeouts + 1 # MaxTimeouts
             THEN UNCHANGED procs
             ELSE procs' = [procs EXCEPT ![p] = [IdleProc EXCEPT !.pc = "probe", !.ctx = x]]
    /\ UNCHANGED <<cur, queue, clients>>

(* recordTimeout, for a request that was forwarded over some open client:   *)
(* the last time-out in a row probes the server.                            *)
RecordTimeout(p) ==
    /\ procs[p].pc = "idle" /\ "timeout" \in Ops
    /\ \E k \in ClientIds :
          LET x == clients[k].ctx
              n == ctxs[x].timeouts + 1
          IN /\ clients[k].st = "open"
             /\ ctxs' = [ctxs EXCEPT ![x].timeouts = IF n <= MaxTimeouts THEN n ELSE @]
             /\ IF n < MaxTimeouts
                THEN UNCHANGED procs
                ELSE procs' = [procs EXCEPT ![p] = [IdleProc EXCEPT !.pc = "probe",
                                                                    !.ctx = x]]
    /\ UNCHANGED <<cur, queue, clients>>

Probe(p) ==
    /\ procs[p].pc = "probe"
    /\ \/ /\ ctxs' = [ctxs EXCEPT ![procs[p].ctx].timeouts = 0]  \* it answers
          /\ Stop(p)
          /\ UNCHANGED <<cur, clients>>
       \/ /\ Stop(p)                                             \* another error
          /\ UNCHANGED <<ctxs, cur, clients>>
       \/ /\ cur # None                                          \* it does not
          /\ Disconnect(p, "timeout", cur)
       \/ /\ cur = None
          /\ After(p, "timeout", ctxs)
          /\ UNCHANGED clients
    /\ UNCHANGED queue

(* addServer, with the launch configuration it had. *)
AddServer(p) ==
    /\ procs[p].pc = "idle" /\ "add" \in Ops
    /\ \E x \in CtxIds :
          /\ Mapped(x)
          /\ cur' = x
          /\ Connect(p, x, Initialize(x, FALSE))
    /\ UNCHANGED <<queue, clients>>

(* createTemporaryServer with sleep set: unless it is Online the server is  *)
(* declared Sleeping, even one that is being connected.                     *)
CreateSleeping(p) ==
    /\ procs[p].pc = "idle" /\ "create" \in Ops /\ Lazy
    /\ \E x \in CtxIds :
          /\ Mapped(x)
          /\ cur' = x
          /\ LET cs == Initialize(x, FALSE) IN
                ctxs' = IF cs[x].status = "Online" THEN cs
                        ELSE [cs EXCEPT ![x].status = "Sleeping"]
    /\ UNCHANGED <<queue, clients, procs>>

(* reconnectServer, and addServer with another launch configuration. *)
ReconnectServer(p) ==
    /\ procs[p].pc = "idle" /\ "reconnect" \in Ops
    /\ IF cur # None
       THEN Disconnect(p, "reconnect", cur)
       ELSE After(p, "reconnect", ctxs) /\ UNCHANGED clients
    /\ UNCHANGED queue

(* removeServer writes its log entry before it disconnects. *)
RemoveServer(p) ==
    /\ procs[p].pc = "idle" /\ "remove" \in Ops
    /\ cur # None
    /\ procs' = [procs EXCEPT ![p] = [IdleProc EXCEPT !.pc = "log", !.ctx = cur]]
    /\ UNCHANGED <<ctxs, cur, queue, clients>>

RemoveLogged(p) ==
    /\ procs[p].pc = "log"
    /\ Disconnect(p, "remove", procs[p].ctx)
    /\ UNCHANGED queue

-----------------------------------------------------------------------------
(* transport.onclose: the server ended the connection.  The close event of  *)
(* a planned close, or of a transport that was replaced, is ignored.  The   *)
(* modern client has no transport.                                          *)
TransportCloses(k) ==
    /\ clients[k].st # "closed"
    /\ ~Modern
    /\ clients' = [clients EXCEPT ![k] = Gone]
    /\ LET x == clients[k].ctx IN
          ctxs' = IF clients[k].planned \/ ctxs[x].conn \notin {None, k}
                  THEN ctxs
                  ELSE [ctxs EXCEPT ![x].status = Broken, ![x].conn = None]
    /\ UNCHANGED <<cur, queue, procs>>

(* IDLE_TIMEOUT passes without a request, of which only a lazy server that  *)
(* is Online is ever asked.                                                 *)
GetsIdle ==
    /\ cur # None /\ ~ctxs[cur].idle
    /\ Lazy /\ ctxs[cur].status = "Online"
    /\ ctxs' = [ctxs EXCEPT ![cur].idle = TRUE]
    /\ UNCHANGED <<cur, queue, clients, procs>>

ServerStep(p) ==
    \/ Restore(p) \/ Ready(p) \/ Prep(p) \/ Dial(p) \/ Redial(p) \/ Ping(p) \/ Caps(p)
    \/ Closed(p) \/ SleepServer(p) \/ Probe(p) \/ RemoveLogged(p)

ServerNext ==
    /\ \/ \E p \in Procs :
             \/ Ensure(p) \/ CheckIdle(p) \/ RecordTimeout(p)
             \/ AddServer(p) \/ CreateSleeping(p) \/ ReconnectServer(p) \/ RemoveServer(p)
             \/ ServerStep(p)
       \/ \E k \in ClientIds : TransportCloses(k)
       \/ GetsIdle
    /\ UNCHANGED kind

ServerSpec == ServerInit /\ [][ServerNext]_serverVars

(* Every await ends: queries, connection attempts, pings and closes have    *)
(* time-outs.  Nothing is assumed of who starts operations.                 *)
ServerFairness == \A p \in Procs : WF_serverVars(ServerStep(p) /\ UNCHANGED kind)

-----------------------------------------------------------------------------
(* Properties.                                                             *)

ServerTypeOK ==
    /\ ctxs \in [CtxIds -> Ctx]
    /\ cur \in CtxIds \cup {None}
    /\ queue \in Procs \cup {NoProc}
    /\ clients \in [ClientIds -> Client]
    /\ procs \in [Procs -> Proc]
    /\ kind \in Kinds

(* A server that ensureServerAvailable calls Online has a connection to    *)
(* forward the request to, however its closing, its reconnection and the   *)
(* transport's close event interleave.  (The modern connection is published *)
(* without its status, so the code does not establish this for it.)         *)
OnlineHasConnection ==
    ~Modern => \A x \in CtxIds : ctxs[x].status = "Online" => ctxs[x].conn # None

(* No context is left Connecting by an operation that ended: requests      *)
(* would wait for it in vain, and createServerConnection would refuse to   *)
(* start it again.                                                         *)
ConnectingIsUnderWay ==
    \A x \in CtxIds : ctxs[x].status = "Connecting" =>
        \E p \in Procs : procs[p].pc \in Starting /\ procs[p].ctx = x

(* The wait queue holds the promise of a start that is under way, and      *)
(* whoever joined it is waiting for that start: no key is left behind for  *)
(* later requests to wait on.                                              *)
QueueIsUnderWay ==
    /\ queue # NoProc => procs[queue].pc \in Starting
    /\ (\E p \in Procs : procs[p].pc = "join") => queue # NoProc

(* Every start that others rely on, by the status or by the queue, is under *)
(* way (createServerConnection and its callers).                            *)
StartsAreUnderWay == ConnectingIsUnderWay /\ QueueIsUnderWay

(* Every operation ends: a request that joined the start of another one,   *)
(* or waits for a server it did not start, is answered.                    *)
OperationsEnd == \A p \in Procs : procs[p].pc # "idle" ~> procs[p].pc = "idle"

(* How far an operation is from its end. *)
Rank(pc) ==
    CASE pc \in {"restore", "picked", "log", "probe"} -> 7
      [] pc = "closing" -> 6 [] pc = "prep" -> 5 [] pc = "dial" -> 4
      [] pc \in {"redial", "ping"} -> 3 [] pc = "caps" -> 2
      [] pc \in {"join", "ready"} -> 1 [] OTHER -> 0

(* No operation runs in circles: each step of its own brings it closer to   *)
(* its end, and no step of another one, and no close event, takes it back   *)
(* (createServerConnection with its fallback, disconnectServerContext and   *)
(* the reconnection after it).                                              *)
OperationsProgress ==
    [][\A p \in Running : /\ ServerStep(p) => Rank(procs'[p].pc) < Rank(procs[p].pc)
                          /\ Rank(procs'[p].pc) <= Rank(procs[p].pc)]_serverVars

(* docs/api/ADMIN_API.md says of a Sleeping server that it has "currently   *)
(* no active connection": with no operation in flight, no client of a       *)
(* sleeping context is open.                                                *)
SleepingIsDisconnected ==
    Running = {} /\ cur # None /\ ctxs[cur].status = "Sleeping" =>
        \A k \in ClientIds : clients[k].ctx = cur => clients[k].st # "open"
=============================================================================
