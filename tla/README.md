# A TLA+ model of peta-core

peta-core is a gateway between MCP clients and downstream MCP servers. It
authenticates clients, keeps their sessions, starts, wakes up, puts to sleep and
reconnects the servers, forwards requests to them, asks people to approve the
tool calls that a policy calls dangerous, and caches results. It is one Node.js
process with a PostgreSQL database: code runs without interruption up to the next
`await`, and between two awaits anything else may run. Nearly every interesting
behaviour comes from that: a decision is taken on state that was read before an
await and applied after it.

The models translate `src/src/`; the paths below are relative to it. One action is
one stretch of code between two awaits (or one SQL statement); its guard is what
the code tests in that stretch. `PROJECT.json` maps every definition to its lines.

## 1. Inventory

| component | state | operations | interacts with |
|---|---|---|---|
| approval queue (`mcp/services/ApprovalService.ts`, `repositories/ApprovalRepository.ts`, callers in `mcp/core/ProxySession.ts` and `mcp/modern/ModernMcpController.ts`) | rows of `approval_request`; the local state of each tool call | find, count, insert or get, wait, decide, claim, heartbeat, mark, expire, recover stale | policy engine (who needs approval), server lifecycle (the call), sockets (notification) |
| server lifecycle (`mcp/core/ServerManager.ts`, `ServerContext.ts`) | contexts, status, connection, transport, wait queue, idle time, time-out count | add, wake up, connect, fall back, publish, sleep, probe, reconnect, remove, restore, transport close | everything that forwards a request |
| resource subscriptions (`ServerManager.ts`, `ProxySession.ts`) | `SubscriptionState` per resource: subscribers, downstream flag, request in flight | subscribe, unsubscribe, close, lose, restore | server lifecycle, sessions |
| client sessions (`mcp/core/SessionStore.ts`, `ClientSession.ts`, `middleware/AuthMiddleware.ts`, `mcp/MCPRouter.ts`) | session, proxy, event-store and user maps; tombstones | authenticate, create, resume an id, terminate, sweep, remove per user, remove all | temporary servers, event store, subscriptions |
| result cache (`mcp/core/cache/`) | entries, admission counters, namespace versions, flights | look up, coalesce, count, store, purge, evict | proxy session, admin API, resource updates |
| event store (`PersistentEventStore.ts`, `EventCacheManager.ts`, `EventCleanupService.ts`) | event rows, per-stream cache | store, replay after an anchor, expire | sessions |
| token refresh (`ServerContext.ts`) | token, timer | refresh, retry, stop | server lifecycle |
| policy engine (`mcp/services/PolicyEngine.ts`) | cache of policy sets per server | evaluate, fetch, clear | approval queue |
| request ids (`RequestIdMapper.ts`, `GlobalRequestRouter.ts`) | client, proxy and downstream ids | register, map, remove, clean up | progress, cancellation |
| OAuth server (`oauth/`, `security/OAuthTokenValidator.ts`) | codes, access and refresh tokens, clients | authorize, exchange, refresh, revoke, validate | sessions |
| sockets (`socket/`) | connections per user, pending requests | connect, notify, request, time out | approval queue, admin |
| logs (`log/`) | queue, sync cursor | enqueue, flush, re-queue, sync | all |
| user and admin operations (`user/`, `controllers/`) | rows of users and servers | configure, enable, disable | lifecycle, sessions |
| stateless endpoint (`mcp/modern/`) | streams, bus listeners, subscriptions per context | route, listen, publish, roll back | lifecycle, cache, policy engine |
| capabilities and permissions (`mcp/core/ClientSession.ts`, `user/`, `controllers/handlers/UserHandler.ts`) | rows, copies in sessions, config of contexts | update, set, get, refresh | sessions, lifecycle |
| rate limit and IP list (`middleware/`, `security/`) | counters per user, cached list | count, forget; edit, reload, match | every request |
| tunnel (`services/Cloudflared*.ts`), start-up and shutdown (`index.ts`) | process handle | start, stop | not modelled, see section 5 |
| discovery, skills, backup, auth strategies, transports, cryptography | | text search, files, HTTP, encodings | not modelled: pure I/O or ranked text |

What is hard in them, and what would make them correct:

* *Approval queue.* Duplicate calls must share one request although finding and
  inserting are two statements; an approval must be spent once although several
  handlers see it, processes crash between claiming and recording, time-outs are
  retried and a sweeper gives up on slow executions; every call must be answered
  and no row may hang. Three clocks are compared (the application's, the
  database's and the time of an earlier statement).
* *Server lifecycle.* Wake-up, sleep, reconnect, removal and the close event of a
  transport all write the same context across awaits. Requests that join a start
  must be released, no context may be left Connecting, and Online must mean that
  there is a connection.
* *Subscriptions.* Many sessions share one downstream subscription and one request
  in flight, on a connection that comes and goes. Nobody who was told that it is
  subscribed may be dropped, and no flag may outlive its connection.
* *Sessions and capabilities.* The store is keyed by an id that a client may use
  again; removals delete by id after an await. What a session may call is computed
  from copies of three layers that are written in different requests.
* *Result cache and policies.* A store happens after the answer; purges must win
  over it, and sharing must stop at the identity of the requester. Policies are
  cached for a time and cleared while fetches are under way.
* *OAuth.* Codes are claimed, refreshed and revoked by requests that read, check and
  write in separate queries. A code must be exchanged once, a revocation must last.
* *Admin operations.* Every handler is a series of queries, closes and starts, any
  of which may fail, next to others on the same rows. What runs must be what the
  rows say, and there must be one owner.
* *Events, request ids, streams.* Ids are shared by sessions and by connections;
  answers, progress, cancellations and replays must find their own.
* *Token refresh, logs, sockets.* Timers re-arm themselves after failures, rotated
  tokens must be saved before they are lost, batches are queued again, promises must
  settle when the other side goes away.

`hazards` in `PROJECT.json` lists these at their lines.

## 2. Modules

| module | models | checked by |
|---|---|---|
| `ApprovalQueue` | the approval queue with both kinds of caller | `approval` |
| `ApprovalLife` | what the queue promises of a request (abstract) | `approval`, as a refinement |
| `ServerLifecycle` | one downstream server and the operations on it | `downstream`, `server_liveness`, `server_sleep` |
| `ResultCache` | one cached request | `downstream` |
| `ResourceSubscriptions` | one resource of one server context | `subscriptions` |
| `Sessions` | `SessionStore` with its callers | `sessions` |
| `Capabilities` | what a session may call: the three layers | `sessions` |
| `OAuth` | the authorization server | `oauth` |
| `OAuthGrants` | what it promises of a grant (abstract) | `oauth`, as a refinement |
| `AdminServers` | admin and user requests about servers | `admin`, `admin_update` |
| `AdminUsers` | admin requests about users, the proxy, backups | `admin` |
| `Sockets` | devices, server requests, session lists, decisions | `session_services` |
| `EventStore` | resumable streams | `session_services` |
| `RequestRouting` | request ids, retries, progress, cancellation | `session_services` |
| `AccessGuards` | rate limit and IP allow list | `session_services` |
| `Logs` | queue, batches, synchronisation | `gateway_services` |
| `PolicyCache` | cached policy sets, edits, ranking of rules | `gateway_services` |
| `TokenRefresh` | timers, strategies, saves of rotated tokens | `gateway_services`, `token_persist` |
| `ModernStreams` | streams, subscriptions and updates of the stateless endpoint | `gateway_services` |
| `ModernGateway` | which endpoint takes a request and which server gets it | `gateway_services` |
| `ApprovalQueueProofs`, `DownstreamProofs` (`ServerLifecycle`, `ResultCache`), `SubscriptionProofs`, `SessionsProofs` (`Sessions`, `Capabilities`), `OAuthProofs`, `AdminProofs` (`AdminServers`, `AdminUsers`), `SessionServicesProofs` (`Sockets`, `EventStore`, `RequestRouting`, `AccessGuards`), `GatewayProofs` (`ModernStreams`, `ModernGateway`, `TokenRefresh`, `Logs`, `PolicyCache`) | their theorems, section 4 | TLAPS |
| `MC_*` | constants, symmetry and parts for TLC | |

`MC_Downstream`, `MC_Sessions`, `MC_Admin`, `MC_SessionServices` and
`MC_GatewayServices` check several modules in one run. The modules of such a run
share no state in the model; a variable `part`, fixed in the initial state, says
which of them (and which of its inputs) a behaviour is about, so that the run is the
union of the questions and not their product. For `MC_Downstream`, `MC_Sessions` and
`MC_Admin` it is a theorem that a behaviour of the union is one of each module
(section 4). Where components do meet, the
meeting point is inside a module: `Sessions` contains authentication, the event
stores and temporary servers of a session, `AdminServers` the contexts that handlers
start and stop, `AdminUsers` the sessions they remove, `ModernStreams` the result
cache that an update purges, `ApprovalQueue` both protocols.

Definitions named as mutants ("Mutant: ...") are faulty variants of the definition
that follows them. No specification uses them; each shows that a property would
notice that mistake.

Some modules have *history variables* that say what has happened. They serve two
ends: to state what a client was told (`acked`, `told`, `shown`, `got`), and to
name the circumstances in which the code is known not to keep a property
(`mixed`, `unclear`, `cUnclear`, `missed`, `lgLate`, `trExcuse`, `pcRaced`,
`ipExcused`, `msBad`). The latter are set by exactly those overlaps, and section 5
lists what happens in them.

### ApprovalQueue, ApprovalLife

`rows` is the table. A row has the columns the statements test or write: status,
request hash, decision, result (a payload, or a preview if it was too large), and
its three times as *distances* (`ttl`, `idle`, `age`), each of which stops where no
comparison can tell it from a later one, so that `Tick` is always possible and time
never ends. `calls` holds the local variables of the handlers; `Modern` calls are
served by the stateless controller, which does not wait and has no heartbeat, the
others by a session. `runs` is a history variable: how often a row's tool was
forwarded downstream.

A call goes `find`, `countHash`, `countTool`, `insert`, on a conflict `existing`
and `expire` (the retry loop of `createOrGetPending`), then `wait`, `claim`,
`claimed`, `running`, and `markOk`, `markFailed` or `caught`. `DbFails` aborts it
at any statement whose failure is not swallowed (at `claimed` the claim was
committed and its answer lost), the `ok` parameter of the marking actions is a
failure that is, and `Crash` ends all handlers and leaves the table. `CatchError`
contains a detail of the source: the id of the approval is set to null before the
retry condition tests it, so a gated call that timed out starts over and asks for a
new approval. `Skew` is the difference between the clocks.

The insert is atomic and refuses a second active row of a hash, as the partial
unique index does; everything before and after it interleaves.

`ApprovalLife` knows only the request: asked for, decided, taken, used, finished,
lapsed, given up. `LifeKept` is its specification under the mapping at the end of
`ApprovalQueue`: a row's status, its hash and `runs`. It says in one place what the
handlers, deciders, sweepers and crashes together may do to a request, and that a
request that was given up may still be used, once, by the slow handler that took it.

### ServerLifecycle

`ctxs` are the `ServerContext` objects and `cur` the one in the map, because an
operation keeps the object it captured even if the map has another by now.
`clients` are the downstream clients: which context they were made for, whether
their close is planned, and whether they are the SSE fallback. `procs` are the
asynchronous operations; `queue` is the one whose promise is in `serverWaitQueues`.
`kind` is the configuration: lazily started, eagerly started (with an HTTP URL that
may fall back to SSE), or the stateless protocol, which is published before its
status and has no transport. Starting is `prep`, `dial`, `redial`, `ping`, `caps`;
any of them may fail. `closing` is the await inside `closeConnection`; its finally
block clears the context whatever it holds by then, and so does the model.

### ResourceSubscriptions

`objs` are `SubscriptionState` objects, again apart from the map (`cur`), because a
session that waits keeps the object after the key was deleted. `flight` is the
shared promise. `server` is what the downstream server believes. `acked` and `seen`
are history: who was told that it is subscribed, whether anybody left and whether a
connection was lost. The client library rejects the requests in flight when a
connection closes, before anything else runs; the model does so in `Close` and
`Lose`.

### Sessions

Session objects have an identity of their own, so that two sessions with one id can
be told apart; `store`, `events`, `index` and `tombs` are the maps. `tasks` are the
requests, sweeps and admin operations under way. A removal is `cleanup` (await),
`Remove` (delete by id), `CloseTemps` (await), `Close`. `raced` is history: the
session was stored while all sessions of its user were being removed, which is the
one way in which it is lost to the user's set. Which sessions are inactive or
expired is left open: any may be.

### ResultCache

One operation of one entity with one set of parameters; other keys do not
interact. A key is the identity and the versions of the namespaces. The versions
are read one by one (`ReadVersion`), so a lookup may hold a mix. A value remembers
for whom and under which versions its fetch began (history). Two things stand for
much code: `Faults` are the calls of the store that throw, and `Evict` is expiry,
eviction and the deletion of corrupt entries.

### Capabilities

One managed server and one of its tools, on which the three layers can be silent,
on or off: the server's configuration (`cStored` in the row, `cConf` in the context,
which a capability answer may have written into), the administrator's permissions
and the user's preferences, each in the row (`cRow`) and in the session (`cSess`).
The handlers are `updateUserPermissions`, reading and setting capabilities over
HTTP and the socket, the refresh of a session and the authentication of a new one;
each reads, computes and installs in separate steps. `cKnown` is what the client was
last told of the tool; `cUnclear` are users whose handlers overlapped.

### OAuth, OAuthGrants

`OAuth` has the tables of clients, codes and tokens, the desk flows in memory and
the requests in flight. Every database call is a step: an exchange looks up the
code, claims it with a conditional update and inserts the tokens; a refresh reads
the row and then writes the new access token and scopes to it, whatever else
happened to the row, but not its revocation; deletion of a client takes its codes
and tokens with it. `OAuthGrants` knows only the grant: consent,
claim, issue, reissue, revoke, forget. `GrantsKept` is its specification under the
mapping at the end of `OAuth`: a code's row gives the phase, the token rows made for
it the number issued, their scopes and whether they are revoked. It is the one place
where single use, scope and finality of revocation are stated together.

### AdminServers, AdminUsers

`AdminServers` has the server rows, the contexts of `ServerManager` with the launch
configuration of their entity and of their connection, the temporary servers, and
the launch configurations and preferences of users in rows and in sessions. The
handlers start, stop, update, reauthorize, create, delete and bulk-delete servers,
and configure and unconfigure templates. Every query, close and start is a step, and
may fail. `AdminUsers` has users, proxy rows, the last backup and sessions; the
handlers create, update, disable and delete users, create and reset the proxy,
back up and restore. Table locks and the conditional insert of the first owner are
single steps, as in the transactions.

### Sockets

Handshake, connection and disconnection of devices, `sendRequest` with its timer,
the coalesced push of the session list (`push` is the promise in flight), decisions
on approvals with their acknowledgement, and the shutdown of the server.

### EventStore

Event `n` is the `n`-th that was made; its row gets the next id when it is inserted.
`cache` holds the entries of a session with the order in which they were made; the
smallest id of a full stream and the oldest entries of a full cache make room. Clients lose their
connection and resume after their last event; `replayEventsAfter` looks for the
anchor, queries the rows after it and sends them by their ids while other events are stored,
expire and are cleaned up. Events that failed to be stored have no row.

### RequestRouting

The handler of a call registers a proxy id, waits for the server and the approval,
captures a connection, sends, and on a time-out retries. The four maps of
`RequestIdMapper` are the variables of the same names; an entry may expire under a
request. Request numbers of a connection start at zero again when it is replaced.
Cancellations and progress look up the maps as the code does.

### AccessGuards

The counter of one user (time as distance, as in `ApprovalQueue`), with the limit as
an input of each request, and as history what was admitted in the last `a` ticks,
for each `a` within a window; the allow list with its loads, edits, restores and
checks. Addresses have two bits; an entry is a block or a single address, and
`isIpMatch` compares masked numbers.

### Logs, PolicyCache, TokenRefresh

`Logs`: a batch is a set of saves that end one by one; an id is taken from the
sequence before the row is visible; the synchronisation reads, sends, marks; the
process stops in order, or crashes, and starts again. `PolicyCache`: the content of
a scope is the number of its edits; an evaluation reads the two scopes one after the
other and installs what it read; an editor retries on a version conflict; the pure
ranking of rules (`EvaluateSets`) is compared with its definition, over all sets of up
to two and one rules in the run and over all sets in the proof. The stable sort is the
one permutation of the rules in their order. `TokenRefresh`: generations of strategies, armed timers,
runs of the refresh that outlive a stop, saves of launch configurations that read,
merge and write, a neighbour server whose configuration is in the same column, and a
provider that accepts only the last refresh token.

### ModernStreams, ModernGateway

`ModernStreams`: a stream subscribes to the contexts of its filter one by one, is
rolled back if one fails, listens on the bus, and is closed by its client or by
expiry, while contexts are removed under it; an update purges the cache, then is
published to streams and to sessions (with the deduplication by millisecond).
`ModernGateway`: which of the two endpoints takes a request, from its headers and
the session's existence; authentication, wake-up, policy and the sending, each with
a second look-up of the context, while contexts are removed, replaced and changed.
Names are resolved by the id of the context in them.

## 3. Runs

Passing runs, with their properties. An invariant that is a conjunction of named
parts is listed with its parts; the comment above each part says what code it is
about.

* `approval`: two calls, one of a session and one stateless, of one request, with
  room for three rows, a retry, a conflict, a clock skew and all failures; with
  fairness. `RequestsSound`: duplicate calls share one request (`OneActivePerHash`),
  an approval is spent once (`OneRunPerApproval`), and who is given the stored result
  gets that of this request (`ReplayIsOfTheRun`). `BoundedOvershoot`: the limit per hash
  is overrun by at most one row per other handler. `TerminalIsFinal`. `LifeKept`:
  the refinement of `ApprovalLife`. `HandlersProgress`: each step of a handler brings
  its call closer to the answer and no other step takes it back. `NothingHangs`: every call returns and every row ends.
* `downstream`: two operations of every kind, with every fault, on a lazy or an eager
  server (`OnlineHasConnection`; `StartsAreUnderWay`: nothing is left Connecting or
  queued by a start that is over), or two requests of three users, one of whom has
  an identity in the scope of the cache policy, two namespaces and a purge
  (`ResultsSound`: nothing from before a purge, `FreshAfterPurge`, or of somebody else,
  `SameIdentity`; `NobodyStranded`).
* `server_liveness`: the same operations on all three kinds of server: every
  operation ends (`OperationsEnd`), also one that joined another's start, and each of
  its steps brings it closer to that (`OperationsProgress`).
* `subscriptions`: two sessions, all operations: `FailuresKeepSubscribers`,
  `RestoreCovers`, `SubscribersAnswered` and `StatesSound` (the flag is of this
  connection as long as connections end as planned; no state is kept for nobody).
* `sessions`: two users with a token each, two tasks, two ids and three session
  objects, every kind of removal: `OneOpenPerId`, `ReuseKeepsOwner`, `MapsAgree` (no
  ghosts in the user index, every stored session indexed, no orphan event store).
  And two handlers on the capabilities of one user, or one at a time for two users
  while the server changes: `LayersHold` (each layer can only restrict; what is shown
  as on can be called), `ClientsAreTold`.
* `oauth`: two clients, one code, two requests at once: `GrantsKept` (the refinement
  of `OAuthGrants`), `TokensSound` (a token whose revocation was answered is not
  accepted later), `FlowKeepsOutcome` (two callbacks of a desk flow).
* `admin`: two requests at once on a managed server or a template, or on users and
  tables: `ServersSound` (nothing runs that should not, however handlers were cut
  short by errors), `UsersSound` (one owner and one proxy; sessions follow the rows),
  `OwnerKept` (an owner is neither disabled nor deleted).
* `session_services`: `DevicesServed` (no request is pending for an offline user, what
  devices show is the store's list, an approval is acknowledged as decided once);
  `ResumptionFaithful` (an id that was returned can be resumed from until it expires,
  no foreign events, a replay is complete); `RequestsKeptApart` (the four maps agree,
  no progress after the end, a cancellation names its own request); `RateHonoured`
  (any stretch of a window admits at most `2 * limit - 1` requests, and who waits
  for `Retry-After` is admitted); `ListEnforced` (the list in memory is the table's,
  and addresses are decided by its blocks).
* `gateway_services`: `LogsKept` (no entry is lost but by the end of the process; what
  is marked synchronised was sent); `PoliciesFollowed` (a hit is less than a TTL old,
  a clear is final, the first rule decides); `TokensRefreshed` (one chain of timers,
  and the token the provider accepts is saved or about to be); `StreamsServed`
  (nothing is held by a stream that ended, updates find a fresh cache, reach only who
  may see them and all sessions that subscribed); `CallsRouted` (what is listed can
  be called, a named request reaches its server, each request has one era).

Runs that end in a counterexample, each a disagreement between the code and what
the repository says of it:

* `server_sleep`: a server is woken up while it is being put to sleep. The finally
  block of `closeConnection` then drops the new connection: the server is Sleeping,
  its client stays open, and the request that woke it finds no connection
  (`docs/api/ADMIN_API.md` says of Sleeping "currently no active connection").
* `admin_update`: an update of the launch configuration of a running server does not
  restart it: the row is written first, and the comparison with the row then finds no
  change (`docs/api/ADMIN_API.md`: "will trigger reload or restart").
* `token_persist`: a save of rotated tokens that fails is swallowed below, so the
  strategy is marked as persisted although `ServerContext.ts:616` says "flag remains
  true, will retry next time".

### Bounds

* Two handlers, operations, sessions, tasks or requests at once. Each hazard is an
  interference of two; a third adds states and no new kind of overlap. For most
  safety properties the theorems of section 4 cover any number.
* Times in the approval queue are one unit each. The comparisons are with "over"
  and "not over"; the skew makes the clocks disagree by a whole unit.
* `MaxRows` of the approval queue: `Begin` asks for enough free rows for everything
  that calls in flight may still insert, so that no statement ever lacks a row, and
  the bound only stops new calls. `MaxContexts`, `MaxClients` and `MaxStates` count
  objects that are still referred to; one that nothing refers to is used again, as a
  garbage collector would.
* `MaxSids`, `MaxObjs`: two ids and three objects are enough for an id to be used
  twice while a session of another user exists.
* `MaxTimeouts = 1` in the lifecycle runs makes every time-out probe the server;
  `MaxPurges = 1` lets either namespace be purged at any moment.
* `oauth`: one code, so that both requests contend for it; two rows and two access
  tokens, so that a second exchange and a refresh would show; two scopes, so that a
  consent can be narrowed.
* `session_services`: three events, a cache of one and one client that resumes, so
  that an event is stored before, during and after a replay and the cache overflows;
  events are also stored for another session with the same stream; one retry and two
  connections, so that an id of the first connection is used again on the second;
  limits of zero and two and a window of five ticks with two to the second, so that
  rounding matters; four addresses and three ids of list entries.
* `gateway_services`: two log entries and three ids (one is saved again after a
  crash), a batch of two and a synchronisation of one; a TTL of one tick and two
  edits; priorities below and above that of a rule without one; two strategies, two
  rotations and two timers, with withdrawals of the token or else with saves of
  another server; two streams, three versions, two milliseconds; two servers and
  three context ids, so that a server is replaced and a name outlives its context.
* Capabilities: documents that say nothing, turn the tool off or turn the server off.
* A behaviour that has used up its bounded objects or events stops, and one at rest
  is also a legal end: `CHECK_DEADLOCK FALSE` in `sessions`, `admin`,
  `session_services` and `gateway_services` (and the violation runs of the last two
  modules). The other runs check for deadlock.
* Symmetry over calls, operations, tasks, handlers and requests, which nothing tells
  apart. No run that checks liveness uses it.

### Fairness

`approval`: handlers go on (an await ends: statements and downstream requests have
time-outs, `APPROVAL_WAIT_TIMEOUT_MS` bounds the wait), the sweeper's interval timer
keeps firing, time passes. Nothing is assumed of clients, deciders, heartbeats or
the success of statements. `server_liveness`: every step of an operation that was
started is eventually taken; nothing is assumed about who starts operations or
about success. `subscriptions`: requests are answered, well or badly (strong
fairness, since connections come and go under them), and a lost connection is
established again, which the next request to the server does. The other runs check
safety and assume nothing.

## 4. Proofs

Eight modules, each beside the modules it is about, prove for every value of the
constants what the runs check on small instances: any number of calls, sessions,
servers, users, requests in flight, rows and versions, any time constants, as long
as the assumptions below hold. `theorems` in `PROJECT.json` lists the results. They
are 46; 37 of them state a property that a run checks.

All follow one pattern. The property is strengthened to an inductive invariant, a
conjunction of named parts that was first checked by TLC; a lemma shows that a step
of one handler (`RequestStep`, `LookStep`, `BeginStep`, ...) keeps it if the new
record of the handler and what it wrote satisfy a few conditions; each action is then
one lemma that establishes those; and a last step combines them. What the
strengthening has to say is nearly always the same thing: what a handler that read
something before an await may still rely on after it.

### ApprovalQueueProofs

* `TypeCorrect`: the type alone is not inductive: `ExpireAndRetry` counts up to
  `MaxConflicts`, which needs that a call at `expire` has a retry left. `TypeInv` adds
  this (`RetriesLeft`).
* `RequestsStaySound` (`RequestsSound`) has three lemmas.
  `ActiveUnique` (`OneActivePerHash`): only `Insert` makes a row active, and it finds
  none of that hash; every other step activates nothing (`NoNewActiveKeeps`).
  `ApprovalSpentOnce` (`OneRunPerApproval`): the property says nothing of handlers, so
  it is strengthened to `OwnInv`: a call past the claim has a row (`RowKnown`); a row
  before the claim has not run and nobody holds it (`Unclaimed`); a row past the
  decision was approved (`Granted`); a row has at most one holder (`OneOwner`), which
  has not run it yet at `claimed` (`NotYetRun`), and no row ran twice (`OneRun`). Stale
  recovery and late marking take a row out of EXECUTING while somebody still holds it,
  which is why holding is a fact about calls and not about the row's status.
  `ReplaysAreOfTheRun` (`ReplayIsOfTheRun`): rows keep their hash, results are final
  and runs are not undone (`Lasts`), so what a waiting call captured stays true.
* `TerminalStays` (`TerminalIsFinal`, an action property): every statement that writes
  a row asks for a status that is not terminal.
* `OvershootIsBounded` (`BoundedOvershoot`): the bound becomes inductive when the
  handlers that have passed the check are counted in (`LimitInv`).
* `QueueImplementsLife` (`LifeKept`): the refinement. Insertion, decision, claim,
  forwarding, marking and the two sweeps map to the actions of `ApprovalLife`, one lemma
  each (`InsertIsAsk`, `ClaimIsTake`, ...); all else changes neither status, hash nor
  runs. That a row is marked as executed only after its run is `OwnInv` and `ReplayInv`;
  that a call inserts the hash it was made with is `HashKnown`.
* `HandlersComeCloser` (`HandlersProgress`, an action property): attempts, rounds of the
  conflict loop and points of the code decrease in lexicographic order. `TypeOK` bounds
  the first two, so a call takes finitely many steps.

### DownstreamProofs

* `ServerTypeCorrect`, `OnlineConnected` (`OnlineHasConnection`), `StartsStayUnderWay`
  (`StartsAreUnderWay`) from `ServerInv`: operations know the context and the client
  they captured, clients that are not closed know their context, and every context
  that is Connecting has an operation that has yet to change its status. A stateless
  server is Online before its connection is published, hence `Starters`.
* `OperationsComeCloser` (`OperationsProgress`, an action property): settling an
  operation moves it and everyone who joined it forward (`Moved`); a close event moves
  nobody.
* `CacheTypeCorrect`, `ResultsStaySound` (`ResultsSound`), `ObserversAreServed` (`NobodyStranded`) from `CacheInv`: an entry
  is the result of the identity in its key and not older than the versions in it, a
  request has read its versions since it began (one by one), and flights correspond to
  the requests that fetch and observe under their key.
* `DownstreamComposes`: a behaviour of `MC_Downstream` is one of `ServerLifecycle` and
  one of `ResultCache`; hence `DownstreamTypeCorrect` (`TypesOK`).

### SubscriptionProofs

`StatesStaySound` (`StatesSound`), `SubscribersAreKept` (`FailuresKeepSubscribers`) and
`RestoringCovers` (`RestoreCovers`, an action property) from `SubsInv`. The part that is
not obvious is `FreshInv`: while sessions of an earlier connection are still to be
served, no other subscription can have succeeded, so that a restoring that fails and
takes the connection down takes nobody's subscription with it.

### SessionsProofs

* `SessionsTypeCorrect`, `IdsStayUnique` (`OneOpenPerId`), `OwnersKeepIds`
  (`ReuseKeepsOwner`) and `MapsStayInAgreement` (`MapsAgree`) from `SessionsInv`: maps
  hold objects under their own ids, a tombstone excludes an open session, and a removal
  of all sessions of a user has listed every stored one that did not race with it
  (`TaskOK`), which is what dropping the user's set relies on.
* `CapTypeCorrect`, `LayersAlwaysHold` (`LayersHold`) and `ClientsAlwaysTold`
  (`ClientsAreTold`) from `CapsInv`: a session is as the row says while nobody is
  changing it, and a handler that is alone has in hand what is in the row.
* `SessionsCompose`: a behaviour of `MC_Sessions` is one of `Sessions` and one of
  `Capabilities`; hence `SessionsTypesHold` (`TypesOK`).

### OAuthProofs

* `TokensStaySound` (`TokensSound`) from `OAuthInv`: every row came of a code that is
  spent, within its scopes, and is the one its access token was generated for; two
  requests never issue for one code; a validation that began after a revocation sees a
  dead row.
* `ServerImplementsGrants` (`GrantsKept`): the refinement. Initial states map to
  initial states, and under `OAuthInv` every step maps to a step of `OAuthGrants` or a
  stutter: claim, insertion, refresh, revocation and deletion to claim, issue, reissue,
  revoke and forget; all else changes neither the code's row nor the rows made for it.
* `OutcomeIsKept` (`FlowKeepsOutcome`, an action property).

### AdminProofs

* `UsersStaySound` (`UsersSound`) and `OwnerIsKept` (`OwnerKept`, an action property)
  from `UsrInv`: `Stage` says how far row and session of a user are apart while a
  single request works on the user, and `RowsOK` holds of the table and of the backup,
  because a restore makes the one the other.
* `ServersStaySound` (`ServersSound`) from `SrvInv`: for a server that is not `mixed`,
  one request at most works on it, `Along` says what this request has established at
  each of its steps (closed before disabled, enabled before added, no instances once
  they were closed, ...), and `Snapped` says that a request about to write back the
  configurations of a user has read all there are, but for its own template. The last
  one holds because requests that could overwrite each other are entangled.
* `AdminComposes`: a behaviour of `MC_Admin` is one of `AdminServers` and one of
  `AdminUsers`.

### SessionServicesProofs

* `DevicesAreServed` (`DevicesServed`) from `SocketsInvariant`: what was read for a push
  is current unless a change was announced since, and an approval is undecided, decided
  by exactly one handler that will acknowledge it, or acknowledged (`DecisionStage`).
* `RequestsStayApart` (`RequestsKeptApart`) from `RoutingInvariant`: the maps mirror each
  other, ids are given out in order on each connection, and what is recorded for a
  request is on the wire for that request and no other (`Owned`).
* `ResumptionStaysFaithful` (`ResumptionFaithful`) from `EvInv`: rows are of events that
  were made, and there is one as long as an id may be in use (`RowsInv`); the stream of
  a replay has no connection until the replay ends (`ReplayOK`), so that what it owes is
  sent or in its queue (`DueOK`); a cache keeps its two limits (`CacheFits`), because
  something goes whenever a limit is exceeded. That a least id and an oldest entry exist
  is `LeastNumber`, from the well-foundedness of the numbers.
* `RateStaysHonoured` (`RateHonoured`) from `RateInv`: what was admitted since a time
  within the window does not include the request the window began with, and with what
  came before it is one less than two full windows (`AdmittedInv`); a wait that was told
  lasts until the window ends (`ToldInv`).
* `ListStaysEnforced` (`ListEnforced`) from `IpInv`: a load whose rows were not changed
  since has those of the table (`CallOK`), and the list in memory is that of the table
  or a call that is not a request has yet to load it (`ListKept`). `MatchIsCover` is the
  arithmetic of the masks, for every width of addresses.

### GatewayProofs

* `StreamsAreServed` (`StreamsServed`) from `StrInv`: a stream subscribes exactly to what
  it holds and waits for (`HoldInv`); nothing older than what a stream was or will be told
  is in the cache or on its way there (`FreshInv`).
* `CallsAreRouted` (`CallsRouted`) from `GwInv`: an id is handed out once, and the
  contexts of a server only become younger (`NamedFor`, `HeldFor`).
* `TokensGoOn` (`TokensRefreshed`) from `RefreshInv`: one run or timer is left, and every
  save, request and strategy has the token that is accepted (`ValidKept`).
* `LogsStayKept` (`LogsKept`) from `LogInv`: what was taken for sending is all there was
  between the last id and the greatest taken, but for late rows (`SyncInv`).
* `PoliciesStayFollowed` (`PoliciesFollowed`) from `PolicyInv` and `BoundsInv`: what was
  read since a time was in force at that time or later (`InForce`), also when the two
  scopes are read apart. That the first rule decides (`FirstRuleDecides`) is about data:
  rules can be sorted because a least number of them that cannot would, by putting
  the last rule in its place among the others, leave a smaller one (`RulesCanBeSorted`);
  what is sorted has the rule that comes first before all that match
  (`SortedProperties`, `FirstHitProperties`), and sets are asked in their order
  (`FirstSetDecides`).

### Assumptions

Those of the modules, which TLC evaluates in the runs. Bounds are numbers of the
right sign; values that stand for "none" are no members of the sets they are added to
(`HashAssumption`, `ProcAssumption`, `NoneAssumption`, `AbsentAssumption`, `NoScope` in
`StreamsAssumption`, `PriorityAssumption`, by which priorities are integers); templates are servers and owners' ids are ids
(`TemplateAssumption`, `OwnerAssumption`); the two users that a run of `MC_Sessions`
is about are users (`PairAssumption`); a new approval is not born expired
(`Expiry + Skew > 0` in `BoundsAssumption`); calls, requests and runs in flight are
finite sets (`CallsAssumption`, `RequestsAssumption`, `RefreshAssumption`), as anything
in memory is; the kinds of a gateway request are those the code tells apart
(`GatewayAssumption`). `PowerAssumption` says that `2 ^ k` is a number that is not zero,
which is true and which the provers do not know. Nothing else is assumed; in particular no theorem assumes
fairness or that a call succeeds.

### What the proofs found

Two mistakes of the model, both in overlaps the runs were too small for. `Fails` of
`AdminUsers` let the deletion of all users stop inside a step that has no statement
to fail. And two requests of one user about two *templates* can lose an update:
`UserRequestHandler.ts` reads all of the user's launch configurations (line 237)
and writes them back after other awaits (line 602), so that the later write undoes the
earlier one. `AdminServers` allowed it and its history did not know; `Entangled` now
does, and section 5 lists it.

### Only model-checked

Liveness (`NothingHangs`, `OperationsEnd`, `SubscribersAnswered`): fairness and
`ENABLED` are out of the prover's reach. Of the first two the safety half is proved: no
handler and no operation goes in circles (`HandlersComeCloser`, `OperationsComeCloser`).
What is left to the runs is that a step is always possible, and that rows are swept.

The compositions of `MC_SessionServices` and `MC_GatewayServices` are runs only; their
modules are proved one by one.

## 5. Limits

### Disagreements seen without a run

The passing properties are stated so that they hold next to these; each is named
where a property makes room for it.

* Lifecycle: the SSE fallback may succeed and the start fails all the same with the
  error of the first attempt (`ServerManager.ts:1337`).
* Subscriptions: a session that subscribes while the last other one is being
  unsubscribed downstream is told that it is subscribed and is deleted with the state
  (`ServerManager.ts:2511`; hence "as long as nobody leaves" in
  `FailuresKeepSubscribers`); a connection the server closes leaves
  `downstreamSubscribed` set (`ServerManager.ts:1256`; `seen` in `StatesSound`).
* Sessions: a session is created for a user who was disabled between the validation
  of the token and the insertion into the store (`SessionStore.ts:99`; `raced`).
* Capabilities: a refresh or an authentication in flight puts replaced permissions
  back into a session until the next refresh, although `UserHandler.ts:373` and
  `docs/security.md:183` say that changes take effect immediately, and an update to
  what is already in the row returns early without repairing it; a refresh changes a
  session without a word to its client, and a later update then finds nothing changed
  (`cUnclear`, "refreshed"). Without a live list of tools the entries of the context's
  configuration are shared, and one user's "off" is written into them
  (`CapabilitiesService.ts:205`): other users lose the tool until the context is
  reloaded. `listTools` shows tools that are disabled at the level of the server, which
  `canUseTool` then refuses.
* Routing: after a reconnection a cancellation goes out on the new connection under
  the number of the old one (`ProxySession.ts:2705`; `CancelOwn` is about the
  connection the request was sent on).
* Sockets: a request that is pending when the server shuts down never settles
  (`SocketService.ts:626`); a change of sessions announced between the read of the
  list and its push is not shown (`missed`).
* Templates: two requests that configure, or take back, two templates of one user, or
  the deletion of a template next to one of them, write back launch configurations
  that were read before the other's write: one of the two is undone
  (`UserRequestHandler.ts:599`; `Entangled`, `mixed`).
* Logs: what is in memory at shutdown is not flushed (`LogSyncService.ts:103`, `:289`,
  `lgDropped`); a row committed late, below the cursor, is never sent (`lgLate`).
* Tokens: two saves of launch configurations that overlap lose one of them
  (`ServerManager.ts:2036`, "overlap" in `trExcuse`).
* Streams: a stream whose client closed during the setup stays open until it expires
  (`ModernMcpController.ts:774`).
* Guards: `README.md:68` of the repository speaks of a sliding window; windows begin
  with a request, and two of them may touch (`RateHonoured` has the bound that
  follows). A failed initialisation of the allow list replaces a list that was loaded
  meanwhile, and of two loads the slower one wins although `docs/api/ADMIN_API.md:1440`
  says that edits take effect immediately (`ipExcused`). The listing answers
  `0.0.0.0/0` when other entries exist as well.

### Not modelled

Left out of the modelled parts: delivery of approval notifications, listings and
counts of the admin and user API; contents of capabilities, danger levels and
templates in `Capabilities`; reverse requests of servers; the forwarding of update
notifications to a session's transport (their selection is in `ModernStreams`); the
resolution of cache policies, hashing and serialisation; the matching of a single
policy rule; the metadata endpoints and consent page of OAuth; rewriting of results
by the stateless endpoint; the choice of the client's address among headers.

Components without a module: the tunnel (best-effort Docker and file commands whose
failures are passed over), start-up and shutdown (a straight line of awaited calls
ended by a timer; what the stopping of a service loses is in that service's module),
tool discovery (ranked text), the encodings of downstream clients and transports,
provider-specific HTTP, skill files, and cryptography. There is no state of their own
that another component's correctness depends on beyond what the models above take
from them.

## 6. What could follow

1. The compositions of `MC_SessionServices` and `MC_GatewayServices` as theorems.
2. Variants for `ResourceSubscriptions`, whose requests are answered only as long as
   connections come back, so that the order has to count those.
3. Reverse requests of servers and the forwarding of notifications in `ProxySession`.
