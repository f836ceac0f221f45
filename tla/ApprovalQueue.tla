--------------------------- MODULE ApprovalQueue ---------------------------
(***************************************************************************)
(* The human-in-the-loop approval queue: the rows of approval_request      *)
(* (ApprovalRepository), the tool-call handlers that create, wait for,     *)
(* claim and execute them (ProxySession.handleToolCall for sessions,       *)
(* ModernMcpController.callTool for stateless requests), the people who    *)
(* decide (admin API, socket) and the sweeper (ApprovalService).           *)
(*                                                                         *)
(* Every call below is one that PolicyEngine answered REQUIRE_APPROVAL.    *)
(* A handler is a sequence of actions, one per SQL statement or other      *)
(* await, because any other handler may run in between.                    *)
(*                                                                         *)
(* Time is relative.  A row carries the time left before expires_at        *)
(* (ttl), the time since updated_at (idle) and the time since created_at   *)
(* (age); a waiting call carries the time left before its deadline.        *)
(* Tick moves all of them, and each one stops at the value past which no   *)
(* comparison in the code can tell it from a later one, so time never      *)
(* ends in this model.                                                     *)
(***************************************************************************)
EXTENDS Integers, FiniteSets

CONSTANTS
    Calls,        \* tool-call handlers that may be in flight together
    Modern,       \* the calls served by the stateless controller
    Hashes,       \* request hashes: user, server, tool, arguments, policy version
    NoHash,       \* no hash: a row not created, a call not made
    MaxRows,      \* bound: rows that are ever created
    Expiry,       \* DEFAULT_EXPIRY_MS
    Stale,        \* EXECUTING_STALE_TIMEOUT_MS
    Window,       \* APPROVAL_CREATE_RATE_LIMIT_WINDOW_MS
    Wait,         \* APPROVAL_WAIT_TIMEOUT_MS
    HashLimit,    \* APPROVAL_CREATE_RATE_LIMIT_PER_HASH_COUNT
    ToolLimit,    \* APPROVAL_CREATE_RATE_LIMIT_COUNT
    MaxConflicts, \* maxRetries of createOrGetPending
    MaxRetries,   \* retries of a call that timed out
    Skew          \* the application's clock minus the database's

ASSUME CallsAssumption == IsFiniteSet(Calls) /\ Modern \subseteq Calls
ASSUME HashAssumption == NoHash \notin Hashes
ASSUME BoundsAssumption ==
    /\ MaxRows \in Nat
    /\ Expiry \in Nat \ {0} /\ Stale \in Nat \ {0}
    /\ Window \in Nat /\ Wait \in Nat
    /\ HashLimit \in Nat \ {0} /\ ToolLimit \in Nat \ {0}
    /\ MaxConflicts \in Nat /\ MaxRetries \in Nat
    /\ Skew \in Int /\ Expiry + Skew > 0

VARIABLES
    rows,   \* the approval_request table
    calls,  \* the handlers' local state
    runs    \* history: how often a row's tool was invoked downstream

vars == <<rows, calls, runs>>

-----------------------------------------------------------------------------
RowIds == 1..MaxRows
NoRow == 0

Status == {"PENDING", "APPROVED", "REJECTED", "EXPIRED",
           "EXECUTING", "EXECUTED", "FAILED"}
Active == {"PENDING", "APPROVED", "EXECUTING"}
Terminal == Status \ Active

(* The lowest value of ttl that some clock can tell from the one below. *)
TtlFloor == IF Skew < 0 THEN Skew ELSE 0
TtlTop == IF Skew > 0 THEN Expiry + Skew ELSE Expiry
Ttl == TtlFloor..TtlTop

Row == [st   : Status \cup {"FREE"},
        hash : Hashes \cup {NoHash},
        ttl  : Ttl,
        idle : 0..Stale,
        age  : 0..(Window + 1),
        dec  : {"none", "APPROVED", "REJECTED"}, \* the decision columns
        res  : {"none", "payload", "preview"}]   \* execution_result

PCs == {"idle", "find", "countHash", "countTool", "insert", "existing",
        "expire", "wait", "replay", "claim", "lost", "claimed", "running",
        "markOk", "markFailed", "caught"}

(* Where a call may still insert a row. *)
Creating == {"find", "countHash", "countTool", "insert", "existing", "expire"}

Replies == {"none", "result", "error", "rejected", "replayedOk",
            "replayedError", "pending", "limited", "conflict"}

Call == [pc    : PCs,
         hash  : Hashes \cup {NoHash},
         row   : RowIds \cup {NoRow},
         left  : 0..Wait,       \* time left to wait
         tries : 0..MaxConflicts,
         exp   : Ttl,           \* time left before the expiresAt it will insert
         dead  : SUBSET RowIds, \* rows expired at the "now" of createOrGetPending
         att   : 0..MaxRetries, \* retryCount of handleToolCall
         reply : Replies]

FreeRow == [st |-> "FREE", hash |-> NoHash, ttl |-> TtlFloor,
            idle |-> 0, age |-> Window + 1, dec |-> "none", res |-> "none"]

(* A row as it is inserted. *)
NewRow(h, ttl) == [st |-> "PENDING", hash |-> h, ttl |-> ttl, idle |-> 0,
                   age |-> 0, dec |-> "none", res |-> "none"]

CallAt(pc, h, r, att, reply) ==
    [pc |-> pc, hash |-> h, row |-> r, left |-> 0, tries |-> 0, exp |-> TtlFloor,
     dead |-> {}, att |-> att, reply |-> reply]

IdleCall == CallAt("idle", NoHash, NoRow, 0, "none")

(* expires_at > NOW() by the database's clock and by the application's. *)
LiveDb(r) == rows[r].ttl > 0
LiveApp(r) == rows[r].ttl > Skew

(* Mutant: the partial unique index leaves EXECUTING rows out. *)
ActiveRowsNotExecuting(h) ==
    {r \in RowIds : rows[r].st \in {"PENDING", "APPROVED"} /\ rows[r].hash = h}

(* The partial unique index on request_hash. *)
ActiveRows(h) == {r \in RowIds : rows[r].st \in Active /\ rows[r].hash = h}

(* The rows findActiveByRequestHash accepts. *)
Visible(h) == {r \in ActiveRows(h) : LiveApp(r) \/ rows[r].st = "EXECUTING"}

Recent == {r \in RowIds : rows[r].st # "FREE" /\ rows[r].age <= Window}
RecentOf(h) == {r \in Recent : rows[r].hash = h}

Busy == {c \in Calls : calls[c].pc # "idle"}
Free == {r \in RowIds : rows[r].st = "FREE"}

-----------------------------------------------------------------------------
Init ==
    /\ rows = [r \in RowIds |-> FreeRow]
    /\ calls = [c \in Calls |-> IdleCall]
    /\ runs = [r \in RowIds |-> 0]

Goto(c, pc) == calls' = [calls EXCEPT ![c].pc = pc]

(* What is kept of a call that was answered. *)
Answer(c, r, what) == CallAt("idle", calls[c].hash, r, 0, what)

Reply(c, what) == calls' = [calls EXCEPT ![c] = Answer(c, calls[c].row, what)]

(* A call that found or created row r goes on with it. *)
Found(c, pc, r, left) ==
    [calls[c] EXCEPT !.pc = pc, !.row = r, !.left = left, !.exp = TtlFloor, !.dead = {}]

(* A session waits for the row; the stateless controller answers at once    *)
(* that the approval is pending.                                            *)
Waiting(c, r) == IF c \in Modern THEN Answer(c, r, "pending")
                                 ELSE Found(c, "wait", r, Wait)

(* A call found row r: it may claim it, or has to wait for it. *)
Checked(c, r) ==
    calls' = [calls EXCEPT ![c] = IF rows[r].st = "APPROVED" THEN Found(c, "claim", r, 0)
                                                             ELSE Waiting(c, r)]

-----------------------------------------------------------------------------
(* checkOrCreateApproval.                                                  *)

(* The rows that the calls in flight may still create, as call and attempt. *)
Owed == {p \in Busy \X (0..MaxRetries) : LET call == calls[p[1]] IN
            \/ p[2] > call.att /\ p[1] \notin Modern
            \/ p[2] = call.att /\ call.pc \in Creating}

(* A tool call arrives.  The guard on Free is the bound on rows.            *)
Begin(c, h) ==
    /\ calls[c].pc = "idle"
    /\ Cardinality(Free) >=
          Cardinality(Owed) + (IF c \in Modern THEN 1 ELSE MaxRetries + 1)
    /\ calls' = [calls EXCEPT ![c] = CallAt("find", h, NoRow, 0, "none")]
    /\ UNCHANGED <<rows, runs>>

(* findActiveByRequestHash. *)
FindActive(c) ==
    /\ calls[c].pc = "find"
    /\ \/ \E r \in Visible(calls[c].hash) : Checked(c, r)
       \/ Visible(calls[c].hash) = {} /\ Goto(c, "countHash")
    /\ UNCHANGED <<rows, runs>>

(* Mutant: the limit is compared with > instead of >=. *)
CountByHashOffByOne(c) ==
    /\ calls[c].pc = "countHash"
    /\ IF Cardinality(RecentOf(calls[c].hash)) > HashLimit
       THEN Reply(c, "limited")
       ELSE Goto(c, "countTool")
    /\ UNCHANGED <<rows, runs>>

CountByHash(c) ==
    /\ calls[c].pc = "countHash"
    /\ IF Cardinality(RecentOf(calls[c].hash)) >= HashLimit
       THEN Reply(c, "limited")
       ELSE Goto(c, "countTool")
    /\ UNCHANGED <<rows, runs>>

(* If the limit is not reached the expiry is fixed, by the application's    *)
(* clock, for this insert and its retries.                                  *)
CountByTool(c) ==
    /\ calls[c].pc = "countTool"
    /\ IF Cardinality(Recent) >= ToolLimit
       THEN Reply(c, "limited")
       ELSE calls' = [calls EXCEPT ![c].pc = "insert", ![c].exp = Expiry + Skew]
    /\ UNCHANGED <<rows, runs>>

(* INSERT ... ON CONFLICT DO NOTHING. *)
Insert(c) ==
    /\ calls[c].pc = "insert"
    /\ \/ /\ ActiveRows(calls[c].hash) = {}
          /\ \E r \in Free :
                /\ \A q \in Free : r <= q
                /\ rows' = [rows EXCEPT ![r] = NewRow(calls[c].hash, calls[c].exp)]
                /\ calls' = [calls EXCEPT ![c] = Waiting(c, r)]
       \/ /\ ActiveRows(calls[c].hash) # {}
          /\ calls' = [calls EXCEPT ![c].pc = "existing",
                ![c].dead = {r \in ActiveRows(calls[c].hash) : ~LiveApp(r)}]
          /\ UNCHANGED rows
    /\ UNCHANGED runs

(* The rows findFirst accepts after a conflict: "now" is the time of the    *)
(* insert before it.                                                        *)
Existing(c) == {r \in ActiveRows(calls[c].hash) :
                    r \notin calls[c].dead \/ rows[r].st = "EXECUTING"}

(* The findFirst after a conflict, and the error after the last retry. *)
FindExisting(c) ==
    /\ calls[c].pc = "existing"
    /\ \/ \E r \in Existing(c) : Checked(c, r)
       \/ /\ Existing(c) = {}
          /\ IF calls[c].tries >= MaxConflicts
             THEN Reply(c, "conflict")
             ELSE Goto(c, "expire")
    /\ UNCHANGED <<rows, runs>>

Expire(R) == rows' = [r \in RowIds |->
    IF r \in R THEN [rows[r] EXCEPT !.st = "EXPIRED", !.idle = 0] ELSE rows[r]]

(* Mutant: only PENDING rows expire. *)
OverduePending == {r \in RowIds : rows[r].st = "PENDING" /\ ~LiveDb(r)}

(* Mutant: whatever is active expires, a claimed row too. *)
OverdueActive == {r \in RowIds : rows[r].st \in Active /\ ~LiveDb(r)}

Overdue == {r \in RowIds : rows[r].st \in {"PENDING", "APPROVED"} /\ ~LiveDb(r)}

(* Mutant: the rounds of the conflict loop are not counted. *)
ExpireAndRetryUncounted(c) ==
    /\ calls[c].pc = "expire"
    /\ Expire({r \in Overdue : rows[r].hash = calls[c].hash})
    /\ calls' = [calls EXCEPT ![c].pc = "insert", ![c].dead = {}]
    /\ UNCHANGED runs

(* UPDATE ... SET status = 'EXPIRED' for this hash, then try again. *)
ExpireAndRetry(c) ==
    /\ calls[c].pc = "expire"
    /\ Expire({r \in Overdue : rows[r].hash = calls[c].hash})
    /\ calls' = [calls EXCEPT ![c].pc = "insert", ![c].tries = @ + 1, ![c].dead = {}]
    /\ UNCHANGED runs

-----------------------------------------------------------------------------
(* waitForApproval and the claim.                                          *)

(* pollApprovalStatus: a status that settles the wait. *)
Poll(c) ==
    /\ calls[c].pc = "wait"
    /\ LET st == rows[calls[c].row].st IN
          \/ st = "APPROVED" /\ Goto(c, "claim")
          \/ st = "REJECTED" /\ Reply(c, "rejected")
          \/ st \in {"EXPIRED", "EXECUTED", "FAILED"} /\ Goto(c, "replay")
    /\ UNCHANGED <<rows, runs>>

(* The deadline passed. *)
TimeOut(c) ==
    /\ calls[c].pc = "wait"
    /\ calls[c].left = 0
    /\ Goto(c, "replay")
    /\ UNCHANGED <<rows, runs>>

(* The client cancelled. *)
Abort(c) ==
    /\ calls[c].pc = "wait"
    /\ Goto(c, "replay")
    /\ UNCHANGED <<rows, runs>>

(* Mutant: whatever is not FAILED is replayed as a result. *)
ReplayReplyUnchecked(r) == IF rows[r].st = "FAILED" THEN "replayedError" ELSE "replayedOk"

(* What tryBuildReplayToolResult can answer for the row as it is now. *)
ReplayReply(r) ==
    IF rows[r].st = "EXECUTED" /\ rows[r].res = "payload" THEN "replayedOk"
    ELSE IF rows[r].st = "FAILED" THEN "replayedError"
    ELSE "pending"

(* Mutant: a wait that ends with nothing to replay is resumed. *)
ReplayWaitsOn(c) ==
    /\ calls[c].pc = "replay"
    /\ LET what == ReplayReply(calls[c].row) IN
          IF what = "pending" THEN Goto(c, "wait") ELSE Reply(c, what)
    /\ UNCHANGED <<rows, runs>>

(* A read that fails counts as nothing to replay. *)
Replay(c) ==
    /\ calls[c].pc = "replay"
    /\ \E what \in {ReplayReply(calls[c].row), "pending"} : Reply(c, what)
    /\ UNCHANGED <<rows, runs>>

(* Mutant: the UPDATE does not ask for status APPROVED. *)
ClaimUnchecked(c) ==
    /\ calls[c].pc = "claim"
    /\ LET r == calls[c].row IN
         IF LiveDb(r)
         THEN /\ rows' = [rows EXCEPT ![r].st = "EXECUTING", ![r].idle = 0]
              /\ Goto(c, "claimed")
         ELSE /\ IF c \in Modern THEN Reply(c, "pending") ELSE Goto(c, "lost")
              /\ UNCHANGED rows
    /\ UNCHANGED runs

(* claimForExecutionById.  A session that loses the claim looks for a      *)
(* result to replay, the stateless controller answers at once.             *)
Claim(c) ==
    /\ calls[c].pc = "claim"
    /\ LET r == calls[c].row IN
         IF rows[r].st = "APPROVED" /\ LiveDb(r)
         THEN /\ rows' = [rows EXCEPT ![r].st = "EXECUTING", ![r].idle = 0]
              /\ Goto(c, "claimed")
         ELSE /\ IF c \in Modern THEN Reply(c, "pending") ELSE Goto(c, "lost")
              /\ UNCHANGED rows
    /\ UNCHANGED runs

ClaimLost(c) ==
    /\ calls[c].pc = "lost"
    /\ \E what \in {ReplayReply(calls[c].row), "pending"} : Reply(c, what)
    /\ UNCHANGED <<rows, runs>>

-----------------------------------------------------------------------------
(* The execution of a claimed call.                                        *)

Forward(c) ==
    /\ calls[c].pc = "claimed"
    /\ runs' = [runs EXCEPT ![calls[c].row] = @ + 1]
    /\ Goto(c, "running")
    /\ UNCHANGED rows

(* approvalHeartbeatTimer: sessions only, until the finally block. *)
Touch(c) ==
    /\ calls[c].pc \in {"running", "markOk", "markFailed", "caught"}
    /\ c \notin Modern
    /\ rows[calls[c].row].st = "EXECUTING"
    /\ rows' = [rows EXCEPT ![calls[c].row].idle = 0]
    /\ UNCHANGED <<calls, runs>>

(* The tool answers.  A result with isError set counts as a failure in a   *)
(* session and as a result in the stateless controller.                    *)
ToolAnswers(c, isError) ==
    /\ calls[c].pc = "running"
    /\ Goto(c, IF isError /\ c \notin Modern THEN "markFailed" ELSE "markOk")
    /\ UNCHANGED <<rows, runs>>

(* callTool throws: timeout, lost connection, cancellation. *)
ToolThrows(c) ==
    /\ calls[c].pc = "running"
    /\ Goto(c, "caught")
    /\ UNCHANGED <<rows, runs>>

(* Mutant: the UPDATE does not ask for status EXECUTING. *)
MarkExecutedLate(c, ok, res) ==
    /\ calls[c].pc = "markOk"
    /\ rows' = IF ok THEN [rows EXCEPT ![calls[c].row].st = "EXECUTED",
                                       ![calls[c].row].res = res]
                     ELSE rows
    /\ Reply(c, "result")
    /\ UNCHANGED runs

(* markExecuted and markFailed leave a row alone that is not EXECUTING any  *)
(* more, and the callers swallow the failure of either statement (ok is     *)
(* FALSE).  A result too large to keep is stored as a preview.              *)
MarkExecuted(c, ok, res) ==
    /\ calls[c].pc = "markOk"
    /\ rows' = IF ok /\ rows[calls[c].row].st = "EXECUTING"
               THEN [rows EXCEPT ![calls[c].row].st = "EXECUTED",
                                 ![calls[c].row].res = res,
                                 ![calls[c].row].idle = 0]
               ELSE rows
    /\ Reply(c, "result")
    /\ UNCHANGED runs

FailRow(r, ok) == rows' = IF ok /\ rows[r].st = "EXECUTING"
                          THEN [rows EXCEPT ![r].st = "FAILED", ![r].idle = 0]
                          ELSE rows

(* The tool answered with isError. *)
MarkFailed(c, ok) ==
    /\ calls[c].pc = "markFailed"
    /\ FailRow(calls[c].row, ok)
    /\ Reply(c, "result")
    /\ UNCHANGED runs

(* Mutant: the retry limit is compared with <= instead of <. *)
CatchErrorOneMore(c, ok, timedOut) ==
    /\ calls[c].pc = "caught"
    /\ FailRow(calls[c].row, ok)
    /\ IF timedOut /\ c \notin Modern /\ calls[c].att <= MaxRetries
       THEN calls' = [calls EXCEPT ![c] = CallAt("find", calls[c].hash,
                                               NoRow, calls[c].att + 1, "none")]
       ELSE Reply(c, "error")
    /\ UNCHANGED runs

(* The catch block: markFailed, then the error.  In a session a time-out    *)
(* that did not make recordTimeout reconnect the server runs the whole      *)
(* handler again instead, approval included: approvalRequestId is null by   *)
(* the time it is tested.                                                   *)
CatchError(c, ok, timedOut) ==
    /\ calls[c].pc = "caught"
    /\ FailRow(calls[c].row, ok)
    /\ IF timedOut /\ c \notin Modern /\ calls[c].att < MaxRetries
       THEN calls' = [calls EXCEPT ![c] = CallAt("find", calls[c].hash,
                                               NoRow, calls[c].att + 1, "none")]
       ELSE Reply(c, "error")
    /\ UNCHANGED runs

(* A statement whose failure is not swallowed fails and the handler        *)
(* throws.  At "claimed" the claim took effect and its answer was lost.    *)
DbFails(c) ==
    /\ calls[c].pc \in {"find", "countHash", "countTool", "insert", "existing",
                        "expire", "claim", "claimed"}
    /\ Reply(c, "error")
    /\ UNCHANGED <<rows, runs>>

-----------------------------------------------------------------------------
(* The deciders, the sweeper, time and crashes.                            *)

(* decide, from the admin API and from the socket. *)
Decide(r, decision) ==
    /\ rows[r].st = "PENDING"
    /\ LiveApp(r)
    /\ rows' = [rows EXCEPT ![r].st = decision, ![r].dec = decision]
    /\ UNCHANGED <<calls, runs>>

ExpireStale ==
    /\ Overdue # {}
    /\ Expire(Overdue)
    /\ UNCHANGED <<calls, runs>>

(* recoverStaleExecuting: updated_at <= now - EXECUTING_STALE_TIMEOUT_MS. *)
StaleRows == {r \in RowIds : rows[r].st = "EXECUTING" /\ rows[r].idle >= Stale}

RecoverStaleExecuting ==
    /\ StaleRows # {}
    /\ rows' = [r \in RowIds |->
           IF r \in StaleRows THEN [rows[r] EXCEPT !.st = "FAILED", !.idle = 0]
                              ELSE rows[r]]
    /\ UNCHANGED <<calls, runs>>

(* The process dies: the handlers are gone, the table stays. *)
Crash ==
    /\ Busy # {}
    /\ calls' = [c \in Calls |-> IdleCall]
    /\ UNCHANGED <<rows, runs>>

Older(row) ==
    IF row.st \in Status
    THEN [row EXCEPT !.ttl = IF row.st \in Active /\ @ > TtlFloor THEN @ - 1 ELSE @,
                     !.idle = IF row.st = "EXECUTING" /\ @ < Stale THEN @ + 1 ELSE @,
                     !.age = IF @ <= Window THEN @ + 1 ELSE @]
    ELSE row

(* A call that waits, or is about to insert. *)
Later(call) ==
    IF call.pc = "wait" /\ call.left > 0
    THEN [call EXCEPT !.left = @ - 1]
    ELSE IF call.pc \in {"insert", "existing", "expire"} /\ call.exp > TtlFloor
    THEN [call EXCEPT !.exp = @ - 1]
    ELSE call

Tick ==
    /\ rows' = [r \in RowIds |-> Older(rows[r])]
    /\ calls' = [c \in Calls |-> Later(calls[c])]
    /\ UNCHANGED runs

-----------------------------------------------------------------------------
(* What a handler does on its own once it runs. *)
Handler(c) ==
    \/ FindActive(c) \/ CountByHash(c) \/ CountByTool(c) \/ Insert(c)
    \/ FindExisting(c) \/ ExpireAndRetry(c)
    \/ Poll(c) \/ TimeOut(c) \/ Replay(c) \/ Claim(c) \/ ClaimLost(c)
    \/ Forward(c)
    \/ \E isError \in BOOLEAN : ToolAnswers(c, isError)
    \/ ToolThrows(c)
    \/ \E ok \in BOOLEAN, res \in {"payload", "preview"} : MarkExecuted(c, ok, res)
    \/ \E ok \in BOOLEAN : MarkFailed(c, ok)
    \/ \E ok, timedOut \in BOOLEAN : CatchError(c, ok, timedOut)

Next ==
    \/ \E c \in Calls, h \in Hashes : Begin(c, h)
    \/ \E c \in Calls : Handler(c) \/ Abort(c) \/ DbFails(c) \/ Touch(c)
    \/ \E r \in RowIds, d \in {"APPROVED", "REJECTED"} : Decide(r, d)
    \/ ExpireStale \/ RecoverStaleExecuting
    \/ Crash \/ Tick

Spec == Init /\ [][Next]_vars

(* Handlers run to their next await, timers fire and the sweeper's interval *)
(* keeps ticking.  Nothing is assumed of clients, deciders, heartbeats or   *)
(* the database.                                                            *)
Fairness ==
    /\ \A c \in Calls : WF_vars(Handler(c))
    /\ WF_vars(ExpireStale) /\ WF_vars(RecoverStaleExecuting)
    /\ WF_vars(Tick)

LiveSpec == Spec /\ Fairness

-----------------------------------------------------------------------------
(* Properties.                                                             *)

TypeOK ==
    /\ rows \in [RowIds -> Row]
    /\ calls \in [Calls -> Call]
    /\ runs \in [RowIds -> Nat]

(* Duplicate calls share one request: at no time are two requests with the *)
(* same hash pending, approved or executing, whatever statements of        *)
(* concurrent handlers, deciders and sweeper interleave.                   *)
OneActivePerHash ==
    \A q, r \in RowIds :
        /\ rows[q].st \in Active /\ rows[r].st \in Active
        /\ rows[q].hash = rows[r].hash
        => q = r

(* A human's approval is spent at most once: the tool of a request runs    *)
(* only if somebody approved that very request, and never twice, across    *)
(* retries, lost claims, crashes, expiry and stale recovery.               *)
OneRunPerApproval ==
    \A r \in RowIds : runs[r] > 0 => runs[r] = 1 /\ rows[r].dec = "APPROVED"

(* A caller that is given the stored result of another call gets the       *)
(* result of a run that finished, of the same request.                     *)
ReplayIsOfTheRun ==
    \A c \in Calls : calls[c].reply = "replayedOk" =>
        LET r == calls[c].row IN
        /\ rows[r].st = "EXECUTED" /\ rows[r].res = "payload" /\ runs[r] = 1
        /\ rows[r].hash = calls[c].hash

(* What a person is asked, and what comes of it, is one thing however many *)
(* handlers deal with it: identical calls share a request, an approval is  *)
(* spent once, and its result answers calls of that request only           *)
(* (ApprovalRepository.ts, handleToolCall).                                *)
RequestsSound == OneActivePerHash /\ OneRunPerApproval /\ ReplayIsOfTheRun

(* A row that is rejected, expired, executed or failed stays so: a late    *)
(* markExecuted after the sweeper's recovery, or a decision that arrives   *)
(* after expiry, changes nothing.                                          *)
TerminalIsFinal ==
    [][\A r \in RowIds : rows[r].st \in Terminal =>
          rows'[r].st = rows[r].st /\ rows'[r].dec = rows[r].dec
                                  /\ rows'[r].res = rows[r].res]_vars

(* The limit of requests per request hash is checked before the insert, not *)
(* with it: concurrent handlers can pass the check together, but never by   *)
(* more than one row each (ApprovalService.ts:131).                         *)
BoundedOvershoot ==
    \A h \in Hashes : Cardinality(RecentOf(h)) <= HashLimit + Cardinality(Calls) - 1

(* The handlers, deciders and sweeper together keep what ApprovalLife       *)
(* promises of every request: a status is entered only from the statuses    *)
(* that lead to it (only an approved row is ever claimed, only a claimed    *)
(* one is given up, and only one whose tool ran is recorded as executed),   *)
(* and a request is made only while no other is open for the same call      *)
(* (ApprovalRepository.ts, the WHERE clauses of its updates).               *)
Life == INSTANCE ApprovalLife WITH
    Asks <- RowIds,
    status <- [r \in RowIds |-> rows[r].st],
    about <- [r \in RowIds |-> rows[r].hash],
    uses <- runs
LifeKept == Life!Spec

(* How far a handler is from its answer at each point of its code. *)
Rank(pc) ==
    CASE pc = "find" -> 11 [] pc = "countHash" -> 10 [] pc = "countTool" -> 9
      [] pc = "insert" -> 8 [] pc = "existing" -> 7 [] pc = "expire" -> 6
      [] pc = "wait" -> 5 [] pc = "claim" -> 4 [] pc = "claimed" -> 3
      [] pc = "running" -> 2 [] pc = "idle" -> 0 [] OTHER -> 1

(* It comes closer to the answer by answering, by a further attempt of the  *)
(* call, by a further round of the conflict loop, or within a round.        *)
Closer(new, old) ==
    \/ new.pc = "idle"
    \/ new.att > old.att
    \/ new.att = old.att /\ new.tries > old.tries
    \/ new.att = old.att /\ new.tries = old.tries /\ Rank(new.pc) < Rank(old.pc)

(* No handler runs in circles: each step of its own brings a call closer to *)
(* its answer, attempts and rounds being bounded, and no step of anybody    *)
(* else takes it back (handleToolCall, createOrGetPending).                 *)
HandlersProgress ==
    [][\A c \in Busy : /\ Handler(c) => Closer(calls'[c], calls[c])
                       /\ calls'[c].pc # calls[c].pc => Closer(calls'[c], calls[c])]_vars

(* Every tool call is answered: neither the wait, nor the conflict loop,   *)
(* nor the retries after a time-out go on for ever.                        *)
CallsReturn == \A c \in Calls : calls[c].pc # "idle" ~> calls[c].pc = "idle"

(* No request stays pending, approved or executing for ever, not even when *)
(* its handler crashed or could not record the outcome.                    *)
NoRowStuck == \A r \in RowIds :
    rows[r].st \in Active ~> rows[r].st \in Terminal

(* Nothing hangs: neither a caller nor a row of the table.                 *)
NothingHangs == CallsReturn /\ NoRowStuck
=============================================================================
