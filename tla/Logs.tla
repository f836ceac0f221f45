-------------------------------- MODULE Logs --------------------------------
(* The log pipeline: LogService queues entries and saves them in batches,    *)
(* LogSyncService sends the saved rows to a webhook, in the order of their   *)
(* ids. The process may end, in order or not, and start again.               *)
EXTENDS Naturals, FiniteSets, FiniteSetsExt

CONSTANTS
    Entries,        \* log entries
    LogBatch,       \* BATCH_SIZE of the queue
    SyncBatch,      \* SYNC_BATCH_SIZE
    LogRetry,       \* RETRY_COUNT of a send
    MaxLogId        \* bound: rows the table may get
ASSUME LogAssumption == {LogBatch, SyncBatch, MaxLogId} \subseteq Nat \ {0} /\ LogRetry \in Nat

VARIABLES
    lgFresh,    \* entries nobody logged yet
    lgQueue,    \* logQueue
    lgBatches,  \* the batches being saved, each with the saves still under way
    lgInserts,  \* inserts that have their id and are not committed: [id, entry,
                \* own], own while their batch waits for them
    lgRows,     \* rows of the log table that others see: [id, entry]
    lgNextId,   \* the sequence of ids
    lgUrl,      \* webhookUrl is set
    lgTimer,    \* syncTimer is armed
    lgSync,     \* the run of syncLogs (isSyncing when it is not idle)
    lgLast,     \* lastSyncedLogId of the service
    lgSaved,    \* lastSyncedLogId of the proxy row
    lgSent,     \* ids the webhook has received
    lgLate,     \* ids committed after a larger id was already taken for sending
    lgDropped,  \* entries that were in memory when the process ended
    lgDown      \* "up", "stopped" (shutdown returned)
logVars == <<lgFresh, lgQueue, lgBatches, lgInserts, lgRows, lgNextId, lgUrl, lgTimer, lgSync,
             lgLast, lgSaved, lgSent, lgLate, lgDropped, lgDown>>
queueVars == <<lgFresh, lgQueue, lgBatches, lgInserts, lgRows, lgNextId, lgLate>>
syncVars == <<lgUrl, lgTimer, lgSync, lgLast, lgSaved, lgSent>>
endVars == <<lgDropped, lgDown>>

IdsOf(rows) == {r.id : r \in rows}
IdleSync == [pc |-> "idle", logs |-> {}, attempt |-> 0]
InBatches == UNION {b.all : b \in lgBatches}
RowOf(i) == [id |-> i.id, entry |-> i.entry]

LogInit ==
    /\ lgFresh = Entries /\ lgQueue = {} /\ lgBatches = {} /\ lgInserts = {} /\ lgRows = {}
    /\ lgNextId = 1
    /\ lgUrl \in BOOLEAN /\ lgTimer = lgUrl
    /\ lgSync = IdleSync /\ lgLast = 0 /\ lgSaved = 0 /\ lgSent = {} /\ lgLate = {}
    /\ lgDropped = {} /\ lgDown = "up"

\* flush: the queue becomes a batch, all of whose saves are started.
Flushed(q) ==
    /\ lgQueue' = {}
    /\ lgBatches' = lgBatches \cup {[all |-> q, left |-> q]}

\* enqueue: a queue that reaches the size of a batch is flushed at once.
Queued(e) ==
    /\ e \in lgFresh
    /\ lgFresh' = lgFresh \ {e}
    /\ IF Cardinality(lgQueue \cup {e}) >= LogBatch
       THEN Flushed(lgQueue \cup {e})
       ELSE /\ lgQueue' = lgQueue \cup {e}
            /\ UNCHANGED lgBatches

Enqueue(e) ==
    /\ Queued(e)
    /\ UNCHANGED <<lgInserts, lgRows, lgNextId, lgLate, syncVars, endVars>>

FlushTimer ==
    /\ lgQueue # {}
    /\ Flushed(lgQueue)
    /\ UNCHANGED <<lgFresh, lgInserts, lgRows, lgNextId, lgLate, syncVars, endVars>>

\* An insert draws its id when it runs and is seen when it commits: inserts
\* on two connections of the pool commit in either order.
Insert(e) ==
    /\ \E b \in lgBatches : e \in b.left
    /\ \A i \in lgInserts : ~(i.own /\ i.entry = e)
    /\ lgNextId <= MaxLogId
    /\ lgInserts' = lgInserts \cup {[id |-> lgNextId, entry |-> e, own |-> TRUE]}
    /\ lgNextId' = lgNextId + 1
    /\ UNCHANGED <<lgFresh, lgQueue, lgBatches, lgRows, lgLate, syncVars, endVars>>

\* The rows up to which the service has already looked.
Taken == lgSync.logs \cup {lgLast}

\* LogRepository.save succeeds; Promise.all resolves with the last one.
Commit(i) ==
    /\ i \in lgInserts
    /\ lgInserts' = lgInserts \ {i}
    /\ lgRows' = lgRows \cup {RowOf(i)}
    /\ lgLate' = IF i.id <= Max(Taken) THEN lgLate \cup {i.id} ELSE lgLate
    /\ lgBatches' = {b \in {[c EXCEPT !.left = IF i.own THEN @ \ {i.entry} ELSE @] : c \in lgBatches} :
                        b.left # {}}
    /\ UNCHANGED <<lgFresh, lgQueue, lgNextId, syncVars, endVars>>

\* Mutant: the batch is forgotten.
SaveFailsUnqueued(i) ==
    LET hit == {b \in lgBatches : i.own /\ i.entry \in b.left}
        entries == UNION {b.all : b \in hit} IN
    /\ i \in lgInserts
    /\ lgInserts' = {[j EXCEPT !.own = @ /\ j.entry \notin entries] : j \in lgInserts \ {i}}
    /\ lgBatches' = lgBatches \ hit
    /\ UNCHANGED <<lgFresh, lgQueue, lgRows, lgNextId, lgLate, syncVars, endVars>>

\* A save fails: Promise.all rejects at once and the whole batch goes back to
\* the queue, also what was saved and what is still being saved.
SaveFails(i) ==
    LET hit == {b \in lgBatches : i.own /\ i.entry \in b.left}
        entries == UNION {b.all : b \in hit} IN
    /\ i \in lgInserts
    /\ lgInserts' = {[j EXCEPT !.own = @ /\ j.entry \notin entries] : j \in lgInserts \ {i}}
    /\ lgQueue' = lgQueue \cup entries
    /\ lgBatches' = lgBatches \ hit
    /\ UNCHANGED <<lgFresh, lgRows, lgNextId, lgLate, syncVars, endVars>>

\* syncLogs, from its timer: not when it runs already or has no webhook.
SyncLogs ==
    /\ lgTimer /\ lgDown = "up" /\ lgSync.pc = "idle" /\ lgUrl
    /\ lgSync' = [IdleSync EXCEPT !.pc = "read"]
    /\ UNCHANGED <<queueVars, lgUrl, lgTimer, lgLast, lgSaved, lgSent, endVars>>

\* findLogsFromId: the oldest rows above the last one, up to a batch.
FindLogsFromId ==
    LET above == {i \in IdsOf(lgRows) : i > lgLast}
        logs == {i \in above : Cardinality({j \in above : j <= i}) <= SyncBatch} IN
    /\ lgSync.pc = "read"
    /\ lgSync' = IF logs = {} THEN IdleSync ELSE [lgSync EXCEPT !.pc = "send", !.logs = logs]
    /\ UNCHANGED <<queueVars, lgUrl, lgTimer, lgLast, lgSaved, lgSent, endVars>>

\* sendLogsToWebhook: the webhook answers 2xx.
SendLogs ==
    /\ lgSync.pc = "send" /\ lgUrl
    /\ lgSent' = lgSent \cup lgSync.logs
    /\ lgSync' = [lgSync EXCEPT !.pc = "mark"]
    /\ UNCHANGED <<queueVars, lgUrl, lgTimer, lgLast, lgSaved, endVars>>

\* Mutant: the last id moves although the send failed.
SendFailsMarked(received) ==
    /\ lgSync.pc = "send"
    /\ received => lgUrl
    /\ lgSent' = IF received THEN lgSent \cup lgSync.logs ELSE lgSent
    /\ lgSync' = IF lgSync.attempt < LogRetry THEN [lgSync EXCEPT !.attempt = @ + 1]
                                              ELSE [lgSync EXCEPT !.pc = "mark"]
    /\ UNCHANGED <<queueVars, lgUrl, lgTimer, lgLast, lgSaved, endVars>>

\* An error, a refusal or the timeout of a send the webhook may have received:
\* one retry, then the run gives up and the next one sends the same rows.
SendFails(received) ==
    /\ lgSync.pc = "send"
    /\ received => lgUrl
    /\ lgSent' = IF received THEN lgSent \cup lgSync.logs ELSE lgSent
    /\ lgSync' = IF lgSync.attempt < LogRetry THEN [lgSync EXCEPT !.attempt = @ + 1] ELSE IdleSync
    /\ UNCHANGED <<queueVars, lgUrl, lgTimer, lgLast, lgSaved, endVars>>

\* Mutant: the field of the service first.
MarkSyncedFirst ==
    /\ lgSync.pc = "mark"
    /\ lgLast' = Max(lgSync.logs)
    /\ lgSync' = [lgSync EXCEPT !.pc = "marked"]
    /\ UNCHANGED <<queueVars, lgUrl, lgTimer, lgSaved, lgSent, endVars>>

\* updateLastSyncedLogId, then the field of the service.
MarkSynced ==
    /\ lgSync.pc = "mark"
    /\ lgSaved' = Max(lgSync.logs)
    /\ lgSync' = [lgSync EXCEPT !.pc = "marked"]
    /\ UNCHANGED <<queueVars, lgUrl, lgTimer, lgLast, lgSent, endVars>>
Marked ==
    /\ lgSync.pc = "marked"
    /\ lgLast' = Max(lgSync.logs)
    /\ lgSync' = IdleSync
    /\ UNCHANGED <<queueVars, lgUrl, lgTimer, lgSaved, lgSent, endVars>>
\* The query or the update throws: the run ends with an entry of its own in the
\* log, and the rows will be sent again.
SyncThrows ==
    /\ lgSync.pc \in {"read", "mark"}
    /\ lgSync' = IdleSync
    /\ IF lgFresh = {} THEN UNCHANGED <<lgFresh, lgQueue, lgBatches>> ELSE \E e \in lgFresh : Queued(e)
    /\ UNCHANGED <<lgInserts, lgRows, lgNextId, lgLate, lgUrl, lgTimer, lgLast, lgSaved, lgSent,
                   endVars>>

\* reloadWebhookUrl after the administrator set or cleared the webhook.
ReloadWebhookUrl(url) ==
    /\ lgDown = "up" /\ url # lgUrl
    /\ lgUrl' = url
    /\ lgTimer' = url
    /\ UNCHANGED <<queueVars, lgSync, lgLast, lgSaved, lgSent, endVars>>

\* LogSyncService.shutdown: isShuttingDown is set before the last syncLogs,
\* which therefore returns at once. A run in progress is not waited for.
SyncShutdown ==
    /\ lgDown = "up"
    /\ lgDown' = "stopped"
    /\ lgTimer' = FALSE
    /\ UNCHANGED <<queueVars, lgUrl, lgSync, lgLast, lgSaved, lgSent, lgDropped>>

\* The process ends (nothing calls LogService.shutdown) or crashes, and starts
\* again: initialize reads the proxy row.
Restart ==
    /\ lgDropped' = lgDropped \cup ((lgQueue \cup InBatches) \ {r.entry : r \in lgRows})
    /\ lgQueue' = {} /\ lgBatches' = {} /\ lgInserts' = {}
    /\ lgSync' = IdleSync
    /\ lgLast' = lgSaved
    /\ lgTimer' = lgUrl
    /\ lgDown' = "up"
    /\ UNCHANGED <<lgFresh, lgRows, lgNextId, lgUrl, lgSaved, lgSent, lgLate>>

LogNext ==
    \/ \E e \in Entries : Enqueue(e) \/ Insert(e)
    \/ FlushTimer
    \/ \E i \in lgInserts : Commit(i) \/ SaveFails(i)
    \/ SyncLogs \/ FindLogsFromId \/ SendLogs \/ MarkSynced \/ Marked \/ SyncThrows
    \/ \E b \in BOOLEAN : SendFails(b) \/ ReloadWebhookUrl(b)
    \/ SyncShutdown \/ Restart
LogSpec == LogInit /\ [][LogNext]_logVars

-----------------------------------------------------------------------------
(* Properties *)

\* The types of the variables, and the bookkeeping of the ids: a row has an id
\* of its own, and the service never points past what it was given
\* (LogSyncService.ts:131-140).
LogTypeOK ==
    /\ lgFresh \subseteq Entries /\ lgQueue \subseteq Entries /\ lgDropped \subseteq Entries
    /\ \A b \in lgBatches : b.left # {} /\ b.left \subseteq b.all /\ b.all \subseteq Entries
    /\ \A r \in lgRows \cup lgInserts : r.id < lgNextId /\ r.entry \in Entries
    /\ IdsOf(lgRows) \cap IdsOf(lgInserts) = {}
    /\ lgLast <= lgSaved /\ lgSaved < lgNextId
    /\ lgSync.pc \in {"idle", "read", "send", "mark", "marked"}
    /\ (lgSync.logs = {}) = (lgSync.pc \in {"idle", "read"})
    /\ lgTimer => lgUrl

\* An entry that was logged is in the queue, in a batch that is being saved or
\* in the table, whatever saves fail, unless the process ended with it in
\* memory (LogService.ts:99-116: the batch is queued again).
NoLogLost ==
    \A e \in Entries \ lgFresh :
        e \in lgQueue \cup InBatches \cup {r.entry : r \in lgRows} \cup lgDropped

\* Every row up to the last synchronised id has reached the webhook, over
\* failed sends, cleared webhooks and restarts between the send and its mark;
\* the exception is a row that was committed after rows with larger ids had
\* been taken for sending, which nothing will ever send
\* (LogSyncService.ts:109-150).
SyncedWereSent ==
    \A r \in lgRows : r.id <= lgSaved => r.id \in lgSent \cup lgLate

\* No log entry is lost on its way to the table and to the webhook
\* (LogService.ts, LogSyncService.ts).
LogsKept == LogTypeOK /\ NoLogLost /\ SyncedWereSent
=============================================================================
