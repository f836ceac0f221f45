---------------------------- MODULE AccessGuards ----------------------------
(* What stands before every MCP request: the allow list of addresses with    *)
(* the admin requests that edit it, and the rate limit per user.             *)
EXTENDS Integers, FiniteSets, FiniteSetsExt

CONSTANTS
    Limits,         \* values of rateLimit; it belongs to the request, an admin may change it
    MaxLimit,       \* the greatest of them, or 1
    Window,         \* WINDOW_SIZE in ticks
    Second,         \* ticks of a second, the unit of Retry-After
    AddrBits,       \* bits of an address (32 in the code)
    IpEntries,      \* entries an admin uses: [net, bits, cidr]
    Guards,         \* asynchronous calls: requests, admin requests, initialize
    MaxIpId         \* bound: inserts into the table
ASSUME GuardAssumption ==
    /\ MaxLimit \in Nat \ {0} /\ Limits \subseteq 0 .. MaxLimit /\ Limits # {}
    /\ Window \in Nat \ {0, 1}
    /\ Second \in Nat \ {0} /\ AddrBits \in Nat \ {0}
    /\ IpEntries \subseteq [net : 0 .. 2 ^ AddrBits - 1, bits : 0 .. AddrBits, cidr : BOOLEAN]
    /\ MaxIpId \in Nat \ {0}
\* Arithmetic the provers do not know: sizes of blocks are numbers.
ASSUME PowerAssumption == \A k \in 0 .. AddrBits : 2 ^ k \in Nat \ {0}

VARIABLES
    rlCount,    \* userRequestCounts of one user: [count, age, idle], the times as
                \* distances to now; count 0 when there is no record
    rlAdmitted, \* history: the requests admitted in this tick and the a before it
    rlTold,     \* history: what is left of the Retry-After of the last refusal
    ipRows,     \* table ip_whitelist: [id, ip]
    ipNext,     \* the next insert into it
    ipList,     \* whitelist
    ipFresh,    \* the list was read less than cacheExpiry ago
    ipCalls,    \* the calls under way
    ipExcused   \* history: the last load failed, or what it read was changed since
rateVars == <<rlCount, rlAdmitted, rlTold>>
ipVars == <<ipRows, ipNext, ipList, ipFresh, ipCalls, ipExcused>>
guardVars == <<rateVars, ipVars>>

NoCount == [count |-> 0, age |-> 0, idle |-> 0]
NotTold == Window + Second
AllowAll == [net |-> 0, bits |-> 0, cidr |-> TRUE]
Done == [kind |-> "none", pc |-> "done", ips |-> {}, rows |-> {}, old |-> FALSE, addr |-> 0, allowed |-> FALSE]
Call(kind, pc) == [Done EXCEPT !.kind = kind, !.pc = pc]

\* The constructor of IpWhitelistService starts initialize.
GuardInit ==
    /\ rlCount = NoCount /\ rlAdmitted = [a \in 0 .. Window - 1 |-> 0] /\ rlTold = NotTold
    /\ ipRows \in {{[id |-> 1, ip |-> e]} : e \in IpEntries} \cup {{}}
    /\ ipNext = 2 /\ ipList = {AllowAll} /\ ipFresh = FALSE /\ ipExcused = FALSE
    /\ \E c \in Guards : ipCalls = [x \in Guards |-> IF x = c THEN Call("init", "query") ELSE Done]

----------------------------------------------------------------------------
(* Rate limit *)

WindowOver == rlCount.count = 0 \/ rlCount.age >= Window
Admitted(r) ==
    /\ rlCount' = r
    /\ rlAdmitted' = [a \in DOMAIN rlAdmitted |-> rlAdmitted[a] + 1]
    /\ rlTold' = NotTold

\* Mutant: the count starts again and the window does not.
NewWindowKeepsStart ==
    /\ WindowOver
    /\ Admitted([count |-> 1, age |-> rlCount.age, idle |-> 0])

\* A first request, or the first after the end of the window, whatever the limit.
NewWindow ==
    /\ WindowOver
    /\ Admitted([count |-> 1, age |-> 0, idle |-> 0])

CountRequest(rateLimit) ==
    /\ rlCount.count > 0 /\ rlCount.age < Window
    /\ rlCount.count < rateLimit
    /\ Admitted([rlCount EXCEPT !.count = @ + 1, !.idle = 0])

\* Mutant: rounded down.
RetryAfterFloor == (Window - rlCount.age) \div Second

\* retryAfter: the seconds until the window ends, rounded up.
RetryAfter == (Window - rlCount.age + Second - 1) \div Second

Refuse(rateLimit) ==
    /\ rlCount.count > 0 /\ rlCount.age < Window
    /\ rlCount.count >= rateLimit
    /\ rlTold' = RetryAfter * Second
    /\ UNCHANGED <<rlCount, rlAdmitted>>

\* cleanupExpiredCounts, from its interval timer.
CleanupCounts ==
    /\ rlCount.count > 0 /\ rlCount.idle > 2 * Window
    /\ rlCount' = NoCount
    /\ UNCHANGED <<rlAdmitted, rlTold>>

Tick ==
    /\ rlCount' = IF rlCount.count = 0 THEN NoCount
                  ELSE [rlCount EXCEPT !.age = Min({@ + 1, Window}), !.idle = Min({@ + 1, 2 * Window + 1})]
    /\ rlAdmitted' = [a \in DOMAIN rlAdmitted |-> IF a = 0 THEN 0 ELSE rlAdmitted[a - 1]]
    /\ rlTold' = IF rlTold \in {0, NotTold} THEN rlTold ELSE rlTold - 1

RateNext ==
    \/ NewWindow
    \/ \E l \in Limits : CountRequest(l) \/ Refuse(l)
    \/ CleanupCounts
    \/ Tick

----------------------------------------------------------------------------
(* Allow list *)

IpsOf(rows) == {r.ip : r \in rows}

\* Mutant: an empty table allows nobody.
EffectiveAsRead(ips) == ips

\* An empty table allows everybody.
Effective(ips) == IF ips = {} THEN {AllowAll} ELSE ips

\* A number with all but its upper bits cleared. A shift in the code takes its
\* count modulo the width of the number.
Masked(n, bits) == n - (n % 2 ^ ((AddrBits - bits) % AddrBits))

\* Mutant: no special case for /0, whose mask would be shifted by nothing.
isIpMatchMasked(addr, e) == Masked(addr, e.bits) = Masked(e.net, e.bits)

isIpMatch(addr, e) ==
    IF ~e.cidr THEN addr = e.net
    ELSE e.bits = 0 \/ Masked(addr, e.bits) = Masked(e.net, e.bits)

isIpAllowed(list, addr) == AllowAll \in list \/ \E e \in list : isIpMatch(addr, e)

\* What a call does next. Every change of the table marks what loads have read.
Goes(c, call) == ipCalls' = [ipCalls EXCEPT ![c] = call]
GoesOn(c, pc) == Goes(c, [ipCalls[c] EXCEPT !.pc = pc])
Changes(c, rows, next, pc) ==
    /\ ipRows' = rows /\ ipNext' = next
    /\ ipCalls' = [x \in Guards |->
                     IF x = c THEN [ipCalls[c] EXCEPT !.pc = pc, !.rows = {}]
                     ELSE [ipCalls[x] EXCEPT !.old = @ \/ (ipCalls[x].pc = "install" /\ IpsOf(rows) # IpsOf(ipRows))]]
    /\ UNCHANGED <<ipList, ipFresh, ipExcused>>

Begin(c, kind, ips) ==
    /\ ipCalls[c].pc = "done"
    /\ Goes(c, [Call(kind, IF kind = "update" THEN "write" ELSE "find") EXCEPT !.ips = ips])
    /\ UNCHANGED <<ipRows, ipNext, ipList, ipFresh, ipExcused>>

\* The query before an edit. A call is at a step of its kind.
At(c, kind, pc) == ipCalls[c].kind = kind /\ ipCalls[c].pc = pc
Found(c) == {r \in ipRows : r.ip \in ipCalls[c].ips}
Find(c, kind, call) ==
    /\ At(c, kind, "find")
    /\ Goes(c, call)
    /\ UNCHANGED <<ipRows, ipNext, ipList, ipFresh, ipExcused>>

\* A deletion without a matching row returns.
FindDeleted(c) ==
    Find(c, "delete", IF Found(c) = {} THEN Done
                      ELSE [ipCalls[c] EXCEPT !.pc = "write", !.rows = Found(c)])

\* An addition or a switch that has nothing to change goes on to the reload.
FindExisting(c) ==
    Find(c, "add", IF ipCalls[c].ips = IpsOf(Found(c)) THEN [ipCalls[c] EXCEPT !.pc = "query"]
                   ELSE [ipCalls[c] EXCEPT !.pc = "write", !.ips = @ \ IpsOf(Found(c))])
FindAllowAll(c) ==
    Find(c, "allow", [ipCalls[c] EXCEPT !.pc = IF AllowAll \in IpsOf(ipRows) THEN "query" ELSE "write"])
FindOthers(c) ==
    Find(c, "deny", [ipCalls[c] EXCEPT !.pc = IF IpsOf(ipRows) \subseteq {AllowAll} THEN "query" ELSE "write"])

\* createMany: a row is told apart by the insert that made it and its address.
Insert(c, rows, ips, pc) ==
    /\ ipNext <= MaxIpId
    /\ Changes(c, rows \cup {[id |-> ipNext, ip |-> e] : e \in ips}, ipNext + 1, pc)

\* Replacement is a transaction.
Replace(c) == At(c, "update", "write") /\ Insert(c, {}, ipCalls[c].ips, "query")

\* Mutant: a deletion returns without the reload.
DeleteNoReload(c) == At(c, "delete", "write") /\ Changes(c, ipRows \ ipCalls[c].rows, ipNext, "done")

\* A deletion is of the rows it found, by their ids.
Delete(c) == At(c, "delete", "write") /\ Changes(c, ipRows \ ipCalls[c].rows, ipNext, "query")

Add(c) == At(c, "add", "write") /\ Insert(c, ipRows, ipCalls[c].ips, "added")
SwitchOff(c) == At(c, "allow", "write") /\ Insert(c, ipRows, {AllowAll}, "query")
SwitchOn(c) ==
    /\ At(c, "deny", "write")
    /\ Changes(c, {r \in ipRows : r.ip # AllowAll}, ipNext, "query")

\* An addition reads the ids of its new rows for its answer.
ReadAdded(c) ==
    /\ ipCalls[c].pc = "added"
    /\ GoesOn(c, "query")
    /\ UNCHANGED <<ipRows, ipNext, ipList, ipFresh, ipExcused>>

\* A statement of an edit fails: the request ends, after the insert without a reload.
EditFails(c) ==
    /\ ipCalls[c].pc \in {"find", "write", "added"}
    /\ Goes(c, Done)
    /\ ipExcused' = (ipExcused \/ ipCalls[c].pc = "added")
    /\ UNCHANGED <<ipRows, ipNext, ipList, ipFresh>>

\* A request with a fresh list is answered from it, another one loads it first.
Answered(addr, list) ==
    [Call("request", "answered") EXCEPT !.ips = list, !.addr = addr, !.allowed = isIpAllowed(list, addr)]
Request(c, addr) ==
    /\ ipCalls[c].pc = "done"
    /\ Goes(c, IF ipFresh THEN Answered(addr, ipList)
               ELSE [Call("request", "query") EXCEPT !.addr = addr])
    /\ UNCHANGED <<ipRows, ipNext, ipList, ipFresh, ipExcused>>

\* loadFromDatabase, in two steps: the rows are read, then installed.
Query(c) ==
    /\ ipCalls[c].pc = "query"
    /\ Goes(c, [ipCalls[c] EXCEPT !.pc = "install", !.ips = IpsOf(ipRows)])
    /\ UNCHANGED <<ipRows, ipNext, ipList, ipFresh, ipExcused>>

Install(c) ==
    LET call == ipCalls[c] IN
    /\ call.pc = "install"
    /\ ipList' = Effective(call.ips) /\ ipFresh' = TRUE
    /\ ipExcused' = call.old
    /\ Goes(c, IF call.kind = "request" THEN Answered(call.addr, ipList') ELSE Done)
    /\ UNCHANGED <<ipRows, ipNext>>

\* A load that fails: initialize goes back to the default, a request uses the
\* list there is, an edit reports the error.
LoadFails(c) ==
    LET call == ipCalls[c] IN
    /\ call.pc = "query"
    /\ ipList' = IF call.kind = "init" THEN {AllowAll} ELSE ipList
    /\ ipExcused' = (ipExcused \/ call.kind # "request")
    /\ Goes(c, IF call.kind = "request" THEN Answered(call.addr, ipList) ELSE Done)
    /\ UNCHANGED <<ipRows, ipNext, ipFresh>>

Respond(c) ==
    /\ ipCalls[c].pc = "answered"
    /\ Goes(c, Done)
    /\ UNCHANGED <<ipRows, ipNext, ipList, ipFresh, ipExcused>>

Outdate ==
    /\ ipFresh /\ ipFresh' = FALSE
    /\ UNCHANGED <<ipRows, ipNext, ipList, ipCalls, ipExcused>>

\* The new calls, entries and addresses may be some of all.
IpNextOn(calls, entries, addrs) ==
    \/ \E c \in calls :
         \/ \E ips \in SUBSET entries :
              \/ Begin(c, "update", ips)
              \/ ips # {} /\ (Begin(c, "delete", ips) \/ Begin(c, "add", ips))
         \/ Begin(c, "allow", {}) \/ Begin(c, "deny", {})
         \/ \E addr \in addrs : Request(c, addr)
    \/ \E c \in Guards :
         \/ FindDeleted(c) \/ FindExisting(c) \/ FindAllowAll(c) \/ FindOthers(c)
         \/ Replace(c) \/ Delete(c) \/ Add(c) \/ SwitchOff(c) \/ SwitchOn(c)
         \/ ReadAdded(c) \/ EditFails(c)
         \/ Query(c) \/ Install(c) \/ LoadFails(c) \/ Respond(c)
    \/ Outdate

Addrs == 0 .. 2 ^ AddrBits - 1
GuardNext ==
    \/ RateNext /\ UNCHANGED ipVars
    \/ IpNextOn(Guards, IpEntries, Addrs) /\ UNCHANGED rateVars
GuardSpec == GuardInit /\ [][GuardNext]_guardVars

----------------------------------------------------------------------------
(* Properties *)

GuardTypeOK ==
    /\ rlCount \in [count : 0 .. MaxLimit, age : 0 .. Window, idle : 0 .. 2 * Window + 1]
    /\ rlAdmitted \in [0 .. Window - 1 -> Nat] /\ rlTold \in 0 .. NotTold
    /\ \A r \in ipRows : r.id \in 1 .. ipNext - 1 /\ r.ip \in IpEntries \cup {AllowAll}
    /\ ipNext \in 1 .. MaxIpId + 1 /\ ipFresh \in BOOLEAN /\ ipExcused \in BOOLEAN
    /\ ipList \subseteq IpEntries \cup {AllowAll} /\ ipList # {}
    /\ \A c \in Guards : ipCalls[c].pc \in {"done", "find", "write", "added", "query", "install", "answered"}

\* No stretch of WINDOW_SIZE, wherever it begins, admits as much as two full
\* windows (checkRateLimit counts in windows that begin with a request, and
\* cleanupExpiredCounts forgets them).
BoundedRate == rlAdmitted[Window - 1] <= 2 * MaxLimit - 1

\* A user who waits for the Retry-After of a refusal is admitted, whatever the
\* limit is by then: the answer is rounded to seconds, the window is not.
RetryAfterHonoured == rlTold = 0 => WindowOver

\* When no edit and no load is under way, the list in memory is that of the
\* table, unless the last load failed or was overtaken by a change of the table
\* (loads are not serialised, and the slower one wins).
ListIsOfTable ==
    (\A c \in Guards : ipCalls[c].pc \in {"done", "answered"}) /\ ~ipExcused
        => ipList = Effective(IpsOf(ipRows))

\* A request is let in exactly if its address lies in the block of an entry of
\* the list it was held against (isIpMatch compares masked numbers).
Covers(e, addr) ==
    LET size == 2 ^ (AddrBits - e.bits) IN IF e.cidr THEN addr \div size = e.net \div size ELSE addr = e.net
DecidedByBlocks ==
    \A c \in Guards : ipCalls[c].pc = "answered" =>
        (ipCalls[c].allowed <=> \E e \in ipCalls[c].ips : Covers(e, ipCalls[c].addr))

\* The limit holds for every stretch of time, and refusals tell the truth
\* (RateLimitService.ts, RateLimitMiddleware.ts).
RateHonoured == BoundedRate /\ RetryAfterHonoured

\* Requests are held against the list of the table, as blocks of addresses
\* (IpWhitelistService.ts).
ListEnforced == GuardTypeOK /\ ListIsOfTable /\ DecidedByBlocks
=============================================================================
