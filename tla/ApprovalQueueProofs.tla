------------------------ MODULE ApprovalQueueProofs ------------------------
(***************************************************************************)
(* What ApprovalQueue guarantees for any number of calls, hashes and rows, *)
(* any time-outs and limits and any clock skew.                            *)
(***************************************************************************)
EXTENDS ApprovalQueue, FiniteSetTheorems, TLAPS

(* A call at one of these points owns the row it claimed. *)
Holding == {"claimed", "running", "markOk", "markFailed", "caught"}

(* A call at one of these points has found or created a row. *)
WithRow == Holding \cup {"wait", "replay", "claim", "lost"}

Holds(c, r) == calls[c].pc \in Holding /\ calls[c].row = r

(* The parts of the inductive invariant.  A call that works on a row has   *)
(* one. *)
RowKnown == \A c \in Calls : calls[c].pc \in WithRow => calls[c].row \in RowIds

(* Nobody claimed a row in these states, so its tool did not run. *)
Unclaimed == \A r \in RowIds :
    rows[r].st \in {"FREE", "PENDING", "APPROVED", "REJECTED", "EXPIRED"}
    => runs[r] = 0 /\ \A c \in Calls : ~Holds(c, r)

(* The others were approved before. *)
Granted == \A r \in RowIds :
    rows[r].st \in {"APPROVED", "EXECUTING", "EXECUTED", "FAILED"}
    => rows[r].dec = "APPROVED"

(* A row has at most one owner, who has not run it while at "claimed". *)
OneOwner == \A r \in RowIds : \A c, d \in Calls : Holds(c, r) /\ Holds(d, r) => c = d
NotYetRun == \A c \in Calls : calls[c].pc = "claimed" => runs[calls[c].row] = 0
OneRun == \A r \in RowIds : runs[r] \in {0, 1}

-----------------------------------------------------------------------------
(* Moving a handler on keeps the type of its state. *)
LEMMA GotoType ==
    ASSUME TypeOK, NEW c \in Calls, NEW pc \in PCs, Goto(c, pc)
    PROVE  calls' \in [Calls -> Call]
BY DEF TypeOK, Goto, Call

(* Neither the lowest nor the initial time to live leaves the range.       *)
LEMMA TtlRange == TtlFloor \in Ttl /\ Expiry + Skew \in Ttl
BY BoundsAssumption DEF Ttl, TtlFloor, TtlTop

(* A handler that starts, or ends, has a well-typed state. *)
LEMMA CallAtType ==
    ASSUME NEW pc \in PCs, NEW h \in Hashes \cup {NoHash},
           NEW r \in RowIds \cup {NoRow}, NEW att \in 0..MaxRetries,
           NEW reply \in Replies
    PROVE  CallAt(pc, h, r, att, reply) \in Call
BY BoundsAssumption, TtlRange DEF CallAt, Call

(* What a handler that found a row goes on with. *)
LEMMA FoundShape ==
    ASSUME TypeOK, NEW c \in Calls, NEW pc \in {"wait", "claim"}, NEW r \in RowIds,
           NEW left \in 0..Wait
    PROVE  /\ Found(c, pc, r, left) \in Call
           /\ Found(c, pc, r, left).pc = pc
           /\ Found(c, pc, r, left).row = r
<1>1. calls[c] \in Call /\ pc \in PCs /\ {} \in SUBSET RowIds
  BY DEF TypeOK, PCs
<1>2. Found(c, pc, r, left) \in Call
  BY <1>1, TtlRange DEF Call, Found
<1>3. Found(c, pc, r, left).pc = pc /\ Found(c, pc, r, left).row = r
  BY <1>1 DEF Call, Found
<1> QED BY <1>2, <1>3

(* Answering a call keeps the type of its state. *)
LEMMA ReplyType ==
    ASSUME TypeOK, NEW c \in Calls, NEW what \in Replies, Reply(c, what)
    PROVE  calls' \in [Calls -> Call]
<1>1. /\ calls[c].hash \in Hashes \cup {NoHash}
      /\ calls[c].row \in RowIds \cup {NoRow}
  BY DEF TypeOK, Call
<1>2. "idle" \in PCs /\ 0 \in 0..MaxRetries
  BY BoundsAssumption DEF PCs
<1>3. Answer(c, calls[c].row, what) \in Call
  BY <1>1, <1>2, CallAtType DEF Answer
<1> QED BY <1>3 DEF TypeOK, Reply

(* And so does waiting for a row, or claiming it. *)
LEMMA WaitingType ==
    ASSUME TypeOK, NEW c \in Calls, NEW r \in RowIds
    PROVE  Waiting(c, r) \in Call
<1>1. calls[c] \in Call /\ calls[c].hash \in Hashes \cup {NoHash}
  BY DEF TypeOK, Call
<1>2. "idle" \in PCs /\ "pending" \in Replies /\ 0 \in 0..MaxRetries
  BY BoundsAssumption DEF PCs, Replies
<1>3. Answer(c, r, "pending") \in Call
  BY <1>1, <1>2, CallAtType DEF Answer
<1>4. Found(c, "wait", r, Wait) \in Call
  BY FoundShape, BoundsAssumption
<1> QED BY <1>3, <1>4 DEF Waiting

(* A call that found a row keeps a well-typed state. *)
LEMMA CheckedType ==
    ASSUME TypeOK, NEW c \in Calls, NEW r \in RowIds, Checked(c, r)
    PROVE  calls' \in [Calls -> Call]
<1>1. Found(c, "claim", r, 0) \in Call
  BY FoundShape, BoundsAssumption
<1> QED BY <1>1, WaitingType DEF Checked, TypeOK

(* A row keeps its type when its status and the time of its last update    *)
(* change, whatever else is recorded.                                      *)
LEMMA RowType ==
    ASSUME NEW row \in Row, NEW st \in Status, NEW dec \in {"APPROVED", "REJECTED"},
           NEW res \in {"payload", "preview"}
    PROVE  /\ [row EXCEPT !.st = st, !.idle = 0] \in Row
           /\ [row EXCEPT !.st = st, !.dec = dec] \in Row
           /\ [row EXCEPT !.st = st, !.res = res, !.idle = 0] \in Row
           /\ [row EXCEPT !.idle = 0] \in Row
<1>1. 0 \in 0..Stale
  BY BoundsAssumption
<1>2. [row EXCEPT !.st = st, !.idle = 0] \in Row
  BY <1>1 DEF Row
<1>3. [row EXCEPT !.st = st, !.dec = dec] \in Row
  BY DEF Row
<1>4. [row EXCEPT !.st = st, !.res = res, !.idle = 0] \in Row
  BY <1>1 DEF Row
<1>5. [row EXCEPT !.idle = 0] \in Row
  BY <1>1 DEF Row
<1> QED BY <1>2, <1>3, <1>4, <1>5

(* Expiring rows keeps the type of the table. *)
LEMMA ExpireType ==
    ASSUME TypeOK, NEW R, Expire(R)
    PROVE  rows' \in [RowIds -> Row]
BY RowType DEF TypeOK, Expire, Status

(* Time keeps the type of a row. *)
LEMMA OlderType ==
    ASSUME NEW row \in Row
    PROVE  Older(row) \in Row
<1> DEFINE ttl == IF row.st \in Active /\ row.ttl > TtlFloor THEN row.ttl - 1 ELSE row.ttl
           idle == IF row.st = "EXECUTING" /\ row.idle < Stale THEN row.idle + 1
                                                             ELSE row.idle
           age == IF row.age <= Window THEN row.age + 1 ELSE row.age
<1>1. row.ttl \in Ttl /\ row.idle \in 0..Stale /\ row.age \in 0..(Window + 1)
  BY DEF Row
<1>2. ttl \in Ttl
  BY <1>1, BoundsAssumption DEF Ttl, TtlFloor, TtlTop
<1>3. idle \in 0..Stale /\ age \in 0..(Window + 1)
  BY <1>1, BoundsAssumption
<1> HIDE DEF ttl, idle, age
<1>4. [row EXCEPT !.ttl = ttl, !.idle = idle, !.age = age] \in Row
  BY <1>2, <1>3 DEF Row
<1> QED BY <1>4 DEF Older, ttl, idle, age

(* Time changes nothing of a handler but its deadline and its expiry.      *)
LEMMA LaterShape ==
    ASSUME NEW call \in Call
    PROVE  /\ Later(call) \in Call
           /\ Later(call).pc = call.pc /\ Later(call).row = call.row
           /\ Later(call).tries = call.tries
           /\ Later(call).hash = call.hash /\ Later(call).reply = call.reply
<1>1. CASE call.pc = "wait" /\ call.left > 0
  <2>1. call.left - 1 \in 0..Wait
    BY <1>1, BoundsAssumption DEF Call
  <2> QED BY <1>1, <2>1 DEF Later, Call
<1>2. CASE ~(call.pc = "wait" /\ call.left > 0)
  <2>1. call.exp > TtlFloor => call.exp - 1 \in Ttl
    BY BoundsAssumption DEF Call, Ttl, TtlFloor, TtlTop
  <2> QED BY <1>2, <2>1 DEF Later, Call
<1> QED BY <1>1, <1>2

(* The conflict loop expires rows only before its last attempt. *)
RetriesLeft == \A c \in Calls : calls[c].pc = "expire" => calls[c].tries < MaxConflicts

TypeInv == TypeOK /\ RetriesLeft

(* Moving on does not use up a retry of the conflict loop. *)
LEMMA GotoKeepsRetries ==
    ASSUME TypeOK, RetriesLeft, NEW c \in Calls, NEW pc, pc # "expire", Goto(c, pc)
    PROVE  RetriesLeft'
BY DEF TypeOK, RetriesLeft, Goto, Call

(* Neither does answering. *)
LEMMA ReplyKeepsRetries ==
    ASSUME TypeOK, RetriesLeft, NEW c \in Calls, NEW what, Reply(c, what)
    PROVE  RetriesLeft'
BY DEF TypeOK, RetriesLeft, Reply, Answer, CallAt

(* Nor does finding a row. *)
LEMMA CheckedKeepsRetries ==
    ASSUME TypeOK, RetriesLeft, NEW c \in Calls, NEW r \in RowIds, Checked(c, r)
    PROVE  RetriesLeft'
<1>1. Waiting(c, r).pc # "expire"
  BY FoundShape, BoundsAssumption DEF Waiting, Answer, CallAt
<1>2. Found(c, "claim", r, 0).pc # "expire"
  BY FoundShape, BoundsAssumption
<1>3. calls'[c].pc # "expire"
  BY <1>1, <1>2 DEF Checked, TypeOK
<1>4. \A d \in Calls \ {c} : calls'[d] = calls[d]
  BY DEF Checked, TypeOK
<1> QED BY <1>3, <1>4 DEF RetriesLeft

(* The type invariant, with the bound on the conflict loop, is inductive.  *)
LEMMA TypeInductive == TypeInv /\ [Next]_vars => TypeInv'
<1> SUFFICES ASSUME TypeInv, [Next]_vars PROVE TypeInv'
  OBVIOUS
<1> USE DEF TypeInv, RetriesLeft
<1>1. ASSUME NEW c \in Calls, NEW h \in Hashes, Begin(c, h) PROVE TypeInv'
  <2>1. CallAt("find", h, NoRow, 0, "none") \in Call
    BY CallAtType, BoundsAssumption DEF PCs, Replies
  <2> QED BY <1>1, <2>1 DEF TypeOK, Begin, CallAt
<1>2. ASSUME NEW c \in Calls, FindActive(c) PROVE TypeInv'
  <2>1. TypeOK'
    BY <1>2, GotoType, CheckedType DEF TypeOK, FindActive, Visible, ActiveRows, PCs
  <2>2. RetriesLeft'
    BY <1>2, CheckedKeepsRetries, GotoKeepsRetries DEF FindActive, Visible, ActiveRows
  <2> QED BY <2>1, <2>2
<1>3. ASSUME NEW c \in Calls, CountByHash(c) PROVE TypeInv'
  <2>1. TypeOK'
    BY <1>3, GotoType, ReplyType DEF TypeOK, CountByHash, PCs, Replies
  <2>2. RetriesLeft'
    BY <1>3 DEF CountByHash, Reply, Answer, CallAt, Goto, TypeOK, Call
  <2> QED BY <2>1, <2>2
<1>4. ASSUME NEW c \in Calls, CountByTool(c) PROVE TypeInv'
  <2>1. CASE Reply(c, "limited")
    BY <1>4, <2>1, ReplyType, ReplyKeepsRetries DEF TypeOK, CountByTool, Replies
  <2>2. CASE calls' = [calls EXCEPT ![c].pc = "insert", ![c].exp = Expiry + Skew]
    <3>1. PICK e \in Ttl : calls' = [calls EXCEPT ![c].pc = "insert", ![c].exp = e]
      BY <2>2, TtlRange
    <3>2. calls' \in [Calls -> Call]
      <4>1. calls[c] \in Call /\ "insert" \in PCs
        BY DEF TypeOK, PCs
      <4>2. [calls[c] EXCEPT !.pc = "insert", !.exp = e] \in Call
        BY <4>1 DEF Call
      <4> QED BY <3>1, <4>2 DEF TypeOK
    <3>3. RetriesLeft'
      BY <3>1 DEF TypeOK, Call
    <3> QED BY <1>4, <3>2, <3>3 DEF TypeOK, CountByTool
  <2> QED BY <1>4, <2>1, <2>2 DEF CountByTool
<1>5. ASSUME NEW c \in Calls, Insert(c) PROVE TypeInv'
  <2>1. CASE ActiveRows(calls[c].hash) # {}
    <3>1. PICK D \in SUBSET RowIds :
            calls' = [calls EXCEPT ![c].pc = "existing", ![c].dead = D]
      BY <1>5, <2>1 DEF Insert, ActiveRows
    <3> QED BY <1>5, <2>1, <3>1 DEF TypeOK, Insert, Call, PCs
  <2>2. CASE ActiveRows(calls[c].hash) = {}
    <3>1. PICK r \in Free : /\ rows' = [rows EXCEPT ![r] = NewRow(calls[c].hash, calls[c].exp)]
                            /\ calls' = [calls EXCEPT ![c] = Waiting(c, r)]
      BY <1>5, <2>2 DEF Insert
    <3>2. NewRow(calls[c].hash, calls[c].exp) \in Row
      BY BoundsAssumption DEF TypeOK, NewRow, Row, Call, Status
    <3>3. rows' \in [RowIds -> Row] /\ calls' \in [Calls -> Call]
      BY <3>1, <3>2, WaitingType DEF TypeOK, Free
    <3>4. RetriesLeft'
      <4>1. r \in RowIds /\ Waiting(c, r).pc # "expire"
        BY FoundShape, BoundsAssumption DEF Waiting, Answer, CallAt, Free
      <4> QED BY <3>1, <4>1 DEF TypeOK
    <3> QED BY <1>5, <3>3, <3>4 DEF TypeOK, Insert
  <2> QED BY <2>1, <2>2
<1>6. ASSUME NEW c \in Calls, FindExisting(c) PROVE TypeInv'
  <2>1. TypeOK'
    BY <1>6, GotoType, ReplyType, CheckedType
       DEF TypeOK, FindExisting, Existing, ActiveRows, PCs, Replies
  <2>2. RetriesLeft'
    <3>1. CASE calls[c].tries >= MaxConflicts
      BY <1>6, <3>1, CheckedKeepsRetries, ReplyKeepsRetries
         DEF FindExisting, Existing, ActiveRows
    <3>2. CASE ~(calls[c].tries >= MaxConflicts)
      BY <1>6, <3>2, CheckedKeepsRetries, BoundsAssumption
         DEF FindExisting, Existing, ActiveRows, Goto, TypeOK, Call
    <3> QED BY <3>1, <3>2
  <2> QED BY <2>1, <2>2
<1>7. ASSUME NEW c \in Calls, ExpireAndRetry(c) PROVE TypeInv'
  <2>1. rows' \in [RowIds -> Row]
    BY <1>7, ExpireType DEF ExpireAndRetry
  <2>2. calls' \in [Calls -> Call] /\ RetriesLeft'
    BY <1>7, BoundsAssumption DEF TypeOK, ExpireAndRetry, Call, PCs
  <2> QED BY <1>7, <2>1, <2>2 DEF TypeOK, ExpireAndRetry
<1>8. ASSUME NEW c \in Calls, Poll(c) \/ TimeOut(c) \/ Abort(c) PROVE TypeInv'
  <2>1. TypeOK'
    BY <1>8, GotoType, ReplyType DEF TypeOK, Poll, TimeOut, Abort, PCs, Replies
  <2>2. RetriesLeft'
    BY <1>8 DEF Poll, TimeOut, Abort, Reply, Answer, CallAt, Goto, TypeOK, Call
  <2> QED BY <2>1, <2>2
<1>9. ASSUME NEW c \in Calls, Replay(c) \/ ClaimLost(c) PROVE TypeInv'
  <2>1. PICK what \in {ReplayReply(calls[c].row), "pending"} : Reply(c, what)
    BY <1>9 DEF Replay, ClaimLost
  <2>2. what \in Replies
    BY DEF ReplayReply, Replies
  <2>3. RetriesLeft'
    BY <2>1, ReplyKeepsRetries
  <2> QED BY <1>9, <2>1, <2>2, <2>3, ReplyType DEF TypeOK, Replay, ClaimLost
<1>10. ASSUME NEW c \in Calls, Claim(c) PROVE TypeInv'
  <2>1. calls' \in [Calls -> Call]
    BY <1>10, GotoType, ReplyType DEF Claim, PCs, Replies
  <2>2. rows' \in [RowIds -> Row]
    <3> DEFINE r == calls[c].row
    <3>1. [rows[r] EXCEPT !.st = "EXECUTING", !.idle = 0] \in Row \/ r \notin RowIds
      BY RowType DEF TypeOK, Status
    <3> QED BY <1>10, <3>1 DEF Claim, TypeOK
  <2>3. RetriesLeft'
    BY <1>10 DEF Claim, Reply, Answer, CallAt, Goto, TypeOK, Call
  <2> QED BY <1>10, <2>1, <2>2, <2>3 DEF TypeOK, Claim
<1>11. ASSUME NEW c \in Calls, Forward(c) PROVE TypeInv'
  <2>1. calls' \in [Calls -> Call]
    BY <1>11, GotoType DEF Forward, PCs
  <2>2. RetriesLeft'
    BY <1>11 DEF Forward, Goto, TypeOK, Call
  <2>3. runs' \in [RowIds -> Nat]
    <3>1. ASSUME NEW q PROVE [runs EXCEPT ![q] = @ + 1] \in [RowIds -> Nat]
      <4>1. q \in RowIds => runs[q] + 1 \in Nat
        BY DEF TypeOK
      <4> QED BY <4>1 DEF TypeOK
    <3> QED BY <1>11, <3>1 DEF Forward
  <2> QED BY <1>11, <2>1, <2>2, <2>3 DEF Forward, TypeOK
<1>12. ASSUME NEW c \in Calls, Touch(c) PROVE TypeInv'
  BY <1>12, RowType DEF Touch, TypeOK, Status
<1>13. ASSUME NEW c \in Calls, NEW isError \in BOOLEAN,
              ToolAnswers(c, isError) \/ ToolThrows(c)
       PROVE  TypeInv'
  <2>1. TypeOK'
    BY <1>13, GotoType DEF ToolAnswers, ToolThrows, TypeOK, PCs
  <2>2. RetriesLeft'
    BY <1>13 DEF ToolAnswers, ToolThrows, Goto, TypeOK, Call
  <2> QED BY <2>1, <2>2
<1>14. ASSUME NEW c \in Calls, NEW ok \in BOOLEAN, NEW res \in {"payload", "preview"},
              MarkExecuted(c, ok, res)
       PROVE  TypeInv'
  <2>1. calls' \in [Calls -> Call]
    BY <1>14, ReplyType DEF MarkExecuted, Replies
  <2>2. rows' \in [RowIds -> Row]
    BY <1>14, RowType DEF MarkExecuted, TypeOK, Status
  <2>3. RetriesLeft'
    BY <1>14 DEF MarkExecuted, Reply, Answer, CallAt, TypeOK, Call
  <2> QED BY <1>14, <2>1, <2>2, <2>3 DEF TypeOK, MarkExecuted
<1>15. ASSUME NEW c \in Calls, NEW ok \in BOOLEAN, MarkFailed(c, ok) PROVE TypeInv'
  <2>1. calls' \in [Calls -> Call]
    BY <1>15, ReplyType DEF MarkFailed, Replies
  <2>2. rows' \in [RowIds -> Row]
    BY <1>15, RowType DEF MarkFailed, FailRow, TypeOK, Status
  <2>3. RetriesLeft'
    BY <1>15 DEF MarkFailed, Reply, Answer, CallAt, TypeOK, Call
  <2> QED BY <1>15, <2>1, <2>2, <2>3 DEF TypeOK, MarkFailed
<1>16. ASSUME NEW c \in Calls, NEW ok \in BOOLEAN, NEW rec \in BOOLEAN,
              CatchError(c, ok, rec)
       PROVE  TypeInv'
  <2>1. calls' \in [Calls -> Call] /\ RetriesLeft'
    <3>1. CASE Reply(c, "error")
      BY <3>1, ReplyType DEF Reply, Answer, CallAt, Replies, TypeOK, Call
    <3>2. CASE ~Reply(c, "error")
      <4>1. /\ calls[c].att + 1 \in 0..MaxRetries
            /\ calls' = [calls EXCEPT ![c] =
                  CallAt("find", calls[c].hash, NoRow, calls[c].att + 1, "none")]
        BY <1>16, <3>2, BoundsAssumption DEF CatchError, TypeOK, Call
      <4>2. CallAt("find", calls[c].hash, NoRow, calls[c].att + 1, "none") \in Call
        <5>1. calls[c].hash \in Hashes \cup {NoHash}
          BY DEF TypeOK, Call
        <5>2. "find" \in PCs /\ "none" \in Replies /\ NoRow \in RowIds \cup {NoRow}
          BY DEF PCs, Replies
        <5> QED BY <4>1, <5>1, <5>2, CallAtType
      <4> QED BY <4>1, <4>2 DEF TypeOK, CallAt
    <3> QED BY <3>1, <3>2
  <2>2. rows' \in [RowIds -> Row]
    BY <1>16, RowType DEF CatchError, FailRow, TypeOK, Status
  <2> QED BY <1>16, <2>1, <2>2 DEF TypeOK, CatchError
<1>17. ASSUME NEW c \in Calls, DbFails(c) PROVE TypeInv'
  <2>1. TypeOK'
    BY <1>17, ReplyType DEF DbFails, TypeOK, Replies
  <2>2. RetriesLeft'
    BY <1>17 DEF DbFails, Reply, Answer, CallAt, TypeOK, Call
  <2> QED BY <2>1, <2>2
<1>18. ASSUME NEW r \in RowIds, NEW d \in {"APPROVED", "REJECTED"}, Decide(r, d)
       PROVE  TypeInv'
  BY <1>18, RowType DEF Decide, TypeOK, Status
<1>19. CASE ExpireStale
  BY <1>19, ExpireType DEF ExpireStale, TypeOK
<1>20. CASE RecoverStaleExecuting
  BY <1>20, RowType DEF RecoverStaleExecuting, TypeOK, Status
<1>21. CASE Crash
  BY <1>21, BoundsAssumption, TtlRange DEF Crash, TypeOK, Call, IdleCall, CallAt, PCs, Replies, NoRow
<1>22. CASE Tick
  <2>1. rows' \in [RowIds -> Row]
    BY <1>22, OlderType DEF Tick, TypeOK
  <2>2. calls' \in [Calls -> Call] /\ RetriesLeft'
    BY <1>22, LaterShape DEF Tick, TypeOK
  <2> QED BY <1>22, <2>1, <2>2 DEF Tick, TypeOK
<1>23. CASE UNCHANGED vars
  BY <1>23 DEF vars, TypeOK
<1> QED
  BY <1>1, <1>2, <1>3, <1>4, <1>5, <1>6, <1>7, <1>8, <1>9, <1>10, <1>11, <1>12,
     <1>13, <1>14, <1>15, <1>16, <1>17, <1>18, <1>19, <1>20, <1>21, <1>22, <1>23
     DEF Next, Handler

(* The initial state has the declared types. *)
LEMMA TypeInit == Init => TypeInv
BY BoundsAssumption
   DEF Init, TypeInv, RetriesLeft, TypeOK, Row, Call, FreeRow, IdleCall, CallAt, Status,
       PCs, Replies, Ttl, TtlFloor, TtlTop, NoRow

(* Every reachable state has the declared types. *)
THEOREM TypeCorrect == Spec => []TypeOK
<1>1. TypeInv => TypeOK
  BY DEF TypeInv
<1>2. QED
  BY <1>1, TypeInit, TypeInductive, PTL DEF Spec

-----------------------------------------------------------------------------
(* One active row per hash.  Only Insert makes a row active, and only when *)
(* the partial unique index finds no other one of that hash.               *)

(* A step that leaves hashes alone and activates no row keeps it. *)
NoNewActive == \A r \in RowIds : rows'[r].st \in Active =>
                   rows[r].st \in Active /\ rows'[r].hash = rows[r].hash

(* A step after which no row is active that was not so before keeps the *)
(* active rows unique.                                                     *)
LEMMA NoNewActiveKeeps == OneActivePerHash /\ NoNewActive => OneActivePerHash'
BY DEF OneActivePerHash, NoNewActive

(* Every step keeps the active rows of a hash unique: only Insert makes a *)
(* row active, and only if the hash has none.                              *)
LEMMA ActiveInductive ==
    TypeInv /\ OneActivePerHash /\ [Next]_vars => OneActivePerHash'
<1> SUFFICES ASSUME TypeInv, OneActivePerHash, [Next]_vars PROVE OneActivePerHash'
  OBVIOUS
<1> USE DEF TypeInv
<1>1. CASE UNCHANGED rows
  BY <1>1 DEF OneActivePerHash
<1>2. ASSUME NEW c \in Calls, Insert(c), ~UNCHANGED rows PROVE OneActivePerHash'
  <2>1. PICK r \in RowIds : rows' = [rows EXCEPT ![r] = NewRow(calls[c].hash, calls[c].exp)]
    BY <1>2 DEF Insert, Free
  <2>2. ActiveRows(calls[c].hash) = {}
    BY <1>2 DEF Insert
  <2>3. \A q \in RowIds : q # r => rows'[q] = rows[q]
    BY <2>1 DEF TypeOK
  <2>4. rows'[r].hash = calls[c].hash
    BY <2>1 DEF TypeOK, NewRow
  <2> QED BY <2>2, <2>3, <2>4 DEF OneActivePerHash, ActiveRows
<1>3. ASSUME NEW R, R \subseteq Overdue, Expire(R) PROVE OneActivePerHash'
  <2>1. NoNewActive
    BY <1>3 DEF NoNewActive, Expire, TypeOK, Row, Active, Status
  <2> QED BY <2>1, NoNewActiveKeeps
<1>4. ASSUME NEW c \in Calls, Claim(c), ~UNCHANGED rows PROVE OneActivePerHash'
  <2>1. NoNewActive
    BY <1>4 DEF NoNewActive, Claim, TypeOK, Row, Active
  <2> QED BY <2>1, NoNewActiveKeeps
<1>5. ASSUME NEW c \in Calls, Touch(c) PROVE OneActivePerHash'
  <2>1. NoNewActive
    BY <1>5 DEF NoNewActive, Touch, TypeOK, Row, Active
  <2> QED BY <2>1, NoNewActiveKeeps
<1>6. ASSUME NEW c \in Calls, NEW ok \in BOOLEAN, NEW res \in {"payload", "preview"},
             MarkExecuted(c, ok, res), ~UNCHANGED rows
      PROVE  OneActivePerHash'
  <2>1. NoNewActive
    BY <1>6 DEF NoNewActive, MarkExecuted, TypeOK, Row, Active
  <2> QED BY <2>1, NoNewActiveKeeps
<1>7. ASSUME NEW r, NEW ok \in BOOLEAN, FailRow(r, ok), ~UNCHANGED rows
      PROVE  OneActivePerHash'
  <2>1. NoNewActive
    BY <1>7 DEF NoNewActive, FailRow, TypeOK, Row, Active
  <2> QED BY <2>1, NoNewActiveKeeps
<1>8. ASSUME NEW r \in RowIds, NEW d \in {"APPROVED", "REJECTED"}, Decide(r, d)
      PROVE  OneActivePerHash'
  <2>1. NoNewActive
    BY <1>8 DEF NoNewActive, Decide, TypeOK, Row, Active
  <2> QED BY <2>1, NoNewActiveKeeps
<1>9. CASE RecoverStaleExecuting
  <2>1. NoNewActive
    BY <1>9 DEF NoNewActive, RecoverStaleExecuting, TypeOK, Row, Active
  <2> QED BY <2>1, NoNewActiveKeeps
<1>10. CASE Tick
  <2>1. ASSUME NEW row \in Row
        PROVE  Older(row).st = row.st /\ Older(row).hash = row.hash
    BY <2>1 DEF Older, Row
  <2>2. NoNewActive
    BY <1>10, <2>1 DEF NoNewActive, Tick, TypeOK
  <2> QED BY <2>2, NoNewActiveKeeps
<1>11. ASSUME NEW c \in Calls, ExpireAndRetry(c) PROVE OneActivePerHash'
  BY <1>3, <1>11 DEF ExpireAndRetry
<1>12. CASE ExpireStale
  BY <1>3, <1>12 DEF ExpireStale
<1>13. ASSUME NEW c \in Calls, NEW ok \in BOOLEAN, NEW rec \in BOOLEAN,
              MarkFailed(c, ok) \/ CatchError(c, ok, rec)
       PROVE  OneActivePerHash'
  BY <1>1, <1>7, <1>13 DEF MarkFailed, CatchError
<1>14. ASSUME NEW c \in Calls,
              \/ FindActive(c) \/ CountByHash(c) \/ CountByTool(c) \/ FindExisting(c)
              \/ Poll(c) \/ TimeOut(c) \/ Abort(c) \/ Replay(c) \/ ClaimLost(c)
              \/ Forward(c) \/ ToolThrows(c) \/ DbFails(c)
              \/ \E isError \in BOOLEAN : ToolAnswers(c, isError)
              \/ \E h \in Hashes : Begin(c, h)
       PROVE  UNCHANGED rows
  BY <1>14 DEF FindActive, CountByHash, CountByTool, FindExisting, Poll, TimeOut,
     Abort, Replay, ClaimLost, Forward, ToolThrows, DbFails, ToolAnswers, Begin
<1>15. CASE Crash \/ UNCHANGED vars
  BY <1>1, <1>15 DEF Crash, vars
<1> QED
  BY <1>1, <1>2, <1>4, <1>5, <1>6, <1>8, <1>9, <1>10, <1>11, <1>12, <1>13,
     <1>14, <1>15 DEF Next, Handler

(* Duplicate calls share one request, for any number of concurrent         *)
(* handlers: no two rows of one hash are ever active together.             *)
LEMMA ActiveUnique == Spec => []OneActivePerHash
<1>1. Init => TypeInv /\ OneActivePerHash
  BY TypeInit DEF Init, OneActivePerHash, FreeRow, Active
<1>2. QED
  BY <1>1, TypeInductive, ActiveInductive, PTL DEF Spec

-----------------------------------------------------------------------------
(* One run per approval.  OneRunPerApproval is not inductive: that a call  *)
(* at "claimed" has not run its tool yet, that a row has one owner, and    *)
(* that a row nobody claimed has none, are what the claim's atomic UPDATE  *)
(* establishes and every other step keeps.                                 *)

Before == {"FREE", "PENDING", "APPROVED", "REJECTED", "EXPIRED"}

(* Most steps make no call the owner of a row ... *)
CallsQuiet == \A c \in Calls :
    /\ calls'[c].pc \in WithRow => calls'[c].row \in RowIds
    /\ calls'[c].pc \in Holding => /\ calls[c].pc \in Holding
                                   /\ calls'[c].row = calls[c].row
    /\ calls'[c].pc = "claimed" => calls[c].pc = "claimed"

(* ... and take no row back to a state before the claim, nor grant one     *)
(* without a decision.                                                     *)
RowsQuiet == \A r \in RowIds :
    /\ rows'[r].st \in Before => rows[r].st \in Before
    /\ rows'[r].st \in {"APPROVED", "EXECUTING", "EXECUTED", "FAILED"}
       => rows'[r].dec = "APPROVED"

OwnInv == RowKnown /\ Unclaimed /\ Granted /\ OneOwner /\ NotYetRun /\ OneRun

(* A step that neither claims nor runs anything keeps the invariant on    *)
(* owners and runs.                                                        *)
LEMMA QuietStep ==
    ASSUME OwnInv, CallsQuiet, RowsQuiet, UNCHANGED runs
    PROVE  OwnInv'
<1>1. RowKnown'
  BY DEF CallsQuiet, RowKnown
<1>2. Unclaimed'
  BY DEF OwnInv, CallsQuiet, RowsQuiet, Unclaimed, Holds, Before
<1>3. Granted'
  BY DEF RowsQuiet, Granted
<1>4. OneOwner'
  BY DEF OwnInv, CallsQuiet, OneOwner, Holds
<1>5. NotYetRun'
  BY DEF OwnInv, CallsQuiet, NotYetRun, Holding
<1>6. OneRun'
  BY DEF OwnInv, OneRun
<1> QED BY <1>1, <1>2, <1>3, <1>4, <1>5, <1>6 DEF OwnInv

(* A step that leaves the table alone is quiet for the rows. *)
LEMMA SameRows == ASSUME OwnInv, UNCHANGED rows PROVE RowsQuiet
BY DEF OwnInv, Granted, RowsQuiet

(* A step that leaves the handlers alone is quiet for the calls. *)
LEMMA SameCalls == ASSUME OwnInv, UNCHANGED calls PROVE CallsQuiet
BY DEF OwnInv, RowKnown, CallsQuiet

(* A handler that answers gives up the row it may own. *)
LEMMA ReplyQuiet ==
    ASSUME TypeOK, OwnInv, NEW c \in Calls, NEW what, Reply(c, what)
    PROVE  CallsQuiet
<1>1. calls'[c].pc = "idle"
  BY DEF Reply, Answer, CallAt, TypeOK
<1>2. \A d \in Calls \ {c} : calls'[d] = calls[d]
  BY DEF Reply, TypeOK
<1> QED BY <1>1, <1>2 DEF CallsQuiet, OwnInv, RowKnown, WithRow, Holding

(* A handler that moves on keeps the row it has. *)
LEMMA GotoQuiet ==
    ASSUME TypeOK, OwnInv, NEW c \in Calls, NEW pc, Goto(c, pc), pc # "claimed",
           pc \in Holding => calls[c].pc \in Holding,
           pc \in WithRow => calls[c].pc \in WithRow
    PROVE  CallsQuiet
<1>1. calls'[c].pc = pc /\ calls'[c].row = calls[c].row
  BY DEF Goto, TypeOK, Call
<1>2. \A d \in Calls \ {c} : calls'[d] = calls[d]
  BY DEF Goto, TypeOK
<1> QED BY <1>1, <1>2 DEF CallsQuiet, OwnInv, RowKnown

(* A handler that found or created a row does not own it. *)
LEMMA WaitingQuiet ==
    ASSUME TypeOK, OwnInv, NEW c \in Calls, NEW r \in RowIds,
           \/ calls' = [calls EXCEPT ![c] = Waiting(c, r)]
           \/ Checked(c, r)
    PROVE  CallsQuiet
<1>1. /\ Waiting(c, r).pc \in {"idle", "wait"}
      /\ Waiting(c, r).row = r
  BY FoundShape, BoundsAssumption DEF Waiting, Answer, CallAt
<1>2. /\ Found(c, "claim", r, 0).pc = "claim"
      /\ Found(c, "claim", r, 0).row = r
  BY FoundShape, BoundsAssumption
<1>3. calls'[c].pc \in {"idle", "wait", "claim"} /\ calls'[c].row = r
  BY <1>1, <1>2 DEF Checked, TypeOK
<1>4. \A d \in Calls \ {c} : calls'[d] = calls[d]
  BY DEF Checked, TypeOK
<1> QED BY <1>3, <1>4 DEF CallsQuiet, OwnInv, RowKnown, Holding

(* Expiring overdue rows touches no claimed row. *)
LEMMA ExpireQuiet ==
    ASSUME TypeOK, OwnInv, NEW R, R \subseteq Overdue, Expire(R)
    PROVE  RowsQuiet
BY DEF TypeOK, Row, OwnInv, Granted, RowsQuiet, Expire, Overdue, Before

(* Recording a failure keeps the decision of the row. *)
LEMMA FailRowQuiet ==
    ASSUME TypeOK, OwnInv, NEW r, NEW ok \in BOOLEAN, FailRow(r, ok)
    PROVE  RowsQuiet
BY DEF TypeOK, Row, OwnInv, Granted, RowsQuiet, FailRow, Before

(* The claim gives the row its only owner. *)
LEMMA ClaimOwns ==
    ASSUME TypeOK, OwnInv, NEW c \in Calls, Claim(c)
    PROVE  OwnInv'
<1> DEFINE r == calls[c].row
<1>1. r \in RowIds
  BY DEF Claim, OwnInv, RowKnown, WithRow
<1>2. CASE ~(rows[r].st = "APPROVED" /\ LiveDb(r))
  <2>1. CallsQuiet
    BY <1>2, ReplyQuiet, GotoQuiet DEF Claim, Holding, WithRow
  <2> QED BY <1>2, <2>1, SameRows, QuietStep DEF Claim
<1>3. CASE rows[r].st = "APPROVED" /\ LiveDb(r)
  <2>1. /\ runs' = runs
        /\ runs[r] = 0 /\ \A d \in Calls : ~Holds(d, r)
        /\ rows[r].dec = "APPROVED"
    BY <1>1, <1>3 DEF Claim, OwnInv, Unclaimed, Granted
  <2>2. /\ rows'[r].st = "EXECUTING" /\ rows'[r].dec = "APPROVED"
        /\ \A q \in RowIds \ {r} : rows'[q] = rows[q]
    BY <1>1, <1>3, <2>1 DEF Claim, TypeOK, Row
  <2>3. /\ calls'[c].pc = "claimed" /\ calls'[c].row = r
        /\ \A d \in Calls \ {c} : calls'[d] = calls[d]
    BY <1>3 DEF Claim, Goto, TypeOK, Call
  <2>4. \A d \in Calls, q \in RowIds :
            Holds(d, q)' <=> \/ d = c /\ q = r
                             \/ d # c /\ Holds(d, q)
    BY <2>3 DEF Holds, Holding
  <2>5. RowKnown'
    BY <1>1, <2>3 DEF RowKnown, OwnInv
  <2>6. Unclaimed'
    BY <2>1, <2>2, <2>4 DEF Unclaimed, OwnInv
  <2>7. Granted'
    BY <2>2 DEF Granted, OwnInv
  <2>8. OneOwner'
    BY <2>1, <2>4 DEF OneOwner, OwnInv
  <2>9. NotYetRun' /\ OneRun'
    BY <2>1, <2>3 DEF NotYetRun, OneRun, OwnInv
  <2> QED BY <2>5, <2>6, <2>7, <2>8, <2>9 DEF OwnInv
<1> QED BY <1>2, <1>3

(* The owner forwards the call, once. *)
LEMMA ForwardOnce ==
    ASSUME TypeOK, OwnInv, NEW c \in Calls, Forward(c)
    PROVE  OwnInv'
<1> DEFINE r == calls[c].row
<1>1. r \in RowIds /\ runs[r] = 0 /\ Holds(c, r)
  BY DEF Forward, OwnInv, RowKnown, WithRow, Holding, NotYetRun, Holds
<1>2. /\ runs'[r] = 1
      /\ \A q \in RowIds \ {r} : runs'[q] = runs[q]
      /\ rows' = rows
  BY <1>1 DEF Forward, TypeOK
<1>3. /\ calls'[c].pc = "running" /\ calls'[c].row = r
      /\ \A d \in Calls \ {c} : calls'[d] = calls[d]
  BY DEF Forward, Goto, TypeOK, Call
<1>4. \A d \in Calls, q \in RowIds : Holds(d, q)' <=> Holds(d, q)
  BY <1>1, <1>3 DEF Holds, Holding
<1>5. rows[r].st \notin Before
  BY <1>1 DEF OwnInv, Unclaimed, Before
<1>6. RowKnown' /\ Granted' /\ OneOwner'
  BY <1>1, <1>2, <1>3, <1>4 DEF OwnInv, RowKnown, Granted, OneOwner
<1>7. Unclaimed' /\ OneRun'
  BY <1>1, <1>2, <1>4, <1>5 DEF OwnInv, Unclaimed, OneRun, Before
<1>8. NotYetRun'
  <2> SUFFICES ASSUME NEW d \in Calls, calls'[d].pc = "claimed"
               PROVE  runs'[calls'[d].row] = 0
    BY DEF NotYetRun
  <2>1. d # c /\ calls'[d] = calls[d]
    BY <1>3
  <2>2. calls[d].row \in RowIds /\ Holds(d, calls[d].row)
    BY <2>1 DEF OwnInv, RowKnown, WithRow, Holding, Holds
  <2>3. calls[d].row # r
    BY <1>1, <2>1, <2>2 DEF OwnInv, OneOwner
  <2> QED BY <1>2, <2>1, <2>2, <2>3 DEF OwnInv, NotYetRun
<1> QED BY <1>6, <1>7, <1>8 DEF OwnInv

(* The invariant on owners, decisions and runs is inductive. *)
LEMMA OwnInductive == TypeOK /\ OwnInv /\ [Next]_vars => OwnInv'
<1> SUFFICES ASSUME TypeOK, OwnInv, [Next]_vars PROVE OwnInv'
  OBVIOUS
<1>1. ASSUME NEW c \in Calls, NEW h \in Hashes, Begin(c, h) PROVE OwnInv'
  <2>1. CallsQuiet
    BY <1>1 DEF Begin, CallAt, TypeOK, CallsQuiet, OwnInv, RowKnown, WithRow, Holding
  <2> QED BY <1>1, <2>1, SameRows, QuietStep DEF Begin
<1>2. ASSUME NEW c \in Calls, FindActive(c) \/ FindExisting(c) PROVE OwnInv'
  <2>1. CallsQuiet
    BY <1>2, WaitingQuiet, GotoQuiet, ReplyQuiet
       DEF FindActive, FindExisting, Visible, Existing, ActiveRows, WithRow, Holding
  <2> QED BY <1>2, <2>1, SameRows, QuietStep DEF FindActive, FindExisting
<1>3. ASSUME NEW c \in Calls, CountByHash(c) \/ CountByTool(c) \/ DbFails(c) PROVE OwnInv'
  <2>1. ASSUME calls' = [calls EXCEPT ![c].pc = "insert", ![c].exp = Expiry + Skew]
        PROVE  CallsQuiet
    BY <2>1 DEF TypeOK, Call, CallsQuiet, OwnInv, RowKnown, WithRow, Holding
  <2>2. CallsQuiet
    BY <1>3, <2>1, GotoQuiet, ReplyQuiet DEF CountByHash, CountByTool, DbFails, WithRow, Holding
  <2> QED BY <1>3, <2>2, SameRows, QuietStep DEF CountByHash, CountByTool, DbFails
<1>4. ASSUME NEW c \in Calls, Insert(c) PROVE OwnInv'
  <2>1. CASE ActiveRows(calls[c].hash) # {}
    <3>1. PICK D : calls' = [calls EXCEPT ![c].pc = "existing", ![c].dead = D]
      BY <1>4, <2>1 DEF Insert
    <3>2. CallsQuiet
      BY <3>1 DEF TypeOK, Call, CallsQuiet, OwnInv, RowKnown, WithRow, Holding
    <3> QED BY <1>4, <2>1, <3>2, SameRows, QuietStep DEF Insert
  <2>2. CASE ActiveRows(calls[c].hash) = {}
    <3>1. PICK r \in Free : /\ rows' = [rows EXCEPT ![r] = NewRow(calls[c].hash, calls[c].exp)]
                            /\ calls' = [calls EXCEPT ![c] = Waiting(c, r)]
      BY <1>4, <2>2 DEF Insert
    <3>2. CallsQuiet
      BY <3>1, WaitingQuiet DEF Free
    <3>3. RowsQuiet
      BY <3>1 DEF Free, NewRow, TypeOK, OwnInv, Granted, RowsQuiet, Before
    <3> QED BY <1>4, <3>2, <3>3, QuietStep DEF Insert
  <2> QED BY <2>1, <2>2
<1>5. ASSUME NEW c \in Calls, ExpireAndRetry(c) PROVE OwnInv'
  <2>1. CallsQuiet
    BY <1>5 DEF ExpireAndRetry, TypeOK, Call, CallsQuiet, OwnInv, RowKnown, WithRow, Holding
  <2>2. RowsQuiet
    BY <1>5, ExpireQuiet DEF ExpireAndRetry
  <2> QED BY <1>5, <2>1, <2>2, QuietStep DEF ExpireAndRetry
<1>6. ASSUME NEW c \in Calls, Poll(c) \/ TimeOut(c) \/ Abort(c) PROVE OwnInv'
  <2>1. CallsQuiet
    BY <1>6, GotoQuiet, ReplyQuiet DEF Poll, TimeOut, Abort, WithRow, Holding
  <2> QED BY <1>6, <2>1, SameRows, QuietStep DEF Poll, TimeOut, Abort
<1>7. ASSUME NEW c \in Calls, Replay(c) \/ ClaimLost(c) PROVE OwnInv'
  <2>1. CallsQuiet
    BY <1>7, ReplyQuiet DEF Replay, ClaimLost
  <2> QED BY <1>7, <2>1, SameRows, QuietStep DEF Replay, ClaimLost
<1>8. ASSUME NEW c \in Calls, Touch(c) PROVE OwnInv'
  <2>1. RowsQuiet
    BY <1>8 DEF Touch, TypeOK, Row, OwnInv, Granted, RowsQuiet
  <2> QED BY <1>8, <2>1, SameCalls, QuietStep DEF Touch
<1>9. ASSUME NEW c \in Calls, NEW isError \in BOOLEAN,
             ToolAnswers(c, isError) \/ ToolThrows(c)
      PROVE  OwnInv'
  <2>1. CallsQuiet
    BY <1>9, GotoQuiet DEF ToolAnswers, ToolThrows, WithRow, Holding
  <2> QED BY <1>9, <2>1, SameRows, QuietStep DEF ToolAnswers, ToolThrows
<1>10. ASSUME NEW c \in Calls, NEW ok \in BOOLEAN, NEW res \in {"payload", "preview"},
              MarkExecuted(c, ok, res)
       PROVE  OwnInv'
  <2>1. CallsQuiet
    BY <1>10, ReplyQuiet DEF MarkExecuted
  <2>2. RowsQuiet
    BY <1>10 DEF MarkExecuted, TypeOK, Row, OwnInv, Granted, RowsQuiet, Before
  <2> QED BY <1>10, <2>1, <2>2, QuietStep DEF MarkExecuted
<1>11. ASSUME NEW c \in Calls, NEW ok \in BOOLEAN, NEW rec \in BOOLEAN,
              MarkFailed(c, ok) \/ CatchError(c, ok, rec)
       PROVE  OwnInv'
  <2>1. CallsQuiet
    <3>1. CASE \E what \in Replies : Reply(c, what)
      BY <3>1, ReplyQuiet
    <3>2. CASE ~\E what \in Replies : Reply(c, what)
      <4>1. calls' = [calls EXCEPT ![c] =
                CallAt("find", calls[c].hash, NoRow, calls[c].att + 1, "none")]
        BY <1>11, <3>2 DEF MarkFailed, CatchError, Replies
      <4> QED BY <4>1
            DEF CallAt, TypeOK, CallsQuiet, OwnInv, RowKnown, WithRow, Holding
    <3> QED BY <3>1, <3>2
  <2>2. RowsQuiet
    BY <1>11, FailRowQuiet DEF MarkFailed, CatchError
  <2> QED BY <1>11, <2>1, <2>2, QuietStep DEF MarkFailed, CatchError
<1>12. ASSUME NEW r \in RowIds, NEW d \in {"APPROVED", "REJECTED"}, Decide(r, d)
       PROVE  OwnInv'
  <2>1. RowsQuiet
    BY <1>12 DEF Decide, TypeOK, Row, OwnInv, Granted, RowsQuiet, Before
  <2> QED BY <1>12, <2>1, SameCalls, QuietStep DEF Decide
<1>13. CASE ExpireStale
  BY <1>13, ExpireQuiet, SameCalls, QuietStep DEF ExpireStale
<1>14. CASE RecoverStaleExecuting
  <2>1. RowsQuiet
    BY <1>14 DEF RecoverStaleExecuting, StaleRows, TypeOK, Row, OwnInv, Granted,
                 RowsQuiet, Before
  <2> QED BY <1>14, <2>1, SameCalls, QuietStep DEF RecoverStaleExecuting
<1>15. CASE Crash
  <2>1. CallsQuiet
    BY <1>15 DEF Crash, IdleCall, CallAt, CallsQuiet, WithRow, Holding
  <2> QED BY <1>15, <2>1, SameRows, QuietStep DEF Crash
<1>16. CASE Tick
  <2>1. ASSUME NEW row \in Row
        PROVE  Older(row).st = row.st /\ Older(row).dec = row.dec
    BY <2>1 DEF Older, Row
  <2>2. RowsQuiet
    BY <1>16, <2>1 DEF Tick, TypeOK, OwnInv, Granted, RowsQuiet
  <2>3. CallsQuiet
    BY <1>16, LaterShape DEF Tick, TypeOK, OwnInv, RowKnown, CallsQuiet
  <2> QED BY <1>16, <2>2, <2>3, QuietStep DEF Tick
<1>17. CASE UNCHANGED vars
  BY <1>17, SameRows, SameCalls, QuietStep DEF vars
<1> QED
  BY <1>1, <1>2, <1>3, <1>4, <1>5, <1>6, <1>7, <1>8, <1>9, <1>10, <1>11, <1>12,
     <1>13, <1>14, <1>15, <1>16, <1>17, ClaimOwns, ForwardOnce DEF Next, Handler

(* A human's approval is spent at most once: no interleaving of handlers,  *)
(* deciders and sweeper, no crash and no retry runs the tool of a request  *)
(* that was not approved, or runs it twice.                                *)
LEMMA ApprovalSpentOnce == Spec => []OneRunPerApproval
<1>1. Init => TypeInv /\ OwnInv
  BY TypeInit DEF Init, FreeRow, IdleCall, CallAt, OwnInv, RowKnown, Unclaimed, Granted,
     OneOwner, NotYetRun, OneRun, Holds, Holding, WithRow
<1>2. TypeInv /\ OwnInv => OneRunPerApproval
  BY DEF TypeInv, TypeOK, Row, Status, OwnInv, Unclaimed, Granted, OneRun, OneRunPerApproval
<1>3. TypeInv => TypeOK
  BY DEF TypeInv
<1>4. QED
  BY <1>1, <1>2, <1>3, TypeInductive, OwnInductive, PTL DEF Spec

-----------------------------------------------------------------------------
(* What a step does to a row that reached a terminal status. *)
Frozen(r) == /\ rows'[r].st = rows[r].st
             /\ rows'[r].dec = rows[r].dec
             /\ rows'[r].res = rows[r].res

(* Every UPDATE of the table names the statuses it starts from, and none   *)
(* of them is terminal.                                                    *)
LEMMA TerminalStep ==
    ASSUME TypeOK, [Next]_vars, NEW r \in RowIds, rows[r].st \in Terminal
    PROVE  Frozen(r)
<1>1. rows \in [RowIds -> Row] /\ rows[r] \in Row
  BY DEF TypeOK
<1>2. rows[r].st \notin {"FREE", "PENDING", "APPROVED", "EXECUTING"}
  BY DEF Terminal, Status, Active
<1>3. CASE UNCHANGED rows
  BY <1>3 DEF Frozen
<1>4. ASSUME NEW c \in Calls, Insert(c)
      PROVE  Frozen(r)
  BY <1>1, <1>2, <1>4 DEF Frozen, Insert, Free
<1>5. ASSUME NEW R \in SUBSET Overdue, Expire(R)
      PROVE  Frozen(r)
  BY <1>1, <1>2, <1>5 DEF Frozen, Expire, Overdue
<1>6. ASSUME NEW c \in Calls, Claim(c)
      PROVE  Frozen(r)
  BY <1>1, <1>2, <1>6 DEF Frozen, Claim
<1>7. ASSUME NEW c \in Calls, Touch(c)
      PROVE  Frozen(r)
  BY <1>1, <1>2, <1>7 DEF Frozen, Touch, Row
<1>8. ASSUME NEW c \in Calls, NEW ok \in BOOLEAN, NEW res \in {"payload", "preview"},
             MarkExecuted(c, ok, res)
      PROVE  Frozen(r)
  BY <1>1, <1>2, <1>8 DEF Frozen, MarkExecuted
<1>9. ASSUME NEW q, NEW ok \in BOOLEAN, FailRow(q, ok)
      PROVE  Frozen(r)
  BY <1>1, <1>2, <1>9 DEF Frozen, FailRow, Row
<1>10. ASSUME NEW q \in RowIds, NEW d \in {"APPROVED", "REJECTED"}, Decide(q, d)
       PROVE  Frozen(r)
  BY <1>1, <1>2, <1>10 DEF Frozen, Decide
<1>11. CASE RecoverStaleExecuting
  BY <1>1, <1>2, <1>11 DEF Frozen, RecoverStaleExecuting, StaleRows
<1>12. CASE Tick
  <2>1. rows'[r] = Older(rows[r])
    BY <1>12 DEF Tick
  <2> QED BY <1>1, <2>1 DEF Frozen, Older, Row
<1>13. CASE UNCHANGED vars
  BY <1>3, <1>13 DEF vars
<1>14. ASSUME NEW c \in Calls, Handler(c)
       PROVE  Frozen(r)
  BY <1>3, <1>4, <1>5, <1>6, <1>8, <1>9, <1>14
     DEF Handler, FindActive, CountByHash, CountByTool, FindExisting, Poll,
         TimeOut, Replay, ClaimLost, Forward, ToolAnswers, ToolThrows,
         MarkFailed, CatchError, ExpireAndRetry
<1>15. CASE ExpireStale
  BY <1>5, <1>15 DEF ExpireStale
<1> QED
  BY <1>3, <1>15, <1>7, <1>10, <1>11, <1>12, <1>13, <1>14
     DEF Next, Begin, Abort, DbFails, Crash

(* A row that is rejected, expired, executed or failed is never written    *)
(* again, whoever comes late.                                              *)
THEOREM TerminalStays == Spec => TerminalIsFinal
<1> DEFINE Final == \A r \in RowIds : rows[r].st \in Terminal =>
          rows'[r].st = rows[r].st /\ rows'[r].dec = rows[r].dec
                                  /\ rows'[r].res = rows[r].res
<1>1. TypeOK /\ [Next]_vars => [Final]_vars
  BY TerminalStep DEF Frozen
<1> HIDE DEF Final
<1>2. Spec => [][Final]_vars
  BY <1>1, TypeCorrect, PTL DEF Spec
<1> USE DEF Final
<1> QED BY <1>2 DEF TerminalIsFinal


-----------------------------------------------------------------------------
(* The control flow of a handler: what a step does to a call.              *)

(* The steps that only move a handler on. *)
Edges == {<<"find", "countHash">>, <<"countTool", "insert">>, <<"insert", "existing">>,
          <<"existing", "expire">>, <<"expire", "insert">>, <<"wait", "claim">>,
          <<"wait", "replay">>, <<"claim", "claimed">>, <<"claim", "lost">>,
          <<"running", "markOk">>, <<"running", "markFailed">>, <<"running", "caught">>}

SameCall(c, n) == /\ n.row = calls[c].row /\ n.hash = calls[c].hash
                  /\ n.reply = calls[c].reply

(* The row that Insert creates. *)
Inserted(c, r) ==
    /\ calls[c].pc = "insert" /\ rows[r].st = "FREE"
    /\ rows' = [rows EXCEPT ![r] = NewRow(calls[c].hash, calls[c].exp)]
    /\ calls' = [calls EXCEPT ![c] = Waiting(c, r)]
    /\ runs' = runs

(* The handler stays, starts, answers, replays a result, moves on, finds a  *)
(* row, or passes the check of the limit.                                   *)
Becomes(c, n) ==
    \/ n.pc = calls[c].pc /\ SameCall(c, n)
    \/ /\ n.pc = "find" /\ n.reply = "none"
       /\ n.hash \in Hashes \/ (calls[c].pc # "idle" /\ n.hash = calls[c].hash)
    \/ n.pc = "idle" /\ n.reply # "replayedOk"
    \/ /\ n.pc = "idle" /\ n.row = calls[c].row /\ n.hash = calls[c].hash
       /\ calls[c].pc \in {"replay", "lost"}
       /\ rows[n.row].st = "EXECUTED" /\ rows[n.row].res = "payload"
    \/ SameCall(c, n) /\ <<calls[c].pc, n.pc>> \in Edges
    \/ /\ n.pc \in {"wait", "claim"} /\ calls[c].pc # "idle"
       /\ n.row \in RowIds /\ rows[n.row].st # "FREE"
       /\ rows[n.row].hash = calls[c].hash
       /\ n.hash = calls[c].hash /\ n.reply = calls[c].reply
    \/ /\ calls[c].pc = "countHash" /\ n.pc = "countTool" /\ SameCall(c, n)
       /\ ~(Cardinality(RecentOf(calls[c].hash)) >= HashLimit)
       /\ rows' = rows

(* Going on to another point keeps the rest of the call. *)
LEMMA GotoBecomes ==
    ASSUME TypeOK, NEW c \in Calls, NEW pc \in PCs, Goto(c, pc)
    PROVE  SameCall(c, calls'[c]) /\ calls'[c].pc = pc
BY DEF Goto, TypeOK, Call, SameCall

(* An answer keeps the row and the hash. *)
LEMMA ReplyBecomes ==
    ASSUME TypeOK, NEW c \in Calls, NEW what \in Replies, Reply(c, what)
    PROVE  /\ calls'[c].pc = "idle" /\ calls'[c].reply = what
           /\ calls'[c].row = calls[c].row /\ calls'[c].hash = calls[c].hash
BY DEF Reply, Answer, CallAt, TypeOK

(* A call that found a row keeps its hash. *)
LEMMA WaitingBecomes ==
    ASSUME TypeOK, NEW c \in Calls, NEW r \in RowIds, NEW n,
           n = Waiting(c, r) \/ n = Found(c, "claim", r, 0)
    PROVE  /\ n.row = r /\ n.hash = calls[c].hash
           /\ \/ n.pc = "idle" /\ n.reply # "replayedOk"
              \/ n.pc \in {"wait", "claim"} /\ n.reply = calls[c].reply
<1>1. calls[c] \in Call
  BY DEF TypeOK
<1>2. CASE n = Answer(c, r, "pending")
  BY <1>2 DEF Answer, CallAt
<1>3. CASE n = Found(c, "wait", r, Wait)
  BY <1>1, <1>3 DEF Found, Call
<1>4. CASE n = Found(c, "claim", r, 0)
  BY <1>1, <1>4 DEF Found, Call
<1> QED BY <1>2, <1>3, <1>4 DEF Waiting

(* So does one that checks the row it found. *)
LEMMA CheckedBecomes ==
    ASSUME TypeOK, NEW c \in Calls, NEW r \in RowIds, Checked(c, r), calls[c].pc # "idle",
           rows[r].st # "FREE", rows[r].hash = calls[c].hash
    PROVE  Becomes(c, calls'[c])
<1>1. calls'[c] = Waiting(c, r) \/ calls'[c] = Found(c, "claim", r, 0)
  BY DEF Checked, TypeOK
<1> QED BY <1>1, WaitingBecomes DEF Becomes

(* A step of one handler leaves the others alone. *)
LEMMA OthersStay ==
    ASSUME NEW d \in Calls, calls'[d] = calls[d]
    PROVE  Becomes(d, calls'[d])
BY DEF Becomes, SameCall

(* Every step of a handler is one of these, but for the two that make a     *)
(* row or a run.                                                            *)
LEMMA HandlerFlow ==
    ASSUME TypeOK, NEW c \in Calls, Handler(c) \/ Abort(c) \/ DbFails(c)
    PROVE  \/ Forward(c)
           \/ \E r \in RowIds : Inserted(c, r)
           \/ Becomes(c, calls'[c])
<1> USE DEF PCs
<1>1. CASE FindActive(c)
  <2>1. ASSUME NEW r \in Visible(calls[c].hash), Checked(c, r) PROVE Becomes(c, calls'[c])
    BY <1>1, <2>1, CheckedBecomes DEF Visible, ActiveRows, Active, FindActive
  <2>2. ASSUME Goto(c, "countHash") PROVE Becomes(c, calls'[c])
    BY <1>1, <2>2, GotoBecomes DEF FindActive, Becomes, Edges
  <2> QED BY <1>1, <2>1, <2>2 DEF FindActive
<1>2. CASE CountByHash(c)
  <2>1. CASE Cardinality(RecentOf(calls[c].hash)) >= HashLimit
    BY <1>2, <2>1, ReplyBecomes DEF CountByHash, Becomes, Replies
  <2>2. CASE ~(Cardinality(RecentOf(calls[c].hash)) >= HashLimit)
    BY <1>2, <2>2, GotoBecomes DEF CountByHash, Becomes
  <2> QED BY <2>1, <2>2
<1>3. CASE CountByTool(c)
  <2>1. CASE Cardinality(Recent) >= ToolLimit
    BY <1>3, <2>1, ReplyBecomes DEF CountByTool, Becomes, Replies
  <2>2. CASE ~(Cardinality(Recent) >= ToolLimit)
    <3>1. calls[c].pc = "countTool" /\ calls[c] \in Call
          /\ calls' = [calls EXCEPT ![c].pc = "insert", ![c].exp = Expiry + Skew]
      BY <1>3, <2>2 DEF CountByTool, TypeOK
    <3>2. SameCall(c, calls'[c]) /\ calls'[c].pc = "insert"
      BY <3>1 DEF SameCall, TypeOK, Call
    <3> QED BY <3>1, <3>2 DEF Becomes, Edges
  <2> QED BY <2>1, <2>2
<1>4. CASE Insert(c)
  <2>1. CASE ActiveRows(calls[c].hash) = {}
    BY <1>4, <2>1 DEF Insert, Inserted, Free
  <2>2. CASE ActiveRows(calls[c].hash) # {}
    <3>1. PICK D : calls' = [calls EXCEPT ![c].pc = "existing", ![c].dead = D]
      BY <1>4, <2>2 DEF Insert
    <3>2. SameCall(c, calls'[c]) /\ calls'[c].pc = "existing" /\ calls[c].pc = "insert"
      BY <1>4, <3>1 DEF SameCall, TypeOK, Call, Insert
    <3> QED BY <3>2 DEF Becomes, Edges
  <2> QED BY <2>1, <2>2
<1>5. CASE FindExisting(c)
  <2>1. ASSUME NEW r \in Existing(c), Checked(c, r) PROVE Becomes(c, calls'[c])
    BY <1>5, <2>1, CheckedBecomes DEF Existing, ActiveRows, Active, FindExisting
  <2>2. ASSUME Goto(c, "expire") PROVE Becomes(c, calls'[c])
    BY <1>5, <2>2, GotoBecomes DEF FindExisting, Becomes, Edges
  <2>3. ASSUME Reply(c, "conflict") PROVE Becomes(c, calls'[c])
    BY <2>3, ReplyBecomes DEF Becomes, Replies
  <2> QED BY <1>5, <2>1, <2>2, <2>3 DEF FindExisting
<1>6. CASE ExpireAndRetry(c)
  <2>1. SameCall(c, calls'[c]) /\ calls'[c].pc = "insert" /\ calls[c].pc = "expire"
    BY <1>6 DEF SameCall, TypeOK, Call, ExpireAndRetry
  <2> QED BY <2>1 DEF Becomes, Edges
<1>7. CASE Poll(c)
  <2>1. calls[c].pc = "wait" /\ (Goto(c, "claim") \/ Reply(c, "rejected") \/ Goto(c, "replay"))
    BY <1>7 DEF Poll
  <2>2. "rejected" \in Replies
    BY DEF Replies
  <2> QED BY <2>1, <2>2, GotoBecomes, ReplyBecomes DEF Becomes, Edges
<1>8. CASE TimeOut(c) \/ Abort(c)
  BY <1>8, GotoBecomes DEF TimeOut, Abort, Becomes, Edges
<1>9. CASE Replay(c) \/ ClaimLost(c)
  <2>1. PICK what \in {ReplayReply(calls[c].row), "pending"} : Reply(c, what)
    BY <1>9 DEF Replay, ClaimLost
  <2>2. what \in Replies /\ (what = "replayedOk" => rows[calls[c].row].st = "EXECUTED"
                                                 /\ rows[calls[c].row].res = "payload")
    BY DEF ReplayReply, Replies
  <2>3. calls[c].pc \in {"replay", "lost"}
    BY <1>9 DEF Replay, ClaimLost
  <2> QED BY <2>1, <2>2, <2>3, ReplyBecomes DEF Becomes
<1>10. CASE Claim(c)
  <2>1. calls[c].pc = "claim" /\ (Goto(c, "claimed") \/ Reply(c, "pending") \/ Goto(c, "lost"))
    BY <1>10 DEF Claim
  <2>2. "pending" \in Replies
    BY DEF Replies
  <2> QED BY <2>1, <2>2, GotoBecomes, ReplyBecomes DEF Becomes, Edges
<1>11. CASE ToolThrows(c) \/ \E isError \in BOOLEAN : ToolAnswers(c, isError)
  <2>1. /\ calls[c].pc = "running"
        /\ Goto(c, "caught") \/ Goto(c, "markFailed") \/ Goto(c, "markOk")
    BY <1>11 DEF ToolThrows, ToolAnswers
  <2> QED BY <2>1, GotoBecomes DEF Becomes, Edges
<1>12. CASE \/ \E ok \in BOOLEAN, res \in {"payload", "preview"} : MarkExecuted(c, ok, res)
            \/ \E ok \in BOOLEAN : MarkFailed(c, ok)
            \/ DbFails(c)
  <2>1. Reply(c, "result") \/ Reply(c, "error")
    BY <1>12 DEF MarkExecuted, MarkFailed, DbFails
  <2>2. {"result", "error"} \subseteq Replies
    BY DEF Replies
  <2> QED BY <2>1, <2>2, ReplyBecomes DEF Becomes
<1>13. CASE \E ok, timedOut \in BOOLEAN : CatchError(c, ok, timedOut)
  <2>1. \/ Reply(c, "error")
        \/ calls' = [calls EXCEPT ![c] = CallAt("find", calls[c].hash, NoRow, calls[c].att + 1, "none")]
    BY <1>13 DEF CatchError
  <2>2. CASE Reply(c, "error")
    BY <2>2, ReplyBecomes DEF Becomes, Replies
  <2>3. CASE calls' = [calls EXCEPT ![c] = CallAt("find", calls[c].hash, NoRow, calls[c].att + 1, "none")]
    <3>1. /\ calls'[c].pc = "find" /\ calls'[c].reply = "none"
          /\ calls'[c].hash = calls[c].hash /\ calls[c].pc = "caught"
      BY <1>13, <2>3 DEF TypeOK, CallAt, CatchError
    <3> QED BY <3>1 DEF Becomes
  <2> QED BY <2>1, <2>2, <2>3
<1> QED
  BY <1>1, <1>2, <1>3, <1>4, <1>5, <1>6, <1>7, <1>8, <1>9, <1>10, <1>11, <1>12, <1>13
     DEF Handler


(* A step of one handler leaves the others where they are. *)
LEMMA OneHandlerMoves ==
    ASSUME TypeOK, NEW c \in Calls, NEW d \in Calls, Handler(d) \/ Abort(d) \/ DbFails(d), d # c
    PROVE  calls'[c] = calls[c]
BY DEF Handler, FindActive, CountByHash, CountByTool, Insert, FindExisting, ExpireAndRetry,
   Poll, TimeOut, Replay, Claim, ClaimLost, Forward, ToolAnswers, ToolThrows, MarkExecuted,
   MarkFailed, CatchError, Abort, DbFails, Goto, Reply, Checked, TypeOK

(* What a step does to any call. *)
LEMMA CallFlow ==
    ASSUME TypeOK, [Next]_vars, NEW c \in Calls
    PROVE  \/ Forward(c)
           \/ \E r \in RowIds : Inserted(c, r)
           \/ Becomes(c, calls'[c])
<1>1. ASSUME NEW d \in Calls, NEW h \in Hashes, Begin(d, h) PROVE Becomes(c, calls'[c])
  <2>1. CASE c = d
    <3>1. calls'[c].pc = "find" /\ calls'[c].reply = "none" /\ calls'[c].hash = h
      BY <1>1, <2>1 DEF Begin, TypeOK, CallAt
    <3> QED BY <3>1 DEF Becomes
  <2>2. CASE c # d
    BY <1>1, <2>2, OthersStay DEF Begin, TypeOK
  <2> QED BY <2>1, <2>2
<1>2. ASSUME NEW d \in Calls, Handler(d) \/ Abort(d) \/ DbFails(d), d # c
      PROVE  calls'[c] = calls[c]
  BY <1>2, OneHandlerMoves
<1>3. ASSUME UNCHANGED calls PROVE Becomes(c, calls'[c])
  BY <1>3, OthersStay
<1>4. CASE Crash
  <2>1. calls'[c].pc = "idle" /\ calls'[c].reply # "replayedOk"
    BY <1>4 DEF Crash, IdleCall, CallAt
  <2> QED BY <2>1 DEF Becomes
<1>5. CASE Tick
  <2>1. calls[c] \in Call /\ calls'[c] = Later(calls[c])
    BY <1>5 DEF Tick, TypeOK
  <2> QED BY <2>1, LaterShape DEF Becomes, SameCall
<1>6. ASSUME NEW d \in Calls, Handler(d) \/ Abort(d) \/ DbFails(d)
      PROVE  \/ Forward(c)
             \/ \E r \in RowIds : Inserted(c, r)
             \/ Becomes(c, calls'[c])
  BY <1>2, <1>6, HandlerFlow, OthersStay
<1>7. CASE \/ \E d \in Calls : Touch(d)
           \/ \E r \in RowIds, d \in {"APPROVED", "REJECTED"} : Decide(r, d)
           \/ ExpireStale \/ RecoverStaleExecuting \/ UNCHANGED vars
  BY <1>3, <1>7 DEF Touch, Decide, ExpireStale, RecoverStaleExecuting, vars
<1> QED
  BY <1>1, <1>4, <1>5, <1>6, <1>7 DEF Next

-----------------------------------------------------------------------------
(* What a step does to the rows. *)

(* A row keeps its hash, does not get younger, is not freed and not         *)
(* created, and becomes EXECUTED only through a handler that ran its tool.  *)
Onward(r) ==
    /\ rows'[r].st = "FREE" <=> rows[r].st = "FREE"
    /\ rows'[r].hash = rows[r].hash
    /\ rows'[r].age >= rows[r].age
    /\ rows'[r].st = "EXECUTED" => \/ rows[r].st = "EXECUTED"
                                   \/ \E c \in Calls : calls[c].pc = "markOk" /\ calls[c].row = r

(* Every step but an insert takes the rows onward. *)
LEMMA RowsOnward ==
    ASSUME TypeOK, [Next]_vars
    PROVE  \/ \A r \in RowIds : Onward(r)
           \/ \E c \in Calls, r \in RowIds : Inserted(c, r)
<1>0. \A r \in RowIds : rows[r] \in Row /\ rows[r].age \in Nat /\ rows[r].age <= rows[r].age
  <2>1. ASSUME NEW r \in RowIds PROVE rows[r] \in Row
    BY DEF TypeOK
  <2>2. ASSUME NEW r \in RowIds PROVE rows[r].age \in Nat
    BY <2>1, BoundsAssumption DEF Row
  <2> QED BY <2>1, <2>2
<1>1. ASSUME NEW r \in RowIds, rows'[r] = rows[r] PROVE Onward(r)
  BY <1>0, <1>1 DEF Onward
<1>2. ASSUME NEW r \in RowIds, NEW st \in Status, NEW dec \in {"none", "APPROVED", "REJECTED"},
             rows[r].st # "FREE", st # "EXECUTED",
             \/ rows'[r] = [rows[r] EXCEPT !.st = st, !.idle = 0]
             \/ rows'[r] = [rows[r] EXCEPT !.st = st, !.dec = dec]
             \/ rows'[r] = [rows[r] EXCEPT !.idle = 0] /\ rows[r].st # "EXECUTED"
      PROVE  Onward(r)
  <2>1. rows[r] \in Row /\ rows[r].age <= rows[r].age /\ st # "FREE"
    BY <1>0 DEF Status
  <2>2. rows'[r].hash = rows[r].hash /\ rows'[r].age = rows[r].age
    BY <1>2, <2>1 DEF Row
  <2>3. rows'[r].st \notin {"FREE", "EXECUTED"}
    BY <1>2, <2>1 DEF Row
  <2> QED BY <1>2, <2>1, <2>2, <2>3 DEF Onward
<1>3. ASSUME NEW R \in SUBSET Overdue, Expire(R) PROVE \A r \in RowIds : Onward(r)
  <2> SUFFICES ASSUME NEW r \in RowIds PROVE Onward(r)
    OBVIOUS
  <2>1. CASE r \in R
    <3>1. rows'[r] = [rows[r] EXCEPT !.st = "EXPIRED", !.idle = 0] /\ rows[r].st # "FREE"
      BY <1>3, <2>1 DEF Expire, Overdue
    <3> QED BY <1>2, <3>1 DEF Status
  <2>2. CASE r \notin R
    BY <1>1, <1>3, <2>2 DEF Expire
  <2> QED BY <2>1, <2>2
<1>4. ASSUME NEW c \in Calls, Claim(c) \/ Touch(c) PROVE \A r \in RowIds : Onward(r)
  <2> SUFFICES ASSUME NEW r \in RowIds PROVE Onward(r)
    OBVIOUS
  <2>1. CASE r = calls[c].row
    <3>1. \/ rows'[r] = rows[r]
          \/ rows'[r] = [rows[r] EXCEPT !.st = "EXECUTING", !.idle = 0] /\ rows[r].st = "APPROVED"
          \/ rows'[r] = [rows[r] EXCEPT !.idle = 0] /\ rows[r].st = "EXECUTING"
      BY <1>4, <2>1 DEF Claim, Touch, TypeOK
    <3> QED BY <1>1, <1>2, <3>1 DEF Status
  <2>2. CASE r # calls[c].row
    BY <1>1, <1>4, <2>2 DEF Claim, Touch, TypeOK
  <2> QED BY <2>1, <2>2
<1>5. ASSUME NEW c \in Calls, NEW ok \in BOOLEAN, NEW res \in {"payload", "preview"},
             MarkExecuted(c, ok, res)
      PROVE  \A r \in RowIds : Onward(r)
  <2> SUFFICES ASSUME NEW r \in RowIds PROVE Onward(r)
    OBVIOUS
  <2>1. CASE r = calls[c].row /\ rows' # rows
    <3>1. /\ rows'[r] = [rows[r] EXCEPT !.st = "EXECUTED", !.res = res, !.idle = 0]
          /\ rows[r].st = "EXECUTING" /\ calls[c].pc = "markOk"
      BY <1>5, <2>1 DEF MarkExecuted, TypeOK
    <3>2. rows[r] \in Row /\ rows[r].age <= rows[r].age
      BY <1>0
    <3>3. rows'[r].st = "EXECUTED" /\ rows'[r].hash = rows[r].hash /\ rows'[r].age = rows[r].age
      BY <3>1, <3>2 DEF Row
    <3> QED BY <2>1, <3>1, <3>2, <3>3 DEF Onward
  <2>2. CASE r # calls[c].row \/ rows' = rows
    BY <1>1, <1>5, <2>2 DEF MarkExecuted, TypeOK
  <2> QED BY <2>1, <2>2
<1>6. ASSUME NEW q \in RowIds \cup {NoRow}, NEW ok \in BOOLEAN, FailRow(q, ok)
      PROVE  \A r \in RowIds : Onward(r)
  <2> SUFFICES ASSUME NEW r \in RowIds PROVE Onward(r)
    OBVIOUS
  <2>1. \/ rows'[r] = rows[r]
        \/ rows'[r] = [rows[r] EXCEPT !.st = "FAILED", !.idle = 0] /\ rows[r].st = "EXECUTING"
    BY <1>6 DEF FailRow, TypeOK
  <2> QED BY <1>1, <1>2, <2>1 DEF Status
<1>7. ASSUME NEW q \in RowIds, NEW d \in {"APPROVED", "REJECTED"}, Decide(q, d)
      PROVE  \A r \in RowIds : Onward(r)
  <2> SUFFICES ASSUME NEW r \in RowIds PROVE Onward(r)
    OBVIOUS
  <2>1. \/ rows'[r] = rows[r]
        \/ rows'[r] = [rows[r] EXCEPT !.st = d, !.dec = d] /\ rows[r].st = "PENDING"
    BY <1>7 DEF Decide, TypeOK
  <2> QED BY <1>1, <1>2, <2>1 DEF Status
<1>8. CASE RecoverStaleExecuting
  <2> SUFFICES ASSUME NEW r \in RowIds PROVE Onward(r)
    OBVIOUS
  <2>1. \/ rows'[r] = rows[r]
        \/ rows'[r] = [rows[r] EXCEPT !.st = "FAILED", !.idle = 0] /\ rows[r].st = "EXECUTING"
    BY <1>8 DEF RecoverStaleExecuting, StaleRows, TypeOK
  <2> QED BY <1>1, <1>2, <2>1 DEF Status
<1>9. CASE Tick
  <2> SUFFICES ASSUME NEW r \in RowIds PROVE Onward(r)
    OBVIOUS
  <2>1. rows'[r] = Older(rows[r]) /\ rows[r] \in Row /\ rows[r].age \in Nat
    BY <1>0, <1>9 DEF Tick
  <2>2. /\ rows'[r].st = rows[r].st /\ rows'[r].hash = rows[r].hash
        /\ rows'[r].age = rows[r].age \/ rows'[r].age = rows[r].age + 1
    BY <2>1 DEF Older, Row
  <2> QED BY <2>1, <2>2 DEF Onward
<1>10. ASSUME UNCHANGED rows PROVE \A r \in RowIds : Onward(r)
  BY <1>1, <1>10
<1>11. ASSUME NEW c \in Calls, NEW ok \in BOOLEAN, NEW rec \in BOOLEAN,
              MarkFailed(c, ok) \/ CatchError(c, ok, rec)
       PROVE  \A r \in RowIds : Onward(r)
  <2>1. calls[c].row \in RowIds \cup {NoRow}
    BY DEF TypeOK, Call
  <2> QED BY <1>6, <1>11, <2>1 DEF MarkFailed, CatchError
<1>12. ASSUME NEW c \in Calls, ExpireAndRetry(c) PROVE \A r \in RowIds : Onward(r)
  BY <1>3, <1>12 DEF ExpireAndRetry
<1>13. ASSUME NEW c \in Calls, Insert(c)
       PROVE  (\A r \in RowIds : Onward(r)) \/ \E r \in RowIds : Inserted(c, r)
  BY <1>10, <1>13 DEF Insert, Inserted, Free
<1>14. CASE ExpireStale
  BY <1>3, <1>14 DEF ExpireStale
<1>15. ASSUME NEW c \in Calls,
              \/ FindActive(c) \/ CountByHash(c) \/ CountByTool(c) \/ FindExisting(c)
              \/ Poll(c) \/ TimeOut(c) \/ Abort(c) \/ Replay(c) \/ ClaimLost(c)
              \/ Forward(c) \/ ToolThrows(c) \/ DbFails(c)
              \/ \E isError \in BOOLEAN : ToolAnswers(c, isError)
              \/ \E h \in Hashes : Begin(c, h)
       PROVE  UNCHANGED rows
  BY <1>15 DEF FindActive, CountByHash, CountByTool, FindExisting, Poll, TimeOut,
     Abort, Replay, ClaimLost, Forward, ToolThrows, DbFails, ToolAnswers, Begin
<1>16. CASE Crash \/ UNCHANGED vars
  BY <1>10, <1>16 DEF Crash, vars
<1> QED
  BY <1>4, <1>5, <1>7, <1>8, <1>9, <1>10, <1>11, <1>12, <1>13, <1>14, <1>15, <1>16
     DEF Next, Handler


-----------------------------------------------------------------------------
(* Replays are of the run.  That a call works on a row of its own hash, and *)
(* that the owner of a row past "claimed" has run its tool, is what makes   *)
(* the stored result one of a run of the same request.                      *)

(* Where the tool has run. *)
Ran == {"running", "markOk", "markFailed", "caught"}

HasRow(call, R) == /\ call.row \in RowIds /\ R[call.row].st # "FREE"
                   /\ R[call.row].hash = call.hash
CallFine(call, R, n) ==
    /\ call.pc \in WithRow => HasRow(call, R)
    /\ call.pc \in Ran => n[call.row] = 1
    /\ call.reply = "replayedOk" => /\ call.pc = "idle" /\ HasRow(call, R)
                                    /\ R[call.row].st = "EXECUTED"
                                    /\ R[call.row].res = "payload"
ReplayInv ==
    /\ \A c \in Calls : CallFine(calls[c], rows, runs)
    /\ \A r \in RowIds : rows[r].st = "EXECUTED" => runs[r] = 1

(* What a call may rely on stays: rows keep their hash, results are final   *)
(* and runs are not undone.                                                 *)
Lasts(r) ==
    /\ rows[r].st # "FREE" => rows'[r].st # "FREE" /\ rows'[r].hash = rows[r].hash
    /\ rows[r].st = "EXECUTED" => rows'[r].st = "EXECUTED" /\ rows'[r].res = rows[r].res
    /\ runs[r] = 1 => runs'[r] = 1

(* Every step leaves it so. *)
LEMMA RowsLast ==
    ASSUME TypeOK, OwnInv, [Next]_vars, NEW r \in RowIds
    PROVE  Lasts(r)
<1>1. rows[r].st # "FREE" => rows'[r].st # "FREE" /\ rows'[r].hash = rows[r].hash
  <2>1. CASE Onward(r)
    BY <2>1 DEF Onward
  <2>2. ASSUME NEW c \in Calls, NEW q \in RowIds, Inserted(c, q), rows[r].st # "FREE"
        PROVE  rows'[r] = rows[r]
    BY <2>2 DEF Inserted, TypeOK
  <2> QED BY <2>1, <2>2, RowsOnward
<1>2. rows[r].st = "EXECUTED" => rows'[r].st = "EXECUTED" /\ rows'[r].res = rows[r].res
  BY TerminalStep DEF Frozen, Terminal, Status, Active
<1>3. runs[r] = 1 => runs'[r] = 1
  <2>1. CASE UNCHANGED runs
    BY <2>1
  <2>2. ASSUME NEW c \in Calls, Forward(c) PROVE runs[r] = 1 => runs'[r] = 1
    BY <2>2 DEF Forward, OwnInv, NotYetRun, TypeOK
  <2>3. UNCHANGED runs \/ \E c \in Calls : Forward(c)
    BY DEF Next, Handler, Begin, FindActive, CountByHash, CountByTool, Insert, FindExisting,
       ExpireAndRetry, Poll, TimeOut, Abort, Replay, Claim, ClaimLost, Touch, ToolAnswers,
       ToolThrows, MarkExecuted, MarkFailed, CatchError, DbFails, Decide, ExpireStale,
       RecoverStaleExecuting, Crash, Tick, vars
  <2> QED BY <2>1, <2>2, <2>3
<1> QED BY <1>1, <1>2, <1>3 DEF Lasts

(* A call that is fine stays so. *)
LEMMA FineLasts ==
    ASSUME NEW call, \A r \in RowIds : Lasts(r), CallFine(call, rows, runs),
           call.pc \in Ran => call.row \in RowIds
    PROVE  CallFine(call, rows', runs')
BY DEF CallFine, HasRow, Lasts

(* A handler that moves on as its code says is fine. *)
LEMMA BecomesFine ==
    ASSUME NEW c \in Calls, NEW n, CallFine(calls[c], rows, runs), Becomes(c, n)
    PROVE  CallFine(n, rows, runs)
<1>1. CASE n.pc = calls[c].pc /\ SameCall(c, n)
  BY <1>1 DEF CallFine, HasRow, SameCall
<1>2. CASE (n.pc = "find" /\ n.reply = "none") \/ (n.pc = "idle" /\ n.reply # "replayedOk")
  BY <1>2 DEF CallFine, WithRow, Holding, Ran
<1>3. CASE /\ n.pc = "idle" /\ n.row = calls[c].row /\ n.hash = calls[c].hash
           /\ calls[c].pc \in {"replay", "lost"}
           /\ rows[n.row].st = "EXECUTED" /\ rows[n.row].res = "payload"
  BY <1>3 DEF CallFine, HasRow, WithRow, Holding, Ran
<1>4. CASE SameCall(c, n) /\ <<calls[c].pc, n.pc>> \in Edges
  <2>1. /\ n.pc \in WithRow => calls[c].pc \in WithRow
        /\ n.pc \in Ran => calls[c].pc \in Ran
        /\ calls[c].pc # "idle"
    BY <1>4 DEF Edges, WithRow, Holding, Ran
  <2> QED BY <1>4, <2>1 DEF CallFine, HasRow, SameCall
<1>5. CASE /\ n.pc \in {"wait", "claim"} /\ calls[c].pc # "idle"
           /\ n.row \in RowIds /\ rows[n.row].st # "FREE"
           /\ rows[n.row].hash = calls[c].hash
           /\ n.hash = calls[c].hash /\ n.reply = calls[c].reply
  BY <1>5 DEF CallFine, HasRow, Ran
<1>6. CASE calls[c].pc = "countHash" /\ n.pc = "countTool" /\ SameCall(c, n)
  BY <1>6 DEF CallFine, SameCall, WithRow, Holding, Ran
<1> QED BY <1>1, <1>2, <1>3, <1>4, <1>5, <1>6 DEF Becomes

(* The invariant on replays is inductive. *)
LEMMA ReplayInductive == TypeOK /\ OwnInv /\ ReplayInv /\ [Next]_vars => ReplayInv'
<1> SUFFICES ASSUME TypeOK, OwnInv, ReplayInv, [Next]_vars PROVE ReplayInv'
  OBVIOUS
<1>1. \A r \in RowIds : Lasts(r)
  BY RowsLast
<1>2. ASSUME NEW c \in Calls PROVE CallFine(calls'[c], rows', runs')
  <2>1. CallFine(calls[c], rows, runs)
    BY DEF ReplayInv
  <2>2. CASE Becomes(c, calls'[c])
    <3>1. CallFine(calls'[c], rows, runs)
      BY <2>1, <2>2, BecomesFine
    <3>2. calls'[c].pc \in Ran => calls'[c].row \in RowIds
      BY <3>1 DEF CallFine, HasRow, WithRow, Holding, Ran
    <3> QED BY <1>1, <3>1, <3>2, FineLasts
  <2>3. CASE Forward(c)
    <3> PICK r : r = calls[c].row
      OBVIOUS
    <3>1. calls[c].pc = "claimed" /\ r \in RowIds /\ runs[r] = 0 /\ HasRow(calls[c], rows)
      BY <2>1, <2>3 DEF Forward, CallFine, HasRow, WithRow, Holding, OwnInv, NotYetRun
    <3>2. SameCall(c, calls'[c]) /\ calls'[c].pc = "running"
      BY <2>3, GotoBecomes DEF Forward, PCs
    <3>3. runs'[r] = 1 /\ rows' = rows
      BY <2>3, <3>1 DEF Forward, TypeOK
    <3> QED BY <2>1, <3>1, <3>2, <3>3 DEF CallFine, HasRow, SameCall
  <2>4. ASSUME NEW r \in RowIds, Inserted(c, r) PROVE CallFine(calls'[c], rows', runs')
    <3>1. calls'[c] = Waiting(c, r) /\ calls[c].pc = "insert"
      BY <2>4 DEF Inserted, TypeOK
    <3>2. rows'[r].st # "FREE" /\ rows'[r].hash = calls[c].hash
      BY <2>4 DEF Inserted, NewRow, TypeOK
    <3>3. /\ calls'[c].row = r /\ calls'[c].hash = calls[c].hash
          /\ \/ calls'[c].pc = "idle" /\ calls'[c].reply # "replayedOk"
             \/ calls'[c].pc \in {"wait", "claim"} /\ calls'[c].reply = calls[c].reply
      BY <3>1, WaitingBecomes
    <3> QED BY <2>1, <3>1, <3>2, <3>3 DEF CallFine, HasRow, WithRow, Holding, Ran
  <2> QED BY <2>2, <2>3, <2>4, CallFlow
<1>3. ASSUME NEW r \in RowIds, rows'[r].st = "EXECUTED" PROVE runs'[r] = 1
  <2>1. rows[r].st = "EXECUTED" \/ \E c \in Calls : calls[c].pc = "markOk" /\ calls[c].row = r
    <3>1. CASE Onward(r)
      BY <1>3, <3>1 DEF Onward
    <3>2. ASSUME NEW c \in Calls, NEW q \in RowIds, Inserted(c, q)
          PROVE  rows[r].st = "EXECUTED"
      BY <1>3, <3>2 DEF Inserted, NewRow, TypeOK
    <3> QED BY <3>1, <3>2, RowsOnward
  <2>2. runs[r] = 1
    BY <2>1 DEF ReplayInv, CallFine, Ran
  <2> QED BY <1>1, <2>2 DEF Lasts
<1> QED BY <1>2, <1>3 DEF ReplayInv

(* Both hold initially. *)
LEMMA OwnInit == Init => OwnInv /\ ReplayInv
<1>1. Init => OwnInv
  BY DEF Init, FreeRow, IdleCall, CallAt, OwnInv, RowKnown, Unclaimed, Granted,
     OneOwner, NotYetRun, OneRun, Holds, Holding, WithRow
<1>2. Init => ReplayInv
  BY DEF Init, FreeRow, IdleCall, CallAt, ReplayInv, CallFine, Ran, WithRow, Holding
<1> QED BY <1>1, <1>2

(* A caller that is given a stored result gets the result of a run that    *)
(* finished, of the same request, whatever crashes, expiries and retries    *)
(* came in between (tryBuildReplayToolResult).                              *)
LEMMA ReplaysAreOfTheRun == Spec => []ReplayIsOfTheRun
<1>1. Init => TypeInv /\ OwnInv /\ ReplayInv
  BY TypeInit, OwnInit
<1>2. TypeInv => TypeOK
  BY DEF TypeInv
<1>3. ReplayInv => ReplayIsOfTheRun
  BY DEF ReplayInv, CallFine, HasRow, ReplayIsOfTheRun
<1> QED
  BY <1>1, <1>2, <1>3, TypeInductive, OwnInductive, ReplayInductive, PTL DEF Spec

(* For any number of calls, rows and hashes, any limits and any time-outs:  *)
(* identical calls share one open request, an approval is spent at most     *)
(* once and only if it was given, and a call that is answered with a stored *)
(* result gets that of the run of its own request (ApprovalRepository.ts,   *)
(* handleToolCall of ProxySession.ts, callTool of ModernMcpController.ts).  *)
THEOREM RequestsStaySound == Spec => []RequestsSound
<1>1. OneActivePerHash /\ OneRunPerApproval /\ ReplayIsOfTheRun => RequestsSound
  BY DEF RequestsSound
<1> QED
  BY <1>1, ActiveUnique, ApprovalSpentOnce, ReplaysAreOfTheRun, PTL

-----------------------------------------------------------------------------
(* The limit of requests per hash.  A handler that passed the check may     *)
(* still add a row, so the bound is inductive only with the handlers past   *)
(* the check counted in.                                                    *)

PastCheck == {"countTool", "insert", "existing", "expire"}
Past(h) == {c \in Calls : calls[c].pc \in PastCheck /\ calls[c].hash = h}
LimitInv == \A h \in Hashes :
    Cardinality(RecentOf(h)) + Cardinality(Past(h)) <= HashLimit + Cardinality(Calls) - 1

(* The sets are finite. *)
LEMMA LimitSets ==
    ASSUME NEW h \in Hashes
    PROVE  /\ IsFiniteSet(Calls) /\ Cardinality(Calls) \in Nat
           /\ IsFiniteSet(RecentOf(h)) /\ Cardinality(RecentOf(h)) \in Nat
           /\ IsFiniteSet(Past(h)) /\ Cardinality(Past(h)) \in Nat
           /\ Cardinality(Past(h)) <= Cardinality(Calls)
<1>1. IsFiniteSet(RowIds)
  BY BoundsAssumption, FS_Interval DEF RowIds
<1>2. RecentOf(h) \subseteq RowIds /\ Past(h) \subseteq Calls
  BY DEF RecentOf, Recent, Past
<1> QED BY <1>1, <1>2, CallsAssumption, FS_Subset, FS_CardinalityType

(* Recent rows of a hash come only from inserts. *)
LEMMA RecentShrinks ==
    ASSUME TypeOK, NEW h \in Hashes, \A r \in RowIds : Onward(r), rows' \in [RowIds -> Row]
    PROVE  RecentOf(h)' \subseteq RecentOf(h)
<1> SUFFICES ASSUME NEW r \in RowIds, rows'[r].st # "FREE", rows'[r].age <= Window,
                    rows'[r].hash = h
             PROVE  rows[r].st # "FREE" /\ rows[r].age <= Window /\ rows[r].hash = h
  BY DEF RecentOf, Recent
<1>1. rows[r].age \in Nat /\ rows'[r].age \in Nat /\ Window \in Nat
  BY BoundsAssumption DEF TypeOK, Row
<1> QED BY <1>1 DEF Onward

(* Handlers get past the check only through it. *)
LEMMA PastShrinks ==
    ASSUME TypeOK, [Next]_vars, NEW h \in Hashes
    PROVE  \/ Past(h)' \subseteq Past(h)
           \/ ~(Cardinality(RecentOf(h)) >= HashLimit) /\ rows' = rows
<1> SUFFICES ASSUME NEW c \in Calls, calls'[c].pc \in PastCheck, calls'[c].hash = h,
                    ~(calls[c].pc \in PastCheck /\ calls[c].hash = h)
             PROVE  ~(Cardinality(RecentOf(h)) >= HashLimit) /\ rows' = rows
  BY DEF Past
<1>1. ~Forward(c)
  <2> SUFFICES ASSUME Forward(c) PROVE FALSE
    OBVIOUS
  <2>1. calls'[c].pc = "running"
    BY GotoBecomes DEF Forward, PCs
  <2> QED BY <2>1 DEF PastCheck
<1>2. ASSUME NEW r \in RowIds, Inserted(c, r) PROVE FALSE
  <2>1. calls'[c] = Waiting(c, r)
    BY <1>2 DEF Inserted, TypeOK
  <2>2. calls'[c].pc \in {"idle", "wait", "claim"}
    BY <2>1, WaitingBecomes
  <2> QED BY <2>2 DEF PastCheck
<1>3. Becomes(c, calls'[c])
  BY <1>1, <1>2, CallFlow
<1>4. ~(SameCall(c, calls'[c]) /\ <<calls[c].pc, calls'[c].pc>> \in Edges)
  BY DEF SameCall, Edges, PastCheck
<1> QED BY <1>3, <1>4 DEF Becomes, SameCall, PastCheck

(* The bound with the handlers past the check is inductive. *)
LEMMA LimitInductive == TypeOK /\ TypeOK' /\ LimitInv /\ [Next]_vars => LimitInv'
<1> SUFFICES ASSUME TypeOK, TypeOK', LimitInv, [Next]_vars, NEW h \in Hashes
             PROVE  Cardinality(RecentOf(h)') + Cardinality(Past(h)')
                        <= HashLimit + Cardinality(Calls) - 1
  BY DEF LimitInv
<1>1. /\ IsFiniteSet(Calls) /\ Cardinality(Calls) \in Nat
      /\ IsFiniteSet(RecentOf(h)) /\ Cardinality(RecentOf(h)) \in Nat
      /\ IsFiniteSet(Past(h)) /\ Cardinality(Past(h)) \in Nat
  BY LimitSets
<1>2. /\ IsFiniteSet(RecentOf(h)') /\ Cardinality(RecentOf(h)') \in Nat
      /\ IsFiniteSet(Past(h)') /\ Cardinality(Past(h)') \in Nat
      /\ Cardinality(Past(h)') <= Cardinality(Calls)
  <2>1. RecentOf(h)' \subseteq RowIds /\ Past(h)' \subseteq Calls
    BY DEF RecentOf, Recent, Past
  <2>2. IsFiniteSet(RowIds)
    BY BoundsAssumption, FS_Interval DEF RowIds
  <2> QED BY <2>1, <2>2, CallsAssumption, FS_Subset, FS_CardinalityType
<1>3. Cardinality(RecentOf(h)) + Cardinality(Past(h)) <= HashLimit + Cardinality(Calls) - 1
  BY DEF LimitInv
<1>4. HashLimit \in Nat
  BY BoundsAssumption
<1>5. CASE ~(Cardinality(RecentOf(h)) >= HashLimit) /\ rows' = rows
  <2>1. RecentOf(h)' = RecentOf(h)
    BY <1>5 DEF RecentOf, Recent
  <2> QED BY <1>1, <1>2, <1>4, <1>5, <2>1
<1>6. CASE (\A r \in RowIds : Onward(r)) /\ Past(h)' \subseteq Past(h)
  <2>1. RecentOf(h)' \subseteq RecentOf(h)
    BY <1>6, RecentShrinks DEF TypeOK
  <2>2. /\ Cardinality(RecentOf(h)') <= Cardinality(RecentOf(h))
        /\ Cardinality(Past(h)') <= Cardinality(Past(h))
    BY <1>1, <1>6, <2>1, FS_Subset
  <2> QED BY <1>1, <1>2, <1>3, <1>4, <2>2
<1>7. ASSUME NEW c \in Calls, NEW r \in RowIds, Inserted(c, r), Past(h)' \subseteq Past(h)
      PROVE  Cardinality(RecentOf(h)') + Cardinality(Past(h)') <= HashLimit + Cardinality(Calls) - 1
  <2>1. /\ rows'[r].hash = calls[c].hash /\ \A q \in RowIds : q # r => rows'[q] = rows[q]
        /\ rows[r].st = "FREE"
    BY <1>7 DEF Inserted, NewRow, TypeOK
  <2>2. CASE calls[c].hash # h
    <3>1. RecentOf(h)' \subseteq RecentOf(h)
      BY <2>1, <2>2 DEF RecentOf, Recent
    <3>2. /\ Cardinality(RecentOf(h)') <= Cardinality(RecentOf(h))
          /\ Cardinality(Past(h)') <= Cardinality(Past(h))
      BY <1>1, <1>7, <3>1, FS_Subset
    <3> QED BY <1>1, <1>2, <1>3, <1>4, <3>2
  <2>3. CASE calls[c].hash = h
    <3>1. RecentOf(h)' \subseteq RecentOf(h) \cup {r} /\ r \notin RecentOf(h)
      BY <2>1 DEF RecentOf, Recent
    <3>2. /\ IsFiniteSet(RecentOf(h) \cup {r})
          /\ Cardinality(RecentOf(h) \cup {r}) = Cardinality(RecentOf(h)) + 1
      BY <1>1, <3>1, FS_AddElement
    <3>3. Cardinality(RecentOf(h)') <= Cardinality(RecentOf(h)) + 1
      BY <3>1, <3>2, FS_Subset
    <3>4. c \in Past(h)
      BY <1>7, <2>3 DEF Inserted, Past, PastCheck
    <3>5. c \notin Past(h)'
      <4>1. calls'[c] = Waiting(c, r)
        BY <1>7 DEF Inserted, TypeOK
      <4>2. calls'[c].pc \in {"idle", "wait", "claim"}
        BY <4>1, WaitingBecomes
      <4> QED BY <4>2 DEF Past, PastCheck
    <3>6. /\ IsFiniteSet(Past(h) \ {c})
          /\ Cardinality(Past(h) \ {c}) = Cardinality(Past(h)) - 1
      BY <1>1, <3>4, FS_RemoveElement
    <3>7. Cardinality(Past(h)') <= Cardinality(Past(h)) - 1
      <4>1. Past(h)' \subseteq Past(h) \ {c}
        BY <1>7, <3>5
      <4> QED BY <3>6, <4>1, FS_Subset
    <3> QED BY <1>1, <1>2, <1>3, <1>4, <3>3, <3>7
  <2> QED BY <2>2, <2>3
<1> QED
  BY <1>5, <1>6, <1>7, RowsOnward, PastShrinks

(* However many handlers pass the check of the limit together, the recent  *)
(* requests of a hash exceed it by less than the number of handlers         *)
(* (ApprovalService.ts:131).                                                *)
THEOREM OvershootIsBounded == Spec => []BoundedOvershoot
<1>1. Init => TypeInv /\ LimitInv
  <2> SUFFICES ASSUME Init PROVE TypeInv /\ LimitInv
    OBVIOUS
  <2>1. \A h \in Hashes : RecentOf(h) = {} /\ Past(h) = {}
    BY DEF Init, FreeRow, IdleCall, CallAt, RecentOf, Recent, Past, PastCheck
  <2>2. Cardinality({}) = 0 /\ Cardinality(Calls) \in Nat
    BY FS_EmptySet, CallsAssumption, FS_CardinalityType
  <2>3. LimitInv
    BY <2>1, <2>2, BoundsAssumption DEF LimitInv
  <2> QED BY <2>3, TypeInit
<1>2. TypeInv => TypeOK
  BY DEF TypeInv
<1>3. LimitInv => BoundedOvershoot
  <2> SUFFICES ASSUME LimitInv, NEW h \in Hashes
               PROVE  Cardinality(RecentOf(h)) <= HashLimit + Cardinality(Calls) - 1
    BY DEF BoundedOvershoot
  <2>1. /\ Cardinality(RecentOf(h)) \in Nat /\ Cardinality(Past(h)) \in Nat
        /\ Cardinality(Calls) \in Nat /\ HashLimit \in Nat
    BY LimitSets, BoundsAssumption
  <2> QED BY <2>1 DEF LimitInv
<1>4. TypeInv /\ TypeInv' /\ LimitInv /\ [Next]_vars => LimitInv'
  BY LimitInductive DEF TypeInv
<1> QED
  BY <1>1, <1>2, <1>3, <1>4, TypeInductive, PTL DEF Spec

-----------------------------------------------------------------------------
(* The queue implements ApprovalLife. *)

(* A handler at work knows the hash of its call. *)
HashKnown == \A c \in Calls : calls[c].pc # "idle" => calls[c].hash \in Hashes

(* Every step keeps it so. *)
LEMMA HashInductive == TypeOK /\ HashKnown /\ [Next]_vars => HashKnown'
<1> SUFFICES ASSUME TypeOK, HashKnown, [Next]_vars, NEW c \in Calls, calls'[c].pc # "idle"
             PROVE  calls'[c].hash \in Hashes
  BY DEF HashKnown
<1>1. calls[c].pc # "idle" => calls[c].hash \in Hashes
  BY DEF HashKnown
<1>2. CASE Forward(c)
  <2>1. calls[c].pc = "claimed" /\ SameCall(c, calls'[c])
    BY <1>2, GotoBecomes DEF Forward, PCs
  <2> QED BY <1>1, <2>1 DEF SameCall
<1>3. ASSUME NEW r \in RowIds, Inserted(c, r) PROVE calls'[c].hash = calls[c].hash /\ calls[c].pc = "insert"
  <2>1. calls'[c] = Waiting(c, r) /\ calls[c].pc = "insert"
    BY <1>3 DEF Inserted, TypeOK
  <2> QED BY <2>1, WaitingBecomes
<1>4. CASE Becomes(c, calls'[c])
  BY <1>1, <1>4 DEF Becomes, SameCall, Edges
<1> QED BY <1>1, <1>2, <1>3, <1>4, CallFlow

(* The rows in R get the status st, and no row another hash. *)
Put(R, st) == \A q \in RowIds :
    /\ rows'[q].st = IF q \in R THEN st ELSE rows[q].st
    /\ rows'[q].hash = rows[q].hash

(* What such a step is in ApprovalLife. *)
LEMMA PutMoves ==
    ASSUME NEW r \in RowIds, NEW st, Put({r}, st)
    PROVE  Life!Move(r, rows[r].st, st)
BY DEF Life!Move, Put

(* The same for many rows at once. *)
LEMMA PutMovesAll ==
    ASSUME NEW R \in SUBSET RowIds, NEW from, NEW st, Put(R, st), UNCHANGED runs,
           \A r \in R : rows[r].st \in from
    PROVE  Life!MoveAll(R, from, st)
BY DEF Life!MoveAll, Put

(* Whatever keeps statuses and hashes is no step of ApprovalLife. *)
LEMMA PutNothing ==
    ASSUME NEW st, Put({}, st), UNCHANGED runs
    PROVE  UNCHANGED Life!lifeVars
BY DEF Life!lifeVars, Put

(* A step of ApprovalLife, or none. *)
LifeStep == Life!Next \/ UNCHANGED Life!lifeVars

(* A row of a hash that no active row has is asked for.                    *)
LEMMA InsertIsAsk ==
    ASSUME TypeOK, HashKnown, NEW c \in Calls, Insert(c)
    PROVE  LifeStep
<1>1. CASE UNCHANGED rows
  BY <1>1, PutNothing DEF Put, Insert, LifeStep
<1>2. CASE ~UNCHANGED rows
  <2> PICK h : h = calls[c].hash
    OBVIOUS
  <2>1. h \in Hashes /\ ActiveRows(h) = {} /\ runs' = runs
    BY <1>2 DEF HashKnown, Insert
  <2>2. PICK r \in RowIds : rows[r].st = "FREE" /\ rows' = [rows EXCEPT ![r] = NewRow(h, calls[c].exp)]
    BY <1>2 DEF Insert, Free
  <2>3. \A q \in RowIds : /\ rows'[q].st = IF q = r THEN "PENDING" ELSE rows[q].st
                          /\ rows'[q].hash = IF q = r THEN h ELSE rows[q].hash
    BY <2>2 DEF NewRow, TypeOK
  <2>4. \A q \in RowIds : rows[q].st \in {"PENDING", "APPROVED", "EXECUTING"} => rows[q].hash # h
    BY <2>1 DEF ActiveRows, Active
  <2>5. Life!Move(r, "FREE", "PENDING")
    BY <2>2, <2>3 DEF Life!Move
  <2>6. Life!Ask(r, h)
    BY <2>1, <2>3, <2>4, <2>5 DEF Life!Ask, Life!Open
  <2>7. \E x \in Hashes : Life!Ask(r, x)
    BY <2>1, <2>6
  <2> QED BY <2>7 DEF Life!Next, LifeStep
<1> QED BY <1>1, <1>2

(* Expiry is a lapse. *)
LEMMA ExpireIsLapse ==
    ASSUME TypeOK, NEW R \in SUBSET Overdue, Expire(R), UNCHANGED runs
    PROVE  LifeStep
<1>1. R \in SUBSET RowIds /\ \A r \in R : rows[r].st \in {"PENDING", "APPROVED"}
  BY DEF Overdue
<1>2. Put(R, "EXPIRED")
  BY DEF Put, Expire, TypeOK, Row
<1>3. Life!MoveAll(R, {"PENDING", "APPROVED"}, "EXPIRED")
  BY <1>1, <1>2, PutMovesAll
<1> QED BY <1>1, <1>3 DEF Life!Lapse, Life!Next, LifeStep

(* The claim takes an approved row. *)
LEMMA ClaimIsTake ==
    ASSUME TypeOK, OwnInv, NEW c \in Calls, Claim(c)
    PROVE  LifeStep
<1> PICK r : r = calls[c].row
  OBVIOUS
<1>1. r \in RowIds /\ runs' = runs
  BY DEF OwnInv, RowKnown, WithRow, Claim
<1>2. CASE UNCHANGED rows
  BY <1>1, <1>2, PutNothing DEF Put, LifeStep
<1>3. CASE ~UNCHANGED rows
  <2>1. rows[r].st = "APPROVED" /\ rows' = [rows EXCEPT ![r].st = "EXECUTING", ![r].idle = 0]
    BY <1>3 DEF Claim
  <2>2. Put({r}, "EXECUTING")
    BY <1>1, <2>1 DEF Put, TypeOK, Row
  <2>3. Life!Move(r, "APPROVED", "EXECUTING")
    BY <1>1, <2>1, <2>2, PutMoves
  <2>4. Life!Take(r)
    BY <1>1, <2>2, <2>3 DEF Life!Take, Put
  <2> QED BY <1>1, <2>4 DEF Life!Next, LifeStep
<1> QED BY <1>2, <1>3

(* The tool is invoked for a row that was taken and not used: it is still   *)
(* executing, or was given up meanwhile.                                    *)
LEMMA ForwardIsUse ==
    ASSUME TypeOK, OwnInv, ReplayInv, NEW c \in Calls, Forward(c)
    PROVE  LifeStep
<1> PICK r : r = calls[c].row
  OBVIOUS
<1>1. r \in RowIds /\ runs[r] = 0 /\ Holds(c, r)
  BY DEF Forward, OwnInv, RowKnown, NotYetRun, Holds, Holding, WithRow
<1>2. rows[r].st \in {"EXECUTING", "FAILED"}
  <2>1. rows[r].st \in Status \cup {"FREE"}
    BY <1>1 DEF TypeOK, Row
  <2>2. rows[r].st \notin {"FREE", "PENDING", "APPROVED", "REJECTED", "EXPIRED"}
    BY <1>1 DEF OwnInv, Unclaimed
  <2>3. rows[r].st # "EXECUTED"
    BY <1>1 DEF ReplayInv
  <2> QED BY <2>1, <2>2, <2>3 DEF Status
<1>3. runs' = [runs EXCEPT ![r] = 1] /\ rows' = rows
  BY <1>1 DEF Forward, TypeOK
<1>4. Life!Use(r)
  BY <1>1, <1>2, <1>3 DEF Life!Use
<1> QED BY <1>1, <1>4 DEF Life!Next, LifeStep

(* Only a handler whose tool ran records a result, and a row is executed    *)
(* only from executing.                                                     *)
LEMMA MarkIsFinish ==
    ASSUME TypeOK, OwnInv, ReplayInv, NEW c \in Calls, NEW ok \in BOOLEAN,
           NEW res \in {"payload", "preview"}, MarkExecuted(c, ok, res)
    PROVE  LifeStep
<1> PICK r : r = calls[c].row
  OBVIOUS
<1>1. r \in RowIds /\ runs[r] = 1 /\ runs' = runs
  BY DEF MarkExecuted, OwnInv, RowKnown, WithRow, Holding, ReplayInv, CallFine, Ran
<1>2. CASE UNCHANGED rows
  BY <1>1, <1>2, PutNothing DEF Put, LifeStep
<1>3. CASE ~UNCHANGED rows
  <2>1. /\ rows[r].st = "EXECUTING"
        /\ rows' = [rows EXCEPT ![r].st = "EXECUTED", ![r].res = res, ![r].idle = 0]
    BY <1>3 DEF MarkExecuted
  <2>2. Put({r}, "EXECUTED")
    BY <1>1, <2>1 DEF Put, TypeOK, Row
  <2>3. Life!Move(r, "EXECUTING", "EXECUTED")
    BY <1>1, <2>1, <2>2, PutMoves
  <2>4. Life!Finish(r)
    BY <1>1, <2>2, <2>3 DEF Life!Finish, Put
  <2> QED BY <1>1, <2>4 DEF Life!Next, LifeStep
<1> QED BY <1>2, <1>3

(* A handler that fails and the sweeper give up what is executing.          *)
LEMMA FailIsGiveUp ==
    ASSUME TypeOK, NEW R \in SUBSET RowIds, \A r \in R : rows[r].st = "EXECUTING",
           Put(R, "FAILED"), UNCHANGED runs
    PROVE  LifeStep
<1>1. Life!MoveAll(R, {"EXECUTING"}, "FAILED")
  BY PutMovesAll
<1> QED BY <1>1 DEF Life!GiveUp, Life!Next, LifeStep

(* What the handlers do when the tool failed. *)
LEMMA FailRowGivesUp ==
    ASSUME TypeOK, NEW r \in RowIds, NEW ok \in BOOLEAN, FailRow(r, ok), UNCHANGED runs
    PROVE  LifeStep
<1>1. CASE UNCHANGED rows
  BY <1>1, PutNothing DEF Put, LifeStep
<1>2. CASE ~UNCHANGED rows
  <2>1. rows[r].st = "EXECUTING" /\ rows' = [rows EXCEPT ![r].st = "FAILED", ![r].idle = 0]
    BY <1>2 DEF FailRow
  <2>2. Put({r}, "FAILED")
    BY <2>1 DEF Put, TypeOK, Row
  <2> QED BY <2>1, <2>2, FailIsGiveUp
<1> QED BY <1>1, <1>2

(* Every step of the queue is one of ApprovalLife, or none.                 *)
LEMMA StepIsOfLife ==
    ASSUME TypeOK, OwnInv, ReplayInv, HashKnown, [Next]_vars
    PROVE  LifeStep
<1>1. ASSUME UNCHANGED <<rows, runs>> PROVE LifeStep
  BY <1>1, PutNothing DEF Put, LifeStep
<1>2. ASSUME NEW c \in Calls, MarkFailed(c, TRUE) \/ MarkFailed(c, FALSE)
                               \/ \E ok, rec \in BOOLEAN : CatchError(c, ok, rec)
      PROVE  LifeStep
  <2>1. calls[c].row \in RowIds
    BY <1>2 DEF MarkFailed, CatchError, OwnInv, RowKnown, WithRow, Holding
  <2> QED BY <1>2, <2>1, FailRowGivesUp DEF MarkFailed, CatchError
<1>3. ASSUME NEW c \in Calls, ExpireAndRetry(c) PROVE LifeStep
  BY <1>3, ExpireIsLapse DEF ExpireAndRetry
<1>4. CASE ExpireStale
  BY <1>4, ExpireIsLapse DEF ExpireStale
<1>5. ASSUME NEW c \in Calls, Touch(c) PROVE LifeStep
  <2>1. Put({}, "FREE") /\ runs' = runs
    BY <1>5 DEF Touch, Put, TypeOK, Row
  <2> QED BY <2>1, PutNothing DEF LifeStep
<1>6. ASSUME NEW r \in RowIds, NEW d \in {"APPROVED", "REJECTED"}, Decide(r, d) PROVE LifeStep
  <2>1. rows[r].st = "PENDING" /\ Put({r}, d) /\ runs' = runs
    BY <1>6 DEF Decide, Put, TypeOK, Row
  <2>2. Life!Move(r, "PENDING", d)
    BY <2>1, PutMoves
  <2>3. Life!Decide(r)
    BY <2>1, <2>2 DEF Life!Decide, Put
  <2> QED BY <2>3 DEF Life!Next, LifeStep
<1>7. CASE RecoverStaleExecuting
  <2>1. /\ StaleRows \in SUBSET RowIds /\ runs' = runs
        /\ \A r \in StaleRows : rows[r].st = "EXECUTING"
    BY <1>7 DEF RecoverStaleExecuting, StaleRows
  <2>2. Put(StaleRows, "FAILED")
    BY <1>7 DEF RecoverStaleExecuting, Put, TypeOK, Row
  <2> QED BY <2>1, <2>2, FailIsGiveUp
<1>8. CASE Tick
  <2>1. ASSUME NEW r \in RowIds PROVE rows'[r].st = rows[r].st /\ rows'[r].hash = rows[r].hash
    <3>1. rows'[r] = Older(rows[r]) /\ rows[r] \in Row
      BY <1>8 DEF Tick, TypeOK
    <3> QED BY <3>1 DEF Older, Row
  <2> QED BY <1>8, <2>1, PutNothing DEF Put, Tick, LifeStep
<1>9. ASSUME NEW c \in Calls,
             \/ FindActive(c) \/ CountByHash(c) \/ CountByTool(c) \/ FindExisting(c)
             \/ Poll(c) \/ TimeOut(c) \/ Abort(c) \/ Replay(c) \/ ClaimLost(c)
             \/ ToolThrows(c) \/ DbFails(c)
             \/ \E isError \in BOOLEAN : ToolAnswers(c, isError)
             \/ \E h \in Hashes : Begin(c, h)
      PROVE  UNCHANGED <<rows, runs>>
  BY <1>9 DEF FindActive, CountByHash, CountByTool, FindExisting, Poll, TimeOut,
     Abort, Replay, ClaimLost, ToolThrows, DbFails, ToolAnswers, Begin
<1>10. CASE Crash \/ UNCHANGED vars
  BY <1>1, <1>10 DEF Crash, vars
<1>11. ASSUME NEW c \in Calls, Handler(c) \/ Abort(c) \/ DbFails(c) PROVE LifeStep
  BY <1>1, <1>2, <1>3, <1>9, <1>11, InsertIsAsk, ClaimIsTake, ForwardIsUse, MarkIsFinish
     DEF Handler
<1> QED BY <1>1, <1>4, <1>5, <1>6, <1>7, <1>8, <1>9, <1>10, <1>11 DEF Next

(* The queue implements ApprovalLife: through crashes, retries, lost        *)
(* claims, clock skew and the sweeper, every request is decided once or     *)
(* lapses, is claimed only when approved, is used at most once, counts as   *)
(* executed only when its tool ran, and shares its hash with no other open  *)
(* one (ApprovalRepository.ts).                                             *)
THEOREM QueueImplementsLife == Spec => LifeKept
<1>1. Init => TypeInv /\ OwnInv /\ ReplayInv /\ HashKnown
  <2>1. Init => TypeInv
    BY TypeInit
  <2>2. Init => OwnInv /\ ReplayInv
    BY OwnInit
  <2>3. Init => HashKnown
    BY DEF Init, IdleCall, CallAt, HashKnown
  <2> QED BY <2>1, <2>2, <2>3
<1>2. TypeInv => TypeOK
  BY DEF TypeInv
<1>3. Init => Life!Init
  BY DEF Init, FreeRow, Life!Init
<1>4. TypeOK /\ OwnInv /\ ReplayInv /\ HashKnown /\ [Next]_vars => [Life!Next]_(Life!lifeVars)
  BY StepIsOfLife DEF LifeStep
<1> QED
  BY <1>1, <1>2, <1>3, <1>4, TypeInductive, OwnInductive, ReplayInductive, HashInductive, PTL
     DEF Spec, LifeKept, Life!Spec

-----------------------------------------------------------------------------
(* Handlers come closer to their answer. *)

(* By going on to a point nearer to it ... *)
LEMMA GotoCloser ==
    ASSUME TypeOK, NEW c \in Calls, NEW pc \in PCs, Goto(c, pc), Rank(pc) < Rank(calls[c].pc)
    PROVE  Closer(calls'[c], calls[c])
<1>1. calls'[c].pc = pc /\ calls'[c].att = calls[c].att /\ calls'[c].tries = calls[c].tries
  BY DEF Goto, TypeOK, Call
<1> QED BY <1>1 DEF Closer

(* ... by answering ... *)
LEMMA ReplyCloser ==
    ASSUME TypeOK, NEW c \in Calls, NEW what, Reply(c, what)
    PROVE  Closer(calls'[c], calls[c])
<1>1. calls'[c].pc = "idle"
  BY DEF Reply, Answer, CallAt, TypeOK
<1> QED BY <1>1 DEF Closer

(* ... and by finding or making the row to wait for or to claim.            *)
LEMMA FoundCloser ==
    ASSUME TypeOK, NEW c \in Calls, NEW r \in RowIds, Rank(calls[c].pc) > 5,
           calls'[c] = Waiting(c, r) \/ calls'[c] = Found(c, "claim", r, 0)
    PROVE  Closer(calls'[c], calls[c])
<1>1. calls[c] \in Call
  BY DEF TypeOK
<1>2. CASE calls'[c] = Answer(c, r, "pending")
  BY <1>2 DEF Answer, CallAt, Closer
<1>3. ASSUME NEW pc \in {"wait", "claim"}, NEW left, calls'[c] = Found(c, pc, r, left)
      PROVE  Closer(calls'[c], calls[c])
  <2>1. calls'[c].pc = pc /\ calls'[c].att = calls[c].att /\ calls'[c].tries = calls[c].tries
    BY <1>1, <1>3 DEF Found, Call
  <2>2. Rank(pc) \in {4, 5}
    BY DEF Rank
  <2>3. Rank(calls[c].pc) \in 0..11
    BY DEF Rank
  <2>4. Rank(pc) < Rank(calls[c].pc)
    BY <2>2, <2>3
  <2> QED BY <2>1, <2>4 DEF Closer
<1> QED BY <1>2, <1>3 DEF Waiting

(* So every step of a handler. *)
LEMMA HandlerCloser ==
    ASSUME TypeOK, NEW c \in Calls, Handler(c)
    PROVE  Closer(calls'[c], calls[c])
<1> USE DEF PCs
<1>0. calls[c] \in Call /\ calls[c].att \in Int /\ calls[c].tries \in Int
  BY BoundsAssumption DEF TypeOK, Call
<1>1. ASSUME NEW r \in RowIds, Checked(c, r), calls[c].pc \in {"find", "existing"}
      PROVE  Closer(calls'[c], calls[c])
  <2>1. calls'[c] = Waiting(c, r) \/ calls'[c] = Found(c, "claim", r, 0)
    BY <1>1 DEF Checked, TypeOK
  <2>2. Rank(calls[c].pc) > 5
    BY <1>1 DEF Rank
  <2> QED BY <2>1, <2>2, FoundCloser
<1>2. CASE FindActive(c)
  BY <1>1, <1>2, GotoCloser DEF FindActive, Visible, ActiveRows, Rank
<1>3. CASE CountByHash(c)
  BY <1>3, GotoCloser, ReplyCloser DEF CountByHash, Rank
<1>4. CASE CountByTool(c)
  <2>1. CASE Reply(c, "limited")
    BY <2>1, ReplyCloser
  <2>2. CASE calls' = [calls EXCEPT ![c].pc = "insert", ![c].exp = Expiry + Skew]
    <3>1. calls'[c].pc = "insert" /\ calls'[c].att = calls[c].att /\ calls'[c].tries = calls[c].tries
      BY <1>0, <2>2 DEF TypeOK, Call
    <3> QED BY <1>4, <3>1 DEF CountByTool, Closer, Rank
  <2> QED BY <1>4, <2>1, <2>2 DEF CountByTool
<1>5. CASE Insert(c)
  <2>1. ASSUME NEW r \in RowIds, calls' = [calls EXCEPT ![c] = Waiting(c, r)]
        PROVE  Closer(calls'[c], calls[c])
    BY <1>5, <2>1, FoundCloser DEF Insert, TypeOK, Rank
  <2>2. ASSUME NEW D, calls' = [calls EXCEPT ![c].pc = "existing", ![c].dead = D]
        PROVE  Closer(calls'[c], calls[c])
    <3>1. calls'[c].pc = "existing" /\ calls'[c].att = calls[c].att /\ calls'[c].tries = calls[c].tries
      BY <1>0, <2>2 DEF TypeOK, Call
    <3> QED BY <1>5, <3>1 DEF Insert, Closer, Rank
  <2> QED BY <1>5, <2>1, <2>2 DEF Insert, Free
<1>6. CASE FindExisting(c)
  BY <1>1, <1>6, GotoCloser, ReplyCloser DEF FindExisting, Existing, ActiveRows, Rank
<1>7. CASE ExpireAndRetry(c)
  <2>1. calls'[c].att = calls[c].att /\ calls'[c].tries = calls[c].tries + 1
    BY <1>0, <1>7 DEF ExpireAndRetry, TypeOK, Call
  <2> QED BY <1>0, <2>1 DEF Closer
<1>8. CASE Poll(c) \/ TimeOut(c)
  <2>1. calls[c].pc = "wait" /\ (Goto(c, "claim") \/ Reply(c, "rejected") \/ Goto(c, "replay"))
    BY <1>8 DEF Poll, TimeOut
  <2> QED BY <2>1, GotoCloser, ReplyCloser DEF Rank
<1>9. CASE Replay(c) \/ ClaimLost(c)
  BY <1>9, ReplyCloser DEF Replay, ClaimLost
<1>10. CASE Claim(c)
  BY <1>10, GotoCloser, ReplyCloser DEF Claim, Rank
<1>11. CASE Forward(c) \/ ToolThrows(c) \/ \E isError \in BOOLEAN : ToolAnswers(c, isError)
  BY <1>11, GotoCloser DEF Forward, ToolThrows, ToolAnswers, Rank
<1>12. CASE \/ \E ok \in BOOLEAN, res \in {"payload", "preview"} : MarkExecuted(c, ok, res)
            \/ \E ok \in BOOLEAN : MarkFailed(c, ok)
  BY <1>12, ReplyCloser DEF MarkExecuted, MarkFailed
<1>13. CASE \E ok, timedOut \in BOOLEAN : CatchError(c, ok, timedOut)
  <2>1. CASE Reply(c, "error")
    BY <2>1, ReplyCloser
  <2>2. CASE calls' = [calls EXCEPT ![c] = CallAt("find", calls[c].hash, NoRow, calls[c].att + 1, "none")]
    <3>1. calls'[c].att = calls[c].att + 1
      BY <2>2 DEF TypeOK, CallAt
    <3> QED BY <1>0, <3>1 DEF Closer
  <2> QED BY <1>13, <2>1, <2>2 DEF CatchError
<1> QED
  BY <1>2, <1>3, <1>4, <1>5, <1>6, <1>7, <1>8, <1>9, <1>10, <1>11, <1>12, <1>13 DEF Handler

(* No handler runs in circles, however many calls are in flight and however *)
(* large the limits: each of its steps brings a call closer to its answer   *)
(* and no other step takes it back.  With the bounds on attempts and rounds *)
(* in TypeOK this is why handleToolCall ends; that a step is always         *)
(* possible is left to the run.                                             *)
THEOREM HandlersComeCloser == Spec => HandlersProgress
<1> DEFINE Onwards == \A c \in Busy :
               /\ Handler(c) => Closer(calls'[c], calls[c])
               /\ calls'[c].pc # calls[c].pc => Closer(calls'[c], calls[c])
<1>1. TypeOK /\ [Next]_vars => [Onwards]_vars
  <2> SUFFICES ASSUME TypeOK, Next, NEW c \in Calls, calls[c].pc # "idle"
               PROVE  /\ Handler(c) => Closer(calls'[c], calls[c])
                      /\ calls'[c].pc # calls[c].pc => Closer(calls'[c], calls[c])
    BY DEF Busy
  <2>1. Handler(c) => Closer(calls'[c], calls[c])
    BY HandlerCloser
  <2>2. CASE Abort(c)
    BY <2>1, <2>2, GotoCloser DEF Abort, Rank, PCs
  <2>3. CASE DbFails(c)
    BY <2>1, <2>3, ReplyCloser DEF DbFails
  <2>4. ASSUME NEW d \in Calls, NEW h \in Hashes, Begin(d, h) PROVE calls'[c] = calls[c]
    BY <2>4 DEF Begin, TypeOK
  <2>5. CASE Crash
    BY <2>1, <2>5 DEF Crash, IdleCall, CallAt, Closer
  <2>6. CASE Tick
    <3>1. calls[c] \in Call /\ calls'[c] = Later(calls[c])
      BY <2>6 DEF Tick, TypeOK
    <3> QED BY <2>1, <3>1, LaterShape
  <2>7. ASSUME \/ \E d \in Calls : Touch(d)
               \/ \E r \in RowIds, d \in {"APPROVED", "REJECTED"} : Decide(r, d)
               \/ ExpireStale \/ RecoverStaleExecuting
        PROVE  calls' = calls
    BY <2>7 DEF Touch, Decide, ExpireStale, RecoverStaleExecuting
  <2>8. ASSUME NEW d \in Calls, Handler(d) \/ Abort(d) \/ DbFails(d)
        PROVE  calls'[c].pc # calls[c].pc => Closer(calls'[c], calls[c])
    BY <2>1, <2>2, <2>3, <2>8, OneHandlerMoves
  <2> QED BY <2>1, <2>4, <2>5, <2>6, <2>7, <2>8 DEF Next
<1> HIDE DEF Onwards
<1>2. Spec => [][Onwards]_vars
  BY <1>1, TypeCorrect, PTL DEF Spec
<1> USE DEF Onwards
<1> QED BY <1>2 DEF HandlersProgress
=============================================================================
