---------------------------- MODULE AdminProofs ----------------------------
(***************************************************************************)
(* What the admin API guarantees for any number of users, servers,         *)
(* requests and permission documents: first for the users, then for the    *)
(* servers.                                                                *)
(***************************************************************************)
EXTENDS MC_Admin, FiniteSetTheorems, TLAPS

(* The rows of a table of users, the one in use or the one of the backup:   *)
(* an owner has the id of one, is enabled, and is the only one.             *)
RowsOK(t) ==
    /\ \A u \in Uids : t[u].here =>
          (t[u].role = "owner" <=> u \in OwnerIds) /\ (t[u].role = "owner" => t[u].on)
    /\ \A u, v \in Uids :
          (t[u].here /\ t[u].role = "owner" /\ t[v].here /\ t[v].role = "owner") => u = v

(* What a request is about, by how far it has come.                         *)
OnePc == {"create", "createOwner", "insert", "update", "disable", "unlink", "disabled",
          "remove", "write", "apply", "auth"}
AllPc == {"each", "eachOff", "reset", "resetUsers", "resetRest", "resetSess",
          "empty1", "empty2", "quiet", "restore"}

RequestOK(q) ==
    /\ q.pc \in OnePc => \E u \in Uids : q.us = {u}
    /\ q.pc \in AllPc => q.us = Uids
    /\ q.pc \in RqPc \ (OnePc \cup AllPc) => q.us = {}
    /\ q.pc \in {"create", "createOwner", "insert"} =>
          \A u \in q.us : q.role = "owner" <=> u \in OwnerIds
    /\ q.pc = "insert" => q.role # "owner"
    /\ q.pc \in {"unlink", "disabled", "remove"} => \A u \in q.us : u \notin OwnerIds
    /\ q.pc = "write" => q.on \/ \A u \in q.us : u \notin OwnerIds
    /\ q.op = "bulk" <=> q.pc \in {"each", "eachOff"}

(* A session s and the row of its user. *)
Follows(row, s) == s # NoPerm => row.here /\ row.on /\ s = row.perm

(* The same while the request q works on user u, and nobody else does. *)
Stage(q, row, s, u) ==
    /\ q.pc \notin {"disabled", "apply", "eachOff", "resetRest", "resetSess"} => Follows(row, s)
    /\ q.pc = "write" /\ ~q.on => s = NoPerm
    /\ q.pc = "apply" => row.here /\ row.perm = q.perm /\ (s # NoPerm => row.on)
    /\ q.pc \in {"remove", "restore"} => s = NoPerm
    /\ q.pc = "each" /\ u \notin q.todo => s = NoPerm
    /\ q.pc = "eachOff" => /\ u \notin q.cur => Follows(row, s)
                           /\ u \notin q.todo \cup q.cur => s = NoPerm
    /\ q.pc = "auth" => row.here /\ row.on /\ row.perm = q.perm

(* Users that no two requests worked on at once. *)
ClearInv == \A u \in Uids \ unclear :
    /\ (\A r \in Requests : u \notin rq[r].us) => Follows(urow[u], sess[u])
    /\ \A r \in Requests : u \in rq[r].us => Stage(rq[r], urow[u], sess[u], u)
    /\ \A r, q \in Requests : u \in rq[r].us /\ u \in rq[q].us => r = q

RowsInv == RowsOK(urow) /\ RowsOK(saved) /\ proxies \in 0..1
RequestsInv == \A r \in Requests : RequestOK(rq[r])
UsrInv == UsrTypeOK /\ RowsInv /\ RequestsInv /\ ClearInv

-----------------------------------------------------------------------------
(* What the step of request r to n may do about user u.                     *)
Moves(r, n, u) ==
    /\ u \notin rq[r].us => urow'[u] = urow[u] /\ sess'[u] = sess[u]
    /\ u \in rq[r].us /\ u \in n.us => Stage(n, urow'[u], sess'[u], u)
    /\ u \in rq[r].us /\ u \notin n.us => Follows(urow'[u], sess'[u])
    /\ u \notin rq[r].us /\ u \in n.us =>
          /\ \A q \in Requests : u \notin rq[q].us
          /\ Follows(urow[u], sess[u]) => Stage(n, urow[u], sess[u], u)

(* The parts of the types. *)
LEMMA UsrTypes ==
    ASSUME UsrInv
    PROVE  /\ urow \in [Uids -> URow] /\ saved \in [Uids -> URow]
           /\ sess \in [Uids -> Perms \cup {NoPerm}] /\ rq \in [Requests -> Rq]
           /\ proxies \in 0..1 /\ unclear \subseteq Uids
           /\ RowsOK(urow) /\ RowsOK(saved)
           /\ \A u \in Uids : /\ urow[u] \in URow /\ urow[u].here \in BOOLEAN
                              /\ urow[u].on \in BOOLEAN /\ urow[u].role \in Roles
           /\ \A r \in Requests : /\ rq[r] \in Rq /\ rq[r].pc \in RqPc /\ rq[r].us \subseteq Uids
                                  /\ rq[r].on \in BOOLEAN /\ rq[r].perm \in Perms
                                  /\ rq[r].role \in Roles
                                  /\ RequestOK(rq[r])
<1>1. /\ urow \in [Uids -> URow] /\ saved \in [Uids -> URow]
      /\ sess \in [Uids -> Perms \cup {NoPerm}] /\ rq \in [Requests -> Rq]
      /\ proxies \in 0..1 /\ unclear \subseteq Uids
      /\ RowsOK(urow) /\ RowsOK(saved) /\ \A r \in Requests : RequestOK(rq[r])
  BY DEF UsrInv, UsrTypeOK, RowsInv, RequestsInv
<1>2. \A u \in Uids : /\ urow[u] \in URow /\ urow[u].here \in BOOLEAN
                      /\ urow[u].on \in BOOLEAN /\ urow[u].role \in Roles
  BY <1>1 DEF URow
<1>3. \A r \in Requests : /\ rq[r] \in Rq /\ rq[r].pc \in RqPc /\ rq[r].us \subseteq Uids
                          /\ rq[r].on \in BOOLEAN /\ rq[r].perm \in Perms
                          /\ rq[r].role \in Roles
  BY <1>1 DEF Rq
<1> QED BY <1>1, <1>2, <1>3

(* No request, no user, and the session of nobody. *)
LEMMA NoRqOK ==
    /\ NoRq \in Rq /\ NoRq.pc = "idle" /\ NoRq.us = {} /\ NoRq.op = "none" /\ RequestOK(NoRq)
    /\ NoUser \in URow /\ NoUser.here = FALSE
    /\ Empty \in [Uids -> URow] /\ \A u \in Uids : Empty[u].here = FALSE
    /\ RowsOK(Empty)
<1>1. 1 \in Perms
  BY PermAssumption DEF Perms
<1>2. NoRq \in Rq /\ NoRq.pc = "idle" /\ NoRq.us = {} /\ NoRq.op = "none"
  BY <1>1 DEF NoRq, Rq, RqPc, Roles
<1>3. RequestOK(NoRq)
  BY <1>2 DEF RequestOK, OnePc, AllPc
<1>4. NoUser \in URow /\ NoUser.here = FALSE
  BY <1>1 DEF NoUser, URow, Roles
<1>5. Empty \in [Uids -> URow] /\ \A u \in Uids : Empty[u].here = FALSE
  BY <1>4 DEF Empty
<1>6. RowsOK(Empty)
  BY <1>5 DEF RowsOK
<1> QED BY <1>2, <1>3, <1>4, <1>5, <1>6

(* The user a request is about. *)
LEMMA OnOne ==
    ASSUME NEW r \in Requests, NEW u \in Uids, rq[r].us = {u}
    PROVE  On(r) = u
<1>1. \E x \in rq[r].us : TRUE
  OBVIOUS
<1>2. On(r) \in rq[r].us
  BY <1>1 DEF On
<1> QED BY <1>2

(* A request goes on. *)
LEMMA GotoOK ==
    ASSUME UsrInv, NEW r \in Requests, NEW pc \in RqPc, Goto(r, pc)
    PROVE  \E n \in Rq : /\ rq' = [rq EXCEPT ![r] = n]
                         /\ n.pc = pc /\ n.us = rq[r].us /\ n.op = rq[r].op
                         /\ n.role = rq[r].role /\ n.on = rq[r].on /\ n.perm = rq[r].perm
                         /\ n.todo = rq[r].todo /\ n.cur = rq[r].cur
<1>1. rq[r] \in Rq /\ rq \in [Requests -> Rq]
  BY UsrTypes
<1>2. PICK n : n = [rq[r] EXCEPT !.pc = pc]
  OBVIOUS
<1>3. /\ n \in Rq /\ n.pc = pc /\ n.us = rq[r].us /\ n.op = rq[r].op
      /\ n.role = rq[r].role /\ n.on = rq[r].on /\ n.perm = rq[r].perm
      /\ n.todo = rq[r].todo /\ n.cur = rq[r].cur
  BY <1>1, <1>2 DEF Rq
<1>4. rq' = [rq EXCEPT ![r] = n]
  BY <1>1, <1>2 DEF Goto
<1> QED BY <1>3, <1>4

(* A request ends. *)
LEMMA EndOK ==
    ASSUME NEW r \in Requests, End(r)
    PROVE  rq' = [rq EXCEPT ![r] = NoRq]
BY DEF End

(* What a step of request r has to see to. *)
LEMMA StepKeeps ==
    ASSUME UsrInv, NEW r \in Requests, NEW n \in Rq, rq' = [rq EXCEPT ![r] = n], RequestOK(n),
           urow' \in [Uids -> URow], RowsOK(urow'),
           saved' \in [Uids -> URow], RowsOK(saved'),
           sess' \in [Uids -> Perms \cup {NoPerm}], proxies' \in 0..1,
           unclear \subseteq unclear', unclear' \subseteq Uids,
           \A u \in Uids \ unclear' : Moves(r, n, u)
    PROVE  UsrInv'
<1>0. rq \in [Requests -> Rq]
  BY UsrTypes
<1>1. rq' \in [Requests -> Rq] /\ rq'[r] = n /\ \A q \in Requests : q # r => rq'[q] = rq[q]
  BY <1>0
<1>2. RowsInv'
  BY DEF RowsInv, RowsOK
<1>3. UsrTypeOK'
  BY <1>1 DEF UsrTypeOK, RowsOK, Present
<1>4. RequestsInv'
  <2>1. \A q \in Requests : RequestOK(rq'[q])
    BY <1>1, UsrTypes
  <2> QED BY <2>1 DEF RequestsInv, RequestOK
<1>5. ASSUME NEW u \in Uids \ unclear'
      PROVE  /\ (\A q \in Requests : u \notin rq'[q].us) => Follows(urow'[u], sess'[u])
             /\ \A q \in Requests : u \in rq'[q].us => Stage(rq'[q], urow'[u], sess'[u], u)
             /\ \A p, q \in Requests : u \in rq'[p].us /\ u \in rq'[q].us => p = q
  <2>1. /\ (\A q \in Requests : u \notin rq[q].us) => Follows(urow[u], sess[u])
        /\ \A q \in Requests : u \in rq[q].us => Stage(rq[q], urow[u], sess[u], u)
        /\ \A p, q \in Requests : u \in rq[p].us /\ u \in rq[q].us => p = q
    BY DEF UsrInv, ClearInv
  <2>2. Moves(r, n, u)
    OBVIOUS
  <2>3. CASE u \in rq[r].us
    <3>1. \A q \in Requests : q # r => u \notin rq'[q].us
      BY <1>1, <2>1, <2>3
    <3> QED BY <1>1, <2>2, <2>3, <3>1 DEF Moves
  <2>4. CASE u \notin rq[r].us /\ u \in n.us
    <3>1. \A q \in Requests : q # r => u \notin rq'[q].us
      BY <1>1, <2>2, <2>4 DEF Moves
    <3> QED BY <1>1, <2>1, <2>2, <2>4, <3>1 DEF Moves
  <2>5. CASE u \notin rq[r].us /\ u \notin n.us
    <3>1. urow'[u] = urow[u] /\ sess'[u] = sess[u]
      BY <2>2, <2>5 DEF Moves
    <3>2. \A q \in Requests : u \in rq'[q].us => q # r /\ rq'[q] = rq[q]
      BY <1>1, <2>5
    <3>3. \A q \in Requests : u \in rq[q].us => u \in rq'[q].us
      BY <1>1, <2>5
    <3> QED BY <2>1, <3>1, <3>2, <3>3
  <2> QED BY <2>3, <2>4, <2>5
<1>6. ClearInv'
  BY <1>5 DEF ClearInv, Stage, Follows
<1> QED BY <1>2, <1>3, <1>4, <1>6 DEF UsrInv

(* A request comes in. *)
LEMMA EnterKeeps ==
    ASSUME UsrInv, NEW r \in Requests, NEW n \in Rq, RequestOK(n),
           rq[r].pc = "idle", rq' = [rq EXCEPT ![r] = n],
           unclear' = unclear \cup (n.us \cap Worked),
           UNCHANGED <<urow, proxies, saved, sess>>,
           \A u \in n.us : Follows(urow[u], sess[u]) => Stage(n, urow[u], sess[u], u)
    PROVE  UsrInv'
<1>1. /\ urow \in [Uids -> URow] /\ saved \in [Uids -> URow]
      /\ sess \in [Uids -> Perms \cup {NoPerm}] /\ proxies \in 0..1 /\ unclear \subseteq Uids
      /\ RowsOK(urow) /\ RowsOK(saved)
  BY UsrTypes
<1>2. rq[r].us = {}
  BY UsrTypes DEF RequestOK, OnePc, AllPc, RqPc
<1>3. n.us \subseteq Uids
  BY DEF Rq
<1>4. ASSUME NEW u \in Uids \ unclear' PROVE Moves(r, n, u)
  <2>1. u \in n.us => u \notin Worked
    OBVIOUS
  <2> QED BY <1>2, <2>1 DEF Moves, Worked
<1> QED BY <1>1, <1>3, <1>4, StepKeeps

(* A request about one user is about that one. *)
LEMMA OneUser ==
    ASSUME UsrInv, NEW r \in Requests, rq[r].pc \in OnePc
    PROVE  \E u \in Uids : rq[r].us = {u} /\ On(r) = u
BY UsrTypes, OnOne DEF RequestOK

(* What holds of a user that only this request works on. *)
LEMMA StageOf ==
    ASSUME UsrInv, NEW r \in Requests, NEW u \in Uids \ unclear, u \in rq[r].us
    PROVE  Stage(rq[r], urow[u], sess[u], u)
BY DEF UsrInv, ClearInv

-----------------------------------------------------------------------------
(* The requests that come in. *)
LEMMA NewRequests ==
    ASSUME UsrInv, NEW r \in Requests, EditRequest(r) \/ RowRequest(r) \/ TableRequest(r)
    PROVE  UsrInv'
<1>0. 1 \in Perms
  BY PermAssumption DEF Perms
<1>1. ASSUME NEW u \in Uids, NEW on \in BOOLEAN, NEW perm \in Perms, UpdateUser(r, u, on, perm)
      PROVE  UsrInv'
  <2>1. PICK n : n = [NoRq EXCEPT !.pc = "update", !.us = {u}, !.on = on, !.perm = perm]
    OBVIOUS
  <2>2. n \in Rq /\ n.pc = "update" /\ n.us = {u} /\ n.op = "none"
    BY <1>0, <2>1 DEF NoRq, Rq, RqPc, Roles
  <2>3. RequestOK(n) /\ \A v \in n.us : Follows(urow[v], sess[v]) => Stage(n, urow[v], sess[v], v)
    BY <2>2 DEF RequestOK, OnePc, AllPc, Stage
  <2>4. /\ rq[r].pc = "idle" /\ rq' = [rq EXCEPT ![r] = n]
        /\ unclear' = unclear \cup (n.us \cap Worked)
        /\ UNCHANGED <<urow, proxies, saved, sess>>
    BY <1>1, <2>1 DEF UpdateUser, Enter
  <2> QED BY <2>2, <2>3, <2>4, EnterKeeps
<1>2. ASSUME NEW u \in Uids, DisableUser(r, u) \/ DeleteUser(r, u)
      PROVE  UsrInv'
  <2>1. PICK n : /\ n \in {[NoRq EXCEPT !.pc = "disable", !.us = {u}],
                           [NoRq EXCEPT !.pc = "disable", !.us = {u}, !.op = "delete"]}
                 /\ rq[r].pc = "idle" /\ rq' = [rq EXCEPT ![r] = n]
                 /\ unclear' = unclear \cup (n.us \cap Worked)
                 /\ UNCHANGED <<urow, proxies, saved, sess>>
    BY <1>2 DEF DisableUser, DeleteUser, Enter
  <2>2. n \in Rq /\ n.pc = "disable" /\ n.us = {u} /\ n.op # "bulk"
    <3>1. CASE n = [NoRq EXCEPT !.pc = "disable", !.us = {u}]
      BY <1>0, <3>1 DEF NoRq, Rq, RqPc, Roles
    <3>2. CASE n = [NoRq EXCEPT !.pc = "disable", !.us = {u}, !.op = "delete"]
      BY <1>0, <3>2 DEF NoRq, Rq, RqPc, Roles
    <3> QED BY <2>1, <3>1, <3>2
  <2>3. RequestOK(n) /\ \A v \in n.us : Follows(urow[v], sess[v]) => Stage(n, urow[v], sess[v], v)
    BY <2>2 DEF RequestOK, OnePc, AllPc, Stage
  <2> QED BY <2>1, <2>2, <2>3, EnterKeeps
<1>3. ASSUME NEW u \in Uids, NEW role \in Roles, CreateUser(r, u, role)
      PROVE  UsrInv'
  <2>1. PICK n : n = [NoRq EXCEPT !.pc = "create", !.us = {u}, !.role = role]
    OBVIOUS
  <2>2. n \in Rq /\ n.pc = "create" /\ n.us = {u} /\ n.op = "none" /\ n.role = role
    BY <1>0, <2>1 DEF NoRq, Rq, RqPc, Roles
  <2>3. role = "owner" <=> u \in OwnerIds
    BY <1>3 DEF CreateUser
  <2>4. RequestOK(n) /\ \A v \in n.us : Follows(urow[v], sess[v]) => Stage(n, urow[v], sess[v], v)
    BY <2>2, <2>3 DEF RequestOK, OnePc, AllPc, Stage
  <2>5. /\ rq[r].pc = "idle" /\ rq' = [rq EXCEPT ![r] = n]
        /\ unclear' = unclear \cup (n.us \cap Worked)
        /\ UNCHANGED <<urow, proxies, saved, sess>>
    BY <1>3, <2>1 DEF CreateUser, Enter
  <2> QED BY <2>2, <2>4, <2>5, EnterKeeps
<1>4. ASSUME NEW u \in Uids, Authenticate(r, u)
      PROVE  UsrInv'
  <2>0. urow[u].perm \in Perms /\ urow[u].here /\ urow[u].on
    BY <1>4, UsrTypes DEF URow, Authenticate
  <2>1. PICK n : n = [NoRq EXCEPT !.pc = "auth", !.us = {u}, !.perm = urow[u].perm]
    OBVIOUS
  <2>2. n \in Rq /\ n.pc = "auth" /\ n.us = {u} /\ n.op = "none" /\ n.perm = urow[u].perm
    BY <1>0, <2>0, <2>1 DEF NoRq, Rq, RqPc, Roles
  <2>3. RequestOK(n) /\ \A v \in n.us : Follows(urow[v], sess[v]) => Stage(n, urow[v], sess[v], v)
    BY <2>0, <2>2 DEF RequestOK, OnePc, AllPc, Stage
  <2>4. /\ rq[r].pc = "idle" /\ rq' = [rq EXCEPT ![r] = n]
        /\ unclear' = unclear \cup (n.us \cap Worked)
        /\ UNCHANGED <<urow, proxies, saved, sess>>
    BY <1>4, <2>1 DEF Authenticate, Enter
  <2> QED BY <2>2, <2>3, <2>4, EnterKeeps
<1>5. ASSUME TableRequest(r) PROVE UsrInv'
  <2>1. PICK n : /\ n \in {[NoRq EXCEPT !.pc = "list"], [NoRq EXCEPT !.pc = "backup"],
                           [NoRq EXCEPT !.pc = "reset", !.us = Uids],
                           [NoRq EXCEPT !.pc = "empty1", !.us = Uids]}
                 /\ rq[r].pc = "idle" /\ rq' = [rq EXCEPT ![r] = n]
                 /\ unclear' = unclear \cup (n.us \cap Worked)
                 /\ UNCHANGED <<urow, proxies, saved, sess>>
    BY <1>5 DEF TableRequest, DeleteUsersByProxy, DeleteProxy, Backup, Restore, Enter
  <2>2. /\ n \in Rq /\ n.op = "none"
        /\ \/ n.pc \in {"list", "backup"} /\ n.us = {}
           \/ n.pc \in {"reset", "empty1"} /\ n.us = Uids
    <3>1. CASE n = [NoRq EXCEPT !.pc = "list"]
      BY <1>0, <3>1 DEF NoRq, Rq, RqPc, Roles
    <3>2. CASE n = [NoRq EXCEPT !.pc = "backup"]
      BY <1>0, <3>2 DEF NoRq, Rq, RqPc, Roles
    <3>3. CASE n = [NoRq EXCEPT !.pc = "reset", !.us = Uids]
      BY <1>0, <3>3 DEF NoRq, Rq, RqPc, Roles
    <3>4. CASE n = [NoRq EXCEPT !.pc = "empty1", !.us = Uids]
      BY <1>0, <3>4 DEF NoRq, Rq, RqPc, Roles
    <3> QED BY <2>1, <3>1, <3>2, <3>3, <3>4
  <2>3. RequestOK(n) /\ \A v \in n.us : Follows(urow[v], sess[v]) => Stage(n, urow[v], sess[v], v)
    BY <2>2 DEF RequestOK, OnePc, AllPc, Stage
  <2> QED BY <2>1, <2>2, <2>3, EnterKeeps
<1> QED BY <1>1, <1>2, <1>3, <1>4, <1>5 DEF EditRequest, RowRequest

(* The queries that change no row and no session. *)
LEMMA Queries ==
    ASSUME UsrInv, NEW r \in Requests,
           FindUser(r) \/ FindToDisable(r) \/ FindToUpdate(r) \/ ResetRest(r) \/ LookEmpty(r)
    PROVE  UsrInv'
<1>0. /\ urow \in [Uids -> URow] /\ saved \in [Uids -> URow]
      /\ sess \in [Uids -> Perms \cup {NoPerm}] /\ rq \in [Requests -> Rq]
      /\ proxies \in 0..1 /\ unclear \subseteq Uids
      /\ RowsOK(urow) /\ RowsOK(saved) /\ RequestOK(rq[r]) /\ rq[r] \in Rq
      /\ rq[r].on \in BOOLEAN /\ rq[r].us \subseteq Uids
  BY UsrTypes
<1>1. UNCHANGED <<urow, proxies, saved, sess, unclear>>
  BY DEF FindUser, FindToDisable, FindToUpdate, ResetRest, LookEmpty
<1>2. SUFFICES ASSUME NEW n \in Rq, rq' = [rq EXCEPT ![r] = n], n.us = rq[r].us, RequestOK(n),
                      \A u \in Uids : u \in n.us /\ Stage(rq[r], urow[u], sess[u], u)
                                         => Stage(n, urow[u], sess[u], u)
               PROVE  UsrInv'
  <2>1. ASSUME FindUser(r)
        PROVE  \E n \in Rq : /\ rq' = [rq EXCEPT ![r] = n] /\ n.us = rq[r].us /\ RequestOK(n)
                             /\ \A u \in Uids : u \in n.us /\ Stage(rq[r], urow[u], sess[u], u)
                                                   => Stage(n, urow[u], sess[u], u)
    <3>1. PICK pc \in RqPc : /\ pc = IF rq[r].role = "owner" THEN "createOwner" ELSE "insert"
                             /\ Goto(r, pc) /\ rq[r].pc = "create"
      BY <2>1 DEF FindUser, RqPc
    <3>2. PICK n \in Rq : /\ rq' = [rq EXCEPT ![r] = n]
                          /\ n.pc = pc /\ n.us = rq[r].us /\ n.op = rq[r].op
                          /\ n.role = rq[r].role
      BY <3>1, GotoOK
    <3>3. RequestOK(n)
      BY <1>0, <3>1, <3>2 DEF RequestOK, OnePc, AllPc
    <3>4. \A u \in Uids : u \in n.us /\ Stage(rq[r], urow[u], sess[u], u)
                             => Stage(n, urow[u], sess[u], u)
      BY <3>1, <3>2 DEF Stage
    <3> QED BY <3>2, <3>3, <3>4
  <2>2. ASSUME FindToDisable(r)
        PROVE  \E n \in Rq : /\ rq' = [rq EXCEPT ![r] = n] /\ n.us = rq[r].us /\ RequestOK(n)
                             /\ \A u \in Uids : u \in n.us /\ Stage(rq[r], urow[u], sess[u], u)
                                                   => Stage(n, urow[u], sess[u], u)
    <3>1. Goto(r, "unlink") /\ rq[r].pc = "disable" /\ MayDisable(On(r)) /\ "unlink" \in RqPc
      BY <2>2 DEF FindToDisable, RqPc
    <3>2. PICK u \in Uids : rq[r].us = {u} /\ On(r) = u
      BY <3>1, OneUser DEF OnePc
    <3>3. u \notin OwnerIds
      BY <1>0, <3>1, <3>2 DEF MayDisable, RowsOK
    <3>4. PICK n \in Rq : /\ rq' = [rq EXCEPT ![r] = n]
                          /\ n.pc = "unlink" /\ n.us = rq[r].us /\ n.op = rq[r].op
      BY <3>1, GotoOK
    <3>5. RequestOK(n)
      BY <1>0, <3>1, <3>2, <3>3, <3>4 DEF RequestOK, OnePc, AllPc
    <3>6. \A v \in Uids : v \in n.us /\ Stage(rq[r], urow[v], sess[v], v)
                             => Stage(n, urow[v], sess[v], v)
      BY <3>1, <3>4 DEF Stage
    <3> QED BY <3>4, <3>5, <3>6
  <2>3. ASSUME FindToUpdate(r)
        PROVE  \E n \in Rq : /\ rq' = [rq EXCEPT ![r] = n] /\ n.us = rq[r].us /\ RequestOK(n)
                             /\ \A u \in Uids : u \in n.us /\ Stage(rq[r], urow[u], sess[u], u)
                                                   => Stage(n, urow[u], sess[u], u)
    <3>1. rq[r].pc = "update"
      BY <2>3 DEF FindToUpdate
    <3>2. PICK u \in Uids : rq[r].us = {u} /\ On(r) = u
      BY <3>1, OneUser DEF OnePc
    <3>3. /\ urow[u].here /\ (urow[u].role = "owner" => rq[r].on)
          /\ rq' = IF urow[u].on /\ ~rq[r].on
                   THEN [rq EXCEPT ![r].pc = "disable", ![r].op = "update"]
                   ELSE [rq EXCEPT ![r].pc = "write"]
      BY <2>3, <3>2 DEF FindToUpdate
    <3>4. CASE urow[u].on /\ ~rq[r].on
      <4>1. PICK n : n = [rq[r] EXCEPT !.pc = "disable", !.op = "update"]
        OBVIOUS
      <4>2. /\ n \in Rq /\ n.pc = "disable" /\ n.us = rq[r].us /\ n.op = "update"
        BY <1>0, <4>1 DEF Rq, RqPc
      <4>3. rq' = [rq EXCEPT ![r] = n]
        BY <1>0, <3>3, <3>4, <4>1
      <4>4. RequestOK(n)
        BY <3>2, <4>2 DEF RequestOK, OnePc, AllPc
      <4>5. \A v \in Uids : v \in n.us /\ Stage(rq[r], urow[v], sess[v], v)
                               => Stage(n, urow[v], sess[v], v)
        BY <3>1, <4>2 DEF Stage
      <4> QED BY <4>2, <4>3, <4>4, <4>5
    <3>5. CASE ~(urow[u].on /\ ~rq[r].on)
      <4>1. PICK n : n = [rq[r] EXCEPT !.pc = "write"]
        OBVIOUS
      <4>2. n \in Rq /\ n.pc = "write" /\ n.us = rq[r].us /\ n.op = rq[r].op /\ n.on = rq[r].on
        BY <1>0, <4>1 DEF Rq, RqPc
      <4>3. rq' = [rq EXCEPT ![r] = n]
        BY <1>0, <3>3, <3>5, <4>1
      <4>4. rq[r].on \/ u \notin OwnerIds
        BY <1>0, <3>3 DEF RowsOK
      <4>5. RequestOK(n)
        BY <1>0, <3>1, <3>2, <4>2, <4>4 DEF RequestOK, OnePc, AllPc
      <4>6. \A v \in Uids : v \in n.us /\ Stage(rq[r], urow[v], sess[v], v)
                               => Stage(n, urow[v], sess[v], v)
        BY <3>1, <3>2, <3>5, <4>2 DEF Stage, Follows
      <4> QED BY <4>2, <4>3, <4>5, <4>6
    <3> QED BY <3>4, <3>5
  <2>4. ASSUME ResetRest(r) \/ LookEmpty(r)
        PROVE  \E n \in Rq : /\ rq' = [rq EXCEPT ![r] = n] /\ n.us = rq[r].us /\ RequestOK(n)
                             /\ \A u \in Uids : u \in n.us /\ Stage(rq[r], urow[u], sess[u], u)
                                                   => Stage(n, urow[u], sess[u], u)
    <3>1. PICK pc \in RqPc : /\ Goto(r, pc)
                             /\ \/ rq[r].pc = "resetRest" /\ pc = "resetSess"
                                \/ rq[r].pc = "empty1" /\ pc = "empty2"
                                \/ rq[r].pc = "empty2" /\ pc = "quiet"
      BY <2>4 DEF ResetRest, LookEmpty, RqPc
    <3>2. PICK n \in Rq : /\ rq' = [rq EXCEPT ![r] = n]
                          /\ n.pc = pc /\ n.us = rq[r].us /\ n.op = rq[r].op
      BY <3>1, GotoOK
    <3>3. RequestOK(n)
      BY <1>0, <3>1, <3>2 DEF RequestOK, OnePc, AllPc
    <3>4. \A u \in Uids : u \in n.us /\ Stage(rq[r], urow[u], sess[u], u)
                             => Stage(n, urow[u], sess[u], u)
      BY <3>1, <3>2 DEF Stage
    <3> QED BY <3>2, <3>3, <3>4
  <2> QED BY <2>1, <2>2, <2>3, <2>4
<1>3. ASSUME NEW u \in Uids \ unclear' PROVE Moves(r, n, u)
  BY <1>1, <1>2, StageOf DEF Moves
<1> QED BY <1>0, <1>1, <1>2, <1>3, StepKeeps

-----------------------------------------------------------------------------
(* The steps that write the row of one user. *)

(* A user is created. *)
LEMMA InsertedInv ==
    ASSUME UsrInv, NEW r \in Requests, CreateOwner(r) \/ InsertUser(r)
    PROVE  UsrInv'
<1>0. /\ urow \in [Uids -> URow] /\ saved \in [Uids -> URow]
      /\ sess \in [Uids -> Perms \cup {NoPerm}] /\ rq[r].role \in Roles
      /\ proxies \in 0..1 /\ unclear \subseteq Uids
      /\ RowsOK(urow) /\ RowsOK(saved) /\ RequestOK(rq[r])
  BY UsrTypes
<1>1. rq[r].pc \in {"createOwner", "insert"} /\ Inserted(r)
  BY DEF CreateOwner, InsertUser
<1>2. PICK u \in Uids : rq[r].us = {u} /\ On(r) = u
  BY <1>1, OneUser DEF OnePc
<1>3. PICK row \in URow : /\ urow' = [urow EXCEPT ![u] = row] /\ row.here /\ row.on
                          /\ row.role = rq[r].role
  <2>0. 1 \in Perms
    BY PermAssumption DEF Perms
  <2>1. PICK row : row = [here |-> TRUE, role |-> rq[r].role, on |-> TRUE, perm |-> 1]
    OBVIOUS
  <2>2. row \in URow /\ row.here /\ row.on /\ row.role = rq[r].role
    BY <1>0, <2>0, <2>1 DEF URow
  <2>3. urow' = [urow EXCEPT ![u] = row]
    BY <1>1, <1>2, <2>1 DEF Inserted
  <2> QED BY <2>2, <2>3
<1>4. /\ urow' \in [Uids -> URow] /\ urow'[u] = row
      /\ \A v \in Uids : v # u => urow'[v] = urow[v]
  BY <1>0, <1>3
<1>5. /\ rq' = [rq EXCEPT ![r] = NoRq] /\ UNCHANGED <<proxies, saved, sess, unclear>>
  BY <1>1, EndOK DEF Inserted
<1>6. /\ ~urow[u].here /\ (rq[r].role = "owner" <=> u \in OwnerIds)
      /\ \/ rq[r].role # "owner"
         \/ \A v \in Uids : ~urow[v].here
  <2>1. CASE CreateOwner(r)
    BY <1>0, <1>2, <2>1 DEF CreateOwner, FirstUser, Present, RequestOK
  <2>2. CASE InsertUser(r)
    BY <1>0, <1>2, <2>2 DEF InsertUser, RequestOK
  <2> QED BY <2>1, <2>2
<1>7. RowsOK(urow')
  BY <1>0, <1>3, <1>4, <1>6 DEF RowsOK
<1>8. ASSUME NEW v \in Uids \ unclear' PROVE Moves(r, NoRq, v)
  <2>1. CASE v = u
    <3>1. Stage(rq[r], urow[u], sess[u], u)
      BY <1>2, <1>5, <2>1, StageOf
    <3>2. sess'[u] = NoPerm
      BY <1>1, <1>5, <1>6, <3>1 DEF Stage, Follows
    <3> QED BY <1>2, <2>1, <3>2, NoRqOK DEF Moves, Follows
  <2>2. CASE v # u
    BY <1>2, <1>4, <1>5, <2>2, NoRqOK DEF Moves
  <2> QED BY <2>1, <2>2
<1> QED BY <1>0, <1>4, <1>5, <1>7, <1>8, NoRqOK, StepKeeps

(* A user is marked disabled. *)
LEMMA WriteDisabledInv ==
    ASSUME UsrInv, NEW r \in Requests, WriteDisabled(r)
    PROVE  UsrInv'
<1>0. /\ urow \in [Uids -> URow] /\ saved \in [Uids -> URow]
      /\ sess \in [Uids -> Perms \cup {NoPerm}]
      /\ proxies \in 0..1 /\ unclear \subseteq Uids
      /\ RowsOK(urow) /\ RowsOK(saved) /\ RequestOK(rq[r])
  BY UsrTypes
<1>1. /\ rq[r].pc = "unlink" /\ Goto(r, "disabled") /\ "disabled" \in RqPc
      /\ UNCHANGED <<proxies, saved, sess, unclear>>
  BY DEF WriteDisabled, RqPc
<1>2. PICK u \in Uids : rq[r].us = {u} /\ On(r) = u
  BY <1>1, OneUser DEF OnePc
<1>3. urow[u].here /\ u \notin OwnerIds
  BY <1>0, <1>1, <1>2 DEF WriteDisabled, RequestOK
<1>4. PICK row \in URow : /\ urow' = [urow EXCEPT ![u] = row] /\ row.here /\ row.role = urow[u].role
  <2>1. PICK row : row = [urow[u] EXCEPT !.on = FALSE]
    OBVIOUS
  <2>2. row \in URow /\ row.here = urow[u].here /\ row.role = urow[u].role
    BY <1>0, <2>1 DEF URow
  <2>3. urow' = [urow EXCEPT ![u] = row]
    BY <1>0, <1>2, <2>1 DEF WriteDisabled
  <2> QED BY <1>3, <2>2, <2>3
<1>5. /\ urow' \in [Uids -> URow] /\ urow'[u] = row
      /\ \A v \in Uids : v # u => urow'[v] = urow[v]
  BY <1>0, <1>4
<1>6. RowsOK(urow')
  BY <1>0, <1>3, <1>4, <1>5 DEF RowsOK
<1>7. PICK n \in Rq : /\ rq' = [rq EXCEPT ![r] = n]
                      /\ n.pc = "disabled" /\ n.us = rq[r].us /\ n.op = rq[r].op
  BY <1>1, GotoOK
<1>8. RequestOK(n)
  BY <1>0, <1>1, <1>2, <1>7 DEF RequestOK, OnePc, AllPc
<1>9. ASSUME NEW v \in Uids \ unclear' PROVE Moves(r, n, v)
  <2>1. Stage(n, urow'[v], sess'[v], v)
    BY <1>7 DEF Stage
  <2> QED BY <1>1, <1>2, <1>5, <1>7, <2>1 DEF Moves
<1> QED BY <1>0, <1>1, <1>5, <1>6, <1>7, <1>8, <1>9, StepKeeps

(* removeAllUserSessions, and what comes after disableUser. *)
LEMMA RemoveUserSessionsInv ==
    ASSUME UsrInv, NEW r \in Requests, RemoveUserSessions(r)
    PROVE  UsrInv'
<1>0. /\ urow \in [Uids -> URow] /\ saved \in [Uids -> URow]
      /\ sess \in [Uids -> Perms \cup {NoPerm}] /\ rq[r] \in Rq
      /\ proxies \in 0..1 /\ unclear \subseteq Uids
      /\ RowsOK(urow) /\ RowsOK(saved) /\ RequestOK(rq[r])
  BY UsrTypes
<1>1. /\ rq[r].pc = "disabled" /\ AfterDisable(r)
      /\ sess' = [sess EXCEPT ![On(r)] = NoPerm]
      /\ UNCHANGED <<urow, proxies, saved, unclear>>
  BY DEF RemoveUserSessions
<1>2. PICK u \in Uids : rq[r].us = {u} /\ On(r) = u
  BY <1>1, OneUser DEF OnePc
<1>3. /\ sess' \in [Uids -> Perms \cup {NoPerm}] /\ sess'[u] = NoPerm
      /\ \A v \in Uids : v # u => sess'[v] = sess[v]
  BY <1>0, <1>1, <1>2
<1>4. u \notin OwnerIds /\ rq[r].op \in {"none", "delete", "update"}
  BY <1>0, <1>1, <1>2 DEF RequestOK, Rq
<1>5. PICK n \in Rq : /\ rq' = [rq EXCEPT ![r] = n] /\ RequestOK(n)
                      /\ \/ n.us = {}
                         \/ n.pc \in {"remove", "write"} /\ n.us = {u}
  <2>1. CASE rq[r].op = "none"
    <3>1. End(r)
      BY <1>1, <2>1 DEF AfterDisable
    <3> QED BY <3>1, EndOK, NoRqOK
  <2>2. CASE rq[r].op \in {"delete", "update"}
    <3>1. PICK pc \in RqPc : pc \in {"remove", "write"} /\ Goto(r, pc)
      BY <1>1, <2>2 DEF AfterDisable, RqPc
    <3>2. PICK n \in Rq : /\ rq' = [rq EXCEPT ![r] = n]
                          /\ n.pc = pc /\ n.us = rq[r].us /\ n.op = rq[r].op
      BY <3>1, GotoOK
    <3>3. RequestOK(n)
      BY <1>2, <1>4, <3>1, <3>2 DEF RequestOK, OnePc, AllPc
    <3> QED BY <1>2, <3>1, <3>2, <3>3
  <2> QED BY <1>4, <2>1, <2>2
<1>6. ASSUME NEW v \in Uids \ unclear' PROVE Moves(r, n, v)
  <2>1. CASE v = u
    <3>1. Follows(urow'[u], sess'[u])
      BY <1>3 DEF Follows
    <3>2. n.us = {u} => Stage(n, urow'[u], sess'[u], u)
      BY <1>3, <1>5, <3>1 DEF Stage
    <3> QED BY <1>2, <1>5, <2>1, <3>1, <3>2 DEF Moves
  <2>2. CASE v # u
    BY <1>1, <1>2, <1>3, <1>5, <2>2 DEF Moves
  <2> QED BY <2>1, <2>2
<1> QED BY <1>0, <1>1, <1>3, <1>5, <1>6, StepKeeps

(* A user is deleted. *)
LEMMA RemoveUserInv ==
    ASSUME UsrInv, NEW r \in Requests, RemoveUser(r)
    PROVE  UsrInv'
<1>0. /\ urow \in [Uids -> URow] /\ saved \in [Uids -> URow]
      /\ sess \in [Uids -> Perms \cup {NoPerm}]
      /\ proxies \in 0..1 /\ unclear \subseteq Uids
      /\ RowsOK(urow) /\ RowsOK(saved)
  BY UsrTypes
<1>1. /\ rq[r].pc = "remove" /\ rq' = [rq EXCEPT ![r] = NoRq]
      /\ UNCHANGED <<proxies, saved, sess, unclear>>
  BY EndOK DEF RemoveUser
<1>2. PICK u \in Uids : rq[r].us = {u} /\ On(r) = u
  BY <1>1, OneUser DEF OnePc
<1>3. /\ urow' \in [Uids -> URow] /\ urow'[u] = NoUser
      /\ \A v \in Uids : v # u => urow'[v] = urow[v]
  BY <1>0, <1>2, NoRqOK DEF RemoveUser
<1>4. RowsOK(urow')
  BY <1>0, <1>3, NoRqOK DEF RowsOK
<1>5. ASSUME NEW v \in Uids \ unclear' PROVE Moves(r, NoRq, v)
  <2>1. CASE v = u
    <3>1. Stage(rq[r], urow[u], sess[u], u)
      BY <1>1, <1>2, <2>1, StageOf
    <3>2. sess'[u] = NoPerm
      BY <1>1, <3>1 DEF Stage
    <3> QED BY <1>2, <2>1, <3>2, NoRqOK DEF Moves, Follows
  <2>2. CASE v # u
    BY <1>1, <1>2, <1>3, <2>2, NoRqOK DEF Moves
  <2> QED BY <2>1, <2>2
<1> QED BY <1>0, <1>1, <1>3, <1>4, <1>5, NoRqOK, StepKeeps

(* A user is updated: its row, and then its sessions. *)
LEMMA WriteUserInv ==
    ASSUME UsrInv, NEW r \in Requests, WriteUser(r)
    PROVE  UsrInv'
<1>0. /\ urow \in [Uids -> URow] /\ saved \in [Uids -> URow]
      /\ sess \in [Uids -> Perms \cup {NoPerm}]
      /\ rq[r].on \in BOOLEAN /\ rq[r].perm \in Perms
      /\ proxies \in 0..1 /\ unclear \subseteq Uids
      /\ RowsOK(urow) /\ RowsOK(saved) /\ RequestOK(rq[r])
  BY UsrTypes
<1>1. /\ rq[r].pc = "write" /\ Goto(r, "apply") /\ "apply" \in RqPc
      /\ UNCHANGED <<proxies, saved, sess, unclear>>
  BY DEF WriteUser, RqPc
<1>2. PICK u \in Uids : rq[r].us = {u} /\ On(r) = u
  BY <1>1, OneUser DEF OnePc
<1>3. urow[u].here /\ (rq[r].on \/ u \notin OwnerIds)
  BY <1>0, <1>1, <1>2 DEF WriteUser, RequestOK
<1>4. PICK row \in URow : /\ urow' = [urow EXCEPT ![u] = row] /\ row.here /\ row.role = urow[u].role
                          /\ row.on = rq[r].on /\ row.perm = rq[r].perm
  <2>1. PICK row : row = [urow[u] EXCEPT !.on = rq[r].on, !.perm = rq[r].perm]
    OBVIOUS
  <2>2. /\ row \in URow /\ row.here = urow[u].here /\ row.role = urow[u].role
        /\ row.on = rq[r].on /\ row.perm = rq[r].perm
    BY <1>0, <2>1 DEF URow
  <2>3. urow' = [urow EXCEPT ![u] = row]
    BY <1>0, <1>2, <2>1 DEF WriteUser
  <2> QED BY <1>3, <2>2, <2>3
<1>5. /\ urow' \in [Uids -> URow] /\ urow'[u] = row
      /\ \A v \in Uids : v # u => urow'[v] = urow[v]
  BY <1>0, <1>4
<1>6. RowsOK(urow')
  BY <1>0, <1>3, <1>4, <1>5 DEF RowsOK
<1>7. PICK n \in Rq : /\ rq' = [rq EXCEPT ![r] = n] /\ n.pc = "apply" /\ n.us = rq[r].us
                      /\ n.op = rq[r].op /\ n.perm = rq[r].perm
  BY <1>1, GotoOK
<1>8. RequestOK(n)
  BY <1>0, <1>1, <1>2, <1>7 DEF RequestOK, OnePc, AllPc
<1>9. ASSUME NEW v \in Uids \ unclear' PROVE Moves(r, n, v)
  <2>1. CASE v = u
    <3>1. Stage(rq[r], urow[u], sess[u], u)
      BY <1>1, <1>2, <2>1, StageOf
    <3>2. sess'[u] # NoPerm => rq[r].on
      BY <1>1, <3>1 DEF Stage
    <3>3. Stage(n, urow'[u], sess'[u], u)
      BY <1>4, <1>5, <1>7, <3>2 DEF Stage
    <3> QED BY <1>2, <1>7, <2>1, <3>3 DEF Moves
  <2>2. CASE v # u
    BY <1>1, <1>2, <1>5, <1>7, <2>2 DEF Moves
  <2> QED BY <2>1, <2>2
<1> QED BY <1>0, <1>1, <1>5, <1>6, <1>7, <1>8, <1>9, StepKeeps

(* The sessions get the permissions; a session is created. *)
LEMMA SessionWrittenInv ==
    ASSUME UsrInv, NEW r \in Requests, UpdateSessions(r) \/ CreateSession(r)
    PROVE  UsrInv'
<1>0. /\ urow \in [Uids -> URow] /\ saved \in [Uids -> URow]
      /\ sess \in [Uids -> Perms \cup {NoPerm}] /\ rq[r].perm \in Perms
      /\ proxies \in 0..1 /\ unclear \subseteq Uids
      /\ RowsOK(urow) /\ RowsOK(saved)
  BY UsrTypes
<1>1. /\ rq[r].pc \in {"apply", "auth"} /\ rq' = [rq EXCEPT ![r] = NoRq]
      /\ UNCHANGED <<urow, proxies, saved, unclear>>
  BY EndOK DEF UpdateSessions, CreateSession
<1>2. PICK u \in Uids : rq[r].us = {u} /\ On(r) = u
  BY <1>1, OneUser DEF OnePc
<1>3. /\ sess' \in [Uids -> Perms \cup {NoPerm}]
      /\ \A v \in Uids : v # u => sess'[v] = sess[v]
      /\ \/ rq[r].pc = "apply" /\ sess'[u] = IF sess[u] = NoPerm THEN NoPerm ELSE rq[r].perm
         \/ rq[r].pc = "auth" /\ sess'[u] = rq[r].perm
  <2>1. CASE UpdateSessions(r)
    <3>1. PICK s \in Perms \cup {NoPerm} : s = IF sess[u] = NoPerm THEN NoPerm ELSE rq[r].perm
      BY <1>0
    <3>2. sess' = [sess EXCEPT ![u] = s] /\ rq[r].pc = "apply"
      BY <1>0, <1>2, <2>1, <3>1 DEF UpdateSessions
    <3> QED BY <1>0, <3>1, <3>2
  <2>2. CASE CreateSession(r)
    BY <1>0, <1>2, <2>2 DEF CreateSession
  <2> QED BY <2>1, <2>2
<1>4. ASSUME NEW v \in Uids \ unclear' PROVE Moves(r, NoRq, v)
  <2>1. CASE v = u
    <3>1. Stage(rq[r], urow[u], sess[u], u)
      BY <1>1, <1>2, <2>1, StageOf
    <3>2. Follows(urow'[u], sess'[u])
      BY <1>1, <1>3, <3>1 DEF Stage, Follows
    <3> QED BY <1>2, <2>1, <3>2, NoRqOK DEF Moves
  <2>2. CASE v # u
    BY <1>1, <1>2, <1>3, <2>2, NoRqOK DEF Moves
  <2> QED BY <2>1, <2>2
<1> QED BY <1>0, <1>1, <1>3, <1>4, NoRqOK, StepKeeps

-----------------------------------------------------------------------------
(* The steps about all users. *)

(* The users of the proxy are listed. *)
LEMMA ListUsersInv ==
    ASSUME UsrInv, NEW r \in Requests, ListUsers(r)
    PROVE  UsrInv'
<1>0. /\ urow \in [Uids -> URow] /\ saved \in [Uids -> URow]
      /\ sess \in [Uids -> Perms \cup {NoPerm}] /\ rq \in [Requests -> Rq] /\ rq[r] \in Rq
      /\ proxies \in 0..1 /\ unclear \subseteq Uids
      /\ RowsOK(urow) /\ RowsOK(saved) /\ RequestOK(rq[r])
      /\ \A q \in Requests : rq[q].us \subseteq Uids
  BY UsrTypes
<1>1. /\ rq[r].pc = "list" /\ unclear' = unclear \cup Worked
      /\ UNCHANGED <<urow, proxies, saved, sess>>
  BY DEF ListUsers
<1>2. rq[r].us = {}
  BY <1>0, <1>1 DEF RequestOK, OnePc, AllPc, RqPc
<1>3. PICK todo \in SUBSET Uids : todo = Present
  BY DEF Present
<1>4. PICK n \in Rq : /\ rq' = [rq EXCEPT ![r] = n] /\ n.pc = "each" /\ n.us = Uids
                      /\ n.op = "bulk" /\ n.todo = todo
  <2>1. PICK n : n = [rq[r] EXCEPT !.pc = "each", !.todo = todo, !.op = "bulk", !.us = Uids]
    OBVIOUS
  <2>2. n \in Rq /\ n.pc = "each" /\ n.us = Uids /\ n.op = "bulk" /\ n.todo = todo
    BY <1>0, <2>1 DEF Rq, RqPc
  <2>3. rq' = [rq EXCEPT ![r] = n]
    BY <1>0, <1>3, <2>1 DEF ListUsers
  <2> QED BY <2>2, <2>3
<1>5. RequestOK(n)
  BY <1>4 DEF RequestOK, OnePc, AllPc
<1>6. unclear' \subseteq Uids
  BY <1>0, <1>1 DEF Worked
<1>7. ASSUME NEW u \in Uids \ unclear' PROVE Moves(r, n, u)
  <2>1. \A q \in Requests : u \notin rq[q].us
    BY <1>1 DEF Worked
  <2>2. Follows(urow[u], sess[u]) => Stage(n, urow[u], sess[u], u)
    BY <1>3, <1>4 DEF Stage, Follows, Present
  <2> QED BY <1>1, <2>1, <2>2 DEF Moves
<1> QED BY <1>0, <1>1, <1>4, <1>5, <1>6, <1>7, StepKeeps

(* One of them is disabled. *)
LEMMA DisableNextInv ==
    ASSUME UsrInv, NEW r \in Requests, NEW u \in Uids, DisableNext(r, u)
    PROVE  UsrInv'
<1>0. /\ urow \in [Uids -> URow] /\ saved \in [Uids -> URow] /\ urow[u] \in URow
      /\ sess \in [Uids -> Perms \cup {NoPerm}] /\ rq \in [Requests -> Rq] /\ rq[r] \in Rq
      /\ proxies \in 0..1 /\ unclear \subseteq Uids
      /\ RowsOK(urow) /\ RowsOK(saved) /\ RequestOK(rq[r])
  BY UsrTypes
<1>1. /\ rq[r].pc = "each" /\ u \in rq[r].todo /\ UNCHANGED <<proxies, saved, sess, unclear>>
  BY DEF DisableNext
<1>2. rq[r].us = Uids /\ rq[r].op = "bulk"
  BY <1>0, <1>1 DEF RequestOK, AllPc
<1>3. CASE ~MayDisable(u)
  <2>1. rq' = [rq EXCEPT ![r] = NoRq] /\ urow' = urow
    BY <1>3, EndOK DEF DisableNext
  <2>2. ASSUME NEW v \in Uids \ unclear' PROVE Moves(r, NoRq, v)
    <3>1. Stage(rq[r], urow[v], sess[v], v)
      BY <1>1, <1>2, StageOf
    <3> QED BY <1>1, <1>2, <2>1, <3>1, NoRqOK DEF Moves, Stage
  <2> QED BY <1>0, <1>1, <2>1, <2>2, NoRqOK, StepKeeps
<1>4. CASE MayDisable(u)
  <2>1. PICK row \in URow : /\ urow' = [urow EXCEPT ![u] = row]
                            /\ row.here = urow[u].here /\ row.role = urow[u].role
    <3>1. PICK row : row = [urow[u] EXCEPT !.on = FALSE]
      OBVIOUS
    <3>2. row \in URow /\ row.here = urow[u].here /\ row.role = urow[u].role
      BY <1>0, <3>1 DEF URow
    <3>3. urow' = [urow EXCEPT ![u] = row]
      BY <1>0, <1>4, <3>1 DEF DisableNext
    <3> QED BY <3>2, <3>3
  <2>2. /\ urow' \in [Uids -> URow] /\ urow'[u] = row
        /\ \A v \in Uids : v # u => urow'[v] = urow[v]
    BY <1>0, <2>1
  <2>3. RowsOK(urow')
    BY <1>0, <1>4, <2>1, <2>2 DEF RowsOK, MayDisable
  <2>4. PICK n \in Rq : /\ rq' = [rq EXCEPT ![r] = n] /\ n.pc = "eachOff" /\ n.us = Uids
                        /\ n.op = "bulk" /\ n.todo = rq[r].todo \ {u} /\ n.cur = {u}
    <3>1. PICK n : n = [rq[r] EXCEPT !.todo = rq[r].todo \ {u}, !.pc = "eachOff", !.cur = {u}]
      OBVIOUS
    <3>2. /\ n \in Rq /\ n.pc = "eachOff" /\ n.us = Uids /\ n.op = "bulk"
          /\ n.todo = rq[r].todo \ {u} /\ n.cur = {u}
      BY <1>0, <1>2, <3>1 DEF Rq, RqPc
    <3>3. rq' = [rq EXCEPT ![r] = n]
      BY <1>0, <1>4, <3>1 DEF DisableNext
    <3> QED BY <3>2, <3>3
  <2>5. RequestOK(n)
    BY <2>4 DEF RequestOK, OnePc, AllPc
  <2>6. ASSUME NEW v \in Uids \ unclear' PROVE Moves(r, n, v)
    <3>1. Stage(rq[r], urow[v], sess[v], v)
      BY <1>1, <1>2, StageOf
    <3>2. Stage(n, urow'[v], sess'[v], v)
      BY <1>1, <2>2, <2>4, <3>1 DEF Stage
    <3> QED BY <1>2, <2>4, <3>2 DEF Moves
  <2> QED BY <1>0, <1>1, <2>2, <2>3, <2>4, <2>5, <2>6, StepKeeps
<1> QED BY <1>3, <1>4

(* Its sessions are closed. *)
LEMMA RemoveNextSessionsInv ==
    ASSUME UsrInv, NEW r \in Requests, RemoveNextSessions(r)
    PROVE  UsrInv'
<1>0. /\ urow \in [Uids -> URow] /\ saved \in [Uids -> URow]
      /\ sess \in [Uids -> Perms \cup {NoPerm}] /\ rq \in [Requests -> Rq] /\ rq[r] \in Rq
      /\ proxies \in 0..1 /\ unclear \subseteq Uids
      /\ RowsOK(urow) /\ RowsOK(saved) /\ RequestOK(rq[r])
  BY UsrTypes
<1>1. /\ rq[r].pc = "eachOff" /\ UNCHANGED <<urow, proxies, saved, unclear>>
      /\ sess' = [u \in Uids |-> IF u \in rq[r].cur THEN NoPerm ELSE sess[u]]
  BY DEF RemoveNextSessions
<1>2. rq[r].us = Uids /\ rq[r].op = "bulk"
  BY <1>0, <1>1 DEF RequestOK, AllPc
<1>3. /\ sess' \in [Uids -> Perms \cup {NoPerm}]
      /\ \A u \in Uids : sess'[u] = IF u \in rq[r].cur THEN NoPerm ELSE sess[u]
  BY <1>0, <1>1
<1>4. PICK n \in Rq : /\ rq' = [rq EXCEPT ![r] = n] /\ n.pc = "each" /\ n.us = Uids
                      /\ n.op = "bulk" /\ n.todo = rq[r].todo
  <2>1. PICK n : n = [rq[r] EXCEPT !.pc = "each", !.cur = {}]
    OBVIOUS
  <2>2. n \in Rq /\ n.pc = "each" /\ n.us = Uids /\ n.op = "bulk" /\ n.todo = rq[r].todo
    BY <1>0, <1>2, <2>1 DEF Rq, RqPc
  <2>3. rq' = [rq EXCEPT ![r] = n]
    BY <1>0, <2>1 DEF RemoveNextSessions
  <2> QED BY <2>2, <2>3
<1>5. RequestOK(n)
  BY <1>4 DEF RequestOK, OnePc, AllPc
<1>6. ASSUME NEW u \in Uids \ unclear' PROVE Moves(r, n, u)
  <2>1. Stage(rq[r], urow[u], sess[u], u)
    BY <1>1, <1>2, StageOf
  <2>2. Stage(n, urow'[u], sess'[u], u)
    BY <1>1, <1>3, <1>4, <2>1 DEF Stage, Follows
  <2> QED BY <1>2, <1>4, <2>2 DEF Moves
<1> QED BY <1>0, <1>1, <1>3, <1>4, <1>5, <1>6, StepKeeps

(* The tables are emptied, filled or saved. *)
LEMMA TablesInv ==
    ASSUME UsrInv, NEW r \in Requests,
           DeleteUsers(r) \/ ResetUsers(r) \/ BackupRows(r) \/ RestoreRows(r) \/ DeleteProxyRow(r)
    PROVE  UsrInv'
<1>0. /\ urow \in [Uids -> URow] /\ saved \in [Uids -> URow]
      /\ sess \in [Uids -> Perms \cup {NoPerm}] /\ rq[r] \in Rq
      /\ proxies \in 0..1 /\ unclear \subseteq Uids
      /\ RowsOK(urow) /\ RowsOK(saved) /\ RequestOK(rq[r])
  BY UsrTypes
<1>1. ASSUME DeleteUsers(r) PROVE UsrInv'
  <2>1. /\ rq[r].pc = "each" /\ rq[r].todo = {} /\ urow' = Empty /\ rq' = [rq EXCEPT ![r] = NoRq]
        /\ UNCHANGED <<proxies, saved, sess, unclear>>
    BY <1>1, EndOK DEF DeleteUsers
  <2>2. rq[r].us = Uids
    BY <1>0, <2>1 DEF RequestOK, AllPc
  <2>3. ASSUME NEW u \in Uids \ unclear' PROVE Moves(r, NoRq, u)
    <3>1. Stage(rq[r], urow[u], sess[u], u)
      BY <2>1, <2>2, StageOf
    <3>2. sess'[u] = NoPerm
      BY <2>1, <3>1 DEF Stage
    <3> QED BY <2>2, <3>2, NoRqOK DEF Moves, Follows
  <2> QED BY <1>0, <2>1, <2>3, NoRqOK, StepKeeps
<1>2. ASSUME ResetUsers(r) \/ DeleteProxyRow(r) PROVE UsrInv'
  <2>1. PICK pc \in RqPc :
           /\ Goto(r, pc) /\ UNCHANGED <<saved, sess, unclear>>
           /\ \/ rq[r].pc = "resetUsers" /\ pc = "resetRest" /\ urow' = Empty /\ proxies' = proxies
              \/ rq[r].pc = "reset" /\ pc = "resetUsers" /\ urow' = urow /\ proxies' = 0
    BY <1>2 DEF ResetUsers, DeleteProxyRow, RqPc
  <2>2. rq[r].us = Uids
    BY <1>0, <2>1 DEF RequestOK, AllPc
  <2>3. PICK n \in Rq : /\ rq' = [rq EXCEPT ![r] = n]
                        /\ n.pc = pc /\ n.us = rq[r].us /\ n.op = rq[r].op
    BY <2>1, GotoOK
  <2>4. RequestOK(n)
    BY <1>0, <2>1, <2>3 DEF RequestOK, OnePc, AllPc
  <2>5. ASSUME NEW u \in Uids \ unclear' PROVE Moves(r, n, u)
    <3>1. Stage(rq[r], urow[u], sess[u], u)
      BY <2>1, <2>2, StageOf
    <3>2. Stage(n, urow'[u], sess'[u], u)
      BY <2>1, <2>3, <3>1 DEF Stage
    <3> QED BY <2>2, <2>3, <3>2 DEF Moves
  <2>6. urow' \in [Uids -> URow] /\ RowsOK(urow') /\ proxies' \in 0..1
    BY <1>0, <2>1, NoRqOK
  <2> QED BY <1>0, <2>1, <2>3, <2>4, <2>5, <2>6, StepKeeps
<1>3. ASSUME BackupRows(r) PROVE UsrInv'
  <2>1. /\ rq[r].pc = "backup" /\ saved' = urow /\ rq' = [rq EXCEPT ![r] = NoRq]
        /\ UNCHANGED <<urow, proxies, sess, unclear>>
    BY <1>3, EndOK DEF BackupRows
  <2>2. rq[r].us = {}
    BY <1>0, <2>1 DEF RequestOK, OnePc, AllPc, RqPc
  <2>3. ASSUME NEW u \in Uids \ unclear' PROVE Moves(r, NoRq, u)
    BY <2>1, <2>2, NoRqOK DEF Moves
  <2> QED BY <1>0, <2>1, <2>3, NoRqOK, StepKeeps
<1>4. ASSUME RestoreRows(r) PROVE UsrInv'
  <2>1. /\ rq[r].pc = "restore" /\ urow' = saved /\ rq' = [rq EXCEPT ![r] = NoRq]
        /\ proxies' \in {0, 1} /\ UNCHANGED <<saved, sess, unclear>>
    BY <1>4, EndOK DEF RestoreRows
  <2>2. rq[r].us = Uids
    BY <1>0, <2>1 DEF RequestOK, AllPc
  <2>3. ASSUME NEW u \in Uids \ unclear' PROVE Moves(r, NoRq, u)
    <3>1. Stage(rq[r], urow[u], sess[u], u)
      BY <2>1, <2>2, StageOf
    <3>2. sess'[u] = NoPerm
      BY <2>1, <3>1 DEF Stage
    <3> QED BY <2>2, <3>2, NoRqOK DEF Moves, Follows
  <2>4. proxies' \in 0..1
    BY <2>1
  <2> QED BY <1>0, <2>1, <2>3, <2>4, NoRqOK, StepKeeps
<1> QED BY <1>1, <1>2, <1>3, <1>4

(* All sessions are closed. *)
LEMMA NoSessionsInv ==
    ASSUME UsrInv, NEW r \in Requests, ResetSessions(r) \/ DropSessions(r)
    PROVE  UsrInv'
<1>0. /\ urow \in [Uids -> URow] /\ saved \in [Uids -> URow] /\ rq[r] \in Rq
      /\ proxies \in 0..1 /\ unclear \subseteq Uids
      /\ RowsOK(urow) /\ RowsOK(saved) /\ RequestOK(rq[r])
  BY UsrTypes
<1>1. /\ rq[r].pc \in {"resetSess", "quiet"} /\ UNCHANGED <<urow, proxies, saved, unclear>>
      /\ sess' = [u \in Uids |-> NoPerm]
  BY DEF ResetSessions, DropSessions, NoSessions
<1>2. rq[r].us = Uids
  BY <1>0, <1>1 DEF RequestOK, AllPc
<1>3. sess' \in [Uids -> Perms \cup {NoPerm}] /\ \A u \in Uids : sess'[u] = NoPerm
  BY <1>1
<1>4. PICK n \in Rq : /\ rq' = [rq EXCEPT ![r] = n] /\ RequestOK(n)
                      /\ \/ n.us = {}
                         \/ n.us = Uids /\ n.pc = "restore"
  <2>1. CASE ResetSessions(r)
    BY <2>1, EndOK, NoRqOK DEF ResetSessions
  <2>2. CASE DropSessions(r)
    <3>1. Goto(r, "restore") /\ "restore" \in RqPc /\ rq[r].pc = "quiet"
      BY <2>2 DEF DropSessions, RqPc
    <3>2. PICK n \in Rq : /\ rq' = [rq EXCEPT ![r] = n]
                          /\ n.pc = "restore" /\ n.us = rq[r].us /\ n.op = rq[r].op
      BY <3>1, GotoOK
    <3>3. RequestOK(n)
      BY <1>0, <3>1, <3>2 DEF RequestOK, OnePc, AllPc
    <3> QED BY <1>2, <3>2, <3>3
  <2> QED BY <2>1, <2>2
<1>5. ASSUME NEW u \in Uids \ unclear' PROVE Moves(r, n, u)
  BY <1>2, <1>3, <1>4 DEF Moves, Follows, Stage
<1> QED BY <1>0, <1>1, <1>3, <1>4, <1>5, StepKeeps

(* A query throws. *)
LEMMA FailsInv ==
    ASSUME UsrInv, NEW r \in Requests, Fails(r)
    PROVE  UsrInv'
<1>0. /\ urow \in [Uids -> URow] /\ saved \in [Uids -> URow]
      /\ sess \in [Uids -> Perms \cup {NoPerm}]
      /\ proxies \in 0..1 /\ unclear \subseteq Uids
      /\ RowsOK(urow) /\ RowsOK(saved)
  BY UsrTypes
<1>1. /\ rq[r].pc \notin {"disabled", "eachOff", "apply", "resetSess"}
      /\ rq' = [rq EXCEPT ![r] = NoRq]
      /\ unclear' = IF rq[r].pc = "resetRest" THEN Uids ELSE unclear
      /\ UNCHANGED <<urow, proxies, saved, sess>>
  BY EndOK DEF Fails
<1>2. unclear \subseteq unclear' /\ unclear' \subseteq Uids
  BY <1>0, <1>1
<1>3. ASSUME NEW u \in Uids \ unclear' PROVE Moves(r, NoRq, u)
  <2>1. rq[r].pc # "resetRest" /\ u \notin unclear
    BY <1>1
  <2>2. u \in rq[r].us => Stage(rq[r], urow[u], sess[u], u)
    BY <2>1, StageOf
  <2> QED BY <1>1, <2>1, <2>2, NoRqOK DEF Moves, Stage
<1> QED BY <1>0, <1>1, <1>2, <1>3, NoRqOK, StepKeeps

(* A session ends, a proxy is created, or nothing happens. *)
LEMMA OutsideInv ==
    ASSUME UsrInv, CreateProxy \/ (\E u \in Uids : CloseUserSession(u)) \/ UNCHANGED usrVars
    PROVE  UsrInv'
<1>0. /\ sess \in [Uids -> Perms \cup {NoPerm}] /\ proxies \in 0..1
  BY UsrTypes
<1>1. UNCHANGED <<urow, saved, rq, unclear>>
  BY DEF CreateProxy, CloseUserSession, usrVars
<1>2. proxies' \in 0..1
  BY <1>0 DEF CreateProxy, FirstProxy, CloseUserSession, usrVars
<1>3. /\ sess' \in [Uids -> Perms \cup {NoPerm}]
      /\ \A v \in Uids : sess'[v] = sess[v] \/ sess'[v] = NoPerm
  BY <1>0 DEF CreateProxy, CloseUserSession, usrVars
<1>4. UsrTypeOK'
  BY <1>1, <1>2, <1>3 DEF UsrInv, UsrTypeOK, Present
<1>5. RowsInv' /\ RequestsInv'
  BY <1>1, <1>2 DEF UsrInv, RowsInv, RequestsInv, RowsOK, RequestOK
<1>6. ASSUME NEW u \in Uids \ unclear
      PROVE  /\ (\A q \in Requests : u \notin rq[q].us) => Follows(urow[u], sess'[u])
             /\ \A q \in Requests : u \in rq[q].us => Stage(rq[q], urow[u], sess'[u], u)
             /\ \A p, q \in Requests : u \in rq[p].us /\ u \in rq[q].us => p = q
  <2>1. CASE sess'[u] = sess[u]
    BY <2>1 DEF UsrInv, ClearInv
  <2>2. CASE sess'[u] = NoPerm
    <3>1. \A q \in Requests : u \in rq[q].us => Stage(rq[q], urow[u], sess[u], u)
      BY DEF UsrInv, ClearInv
    <3>2. \A q \in Requests : u \in rq[q].us => Stage(rq[q], urow[u], sess'[u], u)
      BY <2>2, <3>1 DEF Stage, Follows
    <3>3. Follows(urow[u], sess'[u])
      BY <2>2 DEF Follows
    <3> QED BY <3>2, <3>3 DEF UsrInv, ClearInv
  <2> QED BY <1>3, <2>1, <2>2
<1>7. ClearInv'
  BY <1>1, <1>6 DEF ClearInv, Stage, Follows
<1> QED BY <1>4, <1>5, <1>7 DEF UsrInv

-----------------------------------------------------------------------------
(* The invariant holds at first. *)
LEMMA UsrInitInv == UsrInit => UsrInv
<1> SUFFICES ASSUME UsrInit PROVE UsrInv
  OBVIOUS
<1>1. /\ urow = Empty /\ proxies = 0 /\ saved = Empty /\ unclear = {}
      /\ sess = [u \in Uids |-> NoPerm] /\ rq = [r \in Requests |-> NoRq]
  BY DEF UsrInit
<1>2. /\ \A u \in Uids : sess[u] = NoPerm
      /\ \A r \in Requests : rq[r] = NoRq
  BY <1>1
<1>3. UsrTypeOK
  BY <1>1, NoRqOK DEF UsrTypeOK, Present
<1>4. RowsInv /\ RequestsInv
  BY <1>1, <1>2, NoRqOK DEF RowsInv, RequestsInv
<1>5. ClearInv
  BY <1>2, NoRqOK DEF ClearInv, Follows
<1> QED BY <1>3, <1>4, <1>5 DEF UsrInv

(* Every step keeps it. *)
LEMMA UsrNextInv == UsrInv /\ [UsrNext]_usrVars => UsrInv'
<1> SUFFICES ASSUME UsrInv, [UsrNext]_usrVars PROVE UsrInv'
  OBVIOUS
<1>1. ASSUME NEW r \in Requests, UsrStep(r) PROVE UsrInv'
  <2>1. CASE FindUser(r) \/ FindToDisable(r) \/ FindToUpdate(r) \/ ResetRest(r) \/ LookEmpty(r)
    BY <2>1, Queries
  <2>2. CASE CreateOwner(r) \/ InsertUser(r)
    BY <2>2, InsertedInv
  <2>3. CASE WriteDisabled(r) \/ RemoveUserSessions(r) \/ RemoveUser(r) \/ WriteUser(r)
    BY <2>3, WriteDisabledInv, RemoveUserSessionsInv, RemoveUserInv, WriteUserInv
  <2>4. CASE UpdateSessions(r) \/ CreateSession(r)
    BY <2>4, SessionWrittenInv
  <2>5. CASE ListUsers(r) \/ (\E u \in Uids : DisableNext(r, u)) \/ RemoveNextSessions(r)
    BY <2>5, ListUsersInv, DisableNextInv, RemoveNextSessionsInv
  <2>6. CASE DeleteUsers(r) \/ ResetUsers(r) \/ BackupRows(r) \/ RestoreRows(r) \/ DeleteProxyRow(r)
    BY <2>6, TablesInv
  <2>7. CASE ResetSessions(r) \/ DropSessions(r)
    BY <2>7, NoSessionsInv
  <2>8. CASE Fails(r)
    BY <2>8, FailsInv
  <2> QED BY <1>1, <2>1, <2>2, <2>3, <2>4, <2>5, <2>6, <2>7, <2>8 DEF UsrStep
<1>2. ASSUME NEW r \in Requests, EditRequest(r) \/ RowRequest(r) \/ TableRequest(r) PROVE UsrInv'
  BY <1>2, NewRequests
<1>3. ASSUME CreateProxy \/ (\E u \in Uids : CloseUserSession(u)) \/ UNCHANGED usrVars PROVE UsrInv'
  BY <1>3, OutsideInv
<1> QED BY <1>1, <1>2, <1>3 DEF UsrNext, Always, Edits, Tables

(* The invariant is one of the specification. *)
LEMMA UsrInvHolds == UsrSpec => []UsrInv
BY UsrInitInv, UsrNextInv, PTL DEF UsrSpec

(* For any number of users, of requests and of permission documents,       *)
(* whatever requests for users, backups, restores and resets overlap at    *)
(* their queries, and whichever of them fail: the rows are well formed,    *)
(* there is at most one owner and one proxy, and a user that no two        *)
(* requests worked on at once has no session after it was disabled or      *)
(* deleted, and the permissions of its row in the ones it has.             *)
THEOREM UsersStaySound == UsrSpec => []UsersSound
<1>1. UsrInv => UsersSound
  <2> SUFFICES ASSUME UsrInv PROVE OneOwner /\ SessionsFollowRows
    BY DEF UsersSound, UsrInv
  <2>1. OneOwner
    <3>1. proxies <= 1
      BY UsrTypes
    <3>2. \A u, v \in Owners : u = v
      BY UsrTypes DEF RowsOK, Owners, Present
    <3>3. Cardinality(Owners) <= 1
      <4>1. CASE Owners = {}
        BY <4>1, FS_EmptySet
      <4>2. CASE Owners # {}
        <5>1. PICK u \in Owners : TRUE
          BY <4>2
        <5>2. Owners = {u}
          BY <3>2, <5>1
        <5> QED BY <5>2, FS_Singleton
      <4> QED BY <4>1, <4>2
    <3> QED BY <3>1, <3>3 DEF OneOwner
  <2>2. SessionsFollowRows
    BY DEF UsrInv, ClearInv, Follows, SessionsFollowRows, Worked
  <2> QED BY <2>1, <2>2
<1> QED BY <1>1, UsrInvHolds, PTL

(* No step disables or deletes the owner, or takes its role, but a reset   *)
(* of the proxy and a deletion of all users that listed them before there  *)
(* was an owner; a restore in particular replaces nobody.                  *)
THEOREM OwnerIsKept == UsrSpec => OwnerKept
<1> DEFINE Kept == \A u \in Owners :
          \/ urow'[u].here /\ urow'[u].on = urow[u].on /\ urow'[u].role = "owner"
          \/ \E r \in Requests :
                \/ rq[r].pc = "resetUsers" /\ rq'[r].pc = "resetRest"
                \/ rq[r].op = "bulk" /\ rq[r].pc = "each"
<1>1. UsrInv /\ [UsrNext]_usrVars => [Kept]_usrVars
  <2> SUFFICES ASSUME UsrInv, UsrNext, NEW u \in Owners
               PROVE  \/ urow'[u].here /\ urow'[u].on = urow[u].on /\ urow'[u].role = "owner"
                      \/ \E r \in Requests :
                            \/ rq[r].pc = "resetUsers" /\ rq'[r].pc = "resetRest"
                            \/ rq[r].op = "bulk" /\ rq[r].pc = "each"
    OBVIOUS
  <2>0. /\ urow \in [Uids -> URow] /\ rq \in [Requests -> Rq] /\ RowsOK(urow)
        /\ \A r \in Requests : RequestOK(rq[r]) /\ rq[r] \in Rq /\ rq[r].on \in BOOLEAN
        /\ \A v \in Uids : urow[v] \in URow
    BY UsrTypes
  <2>1. /\ u \in Uids /\ urow[u].here /\ urow[u].role = "owner" /\ urow[u].on /\ u \in OwnerIds
        /\ urow[u].on = TRUE
    BY <2>0 DEF Owners, Present, RowsOK, URow
  <2>2. ASSUME urow'[u] = urow[u] PROVE urow'[u].here /\ urow'[u].on = urow[u].on
                                         /\ urow'[u].role = "owner"
    BY <2>1, <2>2
  <2>3. ASSUME NEW r \in Requests, UsrStep(r), urow'[u] # urow[u]
        PROVE  \/ urow'[u].here /\ urow'[u].on = urow[u].on /\ urow'[u].role = "owner"
               \/ rq[r].pc = "resetUsers" /\ rq'[r].pc = "resetRest"
               \/ rq[r].op = "bulk" /\ rq[r].pc = "each"
    <3>1. CASE CreateOwner(r)
      BY <2>1, <3>1 DEF CreateOwner, FirstUser, Present
    <3>2. CASE InsertUser(r)
      BY <2>0, <2>1, <2>3, <3>2 DEF InsertUser, Inserted
    <3>3. CASE WriteDisabled(r) \/ RemoveUser(r)
      <4>1. rq[r].pc \in {"unlink", "remove"}
        BY <3>3 DEF WriteDisabled, RemoveUser
      <4>2. PICK v \in Uids : rq[r].us = {v} /\ On(r) = v
        BY <4>1, OneUser DEF OnePc
      <4>3. v # u
        BY <2>0, <2>1, <4>1, <4>2 DEF RequestOK
      <4> QED BY <2>0, <2>1, <2>3, <3>3, <4>2, <4>3 DEF WriteDisabled, RemoveUser
    <3>4. CASE WriteUser(r)
      <4>1. rq[r].pc = "write"
        BY <3>4 DEF WriteUser
      <4>2. PICK v \in Uids : rq[r].us = {v} /\ On(r) = v
        BY <4>1, OneUser DEF OnePc
      <4>3. v = u
        BY <2>0, <2>1, <2>3, <3>4, <4>2 DEF WriteUser
      <4>4. rq[r].on = TRUE
        BY <2>0, <2>1, <4>1, <4>2, <4>3 DEF RequestOK
      <4>5. urow'[u] = [urow[u] EXCEPT !.on = rq[r].on, !.perm = rq[r].perm]
        BY <2>0, <2>1, <3>4, <4>2, <4>3 DEF WriteUser
      <4>6. urow'[u].here = urow[u].here /\ urow'[u].on = rq[r].on /\ urow'[u].role = urow[u].role
        BY <2>0, <2>1, <4>5 DEF URow
      <4> QED BY <2>1, <4>4, <4>6
    <3>5. CASE \E v \in Uids : DisableNext(r, v)
      BY <2>0, <2>1, <2>3, <3>5 DEF DisableNext, MayDisable
    <3>6. CASE DeleteUsers(r)
      BY <2>0, <3>6 DEF DeleteUsers, RequestOK
    <3>7. CASE ResetUsers(r)
      <4>1. Goto(r, "resetRest") /\ "resetRest" \in RqPc /\ rq[r].pc = "resetUsers"
        BY <3>7 DEF ResetUsers, RqPc
      <4>2. PICK n \in Rq : rq' = [rq EXCEPT ![r] = n] /\ n.pc = "resetRest"
        BY <4>1, GotoOK
      <4> QED BY <2>0, <4>1, <4>2
    <3>8. CASE RestoreRows(r)
      BY <2>1, <3>8 DEF RestoreRows, StillEmpty, Present
    <3>9. CASE UNCHANGED urow
      BY <2>3, <3>9
    <3>10. \/ CreateOwner(r) \/ InsertUser(r) \/ WriteDisabled(r) \/ RemoveUser(r) \/ WriteUser(r)
           \/ (\E v \in Uids : DisableNext(r, v)) \/ DeleteUsers(r) \/ ResetUsers(r)
           \/ RestoreRows(r) \/ UNCHANGED urow
      BY <2>3 DEF UsrStep, FindUser, FindToDisable, RemoveUserSessions, FindToUpdate, UpdateSessions,
                  ListUsers, RemoveNextSessions, DeleteProxyRow, ResetRest, ResetSessions, BackupRows,
                  LookEmpty, DropSessions, CreateSession, Fails
    <3> QED BY <3>1, <3>2, <3>3, <3>4, <3>5, <3>6, <3>7, <3>8, <3>9, <3>10
  <2>4. ASSUME NEW r \in Requests, EditRequest(r) \/ RowRequest(r) \/ TableRequest(r)
        PROVE  urow' = urow
    BY <2>4 DEF EditRequest, RowRequest, TableRequest, UpdateUser, DisableUser, DeleteUser, CreateUser,
                Authenticate, DeleteUsersByProxy, DeleteProxy, Backup, Restore, Enter
  <2>5. ASSUME CreateProxy \/ (\E v \in Uids : CloseUserSession(v)) PROVE urow' = urow
    BY <2>5 DEF CreateProxy, CloseUserSession
  <2>6. \/ \E r \in Requests : UsrStep(r) \/ EditRequest(r) \/ RowRequest(r) \/ TableRequest(r)
        \/ CreateProxy \/ (\E v \in Uids : CloseUserSession(v))
    BY DEF UsrNext, Always, Edits, Tables
  <2> QED BY <2>2, <2>3, <2>4, <2>5, <2>6
<1> QED BY <1>1, UsrInvHolds, PTL DEF UsrSpec, OwnerKept

-----------------------------------------------------------------------------
(* The servers: the inductive invariant. *)

(* What a request is about, by the step it is at. *)
TemplatePc == {"closeAll", "users", "forget",
               "cfg", "cfgUser", "cfgMake", "cfgCode", "cfgSave", "cfgStart", "cfgPrefs",
               "unc", "uncClose", "uncSave", "uncPrefs"}
ManagedPc == {"add", "reauth", "reauthCode", "launch", "save", "reconnect", "remove", "drop"}
UserPc == {"cfg", "cfgUser", "cfgMake", "cfgCode", "cfgSave", "cfgStart", "cfgPrefs",
           "unc", "uncClose", "uncSave", "uncPrefs", "temps"}
LaunchPc == {"reauth", "reauthCode", "launch", "save", "reconnect"}
UpdatePc == {"update", "write", "apply"}
SnapPc == {"forget", "cfgMake", "cfgCode", "cfgSave", "uncClose", "uncSave"}
HandlerOK(r) ==
    /\ r \in Handler
    /\ r.pc = "idle" => r.s = {}
    /\ r.pc \notin {"idle", "each", "wipe", "temps"} => \E s \in Servers : r.s = {s}
    /\ r.pc \in TemplatePc \cup {"temps"} => r.s \subseteq Templates
    /\ r.pc \in ManagedPc => r.s \cap Templates = {}
    /\ r.pc \in {"each", "wipe"} => r.s = Servers
    /\ r.pc \in UserPc => r.u \in People
    /\ r.pc \in LaunchPc => r.conf # NoConf
    /\ r.pc \in UpdatePc /\ r.conf # NoConf => r.s \cap Templates = {}

(* Where a request is with a server, when it is the only one.               *)
Along(r, s) ==
    /\ r.pc = "add" => srow[s].here /\ srow[s].enabled
    /\ r.pc = "write" => (srow[s].here => r.was = srow[s].enabled)
    /\ r.pc = "apply" => srow[s].here /\ srow[s].enabled = r.en /\ (ctx[s].here => r.was)
    /\ r.pc = "reconnect" \/ (r.pc = "save" /\ r.had) => srow[s].here /\ srow[s].enabled
    /\ r.pc = "disable" => ~ctx[s].here
    /\ r.pc \in {"users", "forget"} => \A p \in People : <<s, p>> \notin temps
    /\ r.pc = "wipe" => ~ctx[s].here /\ \A p \in People : <<s, p>> \notin temps
    /\ r.pc \in {"cfgUser", "cfgMake", "cfgCode", "cfgSave", "cfgStart", "cfgPrefs"} => srow[s].here
    /\ r.pc \in {"cfgStart", "cfgPrefs", "temps"} => s \in cfgs[r.u]
    /\ r.pc \in {"uncSave", "uncPrefs"} => <<s, r.u>> \notin temps
    /\ r.pc \notin {"apply", "drop"} => (ctx[s].here => srow[s].here /\ srow[s].enabled)

(* A server that no two requests worked on: nothing of it is left running.  *)
InstancesOK(s) == \A p \in People : <<s, p>> \in temps => srow[s].here /\ s \in cfgs[p] \cup scfg[p]
ServerOK(s) ==
    /\ \A h, g \in Handlers : s \in hs[h].s \cap hs[g].s => h = g
    /\ \A h \in Handlers : s \in hs[h].s => Along(hs[h], s)
    /\ (\A h \in Handlers : s \notin hs[h].s) => (ctx[s].here => srow[s].here /\ srow[s].enabled)
    /\ s \in Templates => ~ctx[s].here
    /\ InstancesOK(s)

(* What a request that writes back the configurations has read: all there   *)
(* are.                                                                     *)
Snapped(r) ==
    r.pc \in SnapPc => \A p \in People : \A t \in Templates \ mixed :
        /\ t \in cfgs[p] => t \in r.snap[p]
        /\ t \in r.snap[p] => t \in cfgs[p] \cup r.s

SrvTypes == SrvTypeOK /\ \A h \in Handlers : HandlerOK(hs[h])
ServersInv == \A s \in Servers \ mixed : ServerOK(s)
RewritesInv ==
    /\ \A h, g \in Handlers :
          h # g /\ hs[h].pc \in RewritePc /\ hs[g].pc \in RewritePc
                /\ hs[h].s \cap Templates # {} /\ hs[g].s \cap Templates # {} => hs[h].s \subseteq mixed
    /\ \A h \in Handlers : Snapped(hs[h])
    /\ \A p \in People \ live : scfg[p] = {}
SrvInv == SrvTypes /\ ServersInv /\ RewritesInv

-----------------------------------------------------------------------------
(* A server after a step of a request that works on it: the request goes on, *)
(* or has left it.                                                           *)
OwnOK(n, s) ==
    /\ s \in n.s => Along(n, s)
    /\ s \notin n.s => (ctx[s].here => srow[s].here /\ srow[s].enabled)
    /\ s \in Templates => ~ctx[s].here
    /\ InstancesOK(s)

LEMMA SrvRecords ==
    /\ Free \in Handler /\ Free.pc = "idle" /\ Free.s = {} /\ HandlerOK(Free)
    /\ NoRow \in SRow /\ ~NoRow.here /\ NoRow.conf = NoConf
    /\ NoCtx \in Ctx /\ ~NoCtx.here
    /\ Nothing \in [People -> SUBSET Templates]
<1>1. Nothing \in [People -> SUBSET Templates]
  BY DEF Nothing
<1>2. /\ Free \in Handler /\ Free.pc = "idle" /\ Free.s = {}
  BY <1>1 DEF Free, Handler, Pc
<1>3. HandlerOK(Free)
  BY <1>2 DEF HandlerOK, TemplatePc, ManagedPc, UserPc, LaunchPc, UpdatePc
<1>4. NoRow \in SRow /\ ~NoRow.here /\ NoRow.conf = NoConf
  BY DEF NoRow, SRow
<1>5. NoCtx \in Ctx /\ ~NoCtx.here
  BY DEF NoCtx, Ctx
<1> QED
  BY <1>1, <1>2, <1>3, <1>4, <1>5

(* What the type invariant says of one handler and one server.               *)
LEMMA HandlerFacts ==
    ASSUME SrvTypes, NEW h \in Handlers
    PROVE  hs[h] \in Handler /\ HandlerOK(hs[h]) /\ hs[h].s \subseteq Servers
BY DEF SrvTypes, SrvTypeOK, Handler

LEMMA TheOnly ==
    ASSUME SrvTypes, NEW h \in Handlers, hs[h].pc \notin {"idle", "each", "wipe", "temps"}
    PROVE  The(h) \in Servers /\ hs[h].s = {The(h)}
<1>1. PICK s \in Servers : hs[h].s = {s}
  BY HandlerFacts DEF HandlerOK
<1> QED
  BY <1>1 DEF The

(* A step of one request.                                                    *)
LEMMA RequestStep ==
    ASSUME SrvInv, NEW h \in Handlers, NEW n, HandlerOK(n), hs' = [hs EXCEPT ![h] = n],
           n.s = hs[h].s \/ n.s = {},
           n.pc \in RewritePc => hs[h].pc \in RewritePc,
           mixed \subseteq mixed', SrvTypeOK',
           cfgs' = cfgs \/ hs[h].pc \in SnapPc,
           \A s \in Servers \ (mixed' \cup hs[h].s) :
              /\ srow'[s] = srow[s] /\ ctx'[s] = ctx[s]
              /\ \A p \in People : /\ <<s, p>> \in temps' => <<s, p>> \in temps
                                   /\ s \in cfgs'[p] <=> s \in cfgs[p]
                                   /\ s \in scfg[p] => s \in cfgs'[p] \cup scfg'[p],
           \A s \in hs[h].s \ mixed' : OwnOK(n, s)',
           Snapped(n)',
           \A p \in People \ live' : scfg'[p] = {}
    PROVE  SrvInv'
<1>1. hs \in [Handlers -> Handler] /\ \A g \in Handlers : hs'[g] = IF g = h THEN n ELSE hs[g]
  BY DEF SrvInv, SrvTypes, SrvTypeOK
<1>2. SrvTypes'
  BY <1>1 DEF SrvInv, SrvTypes, HandlerOK
<1>3. ASSUME NEW s \in Servers \ mixed' PROVE ServerOK(s)'
  <2>1. ServerOK(s)
    BY <1>3 DEF SrvInv, ServersInv
  <2>2. \A g, k \in Handlers : s \in hs'[g].s \cap hs'[k].s => g = k
    BY <1>1, <2>1 DEF ServerOK
  <2>3. CASE s \in hs[h].s
    <3>1. OwnOK(n, s)'
      BY <1>3, <2>3
    <3>2. \A g \in Handlers : g # h => s \notin hs'[g].s
      BY <1>1, <2>1, <2>3 DEF ServerOK
    <3>3. \A g \in Handlers : s \in hs'[g].s => Along(hs[g], s)'
      BY <1>1, <3>1, <3>2 DEF OwnOK
    <3> QED
      BY <1>1, <2>2, <3>1, <3>2, <3>3 DEF ServerOK, OwnOK
  <2>4. CASE s \notin hs[h].s
    <3>1. /\ srow'[s] = srow[s] /\ ctx'[s] = ctx[s]
          /\ \A p \in People : /\ <<s, p>> \in temps' => <<s, p>> \in temps
                               /\ s \in cfgs'[p] <=> s \in cfgs[p]
                               /\ s \in scfg[p] => s \in cfgs'[p] \cup scfg'[p]
      BY <1>3, <2>4
    <3>2. ASSUME NEW g \in Handlers, s \in hs'[g].s PROVE Along(hs[g], s)'
      <4>1. g # h /\ s \in hs[g].s /\ hs'[g] = hs[g]
        BY <1>1, <2>4, <3>2
      <4>2. Along(hs[g], s) /\ HandlerOK(hs[g])
        BY <2>1, <4>1, HandlerFacts DEF ServerOK, SrvInv
      <4>3. hs[g].pc \in UserPc => hs[g].u \in People
        BY <4>2 DEF HandlerOK
      <4> QED
        BY <3>1, <4>1, <4>2, <4>3 DEF Along, UserPc
    <3>3. InstancesOK(s)'
      BY <2>1, <3>1 DEF ServerOK, InstancesOK
    <3>4. (\A g \in Handlers : s \notin hs'[g].s) => (\A g \in Handlers : s \notin hs[g].s)
      BY <1>1, <2>4
    <3> QED
      BY <2>1, <2>2, <3>1, <3>2, <3>3, <3>4 DEF ServerOK
  <2> QED
    BY <2>3, <2>4
<1>4. ASSUME NEW g \in Handlers, NEW k \in Handlers, g # k, hs'[g].pc \in RewritePc, hs'[k].pc \in RewritePc,
             hs'[g].s \cap Templates # {}, hs'[k].s \cap Templates # {}
      PROVE  hs'[g].s \subseteq mixed'
  <2>1. /\ hs[g].pc \in RewritePc /\ hs[k].pc \in RewritePc
        /\ hs'[g].s \subseteq hs[g].s /\ hs'[k].s \subseteq hs[k].s
    BY <1>1, <1>4
  <2>2. hs[g].s \subseteq mixed
    BY <1>4, <2>1 DEF SrvInv, RewritesInv
  <2> QED
    BY <2>1, <2>2
<1>5. ASSUME NEW g \in Handlers PROVE Snapped(hs[g])'
  <2>1. CASE g = h
    BY <1>1, <2>1
  <2>2. CASE g # h /\ hs[g].pc \in SnapPc
    <3>1. Snapped(hs[g]) /\ hs'[g] = hs[g]
      BY <1>1, <2>2 DEF SrvInv, RewritesInv
    <3>2. ASSUME NEW p \in People, NEW t \in Templates \ mixed' PROVE t \in cfgs'[p] <=> t \in cfgs[p]
      <4>1. CASE cfgs' = cfgs
        BY <4>1
      <4>2. CASE hs[h].pc \in SnapPc
        <5>1. /\ hs[h].pc \in RewritePc /\ hs[g].pc \in RewritePc
              /\ hs[h].s \cap Templates # {} /\ hs[g].s \cap Templates # {}
          BY <2>2, <4>2, HandlerFacts DEF SrvInv, HandlerOK, SnapPc, RewritePc, TemplatePc
        <5>2. hs[h].s \subseteq mixed
          BY <2>2, <5>1 DEF SrvInv, RewritesInv
        <5>3. t \in Servers \ (mixed' \cup hs[h].s)
          BY <3>2, <5>2, TemplateAssumption
        <5> QED
          BY <5>3
      <4> QED
        BY <4>1, <4>2
    <3> QED
      BY <2>2, <3>1, <3>2 DEF Snapped
  <2>3. CASE g # h /\ hs[g].pc \notin SnapPc
    BY <1>1, <2>3 DEF Snapped
  <2> QED
    BY <2>1, <2>2, <2>3
<1>6. RewritesInv'
  BY <1>4, <1>5 DEF RewritesInv
<1> QED
  BY <1>2, <1>3, <1>6 DEF SrvInv, ServersInv


-----------------------------------------------------------------------------
(* Steps that only look.                                                     *)

LEMMA OwnFacts ==
    ASSUME SrvInv, NEW h \in Handlers, NEW s \in hs[h].s \ mixed
    PROVE  Along(hs[h], s) /\ (s \in Templates => ~ctx[s].here) /\ InstancesOK(s)
<1>1. ServerOK(s)
  BY HandlerFacts DEF SrvInv, ServersInv
<1> QED
  BY <1>1 DEF ServerOK

LEMMA LookStep ==
    ASSUME SrvInv, NEW h \in Handlers, NEW n, HandlerOK(n), hs' = [hs EXCEPT ![h] = n],
           n.s = hs[h].s \/ n.s = {},
           n.pc \in RewritePc => hs[h].pc \in RewritePc,
           UNCHANGED <<srow, ctx, temps, cfgs, prefs, scfg, live, mixed>>,
           \A s \in hs[h].s \ mixed : OwnOK(n, s),
           Snapped(n)
    PROVE  SrvInv'
<1>1. n \in Handler
  BY DEF HandlerOK
<1>2. SrvTypeOK'
  BY <1>1 DEF SrvInv, SrvTypes, SrvTypeOK
<1>3. \A s \in hs[h].s \ mixed' : OwnOK(n, s)'
  BY DEF OwnOK, Along, InstancesOK
<1>4. Snapped(n)'
  BY DEF Snapped
<1>5. \A p \in People \ live' : scfg'[p] = {}
  BY DEF SrvInv, RewritesInv
<1> QED
  BY <1>2, <1>3, <1>4, <1>5, RequestStep

(* A request that ends leaves the server as it should be.                    *)
LEMMA LookDone ==
    ASSUME SrvInv, NEW h \in Handlers, Done(h), hs[h].pc \notin {"apply", "drop"},
           UNCHANGED <<srow, ctx, temps, cfgs, prefs, scfg, live, mixed>>
    PROVE  SrvInv'
<1>1. \A s \in hs[h].s \ mixed : OwnOK(Free, s)
  BY OwnFacts, SrvRecords DEF OwnOK, Along
<1>2. Snapped(Free) /\ Free.pc \notin RewritePc
  BY SrvRecords DEF Snapped, SnapPc, RewritePc
<1> QED
  BY <1>1, <1>2, SrvRecords, LookStep DEF Done

LEMMA ThrowInv ==
    ASSUME SrvInv, NEW h \in Handlers, Throw(h)
    PROVE  SrvInv'
BY LookDone DEF Throw, Silent

(* The record of a request that goes on.                                     *)
LEMMA Moved ==
    ASSUME SrvTypes, NEW h \in Handlers, NEW pc \in Pc, NEW n, n = [hs[h] EXCEPT !.pc = pc]
    PROVE  /\ n \in Handler /\ n.pc = pc /\ n.s = hs[h].s /\ n.u = hs[h].u /\ n.conf = hs[h].conf /\ n.en = hs[h].en
           /\ n.was = hs[h].was /\ n.had = hs[h].had /\ n.snap = hs[h].snap /\ n.psnap = hs[h].psnap
           /\ n.todo = hs[h].todo
<1>1. hs[h] \in Handler
  BY HandlerFacts
<1> QED
  BY <1>1 DEF Handler

LEMMA GoesTo ==
    ASSUME SrvTypes, NEW h \in Handlers, NEW pc \in Pc, Go(h, pc)
    PROVE  \E n : hs' = [hs EXCEPT ![h] = n] /\ n = [hs[h] EXCEPT !.pc = pc]
BY DEF Go

(* A request goes on to a step of which nothing more is known.               *)
PlainPc == {"enable", "close", "check", "exchange", "insert", "tail"}
LEMMA PlainStep ==
    ASSUME SrvInv, NEW h \in Handlers, NEW pc \in PlainPc, Go(h, pc),
           hs[h].pc \notin {"idle", "each", "wipe", "temps", "apply", "drop"},
           UNCHANGED <<srow, ctx, temps, cfgs, prefs, scfg, live, mixed>>
    PROVE  SrvInv'
<1>1. pc \in Pc
  BY DEF PlainPc, Pc
<1>2. PICK n : hs' = [hs EXCEPT ![h] = n] /\ n = [hs[h] EXCEPT !.pc = pc]
  BY <1>1, GoesTo DEF SrvInv
<1>3. n \in Handler /\ n.pc = pc /\ n.s = hs[h].s
  BY <1>1, <1>2, Moved DEF SrvInv
<1>4. HandlerOK(n)
  BY <1>3, HandlerFacts DEF SrvInv, HandlerOK, PlainPc, TemplatePc, ManagedPc, UserPc, LaunchPc, UpdatePc
<1>5. \A s \in hs[h].s \ mixed : OwnOK(n, s)
  BY <1>3, OwnFacts DEF OwnOK, Along, PlainPc
<1>6. Snapped(n) /\ n.pc \notin RewritePc
  BY <1>3 DEF Snapped, SnapPc, RewritePc, PlainPc
<1> QED
  BY <1>2, <1>3, <1>4, <1>5, <1>6, LookStep

LEMMA FindForStartInv ==
    ASSUME SrvInv, NEW h \in Handlers, FindForStart(h)
    PROVE  SrvInv'
BY PlainStep DEF FindForStart, PlainPc

LEMMA FindForCreateInv ==
    ASSUME SrvInv, NEW h \in Handlers, FindForCreate(h) \/ CheckCreate(h) \/ ExchangeForCreate(h)
    PROVE  SrvInv'
BY PlainStep DEF FindForCreate, CheckCreate, ExchangeForCreate, PlainPc

LEMMA FindForUpdateInv ==
    ASSUME SrvInv, NEW h \in Handlers, FindForUpdate(h)
    PROVE  SrvInv'
<1>1. PICK n : n = [hs[h] EXCEPT !.pc = "write", !.was = Row(h).enabled]
  OBVIOUS
<1>2. hs[h].pc = "update" /\ hs' = [hs EXCEPT ![h] = n] /\ UNCHANGED <<srow, ctx, temps, cfgs, prefs, scfg, live, mixed>>
  BY <1>1 DEF FindForUpdate
<1>3. The(h) \in Servers /\ hs[h].s = {The(h)} /\ Row(h).enabled \in BOOLEAN /\ Row(h) = srow[The(h)]
  BY <1>2, TheOnly DEF Row, SrvInv, SrvTypes, SrvTypeOK, SRow
<1>4. n \in Handler /\ n.pc = "write" /\ n.s = hs[h].s /\ n.conf = hs[h].conf /\ n.was = Row(h).enabled
  <2>1. hs[h] \in Handler /\ "write" \in Pc
    BY HandlerFacts DEF SrvInv, Pc
  <2> QED
    BY <1>1, <1>3, <2>1 DEF Handler
<1>5. HandlerOK(n)
  BY <1>2, <1>4, HandlerFacts DEF SrvInv, HandlerOK, TemplatePc, ManagedPc, UserPc, LaunchPc, UpdatePc
<1>6. \A s \in hs[h].s \ mixed : OwnOK(n, s)
  BY <1>2, <1>3, <1>4, OwnFacts DEF OwnOK, Along
<1>7. Snapped(n) /\ n.pc \notin RewritePc
  BY <1>4 DEF Snapped, SnapPc, RewritePc
<1> QED
  BY <1>2, <1>4, <1>5, <1>6, <1>7, LookStep

LEMMA FindForReauthInv ==
    ASSUME SrvInv, NEW h \in Handlers, FindForReauth(h) \/ Reauthorized(h)
    PROVE  SrvInv'
<1>1. PICK pc \in {"reauthCode", "launch"} : /\ Go(h, pc) /\ hs[h].pc \in {"reauth", "reauthCode"}
                                             /\ UNCHANGED <<srow, ctx, temps, cfgs, prefs, scfg, live, mixed>>
  BY DEF FindForReauth, Reauthorized
<1>2. pc \in Pc
  BY DEF Pc
<1>3. PICK n : hs' = [hs EXCEPT ![h] = n] /\ n = [hs[h] EXCEPT !.pc = pc]
  BY <1>1, <1>2, GoesTo DEF SrvInv
<1>4. n \in Handler /\ n.pc = pc /\ n.s = hs[h].s /\ n.conf = hs[h].conf
  BY <1>2, <1>3, Moved DEF SrvInv
<1>5. HandlerOK(n)
  BY <1>1, <1>4, HandlerFacts DEF SrvInv, HandlerOK, TemplatePc, ManagedPc, UserPc, LaunchPc, UpdatePc
<1>6. \A s \in hs[h].s \ mixed : OwnOK(n, s)
  BY <1>1, <1>4, OwnFacts DEF OwnOK, Along
<1>7. Snapped(n) /\ n.pc \notin RewritePc
  BY <1>4 DEF Snapped, SnapPc, RewritePc
<1> QED
  BY <1>1, <1>3, <1>4, <1>5, <1>6, <1>7, LookStep

LEMMA FindForLaunchInv ==
    ASSUME SrvInv, NEW h \in Handlers, FindForLaunch(h)
    PROVE  SrvInv'
<1>1. hs[h].pc = "launch" /\ UNCHANGED <<srow, ctx, temps, cfgs, prefs, scfg, live, mixed>>
  BY DEF FindForLaunch
<1>2. CASE Row(h).conf = hs[h].conf
  BY <1>1, <1>2, PlainStep, LookDone DEF FindForLaunch, PlainPc
<1>3. CASE Row(h).conf # hs[h].conf
  <2>1. PICK n : n = [hs[h] EXCEPT !.pc = "save", !.had = ctx[The(h)].here]
    OBVIOUS
  <2>2. hs' = [hs EXCEPT ![h] = n]
    BY <1>3, <2>1 DEF FindForLaunch
  <2>3. The(h) \in Servers /\ hs[h].s = {The(h)} /\ ctx[The(h)].here \in BOOLEAN
    BY <1>1, TheOnly DEF SrvInv, SrvTypes, SrvTypeOK, Ctx
  <2>4. n \in Handler /\ n.pc = "save" /\ n.s = hs[h].s /\ n.conf = hs[h].conf /\ n.had = ctx[The(h)].here
    <3>1. hs[h] \in Handler /\ "save" \in Pc
      BY HandlerFacts DEF SrvInv, Pc
    <3> QED
      BY <2>1, <2>3, <3>1 DEF Handler
  <2>5. HandlerOK(n)
    BY <1>1, <2>4, HandlerFacts DEF SrvInv, HandlerOK, TemplatePc, ManagedPc, UserPc, LaunchPc, UpdatePc
  <2>6. \A s \in hs[h].s \ mixed : OwnOK(n, s)
    BY <1>1, <2>3, <2>4, OwnFacts DEF OwnOK, Along
  <2>7. Snapped(n) /\ n.pc \notin RewritePc
    BY <2>4 DEF Snapped, SnapPc, RewritePc
  <2> QED
    BY <1>1, <2>2, <2>4, <2>5, <2>6, <2>7, LookStep
<1> QED
  BY <1>2, <1>3


LEMMA FindForDeleteInv ==
    ASSUME SrvInv, NEW h \in Handlers, FindForDelete(h)
    PROVE  SrvInv'
<1>1. PICK pc : pc = IF The(h) \in Templates THEN "closeAll" ELSE "remove"
  OBVIOUS
<1>2. hs[h].pc = "delete" /\ Go(h, pc) /\ UNCHANGED <<srow, ctx, temps, cfgs, prefs, scfg, live, mixed>>
  BY <1>1 DEF FindForDelete
<1>3. pc \in Pc /\ pc \in {"closeAll", "remove"}
  BY <1>1 DEF Pc
<1>4. PICK n : hs' = [hs EXCEPT ![h] = n] /\ n = [hs[h] EXCEPT !.pc = pc]
  BY <1>2, <1>3, GoesTo DEF SrvInv
<1>5. n \in Handler /\ n.pc = pc /\ n.s = hs[h].s
  BY <1>3, <1>4, Moved DEF SrvInv
<1>6. The(h) \in Servers /\ hs[h].s = {The(h)}
  BY <1>2, TheOnly DEF SrvInv
<1>7. HandlerOK(n)
  BY <1>1, <1>5, <1>6 DEF HandlerOK, TemplatePc, ManagedPc, UserPc, LaunchPc, UpdatePc
<1>8. \A s \in hs[h].s \ mixed : OwnOK(n, s)
  BY <1>2, <1>3, <1>5, OwnFacts DEF OwnOK, Along
<1>9. Snapped(n) /\ hs[h].pc \in RewritePc
  BY <1>2, <1>3, <1>5 DEF Snapped, SnapPc, RewritePc
<1> QED
  BY <1>2, <1>4, <1>5, <1>7, <1>8, <1>9, LookStep

(* What the users have is read as it is.                                     *)
LEMMA SnapNow ==
    ASSUME SrvTypes, NEW n, n.snap = cfgs
    PROVE  Snapped(n)
BY DEF Snapped

LEMMA ReadUsersInv ==
    ASSUME SrvInv, NEW h \in Handlers, ReadUsers(h)
    PROVE  SrvInv'
<1>1. PICK n : n = [hs[h] EXCEPT !.pc = "forget", !.snap = cfgs, !.psnap = prefs,
                                 !.todo = {p \in People : The(h) \in cfgs[p] \cup prefs[p]}]
  OBVIOUS
<1>2. hs[h].pc = "users" /\ hs' = [hs EXCEPT ![h] = n] /\ UNCHANGED <<srow, ctx, temps, cfgs, prefs, scfg, live, mixed>>
  BY <1>1 DEF ReadUsers
<1>3. n \in Handler /\ n.pc = "forget" /\ n.s = hs[h].s /\ n.snap = cfgs
  <2>1. hs[h] \in Handler /\ "forget" \in Pc
    BY HandlerFacts DEF SrvInv, Pc
  <2>2. {cfgs, prefs} \subseteq [People -> SUBSET Templates]
    BY DEF SrvInv, SrvTypes, SrvTypeOK
  <2> QED
    BY <1>1, <2>1, <2>2 DEF Handler
<1>4. HandlerOK(n)
  BY <1>2, <1>3, HandlerFacts DEF SrvInv, HandlerOK, TemplatePc, ManagedPc, UserPc, LaunchPc, UpdatePc
<1>5. \A s \in hs[h].s \ mixed : OwnOK(n, s)
  BY <1>2, <1>3, OwnFacts DEF OwnOK, Along
<1>6. Snapped(n) /\ hs[h].pc \in RewritePc
  BY <1>2, <1>3, SnapNow DEF SrvInv, RewritePc
<1> QED
  BY <1>2, <1>3, <1>4, <1>5, <1>6, LookStep

LEMMA FindTemplateInv ==
    ASSUME SrvInv, NEW h \in Handlers, FindTemplate(h)
    PROVE  SrvInv'
<1>1. /\ hs[h].pc = "cfg" /\ Row(h).here /\ Go(h, "cfgUser")
      /\ UNCHANGED <<srow, ctx, temps, cfgs, prefs, scfg, live, mixed>>
  BY DEF FindTemplate
<1>2. "cfgUser" \in Pc
  BY DEF Pc
<1>3. PICK n : hs' = [hs EXCEPT ![h] = n] /\ n = [hs[h] EXCEPT !.pc = "cfgUser"]
  BY <1>1, <1>2, GoesTo DEF SrvInv
<1>4. n \in Handler /\ n.pc = "cfgUser" /\ n.s = hs[h].s /\ n.u = hs[h].u
  BY <1>2, <1>3, Moved DEF SrvInv
<1>5. HandlerOK(n)
  BY <1>1, <1>4, HandlerFacts DEF SrvInv, HandlerOK, TemplatePc, ManagedPc, UserPc, LaunchPc, UpdatePc
<1>6. \A s \in hs[h].s : srow[s].here
  BY <1>1, TheOnly DEF SrvInv, Row
<1>7. \A s \in hs[h].s \ mixed : OwnOK(n, s)
  BY <1>1, <1>4, <1>6, OwnFacts DEF OwnOK, Along
<1>8. Snapped(n) /\ hs[h].pc \in RewritePc
  BY <1>1, <1>4 DEF Snapped, SnapPc, RewritePc
<1> QED
  BY <1>1, <1>3, <1>4, <1>5, <1>7, <1>8, LookStep

LEMMA ReadUserInv ==
    ASSUME SrvInv, NEW h \in Handlers, ReadUser(h)
    PROVE  SrvInv'
<1>1. PICK n : n = [hs[h] EXCEPT !.pc = "cfgMake", !.snap = cfgs, !.psnap = prefs]
  OBVIOUS
<1>2. hs[h].pc = "cfgUser" /\ hs' = [hs EXCEPT ![h] = n] /\ UNCHANGED <<srow, ctx, temps, cfgs, prefs, scfg, live, mixed>>
  BY <1>1 DEF ReadUser
<1>3. n \in Handler /\ n.pc = "cfgMake" /\ n.s = hs[h].s /\ n.u = hs[h].u /\ n.snap = cfgs
  <2>1. hs[h] \in Handler /\ "cfgMake" \in Pc
    BY HandlerFacts DEF SrvInv, Pc
  <2>2. {cfgs, prefs} \subseteq [People -> SUBSET Templates]
    BY DEF SrvInv, SrvTypes, SrvTypeOK
  <2> QED
    BY <1>1, <2>1, <2>2 DEF Handler
<1>4. HandlerOK(n)
  BY <1>2, <1>3, HandlerFacts DEF SrvInv, HandlerOK, TemplatePc, ManagedPc, UserPc, LaunchPc, UpdatePc
<1>5. \A s \in hs[h].s \ mixed : OwnOK(n, s)
  BY <1>2, <1>3, OwnFacts DEF OwnOK, Along
<1>6. Snapped(n) /\ hs[h].pc \in RewritePc
  BY <1>2, <1>3, SnapNow DEF SrvInv, RewritePc
<1> QED
  BY <1>2, <1>3, <1>4, <1>5, <1>6, LookStep

LEMMA MakeConfigInv ==
    ASSUME SrvInv, NEW h \in Handlers, MakeConfig(h) \/ ExchangeForUser(h)
    PROVE  SrvInv'
<1>1. PICK pc \in {"cfgSave", "cfgCode"} : /\ Go(h, pc) /\ hs[h].pc \in {"cfgMake", "cfgCode"}
                                           /\ UNCHANGED <<srow, ctx, temps, cfgs, prefs, scfg, live, mixed>>
  BY DEF MakeConfig, ExchangeForUser
<1>2. pc \in Pc
  BY DEF Pc
<1>3. PICK n : hs' = [hs EXCEPT ![h] = n] /\ n = [hs[h] EXCEPT !.pc = pc]
  BY <1>1, <1>2, GoesTo DEF SrvInv
<1>4. n \in Handler /\ n.pc = pc /\ n.s = hs[h].s /\ n.u = hs[h].u /\ n.snap = hs[h].snap
  BY <1>2, <1>3, Moved DEF SrvInv
<1>5. HandlerOK(n)
  BY <1>1, <1>4, HandlerFacts DEF SrvInv, HandlerOK, TemplatePc, ManagedPc, UserPc, LaunchPc, UpdatePc
<1>6. \A s \in hs[h].s \ mixed : OwnOK(n, s)
  BY <1>1, <1>4, OwnFacts DEF OwnOK, Along
<1>7. Snapped(hs[h]) /\ hs[h].pc \in SnapPc
  BY <1>1 DEF SrvInv, RewritesInv, SnapPc
<1>8. Snapped(n) /\ hs[h].pc \in RewritePc
  BY <1>1, <1>4, <1>7 DEF Snapped, RewritePc
<1> QED
  BY <1>1, <1>3, <1>4, <1>5, <1>6, <1>8, LookStep

LEMMA ReadConfiguredInv ==
    ASSUME SrvInv, NEW h \in Handlers, ReadConfigured(h)
    PROVE  SrvInv'
<1>1. hs[h].pc = "unc" /\ UNCHANGED <<srow, ctx, temps, cfgs, prefs, scfg, live, mixed>>
  BY DEF ReadConfigured
<1>2. CASE The(h) \notin cfgs[hs[h].u]
  BY <1>1, <1>2, LookDone DEF ReadConfigured
<1>3. CASE The(h) \in cfgs[hs[h].u]
  <2>1. PICK n : n = [hs[h] EXCEPT !.pc = "uncClose", !.snap = cfgs, !.psnap = prefs]
    OBVIOUS
  <2>2. hs' = [hs EXCEPT ![h] = n]
    BY <1>3, <2>1 DEF ReadConfigured
  <2>3. n \in Handler /\ n.pc = "uncClose" /\ n.s = hs[h].s /\ n.u = hs[h].u /\ n.snap = cfgs
    <3>1. hs[h] \in Handler /\ "uncClose" \in Pc
      BY HandlerFacts DEF SrvInv, Pc
    <3>2. {cfgs, prefs} \subseteq [People -> SUBSET Templates]
      BY DEF SrvInv, SrvTypes, SrvTypeOK
    <3> QED
      BY <2>1, <3>1, <3>2 DEF Handler
  <2>4. HandlerOK(n)
    BY <1>1, <2>3, HandlerFacts DEF SrvInv, HandlerOK, TemplatePc, ManagedPc, UserPc, LaunchPc, UpdatePc
  <2>5. \A s \in hs[h].s \ mixed : OwnOK(n, s)
    BY <1>1, <2>3, OwnFacts DEF OwnOK, Along
  <2>6. Snapped(n) /\ hs[h].pc \in RewritePc
    BY <1>1, <2>3, SnapNow DEF SrvInv, RewritePc
  <2> QED
    BY <1>1, <2>2, <2>3, <2>4, <2>5, <2>6, LookStep
<1> QED
  BY <1>2, <1>3

-----------------------------------------------------------------------------
(* Steps that change rows, contexts or instances of the own servers.         *)

LEMMA WorkStep ==
    ASSUME SrvInv, NEW h \in Handlers, NEW n, HandlerOK(n), hs' = [hs EXCEPT ![h] = n],
           n.s = hs[h].s \/ n.s = {},
           n.pc \in RewritePc => hs[h].pc \in RewritePc,
           mixed \subseteq mixed', mixed' \subseteq Servers,
           srow' \in [Servers -> SRow], \A s \in Servers : srow'[s].here <=> srow'[s].conf # NoConf,
           ctx' \in [Servers -> Ctx], temps' \subseteq Templates \X People,
           prefs' \in [People -> SUBSET Templates],
           UNCHANGED <<cfgs, scfg, live>>,
           \A s \in Servers \ hs[h].s :
              /\ srow'[s] = srow[s] /\ ctx'[s] = ctx[s]
              /\ \A p \in People : <<s, p>> \in temps' => <<s, p>> \in temps,
           \A s \in hs[h].s \ mixed' : OwnOK(n, s)',
           Snapped(n)
    PROVE  SrvInv'
<1>1. n \in Handler
  BY DEF HandlerOK
<1>2. SrvTypeOK'
  BY <1>1 DEF SrvInv, SrvTypes, SrvTypeOK
<1>3. Snapped(n)'
  BY DEF Snapped
<1>4. \A p \in People \ live' : scfg'[p] = {}
  BY DEF SrvInv, RewritesInv
<1> QED
  BY <1>2, <1>3, <1>4, RequestStep

(* The types that such a step starts from.                                   *)
LEMMA StartTypes ==
    ASSUME SrvInv
    PROVE  /\ srow \in [Servers -> SRow] /\ \A s \in Servers : srow[s].here <=> srow[s].conf # NoConf
           /\ ctx \in [Servers -> Ctx] /\ temps \subseteq Templates \X People
           /\ {cfgs, prefs, scfg} \subseteq [People -> SUBSET Templates]
           /\ mixed \subseteq Servers /\ live \subseteq People
BY DEF SrvInv, SrvTypes, SrvTypeOK

(* A request about one server writes its row.                                *)
LEMMA RowStep ==
    ASSUME SrvInv, NEW h \in Handlers, NEW n, HandlerOK(n), hs' = [hs EXCEPT ![h] = n],
           n.s = hs[h].s \/ n.s = {}, n.pc \in RewritePc => hs[h].pc \in RewritePc,
           NEW s \in Servers, hs[h].s = {s}, NEW r \in SRow, r.here <=> r.conf # NoConf,
           srow' = [srow EXCEPT ![s] = r],
           UNCHANGED <<ctx, temps, cfgs, prefs, scfg, live, mixed>>,
           s \notin mixed => OwnOK(n, s)', Snapped(n)
    PROVE  SrvInv'
<1>1. srow' \in [Servers -> SRow] /\ \A q \in Servers : srow'[q] = IF q = s THEN r ELSE srow[q]
  BY StartTypes
<1>2. \A q \in Servers : srow'[q].here <=> srow'[q].conf # NoConf
  BY <1>1, StartTypes
<1>3. \A q \in hs[h].s \ mixed' : OwnOK(n, q)'
  OBVIOUS
<1> QED
  BY <1>1, <1>2, <1>3, StartTypes, WorkStep

(* A request about one server changes its context.                           *)
LEMMA CtxStep ==
    ASSUME SrvInv, NEW h \in Handlers, NEW n, HandlerOK(n), hs' = [hs EXCEPT ![h] = n],
           n.s = hs[h].s \/ n.s = {}, n.pc \in RewritePc => hs[h].pc \in RewritePc,
           NEW s \in Servers, hs[h].s = {s}, NEW x \in Ctx, ctx' = [ctx EXCEPT ![s] = x],
           UNCHANGED <<srow, temps, cfgs, prefs, scfg, live>>,
           mixed \subseteq mixed', mixed' \subseteq Servers,
           s \notin mixed' => OwnOK(n, s)', Snapped(n)
    PROVE  SrvInv'
<1>1. ctx' \in [Servers -> Ctx] /\ \A q \in Servers : ctx'[q] = IF q = s THEN x ELSE ctx[q]
  BY StartTypes
<1>3. \A q \in hs[h].s \ mixed' : OwnOK(n, q)'
  OBVIOUS
<1> QED
  BY <1>1, <1>3, StartTypes, WorkStep

(* A request changes the instances of its templates.                         *)
LEMMA TempsStep ==
    ASSUME SrvInv, NEW h \in Handlers, NEW n, HandlerOK(n), hs' = [hs EXCEPT ![h] = n],
           n.s = hs[h].s \/ n.s = {}, n.pc \in RewritePc => hs[h].pc \in RewritePc,
           temps' \subseteq Templates \X People,
           \A s \in Servers \ hs[h].s : \A p \in People : <<s, p>> \in temps' => <<s, p>> \in temps,
           UNCHANGED <<srow, ctx, cfgs, prefs, scfg, live>>,
           mixed \subseteq mixed', mixed' \subseteq Servers,
           \A s \in hs[h].s \ mixed' : OwnOK(n, s)', Snapped(n)
    PROVE  SrvInv'
BY StartTypes, WorkStep

(* A request that ends.                                                      *)
LEMMA EndsFree ==
    Snapped(Free) /\ Free.pc \notin RewritePc /\ HandlerOK(Free) /\ Free.s = {}
BY SrvRecords DEF Snapped, SnapPc, RewritePc

(* The row of the server of a request.                                       *)
LEMMA OwnRow ==
    ASSUME SrvInv, NEW h \in Handlers, hs[h].pc \notin {"idle", "each", "wipe", "temps"}
    PROVE  \E s \in Servers : /\ s = The(h) /\ hs[h].s = {s} /\ Row(h) = srow[s]
                              /\ srow[s] \in SRow /\ (srow[s].here <=> srow[s].conf # NoConf)
                              /\ ctx[s] \in Ctx
BY TheOnly DEF SrvInv, SrvTypes, SrvTypeOK, Row

LEMMA EnableInv ==
    ASSUME SrvInv, NEW h \in Handlers, Enable(h)
    PROVE  SrvInv'
<1>1. /\ hs[h].pc = "enable" /\ Row(h).here /\ srow' = [srow EXCEPT ![The(h)].enabled = TRUE]
      /\ UNCHANGED <<ctx, temps, cfgs, prefs, scfg, live, mixed>>
  BY DEF Enable
<1>2. PICK s \in Servers : /\ s = The(h) /\ hs[h].s = {s} /\ Row(h) = srow[s]
                           /\ srow[s] \in SRow /\ (srow[s].here <=> srow[s].conf # NoConf)
  BY <1>1, OwnRow
<1>3. PICK r : r = [srow[s] EXCEPT !.enabled = TRUE]
  OBVIOUS
<1>4. r \in SRow /\ r.here /\ r.conf # NoConf /\ r.enabled /\ srow' = [srow EXCEPT ![s] = r] /\ srow'[s] = r
  <2>1. r \in SRow /\ r.here /\ r.conf # NoConf /\ r.enabled
    BY <1>1, <1>2, <1>3 DEF SRow
  <2> QED
    BY <1>1, <1>2, <1>3, <2>1, StartTypes
<1>5. s \notin mixed => InstancesOK(s) /\ (s \in Templates => ~ctx[s].here)
  BY <1>2, OwnFacts
<1>6. s \notin mixed => InstancesOK(s)'
  BY <1>1, <1>4, <1>5 DEF InstancesOK
<1>7. CASE s \in Templates
  <2>1. hs' = [hs EXCEPT ![h] = Free]
    BY <1>2, <1>7 DEF Enable, Done
  <2>2. s \notin mixed => OwnOK(Free, s)'
    BY <1>1, <1>4, <1>5, <1>6, EndsFree DEF OwnOK
  <2> QED
    BY <1>1, <1>2, <1>4, <2>1, <2>2, EndsFree, RowStep
<1>8. CASE s \notin Templates
  <2>1. PICK n : n = [hs[h] EXCEPT !.pc = "add", !.conf = Row(h).conf]
    OBVIOUS
  <2>2. hs' = [hs EXCEPT ![h] = n]
    BY <1>2, <1>8, <2>1 DEF Enable
  <2>3. n \in Handler /\ n.pc = "add" /\ n.s = hs[h].s
    <3>1. hs[h] \in Handler /\ "add" \in Pc /\ Row(h).conf \in Confs \cup {NoConf}
      BY <1>2, HandlerFacts DEF SrvInv, Pc, SRow
    <3> QED
      BY <2>1, <3>1 DEF Handler
  <2>4. HandlerOK(n)
    BY <1>2, <1>8, <2>3 DEF HandlerOK, TemplatePc, ManagedPc, UserPc, LaunchPc, UpdatePc
  <2>5. s \notin mixed => OwnOK(n, s)'
    BY <1>1, <1>2, <1>4, <1>5, <1>6, <2>3 DEF OwnOK, Along
  <2>6. Snapped(n) /\ n.pc \notin RewritePc
    BY <2>3 DEF Snapped, SnapPc, RewritePc
  <2> QED
    BY <1>1, <1>2, <1>4, <2>2, <2>3, <2>4, <2>5, <2>6, RowStep
<1> QED
  BY <1>7, <1>8

LEMMA DisableInv ==
    ASSUME SrvInv, NEW h \in Handlers, Disable(h)
    PROVE  SrvInv'
<1>1. /\ hs[h].pc = "disable" /\ Row(h).here /\ srow' = [srow EXCEPT ![The(h)].enabled = FALSE]
      /\ hs' = [hs EXCEPT ![h] = Free] /\ UNCHANGED <<ctx, temps, cfgs, prefs, scfg, live, mixed>>
  BY DEF Disable, Done
<1>2. PICK s \in Servers : /\ s = The(h) /\ hs[h].s = {s} /\ Row(h) = srow[s]
                           /\ srow[s] \in SRow /\ (srow[s].here <=> srow[s].conf # NoConf)
  BY <1>1, OwnRow
<1>3. PICK r : r = [srow[s] EXCEPT !.enabled = FALSE]
  OBVIOUS
<1>4. r \in SRow /\ r.here /\ r.conf # NoConf /\ srow' = [srow EXCEPT ![s] = r] /\ srow'[s] = r
  <2>1. r \in SRow /\ r.here /\ r.conf # NoConf
    BY <1>1, <1>2, <1>3 DEF SRow
  <2> QED
    BY <1>1, <1>2, <1>3, <2>1, StartTypes
<1>5. s \notin mixed => InstancesOK(s) /\ ~ctx[s].here
  BY <1>1, <1>2, OwnFacts DEF Along
<1>6. s \notin mixed => InstancesOK(s)'
  BY <1>1, <1>4, <1>5 DEF InstancesOK
<1>7. s \notin mixed => OwnOK(Free, s)'
  BY <1>1, <1>4, <1>5, <1>6, EndsFree DEF OwnOK
<1> QED
  BY <1>1, <1>2, <1>4, <1>7, EndsFree, RowStep

LEMMA WriteUpdateInv ==
    ASSUME SrvInv, NEW h \in Handlers, WriteUpdate(h)
    PROVE  SrvInv'
<1>1. /\ hs[h].pc = "write" /\ Row(h).here /\ Go(h, "apply")
      /\ srow' = [srow EXCEPT ![The(h)].enabled = hs[h].en,
                              ![The(h)].conf = IF hs[h].conf = NoConf THEN @ ELSE hs[h].conf]
      /\ UNCHANGED <<ctx, temps, cfgs, prefs, scfg, live, mixed>>
  BY DEF WriteUpdate
<1>2. PICK s \in Servers : /\ s = The(h) /\ hs[h].s = {s} /\ Row(h) = srow[s]
                           /\ srow[s] \in SRow /\ (srow[s].here <=> srow[s].conf # NoConf)
  BY <1>1, OwnRow
<1>3. PICK r : r = [srow[s] EXCEPT !.enabled = hs[h].en, !.conf = IF hs[h].conf = NoConf THEN @ ELSE hs[h].conf]
  OBVIOUS
<1>4. r \in SRow /\ r.here /\ r.conf # NoConf /\ r.enabled = hs[h].en /\ srow' = [srow EXCEPT ![s] = r] /\ srow'[s] = r
  <2>1. hs[h].en \in BOOLEAN /\ hs[h].conf \in Confs \cup {NoConf}
    BY HandlerFacts DEF SrvInv, Handler
  <2>2. r \in SRow /\ r.here /\ r.conf # NoConf /\ r.enabled = hs[h].en
    BY <1>1, <1>2, <1>3, <2>1 DEF SRow
  <2>3. srow' = [srow EXCEPT ![s] = r]
    BY <1>1, <1>2, <1>3, StartTypes
  <2> QED
    BY <1>2, <2>2, <2>3, StartTypes
<1>5. "apply" \in Pc
  BY DEF Pc
<1>6. PICK n : hs' = [hs EXCEPT ![h] = n] /\ n = [hs[h] EXCEPT !.pc = "apply"]
  BY <1>1, <1>5, GoesTo DEF SrvInv
<1>7. n \in Handler /\ n.pc = "apply" /\ n.s = hs[h].s /\ n.conf = hs[h].conf /\ n.en = hs[h].en /\ n.was = hs[h].was
  BY <1>5, <1>6, Moved DEF SrvInv
<1>8. HandlerOK(n)
  BY <1>1, <1>7, HandlerFacts DEF SrvInv, HandlerOK, TemplatePc, ManagedPc, UserPc, LaunchPc, UpdatePc
<1>9. ASSUME s \notin mixed PROVE OwnOK(n, s)'
  <2>1. Along(hs[h], s) /\ InstancesOK(s) /\ (s \in Templates => ~ctx[s].here)
    BY <1>2, <1>9, OwnFacts
  <2>2. InstancesOK(s)'
    BY <1>1, <1>4, <2>1 DEF InstancesOK
  <2>3. Along(n, s)'
    BY <1>1, <1>2, <1>4, <1>7, <2>1 DEF Along
  <2> QED
    BY <1>1, <1>2, <1>7, <2>1, <2>2, <2>3 DEF OwnOK
<1>10. Snapped(n) /\ n.pc \notin RewritePc
  BY <1>7 DEF Snapped, SnapPc, RewritePc
<1>11. UNCHANGED <<ctx, temps, cfgs, prefs, scfg, live, mixed>>
  BY <1>1
<1>12. srow' = [srow EXCEPT ![s] = r] /\ r \in SRow /\ (r.here <=> r.conf # NoConf)
  BY <1>4
<1> QED
  BY <1>2, <1>6, <1>7, <1>8, <1>9, <1>10, <1>11, <1>12, RowStep

LEMMA InsertServerInv ==
    ASSUME SrvInv, NEW h \in Handlers, InsertServer(h)
    PROVE  SrvInv'
<1>1. PICK r : r = [here |-> TRUE, enabled |-> hs[h].en, conf |-> 1]
  OBVIOUS
<1>2. /\ hs[h].pc = "insert" /\ ~Row(h).here /\ srow' = [srow EXCEPT ![The(h)] = r]
      /\ hs' = [hs EXCEPT ![h] = Free] /\ UNCHANGED <<ctx, temps, cfgs, prefs, scfg, live, mixed>>
  BY <1>1 DEF InsertServer, Done
<1>3. PICK s \in Servers : s = The(h) /\ hs[h].s = {s} /\ Row(h) = srow[s]
  BY <1>2, OwnRow
<1>4. r \in SRow /\ r.here /\ r.conf # NoConf
  <2>1. hs[h].en \in BOOLEAN /\ 1 \in Confs
    BY HandlerFacts, ConfAssumption DEF SrvInv, Handler, Confs
  <2> QED
    BY <1>1, <2>1 DEF SRow, NoConf
<1>5. srow'[s] = r
  BY <1>2, <1>3, StartTypes
<1>6. s \notin mixed => InstancesOK(s) /\ ~ctx[s].here
  BY <1>2, <1>3, OwnFacts DEF Along
<1>7. s \notin mixed => InstancesOK(s)'
  BY <1>2, <1>4, <1>5, <1>6 DEF InstancesOK
<1>8. s \notin mixed => OwnOK(Free, s)'
  BY <1>2, <1>6, <1>7, EndsFree DEF OwnOK
<1> QED
  BY <1>2, <1>3, <1>4, <1>8, EndsFree, RowStep

LEMMA SaveLaunchInv ==
    ASSUME SrvInv, NEW h \in Handlers, SaveLaunch(h)
    PROVE  SrvInv'
<1>1. /\ hs[h].pc = "save" /\ Row(h).here /\ srow' = [srow EXCEPT ![The(h)].conf = hs[h].conf]
      /\ UNCHANGED <<ctx, temps, cfgs, prefs, scfg, live, mixed>>
  BY DEF SaveLaunch
<1>2. PICK s \in Servers : /\ s = The(h) /\ hs[h].s = {s} /\ Row(h) = srow[s] /\ srow[s] \in SRow
  BY <1>1, OwnRow
<1>3. PICK r : r = [srow[s] EXCEPT !.conf = hs[h].conf]
  OBVIOUS
<1>4. r \in SRow /\ r.here /\ r.conf # NoConf /\ r.enabled = srow[s].enabled
  <2>1. hs[h].conf \in Confs \cup {NoConf} /\ hs[h].conf # NoConf
    BY <1>1, HandlerFacts DEF SrvInv, Handler, HandlerOK, LaunchPc
  <2> QED
    BY <1>1, <1>2, <1>3, <2>1 DEF SRow
<1>5. srow' = [srow EXCEPT ![s] = r] /\ srow'[s] = r
  BY <1>1, <1>2, <1>3, StartTypes
<1>6. ASSUME s \notin mixed
      PROVE  /\ InstancesOK(s)' /\ (s \in Templates => ~ctx'[s].here)
             /\ (ctx'[s].here => srow'[s].here /\ srow'[s].enabled)
             /\ (hs[h].had => srow'[s].here /\ srow'[s].enabled)
  <2>1. Along(hs[h], s) /\ InstancesOK(s) /\ (s \in Templates => ~ctx[s].here)
    BY <1>2, <1>6, OwnFacts
  <2>2. InstancesOK(s)'
    BY <1>1, <1>4, <1>5, <2>1 DEF InstancesOK
  <2> QED
    BY <1>1, <1>4, <1>5, <2>1, <2>2 DEF Along
<1>7. CASE ~hs[h].had /\ ~hs[h].en
  <2>1. hs' = [hs EXCEPT ![h] = Free]
    BY <1>7 DEF SaveLaunch, Done
  <2>2. s \notin mixed => OwnOK(Free, s)'
    BY <1>6, EndsFree DEF OwnOK
  <2> QED
    BY <1>1, <1>2, <1>4, <1>5, <2>1, <2>2, EndsFree, RowStep
<1>8. CASE hs[h].had \/ hs[h].en
  <2>1. PICK pc : pc = IF hs[h].had THEN "reconnect" ELSE "tail"
    OBVIOUS
  <2>2. pc \in Pc /\ pc \in {"reconnect", "tail"} /\ Go(h, pc) /\ (pc = "reconnect" => hs[h].had)
    BY <1>8, <2>1 DEF SaveLaunch, Pc
  <2>3. PICK n : hs' = [hs EXCEPT ![h] = n] /\ n = [hs[h] EXCEPT !.pc = pc]
    BY <2>2, GoesTo DEF SrvInv
  <2>4. n \in Handler /\ n.pc = pc /\ n.s = hs[h].s /\ n.conf = hs[h].conf
    BY <2>2, <2>3, Moved DEF SrvInv
  <2>5. HandlerOK(n)
    BY <1>1, <2>2, <2>4, HandlerFacts DEF SrvInv, HandlerOK, TemplatePc, ManagedPc, UserPc, LaunchPc, UpdatePc
  <2>6. s \notin mixed => OwnOK(n, s)'
    BY <1>2, <1>6, <2>2, <2>4 DEF OwnOK, Along
  <2>7. Snapped(n) /\ n.pc \notin RewritePc
    BY <2>2, <2>4 DEF Snapped, SnapPc, RewritePc
  <2> QED
    BY <1>1, <1>2, <1>4, <1>5, <2>3, <2>4, <2>5, <2>6, <2>7, RowStep
<1> QED
  BY <1>7, <1>8

LEMMA RemoveRowInv ==
    ASSUME SrvInv, NEW h \in Handlers, RemoveRow(h)
    PROVE  SrvInv'
<1>1. /\ hs[h].pc \in {"remove", "forget"} /\ srow' = [srow EXCEPT ![The(h)] = NoRow]
      /\ UNCHANGED <<ctx, temps, cfgs, prefs, scfg, live, mixed>>
  BY DEF RemoveRow
<1>2. PICK s \in Servers : s = The(h) /\ hs[h].s = {s}
  BY <1>1, OwnRow
<1>3. srow' = [srow EXCEPT ![s] = NoRow] /\ NoRow \in SRow /\ (NoRow.here <=> NoRow.conf # NoConf)
  BY <1>1, <1>2, SrvRecords
<1>4. s \in Templates <=> hs[h].pc = "forget"
  BY <1>1, <1>2, HandlerFacts DEF SrvInv, HandlerOK, TemplatePc, ManagedPc
<1>5. ASSUME s \notin mixed PROVE InstancesOK(s)' /\ (s \in Templates => ~ctx'[s].here)
  <2>1. Along(hs[h], s) /\ (s \in Templates => ~ctx[s].here)
    BY <1>2, <1>5, OwnFacts
  <2>2. \A p \in People : <<s, p>> \notin temps
    BY <1>4, <2>1, StartTypes DEF Along
  <2> QED
    BY <1>1, <2>1, <2>2 DEF InstancesOK
<1>6. CASE s \in Templates
  <2>1. hs' = [hs EXCEPT ![h] = Free]
    BY <1>2, <1>6 DEF RemoveRow, Done
  <2>2. s \notin mixed => OwnOK(Free, s)'
    BY <1>5, <1>6, EndsFree DEF OwnOK
  <2> QED
    BY <1>1, <1>2, <1>3, <2>1, <2>2, EndsFree, RowStep
<1>7. CASE s \notin Templates
  <2>1. "drop" \in Pc /\ Go(h, "drop")
    BY <1>2, <1>7 DEF RemoveRow, Pc
  <2>2. PICK n : hs' = [hs EXCEPT ![h] = n] /\ n = [hs[h] EXCEPT !.pc = "drop"]
    BY <2>1, GoesTo DEF SrvInv
  <2>3. n \in Handler /\ n.pc = "drop" /\ n.s = hs[h].s
    BY <2>1, <2>2, Moved DEF SrvInv
  <2>4. HandlerOK(n)
    BY <1>2, <1>7, <2>3 DEF HandlerOK, TemplatePc, ManagedPc, UserPc, LaunchPc, UpdatePc
  <2>5. s \notin mixed => OwnOK(n, s)'
    BY <1>2, <1>5, <2>3 DEF OwnOK, Along
  <2>6. Snapped(n) /\ n.pc \notin RewritePc
    BY <2>3 DEF Snapped, SnapPc, RewritePc
  <2> QED
    BY <1>1, <1>2, <1>3, <2>2, <2>3, <2>4, <2>5, <2>6, RowStep
<1> QED
  BY <1>6, <1>7

LEMMA ConnectedCtx ==
    ASSUME NEW c \in Confs \cup {NoConf}, NEW x \in Connected(c)
    PROVE  x \in Ctx /\ x.here
<1>1. PICK d \in {c, NoConf} : x = [here |-> TRUE, entity |-> c, run |-> d]
  BY DEF Connected
<1> QED
  BY <1>1 DEF Ctx

(* A request that is with its server while that is enabled makes a context   *)
(* and ends.                                                                 *)
LEMMA ContextMade ==
    ASSUME SrvInv, NEW h \in Handlers, hs' = [hs EXCEPT ![h] = Free],
           NEW s \in Servers, hs[h].s = {s}, NEW x \in Ctx, ctx' = [ctx EXCEPT ![s] = x],
           UNCHANGED <<srow, temps, cfgs, prefs, scfg, live>>,
           mixed \subseteq mixed', mixed' \subseteq Servers,
           s \notin mixed' => s \notin Templates /\ srow[s].here /\ srow[s].enabled
    PROVE  SrvInv'
<1>1. s \notin mixed' => InstancesOK(s)'
  BY OwnFacts DEF InstancesOK
<1>2. s \notin mixed' => OwnOK(Free, s)'
  BY <1>1, EndsFree DEF OwnOK
<1> QED
  BY <1>2, EndsFree, CtxStep

LEMMA AddStartedInv ==
    ASSUME SrvInv, NEW h \in Handlers, AddStarted(h)
    PROVE  SrvInv'
<1>1. /\ hs[h].pc = "add" /\ AddServer(The(h), hs[h].conf) /\ Done(h)
      /\ UNCHANGED <<srow, temps, cfgs, prefs, scfg, live, mixed>>
  BY DEF AddStarted
<1>2. PICK s \in Servers : s = The(h) /\ hs[h].s = {s}
  BY <1>1, OwnRow
<1>3. CASE UNCHANGED ctx
  BY <1>1, <1>3, LookDone
<1>4. CASE \E x \in Connected(hs[h].conf) : ctx' = [ctx EXCEPT ![s] = x]
  <2>1. PICK x \in Connected(hs[h].conf) : ctx' = [ctx EXCEPT ![s] = x]
    BY <1>4
  <2>2. x \in Ctx
    BY ConnectedCtx, HandlerFacts DEF SrvInv, Handler
  <2>3. s \notin Templates
    BY <1>1, <1>2, HandlerFacts DEF SrvInv, HandlerOK, ManagedPc
  <2>4. s \notin mixed => srow[s].here /\ srow[s].enabled
    BY <1>1, <1>2, OwnFacts DEF Along
  <2> QED
    BY <1>1, <1>2, <2>1, <2>2, <2>3, <2>4, StartTypes, ContextMade DEF Done
<1> QED
  BY <1>1, <1>2, <1>3, <1>4 DEF AddServer

LEMMA ReconnectInv ==
    ASSUME SrvInv, NEW h \in Handlers, Reconnect(h)
    PROVE  SrvInv'
<1>1. /\ hs[h].pc = "reconnect" /\ \E x \in Connected(hs[h].conf) : ctx' = [ctx EXCEPT ![The(h)] = x]
      /\ Done(h) /\ UNCHANGED <<srow, temps, cfgs, prefs, scfg, live, mixed>>
  BY DEF Reconnect
<1>2. PICK s \in Servers : s = The(h) /\ hs[h].s = {s}
  BY <1>1, OwnRow
<1>3. PICK x \in Connected(hs[h].conf) : ctx' = [ctx EXCEPT ![s] = x]
  BY <1>1, <1>2
<1>4. x \in Ctx
  BY ConnectedCtx, HandlerFacts DEF SrvInv, Handler
<1>5. s \notin Templates
  BY <1>1, <1>2, HandlerFacts DEF SrvInv, HandlerOK, ManagedPc
<1>6. s \notin mixed => srow[s].here /\ srow[s].enabled
  BY <1>1, <1>2, OwnFacts DEF Along
<1> QED
  BY <1>1, <1>2, <1>3, <1>4, <1>5, <1>6, StartTypes, ContextMade DEF Done

LEMMA UpdateEntityInv ==
    ASSUME SrvInv, NEW h \in Handlers, UpdateEntity(h)
    PROVE  SrvInv'
<1>1. PICK s \in Servers : s = The(h) /\ hs[h].s = {s} /\ ctx[s] \in Ctx
  BY OwnRow DEF UpdateEntity
<1>2. PICK c : c = IF ctx[s].here /\ hs[h].conf # NoConf THEN hs[h].conf ELSE ctx[s].entity
  OBVIOUS
<1>3. PICK x : x = [ctx[s] EXCEPT !.entity = c]
  OBVIOUS
<1>4. x \in Ctx /\ x.here = ctx[s].here
  <2>1. c \in Confs \cup {NoConf}
    BY <1>1, <1>2, HandlerFacts DEF SrvInv, Handler, Ctx
  <2> QED
    BY <1>1, <1>3, <2>1 DEF Ctx
<1>5. /\ hs[h].pc = "tail" /\ ctx' = [ctx EXCEPT ![s] = x] /\ hs' = [hs EXCEPT ![h] = Free]
      /\ UNCHANGED <<srow, temps, cfgs, prefs, scfg, live, mixed>>
  BY <1>1, <1>2, <1>3 DEF UpdateEntity, Done
<1>6. s \notin mixed => Along(hs[h], s) /\ (s \in Templates => ~ctx[s].here) /\ InstancesOK(s)
  BY <1>1, OwnFacts
<1>7. s \notin mixed => InstancesOK(s)'
  BY <1>5, <1>6 DEF InstancesOK
<1>8. ctx'[s] = x
  BY <1>1, <1>5, StartTypes
<1>9. s \notin mixed => OwnOK(Free, s)'
  BY <1>4, <1>5, <1>6, <1>7, <1>8, EndsFree DEF OwnOK, Along
<1> QED
  BY <1>1, <1>4, <1>5, <1>9, StartTypes, EndsFree, CtxStep

(* A request closes its server: neither a context nor an instance is left.   *)
LEMMA ClosedStep ==
    ASSUME SrvInv, NEW h \in Handlers, NEW n, HandlerOK(n), hs' = [hs EXCEPT ![h] = n],
           n.s = hs[h].s \/ n.s = {}, n.pc \in RewritePc => hs[h].pc \in RewritePc,
           NEW s \in Servers, hs[h].s = {s}, Closed(s),
           UNCHANGED <<srow, cfgs, prefs, scfg, live, mixed>>,
           n.pc \in {"disable", "users", "idle"}
    PROVE  SrvInv'
<1>1. s \notin mixed => Along(hs[h], s) /\ (s \in Templates => ~ctx[s].here) /\ InstancesOK(s)
  BY OwnFacts
<1>2. Snapped(n)
  BY DEF Snapped, SnapPc
<1>3. CASE s \in Templates
  <2>1. temps' = temps \ Of(s) /\ UNCHANGED ctx
    BY <1>3 DEF Closed
  <2>2. /\ temps' \subseteq temps /\ \A p \in People : <<s, p>> \notin temps'
    BY <2>1 DEF Of
  <2>3. s \notin mixed => InstancesOK(s)'
    BY <2>2 DEF InstancesOK
  <2>4. s \notin mixed => OwnOK(n, s)'
    BY <1>1, <1>3, <2>1, <2>2, <2>3 DEF OwnOK, Along
  <2> QED
    BY <1>2, <2>1, <2>2, <2>4, StartTypes, TempsStep
<1>4. CASE s \notin Templates
  <2>1. ctx' = [ctx EXCEPT ![s] = NoCtx] /\ UNCHANGED temps /\ NoCtx \in Ctx
    BY <1>4, SrvRecords DEF Closed
  <2>2. ~ctx'[s].here /\ \A p \in People : <<s, p>> \notin temps'
    BY <1>4, <2>1, StartTypes, SrvRecords
  <2>3. s \notin mixed => InstancesOK(s)'
    BY <2>2 DEF InstancesOK
  <2>4. s \notin mixed => OwnOK(n, s)'
    BY <1>4, <2>1, <2>2, <2>3 DEF OwnOK, Along
  <2> QED
    BY <1>2, <2>1, <2>4, StartTypes, CtxStep
<1> QED
  BY <1>3, <1>4

LEMMA CloseStoppedInv ==
    ASSUME SrvInv, NEW h \in Handlers, CloseStopped(h)
    PROVE  SrvInv'
<1>1. /\ hs[h].pc = "close" /\ Closed(The(h)) /\ Go(h, "disable") /\ "disable" \in Pc
      /\ UNCHANGED <<srow, cfgs, prefs, scfg, live, mixed>>
  BY DEF CloseStopped, Pc
<1>2. PICK s \in Servers : s = The(h) /\ hs[h].s = {s}
  BY <1>1, OwnRow
<1>3. PICK n : hs' = [hs EXCEPT ![h] = n] /\ n = [hs[h] EXCEPT !.pc = "disable"]
  BY <1>1, GoesTo DEF SrvInv
<1>4. n \in Handler /\ n.pc = "disable" /\ n.s = hs[h].s
  BY <1>1, <1>3, Moved DEF SrvInv
<1>5. HandlerOK(n) /\ n.pc \notin RewritePc
  BY <1>2, <1>4 DEF HandlerOK, TemplatePc, ManagedPc, UserPc, LaunchPc, UpdatePc, RewritePc
<1>6. Closed(s)
  BY <1>1, <1>2
<1> QED
  BY <1>1, <1>2, <1>3, <1>4, <1>5, <1>6, ClosedStep

LEMMA CloseInstancesInv ==
    ASSUME SrvInv, NEW h \in Handlers, CloseInstances(h)
    PROVE  SrvInv'
<1>1. /\ hs[h].pc = "closeAll" /\ Closed(The(h)) /\ Go(h, "users") /\ "users" \in Pc
      /\ UNCHANGED <<srow, cfgs, prefs, scfg, live, mixed>>
  BY DEF CloseInstances, Pc
<1>2. PICK s \in Servers : s = The(h) /\ hs[h].s = {s}
  BY <1>1, OwnRow
<1>3. PICK n : hs' = [hs EXCEPT ![h] = n] /\ n = [hs[h] EXCEPT !.pc = "users"]
  BY <1>1, GoesTo DEF SrvInv
<1>4. n \in Handler /\ n.pc = "users" /\ n.s = hs[h].s
  BY <1>1, <1>3, Moved DEF SrvInv
<1>5. HandlerOK(n) /\ hs[h].pc \in RewritePc
  BY <1>1, <1>4, HandlerFacts DEF SrvInv, HandlerOK, TemplatePc, ManagedPc, UserPc, LaunchPc, UpdatePc, RewritePc
<1>6. Closed(s)
  BY <1>1, <1>2
<1> QED
  BY <1>1, <1>2, <1>3, <1>4, <1>5, <1>6, ClosedStep

LEMMA DropContextInv ==
    ASSUME SrvInv, NEW h \in Handlers, DropContext(h)
    PROVE  SrvInv'
<1>1. /\ hs[h].pc = "drop" /\ Closed(The(h)) /\ hs' = [hs EXCEPT ![h] = Free]
      /\ UNCHANGED <<srow, cfgs, prefs, scfg, live, mixed>>
  BY DEF DropContext, Done
<1>2. PICK s \in Servers : s = The(h) /\ hs[h].s = {s}
  BY <1>1, OwnRow
<1>3. Closed(s)
  BY <1>1, <1>2
<1> QED
  BY <1>1, <1>2, <1>3, EndsFree, SrvRecords, ClosedStep

(* The update of a server that was enabled and stays so.                     *)
LEMMA ApplyStays ==
    ASSUME SrvInv, NEW h \in Handlers, ApplyUpdate(h), hs[h].was, hs[h].en
    PROVE  SrvInv'
<1>1. hs[h].pc = "apply" /\ UNCHANGED <<srow, temps, cfgs, prefs, scfg, live, mixed>>
  BY DEF ApplyUpdate
<1>2. PICK s \in Servers : s = The(h) /\ hs[h].s = {s} /\ ctx[s] \in Ctx /\ srow[s] \in SRow
  BY <1>1, OwnRow
<1>3. s \notin mixed => /\ srow[s].here /\ srow[s].enabled /\ InstancesOK(s) /\ (s \in Templates => ~ctx[s].here)
  BY <1>1, <1>2, OwnFacts DEF Along
<1>4. CASE Go(h, IF hs[h].conf = NoConf THEN "tail" ELSE "launch") /\ UNCHANGED ctx
  <2>1. PICK pc : pc = IF hs[h].conf = NoConf THEN "tail" ELSE "launch"
    OBVIOUS
  <2>2. pc \in Pc /\ pc \in {"tail", "launch"} /\ Go(h, pc) /\ (pc = "launch" => hs[h].conf # NoConf)
    BY <1>4, <2>1 DEF Pc
  <2>3. PICK n : hs' = [hs EXCEPT ![h] = n] /\ n = [hs[h] EXCEPT !.pc = pc]
    BY <2>2, GoesTo DEF SrvInv
  <2>4. n \in Handler /\ n.pc = pc /\ n.s = hs[h].s /\ n.conf = hs[h].conf
    BY <2>2, <2>3, Moved DEF SrvInv
  <2>5. HandlerOK(n)
    BY <1>1, <2>2, <2>4, HandlerFacts DEF SrvInv, HandlerOK, TemplatePc, ManagedPc, UserPc, LaunchPc, UpdatePc
  <2>6. \A q \in hs[h].s \ mixed : OwnOK(n, q)
    BY <1>2, <1>3, <2>2, <2>4 DEF OwnOK, Along
  <2>7. Snapped(n) /\ n.pc \notin RewritePc
    BY <2>2, <2>4 DEF Snapped, SnapPc, RewritePc
  <2> QED
    BY <1>1, <1>4, <2>3, <2>4, <2>5, <2>6, <2>7, LookStep
<1>5. CASE LazyStartChanged(s) /\ Done(h)
  <2>1. CASE s \in Templates
    <3>1. UNCHANGED ctx
      BY <1>5, <2>1 DEF LazyStartChanged
    <3>2. \A q \in hs[h].s \ mixed : OwnOK(Free, q)
      BY <1>2, <1>3, EndsFree DEF OwnOK
    <3> QED
      BY <1>1, <1>5, <3>1, <3>2, EndsFree, LookStep DEF Done
  <2>2. CASE s \notin Templates
    <3>1. PICK x \in Connected(srow[s].conf) \cup {[ctx[s] EXCEPT !.entity = srow[s].conf]} :
             ctx' = [ctx EXCEPT ![s] = IF x.here THEN x ELSE NoCtx]
      BY <1>5, <2>2 DEF LazyStartChanged
    <3>2. x \in Ctx
      <4>1. srow[s].conf \in Confs \cup {NoConf}
        BY <1>2 DEF SRow
      <4>2. [ctx[s] EXCEPT !.entity = srow[s].conf] \in Ctx
        BY <1>2, <4>1 DEF Ctx
      <4> QED
        BY <4>1, <4>2, ConnectedCtx
    <3>3. PICK y \in Ctx : ctx' = [ctx EXCEPT ![s] = y]
      BY <3>1, <3>2, SrvRecords
    <3> QED
      BY <1>1, <1>2, <1>3, <1>5, <2>2, <3>3, StartTypes, ContextMade DEF Done
  <2> QED
    BY <2>1, <2>2
<1> QED
  BY <1>1, <1>2, <1>4, <1>5 DEF ApplyUpdate

LEMMA ApplyUpdateInv ==
    ASSUME SrvInv, NEW h \in Handlers, ApplyUpdate(h)
    PROVE  SrvInv'
<1>1. /\ hs[h].pc = "apply" /\ UNCHANGED <<srow, cfgs, prefs, scfg, live>>
      /\ mixed' = mixed \cup {s \in Templates \cap hs[h].s : ~hs[h].was /\ hs[h].en}
  BY DEF ApplyUpdate
<1>2. PICK s \in Servers : s = The(h) /\ hs[h].s = {s} /\ srow[s] \in SRow
  BY <1>1, OwnRow
<1>3. s \notin mixed => /\ srow[s].here /\ srow[s].enabled = hs[h].en /\ InstancesOK(s)
                        /\ (s \in Templates => ~ctx[s].here) /\ (ctx[s].here => hs[h].was)
  BY <1>1, <1>2, OwnFacts DEF Along
<1>4. hs[h].was \in BOOLEAN /\ hs[h].en \in BOOLEAN
  BY HandlerFacts DEF SrvInv, Handler
<1>5. CASE hs[h].was /\ hs[h].en
  BY <1>5, ApplyStays
<1>6. CASE hs[h].was /\ ~hs[h].en
  <2>1. Closed(s) /\ hs' = [hs EXCEPT ![h] = Free] /\ UNCHANGED mixed
    BY <1>1, <1>2, <1>6 DEF ApplyUpdate, Done
  <2> QED
    BY <1>1, <1>2, <2>1, EndsFree, SrvRecords, ClosedStep
<1>7. CASE ~hs[h].was /\ hs[h].en
  <2>1. AddServer(s, srow[s].conf) /\ hs' = [hs EXCEPT ![h] = Free] /\ UNCHANGED temps
    BY <1>2, <1>7 DEF ApplyUpdate, Done
  <2>2. mixed \subseteq mixed' /\ mixed' \subseteq Servers /\ (s \notin mixed' => s \notin Templates)
    BY <1>1, <1>2, <1>7, StartTypes, TemplateAssumption
  <2>3. s \notin mixed' => srow[s].here /\ srow[s].enabled
    BY <1>3, <1>7, <2>2
  <2>4. PICK x \in Ctx : ctx' = [ctx EXCEPT ![s] = x]
    <3>1. CASE UNCHANGED ctx
      <4>1. ctx[s] \in Ctx /\ ctx' = [ctx EXCEPT ![s] = ctx[s]]
        BY <3>1, StartTypes
      <4> QED
        BY <4>1
    <3>2. CASE \E x \in Connected(srow[s].conf) : ctx' = [ctx EXCEPT ![s] = x]
      <4>1. srow[s].conf \in Confs \cup {NoConf}
        BY <1>2 DEF SRow
      <4> QED
        BY <3>2, <4>1, ConnectedCtx
    <3> QED
      BY <2>1, <3>1, <3>2 DEF AddServer
  <2> QED
    BY <1>1, <1>2, <2>1, <2>2, <2>3, <2>4, ContextMade
<1>8. CASE ~hs[h].was /\ ~hs[h].en
  <2>1. hs' = [hs EXCEPT ![h] = Free] /\ UNCHANGED <<ctx, temps, mixed>>
    BY <1>1, <1>8 DEF ApplyUpdate, Done
  <2>2. \A q \in hs[h].s \ mixed : OwnOK(Free, q)
    BY <1>2, <1>3, <1>8, EndsFree DEF OwnOK
  <2> QED
    BY <1>1, <2>1, <2>2, EndsFree, LookStep
<1> QED
  BY <1>4, <1>5, <1>6, <1>7, <1>8

LEMMA CloseEachInv ==
    ASSUME SrvInv, NEW h \in Handlers, CloseEach(h)
    PROVE  SrvInv'
<1>1. /\ hs[h].pc = "each" /\ Go(h, "wipe") /\ "wipe" \in Pc /\ UNCHANGED <<srow, cfgs, prefs, scfg, live, mixed>>
      /\ ctx' = [s \in Servers |-> IF srow[s].here THEN NoCtx ELSE ctx[s]]
      /\ temps' = {x \in temps : ~srow[x[1]].here \/ ctx[x[1]].here}
  BY DEF CloseEach, Pc
<1>2. hs[h].s = Servers
  BY <1>1, HandlerFacts DEF SrvInv, HandlerOK
<1>3. PICK n : hs' = [hs EXCEPT ![h] = n] /\ n = [hs[h] EXCEPT !.pc = "wipe"]
  BY <1>1, GoesTo DEF SrvInv
<1>4. n \in Handler /\ n.pc = "wipe" /\ n.s = hs[h].s
  BY <1>1, <1>3, Moved DEF SrvInv
<1>5. HandlerOK(n)
  BY <1>2, <1>4 DEF HandlerOK, TemplatePc, ManagedPc, UserPc, LaunchPc, UpdatePc
<1>6. ctx' \in [Servers -> Ctx] /\ temps' \subseteq temps
  BY <1>1, StartTypes, SrvRecords
<1>7. ASSUME NEW s \in Servers \ mixed PROVE OwnOK(n, s)'
  <2>1. Along(hs[h], s) /\ (s \in Templates => ~ctx[s].here) /\ InstancesOK(s)
    BY <1>2, OwnFacts
  <2>2. ~ctx'[s].here
    BY <1>1, <2>1, SrvRecords DEF Along
  <2>3. \A p \in People : <<s, p>> \notin temps'
    BY <1>1, <2>1, StartTypes DEF InstancesOK
  <2>4. InstancesOK(s)'
    BY <2>3 DEF InstancesOK
  <2> QED
    BY <1>4, <2>2, <2>3, <2>4 DEF OwnOK, Along
<1>8. Snapped(n) /\ n.pc \notin RewritePc
  BY <1>4 DEF Snapped, SnapPc, RewritePc
<1> QED
  BY <1>1, <1>2, <1>3, <1>4, <1>5, <1>6, <1>7, <1>8, StartTypes, WorkStep

LEMMA WipeInv ==
    ASSUME SrvInv, NEW h \in Handlers, Wipe(h)
    PROVE  SrvInv'
<1>1. /\ hs[h].pc = "wipe" /\ hs' = [hs EXCEPT ![h] = Free] /\ UNCHANGED <<ctx, temps, cfgs, prefs, scfg, live, mixed>>
      /\ srow' = [s \in Servers |-> NoRow]
  BY DEF Wipe, Done
<1>2. hs[h].s = Servers
  BY <1>1, HandlerFacts DEF SrvInv, HandlerOK
<1>3. srow' \in [Servers -> SRow] /\ \A s \in Servers : srow'[s].here <=> srow'[s].conf # NoConf
  BY <1>1, SrvRecords
<1>4. ASSUME NEW s \in Servers \ mixed PROVE OwnOK(Free, s)'
  <2>1. Along(hs[h], s)
    BY <1>2, OwnFacts
  <2>2. InstancesOK(s)'
    BY <1>1, <2>1 DEF InstancesOK, Along
  <2> QED
    BY <1>1, <2>1, <2>2, EndsFree DEF OwnOK, Along
<1> QED
  BY <1>1, <1>2, <1>3, <1>4, EndsFree, StartTypes, WorkStep

(* The user of a request, and the template it is about.                      *)
LEMMA OwnUser ==
    ASSUME SrvInv, NEW h \in Handlers, hs[h].pc \in UserPc \ {"temps"}
    PROVE  \E s \in Templates : s \in Servers /\ s = The(h) /\ hs[h].s = {s} /\ hs[h].u \in People
<1>1. PICK s \in Servers : s = The(h) /\ hs[h].s = {s}
  BY OwnRow DEF UserPc
<1>2. hs[h].s \subseteq Templates /\ hs[h].u \in People
  BY HandlerFacts DEF SrvInv, HandlerOK, UserPc, TemplatePc
<1> QED
  BY <1>1, <1>2

LEMMA StartInstanceInv ==
    ASSUME SrvInv, NEW h \in Handlers, StartInstance(h)
    PROVE  SrvInv'
<1>1. /\ hs[h].pc = "cfgStart" /\ Go(h, "cfgPrefs") /\ "cfgPrefs" \in Pc
      /\ temps' = temps \cup {<<The(h), hs[h].u>>} /\ UNCHANGED <<srow, ctx, cfgs, prefs, scfg, live, mixed>>
  BY DEF StartInstance, Pc
<1>2. PICK s \in Templates : s \in Servers /\ s = The(h) /\ hs[h].s = {s} /\ hs[h].u \in People
  BY <1>1, OwnUser DEF UserPc
<1>3. PICK n : hs' = [hs EXCEPT ![h] = n] /\ n = [hs[h] EXCEPT !.pc = "cfgPrefs"]
  BY <1>1, GoesTo DEF SrvInv
<1>4. n \in Handler /\ n.pc = "cfgPrefs" /\ n.s = hs[h].s /\ n.u = hs[h].u
  BY <1>1, <1>3, Moved DEF SrvInv
<1>5. HandlerOK(n) /\ hs[h].pc \in RewritePc
  BY <1>1, <1>2, <1>4 DEF HandlerOK, TemplatePc, ManagedPc, UserPc, LaunchPc, UpdatePc, RewritePc
<1>6. ASSUME s \notin mixed PROVE OwnOK(n, s)'
  <2>1. Along(hs[h], s) /\ ~ctx[s].here /\ InstancesOK(s)
    BY <1>2, <1>6, OwnFacts
  <2>2. srow[s].here /\ s \in cfgs[hs[h].u]
    BY <1>1, <2>1 DEF Along
  <2>3. InstancesOK(s)'
    BY <1>1, <1>2, <2>1, <2>2 DEF InstancesOK
  <2>4. Along(n, s)'
    BY <1>1, <1>4, <2>1, <2>2 DEF Along
  <2> QED
    BY <1>1, <1>2, <1>4, <2>1, <2>3, <2>4 DEF OwnOK
<1>7. \A q \in hs[h].s \ mixed : OwnOK(n, q)'
  BY <1>2, <1>6
<1>8. Snapped(n)
  BY <1>4 DEF Snapped, SnapPc
<1>9. /\ temps' \subseteq Templates \X People
      /\ \A q \in Servers \ hs[h].s : \A p \in People : <<q, p>> \in temps' => <<q, p>> \in temps
  BY <1>1, <1>2, StartTypes
<1> QED
  BY <1>1, <1>3, <1>4, <1>5, <1>7, <1>8, <1>9, StartTypes, TempsStep

LEMMA CloseInstanceInv ==
    ASSUME SrvInv, NEW h \in Handlers, CloseInstance(h)
    PROVE  SrvInv'
<1>1. /\ hs[h].pc = "uncClose" /\ Go(h, "uncSave") /\ "uncSave" \in Pc
      /\ temps' = temps \ {<<The(h), hs[h].u>>} /\ UNCHANGED <<srow, ctx, cfgs, prefs, scfg, live, mixed>>
  BY DEF CloseInstance, Pc
<1>2. PICK s \in Templates : s \in Servers /\ s = The(h) /\ hs[h].s = {s} /\ hs[h].u \in People
  BY <1>1, OwnUser DEF UserPc
<1>3. PICK n : hs' = [hs EXCEPT ![h] = n] /\ n = [hs[h] EXCEPT !.pc = "uncSave"]
  BY <1>1, GoesTo DEF SrvInv
<1>4. n \in Handler /\ n.pc = "uncSave" /\ n.s = hs[h].s /\ n.u = hs[h].u /\ n.snap = hs[h].snap
  BY <1>1, <1>3, Moved DEF SrvInv
<1>5. HandlerOK(n) /\ hs[h].pc \in RewritePc
  BY <1>1, <1>2, <1>4 DEF HandlerOK, TemplatePc, ManagedPc, UserPc, LaunchPc, UpdatePc, RewritePc
<1>6. ASSUME s \notin mixed PROVE OwnOK(n, s)'
  <2>1. Along(hs[h], s) /\ ~ctx[s].here /\ InstancesOK(s)
    BY <1>2, <1>6, OwnFacts
  <2>2. InstancesOK(s)'
    BY <1>1, <2>1 DEF InstancesOK
  <2>3. <<s, n.u>> \notin temps'
    BY <1>1, <1>2, <1>4
  <2> QED
    BY <1>1, <1>4, <2>1, <2>2, <2>3 DEF OwnOK, Along
<1>7. \A q \in hs[h].s \ mixed : OwnOK(n, q)'
  BY <1>2, <1>6
<1>8. Snapped(n)
  <2>1. Snapped(hs[h]) /\ hs[h].pc \in SnapPc
    BY <1>1 DEF SrvInv, RewritesInv, SnapPc
  <2> QED
    BY <1>4, <2>1 DEF Snapped
<1>9. temps' \subseteq temps
  BY <1>1
<1> QED
  BY <1>1, <1>3, <1>4, <1>5, <1>7, <1>8, <1>9, StartTypes, TempsStep

LEMMA StartInstancesInv ==
    ASSUME SrvInv, NEW h \in Handlers, StartInstances(h)
    PROVE  SrvInv'
<1>1. /\ hs[h].pc = "temps" /\ hs' = [hs EXCEPT ![h] = Free]
      /\ temps' = temps \cup {<<t, hs[h].u>> : t \in {x \in hs[h].s : srow[x].here}}
      /\ UNCHANGED <<srow, ctx, cfgs, prefs, scfg, live, mixed>>
  BY DEF StartInstances, Done
<1>2. hs[h].u \in People /\ hs[h].s \subseteq Templates
  BY <1>1, HandlerFacts DEF SrvInv, HandlerOK, UserPc
<1>3. \A s, p : <<s, p>> \in temps' => <<s, p>> \in temps \/ (s \in hs[h].s /\ srow[s].here /\ p = hs[h].u)
  BY <1>1
<1>4. temps' \subseteq Templates \X People
  BY <1>1, <1>2, StartTypes
<1>5. ASSUME NEW s \in hs[h].s \ mixed PROVE OwnOK(Free, s)'
  <2>1. Along(hs[h], s) /\ ~ctx[s].here /\ InstancesOK(s)
    BY <1>2, OwnFacts
  <2>2. InstancesOK(s)'
    BY <1>1, <1>3, <2>1 DEF InstancesOK, Along
  <2> QED
    BY <1>1, <2>1, <2>2, EndsFree DEF OwnOK
<1>6. \A q \in Servers \ hs[h].s : \A p \in People : <<q, p>> \in temps' => <<q, p>> \in temps
  BY <1>3
<1> QED
  BY <1>1, <1>4, <1>5, <1>6, EndsFree, StartTypes, TempsStep

(* Preferences are written last.                                             *)
LEMMA PrefsInv ==
    ASSUME SrvInv, NEW h \in Handlers, SavePrefs(h) \/ RemovePrefs(h)
    PROVE  SrvInv'
<1>1. PICK S \in SUBSET Templates :
         /\ hs[h].pc \in {"cfgPrefs", "uncPrefs"} /\ hs' = [hs EXCEPT ![h] = Free]
         /\ prefs' = [prefs EXCEPT ![hs[h].u] = S]
         /\ UNCHANGED <<srow, ctx, temps, cfgs, scfg, live, mixed>>
  <2>1. hs[h].pc \in UserPc \ {"temps"}
    BY DEF SavePrefs, RemovePrefs, UserPc
  <2>2. hs[h].s \subseteq Templates /\ hs[h].psnap[hs[h].u] \in SUBSET Templates
    BY <2>1, OwnUser, HandlerFacts DEF SrvInv, Handler
  <2> QED
    BY <2>2 DEF SavePrefs, RemovePrefs, Done
<1>2. prefs' \in [People -> SUBSET Templates]
  BY <1>1, StartTypes
<1>3. ASSUME NEW s \in hs[h].s \ mixed PROVE OwnOK(Free, s)'
  <2>1. Along(hs[h], s) /\ (s \in Templates => ~ctx[s].here) /\ InstancesOK(s)
    BY OwnFacts
  <2>2. InstancesOK(s)'
    BY <1>1, <2>1 DEF InstancesOK
  <2> QED
    BY <1>1, <2>1, <2>2, EndsFree DEF OwnOK, Along
<1> QED
  BY <1>1, <1>2, <1>3, EndsFree, StartTypes, WorkStep

-----------------------------------------------------------------------------
(* Steps that write back what users have configured.                         *)

(* Of the servers of other requests, what is written back is what is there.  *)
LEMMA WrittenBack ==
    ASSUME SrvInv, NEW h \in Handlers, hs[h].pc \in SnapPc, NEW p \in People,
           NEW s \in Servers \ (mixed \cup hs[h].s)
    PROVE  s \in hs[h].snap[p] <=> s \in cfgs[p]
<1>1. Snapped(hs[h]) /\ hs[h] \in Handler
  BY HandlerFacts DEF SrvInv, RewritesInv
<1>2. hs[h].snap[p] \subseteq Templates /\ cfgs[p] \subseteq Templates
  BY <1>1, StartTypes DEF Handler
<1> QED
  BY <1>1, <1>2 DEF Snapped

LEMMA ForgetUserInv ==
    ASSUME SrvInv, NEW h \in Handlers, NEW u \in People, ForgetUser(h, u)
    PROVE  SrvInv'
<1>1. PICK n : n = [hs[h] EXCEPT !.todo = @ \ {u}]
  OBVIOUS
<1>2. /\ hs[h].pc = "forget" /\ hs' = [hs EXCEPT ![h] = n]
      /\ cfgs' = [cfgs EXCEPT ![u] = hs[h].snap[u] \ hs[h].s]
      /\ prefs' = [prefs EXCEPT ![u] = hs[h].psnap[u] \ hs[h].s]
      /\ UNCHANGED <<srow, ctx, temps, scfg, live, mixed>>
  BY <1>1 DEF ForgetUser
<1>3. hs[h] \in Handler /\ HandlerOK(hs[h]) /\ hs[h].pc \in SnapPc /\ hs[h].pc \in RewritePc
  BY <1>2, HandlerFacts DEF SrvInv, SnapPc, RewritePc
<1>4. n \in Handler /\ n.pc = "forget" /\ n.s = hs[h].s /\ n.snap = hs[h].snap
  BY <1>1, <1>2, <1>3 DEF Handler
<1>5. HandlerOK(n)
  BY <1>2, <1>3, <1>4 DEF HandlerOK, TemplatePc, ManagedPc, UserPc, LaunchPc, UpdatePc
<1>6. cfgs' \in [People -> SUBSET Templates] /\ prefs' \in [People -> SUBSET Templates]
  BY <1>2, <1>3, StartTypes DEF Handler
<1>7. SrvTypeOK'
  BY <1>2, <1>4, <1>6 DEF SrvInv, SrvTypes, SrvTypeOK
<1>8. \A p \in People : cfgs'[p] = IF p = u THEN hs[h].snap[u] \ hs[h].s ELSE cfgs[p]
  BY <1>2, StartTypes
<1>9. \A s \in Servers \ (mixed \cup hs[h].s) : \A p \in People : s \in cfgs'[p] <=> s \in cfgs[p]
  BY <1>3, <1>8, WrittenBack
<1>10. ASSUME NEW s \in hs[h].s \ mixed PROVE OwnOK(n, s)'
  <2>1. Along(hs[h], s) /\ (s \in Templates => ~ctx[s].here)
    BY <1>10, OwnFacts
  <2>2. InstancesOK(s)'
    BY <1>2, <2>1 DEF InstancesOK, Along
  <2>3. Along(n, s)'
    BY <1>2, <1>4, <2>1 DEF Along
  <2> QED
    BY <1>2, <1>4, <2>1, <2>2, <2>3 DEF OwnOK
<1>11. Snapped(n)'
  <2>1. Snapped(hs[h])
    BY DEF SrvInv, RewritesInv
  <2> QED
    BY <1>2, <1>3, <1>4, <1>8, <2>1 DEF Snapped
<1>12. \A p \in People \ live' : scfg'[p] = {}
  BY <1>2 DEF SrvInv, RewritesInv
<1>13. \A s \in Servers \ (mixed' \cup hs[h].s) :
              /\ srow'[s] = srow[s] /\ ctx'[s] = ctx[s]
              /\ \A p \in People : /\ <<s, p>> \in temps' => <<s, p>> \in temps
                                   /\ s \in cfgs'[p] <=> s \in cfgs[p]
                                   /\ s \in scfg[p] => s \in cfgs'[p] \cup scfg'[p]
  BY <1>2, <1>9
<1>14. \A s \in hs[h].s \ mixed' : OwnOK(n, s)'
  BY <1>2, <1>10
<1>15. mixed \subseteq mixed'
  BY <1>2
<1> QED
  BY <1>2, <1>3, <1>4, <1>5, <1>7, <1>11, <1>12, <1>13, <1>14, <1>15, RequestStep

LEMMA SaveConfigInv ==
    ASSUME SrvInv, NEW h \in Handlers, SaveConfig(h)
    PROVE  SrvInv'
<1>1. hs[h].pc = "cfgSave" /\ Go(h, "cfgStart") /\ "cfgStart" \in Pc /\ UNCHANGED <<srow, ctx, temps, prefs, live>>
  BY DEF SaveConfig, Pc
<1>2. PICK t \in Templates : t \in Servers /\ t = The(h) /\ hs[h].s = {t} /\ hs[h].u \in People
  BY <1>1, OwnUser DEF UserPc
<1>3. PICK u \in People : u = hs[h].u
  BY <1>2
<1>4. PICK new : new = hs[h].snap[u] \cup hs[h].s
  OBVIOUS
<1>5. /\ cfgs' = [cfgs EXCEPT ![u] = new]
      /\ scfg' = IF u \in live THEN [scfg EXCEPT ![u] = new] ELSE scfg
      /\ mixed' = mixed \cup (scfg[u] \ new)
  BY <1>3, <1>4 DEF SaveConfig
<1>6. hs[h] \in Handler /\ hs[h].pc \in SnapPc /\ hs[h].pc \in RewritePc
  BY <1>1, HandlerFacts DEF SrvInv, SnapPc, RewritePc
<1>7. new \in SUBSET Templates /\ t \in new
  BY <1>2, <1>4, <1>6 DEF Handler
<1>8. PICK n : hs' = [hs EXCEPT ![h] = n] /\ n = [hs[h] EXCEPT !.pc = "cfgStart"]
  BY <1>1, GoesTo DEF SrvInv
<1>9. n \in Handler /\ n.pc = "cfgStart" /\ n.s = hs[h].s /\ n.u = u
  BY <1>1, <1>3, <1>8, Moved DEF SrvInv
<1>10. HandlerOK(n)
  BY <1>2, <1>9 DEF HandlerOK, TemplatePc, ManagedPc, UserPc, LaunchPc, UpdatePc
<1>11. /\ cfgs' \in [People -> SUBSET Templates]
       /\ \A p \in People : cfgs'[p] = IF p = u THEN new ELSE cfgs[p]
  BY <1>5, <1>7, StartTypes
<1>12. /\ scfg' \in [People -> SUBSET Templates]
       /\ \A p \in People : scfg'[p] = IF p = u /\ u \in live THEN new ELSE scfg[p]
  BY <1>5, <1>7, StartTypes
<1>13. mixed \subseteq mixed' /\ mixed' \subseteq Servers
  BY <1>5, StartTypes, TemplateAssumption
<1>14. SrvTypeOK'
  BY <1>1, <1>8, <1>9, <1>11, <1>12, <1>13 DEF SrvInv, SrvTypes, SrvTypeOK
<1>15. ASSUME NEW s \in Servers \ (mixed' \cup hs[h].s), NEW p \in People
       PROVE  (s \in cfgs'[p] <=> s \in cfgs[p]) /\ (s \in scfg[p] => s \in cfgs'[p] \cup scfg'[p])
  <2>1. s \in hs[h].snap[p] <=> s \in cfgs[p]
    BY <1>6, <1>13, WrittenBack
  <2>2. s \in scfg[u] => s \in new
    BY <1>5
  <2> QED
    BY <1>4, <1>11, <1>12, <2>1, <2>2
<1>16. ASSUME NEW s \in hs[h].s \ mixed' PROVE OwnOK(n, s)'
  <2>1. s = t /\ Along(hs[h], s) /\ ~ctx[s].here /\ InstancesOK(s)
    BY <1>2, <1>13, <1>16, OwnFacts
  <2>2. srow'[s].here /\ s \in cfgs'[u]
    BY <1>1, <1>7, <1>11, <2>1 DEF Along
  <2>3. InstancesOK(s)'
    BY <1>1, <1>7, <1>11, <1>12, <2>1, <2>2 DEF InstancesOK
  <2>4. Along(n, s)'
    BY <1>1, <1>9, <2>1, <2>2 DEF Along
  <2> QED
    BY <1>1, <1>9, <2>1, <2>3, <2>4 DEF OwnOK
<1>17. Snapped(n)'
  BY <1>9 DEF Snapped, SnapPc
<1>18. \A p \in People \ live' : scfg'[p] = {}
  BY <1>1, <1>12 DEF SrvInv, RewritesInv
<1>19. \A s \in Servers \ (mixed' \cup hs[h].s) :
              /\ srow'[s] = srow[s] /\ ctx'[s] = ctx[s]
              /\ \A p \in People : /\ <<s, p>> \in temps' => <<s, p>> \in temps
                                   /\ s \in cfgs'[p] <=> s \in cfgs[p]
                                   /\ s \in scfg[p] => s \in cfgs'[p] \cup scfg'[p]
  BY <1>1, <1>15
<1> QED
  BY <1>6, <1>8, <1>9, <1>10, <1>13, <1>14, <1>16, <1>17, <1>18, <1>19, RequestStep

LEMMA RemoveConfigInv ==
    ASSUME SrvInv, NEW h \in Handlers, RemoveConfig(h)
    PROVE  SrvInv'
<1>1. /\ hs[h].pc = "uncSave" /\ Go(h, "uncPrefs") /\ "uncPrefs" \in Pc
      /\ UNCHANGED <<srow, ctx, temps, prefs, scfg, live, mixed>>
  BY DEF RemoveConfig, Pc
<1>2. PICK t \in Templates : t \in Servers /\ t = The(h) /\ hs[h].s = {t} /\ hs[h].u \in People
  BY <1>1, OwnUser DEF UserPc
<1>3. PICK u \in People : u = hs[h].u
  BY <1>2
<1>4. cfgs' = [cfgs EXCEPT ![u] = hs[h].snap[u] \ hs[h].s]
  BY <1>3 DEF RemoveConfig
<1>5. hs[h] \in Handler /\ hs[h].pc \in SnapPc /\ hs[h].pc \in RewritePc
  BY <1>1, HandlerFacts DEF SrvInv, SnapPc, RewritePc
<1>6. PICK n : hs' = [hs EXCEPT ![h] = n] /\ n = [hs[h] EXCEPT !.pc = "uncPrefs"]
  BY <1>1, GoesTo DEF SrvInv
<1>7. n \in Handler /\ n.pc = "uncPrefs" /\ n.s = hs[h].s /\ n.u = u
  BY <1>1, <1>3, <1>6, Moved DEF SrvInv
<1>8. HandlerOK(n)
  BY <1>2, <1>7 DEF HandlerOK, TemplatePc, ManagedPc, UserPc, LaunchPc, UpdatePc
<1>9. /\ cfgs' \in [People -> SUBSET Templates]
      /\ \A p \in People : cfgs'[p] = IF p = u THEN hs[h].snap[u] \ hs[h].s ELSE cfgs[p]
  BY <1>4, <1>5, StartTypes DEF Handler
<1>10. SrvTypeOK'
  BY <1>1, <1>6, <1>7, <1>9 DEF SrvInv, SrvTypes, SrvTypeOK
<1>11. ASSUME NEW s \in Servers \ (mixed \cup hs[h].s), NEW p \in People
       PROVE  s \in cfgs'[p] <=> s \in cfgs[p]
  BY <1>5, <1>9, <1>11, WrittenBack
<1>12. ASSUME NEW s \in hs[h].s \ mixed PROVE OwnOK(n, s)'
  <2>1. Along(hs[h], s) /\ (s \in Templates => ~ctx[s].here) /\ InstancesOK(s)
    BY <1>12, OwnFacts
  <2>2. <<s, u>> \notin temps
    BY <1>1, <1>3, <2>1 DEF Along
  <2>3. InstancesOK(s)'
    BY <1>1, <1>9, <2>1, <2>2 DEF InstancesOK
  <2>4. Along(n, s)'
    BY <1>1, <1>7, <2>1, <2>2 DEF Along
  <2> QED
    BY <1>1, <1>7, <2>1, <2>3, <2>4 DEF OwnOK
<1>13. Snapped(n)'
  BY <1>7 DEF Snapped, SnapPc
<1>14. \A p \in People \ live' : scfg'[p] = {}
  BY <1>1 DEF SrvInv, RewritesInv
<1>15. \A s \in Servers \ (mixed' \cup hs[h].s) :
              /\ srow'[s] = srow[s] /\ ctx'[s] = ctx[s]
              /\ \A p \in People : /\ <<s, p>> \in temps' => <<s, p>> \in temps
                                   /\ s \in cfgs'[p] <=> s \in cfgs[p]
                                   /\ s \in scfg[p] => s \in cfgs'[p] \cup scfg'[p]
  BY <1>1, <1>11
<1>16. (\A s \in hs[h].s \ mixed' : OwnOK(n, s)') /\ mixed \subseteq mixed'
  BY <1>1, <1>12
<1> QED
  BY <1>5, <1>6, <1>7, <1>8, <1>10, <1>13, <1>14, <1>15, <1>16, RequestStep

LEMMA HandlerStepInv ==
    ASSUME SrvInv, NEW h \in Handlers, HandlerStep(h)
    PROVE  SrvInv'
BY FindForStartInv, EnableInv, AddStartedInv, CloseStoppedInv, DisableInv, FindForUpdateInv, WriteUpdateInv,
   ApplyUpdateInv, UpdateEntityInv, FindForReauthInv, FindForLaunchInv, SaveLaunchInv, ReconnectInv,
   FindForCreateInv, InsertServerInv, FindForDeleteInv, CloseInstancesInv, ReadUsersInv, ForgetUserInv,
   RemoveRowInv, DropContextInv, CloseEachInv, WipeInv, FindTemplateInv, ReadUserInv, MakeConfigInv,
   SaveConfigInv, StartInstanceInv, PrefsInv, ReadConfiguredInv, CloseInstanceInv, RemoveConfigInv,
   StartInstancesInv, ThrowInv DEF HandlerStep

-----------------------------------------------------------------------------
(* New requests.                                                             *)

StartPc == {"start", "stop", "update", "launch", "reauth", "create", "delete", "each", "cfg", "unc", "temps"}
LEMMA BeginStep ==
    ASSUME SrvInv, NEW h \in Handlers, hs[h].pc = "idle", NEW n, HandlerOK(n), hs' = [hs EXCEPT ![h] = n],
           n.pc \in StartPc, n.pc = "temps" => n.s \subseteq cfgs[n.u],
           mixed \subseteq mixed', mixed' \subseteq Servers, n.s \cap Busy \subseteq mixed',
           n.pc \in RewritePc /\ n.s \cap Templates # {} /\ Rewriting # {}
              => Rewriting \cup (n.s \cap Templates) \subseteq mixed',
           UNCHANGED <<srow, ctx, temps, cfgs, prefs>>,
           scfg' \in [People -> SUBSET Templates], live' \subseteq People,
           \A p \in People : scfg[p] \subseteq scfg'[p],
           \A p \in People \ live' : scfg'[p] = {}
    PROVE  SrvInv'
<1>1. hs \in [Handlers -> Handler] /\ \A g \in Handlers : hs'[g] = IF g = h THEN n ELSE hs[g]
  BY DEF SrvInv, SrvTypes, SrvTypeOK
<1>2. SrvTypes'
  <2>1. n \in Handler
    BY DEF HandlerOK
  <2>2. SrvTypeOK'
    BY <2>1 DEF SrvInv, SrvTypes, SrvTypeOK
  <2> QED
    BY <1>1, <2>2 DEF SrvInv, SrvTypes, HandlerOK
<1>3. hs[h].s = {}
  BY HandlerFacts DEF SrvInv, HandlerOK
<1>4. ASSUME NEW s \in Servers \ mixed' PROVE ServerOK(s)'
  <2>1. ServerOK(s)
    BY <1>4 DEF SrvInv, ServersInv
  <2>2. s \in n.s => \A g \in Handlers : s \notin hs[g].s
    BY <1>4 DEF Busy
  <2>3. \A g, k \in Handlers : s \in hs'[g].s \cap hs'[k].s => g = k
    BY <1>1, <2>1, <2>2 DEF ServerOK
  <2>4. InstancesOK(s)'
    BY <2>1 DEF ServerOK, InstancesOK
  <2>5. ASSUME NEW g \in Handlers, s \in hs'[g].s PROVE Along(hs[g], s)'
    <3>1. CASE g = h
      <4>1. ctx[s].here => srow[s].here /\ srow[s].enabled
        BY <1>1, <2>1, <2>2, <2>5, <3>1 DEF ServerOK
      <4>2. Along(n, s)'
        BY <1>1, <2>5, <3>1, <4>1 DEF Along, StartPc
      <4> QED
        BY <1>1, <3>1, <4>2
    <3>2. CASE g # h
      <4>1. hs'[g] = hs[g] /\ Along(hs[g], s)
        BY <1>1, <2>1, <2>5, <3>2 DEF ServerOK
      <4> QED
        BY <4>1 DEF Along
    <3> QED
      BY <3>1, <3>2
  <2>6. (\A g \in Handlers : s \notin hs'[g].s) => (\A g \in Handlers : s \notin hs[g].s)
    BY <1>1, <1>3
  <2> QED
    BY <2>1, <2>3, <2>4, <2>5, <2>6 DEF ServerOK
<1>5. ASSUME NEW g \in Handlers, hs[g].pc \in RewritePc, hs[g].s \cap Templates # {}
      PROVE  hs[g].s \subseteq Rewriting /\ Rewriting # {}
  <2>1. PICK s \in Servers : hs[g].s = {s}
    BY <1>5, HandlerFacts DEF SrvInv, HandlerOK, RewritePc
  <2> QED
    BY <1>5, <2>1 DEF Rewriting
<1>6. ASSUME NEW g \in Handlers, NEW k \in Handlers, g # k, hs'[g].pc \in RewritePc, hs'[k].pc \in RewritePc,
             hs'[g].s \cap Templates # {}, hs'[k].s \cap Templates # {}
      PROVE  hs'[g].s \subseteq mixed'
  <2>1. CASE g # h /\ k # h
    <3>1. hs[g].s \subseteq mixed
      BY <1>1, <1>6, <2>1 DEF SrvInv, RewritesInv
    <3> QED
      BY <1>1, <2>1, <3>1
  <2>2. CASE g = h
    <3>1. Rewriting # {} /\ n.pc \in RewritePc /\ n.s \cap Templates # {}
      BY <1>1, <1>5, <1>6, <2>2
    <3>2. PICK s \in Servers : n.s = {s}
      BY <3>1 DEF HandlerOK, RewritePc
    <3> QED
      BY <1>1, <2>2, <3>1, <3>2
  <2>3. CASE k = h /\ g # h
    <3>1. hs[g].s \subseteq Rewriting /\ Rewriting # {}
      BY <1>1, <1>5, <1>6, <2>3
    <3> QED
      BY <1>1, <1>6, <2>3, <3>1
  <2> QED
    BY <2>1, <2>2, <2>3
<1>7. ASSUME NEW g \in Handlers PROVE Snapped(hs[g])'
  <2>1. CASE g = h
    BY <1>1, <2>1 DEF Snapped, SnapPc, StartPc
  <2>2. CASE g # h
    <3>1. Snapped(hs[g]) /\ hs'[g] = hs[g]
      BY <1>1, <2>2 DEF SrvInv, RewritesInv
    <3> QED
      BY <3>1 DEF Snapped
  <2> QED
    BY <2>1, <2>2
<1>8. RewritesInv'
  BY <1>6, <1>7 DEF RewritesInv
<1> QED
  BY <1>2, <1>4, <1>8 DEF SrvInv, ServersInv

(* A request of the admin, or of a user about a template.                    *)
LEMMA BeginInv ==
    ASSUME SrvInv, NEW h \in Handlers, NEW S \in SUBSET Servers, NEW r \in Handler, Begin(h, S, r),
           r.pc \in StartPc \ {"temps"}, r.pc # "each" => \E s \in Servers : S = {s},
           r.pc = "each" => S = Servers,
           r.pc \in {"cfg", "unc"} => S \subseteq Templates /\ r.u \in People,
           r.pc \in {"launch", "reauth"} => S \cap Templates = {} /\ r.conf # NoConf,
           r.pc = "update" /\ r.conf # NoConf => S \cap Templates = {}
    PROVE  SrvInv'
<1>1. PICK n : n = [r EXCEPT !.s = S]
  OBVIOUS
<1>2. n \in Handler /\ n.pc = r.pc /\ n.s = S /\ n.u = r.u /\ n.conf = r.conf
  BY <1>1 DEF Handler
<1>3. HandlerOK(n)
  BY <1>2 DEF HandlerOK, StartPc, TemplatePc, ManagedPc, UserPc, LaunchPc, UpdatePc
<1>4. /\ hs[h].pc = "idle" /\ hs' = [hs EXCEPT ![h] = n]
      /\ mixed' = mixed \cup (S \cap Busy) \cup Entangled(S, r.pc)
      /\ UNCHANGED <<srow, ctx, temps, cfgs, prefs, scfg, live>>
  BY <1>1 DEF Begin
<1>5. Entangled(S, r.pc) \subseteq Servers /\ Busy \subseteq Servers
  BY TemplateAssumption, HandlerFacts DEF Entangled, Rewriting, Busy, SrvInv
<1>6. mixed \subseteq mixed' /\ mixed' \subseteq Servers /\ n.s \cap Busy \subseteq mixed'
  BY <1>2, <1>4, <1>5, StartTypes
<1>7. n.pc \in RewritePc /\ n.s \cap Templates # {} /\ Rewriting # {}
         => Rewriting \cup (n.s \cap Templates) \subseteq mixed'
  BY <1>2, <1>4 DEF Entangled
<1>8. /\ scfg' \in [People -> SUBSET Templates] /\ live' \subseteq People
      /\ \A p \in People : scfg[p] \subseteq scfg'[p]
      /\ \A p \in People \ live' : scfg'[p] = {}
  BY <1>4, StartTypes DEF SrvInv, RewritesInv
<1>9. n.pc \in StartPc /\ n.pc # "temps" /\ UNCHANGED <<srow, ctx, temps, cfgs, prefs>>
  BY <1>2, <1>4
<1> QED
  BY <1>3, <1>4, <1>6, <1>7, <1>8, <1>9, BeginStep

LEMMA OpenSessionInv ==
    ASSUME SrvInv, NEW h \in Handlers, NEW u \in People, OpenSession(h, u)
    PROVE  SrvInv'
<1>1. PICK n : n = [Free EXCEPT !.pc = "temps", !.u = u, !.s = cfgs[u]]
  OBVIOUS
<1>2. /\ u \notin live /\ hs[h].pc = "idle" /\ live' = live \cup {u} /\ scfg' = [scfg EXCEPT ![u] = cfgs[u]]
      /\ hs' = [hs EXCEPT ![h] = n] /\ mixed' = mixed \cup (cfgs[u] \cap Busy)
      /\ UNCHANGED <<srow, ctx, temps, cfgs, prefs>>
  BY <1>1 DEF OpenSession
<1>3. cfgs[u] \subseteq Templates /\ cfgs[u] \subseteq Servers
  BY StartTypes, TemplateAssumption
<1>4. n \in Handler /\ n.pc = "temps" /\ n.u = u /\ n.s = cfgs[u]
  <2>1. Free \in Handler /\ "temps" \in Pc
    BY SrvRecords DEF Pc
  <2> QED
    BY <1>1, <1>3, <2>1 DEF Handler
<1>5. HandlerOK(n)
  BY <1>3, <1>4 DEF HandlerOK, TemplatePc, ManagedPc, UserPc, LaunchPc, UpdatePc
<1>6. scfg' \in [People -> SUBSET Templates] /\ \A p \in People : scfg'[p] = IF p = u THEN cfgs[u] ELSE scfg[p]
  BY <1>2, <1>3, StartTypes
<1>7. scfg[u] = {} /\ \A p \in People \ live : scfg[p] = {}
  BY <1>2 DEF SrvInv, RewritesInv
<1>8. (\A p \in People : scfg[p] \subseteq scfg'[p]) /\ \A p \in People \ live' : scfg'[p] = {}
  BY <1>2, <1>6, <1>7
<1>9. mixed \subseteq mixed' /\ mixed' \subseteq Servers /\ n.s \cap Busy \subseteq mixed' /\ live' \subseteq People
  BY <1>2, <1>3, <1>4, StartTypes
<1>10. n.pc \in StartPc /\ n.pc \notin RewritePc /\ n.s \subseteq cfgs[n.u]
  BY <1>4 DEF StartPc, RewritePc
<1>11. UNCHANGED <<srow, ctx, temps, cfgs, prefs>> /\ hs[h].pc = "idle" /\ hs' = [hs EXCEPT ![h] = n]
  BY <1>2
<1> QED
  BY <1>5, <1>6, <1>8, <1>9, <1>10, <1>11, BeginStep

LEMMA ServerRequestInv ==
    ASSUME SrvInv, NEW h \in Handlers, NEW s \in Servers,
           \/ StartServer(h, s) \/ StopServer(h, s) \/ DeleteServer(h, s)
           \/ \E en \in BOOLEAN :
                 \/ CreateServer(h, s, en)
                 \/ \E c \in Confs \cup {NoConf} : UpdateServer(h, s, c, en)
           \/ \E c \in Confs : UpdateLaunchCmd(h, s, c) \/ ReauthorizeOAuth(h, s, c)
    PROVE  SrvInv'
<1>1. Free \in Handler /\ {"start", "stop", "delete", "create", "update", "launch", "reauth"} \subseteq Pc
  BY SrvRecords DEF Pc
<1>2. NoConf \notin Confs
  BY ConfAssumption DEF Confs, NoConf
<1>3. CASE StartServer(h, s)
  <2>1. PICK r : r = [Free EXCEPT !.pc = "start"]
    OBVIOUS
  <2>2. r \in Handler /\ r.pc = "start"
    BY <1>1, <2>1 DEF Handler
  <2> QED
    BY <1>3, <2>1, <2>2, BeginInv DEF StartServer, StartPc
<1>4. CASE StopServer(h, s)
  <2>1. PICK r : r = [Free EXCEPT !.pc = "stop"]
    OBVIOUS
  <2>2. r \in Handler /\ r.pc = "stop"
    BY <1>1, <2>1 DEF Handler
  <2> QED
    BY <1>4, <2>1, <2>2, BeginInv DEF StopServer, StartPc
<1>5. CASE DeleteServer(h, s)
  <2>1. PICK r : r = [Free EXCEPT !.pc = "delete"]
    OBVIOUS
  <2>2. r \in Handler /\ r.pc = "delete"
    BY <1>1, <2>1 DEF Handler
  <2> QED
    BY <1>5, <2>1, <2>2, BeginInv DEF DeleteServer, StartPc
<1>6. ASSUME NEW en \in BOOLEAN, CreateServer(h, s, en) PROVE SrvInv'
  <2>1. PICK r : r = [Free EXCEPT !.pc = "create", !.en = en]
    OBVIOUS
  <2>2. r \in Handler /\ r.pc = "create"
    BY <1>1, <2>1 DEF Handler
  <2> QED
    BY <1>6, <2>1, <2>2, BeginInv DEF CreateServer, StartPc
<1>7. ASSUME NEW en \in BOOLEAN, NEW c \in Confs \cup {NoConf}, UpdateServer(h, s, c, en) PROVE SrvInv'
  <2>1. PICK r : r = [Free EXCEPT !.pc = "update", !.conf = c, !.en = en]
    OBVIOUS
  <2>2. r \in Handler /\ r.pc = "update" /\ r.conf = c
    BY <1>1, <2>1 DEF Handler
  <2> QED
    BY <1>7, <2>1, <2>2, BeginInv DEF UpdateServer, StartPc
<1>8. ASSUME NEW c \in Confs, UpdateLaunchCmd(h, s, c) PROVE SrvInv'
  <2>1. PICK r : r = [Free EXCEPT !.pc = "launch", !.conf = c]
    OBVIOUS
  <2>2. r \in Handler /\ r.pc = "launch" /\ r.conf = c
    BY <1>1, <2>1 DEF Handler
  <2> QED
    BY <1>2, <1>8, <2>1, <2>2, BeginInv DEF UpdateLaunchCmd, StartPc
<1>9. ASSUME NEW c \in Confs, ReauthorizeOAuth(h, s, c) PROVE SrvInv'
  <2>1. PICK r : r = [Free EXCEPT !.pc = "reauth", !.conf = c]
    OBVIOUS
  <2>2. r \in Handler /\ r.pc = "reauth" /\ r.conf = c
    BY <1>1, <2>1 DEF Handler
  <2> QED
    BY <1>2, <1>9, <2>1, <2>2, BeginInv DEF ReauthorizeOAuth, StartPc
<1> QED
  BY <1>3, <1>4, <1>5, <1>6, <1>7, <1>8, <1>9

LEMMA NewRequestInv ==
    ASSUME SrvInv, NEW h \in Handlers, NewRequest(h, Servers)
    PROVE  SrvInv'
<1>1. Free \in Handler /\ {"each", "cfg", "unc"} \subseteq Pc
  BY SrvRecords DEF Pc
<1>2. CASE DeleteByProxy(h)
  <2>1. PICK r : r = [Free EXCEPT !.pc = "each"]
    OBVIOUS
  <2>2. r \in Handler /\ r.pc = "each"
    BY <1>1, <2>1 DEF Handler
  <2> QED
    BY <1>2, <2>1, <2>2, BeginInv DEF DeleteByProxy, StartPc
<1>3. ASSUME NEW p \in People, NEW t \in Servers \cap Templates, Configure(h, p, t) PROVE SrvInv'
  <2>1. PICK r : r = [Free EXCEPT !.pc = "cfg", !.u = p]
    OBVIOUS
  <2>2. r \in Handler /\ r.pc = "cfg" /\ r.u = p
    BY <1>1, <2>1 DEF Handler
  <2> QED
    BY <1>3, <2>1, <2>2, BeginInv DEF Configure, StartPc
<1>4. ASSUME NEW p \in People, NEW t \in Servers \cap Templates, Unconfigure(h, p, t) PROVE SrvInv'
  <2>1. PICK r : r = [Free EXCEPT !.pc = "unc", !.u = p]
    OBVIOUS
  <2>2. r \in Handler /\ r.pc = "unc" /\ r.u = p
    BY <1>1, <2>1 DEF Handler
  <2> QED
    BY <1>4, <2>1, <2>2, BeginInv DEF Unconfigure, StartPc
<1> QED
  BY <1>2, <1>3, <1>4, OpenSessionInv, ServerRequestInv DEF NewRequest

-----------------------------------------------------------------------------
(* What happens without a request.                                           *)

LEMMA OutsideStep ==
    ASSUME SrvInv, UNCHANGED <<hs, cfgs>>, mixed \subseteq mixed', SrvTypeOK',
           \A s \in Servers \ mixed' : ServerOK(s)', \A p \in People \ live' : scfg'[p] = {}
    PROVE  SrvInv'
<1>1. SrvTypes'
  BY DEF SrvInv, SrvTypes, HandlerOK
<1>2. \A h \in Handlers : Snapped(hs[h])'
  BY DEF SrvInv, RewritesInv, Snapped
<1>3. RewritesInv'
  BY <1>2 DEF SrvInv, RewritesInv
<1> QED
  BY <1>1, <1>3 DEF SrvInv, ServersInv

LEMMA CloseSessionInv ==
    ASSUME SrvInv, NEW u \in People, CloseSession(u)
    PROVE  SrvInv'
<1>1. /\ live' = live \ {u} /\ scfg' = [scfg EXCEPT ![u] = {}] /\ temps' = {x \in temps : x[2] # u}
      /\ UNCHANGED <<srow, ctx, cfgs, prefs, hs, mixed>>
  BY DEF CloseSession
<1>2. scfg' \in [People -> SUBSET Templates] /\ \A p \in People : scfg'[p] = IF p = u THEN {} ELSE scfg[p]
  BY <1>1, StartTypes
<1>3. temps' \subseteq temps /\ \A s, p : <<s, p>> \in temps' => p # u
  BY <1>1
<1>4. SrvTypeOK'
  BY <1>1, <1>2, <1>3 DEF SrvInv, SrvTypes, SrvTypeOK
<1>5. ASSUME NEW s \in Servers \ mixed PROVE ServerOK(s)'
  <2>1. ServerOK(s)
    BY DEF SrvInv, ServersInv
  <2>2. InstancesOK(s)'
    BY <1>1, <1>2, <1>3, <2>1 DEF ServerOK, InstancesOK
  <2>3. \A h \in Handlers : s \in hs[h].s => Along(hs[h], s)'
    BY <1>1, <1>3, <2>1 DEF ServerOK, Along
  <2> QED
    BY <1>1, <2>1, <2>2, <2>3 DEF ServerOK
<1>6. \A p \in People \ live' : scfg'[p] = {}
  BY <1>1, <1>2 DEF SrvInv, RewritesInv
<1> QED
  BY <1>1, <1>4, <1>5, <1>6, OutsideStep

LEMMA RestoreInstanceInv ==
    ASSUME SrvInv, NEW u \in People, NEW t \in Templates, RestoreInstance(u, t)
    PROVE  SrvInv'
<1>1. /\ t \in scfg[u] /\ srow[t].here /\ temps' = temps \cup {<<t, u>>}
      /\ mixed' = mixed \cup ({t} \cap Busy) /\ UNCHANGED <<srow, ctx, cfgs, prefs, scfg, live, hs>>
  BY DEF RestoreInstance, Restored
<1>2. mixed \subseteq mixed' /\ mixed' \subseteq Servers
  BY <1>1, StartTypes, TemplateAssumption
<1>3. SrvTypeOK'
  BY <1>1, <1>2 DEF SrvInv, SrvTypes, SrvTypeOK
<1>4. ASSUME NEW s \in Servers \ mixed' PROVE ServerOK(s)'
  <2>1. ServerOK(s)
    BY <1>2, <1>4 DEF SrvInv, ServersInv
  <2>2. InstancesOK(s)'
    BY <1>1, <2>1 DEF ServerOK, InstancesOK
  <2>3. s = t => \A h \in Handlers : s \notin hs[h].s
    BY <1>1, <1>4 DEF Busy
  <2>4. \A h \in Handlers : s \in hs[h].s => Along(hs[h], s)'
    BY <1>1, <2>1, <2>3 DEF ServerOK, Along
  <2> QED
    BY <1>1, <2>1, <2>2, <2>4 DEF ServerOK
<1>5. \A p \in People \ live' : scfg'[p] = {}
  BY <1>1 DEF SrvInv, RewritesInv
<1> QED
  BY <1>1, <1>2, <1>3, <1>4, <1>5, OutsideStep

(* Contexts are made for enabled servers that no request works on.           *)
LEMMA ContextsMade ==
    ASSUME SrvInv, UNCHANGED <<srow, temps, cfgs, prefs, scfg, live, hs>>, ctx' \in [Servers -> Ctx],
           mixed \subseteq mixed', mixed' \subseteq Servers,
           \A s \in Servers \ mixed' :
              \/ ctx'[s] = ctx[s]
              \/ s \notin Busy \cup Templates /\ srow[s].here /\ srow[s].enabled
    PROVE  SrvInv'
<1>1. SrvTypeOK'
  BY DEF SrvInv, SrvTypes, SrvTypeOK
<1>2. ASSUME NEW s \in Servers \ mixed' PROVE ServerOK(s)'
  <2>1. ServerOK(s)
    BY <1>2 DEF SrvInv, ServersInv
  <2>2. InstancesOK(s)'
    BY <2>1 DEF ServerOK, InstancesOK
  <2>3. CASE ctx'[s] = ctx[s]
    <3>1. \A h \in Handlers : s \in hs[h].s => Along(hs[h], s)'
      BY <2>1, <2>3 DEF ServerOK, Along
    <3> QED
      BY <2>1, <2>2, <2>3, <3>1 DEF ServerOK
  <2>4. CASE s \notin Busy \cup Templates /\ srow[s].here /\ srow[s].enabled
    <3>1. \A h \in Handlers : s \notin hs[h].s
      BY <2>4 DEF Busy
    <3> QED
      BY <2>1, <2>2, <2>4, <3>1 DEF ServerOK
  <2> QED
    BY <1>2, <2>3, <2>4
<1>3. \A p \in People \ live' : scfg'[p] = {}
  BY DEF SrvInv, RewritesInv
<1> QED
  BY <1>1, <1>2, <1>3, OutsideStep

LEMMA BusyServers ==
    ASSUME SrvInv
    PROVE  Busy \subseteq Servers
BY HandlerFacts DEF SrvInv, Busy

LEMMA RestoreContextInv ==
    ASSUME SrvInv, NEW s \in Servers, RestoreContext(s)
    PROVE  SrvInv'
<1>1. /\ s \notin Templates /\ srow[s].here /\ srow[s].enabled /\ mixed' = mixed \cup ({s} \cap Busy)
      /\ UNCHANGED <<srow, temps, cfgs, prefs, scfg, live, hs>>
  BY DEF RestoreContext, Restored
<1>2. PICK x \in Connected(srow[s].conf) : ctx' = [ctx EXCEPT ![s] = x]
  BY DEF RestoreContext
<1>3. srow[s].conf \in Confs \cup {NoConf}
  BY StartTypes DEF SRow
<1>4. x \in Ctx
  BY <1>3, ConnectedCtx
<1>5. ctx' \in [Servers -> Ctx] /\ \A q \in Servers : q # s => ctx'[q] = ctx[q]
  BY <1>2, <1>4, StartTypes
<1>6. mixed \subseteq mixed' /\ mixed' \subseteq Servers
  BY <1>1, StartTypes
<1>7. \A q \in Servers \ mixed' :
         \/ ctx'[q] = ctx[q]
         \/ q \notin Busy \cup Templates /\ srow[q].here /\ srow[q].enabled
  BY <1>1, <1>5
<1> QED
  BY <1>1, <1>5, <1>6, <1>7, ContextsMade

LEMMA ConnectAllServersInv ==
    ASSUME SrvInv, ConnectAllServers
    PROVE  SrvInv'
<1>1. /\ mixed' = mixed \cup {s \in Busy : srow[s].here /\ srow[s].enabled /\ s \notin Templates}
      /\ UNCHANGED <<srow, temps, cfgs, prefs, scfg, live, hs>>
  BY DEF ConnectAllServers
<1>2. \A s \in Servers :
         IF srow[s].here /\ srow[s].enabled /\ s \notin Templates /\ ctx[s].run = NoConf
         THEN ctx'[s] \in Connected(srow[s].conf) ELSE ctx'[s] = ctx[s]
  BY DEF ConnectAllServers
<1>3. ctx' \in [Servers -> Ctx]
  <2>1. PICK T : ctx' \in [Servers -> T]
    BY DEF ConnectAllServers
  <2>2. ASSUME NEW s \in Servers PROVE ctx'[s] \in Ctx
    <3>1. srow[s].conf \in Confs \cup {NoConf} /\ ctx[s] \in Ctx
      BY StartTypes DEF SRow
    <3> QED
      BY <1>2, <3>1, ConnectedCtx
  <2> QED
    BY <2>1, <2>2
<1>4. mixed \subseteq mixed' /\ mixed' \subseteq Servers
  BY <1>1, StartTypes, BusyServers
<1>5. \A q \in Servers \ mixed' :
         \/ ctx'[q] = ctx[q]
         \/ q \notin Busy \cup Templates /\ srow[q].here /\ srow[q].enabled
  BY <1>1, <1>2
<1> QED
  BY <1>1, <1>3, <1>4, <1>5, ContextsMade

(* Nothing of a process is left after it, and no request either.             *)
LEMMA FreshStart ==
    ASSUME hs' = [h \in Handlers |-> Free], temps' = {}, live' = {}, scfg' = Nothing, mixed' = {},
           srow' \in [Servers -> SRow], \A s \in Servers : srow'[s].here <=> srow'[s].conf # NoConf,
           {cfgs', prefs'} \subseteq [People -> SUBSET Templates], ctx' \in [Servers -> Ctx],
           \A s \in Servers : ctx'[s].here => srow'[s].here /\ srow'[s].enabled /\ s \notin Templates
    PROVE  SrvInv'
<1>1. \A h \in Handlers : hs'[h] = Free
  OBVIOUS
<1>2. SrvTypeOK'
  BY SrvRecords DEF SrvTypeOK
<1>3. SrvTypes'
  BY <1>1, <1>2, SrvRecords DEF SrvTypes, HandlerOK
<1>4. \A s \in Servers : InstancesOK(s)'
  BY DEF InstancesOK
<1>5. ServersInv'
  BY <1>1, <1>4, SrvRecords DEF ServersInv, ServerOK
<1>6. RewritesInv'
  BY <1>1, EndsFree, SrvRecords DEF RewritesInv, Snapped, SnapPc, Nothing
<1> QED
  BY <1>3, <1>5, <1>6 DEF SrvInv

LEMMA SrvRestartInv ==
    ASSUME SrvInv, SrvRestart
    PROVE  SrvInv'
<1>1. /\ temps' = {} /\ live' = {} /\ scfg' = Nothing /\ hs' = [h \in Handlers |-> Free] /\ mixed' = {}
      /\ UNCHANGED <<srow, cfgs, prefs>>
  BY DEF SrvRestart
<1>2. /\ \E T : ctx' \in [Servers -> T]
      /\ \A s \in Servers : IF srow[s].here /\ srow[s].enabled /\ s \notin Templates
                            THEN ctx'[s] \in Connected(srow[s].conf) ELSE ctx'[s] = NoCtx
  BY DEF SrvRestart
<1>3. ASSUME NEW s \in Servers
      PROVE  ctx'[s] \in Ctx /\ (ctx'[s].here => srow'[s].here /\ srow'[s].enabled /\ s \notin Templates)
  <2>1. srow[s].conf \in Confs \cup {NoConf}
    BY StartTypes DEF SRow
  <2> QED
    BY <1>1, <1>2, <2>1, ConnectedCtx, SrvRecords
<1>4. ctx' \in [Servers -> Ctx]
  BY <1>2, <1>3
<1>5. /\ srow' \in [Servers -> SRow] /\ \A s \in Servers : srow'[s].here <=> srow'[s].conf # NoConf
      /\ {cfgs', prefs'} \subseteq [People -> SUBSET Templates]
  BY <1>1, StartTypes
<1> QED
  BY <1>1, <1>3, <1>4, <1>5, FreshStart

LEMMA SrvInitInv ==
    ASSUME SrvInit
    PROVE  SrvInv
<1>1. \A h \in Handlers : hs[h] = Free
  BY DEF SrvInit
<1>2. SrvTypeOK
  BY SrvRecords DEF SrvInit, SrvTypeOK
<1>3. SrvTypes
  BY <1>1, <1>2, SrvRecords DEF SrvTypes
<1>4. \A s \in Servers : InstancesOK(s)
  BY DEF InstancesOK, SrvInit
<1>5. ServersInv
  BY <1>1, <1>4, SrvRecords DEF ServersInv, ServerOK, SrvInit
<1>6. RewritesInv
  BY <1>1, EndsFree, SrvRecords DEF RewritesInv, SrvInit, Nothing
<1> QED
  BY <1>3, <1>5, <1>6 DEF SrvInv

LEMMA SrvInvSound ==
    ASSUME SrvInv
    PROVE  ServersSound
<1>1. ASSUME NEW s \in Servers \ (mixed \cup Busy)
      PROVE  /\ ctx[s].here => srow[s].here /\ srow[s].enabled
             /\ \A p \in People : <<s, p>> \in temps => srow[s].here /\ s \in cfgs[p] \cup scfg[p]
  <2>1. ServerOK(s) /\ \A h \in Handlers : s \notin hs[h].s
    BY <1>1 DEF SrvInv, ServersInv, Busy
  <2> QED
    BY <2>1 DEF ServerOK, InstancesOK
<1> QED
  BY <1>1 DEF ServersSound, NothingLeftRunning, SrvInv, SrvTypes

(* ServersSound, for any servers, templates, users and requests in flight:   *)
(* when the requests for a server (ServerHandler, UserRequestHandler) came   *)
(* one after the other, no context is left of a server that is not enabled   *)
(* and no instance of a template that is gone or that its user gave up.      *)
THEOREM ServersStaySound == SrvSpec => []ServersSound
<1>1. SrvInv /\ [SrvNext]_srvVars => SrvInv'
  <2>1. SUFFICES ASSUME SrvInv, [SrvNext]_srvVars PROVE SrvInv'
    OBVIOUS
  <2>2. CASE UNCHANGED srvVars
    <3>1. UNCHANGED <<srow, ctx, temps, cfgs, prefs, scfg, live, hs, mixed>>
      BY <2>2 DEF srvVars
    <3>2. ctx' \in [Servers -> Ctx] /\ mixed' \subseteq Servers
      BY <2>1, <3>1, StartTypes
    <3> QED
      BY <2>1, <3>1, <3>2, ContextsMade
  <2>3. CASE SrvNext
    BY <2>1, <2>3, HandlerStepInv, NewRequestInv, CloseSessionInv, RestoreInstanceInv, RestoreContextInv,
       ConnectAllServersInv, SrvRestartInv DEF SrvNext, SrvNextOn
  <2> QED
    BY <2>1, <2>2, <2>3
<1> QED
  BY <1>1, SrvInitInv, SrvInvSound, PTL DEF SrvSpec

-----------------------------------------------------------------------------
(* The composition that the run checks. *)

(* Requests about some servers are requests about servers. *)
LEMMA OnSomeServers ==
    ASSUME NEW S \in SUBSET Servers, SrvNextOn(S)
    PROVE  SrvNext
<1>1. ASSUME NEW h \in Handlers, NewRequest(h, S) PROVE NewRequest(h, Servers)
  BY <1>1 DEF NewRequest
<1> QED BY <1>1 DEF SrvNext, SrvNextOn

(* The admin API as one system, whichever requests a behaviour is about: it *)
(* is one of AdminServers and one of AdminUsers, so that what is proved of  *)
(* them holds of it (ServerHandler.ts, UserHandler.ts).                     *)
THEOREM AdminComposes == Spec => SrvSpec /\ UsrSpec
<1>1. Init => SrvInit /\ UsrInit
  BY DEF Init
<1>2. Templates \in SUBSET Servers /\ Servers \ Templates \in SUBSET Servers
  BY TemplateAssumption
<1>3. [Next]_adminVars => [SrvNext]_srvVars /\ [UsrNext]_usrVars
  BY <1>2, OnSomeServers DEF Next, adminVars, UsrNext
<1> QED
  BY <1>1, <1>3, PTL DEF Spec, SrvSpec, UsrSpec
=============================================================================
