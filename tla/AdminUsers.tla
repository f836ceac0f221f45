----------------------------- MODULE AdminUsers -----------------------------
(***************************************************************************)
(* What the admin API does to users, to the proxy and to the database as a *)
(* whole: UserHandler, ProxyHandler and BackupHandler behind the access    *)
(* check of ConfigController.  Requests interleave at every query; only    *)
(* what a transaction does under its table locks is one step.  Several     *)
(* Core processes may serve requests, so that nothing in memory orders     *)
(* them.                                                                   *)
(***************************************************************************)
EXTENDS Integers, FiniteSets

CONSTANTS
    Uids,           \* user ids; each is computed from a token
    OwnerIds,       \* those of tokens made for an owner
    Requests,       \* admin requests and authentications in flight
    MaxPerm         \* permission documents there are

ASSUME OwnerAssumption == OwnerIds \subseteq Uids
ASSUME PermAssumption == MaxPerm \in Nat \ {0}

VARIABLES
    urow,       \* the user table
    proxies,    \* rows in the proxy table; the server table is alike
    saved,      \* the users in the last backup
    sess,       \* permissions of the session of a user, NoPerm without one
    rq,         \* the requests
    unclear     \* (history) users that two requests worked on at once

usrVars == <<urow, proxies, saved, sess, rq, unclear>>

Perms == 1..MaxPerm
NoPerm == 0
Roles == {"owner", "admin", "user"}
URow == [here : BOOLEAN, role : Roles, on : BOOLEAN, perm : Perms]
NoUser == [here |-> FALSE, role |-> "user", on |-> FALSE, perm |-> 1]
Empty == [u \in Uids |-> NoUser]

RqPc == {"idle", "create", "createOwner", "insert", "update", "disable", "disabled", "unlink",
         "write", "apply", "remove", "list", "each", "eachOff", "wipe", "proxy", "reset",
         "resetUsers", "resetRest", "resetSess", "empty1", "empty2", "quiet",
         "restore", "backup", "auth"}
(* op: what follows once a user is disabled; todo: listed users still to    *)
(* be disabled, cur: the one that was disabled last.                        *)
Rq == [pc : RqPc, us : SUBSET Uids, op : {"none", "update", "delete", "bulk"}, role : Roles,
       on : BOOLEAN, perm : Perms, todo : SUBSET Uids, cur : SUBSET Uids]
NoRq == [pc |-> "idle", us |-> {}, op |-> "none", role |-> "user", on |-> TRUE, perm |-> 1,
         todo |-> {}, cur |-> {}]

Present == {u \in Uids : urow[u].here}
Owners == {u \in Present : urow[u].role = "owner"}
Worked == UNION {rq[r].us : r \in Requests}

UsrInit ==
    /\ urow = Empty
    /\ proxies = 0
    /\ saved = Empty
    /\ sess = [u \in Uids |-> NoPerm]
    /\ rq = [r \in Requests |-> NoRq]
    /\ unclear = {}

On(r) == CHOOSE u \in rq[r].us : TRUE
End(r) == rq' = [rq EXCEPT ![r] = NoRq]
Goto(r, pc) == rq' = [rq EXCEPT ![r].pc = pc]

(* The access check: an enabled user with one of the roles.                 *)
Allowed(roles) == \E u \in Present : urow[u].on /\ urow[u].role \in roles
Anonymous == TRUE

Enter(r, access, new) ==
    /\ rq[r].pc = "idle" /\ access
    /\ rq' = [rq EXCEPT ![r] = new]
    /\ unclear' = unclear \cup (new.us \cap Worked)
    /\ UNCHANGED <<urow, proxies, saved, sess>>

(* A query throws.  Nothing is undone; what a reset has left unfinished     *)
(* concerns every user.                                                     *)
Fails(r) ==
    /\ rq[r].pc \notin {"idle", "disabled", "eachOff", "apply", "quiet", "resetSess"}
    /\ End(r)
    /\ unclear' = IF rq[r].pc = "resetRest" THEN Uids ELSE unclear
    /\ UNCHANGED <<urow, proxies, saved, sess>>

-----------------------------------------------------------------------------
(* 1010: create a user.  Only an owner may be created without credentials.  *)

CreateUser(r, u, role) ==
    /\ role = "owner" <=> u \in OwnerIds
    /\ Enter(r, IF role = "owner" THEN Anonymous ELSE Allowed({"owner", "admin"}),
             [NoRq EXCEPT !.pc = "create", !.us = {u}, !.role = role])

FindUser(r) ==
    /\ rq[r].pc = "create" /\ ~urow[On(r)].here
    /\ Goto(r, IF rq[r].role = "owner" THEN "createOwner" ELSE "insert")
    /\ UNCHANGED <<urow, proxies, saved, sess, unclear>>

(* Mutant: only the user id is looked at, as before the transaction.        *)
FirstUserById(u) == ~urow[u].here

(* Under a lock on the user table. *)
FirstUser(u) == Present = {}

(* Mutant: the role of the request is lost. *)
InsertedPlain(r) ==
    /\ urow' = [urow EXCEPT ![On(r)] = [here |-> TRUE, role |-> "user", on |-> TRUE, perm |-> 1]]
    /\ End(r)
    /\ UNCHANGED <<proxies, saved, sess, unclear>>

Inserted(r) ==
    /\ urow' = [urow EXCEPT ![On(r)] = [here |-> TRUE, role |-> rq[r].role, on |-> TRUE, perm |-> 1]]
    /\ End(r)
    /\ UNCHANGED <<proxies, saved, sess, unclear>>

CreateOwner(r) == rq[r].pc = "createOwner" /\ FirstUser(On(r)) /\ Inserted(r)
InsertUser(r) == rq[r].pc = "insert" /\ ~urow[On(r)].here /\ Inserted(r)

-----------------------------------------------------------------------------
(* disableUser, from 1001, 1012, 1013 and 1014.                             *)

DisableUser(r, u) ==
    Enter(r, Allowed({"owner", "admin"}), [NoRq EXCEPT !.pc = "disable", !.us = {u}])
DeleteUser(r, u) ==
    Enter(r, Allowed({"owner", "admin"}), [NoRq EXCEPT !.pc = "disable", !.us = {u}, !.op = "delete"])

(* Mutant: the owner is not refused. *)
AnyUser(u) == urow[u].here

(* The owner is refused. *)
MayDisable(u) == urow[u].here /\ urow[u].role # "owner"

FindToDisable(r) ==
    /\ rq[r].pc = "disable" /\ MayDisable(On(r))
    /\ Goto(r, "unlink")
    /\ UNCHANGED <<urow, proxies, saved, sess, unclear>>

WriteDisabled(r) ==
    /\ rq[r].pc = "unlink" /\ urow[On(r)].here
    /\ urow' = [urow EXCEPT ![On(r)].on = FALSE]
    /\ Goto(r, "disabled")
    /\ UNCHANGED <<proxies, saved, sess, unclear>>

(* What comes after disableUser. *)
AfterDisable(r) ==
    CASE rq[r].op = "none" -> End(r)
      [] rq[r].op = "delete" -> Goto(r, "remove")
      [] rq[r].op = "update" -> Goto(r, "write")
      [] rq[r].op = "bulk" -> Goto(r, "each")

(* Mutant: the sessions stay. *)
KeepUserSessions(r) ==
    /\ rq[r].pc = "disabled"
    /\ AfterDisable(r)
    /\ UNCHANGED <<urow, proxies, saved, sess, unclear>>

(* removeAllUserSessions *)
RemoveUserSessions(r) ==
    /\ rq[r].pc = "disabled"
    /\ sess' = [sess EXCEPT ![On(r)] = NoPerm]
    /\ AfterDisable(r)
    /\ UNCHANGED <<urow, proxies, saved, unclear>>

RemoveUser(r) ==
    /\ rq[r].pc = "remove" /\ urow[On(r)].here
    /\ urow' = [urow EXCEPT ![On(r)] = NoUser]
    /\ End(r)
    /\ UNCHANGED <<proxies, saved, sess, unclear>>

-----------------------------------------------------------------------------
(* 1012, 1002: update a user and its permissions.                           *)

UpdateUser(r, u, on, perm) ==
    Enter(r, Allowed({"owner", "admin"}),
          [NoRq EXCEPT !.pc = "update", !.us = {u}, !.on = on, !.perm = perm])

FindToUpdate(r) ==
    /\ rq[r].pc = "update"
    /\ LET row == urow[On(r)] IN
       /\ row.here
       /\ row.role = "owner" => rq[r].on
       /\ rq' = IF row.on /\ ~rq[r].on
                THEN [rq EXCEPT ![r].pc = "disable", ![r].op = "update"]
                ELSE [rq EXCEPT ![r].pc = "write"]
    /\ UNCHANGED <<urow, proxies, saved, sess, unclear>>

WriteUser(r) ==
    /\ rq[r].pc = "write" /\ urow[On(r)].here
    /\ urow' = [urow EXCEPT ![On(r)].on = rq[r].on, ![On(r)].perm = rq[r].perm]
    /\ Goto(r, "apply")
    /\ UNCHANGED <<proxies, saved, sess, unclear>>

(* The sessions there are get the permissions of the request.               *)
UpdateSessions(r) ==
    /\ rq[r].pc = "apply"
    /\ sess' = [sess EXCEPT ![On(r)] = IF @ = NoPerm THEN NoPerm ELSE rq[r].perm]
    /\ End(r)
    /\ UNCHANGED <<urow, proxies, saved, unclear>>

-----------------------------------------------------------------------------
(* 1014: delete the users of the proxy.                                     *)

DeleteUsersByProxy(r) ==
    Enter(r, Allowed({"owner", "admin"}), [NoRq EXCEPT !.pc = "list"])

ListUsers(r) ==
    /\ rq[r].pc = "list" /\ Owners = {}
    /\ rq' = [rq EXCEPT ![r].pc = "each", ![r].todo = Present, ![r].op = "bulk", ![r].us = Uids]
    /\ unclear' = unclear \cup Worked
    /\ UNCHANGED <<urow, proxies, saved, sess>>

(* disableUser for one of them; the listed one may be gone.                 *)
DisableNext(r, u) ==
    /\ rq[r].pc = "each" /\ u \in rq[r].todo
    /\ IF MayDisable(u)
       THEN /\ urow' = [urow EXCEPT ![u].on = FALSE]
            /\ rq' = [rq EXCEPT ![r].todo = @ \ {u}, ![r].pc = "eachOff", ![r].cur = {u}]
       ELSE End(r) /\ UNCHANGED urow
    /\ UNCHANGED <<proxies, saved, sess, unclear>>

RemoveNextSessions(r) ==
    /\ rq[r].pc = "eachOff"
    /\ sess' = [u \in Uids |-> IF u \in rq[r].cur THEN NoPerm ELSE sess[u]]
    /\ rq' = [rq EXCEPT ![r].pc = "each", ![r].cur = {}]
    /\ UNCHANGED <<urow, proxies, saved, unclear>>

(* Every user of the proxy, listed or not. *)
DeleteUsers(r) ==
    /\ rq[r].pc = "each" /\ rq[r].todo = {}
    /\ urow' = Empty
    /\ End(r)
    /\ UNCHANGED <<proxies, saved, sess, unclear>>

-----------------------------------------------------------------------------
(* 5002, 5004: the proxy.                                                   *)

(* Under a lock on the proxy table. *)
FirstProxy == proxies = 0

CreateProxy ==
    /\ FirstProxy
    /\ proxies' = proxies + 1
    /\ UNCHANGED <<urow, saved, sess, rq, unclear>>

DeleteProxy(r) == Enter(r, Allowed({"owner"}), [NoRq EXCEPT !.pc = "reset", !.us = Uids])

DeleteProxyRow(r) ==
    /\ rq[r].pc = "reset" /\ proxies > 0
    /\ proxies' = 0
    /\ Goto(r, "resetUsers")
    /\ UNCHANGED <<urow, saved, sess, unclear>>

ResetUsers(r) ==
    /\ rq[r].pc = "resetUsers"
    /\ urow' = Empty
    /\ Goto(r, "resetRest")
    /\ UNCHANGED <<proxies, saved, sess, unclear>>

(* servers, events, addresses, logs, tunnels, licences, OAuth tables *)
ResetRest(r) ==
    /\ rq[r].pc = "resetRest"
    /\ Goto(r, "resetSess")
    /\ UNCHANGED <<urow, proxies, saved, sess, unclear>>

NoSessions == sess' = [u \in Uids |-> NoPerm]

ResetSessions(r) ==
    /\ rq[r].pc = "resetSess"
    /\ NoSessions
    /\ End(r)
    /\ UNCHANGED <<urow, proxies, saved, unclear>>

-----------------------------------------------------------------------------
(* 6001, 6002: backup and restore.                                          *)

(* Bound: the first backup with a user in it is the one that is kept.       *)
Backup(r) ==
    /\ saved = Empty
    /\ Enter(r, Allowed({"owner", "admin"}), [NoRq EXCEPT !.pc = "backup"])

BackupRows(r) ==
    /\ rq[r].pc = "backup"
    /\ saved' = urow
    /\ End(r)
    /\ UNCHANGED <<urow, proxies, sess, unclear>>

Restore(r) == Enter(r, Anonymous, [NoRq EXCEPT !.pc = "empty1", !.us = Uids])

(* Queries before anything is touched. *)
LookEmpty(r) ==
    /\ \/ rq[r].pc = "empty1" /\ proxies = 0 /\ Goto(r, "empty2")
       \/ rq[r].pc = "empty2" /\ Present = {} /\ Goto(r, "quiet")
    /\ UNCHANGED <<urow, proxies, saved, sess, unclear>>

DropSessions(r) ==
    /\ rq[r].pc = "quiet"
    /\ NoSessions
    /\ Goto(r, "restore")
    /\ UNCHANGED <<urow, proxies, saved, unclear>>

(* Mutant: what was found before the shutdown is trusted. *)
TrustTheQueries == TRUE

(* Checked again, under locks on the tables. *)
StillEmpty == proxies = 0 /\ Present = {}

(* The other tables of the backup may be empty or not. *)
RestoreRows(r) ==
    /\ rq[r].pc = "restore" /\ StillEmpty
    /\ urow' = saved
    /\ proxies' \in {0, 1}
    /\ End(r)
    /\ UNCHANGED <<saved, sess, unclear>>

-----------------------------------------------------------------------------
(* A user's session, authenticated with one read and created afterwards.    *)

Authenticate(r, u) ==
    /\ sess[u] = NoPerm /\ urow[u].here /\ urow[u].on
    /\ Enter(r, Anonymous, [NoRq EXCEPT !.pc = "auth", !.us = {u}, !.perm = urow[u].perm])

CreateSession(r) ==
    /\ rq[r].pc = "auth"
    /\ sess' = [sess EXCEPT ![On(r)] = rq[r].perm]
    /\ End(r)
    /\ UNCHANGED <<urow, proxies, saved, unclear>>

CloseUserSession(u) ==
    /\ sess[u] # NoPerm
    /\ sess' = [sess EXCEPT ![u] = NoPerm]
    /\ UNCHANGED <<urow, proxies, saved, rq, unclear>>

UsrStep(r) ==
    \/ FindUser(r) \/ CreateOwner(r) \/ InsertUser(r)
    \/ FindToDisable(r) \/ WriteDisabled(r) \/ RemoveUserSessions(r) \/ RemoveUser(r)
    \/ FindToUpdate(r) \/ WriteUser(r) \/ UpdateSessions(r)
    \/ ListUsers(r) \/ (\E u \in Uids : DisableNext(r, u)) \/ RemoveNextSessions(r) \/ DeleteUsers(r)
    \/ DeleteProxyRow(r) \/ ResetUsers(r) \/ ResetRest(r) \/ ResetSessions(r)
    \/ BackupRows(r) \/ LookEmpty(r) \/ DropSessions(r) \/ RestoreRows(r)
    \/ CreateSession(r) \/ Fails(r)

(* Requests about one user; those that make and remove sessions and rows;   *)
(* and those about the whole database.                                      *)
EditRequest(r) ==
    \E u \in Uids :
       \/ \E on \in BOOLEAN, perm \in Perms : UpdateUser(r, u, on, perm)
       \/ DisableUser(r, u) \/ DeleteUser(r, u)
RowRequest(r) ==
    \E u \in Uids :
       \/ \E role \in Roles : CreateUser(r, u, role)
       \/ Authenticate(r, u)
TableRequest(r) == DeleteUsersByProxy(r) \/ DeleteProxy(r) \/ Backup(r) \/ Restore(r)

Always == \E r \in Requests : UsrStep(r) \/ RowRequest(r)
Edits == (\E r \in Requests : EditRequest(r)) \/ \E u \in Uids : CloseUserSession(u)
Tables == (\E r \in Requests : TableRequest(r)) \/ CreateProxy

UsrNext == Always \/ Edits \/ Tables

UsrSpec == UsrInit /\ [][UsrNext]_usrVars

-----------------------------------------------------------------------------
(* Every variable has its type, and owners the role that they asked for.    *)
UsrTypeOK ==
    /\ urow \in [Uids -> URow]
    /\ \A u \in Present : urow[u].role = "owner" <=> u \in OwnerIds
    /\ proxies \in 0..2
    /\ saved \in [Uids -> URow]
    /\ sess \in [Uids -> Perms \cup {NoPerm}]
    /\ rq \in [Requests -> Rq]
    /\ unclear \subseteq Uids

(* However many first owners are requested at once, on whatever process,    *)
(* while users are deleted, the proxy is reset and backups are restored,    *)
(* there is one owner and one proxy at most.                                *)
OneOwner == Cardinality(Owners) <= 1 /\ proxies <= 1

(* Users that one request at a time worked on: whoever is disabled or gone  *)
(* has no session, and a session has the permissions of the row.            *)
SessionsFollowRows ==
    \A u \in Uids \ (unclear \cup Worked) :
       sess[u] # NoPerm => urow[u].here /\ urow[u].on /\ sess[u] = urow[u].perm

(* docs/security.md: a restore fails rather than delete what a concurrent   *)
(* request has created, and an owner, once there, is neither disabled nor   *)
(* deleted except by a reset of the proxy and by a deletion of all users    *)
(* that listed them before there was an owner.                              *)
OwnerKept ==
    [][\A u \in Owners :
          \/ urow'[u].here /\ urow'[u].on = urow[u].on /\ urow'[u].role = "owner"
          \/ \E r \in Requests :
                \/ rq[r].pc = "resetUsers" /\ rq'[r].pc = "resetRest"
                \/ rq[r].op = "bulk" /\ rq[r].pc = "each"]_usrVars

(* Whatever requests for users, backups and resets overlap, the rows make   *)
(* sense, there is one owner, and sessions are those of the rows            *)
(* (UserHandler.ts, BackupHandler.ts, ProxyHandler.ts).                     *)
UsersSound == UsrTypeOK /\ OneOwner /\ SessionsFollowRows
=============================================================================
