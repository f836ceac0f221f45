--------------------------- MODULE SessionsProofs ---------------------------
(***************************************************************************)
(* What the session store and the capabilities of sessions guarantee for   *)
(* any number of users, tokens, session ids and requests in flight.        *)
(***************************************************************************)
EXTENDS MC_Sessions, TLAPS

(* Objects that were stored, or whose creation failed. *)
Created == {o \in Objs : objs[o].st \in {"live", "ready", "closed"}}

(* An object has an id and an identity once it is taken, and is not closed *)
(* before it is created.                                                   *)
ObjOK(o) ==
    /\ objs[o].st = "free" => objs[o] = FreeObj
    /\ objs[o].st # "free" => objs[o].sid \in Sids /\ objs[o].cred \in Creds
    /\ objs[o].st = "new" => ~objs[o].trig

ObjsInv ==
    /\ objs \in [Objs -> Obj] /\ disabled \subseteq Users /\ temps \subseteq Users
    /\ \A o \in Objs : ObjOK(o)
    /\ ReuseKeepsOwner /\ OneOpenPerId

(* The maps hold objects under their own ids; only created ones are stored. *)
StoreInv ==
    /\ store \in [Sids -> Objs \cup {NoObj}] /\ events \in [Sids -> Objs \cup {NoObj}]
    /\ \A s \in Sids : store[s] # NoObj => store[s] \in Created /\ objs[store[s]].sid = s
    /\ \A s \in Sids : events[s] # NoObj => objs[events[s]].sid = s

(* A tombstone is of the identity that had the id, and nobody has it open. *)
TombsInv ==
    /\ tombs \in [Sids -> Creds \cup {NoCred}]
    /\ \A s \in Sids : tombs[s] # NoCred =>
          /\ s \in Used
          /\ \A o \in Objs : objs[o].sid = s => objs[o].cred = tombs[s] /\ o \notin Open

(* What a task holds.  The last conjunct is what removeAllUserSessions      *)
(* relies on when it drops the user's set: a session of the user that it    *)
(* did not list was stored since it listed them.                            *)
TaskOK(r) ==
    /\ r.pc = "admit" => r.cred \in Creds
    /\ r.pc = "create" => /\ r.obj \in Objs /\ objs[r.obj].st = "new"
                          /\ events[objs[r.obj].sid] \in {r.obj, NoObj}
    /\ r.pc # "create" /\ r.obj # NoObj => r.obj \in Created
    /\ r.pc \in {"cleanup", "close"} => r.obj # NoObj
    /\ r.pc = "cleanup" => r.sid = objs[r.obj].sid
    /\ r.work \cup r.closing \subseteq Created
    /\ r.pc = "each" =>
          /\ \A o \in r.work : UserOf(o) \in r.users
          /\ \A s \in Sids : store[s] # NoObj /\ UserOf(store[s]) \in r.users /\ ~objs[store[s]].raced
                              => store[s] \in r.work

OneCreator == \A t, p \in Tasks :
    tasks[t].pc = "create" /\ tasks[p].pc = "create" /\ tasks[t].obj = tasks[p].obj => t = p

TasksInv == tasks \in [Tasks -> Task] /\ (\A t \in Tasks : TaskOK(tasks[t])) /\ OneCreator

(* An id in a user's set is of a session of the user; it is stored, or the *)
(* user's sessions are being removed.                                      *)
IndexInv ==
    /\ index \in [Users -> SUBSET Sids]
    /\ \A u \in Users : \A s \in index[u] :
          /\ \E o \in Objs : objs[o].sid = s /\ UserOf(o) = u
          /\ store[s] # NoObj \/ BulkOf(u)

(* The events of a created session are those of the stored one, or some    *)
(* removal under way will drop them.                                       *)
Dropping(r, s) ==
    \/ r.pc = "cleanup" /\ r.sid = s
    \/ r.pc = "each" /\ \E o \in r.work \cup r.closing : objs[o].sid = s
    \/ r.pc = "clear"
Matter(o) == objs[o].st \in {"live", "ready"} \/ objs[o].trig
EventsInv == \A s \in Sids : events[s] # NoObj /\ Matter(events[s]) =>
    store[s] = events[s] \/ \E t \in Tasks : Dropping(tasks[t], s)

SessionsInv == ObjsInv /\ StoreInv /\ TombsInv /\ TasksInv /\ IndexInv /\ Indexed /\ EventsInv

-----------------------------------------------------------------------------
(* The capabilities.  The handlers that have changed the row of a user and *)
(* not yet the session.                                                    *)
Changing(u) == {h \in Between(u) : cOp[h].pc \in {"apply", "told", "install"}}

Synced(u) == cSess[u].perm = cRow[u].perm /\ cSess[u].pref = cRow[u].pref
Current(u) == cSess[u].open /\ u \notin cUnclear

(* A handler that is alone has in hand what is in the row, and will make   *)
(* the session of a user that is not unclear agree with it.                *)
AloneOK(h, u) ==
    LET r == cOp[h]
    IN r.alone =>
          /\ Between(u) = {h}
          /\ r.pc = "apply" => r.doc = cRow[u].perm
          /\ r.pc = "install" => r.pref = cRow[u].pref
          /\ r.pc = "load" => r.perm = cRow[u].perm /\ r.pref = cRow[u].pref
          /\ Current(u) =>
                /\ r.pc = "apply" => cSess[u].pref = cRow[u].pref
                /\ r.pc \in {"told", "install"} => cSess[u].perm = cRow[u].perm
                /\ r.pc = "install" => r.sess

(* A session is as the row says while nobody is changing it. *)
UserOK(u) ==
    /\ Current(u) /\ Changing(u) = {} => Synced(u)
    /\ \A h \in Between(u) : AloneOK(h, u)

UsersInv == \A u \in CUsers : UserOK(u)

(* No answer turns on what the server's configuration turns off. *)
ConfInv == cStored = "off" => cConf = "off"

CapsInv == CapTypeOK /\ UsersInv /\ ConfInv /\ ClientsAreTold

-----------------------------------------------------------------------------
(* The session store.  A step that closes objects or triggers their        *)
(* closing, or leaves them alone.                                          *)
Fade ==
    /\ objs' \in [Objs -> Obj]
    /\ \A o \in Objs :
          /\ objs'[o].sid = objs[o].sid /\ objs'[o].cred = objs[o].cred
          /\ objs'[o].raced = objs[o].raced
          /\ o \notin Created => objs'[o] = objs[o]
          /\ o \in Created => objs'[o].st \in {"live", "ready", "closed"}
          /\ objs[o].st = "closed" => objs'[o].st = "closed"
          /\ objs[o].trig => objs'[o].trig

(* Such a step opens nothing, and who owns what stays. *)
LEMMA FadeObjs ==
    ASSUME ObjsInv, Fade, (disabled \subseteq Users)', (temps \subseteq Users)'
    PROVE  /\ ObjsInv' /\ Created' = Created
           /\ \A o \in Objs : o \notin Open => o \notin Open'
           /\ \A o \in Objs : UserOf(o)' = UserOf(o)
<1>1. Created' = Created
  BY DEF Created, Fade
<1>2. ASSUME NEW o \in Objs, o \notin Open PROVE o \notin Open'
  <2>1. objs[o].st \in {"free", "closed"} \/ objs[o].trig
    BY <1>2 DEF Open, ObjsInv, Obj
  <2>2. objs[o].st \in {"free", "closed"} => objs'[o].st \in {"free", "closed"}
    BY DEF Fade, Created
  <2>3. objs[o].trig => objs'[o].trig
    BY DEF Fade
  <2> QED BY <2>1, <2>2, <2>3 DEF Open
<1>3. ASSUME NEW o \in Objs PROVE ObjOK(o)'
  <2>1. ObjOK(o)
    BY DEF ObjsInv
  <2>2. CASE o \in Created
    BY <2>1, <2>2 DEF ObjOK, Created, Fade
  <2>3. CASE o \notin Created
    BY <2>1, <2>3 DEF ObjOK, Fade
  <2> QED BY <2>2, <2>3
<1>4. ReuseKeepsOwner'
  BY DEF ObjsInv, ReuseKeepsOwner, Fade
<1>5. OneOpenPerId'
  <2>1. \A o \in Open' : o \in Objs /\ o \in Open /\ objs'[o].sid = objs[o].sid
    BY <1>2 DEF Open, Fade
  <2> QED BY <2>1 DEF ObjsInv, OneOpenPerId
<1>6. \A o \in Objs : UserOf(o)' = UserOf(o)
  BY DEF UserOf, Fade
<1> QED BY <1>1, <1>2, <1>3, <1>4, <1>5, <1>6 DEF ObjsInv, Fade

(* The maps only lose entries. *)
Shrink ==
    /\ store' \in [Sids -> Objs \cup {NoObj}] /\ events' \in [Sids -> Objs \cup {NoObj}]
    /\ index' \in [Users -> SUBSET Sids]
    /\ \A s \in Sids : store'[s] \in {store[s], NoObj} /\ events'[s] \in {events[s], NoObj}
    /\ \A u \in Users : index'[u] \subseteq index[u]

(* What a task holds survives a step in which objects fade and maps lose   *)
(* entries.                                                                *)
LEMMA TaskKept ==
    ASSUME ObjsInv, StoreInv, Fade, Shrink, Created' = Created,
           \A o \in Objs : UserOf(o)' = UserOf(o),
           NEW r \in Task, TaskOK(r)
    PROVE  TaskOK(r)'
<1>1. r.pc = "create" => /\ objs'[r.obj].st = "new"
                         /\ events'[objs'[r.obj].sid] \in {r.obj, NoObj}
  <2> SUFFICES ASSUME r.pc = "create"
               PROVE  objs'[r.obj].st = "new" /\ events'[objs'[r.obj].sid] \in {r.obj, NoObj}
    OBVIOUS
  <2>1. r.obj \in Objs /\ objs[r.obj].st = "new" /\ events[objs[r.obj].sid] \in {r.obj, NoObj}
    BY DEF TaskOK
  <2>2. objs'[r.obj] = objs[r.obj] /\ objs[r.obj].sid \in Sids
    BY <2>1 DEF Fade, Created, ObjsInv, ObjOK
  <2> QED BY <2>1, <2>2 DEF Shrink
<1>2. r.pc = "cleanup" => r.sid = objs'[r.obj].sid
  BY DEF TaskOK, Fade, Created
<1>3. r.pc = "each" => \A o \in r.work : UserOf(o)' \in r.users
  BY DEF TaskOK, Created
<1>4. ASSUME r.pc = "each", NEW s \in Sids, store'[s] # NoObj, UserOf(store[s])' \in r.users,
             ~objs'[store'[s]].raced
      PROVE  store'[s] \in r.work
  <2>1. store'[s] = store[s] /\ store[s] \in Objs
    BY <1>4 DEF Shrink, StoreInv
  <2>2. PICK o \in Objs : o = store[s] /\ o = store'[s]
    BY <2>1
  <2>3. UserOf(o)' \in r.users /\ ~objs[o].raced
    BY <1>4, <2>2 DEF Fade
  <2> QED BY <1>4, <2>2, <2>3 DEF TaskOK
<1> QED BY <1>1, <1>2, <1>3, <1>4 DEF TaskOK

(* Tombstones are dropped, if anything, while objects fade. *)
LEMMA TombsFade ==
    ASSUME ObjsInv, TombsInv, Fade, (disabled \subseteq Users)', (temps \subseteq Users)',
           tombs' \in [Sids -> Creds \cup {NoCred}],
           \A s \in Sids : tombs'[s] \in {tombs[s], NoCred}
    PROVE  TombsInv'
<1>1. \A o \in Objs : o \notin Open => o \notin Open'
  BY FadeObjs
<1> SUFFICES ASSUME NEW s \in Sids, tombs'[s] # NoCred
             PROVE  /\ s \in Used'
                    /\ \A o \in Objs : objs'[o].sid = s => objs'[o].cred = tombs'[s] /\ o \notin Open'
  BY DEF TombsInv
<1>2. tombs'[s] = tombs[s] /\ s \in Used
  BY DEF TombsInv
<1>3. s \in Used'
  BY <1>2 DEF Used, Fade
<1>4. \A o \in Objs : objs'[o].sid = s => objs'[o].cred = tombs'[s] /\ o \notin Open'
  BY <1>1, <1>2 DEF TombsInv, Fade
<1> QED BY <1>3, <1>4

(* Some tasks go on to points other than "create". *)
TasksMove ==
    /\ tasks' \in [Tasks -> Task]
    /\ \A p \in Tasks : tasks'[p] = tasks[p] \/ (tasks'[p].pc # "create" /\ TaskOK(tasks[p])')

(* A step in which objects fade and maps lose entries, if it keeps the     *)
(* relations between the maps.                                             *)
LEMMA FadeStep ==
    ASSUME SessionsInv, Fade, Shrink, TasksMove,
           (disabled \subseteq Users)', (temps \subseteq Users)',
           \A u \in Users : \A s \in index'[u] : store'[s] # NoObj \/ BulkOf(u)',
           TombsInv', Indexed', EventsInv'
    PROVE  SessionsInv'
<1> USE DEF SessionsInv
<1>1. /\ ObjsInv' /\ Created' = Created
      /\ \A o \in Objs : o \notin Open => o \notin Open'
      /\ \A o \in Objs : UserOf(o)' = UserOf(o)
  BY FadeObjs
<1>2. StoreInv'
  BY <1>1 DEF StoreInv, Shrink, Fade, Created
<1>4. TasksInv'
  <2>1. ASSUME NEW p \in Tasks PROVE TaskOK(tasks[p])'
    <3>1. CASE tasks'[p] = tasks[p]
      <4>1. PICK r \in Task : r = tasks[p] /\ r = tasks'[p]
        BY <3>1 DEF TasksInv
      <4>2. TaskOK(r)
        BY <4>1 DEF TasksInv
      <4>3. TaskOK(r)'
        BY <1>1, <4>2, TaskKept
      <4> QED BY <4>1, <4>3
    <3>2. CASE tasks'[p] # tasks[p]
      BY <3>2 DEF TasksMove
    <3> QED BY <3>1, <3>2
  <2>2. OneCreator'
    BY DEF TasksInv, OneCreator, TasksMove
  <2> QED BY <2>1, <2>2 DEF TasksInv, TasksMove
<1>5. IndexInv'
  <2>1. ASSUME NEW u \in Users, NEW s \in index'[u] PROVE \E o \in Objs : objs'[o].sid = s /\ UserOf(o)' = u
    <3>1. s \in index[u]
      BY DEF Shrink
    <3>2. PICK o \in Objs : objs[o].sid = s /\ UserOf(o) = u
      BY <3>1 DEF IndexInv
    <3> QED BY <1>1, <3>2 DEF Fade
  <2> QED BY <2>1 DEF IndexInv, Shrink
<1> QED BY <1>1, <1>2, <1>4, <1>5

(* The maps are left alone.  Objects that get triggered are stored, or had *)
(* to be accounted for before, and no removal ends.                        *)
LEMMA QuietStep ==
    ASSUME SessionsInv, Fade, TasksMove, UNCHANGED <<store, events, index>>, TombsInv',
           (disabled \subseteq Users)', (temps \subseteq Users)',
           \A o \in Objs : objs'[o].trig => Matter(o) \/ store[objs[o].sid] = o,
           \A p \in Tasks : /\ tasks[p].pc \in {"each", "cleanup"} => tasks'[p] = tasks[p]
                            /\ tasks[p].pc = "clear" => tasks'[p].pc = "clear"
    PROVE  SessionsInv'
<1> USE DEF SessionsInv
<1>1. /\ ObjsInv' /\ Created' = Created
      /\ \A o \in Objs : UserOf(o)' = UserOf(o)
  BY FadeObjs
<1>2. Shrink
  BY DEF Shrink, StoreInv, IndexInv
<1>3. ASSUME NEW u \in Users, NEW s \in index'[u] PROVE store'[s] # NoObj \/ BulkOf(u)'
  <2>1. store[s] # NoObj \/ BulkOf(u)
    BY DEF IndexInv
  <2>2. BulkOf(u) => BulkOf(u)'
    BY DEF BulkOf
  <2> QED BY <2>1, <2>2
<1>4. Indexed'
  <2> SUFFICES ASSUME NEW s \in Sids, store'[s] # NoObj, ~objs'[store'[s]].raced
               PROVE  s \in index'[UserOf(store[s])']
    BY DEF Indexed
  <2>1. PICK o \in Objs : o = store[s] /\ o = store'[s]
    BY DEF StoreInv
  <2>2. s \in index[UserOf(o)]
    BY <2>1 DEF Indexed, Fade
  <2>3. s \in index'[UserOf(o)']
    BY <1>1, <2>2
  <2> QED BY <2>1, <2>3
<1>5. EventsInv'
  <2> SUFFICES ASSUME NEW s \in Sids, events'[s] # NoObj, Matter(events[s])',
                      store'[s] # events'[s]
               PROVE  \E t \in Tasks : Dropping(tasks[t], s)'
    BY DEF EventsInv
  <2>1. PICK o \in Objs : o = events[s] /\ o = events'[s] /\ objs[o].sid = s
    BY DEF StoreInv
  <2>2. Matter(o)'
    BY <2>1
  <2>3. Matter(o)
    <3>1. CASE objs'[o].trig
      BY <2>1, <3>1
    <3>2. CASE objs'[o].st \in {"live", "ready"}
      BY <3>2 DEF Fade, Created, Matter
    <3> QED BY <2>2, <3>1, <3>2 DEF Matter
  <2>4. PICK t \in Tasks : Dropping(tasks[t], s)
    BY <2>1, <2>3 DEF EventsInv
  <2>5. CASE tasks[t].pc = "clear"
    BY <2>5 DEF Dropping
  <2>6. CASE tasks[t].pc # "clear"
    <3>1. PICK r \in Task : r = tasks[t] /\ r = tasks'[t]
      BY <2>4, <2>6 DEF Dropping, TasksInv
    <3>2. r.work \cup r.closing \subseteq Objs
      BY DEF Task
    <3>3. Dropping(r, s)'
      BY <2>4, <2>6, <3>1, <3>2 DEF Dropping, Fade
    <3> QED BY <3>1, <3>3
  <2> QED BY <2>5, <2>6
<1> QED BY <1>2, <1>3, <1>4, <1>5, FadeStep

(* One task moves, and the maps are left alone. *)
LEMMA QuietTask ==
    ASSUME SessionsInv, Fade, UNCHANGED <<store, events, index>>, TombsInv',
           (disabled \subseteq Users)', (temps \subseteq Users)',
           \A o \in Objs : objs'[o].trig => Matter(o) \/ store[objs[o].sid] = o,
           NEW t \in Tasks, NEW r \in Task, tasks' = [tasks EXCEPT ![t] = r],
           tasks[t].pc \notin {"each", "cleanup"}, tasks[t].pc = "clear" => r.pc = "clear",
           r.pc \notin {"create", "each"},
           r.pc = "admit" => r.cred \in Creds,
           r.obj # NoObj => r.obj \in Created,
           r.pc \in {"cleanup", "close"} => r.obj # NoObj,
           r.pc = "cleanup" => r.sid = objs[r.obj].sid,
           r.work \cup r.closing \subseteq Created
    PROVE  SessionsInv'
<1> USE DEF SessionsInv
<1>1. Created' = Created
  BY FadeObjs
<1>2. r.pc = "cleanup" => r.sid = objs'[r.obj].sid
  BY DEF Fade, Created
<1>3. TaskOK(r)'
  BY <1>1, <1>2 DEF TaskOK
<1>4. /\ tasks' \in [Tasks -> Task] /\ tasks'[t] = r
      /\ \A p \in Tasks : p # t => tasks'[p] = tasks[p]
  BY DEF TasksInv
<1>5. TasksMove
  <2>1. TaskOK(tasks[t])'
    BY <1>3, <1>4
  <2>2. ASSUME NEW p \in Tasks
        PROVE  tasks'[p] = tasks[p] \/ (tasks'[p].pc # "create" /\ TaskOK(tasks[p])')
    <3>1. CASE p = t
      BY <1>4, <2>1, <3>1
    <3>2. CASE p # t
      BY <1>4, <3>2
    <3> QED BY <3>1, <3>2
  <2> QED BY <1>4, <2>2 DEF TasksMove
<1> QED BY <1>4, <1>5, QuietStep

(* Nothing happens to the objects. *)
LEMMA NoFade ==
    ASSUME SessionsInv, UNCHANGED objs
    PROVE  Fade /\ \A o \in Objs : objs'[o].trig => Matter(o)
BY DEF SessionsInv, ObjsInv, Fade, Created, Matter

(* Nothing happens to the tombstones. *)
LEMMA SameTombs ==
    ASSUME SessionsInv, Fade, UNCHANGED tombs, (disabled \subseteq Users)', (temps \subseteq Users)'
    PROVE  TombsInv'
BY TombsFade DEF SessionsInv, TombsInv

(* The sets of users keep their type. *)
LEMMA SameUsers ==
    ASSUME SessionsInv
    PROVE  /\ UNCHANGED disabled => (disabled \subseteq Users)'
           /\ UNCHANGED temps => (temps \subseteq Users)'
BY DEF SessionsInv, ObjsInv

(* An idle task holds nothing. *)
LEMMA IdleTaskOK ==
    /\ IdleTask \in Task /\ IdleTask.pc = "idle" /\ IdleTask.obj = NoObj
    /\ IdleTask.work = {} /\ IdleTask.closing = {}
BY DEF IdleTask, Task, NoSid, NoObj

(* What Rest makes of a task. *)
LEMMA RestOK ==
    ASSUME SessionsInv, NEW t \in Tasks
    PROVE  \E r \in Task : /\ Rest(t) = [tasks EXCEPT ![t] = r]
                           /\ r.pc \in {"idle", "sweep"} /\ r.obj = NoObj
                           /\ r.work = {} /\ r.closing = {}
<1> DEFINE pc == IF tasks[t].todo = {} THEN "idle" ELSE "sweep"
           r == [IdleTask EXCEPT !.pc = pc, !.todo = tasks[t].todo]
<1>1. pc \in {"idle", "sweep"} /\ tasks[t].todo \in SUBSET Sids
  BY DEF SessionsInv, TasksInv, Task
<1>2. Rest(t) = [tasks EXCEPT ![t] = r]
  BY DEF Rest
<1> HIDE DEF pc
<1>3. /\ r \in Task /\ r.pc = pc /\ r.obj = NoObj /\ r.work = {} /\ r.closing = {}
  BY <1>1 DEF IdleTask, Task, NoSid, NoObj
<1> QED BY <1>1, <1>2, <1>3

(* A task that holds nothing goes on, and the rest is left alone. *)
LEMMA FreeTask ==
    ASSUME SessionsInv, UNCHANGED <<store, events, index, objs>>, TombsInv',
           (disabled \subseteq Users)', (temps \subseteq Users)',
           NEW t \in Tasks, NEW r \in Task, tasks' = [tasks EXCEPT ![t] = r],
           tasks[t].pc \notin {"each", "cleanup", "clear"},
           r.pc \in {"idle", "admit", "bulk", "sweep", "temp"},
           r.pc = "admit" => r.cred \in Creds,
           r.obj # NoObj => r.obj \in Created,
           r.work \cup r.closing \subseteq Created
    PROVE  SessionsInv'
BY NoFade, QuietTask

(* A request comes, or no id is left for it. *)
LEMMA ValidateInv ==
    ASSUME SessionsInv, NEW t \in Tasks, NEW s \in Sids \cup {NoSid}, NEW c \in Creds,
           Validate(t, s, c) \/ SidsUsedUp(t)
    PROVE  SessionsInv'
<1>0. /\ UNCHANGED <<store, events, index, tombs, objs, disabled, temps>>
      /\ tasks[t].pc \in {"idle", "admit"}
  BY DEF Validate, SidsUsedUp
<1>1. TombsInv' /\ (disabled \subseteq Users)' /\ (temps \subseteq Users)'
  BY <1>0, NoFade, SameTombs, SameUsers
<1>2. CASE Validate(t, s, c)
  <2> DEFINE r == [IdleTask EXCEPT !.pc = "admit", !.sid = s, !.cred = c]
  <2>1. /\ r \in Task /\ r.pc = "admit" /\ r.cred = c /\ r.obj = NoObj
        /\ r.work = {} /\ r.closing = {}
    BY DEF IdleTask, Task, NoSid, NoObj
  <2>2. tasks' = [tasks EXCEPT ![t] = r]
    BY <1>2 DEF Validate
  <2> HIDE DEF r
  <2> QED BY <1>0, <1>1, <2>1, <2>2, FreeTask
<1>3. CASE SidsUsedUp(t)
  BY <1>0, <1>1, <1>3, IdleTaskOK, FreeTask DEF SidsUsedUp
<1> QED BY <1>2, <1>3

(* All sessions of a user are to be removed, or the sweeper has made its   *)
(* list.                                                                   *)
LEMMA AnnounceInv ==
    ASSUME SessionsInv, NEW t \in Tasks,
           \/ \E u \in Users : Disable(t, u)
           \/ \E o \in Objs : Reject(t, o)
           \/ \E S \in SUBSET Sids : Sweep(t, S)
    PROVE  SessionsInv'
<1>0. tasks[t] \in Task /\ TaskOK(tasks[t])
  BY DEF SessionsInv, TasksInv
<1>1. ASSUME UNCHANGED <<store, events, index, tombs, objs, temps>>, tasks[t].pc = "idle",
             NEW pc \in {"bulk", "sweep"}, NEW U \in SUBSET Users, NEW S \in SUBSET Sids,
             tasks' = [tasks EXCEPT ![t] = [tasks[t] EXCEPT !.pc = pc, !.users = U, !.todo = S]],
             (disabled \subseteq Users)'
      PROVE  SessionsInv'
  <2> DEFINE r == [tasks[t] EXCEPT !.pc = pc, !.users = U, !.todo = S]
  <2>1. /\ r \in Task /\ r.pc = pc /\ r.obj = tasks[t].obj
        /\ r.work = tasks[t].work /\ r.closing = tasks[t].closing
    BY <1>0 DEF Task
  <2>2. (temps \subseteq Users)'
    BY <1>1, SameUsers
  <2>3. TombsInv'
    BY <1>1, <2>2, NoFade, SameTombs
  <2>4. (r.obj # NoObj => r.obj \in Created) /\ r.work \cup r.closing \subseteq Created
    <3> HIDE DEF r
    <3> QED BY <1>0, <1>1, <2>1 DEF TaskOK
  <2> HIDE DEF r
  <2> QED BY <1>1, <2>1, <2>2, <2>3, <2>4, FreeTask DEF r
<1>2. ASSUME NEW u \in Users, Disable(t, u) PROVE SessionsInv'
  <2>1. tasks' = [tasks EXCEPT ![t] = [tasks[t] EXCEPT !.pc = "bulk", !.users = {u}, !.todo = tasks[t].todo]]
    <3>1. tasks' = [tasks EXCEPT ![t] = [tasks[t] EXCEPT !.pc = "bulk", !.users = {u}]]
      BY <1>2 DEF Disable, SessionsInv, TasksInv
    <3>2. [tasks[t] EXCEPT !.pc = "bulk", !.users = {u}]
            = [tasks[t] EXCEPT !.pc = "bulk", !.users = {u}, !.todo = tasks[t].todo]
      BY <1>0 DEF Task
    <3> QED BY <3>1, <3>2
  <2>2. tasks[t].todo \in SUBSET Sids /\ {u} \in SUBSET Users /\ (disabled \subseteq Users)'
    BY <1>0, <1>2 DEF Task, Disable, SessionsInv, ObjsInv
  <2> QED BY <1>1, <1>2, <2>1, <2>2 DEF Disable
<1>3. ASSUME NEW o \in Objs, Reject(t, o) PROVE SessionsInv'
  <2>0. UserOf(o) \in Users
    <3>1. PICK s \in Sids : o = store[s] /\ o # NoObj
      BY <1>3 DEF Reject, Stored
    <3>2. objs[o].cred \in Creds
      BY <3>1 DEF SessionsInv, StoreInv, Created, ObjsInv, ObjOK
    <3> QED BY <3>2, OwnerAssumption DEF UserOf
  <2>1. tasks' = [tasks EXCEPT ![t] = [tasks[t] EXCEPT !.pc = "bulk", !.users = {UserOf(o)}, !.todo = tasks[t].todo]]
    <3>1. tasks' = [tasks EXCEPT ![t] = [tasks[t] EXCEPT !.pc = "bulk", !.users = {UserOf(o)}]]
      BY <1>3 DEF Reject, SessionsInv, TasksInv
    <3>2. [tasks[t] EXCEPT !.pc = "bulk", !.users = {UserOf(o)}]
            = [tasks[t] EXCEPT !.pc = "bulk", !.users = {UserOf(o)}, !.todo = tasks[t].todo]
      BY <1>0 DEF Task
    <3> QED BY <3>1, <3>2
  <2>2. tasks[t].todo \in SUBSET Sids /\ {UserOf(o)} \in SUBSET Users /\ (disabled \subseteq Users)'
    BY <1>0, <1>3, <2>0, SameUsers DEF Task, Reject
  <2> QED BY <1>1, <1>3, <2>1, <2>2 DEF Reject
<1>4. ASSUME NEW S \in SUBSET Sids, Sweep(t, S) PROVE SessionsInv'
  <2>1. tasks' = [tasks EXCEPT ![t] = [tasks[t] EXCEPT !.pc = "sweep", !.users = tasks[t].users, !.todo = S]]
    <3>1. tasks' = [tasks EXCEPT ![t] = [tasks[t] EXCEPT !.pc = "sweep", !.todo = S]]
      BY <1>4 DEF Sweep, SessionsInv, TasksInv
    <3>2. [tasks[t] EXCEPT !.pc = "sweep", !.todo = S]
            = [tasks[t] EXCEPT !.pc = "sweep", !.users = tasks[t].users, !.todo = S]
      BY <1>0 DEF Task
    <3> QED BY <3>1, <3>2
  <2>2. tasks[t].users \in SUBSET Users /\ (disabled \subseteq Users)'
    BY <1>0, <1>4, SameUsers DEF Task, Sweep
  <2> QED BY <1>1, <1>4, <2>1, <2>2 DEF Sweep
<1> QED BY <1>2, <1>3, <1>4

(* The closing of some created objects is triggered. *)
LEMMA TriggerFade ==
    ASSUME SessionsInv, NEW S \in SUBSET Created,
           objs' = [o \in Objs |-> IF o \in S THEN [objs[o] EXCEPT !.trig = TRUE] ELSE objs[o]]
    PROVE  /\ Fade
           /\ \A o \in S : objs'[o].trig
           /\ \A o \in Objs : o \notin S => objs'[o] = objs[o]
<1>1. ASSUME NEW o \in Objs
      PROVE  /\ objs'[o] \in Obj
             /\ objs'[o].sid = objs[o].sid /\ objs'[o].cred = objs[o].cred
             /\ objs'[o].raced = objs[o].raced /\ objs'[o].st = objs[o].st
             /\ o \in S => objs'[o].trig = TRUE
             /\ o \notin S => objs'[o] = objs[o]
  <2>1. objs[o] \in Obj
    BY DEF SessionsInv, ObjsInv
  <2>2. CASE o \in S
    <3>1. objs'[o] = [objs[o] EXCEPT !.trig = TRUE]
      BY <2>2
    <3> QED BY <2>1, <2>2, <3>1 DEF Obj
  <2>3. CASE o \notin S
    BY <2>1, <2>3
  <2> QED BY <2>2, <2>3
<1>2. objs' \in [Objs -> Obj]
  <2>1. objs' = [o \in Objs |-> objs'[o]]
    OBVIOUS
  <2> QED BY <1>1, <2>1
<1>3. ASSUME NEW o \in Objs
      PROVE  /\ o \notin Created => objs'[o] = objs[o]
             /\ o \in Created => objs'[o].st \in {"live", "ready", "closed"}
             /\ objs[o].st = "closed" => objs'[o].st = "closed"
             /\ objs[o].trig => objs'[o].trig
  BY <1>1 DEF Created
<1>4. Fade
  BY <1>1, <1>2, <1>3 DEF Fade
<1>5. \A o \in S : o \in Objs
  BY DEF Created
<1> QED BY <1>1, <1>4, <1>5

(* A removal starts. *)
LEMMA StartRemovalOK ==
    ASSUME SessionsInv, NEW t \in Tasks, NEW s \in Sids, store[s] # NoObj, StartRemoval(t, s)
    PROVE  /\ Fade
           /\ \A o \in Objs : objs'[o].trig => Matter(o) \/ store[objs[o].sid] = o
           /\ objs'[store[s]].trig
           /\ \E r \in Task : /\ tasks' = [tasks EXCEPT ![t] = r] /\ r.pc = "cleanup" /\ r.sid = s
                              /\ r.obj = store[s] /\ r.work = tasks[t].work
                              /\ r.closing = tasks[t].closing
<1>1. PICK x \in Objs : x = store[s] /\ x \in Created /\ objs[x].sid = s
  BY DEF SessionsInv, StoreInv, Created
<1>2. objs' = [o \in Objs |-> IF o \in {x} THEN [objs[o] EXCEPT !.trig = TRUE] ELSE objs[o]]
  BY <1>1 DEF StartRemoval, SessionsInv, ObjsInv
<1>3. Fade /\ (\A o \in {x} : objs'[o].trig) /\ \A o \in Objs : o \notin {x} => objs'[o] = objs[o]
  BY <1>1, <1>2, TriggerFade
<1>4. \A o \in Objs : objs'[o].trig => Matter(o) \/ store[objs[o].sid] = o
  BY <1>1, <1>3 DEF Matter
<1>5. PICK r : r = [tasks[t] EXCEPT !.pc = "cleanup", !.sid = s, !.obj = x, !.todo = @ \ {s}]
  OBVIOUS
<1>6. tasks[t] \in Task
  BY DEF SessionsInv, TasksInv
<1>7. /\ r \in Task /\ r.pc = "cleanup" /\ r.sid = s /\ r.obj = x
      /\ r.work = tasks[t].work /\ r.closing = tasks[t].closing
  BY <1>5, <1>6 DEF Task
<1>8. tasks' = [tasks EXCEPT ![t] = r]
  BY <1>1, <1>5 DEF StartRemoval, SessionsInv, TasksInv
<1> QED BY <1>1, <1>3, <1>4, <1>7, <1>8

(* A client terminates its session. *)
LEMMA TerminateInv ==
    ASSUME SessionsInv, NEW t \in Tasks, NEW o \in Objs, Terminate(t, o)
    PROVE  SessionsInv'
<1>0. /\ ObjsInv /\ TombsInv /\ TasksInv /\ ObjOK(o) /\ o \in Open
      /\ UNCHANGED <<store, events, index, disabled, temps>>
      /\ tasks[t].pc = "idle" /\ TaskOK(tasks[t])
  BY DEF SessionsInv, ObjsInv, TasksInv, Terminate, Open
<1>1. PICK s \in Sids : s = objs[o].sid /\ store[s] = o /\ store[s] # NoObj /\ StartRemoval(t, s)
  BY <1>0 DEF Terminate, ObjOK, Open, Objs, NoObj
<1>2. tombs' = [tombs EXCEPT ![s] = objs[o].cred] /\ objs[o].cred \in Creds
  BY <1>0, <1>1 DEF Terminate, ObjOK, Open
<1>3. /\ Fade
      /\ \A x \in Objs : objs'[x].trig => Matter(x) \/ store[objs[x].sid] = x
      /\ objs'[o].trig
  BY <1>1, StartRemovalOK
<1>4. PICK r \in Task : /\ tasks' = [tasks EXCEPT ![t] = r] /\ r.pc = "cleanup" /\ r.sid = s
                        /\ r.obj = o /\ r.work = tasks[t].work /\ r.closing = tasks[t].closing
  BY <1>1, StartRemovalOK
<1>5. (disabled \subseteq Users)' /\ (temps \subseteq Users)'
  BY <1>0, SameUsers
<1>6. \A x \in Objs : x \notin Open => x \notin Open'
  BY <1>0, <1>3, <1>5, FadeObjs
<1>7. TombsInv'
  <2>1. /\ tombs' \in [Sids -> Creds \cup {NoCred}] /\ tombs'[s] = objs[o].cred
        /\ \A z \in Sids : z # s => tombs'[z] = tombs[z]
    BY <1>0, <1>2 DEF TombsInv
  <2>2. s \in Used'
    BY <1>1, <1>3 DEF Used, Fade
  <2>3. ASSUME NEW x \in Objs, objs'[x].sid = s PROVE objs'[x].cred = tombs'[s] /\ x \notin Open'
    <3>1. objs[x].sid = s /\ objs'[x].cred = objs[x].cred
      BY <1>3, <2>3 DEF Fade
    <3>2. objs[x].cred = objs[o].cred
      BY <1>0, <1>1, <3>1 DEF ObjsInv, ReuseKeepsOwner
    <3>3. x # o => x \notin Open
      BY <1>0, <1>1, <3>1 DEF ObjsInv, OneOpenPerId
    <3>4. o \notin Open'
      BY <1>3 DEF Open
    <3> QED BY <1>6, <2>1, <3>1, <3>2, <3>3, <3>4
  <2>4. ASSUME NEW z \in Sids, z # s, tombs'[z] # NoCred
        PROVE  /\ z \in Used'
               /\ \A x \in Objs : objs'[x].sid = z => objs'[x].cred = tombs'[z] /\ x \notin Open'
    <3>1. tombs'[z] = tombs[z] /\ z \in Used
      BY <1>0, <2>1, <2>4 DEF TombsInv
    <3>2. z \in Used'
      BY <1>3, <3>1 DEF Used, Fade
    <3>3. \A x \in Objs : objs'[x].sid = z => objs'[x].cred = tombs'[z] /\ x \notin Open'
      BY <1>0, <1>3, <1>6, <2>4, <3>1 DEF TombsInv, Fade
    <3> QED BY <3>2, <3>3
  <2>5. ASSUME NEW z \in Sids, tombs'[z] # NoCred
        PROVE  /\ z \in Used'
               /\ \A x \in Objs : objs'[x].sid = z => objs'[x].cred = tombs'[z] /\ x \notin Open'
    BY <2>2, <2>3, <2>4, <2>5
  <2> QED BY <2>1, <2>5 DEF TombsInv
<1>8. o \in Created /\ tasks[t].work \cup tasks[t].closing \subseteq Created
  BY <1>0, <1>1 DEF SessionsInv, StoreInv, TaskOK
<1>9. r.sid = objs[r.obj].sid /\ r.obj # NoObj
  BY <1>1, <1>4
<1> QED BY <1>0, <1>3, <1>4, <1>5, <1>7, <1>8, <1>9, QuietTask

(* A transport closes by itself. *)
LEMMA TransportClosesInv ==
    ASSUME SessionsInv, NEW t \in Tasks, NEW o \in Objs, TransportCloses(t, o)
    PROVE  SessionsInv'
<1>0. /\ ObjsInv /\ TasksInv /\ ObjOK(o) /\ objs[o].st \in {"live", "ready"} /\ o \in Created
      /\ UNCHANGED <<store, events, index, tombs, disabled, temps>>
      /\ tasks[t].pc = "idle" /\ TaskOK(tasks[t]) /\ tasks[t] \in Task
  BY DEF SessionsInv, ObjsInv, TasksInv, TransportCloses, Created
<1>1. PICK s \in Sids : s = objs[o].sid
  BY <1>0 DEF ObjOK
<1>2. (disabled \subseteq Users)' /\ (temps \subseteq Users)'
  BY <1>0, SameUsers
<1>3. CASE store[s] # NoObj
  <2>1. PICK x \in Objs : x = store[s] /\ x \in Created /\ objs[x].sid = s /\ x # NoObj
    BY <1>3 DEF SessionsInv, StoreInv, Created
  <2>2. objs' = [z \in Objs |-> IF z \in {o, x} THEN [objs[z] EXCEPT !.trig = TRUE] ELSE objs[z]]
    BY <1>0, <1>1, <1>3, <2>1 DEF TransportCloses, ObjsInv
  <2>3. {o, x} \in SUBSET Created
    BY <1>0, <2>1
  <2>4. Fade /\ \A z \in Objs : z \notin {o, x} => objs'[z] = objs[z]
    BY <2>2, <2>3, TriggerFade
  <2>5. \A z \in Objs : objs'[z].trig => Matter(z) \/ store[objs[z].sid] = z
    BY <1>0, <2>1, <2>4 DEF Matter
  <2>6. PICK r : r = [tasks[t] EXCEPT !.pc = "cleanup", !.sid = s, !.obj = x]
    OBVIOUS
  <2>7. /\ r \in Task /\ r.pc = "cleanup" /\ r.sid = s /\ r.obj = x
        /\ r.work = tasks[t].work /\ r.closing = tasks[t].closing
    BY <1>0, <2>6 DEF Task
  <2>8. tasks' = [tasks EXCEPT ![t] = r]
    BY <1>0, <1>1, <1>3, <2>1, <2>6 DEF TransportCloses, TasksInv
  <2>9. TombsInv'
    BY <1>0, <1>2, <2>4, SameTombs
  <2>10. tasks[t].work \cup tasks[t].closing \subseteq Created /\ r.sid = objs[r.obj].sid
    BY <1>0, <2>1, <2>7 DEF TaskOK
  <2> QED BY <1>0, <1>2, <2>1, <2>4, <2>5, <2>7, <2>8, <2>9, <2>10, QuietTask
<1>4. CASE store[s] = NoObj
  <2>1. objs' = [z \in Objs |-> IF z \in {o} THEN [objs[z] EXCEPT !.trig = TRUE] ELSE objs[z]]
        /\ UNCHANGED tasks
    BY <1>0, <1>1, <1>4 DEF TransportCloses, ObjsInv
  <2>2. {o} \in SUBSET Created
    BY <1>0
  <2>3. Fade /\ \A z \in Objs : z \notin {o} => objs'[z] = objs[z]
    BY <2>1, <2>2, TriggerFade
  <2>4. \A z \in Objs : objs'[z].trig => Matter(z) \/ store[objs[z].sid] = z
    BY <1>0, <2>3 DEF Matter
  <2>5. TombsInv'
    BY <1>0, <1>2, <2>3, SameTombs
  <2>6. TasksMove
    BY <1>0, <2>1 DEF TasksMove, TasksInv
  <2> QED BY <1>0, <1>2, <2>1, <2>3, <2>4, <2>5, <2>6, QuietStep
<1> QED BY <1>3, <1>4

(* The sweeper takes its next session. *)
LEMMA SweepNextInv ==
    ASSUME SessionsInv, NEW t \in Tasks, NEW s \in Sids, SweepNext(t, s)
    PROVE  SessionsInv'
<1>0. /\ ObjsInv /\ TasksInv /\ tasks[t].pc = "sweep" /\ tasks[t] \in Task /\ TaskOK(tasks[t])
      /\ tasks[t].work \cup tasks[t].closing \subseteq Created
      /\ UNCHANGED <<store, events, index, tombs, disabled, temps>>
  BY DEF SessionsInv, TasksInv, SweepNext, TaskOK
<1>1. (disabled \subseteq Users)' /\ (temps \subseteq Users)'
  BY <1>0, SameUsers
<1>2. CASE /\ store[s] = NoObj /\ UNCHANGED objs
           /\ tasks' = [tasks EXCEPT ![t].todo = @ \ {s},
                          ![t].pc = IF tasks[t].todo = {s} THEN "idle" ELSE "sweep"]
  <2>1. PICK pc \in {"idle", "sweep"} : pc = IF tasks[t].todo = {s} THEN "idle" ELSE "sweep"
    OBVIOUS
  <2>2. PICK r : r = [tasks[t] EXCEPT !.todo = @ \ {s}, !.pc = pc]
    OBVIOUS
  <2>3. tasks' = [tasks EXCEPT ![t] = r]
    BY <1>0, <1>2, <2>1, <2>2 DEF TasksInv
  <2>4. /\ r \in Task /\ r.pc = pc /\ r.obj = tasks[t].obj
        /\ r.work = tasks[t].work /\ r.closing = tasks[t].closing
    BY <1>0, <2>2 DEF Task
  <2>5. TombsInv'
    BY <1>0, <1>1, <1>2, NoFade, SameTombs
  <2>6. r.obj # NoObj => r.obj \in Created
    BY <1>0, <2>4 DEF TaskOK
  <2> QED BY <1>0, <1>1, <1>2, <2>1, <2>3, <2>4, <2>5, <2>6, FreeTask
<1>3. CASE store[s] # NoObj /\ StartRemoval(t, s)
  <2>1. /\ Fade
        /\ \A o \in Objs : objs'[o].trig => Matter(o) \/ store[objs[o].sid] = o
    BY <1>3, StartRemovalOK
  <2>2. PICK r \in Task : /\ tasks' = [tasks EXCEPT ![t] = r] /\ r.pc = "cleanup" /\ r.sid = s
                          /\ r.obj = store[s] /\ r.work = tasks[t].work
                          /\ r.closing = tasks[t].closing
    BY <1>3, StartRemovalOK
  <2>3. TombsInv'
    BY <1>0, <1>1, <2>1, SameTombs
  <2>4. r.obj \in Created /\ r.obj # NoObj /\ r.sid = objs[r.obj].sid
    BY <1>3, <2>2 DEF SessionsInv, StoreInv
  <2> QED BY <1>0, <1>1, <2>1, <2>2, <2>3, <2>4, QuietTask
<1>4. CASE /\ store[s] # NoObj /\ UNCHANGED objs
           /\ tasks' = [tasks EXCEPT ![t].todo = @ \ {s}, ![t].pc = "bulk",
                                    ![t].users = {UserOf(store[s])}]
  <2>1. UserOf(store[s]) \in Users
    <3>1. objs[store[s]].cred \in Creds
      BY <1>4 DEF SessionsInv, StoreInv, Created, ObjsInv, ObjOK
    <3> QED BY <3>1, OwnerAssumption DEF UserOf
  <2>2. PICK r : r = [tasks[t] EXCEPT !.todo = @ \ {s}, !.pc = "bulk", !.users = {UserOf(store[s])}]
    OBVIOUS
  <2>3. tasks' = [tasks EXCEPT ![t] = r]
    BY <1>0, <1>4, <2>2 DEF TasksInv
  <2>4. /\ r \in Task /\ r.pc = "bulk" /\ r.obj = tasks[t].obj
        /\ r.work = tasks[t].work /\ r.closing = tasks[t].closing
    BY <1>0, <2>1, <2>2 DEF Task
  <2>5. TombsInv'
    BY <1>0, <1>1, <1>4, NoFade, SameTombs
  <2>6. r.obj # NoObj => r.obj \in Created
    BY <1>0, <2>4 DEF TaskOK
  <2> QED BY <1>0, <1>1, <1>4, <2>3, <2>4, <2>5, <2>6, FreeTask
<1> QED BY <1>2, <1>3, <1>4 DEF SweepNext

(* The temporary servers of a user are closed. *)
LEMMA CloseTempsInv ==
    ASSUME SessionsInv, NEW t \in Tasks, CloseTemps(t)
    PROVE  SessionsInv'
<1>0. /\ tasks[t].pc = "temp" /\ tasks[t] \in Task /\ TaskOK(tasks[t]) /\ TasksInv
      /\ tasks[t].work \cup tasks[t].closing \subseteq Created
      /\ UNCHANGED <<store, events, index, tombs, objs, disabled>>
  BY DEF SessionsInv, TasksInv, CloseTemps, TaskOK
<1>1. (disabled \subseteq Users)' /\ (temps \subseteq Users)'
  BY <1>0, SameUsers DEF CloseTemps, SessionsInv, ObjsInv
<1>2. Fade /\ (\A o \in Objs : objs'[o].trig => Matter(o)) /\ TombsInv'
  BY <1>0, <1>1, NoFade, SameTombs
<1>3. CASE tasks[t].obj = NoObj
  <2>1. PICK r \in Task : /\ tasks' = [tasks EXCEPT ![t] = r]
                          /\ r.pc \in {"idle", "sweep"} /\ r.obj = NoObj
                          /\ r.work = {} /\ r.closing = {}
    BY <1>3, RestOK DEF CloseTemps
  <2> QED BY <1>0, <1>1, <1>2, <2>1, FreeTask
<1>4. CASE tasks[t].obj # NoObj
  <2>1. PICK r : r = [tasks[t] EXCEPT !.pc = "close"]
    OBVIOUS
  <2>2. tasks' = [tasks EXCEPT ![t] = r]
    BY <1>0, <1>4, <2>1 DEF CloseTemps, TasksInv
  <2>3. /\ r \in Task /\ r.pc = "close" /\ r.obj = tasks[t].obj
        /\ r.work = tasks[t].work /\ r.closing = tasks[t].closing
    BY <1>0, <2>1 DEF Task
  <2>4. r.obj \in Created
    BY <1>0, <1>4, <2>3 DEF TaskOK
  <2> QED BY <1>0, <1>1, <1>2, <1>4, <2>2, <2>3, <2>4, QuietTask
<1> QED BY <1>3, <1>4

(* One created object is closed. *)
LEMMA CloseFade ==
    ASSUME SessionsInv, NEW x \in Created, objs' = [objs EXCEPT ![x].st = "closed"]
    PROVE  Fade /\ \A o \in Objs : objs'[o].trig => Matter(o)
<1>0. x \in Objs /\ objs \in [Objs -> Obj]
  BY DEF Created, SessionsInv, ObjsInv
<1>1. PICK n : n = [objs[x] EXCEPT !.st = "closed"]
  OBVIOUS
<1>2. /\ n \in Obj /\ n.st = "closed" /\ n.sid = objs[x].sid /\ n.cred = objs[x].cred
      /\ n.raced = objs[x].raced /\ n.trig = objs[x].trig
  BY <1>0, <1>1 DEF Obj
<1>3. /\ objs' \in [Objs -> Obj] /\ objs'[x] = n
      /\ \A o \in Objs : o # x => objs'[o] = objs[o]
  BY <1>0, <1>1, <1>2
<1>4. Fade
  BY <1>2, <1>3 DEF Fade, Created
<1>5. \A o \in Objs : objs'[o].trig => Matter(o)
  BY <1>2, <1>3 DEF Matter
<1> QED BY <1>4, <1>5

(* A removed session is closed. *)
LEMMA CloseInv ==
    ASSUME SessionsInv, NEW t \in Tasks, Close(t)
    PROVE  SessionsInv'
<1>0. /\ tasks[t].pc = "close" /\ TaskOK(tasks[t])
      /\ UNCHANGED <<store, events, index, tombs, disabled, temps>>
  BY DEF SessionsInv, TasksInv, Close
<1>1. (disabled \subseteq Users)' /\ (temps \subseteq Users)'
  BY <1>0, SameUsers
<1>2. PICK x \in Created : objs' = [objs EXCEPT ![x].st = "closed"]
  BY <1>0 DEF TaskOK, Close
<1>3. Fade /\ (\A o \in Objs : objs'[o].trig => Matter(o)) /\ TombsInv'
  BY <1>0, <1>1, <1>2, CloseFade, SameTombs
<1>4. PICK r \in Task : /\ tasks' = [tasks EXCEPT ![t] = r]
                        /\ r.pc \in {"idle", "sweep"} /\ r.obj = NoObj
                        /\ r.work = {} /\ r.closing = {}
  BY RestOK DEF Close
<1> QED BY <1>0, <1>1, <1>3, <1>4, QuietTask

(* All sessions are to be removed, or one of them is closed. *)
LEMMA ClearInv ==
    ASSUME SessionsInv, NEW t \in Tasks, Clear(t) \/ \E o \in Objs : ClearOne(t, o)
    PROVE  SessionsInv'
<1>0. /\ tasks[t].pc \in {"idle", "clear"} /\ tasks[t] \in Task /\ TaskOK(tasks[t]) /\ TasksInv
      /\ tasks[t].work \cup tasks[t].closing \subseteq Created
      /\ UNCHANGED <<store, events, index, tombs, disabled, temps>>
  BY DEF SessionsInv, TasksInv, Clear, ClearOne, TaskOK
<1>1. (disabled \subseteq Users)' /\ (temps \subseteq Users)'
  BY <1>0, SameUsers
<1>2. CASE Clear(t)
  <2>1. Stored \in SUBSET Created /\ \A o \in Stored : store[objs[o].sid] = o
    BY DEF Stored, SessionsInv, StoreInv
  <2>2. PICK S \in SUBSET Created : S = Stored
    BY <2>1
  <2>3. Fade /\ \A o \in Objs : o \notin S => objs'[o] = objs[o]
    BY <1>2, <2>2, TriggerFade DEF Clear, Triggered
  <2>4. \A o \in Objs : objs'[o].trig => Matter(o) \/ store[objs[o].sid] = o
    BY <2>1, <2>2, <2>3 DEF Matter
  <2>5. PICK r : r = [tasks[t] EXCEPT !.pc = "clear", !.work = S]
    OBVIOUS
  <2>6. tasks' = [tasks EXCEPT ![t] = r] /\ tasks[t].pc = "idle"
    BY <1>0, <1>2, <2>2, <2>5 DEF Clear, TasksInv
  <2>7. /\ r \in Task /\ r.pc = "clear" /\ r.obj = tasks[t].obj /\ r.work = S
        /\ r.closing = tasks[t].closing
    BY <1>0, <2>5 DEF Task, Created
  <2>8. (r.obj # NoObj => r.obj \in Created) /\ r.work \cup r.closing \subseteq Created
    BY <1>0, <2>6, <2>7 DEF TaskOK
  <2>9. TombsInv'
    BY <1>0, <1>1, <2>3, SameTombs
  <2> QED BY <1>0, <1>1, <2>3, <2>4, <2>6, <2>7, <2>8, <2>9, QuietTask
<1>3. ASSUME NEW o \in Objs, ClearOne(t, o) PROVE SessionsInv'
  <2>1. o \in Created /\ objs' = [objs EXCEPT ![o].st = "closed"] /\ tasks[t].pc = "clear"
    BY <1>0, <1>3 DEF ClearOne
  <2>2. Fade /\ (\A x \in Objs : objs'[x].trig => Matter(x)) /\ TombsInv'
    BY <1>0, <1>1, <2>1, CloseFade, SameTombs
  <2>3. PICK r : r = [tasks[t] EXCEPT !.work = @ \ {o}]
    OBVIOUS
  <2>4. tasks' = [tasks EXCEPT ![t] = r]
    BY <1>0, <1>3, <2>3 DEF ClearOne, TasksInv
  <2>5. /\ r \in Task /\ r.pc = "clear" /\ r.obj = tasks[t].obj /\ r.work \subseteq tasks[t].work
        /\ r.closing = tasks[t].closing
    BY <1>0, <2>1, <2>3 DEF Task
  <2>6. (r.obj # NoObj => r.obj \in Created) /\ r.work \cup r.closing \subseteq Created
    BY <1>0, <2>1, <2>5 DEF TaskOK
  <2> QED BY <1>0, <1>1, <2>1, <2>2, <2>4, <2>5, <2>6, QuietTask
<1> QED BY <1>2, <1>3

(* A client initializes its session, or a tombstone expires. *)
LEMMA OutsideStep ==
    ASSUME SessionsInv, (\E o \in Objs : Initialized(o)) \/ (\E s \in Sids : TombstoneExpires(s))
    PROVE  SessionsInv'
<1>0. UNCHANGED <<store, events, index, disabled, tasks>> /\ ObjsInv /\ TasksInv
  BY DEF SessionsInv, Initialized, TombstoneExpires
<1>1. TasksMove
  BY <1>0 DEF TasksMove, TasksInv
<1>2. ASSUME NEW o \in Objs, Initialized(o) PROVE SessionsInv'
  <2>1. /\ objs[o].st = "live" /\ objs' = [objs EXCEPT ![o].st = "ready"]
        /\ temps' = temps \cup {UserOf(o)} /\ UNCHANGED tombs
    BY <1>2 DEF Initialized
  <2>2. objs[o].cred \in Creds /\ objs \in [Objs -> Obj]
    BY <1>0, <2>1 DEF ObjsInv, ObjOK
  <2>3. (disabled \subseteq Users)' /\ (temps \subseteq Users)'
    BY <1>0, <2>1, <2>2, SameUsers, OwnerAssumption DEF UserOf, ObjsInv
  <2>4. PICK n : n = [objs[o] EXCEPT !.st = "ready"]
    OBVIOUS
  <2>5. /\ n \in Obj /\ n.st = "ready" /\ n.sid = objs[o].sid /\ n.cred = objs[o].cred
        /\ n.raced = objs[o].raced /\ n.trig = objs[o].trig
    BY <2>2, <2>4 DEF Obj
  <2>6. /\ objs' \in [Objs -> Obj] /\ objs'[o] = n
        /\ \A x \in Objs : x # o => objs'[x] = objs[x]
    BY <2>1, <2>2, <2>4, <2>5
  <2>7. Fade
    BY <2>1, <2>5, <2>6 DEF Fade, Created
  <2>8. \A x \in Objs : objs'[x].trig => Matter(x)
    BY <2>5, <2>6 DEF Matter
  <2>9. TombsInv'
    BY <2>1, <2>3, <2>7, SameTombs
  <2> QED BY <1>0, <1>1, <2>3, <2>7, <2>8, <2>9, QuietStep
<1>3. ASSUME NEW s \in Sids, TombstoneExpires(s) PROVE SessionsInv'
  <2>1. tombs' = [tombs EXCEPT ![s] = NoCred] /\ UNCHANGED <<objs, temps>>
    BY <1>3 DEF TombstoneExpires
  <2>2. (disabled \subseteq Users)' /\ (temps \subseteq Users)'
    BY <1>0, <2>1, SameUsers
  <2>3. Fade /\ \A x \in Objs : objs'[x].trig => Matter(x)
    BY <2>1, NoFade
  <2>4. TombsInv'
    BY <2>1, <2>2, <2>3, TombsFade DEF SessionsInv, TombsInv
  <2> QED BY <1>0, <1>1, <2>2, <2>3, <2>4, QuietStep
<1> QED BY <1>2, <1>3

(* An id in a user's set is the user's, whatever object has it. *)
LEMMA IndexOwner ==
    ASSUME SessionsInv, NEW u \in Users, NEW s \in index[u], NEW o \in Objs, objs[o].sid = s
    PROVE  UserOf(o) = u
<1>1. PICK x \in Objs : objs[x].sid = s /\ UserOf(x) = u
  BY DEF SessionsInv, IndexInv
<1>2. objs[x].cred = objs[o].cred
  BY <1>1 DEF SessionsInv, ObjsInv, ReuseKeepsOwner
<1> QED BY <1>1, <1>2 DEF UserOf

(* One task changes. *)
LEMMA OneTask ==
    ASSUME SessionsInv, NEW t \in Tasks, NEW r \in Task, tasks' = [tasks EXCEPT ![t] = r],
           r.pc # "create", TaskOK(r)'
    PROVE  /\ TasksMove /\ tasks'[t] = r
           /\ \A p \in Tasks : p # t => tasks'[p] = tasks[p]
<1>1. /\ tasks' \in [Tasks -> Task] /\ tasks'[t] = r
      /\ \A p \in Tasks : p # t => tasks'[p] = tasks[p]
  BY DEF SessionsInv, TasksInv
<1>2. TaskOK(tasks[t])'
  BY <1>1
<1>3. ASSUME NEW p \in Tasks
      PROVE  tasks'[p] = tasks[p] \/ (tasks'[p].pc # "create" /\ TaskOK(tasks[p])')
  <2>1. CASE p = t
    BY <1>1, <1>2, <2>1
  <2>2. CASE p # t
    BY <1>1, <2>2
  <2> QED BY <2>1, <2>2
<1> QED BY <1>1, <1>3 DEF TasksMove

(* The sessions of a user are listed. *)
LEMMA BulkInv ==
    ASSUME SessionsInv, NEW t \in Tasks, Bulk(t)
    PROVE  SessionsInv'
<1>0. /\ tasks[t].pc = "bulk" /\ tasks[t] \in Task /\ TaskOK(tasks[t]) /\ TasksInv
      /\ tasks[t].work \cup tasks[t].closing \subseteq Created
      /\ tasks[t].users \in SUBSET Users
      /\ UNCHANGED <<store, events, index, tombs, disabled, temps>>
  BY DEF SessionsInv, TasksInv, Bulk, TaskOK, Task
<1>1. (disabled \subseteq Users)' /\ (temps \subseteq Users)'
  BY <1>0, SameUsers
<1>2. PICK ids : ids = UNION {index[u] : u \in tasks[t].users}
  OBVIOUS
<1>3. CASE ids = {}
  <2>1. UNCHANGED objs /\ tasks' = Rest(t)
    BY <1>2, <1>3 DEF Bulk
  <2>2. PICK r \in Task : /\ tasks' = [tasks EXCEPT ![t] = r]
                          /\ r.pc \in {"idle", "sweep"} /\ r.obj = NoObj
                          /\ r.work = {} /\ r.closing = {}
    BY <2>1, RestOK
  <2>3. TombsInv'
    BY <1>0, <1>1, <2>1, NoFade, SameTombs
  <2> QED BY <1>0, <1>1, <2>1, <2>2, <2>3, FreeTask
<1>4. CASE ids # {}
  <2>1. PICK S : S = {store[s] : s \in ids} \ {NoObj}
    OBVIOUS
  <2>2. \A s \in ids : s \in Sids /\ \E u \in tasks[t].users : u \in Users /\ s \in index[u]
    BY <1>0, <1>2 DEF SessionsInv, IndexInv
  <2>3. ASSUME NEW o \in S
        PROVE  o \in Created /\ store[objs[o].sid] = o /\ UserOf(o) \in tasks[t].users
    <3>1. PICK s \in ids : o = store[s] /\ o # NoObj
      BY <2>1, <2>3
    <3>2. o \in Created /\ objs[o].sid = s /\ o \in Objs
      BY <2>2, <3>1 DEF SessionsInv, StoreInv, Created
    <3>3. PICK u \in tasks[t].users : u \in Users /\ s \in index[u]
      BY <2>2
    <3>4. UserOf(o) = u
      BY <3>2, <3>3, IndexOwner
    <3> QED BY <3>1, <3>2, <3>3, <3>4
  <2>4. objs' = Triggered(S) /\ tasks' = [tasks EXCEPT ![t].pc = "each", ![t].work = S]
    BY <1>2, <1>4, <2>1 DEF Bulk
  <2>5. Fade /\ \A o \in Objs : o \notin S => objs'[o] = objs[o]
    <3>1. S \in SUBSET Created
      BY <2>3
    <3> QED BY <2>4, <3>1, TriggerFade DEF Triggered
  <2>6. \A o \in Objs : objs'[o].trig => Matter(o) \/ store[objs[o].sid] = o
    BY <2>3, <2>5 DEF Matter
  <2>7. PICK r : r = [tasks[t] EXCEPT !.pc = "each", !.work = S]
    OBVIOUS
  <2>8. tasks' = [tasks EXCEPT ![t] = r]
    BY <1>0, <2>4, <2>7 DEF TasksInv
  <2>9. /\ r \in Task /\ r.pc = "each" /\ r.obj = tasks[t].obj /\ r.work = S
        /\ r.closing = tasks[t].closing /\ r.users = tasks[t].users
    BY <1>0, <2>3, <2>7 DEF Task, Created
  <2>10. TombsInv' /\ Created' = Created /\ \A o \in Objs : UserOf(o)' = UserOf(o)
    BY <1>0, <1>1, <2>5, SameTombs, FadeObjs DEF SessionsInv
  <2>11. \A o \in r.work : UserOf(o)' \in r.users
    BY <2>3, <2>9, <2>10 DEF Created
  <2>12. ASSUME NEW s \in Sids, store'[s] # NoObj, UserOf(store[s])' \in r.users,
                ~objs'[store'[s]].raced
         PROVE  store'[s] \in r.work
    <3>1. PICK o \in Objs : o = store[s] /\ o = store'[s]
      BY <1>0, <2>12 DEF SessionsInv, StoreInv
    <3>2. UserOf(o) \in tasks[t].users /\ ~objs[o].raced
      BY <2>5, <2>9, <2>10, <2>12, <3>1 DEF Fade
    <3>3. s \in index[UserOf(o)]
      BY <1>0, <2>12, <3>1, <3>2 DEF SessionsInv, Indexed
    <3>4. s \in ids
      BY <1>2, <3>2, <3>3
    <3> QED BY <1>0, <2>1, <2>9, <2>12, <3>1, <3>4
  <2>13. TaskOK(r)'
    <3>1. (r.obj # NoObj => r.obj \in Created) /\ r.work \cup r.closing \subseteq Created
      BY <1>0, <2>3, <2>9 DEF TaskOK
    <3> QED BY <2>9, <2>10, <2>11, <2>12, <3>1 DEF TaskOK
  <2>14. TasksMove /\ tasks'[t] = r /\ \A p \in Tasks : p # t => tasks'[p] = tasks[p]
    BY <2>8, <2>9, <2>13, OneTask
  <2> QED BY <1>0, <1>1, <2>5, <2>6, <2>10, <2>14, QuietStep
<1> QED BY <1>3, <1>4

(* A session that is stored and was not raced is in its user's set, if     *)
(* that is so where the maps changed.                                      *)
LEMMA IndexedKept ==
    ASSUME SessionsInv, Fade, Shrink, \A o \in Objs : UserOf(o)' = UserOf(o),
           \A s \in Sids : store'[s] # NoObj /\ ~objs[store[s]].raced /\ s \in index[UserOf(store[s])]
                              => s \in index'[UserOf(store[s])]
    PROVE  Indexed'
<1> SUFFICES ASSUME NEW s \in Sids, store'[s] # NoObj, ~objs'[store'[s]].raced
             PROVE  s \in index'[UserOf(store[s])']
  BY DEF Indexed
<1>1. PICK o \in Objs : o = store[s] /\ o = store'[s]
  BY DEF SessionsInv, StoreInv, Shrink
<1>2. s \in index[UserOf(o)] /\ ~objs[o].raced
  BY <1>1 DEF SessionsInv, Indexed, Fade
<1>3. s \in index'[UserOf(o)]
  BY <1>1, <1>2
<1>4. UserOf(o)' = UserOf(o) /\ UserOf(store[s])' = UserOf(o)'
  BY <1>1
<1> QED BY <1>3, <1>4

(* The events of every created session are still accounted for, if that is *)
(* so where the maps or the tasks changed.                                 *)
LEMMA EventsKept ==
    ASSUME SessionsInv, Fade, Shrink,
           \A o \in Objs : objs'[o].trig => Matter(o),
           NEW t \in Tasks, \A p \in Tasks : p # t => tasks'[p] = tasks[p],
           \A s \in Sids : events'[s] # NoObj /\ (store[s] = events[s] \/ Dropping(tasks[t], s))
                              => store'[s] = events[s] \/ Dropping(tasks[t], s)'
    PROVE  EventsInv'
<1> SUFFICES ASSUME NEW s \in Sids, events'[s] # NoObj, Matter(events[s])'
             PROVE  store'[s] = events'[s] \/ \E p \in Tasks : Dropping(tasks[p], s)'
  BY DEF EventsInv
<1>1. PICK o \in Objs : o = events[s] /\ o = events'[s]
  BY DEF SessionsInv, StoreInv, Shrink
<1>2. Matter(o)'
  BY <1>1
<1>3. Matter(o)
  <2>1. CASE objs'[o].trig
    BY <1>1, <2>1
  <2>2. CASE objs'[o].st \in {"live", "ready"}
    BY <2>2 DEF Fade, Created, Matter
  <2> QED BY <1>2, <2>1, <2>2 DEF Matter
<1>4. store[s] = o \/ \E p \in Tasks : Dropping(tasks[p], s)
  BY <1>1, <1>3 DEF SessionsInv, EventsInv, StoreInv
<1>5. ASSUME NEW p \in Tasks, p # t, Dropping(tasks[p], s) PROVE Dropping(tasks[p], s)'
  <2>1. PICK r \in Task : r = tasks[p] /\ r = tasks'[p]
    BY <1>5 DEF SessionsInv, TasksInv
  <2>2. r.work \cup r.closing \subseteq Objs
    BY DEF Task
  <2>3. Dropping(r, s)'
    BY <1>5, <2>1, <2>2 DEF Dropping, Fade
  <2> QED BY <2>1, <2>3
<1> QED BY <1>1, <1>4, <1>5

(* A session leaves the maps. *)
LEMMA RemoveInv ==
    ASSUME SessionsInv, NEW t \in Tasks, Remove(t)
    PROVE  SessionsInv'
<1>0. /\ tasks[t].pc = "cleanup" /\ tasks[t] \in Task /\ TaskOK(tasks[t]) /\ TasksInv /\ StoreInv
      /\ tasks[t].work \cup tasks[t].closing \subseteq Created
      /\ IndexInv /\ UNCHANGED <<tombs, objs, disabled, temps>>
  BY DEF SessionsInv, TasksInv, Remove, TaskOK
<1>1. PICK x \in Objs : x = tasks[t].obj /\ x \in Created /\ tasks[t].sid = objs[x].sid /\ x # NoObj
  BY <1>0 DEF TaskOK, Created
<1>2. PICK s \in Sids, u \in Users : s = tasks[t].sid /\ u = UserOf(x) /\ s = objs[x].sid
  <2>1. ObjOK(x)
    BY DEF SessionsInv, ObjsInv
  <2>2. objs[x].sid \in Sids /\ objs[x].cred \in Creds
    BY <1>1, <2>1 DEF ObjOK, Created
  <2> QED BY <1>1, <2>2, OwnerAssumption DEF UserOf
<1>3. /\ store' = [store EXCEPT ![s] = NoObj] /\ events' = [events EXCEPT ![s] = NoObj]
      /\ index' = [index EXCEPT ![u] = @ \ {s}]
  BY <1>1, <1>2 DEF Remove
<1>4. PICK r \in Task : /\ tasks' = [tasks EXCEPT ![t] = r] /\ r.pc \in {"temp", "close"} /\ r.obj = x
                        /\ r.work = tasks[t].work /\ r.closing = tasks[t].closing
  <2>1. PICK pc \in {"temp", "close"} :
           pc = IF index[u] # {} /\ index[u] \ {s} = {} THEN "temp" ELSE "close"
    OBVIOUS
  <2>2. PICK r : r = [tasks[t] EXCEPT !.pc = pc, !.users = {u} \cap temps]
    OBVIOUS
  <2>3. tasks' = [tasks EXCEPT ![t] = r]
    BY <1>0, <1>1, <1>2, <2>1, <2>2 DEF Remove, TasksInv
  <2>4. {u} \cap temps \in SUBSET Users
    OBVIOUS
  <2>5. /\ r \in Task /\ r.pc = pc /\ r.obj = x
        /\ r.work = tasks[t].work /\ r.closing = tasks[t].closing
    BY <1>0, <1>1, <2>2, <2>4 DEF Task
  <2> QED BY <2>3, <2>5
<1>5. (disabled \subseteq Users)' /\ (temps \subseteq Users)'
  BY <1>0, SameUsers
<1>6. Fade /\ (\A o \in Objs : objs'[o].trig => Matter(o))
  BY <1>0, NoFade
<1>7. TombsInv' /\ Created' = Created /\ \A o \in Objs : UserOf(o)' = UserOf(o)
  BY <1>0, <1>5, <1>6, SameTombs, FadeObjs DEF SessionsInv
<1>8. TaskOK(r)'
  BY <1>0, <1>1, <1>4, <1>7 DEF TaskOK
<1>9. TasksMove /\ tasks'[t] = r /\ \A p \in Tasks : p # t => tasks'[p] = tasks[p]
  BY <1>4, <1>8, OneTask
<1>10. Shrink /\ \A z \in Sids : z # s => store'[z] = store[z]
  BY <1>0, <1>3 DEF Shrink, StoreInv, IndexInv, NoObj
<1>11. \A v \in Users : s \notin index'[v]
  BY <1>0, <1>1, <1>2, <1>3, IndexOwner DEF IndexInv
<1>12. ASSUME NEW v \in Users, NEW z \in index'[v] PROVE store'[z] # NoObj \/ BulkOf(v)'
  <2>1. z # s /\ z \in index[v] /\ z \in Sids
    BY <1>0, <1>10, <1>11, <1>12 DEF Shrink, IndexInv
  <2>2. store[z] # NoObj \/ BulkOf(v)
    BY <1>0, <2>1 DEF IndexInv
  <2>3. BulkOf(v) => BulkOf(v)'
    BY <1>0, <1>9 DEF BulkOf
  <2> QED BY <1>10, <2>1, <2>2, <2>3
<1>13. Indexed'
  <2>1. \A z \in Sids : store'[z] # NoObj => z # s
    BY <1>0, <1>3 DEF StoreInv
  <2>2. \A v \in Users, z \in Sids : z # s /\ z \in index[v] => z \in index'[v]
    BY <1>0, <1>3 DEF IndexInv
  <2>3. ASSUME NEW z \in Sids, store'[z] # NoObj, z \in index[UserOf(store[z])]
        PROVE  z \in index'[UserOf(store[z])]
    <3>1. store[z] \in Created /\ store[z] \in Objs
      BY <1>0, <1>10, <2>1, <2>3 DEF StoreInv, Created
    <3>2. objs[store[z]].cred \in Creds
      BY <3>1 DEF SessionsInv, ObjsInv, ObjOK, Created
    <3>3. UserOf(store[z]) \in Users
      BY <3>2, OwnerAssumption DEF UserOf
    <3> QED BY <2>1, <2>2, <2>3, <3>3
  <2> QED BY <1>6, <1>7, <1>10, <2>3, IndexedKept
<1>14. EventsInv'
  <2>1. \A z \in Sids : events'[z] # NoObj => z # s
    BY <1>0, <1>3 DEF StoreInv
  <2>2. \A z \in Sids : z # s => ~Dropping(tasks[t], z)
    BY <1>0, <1>2 DEF Dropping
  <2> QED BY <1>6, <1>9, <1>10, <2>1, <2>2, EventsKept
<1> QED BY <1>5, <1>6, <1>7, <1>9, <1>10, <1>12, <1>13, <1>14, FadeStep

(* The user of a created object. *)
LEMMA CreatedUser ==
    ASSUME SessionsInv, NEW o \in Created
    PROVE  o \in Objs /\ objs[o].sid \in Sids /\ UserOf(o) \in Users
<1>1. o \in Objs /\ objs[o].sid \in Sids /\ objs[o].cred \in Creds
  BY DEF SessionsInv, ObjsInv, ObjOK, Created
<1> QED BY <1>1, OwnerAssumption DEF UserOf

(* One of the sessions of a user that are being removed leaves the store. *)
LEMMA BulkRemoveInv ==
    ASSUME SessionsInv, NEW t \in Tasks, NEW o \in Objs, BulkRemove(t, o)
    PROVE  SessionsInv'
<1>0. /\ tasks[t].pc = "each" /\ tasks[t] \in Task /\ TaskOK(tasks[t]) /\ TasksInv /\ StoreInv
      /\ tasks[t].work \cup tasks[t].closing \subseteq Created /\ o \in tasks[t].work
      /\ IndexInv /\ UNCHANGED <<events, index, tombs, objs, disabled, temps>>
  BY DEF SessionsInv, TasksInv, BulkRemove, TaskOK
<1>1. o \in Created /\ UserOf(o) \in tasks[t].users
  BY <1>0 DEF TaskOK
<1>2. PICK s \in Sids, u \in Users : u = UserOf(o) /\ s = objs[o].sid
  BY <1>1, CreatedUser
<1>3. store' = [store EXCEPT ![s] = NoObj]
  BY <1>2 DEF BulkRemove
<1>4. PICK r \in Task : /\ tasks' = [tasks EXCEPT ![t] = r] /\ r.pc = "each" /\ r.obj = tasks[t].obj
                        /\ r.work = tasks[t].work \ {o} /\ r.closing = tasks[t].closing \cup {o}
                        /\ r.users = tasks[t].users
  <2>1. PICK r : r = [tasks[t] EXCEPT !.work = @ \ {o}, !.closing = @ \cup {o}]
    OBVIOUS
  <2>2. tasks' = [tasks EXCEPT ![t] = r]
    BY <1>0, <2>1 DEF BulkRemove, TasksInv
  <2>3. /\ r \in Task /\ r.pc = "each" /\ r.obj = tasks[t].obj
        /\ r.work = tasks[t].work \ {o} /\ r.closing = tasks[t].closing \cup {o}
        /\ r.users = tasks[t].users
    BY <1>0, <2>1 DEF Task
  <2> QED BY <2>2, <2>3
<1>5. (disabled \subseteq Users)' /\ (temps \subseteq Users)'
  BY <1>0, SameUsers
<1>6. Fade /\ (\A x \in Objs : objs'[x].trig => Matter(x))
  BY <1>0, NoFade
<1>7. TombsInv' /\ Created' = Created /\ \A x \in Objs : UserOf(x)' = UserOf(x)
  BY <1>0, <1>5, <1>6, SameTombs, FadeObjs DEF SessionsInv
<1>8. Shrink /\ \A z \in Sids : z # s => store'[z] = store[z]
  BY <1>0, <1>3 DEF Shrink, StoreInv, IndexInv, NoObj
<1>9. TaskOK(r)'
  <2>1. TaskOK(tasks[t])
    BY <1>0
  <2>2. \A x \in r.work : UserOf(x)' \in r.users
    BY <1>0, <1>4, <1>7 DEF TaskOK, Created
  <2>3. ASSUME NEW z \in Sids, store'[z] # NoObj, UserOf(store[z])' \in r.users,
               ~objs'[store'[z]].raced
        PROVE  store'[z] \in r.work
    <3>1. z # s
      BY <1>0, <1>3, <2>3 DEF StoreInv
    <3>2. PICK x \in Objs : x = store[z] /\ x = store'[z] /\ objs[x].sid = z
      BY <1>0, <1>8, <2>3, <3>1 DEF StoreInv, Created
    <3>3. UserOf(x)' \in tasks[t].users /\ ~objs[x].raced
      BY <1>4, <1>6, <2>3, <3>2 DEF Fade
    <3>4. UserOf(store[z]) \in tasks[t].users /\ ~objs[store[z]].raced /\ store[z] # NoObj
      BY <1>7, <2>3, <3>2, <3>3
    <3>5. x \in tasks[t].work
      BY <1>0, <3>2, <3>4 DEF TaskOK
    <3> QED BY <1>2, <1>4, <3>1, <3>2, <3>5
  <2>4. (r.obj # NoObj => r.obj \in Created) /\ r.work \cup r.closing \subseteq Created
    BY <1>0, <1>1, <1>4 DEF TaskOK
  <2> QED BY <1>4, <1>7, <2>2, <2>3, <2>4 DEF TaskOK
<1>10. TasksMove /\ tasks'[t] = r /\ \A p \in Tasks : p # t => tasks'[p] = tasks[p]
  BY <1>4, <1>9, OneTask
<1>11. ASSUME NEW v \in Users, NEW z \in index'[v] PROVE store'[z] # NoObj \/ BulkOf(v)'
  <2>1. z \in index[v] /\ z \in Sids
    BY <1>0, <1>11 DEF IndexInv
  <2>2. CASE z = s
    <3>1. v = u
      BY <1>2, <2>1, <2>2, IndexOwner
    <3> QED BY <1>1, <1>2, <1>4, <1>10, <3>1 DEF BulkOf
  <2>3. CASE z # s
    <3>1. store[z] # NoObj \/ BulkOf(v)
      BY <1>0, <2>1 DEF IndexInv
    <3>2. BulkOf(v) => BulkOf(v)'
      BY <1>4, <1>10 DEF BulkOf
    <3> QED BY <1>8, <2>1, <2>3, <3>1, <3>2
  <2> QED BY <2>2, <2>3
<1>12. Indexed'
  BY <1>0, <1>6, <1>7, <1>8, IndexedKept
<1>13. EventsInv'
  <2>1. ASSUME NEW z \in Sids, events'[z] # NoObj, store[z] = events[z] \/ Dropping(tasks[t], z)
        PROVE  store'[z] = events[z] \/ Dropping(tasks[t], z)'
    <3>1. CASE z = s
      BY <1>0, <1>2, <1>4, <1>10, <3>1 DEF Dropping
    <3>2. CASE z # s /\ Dropping(tasks[t], z)
      BY <1>0, <1>4, <1>10, <3>2 DEF Dropping
    <3>3. CASE z # s /\ store[z] = events[z]
      BY <1>8, <3>3
    <3> QED BY <2>1, <3>1, <3>2, <3>3
  <2> QED BY <1>6, <1>8, <1>10, <2>1, EventsKept
<1> QED BY <1>5, <1>6, <1>7, <1>8, <1>10, <1>11, <1>12, <1>13, FadeStep

(* One of them is closed. *)
LEMMA BulkCloseInv ==
    ASSUME SessionsInv, NEW t \in Tasks, NEW o \in Objs, BulkClose(t, o)
    PROVE  SessionsInv'
<1>0. /\ tasks[t].pc = "each" /\ tasks[t] \in Task /\ TaskOK(tasks[t]) /\ TasksInv /\ StoreInv
      /\ tasks[t].work \cup tasks[t].closing \subseteq Created /\ o \in tasks[t].closing
      /\ IndexInv /\ UNCHANGED <<store, index, tombs, disabled, temps>>
  BY DEF SessionsInv, TasksInv, BulkClose, TaskOK
<1>1. o \in Created
  BY <1>0
<1>2. PICK s \in Sids : s = objs[o].sid
  BY <1>1, CreatedUser
<1>3. events' = [events EXCEPT ![s] = NoObj] /\ objs' = [objs EXCEPT ![o].st = "closed"]
  BY <1>2 DEF BulkClose
<1>4. PICK r \in Task : /\ tasks' = [tasks EXCEPT ![t] = r] /\ r.pc = "each" /\ r.obj = tasks[t].obj
                        /\ r.work = tasks[t].work /\ r.closing = tasks[t].closing \ {o}
                        /\ r.users = tasks[t].users
  <2>1. PICK r : r = [tasks[t] EXCEPT !.closing = @ \ {o}]
    OBVIOUS
  <2>2. tasks' = [tasks EXCEPT ![t] = r]
    BY <1>0, <2>1 DEF BulkClose, TasksInv
  <2>3. /\ r \in Task /\ r.pc = "each" /\ r.obj = tasks[t].obj
        /\ r.work = tasks[t].work /\ r.closing = tasks[t].closing \ {o}
        /\ r.users = tasks[t].users
    BY <1>0, <2>1 DEF Task
  <2> QED BY <2>2, <2>3
<1>5. (disabled \subseteq Users)' /\ (temps \subseteq Users)'
  BY <1>0, SameUsers
<1>6. Fade /\ (\A x \in Objs : objs'[x].trig => Matter(x))
  BY <1>1, <1>3, CloseFade
<1>7. TombsInv' /\ Created' = Created /\ \A x \in Objs : UserOf(x)' = UserOf(x)
  BY <1>0, <1>5, <1>6, SameTombs, FadeObjs DEF SessionsInv
<1>8. Shrink
  BY <1>0, <1>3 DEF Shrink, StoreInv, IndexInv, NoObj
<1>9. TaskOK(r)'
  <2>1. \A x \in r.work : UserOf(x)' \in r.users
    BY <1>0, <1>4, <1>7 DEF TaskOK, Created
  <2>2. ASSUME NEW z \in Sids, store'[z] # NoObj, UserOf(store[z])' \in r.users,
               ~objs'[store'[z]].raced
        PROVE  store'[z] \in r.work
    <3>1. PICK x \in Objs : x = store[z] /\ x = store'[z]
      BY <1>0, <2>2 DEF StoreInv, Created
    <3> QED BY <1>0, <1>4, <1>6, <1>7, <2>2, <3>1 DEF TaskOK, Fade
  <2>3. (r.obj # NoObj => r.obj \in Created) /\ r.work \cup r.closing \subseteq Created
    BY <1>0, <1>4 DEF TaskOK
  <2> QED BY <1>4, <1>7, <2>1, <2>2, <2>3 DEF TaskOK
<1>10. TasksMove /\ tasks'[t] = r /\ \A p \in Tasks : p # t => tasks'[p] = tasks[p]
  BY <1>4, <1>9, OneTask
<1>11. ASSUME NEW v \in Users, NEW z \in index'[v] PROVE store'[z] # NoObj \/ BulkOf(v)'
  <2>1. store[z] # NoObj \/ BulkOf(v)
    BY <1>0, <1>11 DEF IndexInv
  <2>2. BulkOf(v) => BulkOf(v)'
    BY <1>4, <1>10 DEF BulkOf
  <2> QED BY <1>0, <2>1, <2>2
<1>12. Indexed'
  BY <1>0, <1>6, <1>7, <1>8, IndexedKept
<1>13. EventsInv'
  <2>1. ASSUME NEW z \in Sids, events'[z] # NoObj, store[z] = events[z] \/ Dropping(tasks[t], z)
        PROVE  store'[z] = events[z] \/ Dropping(tasks[t], z)'
    <3>1. z # s
      BY <1>0, <1>3, <2>1 DEF StoreInv
    <3>2. CASE store[z] = events[z]
      BY <1>0, <3>2
    <3>3. CASE Dropping(tasks[t], z)
      <4>1. PICK x \in tasks[t].work \cup tasks[t].closing : objs[x].sid = z
        BY <1>0, <3>3 DEF Dropping
      <4>2. x # o /\ x \in Objs /\ x \in r.work \cup r.closing
        BY <1>0, <1>2, <1>4, <3>1, <4>1 DEF Created
      <4>3. objs'[x].sid = z
        BY <1>6, <4>1, <4>2 DEF Fade
      <4> QED BY <1>4, <1>10, <4>2, <4>3 DEF Dropping
    <3> QED BY <2>1, <3>2, <3>3
  <2> QED BY <1>6, <1>8, <1>10, <2>1, EventsKept
<1> QED BY <1>5, <1>6, <1>7, <1>8, <1>10, <1>11, <1>12, <1>13, FadeStep


(* The user's set is dropped. *)
LEMMA BulkEndInv ==
    ASSUME SessionsInv, NEW t \in Tasks, BulkEnd(t)
    PROVE  SessionsInv'
<1>0. /\ tasks[t].pc = "each" /\ tasks[t] \in Task /\ TaskOK(tasks[t]) /\ TasksInv /\ StoreInv
      /\ tasks[t].work = {} /\ tasks[t].closing = {} /\ IndexInv
      /\ UNCHANGED <<store, events, tombs, objs, disabled, temps>>
  BY DEF SessionsInv, TasksInv, BulkEnd, TaskOK
<1>1. index' = [u \in Users |-> IF u \in tasks[t].users THEN {} ELSE index[u]]
  BY DEF BulkEnd
<1>2. PICK r \in Task : /\ tasks' = [tasks EXCEPT ![t] = r] /\ r.pc = "temp" /\ r.obj = tasks[t].obj
                        /\ r.work = {} /\ r.closing = {}
  <2>1. PICK r : r = [tasks[t] EXCEPT !.pc = "temp", !.users = @ \cap temps]
    OBVIOUS
  <2>2. tasks' = [tasks EXCEPT ![t] = r]
    BY <1>0, <2>1 DEF BulkEnd, TasksInv
  <2>3. r \in Task /\ r.pc = "temp" /\ r.obj = tasks[t].obj /\ r.work = {} /\ r.closing = {}
    BY <1>0, <2>1 DEF Task
  <2> QED BY <2>2, <2>3
<1>3. (disabled \subseteq Users)' /\ (temps \subseteq Users)'
  BY <1>0, SameUsers
<1>4. Fade /\ (\A o \in Objs : objs'[o].trig => Matter(o))
  BY <1>0, NoFade
<1>5. TombsInv' /\ Created' = Created /\ \A o \in Objs : UserOf(o)' = UserOf(o)
  BY <1>0, <1>3, <1>4, SameTombs, FadeObjs DEF SessionsInv
<1>6. TaskOK(r)'
  BY <1>0, <1>2, <1>5 DEF TaskOK
<1>7. TasksMove /\ tasks'[t] = r /\ \A p \in Tasks : p # t => tasks'[p] = tasks[p]
  BY <1>2, <1>6, OneTask
<1>8. Shrink
  BY <1>0, <1>1 DEF Shrink, StoreInv, IndexInv
<1>9. ASSUME NEW v \in Users, NEW z \in index'[v] PROVE store'[z] # NoObj \/ BulkOf(v)'
  <2>1. z \in index[v] /\ v \notin tasks[t].users
    BY <1>1, <1>9
  <2>2. store[z] # NoObj \/ BulkOf(v)
    BY <1>0, <2>1 DEF IndexInv
  <2>3. BulkOf(v) => BulkOf(v)'
    BY <1>7, <2>1 DEF BulkOf
  <2> QED BY <1>0, <2>2, <2>3
<1>10. Indexed'
  <2>1. ASSUME NEW z \in Sids, store'[z] # NoObj, ~objs[store[z]].raced, z \in index[UserOf(store[z])]
        PROVE  z \in index'[UserOf(store[z])]
    <3>1. PICK o \in Created : o = store[z]
      BY <1>0, <2>1 DEF StoreInv
    <3>2. UserOf(o) \in Users
      BY <3>1, CreatedUser
    <3>3. UserOf(store[z]) \notin tasks[t].users
      BY <1>0, <2>1 DEF TaskOK
    <3> QED BY <1>1, <2>1, <3>1, <3>2, <3>3
  <2> QED BY <1>4, <1>5, <1>8, <2>1, IndexedKept
<1>11. EventsInv'
  <2>1. \A z \in Sids : ~Dropping(tasks[t], z)
    BY <1>0 DEF Dropping
  <2> QED BY <1>0, <1>4, <1>7, <1>8, <2>1, EventsKept
<1> QED BY <1>3, <1>4, <1>5, <1>7, <1>8, <1>9, <1>10, <1>11, FadeStep

(* All maps are emptied. *)
LEMMA ClearEndInv ==
    ASSUME SessionsInv, NEW t \in Tasks, ClearEnd(t)
    PROVE  SessionsInv'
<1>0. /\ store' = [s \in Sids |-> NoObj] /\ events' = [s \in Sids |-> NoObj]
      /\ index' = [u \in Users |-> {}] /\ tasks' = Rest(t)
      /\ UNCHANGED <<tombs, objs, disabled, temps>>
  BY DEF ClearEnd
<1>1. (disabled \subseteq Users)' /\ (temps \subseteq Users)'
  BY <1>0, SameUsers
<1>2. Fade
  BY <1>0, NoFade
<1>3. TombsInv'
  BY <1>0, <1>1, <1>2, SameTombs
<1>4. PICK r \in Task : /\ tasks' = [tasks EXCEPT ![t] = r]
                        /\ r.pc \in {"idle", "sweep"} /\ r.obj = NoObj
                        /\ r.work = {} /\ r.closing = {}
  BY <1>0, RestOK
<1>5. TaskOK(r)'
  BY <1>4 DEF TaskOK
<1>6. TasksMove
  BY <1>4, <1>5, OneTask
<1>7. Shrink
  BY <1>0 DEF Shrink, SessionsInv, StoreInv, IndexInv, NoObj
<1>8. Indexed' /\ EventsInv'
  BY <1>0 DEF Indexed, EventsInv
<1> QED BY <1>0, <1>1, <1>2, <1>3, <1>6, <1>7, <1>8, FadeStep


(* The object that a task is creating. *)
LEMMA NewObject ==
    ASSUME SessionsInv, NEW t \in Tasks, tasks[t].pc = "create"
    PROVE  /\ tasks[t].obj \in Objs /\ objs[tasks[t].obj] \in Obj
           /\ objs[tasks[t].obj].st = "new" /\ ~objs[tasks[t].obj].trig
           /\ objs[tasks[t].obj].sid \in Sids /\ objs[tasks[t].obj].cred \in Creds
           /\ UserOf(tasks[t].obj) \in Users /\ tasks[t].obj \notin Created
           /\ tasks[t].obj \in Open
           /\ events[objs[tasks[t].obj].sid] \in {tasks[t].obj, NoObj}
<1>1. PICK o \in Objs : o = tasks[t].obj /\ objs[o].st = "new" /\ events[objs[o].sid] \in {o, NoObj}
  BY DEF SessionsInv, TasksInv, TaskOK
<1>2. objs[o] \in Obj /\ ~objs[o].trig /\ objs[o].sid \in Sids /\ objs[o].cred \in Creds
  BY <1>1 DEF SessionsInv, ObjsInv, ObjOK
<1>3. UserOf(o) \in Users
  BY <1>2, OwnerAssumption DEF UserOf
<1>4. o \notin Created /\ o \in Open
  BY <1>1, <1>2 DEF Created, Open
<1> QED BY <1>1, <1>2, <1>3, <1>4

(* A task becomes idle while an object that is being created gets another  *)
(* state.                                                                  *)
NewObjectSteps(t, o, n) ==
    /\ n \in Obj /\ n.sid = objs[o].sid /\ n.cred = objs[o].cred
    /\ objs' = [objs EXCEPT ![o] = n] /\ tasks' = [tasks EXCEPT ![t] = IdleTask]
    /\ UNCHANGED <<events, tombs, disabled, temps>>

(* The objects and the tombstones are as before, but for that state. *)
LEMMA NewObjectObjs ==
    ASSUME SessionsInv, NEW t \in Tasks, tasks[t].pc = "create", NEW o \in Objs, o = tasks[t].obj,
           NEW n \in Obj, n.st \in {"live", "closed"}, ~n.trig, NewObjectSteps(t, o, n)
    PROVE  /\ ObjsInv' /\ TombsInv' /\ Created' = Created \cup {o}
           /\ objs'[o] = n /\ \A x \in Objs : x # o => objs'[x] = objs[x]
           /\ \A x \in Objs : objs'[x].sid = objs[x].sid /\ UserOf(x)' = UserOf(x)
           /\ tasks' \in [Tasks -> Task] /\ tasks'[t] = IdleTask
           /\ \A p \in Tasks : p # t => tasks'[p] = tasks[p]
<1> USE DEF SessionsInv
<1>1. /\ o \in Objs /\ objs[o].st = "new" /\ ~objs[o].trig /\ o \in Open
      /\ objs[o].sid \in Sids /\ objs[o].cred \in Creds
  BY NewObject
<1>2. /\ objs' \in [Objs -> Obj] /\ objs'[o] = n
      /\ \A x \in Objs : x # o => objs'[x] = objs[x]
  BY <1>1 DEF NewObjectSteps, ObjsInv
<1>3. \A x \in Objs : objs'[x].sid = objs[x].sid /\ objs'[x].cred = objs[x].cred
  BY <1>2 DEF NewObjectSteps
<1>4. \A x \in Objs : UserOf(x)' = UserOf(x)
  BY <1>3 DEF UserOf
<1>5. Created' = Created \cup {o}
  BY <1>1, <1>2 DEF Created
<1>6. \A x \in Open' : x \in Objs /\ x \in Open
  <2>1. \A x \in Objs : x # o /\ x \in Open' => x \in Open
    BY <1>2 DEF Open
  <2> QED BY <1>1, <2>1 DEF Open
<1>7. ASSUME NEW x \in Objs PROVE ObjOK(x)'
  <2>1. CASE x = o
    BY <1>1, <1>2, <2>1 DEF ObjOK, NewObjectSteps
  <2>2. CASE x # o
    BY <1>2, <2>2 DEF ObjOK, ObjsInv
  <2> QED BY <2>1, <2>2
<1>8. ReuseKeepsOwner' /\ OneOpenPerId'
  BY <1>3, <1>6 DEF ObjsInv, ReuseKeepsOwner, OneOpenPerId
<1>9. ObjsInv'
  BY <1>2, <1>7, <1>8 DEF ObjsInv, NewObjectSteps
<1>10. TombsInv'
  <2>1. Used' = Used
    BY <1>3 DEF Used
  <2>2. ASSUME NEW s \in Sids, tombs'[s] # NoCred, NEW x \in Objs, objs'[x].sid = s
        PROVE  objs'[x].cred = tombs'[s] /\ x \notin Open'
    BY <1>3, <1>6, <2>2 DEF TombsInv, NewObjectSteps
  <2> QED BY <2>1, <2>2 DEF TombsInv, NewObjectSteps
<1>11. /\ tasks' \in [Tasks -> Task] /\ tasks'[t] = IdleTask
       /\ \A p \in Tasks : p # t => tasks'[p] = tasks[p]
  BY IdleTaskOK DEF NewObjectSteps, TasksInv
<1> QED BY <1>2, <1>3, <1>4, <1>5, <1>9, <1>10, <1>11

(* So are the tasks, if the sessions that have been listed for removal are *)
(* still all there are.                                                    *)
LEMMA NewObjectTasks ==
    ASSUME SessionsInv, NEW t \in Tasks, tasks[t].pc = "create", NEW o \in Objs, o = tasks[t].obj,
           NEW n \in Obj, n.st \in {"live", "closed"}, ~n.trig, NewObjectSteps(t, o, n),
           \A s \in Sids : store'[s] # store[s] =>
              store'[s] = o /\ (n.raced \/ ~BulkOf(UserOf(o)))
    PROVE  TasksInv'
<1> USE DEF SessionsInv
<1>1. /\ ObjsInv' /\ TombsInv' /\ Created' = Created \cup {o}
      /\ objs'[o] = n /\ \A x \in Objs : x # o => objs'[x] = objs[x]
      /\ \A x \in Objs : objs'[x].sid = objs[x].sid /\ UserOf(x)' = UserOf(x)
      /\ tasks' \in [Tasks -> Task] /\ tasks'[t] = IdleTask
      /\ \A p \in Tasks : p # t => tasks'[p] = tasks[p]
  <2> HIDE DEF SessionsInv
  <2> QED BY NewObjectObjs
<1>2. o \in Objs /\ o \notin Created
  BY NewObject
<1>3. UNCHANGED events
  BY DEF NewObjectSteps
<1>4. ASSUME NEW p \in Tasks PROVE TaskOK(tasks[p])'
  <2>1. CASE p = t
    <3>1. PICK r \in Task : r = IdleTask /\ r = tasks'[p]
      BY <1>1, <2>1, IdleTaskOK
    <3>2. TaskOK(r)'
      BY <3>1, IdleTaskOK DEF TaskOK
    <3> QED BY <3>1, <3>2
  <2>2. CASE p # t
    <3>1. PICK r \in Task : r = tasks[p] /\ r = tasks'[p]
      BY <1>1, <2>2 DEF TasksInv
    <3>2. TaskOK(r)
      BY <3>1 DEF TasksInv
    <3>3. r.pc = "create" => r.obj # o
      BY <2>2, <3>1 DEF TasksInv, OneCreator
    <3>4. r.pc = "create" => /\ r.obj \in Objs /\ objs'[r.obj].st = "new"
                             /\ events'[objs'[r.obj].sid] \in {r.obj, NoObj}
      BY <1>1, <1>3, <3>2, <3>3 DEF TaskOK
    <3>5. r.pc = "cleanup" => r.sid = objs'[r.obj].sid
      BY <1>1, <3>2 DEF TaskOK, Created
    <3>6. r.pc = "each" => \A x \in r.work : UserOf(x)' \in r.users
      BY <1>1, <3>2 DEF TaskOK, Created
    <3>7. ASSUME r.pc = "each", NEW z \in Sids, store'[z] # NoObj, UserOf(store[z])' \in r.users,
                 ~objs'[store'[z]].raced
          PROVE  store'[z] \in r.work
      <4>1. CASE store'[z] # store[z]
        <5>1. store'[z] = o /\ (n.raced \/ ~BulkOf(UserOf(o)))
          BY <4>1
        <5>2. UserOf(o)' \in r.users
          BY <3>7, <5>1
        <5>3. UserOf(o) \in r.users
          BY <1>1, <1>2, <5>2
        <5>4. BulkOf(UserOf(o))
          BY <3>1, <3>7, <5>3 DEF BulkOf
        <5> QED BY <1>1, <3>7, <5>1, <5>4
      <4>2. CASE store'[z] = store[z]
        <5>1. PICK x \in Created : x = store[z] /\ x = store'[z]
          BY <3>7, <4>2 DEF StoreInv
        <5>2. x \in Objs /\ x # o
          BY <1>2 DEF Created
        <5>3. UserOf(x)' \in r.users /\ ~objs[x].raced
          BY <1>1, <3>7, <5>1, <5>2
        <5>4. UserOf(store[z]) \in r.users /\ ~objs[store[z]].raced /\ store[z] # NoObj
          BY <1>1, <3>7, <5>1, <5>2, <5>3
        <5> QED BY <3>2, <3>7, <5>1, <5>4 DEF TaskOK
      <4> QED BY <4>1, <4>2
    <3>8. TaskOK(r)'
      BY <1>1, <3>2, <3>4, <3>5, <3>6, <3>7 DEF TaskOK
    <3> QED BY <3>1, <3>8
  <2> QED BY <2>1, <2>2
<1>5. OneCreator'
  BY <1>1, IdleTaskOK DEF TasksInv, OneCreator
<1> QED BY <1>1, <1>4, <1>5 DEF TasksInv


(* The creation of a session fails. *)
LEMMA CreateFailsInv ==
    ASSUME SessionsInv, NEW t \in Tasks, CreateFails(t)
    PROVE  SessionsInv'
<1>1. /\ tasks[t].pc = "create" /\ tasks' = [tasks EXCEPT ![t] = IdleTask]
      /\ objs' = [objs EXCEPT ![tasks[t].obj].st = "closed"]
      /\ UNCHANGED <<store, events, index, tombs, disabled, temps>>
  BY DEF CreateFails
<1>2. PICK o \in Objs : o = tasks[t].obj /\ objs[o] \in Obj /\ ~objs[o].trig /\ o \notin Created
  BY <1>1, NewObject
<1>3. PICK n \in Obj : /\ n = [objs[o] EXCEPT !.st = "closed"]
                       /\ n.st = "closed" /\ ~n.trig /\ n.sid = objs[o].sid /\ n.cred = objs[o].cred
  <2>1. PICK n : n = [objs[o] EXCEPT !.st = "closed"]
    OBVIOUS
  <2>2. n \in Obj
    BY <1>2, <2>1 DEF Obj
  <2>3. n.st = "closed" /\ n.trig = objs[o].trig /\ n.sid = objs[o].sid /\ n.cred = objs[o].cred
    BY <1>2, <2>1 DEF Obj
  <2> QED BY <1>2, <2>1, <2>2, <2>3
<1>4. NewObjectSteps(t, o, n)
  <2>1. objs' = [objs EXCEPT ![o] = n]
    BY <1>1, <1>2, <1>3 DEF SessionsInv, ObjsInv
  <2> QED BY <1>1, <1>3, <2>1 DEF NewObjectSteps
<1>5. /\ ObjsInv' /\ TombsInv' /\ Created' = Created \cup {o}
      /\ objs'[o] = n /\ \A x \in Objs : x # o => objs'[x] = objs[x]
      /\ \A x \in Objs : objs'[x].sid = objs[x].sid /\ UserOf(x)' = UserOf(x)
      /\ tasks' \in [Tasks -> Task] /\ tasks'[t] = IdleTask
      /\ \A p \in Tasks : p # t => tasks'[p] = tasks[p]
  <2>1. n.st \in {"live", "closed"} /\ ~n.trig /\ o = tasks[t].obj /\ tasks[t].pc = "create"
    BY <1>1, <1>2, <1>3
  <2> QED BY <1>4, <2>1, NewObjectObjs
<1>6. TasksInv'
  <2>1. n.st \in {"live", "closed"}
    BY <1>3
  <2>2. \A s \in Sids : store'[s] # store[s] => store'[s] = o /\ (n.raced \/ ~BulkOf(UserOf(o)))
    BY <1>1
  <2> QED BY <1>1, <1>2, <1>3, <1>4, <2>1, <2>2, NewObjectTasks
<1> USE DEF SessionsInv
<1>7. StoreInv'
  BY <1>1, <1>5 DEF StoreInv, Created
<1>8. IndexInv'
  <2>1. \A u \in Users : BulkOf(u) => BulkOf(u)'
    BY <1>1, <1>5 DEF BulkOf
  <2>2. ASSUME NEW u \in Users, NEW s \in index'[u]
        PROVE  (\E x \in Objs : objs'[x].sid = s /\ UserOf(x)' = u) /\ (store'[s] # NoObj \/ BulkOf(u)')
    <3>1. s \in index[u]
      BY <1>1
    <3>2. PICK x \in Objs : objs[x].sid = s /\ UserOf(x) = u
      BY <3>1 DEF IndexInv
    <3> QED BY <1>1, <1>5, <2>1, <3>1, <3>2 DEF IndexInv
  <2> QED BY <1>1, <2>2 DEF IndexInv
<1>9. Indexed'
  <2> SUFFICES ASSUME NEW s \in Sids, store'[s] # NoObj, ~objs'[store'[s]].raced
               PROVE  s \in index'[UserOf(store[s])']
    BY DEF Indexed
  <2>1. PICK x \in Created : x = store[s] /\ x = store'[s]
    BY <1>1 DEF StoreInv
  <2>2. x \in Objs /\ objs'[x] = objs[x] /\ UserOf(x)' = UserOf(x)
    BY <1>2, <1>5 DEF Created
  <2>3. s \in index[UserOf(x)]
    BY <2>1, <2>2 DEF Indexed
  <2>4. s \in index'[UserOf(x)']
    BY <1>1, <2>2, <2>3
  <2> QED BY <2>1, <2>4
<1>10. EventsInv'
  <2> SUFFICES ASSUME NEW s \in Sids, events'[s] # NoObj, Matter(events[s])'
               PROVE  store'[s] = events'[s] \/ \E p \in Tasks : Dropping(tasks[p], s)'
    BY DEF EventsInv
  <2>1. PICK x \in Objs : x = events[s] /\ x = events'[s]
    BY <1>1 DEF StoreInv
  <2>2. Matter(x)'
    BY <2>1
  <2>3. x # o
    BY <1>3, <1>5, <2>2 DEF Matter
  <2>4. Matter(x)
    BY <1>5, <2>2, <2>3 DEF Matter
  <2>5. CASE store[s] = x
    BY <1>1, <2>1, <2>5
  <2>6. CASE \E p \in Tasks : Dropping(tasks[p], s)
    <3>1. PICK p \in Tasks : Dropping(tasks[p], s)
      BY <2>6
    <3>2. p # t
      BY <1>1, <3>1 DEF Dropping
    <3>3. PICK r \in Task : r = tasks[p] /\ r = tasks'[p]
      BY <1>5, <3>2 DEF TasksInv
    <3>4. r.work \cup r.closing \subseteq Objs
      BY DEF Task
    <3>5. Dropping(r, s)'
      BY <1>5, <3>1, <3>3, <3>4 DEF Dropping
    <3> QED BY <3>3, <3>5
  <2> QED BY <2>1, <2>4, <2>5, <2>6 DEF EventsInv
<1> QED BY <1>5, <1>6, <1>7, <1>8, <1>9, <1>10

(* A session is stored. *)
LEMMA CreateInv ==
    ASSUME SessionsInv, NEW t \in Tasks, Create(t)
    PROVE  SessionsInv'
<1>1. tasks[t].pc = "create" /\ UNCHANGED <<events, tombs, disabled, temps>>
  BY DEF Create
<1>2. PICK o \in Objs, k \in Sids, u \in Users :
         /\ o = tasks[t].obj /\ objs[o] \in Obj /\ ~objs[o].trig /\ o \notin Created
         /\ k = objs[o].sid /\ u = UserOf(o) /\ events[k] \in {o, NoObj} /\ o # NoObj
  BY <1>1, NewObject DEF Objs, NoObj
<1>3. /\ store' = [store EXCEPT ![k] = o] /\ index' = [index EXCEPT ![u] = @ \cup {k}]
      /\ objs' = [objs EXCEPT ![o].st = "live", ![o].raced = BulkOf(u)]
      /\ tasks' = [tasks EXCEPT ![t] = IdleTask]
  BY <1>2 DEF Create
<1>4. PICK n \in Obj : /\ n = [objs[o] EXCEPT !.st = "live", !.raced = BulkOf(u)]
                       /\ n.st = "live" /\ ~n.trig /\ n.sid = k /\ n.cred = objs[o].cred
                       /\ n.raced = BulkOf(u)
  <2>1. PICK b \in BOOLEAN : b = BulkOf(u)
    BY DEF BulkOf
  <2>2. PICK n : n = [objs[o] EXCEPT !.st = "live", !.raced = b]
    OBVIOUS
  <2>3. n \in Obj
    BY <1>2, <2>2 DEF Obj
  <2>4. n.st = "live" /\ n.trig = objs[o].trig /\ n.sid = k /\ n.cred = objs[o].cred /\ n.raced = b
    BY <1>2, <2>2 DEF Obj
  <2> QED BY <1>2, <2>1, <2>2, <2>3, <2>4
<1>5. NewObjectSteps(t, o, n)
  <2>1. objs' = [objs EXCEPT ![o] = n]
    BY <1>2, <1>3, <1>4 DEF SessionsInv, ObjsInv
  <2> QED BY <1>1, <1>2, <1>3, <1>4, <2>1 DEF NewObjectSteps
<1>6. /\ ObjsInv' /\ TombsInv' /\ Created' = Created \cup {o}
      /\ objs'[o] = n /\ \A x \in Objs : x # o => objs'[x] = objs[x]
      /\ \A x \in Objs : objs'[x].sid = objs[x].sid /\ UserOf(x)' = UserOf(x)
      /\ tasks' \in [Tasks -> Task] /\ tasks'[t] = IdleTask
      /\ \A p \in Tasks : p # t => tasks'[p] = tasks[p]
  <2>1. n.st \in {"live", "closed"} /\ ~n.trig /\ o = tasks[t].obj /\ tasks[t].pc = "create"
    BY <1>1, <1>2, <1>4
  <2> QED BY <1>5, <2>1, NewObjectObjs
<1>7. /\ store' \in [Sids -> Objs \cup {NoObj}] /\ store'[k] = o
      /\ \A s \in Sids : s # k => store'[s] = store[s]
  BY <1>3 DEF SessionsInv, StoreInv
<1>8. TasksInv'
  <2>1. n.st \in {"live", "closed"}
    BY <1>4
  <2>2. \A s \in Sids : store'[s] # store[s] => store'[s] = o /\ (n.raced \/ ~BulkOf(UserOf(o)))
    BY <1>2, <1>4, <1>7
  <2> QED BY <1>1, <1>2, <1>4, <1>5, <2>1, <2>2, NewObjectTasks
<1> USE DEF SessionsInv
<1>9. StoreInv'
  <2>1. \A s \in Sids : store'[s] # NoObj => store'[s] \in Created' /\ objs'[store'[s]].sid = s
    BY <1>2, <1>6, <1>7 DEF StoreInv, Created
  <2>2. \A s \in Sids : events'[s] # NoObj => objs'[events'[s]].sid = s
    BY <1>1, <1>6 DEF StoreInv
  <2> QED BY <1>1, <1>7, <2>1, <2>2 DEF StoreInv
<1>10. /\ index' \in [Users -> SUBSET Sids] /\ k \in index'[u]
       /\ \A v \in Users : index[v] \subseteq index'[v]
       /\ \A v \in Users : \A s \in index'[v] : s \in index[v] \/ (s = k /\ v = u)
  BY <1>3 DEF IndexInv
<1>11. IndexInv'
  <2>1. \A v \in Users : BulkOf(v) => BulkOf(v)'
    BY <1>1, <1>6 DEF BulkOf
  <2>2. ASSUME NEW v \in Users, NEW s \in index'[v]
        PROVE  (\E x \in Objs : objs'[x].sid = s /\ UserOf(x)' = v) /\ (store'[s] # NoObj \/ BulkOf(v)')
    <3>1. CASE s \in index[v]
      <4>1. PICK x \in Objs : objs[x].sid = s /\ UserOf(x) = v
        BY <3>1 DEF IndexInv
      <4>2. store[s] # NoObj \/ BulkOf(v)
        BY <3>1 DEF IndexInv
      <4>3. s \in Sids /\ (store[s] # NoObj => store'[s] # NoObj)
        BY <1>2, <1>7, <3>1 DEF IndexInv
      <4> QED BY <1>6, <2>1, <4>1, <4>2, <4>3
    <3>2. CASE s = k /\ v = u
      BY <1>2, <1>6, <1>7, <3>2
    <3> QED BY <1>10, <2>2, <3>1, <3>2
  <2> QED BY <1>10, <2>2 DEF IndexInv
<1>12. Indexed'
  <2> SUFFICES ASSUME NEW s \in Sids, store'[s] # NoObj, ~objs'[store'[s]].raced
               PROVE  s \in index'[UserOf(store[s])']
    BY DEF Indexed
  <2>1. CASE s = k
    <3>1. UserOf(o)' = u
      BY <1>2, <1>6
    <3>2. UserOf(store[s])' = UserOf(o)'
      BY <1>7, <2>1
    <3> QED BY <1>10, <2>1, <3>1, <3>2
  <2>2. CASE s # k
    <3>1. PICK x \in Created : x = store[s] /\ x = store'[s]
      BY <1>7, <2>2 DEF StoreInv
    <3>2. x \in Objs /\ objs'[x] = objs[x] /\ UserOf(x)' = UserOf(x) /\ UserOf(x) \in Users
      BY <1>2, <1>6, CreatedUser DEF Created
    <3>3. s \in index[UserOf(x)]
      BY <3>1, <3>2 DEF Indexed
    <3>4. s \in index'[UserOf(x)']
      BY <1>10, <3>2, <3>3
    <3> QED BY <3>1, <3>4
  <2> QED BY <2>1, <2>2
<1>13. EventsInv'
  <2> SUFFICES ASSUME NEW s \in Sids, events'[s] # NoObj, Matter(events[s])'
               PROVE  store'[s] = events'[s] \/ \E p \in Tasks : Dropping(tasks[p], s)'
    BY DEF EventsInv
  <2>1. PICK x \in Objs : x = events[s] /\ x = events'[s] /\ objs[x].sid = s
    BY <1>1 DEF StoreInv
  <2>2. CASE s = k
    BY <1>1, <1>2, <1>7, <2>2
  <2>3. CASE s # k
    <3>1. Matter(x)'
      BY <2>1
    <3>2. x # o
      BY <1>2, <2>1, <2>3
    <3>3. Matter(x)
      BY <1>6, <3>1, <3>2 DEF Matter
    <3>4. CASE store[s] = x
      BY <1>7, <2>1, <2>3, <3>4
    <3>5. CASE \E p \in Tasks : Dropping(tasks[p], s)
      <4>1. PICK p \in Tasks : Dropping(tasks[p], s)
        BY <3>5
      <4>2. p # t
        BY <1>1, <4>1 DEF Dropping
      <4>3. PICK r \in Task : r = tasks[p] /\ r = tasks'[p]
        BY <1>6, <4>2 DEF TasksInv
      <4>4. r.work \cup r.closing \subseteq Objs
        BY DEF Task
      <4>5. Dropping(r, s)'
        BY <1>6, <4>1, <4>3, <4>4 DEF Dropping
      <4> QED BY <4>3, <4>5
    <3> QED BY <2>1, <3>3, <3>4, <3>5 DEF EventsInv
  <2> QED BY <2>2, <2>3
<1> QED BY <1>6, <1>8, <1>9, <1>11, <1>12, <1>13


(* An id that a request may take: nobody has it open, whoever had it has   *)
(* the identity of the request, and its tombstone is gone afterwards.      *)
LEMMA AdmittedSid ==
    ASSUME SessionsInv, NEW k \in Sids, NEW m \in Sids \cup {NoSid}, NEW c \in Creds,
           IF Matches(m, c) THEN k = m ELSE FreshSid(k),
           tombs' = Consumed(m, c)
    PROVE  /\ \A x \in Objs : objs[x].sid = k => objs[x].cred = c /\ x \notin Open
           /\ tombs' \in [Sids -> Creds \cup {NoCred}] /\ tombs'[k] = NoCred
           /\ \A s \in Sids : tombs'[s] \in {tombs[s], NoCred}
<1> USE DEF SessionsInv
<1>1. CASE Matches(m, c)
  <2>1. k = m /\ tombs[k] = c /\ c # NoCred /\ tombs' = [tombs EXCEPT ![k] = NoCred]
    BY <1>1, OwnerAssumption DEF Matches, Consumed
  <2> QED BY <2>1 DEF TombsInv
<1>2. CASE ~Matches(m, c)
  <2>1. k \notin Used /\ UNCHANGED tombs
    BY <1>2 DEF FreshSid, Consumed
  <2>2. \A x \in Objs : objs[x].sid # k
    BY <2>1 DEF Used
  <2>3. tombs[k] = NoCred
    BY <2>1 DEF TombsInv
  <2> QED BY <2>1, <2>2, <2>3 DEF TombsInv
<1> QED BY <1>1, <1>2

(* A request gets an id and an object, or finds the id taken. *)
LEMMA AdmitInv ==
    ASSUME SessionsInv, NEW t \in Tasks, Admit(t)
    PROVE  SessionsInv'
<1>0. /\ tasks[t].pc = "admit" /\ tasks[t] \in Task /\ tasks[t].cred \in Creds
      /\ tasks[t].sid \in Sids \cup {NoSid} /\ UNCHANGED <<store, index, disabled, temps>>
  BY DEF Admit, SessionsInv, TasksInv, TaskOK, Task
<1>1. PICK c \in Creds, m \in Sids \cup {NoSid} : c = tasks[t].cred /\ m = tasks[t].sid
  BY <1>0
<1>2. PICK k \in Sids :
         /\ IF Matches(m, c) THEN k = m ELSE FreshSid(k)
         /\ tombs' = Consumed(m, c)
         /\ \/ /\ store[k] # NoObj /\ tasks' = [tasks EXCEPT ![t] = IdleTask]
               /\ UNCHANGED <<objs, events>>
            \/ \E o \in FreeObjs :
                  /\ objs' = [objs EXCEPT ![o] = NewObj(k, c, "new")]
                  /\ events' = [events EXCEPT ![k] = o]
                  /\ tasks' = [tasks EXCEPT ![t] = [IdleTask EXCEPT !.pc = "create", !.obj = o]]
  BY <1>1 DEF Admit
<1>3. /\ \A x \in Objs : objs[x].sid = k => objs[x].cred = c /\ x \notin Open
      /\ tombs' \in [Sids -> Creds \cup {NoCred}] /\ tombs'[k] = NoCred
      /\ \A s \in Sids : tombs'[s] \in {tombs[s], NoCred}
  <2>1. (IF Matches(m, c) THEN k = m ELSE FreshSid(k)) /\ tombs' = Consumed(m, c)
    BY <1>2
  <2> QED BY <2>1, AdmittedSid
<1>4. (disabled \subseteq Users)' /\ (temps \subseteq Users)'
  BY <1>0, SameUsers
<1>5. CASE UNCHANGED <<objs, events>> /\ tasks' = [tasks EXCEPT ![t] = IdleTask]
  <2>1. TombsInv'
    <3>1. Fade
      BY <1>5, NoFade
    <3> QED BY <1>3, <1>4, <3>1, TombsFade DEF SessionsInv
  <2> QED BY <1>0, <1>4, <1>5, <2>1, IdleTaskOK, FreeTask
<1>6. ASSUME NEW o \in FreeObjs,
             objs' = [objs EXCEPT ![o] = NewObj(k, c, "new")],
             events' = [events EXCEPT ![k] = o],
             tasks' = [tasks EXCEPT ![t] = [IdleTask EXCEPT !.pc = "create", !.obj = o]]
      PROVE  SessionsInv'
  <2> USE DEF SessionsInv
  <2>1. o \in Objs /\ o # NoObj /\ objs[o].st = "free" /\ objs[o].sid = NoSid /\ objs[o].cred = NoCred
    BY DEF FreeObjs, ObjsInv, ObjOK, FreeObj, NewObj, Objs, NoObj
  <2>2. PICK n \in Obj : /\ n = NewObj(k, c, "new") /\ n.st = "new" /\ n.sid = k /\ n.cred = c
                         /\ n.trig = FALSE
    <3>1. NewObj(k, c, "new") \in Obj
      BY DEF NewObj, Obj
    <3>2. /\ NewObj(k, c, "new").st = "new" /\ NewObj(k, c, "new").sid = k
          /\ NewObj(k, c, "new").cred = c /\ NewObj(k, c, "new").trig = FALSE
      BY DEF NewObj
    <3> QED BY <3>1, <3>2
  <2>3. /\ objs' \in [Objs -> Obj] /\ objs'[o] = n
        /\ \A x \in Objs : x # o => objs'[x] = objs[x]
    BY <1>6, <2>1, <2>2 DEF ObjsInv
  <2>4. /\ events' \in [Sids -> Objs \cup {NoObj}] /\ events'[k] = o
        /\ \A s \in Sids : s # k => events'[s] = events[s]
    BY <1>6, <2>1 DEF StoreInv
  <2>5. PICK r \in Task : /\ r = [IdleTask EXCEPT !.pc = "create", !.obj = o]
                          /\ r.pc = "create" /\ r.obj = o /\ r.work = {} /\ r.closing = {}
    <3>1. PICK r : r = [IdleTask EXCEPT !.pc = "create", !.obj = o]
      OBVIOUS
    <3>2. r \in Task /\ r.pc = "create" /\ r.obj = o /\ r.work = {} /\ r.closing = {}
      BY <2>1, <3>1 DEF IdleTask, Task, NoSid, NoObj
    <3> QED BY <3>1, <3>2
  <2>6. /\ tasks' \in [Tasks -> Task] /\ tasks'[t] = r
        /\ \A p \in Tasks : p # t => tasks'[p] = tasks[p]
    BY <1>6, <2>5 DEF TasksInv
  <2>7. Created' = Created /\ o \notin Created
    BY <2>1, <2>2, <2>3 DEF Created
  <2>8. k # NoSid /\ NoSid \notin Sids
    BY DEF Sids, NoSid
  <2>9. ASSUME NEW x \in Objs, x # o PROVE UserOf(x)' = UserOf(x) /\ (x \in Open' => x \in Open)
    BY <2>3, <2>9 DEF UserOf, Open
  <2>10. ObjsInv'
    <3>1. ASSUME NEW x \in Objs PROVE ObjOK(x)'
      <4>1. CASE x = o
        BY <2>2, <2>3, <4>1 DEF ObjOK
      <4>2. CASE x # o
        BY <2>3, <4>2 DEF ObjOK, ObjsInv
      <4> QED BY <4>1, <4>2
    <3>2. ReuseKeepsOwner'
      BY <1>3, <2>2, <2>3 DEF ReuseKeepsOwner, ObjsInv
    <3>3. OneOpenPerId'
      <4>1. \A x \in Objs : x \in Open' /\ objs'[x].sid = k => x = o
        BY <1>3, <2>3, <2>9
      <4>2. ASSUME NEW x \in Open', NEW y \in Open', objs'[x].sid = objs'[y].sid PROVE x = y
        <5>1. x \in Objs /\ y \in Objs
          BY DEF Open
        <5>2. CASE x = o \/ y = o
          BY <2>2, <2>3, <4>1, <4>2, <5>1, <5>2
        <5>3. CASE x # o /\ y # o
          BY <2>3, <2>9, <4>2, <5>1, <5>3 DEF ObjsInv, OneOpenPerId
        <5> QED BY <5>2, <5>3
      <4> QED BY <4>2 DEF OneOpenPerId
    <3> QED BY <1>4, <2>3, <3>1, <3>2, <3>3 DEF ObjsInv
  <2>11. StoreInv'
    <3>1. \A s \in Sids : store'[s] # NoObj => store'[s] \in Created' /\ objs'[store'[s]].sid = s
      BY <1>0, <2>3, <2>7 DEF StoreInv, Created
    <3>2. ASSUME NEW s \in Sids, events'[s] # NoObj PROVE objs'[events'[s]].sid = s
      <4>1. CASE s = k
        BY <2>2, <2>3, <2>4, <4>1
      <4>2. CASE s # k
        <5>1. events[s] \in Objs /\ objs[events[s]].sid = s /\ events'[s] = events[s]
          BY <2>4, <3>2, <4>2 DEF StoreInv
        <5>2. events[s] # o
          BY <2>1, <2>8, <5>1
        <5> QED BY <2>3, <5>1, <5>2
      <4> QED BY <4>1, <4>2
    <3> QED BY <1>0, <2>4, <3>1, <3>2 DEF StoreInv
  <2>12. TombsInv'
    <3>1. ASSUME NEW s \in Sids, tombs'[s] # NoCred
          PROVE  /\ s \in Used'
                 /\ \A x \in Objs : objs'[x].sid = s => objs'[x].cred = tombs'[s] /\ x \notin Open'
      <4>1. s # k /\ tombs'[s] = tombs[s]
        BY <1>3, <3>1
      <4>2. PICK x \in Objs : objs[x].sid = s
        BY <3>1, <4>1 DEF TombsInv, Used
      <4>3. x # o
        BY <2>1, <2>8, <4>2
      <4>4. s \in Used'
        BY <2>3, <4>2, <4>3 DEF Used
      <4>5. \A y \in Objs : objs'[y].sid = s => y # o
        BY <2>2, <2>3, <4>1
      <4> QED BY <2>3, <2>9, <3>1, <4>1, <4>4, <4>5 DEF TombsInv
    <3> QED BY <1>3, <3>1 DEF TombsInv
  <2>13. TasksInv'
    <3>1. ASSUME NEW p \in Tasks PROVE TaskOK(tasks[p])'
      <4>1. CASE p = t
        <5>1. TaskOK(r)'
          BY <2>1, <2>2, <2>3, <2>4, <2>5 DEF TaskOK
        <5> QED BY <2>6, <4>1, <5>1
      <4>2. CASE p # t
        <5>1. PICK q \in Task : q = tasks[p] /\ q = tasks'[p] /\ TaskOK(q)
          BY <2>6, <4>2 DEF TasksInv
        <5>2. q.pc = "create" => /\ q.obj \in Objs /\ objs'[q.obj].st = "new"
                                 /\ events'[objs'[q.obj].sid] \in {q.obj, NoObj}
          <6> SUFFICES ASSUME q.pc = "create"
                       PROVE  /\ q.obj \in Objs /\ objs'[q.obj].st = "new"
                              /\ events'[objs'[q.obj].sid] \in {q.obj, NoObj}
            OBVIOUS
          <6>1. /\ q.obj \in Objs /\ objs[q.obj].st = "new" /\ q.obj \in Open
                /\ objs[q.obj].sid \in Sids /\ events[objs[q.obj].sid] \in {q.obj, NoObj}
            BY <5>1, NewObject
          <6>2. q.obj # o /\ objs[q.obj].sid # k
            BY <1>3, <2>1, <6>1
          <6> QED BY <2>3, <2>4, <6>1, <6>2
        <5>3. q.pc = "cleanup" => q.sid = objs'[q.obj].sid
          BY <2>3, <2>7, <5>1 DEF TaskOK, Created
        <5>4. q.pc = "each" => \A x \in q.work : UserOf(x)' \in q.users
          BY <2>7, <2>9, <5>1 DEF TaskOK, Created
        <5>5. ASSUME q.pc = "each", NEW z \in Sids, store'[z] # NoObj,
                     UserOf(store[z])' \in q.users, ~objs'[store'[z]].raced
              PROVE  store'[z] \in q.work
          <6>1. PICK x \in Created : x = store[z] /\ x = store'[z]
            BY <1>0, <5>5 DEF StoreInv
          <6>2. x \in Objs /\ x # o
            BY <2>7 DEF Created
          <6>3. UserOf(x)' \in q.users /\ ~objs[x].raced
            BY <2>3, <5>5, <6>1, <6>2
          <6>4. UserOf(store[z]) \in q.users /\ ~objs[store[z]].raced /\ store[z] # NoObj
            BY <2>9, <5>5, <6>1, <6>2, <6>3
          <6> QED BY <5>1, <5>5, <6>1, <6>4 DEF TaskOK
        <5>6. TaskOK(q)'
          BY <2>7, <5>1, <5>2, <5>3, <5>4, <5>5 DEF TaskOK
        <5> QED BY <5>1, <5>6
      <4> QED BY <4>1, <4>2
    <3>2. \A p \in Tasks : tasks[p].pc = "create" => tasks[p].obj # o
      BY <2>1, NewObject
    <3>3. OneCreator'
      BY <2>5, <2>6, <3>2 DEF TasksInv, OneCreator
    <3> QED BY <2>6, <3>1, <3>3 DEF TasksInv
  <2>14. IndexInv'
    <3>1. \A v \in Users : BulkOf(v) => BulkOf(v)'
      BY <1>0, <2>6 DEF BulkOf
    <3>2. ASSUME NEW v \in Users, NEW s \in index'[v]
          PROVE  (\E x \in Objs : objs'[x].sid = s /\ UserOf(x)' = v) /\ (store'[s] # NoObj \/ BulkOf(v)')
      <4>1. s \in index[v] /\ s \in Sids
        BY <1>0 DEF IndexInv
      <4>2. PICK x \in Objs : objs[x].sid = s /\ UserOf(x) = v
        BY <4>1 DEF IndexInv
      <4>3. x # o
        BY <2>1, <2>8, <4>1, <4>2
      <4> QED BY <1>0, <2>3, <2>9, <3>1, <4>1, <4>2, <4>3 DEF IndexInv
    <3> QED BY <1>0, <3>2 DEF IndexInv
  <2>15. Indexed'
    <3> SUFFICES ASSUME NEW s \in Sids, store'[s] # NoObj, ~objs'[store'[s]].raced
                 PROVE  s \in index'[UserOf(store[s])']
      BY DEF Indexed
    <3>1. PICK x \in Created : x = store[s] /\ x = store'[s]
      BY <1>0 DEF StoreInv
    <3>2. x \in Objs /\ x # o
      BY <2>7 DEF Created
    <3>3. s \in index[UserOf(x)]
      BY <2>3, <3>1, <3>2 DEF Indexed
    <3>4. s \in index'[UserOf(x)']
      BY <1>0, <2>9, <3>2, <3>3
    <3> QED BY <3>1, <3>4
  <2>16. EventsInv'
    <3> SUFFICES ASSUME NEW s \in Sids, events'[s] # NoObj, Matter(events[s])'
                 PROVE  store'[s] = events'[s] \/ \E p \in Tasks : Dropping(tasks[p], s)'
      BY DEF EventsInv
    <3>1. PICK x \in Objs : x = events'[s]
      BY <2>4
    <3>2. Matter(x)'
      BY <3>1
    <3>3. x # o
      BY <2>2, <2>3, <3>2 DEF Matter
    <3>4. s # k /\ x = events[s]
      BY <2>4, <3>1, <3>3
    <3>5. Matter(x)
      BY <2>3, <3>2, <3>3 DEF Matter
    <3>6. CASE store[s] = x
      BY <1>0, <3>1, <3>6
    <3>7. CASE \E p \in Tasks : Dropping(tasks[p], s)
      <4>1. PICK p \in Tasks : Dropping(tasks[p], s)
        BY <3>7
      <4>2. p # t
        BY <1>0, <4>1 DEF Dropping
      <4>3. PICK q \in Task : q = tasks[p] /\ q = tasks'[p] /\ TaskOK(q)
        BY <2>6, <4>2 DEF TasksInv
      <4>4. \A y \in q.work \cup q.closing : y \in Objs /\ y # o
        BY <2>7, <4>3 DEF TaskOK, Created
      <4>5. Dropping(q, s)'
        BY <2>3, <4>1, <4>3, <4>4 DEF Dropping
      <4> QED BY <4>3, <4>5
    <3> QED BY <3>1, <3>4, <3>5, <3>6, <3>7 DEF EventsInv
  <2> QED BY <2>10, <2>11, <2>12, <2>13, <2>14, <2>15, <2>16
<1> QED BY <1>2, <1>5, <1>6


(* No session is there at first. *)
LEMMA SessionsInvInit == Init => SessionsInv
<1> SUFFICES ASSUME Init PROVE SessionsInv
  OBVIOUS
<1>1. \A o \in Objs : objs[o] = FreeObj /\ objs[o].st = "free" /\ objs[o].sid = NoSid
                      /\ objs[o].cred = NoCred /\ objs[o] \in Obj
  BY DEF Init, FreeObj, NewObj, Obj
<1>2. ObjsInv
  BY <1>1 DEF Init, ObjsInv, ObjOK, ReuseKeepsOwner, OneOpenPerId, Open
<1>3. StoreInv /\ TombsInv
  BY DEF Init, StoreInv, TombsInv
<1>4. TasksInv
  <2>1. \A t \in Tasks : tasks[t] = IdleTask
    BY DEF Init
  <2>2. TaskOK(IdleTask)
    BY IdleTaskOK DEF TaskOK
  <2> QED BY <2>1, <2>2, IdleTaskOK DEF Init, TasksInv, OneCreator
<1>5. IndexInv /\ Indexed /\ EventsInv
  BY DEF Init, IndexInv, Indexed, EventsInv
<1> QED BY <1>2, <1>3, <1>4, <1>5 DEF SessionsInv

(* Every step keeps the invariant. *)
LEMMA SessionsInvNext == SessionsInv /\ [Next]_vars => SessionsInv'
<1> SUFFICES ASSUME SessionsInv, [Next]_vars PROVE SessionsInv'
  OBVIOUS
<1>1. ASSUME NEW t \in Tasks, Step(t) PROVE SessionsInv'
  <2>1. CASE Admit(t)
    BY <2>1, AdmitInv
  <2>2. CASE SidsUsedUp(t)
    <3>1. tasks[t].cred \in Creds /\ NoSid \in Sids \cup {NoSid}
      BY <2>2 DEF SidsUsedUp, SessionsInv, TasksInv, TaskOK
    <3> QED BY <2>2, <3>1, ValidateInv
  <2>3. CASE Create(t)
    BY <2>3, CreateInv
  <2>4. CASE Remove(t)
    BY <2>4, RemoveInv
  <2>5. CASE CloseTemps(t)
    BY <2>5, CloseTempsInv
  <2>6. CASE Close(t)
    BY <2>6, CloseInv
  <2>7. CASE Bulk(t)
    BY <2>7, BulkInv
  <2>8. CASE BulkEnd(t)
    BY <2>8, BulkEndInv
  <2>9. CASE ClearEnd(t)
    BY <2>9, ClearEndInv
  <2>10. CASE \E o \in Objs : BulkRemove(t, o) \/ BulkClose(t, o) \/ ClearOne(t, o)
    BY <2>10, BulkRemoveInv, BulkCloseInv, ClearInv
  <2>11. CASE \E s \in Sids : SweepNext(t, s)
    BY <2>11, SweepNextInv
  <2> QED BY <1>1, <2>1, <2>2, <2>3, <2>4, <2>5, <2>6, <2>7, <2>8, <2>9, <2>10, <2>11 DEF Step
<1>2. ASSUME NEW t \in Tasks, Start(t) PROVE SessionsInv'
  <2>1. CASE \E s \in Sids \cup {NoSid}, c \in Creds : Validate(t, s, c)
    BY <2>1, ValidateInv
  <2>2. CASE \E o \in Objs : Terminate(t, o)
    BY <2>2, TerminateInv
  <2>3. CASE \E o \in Objs : TransportCloses(t, o)
    BY <2>3, TransportClosesInv
  <2>4. CASE \/ \E u \in Users : Disable(t, u)
             \/ \E o \in Objs : Reject(t, o)
             \/ \E S \in SUBSET Sids : Sweep(t, S)
    BY <2>4, AnnounceInv
  <2>5. CASE Clear(t)
    BY <2>5, ClearInv
  <2> QED BY <1>2, <2>1, <2>2, <2>3, <2>4, <2>5 DEF Start
<1>3. ASSUME NEW t \in Tasks, CreateFails(t) PROVE SessionsInv'
  BY <1>3, CreateFailsInv
<1>4. CASE (\E o \in Objs : Initialized(o)) \/ (\E s \in Sids : TombstoneExpires(s))
  BY <1>4, OutsideStep
<1>5. CASE UNCHANGED vars
  <2>1. UNCHANGED <<store, events, index, tombs, objs, disabled, temps, tasks>>
    BY <1>5 DEF vars
  <2>2. Fade /\ \A o \in Objs : objs'[o].trig => Matter(o)
    BY <2>1, NoFade
  <2>3. (disabled \subseteq Users)' /\ (temps \subseteq Users)' /\ TombsInv'
    BY <2>1, <2>2, SameUsers, SameTombs
  <2>4. TasksMove
    BY <2>1 DEF TasksMove, SessionsInv, TasksInv
  <2> QED BY <2>1, <2>2, <2>3, <2>4, QuietStep
<1> QED BY <1>1, <1>2, <1>3, <1>4, <1>5 DEF Next

(* The inductive invariant holds for ever. *)
LEMMA SessionsInvHolds == Spec => []SessionsInv
BY SessionsInvInit, SessionsInvNext, PTL DEF Spec

(* Every variable of SessionStore keeps its type: what is in sessions,      *)
(* eventStores and userSessions is always a session, a set of ids.          *)
THEOREM SessionsTypeCorrect == Spec => []TypeOK
<1>1. SessionsInv => TypeOK
  BY DEF SessionsInv, ObjsInv, StoreInv, TombsInv, TasksInv, IndexInv, TypeOK
<1> QED BY <1>1, SessionsInvHolds, PTL

(* However requests, removals, sweeps and reconnects overlap, no two open   *)
(* sessions have the same id.                                               *)
THEOREM IdsStayUnique == Spec => []OneOpenPerId
<1>1. SessionsInv => OneOpenPerId
  BY DEF SessionsInv, ObjsInv
<1> QED BY <1>1, SessionsInvHolds, PTL

(* consumeTerminatedSession gives an id only to the identity that had it.   *)
THEOREM OwnersKeepIds == Spec => []ReuseKeepsOwner
<1>1. SessionsInv => ReuseKeepsOwner
  BY DEF SessionsInv, ObjsInv
<1> QED BY <1>1, SessionsInvHolds, PTL

(* sessions, userSessions and eventStores agree when no removal is under    *)
(* way, and a stored session is always found under its user unless it was   *)
(* stored while removeAllUserSessions ran.                                  *)
THEOREM MapsStayInAgreement == Spec => []MapsAgree
<1>1. ASSUME SessionsInv PROVE NoGhosts
  <2> SUFFICES ASSUME Quiet, NEW u \in Users, NEW s \in index[u]
               PROVE  store[s] # NoObj /\ UserOf(store[s]) = u
    BY DEF NoGhosts
  <2>1. ~BulkOf(u)
    BY DEF Quiet, BulkOf
  <2>2. s \in Sids /\ store[s] # NoObj
    BY <1>1, <2>1 DEF SessionsInv, IndexInv
  <2>3. store[s] \in Objs /\ objs[store[s]].sid = s
    BY <1>1, <2>2 DEF SessionsInv, StoreInv
  <2> QED BY <1>1, <2>2, <2>3, IndexOwner
<1>2. ASSUME SessionsInv PROVE NoOrphanEvents
  <2>1. ASSUME Quiet, NEW s \in Sids PROVE \A t \in Tasks : ~Dropping(tasks[t], s)
    BY <2>1 DEF Quiet, Dropping
  <2> QED BY <1>2, <2>1 DEF SessionsInv, EventsInv, Matter, NoOrphanEvents
<1>3. SessionsInv => MapsAgree
  BY <1>1, <1>2 DEF SessionsInv, MapsAgree
<1> QED BY <1>3, SessionsInvHolds, PTL


-----------------------------------------------------------------------------
(* The capabilities of sessions.                                           *)

(* Nothing changes for a user. *)
LEMMA SameUser ==
    ASSUME NEW v \in CUsers, UserOK(v), Between(v)' = Between(v),
           \A g \in Between(v) : cOp'[g] = cOp[g],
           cRow'[v] = cRow[v], cSess'[v] = cSess[v], v \in cUnclear' <=> v \in cUnclear
    PROVE  UserOK(v)'
<1>1. Changing(v)' = Changing(v)
  BY DEF Changing
<1>2. Current(v)' = Current(v) /\ Synced(v)' = Synced(v)
  BY DEF Current, Synced
<1>3. ASSUME NEW g \in Between(v) PROVE AloneOK(g, v)'
  BY <1>2, <1>3 DEF UserOK, AloneOK
<1> QED BY <1>1, <1>2, <1>3 DEF UserOK

(* The points between the change of the row and that of the session. *)
LEMMA BetweenDef ==
    ASSUME NEW u
    PROVE  /\ \A g : g \in Between(u) <=>
                 /\ g \in CHandlers /\ cOp[g].user = u
                 /\ cOp[g].pc \in {"apply", "told", "install", "load"}
           /\ \A g : g \in Between(u)' <=>
                 /\ g \in CHandlers /\ cOp'[g].user = u
                 /\ cOp'[g].pc \in {"apply", "told", "install", "load"}
BY DEF Between

(* A handler of a user goes on; other users are not concerned. *)
LEMMA OneOp ==
    ASSUME CapTypeOK, NEW h \in CHandlers, NEW u \in CUsers, NEW r \in COp,
           cOp' = [cOp EXCEPT ![h] = r],
           cOp[h].user = u \/ cOp[h].pc \notin {"apply", "told", "install", "load"},
           r.user = u \/ r.pc \notin {"apply", "told", "install", "load"}
    PROVE  /\ cOp' \in [CHandlers -> COp] /\ cOp'[h] = r
           /\ \A g \in CHandlers : g # h => cOp'[g] = cOp[g]
           /\ \A v \in CUsers : v # u => Between(v)' = Between(v) /\ \A g \in Between(v) : cOp'[g] = cOp[g]
           /\ \A g : g # h => (g \in Between(u)' <=> g \in Between(u))
<1>1. /\ cOp' \in [CHandlers -> COp] /\ cOp'[h] = r
      /\ \A g \in CHandlers : g # h => cOp'[g] = cOp[g]
  BY DEF CapTypeOK
<1>2. ASSUME NEW v \in CUsers, v # u
      PROVE  Between(v)' = Between(v) /\ \A g \in Between(v) : cOp'[g] = cOp[g]
  <2>1. h \notin Between(v) /\ h \notin Between(v)'
    BY <1>1, <1>2, BetweenDef
  <2>2. \A g : g # h => (g \in Between(v)' <=> g \in Between(v))
    BY <1>1, BetweenDef
  <2>3. \A g : g \in Between(v)' <=> g \in Between(v)
    BY <2>1, <2>2
  <2>4. Between(v)' = Between(v)
    BY <2>3 DEF Between
  <2>5. \A g \in Between(v) : g \in CHandlers /\ g # h
    BY <2>1, BetweenDef
  <2> QED BY <1>1, <2>4, <2>5
<1>3. \A g : g # h => (g \in Between(u)' <=> g \in Between(u))
  BY <1>1, BetweenDef
<1> QED BY <1>1, <1>2, <1>3

(* An idle handler. *)
LEMMA IdleOpOK ==
    /\ IdleOp \in COp /\ IdleOp.pc = "idle"
    /\ NoEntry \in Doc
<1>1. (CHOOSE u \in CUsers : TRUE) \in CUsers
  BY UsersAssumption
<1>2. NoEntry \in Doc
  BY DEF NoEntry, Doc, Flag
<1> QED BY <1>1, <1>2 DEF IdleOp, COp, OpPc

(* A handler goes on outside of a change, and nothing else happens. *)
LEMMA OutsideOp ==
    ASSUME CapsInv, NEW h \in CHandlers, NEW r \in COp, cOp' = [cOp EXCEPT ![h] = r],
           cOp[h].pc \notin {"apply", "told", "install", "load"},
           r.pc \notin {"apply", "told", "install", "load"},
           UNCHANGED <<cRow, cSess, cUnclear>>
    PROVE  cOp' \in [CHandlers -> COp] /\ UsersInv'
<1>1. PICK u \in CUsers : u = r.user
  BY DEF COp
<1>2. /\ cOp' \in [CHandlers -> COp] /\ cOp'[h] = r
      /\ \A g \in CHandlers : g # h => cOp'[g] = cOp[g]
      /\ \A v \in CUsers : v # u => Between(v)' = Between(v) /\ \A g \in Between(v) : cOp'[g] = cOp[g]
      /\ \A g : g # h => (g \in Between(u)' <=> g \in Between(u))
  BY OneOp DEF CapsInv
<1>3. h \notin Between(u) /\ h \notin Between(u)'
  BY <1>2, BetweenDef
<1>4. Between(u)' = Between(u) /\ \A g \in Between(u) : cOp'[g] = cOp[g]
  <2>1. \A g : g \in Between(u)' <=> g \in Between(u)
    BY <1>2, <1>3
  <2>2. Between(u)' = Between(u)
    BY <2>1 DEF Between
  <2>3. \A g \in Between(u) : g \in CHandlers /\ g # h
    BY <1>3, BetweenDef
  <2> QED BY <1>2, <2>2, <2>3
<1>5. ASSUME NEW v \in CUsers PROVE UserOK(v)'
  BY <1>2, <1>4, SameUser DEF CapsInv, UsersInv
<1> QED BY <1>2, <1>5 DEF UsersInv


(* A handler begins to change or to load a user: whoever is at it already  *)
(* is not alone any more, and the session still agrees with the rest of    *)
(* the row.                                                                *)
LEMMA BeginInv ==
    ASSUME CapsInv, NEW h \in CHandlers, NEW op \in COp, NEW u \in CUsers, op.user = u,
           op.pc \in {"apply", "told", "load"},
           cOp[h].pc \notin {"apply", "told", "install", "load"}, BeginChange(h, op),
           \A v \in CUsers : v # u => cRow'[v] = cRow[v], UNCHANGED <<cSess, cUnclear>>,
           op.pc = "apply" => op.doc = cRow'[u].perm /\ cRow'[u].pref = cRow[u].pref,
           op.pc = "told" => cRow'[u].perm = cRow[u].perm,
           op.pc = "load" => cRow'[u] = cRow[u] /\ op.perm = cRow[u].perm /\ op.pref = cRow[u].pref
    PROVE  cOp' \in [CHandlers -> COp] /\ UsersInv'
<1>1. PICK b \in BOOLEAN : b = (Between(u) = {})
  OBVIOUS
<1>2. PICK r : r = [op EXCEPT !.alone = b]
  OBVIOUS
<1>3. /\ r \in COp /\ r.pc = op.pc /\ r.user = u /\ r.doc = op.doc
      /\ r.perm = op.perm /\ r.pref = op.pref /\ r.alone = b
  BY <1>2 DEF COp
<1>4. cOp' = [g \in CHandlers |->
        IF g = h THEN r
        ELSE IF g \in Between(u) THEN [cOp[g] EXCEPT !.alone = FALSE] ELSE cOp[g]]
  BY <1>1, <1>2 DEF BeginChange
<1>5. ASSUME NEW g \in CHandlers, g # h
      PROVE  /\ cOp'[g] \in COp /\ cOp'[g].pc = cOp[g].pc /\ cOp'[g].user = cOp[g].user
             /\ g \in Between(u) => cOp'[g].alone = FALSE
             /\ g \notin Between(u) => cOp'[g] = cOp[g]
  <2>1. cOp[g] \in COp
    BY DEF CapsInv, CapTypeOK
  <2>2. CASE g \in Between(u)
    <3>1. cOp'[g] = [cOp[g] EXCEPT !.alone = FALSE]
      BY <1>4, <1>5, <2>2
    <3> QED BY <2>1, <2>2, <3>1 DEF COp
  <2>3. CASE g \notin Between(u)
    BY <1>4, <1>5, <2>1, <2>3
  <2> QED BY <2>2, <2>3
<1>6. cOp'[h] = r
  BY <1>4
<1>7. cOp' \in [CHandlers -> COp]
  <2>1. \A g \in CHandlers : cOp'[g] \in COp
    BY <1>3, <1>5, <1>6
  <2> QED BY <1>4, <2>1
<1>8. h \notin Between(u) /\ h \in Between(u)' /\ \A v \in CUsers : h \notin Between(v)
  BY <1>3, <1>6, BetweenDef
<1>9. ASSUME NEW v \in CUsers, NEW g, g # h PROVE g \in Between(v)' <=> g \in Between(v)
  <2>1. CASE g \in CHandlers
    <3>1. cOp'[g].pc = cOp[g].pc /\ cOp'[g].user = cOp[g].user
      BY <1>5, <1>9, <2>1
    <3> QED BY <2>1, <3>1 DEF Between
  <2>2. CASE g \notin CHandlers
    BY <2>2, BetweenDef
  <2> QED BY <2>1, <2>2
<1>10. ASSUME NEW v \in CUsers, v # u PROVE UserOK(v)'
  <2>1. h \notin Between(v)'
    BY <1>3, <1>6, <1>10, BetweenDef
  <2>2. \A g : g \in Between(v)' <=> g \in Between(v)
    BY <1>8, <1>9, <2>1
  <2>3. Between(v)' = Between(v)
    BY <2>2 DEF Between
  <2>4. \A g \in Between(v) : g \in CHandlers /\ g # h /\ g \notin Between(u)
    BY <1>8, <1>10, BetweenDef
  <2>5. \A g \in Between(v) : cOp'[g] = cOp[g]
    BY <1>5, <2>4
  <2> QED BY <1>10, <2>3, <2>5, SameUser DEF CapsInv, UsersInv
<1>11. b /\ Current(u) => Synced(u)
  <2>1. b => Changing(u) = {}
    BY <1>1 DEF Changing
  <2> QED BY <2>1 DEF CapsInv, UsersInv, UserOK
<1>12. AloneOK(h, u)'
  <2> SUFFICES ASSUME b
               PROVE  /\ Between(u)' = {h}
                      /\ r.pc = "apply" => r.doc = cRow'[u].perm
                      /\ r.pc = "load" => r.perm = cRow'[u].perm /\ r.pref = cRow'[u].pref
                      /\ Current(u)' =>
                            /\ r.pc = "apply" => cSess'[u].pref = cRow'[u].pref
                            /\ r.pc = "told" => cSess'[u].perm = cRow'[u].perm
    BY <1>3, <1>6 DEF AloneOK
  <2>1. Between(u)' = {h}
    <3>1. Between(u) = {}
      BY <1>1
    <3>2. \A g : g \in Between(u)' <=> g = h
      BY <1>8, <1>9, <3>1
    <3> QED BY <3>2
  <2>2. Current(u)' => Synced(u)
    BY <1>11 DEF Current
  <2> QED BY <1>3, <2>1, <2>2 DEF Synced
<1>13. ASSUME NEW g \in Between(u)' PROVE AloneOK(g, u)'
  <2>1. CASE g = h
    BY <1>12, <2>1
  <2>2. CASE g # h
    <3>1. g \in CHandlers /\ g \in Between(u)
      BY <1>9, <1>13, <2>2, BetweenDef
    <3>2. cOp'[g].alone = FALSE
      BY <1>5, <2>2, <3>1
    <3> QED BY <3>2 DEF AloneOK
  <2> QED BY <2>1, <2>2
<1>14. Current(u)' /\ Changing(u)' = {} => Synced(u)'
  <2>1. CASE op.pc \in {"apply", "told"}
    BY <1>3, <1>6, <1>8, <2>1 DEF Changing
  <2>2. CASE op.pc = "load"
    <3>1. ASSUME NEW g \in Changing(u) PROVE g \in Changing(u)'
      <4>1. g \in Between(u) /\ g \in CHandlers /\ g # h /\ cOp[g].pc \in {"apply", "told", "install"}
        BY <1>8, <3>1, BetweenDef DEF Changing
      <4> QED BY <1>5, <1>9, <4>1 DEF Changing
    <3>2. Changing(u)' = {} => Changing(u) = {}
      BY <3>1
    <3>3. Current(u) /\ Changing(u) = {} => Synced(u)
      BY DEF CapsInv, UsersInv, UserOK
    <3> QED BY <2>2, <3>2, <3>3 DEF Current, Synced
  <2> QED BY <2>1, <2>2
<1>15. UserOK(u)'
  BY <1>13, <1>14 DEF UserOK
<1> QED BY <1>7, <1>10, <1>15 DEF UsersInv

(* A handler ends its change or its load.  If it was not alone the session *)
(* is unclear from then on.                                                *)
LEMMA FinishInv ==
    ASSUME CapsInv, NEW h \in CHandlers, NEW r \in COp, cOp' = [cOp EXCEPT ![h] = r],
           NEW u \in CUsers, cOp[h].user = u, cOp[h].pc \in {"apply", "told", "install", "load"},
           r.pc \notin {"apply", "told", "install", "load"}, UNCHANGED cRow,
           \A v \in CUsers : v # u => cSess'[v] = cSess[v] /\ (v \in cUnclear' <=> v \in cUnclear),
           Current(u)' => \/ cOp[h].alone /\ Synced(u)'
                          \/ cOp[h].pc = "load" /\ Current(u) /\ cSess'[u] = cSess[u]
    PROVE  cOp' \in [CHandlers -> COp] /\ UsersInv'
<1>1. /\ cOp' \in [CHandlers -> COp] /\ cOp'[h] = r
      /\ \A g \in CHandlers : g # h => cOp'[g] = cOp[g]
      /\ \A v \in CUsers : v # u => Between(v)' = Between(v) /\ \A g \in Between(v) : cOp'[g] = cOp[g]
      /\ \A g : g # h => (g \in Between(u)' <=> g \in Between(u))
  BY OneOp DEF CapsInv
<1>2. h \in Between(u) /\ h \notin Between(u)'
  BY <1>1, BetweenDef
<1>3. ASSUME NEW v \in CUsers, v # u PROVE UserOK(v)'
  BY <1>1, <1>3, SameUser DEF CapsInv, UsersInv
<1>4. UserOK(u)
  BY DEF CapsInv, UsersInv
<1>5. ASSUME NEW g \in Between(u)' PROVE AloneOK(g, u)'
  <2>1. g # h /\ g \in Between(u) /\ g \in CHandlers
    BY <1>1, <1>2, BetweenDef
  <2>2. AloneOK(g, u)
    BY <1>4, <2>1 DEF UserOK
  <2>3. ~cOp[g].alone
    BY <1>2, <2>1, <2>2 DEF AloneOK
  <2>4. ~cOp'[g].alone
    BY <1>1, <2>1, <2>3
  <2> QED BY <2>4 DEF AloneOK
<1>6. ASSUME Current(u)', Changing(u)' = {} PROVE Synced(u)'
  <2>1. CASE cOp[h].pc = "load" /\ Current(u) /\ cSess'[u] = cSess[u]
    <3>1. ASSUME NEW g \in Changing(u) PROVE g \in Changing(u)'
      <4>1. g \in Between(u) /\ g \in CHandlers /\ g # h /\ cOp[g].pc \in {"apply", "told", "install"}
        BY <2>1, <3>1, BetweenDef DEF Changing
      <4> QED BY <1>1, <4>1 DEF Changing
    <3>2. Changing(u) = {}
      BY <1>6, <3>1
    <3>3. Synced(u)
      BY <1>4, <2>1, <3>2 DEF UserOK
    <3> QED BY <2>1, <3>3 DEF Synced
  <2> QED BY <1>6, <2>1
<1>7. UserOK(u)'
  BY <1>5, <1>6 DEF UserOK
<1> QED BY <1>1, <1>3, <1>7 DEF UsersInv


(* One session changes, and what its client is taken to know with it. *)
LEMMA ToldInv ==
    ASSUME CapsInv, NEW u \in CUsers, NEW s \in CSession, cSess' = [cSess EXCEPT ![u] = s],
           NEW k \in {"on", "off", "refreshed"}, cKnown' = [cKnown EXCEPT ![u] = k],
           s.open => k \in {"refreshed", IF CanUse(s) THEN "on" ELSE "off"}
    PROVE  /\ cSess' \in [CUsers -> CSession] /\ cKnown' \in [CUsers -> {"on", "off", "refreshed"}]
           /\ cSess'[u] = s /\ \A v \in CUsers : v # u => cSess'[v] = cSess[v]
           /\ ClientsAreTold'
<1>1. /\ cSess' \in [CUsers -> CSession] /\ cKnown' \in [CUsers -> {"on", "off", "refreshed"}]
      /\ cSess'[u] = s /\ \A v \in CUsers : v # u => cSess'[v] = cSess[v]
      /\ cKnown'[u] = k /\ \A v \in CUsers : v # u => cKnown'[v] = cKnown[v]
  BY DEF CapsInv, CapTypeOK
<1>2. ASSUME NEW v \in CUsers, cSess'[v].open
      PROVE  cKnown'[v] \in {"refreshed", IF CanUse(cSess'[v]) THEN "on" ELSE "off"}
  BY <1>1, <1>2 DEF CapsInv, ClientsAreTold
<1> QED BY <1>1, <1>2 DEF ClientsAreTold

(* No session changes. *)
LEMMA ToldSame ==
    ASSUME CapsInv, UNCHANGED <<cSess, cKnown>>
    PROVE  ClientsAreTold'
BY DEF CapsInv, ClientsAreTold

(* A handler that is alone has in hand what is in the row. *)
LEMMA Alone ==
    ASSUME CapsInv, NEW h \in CHandlers, NEW u \in CUsers, cOp[h].user = u,
           cOp[h].pc \in {"apply", "told", "install", "load"}, cOp[h].alone
    PROVE  AloneOK(h, u)
BY BetweenDef DEF CapsInv, UsersInv, UserOK

(* What a handler has in hand. *)
LEMMA OpType ==
    ASSUME CapsInv, NEW h \in CHandlers
    PROVE  /\ cOp[h] \in COp /\ cOp[h].user \in CUsers /\ cOp[h].alone \in BOOLEAN
           /\ cOp[h].doc \in Doc /\ cOp[h].perm \in Doc /\ cOp[h].pref \in Doc
           /\ cSess[cOp[h].user] \in CSession /\ cRow[cOp[h].user] \in UserRow
<1>1. cOp[h] \in COp
  BY DEF CapsInv, CapTypeOK
<1>2. /\ cOp[h].user \in CUsers /\ cOp[h].alone \in BOOLEAN
      /\ cOp[h].doc \in Doc /\ cOp[h].perm \in Doc /\ cOp[h].pref \in Doc
  BY <1>1 DEF COp
<1> QED BY <1>1, <1>2 DEF CapsInv, CapTypeOK

(* Requests come in, and queries are answered. *)
LEMMA RequestInv ==
    ASSUME CapsInv, NEW h \in CHandlers, NEW u \in CUsers,
           \/ \E perm \in Doc : UpdatePermissions(h, u, perm)
           \/ \E op \in {"get", "query", "set"}, wish \in Doc : GetCapabilities(h, u, op, wish)
    PROVE  CapsInv'
<1>1. UNCHANGED <<cRow, cSess, cStored, cConf, cLive, cUnclear, cKnown>> /\ cOp[h].pc = "idle"
  BY DEF UpdatePermissions, GetCapabilities
<1>2. \E r \in COp : /\ cOp' = [cOp EXCEPT ![h] = r]
                     /\ r.pc \notin {"apply", "told", "install", "load"}
  <2>1. ASSUME NEW perm \in Doc, UpdatePermissions(h, u, perm)
        PROVE  \E r \in COp : cOp' = [cOp EXCEPT ![h] = r] /\ r.pc = "write"
    <3>1. PICK r : r = [IdleOp EXCEPT !.pc = "write", !.op = "update", !.user = u, !.doc = perm]
      OBVIOUS
    <3>2. r \in COp /\ r.pc = "write"
      BY <3>1, IdleOpOK DEF COp, OpPc
    <3> QED BY <2>1, <3>1, <3>2 DEF UpdatePermissions
  <2>2. ASSUME NEW op \in {"get", "query", "set"}, NEW wish \in Doc, GetCapabilities(h, u, op, wish)
        PROVE  \E r \in COp : cOp' = [cOp EXCEPT ![h] = r] /\ r.pc = "perms"
    <3>1. PICK r : r = [IdleOp EXCEPT !.pc = "perms", !.op = op, !.user = u, !.doc = wish,
                                      !.pref = cRow[u].pref]
      OBVIOUS
    <3>2. cRow[u].pref \in Doc
      BY DEF CapsInv, CapTypeOK, UserRow
    <3>3. r \in COp /\ r.pc = "perms"
      BY <3>1, <3>2, IdleOpOK DEF COp, OpPc
    <3> QED BY <2>2, <3>1, <3>3 DEF GetCapabilities
  <2> QED BY <2>1, <2>2
<1>3. cOp' \in [CHandlers -> COp] /\ UsersInv'
  BY <1>1, <1>2, OutsideOp
<1>4. ClientsAreTold'
  BY <1>1, ToldSame
<1> QED BY <1>1, <1>3, <1>4 DEF CapsInv, CapTypeOK, ConfInv

(* The permissions or the preferences are written, or a user is read. *)
LEMMA BeginStep ==
    ASSUME CapsInv, NEW h \in CHandlers,
           WritePermissions(h) \/ SavePreferences(h) \/ \E u \in CUsers : Load(h, u)
    PROVE  CapsInv'
<1>1. UNCHANGED <<cSess, cStored, cConf, cLive, cUnclear, cKnown>>
  BY DEF WritePermissions, SavePreferences, Load
<1>2. ClientsAreTold'
  BY <1>1, ToldSame
<1>3. cRow' \in [CUsers -> UserRow] /\ cOp' \in [CHandlers -> COp] /\ UsersInv'
  <2>1. CASE WritePermissions(h)
    <3>1. PICK u \in CUsers, d \in Doc : u = cOp[h].user /\ d = cOp[h].doc
      BY OpType
    <3>2. PICK op : op = [cOp[h] EXCEPT !.pc = "apply"]
      OBVIOUS
    <3>3. op \in COp /\ op.pc = "apply" /\ op.user = u /\ op.doc = d
      BY <3>1, <3>2, OpType DEF COp, OpPc
    <3>4. BeginChange(h, op) /\ cRow' = [cRow EXCEPT ![u].perm = d] /\ cOp[h].pc = "write"
      BY <2>1, <3>1, <3>2 DEF WritePermissions
    <3>5. /\ cRow' \in [CUsers -> UserRow] /\ \A v \in CUsers : v # u => cRow'[v] = cRow[v]
          /\ cRow'[u].perm = d /\ cRow'[u].pref = cRow[u].pref
      BY <3>4 DEF CapsInv, CapTypeOK, UserRow
    <3> QED BY <1>1, <3>3, <3>4, <3>5, BeginInv
  <2>2. CASE SavePreferences(h)
    <3>1. PICK u \in CUsers, d \in Doc : u = cOp[h].user /\ d = cOp[h].doc
      BY OpType
    <3>2. PICK op : op = [cOp[h] EXCEPT !.pc = "told", !.doc = NoEntry]
      OBVIOUS
    <3>3. op \in COp /\ op.pc = "told" /\ op.user = u
      BY <3>1, <3>2, OpType, IdleOpOK DEF COp, OpPc
    <3>4. BeginChange(h, op) /\ cRow' = [cRow EXCEPT ![u].pref = d] /\ cOp[h].pc = "save"
      BY <2>2, <3>1, <3>2 DEF SavePreferences
    <3>5. /\ cRow' \in [CUsers -> UserRow] /\ \A v \in CUsers : v # u => cRow'[v] = cRow[v]
          /\ cRow'[u].perm = cRow[u].perm
      BY <3>4 DEF CapsInv, CapTypeOK, UserRow
    <3> QED BY <1>1, <3>3, <3>4, <3>5, BeginInv
  <2>3. ASSUME NEW u \in CUsers, Load(h, u)
        PROVE  cRow' \in [CUsers -> UserRow] /\ cOp' \in [CHandlers -> COp] /\ UsersInv'
    <3>1. PICK o \in {"refresh", "auth"} : o = IF cSess[u].open THEN "refresh" ELSE "auth"
      OBVIOUS
    <3>2. cSess[u].open \in BOOLEAN /\ cRow[u].perm \in Doc /\ cRow[u].pref \in Doc
      BY DEF CapsInv, CapTypeOK, CSession, UserRow
    <3>3. PICK op : op = [IdleOp EXCEPT !.pc = "load", !.op = o, !.user = u, !.sess = cSess[u].open,
                                        !.perm = cRow[u].perm, !.pref = cRow[u].pref]
      OBVIOUS
    <3>4. /\ op \in COp /\ op.pc = "load" /\ op.user = u
          /\ op.perm = cRow[u].perm /\ op.pref = cRow[u].pref
      BY <3>2, <3>3, IdleOpOK DEF COp, OpPc
    <3>5. BeginChange(h, op) /\ UNCHANGED cRow /\ cOp[h].pc = "idle"
      BY <2>3, <3>1, <3>3 DEF Load
    <3>6. cRow' \in [CUsers -> UserRow]
      BY <3>5 DEF CapsInv, CapTypeOK
    <3> QED BY <1>1, <3>4, <3>5, <3>6, BeginInv
  <2> QED BY <2>1, <2>2, <2>3
<1> QED BY <1>1, <1>2, <1>3 DEF CapsInv, CapTypeOK, ConfInv


(* What the capabilities are worked out to be, and what is left of them in *)
(* the configuration.                                                      *)
LEMMA AnswerType ==
    ASSUME CapsInv, NEW perm \in Doc, NEW pref \in Doc, NEW wish \in Doc, NEW prefs \in BOOLEAN
    PROVE  /\ Extracted(Answer(perm, pref), wish) \in Doc
           /\ Written(perm, pref, prefs) \in Flag
           /\ cStored = "off" => Written(perm, pref, prefs) = "off"
<1>1. /\ perm.srv \in Flag /\ perm.tool \in Flag /\ pref.srv \in Flag /\ pref.tool \in Flag
      /\ wish.srv \in Flag /\ wish.tool \in Flag
  BY DEF Doc
<1>2. Offered \in {"unset", "on"} /\ cConf \in Flag /\ (cConf = "off" => Offered = "unset")
  BY DEF CapsInv, CapTypeOK, Offered, Flag
<1>3. Assigned(perm) \in Flag /\ Kept(perm) \in {"on", "unset"} /\ Preferred(perm, pref) \in Flag
  BY <1>1, <1>2 DEF Assigned, Kept, Preferred, Flag
<1>4. PICK a : a = Answer(perm, pref)
  OBVIOUS
<1>5. a \in Doc /\ a.srv \in Flag /\ a.tool \in Flag /\ (a.srv = "unset" => a.tool = "unset")
  <2>1. CASE Shown(perm)
    <3>1. PICK x \in Flag, y \in Flag :
            /\ x = (IF pref.srv = "unset" THEN "on" ELSE pref.srv) /\ x # "unset"
            /\ y = Preferred(perm, pref)
      BY <1>1, <1>3 DEF Flag
    <3>2. a = [srv |-> x, tool |-> y]
      BY <1>4, <2>1, <3>1 DEF Answer
    <3> QED BY <3>1, <3>2 DEF Doc
  <2>2. CASE ~Shown(perm)
    BY <1>4, <2>2 DEF Answer, NoEntry, Doc, Flag
  <2> QED BY <2>1, <2>2
<1>6. Extracted(a, wish) \in Doc
  <2>1. PICK x \in Flag, y \in Flag : x = SetFlag(a.srv, wish.srv) /\ y = SetFlag(a.tool, wish.tool)
    BY <1>1, <1>5 DEF SetFlag
  <2>2. x = "unset" => y = "unset"
    BY <1>5, <2>1 DEF SetFlag
  <2> QED BY <2>1, <2>2 DEF Extracted, Doc
<1>7. Written(perm, pref, prefs) \in Flag
  BY <1>2, <1>3 DEF Written
<1>8. cStored = "off" => Written(perm, pref, prefs) = "off"
  BY <1>2 DEF CapsInv, ConfInv, Written
<1> QED BY <1>4, <1>6, <1>7, <1>8

(* The database is read for an answer. *)
LEMMA QueryInv ==
    ASSUME CapsInv, NEW h \in CHandlers,
           ReadForDesktop(h) \/ ReadPermissions(h) \/ AnswerCapabilities(h)
    PROVE  CapsInv'
<1>0. /\ cOp[h] \in COp /\ cOp[h].user \in CUsers
      /\ cOp[h].doc \in Doc /\ cOp[h].perm \in Doc /\ cOp[h].pref \in Doc
      /\ cRow[cOp[h].user].perm \in Doc /\ cRow[cOp[h].user].pref \in Doc
  BY OpType DEF UserRow
<1>1. /\ UNCHANGED <<cRow, cSess, cStored, cLive, cUnclear, cKnown>>
      /\ cOp[h].pc \in {"prefs", "perms", "answer"}
  BY DEF ReadForDesktop, ReadPermissions, AnswerCapabilities
<1>2. cConf' \in Flag /\ (cStored = "off" => cConf' = "off")
  <2>1. CASE UNCHANGED cConf
    BY <2>1 DEF CapsInv, CapTypeOK, ConfInv
  <2>2. CASE AnswerCapabilities(h)
    <3>1. PICK b \in BOOLEAN : b = (cOp[h].op # "query")
      OBVIOUS
    <3>2. cConf' = Written(cOp[h].perm, cOp[h].pref, b)
      BY <2>2, <3>1 DEF AnswerCapabilities
    <3> QED BY <1>0, <3>2, AnswerType
  <2> QED BY <2>1, <2>2 DEF ReadForDesktop, ReadPermissions
<1>3. \E r \in COp : /\ cOp' = [cOp EXCEPT ![h] = r]
                     /\ r.pc \notin {"apply", "told", "install", "load"}
  <2>1. CASE ReadForDesktop(h)
    <3>1. PICK r : r = [cOp[h] EXCEPT !.pc = "perms", !.pref = cRow[cOp[h].user].pref]
      OBVIOUS
    <3>2. r \in COp /\ r.pc = "perms"
      BY <1>0, <3>1 DEF COp, OpPc
    <3>3. cOp' = [cOp EXCEPT ![h] = r]
      BY <2>1, <3>1 DEF ReadForDesktop, CapsInv, CapTypeOK
    <3> QED BY <3>2, <3>3
  <2>2. CASE ReadPermissions(h)
    <3>1. PICK r : r = [cOp[h] EXCEPT !.pc = "answer", !.perm = cRow[cOp[h].user].perm]
      OBVIOUS
    <3>2. r \in COp /\ r.pc = "answer"
      BY <1>0, <3>1 DEF COp, OpPc
    <3>3. cOp' = [cOp EXCEPT ![h] = r]
      BY <2>2, <3>1 DEF ReadPermissions, CapsInv, CapTypeOK
    <3> QED BY <3>2, <3>3
  <2>3. CASE AnswerCapabilities(h) /\ cOp[h].op # "set"
    BY <2>3, IdleOpOK DEF AnswerCapabilities
  <2>4. CASE AnswerCapabilities(h) /\ cOp[h].op = "set"
    <3>1. PICK d \in Doc : d = Extracted(Answer(cOp[h].perm, cOp[h].pref), cOp[h].doc)
      BY <1>0, AnswerType
    <3>2. PICK r : r = [IdleOp EXCEPT !.pc = "save", !.op = "set", !.user = cOp[h].user, !.doc = d]
      OBVIOUS
    <3>3. r \in COp /\ r.pc = "save"
      BY <1>0, <3>2, IdleOpOK DEF COp, OpPc
    <3> QED BY <2>4, <3>1, <3>2, <3>3 DEF AnswerCapabilities
  <2> QED BY <2>1, <2>2, <2>3, <2>4
<1>4. cOp' \in [CHandlers -> COp] /\ UsersInv'
  BY <1>1, <1>3, OutsideOp
<1>5. ClientsAreTold'
  BY <1>1, ToldSame
<1> QED BY <1>1, <1>2, <1>4, <1>5 DEF CapsInv, CapTypeOK, ConfInv

(* The user's session gets the new permissions. *)
LEMMA ApplyInv ==
    ASSUME CapsInv, NEW h \in CHandlers, ApplyPermissions(h)
    PROVE  CapsInv'
<1>1. PICK u \in CUsers, d \in Doc : /\ u = cOp[h].user /\ d = cOp[h].doc
                                     /\ cSess[u] \in CSession /\ cSess[u].open \in BOOLEAN
  BY OpType DEF CSession
<1>2. /\ cOp[h].pc = "apply" /\ cUnclear' = Overlapped(h)
      /\ UNCHANGED <<cRow, cStored, cConf, cLive>>
  BY DEF ApplyPermissions
<1>3. PICK r \in COp : cOp' = [cOp EXCEPT ![h] = r] /\ r.pc = "prefs"
  <2>1. PICK r : r = [IdleOp EXCEPT !.pc = "prefs", !.op = "get", !.user = u]
    OBVIOUS
  <2>2. r \in COp /\ r.pc = "prefs"
    BY <2>1, IdleOpOK DEF COp, OpPc
  <2> QED BY <1>1, <2>1, <2>2 DEF ApplyPermissions
<1>4. /\ cUnclear' \subseteq CUsers /\ \A v \in CUsers : v # u => (v \in cUnclear' <=> v \in cUnclear)
      /\ u \notin cUnclear' => u \notin cUnclear /\ cOp[h].alone
  BY <1>1, <1>2 DEF Overlapped, CapsInv, CapTypeOK
<1>5. /\ cSess' \in [CUsers -> CSession] /\ cKnown' \in [CUsers -> {"on", "off", "refreshed"}]
      /\ \A v \in CUsers : v # u => cSess'[v] = cSess[v]
      /\ ClientsAreTold' /\ cSess'[u].open = cSess[u].open
      /\ cSess[u].open => cSess'[u].perm = d /\ cSess'[u].pref = cSess[u].pref
  <2>1. CASE cSess[u].open
    <3>1. PICK s : s = [cSess[u] EXCEPT !.perm = d]
      OBVIOUS
    <3>2. s \in CSession /\ s.perm = d /\ s.pref = cSess[u].pref /\ s.open = cSess[u].open
      BY <1>1, <3>1 DEF CSession
    <3>3. PICK k \in {"on", "off", "refreshed"} : k = IF CanUse(s) THEN "on" ELSE "off"
      OBVIOUS
    <3>4. cSess' = [cSess EXCEPT ![u] = s] /\ cKnown' = [cKnown EXCEPT ![u] = k]
      BY <1>1, <2>1, <3>1, <3>3 DEF ApplyPermissions, Tell
    <3>5. /\ cSess' \in [CUsers -> CSession] /\ cKnown' \in [CUsers -> {"on", "off", "refreshed"}]
          /\ cSess'[u] = s /\ \A v \in CUsers : v # u => cSess'[v] = cSess[v]
          /\ ClientsAreTold'
      BY <3>2, <3>3, <3>4, ToldInv
    <3> QED BY <3>2, <3>5
  <2>2. CASE ~cSess[u].open
    <3>1. UNCHANGED <<cSess, cKnown>>
      BY <1>1, <2>2 DEF ApplyPermissions
    <3> QED BY <2>2, <3>1, ToldSame DEF CapsInv, CapTypeOK
  <2> QED BY <2>1, <2>2
<1>6. Current(u)' => cOp[h].alone /\ Synced(u)'
  <2> SUFFICES ASSUME Current(u)' PROVE cOp[h].alone /\ Synced(u)'
    OBVIOUS
  <2>1. cOp[h].alone /\ Current(u) /\ cSess[u].open
    BY <1>4, <1>5 DEF Current
  <2>2. AloneOK(h, u)
    BY <1>1, <1>2, <2>1, Alone
  <2>3. d = cRow[u].perm /\ cSess[u].pref = cRow[u].pref
    BY <1>1, <1>2, <2>1, <2>2 DEF AloneOK
  <2> QED BY <1>2, <1>5, <2>1, <2>3 DEF Synced
<1>7. cOp' \in [CHandlers -> COp] /\ UsersInv'
  BY <1>1, <1>2, <1>3, <1>4, <1>5, <1>6, FinishInv
<1> QED BY <1>2, <1>4, <1>5, <1>7 DEF CapsInv, CapTypeOK, ConfInv

(* The user's session gets the new preferences. *)
LEMMA InstallInv ==
    ASSUME CapsInv, NEW h \in CHandlers, InstallPreferences(h)
    PROVE  CapsInv'
<1>1. PICK u \in CUsers, d \in Doc : /\ u = cOp[h].user /\ d = cOp[h].pref
                                     /\ cSess[u] \in CSession /\ cSess[u].open \in BOOLEAN
  BY OpType DEF CSession
<1>2. /\ cOp[h].pc = "install" /\ cUnclear' = Overlapped(h) /\ cOp' = [cOp EXCEPT ![h] = IdleOp]
      /\ UNCHANGED <<cRow, cStored, cConf, cLive>>
  BY DEF InstallPreferences, Finished
<1>3. /\ cUnclear' \subseteq CUsers /\ \A v \in CUsers : v # u => (v \in cUnclear' <=> v \in cUnclear)
      /\ u \notin cUnclear' => u \notin cUnclear /\ cOp[h].alone
  BY <1>1, <1>2 DEF Overlapped, CapsInv, CapTypeOK
<1>4. /\ cSess' \in [CUsers -> CSession] /\ cKnown' \in [CUsers -> {"on", "off", "refreshed"}]
      /\ \A v \in CUsers : v # u => cSess'[v] = cSess[v]
      /\ ClientsAreTold' /\ cSess'[u].open = cSess[u].open
      /\ cOp[h].sess => cSess'[u].pref = d /\ cSess'[u].perm = cSess[u].perm
  <2>1. CASE cOp[h].sess
    <3>1. PICK s : s = [cSess[u] EXCEPT !.pref = d]
      OBVIOUS
    <3>2. /\ s \in CSession /\ s.pref = d /\ s.perm = cSess[u].perm /\ s.open = cSess[u].open
          /\ d = cSess[u].pref => s = cSess[u]
      BY <1>1, <3>1 DEF CSession
    <3>3. PICK k \in {"on", "off", "refreshed"} :
             k = IF Changed(cSess[u].pref, d) THEN IF CanUse(s) THEN "on" ELSE "off" ELSE cKnown[u]
      BY DEF CapsInv, CapTypeOK
    <3>4. cSess' = [cSess EXCEPT ![u] = s] /\ cKnown' = [cKnown EXCEPT ![u] = k]
      <4>1. /\ cSess' = [cSess EXCEPT ![u] = s]
            /\ IF Changed(cSess[u].pref, d) THEN Tell(u, s) ELSE UNCHANGED cKnown
        BY <1>1, <2>1, <3>1, <3>2 DEF InstallPreferences
      <4> QED BY <3>3, <4>1 DEF Tell, CapsInv, CapTypeOK
    <3>5. s.open => k \in {"refreshed", IF CanUse(s) THEN "on" ELSE "off"}
      BY <3>2, <3>3 DEF Changed, CapsInv, ClientsAreTold
    <3>6. /\ cSess' \in [CUsers -> CSession] /\ cKnown' \in [CUsers -> {"on", "off", "refreshed"}]
          /\ cSess'[u] = s /\ \A v \in CUsers : v # u => cSess'[v] = cSess[v]
          /\ ClientsAreTold'
      BY <3>2, <3>4, <3>5, ToldInv
    <3> QED BY <3>2, <3>6
  <2>2. CASE ~cOp[h].sess
    <3>1. UNCHANGED <<cSess, cKnown>>
      BY <1>1, <2>2 DEF InstallPreferences
    <3> QED BY <2>2, <3>1, ToldSame DEF CapsInv, CapTypeOK
  <2> QED BY <2>1, <2>2
<1>5. Current(u)' => cOp[h].alone /\ Synced(u)'
  <2> SUFFICES ASSUME Current(u)' PROVE cOp[h].alone /\ Synced(u)'
    OBVIOUS
  <2>1. cOp[h].alone /\ Current(u)
    BY <1>3, <1>4 DEF Current
  <2>2. AloneOK(h, u)
    BY <1>1, <1>2, <2>1, Alone
  <2>3. d = cRow[u].pref /\ cSess[u].perm = cRow[u].perm /\ cOp[h].sess
    BY <1>1, <1>2, <2>1, <2>2 DEF AloneOK
  <2> QED BY <1>2, <1>4, <2>1, <2>3 DEF Synced
<1>6. cOp' \in [CHandlers -> COp] /\ UsersInv'
  BY <1>1, <1>2, <1>3, <1>4, <1>5, IdleOpOK, FinishInv
<1> QED BY <1>2, <1>3, <1>4, <1>6 DEF CapsInv, CapTypeOK, ConfInv


(* The preferences are read back for the sessions there are. *)
LEMMA ReadPreferencesInv ==
    ASSUME CapsInv, NEW h \in CHandlers, ReadPreferences(h)
    PROVE  CapsInv'
<1>1. PICK u \in CUsers : /\ u = cOp[h].user /\ cOp[h] \in COp
                          /\ cSess[u] \in CSession /\ cRow[u].pref \in Doc
  BY OpType DEF UserRow
<1>2. cOp[h].pc = "told" /\ UNCHANGED <<cRow, cSess, cStored, cConf, cLive, cKnown>>
  BY DEF ReadPreferences
<1>3. ClientsAreTold'
  BY <1>2, ToldSame
<1>4. CASE cSess[u].open
  <2>1. UNCHANGED cUnclear
    BY <1>1, <1>4 DEF ReadPreferences
  <2>2. PICK r : r = [cOp[h] EXCEPT !.pc = "install", !.sess = TRUE, !.pref = cRow[u].pref]
    OBVIOUS
  <2>3. /\ r \in COp /\ r.pc = "install" /\ r.user = u /\ r.sess = TRUE /\ r.pref = cRow[u].pref
        /\ r.alone = cOp[h].alone
    BY <1>1, <2>2 DEF COp, OpPc
  <2>4. cOp' = [cOp EXCEPT ![h] = r]
    BY <1>1, <1>4, <2>2 DEF ReadPreferences, CapsInv, CapTypeOK
  <2>5. /\ cOp' \in [CHandlers -> COp] /\ cOp'[h] = r
        /\ \A g \in CHandlers : g # h => cOp'[g] = cOp[g]
        /\ \A v \in CUsers : v # u => Between(v)' = Between(v) /\ \A g \in Between(v) : cOp'[g] = cOp[g]
        /\ \A g : g # h => (g \in Between(u)' <=> g \in Between(u))
    BY <1>1, <2>3, <2>4, OneOp DEF CapsInv
  <2>6. h \in Between(u) /\ h \in Between(u)'
    BY <1>1, <1>2, <2>3, <2>5, BetweenDef
  <2>7. Between(u)' = Between(u)
    <3>1. \A g : g \in Between(u)' <=> g \in Between(u)
      BY <2>5, <2>6
    <3> QED BY <3>1 DEF Between
  <2>8. UserOK(u)
    BY DEF CapsInv, UsersInv
  <2>9. Current(u)' = Current(u)
    BY <1>2, <2>1 DEF Current
  <2>10. ASSUME NEW g \in Between(u)' PROVE AloneOK(g, u)'
    <3>1. AloneOK(g, u)
      BY <2>7, <2>8, <2>10 DEF UserOK
    <3>2. CASE g = h
      BY <1>2, <2>3, <2>5, <2>7, <2>9, <3>1, <3>2 DEF AloneOK
    <3>3. CASE g # h
      <4>1. cOp'[g] = cOp[g]
        BY <2>5, <2>10, <3>3, BetweenDef
      <4> QED BY <1>2, <2>7, <2>9, <3>1, <4>1 DEF AloneOK
    <3> QED BY <3>2, <3>3
  <2>11. h \in Changing(u)'
    BY <2>3, <2>5, <2>6 DEF Changing
  <2>12. UserOK(u)'
    BY <2>10, <2>11 DEF UserOK
  <2>13. ASSUME NEW v \in CUsers, v # u PROVE UserOK(v)'
    BY <1>2, <2>1, <2>5, <2>13, SameUser DEF CapsInv, UsersInv
  <2>14. UsersInv'
    BY <2>12, <2>13 DEF UsersInv
  <2> QED BY <1>2, <1>3, <2>1, <2>5, <2>14 DEF CapsInv, CapTypeOK, ConfInv
<1>5. CASE ~cSess[u].open
  <2>1. cOp' = [cOp EXCEPT ![h] = IdleOp] /\ cUnclear' = Overlapped(h)
    BY <1>1, <1>5 DEF ReadPreferences, Finished
  <2>2. cUnclear' \subseteq CUsers /\ \A v \in CUsers : v # u => (v \in cUnclear' <=> v \in cUnclear)
    BY <1>1, <2>1 DEF Overlapped, CapsInv, CapTypeOK
  <2>3. ~Current(u)'
    BY <1>2, <1>5 DEF Current
  <2>4. cOp' \in [CHandlers -> COp] /\ UsersInv'
    BY <1>1, <1>2, <2>1, <2>2, <2>3, IdleOpOK, FinishInv
  <2> QED BY <1>2, <1>3, <2>2, <2>4 DEF CapsInv, CapTypeOK, ConfInv
<1> QED BY <1>4, <1>5

(* A session is made, or its context is replaced by what was read. *)
LEMMA LoadedInv ==
    ASSUME CapsInv, NEW h \in CHandlers, Loaded(h)
    PROVE  CapsInv'
<1>1. PICK u \in CUsers, p \in Doc, f \in Doc :
         /\ u = cOp[h].user /\ p = cOp[h].perm /\ f = cOp[h].pref
         /\ cSess[u] \in CSession /\ cOp[h].alone \in BOOLEAN
  BY OpType
<1>2. /\ cOp[h].pc = "load" /\ cOp' = [cOp EXCEPT ![h] = IdleOp]
      /\ UNCHANGED <<cRow, cStored, cConf, cLive>>
  BY DEF Loaded, Finished
<1>3. PICK made \in BOOLEAN : made = (cOp[h].op = "auth" /\ ~cSess[u].open)
  OBVIOUS
<1>4. CASE made \/ cOp[h].sess
  <2>1. PICK s : s = [perm |-> p, pref |-> f, open |-> TRUE]
    OBVIOUS
  <2>2. s \in CSession /\ s.perm = p /\ s.pref = f /\ s.open = TRUE
    BY <2>1 DEF CSession
  <2>3. PICK k \in {"on", "off", "refreshed"} :
           k = IF made THEN IF CanUse(s) THEN "on" ELSE "off"
               ELSE IF s = cSess[u] THEN cKnown[u] ELSE "refreshed"
    BY DEF CapsInv, CapTypeOK
  <2>4. /\ cSess' = [cSess EXCEPT ![u] = s]
        /\ cUnclear' = IF cOp[h].alone THEN cUnclear \ {u} ELSE cUnclear \cup {u}
        /\ IF made THEN Tell(u, s)
           ELSE cKnown' = [cKnown EXCEPT ![u] = IF s = cSess[u] THEN @ ELSE "refreshed"]
    BY <1>1, <1>3, <1>4, <2>1 DEF Loaded
  <2>5. cKnown' = [cKnown EXCEPT ![u] = k]
    BY <2>3, <2>4 DEF Tell
  <2>6. s.open => k \in {"refreshed", IF CanUse(s) THEN "on" ELSE "off"}
    BY <2>2, <2>3 DEF CapsInv, ClientsAreTold
  <2>7. /\ cSess' \in [CUsers -> CSession] /\ cKnown' \in [CUsers -> {"on", "off", "refreshed"}]
        /\ cSess'[u] = s /\ \A v \in CUsers : v # u => cSess'[v] = cSess[v]
        /\ ClientsAreTold'
    BY <2>2, <2>4, <2>5, <2>6, ToldInv
  <2>8. /\ cUnclear' \subseteq CUsers /\ \A v \in CUsers : v # u => (v \in cUnclear' <=> v \in cUnclear)
        /\ u \notin cUnclear' => cOp[h].alone
    BY <1>1, <2>4 DEF CapsInv, CapTypeOK
  <2>9. Current(u)' => cOp[h].alone /\ Synced(u)'
    <3> SUFFICES ASSUME Current(u)' PROVE cOp[h].alone /\ Synced(u)'
      OBVIOUS
    <3>1. cOp[h].alone
      BY <2>8 DEF Current
    <3>2. AloneOK(h, u)
      BY <1>1, <1>2, <3>1, Alone
    <3>3. p = cRow[u].perm /\ f = cRow[u].pref
      BY <1>1, <1>2, <3>1, <3>2 DEF AloneOK
    <3> QED BY <1>2, <2>2, <2>7, <3>1, <3>3 DEF Synced
  <2>10. cOp' \in [CHandlers -> COp] /\ UsersInv'
    BY <1>1, <1>2, <2>7, <2>8, <2>9, IdleOpOK, FinishInv
  <2> QED BY <1>2, <2>7, <2>8, <2>10 DEF CapsInv, CapTypeOK, ConfInv
<1>5. CASE ~(made \/ cOp[h].sess)
  <2>1. UNCHANGED <<cSess, cKnown, cUnclear>>
    BY <1>1, <1>3, <1>5 DEF Loaded
  <2>2. ClientsAreTold'
    BY <2>1, ToldSame
  <2>3. Current(u)' => Current(u) /\ cSess'[u] = cSess[u]
    BY <2>1 DEF Current
  <2>4. cOp' \in [CHandlers -> COp] /\ UsersInv'
    BY <1>1, <1>2, <2>1, <2>3, IdleOpOK, FinishInv
  <2> QED BY <1>2, <2>1, <2>2, <2>4 DEF CapsInv, CapTypeOK, ConfInv
<1> QED BY <1>4, <1>5

(* A query throws. *)
LEMMA OpFailsInv ==
    ASSUME CapsInv, NEW h \in CHandlers, OpFails(h)
    PROVE  CapsInv'
<1>1. PICK u \in CUsers : u = cOp[h].user
  BY OpType
<1>2. /\ cOp' = [cOp EXCEPT ![h] = IdleOp] /\ UNCHANGED <<cRow, cSess, cStored, cConf, cLive, cKnown>>
      /\ cUnclear' = IF cOp[h].pc = "told" THEN cUnclear \cup {u} ELSE cUnclear
      /\ cOp[h].pc # "apply" /\ cOp[h].pc # "install"
  BY <1>1 DEF OpFails, Finished
<1>3. ClientsAreTold' /\ cUnclear' \subseteq CUsers
  BY <1>2, ToldSame DEF CapsInv, CapTypeOK
<1>4. CASE cOp[h].pc \in {"told", "load"}
  <2>1. \A v \in CUsers : v # u => (v \in cUnclear' <=> v \in cUnclear)
    BY <1>2
  <2>2. Current(u)' => cOp[h].pc = "load" /\ Current(u) /\ cSess'[u] = cSess[u]
    BY <1>2, <1>4 DEF Current
  <2>3. cOp' \in [CHandlers -> COp] /\ UsersInv'
    BY <1>1, <1>2, <1>4, <2>1, <2>2, IdleOpOK, FinishInv
  <2> QED BY <1>2, <1>3, <2>3 DEF CapsInv, CapTypeOK, ConfInv
<1>5. CASE cOp[h].pc \notin {"told", "load"}
  <2>1. UNCHANGED cUnclear /\ cOp[h].pc \notin {"apply", "told", "install", "load"}
    BY <1>2, <1>5
  <2>2. cOp' \in [CHandlers -> COp] /\ UsersInv'
    BY <1>2, <2>1, IdleOpOK, OutsideOp
  <2> QED BY <1>2, <1>3, <2>2 DEF CapsInv, CapTypeOK, ConfInv
<1> QED BY <1>4, <1>5

(* A session closes under the handlers that are about it. *)
LEMMA SessionClosesInv ==
    ASSUME CapsInv, NEW u \in CUsers, SessionCloses(u)
    PROVE  CapsInv'
<1>1. /\ cSess' = [cSess EXCEPT ![u] = NoSession] /\ cUnclear' = cUnclear \ {u}
      /\ cKnown' = [cKnown EXCEPT ![u] = "off"] /\ UNCHANGED <<cRow, cStored, cConf, cLive>>
      /\ cOp' = [h \in CHandlers |-> IF cOp[h].user = u THEN [cOp[h] EXCEPT !.sess = FALSE] ELSE cOp[h]]
  BY DEF SessionCloses
<1>2. NoSession \in CSession /\ NoSession.open = FALSE
  BY IdleOpOK DEF NoSession, CSession
<1>3. /\ cSess' \in [CUsers -> CSession] /\ cKnown' \in [CUsers -> {"on", "off", "refreshed"}]
      /\ cSess'[u] = NoSession /\ \A v \in CUsers : v # u => cSess'[v] = cSess[v]
      /\ ClientsAreTold'
  BY <1>1, <1>2, ToldInv
<1>4. ASSUME NEW g \in CHandlers
      PROVE  /\ cOp'[g] \in COp /\ cOp'[g].user = cOp[g].user /\ cOp'[g].pc = cOp[g].pc
             /\ cOp'[g].alone = cOp[g].alone /\ cOp'[g].doc = cOp[g].doc
             /\ cOp'[g].perm = cOp[g].perm /\ cOp'[g].pref = cOp[g].pref
             /\ cOp[g].user # u => cOp'[g] = cOp[g]
  <2>1. cOp[g] \in COp
    BY OpType
  <2>2. CASE cOp[g].user = u
    <3>1. cOp'[g] = [cOp[g] EXCEPT !.sess = FALSE]
      BY <1>1, <2>2
    <3> QED BY <2>1, <2>2, <3>1 DEF COp
  <2>3. CASE cOp[g].user # u
    BY <1>1, <2>1, <2>3
  <2> QED BY <2>2, <2>3
<1>5. cOp' \in [CHandlers -> COp]
  BY <1>1, <1>4
<1>6. ASSUME NEW v \in CUsers PROVE Between(v)' = Between(v)
  BY <1>4 DEF Between
<1>7. ASSUME NEW v \in CUsers, v # u PROVE UserOK(v)'
  <2>1. \A g \in Between(v) : cOp'[g] = cOp[g]
    BY <1>4, <1>7, BetweenDef
  <2>2. v \in cUnclear' <=> v \in cUnclear
    BY <1>1, <1>7
  <2> QED BY <1>1, <1>3, <1>6, <1>7, <2>1, <2>2, SameUser DEF CapsInv, UsersInv
<1>8. UserOK(u)'
  <2>1. ~Current(u)'
    BY <1>2, <1>3 DEF Current
  <2>2. ASSUME NEW g \in Between(u)' PROVE AloneOK(g, u)'
    <3>1. g \in CHandlers /\ g \in Between(u) /\ AloneOK(g, u)
      BY <1>6, <2>2, BetweenDef DEF CapsInv, UsersInv, UserOK
    <3> QED BY <1>1, <1>4, <1>6, <2>1, <3>1 DEF AloneOK
  <2> QED BY <2>1, <2>2 DEF UserOK
<1> QED BY <1>1, <1>3, <1>5, <1>7, <1>8 DEF CapsInv, CapTypeOK, ConfInv, UsersInv

(* The configuration of the server changes, its tools are fetched, or its  *)
(* context is made anew.                                                   *)
LEMMA ServerInv ==
    ASSUME CapsInv, ServerChanges
    PROVE  CapsInv'
<1>1. UNCHANGED <<cRow, cSess, cOp, cUnclear, cKnown>>
  BY DEF ServerChanges, UpdateServerCapabilities, UpdateTools, NewContext
<1>2. cStored' \in Flag /\ cConf' \in Flag /\ cLive' \in BOOLEAN /\ ConfInv'
  BY DEF ServerChanges, UpdateServerCapabilities, UpdateTools, NewContext, CapsInv, CapTypeOK, ConfInv
<1>3. ASSUME NEW v \in CUsers PROVE UserOK(v)'
  <2>1. Between(v)' = Between(v)
    BY <1>1 DEF Between
  <2> QED BY <1>1, <2>1, SameUser DEF CapsInv, UsersInv
<1>4. ClientsAreTold'
  BY <1>1, ToldSame
<1> QED BY <1>1, <1>2, <1>3, <1>4 DEF CapsInv, CapTypeOK, UsersInv

(* Nobody has a session at first. *)
LEMMA CapsInvInit == CapInit => CapsInv
<1> SUFFICES ASSUME CapInit PROVE CapsInv
  OBVIOUS
<1>1. NoSession \in CSession /\ NoSession.open = FALSE
  BY IdleOpOK DEF NoSession, CSession
<1>2. CapTypeOK
  BY <1>1, IdleOpOK DEF CapInit, CapTypeOK
<1>3. \A u \in CUsers : ~cSess[u].open /\ Between(u) = {}
  BY <1>1, IdleOpOK DEF CapInit, Between
<1>4. UsersInv
  BY <1>3 DEF UsersInv, UserOK, Current
<1> QED BY <1>2, <1>3, <1>4 DEF CapsInv, ConfInv, ClientsAreTold, CapInit

(* Every step keeps the invariant. *)
LEMMA CapsInvNext == CapsInv /\ [CapNext]_capVars => CapsInv'
<1> SUFFICES ASSUME CapsInv, [CapNext]_capVars PROVE CapsInv'
  OBVIOUS
<1>1. ASSUME NEW h \in CHandlers, NEW u \in CUsers, UserRequest(h, u, Doc, Doc) \/ ReadRequest(h, u)
      PROVE  CapsInv'
  <2>1. CASE Load(h, u)
    BY <2>1, BeginStep
  <2>2. CASE \/ \E perm \in Doc : UpdatePermissions(h, u, perm)
             \/ \E op \in {"get", "query", "set"}, wish \in Doc : GetCapabilities(h, u, op, wish)
    BY <2>2, RequestInv
  <2>3. UserRequest(h, u, Doc, Doc) => \/ Load(h, u)
                                       \/ \E perm \in Doc : UpdatePermissions(h, u, perm)
                                       \/ \E wish \in Doc : GetCapabilities(h, u, "set", wish)
    BY DEF UserRequest
  <2>4. ReadRequest(h, u) => \E op \in {"get", "query", "set"}, wish \in Doc : GetCapabilities(h, u, op, wish)
    BY IdleOpOK DEF ReadRequest
  <2> QED BY <1>1, <2>1, <2>2, <2>3, <2>4
<1>2. ASSUME NEW h \in CHandlers, CapStep(h) PROVE CapsInv'
  BY <1>2, BeginStep, ApplyInv, QueryInv, ReadPreferencesInv, InstallInv, LoadedInv, OpFailsInv
     DEF CapStep
<1>3. ASSUME NEW u \in CUsers, SessionCloses(u) PROVE CapsInv'
  BY <1>3, SessionClosesInv
<1>4. CASE ServerChanges
  BY <1>4, ServerInv
<1>5. CASE UNCHANGED capVars
  <2>1. UNCHANGED <<cRow, cSess, cStored, cConf, cLive, cOp, cUnclear, cKnown>>
    BY <1>5 DEF capVars
  <2>2. ASSUME NEW v \in CUsers PROVE UserOK(v)'
    <3>1. Between(v)' = Between(v)
      BY <2>1 DEF Between
    <3> QED BY <2>1, <3>1, SameUser DEF CapsInv, UsersInv
  <2>3. ClientsAreTold'
    BY <2>1, ToldSame
  <2> QED BY <2>1, <2>2, <2>3 DEF CapsInv, CapTypeOK, ConfInv, UsersInv
<1> QED BY <1>1, <1>2, <1>3, <1>4, <1>5 DEF CapNext

(* The inductive invariant holds for ever. *)
LEMMA CapsInvHolds == CapSpec => []CapsInv
BY CapsInvInit, CapsInvNext, PTL DEF CapSpec

(* Permissions, preferences and what is worked out of them keep their       *)
(* types: no answer names a tool of a server that is not there.             *)
THEOREM CapTypeCorrect == CapSpec => []CapTypeOK
<1>1. CapsInv => CapTypeOK
  BY DEF CapsInv
<1> QED BY <1>1, CapsInvHolds, PTL

(* docs/security.md, "Each layer can only restrict": whatever permission    *)
(* updates, preference updates, refreshes and new sessions overlapped       *)
(* before, a session that none of them is changing can call the tool only   *)
(* if the server's stored configuration and the user's row leave it on, and *)
(* getUserCapabilities shows as callable what canUseTool lets through.      *)
THEOREM LayersAlwaysHold == CapSpec => []LayersHold
<1>1. ASSUME CapsInv, NEW u \in Undisturbed
      PROVE  /\ cSess[u].perm = cRow[u].perm /\ cSess[u].pref = cRow[u].pref
             /\ cRow[u].perm.srv \in Flag /\ cRow[u].perm.tool \in Flag
             /\ cRow[u].pref.srv \in Flag /\ cRow[u].pref.tool \in Flag
  <2>1. u \in CUsers /\ Current(u) /\ Between(u) = {}
    BY DEF Undisturbed, Current
  <2>2. Changing(u) = {}
    BY <2>1 DEF Changing
  <2>3. Synced(u)
    BY <1>1, <2>1, <2>2 DEF CapsInv, UsersInv, UserOK
  <2>4. cRow[u].perm \in Doc /\ cRow[u].pref \in Doc
    BY <1>1, <2>1 DEF CapsInv, CapTypeOK, UserRow
  <2> QED BY <2>3, <2>4 DEF Synced, Doc
<1>2. ASSUME CapsInv PROVE LayersOnlyRestrict
  <2>1. cStored = "off" => cConf = "off"
    BY <1>2 DEF CapsInv, ConfInv
  <2>2. ASSUME NEW u \in Undisturbed, CanUseTool(u) PROVE Default(cStored, TRUE) /\ CanUse(cRow[u])
    <3>1. CanUse(cSess[u]) /\ cConf # "off"
      BY <2>2 DEF CanUseTool, Default
    <3>2. cStored \in Flag
      BY <1>2 DEF CapsInv, CapTypeOK
    <3>3. Default(cStored, TRUE)
      BY <2>1, <3>1, <3>2 DEF Default, Flag
    <3>4. CanUse(cRow[u])
      BY <1>1, <1>2, <3>1 DEF CanUse, CanAccessServer, CanUseToolByContext
    <3> QED BY <3>3, <3>4
  <2> QED BY <2>2 DEF LayersOnlyRestrict
<1>3. ASSUME CapsInv PROVE ShownIsCallable
  <2>1. ASSUME NEW u \in Undisturbed
        PROVE  LET a == Answer(cRow[u].perm, cRow[u].pref)
                   on == a.srv = "on" /\ a.tool = "on"
               IN (on => CanUseTool(u)) /\ (cLive /\ CanUseTool(u) => on)
    <3>1. PICK p, f : p = cRow[u].perm /\ f = cRow[u].pref
      OBVIOUS
    <3>2. /\ cSess[u].perm = p /\ cSess[u].pref = f
          /\ p.srv \in Flag /\ p.tool \in Flag /\ f.srv \in Flag /\ f.tool \in Flag
          /\ cConf \in Flag /\ cLive \in BOOLEAN
      BY <1>1, <1>3, <3>1 DEF CapsInv, CapTypeOK
    <3>3. CanUseTool(u) <=> /\ Shown(p) /\ f.srv # "off" /\ p.tool # "off" /\ f.tool # "off"
                            /\ cConf # "off"
      BY <3>2, PublicAssumption DEF CanUseTool, CanUse, CanAccessServer, CanUseToolByContext,
                                    Shown, Default, Flag
    <3>4. Shown(p) => /\ Answer(p, f).srv = (IF f.srv = "unset" THEN "on" ELSE f.srv)
                      /\ Answer(p, f).tool = Preferred(p, f)
      BY DEF Answer
    <3>5. ~Shown(p) => Answer(p, f).srv = "unset"
      BY DEF Answer, NoEntry
    <3>6. Offered = "on" => cConf # "off"
      BY DEF Offered
    <3>7. cLive /\ cConf # "off" => Offered = "on"
      BY <3>2 DEF Offered, Flag
    <3>8. Preferred(p, f) = "on" <=> /\ Shown(p) /\ Offered = "on" /\ p.tool # "off" /\ f.tool # "off"
      <4>1. Offered \in {"unset", "on"}
        BY <3>2 DEF Offered, Flag
      <4> QED BY <3>2, <4>1 DEF Preferred, Kept, Assigned, Flag
    <3> QED BY <3>1, <3>2, <3>3, <3>4, <3>5, <3>6, <3>7, <3>8 DEF Flag
  <2> QED BY <2>1 DEF ShownIsCallable
<1>4. CapsInv => LayersHold
  BY <1>2, <1>3 DEF LayersHold
<1> QED BY <1>4, CapsInvHolds, PTL

(* Only refreshUserInfo changes what a session may use without a list-      *)
(* changed notification to its client.                                      *)
THEOREM ClientsAlwaysTold == CapSpec => []ClientsAreTold
<1>1. CapsInv => ClientsAreTold
  BY DEF CapsInv
<1> QED BY <1>1, CapsInvHolds, PTL

-----------------------------------------------------------------------------
(* The composition that the run checks. *)

(* The documents of the run are documents. *)
LEMMA DocsAreDocs == PermDocs \cup Wishes \subseteq Doc
BY DEF PermDocs, Wishes, Only, NoEntry, Doc, Flag

(* What the parts of the run do, the handlers of Capabilities do.           *)
LEMMA PartsAreSteps ==
    ASSUME Permissions \/ Layers
    PROVE  CapNext
<1>1. first \in CUsers /\ second \in CUsers
  BY PairAssumption
<1>2. ASSUME NEW h \in CHandlers, NEW docs \in SUBSET Doc, NEW wishes \in SUBSET Doc, UserRequest(h, first, docs, wishes)
      PROVE  CapNext
  <2>1. UserRequest(h, first, Doc, Doc)
    BY <1>2 DEF UserRequest
  <2> QED
    BY <1>1, <2>1 DEF CapNext
<1>3. {NoEntry, Only("off", "on")} \in SUBSET Doc /\ {Only("on", "off"), Only("off", "on")} \in SUBSET Doc
  BY DocsAreDocs DEF PermDocs, Wishes
<1>4. PermDocs \in SUBSET Doc /\ Wishes \in SUBSET Doc
  BY DocsAreDocs
<1>5. CASE Permissions
  BY <1>1, <1>2, <1>3, <1>5 DEF Permissions, CapNext
<1>6. CASE Layers
  BY <1>1, <1>2, <1>4, <1>6 DEF Layers, CapNext
<1> QED
  BY <1>5, <1>6

(* The session store and the capabilities of the sessions, started together: *)
(* every behaviour of the composition is one of Sessions and one of          *)
(* Capabilities, so that what is proved of them holds of it                  *)
(* (SessionStore.ts, CapabilitiesService.ts).                                *)
THEOREM SessionsCompose == PartsSpec => Spec /\ CapSpec
<1>1. PartsInit => Init /\ CapInit
  BY DEF PartsInit
<1>2. [PartsNext]_sessionVars => [Next]_vars /\ [CapNext]_capVars
  BY PartsAreSteps DEF PartsNext, sessionVars
<1> QED
  BY <1>1, <1>2, PTL DEF PartsSpec, Spec, CapSpec

(* Maps, sessions and tasks of SessionStore, and rows, configurations and    *)
(* handlers of the capabilities, have their types in the composition, for    *)
(* any number of each.                                                       *)
THEOREM SessionsTypesHold == PartsSpec => []TypesOK
BY SessionsCompose, SessionsTypeCorrect, CapTypeCorrect, PTL DEF TypesOK
=============================================================================
