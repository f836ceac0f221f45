---------------------------- MODULE Capabilities ----------------------------
(***************************************************************************)
(* What a user may call on a managed server: the three layers (the         *)
(* server's own configuration, the permissions an administrator assigned,  *)
(* the preferences of the user) as the sessions, the capability answers    *)
(* and the database hold them.  One server and one of its tools; resources *)
(* and prompts go the same way.  Handlers interleave at every query.       *)
(***************************************************************************)
EXTENDS Naturals

CONSTANTS
    CUsers,
    CHandlers,
    CPublic     \* publicAccess of the server

ASSUME PublicAssumption == CPublic \in BOOLEAN
ASSUME UsersAssumption == CUsers # {}

VARIABLES
    cRow,       \* permissions and preferences in the user table
    cSess,      \* those in the authContext of the user's session
    cStored,    \* the tool in the capabilities of the server entity
    cConf,      \* the tool in capabilitiesConfig of its context
    cLive,      \* the context has fetched the list of tools
    cOp,        \* handlers in progress
    cUnclear,   \* (history) users whose session may be stale, see Loaded
    cKnown      \* (history) whether the client was last told that it may use
                \* the tool, or "refreshed": changed since without a word

capVars == <<cRow, cSess, cStored, cConf, cLive, cOp, cUnclear, cKnown>>

Flag == {"unset", "on", "off"}
(* A document has an entry for the server or none.                          *)
Doc == {d \in [srv : Flag, tool : Flag] : d.srv = "unset" => d.tool = "unset"}
NoEntry == [srv |-> "unset", tool |-> "unset"]

UserRow == [perm : Doc, pref : Doc]
NoUserRow == [perm |-> NoEntry, pref |-> NoEntry]
NoSession == [perm |-> NoEntry, pref |-> NoEntry, open |-> FALSE]
CSession == [perm : Doc, pref : Doc, open : BOOLEAN]

OpPc == {"idle", "write", "apply", "prefs", "perms", "answer", "save", "told", "install", "load"}
(* doc: what is to be written; perm, pref: what was read; sess: the session *)
(* it is about is still open; alone: no other handler has changed or loaded *)
(* the user since it began to.                                              *)
COp == [pc : OpPc, op : {"none", "update", "get", "query", "set", "refresh", "auth"},
        user : CUsers, doc : Doc, perm : Doc, pref : Doc, sess : BOOLEAN, alone : BOOLEAN]
IdleOp == [pc |-> "idle", op |-> "none", user |-> CHOOSE u \in CUsers : TRUE, doc |-> NoEntry,
           perm |-> NoEntry, pref |-> NoEntry, sess |-> FALSE, alone |-> TRUE]

Default(flag, d) == IF flag = "unset" THEN d ELSE flag = "on"

-----------------------------------------------------------------------------
(* canAccessServer and canUseTool: what a session may call.                 *)

CanAccessServer(s) == Default(s.perm.srv, CPublic) /\ Default(s.pref.srv, TRUE)

(* Mutant: the preferences of the user are left out. *)
ByPermissionsOnly(s) == Default(s.perm.tool, TRUE)

CanUseToolByContext(s) == Default(s.perm.tool, TRUE) /\ Default(s.pref.tool, TRUE)

CanUse(s) == CanAccessServer(s) /\ CanUseToolByContext(s)
CanUseTool(u) == CanUse(cSess[u]) /\ Default(cConf, TRUE)

-----------------------------------------------------------------------------
(* getCapabilitiesFromDatabase and getUserCapabilities.  Without a list of  *)
(* tools the entries are the objects of capabilitiesConfig themselves: what *)
(* is worked out for one user is written into them.                         *)

(* What the server offers: "unset" if the tool is not in the answer.        *)
Offered ==
    LET flag == IF cLive /\ cConf = "unset" THEN "on" ELSE cConf
    IN IF flag = "off" THEN "unset" ELSE flag

Assigned(perm) == IF Offered = "unset" \/ perm.tool = "unset" THEN Offered ELSE perm.tool
Shown(perm) == Default(perm.srv, CPublic)
Kept(perm) == IF Shown(perm) /\ Assigned(perm) = "on" THEN "on" ELSE "unset"
Preferred(perm, pref) ==
    IF Kept(perm) = "on" /\ pref.tool # "unset" THEN pref.tool ELSE Kept(perm)

Answer(perm, pref) ==
    IF ~Shown(perm) THEN NoEntry
    ELSE [srv |-> IF pref.srv = "unset" THEN "on" ELSE pref.srv, tool |-> Preferred(perm, pref)]

(* Mutant: the permissions are written over what the server has turned off. *)
WrittenOver(perm, pref, prefs) ==
    IF cLive \/ perm.tool = "unset" THEN cConf ELSE perm.tool

(* What is left in capabilitiesConfig. *)
Written(perm, pref, prefs) ==
    IF cLive \/ Offered = "unset" THEN cConf
    ELSE IF prefs /\ Kept(perm) = "on" THEN Preferred(perm, pref)
    ELSE Assigned(perm)

-----------------------------------------------------------------------------
CapInit ==
    /\ cRow \in [CUsers -> UserRow]
    /\ cSess = [u \in CUsers |-> NoSession]
    /\ cStored \in Flag
    /\ cConf = cStored
    /\ cLive \in BOOLEAN
    /\ cOp = [h \in CHandlers |-> IdleOp]
    /\ cUnclear = {}
    /\ cKnown = [u \in CUsers |-> "off"]

Finished(h) == cOp' = [cOp EXCEPT ![h] = IdleOp]

(* The handlers that have changed the row of a user, or read it, and are    *)
(* about to change the session accordingly.                                 *)
Between(u) == {h \in CHandlers : cOp[h].user = u /\ cOp[h].pc \in {"apply", "told", "install", "load"}}
BeginChange(h, op) ==
    cOp' = [g \in CHandlers |->
        IF g = h THEN [op EXCEPT !.alone = Between(op.user) = {}]
        ELSE IF g \in Between(op.user) THEN [cOp[g] EXCEPT !.alone = FALSE] ELSE cOp[g]]
Overlapped(h) == IF cOp[h].alone THEN cUnclear ELSE cUnclear \cup {cOp[h].user}

(* A list-changed notification: the client lists its tools again.           *)
Tell(u, s) == cKnown' = [cKnown EXCEPT ![u] = IF CanUse(s) THEN "on" ELSE "off"]

-----------------------------------------------------------------------------
(* updateUserPermissions.  Permissions that are in the row already end it.  *)

UpdatePermissions(h, u, perm) ==
    /\ cOp[h].pc = "idle" /\ cRow[u].perm # perm
    /\ cOp' = [cOp EXCEPT ![h] = [IdleOp EXCEPT !.pc = "write", !.op = "update", !.user = u, !.doc = perm]]
    /\ UNCHANGED <<cRow, cSess, cStored, cConf, cLive, cUnclear, cKnown>>

WritePermissions(h) ==
    /\ cOp[h].pc = "write"
    /\ cRow' = [cRow EXCEPT ![cOp[h].user].perm = cOp[h].doc]
    /\ BeginChange(h, [cOp[h] EXCEPT !.pc = "apply"])
    /\ UNCHANGED <<cSess, cStored, cConf, cLive, cUnclear, cKnown>>

(* The sessions there are get the new permissions and are told, and the     *)
(* capabilities are worked out for the desktop of the user.                 *)
ApplyPermissions(h) ==
    /\ cOp[h].pc = "apply"
    /\ LET u == cOp[h].user
           s == [cSess[u] EXCEPT !.perm = cOp[h].doc]
       IN IF cSess[u].open
          THEN cSess' = [cSess EXCEPT ![u] = s] /\ Tell(u, s)
          ELSE UNCHANGED <<cSess, cKnown>>
    /\ cUnclear' = Overlapped(h)
    /\ cOp' = [cOp EXCEPT ![h] = [IdleOp EXCEPT !.pc = "prefs", !.op = "get", !.user = cOp[h].user]]
    /\ UNCHANGED <<cRow, cStored, cConf, cLive>>

-----------------------------------------------------------------------------
(* getUserCapabilities, for the user, for a notification or as the first    *)
(* half of a setting; and the query of an administrator, which leaves the   *)
(* preferences out.                                                         *)

GetCapabilities(h, u, op, doc) ==
    /\ cOp[h].pc = "idle"
    /\ cOp' = [cOp EXCEPT ![h] = [IdleOp EXCEPT !.pc = "perms", !.op = op, !.user = u, !.doc = doc,
                                                !.pref = cRow[u].pref]]
    /\ UNCHANGED <<cRow, cSess, cStored, cConf, cLive, cUnclear, cKnown>>

ReadForDesktop(h) ==
    /\ cOp[h].pc = "prefs"
    /\ cOp' = [cOp EXCEPT ![h].pc = "perms", ![h].pref = cRow[cOp[h].user].pref]
    /\ UNCHANGED <<cRow, cSess, cStored, cConf, cLive, cUnclear, cKnown>>

ReadPermissions(h) ==
    /\ cOp[h].pc = "perms"
    /\ cOp' = [cOp EXCEPT ![h].pc = "answer", ![h].perm = cRow[cOp[h].user].perm]
    /\ UNCHANGED <<cRow, cSess, cStored, cConf, cLive, cUnclear, cKnown>>

SetFlag(current, wish) == IF current = "unset" \/ wish = "unset" THEN current ELSE wish

(* Mutant: a tool is set although its server is not there. *)
ExtractedUnchecked(current, wish) ==
    [srv |-> SetFlag(current.srv, wish.srv),
     tool |-> IF wish.tool = "unset" THEN current.tool ELSE wish.tool]

(* extractEnabledFields: only what is in the current capabilities is set.   *)
Extracted(current, wish) ==
    [srv |-> SetFlag(current.srv, wish.srv), tool |-> SetFlag(current.tool, wish.tool)]

(* The servers have been read; the rest is one step. *)
AnswerCapabilities(h) ==
    /\ cOp[h].pc = "answer"
    /\ cConf' = Written(cOp[h].perm, cOp[h].pref, cOp[h].op # "query")
    /\ cOp' = [cOp EXCEPT ![h] =
          IF cOp[h].op # "set" THEN IdleOp
          ELSE [IdleOp EXCEPT !.pc = "save", !.op = "set", !.user = cOp[h].user,
                              !.doc = Extracted(Answer(cOp[h].perm, cOp[h].pref), cOp[h].doc)]]
    /\ UNCHANGED <<cRow, cSess, cStored, cLive, cUnclear, cKnown>>

SavePreferences(h) ==
    /\ cOp[h].pc = "save"
    /\ cRow' = [cRow EXCEPT ![cOp[h].user].pref = cOp[h].doc]
    /\ BeginChange(h, [cOp[h] EXCEPT !.pc = "told", !.doc = NoEntry])
    /\ UNCHANGED <<cSess, cStored, cConf, cLive, cUnclear, cKnown>>

(* updateUserPreferences: the sessions are listed and the row is read. *)
ReadPreferences(h) ==
    /\ cOp[h].pc = "told"
    /\ IF cSess[cOp[h].user].open
       THEN /\ cOp' = [cOp EXCEPT ![h].pc = "install", ![h].sess = TRUE, ![h].pref = cRow[cOp[h].user].pref]
            /\ UNCHANGED cUnclear
       ELSE Finished(h) /\ cUnclear' = Overlapped(h)
    /\ UNCHANGED <<cRow, cSess, cStored, cConf, cLive, cKnown>>

(* Mutant: what is turned on or off for the whole server is no change. *)
ChangedTools(old, new) == old.tool # new.tool

(* comparePermissions *)
Changed(old, new) == old # new

(* A session is told if the preferences differ from those it has. *)
InstallPreferences(h) ==
    /\ cOp[h].pc = "install"
    /\ LET u == cOp[h].user
           s == [cSess[u] EXCEPT !.pref = cOp[h].pref]
       IN IF cOp[h].sess
          THEN /\ cSess' = [cSess EXCEPT ![u] = s]
               /\ IF Changed(cSess[u].pref, s.pref) THEN Tell(u, s) ELSE UNCHANGED cKnown
          ELSE UNCHANGED <<cSess, cKnown>>
    /\ cUnclear' = Overlapped(h)
    /\ Finished(h)
    /\ UNCHANGED <<cRow, cStored, cConf, cLive>>

-----------------------------------------------------------------------------
(* A request authenticates and makes a session, or comes for one whose user *)
(* was read more than five minutes ago (refreshUserInfo).                   *)

Load(h, u) ==
    /\ cOp[h].pc = "idle"
    /\ BeginChange(h, [IdleOp EXCEPT !.pc = "load", !.op = IF cSess[u].open THEN "refresh" ELSE "auth", !.user = u,
                               !.sess = cSess[u].open, !.perm = cRow[u].perm, !.pref = cRow[u].pref])
    /\ UNCHANGED <<cRow, cSess, cStored, cConf, cLive, cUnclear, cKnown>>

(* The whole context is replaced, and nobody is told.  Whoever was alone    *)
(* has what is in the row.                                                  *)
Loaded(h) ==
    /\ cOp[h].pc = "load"
    /\ LET u == cOp[h].user
           s == [perm |-> cOp[h].perm, pref |-> cOp[h].pref, open |-> TRUE]
           made == cOp[h].op = "auth" /\ ~cSess[u].open
       IN IF made \/ cOp[h].sess
          THEN /\ cSess' = [cSess EXCEPT ![u] = s]
               /\ cUnclear' = IF cOp[h].alone THEN cUnclear \ {u} ELSE cUnclear \cup {u}
               /\ IF made THEN Tell(u, s)
                  ELSE cKnown' = [cKnown EXCEPT ![u] = IF s = cSess[u] THEN @ ELSE "refreshed"]
          ELSE UNCHANGED <<cSess, cKnown, cUnclear>>
    /\ Finished(h)
    /\ UNCHANGED <<cRow, cStored, cConf, cLive>>

SessionCloses(u) ==
    /\ cSess[u].open
    /\ cSess' = [cSess EXCEPT ![u] = NoSession]
    /\ cOp' = [h \in CHandlers |-> IF cOp[h].user = u THEN [cOp[h] EXCEPT !.sess = FALSE] ELSE cOp[h]]
    /\ cUnclear' = cUnclear \ {u}
    /\ cKnown' = [cKnown EXCEPT ![u] = "off"]
    /\ UNCHANGED <<cRow, cStored, cConf, cLive>>

(* A query throws.  A row that was written stays so. *)
OpFails(h) ==
    /\ cOp[h].pc \in {"write", "prefs", "perms", "answer", "save", "told", "load"}
    /\ cUnclear' = IF cOp[h].pc = "told" THEN cUnclear \cup {cOp[h].user} ELSE cUnclear
    /\ Finished(h)
    /\ UNCHANGED <<cRow, cSess, cStored, cConf, cLive, cKnown>>

-----------------------------------------------------------------------------
(* The server: an administrator changes its configuration, its tools are    *)
(* fetched, its context is made anew.                                       *)

UpdateServerCapabilities(flag) ==
    /\ flag # cStored
    /\ cStored' = flag /\ cConf' = flag
    /\ UNCHANGED <<cRow, cSess, cLive, cOp, cUnclear, cKnown>>

UpdateTools ==
    /\ ~cLive
    /\ cLive' = TRUE
    /\ UNCHANGED <<cRow, cSess, cStored, cConf, cOp, cUnclear, cKnown>>

NewContext ==
    /\ cLive' = FALSE /\ cConf' = cStored
    /\ UNCHANGED <<cRow, cSess, cStored, cOp, cUnclear, cKnown>>

UserRequest(h, u, docs, wishes) ==
    \/ \E perm \in docs : UpdatePermissions(h, u, perm)
    \/ \E wish \in wishes : GetCapabilities(h, u, "set", wish)
    \/ Load(h, u)
ReadRequest(h, u) == \E op \in {"get", "query"} : GetCapabilities(h, u, op, NoEntry)

CapStep(h) ==
    \/ WritePermissions(h) \/ ApplyPermissions(h)
    \/ ReadForDesktop(h) \/ ReadPermissions(h) \/ AnswerCapabilities(h)
    \/ SavePreferences(h) \/ ReadPreferences(h) \/ InstallPreferences(h)
    \/ Loaded(h) \/ OpFails(h)

ServerChanges ==
    \/ \E flag \in Flag : UpdateServerCapabilities(flag)
    \/ UpdateTools \/ NewContext

CapNext ==
    \/ \E h \in CHandlers :
        \/ \E u \in CUsers : UserRequest(h, u, Doc, Doc) \/ ReadRequest(h, u)
        \/ CapStep(h)
    \/ \E u \in CUsers : SessionCloses(u)
    \/ ServerChanges

CapSpec == CapInit /\ [][CapNext]_capVars

-----------------------------------------------------------------------------
(* Every variable has its type. *)
CapTypeOK ==
    /\ cRow \in [CUsers -> UserRow]
    /\ cSess \in [CUsers -> CSession]
    /\ cStored \in Flag /\ cConf \in Flag /\ cLive \in BOOLEAN
    /\ cOp \in [CHandlers -> COp]
    /\ cUnclear \subseteq CUsers
    /\ cKnown \in [CUsers -> {"on", "off", "refreshed"}]

(* Users with a session that no handler is about to change, and that no     *)
(* overlap or failure has left stale since it was last loaded.              *)
Undisturbed == {u \in CUsers : cSess[u].open /\ u \notin cUnclear /\ Between(u) = {}}

(* docs/security.md: "Each layer can only restrict", "If any layer disables *)
(* a capability, it is unavailable".  Whatever was answered to whom, and    *)
(* whichever contexts came and went, a session can call the tool only if    *)
(* the server's stored configuration, the permissions and the preferences   *)
(* in the database all leave it on.                                         *)
LayersOnlyRestrict ==
    \A u \in Undisturbed : CanUseTool(u) => Default(cStored, TRUE) /\ CanUse(cRow[u])

(* What getUserCapabilities would answer is what the session may do, though *)
(* the two are computed by different code from different copies: a tool     *)
(* that is answered as on can be called, and, once the tools have been      *)
(* fetched, one that can be called is answered.                             *)
ShownIsCallable ==
    \A u \in Undisturbed :
        LET a == Answer(cRow[u].perm, cRow[u].pref)
            on == a.srv = "on" /\ a.tool = "on"
        IN (on => CanUseTool(u)) /\ (cLive /\ CanUseTool(u) => on)

(* Nothing but the refresh of a session changes what it may use without a   *)
(* word to its client: after every permission, preference and session that  *)
(* is installed, in whatever order, what a client was last told is what it  *)
(* may use.                                                                 *)
ClientsAreTold ==
    \A u \in CUsers : cSess[u].open => cKnown[u] \in {"refreshed", IF CanUse(cSess[u]) THEN "on" ELSE "off"}

(* The layers hold: what is off in one of them can neither be called nor is *)
(* shown as callable.                                                       *)
LayersHold == LayersOnlyRestrict /\ ShownIsCallable
=============================================================================
