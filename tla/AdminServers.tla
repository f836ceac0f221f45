---------------------------- MODULE AdminServers ----------------------------
(***************************************************************************)
(* What the admin API does to servers (ServerHandler) and the user API to  *)
(* the servers a user configures from a template (UserRequestHandler).     *)
(* Each handler reads rows, closes or starts servers and writes rows in    *)
(* separate awaited calls, in an order of its own; a call that fails ends  *)
(* the handler where it is.                                                *)
(*                                                                         *)
(* A server is either managed for everybody or a template of which every   *)
(* user runs an instance (a temporary server).  How a connection is made   *)
(* is the business of ServerLifecycle: here a context has the launch       *)
(* configuration of its entity and the one its connection was made with.   *)
(***************************************************************************)
EXTENDS Integers, FiniteSets, Functions

CONSTANTS
    Servers,        \* server ids
    Templates,      \* those with allowUserInput
    People,         \* user ids
    Handlers,       \* admin and user requests in flight
    MaxConf         \* launch configurations there are

ASSUME TemplateAssumption == Templates \subseteq Servers
ASSUME ConfAssumption == MaxConf \in Nat \ {0}

VARIABLES
    srow,       \* the server table
    ctx,        \* ServerManager.serverContexts
    temps,      \* ServerManager.temporaryServers
    cfgs,       \* launchConfigs of the users
    prefs,      \* userPreferences of the users: the servers they are about
    scfg,       \* launchConfigs in the session of a user, if it has one
    live,       \* users with a session
    hs,         \* the handlers
    mixed       \* (history) servers that two requests worked on at once, templates
                \* that an update gave a managed context, and those that the
                \* configuration of another one may have lost for a user

srvVars == <<srow, ctx, temps, cfgs, prefs, scfg, live, hs, mixed>>

Confs == 1..MaxConf
NoConf == 0
NoPerson == "nobody"
SRow == [here : BOOLEAN, enabled : BOOLEAN, conf : Confs \cup {NoConf}]
NoRow == [here |-> FALSE, enabled |-> FALSE, conf |-> NoConf]

(* entity: the configuration of its serverEntity; run: the one its          *)
(* connection uses, NoConf without a connection.                            *)
Ctx == [here : BOOLEAN, entity : Confs \cup {NoConf}, run : Confs \cup {NoConf}]
NoCtx == [here |-> FALSE, entity |-> NoConf, run |-> NoConf]

Pc == {"idle", "start", "enable", "add", "stop", "close", "disable",
       "update", "write", "apply", "tail", "reauth", "launch", "save", "reconnect",
       "reauthCode", "create", "check", "exchange", "insert", "delete", "closeAll", "users", "forget", "remove", "drop",
       "bulk", "each", "wipe",
       "cfg", "cfgUser", "cfgMake", "cfgCode", "cfgSave", "cfgStart", "cfgPrefs",
       "unc", "uncClose", "uncSave", "uncPrefs", "temps"}
Handler == [pc : Pc, s : SUBSET Servers, u : People \cup {NoPerson},
            conf : Confs \cup {NoConf}, en : BOOLEAN, was : BOOLEAN, had : BOOLEAN,
            snap : [People -> SUBSET Templates], psnap : [People -> SUBSET Templates],
            todo : SUBSET People]
Nothing == [p \in People |-> {}]
Free == [pc |-> "idle", s |-> {}, u |-> NoPerson, conf |-> NoConf, en |-> FALSE,
         was |-> FALSE, had |-> FALSE, snap |-> Nothing, psnap |-> Nothing, todo |-> {}]

SrvInit ==
    /\ srow = [s \in Servers |-> NoRow]
    /\ ctx = [s \in Servers |-> NoCtx]
    /\ temps = {}
    /\ cfgs = Nothing /\ prefs = Nothing /\ scfg = Nothing
    /\ live = {}
    /\ hs = [h \in Handlers |-> Free]
    /\ mixed = {}

(* The servers that requests in flight work on.                             *)
Busy == UNION {hs[h].s : h \in Handlers}

Done(h) == hs' = [hs EXCEPT ![h] = Free]
Go(h, pc) == hs' = [hs EXCEPT ![h].pc = pc]
The(h) == CHOOSE s \in hs[h].s : TRUE

(* Requests that write back the configurations that users have of all       *)
(* templates, as they read them: of two at once one undoes the other.       *)
RewritePc == {"delete", "closeAll", "users", "forget",
              "cfg", "cfgUser", "cfgMake", "cfgCode", "cfgSave", "cfgStart", "cfgPrefs",
              "unc", "uncClose", "uncSave", "uncPrefs"}
Rewriting == Templates \cap UNION {hs[h].s : h \in {g \in Handlers : hs[g].pc \in RewritePc}}
Entangled(S, pc) ==
    IF pc \in RewritePc /\ S \cap Templates # {} /\ Rewriting # {}
    THEN Rewriting \cup (S \cap Templates) ELSE {}

Begin(h, S, r) ==
    /\ hs[h].pc = "idle"
    /\ hs' = [hs EXCEPT ![h] = [r EXCEPT !.s = S]]
    /\ mixed' = mixed \cup (S \cap Busy) \cup Entangled(S, r.pc)
    /\ UNCHANGED <<srow, ctx, temps, cfgs, prefs, scfg, live>>

(* Opening and closing a server report their errors and go on; a query may  *)
(* throw, and a check of the input may refuse the request.                  *)
Silent == {"idle", "add", "close", "apply", "tail", "reconnect", "closeAll", "drop",
           "uncClose", "temps"}

Throw(h) ==
    /\ hs[h].pc \notin Silent
    /\ Done(h)
    /\ UNCHANGED <<srow, ctx, temps, cfgs, prefs, scfg, live, mixed>>

Row(h) == srow[The(h)]
Of(t) == {x \in temps : x[1] = t}

(* removeServer, or closeAllTemporaryServersByTemplate. *)
Closed(s) ==
    IF s \in Templates THEN temps' = temps \ Of(s) /\ UNCHANGED ctx
    ELSE ctx' = [ctx EXCEPT ![s] = NoCtx] /\ UNCHANGED temps

(* The context after a connection with its entity was tried. *)
Connected(c) == {[here |-> TRUE, entity |-> c, run |-> c], [here |-> TRUE, entity |-> c, run |-> NoConf]}

(* addServer: a context whose configuration changed is disconnected first.  *)
AddServer(s, c) ==
    IF ctx[s].here /\ ctx[s].entity = c /\ ctx[s].run # NoConf THEN UNCHANGED ctx
    ELSE \E x \in Connected(c) : ctx' = [ctx EXCEPT ![s] = x]

-----------------------------------------------------------------------------
(* 2001, 2002: start and stop.                                              *)

StartServer(h, s) == Begin(h, {s}, [Free EXCEPT !.pc = "start"])
StopServer(h, s) == Begin(h, {s}, [Free EXCEPT !.pc = "stop"])

FindForStart(h) ==
    /\ hs[h].pc \in {"start", "stop"} /\ Row(h).here
    /\ Go(h, IF hs[h].pc = "start" THEN "enable" ELSE "close")
    /\ UNCHANGED <<srow, ctx, temps, cfgs, prefs, scfg, live, mixed>>

(* The instances of a template only learn of its new row.                   *)
Enable(h) ==
    /\ hs[h].pc = "enable" /\ Row(h).here
    /\ srow' = [srow EXCEPT ![The(h)].enabled = TRUE]
    /\ IF The(h) \in Templates THEN Done(h)
       ELSE hs' = [hs EXCEPT ![h].pc = "add", ![h].conf = Row(h).conf]
    /\ UNCHANGED <<ctx, temps, cfgs, prefs, scfg, live, mixed>>

AddStarted(h) ==
    /\ hs[h].pc = "add"
    /\ AddServer(The(h), hs[h].conf)
    /\ Done(h)
    /\ UNCHANGED <<srow, temps, cfgs, prefs, scfg, live, mixed>>

(* Closed first, disabled afterwards. *)
CloseStopped(h) ==
    /\ hs[h].pc = "close"
    /\ Closed(The(h))
    /\ Go(h, "disable")
    /\ UNCHANGED <<srow, cfgs, prefs, scfg, live, mixed>>

Disable(h) ==
    /\ hs[h].pc = "disable" /\ Row(h).here
    /\ srow' = [srow EXCEPT ![The(h)].enabled = FALSE]
    /\ Done(h)
    /\ UNCHANGED <<ctx, temps, cfgs, prefs, scfg, live, mixed>>

(* 2005, and at the start of the process: every enabled server that is not   *)
(* connected gets a new context, asleep if it starts lazily.                *)
ConnectAllServers ==
    /\ ctx' \in [Servers -> UNION {Connected(c) : c \in Confs} \cup Range(ctx)]
    /\ \A s \in Servers :
          IF srow[s].here /\ srow[s].enabled /\ s \notin Templates /\ ctx[s].run = NoConf
          THEN ctx'[s] \in Connected(srow[s].conf) ELSE ctx'[s] = ctx[s]
    /\ mixed' = mixed \cup {s \in Busy : srow[s].here /\ srow[s].enabled /\ s \notin Templates}
    /\ UNCHANGED <<srow, temps, cfgs, prefs, scfg, live, hs>>

-----------------------------------------------------------------------------
(* 2012: update.  A launch configuration comes with it or not.              *)

UpdateServer(h, s, c, en) ==
    /\ s \in Templates => c = NoConf
    /\ Begin(h, {s}, [Free EXCEPT !.pc = "update", !.conf = c, !.en = en])

FindForUpdate(h) ==
    /\ hs[h].pc = "update" /\ Row(h).here
    /\ hs' = [hs EXCEPT ![h].pc = "write", ![h].was = Row(h).enabled]
    /\ UNCHANGED <<srow, ctx, temps, cfgs, prefs, scfg, live, mixed>>

(* Mutant: a configuration that is not in the request is written too.       *)
WriteEverything(h) ==
    /\ hs[h].pc = "write" /\ Row(h).here
    /\ srow' = [srow EXCEPT ![The(h)].enabled = hs[h].en, ![The(h)].conf = hs[h].conf]
    /\ Go(h, "apply")
    /\ UNCHANGED <<ctx, temps, cfgs, prefs, scfg, live, mixed>>

(* The row is written before the running server is looked at.               *)
WriteUpdate(h) ==
    /\ hs[h].pc = "write" /\ Row(h).here
    /\ srow' = [srow EXCEPT ![The(h)].enabled = hs[h].en,
                            ![The(h)].conf = IF hs[h].conf = NoConf THEN @ ELSE hs[h].conf]
    /\ Go(h, "apply")
    /\ UNCHANGED <<ctx, temps, cfgs, prefs, scfg, live, mixed>>

(* updateLazyStartEnabled: switched on, a server without a context gets a   *)
(* sleeping one; switched off, a sleeping server is connected.              *)
LazyStartChanged(s) ==
    IF s \in Templates THEN UNCHANGED ctx
    ELSE \E x \in Connected(srow[s].conf) \cup {[ctx[s] EXCEPT !.entity = srow[s].conf]} :
            /\ x.run # NoConf => ctx[s].here
            /\ ctx' = [ctx EXCEPT ![s] = IF x.here THEN x ELSE NoCtx]

(* Switched on: addServer, for a template as well.                          *)
ApplyUpdate(h) ==
    /\ hs[h].pc = "apply"
    /\ LET s == The(h) IN
       CASE hs[h].was /\ hs[h].en ->
              \/ /\ Go(h, IF hs[h].conf = NoConf THEN "tail" ELSE "launch")
                 /\ UNCHANGED <<ctx, temps>>
              \/ /\ hs[h].conf = NoConf
                 /\ LazyStartChanged(s) /\ Done(h) /\ UNCHANGED temps
         [] hs[h].was /\ ~hs[h].en -> Closed(s) /\ Done(h)
         [] ~hs[h].was /\ hs[h].en -> AddServer(s, srow[s].conf) /\ Done(h) /\ UNCHANGED temps
         [] OTHER -> Done(h) /\ UNCHANGED <<ctx, temps>>
    /\ mixed' = mixed \cup {s \in Templates \cap hs[h].s : ~hs[h].was /\ hs[h].en}
    /\ UNCHANGED <<srow, cfgs, prefs, scfg, live>>

(* Not reconnected: the context is given the new row all the same.          *)
UpdateEntity(h) ==
    /\ hs[h].pc = "tail"
    /\ ctx' = [ctx EXCEPT ![The(h)].entity =
                 IF ctx[The(h)].here /\ hs[h].conf # NoConf THEN hs[h].conf ELSE @]
    /\ Done(h)
    /\ UNCHANGED <<srow, temps, cfgs, prefs, scfg, live, mixed>>

-----------------------------------------------------------------------------
(* updateServerLaunchConfig, from 2004, 2012 and 2017.                      *)

UpdateLaunchCmd(h, s, c) ==
    /\ s \notin Templates
    /\ Begin(h, {s}, [Free EXCEPT !.pc = "launch", !.conf = c])

(* 2017: the configuration is read, the code exchanged and a new one made.  *)
ReauthorizeOAuth(h, s, c) ==
    /\ s \notin Templates
    /\ Begin(h, {s}, [Free EXCEPT !.pc = "reauth", !.conf = c])

FindForReauth(h) ==
    /\ hs[h].pc = "reauth" /\ Row(h).here
    /\ Go(h, "reauthCode")
    /\ UNCHANGED <<srow, ctx, temps, cfgs, prefs, scfg, live, mixed>>

Reauthorized(h) ==
    /\ hs[h].pc = "reauthCode"
    /\ Go(h, "launch")
    /\ UNCHANGED <<srow, ctx, temps, cfgs, prefs, scfg, live, mixed>>

(* A configuration that is stored already changes nothing.  en: the call    *)
(* is made for an update of an enabled server.                              *)
FindForLaunch(h) ==
    /\ hs[h].pc = "launch" /\ Row(h).here
    /\ IF Row(h).conf = hs[h].conf
       THEN IF hs[h].en THEN Go(h, "tail") ELSE Done(h)
       ELSE hs' = [hs EXCEPT ![h].pc = "save", ![h].had = ctx[The(h)].here]
    /\ UNCHANGED <<srow, ctx, temps, cfgs, prefs, scfg, live, mixed>>

SaveLaunch(h) ==
    /\ hs[h].pc = "save" /\ Row(h).here
    /\ srow' = [srow EXCEPT ![The(h)].conf = hs[h].conf]
    /\ IF hs[h].had THEN Go(h, "reconnect") ELSE IF hs[h].en THEN Go(h, "tail") ELSE Done(h)
    /\ UNCHANGED <<ctx, temps, cfgs, prefs, scfg, live, mixed>>

Reconnect(h) ==
    /\ hs[h].pc = "reconnect"
    /\ \E x \in Connected(hs[h].conf) : ctx' = [ctx EXCEPT ![The(h)] = x]
    /\ Done(h)
    /\ UNCHANGED <<srow, temps, cfgs, prefs, scfg, live, mixed>>

-----------------------------------------------------------------------------
(* 2010, 2013, 2014: create and delete.                                     *)

CreateServer(h, s, en) ==
    /\ Begin(h, {s}, [Free EXCEPT !.pc = "create", !.en = en])

FindForCreate(h) ==
    /\ hs[h].pc = "create" /\ ~Row(h).here
    /\ Go(h, "check")
    /\ UNCHANGED <<srow, ctx, temps, cfgs, prefs, scfg, live, mixed>>

(* What is wrong with the input is a Throw.  A server whose launch          *)
(* configuration comes with an OAuth code needs it exchanged first.         *)
CheckCreate(h) ==
    /\ hs[h].pc = "check"
    /\ \/ The(h) \notin Templates /\ Go(h, "exchange")
       \/ Go(h, "insert")
    /\ UNCHANGED <<srow, ctx, temps, cfgs, prefs, scfg, live, mixed>>

ExchangeForCreate(h) ==
    /\ hs[h].pc = "exchange"
    /\ Go(h, "insert")
    /\ UNCHANGED <<srow, ctx, temps, cfgs, prefs, scfg, live, mixed>>

(* A created server is not started. *)
InsertServer(h) ==
    /\ hs[h].pc = "insert" /\ ~Row(h).here
    /\ srow' = [srow EXCEPT ![The(h)] = [here |-> TRUE, enabled |-> hs[h].en, conf |-> 1]]
    /\ Done(h)
    /\ UNCHANGED <<ctx, temps, cfgs, prefs, scfg, live, mixed>>

DeleteServer(h, s) == Begin(h, {s}, [Free EXCEPT !.pc = "delete"])

FindForDelete(h) ==
    /\ hs[h].pc = "delete" /\ Row(h).here
    /\ Go(h, IF The(h) \in Templates THEN "closeAll" ELSE "remove")
    /\ UNCHANGED <<srow, ctx, temps, cfgs, prefs, scfg, live, mixed>>

(* Mutant: the instances of a template are left running. *)
LeaveInstances(h) ==
    /\ hs[h].pc = "closeAll"
    /\ Go(h, "users")
    /\ UNCHANGED <<srow, ctx, temps, cfgs, prefs, scfg, live, mixed>>

CloseInstances(h) ==
    /\ hs[h].pc = "closeAll"
    /\ Closed(The(h))
    /\ Go(h, "users")
    /\ UNCHANGED <<srow, cfgs, prefs, scfg, live, mixed>>

(* removeServerFromAllUsers reads every user, and then writes them one by   *)
(* one, each with the configurations that were read.                        *)
ReadUsers(h) ==
    /\ hs[h].pc = "users"
    /\ hs' = [hs EXCEPT ![h].pc = "forget", ![h].snap = cfgs, ![h].psnap = prefs,
                        ![h].todo = {p \in People : The(h) \in cfgs[p] \cup prefs[p]}]
    /\ UNCHANGED <<srow, ctx, temps, cfgs, prefs, scfg, live, mixed>>

ForgetUser(h, p) ==
    /\ hs[h].pc = "forget" /\ p \in hs[h].todo
    /\ cfgs' = [cfgs EXCEPT ![p] = hs[h].snap[p] \ hs[h].s]
    /\ prefs' = [prefs EXCEPT ![p] = hs[h].psnap[p] \ hs[h].s]
    /\ hs' = [hs EXCEPT ![h].todo = @ \ {p}]
    /\ UNCHANGED <<srow, ctx, temps, scfg, live, mixed>>

RemoveRow(h) ==
    /\ \/ hs[h].pc = "remove"
       \/ hs[h].pc = "forget" /\ hs[h].todo = {}
    /\ Row(h).here
    /\ srow' = [srow EXCEPT ![The(h)] = NoRow]
    /\ IF The(h) \in Templates THEN Done(h) ELSE Go(h, "drop")
    /\ UNCHANGED <<ctx, temps, cfgs, prefs, scfg, live, mixed>>

DropContext(h) ==
    /\ hs[h].pc = "drop"
    /\ Closed(The(h))
    /\ Done(h)
    /\ UNCHANGED <<srow, cfgs, prefs, scfg, live, mixed>>

(* By proxy: what users configured is left in their rows.                   *)
DeleteByProxy(h) == Begin(h, Servers, [Free EXCEPT !.pc = "each"])

CloseEach(h) ==
    /\ hs[h].pc = "each"
    /\ ctx' = [s \in Servers |-> IF srow[s].here THEN NoCtx ELSE ctx[s]]
    /\ temps' = {x \in temps : ~srow[x[1]].here \/ ctx[x[1]].here}
    /\ Go(h, "wipe")
    /\ UNCHANGED <<srow, cfgs, prefs, scfg, live, mixed>>

Wipe(h) ==
    /\ hs[h].pc = "wipe"
    /\ srow' = [s \in Servers |-> NoRow]
    /\ Done(h)
    /\ UNCHANGED <<ctx, temps, cfgs, prefs, scfg, live, mixed>>

-----------------------------------------------------------------------------
(* A user configures a template, and takes it back.                         *)

Configure(h, p, t) ==
    /\ Begin(h, {t}, [Free EXCEPT !.pc = "cfg", !.u = p])

FindTemplate(h) ==
    /\ hs[h].pc = "cfg" /\ Row(h).here /\ Row(h).enabled
    /\ Go(h, "cfgUser")
    /\ UNCHANGED <<srow, ctx, temps, cfgs, prefs, scfg, live, mixed>>

(* The whole map is read here, and written back by SaveConfig.              *)
ReadUser(h) ==
    /\ hs[h].pc = "cfgUser"
    /\ hs' = [hs EXCEPT ![h].pc = "cfgMake", ![h].snap = cfgs, ![h].psnap = prefs]
    /\ UNCHANGED <<srow, ctx, temps, cfgs, prefs, scfg, live, mixed>>

(* The configuration is assembled from the input, or after an OAuth         *)
(* exchange, by the category of the template.                               *)
MakeConfig(h) ==
    /\ hs[h].pc = "cfgMake"
    /\ Go(h, "cfgSave") \/ Go(h, "cfgCode")
    /\ UNCHANGED <<srow, ctx, temps, cfgs, prefs, scfg, live, mixed>>

ExchangeForUser(h) ==
    /\ hs[h].pc = "cfgCode"
    /\ Go(h, "cfgSave")
    /\ UNCHANGED <<srow, ctx, temps, cfgs, prefs, scfg, live, mixed>>

(* The session is given the map, too, and forgets what only it still had.   *)
SaveConfig(h) ==
    /\ hs[h].pc = "cfgSave"
    /\ LET p == hs[h].u
           new == hs[h].snap[p] \cup hs[h].s
       IN /\ cfgs' = [cfgs EXCEPT ![p] = new]
          /\ scfg' = IF p \in live THEN [scfg EXCEPT ![p] = new] ELSE scfg
          /\ mixed' = mixed \cup (scfg[p] \ new)
    /\ Go(h, "cfgStart")
    /\ UNCHANGED <<srow, ctx, temps, prefs, live>>

StartInstance(h) ==
    /\ hs[h].pc = "cfgStart"
    /\ temps' = temps \cup {<<The(h), hs[h].u>>}
    /\ Go(h, "cfgPrefs")
    /\ UNCHANGED <<srow, ctx, cfgs, prefs, scfg, live, mixed>>

SavePrefs(h) ==
    /\ hs[h].pc = "cfgPrefs"
    /\ prefs' = [prefs EXCEPT ![hs[h].u] = hs[h].psnap[hs[h].u] \cup hs[h].s]
    /\ Done(h)
    /\ UNCHANGED <<srow, ctx, temps, cfgs, scfg, live, mixed>>

Unconfigure(h, p, t) ==
    /\ Begin(h, {t}, [Free EXCEPT !.pc = "unc", !.u = p])

ReadConfigured(h) ==
    /\ hs[h].pc = "unc"
    /\ IF The(h) \in cfgs[hs[h].u]
       THEN hs' = [hs EXCEPT ![h].pc = "uncClose", ![h].snap = cfgs, ![h].psnap = prefs]
       ELSE Done(h)
    /\ UNCHANGED <<srow, ctx, temps, cfgs, prefs, scfg, live, mixed>>

CloseInstance(h) ==
    /\ hs[h].pc = "uncClose"
    /\ temps' = temps \ {<<The(h), hs[h].u>>}
    /\ Go(h, "uncSave")
    /\ UNCHANGED <<srow, ctx, cfgs, prefs, scfg, live, mixed>>

(* The sessions of the user keep their copy. *)
RemoveConfig(h) ==
    /\ hs[h].pc = "uncSave"
    /\ cfgs' = [cfgs EXCEPT ![hs[h].u] = hs[h].snap[hs[h].u] \ hs[h].s]
    /\ Go(h, "uncPrefs")
    /\ UNCHANGED <<srow, ctx, temps, prefs, scfg, live, mixed>>

RemovePrefs(h) ==
    /\ hs[h].pc = "uncPrefs"
    /\ prefs' = [prefs EXCEPT ![hs[h].u] = hs[h].psnap[hs[h].u] \ hs[h].s]
    /\ Done(h)
    /\ UNCHANGED <<srow, ctx, temps, cfgs, scfg, live, mixed>>

-----------------------------------------------------------------------------
(* Sessions and calls start servers too.                                    *)

(* startUserTemporaryServers of a new session, with what was read when it   *)
(* was authenticated.                                                       *)
OpenSession(h, p) ==
    /\ p \notin live
    /\ hs[h].pc = "idle"
    /\ live' = live \cup {p}
    /\ scfg' = [scfg EXCEPT ![p] = cfgs[p]]
    /\ hs' = [hs EXCEPT ![h] = [Free EXCEPT !.pc = "temps", !.u = p, !.s = cfgs[p]]]
    /\ mixed' = mixed \cup (cfgs[p] \cap Busy)
    /\ UNCHANGED <<srow, ctx, temps, cfgs, prefs>>

(* Whether the template is enabled is not asked.                            *)
StartInstances(h) ==
    /\ hs[h].pc = "temps"
    /\ temps' = temps \cup {<<t, hs[h].u>> : t \in {x \in hs[h].s : srow[x].here}}
    /\ Done(h)
    /\ UNCHANGED <<srow, ctx, cfgs, prefs, scfg, live, mixed>>

(* closeUserTemporaryServers, with the last session of the user.            *)
CloseSession(p) ==
    /\ p \in live
    /\ live' = live \ {p}
    /\ scfg' = [scfg EXCEPT ![p] = {}]
    /\ temps' = {x \in temps : x[2] # p}
    /\ UNCHANGED <<srow, ctx, cfgs, prefs, hs, mixed>>

(* restoreServerContext: a call finds no context, but an enabled row.       *)
Restored(s) == mixed' = mixed \cup ({s} \cap Busy)

RestoreInstance(p, t) ==
    /\ p \in live /\ t \in scfg[p] /\ <<t, p>> \notin temps
    /\ srow[t].here /\ srow[t].enabled
    /\ temps' = temps \cup {<<t, p>>}
    /\ Restored(t)
    /\ UNCHANGED <<srow, ctx, cfgs, prefs, scfg, live, hs>>

RestoreContext(s) ==
    /\ s \notin Templates /\ ~ctx[s].here
    /\ srow[s].here /\ srow[s].enabled
    /\ \E x \in Connected(srow[s].conf) : ctx' = [ctx EXCEPT ![s] = x]
    /\ Restored(s)
    /\ UNCHANGED <<srow, temps, cfgs, prefs, scfg, live, hs>>

(* The process ends and comes back: connectAllServers. *)
SrvRestart ==
    /\ ctx' \in {f \in [Servers -> UNION {Connected(c) : c \in Confs} \cup {NoCtx}] :
                   \A s \in Servers :
                      IF srow[s].here /\ srow[s].enabled /\ s \notin Templates
                      THEN f[s] \in Connected(srow[s].conf) ELSE f[s] = NoCtx}
    /\ temps' = {} /\ live' = {} /\ scfg' = Nothing
    /\ hs' = [h \in Handlers |-> Free]
    /\ mixed' = {}
    /\ UNCHANGED <<srow, cfgs, prefs>>

HandlerStep(h) ==
    \/ FindForStart(h) \/ Enable(h) \/ AddStarted(h) \/ CloseStopped(h) \/ Disable(h)
    \/ FindForUpdate(h) \/ WriteUpdate(h) \/ ApplyUpdate(h) \/ UpdateEntity(h)
    \/ FindForReauth(h) \/ Reauthorized(h) \/ FindForLaunch(h) \/ SaveLaunch(h) \/ Reconnect(h)
    \/ FindForCreate(h) \/ CheckCreate(h) \/ ExchangeForCreate(h) \/ InsertServer(h)
    \/ FindForDelete(h) \/ CloseInstances(h) \/ ReadUsers(h)
    \/ \E p \in People : ForgetUser(h, p)
    \/ RemoveRow(h) \/ DropContext(h) \/ CloseEach(h) \/ Wipe(h)
    \/ FindTemplate(h) \/ ReadUser(h) \/ MakeConfig(h) \/ ExchangeForUser(h) \/ SaveConfig(h) \/ StartInstance(h) \/ SavePrefs(h)
    \/ ReadConfigured(h) \/ CloseInstance(h) \/ RemoveConfig(h) \/ RemovePrefs(h)
    \/ StartInstances(h) \/ Throw(h)

NewRequest(h, S) ==
    \/ DeleteByProxy(h)
    \/ \E p \in People : OpenSession(h, p)
    \/ \E p \in People, t \in S \cap Templates : Configure(h, p, t) \/ Unconfigure(h, p, t)
    \/ \E s \in S :
          \/ StartServer(h, s) \/ StopServer(h, s) \/ DeleteServer(h, s)
          \/ \E en \in BOOLEAN :
                \/ CreateServer(h, s, en)
                \/ \E c \in Confs \cup {NoConf} : UpdateServer(h, s, c, en)
          \/ \E c \in Confs : UpdateLaunchCmd(h, s, c) \/ ReauthorizeOAuth(h, s, c)

(* The requests that concern the servers S. *)
SrvNextOn(S) ==
    \/ \E h \in Handlers : NewRequest(h, S) \/ HandlerStep(h)
    \/ \E p \in People : CloseSession(p) \/ \E t \in Templates : RestoreInstance(p, t)
    \/ \E s \in Servers : RestoreContext(s)
    \/ ConnectAllServers \/ SrvRestart

SrvNext == SrvNextOn(Servers)

SrvSpec == SrvInit /\ [][SrvNext]_srvVars

-----------------------------------------------------------------------------
(* Every variable has its type, and a row has a launch configuration.       *)
SrvTypeOK ==
    /\ srow \in [Servers -> SRow]
    /\ \A s \in Servers : srow[s].here <=> srow[s].conf # NoConf
    /\ ctx \in [Servers -> Ctx]
    /\ temps \subseteq Templates \X People
    /\ {cfgs, prefs, scfg} \subseteq [People -> SUBSET Templates]
    /\ live \subseteq People
    /\ hs \in [Handlers -> Handler]
    /\ mixed \subseteq Servers

(* When the requests for a server came one after the other, each of them    *)
(* perhaps cut short by an error, nothing of it runs that should not: a     *)
(* context has an enabled row, and an instance a row and a user who, or     *)
(* whose session, still has its configuration.  Requests for other servers  *)
(* and calls of sessions may happen at any time.  Three things are in mixed *)
(* although the requests came one after the other: a template that an       *)
(* update enables, which gets a managed context that only a bulk delete     *)
(* removes, and then instead of its instances; templates whose users two    *)
(* requests wrote back at once; and a template that a session still knows   *)
(* after its user gave it up, until the user configures another one.        *)
NothingLeftRunning ==
    \A s \in Servers \ (mixed \cup Busy) :
       /\ ctx[s].here => srow[s].here /\ srow[s].enabled
       /\ \A p \in People : <<s, p>> \in temps => srow[s].here /\ s \in cfgs[p] \cup scfg[p]

(* The rows, contexts and instances make sense, and agree.                  *)
ServersSound == SrvTypeOK /\ NothingLeftRunning

(* docs/api/ADMIN_API.md: an update of the launch configuration of a        *)
(* running server will trigger reload or restart.                           *)
UpdateReloads ==
    \A s \in Servers \ (mixed \cup Busy) : ctx[s].run # NoConf => ctx[s].run = srow[s].conf
=============================================================================
