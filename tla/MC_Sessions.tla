---------------------------- MODULE MC_Sessions ----------------------------
(* The sessions of two users, and what a session may call. They share no    *)
(* state in the model, so a behaviour is about one part.                    *)
EXTENDS Sessions, Capabilities, TLC

CONSTANTS u1, u2, c1, c2, first, second
ASSUME PairAssumption == {first, second} \subseteq CUsers

VARIABLE part
sessionVars == <<vars, capVars, part>>

TwoUsers == (c1 :> u1) @@ (c2 :> u2)

\* Tasks are interchangeable, and so are the handlers, which the
\* configuration names alike, and the users of the sessions with their tokens.
SwapUsers == (u1 :> u2) @@ (u2 :> u1) @@ (c1 :> c2) @@ (c2 :> c1)
Symmetry == Permutations(Tasks) \cup {SwapUsers}

\* Permissions and preferences: without an entry, and with the tool or the
\* whole server turned off. The second user is restricted.
Only(srv, tool) == [srv |-> srv, tool |-> tool]
PermDocs == {NoEntry, Only("on", "off"), Only("off", "on")}
Wishes == {Only("on", "on"), Only("on", "off"), Only("off", "on")}
Rows == (first :> NoUserRow) @@ (second :> [NoUserRow EXCEPT !.perm = Only("on", "off")])

PartsInit ==
    /\ Init /\ CapInit
    /\ part \in {"sessions", "permissions", "layers"}
    /\ cRow = Rows
    /\ part # "layers" => cLive /\ cStored = "unset"

\* Two handlers at a time on one user; and one at a time, for either user,
\* while the server changes.
Permissions ==
    \/ \E h \in CHandlers : UserRequest(h, first, {NoEntry, Only("off", "on")}, {Only("on", "off"), Only("off", "on")}) \/ CapStep(h)
    \/ SessionCloses(first)
Layers ==
    \/ \E h \in CHandlers :
        \/ CapStep(h)
        \/ /\ \A g \in CHandlers : cOp[g].pc = "idle"
           /\ UserRequest(h, first, PermDocs, Wishes) \/ ReadRequest(h, first) \/ ReadRequest(h, second)
    \/ ServerChanges

PartsNext ==
    /\ \/ part = "sessions" /\ Next /\ UNCHANGED capVars
       \/ /\ \/ part = "permissions" /\ Permissions
             \/ part = "layers" /\ Layers
          /\ UNCHANGED vars
    /\ part' = part

PartsSpec == PartsInit /\ [][PartsNext]_sessionVars

\* The types of the maps, sessions and tasks (SessionStore.ts), and of rows,
\* configurations and handlers of the capabilities.
TypesOK == TypeOK /\ CapTypeOK
=============================================================================
