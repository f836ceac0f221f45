------------------------------- MODULE OAuth -------------------------------
(***************************************************************************)
(* The OAuth authorization server: client registration, the authorize      *)
(* endpoint and the desk flow, the exchange of a code, refresh,            *)
(* revocation, and the validation of access tokens by AuthMiddleware and   *)
(* the introspection endpoint.                                             *)
(*                                                                         *)
(* Every endpoint reads, checks and then writes the database in separate   *)
(* awaited calls, so that requests of one grant interleave.  One database  *)
(* call, with the code up to the next one, is one step.  A redirect, a     *)
(* PKCE verifier, a secret, an expired refresh token or a resource that    *)
(* does not match is a refusal that may happen to any request (Refuse);    *)
(* there is one user and one issuer.                                       *)
(***************************************************************************)
EXTENDS Integers, FiniteSets

CONSTANTS
    Clients,        \* client ids
    UrlClients,     \* those that are https URLs
    Scopes,         \* MCP_OAUTH_SCOPES
    Legacy,         \* the default scopes of clients registered long ago
    Asked,          \* the sets of scopes that clients register and ask for
    Flows,          \* desk authorization flows
    Reqs,           \* requests in flight
    MaxCodes,       \* authorization codes that are created
    MaxRows,        \* rows of tokens that are created
    MaxAccess,      \* access tokens that are generated
    Registrations,  \* registrations of clients that succeed
    Absent,         \* the scopes of a client that is not registered
    NoClient        \* a request without client credentials

ASSUME UrlAssumption == UrlClients \subseteq Clients
ASSUME LegacyAssumption == Asked \subseteq SUBSET Scopes /\ {} \notin Asked /\ {Legacy, Scopes} \subseteq Asked
ASSUME NoneAssumption == NoClient \notin Clients
ASSUME AbsentAssumption == \A S \in SUBSET Scopes : S # Absent
ASSUME BoundAssumption == {MaxCodes, MaxRows, MaxAccess, Registrations} \subseteq Nat

VARIABLES
    clients,    \* the scopes of a registered client, or Absent
    registered, \* how many registrations there were
    codes,      \* OAuthAuthorizationCode
    rows,       \* OAuthToken
    made,       \* (history) the row an access token was generated for
    enabled,    \* the user is enabled and has not expired
    flows,      \* DeskAuthorizationFlowService.flows
    reqs

vars == <<clients, registered, codes, rows, made, enabled, flows, reqs>>

Codes == 1..MaxCodes
Rows == 1..MaxRows
Accesses == 1..MaxAccess
None == 0

Code == [st : {"free", "open", "used", "gone"}, client : Clients \cup {NoClient},
         scopes : SUBSET Scopes, expired : BOOLEAN]
FreeCode == [st |-> "free", client |-> NoClient, scopes |-> {}, expired |-> FALSE]

(* code (history): the code it was issued for.  told (history): a           *)
(* revocation of it was answered.  refresh: it has a refresh token; fresh:  *)
(* its access token has not expired.                                        *)
Row == [st : {"free", "row", "gone"}, client : Clients \cup {NoClient},
        code : Codes \cup {None}, access : Accesses \cup {None}, scopes : SUBSET Scopes,
        revoked : BOOLEAN, told : BOOLEAN,
        refresh : BOOLEAN, fresh : BOOLEAN]
FreeRow == [st |-> "free", client |-> NoClient, code |-> None, access |-> None,
            scopes |-> {}, revoked |-> FALSE, told |-> FALSE,
            refresh |-> FALSE, fresh |-> FALSE]

(* Only a completed flow has a redirect; it carries a code, or an error. *)
Flow == [st : {"completed"}, client : Clients, code : Codes \cup {None}]
        \cup [st : {"none", "pending", "failed", "expired", "dropped"},
              client : Clients \cup {NoClient}, code : {None}]
NoFlow == [st |-> "none", client |-> NoClient, code |-> None]

(* auth: the client is looked up for an authorization.  late (history): the *)
(* row of the access token to validate had been deleted, or its revocation  *)
(* answered, before the validation began.                                   *)
Req == [pc : {"idle", "fetch", "reg", "regnew", "cb", "grant", "ask", "insert", "finish", "code", "claim", "issue",
              "refresh", "renew", "find", "revoke", "check", "user", "accepted"},
        client : Clients \cup {NoClient}, flow : Flows \cup {None},
        code : Codes \cup {None}, row : Rows \cup {None}, access : Accesses \cup {None},
        scopes : SUBSET Scopes, auth : BOOLEAN, late : BOOLEAN]
Idle == [pc |-> "idle", client |-> NoClient, flow |-> None, code |-> None, row |-> None,
         access |-> None, scopes |-> {}, auth |-> FALSE, late |-> FALSE]

Init ==
    /\ clients = [c \in Clients |-> Absent]
    /\ registered = 0
    /\ codes = [k \in Codes |-> FreeCode]
    /\ rows = [r \in Rows |-> FreeRow]
    /\ made = [a \in Accesses |-> None]
    /\ enabled = TRUE
    /\ flows = [f \in Flows |-> NoFlow]
    /\ reqs = [q \in Reqs |-> Idle]

Registered(c) == c \in Clients /\ clients[c] # Absent
ById(S) == CHOOSE i \in S : \A j \in S : i <= j
FreeCodes == {k \in Codes : codes[k].st = "free"}
FreeRows == {r \in Rows : rows[r].st = "free"}

(* The request is answered, or goes on to another of its database calls.    *)
Answer(q) == reqs' = [reqs EXCEPT ![q] = Idle]
GoOn(q, pc) == reqs' = [reqs EXCEPT ![q].pc = pc]
Start(q, r) == reqs[q].pc = "idle" /\ reqs' = [reqs EXCEPT ![q] = r]

(* Mutant: a callback settles a flow that another one has settled.          *)
SettledAgain(f, st, k) ==
    IF f = None THEN flows
    ELSE [flows EXCEPT ![f].st = st, ![f].code = IF st = "completed" THEN k ELSE @]

(* completeFlow and failFlow: only a pending flow is settled.               *)
Settled(f, st, k) ==
    IF f = None \/ flows[f].st # "pending" THEN flows
    ELSE [flows EXCEPT ![f].st = st, ![f].code = k]

(* An error is answered; what was written before stays written.             *)
Fail(q) == Answer(q) /\ flows' = Settled(reqs[q].flow, "failed", None)

(* A check that the model leaves out fails, or a database call throws.      *)
Refuse(q) ==
    /\ reqs[q].pc # "idle"
    /\ Fail(q)
    /\ UNCHANGED <<clients, registered, codes, rows, made, enabled>>

-----------------------------------------------------------------------------
(* Clients.                                                                 *)

Add(c, sc) ==
    /\ registered < Registrations
    /\ clients' = [clients EXCEPT ![c] = sc]
    /\ registered' = registered + 1

(* A client that names no URL gets an id of its own. *)
RegisterClient(c) ==
    /\ c \notin UrlClients /\ clients[c] = Absent
    /\ \A k \in Codes : codes[k].client # c
    /\ \E sc \in Asked : Add(c, sc)
    /\ UNCHANGED <<codes, rows, made, enabled, flows, reqs>>

RegisterUrl(q, c) ==
    /\ c \in UrlClients
    /\ Start(q, [Idle EXCEPT !.pc = "fetch", !.client = c])
    /\ UNCHANGED <<clients, registered, codes, rows, made, enabled, flows>>

(* The metadata document of the URL is cached or fetched, and is valid.     *)
FetchMetadata(q) ==
    /\ reqs[q].pc = "fetch"
    /\ GoOn(q, "reg")
    /\ UNCHANGED <<clients, registered, codes, rows, made, enabled, flows>>

(* The authorization request goes on with the scopes of its client: the     *)
(* desk has had its user validated, the authorize endpoint does that now.   *)
WithClient(q, sc) ==
    reqs' = [reqs EXCEPT ![q].pc = IF reqs[q].flow = None THEN "ask" ELSE "insert",
                         ![q].scopes = sc]

(* A known client is answered, with the legacy scopes replaced.             *)
FindUrlClient(q) ==
    /\ reqs[q].pc = "reg"
    /\ LET c == reqs[q].client
           sc == IF clients[c] = Legacy THEN Scopes ELSE clients[c] IN
       IF Registered(c)
       THEN /\ clients' = [clients EXCEPT ![c] = sc]
            /\ IF reqs[q].auth THEN WithClient(q, sc) ELSE Answer(q)
       ELSE GoOn(q, "regnew") /\ UNCHANGED clients
    /\ UNCHANGED <<registered, codes, rows, made, enabled, flows>>

(* The client id is the primary key: the second of two creations throws.    *)
CreateUrlClient(q) ==
    /\ reqs[q].pc = "regnew"
    /\ \/ /\ Registered(reqs[q].client)
          /\ Fail(q)
          /\ UNCHANGED <<clients, registered>>
       \/ /\ ~Registered(reqs[q].client)
          /\ Add(reqs[q].client, Scopes)
          /\ IF reqs[q].auth THEN WithClient(q, Scopes) ELSE Answer(q)
          /\ UNCHANGED flows
    /\ UNCHANGED <<codes, rows, made, enabled>>

UpdateClient(c) ==
    /\ Registered(c)
    /\ \E sc \in Asked : sc # clients[c] /\ clients' = [clients EXCEPT ![c] = sc]
    /\ UNCHANGED <<registered, codes, rows, made, enabled, flows, reqs>>

(* Mutant: the codes of the client are left. *)
DeleteClientOnly(c) ==
    /\ Registered(c)
    /\ clients' = [clients EXCEPT ![c] = Absent]
    /\ rows' = [r \in Rows |-> IF rows[r].client = c THEN [rows[r] EXCEPT !.st = "gone"] ELSE rows[r]]
    /\ UNCHANGED <<registered, codes, made, enabled, flows, reqs>>

(* One transaction. *)
DeleteClient(c) ==
    /\ Registered(c)
    /\ clients' = [clients EXCEPT ![c] = Absent]
    /\ codes' = [k \in Codes |-> IF codes[k].client = c THEN [codes[k] EXCEPT !.st = "gone"] ELSE codes[k]]
    /\ rows' = [r \in Rows |-> IF rows[r].client = c THEN [rows[r] EXCEPT !.st = "gone"] ELSE rows[r]]
    /\ UNCHANGED <<registered, made, enabled, flows, reqs>>

-----------------------------------------------------------------------------
(* Consent: the authorize endpoint, and the desk flow.                      *)

(* showAuthorizePage: a flow of the same parameters is used again. *)
CreateFlow(f, c) ==
    /\ flows[f].st = "none" /\ Registered(c)
    /\ flows' = [flows EXCEPT ![f] = [st |-> "pending", client |-> c, code |-> None]]
    /\ UNCHANGED <<clients, registered, codes, rows, made, enabled, reqs>>

(* getFlow and cleanupExpired. *)
ExpireFlow(f) ==
    /\ flows[f].st \in {"pending", "failed", "expired"}
    /\ flows' = [flows EXCEPT ![f].st = IF @ = "pending" THEN "expired" ELSE "dropped"]
    /\ UNCHANGED <<clients, registered, codes, rows, made, enabled, reqs>>

(* The flow is not claimed: two callbacks can both find it pending.         *)
DeskCallback(q, f) ==
    /\ flows[f].st = "pending"
    /\ Start(q, [Idle EXCEPT !.pc = "cb", !.flow = f, !.client = flows[f].client, !.auth = TRUE])
    /\ UNCHANGED <<clients, registered, codes, rows, made, enabled, flows>>

ValidateDeskUser(q) ==
    /\ reqs[q].pc = "cb" /\ enabled
    /\ GoOn(q, "grant")
    /\ UNCHANGED <<clients, registered, codes, rows, made, enabled, flows>>

Authorize(q, c) ==
    /\ Start(q, [Idle EXCEPT !.pc = "grant", !.client = c, !.auth = TRUE])
    /\ UNCHANGED <<clients, registered, codes, rows, made, enabled, flows>>

(* A client that is an https URL is registered on the way if need be.       *)
GetAuthorizationClient(q) ==
    /\ reqs[q].pc = "grant"
    /\ LET c == reqs[q].client IN
       IF c \in UrlClients THEN GoOn(q, "fetch")
       ELSE Registered(c) /\ WithClient(q, clients[c])
    /\ UNCHANGED <<clients, registered, codes, rows, made, enabled, flows>>

ValidateUser(q) ==
    /\ reqs[q].pc = "ask" /\ enabled
    /\ GoOn(q, "insert")
    /\ UNCHANGED <<clients, registered, codes, rows, made, enabled, flows>>

(* The scopes asked for are within those the client had when it was read.   *)
(* The row refers to its client, which must still be there.                 *)
CreateCode(q) ==
    /\ reqs[q].pc = "insert" /\ Registered(reqs[q].client) /\ FreeCodes # {}
    /\ LET k == ById(FreeCodes) IN
       /\ \E sc \in Asked \cap SUBSET reqs[q].scopes :
             codes' = [codes EXCEPT ![k] = [FreeCode EXCEPT !.st = "open", !.scopes = sc,
                                                           !.client = reqs[q].client]]
       /\ reqs' = [reqs EXCEPT ![q].pc = "finish", ![q].code = k]
    /\ UNCHANGED <<clients, registered, rows, made, enabled, flows>>

(* Scopes or a resource beyond the client's: an error redirect, with which  *)
(* the flow is completed as well.                                           *)
ErrorRedirect(q) ==
    /\ reqs[q].pc = "insert"
    /\ flows' = Settled(reqs[q].flow, "completed", None)
    /\ Answer(q)
    /\ UNCHANGED <<clients, registered, codes, rows, made, enabled>>

CompleteFlow(q) ==
    /\ reqs[q].pc = "finish"
    /\ flows' = Settled(reqs[q].flow, "completed", reqs[q].code)
    /\ Answer(q)
    /\ UNCHANGED <<clients, registered, codes, rows, made, enabled>>

-----------------------------------------------------------------------------
(* The token endpoint: authorization_code.                                  *)

(* The client is found and its secret verified. *)
Exchange(q, c, k) ==
    /\ Registered(c) /\ codes[k].st # "free"
    /\ Start(q, [Idle EXCEPT !.pc = "code", !.client = c, !.code = k])
    /\ UNCHANGED <<clients, registered, codes, rows, made, enabled, flows>>

(* The row is read and checked. *)
FindCode(q) ==
    /\ reqs[q].pc = "code"
    /\ LET k == codes[reqs[q].code] IN
       IF k.st = "open" /\ ~k.expired /\ k.client = reqs[q].client
       THEN reqs' = [reqs EXCEPT ![q].pc = "claim", ![q].scopes = k.scopes]
       ELSE Answer(q)
    /\ UNCHANGED <<clients, registered, codes, rows, made, enabled, flows>>

(* Mutant: the claim does not ask whether the code was used meanwhile. *)
ClaimableStale(k) == codes[k].st \in {"open", "used"} /\ ~codes[k].expired

(* What updateMany selects. *)
Claimable(k) == codes[k].st = "open" /\ ~codes[k].expired

ClaimCode(q) ==
    /\ reqs[q].pc = "claim"
    /\ IF Claimable(reqs[q].code)
       THEN /\ codes' = [codes EXCEPT ![reqs[q].code].st = "used"]
            /\ GoOn(q, "issue")
       ELSE Answer(q) /\ UNCHANGED codes
    /\ UNCHANGED <<clients, registered, rows, made, enabled, flows>>

FreeAccess == {a \in Accesses : made[a] = None}

(* The row is made from what FindCode read.  A refusal here leaves a code   *)
(* that is used and nothing to show for it.                                 *)
CreateToken(q) ==
    /\ reqs[q].pc = "issue" /\ Registered(reqs[q].client)
    /\ FreeRows # {} /\ FreeAccess # {}
    /\ LET r == ById(FreeRows)
           a == ById(FreeAccess) IN
       /\ \E rt \in BOOLEAN :
             rows' = [rows EXCEPT ![r] = [FreeRow EXCEPT
                        !.st = "row", !.client = reqs[q].client, !.code = reqs[q].code,
                        !.access = a, !.scopes = reqs[q].scopes, !.refresh = rt, !.fresh = TRUE]]
       /\ made' = [made EXCEPT ![a] = r]
    /\ Answer(q)
    /\ UNCHANGED <<clients, registered, codes, enabled, flows>>

-----------------------------------------------------------------------------
(* The token endpoint: refresh_token.  The refresh token is not replaced.   *)

Refresh(q, c, r) ==
    /\ Registered(c) /\ rows[r].refresh
    /\ Start(q, [Idle EXCEPT !.pc = "refresh", !.client = c, !.row = r])
    /\ UNCHANGED <<clients, registered, codes, rows, made, enabled, flows>>

FindRefresh(q) ==
    /\ reqs[q].pc = "refresh"
    /\ LET row == rows[reqs[q].row] IN
       IF row.st = "row" /\ ~row.revoked /\ row.client = reqs[q].client
       THEN \E sc \in Asked \cap SUBSET row.scopes :
               reqs' = [reqs EXCEPT ![q].pc = "renew", ![q].scopes = sc]
       ELSE Answer(q)
    /\ UNCHANGED <<clients, registered, codes, rows, made, enabled, flows>>

(* Mutant: the whole record that was read is written back. *)
RenewedWhole(row, a, sc) ==
    [row EXCEPT !.access = a, !.scopes = sc, !.fresh = TRUE, !.revoked = FALSE]

Renewed(row, a, sc) == [row EXCEPT !.access = a, !.scopes = sc, !.fresh = TRUE]

RenewToken(q) ==
    /\ reqs[q].pc = "renew" /\ FreeAccess # {}
    /\ LET r == reqs[q].row
           a == ById(FreeAccess) IN
       IF rows[r].st = "row"
       THEN /\ rows' = [rows EXCEPT ![r] = Renewed(@, a, reqs[q].scopes)]
            /\ made' = [made EXCEPT ![a] = r]
       ELSE UNCHANGED <<rows, made>>
    /\ Answer(q)
    /\ UNCHANGED <<clients, registered, codes, enabled, flows>>

-----------------------------------------------------------------------------
(* Revocation, by the refresh token or by an access token.                  *)

Revoke(q, c, r, a) ==
    /\ Registered(c) \/ c = NoClient
    /\ IF a = None THEN rows[r].refresh ELSE made[a] = r
    /\ Start(q, [Idle EXCEPT !.pc = "find", !.client = c, !.row = r, !.access = a])
    /\ UNCHANGED <<clients, registered, codes, rows, made, enabled, flows>>

(* A token that was replaced, or is another client's, is answered as if it  *)
(* had been revoked.                                                        *)
FindToken(q) ==
    /\ reqs[q].pc = "find"
    /\ LET row == rows[reqs[q].row] IN
       IF /\ row.st = "row" /\ reqs[q].access \in {None, row.access}
          /\ reqs[q].client \in {NoClient, row.client}
       THEN GoOn(q, "revoke")
       ELSE Answer(q)
    /\ UNCHANGED <<clients, registered, codes, rows, made, enabled, flows>>

(* The row is named by its id, so that a token issued since goes with it.   *)
RevokeToken(q) ==
    /\ reqs[q].pc = "revoke"
    /\ LET r == reqs[q].row IN
       rows' = IF rows[r].st = "row"
               THEN [rows EXCEPT ![r].revoked = TRUE, ![r].told = TRUE] ELSE rows
    /\ Answer(q)
    /\ UNCHANGED <<clients, registered, codes, made, enabled, flows>>

-----------------------------------------------------------------------------
(* OAuthTokenValidator, for a request with the token or an introspection by *)
(* a client.                                                                *)

Check(q, c, a) ==
    /\ made[a] # None
    /\ LET row == rows[made[a]] IN
       Start(q, [Idle EXCEPT !.pc = "check", !.access = a, !.client = c,
                             !.late = row.told \/ row.st = "gone"])
    /\ UNCHANGED <<clients, registered, codes, rows, made, enabled, flows>>

Validate(q, a) == Check(q, NoClient, a)

Introspect(q, c, a) == Registered(c) /\ Check(q, c, a)

(* Mutant: the token that was signed is trusted without the row's state.    *)
UsableSigned(a) == \E r \in Rows : rows[r].st = "row" /\ rows[r].access = a /\ rows[r].fresh

Usable(a) ==
    \E r \in Rows : /\ rows[r].st = "row" /\ rows[r].access = a
                     /\ ~rows[r].revoked /\ rows[r].fresh

CheckToken(q) ==
    /\ reqs[q].pc = "check"
    /\ IF Usable(reqs[q].access) THEN GoOn(q, "user") ELSE Answer(q)
    /\ UNCHANGED <<clients, registered, codes, rows, made, enabled, flows>>

(* A client is told only of its own tokens. *)
CheckUser(q) ==
    /\ reqs[q].pc = "user"
    /\ IF enabled /\ reqs[q].client \in {NoClient, rows[made[reqs[q].access]].client}
       THEN GoOn(q, "accepted") ELSE Answer(q)
    /\ UNCHANGED <<clients, registered, codes, rows, made, enabled, flows>>

-----------------------------------------------------------------------------
(* Time passes, and the user's status is changed elsewhere.                 *)

Expire ==
    /\ \/ /\ \E k \in Codes : /\ codes[k].st = "open" /\ ~codes[k].expired
                                /\ codes' = [codes EXCEPT ![k].expired = TRUE]
          /\ UNCHANGED rows
       \/ /\ \E r \in Rows : rows[r].fresh /\ rows' = [rows EXCEPT ![r].fresh = FALSE]
          /\ UNCHANGED codes
    /\ UNCHANGED <<clients, registered, made, enabled, flows, reqs>>

UserChanges ==
    /\ enabled' = ~enabled
    /\ UNCHANGED <<clients, registered, codes, rows, made, flows, reqs>>

ReqStep(q) ==
    \/ FetchMetadata(q) \/ FindUrlClient(q) \/ CreateUrlClient(q)
    \/ ValidateDeskUser(q) \/ GetAuthorizationClient(q) \/ ValidateUser(q)
    \/ CreateCode(q) \/ ErrorRedirect(q) \/ CompleteFlow(q)
    \/ FindCode(q) \/ ClaimCode(q) \/ CreateToken(q)
    \/ FindRefresh(q) \/ RenewToken(q)
    \/ FindToken(q) \/ RevokeToken(q)
    \/ CheckToken(q) \/ CheckUser(q)
    \/ Refuse(q)

NewReq(q) ==
    \/ \E f \in Flows : DeskCallback(q, f)
    \/ \E a \in Accesses : Validate(q, a)
    \/ \E c \in Clients : \/ RegisterUrl(q, c) \/ Authorize(q, c)
                           \/ \E k \in Codes : Exchange(q, c, k)
                           \/ \E a \in Accesses : Introspect(q, c, a)
                           \/ \E r \in Rows : Refresh(q, c, r)
    \/ \E c \in Clients \cup {NoClient}, r \in Rows, a \in Accesses \cup {None} : Revoke(q, c, r, a)

Next ==
    \/ \E q \in Reqs : NewReq(q) \/ ReqStep(q)
    \/ \E c \in Clients : RegisterClient(c) \/ UpdateClient(c) \/ DeleteClient(c)
    \/ \E f \in Flows : ExpireFlow(f) \/ \E c \in Clients : CreateFlow(f, c)
    \/ Expire
    \/ UserChanges

Spec == Init /\ [][Next]_vars

-----------------------------------------------------------------------------
(* Every variable has its type, and codes and tokens refer to clients that  *)
(* are registered.                                                          *)
TypeOK ==
    /\ clients \in [Clients -> {Absent} \cup SUBSET Scopes]
    /\ registered \in 0..Registrations
    /\ codes \in [Codes -> Code]
    /\ rows \in [Rows -> Row]
    /\ made \in [Accesses -> Rows \cup {None}]
    /\ enabled \in BOOLEAN
    /\ flows \in [Flows -> Flow]
    /\ reqs \in [Reqs -> Req]
    /\ \A k \in Codes : codes[k].st \in {"open", "used"} => Registered(codes[k].client)
    /\ \A r \in Rows : rows[r].st = "row" => Registered(rows[r].client)

(* The requests of all clients together keep what OAuthGrants promises of   *)
(* each grant: one exchange at most (the claim of handleAuthorizationCode-  *)
(* Grant), scopes within the consent, no revocation undone by a refresh in  *)
(* flight.                                                                  *)
RowsOf(k) == {r \in Rows : rows[r].code = k}
PhaseOf(k) == CASE codes[k].st = "free" -> "none"
                [] codes[k].st = "used" -> "claimed"
                [] OTHER -> codes[k].st
Grants == INSTANCE OAuthGrants WITH
    Grants <- Codes,
    phase <- [k \in Codes |-> PhaseOf(k)],
    granted <- [k \in Codes |-> codes[k].scopes],
    issued <- [k \in Codes |-> Cardinality(RowsOf(k))],
    power <- [k \in Codes |-> UNION {rows[r].scopes : r \in {x \in RowsOf(k) : rows[x].st = "row"}}],
    revoked <- [k \in Codes |-> \E r \in RowsOf(k) : rows[r].revoked]
GrantsKept == Grants!Spec

(* A token whose revocation was answered, or whose client was deleted, is   *)
(* not accepted by a validation that starts later, whatever refreshes of    *)
(* its row were under way (OAuthTokenValidator.validate).                   *)
RevokedIsRejected == \A q \in Reqs : reqs[q].pc = "accepted" => ~reqs[q].late

(* The desk is told one outcome: of two callbacks of a flow, the second     *)
(* replaces neither the redirect nor the error of the first (completeFlow). *)
FlowKeepsOutcome ==
    [][\A f \in Flows :
          /\ flows[f].st = "completed" => flows'[f] = flows[f]
          /\ flows[f].st \in {"failed", "expired", "dropped"} => flows'[f].st \in {flows[f].st, "dropped"}]_vars

(* Codes and tokens belong to registered clients, and are accepted while    *)
(* they hold (OAuthClientController.ts, OAuthTokenValidator.validate).      *)
TokensSound == TypeOK /\ RevokedIsRejected
=============================================================================
