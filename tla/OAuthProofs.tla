---------------------------- MODULE OAuthProofs ----------------------------
(***************************************************************************)
(* What the authorization server guarantees for any number of clients,     *)
(* codes, tokens, flows and requests in flight: it implements OAuthGrants, *)
(* accepts no token whose revocation it answered, and keeps the outcome of *)
(* a desk flow.                                                            *)
(***************************************************************************)
EXTENDS OAuth, FiniteSetTheorems, WellFoundedInduction, TLAPS

(* The parts of the inductive invariant.  Clients and desk flows. *)
ClientsInv ==
    /\ clients \in [Clients -> {Absent} \cup SUBSET Scopes]
    /\ registered \in 0..Registrations
    /\ enabled \in BOOLEAN

FlowsInv ==
    /\ flows \in [Flows -> Flow]
    /\ \A f \in Flows : flows[f].st = "pending" => flows[f].client \in Clients

(* A code that was made has a client and some scopes. *)
CodeOK(k) ==
    /\ codes[k].st = "free" => codes[k] = FreeCode
    /\ codes[k].st # "free" => codes[k].client \in Clients /\ codes[k].scopes # {}
    /\ codes[k].st \in {"open", "used"} => Registered(codes[k].client)

(* A row that was made came of a code that is not open any more, belongs   *)
(* to its client, stays within its scopes, and is the one its access token *)
(* was generated for.                                                      *)
RowOK(r) ==
    /\ rows[r].st = "free" => rows[r] = FreeRow
    /\ rows[r].st # "free" =>
          /\ rows[r].code \in Codes
          /\ codes[rows[r].code].st \in {"used", "gone"}
          /\ rows[r].client = codes[rows[r].code].client
          /\ rows[r].scopes \subseteq codes[rows[r].code].scopes
          /\ rows[r].scopes # {}
          /\ rows[r].access \in Accesses /\ made[rows[r].access] = r
    /\ rows[r].told => rows[r].revoked
    /\ rows[r].st = "row" => Registered(rows[r].client)

(* No two rows came of one code. *)
OneRow == \A r, s \in Rows :
    rows[r].st # "free" /\ rows[s].st # "free" /\ rows[r].code = rows[s].code => r = s

DataInv ==
    /\ codes \in [Codes -> Code] /\ rows \in [Rows -> Row]
    /\ made \in [Accesses -> Rows \cup {None}]
    /\ \A k \in Codes : CodeOK(k)
    /\ \A r \in Rows : RowOK(r)
    /\ OneRow
    /\ \A a \in Accesses : made[a] # None => rows[made[a]].st # "free"

(* The points at which a request has a client, a code, a row or an access  *)
(* token in hand.                                                          *)
WithClientPc == {"fetch", "reg", "regnew", "cb", "grant", "ask", "insert", "finish", "code",
                 "claim", "issue", "refresh", "renew"}
WithCodePc == {"finish", "code", "claim", "issue"}
WithRowPc == {"refresh", "renew", "find", "revoke"}

Dead(row) == row.told \/ row.st = "gone"

(* What a request read and still relies on: the scopes and the client of   *)
(* the code it claims, that nothing was issued for the code it claimed,    *)
(* scopes within the consent, and, if it validates late, a dead row.       *)
ReqOK(r) ==
    /\ r.pc \in WithClientPc => r.client \in Clients
    /\ r.pc \in WithCodePc => r.code \in Codes /\ codes[r.code].st # "free"
    /\ r.pc \in {"claim", "issue"} =>
          codes[r.code].client = r.client /\ codes[r.code].scopes = r.scopes
    /\ r.pc = "issue" => codes[r.code].st \in {"used", "gone"} /\ RowsOf(r.code) = {}
    /\ r.pc \in WithRowPc => r.row \in Rows /\ rows[r.row].st # "free"
    /\ r.pc = "renew" => r.scopes # {} /\ r.scopes \subseteq codes[rows[r.row].code].scopes
    /\ r.pc \in {"check", "user"} => r.access \in Accesses /\ made[r.access] \in Rows
    /\ r.pc = "check" /\ r.late => Dead(rows[made[r.access]])
    /\ r.pc \in {"user", "accepted"} => ~r.late

OneIssuer == \A p, q \in Reqs :
    reqs[p].pc = "issue" /\ reqs[q].pc = "issue" /\ reqs[p].code = reqs[q].code => p = q

ReqsInv == reqs \in [Reqs -> Req] /\ (\A q \in Reqs : ReqOK(reqs[q])) /\ OneIssuer

OAuthInv == ClientsInv /\ FlowsInv /\ DataInv /\ ReqsInv

-----------------------------------------------------------------------------
(* ById picks a member of its set.                                         *)
LEMMA ByIdMember ==
    ASSUME NEW S \in SUBSET Nat, S # {}
    PROVE  ById(S) \in S
<1>1. PICK x \in S : \A y \in S : ~(<<y, x>> \in OpToRel(<, Nat))
  BY NatLessThanWellFounded, WFMin
<1>2. ASSUME NEW y \in S PROVE x <= y
  <2>1. <<y, x>> \notin {ss \in Nat \X Nat : ss[1] < ss[2]}
    BY <1>1 DEF OpToRel
  <2>2. <<y, x>> \in Nat \X Nat /\ x \in Nat /\ y \in Nat
    OBVIOUS
  <2>3. ~(y < x)
    BY <2>1, <2>2
  <2> QED BY <2>2, <2>3
<1> QED BY <1>2 DEF ById

(* The tables keep their invariant while nothing but requests and the      *)
(* registration of clients moves.                                          *)
LEMMA DataQuiet ==
    ASSUME DataInv, UNCHANGED <<codes, rows, made>>,
           \A c \in Clients : Registered(c) => Registered(c)'
    PROVE  DataInv'
<1>1. \A k \in Codes : CodeOK(k)'
  BY DEF DataInv, CodeOK
<1>2. \A r \in Rows : RowOK(r)'
  BY DEF DataInv, RowOK, Registered
<1>3. OneRow'
  BY DEF DataInv, OneRow
<1> QED BY <1>1, <1>2, <1>3 DEF DataInv

(* One request goes on without touching the tables. *)
LEMMA ReqQuiet ==
    ASSUME ReqsInv, UNCHANGED <<codes, rows, made>>,
           NEW q \in Reqs, NEW r \in Req, ReqOK(r), r.pc # "issue",
           reqs' = [reqs EXCEPT ![q] = r]
    PROVE  ReqsInv'
<1>1. reqs' \in [Reqs -> Req] /\ \A p \in Reqs : p # q => reqs'[p] = reqs[p]
  BY DEF ReqsInv
<1>2. \A p \in Reqs : ReqOK(reqs'[p])
  BY <1>1 DEF ReqsInv
<1>3. \A x : ReqOK(x) => ReqOK(x)'
  BY DEF ReqOK, RowsOf
<1>4. OneIssuer'
  BY <1>1 DEF ReqsInv, OneIssuer
<1> QED BY <1>1, <1>2, <1>3, <1>4 DEF ReqsInv, ReqOK, RowsOf

(* A step of one request that leaves the tables alone. *)
LEMMA QuietInv ==
    ASSUME OAuthInv, UNCHANGED <<codes, rows, made>>, ClientsInv', FlowsInv',
           \A c \in Clients : Registered(c) => Registered(c)',
           NEW q \in Reqs, NEW r \in Req, ReqOK(r), r.pc # "issue",
           reqs' = [reqs EXCEPT ![q] = r]
    PROVE  OAuthInv'
<1>1. DataInv'
  BY DataQuiet DEF OAuthInv
<1>2. ReqsInv'
  BY ReqQuiet DEF OAuthInv
<1> QED BY <1>1, <1>2 DEF OAuthInv

(* A step of one request that leaves the clients and flows alone as well.  *)
LEMMA AloneInv ==
    ASSUME OAuthInv, UNCHANGED <<clients, registered, codes, rows, made, enabled, flows>>,
           NEW q \in Reqs, NEW r \in Req, ReqOK(r), r.pc # "issue",
           reqs' = [reqs EXCEPT ![q] = r]
    PROVE  OAuthInv'
<1>1. ClientsInv' /\ FlowsInv' /\ \A c \in Clients : Registered(c) => Registered(c)'
  BY DEF OAuthInv, ClientsInv, FlowsInv, Registered
<1> QED BY <1>1, QuietInv

(* A request that is answered holds nothing. *)
LEMMA IdleOK == Idle \in Req /\ ReqOK(Idle) /\ Idle.pc = "idle"
<1>1. Idle \in Req
  BY DEF Idle, Req, None
<1>2. ReqOK(Idle) /\ Idle.pc = "idle"
  BY DEF Idle, ReqOK, WithClientPc, WithCodePc, WithRowPc
<1> QED BY <1>1, <1>2

(* Settling a desk flow keeps the flows in order. *)
LEMMA SettledOK ==
    ASSUME FlowsInv, NEW f \in Flows \cup {None},
           NEW k \in Codes \cup {None}, NEW st \in {"completed", "failed"},
           st = "failed" => k = None
    PROVE  /\ Settled(f, st, k) \in [Flows -> Flow]
           /\ \A g \in Flows : Settled(f, st, k)[g].st = "pending" =>
                                 Settled(f, st, k)[g].client \in Clients
<1>1. CASE f = None \/ flows[f].st # "pending"
  BY <1>1 DEF Settled, FlowsInv
<1>2. CASE ~(f = None \/ flows[f].st # "pending")
  <2> DEFINE w == [flows[f] EXCEPT !.st = st, !.code = k]
  <2>1. f \in Flows /\ flows[f] \in Flow /\ flows[f].client \in Clients
    BY <1>2 DEF FlowsInv
  <2>2. flows[f] \in [st : {"none", "pending", "failed", "expired", "dropped"},
                      client : Clients \cup {NoClient}, code : {None}]
    BY <1>2, <2>1 DEF Flow
  <2>3. w \in Flow /\ w.st = st
    <3>1. CASE st = "completed"
      <4>1. w \in [st : {"completed"}, client : Clients, code : Codes \cup {None}]
        BY <2>1, <2>2, <3>1
      <4> QED BY <2>2, <4>1 DEF Flow
    <3>2. CASE st = "failed"
      <4>1. w \in [st : {"none", "pending", "failed", "expired", "dropped"},
                   client : Clients \cup {NoClient}, code : {None}]
        BY <2>2, <3>2
      <4> QED BY <2>2, <4>1 DEF Flow
    <3> QED BY <3>1, <3>2
  <2>4. Settled(f, st, k) = [flows EXCEPT ![f] = w]
    BY <1>2, <2>1 DEF Settled, FlowsInv
  <2> HIDE DEF w
  <2> QED BY <2>1, <2>3, <2>4 DEF FlowsInv
<1> QED BY <1>1, <1>2

(* An error is answered. *)
LEMMA FailInv ==
    ASSUME OAuthInv, NEW q \in Reqs, Fail(q),
           UNCHANGED <<clients, registered, codes, rows, made, enabled>>
    PROVE  OAuthInv'
<1>1. reqs[q].flow \in Flows \cup {None}
  BY DEF OAuthInv, ReqsInv, Req
<1>2. FlowsInv'
  BY <1>1, SettledOK DEF OAuthInv, Fail, FlowsInv
<1>3. ClientsInv' /\ \A c \in Clients : Registered(c) => Registered(c)'
  BY DEF OAuthInv, ClientsInv, Registered
<1> QED BY <1>2, <1>3, IdleOK, QuietInv DEF Fail, Answer

(* A request is received. *)
LEMMA StartInv ==
    ASSUME OAuthInv, NEW q \in Reqs, NewReq(q)
    PROVE  OAuthInv'
<1> USE NoneAssumption
<1>1. ASSUME NEW f \in Flows, DeskCallback(q, f) PROVE OAuthInv'
  <2> DEFINE r == [Idle EXCEPT !.pc = "cb", !.flow = f, !.client = flows[f].client, !.auth = TRUE]
  <2>1. flows[f].client \in Clients
    BY <1>1 DEF DeskCallback, OAuthInv, FlowsInv
  <2>2. r \in Req /\ r.pc = "cb" /\ r.client \in Clients
    BY <2>1 DEF Idle, Req
  <2>3. reqs' = [reqs EXCEPT ![q] = r] /\ UNCHANGED <<clients, registered, codes, rows, made, enabled, flows>>
    BY <1>1 DEF DeskCallback, Start
  <2> HIDE DEF r
  <2>4. ReqOK(r)
    BY <2>2 DEF ReqOK, WithClientPc, WithCodePc, WithRowPc
  <2> QED BY <2>2, <2>3, <2>4, AloneInv
<1>2. ASSUME NEW c \in Clients, RegisterUrl(q, c) PROVE OAuthInv'
  <2> DEFINE r == [Idle EXCEPT !.pc = "fetch", !.client = c]
  <2>2. r \in Req /\ r.pc = "fetch" /\ r.client \in Clients
    BY DEF Idle, Req
  <2>3. reqs' = [reqs EXCEPT ![q] = r] /\ UNCHANGED <<clients, registered, codes, rows, made, enabled, flows>>
    BY <1>2 DEF RegisterUrl, Start
  <2> HIDE DEF r
  <2>4. ReqOK(r)
    BY <2>2 DEF ReqOK, WithClientPc, WithCodePc, WithRowPc
  <2> QED BY <2>2, <2>3, <2>4, AloneInv
<1>3. ASSUME NEW c \in Clients, Authorize(q, c) PROVE OAuthInv'
  <2> DEFINE r == [Idle EXCEPT !.pc = "grant", !.client = c, !.auth = TRUE]
  <2>2. r \in Req /\ r.pc = "grant" /\ r.client \in Clients
    BY DEF Idle, Req
  <2>3. reqs' = [reqs EXCEPT ![q] = r] /\ UNCHANGED <<clients, registered, codes, rows, made, enabled, flows>>
    BY <1>3 DEF Authorize, Start
  <2> HIDE DEF r
  <2>4. ReqOK(r)
    BY <2>2 DEF ReqOK, WithClientPc, WithCodePc, WithRowPc
  <2> QED BY <2>2, <2>3, <2>4, AloneInv
<1>4. ASSUME NEW c \in Clients, NEW k \in Codes, Exchange(q, c, k) PROVE OAuthInv'
  <2> DEFINE r == [Idle EXCEPT !.pc = "code", !.client = c, !.code = k]
  <2>2. r \in Req /\ r.pc = "code" /\ r.client \in Clients /\ r.code = k
    BY DEF Idle, Req
  <2>3. /\ reqs' = [reqs EXCEPT ![q] = r] /\ codes[k].st # "free"
        /\ UNCHANGED <<clients, registered, codes, rows, made, enabled, flows>>
    BY <1>4 DEF Exchange, Start
  <2> HIDE DEF r
  <2>4. ReqOK(r)
    BY <2>2, <2>3 DEF ReqOK, WithClientPc, WithCodePc, WithRowPc
  <2> QED BY <2>2, <2>3, <2>4, AloneInv
<1>5. ASSUME NEW c \in Clients, NEW w \in Rows, Refresh(q, c, w) PROVE OAuthInv'
  <2> DEFINE r == [Idle EXCEPT !.pc = "refresh", !.client = c, !.row = w]
  <2>1. rows[w].st # "free"
    BY <1>5 DEF Refresh, OAuthInv, DataInv, RowOK, FreeRow
  <2>2. r \in Req /\ r.pc = "refresh" /\ r.client \in Clients /\ r.row = w
    BY DEF Idle, Req
  <2>3. /\ reqs' = [reqs EXCEPT ![q] = r]
        /\ UNCHANGED <<clients, registered, codes, rows, made, enabled, flows>>
    BY <1>5 DEF Refresh, Start
  <2> HIDE DEF r
  <2>4. ReqOK(r)
    BY <2>1, <2>2 DEF ReqOK, WithClientPc, WithCodePc, WithRowPc
  <2> QED BY <2>2, <2>3, <2>4, AloneInv
<1>6. ASSUME NEW c \in Clients \cup {NoClient}, NEW w \in Rows, NEW a \in Accesses \cup {None},
             Revoke(q, c, w, a)
      PROVE  OAuthInv'
  <2> DEFINE r == [Idle EXCEPT !.pc = "find", !.client = c, !.row = w, !.access = a]
  <2>1. rows[w].st # "free"
    <3>1. CASE a = None
      BY <1>6, <3>1 DEF Revoke, OAuthInv, DataInv, RowOK, FreeRow
    <3>2. CASE a # None
      BY <1>6, <3>2 DEF Revoke, OAuthInv, DataInv, Rows, None
    <3> QED BY <3>1, <3>2
  <2>2. r \in Req /\ r.pc = "find" /\ r.row = w
    BY DEF Idle, Req
  <2>3. /\ reqs' = [reqs EXCEPT ![q] = r]
        /\ UNCHANGED <<clients, registered, codes, rows, made, enabled, flows>>
    BY <1>6 DEF Revoke, Start
  <2> HIDE DEF r
  <2>4. ReqOK(r)
    BY <2>1, <2>2 DEF ReqOK, WithClientPc, WithCodePc, WithRowPc
  <2> QED BY <2>2, <2>3, <2>4, AloneInv
<1>7. ASSUME NEW c \in Clients \cup {NoClient}, NEW a \in Accesses, Check(q, c, a) PROVE OAuthInv'
  <2> DEFINE late == rows[made[a]].told \/ rows[made[a]].st = "gone"
             r == [Idle EXCEPT !.pc = "check", !.access = a, !.client = c, !.late = late]
  <2>1. made[a] \in Rows /\ late \in BOOLEAN /\ (late => Dead(rows[made[a]]))
    BY <1>7 DEF Check, OAuthInv, DataInv, Dead
  <2>3. /\ reqs' = [reqs EXCEPT ![q] = r]
        /\ UNCHANGED <<clients, registered, codes, rows, made, enabled, flows>>
    BY <1>7 DEF Check, Start
  <2> HIDE DEF late
  <2>2. r \in Req /\ r.pc = "check" /\ r.access = a /\ r.late = late
    BY <2>1 DEF Idle, Req
  <2> HIDE DEF r
  <2>4. ReqOK(r)
    BY <2>1, <2>2 DEF ReqOK, WithClientPc, WithCodePc, WithRowPc
  <2> QED BY <2>2, <2>3, <2>4, AloneInv
<1> QED BY <1>1, <1>2, <1>3, <1>4, <1>5, <1>6, <1>7 DEF NewReq, Validate, Introspect

(* Going on to the next call of the same request keeps what it holds. *)
LEMMA GoOnOK ==
    ASSUME NEW r \in Req, NEW pc \in {"reg", "regnew", "grant", "fetch", "insert", "revoke",
                                      "user", "accepted"}
    PROVE  LET n == [r EXCEPT !.pc = pc]
           IN /\ n \in Req /\ n.pc = pc /\ n.client = r.client /\ n.row = r.row
              /\ n.access = r.access /\ n.late = r.late
BY DEF Req

(* An authorization request goes on with the scopes of its client. *)
LEMMA WithClientOK ==
    ASSUME NEW r \in Req, r.client \in Clients, NEW sc \in SUBSET Scopes
    PROVE  LET n == [r EXCEPT !.pc = IF r.flow = None THEN "ask" ELSE "insert", !.scopes = sc]
           IN n \in Req /\ ReqOK(n) /\ n.pc # "issue"
<1> DEFINE pc == IF r.flow = None THEN "ask" ELSE "insert"
           n == [r EXCEPT !.pc = pc, !.scopes = sc]
<1>1. pc \in {"ask", "insert"}
  OBVIOUS
<1> HIDE DEF pc
<1>2. n \in Req /\ n.pc = pc /\ n.client = r.client
  BY <1>1 DEF Req
<1> HIDE DEF n
<1>3. ReqOK(n) /\ n.pc # "issue"
  BY <1>1, <1>2 DEF ReqOK, WithClientPc, WithCodePc, WithRowPc
<1> QED BY <1>2, <1>3 DEF n, pc

(* The steps of a request that read the tables, or write clients or flows. *)
LEMMA ReadInv ==
    ASSUME OAuthInv, NEW q \in Reqs,
           \/ FetchMetadata(q) \/ FindUrlClient(q) \/ CreateUrlClient(q)
           \/ ValidateDeskUser(q) \/ GetAuthorizationClient(q) \/ ValidateUser(q)
           \/ ErrorRedirect(q) \/ CompleteFlow(q) \/ FindCode(q) \/ FindRefresh(q)
           \/ FindToken(q) \/ CheckToken(q) \/ CheckUser(q) \/ Refuse(q)
    PROVE  OAuthInv'
<1> DEFINE r == reqs[q]
           Still == UNCHANGED <<clients, registered, codes, rows, made, enabled, flows>>
<1>0. /\ r \in Req /\ ReqOK(r) /\ reqs \in [Reqs -> Req]
      /\ ClientsInv /\ FlowsInv /\ DataInv
  BY DEF OAuthInv, ReqsInv
<1>a. ASSUME Answer(q), Still PROVE OAuthInv'
  BY <1>a, IdleOK, AloneInv DEF Answer
<1>b. ASSUME NEW pc \in {"reg", "regnew", "grant", "fetch", "insert"}, r.pc \in WithClientPc,
             GoOn(q, pc), Still
      PROVE  OAuthInv'
  <2> DEFINE n == [r EXCEPT !.pc = pc]
  <2>1. n \in Req /\ n.pc = pc /\ n.client = r.client
    BY <1>0 DEF Req
  <2>2. reqs' = [reqs EXCEPT ![q] = n]
    BY <1>b DEF GoOn
  <2> HIDE DEF n
  <2>3. ReqOK(n) /\ n.pc # "issue"
    BY <1>0, <1>b, <2>1 DEF ReqOK, WithClientPc, WithCodePc, WithRowPc
  <2> QED BY <1>b, <2>1, <2>2, <2>3, AloneInv
<1>c. ASSUME NEW sc \in SUBSET Scopes, WithClient(q, sc), r.client \in Clients,
             ClientsInv', UNCHANGED <<codes, rows, made, flows>>,
             \A c \in Clients : Registered(c) => Registered(c)'
      PROVE  OAuthInv'
  <2> DEFINE n == [r EXCEPT !.pc = IF r.flow = None THEN "ask" ELSE "insert", !.scopes = sc]
  <2>1. n \in Req /\ ReqOK(n) /\ n.pc # "issue"
    BY <1>0, <1>c, WithClientOK
  <2>2. reqs' = [reqs EXCEPT ![q] = n]
    BY <1>c DEF WithClient
  <2>3. FlowsInv'
    BY <1>0, <1>c DEF FlowsInv
  <2> HIDE DEF n
  <2> QED BY <1>c, <2>1, <2>2, <2>3, QuietInv
<1>d. ASSUME Answer(q), ClientsInv', UNCHANGED <<codes, rows, made, flows>>,
             \A c \in Clients : Registered(c) => Registered(c)'
      PROVE  OAuthInv'
  <2>1. FlowsInv'
    BY <1>0, <1>d DEF FlowsInv
  <2> QED BY <1>d, <2>1, IdleOK, QuietInv DEF Answer
<1>1. CASE FetchMetadata(q)
  BY <1>1, <1>b DEF FetchMetadata, WithClientPc
<1>2. CASE FindUrlClient(q)
  <2> DEFINE c == r.client
             sc == IF clients[c] = Legacy THEN Scopes ELSE clients[c]
  <2>1. c \in Clients
    BY <1>0, <1>2 DEF FindUrlClient, ReqOK, WithClientPc
  <2>2. CASE Registered(c)
    <3>1. sc \in SUBSET Scopes /\ sc # Absent
      BY <1>0, <2>1, <2>2, AbsentAssumption DEF Registered, ClientsInv
    <3>2. /\ clients' = [clients EXCEPT ![c] = sc]
          /\ UNCHANGED <<registered, codes, rows, made, enabled, flows>>
          /\ WithClient(q, sc) \/ Answer(q)
      BY <1>2, <2>2 DEF FindUrlClient
    <3> HIDE DEF sc
    <3>3. ClientsInv' /\ \A d \in Clients : Registered(d) => Registered(d)'
      BY <1>0, <2>1, <3>1, <3>2 DEF ClientsInv, Registered
    <3> QED BY <1>c, <1>d, <2>1, <3>1, <3>2, <3>3
  <2>3. CASE ~Registered(c)
    BY <1>2, <1>b, <2>3 DEF FindUrlClient, WithClientPc
  <2> QED BY <2>2, <2>3
<1>3. CASE CreateUrlClient(q)
  <2>1. r.client \in Clients
    BY <1>0, <1>3 DEF CreateUrlClient, ReqOK, WithClientPc
  <2>2. CASE Fail(q) /\ UNCHANGED <<clients, registered>>
    BY <1>3, <2>2, FailInv DEF CreateUrlClient
  <2>3. CASE /\ Add(r.client, Scopes)
             /\ WithClient(q, Scopes) \/ Answer(q)
             /\ UNCHANGED flows
    <3>1. ClientsInv' /\ \A d \in Clients : Registered(d) => Registered(d)'
      <4>1. /\ clients' = [clients EXCEPT ![r.client] = Scopes] /\ Scopes # Absent
            /\ registered < Registrations /\ registered' = registered + 1
            /\ Registrations \in Nat /\ enabled' = enabled
        BY <1>3, <2>3, AbsentAssumption, BoundAssumption DEF Add, CreateUrlClient
      <4>2. registered' \in 0..Registrations
        BY <1>0, <4>1 DEF ClientsInv
      <4> QED BY <1>0, <2>1, <4>1, <4>2 DEF ClientsInv, Registered
    <3> QED BY <1>3, <1>c, <1>d, <2>1, <2>3, <3>1 DEF CreateUrlClient
  <2> QED BY <1>3, <2>2, <2>3 DEF CreateUrlClient
<1>4. CASE ValidateDeskUser(q)
  BY <1>4, <1>b DEF ValidateDeskUser, WithClientPc
<1>5. CASE GetAuthorizationClient(q)
  <2>1. r.client \in Clients /\ r.pc \in WithClientPc /\ Still
    BY <1>0, <1>5 DEF GetAuthorizationClient, ReqOK, WithClientPc
  <2>2. CASE GoOn(q, "fetch")
    BY <1>b, <2>1, <2>2
  <2>3. CASE Registered(r.client) /\ WithClient(q, clients[r.client])
    <3>1. clients[r.client] \in SUBSET Scopes
      BY <1>0, <2>1, <2>3 DEF Registered, ClientsInv
    <3>2. ClientsInv' /\ \A d \in Clients : Registered(d) => Registered(d)'
      BY <1>0, <2>1 DEF ClientsInv, Registered
    <3> QED BY <1>c, <2>1, <2>3, <3>1, <3>2
  <2> QED BY <1>5, <2>2, <2>3 DEF GetAuthorizationClient
<1>6. CASE ValidateUser(q)
  BY <1>6, <1>b DEF ValidateUser, WithClientPc
<1>7. CASE ErrorRedirect(q) \/ CompleteFlow(q)
  <2>1. r.flow \in Flows \cup {None} /\ r.code \in Codes \cup {None}
    BY <1>0 DEF Req
  <2>2. PICK k \in Codes \cup {None} : flows' = Settled(r.flow, "completed", k)
    BY <1>7, <2>1 DEF ErrorRedirect, CompleteFlow
  <2>3. FlowsInv'
    BY <1>0, <2>1, <2>2, SettledOK DEF FlowsInv
  <2>4. Answer(q) /\ UNCHANGED <<clients, registered, codes, rows, made, enabled>>
    BY <1>7 DEF ErrorRedirect, CompleteFlow
  <2>5. ClientsInv' /\ \A d \in Clients : Registered(d) => Registered(d)'
    BY <1>0, <2>4 DEF ClientsInv, Registered
  <2> QED BY <2>3, <2>4, <2>5, IdleOK, QuietInv DEF Answer
<1>8. CASE FindCode(q)
  <2>1. r.code \in Codes /\ codes[r.code].st # "free" /\ r.client \in Clients
    BY <1>0, <1>8 DEF FindCode, ReqOK, WithCodePc, WithClientPc
  <2> DEFINE k == codes[r.code]
             n == [r EXCEPT !.pc = "claim", !.scopes = k.scopes]
  <2>2. CASE k.client = r.client /\ reqs' = [reqs EXCEPT ![q].pc = "claim", ![q].scopes = k.scopes]
    <3>1. k.scopes \in SUBSET Scopes
      BY <1>0, <2>1 DEF DataInv, Code
    <3>2. /\ n \in Req /\ n.pc = "claim" /\ n.client = r.client /\ n.code = r.code
          /\ n.scopes = k.scopes
      BY <1>0, <3>1 DEF Req
    <3>3. reqs' = [reqs EXCEPT ![q] = n]
      BY <2>2
    <3> HIDE DEF n
    <3>4. ReqOK(n)
      BY <2>1, <2>2, <3>2 DEF ReqOK, WithClientPc, WithCodePc, WithRowPc
    <3> QED BY <1>8, <3>2, <3>3, <3>4, AloneInv DEF FindCode
  <2>3. CASE Answer(q)
    BY <1>8, <1>a, <2>3 DEF FindCode
  <2> QED BY <1>8, <2>2, <2>3 DEF FindCode
<1>9. CASE FindRefresh(q)
  <2>1. r.row \in Rows /\ rows[r.row].st # "free" /\ r.client \in Clients
    BY <1>0, <1>9 DEF FindRefresh, ReqOK, WithRowPc, WithClientPc
  <2>2. CASE \E sc \in Asked \cap SUBSET rows[r.row].scopes :
                reqs' = [reqs EXCEPT ![q].pc = "renew", ![q].scopes = sc]
    <3>1. PICK sc \in Asked \cap SUBSET rows[r.row].scopes :
                reqs' = [reqs EXCEPT ![q].pc = "renew", ![q].scopes = sc]
      BY <2>2
    <3> DEFINE n == [r EXCEPT !.pc = "renew", !.scopes = sc]
    <3>2. sc \in SUBSET Scopes /\ sc # {} /\ sc \subseteq codes[rows[r.row].code].scopes
      BY <1>0, <2>1, <3>1, LegacyAssumption DEF DataInv, RowOK
    <3>3. /\ n \in Req /\ n.pc = "renew" /\ n.client = r.client /\ n.row = r.row
          /\ n.scopes = sc
      BY <1>0, <3>2 DEF Req
    <3>4. reqs' = [reqs EXCEPT ![q] = n]
      BY <3>1
    <3> HIDE DEF n
    <3>5. ReqOK(n)
      BY <2>1, <3>2, <3>3 DEF ReqOK, WithClientPc, WithCodePc, WithRowPc
    <3> QED BY <1>9, <3>3, <3>4, <3>5, AloneInv DEF FindRefresh
  <2>3. CASE Answer(q)
    BY <1>9, <1>a, <2>3 DEF FindRefresh
  <2> QED BY <1>9, <2>2, <2>3 DEF FindRefresh
<1>10. CASE FindToken(q)
  <2>2. CASE GoOn(q, "revoke")
    <3> DEFINE n == [r EXCEPT !.pc = "revoke"]
    <3>1. n \in Req /\ n.pc = "revoke" /\ n.row = r.row
      BY <1>0, GoOnOK
    <3>2. reqs' = [reqs EXCEPT ![q] = n]
      BY <2>2 DEF GoOn
    <3> HIDE DEF n
    <3>3. ReqOK(n)
      BY <1>0, <1>10, <3>1 DEF FindToken, ReqOK, WithClientPc, WithCodePc, WithRowPc
    <3> QED BY <1>10, <3>1, <3>2, <3>3, AloneInv DEF FindToken
  <2>3. CASE Answer(q)
    BY <1>10, <1>a, <2>3 DEF FindToken
  <2> QED BY <1>10, <2>2, <2>3 DEF FindToken
<1>11. CASE CheckToken(q)
  <2>1. r.pc = "check" /\ Still
    BY <1>11 DEF CheckToken
  <2>2. CASE Usable(r.access) /\ GoOn(q, "user")
    <3> DEFINE n == [r EXCEPT !.pc = "user"]
    <3>1. n \in Req /\ n.pc = "user" /\ n.access = r.access /\ n.late = r.late
      BY <1>0, GoOnOK
    <3>2. reqs' = [reqs EXCEPT ![q] = n]
      BY <2>2 DEF GoOn
    <3>3. r.access \in Accesses /\ made[r.access] \in Rows
      BY <1>0, <2>1 DEF ReqOK
    <3>4. PICK w \in Rows : rows[w].st = "row" /\ rows[w].access = r.access /\ ~rows[w].revoked
      BY <2>2 DEF Usable
    <3>5. made[r.access] = w /\ ~Dead(rows[w])
      BY <1>0, <3>4 DEF DataInv, RowOK, Dead
    <3>6. ~r.late
      BY <1>0, <2>1, <3>5 DEF ReqOK
    <3> HIDE DEF n
    <3>7. ReqOK(n)
      BY <3>1, <3>3, <3>6 DEF ReqOK, WithClientPc, WithCodePc, WithRowPc
    <3> QED BY <2>1, <3>1, <3>2, <3>7, AloneInv
  <2>3. CASE Answer(q)
    BY <1>a, <2>1, <2>3
  <2> QED BY <1>11, <2>2, <2>3 DEF CheckToken
<1>12. CASE CheckUser(q)
  <2>1. r.pc = "user" /\ Still
    BY <1>12 DEF CheckUser
  <2>2. CASE GoOn(q, "accepted")
    <3> DEFINE n == [r EXCEPT !.pc = "accepted"]
    <3>1. n \in Req /\ n.pc = "accepted" /\ n.late = r.late
      BY <1>0, GoOnOK
    <3>2. reqs' = [reqs EXCEPT ![q] = n]
      BY <2>2 DEF GoOn
    <3> HIDE DEF n
    <3>3. ReqOK(n)
      BY <1>0, <2>1, <3>1 DEF ReqOK, WithClientPc, WithCodePc, WithRowPc
    <3> QED BY <2>1, <3>1, <3>2, <3>3, AloneInv
  <2>3. CASE Answer(q)
    BY <1>a, <2>1, <2>3
  <2> QED BY <1>12, <2>2, <2>3 DEF CheckUser
<1>13. CASE Refuse(q)
  BY <1>13, FailInv DEF Refuse
<1> QED BY <1>1, <1>2, <1>3, <1>4, <1>5, <1>6, <1>7, <1>8, <1>9, <1>10, <1>11, <1>12, <1>13

(* What changes clients, flows and the user outside any request. *)
LEMMA OutsideInv ==
    ASSUME OAuthInv,
           \/ \E c \in Clients : RegisterClient(c) \/ UpdateClient(c)
           \/ \E f \in Flows : ExpireFlow(f) \/ \E c \in Clients : CreateFlow(f, c)
           \/ UserChanges
    PROVE  OAuthInv'
<1>0. ClientsInv /\ FlowsInv /\ DataInv /\ ReqsInv
  BY DEF OAuthInv
<1>a. ASSUME UNCHANGED <<codes, rows, made, reqs>>, ClientsInv', FlowsInv',
             \A c \in Clients : Registered(c) => Registered(c)'
      PROVE  OAuthInv'
  <2>1. ReqsInv'
    BY <1>0, <1>a DEF ReqsInv, ReqOK, RowsOf, OneIssuer
  <2> QED BY <1>0, <1>a, <2>1, DataQuiet DEF OAuthInv
<1>b. ASSUME UNCHANGED flows PROVE FlowsInv'
  BY <1>0, <1>b DEF FlowsInv
<1>1. ASSUME NEW c \in Clients, RegisterClient(c) PROVE OAuthInv'
  <2>1. PICK sc \in Asked : Add(c, sc)
    BY <1>1 DEF RegisterClient
  <2>2. sc \in SUBSET Scopes /\ sc # Absent
    BY LegacyAssumption, AbsentAssumption
  <2>3. /\ clients' = [clients EXCEPT ![c] = sc] /\ enabled' = enabled
        /\ registered < Registrations /\ registered' = registered + 1 /\ Registrations \in Nat
    BY <1>1, <2>1, BoundAssumption DEF Add, RegisterClient
  <2>4. registered' \in 0..Registrations
    BY <1>0, <2>3 DEF ClientsInv
  <2>5. ClientsInv' /\ \A d \in Clients : Registered(d) => Registered(d)'
    BY <1>0, <2>2, <2>3, <2>4 DEF ClientsInv, Registered
  <2> QED BY <1>1, <1>a, <1>b, <2>5 DEF RegisterClient
<1>2. ASSUME NEW c \in Clients, UpdateClient(c) PROVE OAuthInv'
  <2>1. PICK sc \in Asked : clients' = [clients EXCEPT ![c] = sc]
    BY <1>2 DEF UpdateClient
  <2>2. sc \in SUBSET Scopes /\ sc # Absent
    BY LegacyAssumption, AbsentAssumption
  <2>3. ClientsInv' /\ \A d \in Clients : Registered(d) => Registered(d)'
    BY <1>0, <1>2, <2>1, <2>2 DEF ClientsInv, Registered, UpdateClient
  <2> QED BY <1>2, <1>a, <1>b, <2>3 DEF UpdateClient
<1>3. ASSUME NEW f \in Flows, ExpireFlow(f) PROVE OAuthInv'
  <2> DEFINE st == IF flows[f].st = "pending" THEN "expired" ELSE "dropped"
             w == [flows[f] EXCEPT !.st = st]
             F == [st : {"none", "pending", "failed", "expired", "dropped"},
                   client : Clients \cup {NoClient}, code : {None}]
  <2>1. flows[f] \in F /\ F \subseteq Flow
    BY <1>0, <1>3 DEF ExpireFlow, FlowsInv, Flow
  <2>2. flows' = [flows EXCEPT ![f] = w] /\ UNCHANGED <<clients, registered, codes, rows, made, enabled, reqs>>
    BY <1>0, <1>3 DEF ExpireFlow, FlowsInv
  <2>3. w \in F /\ w.st = st
    BY <2>1
  <2>4. FlowsInv'
    <3>1. w \in Flow /\ w.st # "pending"
      BY <2>1, <2>3
    <3> HIDE DEF w, F
    <3> QED BY <1>0, <2>2, <3>1 DEF FlowsInv
  <2>5. ClientsInv' /\ \A d \in Clients : Registered(d) => Registered(d)'
    BY <1>0, <2>2 DEF ClientsInv, Registered
  <2> QED BY <1>a, <2>2, <2>4, <2>5
<1>4. ASSUME NEW f \in Flows, NEW c \in Clients, CreateFlow(f, c) PROVE OAuthInv'
  <2> DEFINE w == [st |-> "pending", client |-> c, code |-> None]
  <2>1. w \in Flow /\ w.client \in Clients
    BY DEF Flow
  <2>2. flows' = [flows EXCEPT ![f] = w] /\ UNCHANGED <<clients, registered, codes, rows, made, enabled, reqs>>
    BY <1>4 DEF CreateFlow
  <2> HIDE DEF w
  <2>3. FlowsInv'
    BY <1>0, <2>1, <2>2 DEF FlowsInv
  <2>4. ClientsInv' /\ \A d \in Clients : Registered(d) => Registered(d)'
    BY <1>0, <2>2 DEF ClientsInv, Registered
  <2> QED BY <1>a, <2>2, <2>3, <2>4
<1>5. CASE UserChanges
  <2>1. ClientsInv' /\ \A d \in Clients : Registered(d) => Registered(d)'
    BY <1>0, <1>5 DEF ClientsInv, Registered, UserChanges
  <2> QED BY <1>5, <1>a, <1>b, <2>1 DEF UserChanges
<1> QED BY <1>1, <1>2, <1>3, <1>4, <1>5

(* Clients, flows and the user are left alone. *)
LEMMA ElseQuiet ==
    ASSUME OAuthInv, UNCHANGED <<clients, registered, enabled, flows>>
    PROVE  ClientsInv' /\ FlowsInv' /\ \A c \in Clients : Registered(c) = Registered(c)'
BY DEF OAuthInv, ClientsInv, FlowsInv, Registered

(* A code is made. *)
LEMMA CreateCodeInv ==
    ASSUME OAuthInv, NEW q \in Reqs, CreateCode(q)
    PROVE  OAuthInv'
<1> DEFINE r == reqs[q]
<1>0. /\ r \in Req /\ ReqOK(r) /\ r.pc = "insert" /\ Registered(r.client) /\ r.client \in Clients
      /\ DataInv /\ ReqsInv /\ reqs \in [Reqs -> Req]
      /\ UNCHANGED <<clients, registered, rows, made, enabled, flows>>
  BY DEF OAuthInv, ReqsInv, CreateCode, ReqOK, WithClientPc
<1>1. PICK k \in Codes : k = ById(FreeCodes) /\ codes[k].st = "free"
  <2>1. FreeCodes \in SUBSET Nat /\ FreeCodes # {}
    BY DEF CreateCode, FreeCodes, Codes
  <2> QED BY <2>1, ByIdMember DEF FreeCodes
<1>2. PICK sc \in Asked : codes' = [codes EXCEPT ![k] = [FreeCode EXCEPT !.st = "open", !.scopes = sc,
                                                           !.client = reqs[q].client]]
  BY <1>1 DEF CreateCode
<1>3. PICK c \in Code : /\ c = [FreeCode EXCEPT !.st = "open", !.scopes = sc, !.client = r.client]
                        /\ c.st = "open" /\ c.client = r.client /\ c.scopes = sc
  <2>1. sc \in SUBSET Scopes
    BY LegacyAssumption
  <2> DEFINE c == [FreeCode EXCEPT !.st = "open", !.scopes = sc, !.client = r.client]
  <2>2. c \in Code /\ c.st = "open" /\ c.client = r.client /\ c.scopes = sc
    BY <1>0, <2>1 DEF Code, FreeCode
  <2> QED BY <2>2
<1>4. sc # {}
  BY LegacyAssumption
<1>5. PICK n \in Req : /\ n = [r EXCEPT !.pc = "finish", !.code = k]
                       /\ n.pc = "finish" /\ n.client = r.client /\ n.code = k
  <2> DEFINE n == [r EXCEPT !.pc = "finish", !.code = k]
  <2>1. n \in Req /\ n.pc = "finish" /\ n.client = r.client /\ n.code = k
    BY <1>0 DEF Req
  <2> QED BY <2>1
<1>6. reqs' = [reqs EXCEPT ![q] = n]
  BY <1>1, <1>5 DEF CreateCode
<1>7. /\ codes' \in [Codes -> Code] /\ codes'[k] = c
      /\ \A j \in Codes : j # k => codes'[j] = codes[j]
  BY <1>0, <1>2, <1>3 DEF DataInv
<1>8. ClientsInv' /\ FlowsInv' /\ \A d \in Clients : Registered(d) = Registered(d)'
  BY <1>0, ElseQuiet
<1>9. DataInv'
  <2>1. \A j \in Codes : CodeOK(j)'
    <3>1. CodeOK(k)'
      BY <1>0, <1>3, <1>4, <1>7, <1>8 DEF CodeOK
    <3>2. \A j \in Codes : j # k => CodeOK(j)'
      BY <1>0, <1>7, <1>8 DEF DataInv, CodeOK
    <3> QED BY <3>1, <3>2
  <2>2. \A w \in Rows : RowOK(w)'
    <3> SUFFICES ASSUME NEW w \in Rows PROVE RowOK(w)'
      OBVIOUS
    <3>1. RowOK(w) /\ rows' = rows /\ made' = made
      BY <1>0 DEF DataInv
    <3>2. rows[w].st # "free" => rows[w].code # k
      BY <1>1, <3>1 DEF RowOK
    <3> QED BY <1>7, <1>8, <3>1, <3>2 DEF RowOK, Registered
  <2> QED BY <1>0, <1>7, <2>1, <2>2 DEF DataInv, OneRow
<1>10. ReqsInv'
  <2>1. reqs' \in [Reqs -> Req] /\ reqs'[q] = n /\ \A p \in Reqs : p # q => reqs'[p] = reqs[p]
    BY <1>0, <1>5, <1>6
  <2>2. ReqOK(n)'
    BY <1>0, <1>1, <1>3, <1>5, <1>7 DEF ReqOK, WithClientPc, WithCodePc, WithRowPc
  <2>3. ASSUME NEW x, ReqOK(x) PROVE ReqOK(x)'
    <3>1. x.pc \in WithCodePc => x.code # k
      BY <1>1, <2>3 DEF ReqOK
    <3>2. x.pc \in WithRowPc => rows[x.row].code # k /\ rows[x.row].code \in Codes
      BY <1>0, <1>1, <2>3 DEF ReqOK, DataInv, RowOK
    <3> QED BY <1>0, <1>7, <2>3, <3>1, <3>2 DEF ReqOK, WithCodePc, WithRowPc, RowsOf
  <2>4. \A p \in Reqs : ReqOK(reqs[p])'
    BY <1>0, <2>1, <2>2, <2>3 DEF ReqsInv
  <2>5. OneIssuer'
    <3>1. \A p \in Reqs : reqs'[p].pc = "issue" => p # q /\ reqs'[p] = reqs[p]
      BY <1>5, <2>1
    <3> QED BY <1>0, <3>1 DEF ReqsInv, OneIssuer
  <2> QED BY <2>1, <2>4, <2>5 DEF ReqsInv
<1> QED BY <1>8, <1>9, <1>10 DEF OAuthInv

(* What a request relies on survives a step that changes neither client    *)
(* nor scopes of a code, reopens none, frees no row and revives none, and  *)
(* issues nothing for the code the request claimed.                        *)
LEMMA ReqKept ==
    ASSUME DataInv,
           \A k \in Codes : codes[k].st # "free" =>
              /\ codes'[k].client = codes[k].client /\ codes'[k].scopes = codes[k].scopes
              /\ codes'[k].st # "free"
              /\ codes[k].st \in {"used", "gone"} => codes'[k].st \in {"used", "gone"},
           \A w \in Rows : rows[w].st # "free" =>
              /\ rows'[w].code = rows[w].code /\ rows'[w].st # "free"
              /\ Dead(rows[w]) => Dead(rows'[w]),
           \A a \in Accesses : made[a] \in Rows => made'[a] = made[a],
           NEW x, ReqOK(x),
           x.pc = "issue" => \A w \in Rows : rows'[w].code = x.code => rows[w].code = x.code
    PROVE  ReqOK(x)'
<1>1. x.pc = "issue" => RowsOf(x.code)' = {}
  BY DEF ReqOK, RowsOf
<1>2. x.pc = "renew" => x.scopes \subseteq codes'[rows'[x.row].code].scopes
  <2> SUFFICES ASSUME x.pc = "renew" PROVE x.scopes \subseteq codes'[rows'[x.row].code].scopes
    OBVIOUS
  <2>1. x.row \in Rows /\ rows[x.row].st # "free" /\ RowOK(x.row)
    BY DEF ReqOK, WithRowPc, DataInv
  <2> QED BY <2>1 DEF ReqOK, RowOK
<1>3. x.pc = "check" /\ x.late => Dead(rows'[made'[x.access]])
  <2> SUFFICES ASSUME x.pc = "check", x.late PROVE Dead(rows'[made'[x.access]])
    OBVIOUS
  <2>1. /\ x.access \in Accesses /\ made[x.access] \in Rows /\ Dead(rows[made[x.access]])
    BY DEF ReqOK
  <2>2. rows[made[x.access]].st # "free"
    BY <2>1 DEF DataInv, Rows, None
  <2> QED BY <2>1, <2>2
<1>4. x.pc \in WithCodePc => codes'[x.code].st # "free"
  BY DEF ReqOK
<1>5. x.pc \in {"claim", "issue"} =>
        codes'[x.code].client = x.client /\ codes'[x.code].scopes = x.scopes
  BY DEF ReqOK, WithCodePc
<1>6. x.pc = "issue" => codes'[x.code].st \in {"used", "gone"}
  BY DEF ReqOK, WithCodePc
<1>7. x.pc \in WithRowPc => rows'[x.row].st # "free"
  BY DEF ReqOK
<1>8. x.pc \in {"check", "user"} => made'[x.access] \in Rows
  BY DEF ReqOK
<1> QED BY <1>1, <1>2, <1>3, <1>4, <1>5, <1>6, <1>7, <1>8 DEF ReqOK, Dead

(* All requests but one that is answered keep what they rely on. *)
LEMMA ReqsKept ==
    ASSUME OAuthInv, NEW q \in Reqs, Answer(q),
           \A p \in Reqs : p # q => ReqOK(reqs[p])'
    PROVE  ReqsInv'
<1>0. reqs \in [Reqs -> Req] /\ OneIssuer
  BY DEF OAuthInv, ReqsInv
<1>1. reqs' \in [Reqs -> Req] /\ reqs'[q] = Idle /\ \A p \in Reqs : p # q => reqs'[p] = reqs[p]
  BY <1>0, IdleOK DEF Answer
<1>2. ReqOK(Idle)'
  BY DEF Idle, ReqOK, WithClientPc, WithCodePc, WithRowPc
<1>3. \A p \in Reqs : ReqOK(reqs[p])'
  BY <1>1, <1>2
<1>4. OneIssuer'
  <2>1. \A p \in Reqs : reqs'[p].pc = "issue" => p # q /\ reqs'[p] = reqs[p]
    BY <1>1, IdleOK
  <2> QED BY <1>0, <2>1 DEF OneIssuer
<1> QED BY <1>1, <1>3, <1>4 DEF ReqsInv

(* A code is claimed, or found used. *)
LEMMA ClaimCodeInv ==
    ASSUME OAuthInv, NEW q \in Reqs, ClaimCode(q)
    PROVE  OAuthInv'
<1>0. /\ reqs[q] \in Req /\ ReqOK(reqs[q]) /\ reqs[q].pc = "claim"
      /\ DataInv /\ ReqsInv /\ reqs \in [Reqs -> Req]
      /\ UNCHANGED <<clients, registered, rows, made, enabled, flows>>
  BY DEF OAuthInv, ReqsInv, ClaimCode
<1>1. CASE Claimable(reqs[q].code)
  <2>1. PICK k \in Codes : k = reqs[q].code /\ codes[k].st = "open"
    BY <1>0, <1>1 DEF ReqOK, WithCodePc, Claimable
  <2>2. PICK c \in Code : /\ c = [codes[k] EXCEPT !.st = "used"] /\ c.st = "used"
                          /\ c.client = codes[k].client /\ c.scopes = codes[k].scopes
    <3> DEFINE c == [codes[k] EXCEPT !.st = "used"]
    <3>1. /\ c \in Code /\ c.st = "used"
          /\ c.client = codes[k].client /\ c.scopes = codes[k].scopes
      BY <1>0 DEF DataInv, Code
    <3> QED BY <3>1
  <2>3. PICK n \in Req : /\ n = [reqs[q] EXCEPT !.pc = "issue"]
                         /\ n.pc = "issue" /\ n.code = k /\ n.client = reqs[q].client
                         /\ n.scopes = reqs[q].scopes
    <3> DEFINE n == [reqs[q] EXCEPT !.pc = "issue"]
    <3>1. /\ n \in Req /\ n.pc = "issue" /\ n.code = k /\ n.client = reqs[q].client
          /\ n.scopes = reqs[q].scopes
      BY <1>0, <2>1 DEF Req
    <3> QED BY <3>1
  <2>4. codes' = [codes EXCEPT ![k] = c] /\ reqs' = [reqs EXCEPT ![q] = n]
    BY <1>0, <1>1, <2>1, <2>2, <2>3 DEF ClaimCode, GoOn, DataInv
  <2>5. /\ codes' \in [Codes -> Code] /\ codes'[k] = c
        /\ \A j \in Codes : j # k => codes'[j] = codes[j]
    BY <1>0, <2>4 DEF DataInv
  <2>6. /\ reqs' \in [Reqs -> Req] /\ reqs'[q] = n
        /\ \A p \in Reqs : p # q => reqs'[p] = reqs[p]
    BY <1>0, <2>4
  <2>7. ClientsInv' /\ FlowsInv' /\ \A d \in Clients : Registered(d) = Registered(d)'
    BY <1>0, ElseQuiet
  <2>8. \A w \in Rows : rows[w].code # k
    BY <1>0, <2>1 DEF DataInv, RowOK, FreeRow, Codes, None
  <2>9. DataInv'
    <3>1. \A j \in Codes : CodeOK(j)'
      <4>1. CodeOK(k)'
        BY <1>0, <2>1, <2>2, <2>5, <2>7 DEF DataInv, CodeOK
      <4>2. \A j \in Codes : j # k => CodeOK(j)'
        BY <1>0, <2>5, <2>7 DEF DataInv, CodeOK
      <4> QED BY <4>1, <4>2
    <3>2. \A w \in Rows : RowOK(w)'
      <4> SUFFICES ASSUME NEW w \in Rows PROVE RowOK(w)'
        OBVIOUS
      <4>1. RowOK(w) /\ rows' = rows /\ made' = made
        BY <1>0 DEF DataInv
      <4> QED BY <2>5, <2>7, <2>8, <4>1 DEF RowOK, Registered
    <3> QED BY <1>0, <2>5, <3>1, <3>2 DEF DataInv, OneRow
  <2>10. \A p \in Reqs : p # q => ReqOK(reqs[p])'
    <3>1. ASSUME NEW x, ReqOK(x) PROVE ReqOK(x)'
      BY <1>0, <2>1, <2>2, <2>5, <3>1, ReqKept
    <3>2. \A p \in Reqs : p # q => reqs'[p] = reqs[p] /\ ReqOK(reqs[p])
      BY <1>0, <2>6 DEF ReqsInv
    <3>3. \A p \in Reqs : ReqOK(reqs[p]) /\ reqs'[p] = reqs[p] => ReqOK(reqs[p])'
      BY <3>1
    <3> QED BY <3>2, <3>3
  <2>11. ReqOK(n)'
    <3>1. RowsOf(k)' = {}
      BY <1>0, <2>8 DEF RowsOf
    <3>2. n.client \in Clients /\ codes'[k].client = n.client /\ codes'[k].scopes = n.scopes
      BY <1>0, <2>1, <2>2, <2>3, <2>5 DEF ReqOK, WithClientPc
    <3> QED BY <2>1, <2>2, <2>3, <2>5, <3>1, <3>2 DEF ReqOK, WithClientPc, WithCodePc, WithRowPc
  <2>12. OneIssuer'
    <3>1. \A p \in Reqs : p # q /\ reqs'[p].pc = "issue" => reqs'[p].code # k
      BY <1>0, <2>1, <2>6 DEF ReqsInv, ReqOK
    <3> QED BY <1>0, <2>3, <2>6, <3>1 DEF ReqsInv, OneIssuer
  <2>13. ReqsInv'
    BY <2>6, <2>10, <2>11, <2>12 DEF ReqsInv
  <2> QED BY <2>7, <2>9, <2>13 DEF OAuthInv
<1>2. CASE ~Claimable(reqs[q].code)
  BY <1>0, <1>2, IdleOK, AloneInv DEF ClaimCode, Answer
<1> QED BY <1>1, <1>2

(* An access token that was not generated yet can be found. *)
LEMMA FreshAccess ==
    ASSUME DataInv, FreeAccess # {}
    PROVE  ById(FreeAccess) \in Accesses /\ made[ById(FreeAccess)] = None
<1>1. FreeAccess \in SUBSET Nat
  BY DEF FreeAccess, Accesses
<1> QED BY <1>1, ByIdMember DEF FreeAccess

(* A row is made for the code that was claimed. *)
LEMMA CreateTokenInv ==
    ASSUME OAuthInv, NEW q \in Reqs, CreateToken(q)
    PROVE  OAuthInv'
<1>0. /\ reqs[q] \in Req /\ ReqOK(reqs[q]) /\ reqs[q].pc = "issue" /\ Registered(reqs[q].client)
      /\ DataInv /\ ReqsInv /\ Answer(q)
      /\ UNCHANGED <<clients, registered, codes, enabled, flows>>
  BY DEF OAuthInv, ReqsInv, CreateToken
<1>1. PICK w \in Rows : w = ById(FreeRows) /\ rows[w].st = "free"
  <2>1. FreeRows \in SUBSET Nat /\ FreeRows # {}
    BY DEF CreateToken, FreeRows, Rows
  <2> QED BY <2>1, ByIdMember DEF FreeRows
<1>2. PICK a \in Accesses : a = ById(FreeAccess) /\ made[a] = None
  BY <1>0, FreshAccess DEF CreateToken
<1>3. PICK k \in Codes : k = reqs[q].code
  BY <1>0 DEF ReqOK, WithCodePc
<1>4. /\ codes[k].st \in {"used", "gone"} /\ RowsOf(k) = {}
      /\ codes[k].client = reqs[q].client /\ codes[k].scopes = reqs[q].scopes
      /\ codes[k].client \in Clients /\ codes[k].scopes # {}
  BY <1>0, <1>3 DEF ReqOK, DataInv, CodeOK
<1>5. PICK rt \in BOOLEAN :
        rows' = [rows EXCEPT ![w] = [FreeRow EXCEPT
                        !.st = "row", !.client = reqs[q].client, !.code = reqs[q].code,
                        !.access = a, !.scopes = reqs[q].scopes, !.refresh = rt, !.fresh = TRUE]]
  BY <1>1, <1>2 DEF CreateToken
<1>6. PICK n \in Row : /\ rows' = [rows EXCEPT ![w] = n]
                       /\ n.st = "row" /\ n.client = codes[k].client /\ n.code = k
                       /\ n.access = a /\ n.scopes = codes[k].scopes /\ n.told = FALSE
  <2> DEFINE n == [FreeRow EXCEPT
                        !.st = "row", !.client = reqs[q].client, !.code = reqs[q].code,
                        !.access = a, !.scopes = reqs[q].scopes, !.refresh = rt, !.fresh = TRUE]
  <2>1. reqs[q].scopes \in SUBSET Scopes
    BY <1>0 DEF Req
  <2>2. /\ n.st = "row" /\ n.client = codes[k].client /\ n.code = k
        /\ n.access = a /\ n.scopes = codes[k].scopes /\ n.told = FALSE
    BY <1>3, <1>4 DEF FreeRow
  <2>3. n \in Row
    <3>1. FreeRow \in Row
      BY DEF FreeRow, Row
    <3> QED BY <1>3, <1>4, <2>1, <3>1 DEF Row
  <2> QED BY <1>5, <2>2, <2>3
<1>7. made' = [made EXCEPT ![a] = w]
  BY <1>1, <1>2 DEF CreateToken
<1>8. /\ rows' \in [Rows -> Row] /\ rows'[w] = n
      /\ \A v \in Rows : v # w => rows'[v] = rows[v]
  BY <1>0, <1>6 DEF DataInv
<1>9. /\ made' \in [Accesses -> Rows \cup {None}] /\ made'[a] = w
      /\ \A b \in Accesses : b # a => made'[b] = made[b]
  BY <1>0, <1>7 DEF DataInv
<1>10. ClientsInv' /\ FlowsInv' /\ \A d \in Clients : Registered(d) = Registered(d)'
  BY <1>0, ElseQuiet
<1>11. DataInv'
  <2>1. \A j \in Codes : CodeOK(j)'
    BY <1>0, <1>10 DEF DataInv, CodeOK
  <2>2. RowOK(w)'
    BY <1>0, <1>4, <1>6, <1>8, <1>9, <1>10 DEF RowOK
  <2>3. ASSUME NEW v \in Rows, v # w PROVE RowOK(v)'
    <3>1. RowOK(v) /\ rows'[v] = rows[v] /\ codes' = codes
      BY <1>0, <1>8, <2>3 DEF DataInv
    <3>2. rows[v].st # "free" => rows[v].access # a
      BY <1>2, <3>1 DEF RowOK, Rows, None
    <3> QED BY <1>9, <1>10, <3>1, <3>2 DEF RowOK, Registered
  <2>4. OneRow'
    <3>1. \A v \in Rows : v # w /\ rows'[v].st # "free" => rows'[v].code # k
      BY <1>4, <1>8 DEF RowsOf
    <3> QED BY <1>0, <1>6, <1>8, <3>1 DEF DataInv, OneRow
  <2>5. \A b \in Accesses : made'[b] # None => rows'[made'[b]].st # "free"
    BY <1>0, <1>6, <1>8, <1>9 DEF DataInv
  <2>6. \A v \in Rows : RowOK(v)'
    BY <2>2, <2>3
  <2> QED BY <1>0, <1>8, <1>9, <2>1, <2>4, <2>5, <2>6 DEF DataInv
<1>12. \A p \in Reqs : p # q => ReqOK(reqs[p])'
  <2>1. reqs \in [Reqs -> Req]
    BY <1>0 DEF ReqsInv
  <2>2. \A p \in Reqs : p # q => reqs'[p] = reqs[p] /\ ReqOK(reqs[p])
                                 /\ (reqs[p].pc = "issue" => reqs[p].code # k)
    BY <1>0, <1>3, <2>1 DEF ReqsInv, Answer, OneIssuer
  <2>3. ASSUME NEW x, ReqOK(x), x.pc = "issue" => x.code # k PROVE ReqOK(x)'
    <3>1. \A v \in Rows : rows[v].st # "free" =>
              /\ rows'[v].code = rows[v].code /\ rows'[v].st # "free"
              /\ Dead(rows[v]) => Dead(rows'[v])
      BY <1>1, <1>8
    <3>2. \A b \in Accesses : made[b] \in Rows => made'[b] = made[b]
      BY <1>2, <1>9 DEF Rows, None
    <3>3. x.pc = "issue" => \A v \in Rows : rows'[v].code = x.code => rows[v].code = x.code
      BY <1>6, <1>8, <2>3
    <3> QED BY <1>0, <2>3, <3>1, <3>2, <3>3, ReqKept
  <2>4. ASSUME NEW p \in Reqs, p # q PROVE ReqOK(reqs[p])'
    <3>1. PICK x \in Req : x = reqs[p] /\ x = reqs'[p]
      BY <2>1, <2>2, <2>4
    <3>2. ReqOK(x)'
      BY <2>2, <2>3, <2>4, <3>1
    <3> QED BY <3>1, <3>2
  <2> QED BY <2>4
<1>13. ReqsInv'
  BY <1>0, <1>12, ReqsKept
<1> QED BY <1>10, <1>11, <1>13 DEF OAuthInv

(* Some rows change without being freed or revived, and keep what they     *)
(* belong to; codes may lose their validity, with their rows.              *)
LEMMA RowsChange ==
    ASSUME OAuthInv,
           rows' \in [Rows -> Row], codes' \in [Codes -> Code],
           made' \in [Accesses -> Rows \cup {None}],
           \A k \in Codes :
              /\ codes'[k].client = codes[k].client /\ codes'[k].scopes = codes[k].scopes
              /\ codes[k].st = "free" => codes'[k] = codes[k]
              /\ codes[k].st # "free" => codes'[k].st \in {codes[k].st, "gone"}
              /\ codes'[k].st \in {"open", "used"} => Registered(codes[k].client)',
           \A w \in Rows :
              /\ rows[w].st = "free" => rows'[w] = rows[w]
              /\ rows[w].st # "free" =>
                    /\ rows'[w].st # "free"
                    /\ rows'[w].code = rows[w].code /\ rows'[w].client = rows[w].client
                    /\ rows'[w].scopes # {}
                    /\ rows'[w].scopes \subseteq codes[rows[w].code].scopes
                    /\ rows'[w].access \in Accesses /\ made'[rows'[w].access] = w
                    /\ rows'[w].told => rows'[w].revoked
                    /\ Dead(rows[w]) => Dead(rows'[w])
                    /\ rows'[w].st = "row" => Registered(rows[w].client)',
           \A a \in Accesses : made[a] \in Rows => made'[a] = made[a],
           \A a \in Accesses : made'[a] # None => rows[made'[a]].st # "free"
    PROVE  DataInv' /\ \A x : ReqOK(x) => ReqOK(x)'
<1>0. DataInv
  BY DEF OAuthInv
<1>1. ASSUME NEW k \in Codes PROVE CodeOK(k)'
  <2>1. CodeOK(k)
    BY <1>0 DEF DataInv
  <2>2. CASE codes[k].st = "free"
    BY <2>1, <2>2 DEF CodeOK, FreeCode
  <2>3. CASE codes[k].st # "free"
    <3>1. codes'[k].st # "free"
      BY <2>3
    <3>2. codes'[k].client \in Clients /\ codes'[k].scopes # {}
      BY <2>1, <2>3 DEF CodeOK
    <3> QED BY <3>1, <3>2 DEF CodeOK
  <2> QED BY <2>2, <2>3
<1>2. ASSUME NEW w \in Rows PROVE RowOK(w)'
  <2>1. RowOK(w)
    BY <1>0 DEF DataInv
  <2>2. CASE rows[w].st = "free"
    BY <2>1, <2>2 DEF RowOK, FreeRow
  <2>3. CASE rows[w].st # "free"
    <3>1. PICK k \in Codes : k = rows[w].code
      BY <2>1, <2>3 DEF RowOK
    <3>2. /\ codes[k].st \in {"used", "gone"} /\ rows[w].client = codes[k].client
      BY <2>1, <2>3, <3>1 DEF RowOK
    <3>3. /\ codes'[k].st \in {"used", "gone"} /\ codes'[k].client = codes[k].client
          /\ codes'[k].scopes = codes[k].scopes
      BY <3>2
    <3>4. /\ rows'[w].st # "free" /\ rows'[w].code = k /\ rows'[w].client = codes'[k].client
          /\ rows'[w].scopes # {} /\ rows'[w].scopes \subseteq codes'[k].scopes
          /\ rows'[w].access \in Accesses /\ made'[rows'[w].access] = w
      BY <2>3, <3>1, <3>2, <3>3
    <3>5. rows'[w].told => rows'[w].revoked
      BY <2>3
    <3>6. rows'[w].st = "row" => Registered(rows[w].client)'
      BY <2>3
    <3> QED BY <3>3, <3>4, <3>5, <3>6 DEF RowOK
  <2> QED BY <2>2, <2>3
<1>3. OneRow'
  BY <1>0 DEF DataInv, OneRow
<1>4. ASSUME NEW a \in Accesses, made'[a] # None PROVE rows'[made'[a]].st # "free"
  <2>1. made'[a] \in Rows /\ rows[made'[a]].st # "free"
    BY <1>4
  <2> QED BY <2>1
<1>5. DataInv'
  BY <1>1, <1>2, <1>3, <1>4 DEF DataInv
<1>6. ASSUME NEW x, ReqOK(x) PROVE ReqOK(x)'
  <2>1. x.pc = "issue" => \A w \in Rows : rows'[w].code = x.code => rows[w].code = x.code
    OBVIOUS
  <2> QED BY <1>0, <1>6, <2>1, ReqKept
<1> QED BY <1>5, <1>6

(* The requests in flight keep what they rely on, if every state of them   *)
(* that was sound still is.                                                *)
LEMMA OthersKept ==
    ASSUME OAuthInv, \A x : ReqOK(x) => ReqOK(x)'
    PROVE  /\ UNCHANGED reqs => ReqsInv'
           /\ \A q \in Reqs : Answer(q) => ReqsInv'
<1>0. ReqsInv /\ reqs \in [Reqs -> Req] /\ \A p \in Reqs : ReqOK(reqs[p])
  BY DEF OAuthInv, ReqsInv
<1>1. ASSUME NEW p \in Reqs, reqs'[p] = reqs[p] PROVE ReqOK(reqs[p])'
  <2>1. PICK x : x = reqs[p] /\ x = reqs'[p]
    BY <1>1
  <2>2. ReqOK(x)'
    BY <1>0, <2>1
  <2> QED BY <2>1, <2>2
<1>2. ASSUME UNCHANGED reqs PROVE ReqsInv'
  BY <1>0, <1>1, <1>2 DEF ReqsInv, OneIssuer
<1>3. ASSUME NEW q \in Reqs, Answer(q) PROVE ReqsInv'
  <2>1. \A p \in Reqs : p # q => reqs'[p] = reqs[p]
    BY <1>0, <1>3 DEF Answer
  <2>2. \A p \in Reqs : p # q => ReqOK(reqs[p])'
    BY <1>1, <2>1
  <2> QED BY <1>3, <2>2, ReqsKept
<1> QED BY <1>2, <1>3

(* A refresh writes its row. *)
LEMMA RenewTokenInv ==
    ASSUME OAuthInv, NEW q \in Reqs, RenewToken(q)
    PROVE  OAuthInv'
<1>0. /\ reqs[q] \in Req /\ ReqOK(reqs[q]) /\ reqs[q].pc = "renew"
      /\ DataInv /\ ReqsInv /\ Answer(q)
      /\ UNCHANGED <<clients, registered, codes, enabled, flows>>
  BY DEF OAuthInv, ReqsInv, RenewToken
<1>1. PICK r \in Rows : r = reqs[q].row /\ rows[r].st # "free" /\ RowOK(r)
  BY <1>0 DEF ReqOK, WithRowPc, DataInv
<1>2. PICK a \in Accesses : a = ById(FreeAccess) /\ made[a] = None
  BY <1>0, FreshAccess DEF RenewToken
<1>3. CASE rows[r].st = "row"
  <2>1. PICK n \in Row :
           /\ rows' = [rows EXCEPT ![r] = n]
           /\ n.st = "row" /\ n.client = rows[r].client /\ n.code = rows[r].code
           /\ n.access = a /\ n.scopes = reqs[q].scopes
           /\ n.told = rows[r].told /\ n.revoked = rows[r].revoked
    <3> DEFINE n == Renewed(rows[r], a, reqs[q].scopes)
    <3>1. rows[r] \in Row /\ reqs[q].scopes \in SUBSET Scopes
      BY <1>0 DEF DataInv, Req
    <3>2. n \in Row
      BY <3>1 DEF Renewed, Row
    <3>3. /\ n.st = "row" /\ n.client = rows[r].client /\ n.code = rows[r].code
          /\ n.access = a /\ n.scopes = reqs[q].scopes
          /\ n.told = rows[r].told /\ n.revoked = rows[r].revoked
      BY <1>3, <3>1 DEF Renewed, Row
    <3>4. rows' = [rows EXCEPT ![r] = n]
      BY <1>0, <1>1, <1>2, <1>3 DEF RenewToken, DataInv
    <3> QED BY <3>2, <3>3, <3>4
  <2>2. made' = [made EXCEPT ![a] = r]
    BY <1>1, <1>2, <1>3 DEF RenewToken
  <2>3. /\ rows' \in [Rows -> Row] /\ rows'[r] = n
        /\ \A w \in Rows : w # r => rows'[w] = rows[w]
    BY <1>0, <2>1 DEF DataInv
  <2>4. /\ made' \in [Accesses -> Rows \cup {None}] /\ made'[a] = r
        /\ \A b \in Accesses : b # a => made'[b] = made[b]
    BY <1>0, <2>2 DEF DataInv
  <2>5. ClientsInv' /\ FlowsInv' /\ \A d \in Clients : Registered(d) = Registered(d)'
    BY <1>0, ElseQuiet
  <2>6. \A k \in Codes :
              /\ codes'[k].client = codes[k].client /\ codes'[k].scopes = codes[k].scopes
              /\ codes[k].st = "free" => codes'[k] = codes[k]
              /\ codes[k].st # "free" => codes'[k].st \in {codes[k].st, "gone"}
              /\ codes'[k].st \in {"open", "used"} => Registered(codes[k].client)'
    BY <1>0, <2>5 DEF DataInv, CodeOK
  <2>7. ASSUME NEW w \in Rows, rows[w].st # "free"
        PROVE  /\ rows'[w].st # "free"
               /\ rows'[w].code = rows[w].code /\ rows'[w].client = rows[w].client
               /\ rows'[w].scopes # {}
               /\ rows'[w].scopes \subseteq codes[rows[w].code].scopes
               /\ rows'[w].access \in Accesses /\ made'[rows'[w].access] = w
               /\ rows'[w].told => rows'[w].revoked
               /\ Dead(rows[w]) => Dead(rows'[w])
               /\ rows'[w].st = "row" => Registered(rows[w].client)'
    <3>1. RowOK(w) /\ codes[rows[w].code].client \in Clients
      BY <1>0, <2>7 DEF DataInv, CodeOK, RowOK
    <3>2. CASE w = r
      <4>1. reqs[q].scopes # {} /\ reqs[q].scopes \subseteq codes[rows[w].code].scopes
        BY <1>0, <1>1, <3>2 DEF ReqOK
      <4>2. Dead(rows[w]) => Dead(rows'[w])
        BY <1>3, <2>1, <2>3, <3>2 DEF Dead
      <4>3. rows'[w].told => rows'[w].revoked
        BY <2>1, <2>3, <3>1, <3>2 DEF RowOK
      <4>4. Registered(rows[w].client)'
        BY <1>3, <2>1, <2>3, <2>5, <3>1, <3>2 DEF RowOK
      <4> QED BY <2>1, <2>3, <2>4, <3>2, <4>1, <4>2, <4>3, <4>4
    <3>3. CASE w # r
      <4>1. rows'[w] = rows[w]
        BY <2>3, <3>3
      <4>2. rows[w].access \in Accesses /\ made[rows[w].access] = w /\ rows[w].access # a
        BY <1>2, <2>7, <3>1 DEF RowOK, Rows, None
      <4>3. rows'[w].st = "row" => Registered(rows[w].client)'
        BY <2>5, <3>1, <4>1 DEF RowOK, Registered
      <4> QED BY <2>4, <2>7, <3>1, <4>1, <4>2, <4>3 DEF RowOK
    <3> QED BY <3>2, <3>3
  <2>8. \A w \in Rows : rows[w].st = "free" => rows'[w] = rows[w]
    BY <1>1, <2>3
  <2>9. \A b \in Accesses : made[b] \in Rows => made'[b] = made[b]
    BY <1>2, <2>4 DEF Rows, None
  <2>10. \A b \in Accesses : made'[b] # None => rows[made'[b]].st # "free"
    BY <1>0, <1>1, <2>4 DEF DataInv
  <2>11. codes' \in [Codes -> Code]
    BY <1>0 DEF DataInv
  <2>12. DataInv' /\ \A x : ReqOK(x) => ReqOK(x)'
    BY <2>3, <2>4, <2>6, <2>7, <2>8, <2>9, <2>10, <2>11, RowsChange
  <2> QED BY <1>0, <2>5, <2>12, OthersKept DEF OAuthInv
<1>4. CASE rows[r].st # "row"
  BY <1>0, <1>1, <1>4, IdleOK, AloneInv DEF RenewToken, Answer
<1> QED BY <1>3, <1>4

(* Rows lose their validity, and codes with them: the row keeps what it is *)
(* of, and nothing is generated.                                           *)
LEMMA RowsFade ==
    ASSUME OAuthInv, UNCHANGED made,
           rows' \in [Rows -> Row], codes' \in [Codes -> Code],
           \A k \in Codes :
              /\ codes'[k].client = codes[k].client /\ codes'[k].scopes = codes[k].scopes
              /\ codes[k].st = "free" => codes'[k] = codes[k]
              /\ codes[k].st # "free" => codes'[k].st \in {codes[k].st, "gone"},
           \A w \in Rows :
              /\ rows[w].st = "free" => rows'[w] = rows[w]
              /\ rows'[w].code = rows[w].code /\ rows'[w].client = rows[w].client
              /\ rows'[w].scopes = rows[w].scopes /\ rows'[w].access = rows[w].access
              /\ rows'[w].st \in {rows[w].st, "gone"}
              /\ rows[w].told => rows'[w].told
              /\ rows'[w].told => rows'[w].revoked,
           \A k \in Codes : codes'[k].st \in {"open", "used"} =>
                               (Registered(codes[k].client) => Registered(codes[k].client)'),
           \A w \in Rows : rows'[w].st = "row" =>
                               (Registered(rows[w].client) => Registered(rows[w].client)')
    PROVE  DataInv' /\ \A x : ReqOK(x) => ReqOK(x)'
<1>0. DataInv
  BY DEF OAuthInv
<1>1. ASSUME NEW k \in Codes
      PROVE  /\ codes'[k].client = codes[k].client /\ codes'[k].scopes = codes[k].scopes
             /\ codes[k].st = "free" => codes'[k] = codes[k]
             /\ codes[k].st # "free" => codes'[k].st \in {codes[k].st, "gone"}
             /\ codes'[k].st \in {"open", "used"} => Registered(codes[k].client)'
  <2>1. CodeOK(k)
    BY <1>0 DEF DataInv
  <2>2. codes'[k].st \in {"open", "used"} => codes[k].st \in {"open", "used"}
    BY <2>1 DEF CodeOK
  <2>3. codes'[k].st \in {"open", "used"} => Registered(codes[k].client)
    BY <2>1, <2>2 DEF CodeOK
  <2> QED BY <2>3
<1>2. ASSUME NEW w \in Rows, rows[w].st # "free"
      PROVE  /\ rows'[w].st # "free"
             /\ rows'[w].code = rows[w].code /\ rows'[w].client = rows[w].client
             /\ rows'[w].scopes # {}
             /\ rows'[w].scopes \subseteq codes[rows[w].code].scopes
             /\ rows'[w].access \in Accesses /\ made'[rows'[w].access] = w
             /\ rows'[w].told => rows'[w].revoked
             /\ Dead(rows[w]) => Dead(rows'[w])
             /\ rows'[w].st = "row" => Registered(rows[w].client)'
  <2>1. RowOK(w)
    BY <1>0 DEF DataInv
  <2>2. Dead(rows[w]) => Dead(rows'[w])
    <3>1. rows[w].st = "gone" => rows'[w].st = "gone"
      OBVIOUS
    <3> QED BY <3>1 DEF Dead
  <2>3. rows'[w].st = "row" => Registered(rows[w].client)
    BY <2>1 DEF RowOK
  <2>4. rows'[w].st = "row" => Registered(rows[w].client)'
    BY <2>3
  <2> QED BY <1>2, <2>1, <2>2, <2>4 DEF RowOK
<1>3. made' \in [Accesses -> Rows \cup {None}]
      /\ \A b \in Accesses : made'[b] # None => rows[made'[b]].st # "free"
  BY <1>0 DEF DataInv
<1>4. \A w \in Rows : rows[w].st = "free" => rows'[w] = rows[w]
  OBVIOUS
<1>5. \A b \in Accesses : made[b] \in Rows => made'[b] = made[b]
  OBVIOUS
<1> QED BY <1>1, <1>2, <1>3, <1>4, <1>5, RowsChange

(* A row is revoked. *)
LEMMA RevokeTokenInv ==
    ASSUME OAuthInv, NEW q \in Reqs, RevokeToken(q)
    PROVE  OAuthInv'
<1>0. /\ ReqOK(reqs[q]) /\ reqs[q].pc = "revoke"
      /\ DataInv /\ Answer(q)
      /\ UNCHANGED <<clients, registered, codes, made, enabled, flows>>
  BY DEF OAuthInv, ReqsInv, RevokeToken
<1>1. PICK r \in Rows : r = reqs[q].row /\ rows[r].st # "free"
  BY <1>0 DEF ReqOK, WithRowPc
<1>2. CASE rows[r].st = "row"
  <2>1. PICK n \in Row :
           /\ rows' = [rows EXCEPT ![r] = n]
           /\ n.st = "row" /\ n.client = rows[r].client /\ n.code = rows[r].code
           /\ n.access = rows[r].access /\ n.scopes = rows[r].scopes
           /\ n.told = TRUE /\ n.revoked = TRUE
    <3> DEFINE n == [rows[r] EXCEPT !.revoked = TRUE, !.told = TRUE]
    <3>1. rows[r] \in Row
      BY <1>0 DEF DataInv
    <3>2. n \in Row
      BY <3>1 DEF Row
    <3>3. /\ n.st = "row" /\ n.client = rows[r].client /\ n.code = rows[r].code
          /\ n.access = rows[r].access /\ n.scopes = rows[r].scopes
          /\ n.told = TRUE /\ n.revoked = TRUE
      BY <1>2, <3>1 DEF Row
    <3>4. rows' = [rows EXCEPT ![r] = n]
      BY <1>0, <1>1, <1>2 DEF RevokeToken, DataInv
    <3> QED BY <3>2, <3>3, <3>4
  <2>2. /\ rows' \in [Rows -> Row] /\ rows'[r] = n
        /\ \A w \in Rows : w # r => rows'[w] = rows[w]
    BY <1>0, <2>1 DEF DataInv
  <2>3. ClientsInv' /\ FlowsInv' /\ \A d \in Clients : Registered(d) = Registered(d)'
    BY <1>0, ElseQuiet
  <2>4. ASSUME NEW w \in Rows
        PROVE  /\ rows[w].st = "free" => rows'[w] = rows[w]
               /\ rows'[w].code = rows[w].code /\ rows'[w].client = rows[w].client
               /\ rows'[w].scopes = rows[w].scopes /\ rows'[w].access = rows[w].access
               /\ rows'[w].st \in {rows[w].st, "gone"}
               /\ rows[w].told => rows'[w].told
               /\ rows'[w].told => rows'[w].revoked
    <3>1. CASE w = r
      BY <1>1, <1>2, <2>1, <2>2, <3>1
    <3>2. CASE w # r
      BY <1>0, <2>2, <3>2 DEF DataInv, RowOK
    <3> QED BY <3>1, <3>2
  <2>5. \A k \in Codes : Registered(codes[k].client) => Registered(codes[k].client)'
    BY <1>0 DEF Registered
  <2>6. \A w \in Rows : Registered(rows[w].client) => Registered(rows[w].client)'
    BY <1>0, <2>4 DEF Registered
  <2>7. codes' \in [Codes -> Code] /\ codes' = codes /\ made' = made
    BY <1>0 DEF DataInv
  <2>8. DataInv' /\ \A x : ReqOK(x) => ReqOK(x)'
    BY <2>2, <2>4, <2>5, <2>6, <2>7, RowsFade
  <2> QED BY <1>0, <2>3, <2>8, OthersKept DEF OAuthInv
<1>3. CASE rows[r].st # "row"
  BY <1>0, <1>1, <1>3, IdleOK, AloneInv DEF RevokeToken, Answer
<1> QED BY <1>2, <1>3

(* A client is deleted with its codes and its rows. *)
LEMMA DeleteClientInv ==
    ASSUME OAuthInv, NEW c \in Clients, DeleteClient(c)
    PROVE  OAuthInv'
<1>0. DataInv /\ ClientsInv /\ FlowsInv /\ UNCHANGED <<registered, made, enabled, flows, reqs>>
  BY DEF OAuthInv, DeleteClient
<1>1. /\ clients' = [clients EXCEPT ![c] = Absent]
      /\ codes' = [k \in Codes |-> IF codes[k].client = c THEN [codes[k] EXCEPT !.st = "gone"] ELSE codes[k]]
      /\ rows' = [r \in Rows |-> IF rows[r].client = c THEN [rows[r] EXCEPT !.st = "gone"] ELSE rows[r]]
  BY DEF DeleteClient
<1>2. ClientsInv' /\ FlowsInv' /\ \A d \in Clients : d # c /\ Registered(d) => Registered(d)'
  BY <1>0, <1>1 DEF ClientsInv, FlowsInv, Registered
<1>3. ASSUME NEW k \in Codes
      PROVE  /\ codes'[k] \in Code
             /\ codes'[k].client = codes[k].client /\ codes'[k].scopes = codes[k].scopes
             /\ codes[k].st = "free" => codes'[k] = codes[k]
             /\ codes[k].st # "free" => codes'[k].st \in {codes[k].st, "gone"}
             /\ codes[k].client = c => codes'[k].st = "gone"
  <2>1. codes[k] \in Code /\ CodeOK(k)
    BY <1>0 DEF DataInv
  <2>2. CASE codes[k].client = c
    <3>1. codes[k].st # "free"
      BY <2>1, <2>2, NoneAssumption DEF CodeOK, FreeCode
    <3>2. codes'[k] = [codes[k] EXCEPT !.st = "gone"]
      BY <1>1, <2>2
    <3> QED BY <2>1, <3>1, <3>2 DEF Code
  <2>3. CASE codes[k].client # c
    BY <1>1, <2>1, <2>3
  <2> QED BY <2>2, <2>3
<1>4. ASSUME NEW w \in Rows
      PROVE  /\ rows'[w] \in Row
             /\ rows[w].st = "free" => rows'[w] = rows[w]
             /\ rows'[w].code = rows[w].code /\ rows'[w].client = rows[w].client
             /\ rows'[w].scopes = rows[w].scopes /\ rows'[w].access = rows[w].access
             /\ rows'[w].st \in {rows[w].st, "gone"}
             /\ rows[w].told => rows'[w].told
             /\ rows'[w].told => rows'[w].revoked
             /\ rows[w].client = c => rows'[w].st = "gone"
  <2>1. rows[w] \in Row /\ RowOK(w)
    BY <1>0 DEF DataInv
  <2>2. CASE rows[w].client = c
    <3>1. rows[w].st # "free"
      BY <2>1, <2>2, NoneAssumption DEF RowOK, FreeRow
    <3>2. rows'[w] = [rows[w] EXCEPT !.st = "gone"]
      BY <1>1, <2>2
    <3>3. rows'[w].told = rows[w].told /\ rows'[w].revoked = rows[w].revoked
      BY <2>1, <3>2 DEF Row
    <3>4. rows'[w].told => rows'[w].revoked
      BY <2>1, <3>3 DEF RowOK
    <3> QED BY <2>1, <3>1, <3>2, <3>3, <3>4 DEF Row
  <2>3. CASE rows[w].client # c
    <3>1. rows'[w] = rows[w]
      BY <1>1, <2>3
    <3> QED BY <2>1, <2>3, <3>1 DEF RowOK
  <2> QED BY <2>2, <2>3
<1>5. codes' \in [Codes -> Code] /\ rows' \in [Rows -> Row]
  <2>1. codes' = [k \in Codes |-> codes'[k]] /\ rows' = [w \in Rows |-> rows'[w]]
    BY <1>1
  <2> QED BY <1>3, <1>4, <2>1
<1>6. ASSUME NEW k \in Codes, codes'[k].st \in {"open", "used"}, Registered(codes[k].client)
      PROVE  Registered(codes[k].client)'
  <2>1. codes[k].client # c /\ codes[k].client \in Clients
    BY <1>3, <1>6 DEF Registered
  <2> QED BY <1>1, <1>3, <1>6, <2>1 DEF Registered
<1>7. ASSUME NEW w \in Rows, rows'[w].st = "row", Registered(rows[w].client)
      PROVE  Registered(rows[w].client)'
  <2>1. rows[w].client # c /\ rows[w].client \in Clients
    BY <1>4, <1>7 DEF Registered
  <2> QED BY <1>1, <1>4, <1>7, <2>1 DEF Registered
<1>8. DataInv' /\ \A x : ReqOK(x) => ReqOK(x)'
  BY <1>0, <1>3, <1>4, <1>5, <1>6, <1>7, RowsFade
<1> QED BY <1>0, <1>2, <1>8, OthersKept DEF OAuthInv

(* A code or an access token expires. *)
LEMMA ExpireInv ==
    ASSUME OAuthInv, Expire
    PROVE  OAuthInv'
<1>0. DataInv /\ UNCHANGED <<clients, registered, made, enabled, flows, reqs>>
  BY DEF OAuthInv, Expire
<1>1. ClientsInv' /\ FlowsInv' /\ \A d \in Clients : Registered(d) = Registered(d)'
  BY <1>0, ElseQuiet
<1>2. ASSUME NEW k \in Codes, codes[k].st = "open",
             codes' = [codes EXCEPT ![k].expired = TRUE], UNCHANGED rows
      PROVE  OAuthInv'
  <2>1. PICK n \in Code : /\ codes' = [codes EXCEPT ![k] = n] /\ n.st = codes[k].st
                          /\ n.client = codes[k].client /\ n.scopes = codes[k].scopes
    <3> DEFINE n == [codes[k] EXCEPT !.expired = TRUE]
    <3>1. codes[k] \in Code /\ codes' = [codes EXCEPT ![k] = n]
      BY <1>0, <1>2 DEF DataInv
    <3>2. n \in Code /\ n.st = codes[k].st /\ n.client = codes[k].client /\ n.scopes = codes[k].scopes
      BY <3>1 DEF Code
    <3> QED BY <3>1, <3>2
  <2>2. /\ codes' \in [Codes -> Code] /\ rows' \in [Rows -> Row]
        /\ \A j \in Codes : /\ codes'[j].client = codes[j].client /\ codes'[j].scopes = codes[j].scopes
                            /\ codes'[j].st = codes[j].st
                            /\ j # k => codes'[j] = codes[j]
    BY <1>0, <1>2, <2>1 DEF DataInv
  <2>3. \A j \in Codes : Registered(codes[j].client) => Registered(codes[j].client)'
    BY <1>0, <2>2 DEF Registered
  <2>4. \A w \in Rows : Registered(rows[w].client) => Registered(rows[w].client)'
    BY <1>0, <1>2 DEF Registered
  <2>5. \A w \in Rows : rows[w].told => rows[w].revoked
    BY <1>0 DEF DataInv, RowOK
  <2>6. DataInv' /\ \A x : ReqOK(x) => ReqOK(x)'
    BY <1>0, <1>2, <2>2, <2>3, <2>4, <2>5, RowsFade
  <2> QED BY <1>0, <1>1, <2>6, OthersKept DEF OAuthInv
<1>3. ASSUME NEW r \in Rows, rows[r].fresh, rows' = [rows EXCEPT ![r].fresh = FALSE],
             UNCHANGED codes
      PROVE  OAuthInv'
  <2>1. PICK n \in Row :
           /\ rows' = [rows EXCEPT ![r] = n]
           /\ n.st = rows[r].st /\ n.client = rows[r].client /\ n.code = rows[r].code
           /\ n.access = rows[r].access /\ n.scopes = rows[r].scopes
           /\ n.told = rows[r].told /\ n.revoked = rows[r].revoked
    <3> DEFINE n == [rows[r] EXCEPT !.fresh = FALSE]
    <3>1. rows[r] \in Row /\ rows' = [rows EXCEPT ![r] = n]
      BY <1>0, <1>3 DEF DataInv
    <3>2. n \in Row
      BY <3>1 DEF Row
    <3>3. /\ n.st = rows[r].st /\ n.client = rows[r].client /\ n.code = rows[r].code
          /\ n.access = rows[r].access /\ n.scopes = rows[r].scopes
          /\ n.told = rows[r].told /\ n.revoked = rows[r].revoked
      BY <3>1 DEF Row
    <3> QED BY <3>1, <3>2, <3>3
  <2>2. /\ rows' \in [Rows -> Row] /\ rows'[r] = n /\ codes' \in [Codes -> Code]
        /\ \A w \in Rows : w # r => rows'[w] = rows[w]
    BY <1>0, <1>3, <2>1 DEF DataInv
  <2>3. rows[r].st # "free"
    BY <1>0, <1>3 DEF DataInv, RowOK, FreeRow
  <2>4. ASSUME NEW w \in Rows
        PROVE  /\ rows[w].st = "free" => rows'[w] = rows[w]
               /\ rows'[w].code = rows[w].code /\ rows'[w].client = rows[w].client
               /\ rows'[w].scopes = rows[w].scopes /\ rows'[w].access = rows[w].access
               /\ rows'[w].st \in {rows[w].st, "gone"}
               /\ rows[w].told => rows'[w].told
               /\ rows'[w].told => rows'[w].revoked
    <3>1. RowOK(w)
      BY <1>0 DEF DataInv
    <3>2. CASE w = r
      <4>1. rows'[w].told = rows[w].told /\ rows'[w].revoked = rows[w].revoked
        BY <2>1, <2>2, <3>2
      <4>2. rows'[w].told => rows'[w].revoked
        BY <3>1, <4>1 DEF RowOK
      <4> QED BY <2>1, <2>2, <2>3, <3>2, <4>1, <4>2
    <3>3. CASE w # r
      BY <2>2, <3>1, <3>3 DEF RowOK
    <3> QED BY <3>2, <3>3
  <2>5. \A k \in Codes : Registered(codes[k].client) => Registered(codes[k].client)'
    BY <1>0, <1>3 DEF Registered
  <2>6. \A w \in Rows : Registered(rows[w].client) => Registered(rows[w].client)'
    BY <1>0, <2>4 DEF Registered
  <2>7. DataInv' /\ \A x : ReqOK(x) => ReqOK(x)'
    BY <1>0, <1>3, <2>2, <2>4, <2>5, <2>6, RowsFade
  <2> QED BY <1>0, <1>1, <2>7, OthersKept DEF OAuthInv
<1> QED BY <1>2, <1>3 DEF Expire

(* The invariant holds initially. *)
LEMMA InitInv == Init => OAuthInv
<1> SUFFICES ASSUME Init PROVE OAuthInv
  OBVIOUS
<1> USE DEF Init
<1>1. ClientsInv
  <2>1. registered \in 0..Registrations
    BY BoundAssumption
  <2>2. clients \in [Clients -> {Absent} \cup SUBSET Scopes] /\ enabled \in BOOLEAN
    OBVIOUS
  <2> QED BY <2>1, <2>2 DEF ClientsInv
<1>2. FlowsInv
  <2>1. NoFlow \in Flow /\ NoFlow.st = "none"
    BY DEF NoFlow, Flow
  <2> QED BY <2>1 DEF FlowsInv
<1>3. FreeCode \in Code /\ FreeCode.st = "free" /\ FreeRow \in Row /\ FreeRow.st = "free"
      /\ FreeRow.told = FALSE
  BY DEF FreeCode, Code, FreeRow, Row, None
<1>4. DataInv
  <2>1. \A k \in Codes : CodeOK(k)
    BY <1>3 DEF CodeOK
  <2>2. \A r \in Rows : RowOK(r)
    BY <1>3 DEF RowOK
  <2>3. OneRow
    BY <1>3 DEF OneRow
  <2> QED BY <1>3, <2>1, <2>2, <2>3 DEF DataInv
<1>5. ReqsInv
  BY IdleOK DEF ReqsInv, OneIssuer
<1> QED BY <1>1, <1>2, <1>4, <1>5 DEF OAuthInv

(* Every step keeps the invariant. *)
LEMMA NextInv == OAuthInv /\ [Next]_vars => OAuthInv'
<1> SUFFICES ASSUME OAuthInv, [Next]_vars PROVE OAuthInv'
  OBVIOUS
<1>1. CASE UNCHANGED vars
  <2>1. ClientsInv' /\ FlowsInv' /\ \A c \in Clients : Registered(c) = Registered(c)'
    BY <1>1, ElseQuiet DEF vars
  <2>2. DataInv'
    BY <1>1, <2>1, DataQuiet DEF OAuthInv, vars
  <2>3. \A x : ReqOK(x) => ReqOK(x)'
    BY <1>1 DEF ReqOK, RowsOf, vars
  <2>4. ReqsInv'
    BY <1>1, <2>3, OthersKept DEF vars
  <2> QED BY <2>1, <2>2, <2>4 DEF OAuthInv
<1>2. ASSUME NEW q \in Reqs, ReqStep(q) PROVE OAuthInv'
  BY <1>2, ReadInv, CreateCodeInv, ClaimCodeInv, CreateTokenInv, RenewTokenInv,
     RevokeTokenInv DEF ReqStep
<1>3. ASSUME NEW q \in Reqs, NewReq(q) PROVE OAuthInv'
  BY <1>3, StartInv
<1>4. ASSUME NEW c \in Clients, RegisterClient(c) \/ UpdateClient(c) \/ DeleteClient(c) PROVE OAuthInv'
  BY <1>4, OutsideInv, DeleteClientInv
<1>5. ASSUME NEW f \in Flows, ExpireFlow(f) \/ \E c \in Clients : CreateFlow(f, c) PROVE OAuthInv'
  BY <1>5, OutsideInv
<1>6. CASE Expire \/ UserChanges
  BY <1>6, ExpireInv, OutsideInv
<1> QED BY <1>1, <1>2, <1>3, <1>4, <1>5, <1>6 DEF Next

(* The invariant holds throughout. *)
LEMMA OAuthInvHolds == Spec => []OAuthInv
BY InitInv, NextInv, PTL DEF Spec

(* Codes and tokens that can be used refer to registered clients, and a    *)
(* validation that begins after a revocation was answered, or after the    *)
(* client was deleted, never accepts the token: not even when a refresh    *)
(* that read the row before the revocation writes it afterwards            *)
(* (OAuthTokenValidator.validate, handleRefreshTokenGrant).                *)
THEOREM TokensStaySound == Spec => []TokensSound
<1>1. OAuthInv => TokensSound
  <2> SUFFICES ASSUME OAuthInv PROVE TokensSound
    OBVIOUS
  <2>1. TypeOK
    BY DEF OAuthInv, ClientsInv, FlowsInv, DataInv, ReqsInv, CodeOK, RowOK, TypeOK
  <2>2. RevokedIsRejected
    BY DEF OAuthInv, ReqsInv, ReqOK, RevokedIsRejected
  <2> QED BY <2>1, <2>2 DEF TokensSound
<1> QED BY <1>1, OAuthInvHolds, PTL

-----------------------------------------------------------------------------
(* Settling touches a pending flow only. *)
LEMMA SettledKeeps ==
    ASSUME FlowsInv, NEW f \in Flows \cup {None}, NEW k, NEW st,
           NEW g \in Flows, flows[g].st # "pending"
    PROVE  Settled(f, st, k)[g] = flows[g]
<1>1. CASE f = None \/ flows[f].st # "pending"
  BY <1>1 DEF Settled
<1>2. CASE ~(f = None \/ flows[f].st # "pending")
  BY <1>2 DEF Settled, FlowsInv
<1> QED BY <1>1, <1>2

(* The desk is told one outcome: the second of two callbacks of a flow     *)
(* replaces neither the redirect nor the error of the first, whatever runs *)
(* between the two (completeFlow, failFlow).                               *)
THEOREM OutcomeIsKept == Spec => FlowKeepsOutcome
<1> DEFINE Kept(f) ==
      /\ flows[f].st = "completed" => flows'[f] = flows[f]
      /\ flows[f].st \in {"failed", "expired", "dropped"} => flows'[f].st \in {flows[f].st, "dropped"}
<1>1. ASSUME OAuthInv, [Next]_vars, NEW g \in Flows PROVE Kept(g)
  <2>0. FlowsInv /\ reqs \in [Reqs -> Req]
    BY <1>1 DEF OAuthInv, ReqsInv
  <2>1. CASE UNCHANGED flows
    BY <2>1
  <2>2. ASSUME NEW q \in Reqs, NEW k, NEW st, flows' = Settled(reqs[q].flow, st, k) PROVE Kept(g)
    <3>1. reqs[q].flow \in Flows \cup {None}
      BY <2>0 DEF Req
    <3> QED BY <2>0, <2>2, <3>1, SettledKeeps
  <2>3. ASSUME NEW f \in Flows, ExpireFlow(f) PROVE Kept(g)
    BY <2>0, <2>3 DEF ExpireFlow, FlowsInv, Flow
  <2>4. ASSUME NEW f \in Flows, NEW c \in Clients, CreateFlow(f, c) PROVE Kept(g)
    BY <2>0, <2>4 DEF CreateFlow, FlowsInv
  <2>5. ASSUME NEW q \in Reqs, ReqStep(q) PROVE Kept(g)
    <3>1. CASE Refuse(q) \/ CreateUrlClient(q) \/ ErrorRedirect(q) \/ CompleteFlow(q)
      BY <2>1, <2>2, <3>1 DEF Refuse, CreateUrlClient, ErrorRedirect, CompleteFlow, Fail
    <3>2. CASE ~(Refuse(q) \/ CreateUrlClient(q) \/ ErrorRedirect(q) \/ CompleteFlow(q))
      BY <2>1, <2>5, <3>2 DEF ReqStep, FetchMetadata, FindUrlClient, ValidateDeskUser,
         GetAuthorizationClient, ValidateUser, CreateCode, FindCode, ClaimCode, CreateToken,
         FindRefresh, RenewToken, FindToken, RevokeToken, CheckToken, CheckUser
    <3> QED BY <3>1, <3>2
  <2>6. ASSUME NEW q \in Reqs, NewReq(q) PROVE UNCHANGED flows
    BY <2>6 DEF NewReq, DeskCallback, Validate, RegisterUrl, Authorize, Exchange, Introspect,
       Refresh, Revoke, Check
  <2>7. ASSUME NEW c \in Clients, RegisterClient(c) \/ UpdateClient(c) \/ DeleteClient(c)
        PROVE  UNCHANGED flows
    BY <2>7 DEF RegisterClient, UpdateClient, DeleteClient
  <2>8. CASE Expire \/ UserChanges
    BY <2>1, <2>8 DEF Expire, UserChanges
  <2>9. CASE UNCHANGED vars
    BY <2>1, <2>9 DEF vars
  <2> QED BY <1>1, <2>1, <2>3, <2>4, <2>5, <2>6, <2>7, <2>8, <2>9 DEF Next
<1>2. OAuthInv /\ [Next]_vars => [\A f \in Flows : Kept(f)]_vars
  BY <1>1
<1>3. [][Next]_vars /\ []OAuthInv => [][\A f \in Flows : Kept(f)]_vars
  BY <1>2, PTL
<1> QED BY <1>3, OAuthInvHolds, PTL DEF Spec, FlowKeepsOutcome

-----------------------------------------------------------------------------
(* The refinement of OAuthGrants.  What a table of rows shows of a grant.  *)
RowsIn(w, k) == {r \in Rows : w[r].code = k}
PowerIn(w, k) == UNION {w[r].scopes : r \in {x \in RowsIn(w, k) : w[x].st = "row"}}
RevokedIn(w, k) == \E r \in RowsIn(w, k) : w[r].revoked

(* The variables of OAuthGrants, as OAuth sees them. *)
Phase == [k \in Codes |-> PhaseOf(k)]
Granted == [k \in Codes |-> codes[k].scopes]
Issued == [k \in Codes |-> Cardinality(RowsIn(rows, k))]
Power == [k \in Codes |-> PowerIn(rows, k)]
Revoked == [k \in Codes |-> RevokedIn(rows, k)]

(* A grant nothing was issued for. *)
LEMMA NoRowView ==
    ASSUME NEW w, NEW k, RowsIn(w, k) = {}
    PROVE  Cardinality(RowsIn(w, k)) = 0 /\ PowerIn(w, k) = {} /\ RevokedIn(w, k) = FALSE
BY FS_EmptySet DEF PowerIn, RevokedIn

(* A grant with one row. *)
LEMMA OneRowView ==
    ASSUME NEW w, NEW k, NEW r \in Rows, RowsIn(w, k) = {r}, w[r].revoked \in BOOLEAN
    PROVE  /\ Cardinality(RowsIn(w, k)) = 1
           /\ w[r].st = "row" => PowerIn(w, k) = w[r].scopes
           /\ w[r].st # "row" => PowerIn(w, k) = {}
           /\ RevokedIn(w, k) = w[r].revoked
<1>1. Cardinality(RowsIn(w, k)) = 1
  BY FS_Singleton
<1>2. w[r].st = "row" => PowerIn(w, k) = w[r].scopes
  BY DEF PowerIn
<1>3. w[r].st # "row" => PowerIn(w, k) = {}
  BY DEF PowerIn
<1>4. RevokedIn(w, k) = w[r].revoked
  BY Zenon DEF RevokedIn
<1> QED BY <1>1, <1>2, <1>3, <1>4

(* Two tables that agree on the rows of a grant show the same of it. *)
LEMMA SameView ==
    ASSUME NEW v, NEW w, NEW k,
           \A r \in Rows : /\ v[r].code = k <=> w[r].code = k
                           /\ v[r].code = k => /\ v[r].st = w[r].st /\ v[r].scopes = w[r].scopes
                                               /\ v[r].revoked = w[r].revoked
    PROVE  RowsIn(v, k) = RowsIn(w, k) /\ PowerIn(v, k) = PowerIn(w, k) /\ RevokedIn(v, k) = RevokedIn(w, k)
<1>1. RowsIn(v, k) = RowsIn(w, k)
  BY DEF RowsIn
<1>2. PowerIn(v, k) = PowerIn(w, k)
  <2>1. {x \in RowsIn(v, k) : v[x].st = "row"} = {x \in RowsIn(w, k) : w[x].st = "row"}
    BY <1>1 DEF RowsIn
  <2>2. \A r \in {x \in RowsIn(w, k) : w[x].st = "row"} : v[r].scopes = w[r].scopes
    BY DEF RowsIn
  <2>3. {v[r].scopes : r \in {x \in RowsIn(w, k) : w[x].st = "row"}}
          = {w[r].scopes : r \in {x \in RowsIn(w, k) : w[x].st = "row"}}
    BY <2>2
  <2> QED BY <2>1, <2>3 DEF PowerIn
<1>3. RevokedIn(v, k) = RevokedIn(w, k)
  <2>1. \A r \in RowsIn(w, k) : v[r].revoked = w[r].revoked
    BY DEF RowsIn
  <2> QED BY <1>1, <2>1 DEF RevokedIn
<1> QED BY <1>1, <1>2, <1>3

(* The rows of a grant: none, or one that was made. *)
LEMMA RowsOfGrant ==
    ASSUME DataInv, NEW k \in Codes
    PROVE  \/ RowsIn(rows, k) = {}
           \/ \E r \in Rows : RowsIn(rows, k) = {r} /\ rows[r].st # "free" /\ rows[r].code = k
<1>1. \A r \in Rows : rows[r].code = k => rows[r].st # "free"
  BY DEF DataInv, RowOK, FreeRow, Codes, None
<1>2. ASSUME NEW r \in Rows, rows[r].code = k PROVE RowsIn(rows, k) = {r}
  BY <1>1, <1>2 DEF RowsIn, DataInv, OneRow
<1>3. RowsIn(rows, k) # {} => \E r \in Rows : rows[r].code = k
  BY DEF RowsIn
<1> QED BY <1>1, <1>2, <1>3

(* The phase of a code by its state. *)
LEMMA PhaseCases ==
    ASSUME DataInv, NEW k \in Codes
    PROVE  /\ codes[k].st = "free" => PhaseOf(k) = "none"
           /\ codes[k].st = "open" => PhaseOf(k) = "open"
           /\ codes[k].st = "used" => PhaseOf(k) = "claimed"
           /\ codes[k].st = "gone" => PhaseOf(k) = "gone"
BY DEF PhaseOf

(* The steps of OAuthGrants, in terms of the variables above. *)
LEMMA GrantSteps ==
    /\ Phase = [k \in Codes |-> "none"] /\ Granted = [k \in Codes |-> {}]
       /\ Issued = [k \in Codes |-> 0] /\ Power = [k \in Codes |-> {}]
       /\ Revoked = [k \in Codes |-> FALSE] => Grants!Init
    /\ UNCHANGED <<Phase, Granted, Issued, Power, Revoked>> => UNCHANGED Grants!grantVars
<1> USE DEF Phase, Granted, Issued, Power, Revoked, RowsIn, PowerIn, RevokedIn, RowsOf
<1>1. Phase = [k \in Codes |-> "none"] /\ Granted = [k \in Codes |-> {}]
       /\ Issued = [k \in Codes |-> 0] /\ Power = [k \in Codes |-> {}]
       /\ Revoked = [k \in Codes |-> FALSE] => Grants!Init
  BY DEF Grants!Init
<1>2. UNCHANGED <<Phase, Granted, Issued, Power, Revoked>> => UNCHANGED Grants!grantVars
  BY DEF Grants!grantVars
<1> QED BY <1>1, <1>2

(* A consent, a claim, an issue, a reissue, a revocation or a deletion, in *)
(* the same terms.                                                         *)
LEMMA GrantMoves ==
    ASSUME NEW g \in Codes, NEW sc, NEW G \in SUBSET Codes
    PROVE  /\ Phase[g] = "none" /\ sc \in SUBSET Scopes /\ Granted' = [Granted EXCEPT ![g] = sc]
              /\ Phase' = [Phase EXCEPT ![g] = "open"] /\ UNCHANGED <<Issued, Power, Revoked>>
              => Grants!Next
           /\ Phase[g] = "open" /\ Phase' = [Phase EXCEPT ![g] = "claimed"]
              /\ UNCHANGED <<Granted, Issued, Power, Revoked>> => Grants!Next
           /\ Phase[g] \in {"claimed", "gone"} /\ Issued[g] = 0
              /\ Issued' = [Issued EXCEPT ![g] = 1] /\ Power' = [Power EXCEPT ![g] = Granted[g]]
              /\ UNCHANGED <<Phase, Granted, Revoked>> => Grants!Next
           /\ Issued[g] = 1 /\ Power[g] # {} /\ sc \in SUBSET Granted[g]
              /\ Power' = [Power EXCEPT ![g] = sc]
              /\ UNCHANGED <<Phase, Granted, Issued, Revoked>> => Grants!Next
           /\ Issued[g] = 1 /\ Revoked' = [Revoked EXCEPT ![g] = TRUE]
              /\ UNCHANGED <<Phase, Granted, Issued, Power>> => Grants!Next
           /\ (\A k \in G : Phase[k] # "none")
              /\ Phase' = [k \in Codes |-> IF k \in G THEN "gone" ELSE Phase[k]]
              /\ Power' = [k \in Codes |-> IF k \in G THEN {} ELSE Power[k]]
              /\ UNCHANGED <<Granted, Issued, Revoked>> => Grants!Next
<1> USE DEF Phase, Granted, Issued, Power, Revoked, RowsIn, PowerIn, RevokedIn, RowsOf, Grants!Next
<1>1. Phase[g] = "none" /\ sc \in SUBSET Scopes /\ Granted' = [Granted EXCEPT ![g] = sc]
         /\ Phase' = [Phase EXCEPT ![g] = "open"] /\ UNCHANGED <<Issued, Power, Revoked>>
      => Grants!Next
  BY DEF Grants!Consent
<1>2. Phase[g] = "open" /\ Phase' = [Phase EXCEPT ![g] = "claimed"]
         /\ UNCHANGED <<Granted, Issued, Power, Revoked>> => Grants!Next
  BY DEF Grants!Claim
<1>3. Phase[g] \in {"claimed", "gone"} /\ Issued[g] = 0
         /\ Issued' = [Issued EXCEPT ![g] = 1] /\ Power' = [Power EXCEPT ![g] = Granted[g]]
         /\ UNCHANGED <<Phase, Granted, Revoked>> => Grants!Next
  BY DEF Grants!Issue
<1>4. Issued[g] = 1 /\ Power[g] # {} /\ sc \in SUBSET Granted[g]
         /\ Power' = [Power EXCEPT ![g] = sc]
         /\ UNCHANGED <<Phase, Granted, Issued, Revoked>> => Grants!Next
  BY DEF Grants!Reissue
<1>5. Issued[g] = 1 /\ Revoked' = [Revoked EXCEPT ![g] = TRUE]
         /\ UNCHANGED <<Phase, Granted, Issued, Power>> => Grants!Next
  BY DEF Grants!Revoke
<1>6. (\A k \in G : Phase[k] # "none")
         /\ Phase' = [k \in Codes |-> IF k \in G THEN "gone" ELSE Phase[k]]
         /\ Power' = [k \in Codes |-> IF k \in G THEN {} ELSE Power[k]]
         /\ UNCHANGED <<Granted, Issued, Revoked>> => Grants!Next
  BY DEF Grants!Forget
<1> QED BY <1>1, <1>2, <1>3, <1>4, <1>5, <1>6

(* What is seen of the grants depends on the codes' states and scopes and  *)
(* on the rows.                                                            *)
LEMMA CodesKeepView ==
    ASSUME \A k \in Codes : codes'[k].st = codes[k].st /\ codes'[k].scopes = codes[k].scopes
    PROVE  UNCHANGED <<Phase, Granted>>
BY DEF Phase, Granted, PhaseOf

(* So do the rows, by what they grant and whether they are revoked.       *)
LEMMA RowsKeepView ==
    ASSUME \A r \in Rows : /\ rows'[r].code = rows[r].code /\ rows'[r].st = rows[r].st
                           /\ rows'[r].scopes = rows[r].scopes /\ rows'[r].revoked = rows[r].revoked
    PROVE  UNCHANGED <<Issued, Power, Revoked>>
<1>1. \A k \in Codes : /\ RowsIn(rows', k) = RowsIn(rows, k) /\ PowerIn(rows', k) = PowerIn(rows, k)
                       /\ RevokedIn(rows', k) = RevokedIn(rows, k)
  BY SameView
<1> QED BY <1>1 DEF Issued, Power, Revoked

(* One row changes: the grants it is not of look the same. *)
LEMMA OneRowMoves ==
    ASSUME DataInv, DataInv', NEW r \in Rows, NEW k \in Codes, rows'[r].code = k,
           rows[r].st = "free" \/ rows[r].code = k,
           \A w \in Rows : w # r => rows'[w] = rows[w]
    PROVE  \A j \in Codes : j # k =>
              /\ RowsIn(rows', j) = RowsIn(rows, j) /\ PowerIn(rows', j) = PowerIn(rows, j)
              /\ RevokedIn(rows', j) = RevokedIn(rows, j)
<1>1. rows[r].code \notin Codes \ {k}
  BY DEF DataInv, RowOK, FreeRow, Codes, None
<1> SUFFICES ASSUME NEW j \in Codes, j # k
             PROVE  /\ RowsIn(rows', j) = RowsIn(rows, j) /\ PowerIn(rows', j) = PowerIn(rows, j)
                    /\ RevokedIn(rows', j) = RevokedIn(rows, j)
  OBVIOUS
<1>2. ASSUME NEW w \in Rows
      PROVE  /\ rows'[w].code = j <=> rows[w].code = j
             /\ rows'[w].code = j => /\ rows'[w].st = rows[w].st /\ rows'[w].scopes = rows[w].scopes
                                     /\ rows'[w].revoked = rows[w].revoked
  BY <1>1
<1> QED BY <1>2, SameView

(* The row of a grant, before and after a step. *)
LEMMA TheRow ==
    ASSUME NEW r \in Rows
    PROVE  /\ DataInv /\ rows[r].st # "free" /\ rows[r].code \in Codes => RowsIn(rows, rows[r].code) = {r}
           /\ DataInv' /\ rows'[r].st # "free" /\ rows'[r].code \in Codes => RowsIn(rows', rows'[r].code) = {r}
<1>1. ASSUME DataInv, rows[r].st # "free", rows[r].code \in Codes PROVE RowsIn(rows, rows[r].code) = {r}
  <2>1. \A s \in Rows : rows[s].code = rows[r].code => rows[s].st # "free"
    BY <1>1 DEF DataInv, RowOK, FreeRow, Codes, None
  <2> QED BY <1>1, <2>1 DEF RowsIn, DataInv, OneRow
<1>2. ASSUME DataInv', rows'[r].st # "free", rows'[r].code \in Codes PROVE RowsIn(rows', rows'[r].code) = {r}
  <2>1. \A s \in Rows : rows'[s].code = rows'[r].code => rows'[s].st # "free"
    BY <1>2 DEF DataInv, RowOK, FreeRow, Codes, None
  <2> QED BY <1>2, <2>1 DEF RowsIn, DataInv, OneRow
<1> QED BY <1>1, <1>2

(* A code is made: a consent. *)
LEMMA CreateCodeRefines ==
    ASSUME OAuthInv, OAuthInv', NEW q \in Reqs, CreateCode(q)
    PROVE  Grants!Next
<1>0. DataInv /\ DataInv' /\ UNCHANGED rows
  BY DEF OAuthInv, CreateCode
<1>1. PICK k \in Codes : k = ById(FreeCodes) /\ codes[k].st = "free"
  <2>1. FreeCodes \in SUBSET Nat /\ FreeCodes # {}
    BY DEF CreateCode, FreeCodes, Codes
  <2> QED BY <2>1, ByIdMember DEF FreeCodes
<1>2. PICK sc \in Asked : codes' = [codes EXCEPT ![k] = [FreeCode EXCEPT !.st = "open", !.scopes = sc,
                                                           !.client = reqs[q].client]]
  BY <1>1 DEF CreateCode
<1>3. /\ codes'[k].st = "open" /\ codes'[k].scopes = sc
      /\ \A j \in Codes : j # k => codes'[j] = codes[j]
  BY <1>0, <1>2 DEF DataInv, FreeCode
<1>4. UNCHANGED <<Issued, Power, Revoked>>
  BY <1>0, RowsKeepView
<1>5. Phase[k] = "none" /\ Phase' = [Phase EXCEPT ![k] = "open"]
  <2>1. PhaseOf(k) = "none" /\ PhaseOf(k)' = "open"
    BY <1>1, <1>3 DEF PhaseOf
  <2>2. \A j \in Codes : j # k => PhaseOf(j)' = PhaseOf(j)
    BY <1>3 DEF PhaseOf
  <2> QED BY <2>1, <2>2 DEF Phase
<1>6. Granted' = [Granted EXCEPT ![k] = sc] /\ sc \in SUBSET Scopes
  BY <1>3, LegacyAssumption DEF Granted
<1> QED BY <1>4, <1>5, <1>6, GrantMoves

(* A code is claimed: a claim; or found used: nothing. *)
LEMMA ClaimCodeRefines ==
    ASSUME OAuthInv, OAuthInv', NEW q \in Reqs, ClaimCode(q)
    PROVE  Grants!Next \/ UNCHANGED Grants!grantVars
<1>0. DataInv /\ UNCHANGED rows /\ ReqOK(reqs[q]) /\ reqs[q].pc = "claim"
  BY DEF OAuthInv, ReqsInv, ClaimCode
<1>1. UNCHANGED <<Issued, Power, Revoked>>
  BY <1>0, RowsKeepView
<1>2. CASE Claimable(reqs[q].code)
  <2>1. PICK k \in Codes : k = reqs[q].code /\ codes[k].st = "open"
    BY <1>0, <1>2 DEF ReqOK, WithCodePc, Claimable
  <2>2. codes' = [codes EXCEPT ![k].st = "used"] /\ codes[k] \in Code
    BY <1>0, <1>2, <2>1 DEF ClaimCode, DataInv
  <2>3. /\ codes'[k].st = "used" /\ codes'[k].scopes = codes[k].scopes
        /\ \A j \in Codes : j # k => codes'[j] = codes[j]
    BY <1>0, <2>2 DEF DataInv, Code
  <2>4. Phase[k] = "open" /\ Phase' = [Phase EXCEPT ![k] = "claimed"]
    <3>1. PhaseOf(k) = "open" /\ PhaseOf(k)' = "claimed"
      BY <2>1, <2>3 DEF PhaseOf
    <3>2. \A j \in Codes : j # k => PhaseOf(j)' = PhaseOf(j)
      BY <2>3 DEF PhaseOf
    <3> QED BY <3>1, <3>2 DEF Phase
  <2>5. UNCHANGED Granted
    BY <2>3 DEF Granted
  <2> QED BY <1>1, <2>4, <2>5, GrantMoves
<1>3. CASE ~Claimable(reqs[q].code)
  BY <1>1, <1>3, CodesKeepView, GrantSteps DEF ClaimCode
<1> QED BY <1>2, <1>3

(* A row is made: an issue. *)
LEMMA CreateTokenRefines ==
    ASSUME OAuthInv, OAuthInv', NEW q \in Reqs, CreateToken(q)
    PROVE  Grants!Next
<1>0. /\ DataInv /\ DataInv' /\ UNCHANGED codes /\ ReqOK(reqs[q]) /\ reqs[q].pc = "issue"
  BY DEF OAuthInv, ReqsInv, CreateToken
<1>1. PICK r \in Rows : r = ById(FreeRows) /\ rows[r].st = "free"
  <2>1. FreeRows \in SUBSET Nat /\ FreeRows # {}
    BY DEF CreateToken, FreeRows, Rows
  <2> QED BY <2>1, ByIdMember DEF FreeRows
<1>2. PICK k \in Codes : k = reqs[q].code /\ codes[k].st \in {"used", "gone"} /\ RowsIn(rows, k) = {}
                         /\ codes[k].scopes = reqs[q].scopes
  BY <1>0 DEF ReqOK, WithCodePc, RowsOf, RowsIn
<1>3. PICK rt \in BOOLEAN, a \in Nat :
        rows' = [rows EXCEPT ![r] = [FreeRow EXCEPT
                        !.st = "row", !.client = reqs[q].client, !.code = reqs[q].code,
                        !.access = a, !.scopes = reqs[q].scopes, !.refresh = rt, !.fresh = TRUE]]
  <2>1. ById(FreeAccess) \in Nat
    BY <1>0, FreshAccess DEF CreateToken, Accesses
  <2> QED BY <1>1, <2>1 DEF CreateToken
<1>4. /\ rows'[r].st = "row" /\ rows'[r].code = k /\ rows'[r].scopes = codes[k].scopes
      /\ rows'[r].revoked = FALSE
      /\ \A w \in Rows : w # r => rows'[w] = rows[w]
  BY <1>0, <1>2, <1>3 DEF DataInv, FreeRow
<1>5. \A j \in Codes : j # k =>
         /\ RowsIn(rows', j) = RowsIn(rows, j) /\ PowerIn(rows', j) = PowerIn(rows, j)
         /\ RevokedIn(rows', j) = RevokedIn(rows, j)
  BY <1>0, <1>1, <1>4, OneRowMoves
<1>6. RowsIn(rows', k) = {r}
  BY <1>0, <1>4, TheRow
<1>7. /\ Cardinality(RowsIn(rows', k)) = 1 /\ PowerIn(rows', k) = codes[k].scopes
      /\ RevokedIn(rows', k) = FALSE
  <2>1. rows'[r].revoked \in BOOLEAN
    BY <1>4
  <2> QED BY <1>4, <1>6, <2>1, OneRowView
<1>8. /\ Cardinality(RowsIn(rows, k)) = 0 /\ RevokedIn(rows, k) = FALSE
  BY <1>2, NoRowView
<1>9. Issued[k] = 0 /\ Issued' = [Issued EXCEPT ![k] = 1]
  BY <1>5, <1>7, <1>8 DEF Issued
<1>10. Power' = [Power EXCEPT ![k] = Granted[k]]
  BY <1>5, <1>7 DEF Power, Granted
<1>11. UNCHANGED Revoked
  BY <1>5, <1>7, <1>8 DEF Revoked
<1>12. UNCHANGED <<Phase, Granted>>
  BY <1>0, CodesKeepView
<1>13. Phase[k] \in {"claimed", "gone"}
  BY <1>0, <1>2, PhaseCases DEF Phase
<1> QED BY <1>9, <1>10, <1>11, <1>12, <1>13, GrantMoves

(* A refresh writes its row: a reissue; or finds it gone: nothing. *)
LEMMA RenewTokenRefines ==
    ASSUME OAuthInv, OAuthInv', NEW q \in Reqs, RenewToken(q)
    PROVE  Grants!Next \/ UNCHANGED Grants!grantVars
<1>0. /\ DataInv /\ DataInv' /\ UNCHANGED codes /\ ReqOK(reqs[q]) /\ reqs[q].pc = "renew"
  BY DEF OAuthInv, ReqsInv, RenewToken
<1>1. PICK r \in Rows : r = reqs[q].row /\ rows[r].st # "free" /\ RowOK(r)
  BY <1>0 DEF ReqOK, WithRowPc, DataInv
<1>2. PICK k \in Codes : k = rows[r].code /\ rows[r].scopes # {} /\ reqs[q].scopes \subseteq codes[k].scopes
  BY <1>0, <1>1 DEF RowOK, ReqOK
<1>3. UNCHANGED <<Phase, Granted>>
  BY <1>0, CodesKeepView
<1>4. CASE rows[r].st = "row"
  <2>1. rows' = [rows EXCEPT ![r] = Renewed(@, ById(FreeAccess), reqs[q].scopes)] /\ rows[r] \in Row
    BY <1>0, <1>1, <1>4 DEF RenewToken, DataInv
  <2>2. /\ rows'[r].st = "row" /\ rows'[r].code = k /\ rows'[r].scopes = reqs[q].scopes
        /\ rows'[r].revoked = rows[r].revoked /\ rows[r].revoked \in BOOLEAN
        /\ \A w \in Rows : w # r => rows'[w] = rows[w]
    BY <1>0, <1>2, <1>4, <2>1 DEF DataInv, Renewed, Row
  <2>3. \A j \in Codes : j # k =>
           /\ RowsIn(rows', j) = RowsIn(rows, j) /\ PowerIn(rows', j) = PowerIn(rows, j)
           /\ RevokedIn(rows', j) = RevokedIn(rows, j)
    BY <1>0, <1>2, <2>2, OneRowMoves
  <2>4. RowsIn(rows, k) = {r} /\ RowsIn(rows', k) = {r}
    BY <1>0, <1>1, <1>2, <2>2, TheRow
  <2>5. /\ Cardinality(RowsIn(rows, k)) = 1 /\ PowerIn(rows, k) = rows[r].scopes
        /\ RevokedIn(rows, k) = rows[r].revoked
    BY <1>4, <2>2, <2>4, OneRowView
  <2>6. rows'[r].revoked \in BOOLEAN
    BY <2>2
  <2>7. /\ Cardinality(RowsIn(rows', k)) = 1 /\ PowerIn(rows', k) = reqs[q].scopes
        /\ RevokedIn(rows', k) = rows[r].revoked
    BY <2>2, <2>4, <2>6, OneRowView
  <2>8. Issued[k] = 1 /\ UNCHANGED Issued
    BY <2>3, <2>5, <2>7 DEF Issued
  <2>9. /\ Power[k] # {} /\ reqs[q].scopes \in SUBSET Granted[k]
        /\ Power' = [Power EXCEPT ![k] = reqs[q].scopes]
    BY <1>2, <2>3, <2>5, <2>7 DEF Power, Granted
  <2>10. UNCHANGED Revoked
    BY <2>3, <2>5, <2>7 DEF Revoked
  <2> QED BY <1>3, <2>8, <2>9, <2>10, GrantMoves
<1>5. CASE rows[r].st # "row"
  <2>1. UNCHANGED rows
    BY <1>1, <1>5 DEF RenewToken
  <2> QED BY <1>3, <2>1, RowsKeepView, GrantSteps
<1> QED BY <1>4, <1>5

(* A row is revoked: a revocation; or is gone: nothing. *)
LEMMA RevokeTokenRefines ==
    ASSUME OAuthInv, OAuthInv', NEW q \in Reqs, RevokeToken(q)
    PROVE  Grants!Next \/ UNCHANGED Grants!grantVars
<1>0. /\ DataInv /\ DataInv' /\ UNCHANGED codes /\ ReqOK(reqs[q]) /\ reqs[q].pc = "revoke"
  BY DEF OAuthInv, ReqsInv, RevokeToken
<1>1. PICK r \in Rows : r = reqs[q].row /\ rows[r].st # "free" /\ RowOK(r)
  BY <1>0 DEF ReqOK, WithRowPc, DataInv
<1>2. PICK k \in Codes : k = rows[r].code
  BY <1>0, <1>1 DEF RowOK
<1>3. UNCHANGED <<Phase, Granted>>
  BY <1>0, CodesKeepView
<1>4. CASE rows[r].st = "row"
  <2>1. rows' = [rows EXCEPT ![r].revoked = TRUE, ![r].told = TRUE] /\ rows[r] \in Row
    BY <1>0, <1>1, <1>4 DEF RevokeToken, DataInv
  <2>2. /\ rows'[r].st = "row" /\ rows'[r].code = k /\ rows'[r].scopes = rows[r].scopes
        /\ rows'[r].revoked = TRUE /\ rows[r].revoked \in BOOLEAN
        /\ \A w \in Rows : w # r => rows'[w] = rows[w]
    BY <1>0, <1>2, <1>4, <2>1 DEF DataInv, Row
  <2>3. \A j \in Codes : j # k =>
           /\ RowsIn(rows', j) = RowsIn(rows, j) /\ PowerIn(rows', j) = PowerIn(rows, j)
           /\ RevokedIn(rows', j) = RevokedIn(rows, j)
    BY <1>0, <1>2, <2>2, OneRowMoves
  <2>4. RowsIn(rows, k) = {r} /\ RowsIn(rows', k) = {r}
    BY <1>0, <1>1, <1>2, <2>2, TheRow
  <2>5. /\ Cardinality(RowsIn(rows, k)) = 1 /\ PowerIn(rows, k) = rows[r].scopes
    BY <1>4, <2>2, <2>4, OneRowView
  <2>6. /\ Cardinality(RowsIn(rows', k)) = 1 /\ PowerIn(rows', k) = rows[r].scopes
        /\ RevokedIn(rows', k) = TRUE
    BY <2>2, <2>4, OneRowView
  <2>7. Issued[k] = 1 /\ UNCHANGED <<Issued, Power>>
    BY <2>3, <2>5, <2>6 DEF Issued, Power
  <2>8. Revoked' = [Revoked EXCEPT ![k] = TRUE]
    BY <2>3, <2>6 DEF Revoked
  <2> QED BY <1>3, <2>7, <2>8, GrantMoves
<1>5. CASE rows[r].st # "row"
  <2>1. UNCHANGED rows
    BY <1>1, <1>5 DEF RevokeToken
  <2> QED BY <1>3, <2>1, RowsKeepView, GrantSteps
<1> QED BY <1>4, <1>5

(* A client is deleted: its grants are forgotten. *)
LEMMA DeleteClientRefines ==
    ASSUME OAuthInv, OAuthInv', NEW c \in Clients, DeleteClient(c)
    PROVE  Grants!Next
<1>0. DataInv /\ DataInv'
  BY DEF OAuthInv
<1>1. /\ codes' = [k \in Codes |-> IF codes[k].client = c THEN [codes[k] EXCEPT !.st = "gone"] ELSE codes[k]]
      /\ rows' = [r \in Rows |-> IF rows[r].client = c THEN [rows[r] EXCEPT !.st = "gone"] ELSE rows[r]]
  BY DEF DeleteClient
<1>2. PICK G \in SUBSET Codes : G = {k \in Codes : codes[k].client = c}
  OBVIOUS
<1>3. \A k \in Codes : codes'[k].scopes = codes[k].scopes
  BY <1>0, <1>1 DEF DataInv, Code
<1>4. \A r \in Rows : /\ rows'[r].code = rows[r].code /\ rows'[r].scopes = rows[r].scopes
                      /\ rows'[r].revoked = rows[r].revoked
  BY <1>0, <1>1 DEF DataInv, Row
<1>5. ASSUME NEW k \in G PROVE codes[k].st # "free" /\ codes'[k].st = "gone"
  <2>1. codes[k] \in Code /\ codes[k].client = c /\ CodeOK(k) /\ k \in Codes
    BY <1>0, <1>2 DEF DataInv
  <2> QED BY <1>1, <2>1, NoneAssumption DEF CodeOK, FreeCode, Code
<1>6. \A k \in Codes : k \notin G => codes'[k] = codes[k]
  BY <1>1, <1>2
<1>7. \A k \in G : Phase[k] # "none"
  <2> SUFFICES ASSUME NEW k \in G PROVE Phase[k] # "none"
    OBVIOUS
  <2>1. k \in Codes /\ codes[k].st \in {"open", "used", "gone"}
    BY <1>0, <1>5 DEF DataInv, Code
  <2>2. PhaseOf(k) \in {"open", "claimed", "gone"}
    BY <1>0, <2>1, PhaseCases
  <2> QED BY <2>1, <2>2 DEF Phase
<1>8. Phase' = [k \in Codes |-> IF k \in G THEN "gone" ELSE Phase[k]]
  <2>1. \A k \in G : PhaseOf(k)' = "gone"
    BY <1>5 DEF PhaseOf
  <2>2. \A k \in Codes : k \notin G => PhaseOf(k)' = PhaseOf(k)
    BY <1>6 DEF PhaseOf
  <2> QED BY <2>1, <2>2 DEF Phase
<1>9. \A k \in Codes : RowsIn(rows', k) = RowsIn(rows, k) /\ RevokedIn(rows', k) = RevokedIn(rows, k)
  <2>1. \A k \in Codes : RowsIn(rows', k) = RowsIn(rows, k)
    BY <1>4 DEF RowsIn
  <2>2. \A k \in Codes : \A r \in RowsIn(rows, k) : rows'[r].revoked = rows[r].revoked
    BY <1>4 DEF RowsIn
  <2> QED BY <2>1, <2>2 DEF RevokedIn
<1>10. UNCHANGED <<Granted, Issued, Revoked>>
  BY <1>3, <1>9 DEF Granted, Issued, Revoked
<1>11. ASSUME NEW r \in Rows, rows[r].code \in Codes
       PROVE  rows[r].client = codes[rows[r].code].client
  BY <1>0, <1>11 DEF DataInv, RowOK, FreeRow, Codes, None
<1>12. ASSUME NEW k \in G PROVE PowerIn(rows', k) = {}
  <2>1. \A r \in RowsIn(rows', k) : rows'[r].st = "gone"
    <3> SUFFICES ASSUME NEW r \in Rows, rows'[r].code = k PROVE rows'[r].st = "gone"
      BY DEF RowsIn
    <3>1. rows[r].client = c /\ rows[r] \in Row
      BY <1>0, <1>2, <1>4, <1>11 DEF DataInv
    <3> QED BY <1>1, <3>1 DEF Row
  <2> QED BY <2>1 DEF PowerIn
<1>13. ASSUME NEW k \in Codes, k \notin G PROVE PowerIn(rows', k) = PowerIn(rows, k)
  <2>1. \A r \in Rows : rows[r].code = k => rows'[r] = rows[r]
    BY <1>1, <1>2, <1>11, <1>13
  <2> QED BY <1>4, <2>1, SameView
<1>14. Power' = [k \in Codes |-> IF k \in G THEN {} ELSE Power[k]]
  BY <1>12, <1>13 DEF Power
<1> QED
  <2>1. \A g \in Codes : (\A k \in G : Phase[k] # "none")
              /\ Phase' = [k \in Codes |-> IF k \in G THEN "gone" ELSE Phase[k]]
              /\ Power' = [k \in Codes |-> IF k \in G THEN {} ELSE Power[k]]
              /\ UNCHANGED <<Granted, Issued, Revoked>> => Grants!Next
    BY GrantMoves
  <2>2. CASE Codes # {}
    BY <1>7, <1>8, <1>10, <1>14, <2>1, <2>2
  <2>3. CASE Codes = {}
    <3> USE DEF Phase, Granted, Issued, Power, Revoked, RowsIn, PowerIn, RevokedIn, RowsOf
    <3> QED BY <1>7, <1>8, <1>10, <1>14 DEF Grants!Next, Grants!Forget
  <2> QED BY <2>2, <2>3

(* Every step of the server is a step of OAuthGrants, or is not seen. *)
LEMMA StepRefines ==
    ASSUME OAuthInv, OAuthInv', [Next]_vars
    PROVE  Grants!Next \/ UNCHANGED Grants!grantVars
<1>0. DataInv /\ DataInv'
  BY DEF OAuthInv
<1>1. CASE UNCHANGED <<codes, rows>>
  BY <1>1, CodesKeepView, RowsKeepView, GrantSteps
<1>2. ASSUME NEW q \in Reqs, ReqStep(q) PROVE Grants!Next \/ UNCHANGED Grants!grantVars
  <2>1. CASE CreateCode(q) \/ ClaimCode(q) \/ CreateToken(q) \/ RenewToken(q) \/ RevokeToken(q)
    BY <2>1, CreateCodeRefines, ClaimCodeRefines, CreateTokenRefines, RenewTokenRefines, RevokeTokenRefines
  <2>2. CASE ~(CreateCode(q) \/ ClaimCode(q) \/ CreateToken(q) \/ RenewToken(q) \/ RevokeToken(q))
    BY <1>1, <1>2, <2>2 DEF ReqStep, FetchMetadata, FindUrlClient, CreateUrlClient, ValidateDeskUser,
       GetAuthorizationClient, ValidateUser, ErrorRedirect, CompleteFlow, FindCode,
       FindRefresh, FindToken, CheckToken, CheckUser, Refuse
  <2> QED BY <2>1, <2>2
<1>3. ASSUME NEW q \in Reqs, NewReq(q) PROVE UNCHANGED <<codes, rows>>
  BY <1>3 DEF NewReq, DeskCallback, Validate, RegisterUrl, Authorize, Exchange, Introspect,
     Refresh, Revoke, Check
<1>4. ASSUME NEW c \in Clients, RegisterClient(c) \/ UpdateClient(c) PROVE UNCHANGED <<codes, rows>>
  BY <1>4 DEF RegisterClient, UpdateClient
<1>5. ASSUME NEW f \in Flows, ExpireFlow(f) \/ \E c \in Clients : CreateFlow(f, c)
      PROVE  UNCHANGED <<codes, rows>>
  BY <1>5 DEF ExpireFlow, CreateFlow
<1>6. CASE Expire
  <2>1. \A k \in Codes : codes'[k].st = codes[k].st /\ codes'[k].scopes = codes[k].scopes
    BY <1>0, <1>6 DEF Expire, DataInv, Code
  <2>2. \A r \in Rows : /\ rows'[r].code = rows[r].code /\ rows'[r].st = rows[r].st
                        /\ rows'[r].scopes = rows[r].scopes /\ rows'[r].revoked = rows[r].revoked
    BY <1>0, <1>6 DEF Expire, DataInv, Row
  <2> QED BY <2>1, <2>2, CodesKeepView, RowsKeepView, GrantSteps
<1>7. CASE UserChanges \/ UNCHANGED vars
  BY <1>1, <1>7 DEF UserChanges, vars
<1> QED BY <1>1, <1>2, <1>3, <1>4, <1>5, <1>6, <1>7, DeleteClientRefines DEF Next

(* Initially there are no grants. *)
LEMMA InitRefines == Init => Grants!Init
<1> SUFFICES ASSUME Init PROVE Grants!Init
  OBVIOUS
<1>1. \A k \in Codes : codes[k].st = "free" /\ codes[k].scopes = {}
  BY DEF Init, FreeCode
<1>2. \A k \in Codes : RowsIn(rows, k) = {}
  BY DEF Init, FreeRow, RowsIn, Codes, None
<1>3. \A k \in Codes : /\ Cardinality(RowsIn(rows, k)) = 0 /\ PowerIn(rows, k) = {}
                       /\ RevokedIn(rows, k) = FALSE
  BY <1>2, NoRowView
<1>4. Phase = [k \in Codes |-> "none"] /\ Granted = [k \in Codes |-> {}]
  BY <1>1 DEF Phase, Granted, PhaseOf
<1>5. Issued = [k \in Codes |-> 0] /\ Power = [k \in Codes |-> {}] /\ Revoked = [k \in Codes |-> FALSE]
  BY <1>3 DEF Issued, Power, Revoked
<1> QED BY <1>4, <1>5, GrantSteps

(* The authorization server implements OAuthGrants: whatever requests of   *)
(* any number of clients interleave, a code is claimed once, at most one   *)
(* row of tokens comes of it, its scopes stay within the consent, and a    *)
(* revocation or a claim is never undone (handleAuthorizationCodeGrant,    *)
(* handleRefreshTokenGrant, revoke, deleteClient).                         *)
THEOREM ServerImplementsGrants == Spec => GrantsKept
<1>1. OAuthInv /\ OAuthInv' /\ [Next]_vars => [Grants!Next]_(Grants!grantVars)
  BY StepRefines
<1> QED BY <1>1, InitRefines, OAuthInvHolds, PTL DEF Spec, GrantsKept, Grants!Spec
=============================================================================
