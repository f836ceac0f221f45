------------------------- MODULE MC_SessionServices -------------------------
(* What serves a session: the guards its requests pass, the sockets of its   *)
(* user, its event stream and the routing of its requests. They share no     *)
(* state in the model, so a behaviour is about one of them.                  *)
EXTENDS Sockets, EventStore, RequestRouting, AccessGuards, TLC

VARIABLE part
serviceVars == <<sockVars, evVars, rtVars, guardVars, part>>

OwnerOfFirst == [a \in Approvals |-> CHOOSE u \in SUsers : TRUE]
OneStream == {CHOOSE m \in Streams : TRUE}
OneReader == {CHOOSE s \in ESessions : TRUE}
OneSession == {CHOOSE s \in RSess : TRUE}
FirstId == {CHOOSE i \in Rids : \A j \in Rids : i <= j}


\* The list "0.0.0.0/0", a block of each kind and a single address.
ListEntries == {AllowAll, [net |-> 2, bits |-> 2, cidr |-> FALSE]}
                 \cup {[net |-> 1, bits |-> b, cidr |-> TRUE] : b \in 0 .. 1}
SwitchEntries == {AllowAll, [net |-> 2, bits |-> 2, cidr |-> FALSE]}
OneGuard == {CHOOSE c \in Guards : TRUE}

Parts == {"asks", "lists", "decisions", "shared stream", "two streams", "two clients", "one client",
          "one request", "rate", "edits", "blocks"}

Init ==
    /\ SockInit /\ EvInit /\ RtInit /\ GuardInit
    /\ \A c \in OneGuard : ipCalls[c].kind = "init"
    /\ part \in Parts
    /\ \/ part = "edits" /\ IpsOf(ipRows) \subseteq {AllowAll}
       \/ part # "edits" /\ ipRows = {}

SocketsNext ==
    /\ \/ ServerStep
       \/ part = "asks" /\ AskStep
       \/ part = "lists" /\ ListStep
       \/ part = "decisions" /\ JobStep
    /\ part \in {"asks", "lists", "decisions"}

Next ==
    /\ \/ SocketsNext /\ UNCHANGED <<evVars, rtVars, guardVars>>
       \/ /\ \/ part = "shared stream" /\ EvNextOn(ESessions, OneStream, OneReader)
             \/ part = "two streams" /\ EvNextOn(OneReader, Streams, OneReader)
          /\ UNCHANGED <<sockVars, rtVars, guardVars>>
       \/ /\ \/ part = "two clients" /\ RtNextOn(RSess \X FirstId, {"tool"})
             \/ part = "one client" /\ RtNextOn(OneSession \X Rids, {"resource"})
             \/ part = "one request" /\ RtNextOn(OneSession \X FirstId, {"prompt", "completion"})
          /\ UNCHANGED <<sockVars, evVars, guardVars>>
       \/ /\ \/ part = "rate" /\ RateNext /\ UNCHANGED ipVars
             \/ part = "edits" /\ IpNextOn(Guards, SwitchEntries, {1}) /\ UNCHANGED rateVars
             \/ /\ part = "blocks"
                /\ IpNextOn(OneGuard, ListEntries \ {AllowAll}, Addrs)
                /\ UNCHANGED rateVars
          /\ UNCHANGED <<sockVars, evVars, rtVars>>
    /\ part' = part

Spec == Init /\ [][Next]_serviceVars
=============================================================================
