---------------------------- MODULE ApprovalLife ----------------------------
(***************************************************************************)
(* What the approval queue promises of a request for approval, whatever    *)
(* handlers, deciders, sweeper and crashes do in between: identical calls  *)
(* share one open request, a person decides it once or it lapses, a        *)
(* granted one is taken by one handler, which uses it at most once, and it *)
(* counts as executed only when it was used.  A request that was given up  *)
(* may still be used by the slow handler that took it.                     *)
(***************************************************************************)
EXTENDS Integers

CONSTANTS Asks, Hashes, NoHash

VARIABLES
    status,  \* of a request, "FREE" before it is made
    about,   \* the hash of the call it is about
    uses     \* how often its tool was invoked

lifeVars == <<status, about, uses>>

Open == {"PENDING", "APPROVED", "EXECUTING"}

Init ==
    /\ status = [a \in Asks |-> "FREE"]
    /\ about = [a \in Asks |-> NoHash]
    /\ uses = [a \in Asks |-> 0]

(* A request a goes from one status to another. *)
Move(a, from, to) ==
    /\ status[a] = from
    /\ status' = [status EXCEPT ![a] = to]

(* A call is made that no open request is about. *)
Ask(a, h) ==
    /\ \A b \in Asks : status[b] \in Open => about[b] # h
    /\ Move(a, "FREE", "PENDING")
    /\ about' = [about EXCEPT ![a] = h]
    /\ UNCHANGED uses

Decide(a) ==
    /\ Move(a, "PENDING", "APPROVED") \/ Move(a, "PENDING", "REJECTED")
    /\ UNCHANGED <<about, uses>>

Take(a) ==
    /\ Move(a, "APPROVED", "EXECUTING")
    /\ UNCHANGED <<about, uses>>

Use(a) ==
    /\ status[a] \in {"EXECUTING", "FAILED"} /\ uses[a] = 0
    /\ uses' = [uses EXCEPT ![a] = 1]
    /\ UNCHANGED <<status, about>>

Finish(a) ==
    /\ uses[a] = 1
    /\ Move(a, "EXECUTING", "EXECUTED")
    /\ UNCHANGED <<about, uses>>

(* Several requests at once go from the statuses in from to to. *)
MoveAll(A, from, to) ==
    /\ \A a \in A : status[a] \in from
    /\ status' = [a \in Asks |-> IF a \in A THEN to ELSE status[a]]
    /\ UNCHANGED <<about, uses>>

Lapse == \E A \in SUBSET Asks : MoveAll(A, {"PENDING", "APPROVED"}, "EXPIRED")
GiveUp == \E A \in SUBSET Asks : MoveAll(A, {"EXECUTING"}, "FAILED")

Next ==
    \/ \E a \in Asks : Decide(a) \/ Take(a) \/ Use(a) \/ Finish(a) \/ \E h \in Hashes : Ask(a, h)
    \/ Lapse \/ GiveUp

Spec == Init /\ [][Next]_lifeVars
=============================================================================
