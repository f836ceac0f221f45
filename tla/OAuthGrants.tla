---------------------------- MODULE OAuthGrants ----------------------------
(***************************************************************************)
(* What the authorization server promises of a grant (one authorization    *)
(* code and what it was exchanged for), whatever its requests do in        *)
(* between: a code is open at most once, a claim ends it, at most one row  *)
(* of tokens comes of it, the row never carries more scopes than the user  *)
(* consented to, and neither a claim nor a revocation is ever undone.      *)
(***************************************************************************)
EXTENDS Integers, FiniteSets

CONSTANTS Grants, Scopes

VARIABLES
    phase,      \* of the code: "none", "open", "claimed", "gone"
    granted,    \* the scopes of the consent
    issued,     \* rows of tokens that came of it, deleted ones included
    power,      \* the scopes its rows carry
    revoked     \* one of its rows is revoked

grantVars == <<phase, granted, issued, power, revoked>>

Init ==
    /\ phase = [g \in Grants |-> "none"]
    /\ granted = [g \in Grants |-> {}]
    /\ issued = [g \in Grants |-> 0]
    /\ power = [g \in Grants |-> {}]
    /\ revoked = [g \in Grants |-> FALSE]

(* The user consents to some scopes and a code is made. *)
Consent(g) ==
    /\ phase[g] = "none"
    /\ \E sc \in SUBSET Scopes : granted' = [granted EXCEPT ![g] = sc]
    /\ phase' = [phase EXCEPT ![g] = "open"]
    /\ UNCHANGED <<issued, power, revoked>>

Claim(g) ==
    /\ phase[g] = "open"
    /\ phase' = [phase EXCEPT ![g] = "claimed"]
    /\ UNCHANGED <<granted, issued, power, revoked>>

(* The client's deletion may already have removed the code. *)
Issue(g) ==
    /\ phase[g] \in {"claimed", "gone"} /\ issued[g] = 0
    /\ issued' = [issued EXCEPT ![g] = 1]
    /\ power' = [power EXCEPT ![g] = granted[g]]
    /\ UNCHANGED <<phase, granted, revoked>>

Reissue(g) ==
    /\ issued[g] = 1 /\ power[g] # {}
    /\ \E sc \in SUBSET granted[g] : power' = [power EXCEPT ![g] = sc]
    /\ UNCHANGED <<phase, granted, issued, revoked>>

Revoke(g) ==
    /\ issued[g] = 1
    /\ revoked' = [revoked EXCEPT ![g] = TRUE]
    /\ UNCHANGED <<phase, granted, issued, power>>

(* A client goes with all its codes and rows. *)
Forget ==
    \E G \in SUBSET Grants :
       /\ \A g \in G : phase[g] # "none"
       /\ phase' = [g \in Grants |-> IF g \in G THEN "gone" ELSE phase[g]]
       /\ power' = [g \in Grants |-> IF g \in G THEN {} ELSE power[g]]
       /\ UNCHANGED <<granted, issued, revoked>>

Next == Forget \/ \E g \in Grants : Consent(g) \/ Claim(g) \/ Issue(g) \/ Reissue(g) \/ Revoke(g)

Spec == Init /\ [][Next]_grantVars
=============================================================================
