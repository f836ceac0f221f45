-------------------------- MODULE MC_ApprovalQueue --------------------------
(* Model checking ApprovalQueue: a session call and a stateless call that   *)
(* share one request hash.                                                  *)
EXTENDS ApprovalQueue, TLC
=============================================================================
