------------------------------ MODULE MC_OAuth ------------------------------
(* Model checking OAuth.                                                    *)
EXTENDS OAuth, TLC

ReqSymmetry == Permutations(Reqs)
=============================================================================
