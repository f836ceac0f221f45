---------------------- MODULE MC_ResourceSubscriptions ----------------------
(* Model checking ResourceSubscriptions. *)
EXTENDS ResourceSubscriptions
=============================================================================
