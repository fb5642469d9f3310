-------------------------- MODULE MCRouterLifecycle --------------------------
(* Instances of RouterLifecycle for TLC.                                     *)
EXTENDS RouterLifecycle

CONSTANTS a1, a2, k1, k2

=============================================================================
