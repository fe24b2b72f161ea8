----------------------------- MODULE MCService -----------------------------
(* Instances of Service for TLC. *)
EXTENDS Service, TLC

CONSTANTS p1, p2

AllFunctions == DOMAIN EffectsOf

\* Two effects against two, a stop and start in one, a query, and a reload.
RacingFunctions ==
  {"is_service_active", "enable_and_start_service", "disable_and_stop_service",
   "try_restart_service", "restart_service", "reload_service_conf"}

NoCodeOrOther == {NoCode, 2}

Symmetry == Permutations(Procs)
=============================================================================
