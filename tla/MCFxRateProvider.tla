-------------------------- MODULE MCFxRateProvider --------------------------
(* The background loop and two requests that refresh on demand. *)
EXTENDS FxRateProvider

CONSTANTS r1, r2
=============================================================================
