---------------------------- MODULE MCExtensions ----------------------------
(* Two extensions; the second version of x provides an alias that y has too. *)
EXTENDS Extensions, TLC

CONSTANTS x, y, a1, a2, nx, ny, clash, before, after

MCProvides == x :> <<{nx}, {nx, clash}>> @@ y :> <<{ny, clash}, {ny, clash}>>
MCPrimary == x :> <<{nx}, {nx}>> @@ y :> <<{ny}, {ny}>>
MCHookEvents == x :> <<{before}, {after}>> @@ y :> <<{after}, {after}>>
=============================================================================
