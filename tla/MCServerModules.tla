-------------------------- MODULE MCServerModules --------------------------
(* ServerModules for TLC: two modules and one emitter.                     *)
EXTENDS ServerModules

CONSTANTS a, b, e1

TwoModules == {a, b}
Order == <<a, b>>
OneEmitter == {e1}
=============================================================================
