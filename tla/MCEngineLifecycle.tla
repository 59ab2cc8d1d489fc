--------------------------- MODULE MCEngineLifecycle ---------------------------
(* EngineLifecycle for TLC: the plugins given to the constructor. *)
EXTENDS EngineLifecycle

CONSTANTS p1, p2

MCConfigured == <<p1, p2>>
===============================================================================
