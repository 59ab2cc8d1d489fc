------------------------------ MODULE MCDemoFeed ------------------------------
(* DemoFeed for TLC: a session with two conversations. *)
EXTENDS DemoFeed

CONSTANTS c1, c2

MCSeedOrder == <<c1, c2>>
===============================================================================
