--------------------------- MODULE MCEngineMessages ---------------------------
(* Instances of EngineMessages for TLC: m1 and m2 are own messages, e1 is the *)
(* server's copy of m1 under another id, p1 a message of another participant. *)
EXTENDS EngineMessages, TLC

CONSTANTS m1, m2, e1, p1

MCEchoOf == [e \in Remote |-> IF e = e1 THEN m1 ELSE None]

\* The handlers are interchangeable: they start alike and no action singles one out.
MCSymmetry == Permutations(Handlers)
===============================================================================
