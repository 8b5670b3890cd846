------------------------------ MODULE MCOutbox ------------------------------
(* Two changes of one key, on a replica each.                              *)
EXTENDS Outbox

CONSTANTS c1, c2, k1, r1, r2

MCChanges == {c1, c2}
MCKeys == {k1}
MCRelays == {r1, r2}
MCKeyOf == [c \in Changes |-> k1]
MCHostOf == [c \in Changes |-> IF c = c2 THEN r2 ELSE r1]
=============================================================================
