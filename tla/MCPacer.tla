------------------------------- MODULE MCPacer -------------------------------
\* Small instances of Pacer for TLC.
EXTENDS Pacer

CONSTANTS c1, c2, c3, a, b

\* Two replicas, two calls on one of them; the other has a shorter cooldown.
MCHome == [c \in Callers |-> IF c = c3 THEN b ELSE a]
MCCooldownLen == [h \in Replicas |-> IF h = a THEN 2 ELSE 1]
=============================================================================
