---------------------------- MODULE MCLifecycle ----------------------------
EXTENDS Lifecycle

CONSTANTS m1, m2, g1, g2

Own == [m \in {m1, m2} |-> IF m = m1 THEN g1 ELSE g2]
Shared == [m \in {m1, m2} |-> g1]
=============================================================================
