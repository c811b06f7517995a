---------------------------- MODULE MCAtomicSink -----------------------------
\* AtomicSink for TLC: two processes, one of which calls twice.
EXTENDS AtomicSink

CONSTANTS c1, c2, c3, p1, p2

Caller == [c \in {c1, c2, c3} |-> IF c = c2 THEN p2 ELSE p1]

=============================================================================
