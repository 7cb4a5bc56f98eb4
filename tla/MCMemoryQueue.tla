--------------------------- MODULE MCMemoryQueue ---------------------------
(* MemoryQueue for TLC.                                                    *)
EXTENDS MemoryQueue, TLC

CONSTANTS t1, t2, w1, w2

\* t1 is a memory write; t2 is another one, or a maintenance task.
AllMemory == [t \in Tasks |-> "memory"]
TwoLanes == [t \in Tasks |-> IF t = t1 THEN "memory" ELSE "maintenance"]

Sleepy == [crash |-> 1, stop |-> 1, suspend |-> 2, outage |-> 1, retry |-> 1]
NoSleep == [crash |-> 1, stop |-> 0, suspend |-> 0, outage |-> 1, retry |-> 0]

Symmetry == Permutations(Workers)
============================================================================
