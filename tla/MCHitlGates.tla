---------------------------- MODULE MCHitlGates ----------------------------
(* HitlGates for TLC: one question, asked by native pauses, under its hash  *)
(* and by a swarm-bus request, with two concurrent callers.                 *)
EXTENDS HitlGates, TLC

CONSTANTS h1, n1, n2, b1, r1, p1, p2

MCHashOf == [i \in Natives \cup BusIds \cup Retries |-> h1]
\* Ending a gate is a compare-and-set after a read: one such call at a time beside the
\* others, and none beside another caller while a bus request's row is in the table.
FewEnders ==
  LET enders == {p \in Procs : proc[p].pc \in {"settle", "sweep"}}
  IN /\ Cardinality(enders) <= 1
     /\ gates[b1].state # "absent" /\ enders # {} => \E p \in Procs : proc[p] = Idle

Symmetry == Permutations(Procs) \cup Permutations(Natives)
============================================================================
