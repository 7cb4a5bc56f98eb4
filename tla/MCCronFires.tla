---------------------------- MODULE MCCronFires ----------------------------
(* Instances of CronFires for TLC. *)
EXTENDS CronFires

\* A retry, a fault and a change by the user: any two of them together.
TwoAtOnce == \A m \in Messages : mail[m].tries > 1 => left["fault"] + left["user"] > 0

MCBudget ==
  [user |-> 1, fault |-> 1]
============================================================================
