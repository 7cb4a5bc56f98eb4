--------------------------- MODULE HonestDelivery ---------------------------
(***************************************************************************)
(* What an outbox promises of each message it is handed: it arrives once   *)
(* at most; "delivered" is said only of one that arrived, "undeliverable"  *)
(* and "cancelled" only of one that did not; "unknown" commits to nothing; *)
(* and once something has been said of a message, it neither arrives nor   *)
(* changes any more.  Any number of messages may step at once.             *)
(***************************************************************************)
EXTENDS Naturals

CONSTANTS Messages

VARIABLES
  fate,     \* what the outbox says of a message
  arrived   \* copies of a message the platform took

honest == <<fate, arrived>>

NotArrived == {"undeliverable", "cancelled"}
Fates == {"none", "open", "delivered", "unknown"} \cup NotArrived

Init ==
  /\ fate = [m \in Messages |-> "none"]
  /\ arrived = [m \in Messages |-> 0]

Same(m) == fate'[m] = fate[m] /\ arrived'[m] = arrived[m]

Hand(m) == fate[m] = "none" /\ fate'[m] = "open" /\ arrived'[m] = arrived[m]

Arrive(m) == fate[m] = "open" /\ arrived[m] = 0 /\ arrived'[m] = 1 /\ fate'[m] = fate[m]

Settle(m) ==
  /\ fate[m] = "open" /\ arrived'[m] = arrived[m]
  /\ \/ fate'[m] = "delivered" /\ arrived[m] = 1
     \/ fate'[m] \in NotArrived /\ arrived[m] = 0
     \/ fate'[m] = "unknown"

Next == \A m \in Messages : Same(m) \/ Hand(m) \/ Arrive(m) \/ Settle(m)

Spec == Init /\ [][Next]_honest
=============================================================================
