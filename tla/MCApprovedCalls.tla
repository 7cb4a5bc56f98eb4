-------------------------- MODULE MCApprovedCalls ---------------------------
EXTENDS ApprovedCalls, FiniteSets, TLC

\* The first batch asks for all its calls but one, the second for none.
MixedThenFree == {<<1, s>> : s \in 1 .. K} \ {<<1, s>> : s \in 1 .. K - 1}
\* Every batch asks for every call.
AllAsk == Calls

\* The user sends nothing more once the last batch is out, and a message that was
\* being handled then meets no click, watchdog or restart: two bounds on the state
\* space.  A task that message left running may still have emitted that batch.
NoMessageAfterLast == top = N /\ user = NoUser => user' = NoUser
LastMessageAlone ==
  top = N /\ user # NoUser => desk = Free /\ dog = Free /\ reads = {} /\ crashes = 0

\* At most two handlers (clicks, watchdog, message, Stop) are at work at a time, and
\* no Stop is at work after the crash: two more bounds on the state space.
AtWork ==
  {h \in {"clicks", "watchdog", "message", "stop"} :
     \/ h = "clicks" /\ (desk # Free \/ reads # {})
     \/ h = "watchdog" /\ (dog # Free \/ listed["dog"] # {})
     \/ h = "message" /\ user # NoUser
     \/ h = "stop" /\ (stop # "free" \/ listed["stop"] # {})}
TwoHandlers == Cardinality(AtWork) <= 2
StopBeforeCrash == "stop" \in AtWork => crashes = 0

TaskSymmetry == Permutations(Drives)
=============================================================================
