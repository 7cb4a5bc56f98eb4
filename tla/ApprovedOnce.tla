---------------------------- MODULE ApprovedOnce ----------------------------
(***************************************************************************)
(* What a person who answers approval cards is promised: a batch of tool   *)
(* calls is decided once, a call that needs approval is invoked only after *)
(* its batch was approved, and no call is invoked a second time, whatever  *)
(* happens to the process that runs it.                                    *)
(*                                                                         *)
(* Not promised: that the record of an approval stays.  Stop, or a sweep   *)
(* that read the card before the click, may write over it, and a call of   *)
(* the batch may be running then, or start later.                          *)
(***************************************************************************)
EXTENDS Naturals

CONSTANTS Batches, Calls, Gated

VARIABLES
  verdict,   \* [Batches -> {"open", "approve", "withdrawn", "refused"}]
  runs       \* [Calls -> Nat], how often the call was invoked

vars == <<verdict, runs>>

Init ==
  /\ verdict = [b \in Batches |-> "open"]
  /\ runs = [c \in Calls |-> 0]

Approve(b) ==
  /\ verdict[b] = "open"
  /\ verdict' = [verdict EXCEPT ![b] = "approve"]
  /\ UNCHANGED runs

\* A denial, a timeout, or a card that is closed unanswered.
Refuse(b) ==
  /\ verdict[b] = "open"
  /\ verdict' = [verdict EXCEPT ![b] = "refused"]
  /\ UNCHANGED runs

\* The approval is written over; what it let through is not called back.
Withdraw(b) ==
  /\ verdict[b] = "approve"
  /\ verdict' = [verdict EXCEPT ![b] = "withdrawn"]
  /\ UNCHANGED runs

Invoke(c) ==
  /\ runs[c] = 0
  /\ c \in Gated => verdict[c[1]] \in {"approve", "withdrawn"}
  /\ runs' = [runs EXCEPT ![c] = 1]
  /\ UNCHANGED verdict

Next ==
  \/ \E b \in Batches : Approve(b) \/ Refuse(b) \/ Withdraw(b)
  \/ \E c \in Calls : Invoke(c)

Spec == Init /\ [][Next]_vars
=============================================================================
