-------------------------- MODULE MCTurnDelivery --------------------------
(* TurnDelivery for TLC. *)
EXTENDS TurnDelivery

\* A browser that remembers a cursor finds a journal; the one that finds none is
\* reached from it, when a restart or a dropped thread empties the journal.
CursorOfAJournal == turn = "idle" /\ faults = MaxFaults /\ journal = <<>> => page.saved = 0

PastTurn == <<"token", "past">>
============================================================================
