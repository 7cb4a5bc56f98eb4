--------------------------- MODULE MCDocumentJobs ---------------------------
(* Instances of DocumentJobs for TLC. *)
EXTENDS DocumentJobs

OneCancelTwoFaults == [cancel |-> 1, fault |-> 2]
OneCancel == [cancel |-> 1, fault |-> 0]
=============================================================================
