-------------------------- MODULE MCDocumentIntake --------------------------
(* DocumentIntake for TLC: an import process and a server on another host, *)
(* and each of them takes an upload.                                       *)
EXTENDS DocumentIntake

CONSTANTS i1, i2, k1, k2, importer, server, doc

OwnKeys == [i \in Intakes |-> IF i = i1 THEN k1 ELSE k2]
NewDocuments == [i \in Intakes |-> None]
OneDocument == [i \in Intakes |-> doc]
TwoHosts == [p \in Processes |-> IF p = importer THEN 1 ELSE 2]

InOrder == call[i2] = NoCall \/ call[i1] # NoCall
EachItsOwn == call[i1].proc # server /\ call[i2].proc # importer

\* A crash, an error and a lapse: any two of them together.
TwoAtOnce == budget["crash"] + budget["error"] + budget["lapse"] > 0

OneOfEach == [crash |-> 1, error |-> 1, lapse |-> 1]
OneError == [crash |-> 0, error |-> 1, lapse |-> 0]
=============================================================================
