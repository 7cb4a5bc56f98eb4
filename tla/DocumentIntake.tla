--------------------------- MODULE DocumentIntake ---------------------------
(***************************************************************************)
(* How an upload becomes a document job: the intake reservations           *)
(* (admission.py), the upload that writes a document and a version and     *)
(* then publishes the job (ingestion.py), and the recovery of what a dead  *)
(* or silent owner left.                                                   *)
(*                                                                         *)
(* A reservation is held by a process and renewed while its upload runs.   *)
(* Whoever cannot tell that a process is dead (it is on another host)      *)
(* waits until the lease has lapsed and takes the reservation over. The    *)
(* old owner may be only slow: it is fenced, that is, the transaction that *)
(* creates the job looks whether the reservation is still its own.         *)
(*                                                                         *)
(* Every upload has the same content. DocumentJobs takes a job from its    *)
(* publication on.                                                         *)
(***************************************************************************)
EXTENDS Naturals, FiniteSets

CONSTANTS
  Intakes,    \* uploads; each has a reservation token of its own
  Keys,       \* request keys; each fixes the ids of a job, a document, a version
  KeyOf,      \* the key of an upload
  Target,     \* the existing document an upload adds a version to, or None
  Processes,
  Uploaders,  \* those that take uploads
  Servers,    \* those that run the sweep each minute
  Host,       \* [Processes -> host]
  ForeignKey, \* the job table refers to versions and documents (SQLite)
  Capacity,   \* capacity_max_queued_jobs
  Budget,     \* crashes, errors, lapses of a lease that is renewed (bound)
  None

ASSUME IntakeAssumption ==
  /\ KeyOf \in [Intakes -> Keys]
  /\ Uploaders \subseteq Processes /\ Servers \subseteq Processes /\ ForeignKey \in BOOLEAN
  /\ Capacity \in Nat /\ Budget \in [{"crash", "error", "lapse"} -> Nat]
  /\ None \notin Intakes \cup Keys /\ IsFiniteSet(Intakes) /\ IsFiniteSet(Keys)
  /\ \A i \in Intakes : Target[i] \notin Keys

VARIABLES
  mode,    \* [Processes -> "down", "starting" or "up"]
  life,    \* [Processes -> starts so far]: pid and start time of a process
  res,     \* [Intakes -> row of document_intake_reservations]
  docs,    \* [Keys -> token on the document of that id, or None]
  vers,    \* [Keys -> the version of that id]
  jobs,    \* [Keys -> the job of that id]
  call,    \* [Intakes -> where the upload is]
  sweep,   \* [Processes -> where the recovery is]
  budget,  \* crashes, errors and lapses left
  taken    \* history: [Intakes -> marks: "taken" over, "kept" as the rollback of the
           \* taker failed, "lost" as a claim cleared fenced_epoch, "back" as the
           \* process of the upload took it back while the upload ran]

vars == <<mode, life, res, docs, vers, jobs, call, sweep, budget, taken>>

Owners == Processes \X Nat
NoRow == [active |-> FALSE, publishing |-> FALSE, owner |-> None, beat |-> 0, lapsed |-> FALSE,
          fenced |-> FALSE]
NoVersion == [tag |-> None, doc |-> None]
NoJob == [state |-> "none", by |-> None, doc |-> None, ver |-> None]
NoCall == [at |-> "new", proc |-> None, fenced |-> FALSE, ver |-> None, mine |-> FALSE]
Ended == [NoCall EXCEPT !.at = "over"]
Idle == [at |-> "idle", todo |-> {}, cur |-> None]

DocIds == Keys \cup {Target[i] : i \in Intakes}
RowType == [active : BOOLEAN, publishing : BOOLEAN, owner : Owners \cup {None}, beat : Nat,
            lapsed : BOOLEAN, fenced : BOOLEAN]
CallType == [at : {"new", "reserved", "document", "version", "publish", "abandon", "check",
                   "discard", "release", "finish", "over"},
             proc : Processes \cup {None}, fenced : BOOLEAN, ver : Keys \cup {None}, mine : BOOLEAN]
Scanned == [of : Intakes, row : RowType]
SweepType == [at : {"idle", "take", "check", "discard", "release", "fenced", "undo"},
              todo : SUBSET Scanned, cur : Scanned \cup {None}]

Init ==
  /\ mode = [p \in Processes |-> "up"]
  /\ life = [p \in Processes |-> 0]
  /\ res = [i \in Intakes |-> NoRow]
  /\ docs = [k \in Keys |-> None]
  /\ vers = [k \in Keys |-> NoVersion]
  /\ jobs = [k \in Keys |-> NoJob]
  /\ call = [i \in Intakes |-> NoCall]
  /\ sweep = [p \in Processes |-> Idle]
  /\ budget = Budget
  /\ taken = [i \in Intakes |-> {}]

Spend(kind) ==
  /\ budget[kind] > 0
  /\ budget' = [budget EXCEPT ![kind] = @ - 1]

\* current_owner, and the owner a running upload wrote.
Me(p) == <<p, life[p]>>
Mine(i) == res[i].owner = Me(call[i].proc)

Doc(i) == IF Target[i] = None THEN KeyOf[i] ELSE Target[i]
Published(i) == jobs[KeyOf[i]] # NoJob
DocExists(d) == d \in Keys => docs[d] # None

\* Reservations that count beside the jobs.
Pending == {i \in Intakes : res[i].active /\ ~Published(i)}
InFlight == Cardinality(Pending) + Cardinality({k \in Keys : jobs[k].state = "live"})

-----------------------------------------------------------------------------
(***************************************************************************)
(* What uploads and recoveries both do to the store.                       *)
(***************************************************************************)

\* Which rows carry the token, and may go.
OwnVersion(i) == vers[KeyOf[i]].tag = i
OwnDocument(i) ==
  /\ Target[i] = None /\ docs[KeyOf[i]] = i
  /\ \A k \in Keys : vers[k].tag # None /\ vers[k].doc = KeyOf[i] => k = KeyOf[i] /\ OwnVersion(i)

\* A foreign key of the job table stops the transaction.
Refused(i) ==
  /\ ForeignKey
  /\ \E k \in Keys : \/ OwnVersion(i) /\ jobs[k].ver = KeyOf[i]
                     \/ OwnDocument(i) /\ jobs[k].doc = KeyOf[i]

\* discard_unpublished_intake
Discard(i) ==
  IF Refused(i) THEN UNCHANGED <<docs, vers>>
  ELSE /\ vers' = IF OwnVersion(i) THEN [vers EXCEPT ![KeyOf[i]] = NoVersion] ELSE vers
       /\ docs' = IF OwnDocument(i) THEN [docs EXCEPT ![KeyOf[i]] = None] ELSE docs

\* The lease of a closed reservation is of no account here.
Closed(r) == [r EXCEPT !.active = FALSE, !.lapsed = FALSE, !.beat = 0]

\* release_owned
Released(i, owner) ==
  IF res[i].active /\ res[i].owner = owner THEN [res EXCEPT ![i] = Closed(@)] ELSE res

\* finish: before anything was written, or when the job exists.
Finished(i, owner) ==
  IF res[i].owner = owner /\ (~res[i].publishing \/ Published(i))
  THEN [res EXCEPT ![i] = Closed(@)] ELSE res

-----------------------------------------------------------------------------
(***************************************************************************)
(* The upload (ingest_stream).                                             *)
(***************************************************************************)

Goes(i, at) == call' = [call EXCEPT ![i].at = at]

\* Mutant: uploads that are under way do not count.
RoomBesideJobs == Cardinality({k \in Keys : jobs[k].state = "live"}) < Capacity

Room == InFlight < Capacity

Reserve(p, i) ==
  /\ p \in Uploaders /\ mode[p] = "up" /\ call[i] = NoCall
  /\ ~Published(i) /\ \A j \in Pending : KeyOf[j] # KeyOf[i]
  /\ Room
  /\ res' = [res EXCEPT ![i] = [NoRow EXCEPT !.active = TRUE, !.owner = Me(p)]]
  /\ call' = [call EXCEPT ![i] = [NoCall EXCEPT !.at = "reserved", !.proc = p]]
  /\ UNCHANGED <<mode, life, docs, vers, jobs, sweep, budget, taken>>

\* The bytes are stored; the ids to be written go on the reservation first.
MarkPublishing(i) ==
  /\ call[i].at = "reserved"
  /\ IF ~call[i].fenced /\ res[i].active /\ Mine(i)
     THEN /\ res' = [res EXCEPT ![i].publishing = TRUE]
          /\ Goes(i, "document")
     ELSE Goes(i, "abandon") /\ UNCHANGED res
  /\ UNCHANGED <<mode, life, docs, vers, jobs, sweep, budget, taken>>

CreateDocument(i) ==
  /\ call[i].at = "document"
  /\ IF Target[i] # None THEN Goes(i, "version") /\ UNCHANGED docs
     ELSE IF docs[KeyOf[i]] = None
     THEN Goes(i, "version") /\ docs' = [docs EXCEPT ![KeyOf[i]] = i]
     ELSE Goes(i, "abandon") /\ UNCHANGED docs
  /\ UNCHANGED <<mode, life, res, vers, jobs, sweep, budget, taken>>

\* The version of this content, if the document has it already.
Known(d) == {k \in Keys : vers[k].tag # None /\ vers[k].doc = d}

\* Mutant: the row carries the request key, not the token.
NewVersionByKey(i) == [tag |-> KeyOf[i], doc |-> Doc(i)]

NewVersion(i) == [tag |-> i, doc |-> Doc(i)]

CreateVersion(i) ==
  /\ call[i].at = "version"
  /\ IF ~DocExists(Doc(i)) THEN Goes(i, "abandon") /\ UNCHANGED vers
     ELSE IF Known(Doc(i)) # {}
     THEN /\ \E k \in Known(Doc(i)) : call' = [call EXCEPT ![i].at = "publish", ![i].ver = k]
          /\ UNCHANGED vers
     ELSE /\ vers' = [vers EXCEPT ![KeyOf[i]] = NewVersion(i)]
          /\ call' = [call EXCEPT ![i].at = "publish", ![i].ver = KeyOf[i]]
  /\ UNCHANGED <<mode, life, res, docs, jobs, sweep, budget, taken>>

\* Mutant: whose the reservation is does not matter.
FenceActive(i) == res[i].active

\* The fence of enqueue.
Fence(i) == res[i].active /\ Mine(i)

Enqueue(i) ==
  LET k == KeyOf[i]
      new == [state |-> "live", by |-> i, doc |-> Doc(i), ver |-> call[i].ver]
      whole == DocExists(Doc(i)) /\ vers[call[i].ver] # NoVersion IN
  /\ call[i].at = "publish"
  /\ IF call[i].fenced THEN Goes(i, "abandon") /\ UNCHANGED jobs
     ELSE IF Published(i)
     THEN /\ Goes(i, IF jobs[k].doc = new.doc /\ jobs[k].ver = new.ver THEN "finish" ELSE "abandon")
          /\ UNCHANGED jobs
     ELSE IF Fence(i) /\ (ForeignKey => whole)
     THEN Goes(i, "finish") /\ jobs' = [jobs EXCEPT ![k] = new]
     ELSE Goes(i, "abandon") /\ UNCHANGED jobs
  /\ UNCHANGED <<mode, life, res, docs, vers, sweep, budget, taken>>

Working(i) == call[i].at \in {"reserved", "document", "version", "publish"}

\* Too large, unsafe, a store error: anything the upload raises.
UploadFails(i) ==
  /\ Working(i) /\ Spend("error")
  /\ Goes(i, "abandon")
  /\ UNCHANGED <<mode, life, res, docs, vers, jobs, sweep, taken>>

\* _abandon_own_intake: only what is still its own is released afterwards.
Abandon(i) ==
  /\ call[i].at = "abandon"
  /\ call' = [call EXCEPT
       ![i].at = IF res[i].publishing /\ (res[i].active \/ ~Mine(i)) THEN "check" ELSE "finish",
       ![i].mine = Mine(i)]
  /\ UNCHANGED <<mode, life, res, docs, vers, jobs, sweep, budget, taken>>

AbandonChecks(i) ==
  /\ call[i].at = "check"
  /\ Goes(i, IF Published(i) THEN "finish" ELSE "discard")
  /\ UNCHANGED <<mode, life, res, docs, vers, jobs, sweep, budget, taken>>

AbandonDiscards(i) ==
  /\ call[i].at = "discard"
  /\ Discard(i)
  /\ Goes(i, IF call[i].mine /\ ~Refused(i) THEN "release" ELSE "finish")
  /\ UNCHANGED <<mode, life, res, jobs, sweep, budget, taken>>

AbandonReleases(i) ==
  /\ call[i].at = "release"
  /\ res' = Released(i, Me(call[i].proc))
  /\ Goes(i, "finish")
  /\ UNCHANGED <<mode, life, docs, vers, jobs, sweep, budget, taken>>

Finish(i) ==
  /\ call[i].at = "finish"
  /\ res' = Finished(i, Me(call[i].proc))
  /\ call' = [call EXCEPT ![i] = Ended]
  /\ UNCHANGED <<mode, life, docs, vers, jobs, sweep, budget, taken>>

AbandonFails(i) ==
  /\ call[i].at \in {"abandon", "check", "discard", "release"} /\ Spend("error")
  /\ Goes(i, "finish")
  /\ UNCHANGED <<mode, life, res, docs, vers, jobs, sweep, taken>>

\* The reservation stays as it is.
FinishFails(i) ==
  /\ call[i].at = "finish" /\ Spend("error")
  /\ call' = [call EXCEPT ![i] = Ended]
  /\ UNCHANGED <<mode, life, res, docs, vers, jobs, sweep, taken>>

-----------------------------------------------------------------------------
(***************************************************************************)
(* Leases.                                                                 *)
(***************************************************************************)

Renewing(i) == Working(i) /\ Mine(i)

\* A lease that is renewed lapses only when the beats fail, or the host sleeps.
Lapse(i) ==
  /\ i \in Pending /\ ~res[i].lapsed
  /\ IF Renewing(i) THEN Spend("lapse") ELSE UNCHANGED budget
  /\ res' = [res EXCEPT ![i].lapsed = TRUE]
  /\ UNCHANGED <<mode, life, docs, vers, jobs, call, sweep, taken>>

\* A beat that comes late: the lease is renewed, or the upload learns of the fence.
Heartbeat(i) ==
  /\ Working(i) /\ ~call[i].fenced
  /\ IF res[i].active /\ Mine(i)
     THEN /\ res[i].lapsed
          /\ res' = [res EXCEPT ![i].lapsed = FALSE, ![i].beat = @ + 1]
          /\ UNCHANGED call
     ELSE call' = [call EXCEPT ![i].fenced = TRUE] /\ UNCHANGED res
  /\ UNCHANGED <<mode, life, docs, vers, jobs, sweep, budget, taken>>

-----------------------------------------------------------------------------
(***************************************************************************)
(* Recovery (_recover_stranded_intakes): at a start, and each minute.      *)
(***************************************************************************)

Sweeps(p, at) ==
  sweep' = [sweep EXCEPT ![p].at = at, ![p].cur = IF at = "take" THEN None ELSE @]

\* Mutant: only reservations that are still held.
FencedHeld == {i \in Intakes : res[i].fenced /\ res[i].publishing /\ res[i].active}

\* fenced_recent; the rows a sweep would look at.
Fenced == {i \in Intakes : res[i].fenced /\ res[i].publishing}

Scan(p) ==
  /\ sweep[p].at = "idle"
  /\ mode[p] = "starting" \/ (mode[p] = "up" /\ p \in Servers /\ Pending \cup Fenced # {})
  /\ sweep' = [sweep EXCEPT ![p] = [at |-> "take", cur |-> None,
                                    todo |-> {[of |-> i, row |-> res[i]] : i \in Pending}]]
  /\ UNCHANGED <<mode, life, res, docs, vers, jobs, call, budget, taken>>

\* owner_state: only a process of the same host is known to be dead.
Dead(owner, p) == Host[owner[1]] = Host[p] /\ owner # Me(owner[1])

\* Mutant: whether the upload has published is not asked.
ClaimedBlindly(s, p) ==
  LET now == res[s.of] IN
  /\ Dead(s.row.owner, p) \/ (s.row.owner # Me(p) /\ s.row.lapsed /\ now.beat = s.row.beat)
  /\ now.active /\ now.owner = s.row.owner

\* Mutant: only of an owner that is known to be dead.
ClaimedDead(s, p) ==
  /\ Dead(s.row.owner, p)
  /\ res[s.of].active /\ res[s.of].owner = s.row.owner /\ ~Published(s.of)

\* claim, with the heartbeat that was read unless the owner is dead.
Claimed(s, p) ==
  LET now == res[s.of] IN
  /\ \/ Dead(s.row.owner, p)
     \/ s.row.owner # Me(p) /\ s.row.lapsed /\ now.beat = s.row.beat
  /\ now.active /\ now.owner = s.row.owner /\ ~Published(s.of)

Take(p, s) ==
  /\ sweep[p].at = "take" /\ s \in sweep[p].todo
  /\ IF Claimed(s, p)
     THEN /\ res' = [res EXCEPT ![s.of].owner = Me(p), ![s.of].fenced = ~Dead(s.row.owner, p)]
          /\ taken' = [taken EXCEPT ![s.of] = (@ \ {"kept"}) \cup {"taken"}
                        \cup {m \in {"lost"} : res[s.of].fenced /\ Dead(s.row.owner, p)}
                        \cup {m \in {"back"} : Working(s.of) /\ call[s.of].proc = p}]
          /\ sweep' = [sweep EXCEPT ![p] = [at |-> "check", todo |-> @.todo \ {s}, cur |-> s]]
     ELSE /\ sweep' = [sweep EXCEPT ![p].todo = @ \ {s}]
          /\ UNCHANGED <<res, taken>>
  /\ UNCHANGED <<mode, life, docs, vers, jobs, call, budget>>

\* _rollback_intake goes by the row the scan read.
SweepChecks(p) ==
  LET s == sweep[p].cur IN
  /\ sweep[p].at = "check"
  /\ IF Published(s.of)
     THEN res' = Finished(s.of, Me(p)) /\ Sweeps(p, "take")
     ELSE Sweeps(p, IF s.row.publishing THEN "discard" ELSE "release") /\ UNCHANGED res
  /\ UNCHANGED <<mode, life, docs, vers, jobs, call, budget, taken>>

SweepDiscards(p) ==
  LET i == sweep[p].cur.of IN
  /\ sweep[p].at = "discard"
  /\ Discard(i)
  /\ Sweeps(p, IF Refused(i) THEN "take" ELSE "release")
  /\ UNCHANGED <<mode, life, res, jobs, call, budget, taken>>

SweepReleases(p) ==
  /\ sweep[p].at = "release"
  /\ res' = Released(sweep[p].cur.of, Me(p))
  /\ Sweeps(p, "take")
  /\ UNCHANGED <<mode, life, docs, vers, jobs, call, budget, taken>>

\* What a fenced owner may have written after its reservation was taken over.
FencedScan(p) ==
  /\ sweep[p].at = "take" /\ sweep[p].todo = {}
  /\ sweep' = [sweep EXCEPT ![p] =
       [at |-> "fenced", cur |-> None,
        todo |-> {[of |-> i, row |-> NoRow] : i \in Fenced}]]
  /\ UNCHANGED <<mode, life, res, docs, vers, jobs, call, budget, taken>>

FencedChecks(p, s) ==
  /\ sweep[p].at = "fenced" /\ s \in sweep[p].todo
  /\ sweep' = [sweep EXCEPT ![p] = [at |-> IF Published(s.of) THEN "fenced" ELSE "undo",
                                    todo |-> @.todo \ {s},
                                    cur |-> IF Published(s.of) THEN None ELSE s]]
  /\ UNCHANGED <<mode, life, res, docs, vers, jobs, call, budget, taken>>

FencedDiscards(p) ==
  LET i == sweep[p].cur.of IN
  /\ sweep[p].at = "undo"
  /\ Discard(i)
  /\ sweep' = [sweep EXCEPT ![p].at = "fenced", ![p].cur = None,
                               ![p].todo = IF Refused(i) THEN {} ELSE @]
  /\ UNCHANGED <<mode, life, res, jobs, call, budget, taken>>

SweepEnds(p) ==
  /\ sweep[p].at = "fenced" /\ sweep[p].todo = {}
  /\ sweep' = [sweep EXCEPT ![p] = Idle]
  /\ mode' = [mode EXCEPT ![p] = "up"]
  /\ UNCHANGED <<life, res, docs, vers, jobs, call, budget, taken>>

\* A store error: the intake stays this process's; the fenced sweep ends.
SweepFails(p) ==
  /\ sweep[p].at \in {"check", "discard", "release", "undo"} /\ Spend("error")
  /\ IF sweep[p].at = "undo"
     THEN /\ sweep' = [sweep EXCEPT ![p] = [at |-> "fenced", todo |-> {}, cur |-> None]]
          /\ UNCHANGED taken
     ELSE Sweeps(p, "take") /\ taken' = [taken EXCEPT ![sweep[p].cur.of] = @ \cup {"kept"}]
  /\ UNCHANGED <<mode, life, res, docs, vers, jobs, call>>

-----------------------------------------------------------------------------
Crash(p) ==
  /\ mode[p] # "down" /\ Spend("crash")
  /\ mode' = [mode EXCEPT ![p] = "down"]
  /\ life' = [life EXCEPT ![p] = @ + 1]
  /\ sweep' = [sweep EXCEPT ![p] = Idle]
  /\ call' = [i \in Intakes |-> IF call[i].proc = p THEN Ended ELSE call[i]]
  /\ UNCHANGED <<res, docs, vers, jobs, taken>>

\* reconcile_published, then the first recovery.
Start(p) ==
  /\ mode[p] = "down"
  /\ mode' = [mode EXCEPT ![p] = "starting"]
  /\ res' = [i \in Intakes |-> IF Published(i) THEN Closed(res[i]) ELSE res[i]]
  /\ UNCHANGED <<life, docs, vers, jobs, call, sweep, budget, taken>>

\* The job reaches a terminal state (DocumentJobs).
JobEnds(k) ==
  /\ jobs[k].state = "live"
  /\ jobs' = [jobs EXCEPT ![k].state = "ended"]
  /\ UNCHANGED <<mode, life, res, docs, vers, call, sweep, budget, taken>>

UploadStep(i) ==
  \/ MarkPublishing(i) \/ CreateDocument(i) \/ CreateVersion(i) \/ Enqueue(i)
  \/ Abandon(i) \/ AbandonChecks(i) \/ AbandonDiscards(i) \/ AbandonReleases(i) \/ Finish(i)

SweepStep(p) ==
  \/ Scan(p) \/ SweepChecks(p) \/ SweepDiscards(p) \/ SweepReleases(p)
  \/ FencedScan(p) \/ FencedDiscards(p) \/ SweepEnds(p)
  \/ \E s \in sweep[p].todo : Take(p, s) \/ FencedChecks(p, s)

Next ==
  \/ \E i \in Intakes : \/ UploadStep(i) \/ UploadFails(i) \/ AbandonFails(i) \/ FinishFails(i)
                        \/ Lapse(i) \/ Heartbeat(i) \/ \E p \in Processes : Reserve(p, i)
  \/ \E p \in Processes : SweepStep(p) \/ SweepFails(p) \/ Crash(p) \/ Start(p)
  \/ \E k \in Keys : JobEnds(k)

Spec == Init /\ [][Next]_vars

Fairness ==
  /\ \A i \in Intakes : WF_vars(UploadStep(i)) /\ WF_vars(Lapse(i) /\ ~Renewing(i))
  /\ \A p \in Servers : WF_vars(SweepStep(p)) /\ WF_vars(Start(p))

FairSpec == Spec /\ Fairness

-----------------------------------------------------------------------------
(***************************************************************************)
(* Properties.                                                             *)
(***************************************************************************)

\* The types; above all, a version and a document carry the token of an upload.
TypeOK ==
  /\ mode \in [Processes -> {"down", "starting", "up"}]
  /\ life \in [Processes -> Nat]
  /\ res \in [Intakes -> RowType]
  /\ docs \in [Keys -> Intakes \cup {None}]
  /\ vers \in [Keys -> [tag : Intakes \cup {None}, doc : DocIds \cup {None}]]
  /\ jobs \in [Keys -> [state : {"none", "live", "ended"}, by : Intakes \cup {None},
                        doc : DocIds \cup {None}, ver : Keys \cup {None}]]
  /\ call \in [Intakes -> CallType]
  /\ sweep \in [Processes -> SweepType]
  /\ budget \in [DOMAIN Budget -> Nat]
  /\ taken \in [Intakes -> SUBSET {"taken", "kept", "lost", "back"}]

\* The fence compares the process. It stands open again to an upload whose own
\* process, which sweeps too, takes the reservation back from the one that took it.
Retaken(i) == "back" \in taken[i]

\* A job that was published has its document and its version, whatever the
\* uploads and recoveries beside it roll back; unless its upload was retaken.
PublishedIsWhole ==
  \A k \in Keys :
    jobs[k] # NoJob /\ ~Retaken(jobs[k].by) =>
      DocExists(jobs[k].doc) /\ vers[jobs[k].ver] # NoVersion

\* An upload whose reservation was taken over publishes nothing, however long
\* it slept between its last look and its write; unless it was retaken.
TakenOverIsFenced ==
  \A i \in Intakes : taken[i] # {} /\ ~Retaken(i) => jobs[KeyOf[i]].by # i

\* Jobs and reservations together stay within the capacity, through every
\* publication, failure and takeover: none is lost and none counts twice.
CapacityKept == InFlight <= Capacity

Over(i) == call[i].at = "over"

\* A running server whose own rollback failed keeps the reservation (until it starts
\* again, as the log says).
Kept(i) == "kept" \in taken[i] /\ \E p \in Servers : res[i].owner = Me(p)

Litter(i) ==
  /\ Over(i)
  /\ \/ OwnVersion(i) /\ \A k \in Keys : jobs[k].ver # KeyOf[i]
     \/ docs[KeyOf[i]] = i /\ \A k \in Keys : jobs[k].doc # KeyOf[i]

\* What an upload wrote and did not publish is removed in the end, by itself or
\* by a recovery, also when it was written after the takeover: unless a server
\* keeps it, or a claim cleared the mark the recovery looks for.
LitterRemoved ==
  \A i \in Intakes :
    Litter(i) ~> (~Litter(i) \/ "lost" \in taken[i] \/ (Kept(i) /\ ~res[i].fenced))

\* A reservation is given back in the end, or kept by a server.
ReservationEnds == \A i \in Intakes : i \in Pending ~> (i \notin Pending \/ Kept(i))

=============================================================================
