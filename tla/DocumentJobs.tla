---------------------------- MODULE DocumentJobs ----------------------------
(***************************************************************************)
(* The durable document jobs: the job store (jobs.py), the worker loops    *)
(* (worker.py) and the upload and start-up code that moves a job through   *)
(* its intake states (ingestion.py).                                       *)
(*                                                                         *)
(* A process runs uploads and one worker loop. Every call to the store is  *)
(* one transaction; between two calls the other processes, a cancellation, *)
(* a crash and the clock may do anything. A worker id is a fresh uuid each *)
(* time a process starts, so a dead process' leases belong to "gone".      *)
(***************************************************************************)
EXTENDS Naturals

CONSTANTS
  Jobs,
  Workers,       \* processes
  MaxAttempts,   \* max_attempts of every job
  Budget,        \* cancellations and faults: crashes, stops, errors, lapses (bound)
  None

ASSUME JobsAssumption ==
  /\ MaxAttempts \in Nat \ {0}
  /\ Budget \in [{"cancel", "fault"} -> Nat]
  /\ None \notin Workers /\ "gone" \notin Workers /\ None # "gone"

VARIABLES
  job,      \* [Jobs -> row of document_jobs]
  home,     \* [Jobs -> live process named by the intake's reservation, or None]
  hand,     \* [Workers -> [Jobs -> the copy an intake in progress works on]]
  todo,     \* [Workers -> jobs a starting process read as interrupted]
  mode,     \* [Workers -> "down", "starting" or "up"]
  work,     \* [Workers -> what the worker loop does]
  budget,   \* cancellations and faults left
  claims,   \* history: [Jobs -> how often it was claimed]
  returned, \* history: [Jobs -> claims given back by a graceful stop]
  done      \* history: [Jobs -> stages whose handler returned a result]

vars == <<job, home, hand, todo, mode, work, budget, claims, returned, done>>

Intake == {"received", "quarantined", "validating"}
Processing == {"validating", "parsing", "ocr_running", "normalizing", "indexing", "verifying"}
Pending == {"received", "quarantined", "ready_to_parse", "ocr_required", "retry_wait"}
Terminal == {"rejected", "ready", "cancelled", "dead_letter"}
States == Processing \cup Pending \cup Terminal

Allowed(s) ==
  CASE s = "absent" -> {"received"}
    [] s = "received" -> {"quarantined", "rejected", "cancelled"}
    [] s = "quarantined" -> {"validating", "rejected", "cancelled"}
    [] s = "ready_to_parse" -> {"parsing", "cancelled", "dead_letter"}
    [] s = "ocr_required" -> {"ocr_running", "cancelled", "dead_letter"}
    [] s = "retry_wait" -> Processing \cup {"cancelled", "dead_letter"}
    [] s = "validating" ->
         {"ready_to_parse", "ocr_required", "retry_wait", "rejected", "cancelled", "dead_letter"}
    [] s = "parsing" ->
         {"ocr_required", "normalizing", "retry_wait", "rejected", "cancelled", "dead_letter"}
    [] s = "ocr_running" -> {"normalizing", "retry_wait", "rejected", "cancelled", "dead_letter"}
    [] s = "normalizing" -> {"indexing", "retry_wait", "rejected", "cancelled", "dead_letter"}
    [] s = "indexing" -> {"verifying", "retry_wait", "rejected", "cancelled", "dead_letter"}
    [] s = "verifying" -> {"ready", "retry_wait", "rejected", "cancelled", "dead_letter"}
    [] OTHER -> {}

\* What the handler of a stage asks for.
NextOf(stage, ocr) ==
  CASE stage = "validating" -> IF ocr THEN "ocr_required" ELSE "ready_to_parse"
    [] stage \in {"parsing", "ocr_running"} -> "normalizing"
    [] stage = "normalizing" -> "indexing"
    [] stage = "indexing" -> "verifying"
    [] OTHER -> "ready"

Absent == [state |-> "absent", stage |-> "absent", attempt |-> 0, version |-> 0, owner |-> None,
           live |-> FALSE, cancel |-> FALSE, retry |-> "none", ocr |-> FALSE]
NoCopy == [state |-> "none", version |-> 0]
Idle == [phase |-> "idle", job |-> None, ran |-> "none", version |-> 0, outcome |-> "none"]
Retries == {"none", "later", "now"}
Outcomes == {"done", "transient", "permanent"}

RowType ==
  [state : States \cup {"absent"}, stage : States \cup {"absent"}, attempt : 0 .. MaxAttempts,
   version : Nat, owner : Workers \cup {None, "gone"}, live : BOOLEAN, cancel : BOOLEAN,
   retry : Retries, ocr : BOOLEAN]
WorkType ==
  [phase : {"idle", "run", "write", "latest", "cancel"}, job : Jobs \cup {None},
   ran : Processing \cup {"none"}, version : Nat, outcome : Outcomes \cup {"none"}]

Init ==
  /\ job = [j \in Jobs |-> Absent]
  /\ home = [j \in Jobs |-> None]
  /\ hand = [p \in Workers |-> [j \in Jobs |-> NoCopy]]
  /\ todo = [p \in Workers |-> {}]
  /\ mode = [p \in Workers |-> "down"]
  /\ work = [w \in Workers |-> Idle]
  /\ budget = Budget
  /\ claims = [j \in Jobs |-> 0]
  /\ returned = [j \in Jobs |-> 0]
  /\ done = [j \in Jobs |-> {}]

Spend(kind) ==
  /\ budget[kind] > 0
  /\ budget' = [budget EXCEPT ![kind] = @ - 1]

-----------------------------------------------------------------------------
(***************************************************************************)
(* The writes of the store.                                                *)
(***************************************************************************)

\* _transition_locked: the lease stays only on a job that is being processed.
Moved(r, target, stage, retry) ==
  [r EXCEPT !.state = target, !.stage = stage, !.retry = retry, !.version = @ + 1,
            !.owner = IF target \in Processing THEN @ ELSE None,
            !.live = IF target \in Processing THEN @ ELSE FALSE]

\* Mutant: the row's version is not compared.
ExpectedState(r, state, version, owner) == r.state = state /\ r.owner \in {None, owner}

\* Mutant: only the lease is looked at.
ExpectedOwner(r, state, version, owner) == r.owner \in {None, owner}

\* The compare-and-swap and the lease check of transition and record_failure.
Expected(r, state, version, owner) ==
  /\ r.state = state /\ r.version = version
  /\ r.owner \in {None, owner}

Failed(r, outcome) ==
  IF outcome = "permanent" THEN Moved(r, "rejected", r.stage, "none")
  ELSE IF r.attempt >= MaxAttempts THEN Moved(r, "dead_letter", r.stage, "none")
  ELSE Moved(r, "retry_wait", r.stage, "later")

Expired(r) == r.state \in Processing /\ r.owner # None /\ ~r.live

Recovered(r) ==
  IF ~Expired(r) THEN r
  ELSE IF r.cancel THEN Moved(r, "cancelled", r.stage, "none")
  ELSE IF r.attempt >= MaxAttempts THEN Moved(r, "dead_letter", r.stage, "none")
  ELSE Moved(r, "retry_wait", r.stage, "now")

\* The attempt of the claim is given back.
Released(r) ==
  IF r.cancel THEN Moved(r, "cancelled", r.stage, "none")
  ELSE [Moved(r, "retry_wait", r.stage, "now") EXCEPT
          !.attempt = IF @ = 0 THEN 0 ELSE @ - 1]

Candidate(r) ==
  /\ \/ r.state \in {"ready_to_parse", "ocr_required"}
     \/ r.state = "retry_wait" /\ r.retry = "now"
  /\ ~r.cancel

\* Mutant: one attempt too many.
ExhaustedLate(r) == Candidate(r) /\ r.attempt > MaxAttempts

Exhausted(r) == Candidate(r) /\ r.attempt >= MaxAttempts

\* Mutant: a retry resumes after the stage that failed.
ClaimTargetNext(r) ==
  IF r.state = "retry_wait" THEN NextOf(r.stage, r.ocr)
  ELSE IF r.state = "ready_to_parse" THEN "parsing" ELSE "ocr_running"

ClaimTarget(r) ==
  CASE r.state = "ready_to_parse" -> "parsing"
    [] r.state = "ocr_required" -> "ocr_running"
    [] OTHER -> r.stage

\* Mutant: the claim of a retry is not counted.
ClaimedUncounted(r, w) ==
  [r EXCEPT !.state = ClaimTarget(r), !.stage = ClaimTarget(r),
            !.attempt = IF r.state = "retry_wait" THEN @ ELSE @ + 1,
            !.retry = "none", !.owner = w, !.live = TRUE, !.version = @ + 1]

Claimed(r, w) ==
  [r EXCEPT !.state = ClaimTarget(r), !.stage = ClaimTarget(r), !.attempt = @ + 1,
            !.retry = "none", !.owner = w, !.live = TRUE, !.version = @ + 1]

-----------------------------------------------------------------------------
(***************************************************************************)
(* Intake: an upload or a retry, and the recovery of one a crash left.     *)
(***************************************************************************)

\* enqueue: the job exists, and the process goes on with its validation.
Publish(p, j) ==
  /\ mode[p] = "up" /\ job[j].state = "absent"
  /\ \E ocr \in BOOLEAN :
       job' = [job EXCEPT ![j] = [Absent EXCEPT !.state = "received", !.stage = "received", !.ocr = ocr]]
  /\ home' = [home EXCEPT ![j] = p]
  /\ hand' = [hand EXCEPT ![p][j] = [state |-> "received", version |-> 0]]
  /\ UNCHANGED <<todo, mode, work, budget, claims, returned, done>>

\* The write of an intake: on a conflict it raises and the intake ends there.
IntakeWrites(p, j, new, goesOn) ==
  IF Expected(job[j], hand[p][j].state, hand[p][j].version, None)
  THEN /\ job' = [job EXCEPT ![j] = new]
       /\ hand' = [hand EXCEPT ![p][j] =
                     IF goesOn THEN [state |-> new.state, version |-> new.version] ELSE NoCopy]
  ELSE /\ hand' = [hand EXCEPT ![p][j] = NoCopy]
       /\ UNCHANGED job

AdvanceIntake(p, j) ==
  /\ hand[p][j].state \in {"received", "quarantined"}
  /\ LET next == IF hand[p][j].state = "received" THEN "quarantined" ELSE "validating" IN
     IntakeWrites(p, j, Moved(job[j], next, next, "none"), TRUE)
  /\ UNCHANGED <<home, todo, mode, work, budget, claims, returned, done>>

\* Mutant: a plain transition to retry_wait.
IntakeFailedPlain(r, outcome) ==
  IF outcome = "transient" THEN Moved(r, "retry_wait", "retry_wait", "none")
  ELSE Moved(r, "rejected", "rejected", "none")

\* A transient fault keeps the stage, so that a worker can take the job up.
IntakeFailed(r, outcome) ==
  IF outcome = "transient" THEN Failed(r, "transient") ELSE Moved(r, "rejected", "rejected", "none")

EndValidation(p, j, outcome) ==
  /\ hand[p][j].state = "validating"
  /\ LET next == NextOf("validating", job[j].ocr) IN
     IntakeWrites(p, j, IF outcome = "done" THEN Moved(job[j], next, next, "none")
                        ELSE IntakeFailed(job[j], outcome), FALSE)
  /\ done' = IF outcome = "done" THEN [done EXCEPT ![j] = @ \cup {"validating"}] ELSE done
  /\ UNCHANGED <<home, todo, mode, work, budget, claims, returned>>

\* An error of the store ends the intake; the start of a process fails with it.
IntakeFault(p, j) ==
  /\ hand[p][j] # NoCopy
  /\ Spend("fault")
  /\ hand' = [hand EXCEPT ![p][j] = NoCopy]
  /\ todo' = [todo EXCEPT ![p] = {}]
  /\ mode' = [mode EXCEPT ![p] = IF @ = "starting" THEN "down" ELSE @]
  /\ UNCHANGED <<job, home, work, claims, returned, done>>

\* Mutant: a job whose validation was interrupted is left out.
StartMisses(p) ==
  /\ mode[p] = "down"
  /\ mode' = [mode EXCEPT ![p] = "starting"]
  /\ todo' = [todo EXCEPT ![p] = {j \in Jobs : job[j].state \in {"received", "quarantined"} /\ ~job[j].cancel}]
  /\ UNCHANGED <<job, home, hand, work, budget, claims, returned, done>>

\* recover_interrupted_intake reads its list once, then looks at each job again.
Start(p) ==
  /\ mode[p] = "down"
  /\ mode' = [mode EXCEPT ![p] = "starting"]
  /\ todo' = [todo EXCEPT ![p] = {j \in Jobs : job[j].state \in Intake /\ ~job[j].cancel}]
  /\ UNCHANGED <<job, home, hand, work, budget, claims, returned, done>>

Resting(p) == \A j \in Jobs : hand[p][j] = NoCopy

Rescue(p, j) ==
  /\ mode[p] = "starting" /\ Resting(p) /\ j \in todo[p]
  /\ todo' = [todo EXCEPT ![p] = @ \ {j}]
  /\ hand' = IF job[j].state \in Intake /\ home[j] = None
             THEN [hand EXCEPT ![p][j] = [state |-> job[j].state, version |-> job[j].version]]
             ELSE hand
  /\ UNCHANGED <<job, home, mode, work, budget, claims, returned, done>>

\* The worker loop starts after a recovery of its own.
StartLoop(p) ==
  /\ mode[p] = "starting" /\ Resting(p) /\ todo[p] = {}
  /\ mode' = [mode EXCEPT ![p] = "up"]
  /\ job' = [j \in Jobs |-> Recovered(job[j])]
  /\ UNCHANGED <<home, hand, todo, work, budget, claims, returned, done>>

-----------------------------------------------------------------------------
(***************************************************************************)
(* The worker loop.                                                        *)
(***************************************************************************)

\* claim_next: recovery, the exhausted jobs met on the way, and the claim are
\* one transaction. Without a claim every exhausted job was met.
Poll(w) ==
  /\ mode[w] = "up" /\ work[w] = Idle
  /\ LET seen == [j \in Jobs |-> Recovered(job[j])]
         spent == {j \in Jobs : Exhausted(seen[j])}
         ready == {j \in Jobs : Candidate(seen[j]) /\ ~Exhausted(seen[j])}
         Buried(met) == [j \in Jobs |->
            IF j \in met THEN Moved(seen[j], "dead_letter", seen[j].stage, "none") ELSE seen[j]] IN
     \/ /\ ready = {}
        /\ job' = Buried(spent)
        /\ UNCHANGED <<work, claims>>
     \/ \E j \in ready, met \in SUBSET spent :
        /\ job' = [Buried(met) EXCEPT ![j] = Claimed(seen[j], w)]
        /\ work' = [work EXCEPT ![w] = [Idle EXCEPT !.phase = "run", !.job = j, !.ran = ClaimTarget(seen[j])]]
        /\ claims' = [claims EXCEPT ![j] = @ + 1]
  /\ UNCHANGED <<home, hand, todo, mode, budget, returned, done>>

\* The heartbeat renews by owner alone, an expired lease too.
Renew(w) ==
  LET j == work[w].job IN
  /\ work[w].phase = "run"
  /\ job[j].owner = w /\ job[j].state \in Processing
  /\ job' = [job EXCEPT ![j].live = TRUE]
  /\ UNCHANGED <<home, hand, todo, mode, work, budget, claims, returned, done>>

\* The handler returns or raises, and the loop reads the row again.
EndStage(w, outcome) ==
  LET j == work[w].job
      r == job[j] IN
  /\ work[w].phase = "run"
  /\ done' = IF outcome = "done" THEN [done EXCEPT ![j] = @ \cup {work[w].ran}] ELSE done
  /\ work' = [work EXCEPT ![w] =
       IF r.owner # w \/ r.state \notin Processing THEN Idle
       ELSE [@ EXCEPT !.phase = IF r.cancel THEN "cancel" ELSE "write",
                      !.version = r.version, !.outcome = outcome]]
  /\ UNCHANGED <<job, home, hand, todo, mode, budget, claims, returned>>

\* transition or record_failure, against the copy of the last read.
Write(w) ==
  LET j == work[w].job
      r == job[j]
      next == NextOf(work[w].ran, r.ocr)
      success == work[w].outcome = "done" IN
  /\ work[w].phase = "write"
  /\ IF Expected(r, work[w].ran, work[w].version, w)
     THEN /\ job' = [job EXCEPT ![j] = IF success THEN Moved(r, next, next, "none")
                                       ELSE Failed(r, work[w].outcome)]
          /\ work' = [work EXCEPT ![w] =
               IF success /\ next \in Processing
               THEN [Idle EXCEPT !.phase = "run", !.job = j, !.ran = next] ELSE Idle]
     ELSE /\ work' = [work EXCEPT ![w] = IF success THEN [@ EXCEPT !.phase = "latest"] ELSE Idle]
          /\ UNCHANGED job
  /\ UNCHANGED <<home, hand, todo, mode, budget, claims, returned, done>>

\* After a conflict: was it a cancellation?
Latest(w) ==
  LET r == job[work[w].job] IN
  /\ work[w].phase = "latest"
  /\ work' = [work EXCEPT ![w] =
       IF r.owner = w /\ r.cancel /\ r.state \in Processing THEN [@ EXCEPT !.phase = "cancel"] ELSE Idle]
  /\ UNCHANGED <<job, home, hand, todo, mode, budget, claims, returned, done>>

CancelClaimed(w) ==
  LET j == work[w].job
      r == job[j] IN
  /\ work[w].phase = "cancel"
  /\ job' = IF r.state \in Processing /\ r.owner \in {None, w} /\ r.cancel
            THEN [job EXCEPT ![j] = Moved(r, "cancelled", r.stage, "none")] ELSE job
  /\ work' = [work EXCEPT ![w] = Idle]
  /\ UNCHANGED <<home, hand, todo, mode, budget, claims, returned, done>>

\* The outcome cannot be recorded: the loop goes on and the lease is left.
StoreFault(w) ==
  /\ work[w].phase \in {"write", "latest", "cancel"}
  /\ Spend("fault")
  /\ work' = [work EXCEPT ![w] = Idle]
  /\ UNCHANGED <<job, home, hand, todo, mode, claims, returned, done>>

-----------------------------------------------------------------------------
(***************************************************************************)
(* The clock, the user, stops and crashes.                                 *)
(***************************************************************************)

Renewing(j) == \E w \in Workers : work[w].job = j /\ job[j].owner = w

\* A lease nobody renews runs out; one that is renewed only when every beat fails.
Lapse(j) ==
  /\ job[j].owner # None /\ job[j].live
  /\ IF Renewing(j) THEN Spend("fault") ELSE UNCHANGED budget
  /\ job' = [job EXCEPT ![j].live = FALSE]
  /\ UNCHANGED <<home, hand, todo, mode, work, claims, returned, done>>

DuePasses(j) ==
  /\ job[j].retry = "later"
  /\ job' = [job EXCEPT ![j].retry = "now"]
  /\ UNCHANGED <<home, hand, todo, mode, work, budget, claims, returned, done>>

\* request_cancel: waiting work ends at once, work in progress is asked to end.
Cancelling(r) ==
  IF r.state \in Pending THEN [Moved(r, "cancelled", r.stage, "none") EXCEPT !.cancel = TRUE]
  ELSE [r EXCEPT !.cancel = TRUE, !.version = @ + 1]

Cancel(j) ==
  /\ job[j].state \notin Terminal \cup {"absent"}
  /\ Spend("cancel")
  /\ job' = [job EXCEPT ![j] = Cancelling(job[j])]
  /\ UNCHANGED <<home, hand, todo, mode, work, claims, returned, done>>

Ended(p) ==
  /\ mode' = [mode EXCEPT ![p] = "down"]
  /\ work' = [work EXCEPT ![p] = Idle]
  /\ hand' = [hand EXCEPT ![p] = [j \in Jobs |-> NoCopy]]
  /\ todo' = [todo EXCEPT ![p] = {}]
  /\ home' = [j \in Jobs |-> IF home[j] = p THEN None ELSE home[j]]

\* A graceful stop gives the leases back before its tasks are cancelled.
Stop(w) ==
  LET held == {j \in Jobs : job[j].owner = w /\ job[j].state \in Processing} IN
  /\ mode[w] = "up"
  /\ Spend("fault")
  /\ job' = [j \in Jobs |-> IF j \in held THEN Released(job[j]) ELSE job[j]]
  /\ returned' = [j \in Jobs |-> returned[j] + IF j \in held /\ ~job[j].cancel THEN 1 ELSE 0]
  /\ Ended(w)
  /\ UNCHANGED <<claims, done>>

\* A crash; or a stop that could not give the leases back.
Crash(p) ==
  /\ mode[p] # "down"
  /\ Spend("fault")
  /\ job' = [j \in Jobs |-> IF job[j].owner = p THEN [job[j] EXCEPT !.owner = "gone"] ELSE job[j]]
  /\ Ended(p)
  /\ UNCHANGED <<claims, returned, done>>

IntakeStep(p, j) ==
  AdvanceIntake(p, j) \/ \E o \in Outcomes : EndValidation(p, j, o)

LoopStep(w) ==
  Poll(w) \/ (\E o \in Outcomes : EndStage(w, o)) \/ Write(w) \/ Latest(w) \/ CancelClaimed(w)

StartStep(p) == Start(p) \/ (\E j \in Jobs : Rescue(p, j)) \/ StartLoop(p)

Next ==
  \/ \E p \in Workers :
       \/ StartStep(p) \/ LoopStep(p) \/ Renew(p) \/ StoreFault(p) \/ Stop(p) \/ Crash(p)
       \/ \E j \in Jobs : Publish(p, j) \/ IntakeStep(p, j) \/ IntakeFault(p, j)
  \/ \E j \in Jobs : Lapse(j) \/ DuePasses(j) \/ Cancel(j)

Spec == Init /\ [][Next]_vars

Fairness ==
  /\ \A p \in Workers : WF_vars(StartStep(p)) /\ WF_vars(LoopStep(p))
  /\ \A p \in Workers, j \in Jobs : WF_vars(IntakeStep(p, j))
  /\ \A j \in Jobs : WF_vars(Lapse(j) /\ ~Renewing(j)) /\ WF_vars(DuePasses(j))

FairSpec == Spec /\ Fairness

-----------------------------------------------------------------------------
(***************************************************************************)
(* Properties.                                                             *)
(***************************************************************************)

\* The types, and that the attempt count of a row stays within max_attempts.
TypeOK ==
  /\ job \in [Jobs -> RowType]
  /\ home \in [Jobs -> Workers \cup {None}]
  /\ hand \in [Workers -> [Jobs -> [state : Intake \cup {"none"}, version : Nat]]]
  /\ todo \in [Workers -> SUBSET Jobs]
  /\ mode \in [Workers -> {"down", "starting", "up"}]
  /\ work \in [Workers -> WorkType]
  /\ budget \in [DOMAIN Budget -> Nat]
  /\ claims \in [Jobs -> Nat] /\ returned \in [Jobs -> Nat]
  /\ done \in [Jobs -> SUBSET Processing]

\* Whatever crashes, lapses and stops happen, a job is claimed max_attempts
\* times at most, not counting the claims a graceful stop gave back.
AttemptsBounded == \A j \in Jobs : claims[j] <= MaxAttempts + returned[j]

\* A job whose cancellation was accepted never becomes ready, even when the
\* request falls between a stage's last read of the row and its write.
CancelledIsNotReady == \A j \in Jobs : ~(job[j].state = "ready" /\ job[j].cancel)

\* A ready job went through validation, extraction, normalisation, indexing
\* and verification: no retry, recovery or late write skips a stage.
ReadyMeansDone ==
  \A j \in Jobs : job[j].state = "ready" =>
    /\ {"validating", "normalizing", "indexing", "verifying"} \subseteq done[j]
    /\ (IF job[j].ocr THEN "ocr_running" ELSE "parsing") \in done[j]

\* Every change of state is one ALLOWED_TRANSITIONS lists, so a terminal job
\* is final: no writer with an old copy moves a job backwards or twice.
MovesAllowed ==
  [][\A j \in Jobs : job'[j].state \in Allowed(job[j].state) \cup {job[j].state}]_vars

HandedOver(j) ==
  \/ job[j].state \in {"ready_to_parse", "ocr_required", "retry_wait"} /\ ~job[j].cancel
  \/ job[j].owner # None

\* A job the workers can see, or hold, reaches a terminal state: no lease is
\* left behind for ever and no retry is lost, cancelled jobs included.
HandedOverEnds == \A j \in Jobs : HandedOver(j) ~> job[j].state \in Terminal

\* An intake a dead process left behind is taken up by the next start, unless
\* it was cancelled meanwhile.
StrandedRecovered ==
  \A j \in Jobs :
    (job[j].state \in Intake /\ home[j] = None) ~> (job[j].state \notin Intake \/ job[j].cancel)

\* "Request cooperative cancellation" (request_cancel): a job asked to cancel ends.
CancelEnds == \A j \in Jobs : job[j].cancel ~> job[j].state \in Terminal

=============================================================================
