---------------------------- MODULE MemoryQueue ----------------------------
(***************************************************************************)
(* The durable task queue of memory (memory_ops.db, memory_task_queue) and *)
(* the worker processes that drain it.  A worker claims rows under a fresh *)
(* lease token, runs a handler for each, renews the leases it has on       *)
(* record, and acknowledges under the token.  A row not renewed for 300 s  *)
(* is "stuck": the next claim takes it again, or gives it up at its last   *)
(* attempt.  A worker may die, stop, or be suspended (a laptop that        *)
(* sleeps): then all its leases expire while its handlers still run.       *)
(*                                                                         *)
(* Time is two facts about a row: a pending row is due or waits out its    *)
(* backoff, a processing row is fresh or stuck.                            *)
(***************************************************************************)
EXTENDS Naturals, FiniteSets

CONSTANTS
  Tasks,        \* rows ever enqueued
  Workers,      \* processes that poll the queue
  Lanes,        \* "memory" and "maintenance"
  LaneOf,       \* the lane of a task's type
  Slots,        \* handlers one worker runs at once in one lane
  MaxAttempts,  \* max_attempts
  Tokens,       \* lease tokens; a bound on those in use at once
  Budget,       \* bounds: how often each thing nobody controls happens
  None          \* no token

Faults == {"crash", "stop", "suspend", "outage", "retry"}

ASSUME QueueAssumption ==
  /\ LaneOf \in [Tasks -> Lanes]
  /\ Slots \in Nat \ {0}
  /\ MaxAttempts \in Nat \ {0}
  /\ Budget \in [Faults -> Nat]
  /\ None \notin Tokens

VARIABLES
  rows,      \* the table
  handlers,  \* handler calls in progress, over all workers
  leases,    \* each worker's _leases: task -> token
  batch,     \* rows a worker has claimed and not yet dispatched
  mode,      \* polling, in stop() with its last poll pass going on, or draining
  runs,      \* history: dispatches of a task that spent an attempt
  left       \* what is left of Budget

vars == <<rows, handlers, leases, batch, mode, runs, left>>

RowType == [status: {"new", "pending", "processing", "completed", "failed", "deleted"},
            attempts: Nat, token: Tokens \cup {None}, due: BOOLEAN, stuck: BOOLEAN]

HandlerType == [worker: Workers, task: Tasks, token: Tokens, phase: {"run", "acked"}]

New == [status |-> "new", attempts |-> 0, token |-> None, due |-> TRUE, stuck |-> FALSE]

NoBatch == [tasks |-> {}, token |-> None]

Owns(h) == rows[h.task].token = h.token
Expired(t) == rows[t].status = "processing" /\ rows[t].stuck
Ready(t) == rows[t].status = "pending" /\ rows[t].due

Spend(fault) ==
  /\ left[fault] > 0
  /\ left' = [left EXCEPT ![fault] = @ - 1]

----------------------------------------------------------------------------
(* Rows come, wait and go.                                                 *)

EnqueueTask(t) ==
  /\ rows[t].status = "new"
  /\ rows' = [rows EXCEPT ![t].status = "pending"]
  /\ UNCHANGED <<handlers, leases, batch, mode, runs, left>>

\* next_attempt_at passes, after 30 s or more: the handler whose failure set it
\* has run its `finally` long before, unless the host slept in between.
BackoffPasses(t) ==
  /\ rows[t].status = "pending" /\ ~rows[t].due
  /\ \/ \A h \in handlers : h.task = t => h.phase = "run"
     \/ left["suspend"] < Budget["suspend"]
  /\ rows' = [rows EXCEPT ![t].due = TRUE]
  /\ UNCHANGED <<handlers, leases, batch, mode, runs, left>>

\* retry_failed_task, for a dead letter or to skip a backoff.  (It leaves the
\* lease token alone.)
RetryFailedTask(t) ==
  /\ rows[t].status \in {"failed", "pending"}
  /\ Spend("retry")
  /\ rows' = [rows EXCEPT ![t].status = "pending", ![t].attempts = 0, ![t].due = TRUE]
  /\ runs' = [runs EXCEPT ![t] = 0]
  /\ UNCHANGED <<handlers, leases, batch, mode>>

\* purge_completed_tasks a week on; the Memory page's clear for dead letters.
DeleteTask(t) ==
  /\ rows[t].status \in {"completed", "failed"}
  /\ rows' = [rows EXCEPT ![t] = [New EXCEPT !.status = "deleted"]]
  /\ UNCHANGED <<handlers, leases, batch, mode, runs, left>>

----------------------------------------------------------------------------
(* Claiming: one BEGIN IMMEDIATE transaction on another thread; the event  *)
(* loop dispatches what it returned.                                       *)

InUse == {rows[t].token : t \in Tasks} \cup {h.token : h \in handlers}
         \cup {leases[w][t] : w \in Workers, t \in Tasks} \cup {batch[w].token : w \in Workers}

\* Mutant: the token is not fresh.
TokenReused == CHOOSE k \in Tokens : TRUE

NewToken == CHOOSE k \in Tokens : k \notin InUse

Busy(w, l) == Cardinality({h \in handlers : h.worker = w /\ LaneOf[h.task] = l})

\* The dead-letter pass is over every lane; the token stays on the row.
GivenUp == {t \in Tasks : Expired(t) /\ rows[t].attempts + 1 >= MaxAttempts}

GiveUp(r) == [r EXCEPT !.status = "failed", !.attempts = @ + 1, !.stuck = FALSE]

\* Mutant: any row in processing can be claimed, stuck or not.
ClaimableAnytime(l) ==
  {t \in Tasks \ GivenUp : LaneOf[t] = l /\ (Ready(t) \/ rows[t].status = "processing")}

Claimable(l) == {t \in Tasks \ GivenUp : LaneOf[t] = l /\ (Ready(t) \/ Expired(t))}

\* Mutant: a reclaim does not count as an attempt.
TakeUncounted(r, token) ==
  [r EXCEPT !.status = "processing", !.stuck = FALSE, !.token = token]

Take(r, token) ==
  [r EXCEPT !.status = "processing", !.stuck = FALSE, !.token = token,
            !.attempts = IF r.status = "pending" THEN @ ELSE @ + 1]

\* Mutant: with nothing claimed the transaction rolls back.
ClaimedOrRolledBack(s) ==
  [t \in Tasks |-> IF s # {} /\ t \in GivenUp THEN GiveUp(rows[t])
                  ELSE IF t \in s THEN Take(rows[t], NewToken) ELSE rows[t]]

Claimed(s) ==
  [t \in Tasks |-> IF t \in GivenUp THEN GiveUp(rows[t])
                  ELSE IF t \in s THEN Take(rows[t], NewToken) ELSE rows[t]]

\* A lane claims as many as it has free slots, in one transaction (which rows,
\* the oldest, is left open); with nothing to claim it still gives up what it must.
ClaimBatch(w, l) ==
  /\ mode[w] # "draining" /\ batch[w] = NoBatch /\ Busy(w, l) < Slots
  /\ Claimable(l) \cup GivenUp # {} /\ Tokens \ InUse # {}
  /\ \E s \in SUBSET Claimable(l) :
       /\ \/ s = Claimable(l) /\ Cardinality(s) <= Slots - Busy(w, l)
          \/ Cardinality(s) = Slots - Busy(w, l)
       /\ rows' = Claimed(s)
       /\ batch' = [batch EXCEPT ![w] =
                      IF s = {} THEN NoBatch ELSE [tasks |-> s, token |-> NewToken]]
  /\ UNCHANGED <<handlers, leases, mode, runs, left>>

\* The lease is on record before the handler starts.
Dispatch(w) ==
  /\ batch[w] # NoBatch
  /\ LET claimed == batch[w].tasks
     IN /\ handlers' = handlers \cup
             [worker: {w}, task: claimed, token: {batch[w].token}, phase: {"run"}]
        /\ leases' = [leases EXCEPT ![w] =
                        [t \in Tasks |-> IF t \in claimed THEN batch[w].token ELSE @[t]]]
        /\ runs' = [t \in Tasks |-> IF t \in claimed THEN runs[t] + 1 ELSE runs[t]]
  /\ batch' = [batch EXCEPT ![w] = NoBatch]
  /\ UNCHANGED <<rows, mode, left>>

----------------------------------------------------------------------------
(* A handler returns or raises; the acknowledgement is one transaction     *)
(* under the token, and the `finally` after it drops the lease.            *)

Acked(h) == handlers' = (handlers \ {h}) \cup {[h EXCEPT !.phase = "acked"]}

AckSuccess(h) ==
  /\ h.phase = "run"
  /\ rows' = IF Owns(h)
             THEN [rows EXCEPT ![h.task] =
                     [@ EXCEPT !.status = "completed", !.token = None, !.stuck = FALSE]]
             ELSE rows
  /\ Acked(h)
  /\ UNCHANGED <<leases, batch, mode, runs, left>>

\* Mutant: a failure is recorded by the row's id alone.
FailAnyToken(h) ==
  /\ h.phase = "run"
  /\ rows' = [rows EXCEPT ![h.task] =
                [@ EXCEPT !.status = "pending", !.token = None, !.due = FALSE, !.stuck = FALSE]]
  /\ Acked(h)
  /\ UNCHANGED <<leases, batch, mode, runs, left>>

\* A failure counts on the row's own counter: retry after a backoff, or give up.
Failed(r) ==
  IF r.attempts + 1 >= MaxAttempts
  THEN [r EXCEPT !.status = "failed", !.attempts = @ + 1, !.token = None, !.stuck = FALSE]
  ELSE [r EXCEPT !.status = "pending", !.attempts = @ + 1, !.token = None,
                 !.due = FALSE, !.stuck = FALSE]

AckFailure(h) ==
  /\ h.phase = "run"
  /\ rows' = IF Owns(h) THEN [rows EXCEPT ![h.task] = Failed(@)] ELSE rows
  /\ Acked(h)
  /\ UNCHANGED <<leases, batch, mode, runs, left>>

\* Mutant: an outage gives back an attempt that was never counted.
OutageRefunds(h) ==
  /\ h.phase = "run" /\ Spend("outage") /\ Owns(h)
  /\ rows' = [rows EXCEPT ![h.task] =
                [@ EXCEPT !.status = "pending", !.token = None,
                          !.due = FALSE, !.stuck = FALSE, !.attempts = @ - 1]]
  /\ Acked(h)
  /\ UNCHANGED <<leases, batch, mode, runs>>

\* A failure while Postgres is away spends no attempt.
AckOutage(h) ==
  /\ h.phase = "run" /\ Spend("outage")
  /\ IF Owns(h)
     THEN /\ rows' = [rows EXCEPT ![h.task] =
                        [@ EXCEPT !.status = "pending", !.token = None,
                                  !.due = FALSE, !.stuck = FALSE]]
          /\ runs' = [runs EXCEPT ![h.task] = IF @ = 0 THEN 0 ELSE @ - 1]
     ELSE UNCHANGED <<rows, runs>>
  /\ Acked(h)
  /\ UNCHANGED <<leases, batch, mode>>

\* The acknowledgement itself fails (logged), or the handler was cancelled.
AckLost(h) ==
  /\ h.phase = "run"
  /\ Acked(h)
  /\ UNCHANGED <<rows, leases, batch, mode, runs, left>>

\* _leases.pop(task_id): whichever lease of the task is on record.
DropLease(h) ==
  /\ h.phase = "acked"
  /\ handlers' = handlers \ {h}
  /\ leases' = [leases EXCEPT ![h.worker][h.task] = None]
  /\ UNCHANGED <<rows, batch, mode, runs, left>>

----------------------------------------------------------------------------
(* Leases and time.                                                        *)

Renewed(t) ==
  \E w \in Workers :
    \/ mode[w] = "polling" /\ rows[t].token \in {leases[w][t]} \ {None}
    \/ t \in batch[w].tasks /\ rows[t].token = batch[w].token

\* _renew_leases, every 20 s: updated_at := now where the token still matches.
RenewLeases(w) ==
  /\ mode[w] = "polling"
  /\ \E t \in Tasks : Expired(t) /\ rows[t].token = leases[w][t]
  /\ rows' = [t \in Tasks |->
                IF rows[t].status = "processing" /\ rows[t].token = leases[w][t]
                THEN [rows[t] EXCEPT !.stuck = FALSE] ELSE rows[t]]
  /\ UNCHANGED <<handlers, leases, batch, mode, runs, left>>

\* 300 s pass with nobody renewing the row.
LeaseExpires(t) ==
  /\ rows[t].status = "processing" /\ ~rows[t].stuck /\ ~Renewed(t)
  /\ rows' = [rows EXCEPT ![t].stuck = TRUE]
  /\ UNCHANGED <<handlers, leases, batch, mode, runs, left>>

\* The machine sleeps, or its clock leaps: every lease is overdue at once.
Suspend ==
  /\ \E t \in Tasks : rows[t].status = "processing" /\ ~rows[t].stuck
  /\ Spend("suspend")
  /\ rows' = [t \in Tasks |-> IF rows[t].status = "processing"
                              THEN [rows[t] EXCEPT !.stuck = TRUE] ELSE rows[t]]
  /\ UNCHANGED <<handlers, leases, batch, mode, runs>>

----------------------------------------------------------------------------
(* Processes.  stop() cancels renewal, gives the poll pass in progress five *)
(* seconds, cancels it (a batch not yet dispatched is lost), and awaits the *)
(* handlers without a bound.                                               *)

Stop(w) ==
  /\ mode[w] = "polling" /\ Spend("stop")
  /\ mode' = [mode EXCEPT ![w] = "ending"]
  /\ UNCHANGED <<rows, handlers, leases, batch, runs>>

EndPoll(w) ==
  /\ mode[w] = "ending"
  /\ mode' = [mode EXCEPT ![w] = "draining"]
  /\ batch' = [batch EXCEPT ![w] = NoBatch]
  /\ UNCHANGED <<rows, handlers, leases, runs, left>>

StartWorker(w) ==
  /\ mode[w] = "draining"
  /\ {h \in handlers : h.worker = w} = {}
  /\ mode' = [mode EXCEPT ![w] = "polling"]
  /\ UNCHANGED <<rows, handlers, leases, batch, runs, left>>

Crash(w) ==
  /\ Spend("crash")
  /\ handlers' = {h \in handlers : h.worker # w}
  /\ leases' = [leases EXCEPT ![w] = [t \in Tasks |-> None]]
  /\ batch' = [batch EXCEPT ![w] = NoBatch]
  /\ mode' = [mode EXCEPT ![w] = "polling"]
  /\ UNCHANGED <<rows, runs>>

----------------------------------------------------------------------------
Init ==
  /\ rows = [t \in Tasks |-> New]
  /\ handlers = {}
  /\ leases = [w \in Workers |-> [t \in Tasks |-> None]]
  /\ batch = [w \in Workers |-> NoBatch]
  /\ mode = [w \in Workers |-> "polling"]
  /\ runs = [t \in Tasks |-> 0]
  /\ left = Budget

Acknowledge(h) == AckSuccess(h) \/ AckFailure(h) \/ AckOutage(h) \/ AckLost(h)

Next ==
  \/ \E t \in Tasks : \/ EnqueueTask(t) \/ BackoffPasses(t) \/ RetryFailedTask(t)
                     \/ DeleteTask(t) \/ LeaseExpires(t)
  \/ \E w \in Workers, l \in Lanes : ClaimBatch(w, l)
  \/ \E w \in Workers : Dispatch(w) \/ RenewLeases(w) \/ Stop(w) \/ EndPoll(w)
                       \/ StartWorker(w) \/ Crash(w)
  \/ \E h \in handlers : Acknowledge(h) \/ DropLease(h)
  \/ Suspend

Spec == Init /\ [][Next]_vars

\* The poll loop, the dispatch and the clock go on; a handler of the memory
\* lane returns.  A maintenance handler (a pg_dump) may hang for ever, and
\* nobody has to enqueue, retry, delete, stop or crash.
Fairness ==
  /\ \A w \in Workers, l \in Lanes : WF_vars(ClaimBatch(w, l))
  /\ \A w \in Workers : WF_vars(Dispatch(w)) /\ WF_vars(EndPoll(w)) /\ WF_vars(StartWorker(w))
  /\ \A t \in Tasks : /\ WF_vars(BackoffPasses(t)) /\ WF_vars(LeaseExpires(t))
                      /\ LaneOf[t] = "memory" =>
                           /\ WF_vars(\E h \in handlers : h.task = t /\ Acknowledge(h))
                           /\ WF_vars(\E h \in handlers : h.task = t /\ DropLease(h))

LiveSpec == Spec /\ Fairness

----------------------------------------------------------------------------
TypeOK ==
  /\ rows \in [Tasks -> RowType]
  /\ handlers \subseteq HandlerType
  /\ leases \in [Workers -> [Tasks -> Tokens \cup {None}]]
  /\ batch \in [Workers -> [tasks: SUBSET Tasks, token: Tokens \cup {None}]]
  /\ mode \in [Workers -> {"polling", "ending", "draining"}]
  /\ runs \in [Tasks -> Nat]
  /\ left \in [Faults -> Nat]

\* Of all handler calls in progress for a task, however many sleeps, crashes
\* and reclaims led to them, at most one can still acknowledge the row.
OneOwner ==
  \A g, h \in handlers : g.task = h.task /\ Owns(g) /\ Owns(h) => g = h

\* A completed task is not run, failed or re-opened again.
CompletedIsFinal ==
  [][\A t \in Tasks : rows[t].status = "completed" =>
       rows'[t] = rows[t] \/ rows'[t].status = "deleted"]_vars

Running(t) == {h \in handlers : h.task = t /\ h.phase = "run"}

\* Without a suspension, a stop or an operator's retry a task never has two handlers
\* running, through crashes, outages, lost acknowledgements and two polling processes.
NoDoubleRun == \A t \in Tasks : Cardinality(Running(t)) <= 1

\* A task that keeps failing, crashing or losing its acknowledgement is run at
\* most max_attempts times before it is a dead letter.
RunsBounded == \A t \in Tasks : runs[t] <= MaxAttempts

\* Every memory write is done, given up or deleted in the end, whatever crashes,
\* outages and lost acknowledgements come first, and although every
\* maintenance handler may hang.
MemoryResolved ==
  \A t \in Tasks :
    LaneOf[t] = "memory" /\ rows[t].status = "pending"
      ~> rows[t].status \in {"completed", "failed", "deleted"}

============================================================================
