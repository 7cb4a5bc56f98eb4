----------------------------- MODULE CronFires -----------------------------
(***************************************************************************)
(* Scheduled jobs: the cron_jobs table, the delivery outbox beside it, and *)
(* the one scheduler that polls both.  Each transaction of the store is    *)
(* one action; what the scheduler remembers between two of them -- the due *)
(* jobs a pass has read, the fires in flight, the sends in progress -- is  *)
(* lost when the process dies.                                             *)
(*                                                                         *)
(* An occurrence of a job is a number: next_run is the number and whether  *)
(* its time is ahead, due, or so long past that the catch-up window is     *)
(* over.  A booking or an edit takes a fresh one.  The table holds other   *)
(* jobs too; they are not modelled, but may hold up a pass or the          *)
(* semaphore at any of its awaits.                                         *)
(***************************************************************************)
EXTENDS Naturals, FiniteSets

CONSTANTS
  Jobs,
  Poll,           \* the poll loop, as a sender of messages
  None,           \* no message
  FailureBudget,  \* failures in a row that end a recurring job
  MaxTries,       \* DELIVERY_MAX_ATTEMPTS
  MaxRuns,        \* bound: occurrences of a job
  Budget          \* bounds: how often each thing nobody controls happens

\* What the user does; crashes and errors.
Chances == {"user", "fault"}

ASSUME CronAssumption ==
  /\ Poll \notin Jobs
  /\ FailureBudget \in Nat \ {0}
  /\ MaxTries \in Nat \ {0}
  /\ MaxRuns \in Nat \ {0}
  /\ Budget \in [Chances -> Nat]
  /\ None \notin Jobs \X (1..MaxRuns) \X {"result", "missed"}

Runs == 1..MaxRuns
Messages == Jobs \X Runs \X {"result", "missed"}  \* fire_key
Senders == Jobs \cup {Poll}                       \* a job stands for its exec task

VARIABLES
  job,      \* cron_jobs
  top,      \* the highest occurrence number a job has used
  mail,     \* cron_deliveries
  task,     \* each job's exec task, up to the end of its fire
  send,     \* each sender's row and how far its send has come (_sending)
  poll,     \* where the poll loop is
  seen,     \* the due jobs this pass has read and not yet served
  left,     \* what is left of Budget
  arrived,  \* history: copies of a message the platform took
  asked,    \* history: jobs the user cancelled and did not restore
  stopped   \* history: messages a cancellation was to stop

vars == <<job, top, mail, task, send, poll, seen, left, arrived, asked, stopped>>

Terminal == {"done", "failed", "cancelled", "undeliverable", "missed", "delivery_unknown"}
Statuses == {"pending", "running", "delivering"} \cup Terminal

EditType == [run: {0} \cup Runs, series: BOOLEAN]
JobType == [status: Statuses, series: BOOLEAN, run: Runs, phase: {"ahead", "due", "late"},
            version: Nat, owner: {"none", "me", "dead", "lapsed"}, edit: EditType,
            cancel: BOOLEAN, failures: Nat]
MailType == [state: {"none", "pending", "sending", "delivered", "undeliverable", "unknown", "cancelled"},
             tries: Nat, holder: {"none", "me", "gone"}]
TaskType == [at: {"none", "queued", "firing"}, version: Nat]
SendType == [at: {"idle", "todo", "claimed", "accepted", "refused"}, row: Messages \cup {None}]
SeenType == [on: BOOLEAN, run: {0} \cup Runs, version: Nat, late: BOOLEAN]

NoEdit == [run |-> 0, series |-> FALSE]
NoTask == [at |-> "none", version |-> 0]
NoSend == [at |-> "idle", row |-> None]
NotSeen == [on |-> FALSE, run |-> 0, version |-> 0, late |-> FALSE]

Todo(m) == [at |-> "todo", row |-> m]

InFlight(j) == task[j].at # "none" \/ send[j].at # "idle"
Live(s) == send[s].at \in {"claimed", "accepted", "refused"}
Open(m) == mail[m].state \in {"pending", "sending"}

Spend(c) ==
  /\ left[c] > 0
  /\ left' = [left EXCEPT ![c] = @ - 1]

Fresh(j) == top[j] < MaxRuns /\ top' = [top EXCEPT ![j] = @ + 1]

\* The next occurrence of a recurring job, or none.
GoOn(j, goesOn) ==
  IF goesOn THEN job[j].series /\ Fresh(j) ELSE UNCHANGED top

\* INSERT OR IGNORE; the sender goes on to send what it inserted.
Write(s, m) ==
  IF mail[m].state = "none"
  THEN /\ mail' = [mail EXCEPT ![m].state = "pending"]
       /\ send' = [send EXCEPT ![s] = Todo(m)]
  ELSE UNCHANGED <<mail, send>>

----------------------------------------------------------------------------
(* The user.  Each action returns early, changing nothing, on a job it     *)
(* does not fit or on a stale expected_version.                            *)

Touched(r) == [r EXCEPT !.version = @ + 1]
Retimed(r, n, series) == [Touched(r) EXCEPT !.run = n, !.phase = "ahead", !.series = series]

\* A new time: applied at once, or recorded for the end of the fire.
UpdateTiming(j, series) ==
  /\ job[j].status \in {"pending", "running"}
  /\ Fresh(j) /\ Spend("user")
  /\ job' = [job EXCEPT ![j] =
       IF job[j].status = "pending" THEN Retimed(job[j], top[j] + 1, series)
       ELSE [Touched(job[j]) EXCEPT !.edit = [run |-> top[j] + 1, series |-> series]]]
  /\ UNCHANGED <<mail, task, send, poll, seen, arrived, asked, stopped>>

\* A new prompt only.
UpdatePrompt(j) ==
  /\ job[j].status \in {"pending", "running"}
  /\ Spend("user")
  /\ job' = [job EXCEPT ![j] = Touched(job[j])]
  /\ UNCHANGED <<top, mail, task, send, poll, seen, arrived, asked, stopped>>

OpenOf(j) == {m \in Messages : m[1] = j /\ Open(m)}

CancelMail(j) ==
  mail' = [m \in Messages |-> IF m[1] = j /\ mail[m].state = "pending"
                              THEN [mail[m] EXCEPT !.state = "cancelled"] ELSE mail[m]]

Cancel(j) ==
  /\ job[j].status \in {"pending", "running", "delivering"}
  /\ Spend("user")
  /\ job' = [job EXCEPT ![j] =
       IF job[j].status = "running" THEN [Touched(job[j]) EXCEPT !.cancel = TRUE]
       ELSE [Touched(job[j]) EXCEPT !.status = "cancelled"]]
  /\ IF job[j].status = "delivering"
     THEN CancelMail(j) /\ stopped' = stopped \cup OpenOf(j)
     ELSE UNCHANGED <<mail, stopped>>
  /\ asked' = asked \cup {j}
  /\ UNCHANGED <<top, task, send, poll, seen, arrived>>

\* "Run again".
RestoreJob(j, series) ==
  /\ job[j].status \in Terminal
  /\ Fresh(j) /\ Spend("user")
  /\ job' = [job EXCEPT ![j] = [Retimed(job[j], top[j] + 1, series) EXCEPT
                                  !.status = "pending", !.failures = 0, !.edit = NoEdit, !.cancel = FALSE]]
  /\ asked' = asked \ {j}
  /\ UNCHANGED <<mail, task, send, poll, seen, arrived, stopped>>

----------------------------------------------------------------------------
(* Time.                                                                   *)

BecomeDue(j) ==
  /\ job[j].status \in {"pending", "running"} /\ job[j].phase = "ahead"
  /\ job' = [job EXCEPT ![j].phase = "due"]
  /\ UNCHANGED <<top, mail, task, send, poll, seen, left, arrived, asked, stopped>>

\* The catch-up window is over.
BecomeLate(j) ==
  /\ job[j].status \in {"pending", "running"} /\ job[j].phase = "due"
  /\ job' = [job EXCEPT ![j].phase = "late"]
  /\ UNCHANGED <<top, mail, task, send, poll, seen, left, arrived, asked, stopped>>

\* A dead process's fire outlives its lease.
FireLeaseLapses(j) ==
  /\ job[j].owner = "dead"
  /\ job' = [job EXCEPT ![j].owner = "lapsed"]
  /\ UNCHANGED <<top, mail, task, send, poll, seen, left, arrived, asked, stopped>>

\* A send outlives DELIVERY_LEASE_S; nothing renews it.
SendLeaseLapses(m) ==
  /\ mail[m].state = "sending" /\ mail[m].holder = "me"
  /\ mail' = [mail EXCEPT ![m].holder = "gone"]
  /\ UNCHANGED <<job, top, task, send, poll, seen, left, arrived, asked, stopped>>

----------------------------------------------------------------------------
(* A fire: claim, produce, finish; its exec task then sends the message.   *)

\* The compare-and-swap is on the status and the version the pass read.
ClaimJob(j) ==
  /\ task[j].at = "queued"
  /\ IF job[j].status = "pending" /\ job[j].version = task[j].version
     THEN /\ job' = [job EXCEPT ![j].status = "running", ![j].owner = "me"]
          /\ task' = [task EXCEPT ![j].at = "firing"]
     ELSE /\ task' = [task EXCEPT ![j] = NoTask]
          /\ UNCHANGED job
  /\ UNCHANGED <<top, mail, send, poll, seen, left, arrived, asked, stopped>>

\* The job after its fire: r is its row, n the next occurrence of a recurring
\* job that goes on.
Fired(r, success, written, goesOn, n) ==
  LET ended == [r EXCEPT !.owner = "none", !.edit = NoEdit, !.cancel = FALSE,
                         !.failures = IF success THEN 0 ELSE @ + 1]
      next == [ended EXCEPT !.status = "pending", !.phase = "ahead"]
  IN IF r.cancel THEN [ended EXCEPT !.status = "cancelled"]
     ELSE IF r.edit.run # 0 THEN [next EXCEPT !.run = r.edit.run, !.series = r.edit.series]
     ELSE IF r.series
          THEN IF ended.failures >= FailureBudget THEN [ended EXCEPT !.status = "failed"]
               ELSE IF goesOn THEN [next EXCEPT !.run = n]
               ELSE [ended EXCEPT !.status = "done"]
     ELSE IF ~success THEN [ended EXCEPT !.status = "failed"]
     ELSE [ended EXCEPT !.status = IF written THEN "delivering" ELSE "done"]

\* Outcome, message and next occurrence in one transaction.
FinishFire(j, success, goesOn) ==
  LET r == job[j]
      m == <<j, r.run, "result">>
      message == success /\ ~r.cancel
  IN /\ task[j].at = "firing"
     /\ r.status = "running" /\ r.owner = "me"
     /\ GoOn(j, goesOn)
     /\ job' = [job EXCEPT ![j] = Fired(r, success, message /\ mail[m].state = "none", goesOn, top[j] + 1)]
     /\ IF message THEN Write(j, m) ELSE UNCHANGED <<mail, send>>
     /\ task' = [task EXCEPT ![j] = NoTask]
     /\ UNCHANGED <<poll, seen, left, arrived, asked, stopped>>

\* The exec task raises (the store refuses a statement): a claimed job stays
\* running, owned by this scheduler.
ExecDies(j) ==
  /\ task[j].at # "none"
  /\ Spend("fault")
  /\ task' = [task EXCEPT ![j] = NoTask]
  /\ UNCHANGED <<job, top, mail, send, poll, seen, arrived, asked, stopped>>

----------------------------------------------------------------------------
(* Sending.  A row is leased, sent, and its outcome recorded.              *)

\* The row a sender has just written, or any due one in the poll's drain.
MayClaim(s, m) ==
  \/ send[s] = Todo(m)
  \/ s = Poll /\ poll = "drain" /\ send[s].at = "idle"

ClaimDelivery(s, m) ==
  /\ MayClaim(s, m)
  /\ mail[m].state = "pending"
  /\ mail' = [mail EXCEPT ![m] = [state |-> "sending", tries |-> @.tries + 1, holder |-> "me"]]
  /\ send' = [send EXCEPT ![s] = [at |-> "claimed", row |-> m]]
  /\ UNCHANGED <<job, top, task, poll, seen, left, arrived, asked, stopped>>

\* Somebody else has the row, or it waits out a backoff.
SkipDelivery(s) ==
  /\ send[s].at = "todo"
  /\ mail[send[s].row].state = "pending" => mail[send[s].row].tries > 0
  /\ send' = [send EXCEPT ![s] = NoSend]
  /\ UNCHANGED <<job, top, mail, task, poll, seen, left, arrived, asked, stopped>>

\* The platform takes the message or refuses it.
PlatformTakes(s) ==
  /\ send[s].at = "claimed"
  /\ send' = [send EXCEPT ![s].at = "accepted"]
  /\ arrived' = [arrived EXCEPT ![send[s].row] = @ + 1]
  /\ UNCHANGED <<job, top, mail, task, poll, seen, left, asked, stopped>>

PlatformRefuses(s) ==
  /\ send[s].at = "claimed"
  /\ send' = [send EXCEPT ![s].at = "refused"]
  /\ UNCHANGED <<job, top, mail, task, poll, seen, left, arrived, asked, stopped>>

\* Mutant: the job ends with the message, whatever it is doing.
EndingAnyJob(j, status) == [job EXCEPT ![j].status = status]

\* A job that waits for its message ends with it.
Ending(j, status) ==
  IF job[j].status = "delivering" THEN [job EXCEPT ![j].status = status] ELSE job

\* The acknowledgement.  Only the message of a result ends a job as done; a
\* notice that is undeliverable ends it too.
FinishDelivery(s, terminal) ==
  LET m == send[s].row
      j == m[1]
      said(state) == mail' = [mail EXCEPT ![m].state = state, ![m].holder = "none"]
  IN /\ send[s].at \in {"accepted", "refused"}
     /\ terminal => send[s].at = "refused"
     /\ IF mail[m].state # "sending" THEN UNCHANGED <<job, mail>>
        ELSE IF send[s].at = "accepted"
        THEN said("delivered") /\ job' = IF m[3] = "result" THEN Ending(j, "done") ELSE job
        ELSE /\ mail[m].tries >= MaxTries => terminal
             /\ said(IF terminal THEN "undeliverable" ELSE "pending")
             /\ job' = IF terminal THEN Ending(j, "undeliverable") ELSE job
     /\ send' = [send EXCEPT ![s] = NoSend]
     /\ UNCHANGED <<top, task, poll, seen, left, arrived, asked, stopped>>

\* The outcome could not be recorded.  In the poll loop this ends the pass.
SendDies(s) ==
  /\ Live(s)
  /\ Spend("fault")
  /\ send' = [send EXCEPT ![s] = NoSend]
  /\ IF s = Poll THEN poll' = "recover" /\ seen' = [j \in Jobs |-> NotSeen]
                 ELSE UNCHANGED <<poll, seen>>
  /\ UNCHANGED <<job, top, mail, task, arrived, asked, stopped>>

----------------------------------------------------------------------------
(* The poll loop: recover, read the due jobs, serve each, drain the outbox. *)

\* Mutant: recovery counts on the lease alone.
OrphanedByLease(j) ==
  job[j].status = "running" /\ job[j].owner = (IF poll = "boot" THEN "dead" ELSE "lapsed")

Orphaned(j) ==
  /\ job[j].status = "running"
  /\ IF poll = "boot" THEN job[j].owner # "me"
     ELSE IF job[j].owner = "me" THEN ~InFlight(j) ELSE job[j].owner = "lapsed"

\* Mutant: the occurrence is read from a blank fire_due.
ReleaseToNoTime(j) ==
  /\ poll \in {"boot", "recover"} /\ Orphaned(j)
  /\ job' = [job EXCEPT ![j].status = "pending", ![j].owner = "none", ![j].run = 0]
  /\ UNCHANGED <<top, mail, task, send, poll, seen, left, arrived, asked, stopped>>

\* Mutant: the interrupted fire leaves nothing behind.
ReleaseAfresh(j) ==
  /\ poll \in {"boot", "recover"} /\ Orphaned(j)
  /\ job' = [job EXCEPT ![j].status = "pending", ![j].owner = "none", ![j].edit = NoEdit, ![j].cancel = FALSE]
  /\ UNCHANGED <<top, mail, task, send, poll, seen, left, arrived, asked, stopped>>

\* The fire produced nothing: the job is pending again at its occurrence.
\* What was recorded during the fire stays recorded.
ReleaseFire(j) ==
  /\ poll \in {"boot", "recover"} /\ Orphaned(j)
  /\ job' = [job EXCEPT ![j].status = "pending", ![j].owner = "none"]
  /\ UNCHANGED <<top, mail, task, send, poll, seen, left, arrived, asked, stopped>>

\* Mutant: a send past its lease is interrupted.
InterruptedByLease == {m \in Messages : mail[m].state = "sending" /\ mail[m].holder = "gone"}

Interrupted ==
  {m \in Messages : mail[m].state = "sending" /\ mail[m].holder = "gone"
                    /\ \A s \in Senders : Live(s) => send[s].row # m}

\* Mutant: an interrupted send is tried again.
RecoveredForRetry(S) ==
  /\ mail' = [m \in Messages |-> IF m \in S THEN [mail[m] EXCEPT !.state = "pending"] ELSE mail[m]]
  /\ UNCHANGED job

\* Mutant: the row is settled, its job is not.
RecoveredRowsOnly(S) ==
  /\ mail' = [m \in Messages |-> IF m \in S THEN [mail[m] EXCEPT !.state = "unknown", !.holder = "none"]
                                 ELSE mail[m]]
  /\ UNCHANGED job

\* The sends a dead sender left: their outcome is unknown for good.
Recovered(S) ==
  /\ mail' = [m \in Messages |-> IF m \in S THEN [mail[m] EXCEPT !.state = "unknown", !.holder = "none"]
                                 ELSE mail[m]]
  /\ job' = [j \in Jobs |-> IF job[j].status = "delivering" /\ \E m \in S : m[1] = j
                            THEN [job[j] EXCEPT !.status = "delivery_unknown"] ELSE job[j]]

\* Mutant: deliveries are recovered at a start only.
RecoverAtStartOnly ==
  /\ poll \in {"boot", "recover"}
  /\ \A j \in Jobs : ~Orphaned(j)
  /\ IF poll = "boot" THEN Recovered(Interrupted) ELSE UNCHANGED <<job, mail>>
  /\ poll' = IF poll = "boot" THEN "recover" ELSE "read"
  /\ UNCHANGED <<top, task, send, seen, left, arrived, asked, stopped>>

RecoverDeliveries ==
  /\ poll \in {"boot", "recover"}
  /\ \A j \in Jobs : ~Orphaned(j)
  /\ Recovered(Interrupted)
  /\ poll' = IF poll = "boot" THEN "recover" ELSE "read"
  /\ UNCHANGED <<top, task, send, seen, left, arrived, asked, stopped>>

DueJobs ==
  /\ poll = "read" /\ poll' = "serve"
  /\ seen' = [j \in Jobs |->
       IF job[j].status = "pending" /\ job[j].phase # "ahead"
       THEN [on |-> TRUE, run |-> job[j].run, version |-> job[j].version, late |-> job[j].phase = "late"]
       ELSE NotSeen]
  /\ UNCHANGED <<job, top, mail, task, send, left, arrived, asked, stopped>>

\* The pass comes to a job it has read, some awaits later.
Serves(j) == poll = "serve" /\ seen[j].on /\ send[Poll].at = "idle"

Served(j) == seen' = [seen EXCEPT ![j] = NotSeen]

\* It is in flight, or a task that waits for the database.
ServeSkip(j) ==
  /\ Serves(j)
  /\ InFlight(j) \/ ~seen[j].late
  /\ Served(j)
  /\ UNCHANGED <<job, top, mail, task, send, poll, left, arrived, asked, stopped>>

ServeStart(j) ==
  /\ Serves(j) /\ ~InFlight(j) /\ ~seen[j].late
  /\ task' = [task EXCEPT ![j] = [at |-> "queued", version |-> seen[j].version]]
  /\ Served(j)
  /\ UNCHANGED <<job, top, mail, send, poll, left, arrived, asked, stopped>>

\* mark_missed compares the status and next_run; the notice goes out at once.
ServeMissed(j, goesOn) ==
  LET m == <<j, job[j].run, "missed">>
      same == job[j].status = "pending" /\ job[j].run = seen[j].run
  IN /\ Serves(j) /\ ~InFlight(j) /\ seen[j].late
     /\ goesOn => same
     /\ IF same
        THEN /\ Write(Poll, m)
             /\ job' = [job EXCEPT ![j] = IF goesOn THEN [job[j] EXCEPT !.run = top[j] + 1, !.phase = "ahead"]
                                                    ELSE [job[j] EXCEPT !.status = "missed"]]
        ELSE UNCHANGED <<mail, send, job>>
     /\ GoOn(j, goesOn)
     /\ Served(j)
     /\ UNCHANGED <<task, poll, left, arrived, asked, stopped>>

ServeEnd ==
  /\ poll = "serve" /\ poll' = "drain"
  /\ send[Poll].at = "idle" /\ \A j \in Jobs : ~seen[j].on
  /\ UNCHANGED <<job, top, mail, task, send, seen, left, arrived, asked, stopped>>

\* Nothing is due: what is pending has been tried and waits out a backoff.
DrainEnd ==
  /\ poll = "drain" /\ poll' = "recover"
  /\ send[Poll].at = "idle"
  /\ \A m \in Messages : mail[m].state = "pending" => mail[m].tries > 0
  /\ UNCHANGED <<job, top, mail, task, send, seen, left, arrived, asked, stopped>>

\* A step of the pass, or of the recovery at start, raises: the loop goes on
\* with the next pass.
PassFails ==
  /\ poll \in {"boot", "read", "serve", "drain"} /\ ~Live(Poll)
  /\ Spend("fault")
  /\ poll' = "recover"
  /\ send' = [send EXCEPT ![Poll] = NoSend]
  /\ seen' = [j \in Jobs |-> NotSeen]
  /\ UNCHANGED <<job, top, mail, task, arrived, asked, stopped>>

\* The process dies (or stops, and cancels what is still running).
Crash ==
  /\ poll # "down" /\ poll' = "down"
  /\ Spend("fault")
  /\ task' = [j \in Jobs |-> NoTask]
  /\ send' = [s \in Senders |-> NoSend]
  /\ seen' = [j \in Jobs |-> NotSeen]
  /\ job' = [j \in Jobs |-> IF job[j].owner = "me" THEN [job[j] EXCEPT !.owner = "dead"] ELSE job[j]]
  /\ mail' = [m \in Messages |-> IF mail[m].holder = "me" THEN [mail[m] EXCEPT !.holder = "gone"] ELSE mail[m]]
  /\ UNCHANGED <<top, arrived, asked, stopped>>

Start ==
  /\ poll = "down" /\ poll' = "boot"
  /\ UNCHANGED <<job, top, mail, task, send, seen, left, arrived, asked, stopped>>

----------------------------------------------------------------------------

Init ==
  /\ \E series \in [Jobs -> BOOLEAN] :
       job = [j \in Jobs |-> [status |-> "pending", series |-> series[j], run |-> 1, phase |-> "ahead",
                              version |-> 1, owner |-> "none", edit |-> NoEdit, cancel |-> FALSE,
                              failures |-> 0]]
  /\ top = [j \in Jobs |-> 1]
  /\ mail = [m \in Messages |-> [state |-> "none", tries |-> 0, holder |-> "none"]]
  /\ task = [j \in Jobs |-> NoTask]
  /\ send = [s \in Senders |-> NoSend]
  /\ poll = "recover"
  /\ seen = [j \in Jobs |-> NotSeen]
  /\ left = Budget
  /\ arrived = [m \in Messages |-> 0]
  /\ asked = {} /\ stopped = {}

UserActs(j) ==
  \/ \E series \in BOOLEAN : UpdateTiming(j, series) \/ RestoreJob(j, series)
  \/ UpdatePrompt(j) \/ Cancel(j)

TimePasses ==
  \/ \E j \in Jobs : BecomeDue(j) \/ BecomeLate(j) \/ FireLeaseLapses(j)
  \/ \E m \in Messages : SendLeaseLapses(m)

Fire(j) == ClaimJob(j) \/ \E success, goesOn \in BOOLEAN : FinishFire(j, success, goesOn)

Answer(s) == PlatformTakes(s) \/ PlatformRefuses(s)

Acknowledge(s) == \E terminal \in BOOLEAN : FinishDelivery(s, terminal)

Sending(s) == (\E m \in Messages : ClaimDelivery(s, m)) \/ SkipDelivery(s) \/ Answer(s) \/ Acknowledge(s)

Serve(j) == ServeSkip(j) \/ ServeStart(j) \/ \E goesOn \in BOOLEAN : ServeMissed(j, goesOn)

Pass ==
  \/ \E j \in Jobs : ReleaseFire(j) \/ Serve(j)
  \/ RecoverDeliveries \/ DueJobs \/ ServeEnd \/ DrainEnd

Fails == PassFails \/ Crash \/ (\E j \in Jobs : ExecDies(j)) \/ \E s \in Senders : SendDies(s)

Next ==
  \/ \E j \in Jobs : UserActs(j) \/ Fire(j)
  \/ TimePasses
  \/ \E s \in Senders : Sending(s)
  \/ Pass \/ Start
  \/ Fails

Spec == Init /\ [][Next]_vars

\* Time passes and the loop goes on; a fire has a time budget, and every send
\* an answer.  A message that is retried is due again after its backoff, so
\* the drain of some later pass takes it, or another one that is due.
Fairness ==
  /\ WF_vars(Pass) /\ WF_vars(Start)
  /\ \A j \in Jobs : WF_vars(Fire(j)) /\ WF_vars(BecomeLate(j)) /\ WF_vars(FireLeaseLapses(j))
  /\ \A m \in Messages : WF_vars(SendLeaseLapses(m))
  /\ SF_vars(\E m \in Messages : ClaimDelivery(Poll, m))
  /\ \A s \in Senders : WF_vars(Sending(s))

FairSpec == Spec /\ Fairness

----------------------------------------------------------------------------
(* Properties.                                                             *)

TypeOK ==
  /\ job \in [Jobs -> JobType]
  /\ top \in [Jobs -> Runs]
  /\ mail \in [Messages -> MailType]
  /\ task \in [Jobs -> TaskType]
  /\ send \in [Senders -> SendType]
  /\ poll \in {"down", "boot", "recover", "read", "serve", "drain"}
  /\ seen \in [Jobs -> SeenType]
  /\ left \in [Chances -> Nat]
  /\ arrived \in [Messages -> Nat]
  /\ asked \subseteq Jobs /\ stopped \subseteq Messages

\* The row of a send in progress stays its own until the send is recorded:
\* recovery never calls it interrupted, however long the send takes, and no
\* other sender takes it (audit AUD-017).
LiveSendKept ==
  /\ \A s \in Senders : Live(s) => mail[send[s].row].state = "sending"
  /\ \A s, t \in Senders : Live(s) /\ Live(t) /\ s # t => send[s].row # send[t].row

\* A job that waits for its message has one that is still to be sent, so the
\* outbox will end it.
DeliveringIsOpen ==
  \A j \in Jobs : job[j].status = "delivering" => \E n \in Runs : Open(<<j, n, "result">>)

\* A finished job changes its status only by "run again".
TerminalIsFinal ==
  [][\A j \in Jobs : job[j].status \in Terminal /\ job'[j].status # job[j].status
                      => job'[j].status = "pending" /\ job'[j].version > job[j].version]_vars

\* Once a cancellation is recorded -- even during a fire that is then
\* interrupted and fired again -- no result of the job is written to the
\* outbox before the user restores it.
CancelledIsSilent ==
  [][\A j \in Jobs : \A n \in Runs :
       j \in asked => mail'[<<j, n, "result">>].state # "pending"
                      \/ mail[<<j, n, "result">>].state # "none"]_vars

Fate(state) == IF state \in {"pending", "sending"} THEN "open" ELSE state

Honest == INSTANCE HonestDelivery
  WITH fate <- [m \in Messages |-> Fate(mail[m].state)]

\* The outbox keeps its promise for every message, over retries, recovery and
\* restarts: a message arrives once at most, and what its row ends as is true.
HonestOutbox == Honest!Spec

Serving(j, n) ==
  /\ job[j].run = n
  /\ \/ job[j].status = "pending" /\ job[j].phase # "ahead"
     \/ job[j].status = "running"

\* Every due occurrence ends: its fire is finished, it is missed, moved or
\* cancelled, whatever tasks and processes die meanwhile.
OccurrenceEnds == \A j \in Jobs : \A n \in Runs : Serving(j, n) ~> ~Serving(j, n)

\* Every message gets its outcome.
MessageEnds == \A m \in Messages : Open(m) ~> ~Open(m)

\* "cancelling stops the message" (store.py, cancel)
CancelStopsMessage ==
  [][\A m \in stopped : mail[m].state = "pending" => mail'[m].state # "sending"]_vars
=============================================================================
