# Kazma in TLA+

Kazma is an assistant that runs on its owner's machine: a chat server, a
LangGraph supervisor that calls tools, a memory kept by background tasks,
reminders and scheduled tasks, a swarm of worker agents, and adapters to
Telegram, Discord and Slack. Most of it is text and input/output. Some of it is
protocol: rows in SQLite that several callers move at once, leases, retries,
recovery after a crash, a human answer that must be used once. These modules
model that part.

Contents: [inventory](#inventory) · [plan](#plan) · [modules](#modules) ·
[runs](#runs) · [bounds](#bounds) · [fairness](#fairness) ·
[proofs](#proofs) · [what the runs found](#what-the-runs-found) ·
[not modelled](#not-modelled)

Paths below are relative to `src/`; `core/` is `kazma-core/kazma_core/`, `ui/` is
`kazma-ui/kazma_ui/`.

## Inventory

| Component | State | Operations | Hard behaviours | What makes it correct |
|---|---|---|---|---|
| Approval gate registry: `core/safety/hitl_gates.py`, `ui/hitl_gate_bridge.py`, `ui/hitl_decision.py` | table `hitl_gates`: state, decision, alias, arguments | register, claim, supersede twins, mark resuming, settle, time out, boot sweep, prune | three kinds of callers answer one gate; a call is several transactions; one pause has two ids; crash between claim and resume | one live row per pause, one answer per row, the winner owns the row it resumes, finished rows stay finished |
| Memory task queue: `core/memory/task_queue.py` | table `memory_task_queue`; per worker: slots, leases on record, batch | enqueue, claim, dispatch, renew, acknowledge, retry, purge, start, stop | two processes poll one table; handlers outlive leases; a suspended laptop; an outage | one owner per task, bounded runs, every memory write resolved, dead letters kept |
| Scheduled jobs: `core/cron/store.py`, `core/cron/scheduler.py` | tables `cron_jobs`, `cron_deliveries`, `cron_alerts`; in memory: fires in flight, sends in progress | book, edit, cancel, restore, claim, finish, release, mark missed, claim and finish a delivery, recover | a pass serves what it read earlier; sends outlive leases; crash between send and record; edit and cancel during a fire | a message arrives once at most and its row tells the truth; every occurrence and every message ends; cancelled means silent |
| Approval surfaces: `ui/routes_direct/misc.py`, `ui/hitl_timeout.py`, `ui/turn_runtime.py`, `ui/turn_resume.py` | pending interrupts, active turns | approve, auto-deny, close a turn, resume after a restart | a click races the watchdog; registry and checkpoint disagree after a crash | a paused call runs only if approved; every pause is answered, denied or closed |
| Supervisor graph, tool worker: `core/agent/graph_supervisor.py`, `graph_tool_worker.py` | LangGraph checkpoint | plan, pause, run tools, respond | a node starts again from its first line when resumed | approved calls, and no others, run |
| Effect journal: `core/agent/effect_journal.py` | table of receipts: started, completed | begin, finish, replay | crash between begin and finish | an effect is not run twice; an unknown one is not run again |
| Document jobs: `core/documents/jobs.py`, `worker.py`, `ingestion.py` | job rows with state, version, attempt, lease; per process: the uploads and the stage in hand | publish, advance the intake, claim, renew, run a stage, retry, cancel, release, recover | every write compares a version read earlier; a cancel falls between read and write; two starts recover one upload; stops give attempts back | only listed transitions; cancelled is never ready; ready skipped nothing; attempts bounded; what a worker can see ends |
| Document intake reservations: `core/documents/admission.py`, `ingestion.py`, `repository.py` | reservation rows with owner, heartbeat and fence; documents and versions with the token of their upload | reserve, mark publishing, write rows, publish, roll back, renew, take over, sweep fenced rows | the dead and the slow look alike from another host; a slow owner writes after its takeover; shared versions; the queue at its limit | a published job is whole; who was taken over publishes nothing; the capacity holds; no litter, no reservation for ever |
| Swarm bus and shared approvals: `core/swarm/bus.py`, `shared_approvals.py`, `safety.py` | one request shown on several platforms, one deadline | ask, answer, time out | two platforms answer; a late answer meets the deadline | decided once, told to everybody |
| Swarm engine and reliability: `core/swarm/engine.py`, `durable.py`, `reliability.py` | task store, pipeline checkpoints, circuit breaker | dispatch, checkpoint, resume, retry, fall back | resume after a crash; half-open breaker with several callers | no step lost or repeated |
| Belief mutation: `core/memory/belief_mutation.py` | bi-temporal rows | assert, retract, supersede | writes out of order | one belief valid at a time |
| Commitment layer, grants: `core/safety/commitment/`, `hitl_grants.py`, `yolo.py` | approvals with a TTL | propose, approve, expire | expiry between check and use | an expired grant answers nothing |
| Run supervisor, incidents: `core/runs/` | run records, incidents | judge, open, send, close | a restart between sending and recording | an incident is sent once |
| Turn journal and delivery: `ui/delivery.py`, `ui/sse_chat/_streaming.py`, `ui/routes/ws_chat.py`; in the page `static/js/chat.js`, `stores/agentStore.js`, `modules/delivery_cursor.js` | journal of numbered frames per thread; queues and sockets that watch it; the page's three cursors, its flags and timers | journal, fan out, attach, resume a socket, resync, reconcile, drop a thread | a stream that joins while frames come; the numbering starts again and every cursor is ahead of it; streams, sockets and requests fail; two sources for one answer | no frame lost or repeated between replay and tail; a dead cursor stays dead; a hole is noticed |

Providers, routing, settings, parsing and rendering of documents, adapters, MCP
clients, backup, panels, TUI, CLI and skills have no protocol of their own;
`PROJECT.json` lists each with the reason it is left out.

How they interact. The tool worker pauses a turn by a LangGraph interrupt; the
bridge registers a gate for it; the approve endpoint, a chat button or the
watchdog records a decision in the registry and resumes the graph, which runs the
node again and writes receipts to the effect journal. A swarm worker asks through
the bus, which registers a row in the same table. Turns and document jobs put
tasks in the memory queue. A scheduled job starts a turn of its own and hands its
text to the delivery outbox. All of them share SQLite (or Postgres), one
transaction at a time, and one event loop per process; they meet at rows and at
`await`s. That is why an action in these modules is one transaction or the
stretch between two awaits.

## Plan

Done, most important behaviour first:

1. `HitlGates`: the registry alone, with all its callers; proved.
2. `MemoryQueue`: leases, suspension, bounded retries; proved.
3. `CronFires` over `HonestDelivery`: fires and their outbox, a refinement, proved.
4. `ApprovedCalls` over `ApprovedOnce`: card, checkpoint, resume and effect
   journal, with crashes between them; a refinement, proved. The registry is
   there as the one-answer-per-row table that `HitlGates` shows it to be.
5. `DocumentJobs`: the job store under its workers, uploads and recoveries; proved.
6. `DocumentIntake`: what comes before a job: reservation, rows, publication,
   takeover and rollback, over several processes and hosts; proved.
7. `TurnDelivery`: the frames of a turn on their way to the page, server and
   browser together; its streams, its cursors and the handshake of its socket
   proved.

Left, in this order:

8. `CronAlerts`: the alert outbox (a crash between raising and marking), which
   the incidents and the ops alerts repeat.
9. `SharedApprovals`: one swarm request on several platforms, one deadline.
10. `Beliefs`: belief mutation as an algorithm, compared with a reference
    definition over all orders of a few writes.

## Modules

| Module | What it is |
|---|---|
| `HitlGates` | the gate registry, one action per transaction |
| `HitlGates_proofs` | its theorems |
| `MemoryQueue` | the task queue and its workers |
| `MemoryQueue_proofs` | its theorems |
| `HonestDelivery` | abstract: what an outbox promises of each message |
| `CronFires` | scheduled jobs, the poll loop and the outbox |
| `CronFires_proofs` | its theorems, with the refinement of `HonestDelivery` |
| `ApprovedOnce` | abstract: what an approval card promises of the calls behind it |
| `ApprovedCalls` | one chat thread: cards, tasks that run the graph, receipts |
| `ApprovedCalls_proofs` | its theorems, with the refinement of `ApprovedOnce` |
| `DocumentJobs` | the job store, worker loops, uploads in their intake states |
| `DocumentJobs_proofs` | its theorems |
| `DocumentIntake` | reservations, the rows of an upload, publication, takeover |
| `DocumentIntake_proofs` | its theorems |
| `TurnDelivery` | the journal of a thread and the page that reads it |
| `TurnDelivery_proofs` | its theorems |
| `MCHitlGates`, `MCMemoryQueue`, `MCCronFires`, `MCApprovedCalls`, `MCDocumentJobs`, `MCDocumentIntake`, `MCTurnDelivery` | values of constants, symmetry, constraints for TLC |

Operators whose comment begins with "Mutant:" are altered forms of the operator
below them. Nothing uses them in the specification; each shows that one property
fails when the code is changed in that way (`mutants` in `PROJECT.json`).

### HitlGates

`gates` is the table; `proc` is each concurrent caller's place in the function it
is in, with what it has read (ids, the rows it is about to close). A question is
a thread, a tool and its arguments; `make_gate_id` hashes exactly these, so a hash
id is the question. Native ids (LangGraph), bus ids and retry ids each ask one
question (`HashOf`). `register_gate` is one transaction with four outcomes:
`Upgrade` (the provisional id takes the real one), `AlreadyLive`, `AdoptTwin`,
`Insert`. `record_gate_decision` is `DecideCard`/`DecideForThread`, `CreateMissing`,
`ClaimGate`, `ReadTwins`, `SupersedeTwin`, `LookAgain`, `MarkResuming`: seven steps
that anything may come between. `settle_gate` is three transactions
(`SettleGate`, one per `phase`), the TTL sweep is a read and a write
(`StartSweep`, `ExpireGate`). `Restart` is a crash with its boot sweep. The decision
on a row is the identity of the caller that gave it: two callers never agree, the
worst case. Where the code takes the newest of several rows (an `ORDER BY`), the
model takes any of them.

### MemoryQueue

`rows` is the table with time reduced to two facts (`due`, `stuck`); `handlers` are
handler calls in progress over all processes, `leases` is each worker's `_leases`,
`batch` what it claimed and has not yet dispatched, `mode` whether it polls, ends
or drains. `ClaimBatch` is the whole transaction: dead letters, claim, count.
`AckSuccess`, `AckFailure`, `AckOutage`, `AckLost` are the outcomes of `_ack`, which
matches the token; `DropLease` is the `finally` after it. `Suspend` makes every
lease overdue at once, with the handlers still running. A backoff (30 s or more)
outlasts the `finally` of the handler whose failure began it, unless the host
slept in between. That matters: `finally` drops whatever lease of the task is on
record, and dropping the lease of the next handler would leave it unrenewed.

### CronFires and HonestDelivery

`job` is `cron_jobs`; an occurrence is a number, `run`, with its time ahead, due or
past the catch-up window. `edit` and `cancel` are what was recorded during a fire.
`mail` is `cron_deliveries`, one row per fire key. `task`, `send`, `poll`, `seen` are
the scheduler's memory: the exec task of each job, the row each sender holds, where
the poll loop is, and the due jobs a pass has read and not yet served. `seen` is
why a pass can act on what is no longer so. `owner` and `holder` say whose lease it
is and whether it still counts: of this process, of a dead one, or lapsed.

`FinishFire` is one transaction (outcome, message, next occurrence); `Fired` is the
table of what a job becomes. The exec task sends its own message; the poll loop
drains the rest. `PlatformTakes` is when a message arrives, in a step of its own
before `FinishDelivery` records it, so a crash fits between. `ReleaseFire` and
`RecoverDeliveries` are what a pass and a start do for what a dead task or process
left. `PassFails`, `ExecDies`, `SendDies` are exceptions at each of the three
levels, and are survived by the process; `Crash` is not.

The table holds other jobs as well. They are not modelled, but they are why a pass
may be held up at any of its awaits and why an exec task may wait for the
semaphore; this is left open in the model.

`HonestDelivery` is the outbox seen from its user: a message is handed over,
arrives once at most, and is then settled by what is true of it. `CronFires`
implements it under `fate <- Fate(mail[m].state)`.

### ApprovedCalls and ApprovedOnce

One thread. The checkpoint is external (LangGraph) and modelled from its use:
`head` is the batch it stops at, `asked` the interrupts it has written, `kept` the
answer it holds for one. `verdict` is the decision a gate's row was claimed with,
`fate` what became of the row since, `row` the effect journal.
`drive` are the tasks that run the graph; one step of a task is what lies between
two awaits of the tool worker: enter the node, pause or serve the answer, then for
each call begin (the receipt), invoke, record. Every resume starts the node again
from its first line, so receipts stand between an answer and a tool.
`desk` is the approve route, `dog` the watchdog and `user` the handler of a new
message: each records an answer in one step and starts its task in a later one,
with what it has read in between. Stop takes four steps, each after an await of
`turn_abort.py`: cancel the turn (`Abort`; a tool that does not stop is left
running, and there need be no turn), mark the checkpoint (`MarkAbandoned`), read the
live gates, answered ones too (`ListLive`), and settle each (`SettleListed`). The
watchdog's orphan sweep is likewise `SweepOrphans`, `ListOrphans` and
`SettleListed`. Whatever was recorded between the reading and the settling is
written over. `Crash` loses every task and `Continue` is what a start does for a
turn cut half way.

`ApprovedOnce` has two variables, verdicts and how often each call ran. A verdict
is open, approved, refused, or an approval that was written over: withdrawn, which
stops no call that the approval let through. `ApprovedCalls` implements it with
every other outcome of a row seen as refused.

### DocumentJobs

`job` is `document_jobs`: state, stage to retry, version, attempt, cancellation,
lease. `hand` is the copy an upload or a recovery in progress works on, `work` what
a worker's loop has read and where it is (`Poll`, `EndStage`, `Write`, `Latest`,
`CancelClaimed`); everything between read and write may change the row, and the
write compares the version. `Lapse` is the clock against a lease, `Renewing` says
that its holder is alive and renews it. `StartStep` recovers at a start: leases of
the dead and uploads they left (`Rescue`). `StoreFault` and `IntakeFault` are a write
that raises in a process that lives on, `Stop` gives attempts back, `Crash` does
not. A job's process is known by a fresh uuid, so the leases of the dead belong
to `"gone"`.

### DocumentIntake

`res` is the table of reservations, `docs`, `vers` and `jobs` are the rows under the
ids a key fixes, each with the token of the upload that wrote it. `call` is where
an upload is: reserve, mark publishing, document, version, publish, finish, and
on an exception the rollback in four transactions (`Abandon`, `AbandonChecks`,
`AbandonDiscards`, `AbandonReleases`). `sweep` is a recovery, at a start or each
minute in a server: `Scan` reads the rows, `Take` claims one by what was read, the
next steps roll it back, and then `FencedScan`, `FencedChecks` and
`FencedDiscards` remove what a fenced owner wrote late. `Dead` is what a process can
know of another: on its own host all, of another host nothing, so there it
waits for the lease (`Lapse`) and compares the heartbeat. `Enqueue` is the
publication with its fence. `ForeignKey` tells SQLite (the job refers to its
rows) from Postgres (it does not). A server both uploads and sweeps, in one process
as `ingestion.py:293` starts it. `taken` is history: what recoveries did to each
upload. An upload at work that was taken over, and then taken back by a sweep of
its own process, is `Retaken`: the fence compares processes, so it stands open to
that upload again, with its rows rolled back. `PublishedIsWhole` and
`TakenOverIsFenced` hold of every other upload.

### TurnDelivery

One thread and one page that has sent one prompt. `journal`, `head` are the
`TurnJournal` of the thread (the retained kinds and the last number), `turn` and
`parked` what the server knows of the turn in memory. `sse` is the page's stream: `Send` posts,
`ServeAttach` is subscribe-then-read of `_sse_attach_stream` up to its first
yield, then `ReplayOne` and `TakeQueued` pass one frame each, with `Emit` able to fall
between any two; `HearGap` is the word of a gap on its way to the page. `Emit` is the
broker under the thread's lock: journal, queues (`Queued`, which drops when full),
sockets (`Sent`). `socket` is the WebSocket. Its handshake looks at the journal twice,
in a thread, for the frames (`ReadReplay`) and for the head (`ReadHead`), sends the head
and each frame in a send of its own (`SendReplayed`), and registers last (`Register`).
The journal may grow, be dropped or start again between any two. `wire` is what was
sent and not yet heard; each message is an event of its own in the page (`Hear`), and
what a dead server or a cut socket had sent may still come. `page` keeps the three
cursors (`seen`, `tracker`, `saved`) and the flags that say something is awaited.
`Resynced` is a resync that answers: resyncs are asked for by many timers and
events, run side by side and have no timeout, so an answer may come at any time
and bring any status the server has had since the page last opened a stream
(`said`), or, where the request failed, that of an idle server. `DropThread` and `Restart`
empty the journal, which then numbers from 1.

Frames are told apart by what they do to a page: `token`, `note` (a frame no replay
repeats), `pause`, `settled` (a decision), `end`, `error`, and `past`, the end of an
earlier turn. `end` stands for `done` and the `turn_complete` that follows it; on
either the page lets go of its stream, and what the body still brings is left out.
A frame a stream passes is heard in the same step, but for the word of a gap: the
page drops what an older stream had sent as soon as it opens a new one.
`Approve` joins what `approve` does without a wait on another party: the decision's
frame, the resumed task registered, then the thread unparked. `base`, `sent`, `missed`,
`told` and two fields of `socket` are history that the properties read.

## Runs

| Run | Checks | States |
|---|---|---|
| `HitlGates` | `TypeOK`, `OneRowPerPause`, `OneRowPerQuestion`, `WinnerOwnsRow`, `FinishedStaysFinished`, `DecisionKept` | 351 k |
| `MemoryQueue` | `TypeOK`, `OneOwner`, `CompletedIsFinal` | 1.06 M |
| `MemoryQueueLive` | `NoDoubleRun`, `RunsBounded`, `MemoryResolved` | 82 k |
| `ApprovedCalls` | `TypeOK`, `ResultIsTrue`, `KeepsPromise`, `CardsSettle` | 296 k |
| `ApprovedCallsDenied` | `DenialIsTrue`, violated | |
| `CronFires` | `TypeOK`, `LiveSendKept`, `DeliveringIsOpen`, `TerminalIsFinal`, `CancelledIsSilent`, `HonestOutbox`, `OccurrenceEnds`, `MessageEnds` | 80 k |
| `CronFiresCancel` | `CancelStopsMessage`, violated | |
| `DocumentJobs` | `TypeOK`, `AttemptsBounded`, `CancelledIsNotReady`, `ReadyMeansDone`, `MovesAllowed`, `HandedOverEnds`, `StrandedRecovered` | 204 k |
| `DocumentJobsCancel` | `CancelEnds`, violated | |
| `DocumentIntake` | `TypeOK`, `PublishedIsWhole`, `TakenOverIsFenced`, `CapacityKept`, `LitterRemoved`, `ReservationEnds` | 148 k |
| `DocumentIntakeShared` | `PublishedIsWhole`, violated | |
| `TurnDelivery` | `StreamIsWhole`, `CursorRevived`, `HoleNoticed` | 1.09 M |

`WinnerOwnsRow` supposes that no bus request's row has been adopted by a graph
pause as its own: when `register_gate` falls back to the arguments it may return
a bus row, and the pause then has no row of its own to own. `NoDoubleRun` is
checked without suspension, without `stop` and without the operator's retry: after
any of them a task may run twice at once by the code's own design, and `OneOwner`,
checked with all three, is what keeps that harmless.

`HandedOverEnds` speaks of the jobs the workers can see or hold; `CancelEnds`, the
same for every cancelled job, is false of the code. `PublishedIsWhole` and
`TakenOverIsFenced` except an upload that was retaken (above); the run reaches the
case, and the job that upload publishes has no rows. `LitterRemoved` excepts an
upload whose fence a later claim of a dead owner cleared, `ReservationEnds` a server
whose own rollback failed: the code keeps that reservation until its next start
and logs so.

`StreamIsWhole` supposes that the queue has not overflowed and that the journal was
not dropped since the attach; it says that each frame after the cursor is passed
on, still to come, or one that replays leave out, and that none is both passed
on and still to come. `CursorRevived` says that a page whose stream was told of a gap
does not ask past the head of that journal again, until a message of another
journal, still on its way on the socket, is heard: it may put a dead cursor back
(below). `HoleNoticed` is about the frames that fall between the head a handshake
names and the registration of the socket, and so reach it in no way: the next live
frame makes the page resync. It speaks of a handshake that found its cursor in the
journal; the three other cases are below.

What the page's own timer (the reconciler, `chat.js:974`) achieves is not stated: it
counts ticks whose requests may still be out and have no timeout, so what it
promises depends on how long requests take, which the code does not bound.

## Bounds

- `HitlGates`: one question, two native pauses, one bus request, one retry id, two
  callers, two rows at once. Rows of different questions do not meet in any query
  but the sweeps, which go row by row. Two callers suffice for every race of a
  claim; the hazards are pairs. Restarts and prunes are unbounded. The constraint
  `FewEnders` lets one caller at a time settle or sweep, and none beside another
  caller while the bus request's row is there: ending a row is a compare-and-set
  after a read, and two of them only repeat each other.
- `MemoryQueue`: one task (two in the live run, one of each lane), two workers, two
  slots a lane, two attempts (three in the live run), and a budget of faults (a
  crash, a stop, two suspensions, an outage, a retry; in the live run a crash and
  an outage). Two suspensions give three handlers of one task, each with a
  different token. `Tokens` bounds the tokens in use at once; claiming needs a
  free one, and there are enough for the runs.
- `CronFires`: one job, one-off or recurring, two occurrences (`MaxRuns`), two
  attempts per message, a failure budget of two, one act of the user (an edit, a
  touch, a cancellation or a restore) and one fault (a crash, or an error of a task
  or of a pass). Jobs share only the poll loop and the semaphore. Two occurrences
  suffice for what one occurrence's fire can do to the next one; two attempts for
  a retry and its last try. The constraint `TwoAtOnce` allows any two of a retry,
  a fault and an act of the user, not all three.
- `ApprovedCalls`: two batches of one call, the first asks, the second runs freely;
  two tasks at a time, one crash, one Stop at a time. A third task at a time only
  repeats the second: new tasks are the approve route's, the watchdog's and the message's, and any two
  of them may overlap. Stop, messages and tool timeouts are unbounded, except that
  no new message comes once the last batch is out (`NoMessageAfterLast`), and one that
  was being handled then meets no click, watchdog or restart (`LastMessageAlone`):
  both happen at the batch before. Of clicks, watchdog, message and Stop two are at
  work at a time (`TwoHandlers`): every overlap of Stop or the orphan sweep with an
  answer is a pair. Stop is not at work after the crash (`StopBeforeCrash`).
- `DocumentJobs`: one job (jobs meet only in the order of claims), two processes with
  one worker loop each (the code starts two loops in a process; two loops differ
  from two processes only in that they die together), two attempts, one
  cancellation and any two faults.
- `DocumentIntake`: two uploads under different keys, one by an import process and
  one by a server on another host that also sweeps (`EachItsOwn`), the importer's
  first (`InOrder`; with room for one job the second waits for the first in any
  case), no foreign keys, one crash, one error, one lapse of a lease that is renewed.
  `TwoAtOnce` allows any two of the three; a crash and a lapse make an upload retaken.
  Two servers that sweep are left to the proofs. The
  shared-version run has two uploads of one content to one document.
- `TurnDelivery`: a journal of two frames and a queue of one, so that both overflow
  with the third frame; one re-attach (`MaxReopens`); three frames before a turn may
  only pause or end (`MaxFrames`); two faults of any
  kind, where a pause and the opening of a socket count as one each; a journal that is
  empty or holds an earlier turn (`PastTurn`), and a browser that has no saved cursor,
  one (1) inside that journal or one (3) ahead of it; with the cursor the journal is not empty at
  first (`CursorOfAJournal`), as a restart or a drop soon makes it so. Two faults make
  every pair: a restart or a dropped journal under a handshake, a lost stream in a
  pause. The delays of resyncs are not bounded. One page suffices, as pages
  do not write the journal. The proofs do without these bounds.
- Deadlock is checked for `HitlGates` only. With the budgets spent and everything
  done the other models stop.

## Fairness

`MemoryQueue`: the poll loop, the dispatch, the end of a stopping poll, the start
of a worker and the clock go on. Handlers of the memory lane end, because their
model calls have timeouts; handlers of the maintenance lane may hang for ever, as
a `pg_dump` may. Nobody has to enqueue, retry, delete, stop or crash.

`CronFires`: the loop goes on after a pass that failed (`_loop` catches every
exception) and a dead process is started again; a fire ends (a task fire has
`task_budget_seconds`), and so does a send (`send_message` has timeouts); leases
and catch-up windows run out. Strong fairness is assumed of one action, the
claim of some due message by the drain: it is disabled during a backoff and while
the poll does other work, and infinitely often enabled after. Which message is
left open; attempts are bounded, so none is passed over for ever. Nothing is assumed of the user, of crashes or of the platform's answer:
it may refuse every message.

`ApprovedCalls`: the event loop runs every task and every tool call has a time
limit, so a task goes on (`Step`); a recorded answer has its task started (no await
that waits on anybody lies between), and the watchdog ticks. Nothing is assumed of
clicks, messages, Stop or a restart after a crash.

`DocumentJobs`: starts, worker loops and uploads go on: a process manager restarts
the processes, every stage's handler ends (parsers run under a timeout), and an
upload's steps wait on nobody. A lease that nobody renews lapses and a retry's time
comes. A lease that is renewed need not lapse, and a cancellation need not come.

`DocumentIntake`: uploads go on, a server sweeps each minute and is started again,
and a lease that nobody renews lapses. Import processes need not come back. One
server sweeps in the run: a claim renews no heartbeat, so two servers that sweep in
turn may take one lapsed reservation from each other, each before the other has
rolled it back, for as long as they happen to meet.

`TurnDelivery` and `HitlGates` state none: their properties are safety properties.

## Proofs

All proofs hold for any values of the constants under the assumptions named in
the modules (`QueueAssumption`: limits are positive and `None` is no token; `IdsAssumption`: the sorts of ids are disjoint and each id asks a
question; `CronAssumption`: the poll loop is no job, limits are positive;
`CallAssumption`: a batch's gated calls come last; `JobsAssumption` and
`IntakeAssumption`: names are distinct, limits are numbers, sets of uploads and keys
are finite). TLC evaluates them in the runs.

`HitlGates_proofs`. `OneRowPerPause` is not inductive. `RegistryInv` adds what makes
it so: callers create rows only under native or hash ids (`CreatesKnownIds`); an
unanswered row has no decision (`UndecidedUntilClaimed`); a live graph row is
known by its own id and its question's hash and by nothing else (`GraphAlias`);
and a row with arguments is always found by that hash (`ArgsNamed`). Without the
last one, a registration might miss a live row and insert a second. The argument:
every step changes a row in one of a few shapes (`StepShape`, `RowMoves`); the only
shape that adds a name is a registration, and it adds one only after the lookup
by that name found nothing. `WinnerInv` adds the callers' places: rows other than
bus requests are named by hashes only (`AliasSorts`), so a native id leads to its
own row or to an adopted bus row; a caller with a native card claims there (`Aimed`)
and its answer stays there until the row is finished (`Winner`). Theorems:
`RegistrySafe`, `GatesTypeOK`, `OnePausePerRow`, `OneQuestionPerRow`,
`FinishedForGood`, `AnswersKept`, `WinnersOwnTheirRow`.

`MemoryQueue_proofs`. `Unique` says that a token is handed out once: no two handlers
of a task hold one, and none holds the token of a batch not yet dispatched; so the
row's token picks one handler (`OneCanAcknowledge`). `CompletedForGood` adds that a
completed row carries no token (`Tokenless`) and that `None` is none. For
`RunsAreBounded`, `Bounds` counts the runs of a task together with the batches that
will run it once dispatched, even if their lease is lost by then, and bounds the
sum by the attempts on its row: every claim but the first counts one. `runs`, as
in the property, is net of outages, which cost no attempt. For
`RunsAlone`, `Single` says of each task that at most one batch or handler has it,
and that its row is then fresh under that token, with the lease on record, or
out of every claim's reach with the handler about to end.
`RunsAreBounded` supposes no operator retry, and allows suspensions and stops;
`RunsAlone` supposes none of the three.

`CronFires_proofs`. `IInv` is `TypeOK`, `OutboxInv` and `FiresFirst`. `OutboxInv` ties a
send in progress to its row (in `sending`, and nobody else's) and the row to the
platform (a copy has arrived exactly when the platform has said so); `TypeOK` itself
needs it, since a sender's row is a message only while it sends. `FiresFirst`: an
exec task produces before it sends, so finishing a fire never overwrites a
send. Each kind of step is shown to keep `OutboxInv` and, at once, to move every
row as `Moves` allows; `Moves` is a step of `HonestDelivery` or a stutter for every
message, hence the refinement. `DeliveringIsOpen` is inductive given `IInv`: a step
that closes a message ends the job that waits for it (`Ending`, `Recovered`), and a
job comes to wait only for the message its fire has just written. For
`CancelledIsSilent` the invariant is `AskedInv`: a cancelled job has ended, or it is
running, or released by a recovery, and its row still holds the cancellation, which
the end of the next fire honours and nothing else clears. `TerminalIsFinal` needs only the types:
every action that sets a status asks for one that is not terminal. `FireKept` says
that a task in its fire holds the job (running, owned by this scheduler), so
`finish_fire`'s check of the two never refuses it: a released job is fired again,
but never beside a live fire. It needs the types and that recovery asks for what is
in flight. `CancelStopsMessage` is violated, and `PromptCancel` says by what alone: it
holds of every behaviour in which no job is cancelled while a send of its message is in
progress, since a row once cancelled is never taken up again (`CancelledStays`).
Theorems: `TypeCorrect`, `LiveSends`, `NothingWaitsForNothing`, `Finality`, `Silence`,
`LiveFires`, `PromptCancel`, `Honesty` (`Spec => Honest!Spec`).

`ApprovedCalls_proofs`. `Inv` says of each task: an answer that approves is backed by
the verdict its gate was claimed with (`Backed`); past the interrupt it serves the answer of the
batch it is in (`Working`); between receipt and result it holds a started receipt
of a call that is allowed, and the tool has run exactly when the task says so
(`Holds`); what it is about to tell is on record (`Honest`). No two tasks hold one
receipt (`Alone`), and answers kept in the checkpoint or on the desk are backed too.
A row whose decision was written over is one that was answered, so a withdrawn
approval never opens again, and whatever Stop and the orphan sweep settle late, a
call runs only under an approval that was once given.
Without `Alone` a second task might invoke between the first one's receipt and its
call; without the backing of `kept` a crash would let an approval come from
nowhere. Each step then is a step of `ApprovedOnce` or a stutter. `DenialIsTrue` is
violated, and `RecordedDenials` says by what alone: it holds of every behaviour
without `Supersede`, the denial that a new message gives without a record. `DInv`
adds to `Inv` that whatever denies (a task's answer, the checkpoint's, the one on the
desk) is on record as a denial, that past the interrupt of a batch that asks
the task has an answer, and that a gated call ran only under a recorded approval;
as a batch has one verdict, a call that was denied never ran. Theorems:
`TypeCorrect`, `ResultsAreTrue`, `PromiseKept` (`Spec => Promise!Spec`), `RecordedDenials`.

`TurnDelivery_proofs`. `TInv` adds to the types that a journal which is not empty ends
at `head` (`Retains`), without which a replay would read outside it. None of the three
properties is inductive. For `Revived`, `RInv` has two parts. `CursorsWithin`: once
told, all three cursors lie within the head (`Within`), an open stream reads this
journal, not a dead one, and what it has still to pass lies within the head too.
`ChannelWithin`: every message on the socket's way is of this journal and within
its head, or of an earlier one (`Coherent`), and so are the frames a handshake has
still to send; hearing one of an earlier journal is what ends the promise. For
`StreamWhole`, `Whole` counts: while the supposition holds, what the stream has still
to pass is a run of numbers without a hole, up to the head and
in order, so the number reached (`Done`) is the head less the frames that wait in
queue and replay. Everything up to it was passed on or left out. This is
where subscribing before the replay is used: a frame journaled during the replay
is in the queue, and by its number is known as new. For `HolesNoticed`, `HInv` follows a
handshake through its three parts: until the head is on its way the page's tracker is
empty (`Reading`); the word of the head comes before every frame, so the tracker is
seeded when a live frame is heard (`Seeded`); and each frame that was missed is
beyond the tracker and the replayed frames, and before every live one (`Beyond`), so
the first live frame leaves a hole. `StreamInOrder` covers
what `StreamIsWhole` leaves open: even after an overflow, or after a journal that was
dropped under an open stream begins to number anew, each frame passed on is beyond all
earlier ones. `Ordered` is why: what is to be replayed is in order and beyond
`last`, and the queue, whose order no longer matters, is measured against `last` alone.
Theorems: `TypeCorrect`, `Revived`, `StreamWhole`, `StreamInOrder`, `HolesNoticed`.

`DocumentJobs_proofs`. `Inv` ties a row's place in the pipeline to the stages done
(`Before`), a worker between its read and its write to the version it read, at
which no cancellation was known (`Works`), and claims to attempts and claims given
back (`Counts`). `Good` says what one write may do to one row: keep the row's
invariant, only grow the version, make a listed move; one lemma per kind of write.
The row's invariant also says where a job can be found: every stage past the intake
is leased, every waiting retry has a due time, an intake in progress was never
claimed, and a cancelled job without a lease has no attempt on record. Hence
`NoOrphans`, the safety half of `HandedOverEnds`, and `WorkersHonourCancels`, which
confines the violation of `CancelEnds` to cancellations during the intake.
Theorems: `TypeCorrect`, `AttemptsAreBounded`, `CancelledStaysUnready`,
`ReadyIsEarned`, `MovesAreAllowed`, `NoOrphans`, `WorkersHonourCancels`.

`DocumentIntake_proofs`. Only four kinds of step (reserve, publish, take over,
crash) do more to reservations and calls than move them on (`Ordinary`).
`CapacityIsKept` is a count over two finite sets: a publication moves one from the
first to the second. `FencedOut` supposes nothing of who uploads and who sweeps; its
one exception is in the property (`Retaken`). `Fences` says of an upload that was taken
over, and not retaken, that it has not published and that while it is at work the
fence is shut: the owner of its reservation is not its process, or the reservation
is closed; and that a recovery has in hand only what was taken over. A takeover by the
upload's own process is the only step that could open the fence again, and it sets
the mark. `JobsAreWhole` adds that uploads have keys of their own
(`OwnIds`; `DocumentIntakeShared` shows what happens otherwise): `Wholes` says that an
upload about to publish and not taken over still has its rows, and one that has
published is past its own rollback; rows go only from under uploads that have not
published, or were retaken. `NothingForgotten` is the safety half of
`LitterRemoved`: rows that an upload wrote and did not publish keep the mark a scan
goes by (`LitterFound`), a held reservation or the fence. The danger is a takeover
that sets no fence and goes by a row scanned earlier. `Founds` says when that is
safe: such a takeover knows the upload to be over (`IntakeFound` has an upload at
work owned by its own process, unless it is in `Doubt`), and the row it read is
still true of what the upload left (`Settled`). This needs that the only dead owner
a process can tell is its own earlier life (`Apart`: a host for every process). With
two processes on a host it is false: an owner may mark its ids after the scan and
die before the takeover, which then removes nothing and releases the reservation. Uploaders
may sweep here; the escape "lost" is that of `LitterRemoved`. Theorems: `TypeCorrect`,
`CapacityIsKept`, `FencedOut`, `JobsAreWhole`, `NothingForgotten`.

Every safety invariant and action property that a passing run checks is also
proved. Model-checked only is liveness (`MemoryResolved`, `CardsSettle`,
`OccurrenceEnds`, `MessageEnds`, `HandedOverEnds`, `StrandedRecovered`, `LitterRemoved`,
`ReservationEnds`), which is out of the prover's reach, as are `ENABLED` and
recursive definitions; no module has the latter.

## What the runs found

Each of the runs marked violated shows a behaviour of the code that a line of the
repository denies; `findings` in `PROJECT.json` quotes the line.

- `DenialIsTrue`: a new message takes an approval that was just recorded for a
  leftover interrupt and denies it beside the running tool; the conversation then
  says that the operation was not executed. It is the only way (`RecordedDenials`).
- `CancelStopsMessage`: cancelling a job whose message is being sent does not stop
  the retry of that message. A message that is not being sent at that moment is
  stopped for good (`PromptCancel`).
- `CancelEnds`: a cancellation that comes while an upload validates its job makes
  the upload's write conflict, and leaves the job in `validating` for ever, where
  neither workers nor recovery look. A start that lists the job before the
  cancellation and takes it up after it moves it on to `ready_to_parse` with the
  cancellation set, where `claim_next` does not look either (`Overlooked`). A job
  that a worker has taken up is ended (`WorkersHonourCancels`).
- `PublishedIsWhole` with a shared version: two uploads of one content share the
  version the first wrote; its rollback deletes it under the job of the second.

Seen while modelling, with no run of its own:

- Claiming a graph gate closes a bus request for the same call as its ghost; the
  comment there says a bus request is never one.
- The page's reconciler counts ticks, not answers: with slow requests, two ticks may
  go by on what one old answer left, and it stops with the answer still in the
  store, although its comments (`chat.js:990`, `chat.js:1027`) have it stop only on the
  server's word and say that it cannot stop early.
- A page that was told of a gap moves all its cursors, but a message the socket
  still brings from the dead journal (a replayed frame, or the head of an older
  handshake) puts a dead one back; the next attach is told of the gap again.
- Frames that fall into a socket's handshake: `TurnBroker.resume` looks at the frames
  and at the head separately, and one journaled in between counts as read and is
  lost to that socket in silence. So is one that falls between the answer and the
  registration where the socket had no cursor, or was told of a gap in an
  empty journal, because the tracker then has nothing to compare with. And one
  that is missed and is the last of its turn is not noticed on the socket at all.
- Stop, and the watchdog's orphan sweep, read a thread's live gates and settle them
  later: an approval recorded in between is written over as aborted or orphaned,
  while its tool runs or before it starts. Stop does so to an approval it read
  as answered, too.
- The watchdog's claim is strict: an approval recorded before it makes it launch
  nothing. Unless another card of the thread is pending, which it claims instead,
  or Stop has closed the row in between: then it expires a card that was approved,
  and the conversation may say that nothing was run (`graph_tool_worker.py:1265`).
- The stream callbacks of a reloaded page answer a gap by zeroing one of the three
  cursors (`chat.js:803`), so its next attach sends the saved, dead one again,
  until a socket resumes; the comment at `chat.js:511` says that every cursor moves.
- The TTL sweep times out a gate that is being resumed, which the registry's own
  table of transitions does not list.
- A dead letter of the memory queue keeps its lease token, so the late handler of
  the expired lease can reopen or complete it; and after a suspension the first
  handler to end drops the lease of the second, whose task is claimed once more.
- A pass that read a due recurring job and is held up may start it again after its
  fire: the claim compares the version, which a fire does not change.
- Where a server both uploads and sweeps, a takeover by another process and one by
  its own sweep hand its reservation back to it, and the fence, which compares the
  process, opens again: the upload publishes a job whose rows were rolled back.
- A claim of a dead owner clears the fence mark of an earlier takeover, so rows
  the first owner writes later are out of the sweep's sight; and a sweep rolls
  back by the row it scanned, which may be older than the rows written since.

## Not modelled

Registry: queries for display, event publishing, `ensure_paused_gate`. Cron: the
alert outbox, purge, delivery targets and the timing parser (the next occurrence
is just a later one, or none). The platform's answer is taken as true: a send
that times out counts as refused in the code, though it may have arrived, and so
"arrives once at most" is relative to what the platform says.

Approved calls: session grants and YOLO mode, a card that approves some of its
calls, semantic questions, the buttons of the chat platforms (the same steps under
the gateway's lock), calls that only read or have no identity in the journal,
the pruning of receipts after 90 days, several new messages or Stops at once, the
rows a watchdog makes for a later interrupt of one card, and the transcript: what
it shows of a card, and its repair after a closed turn.

Documents: the order of claims between tenants, a user's retry (it is a new job,
published like an upload), deletion, a claim that a stop interrupts (as a crash),
budgets other than the queue's, the day after which fenced rows are no longer
swept, rows of older versions without an owner, and a retry under the same key
while its older owner sleeps. `DocumentIntake` ends a job in one step; its life is
`DocumentJobs`. What the stages compute is left out.

Turn delivery: the timers that ask for resyncs, the reconciler among them, and how
long requests take; what messages and statuses hold; pages that were reloaded or
only watch, several tabs that share a saved cursor, the drain of a
graceful shutdown, voice, stop and abort, a click the server refuses (409), the
session spool, what a frame shows.

SQLite transactions are atomic and durable. Clocks only order events. Components
without a module are listed in `PROJECT.json` with the reason; those of the plan
come next, the rest are text, numbers or input/output.
