--------------------------- MODULE ApprovedCalls ----------------------------
(***************************************************************************)
(* One chat thread's approvals, from the card to the tool call.            *)
(*                                                                         *)
(* The graph stops at a batch of tool calls (graph_tool_worker.py) and     *)
(* asks; a click on the card, the timeout watchdog, or a new message of    *)
(* the user resumes it with an answer. Every resume runs the node from its *)
(* first line again, so the effect journal (effect_journal.py) stands      *)
(* between an answer and a tool. Tasks run at the same time, are           *)
(* cancelled, and die with the process.                                    *)
(*                                                                         *)
(* LangGraph is external: head, asked and kept are what its checkpoints    *)
(* hold. After a task dies in a batch the interrupt is still there and the *)
(* answer that was being served may or may not be.                         *)
(***************************************************************************)
EXTENDS Naturals

CONSTANTS
  N,            \* tool-call batches the model ever emits (bound)
  K,            \* calls of a batch
  Gated,        \* the calls that need approval, pairs <<batch, slot>>
  Drives,       \* tasks that run the graph (bound on how many at a time)
  MaxCrashes    \* process crashes (bound)

Batches == 1 .. N
Slots == 1 .. K
Calls == Batches \X Slots

\* A batch's calls without approval run before its gated ones.
ASSUME CallAssumption ==
  /\ N \in Nat \ {0} /\ K \in Nat \ {0} /\ MaxCrashes \in Nat
  /\ Gated \subseteq Calls
  /\ \A c \in Gated, s \in Slots : s > c[2] => <<c[1], s>> \in Gated
  /\ "none" \notin Drives

Asks(b) == \E s \in Slots : <<b, s>> \in Gated

VARIABLES
  head,      \* batch the newest checkpoint stops at, 0 when the turn is over
  top,       \* batches emitted so far
  asked,     \* batches whose interrupt was written
  kept,      \* [Batches -> answer the checkpoint holds for that interrupt]
  verdict,   \* [Batches -> the decision the gate's row was claimed with; "void" if closed unanswered]
  fate,      \* [Batches -> an answered row: live (claimed, resuming), done, or its decision lost]
  row,       \* [Calls -> receipt of the effect journal]
  drive,     \* [Drives -> task]
  active,    \* the task registered for the thread (active_turns), or "none"
  reads,     \* batches whose card some click has read as live
  desk,      \* the approve route, between its record and its task
  dog,       \* the timeout watchdog
  user,      \* the handler of a new user message
  stop,      \* the handler of Stop (abort_turn)
  listed,    \* rows that Stop and the watchdog's orphan sweep read and will settle
  cut,       \* a restart left a turn half way
  crashes,
  runs,      \* history: how often a tool was invoked for the call
  said       \* history: [Calls -> what the conversation was told about it]

vars == <<head, top, asked, kept, verdict, fate, row, drive, active, reads, desk, dog, user, stop,
          listed, cut, crashes, runs, said>>

Answers == {"none", "approve", "deny", "expired"}
Reports == {"none", "result", "denied", "expired", "unknown"}
Open == {"none", "pending"}

NoTold == [s \in Slots |-> "none"]
Task(p, b, f, a, in) ==
  [at |-> p, batch |-> b, for |-> f, ans |-> a, inline |-> in, slot |-> 1, told |-> NoTold, failed |-> FALSE]
Idle == Task("idle", 0, 0, "none", FALSE)
Spawned(b, a, in) == Task("spawned", 0, b, a, in)
\* Mutant: a record left without its state.
Unset == [at |-> "", batch |-> 0, ans |-> "none"]
Free == [at |-> "free", batch |-> 0, ans |-> "none"]
NoUser == [at |-> "free", task |-> "none"]
NoLists == [w \in {"stop", "dog"} |-> {}]

Init ==
  /\ head = 0 /\ top = 0 /\ asked = {} /\ cut = FALSE /\ crashes = 0
  /\ kept = [b \in Batches |-> "none"]
  /\ verdict = [b \in Batches |-> "none"]
  /\ row = [c \in Calls |-> "none"]
  /\ drive = [d \in Drives |-> Idle]
  /\ fate = [b \in Batches |-> "live"]
  /\ active = "none" /\ reads = {} /\ desk = Free /\ dog = Free /\ user = NoUser
  /\ stop = "free" /\ listed = NoLists
  /\ runs = [c \in Calls |-> 0]
  /\ said = [c \in Calls |-> {}]

\* The checkpoint waits at b for an answer.
Live(b) == b # 0 /\ head = b /\ b \in asked

SomePending == \E b \in Batches : verdict[b] = "pending"

\* An answered row that is claimed or resuming.
Claimed(b) == verdict[b] \notin {"none", "pending", "void"} /\ fate[b] = "live"

\* Every answered row ends with its decision (settle_thread_gates).
Ended == [b \in Batches |-> IF Claimed(b) THEN "done" ELSE fate[b]]

\* settle_gate with an outcome: it closes an open row, and a claimed one as
\* well, whose decision it overwrites; a finished row stays as it is.
Close(b) ==
  /\ verdict' = [verdict EXCEPT ![b] = IF @ = "pending" THEN "void" ELSE @]
  /\ fate' = [fate EXCEPT ![b] = IF Claimed(b) THEN "lost" ELSE @]

\* A task ends: it leaves the registry if it is still the one registered.
Unregister(d) == active' = IF active = d THEN "none" ELSE active

-----------------------------------------------------------------------------
(***************************************************************************)
(* A task that runs the graph.                                             *)
(***************************************************************************)

\* A resume whose thread has another running task attaches to it instead; one
\* whose interrupt is gone resumes nothing.
StartResume(d) ==
  /\ drive[d].at = "spawned"
  /\ IF \/ ~drive[d].inline /\ active \notin {d, "none"}
        \/ drive[d].ans # "none" /\ ~Live(drive[d].for)
        \/ head = 0
     THEN drive' = [drive EXCEPT ![d] = Idle] /\ Unregister(d)
     ELSE drive' = [drive EXCEPT ![d] = [@ EXCEPT !.at = "node", !.batch = head]] /\ UNCHANGED active
  /\ UNCHANGED <<head, top, asked, kept, verdict, fate, row, reads, desk, dog, user, stop, listed,
                 cut, crashes, runs, said>>

\* The node up to its interrupt: the answer it returns is this task's or the
\* one the checkpoint kept; with neither the graph pauses.
Served(d, b) ==
  ({kept[b]} \cup {IF drive[d].for = b THEN drive[d].ans ELSE "none"}) \ {"none"}

RunNode(d) ==
  LET b == drive[d].batch IN
  /\ drive[d].at = "node"
  /\ IF Asks(b) /\ Served(d, b) = {}
     THEN /\ drive' = [drive EXCEPT ![d].at = "pausing"]
          /\ asked' = asked \cup {b}
     ELSE /\ \E a \in IF Asks(b) THEN Served(d, b) ELSE {"none"} :
               drive' = [drive EXCEPT ![d] = [@ EXCEPT !.at = "calls", !.ans = a, !.for = b]]
          /\ UNCHANGED asked
  /\ UNCHANGED <<head, top, kept, verdict, fate, row, active, reads, desk, dog, user, stop, listed,
                 cut, crashes, runs, said>>

\* The pause is seen: the answered gates before it are settled and its own is
\* registered; the task ends.
ShowCard(d) ==
  LET b == drive[d].batch IN
  /\ drive[d].at = "pausing"
  /\ drive' = [drive EXCEPT ![d] = Idle]
  /\ Unregister(d)
  /\ verdict' = IF verdict[b] = "none" /\ ~drive[d].inline
                THEN [verdict EXCEPT ![b] = "pending"] ELSE verdict
  /\ fate' = IF drive[d].inline THEN fate ELSE Ended
  /\ UNCHANGED <<head, top, asked, kept, row, reads, desk, dog, user, stop, listed, cut, crashes,
                 runs, said>>

Call(d) == <<drive[d].batch, drive[d].slot>>
Allowed(d) == Call(d) \in Gated => drive[d].ans = "approve"

\* The task's record once its current call has its result.
Told(d, report) ==
  [drive[d] EXCEPT !.at = "calls", !.slot = @ + 1, !.told[drive[d].slot] = report,
                   !.failed = @ \/ report = "unknown"]

\* A call the approval did not let through.
DenyCall(d) ==
  /\ drive[d].at = "calls" /\ drive[d].slot \in Slots /\ ~Allowed(d)
  /\ drive' = [drive EXCEPT ![d] = Told(d, IF drive[d].ans = "expired" THEN "expired" ELSE "denied")]
  /\ UNCHANGED <<head, top, asked, kept, verdict, fate, row, active, reads, desk, dog, user, stop,
                 listed, cut, crashes, runs, said>>

\* Mutant: a receipt without its result counts as a call to repeat.
Unfinished(c) == row[c] # "completed"

\* No task has inserted the call's receipt.
Fresh(c) == row[c] = "none"

\* Mutant: any receipt is taken for a result.
AnyReceipt(c) == "result"

\* What a call with a receipt returns: its result or, without one, that the
\* outcome is unknown.
Recorded(c) == IF row[c] = "completed" THEN "result" ELSE "unknown"

\* The receipt before the dispatch: the first to insert it dispatches.
BeginEffect(d) ==
  /\ drive[d].at = "calls" /\ drive[d].slot \in Slots /\ Allowed(d)
  /\ IF Fresh(Call(d))
     THEN /\ row' = [row EXCEPT ![Call(d)] = "started"]
          /\ drive' = [drive EXCEPT ![d].at = "begun"]
     ELSE /\ drive' = [drive EXCEPT ![d] = Told(d, Recorded(Call(d)))]
          /\ UNCHANGED row
  /\ UNCHANGED <<head, top, asked, kept, verdict, fate, active, reads, desk, dog, user, stop,
                 listed, cut, crashes, runs, said>>

Dispatch(d) ==
  /\ drive[d].at = "begun"
  /\ runs' = [runs EXCEPT ![Call(d)] = @ + 1]
  /\ drive' = [drive EXCEPT ![d].at = "ran"]
  /\ UNCHANGED <<head, top, asked, kept, verdict, fate, row, active, reads, desk, dog, user, stop,
                 listed, cut, crashes, said>>

\* The tool's result is recorded, and served unless it says that its effect
\* is uncertain; or the tool raised, or its receipt was not written.
FinishEffect(d) ==
  /\ drive[d].at = "ran"
  /\ \/ /\ row' = [row EXCEPT ![Call(d)] = "completed"]
        /\ drive' = [drive EXCEPT ![d] = Told(d, "result")]
     \/ /\ row' \in {row, [row EXCEPT ![Call(d)] = "unsure"]}
        /\ drive' = [drive EXCEPT ![d] = Told(d, "unknown")]
  /\ UNCHANGED <<head, top, asked, kept, verdict, fate, active, reads, desk, dog, user, stop,
                 listed, cut, crashes, runs, said>>

\* The call's time is up; the thread that writes the receipt still may.
ToolTimeout(d) ==
  /\ drive[d].at \in {"begun", "ran"}
  /\ drive' = [drive EXCEPT ![d] = Told(d, "unknown")]
  /\ row' \in IF drive[d].at = "ran" THEN {row, [row EXCEPT ![Call(d)] = "completed"]} ELSE {row}
  /\ UNCHANGED <<head, top, asked, kept, verdict, fate, active, reads, desk, dog, user, stop,
                 listed, cut, crashes, runs, said>>

\* The node's checkpoint: the batch is consumed and its results are in the
\* conversation. The turn ends (always, after an unknown effect) and settles
\* its answered gates, unless it is cancelled before; or the model emits
\* another batch and the same task goes on with it.
Commit(d) ==
  LET b == drive[d].batch IN
  /\ drive[d].at = "calls" /\ drive[d].slot = K + 1
  /\ said' = [c \in Calls |-> IF c[1] = b THEN said[c] \cup {drive[d].told[c[2]]} ELSE said[c]]
  /\ \/ /\ head' = 0
        /\ drive' = [drive EXCEPT ![d] = Idle]
        /\ Unregister(d)
        /\ fate' \in IF drive[d].inline THEN {fate} ELSE {fate, Ended}
        /\ UNCHANGED top
     \/ /\ ~drive[d].failed /\ top < N
        /\ head' = top + 1 /\ top' = top + 1
        /\ drive' = [drive EXCEPT ![d] = Task("node", top + 1, 0, "none", drive[d].inline)]
        /\ UNCHANGED <<active, fate>>
  /\ UNCHANGED <<asked, kept, verdict, row, reads, desk, dog, user, stop, listed, cut, crashes, runs>>

-----------------------------------------------------------------------------
(***************************************************************************)
(* The approve route: the thread's state, then, under its lock, the        *)
(* decision on record before the task that acts on it.                     *)
(***************************************************************************)

ReadCard(b) ==
  /\ Live(b) /\ verdict[b] \in Open /\ b \notin reads
  /\ reads' = reads \cup {b}
  /\ UNCHANGED <<head, top, asked, kept, verdict, fate, row, drive, active, desk, dog, user, stop,
                 listed, cut, crashes, runs, said>>

\* Refused while a task runs, or when the gate is decided (TransitionConflict).
\* A second click may have read the card too.
RecordDecision(b, a) ==
  /\ b \in reads /\ desk.at = "free"
  /\ IF active = "none" /\ verdict[b] \in Open
     THEN /\ verdict' = [verdict EXCEPT ![b] = a]
          /\ desk' = [at |-> "recorded", batch |-> b, ans |-> a]
          /\ reads' \in {reads, reads \ {b}}
     ELSE /\ reads' = reads \ {b}
          /\ UNCHANGED <<verdict, desk>>
  /\ UNCHANGED <<head, top, asked, kept, fate, row, drive, active, dog, user, stop, listed, cut,
                 crashes, runs, said>>

LaunchResume(d) ==
  /\ desk.at = "recorded" /\ drive[d].at = "idle"
  /\ drive' = [drive EXCEPT ![d] = Spawned(desk.batch, desk.ans, FALSE)]
  /\ active' = d
  /\ desk' = Free
  /\ UNCHANGED <<head, top, asked, kept, verdict, fate, row, reads, dog, user, stop, listed, cut,
                 crashes, runs, said>>

-----------------------------------------------------------------------------
(***************************************************************************)
(* The timeout watchdog: it takes no lock.                                 *)
(***************************************************************************)

\* A registered gate is past its time, the thread is paused and no resume is
\* claimed.
Expire ==
  /\ dog.at = "free" /\ listed["dog"] = {} /\ SomePending /\ active = "none" /\ Live(head)
  /\ dog' = [at |-> "armed", batch |-> head, ans |-> "expired"]
  /\ UNCHANGED <<head, top, asked, kept, verdict, fate, row, drive, active, reads, desk, user, stop,
                 listed, cut, crashes, runs, said>>

\* The interrupt it read carries no gate id, so the gate is looked up again. A
\* pending row of the thread is claimed. With none, the interrupt gets a row
\* of its own for the claim (followed here only where it is the first). The
\* claim is strict: where a decision was recorded meanwhile nothing is
\* launched, and a card that the transcript still shows as open while its
\* row is answered or closed leads to the same conflict.
RecordTimeout ==
  /\ dog.at = "armed"
  /\ \/ /\ \E g \in Batches : verdict[g] = "pending" /\ verdict' = [verdict EXCEPT ![g] = "timeout"]
        /\ dog' = [dog EXCEPT !.at = "recorded"]
     \/ /\ ~SomePending /\ ~Claimed(dog.batch)
        /\ verdict' = [verdict EXCEPT ![dog.batch] = IF @ = "none" THEN "timeout" ELSE @]
        /\ dog' = [dog EXCEPT !.at = "recorded"]
     \/ /\ desk.at = "recorded" \/ (~SomePending /\ verdict[dog.batch] # "none")
        /\ dog' = Free
        /\ UNCHANGED verdict
  /\ UNCHANGED <<head, top, asked, kept, fate, row, drive, active, reads, desk, user, stop, listed,
                 cut, crashes, runs, said>>

LaunchTimeout(d) ==
  /\ dog.at = "recorded" /\ drive[d].at = "idle"
  /\ drive' = [drive EXCEPT ![d] = Spawned(dog.batch, "expired", FALSE)]
  /\ active' = d
  /\ dog' = Free
  /\ UNCHANGED <<head, top, asked, kept, verdict, fate, row, reads, desk, user, stop, listed, cut,
                 crashes, runs, said>>

\* Mutant: orphans are looked for after a restart only.
SweepAtStart ==
  /\ cut /\ dog.at = "free" /\ listed["dog"] = {} /\ SomePending /\ ~Live(head)
  /\ dog' = [dog EXCEPT !.at = "looking"]
  /\ UNCHANGED <<head, top, asked, kept, verdict, fate, row, drive, active, reads, desk, user, stop,
                 listed, cut, crashes, runs, said>>

\* A registered gate is past its time and the thread is not paused.
SweepOrphans ==
  /\ dog.at = "free" /\ listed["dog"] = {} /\ SomePending /\ ~Live(head)
  /\ dog' = [dog EXCEPT !.at = "looking"]
  /\ UNCHANGED <<head, top, asked, kept, verdict, fate, row, drive, active, reads, desk, user, stop,
                 listed, cut, crashes, runs, said>>

\* Unless a task runs by now, the thread's pending rows are read ...
ListOrphans ==
  /\ dog.at = "looking"
  /\ dog' = Free
  /\ listed' = IF active = "none"
               THEN [listed EXCEPT !["dog"] = {b \in Batches : verdict[b] = "pending"}] ELSE listed
  /\ UNCHANGED <<head, top, asked, kept, verdict, fate, row, drive, active, reads, desk, user, stop,
                 cut, crashes, runs, said>>

\* ... and settled one by one, whatever became of them since.
SettleListed(w) ==
  /\ \E b \in listed[w] : Close(b) /\ listed' = [listed EXCEPT ![w] = @ \ {b}]
  /\ UNCHANGED <<head, top, asked, kept, row, drive, active, reads, desk, dog, user, stop, cut,
                 crashes, runs, said>>

-----------------------------------------------------------------------------
(***************************************************************************)
(* A new message of the user, and its Stop button.                         *)
(***************************************************************************)

\* Task d is cancelled wherever it is; its interrupt stays in the checkpoint,
\* and so may the answer it was serving.
CancelTask(d) ==
  /\ drive' = [drive EXCEPT ![d] = Idle]
  /\ active' = "none"
  /\ LET b == drive[d].for IN
     kept' \in {kept} \cup (IF drive[d].ans = "none" THEN {} ELSE {[kept EXCEPT ![b] = drive[d].ans]})

\* The registered task is cancelled; a tool that does not stop is left running.
CancelTurn ==
  IF active = "none"
  THEN UNCHANGED <<drive, active, kept>>
  ELSE \/ CancelTask(active)
       \/ drive[active].at = "ran" /\ active' = "none" /\ UNCHANGED <<drive, kept>>

\* The running turn is superseded.
NewMessage ==
  /\ user.at = "free"
  /\ CancelTurn
  /\ user' = [user EXCEPT !.at = "reading"]
  /\ UNCHANGED <<head, top, asked, verdict, fate, row, reads, desk, dog, stop, listed, cut,
                 crashes, runs, said>>

\* What hitl_thread_status may answer.
Statuses ==
  IF SomePending THEN {"pending"}
  ELSE IF ~Live(head) THEN {"inflight", "idle"}
  ELSE IF verdict[head] # "none" THEN {"inflight", "idle"}
  ELSE IF active = "none" /\ \A b \in Batches : verdict[b] = "none" THEN {"pending"}
  ELSE {"pending", "inflight"}

ReadStatus ==
  /\ user.at = "reading"
  /\ \E s \in Statuses : user' = [user EXCEPT !.at = IF s = "pending" THEN "starting" ELSE "denying"]
  /\ UNCHANGED <<head, top, asked, kept, verdict, fate, row, drive, active, reads, desk, dog, stop,
                 listed, cut, crashes, runs, said>>

\* The leftover interrupt is denied, and every interrupt that denial runs into.
Supersede(d) ==
  /\ user.at = "denying" /\ Live(head) /\ drive[d].at = "idle"
  /\ drive' = [drive EXCEPT ![d] = Spawned(head, "deny", TRUE)]
  /\ user' = [at |-> "waiting", task |-> d]
  /\ UNCHANGED <<head, top, asked, kept, verdict, fate, row, active, reads, desk, dog, stop,
                 listed, cut, crashes, runs, said>>

Superseded ==
  /\ \/ user.at = "waiting" /\ drive[user.task].at = "idle" /\ user' = [at |-> "denying", task |-> "none"]
     \/ user.at = "denying" /\ ~Live(head) /\ user' = [user EXCEPT !.at = "starting"]
  /\ UNCHANGED <<head, top, asked, kept, verdict, fate, row, drive, active, reads, desk, dog, stop,
                 listed, cut, crashes, runs, said>>

\* The new turn starts under the thread's lock, and an interrupt still in the
\* checkpoint is discarded with it. The model answers at once or emits a batch.
StartTurn(d) ==
  /\ user.at = "starting" /\ desk.at = "free" /\ drive[d].at = "idle"
  /\ \/ head' = 0 /\ UNCHANGED <<top, drive, active>>
     \/ /\ top < N
        /\ head' = top + 1 /\ top' = top + 1
        /\ drive' = [drive EXCEPT ![d] = Task("node", top + 1, 0, "none", FALSE)]
        /\ active' = d
  /\ user' = NoUser
  /\ cut' = FALSE
  /\ UNCHANGED <<asked, kept, verdict, fate, row, reads, desk, dog, stop, listed, crashes, runs, said>>

\* Stop, with or without a turn to cancel (one Stop at a time).
Abort ==
  /\ stop = "free" /\ listed["stop"] = {}
  /\ CancelTurn
  /\ stop' = "cancelled"
  /\ UNCHANGED <<head, top, asked, verdict, fate, row, reads, desk, dog, user, listed, cut, crashes,
                 runs, said>>

\* Under the thread's lock the checkpoint is marked abandoned; the interrupt
\* may stay behind. A marker that cannot be written ends the Stop there.
MarkAbandoned ==
  /\ stop = "cancelled" /\ desk.at = "free"
  /\ \/ stop' = "marked" /\ head' \in {head, 0}
     \/ stop' = "free" /\ UNCHANGED head
  /\ UNCHANGED <<top, asked, kept, verdict, fate, row, drive, active, reads, desk, dog, user, listed,
                 cut, crashes, runs, said>>

\* Later, with the lock released, the thread's live gates are read.
ListLive ==
  /\ stop = "marked"
  /\ listed' = [listed EXCEPT !["stop"] = {b \in Batches : verdict[b] = "pending" \/ Claimed(b)}]
  /\ stop' = "free"
  /\ UNCHANGED <<head, top, asked, kept, verdict, fate, row, drive, active, reads, desk, dog, user, cut,
                 crashes, runs, said>>

-----------------------------------------------------------------------------
(***************************************************************************)
(* The process dies, and the next one continues a turn it cut off.         *)
(***************************************************************************)

\* Boot ends answered gates and leaves pending ones; a dead task's answer
\* may be in the checkpoint.
Crash ==
  /\ crashes < MaxCrashes
  /\ crashes' = crashes + 1
  /\ drive' = [d \in Drives |-> Idle]
  /\ active' = "none" /\ reads' = {} /\ desk' = Free /\ dog' = Free /\ user' = NoUser
  /\ stop' = "free" /\ listed' = NoLists /\ fate' = Ended
  /\ cut' = TRUE
  /\ kept' \in {f \in [Batches -> Answers] :
                  \A b \in Batches : f[b] \in {kept[b]} \cup
                    {drive[d].ans : d \in {x \in Drives : drive[x].for = b /\ drive[x].ans # "none"}}}
  /\ UNCHANGED <<head, top, asked, verdict, row, runs, said>>

\* A cut turn with no interrupt goes on from its checkpoint, by itself or at
\* the owner's word.
Continue(d) ==
  /\ cut /\ head # 0 /\ head \notin asked /\ active = "none" /\ drive[d].at = "idle"
  /\ drive' = [drive EXCEPT ![d] = Spawned(0, "none", FALSE)]
  /\ active' = d
  /\ cut' = FALSE
  /\ UNCHANGED <<head, top, asked, kept, verdict, fate, row, reads, desk, dog, user, stop, listed,
                 crashes, runs, said>>

-----------------------------------------------------------------------------
Step(d) ==
  \/ StartResume(d) \/ RunNode(d) \/ ShowCard(d)
  \/ DenyCall(d) \/ BeginEffect(d) \/ Dispatch(d) \/ FinishEffect(d) \/ ToolTimeout(d)
  \/ Commit(d)

Click ==
  \/ \E b \in Batches : ReadCard(b)
  \/ \E b \in Batches, a \in {"approve", "deny"} : RecordDecision(b, a)
  \/ \E d \in Drives : LaunchResume(d)

Watchdog ==
  \/ Expire \/ RecordTimeout \/ SweepOrphans \/ ListOrphans \/ SettleListed("dog")
  \/ \E d \in Drives : LaunchTimeout(d)

Message ==
  \/ NewMessage \/ ReadStatus \/ Superseded
  \/ \E d \in Drives : Supersede(d) \/ StartTurn(d)

Stop == Abort \/ MarkAbandoned \/ ListLive \/ SettleListed("stop")

Next ==
  \/ \E d \in Drives : Step(d) \/ Continue(d)
  \/ Click \/ Watchdog \/ Message \/ Stop \/ Crash

Spec == Init /\ [][Next]_vars

\* The event loop runs every task, bounds every tool call and ticks the
\* watchdog. People, crashes and cancellations owe nothing.
Fairness ==
  /\ \A d \in Drives : WF_vars(Step(d))
  /\ WF_vars(\E d \in Drives : LaunchResume(d))
  /\ WF_vars(Watchdog)

FairSpec == Spec /\ Fairness

-----------------------------------------------------------------------------
DriveType ==
  [at : {"idle", "spawned", "node", "pausing", "calls", "begun", "ran"},
   batch : 0 .. N, for : 0 .. N, ans : Answers, inline : BOOLEAN, slot : 1 .. K + 1,
   told : [Slots -> Reports], failed : BOOLEAN]

\* Types of all the state.
TypeOK ==
  /\ top \in 0 .. N /\ head \in 0 .. top
  /\ asked \in SUBSET Batches /\ reads \in SUBSET Batches
  /\ kept \in [Batches -> Answers]
  /\ verdict \in [Batches -> {"none", "pending", "approve", "deny", "timeout", "void"}]
  /\ row \in [Calls -> {"none", "started", "completed", "unsure"}]
  /\ drive \in [Drives -> DriveType]
  /\ active \in Drives \cup {"none"}
  /\ desk \in [at : {"free", "recorded"}, batch : 0 .. N, ans : {"none", "approve", "deny"}]
  /\ dog \in [at : {"free", "armed", "recorded", "looking"}, batch : 0 .. N, ans : {"none", "expired"}]
  /\ user \in [at : {"free", "reading", "denying", "waiting", "starting"}, task : Drives \cup {"none"}]
  /\ fate \in [Batches -> {"live", "done", "lost"}]
  /\ stop \in {"free", "cancelled", "marked"}
  /\ listed \in [{"stop", "dog"} -> SUBSET Batches]
  /\ cut \in BOOLEAN /\ crashes \in 0 .. MaxCrashes
  /\ runs \in [Calls -> Nat]
  /\ said \in [Calls -> SUBSET Reports]

\* The promise to the person who answers cards: a batch is decided once, no gated
\* call runs before its approval, no call twice, across concurrent resumes,
\* cancellations and restarts (effect_journal.py:99-126, misc.py:907-1060). An
\* approval that Stop or an orphan sweep wrote over stays one: it is withdrawn on
\* record only (hitl_gates.py:640-665).
Verdict == [b \in Batches |->
  CASE verdict[b] \in Open -> "open"
    [] verdict[b] = "approve" -> IF fate[b] = "lost" THEN "withdrawn" ELSE "approve"
    [] OTHER -> "refused"]
Promise == INSTANCE ApprovedOnce WITH verdict <- Verdict
KeepsPromise == Promise!Spec

\* A card does not stay open for ever: it is answered, times out, or is closed
\* as an orphan, whatever cancels, discards or crashes the task behind it
\* (hitl_timeout.py:234-380).
CardsSettle == \A b \in Batches : verdict[b] = "pending" ~> verdict[b] # "pending"

\* The conversation shows a tool's result only for a call that was invoked
\* and whose result is on record (effect_journal.py:128-140).
ResultIsTrue ==
  \A c \in Calls : "result" \in said[c] => runs[c] = 1 /\ row[c] = "completed"

\* A denial on record says that the operation was not executed
\* (graph_tool_worker.py:1278).
DenialIsTrue == \A c \in Calls : "denied" \in said[c] => runs[c] = 0
=============================================================================
