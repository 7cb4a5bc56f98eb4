----------------------------- MODULE HitlGates -----------------------------
(***************************************************************************)
(* The human-approval gate registry (hitl_gates.db): one row per question  *)
(* "may this tool run with these arguments?".  Every row update is one     *)
(* SQLite transaction, a compare-and-set on the row's state; the functions *)
(* callers use are made of several such transactions, and any number of    *)
(* them run at once (request handlers, the timeout watchdog, the TTL       *)
(* sweep, turn ends).  One action below is one transaction.                *)
(*                                                                         *)
(* A question is a thread, a tool and its arguments.  Its provisional id   *)
(* (make_gate_id) is a hash of exactly those, so a hash id IS the question *)
(* here.  A native id is LangGraph's id of one pause asking the question;  *)
(* a bus id is one swarm-bus request for it; a retry id is what            *)
(* register_gate mints when the hash id already names a finished row.      *)
(*                                                                         *)
(* What is recorded as the decision is the identity of the caller whose    *)
(* answer it is: two callers never want the same answer, the worst case.   *)
(***************************************************************************)
EXTENDS Naturals, FiniteSets

CONSTANTS
  Hashes,    \* provisional ids, one per question
  Natives,   \* LangGraph interrupt ids
  BusIds,    \* swarm-bus request ids
  Retries,   \* "<hash>-rNNN" ids; a bound on how often one hash is re-asked
  HashOf,    \* the question a native, bus or retry id asks
  Procs,     \* concurrent callers of the registry
  MaxRows,   \* bound: rows the table holds at once
  None       \* no id, no decision

ASSUME IdsAssumption ==
  /\ HashOf \in [Natives \cup BusIds \cup Retries -> Hashes]
  /\ Hashes \cap (Natives \cup BusIds \cup Retries) = {}
  /\ Natives \cap BusIds = {} /\ Natives \cap Retries = {} /\ BusIds \cap Retries = {}
  /\ None \notin Hashes \cup Natives \cup BusIds \cup Retries \cup Procs
  /\ "aborted" \notin Procs \cup {None}
  /\ MaxRows \in Nat

VARIABLES
  gates,     \* the table: the row of every id
  proc       \* each caller's place in the function it is in

vars == <<gates, proc>>

Ids == Hashes \cup Natives \cup BusIds \cup Retries
Question(i) == IF i \in Hashes THEN i ELSE HashOf[i]

LiveStates == {"pending", "claimed", "resuming"}
FinalStates == {"settled", "timeout", "superseded", "error"}
Decisions == Procs \cup {None, "aborted"}

Row == [state: LiveStates \cup FinalStates \cup {"absent"},
        decision: Decisions,
        alias: Ids \cup {None},
        args: BOOLEAN]          \* the row carries the tool's arguments

\* A caller's place in a call: the id it was given, the row it works on.
Call == [pc: {"idle", "create", "claim", "claimed", "twins", "resume", "settle", "sweep"},
         card: Ids \cup {None}, target: Ids \cup {None}, todo: SUBSET Ids,
         phase: LiveStates, outcome: {None, "aborted"}]

Absent == [state |-> "absent", decision |-> None, alias |-> None, args |-> FALSE]

Idle == [pc |-> "idle", card |-> None, target |-> None, todo |-> {},
         phase |-> "resuming", outcome |-> None]

Live(i) == gates[i].state \in LiveStates
Final(i) == gates[i].state \in FinalStates
Names(i) == {i, gates[i].alias} \ {None}

----------------------------------------------------------------------------
(* Reading the table.                                                      *)

LiveNaming(x) == {i \in Ids : Live(i) /\ x \in Names(i)}

\* gate_for: by gate_id first, whatever its state, then by alias, live first.
GateFor(x) ==
  IF gates[x].state # "absent" THEN {x}
  ELSE IF LiveNaming(x) # {} THEN LiveNaming(x)
  ELSE {i \in Ids : Final(i) /\ gates[i].alias = x}

\* Mutant: the alias a pause is registered with is not looked up.
FoundByIdOnly(id, alias) == LiveNaming(id)

\* The id lookups of _lookup_live_gate: the alias is tried before the id.
FoundLive(id, alias) ==
  IF alias # None /\ LiveNaming(alias) # {} THEN LiveNaming(alias) ELSE LiveNaming(id)

\* Its second pass: live rows of any mechanism with the same arguments.  A bus
\* request is never matched this way, but it may be what is found.
SameArgs(id, args) ==
  IF args /\ id \notin BusIds
  THEN {i \in Ids : Live(i) /\ gates[i].args /\ Question(i) = Question(id)}
  ELSE {}

----------------------------------------------------------------------------
(* register_gate: one BEGIN IMMEDIATE transaction.  `row` is the id of the *)
(* row it returns, None when the upgrade fails on the primary key.         *)

NewRow(alias, args) ==
  [state |-> "pending", decision |-> None, alias |-> alias, args |-> args]

\* The row registered under the provisional id takes the real one.
Upgrade(id, alias, row) ==
  /\ row = IF gates[id].state = "absent" THEN id ELSE None
  /\ alias # None /\ alias \in FoundLive(id, alias)
  /\ gates' = IF row = None THEN gates
              ELSE [gates EXCEPT ![id] = [gates[alias] EXCEPT !.alias = alias],
                                 ![alias] = Absent]

AlreadyLive(id, alias, row) ==
  /\ row \notin {None, alias} /\ Live(row)
  /\ row \in FoundLive(id, alias)
  /\ UNCHANGED gates

AdoptTwin(id, alias, args, row) ==
  /\ row # None /\ Live(row)
  /\ row \in SameArgs(id, args) /\ FoundLive(id, alias) = {}
  /\ gates' = [gates EXCEPT ![row].alias = IF @ = None THEN id ELSE @]

Room == Cardinality({i \in Ids : gates[i].state # "absent"}) < MaxRows

\* Mutant: the insert does not wait for the lookups to find nothing.
InsertUnlooked(id, alias, args, row) ==
  /\ gates[id].state = "absent" /\ Room
  /\ gates' = [gates EXCEPT ![id] = NewRow(alias, args)]
  /\ row = id

Insert(id, alias, args, row) ==
  /\ \/ /\ row = id /\ gates[id].state = "absent" /\ Room
        /\ gates' = [gates EXCEPT ![id] = NewRow(alias, args)]
     \/ /\ row \in Retries /\ gates[row].state = "absent" /\ Room
        /\ id = HashOf[row] /\ Final(id)
        /\ gates' = [gates EXCEPT ![row] = NewRow(id, args)]
     \/ /\ row = id /\ id \notin Hashes /\ Final(id)
        /\ UNCHANGED gates
  /\ FoundLive(id, alias) = {} /\ SameArgs(id, args) = {}

RegisterGate(id, alias, args, row) ==
  \/ Upgrade(id, alias, row)
  \/ AlreadyLive(id, alias, row)
  \/ AdoptTwin(id, alias, args, row)
  \/ Insert(id, alias, args, row)

\* gate_pending_from_payload's registration: with the interrupt id when
\* LangGraph gave one, under the hash alone when it did not.  (The settles of
\* the thread's decided gates before it are StartSettle: transactions of their
\* own, whose failure is swallowed and does not stop the registration.)
RegisterPause(id) ==
  /\ id \in Natives \cup Hashes
  /\ \E row \in Ids \cup {None} :
       RegisterGate(id, IF id \in Natives THEN HashOf[id] ELSE None, TRUE, row)
  /\ UNCHANGED proc

\* SafetyMiddleware._ask_the_bus: every request mints an id of its own.
RegisterBus(id) ==
  /\ id \in BusIds /\ gates[id].state = "absent"
  /\ \E row \in Ids : RegisterGate(id, None, TRUE, row)
  /\ UNCHANGED proc

----------------------------------------------------------------------------
(* Recording a decision (gate_claimed and gate_resuming, strict): look the *)
(* card up, create the row if the registry missed the pause, claim it, drop *)
(* its twins, look it up again and mark it resuming.  A caller refused on  *)
(* the way is back to idle and executes nothing.                           *)

Goto(p, pc) == proc' = [proc EXCEPT ![p].pc = pc]
Finish(p) == proc' = [proc EXCEPT ![p] = Idle]

DecideCard(p, card) ==
  /\ proc[p].pc = "idle"
  /\ \/ \E row \in GateFor(card) :
          proc' = [proc EXCEPT ![p] = [Idle EXCEPT !.pc = "claim", !.card = card, !.target = row]]
     \/ /\ GateFor(card) = {} /\ card \in Natives \cup Hashes
        /\ proc' = [proc EXCEPT ![p] = [Idle EXCEPT !.pc = "create", !.card = card, !.target = card]]
  /\ UNCHANGED gates

\* A chat-app card carries no id: a pending gate of the thread, else a new row
\* under the hash of the question the checkpoint is paused at.  From then on
\* the caller goes by the id of the row it found or made.
DecideForThread(p, question) ==
  /\ proc[p].pc = "idle"
  /\ LET pending == {i \in Ids : gates[i].state = "pending"}
     IN IF pending = {}
        THEN proc' = [proc EXCEPT ![p] = [Idle EXCEPT !.pc = "create", !.target = question]]
        ELSE \E row \in pending :
               proc' = [proc EXCEPT ![p] =
                          [Idle EXCEPT !.pc = "claim", !.card = row, !.target = row]]
  /\ UNCHANGED gates

CreateMissing(p) ==
  /\ proc[p].pc = "create"
  /\ \E row \in Ids :
       /\ RegisterGate(proc[p].target, None, FALSE, row)
       /\ proc' = [proc EXCEPT ![p].pc = "claim", ![p].target = row,
                               ![p].card = IF @ = None THEN row ELSE @]

PendingTwins(c) ==
  {o \in Ids \ {c} :
     /\ gates[o].state = "pending" /\ Question(o) = Question(c)
     /\ \/ o = gates[c].alias
        \/ gates[o].alias \in Names(c)
        \/ gates[o].args /\ gates[c].args}

\* Mutant: the claim is not a compare-and-set on pending.
ClaimUnchecked(p) ==
  /\ proc[p].pc = "claim"
  /\ LET i == proc[p].target
     IN IF gates[i].state \in {"pending", "claimed"}
        THEN /\ gates' = [gates EXCEPT ![i].state = "claimed", ![i].decision = p]
             /\ proc' = [proc EXCEPT ![p].pc = "claimed"]
        ELSE UNCHANGED gates /\ Finish(p)

ClaimGate(p) ==
  /\ proc[p].pc = "claim"
  /\ LET i == proc[p].target
     IN IF gates[i].state = "pending"
        THEN /\ gates' = [gates EXCEPT ![i].state = "claimed", ![i].decision = p]
             /\ proc' = [proc EXCEPT ![p].pc = "claimed"]
        ELSE UNCHANGED gates /\ Finish(p)

\* _supersede_pending_twins reads the ghosts of the claimed row ...
ReadTwins(p) ==
  /\ proc[p].pc = "claimed"
  /\ LET i == proc[p].target
     IN proc' = [proc EXCEPT ![p].pc = "twins",
                             ![p].todo = IF i \in BusIds THEN {} ELSE PendingTwins(i)]
  /\ UNCHANGED gates

\* ... and closes each by its own compare-and-set.
SupersedeTwin(p, i) ==
  /\ proc[p].pc = "twins" /\ i \in proc[p].todo
  /\ gates' = IF gates[i].state = "pending"
              THEN [gates EXCEPT ![i].state = "superseded"] ELSE gates
  /\ proc' = [proc EXCEPT ![p].todo = @ \ {i}]

\* gate_resuming's lookup; a row does not vanish under a running call.
LookAgain(p) ==
  /\ proc[p].pc = "twins" /\ proc[p].todo = {}
  /\ \E row \in GateFor(proc[p].card) :
       proc' = [proc EXCEPT ![p].pc = "resume", ![p].target = row]
  /\ UNCHANGED gates

MarkResuming(p) ==
  /\ proc[p].pc = "resume"
  /\ LET i == proc[p].target
     IN gates' = IF gates[i].state = "claimed"
                 THEN [gates EXCEPT ![i].state = "resuming"] ELSE gates
  /\ Finish(p)

----------------------------------------------------------------------------
(* Ending gates.  settle_gate tries resuming, claimed and pending in turn, *)
(* each a transaction of its own.  A sweep or a settle of several rows is  *)
(* this, row by row: the rows do not depend on each other.                 *)

\* settle_thread_gates (a turn ended, or paused anew) and abort_thread_hitl.
StartSettle(p, i, outcome) ==
  /\ proc[p].pc = "idle" /\ Live(i)
  /\ outcome = None => gates[i].state \in {"claimed", "resuming"}
  /\ proc' = [proc EXCEPT ![p] = [Idle EXCEPT !.pc = "settle", !.target = i, !.outcome = outcome]]
  /\ UNCHANGED gates

\* Mutant: settle_gate goes on past the last live state.
PhaseTooFar == [resuming |-> "claimed", claimed |-> "settled"]

NextPhase == [resuming |-> "claimed", claimed |-> "pending"]

SettleGate(p) ==
  /\ proc[p].pc = "settle"
  /\ LET i == proc[p].target
         ph == proc[p].phase
         out == proc[p].outcome
     IN \/ /\ gates[i].state = ph
           /\ gates' = [gates EXCEPT ![i].state = "settled",
                                     ![i].decision = IF out = None THEN @ ELSE out]
           /\ Finish(p)
        \/ /\ gates[i].state # ph /\ ph # "pending"
           /\ proc' = [proc EXCEPT ![p].phase = NextPhase[ph]]
           /\ UNCHANGED gates
        \/ /\ gates[i].state # ph /\ ph = "pending"
           /\ UNCHANGED gates /\ Finish(p)

\* fail_gate has no caller; timeout_gate ends an unanswered bus request.
TimeoutGate(i) ==
  /\ i \in BusIds /\ gates[i].state = "pending"
  /\ gates' = [gates EXCEPT ![i].state = "timeout"]
  /\ UNCHANGED proc

\* expire_due_gates reads the due rows with their states: expires_at is fixed
\* at registration and nothing extends it, so any live row may be due ...
StartSweep(p, i) ==
  /\ proc[p].pc = "idle" /\ Live(i)
  /\ proc' = [proc EXCEPT ![p] =
                [Idle EXCEPT !.pc = "sweep", !.target = i, !.phase = gates[i].state]]
  /\ UNCHANGED gates

\* Mutant: the sweep's second transaction does not repeat its condition.
ExpireUnchecked(p) ==
  /\ proc[p].pc = "sweep"
  /\ gates' = [gates EXCEPT ![proc[p].target].state = "timeout"]
  /\ Finish(p)

\* ... and moves each from the state it read.
ExpireGate(p) ==
  /\ proc[p].pc = "sweep"
  /\ LET i == proc[p].target
     IN gates' = IF gates[i].state = proc[p].phase
                 THEN [gates EXCEPT ![i].state = "timeout"] ELSE gates
  /\ Finish(p)

\* Mutant: the boot sweep re-opens what a dead process left in flight.
SweptReopened(r, due) ==
  IF r.state \in {"claimed", "resuming"}
  THEN [r EXCEPT !.state = "pending", !.decision = None]
  ELSE r

\* boot_sweep(0): what a dead process left in flight, and what came due.
Swept(r, due) ==
  IF r.state \in {"claimed", "resuming"} THEN [r EXCEPT !.state = "error"]
  ELSE IF r.state = "pending" /\ due THEN [r EXCEPT !.state = "timeout"]
  ELSE r

\* The process dies; the next one sweeps before it serves anyone.
Restart ==
  /\ \E due \in SUBSET {i \in Ids : gates[i].state = "pending"} :
       gates' = [i \in Ids |-> Swept(gates[i], i \in due)]
  /\ proc' = [p \in Procs |-> Idle]

\* prune_decided_gates, 90 days on: no call of then is still running.
PruneGate(i) ==
  /\ Final(i)
  /\ \A p \in Procs : proc[p] = Idle
  /\ gates' = [gates EXCEPT ![i] = Absent]
  /\ UNCHANGED proc

----------------------------------------------------------------------------
Init ==
  /\ gates = [i \in Ids |-> Absent]
  /\ proc = [p \in Procs |-> Idle]

Caller(p) ==
  \/ \E card \in Ids : DecideCard(p, card)
  \/ \E question \in Hashes : DecideForThread(p, question)
  \/ CreateMissing(p) \/ ClaimGate(p) \/ ReadTwins(p)
  \/ \E i \in Ids : SupersedeTwin(p, i)
  \/ LookAgain(p) \/ MarkResuming(p)
  \/ \E i \in Ids, outcome \in {None, "aborted"} : StartSettle(p, i, outcome)
  \/ SettleGate(p)
  \/ \E i \in Ids : StartSweep(p, i)
  \/ ExpireGate(p)

Next ==
  \/ \E i \in Ids : \/ RegisterPause(i) \/ RegisterBus(i)
                   \/ TimeoutGate(i) \/ PruneGate(i)
  \/ \E p \in Procs : Caller(p)
  \/ Restart

Spec == Init /\ [][Next]_vars

----------------------------------------------------------------------------
TypeOK ==
  /\ gates \in [Ids -> Row]
  /\ proc \in [Procs -> Call]

\* Two registrations of one pause never make two live rows: no id is named by
\* two live graph rows, so one pause can never draw two cards or take two answers,
\* whichever of its ids register_gate is called with and in whatever order.
OneRowPerPause ==
  \A i, j \in Ids \ BusIds :
    Live(i) /\ Live(j) /\ i # j => Names(i) \cap Names(j) = {}

\* A graph pause and its hash-id ghost: at most one live graph row holds a
\* question's arguments.
OneRowPerQuestion ==
  \A i, j \in Ids \ BusIds :
    /\ Live(i) /\ Live(j) /\ gates[i].args /\ gates[j].args
    /\ Question(i) = Question(j)
    => i = j

\* What makes the last two inductive: only a missing pause's row is created
\* without its alias; an unanswered row holds no decision; a live graph row is
\* known by its own id and its question's hash, nothing else; and one that
\* holds the arguments is always found by that hash.
CreatesKnownIds ==
  \A p \in Procs : proc[p].pc = "create" => proc[p].target \in Natives \cup Hashes

UndecidedUntilClaimed ==
  \A i \in Ids : gates[i].state \in {"absent", "pending"} => gates[i].decision = None

GraphAlias ==
  \A i \in Ids \ BusIds : Live(i) =>
    gates[i].alias = None \/ (gates[i].alias = Question(i) /\ i \notin Hashes)

ArgsNamed ==
  \A i \in Ids \ BusIds : Live(i) /\ gates[i].args => Question(i) \in Names(i)

RegistryInv ==
  /\ TypeOK
  /\ CreatesKnownIds
  /\ UndecidedUntilClaimed
  /\ GraphAlias
  /\ ArgsNamed
  /\ OneRowPerPause

\* A finished row never changes again, whatever a stale sweep, settle or claim
\* still holds a reference to it; it can only be pruned.
FinishedStaysFinished ==
  [][\A i \in Ids : Final(i) => gates'[i] = gates[i] \/ gates'[i] = Absent]_vars

\* A person's recorded answer is never replaced by another answer: it stays on
\* the row through resume, TTL, restart and re-registration, and only an abort
\* overwrites it.  Upgrading the id carries it along.
DecisionKept ==
  [][\A i \in Ids : gates[i].decision \in Procs =>
       \/ gates'[i].decision \in {gates[i].decision, "aborted"}
       \/ /\ gates'[i] = Absent
          /\ \/ Final(i)
             \/ \E j \in Ids : /\ gates'[j].alias = i
                               /\ gates'[j].decision = gates[i].decision]_vars

\* No bus request's row has been given to a graph pause as its own.
NoBusRowAdopted == \A i \in BusIds : gates[i].alias = None

\* Whoever won the claim under a native id, and is on the way to resuming it,
\* still owns the row the id leads to: nobody else's answer is on it and it is
\* not open again, whatever was registered, superseded or swept since the claim.
\* (Under a hash the same question may have been asked anew in the meantime.)
WinnerOwnsRow ==
  NoBusRowAdopted =>
    \A p \in Procs :
      proc[p].pc \in {"claimed", "twins", "resume"} /\ proc[p].card \in Natives
      => \A i \in GateFor(proc[p].card) :
           Final(i) \/ (gates[i].decision = p /\ gates[i].state # "pending")

============================================================================
