-------------------------- MODULE HitlGates_proofs --------------------------
(* Proofs about the gate registry, for any number of questions, pauses, bus *)
(* requests and concurrent callers.                                         *)
EXTENDS HitlGates, TLAPS

\* The sorts of ids, as sets of ids.
LEMMA IdSorts ==
  /\ Hashes \subseteq Ids /\ Natives \subseteq Ids
  /\ BusIds \subseteq Ids /\ Retries \subseteq Ids
  /\ None \notin Ids
  /\ \A i \in Ids : Question(i) \in Hashes
BY IdsAssumption DEF Ids, Question

LEMMA FoundAreIds ==
  ASSUME NEW id, NEW alias
  PROVE  FoundLive(id, alias) \subseteq Ids
BY DEF FoundLive, LiveNaming

\* What the registration of a pause, of a missing row or of a bus request
\* leaves is a well-typed table.
LEMMA RegisterType ==
  ASSUME gates \in [Ids -> Row], NEW id \in Ids, NEW alias \in Ids \cup {None},
         NEW args \in BOOLEAN, NEW row, RegisterGate(id, alias, args, row)
  PROVE  gates' \in [Ids -> Row] /\ row \in Ids \cup {None}
<1>1. CASE Upgrade(id, alias, row)
  <2>1. alias \in Ids
    BY <1>1, FoundAreIds DEF Upgrade
  <2>2. Absent \in Row /\ [gates[alias] EXCEPT !.alias = alias] \in Row
    BY <2>1 DEF Row, Absent, Decisions
  <2>3. QED
    BY <1>1, <2>1, <2>2 DEF Upgrade
<1>2. CASE AlreadyLive(id, alias, row)
  BY <1>2, FoundAreIds DEF AlreadyLive
<1>3. CASE AdoptTwin(id, alias, args, row)
  <2>1. row \in Ids
    BY <1>3 DEF AdoptTwin, SameArgs
  <2>2. [gates[row] EXCEPT !.alias = IF @ = None THEN id ELSE @] \in Row
    BY <2>1 DEF Row
  <2>3. QED
    BY <1>3, <2>1, <2>2 DEF AdoptTwin
<1>4. CASE Insert(id, alias, args, row)
  <2>1. NewRow(alias, args) \in Row /\ NewRow(id, args) \in Row
    BY DEF NewRow, Row, Decisions, LiveStates
  <2>2. QED
    BY <1>4, <2>1, IdSorts DEF Insert
<1>5. QED
  BY <1>1, <1>2, <1>3, <1>4 DEF RegisterGate

LEMMA TypeInit == Init => TypeOK
<1>1. Absent \in Row
  BY DEF Absent, Row, Decisions
<1>2. Idle \in Call
  BY DEF Idle, Call, LiveStates
<1>3. QED
  BY <1>1, <1>2 DEF Init, TypeOK

LEMMA GateForAreIds ==
  ASSUME NEW x \in Ids
  PROVE  GateFor(x) \subseteq Ids
BY DEF GateFor, LiveNaming

LEMMA CallerType ==
  ASSUME TypeOK, NEW p \in Procs, Caller(p)
  PROVE  proc' \in [Procs -> Call]
<1>0. Idle \in Call /\ proc \in [Procs -> Call] /\ proc[p] \in Call
  BY DEF TypeOK, Idle, Call, LiveStates
<1> SUFFICES \E c \in Call : proc' = [proc EXCEPT ![p] = c]
  BY <1>0
<1>1. ASSUME NEW card \in Ids, DecideCard(p, card)
      PROVE  \E c \in Call : proc' = [proc EXCEPT ![p] = c]
  <2>1. \A row \in Ids : [Idle EXCEPT !.pc = "claim", !.card = card, !.target = row] \in Call
    BY DEF Idle, Call, LiveStates
  <2>2. [Idle EXCEPT !.pc = "create", !.card = card, !.target = card] \in Call
    BY DEF Idle, Call, LiveStates
  <2>3. QED
    BY <1>1, <2>1, <2>2, GateForAreIds DEF DecideCard
<1>2. ASSUME NEW question \in Hashes, DecideForThread(p, question)
      PROVE  \E c \in Call : proc' = [proc EXCEPT ![p] = c]
  <2>1. \A row \in Ids : [Idle EXCEPT !.pc = "claim", !.card = row, !.target = row] \in Call
    BY DEF Idle, Call, LiveStates
  <2>2. [Idle EXCEPT !.pc = "create", !.target = question] \in Call
    BY IdSorts DEF Idle, Call, LiveStates
  <2>3. QED
    BY <1>2, <2>1, <2>2 DEF DecideForThread
<1>3. ASSUME CreateMissing(p)
      PROVE  \E c \in Call : proc' = [proc EXCEPT ![p] = c]
  <2>1. \A row, card \in Ids \cup {None} :
          [proc[p] EXCEPT !.pc = "claim", !.target = row, !.card = card] \in Call
    BY <1>0 DEF Call
  <2>2. PICK row \in Ids :
          proc' = [proc EXCEPT ![p].pc = "claim", ![p].target = row,
                               ![p].card = IF @ = None THEN row ELSE @]
    BY <1>3 DEF CreateMissing
  <2> DEFINE card == IF proc[p].card = None THEN row ELSE proc[p].card
  <2>3. /\ proc' = [proc EXCEPT ![p] = [proc[p] EXCEPT !.pc = "claim", !.target = row,
                                                       !.card = card]]
        /\ card \in Ids \cup {None}
    BY <1>0, <2>2 DEF Call
  <2>4. QED
    BY <2>1, <2>3
<1>4. ASSUME ClaimGate(p)
      PROVE  \E c \in Call : proc' = [proc EXCEPT ![p] = c]
  <2>1. [proc[p] EXCEPT !.pc = "claimed"] \in Call
    BY <1>0 DEF Call
  <2>2. QED
    BY <1>4, <1>0, <2>1 DEF ClaimGate, Finish
<1>5. ASSUME ReadTwins(p)
      PROVE  \E c \in Call : proc' = [proc EXCEPT ![p] = c]
  <2>1. \A todo \in SUBSET Ids : [proc[p] EXCEPT !.pc = "twins", !.todo = todo] \in Call
    BY <1>0 DEF Call
  <2>2. PICK todo \in SUBSET Ids : proc' = [proc EXCEPT ![p].pc = "twins", ![p].todo = todo]
    BY <1>5 DEF ReadTwins, PendingTwins
  <2>3. proc' = [proc EXCEPT ![p] = [proc[p] EXCEPT !.pc = "twins", !.todo = todo]]
    BY <1>0, <2>2
  <2>4. QED
    BY <2>1, <2>3
<1>6. ASSUME NEW i \in Ids, SupersedeTwin(p, i)
      PROVE  \E c \in Call : proc' = [proc EXCEPT ![p] = c]
  <2>1. [proc[p] EXCEPT !.todo = @ \ {i}] \in Call
    BY <1>0 DEF Call
  <2>2. QED
    BY <1>6, <1>0, <2>1 DEF SupersedeTwin
<1>7. ASSUME LookAgain(p)
      PROVE  \E c \in Call : proc' = [proc EXCEPT ![p] = c]
  <2>1. GateFor(proc[p].card) \subseteq Ids \cup {None}
    BY <1>0, GateForAreIds DEF Call, GateFor, LiveNaming
  <2>2. \A row \in Ids \cup {None} : [proc[p] EXCEPT !.pc = "resume", !.target = row] \in Call
    BY <1>0 DEF Call
  <2>3. PICK row \in Ids \cup {None} :
              proc' = [proc EXCEPT ![p].pc = "resume", ![p].target = row]
    BY <1>7, <2>1 DEF LookAgain
  <2>4. proc' = [proc EXCEPT ![p] = [proc[p] EXCEPT !.pc = "resume", !.target = row]]
    BY <1>0, <2>3
  <2>5. QED
    BY <2>2, <2>4
<1>8. ASSUME NEW i \in Ids, NEW outcome \in {None, "aborted"}, StartSettle(p, i, outcome)
      PROVE  \E c \in Call : proc' = [proc EXCEPT ![p] = c]
  <2>1. [Idle EXCEPT !.pc = "settle", !.target = i, !.outcome = outcome] \in Call
    BY DEF Idle, Call, LiveStates
  <2>2. QED
    BY <1>8, <2>1 DEF StartSettle
<1>9. ASSUME SettleGate(p)
      PROVE  \E c \in Call : proc' = [proc EXCEPT ![p] = c]
  <2>1. CASE proc[p].phase # "pending"
    <3>1. [proc[p] EXCEPT !.phase = NextPhase[proc[p].phase]] \in Call
      BY <1>0, <2>1 DEF Call, NextPhase, LiveStates
    <3>2. QED
      BY <1>9, <1>0, <2>1, <3>1 DEF SettleGate, Finish
  <2>2. CASE proc[p].phase = "pending"
    BY <1>9, <1>0, <2>2 DEF SettleGate, Finish
  <2>3. QED
    BY <2>1, <2>2
<1>10. ASSUME NEW i \in Ids, StartSweep(p, i)
       PROVE  \E c \in Call : proc' = [proc EXCEPT ![p] = c]
  <2>1. [Idle EXCEPT !.pc = "sweep", !.target = i, !.phase = gates[i].state] \in Call
    BY <1>10 DEF StartSweep, Live, Idle, Call
  <2>2. QED
    BY <1>10, <2>1 DEF StartSweep
<1>11. CASE MarkResuming(p) \/ ExpireGate(p)
  BY <1>11, <1>0 DEF MarkResuming, ExpireGate, Finish
<1>12. QED
  BY <1>1, <1>2, <1>3, <1>4, <1>5, <1>6, <1>7, <1>8, <1>9, <1>10, <1>11 DEF Caller

\* Any row may move to another state and take another decision.
LEMMA RowMoves ==
  ASSUME gates \in [Ids -> Row], NEW i \in Ids, NEW st \in LiveStates \cup FinalStates,
         NEW d \in Decisions
  PROVE  /\ [gates EXCEPT ![i].state = st] \in [Ids -> Row]
         /\ [gates EXCEPT ![i].state = st, ![i].decision = d] \in [Ids -> Row]
<1>1. /\ [gates[i] EXCEPT !.state = st] \in Row
      /\ [gates[i] EXCEPT !.state = st, !.decision = d] \in Row
  BY DEF Row
<1>2. /\ [gates EXCEPT ![i].state = st] = [gates EXCEPT ![i] = [gates[i] EXCEPT !.state = st]]
      /\ [gates EXCEPT ![i].state = st, ![i].decision = d]
           = [gates EXCEPT ![i] = [gates[i] EXCEPT !.state = st, !.decision = d]]
  OBVIOUS
<1>3. QED
  BY <1>1, <1>2

\* What a step other than a registration may do to a row: leave it, move it
\* while it is live, keeping its names and arguments, or, when no call is in
\* progress, remove a final row.  The decision changes only by a claim of a
\* pending row or an abort, which ends it.
RowStep(i) ==
  \/ gates'[i] = gates[i]
  \/ /\ Live(i)
     /\ gates'[i].state \in LiveStates \cup FinalStates
     /\ gates'[i].state = "pending" => gates[i].state = "pending"
     /\ gates'[i].alias = gates[i].alias
     /\ gates'[i].args = gates[i].args
     /\ \/ gates'[i].decision = gates[i].decision
        \/ gates[i].state = "pending"
        \/ gates'[i].decision = "aborted" /\ gates'[i].state \in FinalStates
     /\ gates'[i].state = "pending" => gates'[i].decision = gates[i].decision
  \/ Final(i) /\ gates'[i] = Absent /\ \A p \in Procs : proc'[p] = Idle

\* What a registration is: the id is never a retry id, an alias is given with a
\* native id alone, and a graph registration with arguments gives the hash.
Registers ==
  \E id \in Natives \cup Hashes \cup BusIds, args \in BOOLEAN, row \in Ids \cup {None},
     alias \in Hashes \cup {None} :
    /\ RegisterGate(id, alias, args, row)
    /\ alias # None => id \in Natives /\ alias = HashOf[id]
    /\ args /\ id \notin BusIds => alias = Question(id) \/ id \in Hashes

\* Moving one live row to another state, and giving it d as its decision.
Moves(i, st, d) ==
  gates' = [gates EXCEPT ![i].state = st, ![i].decision = d]

LEMMA MoveIsRowStep ==
  ASSUME gates \in [Ids -> Row], NEW i \in Ids, Live(i),
         NEW st \in (LiveStates \cup FinalStates) \ {"pending"}, NEW d \in Decisions,
         \/ d = gates[i].decision
         \/ gates[i].state = "pending"
         \/ d = "aborted" /\ st \in FinalStates,
         Moves(i, st, d)
  PROVE  gates' \in [Ids -> Row] /\ \A j \in Ids : RowStep(j)
<1>1. gates' \in [Ids -> Row]
  BY RowMoves DEF Moves
<1>2. \A j \in Ids : j # i => gates'[j] = gates[j]
  BY DEF Moves
<1>3. gates'[i] = [gates[i] EXCEPT !.state = st, !.decision = d]
  BY DEF Moves
<1>4. /\ gates'[i].state = st /\ gates'[i].decision = d
      /\ gates'[i].alias = gates[i].alias /\ gates'[i].args = gates[i].args
  BY <1>3 DEF Row
<1>5. RowStep(i)
  BY <1>4 DEF RowStep
<1>6. QED
  BY <1>1, <1>2, <1>5 DEF RowStep

\* The same when the decision stays.
LEMMA StateMoveIsRowStep ==
  ASSUME gates \in [Ids -> Row], NEW i \in Ids, Live(i),
         NEW st \in (LiveStates \cup FinalStates) \ {"pending"},
         gates' = [gates EXCEPT ![i].state = st]
  PROVE  gates' \in [Ids -> Row] /\ \A j \in Ids : RowStep(j)
<1>1. gates' \in [Ids -> Row]
  <2>1. None \in Decisions
    BY DEF Decisions
  <2>2. QED
    BY <2>1, RowMoves
<1>2. \A j \in Ids : j # i => gates'[j] = gates[j]
  OBVIOUS
<1>3. gates'[i] = [gates[i] EXCEPT !.state = st]
  OBVIOUS
<1>4. /\ gates'[i].state = st /\ gates'[i].decision = gates[i].decision
      /\ gates'[i].alias = gates[i].alias /\ gates'[i].args = gates[i].args
  BY <1>3 DEF Row
<1>5. RowStep(i)
  BY <1>4 DEF RowStep
<1>6. QED
  BY <1>1, <1>2, <1>5 DEF RowStep

\* An EXCEPT at something that is no id changes nothing.
LEMMA EffectiveTarget ==
  ASSUME gates \in [Ids -> Row], NEW i, NEW st, NEW d, gates' # gates,
         \/ gates' = [gates EXCEPT ![i].state = st]
         \/ gates' = [gates EXCEPT ![i].state = st, ![i].decision = d]
  PROVE  i \in Ids
OBVIOUS

LEMMA StepShape ==
  ASSUME TypeOK, CreatesKnownIds, Next
  PROVE  Registers \/ (/\ gates' \in [Ids -> Row]
                       /\ \A i \in Ids : RowStep(i))
<1> USE DEF TypeOK
<1>0. gates' = gates => \A i \in Ids : RowStep(i)
  BY DEF RowStep
<1>1. ASSUME NEW i \in Ids, RegisterPause(i)
      PROVE  Registers
  <2>1. CASE i \in Natives
    BY <1>1, <2>1, IdsAssumption DEF RegisterPause, Registers, Question
  <2>2. CASE i \in Hashes
    BY <1>1, <2>2, IdsAssumption DEF RegisterPause, Registers, Question
  <2>3. QED
    BY <1>1, <2>1, <2>2 DEF RegisterPause
<1>2. ASSUME NEW i \in Ids, RegisterBus(i)
      PROVE  Registers
  BY <1>2 DEF RegisterBus, Registers
<1>3. ASSUME NEW i \in Ids, TimeoutGate(i)
      PROVE  gates' \in [Ids -> Row] /\ \A j \in Ids : RowStep(j)
  <2>1. Live(i) /\ "timeout" \in (LiveStates \cup FinalStates) \ {"pending"}
    BY <1>3 DEF TimeoutGate, Live, LiveStates, FinalStates
  <2>2. QED
    BY <1>3, <2>1, StateMoveIsRowStep DEF TimeoutGate
<1>4. ASSUME NEW i \in Ids, PruneGate(i)
      PROVE  gates' \in [Ids -> Row] /\ \A j \in Ids : RowStep(j)
  <2>1. Absent \in Row
    BY DEF Absent, Row, Decisions
  <2>2. QED
    BY <1>4, <2>1 DEF PruneGate, RowStep
<1>5. ASSUME Restart
      PROVE  gates' \in [Ids -> Row] /\ \A j \in Ids : RowStep(j)
  <2>1. PICK due \in SUBSET {i \in Ids : gates[i].state = "pending"} :
          gates' = [i \in Ids |-> Swept(gates[i], i \in due)]
    BY <1>5 DEF Restart
  <2>2. ASSUME NEW i \in Ids
        PROVE  Swept(gates[i], i \in due) \in Row
    BY DEF Swept, Row, FinalStates
  <2>3. ASSUME NEW i \in Ids
        PROVE  RowStep(i)
    <3>1. gates'[i] = Swept(gates[i], i \in due)
      BY <2>1
    <3>2. QED
      BY <3>1 DEF Swept, RowStep, Live, LiveStates, FinalStates, Row
  <2>4. QED
    BY <2>1, <2>2, <2>3
<1>6. ASSUME NEW p \in Procs, CreateMissing(p)
      PROVE  Registers
  BY <1>6 DEF CreateMissing, Registers, CreatesKnownIds
<1>7. ASSUME NEW p \in Procs, Caller(p), ~CreateMissing(p)
      PROVE  gates' \in [Ids -> Row] /\ \A j \in Ids : RowStep(j)
  <2>1. proc[p] \in Call /\ p \in Decisions
    BY DEF Decisions
  <2>2. CASE gates' = gates
    BY <1>0, <2>2
  <2>3. ASSUME ClaimGate(p), gates' # gates
        PROVE  gates' \in [Ids -> Row] /\ \A j \in Ids : RowStep(j)
    <3> DEFINE i == proc[p].target
    <3>1. gates[i].state = "pending" /\ Moves(i, "claimed", p)
      BY <2>3 DEF ClaimGate, Moves
    <3>2. i \in Ids
      BY <2>1, <2>3, <3>1, EffectiveTarget DEF Moves
    <3>3. Live(i) /\ "claimed" \in (LiveStates \cup FinalStates) \ {"pending"}
      BY <3>1 DEF Live, LiveStates
    <3>4. QED
      BY <2>1, <3>1, <3>2, <3>3, MoveIsRowStep
  <2>4. ASSUME NEW i \in Ids, SupersedeTwin(p, i), gates' # gates
        PROVE  gates' \in [Ids -> Row] /\ \A j \in Ids : RowStep(j)
    <3>1. gates[i].state = "pending" /\ gates' = [gates EXCEPT ![i].state = "superseded"]
      BY <2>4 DEF SupersedeTwin
    <3>2. Live(i) /\ "superseded" \in (LiveStates \cup FinalStates) \ {"pending"}
      BY <3>1 DEF Live, LiveStates, FinalStates
    <3>3. QED
      BY <3>1, <3>2, StateMoveIsRowStep
  <2>5. ASSUME MarkResuming(p), gates' # gates
        PROVE  gates' \in [Ids -> Row] /\ \A j \in Ids : RowStep(j)
    <3> DEFINE i == proc[p].target
    <3>1. gates[i].state = "claimed" /\ gates' = [gates EXCEPT ![i].state = "resuming"]
      BY <2>5 DEF MarkResuming
    <3>2. i \in Ids
      BY <2>1, <2>5, <3>1, EffectiveTarget
    <3>3. Live(i) /\ "resuming" \in (LiveStates \cup FinalStates) \ {"pending"}
      BY <3>1 DEF Live, LiveStates
    <3>4. QED
      BY <3>1, <3>2, <3>3, StateMoveIsRowStep
  <2>6. ASSUME SettleGate(p), gates' # gates
        PROVE  gates' \in [Ids -> Row] /\ \A j \in Ids : RowStep(j)
    <3> DEFINE i == proc[p].target
               d == IF proc[p].outcome = None THEN gates[i].decision ELSE proc[p].outcome
    <3>1. gates[i].state = proc[p].phase /\ Moves(i, "settled", d)
      BY <2>6 DEF SettleGate, Moves
    <3>2. i \in Ids
      BY <2>1, <2>6, <3>1, EffectiveTarget DEF Moves
    <3>3. Live(i) /\ "settled" \in (LiveStates \cup FinalStates) \ {"pending"}
      BY <2>1, <3>1 DEF Live, LiveStates, FinalStates, Call
    <3>4. /\ d \in Decisions /\ d \in {gates[i].decision, "aborted"}
          /\ "settled" \in FinalStates
      BY <2>1, <3>2 DEF Call, Row, Decisions, FinalStates
    <3>5. QED
      BY <3>1, <3>2, <3>3, <3>4, MoveIsRowStep
  <2>7. ASSUME ExpireGate(p), gates' # gates
        PROVE  gates' \in [Ids -> Row] /\ \A j \in Ids : RowStep(j)
    <3> DEFINE i == proc[p].target
    <3>1. gates[i].state = proc[p].phase /\ gates' = [gates EXCEPT ![i].state = "timeout"]
      BY <2>7 DEF ExpireGate
    <3>2. i \in Ids
      BY <2>1, <2>7, <3>1, EffectiveTarget
    <3>3. Live(i) /\ "timeout" \in (LiveStates \cup FinalStates) \ {"pending"}
      BY <2>1, <3>1 DEF Live, LiveStates, FinalStates, Call
    <3>4. QED
      BY <3>1, <3>2, <3>3, StateMoveIsRowStep
  <2>8. QED
    BY <1>7, <2>2, <2>3, <2>4, <2>5, <2>6, <2>7
       DEF Caller, DecideCard, DecideForThread, ReadTwins, LookAgain, StartSettle, StartSweep
<1>8. QED
  BY <1>1, <1>2, <1>3, <1>4, <1>5, <1>6, <1>7 DEF Next

----------------------------------------------------------------------------
(* Preservation of the invariant, part by part.                            *)

\* Only the two ways into "create" set it, both with a native id or a hash.
LEMMA CreateStep ==
  ASSUME TypeOK, CreatesKnownIds, Next
  PROVE  CreatesKnownIds'
<1> USE DEF TypeOK
<1>1. ASSUME proc' = proc
      PROVE  CreatesKnownIds'
  BY <1>1 DEF CreatesKnownIds
<1>2. ASSUME NEW p \in Procs, NEW c, proc' = [proc EXCEPT ![p] = c],
             c.pc # "create" \/ c.target \in Natives \cup Hashes
      PROVE  CreatesKnownIds'
  BY <1>2 DEF CreatesKnownIds
<1>3. ASSUME NEW p \in Procs, Caller(p)
      PROVE  CreatesKnownIds'
  <2>0. proc[p] \in Call
    OBVIOUS
  <2>1. ASSUME NEW card \in Ids, DecideCard(p, card)
        PROVE  CreatesKnownIds'
    <3>1. \A row : [Idle EXCEPT !.pc = "claim", !.card = card, !.target = row].pc = "claim"
      BY DEF Idle
    <3>2. [Idle EXCEPT !.pc = "create", !.card = card, !.target = card].target = card
      BY DEF Idle
    <3>3. QED
      BY <1>2, <2>1, <3>1, <3>2 DEF DecideCard
  <2>2. ASSUME NEW question \in Hashes, DecideForThread(p, question)
        PROVE  CreatesKnownIds'
    <3>1. \A row : [Idle EXCEPT !.pc = "claim", !.card = row, !.target = row].pc = "claim"
      BY DEF Idle
    <3>2. [Idle EXCEPT !.pc = "create", !.target = question].target = question
      BY DEF Idle
    <3>3. QED
      BY <1>2, <2>2, <3>1, <3>2 DEF DecideForThread
  <2>3. ASSUME CreateMissing(p) \/ ClaimGate(p) \/ ReadTwins(p) \/ LookAgain(p)
        PROVE  CreatesKnownIds'
    <3>1. \A q \in Procs : proc'[q].pc = "create" => proc'[q] = proc[q]
      <4>1. CASE CreateMissing(p)
        BY <2>0, <4>1 DEF CreateMissing, Call
      <4>2. CASE ClaimGate(p)
        BY <2>0, <4>2 DEF ClaimGate, Finish, Idle, Call
      <4>3. CASE ReadTwins(p)
        BY <2>0, <4>3 DEF ReadTwins, Call
      <4>4. CASE LookAgain(p)
        BY <2>0, <4>4 DEF LookAgain, Call
      <4>5. QED
        BY <2>3, <4>1, <4>2, <4>3, <4>4
    <3>2. QED
      BY <3>1 DEF CreatesKnownIds
  <2>4. ASSUME NEW i \in Ids, SupersedeTwin(p, i)
        PROVE  CreatesKnownIds'
    <3>1. \A q \in Procs : proc'[q].pc = "create" => proc'[q] = proc[q]
      BY <2>0, <2>4 DEF SupersedeTwin, Call
    <3>2. QED
      BY <3>1 DEF CreatesKnownIds
  <2>5. ASSUME SettleGate(p)
        PROVE  CreatesKnownIds'
    <3>1. \A q \in Procs : proc'[q].pc = "create" => proc'[q] = proc[q]
      BY <2>0, <2>5 DEF SettleGate, Finish, Idle, Call
    <3>2. QED
      BY <3>1 DEF CreatesKnownIds
  <2>6. CASE MarkResuming(p) \/ ExpireGate(p)
    BY <1>2, <2>6 DEF MarkResuming, ExpireGate, Finish, Idle
  <2>7. ASSUME NEW i \in Ids, NEW outcome \in {None, "aborted"}, StartSettle(p, i, outcome)
        PROVE  CreatesKnownIds'
    <3>1. [Idle EXCEPT !.pc = "settle", !.target = i, !.outcome = outcome].pc = "settle"
      BY DEF Idle
    <3>2. QED
      BY <1>2, <2>7, <3>1 DEF StartSettle
  <2>8. ASSUME NEW i \in Ids, StartSweep(p, i)
        PROVE  CreatesKnownIds'
    <3>1. [Idle EXCEPT !.pc = "sweep", !.target = i, !.phase = gates[i].state].pc = "sweep"
      BY DEF Idle
    <3>2. QED
      BY <1>2, <2>8, <3>1 DEF StartSweep
  <2>9. QED
    BY <1>3, <2>1, <2>2, <2>3, <2>4, <2>5, <2>6, <2>7, <2>8 DEF Caller
<1>4. CASE Restart
  BY <1>4 DEF Restart, CreatesKnownIds, Idle
<1>5. QED
  BY <1>1, <1>3, <1>4 DEF Next, RegisterPause, RegisterBus, TimeoutGate, PruneGate

LEMMA TypeStep ==
  ASSUME TypeOK, CreatesKnownIds, Next
  PROVE  TypeOK'
<1>1. gates' \in [Ids -> Row]
  <2>1. ASSUME Registers
        PROVE  gates' \in [Ids -> Row]
    BY <2>1, RegisterType, IdSorts DEF Registers, TypeOK
  <2>2. QED
    BY <2>1, StepShape
<1>2. proc' \in [Procs -> Call]
  <2>1. Idle \in Call
    BY DEF Idle, Call, LiveStates
  <2>2. CASE Restart
    BY <2>1, <2>2 DEF Restart
  <2>3. QED
    BY <2>2, CallerType DEF Next, TypeOK, RegisterPause, RegisterBus, TimeoutGate, PruneGate
<1>3. QED
  BY <1>1, <1>2 DEF TypeOK

\* The naming of the live graph rows survives a step that neither makes one
\* nor renames one.
LEMMA KeptNames ==
  ASSUME GraphAlias, ArgsNamed, OneRowPerPause,
         \A i \in Ids \ BusIds : Live(i)' =>
           /\ Live(i)
           /\ gates'[i].alias = gates[i].alias
           /\ gates'[i].args = gates[i].args
  PROVE  GraphAlias' /\ ArgsNamed' /\ OneRowPerPause'
<1>1. \A i \in Ids \ BusIds : Live(i)' => Live(i) /\ Names(i)' = Names(i)
  BY DEF Names
<1>2. GraphAlias'
  BY DEF GraphAlias, Live, Question
<1>3. ArgsNamed'
  BY <1>1 DEF ArgsNamed, Question
<1>4. OneRowPerPause'
  BY <1>1 DEF OneRowPerPause
<1>5. QED
  BY <1>2, <1>3, <1>4

\* A new row, or the row an upgrade moves, names nothing that another live
\* graph row names.
LEMMA FreshNames ==
  ASSUME GraphAlias, ArgsNamed, OneRowPerPause,
         NEW r \in Ids \ BusIds, NEW h \in Ids \cup {None},
         h = None \/ (h = Question(r) /\ r \notin Hashes),
         gates'[r].alias = h,
         gates'[r].args => Question(r) \in {r, h},
         \A i \in Ids \ BusIds : i # r /\ Live(i)' =>
           /\ Live(i)
           /\ gates'[i].alias = gates[i].alias
           /\ gates'[i].args = gates[i].args
           /\ Names(i) \cap {r, h} = {}
  PROVE  GraphAlias' /\ ArgsNamed' /\ OneRowPerPause'
<1>1. Names(r)' = {r, h} \ {None}
  BY DEF Names
<1>2. \A i \in Ids \ BusIds : i # r /\ Live(i)' => Live(i) /\ Names(i)' = Names(i)
  BY DEF Names
<1>3. GraphAlias'
  BY DEF GraphAlias, Live, Question
<1>4. ArgsNamed'
  <2>1. None \notin Ids /\ Question(r) \in Ids
    BY IdSorts
  <2>2. QED
    BY <1>1, <1>2, <2>1 DEF ArgsNamed, Question
<1>5. OneRowPerPause'
  BY <1>1, <1>2 DEF OneRowPerPause
<1>6. QED
  BY <1>3, <1>4, <1>5

\* The heart of the argument: a registration keeps every live graph row of a
\* pause unique, whichever branch it takes.
LEMMA RegisterNames ==
  ASSUME RegistryInv, gates' \in [Ids -> Row], Registers
  PROVE  UndecidedUntilClaimed' /\ GraphAlias' /\ ArgsNamed' /\ OneRowPerPause'
<1> USE DEF RegistryInv, TypeOK
<1>1. PICK id \in Natives \cup Hashes \cup BusIds, args \in BOOLEAN,
           row \in Ids \cup {None}, alias \in Hashes \cup {None} :
             /\ RegisterGate(id, alias, args, row)
             /\ alias # None => id \in Natives /\ alias = HashOf[id]
             /\ args /\ id \notin BusIds => alias = Question(id) \/ id \in Hashes
  BY DEF Registers
<1>2. /\ id \in Ids /\ alias \in Ids \cup {None} /\ None \notin Ids
      /\ alias # None => alias \in Hashes /\ id \notin Hashes /\ alias = Question(id)
  BY <1>1, IdSorts, IdsAssumption DEF Question
\* No live graph row is named by an id that is not a hash, unless it is its own.
<1>3. \A i \in Ids \ BusIds : Live(i) => Names(i) \subseteq {i} \cup Hashes
  BY IdSorts DEF GraphAlias, Names
<1>4. CASE Upgrade(id, alias, row)
  <2>1. CASE gates' = gates
    BY <2>1, KeptNames DEF UndecidedUntilClaimed, Live
  <2>2. CASE gates' # gates
    <3>1. /\ alias \in FoundLive(id, alias) /\ gates[id].state = "absent"
          /\ gates' = [gates EXCEPT ![id] = [gates[alias] EXCEPT !.alias = alias],
                                    ![alias] = Absent]
      BY <1>4, <2>2 DEF Upgrade
    <3>2. alias \in Hashes /\ id \in Natives /\ id # alias /\ id \notin BusIds
          /\ alias \in Ids \ BusIds /\ id \notin Hashes /\ alias = Question(id)
      BY <3>1, <1>1, <1>2, FoundAreIds, IdSorts, IdsAssumption
    <3>3. Live(alias)
      BY <3>1 DEF FoundLive, LiveNaming
    <3>4. /\ gates'[id] = [gates[alias] EXCEPT !.alias = alias]
          /\ gates'[alias] = Absent
          /\ \A i \in Ids \ {id, alias} : gates'[i] = gates[i]
      BY <3>1, <3>2, <1>2
    <3>5. /\ gates'[id].alias = alias /\ gates'[id].state = gates[alias].state
          /\ gates'[id].decision = gates[alias].decision
      BY <3>4, <3>2 DEF Row
    <3>6. UndecidedUntilClaimed'
      <4>1. ASSUME NEW i \in Ids, gates'[i].state \in {"absent", "pending"}
            PROVE  gates'[i].decision = None
        <5>1. CASE i = id
          BY <4>1, <5>1, <3>2, <3>5 DEF UndecidedUntilClaimed
        <5>2. CASE i = alias
          BY <5>2, <3>4 DEF Absent
        <5>3. CASE i \in Ids \ {id, alias}
          BY <4>1, <5>3, <3>4 DEF UndecidedUntilClaimed
        <5>4. QED
          BY <5>1, <5>2, <5>3
      <4>2. QED
        BY <4>1 DEF UndecidedUntilClaimed
    <3>7. ~Live(alias)'
      BY <3>4, <3>2 DEF Live, Absent, LiveStates
    <3>8. \A i \in Ids \ BusIds : i # id /\ Live(i)' =>
            /\ Live(i)
            /\ gates'[i].alias = gates[i].alias
            /\ gates'[i].args = gates[i].args
            /\ Names(i) \cap {id, alias} = {}
      <4>1. alias \in Names(alias)
        BY <3>2, <1>2 DEF Names
      <4>2. QED
        BY <3>2, <3>3, <3>4, <3>7, <4>1, <1>3 DEF Live, OneRowPerPause
    <3>9. QED
      BY <3>2, <3>5, <3>6, <3>8, <1>2, FreshNames
  <2>3. QED
    BY <2>1, <2>2
<1>5. CASE AlreadyLive(id, alias, row)
  BY <1>5, KeptNames DEF AlreadyLive, UndecidedUntilClaimed, Live
<1>6. CASE AdoptTwin(id, alias, args, row)
  <2>1. /\ row \in Ids /\ Live(row) /\ args /\ id \notin BusIds
        /\ gates[row].args /\ Question(row) = Question(id)
    BY <1>6 DEF AdoptTwin, SameArgs
  <2>2. row \in BusIds
    <3>1. SUFFICES ASSUME row \notin BusIds
                   PROVE  FALSE
      OBVIOUS
    <3>2. row \in LiveNaming(Question(id))
      BY <2>1, <3>1 DEF ArgsNamed, LiveNaming
    <3>3. FoundLive(id, alias) # {}
      <4>1. CASE id \in Hashes
        BY <3>2, <4>1, <1>2 DEF FoundLive, Question
      <4>2. CASE id \notin Hashes
        <5>1. alias = Question(id) /\ Question(id) # None
          BY <4>2, <2>1, <1>1, <1>2, IdSorts
        <5>2. QED
          BY <3>2, <5>1 DEF FoundLive
      <4>3. QED
        BY <4>1, <4>2
    <3>4. QED
      BY <3>3, <1>6 DEF AdoptTwin
  <2>3. /\ \A i \in Ids \ {row} : gates'[i] = gates[i]
        /\ gates'[row].state = gates[row].state
        /\ gates'[row].decision = gates[row].decision
    BY <1>6, <2>1 DEF AdoptTwin, Row
  <2>4. UndecidedUntilClaimed'
    BY <2>1, <2>3 DEF UndecidedUntilClaimed
  <2>5. QED
    BY <2>2, <2>3, <2>4, KeptNames DEF Live
<1>7. CASE Insert(id, alias, args, row)
  <2>1. LiveNaming(id) = {} /\ (alias # None => LiveNaming(alias) = {})
    BY <1>7 DEF Insert, FoundLive
  <2>2. CASE gates' = gates
    BY <2>2, KeptNames DEF UndecidedUntilClaimed, Live
  <2>3. ASSUME gates[id].state = "absent", gates' = [gates EXCEPT ![id] = NewRow(alias, args)]
        PROVE  UndecidedUntilClaimed' /\ GraphAlias' /\ ArgsNamed' /\ OneRowPerPause'
    <3>1. /\ gates'[id] = NewRow(alias, args)
          /\ \A i \in Ids \ {id} : gates'[i] = gates[i]
      BY <2>3, <1>2
    <3>2. gates'[id].alias = alias /\ gates'[id].args = args /\ gates'[id].decision = None
      BY <3>1 DEF NewRow
    <3>3. UndecidedUntilClaimed'
      BY <3>1, <3>2 DEF UndecidedUntilClaimed
    <3>4. CASE id \in BusIds
      BY <3>1, <3>3, <3>4, KeptNames DEF Live
    <3>5. CASE id \notin BusIds
      <4>1. \A i \in Ids \ BusIds : i # id /\ Live(i)' =>
              /\ Live(i)
              /\ gates'[i].alias = gates[i].alias
              /\ gates'[i].args = gates[i].args
              /\ Names(i) \cap {id, alias} = {}
        <5>1. \A i \in Ids : Live(i) => id \notin Names(i) /\ alias \notin Names(i)
          BY <2>1 DEF LiveNaming, Names
        <5>2. QED
          BY <3>1, <5>1 DEF Live
      <4>2. args => Question(id) \in {id, alias}
        BY <3>5, <1>1 DEF Question
      <4>3. QED
        BY <3>2, <3>3, <3>5, <4>1, <4>2, <1>2, FreshNames
    <3>6. QED
      BY <3>4, <3>5
  <2>4. ASSUME id \in Hashes, row \in Retries, HashOf[row] = id, gates[row].state = "absent",
               gates' = [gates EXCEPT ![row] = NewRow(id, args)]
        PROVE  UndecidedUntilClaimed' /\ GraphAlias' /\ ArgsNamed' /\ OneRowPerPause'
    <3>1. row \in Ids \ BusIds /\ row \notin Hashes /\ Question(row) = id
      BY <2>4, IdSorts, IdsAssumption DEF Question
    <3>2. /\ gates'[row] = NewRow(id, args)
          /\ \A i \in Ids \ {row} : gates'[i] = gates[i]
      BY <2>4, <3>1
    <3>3. gates'[row].alias = id /\ gates'[row].args = args /\ gates'[row].decision = None
      BY <3>2 DEF NewRow
    <3>4. UndecidedUntilClaimed'
      BY <3>2, <3>3 DEF UndecidedUntilClaimed
    <3>5. \A i \in Ids \ BusIds : i # row /\ Live(i)' =>
            /\ Live(i)
            /\ gates'[i].alias = gates[i].alias
            /\ gates'[i].args = gates[i].args
            /\ Names(i) \cap {row, id} = {}
      <4>1. \A i \in Ids : Live(i) => id \notin Names(i)
        BY <2>1 DEF LiveNaming
      <4>2. QED
        BY <3>1, <3>2, <4>1, <1>3 DEF Live
    <3>6. QED
      BY <3>1, <3>3, <3>4, <3>5, <1>2, FreshNames
  <2>5. row \in Retries => HashOf[row] \in Hashes
    BY IdsAssumption
  <2>6. QED
    BY <1>7, <2>2, <2>3, <2>4, <2>5 DEF Insert
<1>8. QED
  BY <1>1, <1>4, <1>5, <1>6, <1>7 DEF RegisterGate

\* Every other step only ends rows, decides them or moves them on.
LEMMA RowStepNames ==
  ASSUME RegistryInv, \A i \in Ids : RowStep(i)
  PROVE  UndecidedUntilClaimed' /\ GraphAlias' /\ ArgsNamed' /\ OneRowPerPause'
<1>1. ASSUME NEW i \in Ids, Live(i)'
      PROVE  /\ Live(i)
             /\ gates'[i].alias = gates[i].alias
             /\ gates'[i].args = gates[i].args
  BY <1>1 DEF RowStep, Live, Absent, LiveStates
<1>2. UndecidedUntilClaimed'
  BY DEF RowStep, UndecidedUntilClaimed, RegistryInv, Absent, LiveStates, FinalStates
<1>3. QED
  BY <1>1, <1>2, KeptNames DEF RegistryInv

LEMMA InvInit == Init => RegistryInv
<1> SUFFICES ASSUME Init
             PROVE  RegistryInv
  OBVIOUS
<1>1. \A i \in Ids : gates[i] = Absent
  BY DEF Init
<1>2. \A i \in Ids : ~Live(i)
  BY <1>1 DEF Live, Absent, LiveStates
<1>3. CreatesKnownIds
  BY DEF Init, CreatesKnownIds, Idle
<1>4. UndecidedUntilClaimed
  BY <1>1 DEF UndecidedUntilClaimed, Absent
<1>5. QED
  BY <1>2, <1>3, <1>4, TypeInit DEF RegistryInv, GraphAlias, ArgsNamed, OneRowPerPause

LEMMA InvStep == RegistryInv /\ [Next]_vars => RegistryInv'
<1> SUFFICES ASSUME RegistryInv, [Next]_vars
             PROVE  RegistryInv'
  OBVIOUS
<1>1. CASE Next
  <2>1. TypeOK' /\ CreatesKnownIds'
    BY <1>1, TypeStep, CreateStep DEF RegistryInv
  <2>2. UndecidedUntilClaimed' /\ GraphAlias' /\ ArgsNamed' /\ OneRowPerPause'
    BY <1>1, <2>1, StepShape, RegisterNames, RowStepNames DEF RegistryInv, TypeOK
  <2>3. QED
    BY <2>1, <2>2 DEF RegistryInv
<1>2. CASE UNCHANGED vars
  BY <1>2 DEF vars, RegistryInv, TypeOK, CreatesKnownIds, UndecidedUntilClaimed,
              GraphAlias, ArgsNamed, OneRowPerPause, Live, Names, Question
<1>3. QED
  BY <1>1, <1>2

----------------------------------------------------------------------------
(* The results.                                                            *)

\* The strengthened invariant: every part of it holds in every reachable state.
THEOREM RegistrySafe == Spec => []RegistryInv
BY InvInit, InvStep, PTL DEF Spec

\* Type correctness of the table and of every caller's place.
THEOREM GatesTypeOK == Spec => []TypeOK
<1>1. RegistryInv => TypeOK
  BY DEF RegistryInv
<1>2. QED
  BY <1>1, RegistrySafe, PTL

\* However often and under whichever of its ids a pause is registered
\* (register_gate, called by the stream, the platform path and the turn end),
\* it never has two live rows.
THEOREM OnePausePerRow == Spec => []OneRowPerPause
<1>1. RegistryInv => OneRowPerPause
  BY DEF RegistryInv
<1>2. QED
  BY <1>1, RegistrySafe, PTL

\* A question is asked by at most one live graph row that holds its arguments:
\* no ghost row survives next to the real one.
THEOREM OneQuestionPerRow == Spec => []OneRowPerQuestion
<1>1. RegistryInv => OneRowPerQuestion
  <2> SUFFICES ASSUME RegistryInv,
                      NEW i \in Ids \ BusIds, NEW j \in Ids \ BusIds,
                      Live(i), Live(j), gates[i].args, gates[j].args,
                      Question(i) = Question(j)
               PROVE  i = j
    BY DEF OneRowPerQuestion
  <2>1. Question(i) \in Names(i) /\ Question(i) \in Names(j)
    BY DEF RegistryInv, ArgsNamed
  <2>2. QED
    BY <2>1 DEF RegistryInv, OneRowPerPause
<1>2. QED
  BY <1>1, RegistrySafe, PTL

\* What a registration may do to a row: leave it, rename a live one, move it
\* under its real id with its decision, or fill an absent one.
LEMMA RegisterRows ==
  ASSUME RegistryInv, gates' \in [Ids -> Row], Registers, NEW i \in Ids
  PROVE  \/ gates[i].state = "absent"
         \/ gates'[i].state = gates[i].state /\ gates'[i].decision = gates[i].decision
            /\ (gates'[i] = gates[i] \/ Live(i))
         \/ /\ Live(i) /\ gates'[i] = Absent
            /\ \E j \in Ids : gates'[j].alias = i /\ gates'[j].decision = gates[i].decision
<1> USE DEF RegistryInv, TypeOK
<1>1. PICK id \in Ids, args \in BOOLEAN, row \in Ids \cup {None}, alias \in Ids \cup {None} :
             RegisterGate(id, alias, args, row)
  BY IdSorts DEF Registers
<1>2. CASE Upgrade(id, alias, row) /\ gates' # gates
  <2>1. /\ alias \in FoundLive(id, alias) /\ gates[id].state = "absent"
        /\ gates' = [gates EXCEPT ![id] = [gates[alias] EXCEPT !.alias = alias],
                                  ![alias] = Absent]
    BY <1>2 DEF Upgrade
  <2>2. alias \in Ids /\ Live(alias) /\ id # alias
    BY <2>1 DEF FoundLive, LiveNaming, Live, LiveStates
  <2>3. /\ gates'[id] = [gates[alias] EXCEPT !.alias = alias]
        /\ gates'[alias] = Absent
        /\ \A k \in Ids \ {id, alias} : gates'[k] = gates[k]
    BY <2>1, <2>2
  <2>4. gates'[id].alias = alias /\ gates'[id].decision = gates[alias].decision
    BY <2>2, <2>3 DEF Row
  <2>5. QED
    BY <2>1, <2>2, <2>3, <2>4
<1>3. CASE AdoptTwin(id, alias, args, row)
  <2>1. row \in Ids /\ Live(row)
    BY <1>3 DEF AdoptTwin, SameArgs
  <2>2. /\ \A k \in Ids \ {row} : gates'[k] = gates[k]
        /\ gates'[row].state = gates[row].state
        /\ gates'[row].decision = gates[row].decision
    BY <1>3, <2>1 DEF AdoptTwin, Row
  <2>3. QED
    BY <2>1, <2>2
<1>4. CASE Insert(id, alias, args, row) /\ gates' # gates
  <2>1. PICK r \in Ids : gates[r].state = "absent"
                         /\ \A k \in Ids \ {r} : gates'[k] = gates[k]
    BY <1>4, IdSorts DEF Insert
  <2>2. QED
    BY <2>1
<1>5. CASE gates' = gates
  BY <1>5
<1>6. QED
  BY <1>1, <1>2, <1>3, <1>4, <1>5 DEF RegisterGate, AlreadyLive

\* No step changes a finished row: not a stale sweep, settle or claim, nor a
\* registration under its id; a row of 90 days is removed.
THEOREM FinishedForGood == Spec => FinishedStaysFinished
<1>1. ASSUME RegistryInv, Next, NEW i \in Ids, Final(i)
      PROVE  gates'[i] = gates[i] \/ gates'[i] = Absent
  <2>1. ~Live(i) /\ gates[i].state # "absent"
    BY <1>1 DEF Final, Live, FinalStates, LiveStates
  <2>2. TypeOK'
    BY <1>1, TypeStep DEF RegistryInv
  <2>3. Registers \/ RowStep(i)
    BY <1>1, StepShape DEF RegistryInv
  <2>4. CASE Registers
    BY <1>1, <2>1, <2>2, <2>4, RegisterRows DEF TypeOK
  <2>5. CASE RowStep(i)
    BY <2>1, <2>5 DEF RowStep
  <2>6. QED
    BY <2>3, <2>4, <2>5
<1>2. RegistryInv /\ [Next]_vars =>
        [\A i \in Ids : Final(i) => gates'[i] = gates[i] \/ gates'[i] = Absent]_vars
  BY <1>1
<1>3. QED
  BY <1>2, RegistrySafe, PTL DEF Spec, FinishedStaysFinished

\* A recorded answer is never replaced by another caller's, on any path.
THEOREM AnswersKept == Spec => DecisionKept
<1> DEFINE Kept(i) ==
       \/ gates'[i].decision \in {gates[i].decision, "aborted"}
       \/ /\ gates'[i] = Absent
          /\ \/ Final(i)
             \/ \E j \in Ids : /\ gates'[j].alias = i
                               /\ gates'[j].decision = gates[i].decision
<1>1. ASSUME RegistryInv, Next, NEW i \in Ids, gates[i].decision \in Procs
      PROVE  Kept(i)
  <2>1. gates[i].state \notin {"absent", "pending"}
    BY <1>1, IdsAssumption DEF RegistryInv, UndecidedUntilClaimed
  <2>2. TypeOK'
    BY <1>1, TypeStep DEF RegistryInv
  <2>3. Registers \/ RowStep(i)
    BY <1>1, StepShape DEF RegistryInv
  <2>4. CASE Registers
    BY <1>1, <2>1, <2>2, <2>4, RegisterRows DEF TypeOK
  <2>5. CASE RowStep(i)
    BY <2>1, <2>5 DEF RowStep
  <2>6. QED
    BY <2>3, <2>4, <2>5
<1>2. RegistryInv /\ [Next]_vars =>
        [\A i \in Ids : gates[i].decision \in Procs => Kept(i)]_vars
  BY <1>1
<1>3. QED
  BY <1>2, RegistrySafe, PTL DEF Spec, DecisionKept

----------------------------------------------------------------------------
(* The winner of a claim. Under a native id every lookup leads to the row  *)
(* of that id, or to a bus request's row that a pause has adopted: other   *)
(* rows are named by hashes only. So the winner is at the row its card     *)
(* names, and there its answer stays until the row is finished.            *)

AliasSorts == \A i \in Ids \ BusIds : gates[i].alias \in Hashes \cup {None}

Adopted(i) == i \in BusIds /\ gates[i].state # "absent" /\ gates[i].alias # None

Won(i, p) == gates[i].decision = p /\ gates[i].state \in {"claimed", "resuming"}

\* A caller with a native card is at the row of the card, or at an adopted one.
Aimed(p) ==
  proc[p].card \in Natives =>
    /\ proc[p].pc = "create" => proc[p].target = proc[p].card
    /\ proc[p].pc = "claim" => proc[p].target = proc[p].card \/ Adopted(proc[p].target)

Winner(p) ==
  proc[p].card \in Natives /\ proc[p].pc \in {"claimed", "twins", "resume"} =>
    \/ \E i \in BusIds : Adopted(i)
    \/ Final(proc[p].card)
    \/ Won(proc[p].card, p)

WinnerInv == RegistryInv /\ AliasSorts /\ \A p \in Procs : Aimed(p) /\ Winner(p)

\* What no step takes from the row of a native or bus id while a call is in
\* progress: its end, its adoption, its winner.
Keeps(i) ==
  /\ Final(i) => Final(i)'
  /\ Adopted(i) => Adopted(i)'
  /\ \A p \in Procs : Won(i, p) => Won(i, p)' \/ Final(i)'

LEMMA NativeSorts ==
  ASSUME NEW i \in Natives
  PROVE  i \in Ids /\ i \notin Hashes /\ i \notin BusIds /\ i # None
BY IdsAssumption DEF Ids

LEMMA RegisterKeeps ==
  ASSUME RegistryInv, AliasSorts, gates' \in [Ids -> Row], Registers
  PROVE  AliasSorts' /\ \A i \in Ids \ Hashes : Keeps(i)
<1> USE DEF RegistryInv, TypeOK
<1>1. PICK id \in Natives \cup Hashes \cup BusIds, args \in BOOLEAN, row \in Ids \cup {None},
           alias \in Hashes \cup {None} :
        /\ RegisterGate(id, alias, args, row)
        /\ args /\ id \notin BusIds => alias = Question(id) \/ id \in Hashes
  BY DEF Registers
<1>2. id \in Ids
  BY IdSorts
<1>3. ASSUME NEW i \in Ids, gates'[i] = gates[i]
      PROVE  Keeps(i) /\ (i \notin BusIds => gates'[i].alias \in Hashes \cup {None})
  BY <1>3 DEF Keeps, Final, Adopted, Won, AliasSorts
<1>4. ASSUME NEW i \in Ids, gates[i].state = "absent"
      PROVE  Keeps(i)
  BY <1>4 DEF Keeps, Final, Adopted, Won, FinalStates
<1>5. CASE Upgrade(id, alias, row) /\ gates' # gates
  <2>1. /\ alias \in FoundLive(id, alias) /\ gates[id].state = "absent"
        /\ gates' = [gates EXCEPT ![id] = [gates[alias] EXCEPT !.alias = alias],
                                  ![alias] = Absent]
    BY <1>5 DEF Upgrade
  <2>2. alias \in Hashes /\ alias \in Ids
    BY <2>1, FoundAreIds, IdSorts
  <2>3. id # alias
    BY <2>1 DEF FoundLive, LiveNaming, Live, LiveStates
  <2>4. /\ gates'[id].alias = alias /\ gates'[alias].alias = None
        /\ \A i \in Ids \ {id, alias} : gates'[i] = gates[i]
    BY <1>2, <2>1, <2>2, <2>3 DEF Row, Absent
  <2>5. QED
    BY <1>3, <1>4, <2>1, <2>2, <2>4 DEF AliasSorts
<1>6. CASE AdoptTwin(id, alias, args, row)
  <2>1. /\ FoundLive(id, alias) = {} /\ row \in SameArgs(id, args)
        /\ gates' = [gates EXCEPT ![row].alias = IF @ = None THEN id ELSE @]
    BY <1>6 DEF AdoptTwin
  <2>2. /\ row \in Ids /\ Live(row) /\ gates[row].args
        /\ Question(row) = Question(id) /\ args /\ id \notin BusIds
    BY <2>1 DEF SameArgs
  <2>3. /\ \A i \in Ids \ {row} : gates'[i] = gates[i]
        /\ gates'[row].state = gates[row].state
        /\ gates'[row].decision = gates[row].decision
        /\ gates'[row].alias = IF gates[row].alias = None THEN id ELSE gates[row].alias
    BY <2>1, <2>2 DEF Row
  <2>4. Keeps(row)
    BY <2>3, <1>2, IdSorts DEF Keeps, Final, Adopted, Won
  <2>5. row \notin BusIds => id \in Hashes
    <3>1. SUFFICES ASSUME row \notin BusIds, alias = Question(id)
                   PROVE  FALSE
      BY <1>1, <2>2
    <3>2. Question(row) \in Names(row)
      BY <2>2, <3>1 DEF ArgsNamed
    <3>3. row \in LiveNaming(alias) /\ alias # None
      BY <1>2, <2>2, <3>1, <3>2, IdSorts DEF LiveNaming
    <3>4. QED
      BY <2>1, <3>3 DEF FoundLive
  <2>6. row \notin BusIds => gates'[row].alias \in Hashes \cup {None}
    BY <2>2, <2>3, <2>5 DEF AliasSorts
  <2>7. QED
    BY <1>3, <2>2, <2>3, <2>4, <2>6 DEF AliasSorts
<1>7. CASE Insert(id, alias, args, row) /\ gates' # gates
  <2>1. PICK r \in Ids, n \in Hashes \cup {None} :
          gates[r].state = "absent" /\ gates' = [gates EXCEPT ![r] = NewRow(n, args)]
    <3>1. row \in Retries => HashOf[row] \in Hashes
      BY IdsAssumption
    <3>2. CASE gates[id].state = "absent" /\ gates' = [gates EXCEPT ![id] = NewRow(alias, args)]
      BY <1>2, <3>2
    <3>3. CASE /\ row \in Retries /\ gates[row].state = "absent" /\ id = HashOf[row]
               /\ gates' = [gates EXCEPT ![row] = NewRow(id, args)]
      BY <3>1, <3>3, IdSorts
    <3>4. QED
      BY <1>7, <3>2, <3>3 DEF Insert
  <2>2. gates'[r].alias = n /\ \A i \in Ids \ {r} : gates'[i] = gates[i]
    BY <2>1 DEF NewRow
  <2>3. QED
    BY <1>3, <1>4, <2>1, <2>2 DEF AliasSorts
<1>8. CASE gates' = gates
  BY <1>3, <1>8 DEF AliasSorts
<1>9. QED
  BY <1>1, <1>5, <1>6, <1>7, <1>8 DEF RegisterGate, AlreadyLive

LEMMA RowStepKeeps ==
  ASSUME RegistryInv, AliasSorts, \A i \in Ids : RowStep(i)
  PROVE  /\ AliasSorts'
         /\ (\E p \in Procs : proc'[p] # Idle) => \A i \in Ids \ Hashes : Keeps(i)
<1>1. AliasSorts'
  <2>1. ASSUME NEW i \in Ids PROVE gates'[i].alias \in {gates[i].alias, None}
    BY DEF RowStep, Absent
  <2>2. QED
    BY <2>1 DEF AliasSorts
<1>2. ASSUME NEW i \in Ids, NEW p \in Procs, proc'[p] # Idle
      PROVE  Keeps(i)
  <2>1. CASE gates'[i] = gates[i]
    BY <2>1 DEF Keeps, Final, Adopted, Won
  <2>2. CASE gates'[i] # gates[i]
    <3>1. /\ Live(i)
          /\ gates'[i].state \in LiveStates \cup FinalStates
          /\ gates'[i].state = "pending" => gates[i].state = "pending"
          /\ gates'[i].alias = gates[i].alias
          /\ \/ gates'[i].decision = gates[i].decision
             \/ gates[i].state = "pending"
             \/ gates'[i].state \in FinalStates
      BY <1>2, <2>2 DEF RowStep
    <3>2. QED
      BY <3>1 DEF Keeps, Live, Final, Adopted, Won, LiveStates, FinalStates
  <2>3. QED
    BY <2>1, <2>2
<1>3. QED
  BY <1>1, <1>2

LEMMA StepKeeps ==
  ASSUME RegistryInv, AliasSorts, Next
  PROVE  /\ AliasSorts'
         /\ (\E p \in Procs : proc'[p] # Idle) => \A i \in Ids \ Hashes : Keeps(i)
<1>1. TypeOK'
  BY TypeStep DEF RegistryInv
<1>2. CASE Registers
  BY <1>1, <1>2, RegisterKeeps DEF TypeOK
<1>3. CASE \A i \in Ids : RowStep(i)
  BY <1>3, RowStepKeeps
<1>4. QED
  BY <1>2, <1>3, StepShape DEF RegistryInv

\* A lookup by a native id.
LEMMA NativeLookup ==
  ASSUME AliasSorts, NEW c \in Natives, NEW i \in GateFor(c)
  PROVE  i = c \/ Adopted(i)
<1>1. CASE gates[c].state # "absent"
  BY <1>1 DEF GateFor
<1>2. CASE gates[c].state = "absent" /\ i # c
  <2>1. i \in Ids /\ (Live(i) \/ Final(i)) /\ gates[i].alias = c
    BY <1>2 DEF GateFor, LiveNaming, Names
  <2>2. QED
    BY <2>1, NativeSorts DEF AliasSorts, Adopted, Live, Final, LiveStates, FinalStates
<1>3. QED
  BY <1>1, <1>2

\* The row created for a pause the registry missed.
LEMMA NativeCreate ==
  ASSUME AliasSorts, NEW c \in Natives, NEW row \in Ids, RegisterGate(c, None, FALSE, row)
  PROVE  row = c \/ Adopted(row)
<1>1. FoundLive(c, None) = LiveNaming(c)
  BY DEF FoundLive
<1>2. ASSUME row \in LiveNaming(c) PROVE row = c \/ Adopted(row)
  BY <1>2, NativeSorts DEF LiveNaming, Names, AliasSorts, Adopted, Live, LiveStates
<1>3. ~Upgrade(c, None, row)
  BY <1>1, IdSorts DEF Upgrade, LiveNaming
<1>4. ~AdoptTwin(c, None, FALSE, row)
  BY DEF AdoptTwin, SameArgs
<1>5. CASE AlreadyLive(c, None, row)
  BY <1>1, <1>2, <1>5 DEF AlreadyLive
<1>6. CASE Insert(c, None, FALSE, row)
  BY <1>6, NativeSorts, IdSorts, IdsAssumption DEF Insert
<1>7. QED
  BY <1>3, <1>4, <1>5, <1>6 DEF RegisterGate

\* Where a step may bring a caller.
Advance(p) ==
  LET q == proc[p]
      r == proc'[p]
  IN \/ r = q
     \/ r.pc \in {"idle", "settle", "sweep"}
     \/ r.pc = "create" /\ (r.card # None => r.target = r.card)
     \/ r.pc = "claim" /\ gates' = gates /\ r.target \in GateFor(r.card)
     \/ r.pc = "claim" /\ r.target = r.card
     \/ r.pc = "claim" /\ q.pc = "create" /\ r.card = q.card
          /\ r.target \in Ids /\ RegisterGate(q.target, None, FALSE, r.target)
     \/ /\ r.pc = "claimed" /\ q.pc = "claim" /\ r.card = q.card
        /\ gates[q.target].state = "pending"
        /\ gates' = [gates EXCEPT ![q.target].state = "claimed", ![q.target].decision = p]
     \/ r.pc \in {"twins", "resume"} /\ q.pc \in {"claimed", "twins"} /\ r.card = q.card

LEMMA StepAdvance ==
  ASSUME TypeOK, Next, NEW p \in Procs
  PROVE  Advance(p)
<1> USE DEF TypeOK
<1>0. proc[p] \in Call
  OBVIOUS
<1>1. CASE proc'[p] = proc[p]
  BY <1>1 DEF Advance
<1>2. CASE Restart
  BY <1>2 DEF Restart, Idle, Advance
<1>3. ASSUME NEW q \in Procs, Caller(q), q # p
      PROVE  proc'[p] = proc[p]
  BY <1>3 DEF Caller, DecideCard, DecideForThread, CreateMissing, ClaimGate, ReadTwins,
              SupersedeTwin, LookAgain, MarkResuming, StartSettle, SettleGate, StartSweep,
              ExpireGate, Goto, Finish
<1>4. ASSUME NEW card \in Ids, DecideCard(p, card) PROVE Advance(p)
  <2>1. CASE \E row \in GateFor(card) :
               proc' = [proc EXCEPT ![p] = [Idle EXCEPT !.pc = "claim", !.card = card, !.target = row]]
    <3>1. PICK row \in GateFor(card) :
            proc'[p] = [Idle EXCEPT !.pc = "claim", !.card = card, !.target = row]
      BY <2>1
    <3>2. proc'[p].pc = "claim" /\ proc'[p].card = card /\ proc'[p].target = row
      BY <3>1 DEF Idle
    <3>3. QED
      BY <1>4, <3>2 DEF DecideCard, Advance
  <2>2. CASE proc' = [proc EXCEPT ![p] = [Idle EXCEPT !.pc = "create", !.card = card, !.target = card]]
    <3>1. proc'[p].pc = "create" /\ proc'[p].card = card /\ proc'[p].target = card
      BY <2>2 DEF Idle
    <3>2. QED
      BY <3>1 DEF Advance
  <2>3. QED
    BY <1>4, <2>1, <2>2 DEF DecideCard
<1>5. ASSUME NEW question \in Hashes, DecideForThread(p, question) PROVE Advance(p)
  <2>1. CASE proc' = [proc EXCEPT ![p] = [Idle EXCEPT !.pc = "create", !.target = question]]
    <3>1. proc'[p].pc = "create" /\ proc'[p].card = None
      BY <2>1 DEF Idle
    <3>2. QED
      BY <3>1 DEF Advance
  <2>2. CASE \E row \in Ids :
               proc' = [proc EXCEPT ![p] = [Idle EXCEPT !.pc = "claim", !.card = row, !.target = row]]
    <3>1. PICK row \in Ids :
            proc'[p] = [Idle EXCEPT !.pc = "claim", !.card = row, !.target = row]
      BY <2>2
    <3>2. proc'[p].pc = "claim" /\ proc'[p].card = proc'[p].target
      BY <3>1 DEF Idle
    <3>3. QED
      BY <3>2 DEF Advance
  <2>3. QED
    BY <1>5, <2>1, <2>2 DEF DecideForThread
<1>6. CASE CreateMissing(p)
  <2>1. PICK row \in Ids :
          /\ RegisterGate(proc[p].target, None, FALSE, row)
          /\ proc' = [proc EXCEPT ![p].pc = "claim", ![p].target = row,
                                  ![p].card = IF @ = None THEN row ELSE @]
    BY <1>6 DEF CreateMissing
  <2>2. /\ proc'[p].pc = "claim" /\ proc'[p].target = row
        /\ proc'[p].card = IF proc[p].card = None THEN row ELSE proc[p].card
    BY <1>0, <2>1 DEF Call
  <2>3. QED
    BY <1>6, <2>1, <2>2 DEF CreateMissing, Advance
<1>7. CASE ClaimGate(p)
  BY <1>0, <1>7 DEF ClaimGate, Finish, Idle, Call, Advance
<1>8. CASE ReadTwins(p)
  BY <1>0, <1>8 DEF ReadTwins, Call, Advance
<1>9. ASSUME NEW i \in Ids, SupersedeTwin(p, i) PROVE Advance(p)
  BY <1>0, <1>9 DEF SupersedeTwin, Call, Advance
<1>10. CASE LookAgain(p)
  BY <1>0, <1>10 DEF LookAgain, Call, Advance
<1>11. CASE MarkResuming(p) \/ ExpireGate(p)
  <2>1. proc'[p] = Idle
    BY <1>11 DEF MarkResuming, ExpireGate, Finish
  <2>2. QED
    BY <2>1 DEF Idle, Advance
<1>12. ASSUME NEW i \in Ids, NEW outcome \in {None, "aborted"}, StartSettle(p, i, outcome)
       PROVE  Advance(p)
  BY <1>12 DEF StartSettle, Idle, Advance
<1>13. CASE SettleGate(p)
  BY <1>0, <1>13 DEF SettleGate, Finish, Idle, Call, Advance
<1>14. ASSUME NEW i \in Ids, StartSweep(p, i) PROVE Advance(p)
  BY <1>14 DEF StartSweep, Idle, Advance
<1>15. ASSUME Caller(p) PROVE Advance(p)
  BY <1>4, <1>5, <1>6, <1>7, <1>8, <1>9, <1>10, <1>11, <1>12, <1>13, <1>14, <1>15 DEF Caller
<1>16. QED
  BY <1>1, <1>2, <1>3, <1>15 DEF Next, RegisterPause, RegisterBus, TimeoutGate, PruneGate

LEMMA WinnerStep ==
  ASSUME WinnerInv, Next, NEW p \in Procs
  PROVE  Aimed(p)' /\ Winner(p)'
<1> DEFINE q == proc[p]
           r == proc'[p]
<1>1. /\ RegistryInv /\ TypeOK /\ AliasSorts /\ Aimed(p) /\ Winner(p) /\ Advance(p)
      /\ q \in Call /\ gates \in [Ids -> Row]
  BY StepAdvance DEF WinnerInv, RegistryInv, TypeOK
<1>2. CASE r.pc \in {"idle", "settle", "sweep"} \/ r.card \notin Natives
  BY <1>2 DEF Aimed, Winner
<1>3. CASE r.pc \notin {"idle", "settle", "sweep"} /\ r.card \in Natives
  <2>1. r # Idle
    BY <1>3 DEF Idle
  <2>2. \A i \in Ids \ Hashes : Keeps(i)
    BY <1>1, <2>1, StepKeeps
  <2>3. \A i \in BusIds : i \in Ids \ Hashes
    BY IdsAssumption DEF Ids
  <2>4. \A i : Adopted(i) => Adopted(i)'
    BY <2>2, <2>3 DEF Adopted, Keeps
  <2>5. PICK c \in Natives : c = r.card /\ c \in Ids \ Hashes /\ c # None
    BY <1>3, NativeSorts
  <2>6. CASE r = q
    <3>1. Aimed(p)'
      BY <1>1, <2>4, <2>6 DEF Aimed
    <3>2. Winner(p)'
      BY <1>1, <2>2, <2>4, <2>5, <2>6 DEF Winner, Keeps
    <3>3. QED
      BY <3>1, <3>2
  <2>7. CASE r.pc = "create" /\ r.target = r.card
    BY <2>7 DEF Aimed, Winner
  <2>8. CASE r.pc = "claim" /\ (r.target = r.card \/ Adopted(r.target))
    BY <2>4, <2>8 DEF Aimed, Winner
  <2>9. CASE r.pc = "claim" /\ gates' = gates /\ r.target \in GateFor(r.card)
    BY <1>1, <1>3, <2>8, <2>9, NativeLookup
  <2>10. CASE /\ r.pc = "claim" /\ q.pc = "create" /\ r.card = q.card
              /\ r.target \in Ids /\ RegisterGate(q.target, None, FALSE, r.target)
    <3>1. q.target = r.card
      BY <1>1, <1>3, <2>10 DEF Aimed
    <3>2. r.target = r.card \/ Adopted(r.target)
      BY <1>1, <1>3, <2>10, <3>1, NativeCreate
    <3>3. QED
      BY <2>8, <2>10, <3>2
  <2>11. CASE /\ r.pc = "claimed" /\ q.pc = "claim" /\ r.card = q.card
              /\ gates[q.target].state = "pending"
              /\ gates' = [gates EXCEPT ![q.target].state = "claimed", ![q.target].decision = p]
    <3>1. q.target = c \/ Adopted(q.target)
      BY <1>1, <2>5, <2>11 DEF Aimed
    <3>2. ASSUME q.target = c PROVE Won(c, p)'
      <4>1. gates'[c] = [gates[c] EXCEPT !.state = "claimed", !.decision = p]
        BY <1>1, <2>5, <2>11, <3>2
      <4>2. gates[c] \in Row
        BY <1>1, <2>5
      <4>3. gates'[c].state = "claimed" /\ gates'[c].decision = p
        BY <4>1, <4>2 DEF Row
      <4>4. QED
        BY <4>3 DEF Won
    <3>3. Adopted(q.target) => \E i \in BusIds : Adopted(i)'
      BY <2>4 DEF Adopted
    <3>4. (\E i \in BusIds : Adopted(i)') \/ Won(c, p)'
      BY <3>1, <3>2, <3>3
    <3>5. QED
      BY <2>5, <2>11, <3>4 DEF Aimed, Winner
  <2>12. CASE r.pc \in {"twins", "resume"} /\ q.pc \in {"claimed", "twins"} /\ r.card = q.card
    <3>1. (\E i \in BusIds : Adopted(i)) \/ Final(c) \/ Won(c, p)
      BY <1>1, <2>5, <2>12 DEF Winner
    <3>2. (\E i \in BusIds : Adopted(i)') \/ Final(c)' \/ Won(c, p)'
      BY <2>2, <2>4, <2>5, <3>1 DEF Keeps
    <3>3. QED
      BY <2>5, <2>12, <3>2 DEF Aimed, Winner
  <2>13. QED
    BY <1>1, <1>3, <2>5, <2>6, <2>7, <2>8, <2>9, <2>10, <2>11, <2>12 DEF Advance
<1>4. QED
  BY <1>2, <1>3

LEMMA WinnerInvStep == WinnerInv /\ [Next]_vars => WinnerInv'
<1> SUFFICES ASSUME WinnerInv, [Next]_vars
             PROVE  WinnerInv'
  OBVIOUS
<1>1. RegistryInv'
  BY InvStep DEF WinnerInv
<1>2. CASE Next
  <2>1. AliasSorts'
    BY <1>2, StepKeeps DEF WinnerInv
  <2>2. \A p \in Procs : Aimed(p)' /\ Winner(p)'
    BY <1>2, WinnerStep
  <2>3. QED
    BY <1>1, <2>1, <2>2 DEF WinnerInv
<1>3. CASE UNCHANGED vars
  BY <1>1, <1>3 DEF vars, WinnerInv, AliasSorts, Aimed, Winner, Adopted, Won, Final
<1>4. QED
  BY <1>2, <1>3

\* Whoever won the claim of a card still owns the row its id leads to, whatever
\* registrations, sweeps, settles and other answers come in between, unless a
\* pause has adopted a bus request's row.
THEOREM WinnersOwnTheirRow == Spec => []WinnerOwnsRow
<1>1. Init => WinnerInv
  <2> SUFFICES ASSUME Init PROVE WinnerInv
    OBVIOUS
  <2>1. AliasSorts
    BY DEF Init, AliasSorts, Absent
  <2>2. \A p \in Procs : Aimed(p) /\ Winner(p)
    BY DEF Init, Idle, Aimed, Winner
  <2>3. QED
    BY <2>1, <2>2, InvInit DEF WinnerInv
<1>2. WinnerInv => WinnerOwnsRow
  <2> SUFFICES ASSUME WinnerInv, NoBusRowAdopted, NEW p \in Procs,
                      proc[p].pc \in {"claimed", "twins", "resume"}, proc[p].card \in Natives,
                      NEW i \in GateFor(proc[p].card)
               PROVE  Final(i) \/ (gates[i].decision = p /\ gates[i].state # "pending")
    BY DEF WinnerOwnsRow
  <2>1. \A j \in Ids : ~Adopted(j)
    BY DEF NoBusRowAdopted, Adopted
  <2>2. i = proc[p].card
    <3>1. i \in Ids
      BY NativeSorts, GateForAreIds
    <3>2. QED
      BY <2>1, <3>1, NativeLookup DEF WinnerInv
  <2>3. Final(i) \/ Won(i, p)
    BY <2>1, <2>2, IdSorts DEF WinnerInv, Winner
  <2>4. QED
    BY <2>3 DEF Won
<1>3. QED
  BY <1>1, <1>2, WinnerInvStep, PTL DEF Spec

=============================================================================
