------------------------ MODULE ApprovedCalls_proofs ------------------------
(***************************************************************************)
(* Proofs about ApprovedCalls for any number of batches, calls, tasks and  *)
(* crashes: its types, that it implements ApprovedOnce, that a result      *)
(* shown is a result on record, and which denials can be false.            *)
(***************************************************************************)
EXTENDS ApprovedCalls, TLAPS

\* Positions of a task that has no result yet and holds no receipt.
Quiet == {"idle", "spawned", "node", "pausing"}

\* An answer that approves is backed by the recorded verdict of its batch.
Backed(r, v) == r.ans = "approve" => r.for \in Batches /\ v[r.for] = "approve"

\* A task in the node has a batch, and past the interrupt it serves the
\* answer of that batch.
Working(r) ==
  /\ r.at \notin {"idle", "spawned"} => r.batch \in Batches
  /\ r.at \notin Quiet => r.for = r.batch

\* A task between receipt and result holds the only started receipt of an
\* allowed call; the tool has run exactly when the task says so.
Holds(r, rw, rn) ==
  r.at \in {"begun", "ran"} =>
    /\ r.slot \in Slots
    /\ <<r.batch, r.slot>> \in Gated => r.ans = "approve"
    /\ rw[<<r.batch, r.slot>>] = "started"
    /\ rn[<<r.batch, r.slot>>] = IF r.at = "begun" THEN 0 ELSE 1

\* What a task will tell as a result is on record.
Honest(r, rw) ==
  /\ r.at \in Quiet => r.told = NoTold
  /\ \A s \in Slots : r.told[s] = "result" => r.batch \in Batches /\ rw[<<r.batch, s>>] = "completed"

\* No two tasks hold one receipt.
Alone ==
  \A d, e \in Drives :
    /\ drive[d].at \in {"begun", "ran"} /\ drive[e].at \in {"begun", "ran"}
    /\ Call(d) = Call(e)
    => d = e

DeskBacked(k, v) ==
  k.at = "recorded" => k.batch \in Batches /\ (k.ans = "approve" => v[k.batch] = "approve")

Inv ==
  /\ \A d \in Drives : /\ Backed(drive[d], verdict) /\ Working(drive[d])
                       /\ Holds(drive[d], row, runs) /\ Honest(drive[d], row)
  /\ Alone
  /\ \A b \in Batches : kept[b] = "approve" => verdict[b] = "approve"
  /\ DeskBacked(desk, verdict)
  /\ \A b \in Batches : fate[b] = "lost" => verdict[b] \notin Open
  /\ \A c \in Calls : /\ row[c] = "none" => runs[c] = 0
                      /\ row[c] = "completed" => runs[c] = 1
                      /\ "result" \in said[c] => row[c] = "completed"

-----------------------------------------------------------------------------
(***************************************************************************)
(* Types.                                                                  *)
(***************************************************************************)

LEMMA Ranges ==
  /\ N \in Nat /\ K \in Nat /\ 0 \in 0 .. N /\ 1 \in 1 .. K + 1
  /\ \A b \in Batches : b \in 0 .. N /\ b # 0
  /\ \A s \in Slots : s \in 1 .. K + 1 /\ s + 1 \in 1 .. K + 1
  /\ \A b \in 0 .. N : b # 0 => b \in Batches
  /\ \A s \in 1 .. K + 1 : s # K + 1 => s \in Slots
  /\ Slots \subseteq 1 .. K + 1
BY CallAssumption DEF Batches, Slots

LEMMA NoToldType == NoTold \in [Slots -> Reports]
BY DEF NoTold, Reports

LEMMA TaskType ==
  ASSUME NEW p \in {"idle", "spawned", "node"}, NEW b \in 0 .. N, NEW f \in 0 .. N, NEW a \in Answers,
         NEW in \in BOOLEAN
  PROVE  /\ Task(p, b, f, a, in) \in DriveType /\ Task(p, b, f, a, in).at = p
         /\ Task(p, b, f, a, in).batch = b /\ Task(p, b, f, a, in).for = f
         /\ Task(p, b, f, a, in).ans = a /\ Task(p, b, f, a, in).told = NoTold
<1>1. NoTold \in [Slots -> Reports] /\ 1 \in 1 .. K + 1
  BY NoToldType, Ranges
<1>2. QED
  BY <1>1 DEF Task, DriveType

LEMMA IdleType ==
  Idle \in DriveType /\ Idle.at = "idle" /\ Idle.batch = 0 /\ Idle.ans = "none" /\ Idle.told = NoTold
<1>1. 0 \in 0 .. N /\ "none" \in Answers /\ FALSE \in BOOLEAN
  BY Ranges DEF Answers
<1>2. QED
  BY <1>1, NoToldType, Ranges DEF Idle, Task, DriveType

LEMMA SpawnedType ==
  ASSUME NEW b \in 0 .. N, NEW a \in Answers, NEW in \in BOOLEAN
  PROVE  /\ Spawned(b, a, in) \in DriveType
         /\ Spawned(b, a, in).at = "spawned" /\ Spawned(b, a, in).told = NoTold
         /\ Spawned(b, a, in).for = b /\ Spawned(b, a, in).ans = a
BY TaskType, Ranges DEF Spawned

\* A task whose position changes and nothing else.
LEMMA MovedType ==
  ASSUME NEW r \in DriveType, NEW p \in {"idle", "spawned", "node", "pausing", "calls", "begun", "ran"}
  PROVE  LET q == [r EXCEPT !.at = p] IN
         /\ q \in DriveType /\ q.at = p /\ q.batch = r.batch /\ q.for = r.for /\ q.ans = r.ans
         /\ q.slot = r.slot /\ q.told = r.told
BY DEF DriveType

LEMMA ToldType ==
  ASSUME TypeOK, NEW d \in Drives, drive[d].slot \in Slots, NEW m \in Reports
  PROVE  /\ Told(d, m) \in DriveType /\ Told(d, m).at = "calls" /\ Told(d, m).batch = drive[d].batch
         /\ Told(d, m).for = drive[d].for /\ Told(d, m).ans = drive[d].ans
         /\ Told(d, m).told = [drive[d].told EXCEPT ![drive[d].slot] = m]
<1>1. drive[d] \in DriveType
  BY DEF TypeOK
<1>2. PICK r \in DriveType : r = drive[d]
  BY <1>1
<1>3. r.slot + 1 \in 1 .. K + 1
  BY <1>2, Ranges
<1>4. [r.told EXCEPT ![r.slot] = m] \in [Slots -> Reports]
  BY DEF DriveType
<1>5. (r.failed \/ m = "unknown") \in BOOLEAN
  OBVIOUS
<1>6. Told(d, m) \in DriveType
  BY <1>2, <1>3, <1>4, <1>5 DEF Told, DriveType
<1>7. QED
  BY <1>2, <1>6 DEF Told, DriveType

\* What ends the answered rows, and what closes one.
LEMMA FateType ==
  ASSUME TypeOK
  PROVE  /\ Ended \in [Batches -> {"live", "done", "lost"}]
         /\ \A b \in Batches : Close(b) =>
              /\ verdict' \in [Batches -> {"none", "pending", "approve", "deny", "timeout", "void"}]
              /\ fate' \in [Batches -> {"live", "done", "lost"}]
BY DEF TypeOK, Ended, Close

LEMMA TypeInit == Init => TypeOK
<1> SUFFICES ASSUME Init PROVE TypeOK
  OBVIOUS
<1>1. drive \in [Drives -> DriveType]
  BY IdleType DEF Init
<1>2. top \in 0 .. N /\ head \in 0 .. top /\ crashes \in 0 .. MaxCrashes
  BY Ranges, CallAssumption DEF Init
<1>3. desk \in [at : {"free", "recorded"}, batch : 0 .. N, ans : {"none", "approve", "deny"}]
  BY Ranges DEF Init, Free
<1>4. dog \in [at : {"free", "armed", "recorded", "looking"}, batch : 0 .. N, ans : {"none", "expired"}]
  BY Ranges DEF Init, Free
<1>5. user \in [at : {"free", "reading", "denying", "waiting", "starting"}, task : Drives \cup {"none"}]
  BY DEF Init, NoUser
<1>6. fate \in [Batches -> {"live", "done", "lost"}] /\ stop \in {"free", "cancelled", "marked"}
  BY DEF Init
<1>7. listed \in [{"stop", "dog"} -> SUBSET Batches]
  BY DEF Init, NoLists
<1>8. QED
  BY <1>1, <1>2, <1>3, <1>4, <1>5, <1>6, <1>7 DEF Init, TypeOK, Answers

\* A task with a receipt has it for a call.
LEMMA HeldCall ==
  ASSUME Inv, NEW d \in Drives, drive[d].at \in {"begun", "ran"}
  PROVE  drive[d].slot \in Slots /\ Call(d) \in Calls /\ drive[d].batch \in Batches /\ drive[d].for = drive[d].batch
<1>1. drive[d].slot \in Slots /\ drive[d].batch \in Batches /\ drive[d].for = drive[d].batch
  BY DEF Inv, Holds, Working, Quiet
<1>2. QED
  BY <1>1 DEF Call, Calls

\* The steps of one task.
LEMMA TypeStep ==
  ASSUME TypeOK, Inv, NEW d \in Drives, Step(d)
  PROVE  TypeOK'
<1>0. drive[d] \in DriveType /\ head \in 0 .. N
  BY Ranges DEF TypeOK
<1>h. drive[d].at \in {"begun", "ran"} => drive[d].slot \in Slots /\ Call(d) \in Calls
  BY HeldCall
<1>1. CASE StartResume(d)
  <2>1. \A b \in 0 .. N : [drive[d] EXCEPT !.at = "node", !.batch = b] \in DriveType
    BY <1>0 DEF DriveType
  <2>2. drive' \in [Drives -> DriveType]
    <3>1. \/ drive' = [drive EXCEPT ![d] = Idle]
          \/ drive' = [drive EXCEPT ![d] = [drive[d] EXCEPT !.at = "node", !.batch = head]]
      BY <1>1 DEF StartResume
    <3>2. PICK r \in DriveType : drive' = [drive EXCEPT ![d] = r]
      BY <1>0, <2>1, <3>1, IdleType
    <3>3. QED
      BY <3>2 DEF TypeOK
  <2>3. active' \in Drives \cup {"none"}
    BY <1>1 DEF StartResume, Unregister, TypeOK
  <2>4. QED
    BY <1>1, <2>2, <2>3 DEF StartResume, TypeOK
<1>2. CASE RunNode(d)
  <2> DEFINE b == drive[d].batch
  <2>0. b \in 0 .. N
    BY <1>0 DEF DriveType
  <2>1. CASE Asks(b) /\ Served(d, b) = {}
    <3>1. drive' = [drive EXCEPT ![d] = [drive[d] EXCEPT !.at = "pausing"]] /\ asked' = asked \cup {b}
      BY <1>2, <2>1 DEF RunNode
    <3>2. b \in Batches
      BY <2>1, CallAssumption DEF Asks, Calls
    <3>3. [drive[d] EXCEPT !.at = "pausing"] \in DriveType
      BY <1>0, MovedType
    <3>4. drive' \in [Drives -> DriveType] /\ asked' \in SUBSET Batches
      <4>1. PICK r \in DriveType : drive' = [drive EXCEPT ![d] = r]
        BY <3>1, <3>3
      <4>2. drive \in [Drives -> DriveType] /\ asked \in SUBSET Batches
        BY DEF TypeOK
      <4>3. QED
        BY <3>1, <3>2, <4>1, <4>2
    <3>5. UNCHANGED <<head, top, kept, verdict, fate, row, active, reads, desk, dog, user, stop, listed, cut, crashes, runs, said>>
      BY <1>2 DEF RunNode
    <3>6. QED
      BY <3>4, <3>5 DEF TypeOK
  <2>2. CASE ~(Asks(b) /\ Served(d, b) = {})
    <3>1. PICK a \in IF Asks(b) THEN Served(d, b) ELSE {"none"} :
               drive' = [drive EXCEPT ![d] = [drive[d] EXCEPT !.at = "calls", !.ans = a, !.for = b]]
      BY <1>2, <2>2 DEF RunNode
    <3>2. a \in Answers
      <4>1. CASE ~Asks(b)
        BY <3>1, <4>1 DEF Answers
      <4>2. CASE Asks(b)
        <5>1. b \in Batches
          BY <4>2, CallAssumption DEF Asks, Calls
        <5>2. a \in {kept[b], drive[d].ans, "none"}
          BY <3>1, <4>2 DEF Served
        <5>3. kept[b] \in Answers /\ drive[d].ans \in Answers /\ "none" \in Answers
          BY <1>0, <5>1 DEF TypeOK, DriveType, Answers
        <5>4. QED
          BY <5>2, <5>3
      <4>3. QED
        BY <4>1, <4>2
    <3>3. [drive[d] EXCEPT !.at = "calls", !.ans = a, !.for = b] \in DriveType
      BY <1>0, <2>0, <3>2 DEF DriveType
    <3>4. drive' \in [Drives -> DriveType] /\ UNCHANGED asked
      <4>1. PICK r \in DriveType : drive' = [drive EXCEPT ![d] = r]
        BY <3>1, <3>3
      <4>2. drive \in [Drives -> DriveType]
        BY DEF TypeOK
      <4>3. UNCHANGED asked
        BY <1>2, <2>2 DEF RunNode
      <4>4. QED
        BY <4>1, <4>2, <4>3
    <3>5. UNCHANGED <<head, top, kept, verdict, fate, row, active, reads, desk, dog, user, stop, listed, cut, crashes, runs, said>>
      BY <1>2 DEF RunNode
    <3>6. QED
      BY <3>4, <3>5 DEF TypeOK
  <2>3. QED
    BY <2>1, <2>2
<1>3. CASE ShowCard(d)
  <2>1. drive' \in [Drives -> DriveType]
    BY <1>3, IdleType DEF ShowCard, TypeOK
  <2>2. active' \in Drives \cup {"none"}
    BY <1>3 DEF ShowCard, Unregister, TypeOK
  <2>3. verdict' \in [Batches -> {"none", "pending", "approve", "deny", "timeout", "void"}]
    BY <1>3 DEF ShowCard, TypeOK
  <2>4. fate' \in [Batches -> {"live", "done", "lost"}]
    BY <1>3, FateType DEF ShowCard, TypeOK
  <2>5. QED
    BY <1>3, <2>1, <2>2, <2>3, <2>4 DEF ShowCard, TypeOK
<1>4. CASE DenyCall(d)
  <2>1. drive' \in [Drives -> DriveType]
    <3>1. \A m \in {"expired", "denied"} : Told(d, m) \in DriveType
      BY <1>4, ToldType DEF DenyCall, Reports
    <3>2. QED
      BY <1>4, <3>1 DEF DenyCall, TypeOK
  <2>2. QED
    BY <1>4, <2>1 DEF DenyCall, TypeOK
<1>5. CASE BeginEffect(d)
  <2>1. \A m \in {"result", "unknown"} : Told(d, m) \in DriveType
    BY <1>5, ToldType DEF BeginEffect, Fresh, Recorded, Reports
  <2>2. [drive[d] EXCEPT !.at = "begun"] \in DriveType
    BY <1>0, MovedType
  <2>3. drive' \in [Drives -> DriveType]
    BY <1>5, <2>1, <2>2 DEF BeginEffect, Fresh, Recorded, TypeOK
  <2>4. row' \in [Calls -> {"none", "started", "completed", "unsure"}]
    BY <1>5 DEF BeginEffect, Fresh, TypeOK
  <2>5. QED
    BY <1>5, <2>3, <2>4 DEF BeginEffect, TypeOK
<1>6. CASE Dispatch(d)
  <2>1. [drive[d] EXCEPT !.at = "ran"] \in DriveType
    BY <1>0, MovedType
  <2>2. drive' \in [Drives -> DriveType]
    BY <1>6, <2>1 DEF Dispatch, TypeOK
  <2>3. runs' \in [Calls -> Nat]
    BY <1>6, <1>h DEF Dispatch, TypeOK
  <2>4. QED
    BY <1>6, <2>2, <2>3 DEF Dispatch, TypeOK
<1>7. CASE FinishEffect(d) \/ ToolTimeout(d)
  <2>1. drive[d].at \in {"begun", "ran"}
    BY <1>7 DEF FinishEffect, ToolTimeout
  <2>2. \A m \in {"result", "unknown"} : Told(d, m) \in DriveType
    BY <1>h, <2>1, ToldType DEF Reports
  <2>3. drive' \in [Drives -> DriveType]
    <3>1. drive' \in {[drive EXCEPT ![d] = Told(d, "result")], [drive EXCEPT ![d] = Told(d, "unknown")]}
      BY <1>7 DEF FinishEffect, ToolTimeout
    <3>2. QED
      BY <2>2, <3>1 DEF TypeOK
  <2>4. row' \in [Calls -> {"none", "started", "completed", "unsure"}]
    <3>1. row' \in {row, [row EXCEPT ![Call(d)] = "completed"], [row EXCEPT ![Call(d)] = "unsure"]}
      BY <1>7 DEF FinishEffect, ToolTimeout
    <3>2. QED
      BY <3>1 DEF TypeOK
  <2>5. QED
    BY <1>7, <2>3, <2>4 DEF FinishEffect, ToolTimeout, TypeOK
<1>8. CASE Commit(d)
  <2>1. said' \in [Calls -> SUBSET Reports]
    <3>1. ASSUME NEW c \in Calls PROVE drive[d].told[c[2]] \in Reports
      BY <1>0 DEF Calls, DriveType
    <3>2. QED
      BY <1>8, <3>1 DEF Commit, TypeOK
  <2>0. fate' \in [Batches -> {"live", "done", "lost"}]
    BY <1>8, FateType DEF Commit, TypeOK
  <2>2. CASE head' = 0 /\ drive' = [drive EXCEPT ![d] = Idle] /\ Unregister(d) /\ UNCHANGED top
    <3>1. drive' \in [Drives -> DriveType]
      BY <2>2, IdleType DEF TypeOK
    <3>2. active' \in Drives \cup {"none"} /\ head' \in 0 .. top' /\ top' \in 0 .. N
      BY <2>2, Ranges DEF Unregister, TypeOK
    <3>3. QED
      BY <1>8, <2>0, <2>1, <3>1, <3>2 DEF Commit, TypeOK
  <2>3. CASE /\ top < N /\ head' = top + 1 /\ top' = top + 1 /\ UNCHANGED active
             /\ drive' = [drive EXCEPT ![d] = Task("node", top + 1, 0, "none", drive[d].inline)]
    <3>1. top + 1 \in 0 .. N /\ head' \in 0 .. top' /\ top' \in 0 .. N
      BY <2>3, Ranges DEF TypeOK
    <3>2. drive[d].inline \in BOOLEAN /\ 0 \in 0 .. N /\ "none" \in Answers
      BY <1>0, Ranges DEF DriveType, Answers
    <3>3. Task("node", top + 1, 0, "none", drive[d].inline) \in DriveType
      BY <3>1, <3>2, TaskType
    <3>4. drive' \in [Drives -> DriveType]
      BY <2>3, <3>3 DEF TypeOK
    <3>5. QED
      BY <1>8, <2>0, <2>1, <2>3, <3>1, <3>4 DEF Commit, TypeOK
  <2>4. QED
    BY <1>8, <2>2, <2>3 DEF Commit
<1>9. QED
  BY <1>1, <1>2, <1>3, <1>4, <1>5, <1>6, <1>7, <1>8 DEF Step

\* A listed row is closed.
LEMMA TypeSettle ==
  ASSUME TypeOK, NEW w \in {"stop", "dog"}, SettleListed(w)
  PROVE  TypeOK'
<1>1. PICK b \in listed[w] : Close(b) /\ listed' = [listed EXCEPT ![w] = listed[w] \ {b}]
  BY DEF SettleListed
<1>2. b \in Batches
  BY <1>1 DEF TypeOK
<1>3. /\ verdict' \in [Batches -> {"none", "pending", "approve", "deny", "timeout", "void"}]
      /\ fate' \in [Batches -> {"live", "done", "lost"}]
  BY <1>1, <1>2, FateType
<1>4. listed' \in [{"stop", "dog"} -> SUBSET Batches]
  BY <1>1 DEF TypeOK
<1>5. QED
  BY <1>3, <1>4 DEF SettleListed, TypeOK

\* Clicks and the watchdog.
LEMMA TypeAsk ==
  ASSUME TypeOK, Click \/ Watchdog
  PROVE  TypeOK'
<1>0. head \in 0 .. N
  BY Ranges DEF TypeOK
<1>1. ASSUME NEW b \in Batches, ReadCard(b) PROVE TypeOK'
  BY <1>1 DEF ReadCard, TypeOK
<1>2. ASSUME NEW b \in Batches, NEW a \in {"approve", "deny"}, RecordDecision(b, a) PROVE TypeOK'
  <2>1. verdict' \in [Batches -> {"none", "pending", "approve", "deny", "timeout", "void"}]
    BY <1>2 DEF RecordDecision, TypeOK
  <2>2. desk' \in [at : {"free", "recorded"}, batch : 0 .. N, ans : {"none", "approve", "deny"}]
    BY <1>2, Ranges DEF RecordDecision, TypeOK
  <2>3. reads' \in SUBSET Batches
    BY <1>2 DEF RecordDecision, TypeOK
  <2>4. QED
    BY <1>2, <2>1, <2>2, <2>3 DEF RecordDecision, TypeOK
<1>3. ASSUME NEW d \in Drives, LaunchResume(d) PROVE TypeOK'
  <2>1. Spawned(desk.batch, desk.ans, FALSE) \in DriveType
    <3>1. desk.batch \in 0 .. N /\ desk.ans \in Answers /\ FALSE \in BOOLEAN
      BY DEF TypeOK, Answers
    <3>2. QED
      BY <3>1, SpawnedType
  <2>2. drive' \in [Drives -> DriveType]
    BY <1>3, <2>1 DEF LaunchResume, TypeOK
  <2>3. desk' \in [at : {"free", "recorded"}, batch : 0 .. N, ans : {"none", "approve", "deny"}]
    BY <1>3, Ranges DEF LaunchResume, Free
  <2>4. QED
    BY <1>3, <2>2, <2>3 DEF LaunchResume, TypeOK
<1>4. CASE Expire
  <2>1. dog' \in [at : {"free", "armed", "recorded", "looking"}, batch : 0 .. N, ans : {"none", "expired"}]
    BY <1>0, <1>4 DEF Expire
  <2>2. QED
    BY <1>4, <2>1 DEF Expire, TypeOK
<1>5. CASE RecordTimeout
  <2>1. verdict' \in [Batches -> {"none", "pending", "approve", "deny", "timeout", "void"}]
    <3>1. \/ UNCHANGED verdict
          \/ \E g \in Batches : verdict' = [verdict EXCEPT ![g] = "timeout"]
          \/ verdict' = [verdict EXCEPT ![dog.batch] = IF verdict[dog.batch] = "none" THEN "timeout" ELSE verdict[dog.batch]]
      BY <1>5 DEF RecordTimeout
    <3>2. QED
      BY <3>1 DEF TypeOK
  <2>2. dog' \in [at : {"free", "armed", "recorded", "looking"}, batch : 0 .. N, ans : {"none", "expired"}]
    <3>1. dog' = [dog EXCEPT !.at = "recorded"] \/ dog' = Free
      BY <1>5 DEF RecordTimeout
    <3>2. QED
      BY <3>1, Ranges DEF Free, TypeOK
  <2>3. QED
    BY <1>5, <2>1, <2>2 DEF RecordTimeout, TypeOK
<1>6. ASSUME NEW d \in Drives, LaunchTimeout(d) PROVE TypeOK'
  <2>1. Spawned(dog.batch, "expired", FALSE) \in DriveType
    <3>1. dog.batch \in 0 .. N /\ "expired" \in Answers /\ FALSE \in BOOLEAN
      BY DEF TypeOK, Answers
    <3>2. QED
      BY <3>1, SpawnedType
  <2>2. drive' \in [Drives -> DriveType]
    BY <1>6, <2>1 DEF LaunchTimeout, TypeOK
  <2>3. dog' \in [at : {"free", "armed", "recorded", "looking"}, batch : 0 .. N, ans : {"none", "expired"}]
    BY <1>6, Ranges DEF LaunchTimeout, Free
  <2>4. QED
    BY <1>6, <2>2, <2>3 DEF LaunchTimeout, TypeOK
<1>7. CASE SweepOrphans
  <2>1. dog' \in [at : {"free", "armed", "recorded", "looking"}, batch : 0 .. N, ans : {"none", "expired"}]
    BY <1>7 DEF SweepOrphans, TypeOK
  <2>2. QED
    BY <1>7, <2>1 DEF SweepOrphans, TypeOK
<1>8. CASE ListOrphans
  <2>1. dog' \in [at : {"free", "armed", "recorded", "looking"}, batch : 0 .. N, ans : {"none", "expired"}]
    BY <1>8, Ranges DEF ListOrphans, Free
  <2>2. listed' \in [{"stop", "dog"} -> SUBSET Batches]
    BY <1>8 DEF ListOrphans, TypeOK
  <2>3. QED
    BY <1>8, <2>1, <2>2 DEF ListOrphans, TypeOK
<1>9. CASE SettleListed("dog")
  BY <1>9, TypeSettle
<1>10. QED
  BY <1>1, <1>2, <1>3, <1>4, <1>5, <1>6, <1>7, <1>8, <1>9 DEF Click, Watchdog

\* A cancelled task leaves, and its answer may stay in the checkpoint.
LEMMA TypeCancel ==
  ASSUME TypeOK, NEW d \in Drives, CancelTask(d)
  PROVE  /\ drive' \in [Drives -> DriveType] /\ active' \in Drives \cup {"none"}
         /\ kept' \in [Batches -> Answers]
<1>1. drive[d].ans \in Answers
  BY DEF TypeOK, DriveType
<1>2. drive' \in [Drives -> DriveType] /\ active' \in Drives \cup {"none"}
  BY IdleType DEF CancelTask, TypeOK
<1>3. kept' = kept \/ kept' = [kept EXCEPT ![drive[d].for] = drive[d].ans]
  BY DEF CancelTask
<1>4. QED
  BY <1>1, <1>2, <1>3 DEF TypeOK

LEMMA TypeCancelTurn ==
  ASSUME TypeOK, CancelTurn
  PROVE  /\ drive' \in [Drives -> DriveType] /\ active' \in Drives \cup {"none"}
         /\ kept' \in [Batches -> Answers]
<1>1. CASE active \in Drives /\ CancelTask(active)
  BY <1>1, TypeCancel
<1>2. CASE UNCHANGED <<drive, kept>> /\ active' \in {active, "none"}
  BY <1>2 DEF TypeOK
<1>3. QED
  BY <1>1, <1>2 DEF CancelTurn, TypeOK

\* A user's message and the Stop button.
LEMMA TypeUser ==
  ASSUME TypeOK, Message \/ Stop
  PROVE  TypeOK'
<1> DEFINE UserType == [at : {"free", "reading", "denying", "waiting", "starting"}, task : Drives \cup {"none"}]
<1>0. head \in 0 .. N /\ user \in UserType
  BY Ranges DEF TypeOK
<1>1. CASE NewMessage
  <2>1. drive' \in [Drives -> DriveType] /\ active' \in Drives \cup {"none"} /\ kept' \in [Batches -> Answers]
    BY <1>1, TypeCancelTurn DEF NewMessage
  <2>2. user' \in UserType
    BY <1>0, <1>1 DEF NewMessage
  <2>3. QED
    BY <1>1, <2>1, <2>2 DEF NewMessage, TypeOK
<1>2. CASE ReadStatus
  <2>1. user' \in UserType
    BY <1>0, <1>2 DEF ReadStatus
  <2>2. QED
    BY <1>2, <2>1 DEF ReadStatus, TypeOK
<1>3. CASE Superseded
  <2>1. user' \in UserType
    BY <1>0, <1>3 DEF Superseded
  <2>2. QED
    BY <1>3, <2>1 DEF Superseded, TypeOK
<1>4. ASSUME NEW d \in Drives, Supersede(d) PROVE TypeOK'
  <2>1. Spawned(head, "deny", TRUE) \in DriveType
    <3>1. "deny" \in Answers /\ TRUE \in BOOLEAN
      BY DEF Answers
    <3>2. QED
      BY <1>0, <3>1, SpawnedType
  <2>2. drive' \in [Drives -> DriveType] /\ user' \in UserType
    BY <1>4, <2>1 DEF Supersede, TypeOK
  <2>3. QED
    BY <1>4, <2>2 DEF Supersede, TypeOK
<1>5. ASSUME NEW d \in Drives, StartTurn(d) PROVE TypeOK'
  <2>1. user' \in UserType /\ cut' \in BOOLEAN
    BY <1>5 DEF StartTurn, NoUser
  <2>2. CASE head' = 0 /\ UNCHANGED <<top, drive, active>>
    <3>1. head' \in 0 .. top' /\ top' \in 0 .. N
      BY <2>2, Ranges DEF TypeOK
    <3>2. QED
      BY <1>5, <2>1, <2>2, <3>1 DEF StartTurn, TypeOK
  <2>3. CASE /\ top < N /\ head' = top + 1 /\ top' = top + 1 /\ active' = d
             /\ drive' = [drive EXCEPT ![d] = Task("node", top + 1, 0, "none", FALSE)]
    <3>1. top + 1 \in 0 .. N /\ head' \in 0 .. top' /\ top' \in 0 .. N
      BY <2>3, Ranges DEF TypeOK
    <3>2. FALSE \in BOOLEAN /\ 0 \in 0 .. N /\ "none" \in Answers
      BY Ranges DEF Answers
    <3>3. Task("node", top + 1, 0, "none", FALSE) \in DriveType
      BY <3>1, <3>2, TaskType
    <3>4. drive' \in [Drives -> DriveType]
      BY <2>3, <3>3 DEF TypeOK
    <3>5. QED
      BY <1>5, <2>1, <2>3, <3>1, <3>4 DEF StartTurn, TypeOK
  <2>4. QED
    BY <1>5, <2>2, <2>3 DEF StartTurn
<1>6. CASE Abort
  <2>1. drive' \in [Drives -> DriveType] /\ active' \in Drives \cup {"none"} /\ kept' \in [Batches -> Answers]
    BY <1>6, TypeCancelTurn DEF Abort
  <2>2. QED
    BY <1>6, <2>1 DEF Abort, TypeOK
<1>7. CASE MarkAbandoned
  <2>1. head' \in 0 .. top /\ stop' \in {"free", "cancelled", "marked"}
    BY <1>7, Ranges DEF MarkAbandoned, TypeOK
  <2>2. QED
    BY <1>7, <2>1 DEF MarkAbandoned, TypeOK
<1>8. CASE ListLive
  <2>1. listed' \in [{"stop", "dog"} -> SUBSET Batches]
    BY <1>8 DEF ListLive, TypeOK
  <2>2. QED
    BY <1>8, <2>1 DEF ListLive, TypeOK
<1>9. CASE SettleListed("stop")
  BY <1>9, TypeSettle
<1>10. QED
  BY <1>1, <1>2, <1>3, <1>4, <1>5, <1>6, <1>7, <1>8, <1>9 DEF Message, Stop

\* The death of the process and what the next one continues.
LEMMA TypeRestart ==
  ASSUME TypeOK, Crash \/ \E d \in Drives : Continue(d)
  PROVE  TypeOK'
<1>1. CASE Crash
  <2>1. drive' \in [Drives -> DriveType]
    BY <1>1, IdleType DEF Crash
  <2>2. kept' \in [Batches -> Answers]
    BY <1>1 DEF Crash
  <2>3. desk' \in [at : {"free", "recorded"}, batch : 0 .. N, ans : {"none", "approve", "deny"}]
    BY <1>1, Ranges DEF Crash, Free
  <2>4. dog' \in [at : {"free", "armed", "recorded", "looking"}, batch : 0 .. N, ans : {"none", "expired"}]
    BY <1>1, Ranges DEF Crash, Free
  <2>5. user' \in [at : {"free", "reading", "denying", "waiting", "starting"}, task : Drives \cup {"none"}]
    BY <1>1 DEF Crash, NoUser
  <2>6. crashes' \in 0 .. MaxCrashes
    BY <1>1, CallAssumption DEF Crash, TypeOK
  <2>7. cut' \in BOOLEAN /\ active' = "none" /\ reads' = {}
    BY <1>1 DEF Crash
  <2>8. fate' \in [Batches -> {"live", "done", "lost"}]
    BY <1>1, FateType DEF Crash
  <2>9. stop' \in {"free", "cancelled", "marked"} /\ listed' \in [{"stop", "dog"} -> SUBSET Batches]
    BY <1>1 DEF Crash, NoLists
  <2>10. QED
    BY <1>1, <2>1, <2>2, <2>3, <2>4, <2>5, <2>6, <2>7, <2>8, <2>9 DEF Crash, TypeOK
<1>2. ASSUME NEW d \in Drives, Continue(d) PROVE TypeOK'
  <2>1. Spawned(0, "none", FALSE) \in DriveType
    <3>1. 0 \in 0 .. N /\ "none" \in Answers /\ FALSE \in BOOLEAN
      BY Ranges DEF Answers
    <3>2. QED
      BY <3>1, SpawnedType
  <2>2. drive' \in [Drives -> DriveType]
    <3>1. drive' = [drive EXCEPT ![d] = Spawned(0, "none", FALSE)]
      BY <1>2 DEF Continue
    <3>2. QED
      BY <2>1, <3>1 DEF TypeOK
  <2>3. cut' \in BOOLEAN /\ active' \in Drives \cup {"none"}
    BY <1>2 DEF Continue
  <2>4. UNCHANGED <<head, top, asked, kept, verdict, fate, row, reads, desk, dog, user, stop, listed, crashes, runs, said>>
    BY <1>2 DEF Continue
  <2>5. QED
    BY <2>2, <2>3, <2>4 DEF TypeOK
<1>3. QED
  BY <1>1, <1>2

LEMMA TypeNext ==
  ASSUME TypeOK, Inv, [Next]_vars
  PROVE  TypeOK'
<1>1. CASE Next
  BY <1>1, TypeStep, TypeAsk, TypeUser, TypeRestart DEF Next
<1>2. CASE UNCHANGED vars
  BY <1>2 DEF vars, TypeOK
<1>3. QED
  BY <1>1, <1>2

-----------------------------------------------------------------------------
(***************************************************************************)
(* The invariant. Most steps touch no receipt: what they put in place of a *)
(* task has to be backed, at work on its own batch and honest.             *)
(***************************************************************************)

LEMMA InvInit == Init => Inv
<1> SUFFICES ASSUME Init PROVE Inv
  OBVIOUS
<1>1. \A d \in Drives : drive[d] = Idle
  BY DEF Init
<1>2. \A d \in Drives : /\ Backed(drive[d], verdict) /\ Working(drive[d])
                        /\ Holds(drive[d], row, runs) /\ Honest(drive[d], row)
  <2>1. \A s \in Slots : NoTold[s] # "result"
    BY DEF NoTold
  <2>2. QED
    BY <1>1, <2>1, IdleType DEF Backed, Working, Holds, Honest, Quiet
<1>3. Alone
  BY <1>1, IdleType DEF Alone
<1>4. QED
  BY <1>2, <1>3 DEF Init, Inv, DeskBacked, Free

\* No decision is undone, and only a decided row loses its record.
Standing ==
  /\ \A b \in Batches : verdict[b] = "approve" => verdict'[b] = "approve"
  /\ \A b \in Batches : fate'[b] = "lost" => verdict'[b] \notin Open

\* A step that changes no row's fate keeps what was decided.
LEMMA Stands ==
  ASSUME TypeOK, Inv, fate' \in {fate, Ended},
         \A b \in Batches : verdict'[b] = verdict[b] \/ verdict[b] \in Open,
         \A b \in Batches : fate[b] = "lost" => verdict'[b] = verdict[b]
  PROVE  Standing
<1>1. \A b \in Batches : fate'[b] = "lost" => fate[b] = "lost"
  BY DEF TypeOK, Ended
<1>2. QED
  BY <1>1 DEF Standing, Inv, Open

LEMMA StandsStill ==
  ASSUME Inv, UNCHANGED <<verdict, fate>>
  PROVE  Standing
BY DEF Standing, Inv

LEMMA Preserve ==
  ASSUME Inv, Standing, UNCHANGED <<row, runs>>,
         \A d \in Drives : drive'[d] = drive[d] \/
            /\ drive'[d].at \notin {"begun", "ran"}
            /\ Backed(drive'[d], verdict') /\ Working(drive'[d]) /\ Honest(drive'[d], row),
         \A b \in Batches : kept'[b] = "approve" => verdict'[b] = "approve",
         DeskBacked(desk', verdict'),
         \A c \in Calls : "result" \in said'[c] => row[c] = "completed"
  PROVE  Inv'
<1>1. ASSUME NEW d \in Drives
      PROVE  /\ Backed(drive'[d], verdict') /\ Working(drive'[d])
             /\ Holds(drive'[d], row', runs') /\ Honest(drive'[d], row')
  <2>1. CASE drive'[d] = drive[d]
    <3>1. /\ Backed(drive[d], verdict) /\ Working(drive[d])
          /\ Holds(drive[d], row, runs) /\ Honest(drive[d], row)
      BY DEF Inv
    <3>2. Backed(drive'[d], verdict')
      BY <2>1, <3>1 DEF Backed, Standing
    <3>3. QED
      BY <2>1, <3>1, <3>2
  <2>2. CASE /\ drive'[d].at \notin {"begun", "ran"}
             /\ Backed(drive'[d], verdict') /\ Working(drive'[d]) /\ Honest(drive'[d], row)
    BY <2>2 DEF Holds
  <2>3. QED
    BY <2>1, <2>2
<1>2. Alone'
  BY DEF Inv, Alone, Call
<1>3. \A c \in Calls : /\ row'[c] = "none" => runs'[c] = 0
                       /\ row'[c] = "completed" => runs'[c] = 1
                       /\ "result" \in said'[c] => row'[c] = "completed"
  BY DEF Inv
<1>4. QED
  BY <1>1, <1>2, <1>3 DEF Inv, Standing

\* A task that starts or pauses has nothing to tell yet.
LEMMA QuietDrive ==
  ASSUME NEW r, r.at \in Quiet, r.told = NoTold, r.at \notin {"idle", "spawned"} => r.batch \in Batches
  PROVE  r.at \notin {"begun", "ran"} /\ Working(r) /\ Honest(r, row)
BY DEF Quiet, Working, Honest, NoTold

LEMMA IdleDrive ==
  Idle.at \notin {"begun", "ran"} /\ Backed(Idle, verdict') /\ Working(Idle) /\ Honest(Idle, row)
BY IdleType, QuietDrive DEF Quiet, Backed

\* One task replaced by a harmless one, and nothing decided.
LEMMA PreserveOne ==
  ASSUME TypeOK, Inv, Standing, UNCHANGED <<row, runs, kept, desk, said>>,
         NEW d \in Drives, NEW r, drive' = [drive EXCEPT ![d] = r],
         r.at \notin {"begun", "ran"}, Backed(r, verdict'), Working(r), Honest(r, row)
  PROVE  Inv'
<1>1. \A e \in Drives : drive'[e] = drive[e] \/ drive'[e] = r
  BY DEF TypeOK
<1>2. \A b \in Batches : kept'[b] = "approve" => verdict'[b] = "approve"
  BY DEF Inv, Standing
<1>3. DeskBacked(desk', verdict')
  BY DEF Inv, DeskBacked, Standing
<1>4. \A c \in Calls : "result" \in said'[c] => row[c] = "completed"
  BY DEF Inv
<1>5. QED
  BY <1>1, <1>2, <1>3, <1>4, Preserve

\* No task changes.
LEMMA PreserveTasks ==
  ASSUME Inv, Standing, UNCHANGED <<row, runs, kept, drive, said>>, DeskBacked(desk', verdict')
  PROVE  Inv'
<1>1. \A e \in Drives : drive'[e] = drive[e]
  OBVIOUS
<1>2. \A b \in Batches : kept'[b] = "approve" => verdict'[b] = "approve"
  BY DEF Inv, Standing
<1>4. \A c \in Calls : "result" \in said'[c] => row[c] = "completed"
  BY DEF Inv
<1>5. QED
  BY <1>1, <1>2, <1>4, Preserve

\* The steps of a task up to its tool calls.
LEMMA InvEnter ==
  ASSUME TypeOK, Inv, NEW d \in Drives, StartResume(d) \/ RunNode(d) \/ ShowCard(d)
  PROVE  Inv'
<1>0. drive[d] \in DriveType /\ Backed(drive[d], verdict) /\ Working(drive[d]) /\ Honest(drive[d], row)
  BY DEF TypeOK, Inv
<1>1. CASE StartResume(d)
  <2> DEFINE r == [drive[d] EXCEPT !.at = "node", !.batch = head]
  <2>1. r.at = "node" /\ r.batch = head /\ r.for = drive[d].for /\ r.ans = drive[d].ans /\ r.told = drive[d].told
    BY <1>0 DEF DriveType
  <2>2. Standing
    BY <1>1, StandsStill DEF StartResume
  <2>3. CASE drive' = [drive EXCEPT ![d] = Idle]
    BY <1>1, <2>2, <2>3, IdleDrive, PreserveOne DEF StartResume
  <2>4. CASE head # 0 /\ drive' = [drive EXCEPT ![d] = r]
    <3>1. head \in Batches
      BY <2>4, Ranges DEF TypeOK
    <3>2. drive[d].told = NoTold
      BY <1>0, <1>1 DEF StartResume, Honest, Quiet
    <3>3. r.at \notin {"begun", "ran"} /\ Working(r) /\ Honest(r, row)
      BY <2>1, <3>1, <3>2 DEF Working, Honest, NoTold, Quiet
    <3>4. Backed(r, verdict')
      BY <1>0, <1>1, <2>1 DEF Backed, StartResume
    <3>5. QED
      BY <1>1, <2>2, <2>4, <3>3, <3>4, PreserveOne DEF StartResume
  <2>5. QED
    BY <1>1, <2>3, <2>4 DEF StartResume
<1>2. CASE RunNode(d)
  <2> DEFINE b == drive[d].batch
  <2>0. b \in Batches /\ drive[d].told = NoTold
    BY <1>0, <1>2 DEF RunNode, Working, Honest, Quiet
  <2>2. Standing /\ UNCHANGED verdict
    BY <1>2, StandsStill DEF RunNode
  <2>3. CASE Asks(b) /\ Served(d, b) = {}
    <3> DEFINE r == [drive[d] EXCEPT !.at = "pausing"]
    <3>1. r.at = "pausing" /\ r.batch = b /\ r.for = drive[d].for /\ r.ans = drive[d].ans /\ r.told = NoTold
      BY <1>0, <2>0 DEF DriveType
    <3>2. r.at \notin {"begun", "ran"} /\ Working(r) /\ Honest(r, row)
      BY <2>0, <3>1 DEF Working, Honest, NoTold, Quiet
    <3>3. Backed(r, verdict')
      BY <1>0, <2>2, <3>1 DEF Backed
    <3>4. drive' = [drive EXCEPT ![d] = r]
      BY <1>2, <2>3 DEF RunNode
    <3>5. QED
      BY <1>2, <2>2, <3>2, <3>3, <3>4, PreserveOne DEF RunNode
  <2>4. CASE ~(Asks(b) /\ Served(d, b) = {})
    <3>1. PICK a \in IF Asks(b) THEN Served(d, b) ELSE {"none"} :
               drive' = [drive EXCEPT ![d] = [drive[d] EXCEPT !.at = "calls", !.ans = a, !.for = b]]
      BY <1>2, <2>4 DEF RunNode
    <3> DEFINE r == [drive[d] EXCEPT !.at = "calls", !.ans = a, !.for = b]
    <3>2. r.at = "calls" /\ r.batch = b /\ r.for = b /\ r.ans = a /\ r.told = NoTold
      BY <1>0, <2>0 DEF DriveType
    <3>3. a = "approve" => verdict[b] = "approve"
      <4>1. a = "approve" => kept[b] = "approve" \/ (drive[d].for = b /\ drive[d].ans = "approve")
        BY <3>1 DEF Served
      <4>2. QED
        BY <1>0, <2>0, <4>1 DEF Backed, Inv
    <3>4. Backed(r, verdict')
      BY <2>0, <2>2, <3>2, <3>3 DEF Backed
    <3>5. r.at \notin {"begun", "ran"} /\ Working(r) /\ Honest(r, row)
      BY <2>0, <3>2 DEF Working, Honest, NoTold, Quiet
    <3>6. QED
      BY <1>2, <2>2, <3>1, <3>4, <3>5, PreserveOne DEF RunNode
  <2>5. QED
    BY <2>3, <2>4
<1>3. CASE ShowCard(d)
  <2>1. Standing
    BY <1>3, Stands DEF ShowCard, Inv, Open, TypeOK
  <2>2. QED
    BY <1>3, <2>1, IdleDrive, PreserveOne DEF ShowCard
<1>4. QED
  BY <1>1, <1>2, <1>3

\* A call at hand.
LEMMA AtCall ==
  ASSUME Inv, NEW d \in Drives, drive[d].at \notin Quiet, drive[d].slot \in Slots
  PROVE  Call(d) \in Calls /\ drive[d].batch \in Batches /\ drive[d].for = drive[d].batch
<1>1. drive[d].batch \in Batches /\ drive[d].for = drive[d].batch
  BY DEF Inv, Working, Quiet
<1>2. QED
  BY <1>1 DEF Call, Calls

\* A task that has the result of its call, with the receipts as they become.
LEMMA ToldDrive ==
  ASSUME TypeOK, Inv, NEW d \in Drives, drive[d].at \notin Quiet, drive[d].slot \in Slots, NEW m \in Reports,
         NEW rw, \A c \in Calls : row[c] = "completed" => rw[c] = "completed",
         m = "result" => rw[Call(d)] = "completed"
  PROVE  /\ Told(d, m).at \notin {"begun", "ran"}
         /\ Backed(Told(d, m), verdict) /\ Working(Told(d, m)) /\ Honest(Told(d, m), rw)
<1>0. drive[d].told \in [Slots -> Reports] /\ drive[d].batch \in Batches /\ drive[d].for = drive[d].batch
  BY AtCall DEF TypeOK, DriveType
<1>1. PICK q \in DriveType : q = Told(d, m)
  <2>1. Told(d, m) \in DriveType
    BY ToldType
  <2>2. QED
    BY <2>1, Zenon
<1>2. /\ q.at = "calls" /\ q.batch = drive[d].batch /\ q.for = drive[d].for /\ q.ans = drive[d].ans
      /\ q.told = [drive[d].told EXCEPT ![drive[d].slot] = m]
  <2>1. /\ Told(d, m).at = "calls" /\ Told(d, m).batch = drive[d].batch
        /\ Told(d, m).for = drive[d].for /\ Told(d, m).ans = drive[d].ans
        /\ Told(d, m).told = [drive[d].told EXCEPT ![drive[d].slot] = m]
    BY ToldType
  <2>2. QED
    BY <1>1, <2>1, Zenon
<1>3. Backed(q, verdict)
  <2>1. Backed(drive[d], verdict)
    BY DEF Inv
  <2>2. QED
    BY <1>2, <2>1 DEF Backed
<1>4. ASSUME NEW s \in Slots, q.told[s] = "result" PROVE rw[<<q.batch, s>>] = "completed"
  <2>1. CASE s = drive[d].slot
    BY <1>0, <1>2, <1>4, <2>1 DEF Call
  <2>2. CASE s # drive[d].slot
    <3>1. drive[d].told[s] = "result"
      BY <1>0, <1>2, <1>4, <2>2
    <3>2. row[<<drive[d].batch, s>>] = "completed"
      BY <3>1 DEF Inv, Honest
    <3>3. <<drive[d].batch, s>> \in Calls
      BY <1>0 DEF Calls
    <3>4. QED
      BY <1>2, <3>2, <3>3
  <2>3. QED
    BY <2>1, <2>2
<1>5. Working(q) /\ Honest(q, rw) /\ q.at \notin {"begun", "ran"}
  BY <1>0, <1>2, <1>4 DEF Working, Honest, Quiet
<1>6. QED
  BY <1>1, <1>3, <1>5

\* A step on one call's receipt by the one task at that call.
LEMMA PreserveCall ==
  ASSUME TypeOK, Inv, NEW d \in Drives, drive[d].at \notin Quiet, drive[d].slot \in Slots,
         NEW r, drive' = [drive EXCEPT ![d] = r],
         UNCHANGED <<kept, desk, verdict, fate, said>>,
         row' \in [Calls -> {"none", "started", "completed", "unsure"}],
         \A c \in Calls : c # Call(d) => row'[c] = row[c] /\ runs'[c] = runs[c],
         Backed(r, verdict), Working(r), Holds(r, row', runs'), Honest(r, row'),
         r.at \in {"begun", "ran"} => r.batch = drive[d].batch /\ r.slot = drive[d].slot,
         \A e \in Drives : e # d /\ drive[e].at \in {"begun", "ran"} => Call(e) # Call(d),
         row[Call(d)] = "completed" => row'[Call(d)] = "completed",
         row'[Call(d)] = "none" => runs'[Call(d)] = 0,
         row'[Call(d)] = "completed" => runs'[Call(d)] = 1
  PROVE  Inv'
<1>0. drive'[d] = r /\ \A e \in Drives : e # d => drive'[e] = drive[e]
  BY DEF TypeOK
<1>1. \A c \in Calls : row[c] = "completed" => row'[c] = "completed"
  OBVIOUS
<1>2. ASSUME NEW e \in Drives, e # d
      PROVE  /\ Backed(drive'[e], verdict') /\ Working(drive'[e])
             /\ Holds(drive'[e], row', runs') /\ Honest(drive'[e], row')
  <2>1. drive'[e] = drive[e]
    BY <1>0, <1>2
  <2>2. Backed(drive[e], verdict) /\ Working(drive[e]) /\ Holds(drive[e], row, runs) /\ Honest(drive[e], row)
    BY DEF Inv
  <2>3. Holds(drive[e], row', runs')
    <3>1. CASE drive[e].at \in {"begun", "ran"}
      <4>1. Call(e) \in Calls /\ Call(e) # Call(d)
        BY <1>2, <3>1, HeldCall
      <4>2. row'[<<drive[e].batch, drive[e].slot>>] = row[<<drive[e].batch, drive[e].slot>>]
            /\ runs'[<<drive[e].batch, drive[e].slot>>] = runs[<<drive[e].batch, drive[e].slot>>]
        BY <4>1 DEF Call
      <4>3. QED
        BY <2>2, <4>2 DEF Holds
    <3>2. CASE drive[e].at \notin {"begun", "ran"}
      BY <3>2 DEF Holds
    <3>3. QED
      BY <3>1, <3>2
  <2>4. Honest(drive[e], row')
    <3>1. ASSUME NEW s \in Slots, drive[e].told[s] = "result"
          PROVE  drive[e].batch \in Batches /\ row'[<<drive[e].batch, s>>] = "completed"
      <4>1. drive[e].batch \in Batches /\ row[<<drive[e].batch, s>>] = "completed"
        BY <2>2, <3>1 DEF Honest
      <4>2. <<drive[e].batch, s>> \in Calls
        BY <4>1 DEF Calls
      <4>3. QED
        BY <1>1, <4>1, <4>2
    <3>2. QED
      BY <2>2, <3>1 DEF Honest
  <2>5. QED
    BY <2>1, <2>2, <2>3, <2>4
<1>3. Alone'
  <2> SUFFICES ASSUME NEW e \in Drives, NEW f \in Drives, e # f,
                      drive'[e].at \in {"begun", "ran"}, drive'[f].at \in {"begun", "ran"}
               PROVE  Call(e)' # Call(f)'
    BY DEF Alone
  <2>1. CASE e # d /\ f # d
    <3>1. drive'[e] = drive[e] /\ drive'[f] = drive[f]
      BY <1>0, <2>1
    <3>2. Call(e) # Call(f)
      BY <3>1 DEF Inv, Alone
    <3>3. QED
      BY <3>1, <3>2 DEF Call
  <2>2. CASE e = d
    <3>1. drive'[f] = drive[f] /\ f # d
      BY <1>0, <2>2
    <3>2. Call(d)' = Call(d) /\ Call(f)' = Call(f)
      BY <1>0, <2>2, <3>1 DEF Call
    <3>3. QED
      BY <2>2, <3>1, <3>2
  <2>3. CASE f = d
    <3>1. drive'[e] = drive[e] /\ e # d
      BY <1>0, <2>3
    <3>2. Call(d)' = Call(d) /\ Call(e)' = Call(e)
      BY <1>0, <2>3, <3>1 DEF Call
    <3>3. QED
      BY <2>3, <3>1, <3>2
  <2>4. QED
    BY <2>1, <2>2, <2>3
<1>4. \A c \in Calls : /\ row'[c] = "none" => runs'[c] = 0
                       /\ row'[c] = "completed" => runs'[c] = 1
                       /\ "result" \in said'[c] => row'[c] = "completed"
  <2> SUFFICES ASSUME NEW c \in Calls
               PROVE  /\ row'[c] = "none" => runs'[c] = 0
                      /\ row'[c] = "completed" => runs'[c] = 1
                      /\ "result" \in said'[c] => row'[c] = "completed"
    OBVIOUS
  <2>1. /\ row[c] = "none" => runs[c] = 0
        /\ row[c] = "completed" => runs[c] = 1
        /\ "result" \in said[c] => row[c] = "completed"
    BY DEF Inv
  <2>2. QED
    BY <1>1, <2>1
<1>5. (\A b \in Batches : kept'[b] = "approve" => verdict'[b] = "approve") /\ DeskBacked(desk', verdict')
  BY DEF Inv
<1>6. Backed(drive'[d], verdict') /\ Working(drive'[d]) /\ Holds(drive'[d], row', runs') /\ Honest(drive'[d], row')
  BY <1>0
<1>7. QED
  BY <1>2, <1>3, <1>4, <1>5, <1>6 DEF Inv

\* Others hold other receipts.
LEMMA OtherCalls ==
  ASSUME Inv, NEW d \in Drives, drive[d].at \in {"begun", "ran"} \/ row[Call(d)] = "none"
  PROVE  \A e \in Drives : e # d /\ drive[e].at \in {"begun", "ran"} => Call(e) # Call(d)
<1> SUFFICES ASSUME NEW e \in Drives, e # d, drive[e].at \in {"begun", "ran"} PROVE Call(e) # Call(d)
  OBVIOUS
<1>1. row[Call(e)] = "started"
  BY DEF Inv, Holds, Call
<1>2. QED
  BY <1>1 DEF Inv, Alone

LEMMA InvBegin ==
  ASSUME TypeOK, Inv, NEW d \in Drives, DenyCall(d) \/ BeginEffect(d)
  PROVE  Inv'
<1>0. drive[d] \in DriveType /\ drive[d].slot \in Slots /\ drive[d].at = "calls" /\ drive[d].at \notin Quiet
  BY DEF TypeOK, DenyCall, BeginEffect, Quiet
<1>1. Call(d) \in Calls
  BY <1>0, AtCall
<1>2. Standing /\ UNCHANGED <<kept, desk, said, verdict, fate, runs>>
  BY StandsStill DEF DenyCall, BeginEffect
<1>3. CASE BeginEffect(d) /\ row[Call(d)] = "none"
  <2> DEFINE r == [drive[d] EXCEPT !.at = "begun"]
  <2>1. /\ r.at = "begun" /\ r.batch = drive[d].batch /\ r.for = drive[d].for /\ r.ans = drive[d].ans
        /\ r.slot = drive[d].slot /\ r.told = drive[d].told
    BY <1>0 DEF DriveType
  <2>2. drive' = [drive EXCEPT ![d] = r] /\ row' = [row EXCEPT ![Call(d)] = "started"]
    BY <1>3 DEF BeginEffect, Fresh
  <2>3. /\ row' \in [Calls -> {"none", "started", "completed", "unsure"}] /\ row'[Call(d)] = "started"
        /\ \A c \in Calls : c # Call(d) => row'[c] = row[c] /\ runs'[c] = runs[c]
    BY <1>1, <1>2, <2>2 DEF TypeOK
  <2>4. Backed(r, verdict) /\ Working(r)
    <3>1. Backed(drive[d], verdict) /\ Working(drive[d])
      BY DEF Inv
    <3>2. QED
      BY <1>0, <2>1, <3>1 DEF Backed, Working, Quiet
  <2>5. Holds(r, row', runs')
    <3>1. Call(d) = <<r.batch, r.slot>>
      BY <2>1 DEF Call
    <3>2. runs'[Call(d)] = 0
      BY <1>1, <1>2, <1>3 DEF Inv
    <3>3. Call(d) \in Gated => r.ans = "approve"
      BY <1>3, <2>1 DEF BeginEffect, Allowed
    <3>4. QED
      BY <1>0, <2>1, <2>3, <3>1, <3>2, <3>3 DEF Holds
  <2>6. Honest(r, row')
    <3>1. ASSUME NEW s \in Slots, r.told[s] = "result"
          PROVE  r.batch \in Batches /\ row'[<<r.batch, s>>] = "completed"
      <4>1. drive[d].batch \in Batches /\ row[<<drive[d].batch, s>>] = "completed"
        BY <2>1, <3>1 DEF Inv, Honest
      <4>2. <<drive[d].batch, s>> \in Calls /\ <<drive[d].batch, s>> # Call(d)
        BY <1>3, <4>1 DEF Calls
      <4>3. QED
        BY <2>1, <2>3, <4>1, <4>2
    <3>2. QED
      BY <2>1, <3>1 DEF Honest, Quiet
  <2>7. \A e \in Drives : e # d /\ drive[e].at \in {"begun", "ran"} => Call(e) # Call(d)
    BY <1>3, OtherCalls
  <2>8. QED
    BY <1>0, <1>2, <1>3, <2>1, <2>2, <2>3, <2>4, <2>5, <2>6, <2>7, PreserveCall
<1>4. CASE ~(BeginEffect(d) /\ row[Call(d)] = "none")
  <2>1. PICK m \in Reports : drive' = [drive EXCEPT ![d] = Told(d, m)] /\ (m = "result" => row[Call(d)] = "completed")
    BY <1>4 DEF DenyCall, BeginEffect, Fresh, Recorded, Reports
  <2>2. UNCHANGED row
    BY <1>4 DEF DenyCall, BeginEffect, Fresh, Recorded
  <2>3. /\ Told(d, m).at \notin {"begun", "ran"} /\ Backed(Told(d, m), verdict)
        /\ Working(Told(d, m)) /\ Honest(Told(d, m), row)
    BY <1>0, <2>1, ToldDrive
  <2>4. QED
    BY <1>2, <2>1, <2>2, <2>3, PreserveOne
<1>5. QED
  BY <1>3, <1>4

LEMMA InvDispatch ==
  ASSUME TypeOK, Inv, NEW d \in Drives, Dispatch(d)
  PROVE  Inv'
<1>0. drive[d] \in DriveType /\ drive[d].slot \in Slots /\ drive[d].at = "begun" /\ Call(d) \in Calls
      /\ drive[d].at \notin Quiet
  BY HeldCall DEF TypeOK, Dispatch, Quiet
<1>1. row[Call(d)] = "started" /\ runs[Call(d)] = 0 /\ (Call(d) \in Gated => drive[d].ans = "approve")
  BY <1>0 DEF Inv, Holds, Call
<1> DEFINE r == [drive[d] EXCEPT !.at = "ran"]
<1>2. /\ r.at = "ran" /\ r.batch = drive[d].batch /\ r.for = drive[d].for /\ r.ans = drive[d].ans
      /\ r.slot = drive[d].slot /\ r.told = drive[d].told
  BY <1>0 DEF DriveType
<1>3. drive' = [drive EXCEPT ![d] = r] /\ UNCHANGED <<row, kept, desk, verdict, fate, said>>
  BY DEF Dispatch
<1>4. runs'[Call(d)] = 1 /\ \A c \in Calls : c # Call(d) => row'[c] = row[c] /\ runs'[c] = runs[c]
  BY <1>0, <1>1 DEF Dispatch, TypeOK
<1>5. Backed(r, verdict) /\ Working(r)
  <2>1. Backed(drive[d], verdict) /\ Working(drive[d])
    BY DEF Inv
  <2>2. QED
    BY <1>0, <1>2, <2>1 DEF Backed, Working, Quiet
<1>6. Holds(r, row', runs')
  <2>1. Call(d) = <<r.batch, r.slot>>
    BY <1>2 DEF Call
  <2>2. QED
    BY <1>0, <1>1, <1>2, <1>3, <1>4, <2>1 DEF Holds
<1>7. Honest(r, row')
  <2>1. Honest(drive[d], row)
    BY DEF Inv
  <2>2. QED
    BY <1>2, <1>3, <2>1 DEF Honest, Quiet
<1>8. \A e \in Drives : e # d /\ drive[e].at \in {"begun", "ran"} => Call(e) # Call(d)
  BY <1>0, OtherCalls
<1>9. row' \in [Calls -> {"none", "started", "completed", "unsure"}]
  BY <1>3 DEF TypeOK
<1>10. QED
  BY <1>0, <1>1, <1>2, <1>3, <1>4, <1>5, <1>6, <1>7, <1>8, <1>9, PreserveCall

LEMMA InvFinish ==
  ASSUME TypeOK, Inv, NEW d \in Drives, FinishEffect(d) \/ ToolTimeout(d)
  PROVE  Inv'
<1>0. drive[d].slot \in Slots /\ drive[d].at \in {"begun", "ran"} /\ Call(d) \in Calls /\ drive[d].at \notin Quiet
  BY HeldCall DEF FinishEffect, ToolTimeout, Quiet
<1>1. row[Call(d)] = "started" /\ runs[Call(d)] = (IF drive[d].at = "begun" THEN 0 ELSE 1)
  BY <1>0 DEF Inv, Holds, Call
<1>2. PICK m \in Reports, x \in {"started", "completed", "unsure"} :
        /\ drive' = [drive EXCEPT ![d] = Told(d, m)]
        /\ row' = [row EXCEPT ![Call(d)] = x]
        /\ m = "result" => x = "completed"
        /\ x = "completed" => drive[d].at = "ran"
  <2>1. row = [row EXCEPT ![Call(d)] = "started"]
    BY <1>1 DEF TypeOK
  <2>2. CASE FinishEffect(d)
    <3>1. \/ row' = [row EXCEPT ![Call(d)] = "completed"] /\ drive' = [drive EXCEPT ![d] = Told(d, "result")]
          \/ /\ row' = row \/ row' = [row EXCEPT ![Call(d)] = "unsure"]
             /\ drive' = [drive EXCEPT ![d] = Told(d, "unknown")]
      BY <2>2 DEF FinishEffect
    <3>2. drive[d].at = "ran"
      BY <2>2 DEF FinishEffect
    <3>3. QED
      BY <2>1, <3>1, <3>2 DEF Reports
  <2>3. CASE ToolTimeout(d)
    <3>1. /\ drive' = [drive EXCEPT ![d] = Told(d, "unknown")]
          /\ row' = row \/ (drive[d].at = "ran" /\ row' = [row EXCEPT ![Call(d)] = "completed"])
      BY <2>3 DEF ToolTimeout
    <3>2. QED
      BY <2>1, <3>1 DEF Reports
  <2>4. QED
    BY <2>2, <2>3
<1>3. UNCHANGED <<kept, desk, verdict, fate, said, runs>>
  BY DEF FinishEffect, ToolTimeout
<1>4. /\ row' \in [Calls -> {"none", "started", "completed", "unsure"}] /\ row'[Call(d)] = x
      /\ \A c \in Calls : c # Call(d) => row'[c] = row[c] /\ runs'[c] = runs[c]
  BY <1>0, <1>2, <1>3 DEF TypeOK
<1>5. \A c \in Calls : row[c] = "completed" => row'[c] = "completed"
  BY <1>1, <1>4
<1>6. /\ Told(d, m).at \notin {"begun", "ran"}
      /\ Backed(Told(d, m), verdict) /\ Working(Told(d, m)) /\ Honest(Told(d, m), row')
  BY <1>0, <1>2, <1>4, <1>5, ToldDrive
<1>7. Holds(Told(d, m), row', runs')
  BY <1>6 DEF Holds
<1>8. \A e \in Drives : e # d /\ drive[e].at \in {"begun", "ran"} => Call(e) # Call(d)
  BY <1>0, OtherCalls
<1>9. row'[Call(d)] = "completed" => runs'[Call(d)] = 1
  BY <1>1, <1>2, <1>3, <1>4
<1>10. QED
  BY <1>0, <1>1, <1>2, <1>3, <1>4, <1>6, <1>7, <1>8, <1>9, PreserveCall

LEMMA StartDrive ==
  ASSUME TypeOK, top < N, NEW in \in BOOLEAN
  PROVE  LET r == Task("node", top + 1, 0, "none", in) IN
         r.at \notin {"begun", "ran"} /\ Backed(r, verdict') /\ Working(r) /\ Honest(r, row)
<1>1. top + 1 \in 0 .. N /\ top + 1 \in Batches
  BY Ranges DEF TypeOK, Batches
<1>2. 0 \in 0 .. N /\ "none" \in Answers
  BY Ranges DEF Answers
<1>3. PICK r \in DriveType : r = Task("node", top + 1, 0, "none", in)
  BY <1>1, <1>2, TaskType
<1>4. r.at = "node" /\ r.batch = top + 1 /\ r.ans = "none" /\ r.told = NoTold
  BY <1>1, <1>2, <1>3, TaskType
<1>5. Working(r) /\ Honest(r, row) /\ r.at \notin {"begun", "ran"}
  BY <1>1, <1>4, QuietDrive DEF Quiet
<1>6. QED
  BY <1>3, <1>4, <1>5 DEF Backed

LEMMA SpawnedDrive ==
  ASSUME NEW b \in 0 .. N, NEW a \in Answers, NEW in \in BOOLEAN, NEW v, a = "approve" => b \in Batches /\ v[b] = "approve"
  PROVE  LET r == Spawned(b, a, in) IN
         r.at \notin {"begun", "ran"} /\ Backed(r, v) /\ Working(r) /\ Honest(r, row)
<1>1. PICK r \in DriveType : r = Spawned(b, a, in)
  BY SpawnedType
<1>2. r.at = "spawned" /\ r.told = NoTold /\ r.for = b /\ r.ans = a
  BY <1>1, SpawnedType
<1>3. Working(r) /\ Honest(r, row) /\ r.at \notin {"begun", "ran"}
  BY <1>2, QuietDrive DEF Quiet
<1>4. QED
  BY <1>1, <1>2, <1>3 DEF Backed

LEMMA InvCommit ==
  ASSUME TypeOK, Inv, NEW d \in Drives, Commit(d)
  PROVE  Inv'
<1>0. /\ drive[d] \in DriveType /\ drive[d].at = "calls" /\ drive[d].batch \in Batches
      /\ Honest(drive[d], row)
  BY DEF TypeOK, Inv, Commit, Working
<1>1. ASSUME NEW c \in Calls, "result" \in said'[c] PROVE row[c] = "completed"
  <2>1. CASE "result" \in said[c]
    BY <2>1 DEF Inv
  <2>2. CASE c[1] = drive[d].batch /\ drive[d].told[c[2]] = "result"
    <3>1. c[2] \in Slots /\ c = <<drive[d].batch, c[2]>>
      BY <2>2 DEF Calls
    <3>2. QED
      BY <1>0, <2>2, <3>1 DEF Honest
  <2>3. QED
    BY <1>1, <2>1, <2>2 DEF Commit, TypeOK
<1>2. PICK r : /\ drive' = [drive EXCEPT ![d] = r] /\ r.at \notin {"begun", "ran"}
               /\ Backed(r, verdict') /\ Working(r) /\ Honest(r, row)
  <2>1. CASE drive' = [drive EXCEPT ![d] = Idle]
    BY <2>1, IdleDrive
  <2>2. CASE top < N /\ drive' = [drive EXCEPT ![d] = Task("node", top + 1, 0, "none", drive[d].inline)]
    <3>1. drive[d].inline \in BOOLEAN
      BY <1>0 DEF DriveType
    <3>2. QED
      BY <2>2, <3>1, StartDrive
  <2>3. QED
    BY <2>1, <2>2 DEF Commit
<1>3. \A e \in Drives : drive'[e] = drive[e] \/ drive'[e] = r
  BY <1>2 DEF TypeOK
<1>4. /\ UNCHANGED <<row, runs>> /\ DeskBacked(desk', verdict')
      /\ \A b \in Batches : kept'[b] = "approve" => verdict'[b] = "approve"
  BY DEF Commit, Inv
<1>5. Standing
  <2>1. fate' \in {fate, Ended} /\ UNCHANGED verdict
    BY DEF Commit
  <2>2. QED
    BY <2>1, Stands
<1>6. QED
  BY <1>1, <1>2, <1>3, <1>4, <1>5, Preserve

LEMMA InvClick ==
  ASSUME TypeOK, Inv, Click
  PROVE  Inv'
<1>1. ASSUME NEW b \in Batches, ReadCard(b) PROVE Inv'
  <2>1. Standing /\ DeskBacked(desk', verdict') /\ UNCHANGED <<row, runs, kept, drive, said>>
    BY <1>1, StandsStill DEF ReadCard, Inv
  <2>2. QED
    BY <2>1, PreserveTasks
<1>2. ASSUME NEW b \in Batches, NEW a \in {"approve", "deny"}, RecordDecision(b, a) PROVE Inv'
  <2>1. Standing
    BY <1>2, Stands DEF RecordDecision, Inv, Open, TypeOK
  <2>2. DeskBacked(desk', verdict')
    <3>1. CASE desk' = [at |-> "recorded", batch |-> b, ans |-> a] /\ verdict' = [verdict EXCEPT ![b] = a]
      BY <3>1 DEF DeskBacked, TypeOK
    <3>2. CASE UNCHANGED <<verdict, desk>>
      BY <3>2 DEF Inv
    <3>3. QED
      BY <1>2, <3>1, <3>2 DEF RecordDecision
  <2>3. QED
    BY <1>2, <2>1, <2>2, PreserveTasks DEF RecordDecision
<1>3. ASSUME NEW d \in Drives, LaunchResume(d) PROVE Inv'
  <2>1. desk.batch \in 0 .. N /\ desk.ans \in Answers /\ FALSE \in BOOLEAN
        /\ (desk.ans = "approve" => desk.batch \in Batches /\ verdict'[desk.batch] = "approve")
    BY <1>3 DEF TypeOK, Answers, Inv, DeskBacked, LaunchResume
  <2> DEFINE r == Spawned(desk.batch, desk.ans, FALSE)
  <2>2. r.at \notin {"begun", "ran"} /\ Backed(r, verdict') /\ Working(r) /\ Honest(r, row)
    BY <2>1, SpawnedDrive
  <2>3. \A e \in Drives : drive'[e] = drive[e] \/ drive'[e] = r
    BY <1>3 DEF LaunchResume, TypeOK
  <2>4. /\ Standing /\ UNCHANGED <<row, runs>>
        /\ \A b \in Batches : kept'[b] = "approve" => verdict'[b] = "approve"
        /\ \A c \in Calls : "result" \in said'[c] => row[c] = "completed"
    BY <1>3, StandsStill DEF LaunchResume, Inv
  <2>5. DeskBacked(desk', verdict')
    BY <1>3 DEF LaunchResume, DeskBacked, Free
  <2>6. QED
    BY <2>2, <2>3, <2>4, <2>5, Preserve
<1>4. QED
  BY <1>1, <1>2, <1>3 DEF Click

\* A listed row is closed: an open one is void from now on, of an answered one
\* the decision is lost but not undone.
LEMMA InvSettle ==
  ASSUME TypeOK, Inv, NEW w \in {"stop", "dog"}, SettleListed(w)
  PROVE  Inv'
<1>1. PICK b \in listed[w] : Close(b)
  BY DEF SettleListed
<1>2. b \in Batches
  BY <1>1 DEF TypeOK
<1>3. Standing
  BY <1>1, <1>2 DEF Close, Claimed, Standing, Inv, Open, TypeOK
<1>4. UNCHANGED <<row, runs, kept, drive, said, desk>>
  BY DEF SettleListed
<1>5. DeskBacked(desk', verdict')
  BY <1>3, <1>4 DEF Inv, DeskBacked, Standing
<1>6. QED
  BY <1>3, <1>4, <1>5, PreserveTasks

LEMMA InvWatchdog ==
  ASSUME TypeOK, Inv, Watchdog
  PROVE  Inv'
<1>1. ASSUME Standing, UNCHANGED <<row, runs, kept, drive, said, desk>> PROVE Inv'
  <2>1. DeskBacked(desk', verdict')
    BY <1>1 DEF Inv, DeskBacked, Standing
  <2>2. QED
    BY <1>1, <2>1, PreserveTasks
<1>2. CASE Expire
  BY <1>1, <1>2, StandsStill DEF Expire
<1>3. CASE RecordTimeout
  <2>1. Standing
    BY <1>3, Stands DEF RecordTimeout, Inv, Open, TypeOK
  <2>2. QED
    BY <1>1, <1>3, <2>1 DEF RecordTimeout
<1>4. CASE SweepOrphans \/ ListOrphans
  BY <1>1, <1>4, StandsStill DEF SweepOrphans, ListOrphans
<1>5. ASSUME NEW d \in Drives, LaunchTimeout(d) PROVE Inv'
  <2>1. dog.batch \in 0 .. N /\ "expired" \in Answers /\ FALSE \in BOOLEAN
    BY DEF TypeOK, Answers
  <2> DEFINE r == Spawned(dog.batch, "expired", FALSE)
  <2>2. r.at \notin {"begun", "ran"} /\ Backed(r, verdict') /\ Working(r) /\ Honest(r, row)
    BY <2>1, SpawnedDrive
  <2>3. Standing
    BY <1>5, StandsStill DEF LaunchTimeout
  <2>4. QED
    BY <1>5, <2>2, <2>3, PreserveOne DEF LaunchTimeout
<1>6. QED
  BY <1>2, <1>3, <1>4, <1>5, InvSettle DEF Watchdog

\* What a cancelled or a dead task leaves in the checkpoint is backed.
LEMMA InvCancel ==
  ASSUME TypeOK, Inv, Standing, UNCHANGED <<row, runs, desk, said>>, NEW d \in Drives, CancelTask(d)
  PROVE  Inv'
<1>1. \A e \in Drives : drive'[e] = drive[e] \/ drive'[e] = Idle
  BY DEF CancelTask, TypeOK
<1>2. \A b \in Batches : kept'[b] = "approve" => verdict'[b] = "approve"
  <2>1. kept' = kept \/ kept' = [kept EXCEPT ![drive[d].for] = drive[d].ans]
    BY DEF CancelTask
  <2>2. Backed(drive[d], verdict) /\ \A b \in Batches : kept[b] = "approve" => verdict[b] = "approve"
    BY DEF Inv
  <2>3. QED
    BY <2>1, <2>2 DEF Backed, Standing, TypeOK
<1>3. DeskBacked(desk', verdict') /\ \A c \in Calls : "result" \in said'[c] => row[c] = "completed"
  BY DEF Inv, DeskBacked, Standing
<1>4. QED
  BY <1>1, <1>2, <1>3, IdleDrive, Preserve

LEMMA InvCancelTurn ==
  ASSUME TypeOK, Inv, Standing, UNCHANGED <<row, runs, desk, said>>, CancelTurn
  PROVE  Inv'
<1>1. CASE active \in Drives /\ CancelTask(active)
  BY <1>1, InvCancel
<1>2. CASE UNCHANGED <<drive, kept>>
  <2>1. DeskBacked(desk', verdict')
    BY DEF Inv, DeskBacked, Standing
  <2>2. QED
    BY <1>2, <2>1, PreserveTasks
<1>3. QED
  BY <1>1, <1>2 DEF CancelTurn, TypeOK

LEMMA InvUser ==
  ASSUME TypeOK, Inv, Message \/ Stop
  PROVE  Inv'
<1>0. ASSUME Standing, UNCHANGED <<row, runs, kept, drive, said, desk>> PROVE Inv'
  <2>1. DeskBacked(desk', verdict')
    BY <1>0 DEF Inv, DeskBacked, Standing
  <2>2. QED
    BY <1>0, <2>1, PreserveTasks
<1>1. CASE NewMessage \/ Abort
  <2>1. Standing /\ UNCHANGED <<row, runs, said, desk>> /\ CancelTurn
    BY <1>1, StandsStill DEF NewMessage, Abort
  <2>2. QED
    BY <2>1, InvCancelTurn
<1>2. CASE ReadStatus \/ Superseded
  BY <1>0, <1>2, StandsStill DEF ReadStatus, Superseded
<1>3. ASSUME NEW d \in Drives, Supersede(d) PROVE Inv'
  <2>1. head \in 0 .. N /\ "deny" \in Answers /\ TRUE \in BOOLEAN
    BY Ranges DEF TypeOK, Answers
  <2> DEFINE r == Spawned(head, "deny", TRUE)
  <2>2. r.at \notin {"begun", "ran"} /\ Backed(r, verdict') /\ Working(r) /\ Honest(r, row)
    BY <2>1, SpawnedDrive
  <2>3. Standing
    BY <1>3, StandsStill DEF Supersede
  <2>4. QED
    BY <1>3, <2>2, <2>3, PreserveOne DEF Supersede
<1>4. ASSUME NEW d \in Drives, StartTurn(d) PROVE Inv'
  <2>1. Standing /\ UNCHANGED <<row, runs, kept, said, desk>>
    BY <1>4, StandsStill DEF StartTurn
  <2>2. CASE UNCHANGED drive
    BY <1>0, <2>1, <2>2
  <2>3. CASE top < N /\ drive' = [drive EXCEPT ![d] = Task("node", top + 1, 0, "none", FALSE)]
    <3> DEFINE r == Task("node", top + 1, 0, "none", FALSE)
    <3>1. r.at \notin {"begun", "ran"} /\ Backed(r, verdict') /\ Working(r) /\ Honest(r, row)
      BY <2>3, StartDrive
    <3>2. QED
      BY <2>1, <2>3, <3>1, PreserveOne
  <2>4. QED
    BY <1>4, <2>2, <2>3 DEF StartTurn
<1>5. CASE MarkAbandoned \/ ListLive
  BY <1>0, <1>5, StandsStill DEF MarkAbandoned, ListLive
<1>6. QED
  BY <1>1, <1>2, <1>3, <1>4, <1>5, InvSettle DEF Message, Stop

LEMMA InvRestart ==
  ASSUME TypeOK, Inv, Crash \/ \E d \in Drives : Continue(d)
  PROVE  Inv'
<1>1. CASE Crash
  <2>1. \A e \in Drives : drive'[e] = Idle
    BY <1>1 DEF Crash
  <2>2. ASSUME NEW b \in Batches, kept'[b] = "approve" PROVE verdict'[b] = "approve"
    <3>1. kept[b] = "approve" \/ \E d \in Drives : drive[d].for = b /\ drive[d].ans = "approve"
      BY <1>1, <2>2 DEF Crash
    <3>2. QED
      BY <1>1, <3>1 DEF Inv, Backed, Crash
  <2>3. /\ UNCHANGED <<row, runs>> /\ DeskBacked(desk', verdict')
        /\ \A c \in Calls : "result" \in said'[c] => row[c] = "completed"
    BY <1>1 DEF Crash, DeskBacked, Free, Inv
  <2>4. Standing
    <3>1. fate' \in {fate, Ended} /\ UNCHANGED verdict
      BY <1>1 DEF Crash
    <3>2. QED
      BY <3>1, Stands
  <2>5. QED
    BY <2>1, <2>2, <2>3, <2>4, IdleDrive, Preserve
<1>2. ASSUME NEW d \in Drives, Continue(d) PROVE Inv'
  <2>1. 0 \in 0 .. N /\ "none" \in Answers /\ FALSE \in BOOLEAN
    BY Ranges DEF Answers
  <2> DEFINE r == Spawned(0, "none", FALSE)
  <2>2. r.at \notin {"begun", "ran"} /\ Backed(r, verdict') /\ Working(r) /\ Honest(r, row)
    BY <2>1, SpawnedDrive
  <2>3. Standing
    BY <1>2, StandsStill DEF Continue
  <2>4. QED
    BY <1>2, <2>2, <2>3, PreserveOne DEF Continue
<1>3. QED
  BY <1>1, <1>2

LEMMA InvNext ==
  ASSUME TypeOK, Inv, [Next]_vars
  PROVE  Inv'
<1>1. ASSUME NEW d \in Drives, Step(d) PROVE Inv'
  BY <1>1, InvEnter, InvBegin, InvDispatch, InvFinish, InvCommit DEF Step
<1>2. CASE Next
  BY <1>1, <1>2, InvClick, InvWatchdog, InvUser, InvRestart DEF Next
<1>3. CASE UNCHANGED vars
  <2>1. Standing /\ DeskBacked(desk', verdict') /\ UNCHANGED <<row, runs, kept, drive, said>>
    BY <1>3, StandsStill DEF vars, Inv
  <2>2. QED
    BY <2>1, PreserveTasks
<1>4. QED
  BY <1>2, <1>3

\* TypeOK and Inv hold in every reachable state.
THEOREM Invariance == Spec => [](TypeOK /\ Inv)
<1>1. Init => TypeOK /\ Inv
  BY TypeInit, InvInit
<1>2. TypeOK /\ Inv /\ [Next]_vars => TypeOK' /\ Inv'
  BY TypeNext, InvNext
<1>3. QED
  BY <1>1, <1>2, PTL DEF Spec

\* All the state stays in its types.
THEOREM TypeCorrect == Spec => []TypeOK
BY Invariance, PTL

\* A result in the conversation is a result on record of a call that ran, for
\* any number of batches, tasks and crashes (effect_journal.py:128-140).
THEOREM ResultsAreTrue == Spec => []ResultIsTrue
<1>1. TypeOK /\ Inv => ResultIsTrue
  BY DEF Inv, ResultIsTrue
<1>2. QED
  BY <1>1, Invariance, PTL

-----------------------------------------------------------------------------
(***************************************************************************)
(* The refinement: a step of the thread is one of the promise's, or none.  *)
(***************************************************************************)

LEMMA VerdictIs ==
  /\ Verdict = [b \in Batches |-> Verdict[b]]
  /\ \A b \in Batches :
       /\ verdict[b] \in Open => Verdict[b] = "open"
       /\ verdict[b] = "approve" => Verdict[b] = IF fate[b] = "lost" THEN "withdrawn" ELSE "approve"
       /\ verdict[b] \notin Open \cup {"approve"} => Verdict[b] = "refused"
BY DEF Verdict, Open

LEMMA VerdictNext ==
  /\ Verdict' = [b \in Batches |-> Verdict'[b]]
  /\ \A b \in Batches :
       /\ verdict'[b] \in Open => Verdict'[b] = "open"
       /\ verdict'[b] = "approve" => Verdict'[b] = IF fate'[b] = "lost" THEN "withdrawn" ELSE "approve"
       /\ verdict'[b] \notin Open \cup {"approve"} => Verdict'[b] = "refused"
BY DEF Verdict, Open

\* A row the same on both sides, and one whose fate is to be done, say the same.
LEMMA SameVerdict ==
  ASSUME TypeOK, NEW b \in Batches, verdict'[b] = verdict[b], fate'[b] \in {fate[b], Ended[b]}
  PROVE  Verdict'[b] = Verdict[b]
<1>1. fate'[b] = "lost" <=> fate[b] = "lost"
  BY DEF TypeOK, Ended, Claimed
<1>2. QED
  BY <1>1 DEF Verdict

\* A gate that leaves the open states unapproved is refused.
LEMMA Refused ==
  ASSUME TypeOK, UNCHANGED <<runs, fate>>, NEW b \in Batches, verdict[b] \in Open,
         NEW v \in {"deny", "timeout", "void"}, verdict' = [verdict EXCEPT ![b] = v]
  PROVE  Promise!Next
<1>1. Verdict[b] = "open" /\ Verdict'[b] = "refused"
  BY VerdictIs, VerdictNext DEF TypeOK, Open
<1>2. ASSUME NEW c \in Batches \ {b} PROVE Verdict'[c] = Verdict[c]
  BY SameVerdict DEF TypeOK
<1>3. Verdict' = [Verdict EXCEPT ![b] = "refused"]
  BY <1>1, <1>2, VerdictIs, VerdictNext
<1>4. Promise!Refuse(b)
  BY <1>1, <1>3 DEF Promise!Refuse
<1>5. QED
  BY <1>4 DEF Promise!Next

LEMMA RefineDispatch ==
  ASSUME TypeOK, Inv, NEW d \in Drives, Dispatch(d)
  PROVE  Promise!Next
<1>1. drive[d].at = "begun" /\ drive[d].at \notin Quiet /\ Call(d) \in Calls /\ drive[d].batch \in Batches
      /\ drive[d].for = drive[d].batch
  BY HeldCall DEF Dispatch, Quiet
<1>2. runs[Call(d)] = 0 /\ (Call(d) \in Gated => drive[d].ans = "approve")
  BY <1>1 DEF Inv, Holds, Call
<1>3. runs' = [runs EXCEPT ![Call(d)] = 1]
  BY <1>1, <1>2 DEF Dispatch, TypeOK
<1>4. Call(d) \in Gated => Verdict[Call(d)[1]] \in {"approve", "withdrawn"}
  BY <1>1, <1>2, VerdictIs DEF Inv, Backed, Call
<1>5. UNCHANGED Verdict
  BY DEF Dispatch, Verdict
<1>6. Promise!Invoke(Call(d))
  BY <1>2, <1>3, <1>4, <1>5 DEF Promise!Invoke
<1>7. QED
  BY <1>1, <1>6 DEF Promise!Next

\* What decides: the click, the watchdog and the Stop button.
LEMMA RefineDecision ==
  ASSUME TypeOK, Inv, NEW b \in Batches, NEW a \in {"approve", "deny"}, RecordDecision(b, a)
  PROVE  [Promise!Next]_(Promise!vars)
<1>0. UNCHANGED <<fate, runs>>
  BY DEF RecordDecision
<1>1. CASE verdict[b] \in Open /\ a = "approve" /\ verdict' = [verdict EXCEPT ![b] = "approve"]
  <2>1. Verdict[b] = "open" /\ Verdict'[b] = "approve"
    <3>1. fate'[b] # "lost" /\ verdict'[b] = "approve"
      BY <1>0, <1>1 DEF Inv, TypeOK
    <3>2. QED
      BY <1>1, <3>1, VerdictIs, VerdictNext
  <2>2. ASSUME NEW c \in Batches \ {b} PROVE Verdict'[c] = Verdict[c]
    BY <1>0, <1>1, SameVerdict DEF TypeOK
  <2>3. Verdict' = [Verdict EXCEPT ![b] = "approve"]
    BY <2>1, <2>2, VerdictIs, VerdictNext
  <2>4. Promise!Approve(b)
    BY <1>0, <2>1, <2>3 DEF Promise!Approve
  <2>5. QED
    BY <2>4 DEF Promise!Next
<1>2. CASE verdict[b] \in Open /\ a = "deny" /\ verdict' = [verdict EXCEPT ![b] = "deny"]
  BY <1>0, <1>2, Refused
<1>3. CASE UNCHANGED <<verdict, fate, runs>>
  BY <1>3 DEF Promise!vars, Verdict
<1>4. QED
  BY <1>0, <1>1, <1>2, <1>3 DEF RecordDecision

LEMMA RefineTimeout ==
  ASSUME TypeOK, RecordTimeout
  PROVE  [Promise!Next]_(Promise!vars)
<1>0. UNCHANGED <<fate, runs>>
  BY DEF RecordTimeout
<1>1. CASE UNCHANGED verdict
  BY <1>0, <1>1 DEF Promise!vars, Verdict
<1>2. CASE \E g \in Batches : verdict[g] = "pending" /\ verdict' = [verdict EXCEPT ![g] = "timeout"]
  BY <1>0, <1>2, Refused DEF Open
<1>3. CASE verdict' = [verdict EXCEPT ![dog.batch] = IF @ = "none" THEN "timeout" ELSE @]
  <2>1. CASE dog.batch \in Batches /\ verdict[dog.batch] = "none"
    <3>1. verdict' = [verdict EXCEPT ![dog.batch] = "timeout"] /\ verdict[dog.batch] \in Open
      BY <1>3, <2>1 DEF Open
    <3>2. QED
      BY <1>0, <2>1, <3>1, Refused
  <2>2. CASE ~(dog.batch \in Batches /\ verdict[dog.batch] = "none")
    <3>1. UNCHANGED verdict
      BY <1>3, <2>2 DEF TypeOK
    <3>2. QED
      BY <1>1, <3>1
  <2>3. QED
    BY <2>1, <2>2
<1>4. QED
  BY <1>1, <1>2, <1>3 DEF RecordTimeout

\* Closing a card refuses it, withdraws an approval, or changes nothing.
LEMMA RefineSettle ==
  ASSUME TypeOK, NEW w \in {"stop", "dog"}, SettleListed(w)
  PROVE  [Promise!Next]_(Promise!vars)
<1>1. PICK b \in listed[w] : Close(b)
  BY DEF SettleListed
<1>2. b \in Batches /\ UNCHANGED runs
  BY <1>1 DEF TypeOK, SettleListed
<1>3. ASSUME NEW c \in Batches \ {b} PROVE Verdict'[c] = Verdict[c]
  <2>1. verdict'[c] = verdict[c] /\ fate'[c] = fate[c]
    BY <1>1, <1>2 DEF Close, TypeOK
  <2>2. QED
    BY <2>1, SameVerdict
<1>4. CASE verdict[b] = "pending"
  <2>1. verdict' = [verdict EXCEPT ![b] = "void"] /\ UNCHANGED fate
    BY <1>1, <1>2, <1>4 DEF Close, Claimed, TypeOK
  <2>2. verdict[b] \in Open
    BY <1>4 DEF Open
  <2>3. QED
    BY <1>2, <2>1, <2>2, Refused
<1>5. CASE Claimed(b) /\ verdict[b] = "approve"
  <2>1. verdict'[b] = "approve" /\ fate'[b] = "lost" /\ fate[b] = "live"
    BY <1>1, <1>2, <1>5 DEF Close, Claimed, TypeOK
  <2>2. Verdict[b] = "approve" /\ Verdict'[b] = "withdrawn"
    BY <1>2, <1>5, <2>1, VerdictIs, VerdictNext
  <2>3. Verdict' = [Verdict EXCEPT ![b] = "withdrawn"]
    BY <1>3, <2>2, VerdictIs, VerdictNext
  <2>4. Promise!Withdraw(b)
    BY <1>2, <2>2, <2>3 DEF Promise!Withdraw
  <2>5. QED
    BY <1>2, <2>4 DEF Promise!Next
<1>6. CASE verdict[b] # "pending" /\ ~(Claimed(b) /\ verdict[b] = "approve")
  <2>1. verdict'[b] = verdict[b] /\ (verdict[b] = "approve" => fate'[b] = fate[b])
    BY <1>1, <1>2, <1>6 DEF Close, TypeOK
  <2>2. Verdict'[b] = Verdict[b]
    BY <1>2, <2>1 DEF Verdict
  <2>3. Verdict' = Verdict
    BY <1>3, <2>2, VerdictIs, VerdictNext
  <2>4. QED
    BY <1>2, <2>3 DEF Promise!vars
<1>7. QED
  BY <1>4, <1>5, <1>6

\* What ends answered rows leaves every verdict as it is.
LEMMA RefineEnd ==
  ASSUME TypeOK, Inv, UNCHANGED runs, fate' \in {fate, Ended},
         \A b \in Batches : verdict'[b] = verdict[b] \/ (verdict[b] = "none" /\ verdict'[b] = "pending")
  PROVE  UNCHANGED Promise!vars
<1>1. ASSUME NEW b \in Batches PROVE Verdict'[b] = Verdict[b]
  <2>1. CASE verdict'[b] = verdict[b]
    BY <2>1, SameVerdict
  <2>2. CASE verdict[b] = "none" /\ verdict'[b] = "pending"
    BY <2>2, VerdictIs, VerdictNext DEF Open
  <2>3. QED
    BY <2>1, <2>2
<1>2. Verdict' = Verdict
  BY <1>1, VerdictIs, VerdictNext
<1>3. QED
  BY <1>2 DEF Promise!vars

LEMMA RefineNext ==
  ASSUME TypeOK, Inv, [Next]_vars
  PROVE  [Promise!Next]_(Promise!vars)
<1>0. ASSUME UNCHANGED <<verdict, fate, runs>> PROVE UNCHANGED Promise!vars
  BY <1>0 DEF Promise!vars, Verdict
<1>1. ASSUME NEW d \in Drives, Step(d) PROVE [Promise!Next]_(Promise!vars)
  <2>1. CASE StartResume(d) \/ RunNode(d) \/ DenyCall(d)
    BY <1>0, <2>1 DEF StartResume, RunNode, DenyCall
  <2>2. CASE BeginEffect(d) \/ FinishEffect(d) \/ ToolTimeout(d)
    BY <1>0, <2>2 DEF BeginEffect, FinishEffect, ToolTimeout
  <2>3. CASE ShowCard(d)
    <3>1. /\ UNCHANGED runs /\ fate' \in {fate, Ended}
          /\ \A b \in Batches : verdict'[b] = verdict[b] \/ (verdict[b] = "none" /\ verdict'[b] = "pending")
      BY <2>3 DEF ShowCard, TypeOK
    <3>2. QED
      BY <3>1, RefineEnd
  <2>4. CASE Commit(d)
    <3>1. UNCHANGED <<runs, verdict>> /\ fate' \in {fate, Ended}
      BY <2>4 DEF Commit
    <3>2. QED
      BY <3>1, RefineEnd
  <2>5. CASE Dispatch(d)
    BY <2>5, RefineDispatch
  <2>6. QED
    BY <1>1, <2>1, <2>2, <2>3, <2>4, <2>5 DEF Step
<1>2. CASE Click
  <2>1. CASE (\E b \in Batches : ReadCard(b)) \/ (\E d \in Drives : LaunchResume(d))
    BY <1>0, <2>1 DEF ReadCard, LaunchResume
  <2>2. QED
    BY <1>2, <2>1, RefineDecision DEF Click
<1>3. CASE Watchdog
  <2>1. CASE Expire \/ SweepOrphans \/ ListOrphans \/ \E d \in Drives : LaunchTimeout(d)
    BY <1>0, <2>1 DEF Expire, SweepOrphans, ListOrphans, LaunchTimeout
  <2>2. QED
    BY <1>3, <2>1, RefineTimeout, RefineSettle DEF Watchdog
<1>4. CASE Message
  <2>1. CASE NewMessage \/ ReadStatus \/ Superseded
    BY <1>0, <2>1 DEF NewMessage, ReadStatus, Superseded
  <2>2. ASSUME NEW d \in Drives, Supersede(d) \/ StartTurn(d) PROVE UNCHANGED Promise!vars
    BY <1>0, <2>2 DEF Supersede, StartTurn
  <2>3. QED
    BY <1>4, <2>1, <2>2 DEF Message
<1>5. CASE Stop
  <2>1. CASE Abort \/ MarkAbandoned \/ ListLive
    BY <1>0, <2>1 DEF Abort, MarkAbandoned, ListLive
  <2>2. QED
    BY <1>5, <2>1, RefineSettle DEF Stop
<1>6. CASE Crash
  <2>1. UNCHANGED <<runs, verdict>> /\ fate' \in {fate, Ended}
    BY <1>6 DEF Crash
  <2>2. QED
    BY <2>1, RefineEnd
<1>7. CASE \E d \in Drives : Continue(d)
  BY <1>0, <1>7 DEF Continue
<1>8. CASE UNCHANGED vars
  BY <1>0, <1>8 DEF vars
<1>9. QED
  BY <1>1, <1>2, <1>3, <1>4, <1>5, <1>6, <1>7, <1>8 DEF Next

LEMMA RefineInit == Init => Promise!Init
<1> SUFFICES ASSUME Init PROVE Promise!Init
  OBVIOUS
<1>1. \A b \in Batches : Verdict[b] = "open"
  BY VerdictIs DEF Init, Open
<1>2. Verdict = [b \in Batches |-> "open"]
  BY <1>1, VerdictIs
<1>3. QED
  BY <1>2 DEF Init, Promise!Init

\* The thread keeps its promise for any number of batches, calls, tasks and
\* crashes: a batch is decided once, no gated call runs before its approval and
\* none twice; an approval that Stop or a sweep writes over stays one
\* (effect_journal.py:99-126, misc.py:907-1060).
THEOREM PromiseKept == Spec => KeepsPromise
<1>1. Init => Promise!Init
  BY RefineInit
<1>2. TypeOK /\ Inv /\ [Next]_vars => [Promise!Next]_(Promise!vars)
  BY RefineNext
<1>3. QED
  BY <1>1, <1>2, Invariance, PTL DEF Spec, KeepsPromise, Promise!Spec
-----------------------------------------------------------------------------
(***************************************************************************)
(* Denials. A denial that a new message gives to a leftover interrupt is   *)
(* on no record, and may come beside an approval (ApprovedCallsDenied).    *)
(* It is the only one.                                                     *)
(***************************************************************************)

\* The thread while no new message denies a leftover interrupt.
OnRecord == Init /\ [][Next /\ ~(\E d \in Drives : Supersede(d))]_vars

\* A task's denial is on record, past the interrupt of a batch that asks it has
\* an answer, and it tells a denial only of a call that was denied.
Denies(r, v) == r.ans = "deny" => r.for \in Batches /\ v[r.for] = "deny"
Answered(r) == r.at \notin Quiet /\ Asks(r.batch) => r.ans # "none"
TellsDenial(r, v) ==
  \A s \in Slots : r.told[s] = "denied" => <<r.batch, s>> \in Gated /\ v[r.batch] = "deny"

DInv ==
  /\ \A d \in Drives : /\ Denies(drive[d], verdict) /\ Answered(drive[d])
                       /\ TellsDenial(drive[d], verdict)
  /\ \A b \in Batches : kept[b] = "deny" => verdict[b] = "deny"
  /\ desk.at = "recorded" /\ desk.ans = "deny" => desk.batch \in Batches /\ verdict[desk.batch] = "deny"
  /\ \A c \in Calls : "denied" \in said[c] => c \in Gated /\ verdict[c[1]] = "deny"
  /\ \A c \in Gated : runs[c] # 0 => verdict[c[1]] = "approve"

\* Decisions stay as they are.
Lasting == \A b \in Batches : verdict[b] \in {"approve", "deny"} => verdict'[b] = verdict[b]

DriveDenies(r, v) == Denies(r, v) /\ Answered(r) /\ TellsDenial(r, v)

DeskDenies(k, v) ==
  k.at = "recorded" /\ k.ans = "deny" => k.batch \in Batches /\ v[k.batch] = "deny"

LEMMA DKept ==
  ASSUME DInv, Lasting,
         \A d \in Drives : drive'[d] = drive[d] \/ DriveDenies(drive'[d], verdict'),
         \A b \in Batches : kept'[b] = "deny" => verdict'[b] = "deny",
         DeskDenies(desk', verdict'),
         \A c \in Calls : "denied" \in said'[c] =>
            "denied" \in said[c] \/ (c \in Gated /\ verdict'[c[1]] = "deny"),
         \A c \in Gated : runs'[c] # 0 => runs[c] # 0 \/ verdict'[c[1]] = "approve"
  PROVE  DInv'
<1>1. ASSUME NEW d \in Drives PROVE DriveDenies(drive'[d], verdict')
  <2>1. CASE drive'[d] = drive[d]
    <3>1. Denies(drive[d], verdict) /\ Answered(drive[d]) /\ TellsDenial(drive[d], verdict)
      BY DEF DInv
    <3>2. Denies(drive[d], verdict')
      BY <3>1 DEF Denies, Lasting
    <3>3. TellsDenial(drive[d], verdict')
      <4>1. \A s \in Slots : <<drive[d].batch, s>> \in Gated => drive[d].batch \in Batches
        BY CallAssumption DEF Calls
      <4>2. QED
        BY <3>1, <4>1 DEF TellsDenial, Lasting
    <3>4. QED
      BY <2>1, <3>1, <3>2, <3>3 DEF DriveDenies
  <2>2. QED
    BY <2>1
<1>2. \A c \in Calls : c[1] \in Batches
  BY DEF Calls
<1>3. \A c \in Calls : "denied" \in said'[c] => c \in Gated /\ verdict'[c[1]] = "deny"
  BY <1>2 DEF DInv, Lasting
<1>4. \A c \in Gated : runs'[c] # 0 => verdict'[c[1]] = "approve"
  BY <1>2, CallAssumption DEF DInv, Lasting
<1>5. QED
  BY <1>1, <1>3, <1>4 DEF DInv, DriveDenies, DeskDenies

\* A task that starts or pauses, unless it denies what nobody denied.
LEMMA DQuiet ==
  ASSUME NEW r, NEW v, r.at \in Quiet, r.told = NoTold, Denies(r, v)
  PROVE  DriveDenies(r, v)
BY DEF DriveDenies, Answered, TellsDenial, NoTold

LEMMA DIdle == DriveDenies(Idle, verdict')
BY IdleType, DQuiet DEF Quiet, Denies

\* One task replaced, and nothing decided, said or run.
LEMMA DOne ==
  ASSUME TypeOK, DInv, Lasting, UNCHANGED <<runs, kept, desk, said>>,
         NEW d \in Drives, NEW r, drive' = [drive EXCEPT ![d] = r], DriveDenies(r, verdict')
  PROVE  DInv'
<1>1. \A e \in Drives : drive'[e] = drive[e] \/ drive'[e] = r
  BY DEF TypeOK
<1>2. (\A b \in Batches : kept'[b] = "deny" => verdict'[b] = "deny") /\ DeskDenies(desk', verdict')
  BY DEF DInv, Lasting, DeskDenies
<1>3. QED
  BY <1>1, <1>2, DKept

\* No task changes.
LEMMA DTasks ==
  ASSUME DInv, Lasting, UNCHANGED <<runs, kept, drive, said>>, DeskDenies(desk', verdict')
  PROVE  DInv'
<1>1. \A b \in Batches : kept'[b] = "deny" => verdict'[b] = "deny"
  BY DEF DInv, Lasting
<1>2. QED
  BY <1>1, DKept

LEMMA DDesk ==
  ASSUME DInv, Lasting, UNCHANGED desk
  PROVE  DeskDenies(desk', verdict')
BY DEF DInv, Lasting, DeskDenies

\* A task up to its tool calls.
LEMMA DEnter ==
  ASSUME TypeOK, Inv, DInv, NEW d \in Drives, StartResume(d) \/ RunNode(d) \/ ShowCard(d)
  PROVE  DInv'
<1>0. /\ drive[d] \in DriveType /\ Honest(drive[d], row) /\ Working(drive[d])
      /\ Denies(drive[d], verdict) /\ drive[d].at \in Quiet
  BY DEF TypeOK, Inv, DInv, StartResume, RunNode, ShowCard, Quiet
<1>1. drive[d].told = NoTold
  BY <1>0 DEF Honest
<1>2. CASE StartResume(d)
  <2> DEFINE r == [drive[d] EXCEPT !.at = "node", !.batch = head]
  <2>1. Lasting /\ UNCHANGED <<runs, kept, desk, said, verdict>>
    BY <1>2 DEF StartResume, Lasting
  <2>2. r.at = "node" /\ r.told = NoTold /\ r.for = drive[d].for /\ r.ans = drive[d].ans
    BY <1>0, <1>1 DEF DriveType
  <2>3. DriveDenies(r, verdict')
    <3>1. Denies(r, verdict') /\ r.at \in Quiet
      BY <1>0, <2>1, <2>2 DEF Quiet, Denies
    <3>2. QED
      BY <2>2, <3>1, DQuiet
  <2>4. drive' = [drive EXCEPT ![d] = Idle] \/ drive' = [drive EXCEPT ![d] = r]
    BY <1>2 DEF StartResume
  <2>5. QED
    BY <2>1, <2>3, <2>4, DIdle, DOne
<1>3. CASE RunNode(d)
  <2> DEFINE b == drive[d].batch
  <2>0. b \in Batches
    BY <1>0, <1>3 DEF RunNode, Working
  <2>1. Lasting /\ UNCHANGED <<runs, kept, desk, said, verdict>>
    BY <1>3 DEF RunNode, Lasting
  <2>2. CASE Asks(b) /\ Served(d, b) = {}
    <3> DEFINE r == [drive[d] EXCEPT !.at = "pausing"]
    <3>1. r.at = "pausing" /\ r.told = NoTold /\ r.for = drive[d].for /\ r.ans = drive[d].ans
      BY <1>0, <1>1 DEF DriveType
    <3>2. DriveDenies(r, verdict')
      <4>1. Denies(r, verdict') /\ r.at \in Quiet
        BY <1>0, <2>1, <3>1 DEF Quiet, Denies
      <4>2. QED
        BY <3>1, <4>1, DQuiet
    <3>3. drive' = [drive EXCEPT ![d] = r]
      BY <1>3, <2>2 DEF RunNode
    <3>4. QED
      BY <2>1, <3>2, <3>3, DOne
  <2>3. CASE ~(Asks(b) /\ Served(d, b) = {})
    <3>1. PICK a \in IF Asks(b) THEN Served(d, b) ELSE {"none"} :
               drive' = [drive EXCEPT ![d] = [drive[d] EXCEPT !.at = "calls", !.ans = a, !.for = b]]
      BY <1>3, <2>3 DEF RunNode
    <3> DEFINE r == [drive[d] EXCEPT !.at = "calls", !.ans = a, !.for = b]
    <3>2. r.batch = b /\ r.for = b /\ r.ans = a /\ r.told = NoTold
      BY <1>0, <1>1 DEF DriveType
    <3>3. a = "deny" => verdict[b] = "deny"
      <4>1. a = "deny" => kept[b] = "deny" \/ (drive[d].for = b /\ drive[d].ans = "deny")
        BY <3>1 DEF Served
      <4>2. QED
        BY <1>0, <2>0, <4>1 DEF Denies, DInv
    <3>4. Asks(b) => a # "none"
      BY <3>1 DEF Served
    <3>5. DriveDenies(r, verdict')
      <4>1. Denies(r, verdict')
        BY <2>0, <2>1, <3>2, <3>3 DEF Denies
      <4>2. Answered(r)
        BY <3>2, <3>4 DEF Answered
      <4>3. TellsDenial(r, verdict')
        BY <3>2 DEF TellsDenial, NoTold
      <4>4. QED
        BY <4>1, <4>2, <4>3 DEF DriveDenies
    <3>6. QED
      BY <2>1, <3>1, <3>5, DOne
  <2>4. QED
    BY <2>2, <2>3
<1>4. CASE ShowCard(d)
  <2>1. Lasting
    BY <1>4 DEF ShowCard, Lasting, TypeOK
  <2>2. QED
    BY <1>4, <2>1, DIdle, DOne DEF ShowCard
<1>5. QED
  BY <1>2, <1>3, <1>4

\* A task that has what to tell of its call.
LEMMA DTold ==
  ASSUME TypeOK, Inv, DInv, NEW d \in Drives, drive[d].at \notin Quiet, drive[d].slot \in Slots,
         NEW m \in Reports, m = "denied" => Call(d) \in Gated /\ verdict[drive[d].batch] = "deny"
  PROVE  DriveDenies(Told(d, m), verdict)
<1>0. /\ drive[d].told \in [Slots -> Reports] /\ drive[d].batch \in Batches
      /\ Denies(drive[d], verdict) /\ Answered(drive[d]) /\ TellsDenial(drive[d], verdict)
  BY AtCall DEF TypeOK, DriveType, DInv
<1>1. PICK q \in DriveType : q = Told(d, m)
  <2>1. Told(d, m) \in DriveType
    BY ToldType
  <2>2. QED
    BY <2>1, Zenon
<1>2. /\ q.batch = drive[d].batch /\ q.for = drive[d].for /\ q.ans = drive[d].ans
      /\ q.told = [drive[d].told EXCEPT ![drive[d].slot] = m]
  <2>1. /\ Told(d, m).batch = drive[d].batch
        /\ Told(d, m).for = drive[d].for /\ Told(d, m).ans = drive[d].ans
        /\ Told(d, m).told = [drive[d].told EXCEPT ![drive[d].slot] = m]
    BY ToldType
  <2>2. QED
    BY <1>1, <2>1, Zenon
<1>3. ASSUME NEW s \in Slots, q.told[s] = "denied"
      PROVE  <<q.batch, s>> \in Gated /\ verdict[q.batch] = "deny"
  <2>1. CASE s = drive[d].slot
    BY <1>0, <1>2, <1>3, <2>1 DEF Call
  <2>2. CASE s # drive[d].slot
    <3>1. drive[d].told[s] = "denied"
      BY <1>0, <1>2, <1>3, <2>2
    <3>2. QED
      BY <1>0, <1>2, <3>1 DEF TellsDenial
  <2>3. QED
    BY <2>1, <2>2
<1>4. Denies(q, verdict) /\ Answered(q)
  BY <1>0, <1>2 DEF Denies, Answered
<1>5. QED
  BY <1>1, <1>3, <1>4 DEF DriveDenies, TellsDenial

\* A task at its calls.
LEMMA DCall ==
  ASSUME TypeOK, Inv, DInv, NEW d \in Drives,
         DenyCall(d) \/ BeginEffect(d) \/ FinishEffect(d) \/ ToolTimeout(d)
  PROVE  DInv'
<1>0. drive[d] \in DriveType /\ drive[d].slot \in Slots /\ drive[d].at \notin Quiet
  BY HeldCall DEF TypeOK, DenyCall, BeginEffect, FinishEffect, ToolTimeout, Quiet
<1>1. Call(d) \in Calls /\ drive[d].batch \in Batches /\ drive[d].for = drive[d].batch
  BY <1>0, AtCall
<1>2. Lasting /\ UNCHANGED <<kept, desk, said, verdict, runs>>
  BY DEF DenyCall, BeginEffect, FinishEffect, ToolTimeout, Lasting
<1>3. ASSUME NEW m \in Reports, drive' = [drive EXCEPT ![d] = Told(d, m)],
             m = "denied" => Call(d) \in Gated /\ verdict[drive[d].batch] = "deny"
      PROVE  DInv'
  <2>1. DriveDenies(Told(d, m), verdict)
    BY <1>0, <1>3, DTold
  <2>2. DriveDenies(Told(d, m), verdict')
    BY <1>2, <2>1
  <2>3. QED
    BY <1>2, <1>3, <2>2, DOne
<1>4. CASE DenyCall(d)
  <2>1. Call(d) \in Gated /\ drive[d].ans # "approve"
    BY <1>4 DEF DenyCall, Allowed
  <2>2. Asks(drive[d].batch)
    BY <1>0, <2>1 DEF Asks, Call
  <2>3. drive[d].ans \in {"deny", "expired"}
    BY <1>0, <2>1, <2>2 DEF DInv, Answered, DriveType, Answers
  <2>4. drive[d].ans = "deny" => verdict[drive[d].batch] = "deny"
    BY <1>1 DEF DInv, Denies
  <2>5. CASE drive[d].ans = "expired"
    BY <1>3, <1>4, <2>5 DEF DenyCall, Reports
  <2>6. CASE drive[d].ans = "deny"
    BY <1>3, <1>4, <2>1, <2>4, <2>6 DEF DenyCall, Reports
  <2>7. QED
    BY <2>3, <2>5, <2>6
<1>5. CASE BeginEffect(d) /\ Fresh(Call(d))
  <2> DEFINE r == [drive[d] EXCEPT !.at = "begun"]
  <2>1. drive' = [drive EXCEPT ![d] = r]
    BY <1>5 DEF BeginEffect
  <2>2. r.batch = drive[d].batch /\ r.for = drive[d].for /\ r.ans = drive[d].ans /\ r.told = drive[d].told
    BY <1>0 DEF DriveType
  <2>3. Denies(drive[d], verdict) /\ Answered(drive[d]) /\ TellsDenial(drive[d], verdict)
    BY DEF DInv
  <2>4. Denies(r, verdict) /\ Answered(r) /\ TellsDenial(r, verdict)
    BY <1>0, <2>2, <2>3 DEF Denies, Answered, TellsDenial
  <2>5. DriveDenies(r, verdict')
    BY <1>2, <2>4 DEF DriveDenies
  <2>6. QED
    BY <1>2, <2>1, <2>5, DOne
<1>6. CASE BeginEffect(d) /\ ~Fresh(Call(d))
  <2>1. drive' = [drive EXCEPT ![d] = Told(d, Recorded(Call(d)))] /\ Recorded(Call(d)) \in {"result", "unknown"}
    BY <1>6 DEF BeginEffect, Recorded
  <2>2. QED
    BY <1>3, <2>1 DEF Reports
<1>7. CASE FinishEffect(d) \/ ToolTimeout(d)
  <2>1. \E m \in {"result", "unknown"} : drive' = [drive EXCEPT ![d] = Told(d, m)]
    BY <1>7 DEF FinishEffect, ToolTimeout
  <2>2. QED
    BY <1>3, <2>1 DEF Reports
<1>8. QED
  BY <1>4, <1>5, <1>6, <1>7

LEMMA DDispatch ==
  ASSUME TypeOK, Inv, DInv, NEW d \in Drives, Dispatch(d)
  PROVE  DInv'
<1>0. /\ drive[d] \in DriveType /\ Call(d) \in Calls /\ drive[d].batch \in Batches
      /\ drive[d].for = drive[d].batch /\ drive[d].at \notin Quiet
  BY HeldCall DEF TypeOK, Dispatch, Quiet
<1> DEFINE r == [drive[d] EXCEPT !.at = "ran"]
<1>1. r.batch = drive[d].batch /\ r.for = drive[d].for /\ r.ans = drive[d].ans /\ r.told = drive[d].told
  BY <1>0 DEF DriveType
<1>2. drive' = [drive EXCEPT ![d] = r] /\ UNCHANGED <<kept, desk, said, verdict>> /\ Lasting
  BY DEF Dispatch, Lasting
<1>3. Denies(r, verdict) /\ Answered(r) /\ TellsDenial(r, verdict)
  <2>1. Denies(drive[d], verdict) /\ Answered(drive[d]) /\ TellsDenial(drive[d], verdict)
    BY DEF DInv
  <2>2. QED
    BY <1>0, <1>1, <2>1 DEF Denies, Answered, TellsDenial
<1>4. DriveDenies(r, verdict')
  BY <1>2, <1>3 DEF DriveDenies
<1>5. \A e \in Drives : drive'[e] = drive[e] \/ drive'[e] = r
  BY <1>2 DEF TypeOK
<1>6. ASSUME NEW c \in Gated, runs'[c] # 0 PROVE runs[c] # 0 \/ verdict'[c[1]] = "approve"
  <2>1. CASE c = Call(d)
    <3>1. drive[d].ans = "approve"
      BY <2>1 DEF Inv, Holds, Dispatch, Call
    <3>2. verdict[drive[d].batch] = "approve"
      BY <1>0, <3>1 DEF Inv, Backed
    <3>3. QED
      BY <1>2, <2>1, <3>2 DEF Call
  <2>2. CASE c # Call(d)
    BY <1>6, <2>2, CallAssumption DEF Dispatch, TypeOK
  <2>3. QED
    BY <2>1, <2>2
<1>7. (\A b \in Batches : kept'[b] = "deny" => verdict'[b] = "deny") /\ DeskDenies(desk', verdict')
  BY <1>2, DDesk DEF DInv
<1>8. QED
  BY <1>2, <1>4, <1>5, <1>6, <1>7, DKept

LEMMA DStart ==
  ASSUME TypeOK, top < N, NEW in \in BOOLEAN
  PROVE  DriveDenies(Task("node", top + 1, 0, "none", in), verdict')
<1>1. top + 1 \in 0 .. N /\ 0 \in 0 .. N /\ "none" \in Answers
  BY Ranges DEF TypeOK, Batches, Answers
<1> DEFINE r == Task("node", top + 1, 0, "none", in)
<1>2. r.at = "node" /\ r.ans = "none" /\ r.told = NoTold
  BY <1>1, TaskType
<1>3. r.at \in Quiet /\ Denies(r, verdict')
  BY <1>2 DEF Quiet, Denies
<1>4. QED
  BY <1>2, <1>3, DQuiet

LEMMA DSpawned ==
  ASSUME NEW b \in 0 .. N, NEW a \in Answers, NEW in \in BOOLEAN, NEW v,
         a = "deny" => b \in Batches /\ v[b] = "deny"
  PROVE  DriveDenies(Spawned(b, a, in), v)
<1> DEFINE r == Spawned(b, a, in)
<1>1. r.at = "spawned" /\ r.told = NoTold /\ r.for = b /\ r.ans = a
  BY SpawnedType
<1>2. r.at \in Quiet /\ Denies(r, v)
  BY <1>1 DEF Quiet, Denies
<1>3. QED
  BY <1>1, <1>2, DQuiet

LEMMA DCommit ==
  ASSUME TypeOK, Inv, DInv, NEW d \in Drives, Commit(d)
  PROVE  DInv'
<1>0. drive[d] \in DriveType /\ TellsDenial(drive[d], verdict)
  BY DEF TypeOK, DInv
<1>1. ASSUME NEW c \in Calls, "denied" \in said'[c], "denied" \notin said[c]
      PROVE  c \in Gated /\ verdict'[c[1]] = "deny"
  <2>1. c[1] = drive[d].batch /\ drive[d].told[c[2]] = "denied" /\ UNCHANGED verdict
    BY <1>1 DEF Commit, TypeOK
  <2>2. c[2] \in Slots /\ c = <<drive[d].batch, c[2]>>
    BY <2>1 DEF Calls
  <2>3. QED
    BY <1>0, <2>1, <2>2 DEF TellsDenial
<1>2. PICK r : drive' = [drive EXCEPT ![d] = r] /\ DriveDenies(r, verdict')
  <2>1. CASE drive' = [drive EXCEPT ![d] = Idle]
    BY <2>1, DIdle
  <2>2. CASE top < N /\ drive' = [drive EXCEPT ![d] = Task("node", top + 1, 0, "none", drive[d].inline)]
    <3>1. drive[d].inline \in BOOLEAN
      BY <1>0 DEF DriveType
    <3>2. QED
      BY <2>2, <3>1, DStart
  <2>3. QED
    BY <2>1, <2>2 DEF Commit
<1>3. \A e \in Drives : drive'[e] = drive[e] \/ drive'[e] = r
  BY <1>2 DEF TypeOK
<1>4. Lasting /\ UNCHANGED <<runs, kept, desk, verdict>>
  BY DEF Commit, Lasting
<1>5. DeskDenies(desk', verdict') /\ \A b \in Batches : kept'[b] = "deny" => verdict'[b] = "deny"
  BY <1>4, DDesk DEF DInv
<1>6. QED
  BY <1>1, <1>2, <1>3, <1>4, <1>5, DKept

LEMMA DClick ==
  ASSUME TypeOK, DInv, Click
  PROVE  DInv'
<1>1. ASSUME NEW b \in Batches, ReadCard(b) PROVE DInv'
  <2>1. Lasting /\ UNCHANGED <<runs, kept, drive, said, desk>>
    BY <1>1 DEF ReadCard, Lasting
  <2>2. QED
    BY <2>1, DDesk, DTasks
<1>2. ASSUME NEW b \in Batches, NEW a \in {"approve", "deny"}, RecordDecision(b, a) PROVE DInv'
  <2>1. Lasting
    BY <1>2 DEF RecordDecision, Lasting, Open, TypeOK
  <2>2. DeskDenies(desk', verdict')
    <3>1. CASE desk' = [at |-> "recorded", batch |-> b, ans |-> a] /\ verdict' = [verdict EXCEPT ![b] = a]
      BY <3>1 DEF DeskDenies, TypeOK
    <3>2. CASE UNCHANGED <<verdict, desk>>
      BY <2>1, <3>2, DDesk
    <3>3. QED
      BY <1>2, <3>1, <3>2 DEF RecordDecision
  <2>3. QED
    BY <1>2, <2>1, <2>2, DTasks DEF RecordDecision
<1>3. ASSUME NEW d \in Drives, LaunchResume(d) PROVE DInv'
  <2>1. /\ desk.batch \in 0 .. N /\ desk.ans \in Answers /\ FALSE \in BOOLEAN
        /\ desk.ans = "deny" => desk.batch \in Batches /\ verdict'[desk.batch] = "deny"
    BY <1>3 DEF TypeOK, Answers, DInv, LaunchResume
  <2> DEFINE r == Spawned(desk.batch, desk.ans, FALSE)
  <2>2. DriveDenies(r, verdict')
    BY <2>1, DSpawned
  <2>3. \A e \in Drives : drive'[e] = drive[e] \/ drive'[e] = r
    BY <1>3 DEF LaunchResume, TypeOK
  <2>4. Lasting /\ UNCHANGED <<runs, said>> /\ \A b \in Batches : kept'[b] = "deny" => verdict'[b] = "deny"
    BY <1>3 DEF LaunchResume, Lasting, DInv
  <2>5. DeskDenies(desk', verdict')
    BY <1>3 DEF LaunchResume, DeskDenies, Free
  <2>6. QED
    BY <2>2, <2>3, <2>4, <2>5, DKept
<1>4. QED
  BY <1>1, <1>2, <1>3 DEF Click

\* Closing a card changes no decision.
LEMMA DSettle ==
  ASSUME TypeOK, SettleListed("stop") \/ SettleListed("dog")
  PROVE  Lasting
BY DEF SettleListed, Close, Lasting, TypeOK

LEMMA DWatchdog ==
  ASSUME TypeOK, DInv, Watchdog
  PROVE  DInv'
<1>1. Lasting /\ UNCHANGED <<runs, kept, said, desk>>
  <2>1. UNCHANGED <<runs, kept, said, desk>>
    BY DEF Watchdog, Expire, RecordTimeout, SweepOrphans, ListOrphans, SettleListed, LaunchTimeout
  <2>2. CASE RecordTimeout
    BY <2>2 DEF RecordTimeout, Lasting, TypeOK
  <2>3. CASE SettleListed("dog")
    BY <2>1, <2>3, DSettle
  <2>4. CASE ~RecordTimeout /\ ~SettleListed("dog")
    BY <2>1, <2>4 DEF Watchdog, Expire, SweepOrphans, ListOrphans, LaunchTimeout, Lasting
  <2>5. QED
    BY <2>1, <2>2, <2>3, <2>4
<1>2. CASE UNCHANGED drive
  BY <1>1, <1>2, DDesk, DTasks
<1>3. ASSUME NEW d \in Drives, LaunchTimeout(d) PROVE DInv'
  <2>1. dog.batch \in 0 .. N /\ "expired" \in Answers /\ FALSE \in BOOLEAN
    BY DEF TypeOK, Answers
  <2>2. DriveDenies(Spawned(dog.batch, "expired", FALSE), verdict')
    BY <2>1, DSpawned
  <2>3. QED
    BY <1>1, <1>3, <2>2, DOne DEF LaunchTimeout
<1>4. QED
  BY <1>2, <1>3 DEF Watchdog, Expire, RecordTimeout, SweepOrphans, ListOrphans, SettleListed

\* What a cancelled task leaves in the checkpoint is on record.
LEMMA DCancel ==
  ASSUME TypeOK, DInv, Lasting, UNCHANGED <<runs, desk, said>>, NEW d \in Drives, CancelTask(d)
  PROVE  DInv'
<1>1. \A e \in Drives : drive'[e] = drive[e] \/ drive'[e] = Idle
  BY DEF CancelTask, TypeOK
<1>2. \A b \in Batches : kept'[b] = "deny" => verdict'[b] = "deny"
  <2>1. kept' = kept \/ kept' = [kept EXCEPT ![drive[d].for] = drive[d].ans]
    BY DEF CancelTask
  <2>2. Denies(drive[d], verdict) /\ \A b \in Batches : kept[b] = "deny" => verdict[b] = "deny"
    BY DEF DInv
  <2>3. QED
    BY <2>1, <2>2 DEF Denies, Lasting, TypeOK
<1>3. QED
  BY <1>1, <1>2, DDesk, DIdle, DKept

LEMMA DUser ==
  ASSUME TypeOK, DInv, Message \/ Stop, ~\E d \in Drives : Supersede(d)
  PROVE  DInv'
<1>1. Lasting /\ UNCHANGED <<runs, said, desk>>
  <2>1. CASE Message
    <3>1. UNCHANGED <<runs, said, desk, verdict>>
      BY <2>1 DEF Message, NewMessage, ReadStatus, Superseded, StartTurn
    <3>2. QED
      BY <3>1 DEF Lasting
  <2>2. CASE Abort \/ MarkAbandoned \/ ListLive
    BY <2>2 DEF Abort, MarkAbandoned, ListLive, Lasting
  <2>3. CASE SettleListed("stop")
    <3>1. UNCHANGED <<runs, said, desk>>
      BY <2>3 DEF SettleListed
    <3>2. QED
      BY <2>3, <3>1, DSettle
  <2>4. QED
    BY <2>1, <2>2, <2>3 DEF Stop
<1>2. CASE UNCHANGED <<drive, kept>>
  BY <1>1, <1>2, DDesk, DTasks
<1>3. CASE active \in Drives /\ CancelTask(active)
  BY <1>1, <1>3, DCancel
<1>4. CASE NewMessage \/ Abort
  BY <1>2, <1>3, <1>4 DEF NewMessage, Abort, CancelTurn, TypeOK
<1>5. CASE ReadStatus \/ Superseded \/ MarkAbandoned \/ ListLive \/ SettleListed("stop")
  BY <1>2, <1>5 DEF ReadStatus, Superseded, MarkAbandoned, ListLive, SettleListed
<1>6. ASSUME NEW d \in Drives, StartTurn(d) PROVE DInv'
  <2>1. CASE top < N /\ drive' = [drive EXCEPT ![d] = Task("node", top + 1, 0, "none", FALSE)]
    <3>1. DriveDenies(Task("node", top + 1, 0, "none", FALSE), verdict')
      BY <2>1, DStart
    <3>2. UNCHANGED kept
      BY <1>6 DEF StartTurn
    <3>3. QED
      BY <1>1, <2>1, <3>1, <3>2, DOne
  <2>2. QED
    BY <1>2, <1>6, <2>1 DEF StartTurn
<1>7. QED
  BY <1>4, <1>5, <1>6 DEF Message, Stop

LEMMA DRestart ==
  ASSUME TypeOK, DInv, Crash \/ \E d \in Drives : Continue(d)
  PROVE  DInv'
<1>1. Lasting /\ UNCHANGED <<runs, said, verdict>>
  BY DEF Crash, Continue, Lasting
<1>2. CASE Crash
  <2>1. \A e \in Drives : drive'[e] = Idle
    BY <1>2 DEF Crash
  <2>2. ASSUME NEW b \in Batches, kept'[b] = "deny" PROVE verdict'[b] = "deny"
    <3>1. kept[b] = "deny" \/ \E d \in Drives : drive[d].for = b /\ drive[d].ans = "deny"
      BY <1>2, <2>2 DEF Crash
    <3>2. QED
      BY <1>1, <3>1 DEF DInv, Denies
  <2>3. DeskDenies(desk', verdict')
    BY <1>2 DEF Crash, DeskDenies, Free
  <2>4. QED
    BY <1>1, <2>1, <2>2, <2>3, DIdle, DKept
<1>3. ASSUME NEW d \in Drives, Continue(d) PROVE DInv'
  <2>1. 0 \in 0 .. N /\ "none" \in Answers /\ FALSE \in BOOLEAN
    BY Ranges DEF Answers
  <2>2. DriveDenies(Spawned(0, "none", FALSE), verdict')
    BY <2>1, DSpawned
  <2>3. UNCHANGED <<kept, desk>>
    BY <1>3 DEF Continue
  <2>4. QED
    BY <1>1, <1>3, <2>2, <2>3, DOne DEF Continue
<1>4. QED
  BY <1>2, <1>3

LEMMA DInit == Init => DInv
<1> SUFFICES ASSUME Init PROVE DInv
  OBVIOUS
<1>1. \A d \in Drives : drive[d] = Idle
  BY DEF Init
<1>2. DriveDenies(Idle, verdict)
  BY IdleType, DQuiet DEF Quiet, Denies
<1>3. QED
  BY <1>1, <1>2, CallAssumption DEF Init, DInv, DriveDenies, Free

LEMMA DNext ==
  ASSUME TypeOK, Inv, DInv, [Next /\ ~(\E d \in Drives : Supersede(d))]_vars
  PROVE  DInv'
<1>1. CASE Next /\ ~\E d \in Drives : Supersede(d)
  <2>1. ASSUME NEW d \in Drives, Step(d) PROVE DInv'
    BY <2>1, DEnter, DCall, DDispatch, DCommit DEF Step
  <2>2. QED
    BY <1>1, <2>1, DClick, DWatchdog, DUser, DRestart DEF Next
<1>2. CASE UNCHANGED vars
  <2>1. Lasting /\ UNCHANGED <<runs, kept, drive, said, desk>>
    BY <1>2 DEF vars, Lasting
  <2>2. QED
    BY <2>1, DDesk, DTasks
<1>3. QED
  BY <1>1, <1>2

\* Only the denial that a new message gives without a record can be false: while
\* there is none, what the conversation says was denied has not run, whatever
\* clicks, timeouts, stops and crashes (graph_tool_worker.py:1278).
THEOREM RecordedDenials == OnRecord => []DenialIsTrue
<1>1. OnRecord => Spec
  BY PTL DEF OnRecord, Spec
<1>2. Init => DInv
  BY DInit
<1>3. TypeOK /\ Inv /\ DInv /\ [Next /\ ~(\E d \in Drives : Supersede(d))]_vars => DInv'
  BY DNext
<1>4. DInv => DenialIsTrue
  BY DEF DInv, DenialIsTrue
<1>5. QED
  BY <1>1, <1>2, <1>3, <1>4, Invariance, PTL DEF OnRecord
=============================================================================
