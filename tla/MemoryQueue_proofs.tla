------------------------- MODULE MemoryQueue_proofs -------------------------
(***************************************************************************)
(* Proofs about MemoryQueue: the types, that one handler at most can still *)
(* acknowledge a task, that a completed task is final, and how often tasks *)
(* run.                                                                    *)
(***************************************************************************)
EXTENDS MemoryQueue, FiniteSetTheorems, TLAPS

\* The types, and what a claimed batch carries.
Types ==
  /\ TypeOK
  /\ \A w \in Workers : batch[w] # NoBatch => batch[w].token \in Tokens

-----------------------------------------------------------------------------
(***************************************************************************)
(* Types.                                                                  *)
(***************************************************************************)

LEMMA FreshToken ==
  ASSUME Tokens \ InUse # {}
  PROVE NewToken \in Tokens \ InUse
BY DEF NewToken

LEMMA SpendType ==
  ASSUME left \in [Faults -> Nat], NEW f \in Faults, Spend(f)
  PROVE left' \in [Faults -> Nat]
<1>1. left[f] - 1 \in Nat BY DEF Spend
<1> QED BY <1>1 DEF Spend

LEMMA NoBatchType == NoBatch.tasks = {} /\ NoBatch.token = None
BY DEF NoBatch

\* What the steps that write rows write.
LEMMA GiveUpType == ASSUME NEW r \in RowType PROVE GiveUp(r) \in RowType
<1>1. r.attempts + 1 \in Nat BY DEF RowType
<1> QED BY <1>1 DEF RowType, GiveUp

LEMMA TakeType == ASSUME NEW r \in RowType, NEW k \in Tokens PROVE Take(r, k) \in RowType
<1>1. (IF r.status = "pending" THEN r.attempts ELSE r.attempts + 1) \in Nat BY DEF RowType
<1> QED BY <1>1 DEF RowType, Take

LEMMA DoneType ==
  ASSUME NEW r \in RowType
  PROVE /\ [r EXCEPT !.status = "completed", !.token = None, !.stuck = FALSE] \in RowType
        /\ [r EXCEPT !.status = "pending", !.token = None, !.due = FALSE, !.stuck = FALSE] \in RowType
BY DEF RowType

LEMMA FailedType == ASSUME NEW r \in RowType PROVE Failed(r) \in RowType
<1>1. r.attempts + 1 \in Nat BY DEF RowType
<1> QED BY <1>1 DEF RowType, Failed

LEMMA NewType == New \in RowType /\ [New EXCEPT !.status = "deleted"] \in RowType
BY DEF New, RowType

\* A step that writes one row.
LEMMA RowStep ==
  ASSUME Types, NEW t \in Tasks, NEW r \in RowType, rows' = [rows EXCEPT ![t] = r],
         left' \in [Faults -> Nat], runs' \in [Tasks -> Nat],
         UNCHANGED <<handlers, leases, batch, mode>>
  PROVE Types'
BY DEF Types, TypeOK

LEMMA RowsStep ==
  ASSUME Types, rows' \in [Tasks -> RowType], left' \in [Faults -> Nat],
         UNCHANGED <<handlers, leases, batch, mode, runs>>
  PROVE Types'
BY DEF Types, TypeOK

LEMMA ComingTypes ==
  ASSUME Types, NEW t \in Tasks,
         \/ EnqueueTask(t) \/ BackoffPasses(t) \/ RetryFailedTask(t)
         \/ DeleteTask(t) \/ LeaseExpires(t)
  PROVE Types'
<1>1. /\ rows[t] \in RowType /\ left \in [Faults -> Nat] /\ runs \in [Tasks -> Nat]
      /\ rows \in [Tasks -> RowType] /\ "retry" \in Faults
  BY DEF Types, TypeOK, Faults
<1>3. /\ [rows[t] EXCEPT !.status = "pending"] \in RowType
      /\ [rows[t] EXCEPT !.due = TRUE] \in RowType
      /\ [rows[t] EXCEPT !.status = "pending", !.attempts = 0, !.due = TRUE] \in RowType
      /\ [rows[t] EXCEPT !.stuck = TRUE] \in RowType
  BY <1>1 DEF RowType
<1>4. CASE EnqueueTask(t)
  <2>1. rows' = [rows EXCEPT ![t] = [rows[t] EXCEPT !.status = "pending"]] BY <1>4, <1>1 DEF EnqueueTask
  <2> QED BY <1>1, <1>3, <1>4, <2>1, RowStep DEF EnqueueTask
<1>5. CASE BackoffPasses(t)
  <2>1. rows' = [rows EXCEPT ![t] = [rows[t] EXCEPT !.due = TRUE]] BY <1>5, <1>1 DEF BackoffPasses
  <2> QED BY <1>1, <1>3, <1>5, <2>1, RowStep DEF BackoffPasses
<1>6. CASE RetryFailedTask(t)
  <2>1. rows' = [rows EXCEPT ![t] =
                  [rows[t] EXCEPT !.status = "pending", !.attempts = 0, !.due = TRUE]]
    BY <1>6, <1>1 DEF RetryFailedTask
  <2>2. left' \in [Faults -> Nat] BY <1>1, <1>6, SpendType DEF RetryFailedTask
  <2>3. runs' \in [Tasks -> Nat] BY <1>1, <1>6 DEF RetryFailedTask
  <2> QED BY <1>3, <1>6, <2>1, <2>2, <2>3, RowStep DEF RetryFailedTask
<1>7. CASE DeleteTask(t) BY <1>1, <1>7, NewType, RowStep DEF DeleteTask
<1>8. CASE LeaseExpires(t)
  <2>1. rows' = [rows EXCEPT ![t] = [rows[t] EXCEPT !.stuck = TRUE]] BY <1>8, <1>1 DEF LeaseExpires
  <2> QED BY <1>1, <1>3, <1>8, <2>1, RowStep DEF LeaseExpires
<1> QED BY <1>4, <1>5, <1>6, <1>7, <1>8

LEMMA ClaimTypes ==
  ASSUME Types, NEW w \in Workers, NEW l \in Lanes, ClaimBatch(w, l)
  PROVE Types'
<1>1. NewToken \in Tokens BY FreshToken DEF ClaimBatch
<1>2. PICK s \in SUBSET Claimable(l) :
        /\ rows' = Claimed(s)
        /\ batch' = [batch EXCEPT ![w] = IF s = {} THEN NoBatch ELSE [tasks |-> s, token |-> NewToken]]
  BY DEF ClaimBatch
<1>3. s \subseteq Tasks BY DEF Claimable
<1>4. rows' \in [Tasks -> RowType]
  <2>1. \A t \in Tasks : /\ rows[t] \in RowType /\ GiveUp(rows[t]) \in RowType
                        /\ Take(rows[t], NewToken) \in RowType
    BY <1>1, GiveUpType, TakeType DEF Types, TypeOK
  <2> QED BY <1>2, <2>1 DEF Claimed
<1>5. DEFINE b == IF s = {} THEN NoBatch ELSE [tasks |-> s, token |-> NewToken]
<1>6. /\ b \in [tasks : SUBSET Tasks, token : Tokens \cup {None}]
      /\ b # NoBatch => b.token \in Tokens
  BY <1>1, <1>3 DEF NoBatch
<1> HIDE DEF b
<1>7. batch' = [batch EXCEPT ![w] = b] BY <1>2 DEF b
<1> QED BY <1>4, <1>6, <1>7 DEF Types, TypeOK, ClaimBatch

LEMMA DispatchTypes ==
  ASSUME Types, NEW w \in Workers, Dispatch(w)
  PROVE Types'
<1> DEFINE c == batch[w].tasks
           k == batch[w].token
<1>1. /\ c \subseteq Tasks /\ k \in Tokens /\ leases[w] \in [Tasks -> Tokens \cup {None}]
      /\ runs \in [Tasks -> Nat]
      /\ leases \in [Workers -> [Tasks -> Tokens \cup {None}]] /\ handlers \subseteq HandlerType
  BY DEF Types, TypeOK, Dispatch
<1>2. /\ handlers' = handlers \cup [worker: {w}, task: c, token: {k}, phase: {"run"}]
      /\ leases' = [leases EXCEPT ![w] = [t \in Tasks |-> IF t \in c THEN k ELSE @[t]]]
      /\ runs' = [t \in Tasks |-> IF t \in c THEN runs[t] + 1 ELSE runs[t]]
      /\ batch' = [batch EXCEPT ![w] = NoBatch]
      /\ UNCHANGED <<rows, mode, left>>
  BY DEF Dispatch
<1> HIDE DEF c, k
<1>3. handlers' \subseteq HandlerType BY <1>1, <1>2 DEF HandlerType
<1>4. leases' \in [Workers -> [Tasks -> Tokens \cup {None}]]
  <2>1. [t \in Tasks |-> IF t \in c THEN k ELSE leases[w][t]] \in [Tasks -> Tokens \cup {None}] BY <1>1
  <2> QED BY <1>1, <1>2, <2>1
<1>5. runs' \in [Tasks -> Nat] BY <1>1, <1>2
<1>6. NoBatch \in [tasks : SUBSET Tasks, token : Tokens \cup {None}] BY DEF NoBatch
<1> QED BY <1>2, <1>3, <1>4, <1>5, <1>6 DEF Types, TypeOK

\* A handler's acknowledgement writes at most its own row.
LEMMA AckTypes ==
  ASSUME Types, NEW h \in handlers, Acknowledge(h)
  PROVE Types'
<1>1. /\ h \in HandlerType /\ h.task \in Tasks /\ rows[h.task] \in RowType
      /\ rows \in [Tasks -> RowType] /\ runs \in [Tasks -> Nat] /\ left \in [Faults -> Nat]
      /\ "outage" \in Faults
  BY DEF Types, TypeOK, HandlerType, Faults
<1>2. [h EXCEPT !.phase = "acked"] \in HandlerType BY <1>1 DEF HandlerType
<1>3. /\ handlers' = (handlers \ {h}) \cup {[h EXCEPT !.phase = "acked"]}
      /\ UNCHANGED <<leases, batch, mode>>
  BY DEF Acknowledge, AckSuccess, AckFailure, AckOutage, AckLost, Acked
<1>4. handlers' \subseteq HandlerType BY <1>2, <1>3 DEF Types, TypeOK
<1>5. SUFFICES rows' \in [Tasks -> RowType] /\ runs' \in [Tasks -> Nat] /\ left' \in [Faults -> Nat]
  BY <1>3, <1>4 DEF Types, TypeOK
<1>6. CASE AckSuccess(h)
  <2>1. [rows[h.task] EXCEPT !.status = "completed", !.token = None, !.stuck = FALSE] \in RowType
    BY <1>1, DoneType
  <2> QED BY <1>1, <1>6, <2>1 DEF AckSuccess
<1>7. CASE AckFailure(h)
  <2>1. Failed(rows[h.task]) \in RowType BY <1>1, FailedType
  <2> QED BY <1>1, <1>7, <2>1 DEF AckFailure
<1>8. CASE AckOutage(h)
  <2>1. [rows[h.task] EXCEPT !.status = "pending", !.token = None, !.due = FALSE, !.stuck = FALSE] \in RowType
    BY <1>1, DoneType
  <2>2. left' \in [Faults -> Nat] BY <1>1, <1>8, SpendType DEF AckOutage
  <2>3. rows' \in [Tasks -> RowType] BY <1>1, <1>8, <2>1 DEF AckOutage
  <2>4. (IF runs[h.task] = 0 THEN 0 ELSE runs[h.task] - 1) \in Nat BY <1>1
  <2>5. runs' \in [Tasks -> Nat] BY <1>1, <1>8, <2>4 DEF AckOutage
  <2> QED BY <2>2, <2>3, <2>5
<1>9. CASE AckLost(h) BY <1>1, <1>9 DEF AckLost
<1> QED BY <1>6, <1>7, <1>8, <1>9 DEF Acknowledge

LEMMA StuckType ==
  ASSUME NEW r \in RowType, NEW b \in BOOLEAN
  PROVE [r EXCEPT !.stuck = b] \in RowType
<1> QED BY DEF RowType

LEMMA ProcessTypes ==
  ASSUME Types, NEW w \in Workers,
         Stop(w) \/ EndPoll(w) \/ StartWorker(w) \/ Crash(w)
  PROVE Types'
<1>1. /\ left \in [Faults -> Nat] /\ "stop" \in Faults /\ "crash" \in Faults
      /\ NoBatch \in [tasks : SUBSET Tasks, token : Tokens \cup {None}]
      /\ [t \in Tasks |-> None] \in [Tasks -> Tokens \cup {None}]
  BY DEF Types, TypeOK, Faults, NoBatch
<1>2. CASE Stop(w)
  <2>1. left' \in [Faults -> Nat] BY <1>1, <1>2, SpendType DEF Stop
  <2> QED BY <1>2, <2>1 DEF Stop, Types, TypeOK
<1>3. CASE EndPoll(w) BY <1>1, <1>3 DEF EndPoll, Types, TypeOK
<1>4. CASE StartWorker(w) BY <1>4 DEF StartWorker, Types, TypeOK
<1>5. CASE Crash(w)
  <2>1. left' \in [Faults -> Nat] BY <1>1, <1>5, SpendType DEF Crash
  <2> QED BY <1>1, <1>5, <2>1 DEF Crash, Types, TypeOK
<1> QED BY <1>2, <1>3, <1>4, <1>5

LEMMA TypesKept ==
  ASSUME Types, [Next]_vars
  PROVE Types'
<1>1. CASE UNCHANGED vars BY <1>1 DEF vars, Types, TypeOK
<1>2. ASSUME NEW t \in Tasks,
             \/ EnqueueTask(t) \/ BackoffPasses(t) \/ RetryFailedTask(t)
             \/ DeleteTask(t) \/ LeaseExpires(t)
      PROVE Types'
  BY <1>2, ComingTypes
<1>3. ASSUME NEW w \in Workers, NEW l \in Lanes, ClaimBatch(w, l) PROVE Types' BY <1>3, ClaimTypes
<1>4. ASSUME NEW w \in Workers, Dispatch(w) PROVE Types' BY <1>4, DispatchTypes
<1>5. ASSUME NEW w \in Workers, RenewLeases(w) PROVE Types'
  <2>1. \A t \in Tasks : rows[t] \in RowType /\ [rows[t] EXCEPT !.stuck = FALSE] \in RowType
    <3>1. \A t \in Tasks : rows[t] \in RowType BY DEF Types, TypeOK
    <3> QED BY <3>1, StuckType
  <2>2. rows' \in [Tasks -> RowType] BY <1>5, <2>1 DEF RenewLeases
  <2> QED BY <1>5, <2>2, RowsStep DEF RenewLeases, Types, TypeOK
<1>6. ASSUME NEW w \in Workers, Stop(w) \/ EndPoll(w) \/ StartWorker(w) \/ Crash(w) PROVE Types'
  BY <1>6, ProcessTypes
<1>7. ASSUME NEW h \in handlers, Acknowledge(h) PROVE Types' BY <1>7, AckTypes
<1>8. ASSUME NEW h \in handlers, DropLease(h) PROVE Types'
  <2>1. h.worker \in Workers /\ h.task \in Tasks BY DEF Types, TypeOK, HandlerType
  <2>2. leases' \in [Workers -> [Tasks -> Tokens \cup {None}]] BY <1>8, <2>1 DEF DropLease, Types, TypeOK
  <2> QED BY <1>8, <2>2 DEF DropLease, Types, TypeOK
<1>9. CASE Suspend
  <2>1. \A t \in Tasks : rows[t] \in RowType /\ [rows[t] EXCEPT !.stuck = TRUE] \in RowType
    <3>1. \A t \in Tasks : rows[t] \in RowType BY DEF Types, TypeOK
    <3> QED BY <3>1, StuckType
  <2>2. rows' \in [Tasks -> RowType] BY <1>9, <2>1 DEF Suspend
  <2>3. left' \in [Faults -> Nat] BY <1>9, SpendType DEF Suspend, Faults, Types, TypeOK
  <2> QED BY <1>9, <2>2, <2>3, RowsStep DEF Suspend
<1> QED BY <1>1, <1>2, <1>3, <1>4, <1>5, <1>6, <1>7, <1>8, <1>9 DEF Next

LEMMA InitTypes == ASSUME Init PROVE Types
<1>1. NoBatch \in [tasks : SUBSET Tasks, token : Tokens \cup {None}] BY DEF NoBatch
<1> QED BY <1>1, NewType, QueueAssumption DEF Init, Types, TypeOK

LEMMA TypesHold == Spec => []Types
<1> QED BY InitTypes, TypesKept, PTL DEF Spec

\* Rows, handlers, leases and batches keep their types; a handler always has a
\* token of its own claim.
THEOREM TypeCorrect == Spec => []TypeOK
<1>1. Types => TypeOK BY DEF Types
<1> QED BY <1>1, TypesHold, PTL

-----------------------------------------------------------------------------
(***************************************************************************)
(* One owner. A token is handed out once: no two handlers of a task, and   *)
(* no handler and batch, carry the same one.                               *)
(***************************************************************************)

Unique ==
  /\ \A g, h \in handlers : g.task = h.task /\ g.token = h.token => g = h
  /\ \A w \in Workers, t \in Tasks :
       t \in batch[w].tasks =>
         /\ \A h \in handlers : h.task = t => h.token # batch[w].token
         /\ \A v \in Workers \ {w} : t \in batch[v].tasks => batch[v].token # batch[w].token

\* Steps that only let go of handlers and batches.
LEMMA FewerUnique ==
  ASSUME Unique, handlers' \subseteq handlers,
         \A w \in Workers : batch'[w] = batch[w] \/ batch'[w] = NoBatch
  PROVE Unique'
<1>1. \A w \in Workers, t \in Tasks : t \in batch'[w].tasks => batch'[w] = batch[w]
  BY NoBatchType
<1> QED BY <1>1 DEF Unique

LEMMA ClaimUnique ==
  ASSUME Types, Unique, NEW w \in Workers, NEW l \in Lanes, ClaimBatch(w, l)
  PROVE Unique'
<1>1. NewToken \notin InUse BY FreshToken DEF ClaimBatch
<1>2. /\ \A h \in handlers : h.token # NewToken
      /\ \A v \in Workers : batch[v].token # NewToken
  BY <1>1 DEF InUse
<1>3. /\ \A v \in Workers \ {w} : batch'[v] = batch[v]
      /\ batch'[w] = NoBatch \/ batch'[w].token = NewToken
      /\ handlers' = handlers
  <2>1. PICK s \in SUBSET Claimable(l) :
          batch' = [batch EXCEPT ![w] = IF s = {} THEN NoBatch ELSE [tasks |-> s, token |-> NewToken]]
    BY DEF ClaimBatch
  <2> QED BY <2>1 DEF ClaimBatch, Types, TypeOK
<1>4. ASSUME NEW v \in Workers, NEW t \in Tasks, t \in batch'[v].tasks
      PROVE /\ \A h \in handlers' : h.task = t => h.token # batch'[v].token
            /\ \A u \in Workers \ {v} : t \in batch'[u].tasks => batch'[u].token # batch'[v].token
  <2>1. CASE v = w
    <3>1. batch'[w].token = NewToken BY <1>3, <1>4, <2>1, NoBatchType
    <3> QED BY <1>2, <1>3, <2>1, <3>1
  <2>2. CASE v # w
    <3>1. batch'[v] = batch[v] BY <1>3, <2>2
    <3>2. \A u \in Workers \ {v} : t \in batch'[u].tasks => batch'[u].token # batch'[v].token
      <4> SUFFICES ASSUME NEW u \in Workers \ {v}, t \in batch'[u].tasks
                   PROVE batch'[u].token # batch'[v].token
        OBVIOUS
      <4>1. CASE u = w
        <5>1. batch'[w].token = NewToken BY <1>3, <4>1, NoBatchType
        <5> QED BY <1>2, <3>1, <4>1, <5>1
      <4>2. CASE u # w BY <1>3, <1>4, <3>1, <4>2 DEF Unique
      <4> QED BY <4>1, <4>2
    <3> QED BY <1>3, <1>4, <3>1, <3>2 DEF Unique
  <2> QED BY <2>1, <2>2
<1> QED BY <1>3, <1>4 DEF Unique

LEMMA DispatchUnique ==
  ASSUME Types, Unique, NEW w \in Workers, Dispatch(w)
  PROVE Unique'
<1> DEFINE c == batch[w].tasks
           k == batch[w].token
<1>1. /\ handlers' = handlers \cup [worker: {w}, task: c, token: {k}, phase: {"run"}]
      /\ c \subseteq Tasks
  BY DEF Dispatch, Types, TypeOK
<1>2. /\ \A v \in Workers \ {w} : batch'[v] = batch[v]
      /\ batch'[w].tasks = {}
  BY NoBatchType DEF Dispatch, Types, TypeOK
<1>3. \A t \in c : /\ \A h \in handlers : h.task = t => h.token # k
                   /\ \A v \in Workers \ {w} : t \in batch[v].tasks => batch[v].token # k
  BY <1>1 DEF Unique
<1>4. ASSUME NEW g \in handlers', NEW h \in handlers', g.task = h.task, g.token = h.token
      PROVE g = h
  <2> DEFINE started == [worker: {w}, task: c, token: {k}, phase: {"run"}]
  <2>1. \A f \in started : f.task \in c /\ f.token = k OBVIOUS
  <2>2. CASE g \in handlers /\ h \in handlers BY <1>4, <2>2 DEF Unique
  <2>3. CASE g \in started /\ h \in started BY <1>4, <2>3
  <2>4. CASE g \in started /\ h \in handlers BY <1>3, <1>4, <2>1, <2>4
  <2>5. CASE g \in handlers /\ h \in started BY <1>3, <1>4, <2>1, <2>5
  <2> QED BY <1>1, <2>2, <2>3, <2>4, <2>5
<1>5. ASSUME NEW v \in Workers, NEW t \in Tasks, t \in batch'[v].tasks
      PROVE /\ \A h \in handlers' : h.task = t => h.token # batch'[v].token
            /\ \A u \in Workers \ {v} : t \in batch'[u].tasks => batch'[u].token # batch'[v].token
  <2>1. v # w /\ batch'[v] = batch[v] BY <1>2, <1>5
  <2>2. ASSUME NEW h \in handlers', h.task = t PROVE h.token # batch'[v].token
    <3>1. CASE h \in handlers BY <1>5, <2>1, <2>2, <3>1 DEF Unique
    <3>2. CASE h \notin handlers
      <4>1. t \in c /\ h.token = k BY <1>1, <2>2, <3>2
      <4> QED BY <1>3, <1>5, <2>1, <4>1
    <3> QED BY <3>1, <3>2
  <2>3. \A u \in Workers \ {v} : t \in batch'[u].tasks => batch'[u].token # batch'[v].token
    BY <1>2, <1>5, <2>1 DEF Unique
  <2> QED BY <2>2, <2>3
<1> QED BY <1>4, <1>5 DEF Unique

LEMMA AckFrame ==
  ASSUME Types, NEW h \in handlers, Acknowledge(h)
  PROVE /\ h.phase = "run" /\ h \in HandlerType
        /\ handlers' = (handlers \ {h}) \cup {[h EXCEPT !.phase = "acked"]}
        /\ UNCHANGED <<leases, batch, mode>>
BY DEF Types, TypeOK, Acknowledge, AckSuccess, AckFailure, AckOutage, AckLost, Acked

LEMMA AckUnique ==
  ASSUME Types, Unique, NEW h \in handlers, Acknowledge(h)
  PROVE Unique'
<1> DEFINE a == [h EXCEPT !.phase = "acked"]
<1>1. /\ h \in HandlerType /\ handlers' = (handlers \ {h}) \cup {a} /\ batch' = batch
  BY AckFrame
<1>2. a.task = h.task /\ a.token = h.token BY <1>1 DEF HandlerType
<1> HIDE DEF a
<1>3. \A g \in handlers \ {h} : ~(g.task = h.task /\ g.token = h.token) BY DEF Unique
<1>4. \A f, g \in handlers' : f.task = g.task /\ f.token = g.token => f = g
  BY <1>1, <1>2, <1>3 DEF Unique
<1>5. \A g \in handlers' : \E f \in handlers : f.task = g.task /\ f.token = g.token
  BY <1>1, <1>2
<1> QED BY <1>1, <1>4, <1>5 DEF Unique

LEMMA UniqueKept ==
  ASSUME Types, Unique, [Next]_vars
  PROVE Unique'
<1>1. CASE UNCHANGED vars BY <1>1, FewerUnique DEF vars
<1>2. ASSUME NEW t \in Tasks,
             \/ EnqueueTask(t) \/ BackoffPasses(t) \/ RetryFailedTask(t)
             \/ DeleteTask(t) \/ LeaseExpires(t)
      PROVE Unique'
  <2>1. UNCHANGED <<handlers, batch>>
    BY <1>2 DEF EnqueueTask, BackoffPasses, RetryFailedTask, DeleteTask, LeaseExpires
  <2> QED BY <2>1, FewerUnique
<1>3. ASSUME NEW w \in Workers, NEW l \in Lanes, ClaimBatch(w, l) PROVE Unique' BY <1>3, ClaimUnique
<1>4. ASSUME NEW w \in Workers, Dispatch(w) PROVE Unique' BY <1>4, DispatchUnique
<1>5. ASSUME NEW w \in Workers, RenewLeases(w) \/ Stop(w) \/ StartWorker(w) PROVE Unique'
  <2>1. UNCHANGED <<handlers, batch>> BY <1>5 DEF RenewLeases, Stop, StartWorker
  <2> QED BY <2>1, FewerUnique
<1>6. ASSUME NEW w \in Workers, EndPoll(w) \/ Crash(w) PROVE Unique'
  <2>1. handlers' \subseteq handlers /\ batch' = [batch EXCEPT ![w] = NoBatch]
    BY <1>6 DEF EndPoll, Crash
  <2>2. \A v \in Workers : batch'[v] = batch[v] \/ batch'[v] = NoBatch
    BY <2>1 DEF Types, TypeOK
  <2> QED BY <2>1, <2>2, FewerUnique
<1>7. ASSUME NEW h \in handlers, Acknowledge(h) PROVE Unique' BY <1>7, AckUnique
<1>8. ASSUME NEW h \in handlers, DropLease(h) PROVE Unique' BY <1>8, FewerUnique DEF DropLease
<1>9. CASE Suspend BY <1>9, FewerUnique DEF Suspend
<1> QED BY <1>1, <1>2, <1>3, <1>4, <1>5, <1>6, <1>7, <1>8, <1>9 DEF Next

LEMMA InitUnique == ASSUME Init PROVE Unique
<1>1. \A w \in Workers : batch[w].tasks = {} BY NoBatchType DEF Init
<1> QED BY <1>1 DEF Init, Unique

\* For any number of tasks, workers, tokens and faults, one handler of a task at
\* most holds the token the row asks for.
THEOREM OneCanAcknowledge == Spec => []OneOwner
<1>1. Types /\ Unique /\ [Next]_vars => Types' /\ Unique' BY TypesKept, UniqueKept
<1>2. Init => Types /\ Unique BY InitTypes, InitUnique
<1>3. Unique => OneOwner BY DEF Unique, OneOwner, Owns
<1> QED BY <1>1, <1>2, <1>3, PTL DEF Spec

-----------------------------------------------------------------------------
(***************************************************************************)
(* A completed row carries no token, so no late handler owns it.           *)
(***************************************************************************)

Tokenless == \A t \in Tasks : rows[t].status = "completed" => rows[t].token = None

Final(t) ==
  /\ rows[t].status = "completed" => rows'[t] = rows[t] \/ rows'[t].status = "deleted"
  /\ rows'[t].status = "completed" => rows'[t].token = None

LEMMA ClaimFinal ==
  ASSUME Types, Tokenless, NEW w \in Workers, NEW l \in Lanes, ClaimBatch(w, l), NEW t \in Tasks
  PROVE Final(t)
<1>1. PICK s \in SUBSET Claimable(l) : rows' = Claimed(s) BY DEF ClaimBatch
<1>2. rows[t] \in RowType BY DEF Types, TypeOK
<1>3. CASE t \in GivenUp
  <2>1. rows[t].status = "processing" BY <1>3 DEF GivenUp, Expired
  <2>2. rows'[t] = GiveUp(rows[t]) BY <1>1, <1>3 DEF Claimed
  <2> QED BY <1>2, <2>1, <2>2 DEF Final, GiveUp, RowType
<1>4. CASE t \notin GivenUp /\ t \in s
  <2>1. rows[t].status \in {"pending", "processing"} BY <1>4 DEF Claimable, Ready, Expired
  <2>2. rows'[t] = Take(rows[t], NewToken) BY <1>1, <1>4 DEF Claimed
  <2> QED BY <1>2, <2>1, <2>2 DEF Final, Take, RowType
<1>5. CASE t \notin GivenUp /\ t \notin s
  <2>1. rows'[t] = rows[t] BY <1>1, <1>5 DEF Claimed
  <2> QED BY <2>1 DEF Final, Tokenless
<1> QED BY <1>3, <1>4, <1>5

LEMMA AckFinal ==
  ASSUME Types, Tokenless, NEW h \in handlers, Acknowledge(h), NEW t \in Tasks
  PROVE Final(t)
<1>1. /\ h.task \in Tasks /\ h.token \in Tokens /\ rows \in [Tasks -> RowType]
      /\ rows[h.task] \in RowType
  BY DEF Types, TypeOK, HandlerType
<1>2. CASE rows'[t] = rows[t] BY <1>2 DEF Final, Tokenless
<1>3. CASE rows'[t] # rows[t]
  <2>1. t = h.task /\ Owns(h)
    BY <1>1, <1>3 DEF Acknowledge, AckSuccess, AckFailure, AckOutage, AckLost
  <2>2. rows[t].status # "completed" BY <1>1, <2>1, QueueAssumption DEF Owns, Tokenless
  <2>3. rows'[t].token = None
    <3>1. CASE AckSuccess(h) BY <1>1, <2>1, <3>1 DEF AckSuccess, RowType
    <3>2. CASE AckFailure(h)
      <4>1. rows'[t] = Failed(rows[t]) BY <1>1, <2>1, <3>2 DEF AckFailure
      <4> QED BY <1>1, <2>1, <4>1 DEF Failed, RowType
    <3>3. CASE AckOutage(h)
      <4>1. rows' = [rows EXCEPT ![h.task] =
                       [rows[h.task] EXCEPT !.status = "pending", !.token = None,
                                            !.due = FALSE, !.stuck = FALSE]]
        BY <2>1, <3>3 DEF AckOutage
      <4>2. rows'[t] = [rows[t] EXCEPT !.status = "pending", !.token = None,
                                       !.due = FALSE, !.stuck = FALSE]
        BY <1>1, <2>1, <4>1
      <4> QED BY <1>1, <2>1, <4>2 DEF RowType
    <3>4. CASE AckLost(h) BY <1>3, <3>4 DEF AckLost
    <3> QED BY <3>1, <3>2, <3>3, <3>4 DEF Acknowledge
  <2> QED BY <2>2, <2>3 DEF Final
<1> QED BY <1>2, <1>3

LEMMA StepFinal ==
  ASSUME Types, Tokenless, [Next]_vars, NEW t \in Tasks
  PROVE Final(t)
<1>0. rows \in [Tasks -> RowType] /\ rows[t] \in RowType BY DEF Types, TypeOK
<1>1. CASE rows' = rows BY <1>1 DEF Final, Tokenless
<1>2. ASSUME NEW u \in Tasks,
             \/ EnqueueTask(u) \/ BackoffPasses(u) \/ RetryFailedTask(u)
             \/ DeleteTask(u) \/ LeaseExpires(u)
      PROVE Final(t)
  <2>1. CASE u # t
    <3>1. rows'[t] = rows[t]
      BY <1>0, <1>2, <2>1 DEF EnqueueTask, BackoffPasses, RetryFailedTask, DeleteTask, LeaseExpires
    <3> QED BY <3>1 DEF Final, Tokenless
  <2>2. CASE u = t /\ DeleteTask(t) BY <1>0, <2>2 DEF DeleteTask, New, Final
  <2>3. CASE u = t /\ EnqueueTask(t) BY <1>0, <2>3 DEF EnqueueTask, RowType, Final
  <2>4. CASE u = t /\ BackoffPasses(t) BY <1>0, <2>4 DEF BackoffPasses, RowType, Final
  <2>5. CASE u = t /\ RetryFailedTask(t) BY <1>0, <2>5 DEF RetryFailedTask, RowType, Final
  <2>6. CASE u = t /\ LeaseExpires(t) BY <1>0, <2>6 DEF LeaseExpires, RowType, Final
  <2> QED BY <1>2, <2>1, <2>2, <2>3, <2>4, <2>5, <2>6
<1>3. ASSUME NEW w \in Workers, NEW l \in Lanes, ClaimBatch(w, l) PROVE Final(t)
  BY <1>3, ClaimFinal
<1>4. ASSUME NEW w \in Workers, RenewLeases(w) PROVE Final(t)
  <2>1. rows'[t] = IF rows[t].status = "processing" /\ rows[t].token = leases[w][t]
                   THEN [rows[t] EXCEPT !.stuck = FALSE] ELSE rows[t]
    BY <1>4 DEF RenewLeases
  <2> QED BY <1>0, <2>1 DEF Final, Tokenless, RowType
<1>5. ASSUME NEW h \in handlers, Acknowledge(h) PROVE Final(t) BY <1>5, AckFinal
<1>6. CASE Suspend
  <2>1. rows'[t] = IF rows[t].status = "processing" THEN [rows[t] EXCEPT !.stuck = TRUE] ELSE rows[t]
    BY <1>6 DEF Suspend
  <2> QED BY <1>0, <2>1 DEF Final, Tokenless, RowType
<1>7. CASE \/ UNCHANGED vars
           \/ \E w \in Workers : Dispatch(w) \/ Stop(w) \/ EndPoll(w) \/ StartWorker(w) \/ Crash(w)
           \/ \E h \in handlers : DropLease(h)
  <2>1. rows' = rows BY <1>7 DEF vars, Dispatch, Stop, EndPoll, StartWorker, Crash, DropLease
  <2> QED BY <1>1, <2>1
<1> QED BY <1>2, <1>3, <1>4, <1>5, <1>6, <1>7 DEF Next

\* Whatever late handlers, reclaims and suspensions do, a completed task is only
\* ever purged.
THEOREM CompletedForGood == Spec => CompletedIsFinal
<1>1. Init => Types /\ Tokenless
  <2>1. Init => Tokenless BY DEF Init, Tokenless, New
  <2> QED BY <2>1, InitTypes
<1>2. Types /\ Tokenless /\ [Next]_vars => Types' /\ Tokenless'
  <2>1. Types /\ Tokenless /\ [Next]_vars => \A t \in Tasks : Final(t) BY StepFinal
  <2> QED BY <2>1, TypesKept DEF Final, Tokenless
<1>3. Types /\ Tokenless /\ [Next]_vars =>
        [\A t \in Tasks : rows[t].status = "completed" =>
           rows'[t] = rows[t] \/ rows'[t].status = "deleted"]_vars
  <2>1. Types /\ Tokenless /\ [Next]_vars => \A t \in Tasks : Final(t) BY StepFinal
  <2> QED BY <2>1 DEF Final
<1> QED BY <1>1, <1>2, <1>3, PTL DEF Spec, CompletedIsFinal

-----------------------------------------------------------------------------
(***************************************************************************)
(* How often a task runs. A batch that was claimed and is not dispatched   *)
(* yet will run once more, also when its lease has been lost meanwhile: so *)
(* runs and batches together are bounded by the attempts. An operator's    *)
(* retry starts the count again and is left out.                           *)
(***************************************************************************)

ToRun(t) == {w \in Workers : t \in batch[w].tasks}
Spent(t) == runs[t] + Cardinality(ToRun(t))

RowBound(r, n) ==
  /\ r.status = "new" => n = 0
  /\ r.status = "pending" => n <= r.attempts /\ n < MaxAttempts
  /\ r.status = "processing" => n <= r.attempts + 1
  /\ r.status = "failed" => r.attempts >= MaxAttempts
  /\ r.status \notin {"processing", "failed"} => r.token = None
  /\ n <= MaxAttempts

Bounded(t) ==
  /\ RowBound(rows[t], Spent(t))
  /\ IsFiniteSet(Running(t)) /\ Cardinality(Running(t)) <= runs[t]

Bounds == left["retry"] = 0 /\ \A t \in Tasks : Bounded(t)

Milder(r, q) == \A n \in Nat : RowBound(r, n) => RowBound(q, n)

LEMMA ToRunFinite ==
  ASSUME IsFiniteSet(Workers), NEW t \in Tasks
  PROVE IsFiniteSet(ToRun(t)) /\ Cardinality(ToRun(t)) \in Nat
<1>1. ToRun(t) \subseteq Workers BY DEF ToRun
<1> QED BY <1>1, FS_Subset, FS_CardinalityType

LEMMA RunningFinite ==
  ASSUME NEW t \in Tasks, IsFiniteSet(Running(t))
  PROVE Cardinality(Running(t)) \in Nat
BY FS_CardinalityType

LEMMA FewerRuns ==
  ASSUME NEW r \in RowType, NEW n \in Nat, NEW m \in Nat, m <= n, RowBound(r, n)
  PROVE RowBound(r, m)
BY QueueAssumption DEF RowBound, RowType

\* Steps that start nothing and write a row that allows as much.
LEMMA MilderStep ==
  ASSUME Types, IsFiniteSet(Workers), NEW t \in Tasks, Bounded(t),
         rows'[t] \in RowType, Milder(rows[t], rows'[t]), runs'[t] = runs[t],
         ToRun(t)' \subseteq ToRun(t), Running(t)' \subseteq Running(t)
  PROVE Bounded(t)'
<1>1. runs[t] \in Nat /\ MaxAttempts \in Nat BY QueueAssumption DEF Types, TypeOK
<1>2. /\ IsFiniteSet(ToRun(t)) /\ Cardinality(ToRun(t)) \in Nat BY ToRunFinite
<1>3. /\ Cardinality(ToRun(t)') \in Nat /\ Cardinality(ToRun(t)') <= Cardinality(ToRun(t))
  BY <1>2, FS_Subset, FS_CardinalityType
<1>4. Spent(t) \in Nat /\ Spent(t)' \in Nat /\ Spent(t)' <= Spent(t) BY <1>1, <1>2, <1>3 DEF Spent
<1>5. RowBound(rows'[t], Spent(t)) BY <1>4 DEF Milder, Bounded
<1>6. RowBound(rows'[t], Spent(t)') BY <1>4, <1>5, FewerRuns
<1>7. IsFiniteSet(Running(t)) /\ Cardinality(Running(t)) \in Nat /\ Cardinality(Running(t)) <= runs[t]
  BY RunningFinite DEF Bounded
<1>8. /\ IsFiniteSet(Running(t)') /\ Cardinality(Running(t)') \in Nat
      /\ Cardinality(Running(t)') <= Cardinality(Running(t))
  BY <1>7, FS_Subset, FS_CardinalityType
<1>9. Cardinality(Running(t)') <= runs'[t] BY <1>1, <1>7, <1>8
<1> QED BY <1>6, <1>8, <1>9 DEF Bounded

LEMMA MilderRows ==
  ASSUME NEW r \in RowType
  PROVE /\ Milder(r, r)
        /\ r.status = "new" => Milder(r, [r EXCEPT !.status = "pending"])
        /\ Milder(r, [r EXCEPT !.due = TRUE])
        /\ Milder(r, [r EXCEPT !.stuck = TRUE]) /\ Milder(r, [r EXCEPT !.stuck = FALSE])
        /\ Milder(r, [New EXCEPT !.status = "deleted"])
<1>1. Milder(r, r) BY DEF Milder
<1>2. r.status = "new" => Milder(r, [r EXCEPT !.status = "pending"])
  BY QueueAssumption DEF Milder, RowBound, RowType
<1>3. Milder(r, [r EXCEPT !.due = TRUE]) BY DEF Milder, RowBound, RowType
<1>4. Milder(r, [r EXCEPT !.stuck = TRUE]) BY DEF Milder, RowBound, RowType
<1>5. Milder(r, [r EXCEPT !.stuck = FALSE]) BY DEF Milder, RowBound, RowType
<1>6. Milder(r, [New EXCEPT !.status = "deleted"]) BY DEF Milder, RowBound, RowType, New
<1> QED BY <1>1, <1>2, <1>3, <1>4, <1>5, <1>6

LEMMA ComingBounds ==
  ASSUME Types, Types', IsFiniteSet(Workers), Bounds, NEW u \in Tasks, NEW t \in Tasks,
         \/ EnqueueTask(u) \/ BackoffPasses(u) \/ DeleteTask(u) \/ LeaseExpires(u)
  PROVE Bounded(t)'
<1>1. rows \in [Tasks -> RowType] /\ rows[t] \in RowType /\ rows'[t] \in RowType /\ Bounded(t)
  BY DEF Types, TypeOK, Bounds
<1>2. UNCHANGED <<handlers, batch, runs>>
  BY DEF EnqueueTask, BackoffPasses, DeleteTask, LeaseExpires
<1>3. Milder(rows[t], rows'[t])
  <2>1. CASE u # t
    <3>1. rows'[t] = rows[t] BY <1>1, <2>1 DEF EnqueueTask, BackoffPasses, DeleteTask, LeaseExpires
    <3> QED BY <1>1, <3>1, MilderRows
  <2>2. CASE u = t /\ DeleteTask(t) BY <1>1, <2>2, MilderRows DEF DeleteTask
  <2>3. CASE u = t /\ EnqueueTask(t)
    <3>1. rows[t].status = "new" /\ rows'[t] = [rows[t] EXCEPT !.status = "pending"]
      BY <1>1, <2>3 DEF EnqueueTask
    <3> QED BY <1>1, <3>1, MilderRows
  <2>4. CASE u = t /\ BackoffPasses(t)
    <3>1. rows'[t] = [rows[t] EXCEPT !.due = TRUE] BY <1>1, <2>4 DEF BackoffPasses
    <3> QED BY <1>1, <3>1, MilderRows
  <2>5. CASE u = t /\ LeaseExpires(t)
    <3>1. rows'[t] = [rows[t] EXCEPT !.stuck = TRUE] BY <1>1, <2>5 DEF LeaseExpires
    <3> QED BY <1>1, <3>1, MilderRows
  <2> QED BY <2>1, <2>2, <2>3, <2>4, <2>5
<1>4. ToRun(t)' = ToRun(t) /\ Running(t)' = Running(t) BY <1>2 DEF ToRun, Running
<1> QED BY <1>1, <1>2, <1>3, <1>4, MilderStep

LEMMA ClaimBounds ==
  ASSUME Types, Types', IsFiniteSet(Workers), Bounds, NEW w \in Workers, NEW l \in Lanes,
         ClaimBatch(w, l), NEW t \in Tasks
  PROVE Bounded(t)'
<1>1. PICK s \in SUBSET Claimable(l) :
        /\ rows' = Claimed(s)
        /\ batch' = [batch EXCEPT ![w] = IF s = {} THEN NoBatch ELSE [tasks |-> s, token |-> NewToken]]
  BY DEF ClaimBatch
<1>2. /\ rows[t] \in RowType /\ rows'[t] \in RowType /\ Bounded(t) /\ runs[t] \in Nat
      /\ batch \in [Workers -> [tasks : SUBSET Tasks, token : Tokens \cup {None}]]
      /\ MaxAttempts \in Nat
  BY QueueAssumption DEF Types, TypeOK, Bounds
<1>3. UNCHANGED <<handlers, runs>> /\ Running(t)' = Running(t) /\ batch[w] = NoBatch
  BY DEF ClaimBatch, Running
<1>4. CASE t \notin s
  <2>1. ToRun(t)' \subseteq ToRun(t) BY <1>1, <1>2, <1>4, NoBatchType DEF ToRun
  <2>2. Milder(rows[t], rows'[t])
    <3>1. CASE t \in GivenUp
      <4>1. rows'[t] = GiveUp(rows[t]) BY <1>1, <3>1 DEF Claimed
      <4>2. rows[t].attempts + 1 >= MaxAttempts BY <3>1 DEF GivenUp
      <4> QED BY <1>2, <4>1, <4>2 DEF Milder, RowBound, GiveUp, RowType
    <3>2. CASE t \notin GivenUp
      <4>1. rows'[t] = rows[t] BY <1>1, <1>4, <3>2 DEF Claimed
      <4> QED BY <1>2, <4>1, MilderRows
    <3> QED BY <3>1, <3>2
  <2> QED BY <1>2, <1>3, <2>1, <2>2, MilderStep
<1>5. CASE t \in s
  <2>1. ToRun(t)' = ToRun(t) \cup {w} /\ w \notin ToRun(t)
    BY <1>1, <1>2, <1>3, <1>5, NoBatchType DEF ToRun
  <2>2. Cardinality(ToRun(t)') = Cardinality(ToRun(t)) + 1 /\ Cardinality(ToRun(t)) \in Nat
    BY <2>1, ToRunFinite, FS_AddElement
  <2>3. Spent(t)' = Spent(t) + 1 /\ Spent(t) \in Nat BY <1>2, <1>3, <2>2 DEF Spent
  <2>4. /\ rows[t].status \in {"pending", "processing"}
        /\ rows[t].status = "processing" => ~(rows[t].attempts + 1 >= MaxAttempts)
    BY <1>5 DEF Claimable, Ready, Expired, GivenUp
  <2>5. rows'[t] = Take(rows[t], NewToken) BY <1>1, <1>5 DEF Claimed, Claimable
  <2>6. RowBound(rows[t], Spent(t)) BY <1>2 DEF Bounded
  <2>7. RowBound(rows'[t], Spent(t) + 1)
    <3> DEFINE n == Spent(t)
    <3>1. n \in Nat BY <2>3
    <3> HIDE DEF n
    <3>2. CASE rows[t].status = "pending"
      <4>1. n <= rows[t].attempts /\ n < MaxAttempts BY <2>6, <3>2 DEF RowBound, n
      <4>2. rows'[t].status = "processing" /\ rows'[t].attempts = rows[t].attempts
        BY <1>2, <2>5, <3>2 DEF Take, RowType
      <4>3. rows[t].attempts \in Nat BY <1>2 DEF RowType
      <4> QED BY <1>2, <3>1, <4>1, <4>2, <4>3 DEF RowBound, n
    <3>3. CASE rows[t].status = "processing"
      <4>1. n <= rows[t].attempts + 1 /\ ~(rows[t].attempts + 1 >= MaxAttempts)
        BY <2>4, <2>6, <3>3 DEF RowBound, n
      <4>2. rows'[t].status = "processing" /\ rows'[t].attempts = rows[t].attempts + 1
        BY <1>2, <2>5, <3>3 DEF Take, RowType
      <4>3. rows[t].attempts \in Nat BY <1>2 DEF RowType
      <4> QED BY <1>2, <3>1, <4>1, <4>2, <4>3 DEF RowBound, n
    <3> QED BY <2>4, <3>2, <3>3
  <2> QED BY <1>2, <1>3, <2>3, <2>7 DEF Bounded
<1> QED BY <1>4, <1>5

LEMMA DispatchBounds ==
  ASSUME Types, IsFiniteSet(Workers), Bounds, NEW w \in Workers, Dispatch(w), NEW t \in Tasks
  PROVE Bounded(t)'
<1> DEFINE c == batch[w].tasks
           h == [worker |-> w, task |-> t, token |-> batch[w].token, phase |-> "run"]
<1>1. /\ c \subseteq Tasks /\ runs[t] \in Nat /\ Bounded(t)
      /\ batch \in [Workers -> [tasks : SUBSET Tasks, token : Tokens \cup {None}]]
  BY DEF Types, TypeOK, Bounds
<1>2. /\ handlers' = handlers \cup [worker: {w}, task: c, token: {batch[w].token}, phase: {"run"}]
      /\ runs' = [u \in Tasks |-> IF u \in c THEN runs[u] + 1 ELSE runs[u]]
      /\ batch' = [batch EXCEPT ![w] = NoBatch] /\ rows' = rows
  BY DEF Dispatch
<1>3. IsFiniteSet(Running(t)) /\ Cardinality(Running(t)) \in Nat /\ Cardinality(Running(t)) <= runs[t]
  BY <1>1, RunningFinite DEF Bounded
<1>4. ToRun(t)' = ToRun(t) \ {w} BY <1>1, <1>2, NoBatchType DEF ToRun
<1>5. /\ IsFiniteSet(ToRun(t)) /\ Cardinality(ToRun(t)) \in Nat
      /\ Cardinality(ToRun(t)') = IF w \in ToRun(t) THEN Cardinality(ToRun(t)) - 1
                                 ELSE Cardinality(ToRun(t))
  BY <1>4, ToRunFinite, FS_RemoveElement
<1>6. CASE t \in c
  <2>1. runs'[t] = runs[t] + 1 /\ w \in ToRun(t) BY <1>2, <1>6 DEF ToRun
  <2>2. Spent(t)' = Spent(t) BY <1>1, <1>5, <2>1 DEF Spent
  <2>3. Running(t)' = Running(t) \cup {h} BY <1>2, <1>6 DEF Running
  <2>4. /\ IsFiniteSet(Running(t)')
        /\ Cardinality(Running(t)') <= Cardinality(Running(t)) + 1
        /\ Cardinality(Running(t)') \in Nat
    <3> HIDE DEF h
    <3>1. /\ IsFiniteSet(Running(t) \cup {h})
          /\ Cardinality(Running(t) \cup {h}) \in
               {Cardinality(Running(t)), Cardinality(Running(t)) + 1}
      BY <1>3, FS_AddElement
    <3> QED BY <1>3, <2>3, <3>1
  <2>5. Cardinality(Running(t)') <= runs'[t] BY <1>1, <1>3, <2>1, <2>4
  <2> QED BY <1>1, <1>2, <2>2, <2>4, <2>5 DEF Bounded
<1>7. CASE t \notin c
  <2>1. runs'[t] = runs[t] /\ w \notin ToRun(t) BY <1>2, <1>7 DEF ToRun
  <2>2. Spent(t)' = Spent(t) BY <1>5, <2>1 DEF Spent
  <2>3. Running(t)' = Running(t) BY <1>2, <1>7 DEF Running
  <2> QED BY <1>1, <1>2, <2>1, <2>2, <2>3 DEF Bounded
<1> QED BY <1>6, <1>7

\* The row a late handler of a dead letter owns is failed: the token stays on it.
LEMMA OwnedRow ==
  ASSUME Types, Bounds, NEW h \in handlers, Owns(h)
  PROVE rows[h.task].status \in {"processing", "failed"}
<1>1. h.task \in Tasks /\ h.token \in Tokens BY DEF Types, TypeOK, HandlerType
<1> QED BY <1>1, QueueAssumption DEF Bounds, Bounded, RowBound, Owns

LEMMA OutageBounds ==
  ASSUME Types, Types', IsFiniteSet(Workers), Bounds, NEW h \in handlers, AckOutage(h), Owns(h),
         NEW t, t = h.task
  PROVE Bounded(t)'
<1> DEFINE a == [h EXCEPT !.phase = "acked"]
<1>1. /\ t \in Tasks /\ rows[t] \in RowType /\ Bounded(t) /\ runs[t] \in Nat
      /\ rows \in [Tasks -> RowType] /\ runs \in [Tasks -> Nat]
      /\ h \in HandlerType /\ MaxAttempts \in Nat
  BY QueueAssumption DEF Types, TypeOK, HandlerType, Bounds
<1>2. h.phase = "run" /\ handlers' = (handlers \ {h}) \cup {a} /\ batch' = batch
  BY DEF AckOutage, Acked
<1>3. a.phase = "acked" BY <1>1 DEF HandlerType
<1> HIDE DEF a
<1>4. Running(t)' = Running(t) \ {h} /\ h \in Running(t) BY <1>2, <1>3 DEF Running
<1>5. IsFiniteSet(Running(t)) /\ Cardinality(Running(t)) \in Nat /\ Cardinality(Running(t)) <= runs[t]
  BY <1>1, RunningFinite DEF Bounded
<1>6. /\ IsFiniteSet(Running(t)') /\ Cardinality(Running(t)') = Cardinality(Running(t)) - 1
      /\ Cardinality(Running(t)') \in Nat
  BY <1>4, <1>5, FS_RemoveElement, FS_CardinalityType
<1>7. runs'[t] = runs[t] - 1 /\ runs'[t] \in Nat
  <2>1. runs[t] # 0 BY <1>1, <1>5, <1>6
  <2>2. runs' = [runs EXCEPT ![t] = IF runs[t] = 0 THEN 0 ELSE runs[t] - 1] BY <1>1 DEF AckOutage
  <2> QED BY <1>1, <2>1, <2>2
<1>8. ToRun(t)' = ToRun(t) /\ Cardinality(ToRun(t)) \in Nat BY <1>1, <1>2, ToRunFinite DEF ToRun
<1>9. Spent(t)' = Spent(t) - 1 /\ Spent(t) \in Nat /\ Spent(t)' \in Nat BY <1>1, <1>7, <1>8 DEF Spent
<1>10. /\ rows'[t].status = "pending" /\ rows'[t].token = None
       /\ rows'[t].attempts = rows[t].attempts /\ rows[t].attempts \in Nat
  <2>1. rows' = [rows EXCEPT ![t] =
                  [rows[t] EXCEPT !.status = "pending", !.token = None, !.due = FALSE, !.stuck = FALSE]]
    BY <1>1 DEF AckOutage
  <2>2. rows'[t] = [rows[t] EXCEPT !.status = "pending", !.token = None, !.due = FALSE, !.stuck = FALSE]
    BY <1>1, <2>1
  <2> QED BY <1>1, <2>2 DEF RowType
<1>11. RowBound(rows'[t], Spent(t)')
  <2>1. RowBound(rows[t], Spent(t)) BY <1>1 DEF Bounded
  <2>2. rows[t].status \in {"processing", "failed"} BY OwnedRow
  <2> DEFINE n == Spent(t)
  <2>3. n \in Nat /\ Spent(t)' = n - 1 BY <1>9
  <2>4. /\ n <= MaxAttempts
        /\ n <= rows[t].attempts + 1 \/ rows[t].attempts >= MaxAttempts
    BY <2>1, <2>2 DEF RowBound
  <2> HIDE DEF n
  <2> QED BY <1>1, <1>10, <2>3, <2>4 DEF RowBound
<1>12. Cardinality(Running(t)') <= runs'[t] BY <1>1, <1>5, <1>6, <1>7
<1> QED BY <1>6, <1>11, <1>12 DEF Bounded

LEMMA AckBounds ==
  ASSUME Types, Types', IsFiniteSet(Workers), Bounds, NEW h \in handlers, Acknowledge(h),
         NEW t \in Tasks
  PROVE Bounded(t)'
<1>1. /\ h.task \in Tasks /\ rows \in [Tasks -> RowType] /\ runs \in [Tasks -> Nat]
      /\ rows[t] \in RowType /\ rows'[t] \in RowType /\ Bounded(t) /\ MaxAttempts \in Nat
  BY QueueAssumption DEF Types, TypeOK, HandlerType, Bounds
<1>2. CASE AckOutage(h) /\ Owns(h) /\ t = h.task BY <1>2, OutageBounds
<1>3. CASE ~(AckOutage(h) /\ Owns(h) /\ t = h.task)
  <2>1. runs'[t] = runs[t]
    BY <1>1, <1>3 DEF Acknowledge, AckSuccess, AckFailure, AckOutage, AckLost
  <2>2. /\ handlers' = (handlers \ {h}) \cup {[h EXCEPT !.phase = "acked"]} /\ batch' = batch
        /\ h \in HandlerType
    BY AckFrame
  <2>3. [h EXCEPT !.phase = "acked"].phase = "acked" BY <2>2 DEF HandlerType
  <2>4. ToRun(t)' = ToRun(t) /\ Running(t)' \subseteq Running(t) BY <2>2, <2>3 DEF ToRun, Running
  <2>5. Milder(rows[t], rows'[t])
    <3>1. CASE rows'[t] = rows[t] BY <1>1, <3>1, MilderRows
    <3>2. CASE rows'[t] # rows[t]
      <4>1. t = h.task /\ Owns(h) /\ (AckSuccess(h) \/ AckFailure(h))
        BY <1>1, <1>3, <3>2 DEF Acknowledge, AckSuccess, AckFailure, AckOutage, AckLost
      <4>2. rows[t].status \in {"processing", "failed"} BY <4>1, OwnedRow
      <4>3. rows[t].attempts \in Nat BY <1>1 DEF RowType
      <4>4. CASE AckSuccess(h)
        <5>1. rows'[t].status = "completed" /\ rows'[t].token = None
          BY <1>1, <4>1, <4>4 DEF AckSuccess, RowType
        <5> QED BY <5>1 DEF Milder, RowBound
      <4>5. CASE AckFailure(h)
        <5>1. rows'[t] = Failed(rows[t]) BY <1>1, <4>1, <4>5 DEF AckFailure
        <5>2. /\ rows'[t].attempts = rows[t].attempts + 1 /\ rows'[t].token = None
              /\ rows'[t].status = IF rows[t].attempts + 1 >= MaxAttempts THEN "failed" ELSE "pending"
          BY <1>1, <5>1 DEF Failed, RowType
        <5> QED BY <1>1, <4>2, <4>3, <5>2 DEF Milder, RowBound
      <4> QED BY <4>1, <4>4, <4>5
    <3> QED BY <3>1, <3>2
  <2> QED BY <1>1, <2>1, <2>4, <2>5, MilderStep
<1> QED BY <1>2, <1>3

LEMMA StepBounds ==
  ASSUME Types, Types', IsFiniteSet(Workers), Bounds, [Next]_vars, NEW t \in Tasks
  PROVE Bounded(t)'
<1>1. /\ rows \in [Tasks -> RowType] /\ rows[t] \in RowType /\ rows'[t] \in RowType /\ Bounded(t)
      /\ batch \in [Workers -> [tasks : SUBSET Tasks, token : Tokens \cup {None}]]
  BY DEF Types, TypeOK, Bounds
<1>2. Milder(rows[t], rows[t]) BY <1>1, MilderRows
<1>3. ASSUME NEW u \in Tasks,
             \/ EnqueueTask(u) \/ BackoffPasses(u) \/ DeleteTask(u) \/ LeaseExpires(u)
      PROVE Bounded(t)'
  BY <1>3, ComingBounds
<1>4. ASSUME NEW u \in Tasks, RetryFailedTask(u) PROVE FALSE
  BY <1>4 DEF RetryFailedTask, Spend, Bounds
<1>5. ASSUME NEW w \in Workers, NEW l \in Lanes, ClaimBatch(w, l) PROVE Bounded(t)'
  BY <1>5, ClaimBounds
<1>6. ASSUME NEW w \in Workers, Dispatch(w) PROVE Bounded(t)' BY <1>6, DispatchBounds
<1>7. ASSUME NEW h \in handlers, Acknowledge(h) PROVE Bounded(t)' BY <1>7, AckBounds
<1>8. ASSUME NEW w \in Workers, RenewLeases(w) PROVE Bounded(t)'
  <2>1. rows'[t] = rows[t] \/ rows'[t] = [rows[t] EXCEPT !.stuck = FALSE] BY <1>8 DEF RenewLeases
  <2>2. Milder(rows[t], rows'[t]) BY <1>1, <2>1, MilderRows
  <2>3. UNCHANGED <<handlers, batch, runs>> BY <1>8 DEF RenewLeases
  <2>4. ToRun(t)' = ToRun(t) /\ Running(t)' = Running(t) BY <2>3 DEF ToRun, Running
  <2> QED BY <1>1, <2>2, <2>3, <2>4, MilderStep
<1>9. CASE Suspend
  <2>1. rows'[t] = rows[t] \/ rows'[t] = [rows[t] EXCEPT !.stuck = TRUE] BY <1>9 DEF Suspend
  <2>2. Milder(rows[t], rows'[t]) BY <1>1, <2>1, MilderRows
  <2>3. UNCHANGED <<handlers, batch, runs>> BY <1>9 DEF Suspend
  <2>4. ToRun(t)' = ToRun(t) /\ Running(t)' = Running(t) BY <2>3 DEF ToRun, Running
  <2> QED BY <1>1, <2>2, <2>3, <2>4, MilderStep
<1>10. ASSUME NEW w \in Workers, Stop(w) \/ EndPoll(w) \/ StartWorker(w) \/ Crash(w)
       PROVE Bounded(t)'
  <2>1. /\ UNCHANGED <<rows, runs>> /\ handlers' \subseteq handlers
        /\ batch' = batch \/ batch' = [batch EXCEPT ![w] = NoBatch]
    BY <1>10 DEF Stop, EndPoll, StartWorker, Crash
  <2>2. ToRun(t)' \subseteq ToRun(t) /\ Running(t)' \subseteq Running(t)
    BY <1>1, <2>1, NoBatchType DEF ToRun, Running
  <2> QED BY <1>1, <1>2, <2>1, <2>2, MilderStep
<1>11. CASE UNCHANGED vars \/ \E h \in handlers : DropLease(h)
  <2>1. UNCHANGED <<rows, runs, batch>> /\ handlers' \subseteq handlers
    BY <1>11 DEF vars, DropLease
  <2>2. ToRun(t)' = ToRun(t) /\ Running(t)' \subseteq Running(t) BY <2>1 DEF ToRun, Running
  <2> QED BY <1>1, <1>2, <2>1, <2>2, MilderStep
<1> QED BY <1>3, <1>4, <1>5, <1>6, <1>7, <1>8, <1>9, <1>10, <1>11 DEF Next

LEMMA NothingBack ==
  ASSUME Types, [Next]_vars, NEW f \in Faults, left[f] = 0
  PROVE left'[f] = 0
<1>1. left \in [Faults -> Nat] BY DEF Types, TypeOK
<1>2. left' = left \/ \E g \in Faults : Spend(g)
  BY DEF Next, vars, EnqueueTask, BackoffPasses, RetryFailedTask, DeleteTask, LeaseExpires, ClaimBatch,
         Dispatch, RenewLeases, Stop, EndPoll, StartWorker, Crash, Acknowledge, AckSuccess, AckFailure,
         AckOutage, AckLost, DropLease, Suspend, Faults
<1> QED BY <1>1, <1>2 DEF Spend

LEMMA InitBounds ==
  ASSUME Init, Budget["retry"] = 0
  PROVE Bounds
<1>1. ASSUME NEW t \in Tasks PROVE Bounded(t)
  <2>1. ToRun(t) = {} /\ Running(t) = {} BY NoBatchType DEF Init, ToRun, Running
  <2>2. Spent(t) = 0 BY <2>1, FS_EmptySet DEF Init, Spent
  <2>3. RowBound(New, 0) BY QueueAssumption DEF RowBound, New
  <2>4. IsFiniteSet({}) /\ Cardinality({}) = 0 BY FS_EmptySet
  <2> QED BY <2>1, <2>2, <2>3, <2>4 DEF Init, Bounded
<1> QED BY <1>1 DEF Init, Bounds

\* As long as no operator retries it, a task is run max_attempts times at most,
\* through any number of crashes, stops, suspensions, outages and lost
\* acknowledgements, and however many of its handlers run at once.
THEOREM RunsAreBounded ==
  ASSUME IsFiniteSet(Workers), Budget["retry"] = 0
  PROVE Spec => []RunsBounded
<1>1. Init => Types /\ Bounds BY InitTypes, InitBounds
<1>2. Types /\ Bounds /\ [Next]_vars => Types' /\ Bounds'
  <2> SUFFICES ASSUME Types, Bounds, [Next]_vars PROVE Types' /\ Bounds'
    OBVIOUS
  <2>1. Types' BY TypesKept
  <2>2. left'["retry"] = 0 BY NothingBack DEF Bounds, Faults
  <2>3. \A t \in Tasks : Bounded(t)' BY <2>1, StepBounds
  <2> QED BY <2>1, <2>2, <2>3 DEF Bounds
<1>3. Types /\ Bounds => RunsBounded
  <2> SUFFICES ASSUME Types, Bounds, NEW t \in Tasks PROVE runs[t] <= MaxAttempts
    BY DEF RunsBounded
  <2>1. runs[t] \in Nat /\ Cardinality(ToRun(t)) \in Nat /\ MaxAttempts \in Nat
    BY QueueAssumption, ToRunFinite DEF Types, TypeOK
  <2>2. Spent(t) <= MaxAttempts BY DEF Bounds, Bounded, RowBound
  <2> QED BY <2>1, <2>2 DEF Spent
<1> QED BY <1>1, <1>2, <1>3, PTL DEF Spec

-----------------------------------------------------------------------------
(***************************************************************************)
(* One run at a time, with no suspension, stop or operator's retry: a task *)
(* that has a handler, or is in a batch, is in processing with its token   *)
(* renewed, or its only handler is about to drop its lease.                *)
(***************************************************************************)

Firm(t, token) == rows[t].status = "processing" /\ ~rows[t].stuck /\ rows[t].token = token

Resting(t) ==
  \/ rows[t].status \in {"completed", "failed", "deleted"}
  \/ rows[t].status = "pending" /\ ~rows[t].due

\* Nobody can claim the task of a handler.
Held(h) ==
  \/ Firm(h.task, h.token) /\ leases[h.worker][h.task] = h.token
  \/ h.phase = "acked" /\ Resting(h.task)

InBatch(w, t) == t \in batch[w].tasks

Single ==
  /\ \A g, h \in handlers : g.task = h.task => g = h
  /\ \A w \in Workers, t \in Tasks :
       InBatch(w, t) =>
         /\ Firm(t, batch[w].token)
         /\ \A h \in handlers : h.task # t
         /\ \A v \in Workers : InBatch(v, t) => v = w
  /\ \A h \in handlers : Held(h)

Calm ==
  /\ Budget["suspend"] = 0
  /\ left["suspend"] = 0 /\ left["stop"] = 0 /\ left["retry"] = 0
  /\ \A w \in Workers : mode[w] = "polling"

\* Steps that start nothing, and leave the rows of tasks at work as firm.
LEMMA HeldStep ==
  ASSUME Single, handlers' \subseteq handlers,
         \A w \in Workers : batch'[w] = batch[w] \/ batch'[w] = NoBatch,
         \A h \in handlers' : Held(h) => Held(h)',
         \A w \in Workers, t \in Tasks :
           InBatch(w, t) /\ Firm(t, batch[w].token) => rows'[t] = rows[t]
  PROVE Single'
<1>1. \A w \in Workers, t \in Tasks : t \in batch'[w].tasks => batch'[w] = batch[w] /\ InBatch(w, t)
  BY NoBatchType DEF InBatch
<1>2. \A h \in handlers' : Held(h)' BY DEF Single
<1>3. \A g, h \in handlers' : g.task = h.task => g = h BY DEF Single
<1>4. ASSUME NEW w \in Workers, NEW t \in Tasks, InBatch(w, t)'
      PROVE /\ Firm(t, batch[w].token)' /\ \A h \in handlers' : h.task # t
            /\ \A v \in Workers : InBatch(v, t)' => v = w
  <2>1. batch'[w] = batch[w] /\ InBatch(w, t) BY <1>1, <1>4 DEF InBatch
  <2>2. Firm(t, batch[w].token) /\ rows'[t] = rows[t] BY <2>1 DEF Single
  <2>3. \A v \in Workers : InBatch(v, t)' => InBatch(v, t) BY <1>1 DEF InBatch
  <2> QED BY <2>1, <2>2, <2>3 DEF Single, Firm
<1> QED BY <1>2, <1>3, <1>4 DEF Single

\* A row that is renewed, or whose handler is still about, is not taken.
LEMMA NotTaken ==
  ASSUME Types, Single, Calm, NEW t \in Tasks,
         (\E h \in handlers : h.task = t) \/ (\E w \in Workers : InBatch(w, t))
  PROVE /\ ~Ready(t) /\ ~Expired(t)
        /\ rows[t].status # "new"
        /\ rows[t].status = "processing" => Renewed(t)
<1>1. CASE \E h \in handlers : h.task = t
  <2>1. PICK h \in handlers : h.task = t BY <1>1
  <2>2. h.worker \in Workers /\ h.token \in Tokens BY DEF Types, TypeOK, HandlerType
  <2>3. Held(h) BY DEF Single
  <2>4. CASE Firm(t, h.token) /\ leases[h.worker][t] = h.token
    <3>1. mode[h.worker] = "polling" BY <2>2 DEF Calm
    <3> QED BY <2>2, <2>4, <3>1, QueueAssumption DEF Firm, Ready, Expired, Renewed
  <2>5. CASE Resting(t) BY <2>5 DEF Resting, Ready, Expired
  <2> QED BY <2>1, <2>3, <2>4, <2>5 DEF Held
<1>2. CASE \E w \in Workers : InBatch(w, t)
  <2>1. PICK w \in Workers : InBatch(w, t) BY <1>2
  <2>2. Firm(t, batch[w].token) BY <2>1 DEF Single
  <2> QED BY <2>1, <2>2 DEF Firm, Ready, Expired, Renewed, InBatch
<1> QED BY <1>1, <1>2

\* So a step that changes only rows nobody is at leaves everything as it is.
LEMMA OtherRows ==
  ASSUME Types, Single, UNCHANGED <<handlers, leases, batch>>,
         \A t \in Tasks : \/ rows'[t] = rows[t]
                          \/ rows'[t].status = "processing" /\ ~rows'[t].stuck
                             /\ rows[t].status = "processing" /\ rows'[t].token = rows[t].token
                             /\ rows'[t] = [rows[t] EXCEPT !.stuck = FALSE]
                          \/ Resting(t) /\ Resting(t)' /\ \A w \in Workers : ~InBatch(w, t)
                          \/ /\ \A h \in handlers : h.task # t
                             /\ \A w \in Workers : ~InBatch(w, t)
  PROVE Single'
<1>1. ASSUME NEW h \in handlers, Held(h) PROVE Held(h)'
  <2>1. h.task \in Tasks BY DEF Types, TypeOK, HandlerType
  <2>2. CASE rows'[h.task] = rows[h.task] BY <1>1, <2>2 DEF Held, Firm, Resting
  <2>3. CASE /\ rows'[h.task].status = "processing" /\ ~rows'[h.task].stuck
             /\ rows[h.task].status = "processing" /\ rows'[h.task].token = rows[h.task].token
    BY <1>1, <2>3 DEF Held, Firm, Resting
  <2>4. CASE Resting(h.task) /\ Resting(h.task)'
    <3>1. ~Firm(h.task, h.token) BY <2>4 DEF Resting, Firm
    <3> QED BY <1>1, <2>4, <3>1 DEF Held
  <2> QED BY <2>1, <2>2, <2>3, <2>4
<1>2. ASSUME NEW w \in Workers, NEW t \in Tasks, InBatch(w, t), Firm(t, batch[w].token)
      PROVE rows'[t] = rows[t]
  <2>1. rows[t] \in RowType /\ ~rows[t].stuck BY <1>2 DEF Types, TypeOK, Firm
  <2>2. [rows[t] EXCEPT !.stuck = FALSE] = rows[t] BY <2>1 DEF RowType
  <2> QED BY <1>2, <2>2
<1> QED BY <1>1, <1>2, HeldStep

LEMMA ComingSingle ==
  ASSUME Types, Single, Calm, NEW u \in Tasks,
         \/ EnqueueTask(u) \/ BackoffPasses(u) \/ DeleteTask(u) \/ LeaseExpires(u)
  PROVE Single'
<1>1. rows \in [Tasks -> RowType] BY DEF Types, TypeOK
<1>2. UNCHANGED <<handlers, leases, batch>> /\ \A t \in Tasks \ {u} : rows'[t] = rows[t]
  BY <1>1 DEF EnqueueTask, BackoffPasses, DeleteTask, LeaseExpires
<1>3. CASE \/ Resting(u) /\ Resting(u)' /\ \A w \in Workers : ~InBatch(w, u)
           \/ /\ \A h \in handlers : h.task # u
              /\ \A w \in Workers : ~InBatch(w, u)
  BY <1>2, <1>3, OtherRows
<1>4. CASE EnqueueTask(u) BY <1>3, <1>4, NotTaken DEF EnqueueTask
<1>5. CASE LeaseExpires(u) BY <1>3, <1>5, NotTaken DEF LeaseExpires
<1>6. CASE DeleteTask(u)
  <2>1. Resting(u) /\ Resting(u)' BY <1>1, <1>6 DEF DeleteTask, Resting
  <2>2. \A w \in Workers : ~InBatch(w, u) BY <2>1 DEF Single, Firm, Resting
  <2> QED BY <1>3, <2>1, <2>2
<1>7. CASE BackoffPasses(u)
  <2>1. rows[u].status = "pending" /\ \A h \in handlers : h.task = u => h.phase = "run"
    BY <1>7 DEF BackoffPasses, Calm
  <2>2. \A w \in Workers : ~InBatch(w, u) BY <2>1 DEF Single, Firm
  <2>3. \A h \in handlers : h.task # u BY <2>1 DEF Single, Held, Firm
  <2> QED BY <1>3, <2>2, <2>3
<1> QED BY <1>4, <1>5, <1>6, <1>7

LEMMA ClaimSingle ==
  ASSUME Types, Single, Calm, NEW w \in Workers, NEW l \in Lanes, ClaimBatch(w, l)
  PROVE Single'
<1>1. PICK s \in SUBSET Claimable(l) :
        /\ rows' = Claimed(s)
        /\ batch' = [batch EXCEPT ![w] = IF s = {} THEN NoBatch ELSE [tasks |-> s, token |-> NewToken]]
  BY DEF ClaimBatch
<1>2. /\ batch \in [Workers -> [tasks : SUBSET Tasks, token : Tokens \cup {None}]]
      /\ rows \in [Tasks -> RowType] /\ UNCHANGED <<handlers, leases>>
      /\ s \subseteq Tasks /\ batch[w] = NoBatch
  BY DEF Types, TypeOK, ClaimBatch, Claimable
<1>3. \A t \in s \cup GivenUp : /\ \A h \in handlers : h.task # t
                                /\ \A v \in Workers : ~InBatch(v, t)
  BY NotTaken DEF Claimable, GivenUp
<1>4. \A t \in Tasks \ (s \cup GivenUp) : rows'[t] = rows[t] BY <1>1 DEF Claimed
<1>5. ASSUME NEW t \in s
      PROVE rows'[t].status = "processing" /\ ~rows'[t].stuck /\ rows'[t].token = NewToken
  <2>1. t \notin GivenUp /\ t \in Tasks /\ rows[t] \in RowType BY <1>2 DEF Claimable
  <2>2. rows'[t] = Take(rows[t], NewToken) BY <1>1, <2>1 DEF Claimed
  <2> QED BY <2>1, <2>2 DEF Take, RowType
<1>6. /\ \A v \in Workers \ {w} : batch'[v] = batch[v]
      /\ batch'[w].tasks = s /\ (s # {} => batch'[w].token = NewToken)
  BY <1>1, <1>2, NoBatchType
<1>7. ASSUME NEW h \in handlers' PROVE Held(h)'
  <2>1. h \in handlers /\ h.task \in Tasks /\ Held(h) BY <1>2 DEF Single, Types, TypeOK, HandlerType
  <2>2. rows'[h.task] = rows[h.task] BY <1>3, <1>4, <2>1
  <2> QED BY <1>2, <2>1, <2>2 DEF Held, Firm, Resting
<1>8. ASSUME NEW v \in Workers, NEW t \in Tasks, InBatch(v, t)'
      PROVE /\ Firm(t, batch[v].token)' /\ \A h \in handlers' : h.task # t
            /\ \A u \in Workers : InBatch(u, t)' => u = v
  <2>1. CASE v = w
    <3>1. t \in s /\ batch'[v].token = NewToken BY <1>6, <1>8, <2>1 DEF InBatch
    <3>2. Firm(t, batch[v].token)' BY <1>5, <3>1 DEF Firm
    <3>3. \A u \in Workers : InBatch(u, t)' => u = v BY <1>3, <1>6, <2>1, <3>1 DEF InBatch
    <3> QED BY <1>2, <1>3, <3>1, <3>2, <3>3
  <2>2. CASE v # w
    <3>1. InBatch(v, t) /\ batch'[v] = batch[v] BY <1>6, <1>8, <2>2 DEF InBatch
    <3>2. t \notin s \cup GivenUp BY <1>3, <3>1
    <3>3. rows'[t] = rows[t] BY <1>4, <3>2
    <3>4. \A u \in Workers : InBatch(u, t)' => u # w /\ InBatch(u, t) BY <1>6, <3>2 DEF InBatch
    <3> QED BY <1>2, <3>1, <3>3, <3>4 DEF Single, Firm
  <2> QED BY <2>1, <2>2
<1>9. \A g, h \in handlers' : g.task = h.task => g = h BY <1>2 DEF Single
<1> QED BY <1>7, <1>8, <1>9 DEF Single

LEMMA DispatchSingle ==
  ASSUME Types, Single, Calm, NEW w \in Workers, Dispatch(w)
  PROVE Single'
<1> DEFINE c == batch[w].tasks
           k == batch[w].token
           started == [worker: {w}, task: c, token: {k}, phase: {"run"}]
<1>1. /\ handlers' = handlers \cup started /\ rows' = rows
      /\ leases' = [leases EXCEPT ![w] = [t \in Tasks |-> IF t \in c THEN k ELSE @[t]]]
      /\ c \subseteq Tasks
      /\ leases \in [Workers -> [Tasks -> Tokens \cup {None}]]
  BY DEF Dispatch, Types, TypeOK
<1>2. (\A v \in Workers \ {w} : batch'[v] = batch[v]) /\ batch'[w].tasks = {}
  BY NoBatchType DEF Dispatch, Types, TypeOK
<1>3. \A h \in started : h.worker = w /\ h.task \in c /\ h.token = k /\ h.phase = "run"
  OBVIOUS
<1>4. \A t \in c : /\ Firm(t, k) /\ (\A h \in handlers : h.task # t)
                   /\ \A v \in Workers : InBatch(v, t) => v = w
  BY <1>1 DEF Single, InBatch
<1>5. \A t \in c : leases'[w][t] = k
  <2>1. leases'[w] = [t \in Tasks |-> IF t \in c THEN k ELSE leases[w][t]] BY <1>1
  <2> QED BY <1>1, <2>1
<1>6. \A v \in Workers, t \in Tasks \ c : leases'[v][t] = leases[v][t]
  <2>1. leases'[w] = [t \in Tasks |-> IF t \in c THEN k ELSE leases[w][t]] BY <1>1
  <2>2. \A v \in Workers \ {w} : leases'[v] = leases[v] BY <1>1
  <2> QED BY <2>1, <2>2
<1>7. ASSUME NEW g \in handlers', NEW h \in handlers', g.task = h.task PROVE g = h
  <2>1. CASE g \in handlers /\ h \in handlers BY <1>7, <2>1 DEF Single
  <2>2. CASE g \in started /\ h \in started BY <1>7, <2>2
  <2>3. CASE g \in started /\ h \in handlers BY <1>3, <1>4, <1>7, <2>3
  <2>4. CASE g \in handlers /\ h \in started BY <1>3, <1>4, <1>7, <2>4
  <2> HIDE DEF started
  <2> QED BY <1>1, <2>1, <2>2, <2>3, <2>4
<1> HIDE DEF started
<1>8. ASSUME NEW h \in handlers' PROVE Held(h)'
  <2>1. CASE h \in started
    <3>1. h.worker = w /\ h.task \in c /\ h.token = k BY <1>3, <2>1
    <3>2. Firm(h.task, h.token) /\ leases'[h.worker][h.task] = h.token BY <1>4, <1>5, <3>1
    <3> QED BY <1>1, <3>2 DEF Held, Firm
  <2>2. CASE h \in handlers
    <3>1. h.worker \in Workers /\ h.task \in Tasks /\ Held(h)
      BY <2>2 DEF Single, Types, TypeOK, HandlerType
    <3>2. h.task \notin c BY <1>4, <2>2
    <3>3. leases'[h.worker][h.task] = leases[h.worker][h.task] BY <1>6, <3>1, <3>2
    <3> QED BY <1>1, <3>1, <3>3 DEF Held, Firm, Resting
  <2> QED BY <1>1, <2>1, <2>2
<1>9. ASSUME NEW v \in Workers, NEW t \in Tasks, InBatch(v, t)'
      PROVE /\ Firm(t, batch[v].token)' /\ \A h \in handlers' : h.task # t
            /\ \A u \in Workers : InBatch(u, t)' => u = v
  <2>1. v # w /\ batch'[v] = batch[v] /\ InBatch(v, t) BY <1>2, <1>9 DEF InBatch
  <2>2. t \notin c BY <1>4, <2>1
  <2>3. \A u \in Workers : InBatch(u, t)' => InBatch(u, t) BY <1>2 DEF InBatch
  <2>4. \A h \in handlers' : h.task # t BY <1>1, <1>3, <2>1, <2>2 DEF Single
  <2> QED BY <1>1, <2>1, <2>3, <2>4 DEF Single, Firm
<1> QED BY <1>7, <1>8, <1>9 DEF Single

LEMMA AckSingle ==
  ASSUME Types, Single, NEW h \in handlers, Acknowledge(h)
  PROVE Single'
<1> DEFINE a == [h EXCEPT !.phase = "acked"]
<1>1. /\ h.phase = "run" /\ h \in HandlerType /\ handlers' = (handlers \ {h}) \cup {a}
      /\ UNCHANGED <<leases, batch, mode>>
  BY AckFrame
<1>2. a.task = h.task /\ a.token = h.token /\ a.worker = h.worker /\ a.phase = "acked"
      /\ h.task \in Tasks
  BY <1>1 DEF HandlerType
<1> HIDE DEF a
<1>3. /\ rows \in [Tasks -> RowType] /\ rows[h.task] \in RowType
      /\ \A t \in Tasks \ {h.task} : rows'[t] = rows[t]
  BY <1>2 DEF Types, TypeOK, Acknowledge, AckSuccess, AckFailure, AckOutage, AckLost
<1>4. Held(h) /\ Firm(h.task, h.token) /\ leases[h.worker][h.task] = h.token /\ Owns(h)
  BY <1>1 DEF Single, Held, Firm, Owns
<1>5. rows'[h.task] = rows[h.task] \/ Resting(h.task)'
  <2>1. CASE AckSuccess(h) BY <1>2, <1>3, <1>4, <2>1 DEF AckSuccess, Resting, RowType
  <2>2. CASE AckFailure(h)
    <3>1. rows'[h.task] = Failed(rows[h.task]) BY <1>2, <1>3, <1>4, <2>2 DEF AckFailure
    <3> QED BY <1>3, <3>1 DEF Failed, Resting, RowType
  <2>3. CASE AckOutage(h)
    <3>1. rows' = [rows EXCEPT ![h.task] =
                    [rows[h.task] EXCEPT !.status = "pending", !.token = None, !.due = FALSE,
                                         !.stuck = FALSE]]
      BY <1>4, <2>3 DEF AckOutage
    <3>2. rows'[h.task] = [rows[h.task] EXCEPT !.status = "pending", !.token = None, !.due = FALSE,
                                               !.stuck = FALSE]
      BY <1>2, <1>3, <3>1
    <3> QED BY <1>3, <3>2 DEF Resting, RowType
  <2>4. CASE AckLost(h) BY <2>4 DEF AckLost
  <2> QED BY <2>1, <2>2, <2>3, <2>4 DEF Acknowledge
<1>6. \A g \in handlers \ {h} : g.task # h.task /\ g.task \in Tasks
  BY DEF Single, Types, TypeOK, HandlerType
<1>7. ASSUME NEW g \in handlers' PROVE Held(g)'
  <2>1. CASE g = a BY <1>1, <1>2, <1>4, <1>5, <2>1 DEF Held, Firm
  <2>2. CASE g \in handlers \ {h}
    <3>1. rows'[g.task] = rows[g.task] /\ Held(g) BY <1>3, <1>6, <2>2 DEF Single
    <3> QED BY <1>1, <3>1 DEF Held, Firm, Resting
  <2> QED BY <1>1, <2>1, <2>2
<1>8. \A f, g \in handlers' : f.task = g.task => f = g BY <1>1, <1>2, <1>6 DEF Single
<1>9. ASSUME NEW w \in Workers, NEW t \in Tasks, InBatch(w, t)'
      PROVE /\ Firm(t, batch[w].token)' /\ \A g \in handlers' : g.task # t
            /\ \A v \in Workers : InBatch(v, t)' => v = w
  <2>1. InBatch(w, t) /\ \A v \in Workers : InBatch(v, t)' => InBatch(v, t)
    BY <1>1, <1>9 DEF InBatch
  <2>2. t # h.task BY <2>1 DEF Single
  <2>3. rows'[t] = rows[t] BY <1>3, <2>2
  <2>4. \A g \in handlers' : g.task # t BY <1>1, <1>2, <2>1, <2>2 DEF Single
  <2> QED BY <1>1, <2>1, <2>3, <2>4 DEF Single, Firm
<1> QED BY <1>7, <1>8, <1>9 DEF Single

LEMMA SingleKept ==
  ASSUME Types, Single, Calm, [Next]_vars
  PROVE Single'
<1>1. CASE UNCHANGED vars BY <1>1, OtherRows DEF vars
<1>2. ASSUME NEW u \in Tasks,
             \/ EnqueueTask(u) \/ BackoffPasses(u) \/ DeleteTask(u) \/ LeaseExpires(u)
      PROVE Single'
  BY <1>2, ComingSingle
<1>3. ASSUME NEW u \in Tasks, RetryFailedTask(u) PROVE FALSE
  BY <1>3 DEF RetryFailedTask, Spend, Calm
<1>4. ASSUME NEW w \in Workers, NEW l \in Lanes, ClaimBatch(w, l) PROVE Single' BY <1>4, ClaimSingle
<1>5. ASSUME NEW w \in Workers, Dispatch(w) PROVE Single' BY <1>5, DispatchSingle
<1>6. ASSUME NEW w \in Workers, RenewLeases(w) PROVE Single'
  <2>1. UNCHANGED <<handlers, leases, batch>> BY <1>6 DEF RenewLeases
  <2>2. ASSUME NEW t \in Tasks
        PROVE \/ rows'[t] = rows[t]
              \/ rows'[t].status = "processing" /\ ~rows'[t].stuck
                 /\ rows[t].status = "processing" /\ rows'[t].token = rows[t].token
                 /\ rows'[t] = [rows[t] EXCEPT !.stuck = FALSE]
    <3>1. rows[t] \in RowType BY DEF Types, TypeOK
    <3>2. \/ rows'[t] = rows[t]
          \/ rows[t].status = "processing" /\ rows'[t] = [rows[t] EXCEPT !.stuck = FALSE]
      BY <1>6 DEF RenewLeases
    <3> QED BY <3>1, <3>2 DEF RowType
  <2> QED BY <2>1, <2>2, OtherRows
<1>7. ASSUME NEW w \in Workers, Stop(w) PROVE FALSE BY <1>7 DEF Stop, Spend, Calm
<1>8. ASSUME NEW w \in Workers, EndPoll(w) \/ StartWorker(w) PROVE FALSE
  BY <1>8 DEF EndPoll, StartWorker, Calm
<1>9. ASSUME NEW w \in Workers, Crash(w) PROVE Single'
  <2>1. /\ handlers' = {h \in handlers : h.worker # w} /\ rows' = rows
        /\ \A v \in Workers : batch'[v] = batch[v] \/ batch'[v] = NoBatch
        /\ \A v \in Workers \ {w} : leases'[v] = leases[v]
    BY <1>9 DEF Crash, Types, TypeOK
  <2>2. ASSUME NEW h \in handlers', Held(h) PROVE Held(h)'
    <3>1. h.worker \in Workers \ {w} BY <2>1 DEF Types, TypeOK, HandlerType
    <3>2. leases'[h.worker] = leases[h.worker] BY <2>1, <3>1
    <3> QED BY <2>1, <2>2, <3>2 DEF Held, Firm, Resting
  <2> QED BY <2>1, <2>2, HeldStep
<1>10. ASSUME NEW h \in handlers, Acknowledge(h) PROVE Single' BY <1>10, AckSingle
<1>11. ASSUME NEW h \in handlers, DropLease(h) PROVE Single'
  <2>1. /\ handlers' = handlers \ {h} /\ UNCHANGED <<rows, batch>>
        /\ leases' = [leases EXCEPT ![h.worker][h.task] = None]
        /\ leases \in [Workers -> [Tasks -> Tokens \cup {None}]]
    BY <1>11 DEF DropLease, Types, TypeOK
  <2>2. ASSUME NEW g \in handlers', Held(g) PROVE Held(g)'
    <3>1. g.task # h.task /\ g.worker \in Workers /\ g.task \in Tasks
      BY <2>1 DEF Single, Types, TypeOK, HandlerType
    <3>2. leases'[g.worker][g.task] = leases[g.worker][g.task] BY <2>1, <3>1
    <3> QED BY <2>1, <2>2, <3>2 DEF Held, Firm, Resting
  <2> QED BY <2>1, <2>2, HeldStep
<1>12. CASE Suspend BY <1>12 DEF Suspend, Spend, Calm
<1> QED BY <1>1, <1>2, <1>3, <1>4, <1>5, <1>6, <1>7, <1>8, <1>9, <1>10, <1>11, <1>12 DEF Next

LEMMA CalmKept ==
  ASSUME Types, Calm, [Next]_vars
  PROVE Calm'
<1>1. left'["suspend"] = 0 /\ left'["stop"] = 0 /\ left'["retry"] = 0
  BY NothingBack DEF Calm, Faults
<1>2. ASSUME NEW w \in Workers PROVE mode'[w] = "polling"
  <2>1. \A v \in Workers : ~Stop(v) /\ ~EndPoll(v) BY DEF Stop, Spend, EndPoll, Calm
  <2>2. mode' = mode \/ \E v \in Workers : mode' = [mode EXCEPT ![v] = "polling"]
    BY <2>1 DEF Next, vars, EnqueueTask, BackoffPasses, RetryFailedTask, DeleteTask, LeaseExpires,
           ClaimBatch, Dispatch, RenewLeases, StartWorker, Crash, Acknowledge, AckSuccess, AckFailure,
           AckOutage, AckLost, DropLease, Suspend
  <2> QED BY <2>2 DEF Calm, Types, TypeOK
<1> QED BY <1>1, <1>2 DEF Calm

\* Without a suspension, a stop or an operator's retry no task has two handlers
\* running, for any number of workers, slots, crashes and outages.
THEOREM RunsAlone ==
  ASSUME Budget["suspend"] = 0, Budget["stop"] = 0, Budget["retry"] = 0
  PROVE Spec => []NoDoubleRun
<1>1. Init => Types /\ Single /\ Calm
  <2>1. Init => Single
    <3>1. Init => \A w \in Workers : batch[w].tasks = {} BY NoBatchType DEF Init
    <3> QED BY <3>1 DEF Init, Single, InBatch
  <2> QED BY <2>1, InitTypes DEF Init, Calm
<1>2. Types /\ Single /\ Calm /\ [Next]_vars => Types' /\ Single' /\ Calm'
  BY TypesKept, SingleKept, CalmKept
<1>3. Single => NoDoubleRun
  <2> SUFFICES ASSUME Single, NEW t \in Tasks PROVE Cardinality(Running(t)) <= 1
    BY DEF NoDoubleRun
  <2>1. \A g, h \in Running(t) : g = h BY DEF Running, Single
  <2>2. CASE Running(t) = {} BY <2>2, FS_EmptySet
  <2>3. CASE Running(t) # {}
    <3>1. PICK h \in Running(t) : TRUE BY <2>3
    <3>2. Running(t) = {h} BY <2>1, <3>1
    <3>3. Cardinality({h}) = 1 BY FS_Singleton
    <3> QED BY <3>2, <3>3
  <2> QED BY <2>2, <2>3
<1> QED BY <1>1, <1>2, <1>3, PTL DEF Spec

=============================================================================
