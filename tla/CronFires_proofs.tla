-------------------------- MODULE CronFires_proofs --------------------------
(* Proofs about scheduled jobs and their outbox, for any number of jobs,    *)
(* occurrences, attempts, crashes and errors.                               *)
EXTENDS CronFires, TLAPS

\* What ties a send in progress to its row and to the platform.
OutboxInv ==
  /\ \A s \in Senders : Live(s) => send[s].row \in Messages
  /\ LiveSendKept
  /\ \A s \in Senders :
       /\ send[s].at \in {"claimed", "refused"} => arrived[send[s].row] = 0
       /\ send[s].at = "accepted" => arrived[send[s].row] = 1
  /\ \A m \in Messages :
       /\ arrived[m] \in {0, 1}
       /\ mail[m].state \in {"none", "pending", "undeliverable", "cancelled"} => arrived[m] = 0
       /\ mail[m].state = "delivered" => arrived[m] = 1

LEMMA Constants ==
  /\ NoEdit \in EditType /\ NoTask \in TaskType /\ NoSend \in SendType /\ NotSeen \in SeenType
  /\ \A m \in Messages : Todo(m) \in SendType
  /\ \A j \in Jobs : \A n \in Runs : <<j, n, "result">> \in Messages /\ <<j, n, "missed">> \in Messages
  /\ \A m \in Messages : m[1] \in Jobs
  /\ Jobs \subseteq Senders /\ Poll \in Senders /\ Poll \notin Jobs /\ None \notin Messages
  /\ 1 \in Runs
BY CronAssumption DEF NoEdit, EditType, NoTask, TaskType, NoSend, SendType, NotSeen, SeenType, Todo,
                      Messages, Senders, Runs

LEMMA SpendType ==
  ASSUME left \in [Chances -> Nat], NEW c \in Chances, Spend(c)
  PROVE  left' \in [Chances -> Nat]
BY DEF Spend

LEMMA FreshType ==
  ASSUME top \in [Jobs -> Runs], NEW j \in Jobs, Fresh(j)
  PROVE  top' \in [Jobs -> Runs] /\ top[j] + 1 \in Runs
BY CronAssumption DEF Fresh, Runs

LEMMA GoOnType ==
  ASSUME top \in [Jobs -> Runs], NEW j \in Jobs, NEW goesOn \in BOOLEAN, GoOn(j, goesOn)
  PROVE  top' \in [Jobs -> Runs] /\ (goesOn => top[j] + 1 \in Runs)
BY FreshType DEF GoOn

LEMMA WriteType ==
  ASSUME mail \in [Messages -> MailType], send \in [Senders -> SendType],
         NEW s \in Senders, NEW m \in Messages, Write(s, m)
  PROVE  mail' \in [Messages -> MailType] /\ send' \in [Senders -> SendType]
<1>1. [mail[m] EXCEPT !.state = "pending"] \in MailType
  BY DEF MailType
<1>2. QED
  BY <1>1, Constants DEF Write

\* Changing fields of a job leaves a job.
LEMMA FiredType ==
  ASSUME NEW r \in JobType, NEW success \in BOOLEAN, NEW written \in BOOLEAN, NEW goesOn \in BOOLEAN,
         NEW n, goesOn => n \in Runs
  PROVE  Fired(r, success, written, goesOn, n) \in JobType
<1> DEFINE ended == [r EXCEPT !.owner = "none", !.edit = NoEdit, !.cancel = FALSE,
                              !.failures = IF success THEN 0 ELSE @ + 1]
           next == [ended EXCEPT !.status = "pending", !.phase = "ahead"]
<1>1. ended \in JobType
  <2>1. NoEdit \in EditType
    BY Constants
  <2>2. (IF success THEN 0 ELSE r.failures + 1) \in Nat
    BY DEF JobType
  <2>3. QED
    BY <2>1, <2>2 DEF JobType
<1> HIDE DEF ended
<1>2. next \in JobType
  BY <1>1 DEF JobType, Statuses
<1> HIDE DEF next
<1>3. ASSUME NEW st \in Statuses PROVE [ended EXCEPT !.status = st] \in JobType
  BY <1>1 DEF JobType
<1>4. ASSUME NEW k \in Runs, NEW b \in BOOLEAN
      PROVE  [next EXCEPT !.run = k, !.series = b] \in JobType /\ [next EXCEPT !.run = k] \in JobType
  BY <1>2 DEF JobType
<1>5. {"cancelled", "failed", "done", "delivering"} \subseteq Statuses
  BY DEF Statuses, Terminal
<1>6. r.edit \in EditType
  BY DEF JobType
<1>7. r.edit.run # 0 => r.edit.run \in Runs /\ r.edit.series \in BOOLEAN
  BY <1>6 DEF EditType
<1>8. Fired(r, success, written, goesOn, n) =
        IF r.cancel THEN [ended EXCEPT !.status = "cancelled"]
        ELSE IF r.edit.run # 0 THEN [next EXCEPT !.run = r.edit.run, !.series = r.edit.series]
        ELSE IF r.series
             THEN IF ended.failures >= FailureBudget THEN [ended EXCEPT !.status = "failed"]
                  ELSE IF goesOn THEN [next EXCEPT !.run = n]
                  ELSE [ended EXCEPT !.status = "done"]
        ELSE IF ~success THEN [ended EXCEPT !.status = "failed"]
        ELSE [ended EXCEPT !.status = IF written THEN "delivering" ELSE "done"]
  BY DEF Fired, ended, next
<1>9. QED
  BY <1>3, <1>4, <1>5, <1>7, <1>8

LEMMA EndingType ==
  ASSUME job \in [Jobs -> JobType], NEW j, NEW st \in Statuses
  PROVE  Ending(j, st) \in [Jobs -> JobType]
BY ZenonT(60) DEF Ending, JobType

LEMMA TypeInit == Init => TypeOK
<1> SUFFICES ASSUME Init PROVE TypeOK
  OBVIOUS
<1>1. job \in [Jobs -> JobType]
  BY Constants DEF Init, JobType, Statuses
<1>2. mail \in [Messages -> MailType]
  BY DEF Init, MailType
<1>3. QED
  BY <1>1, <1>2, Constants, CronAssumption DEF Init, TypeOK

LEMMA TouchedType ==
  ASSUME NEW r \in JobType
  PROVE  /\ Touched(r) \in JobType
         /\ \A n \in Runs : \A series \in BOOLEAN : Retimed(r, n, series) \in JobType
         /\ \A e \in EditType : [Touched(r) EXCEPT !.edit = e] \in JobType
         /\ [Touched(r) EXCEPT !.cancel = TRUE] \in JobType
         /\ [Touched(r) EXCEPT !.status = "cancelled"] \in JobType
<1>1. Touched(r) \in JobType
  BY DEF Touched, JobType
<1>2. ASSUME NEW n \in Runs, NEW series \in BOOLEAN PROVE Retimed(r, n, series) \in JobType
  <2> DEFINE t == Touched(r)
  <2>1. t \in JobType
    BY <1>1
  <2> HIDE DEF t
  <2>2. [t EXCEPT !.run = n, !.phase = "ahead", !.series = series] \in JobType
    BY <2>1 DEF JobType
  <2>3. QED
    BY <2>2 DEF Retimed, t
<1>3. ASSUME NEW e \in EditType PROVE [Touched(r) EXCEPT !.edit = e] \in JobType
  <2> DEFINE t == Touched(r)
  <2>1. t \in JobType
    BY <1>1
  <2> HIDE DEF t
  <2>2. [t EXCEPT !.edit = e] \in JobType
    BY <2>1 DEF JobType
  <2>3. QED
    BY <2>2 DEF t
<1>4. [Touched(r) EXCEPT !.cancel = TRUE] \in JobType /\ [Touched(r) EXCEPT !.status = "cancelled"] \in JobType
  <2> DEFINE t == Touched(r)
  <2>1. t \in JobType
    BY <1>1
  <2> HIDE DEF t
  <2>2. [t EXCEPT !.cancel = TRUE] \in JobType /\ [t EXCEPT !.status = "cancelled"] \in JobType
    BY <2>1 DEF JobType, Statuses, Terminal
  <2>3. QED
    BY <2>2 DEF t
<1>5. QED
  BY <1>1, <1>2, <1>3, <1>4

LEMMA TypeUser ==
  ASSUME TypeOK, NEW j \in Jobs, UserActs(j)
  PROVE  TypeOK'
<1>0. job[j] \in JobType
  BY DEF TypeOK
<1>1. ASSUME NEW series \in BOOLEAN, UpdateTiming(j, series) PROVE TypeOK'
  <2>1. top' \in [Jobs -> Runs] /\ top[j] + 1 \in Runs
    BY <1>1, FreshType DEF UpdateTiming, TypeOK
  <2>2. [run |-> top[j] + 1, series |-> series] \in EditType
    BY <2>1 DEF EditType
  <2>3. job' \in [Jobs -> JobType]
    <3> DEFINE now == Retimed(job[j], top[j] + 1, series)
               edit == [run |-> top[j] + 1, series |-> series]
               recorded == [Touched(job[j]) EXCEPT !.edit = edit]
    <3>1. now \in JobType
      BY <1>0, <2>1, TouchedType
    <3>2. recorded \in JobType
      <4>1. edit \in EditType
        BY <2>2
      <4> HIDE DEF edit
      <4>2. QED
        BY <1>0, <4>1, TouchedType
    <3>3. job' = [job EXCEPT ![j] = IF job[j].status = "pending" THEN now ELSE recorded]
      BY <1>1 DEF UpdateTiming
    <3> HIDE DEF now, recorded
    <3>4. QED
      BY <3>1, <3>2, <3>3 DEF TypeOK
  <2>4. QED
    BY <1>1, <2>1, <2>3, SpendType DEF UpdateTiming, TypeOK, Chances
<1>2. ASSUME NEW series \in BOOLEAN, RestoreJob(j, series) PROVE TypeOK'
  <2>1. top' \in [Jobs -> Runs] /\ top[j] + 1 \in Runs
    BY <1>2, FreshType DEF RestoreJob, TypeOK
  <2>2. job' \in [Jobs -> JobType]
    <3> DEFINE again == [Retimed(job[j], top[j] + 1, series) EXCEPT
                           !.status = "pending", !.failures = 0, !.edit = NoEdit, !.cancel = FALSE]
    <3>1. NoEdit \in EditType
      BY Constants
    <3>2. again \in JobType
      <4>1. Retimed(job[j], top[j] + 1, series) \in JobType
        BY <1>0, <2>1, TouchedType
      <4>2. QED
        BY <3>1, <4>1 DEF JobType, Statuses
    <3>3. job' = [job EXCEPT ![j] = again]
      BY <1>2 DEF RestoreJob
    <3> HIDE DEF again
    <3>4. QED
      BY <3>2, <3>3 DEF TypeOK
  <2>3. QED
    BY <1>2, <2>1, <2>2, SpendType DEF RestoreJob, TypeOK, Chances
<1>3. CASE UpdatePrompt(j)
  <2>1. job' \in [Jobs -> JobType]
    BY <1>0, <1>3, TouchedType DEF UpdatePrompt, TypeOK
  <2>2. QED
    BY <1>3, <2>1, SpendType DEF UpdatePrompt, TypeOK, Chances
<1>4. CASE Cancel(j)
  <2>1. job' \in [Jobs -> JobType]
    <3> DEFINE recorded == [Touched(job[j]) EXCEPT !.cancel = TRUE]
               cancelled == [Touched(job[j]) EXCEPT !.status = "cancelled"]
    <3>1. recorded \in JobType
      BY <1>0, TouchedType
    <3>2. cancelled \in JobType
      BY <1>0, TouchedType
    <3>3. job' = [job EXCEPT ![j] = IF job[j].status = "running" THEN recorded ELSE cancelled]
      BY <1>4 DEF Cancel
    <3> HIDE DEF recorded, cancelled
    <3>4. QED
      BY <3>1, <3>2, <3>3 DEF TypeOK
  <2>2. mail' \in [Messages -> MailType] /\ stopped' \subseteq Messages
    <3>1. \A m \in Messages : [mail[m] EXCEPT !.state = "cancelled"] \in MailType
      BY DEF TypeOK, MailType
    <3>2. QED
      BY <1>4, <3>1 DEF Cancel, CancelMail, OpenOf, TypeOK
  <2>3. QED
    BY <1>4, <2>1, <2>2, SpendType DEF Cancel, TypeOK, Chances
<1>5. QED
  BY <1>1, <1>2, <1>3, <1>4 DEF UserActs

LEMMA TypeTime ==
  ASSUME TypeOK, TimePasses
  PROVE  TypeOK'
<1>1. ASSUME NEW j \in Jobs, BecomeDue(j) \/ BecomeLate(j) \/ FireLeaseLapses(j) PROVE TypeOK'
  <2>1. job' \in [Jobs -> JobType]
    <3>1. CASE BecomeDue(j)
      <4>1. [job[j] EXCEPT !.phase = "due"] \in JobType
        BY DEF TypeOK, JobType
      <4>2. QED
        BY <3>1, <4>1 DEF BecomeDue, TypeOK
    <3>2. CASE BecomeLate(j)
      <4>1. [job[j] EXCEPT !.phase = "late"] \in JobType
        BY DEF TypeOK, JobType
      <4>2. QED
        BY <3>2, <4>1 DEF BecomeLate, TypeOK
    <3>3. CASE FireLeaseLapses(j)
      <4>1. [job[j] EXCEPT !.owner = "lapsed"] \in JobType
        BY DEF TypeOK, JobType
      <4>2. QED
        BY <3>3, <4>1 DEF FireLeaseLapses, TypeOK
    <3>4. QED
      BY <1>1, <3>1, <3>2, <3>3
  <2>2. QED
    BY <1>1, <2>1 DEF BecomeDue, BecomeLate, FireLeaseLapses, TypeOK
<1>2. ASSUME NEW m \in Messages, SendLeaseLapses(m) PROVE TypeOK'
  <2>1. mail' \in [Messages -> MailType]
    BY <1>2 DEF SendLeaseLapses, TypeOK, MailType
  <2>2. QED
    BY <1>2, <2>1 DEF SendLeaseLapses, TypeOK
<1>3. QED
  BY <1>1, <1>2 DEF TimePasses

LEMMA TypeFire ==
  ASSUME TypeOK, NEW j \in Jobs, Fire(j)
  PROVE  TypeOK'
<1>1. CASE ClaimJob(j)
  <2>1. job' \in [Jobs -> JobType]
    BY <1>1, SMTT(30) DEF ClaimJob, TypeOK, JobType, Statuses
  <2>2. task' \in [Jobs -> TaskType]
    <3>1. [task[j] EXCEPT !.at = "firing"] \in TaskType
      BY DEF TypeOK, TaskType
    <3>2. QED
      BY <1>1, <3>1, Constants DEF ClaimJob, TypeOK
  <2>3. QED
    BY <1>1, <2>1, <2>2 DEF ClaimJob, TypeOK
<1>2. ASSUME NEW success \in BOOLEAN, NEW goesOn \in BOOLEAN, FinishFire(j, success, goesOn) PROVE TypeOK'
  <2> DEFINE m == <<j, job[j].run, "result">>
             written == (success /\ ~job[j].cancel) /\ mail[m].state = "none"
  <2>1. job[j] \in JobType /\ m \in Messages /\ j \in Senders
    BY Constants DEF TypeOK, JobType
  <2>2. top' \in [Jobs -> Runs] /\ (goesOn => top[j] + 1 \in Runs)
    BY <1>2, GoOnType DEF FinishFire, TypeOK
  <2>3. job' \in [Jobs -> JobType]
    <3>1. Fired(job[j], success, written, goesOn, top[j] + 1) \in JobType
      BY <2>1, <2>2, FiredType
    <3>2. job' = [job EXCEPT ![j] = Fired(job[j], success, written, goesOn, top[j] + 1)]
      BY <1>2 DEF FinishFire
    <3>3. QED
      BY <3>1, <3>2 DEF TypeOK
  <2>4. mail' \in [Messages -> MailType] /\ send' \in [Senders -> SendType]
    BY <1>2, <2>1, WriteType DEF FinishFire, TypeOK
  <2>5. task' \in [Jobs -> TaskType]
    BY <1>2, Constants DEF FinishFire, TypeOK
  <2>6. QED
    BY <1>2, <2>2, <2>3, <2>4, <2>5 DEF FinishFire, TypeOK
<1>3. QED
  BY <1>1, <1>2 DEF Fire

LEMMA TypeSending ==
  ASSUME TypeOK, OutboxInv, NEW s \in Senders, Sending(s)
  PROVE  TypeOK'
<1>0. send[s] \in SendType /\ (Live(s) => send[s].row \in Messages)
  BY DEF TypeOK, OutboxInv
<1>1. ASSUME NEW m \in Messages, ClaimDelivery(s, m) PROVE TypeOK'
  <2>1. mail' \in [Messages -> MailType]
    BY <1>1 DEF ClaimDelivery, TypeOK, MailType
  <2>2. send' \in [Senders -> SendType]
    BY <1>1 DEF ClaimDelivery, TypeOK, SendType
  <2>3. QED
    BY <1>1, <2>1, <2>2 DEF ClaimDelivery, TypeOK
<1>2. CASE SkipDelivery(s)
  BY <1>2, Constants DEF SkipDelivery, TypeOK
<1>3. CASE Answer(s)
  <2>1. send[s].row \in Messages
    BY <1>0, <1>3 DEF Answer, PlatformTakes, PlatformRefuses, Live
  <2>2. send' \in [Senders -> SendType]
    BY <1>0, <1>3, SMTT(30) DEF Answer, PlatformTakes, PlatformRefuses, TypeOK, SendType
  <2>3. arrived' \in [Messages -> Nat]
    BY <1>3, <2>1 DEF Answer, PlatformTakes, PlatformRefuses, TypeOK
  <2>4. QED
    BY <1>3, <2>2, <2>3 DEF Answer, PlatformTakes, PlatformRefuses, TypeOK
<1>4. ASSUME NEW terminal \in BOOLEAN, FinishDelivery(s, terminal) PROVE TypeOK'
  <2> DEFINE m == send[s].row
  <2>1. m \in Messages
    BY <1>0, <1>4 DEF FinishDelivery, Live
  <2>2. mail' \in [Messages -> MailType]
    BY <1>4, <2>1 DEF FinishDelivery, TypeOK, MailType
  <2>3. job' \in [Jobs -> JobType]
    <3>1. {"done", "undeliverable"} \subseteq Statuses
      BY DEF Statuses, Terminal
    <3>2. Ending(m[1], "done") \in [Jobs -> JobType] /\ Ending(m[1], "undeliverable") \in [Jobs -> JobType]
      BY <3>1, EndingType DEF TypeOK
    <3>3. job' \in {job, Ending(m[1], "done"), Ending(m[1], "undeliverable")}
      BY <1>4 DEF FinishDelivery
    <3>4. QED
      BY <3>2, <3>3 DEF TypeOK
  <2>4. send' \in [Senders -> SendType]
    BY <1>4, Constants DEF FinishDelivery, TypeOK
  <2>5. QED
    BY <1>4, <2>2, <2>3, <2>4 DEF FinishDelivery, TypeOK
<1>5. QED
  BY <1>1, <1>2, <1>3, <1>4 DEF Sending, Acknowledge

LEMMA TypePass ==
  ASSUME TypeOK, Pass
  PROVE  TypeOK'
<1>1. ASSUME NEW j \in Jobs, ReleaseFire(j) PROVE TypeOK'
  <2>1. job' \in [Jobs -> JobType]
    <3>1. [job[j] EXCEPT !.status = "pending", !.owner = "none"] \in JobType
      BY ZenonT(60) DEF TypeOK, JobType, Statuses
    <3>2. job' = [job EXCEPT ![j] = [job[j] EXCEPT !.status = "pending", !.owner = "none"]]
      BY <1>1 DEF ReleaseFire, TypeOK
    <3>3. QED
      BY <3>1, <3>2 DEF TypeOK
  <2>2. QED
    BY <1>1, <2>1 DEF ReleaseFire, TypeOK
<1>2. ASSUME NEW j \in Jobs, Serve(j) PROVE TypeOK'
  <2>1. CASE ServeSkip(j)
    BY <2>1, Constants DEF ServeSkip, Served, TypeOK
  <2>2. CASE ServeStart(j)
    <3>1. [at |-> "queued", version |-> seen[j].version] \in TaskType
      BY DEF TypeOK, SeenType, TaskType
    <3>2. QED
      BY <2>2, <3>1, Constants DEF ServeStart, Served, TypeOK
  <2>3. ASSUME NEW goesOn \in BOOLEAN, ServeMissed(j, goesOn) PROVE TypeOK'
    <3> DEFINE m == <<j, job[j].run, "missed">>
    <3>1. job[j] \in JobType /\ m \in Messages
      BY Constants DEF TypeOK, JobType
    <3>2. top' \in [Jobs -> Runs] /\ (goesOn => top[j] + 1 \in Runs)
      BY <2>3, GoOnType DEF ServeMissed, TypeOK
    <3>3. mail' \in [Messages -> MailType] /\ send' \in [Senders -> SendType]
      BY <2>3, <3>1, WriteType, Constants DEF ServeMissed, TypeOK
    <3>4. job' \in [Jobs -> JobType]
      <4> DEFINE later == [job[j] EXCEPT !.run = top[j] + 1, !.phase = "ahead"]
                 missed == [job[j] EXCEPT !.status = "missed"]
      <4>1. goesOn => later \in JobType
        BY <3>1, <3>2 DEF JobType
      <4>2. missed \in JobType
        BY <3>1 DEF JobType, Statuses, Terminal
      <4>3. job' = job \/ job' = [job EXCEPT ![j] = IF goesOn THEN later ELSE missed]
        BY <2>3 DEF ServeMissed
      <4> HIDE DEF later, missed
      <4>4. QED
        BY <4>1, <4>2, <4>3 DEF TypeOK
    <3>5. QED
      BY <2>3, <3>2, <3>3, <3>4, Constants DEF ServeMissed, Served, TypeOK
  <2>4. QED
    BY <1>2, <2>1, <2>2, <2>3 DEF Serve
<1>3. CASE RecoverDeliveries
  <2>1. mail' \in [Messages -> MailType]
    BY <1>3 DEF RecoverDeliveries, Recovered, TypeOK, MailType
  <2>2. job' \in [Jobs -> JobType]
    <3>1. \A j \in Jobs : [job[j] EXCEPT !.status = "delivery_unknown"] \in JobType
      BY DEF TypeOK, JobType, Statuses, Terminal
    <3>2. QED
      BY <1>3, <3>1 DEF RecoverDeliveries, Recovered, TypeOK
  <2>3. QED
    BY <1>3, <2>1, <2>2 DEF RecoverDeliveries, TypeOK
<1>4. CASE DueJobs
  <2>1. \A j \in Jobs : [on |-> TRUE, run |-> job[j].run, version |-> job[j].version,
                        late |-> job[j].phase = "late"] \in SeenType
    BY DEF TypeOK, JobType, SeenType
  <2>2. QED
    BY <1>4, <2>1, Constants DEF DueJobs, TypeOK
<1>5. CASE ServeEnd \/ DrainEnd
  BY <1>5 DEF ServeEnd, DrainEnd, TypeOK
<1>6. QED
  BY <1>1, <1>2, <1>3, <1>4, <1>5 DEF Pass

LEMMA TypeFails ==
  ASSUME TypeOK, Fails \/ Start
  PROVE  TypeOK'
<1>1. CASE PassFails
  BY <1>1, SpendType, Constants DEF PassFails, TypeOK, Chances
<1>2. CASE Crash
  <2>1. job' \in [Jobs -> JobType]
    <3>1. \A j \in Jobs : [job[j] EXCEPT !.owner = "dead"] \in JobType
      BY DEF TypeOK, JobType
    <3>2. QED
      BY <1>2, <3>1 DEF Crash, TypeOK
  <2>2. mail' \in [Messages -> MailType]
    BY <1>2 DEF Crash, TypeOK, MailType
  <2>3. QED
    BY <1>2, <2>1, <2>2, SpendType, Constants DEF Crash, TypeOK, Chances
<1>3. ASSUME NEW j \in Jobs, ExecDies(j) PROVE TypeOK'
  BY <1>3, SpendType, Constants DEF ExecDies, TypeOK, Chances
<1>4. ASSUME NEW s \in Senders, SendDies(s) PROVE TypeOK'
  BY <1>4, SpendType, Constants DEF SendDies, TypeOK, Chances
<1>5. CASE Start
  BY <1>5 DEF Start, TypeOK
<1>6. QED
  BY <1>1, <1>2, <1>3, <1>4, <1>5 DEF Fails

LEMMA InvInit == Init => OutboxInv
BY Constants DEF Init, OutboxInv, LiveSendKept, Live, NoSend

\* How a row and the platform's copy of its message may move in one step.
Moves(m) ==
  \/ Fate(mail'[m].state) = Fate(mail[m].state) /\ arrived'[m] = arrived[m]
  \/ mail[m].state = "none" /\ mail'[m].state = "pending" /\ arrived'[m] = arrived[m]
  \/ mail[m].state = "sending" /\ mail'[m].state = "sending" /\ arrived[m] = 0 /\ arrived'[m] = 1
  \/ /\ Open(m) /\ arrived'[m] = arrived[m]
     /\ \/ mail'[m].state = "delivered" /\ arrived[m] = 1
        \/ mail'[m].state \in {"undeliverable", "cancelled"} /\ arrived[m] = 0
        \/ mail'[m].state = "unknown"

HonestStep == \A m \in Messages : Moves(m)

\* An action that leaves the sends and the platform alone, and every row that
\* is being sent, and settles rows truthfully, keeps the invariant.
LEMMA InvMail ==
  ASSUME TypeOK, OutboxInv, UNCHANGED <<send, arrived>>,
         \A m \in Messages :
           \/ mail'[m].state = mail[m].state
           \/ mail[m].state = "none" /\ mail'[m].state = "pending"
           \/ mail[m].state = "pending" /\ mail'[m].state = "cancelled"
           \/ mail[m].state = "sending" /\ mail'[m].state = "unknown"
              /\ \A s \in Senders : Live(s) => send[s].row # m
  PROVE  OutboxInv' /\ HonestStep
<1>1. \A s \in Senders : send'[s] = send[s] /\ Live(s)' = Live(s)
  BY DEF Live
<1>2. \A s \in Senders : Live(s) => mail'[send[s].row].state = "sending"
  BY DEF OutboxInv, LiveSendKept
<1>3. \A m \in Messages : /\ mail'[m].state \in {"none", "pending", "undeliverable", "cancelled"} => arrived[m] = 0
                          /\ mail'[m].state = "delivered" => arrived[m] = 1
  BY DEF OutboxInv
<1>4. LiveSendKept'
  BY <1>1, <1>2 DEF OutboxInv, LiveSendKept
<1>5. HonestStep
  BY DEF HonestStep, Moves, Fate, Open, OutboxInv
<1>6. QED
  BY <1>1, <1>3, <1>4, <1>5 DEF OutboxInv

\* One sender starts, or gives up, without touching a row.
LEMMA InvSend ==
  ASSUME TypeOK, OutboxInv, UNCHANGED <<mail, arrived>>, NEW s \in Senders, NEW new \in SendType,
         new.at \in {"idle", "todo"}, send' = [send EXCEPT ![s] = new]
  PROVE  OutboxInv' /\ HonestStep
<1>1. ~Live(s)' /\ \A t \in Senders : t # s => send'[t] = send[t] /\ Live(t)' = Live(t)
  BY DEF Live, TypeOK
<1>2. send'[s].at \in {"idle", "todo"}
  BY DEF TypeOK
<1>3. QED
  BY <1>1, <1>2 DEF OutboxInv, LiveSendKept, HonestStep, Moves

LEMMA InvWrite ==
  ASSUME TypeOK, OutboxInv, NEW s \in Senders, NEW m \in Messages, ~Live(s), Write(s, m), UNCHANGED arrived
  PROVE  OutboxInv' /\ HonestStep
<1>1. CASE mail[m].state # "none"
  BY <1>1, InvMail DEF Write
<1>2. CASE mail[m].state = "none"
  <2>1. mail' = [mail EXCEPT ![m].state = "pending"] /\ send' = [send EXCEPT ![s] = Todo(m)]
    BY <1>2 DEF Write
  <2>2. ~Live(s)' /\ send'[s].at = "todo" /\ \A t \in Senders : t # s => send'[t] = send[t] /\ Live(t)' = Live(t)
    BY <2>1 DEF Live, TypeOK, Todo
  <2>3. mail'[m].state = "pending" /\ \A k \in Messages : k # m => mail'[k] = mail[k]
    BY <2>1 DEF TypeOK, MailType
  <2>4. \A t \in Senders : Live(t) => send[t].row # m
    BY <1>2 DEF OutboxInv, LiveSendKept
  <2>5. LiveSendKept'
    BY <2>2, <2>3, <2>4 DEF OutboxInv, LiveSendKept
  <2>6. arrived[m] = 0
    BY <1>2 DEF OutboxInv
  <2>7. HonestStep
    BY <1>2, <2>3 DEF HonestStep, Moves
  <2>8. QED
    BY <2>2, <2>3, <2>5, <2>6, <2>7 DEF OutboxInv
<1>3. QED
  BY <1>1, <1>2

LEMMA InvClaim ==
  ASSUME TypeOK, OutboxInv, NEW s \in Senders, NEW m \in Messages, ClaimDelivery(s, m)
  PROVE  OutboxInv' /\ HonestStep
<1>1. mail[m].state = "pending" /\ arrived[m] = 0 /\ arrived' = arrived
  BY DEF ClaimDelivery, OutboxInv
<1>2. mail'[m].state = "sending" /\ \A k \in Messages : k # m => mail'[k] = mail[k]
  BY DEF ClaimDelivery, TypeOK
<1>3. send'[s] = [at |-> "claimed", row |-> m]
      /\ \A t \in Senders : t # s => send'[t] = send[t] /\ Live(t)' = Live(t)
  BY DEF ClaimDelivery, TypeOK, Live
<1>4. \A t \in Senders : Live(t) => send[t].row # m
  BY <1>1 DEF OutboxInv, LiveSendKept
<1>5. LiveSendKept'
  BY <1>2, <1>3, <1>4 DEF OutboxInv, LiveSendKept
<1>6. HonestStep
  BY <1>1, <1>2 DEF HonestStep, Moves, Fate
<1>7. QED
  BY <1>1, <1>2, <1>3, <1>5, <1>6 DEF OutboxInv

LEMMA InvAnswer ==
  ASSUME TypeOK, OutboxInv, NEW s \in Senders, Answer(s)
  PROVE  OutboxInv' /\ HonestStep
<1> DEFINE m == send[s].row
<1>1. Live(s) /\ m \in Messages /\ arrived[m] = 0 /\ mail' = mail /\ mail[m].state = "sending"
  BY DEF Answer, PlatformTakes, PlatformRefuses, Live, OutboxInv, LiveSendKept
<1>2. \A t \in Senders : t # s => send'[t] = send[t] /\ Live(t)' = Live(t) /\ (Live(t) => send[t].row # m)
  BY <1>1 DEF Answer, PlatformTakes, PlatformRefuses, TypeOK, Live, OutboxInv, LiveSendKept
<1>3. Live(s)' /\ send'[s].row = m
      /\ \/ send'[s].at = "accepted" /\ arrived' = [arrived EXCEPT ![m] = @ + 1]
         \/ send'[s].at = "refused" /\ arrived' = arrived
  BY DEF Answer, PlatformTakes, PlatformRefuses, TypeOK, SendType, Live
<1>4. \A k \in Messages : k # m => arrived'[k] = arrived[k]
  BY <1>3 DEF TypeOK
<1>5. (send'[s].at = "accepted" => arrived'[m] = 1) /\ (send'[s].at = "refused" => arrived'[m] = 0)
      /\ arrived'[m] \in {0, 1}
  BY <1>1, <1>3 DEF TypeOK
<1>6. LiveSendKept'
  BY <1>1, <1>2, <1>3 DEF OutboxInv, LiveSendKept
<1>7. \A t \in Senders : Live(t)' => send'[t].row \in Messages
  BY <1>1, <1>2, <1>3 DEF OutboxInv
<1>8. \A t \in Senders : /\ send'[t].at \in {"claimed", "refused"} => arrived'[send'[t].row] = 0
                         /\ send'[t].at = "accepted" => arrived'[send'[t].row] = 1
  BY <1>2, <1>3, <1>4, <1>5 DEF OutboxInv, Live
<1>9. HonestStep
  <2>1. arrived'[m] = 1 \/ arrived'[m] = arrived[m]
    BY <1>1, <1>3, <1>5
  <2>2. QED
    BY <1>1, <1>4, <2>1 DEF HonestStep, Moves
<1>10. QED
  BY <1>1, <1>4, <1>5, <1>6, <1>7, <1>8, <1>9 DEF OutboxInv

LEMMA InvAcknowledge ==
  ASSUME TypeOK, OutboxInv, NEW s \in Senders, NEW terminal \in BOOLEAN, FinishDelivery(s, terminal)
  PROVE  OutboxInv' /\ HonestStep
<1> DEFINE m == send[s].row
<1>1. Live(s) /\ m \in Messages /\ mail[m].state = "sending" /\ arrived' = arrived
  BY DEF FinishDelivery, Live, OutboxInv, LiveSendKept
<1>2. send' = [send EXCEPT ![s] = NoSend]
  BY DEF FinishDelivery
<1>3. ~Live(s)' /\ send'[s].at = "idle"
      /\ \A t \in Senders : t # s => send'[t] = send[t] /\ Live(t)' = Live(t) /\ (Live(t) => send[t].row # m)
  BY <1>1, <1>2 DEF TypeOK, Live, NoSend, OutboxInv, LiveSendKept
<1>4. \/ send[s].at = "accepted" /\ mail'[m].state = "delivered"
      \/ send[s].at = "refused" /\ mail'[m].state \in {"undeliverable", "pending"}
  BY <1>1 DEF FinishDelivery, TypeOK, MailType
<1>5. \A k \in Messages : k # m => mail'[k] = mail[k]
  BY <1>1 DEF FinishDelivery, TypeOK
<1>6. /\ mail'[m].state = "delivered" => arrived[m] = 1
      /\ mail'[m].state \in {"none", "pending", "undeliverable", "cancelled"} => arrived[m] = 0
  BY <1>4 DEF OutboxInv
<1>7. LiveSendKept'
  BY <1>3, <1>5 DEF OutboxInv, LiveSendKept
<1>8. HonestStep
  <2>1. arrived[m] \in {0, 1} /\ (send[s].at = "accepted" => arrived[m] = 1) /\ (send[s].at = "refused" => arrived[m] = 0)
    BY <1>1 DEF OutboxInv
  <2>2. QED
    BY <1>1, <1>4, <1>5, <2>1 DEF HonestStep, Moves, Open, Fate
<1>9. QED
  BY <1>1, <1>3, <1>5, <1>6, <1>7, <1>8 DEF OutboxInv

----------------------------------------------------------------------------
(* The invariant.                                                          *)

\* An exec task produces before it sends: while it fires, it sends nothing.
FiresFirst == \A j \in Jobs : task[j].at # "none" => send[j].at = "idle"

IInv == TypeOK /\ OutboxInv /\ FiresFirst

LEMMA FirstNext ==
  ASSUME TypeOK, FiresFirst, Next
  PROVE  FiresFirst'
<1>1. ASSUME NEW j \in Jobs, UserActs(j) PROVE FiresFirst'
  BY <1>1 DEF UserActs, UpdateTiming, RestoreJob, UpdatePrompt, Cancel, FiresFirst
<1>2. ASSUME NEW j \in Jobs, Fire(j) PROVE FiresFirst'
  <2>1. CASE ClaimJob(j)
    BY <2>1 DEF ClaimJob, FiresFirst, TypeOK, TaskType, NoTask
  <2>2. ASSUME NEW success \in BOOLEAN, NEW goesOn \in BOOLEAN, FinishFire(j, success, goesOn)
        PROVE  FiresFirst'
    <3>1. task' = [task EXCEPT ![j] = NoTask]
      BY <2>2 DEF FinishFire
    <3>2. \A k \in Jobs : k # j => send'[k] = send[k]
      BY <2>2, Constants DEF FinishFire, Write, TypeOK
    <3>3. QED
      BY <3>1, <3>2 DEF FiresFirst, TypeOK, NoTask
  <2>3. QED
    BY <1>2, <2>1, <2>2 DEF Fire
<1>3. CASE TimePasses
  BY <1>3 DEF TimePasses, BecomeDue, BecomeLate, FireLeaseLapses, SendLeaseLapses, FiresFirst
<1>4. ASSUME NEW s \in Senders, Sending(s) PROVE FiresFirst'
  <2>1. task' = task /\ \A k \in Jobs : k # s => send'[k] = send[k]
    BY <1>4, Constants DEF Sending, ClaimDelivery, SkipDelivery, Answer, PlatformTakes, PlatformRefuses,
       Acknowledge, FinishDelivery, TypeOK
  <2>2. s \in Jobs => send[s].at # "idle" \/ send'[s].at = "idle"
    <3>1. ASSUME NEW m \in Messages, ClaimDelivery(s, m), s \in Jobs PROVE send[s].at # "idle"
      BY <3>1, Constants DEF ClaimDelivery, MayClaim, Todo
    <3>2. CASE SkipDelivery(s) \/ Answer(s) \/ Acknowledge(s)
      BY <3>2 DEF SkipDelivery, Answer, PlatformTakes, PlatformRefuses, Acknowledge, FinishDelivery
    <3>3. QED
      BY <1>4, <3>1, <3>2 DEF Sending
  <2>3. QED
    BY <2>1, <2>2 DEF FiresFirst
<1>5. CASE Pass
  <2>1. ASSUME NEW j \in Jobs, Serve(j) PROVE FiresFirst'
    <3>1. CASE ServeSkip(j)
      BY <3>1 DEF ServeSkip, FiresFirst
    <3>2. CASE ServeStart(j)
      BY <3>2 DEF ServeStart, InFlight, FiresFirst, TypeOK
    <3>3. ASSUME NEW goesOn \in BOOLEAN, ServeMissed(j, goesOn) PROVE FiresFirst'
      <4>1. task' = task /\ \A k \in Jobs : send'[k] = send[k]
        BY <3>3, Constants DEF ServeMissed, Write, TypeOK
      <4>2. QED
        BY <4>1 DEF FiresFirst
    <3>4. QED
      BY <2>1, <3>1, <3>2, <3>3 DEF Serve
  <2>2. QED
    BY <1>5, <2>1 DEF Pass, ReleaseFire, RecoverDeliveries, DueJobs, ServeEnd, DrainEnd, FiresFirst
<1>6. CASE Start
  BY <1>6 DEF Start, FiresFirst
<1>7. CASE Fails
  <2>1. ASSUME NEW j \in Jobs, ExecDies(j) PROVE FiresFirst'
    BY <2>1 DEF ExecDies, FiresFirst, TypeOK, NoTask
  <2>2. ASSUME NEW s \in Senders, SendDies(s) PROVE FiresFirst'
    BY <2>2 DEF SendDies, FiresFirst, TypeOK, NoSend
  <2>3. CASE PassFails
    BY <2>3 DEF PassFails, FiresFirst, TypeOK, NoSend
  <2>4. CASE Crash
    BY <2>4 DEF Crash, FiresFirst, NoTask
  <2>5. QED
    BY <1>7, <2>1, <2>2, <2>3, <2>4 DEF Fails
<1>8. QED
  BY <1>1, <1>2, <1>3, <1>4, <1>5, <1>6, <1>7 DEF Next

LEMMA InvNext ==
  ASSUME IInv, Next
  PROVE  OutboxInv' /\ HonestStep
<1> USE DEF IInv
<1>1. ASSUME NEW j \in Jobs, UserActs(j) PROVE OutboxInv' /\ HonestStep
  <2>1. CASE Cancel(j)
    BY <2>1, InvMail DEF Cancel, CancelMail, MailType, TypeOK
  <2>2. CASE ~Cancel(j)
    BY <1>1, <2>2, InvMail DEF UserActs, UpdateTiming, RestoreJob, UpdatePrompt
  <2>3. QED
    BY <2>1, <2>2
<1>2. ASSUME NEW j \in Jobs, Fire(j) PROVE OutboxInv' /\ HonestStep
  <2>1. CASE ClaimJob(j)
    BY <2>1, InvMail DEF ClaimJob
  <2>2. ASSUME NEW success \in BOOLEAN, NEW goesOn \in BOOLEAN, FinishFire(j, success, goesOn)
        PROVE  OutboxInv' /\ HonestStep
    <3> DEFINE m == <<j, job[j].run, "result">>
    <3>1. m \in Messages /\ j \in Senders
      BY Constants DEF TypeOK, JobType
    <3>2. ~Live(j) /\ arrived' = arrived
      BY <2>2 DEF FinishFire, FiresFirst, Live
    <3>3. Write(j, m) \/ UNCHANGED <<mail, send>>
      BY <2>2 DEF FinishFire
    <3>4. QED
      BY <3>1, <3>2, <3>3, InvWrite, InvMail
  <2>3. QED
    BY <1>2, <2>1, <2>2 DEF Fire
<1>3. CASE TimePasses
  <2>1. ASSUME NEW m \in Messages, SendLeaseLapses(m) PROVE OutboxInv' /\ HonestStep
    BY <2>1, InvMail DEF SendLeaseLapses, TypeOK, MailType
  <2>2. ASSUME NEW j \in Jobs, BecomeDue(j) \/ BecomeLate(j) \/ FireLeaseLapses(j) PROVE OutboxInv' /\ HonestStep
    BY <2>2, InvMail DEF BecomeDue, BecomeLate, FireLeaseLapses
  <2>3. QED
    BY <1>3, <2>1, <2>2 DEF TimePasses
<1>4. ASSUME NEW s \in Senders, Sending(s) PROVE OutboxInv' /\ HonestStep
  <2>1. CASE SkipDelivery(s)
    BY <2>1, InvSend, Constants DEF SkipDelivery, NoSend
  <2>2. QED
    BY <1>4, <2>1, InvClaim, InvAnswer, InvAcknowledge DEF Sending, Acknowledge
<1>5. CASE Pass
  <2>1. ASSUME NEW j \in Jobs, ServeMissed(j, TRUE) \/ ServeMissed(j, FALSE) PROVE OutboxInv' /\ HonestStep
    <3> DEFINE m == <<j, job[j].run, "missed">>
    <3>1. m \in Messages /\ Poll \in Senders
      BY Constants DEF TypeOK, JobType
    <3>2. ~Live(Poll) /\ arrived' = arrived
      BY <2>1 DEF ServeMissed, Serves, Live
    <3>3. Write(Poll, m) \/ UNCHANGED <<mail, send>>
      BY <2>1 DEF ServeMissed
    <3>4. QED
      BY <3>1, <3>2, <3>3, InvWrite, InvMail
  <2>2. ASSUME NEW j \in Jobs, Serve(j) PROVE OutboxInv' /\ HonestStep
    <3>1. CASE ServeSkip(j) \/ ServeStart(j)
      BY <3>1, InvMail DEF ServeSkip, ServeStart
    <3>2. QED
      BY <2>1, <2>2, <3>1 DEF Serve
  <2>3. CASE RecoverDeliveries
    <3>1. UNCHANGED <<send, arrived>>
      BY <2>3 DEF RecoverDeliveries
    <3>2. \A m \in Messages : \/ mail'[m] = mail[m]
                              \/ m \in Interrupted /\ mail'[m].state = "unknown"
      <4>1. ASSUME NEW m \in Messages, m \notin Interrupted PROVE mail'[m] = mail[m]
        BY <2>3, <4>1 DEF RecoverDeliveries, Recovered
      <4>2. ASSUME NEW m \in Messages, m \in Interrupted PROVE mail'[m].state = "unknown"
        <5>1. mail'[m] = [mail[m] EXCEPT !.state = "unknown", !.holder = "none"]
          BY <2>3, <4>2 DEF RecoverDeliveries, Recovered
        <5>2. mail[m] \in MailType
          BY DEF TypeOK
        <5>3. QED
          BY <5>1, <5>2 DEF MailType
      <4>3. QED
        BY <4>1, <4>2
    <3>3. QED
      BY <3>1, <3>2, InvMail DEF Interrupted
  <2>4. ASSUME NEW j \in Jobs, ReleaseFire(j) PROVE OutboxInv' /\ HonestStep
    BY <2>4, InvMail DEF ReleaseFire
  <2>5. CASE DueJobs \/ ServeEnd \/ DrainEnd
    BY <2>5, InvMail DEF DueJobs, ServeEnd, DrainEnd
  <2>6. QED
    BY <1>5, <2>2, <2>3, <2>4, <2>5 DEF Pass
<1>6. CASE Start
  BY <1>6, InvMail DEF Start
<1>7. CASE Fails
  <2>1. ASSUME NEW j \in Jobs, ExecDies(j) PROVE OutboxInv' /\ HonestStep
    BY <2>1, InvMail DEF ExecDies
  <2>2. ASSUME NEW s \in Senders, SendDies(s) PROVE OutboxInv' /\ HonestStep
    BY <2>2, InvSend, Constants DEF SendDies, NoSend
  <2>3. CASE PassFails
    BY <2>3, InvSend, Constants DEF PassFails, NoSend
  <2>4. CASE Crash
    <3>1. \A s \in Senders : send'[s].at = "idle"
      BY <2>4 DEF Crash, NoSend
    <3>2. \A m \in Messages : mail'[m].state = mail[m].state /\ arrived'[m] = arrived[m]
      BY <2>4 DEF Crash, TypeOK, MailType
    <3>3. QED
      BY <3>1, <3>2 DEF OutboxInv, LiveSendKept, Live, HonestStep, Moves
  <2>5. QED
    BY <1>7, <2>1, <2>2, <2>3, <2>4 DEF Fails
<1>8. QED
  BY <1>1, <1>2, <1>3, <1>4, <1>5, <1>6, <1>7 DEF Next

LEMMA InvStep == IInv /\ [Next]_vars => IInv'
<1>1. ASSUME IInv, Next PROVE IInv'
  <2>1. TypeOK'
    BY <1>1, TypeUser, TypeFire, TypeTime, TypeSending, TypePass, TypeFails DEF Next, IInv
  <2>2. QED
    BY <1>1, <2>1, FirstNext, InvNext DEF IInv
<1>2. ASSUME IInv, UNCHANGED vars PROVE IInv'
  <2>1. TypeOK'
    BY <1>2 DEF IInv, TypeOK, vars
  <2>2. OutboxInv'
    BY <1>2 DEF IInv, OutboxInv, LiveSendKept, Live, vars
  <2>3. FiresFirst'
    BY <1>2 DEF IInv, FiresFirst, vars
  <2>4. QED
    BY <2>1, <2>2, <2>3 DEF IInv
<1>3. QED
  BY <1>1, <1>2

LEMMA Invariant == Spec => []IInv
<1>1. Init => FiresFirst
  BY DEF Init, FiresFirst, NoTask
<1>2. Init => IInv
  BY <1>1, TypeInit, InvInit DEF IInv
<1>3. QED
  BY <1>2, InvStep, PTL DEF Spec

----------------------------------------------------------------------------
(* Theorems.                                                               *)

\* The tables, the tasks and the poll loop keep their types, whatever the
\* number of jobs, occurrences, attempts, crashes and errors.
THEOREM TypeCorrect == Spec => []TypeOK
BY Invariant, PTL DEF IInv

\* No recovery and no other sender takes the row of a send in progress.
THEOREM LiveSends == Spec => []LiveSendKept
BY Invariant, PTL DEF IInv, OutboxInv

\* The outbox is an honest one (HonestDelivery), over fires, retries, recovery
\* and restarts: a message arrives once at most, what its row ends as is true,
\* and it is never taken up again.
THEOREM Honesty == Spec => HonestOutbox
<1> DEFINE fates == [m \in Messages |-> Fate(mail[m].state)]
<1>1. Init => Honest!Init
  BY DEF Init, Honest!Init, Fate
<1>2. ASSUME IInv, [Next]_vars PROVE [Honest!Next]_<<fates, arrived>>
  <2>1. CASE UNCHANGED vars
    BY <2>1 DEF vars
  <2>2. CASE Next
    <3>1. HonestStep
      BY <1>2, <2>2, InvNext
    <3>2. ASSUME NEW m \in Messages, Moves(m)
          PROVE  Honest!Same(m) \/ Honest!Hand(m) \/ Honest!Arrive(m) \/ Honest!Settle(m)
      BY <3>2 DEF Moves, Fate, Open, Honest!Same, Honest!Hand, Honest!Arrive, Honest!Settle, Honest!NotArrived
    <3>3. QED
      BY <3>1, <3>2 DEF HonestStep, Honest!Next
  <2>3. QED
    BY <1>2, <2>1, <2>2
<1>3. QED
  BY <1>1, <1>2, Invariant, PTL DEF HonestOutbox, Honest!Spec, Honest!honest, Spec

\* No action but "run again" changes the status of a finished job.
LEMMA FinishedStep ==
  ASSUME TypeOK, Next, NEW k \in Jobs, job[k].status \in Terminal, job'[k].status # job[k].status
  PROVE  job'[k].status = "pending" /\ job'[k].version > job[k].version
<1>0. job[k] \in JobType /\ job[k].status \notin {"pending", "running", "delivering"}
  BY DEF TypeOK, Terminal
<1>1. ASSUME NEW j \in Jobs, UserActs(j) PROVE job'[k].status = "pending" /\ job'[k].version > job[k].version
  <2>1. ASSUME NEW series \in BOOLEAN, UpdateTiming(j, series) PROVE FALSE
    BY <1>0, <2>1 DEF UpdateTiming, TypeOK
  <2>2. CASE UpdatePrompt(j) \/ Cancel(j)
    BY <1>0, <2>2 DEF UpdatePrompt, Cancel, TypeOK
  <2>3. ASSUME NEW series \in BOOLEAN, RestoreJob(j, series)
        PROVE  job'[k].status = "pending" /\ job'[k].version > job[k].version
    <3> DEFINE moved == Retimed(job[k], top[k] + 1, series)
               again == [moved EXCEPT !.status = "pending", !.failures = 0, !.edit = NoEdit, !.cancel = FALSE]
    <3>1. j = k /\ job'[k] = again
      BY <2>3 DEF RestoreJob, TypeOK
    <3>2. top[k] + 1 \in Runs
      BY <2>3, <3>1, FreshType DEF RestoreJob, TypeOK
    <3>3. moved \in JobType /\ moved.version = job[k].version + 1
      BY <1>0, <3>2, TouchedType, ZenonT(60) DEF Retimed, Touched, JobType
    <3> HIDE DEF moved
    <3>4. again.status = "pending" /\ again.version = moved.version
      BY <3>3 DEF JobType
    <3>5. QED
      BY <1>0, <3>1, <3>3, <3>4 DEF JobType
  <2>4. QED
    BY <1>1, <2>1, <2>2, <2>3 DEF UserActs
<1>2. ASSUME NEW j \in Jobs, Fire(j) PROVE FALSE
  <2>1. CASE ClaimJob(j)
    BY <1>0, <2>1 DEF ClaimJob, TypeOK
  <2>2. ASSUME NEW success \in BOOLEAN, NEW goesOn \in BOOLEAN, FinishFire(j, success, goesOn) PROVE FALSE
    BY <1>0, <2>2 DEF FinishFire, TypeOK
  <2>3. QED
    BY <1>2, <2>1, <2>2 DEF Fire
<1>3. CASE TimePasses
  <2>1. ASSUME NEW j \in Jobs, BecomeDue(j) \/ BecomeLate(j) PROVE FALSE
    BY <1>0, <2>1 DEF BecomeDue, BecomeLate, TypeOK
  <2>2. ASSUME NEW j \in Jobs, FireLeaseLapses(j) PROVE FALSE
    BY <1>0, <2>2 DEF FireLeaseLapses, TypeOK, JobType
  <2>3. QED
    BY <1>3, <2>1, <2>2 DEF TimePasses, SendLeaseLapses
<1>4. ASSUME NEW s \in Senders, Sending(s) PROVE FALSE
  <2>1. ASSUME NEW i, NEW st, job' = Ending(i, st) PROVE job'[k] = job[k]
    BY <1>0, <2>1 DEF Ending, TypeOK
  <2>2. ASSUME NEW terminal \in BOOLEAN, FinishDelivery(s, terminal) PROVE FALSE
    BY <2>1, <2>2 DEF FinishDelivery
  <2>3. QED
    BY <1>4, <2>2 DEF Sending, ClaimDelivery, SkipDelivery, Answer, PlatformTakes, PlatformRefuses, Acknowledge
<1>5. CASE Pass
  <2>1. ASSUME NEW j \in Jobs, Serve(j) PROVE FALSE
    <3>1. CASE ServeSkip(j) \/ ServeStart(j)
      BY <3>1 DEF ServeSkip, ServeStart
    <3>2. ASSUME NEW goesOn \in BOOLEAN, ServeMissed(j, goesOn) PROVE FALSE
      BY <1>0, <3>2 DEF ServeMissed, TypeOK
    <3>3. QED
      BY <2>1, <3>1, <3>2 DEF Serve
  <2>2. ASSUME NEW j \in Jobs, ReleaseFire(j) PROVE FALSE
    BY <1>0, <2>2 DEF ReleaseFire, Orphaned, TypeOK
  <2>3. CASE RecoverDeliveries
    BY <1>0, <2>3 DEF RecoverDeliveries, Recovered
  <2>4. QED
    BY <1>5, <2>1, <2>2, <2>3 DEF Pass, DueJobs, ServeEnd, DrainEnd
<1>6. CASE Start
  BY <1>6 DEF Start
<1>7. CASE Fails
  <2>1. CASE Crash
    BY <1>0, <2>1 DEF Crash, JobType
  <2>2. QED
    BY <1>7, <2>1 DEF Fails, PassFails, ExecDies, SendDies
<1>8. QED
  BY <1>1, <1>2, <1>3, <1>4, <1>5, <1>6, <1>7 DEF Next

\* A finished job is pending again only by "run again", which counts as a new
\* version; no late outcome, recovery or missed notice changes its status.
THEOREM Finality == Spec => TerminalIsFinal
<1>1. TypeOK /\ [Next]_vars =>
        \A j \in Jobs : job[j].status \in Terminal /\ job'[j].status # job[j].status
                         => job'[j].status = "pending" /\ job'[j].version > job[j].version
  BY FinishedStep DEF vars
<1>2. QED
  BY <1>1, TypeCorrect, PTL DEF Spec, TerminalIsFinal

\* A cancelled job has ended, or holds its cancellation until its fire ends:
\* through an interrupted fire, an edit and a missed occurrence.
Hushed(r) == r.status \in Terminal \/ (r.status \in {"pending", "running"} /\ r.cancel)

AskedInv == \A j \in asked : Hushed(job[j])

LEMMA TouchedHushed ==
  ASSUME NEW r \in JobType, Hushed(r)
  PROVE  /\ Hushed(Touched(r))
         /\ \A n \in Runs : \A series \in BOOLEAN : Hushed(Retimed(r, n, series))
         /\ \A e \in EditType : Hushed([Touched(r) EXCEPT !.edit = e])
<1> DEFINE t == Touched(r)
<1>1. t \in JobType /\ t.status = r.status /\ t.cancel = r.cancel
  BY TouchedType DEF Touched, JobType
<1> HIDE DEF t
<1>2. ASSUME NEW n \in Runs, NEW series \in BOOLEAN
      PROVE  Hushed([t EXCEPT !.run = n, !.phase = "ahead", !.series = series])
  BY <1>1 DEF Hushed, JobType
<1>3. ASSUME NEW e \in EditType PROVE Hushed([t EXCEPT !.edit = e])
  BY <1>1 DEF Hushed, JobType
<1>4. QED
  BY <1>1, <1>2, <1>3 DEF Hushed, Retimed, t

LEMMA CancelHushed ==
  ASSUME NEW r \in JobType, r.status \in {"pending", "running", "delivering"}
  PROVE  Hushed(IF r.status = "running" THEN [Touched(r) EXCEPT !.cancel = TRUE]
                ELSE [Touched(r) EXCEPT !.status = "cancelled"])
<1> DEFINE t == Touched(r)
<1>1. t \in JobType /\ t.status = r.status
  BY TouchedType DEF Touched, JobType
<1> HIDE DEF t
<1>2. r.status = "running" => Hushed([t EXCEPT !.cancel = TRUE])
  BY <1>1 DEF Hushed, JobType
<1>3. Hushed([t EXCEPT !.status = "cancelled"])
  BY <1>1 DEF Hushed, JobType, Terminal
<1>4. QED
  BY <1>2, <1>3 DEF t

LEMMA FiredHushed ==
  ASSUME NEW r \in JobType, r.cancel, NEW success \in BOOLEAN, NEW written \in BOOLEAN, NEW goesOn \in BOOLEAN, NEW n
  PROVE  Hushed(Fired(r, success, written, goesOn, n))
<1> DEFINE ended == [r EXCEPT !.owner = "none", !.edit = NoEdit, !.cancel = FALSE,
                              !.failures = IF success THEN 0 ELSE @ + 1]
<1>1. ended \in JobType
  <2>1. NoEdit \in EditType
    BY Constants
  <2>2. (IF success THEN 0 ELSE r.failures + 1) \in Nat
    BY DEF JobType
  <2>3. QED
    BY <2>1, <2>2 DEF JobType
<1>2. Fired(r, success, written, goesOn, n) = [ended EXCEPT !.status = "cancelled"]
  BY DEF Fired
<1> HIDE DEF ended
<1>3. QED
  BY <1>1, <1>2 DEF Hushed, JobType, Terminal

LEMMA AskedStep ==
  ASSUME TypeOK, AskedInv, Next, NEW k \in Jobs, k \in asked'
  PROVE  Hushed(job'[k])
<1>0. job[k] \in JobType /\ (k \in asked => Hushed(job[k]))
  BY DEF TypeOK, AskedInv
<1>1. ASSUME NEW j \in Jobs, UserActs(j) PROVE Hushed(job'[k])
  <2>1. ASSUME NEW series \in BOOLEAN, UpdateTiming(j, series) PROVE Hushed(job'[k])
    <3>1. k \in asked /\ top[j] + 1 \in Runs
      BY <2>1, FreshType DEF UpdateTiming, TypeOK
    <3> DEFINE e == [run |-> top[j] + 1, series |-> series]
    <3>2. e \in EditType
      BY <3>1 DEF EditType
    <3>3. job'[k] \in {job[k], Retimed(job[k], top[j] + 1, series), [Touched(job[k]) EXCEPT !.edit = e]}
      BY <2>1 DEF UpdateTiming, TypeOK
    <3> HIDE DEF e
    <3>4. QED
      BY <1>0, <3>1, <3>2, <3>3, TouchedHushed
  <2>2. CASE UpdatePrompt(j)
    BY <1>0, <2>2, TouchedHushed DEF UpdatePrompt, TypeOK
  <2>3. CASE Cancel(j)
    <3>1. CASE j = k
      BY <1>0, <2>3, <3>1, CancelHushed DEF Cancel, TypeOK
    <3>2. CASE j # k
      BY <1>0, <2>3, <3>2 DEF Cancel, TypeOK
    <3>3. QED
      BY <3>1, <3>2
  <2>4. ASSUME NEW series \in BOOLEAN, RestoreJob(j, series) PROVE Hushed(job'[k])
    BY <1>0, <2>4 DEF RestoreJob, TypeOK
  <2>5. QED
    BY <1>1, <2>1, <2>2, <2>3, <2>4 DEF UserActs
<1>2. SUFFICES ASSUME ~\E j \in Jobs : UserActs(j)
               PROVE  Hushed(job'[k])
  BY <1>1
<1>3. asked' = asked
  BY <1>2 DEF Next, Fire, ClaimJob, FinishFire, TimePasses, BecomeDue, BecomeLate, FireLeaseLapses,
     SendLeaseLapses, Sending, ClaimDelivery, SkipDelivery, Answer, PlatformTakes, PlatformRefuses,
     Acknowledge, FinishDelivery, Pass, ReleaseFire, Serve, ServeSkip, ServeStart, ServeMissed,
     RecoverDeliveries, DueJobs, ServeEnd, DrainEnd, Start, Fails, PassFails, Crash, ExecDies, SendDies
<1>4. Hushed(job[k])
  BY <1>0, <1>3
<1>5. ASSUME NEW j \in Jobs, Fire(j) PROVE Hushed(job'[k])
  <2>1. CASE ClaimJob(j)
    <3>1. \/ job'[k] = job[k]
          \/ /\ job[k].status = "pending"
             /\ job'[k] = [job[k] EXCEPT !.status = "running", !.owner = "me"]
      BY <2>1 DEF ClaimJob, TypeOK
    <3>2. job[k].status = "pending" => Hushed([job[k] EXCEPT !.status = "running", !.owner = "me"])
      BY <1>0, <1>4 DEF Hushed, JobType, Terminal
    <3>3. QED
      BY <1>4, <3>1, <3>2
  <2>2. ASSUME NEW success \in BOOLEAN, NEW goesOn \in BOOLEAN, FinishFire(j, success, goesOn)
        PROVE  Hushed(job'[k])
    <3>1. CASE j # k
      BY <1>4, <2>2, <3>1 DEF FinishFire, TypeOK
    <3>2. CASE j = k
      <4>1. job[k].cancel
        BY <1>4, <2>2, <3>2 DEF FinishFire, Hushed, Terminal
      <4> DEFINE written == (success /\ ~job[k].cancel) /\ mail[<<k, job[k].run, "result">>].state = "none"
      <4>2. job'[k] = Fired(job[k], success, written, goesOn, top[k] + 1)
        BY <2>2, <3>2 DEF FinishFire, TypeOK
      <4>3. QED
        BY <1>0, <4>1, <4>2, FiredHushed
    <3>3. QED
      BY <3>1, <3>2
  <2>3. QED
    BY <1>5, <2>1, <2>2 DEF Fire
<1>6. CASE TimePasses
  <2>1. ASSUME NEW j \in Jobs, BecomeDue(j) \/ BecomeLate(j) \/ FireLeaseLapses(j) PROVE Hushed(job'[k])
    <3>1. \E row \in {job[k], [job[k] EXCEPT !.phase = "due"], [job[k] EXCEPT !.phase = "late"],
                      [job[k] EXCEPT !.owner = "lapsed"]} : job'[k] = row
      <4>1. job' \in {[job EXCEPT ![j].phase = "due"], [job EXCEPT ![j].phase = "late"],
                      [job EXCEPT ![j].owner = "lapsed"]}
        BY <2>1 DEF BecomeDue, BecomeLate, FireLeaseLapses
      <4>2. QED
        BY <4>1 DEF TypeOK
    <3>2. QED
      BY <1>0, <1>4, <3>1 DEF JobType, Hushed
  <2>2. QED
    BY <1>4, <1>6, <2>1 DEF TimePasses, SendLeaseLapses
<1>7. ASSUME NEW s \in Senders, Sending(s) PROVE Hushed(job'[k])
  <2>1. ASSUME NEW i, NEW st, job' = Ending(i, st) PROVE job'[k] = job[k]
    BY <1>4, <2>1 DEF Ending, TypeOK, Hushed, Terminal
  <2>2. ASSUME NEW terminal \in BOOLEAN, FinishDelivery(s, terminal) PROVE job'[k] = job[k]
    BY <2>1, <2>2 DEF FinishDelivery
  <2>3. QED
    BY <1>4, <1>7, <2>2 DEF Sending, ClaimDelivery, SkipDelivery, Answer, PlatformTakes, PlatformRefuses, Acknowledge
<1>8. CASE Pass
  <2>1. ASSUME NEW j \in Jobs, Serve(j) PROVE Hushed(job'[k])
    <3>1. CASE ServeSkip(j) \/ ServeStart(j)
      BY <1>4, <3>1 DEF ServeSkip, ServeStart
    <3>2. ASSUME NEW goesOn \in BOOLEAN, ServeMissed(j, goesOn) PROVE Hushed(job'[k])
      <4>1. job'[k] \in {job[k], [job[k] EXCEPT !.run = top[j] + 1, !.phase = "ahead"],
                         [job[k] EXCEPT !.status = "missed"]}
        BY <3>2 DEF ServeMissed, TypeOK
      <4>2. Hushed([job[k] EXCEPT !.run = top[j] + 1, !.phase = "ahead"])
        BY <1>0, <1>4 DEF Hushed, JobType
      <4>3. Hushed([job[k] EXCEPT !.status = "missed"])
        BY <1>0 DEF Hushed, JobType, Terminal
      <4>4. QED
        BY <1>4, <4>1, <4>2, <4>3
    <3>3. QED
      BY <2>1, <3>1, <3>2 DEF Serve
  <2>2. ASSUME NEW j \in Jobs, ReleaseFire(j) PROVE Hushed(job'[k])
    <3>1. j = k => job[k].status = "running"
      BY <2>2 DEF ReleaseFire, Orphaned
    <3>2. job'[k] = IF j = k THEN [job[k] EXCEPT !.status = "pending", !.owner = "none"] ELSE job[k]
      BY <2>2 DEF ReleaseFire, TypeOK
    <3>3. QED
      BY <1>0, <1>4, <3>1, <3>2 DEF Hushed, JobType, Terminal
  <2>3. CASE RecoverDeliveries
    BY <1>4, <2>3 DEF RecoverDeliveries, Recovered, Hushed, Terminal
  <2>4. QED
    BY <1>4, <1>8, <2>1, <2>2, <2>3 DEF Pass, DueJobs, ServeEnd, DrainEnd
<1>9. CASE Start
  BY <1>4, <1>9 DEF Start
<1>10. CASE Fails
  <2>1. CASE Crash
    BY <1>0, <1>4, <2>1 DEF Crash, JobType, Hushed
  <2>2. QED
    BY <1>4, <1>10, <2>1 DEF Fails, PassFails, ExecDies, SendDies
<1>11. QED
  BY <1>2, <1>5, <1>6, <1>7, <1>8, <1>9, <1>10 DEF Next

LEMMA AskedInvariant == Spec => []AskedInv
<1>1. Init => AskedInv
  BY DEF Init, AskedInv
<1>2. TypeOK /\ AskedInv /\ TypeOK' /\ [Next]_vars => AskedInv'
  <2>1. ASSUME TypeOK, TypeOK', AskedInv, Next PROVE AskedInv'
    BY <2>1, AskedStep DEF AskedInv, TypeOK
  <2>2. ASSUME AskedInv, UNCHANGED vars PROVE AskedInv'
    BY <2>2 DEF AskedInv, vars
  <2>3. QED
    BY <2>1, <2>2
<1>3. QED
  BY <1>1, <1>2, TypeCorrect, PTL DEF Spec

\* Only a fire that is not cancelled writes a result.
LEMMA SilentStep ==
  ASSUME TypeOK, Next, NEW k \in Jobs, Hushed(job[k]), NEW n \in Runs,
         mail[<<k, n, "result">>].state = "none", mail'[<<k, n, "result">>].state = "pending"
  PROVE  FALSE
<1> DEFINE r == <<k, n, "result">>
<1>0. r \in Messages
  BY Constants
<1>1. ASSUME NEW s \in Senders, NEW m \in Messages, Write(s, m), m # r PROVE FALSE
  BY <1>0, <1>1 DEF Write, TypeOK, MailType
<1>2. ASSUME NEW j \in Jobs, Fire(j) PROVE FALSE
  <2>1. CASE ClaimJob(j)
    BY <2>1 DEF ClaimJob
  <2>2. ASSUME NEW success \in BOOLEAN, NEW goesOn \in BOOLEAN, FinishFire(j, success, goesOn) PROVE FALSE
    <3> DEFINE m == <<j, job[j].run, "result">>
    <3>1. m \in Messages /\ j \in Senders
      BY Constants DEF TypeOK, JobType
    <3>2. ~job[j].cancel /\ Write(j, m)
      BY <2>2 DEF FinishFire
    <3>3. j = k
      BY <1>1, <3>1, <3>2
    <3>4. QED
      BY <2>2, <3>2, <3>3 DEF FinishFire, Hushed, Terminal
  <2>3. QED
    BY <1>2, <2>1, <2>2 DEF Fire
<1>3. ASSUME NEW j \in Jobs, UserActs(j) PROVE FALSE
  <2>1. CASE Cancel(j)
    BY <1>0, <2>1 DEF Cancel, CancelMail
  <2>2. QED
    BY <1>3, <2>1 DEF UserActs, UpdateTiming, RestoreJob, UpdatePrompt
<1>4. CASE TimePasses
  <2>1. ASSUME NEW m \in Messages, SendLeaseLapses(m) PROVE FALSE
    BY <1>0, <2>1 DEF SendLeaseLapses, TypeOK, MailType
  <2>2. QED
    BY <1>4, <2>1 DEF TimePasses, BecomeDue, BecomeLate, FireLeaseLapses
<1>5. ASSUME NEW s \in Senders, Sending(s) PROVE FALSE
  <2>1. ASSUME NEW m \in Messages, ClaimDelivery(s, m) PROVE FALSE
    BY <1>0, <2>1 DEF ClaimDelivery, TypeOK, MailType
  <2>2. ASSUME NEW terminal \in BOOLEAN, FinishDelivery(s, terminal) PROVE FALSE
    <3>1. CASE mail[send[s].row].state # "sending"
      BY <2>2, <3>1 DEF FinishDelivery
    <3>2. CASE mail[send[s].row].state = "sending"
      <4>1. \E st : mail' = [mail EXCEPT ![send[s].row].state = st, ![send[s].row].holder = "none"]
        BY <2>2, <3>2 DEF FinishDelivery
      <4>2. QED
        BY <1>0, <3>2, <4>1 DEF TypeOK
    <3>3. QED
      BY <3>1, <3>2
  <2>3. QED
    BY <1>5, <2>1, <2>2 DEF Sending, SkipDelivery, Answer, PlatformTakes, PlatformRefuses, Acknowledge
<1>6. CASE Pass
  <2>1. ASSUME NEW j \in Jobs, Serve(j) PROVE FALSE
    <3>1. ASSUME NEW goesOn \in BOOLEAN, ServeMissed(j, goesOn) PROVE FALSE
      <4> DEFINE m == <<j, job[j].run, "missed">>
      <4>1. m \in Messages /\ Poll \in Senders /\ m # r
        BY Constants DEF TypeOK, JobType
      <4>2. Write(Poll, m)
        BY <3>1 DEF ServeMissed
      <4>3. QED
        BY <1>1, <4>1, <4>2
    <3>2. QED
      BY <2>1, <3>1 DEF Serve, ServeSkip, ServeStart
  <2>2. CASE RecoverDeliveries
    BY <1>0, <2>2 DEF RecoverDeliveries, Recovered, Interrupted
  <2>3. QED
    BY <1>6, <2>1, <2>2 DEF Pass, ReleaseFire, DueJobs, ServeEnd, DrainEnd
<1>7. CASE Start
  BY <1>7 DEF Start
<1>8. CASE Fails
  <2>1. CASE Crash
    BY <1>0, <2>1 DEF Crash, TypeOK, MailType
  <2>2. QED
    BY <1>8, <2>1 DEF Fails, PassFails, ExecDies, SendDies
<1>9. QED
  BY <1>2, <1>3, <1>4, <1>5, <1>6, <1>7, <1>8 DEF Next

\* A cancelled job writes no result before it is restored, whatever crash,
\* recovery, edit or stale pass comes between the cancellation and the end of
\* the fire it was recorded in.
THEOREM Silence == Spec => CancelledIsSilent
<1>1. TypeOK /\ AskedInv /\ [Next]_vars =>
        \A j \in Jobs : \A n \in Runs :
          j \in asked => mail'[<<j, n, "result">>].state # "pending"
                         \/ mail[<<j, n, "result">>].state # "none"
  <2>1. ASSUME TypeOK, AskedInv, Next, NEW j \in Jobs, NEW n \in Runs, j \in asked
        PROVE  mail'[<<j, n, "result">>].state # "pending" \/ mail[<<j, n, "result">>].state # "none"
    BY <2>1, SilentStep DEF AskedInv
  <2>2. ASSUME UNCHANGED vars, NEW j \in Jobs, NEW n \in Runs
        PROVE  mail'[<<j, n, "result">>].state # "pending" \/ mail[<<j, n, "result">>].state # "none"
    BY <2>2 DEF vars
  <2>3. QED
    BY <2>1, <2>2
<1>2. QED
  BY <1>1, TypeCorrect, AskedInvariant, PTL DEF Spec, CancelledIsSilent

LEMMA TouchedStatus ==
  ASSUME NEW r \in JobType
  PROVE  /\ Touched(r).status = r.status
         /\ \A n \in Runs : \A series \in BOOLEAN : Retimed(r, n, series).status = r.status
         /\ \A e \in EditType : [Touched(r) EXCEPT !.edit = e].status = r.status
<1> DEFINE t == Touched(r)
<1>1. t \in JobType /\ t.status = r.status
  BY TouchedType DEF Touched, JobType
<1> HIDE DEF t
<1>2. ASSUME NEW n \in Runs, NEW series \in BOOLEAN
      PROVE  [t EXCEPT !.run = n, !.phase = "ahead", !.series = series].status = r.status
  BY <1>1 DEF JobType
<1>3. ASSUME NEW e \in EditType PROVE [t EXCEPT !.edit = e].status = r.status
  BY <1>1 DEF JobType
<1>4. QED
  BY <1>1, <1>2, <1>3 DEF Retimed, t

\* A fire leaves its job waiting only if it has written the message.
LEMMA FiredWaits ==
  ASSUME NEW r \in JobType, NEW success \in BOOLEAN, NEW written \in BOOLEAN, NEW goesOn \in BOOLEAN, NEW n,
         Fired(r, success, written, goesOn, n).status = "delivering"
  PROVE  written
<1> DEFINE ended == [r EXCEPT !.owner = "none", !.edit = NoEdit, !.cancel = FALSE,
                              !.failures = IF success THEN 0 ELSE @ + 1]
           next == [ended EXCEPT !.status = "pending", !.phase = "ahead"]
<1>1. ended \in JobType
  <2>1. NoEdit \in EditType
    BY Constants
  <2>2. (IF success THEN 0 ELSE r.failures + 1) \in Nat
    BY DEF JobType
  <2>3. QED
    BY <2>1, <2>2 DEF JobType
<1>2. next \in JobType /\ next.status = "pending"
  BY <1>1, ZenonT(60) DEF JobType, Statuses
<1>3. \A st : [ended EXCEPT !.status = st].status = st
  BY <1>1 DEF JobType
<1>4. \A i, b : [next EXCEPT !.run = i, !.series = b].status = "pending" /\ [next EXCEPT !.run = i].status = "pending"
  BY <1>2 DEF JobType
<1> HIDE DEF ended, next
<1>5. Fired(r, success, written, goesOn, n) =
        IF r.cancel THEN [ended EXCEPT !.status = "cancelled"]
        ELSE IF r.edit.run # 0 THEN [next EXCEPT !.run = r.edit.run, !.series = r.edit.series]
        ELSE IF r.series
             THEN IF ended.failures >= FailureBudget THEN [ended EXCEPT !.status = "failed"]
                  ELSE IF goesOn THEN [next EXCEPT !.run = n]
                  ELSE [ended EXCEPT !.status = "done"]
        ELSE IF ~success THEN [ended EXCEPT !.status = "failed"]
        ELSE [ended EXCEPT !.status = IF written THEN "delivering" ELSE "done"]
  BY DEF Fired, ended, next
<1>6. QED
  BY <1>3, <1>4, <1>5

LEMMA EndingStatus ==
  ASSUME TypeOK, NEW k \in Jobs, NEW i, NEW st, st # "delivering", Ending(i, st)[k].status = "delivering"
  PROVE  job[k].status = "delivering"
BY DEF Ending, TypeOK, JobType

\* What can end an open message ends the job that waits for it, and a job
\* comes to wait only for a message just written.
LEMMA WaitsStep ==
  ASSUME TypeOK, OutboxInv, DeliveringIsOpen, Next, NEW k \in Jobs, job'[k].status = "delivering"
  PROVE  \E n \in Runs : Open(<<k, n, "result">>)'
<1>0. job[k] \in JobType /\ \A n \in Runs : <<k, n, "result">> \in Messages
  BY Constants DEF TypeOK
<1>1. ASSUME job[k].status = "delivering",
             \A n \in Runs : Open(<<k, n, "result">>) => Open(<<k, n, "result">>)'
      PROVE  \E n \in Runs : Open(<<k, n, "result">>)'
  BY <1>1 DEF DeliveringIsOpen
<1>2. ASSUME job[k].status = "delivering", mail' = mail PROVE \E n \in Runs : Open(<<k, n, "result">>)'
  BY <1>1, <1>2 DEF Open
<1>3. ASSUME NEW j \in Jobs, Fire(j) PROVE \E n \in Runs : Open(<<k, n, "result">>)'
  <2>1. CASE ClaimJob(j)
    <3>1. \/ job' = job
          \/ job'[j].status = "running" /\ \A x \in Jobs \ {j} : job'[x] = job[x]
      <4>1. [job[j] EXCEPT !.status = "running", !.owner = "me"].status = "running"
        BY DEF TypeOK, JobType
      <4>2. QED
        BY <2>1, <4>1 DEF ClaimJob, TypeOK
    <3>2. job[k].status = "delivering"
      BY <1>0, <3>1
    <3>3. QED
      BY <1>2, <2>1, <3>2 DEF ClaimJob
  <2>2. ASSUME NEW success \in BOOLEAN, NEW goesOn \in BOOLEAN, FinishFire(j, success, goesOn)
        PROVE  \E n \in Runs : Open(<<k, n, "result">>)'
    <3> DEFINE m == <<j, job[j].run, "result">>
               written == (success /\ ~job[j].cancel) /\ mail[m].state = "none"
    <3>1. m \in Messages /\ job[j] \in JobType
      BY Constants DEF TypeOK, JobType
    <3>2. \A x \in Messages : Open(x) => Open(x)'
      BY <2>2, <3>1 DEF FinishFire, Write, Open, TypeOK, MailType
    <3>3. CASE j # k
      BY <1>0, <1>1, <2>2, <3>2, <3>3 DEF FinishFire, TypeOK
    <3>4. CASE j = k
      <4>1. job'[k] = Fired(job[k], success, written, goesOn, top[k] + 1)
        BY <2>2, <3>4 DEF FinishFire, TypeOK
      <4>2. written
        BY <3>1, <3>4, <4>1, FiredWaits
      <4>3. mail' = [mail EXCEPT ![m].state = "pending"]
        BY <2>2, <4>2 DEF FinishFire, Write
      <4>4. mail'[m].state = "pending"
        <5>1. mail[m] \in MailType
          BY <3>1 DEF TypeOK
        <5>2. mail'[m] = [mail[m] EXCEPT !.state = "pending"]
          BY <3>1, <4>3 DEF TypeOK
        <5>3. QED
          BY <5>1, <5>2 DEF MailType
      <4>5. job[k].run \in Runs /\ m = <<k, job[k].run, "result">>
        BY <1>0, <3>4 DEF JobType
      <4>6. QED
        BY <4>4, <4>5 DEF Open
    <3>5. QED
      BY <3>3, <3>4
  <2>3. QED
    BY <1>3, <2>1, <2>2 DEF Fire
<1>4. ASSUME NEW j \in Jobs, UserActs(j) PROVE \E n \in Runs : Open(<<k, n, "result">>)'
  <2>1. CASE Cancel(j)
    <3>1. j # k /\ job[k].status = "delivering"
      BY <1>0, <2>1, CancelHushed DEF Cancel, TypeOK, Hushed, Terminal
    <3>2. \A n \in Runs : mail'[<<k, n, "result">>] = mail[<<k, n, "result">>]
      BY <1>0, <2>1, <3>1 DEF Cancel, CancelMail
    <3>3. QED
      BY <1>1, <3>1, <3>2 DEF Open
  <2>2. CASE ~Cancel(j)
    <3>1. mail' = mail /\ job[j].status # "delivering" /\ job' = [job EXCEPT ![j] = job'[j]]
      BY <1>4, <2>2 DEF UserActs, UpdateTiming, UpdatePrompt, RestoreJob, Terminal, TypeOK
    <3>2. job'[j].status # "delivering"
      <4>1. job[j] \in JobType
        BY DEF TypeOK
      <4>2. ASSUME NEW series \in BOOLEAN, UpdateTiming(j, series) PROVE job'[j].status = job[j].status
        <5>1. top[j] + 1 \in Runs
          BY <4>2, FreshType DEF UpdateTiming, TypeOK
        <5>2. QED
          BY <4>1, <4>2, <5>1, TouchedStatus DEF UpdateTiming, TypeOK, EditType
      <4>3. ASSUME UpdatePrompt(j) PROVE job'[j].status = job[j].status
        BY <4>1, <4>3, TouchedStatus DEF UpdatePrompt, TypeOK
      <4>4. ASSUME NEW series \in BOOLEAN, RestoreJob(j, series) PROVE job'[j].status # "delivering"
        BY <4>4, FinishedStep, <1>4 DEF RestoreJob, Next, Terminal
      <4>5. QED
        BY <1>4, <2>2, <3>1, <4>2, <4>3, <4>4 DEF UserActs
    <3>3. QED
      BY <1>2, <3>1, <3>2 DEF TypeOK
  <2>3. QED
    BY <2>1, <2>2
<1>5. CASE TimePasses
  <2>1. job'[k].status = job[k].status
    <3>1. ASSUME NEW j \in Jobs, BecomeDue(j) \/ BecomeLate(j) \/ FireLeaseLapses(j)
          PROVE  job'[k].status = job[k].status
      <4>1. job' \in {[job EXCEPT ![j].phase = "due"], [job EXCEPT ![j].phase = "late"],
                      [job EXCEPT ![j].owner = "lapsed"]}
        BY <3>1 DEF BecomeDue, BecomeLate, FireLeaseLapses
      <4>2. QED
        BY <1>0, <4>1 DEF TypeOK, JobType
    <3>2. QED
      BY <1>5, <3>1 DEF TimePasses, SendLeaseLapses
  <2>2. \A x \in Messages : Open(x) => Open(x)'
    BY <1>5, SMTT(30) DEF TimePasses, BecomeDue, BecomeLate, FireLeaseLapses, SendLeaseLapses, Open, TypeOK, MailType
  <2>3. QED
    BY <1>0, <1>1, <2>1, <2>2
<1>6. ASSUME NEW s \in Senders, Sending(s) PROVE \E n \in Runs : Open(<<k, n, "result">>)'
  <2>1. ASSUME NEW m \in Messages, ClaimDelivery(s, m) PROVE \E n \in Runs : Open(<<k, n, "result">>)'
    <3>1. \A x \in Messages : Open(x) => Open(x)'
      BY <2>1 DEF ClaimDelivery, Open, TypeOK, MailType
    <3>2. QED
      BY <1>0, <1>1, <2>1, <3>1 DEF ClaimDelivery
  <2>2. CASE SkipDelivery(s) \/ Answer(s)
    BY <1>2, <2>2 DEF SkipDelivery, Answer, PlatformTakes, PlatformRefuses
  <2>3. ASSUME NEW terminal \in BOOLEAN, FinishDelivery(s, terminal)
        PROVE  \E n \in Runs : Open(<<k, n, "result">>)'
    <3>1. PICK m \in Messages : m = send[s].row /\ mail[m].state = "sending"
      BY <2>3 DEF FinishDelivery, Live, OutboxInv, LiveSendKept
    <3>2. job[k].status = "delivering"
      BY <1>0, <2>3, EndingStatus DEF FinishDelivery
    <3>3. \A x \in Messages : x # m => mail'[x] = mail[x]
      BY <2>3, <3>1 DEF FinishDelivery, TypeOK
    <3>4. CASE Open(m)'
      <4>1. ASSUME NEW n \in Runs, Open(<<k, n, "result">>) PROVE Open(<<k, n, "result">>)'
        <5>1. CASE <<k, n, "result">> = m
          BY <3>4, <5>1 DEF Open
        <5>2. CASE <<k, n, "result">> # m
          BY <1>0, <3>3, <4>1, <5>2 DEF Open
        <5>3. QED
          BY <5>1, <5>2
      <4>2. QED
        BY <1>1, <3>2, <4>1
    <3>5. CASE ~Open(m)'
      <4>1. \/ job' = IF m[3] = "result" THEN Ending(m[1], "done") ELSE job
            \/ job' = Ending(m[1], "undeliverable")
        <5>0. IF send[s].at = "accepted"
              THEN job' = IF m[3] = "result" THEN Ending(m[1], "done") ELSE job
              ELSE job' = IF terminal THEN Ending(m[1], "undeliverable") ELSE job
          BY <2>3, <3>1, Zenon DEF FinishDelivery
        <5>1. CASE send[s].at = "accepted"
          BY <5>0, <5>1
        <5>2. CASE send[s].at # "accepted" /\ terminal
          BY <5>0, <5>2
        <5>3. CASE send[s].at # "accepted" /\ ~terminal
          <6>1. mail' = [mail EXCEPT ![m].state = "pending", ![m].holder = "none"]
            BY <2>3, <3>1, <5>3 DEF FinishDelivery
          <6>2. QED
            BY <3>1, <3>5, <6>1 DEF Open, TypeOK, MailType
        <5>4. QED
          BY <5>1, <5>2, <5>3
      <4>2. \A n \in Runs : <<k, n, "result">> # m
        <5>1. ASSUME NEW n \in Runs, <<k, n, "result">> = m PROVE FALSE
          <6>1. m[1] = k /\ m[3] = "result"
            BY <5>1
          <6>2. job' = Ending(k, "done") \/ job' = Ending(k, "undeliverable")
            BY <4>1, <6>1
          <6>3. Ending(k, "done")[k].status = "done" /\ Ending(k, "undeliverable")[k].status = "undeliverable"
            BY <1>0, <3>2 DEF Ending, TypeOK, JobType
          <6>4. QED
            BY <6>2, <6>3
        <5>2. QED
          BY <5>1
      <4>3. \A n \in Runs : Open(<<k, n, "result">>) => Open(<<k, n, "result">>)'
        BY <1>0, <3>3, <4>2 DEF Open
      <4>4. QED
        BY <1>1, <3>2, <4>3
    <3>6. QED
      BY <3>4, <3>5
  <2>4. QED
    BY <1>6, <2>1, <2>2, <2>3 DEF Sending, Acknowledge
<1>7. CASE Pass
  <2>1. ASSUME NEW j \in Jobs, Serve(j) PROVE \E n \in Runs : Open(<<k, n, "result">>)'
    <3>1. CASE ServeSkip(j) \/ ServeStart(j)
      BY <1>2, <3>1 DEF ServeSkip, ServeStart
    <3>2. ASSUME NEW goesOn \in BOOLEAN, ServeMissed(j, goesOn) PROVE \E n \in Runs : Open(<<k, n, "result">>)'
      <4> DEFINE m == <<j, job[j].run, "missed">>
      <4>1. m \in Messages
        BY Constants DEF TypeOK, JobType
      <4>2. \A x \in Messages : Open(x) => Open(x)'
        BY <3>2, <4>1 DEF ServeMissed, Write, Open, TypeOK, MailType
      <4>3. job'[k] \in {job[k], [job[k] EXCEPT !.run = top[j] + 1, !.phase = "ahead"],
                         [job[k] EXCEPT !.status = "missed"]}
        BY <3>2 DEF ServeMissed, TypeOK
      <4>4. job[k].status = "delivering"
        BY <1>0, <4>3 DEF JobType
      <4>5. QED
        BY <1>0, <1>1, <4>2, <4>4
    <3>3. QED
      BY <2>1, <3>1, <3>2 DEF Serve
  <2>2. ASSUME NEW j \in Jobs, ReleaseFire(j) PROVE \E n \in Runs : Open(<<k, n, "result">>)'
    <3>1. job'[k] = IF j = k THEN [job[k] EXCEPT !.status = "pending", !.owner = "none"] ELSE job[k]
      BY <2>2 DEF ReleaseFire, TypeOK
    <3>2. job[k].status = "delivering"
      BY <1>0, <3>1 DEF JobType
    <3>3. QED
      BY <1>2, <2>2, <3>2 DEF ReleaseFire
  <2>3. CASE RecoverDeliveries
    <3>1. job'[k] = IF job[k].status = "delivering" /\ \E m \in Interrupted : m[1] = k
                    THEN [job[k] EXCEPT !.status = "delivery_unknown"] ELSE job[k]
      BY <2>3 DEF RecoverDeliveries, Recovered
    <3>2. job[k].status = "delivering" /\ \A n \in Runs : <<k, n, "result">> \notin Interrupted
      BY <1>0, <3>1 DEF JobType
    <3>3. \A x \in Messages : x \notin Interrupted => mail'[x] = mail[x]
      BY <2>3 DEF RecoverDeliveries, Recovered
    <3>4. \A n \in Runs : Open(<<k, n, "result">>) => Open(<<k, n, "result">>)'
      BY <1>0, <3>2, <3>3 DEF Open
    <3>5. QED
      BY <1>1, <3>2, <3>4
  <2>4. QED
    BY <1>2, <1>7, <2>1, <2>2, <2>3 DEF Pass, DueJobs, ServeEnd, DrainEnd
<1>8. CASE Start
  BY <1>2, <1>8 DEF Start
<1>9. CASE Fails
  <2>1. CASE Crash
    <3>1. job'[k].status = job[k].status
      BY <1>0, <2>1 DEF Crash, JobType
    <3>2. \A x \in Messages : Open(x) => Open(x)'
      BY <2>1 DEF Crash, Open, TypeOK, MailType
    <3>3. QED
      BY <1>0, <1>1, <3>1, <3>2
  <2>2. QED
    BY <1>2, <1>9, <2>1 DEF Fails, PassFails, ExecDies, SendDies
<1>10. QED
  BY <1>3, <1>4, <1>5, <1>6, <1>7, <1>8, <1>9 DEF Next

\* A job never waits for a message that nothing will settle any more.
THEOREM NothingWaitsForNothing == Spec => []DeliveringIsOpen
<1>1. Init => DeliveringIsOpen
  BY DEF Init, DeliveringIsOpen
<1>2. IInv /\ DeliveringIsOpen /\ [Next]_vars => DeliveringIsOpen'
  <2>1. ASSUME IInv, DeliveringIsOpen, Next PROVE DeliveringIsOpen'
    BY <2>1, WaitsStep DEF IInv, DeliveringIsOpen
  <2>2. ASSUME DeliveringIsOpen, UNCHANGED vars PROVE DeliveringIsOpen'
    BY <2>2 DEF DeliveringIsOpen, Open, vars
  <2>3. QED
    BY <2>1, <2>2
<1>3. QED
  BY <1>1, <1>2, Invariant, PTL DEF Spec

----------------------------------------------------------------------------
(* A fire in progress.                                                     *)

\* A fire that a task is producing holds its job: the row is running, owned by
\* this scheduler.  So finish_fire's own check of the two never refuses it.
FireKept == \A j \in Jobs : task[j].at = "firing" => job[j].status = "running" /\ job[j].owner = "me"

LEMMA TouchedKeeps ==
  ASSUME NEW r \in JobType, NEW e
  PROVE  /\ Touched(r).status = r.status /\ Touched(r).owner = r.owner
         /\ [Touched(r) EXCEPT !.edit = e].status = r.status
         /\ [Touched(r) EXCEPT !.edit = e].owner = r.owner
         /\ [Touched(r) EXCEPT !.cancel = TRUE].status = r.status
         /\ [Touched(r) EXCEPT !.cancel = TRUE].owner = r.owner
BY DEF Touched, JobType

LEMMA KeptStep ==
  ASSUME TypeOK, FireKept, Next, NEW k \in Jobs, task'[k].at = "firing"
  PROVE  job'[k].status = "running" /\ job'[k].owner = "me"
<1> DEFINE Kept == job'[k].status = "running" /\ job'[k].owner = "me"
<1>0. job[k] \in JobType
  BY DEF TypeOK
<1>1. ASSUME task[k] = task'[k], job'[k].status = job[k].status, job'[k].owner = job[k].owner PROVE Kept
  BY <1>1 DEF FireKept
<1>2. ASSUME task[k] = task'[k], job[k].status # "running" PROVE FALSE
  BY <1>2 DEF FireKept
<1>3. ASSUME NEW j \in Jobs, UserActs(j) PROVE Kept
  <2>1. task' = task
    BY <1>3 DEF UserActs, UpdateTiming, RestoreJob, UpdatePrompt, Cancel
  <2>2. CASE j # k
    <3>1. job'[k] = job[k]
      BY <1>3, <2>2 DEF UserActs, UpdateTiming, RestoreJob, UpdatePrompt, Cancel, TypeOK
    <3>2. QED
      BY <1>1, <2>1, <3>1
  <2>3. CASE j = k
    <3>1. job[k].status = "running"
      BY <1>2, <2>1
    <3>2. ASSUME NEW series \in BOOLEAN, UpdateTiming(k, series) PROVE Kept
      <4>1. job'[k] = [Touched(job[k]) EXCEPT !.edit = [run |-> top[k] + 1, series |-> series]]
        BY <3>1, <3>2 DEF UpdateTiming, TypeOK
      <4>2. job'[k].status = job[k].status /\ job'[k].owner = job[k].owner
        BY <1>0, <4>1, TouchedKeeps
      <4>3. QED
        BY <1>1, <2>1, <4>2
    <3>3. ASSUME NEW series \in BOOLEAN, RestoreJob(k, series) PROVE Kept
      BY <3>1, <3>3 DEF RestoreJob, Terminal
    <3>4. CASE UpdatePrompt(k)
      <4>1. job'[k] = Touched(job[k])
        BY <3>4 DEF UpdatePrompt, TypeOK
      <4>2. QED
        BY <1>0, <1>1, <2>1, <4>1, TouchedKeeps
    <3>5. CASE Cancel(k)
      <4>1. job'[k] = [Touched(job[k]) EXCEPT !.cancel = TRUE]
        BY <3>1, <3>5 DEF Cancel, TypeOK
      <4>2. QED
        BY <1>0, <1>1, <2>1, <4>1, TouchedKeeps
    <3>6. QED
      BY <1>3, <2>3, <3>2, <3>3, <3>4, <3>5 DEF UserActs
  <2>4. QED
    BY <2>2, <2>3
<1>4. ASSUME NEW j \in Jobs, Fire(j) PROVE Kept
  <2>1. CASE j # k
    <3>1. job'[k] = job[k] /\ task'[k] = task[k]
      BY <1>4, <2>1 DEF Fire, ClaimJob, FinishFire, TypeOK
    <3>2. QED
      BY <1>1, <3>1
  <2>2. CASE j = k /\ ClaimJob(k)
    <3>1. job[k].status = "pending" /\ job[k].version = task[k].version
      BY <2>2 DEF ClaimJob, NoTask, TypeOK
    <3>2. job' = [job EXCEPT ![k].status = "running", ![k].owner = "me"]
      BY <2>2, <3>1 DEF ClaimJob
    <3>3. QED
      BY <1>0, <3>2 DEF TypeOK, JobType
  <2>3. ASSUME NEW success \in BOOLEAN, NEW goesOn \in BOOLEAN, FinishFire(k, success, goesOn) PROVE FALSE
    BY <2>3 DEF FinishFire, NoTask, TypeOK
  <2>4. QED
    BY <1>4, <2>1, <2>2, <2>3 DEF Fire
<1>5. CASE TimePasses
  <2>1. task' = task
    BY <1>5 DEF TimePasses, BecomeDue, BecomeLate, FireLeaseLapses, SendLeaseLapses
  <2>2. ASSUME NEW j \in Jobs, BecomeDue(j) \/ BecomeLate(j) PROVE Kept
    <3>1. job'[k].status = job[k].status /\ job'[k].owner = job[k].owner
      BY <1>0, <2>2 DEF BecomeDue, BecomeLate, TypeOK, JobType
    <3>2. QED
      BY <1>1, <2>1, <3>1
  <2>3. ASSUME NEW j \in Jobs, FireLeaseLapses(j) PROVE Kept
    <3>1. j # k
      BY <2>1, <2>3 DEF FireLeaseLapses, FireKept
    <3>2. job'[k] = job[k]
      BY <2>3, <3>1 DEF FireLeaseLapses, TypeOK
    <3>3. QED
      BY <1>1, <2>1, <3>2
  <2>4. ASSUME NEW m \in Messages, SendLeaseLapses(m) PROVE Kept
    BY <1>1, <2>1, <2>4 DEF SendLeaseLapses
  <2>5. QED
    BY <1>5, <2>2, <2>3, <2>4 DEF TimePasses
<1>6. ASSUME NEW s \in Senders, Sending(s) PROVE Kept
  <2>1. task' = task
    BY <1>6 DEF Sending, ClaimDelivery, SkipDelivery, Answer, PlatformTakes, PlatformRefuses, Acknowledge,
                FinishDelivery
  <2>2. CASE job' = job
    BY <1>1, <2>1, <2>2
  <2>3. ASSUME NEW terminal \in BOOLEAN, FinishDelivery(s, terminal), job' # job PROVE Kept
    <3>1. \E st : job' = Ending(send[s].row[1], st)
      BY <2>3 DEF FinishDelivery
    <3>2. job[k].status = "running"
      BY <1>2, <2>1
    <3>3. job'[k] = job[k]
      BY <3>1, <3>2 DEF Ending, TypeOK
    <3>4. QED
      BY <1>1, <2>1, <3>3
  <2>4. QED
    BY <1>6, <2>2, <2>3 DEF Sending, ClaimDelivery, SkipDelivery, Answer, PlatformTakes, PlatformRefuses,
                            Acknowledge
<1>7. CASE Pass
  <2>1. ASSUME NEW j \in Jobs, ReleaseFire(j) PROVE Kept
    <3>1. task' = task /\ Orphaned(j)
      BY <2>1 DEF ReleaseFire
    <3>2. j # k
      BY <3>1 DEF Orphaned, FireKept, InFlight
    <3>3. job'[k] = job[k]
      BY <2>1, <3>2 DEF ReleaseFire, TypeOK
    <3>4. QED
      BY <1>1, <3>1, <3>3
  <2>2. ASSUME NEW j \in Jobs, Serve(j) PROVE Kept
    <3>1. CASE ServeSkip(j)
      BY <1>1, <3>1 DEF ServeSkip
    <3>2. CASE ServeStart(j)
      <4>1. j # k
        BY <3>2 DEF ServeStart, TypeOK
      <4>2. QED
        BY <1>1, <3>2, <4>1 DEF ServeStart, TypeOK
    <3>3. ASSUME NEW goesOn \in BOOLEAN, ServeMissed(j, goesOn) PROVE Kept
      <4>1. task' = task
        BY <3>3 DEF ServeMissed
      <4>2. job[k].status = "running"
        BY <1>2, <4>1
      <4>3. job'[k] = job[k]
        BY <3>3, <4>2 DEF ServeMissed, TypeOK
      <4>4. QED
        BY <1>1, <4>1, <4>3
    <3>4. QED
      BY <2>2, <3>1, <3>2, <3>3 DEF Serve
  <2>3. CASE RecoverDeliveries
    <3>1. task' = task
      BY <2>3 DEF RecoverDeliveries
    <3>2. job[k].status = "running"
      BY <1>2, <3>1
    <3>3. job'[k] = job[k]
      BY <2>3, <3>2 DEF RecoverDeliveries, Recovered
    <3>4. QED
      BY <1>1, <3>1, <3>3
  <2>4. CASE DueJobs \/ ServeEnd \/ DrainEnd
    BY <1>1, <2>4 DEF DueJobs, ServeEnd, DrainEnd
  <2>5. QED
    BY <1>7, <2>1, <2>2, <2>3, <2>4 DEF Pass
<1>8. CASE Start
  BY <1>1, <1>8 DEF Start
<1>9. CASE Fails
  <2>1. CASE Crash
    BY <2>1 DEF Crash, NoTask
  <2>2. ASSUME NEW j \in Jobs, ExecDies(j) PROVE Kept
    <3>1. job' = job /\ task' = [task EXCEPT ![j] = NoTask]
      BY <2>2 DEF ExecDies
    <3>2. j # k
      BY <3>1 DEF NoTask, TypeOK
    <3>3. QED
      BY <1>1, <3>1, <3>2 DEF TypeOK
  <2>3. QED
    BY <1>1, <1>9, <2>1, <2>2 DEF Fails, PassFails, SendDies
<1>10. QED
  BY <1>3, <1>4, <1>5, <1>6, <1>7, <1>8, <1>9 DEF Next

\* No recovery, edit, cancellation or lapsed lease takes a job from the task
\* that is firing it: a live fire is never released, so its occurrence is not
\* fired a second time beside it, and what it produced is recorded.
THEOREM LiveFires == Spec => []FireKept
<1>1. Init => FireKept
  BY DEF Init, FireKept, NoTask
<1>2. TypeOK /\ FireKept /\ [Next]_vars => FireKept'
  <2>1. ASSUME TypeOK, FireKept, Next PROVE FireKept'
    BY <2>1, KeptStep DEF FireKept
  <2>2. ASSUME FireKept, UNCHANGED vars PROVE FireKept'
    BY <2>2 DEF FireKept, vars
  <2>3. QED
    BY <2>1, <2>2
<1>3. QED
  BY <1>1, <1>2, TypeCorrect, PTL DEF Spec

----------------------------------------------------------------------------
(* What a cancellation stops.                                              *)

\* No job is cancelled while a send of its message is in progress.
Unsent(j) == \A m \in OpenOf(j) : mail[m].state = "pending"

PromptNext == Next /\ \A j \in Jobs : Cancel(j) /\ job[j].status = "delivering" => Unsent(j)

PromptSpec == Init /\ [][PromptNext]_vars

Stopped == \A m \in stopped : mail[m].state = "cancelled"

\* Nothing takes up a cancelled row again.
LEMMA CancelledStays ==
  ASSUME TypeOK, Next, NEW m \in Messages, mail[m].state = "cancelled"
  PROVE  mail'[m].state = "cancelled"
<1>1. ASSUME NEW s \in Senders, NEW n \in Messages, Write(s, n) PROVE mail'[m].state = "cancelled"
  BY <1>1 DEF Write, TypeOK, MailType
<1>2. ASSUME NEW j \in Jobs, Fire(j) PROVE mail'[m].state = "cancelled"
  <2>1. CASE ClaimJob(j)
    BY <2>1 DEF ClaimJob
  <2>2. ASSUME NEW success \in BOOLEAN, NEW goesOn \in BOOLEAN, FinishFire(j, success, goesOn)
        PROVE  mail'[m].state = "cancelled"
    <3>1. <<j, job[j].run, "result">> \in Messages /\ j \in Senders
      BY Constants DEF TypeOK, JobType
    <3>2. QED
      BY <1>1, <2>2, <3>1 DEF FinishFire
  <2>3. QED
    BY <1>2, <2>1, <2>2 DEF Fire
<1>3. ASSUME NEW j \in Jobs, UserActs(j) PROVE mail'[m].state = "cancelled"
  BY <1>3 DEF UserActs, UpdateTiming, RestoreJob, UpdatePrompt, Cancel, CancelMail
<1>4. CASE TimePasses
  BY <1>4 DEF TimePasses, BecomeDue, BecomeLate, FireLeaseLapses, SendLeaseLapses, TypeOK, MailType
<1>5. ASSUME NEW s \in Senders, Sending(s) PROVE mail'[m].state = "cancelled"
  <2>1. ASSUME NEW n \in Messages, ClaimDelivery(s, n) PROVE mail'[m].state = "cancelled"
    BY <2>1 DEF ClaimDelivery, TypeOK
  <2>2. ASSUME NEW terminal \in BOOLEAN, FinishDelivery(s, terminal) PROVE mail'[m].state = "cancelled"
    <3>1. CASE mail[send[s].row].state # "sending"
      BY <2>2, <3>1 DEF FinishDelivery
    <3>2. CASE mail[send[s].row].state = "sending"
      <4>1. \E st : mail' = [mail EXCEPT ![send[s].row].state = st, ![send[s].row].holder = "none"]
        BY <2>2, <3>2 DEF FinishDelivery
      <4>2. QED
        BY <3>2, <4>1 DEF TypeOK
    <3>3. QED
      BY <3>1, <3>2
  <2>3. QED
    BY <1>5, <2>1, <2>2 DEF Sending, SkipDelivery, Answer, PlatformTakes, PlatformRefuses, Acknowledge
<1>6. CASE Pass
  <2>1. ASSUME NEW j \in Jobs, Serve(j) PROVE mail'[m].state = "cancelled"
    <3>1. ASSUME NEW goesOn \in BOOLEAN, ServeMissed(j, goesOn) PROVE mail'[m].state = "cancelled"
      <4>1. <<j, job[j].run, "missed">> \in Messages /\ Poll \in Senders
        BY Constants DEF TypeOK, JobType
      <4>2. QED
        BY <1>1, <3>1, <4>1 DEF ServeMissed
    <3>2. QED
      BY <2>1, <3>1 DEF Serve, ServeSkip, ServeStart
  <2>2. CASE RecoverDeliveries
    BY <2>2 DEF RecoverDeliveries, Recovered, Interrupted
  <2>3. QED
    BY <1>6, <2>1, <2>2 DEF Pass, ReleaseFire, DueJobs, ServeEnd, DrainEnd
<1>7. CASE Start
  BY <1>7 DEF Start
<1>8. CASE Fails
  <2>1. CASE Crash
    BY <2>1 DEF Crash, TypeOK, MailType
  <2>2. QED
    BY <1>8, <2>1 DEF Fails, PassFails, ExecDies, SendDies
<1>9. QED
  BY <1>2, <1>3, <1>4, <1>5, <1>6, <1>7, <1>8 DEF Next

LEMMA StoppedGrows ==
  ASSUME TypeOK, PromptNext, NEW m \in stopped', m \notin stopped
  PROVE  m \in Messages /\ mail'[m].state = "cancelled"
<1>1. PICK j \in Jobs : Cancel(j)
  <2>1. ASSUME NEW j \in Jobs, Fire(j) PROVE stopped' = stopped
    BY <2>1 DEF Fire, ClaimJob, FinishFire
  <2>2. ASSUME NEW j \in Jobs, UserActs(j), ~Cancel(j) PROVE stopped' = stopped
    BY <2>2 DEF UserActs, UpdateTiming, RestoreJob, UpdatePrompt
  <2>3. CASE TimePasses
    BY <2>3 DEF TimePasses, BecomeDue, BecomeLate, FireLeaseLapses, SendLeaseLapses
  <2>4. ASSUME NEW s \in Senders, Sending(s) PROVE stopped' = stopped
    BY <2>4 DEF Sending, ClaimDelivery, SkipDelivery, Answer, PlatformTakes, PlatformRefuses, Acknowledge,
                FinishDelivery
  <2>5. CASE Pass \/ Start
    BY <2>5 DEF Pass, ReleaseFire, Serve, ServeSkip, ServeStart, ServeMissed, RecoverDeliveries, DueJobs,
                ServeEnd, DrainEnd, Start
  <2>6. CASE Fails
    BY <2>6 DEF Fails, PassFails, Crash, ExecDies, SendDies
  <2>7. QED
    BY <2>1, <2>2, <2>3, <2>4, <2>5, <2>6 DEF PromptNext, Next
<1>2. job[j].status = "delivering" /\ m \in OpenOf(j)
  BY <1>1 DEF Cancel
<1>3. mail[m].state = "pending" /\ m \in Messages /\ m[1] = j
  BY <1>1, <1>2 DEF PromptNext, Unsent, OpenOf
<1>4. CancelMail(j)
  BY <1>1, <1>2 DEF Cancel
<1>5. QED
  BY <1>3, <1>4 DEF CancelMail, TypeOK, MailType

\* Cancelling a job stops its message for good -- over retries, recovery, a
\* drain already under way and crashes -- unless a send of it was in progress
\* when the cancellation came: the run CronFiresCancel fails for no other
\* reason.
THEOREM PromptCancel == PromptSpec => []Stopped /\ CancelStopsMessage
<1>1. PromptSpec => []TypeOK
  <2>1. Init => IInv
    <3>1. Init => FiresFirst
      BY DEF Init, FiresFirst, NoTask
    <3>2. QED
      BY <3>1, TypeInit, InvInit DEF IInv
  <2>2. IInv /\ [PromptNext]_vars => IInv'
    BY InvStep DEF PromptNext
  <2>3. IInv => TypeOK
    BY DEF IInv
  <2>4. QED
    BY <2>1, <2>2, <2>3, PTL DEF PromptSpec
<1>2. Init => Stopped
  BY DEF Init, Stopped
<1>3. TypeOK /\ Stopped /\ [PromptNext]_vars => Stopped'
  <2>1. ASSUME TypeOK, Stopped, PromptNext, NEW m \in stopped' PROVE mail'[m].state = "cancelled"
    <3>1. CASE m \in stopped
      BY <2>1, <3>1, CancelledStays DEF PromptNext, Stopped, TypeOK
    <3>2. CASE m \notin stopped
      BY <2>1, <3>2, StoppedGrows
    <3>3. QED
      BY <3>1, <3>2
  <2>2. ASSUME Stopped, UNCHANGED vars PROVE Stopped'
    BY <2>2 DEF Stopped, vars
  <2>3. QED
    BY <2>1, <2>2 DEF Stopped
<1>4. PromptSpec => []Stopped
  BY <1>1, <1>2, <1>3, PTL DEF PromptSpec
<1>5. Stopped => \A m \in stopped : mail[m].state = "pending" => mail'[m].state # "sending"
  BY DEF Stopped
<1>6. QED
  BY <1>4, <1>5, PTL DEF CancelStopsMessage
=============================================================================
