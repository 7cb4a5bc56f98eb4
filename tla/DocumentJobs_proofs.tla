------------------------ MODULE DocumentJobs_proofs ------------------------
(***************************************************************************)
(* Proofs about DocumentJobs: the types, and its four safety properties.   *)
(*                                                                         *)
(* Good says what one write may do to one row, and there is a lemma for    *)
(* each kind of write. A row carries the stages its place in the pipeline  *)
(* takes for granted (Before), and a worker between its read and its write *)
(* knows that at the version it read no cancellation had been asked for.   *)
(***************************************************************************)
EXTENDS DocumentJobs, TLAPS

\* Where the job is: a waiting retry is at the stage it will run again.
Place(r) == IF r.state = "retry_wait" THEN r.stage ELSE r.state

Reader(ocr) == IF ocr THEN "ocr_running" ELSE "parsing"

\* The stages a job at this place has been through.
Before(s, ocr) ==
  CASE s \in {"ready_to_parse", "ocr_required", "parsing", "ocr_running"} -> {"validating"}
    [] s = "normalizing" -> {"validating", Reader(ocr)}
    [] s = "indexing" -> {"validating", Reader(ocr), "normalizing"}
    [] s = "verifying" -> {"validating", Reader(ocr), "normalizing", "indexing"}
    [] s = "ready" -> {"validating", Reader(ocr), "normalizing", "indexing", "verifying"}
    [] OTHER -> {}

RowInv(r, d) ==
  /\ r \in RowType
  /\ r.state = "absent" => r = Absent
  /\ r.state \in Processing => r.stage = r.state
  /\ r.state = "retry_wait" => r.stage \in Processing
  /\ Place(r) \in {"ready_to_parse", "parsing"} => ~r.ocr
  /\ Place(r) \in {"ocr_required", "ocr_running"} => r.ocr
  /\ Before(Place(r), r.ocr) \subseteq d
  /\ r.owner # None => r.state \in Processing /\ r.attempt > 0
  /\ r.state \in Processing \ {"validating"} => r.owner # None
  /\ r.state = "retry_wait" => r.retry # "none"
  /\ r.state \in Intake /\ r.owner = None => r.attempt = 0
  /\ r.cancel /\ r.state \notin Terminal /\ r.owner = None => r.attempt = 0
  /\ r.state = "ready" => ~r.cancel

\* A later version of a row, as far as a worker's old copy of it can tell.
Later(r, s) ==
  /\ s.version >= r.version
  /\ s.version = r.version /\ s.cancel => r.cancel

Good(r, s, d) ==
  /\ RowInv(s, d)
  /\ Later(r, s)
  /\ s.state \in Allowed(r.state) \cup {r.state}

WorkInv(k, rows, d) ==
  /\ k \in WorkType
  /\ k.phase # "idle" => k.job \in Jobs /\ k.ran \in Processing
  /\ k.phase = "write" =>
       /\ k.outcome \in Outcomes
       /\ k.version <= rows[k.job].version
       /\ k.version = rows[k.job].version => ~rows[k.job].cancel
       /\ k.outcome = "done" => k.ran \in d[k.job]

Rows == \A j \in Jobs : RowInv(job[j], done[j])
Works == \A w \in Workers : WorkInv(work[w], job, done)
Counts == \A j \in Jobs : claims[j] = job[j].attempt + returned[j]

\* The inductive invariant.
Inv == TypeOK /\ Rows /\ Works /\ Counts

Moves == \A j \in Jobs : job'[j].state \in Allowed(job[j].state) \cup {job[j].state}

-----------------------------------------------------------------------------
(***************************************************************************)
(* What each write does to a row.                                          *)
(***************************************************************************)

\* A move changes the state, the stage and the due time, and may end the lease.
LEMMA MovedType ==
  ASSUME NEW r \in RowType, NEW t \in States, NEW g \in States \cup {"absent"},
         NEW u \in Retries
  PROVE LET m == Moved(r, t, g, u) IN
        /\ m \in RowType
        /\ m.state = t /\ m.stage = g /\ m.retry = u /\ m.version = r.version + 1
        /\ m.attempt = r.attempt /\ m.ocr = r.ocr /\ m.cancel = r.cancel
        /\ m.owner = IF t \in Processing THEN r.owner ELSE None
<1> DEFINE o == IF t \in Processing THEN r.owner ELSE None
           l == IF t \in Processing THEN r.live ELSE FALSE
           m == [r EXCEPT !.state = t, !.stage = g, !.retry = u, !.version = @ + 1,
                          !.owner = o, !.live = l]
<1>1. o \in Workers \cup {None, "gone"} /\ l \in BOOLEAN
  BY DEF RowType
<1>2. Moved(r, t, g, u) = m
  BY DEF Moved
<1>3. o = IF t \in Processing THEN r.owner ELSE None
  OBVIOUS
<1> HIDE DEF o, l
<1>4. r.version + 1 \in Nat
  BY DEF RowType
<1>5. m \in RowType
  BY <1>1, <1>4 DEF RowType
<1>6. /\ m.state = t /\ m.stage = g /\ m.retry = u /\ m.version = r.version + 1
      /\ m.attempt = r.attempt /\ m.ocr = r.ocr /\ m.cancel = r.cancel /\ m.owner = o
  BY DEF RowType
<1> QED BY <1>2, <1>3, <1>5, <1>6

\* A row that stays is good, and more finished stages do not hurt it.
LEMMA SameGood ==
  ASSUME NEW r, NEW d, NEW e, RowInv(r, d), d \subseteq e
  PROVE Good(r, r, e)
<1>1. r.version \in Nat BY DEF RowInv, RowType
<1>2. RowInv(r, e)
  <2>1. Before(Place(r), r.ocr) \subseteq e BY DEF RowInv
  <2> QED BY <2>1 DEF RowInv
<1> QED BY <1>1, <1>2 DEF Good, Later

\* A move to a state that needs no finished stage.
LEMMA MovedOut ==
  ASSUME NEW r, NEW d, RowInv(r, d),
         NEW t \in {"quarantined", "validating", "rejected", "cancelled", "dead_letter"},
         NEW g \in States \cup {"absent"}, t \in Allowed(r.state), t = "validating" => g = "validating" /\ r.owner = None,
         t \in {"quarantined", "validating"} => r.state \in Intake
  PROVE /\ Good(r, Moved(r, t, g, "none"), d)
        /\ Moved(r, t, g, "none").attempt = r.attempt
        /\ Moved(r, t, g, "none").version = r.version + 1
        /\ Moved(r, t, g, "none").state = t
<1> DEFINE m == Moved(r, t, g, "none")
<1>0. t \in States /\ "none" \in Retries BY DEF States, Processing, Pending, Terminal, Retries
<1>1. r \in RowType BY DEF RowInv
<1>2. /\ m.state = t /\ m.stage = g /\ m.attempt = r.attempt /\ m.ocr = r.ocr
      /\ m.version = r.version + 1 /\ m.owner = None /\ m.cancel = r.cancel
  <2>1. t \in Processing => r.owner = None BY DEF Processing
  <2>2. m.owner = IF t \in Processing THEN r.owner ELSE None BY <1>0, <1>1, MovedType
  <2>3. m.owner = None BY <2>1, <2>2
  <2> QED BY <1>0, <1>1, <2>3, MovedType
<1>3. m \in RowType
  BY <1>0, <1>1, MovedType
<1>4. Place(m) = t /\ Before(t, m.ocr) = {}
  BY <1>2 DEF Place, Before
<1>5. RowInv(m, d)
  <2>1. t \in {"quarantined", "validating"} => r.attempt = 0
    <3>1. r.state \in {"received", "quarantined"} => r.owner = None
      BY DEF RowInv, Processing
    <3>2. t = "quarantined" => r.state \in {"received", "quarantined"}
      BY DEF Allowed, Intake
    <3> QED BY <3>1, <3>2 DEF RowInv
  <2>2. t \notin {"quarantined", "validating"} => t \in Terminal /\ t \notin Intake
    BY DEF Terminal, Intake
  <2>3. t = "validating" \/ t \notin Processing
    BY DEF Processing
  <2> QED BY <1>2, <1>3, <1>4, <2>1, <2>2, <2>3 DEF RowInv
<1> QED BY <1>1, <1>2, <1>5 DEF Good, Later, RowType

\* A job that is being processed goes back to wait for its stage.
LEMMA MovedToRetry ==
  ASSUME NEW r, NEW d, RowInv(r, d), r.state \in Processing, NEW u \in {"now", "later"},
         r.cancel => r.attempt = 0
  PROVE /\ Good(r, Moved(r, "retry_wait", r.stage, u), d)
        /\ Moved(r, "retry_wait", r.stage, u).attempt = r.attempt
        /\ Moved(r, "retry_wait", r.stage, u).owner = None
        /\ Moved(r, "retry_wait", r.stage, u).state = "retry_wait"
        /\ Moved(r, "retry_wait", r.stage, u).stage = r.state
        /\ Moved(r, "retry_wait", r.stage, u).version = r.version + 1
<1> DEFINE m == Moved(r, "retry_wait", r.stage, u)
<1>0. "retry_wait" \in States /\ r.stage \in States \cup {"absent"} /\ u \in Retries
  BY DEF States, Pending, RowInv, RowType, Retries
<1>1. r \in RowType /\ r.stage = r.state BY DEF RowInv
<1>2. /\ m.state = "retry_wait" /\ m.stage = r.state /\ m.attempt = r.attempt /\ m.ocr = r.ocr
      /\ m.version = r.version + 1 /\ m.owner = None /\ m.cancel = r.cancel /\ m.retry = u
  <2>1. "retry_wait" \notin Processing BY DEF Processing
  <2>2. m.owner = IF "retry_wait" \in Processing THEN r.owner ELSE None
    BY <1>0, <1>1, MovedType
  <2>3. m.owner = None BY <2>1, <2>2
  <2> QED BY <1>0, <1>1, <2>3, MovedType
<1>3. m \in RowType
  BY <1>0, <1>1, MovedType
<1>4. Place(m) = Place(r)
  BY <1>1, <1>2 DEF Place, Processing
<1>5. RowInv(m, d)
  <2>1. "retry_wait" \notin Processing \cup Intake BY DEF Processing, Intake
  <2>2. m.cancel => m.attempt = 0 BY <1>2
  <2> QED BY <1>1, <1>2, <1>3, <1>4, <2>1, <2>2 DEF RowInv
<1>6. "retry_wait" \in Allowed(r.state)
  BY DEF Allowed, Processing
<1> QED BY <1>1, <1>2, <1>5, <1>6 DEF Good, Later, RowType

\* A finished stage hands the job on.
LEMMA MovedOn ==
  ASSUME NEW r, NEW d, RowInv(r, d), r.state \in Processing, r.state \in d,
         r.cancel => r.attempt = 0 /\ r.state # "verifying"
  PROVE LET n == NextOf(r.state, r.ocr)
            m == Moved(r, n, n, "none") IN
        Good(r, m, d) /\ m.attempt = r.attempt /\ m.state = n
<1> DEFINE n == NextOf(r.state, r.ocr)
           m == Moved(r, n, n, "none")
<1>1. r \in RowType /\ r.ocr \in BOOLEAN /\ "none" \in Retries BY DEF RowInv, RowType, Retries
<1>2. /\ n \in States \ {"absent", "retry_wait", "cancelled"} /\ n \in Allowed(r.state)
      /\ n = "ready" => r.state = "verifying"
  BY <1>1 DEF NextOf, Allowed, Processing, States, Pending, Terminal
<1>3. /\ m.state = n /\ m.stage = n /\ m.attempt = r.attempt /\ m.ocr = r.ocr
      /\ m.version = r.version + 1 /\ m.cancel = r.cancel
      /\ m.owner = IF n \in Processing THEN r.owner ELSE None
  BY <1>1, <1>2, MovedType
<1>4. m \in RowType
  BY <1>1, <1>2, MovedType
<1>5. Before(n, r.ocr) \subseteq Before(r.state, r.ocr) \cup {r.state}
  BY <1>1 DEF Before, NextOf, Reader, Processing, RowInv, Place
<1>6. Before(r.state, r.ocr) \subseteq d
  BY DEF RowInv, Place, Processing
<1>7. Place(m) = n BY <1>2, <1>3 DEF Place
<1>8. n \in {"ready_to_parse", "parsing"} => ~r.ocr
  BY <1>1 DEF NextOf, Processing
<1>9. n \in {"ocr_required", "ocr_running"} => r.ocr
  BY <1>1 DEF NextOf, Processing
<1>10. RowInv(m, d)
  <2>1. Before(Place(m), m.ocr) \subseteq d BY <1>3, <1>5, <1>6, <1>7
  <2>2. m.owner # None => m.state \in Processing /\ m.attempt > 0
    BY <1>3 DEF RowInv
  <2>3. m.state = "ready" => ~m.cancel BY <1>2, <1>3
  <2>4. n \in Processing => r.state \in Processing \ {"validating"}
    BY <1>1 DEF NextOf, Processing
  <2>5. m.state \in Processing \ {"validating"} => m.owner # None
    BY <1>3, <2>4 DEF RowInv
  <2>6. n \notin Intake BY <1>1 DEF NextOf, Processing, Intake
  <2>7. m.cancel => m.attempt = 0 BY <1>3
  <2> QED BY <1>2, <1>3, <1>4, <1>7, <1>8, <1>9, <2>1, <2>2, <2>3, <2>5, <2>6, <2>7 DEF RowInv
<1> QED BY <1>1, <1>2, <1>3, <1>10 DEF Good, Later, RowType

LEMMA FailedGood ==
  ASSUME NEW r, NEW d, RowInv(r, d), r.state \in Processing, NEW o \in {"transient", "permanent"},
         r.cancel => r.attempt = 0
  PROVE Good(r, Failed(r, o), d) /\ Failed(r, o).attempt = r.attempt
<1>1. r.stage \in States BY DEF RowInv, RowType, States
<1>2. {"rejected", "dead_letter"} \subseteq Allowed(r.state) BY DEF Allowed, Processing
<1> QED BY <1>1, <1>2, MovedOut, MovedToRetry DEF Failed

\* Recovery brings an expired job to rest, with the stage it was at.
LEMMA RecoveredGood ==
  ASSUME NEW r, NEW d, RowInv(r, d)
  PROVE /\ Good(r, Recovered(r), d)
        /\ Recovered(r).attempt = r.attempt
        /\ Recovered(r) # r => /\ r.state \in Processing
                               /\ Recovered(r).state \in {"retry_wait"} \cup Terminal
                               /\ Recovered(r).state = "retry_wait" =>
                                    /\ Recovered(r).stage = r.state
                                    /\ r.attempt < MaxAttempts
<1>1. CASE ~Expired(r)
  BY <1>1, SameGood DEF Recovered
<1>2. CASE Expired(r)
  <2>1. r.state \in Processing /\ r.stage \in States /\ r.attempt \in Nat
    BY <1>2, JobsAssumption DEF Expired, RowInv, RowType, States
  <2>2. {"cancelled", "dead_letter"} \subseteq Allowed(r.state)
    BY <2>1 DEF Allowed, Processing
  <2> QED BY <1>2, <2>1, <2>2, MovedOut, MovedToRetry, JobsAssumption DEF Recovered, Terminal
<1> QED BY <1>1, <1>2

LEMMA ReleasedGood ==
  ASSUME NEW r, NEW d, RowInv(r, d), r.state \in Processing, r.owner # None
  PROVE /\ Good(r, Released(r), d)
        /\ Released(r).attempt + (IF r.cancel THEN 0 ELSE 1) = r.attempt
<1>1. /\ r.stage \in States /\ r.attempt \in 0 .. MaxAttempts /\ r.attempt > 0
      /\ r.cancel \in BOOLEAN
  BY DEF RowInv, RowType, States, Processing
<1>2. "cancelled" \in Allowed(r.state) BY DEF Allowed, Processing
<1>3. CASE r.cancel
  BY <1>1, <1>2, <1>3, MovedOut, JobsAssumption DEF Released
<1>4. CASE ~r.cancel
  <2> DEFINE m == Moved(r, "retry_wait", r.stage, "now")
             s == [m EXCEPT !.attempt = IF @ = 0 THEN 0 ELSE @ - 1]
  <2>1. /\ Good(r, m, d) /\ m.attempt = r.attempt /\ m.owner = None /\ m.state = "retry_wait"
    BY <1>4, MovedToRetry
  <2>2. m \in RowType /\ RowInv(m, d) BY <2>1 DEF Good, RowInv
  <2>3. /\ s \in RowType /\ s.attempt = r.attempt - 1 /\ s.state = m.state /\ s.stage = m.stage
        /\ s.owner = None /\ s.ocr = m.ocr /\ s.cancel = m.cancel /\ s.version = m.version
    BY <1>1, <2>1, <2>2, JobsAssumption DEF RowType
  <2>4. Place(s) = Place(m) BY <2>3 DEF Place
  <2>5. RowInv(s, d) BY <2>1, <2>2, <2>3, <2>4 DEF RowInv
  <2>6. Good(r, s, d) BY <2>1, <2>3, <2>5 DEF Good, Later
  <2>7. Released(r) = s BY <1>4 DEF Released
  <2> QED BY <1>1, <1>4, <2>3, <2>6, <2>7, JobsAssumption
<1> QED BY <1>1, <1>3, <1>4

LEMMA ClaimedInv ==
  ASSUME NEW r, NEW d, RowInv(r, d), NEW w \in Workers, Candidate(r), ~Exhausted(r)
  PROVE /\ RowInv(Claimed(r, w), d)
        /\ Claimed(r, w).attempt = r.attempt + 1
        /\ Claimed(r, w).version = r.version + 1
        /\ Claimed(r, w).state = ClaimTarget(r)
        /\ ClaimTarget(r) \in Processing \cap Allowed(r.state)
<1> DEFINE m == Claimed(r, w)
           t == ClaimTarget(r)
<1>1. /\ r \in RowType /\ r.attempt < MaxAttempts /\ r.attempt \in Nat /\ r.ocr \in BOOLEAN
  BY JobsAssumption DEF RowInv, RowType, Exhausted
<1>2. t \in Processing \cap Allowed(r.state)
  BY DEF ClaimTarget, Candidate, RowInv, Processing, Allowed
<1>3. /\ m.state = t /\ m.stage = t /\ m.attempt = r.attempt + 1 /\ m.ocr = r.ocr
      /\ m.version = r.version + 1 /\ m.owner = w
  BY <1>1 DEF Claimed, RowType
<1>4. m \in RowType
  <2>1. t \in States \cup {"absent"} BY <1>2 DEF States
  <2>2. r.attempt + 1 \in 0 .. MaxAttempts /\ r.version + 1 \in Nat /\ "none" \in Retries
    BY <1>1, JobsAssumption DEF RowType, Retries
  <2> HIDE DEF t
  <2>3. m = [r EXCEPT !.state = t, !.stage = t, !.attempt = @ + 1,
                      !.retry = "none", !.owner = w, !.live = TRUE, !.version = @ + 1]
    BY DEF Claimed, t
  <2> QED BY <1>1, <2>1, <2>2, <2>3 DEF RowType
<1>5. Place(m) = t BY <1>2, <1>3 DEF Place, Processing
<1>6. /\ t \in {"ready_to_parse", "parsing"} => ~r.ocr
      /\ t \in {"ocr_required", "ocr_running"} => r.ocr
  BY <1>2 DEF ClaimTarget, Candidate, RowInv, Place, Processing
<1>7. Before(t, r.ocr) \subseteq d
  BY DEF ClaimTarget, Candidate, RowInv, Place, Before
<1>8. RowInv(m, d)
  <2>1. m.owner # None BY <1>3, JobsAssumption
  <2> QED BY <1>1, <1>2, <1>3, <1>4, <1>5, <1>6, <1>7, <2>1 DEF RowInv, Processing
<1> QED BY <1>2, <1>3, <1>8

LEMMA CancellingGood ==
  ASSUME NEW r, NEW d, RowInv(r, d), r.state \notin Terminal \cup {"absent"}
  PROVE Good(r, Cancelling(r), d) /\ Cancelling(r).attempt = r.attempt
<1>1. /\ r \in RowType /\ r.stage \in States \cup {"absent"}
      /\ r.state \in Pending \cup Processing
  BY DEF RowInv, RowType, States
<1>2. CASE r.state \in Pending
  <2> DEFINE m == Moved(r, "cancelled", r.stage, "none")
             s == [m EXCEPT !.cancel = TRUE]
  <2>1. "cancelled" \in Allowed(r.state) BY <1>2 DEF Allowed, Pending, Processing
  <2>2. /\ Good(r, m, d) /\ m.attempt = r.attempt /\ m.version = r.version + 1
        /\ m.state = "cancelled"
    BY <1>1, <2>1, MovedOut
  <2>3. m \in RowType /\ RowInv(m, d) BY <2>2 DEF Good, RowInv
  <2>4. /\ s \in RowType /\ s.attempt = m.attempt /\ s.state = m.state /\ s.stage = m.stage
        /\ s.owner = m.owner /\ s.ocr = m.ocr /\ s.version = m.version
    BY <2>3 DEF RowType
  <2>5. RowInv(s, d) BY <2>2, <2>3, <2>4 DEF RowInv, Place, Terminal
  <2>6. Good(r, s, d) BY <1>1, <2>1, <2>2, <2>4, <2>5 DEF Good, Later, RowType
  <2>7. Cancelling(r) = s BY <1>2 DEF Cancelling
  <2> QED BY <2>2, <2>4, <2>6, <2>7
<1>3. CASE r.state \notin Pending
  <2> DEFINE s == [r EXCEPT !.cancel = TRUE, !.version = @ + 1]
  <2>1. /\ s \in RowType /\ s.attempt = r.attempt /\ s.state = r.state /\ s.stage = r.stage
        /\ s.owner = r.owner /\ s.ocr = r.ocr /\ s.version = r.version + 1
    <3>1. r.version + 1 \in Nat BY <1>1 DEF RowType
    <3>2. s \in RowType BY <1>1, <3>1 DEF RowType
    <3> QED BY <1>1, <3>2 DEF RowType
  <2>2. Place(s) = Place(r) BY <2>1 DEF Place
  <2>3. r.owner = None => r.attempt = 0
    BY <1>1, <1>3 DEF RowInv, Intake
  <2>4. RowInv(s, d) BY <2>1, <2>2, <2>3 DEF RowInv, Terminal
  <2>5. Good(r, s, d) BY <1>1, <2>1, <2>4 DEF Good, Later, RowType
  <2>6. Cancelling(r) = s BY <1>3 DEF Cancelling
  <2> QED BY <2>1, <2>5, <2>6
<1> QED BY <1>2, <1>3

\* What the clock and a crash do to a row: the lease and the due time only.
LEMMA TouchedGood ==
  ASSUME NEW r, NEW d, RowInv(r, d), NEW s \in RowType,
         s.state = r.state, s.stage = r.stage, s.attempt = r.attempt, s.version = r.version,
         s.cancel = r.cancel, s.ocr = r.ocr, (s.owner = None) <=> (r.owner = None),
         s.retry = "none" => r.retry = "none", r.state # "absent"
  PROVE Good(r, s, d)
<1>1. r \in RowType BY DEF RowInv
<1>2. Place(s) = Place(r) BY DEF Place
<1>3. RowInv(s, d) BY <1>2 DEF RowInv
<1> QED BY <1>1, <1>3 DEF Good, Later, RowType

-----------------------------------------------------------------------------
(***************************************************************************)
(* From rows to steps.                                                     *)
(***************************************************************************)

\* What a worker knows survives the writes of others.
LEMMA WorkKept ==
  ASSUME NEW k, NEW J, NEW D, NEW J2, NEW D2, WorkInv(k, J, D),
         \A j \in Jobs : J[j].version \in Nat /\ Later(J[j], J2[j]) /\ J2[j].version \in Nat,
         \A j \in Jobs : D[j] \subseteq D2[j]
  PROVE WorkInv(k, J2, D2)
<1>1. CASE k.phase # "write"
  BY <1>1 DEF WorkInv
<1>2. CASE k.phase = "write"
  <2>1. k.job \in Jobs /\ k.version \in Nat BY <1>2 DEF WorkInv, WorkType
  <2> QED BY <1>2, <2>1 DEF WorkInv, Later
<1> QED BY <1>1, <1>2

\* A step whose writes are good keeps the rows, and moves them as the table allows.
LEMMA RowsStep ==
  ASSUME Inv, DOMAIN job' = Jobs, job' = [j \in DOMAIN job' |-> job'[j]],
         \A j \in Jobs : Good(job[j], job'[j], done'[j]),
         \A j \in Jobs : done[j] \subseteq done'[j]
  PROVE /\ job' \in [Jobs -> RowType]
        /\ Rows' /\ Moves
        /\ \A w \in Workers : WorkInv(work[w], job', done')
<1>1. \A j \in Jobs : RowInv(job'[j], done'[j]) /\ job'[j] \in RowType
  BY DEF Good, RowInv
<1>2. job' \in [Jobs -> RowType]
  BY <1>1
<1>3. Rows'
  BY <1>1 DEF Rows
<1>4. Moves
  BY DEF Good, Moves
<1>5. \A j \in Jobs : job[j].version \in Nat /\ job'[j].version \in Nat /\ Later(job[j], job'[j])
  BY <1>1 DEF Good, Inv, TypeOK, RowType
<1>6. ASSUME NEW w \in Workers PROVE WorkInv(work[w], job', done')
  BY <1>5, WorkKept DEF Inv, Works
<1> QED BY <1>2, <1>3, <1>4, <1>6

\* A step that writes no row.
LEMMA NoWrite ==
  ASSUME Inv, UNCHANGED job,
         done' \in [Jobs -> SUBSET Processing], \A j \in Jobs : done[j] \subseteq done'[j]
  PROVE /\ job' \in [Jobs -> RowType]
        /\ Rows' /\ Moves
        /\ \A w \in Workers : WorkInv(work[w], job', done')
<1>1. ASSUME NEW j \in Jobs PROVE Good(job[j], job'[j], done'[j])
  BY SameGood DEF Inv, Rows
<1>2. DOMAIN job' = Jobs /\ job' = [j \in DOMAIN job' |-> job'[j]]
  BY DEF Inv, TypeOK
<1> QED BY <1>1, <1>2, RowsStep

\* A step that writes one row.
LEMMA OneWrite ==
  ASSUME Inv, NEW j \in Jobs, NEW r, job' = [job EXCEPT ![j] = r], Good(job[j], r, done'[j]),
         \A i \in Jobs : done[i] \subseteq done'[i]
  PROVE /\ job' \in [Jobs -> RowType]
        /\ Rows' /\ Moves
        /\ \A w \in Workers : WorkInv(work[w], job', done')
        /\ job'[j] = r /\ \A i \in Jobs \ {j} : job'[i] = job[i]
<1>1. DOMAIN job = Jobs BY DEF Inv, TypeOK
<1>2. job'[j] = r /\ \A i \in Jobs \ {j} : job'[i] = job[i] BY <1>1
<1>3. ASSUME NEW i \in Jobs PROVE Good(job[i], job'[i], done'[i])
  <2>1. CASE i = j BY <2>1, <1>2
  <2>2. CASE i # j BY <2>2, <1>2, SameGood DEF Inv, Rows
  <2> QED BY <2>1, <2>2
<1>4. DOMAIN job' = Jobs /\ job' = [i \in DOMAIN job' |-> job'[i]] BY <1>1
<1> QED BY <1>2, <1>3, <1>4, RowsStep

\* The worker that ends what it did keeps the others as they were.
LEMMA WorkStep ==
  ASSUME Inv, NEW w \in Workers, NEW k, work' = [work EXCEPT ![w] = k],
         WorkInv(k, job', done'), \A v \in Workers : WorkInv(work[v], job', done')
  PROVE Works' /\ work' \in [Workers -> WorkType]
<1>1. DOMAIN work = Workers BY DEF Inv, TypeOK
<1>2. ASSUME NEW v \in Workers PROVE WorkInv(work'[v], job', done')
  BY <1>1
<1>3. \A v \in Workers : work'[v] \in WorkType BY <1>2 DEF WorkInv
<1> QED BY <1>1, <1>2, <1>3 DEF Works

LEMMA IdleInv ==
  ASSUME NEW J, NEW D
  PROVE WorkInv(Idle, J, D)
BY DEF WorkInv, Idle, WorkType

\* The attempts of a row that nobody claims or gives back.
LEMMA CountsKept ==
  ASSUME Inv, UNCHANGED <<claims, returned>>, \A j \in Jobs : job'[j].attempt = job[j].attempt
  PROVE Counts'
BY DEF Inv, Counts

LEMMA SpendType ==
  ASSUME Inv, NEW kind \in {"cancel", "fault"}, Spend(kind)
  PROVE budget' \in [DOMAIN Budget -> Nat]
<1>1. DOMAIN Budget = {"cancel", "fault"} BY JobsAssumption
<1> DEFINE K == DOMAIN Budget
<1>2. kind \in K BY <1>1
<1> HIDE DEF K
<1>3. budget \in [K -> Nat] BY DEF Inv, TypeOK, K
<1>4. budget[kind] - 1 \in Nat BY <1>2, <1>3 DEF Spend
<1>5. budget' \in [K -> Nat] BY <1>3, <1>4 DEF Spend
<1> QED BY <1>5 DEF K

\* One copy of an intake is replaced.
LEMMA HandType ==
  ASSUME Inv, NEW p \in Workers, NEW j \in Jobs,
         NEW v \in [state : Intake \cup {"none"}, version : Nat],
         hand' = [hand EXCEPT ![p][j] = v]
  PROVE hand' \in [Workers -> [Jobs -> [state : Intake \cup {"none"}, version : Nat]]]
<1> DEFINE C == [state : Intake \cup {"none"}, version : Nat]
<1>1. v \in C OBVIOUS
<1>2. hand \in [Workers -> [Jobs -> C]] BY DEF Inv, TypeOK
<1> HIDE DEF C
<1>3. hand' \in [Workers -> [Jobs -> C]] BY <1>1, <1>2
<1> QED BY <1>3 DEF C

LEMMA NoCopyType == NoCopy \in [state : Intake \cup {"none"}, version : Nat]
BY DEF NoCopy

-----------------------------------------------------------------------------
(***************************************************************************)
(* Intake.                                                                 *)
(***************************************************************************)

LEMMA PublishKeeps ==
  ASSUME Inv, NEW p \in Workers, NEW j \in Jobs, Publish(p, j)
  PROVE Inv' /\ Moves
<1> USE DEF Publish
<1>1. PICK ocr \in BOOLEAN :
        job' = [job EXCEPT ![j] = [Absent EXCEPT !.state = "received", !.stage = "received", !.ocr = ocr]]
  OBVIOUS
<1> DEFINE r == [Absent EXCEPT !.state = "received", !.stage = "received", !.ocr = ocr]
<1>2. job[j] = Absent /\ job[j] \in RowType
  BY DEF Inv, Rows, RowInv
<1>3. /\ r \in RowType /\ r.state = "received" /\ r.stage = "received" /\ r.attempt = 0
      /\ r.version = 0 /\ r.owner = None /\ r.cancel = FALSE
  <2>1. "received" \in States BY DEF States, Pending
  <2>2. /\ Absent.attempt = 0 /\ Absent.version = 0 /\ Absent.owner = None
        /\ Absent.cancel = FALSE /\ Absent \in RowType
    BY <1>2 DEF Absent
  <2> QED BY <2>1, <2>2 DEF RowType
<1>4. Place(r) = "received" /\ Before("received", r.ocr) = {}
  BY <1>3 DEF Place, Before
<1>5. RowInv(r, done'[j])
  BY <1>3, <1>4 DEF RowInv, Processing
<1>6. Good(job[j], r, done'[j])
  BY <1>2, <1>3, <1>5 DEF Good, Later, Absent, Allowed
<1>7. /\ job' \in [Jobs -> RowType] /\ Rows' /\ Moves
      /\ \A w \in Workers : WorkInv(work[w], job', done')
      /\ job'[j] = r /\ \A i \in Jobs \ {j} : job'[i] = job[i]
  BY <1>1, <1>6, OneWrite
<1>8. Works' BY <1>7 DEF Works
<1>9. Counts' BY <1>2, <1>3, <1>7, CountsKept DEF Absent
<1>10. TypeOK'
  <2>1. hand' \in [Workers -> [Jobs -> [state : Intake \cup {"none"}, version : Nat]]]
    BY DEF Inv, TypeOK, Intake
  <2> QED BY <1>7, <2>1 DEF Inv, TypeOK
<1> QED BY <1>7, <1>8, <1>9, <1>10 DEF Inv

\* A write of an intake that is good when it is not refused.
LEMMA IntakeWritesKeep ==
  ASSUME Inv, NEW p \in Workers, NEW j \in Jobs, NEW n, NEW goesOn \in BOOLEAN,
         IntakeWrites(p, j, n, goesOn),
         UNCHANGED <<home, todo, mode, work, budget, claims, returned>>,
         done' \in [Jobs -> SUBSET Processing], \A i \in Jobs : done[i] \subseteq done'[i],
         Expected(job[j], hand[p][j].state, hand[p][j].version, None) =>
           /\ Good(job[j], n, done'[j])
           /\ n.attempt = job[j].attempt
           /\ goesOn => n.state \in Intake
  PROVE Inv' /\ Moves
<1> USE DEF IntakeWrites
<1>1. CASE Expected(job[j], hand[p][j].state, hand[p][j].version, None)
  <2>1. /\ job' \in [Jobs -> RowType] /\ Rows' /\ Moves
        /\ \A w \in Workers : WorkInv(work[w], job', done')
        /\ job'[j] = n /\ \A i \in Jobs \ {j} : job'[i] = job[i]
    BY <1>1, OneWrite
  <2>2. Works' BY <2>1 DEF Works
  <2>3. Counts' BY <1>1, <2>1, CountsKept
  <2>4. hand' \in [Workers -> [Jobs -> [state : Intake \cup {"none"}, version : Nat]]]
    <3>1. n.version \in Nat BY <2>1 DEF RowType
    <3>2. (IF goesOn THEN [state |-> n.state, version |-> n.version] ELSE NoCopy)
             \in [state : Intake \cup {"none"}, version : Nat]
      BY <1>1, <3>1 DEF NoCopy
    <3> QED BY <1>1, <3>2, HandType
  <2>5. TypeOK' BY <2>1, <2>4 DEF Inv, TypeOK
  <2> QED BY <2>1, <2>2, <2>3, <2>5 DEF Inv
<1>2. CASE ~Expected(job[j], hand[p][j].state, hand[p][j].version, None)
  <2>1. /\ job' \in [Jobs -> RowType] /\ Rows' /\ Moves
        /\ \A w \in Workers : WorkInv(work[w], job', done')
    BY <1>2, NoWrite
  <2>2. Works' BY <2>1 DEF Works
  <2>3. Counts' BY <1>2, CountsKept
  <2>4. hand' \in [Workers -> [Jobs -> [state : Intake \cup {"none"}, version : Nat]]]
    BY <1>2, HandType, NoCopyType
  <2>5. TypeOK' BY <2>1, <2>4 DEF Inv, TypeOK
  <2> QED BY <2>1, <2>2, <2>3, <2>5 DEF Inv
<1> QED BY <1>1, <1>2

LEMMA AdvanceIntakeKeeps ==
  ASSUME Inv, NEW p \in Workers, NEW j \in Jobs, AdvanceIntake(p, j)
  PROVE Inv' /\ Moves
<1> USE DEF AdvanceIntake
<1> DEFINE next == IF hand[p][j].state = "received" THEN "quarantined" ELSE "validating"
           n == Moved(job[j], next, next, "none")
<1>1. IntakeWrites(p, j, n, TRUE) OBVIOUS
<1>2. ASSUME Expected(job[j], hand[p][j].state, hand[p][j].version, None)
      PROVE Good(job[j], n, done'[j]) /\ n.attempt = job[j].attempt /\ n.state \in Intake
  <2>1. RowInv(job[j], done'[j]) BY DEF Inv, Rows
  <2>2. job[j].owner = None /\ job[j].state = hand[p][j].state BY <1>2 DEF Expected
  <2>3. /\ next \in {"quarantined", "validating"} /\ next \in Allowed(job[j].state)
        /\ next \in States \cup {"absent"}
    BY <2>2 DEF Allowed, States, Pending, Processing
  <2> QED BY <2>1, <2>2, <2>3, MovedOut DEF Intake
<1>3. done' \in [Jobs -> SUBSET Processing] /\ \A i \in Jobs : done[i] \subseteq done'[i]
  BY DEF Inv, TypeOK
<1> QED BY <1>1, <1>2, <1>3, IntakeWritesKeep

\* The stages on record only grow.
LEMMA DoneGrows ==
  ASSUME Inv, NEW j \in Jobs, NEW s \in Processing, NEW c,
         done' = IF c THEN [done EXCEPT ![j] = @ \cup {s}] ELSE done
  PROVE /\ done' \in [Jobs -> SUBSET Processing]
        /\ \A i \in Jobs : done[i] \subseteq done'[i]
        /\ c => s \in done'[j]
BY DEF Inv, TypeOK

LEMMA EndValidationKeeps ==
  ASSUME Inv, NEW p \in Workers, NEW j \in Jobs, NEW o \in Outcomes, EndValidation(p, j, o)
  PROVE Inv' /\ Moves
<1> USE DEF EndValidation
<1> DEFINE next == NextOf("validating", job[j].ocr)
           n == IF o = "done" THEN Moved(job[j], next, next, "none") ELSE IntakeFailed(job[j], o)
<1>1. IntakeWrites(p, j, n, FALSE) OBVIOUS
<1>2. /\ done' \in [Jobs -> SUBSET Processing] /\ \A i \in Jobs : done[i] \subseteq done'[i]
      /\ o = "done" => "validating" \in done'[j]
  <2>1. "validating" \in Processing BY DEF Processing
  <2> QED BY <2>1, DoneGrows
<1>3. ASSUME Expected(job[j], hand[p][j].state, hand[p][j].version, None)
      PROVE Good(job[j], n, done'[j]) /\ n.attempt = job[j].attempt
  <2>1. RowInv(job[j], done'[j]) BY <1>2, SameGood DEF Inv, Rows, Good
  <2>2. job[j].state = "validating" /\ job[j].state \in Processing
    BY <1>3 DEF Expected, Processing
  <2>3. job[j].attempt = 0
    BY <1>3, <2>1, <2>2, JobsAssumption DEF Expected, RowInv, Intake
  <2>4. CASE o = "done"
    BY <1>2, <2>1, <2>2, <2>4, <2>3, MovedOn
  <2>5. CASE o = "transient"
    BY <2>1, <2>2, <2>5, <2>3, FailedGood DEF IntakeFailed
  <2>6. CASE o = "permanent"
    <3>1. "rejected" \in Allowed(job[j].state) /\ "rejected" \in States \cup {"absent"}
      BY <2>2 DEF Allowed, States, Terminal
    <3> QED BY <2>1, <2>6, <3>1, MovedOut DEF IntakeFailed
  <2> QED BY <2>4, <2>5, <2>6 DEF Outcomes
<1> QED BY <1>1, <1>2, <1>3, IntakeWritesKeep

\* Steps that write no row, no attempt and no worker.
LEMMA AsideKeeps ==
  ASSUME Inv, UNCHANGED <<job, work, claims, returned, done>>, TypeOK'
  PROVE Inv' /\ Moves
<1>1. /\ Rows' /\ Moves /\ \A w \in Workers : WorkInv(work[w], job', done')
  BY NoWrite DEF Inv, TypeOK
<1>2. Works' BY <1>1 DEF Works
<1>3. Counts' BY CountsKept
<1> QED BY <1>1, <1>2, <1>3 DEF Inv

LEMMA IntakeFaultKeeps ==
  ASSUME Inv, NEW p \in Workers, NEW j \in Jobs, IntakeFault(p, j)
  PROVE Inv' /\ Moves
<1>1. budget' \in [DOMAIN Budget -> Nat] BY SpendType DEF IntakeFault
<1>2. TypeOK' BY <1>1 DEF IntakeFault, Inv, TypeOK, NoCopy
<1> QED BY <1>2, AsideKeeps DEF IntakeFault

LEMMA StartKeeps ==
  ASSUME Inv, NEW p \in Workers, Start(p)
  PROVE Inv' /\ Moves
<1>1. TypeOK' BY DEF Start, Inv, TypeOK
<1> QED BY <1>1, AsideKeeps DEF Start

LEMMA RescueKeeps ==
  ASSUME Inv, NEW p \in Workers, NEW j \in Jobs, Rescue(p, j)
  PROVE Inv' /\ Moves
<1>1. TypeOK' BY DEF Rescue, Inv, TypeOK, RowType
<1> QED BY <1>1, AsideKeeps DEF Rescue

LEMMA StartLoopKeeps ==
  ASSUME Inv, NEW p \in Workers, StartLoop(p)
  PROVE Inv' /\ Moves
<1> USE DEF StartLoop
<1>1. ASSUME NEW j \in Jobs
      PROVE Good(job[j], job'[j], done'[j]) /\ job'[j].attempt = job[j].attempt
  BY RecoveredGood DEF Inv, Rows
<1>2. job' \in [Jobs -> RowType] /\ Rows' /\ Moves
      /\ \A w \in Workers : WorkInv(work[w], job', done')
  BY <1>1, RowsStep
<1>3. Works' BY <1>2 DEF Works
<1>4. Counts' BY <1>1, CountsKept
<1>5. TypeOK' BY <1>2 DEF Inv, TypeOK
<1> QED BY <1>2, <1>3, <1>4, <1>5 DEF Inv

-----------------------------------------------------------------------------
(***************************************************************************)
(* The worker loop.                                                        *)
(***************************************************************************)

\* What claim_next sees: every row recovered, some exhausted ones given up.
LEMMA SeenGood ==
  ASSUME NEW r, NEW d, RowInv(r, d), NEW bury \in BOOLEAN, bury => Exhausted(Recovered(r))
  PROVE LET s == Recovered(r)
            b == IF bury THEN Moved(s, "dead_letter", s.stage, "none") ELSE s IN
        Good(r, b, d) /\ b.attempt = r.attempt
<1> DEFINE s == Recovered(r)
           b == IF bury THEN Moved(s, "dead_letter", s.stage, "none") ELSE s
<1>1. Good(r, s, d) /\ s.attempt = r.attempt BY RecoveredGood
<1>2. CASE ~bury BY <1>1, <1>2
<1>3. CASE bury
  <2>1. s = r
    <3>1. s.state \in {"ready_to_parse", "ocr_required", "retry_wait"} /\ s.attempt >= MaxAttempts
      BY <1>3 DEF Exhausted, Candidate
    <3>2. r.attempt \in Nat BY JobsAssumption DEF RowInv, RowType
    <3> HIDE DEF s
    <3>3. s # r => s.state \in {"retry_wait"} \cup Terminal /\ (s.state = "retry_wait" => r.attempt < MaxAttempts)
      BY RecoveredGood DEF s
    <3> QED BY <1>1, <3>1, <3>2, <3>3, JobsAssumption DEF Terminal
  <2>2. "dead_letter" \in Allowed(r.state) /\ r.stage \in States \cup {"absent"}
    BY <1>3, <2>1 DEF Exhausted, Candidate, Allowed, RowInv, RowType
  <2>3. b = Moved(r, "dead_letter", r.stage, "none") BY <1>3, <2>1
  <2> QED BY <2>2, <2>3, MovedOut
<1> QED BY <1>2, <1>3

LEMMA SeenClaimedGood ==
  ASSUME NEW r, NEW d, RowInv(r, d), NEW w \in Workers,
         Candidate(Recovered(r)), ~Exhausted(Recovered(r))
  PROVE LET s == Recovered(r) IN
        /\ Good(r, Claimed(s, w), d)
        /\ Claimed(s, w).attempt = r.attempt + 1
        /\ ClaimTarget(s) \in Processing
<1> DEFINE s == Recovered(r)
<1>1. Good(r, s, d) /\ s.attempt = r.attempt BY RecoveredGood
<1>2. /\ RowInv(Claimed(s, w), d) /\ Claimed(s, w).attempt = s.attempt + 1
      /\ Claimed(s, w).version = s.version + 1 /\ Claimed(s, w).state = ClaimTarget(s)
      /\ ClaimTarget(s) \in Processing \cap Allowed(s.state)
  BY <1>1, ClaimedInv DEF Good
<1>3. ClaimTarget(s) \in Allowed(r.state) \cup {r.state}
  <2>1. CASE s = r BY <1>2, <2>1
  <2>2. CASE s # r
    <3>1. s.state = "retry_wait" /\ s.stage = r.state
      BY <2>2, RecoveredGood DEF Candidate, Terminal
    <3> QED BY <3>1 DEF ClaimTarget
  <2> QED BY <2>1, <2>2
<1>4. s.version \in Nat /\ r.version \in Nat BY <1>1 DEF Good, RowInv, RowType
<1> QED BY <1>1, <1>2, <1>3, <1>4 DEF Good, Later

\* The types of what a claim leaves alone.
AsideType ==
  /\ home \in [Jobs -> Workers \cup {None}]
  /\ hand \in [Workers -> [Jobs -> [state : Intake \cup {"none"}, version : Nat]]]
  /\ todo \in [Workers -> SUBSET Jobs]
  /\ mode \in [Workers -> {"down", "starting", "up"}]
  /\ budget \in [DOMAIN Budget -> Nat]
  /\ returned \in [Jobs -> Nat]
  /\ done \in [Jobs -> SUBSET Processing]

LEMMA PollKeeps ==
  ASSUME Inv, NEW w \in Workers, Poll(w)
  PROVE Inv' /\ Moves
<1> DEFINE seen == [j \in Jobs |-> Recovered(job[j])]
           spent == {j \in Jobs : Exhausted(seen[j])}
           ready == {j \in Jobs : Candidate(seen[j]) /\ ~Exhausted(seen[j])}
           Buried(met) == [j \in Jobs |->
              IF j \in met THEN Moved(seen[j], "dead_letter", seen[j].stage, "none") ELSE seen[j]]
<1>1. ASSUME NEW met \in SUBSET spent, NEW j \in Jobs
      PROVE Good(job[j], Buried(met)[j], done[j]) /\ Buried(met)[j].attempt = job[j].attempt
  <2>1. RowInv(job[j], done[j]) BY DEF Inv, Rows
  <2>2. Buried(met)[j] = IF j \in met THEN Moved(Recovered(job[j]), "dead_letter", Recovered(job[j]).stage, "none")
                         ELSE Recovered(job[j])
    OBVIOUS
  <2>3. j \in met => Exhausted(Recovered(job[j])) OBVIOUS
  <2> QED BY <2>1, <2>2, <2>3, SeenGood
<1>2. done' = done /\ \A j \in Jobs : done[j] \subseteq done'[j] BY DEF Poll
<1>3. AsideType'
  BY DEF Poll, Inv, TypeOK, AsideType
<1>4. CASE ready = {} /\ job' = Buried(spent) /\ UNCHANGED <<work, claims>>
  <2>1. \A j \in Jobs : Good(job[j], job'[j], done'[j]) /\ job'[j].attempt = job[j].attempt
    BY <1>1, <1>2, <1>4
  <2>2. job' \in [Jobs -> RowType] /\ Rows' /\ Moves
        /\ \A v \in Workers : WorkInv(work[v], job', done')
    BY <1>2, <1>4, <2>1, RowsStep
  <2>3. Works' BY <1>4, <2>2 DEF Works
  <2>4. Counts' BY <1>4, <2>1, CountsKept DEF Poll
  <2>5. TypeOK' BY <1>3, <1>4, <2>2 DEF Inv, TypeOK, AsideType
  <2> QED BY <2>2, <2>3, <2>4, <2>5 DEF Inv
<1>5. CASE \E j \in ready, met \in SUBSET spent :
             /\ job' = [Buried(met) EXCEPT ![j] = Claimed(seen[j], w)]
             /\ work' = [work EXCEPT ![w] =
                  [Idle EXCEPT !.phase = "run", !.job = j, !.ran = ClaimTarget(seen[j])]]
             /\ claims' = [claims EXCEPT ![j] = @ + 1]
  <2>1. PICK j \in ready, met \in SUBSET spent :
             /\ job' = [Buried(met) EXCEPT ![j] = Claimed(seen[j], w)]
             /\ work' = [work EXCEPT ![w] =
                  [Idle EXCEPT !.phase = "run", !.job = j, !.ran = ClaimTarget(seen[j])]]
             /\ claims' = [claims EXCEPT ![j] = @ + 1]
    BY <1>5
  <2> DEFINE k == [Idle EXCEPT !.phase = "run", !.job = j, !.ran = ClaimTarget(seen[j])]
  <2>2. /\ Good(job[j], Claimed(seen[j], w), done[j])
        /\ Claimed(seen[j], w).attempt = job[j].attempt + 1
        /\ ClaimTarget(seen[j]) \in Processing
    BY SeenClaimedGood DEF Inv, Rows
  <2>3. /\ j \in Jobs /\ job'[j] = Claimed(seen[j], w)
        /\ \A i \in Jobs \ {j} : job'[i] = Buried(met)[i]
    BY <2>1
  <2>4. \A i \in Jobs : Good(job[i], job'[i], done'[i])
    <3>1. Good(job[j], job'[j], done'[j]) BY <1>2, <2>2, <2>3
    <3>2. ASSUME NEW i \in Jobs \ {j} PROVE Good(job[i], job'[i], done'[i])
      <4>1. Good(job[i], Buried(met)[i], done[i]) BY <1>1
      <4>2. job'[i] = Buried(met)[i] BY <2>3
      <4> HIDE DEF Buried
      <4> QED BY <1>2, <4>1, <4>2
    <3> QED BY <3>1, <3>2
  <2>5. DOMAIN job' = Jobs /\ job' = [i \in DOMAIN job' |-> job'[i]]
    BY <2>1
  <2> HIDE DEF Buried, seen, spent, ready
  <2>6. job' \in [Jobs -> RowType] /\ Rows' /\ Moves
        /\ \A v \in Workers : WorkInv(work[v], job', done')
    BY <1>2, <2>4, <2>5, RowsStep
  <2>7. WorkInv(k, job', done')
    BY <2>2, <2>3 DEF WorkInv, WorkType, Idle
  <2>8. Works' /\ work' \in [Workers -> WorkType]
    BY <2>1, <2>6, <2>7, WorkStep
  <2>9. Counts'
    <3>1. \A i \in Jobs : job[i].attempt \in Nat /\ claims[i] \in Nat /\ returned[i] \in Nat
      BY JobsAssumption DEF Inv, TypeOK, RowType
    <3>2. \A i \in Jobs \ {j} : job'[i].attempt = job[i].attempt BY <1>1, <2>3
    <3>3. /\ claims'[j] = claims[j] + 1 /\ \A i \in Jobs \ {j} : claims'[i] = claims[i]
      BY <2>1, <2>3 DEF Inv, TypeOK
    <3>4. job'[j].attempt = job[j].attempt + 1 BY <2>2, <2>3
    <3>5. \A i \in Jobs : claims[i] = job[i].attempt + returned[i] BY DEF Inv, Counts
    <3>6. returned' = returned BY DEF Poll
    <3>7. claims'[j] = job'[j].attempt + returned'[j] BY <2>3, <3>1, <3>3, <3>4, <3>5, <3>6
    <3>8. \A i \in Jobs \ {j} : claims'[i] = job'[i].attempt + returned'[i]
      BY <3>2, <3>3, <3>5, <3>6
    <3> QED BY <3>7, <3>8 DEF Counts
  <2>10. claims' \in [Jobs -> Nat] BY <2>1, <2>3 DEF Inv, TypeOK
  <2>11. TypeOK' BY <1>3, <2>6, <2>8, <2>10 DEF TypeOK, AsideType
  <2> QED BY <2>6, <2>8, <2>9, <2>11 DEF Inv
<1> QED BY <1>4, <1>5 DEF Poll

\* A step of one worker that writes no row.
LEMMA WorkOnly ==
  ASSUME Inv, NEW w \in Workers, NEW k, work' = [work EXCEPT ![w] = k],
         UNCHANGED <<job, home, hand, todo, mode, claims, returned>>,
         budget' \in [DOMAIN Budget -> Nat],
         done' \in [Jobs -> SUBSET Processing], \A j \in Jobs : done[j] \subseteq done'[j],
         WorkInv(k, job', done')
  PROVE Inv' /\ Moves
<1>1. job' \in [Jobs -> RowType] /\ Rows' /\ Moves
      /\ \A v \in Workers : WorkInv(work[v], job', done')
  BY NoWrite
<1>2. Works' /\ work' \in [Workers -> WorkType] BY <1>1, WorkStep
<1>3. Counts' BY CountsKept
<1>4. TypeOK' BY <1>1, <1>2 DEF Inv, TypeOK
<1> QED BY <1>1, <1>2, <1>3, <1>4 DEF Inv

LEMMA EndStageKeeps ==
  ASSUME Inv, NEW w \in Workers, NEW o \in Outcomes, EndStage(w, o)
  PROVE Inv' /\ Moves
<1> USE DEF EndStage
<1> DEFINE j == work[w].job
           r == job[j]
           k == IF r.owner # w \/ r.state \notin Processing THEN Idle
                ELSE [work[w] EXCEPT !.phase = IF r.cancel THEN "cancel" ELSE "write",
                                     !.version = r.version, !.outcome = o]
<1>1. work[w] \in WorkType /\ j \in Jobs /\ work[w].ran \in Processing
  BY DEF Inv, Works, WorkInv
<1>2. work' = [work EXCEPT ![w] = k] BY DEF Inv, TypeOK
<1>3. /\ done' \in [Jobs -> SUBSET Processing] /\ \A i \in Jobs : done[i] \subseteq done'[i]
      /\ o = "done" => work[w].ran \in done'[j]
  BY <1>1, DoneGrows
<1>4. r.version \in Nat /\ r.cancel \in BOOLEAN BY <1>1 DEF Inv, TypeOK, RowType
<1>5. WorkInv(k, job', done')
  <2>1. CASE r.owner # w \/ r.state \notin Processing BY <2>1, IdleInv
  <2>2. CASE ~(r.owner # w \/ r.state \notin Processing)
    <3> DEFINE p == IF r.cancel THEN "cancel" ELSE "write"
               m == [work[w] EXCEPT !.phase = p, !.version = r.version, !.outcome = o]
    <3>1. p \in {"write", "cancel"} /\ (p = "write" => ~r.cancel) OBVIOUS
    <3> HIDE DEF p
    <3>2. /\ m \in WorkType /\ m.phase = p /\ m.version = r.version /\ m.outcome = o
          /\ m.job = j /\ m.ran = work[w].ran
      BY <1>1, <1>4, <3>1 DEF WorkType
    <3>3. k = m BY <2>2 DEF p
    <3> HIDE DEF k, m
    <3>4. job'[j] = r OBVIOUS
    <3> QED BY <1>1, <1>3, <1>4, <3>1, <3>2, <3>3, <3>4 DEF WorkInv
  <2> QED BY <2>1, <2>2
<1>6. budget' \in [DOMAIN Budget -> Nat] BY DEF Inv, TypeOK
<1> QED BY <1>2, <1>3, <1>5, <1>6, WorkOnly

LEMMA LatestKeeps ==
  ASSUME Inv, NEW w \in Workers, Latest(w)
  PROVE Inv' /\ Moves
<1> USE DEF Latest
<1> DEFINE r == job[work[w].job]
           m == [work[w] EXCEPT !.phase = "cancel"]
           k == IF r.owner = w /\ r.cancel /\ r.state \in Processing THEN m ELSE Idle
<1>1. work[w] \in WorkType /\ work[w].job \in Jobs /\ work[w].ran \in Processing
  BY DEF Inv, Works, WorkInv
<1>2. work' = [work EXCEPT ![w] = k] BY DEF Inv, TypeOK
<1>3. WorkInv(m, job', done')
  BY <1>1 DEF WorkInv, WorkType
<1>4. WorkInv(k, job', done')
  BY <1>3, IdleInv
<1>5. /\ budget' \in [DOMAIN Budget -> Nat] /\ done' \in [Jobs -> SUBSET Processing]
      /\ \A i \in Jobs : done[i] \subseteq done'[i]
  BY DEF Inv, TypeOK
<1> QED BY <1>2, <1>4, <1>5, WorkOnly

LEMMA StoreFaultKeeps ==
  ASSUME Inv, NEW w \in Workers, StoreFault(w)
  PROVE Inv' /\ Moves
<1>1. budget' \in [DOMAIN Budget -> Nat] BY SpendType DEF StoreFault
<1>2. done' \in [Jobs -> SUBSET Processing] /\ \A i \in Jobs : done[i] \subseteq done'[i]
  BY DEF StoreFault, Inv, TypeOK
<1> QED BY <1>1, <1>2, IdleInv, WorkOnly DEF StoreFault

\* A worker writes the row of its job and goes on as k.
LEMMA WriteOne ==
  ASSUME Inv, NEW w \in Workers, NEW j \in Jobs, NEW r, NEW k,
         job' = [job EXCEPT ![j] = r], Good(job[j], r, done[j]), r.attempt = job[j].attempt,
         work' = [work EXCEPT ![w] = k], WorkInv(k, job', done'),
         UNCHANGED <<home, hand, todo, mode, budget, claims, returned, done>>
  PROVE Inv' /\ Moves
<1>1. job' \in [Jobs -> RowType] /\ Rows' /\ Moves
      /\ \A v \in Workers : WorkInv(work[v], job', done')
      /\ job'[j] = r /\ \A i \in Jobs \ {j} : job'[i] = job[i]
  BY OneWrite
<1>2. Works' /\ work' \in [Workers -> WorkType] BY <1>1, WorkStep
<1>3. Counts' BY <1>1, CountsKept
<1>4. TypeOK' BY <1>1, <1>2 DEF Inv, TypeOK
<1> QED BY <1>1, <1>2, <1>3, <1>4 DEF Inv

LEMMA WriteKeeps ==
  ASSUME Inv, NEW w \in Workers, Write(w)
  PROVE Inv' /\ Moves
<1> USE DEF Write
<1> DEFINE j == work[w].job
           r == job[j]
           next == NextOf(work[w].ran, r.ocr)
           success == work[w].outcome = "done"
           expected == Expected(r, work[w].ran, work[w].version, w)
<1>1. /\ work[w] \in WorkType /\ j \in Jobs /\ work[w].ran \in Processing
      /\ work[w].outcome \in Outcomes
      /\ work[w].version = r.version => ~r.cancel
      /\ success => work[w].ran \in done[j]
  BY DEF Inv, Works, WorkInv
<1>2. RowInv(r, done[j]) BY <1>1 DEF Inv, Rows
<1>3. CASE expected
  <2>1. r.state = work[w].ran /\ r.version = work[w].version BY <1>3 DEF Expected
  <2> DEFINE s == IF success THEN Moved(r, next, next, "none") ELSE Failed(r, work[w].outcome)
             k == IF success /\ next \in Processing
                  THEN [Idle EXCEPT !.phase = "run", !.job = j, !.ran = next] ELSE Idle
  <2>2. job' = [job EXCEPT ![j] = s] /\ work' = [work EXCEPT ![w] = k] BY <1>3
  <2>3. Good(r, s, done[j]) /\ s.attempt = r.attempt
    <3>1. CASE success BY <1>1, <1>2, <2>1, <3>1, MovedOn
    <3>2. CASE ~success BY <1>1, <1>2, <2>1, <3>2, FailedGood DEF Outcomes
    <3> QED BY <3>1, <3>2
  <2>4. WorkInv(k, job', done')
    BY <1>1, IdleInv DEF WorkInv, WorkType, Idle
  <2> HIDE DEF s, k
  <2> QED BY <1>1, <2>2, <2>3, <2>4, WriteOne
<1>4. CASE ~expected
  <2> DEFINE m == [work[w] EXCEPT !.phase = "latest"]
             k == IF success THEN m ELSE Idle
  <2>1. work' = [work EXCEPT ![w] = k] /\ UNCHANGED job BY <1>4 DEF Inv, TypeOK
  <2>2. WorkInv(m, job', done') BY <1>1 DEF WorkInv, WorkType
  <2>3. WorkInv(k, job', done') BY <2>2, IdleInv
  <2>4. /\ budget' \in [DOMAIN Budget -> Nat] /\ done' \in [Jobs -> SUBSET Processing]
        /\ \A i \in Jobs : done[i] \subseteq done'[i]
    BY DEF Inv, TypeOK
  <2> QED BY <2>1, <2>3, <2>4, WorkOnly
<1> QED BY <1>3, <1>4

LEMMA CancelClaimedKeeps ==
  ASSUME Inv, NEW w \in Workers, CancelClaimed(w)
  PROVE Inv' /\ Moves
<1> USE DEF CancelClaimed
<1> DEFINE j == work[w].job
           r == job[j]
           ends == r.state \in Processing /\ r.owner \in {None, w} /\ r.cancel
<1>1. j \in Jobs BY DEF Inv, Works, WorkInv
<1>2. RowInv(r, done[j]) BY <1>1 DEF Inv, Rows
<1>3. CASE ends
  <2>1. "cancelled" \in Allowed(r.state) /\ r.stage \in States \cup {"absent"}
    BY <1>2, <1>3 DEF Allowed, Processing, RowInv, RowType
  <2>2. /\ Good(r, Moved(r, "cancelled", r.stage, "none"), done[j])
        /\ Moved(r, "cancelled", r.stage, "none").attempt = r.attempt
    BY <1>2, <2>1, MovedOut
  <2> QED BY <1>1, <1>3, <2>2, IdleInv, WriteOne
<1>4. CASE ~ends
  <2>1. /\ budget' \in [DOMAIN Budget -> Nat] /\ done' \in [Jobs -> SUBSET Processing]
        /\ \A i \in Jobs : done[i] \subseteq done'[i]
    BY DEF Inv, TypeOK
  <2> QED BY <1>4, <2>1, IdleInv, WorkOnly
<1> QED BY <1>3, <1>4

-----------------------------------------------------------------------------
(***************************************************************************)
(* The clock, the user, stops and crashes.                                 *)
(***************************************************************************)

\* A step that writes one row and moves no worker.
LEMMA RowOnly ==
  ASSUME Inv, NEW j \in Jobs, NEW r, job' = [job EXCEPT ![j] = r], Good(job[j], r, done[j]),
         r.attempt = job[j].attempt, budget' \in [DOMAIN Budget -> Nat],
         UNCHANGED <<home, hand, todo, mode, work, claims, returned, done>>
  PROVE Inv' /\ Moves
<1>1. job' \in [Jobs -> RowType] /\ Rows' /\ Moves
      /\ \A v \in Workers : WorkInv(work[v], job', done')
      /\ job'[j] = r /\ \A i \in Jobs \ {j} : job'[i] = job[i]
  BY OneWrite
<1>2. Works' BY <1>1 DEF Works
<1>3. Counts' BY <1>1, CountsKept
<1>4. TypeOK' BY <1>1 DEF Inv, TypeOK
<1> QED BY <1>1, <1>2, <1>3, <1>4 DEF Inv

\* The lease of a row is renewed or runs out.
LEMMA LeaseGood ==
  ASSUME NEW r, NEW d, RowInv(r, d), r.owner # None, NEW b \in BOOLEAN
  PROVE Good(r, [r EXCEPT !.live = b], d) /\ [r EXCEPT !.live = b].attempt = r.attempt
<1>1. r \in RowType /\ r.state # "absent" BY DEF RowInv, Processing
<1>2. [r EXCEPT !.live = b] \in RowType BY <1>1 DEF RowType
<1> QED BY <1>1, <1>2, TouchedGood DEF RowType

LEMMA RenewKeeps ==
  ASSUME Inv, NEW w \in Workers, Renew(w)
  PROVE Inv' /\ Moves
<1> USE DEF Renew
<1> DEFINE j == work[w].job
           r == job[j]
<1>1. j \in Jobs /\ RowInv(r, done[j]) BY DEF Inv, Works, WorkInv, Rows
<1>2. r.owner # None BY JobsAssumption
<1>3. job' = [job EXCEPT ![j] = [r EXCEPT !.live = TRUE]] BY <1>1 DEF Inv, TypeOK
<1>4. budget' \in [DOMAIN Budget -> Nat] BY DEF Inv, TypeOK
<1> QED BY <1>1, <1>2, <1>3, <1>4, LeaseGood, RowOnly

LEMMA LapseKeeps ==
  ASSUME Inv, NEW j \in Jobs, Lapse(j)
  PROVE Inv' /\ Moves
<1> USE DEF Lapse
<1>1. RowInv(job[j], done[j]) BY DEF Inv, Rows
<1>2. job' = [job EXCEPT ![j] = [job[j] EXCEPT !.live = FALSE]] BY DEF Inv, TypeOK
<1>3. budget' \in [DOMAIN Budget -> Nat] BY SpendType DEF Inv, TypeOK
<1> QED BY <1>1, <1>2, <1>3, LeaseGood, RowOnly

LEMMA DuePassesKeeps ==
  ASSUME Inv, NEW j \in Jobs, DuePasses(j)
  PROVE Inv' /\ Moves
<1> USE DEF DuePasses
<1> DEFINE r == job[j]
           s == [r EXCEPT !.retry = "now"]
<1>1. RowInv(r, done[j]) /\ r \in RowType BY DEF Inv, Rows, RowInv
<1>2. job' = [job EXCEPT ![j] = s] BY DEF Inv, TypeOK
<1>3. budget' \in [DOMAIN Budget -> Nat] BY DEF Inv, TypeOK
<1>4. r.state # "absent" BY <1>1 DEF RowInv, Absent
<1>5. "now" \in Retries BY DEF Retries
<1>6. s \in RowType /\ s.attempt = r.attempt BY <1>1, <1>5 DEF RowType
<1>7. s.retry # "none" BY <1>1 DEF RowType
<1>8. Good(r, s, done[j]) BY <1>1, <1>4, <1>6, <1>7, TouchedGood DEF RowType
<1> HIDE DEF s
<1> QED BY <1>2, <1>3, <1>6, <1>8, RowOnly

LEMMA CancelKeeps ==
  ASSUME Inv, NEW j \in Jobs, Cancel(j)
  PROVE Inv' /\ Moves
<1>1. RowInv(job[j], done[j]) BY DEF Inv, Rows
<1>2. budget' \in [DOMAIN Budget -> Nat] BY SpendType DEF Cancel
<1>3. Good(job[j], Cancelling(job[j]), done[j]) /\ Cancelling(job[j]).attempt = job[j].attempt
  BY <1>1, CancellingGood DEF Cancel
<1> QED BY <1>2, <1>3, RowOnly DEF Cancel

\* A process ends and its rows change.
LEMMA EndedKeeps ==
  ASSUME Inv, NEW p \in Workers, Ended(p), budget' \in [DOMAIN Budget -> Nat],
         DOMAIN job' = Jobs, job' = [j \in DOMAIN job' |-> job'[j]],
         \A j \in Jobs : Good(job[j], job'[j], done[j]),
         UNCHANGED <<claims, done>>, returned' \in [Jobs -> Nat], Counts'
  PROVE Inv' /\ Moves
<1> USE DEF Ended
<1>1. job' \in [Jobs -> RowType] /\ Rows' /\ Moves
      /\ \A v \in Workers : WorkInv(work[v], job', done')
  BY RowsStep
<1>2. Works' /\ work' \in [Workers -> WorkType] BY <1>1, IdleInv, WorkStep
<1>3. hand' \in [Workers -> [Jobs -> [state : Intake \cup {"none"}, version : Nat]]]
  BY NoCopyType DEF Inv, TypeOK
<1>4. TypeOK' BY <1>1, <1>2, <1>3 DEF Inv, TypeOK
<1> QED BY <1>1, <1>2, <1>4 DEF Inv

LEMMA StopKeeps ==
  ASSUME Inv, NEW w \in Workers, Stop(w)
  PROVE Inv' /\ Moves
<1> USE DEF Stop
<1> DEFINE held == {j \in Jobs : job[j].owner = w /\ job[j].state \in Processing}
<1>1. \A j \in Jobs : job'[j] = IF j \in held THEN Released(job[j]) ELSE job[j]
  OBVIOUS
<1>2. ASSUME NEW j \in Jobs
      PROVE /\ Good(job[j], job'[j], done[j])
            /\ job'[j].attempt + (IF j \in held /\ ~job[j].cancel THEN 1 ELSE 0) = job[j].attempt
  <2>1. RowInv(job[j], done[j]) /\ job[j].attempt \in Nat
    BY JobsAssumption DEF Inv, Rows, TypeOK, RowType
  <2>2. CASE j \in held
    <3>1. job[j].owner # None BY <2>2, JobsAssumption
    <3>2. /\ Good(job[j], Released(job[j]), done[j])
          /\ Released(job[j]).attempt + (IF job[j].cancel THEN 0 ELSE 1) = job[j].attempt
      BY <2>1, <2>2, <3>1, ReleasedGood
    <3> QED BY <1>1, <2>2, <3>2
  <2>3. CASE j \notin held
    BY <1>1, <2>1, <2>3, SameGood
  <2> QED BY <2>2, <2>3
<1>3. \A j \in Jobs : returned'[j] = returned[j] + (IF j \in held /\ ~job[j].cancel THEN 1 ELSE 0)
  OBVIOUS
<1>4. returned' \in [Jobs -> Nat] BY DEF Inv, TypeOK
<1>5. Counts'
  <2>1. ASSUME NEW j \in Jobs PROVE claims'[j] = job'[j].attempt + returned'[j]
    <3>1. claims[j] = job[j].attempt + returned[j] /\ claims'[j] = claims[j] BY DEF Inv, Counts
    <3>2. job[j].attempt \in Nat /\ job'[j].attempt \in Nat /\ returned[j] \in Nat
      BY <1>2, JobsAssumption DEF Inv, TypeOK, RowType, Good, RowInv
    <3> QED BY <1>2, <1>3, <3>1, <3>2
  <2> QED BY <2>1 DEF Counts
<1>6. budget' \in [DOMAIN Budget -> Nat] BY SpendType
<1>7. DOMAIN job' = Jobs /\ job' = [j \in DOMAIN job' |-> job'[j]] OBVIOUS
<1> QED BY <1>2, <1>4, <1>5, <1>6, <1>7, EndedKeeps

LEMMA CrashKeeps ==
  ASSUME Inv, NEW p \in Workers, Crash(p)
  PROVE Inv' /\ Moves
<1> USE DEF Crash
<1>1. ASSUME NEW j \in Jobs
      PROVE Good(job[j], job'[j], done[j]) /\ job'[j].attempt = job[j].attempt
  <2> DEFINE r == job[j]
             s == [r EXCEPT !.owner = "gone"]
  <2>1. RowInv(r, done[j]) /\ r \in RowType BY DEF Inv, Rows, RowInv
  <2>2. CASE r.owner = p
    <3>1. job'[j] = s BY <2>2
    <3>2. r.owner # None BY <2>2, JobsAssumption
    <3>3. s \in RowType /\ s.attempt = r.attempt BY <2>1 DEF RowType
    <3>4. r.state # "absent" BY <2>1, <3>2 DEF RowInv, Processing
    <3>5. s.owner # None BY <2>1, JobsAssumption DEF RowType
    <3>6. Good(r, s, done[j]) BY <2>1, <3>2, <3>3, <3>4, <3>5, TouchedGood DEF RowType
    <3> QED BY <3>1, <3>3, <3>6
  <2>3. CASE r.owner # p
    <3>1. job'[j] = r BY <2>3
    <3> QED BY <2>1, <3>1, SameGood
  <2> QED BY <2>2, <2>3
<1>2. Counts' BY <1>1, CountsKept
<1>3. budget' \in [DOMAIN Budget -> Nat] BY SpendType
<1>4. DOMAIN job' = Jobs /\ job' = [j \in DOMAIN job' |-> job'[j]] OBVIOUS
<1>5. returned' \in [Jobs -> Nat] BY DEF Inv, TypeOK
<1> QED BY <1>1, <1>2, <1>3, <1>4, <1>5, EndedKeeps

-----------------------------------------------------------------------------
(***************************************************************************)
(* The theorems.                                                           *)
(***************************************************************************)

LEMMA InitInv == ASSUME Init PROVE Inv
<1>1. \A j \in Jobs : Absent \in RowType /\ job[j] = Absent
  <2>1. "none" \in Retries /\ 0 \in 0 .. MaxAttempts BY JobsAssumption DEF Retries
  <2> QED BY <2>1 DEF Init, Absent, RowType
<1>2. TypeOK
  <2>1. Idle \in WorkType BY DEF Idle, WorkType
  <2>2. Budget \in [DOMAIN Budget -> Nat] BY JobsAssumption
  <2> QED BY <1>1, <2>1, <2>2, NoCopyType DEF Init, TypeOK
<1>3. Rows
  <2>1. Place(Absent) = "absent" /\ Before("absent", Absent.ocr) = {}
    BY DEF Place, Before, Absent
  <2>2. Absent.state = "absent" /\ Absent.owner = None /\ Absent.attempt = 0 BY DEF Absent
  <2>3. ASSUME NEW j \in Jobs PROVE RowInv(job[j], done[j])
    <3>1. job[j] = Absent /\ Absent \in RowType BY <1>1
    <3>2. RowInv(Absent, done[j]) BY <2>1, <2>2, <3>1 DEF RowInv, Processing
    <3> QED BY <3>1, <3>2
  <2> QED BY <2>3 DEF Rows
<1>4. Works BY IdleInv DEF Works, Init
<1>5. Counts
  <2>1. Absent.attempt = 0 BY DEF Absent
  <2>2. \A j \in Jobs : claims[j] = 0 /\ returned[j] = 0 BY DEF Init
  <2>3. \A j \in Jobs : job[j].attempt = 0 BY <1>1, <2>1
  <2>4. 0 = 0 + 0 OBVIOUS
  <2> QED BY <2>2, <2>3, <2>4 DEF Counts
<1> QED BY <1>2, <1>3, <1>4, <1>5 DEF Inv

LEMMA NextKeeps ==
  ASSUME Inv, [Next]_vars
  PROVE Inv' /\ Moves
<1>1. CASE UNCHANGED vars
  <2>1. TypeOK' BY <1>1 DEF Inv, TypeOK, vars
  <2> QED BY <1>1, <2>1, AsideKeeps DEF vars
<1>2. ASSUME NEW p \in Workers, StartStep(p) PROVE Inv' /\ Moves
  BY <1>2, StartKeeps, RescueKeeps, StartLoopKeeps DEF StartStep
<1>3. ASSUME NEW p \in Workers, LoopStep(p) PROVE Inv' /\ Moves
  BY <1>3, PollKeeps, EndStageKeeps, WriteKeeps, LatestKeeps, CancelClaimedKeeps DEF LoopStep
<1>4. ASSUME NEW p \in Workers, Renew(p) \/ StoreFault(p) \/ Stop(p) \/ Crash(p)
      PROVE Inv' /\ Moves
  BY <1>4, RenewKeeps, StoreFaultKeeps, StopKeeps, CrashKeeps
<1>5. ASSUME NEW p \in Workers, NEW j \in Jobs, Publish(p, j) \/ IntakeStep(p, j) \/ IntakeFault(p, j)
      PROVE Inv' /\ Moves
  BY <1>5, PublishKeeps, AdvanceIntakeKeeps, EndValidationKeeps, IntakeFaultKeeps DEF IntakeStep
<1>6. ASSUME NEW j \in Jobs, Lapse(j) \/ DuePasses(j) \/ Cancel(j)
      PROVE Inv' /\ Moves
  BY <1>6, LapseKeeps, DuePassesKeeps, CancelKeeps
<1> QED BY <1>1, <1>2, <1>3, <1>4, <1>5, <1>6 DEF Next

\* The invariant holds of every reachable state, for any number of jobs,
\* processes, attempts and faults.
THEOREM Invariance == Spec => []Inv
<1>1. Init => Inv BY InitInv
<1>2. Inv /\ [Next]_vars => Inv' BY NextKeeps
<1> QED BY <1>1, <1>2, PTL DEF Spec

\* The variables keep their types, and no attempt count passes max_attempts.
THEOREM TypeCorrect == Spec => []TypeOK
<1>1. Inv => TypeOK BY DEF Inv
<1> QED BY <1>1, Invariance, PTL

\* No job is claimed more than max_attempts times, claims given back by a
\* graceful stop aside.
THEOREM AttemptsAreBounded == Spec => []AttemptsBounded
<1>1. Inv => AttemptsBounded
  <2>1. ASSUME Inv, NEW j \in Jobs PROVE claims[j] <= MaxAttempts + returned[j]
    <3>1. /\ claims[j] = job[j].attempt + returned[j] /\ returned[j] \in Nat
          /\ job[j].attempt \in 0 .. MaxAttempts
      BY <2>1 DEF Inv, Counts, TypeOK, RowType
    <3> QED BY <3>1, JobsAssumption
  <2> QED BY <2>1 DEF AttemptsBounded
<1> QED BY <1>1, Invariance, PTL

\* A job whose cancellation was accepted is never published as ready.
THEOREM CancelledStaysUnready == Spec => []CancelledIsNotReady
<1>1. Inv => CancelledIsNotReady BY DEF Inv, Rows, RowInv, CancelledIsNotReady
<1> QED BY <1>1, Invariance, PTL

\* A ready job has been through every stage of its pipeline.
THEOREM ReadyIsEarned == Spec => []ReadyMeansDone
<1>1. Inv => ReadyMeansDone
  <2>1. ASSUME Inv, NEW j \in Jobs, job[j].state = "ready"
        PROVE /\ {"validating", "normalizing", "indexing", "verifying"} \subseteq done[j]
              /\ (IF job[j].ocr THEN "ocr_running" ELSE "parsing") \in done[j]
    <3>1. Before(Place(job[j]), job[j].ocr) \subseteq done[j] BY <2>1 DEF Inv, Rows, RowInv
    <3>2. Place(job[j]) = "ready" BY <2>1 DEF Place
    <3>3. Before("ready", job[j].ocr) =
            {"validating", Reader(job[j].ocr), "normalizing", "indexing", "verifying"}
      BY DEF Before
    <3> QED BY <3>1, <3>2, <3>3 DEF Reader
  <2> QED BY <2>1 DEF ReadyMeansDone
<1> QED BY <1>1, Invariance, PTL

\* Every change of a job's state is one the transition table allows.
THEOREM MovesAreAllowed == Spec => MovesAllowed
<1>1. Inv /\ [Next]_vars => [Moves]_vars BY NextKeeps
<1>2. [Moves]_vars <=> [\A j \in Jobs : job'[j].state \in Allowed(job[j].state) \cup {job[j].state}]_vars
  BY DEF Moves
<1> QED BY <1>1, <1>2, Invariance, PTL DEF Spec, MovesAllowed

\* A job in somebody's sight: it waits where claim_next looks for it, with a
\* due time if it is a retry, or it is leased, so that it is worked on or its
\* lease runs out and recovery finds it.
Findable(r) ==
  \/ r.state \in {"ready_to_parse", "ocr_required"} /\ ~r.cancel
  \/ r.state = "retry_wait" /\ r.retry # "none" /\ ~r.cancel
  \/ r.owner # None

\* The exception: a cancellation that the recovery of the intake ran past.
Overlooked(r) == r.cancel /\ r.attempt = 0

NoneIsOrphaned ==
  \A j \in Jobs : job[j].state \notin Intake \cup Terminal \cup {"absent"} =>
                    Findable(job[j]) \/ Overlooked(job[j])

\* Whatever crashes, lapses, stops, faults and late writes happen, no job past
\* its intake is orphaned: no write leaves a stage without a lease, a retry
\* without a due time, or a cancelled job where no worker takes it.
THEOREM NoOrphans == Spec => []NoneIsOrphaned
<1>1. Inv => NoneIsOrphaned
  <2>1. ASSUME NEW r, NEW d, RowInv(r, d), r.state \notin Intake \cup Terminal \cup {"absent"}
        PROVE Findable(r) \/ Overlooked(r)
    <3>1. r.state \in Pending \cup Processing BY <2>1 DEF RowInv, RowType, States
    <3>2. CASE r.state \in Processing
      BY <2>1, <3>2 DEF RowInv, Intake, Findable
    <3>3. CASE r.state \in Pending
      <4>1. r.state \in {"ready_to_parse", "ocr_required", "retry_wait"}
        BY <2>1, <3>3 DEF Pending, Intake
      <4>2. CASE r.cancel BY <2>1, <4>2 DEF RowInv, Findable, Overlooked
      <4>3. CASE ~r.cancel BY <2>1, <4>1, <4>3 DEF RowInv, Findable
      <4> QED BY <4>2, <4>3
    <3> QED BY <3>1, <3>2, <3>3
  <2> QED BY <2>1 DEF Inv, Rows, NoneIsOrphaned
<1> QED BY <1>1, Invariance, PTL

\* A job asked to cancel that has not ended is leased, or no worker's attempt
\* at it counts.
CancelledIsHeld ==
  \A j \in Jobs : job[j].cancel /\ job[j].state \notin Terminal =>
                    job[j].owner # None \/ job[j].attempt = 0

\* Cancellation is cooperative and a worker's loop honours it: once a worker
\* has an attempt at a job on record, a cancelled job has ended or is leased,
\* so the loop, a stop or a recovery ends it. CancelEnds is violated where no
\* worker has: by a job that is cancelled in its intake.
THEOREM WorkersHonourCancels == Spec => []CancelledIsHeld
<1>1. Inv => CancelledIsHeld BY DEF Inv, Rows, RowInv, CancelledIsHeld
<1> QED BY <1>1, Invariance, PTL
=============================================================================
