----------------------- MODULE DocumentIntake_proofs -----------------------
(***************************************************************************)
(* Proofs about DocumentIntake. The types hold by themselves; the capacity *)
(* needs no more. That the fence is shut for an upload taken over needs to  *)
(* know whose reservation a recovery has in hand (Fences); the exception   *)
(* is an upload taken by the process it runs in. The rows of a published   *)
(* job need the fence and what each upload has written so far (Wholes).    *)
(* That an upload's leavings are found again needs to know when an upload  *)
(* is over for certain, and what a recovery has read of it (Founds).       *)
(***************************************************************************)
EXTENDS DocumentIntake, FiniteSetTheorems, TLAPS

InHand == {"check", "discard", "release", "undo"}

\* The types, and that a recovery in the middle of a row has that row.
Types ==
  /\ TypeOK
  /\ \A p \in Processes : sweep[p].at \in InHand => sweep[p].cur \in Scanned

-----------------------------------------------------------------------------
(***************************************************************************)
(* Types.                                                                  *)
(***************************************************************************)

LEMMA BudgetDomain == DOMAIN Budget = {"crash", "error", "lapse"}
BY IntakeAssumption

LEMMA SpendType ==
  ASSUME TypeOK, NEW kind \in {"crash", "error", "lapse"}, Spend(kind)
  PROVE budget' \in [DOMAIN Budget -> Nat]
<1>1. budget \in [{"crash", "error", "lapse"} -> Nat] BY BudgetDomain DEF TypeOK
<1>2. budget[kind] \in Nat /\ budget[kind] > 0 BY <1>1 DEF Spend
<1>3. budget[kind] - 1 \in Nat BY <1>2
<1>4. budget' = [budget EXCEPT ![kind] = budget[kind] - 1] BY DEF Spend
<1>5. budget' \in [{"crash", "error", "lapse"} -> Nat] BY <1>1, <1>3, <1>4
<1> QED BY <1>5, BudgetDomain

LEMMA OwnerType == ASSUME TypeOK, NEW p \in Processes PROVE Me(p) \in Owners
BY DEF TypeOK, Me, Owners

LEMMA DocType == ASSUME NEW i \in Intakes PROVE Doc(i) \in DocIds /\ KeyOf[i] \in Keys
BY IntakeAssumption DEF Doc, DocIds

LEMMA ClosedType == ASSUME NEW r \in RowType PROVE Closed(r) \in RowType
BY DEF Closed, RowType

LEMMA ReleasedType ==
  ASSUME TypeOK, NEW i \in Intakes, NEW o
  PROVE Released(i, o) \in [Intakes -> RowType] /\ Finished(i, o) \in [Intakes -> RowType]
<1>1. res \in [Intakes -> RowType] BY DEF TypeOK
<1>2. Closed(res[i]) \in RowType BY <1>1, ClosedType
<1>3. [res EXCEPT ![i] = Closed(res[i])] \in [Intakes -> RowType] BY <1>1, <1>2
<1> QED BY <1>1, <1>3 DEF Released, Finished

LEMMA DiscardType ==
  ASSUME TypeOK, NEW i \in Intakes, Discard(i)
  PROVE /\ docs' \in [Keys -> Intakes \cup {None}]
        /\ vers' \in [Keys -> [tag : Intakes \cup {None}, doc : DocIds \cup {None}]]
<1>1. /\ docs \in [Keys -> Intakes \cup {None}]
      /\ vers \in [Keys -> [tag : Intakes \cup {None}, doc : DocIds \cup {None}]]
  BY DEF TypeOK
<1>2. NoVersion \in [tag : Intakes \cup {None}, doc : DocIds \cup {None}] BY DEF NoVersion
<1>3. docs' = docs \/ docs' = [docs EXCEPT ![KeyOf[i]] = None] BY DEF Discard
<1>4. vers' = vers \/ vers' = [vers EXCEPT ![KeyOf[i]] = NoVersion] BY DEF Discard
<1>5. docs' \in [Keys -> Intakes \cup {None}] BY <1>1, <1>3
<1>6. vers' \in [Keys -> [tag : Intakes \cup {None}, doc : DocIds \cup {None}]]
  BY <1>1, <1>2, <1>4
<1> QED BY <1>5, <1>6

\* A call that goes on to another place.
LEMMA GoesType ==
  ASSUME TypeOK, NEW i \in Intakes,
         NEW at \in {"reserved", "document", "version", "publish", "abandon", "check",
                     "discard", "release", "finish"},
         Goes(i, at)
  PROVE call' \in [Intakes -> CallType]
<1>1. call \in [Intakes -> CallType] BY DEF TypeOK
<1>2. [call[i] EXCEPT !.at = at] \in CallType BY <1>1 DEF CallType
<1>3. call' = [call EXCEPT ![i] = [call[i] EXCEPT !.at = at]] BY DEF Goes
<1> QED BY <1>1, <1>2, <1>3

LEMMA EndedType == Ended \in CallType /\ NoCall \in CallType
BY DEF Ended, NoCall, CallType

SweepsTyped ==
  /\ sweep' \in [Processes -> SweepType]
  /\ \A p \in Processes : sweep'[p].at \in InHand => sweep'[p].cur \in Scanned

\* A recovery moves to a new place; with a row in hand it has a row.
LEMMA SweepChange ==
  ASSUME Types, NEW p \in Processes, NEW s \in SweepType, s.at \in InHand => s.cur \in Scanned,
         sweep' = [sweep EXCEPT ![p] = s]
  PROVE SweepsTyped
<1>1. sweep \in [Processes -> SweepType] BY DEF Types, TypeOK
<1>2. sweep' \in [Processes -> SweepType] BY <1>1
<1>3. ASSUME NEW q \in Processes, sweep'[q].at \in InHand PROVE sweep'[q].cur \in Scanned
  <2>1. CASE q = p BY <1>1, <1>3, <2>1
  <2>2. CASE q # p
    <3>1. sweep'[q] = sweep[q] BY <1>1, <2>2
    <3> QED BY <1>3, <3>1 DEF Types
  <2> QED BY <2>1, <2>2
<1> QED BY <1>2, <1>3 DEF SweepsTyped

LEMMA SweepsType ==
  ASSUME Types, NEW p \in Processes, NEW at \in {"take", "discard", "release"}, Sweeps(p, at),
         at # "take" => sweep[p].at \in InHand
  PROVE SweepsTyped
<1>1. sweep \in [Processes -> SweepType] BY DEF Types, TypeOK
<1> DEFINE c == IF at = "take" THEN None ELSE sweep[p].cur
           s == [sweep[p] EXCEPT !.at = at, !.cur = c]
<1>2. c \in Scanned \cup {None} /\ (at \in InHand => c \in Scanned)
  BY <1>1 DEF Types, SweepType, InHand
<1>3. sweep' = [sweep EXCEPT ![p] = s]
  BY <1>1 DEF Sweeps, SweepType
<1> HIDE DEF c
<1>4. s \in SweepType /\ s.at = at /\ s.cur = c
  BY <1>1, <1>2 DEF SweepType
<1> HIDE DEF s
<1> QED BY <1>2, <1>3, <1>4, SweepChange

\* Sweeps that stay, and whatever else is of its type.
LEMMA TypesFrom ==
  ASSUME TypeOK', SweepsTyped PROVE Types'
BY DEF Types, SweepsTyped

LEMMA SweepsStay == ASSUME Types, sweep' = sweep PROVE SweepsTyped
BY DEF Types, TypeOK, SweepsTyped

\* An upload's step that changes its call and its reservation only.
LEMMA CallTypes ==
  ASSUME Types, call' \in [Intakes -> CallType], res' \in [Intakes -> RowType],
         budget' \in [DOMAIN Budget -> Nat],
         UNCHANGED <<mode, life, docs, vers, jobs, sweep, taken>>
  PROVE Types'
BY SweepsStay, TypesFrom DEF Types, TypeOK

LEMMA UploadTypes ==
  ASSUME Types, NEW i \in Intakes, UploadStep(i)
  PROVE Types'
<1>1. TypeOK BY DEF Types
<1>2. CASE MarkPublishing(i)
  <2>1. res' \in [Intakes -> RowType]
    <3>1. res \in [Intakes -> RowType] BY <1>1 DEF TypeOK
    <3>2. [res[i] EXCEPT !.publishing = TRUE] \in RowType BY <3>1 DEF RowType
    <3>3. res' = res \/ res' = [res EXCEPT ![i] = [res[i] EXCEPT !.publishing = TRUE]]
      BY <1>2 DEF MarkPublishing
    <3> QED BY <3>1, <3>2, <3>3
  <2>2. call' \in [Intakes -> CallType] BY <1>1, <1>2, GoesType DEF MarkPublishing
  <2> QED BY <1>1, <1>2, <2>1, <2>2, CallTypes DEF MarkPublishing, TypeOK
<1>3. CASE CreateDocument(i)
  <2>1. docs' \in [Keys -> Intakes \cup {None}] BY <1>1, <1>3 DEF CreateDocument, TypeOK
  <2>2. call' \in [Intakes -> CallType] BY <1>1, <1>3, GoesType DEF CreateDocument
  <2>3. TypeOK' BY <1>1, <1>3, <2>1, <2>2 DEF CreateDocument, TypeOK
  <2> QED BY <1>3, <2>3, SweepsStay, TypesFrom DEF CreateDocument
<1>4. CASE CreateVersion(i)
  <2>0. call \in [Intakes -> CallType] BY <1>1 DEF TypeOK
  <2>1. vers' \in [Keys -> [tag : Intakes \cup {None}, doc : DocIds \cup {None}]]
    <3>1. NewVersion(i) \in [tag : Intakes \cup {None}, doc : DocIds \cup {None}]
      BY DocType DEF NewVersion
    <3> QED BY <1>1, <1>4, <3>1 DEF CreateVersion, TypeOK
  <2>2. ASSUME NEW k \in Keys, call' = [call EXCEPT ![i].at = "publish", ![i].ver = k]
        PROVE call' \in [Intakes -> CallType]
    <3>1. [call[i] EXCEPT !.at = "publish", !.ver = k] \in CallType BY <2>0 DEF CallType
    <3>2. call' = [call EXCEPT ![i] = [call[i] EXCEPT !.at = "publish", !.ver = k]]
      BY <2>0, <2>2
    <3> QED BY <2>0, <3>1, <3>2
  <2>3. call' \in [Intakes -> CallType]
    BY <1>1, <1>4, <2>2, GoesType, DocType DEF CreateVersion, Known
  <2>4. TypeOK' BY <1>1, <1>4, <2>1, <2>3 DEF CreateVersion, TypeOK
  <2> QED BY <1>4, <2>4, SweepsStay, TypesFrom DEF CreateVersion
<1>5. CASE Enqueue(i)
  <2>1. jobs' \in [Keys -> [state : {"none", "live", "ended"}, by : Intakes \cup {None},
                            doc : DocIds \cup {None}, ver : Keys \cup {None}]]
    <3> DEFINE new == [state |-> "live", by |-> i, doc |-> Doc(i), ver |-> call[i].ver]
    <3>1. call[i].ver \in Keys \cup {None} BY <1>1 DEF TypeOK, CallType
    <3>2. new \in [state : {"none", "live", "ended"}, by : Intakes \cup {None},
                   doc : DocIds \cup {None}, ver : Keys \cup {None}]
      BY <3>1, DocType
    <3>3. jobs' = jobs \/ jobs' = [jobs EXCEPT ![KeyOf[i]] = new]
      BY <1>5 DEF Enqueue
    <3> HIDE DEF new
    <3> QED BY <1>1, <3>2, <3>3 DEF TypeOK
  <2>2. call' \in [Intakes -> CallType]
    <3>1. \/ Goes(i, "abandon") \/ Goes(i, "finish") BY <1>5 DEF Enqueue
    <3> QED BY <1>1, <3>1, GoesType
  <2>3. TypeOK' BY <1>1, <1>5, <2>1, <2>2 DEF Enqueue, TypeOK
  <2> QED BY <1>5, <2>3, SweepsStay, TypesFrom DEF Enqueue
<1>6. CASE Abandon(i)
  <2> DEFINE a == IF res[i].publishing /\ (res[i].active \/ ~Mine(i)) THEN "check" ELSE "finish"
  <2>0. call \in [Intakes -> CallType] /\ Mine(i) \in BOOLEAN BY <1>1 DEF TypeOK, Mine
  <2>1. a \in {"check", "finish"} OBVIOUS
  <2>2. call' = [call EXCEPT ![i] = [call[i] EXCEPT !.at = a, !.mine = Mine(i)]]
    BY <1>6, <2>0 DEF Abandon
  <2> HIDE DEF a
  <2>3. [call[i] EXCEPT !.at = a, !.mine = Mine(i)] \in CallType
    BY <2>0, <2>1 DEF CallType
  <2>4. call' \in [Intakes -> CallType] BY <2>0, <2>2, <2>3
  <2> QED BY <1>1, <1>6, <2>4, CallTypes DEF Abandon, TypeOK
<1>7. CASE AbandonChecks(i)
  <2>1. call' \in [Intakes -> CallType]
    <3>1. \/ Goes(i, "finish") \/ Goes(i, "discard") BY <1>7 DEF AbandonChecks
    <3> QED BY <1>1, <3>1, GoesType
  <2> QED BY <1>1, <1>7, <2>1, CallTypes DEF AbandonChecks, TypeOK
<1>8. CASE AbandonDiscards(i)
  <2>1. call' \in [Intakes -> CallType]
    <3>1. \/ Goes(i, "finish") \/ Goes(i, "release") BY <1>8 DEF AbandonDiscards
    <3> QED BY <1>1, <3>1, GoesType
  <2>2. TypeOK' BY <1>1, <1>8, <2>1, DiscardType DEF AbandonDiscards, TypeOK
  <2> QED BY <1>8, <2>2, SweepsStay, TypesFrom DEF AbandonDiscards
<1>9. CASE AbandonReleases(i)
  <2>1. call' \in [Intakes -> CallType] BY <1>1, <1>9, GoesType DEF AbandonReleases
  <2>2. res' \in [Intakes -> RowType] BY <1>1, <1>9, ReleasedType DEF AbandonReleases
  <2> QED BY <1>1, <1>9, <2>1, <2>2, CallTypes DEF AbandonReleases, TypeOK
<1>10. CASE Finish(i)
  <2>1. call' \in [Intakes -> CallType] BY <1>1, <1>10, EndedType DEF Finish, TypeOK
  <2>2. res' \in [Intakes -> RowType] BY <1>1, <1>10, ReleasedType DEF Finish
  <2> QED BY <1>1, <1>10, <2>1, <2>2, CallTypes DEF Finish, TypeOK
<1> QED BY <1>2, <1>3, <1>4, <1>5, <1>6, <1>7, <1>8, <1>9, <1>10 DEF UploadStep

LEMMA FaultTypes ==
  ASSUME Types, NEW i \in Intakes, UploadFails(i) \/ AbandonFails(i) \/ FinishFails(i)
  PROVE Types'
<1>1. TypeOK BY DEF Types
<1>2. Spend("error") BY DEF UploadFails, AbandonFails, FinishFails
<1>3. budget' \in [DOMAIN Budget -> Nat] BY <1>1, <1>2, SpendType
<1>4. call' \in [Intakes -> CallType]
  <2>1. CASE UploadFails(i) BY <1>1, <2>1, GoesType DEF UploadFails
  <2>2. CASE AbandonFails(i) BY <1>1, <2>2, GoesType DEF AbandonFails
  <2>3. CASE FinishFails(i) BY <1>1, <2>3, EndedType DEF FinishFails, TypeOK
  <2> QED BY <2>1, <2>2, <2>3
<1>5. UNCHANGED <<mode, life, res, docs, vers, jobs, sweep, taken>>
  BY DEF UploadFails, AbandonFails, FinishFails
<1> QED BY <1>1, <1>3, <1>4, <1>5, CallTypes DEF TypeOK

LEMMA LeaseTypes ==
  ASSUME Types, NEW i \in Intakes, Lapse(i) \/ Heartbeat(i) \/ \E p \in Processes : Reserve(p, i)
  PROVE Types'
<1>1. /\ TypeOK /\ res \in [Intakes -> RowType] /\ call \in [Intakes -> CallType]
      /\ budget \in [DOMAIN Budget -> Nat]
  BY DEF Types, TypeOK
<1>2. CASE Lapse(i)
  <2>1. [res[i] EXCEPT !.lapsed = TRUE] \in RowType BY <1>1 DEF RowType
  <2>2. res' = [res EXCEPT ![i] = [res[i] EXCEPT !.lapsed = TRUE]] BY <1>1, <1>2 DEF Lapse
  <2>3. res' \in [Intakes -> RowType] BY <1>1, <2>1, <2>2
  <2>4. budget' \in [DOMAIN Budget -> Nat] BY <1>1, <1>2, SpendType DEF Lapse
  <2> QED BY <1>1, <1>2, <2>3, <2>4, CallTypes DEF Lapse
<1>3. CASE Heartbeat(i)
  <2>1. CASE call' = [call EXCEPT ![i].fenced = TRUE] /\ UNCHANGED res
    <3>1. [call[i] EXCEPT !.fenced = TRUE] \in CallType BY <1>1 DEF CallType
    <3>2. call' \in [Intakes -> CallType] BY <1>1, <2>1, <3>1
    <3> QED BY <1>1, <1>3, <2>1, <3>2, CallTypes DEF Heartbeat
  <2>2. CASE res' = [res EXCEPT ![i].lapsed = FALSE, ![i].beat = @ + 1] /\ UNCHANGED call
    <3>1. res[i].beat + 1 \in Nat BY <1>1 DEF RowType
    <3>2. [res[i] EXCEPT !.lapsed = FALSE, !.beat = res[i].beat + 1] \in RowType
      BY <1>1, <3>1 DEF RowType
    <3>3. res' = [res EXCEPT ![i] = [res[i] EXCEPT !.lapsed = FALSE, !.beat = res[i].beat + 1]]
      BY <1>1, <2>2 DEF RowType
    <3>4. res' \in [Intakes -> RowType] BY <1>1, <3>2, <3>3
    <3> QED BY <1>1, <1>3, <2>2, <3>4, CallTypes DEF Heartbeat
  <2> QED BY <1>3, <2>1, <2>2 DEF Heartbeat
<1>4. ASSUME NEW p \in Processes, Reserve(p, i) PROVE Types'
  <2> DEFINE r == [NoRow EXCEPT !.active = TRUE, !.owner = Me(p)]
             c == [NoCall EXCEPT !.at = "reserved", !.proc = p]
  <2>1. r \in RowType BY <1>1, OwnerType DEF NoRow, RowType
  <2>2. c \in CallType BY DEF NoCall, CallType
  <2>3. res' = [res EXCEPT ![i] = r] /\ call' = [call EXCEPT ![i] = c] BY <1>4 DEF Reserve
  <2> HIDE DEF r, c
  <2>4. res' \in [Intakes -> RowType] /\ call' \in [Intakes -> CallType]
    BY <1>1, <2>1, <2>2, <2>3
  <2> QED BY <1>1, <1>4, <2>4, CallTypes DEF Reserve
<1> QED BY <1>2, <1>3, <1>4

\* A recovery's step that changes no row of the store.
LEMMA SweepOnly ==
  ASSUME Types, SweepsTyped, res' \in [Intakes -> RowType],
         UNCHANGED <<mode, life, docs, vers, jobs, call, budget, taken>>
  PROVE Types'
BY TypesFrom DEF Types, TypeOK, SweepsTyped

LEMMA NewOwner ==
  ASSUME NEW x \in RowType, NEW o \in Owners, NEW d \in BOOLEAN
  PROVE [x EXCEPT !.owner = o, !.fenced = d] \in RowType
BY DEF RowType

LEMMA TakeTypes ==
  ASSUME Types, NEW p \in Processes, NEW s \in sweep[p].todo, Take(p, s)
  PROVE Types'
<1>1. /\ TypeOK /\ res \in [Intakes -> RowType] /\ sweep \in [Processes -> SweepType]
      /\ taken \in [Intakes -> SUBSET {"taken", "kept", "lost", "back"}]
  BY DEF Types, TypeOK
<1>2. s \in Scanned /\ s.of \in Intakes /\ sweep[p].todo \ {s} \in SUBSET Scanned
  BY <1>1 DEF SweepType, Scanned
<1>3. CASE Claimed(s, p)
  <2> DEFINE d == ~Dead(s.row.owner, p)
             r == [res[s.of] EXCEPT !.owner = Me(p), !.fenced = d]
             w == [at |-> "check", todo |-> sweep[p].todo \ {s}, cur |-> s]
             t == (taken[s.of] \ {"kept"}) \cup {"taken"}
                    \cup {m \in {"lost"} : res[s.of].fenced /\ Dead(s.row.owner, p)}
                    \cup {m \in {"back"} : Working(s.of) /\ call[s.of].proc = p}
  <2>1. d \in BOOLEAN BY DEF Dead
  <2>2. r \in RowType
    <3> HIDE DEF d
    <3>1. res[s.of] \in RowType BY <1>1, <1>2
    <3>2. Me(p) \in Owners BY <1>1, OwnerType
    <3> QED BY <2>1, <3>1, <3>2, NewOwner
  <2>3. w \in SweepType /\ w.at = "check" /\ w.cur = s BY <1>2 DEF SweepType
  <2>4. t \in SUBSET {"taken", "kept", "lost", "back"} BY <1>1, <1>2
  <2>5. /\ res' = [res EXCEPT ![s.of] = r]
        /\ sweep' = [sweep EXCEPT ![p] = w]
        /\ taken' = [taken EXCEPT ![s.of] = t]
    <3>1. /\ res' = [res EXCEPT ![s.of].owner = Me(p), ![s.of].fenced = d]
          /\ sweep' = [sweep EXCEPT ![p] = [at |-> "check", todo |-> @.todo \ {s}, cur |-> s]]
          /\ taken' = [taken EXCEPT ![s.of] =
                        (@ \ {"kept"}) \cup {"taken"}
                          \cup {m \in {"lost"} : res[s.of].fenced /\ Dead(s.row.owner, p)}
                          \cup {m \in {"back"} : Working(s.of) /\ call[s.of].proc = p}]
      BY <1>3 DEF Take
    <3>2. res' = [res EXCEPT ![s.of] = r]
      <4> HIDE DEF d
      <4> QED BY <1>1, <1>2, <3>1
    <3>3. sweep' = [sweep EXCEPT ![p] = w] BY <1>1, <3>1
    <3>4. taken' = [taken EXCEPT ![s.of] = t] BY <1>1, <1>2, <3>1
    <3> QED BY <3>2, <3>3, <3>4
  <2> HIDE DEF r, w, t
  <2>6. SweepsTyped BY <1>2, <2>3, <2>5, SweepChange
  <2>7. TypeOK' BY <1>1, <2>2, <2>4, <2>5, <2>6 DEF Take, TypeOK, SweepsTyped
  <2> QED BY <2>6, <2>7, TypesFrom
<1>4. CASE ~Claimed(s, p)
  <2> DEFINE w == [sweep[p] EXCEPT !.todo = sweep[p].todo \ {s}]
  <2>1. sweep' = [sweep EXCEPT ![p] = w] /\ UNCHANGED <<res, taken>>
    BY <1>1, <1>4 DEF Take
  <2>2. w \in SweepType /\ w.at = sweep[p].at /\ w.cur = sweep[p].cur
    BY <1>1, <1>2 DEF SweepType
  <2>3. w.at \in InHand => w.cur \in Scanned BY <2>2 DEF Types
  <2> HIDE DEF w
  <2>4. SweepsTyped BY <2>1, <2>2, <2>3, SweepChange
  <2> QED BY <1>1, <2>1, <2>4, SweepOnly DEF Take
<1> QED BY <1>3, <1>4

LEMMA FencedTypes ==
  ASSUME Types, NEW p \in Processes, NEW s \in sweep[p].todo, FencedChecks(p, s)
  PROVE Types'
<1>1. sweep \in [Processes -> SweepType] BY DEF Types, TypeOK
<1>2. s \in Scanned /\ sweep[p].todo \ {s} \in SUBSET Scanned BY <1>1 DEF SweepType
<1> DEFINE a == IF Published(s.of) THEN "fenced" ELSE "undo"
           c == IF Published(s.of) THEN None ELSE s
           w == [at |-> a, todo |-> sweep[p].todo \ {s}, cur |-> c]
<1>3. a \in {"fenced", "undo"} /\ c \in Scanned \cup {None} /\ (a \in InHand => c \in Scanned)
  BY <1>2 DEF InHand
<1>4. sweep' = [sweep EXCEPT ![p] = w] BY DEF FencedChecks
<1> HIDE DEF a, c
<1>5. w \in SweepType /\ w.at = a /\ w.cur = c BY <1>2, <1>3 DEF SweepType
<1> HIDE DEF w
<1>6. SweepsTyped BY <1>3, <1>4, <1>5, SweepChange
<1> QED BY <1>6, SweepOnly DEF FencedChecks, Types, TypeOK

LEMMA SweepTypes ==
  ASSUME Types, NEW p \in Processes, SweepStep(p)
  PROVE Types'
<1>1. /\ TypeOK /\ res \in [Intakes -> RowType] /\ sweep \in [Processes -> SweepType]
  BY DEF Types, TypeOK
<1>2. CASE Scan(p)
  <2> DEFINE t == {[of |-> i, row |-> res[i]] : i \in Pending}
             w == [at |-> "take", cur |-> None, todo |-> t]
  <2>1. t \in SUBSET Scanned BY <1>1 DEF Scanned, Pending
  <2>2. sweep' = [sweep EXCEPT ![p] = w] BY <1>2 DEF Scan
  <2> HIDE DEF t
  <2>3. w \in SweepType /\ w.at \notin InHand BY <2>1 DEF SweepType, InHand
  <2> HIDE DEF w
  <2>4. SweepsTyped BY <2>2, <2>3, SweepChange
  <2> QED BY <1>1, <1>2, <2>4, SweepOnly DEF Scan
<1>3. CASE SweepChecks(p)
  <2>1. sweep[p].at \in InHand /\ sweep[p].cur \in Scanned
    BY <1>3 DEF SweepChecks, InHand, Types
  <2>2. sweep[p].cur.of \in Intakes BY <2>1 DEF Scanned
  <2>3. Sweeps(p, "take") \/ Sweeps(p, "discard") \/ Sweeps(p, "release")
    BY <1>3 DEF SweepChecks
  <2>4. SweepsTyped BY <2>1, <2>3, SweepsType
  <2>5. res' \in [Intakes -> RowType] BY <1>1, <1>3, <2>2, ReleasedType DEF SweepChecks
  <2> QED BY <1>3, <2>4, <2>5, SweepOnly DEF SweepChecks
<1>4. CASE SweepDiscards(p)
  <2>1. sweep[p].at \in InHand /\ sweep[p].cur \in Scanned
    BY <1>4 DEF SweepDiscards, InHand, Types
  <2>2. sweep[p].cur.of \in Intakes BY <2>1 DEF Scanned
  <2>3. Sweeps(p, "take") \/ Sweeps(p, "release") BY <1>4 DEF SweepDiscards
  <2>4. SweepsTyped BY <2>1, <2>3, SweepsType
  <2>5. TypeOK' BY <1>1, <1>4, <2>2, <2>4, DiscardType DEF SweepDiscards, TypeOK, SweepsTyped
  <2> QED BY <2>4, <2>5, TypesFrom
<1>5. CASE SweepReleases(p)
  <2>1. sweep[p].at \in InHand /\ sweep[p].cur \in Scanned
    BY <1>5 DEF SweepReleases, InHand, Types
  <2>2. sweep[p].cur.of \in Intakes BY <2>1 DEF Scanned
  <2>3. SweepsTyped BY <1>5, SweepsType DEF SweepReleases
  <2>4. res' \in [Intakes -> RowType] BY <1>1, <1>5, <2>2, ReleasedType DEF SweepReleases
  <2> QED BY <1>5, <2>3, <2>4, SweepOnly DEF SweepReleases
<1>6. CASE FencedScan(p)
  <2> DEFINE t == {[of |-> i, row |-> NoRow] : i \in Fenced}
             w == [at |-> "fenced", cur |-> None, todo |-> t]
  <2>0. NoRow \in RowType BY DEF NoRow, RowType
  <2>1. t \in SUBSET Scanned BY <2>0 DEF Scanned, Fenced
  <2>2. sweep' = [sweep EXCEPT ![p] = w] BY <1>6 DEF FencedScan
  <2> HIDE DEF t
  <2>3. w \in SweepType /\ w.at \notin InHand BY <2>1 DEF SweepType, InHand
  <2> HIDE DEF w
  <2>4. SweepsTyped BY <2>2, <2>3, SweepChange
  <2> QED BY <1>1, <1>6, <2>4, SweepOnly DEF FencedScan
<1>7. CASE FencedDiscards(p)
  <2> DEFINE t == IF Refused(sweep[p].cur.of) THEN {} ELSE sweep[p].todo
             w == [sweep[p] EXCEPT !.at = "fenced", !.cur = None, !.todo = t]
  <2>1. sweep[p].cur \in Scanned BY <1>7 DEF FencedDiscards, InHand, Types
  <2>2. sweep[p].cur.of \in Intakes BY <2>1 DEF Scanned
  <2>3. sweep' = [sweep EXCEPT ![p] = w] BY <1>1, <1>7 DEF FencedDiscards, SweepType
  <2>4. t \in SUBSET Scanned BY <1>1 DEF SweepType
  <2> HIDE DEF t
  <2>5. w \in SweepType /\ w.at \notin InHand BY <1>1, <2>4 DEF SweepType, InHand
  <2> HIDE DEF w
  <2>6. SweepsTyped BY <2>3, <2>5, SweepChange
  <2>7. TypeOK' BY <1>1, <1>7, <2>2, <2>6, DiscardType DEF FencedDiscards, TypeOK, SweepsTyped
  <2> QED BY <2>6, <2>7, TypesFrom
<1>8. CASE SweepEnds(p)
  <2>1. Idle \in SweepType /\ Idle.at \notin InHand BY DEF Idle, SweepType, InHand
  <2>2. SweepsTyped BY <1>8, <2>1, SweepChange DEF SweepEnds
  <2>3. TypeOK' BY <1>1, <1>8, <2>2 DEF SweepEnds, TypeOK, SweepsTyped
  <2> QED BY <2>2, <2>3, TypesFrom
<1>9. ASSUME NEW s \in sweep[p].todo, Take(p, s) \/ FencedChecks(p, s) PROVE Types'
  BY <1>9, TakeTypes, FencedTypes
<1> QED BY <1>2, <1>3, <1>4, <1>5, <1>6, <1>7, <1>8, <1>9 DEF SweepStep

LEMMA SweepFailsTypes ==
  ASSUME Types, NEW p \in Processes, SweepFails(p)
  PROVE Types'
<1>1. /\ TypeOK /\ sweep \in [Processes -> SweepType]
      /\ taken \in [Intakes -> SUBSET {"taken", "kept", "lost", "back"}]
  BY DEF Types, TypeOK
<1>2. budget' \in [DOMAIN Budget -> Nat] BY <1>1, SpendType DEF SweepFails
<1>3. sweep[p].cur \in Scanned BY DEF SweepFails, InHand, Types
<1>4. sweep[p].cur.of \in Intakes BY <1>3 DEF Scanned
<1>5. SweepsTyped
  <2>1. CASE sweep[p].at = "undo"
    <3> DEFINE w == [at |-> "fenced", todo |-> {}, cur |-> None]
    <3>1. w \in SweepType /\ w.at \notin InHand BY DEF SweepType, InHand
    <3>2. sweep' = [sweep EXCEPT ![p] = w] BY <2>1 DEF SweepFails
    <3> HIDE DEF w
    <3> QED BY <3>1, <3>2, SweepChange
  <2>2. CASE sweep[p].at # "undo" BY <2>2, SweepsType DEF SweepFails
  <2> QED BY <2>1, <2>2
<1>6. taken' \in [Intakes -> SUBSET {"taken", "kept", "lost", "back"}]
  <2>1. taken[sweep[p].cur.of] \cup {"kept"} \in SUBSET {"taken", "kept", "lost", "back"} BY <1>1, <1>4
  <2>2. taken' = taken \/ taken' = [taken EXCEPT ![sweep[p].cur.of] = taken[sweep[p].cur.of] \cup {"kept"}]
    BY DEF SweepFails
  <2> QED BY <1>1, <2>1, <2>2
<1>7. TypeOK' BY <1>1, <1>2, <1>5, <1>6 DEF SweepFails, TypeOK, SweepsTyped
<1> QED BY <1>5, <1>7, TypesFrom

LEMMA CrashTypes ==
  ASSUME Types, NEW p \in Processes, Crash(p)
  PROVE Types'
<1>1. /\ TypeOK /\ life \in [Processes -> Nat] /\ call \in [Intakes -> CallType] BY DEF Types, TypeOK
<1>2. Idle \in SweepType /\ Idle.at \notin InHand BY DEF Idle, SweepType, InHand
<1>3. SweepsTyped BY <1>2, SweepChange DEF Crash
<1>4. life' \in [Processes -> Nat]
  <2>1. life[p] + 1 \in Nat BY <1>1
  <2> QED BY <1>1, <2>1 DEF Crash
<1>5. call' \in [Intakes -> CallType] BY <1>1, EndedType DEF Crash
<1>6. budget' \in [DOMAIN Budget -> Nat] BY <1>1, SpendType DEF Crash
<1>7. mode' \in [Processes -> {"down", "starting", "up"}] BY <1>1 DEF Crash, TypeOK
<1>8. TypeOK' BY <1>1, <1>3, <1>4, <1>5, <1>6, <1>7 DEF Crash, TypeOK, SweepsTyped
<1> QED BY <1>3, <1>8, TypesFrom

LEMMA StartTypes ==
  ASSUME Types, NEW p \in Processes, Start(p)
  PROVE Types'
<1>1. TypeOK /\ res \in [Intakes -> RowType] BY DEF Types, TypeOK
<1>2. res' \in [Intakes -> RowType]
  <2>1. \A i \in Intakes : Closed(res[i]) \in RowType BY <1>1, ClosedType
  <2> QED BY <1>1, <2>1 DEF Start
<1>3. mode' \in [Processes -> {"down", "starting", "up"}] BY <1>1 DEF Start, TypeOK
<1>4. TypeOK' BY <1>1, <1>2, <1>3 DEF Start, TypeOK
<1> QED BY <1>4, SweepsStay, TypesFrom DEF Start

LEMMA JobEndsTypes ==
  ASSUME Types, NEW k \in Keys, JobEnds(k)
  PROVE Types'
<1> DEFINE JobType == [state : {"none", "live", "ended"}, by : Intakes \cup {None},
                       doc : DocIds \cup {None}, ver : Keys \cup {None}]
<1>1. TypeOK /\ jobs \in [Keys -> JobType] BY DEF Types, TypeOK
<1>2. [jobs[k] EXCEPT !.state = "ended"] \in JobType BY <1>1
<1>3. jobs' = [jobs EXCEPT ![k] = [jobs[k] EXCEPT !.state = "ended"]] BY <1>1 DEF JobEnds
<1>4. jobs' \in [Keys -> JobType] BY <1>1, <1>2, <1>3
<1>5. TypeOK' BY <1>1, <1>4 DEF JobEnds, TypeOK
<1> QED BY <1>5, SweepsStay, TypesFrom DEF JobEnds

LEMMA TypesKept == ASSUME Types, [Next]_vars PROVE Types'
<1>1. CASE UNCHANGED vars BY <1>1 DEF Types, TypeOK, vars
<1>2. ASSUME NEW i \in Intakes,
             \/ UploadStep(i) \/ UploadFails(i) \/ AbandonFails(i) \/ FinishFails(i)
             \/ Lapse(i) \/ Heartbeat(i) \/ \E p \in Processes : Reserve(p, i)
      PROVE Types'
  BY <1>2, UploadTypes, FaultTypes, LeaseTypes
<1>3. ASSUME NEW p \in Processes, SweepStep(p) \/ SweepFails(p) \/ Crash(p) \/ Start(p)
      PROVE Types'
  BY <1>3, SweepTypes, SweepFailsTypes, CrashTypes, StartTypes
<1> QED BY <1>1, <1>2, <1>3, JobEndsTypes DEF Next

LEMMA InitTypes == ASSUME Init PROVE Types
<1>1. NoRow \in RowType BY DEF NoRow, RowType
<1>2. NoVersion \in [tag : Intakes \cup {None}, doc : DocIds \cup {None}] BY DEF NoVersion
<1>3. NoJob \in [state : {"none", "live", "ended"}, by : Intakes \cup {None},
                 doc : DocIds \cup {None}, ver : Keys \cup {None}]
  BY DEF NoJob
<1>4. Idle \in SweepType /\ Idle.at \notin InHand BY DEF Idle, SweepType, InHand
<1>5. Budget \in [DOMAIN Budget -> Nat] BY IntakeAssumption
<1>6. TypeOK BY <1>1, <1>2, <1>3, <1>4, <1>5, EndedType DEF Init, TypeOK
<1> QED BY <1>4, <1>6 DEF Types, Init

LEMMA TypesHold == Spec => []Types
<1> QED BY InitTypes, TypesKept, PTL DEF Spec

\* The store, the uploads and the recoveries keep their types; every row an
\* upload writes carries the token of an upload.
THEOREM TypeCorrect == Spec => []TypeOK
<1>1. Types => TypeOK BY DEF Types
<1> QED BY <1>1, TypesHold, PTL

-----------------------------------------------------------------------------
(***************************************************************************)
(* What a step may do to reservations, jobs and calls. Only four steps are *)
(* out of the ordinary: a reservation, a publication, a takeover, a crash. *)
(***************************************************************************)

ResFalls ==
  \A i \in Intakes : /\ res'[i].active => res[i].active
                     /\ res'[i].owner = res[i].owner /\ res'[i].fenced = res[i].fenced

JobsKeep ==
  \A k \in Keys : /\ jobs'[k] = NoJob <=> jobs[k] = NoJob
                  /\ jobs'[k].by = jobs[k].by
                  /\ jobs'[k].doc = jobs[k].doc /\ jobs'[k].ver = jobs[k].ver
                  /\ jobs'[k].state = "live" => jobs[k].state = "live"

CallsFall ==
  \A i \in Intakes : /\ call'[i].at = "new" => call[i].at = "new"
                     /\ Working(i)' => Working(i) /\ call'[i].proc = call[i].proc

TakenKeeps ==
  \A i \in Intakes : (taken'[i] = {} <=> taken[i] = {}) /\ (Retaken(i)' <=> Retaken(i))

ModeKeeps == life' = life /\ \A p \in Processes : mode[p] = "up" => mode'[p] = "up"

Ordinary == ResFalls /\ JobsKeep /\ CallsFall /\ TakenKeeps /\ ModeKeeps

\* A reservation that is closed, or left as it is.
LEMMA ClosedFalls ==
  ASSUME Types, NEW i \in Intakes, NEW o, res' = Released(i, o) \/ res' = Finished(i, o)
  PROVE ResFalls
<1>1. res \in [Intakes -> RowType] BY DEF Types, TypeOK
<1>2. /\ ~Closed(res[i]).active /\ Closed(res[i]).owner = res[i].owner
      /\ Closed(res[i]).fenced = res[i].fenced
  BY <1>1 DEF Closed, RowType
<1>3. res' = res \/ res' = [res EXCEPT ![i] = Closed(res[i])] BY DEF Released, Finished
<1> QED BY <1>1, <1>2, <1>3 DEF ResFalls

LEMMA SameFalls == ASSUME res' = res PROVE ResFalls
BY DEF ResFalls

LEMMA SameJobs == ASSUME jobs' = jobs PROVE JobsKeep
BY DEF JobsKeep

LEMMA SameCalls == ASSUME call' = call PROVE CallsFall
BY DEF CallsFall, Working

LEMMA SameRest ==
  ASSUME UNCHANGED <<mode, life, taken>> PROVE TakenKeeps /\ ModeKeeps
BY DEF TakenKeeps, Retaken, ModeKeeps

\* A call that ends, or goes on without new work.
LEMMA CallFalls ==
  ASSUME Types, NEW i \in Intakes, NEW c \in CallType, call' = [call EXCEPT ![i] = c],
         c.at # "new",
         c.at \in {"reserved", "document", "version", "publish"} => Working(i) /\ c.proc = call[i].proc
  PROVE CallsFall
<1>1. call \in [Intakes -> CallType] BY DEF Types, TypeOK
<1> QED BY <1>1 DEF CallsFall, Working

LEMMA GoesFalls ==
  ASSUME Types, NEW i \in Intakes,
         NEW at \in {"reserved", "document", "version", "publish", "abandon", "check",
                     "discard", "release", "finish"},
         Goes(i, at), Working(i) \/ at \notin {"reserved", "document", "version", "publish"}
  PROVE CallsFall
<1>1. call \in [Intakes -> CallType] BY DEF Types, TypeOK
<1> DEFINE c == [call[i] EXCEPT !.at = at]
<1>2. c \in CallType /\ c.at = at /\ c.proc = call[i].proc BY <1>1 DEF CallType
<1>3. call' = [call EXCEPT ![i] = c] BY DEF Goes
<1> HIDE DEF c
<1> QED BY <1>2, <1>3, CallFalls

LEMMA EndedFalls ==
  ASSUME Types, NEW i \in Intakes, call' = [call EXCEPT ![i] = Ended]
  PROVE CallsFall
<1>1. Ended.at = "over" BY DEF Ended, NoCall
<1> QED BY <1>1, EndedType, CallFalls

LEMMA UploadOrdinary ==
  ASSUME Types, NEW i \in Intakes, UploadStep(i), jobs' = jobs
  PROVE Ordinary
<1>1. res \in [Intakes -> RowType] /\ call \in [Intakes -> CallType] BY DEF Types, TypeOK
<1>2. UNCHANGED <<mode, life, taken>>
  BY DEF UploadStep, MarkPublishing, CreateDocument, CreateVersion, Enqueue, Abandon,
         AbandonChecks, AbandonDiscards, AbandonReleases, Finish
<1>3. ResFalls
  <2>1. CASE MarkPublishing(i)
    <3>1. res' = res \/ res' = [res EXCEPT ![i] = [res[i] EXCEPT !.publishing = TRUE]]
      BY <2>1 DEF MarkPublishing
    <3>2. LET r == [res[i] EXCEPT !.publishing = TRUE] IN
            r.active = res[i].active /\ r.owner = res[i].owner /\ r.fenced = res[i].fenced
      BY <1>1 DEF RowType
    <3> QED BY <1>1, <3>1, <3>2 DEF ResFalls
  <2>2. CASE AbandonReleases(i) BY <2>2, ClosedFalls DEF AbandonReleases
  <2>3. CASE Finish(i) BY <2>3, ClosedFalls DEF Finish
  <2>4. CASE CreateDocument(i) \/ CreateVersion(i) \/ Enqueue(i) \/ Abandon(i)
             \/ AbandonChecks(i) \/ AbandonDiscards(i)
    BY <2>4, SameFalls DEF CreateDocument, CreateVersion, Enqueue, Abandon, AbandonChecks, AbandonDiscards
  <2> QED BY <2>1, <2>2, <2>3, <2>4 DEF UploadStep
<1>4. CallsFall
  <2>1. CASE MarkPublishing(i) BY <2>1, GoesFalls DEF MarkPublishing, Working
  <2>2. CASE CreateDocument(i) BY <2>2, GoesFalls DEF CreateDocument, Working
  <2>3. CASE CreateVersion(i)
    <3>1. ASSUME NEW k \in Keys, call' = [call EXCEPT ![i].at = "publish", ![i].ver = k]
          PROVE CallsFall
      <4> DEFINE c == [call[i] EXCEPT !.at = "publish", !.ver = k]
      <4>1. c \in CallType /\ c.at = "publish" /\ c.proc = call[i].proc BY <1>1 DEF CallType
      <4>2. call' = [call EXCEPT ![i] = c] BY <1>1, <3>1
      <4>3. Working(i) BY <2>3 DEF CreateVersion, Working
      <4> HIDE DEF c
      <4> QED BY <4>1, <4>2, <4>3, CallFalls
    <3> QED BY <2>3, <3>1, GoesFalls, DocType DEF CreateVersion, Known
  <2>4. CASE Enqueue(i)
    <3>1. Goes(i, "abandon") \/ Goes(i, "finish") BY <2>4 DEF Enqueue
    <3> QED BY <3>1, GoesFalls
  <2>5. CASE Abandon(i)
    <3> DEFINE a == IF res[i].publishing /\ (res[i].active \/ ~Mine(i)) THEN "check" ELSE "finish"
               c == [call[i] EXCEPT !.at = a, !.mine = Mine(i)]
    <3>1. a \in {"check", "finish"} /\ Mine(i) \in BOOLEAN BY DEF Mine
    <3>2. call' = [call EXCEPT ![i] = c] BY <1>1, <2>5 DEF Abandon
    <3> HIDE DEF a
    <3>3. c \in CallType /\ c.at = a BY <1>1, <3>1 DEF CallType
    <3> HIDE DEF c
    <3> QED BY <3>1, <3>2, <3>3, CallFalls
  <2>6. CASE AbandonChecks(i)
    <3>1. Goes(i, "finish") \/ Goes(i, "discard") BY <2>6 DEF AbandonChecks
    <3> QED BY <3>1, GoesFalls
  <2>7. CASE AbandonDiscards(i)
    <3>1. Goes(i, "finish") \/ Goes(i, "release") BY <2>7 DEF AbandonDiscards
    <3> QED BY <3>1, GoesFalls
  <2>8. CASE AbandonReleases(i) BY <2>8, GoesFalls DEF AbandonReleases
  <2>9. CASE Finish(i) BY <2>9, EndedFalls DEF Finish
  <2> QED BY <2>1, <2>2, <2>3, <2>4, <2>5, <2>6, <2>7, <2>8, <2>9 DEF UploadStep
<1> QED BY <1>2, <1>3, <1>4, SameJobs, SameRest DEF Ordinary

LEMMA AsideOrdinary ==
  ASSUME Types, NEW i \in Intakes,
         UploadFails(i) \/ AbandonFails(i) \/ FinishFails(i) \/ Lapse(i) \/ Heartbeat(i)
  PROVE Ordinary
<1>1. res \in [Intakes -> RowType] /\ call \in [Intakes -> CallType] BY DEF Types, TypeOK
<1>2. UNCHANGED <<mode, life, taken, jobs>>
  BY DEF UploadFails, AbandonFails, FinishFails, Lapse, Heartbeat
<1>3. ResFalls
  <2>1. CASE Lapse(i)
    <3>1. res' = [res EXCEPT ![i] = [res[i] EXCEPT !.lapsed = TRUE]] BY <1>1, <2>1 DEF Lapse
    <3>2. LET r == [res[i] EXCEPT !.lapsed = TRUE] IN
            r.active = res[i].active /\ r.owner = res[i].owner /\ r.fenced = res[i].fenced
      BY <1>1 DEF RowType
    <3> QED BY <1>1, <3>1, <3>2 DEF ResFalls
  <2>2. CASE Heartbeat(i)
    <3>1. res' = res \/ res' = [res EXCEPT ![i].lapsed = FALSE, ![i].beat = @ + 1]
      BY <2>2 DEF Heartbeat
    <3>2. CASE res' = [res EXCEPT ![i].lapsed = FALSE, ![i].beat = @ + 1]
      BY <1>1, <3>2 DEF ResFalls, RowType
    <3> QED BY <3>1, <3>2, SameFalls
  <2>3. CASE UploadFails(i) \/ AbandonFails(i) \/ FinishFails(i)
    BY <2>3, SameFalls DEF UploadFails, AbandonFails, FinishFails
  <2> QED BY <2>1, <2>2, <2>3
<1>4. CallsFall
  <2>1. CASE UploadFails(i) BY <2>1, GoesFalls DEF UploadFails
  <2>2. CASE AbandonFails(i) BY <2>2, GoesFalls DEF AbandonFails
  <2>3. CASE FinishFails(i) BY <2>3, EndedFalls DEF FinishFails
  <2>4. CASE Lapse(i) BY <2>4, SameCalls DEF Lapse
  <2>5. CASE Heartbeat(i)
    <3>1. call' = call \/ call' = [call EXCEPT ![i] = [call[i] EXCEPT !.fenced = TRUE]]
      BY <1>1, <2>5 DEF Heartbeat
    <3>2. LET c == [call[i] EXCEPT !.fenced = TRUE] IN
            c \in CallType /\ c.at = call[i].at /\ c.proc = call[i].proc
      BY <1>1 DEF CallType
    <3>3. Working(i) /\ call[i].at # "new" BY <2>5 DEF Heartbeat, Working
    <3> QED BY <3>1, <3>2, <3>3, CallFalls, SameCalls
  <2> QED BY <2>1, <2>2, <2>3, <2>4, <2>5
<1> QED BY <1>2, <1>3, <1>4, SameJobs, SameRest DEF Ordinary

\* Every step of a recovery but a takeover.
LEMMA SweepOrdinary ==
  ASSUME Types, NEW p \in Processes,
         \/ Scan(p) \/ SweepChecks(p) \/ SweepDiscards(p) \/ SweepReleases(p)
         \/ FencedScan(p) \/ FencedDiscards(p) \/ SweepEnds(p)
         \/ \E s \in sweep[p].todo : (Take(p, s) /\ ~Claimed(s, p)) \/ FencedChecks(p, s)
  PROVE Ordinary
<1>1. UNCHANGED <<jobs, call, taken, life>>
  BY DEF Scan, SweepChecks, SweepDiscards, SweepReleases, FencedScan, FencedDiscards, SweepEnds,
         Take, FencedChecks
<1>2. ResFalls
  <2>1. CASE SweepChecks(p)
    <3>1. sweep[p].cur \in Scanned BY <2>1 DEF SweepChecks, InHand, Types
    <3>2. sweep[p].cur.of \in Intakes BY <3>1 DEF Scanned
    <3> QED BY <2>1, <3>2, ClosedFalls, SameFalls DEF SweepChecks
  <2>2. CASE SweepReleases(p)
    <3>1. sweep[p].cur \in Scanned BY <2>2 DEF SweepReleases, InHand, Types
    <3>2. sweep[p].cur.of \in Intakes BY <3>1 DEF Scanned
    <3> QED BY <2>2, <3>2, ClosedFalls DEF SweepReleases
  <2>3. CASE ~SweepChecks(p) /\ ~SweepReleases(p)
    BY <2>3, SameFalls DEF Scan, SweepDiscards, FencedScan, FencedDiscards, SweepEnds, Take, FencedChecks
  <2> QED BY <2>1, <2>2, <2>3
<1>3. ModeKeeps
  <2>1. mode \in [Processes -> {"down", "starting", "up"}] BY DEF Types, TypeOK
  <2>2. mode' = mode \/ mode' = [mode EXCEPT ![p] = "up"]
    BY DEF Scan, SweepChecks, SweepDiscards, SweepReleases, FencedScan, FencedDiscards, SweepEnds,
           Take, FencedChecks
  <2> QED BY <1>1, <2>1, <2>2 DEF ModeKeeps
<1>4. TakenKeeps BY <1>1 DEF TakenKeeps, Retaken
<1> QED BY <1>1, <1>2, <1>3, <1>4, SameJobs, SameCalls DEF Ordinary

LEMMA FaultOrdinary ==
  ASSUME Types, NEW p \in Processes, Start(p)
  PROVE Ordinary
<1>1. res \in [Intakes -> RowType] BY DEF Types, TypeOK
<1>2. UNCHANGED <<jobs, call, taken, life>> BY DEF Start
<1>3. ResFalls
  <2>1. \A i \in Intakes : /\ ~Closed(res[i]).active /\ Closed(res[i]).owner = res[i].owner
                           /\ Closed(res[i]).fenced = res[i].fenced
    BY <1>1 DEF Closed, RowType
  <2> QED BY <1>1, <2>1 DEF Start, ResFalls
<1>4. ModeKeeps
  <2>1. mode \in [Processes -> {"down", "starting", "up"}] BY DEF Types, TypeOK
  <2> QED BY <1>2, <2>1 DEF Start, ModeKeeps
<1>5. TakenKeeps BY <1>2 DEF TakenKeeps, Retaken
<1> QED BY <1>2, <1>3, <1>4, <1>5, SameJobs, SameCalls DEF Ordinary

LEMMA JobEndsOrdinary ==
  ASSUME Types, NEW k \in Keys, JobEnds(k)
  PROVE Ordinary
<1> DEFINE JobType == [state : {"none", "live", "ended"}, by : Intakes \cup {None},
                       doc : DocIds \cup {None}, ver : Keys \cup {None}]
           e == [jobs[k] EXCEPT !.state = "ended"]
<1>1. jobs \in [Keys -> JobType] BY DEF Types, TypeOK
<1>2. jobs' = [jobs EXCEPT ![k] = e] /\ jobs[k].state = "live" BY <1>1 DEF JobEnds
<1>3. /\ e.by = jobs[k].by /\ e.doc = jobs[k].doc /\ e.ver = jobs[k].ver /\ e.state = "ended"
  BY <1>1
<1>4. NoJob.state = "none" BY DEF NoJob
<1>5. e # NoJob /\ jobs[k] # NoJob BY <1>2, <1>3, <1>4
<1> HIDE DEF e
<1>6. JobsKeep BY <1>1, <1>2, <1>3, <1>5 DEF JobsKeep
<1>7. UNCHANGED <<mode, life, taken, res, call>> BY DEF JobEnds
<1> QED BY <1>6, <1>7, SameFalls, SameCalls, SameRest DEF Ordinary

LEMMA SweepFailsFrame ==
  ASSUME Types, NEW p \in Processes, SweepFails(p)
  PROVE /\ ResFalls /\ JobsKeep /\ CallsFall /\ ModeKeeps
        /\ sweep[p].at \in InHand /\ sweep[p].cur.of \in Intakes
<1>1. UNCHANGED <<mode, life, res, jobs, call>> BY DEF SweepFails
<1>2. sweep[p].at \in InHand /\ sweep[p].cur \in Scanned BY DEF SweepFails, InHand, Types
<1>3. ModeKeeps BY <1>1 DEF ModeKeeps
<1> QED BY <1>1, <1>2, <1>3, SameFalls, SameJobs, SameCalls DEF Scanned

\* A reservation.
LEMMA ReserveFrame ==
  ASSUME Types, NEW i \in Intakes, NEW p \in Processes, Reserve(p, i)
  PROVE /\ call[i].at = "new" /\ p \in Uploaders /\ mode[p] = "up" /\ ~Published(i) /\ Room
        /\ res'[i].active /\ res'[i].owner = Me(p) /\ ~res'[i].fenced
        /\ \A j \in Intakes \ {i} : res'[j] = res[j] /\ call'[j] = call[j]
        /\ call'[i].at = "reserved" /\ call'[i].proc = p
        /\ UNCHANGED <<mode, life, docs, vers, jobs, sweep, taken>>
<1>1. res \in [Intakes -> RowType] /\ call \in [Intakes -> CallType] BY DEF Types, TypeOK
<1>2. call[i].at = "new" BY DEF Reserve, NoCall
<1> DEFINE r == [NoRow EXCEPT !.active = TRUE, !.owner = Me(p)]
           c == [NoCall EXCEPT !.at = "reserved", !.proc = p]
<1>3. res' = [res EXCEPT ![i] = r] /\ call' = [call EXCEPT ![i] = c] BY DEF Reserve
<1>4. r.active /\ r.owner = Me(p) /\ ~r.fenced /\ c.at = "reserved" /\ c.proc = p
  BY DEF NoRow, NoCall
<1> HIDE DEF r, c
<1>5. /\ res'[i] = r /\ call'[i] = c
      /\ \A j \in Intakes \ {i} : res'[j] = res[j] /\ call'[j] = call[j]
  BY <1>1, <1>3
<1> QED BY <1>2, <1>4, <1>5 DEF Reserve

\* A publication: behind the fence, once.
LEMMA PublishFrame ==
  ASSUME Types, NEW i \in Intakes, Enqueue(i), jobs' # jobs
  PROVE LET k == KeyOf[i] IN
        /\ call[i].at = "publish" /\ Fence(i) /\ ~Published(i)
        /\ jobs'[k] # NoJob /\ jobs'[k].by = i /\ jobs'[k].doc = Doc(i)
        /\ jobs'[k].ver = call[i].ver
        /\ \A m \in Keys \ {k} : jobs'[m] = jobs[m]
        /\ call'[i].at = "finish" /\ CallsFall
        /\ \A j \in Intakes \ {i} : call'[j] = call[j]
        /\ UNCHANGED <<mode, life, res, docs, vers, sweep, taken>>
<1>1. jobs \in [Keys -> [state : {"none", "live", "ended"}, by : Intakes \cup {None},
                        doc : DocIds \cup {None}, ver : Keys \cup {None}]]
  BY DEF Types, TypeOK
<1>2. KeyOf[i] \in Keys BY DocType
<1>3. call \in [Intakes -> CallType] BY DEF Types, TypeOK
<1> DEFINE new == [state |-> "live", by |-> i, doc |-> Doc(i), ver |-> call[i].ver]
<1>4. /\ call[i].at = "publish" /\ Fence(i) /\ ~Published(i)
      /\ Goes(i, "finish") /\ jobs' = [jobs EXCEPT ![KeyOf[i]] = new]
      /\ UNCHANGED <<mode, life, res, docs, vers, sweep, taken>>
  BY DEF Enqueue
<1>5. /\ new.by = i /\ new.doc = Doc(i) /\ new.ver = call[i].ver /\ new.state = "live"
      /\ NoJob.state = "none"
  BY DEF NoJob
<1>6. new # NoJob BY <1>5
<1> HIDE DEF new
<1>7. jobs'[KeyOf[i]] = new /\ \A m \in Keys \ {KeyOf[i]} : jobs'[m] = jobs[m] BY <1>1, <1>2, <1>4
<1>8. CallsFall BY <1>4, GoesFalls
<1>9. call'[i].at = "finish" /\ \A j \in Intakes \ {i} : call'[j] = call[j]
  BY <1>3, <1>4 DEF Goes, CallType
<1> QED BY <1>4, <1>5, <1>6, <1>7, <1>8, <1>9

\* A takeover.
LEMMA TakeFrame ==
  ASSUME Types, NEW p \in Processes, NEW s \in sweep[p].todo, Take(p, s), Claimed(s, p)
  PROVE /\ sweep[p].at = "take" /\ s \in Scanned
        /\ res[s.of].active /\ ~Published(s.of)
        /\ res'[s.of].owner = Me(p) /\ res'[s.of].active
        /\ \A j \in Intakes \ {s.of} : res'[j] = res[j] /\ taken'[j] = taken[j]
        /\ taken'[s.of] # {} /\ (Retaken(s.of) => Retaken(s.of)')
        /\ Working(s.of) /\ call[s.of].proc = p => Retaken(s.of)'
        /\ sweep'[p] = [at |-> "check", todo |-> sweep[p].todo \ {s}, cur |-> s]
        /\ \A q \in Processes \ {p} : sweep'[q] = sweep[q]
        /\ UNCHANGED <<mode, life, docs, vers, jobs, call>>
<1>1. /\ res \in [Intakes -> RowType] /\ sweep \in [Processes -> SweepType]
      /\ taken \in [Intakes -> SUBSET {"taken", "kept", "lost", "back"}]
  BY DEF Types, TypeOK
<1>2. s \in Scanned /\ s.of \in Intakes BY <1>1 DEF SweepType, Scanned
<1> DEFINE d == ~Dead(s.row.owner, p)
           r == [res[s.of] EXCEPT !.owner = Me(p), !.fenced = d]
           t == (taken[s.of] \ {"kept"}) \cup {"taken"}
                  \cup {m \in {"lost"} : res[s.of].fenced /\ Dead(s.row.owner, p)}
                  \cup {m \in {"back"} : Working(s.of) /\ call[s.of].proc = p}
           w == [at |-> "check", todo |-> sweep[p].todo \ {s}, cur |-> s]
<1>3. /\ res' = [res EXCEPT ![s.of] = r] /\ taken' = [taken EXCEPT ![s.of] = t]
      /\ sweep' = [sweep EXCEPT ![p] = w]
  BY <1>1, <1>2 DEF Take
<1>4. res[s.of].active /\ ~Published(s.of) BY DEF Claimed
<1>5. r.owner = Me(p) /\ r.active = res[s.of].active
  <2> HIDE DEF d
  <2> QED BY <1>1, <1>2 DEF RowType
<1>6. /\ t # {} /\ ("back" \in taken[s.of] => "back" \in t)
      /\ Working(s.of) /\ call[s.of].proc = p => "back" \in t
  OBVIOUS
<1> HIDE DEF r, t
<1>7. /\ res'[s.of] = r /\ taken'[s.of] = t
      /\ \A j \in Intakes \ {s.of} : res'[j] = res[j] /\ taken'[j] = taken[j]
      /\ sweep'[p] = w /\ \A q \in Processes \ {p} : sweep'[q] = sweep[q]
  BY <1>1, <1>2, <1>3
<1> QED BY <1>2, <1>4, <1>5, <1>6, <1>7 DEF Take, Retaken

-----------------------------------------------------------------------------
(***************************************************************************)
(* The capacity.                                                           *)
(***************************************************************************)

Live == {k \in Keys : jobs[k].state = "live"}

LEMMA Counts ==
  /\ IsFiniteSet(Pending) /\ IsFiniteSet(Live)
  /\ Cardinality(Pending) \in Nat /\ Cardinality(Live) \in Nat
<1>1. Pending \subseteq Intakes /\ Live \subseteq Keys BY DEF Pending, Live
<1>2. IsFiniteSet(Pending) /\ IsFiniteSet(Live) BY <1>1, IntakeAssumption, FS_Subset
<1> QED BY <1>2, FS_CardinalityType

LEMMA AddOne ==
  ASSUME NEW S, NEW x, IsFiniteSet(S)
  PROVE /\ IsFiniteSet(S \cup {x}) /\ Cardinality(S \cup {x}) \in Nat
        /\ Cardinality(S \cup {x}) <= Cardinality(S) + 1
<1>1. IsFiniteSet(S \cup {x}) /\ (Cardinality(S \cup {x}) = IF x \in S THEN Cardinality(S) ELSE Cardinality(S) + 1)
  BY FS_AddElement
<1>2. Cardinality(S) \in Nat /\ Cardinality(S \cup {x}) \in Nat BY <1>1, FS_CardinalityType
<1>3. Cardinality(S \cup {x}) = Cardinality(S) \/ Cardinality(S \cup {x}) = Cardinality(S) + 1 BY <1>1
<1> QED BY <1>1, <1>2, <1>3

\* Nothing is added.
LEMMA Calm ==
  ASSUME CapacityKept, Pending' \subseteq Pending, Live' \subseteq Live
  PROVE CapacityKept'
<1>1. Cardinality(Pending') <= Cardinality(Pending) /\ Cardinality(Pending') \in Nat
  BY Counts, FS_Subset, FS_CardinalityType
<1>2. Cardinality(Live') <= Cardinality(Live) /\ Cardinality(Live') \in Nat
  BY Counts, FS_Subset, FS_CardinalityType
<1>3. Cardinality(Pending) + Cardinality(Live) <= Capacity BY DEF CapacityKept, InFlight, Live
<1>4. Cardinality(Pending') + Cardinality(Live') <= Capacity
  BY <1>1, <1>2, <1>3, Counts, IntakeAssumption
<1> QED BY <1>4 DEF CapacityKept, InFlight, Live

LEMMA CalmStep ==
  ASSUME CapacityKept, ResFalls, JobsKeep
  PROVE CapacityKept'
<1>1. Pending' \subseteq Pending BY DocType DEF Pending, Published, ResFalls, JobsKeep
<1>2. Live' \subseteq Live BY DEF Live, JobsKeep
<1> QED BY <1>1, <1>2, Calm

LEMMA ReserveCounts ==
  ASSUME Types, CapacityKept, NEW i \in Intakes, NEW p \in Processes, Reserve(p, i)
  PROVE CapacityKept'
<1>1. Pending' \subseteq Pending \cup {i} BY ReserveFrame DEF Pending, Published
<1>2. Live' = Live BY ReserveFrame DEF Live
<1>3. Cardinality(Pending) + Cardinality(Live) < Capacity
  BY ReserveFrame DEF Room, InFlight, Live
<1>4. /\ IsFiniteSet(Pending \cup {i}) /\ Cardinality(Pending \cup {i}) <= Cardinality(Pending) + 1
  BY Counts, AddOne
<1>5. /\ Cardinality(Pending') <= Cardinality(Pending \cup {i}) /\ Cardinality(Pending') \in Nat
      /\ Cardinality(Pending \cup {i}) \in Nat
  BY <1>1, <1>4, FS_Subset, FS_CardinalityType
<1>6. Cardinality(Pending') + Cardinality(Live') <= Capacity
  BY <1>2, <1>3, <1>4, <1>5, Counts, IntakeAssumption
<1> QED BY <1>6 DEF CapacityKept, InFlight, Live

\* A reservation turns into a job.
LEMMA PublishCounts ==
  ASSUME Types, CapacityKept, NEW i \in Intakes, Enqueue(i), jobs' # jobs
  PROVE CapacityKept'
<1>1. i \in Pending BY PublishFrame DEF Pending, Fence
<1>2. Pending' \subseteq Pending \ {i}
  <2>1. i \notin Pending' BY PublishFrame DEF Pending, Published
  <2>2. ASSUME NEW j \in Pending' PROVE j \in Pending
    <3>1. j \in Intakes /\ res[j].active /\ jobs'[KeyOf[j]] = NoJob
      BY <2>2, PublishFrame DEF Pending, Published
    <3>2. KeyOf[j] # KeyOf[i] /\ KeyOf[j] \in Keys BY <3>1, PublishFrame, DocType
    <3>3. jobs[KeyOf[j]] = NoJob BY <3>1, <3>2, PublishFrame
    <3> QED BY <3>1, <3>3 DEF Pending, Published
  <2> QED BY <2>1, <2>2
<1>3. Live' \subseteq Live \cup {KeyOf[i]} BY PublishFrame DEF Live
<1>4. Cardinality(Pending \ {i}) = Cardinality(Pending) - 1 /\ IsFiniteSet(Pending \ {i})
  BY <1>1, Counts, FS_RemoveElement
<1>5. Cardinality(Pending') <= Cardinality(Pending \ {i}) /\ Cardinality(Pending') \in Nat
  BY <1>2, <1>4, FS_Subset, FS_CardinalityType
<1>6. /\ IsFiniteSet(Live \cup {KeyOf[i]})
      /\ Cardinality(Live \cup {KeyOf[i]}) <= Cardinality(Live) + 1
  BY Counts, AddOne
<1>7. /\ Cardinality(Live') <= Cardinality(Live \cup {KeyOf[i]}) /\ Cardinality(Live') \in Nat
      /\ Cardinality(Live \cup {KeyOf[i]}) \in Nat
  BY <1>3, <1>6, FS_Subset, FS_CardinalityType
<1>8. Cardinality(Pending) + Cardinality(Live) <= Capacity BY DEF CapacityKept, InFlight, Live
<1>9. Cardinality(Pending') + Cardinality(Live') <= Capacity
  BY <1>4, <1>5, <1>6, <1>7, <1>8, Counts, IntakeAssumption
<1> QED BY <1>9 DEF CapacityKept, InFlight, Live

LEMMA TakeCounts ==
  ASSUME Types, CapacityKept, NEW p \in Processes, NEW s \in sweep[p].todo, Take(p, s), Claimed(s, p)
  PROVE CapacityKept'
<1>1. Pending' \subseteq Pending BY TakeFrame DEF Pending, Published
<1>2. Live' \subseteq Live BY TakeFrame DEF Live
<1> QED BY <1>1, <1>2, Calm

LEMMA CapacityStep == ASSUME Types, CapacityKept, [Next]_vars PROVE CapacityKept'
<1>1. CASE UNCHANGED vars
  <2>1. ResFalls /\ JobsKeep BY <1>1, SameFalls, SameJobs DEF vars
  <2> QED BY <2>1, CalmStep
<1>2. ASSUME NEW i \in Intakes, UploadStep(i) PROVE CapacityKept'
  <2>1. CASE jobs' = jobs BY <1>2, <2>1, UploadOrdinary, CalmStep DEF Ordinary
  <2>2. CASE jobs' # jobs
    <3>1. Enqueue(i)
      BY <1>2, <2>2 DEF UploadStep, MarkPublishing, CreateDocument, CreateVersion, Abandon,
         AbandonChecks, AbandonDiscards, AbandonReleases, Finish
    <3> QED BY <2>2, <3>1, PublishCounts
  <2> QED BY <2>1, <2>2
<1>3. ASSUME NEW i \in Intakes,
             UploadFails(i) \/ AbandonFails(i) \/ FinishFails(i) \/ Lapse(i) \/ Heartbeat(i)
      PROVE CapacityKept'
  BY <1>3, AsideOrdinary, CalmStep DEF Ordinary
<1>4. ASSUME NEW i \in Intakes, NEW p \in Processes, Reserve(p, i) PROVE CapacityKept'
  BY <1>4, ReserveCounts
<1>5. ASSUME NEW p \in Processes, SweepStep(p) PROVE CapacityKept'
  <2>1. CASE \E s \in sweep[p].todo : Take(p, s) /\ Claimed(s, p) BY <2>1, TakeCounts
  <2>2. CASE ~\E s \in sweep[p].todo : Take(p, s) /\ Claimed(s, p)
    BY <1>5, <2>2, SweepOrdinary, CalmStep DEF SweepStep, Ordinary
  <2> QED BY <2>1, <2>2
<1>6. ASSUME NEW p \in Processes, SweepFails(p) PROVE CapacityKept'
  BY <1>6, SweepFailsFrame, CalmStep
<1>7. ASSUME NEW p \in Processes, Crash(p) PROVE CapacityKept'
  BY <1>7, SameFalls, SameJobs, CalmStep DEF Crash
<1>8. ASSUME NEW p \in Processes, Start(p) PROVE CapacityKept'
  BY <1>8, FaultOrdinary, CalmStep DEF Ordinary
<1>9. ASSUME NEW k \in Keys, JobEnds(k) PROVE CapacityKept'
  BY <1>9, JobEndsOrdinary, CalmStep DEF Ordinary
<1> QED BY <1>1, <1>2, <1>3, <1>4, <1>5, <1>6, <1>7, <1>8, <1>9 DEF Next

LEMMA InitCapacity == ASSUME Init PROVE CapacityKept
<1>1. Pending = {} BY DEF Init, Pending, NoRow
<1>2. Live = {} BY DEF Init, Live, NoJob
<1>3. Cardinality({}) = 0 BY FS_EmptySet
<1>4. Cardinality(Pending) + Cardinality(Live) <= Capacity BY <1>1, <1>2, <1>3, IntakeAssumption
<1> QED BY <1>4 DEF CapacityKept, InFlight, Live

\* However many uploads come at once, fail, publish or are taken over, jobs and
\* reservations together never pass the capacity.
THEOREM CapacityIsKept == Spec => []CapacityKept
<1> QED BY InitCapacity, CapacityStep, TypesHold, PTL DEF Spec

-----------------------------------------------------------------------------
(***************************************************************************)
(* The fence. A takeover gives the reservation to the process that sweeps: *)
(* either that is another one than the upload's, and the fence is shut, or *)
(* the upload is retaken.                                                  *)
(***************************************************************************)

IntakeFenced(i) ==
  /\ Working(i) => call[i].proc \in Uploaders
  /\ call[i].at = "new" => ~res[i].active /\ taken[i] = {}
  /\ taken[i] # {} /\ ~Retaken(i) => jobs[KeyOf[i]].by # i /\ (Working(i) => ~Fence(i))
  /\ res[i].fenced => taken[i] # {}

\* A recovery undoes only what was taken over.
SweepFenced(p) ==
  /\ sweep[p].at \in InHand => taken[sweep[p].cur.of] # {}
  /\ sweep[p].at \in {"fenced", "undo"} => \A s \in sweep[p].todo : taken[s.of] # {}

IntakesFenced == \A i \in Intakes : IntakeFenced(i)
SweepsFenced == \A p \in Processes : SweepFenced(p)

LEMMA OrdinaryFenced ==
  ASSUME Types, IntakesFenced, Ordinary
  PROVE IntakesFenced'
<1>1. ASSUME NEW i \in Intakes PROVE IntakeFenced(i)'
  <2>0. IntakeFenced(i) /\ KeyOf[i] \in Keys BY DocType DEF IntakesFenced
  <2>1. /\ call'[i].at = "new" => call[i].at = "new"
        /\ Working(i)' => Working(i) /\ call'[i].proc = call[i].proc
        /\ res'[i].active => res[i].active
        /\ res'[i].owner = res[i].owner /\ res'[i].fenced = res[i].fenced
        /\ (taken'[i] = {} <=> taken[i] = {}) /\ (Retaken(i)' <=> Retaken(i))
        /\ jobs'[KeyOf[i]].by = jobs[KeyOf[i]].by
        /\ life' = life
    BY <2>0 DEF Ordinary, CallsFall, ResFalls, TakenKeeps, JobsKeep, ModeKeeps
  <2>2. Working(i)' => call'[i].proc \in Uploaders BY <2>0, <2>1 DEF IntakeFenced
  <2>3. Working(i)' /\ Fence(i)' => Working(i) /\ Fence(i) BY <2>1 DEF Fence, Mine, Me
  <2> QED BY <2>0, <2>1, <2>2, <2>3 DEF IntakeFenced
<1> QED BY <1>1 DEF IntakesFenced

LEMMA SweepsStayFenced ==
  ASSUME Types, SweepsFenced, sweep' = sweep, mode' = mode, TakenKeeps
  PROVE SweepsFenced'
<1>1. ASSUME NEW p \in Processes PROVE SweepFenced(p)'
  <2>1. SweepFenced(p) /\ sweep[p] \in SweepType BY DEF SweepsFenced, Types, TypeOK
  <2>2. sweep[p].at \in InHand => sweep[p].cur.of \in Intakes BY DEF Types, Scanned
  <2>3. \A s \in sweep[p].todo : s.of \in Intakes BY <2>1 DEF SweepType, Scanned
  <2> QED BY <2>1, <2>2, <2>3 DEF SweepFenced, TakenKeeps
<1> QED BY <1>1 DEF SweepsFenced

\* One recovery moves on.
LEMMA OneSweepFenced ==
  ASSUME Types, SweepsFenced, NEW p \in Processes, SweepFenced(p)', mode' = mode, TakenKeeps,
         \A q \in Processes \ {p} : sweep'[q] = sweep[q]
  PROVE SweepsFenced'
<1>1. ASSUME NEW q \in Processes \ {p} PROVE SweepFenced(q)'
  <2>1. SweepFenced(q) /\ sweep[q] \in SweepType BY DEF SweepsFenced, Types, TypeOK
  <2>2. sweep[q].at \in InHand => sweep[q].cur.of \in Intakes BY DEF Types, Scanned
  <2>3. \A s \in sweep[q].todo : s.of \in Intakes BY <2>1 DEF SweepType, Scanned
  <2> QED BY <2>1, <2>2, <2>3 DEF SweepFenced, TakenKeeps
<1> QED BY <1>1 DEF SweepsFenced

LEMMA SweepStepFenced ==
  ASSUME Types, SweepsFenced, IntakesFenced, NEW p \in Processes, SweepStep(p),
         ~\E s \in sweep[p].todo : Take(p, s) /\ Claimed(s, p)
  PROVE SweepsFenced'
<1>0. /\ sweep \in [Processes -> SweepType] /\ SweepFenced(p)
      /\ sweep[p].at \in InHand => sweep[p].cur \in Scanned
      /\ mode \in [Processes -> {"down", "starting", "up"}]
  BY DEF Types, TypeOK, SweepsFenced
<1>1. TakenKeeps BY SweepOrdinary DEF SweepStep, Ordinary
<1>2. CASE Scan(p)
  <2> DEFINE w == [at |-> "take", cur |-> None,
                   todo |-> {[of |-> i, row |-> res[i]] : i \in Pending}]
  <2>1. sweep' = [sweep EXCEPT ![p] = w] /\ w.at = "take" BY <1>2 DEF Scan
  <2> HIDE DEF w
  <2>2. mode' = mode /\ (mode[p] = "starting" \/ (mode[p] = "up" /\ p \in Servers)) BY <1>2 DEF Scan
  <2>3. SweepFenced(p)' BY <1>0, <2>1, <2>2 DEF SweepFenced, InHand
  <2> QED BY <1>0, <1>1, <2>1, <2>2, <2>3, OneSweepFenced
<1>3. ASSUME NEW at \in {"take", "discard", "release"}, Sweeps(p, at), mode' = mode, taken' = taken,
             at # "take" => sweep[p].at \in InHand, sweep[p].at # "idle"
      PROVE SweepsFenced'
  <2> DEFINE c == IF at = "take" THEN None ELSE sweep[p].cur
             w == [sweep[p] EXCEPT !.at = at, !.cur = c]
  <2>1. sweep' = [sweep EXCEPT ![p] = w] BY <1>0, <1>3 DEF Sweeps, SweepType
  <2>2. at # "take" => c = sweep[p].cur OBVIOUS
  <2> HIDE DEF c
  <2>3. w.at = at /\ w.cur = c BY <1>0 DEF SweepType
  <2> HIDE DEF w
  <2>4. SweepFenced(p)' BY <1>0, <1>3, <2>1, <2>2, <2>3 DEF SweepFenced, InHand
  <2> QED BY <1>0, <1>1, <1>3, <2>1, <2>4, OneSweepFenced
<1>4. CASE SweepChecks(p)
  <2>1. sweep[p].at \in InHand /\ sweep[p].at # "idle" /\ mode' = mode /\ taken' = taken
    BY <1>4 DEF SweepChecks, InHand
  <2>2. Sweeps(p, "take") \/ Sweeps(p, "discard") \/ Sweeps(p, "release") BY <1>4 DEF SweepChecks
  <2> QED BY <1>3, <2>1, <2>2
<1>5. CASE SweepDiscards(p)
  <2>1. sweep[p].at \in InHand /\ sweep[p].at # "idle" /\ mode' = mode /\ taken' = taken
    BY <1>5 DEF SweepDiscards, InHand
  <2>2. Sweeps(p, "take") \/ Sweeps(p, "release") BY <1>5 DEF SweepDiscards
  <2> QED BY <1>3, <2>1, <2>2
<1>6. CASE SweepReleases(p)
  <2>1. sweep[p].at # "idle" /\ mode' = mode /\ taken' = taken /\ Sweeps(p, "take")
    BY <1>6 DEF SweepReleases
  <2> QED BY <1>3, <2>1
<1>7. CASE FencedScan(p)
  <2> DEFINE t == {[of |-> i, row |-> NoRow] : i \in Fenced}
             w == [at |-> "fenced", cur |-> None, todo |-> t]
  <2>1. sweep' = [sweep EXCEPT ![p] = w] /\ mode' = mode /\ taken' = taken BY <1>7 DEF FencedScan
  <2>2. \A s \in t : taken[s.of] # {} BY DEF Fenced, IntakesFenced, IntakeFenced
  <2>3. sweep[p].at # "idle" BY <1>7 DEF FencedScan
  <2> HIDE DEF t
  <2>4. sweep'[p].at = "fenced" /\ sweep'[p].todo = t BY <1>0, <2>1
  <2>5. SweepFenced(p)' BY <1>0, <2>1, <2>2, <2>3, <2>4 DEF SweepFenced, InHand
  <2> QED BY <1>0, <1>1, <2>1, <2>5, OneSweepFenced
<1>8. CASE FencedDiscards(p)
  <2> DEFINE t == IF Refused(sweep[p].cur.of) THEN {} ELSE sweep[p].todo
             w == [sweep[p] EXCEPT !.at = "fenced", !.cur = None, !.todo = t]
  <2>1. sweep' = [sweep EXCEPT ![p] = w] /\ mode' = mode /\ taken' = taken
    BY <1>0, <1>8 DEF FencedDiscards, SweepType
  <2>2. t \subseteq sweep[p].todo OBVIOUS
  <2>3. sweep[p].at = "undo" BY <1>8 DEF FencedDiscards
  <2> HIDE DEF t
  <2>4. sweep'[p].at = "fenced" /\ sweep'[p].todo = t BY <1>0, <2>1 DEF SweepType
  <2>5. SweepFenced(p)' BY <1>0, <2>1, <2>2, <2>3, <2>4 DEF SweepFenced, InHand
  <2> QED BY <1>0, <1>1, <2>1, <2>5, OneSweepFenced
<1>9. CASE SweepEnds(p)
  <2>1. sweep' = [sweep EXCEPT ![p] = Idle] /\ mode' = [mode EXCEPT ![p] = "up"] /\ taken' = taken
    BY <1>9 DEF SweepEnds
  <2>2. Idle.at = "idle" BY DEF Idle
  <2>3. ASSUME NEW q \in Processes PROVE SweepFenced(q)'
    <3>1. CASE q = p BY <1>0, <2>1, <2>2, <3>1 DEF SweepFenced, InHand
    <3>2. CASE q # p
      <4>1. sweep'[q] = sweep[q] /\ mode'[q] = mode[q] BY <1>0, <2>1, <3>2
      <4> QED BY <2>1, <4>1 DEF SweepsFenced, SweepFenced
    <3> QED BY <3>1, <3>2
  <2> QED BY <2>3 DEF SweepsFenced
<1>10. ASSUME NEW s \in sweep[p].todo, Take(p, s), ~Claimed(s, p) PROVE SweepsFenced'
  <2> DEFINE w == [sweep[p] EXCEPT !.todo = sweep[p].todo \ {s}]
  <2>1. sweep' = [sweep EXCEPT ![p] = w] /\ mode' = mode /\ sweep[p].at = "take"
    BY <1>0, <1>10 DEF Take
  <2>2. w.at = sweep[p].at BY <1>0 DEF SweepType
  <2> HIDE DEF w
  <2>3. SweepFenced(p)' BY <1>0, <2>1, <2>2 DEF SweepFenced, InHand
  <2> QED BY <1>0, <1>1, <2>1, <2>3, OneSweepFenced
<1>11. ASSUME NEW s \in sweep[p].todo, FencedChecks(p, s) PROVE SweepsFenced'
  <2> DEFINE a == IF Published(s.of) THEN "fenced" ELSE "undo"
             c == IF Published(s.of) THEN None ELSE s
             w == [at |-> a, todo |-> sweep[p].todo \ {s}, cur |-> c]
  <2>1. sweep' = [sweep EXCEPT ![p] = w] /\ mode' = mode /\ taken' = taken /\ sweep[p].at = "fenced"
    BY <1>11 DEF FencedChecks
  <2>2. a \in {"fenced", "undo"} /\ (a = "undo" => c = s) OBVIOUS
  <2>3. taken[s.of] # {} /\ \A u \in sweep[p].todo : taken[u.of] # {} BY <1>0, <2>1 DEF SweepFenced
  <2> HIDE DEF a, c
  <2>4. sweep'[p].at = a /\ sweep'[p].cur = c /\ sweep'[p].todo = sweep[p].todo \ {s}
    BY <1>0, <2>1
  <2>5. SweepFenced(p)' BY <1>0, <2>1, <2>2, <2>3, <2>4 DEF SweepFenced, InHand
  <2> QED BY <1>0, <1>1, <2>1, <2>5, OneSweepFenced
<1> QED BY <1>2, <1>4, <1>5, <1>6, <1>7, <1>8, <1>9, <1>10, <1>11 DEF SweepStep

LEMMA SweepFailsFenced ==
  ASSUME Types, SweepsFenced, NEW p \in Processes, SweepFails(p)
  PROVE SweepsFenced' /\ TakenKeeps
<1>0. /\ sweep \in [Processes -> SweepType] /\ SweepFenced(p)
      /\ sweep[p].at \in InHand /\ sweep[p].cur.of \in Intakes
      /\ taken \in [Intakes -> SUBSET {"taken", "kept", "lost", "back"}]
      /\ mode' = mode
  BY SweepFailsFrame DEF Types, TypeOK, SweepsFenced, SweepFails
<1>1. TakenKeeps
  <2>1. taken' = taken \/ taken' = [taken EXCEPT ![sweep[p].cur.of] = taken[sweep[p].cur.of] \cup {"kept"}]
    BY DEF SweepFails
  <2>2. PICK c \in Intakes : c = sweep[p].cur.of BY <1>0
  <2>3. taken[c] # {} BY <1>0, <2>2 DEF SweepFenced
  <2>4. taken' = taken \/ taken' = [taken EXCEPT ![c] = taken[c] \cup {"kept"}] BY <2>1, <2>2
  <2>5. ASSUME NEW i \in Intakes
        PROVE (taken'[i] = {} <=> taken[i] = {}) /\ ("back" \in taken'[i] <=> "back" \in taken[i])
    BY <1>0, <2>3, <2>4
  <2> QED BY <2>5 DEF TakenKeeps, Retaken
<1>2. sweep'[p].at = "take" \/ (sweep'[p].at = "fenced" /\ sweep'[p].todo = {})
  <2>1. CASE sweep[p].at = "undo" BY <1>0, <2>1 DEF SweepFails
  <2>2. CASE sweep[p].at # "undo"
    <3>1. Sweeps(p, "take") BY <2>2 DEF SweepFails
    <3> QED BY <1>0, <3>1 DEF Sweeps, SweepType
  <2> QED BY <2>1, <2>2
<1>3. \A q \in Processes \ {p} : sweep'[q] = sweep[q] BY <1>0 DEF SweepFails, Sweeps
<1>4. SweepFenced(p)' BY <1>0, <1>2 DEF SweepFenced, InHand
<1> QED BY <1>0, <1>1, <1>3, <1>4, OneSweepFenced

LEMMA ReserveFenced ==
  ASSUME Types, IntakesFenced, SweepsFenced, NEW i \in Intakes, NEW p \in Processes, Reserve(p, i)
  PROVE IntakesFenced' /\ SweepsFenced'
<1>1. /\ call[i].at = "new" /\ p \in Uploaders /\ mode[p] = "up"
      /\ ~res'[i].fenced /\ call'[i].at = "reserved" /\ call'[i].proc = p
      /\ \A j \in Intakes \ {i} : res'[j] = res[j] /\ call'[j] = call[j]
      /\ UNCHANGED <<mode, life, jobs, sweep, taken>>
  BY ReserveFrame
<1>2. ASSUME NEW j \in Intakes PROVE IntakeFenced(j)'
  <2>1. IntakeFenced(j) BY DEF IntakesFenced
  <2>2. CASE j = i
    <3>1. taken[i] = {} BY <1>1, <2>1, <2>2 DEF IntakeFenced
    <3> QED BY <1>1, <2>2, <3>1 DEF IntakeFenced
  <2>3. CASE j # i
    <3>1. res'[j] = res[j] /\ call'[j] = call[j] BY <1>1, <2>3
    <3> QED BY <1>1, <2>1, <3>1 DEF IntakeFenced, Retaken, Working, Fence, Mine, Me
  <2> QED BY <2>2, <2>3
<1>3. SweepsFenced' BY <1>1, SweepsStayFenced DEF TakenKeeps, Retaken
<1> QED BY <1>2, <1>3 DEF IntakesFenced

LEMMA PublishFenced ==
  ASSUME Types, IntakesFenced, SweepsFenced, NEW i \in Intakes, Enqueue(i), jobs' # jobs
  PROVE IntakesFenced' /\ SweepsFenced' /\ (taken[i] = {} \/ Retaken(i))
<1>1. /\ call[i].at = "publish" /\ Fence(i) /\ CallsFall /\ jobs'[KeyOf[i]].by = i
      /\ \A m \in Keys \ {KeyOf[i]} : jobs'[m] = jobs[m]
      /\ UNCHANGED <<mode, life, res, sweep, taken>>
  BY PublishFrame
<1>2. taken[i] = {} \/ Retaken(i)
  <2>1. Working(i) BY <1>1 DEF Working
  <2> QED BY <1>1, <2>1 DEF IntakesFenced, IntakeFenced
<1>3. ASSUME NEW j \in Intakes PROVE IntakeFenced(j)'
  <2>1. IntakeFenced(j) /\ KeyOf[j] \in Keys BY DocType DEF IntakesFenced
  <2>2. /\ call'[j].at = "new" => call[j].at = "new"
        /\ Working(j)' => Working(j) /\ call'[j].proc = call[j].proc
    BY <1>1 DEF CallsFall
  <2>3. taken[j] # {} /\ ~Retaken(j) => jobs'[KeyOf[j]].by # j
    <3>1. CASE KeyOf[j] = KeyOf[i] BY <1>1, <1>2, <3>1
    <3>2. CASE KeyOf[j] # KeyOf[i]
      <4>1. jobs'[KeyOf[j]] = jobs[KeyOf[j]] BY <1>1, <2>1, <3>2
      <4> QED BY <2>1, <4>1 DEF IntakeFenced
    <3> QED BY <3>1, <3>2
  <2>4. Working(j)' /\ Fence(j)' => Working(j) /\ Fence(j) BY <1>1, <2>2 DEF Fence, Mine, Me
  <2> QED BY <1>1, <2>1, <2>2, <2>3, <2>4 DEF IntakeFenced, Retaken
<1>4. SweepsFenced' BY <1>1, SweepsStayFenced DEF TakenKeeps, Retaken
<1> QED BY <1>2, <1>3, <1>4 DEF IntakesFenced

\* The new owner is another process than the one at work, or the upload is retaken.
LEMMA TakeFenced ==
  ASSUME Types, IntakesFenced, SweepsFenced,
         NEW p \in Processes, NEW s \in sweep[p].todo, Take(p, s), Claimed(s, p)
  PROVE IntakesFenced' /\ SweepsFenced'
<1> DEFINE i == s.of
<1>1. /\ sweep[p].at = "take" /\ s \in Scanned
      /\ res[i].active /\ ~Published(i) /\ res'[i].owner = Me(p)
      /\ \A j \in Intakes \ {i} : res'[j] = res[j] /\ taken'[j] = taken[j]
      /\ taken'[i] # {} /\ (Working(i) /\ call[i].proc = p => Retaken(i)')
      /\ sweep'[p] = [at |-> "check", todo |-> sweep[p].todo \ {s}, cur |-> s]
      /\ \A q \in Processes \ {p} : sweep'[q] = sweep[q]
      /\ UNCHANGED <<mode, life, jobs, call>>
  BY TakeFrame
<1>2. i \in Intakes BY <1>1 DEF Scanned
<1>4. IntakeFenced(i)'
  <2>1. IntakeFenced(i) BY <1>2 DEF IntakesFenced
  <2>2. jobs[KeyOf[i]].by # i
    <3>1. jobs[KeyOf[i]] = NoJob BY <1>1 DEF Published
    <3>2. NoJob.by = None /\ None # i BY <1>2, IntakeAssumption DEF NoJob
    <3> QED BY <3>1, <3>2
  <2>3. call[i].at # "new" BY <1>1, <2>1 DEF IntakeFenced
  <2>4. Working(i) /\ ~Retaken(i)' => ~Mine(i)'
    <3>1. Working(i) /\ ~Retaken(i)' => call[i].proc # p BY <1>1
    <3>2. res'[i].owner = <<p, life[p]>> BY <1>1 DEF Me
    <3>3. Mine(i)' <=> res'[i].owner = <<call[i].proc, life[call[i].proc]>>
      BY <1>1 DEF Mine, Me
    <3> QED BY <3>1, <3>2, <3>3
  <2>5. UNCHANGED <<mode, jobs, call>> BY <1>1
  <2>6. (Working(i)' <=> Working(i)) /\ (Fence(i)' => Mine(i)') BY <2>5 DEF Working, Fence
  <2>7. taken'[i] # {} BY <1>1
  <2> QED BY <2>1, <2>2, <2>3, <2>4, <2>5, <2>6, <2>7 DEF IntakeFenced
<1>5. ASSUME NEW j \in Intakes, j # i PROVE IntakeFenced(j)'
  <2>1. IntakeFenced(j) /\ res'[j] = res[j] /\ taken'[j] = taken[j] BY <1>1, <1>5 DEF IntakesFenced
  <2> QED BY <1>1, <2>1 DEF IntakeFenced, Retaken, Working, Fence, Mine, Me
<1>6. ASSUME NEW q \in Processes PROVE SweepFenced(q)'
  <2>0. \A j \in Intakes : taken[j] # {} => taken'[j] # {} BY <1>1, <1>2
  <2>1. CASE q = p
    <3>1. sweep'[p].at = "check" /\ sweep'[p].cur = s BY <1>1
    <3> QED BY <1>1, <2>1, <3>1 DEF SweepFenced, InHand
  <2>2. CASE q # p
    <3>1. SweepFenced(q) /\ sweep[q] \in SweepType /\ sweep'[q] = sweep[q]
      BY <1>1, <2>2 DEF SweepsFenced, Types, TypeOK
    <3>2. sweep[q].at \in InHand => sweep[q].cur.of \in Intakes BY DEF Types, Scanned
    <3>3. \A u \in sweep[q].todo : u.of \in Intakes BY <3>1 DEF SweepType, Scanned
    <3> QED BY <1>1, <2>0, <3>1, <3>2, <3>3 DEF SweepFenced
  <2> QED BY <2>1, <2>2
<1> QED BY <1>4, <1>5, <1>6 DEF IntakesFenced, SweepsFenced

\* A dead process's uploads are over; it comes back with another identity.
LEMMA CrashFenced ==
  ASSUME Types, IntakesFenced, SweepsFenced, NEW p \in Processes, Crash(p)
  PROVE IntakesFenced' /\ SweepsFenced'
<1>0. /\ life \in [Processes -> Nat] /\ call \in [Intakes -> CallType]
      /\ mode \in [Processes -> {"down", "starting", "up"}] /\ sweep \in [Processes -> SweepType]
  BY DEF Types, TypeOK
<1>1. /\ mode' = [mode EXCEPT ![p] = "down"] /\ sweep' = [sweep EXCEPT ![p] = Idle]
      /\ UNCHANGED <<res, jobs, taken>>
  BY DEF Crash
<1>2. \A q \in Processes \ {p} : life'[q] = life[q] /\ mode'[q] = mode[q] /\ sweep'[q] = sweep[q]
  BY <1>0, <1>1 DEF Crash
<1>3. Ended.at = "over" /\ Idle.at = "idle" BY DEF Ended, NoCall, Idle
<1>4. ASSUME NEW i \in Intakes PROVE IntakeFenced(i)'
  <2>1. IntakeFenced(i) BY DEF IntakesFenced
  <2>2. CASE call[i].proc = p
    <3>1. call'[i].at = "over" BY <1>3, <2>2 DEF Crash
    <3> QED BY <1>1, <2>1, <3>1 DEF IntakeFenced, Retaken, Working
  <2>3. CASE call[i].proc # p
    <3>1. call'[i] = call[i] BY <2>3 DEF Crash
    <3>2. Working(i) => call[i].proc \in Processes \ {p}
      BY <2>1, <2>3, IntakeAssumption DEF IntakeFenced
    <3>3. Working(i) => (Fence(i)' <=> Fence(i))
      BY <1>1, <1>2, <3>1, <3>2 DEF Fence, Mine, Me
    <3>4. Working(i)' <=> Working(i) BY <3>1 DEF Working
    <3> QED BY <1>1, <2>1, <3>1, <3>3, <3>4 DEF IntakeFenced, Retaken
  <2> QED BY <2>2, <2>3
<1>5. ASSUME NEW q \in Processes PROVE SweepFenced(q)'
  <2>1. CASE q = p
    <3>1. sweep'[p].at = "idle" BY <1>0, <1>1, <1>3
    <3> QED BY <2>1, <3>1 DEF SweepFenced, InHand
  <2>2. CASE q # p BY <1>1, <1>2, <2>2 DEF SweepsFenced, SweepFenced
  <2> QED BY <2>1, <2>2
<1> QED BY <1>4, <1>5 DEF IntakesFenced, SweepsFenced

LEMMA StartFenced ==
  ASSUME Types, SweepsFenced, NEW p \in Processes, Start(p)
  PROVE SweepsFenced'
<1>1. /\ mode \in [Processes -> {"down", "starting", "up"}] /\ mode[p] = "down"
      /\ mode' = [mode EXCEPT ![p] = "starting"] /\ UNCHANGED <<sweep, taken>>
  BY DEF Types, TypeOK, Start
<1>2. ASSUME NEW q \in Processes PROVE SweepFenced(q)'
  <2>1. q # p => mode'[q] = mode[q] BY <1>1
  <2> QED BY <1>1, <2>1 DEF SweepsFenced, SweepFenced
<1> QED BY <1>2 DEF SweepsFenced

Fences == IntakesFenced /\ SweepsFenced

LEMMA FencesKept ==
  ASSUME Types, Fences, [Next]_vars
  PROVE Fences'
<1>0. IntakesFenced /\ SweepsFenced BY DEF Fences
<1>1. CASE UNCHANGED vars
  <2>1. Ordinary BY <1>1, SameFalls, SameJobs, SameCalls, SameRest DEF vars, Ordinary
  <2> QED BY <1>0, <1>1, <2>1, OrdinaryFenced, SweepsStayFenced DEF vars, Ordinary, Fences
<1>2. ASSUME NEW i \in Intakes, UploadStep(i) PROVE Fences'
  <2>1. sweep' = sweep /\ mode' = mode
    BY <1>2 DEF UploadStep, MarkPublishing, CreateDocument, CreateVersion, Enqueue, Abandon,
         AbandonChecks, AbandonDiscards, AbandonReleases, Finish
  <2>2. CASE jobs' = jobs
    BY <1>0, <1>2, <2>1, <2>2, UploadOrdinary, OrdinaryFenced, SweepsStayFenced DEF Ordinary, Fences
  <2>3. CASE jobs' # jobs
    <3>1. Enqueue(i)
      BY <1>2, <2>3 DEF UploadStep, MarkPublishing, CreateDocument, CreateVersion, Abandon,
         AbandonChecks, AbandonDiscards, AbandonReleases, Finish
    <3> QED BY <1>0, <2>3, <3>1, PublishFenced DEF Fences
  <2> QED BY <2>2, <2>3
<1>3. ASSUME NEW i \in Intakes,
             UploadFails(i) \/ AbandonFails(i) \/ FinishFails(i) \/ Lapse(i) \/ Heartbeat(i)
      PROVE Fences'
  <2>1. sweep' = sweep /\ mode' = mode
    BY <1>3 DEF UploadFails, AbandonFails, FinishFails, Lapse, Heartbeat
  <2> QED BY <1>0, <1>3, <2>1, AsideOrdinary, OrdinaryFenced, SweepsStayFenced DEF Ordinary, Fences
<1>4. ASSUME NEW i \in Intakes, NEW p \in Processes, Reserve(p, i) PROVE Fences'
  BY <1>0, <1>4, ReserveFenced DEF Fences
<1>5. ASSUME NEW p \in Processes, SweepStep(p) PROVE Fences'
  <2>1. CASE \E s \in sweep[p].todo : Take(p, s) /\ Claimed(s, p)
    BY <1>0, <2>1, TakeFenced DEF Fences
  <2>2. CASE ~\E s \in sweep[p].todo : Take(p, s) /\ Claimed(s, p)
    <3>1. Ordinary BY <1>5, <2>2, SweepOrdinary DEF SweepStep
    <3> QED BY <1>0, <1>5, <2>2, <3>1, OrdinaryFenced, SweepStepFenced DEF Fences
  <2> QED BY <2>1, <2>2
<1>6. ASSUME NEW p \in Processes, SweepFails(p) PROVE Fences'
  <2>1. Ordinary BY <1>0, <1>6, SweepFailsFrame, SweepFailsFenced DEF Ordinary
  <2> QED BY <1>0, <1>6, <2>1, OrdinaryFenced, SweepFailsFenced DEF Fences
<1>7. ASSUME NEW p \in Processes, Crash(p) PROVE Fences'
  BY <1>0, <1>7, CrashFenced DEF Fences
<1>8. ASSUME NEW p \in Processes, Start(p) PROVE Fences'
  BY <1>0, <1>8, FaultOrdinary, OrdinaryFenced, StartFenced DEF Fences
<1>9. ASSUME NEW k \in Keys, JobEnds(k) PROVE Fences'
  BY <1>0, <1>9, JobEndsOrdinary, OrdinaryFenced, SweepsStayFenced DEF JobEnds, Ordinary, Fences
<1> QED BY <1>1, <1>2, <1>3, <1>4, <1>5, <1>6, <1>7, <1>8, <1>9 DEF Next

LEMMA InitFences == ASSUME Init PROVE Fences
<1>1. NoCall.at = "new" /\ ~NoRow.active /\ ~NoRow.fenced /\ Idle.at = "idle"
  BY DEF NoCall, NoRow, Idle
<1> QED BY <1>1 DEF Init, Fences, IntakesFenced, IntakeFenced, SweepsFenced, SweepFenced, Working, InHand

\* An upload whose reservation was taken over never publishes, unless its own
\* process took it back while it ran: for any number of uploads and faults, and
\* any processes, those that both upload and sweep (as a web server does) included.
THEOREM FencedOut == Spec => []TakenOverIsFenced
<1>1. Init => Types /\ Fences BY InitTypes, InitFences
<1>2. Types /\ Fences /\ [Next]_vars => Types' /\ Fences' BY TypesKept, FencesKept
<1>3. Fences => TakenOverIsFenced BY DEF Fences, IntakesFenced, IntakeFenced, TakenOverIsFenced
<1> QED BY <1>1, <1>2, <1>3, PTL DEF Spec

-----------------------------------------------------------------------------
(***************************************************************************)
(* Published jobs are whole, for uploads of new documents with ids of      *)
(* their own. An upload that is about to publish, and was not taken over,  *)
(* still has its rows; one that has published is past its own rollback,    *)
(* and recoveries roll back only what was taken over.                      *)
(***************************************************************************)

OwnIds ==
  /\ \A i \in Intakes : Target[i] = None
  /\ \A i, j \in Intakes : KeyOf[i] = KeyOf[j] => i = j

IntakeWhole(i) ==
  /\ jobs[KeyOf[i]].by = i => call[i].at \in {"finish", "over"}
  /\ call[i].at = "publish" => call[i].ver = KeyOf[i]
  /\ taken[i] = {} /\ call[i].at \in {"version", "publish"} => docs[KeyOf[i]] # None
  /\ taken[i] = {} /\ call[i].at = "publish" => vers[KeyOf[i]] # NoVersion

KeyWhole(k) ==
  /\ vers[k] # NoVersion => vers[k].doc = k
  /\ jobs[k] # NoJob =>
       /\ jobs[k].by \in Intakes /\ KeyOf[jobs[k].by] = k
       /\ jobs[k].doc = k /\ jobs[k].ver = k
       /\ Retaken(jobs[k].by) \/ (docs[k] # None /\ vers[k] # NoVersion)

Wholes == (\A i \in Intakes : IntakeWhole(i)) /\ (\A k \in Keys : KeyWhole(k))

RowsHold(k) == (docs[k] # None => docs'[k] # None) /\ (vers[k] # NoVersion => vers'[k] # NoVersion)

\* Rows go only from under an upload that is not, and will not be, published, or that
\* was retaken.
RowsFall ==
  /\ \A k \in Keys : vers'[k] # NoVersion => vers'[k].doc = k
  /\ \A i \in Intakes :
       \/ RowsHold(KeyOf[i])
       \/ /\ Retaken(i)' \/ jobs[KeyOf[i]].by # i
          /\ taken'[i] # {} \/ call'[i].at \notin {"version", "publish"}

\* No upload comes nearer to its publication.
CallsBack ==
  \A i \in Intakes :
    \/ call'[i].at = call[i].at /\ call'[i].ver = call[i].ver
    \/ /\ call'[i].at \notin {"version", "publish"}
       /\ call[i].at \in {"finish", "over"} => call'[i].at \in {"finish", "over"}

TakenGrows ==
  \A i \in Intakes : (taken[i] # {} => taken'[i] # {}) /\ (Retaken(i) => Retaken(i)')

LEMMA WholeStep ==
  ASSUME Wholes, JobsKeep, RowsFall, CallsBack, TakenGrows
  PROVE Wholes'
<1>1. ASSUME NEW i \in Intakes PROVE IntakeWhole(i)'
  <2>1. IntakeWhole(i) /\ KeyOf[i] \in Keys /\ jobs'[KeyOf[i]].by = jobs[KeyOf[i]].by
    BY DocType DEF Wholes, JobsKeep
  <2>2. call'[i].at \in {"version", "publish"} => call'[i].at = call[i].at /\ call'[i].ver = call[i].ver
    BY DEF CallsBack
  <2>3. call[i].at \in {"finish", "over"} => call'[i].at \in {"finish", "over"} BY DEF CallsBack
  <2>4. RowsHold(KeyOf[i]) \/ taken'[i] # {} \/ call'[i].at \notin {"version", "publish"} BY DEF RowsFall
  <2>5. taken'[i] = {} => taken[i] = {} BY DEF TakenGrows
  <2> QED BY <2>1, <2>2, <2>3, <2>4, <2>5 DEF IntakeWhole, RowsHold
<1>2. ASSUME NEW k \in Keys PROVE KeyWhole(k)'
  <2>1. KeyWhole(k) /\ (vers'[k] # NoVersion => vers'[k].doc = k) BY DEF Wholes, RowsFall
  <2>2. /\ jobs'[k] = NoJob <=> jobs[k] = NoJob
        /\ jobs'[k].by = jobs[k].by /\ jobs'[k].doc = jobs[k].doc /\ jobs'[k].ver = jobs[k].ver
    BY DEF JobsKeep
  <2>3. ASSUME jobs[k] # NoJob
        PROVE /\ RowsHold(k) \/ Retaken(jobs[k].by)'
              /\ Retaken(jobs[k].by) => Retaken(jobs[k].by)'
    <3>1. jobs[k].by \in Intakes /\ KeyOf[jobs[k].by] = k BY <2>1, <2>3 DEF KeyWhole
    <3>2. \A i \in Intakes : jobs[k].by = i => Retaken(jobs[k].by)' = Retaken(i)'
      BY <2>2, <2>3 DEF Retaken
    <3> QED BY <3>1, <3>2 DEF RowsFall, TakenGrows
  <2> QED BY <2>1, <2>2, <2>3 DEF KeyWhole, RowsHold
<1> QED BY <1>1, <1>2 DEF Wholes

LEMMA RowsStay ==
  ASSUME Wholes, UNCHANGED <<docs, vers>> PROVE RowsFall
BY DEF Wholes, KeyWhole, RowsFall, RowsHold

LEMMA CallsStay == ASSUME call' = call PROVE CallsBack
BY DEF CallsBack

LEMMA BackBy ==
  ASSUME Types, NEW i \in Intakes, NEW c \in CallType, call' = [call EXCEPT ![i] = c],
         c.at \notin {"version", "publish"},
         call[i].at \in {"finish", "over"} => c.at \in {"finish", "over"}
  PROVE CallsBack
<1>1. call \in [Intakes -> CallType] BY DEF Types, TypeOK
<1> QED BY <1>1 DEF CallsBack

LEMMA GoesBack ==
  ASSUME Types, NEW i \in Intakes,
         NEW at \in {"reserved", "document", "abandon", "check", "discard", "release", "finish"},
         Goes(i, at), call[i].at \notin {"finish", "over"}
  PROVE CallsBack
<1>1. call \in [Intakes -> CallType] BY DEF Types, TypeOK
<1> DEFINE c == [call[i] EXCEPT !.at = at]
<1>2. c \in CallType /\ c.at = at BY <1>1 DEF CallType
<1>3. call' = [call EXCEPT ![i] = c] BY DEF Goes
<1> HIDE DEF c
<1> QED BY <1>2, <1>3, BackBy

LEMMA EndedBack ==
  ASSUME Types, NEW i \in Intakes, call' = [call EXCEPT ![i] = Ended]
  PROVE CallsBack
<1>1. Ended.at = "over" BY DEF Ended, NoCall
<1> QED BY <1>1, EndedType, BackBy

\* A rollback of one upload takes rows of its own ids only.
LEMMA DiscardFalls ==
  ASSUME Types, OwnIds, Wholes, NEW i \in Intakes, Discard(i),
         Retaken(i)' \/ jobs[KeyOf[i]].by # i,
         taken'[i] # {} \/ call'[i].at \notin {"version", "publish"}
  PROVE RowsFall
<1>1. /\ docs \in [Keys -> Intakes \cup {None}]
      /\ vers \in [Keys -> [tag : Intakes \cup {None}, doc : DocIds \cup {None}]]
      /\ KeyOf[i] \in Keys
  BY DocType DEF Types, TypeOK
<1>2. docs' = docs \/ docs' = [docs EXCEPT ![KeyOf[i]] = None] BY DEF Discard
<1>3. vers' = vers \/ vers' = [vers EXCEPT ![KeyOf[i]] = NoVersion] BY DEF Discard
<1>4. \A k \in Keys : vers'[k] # NoVersion => vers'[k] = vers[k] BY <1>1, <1>3
<1>5. \A k \in Keys \ {KeyOf[i]} : docs'[k] = docs[k] /\ vers'[k] = vers[k] BY <1>1, <1>2, <1>3
<1>6. ASSUME NEW j \in Intakes, j # i PROVE RowsHold(KeyOf[j])
  <2>1. KeyOf[j] \in Keys \ {KeyOf[i]} BY <1>6, DocType DEF OwnIds
  <2> QED BY <1>5, <2>1 DEF RowsHold
<1>7. \A k \in Keys : vers'[k] # NoVersion => vers'[k].doc = k BY <1>4 DEF Wholes, KeyWhole
<1> QED BY <1>6, <1>7 DEF RowsFall

\* The document of the upload's own id.
LEMMA DocumentWhole ==
  ASSUME Types, OwnIds, Wholes, NEW i \in Intakes, CreateDocument(i)
  PROVE Wholes'
<1>1. /\ docs \in [Keys -> Intakes \cup {None}] /\ call \in [Intakes -> CallType]
      /\ KeyOf[i] \in Keys /\ Target[i] = None /\ i # None
  BY DocType, IntakeAssumption DEF Types, TypeOK, OwnIds
<1>2. CASE docs[KeyOf[i]] # None
  <2>1. Goes(i, "abandon") /\ UNCHANGED <<docs, vers, jobs, taken>> BY <1>1, <1>2 DEF CreateDocument
  <2>2. CallsBack BY <2>1, GoesBack DEF CreateDocument
  <2> QED BY <2>1, <2>2, RowsStay, SameJobs, WholeStep DEF TakenGrows, Retaken
<1>3. CASE docs[KeyOf[i]] = None
  <2>1. /\ Goes(i, "version") /\ docs' = [docs EXCEPT ![KeyOf[i]] = i]
        /\ call[i].at = "document" /\ UNCHANGED <<vers, jobs, taken>>
    BY <1>1, <1>3 DEF CreateDocument
  <2>2. /\ call'[i].at = "version" /\ docs'[KeyOf[i]] # None
        /\ \A j \in Intakes \ {i} : call'[j] = call[j]
        /\ \A k \in Keys : docs[k] # None => docs'[k] # None
    BY <1>1, <2>1 DEF Goes, CallType
  <2>3. ASSUME NEW j \in Intakes PROVE IntakeWhole(j)'
    <3>1. IntakeWhole(j) /\ KeyOf[j] \in Keys BY DocType DEF Wholes
    <3>2. CASE j = i BY <2>1, <2>2, <3>1, <3>2 DEF IntakeWhole
    <3>3. CASE j # i
      <4>1. call'[j] = call[j] BY <2>2, <3>3
      <4> QED BY <2>1, <2>2, <3>1, <4>1 DEF IntakeWhole
    <3> QED BY <3>2, <3>3
  <2>4. ASSUME NEW k \in Keys PROVE KeyWhole(k)' BY <2>1, <2>2 DEF Wholes, KeyWhole, Retaken
  <2> QED BY <2>3, <2>4 DEF Wholes
<1> QED BY <1>2, <1>3

\* The version of the upload's own id, the only one its document can have.
LEMMA VersionWhole ==
  ASSUME Types, OwnIds, Wholes, NEW i \in Intakes, CreateVersion(i)
  PROVE Wholes'
<1> DEFINE k == KeyOf[i]
<1>1. /\ vers \in [Keys -> [tag : Intakes \cup {None}, doc : DocIds \cup {None}]]
      /\ call \in [Intakes -> CallType] /\ k \in Keys /\ Doc(i) = k /\ i # None
  BY DocType, IntakeAssumption DEF Types, TypeOK, OwnIds, Doc
<1>2. CASE ~DocExists(k)
  <2>1. Goes(i, "abandon") /\ UNCHANGED <<docs, vers, jobs, taken>> BY <1>1, <1>2 DEF CreateVersion
  <2>2. CallsBack BY <2>1, GoesBack DEF CreateVersion
  <2> QED BY <2>1, <2>2, RowsStay, SameJobs, WholeStep DEF TakenGrows, Retaken
<1>3. CASE DocExists(k)
  <2>0. docs[k] # None BY <1>1, <1>3 DEF DocExists
  <2>1. /\ call[i].at = "version" /\ UNCHANGED <<docs, jobs, taken>>
        /\ \/ /\ \E n \in Known(k) : call' = [call EXCEPT ![i].at = "publish", ![i].ver = n]
              /\ vers' = vers
           \/ /\ vers' = [vers EXCEPT ![k] = NewVersion(i)]
              /\ call' = [call EXCEPT ![i].at = "publish", ![i].ver = k]
    BY <1>1, <1>3 DEF CreateVersion
  <2>2. NoVersion.tag = None /\ NewVersion(i).tag = i /\ NewVersion(i).doc = k
    BY <1>1 DEF NoVersion, NewVersion
  <2>3. \A n \in Known(k) : n = k /\ vers[k] # NoVersion
    BY <2>2 DEF Known, Wholes, KeyWhole
  <2>4. call' = [call EXCEPT ![i].at = "publish", ![i].ver = k] BY <2>1, <2>3
  <2>5. /\ vers'[k] # NoVersion
        /\ \A m \in Keys : /\ vers[m] # NoVersion => vers'[m] # NoVersion
                           /\ vers'[m] # NoVersion => vers'[m].doc = m
    <3>1. CASE vers' = vers /\ Known(k) # {} BY <2>3, <3>1 DEF Wholes, KeyWhole
    <3>2. CASE vers' = [vers EXCEPT ![k] = NewVersion(i)]
      <4>1. vers'[k] = NewVersion(i) /\ \A m \in Keys \ {k} : vers'[m] = vers[m] BY <1>1, <3>2
      <4>2. NewVersion(i) # NoVersion BY <1>1, <2>2
      <4> QED BY <2>2, <4>1, <4>2 DEF Wholes, KeyWhole
    <3> QED BY <2>1, <3>1, <3>2
  <2>6. /\ call'[i].at = "publish" /\ call'[i].ver = k
        /\ \A j \in Intakes \ {i} : call'[j] = call[j]
    BY <1>1, <2>4 DEF CallType
  <2>9. UNCHANGED <<docs, jobs, taken>> BY <2>1
  <2>7. ASSUME NEW j \in Intakes PROVE IntakeWhole(j)'
    <3>1. IntakeWhole(j) /\ KeyOf[j] \in Keys BY DocType DEF Wholes
    <3>2. CASE j = i BY <2>0, <2>1, <2>5, <2>6, <3>1, <3>2 DEF IntakeWhole
    <3>3. CASE j # i
      <4>1. call'[j] = call[j] BY <2>6, <3>3
      <4>2. vers[KeyOf[j]] # NoVersion => vers'[KeyOf[j]] # NoVersion BY <2>5, <3>1
      <4> QED BY <2>9, <3>1, <4>1, <4>2 DEF IntakeWhole
    <3> QED BY <3>2, <3>3
  <2>8. ASSUME NEW m \in Keys PROVE KeyWhole(m)'
    <3>1. KeyWhole(m) BY DEF Wholes
    <3>2. /\ vers[m] # NoVersion => vers'[m] # NoVersion
          /\ vers'[m] # NoVersion => vers'[m].doc = m
      BY <2>5
    <3> QED BY <2>9, <3>1, <3>2 DEF KeyWhole, Retaken
  <2> QED BY <2>7, <2>8 DEF Wholes
<1> QED BY <1>2, <1>3

LEMMA PublishWhole ==
  ASSUME Types, OwnIds, Fences, Wholes, NEW i \in Intakes, Enqueue(i), jobs' # jobs
  PROVE Wholes'
<1> DEFINE k == KeyOf[i]
<1>1. /\ call[i].at = "publish" /\ jobs'[k].by = i /\ jobs'[k].doc = Doc(i)
      /\ jobs'[k].ver = call[i].ver /\ call'[i].at = "finish"
      /\ \A m \in Keys \ {k} : jobs'[m] = jobs[m]
      /\ \A j \in Intakes \ {i} : call'[j] = call[j]
      /\ UNCHANGED <<docs, vers, taken>>
  BY PublishFrame
<1>2. taken[i] = {} \/ Retaken(i) BY PublishFenced DEF Fences
<1>3. Doc(i) = k /\ k \in Keys BY DocType DEF Doc, OwnIds
<1>4. call[i].ver = k /\ (Retaken(i) \/ (docs[k] # None /\ vers[k] # NoVersion))
  BY <1>1, <1>2 DEF Wholes, IntakeWhole
<1>5. ASSUME NEW j \in Intakes PROVE IntakeWhole(j)'
  <2>1. IntakeWhole(j) BY DEF Wholes
  <2>2. CASE j = i BY <1>1, <2>2 DEF IntakeWhole
  <2>3. CASE j # i
    <3>1. KeyOf[j] \in Keys \ {k} BY <2>3, DocType DEF OwnIds
    <3>2. jobs'[KeyOf[j]] = jobs[KeyOf[j]] /\ call'[j] = call[j] BY <1>1, <2>3, <3>1
    <3> QED BY <1>1, <2>1, <3>2 DEF IntakeWhole
  <2> QED BY <2>2, <2>3
<1>6. ASSUME NEW m \in Keys PROVE KeyWhole(m)'
  <2>1. KeyWhole(m) BY DEF Wholes
  <2>2. CASE m = k BY <1>1, <1>3, <1>4, <2>1, <2>2 DEF KeyWhole, Retaken
  <2>3. CASE m # k
    <3>1. jobs'[m] = jobs[m] BY <1>1, <2>3
    <3> QED BY <1>1, <2>1, <3>1 DEF KeyWhole, Retaken
  <2> QED BY <2>2, <2>3
<1> QED BY <1>5, <1>6 DEF Wholes

\* The steps of an upload that bring it no nearer to its publication.
LEMMA UploadBack ==
  ASSUME Types, NEW i \in Intakes,
         \/ MarkPublishing(i) \/ Abandon(i) \/ AbandonChecks(i) \/ AbandonDiscards(i)
         \/ AbandonReleases(i) \/ Finish(i)
  PROVE CallsBack
<1>1. call \in [Intakes -> CallType] BY DEF Types, TypeOK
<1>2. CASE MarkPublishing(i) BY <1>2, GoesBack DEF MarkPublishing
<1>3. CASE Abandon(i)
  <2> DEFINE a == IF res[i].publishing /\ (res[i].active \/ ~Mine(i)) THEN "check" ELSE "finish"
             c == [call[i] EXCEPT !.at = a, !.mine = Mine(i)]
  <2>1. a \in {"check", "finish"} /\ Mine(i) \in BOOLEAN BY DEF Mine
  <2>2. call' = [call EXCEPT ![i] = c] /\ call[i].at = "abandon" BY <1>1, <1>3 DEF Abandon
  <2> HIDE DEF a
  <2>3. c \in CallType /\ c.at = a BY <1>1, <2>1 DEF CallType
  <2> HIDE DEF c
  <2> QED BY <2>1, <2>2, <2>3, BackBy
<1>4. CASE AbandonChecks(i)
  <2>1. call[i].at = "check" /\ (Goes(i, "finish") \/ Goes(i, "discard")) BY <1>4 DEF AbandonChecks
  <2> QED BY <2>1, GoesBack
<1>5. CASE AbandonDiscards(i)
  <2>1. call[i].at = "discard" /\ (Goes(i, "finish") \/ Goes(i, "release"))
    BY <1>5 DEF AbandonDiscards
  <2> QED BY <2>1, GoesBack
<1>6. CASE AbandonReleases(i) BY <1>6, GoesBack DEF AbandonReleases
<1>7. CASE Finish(i) BY <1>7, EndedBack DEF Finish
<1> QED BY <1>2, <1>3, <1>4, <1>5, <1>6, <1>7

LEMMA AsideBack ==
  ASSUME Types, NEW i \in Intakes,
         \/ UploadFails(i) \/ AbandonFails(i) \/ FinishFails(i) \/ Lapse(i) \/ Heartbeat(i)
         \/ \E p \in Processes : Reserve(p, i)
  PROVE CallsBack
<1>1. call \in [Intakes -> CallType] BY DEF Types, TypeOK
<1>2. CASE UploadFails(i) BY <1>2, GoesBack DEF UploadFails, Working
<1>3. CASE AbandonFails(i) BY <1>3, GoesBack DEF AbandonFails
<1>4. CASE FinishFails(i) BY <1>4, EndedBack DEF FinishFails
<1>5. CASE Lapse(i) BY <1>5, CallsStay DEF Lapse
<1>6. CASE Heartbeat(i)
  <2>1. call' = call \/ call' = [call EXCEPT ![i].fenced = TRUE] BY <1>6 DEF Heartbeat
  <2>2. CASE call' = [call EXCEPT ![i].fenced = TRUE] BY <1>1, <2>2 DEF CallsBack, CallType
  <2> QED BY <2>1, <2>2, CallsStay
<1>7. ASSUME NEW p \in Processes, Reserve(p, i) PROVE CallsBack
  <2>1. /\ call[i].at = "new" /\ call'[i].at = "reserved"
        /\ \A j \in Intakes \ {i} : call'[j] = call[j]
    BY <1>7, ReserveFrame
  <2> QED BY <2>1 DEF CallsBack
<1> QED BY <1>2, <1>3, <1>4, <1>5, <1>6, <1>7

LEMMA FaultBack == ASSUME NEW p \in Processes, Crash(p) \/ Start(p) PROVE CallsBack
<1>1. Ended.at = "over" BY DEF Ended, NoCall
<1> QED BY <1>1, CallsStay DEF Crash, Start, CallsBack

LEMMA UploadWhole ==
  ASSUME Types, OwnIds, Fences, Wholes, NEW i \in Intakes, UploadStep(i)
  PROVE Wholes'
<1>1. TakenGrows /\ call \in [Intakes -> CallType]
  BY DEF UploadStep, MarkPublishing, CreateDocument, CreateVersion, Enqueue, Abandon,
         AbandonChecks, AbandonDiscards, AbandonReleases, Finish, TakenGrows, Retaken, Types, TypeOK
<1>2. CASE CreateDocument(i) BY <1>2, DocumentWhole
<1>3. CASE CreateVersion(i) BY <1>3, VersionWhole
<1>4. CASE Enqueue(i)
  <2>1. CASE jobs' # jobs BY <1>4, <2>1, PublishWhole
  <2>2. CASE jobs' = jobs
    <3>1. call[i].at = "publish" /\ UNCHANGED <<docs, vers>> /\ (Goes(i, "abandon") \/ Goes(i, "finish"))
      BY <1>4 DEF Enqueue
    <3>2. CallsBack BY <3>1, GoesBack
    <3> QED BY <1>1, <2>2, <3>1, <3>2, RowsStay, SameJobs, WholeStep
  <2> QED BY <2>1, <2>2
<1>5. CASE AbandonDiscards(i)
  <2>1. /\ call[i].at = "discard" /\ Discard(i) /\ jobs' = jobs
        /\ Goes(i, "finish") \/ Goes(i, "release")
    BY <1>5 DEF AbandonDiscards
  <2>2. CallsBack BY <1>5, UploadBack
  <2>3. jobs[KeyOf[i]].by # i BY <2>1 DEF Wholes, IntakeWhole
  <2>4. call'[i].at \notin {"version", "publish"} BY <1>1, <2>1 DEF Goes, CallType
  <2>5. RowsFall BY <2>1, <2>3, <2>4, DiscardFalls
  <2> QED BY <1>1, <2>1, <2>2, <2>5, SameJobs, WholeStep
<1>6. CASE MarkPublishing(i) \/ Abandon(i) \/ AbandonChecks(i) \/ AbandonReleases(i) \/ Finish(i)
  <2>1. UNCHANGED <<docs, vers, jobs>>
    BY <1>6 DEF MarkPublishing, Abandon, AbandonChecks, AbandonReleases, Finish
  <2>2. CallsBack BY <1>6, UploadBack
  <2> QED BY <1>1, <2>1, <2>2, RowsStay, SameJobs, WholeStep
<1> QED BY <1>2, <1>3, <1>4, <1>5, <1>6 DEF UploadStep

LEMMA AsideWhole ==
  ASSUME Types, Wholes, NEW i \in Intakes,
         \/ UploadFails(i) \/ AbandonFails(i) \/ FinishFails(i) \/ Lapse(i) \/ Heartbeat(i)
         \/ \E p \in Processes : Reserve(p, i)
  PROVE Wholes'
<1>1. UNCHANGED <<docs, vers, jobs, taken>>
  BY DEF UploadFails, AbandonFails, FinishFails, Lapse, Heartbeat, Reserve
<1> QED BY <1>1, AsideBack, RowsStay, SameJobs, WholeStep DEF TakenGrows, Retaken

LEMMA SweepWhole ==
  ASSUME Types, OwnIds, Fences, Wholes, NEW p \in Processes, SweepStep(p) \/ SweepFails(p)
  PROVE Wholes'
<1>1. CallsBack /\ jobs' = jobs
  BY CallsStay DEF SweepStep, SweepFails, Scan, SweepChecks, SweepDiscards, SweepReleases,
     FencedScan, FencedDiscards, SweepEnds, Take, FencedChecks
<1>2. TakenGrows
  <2>1. ASSUME NEW s \in sweep[p].todo, Take(p, s), Claimed(s, p) PROVE TakenGrows
    <3>1. s \in Scanned BY <2>1, TakeFrame
    <3>2. taken'[s.of] # {} /\ (Retaken(s.of) => Retaken(s.of)') BY <2>1, TakeFrame
    <3>3. ASSUME NEW j \in Intakes \ {s.of} PROVE taken'[j] = taken[j]
      BY <2>1 DEF Take, Types, TypeOK
    <3>4. PICK i \in Intakes : i = s.of BY <3>1 DEF Scanned
    <3>5. /\ taken'[i] # {} /\ ("back" \in taken[i] => "back" \in taken'[i])
          /\ \A j \in Intakes \ {i} : taken'[j] = taken[j]
      BY <3>2, <3>3, <3>4 DEF Retaken
    <3> QED BY <3>5 DEF TakenGrows, Retaken
  <2>2. CASE SweepFails(p) BY <2>2, SweepFailsFenced DEF Fences, TakenKeeps, TakenGrows
  <2>3. CASE ~SweepFails(p) /\ ~\E s \in sweep[p].todo : Take(p, s) /\ Claimed(s, p)
    BY <2>3, SweepOrdinary DEF SweepStep, Ordinary, TakenKeeps, TakenGrows
  <2> QED BY <2>1, <2>2, <2>3
<1>3. CASE SweepDiscards(p) \/ FencedDiscards(p)
  <2>1. sweep[p].at \in InHand /\ Discard(sweep[p].cur.of)
    BY <1>3 DEF SweepDiscards, FencedDiscards, InHand
  <2>2. PICK i \in Intakes : i = sweep[p].cur.of BY <2>1 DEF Types, Scanned
  <2>3. Discard(i) BY <2>1, <2>2
  <2>4. taken[i] # {} BY <2>1, <2>2 DEF Fences, SweepsFenced, SweepFenced
  <2>5. taken'[i] # {} /\ (Retaken(i)' \/ jobs[KeyOf[i]].by # i)
    BY <1>2, <2>4 DEF TakenGrows, Fences, IntakesFenced, IntakeFenced
  <2>6. RowsFall BY <2>3, <2>5, DiscardFalls
  <2> QED BY <1>1, <1>2, <2>6, SameJobs, WholeStep
<1>4. CASE ~(SweepDiscards(p) \/ FencedDiscards(p))
  <2>1. UNCHANGED <<docs, vers>>
    BY <1>4 DEF SweepStep, SweepFails, Scan, SweepChecks, SweepReleases, FencedScan, SweepEnds,
       Take, FencedChecks
  <2> QED BY <1>1, <1>2, <2>1, RowsStay, SameJobs, WholeStep
<1> QED BY <1>3, <1>4

LEMMA FaultWhole ==
  ASSUME Types, Wholes, NEW p \in Processes, Crash(p) \/ Start(p)
  PROVE Wholes'
<1>1. UNCHANGED <<docs, vers, jobs, taken>> BY DEF Crash, Start
<1> QED BY <1>1, FaultBack, RowsStay, SameJobs, WholeStep DEF TakenGrows, Retaken

LEMMA WholeKept ==
  ASSUME OwnIds, Types, Fences, Wholes, [Next]_vars
  PROVE Wholes'
<1>1. CASE UNCHANGED vars
  <2>1. UNCHANGED <<docs, vers, jobs, taken, call>> BY <1>1 DEF vars
  <2> QED BY <2>1, CallsStay, RowsStay, SameJobs, WholeStep DEF TakenGrows, Retaken
<1>2. ASSUME NEW i \in Intakes, UploadStep(i) PROVE Wholes' BY <1>2, UploadWhole
<1>3. ASSUME NEW i \in Intakes,
             \/ UploadFails(i) \/ AbandonFails(i) \/ FinishFails(i) \/ Lapse(i) \/ Heartbeat(i)
             \/ \E p \in Processes : Reserve(p, i)
      PROVE Wholes'
  BY <1>3, AsideWhole
<1>4. ASSUME NEW p \in Processes, SweepStep(p) \/ SweepFails(p) PROVE Wholes' BY <1>4, SweepWhole
<1>5. ASSUME NEW p \in Processes, Crash(p) \/ Start(p) PROVE Wholes' BY <1>5, FaultWhole
<1>6. ASSUME NEW k \in Keys, JobEnds(k) PROVE Wholes'
  <2>1. UNCHANGED <<docs, vers, taken, call>> BY <1>6 DEF JobEnds
  <2>2. JobsKeep BY <1>6, JobEndsOrdinary DEF Ordinary
  <2> QED BY <2>1, <2>2, CallsStay, RowsStay, WholeStep DEF TakenGrows, Retaken
<1> QED BY <1>1, <1>2, <1>3, <1>4, <1>5, <1>6 DEF Next

LEMMA InitWhole == ASSUME Init PROVE Wholes
<1>1. NoCall.at = "new" /\ NoJob.by = None /\ \A i \in Intakes : i # None
  BY IntakeAssumption DEF NoCall, NoJob
<1> QED BY <1>1, DocType DEF Init, Wholes, IntakeWhole, KeyWhole

\* Uploads of new documents under ids of their own: a published job has its
\* document and its version, whatever is rolled back, taken over or written
\* late, with or without foreign keys, unless its upload was retaken.
THEOREM JobsAreWhole ==
  ASSUME OwnIds
  PROVE Spec => []PublishedIsWhole
<1>1. Init => Types /\ Fences /\ Wholes BY InitTypes, InitFences, InitWhole
<1>2. Types /\ Fences /\ Wholes /\ [Next]_vars => Types' /\ Fences' /\ Wholes'
  BY TypesKept, FencesKept, WholeKept
<1>3. Wholes => PublishedIsWhole BY DEF Wholes, KeyWhole, PublishedIsWhole, DocExists
<1> QED BY <1>1, <1>2, <1>3, PTL DEF Spec

-----------------------------------------------------------------------------
(***************************************************************************)
(* What an upload left unpublished will be found. Its rows keep the mark   *)
(* that a scan goes by: the reservation is still held, or fenced. A        *)
(* takeover that sets no fence must know that the upload is over, and its  *)
(* rollback goes by the row the scan read: that row must still tell        *)
(* whether there is anything to remove. Both are so when every process has *)
(* a host of its own, so that only an owner that was this very process in  *)
(* an earlier life is known to be dead. (Where two share a host, the owner *)
(* may mark its ids after the scan and die before the takeover.)           *)
(***************************************************************************)

Apart == \A p, q \in Processes : Host[p] = Host[q] => p = q

\* The rows an upload left and never published keep the mark by which the next
\* recovery finds them, unless a claim cleared it.
LitterFound ==
  \A i \in Intakes :
    Litter(i) /\ "lost" \notin taken[i] => res[i].publishing /\ (i \in Pending \/ i \in Fenced)

\* There are rows with the token of the upload.
Wrote(i) == OwnVersion(i) \/ docs[KeyOf[i]] = i

\* The upload may have been at work when its reservation was taken over.
Doubt(i) == res[i].fenced \/ "lost" \in taken[i]

IntakeFound(i) ==
  /\ call[i].at = "new" => ~res[i].active /\ ~Doubt(i) /\ ~Wrote(i)
  /\ Wrote(i) \/ call[i].at \in {"document", "version", "publish"} => res[i].publishing
  /\ call[i].at \notin {"new", "over"} =>
       call[i].proc \in Processes /\ (Doubt(i) \/ res[i].owner = Me(call[i].proc))
  /\ (Wrote(i) \/ Working(i)) /\ ~Published(i) /\ ~Doubt(i) => res[i].active
  /\ call[i].at = "release" => ~Wrote(i)
  /\ res[i].active => res[i].owner \in Owners

\* By a row r of its reservation, nothing of the upload will be overlooked.
Settled(i, r) == Doubt(i) \/ (Over(i) /\ (r.publishing \/ ~Wrote(i)))

Held == {"check", "discard", "release"}

TodoFound(p) ==
  \A s \in sweep[p].todo :
    s.row.owner \in Owners /\ (s.row.owner[1] = p /\ s.row.owner # Me(p) => Settled(s.of, s.row))

HandFound(p) ==
  LET s == sweep[p].cur IN
  /\ Settled(s.of, s.row)
  /\ sweep[p].at = "release" => Doubt(s.of) \/ ~Wrote(s.of)

SweepFound(p) ==
  /\ sweep[p].at \in {"take"} \cup Held => TodoFound(p)
  /\ sweep[p].at \in Held => HandFound(p)

\* The ids of a key are used by the upload of that key only.
IdsFound ==
  /\ \A k \in Keys : /\ vers[k].tag # None => KeyOf[vers[k].tag] = k /\ vers[k].doc = k
                     /\ jobs[k] # NoJob => jobs[k].doc = k /\ jobs[k].ver = k
  /\ \A i \in Intakes : call[i].at = "publish" => call[i].ver = KeyOf[i]

Founds == (\A i \in Intakes : IntakeFound(i)) /\ (\A p \in Processes : SweepFound(p)) /\ IdsFound

\* All that a step does to an upload, but for a reservation and a takeover.
RowUsual(i) ==
  /\ res'[i].owner = res[i].owner /\ res'[i].fenced = res[i].fenced
  /\ "lost" \in taken'[i] <=> "lost" \in taken[i]
  /\ res[i].publishing => res'[i].publishing
  /\ res'[i].active => res[i].active
  /\ res[i].active /\ ~res'[i].active => Published(i) \/ Doubt(i) \/ ~(Wrote(i) \/ Working(i))

CallUsual(i) ==
  /\ call'[i].at = "new" => call[i].at = "new"
  /\ call'[i].at \notin {"new", "over"} =>
       /\ call[i].at \notin {"new", "over"} /\ call'[i].proc = call[i].proc
       /\ Me(call[i].proc)' = Me(call[i].proc)
  /\ Over(i) => Over(i)'
  /\ Working(i)' => Working(i)
  /\ call'[i].at \in {"document", "version", "publish"} =>
       call[i].at \in {"document", "version", "publish"} \/ res'[i].publishing
  /\ call'[i].at = "release" => ~Wrote(i)'

StoreUsual(i) ==
  /\ Wrote(i)' => Wrote(i) \/ call[i].at \in {"document", "version"}
  /\ Published(i) => Published(i)'

Usual(i) == RowUsual(i) /\ CallUsual(i) /\ StoreUsual(i)

Lasts(i) ==
  /\ Doubt(i) => Doubt(i)'
  /\ Over(i) => Over(i)' /\ (~Wrote(i) => ~Wrote(i)')

LEMMA UsualFound ==
  ASSUME NEW i \in Intakes, IntakeFound(i), Usual(i)
  PROVE IntakeFound(i)' /\ Lasts(i)
<1>1. /\ Doubt(i)' <=> Doubt(i)
      /\ res'[i].owner = res[i].owner /\ (res'[i].active => res[i].active)
      /\ res[i].publishing => res'[i].publishing
      /\ res[i].active /\ ~res'[i].active => Published(i) \/ Doubt(i) \/ ~(Wrote(i) \/ Working(i))
  BY DEF Usual, RowUsual, Doubt
<1>2. /\ Wrote(i)' => Wrote(i) \/ call[i].at \in {"document", "version"}
      /\ Published(i) => Published(i)'
  BY DEF Usual, StoreUsual
<1>3. CallUsual(i) BY DEF Usual
<1>4. Lasts(i) BY <1>1, <1>2, <1>3 DEF CallUsual, Lasts, Over
<1>5. call'[i].at = "new" => ~res'[i].active /\ ~Doubt(i)' /\ ~Wrote(i)'
  BY <1>1, <1>2, <1>3 DEF CallUsual, IntakeFound
<1>6. Wrote(i)' \/ call'[i].at \in {"document", "version", "publish"} => res'[i].publishing
  BY <1>1, <1>2, <1>3 DEF CallUsual, IntakeFound
<1>7. call'[i].at \notin {"new", "over"} =>
        call'[i].proc \in Processes /\ (Doubt(i)' \/ res'[i].owner = Me(call[i].proc)')
  BY <1>1, <1>3 DEF CallUsual, IntakeFound
<1>8. (Wrote(i)' \/ Working(i)') /\ ~Published(i)' /\ ~Doubt(i)' => res'[i].active
  <2>1. Wrote(i)' \/ Working(i)' => Wrote(i) \/ Working(i)
    BY <1>2, <1>3 DEF CallUsual, Working
  <2> QED BY <1>1, <1>2, <2>1 DEF IntakeFound
<1>9. call'[i].at = "release" => ~Wrote(i)' BY <1>3 DEF CallUsual
<1>10. res'[i].active => res'[i].owner \in Owners BY <1>1 DEF IntakeFound
<1> QED BY <1>4, <1>5, <1>6, <1>7, <1>8, <1>9, <1>10 DEF IntakeFound

\* An upload that a step leaves alone.
LEMMA RestUsual ==
  ASSUME NEW i \in Intakes, IntakeFound(i), res'[i] = res[i], call'[i] = call[i],
         "lost" \in taken'[i] <=> "lost" \in taken[i],
         call[i].at \notin {"new", "over"} => Me(call[i].proc)' = Me(call[i].proc),
         Wrote(i)' => Wrote(i), Published(i) => Published(i)'
  PROVE Usual(i)
<1>1. RowUsual(i) BY DEF RowUsual
<1>2. CallUsual(i) BY DEF CallUsual, IntakeFound, Working, Over
<1>3. StoreUsual(i) BY DEF StoreUsual
<1> QED BY <1>1, <1>2, <1>3 DEF Usual

LEMMA WroteStays == ASSUME UNCHANGED <<docs, vers>>, NEW i PROVE Wrote(i)' <=> Wrote(i)
BY DEF Wrote, OwnVersion

\* A rollback writes no row, and leaves none of its own unless it is refused.
LEMMA DiscardRows ==
  ASSUME Types, NEW i \in Intakes, Discard(i)
  PROVE /\ \A j \in Intakes : Wrote(j)' => Wrote(j)
        /\ OwnIds /\ IdsFound /\ ~Refused(i) => ~Wrote(i)'
<1>1. /\ docs \in [Keys -> Intakes \cup {None}]
      /\ vers \in [Keys -> [tag : Intakes \cup {None}, doc : DocIds \cup {None}]]
      /\ KeyOf[i] \in Keys /\ \A j \in Intakes : j # None /\ KeyOf[j] \in Keys
  BY DocType, IntakeAssumption DEF Types, TypeOK
<1>2. NoVersion.tag = None BY DEF NoVersion
<1>3. /\ docs' = docs \/ docs' = [docs EXCEPT ![KeyOf[i]] = None]
      /\ vers' = vers \/ vers' = [vers EXCEPT ![KeyOf[i]] = NoVersion]
  BY DEF Discard
<1>4. ASSUME NEW j \in Intakes, Wrote(j)' PROVE Wrote(j)
  <2>1. docs'[KeyOf[j]] = j => docs[KeyOf[j]] = j BY <1>1, <1>3
  <2>2. vers'[KeyOf[j]].tag = j => vers[KeyOf[j]].tag = j BY <1>1, <1>2, <1>3
  <2> QED BY <1>4, <2>1, <2>2 DEF Wrote, OwnVersion
<1>5. ASSUME OwnIds, IdsFound, ~Refused(i) PROVE ~Wrote(i)'
  <2>1. OwnVersion(i) => vers' = [vers EXCEPT ![KeyOf[i]] = NoVersion] BY <1>5 DEF Discard
  <2>2. vers'[KeyOf[i]].tag # i BY <1>1, <1>2, <1>3, <2>1 DEF OwnVersion
  <2>3. ASSUME docs[KeyOf[i]] = i PROVE OwnDocument(i)
    <3>1. ASSUME NEW k \in Keys, vers[k].tag # None, vers[k].doc = KeyOf[i]
          PROVE k = KeyOf[i] /\ OwnVersion(i)
      <4>1. k = KeyOf[i] /\ KeyOf[vers[k].tag] = k BY <1>5, <3>1 DEF IdsFound
      <4>2. vers[k].tag \in Intakes BY <1>1, <3>1
      <4>3. vers[k].tag = i BY <1>5, <4>1, <4>2 DEF OwnIds
      <4> QED BY <4>1, <4>3 DEF OwnVersion
    <3>2. Target[i] = None BY <1>5 DEF OwnIds
    <3> QED BY <2>3, <3>1, <3>2 DEF OwnDocument
  <2>4. OwnDocument(i) => docs' = [docs EXCEPT ![KeyOf[i]] = None] BY <1>5 DEF Discard
  <2>5. docs'[KeyOf[i]] # i BY <1>1, <1>3, <2>3, <2>4
  <2> QED BY <2>2, <2>5 DEF Wrote, OwnVersion
<1> QED BY <1>4, <1>5

LEMMA PublishedStays ==
  ASSUME Types, [Next]_vars, NEW i \in Intakes, Published(i) PROVE Published(i)'
<1>1. KeyOf[i] \in Keys BY DocType
<1>2. CASE jobs' = jobs BY <1>2 DEF Published
<1>3. ASSUME NEW j \in Intakes, Enqueue(j), jobs' # jobs PROVE Published(i)'
  BY <1>1, <1>3, PublishFrame DEF Published
<1>4. ASSUME NEW k \in Keys, JobEnds(k) PROVE Published(i)'
  <2>1. JobsKeep BY <1>4, JobEndsOrdinary DEF Ordinary
  <2> QED BY <1>1, <2>1 DEF JobsKeep, Published
<1>5. CASE jobs' # jobs
  <2>1. ASSUME NEW j \in Intakes, UploadStep(j) PROVE Enqueue(j)
    BY <1>5, <2>1 DEF UploadStep, MarkPublishing, CreateDocument, CreateVersion, Abandon,
       AbandonChecks, AbandonDiscards, AbandonReleases, Finish
  <2>2. ASSUME NEW j \in Intakes,
               \/ UploadFails(j) \/ AbandonFails(j) \/ FinishFails(j) \/ Lapse(j) \/ Heartbeat(j)
               \/ \E p \in Processes : Reserve(p, j)
        PROVE FALSE
    BY <1>5, <2>2 DEF UploadFails, AbandonFails, FinishFails, Lapse, Heartbeat, Reserve
  <2>3. ASSUME NEW p \in Processes, SweepStep(p) \/ SweepFails(p) \/ Crash(p) \/ Start(p) PROVE FALSE
    BY <1>5, <2>3 DEF SweepStep, SweepFails, Scan, SweepChecks, SweepDiscards, SweepReleases,
       FencedScan, FencedDiscards, SweepEnds, Take, FencedChecks, Crash, Start
  <2>4. ~UNCHANGED vars BY <1>5 DEF vars
  <2>5. (\E j \in Intakes : Enqueue(j)) \/ (\E k \in Keys : JobEnds(k))
    BY <2>1, <2>2, <2>3, <2>4 DEF Next
  <2> QED BY <1>3, <1>4, <1>5, <2>5
<1> QED BY <1>2, <1>5

-----------------------------------------------------------------------------

\* What an upload's own step does not touch.
UploadsOwn(i) ==
  \/ UploadStep(i) \/ UploadFails(i) \/ AbandonFails(i) \/ FinishFails(i) \/ Lapse(i) \/ Heartbeat(i)
  \/ \E p \in Processes : Reserve(p, i)

LEMMA UploadFrame ==
  ASSUME Types, NEW i \in Intakes, UploadsOwn(i)
  PROVE /\ UNCHANGED <<life, sweep, taken>>
        /\ \A j \in Intakes \ {i} : res'[j] = res[j] /\ call'[j] = call[j] /\ (Wrote(j)' => Wrote(j))
<1>1. res \in [Intakes -> RowType] /\ call \in [Intakes -> CallType] BY DEF Types, TypeOK
<1>2. UNCHANGED <<life, sweep, taken>>
  BY DEF UploadsOwn, UploadStep, MarkPublishing, CreateDocument, CreateVersion, Enqueue, Abandon,
     AbandonChecks, AbandonDiscards, AbandonReleases, Finish, UploadFails, AbandonFails, FinishFails,
     Lapse, Heartbeat, Reserve
<1>3. ASSUME NEW j \in Intakes \ {i} PROVE res'[j] = res[j]
  BY <1>1 DEF UploadsOwn, UploadStep, MarkPublishing, CreateDocument, CreateVersion, Enqueue, Abandon,
     AbandonChecks, AbandonDiscards, AbandonReleases, Finish, UploadFails, AbandonFails, FinishFails,
     Lapse, Heartbeat, Reserve, Released, Finished
<1>4. ASSUME NEW j \in Intakes \ {i} PROVE call'[j] = call[j]
  BY <1>1 DEF UploadsOwn, UploadStep, MarkPublishing, CreateDocument, CreateVersion, Enqueue, Abandon,
     AbandonChecks, AbandonDiscards, AbandonReleases, Finish, UploadFails, AbandonFails, FinishFails,
     Lapse, Heartbeat, Reserve, Goes
<1>5. ASSUME NEW j \in Intakes \ {i}, Wrote(j)' PROVE Wrote(j)
  <2>1. /\ docs \in [Keys -> Intakes \cup {None}] /\ KeyOf[i] \in Keys /\ KeyOf[j] \in Keys
        /\ vers \in [Keys -> [tag : Intakes \cup {None}, doc : DocIds \cup {None}]]
    BY DocType DEF Types, TypeOK
  <2>2. CASE CreateDocument(i)
    <3>1. vers' = vers /\ (docs' = docs \/ docs' = [docs EXCEPT ![KeyOf[i]] = i])
      BY <2>2 DEF CreateDocument
    <3> QED BY <1>5, <2>1, <3>1 DEF Wrote, OwnVersion
  <2>3. CASE CreateVersion(i)
    <3>1. docs' = docs /\ (vers' = vers \/ vers' = [vers EXCEPT ![KeyOf[i]] = NewVersion(i)])
      BY <2>3 DEF CreateVersion
    <3>2. NewVersion(i).tag = i BY DEF NewVersion
    <3> QED BY <1>5, <2>1, <3>1, <3>2 DEF Wrote, OwnVersion
  <2>4. CASE AbandonDiscards(i) BY <1>5, <2>4, DiscardRows DEF AbandonDiscards
  <2>5. CASE ~(CreateDocument(i) \/ CreateVersion(i) \/ AbandonDiscards(i))
    <3>1. UNCHANGED <<docs, vers>>
      BY <2>5 DEF UploadsOwn, UploadStep, MarkPublishing, Enqueue, Abandon, AbandonChecks,
         AbandonReleases, Finish, UploadFails, AbandonFails, FinishFails, Lapse, Heartbeat, Reserve
    <3> QED BY <1>5, <3>1, WroteStays
  <2> QED BY <2>2, <2>3, <2>4, <2>5
<1> QED BY <1>2, <1>3, <1>4, <1>5

\* An upload's step that leaves its reservation: where the call goes.
LEMMA GoesUsual ==
  ASSUME Types, NEW i \in Intakes, IntakeFound(i), NEW c \in CallType,
         call' = [call EXCEPT ![i] = c], c.proc = call[i].proc,
         c.at \in {"reserved", "document", "version", "publish"} => Working(i),
         c.at \in {"document", "version", "publish"} =>
           call[i].at \in {"document", "version", "publish"} \/ res'[i].publishing,
         c.at \notin {"new", "over"}, call[i].at \notin {"new", "over"}, life' = life,
         c.at = "release" => ~Wrote(i)'
  PROVE CallUsual(i)
<1>1. call'[i] = c BY DEF Types, TypeOK
<1>2. Working(i)' => Working(i) BY <1>1 DEF Working
<1>3. Me(call[i].proc)' = Me(call[i].proc) BY <1>1 DEF Me
<1> QED BY <1>1, <1>2, <1>3 DEF CallUsual, Over

\* A call that goes on to another place in the same process.
LEMMA PlaceUsual ==
  ASSUME Types, NEW i \in Intakes, IntakeFound(i),
         NEW at \in {"reserved", "document", "version", "publish", "abandon", "check",
                     "discard", "release", "finish"},
         Goes(i, at), at \in {"reserved", "document", "version", "publish"} => Working(i),
         at \in {"document", "version", "publish"} =>
           call[i].at \in {"document", "version", "publish"} \/ res'[i].publishing,
         call[i].at \notin {"new", "over"}, life' = life, at = "release" => ~Wrote(i)'
  PROVE CallUsual(i)
<1>1. call \in [Intakes -> CallType] BY DEF Types, TypeOK
<1> DEFINE c == [call[i] EXCEPT !.at = at]
<1>2. c \in CallType /\ c.at = at /\ c.proc = call[i].proc BY <1>1 DEF CallType
<1>3. call' = [call EXCEPT ![i] = c] BY DEF Goes
<1> HIDE DEF c
<1> QED BY <1>2, <1>3, GoesUsual

LEMMA EndUsual ==
  ASSUME Types, NEW i \in Intakes, call' = [call EXCEPT ![i] = Ended] PROVE CallUsual(i)
<1>1. call'[i].at = "over" BY DEF Types, TypeOK, Ended, NoCall
<1> QED BY <1>1 DEF CallUsual, Over, Working

\* A reservation that is closed, by whoever has the right to.
LEMMA ClosedUsual ==
  ASSUME Types, NEW i \in Intakes, NEW o, taken' = taken,
         \/ res' = Finished(i, o) /\ (~res[i].publishing => ~(Wrote(i) \/ Working(i)))
         \/ res' = Released(i, o) /\ (Doubt(i) \/ ~(Wrote(i) \/ Working(i)))
  PROVE RowUsual(i)
<1>1. res[i] \in RowType /\ res \in [Intakes -> RowType] BY DEF Types, TypeOK
<1>2. /\ ~Closed(res[i]).active /\ Closed(res[i]).owner = res[i].owner
      /\ Closed(res[i]).fenced = res[i].fenced /\ Closed(res[i]).publishing = res[i].publishing
  BY <1>1 DEF Closed, RowType
<1>3. \/ res' = res
      \/ /\ res' = [res EXCEPT ![i] = Closed(@)]
         /\ Published(i) \/ Doubt(i) \/ ~(Wrote(i) \/ Working(i))
  BY DEF Finished, Released
<1>4. CASE res' = res BY <1>4 DEF RowUsual
<1>5. CASE res'[i] = Closed(res[i]) /\ (Published(i) \/ Doubt(i) \/ ~(Wrote(i) \/ Working(i)))
  BY <1>2, <1>5 DEF RowUsual
<1> QED BY <1>1, <1>3, <1>4, <1>5

LEMMA RowStays == ASSUME NEW i \in Intakes, res' = res, taken' = taken PROVE RowUsual(i)
BY DEF RowUsual

\* What an upload does itself is usual.
LEMMA UploadUsual ==
  ASSUME OwnIds, IdsFound, Types, NEW i \in Intakes, IntakeFound(i), UploadStep(i), Published(i) => Published(i)'
  PROVE Usual(i)
<1>1. /\ res \in [Intakes -> RowType] /\ call \in [Intakes -> CallType] /\ UNCHANGED <<life, taken>>
      /\ res[i] \in RowType /\ call[i] \in CallType
  <2>1. UNCHANGED <<life, taken>> BY UploadFrame DEF UploadsOwn
  <2> QED BY <2>1 DEF Types, TypeOK
<1>2. CASE MarkPublishing(i)
  <2>1. call[i].at = "reserved" /\ UNCHANGED <<docs, vers>> BY <1>2 DEF MarkPublishing
  <2>2. StoreUsual(i) BY <2>1, WroteStays DEF StoreUsual
  <2>3. CASE ~call[i].fenced /\ res[i].active /\ Mine(i)
    <3>1. res' = [res EXCEPT ![i].publishing = TRUE] /\ Goes(i, "document") BY <1>2, <2>3 DEF MarkPublishing
    <3>2. RowUsual(i) /\ res'[i].publishing BY <1>1, <3>1 DEF RowUsual, RowType
    <3>3. CallUsual(i) BY <1>1, <2>1, <3>1, <3>2, PlaceUsual DEF Working
    <3> QED BY <2>2, <3>2, <3>3 DEF Usual
  <2>4. CASE ~(~call[i].fenced /\ res[i].active /\ Mine(i))
    <3>1. res' = res /\ Goes(i, "abandon") BY <1>2, <2>4 DEF MarkPublishing
    <3>2. CallUsual(i) BY <1>1, <2>1, <3>1, PlaceUsual
    <3> QED BY <1>1, <2>2, <3>1, <3>2, RowStays DEF Usual
  <2> QED BY <2>3, <2>4
<1>3. CASE CreateDocument(i)
  <2>1. call[i].at = "document" /\ res' = res /\ (Goes(i, "version") \/ Goes(i, "abandon"))
    BY <1>3 DEF CreateDocument
  <2>2. StoreUsual(i) BY <2>1 DEF StoreUsual
  <2>3. CallUsual(i) BY <1>1, <2>1, PlaceUsual DEF Working
  <2> QED BY <1>1, <2>1, <2>2, <2>3, RowStays DEF Usual
<1>4. CASE CreateVersion(i)
  <2>1. /\ call[i].at = "version" /\ res' = res
        /\ \/ Goes(i, "abandon")
           \/ \E k \in Keys : call' = [call EXCEPT ![i].at = "publish", ![i].ver = k]
    BY <1>4, DocType DEF CreateVersion, Known
  <2>2. StoreUsual(i) BY <2>1 DEF StoreUsual
  <2>3. ASSUME NEW k \in Keys, call' = [call EXCEPT ![i].at = "publish", ![i].ver = k] PROVE CallUsual(i)
    <3> DEFINE c == [call[i] EXCEPT !.at = "publish", !.ver = k]
    <3>1. c \in CallType /\ c.at = "publish" /\ c.proc = call[i].proc BY <1>1 DEF CallType
    <3>2. call' = [call EXCEPT ![i] = c] BY <1>1, <2>3
    <3> HIDE DEF c
    <3>3. Working(i) BY <2>1 DEF Working
    <3> QED BY <1>1, <2>1, <3>1, <3>2, <3>3, GoesUsual
  <2>4. CallUsual(i) BY <1>1, <2>1, <2>3, PlaceUsual
  <2> QED BY <1>1, <2>1, <2>2, <2>4, RowStays DEF Usual
<1>5. CASE Enqueue(i)
  <2>1. /\ call[i].at = "publish" /\ UNCHANGED <<res, docs, vers>>
        /\ Goes(i, "finish") \/ Goes(i, "abandon")
    BY <1>5 DEF Enqueue
  <2>2. StoreUsual(i) BY <2>1, WroteStays DEF StoreUsual
  <2>3. CallUsual(i) BY <1>1, <2>1, PlaceUsual
  <2> QED BY <1>1, <2>1, <2>2, <2>3, RowStays DEF Usual
<1>6. CASE Abandon(i)
  <2> DEFINE a == IF res[i].publishing /\ (res[i].active \/ ~Mine(i)) THEN "check" ELSE "finish"
             c == [call[i] EXCEPT !.at = a, !.mine = Mine(i)]
  <2>1. a \in {"check", "finish"} /\ Mine(i) \in BOOLEAN BY DEF Mine
  <2>2. call' = [call EXCEPT ![i] = c] /\ call[i].at = "abandon" /\ UNCHANGED <<res, docs, vers>>
    BY <1>1, <1>6 DEF Abandon
  <2> HIDE DEF a
  <2>3. c \in CallType /\ c.at = a /\ c.proc = call[i].proc BY <1>1, <2>1 DEF CallType
  <2> HIDE DEF c
  <2>4. CallUsual(i) BY <1>1, <2>1, <2>2, <2>3, GoesUsual
  <2>5. StoreUsual(i) BY <2>2, WroteStays DEF StoreUsual
  <2> QED BY <1>1, <2>2, <2>4, <2>5, RowStays DEF Usual
<1>7. CASE AbandonChecks(i)
  <2>1. /\ call[i].at = "check" /\ UNCHANGED <<res, docs, vers>>
        /\ Goes(i, "finish") \/ Goes(i, "discard")
    BY <1>7 DEF AbandonChecks
  <2>2. CallUsual(i) BY <1>1, <2>1, PlaceUsual
  <2>3. StoreUsual(i) BY <2>1, WroteStays DEF StoreUsual
  <2> QED BY <1>1, <2>1, <2>2, <2>3, RowStays DEF Usual
<1>8. CASE AbandonDiscards(i)
  <2>1. /\ call[i].at = "discard" /\ res' = res /\ Discard(i)
        /\ Goes(i, "finish") \/ (Goes(i, "release") /\ ~Refused(i))
    BY <1>8 DEF AbandonDiscards
  <2>2. (Wrote(i)' => Wrote(i)) /\ (~Refused(i) => ~Wrote(i)') BY <2>1, DiscardRows
  <2>3. CallUsual(i) BY <1>1, <2>1, <2>2, PlaceUsual
  <2>4. StoreUsual(i) BY <2>2 DEF StoreUsual
  <2> QED BY <1>1, <2>1, <2>3, <2>4, RowStays DEF Usual
<1>9. CASE AbandonReleases(i)
  <2>1. /\ call[i].at = "release" /\ UNCHANGED <<docs, vers>> /\ Goes(i, "finish")
        /\ res' = Released(i, Me(call[i].proc))
    BY <1>9 DEF AbandonReleases
  <2>2. ~Wrote(i) /\ ~Working(i) BY <2>1 DEF IntakeFound, Working
  <2>3. RowUsual(i) BY <1>1, <2>1, <2>2, ClosedUsual
  <2>4. CallUsual(i) BY <1>1, <2>1, PlaceUsual
  <2>5. StoreUsual(i) BY <2>1, WroteStays DEF StoreUsual
  <2> QED BY <2>3, <2>4, <2>5 DEF Usual
<1>10. CASE Finish(i)
  <2>1. /\ call[i].at = "finish" /\ UNCHANGED <<docs, vers>> /\ call' = [call EXCEPT ![i] = Ended]
        /\ res' = Finished(i, Me(call[i].proc))
    BY <1>10 DEF Finish
  <2>2. ~res[i].publishing => ~Wrote(i) /\ ~Working(i) BY <2>1 DEF IntakeFound, Working
  <2>3. RowUsual(i) BY <1>1, <2>1, <2>2, ClosedUsual
  <2>4. CallUsual(i) BY <2>1, EndUsual
  <2>5. StoreUsual(i) BY <2>1, WroteStays DEF StoreUsual
  <2> QED BY <2>3, <2>4, <2>5 DEF Usual
<1> QED BY <1>2, <1>3, <1>4, <1>5, <1>6, <1>7, <1>8, <1>9, <1>10 DEF UploadStep

\* So are its faults, and what happens to its lease.
LEMMA FaultUsual ==
  ASSUME Types, NEW i \in Intakes, IntakeFound(i), Published(i) => Published(i)',
         UploadFails(i) \/ AbandonFails(i) \/ FinishFails(i) \/ Lapse(i) \/ Heartbeat(i)
  PROVE Usual(i)
<1>1. /\ res \in [Intakes -> RowType] /\ call \in [Intakes -> CallType]
      /\ res[i] \in RowType /\ call[i] \in CallType /\ UNCHANGED <<life, taken, docs, vers>>
  BY DEF Types, TypeOK, UploadFails, AbandonFails, FinishFails, Lapse, Heartbeat
<1>2. StoreUsual(i) BY <1>1, WroteStays DEF StoreUsual
<1>3. CASE UploadFails(i)
  <2>1. CallUsual(i) BY <1>1, <1>3, PlaceUsual DEF UploadFails, Working
  <2>2. res' = res BY <1>3 DEF UploadFails
  <2> QED BY <1>1, <1>2, <2>1, <2>2, RowStays DEF Usual
<1>4. CASE AbandonFails(i)
  <2>1. CallUsual(i) BY <1>1, <1>4, PlaceUsual DEF AbandonFails
  <2>2. res' = res BY <1>4 DEF AbandonFails
  <2> QED BY <1>1, <1>2, <2>1, <2>2, RowStays DEF Usual
<1>5. CASE FinishFails(i)
  <2>1. CallUsual(i) BY <1>5, EndUsual DEF FinishFails
  <2>2. res' = res BY <1>5 DEF FinishFails
  <2> QED BY <1>1, <1>2, <2>1, <2>2, RowStays DEF Usual
<1>6. ASSUME call' = call PROVE CallUsual(i)
  <2>1. /\ call'[i] = call[i] /\ (Wrote(i)' <=> Wrote(i)) /\ Me(call[i].proc)' = Me(call[i].proc)
    BY <1>1, <1>6, WroteStays DEF Me
  <2> QED BY <2>1 DEF CallUsual, IntakeFound, Over, Working
<1>7. CASE Lapse(i)
  <2>1. RowUsual(i) BY <1>1, <1>7 DEF Lapse, RowUsual, RowType
  <2> QED BY <1>2, <1>6, <1>7, <2>1 DEF Usual, Lapse
<1>8. CASE Heartbeat(i)
  <2>1. CASE call' = call
    <3>1. res' = res \/ res' = [res EXCEPT ![i].lapsed = FALSE, ![i].beat = @ + 1] BY <1>8 DEF Heartbeat
    <3>2. RowUsual(i) BY <1>1, <3>1 DEF RowUsual, RowType
    <3> QED BY <1>2, <1>6, <2>1, <3>2 DEF Usual
  <2>2. CASE call' # call
    <3>1. call' = [call EXCEPT ![i].fenced = TRUE] /\ res' = res /\ Working(i) BY <1>8, <2>2 DEF Heartbeat
    <3> DEFINE c == [call[i] EXCEPT !.fenced = TRUE]
    <3>2. c \in CallType /\ c.at = call[i].at /\ c.proc = call[i].proc BY <1>1 DEF CallType
    <3>3. call' = [call EXCEPT ![i] = c] BY <1>1, <3>1
    <3> HIDE DEF c
    <3>4. call[i].at \notin {"new", "over", "release"} BY <3>1 DEF Working
    <3>5. CallUsual(i) BY <1>1, <3>1, <3>2, <3>3, <3>4, GoesUsual
    <3> QED BY <1>1, <1>2, <3>1, <3>5, RowStays DEF Usual
  <2> QED BY <2>1, <2>2
<1> QED BY <1>3, <1>4, <1>5, <1>7, <1>8

\* A reservation is the first that is known of an upload.
LEMMA ReserveFound ==
  ASSUME Types, NEW i \in Intakes, IntakeFound(i), NEW p \in Processes, Reserve(p, i)
  PROVE IntakeFound(i)' /\ Lasts(i)
<1>1. /\ call[i].at = "new" /\ call'[i].at = "reserved" /\ call'[i].proc = p
      /\ res'[i].active /\ res'[i].owner = Me(p) /\ ~res'[i].fenced
      /\ UNCHANGED <<mode, life, docs, vers, jobs, sweep, taken>>
  BY ReserveFrame
<1>2. ~Doubt(i) /\ ~Wrote(i) /\ ~Wrote(i)' BY <1>1, WroteStays DEF IntakeFound
<1>3. Lasts(i) BY <1>1, <1>2 DEF Lasts, Over
<1>4. Me(p) \in Owners BY OwnerType DEF Types
<1>5. Me(p)' = Me(p) BY <1>1 DEF Me
<1>6. IntakeFound(i)'
  <2>1. <<call'[i].proc, life'[call'[i].proc]>> = Me(p) BY <1>1 DEF Me
  <2> QED BY <1>1, <1>2, <1>4, <2>1 DEF IntakeFound, Me
<1> QED BY <1>3, <1>6

\* After any step of an upload, everything lasts and every upload can be found.
LEMMA UploadsFound ==
  ASSUME OwnIds, Types, Founds, NEW i \in Intakes, UploadsOwn(i),
         \A j \in Intakes : Published(j) => Published(j)'
  PROVE \A j \in Intakes : IntakeFound(j)' /\ Lasts(j)
<1>1. /\ UNCHANGED <<life, sweep, taken>>
      /\ \A j \in Intakes \ {i} : res'[j] = res[j] /\ call'[j] = call[j] /\ (Wrote(j)' => Wrote(j))
  BY UploadFrame
<1>2. ASSUME NEW j \in Intakes \ {i} PROVE IntakeFound(j)' /\ Lasts(j)
  <2>1. Me(call[j].proc)' = Me(call[j].proc) BY <1>1 DEF Me
  <2>2. IntakeFound(j) BY DEF Founds
  <2>3. Usual(j) BY <1>1, <2>1, <2>2, RestUsual
  <2> QED BY <2>2, <2>3, UsualFound
<1>3. IntakeFound(i)' /\ Lasts(i)
  <2>1. IntakeFound(i) /\ IdsFound BY DEF Founds
  <2>2. CASE \E p \in Processes : Reserve(p, i) BY <2>1, <2>2, ReserveFound
  <2>3. CASE ~\E p \in Processes : Reserve(p, i)
    <3>1. Usual(i) BY <2>1, <2>3, UploadUsual, FaultUsual DEF UploadsOwn
    <3> QED BY <2>1, <3>1, UsualFound
  <2> QED BY <2>2, <2>3
<1> QED BY <1>2, <1>3

-----------------------------------------------------------------------------

\* A recovery's steps other than a takeover.
SweepsOwn(p) ==
  \/ Scan(p) \/ SweepChecks(p) \/ SweepDiscards(p) \/ SweepReleases(p)
  \/ FencedScan(p) \/ FencedDiscards(p) \/ SweepEnds(p) \/ SweepFails(p)
  \/ \E s \in sweep[p].todo : (Take(p, s) /\ ~Claimed(s, p)) \/ FencedChecks(p, s)

LEMMA SweepFrame ==
  ASSUME Types, NEW p \in Processes, SweepsOwn(p) \/ \E s \in sweep[p].todo : Take(p, s)
  PROVE UNCHANGED <<call, jobs, life>> /\ \A q \in Processes \ {p} : sweep'[q] = sweep[q]
<1>1. UNCHANGED <<call, jobs, life>>
  BY DEF SweepsOwn, SweepFails, Scan, SweepChecks, SweepDiscards, SweepReleases,
     FencedScan, FencedDiscards, SweepEnds, Take, FencedChecks
<1>2. sweep \in [Processes -> SweepType] BY DEF Types, TypeOK
<1>3. ASSUME NEW q \in Processes \ {p} PROVE sweep'[q] = sweep[q]
  BY <1>2 DEF SweepsOwn, SweepFails, Scan, SweepChecks, SweepDiscards, SweepReleases,
     FencedScan, FencedDiscards, SweepEnds, Take, FencedChecks, Sweeps
<1> QED BY <1>1, <1>3

\* They are usual to every upload.
LEMMA SweepUsual ==
  ASSUME Types, Founds, NEW p \in Processes, SweepsOwn(p), NEW i \in Intakes
  PROVE Usual(i)
<1>1. UNCHANGED <<call, jobs, life>> /\ res \in [Intakes -> RowType] BY SweepFrame DEF Types, TypeOK
<1>2. IntakeFound(i) /\ SweepFound(p) BY DEF Founds
<1>3. Wrote(i)' => Wrote(i)
  <2>1. CASE SweepDiscards(p) \/ FencedDiscards(p)
    <3>1. sweep[p].at \in InHand BY <2>1 DEF SweepDiscards, FencedDiscards, InHand
    <3>2. sweep[p].cur \in Scanned BY <3>1 DEF Types
    <3>3. sweep[p].cur.of \in Intakes BY <3>2 DEF Scanned
    <3>4. Discard(sweep[p].cur.of) BY <2>1 DEF SweepDiscards, FencedDiscards
    <3> QED BY <3>3, <3>4, DiscardRows
  <2>2. CASE ~(SweepDiscards(p) \/ FencedDiscards(p))
    <3>1. UNCHANGED <<docs, vers>>
      BY <2>2 DEF SweepsOwn, SweepFails, Scan, SweepChecks, SweepReleases, FencedScan, SweepEnds,
         Take, FencedChecks
    <3> QED BY <3>1, WroteStays
  <2> QED BY <2>1, <2>2
<1>4. /\ (Published(i) => Published(i)') /\ call'[i] = call[i]
      /\ Me(call[i].proc)' = Me(call[i].proc)
  BY <1>1 DEF Published, Me
<1>5. ASSUME res'[i] = res[i], "lost" \in taken'[i] <=> "lost" \in taken[i] PROVE Usual(i)
  BY <1>2, <1>3, <1>4, <1>5, RestUsual
<1>6. CASE SweepChecks(p)
  <2> DEFINE j == sweep[p].cur.of
  <2>1. sweep[p].cur \in Scanned /\ taken' = taken BY <1>6 DEF SweepChecks, InHand, Types
  <2>2. j \in Intakes BY <2>1 DEF Scanned
  <2>3. res' = res \/ (res' = Finished(j, Me(p)) /\ Published(j)) BY <1>6 DEF SweepChecks
  <2>4. res'[i] = res[i] \/ (i = j /\ res' = Finished(i, Me(p)) /\ Published(i))
    BY <1>1, <2>2, <2>3 DEF Finished
  <2> HIDE DEF j
  <2>5. CASE res' = Finished(i, Me(p)) /\ Published(i) /\ res'[i] # res[i]
    <3>1. res' = [res EXCEPT ![i] = Closed(@)] BY <2>5 DEF Finished
    <3>2. res[i] \in RowType BY <1>1
    <3>3. res'[i] = Closed(res[i]) BY <1>1, <3>1
    <3>4. RowUsual(i) BY <2>1, <2>5, <3>2, <3>3 DEF RowUsual, Closed, RowType
    <3>5. CallUsual(i) BY <1>2, <1>3, <1>4 DEF CallUsual, IntakeFound, Over, Working
    <3>6. StoreUsual(i) BY <1>3, <1>4 DEF StoreUsual
    <3> QED BY <3>4, <3>5, <3>6 DEF Usual
  <2> QED BY <1>5, <2>1, <2>4, <2>5
<1>7. CASE SweepReleases(p)
  <2> DEFINE j == sweep[p].cur.of
  <2>1. sweep[p].cur \in Scanned /\ taken' = taken /\ sweep[p].at = "release"
    BY <1>7 DEF SweepReleases, InHand, Types
  <2>2. j \in Intakes /\ res' = Released(j, Me(p)) BY <1>7, <2>1 DEF Scanned, SweepReleases
  <2>3. Settled(j, sweep[p].cur.row) /\ (Doubt(j) \/ ~Wrote(j))
    BY <1>2, <2>1 DEF SweepFound, HandFound, Held
  <2>4. Doubt(j) \/ ~(Wrote(j) \/ Working(j)) BY <2>3 DEF Settled, Over, Working
  <2> HIDE DEF j
  <2>5. CASE i # j
    <3>1. res'[i] = res[i] BY <1>1, <2>2, <2>5 DEF Released
    <3> QED BY <1>5, <2>1, <3>1
  <2>6. CASE i = j
    <3>1. RowUsual(i) BY <2>1, <2>2, <2>4, <2>6, ClosedUsual
    <3>2. CallUsual(i) BY <1>2, <1>3, <1>4 DEF CallUsual, IntakeFound, Over, Working
    <3>3. StoreUsual(i) BY <1>3, <1>4 DEF StoreUsual
    <3> QED BY <3>1, <3>2, <3>3 DEF Usual
  <2> QED BY <2>5, <2>6
<1>8. CASE SweepFails(p)
  <2>1. taken \in [Intakes -> SUBSET {"taken", "kept", "lost", "back"}] BY DEF Types, TypeOK
  <2>2. \/ taken' = taken
        \/ taken' = [taken EXCEPT ![sweep[p].cur.of] = taken[sweep[p].cur.of] \cup {"kept"}]
    BY <1>8 DEF SweepFails
  <2>3. res' = res BY <1>8 DEF SweepFails
  <2> QED BY <1>5, <2>1, <2>2, <2>3
<1>9. CASE ~(SweepChecks(p) \/ SweepReleases(p) \/ SweepFails(p))
  <2>1. UNCHANGED <<res, taken>>
    BY <1>9 DEF SweepsOwn, Scan, SweepDiscards, FencedScan, FencedDiscards, SweepEnds, Take, FencedChecks
  <2> QED BY <1>5, <2>1
<1> QED BY <1>6, <1>7, <1>8, <1>9

LEMMA SettledLasts ==
  ASSUME NEW i, NEW r, Settled(i, r), Lasts(i) PROVE Settled(i, r)'
BY DEF Settled, Lasts

\* A claim sets the fence, unless the owner was this process before; then the
\* upload is over, and the row that was scanned tells what it left.
LEMMA ClaimSettled ==
  ASSUME Apart, Types, Founds, NEW p \in Processes, NEW s \in sweep[p].todo, Take(p, s), Claimed(s, p)
  PROVE /\ res'[s.of].publishing = res[s.of].publishing
        /\ Doubt(s.of) => Doubt(s.of)'
        /\ Doubt(s.of)' \/ Settled(s.of, s.row)
        /\ res[s.of].owner \in Owners
<1>1. /\ res \in [Intakes -> RowType] /\ sweep \in [Processes -> SweepType]
      /\ taken \in [Intakes -> SUBSET {"taken", "kept", "lost", "back"}]
  BY DEF Types, TypeOK
<1>2. sweep[p].at = "take" /\ s \in Scanned /\ s.of \in Intakes
  <2>1. sweep[p].at = "take" /\ s \in Scanned BY TakeFrame
  <2> QED BY <2>1 DEF Scanned
<1>3. s.row.owner \in Owners /\ (s.row.owner[1] = p /\ s.row.owner # Me(p) => Settled(s.of, s.row))
  BY <1>2 DEF Founds, SweepFound, TodoFound
<1>4. res[s.of].owner = s.row.owner BY DEF Claimed
<1> DEFINE d == Dead(s.row.owner, p)
<1>5. /\ res' = [res EXCEPT ![s.of].owner = Me(p), ![s.of].fenced = ~d]
      /\ taken' = [taken EXCEPT ![s.of] = (@ \ {"kept"}) \cup {"taken"}
                     \cup {m \in {"lost"} : res[s.of].fenced /\ d}
                     \cup {m \in {"back"} : Working(s.of) /\ call[s.of].proc = p}]
  BY DEF Take
<1>6. d => s.row.owner[1] = p /\ s.row.owner # Me(p)
  <2>1. s.row.owner[1] \in Processes BY <1>3 DEF Owners
  <2> QED BY <2>1 DEF Apart, Dead
<1> HIDE DEF d
<1>7. res'[s.of].publishing = res[s.of].publishing /\ (~d => res'[s.of].fenced)
  <2>1. res[s.of] \in RowType BY <1>1, <1>2
  <2>2. /\ [res[s.of] EXCEPT !.owner = Me(p), !.fenced = ~d].publishing = res[s.of].publishing
        /\ [res[s.of] EXCEPT !.owner = Me(p), !.fenced = ~d].fenced = ~d
    BY <2>1 DEF RowType
  <2>3. res'[s.of] = [res[s.of] EXCEPT !.owner = Me(p), !.fenced = ~d] BY <1>1, <1>2, <1>5
  <2> QED BY <2>2, <2>3
<1>8. /\ "lost" \in taken[s.of] => "lost" \in taken'[s.of]
      /\ res[s.of].fenced /\ d => "lost" \in taken'[s.of]
  BY <1>1, <1>2, <1>5
<1>9. CASE ~d BY <1>3, <1>4, <1>7, <1>9 DEF Doubt
<1>10. CASE d
  <2>1. Settled(s.of, s.row) BY <1>3, <1>6, <1>10
  <2> QED BY <1>3, <1>4, <1>7, <1>8, <1>10, <2>1 DEF Doubt
<1> QED BY <1>9, <1>10

LEMMA TakeFound ==
  ASSUME Apart, Types, Founds, NEW p \in Processes, NEW s \in sweep[p].todo, Take(p, s), Claimed(s, p)
  PROVE \A i \in Intakes : IntakeFound(i)' /\ Lasts(i)
<1>1. /\ s \in Scanned /\ res[s.of].active /\ ~Published(s.of)
      /\ res'[s.of].owner = Me(p) /\ res'[s.of].active
      /\ \A j \in Intakes \ {s.of} : res'[j] = res[j] /\ taken'[j] = taken[j]
      /\ UNCHANGED <<mode, life, docs, vers, jobs, call>>
  <2>1. s \in Scanned /\ res[s.of].active /\ ~Published(s.of) BY TakeFrame
  <2>2. res'[s.of].owner = Me(p) /\ res'[s.of].active BY TakeFrame
  <2>3. ASSUME NEW j \in Intakes \ {s.of} PROVE res'[j] = res[j] /\ taken'[j] = taken[j]
    BY DEF Take, Types, TypeOK
  <2>4. UNCHANGED <<mode, life, docs, vers, jobs, call>> BY TakeFrame
  <2> QED BY <2>1, <2>2, <2>3, <2>4
<1>2. /\ res'[s.of].publishing = res[s.of].publishing
      /\ Doubt(s.of) => Doubt(s.of)'
      /\ Doubt(s.of)' \/ Settled(s.of, s.row)
  BY ClaimSettled
<1>3. ASSUME NEW i \in Intakes
      PROVE /\ IntakeFound(i) /\ call'[i] = call[i] /\ (Published(i)' <=> Published(i))
            /\ (Wrote(i)' <=> Wrote(i)) /\ Me(call[i].proc)' = Me(call[i].proc)
  <2>1. IntakeFound(i) BY DEF Founds
  <2>2. UNCHANGED <<docs, vers, jobs, call, life>> BY <1>1
  <2> QED BY <2>1, <2>2, WroteStays DEF Published, Me
<1>4. ASSUME NEW i \in Intakes, i # s.of PROVE IntakeFound(i)' /\ Lasts(i)
  <2>1. res'[i] = res[i] /\ taken'[i] = taken[i] BY <1>1, <1>4
  <2>2. Usual(i) BY <1>3, <2>1, RestUsual
  <2> QED BY <1>3, <2>2, UsualFound
<1>5. s.of \in Intakes BY <1>1 DEF Scanned
<1>6. IntakeFound(s.of)' /\ Lasts(s.of)
  <2> DEFINE i == s.of
  <2>1. /\ IntakeFound(i) /\ call'[i] = call[i] /\ (Published(i)' <=> Published(i))
        /\ (Wrote(i)' <=> Wrote(i)) /\ Me(call[i].proc)' = Me(call[i].proc)
    BY <1>3, <1>5
  <2>2. Lasts(i) BY <1>2, <2>1 DEF Lasts, Over
  <2>3. call[i].at # "new" BY <1>1, <2>1 DEF IntakeFound
  <2>4. call[i].at # "over" => Doubt(i)' BY <1>2 DEF Settled, Over
  <2>5. Me(p) \in Owners BY OwnerType DEF Types
  <2>6. IntakeFound(i)'
    BY <1>1, <1>2, <2>1, <2>3, <2>4, <2>5 DEF IntakeFound
  <2> QED BY <2>2, <2>6
<1> QED BY <1>4, <1>6

\* A crash ends the uploads of the process; a start closes what was published.
LEMMA ProcessFound ==
  ASSUME Types, Founds, NEW p \in Processes, Crash(p) \/ Start(p), NEW i \in Intakes
  PROVE IntakeFound(i)' /\ Lasts(i)
<1>1. /\ IntakeFound(i) /\ res \in [Intakes -> RowType] /\ life \in [Processes -> Nat]
      /\ UNCHANGED <<docs, vers, jobs, taken>>
  BY DEF Founds, Types, TypeOK, Crash, Start
<1>2. StoreUsual(i) BY <1>1, WroteStays DEF StoreUsual, Published
<1>3. (Wrote(i)' <=> Wrote(i)) /\ (Published(i)' <=> Published(i)) BY <1>1, WroteStays DEF Published
<1>4. RowUsual(i)
  <2>1. CASE Crash(p) BY <1>1, <2>1 DEF Crash, RowUsual
  <2>2. CASE Start(p)
    <3>1. res'[i] = IF Published(i) THEN Closed(res[i]) ELSE res[i] BY <2>2 DEF Start
    <3>2. res[i] \in RowType BY <1>1
    <3> QED BY <1>1, <3>1, <3>2 DEF RowUsual, Closed, RowType
  <2> QED BY <2>1, <2>2
<1>5. CASE call'[i].at = "over" BY <1>2, <1>4, <1>5, UsualFound, <1>1 DEF Usual, CallUsual, Over, Working
<1>6. CASE call'[i].at # "over"
  <2>1. call'[i] = call[i] /\ (Crash(p) => call[i].proc # p)
    BY <1>6 DEF Crash, Start, Ended, NoCall
  <2>2. call[i].at \notin {"new", "over"} => Me(call[i].proc)' = Me(call[i].proc)
    <3>1. call[i].at \notin {"new", "over"} => call[i].proc \in Processes BY <1>1 DEF IntakeFound
    <3>2. life' = life \/ (Crash(p) /\ life' = [life EXCEPT ![p] = @ + 1]) BY DEF Crash, Start
    <3>3. call[i].proc \in Processes => life'[call[i].proc] = life[call[i].proc] BY <1>1, <2>1, <3>2
    <3> QED BY <2>1, <3>1, <3>3 DEF Me
  <2>3. CallUsual(i) BY <1>1, <1>3, <2>1, <2>2 DEF CallUsual, IntakeFound, Over, Working
  <2> QED BY <1>1, <1>2, <1>4, <2>3, UsualFound DEF Usual
<1> QED BY <1>5, <1>6

\* Every step leaves every upload such that it can be found.
LEMMA IntakesFound ==
  ASSUME Apart, OwnIds, Types, Founds, [Next]_vars
  PROVE \A i \in Intakes : IntakeFound(i)' /\ Lasts(i)
<1>1. \A i \in Intakes : Published(i) => Published(i)' BY PublishedStays
<1>2. ASSUME NEW i \in Intakes, UploadsOwn(i) PROVE \A j \in Intakes : IntakeFound(j)' /\ Lasts(j)
  BY <1>1, <1>2, UploadsFound
<1>3. ASSUME NEW p \in Processes, SweepsOwn(p) PROVE \A j \in Intakes : IntakeFound(j)' /\ Lasts(j)
  BY <1>3, SweepUsual, UsualFound DEF Founds
<1>4. ASSUME NEW p \in Processes, NEW s \in sweep[p].todo, Take(p, s), Claimed(s, p)
      PROVE \A j \in Intakes : IntakeFound(j)' /\ Lasts(j)
  BY <1>4, TakeFound
<1>5. ASSUME NEW p \in Processes, Crash(p) \/ Start(p) PROVE \A j \in Intakes : IntakeFound(j)' /\ Lasts(j)
  BY <1>5, ProcessFound
<1>6. CASE UNCHANGED vars \/ \E k \in Keys : JobEnds(k)
  <2>1. UNCHANGED <<res, call, taken, docs, vers, life>> BY <1>6 DEF JobEnds, vars
  <2>2. ASSUME NEW j \in Intakes PROVE IntakeFound(j)' /\ Lasts(j)
    <3>1. IntakeFound(j) /\ Me(call[j].proc)' = Me(call[j].proc) BY <2>1 DEF Founds, Me
    <3>2. Wrote(j)' => Wrote(j) BY <2>1, WroteStays
    <3>3. Usual(j) BY <1>1, <2>1, <3>1, <3>2, RestUsual
    <3> QED BY <3>1, <3>3, UsualFound
  <2> QED BY <2>2
<1> QED BY <1>2, <1>3, <1>4, <1>5, <1>6 DEF Next, UploadsOwn, SweepStep, SweepsOwn

-----------------------------------------------------------------------------

\* What a recovery has in hand stays as it was found, whatever others do.
LEMMA SweepLasts ==
  ASSUME Types, NEW p \in Processes, SweepFound(p), sweep'[p] = sweep[p], life'[p] = life[p],
         \A i \in Intakes : Lasts(i)
  PROVE SweepFound(p)'
<1>1. sweep[p] \in SweepType /\ (sweep[p].at \in Held => sweep[p].cur \in Scanned)
  BY DEF Types, TypeOK, InHand, Held
<1>2. Me(p)' = Me(p) BY DEF Me
<1>3. \A s \in sweep[p].todo : s.of \in Intakes BY <1>1 DEF SweepType, Scanned
<1>4. sweep[p].at \in Held => sweep[p].cur.of \in Intakes BY <1>1 DEF Scanned
<1>5. ASSUME TodoFound(p) PROVE TodoFound(p)'
  BY <1>2, <1>3, <1>5, SettledLasts DEF TodoFound
<1>6. ASSUME sweep[p].at \in Held, HandFound(p) PROVE HandFound(p)'
  <2>1. Settled(sweep[p].cur.of, sweep[p].cur.row)' BY <1>4, <1>6, SettledLasts DEF HandFound
  <2>2. ASSUME sweep[p].at = "release" PROVE Doubt(sweep[p].cur.of)' \/ ~Wrote(sweep[p].cur.of)'
    <3>1. Doubt(sweep[p].cur.of) \/ (Over(sweep[p].cur.of) /\ ~Wrote(sweep[p].cur.of))
      BY <1>6, <2>2 DEF HandFound, Settled
    <3> QED BY <1>4, <1>6, <3>1 DEF Lasts
  <2> QED BY <2>1, <2>2 DEF HandFound
<1> QED BY <1>5, <1>6 DEF SweepFound

\* The rows that are left of those that were scanned.
LEMMA TodoLasts ==
  ASSUME Types, NEW p \in Processes, TodoFound(p), sweep'[p].todo \subseteq sweep[p].todo,
         life' = life, \A i \in Intakes : Lasts(i)
  PROVE TodoFound(p)'
<1>1. Me(p)' = Me(p) BY DEF Me
<1>2. sweep[p] \in SweepType BY DEF Types, TypeOK
<1>3. \A s \in sweep[p].todo : s.of \in Intakes BY <1>2 DEF SweepType, Scanned
<1> QED BY <1>1, <1>3, SettledLasts DEF TodoFound

LEMMA ScanFound ==
  ASSUME Types, Founds, NEW p \in Processes, Scan(p), \A i \in Intakes : Lasts(i)
  PROVE SweepFound(p)'
<1>1. /\ sweep'[p].at = "take" /\ life' = life
      /\ sweep'[p].todo = {[of |-> i, row |-> res[i]] : i \in Pending}
  BY DEF Scan, Types, TypeOK
<1>2. Me(p)' = Me(p) BY <1>1 DEF Me
<1>3. ASSUME NEW i \in Pending PROVE res[i].owner \in Owners /\ i \in Intakes
  BY DEF Pending, Founds, IntakeFound
<1>4. ASSUME NEW i \in Pending, res[i].owner[1] = p, res[i].owner # Me(p) PROVE Settled(i, res[i])
  <2>1. IntakeFound(i) /\ res[i].active BY DEF Pending, Founds
  <2>2. ASSUME ~Doubt(i) PROVE Over(i)
    <3>1. call[i].at # "new" BY <2>1 DEF IntakeFound
    <3>2. call[i].at # "over" => res[i].owner = Me(call[i].proc) BY <2>1, <2>2, <3>1 DEF IntakeFound
    <3>3. Me(call[i].proc)[1] = call[i].proc BY DEF Me
    <3> QED BY <1>4, <3>2, <3>3 DEF Over
  <2>3. res[i].publishing \/ ~Wrote(i) BY <2>1 DEF IntakeFound
  <2> QED BY <2>2, <2>3 DEF Settled
<1>5. ASSUME NEW s \in sweep'[p].todo
      PROVE /\ s.row.owner \in Owners
            /\ s.row.owner[1] = p /\ s.row.owner # Me(p) => Settled(s.of, s.row)'
  <2>1. PICK i \in Pending : s = [of |-> i, row |-> res[i]] BY <1>1
  <2>2. s.of = i /\ s.row = res[i] BY <2>1
  <2> QED BY <1>3, <1>4, <2>2, SettledLasts
<1>6. TodoFound(p)' BY <1>2, <1>5 DEF TodoFound
<1> QED BY <1>1, <1>6 DEF SweepFound, Held

\* Where a step of a recovery leaves it.
LEMMA SweepsTo ==
  ASSUME Types, NEW p \in Processes, NEW at, Sweeps(p, at)
  PROVE /\ sweep'[p].at = at /\ sweep'[p].todo = sweep[p].todo
        /\ at # "take" => sweep'[p].cur = sweep[p].cur
<1>1. sweep \in [Processes -> SweepType] BY DEF Types, TypeOK
<1> DEFINE c == IF at = "take" THEN None ELSE sweep[p].cur
           w == [sweep[p] EXCEPT !.at = at, !.cur = c]
<1>2. sweep' = [sweep EXCEPT ![p] = w] BY <1>1 DEF Sweeps, SweepType
<1>3. at # "take" => c = sweep[p].cur OBVIOUS
<1> HIDE DEF c
<1>4. w.at = at /\ w.todo = sweep[p].todo /\ w.cur = c BY <1>1 DEF SweepType
<1> HIDE DEF w
<1> QED BY <1>1, <1>2, <1>3, <1>4

LEMMA HandStepFound ==
  ASSUME OwnIds, Types, Founds, NEW p \in Processes, \A i \in Intakes : Lasts(i),
         \/ SweepChecks(p) \/ SweepDiscards(p) \/ SweepReleases(p)
         \/ SweepFails(p) /\ sweep[p].at # "undo"
  PROVE SweepFound(p)'
<1>1. SweepFound(p) /\ IdsFound /\ life' = life /\ sweep[p].at \in Held
  BY DEF Founds, SweepChecks, SweepDiscards, SweepReleases, SweepFails, Held
<1>2. PICK s \in Scanned : s = sweep[p].cur BY <1>1 DEF Types, InHand, Held
<1>3. s.of \in Intakes BY <1>2 DEF Scanned
<1>4. TodoFound(p) /\ HandFound(p) /\ Settled(s.of, s.row) BY <1>1, <1>2 DEF SweepFound, HandFound
<1>5. ASSUME Sweeps(p, "take") PROVE SweepFound(p)'
  <2>1. sweep'[p].at = "take" /\ sweep'[p].todo = sweep[p].todo BY <1>5, SweepsTo
  <2>2. TodoFound(p)' BY <1>1, <1>4, <2>1, TodoLasts
  <2> QED BY <2>1, <2>2 DEF SweepFound, Held
<1>6. ASSUME NEW at \in {"discard", "release"}, Sweeps(p, at),
             at = "release" => Doubt(s.of)' \/ ~Wrote(s.of)'
      PROVE SweepFound(p)'
  <2>1. sweep'[p].at = at /\ sweep'[p].todo = sweep[p].todo /\ sweep'[p].cur = s BY <1>2, <1>6, SweepsTo
  <2>2. TodoFound(p)' BY <1>1, <1>4, <2>1, TodoLasts
  <2>3. Settled(s.of, s.row)' BY <1>3, <1>4, SettledLasts
  <2>4. HandFound(p)' BY <1>6, <2>1, <2>3 DEF HandFound
  <2> QED BY <2>2, <2>4 DEF SweepFound
<1>7. CASE SweepChecks(p)
  <2>1. CASE Sweeps(p, "take") BY <1>5, <2>1
  <2>2. CASE Sweeps(p, "discard") BY <1>6, <2>2
  <2>3. CASE Sweeps(p, "release") /\ ~s.row.publishing
    <3>1. Doubt(s.of)' \/ ~Wrote(s.of)' BY <1>3, <1>4, <2>3 DEF Settled, Lasts
    <3> QED BY <1>6, <2>3, <3>1
  <2> QED BY <1>2, <1>7, <2>1, <2>2, <2>3 DEF SweepChecks
<1>8. CASE SweepDiscards(p)
  <2>1. CASE Sweeps(p, "take") BY <1>5, <2>1
  <2>2. CASE Sweeps(p, "release") /\ ~Refused(s.of) /\ Discard(s.of)
    <3>1. ~Wrote(s.of)' BY <1>1, <1>3, <2>2, DiscardRows
    <3> QED BY <1>6, <2>2, <3>1
  <2> QED BY <1>2, <1>8, <2>1, <2>2 DEF SweepDiscards
<1>9. CASE SweepReleases(p) BY <1>5, <1>9 DEF SweepReleases
<1>10. CASE SweepFails(p) /\ sweep[p].at # "undo" BY <1>5, <1>10 DEF SweepFails
<1> QED BY <1>7, <1>8, <1>9, <1>10

LEMMA TakeSweepFound ==
  ASSUME Apart, Types, Founds, NEW p \in Processes, NEW s \in sweep[p].todo, Take(p, s),
         \A i \in Intakes : Lasts(i)
  PROVE SweepFound(p)'
<1>1. sweep \in [Processes -> SweepType] /\ life' = life /\ sweep[p].at = "take"
  BY DEF Types, TypeOK, Take
<1>2. TodoFound(p) BY <1>1 DEF Founds, SweepFound
<1>3. CASE Claimed(s, p)
  <2>1. sweep'[p] = [at |-> "check", todo |-> sweep[p].todo \ {s}, cur |-> s] /\ s \in Scanned
    BY <1>3, TakeFrame
  <2>2. sweep'[p].at = "check" /\ sweep'[p].todo \subseteq sweep[p].todo /\ sweep'[p].cur = s
    BY <2>1
  <2>3. s.of \in Intakes BY <2>1 DEF Scanned
  <2>4. Doubt(s.of)' \/ Settled(s.of, s.row) BY <1>3, ClaimSettled
  <2>5. Settled(s.of, s.row)'
    <3>1. CASE Doubt(s.of)' BY <3>1 DEF Settled
    <3>2. CASE Settled(s.of, s.row) BY <2>3, <3>2, SettledLasts
    <3> QED BY <2>4, <3>1, <3>2
  <2>6. HandFound(p)' BY <2>2, <2>5 DEF HandFound
  <2>7. TodoFound(p)' BY <1>1, <1>2, <2>2, TodoLasts
  <2> QED BY <2>6, <2>7 DEF SweepFound
<1>4. CASE ~Claimed(s, p)
  <2> DEFINE w == [sweep[p] EXCEPT !.todo = sweep[p].todo \ {s}]
  <2>1. sweep' = [sweep EXCEPT ![p] = w] BY <1>1, <1>4 DEF Take
  <2>2. w.at = "take" /\ w.todo \subseteq sweep[p].todo BY <1>1 DEF SweepType
  <2> HIDE DEF w
  <2>3. sweep'[p].at = "take" /\ sweep'[p].todo \subseteq sweep[p].todo BY <1>1, <2>1, <2>2
  <2>4. TodoFound(p)' BY <1>1, <1>2, <2>3, TodoLasts
  <2> QED BY <2>3, <2>4 DEF SweepFound, Held
<1> QED BY <1>3, <1>4

LEMMA SweepsFound ==
  ASSUME Apart, OwnIds, Types, Founds, [Next]_vars, \A i \in Intakes : Lasts(i), NEW q \in Processes
  PROVE SweepFound(q)'
<1>1. SweepFound(q) /\ sweep \in [Processes -> SweepType] /\ life \in [Processes -> Nat]
  BY DEF Founds, Types, TypeOK
<1>2. ASSUME sweep'[q].at \notin {"take"} \cup Held PROVE SweepFound(q)'
  BY <1>2 DEF SweepFound
<1>3. CASE sweep'[q] = sweep[q] /\ life'[q] = life[q] BY <1>1, <1>3, SweepLasts
<1>4. ASSUME NEW p \in Processes, SweepStep(p) \/ SweepFails(p) PROVE SweepFound(q)'
  <2>1. SweepsOwn(p) \/ \E s \in sweep[p].todo : Take(p, s) BY <1>4 DEF SweepStep, SweepsOwn
  <2>2. CASE q # p
    <3>1. sweep'[q] = sweep[q] /\ life' = life BY <2>1, <2>2, SweepFrame
    <3> QED BY <1>3, <3>1
  <2>3. CASE q = p
    <3>1. CASE Scan(p) BY <2>3, <3>1, ScanFound
    <3>2. CASE \/ SweepChecks(p) \/ SweepDiscards(p) \/ SweepReleases(p)
               \/ SweepFails(p) /\ sweep[p].at # "undo"
      BY <2>3, <3>2, HandStepFound
    <3>3. ASSUME NEW s \in sweep[p].todo, Take(p, s) PROVE SweepFound(q)'
      BY <2>3, <3>3, TakeSweepFound
    <3>4. CASE \/ FencedScan(p) \/ FencedDiscards(p) \/ SweepEnds(p)
               \/ SweepFails(p) /\ sweep[p].at = "undo"
               \/ \E s \in sweep[p].todo : FencedChecks(p, s)
      <4>1. sweep'[p].at \in {"fenced", "undo", "idle"}
        BY <1>1, <3>4 DEF FencedScan, FencedDiscards, SweepEnds, SweepFails, FencedChecks, Idle, SweepType
      <4> QED BY <1>2, <2>3, <4>1 DEF Held
    <3> QED BY <1>4, <3>1, <3>2, <3>3, <3>4 DEF SweepStep
  <2> QED BY <2>2, <2>3
<1>5. ASSUME NEW p \in Processes, Crash(p) PROVE SweepFound(q)'
  <2>1. CASE q = p
    <3>1. sweep'[q].at = "idle" BY <1>1, <1>5, <2>1 DEF Crash, Idle
    <3> QED BY <1>2, <3>1 DEF Held
  <2>2. CASE q # p
    <3>1. sweep'[q] = sweep[q] /\ life'[q] = life[q] BY <1>1, <1>5, <2>2 DEF Crash
    <3> QED BY <1>3, <3>1
  <2> QED BY <2>1, <2>2
<1>6. ASSUME NEW i \in Intakes, UploadsOwn(i) PROVE SweepFound(q)'
  <2>1. UNCHANGED <<life, sweep>> BY <1>6, UploadFrame
  <2> QED BY <1>3, <2>1
<1>7. CASE UNCHANGED vars \/ (\E k \in Keys : JobEnds(k)) \/ \E p \in Processes : Start(p)
  BY <1>3, <1>7 DEF vars, JobEnds, Start
<1> QED BY <1>4, <1>5, <1>6, <1>7 DEF Next, UploadsOwn

-----------------------------------------------------------------------------

\* The ids of a key, whoever writes them.
LEMMA IdsKept ==
  ASSUME OwnIds, Types, IdsFound, [Next]_vars
  PROVE IdsFound'
<1>1. /\ vers \in [Keys -> [tag : Intakes \cup {None}, doc : DocIds \cup {None}]]
      /\ call \in [Intakes -> CallType]
      /\ \A i \in Intakes : KeyOf[i] \in Keys /\ Doc(i) = KeyOf[i] /\ i # None
  BY DocType, IntakeAssumption DEF Types, TypeOK, OwnIds, Doc
<1> DEFINE VersKept == \A k \in Keys : vers'[k].tag # None => KeyOf[vers'[k].tag] = k /\ vers'[k].doc = k
           JobsKept == \A k \in Keys : jobs'[k] # NoJob => jobs'[k].doc = k /\ jobs'[k].ver = k
           CallsKept == \A i \in Intakes : call'[i].at = "publish" => call'[i].ver = KeyOf[i]
<1>2. ASSUME vers' = vers PROVE VersKept BY <1>2 DEF IdsFound
<1>3. ASSUME jobs' = jobs PROVE JobsKept BY <1>3 DEF IdsFound
<1>4. ASSUME CallsBack PROVE CallsKept BY <1>4 DEF CallsBack, IdsFound
<1>5. ASSUME NEW i \in Intakes, Discard(i) PROVE VersKept
  <2>1. NoVersion.tag = None BY DEF NoVersion
  <2>2. vers' = vers \/ vers' = [vers EXCEPT ![KeyOf[i]] = NoVersion] BY <1>5 DEF Discard
  <2> QED BY <1>1, <2>1, <2>2 DEF IdsFound
<1>6. ASSUME NEW i \in Intakes, CreateVersion(i) PROVE IdsFound'
  <2>1. /\ jobs' = jobs
        /\ \/ Goes(i, "abandon") /\ vers' = vers
           \/ /\ \E k \in Known(KeyOf[i]) : call' = [call EXCEPT ![i].at = "publish", ![i].ver = k]
              /\ vers' = vers
           \/ /\ vers' = [vers EXCEPT ![KeyOf[i]] = NewVersion(i)]
              /\ call' = [call EXCEPT ![i].at = "publish", ![i].ver = KeyOf[i]]
    BY <1>1, <1>6 DEF CreateVersion
  <2>2. \A k \in Known(KeyOf[i]) : k = KeyOf[i] BY DEF Known, IdsFound
  <2>3. NewVersion(i).tag = i /\ NewVersion(i).doc = KeyOf[i] BY <1>1 DEF NewVersion
  <2>4. VersKept
    <3>1. vers' = vers \/ vers' = [vers EXCEPT ![KeyOf[i]] = NewVersion(i)] BY <2>1
    <3> QED BY <1>1, <2>3, <3>1 DEF IdsFound
  <2>5. CallsKept
    <3>1. \/ Goes(i, "abandon")
          \/ call' = [call EXCEPT ![i].at = "publish", ![i].ver = KeyOf[i]]
      BY <2>1, <2>2
    <3>2. CASE Goes(i, "abandon")
      <4>1. CallsBack BY <1>6, <3>2, GoesBack DEF CreateVersion
      <4> QED BY <1>4, <4>1
    <3>3. CASE call' = [call EXCEPT ![i].at = "publish", ![i].ver = KeyOf[i]]
      <4>1. call'[i].ver = KeyOf[i] /\ \A j \in Intakes \ {i} : call'[j] = call[j]
        BY <1>1, <3>3 DEF CallType
      <4> QED BY <4>1 DEF IdsFound
    <3> QED BY <3>1, <3>2, <3>3
  <2> QED BY <1>3, <2>1, <2>4, <2>5 DEF IdsFound
<1>7. ASSUME NEW i \in Intakes, Enqueue(i) PROVE IdsFound'
  <2>1. vers' = vers /\ call[i].at = "publish" /\ (Goes(i, "finish") \/ Goes(i, "abandon"))
    BY <1>7 DEF Enqueue
  <2>2. CallsBack BY <2>1, GoesBack
  <2>3. JobsKept
    <3>1. CASE jobs' = jobs BY <1>3, <3>1
    <3>2. CASE jobs' # jobs
      <4>1. /\ jobs'[KeyOf[i]].doc = Doc(i) /\ jobs'[KeyOf[i]].ver = call[i].ver
            /\ \A k \in Keys \ {KeyOf[i]} : jobs'[k] = jobs[k]
        BY <1>7, <3>2, PublishFrame
      <4> QED BY <1>1, <2>1, <4>1 DEF IdsFound
    <3> QED BY <3>1, <3>2
  <2> QED BY <1>2, <1>4, <2>1, <2>2, <2>3 DEF IdsFound
<1>8. ASSUME NEW i \in Intakes, UploadsOwn(i), ~CreateVersion(i), ~Enqueue(i) PROVE IdsFound'
  <2>1. jobs' = jobs
    BY <1>8 DEF UploadsOwn, UploadStep, MarkPublishing, CreateDocument, Abandon, AbandonChecks,
       AbandonDiscards, AbandonReleases, Finish, UploadFails, AbandonFails, FinishFails, Lapse,
       Heartbeat, Reserve
  <2>2. CallsKept
    <3>1. CASE CreateDocument(i)
      <4>1. Goes(i, "version") \/ Goes(i, "abandon") BY <3>1 DEF CreateDocument
      <4>2. call'[i].at # "publish" /\ \A j \in Intakes \ {i} : call'[j] = call[j]
        BY <1>1, <4>1 DEF Goes, CallType
      <4> QED BY <4>2 DEF IdsFound
    <3>2. CASE ~CreateDocument(i)
      <4>1. CallsBack BY <1>8, <3>2, UploadBack, AsideBack DEF UploadsOwn, UploadStep
      <4> QED BY <1>4, <4>1
    <3> QED BY <3>1, <3>2
  <2>3. VersKept
    <3>1. CASE AbandonDiscards(i) BY <1>5, <3>1 DEF AbandonDiscards
    <3>2. CASE ~AbandonDiscards(i)
      <4>1. vers' = vers
        BY <1>8, <3>2 DEF UploadsOwn, UploadStep, MarkPublishing, CreateDocument, Abandon, AbandonChecks,
           AbandonReleases, Finish, UploadFails, AbandonFails, FinishFails, Lapse, Heartbeat, Reserve
      <4> QED BY <1>2, <4>1
    <3> QED BY <3>1, <3>2
  <2> QED BY <1>3, <2>1, <2>2, <2>3 DEF IdsFound
<1>9. ASSUME NEW p \in Processes, SweepStep(p) \/ SweepFails(p) PROVE IdsFound'
  <2>1. UNCHANGED <<call, jobs>> BY <1>9, SweepFrame DEF SweepStep, SweepsOwn
  <2>2. VersKept
    <3>1. CASE SweepDiscards(p) \/ FencedDiscards(p)
      <4>1. sweep[p].at \in InHand BY <3>1 DEF SweepDiscards, FencedDiscards, InHand
      <4>2. sweep[p].cur \in Scanned BY <4>1 DEF Types
      <4>3. sweep[p].cur.of \in Intakes BY <4>2 DEF Scanned
      <4>4. Discard(sweep[p].cur.of) BY <3>1 DEF SweepDiscards, FencedDiscards
      <4> QED BY <1>5, <4>3, <4>4
    <3>2. CASE ~(SweepDiscards(p) \/ FencedDiscards(p))
      <4>1. vers' = vers
        BY <1>9, <3>2 DEF SweepStep, SweepFails, Scan, SweepChecks, SweepReleases, FencedScan,
           SweepEnds, Take, FencedChecks
      <4> QED BY <1>2, <4>1
    <3> QED BY <3>1, <3>2
  <2>3. JobsKept BY <1>3, <2>1
  <2>4. CallsKept BY <1>4, <2>1, CallsStay
  <2> QED BY <2>2, <2>3, <2>4 DEF IdsFound
<1>10. ASSUME NEW p \in Processes, Crash(p) \/ Start(p) PROVE IdsFound'
  <2>1. UNCHANGED <<vers, jobs>> BY <1>10 DEF Crash, Start
  <2>2. CallsKept BY <1>4, <1>10, FaultBack
  <2> QED BY <1>2, <1>3, <2>1, <2>2 DEF IdsFound
<1>11. ASSUME NEW k \in Keys, JobEnds(k) PROVE IdsFound'
  <2>1. UNCHANGED <<vers, call>> BY <1>11 DEF JobEnds
  <2>2. JobsKeep BY <1>11, JobEndsOrdinary DEF Ordinary
  <2>3. JobsKept BY <2>2 DEF JobsKeep, IdsFound
  <2>4. CallsKept BY <1>4, <2>1, CallsStay
  <2> QED BY <1>2, <2>1, <2>3, <2>4 DEF IdsFound
<1>12. CASE UNCHANGED vars
  <2>1. UNCHANGED <<vers, jobs, call>> BY <1>12 DEF vars
  <2>2. CallsKept BY <1>4, <2>1, CallsStay
  <2> QED BY <1>2, <1>3, <2>1, <2>2 DEF IdsFound
<1> QED BY <1>6, <1>7, <1>8, <1>9, <1>10, <1>11, <1>12 DEF Next, UploadsOwn

LEMMA InitFounds == ASSUME Init PROVE Founds
<1>1. /\ NoRow.active = FALSE /\ NoRow.fenced = FALSE /\ NoVersion.tag = None /\ NoJob.ver = None
      /\ NoCall.at = "new" /\ Idle.at = "idle"
  BY DEF NoRow, NoVersion, NoJob, NoCall, Idle
<1>2. ASSUME NEW i \in Intakes PROVE IntakeFound(i)
  <2>1. KeyOf[i] \in Keys /\ i # None BY DocType, IntakeAssumption
  <2>2. ~Wrote(i) BY <1>1, <2>1 DEF Init, Wrote, OwnVersion
  <2>3. ~res[i].active /\ ~res[i].fenced /\ taken[i] = {} /\ call[i].at = "new" BY <1>1 DEF Init
  <2> QED BY <2>2, <2>3 DEF IntakeFound, Doubt, Working
<1>3. ASSUME NEW p \in Processes PROVE SweepFound(p) BY <1>1 DEF Init, SweepFound, Held
<1>4. IdsFound
  <2>1. \A k \in Keys : vers[k].tag = None /\ jobs[k] = NoJob BY <1>1 DEF Init
  <2>2. \A i \in Intakes : call[i].at = "new" BY <1>1 DEF Init
  <2> QED BY <2>1, <2>2 DEF IdsFound
<1> QED BY <1>2, <1>3, <1>4 DEF Founds

LEMMA FoundsFind == ASSUME Types, Founds PROVE LitterFound
<1> SUFFICES ASSUME NEW i \in Intakes, Litter(i), "lost" \notin taken[i]
             PROVE res[i].publishing /\ (i \in Pending \/ i \in Fenced)
  BY DEF LitterFound
<1>1. IntakeFound(i) /\ IdsFound /\ KeyOf[i] \in Keys BY DocType DEF Founds
<1>2. Wrote(i) BY DEF Litter, Wrote
<1>3. ~Published(i) BY <1>1 DEF Litter, Published, IdsFound
<1>4. res[i].publishing BY <1>1, <1>2 DEF IntakeFound
<1>5. CASE res[i].fenced BY <1>4, <1>5 DEF Fenced
<1>6. CASE ~res[i].fenced
  <2>1. res[i].active BY <1>1, <1>2, <1>3, <1>6 DEF IntakeFound, Doubt
  <2> QED BY <1>3, <1>4, <2>1 DEF Pending
<1> QED BY <1>5, <1>6

\* Uploads of new documents under ids of their own, in processes that each have
\* a host of their own: whatever crashes, sleeps, fails or is taken over, the
\* rows an upload left unpublished can always be found again. The server may
\* take uploads itself.
THEOREM NothingForgotten ==
  ASSUME Apart, OwnIds
  PROVE Spec => []LitterFound
<1>1. Init => Types /\ Founds BY InitTypes, InitFounds
<1>2. Types /\ Founds /\ [Next]_vars => Types' /\ Founds'
  <2>1. ASSUME Types, Founds, [Next]_vars PROVE Founds'
    <3>1. \A i \in Intakes : IntakeFound(i)' /\ Lasts(i) BY <2>1, IntakesFound
    <3>2. \A p \in Processes : SweepFound(p)' BY <2>1, <3>1, SweepsFound
    <3>3. IdsFound' BY <2>1, IdsKept DEF Founds
    <3> QED BY <3>1, <3>2, <3>3 DEF Founds
  <2> QED BY <2>1, TypesKept
<1>3. Types /\ Founds => LitterFound BY FoundsFind
<1> QED BY <1>1, <1>2, <1>3, PTL DEF Spec

=============================================================================
