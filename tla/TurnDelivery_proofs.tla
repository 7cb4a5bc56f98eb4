------------------------ MODULE TurnDelivery_proofs ------------------------
(* What holds of TurnDelivery for every value of its constants. *)
EXTENDS TurnDelivery, Integers, TLAPS

----------------------------------------------------------------------------
(* The operators on pages, messages and the journal.                       *)

LEMMA Bounds == 0 \in 0 .. MaxReopens
BY DeliveryAssumption

LEMMA Appended ==
  ASSUME NEW S, NEW s \in Seq(S), NEW e \in S
  PROVE  /\ Append(s, e) \in Seq(S) /\ Len(Append(s, e)) = Len(s) + 1
         /\ \A i \in 1 .. Len(s) : Append(s, e)[i] = s[i]
         /\ Append(s, e)[Len(s) + 1] = e
OBVIOUS

LEMMA PaintedType ==
  ASSUME NEW p \in PageType, NEW kind \in Kinds
  PROVE  /\ Painted(p, kind) \in PageType
         /\ PaintedHistory(p, kind) \in PageType
<1>1. [p EXCEPT !.gate = TRUE] \in PageType /\ [p EXCEPT !.gate = FALSE] \in PageType
  BY DEF PageType
<1>2. [p EXCEPT !.awaiting = FALSE] \in PageType
  BY DEF PageType
<1> QED
  BY <1>1, <1>2 DEF Painted, PaintedHistory

LEMMA LoweredType ==
  ASSUME NEW p \in PageType
  PROVE  Lowered(p) \subseteq PageType
BY DEF Lowered, PageType

LEMMA TrackedType ==
  ASSUME NEW p \in PageType, NEW n \in Nat
  PROVE  Tracked(p, n) \in PageType
BY DEF Tracked, PageType

LEMMA ResumedType ==
  ASSUME NEW p \in PageType, NEW n \in Nat
  PROVE  Resumed(p, n) \in PageType
BY DEF Resumed, PageType

LEMMA AdoptedType ==
  ASSUME NEW p \in PageType, NEW n \in Nat
  PROVE  /\ AdoptHead(p, n) \in PageType
         /\ [AdoptHead(p, n) EXCEPT !.seen = p.seen] \in PageType
BY DEF AdoptHead, PageType

LEMMA NotedType ==
  ASSUME NEW p \in PageType, NEW f \in Frame
  PROVE  Noted(p, f) \in PageType
BY DEF Noted, PageType, Frame

LEMMA CursorType ==
  ASSUME NEW p \in PageType
  PROVE  Cursor(p) \in Nat
BY DEF Cursor, PageType

LEMMA AttachedType ==
  ASSUME NEW p \in PageType, NEW waived \in BOOLEAN, MayAttach(p, waived)
  PROVE  Attached(p, waived) \in PageType
<1> DEFINE n == (IF waived THEN 0 ELSE p.reopens) + 1
<1>1. n \in 0 .. MaxReopens
  BY DeliveryAssumption DEF MayAttach, PageType
<1>2. Attached(p, waived) = [p EXCEPT !.reopens = n]
  BY DEF Attached, PageType
<1> HIDE DEF n
<1> QED
  BY <1>1, <1>2 DEF PageType

LEMMA HydratedType ==
  ASSUME page \in PageType, NEW status
  PROVE  Hydrated(status) \in PageType
BY DEF Hydrated, PageType

LEMMA StatusType == \A t : Status(t) \in Statuses
BY DEF Status, Statuses

\* A journal that ever had a frame retains one.
Retains == head > 0 => journal # <<>>

\* What a replay hands out: the frames after the cursor up to the head, in order,
\* each with its kind.
LEMMA ReplayIs ==
  ASSUME TypeOK, Retains, NEW cursor \in Nat
  PROVE  /\ Replay(cursor) \in Seq(Frame)
         /\ \A i \in 1 .. Len(Replay(cursor)) :
              Replay(cursor)[i] = [seq |-> cursor + i, kind |-> KindAt(cursor + i)]
         /\ \A i \in 1 .. Len(Replay(cursor)) : cursor + i <= head
         /\ ~Gap(cursor) => cursor <= head /\ Len(Replay(cursor)) = head - cursor
<1> USE DEF TypeOK, Retains
<1>1. CASE Gap(cursor) \/ head <= cursor
  <2>1. Replay(cursor) = <<>>
    BY <1>1 DEF Replay
  <2>2. ~Gap(cursor) => cursor = head
    BY <1>1 DEF Gap
  <2> QED
    BY <2>1, <2>2
<1>2. CASE ~(Gap(cursor) \/ head <= cursor)
  <2>1. /\ journal # <<>> /\ cursor < head /\ cursor >= head - Len(journal)
    BY <1>2 DEF Gap
  <2>2. \A i \in 1 .. head - cursor : KindAt(cursor + i) \in Kinds
    <3> SUFFICES ASSUME NEW i \in 1 .. head - cursor
                 PROVE  KindAt(cursor + i) \in Kinds
      OBVIOUS
    <3>1. Len(journal) - (head - (cursor + i)) \in 1 .. Len(journal)
      BY <2>1
    <3> QED
      BY <3>1 DEF KindAt
  <2>3. Replay(cursor) = Slice(cursor)
    BY <1>2 DEF Replay
  <2>4. /\ Slice(cursor) \in Seq(Frame) /\ Len(Slice(cursor)) = head - cursor
        /\ \A i \in 1 .. head - cursor :
              Slice(cursor)[i] = [seq |-> cursor + i, kind |-> KindAt(cursor + i)]
    <3> DEFINE n == head - cursor
               elt(i) == [seq |-> cursor + i, kind |-> KindAt(cursor + i)]
    <3>1. n \in Nat
      BY <2>1
    <3>2. ASSUME NEW i \in 1 .. n
          PROVE  elt(i) \in Frame
      <4>1. cursor + i \in Nat /\ KindAt(cursor + i) \in Kinds
        BY <2>2, <3>1
      <4> QED
        BY <4>1 DEF Frame
    <3>3. Slice(cursor) = [i \in 1 .. n |-> elt(i)]
      BY DEF Slice
    <3> HIDE DEF n, elt
    <3>4. Slice(cursor) \in Seq(Frame) /\ Len(Slice(cursor)) = n
      BY <3>1, <3>2, <3>3
    <3>5. \A i \in 1 .. n : Slice(cursor)[i] = elt(i)
      BY <3>3
    <3> QED
      BY <3>4, <3>5 DEF n, elt
  <2> QED
    BY <2>1, <2>3, <2>4
<1> QED
  BY <1>1, <1>2

----------------------------------------------------------------------------
(* Types.                                                                  *)

JournalOK ==
  /\ journal \in Seq(Kinds) /\ Len(journal) <= MaxEvents
  /\ head \in Nat /\ base \in Nat /\ Len(journal) <= head
  /\ Retains

StreamOK == sse \in StreamType /\ Len(sse.queue) <= QueueMax /\ sent \in SentType

ChannelOK == socket \in SocketType /\ wire \in Seq(Message) /\ missed \subseteq Nat

TInv == TypeOK /\ Retains

LEMMA NothingTypes ==
  /\ NoStream \in StreamType /\ Len(NoStream.queue) <= QueueMax
  /\ NothingSent \in SentType /\ NoSocket \in SocketType
  /\ <<>> \in Seq(Message)
<1>1. <<>> \in Seq(Frame) /\ Len(<<>>) = 0
  OBVIOUS
<1> QED
  BY <1>1, DeliveryAssumption
     DEF NoStream, StreamType, NothingSent, SentType, NoSocket, SocketType

LEMMA AppendType ==
  ASSUME TInv, NEW kind \in Kinds, Append1(kind)
  PROVE  JournalOK'
<1>0. /\ journal \in Seq(Kinds) /\ Len(journal) <= MaxEvents
      /\ head \in Nat /\ base \in Nat /\ Len(journal) <= head
  BY DEF TInv, TypeOK
<1> USE <1>0 DEF Append1
<1>1. CASE Len(journal) < MaxEvents
  <2>1. journal' = Append(journal, kind)
    BY <1>1
  <2>2. journal' \in Seq(Kinds) /\ Len(journal') = Len(journal) + 1
    <3>1. /\ Append(journal, kind) \in Seq(Kinds)
          /\ Len(Append(journal, kind)) = Len(journal) + 1
      BY <1>0, Appended
    <3> QED
      BY <2>1, <3>1
  <2> QED
    BY <1>1, <2>2, DeliveryAssumption DEF JournalOK, Retains
<1>2. CASE ~(Len(journal) < MaxEvents)
  <2>1. Len(journal) = MaxEvents /\ journal # <<>>
    BY <1>2, DeliveryAssumption
  <2>2. Tail(journal) \in Seq(Kinds) /\ Len(Tail(journal)) = Len(journal) - 1
    BY <2>1
  <2>3. journal' = Append(Tail(journal), kind)
    BY <1>2
  <2> QED
    BY <2>1, <2>2, <2>3, DeliveryAssumption DEF JournalOK, Retains
<1> QED
  BY <1>1, <1>2

LEMMA ForgetType ==
  ASSUME TInv, Forget
  PROVE  JournalOK'
<1>1. <<>> \in Seq(Kinds) /\ Len(<<>>) = 0
  OBVIOUS
<1> QED
  BY <1>1, DeliveryAssumption DEF TInv, TypeOK, Forget, JournalOK, Retains

LEMMA SentWireType ==
  ASSUME TInv, NEW kind \in Kinds, Sent(kind)
  PROVE  ChannelOK'
<1>1. /\ head \in Nat /\ base \in Nat
      /\ socket \in SocketType /\ wire \in Seq(Message) /\ missed \subseteq Nat
  BY DEF TInv, TypeOK
<1> DEFINE m == [word |-> "live", seq |-> head + 1, kind |-> kind, of |-> base]
<1>2. m \in Message
  BY <1>1 DEF Message
<1>3. wire' \in {wire, Append(wire, m)}
  BY DEF Sent
<1> HIDE DEF m
<1>4. wire' \in Seq(Message)
  BY <1>1, <1>2, <1>3
<1> QED
  BY <1>1, <1>4 DEF Sent, ChannelOK

LEMMA QueuedType ==
  ASSUME TInv, NEW kind \in Kinds, Queued(kind)
  PROVE  StreamOK'
<1>1. [seq |-> head + 1, kind |-> kind] \in Frame
  BY DEF TInv, TypeOK, Frame
<1>2. CASE UNCHANGED <<sse, sent>>
  BY <1>2 DEF TInv, TypeOK, StreamOK
<1>3. CASE /\ Len(sse.queue) < QueueMax
           /\ sse' = [sse EXCEPT !.queue = Append(@, [seq |-> head + 1, kind |-> kind])]
           /\ UNCHANGED sent
  <2>1. sse.queue \in Seq(Frame)
    BY DEF TInv, TypeOK, StreamType
  <2> DEFINE q == Append(sse.queue, [seq |-> head + 1, kind |-> kind])
  <2>2. q \in Seq(Frame) /\ Len(q) = Len(sse.queue) + 1
    BY <1>1, <2>1
  <2>3. sse' = [sse EXCEPT !.queue = q]
    BY <1>3
  <2> HIDE DEF q
  <2>4. sse' \in StreamType /\ sse'.queue = q
    BY <2>2, <2>3 DEF TInv, TypeOK, StreamType
  <2>5. Len(q) <= QueueMax
    BY <1>3, <2>1, <2>2, DeliveryAssumption
  <2> QED
    BY <1>3, <2>4, <2>5 DEF TInv, TypeOK, StreamOK
<1>4. CASE UNCHANGED sse /\ sent' = [sent EXCEPT !.full = TRUE]
  BY <1>4 DEF TInv, TypeOK, StreamOK, SentType
<1> QED
  BY <1>2, <1>3, <1>4 DEF Queued

LEMMA EmitType ==
  ASSUME TInv, NEW kind \in Kinds, Emit(kind)
  PROVE  JournalOK' /\ StreamOK' /\ ChannelOK'
BY AppendType, SentWireType, QueuedType DEF Emit

LEMMA BecomesType ==
  ASSUME TInv, NEW t \in {"idle", "running", "paused", "over"}, Becomes(t)
  PROVE  turn' \in {"idle", "running", "paused", "over"} /\ said' \subseteq Statuses
BY StatusType DEF TInv, TypeOK, Becomes

LEMMA AttachStreamType ==
  ASSUME NEW p \in PageType, AttachStream(p)
  PROVE  StreamOK' /\ said' \subseteq Statuses
<1>1. Cursor(p) \in Nat
  BY CursorType
<1> QED
  BY <1>1, NothingTypes, StatusType DEF AttachStream, StreamOK, StreamType, NoStream

LEMMA AttachJournalType ==
  ASSUME TInv, NEW p \in PageType, NEW waived \in BOOLEAN, MayAttach(p, waived),
         AttachJournal(p, waived)
  PROVE  StreamOK' /\ page' \in PageType /\ said' \subseteq Statuses
BY AttachedType, AttachStreamType DEF AttachJournal

LEMMA TruncatedType ==
  ASSUME TInv, NEW p \in PageType, Truncated(p)
  PROVE  StreamOK' /\ page' \in PageType
BY LoweredType, NothingTypes DEF Truncated, StreamOK

LEMMA SpendType ==
  ASSUME TInv, Spend
  PROVE  faults' \in Nat
BY DEF TInv, TypeOK, Spend

LEMMA TypeInit == Init => TInv
<1> SUFFICES ASSUME Init PROVE TInv
  OBVIOUS
<1>1. journal \in Seq(Kinds) /\ Len(journal) <= MaxEvents /\ head = Len(journal)
  <2>1. <<>> \in Seq(Kinds) /\ Len(<<>>) = 0
    OBVIOUS
  <2>2. journal \in {<<>>, Earlier} /\ head = Len(journal)
    BY DEF Init
  <2>3. Earlier \in Seq(Kinds) /\ Len(Earlier) <= MaxEvents /\ 0 <= MaxEvents
    BY DeliveryAssumption
  <2> QED
    BY <2>1, <2>2, <2>3
<1>2. Retains
  BY <1>1 DEF Retains
<1>3. page \in PageType
  <2>1. \A n \in SavedCursors : n \in Nat
    BY DeliveryAssumption
  <2>2. PICK n \in SavedCursors :
          page = [seen |-> 0, tracker |-> None, saved |-> n, reopens |-> 0,
                  awaiting |-> FALSE, gate |-> FALSE, clicked |-> FALSE]
    BY DEF Init
  <2> QED
    BY <2>1, <2>2, Bounds DEF PageType
<1>4. StreamOK /\ ChannelOK
  BY NothingTypes DEF Init, StreamOK, ChannelOK
<1>5. turn = "idle" /\ parked \in BOOLEAN /\ base \in Nat /\ said \subseteq Statuses
  BY DEF Init, Statuses
<1>6. head \in Nat
  BY <1>1
<1>7. told \in Nat \cup {None} /\ faults \in Nat
  BY DeliveryAssumption DEF Init
<1> QED
  BY <1>1, <1>2, <1>3, <1>4, <1>5, <1>6, <1>7 DEF TInv, TypeOK, StreamOK, ChannelOK

\* Steps of the prompt and its turn.
LEMMA TurnType ==
  ASSUME TInv, TurnStep
  PROVE  TInv'
<1>0. page \in PageType /\ said \subseteq Statuses
  BY DEF TInv, TypeOK
<1> USE DEF server, channel, stream
<1>1. CASE Send
  <2>1. page' \in PageType /\ said' \subseteq Statuses
    BY <1>0, <1>1, Bounds, StatusType DEF Send, PageType
  <2>2. sse' \in StreamType /\ Len(sse'.queue) <= QueueMax
    BY <1>1, NothingTypes DEF Send, StreamType, NoStream
  <2> QED
    BY <1>1, <2>1, <2>2, NothingTypes DEF Send, TInv, TypeOK, Retains
<1>2. CASE StartTurn
  <2>1. JournalOK' /\ ChannelOK'
    BY <1>2, AppendType, SentWireType DEF StartTurn, Kinds
  <2>2. sse' \in StreamType /\ Len(sse'.queue) <= QueueMax
    <3>1. head + 1 \in Nat /\ sse \in StreamType /\ Len(sse.queue) <= QueueMax
      BY DEF TInv, TypeOK
    <3> QED
      BY <1>2, <3>1 DEF StartTurn, StreamType
  <2>3. turn' \in {"idle", "running", "paused", "over"} /\ said' \subseteq Statuses
    BY <1>2, BecomesType DEF StartTurn
  <2> QED
    BY <1>2, <2>1, <2>2, <2>3 DEF StartTurn, TInv, TypeOK, JournalOK, ChannelOK
<1>3. CASE Pause
  <2>1. JournalOK' /\ StreamOK' /\ ChannelOK'
    BY <1>3, EmitType DEF Pause, Kinds
  <2>2. turn' \in {"idle", "running", "paused", "over"} /\ said' \subseteq Statuses
    BY <1>3, BecomesType DEF Pause
  <2> QED
    BY <1>3, <2>1, <2>2, SpendType DEF Pause, TInv, TypeOK, JournalOK, StreamOK, ChannelOK
<1>4. CASE Click
  <2>1. page' \in PageType
    BY <1>0, <1>4 DEF Click, PageType
  <2> QED
    BY <1>4, <2>1 DEF Click, TInv, TypeOK, Retains
<1>5. CASE Approve
  <2>1. JournalOK' /\ StreamOK' /\ ChannelOK'
    BY <1>5, EmitType DEF Approve, Kinds
  <2>2. turn' \in {"idle", "running", "paused", "over"} /\ said' \subseteq Statuses
    BY <1>5, BecomesType DEF Approve
  <2> QED
    BY <1>5, <2>1, <2>2 DEF Approve, TInv, TypeOK, JournalOK, StreamOK, ChannelOK
<1>6. CASE Approved
  <2> DEFINE p == [page EXCEPT !.awaiting = TRUE, !.clicked = FALSE]
  <2>1. p \in PageType
    BY <1>0 DEF PageType
  <2>2. page' \in PageType
    BY <1>6, <2>1, AttachedType DEF Approved, MayAttach
  <2>3. StreamOK' /\ said' \subseteq Statuses
    BY <1>0, <1>6, AttachStreamType DEF Approved
  <2> QED
    BY <1>6, <2>2, <2>3 DEF Approved, TInv, TypeOK, Retains, StreamOK
<1>7. ASSUME NEW kind \in {"token", "note"}, Work(kind)
      PROVE  TInv'
  <2>1. JournalOK' /\ StreamOK' /\ ChannelOK'
    BY <1>7, EmitType DEF Work, Kinds
  <2> QED
    BY <1>7, <2>1 DEF Work, TInv, TypeOK, JournalOK, StreamOK, ChannelOK
<1>8. ASSUME NEW kind \in {"end", "error"}, Finish(kind)
      PROVE  TInv'
  <2>1. JournalOK' /\ StreamOK' /\ ChannelOK'
    BY <1>8, EmitType DEF Finish, Kinds
  <2>2. turn' \in {"idle", "running", "paused", "over"} /\ said' \subseteq Statuses
    BY <1>8, BecomesType DEF Finish
  <2> QED
    BY <1>8, <2>1, <2>2 DEF Finish, TInv, TypeOK, JournalOK, StreamOK, ChannelOK
<1> QED
  BY <1>1, <1>2, <1>3, <1>4, <1>5, <1>6, <1>7, <1>8 DEF TurnStep

\* The head of a non-empty sequence and what is left of it.
LEMMA Taken ==
  ASSUME NEW S, NEW s \in Seq(S), s # <<>>
  PROVE  /\ Head(s) \in S /\ Head(s) = s[1] /\ Len(s) >= 1
         /\ Tail(s) \in Seq(S) /\ Len(Tail(s)) = Len(s) - 1
         /\ \A i \in 1 .. Len(s) - 1 : Tail(s)[i] = s[i + 1]
OBVIOUS

LEMMA OffType ==
  ASSUME sse' = NoStream, sent' = NothingSent
  PROVE  StreamOK'
BY NothingTypes DEF StreamOK

LEMMA PassedType ==
  ASSUME TInv, NEW f \in Frame
  PROVE  Passed(f) \in SentType
BY DEF TInv, TypeOK, SentType, Frame, Passed

\* Steps of the stream.
LEMMA StreamStepType ==
  ASSUME TInv, StreamStep
  PROVE  TInv'
<1>0. /\ sse \in StreamType /\ Len(sse.queue) <= QueueMax /\ sent \in SentType
      /\ page \in PageType /\ socket \in SocketType /\ said \subseteq Statuses
      /\ head \in Nat /\ base \in Nat
  BY DEF TInv, TypeOK
<1> USE DEF server, channel
<1>1. CASE ServeAttach
  <2>1. CASE Gap(sse.cursor)
    <3>1. sse' \in StreamType /\ Len(sse'.queue) <= QueueMax
      BY <1>0, <1>1, <2>1, NothingTypes DEF ServeAttach, StreamType, NoStream
    <3>2. sent' \in SentType
      BY <1>0, <1>1, <2>1, NothingTypes DEF ServeAttach, SentType, NothingSent
    <3> QED
      BY <1>1, <2>1, <3>1, <3>2 DEF ServeAttach, TInv, TypeOK, Retains
  <2>2. CASE ~Gap(sse.cursor)
    <3>1. sse.cursor \in Nat
      BY <1>0 DEF StreamType
    <3>2. Replay(sse.cursor) \in Seq(Frame)
      BY <3>1, ReplayIs DEF TInv
    <3>3. sse' \in StreamType /\ Len(sse'.queue) <= QueueMax
      BY <1>0, <1>1, <2>2, <3>1, <3>2 DEF ServeAttach, StreamType
    <3>4. sent' \in SentType
      <4> DEFINE out == {n \in sse.cursor + 1 .. head : ~Replayable(KindAt(n))}
      <4>1. out \in SUBSET Nat
        BY <1>0, <3>1
      <4>2. sent' = [base |-> base, passed |-> {}, full |-> FALSE, out |-> out]
        BY <1>1, <2>2 DEF ServeAttach
      <4> HIDE DEF out
      <4> QED
        BY <1>0, <4>1, <4>2 DEF SentType
    <3> QED
      BY <1>1, <2>2, <3>3, <3>4 DEF ServeAttach, TInv, TypeOK, Retains
  <2> QED
    BY <2>1, <2>2
<1>2. CASE ReplayOne
  <2> DEFINE f == Head(sse.todo)
             rest == [sse EXCEPT !.todo = Tail(@),
                                 !.last = IF Replayable(f.kind) THEN f.seq ELSE @]
  <2>1. sse.todo \in Seq(Frame) /\ sse.todo # <<>>
    BY <1>0, <1>2 DEF ReplayOne, StreamType
  <2>2. f \in Frame /\ Tail(sse.todo) \in Seq(Frame)
    BY <2>1, Taken
  <2>3. f.kind \in Kinds /\ f.seq \in Nat
    BY <2>2 DEF Frame
  <2>4. rest \in StreamType /\ Len(rest.queue) <= QueueMax
    BY <1>0, <2>2, <2>3 DEF StreamType
  <2>5. Passed(f) \in SentType
    BY <2>2, PassedType
  <2>6. /\ Noted(Painted(page, f.kind), f) \in PageType
        /\ Noted(PaintedHistory(page, f.kind), f) \in PageType
        /\ Lowered(Painted(page, f.kind)) \subseteq PageType
    BY <1>0, <2>2, <2>3, PaintedType, NotedType, LoweredType
  <2> HIDE DEF f, rest
  <2>7. \/ sse' = rest /\ UNCHANGED <<sent, page>>
        \/ /\ sse' = rest /\ sent' = Passed(f)
           /\ page' \in {Noted(Painted(page, f.kind), f),
                         Noted(PaintedHistory(page, f.kind), f)}
        \/ /\ sse' = NoStream /\ sent' = NothingSent
           /\ page' \in Lowered(Painted(page, f.kind))
    BY <1>2 DEF ReplayOne, f, rest
  <2>8. StreamOK' /\ page' \in PageType
    BY <1>0, <2>4, <2>5, <2>6, <2>7, OffType DEF StreamOK
  <2> QED
    BY <1>2, <2>8 DEF ReplayOne, TInv, TypeOK, Retains, StreamOK
<1>3. CASE EndReplay
  <2>1. CASE sse.live \/ parked
    <3>1. sse' \in StreamType /\ Len(sse'.queue) <= QueueMax
      BY <1>0, <1>3, <2>1 DEF EndReplay, StreamType
    <3> QED
      BY <1>3, <2>1, <3>1 DEF EndReplay, TInv, TypeOK, Retains
  <2>2. CASE ~(sse.live \/ parked)
    <3>1. StreamOK' /\ page' \in PageType
      BY <1>0, <1>3, <2>2, TruncatedType DEF EndReplay
    <3> QED
      BY <1>3, <3>1 DEF EndReplay, TInv, TypeOK, Retains, StreamOK
  <2> QED
    BY <2>1, <2>2
<1>4. CASE TakeQueued
  <2> DEFINE f == Head(sse.queue)
  <2>1. sse.queue \in Seq(Frame) /\ sse.queue # <<>>
    BY <1>0, <1>4 DEF TakeQueued, StreamType
  <2>2. /\ f \in Frame /\ Tail(sse.queue) \in Seq(Frame)
        /\ Len(Tail(sse.queue)) <= QueueMax
    BY <1>0, <2>1, Taken, DeliveryAssumption
  <2>3. f.kind \in Kinds /\ f.seq \in Nat
    BY <2>2 DEF Frame
  <2>4. [page EXCEPT !.seen = f.seq] \in PageType /\ page.gate \in BOOLEAN
    BY <1>0, <2>3 DEF PageType
  <2> DEFINE p == [page EXCEPT !.seen = f.seq]
  <2>5. MayAttach(page, page.gate) => MayAttach(p, page.gate)
    BY <1>0 DEF MayAttach, PageType
  <2>6. StreamOK' /\ page' \in PageType /\ said' \subseteq Statuses
    <3>1. CASE f.seq <= sse.last
      <4>1. sse' = [sse EXCEPT !.queue = Tail(@)] /\ UNCHANGED <<sent, page, said>>
        BY <1>4, <3>1 DEF TakeQueued
      <4> QED
        BY <1>0, <2>2, <4>1 DEF StreamOK, StreamType
    <3>2. CASE /\ sse' = [sse EXCEPT !.queue = Tail(@), !.last = f.seq]
               /\ sent' = Passed(f)
               /\ page' = Noted(Painted(page, f.kind), f)
               /\ UNCHANGED said
      <4>1. sse' \in StreamType /\ Len(sse'.queue) <= QueueMax
        BY <1>0, <2>2, <2>3, <3>2 DEF StreamType
      <4>2. page' \in PageType
        BY <1>0, <2>2, <2>3, <3>2, PaintedType, NotedType
      <4>3. sent' \in SentType
        BY <2>2, <3>2, PassedType
      <4> QED
        BY <1>0, <3>2, <4>1, <4>2, <4>3 DEF StreamOK
    <3>3. CASE /\ sse' = NoStream /\ sent' = NothingSent
               /\ page' = Painted(page, "end")
               /\ UNCHANGED said
      BY <1>0, <3>3, OffType, PaintedType DEF Kinds
    <3>4. CASE MayAttach(page, page.gate) /\ AttachJournal(p, page.gate)
      <4> HIDE DEF p
      <4> QED
        BY <2>4, <2>5, <3>4, AttachJournalType DEF p
    <3>5. CASE Truncated(p) /\ UNCHANGED said
      BY <1>0, <2>4, <3>5, TruncatedType
    <3> QED
      BY <1>4, <3>1, <3>2, <3>3, <3>4, <3>5 DEF TakeQueued
  <2> QED
    BY <1>4, <2>6 DEF TakeQueued, TInv, TypeOK, Retains, StreamOK
<1>5. CASE IdleTick
  <2>1. StreamOK' /\ page' \in PageType
    BY <1>0, <1>5, TruncatedType DEF IdleTick
  <2> QED
    BY <1>5, <2>1 DEF IdleTick, TInv, TypeOK, Retains, StreamOK
<1>6. CASE LoseStream
  <2>1. StreamOK' /\ page' \in PageType
    BY <1>0, <1>6, TruncatedType DEF LoseStream
  <2> QED
    BY <1>6, <2>1, SpendType DEF LoseStream, TInv, TypeOK, Retains, StreamOK
<1>7. CASE HearGap
  <2>1. sse.last \in Nat /\ sent.base \in Nat
    BY <1>0 DEF StreamType, SentType
  <2>2. page' \in PageType
    BY <1>0, <1>7, <2>1, AdoptedType, LoweredType DEF HearGap
  <2>3. StreamOK'
    BY <1>7, OffType DEF HearGap
  <2>4. socket' \in SocketType
    BY <1>0, <1>7 DEF HearGap, SocketType
  <2> QED
    BY <1>7, <2>1, <2>2, <2>3, <2>4 DEF HearGap, TInv, TypeOK, Retains, StreamOK
<1> QED
  BY <1>1, <1>2, <1>3, <1>4, <1>5, <1>6, <1>7 DEF StreamStep

\* Steps of the socket.
LEMMA SocketStepType ==
  ASSUME TInv, SocketStep
  PROVE  TInv'
<1>0. /\ socket \in SocketType /\ wire \in Seq(Message) /\ missed \subseteq Nat
      /\ page \in PageType /\ head \in Nat /\ base \in Nat /\ told \in Nat \cup {None}
  BY DEF TInv, TypeOK
<1> USE DEF server, stream
<1>1. CASE Connect
  <2>1. page.saved \in Nat /\ page' \in PageType
    BY <1>0, <1>1 DEF Connect, PageType
  <2>2. socket' \in SocketType
    BY <1>0, <1>1, <2>1, NothingTypes DEF Connect, SocketType, NoSocket
  <2> QED
    BY <1>1, <2>1, <2>2, SpendType DEF Connect, TInv, TypeOK, Retains
<1>2. CASE Welcome
  <2>1. socket' \in SocketType
    BY <1>0, <1>2 DEF Welcome, SocketType
  <2>2. [word |-> "answer", seq |-> 0, kind |-> "end", of |-> base] \in Message
    BY <1>0 DEF Message, Kinds
  <2>3. wire' \in Seq(Message)
    BY <1>2, <2>2 DEF Welcome
  <2> QED
    BY <1>2, <2>1, <2>3 DEF Welcome, TInv, TypeOK, Retains
<1>3. CASE ReadReplay
  <2>1. socket.from \in Nat
    BY <1>0 DEF SocketType
  <2>2. Replay(socket.from) \in Seq(Frame)
    BY <2>1, ReplayIs DEF TInv
  <2>3. Gap(socket.from) \in BOOLEAN
    <3>1. CASE journal = <<>>
      <4>1. Gap(socket.from) = (socket.from > 0)
        BY <3>1 DEF Gap
      <4> QED
        BY <4>1
    <3>2. CASE journal # <<>>
      <4>1. Gap(socket.from) = (socket.from > head \/ socket.from < head - Len(journal))
        BY <3>2 DEF Gap
      <4> QED
        BY <4>1
    <3> QED
      BY <3>1, <3>2
  <2>4. socket' \in SocketType
    BY <1>0, <1>3, <2>2, <2>3 DEF ReadReplay, SocketType
  <2> QED
    BY <1>3, <2>4 DEF ReadReplay, TInv, TypeOK, Retains
<1>4. CASE ReadHead
  <2>1. socket' \in SocketType
    BY <1>0, <1>4 DEF ReadHead, SocketType
  <2> DEFINE m == [word |-> IF socket.gap THEN "gap" ELSE "resumed", seq |-> head,
                   kind |-> "note", of |-> base]
  <2>2. m \in Message
    BY <1>0 DEF Message, Kinds
  <2>3. wire' = <<m>>
    BY <1>4 DEF ReadHead
  <2> HIDE DEF m
  <2>4. wire' \in Seq(Message)
    BY <2>2, <2>3
  <2> QED
    BY <1>4, <2>1, <2>4 DEF ReadHead, TInv, TypeOK, Retains
<1>5. CASE SendReplayed
  <2> DEFINE f == Head(socket.frames)
             m == [word |-> "replayed", seq |-> f.seq, kind |-> f.kind, of |-> socket.base]
  <2>1. /\ socket.frames \in Seq(Frame) /\ socket.frames # <<>> /\ socket.base \in Nat
    BY <1>0, <1>5 DEF SendReplayed, SocketType
  <2>2. f \in Frame /\ Tail(socket.frames) \in Seq(Frame)
    BY <2>1, Taken
  <2>3. socket' \in SocketType
    BY <1>0, <1>5, <2>2 DEF SendReplayed, SocketType
  <2>4. m \in Message
    BY <2>1, <2>2 DEF Message, Frame
  <2>5. wire' \in {wire, Append(wire, m)}
    BY <1>5 DEF SendReplayed
  <2> HIDE DEF m
  <2>6. wire' \in Seq(Message)
    BY <1>0, <2>4, <2>5
  <2> QED
    BY <1>5, <2>3, <2>6 DEF SendReplayed, TInv, TypeOK, Retains
<1>6. CASE Register
  <2>1. socket' \in SocketType
    BY <1>0, <1>6 DEF Register, SocketType
  <2> QED
    BY <1>6, <2>1 DEF Register, TInv, TypeOK, Retains
<1>7. CASE Hear
  <2> DEFINE m == Head(wire)
  <2>1. m \in Message /\ wire' \in Seq(Message)
    BY <1>0, <1>7, Taken DEF Hear
  <2>2. m.seq \in Nat /\ m.kind \in Kinds /\ m.of \in Nat
    BY <2>1 DEF Message
  <2> HIDE DEF m
  <2>3. /\ Resumed(page, m.seq) \in PageType
        /\ [AdoptHead(page, m.seq) EXCEPT !.seen = page.seen] \in PageType
        /\ Painted(page, m.kind) \in PageType
        /\ Painted(Tracked(page, m.seq), m.kind) \in PageType
        /\ PaintedHistory(Tracked(page, m.seq), m.kind) \in PageType
    BY <1>0, <2>2, ResumedType, AdoptedType, PaintedType, TrackedType
  <2>4. page' \in PageType
    BY <1>7, <2>3 DEF Hear, m
  <2>5. missed' \in {missed, {}}
    BY <1>7 DEF Hear
  <2>6. socket' \in {socket,
                     [socket EXCEPT !.heard = IF m.word = "live" THEN m.seq ELSE @]}
    BY <1>7 DEF Hear, m
  <2>7. socket' \in SocketType
    BY <1>0, <2>2, <2>6 DEF SocketType
  <2>8. told' \in Nat \cup {None}
    BY <1>0, <1>7 DEF Hear
  <2> QED
    BY <1>0, <1>7, <2>1, <2>4, <2>5, <2>7, <2>8 DEF Hear, TInv, TypeOK, Retains
<1>8. CASE CutSocket
  <2>1. socket' \in SocketType
    BY <1>0, <1>8 DEF CutSocket, SocketType
  <2> QED
    BY <1>8, <2>1, SpendType DEF CutSocket, TInv, TypeOK, Retains
<1>9. CASE LoseSocket
  <2>1. faults' \in Nat
    BY <1>9, SpendType DEF LoseSocket, TInv, TypeOK
  <2> QED
    BY <1>9, <2>1, NothingTypes DEF LoseSocket, CloseSocket, TInv, TypeOK, Retains
<1> QED
  BY <1>1, <1>2, <1>3, <1>4, <1>5, <1>6, <1>7, <1>8, <1>9 DEF SocketStep

\* Resyncs.
LEMMA ResyncStepType ==
  ASSUME TInv, ResyncStep
  PROVE  TInv'
<1> USE DEF server, stream, channel
<1>1. PICK status \in said \cup {"idle"}, closed \in BOOLEAN : Resynced(status, closed)
  BY DEF ResyncStep
<1> DEFINE waiting == [Hydrated(status) EXCEPT !.awaiting = TRUE]
<1>2. page \in PageType /\ said \subseteq Statuses
  BY DEF TInv, TypeOK
<1>3. Hydrated(status) \in PageType
  BY <1>2, HydratedType
<1>4. waiting \in PageType /\ waiting.gate \in BOOLEAN
  BY <1>3 DEF PageType
<1>5. Lowered(Hydrated(status)) \subseteq PageType
  BY <1>3, LoweredType
<1> HIDE DEF waiting
<1>6. \/ MayAttach(waiting, waiting.gate) /\ AttachJournal(waiting, waiting.gate)
      \/ page' \in {waiting} \cup Lowered(Hydrated(status)) /\ UNCHANGED <<sse, sent, said>>
  BY <1>1 DEF Resynced, waiting
<1>7. StreamOK' /\ page' \in PageType /\ said' \subseteq Statuses
  <2>1. CASE MayAttach(waiting, waiting.gate) /\ AttachJournal(waiting, waiting.gate)
    BY <1>4, <2>1, AttachJournalType
  <2>2. CASE /\ page' \in {waiting} \cup Lowered(Hydrated(status))
             /\ UNCHANGED <<sse, sent, said>>
    BY <1>2, <1>4, <1>5, <2>2 DEF StreamOK, TInv, TypeOK
  <2> QED
    BY <1>6, <2>1, <2>2
<1> QED
  BY <1>1, <1>7 DEF Resynced, TInv, TypeOK, Retains, StreamOK

LEMMA TypeStep == TInv /\ [Next]_vars => TInv'
<1> SUFFICES ASSUME TInv, [Next]_vars PROVE TInv'
  OBVIOUS
<1> USE DEF stream, channel
<1>1. CASE DropThread
  <2>1. JournalOK'
    BY <1>1, ForgetType DEF DropThread
  <2> QED
    BY <1>1, <2>1, SpendType DEF DropThread, TInv, TypeOK, JournalOK
<1>2. CASE Restart
  <2>1. JournalOK'
    BY <1>2, ForgetType DEF Restart
  <2>2. StreamOK' /\ page' \in PageType
    <3>1. page \in PageType
      BY DEF TInv, TypeOK
    <3>2. CASE sse.phase = "off"
      BY <1>2, <3>1, <3>2 DEF Restart, StreamOK, TInv, TypeOK
    <3>3. CASE sse.phase # "off"
      BY <1>2, <3>1, <3>3, TruncatedType DEF Restart
    <3> QED
      BY <3>2, <3>3
  <2>3. ChannelOK'
    <3>1. CASE CloseSocket
      BY <3>1, NothingTypes DEF CloseSocket, ChannelOK
    <3>2. CASE socket' = [socket EXCEPT !.phase = "cut"] /\ UNCHANGED <<wire, missed>>
      BY <3>2 DEF ChannelOK, TInv, TypeOK, SocketType
    <3> QED
      BY <1>2, <3>1, <3>2 DEF Restart
  <2>4. turn' \in {"idle", "running", "paused", "over"} /\ said' \subseteq Statuses
    <3>1. (IF turn = "running" THEN "over" ELSE turn) \in {"idle", "running", "paused", "over"}
      BY DEF TInv, TypeOK
    <3> QED
      BY <1>2, <3>1, BecomesType DEF Restart
  <2> QED
    BY <1>2, <2>1, <2>2, <2>3, <2>4, SpendType
       DEF Restart, TInv, TypeOK, JournalOK, StreamOK, ChannelOK
<1>3. CASE UNCHANGED vars
  BY <1>3 DEF vars, TInv, TypeOK, Retains
<1> QED
  BY <1>1, <1>2, <1>3, TurnType, StreamStepType, SocketStepType, ResyncStepType DEF Next

\* Every variable keeps its type: the journal and the queue keep within their limits,
\* a frame that is retained was numbered, and no stream is re-opened more than
\* _REOPEN_MAX times in a row.
THEOREM TypeCorrect == Spec => []TypeOK
<1>1. TInv => TypeOK
  BY DEF TInv
<1> QED
  BY <1>1, TypeInit, TypeStep, PTL DEF Spec

----------------------------------------------------------------------------
(* The cursors.  No cursor the page keeps is past the head of a journal it *)
(* was told of, and what may still move one is not either: the messages on *)
(* their way, the frames of a handshake, the word of a gap, and the frames *)
(* of a stream that is of this journal.                                    *)

Within(p) ==
  /\ p.seen <= head /\ p.saved <= head
  /\ p.tracker # None => p.tracker <= head

Bounded(frames) == \A i \in 1 .. Len(frames) : frames[i].seq <= head

Coherent(m) == m.of <= base /\ (m.of = base => m.seq <= head)

ChannelWithin ==
  /\ \A i \in 1 .. Len(wire) : Coherent(wire[i])
  /\ socket.base <= base
  /\ socket.base = base => Bounded(socket.frames)

CursorsWithin ==
  /\ told # None => told <= base
  /\ sent.base <= base
  /\ ~Open => sse.queue = <<>>
  /\ Open /\ sent.base = base => Bounded(sse.todo) /\ Bounded(sse.queue)
  /\ sse.phase = "refused" /\ sent.base = base => sse.last <= head
  /\ told = base => Within(page) /\ (Open => sent.base = base)

RInv == CursorsWithin /\ ChannelWithin

SameCursors(q, p) == q.seen = p.seen /\ q.saved = p.saved /\ q.tracker = p.tracker

LEMMA SameCursorsOf ==
  ASSUME NEW p \in PageType, NEW kind \in Kinds
  PROVE  /\ SameCursors(Painted(p, kind), p)
         /\ SameCursors(PaintedHistory(p, kind), p)
         /\ \A q \in Lowered(p) : SameCursors(q, p)
         /\ \A waived \in BOOLEAN : SameCursors(Attached(p, waived), p)
<1> USE DEF SameCursors
<1>1. SameCursors([p EXCEPT !.gate = TRUE], p) /\ SameCursors([p EXCEPT !.gate = FALSE], p)
  BY DEF PageType
<1>2. SameCursors([p EXCEPT !.awaiting = FALSE], p)
  BY DEF PageType
<1>3. SameCursors(Painted(p, kind), p)
  BY <1>1, <1>2 DEF Painted
<1>4. SameCursors(PaintedHistory(p, kind), p)
  BY <1>3 DEF PaintedHistory
<1>5. \A q \in Lowered(p) : SameCursors(q, p)
  BY DEF Lowered, PageType
<1>6. \A waived \in BOOLEAN : SameCursors(Attached(p, waived), p)
  BY DEF Attached, PageType
<1> QED
  BY <1>3, <1>4, <1>5, <1>6

LEMMA SameHydrated ==
  ASSUME page \in PageType, NEW status
  PROVE  SameCursors(Hydrated(status), page)
BY DEF Hydrated, SameCursors, PageType

\* The page holds no stream that is served or refused, or asks for another one.
Off == /\ sse'.phase \notin {"replay", "tail", "refused"} /\ sse'.queue = <<>>
       /\ sent' = NothingSent

\* A step that leaves the journal, the channel and what the page reads alone, and
\* shows no new frame on the stream.
LEMMA RKept ==
  ASSUME TInv, RInv, UNCHANGED <<head, base, told>>, ChannelWithin',
         SameCursors(page', page),
         \/ UNCHANGED <<sse, sent>>
         \/ Off
  PROVE  RInv'
<1>1. NothingSent.base = 0 /\ base \in Nat
  BY DEF NothingSent, TInv, TypeOK
<1> QED
  BY <1>1 DEF RInv, CursorsWithin, SameCursors, Within, Bounded, Open, Off

\* A step of neither the journal nor the channel.
LEMMA RChannel ==
  ASSUME ChannelWithin, UNCHANGED <<head, base, socket, wire>>
  PROVE  ChannelWithin'
BY DEF ChannelWithin, Coherent, Bounded

LEMMA RInit == Init => RInv
<1> SUFFICES ASSUME Init PROVE RInv
  OBVIOUS
<1>1. /\ base = 0 /\ told = None /\ sse = NoStream /\ sent = NothingSent
      /\ socket = NoSocket /\ wire = <<>>
  BY DEF Init
<1>2. None \notin Nat
  BY DeliveryAssumption
<1>3. CursorsWithin
  BY <1>1, <1>2 DEF CursorsWithin, NoStream, NothingSent, Open
<1>4. ChannelWithin
  BY <1>1 DEF ChannelWithin, NoSocket, Bounded
<1> QED
  BY <1>3, <1>4 DEF RInv

\* Frames within the head stay so when another one is journaled.
LEMMA BoundedGrows ==
  ASSUME head \in Nat, head' = head + 1, NEW frames \in Seq(Frame), Bounded(frames)
  PROVE  \A i \in 1 .. Len(frames) : frames[i].seq <= head + 1
<1> SUFFICES ASSUME NEW i \in 1 .. Len(frames)
             PROVE  frames[i].seq <= head + 1
  OBVIOUS
<1>1. frames[i] \in Frame
  OBVIOUS
<1> QED
  BY <1>1 DEF Bounded, Frame

\* A frame that is journaled and sent, if the socket is registered.
LEMMA RSent ==
  ASSUME TInv, ChannelWithin, NEW kind \in Kinds, Append1(kind), Sent(kind)
  PROVE  ChannelWithin'
<1>1. /\ head \in Nat /\ base \in Nat /\ head' = head + 1 /\ base' = base
      /\ wire \in Seq(Message) /\ socket \in SocketType /\ socket' = socket
  BY DEF TInv, TypeOK, Append1, Sent
<1>2. socket.base' = base' => Bounded(socket.frames)'
  <2>1. socket.frames \in Seq(Frame)
    BY <1>1 DEF SocketType
  <2> QED
    BY <1>1, <2>1, BoundedGrows DEF ChannelWithin, Bounded
<1>3. ASSUME NEW i \in 1 .. Len(wire)
      PROVE  wire[i].of <= base /\ (wire[i].of = base => wire[i].seq <= head + 1)
  <2>1. wire[i] \in Message
    BY <1>1
  <2> QED
    BY <1>1, <2>1 DEF ChannelWithin, Coherent, Message
<1> DEFINE m == [word |-> "live", seq |-> head + 1, kind |-> kind, of |-> base]
<1>4. m.of = base /\ m.seq = head + 1 /\ m \in Message
  BY <1>1 DEF Message
<1>5. wire' \in {wire, Append(wire, m)}
  BY DEF Sent
<1> HIDE DEF m
<1>6. ASSUME NEW i \in 1 .. Len(wire')
      PROVE  wire'[i].of <= base /\ (wire'[i].of = base => wire'[i].seq <= head + 1)
  <2>1. CASE wire' = wire
    BY <1>3, <2>1
  <2>2. CASE wire' = Append(wire, m)
    <3>1. /\ Len(wire') = Len(wire) + 1 /\ wire'[Len(wire) + 1] = m
          /\ \A j \in 1 .. Len(wire) : wire'[j] = wire[j]
      BY <1>1, <1>4, <2>2, Appended
    <3> QED
      BY <1>1, <1>3, <1>4, <3>1
  <2> QED
    BY <1>5, <2>1, <2>2
<1> QED
  BY <1>1, <1>2, <1>6 DEF ChannelWithin, Coherent

LEMMA REmit ==
  ASSUME TInv, RInv, NEW kind \in Kinds, Emit(kind), UNCHANGED <<page, told>>
  PROVE  RInv'
<1>1. /\ head \in Nat /\ base \in Nat /\ head' = head + 1 /\ base' = base
      /\ sse \in StreamType /\ sent \in SentType /\ page \in PageType
  BY DEF TInv, TypeOK, Emit, Append1
<1>2. told = base => Within(page)'
  BY <1>1 DEF RInv, CursorsWithin, Within, PageType
<1>3. /\ sse'.phase = sse.phase /\ sse'.todo = sse.todo /\ sent'.base = sent.base
      /\ sse'.last = sse.last
      /\ sse'.queue \in {sse.queue, Append(sse.queue, [seq |-> head + 1, kind |-> kind])}
  BY <1>1 DEF Emit, Queued, StreamType, SentType
<1>4. sse.todo \in Seq(Frame) /\ sse.queue \in Seq(Frame) /\ sse.last \in Nat
  BY <1>1 DEF StreamType
<1>5. ~Open' => sse'.queue = <<>>
  BY <1>1, <1>3 DEF RInv, CursorsWithin, Emit, Queued, Open, StreamType
<1>6. Open' /\ (sent.base = base)' => Bounded(sse.todo)' /\ Bounded(sse.queue)'
  <2> SUFFICES ASSUME Open', (sent.base = base)'
               PROVE  Bounded(sse.todo)' /\ Bounded(sse.queue)'
    OBVIOUS
  <2>1. Bounded(sse.todo) /\ Bounded(sse.queue)
    BY <1>1, <1>3 DEF RInv, CursorsWithin, Open
  <2>2. Bounded(sse.todo)' /\ \A i \in 1 .. Len(sse.queue) : sse.queue[i].seq <= head + 1
    BY <1>1, <1>3, <1>4, <2>1, BoundedGrows DEF Bounded
  <2> DEFINE f == [seq |-> head + 1, kind |-> kind]
             longer == Append(sse.queue, f)
  <2>3. f \in Frame /\ f.seq = head + 1
    BY <1>1 DEF Frame
  <2> HIDE DEF f
  <2>4. \A i \in 1 .. Len(longer) : longer[i].seq <= head + 1
    <3>1. /\ Len(longer) = Len(sse.queue) + 1 /\ longer[Len(sse.queue) + 1] = f
          /\ \A i \in 1 .. Len(sse.queue) : longer[i] = sse.queue[i]
      BY <1>4, <2>3, Appended
    <3> QED
      BY <1>1, <1>4, <2>2, <2>3, <3>1
  <2>5. sse'.queue \in {sse.queue, longer}
    BY <1>3 DEF f
  <2> HIDE DEF longer
  <2> QED
    BY <1>1, <2>2, <2>4, <2>5 DEF Bounded
<1>7. (told # None => told <= base)' /\ (sent.base <= base)'
  BY <1>1, <1>3 DEF RInv, CursorsWithin
<1>8. told' = base' => Within(page)' /\ (Open' => (sent.base = base)')
  BY <1>1, <1>2, <1>3 DEF RInv, CursorsWithin, Open
<1>9. sse'.phase = "refused" /\ sent'.base = base' => sse'.last <= head'
  BY <1>1, <1>3, <1>4 DEF RInv, CursorsWithin
<1>10. ChannelWithin'
  BY RSent DEF RInv, Emit
<1> QED
  BY <1>5, <1>6, <1>7, <1>8, <1>9, <1>10 DEF RInv, CursorsWithin

LEMMA RTurn ==
  ASSUME TInv, RInv, TurnStep
  PROVE  RInv'
<1>0. page \in PageType /\ head \in Nat
  BY DEF TInv, TypeOK
<1> USE DEF server, channel, stream
<1>c. UNCHANGED <<head, base, channel>> => ChannelWithin'
  BY RChannel DEF RInv
<1>1. CASE Send
  <2>1. SameCursors(page', page) /\ Off
    BY <1>0, <1>1 DEF Send, SameCursors, PageType, NoStream, Off
  <2> QED
    BY <1>c, <1>1, <2>1, RKept DEF Send
<1>2. CASE StartTurn
  <2>1. /\ sse'.phase = "asked" /\ sse'.queue = <<>> /\ sent' = sent
        /\ base' = base /\ head' = head + 1 /\ UNCHANGED <<page, told>>
    BY <1>2 DEF StartTurn, Append1, TInv, TypeOK, StreamType, RInv, CursorsWithin, Open
  <2>2. told = base => Within(page)'
    BY <1>0, <2>1 DEF RInv, CursorsWithin, Within, PageType
  <2>3. ChannelWithin'
    BY <1>2, RSent DEF StartTurn, RInv, Kinds
  <2> QED
    BY <2>1, <2>2, <2>3 DEF RInv, CursorsWithin, Open
<1>3. CASE Pause
  BY <1>3, REmit DEF Pause, Kinds
<1>4. CASE Click
  <2>1. SameCursors(page', page)
    BY <1>0, <1>4 DEF Click, SameCursors, PageType
  <2> QED
    BY <1>c, <1>4, <2>1, RKept DEF Click
<1>5. CASE Approve
  BY <1>5, REmit DEF Approve, Kinds
<1>6. CASE Approved
  <2> DEFINE p == [page EXCEPT !.awaiting = TRUE, !.clicked = FALSE]
  <2>1. p \in PageType /\ SameCursors(p, page)
    BY <1>0, Bounds DEF PageType, SameCursors
  <2>2. SameCursors(Attached(p, TRUE), p)
    BY <2>1, SameCursorsOf DEF Kinds
  <2>3. SameCursors(page', page)
    BY <1>6, <2>1, <2>2 DEF Approved, SameCursors
  <2>4. Off
    BY <1>6 DEF Approved, AttachStream, NoStream, Off
  <2> QED
    BY <1>c, <1>6, <2>3, <2>4, RKept DEF Approved
<1>7. ASSUME NEW kind \in {"token", "note"}, Work(kind)
      PROVE  RInv'
  BY <1>7, REmit DEF Work, Kinds
<1>8. ASSUME NEW kind \in {"end", "error"}, Finish(kind)
      PROVE  RInv'
  BY <1>8, REmit DEF Finish, Kinds
<1> QED
  BY <1>1, <1>2, <1>3, <1>4, <1>5, <1>6, <1>7, <1>8 DEF TurnStep

\* A page whose cursors are adopted is within the head.
LEMMA AdoptedWithin ==
  ASSUME NEW p \in PageType, head \in Nat, NEW n \in Nat, n <= head
  PROVE  Within(AdoptHead(p, n))
BY DEF AdoptHead, Within, PageType

\* A stream that closes, or is asked for anew, after the page read one frame of it.
LEMMA RClosed ==
  ASSUME TInv, RInv, NEW p \in PageType,
         told = base => Within(p),
         SameCursors(page', p), UNCHANGED <<head, base, told, channel>>,
         Off
  PROVE  RInv'
<1>1. NothingSent.base = 0 /\ base \in Nat
  BY DEF NothingSent, TInv, TypeOK
<1>2. ChannelWithin'
  BY RChannel DEF RInv, channel
<1> QED
  BY <1>1, <1>2 DEF RInv, CursorsWithin, SameCursors, Within, Bounded, Open, Off

\* A stream that goes on, with no more in todo and queue than before.
LEMMA RGoesOn ==
  ASSUME TInv, RInv, NEW p \in PageType,
         told = base => Within(p),
         SameCursors(page', p), UNCHANGED <<head, base, told, channel>>,
         Open, Open', sent'.base = sent.base,
         Bounded(sse.todo) => Bounded(sse'.todo),
         Bounded(sse.queue) => Bounded(sse'.queue)
  PROVE  RInv'
<1>1. ChannelWithin'
  BY RChannel DEF RInv, channel
<1> QED
  BY <1>1 DEF RInv, CursorsWithin, SameCursors, Within, Bounded, Open

LEMMA SameNoted ==
  ASSUME NEW p \in PageType, NEW f \in Frame, Within(p), f.seq <= head
  PROVE  Within(Noted(p, f))
BY DEF Noted, Within, PageType

LEMMA TruncatedCursors ==
  ASSUME TInv, NEW p \in PageType, Truncated(p)
  PROVE  SameCursors(page', p) /\ Off
BY SameCursorsOf DEF Truncated, NoStream, Kinds, Off

\* What remains of a bounded sequence of frames, and its head, are bounded.
LEMMA BoundedTail ==
  ASSUME NEW s \in Seq(Frame), s # <<>>, Bounded(s)
  PROVE  Bounded(Tail(s)) /\ Head(s).seq <= head
<1>1. /\ Len(Tail(s)) = Len(s) - 1 /\ Head(s) = s[1] /\ Len(s) >= 1 /\ Len(s) \in Nat
      /\ \A i \in 1 .. Len(s) - 1 : Tail(s)[i] = s[i + 1]
  BY Taken
<1>2. ASSUME NEW i \in 1 .. Len(Tail(s))
      PROVE  Tail(s)[i].seq <= head
  <2>1. i \in 1 .. Len(s) - 1 /\ i + 1 \in 1 .. Len(s)
    BY <1>1
  <2> QED
    BY <1>1, <2>1 DEF Bounded
<1> QED
  BY <1>1, <1>2 DEF Bounded

LEMMA ReplayBounded ==
  ASSUME TInv, NEW cursor \in Nat
  PROVE  Bounded(Replay(cursor))
<1>1. \A i \in 1 .. Len(Replay(cursor)) : Replay(cursor)[i].seq = cursor + i
  <2> SUFFICES ASSUME NEW i \in 1 .. Len(Replay(cursor))
               PROVE  Replay(cursor)[i].seq = cursor + i
    OBVIOUS
  <2> DEFINE f == [seq |-> cursor + i, kind |-> KindAt(cursor + i)]
  <2>1. Replay(cursor)[i] = f
    BY ReplayIs DEF TInv
  <2>2. f.seq = cursor + i
    OBVIOUS
  <2> QED
    BY <2>1, <2>2
<1>2. \A i \in 1 .. Len(Replay(cursor)) : cursor + i <= head
  BY ReplayIs DEF TInv
<1>3. ASSUME NEW i \in 1 .. Len(Replay(cursor))
      PROVE  Replay(cursor)[i].seq <= head
  BY <1>1, <1>2
<1> QED
  BY <1>3 DEF Bounded

LEMMA RStream ==
  ASSUME TInv, RInv, StreamStep
  PROVE  RInv'
<1>0. /\ sse \in StreamType /\ sent \in SentType /\ page \in PageType
      /\ head \in Nat /\ base \in Nat /\ socket \in SocketType
  BY DEF TInv, TypeOK
<1> USE DEF server, channel
<1>c. UNCHANGED <<head, base, channel>> => ChannelWithin'
  BY RChannel DEF RInv
<1>1. CASE ServeAttach
  <2>1. CASE Gap(sse.cursor)
    <3>1. /\ sse'.phase = "refused" /\ sse'.last = head /\ sse'.queue = <<>>
          /\ sent'.base = base
      BY <1>1, <2>1 DEF ServeAttach, NoStream, NothingSent
    <3>2. UNCHANGED <<page, told, head, base, channel>>
      BY <1>1 DEF ServeAttach
    <3> QED
      BY <1>c, <1>0, <3>1, <3>2 DEF RInv, CursorsWithin, Within, Open
  <2>2. CASE ~Gap(sse.cursor)
    <3>1. sse.cursor \in Nat /\ sse.phase = "asked"
      BY <1>0, <1>1 DEF StreamType, ServeAttach
    <3>2. Bounded(Replay(sse.cursor))
      BY <3>1, ReplayBounded
    <3>3. /\ sse'.phase = "replay" /\ sse'.todo = Replay(sse.cursor)
          /\ sse'.queue = sse.queue /\ sent'.base = base
          /\ UNCHANGED <<page, told, head, base, channel>>
      <4>1. /\ sse' = [sse EXCEPT !.phase = "replay", !.todo = Replay(sse.cursor),
                                  !.last = sse.cursor, !.live = turn = "running"]
            /\ sent'.base = base
            /\ UNCHANGED <<page, told, head, base, channel>>
        BY <1>1, <2>2 DEF ServeAttach
      <4> HIDE DEF server, channel
      <4> QED
        BY <1>0, <4>1 DEF StreamType
    <3>4. sse.queue = <<>>
      BY <3>1 DEF RInv, CursorsWithin, Open
    <3>5. Bounded(sse.todo)' /\ Bounded(sse.queue)'
      <4>1. Len(sse'.queue) = 0
        BY <3>3, <3>4
      <4>2. Bounded(sse.queue)'
        BY <4>1 DEF Bounded
      <4>3. Bounded(sse.todo)'
        BY <3>2, <3>3 DEF Bounded
      <4> QED
        BY <4>2, <4>3
    <3>6. ChannelWithin'
      BY <1>c, <3>3
    <3> QED
      <4>1. sent'.base <= base' /\ Open'
        BY <1>0, <3>3 DEF Open
      <4>2. told' # None => told' <= base'
        BY <3>3 DEF RInv, CursorsWithin
      <4>3. told' = base' => Within(page)' /\ (sent.base = base)'
        BY <3>3 DEF RInv, CursorsWithin, Within
      <4> QED
        BY <3>3, <3>5, <3>6, <4>1, <4>2, <4>3 DEF RInv, CursorsWithin, Open
  <2> QED
    BY <2>1, <2>2
<1>2. CASE ReplayOne
  <2> DEFINE f == Head(sse.todo)
             rest == [sse EXCEPT !.todo = Tail(@),
                                 !.last = IF Replayable(f.kind) THEN f.seq ELSE @]
             P == {page, Painted(page, f.kind), PaintedHistory(page, f.kind)}
  <2>1. sse.todo \in Seq(Frame) /\ sse.todo # <<>> /\ Open
    BY <1>0, <1>2 DEF ReplayOne, StreamType, Open
  <2>2. f \in Frame /\ f.kind \in Kinds
    <3>1. f \in Frame
      BY <2>1, Taken
    <3> QED
      BY <3>1 DEF Frame
  <2>3. told = base => Within(page) /\ f.seq <= head
    BY <2>1, BoundedTail DEF RInv, CursorsWithin
  <2>4. \A p \in P : p \in PageType /\ SameCursors(p, page)
    <3>1. /\ Painted(page, f.kind) \in PageType
          /\ PaintedHistory(page, f.kind) \in PageType
      BY <1>0, <2>2, PaintedType
    <3>2. /\ SameCursors(Painted(page, f.kind), page)
          /\ SameCursors(PaintedHistory(page, f.kind), page)
      BY <1>0, <2>2, SameCursorsOf
    <3>3. SameCursors(page, page)
      BY DEF SameCursors
    <3> QED
      BY <1>0, <3>1, <3>2, <3>3
  <2>5. \A p \in P : told = base => Within(p) /\ Within(Noted(p, f))
    <3> SUFFICES ASSUME NEW p \in P, told = base
                 PROVE  Within(p) /\ Within(Noted(p, f))
      OBVIOUS
    <3>1. p \in PageType /\ Within(p)
      BY <2>3, <2>4 DEF Within, SameCursors
    <3> QED
      BY <2>2, <2>3, <3>1, SameNoted
  <2>6. rest.phase = "replay" /\ rest.todo = Tail(sse.todo) /\ rest.queue = sse.queue
    BY <1>0, <1>2 DEF ReplayOne, StreamType
  <2>7. \/ /\ sse' = rest /\ sent'.base = sent.base
           /\ page' \in P \cup {Noted(p, f) : p \in P}
        \/ /\ sse' = NoStream /\ sent' = NothingSent
           /\ page' \in Lowered(Painted(page, f.kind))
    <3>1. Passed(f).base = sent.base
      BY <1>0 DEF Passed, SentType
    <3> HIDE DEF f, rest
    <3> QED
      BY <1>2, <3>1 DEF ReplayOne, f, rest
  <2> HIDE DEF f, rest, P
  <2>8. CASE /\ sse' = rest /\ sent'.base = sent.base
             /\ page' \in P \cup {Noted(p, f) : p \in P}
    <3>1. PICK p \in PageType : (told = base => Within(p)) /\ SameCursors(page', p)
      <4>1. page' \in PageType
        BY <2>2, <2>4, <2>8, NotedType
      <4>2. told = base => Within(page')
        BY <2>5, <2>8
      <4> QED
        BY <4>1, <4>2 DEF SameCursors
    <3>2. Bounded(sse.todo) => Bounded(sse'.todo)
      BY <2>1, <2>6, <2>8, BoundedTail
    <3>3. UNCHANGED <<head, base, told, channel>> /\ Open' /\ sse'.queue = sse.queue
      BY <1>2, <2>6, <2>8 DEF ReplayOne, Open
    <3> QED
      BY <2>1, <2>8, <3>1, <3>2, <3>3, RGoesOn
  <2>9. CASE /\ sse' = NoStream /\ sent' = NothingSent
             /\ page' \in Lowered(Painted(page, f.kind))
    <3> DEFINE p == Painted(page, f.kind)
    <3>1. p \in PageType /\ (told = base => Within(p))
      BY <2>4, <2>5 DEF P
    <3> HIDE DEF p
    <3>2. SameCursors(page', p)
      BY <2>9, <3>1, SameCursorsOf DEF p, Kinds
    <3>3. UNCHANGED <<head, base, told, channel>> /\ Off
      BY <1>2, <2>9 DEF ReplayOne, Off, NoStream
    <3> QED
      BY <3>1, <3>2, <3>3, RClosed
  <2> QED
    BY <2>7, <2>8, <2>9
<1>3. CASE EndReplay
  <2>1. CASE sse.live \/ parked
    <3>1. /\ Open /\ Open' /\ sse'.todo = sse.todo /\ sse'.queue = sse.queue
          /\ UNCHANGED <<sent, page, head, base, told, channel>>
      BY <1>0, <1>3, <2>1 DEF EndReplay, Open, StreamType
    <3> QED
      BY <1>0, <3>1, RGoesOn DEF RInv, CursorsWithin, SameCursors
  <2>2. CASE ~(sse.live \/ parked)
    <3>1. SameCursors(page', page) /\ Off
      BY <1>0, <1>3, <2>2, TruncatedCursors DEF EndReplay
    <3> QED
      BY <1>c, <1>3, <3>1, RKept DEF EndReplay
  <2> QED
    BY <2>1, <2>2
<1>4. CASE TakeQueued
  <2> DEFINE f == Head(sse.queue)
             p == [page EXCEPT !.seen = f.seq]
  <2>1. sse.queue \in Seq(Frame) /\ sse.queue # <<>> /\ Open
    BY <1>0, <1>4 DEF TakeQueued, StreamType, Open
  <2>2. f \in Frame /\ f.kind \in Kinds /\ f.seq \in Nat
    <3>1. f \in Frame
      BY <2>1, Taken
    <3> QED
      BY <3>1 DEF Frame
  <2>3. told = base => Within(page) /\ f.seq <= head
    BY <2>1, BoundedTail DEF RInv, CursorsWithin
  <2>4. p \in PageType /\ (told = base => Within(p))
    BY <1>0, <2>2, <2>3 DEF PageType, Within
  <2>5. UNCHANGED <<head, base, told, channel>>
    BY <1>4 DEF TakeQueued
  <2>6. Bounded(sse.queue) => Bounded(Tail(sse.queue))
    BY <2>1, BoundedTail
  <2> HIDE DEF p
  <2>7. CASE sse' = [sse EXCEPT !.queue = Tail(@)] /\ UNCHANGED <<sent, page>>
    <3>1. Open' /\ sse'.todo = sse.todo /\ sse'.queue = Tail(sse.queue)
      BY <1>0, <1>4, <2>7 DEF TakeQueued, Open, StreamType
    <3> QED
      BY <1>0, <2>1, <2>5, <2>6, <2>7, <3>1, RGoesOn DEF RInv, CursorsWithin, SameCursors
  <2>8. CASE /\ sse' = [sse EXCEPT !.queue = Tail(@), !.last = f.seq]
             /\ sent' = Passed(f)
             /\ page' = Noted(Painted(page, f.kind), f)
    <3>1. Open' /\ sse'.todo = sse.todo /\ sse'.queue = Tail(sse.queue)
      BY <1>0, <1>4, <2>8 DEF TakeQueued, Open, StreamType
    <3>2. sent'.base = sent.base
      BY <1>0, <2>8 DEF Passed, SentType
    <3>3. Painted(page, f.kind) \in PageType /\ SameCursors(Painted(page, f.kind), page)
      BY <1>0, <2>2, PaintedType, SameCursorsOf
    <3>4. told = base => Within(Painted(page, f.kind))
      BY <2>3, <3>3 DEF Within, SameCursors
    <3>5. page' \in PageType /\ (told = base => Within(page'))
      BY <2>2, <2>3, <2>8, <3>3, <3>4, NotedType, SameNoted
    <3> QED
      BY <2>1, <2>5, <2>6, <3>1, <3>2, <3>5, RGoesOn DEF SameCursors
  <2>9. CASE /\ sse' = NoStream /\ sent' = NothingSent
             /\ page' = Painted(page, "end")
    <3>1. SameCursors(page', page) /\ Off
      BY <1>0, <2>9, SameCursorsOf DEF Kinds, Off, NoStream
    <3> QED
      BY <1>c, <2>5, <3>1, RKept
  <2>10. CASE AttachJournal(p, page.gate)
    <3>1. page.gate \in BOOLEAN
      BY <1>0 DEF PageType
    <3>2. SameCursors(page', p)
      BY <2>4, <2>10, <3>1, SameCursorsOf DEF AttachJournal, Kinds
    <3>3. Off
      BY <2>10 DEF AttachJournal, AttachStream, NoStream, Off
    <3> QED
      BY <2>4, <2>5, <3>2, <3>3, RClosed
  <2>11. CASE Truncated(p)
    <3>1. SameCursors(page', p) /\ Off
      BY <2>4, <2>11, TruncatedCursors
    <3> QED
      BY <2>4, <2>5, <3>1, RClosed
  <2> QED
    BY <1>4, <2>7, <2>8, <2>9, <2>10, <2>11 DEF TakeQueued, p
<1>5. CASE IdleTick
  <2>1. SameCursors(page', page) /\ Off
    BY <1>0, <1>5, TruncatedCursors DEF IdleTick
  <2> QED
    BY <1>c, <1>5, <2>1, RKept DEF IdleTick
<1>6. CASE LoseStream
  <2>1. SameCursors(page', page) /\ Off
    BY <1>0, <1>6, TruncatedCursors DEF LoseStream
  <2> QED
    BY <1>c, <1>6, <2>1, RKept DEF LoseStream
\* What the stream says of the head, if it is of this journal, is within it.
<1>7. CASE HearGap
  <2> DEFINE p == AdoptHead(page, sse.last)
  <2>1. sse.phase = "refused" /\ sse.last \in Nat /\ sent.base \in Nat
    BY <1>0, <1>7 DEF HearGap, StreamType, SentType
  <2>2. p \in PageType /\ page' \in Lowered(p)
    BY <1>0, <1>7, <2>1, AdoptedType DEF HearGap
  <2>3. sent.base = base => Within(p)
    BY <1>0, <2>1, AdoptedWithin DEF RInv, CursorsWithin
  <2> HIDE DEF p
  <2>4. SameCursors(page', p)
    BY <2>2, SameCursorsOf DEF Kinds
  <2>5. /\ Off /\ told' = sent.base /\ UNCHANGED <<head, base, wire>>
        /\ socket' = [socket EXCEPT !.of = None] /\ NothingSent.base = 0
    BY <1>7 DEF HearGap, NoStream, NothingSent, Off
  <2>6. ChannelWithin'
    <3>1. socket'.base = socket.base /\ socket'.frames = socket.frames
      BY <1>0, <2>5 DEF SocketType
    <3> QED
      BY <2>5, <3>1 DEF RInv, ChannelWithin, Coherent, Bounded
  <2>7. sent.base <= base
    BY DEF RInv, CursorsWithin
  <2> QED
    BY <1>0, <2>3, <2>4, <2>5, <2>6, <2>7
       DEF RInv, CursorsWithin, SameCursors, Within, Open, Off
<1> QED
  BY <1>1, <1>2, <1>3, <1>4, <1>5, <1>6, <1>7 DEF StreamStep

\* A step of the socket that keeps the cursors of the page within the head.
LEMMA RSocketMoves ==
  ASSUME TInv, RInv, UNCHANGED <<head, base, sse, sent>>,
         told' \in {told, None}, told' = base => Within(page'), ChannelWithin'
  PROVE  RInv'
<1>1. told' = base => told = base
  BY DeliveryAssumption DEF TInv, TypeOK
<1> QED
  BY <1>1 DEF RInv, CursorsWithin, Within, Bounded, Open

\* What the page hears of its journal keeps it within the head.
LEMMA HeardWithin ==
  ASSUME NEW p \in PageType, head \in Nat, Within(p), NEW m \in Message, m.seq <= head
  PROVE  /\ Within(Resumed(p, m.seq))
         /\ Within([AdoptHead(p, m.seq) EXCEPT !.seen = p.seen])
         /\ Within(Painted(p, m.kind))
         /\ Within(Painted(Tracked(p, m.seq), m.kind))
         /\ Within(PaintedHistory(Tracked(p, m.seq), m.kind))
<1>1. m.seq \in Nat /\ m.kind \in Kinds
  BY DEF Message
<1>2. Within(Resumed(p, m.seq))
  BY <1>1 DEF Resumed, Within, PageType
<1>3. Within([AdoptHead(p, m.seq) EXCEPT !.seen = p.seen])
  BY <1>1 DEF AdoptHead, Within, PageType
<1>4. Within(Painted(p, m.kind))
  BY <1>1, SameCursorsOf DEF SameCursors, Within
<1> DEFINE q == Tracked(p, m.seq)
<1>5. q \in PageType
  BY <1>1, TrackedType
<1>6. Within(q)
  BY <1>1 DEF Tracked, Within, PageType
<1> HIDE DEF q
<1>7. Within(Painted(q, m.kind)) /\ Within(PaintedHistory(q, m.kind))
  BY <1>1, <1>5, <1>6, SameCursorsOf DEF SameCursors, Within
<1> QED
  BY <1>2, <1>3, <1>4, <1>7 DEF q

LEMMA RSocket ==
  ASSUME TInv, RInv, SocketStep
  PROVE  RInv'
<1>0. /\ socket \in SocketType /\ wire \in Seq(Message) /\ page \in PageType
      /\ head \in Nat /\ base \in Nat /\ told \in Nat \cup {None}
  BY DEF TInv, TypeOK
<1> USE DEF server, stream
<1>1. CASE Connect
  <2>1. told' = base => Within(page')
    BY <1>0, <1>1 DEF Connect, RInv, CursorsWithin, Within, PageType
  <2>2. socket'.base = 0 /\ socket'.frames = <<>>
    BY <1>1 DEF Connect, NoSocket
  <2>3. ChannelWithin'
    BY <1>0, <1>1, <2>2 DEF Connect, RInv, ChannelWithin, Coherent, Bounded
  <2> QED
    BY <1>1, <2>1, <2>3, RSocketMoves DEF Connect
<1>2. CASE Welcome
  <2> DEFINE m == [word |-> "answer", seq |-> 0, kind |-> "end", of |-> base]
  <2>1. socket'.base = socket.base /\ socket'.frames = socket.frames
    BY <1>0, <1>2 DEF Welcome, SocketType
  <2>2. wire' \in {<<>>, <<m>>} /\ m.of = base /\ m.seq = 0
    BY <1>2 DEF Welcome
  <2> HIDE DEF m
  <2>3. \A i \in 1 .. Len(wire') : wire'[i] = m
    BY <2>2
  <2>4. ChannelWithin'
    BY <1>0, <1>2, <2>1, <2>2, <2>3 DEF Welcome, RInv, ChannelWithin, Coherent, Bounded
  <2> QED
    BY <1>2, <2>4, RKept DEF Welcome, SameCursors
<1>3. CASE ReadReplay
  <2>1. Bounded(Replay(socket.from))
    BY <1>0, ReplayBounded DEF SocketType
  <2>2. socket'.base = base /\ socket'.frames = Replay(socket.from)
    BY <1>0, <1>3 DEF ReadReplay, SocketType
  <2>3. ChannelWithin'
    BY <1>0, <1>3, <2>1, <2>2 DEF ReadReplay, RInv, ChannelWithin, Coherent, Bounded
  <2> QED
    BY <1>3, <2>3, RKept DEF ReadReplay, SameCursors
<1>4. CASE ReadHead
  <2> DEFINE m == [word |-> IF socket.gap THEN "gap" ELSE "resumed", seq |-> head,
                   kind |-> "note", of |-> base]
  <2>1. socket'.base = socket.base /\ socket'.frames = socket.frames
    BY <1>0, <1>4 DEF ReadHead, SocketType
  <2>2. wire' = <<m>> /\ m.of = base /\ m.seq = head
    BY <1>4 DEF ReadHead
  <2> HIDE DEF m
  <2>3. \A i \in 1 .. Len(wire') : wire'[i] = m
    BY <2>2
  <2>4. ChannelWithin'
    BY <1>0, <1>4, <2>1, <2>2, <2>3 DEF ReadHead, RInv, ChannelWithin, Coherent, Bounded
  <2> QED
    BY <1>4, <2>4, RKept DEF ReadHead, SameCursors
<1>5. CASE SendReplayed
  <2> DEFINE f == Head(socket.frames)
             m == [word |-> "replayed", seq |-> f.seq, kind |-> f.kind, of |-> socket.base]
  <2>1. socket.frames \in Seq(Frame) /\ socket.frames # <<>> /\ socket.base \in Nat
    BY <1>0, <1>5 DEF SendReplayed, SocketType
  <2>2. f \in Frame
    BY <2>1, Taken
  <2>3. m \in Message /\ m.of = socket.base /\ m.seq = f.seq
    BY <2>1, <2>2 DEF Message, Frame
  <2>4. socket'.base = socket.base /\ socket'.frames = Tail(socket.frames)
    BY <1>0, <1>5 DEF SendReplayed, SocketType
  <2>5. wire' \in {wire, Append(wire, m)} /\ UNCHANGED <<head, base>>
    BY <1>5 DEF SendReplayed
  <2>6. socket.base <= base /\ (socket.base = base => f.seq <= head /\ Bounded(Tail(socket.frames)))
    BY <2>1, BoundedTail DEF RInv, ChannelWithin
  <2> HIDE DEF f, m
  <2>7. ASSUME NEW i \in 1 .. Len(wire')
        PROVE  Coherent(wire'[i])
    <3>1. CASE wire' = wire
      BY <3>1 DEF RInv, ChannelWithin
    <3>2. CASE wire' = Append(wire, m)
      <4>1. /\ Len(wire') = Len(wire) + 1 /\ wire'[Len(wire) + 1] = m
            /\ \A j \in 1 .. Len(wire) : wire'[j] = wire[j]
        BY <1>0, <2>3, <3>2, Appended
      <4>2. Coherent(m)
        BY <2>3, <2>6 DEF Coherent
      <4>3. \A j \in 1 .. Len(wire) : Coherent(wire[j])
        BY DEF RInv, ChannelWithin
      <4> QED
        BY <1>0, <4>1, <4>2, <4>3
    <3> QED
      BY <2>5, <3>1, <3>2
  <2>8. ChannelWithin'
    BY <2>4, <2>5, <2>6, <2>7 DEF ChannelWithin, Coherent, Bounded
  <2> QED
    BY <1>5, <2>8, RKept DEF SendReplayed, SameCursors
<1>6. CASE Register
  <2>1. socket'.base = socket.base /\ socket'.frames = socket.frames
    BY <1>0, <1>6 DEF Register, SocketType
  <2>2. ChannelWithin'
    BY <1>6, <2>1 DEF Register, RInv, ChannelWithin, Coherent, Bounded
  <2> QED
    BY <1>6, <2>2, RKept DEF Register, SameCursors
<1>7. CASE Hear
  <2> DEFINE m == Head(wire)
  <2>1. /\ m \in Message /\ m = wire[1] /\ wire' = Tail(wire) /\ Len(wire) >= 1
        /\ Len(Tail(wire)) = Len(wire) - 1
        /\ \A i \in 1 .. Len(wire) - 1 : Tail(wire)[i] = wire[i + 1]
    BY <1>0, <1>7, Taken DEF Hear
  <2>2. Coherent(m)
    BY <1>0, <2>1 DEF RInv, ChannelWithin
  <2>3. told' = (IF m.of = told THEN told ELSE None) /\ UNCHANGED <<head, base, sse, sent>>
    BY <1>7 DEF Hear
  <2>4. socket'.base = socket.base /\ socket'.frames = socket.frames
    <3>1. socket' \in {socket, [socket EXCEPT !.heard = IF m.word = "live" THEN m.seq ELSE @]}
      BY <1>7 DEF Hear
    <3> QED
      BY <1>0, <3>1 DEF SocketType
  <2>5. ASSUME NEW i \in 1 .. Len(wire')
        PROVE  Coherent(wire'[i])
    <3>1. wire'[i] = wire[i + 1] /\ i + 1 \in 1 .. Len(wire)
      BY <1>0, <2>1
    <3> QED
      BY <3>1 DEF RInv, ChannelWithin
  <2>6. ChannelWithin'
    BY <2>3, <2>4, <2>5 DEF RInv, ChannelWithin, Coherent, Bounded
  <2>7. page' \in {Resumed(page, m.seq),
                   [AdoptHead(page, m.seq) EXCEPT !.seen = page.seen],
                   Painted(page, m.kind),
                   Painted(Tracked(page, m.seq), m.kind),
                   PaintedHistory(Tracked(page, m.seq), m.kind)}
    BY <1>7 DEF Hear
  <2> HIDE DEF m
  <2>8. ASSUME told' = base
        PROVE  Within(page')
    <3>1. m.of = base /\ told = base
      BY <1>0, <2>3, <2>8, DeliveryAssumption
    <3>2. m.seq <= head /\ Within(page)
      BY <2>2, <3>1 DEF Coherent, RInv, CursorsWithin
    <3> QED
      BY <1>0, <2>1, <2>7, <3>2, HeardWithin
  <2> QED
    BY <2>3, <2>6, <2>8, RSocketMoves
<1>8. CASE CutSocket
  <2>1. socket'.base = socket.base /\ socket'.frames = socket.frames
    BY <1>0, <1>8 DEF CutSocket, SocketType
  <2>2. ChannelWithin'
    BY <1>8, <2>1 DEF CutSocket, RInv, ChannelWithin, Coherent, Bounded
  <2> QED
    BY <1>8, <2>2, RKept DEF CutSocket, SameCursors
<1>9. CASE LoseSocket
  <2>1. socket'.base = 0 /\ socket'.frames = <<>> /\ wire' = <<>>
    BY <1>9 DEF LoseSocket, CloseSocket, NoSocket
  <2>2. ChannelWithin'
    BY <1>0, <1>9, <2>1 DEF LoseSocket, ChannelWithin, Bounded
  <2> QED
    BY <1>9, <2>2, RKept DEF LoseSocket, SameCursors
<1> QED
  BY <1>1, <1>2, <1>3, <1>4, <1>5, <1>6, <1>7, <1>8, <1>9 DEF SocketStep

LEMMA RResync ==
  ASSUME TInv, RInv, ResyncStep
  PROVE  RInv'
<1> USE DEF server, stream, channel
<1>1. PICK status \in said \cup {"idle"}, closed \in BOOLEAN : Resynced(status, closed)
  BY DEF ResyncStep
<1> DEFINE h == Hydrated(status)
           waiting == [h EXCEPT !.awaiting = TRUE]
<1>2. page \in PageType
  BY DEF TInv, TypeOK
<1>3. h \in PageType /\ SameCursors(h, page)
  BY <1>2, HydratedType, SameHydrated
<1> HIDE DEF h
<1>4. /\ waiting \in PageType /\ waiting.gate \in BOOLEAN
      /\ SameCursors(waiting, page)
  BY <1>3 DEF PageType, SameCursors
<1>5. \A q \in Lowered(h) : SameCursors(q, page)
  BY <1>3, SameCursorsOf DEF SameCursors, Kinds
<1> HIDE DEF waiting
<1>6. \/ AttachJournal(waiting, waiting.gate)
      \/ page' \in {waiting} \cup Lowered(h) /\ UNCHANGED <<sse, sent>>
  BY <1>1 DEF Resynced, waiting, h
<1>7. UNCHANGED <<head, base, told, socket, wire>> /\ ChannelWithin'
  BY <1>1, RChannel DEF Resynced, RInv
<1>8. CASE AttachJournal(waiting, waiting.gate)
  <2>1. SameCursors(page', page)
    BY <1>4, <1>8, SameCursorsOf DEF AttachJournal, SameCursors, Kinds
  <2>2. Off
    BY <1>8 DEF AttachJournal, AttachStream, NoStream, Off
  <2> QED
    BY <1>7, <2>1, <2>2, RKept
<1>9. CASE page' \in {waiting} \cup Lowered(h) /\ UNCHANGED <<sse, sent>>
  BY <1>4, <1>5, <1>7, <1>9, RKept
<1> QED
  BY <1>6, <1>8, <1>9

LEMMA RStep == TInv /\ RInv /\ [Next]_vars => RInv'
<1> SUFFICES ASSUME TInv, RInv, [Next]_vars PROVE RInv'
  OBVIOUS
<1>0. /\ head \in Nat /\ base \in Nat /\ told \in Nat \cup {None} /\ page \in PageType
      /\ socket \in SocketType /\ wire \in Seq(Message) /\ sent.base \in Nat
  BY DEF TInv, TypeOK, SentType
<1> USE DEF stream, channel
\* A journal with frames: whatever was of it or told of it is now of an earlier one.
<1>1. CASE DropThread
  <2>1. base' > base /\ base' \in Nat
    BY <1>0, <1>1 DEF DropThread, Forget
  <2>2. UNCHANGED <<told, sse, sent, page, socket, wire>>
    BY <1>1 DEF DropThread
  <2>3. sent.base # base' /\ sent.base <= base'
    BY <1>0, <2>1 DEF RInv, CursorsWithin
  <2>4. told' # base' /\ (told' # None => told' <= base')
    BY <1>0, <2>1, <2>2, DeliveryAssumption DEF RInv, CursorsWithin
  <2>5. ChannelWithin'
    <3>1. socket.base \in Nat
      BY <1>0 DEF SocketType
    <3>2. ASSUME NEW i \in 1 .. Len(wire)
          PROVE  wire[i].of <= base' /\ wire[i].of # base'
      <4>1. wire[i] \in Message
        BY <1>0
      <4>2. wire[i].of \in Nat /\ wire[i].of <= base
        BY <4>1 DEF Message, RInv, ChannelWithin, Coherent
      <4> QED
        BY <1>0, <2>1, <4>2
    <3> QED
      BY <1>0, <2>1, <2>2, <3>1, <3>2 DEF RInv, ChannelWithin, Coherent
  <2> QED
    BY <2>2, <2>3, <2>4, <2>5 DEF RInv, CursorsWithin, Open
<1>2. CASE Restart
  <2>1. base' = base + head /\ head' = 0 /\ told' = told
    BY <1>2 DEF Restart, Forget
  <2>2. /\ SameCursors(page', page) /\ ~Open' /\ sse'.queue = <<>>
        /\ sse'.phase # "refused" /\ sent'.base <= base'
    <3>1. CASE sse.phase = "off"
      <4>1. UNCHANGED <<sse, sent, page>>
        BY <1>2, <3>1 DEF Restart
      <4>2. sent.base <= base
        BY DEF RInv, CursorsWithin
      <4> QED
        BY <1>0, <2>1, <3>1, <4>1, <4>2 DEF SameCursors, Open, RInv, CursorsWithin
    <3>2. CASE sse.phase # "off"
      <4>1. SameCursors(page', page) /\ Off
        BY <1>0, <1>2, <3>2, TruncatedCursors DEF Restart
      <4> QED
        BY <1>0, <2>1, <4>1 DEF Off, Open, NothingSent
    <3> QED
      BY <3>1, <3>2
  <2>3. told' # None => told' <= base'
    BY <1>0, <2>1 DEF RInv, CursorsWithin
  <2>4. told' = base' => Within(page)'
    <3> SUFFICES ASSUME told = base + head
                 PROVE  Within(page)'
      BY <2>1
    <3>1. head = 0 /\ told = base
      BY <1>0, DeliveryAssumption DEF RInv, CursorsWithin
    <3> QED
      BY <2>1, <2>2, <3>1 DEF RInv, CursorsWithin, Within, SameCursors
  <2>5. ChannelWithin'
    <3>1. CASE CloseSocket
      <4>1. socket'.base = 0 /\ socket'.frames = <<>> /\ wire' = <<>>
        BY <3>1 DEF CloseSocket, NoSocket
      <4> QED
        BY <1>0, <2>1, <4>1 DEF ChannelWithin, Bounded
    <3>2. CASE socket' = [socket EXCEPT !.phase = "cut"] /\ UNCHANGED <<wire, missed>>
      <4>1. socket'.base = socket.base /\ socket'.frames = socket.frames
            /\ socket.base \in Nat /\ socket.frames \in Seq(Frame)
        BY <1>0, <3>2 DEF SocketType
      <4>2. ASSUME NEW i \in 1 .. Len(wire)
            PROVE  wire[i].of <= base' /\ (wire[i].of = base' => wire[i].seq <= 0)
        <5>1. wire[i] \in Message
          BY <1>0
        <5>2. wire[i].of \in Nat /\ wire[i].seq \in Nat /\ Coherent(wire[i])
          BY <5>1 DEF Message, RInv, ChannelWithin
        <5> QED
          BY <1>0, <2>1, <5>2 DEF Coherent
      <4>3. socket.base <= base' /\ (socket.base = base' => head = 0 /\ socket.base = base)
        BY <1>0, <2>1, <4>1 DEF RInv, ChannelWithin
      <4>4. socket.base = base' => \A i \in 1 .. Len(socket.frames) : socket.frames[i].seq <= 0
        BY <4>3 DEF RInv, ChannelWithin, Bounded
      <4> QED
        BY <2>1, <3>2, <4>1, <4>2, <4>3, <4>4 DEF ChannelWithin, Coherent, Bounded
    <3> QED
      BY <1>2, <3>1, <3>2 DEF Restart
  <2> QED
    BY <2>1, <2>2, <2>3, <2>4, <2>5 DEF RInv, CursorsWithin
<1>3. CASE UNCHANGED vars
  <2>1. UNCHANGED <<head, base, told, sse, sent, page, socket, wire>>
    BY <1>3 DEF vars
  <2> QED
    BY <2>1, RChannel, RKept DEF SameCursors, RInv
<1> QED
  BY <1>1, <1>2, <1>3, RTurn, RStream, RSocket, RResync DEF Next

\* A page whose stream was told of a gap in a journal does not ask for frames past that
\* journal's head while it lives: a dead cursor does not come back, from a frame the
\* stream or the socket still holds or from what another step writes, unless the page
\* hears a message of an earlier journal (_adoptJournalHead, adoptHead, observeSeq).
THEOREM Revived == Spec => []CursorRevived
<1>1. TInv /\ RInv => CursorRevived
  <2> SUFFICES ASSUME TInv, RInv, told = base
               PROVE  Cursor(page) <= head
    BY DEF CursorRevived
  <2> QED
    BY DEF RInv, CursorsWithin, Within, Cursor
<1> QED
  BY <1>1, TypeInit, TypeStep, RInit, RStep, PTL DEF Spec

----------------------------------------------------------------------------
(* The stream.  Its journal's frames after the cursor fall into those dealt *)
(* with, those its replay still holds, and those its queue holds, in order. *)

\* The last frame dealt with.
Done == head - Len(sse.queue) - Len(sse.todo)

Whole ==
  /\ sse.cursor <= Done
  /\ \A i \in 1 .. Len(sse.queue) : sse.queue[i].seq = head - Len(sse.queue) + i
  /\ \A i \in 1 .. Len(sse.todo) : sse.todo[i].seq = Done + i
  /\ \A i \in 1 .. Len(sse.todo) :
       ~Replayable(sse.todo[i].kind) => sse.todo[i].seq \in sent.out
  /\ sse.cursor + 1 .. Done \subseteq sent.passed \cup sent.out
  /\ \A n \in sent.passed : n <= Done
  /\ sse.last <= Done
  /\ sse.phase = "tail" => sse.todo = <<>>

WInv == Open /\ sent.base = base /\ ~sent.full => Whole

LEMMA WholeEmit ==
  ASSUME TInv, WInv, NEW kind \in Kinds, Emit(kind)
  PROVE  WInv'
<1> DEFINE f == [seq |-> head + 1, kind |-> kind]
           longer == Append(sse.queue, f)
<1>1. /\ head \in Nat /\ base \in Nat /\ head' = head + 1 /\ base' = base
      /\ sse \in StreamType /\ sent \in SentType
  BY DEF TInv, TypeOK, Emit, Append1
<1>2. /\ sse.queue \in Seq(Frame) /\ sse.todo \in Seq(Frame)
      /\ sse.cursor \in Nat /\ sse.last \in Nat
  BY <1>1 DEF StreamType
<1> SUFFICES ASSUME Open', (sent.base = base)', ~sent'.full
             PROVE  Whole'
  BY DEF WInv
<1>3. Open /\ sse' = [sse EXCEPT !.queue = longer] /\ sent' = sent
  BY <1>1 DEF Emit, Queued, Open, SentType
<1>4. Whole
  BY <1>1, <1>3 DEF WInv
<1>5. f \in Frame /\ f.seq = head + 1
  BY <1>1 DEF Frame
<1> HIDE DEF f
<1>6. /\ longer \in Seq(Frame) /\ Len(longer) = Len(sse.queue) + 1
      /\ \A i \in 1 .. Len(sse.queue) : longer[i] = sse.queue[i]
      /\ longer[Len(sse.queue) + 1] = f
  BY <1>2, <1>5, Appended
<1> HIDE DEF longer
<1>7. /\ sse'.queue = longer /\ sse'.todo = sse.todo /\ sse'.cursor = sse.cursor
      /\ sse'.last = sse.last /\ sse'.phase = sse.phase
  BY <1>1, <1>3 DEF StreamType
<1>8. Done' = Done /\ Done \in Int
  <2>1. Done' = (head + 1) - (Len(sse.queue) + 1) - Len(sse.todo)
    BY <1>1, <1>6, <1>7 DEF Done
  <2>2. Len(sse.queue) \in Nat /\ Len(sse.todo) \in Nat
    BY <1>2
  <2>3. Done = head - Len(sse.queue) - Len(sse.todo)
    BY DEF Done
  <2> QED
    BY <1>1, <2>1, <2>2, <2>3
<1>9. ASSUME NEW i \in 1 .. Len(longer)
      PROVE  longer[i].seq = head + 1 - Len(longer) + i
  <2>1. CASE i \in 1 .. Len(sse.queue)
    <3>1. longer[i] = sse.queue[i] /\ sse.queue[i].seq = head - Len(sse.queue) + i
      BY <1>4, <1>6, <2>1 DEF Whole
    <3>2. Len(sse.queue) \in Nat
      BY <1>2
    <3> QED
      BY <1>1, <1>6, <2>1, <3>1, <3>2
  <2>2. CASE i = Len(sse.queue) + 1
    BY <1>1, <1>2, <1>5, <1>6, <2>2
  <2> QED
    BY <1>2, <1>6, <2>1, <2>2
<1>10. (\A i \in 1 .. Len(sse.queue) : sse.queue[i].seq = head - Len(sse.queue) + i)'
  BY <1>1, <1>7, <1>9
<1> QED
  BY <1>3, <1>4, <1>7, <1>8, <1>10 DEF Whole

LEMMA WholeAttach ==
  ASSUME TInv, RInv, ServeAttach
  PROVE  WInv'
<1>1. CASE Gap(sse.cursor)
  BY <1>1 DEF ServeAttach, WInv, Open, NoStream
<1>2. CASE ~Gap(sse.cursor)
  <2>1. /\ sse \in StreamType /\ sse.phase = "asked" /\ sse.cursor \in Nat
        /\ sse.queue \in Seq(Frame) /\ head \in Nat
    BY DEF TInv, TypeOK, ServeAttach, StreamType
  <2> DEFINE todo == Replay(sse.cursor)
             out == {n \in sse.cursor + 1 .. head : ~Replayable(KindAt(n))}
  <2>2. /\ todo \in Seq(Frame) /\ sse.cursor <= head
        /\ Len(todo) = head - sse.cursor
    BY <1>2, <2>1, ReplayIs DEF TInv
  <2>3. ASSUME NEW i \in 1 .. Len(todo)
        PROVE  /\ todo[i].seq = sse.cursor + i
               /\ ~Replayable(todo[i].kind) => todo[i].seq \in out
    <3> DEFINE f == [seq |-> sse.cursor + i, kind |-> KindAt(sse.cursor + i)]
    <3>1. todo[i] = f /\ sse.cursor + i <= head
      BY <2>1, ReplayIs DEF TInv
    <3>2. f.seq = sse.cursor + i /\ f.kind = KindAt(sse.cursor + i)
      OBVIOUS
    <3>3. sse.cursor + i \in sse.cursor + 1 .. head
      BY <2>1, <2>2, <3>1
    <3> QED
      BY <3>1, <3>2, <3>3
  <2> HIDE DEF todo, out
  <2>4. sse.queue = <<>>
    BY <2>1 DEF RInv, CursorsWithin, Open
  <2>5. /\ sse' = [sse EXCEPT !.phase = "replay", !.todo = todo,
                              !.last = sse.cursor, !.live = turn = "running"]
        /\ sent' = [base |-> base, passed |-> {}, full |-> FALSE, out |-> out]
        /\ head' = head
    BY <1>2 DEF ServeAttach, server, todo, out
  <2>6. /\ sse'.phase = "replay" /\ sse'.todo = todo /\ sse'.queue = <<>>
        /\ sse'.last = sse.cursor /\ sse'.cursor = sse.cursor
        /\ sent'.passed = {} /\ sent'.out = out
    BY <2>1, <2>4, <2>5 DEF StreamType
  <2>7. Done' = sse.cursor
    BY <2>1, <2>2, <2>5, <2>6 DEF Done
  <2>8. Whole'
    BY <2>1, <2>3, <2>6, <2>7 DEF Whole
  <2> QED
    BY <2>8 DEF WInv
<1> QED
  BY <1>1, <1>2

LEMMA WholeReplay ==
  ASSUME TInv, WInv, ReplayOne
  PROVE  WInv'
<1> DEFINE f == Head(sse.todo)
           rest == [sse EXCEPT !.todo = Tail(@),
                               !.last = IF Replayable(f.kind) THEN f.seq ELSE @]
<1>1. /\ sse \in StreamType /\ sent \in SentType /\ head \in Nat /\ base \in Nat
      /\ sse.phase = "replay" /\ sse.todo # <<>>
      /\ sse.todo \in Seq(Frame) /\ sse.queue \in Seq(Frame)
      /\ sse.cursor \in Nat /\ sse.last \in Nat
  BY DEF TInv, TypeOK, ReplayOne, StreamType
<1>2. /\ f = sse.todo[1] /\ Len(sse.todo) >= 1 /\ f \in Frame
      /\ Tail(sse.todo) \in Seq(Frame) /\ Len(Tail(sse.todo)) = Len(sse.todo) - 1
      /\ \A i \in 1 .. Len(sse.todo) - 1 : Tail(sse.todo)[i] = sse.todo[i + 1]
  BY <1>1, Taken
<1> DEFINE left == Tail(sse.todo)
<1> HIDE DEF f
<1> SUFFICES ASSUME Open', (sent.base = base)', ~sent'.full
             PROVE  Whole'
  BY DEF WInv
<1>3. /\ sse' = rest /\ head' = head /\ base' = base
      /\ \/ sent' = sent /\ ~Replayable(f.kind)
         \/ sent' = Passed(f)
  BY DEF ReplayOne, server, Open, NoStream, f
<1>4. /\ sse'.phase = "replay" /\ sse'.todo = left /\ sse'.queue = sse.queue
      /\ sse'.cursor = sse.cursor
      /\ sse'.last = IF Replayable(f.kind) THEN f.seq ELSE sse.last
  BY <1>1, <1>3 DEF StreamType
<1>5. /\ sent'.out = sent.out /\ sent'.base = sent.base /\ sent'.full = sent.full
      /\ sent'.passed \in {sent.passed, sent.passed \cup {f.seq}}
      /\ Replayable(f.kind) => f.seq \in sent'.passed
      /\ \A n \in sent.passed : n \in sent'.passed
  BY <1>1, <1>3 DEF Passed, SentType
<1>6. Whole
  BY <1>1, <1>3, <1>5 DEF WInv, Open
<1>7. Done' = Done + 1 /\ Done \in Int
  <2>1. Done' = head - Len(sse.queue) - (Len(sse.todo) - 1)
    BY <1>2, <1>3, <1>4 DEF Done
  <2>2. Len(sse.queue) \in Nat /\ Len(sse.todo) \in Nat
    BY <1>1
  <2>3. Done = head - Len(sse.queue) - Len(sse.todo)
    BY DEF Done
  <2> QED
    BY <1>1, <2>1, <2>2, <2>3
<1>8. f.seq = Done + 1 /\ (~Replayable(f.kind) => f.seq \in sent.out)
  BY <1>1, <1>2, <1>6 DEF Whole
<1>9. ASSUME NEW i \in 1 .. Len(left)
      PROVE  /\ left[i].seq = Done + 1 + i
             /\ ~Replayable(left[i].kind) => left[i].seq \in sent.out
  <2>1. i + 1 \in 1 .. Len(sse.todo) /\ left[i] = sse.todo[i + 1] /\ i \in Int
    BY <1>2
  <2> QED
    BY <1>6, <1>7, <2>1 DEF Whole
<1> HIDE DEF left
<1>10. sse.cursor + 1 .. Done + 1 \subseteq sent'.passed \cup sent'.out
  <2> SUFFICES ASSUME NEW n \in sse.cursor + 1 .. Done + 1
               PROVE  n \in sent'.passed \cup sent'.out
    OBVIOUS
  <2>1. n \in sse.cursor + 1 .. Done \/ n = f.seq
    BY <1>1, <1>7, <1>8
  <2> QED
    BY <1>5, <1>6, <1>8, <2>1 DEF Whole
<1>11. \A n \in sent'.passed : n <= Done + 1
  <2> SUFFICES ASSUME NEW n \in sent'.passed PROVE n <= Done + 1
    OBVIOUS
  <2>1. n \in sent.passed \/ n = f.seq
    BY <1>5
  <2>2. \A m \in sent.passed : m \in Nat /\ m <= Done
    BY <1>1, <1>6 DEF Whole, SentType
  <2> QED
    BY <1>7, <1>8, <2>1, <2>2
<1>12. sse.cursor <= Done /\ sse.last <= Done
  BY <1>6 DEF Whole
<1>13. sse'.last <= Done + 1
  BY <1>1, <1>4, <1>7, <1>8, <1>12
<1>14. \A i \in 1 .. Len(sse.queue) : sse.queue[i].seq = head - Len(sse.queue) + i
  BY <1>6 DEF Whole
<1>15. /\ sse'.cursor <= Done' /\ sse'.last <= Done'
       /\ sse'.phase # "tail"
  BY <1>1, <1>4, <1>7, <1>12, <1>13
<1>16. (\A i \in 1 .. Len(sse.queue) : sse.queue[i].seq = head - Len(sse.queue) + i)'
  BY <1>3, <1>4, <1>14
<1>17. (\A i \in 1 .. Len(sse.todo) :
         /\ sse.todo[i].seq = Done + i
         /\ ~Replayable(sse.todo[i].kind) => sse.todo[i].seq \in sent.out)'
  BY <1>4, <1>5, <1>7, <1>9
<1>18. (sse.cursor + 1 .. Done \subseteq sent.passed \cup sent.out)'
  BY <1>4, <1>7, <1>10
<1>19. (\A n \in sent.passed : n <= Done)'
  BY <1>7, <1>11
<1> QED
  BY <1>15, <1>16, <1>17, <1>18, <1>19 DEF Whole

LEMMA WholeTake ==
  ASSUME TInv, WInv, TakeQueued
  PROVE  WInv'
<1> DEFINE f == Head(sse.queue)
           left == Tail(sse.queue)
<1>1. /\ sse \in StreamType /\ sent \in SentType /\ head \in Nat /\ base \in Nat
      /\ sse.phase = "tail" /\ sse.queue # <<>>
      /\ sse.todo \in Seq(Frame) /\ sse.queue \in Seq(Frame)
      /\ sse.cursor \in Nat /\ sse.last \in Nat
  BY DEF TInv, TypeOK, TakeQueued, StreamType
<1>2. /\ f = sse.queue[1] /\ Len(sse.queue) >= 1 /\ f \in Frame
      /\ left \in Seq(Frame) /\ Len(left) = Len(sse.queue) - 1
      /\ \A i \in 1 .. Len(sse.queue) - 1 : left[i] = sse.queue[i + 1]
  BY <1>1, Taken
<1> HIDE DEF f, left
<1> SUFFICES ASSUME Open', (sent.base = base)', ~sent'.full
             PROVE  Whole'
  BY DEF WInv
<1>3. /\ head' = head /\ base' = base
      /\ \/ /\ f.seq <= sse.last
            /\ sse' = [sse EXCEPT !.queue = left] /\ sent' = sent
         \/ /\ sse' = [sse EXCEPT !.queue = left, !.last = f.seq]
            /\ sent' = Passed(f)
  <2>1. ~(sse' = NoStream)
    BY DEF Open, NoStream
  <2>2. ~(sse' = [NoStream EXCEPT !.phase = "asked", !.cursor = Cursor([page EXCEPT !.seen = f.seq])])
    BY DEF Open, NoStream
  <2>3. head' = head /\ base' = base
    BY DEF TakeQueued, server
  <2> QED
    BY <2>1, <2>2, <2>3 DEF TakeQueued, AttachJournal, AttachStream, Truncated, f, left
<1>4. /\ sse'.phase = "tail" /\ sse'.todo = sse.todo /\ sse'.queue = left
      /\ sse'.cursor = sse.cursor
  BY <1>1, <1>3 DEF StreamType
<1>5. sent'.base = sent.base /\ sent'.full = sent.full /\ sent'.out = sent.out
  BY <1>1, <1>3 DEF Passed, SentType
<1>6. Whole
  BY <1>1, <1>3, <1>5 DEF WInv, Open
<1>7. sse.todo = <<>> /\ Len(sse.todo) = 0 /\ Len(sse.queue) \in Nat
  BY <1>1, <1>6 DEF Whole
<1>8. Done = head - Len(sse.queue) /\ Done' = Done + 1 /\ Done \in Int
  <2>1. Done' = head - (Len(sse.queue) - 1)
    <3>1. Done' = head' - Len(sse'.queue) - Len(sse'.todo)
      BY DEF Done
    <3>2. head' = head /\ Len(sse'.queue) = Len(sse.queue) - 1 /\ Len(sse'.todo) = 0
      BY <1>2, <1>3, <1>4, <1>7
    <3> QED
      BY <1>1, <1>7, <3>1, <3>2
  <2>2. Done = head - Len(sse.queue)
    BY <1>1, <1>7 DEF Done
  <2> QED
    BY <1>1, <1>7, <2>1, <2>2
<1>9. f.seq = Done + 1
  <2>1. sse.queue[1].seq = head - Len(sse.queue) + 1
    BY <1>2, <1>6, <1>7 DEF Whole
  <2> QED
    BY <1>2, <1>8, <2>1
<1>10. sse.cursor <= Done /\ sse.last <= Done
  BY <1>6 DEF Whole
\* The next frame is always one that was not passed on.
<1>11. /\ sse' = [sse EXCEPT !.queue = left, !.last = f.seq]
       /\ sent' = Passed(f)
  <2>1. ~(f.seq <= sse.last)
    <3>1. sse.last <= Done /\ sse.last \in Nat
      BY <1>1, <1>10
    <3> HIDE DEF Done
    <3> QED
      BY <1>8, <1>9, <3>1
  <2> QED
    BY <1>3, <2>1
<1>12. sse'.last = f.seq /\ sent'.passed = sent.passed \cup {f.seq}
  BY <1>1, <1>11 DEF StreamType, SentType, Passed
<1>13. ASSUME NEW i \in 1 .. Len(left)
       PROVE  left[i].seq = head - Len(left) + i
  <2>1. i + 1 \in 1 .. Len(sse.queue) /\ left[i] = sse.queue[i + 1] /\ i \in Int
    BY <1>2, <1>7
  <2>2. sse.queue[i + 1].seq = head - Len(sse.queue) + (i + 1)
    BY <1>6, <2>1 DEF Whole
  <2> QED
    BY <1>1, <1>2, <1>7, <2>1, <2>2
<1>14. sse.cursor + 1 .. Done + 1 \subseteq sent'.passed \cup sent'.out
  <2> SUFFICES ASSUME NEW n \in sse.cursor + 1 .. Done + 1
               PROVE  n \in sent'.passed \cup sent'.out
    OBVIOUS
  <2>1. n \in sse.cursor + 1 .. Done \/ n = f.seq
    BY <1>1, <1>8, <1>9
  <2> QED
    BY <1>5, <1>6, <1>12, <2>1 DEF Whole
<1>15. \A n \in sent'.passed : n <= Done + 1
  <2> SUFFICES ASSUME NEW n \in sent'.passed PROVE n <= Done + 1
    OBVIOUS
  <2>1. n \in sent.passed \/ n = f.seq
    BY <1>12
  <2>2. \A m \in sent.passed : m \in Nat /\ m <= Done
    BY <1>1, <1>6 DEF Whole, SentType
  <2> QED
    BY <1>8, <1>9, <2>1, <2>2
<1>16. sse'.cursor <= Done' /\ sse'.last <= Done' /\ sse'.todo = <<>>
  <2>1. sse'.cursor \in Nat /\ sse'.cursor <= Done
    BY <1>1, <1>4, <1>10
  <2>2. sse'.last = Done + 1
    BY <1>9, <1>12
  <2> QED
    BY <1>4, <1>7, <1>8, <2>1, <2>2
<1>17. (\A i \in 1 .. Len(sse.queue) : sse.queue[i].seq = head - Len(sse.queue) + i)'
  BY <1>3, <1>4, <1>13
<1>18. (\A i \in 1 .. Len(sse.todo) :
         /\ sse.todo[i].seq = Done + i
         /\ ~Replayable(sse.todo[i].kind) => sse.todo[i].seq \in sent.out)'
  BY <1>4, <1>7
<1>19. (sse.cursor + 1 .. Done \subseteq sent.passed \cup sent.out)'
  BY <1>4, <1>8, <1>14
<1>20. (\A n \in sent.passed : n <= Done)'
  BY <1>8, <1>15
<1> QED
  BY <1>16, <1>17, <1>18, <1>19, <1>20 DEF Whole

LEMMA WholeKept ==
  ASSUME WInv, UNCHANGED <<head, base, sse, sent>> \/ ~Open'
  PROVE  WInv'
BY DEF WInv, Whole, Open, Done

LEMMA WholeStep == TInv /\ RInv /\ WInv /\ [Next]_vars => WInv'
<1> SUFFICES ASSUME TInv, RInv, WInv, [Next]_vars PROVE WInv'
  OBVIOUS
<1>0. sse \in StreamType /\ sent \in SentType /\ head \in Nat /\ base \in Nat
  BY DEF TInv, TypeOK
<1> USE DEF server, stream
<1>1. CASE TurnStep
  <2>1. CASE \/ Pause \/ Approve \/ \E kind \in {"token", "note"} : Work(kind)
             \/ \E kind \in {"end", "error"} : Finish(kind)
    BY <2>1, WholeEmit DEF Pause, Approve, Work, Finish, Kinds
  <2>2. CASE Send \/ StartTurn \/ Approved
    <3>1. ~Open'
      BY <1>0, <2>2 DEF Send, StartTurn, Approved, AttachStream, NoStream, Open, StreamType
    <3> QED
      BY <3>1, WholeKept
  <2>3. CASE Click
    BY <2>3, WholeKept DEF Click
  <2> QED
    BY <1>1, <2>1, <2>2, <2>3 DEF TurnStep
<1>2. CASE StreamStep
  <2>1. CASE EndReplay
    <3>1. CASE sse.live \/ parked
      <4>1. /\ sse'.phase = "tail" /\ sse'.todo = <<>> /\ sse.phase = "replay"
            /\ sse'.todo = sse.todo /\ sse'.queue = sse.queue
            /\ sse'.cursor = sse.cursor /\ sse'.last = sse.last
            /\ UNCHANGED <<sent, head, base>>
        BY <1>0, <2>1, <3>1 DEF EndReplay, StreamType
      <4>2. Done' = Done
        BY <4>1 DEF Done
      <4> QED
        BY <4>1, <4>2 DEF WInv, Whole, Open
    <3>2. CASE ~(sse.live \/ parked)
      <4>1. ~Open'
        BY <2>1, <3>2 DEF EndReplay, Truncated, NoStream, Open
      <4> QED
        BY <4>1, WholeKept
    <3> QED
      BY <3>1, <3>2
  <2>2. CASE IdleTick \/ LoseStream \/ HearGap
    <3>1. sse' = NoStream
      BY <2>2 DEF IdleTick, LoseStream, HearGap, Truncated
    <3>2. ~Open'
      BY <3>1 DEF NoStream, Open
    <3> QED
      BY <3>2, WholeKept
  <2> QED
    BY <1>2, <2>1, <2>2, WholeAttach, WholeReplay, WholeTake DEF StreamStep
<1>3. CASE SocketStep
  BY <1>3, WholeKept
     DEF SocketStep, Connect, Welcome, ReadReplay, ReadHead, SendReplayed, Register,
         Hear, CutSocket, LoseSocket
<1>4. CASE ResyncStep
  <2>1. PICK status \in said \cup {"idle"}, closed \in BOOLEAN : Resynced(status, closed)
    BY <1>4 DEF ResyncStep
  <2>2. UNCHANGED <<head, base, sse, sent>> \/ ~Open'
    BY <2>1 DEF Resynced, AttachJournal, AttachStream, NoStream, Open
  <2> QED
    BY <2>2, WholeKept
\* A journal with frames: the stream is of an earlier one.
<1>5. CASE DropThread
  <2>1. sent' = sent /\ sent.base \in Nat /\ sent.base <= base /\ base' > base
    BY <1>0, <1>5 DEF DropThread, Forget, SentType, RInv, CursorsWithin
  <2> QED
    BY <1>0, <2>1 DEF WInv
<1>6. CASE Restart
  <2>1. ~Open'
    <3>1. CASE sse.phase = "off"
      BY <1>6, <3>1 DEF Restart, Open
    <3>2. CASE sse.phase # "off"
      BY <1>6, <3>2 DEF Restart, Truncated, NoStream, Open
    <3> QED
      BY <3>1, <3>2
  <2> QED
    BY <2>1, WholeKept
<1>7. CASE UNCHANGED vars
  BY <1>7, WholeKept DEF vars
<1> QED
  BY <1>1, <1>2, <1>3, <1>4, <1>5, <1>6, <1>7 DEF Next

\* _sse_attach_stream: what a stream dealt with, its replay and its queue together are
\* all the frames after its cursor, each once.
LEMMA WholeStream == TInv /\ WInv => StreamIsWhole
<1> SUFFICES ASSUME TInv, WInv, Open, sent.base = base, ~sent.full
             PROVE  /\ sse.cursor + 1 .. head \subseteq sent.passed \cup sent.out \cup Coming
                    /\ sent.passed \cap Coming = {}
  BY DEF StreamIsWhole
<1> DEFINE q == Len(sse.queue)
           t == Len(sse.todo)
<1>1. /\ sse \in StreamType /\ sent \in SentType /\ head \in Nat
      /\ sse.queue \in Seq(Frame) /\ sse.todo \in Seq(Frame) /\ sse.cursor \in Nat
  BY DEF TInv, TypeOK, StreamType
<1>2. q \in Nat /\ t \in Nat
  BY <1>1
<1>3. Done = head - q - t /\ Done \in Int
  BY <1>1, <1>2 DEF Done
<1>4. Whole
  BY DEF WInv
<1>5. /\ \A i \in 1 .. q : sse.queue[i].seq = head - q + i
      /\ \A i \in 1 .. t : sse.todo[i].seq = Done + i
  BY <1>4 DEF Whole
<1>6. /\ DOMAIN sse.queue = 1 .. q /\ DOMAIN sse.todo = 1 .. t
  BY <1>1
<1> HIDE DEF q, t
<1>7. ASSUME NEW n \in sse.cursor + 1 .. head
      PROVE  n \in sent.passed \cup sent.out \cup Coming
  <2>1. n \in Int /\ n >= sse.cursor + 1 /\ n <= head
    BY <1>1
  <2>2. CASE n <= Done
    <3>1. n \in sse.cursor + 1 .. Done
      BY <1>1, <1>3, <2>1, <2>2
    <3> QED
      BY <1>4, <3>1 DEF Whole
  <2>3. CASE n > Done /\ n <= Done + t
    <3>1. n - Done \in 1 .. t /\ Done + (n - Done) = n
      BY <1>2, <1>3, <2>1, <2>3
    <3>2. sse.todo[n - Done].seq = n
      BY <1>5, <3>1
    <3> QED
      BY <1>6, <3>1, <3>2 DEF Coming
  <2>4. CASE n > Done + t
    <3>1. n - (head - q) \in 1 .. q /\ (head - q) + (n - (head - q)) = n
      BY <1>1, <1>2, <1>3, <2>1, <2>4
    <3>2. sse.queue[n - (head - q)].seq = n
      BY <1>5, <3>1
    <3> QED
      BY <1>6, <3>1, <3>2 DEF Coming
  <2> QED
    BY <1>2, <1>3, <2>1, <2>2, <2>3, <2>4
<1>8. ASSUME NEW n \in sent.passed, n \in Coming
      PROVE  FALSE
  <2>1. n \in Nat /\ n <= Done
    BY <1>1, <1>4, <1>8 DEF Whole, SentType
  <2>2. \/ \E i \in 1 .. t : n = Done + i
        \/ \E i \in 1 .. q : n = head - q + i
    BY <1>5, <1>6, <1>8 DEF Coming
  <2> QED
    BY <1>1, <1>2, <1>3, <2>1, <2>2
<1> QED
  BY <1>7, <1>8

\* _sse_attach_stream subscribes before it replays: as long as its queue has not
\* overflowed, no frame of its journal is lost between the two and none comes twice.
THEOREM StreamWhole == Spec => []StreamIsWhole
<1>1. Init => WInv
  BY DEF Init, WInv, Open, NoStream
<1> QED
  BY <1>1, TypeInit, TypeStep, RInit, RStep, WholeStep, WholeStream, PTL DEF Spec

----------------------------------------------------------------------------
(* The handshake.  While its journal is the thread's and the page found its *)
(* cursor there, a frame that fell into the handshake lies beyond what is   *)
(* to be heard before the live frames, and before all of these.             *)

Greeted == socket.phase \in {"greeted", "up", "cut"}

Beyond(n) ==
  /\ n > 0 /\ n <= head
  /\ page.tracker # None => page.tracker < n
  /\ \A i \in 1 .. Len(wire) :
       IF wire[i].word = "live" THEN wire[i].seq > n ELSE wire[i].seq < n
  /\ \A i \in 1 .. Len(socket.frames) : socket.frames[i].seq < n

\* The page's tracker is empty until it hears of the head.
Seeded ==
  /\ socket.base = base
  /\ \A i \in 1 .. Len(wire) :
       wire[i].word \in {"resumed", "replayed", "live"} /\ wire[i].of = base
  /\ page.tracker = None => wire # <<>> /\ wire[1].word = "resumed"
  /\ page.tracker # None => page.tracker <= head

Reading ==
  /\ ~Greeted => page.tracker = None
  /\ socket.phase = "read" => socket.base = base /\ ~socket.gap
  /\ Greeted => Seeded
  /\ \A n \in missed : Beyond(n)
  /\ missed # {} => socket.heard = 0
  /\ socket.phase = "greeted" =>
       socket.heard = 0 /\ \A i \in 1 .. Len(wire) : wire[i].word # "live"

HInv ==
  /\ ~Greeted => wire = <<>> /\ missed = {} /\ socket.heard = 0
  /\ socket.phase = "down" => socket.of = None
  /\ socket.of # None => socket.of <= base
  /\ socket.of = base => Reading

LEMMA HInit == Init => HInv
<1> SUFFICES ASSUME Init PROVE HInv
  OBVIOUS
<1>1. /\ base = 0 /\ wire = <<>> /\ missed = {} /\ socket.phase = "down" /\ socket.heard = 0
      /\ socket.of = None
  BY DEF Init, NoSocket
<1> QED
  BY <1>1, DeliveryAssumption DEF HInv, Greeted

\* A step of neither the journal nor the channel that leaves the tracker alone.
LEMMA HKept ==
  ASSUME HInv, UNCHANGED <<head, base, socket, wire, missed>>, page'.tracker = page.tracker
  PROVE  HInv'
BY DEF HInv, Greeted, Reading, Seeded, Beyond

\* A frame that is journaled, after the handshake or within it.
LEMMA HSent ==
  ASSUME TInv, RInv, HInv, NEW kind \in Kinds, Append1(kind), Sent(kind), page' = page
  PROVE  HInv'
<1>1. /\ head \in Nat /\ base \in Nat /\ head' = head + 1 /\ base' = base /\ socket' = socket
      /\ wire \in Seq(Message) /\ missed \subseteq Nat /\ socket \in SocketType
      /\ page \in PageType
  BY DEF TInv, TypeOK, Append1, Sent
<1>2. socket.frames \in Seq(Frame) /\ page.tracker \in Nat \cup {None}
  BY <1>1 DEF SocketType, PageType
<1> DEFINE m == [word |-> "live", seq |-> head + 1, kind |-> kind, of |-> base]
<1>3. m \in Message /\ m.word = "live" /\ m.seq = head + 1 /\ m.of = base
  BY <1>1 DEF Message
<1>4. /\ wire' = IF socket.phase = "up" THEN Append(wire, m) ELSE wire
      /\ missed' = IF socket.phase = "greeted" THEN missed \cup {head + 1} ELSE missed
  BY DEF Sent
<1> HIDE DEF m
<1>5. ~Greeted' => wire' = <<>> /\ missed' = {} /\ socket'.heard = 0
  BY <1>1, <1>4 DEF HInv, Greeted
<1>6. /\ socket'.phase = "down" => socket'.of = None
      /\ socket'.of # None => socket'.of <= base'
  BY <1>1 DEF HInv
<1>7. ASSUME socket.of = base
      PROVE  Reading'
  <2>1. Reading
    BY <1>7 DEF HInv
  <2>2. ASSUME NEW i \in 1 .. Len(wire)
        PROVE  wire[i].seq \in Nat /\ (Greeted => wire[i].seq <= head)
    <3>1. wire[i] \in Message
      BY <1>1
    <3> QED
      BY <2>1, <3>1 DEF Message, Reading, Seeded, RInv, ChannelWithin, Coherent
  <2>3. ASSUME NEW i \in 1 .. Len(socket.frames)
        PROVE  socket.frames[i].seq \in Nat /\ (Greeted => socket.frames[i].seq <= head)
    <3>1. socket.frames[i] \in Frame
      BY <1>2
    <3> QED
      BY <2>1, <3>1 DEF Frame, Reading, Seeded, RInv, ChannelWithin, Bounded
  <2>4. CASE ~Greeted
    <3>1. ~Greeted' /\ missed' = {} /\ page'.tracker = page.tracker
      BY <1>1, <1>5, <2>4 DEF Greeted
    <3>2. socket.phase # "greeted"
      BY <2>4 DEF Greeted
    <3> QED
      BY <1>1, <2>1, <2>4, <3>1, <3>2 DEF Reading
  <2>5. CASE socket.phase = "up"
    <3>1. /\ Len(wire') = Len(wire) + 1 /\ wire'[Len(wire) + 1] = m
          /\ \A j \in 1 .. Len(wire) : wire'[j] = wire[j]
      BY <1>1, <1>3, <1>4, <2>5, Appended
    <3>2. missed' = missed /\ Greeted /\ Greeted' /\ Len(wire) \in Nat
      BY <1>1, <1>4, <2>5 DEF Greeted
    <3>3. Seeded'
      <4>1. Seeded
        BY <2>1, <3>2 DEF Reading
      <4>2. \A i \in 1 .. Len(wire') :
              wire'[i].word \in {"resumed", "replayed", "live"} /\ wire'[i].of = base
        BY <1>3, <3>1, <3>2, <4>1 DEF Seeded
      <4>3. page.tracker = None => wire' # <<>> /\ wire'[1].word = "resumed"
        <5> SUFFICES ASSUME page.tracker = None
                     PROVE  wire' # <<>> /\ wire'[1].word = "resumed"
          OBVIOUS
        <5>1. wire # <<>> /\ wire[1].word = "resumed"
          BY <4>1 DEF Seeded
        <5>2. 1 \in 1 .. Len(wire)
          BY <1>1, <5>1
        <5> QED
          BY <3>1, <3>2, <5>1, <5>2
      <4>4. page.tracker # None => page.tracker <= head + 1
        BY <1>1, <1>2, <4>1 DEF Seeded
      <4> QED
        BY <1>1, <4>1, <4>2, <4>3, <4>4 DEF Seeded
    <3>4. ASSUME NEW n \in missed
          PROVE  Beyond(n)'
      <4>1. Beyond(n) /\ n \in Nat
        BY <1>1, <2>1 DEF Reading
      <4>2. \A i \in 1 .. Len(wire') :
              IF wire'[i].word = "live" THEN wire'[i].seq > n ELSE wire'[i].seq < n
        BY <1>1, <1>3, <3>1, <3>2, <4>1 DEF Beyond
      <4>3. n <= head + 1
        BY <1>1, <4>1 DEF Beyond
      <4> QED
        BY <1>1, <4>1, <4>2, <4>3 DEF Beyond
    <3> QED
      BY <1>1, <2>1, <2>5, <3>2, <3>3, <3>4 DEF Reading
  <2>6. CASE socket.phase \in {"greeted", "cut"}
    <3>1. wire' = wire /\ Greeted /\ Greeted' /\ missed' \in {missed, missed \cup {head + 1}}
      BY <1>1, <1>4, <2>6 DEF Greeted
    <3>2. Seeded'
      <4>1. page.tracker # None => page.tracker <= head + 1
        BY <1>1, <1>2, <2>1, <3>1 DEF Reading, Seeded
      <4> QED
        BY <1>1, <2>1, <3>1, <4>1 DEF Reading, Seeded
    <3>3. ASSUME NEW n \in missed
          PROVE  Beyond(n)'
      <4>1. Beyond(n) /\ n \in Nat
        BY <1>1, <2>1 DEF Reading
      <4>2. n <= head + 1
        BY <1>1, <4>1 DEF Beyond
      <4> QED
        BY <1>1, <3>1, <4>1, <4>2 DEF Beyond
    <3>4. ASSUME socket.phase = "greeted", NEW n, n = head + 1
          PROVE  Beyond(n)'
      <4>1. page.tracker # None => page.tracker < n
        BY <1>1, <1>2, <2>1, <3>1, <3>4 DEF Reading, Seeded
      <4>2. \A i \in 1 .. Len(wire) : wire[i].word # "live" /\ wire[i].seq < n
        BY <1>1, <2>1, <2>2, <3>1, <3>4 DEF Reading
      <4>3. \A i \in 1 .. Len(socket.frames) : socket.frames[i].seq < n
        BY <1>1, <2>3, <3>1, <3>4
      <4> QED
        BY <1>1, <3>1, <3>4, <4>1, <4>2, <4>3 DEF Beyond
    <3>5. \A n \in missed' : Beyond(n)'
      BY <1>4, <3>1, <3>3, <3>4
    <3>6. missed' # {} => socket.heard = 0
      BY <1>4, <2>1 DEF Reading
    <3> QED
      BY <1>1, <2>1, <3>1, <3>2, <3>5, <3>6 DEF Reading
  <2> QED
    BY <2>4, <2>5, <2>6 DEF Greeted
<1> QED
  BY <1>1, <1>5, <1>6, <1>7 DEF HInv

\* A message the page hears.
LEMMA HHear ==
  ASSUME TInv, RInv, HInv, Hear
  PROVE  HInv'
<1> DEFINE m == Head(wire)
<1>1. /\ head \in Nat /\ base \in Nat /\ wire \in Seq(Message) /\ missed \subseteq Nat
      /\ socket \in SocketType /\ page \in PageType
  BY DEF TInv, TypeOK
<1>2. /\ m \in Message /\ m = wire[1] /\ wire' = Tail(wire) /\ Len(wire) >= 1 /\ wire # <<>>
      /\ Len(wire) \in Nat /\ Len(Tail(wire)) = Len(wire) - 1
      /\ \A i \in 1 .. Len(wire) - 1 : Tail(wire)[i] = wire[i + 1]
  BY <1>1, Taken DEF Hear
<1>3. m.seq \in Nat /\ m.kind \in Kinds /\ page.tracker \in Nat \cup {None}
  BY <1>1, <1>2 DEF Message, PageType
<1>4. UNCHANGED <<head, base>> /\ missed' \subseteq missed
  BY DEF Hear, server
<1>5. /\ socket'.phase = socket.phase /\ socket'.of = socket.of /\ socket'.base = socket.base
      /\ socket'.frames = socket.frames /\ socket'.gap = socket.gap
      /\ socket'.heard = IF m.word = "live" THEN m.seq ELSE socket.heard
  <2>1. socket' = [socket EXCEPT !.heard = IF m.word = "live" THEN m.seq ELSE @]
    BY <1>1 DEF Hear, SocketType
  <2> HIDE DEF m
  <2> QED
    BY <1>1, <2>1 DEF SocketType
<1>6. Greeted /\ Greeted'
  BY <1>2, <1>5 DEF HInv, Greeted
<1>7. (socket.phase = "down" => socket.of = None)' /\ (socket.of # None => socket.of <= base)'
  BY <1>4, <1>5 DEF HInv
<1>8. ASSUME socket.of = base
      PROVE  Reading'
  <2>1. Reading /\ Seeded
    BY <1>6, <1>8 DEF HInv, Reading
  <2>2. m.word \in {"resumed", "replayed", "live"} /\ m.seq <= head
    BY <1>2, <2>1 DEF Seeded, RInv, ChannelWithin, Coherent
  <2>3. \A n \in missed : n \in Nat /\ Beyond(n) /\ IF m.word = "live" THEN m.seq > n ELSE m.seq < n
    BY <1>1, <1>2, <2>1 DEF Reading, Beyond
  <2>4. m.word # "resumed" => page.tracker # None
    BY <1>2, <2>1 DEF Seeded
\* The tracker takes no frame past a hole.
  <2>5. /\ page'.tracker \in Nat /\ page'.tracker <= head
        /\ \A n \in missed' : page'.tracker < n /\ m.word # "live"
    <3>1. CASE m.word = "resumed"
      <4>1. page' = Resumed(page, m.seq) /\ missed' = missed
        BY <3>1 DEF Hear
      <4>2. page'.tracker \in {page.tracker, m.seq} /\ (page.tracker = None => page'.tracker = m.seq)
        BY <1>1, <4>1 DEF Resumed, PageType
      <4> HIDE DEF m
      <4> QED
        BY <1>1, <1>3, <2>1, <2>2, <2>3, <3>1, <4>1, <4>2, DeliveryAssumption DEF Seeded, Beyond
    <3>2. CASE m.word \in {"replayed", "live"}
      <4> DEFINE p == Tracked(page, m.seq)
      <4>1. page' \in {Painted(p, m.kind), PaintedHistory(p, m.kind)}
        BY <3>2 DEF Hear
      <4>2. p \in PageType /\ p.tracker = (IF page.tracker = None \/ m.seq = page.tracker + 1
                                           THEN m.seq ELSE page.tracker)
        BY <1>1, <1>3, TrackedType DEF Tracked, PageType
      <4> HIDE DEF p
      <4>3. page'.tracker = p.tracker
        BY <1>3, <4>1, <4>2, SameCursorsOf DEF SameCursors
      <4>4. missed' = IF Hole(page, m.seq) THEN {} ELSE missed
        BY <3>2 DEF Hear
      <4> HIDE DEF m
      <4>5. page.tracker \in Nat /\ page.tracker <= head
        BY <1>3, <2>1, <2>4, <3>2 DEF Seeded
      <4>6. page'.tracker \in {page.tracker, m.seq}
        BY <4>2, <4>3
      <4>7. ASSUME NEW n \in missed'
            PROVE  page'.tracker < n /\ m.word # "live"
        <5>1. n \in missed /\ ~(m.seq > page.tracker + 1)
          BY <4>4, <4>5, DeliveryAssumption DEF Hole
        <5>2. page.tracker < n /\ n \in Nat
          BY <2>3, <4>5, <5>1, DeliveryAssumption DEF Beyond
        <5>3. ~(m.seq > n)
          BY <1>3, <4>5, <5>1, <5>2
        <5>4. m.word # "live" /\ m.seq < n
          BY <2>3, <5>1, <5>3
        <5> QED
          BY <4>6, <5>2, <5>4
      <4> QED
        BY <1>3, <2>2, <4>5, <4>6, <4>7
    <3> QED
      BY <2>2, <3>1, <3>2
  <2>6. ASSUME NEW i \in 1 .. Len(wire')
        PROVE  i + 1 \in 1 .. Len(wire) /\ wire'[i] = wire[i + 1]
    BY <1>2
  <2>7. Seeded'
    <3>1. page'.tracker # None
      BY <2>5, DeliveryAssumption
    <3>2. \A i \in 1 .. Len(wire') :
            wire'[i].word \in {"resumed", "replayed", "live"} /\ wire'[i].of = base
      BY <2>1, <2>6 DEF Seeded
    <3> QED
      BY <1>4, <1>5, <2>1, <2>5, <3>1, <3>2 DEF Seeded
  <2>8. ASSUME NEW n \in missed'
        PROVE  Beyond(n)'
    <3>1. Beyond(n)
      BY <1>4, <2>3
    <3>2. \A i \in 1 .. Len(wire') :
            IF wire'[i].word = "live" THEN wire'[i].seq > n ELSE wire'[i].seq < n
      BY <2>6, <3>1 DEF Beyond
    <3> QED
      BY <1>4, <1>5, <2>5, <3>1, <3>2 DEF Beyond
  <2>9. missed' # {} => socket'.heard = 0
    BY <1>4, <1>5, <2>1, <2>5 DEF Reading
  <2>10. socket'.phase = "greeted" =>
           socket'.heard = 0 /\ \A i \in 1 .. Len(wire') : wire'[i].word # "live"
    <3> SUFFICES ASSUME socket.phase = "greeted"
                 PROVE  socket'.heard = 0 /\ \A i \in 1 .. Len(wire') : wire'[i].word # "live"
      BY <1>5
    <3>1. socket.heard = 0 /\ \A i \in 1 .. Len(wire) : wire[i].word # "live"
      BY <2>1 DEF Reading
    <3> QED
      BY <1>2, <1>5, <2>6, <3>1
  <2>11. socket'.phase = "read" => socket'.base = base' /\ ~socket'.gap
    BY <1>4, <1>5, <2>1 DEF Reading
  <2> QED
    BY <1>6, <2>7, <2>8, <2>9, <2>10, <2>11 DEF Reading
<1> QED
  BY <1>4, <1>5, <1>6, <1>7, <1>8 DEF HInv

LEMMA HSocket ==
  ASSUME TInv, RInv, HInv, SocketStep
  PROVE  HInv'
<1>0. /\ socket \in SocketType /\ wire \in Seq(Message) /\ missed \subseteq Nat
      /\ page \in PageType /\ head \in Nat /\ base \in Nat
  BY DEF TInv, TypeOK
<1> USE DEF server, stream
<1>1. CASE Connect
  <2>1. /\ socket.phase = "down" /\ socket'.phase = "asked" /\ socket'.of = base
        /\ socket'.heard = 0 /\ page'.tracker = None
        /\ UNCHANGED <<base, wire, missed>>
    BY <1>0, <1>1 DEF Connect, NoSocket, PageType
  <2>2. wire = <<>> /\ missed = {}
    BY <2>1 DEF HInv, Greeted
  <2> QED
    BY <1>0, <2>1, <2>2 DEF HInv, Greeted, Reading
<1>2. CASE Welcome
  <2>1. socket'.phase = "greeted" /\ socket'.of = None /\ base' = base
    BY <1>0, <1>2 DEF Welcome, SocketType
  <2> QED
    BY <1>0, <2>1, DeliveryAssumption DEF HInv, Greeted
\* The cursor is found in the journal whose frames are read, or the page is nowhere.
<1>3. CASE ReadReplay
  <2>1. /\ socket.phase = "asked" /\ socket'.phase = "read" /\ socket'.base = base
        /\ socket'.gap = Gap(socket.from) /\ socket'.heard = socket.heard
        /\ socket'.of = IF Gap(socket.from) THEN None ELSE socket.of
        /\ UNCHANGED <<head, base, wire, missed, page>>
    BY <1>0, <1>3 DEF ReadReplay, SocketType
  <2>2. wire = <<>> /\ missed = {} /\ socket.heard = 0
    BY <2>1 DEF HInv, Greeted
  <2> QED
    BY <1>0, <2>1, <2>2, DeliveryAssumption DEF HInv, Greeted, Reading
<1>4. CASE ReadHead
  <2> DEFINE m == [word |-> IF socket.gap THEN "gap" ELSE "resumed", seq |-> head,
                   kind |-> "note", of |-> base]
  <2>1. /\ socket.phase = "read" /\ socket'.phase = "greeted"
        /\ socket'.of = socket.of /\ socket'.base = socket.base /\ socket'.heard = socket.heard
        /\ wire' = <<m>> /\ UNCHANGED <<head, base, missed, page>>
    BY <1>0, <1>4 DEF ReadHead, SocketType
  <2>2. missed = {} /\ socket.heard = 0
    BY <2>1 DEF HInv, Greeted
  <2>3. socket.of = base => Reading /\ socket.base = base /\ ~socket.gap /\ page.tracker = None
    BY <2>1 DEF HInv, Reading, Greeted
  <2>4. m.of = base /\ (~socket.gap => m.word = "resumed")
    OBVIOUS
  <2> HIDE DEF m
  <2>5. socket.of = base => \A i \in 1 .. Len(wire') : wire'[i].word = "resumed" /\ wire'[i].of = base
    BY <2>1, <2>3, <2>4
  <2>6. wire' # <<>> /\ (socket.of = base => wire'[1].word = "resumed")
    BY <2>1, <2>3, <2>4
  <2>7. socket.of = base => Reading'
    BY <2>1, <2>2, <2>3, <2>5, <2>6 DEF Reading, Seeded, Greeted
  <2> QED
    BY <2>1, <2>7 DEF HInv, Greeted
<1>5. CASE SendReplayed
  <2> DEFINE f == Head(socket.frames)
             left == Tail(socket.frames)
             m == [word |-> "replayed", seq |-> f.seq, kind |-> f.kind, of |-> socket.base]
  <2>1. socket.frames \in Seq(Frame) /\ socket.frames # <<>> /\ socket.base \in Nat
    BY <1>0, <1>5 DEF SendReplayed, SocketType
  <2>2. /\ f \in Frame /\ f = socket.frames[1] /\ Len(socket.frames) >= 1
        /\ Len(socket.frames) \in Nat /\ Len(left) = Len(socket.frames) - 1
        /\ \A i \in 1 .. Len(socket.frames) - 1 : left[i] = socket.frames[i + 1]
    BY <2>1, Taken
  <2>3. m \in Message /\ m.of = socket.base /\ m.seq = f.seq /\ m.word = "replayed"
    BY <2>1, <2>2 DEF Message, Frame
  <2>4. /\ socket'.phase = socket.phase /\ socket'.base = socket.base /\ socket'.frames = left
        /\ socket'.of = socket.of /\ socket'.heard = socket.heard
    BY <1>0, <1>5 DEF SendReplayed, SocketType
  <2>5. /\ wire' \in {wire, Append(wire, m)} /\ UNCHANGED <<head, base, missed, page>>
        /\ socket.phase = "greeted"
    BY <1>5 DEF SendReplayed
  <2> HIDE DEF f, left, m
  <2>6. ASSUME NEW i \in 1 .. Len(wire')
        PROVE  (i \in 1 .. Len(wire) /\ wire'[i] = wire[i]) \/ wire'[i] = m
    <3>1. CASE wire' = Append(wire, m)
      <4>1. /\ Len(wire') = Len(wire) + 1 /\ wire'[Len(wire) + 1] = m
            /\ \A j \in 1 .. Len(wire) : wire'[j] = wire[j]
        BY <1>0, <2>3, <3>1, Appended
      <4>2. i \in 1 .. Len(wire) \/ i = Len(wire) + 1
        BY <1>0, <4>1
      <4> QED
        BY <4>1, <4>2
    <3> QED
      BY <2>5, <3>1
  <2>7. wire # <<>> => wire' # <<>> /\ wire'[1] = wire[1]
    <3>1. CASE wire' = Append(wire, m)
      <4>1. /\ Len(wire') = Len(wire) + 1
            /\ \A j \in 1 .. Len(wire) : wire'[j] = wire[j]
        BY <1>0, <2>3, <3>1, Appended
      <4>2. wire # <<>> => 1 \in 1 .. Len(wire)
        BY <1>0
      <4> QED
        BY <1>0, <4>1, <4>2
    <3> QED
      BY <2>5, <3>1
  <2>8. ASSUME socket.of = base
        PROVE  Reading'
    <3>1. Reading /\ Seeded
      BY <2>5, <2>8 DEF HInv, Reading, Greeted
    <3>2. Seeded'
      BY <2>3, <2>4, <2>5, <2>6, <2>7, <3>1 DEF Seeded
    <3>3. ASSUME NEW n \in missed
          PROVE  Beyond(n)'
      <4>1. Beyond(n) /\ n \in Nat
        BY <1>0, <3>1 DEF Reading
      <4>2. m.seq < n
        BY <2>2, <2>3, <4>1 DEF Beyond
      <4>3. \A i \in 1 .. Len(wire') :
              IF wire'[i].word = "live" THEN wire'[i].seq > n ELSE wire'[i].seq < n
        BY <2>3, <2>6, <4>1, <4>2 DEF Beyond
      <4>4. \A i \in 1 .. Len(left) : left[i].seq < n
        <5> SUFFICES ASSUME NEW i \in 1 .. Len(left)
                     PROVE  left[i].seq < n
          OBVIOUS
        <5>1. i + 1 \in 1 .. Len(socket.frames) /\ left[i] = socket.frames[i + 1]
          BY <2>2
        <5> QED
          BY <4>1, <5>1 DEF Beyond
      <4> QED
        BY <2>4, <2>5, <4>1, <4>3, <4>4 DEF Beyond
    <3>4. socket'.heard = 0 /\ \A i \in 1 .. Len(wire') : wire'[i].word # "live"
      BY <2>3, <2>4, <2>5, <2>6, <3>1 DEF Reading
    <3>5. Greeted' /\ socket'.phase # "read"
      BY <2>4, <2>5 DEF Greeted
    <3> QED
      BY <2>5, <3>2, <3>3, <3>4, <3>5 DEF Reading
  <2> QED
    BY <2>4, <2>5, <2>8 DEF HInv, Greeted
<1>6. CASE Register \/ CutSocket
  <2>1. /\ socket.phase \in {"greeted", "up"} /\ socket'.phase \in {"up", "cut"}
        /\ socket'.of = socket.of /\ socket'.heard = socket.heard
        /\ socket'.base = socket.base /\ socket'.frames = socket.frames
        /\ UNCHANGED <<head, base, wire, missed, page>>
    BY <1>0, <1>6 DEF Register, CutSocket, SocketType
  <2>2. Greeted /\ Greeted'
    BY <2>1 DEF Greeted
  <2>3. socket.of = base => Reading'
    BY <2>1, <2>2 DEF HInv, Reading, Seeded, Beyond
  <2> QED
    BY <2>1, <2>2, <2>3 DEF HInv
<1>7. CASE LoseSocket
  <2>1. /\ socket'.phase = "down" /\ socket'.of = None /\ socket'.heard = 0
        /\ wire' = <<>> /\ missed' = {} /\ base' = base
    BY <1>7 DEF LoseSocket, CloseSocket, NoSocket
  <2> QED
    BY <1>0, <2>1, DeliveryAssumption DEF HInv
<1> QED
  BY <1>1, <1>2, <1>3, <1>4, <1>5, <1>6, <1>7, HHear DEF SocketStep

\* What the stream and the resyncs write on the page is none of the socket's, but for
\* the head a stream names, after which the page is connected in no journal.
LEMMA HStream ==
  ASSUME TInv, HInv, StreamStep
  PROVE  HInv'
<1>0. /\ sse \in StreamType /\ page \in PageType /\ socket \in SocketType /\ base \in Nat
  BY DEF TInv, TypeOK
<1> USE DEF server, channel
<1>1. CASE HearGap
  <2>1. /\ socket'.phase = socket.phase /\ socket'.heard = socket.heard /\ socket'.of = None
        /\ UNCHANGED <<base, wire, missed>>
    BY <1>0, <1>1 DEF HearGap, SocketType
  <2> QED
    BY <1>0, <2>1, DeliveryAssumption DEF HInv, Greeted
<1>2. CASE ~HearGap
  <2>1. UNCHANGED <<head, base, socket, wire, missed>>
    BY <1>2 DEF StreamStep, ServeAttach, ReplayOne, EndReplay, TakeQueued, IdleTick, LoseStream
  <2>2. SameCursors(page', page) \/ page'.tracker = page.tracker
    <3>1. CASE ServeAttach
      BY <3>1 DEF ServeAttach
    <3>2. CASE EndReplay \/ IdleTick \/ LoseStream
      <4>1. page' = page \/ Truncated(page)
        BY <3>2 DEF EndReplay, IdleTick, LoseStream
      <4> QED
        BY <1>0, <4>1, TruncatedCursors DEF SameCursors
    <3>3. CASE ReplayOne
      <4> DEFINE f == Head(sse.todo)
                 P == {page, Painted(page, f.kind), PaintedHistory(page, f.kind)}
      <4>1. sse.todo \in Seq(Frame) /\ sse.todo # <<>>
        BY <1>0, <3>3 DEF ReplayOne, StreamType
      <4>2. f \in Frame /\ f.kind \in Kinds /\ f.seq \in Nat
        <5>1. f \in Frame
          BY <4>1, Taken
        <5> QED
          BY <5>1 DEF Frame
      <4>3. page' \in P \cup {Noted(p, f) : p \in P} \/ page' \in Lowered(Painted(page, f.kind))
        BY <3>3 DEF ReplayOne
      <4> HIDE DEF f
      <4>4. \A p \in P : p \in PageType /\ p.tracker = page.tracker
        <5>1. Painted(page, f.kind) \in PageType /\ PaintedHistory(page, f.kind) \in PageType
          BY <1>0, <4>2, PaintedType
        <5>2. /\ Painted(page, f.kind).tracker = page.tracker
              /\ PaintedHistory(page, f.kind).tracker = page.tracker
          BY <1>0, <4>2, SameCursorsOf DEF SameCursors
        <5> QED
          BY <1>0, <5>1, <5>2
      <4>5. \A p \in P : Noted(p, f).tracker = page.tracker
        BY <4>4 DEF Noted, PageType
      <4>6. \A p \in Lowered(Painted(page, f.kind)) : p.tracker = page.tracker
        BY <1>0, <4>2, <4>4, SameCursorsOf DEF SameCursors
      <4>7. CASE page' \in Lowered(Painted(page, f.kind))
        BY <4>6, <4>7
      <4> HIDE DEF P
      <4>8. CASE page' \in P
        BY <4>4, <4>8
      <4>9. CASE page' \in {Noted(p, f) : p \in P}
        <5>1. PICK p \in P : page' = Noted(p, f)
          BY <4>9
        <5> QED
          BY <4>5, <5>1
      <4> QED
        BY <4>3, <4>7, <4>8, <4>9
    <3>4. CASE TakeQueued
      <4> DEFINE f == Head(sse.queue)
                 p == [page EXCEPT !.seen = f.seq]
                 q == Painted(page, f.kind)
      <4>1. sse.queue \in Seq(Frame) /\ sse.queue # <<>>
        BY <1>0, <3>4 DEF TakeQueued, StreamType
      <4>2. f \in Frame /\ f.kind \in Kinds /\ f.seq \in Nat
        <5>1. f \in Frame
          BY <4>1, Taken
        <5> QED
          BY <5>1 DEF Frame
      <4>3. \/ page' \in {page, Noted(q, f), Painted(page, "end")}
            \/ AttachJournal(p, page.gate) \/ Truncated(p)
        BY <3>4 DEF TakeQueued
      <4> HIDE DEF f
      <4>4. p \in PageType /\ p.tracker = page.tracker /\ page.gate \in BOOLEAN
        BY <1>0, <4>2 DEF PageType
      <4>5. q \in PageType /\ q.tracker = page.tracker /\ Painted(page, "end").tracker = page.tracker
        BY <1>0, <4>2, PaintedType, SameCursorsOf DEF SameCursors, Kinds
      <4> HIDE DEF p, q
      <4>6. Noted(q, f).tracker = page.tracker
        BY <4>5 DEF Noted, PageType
      <4>7. AttachJournal(p, page.gate) => page'.tracker = page.tracker
        BY <4>4, SameCursorsOf DEF AttachJournal, SameCursors, Kinds
      <4>8. Truncated(p) => page'.tracker = page.tracker
        BY <4>4, TruncatedCursors DEF SameCursors
      <4> QED
        BY <4>3, <4>5, <4>6, <4>7, <4>8
    <3> QED
      BY <1>2, <3>1, <3>2, <3>3, <3>4 DEF StreamStep
  <2> QED
    BY <2>1, <2>2, HKept DEF SameCursors
<1> QED
  BY <1>1, <1>2

LEMMA HTurn ==
  ASSUME TInv, RInv, HInv, TurnStep
  PROVE  HInv'
<1>0. page \in PageType
  BY DEF TInv, TypeOK
<1> USE DEF server, stream, channel
<1>1. CASE Send \/ Click
  <2>1. page'.tracker = page.tracker
    BY <1>0, <1>1 DEF Send, Click, PageType
  <2> QED
    BY <1>1, <2>1, HKept DEF Send, Click
<1>2. CASE Approved
  <2> DEFINE p == [page EXCEPT !.awaiting = TRUE, !.clicked = FALSE]
  <2>1. p \in PageType /\ p.tracker = page.tracker
    BY <1>0 DEF PageType
  <2>2. page' = Attached(p, TRUE)
    BY <1>2 DEF Approved
  <2> HIDE DEF p
  <2>3. page'.tracker = page.tracker
    BY <2>1, <2>2, SameCursorsOf DEF SameCursors, Kinds
  <2> QED
    BY <1>2, <2>3, HKept DEF Approved
<1>3. CASE \/ StartTurn \/ Pause \/ Approve \/ \E kind \in {"token", "note"} : Work(kind)
           \/ \E kind \in {"end", "error"} : Finish(kind)
  BY <1>3, HSent DEF StartTurn, Pause, Approve, Work, Finish, Emit, Kinds
<1> QED
  BY <1>1, <1>2, <1>3 DEF TurnStep

LEMMA HStep == TInv /\ RInv /\ HInv /\ [Next]_vars => HInv'
<1> SUFFICES ASSUME TInv, RInv, HInv, [Next]_vars PROVE HInv'
  OBVIOUS
<1>0. /\ page \in PageType /\ socket \in SocketType /\ head \in Nat /\ base \in Nat
      /\ wire \in Seq(Message) /\ missed \subseteq Nat
  BY DEF TInv, TypeOK
<1> USE DEF server, stream, channel
<1>1. CASE ResyncStep
  <2>1. PICK status \in said \cup {"idle"}, closed \in BOOLEAN : Resynced(status, closed)
    BY <1>1 DEF ResyncStep
  <2> DEFINE h == Hydrated(status)
             waiting == [h EXCEPT !.awaiting = TRUE]
  <2>2. h \in PageType /\ h.tracker = page.tracker
    BY <1>0, HydratedType, SameHydrated DEF SameCursors
  <2> HIDE DEF h
  <2>3. waiting \in PageType /\ waiting.tracker = page.tracker /\ waiting.gate \in BOOLEAN
    BY <2>2 DEF PageType
  <2>4. \A p \in Lowered(h) : p.tracker = page.tracker
    BY <2>2, SameCursorsOf DEF SameCursors, Kinds
  <2> HIDE DEF waiting
  <2>5. AttachJournal(waiting, waiting.gate) \/ page' \in {waiting} \cup Lowered(h)
    BY <2>1 DEF Resynced, waiting, h
  <2>6. AttachJournal(waiting, waiting.gate) => page'.tracker = page.tracker
    BY <2>3, SameCursorsOf DEF AttachJournal, SameCursors, Kinds
  <2>7. page'.tracker = page.tracker /\ UNCHANGED <<head, base, socket, wire, missed>>
    BY <2>1, <2>3, <2>4, <2>5, <2>6 DEF Resynced
  <2> QED
    BY <2>7, HKept
<1>2. CASE DropThread
  <2>1. base' > base /\ base' \in Nat /\ UNCHANGED <<socket, wire, missed, page>>
    BY <1>0, <1>2 DEF DropThread, Forget
  <2>2. socket.of # base' /\ (socket.of # None => socket.of <= base')
    <3>1. socket.of \in Nat \cup {None} /\ (socket.of # None => socket.of <= base)
      BY <1>0 DEF HInv, SocketType
    <3> QED
      BY <1>0, <2>1, <3>1, DeliveryAssumption
  <2> QED
    BY <2>1, <2>2 DEF HInv, Greeted
<1>3. CASE Restart
  <2>1. base' = base + head /\ head' = 0
    BY <1>3 DEF Restart, Forget
  <2>2. CASE CloseSocket
    <3>1. /\ socket'.phase = "down" /\ socket'.of = None /\ socket'.heard = 0
          /\ wire' = <<>> /\ missed' = {} /\ base' \in Nat
      BY <1>0, <2>1, <2>2 DEF CloseSocket, NoSocket
    <3> QED
      BY <3>1, DeliveryAssumption DEF HInv
  <2>3. CASE ~CloseSocket
    <3>1. /\ Greeted /\ socket'.phase = "cut" /\ socket'.of = socket.of
          /\ socket'.heard = socket.heard /\ socket'.base = socket.base
          /\ socket'.frames = socket.frames /\ UNCHANGED <<wire, missed>>
      BY <1>0, <1>3, <2>3 DEF Restart, SocketType, Greeted
    <3>2. socket'.of # None => socket'.of <= base /\ socket'.of <= base'
      BY <1>0, <2>1, <3>1 DEF HInv, SocketType
    <3>3. page'.tracker = page.tracker
      BY <1>0, <1>3, TruncatedCursors DEF Restart, SameCursors
    <3>4. ASSUME socket'.of = base'
          PROVE  Reading'
      <4>1. head = 0 /\ socket.of = base /\ base' = base /\ head' = head
        BY <1>0, <2>1, <3>1, <3>2, <3>4, DeliveryAssumption
      <4>2. Reading
        BY <4>1 DEF HInv
      <4>3. Greeted' /\ socket'.phase # "read" /\ socket'.phase # "greeted"
        BY <3>1 DEF Greeted
      <4> QED
        BY <3>1, <3>3, <4>1, <4>2, <4>3 DEF Reading, Seeded, Beyond
    <3>5. Greeted' /\ socket'.phase # "down"
      BY <3>1 DEF Greeted
    <3> QED
      BY <3>2, <3>4, <3>5 DEF HInv
  <2> QED
    BY <2>2, <2>3
<1>4. CASE UNCHANGED vars
  BY <1>4, HKept DEF vars
<1> QED
  BY <1>1, <1>2, <1>3, <1>4, HTurn, HStream, HSocket DEF Next

\* _ws_connect, _handleJournalFrame, observeSeq: a frame that falls between the head a
\* handshake names and the registration of the socket leaves a hole before the first
\* live frame, which the page hears and resyncs on.
THEOREM HolesNoticed == Spec => []HoleNoticed
<1>1. TInv /\ HInv => HoleNoticed
  <2> SUFFICES ASSUME TInv, HInv, socket.of = base, NEW n \in missed
               PROVE  socket.heard < n
    BY DEF HoleNoticed
  <2>1. Reading
    BY DEF HInv
  <2> QED
    BY <2>1 DEF Reading, Beyond
<1> QED
  BY <1>1, TypeInit, TypeStep, RInit, RStep, HInit, HStep, PTL DEF Spec

----------------------------------------------------------------------------
(* The order of a stream.                                                  *)

\* What is still to be replayed is in order and beyond what was passed on.
Ordered ==
  Open =>
    /\ \A n \in sent.passed : n <= sse.last
    /\ \A i \in 1 .. Len(sse.todo) : sse.todo[i].seq > sse.last
    /\ \A i, k \in 1 .. Len(sse.todo) : i < k => sse.todo[i].seq < sse.todo[k].seq
    /\ sse.phase = "tail" => sse.todo = <<>>

\* A stream that goes on passes nothing, or one frame beyond every earlier one.
Advances ==
  Open /\ Open' =>
    \/ sent'.passed = sent.passed /\ sse'.last = sse.last
    \/ /\ sent'.passed = sent.passed \cup {sse'.last}
       /\ \A n \in sent.passed \cup {sse.last} : n < sse'.last

PassedInOrder == [][Advances]_vars

LEMMA OrderKept ==
  ASSUME Ordered, \/ ~Open'
                  \/ /\ sse'.phase = sse.phase /\ sse'.todo = sse.todo /\ sse'.last = sse.last
                     /\ sent'.passed = sent.passed
  PROVE  Ordered' /\ Advances
BY DEF Ordered, Advances, Open

LEMMA OrderEmit ==
  ASSUME TInv, Ordered, NEW kind, Queued(kind)
  PROVE  Ordered' /\ Advances
<1>0. sse \in StreamType /\ sent \in SentType
  BY DEF TInv, TypeOK
<1>1. /\ sse'.phase = sse.phase /\ sse'.todo = sse.todo /\ sse'.last = sse.last
      /\ sent'.passed = sent.passed
  BY <1>0 DEF Queued, StreamType, SentType
<1> QED
  BY <1>1, OrderKept

LEMMA OrderAttach ==
  ASSUME TInv, ServeAttach
  PROVE  Ordered' /\ Advances
<1>0. sse \in StreamType /\ sse.cursor \in Nat /\ ~Open
  BY DEF TInv, TypeOK, StreamType, ServeAttach, Open
<1>1. CASE Gap(sse.cursor)
  BY <1>0, <1>1 DEF ServeAttach, NoStream, Open, Ordered, Advances
<1>2. CASE ~Gap(sse.cursor)
  <2> DEFINE todo == Replay(sse.cursor)
  <2>1. todo \in Seq(Frame)
    BY <1>0, ReplayIs DEF TInv
  <2>2. ASSUME NEW i \in 1 .. Len(todo) PROVE todo[i].seq = sse.cursor + i
    <3> DEFINE f == [seq |-> sse.cursor + i, kind |-> KindAt(sse.cursor + i)]
    <3>1. todo[i] = f
      BY <1>0, ReplayIs DEF TInv
    <3>2. f.seq = sse.cursor + i
      OBVIOUS
    <3> QED
      BY <3>1, <3>2
  <2> HIDE DEF todo
  <2>3. /\ sse' = [sse EXCEPT !.phase = "replay", !.todo = todo,
                              !.last = sse.cursor, !.live = turn = "running"]
        /\ sent' = [base |-> base, passed |-> {}, full |-> FALSE,
                    out |-> {n \in sse.cursor + 1 .. head : ~Replayable(KindAt(n))}]
    BY <1>2 DEF ServeAttach, todo
  <2>4. /\ sse'.phase = "replay" /\ sse'.todo = todo /\ sse'.last = sse.cursor
        /\ sent'.passed = {}
    BY <1>0, <2>3 DEF StreamType
  <2> QED
    BY <1>0, <2>1, <2>2, <2>4 DEF Ordered, Advances
<1> QED
  BY <1>1, <1>2

LEMMA OrderReplay ==
  ASSUME TInv, Ordered, ReplayOne
  PROVE  Ordered' /\ Advances
<1> DEFINE f == Head(sse.todo)
           rest == [sse EXCEPT !.todo = Tail(@),
                               !.last = IF Replayable(f.kind) THEN f.seq ELSE @]
<1>1. /\ sse \in StreamType /\ sent \in SentType
      /\ sse.phase = "replay" /\ sse.todo # <<>> /\ sse.todo \in Seq(Frame)
      /\ sse.last \in Nat /\ sent.passed \subseteq Nat /\ Open
  BY DEF TInv, TypeOK, ReplayOne, StreamType, SentType, Open
<1>2. /\ f = sse.todo[1] /\ Len(sse.todo) >= 1 /\ f \in Frame
      /\ Tail(sse.todo) \in Seq(Frame) /\ Len(Tail(sse.todo)) = Len(sse.todo) - 1
      /\ \A i \in 1 .. Len(sse.todo) - 1 : Tail(sse.todo)[i] = sse.todo[i + 1]
  BY <1>1, Taken
<1> DEFINE more == Tail(sse.todo)
<1>3. f.seq \in Nat /\ f.seq > sse.last
  BY <1>1, <1>2 DEF Ordered, Frame
<1>4. ASSUME NEW i \in 1 .. Len(more), NEW k \in 1 .. Len(more)
      PROVE  /\ more[i].seq > f.seq /\ more[i].seq > sse.last
             /\ i < k => more[i].seq < more[k].seq
  <2>1. /\ i + 1 \in 1 .. Len(sse.todo) /\ k + 1 \in 1 .. Len(sse.todo) /\ 1 \in 1 .. Len(sse.todo)
        /\ 1 < i + 1 /\ more[i] = sse.todo[i + 1] /\ more[k] = sse.todo[k + 1]
    BY <1>2
  <2>2. i < k => i + 1 < k + 1
    BY <1>2
  <2>3. more[i].seq > f.seq
    BY <1>1, <1>2, <2>1 DEF Ordered, Frame
  <2>4. more[i].seq > sse.last
    BY <1>1, <2>1 DEF Ordered
  <2>5. i < k => more[i].seq < more[k].seq
    BY <1>1, <2>1, <2>2 DEF Ordered
  <2> QED
    BY <2>3, <2>4, <2>5
<1> HIDE DEF f
<1>5. CASE ~Open'
  BY <1>5, OrderKept
<1>6. CASE Open'
  <2>1. sse' = rest /\ \/ sent' = sent /\ ~Replayable(f.kind)
                       \/ sent' = Passed(f) /\ Replayable(f.kind)
    BY <1>6 DEF ReplayOne, Open, NoStream, Replayable, f
  <2>2. /\ sse'.phase = "replay" /\ sse'.todo = more
        /\ sse'.last = IF Replayable(f.kind) THEN f.seq ELSE sse.last
    BY <1>1, <2>1 DEF StreamType
  <2> HIDE DEF more
  <2>3. CASE ~Replayable(f.kind)
    <3>1. sent' = sent /\ sse'.last = sse.last
      BY <2>1, <2>2, <2>3
    <3> QED
      BY <1>1, <1>4, <2>2, <3>1 DEF Ordered, Advances
  <2>4. CASE Replayable(f.kind)
    <3>1. sent'.passed = sent.passed \cup {f.seq} /\ sse'.last = f.seq
      BY <1>1, <2>1, <2>2, <2>4 DEF Passed, SentType
    <3>2. \A n \in sent.passed : n <= sse.last
      BY <1>1 DEF Ordered
    <3> QED
      BY <1>1, <1>3, <1>4, <2>2, <3>1, <3>2 DEF Ordered, Advances
  <2> QED
    BY <2>3, <2>4
<1> QED
  BY <1>5, <1>6

LEMMA OrderTake ==
  ASSUME TInv, Ordered, TakeQueued
  PROVE  Ordered' /\ Advances
<1> DEFINE f == Head(sse.queue)
<1>1. /\ sse \in StreamType /\ sent \in SentType
      /\ sse.phase = "tail" /\ sse.queue # <<>> /\ sse.queue \in Seq(Frame)
      /\ sse.last \in Nat /\ sent.passed \subseteq Nat /\ Open
  BY DEF TInv, TypeOK, TakeQueued, StreamType, SentType, Open
<1>2. f \in Frame /\ f.seq \in Nat
  BY <1>1, Taken DEF Frame
<1> HIDE DEF f
<1>3. CASE ~Open'
  BY <1>3, OrderKept
<1>4. CASE Open' /\ f.seq <= sse.last
  <2>1. sse' = [sse EXCEPT !.queue = Tail(@)] /\ sent' = sent
    BY <1>4 DEF TakeQueued, f
  <2>2. sse'.phase = sse.phase /\ sse'.todo = sse.todo /\ sse'.last = sse.last
    BY <1>1, <2>1 DEF StreamType
  <2> QED
    BY <2>1, <2>2, OrderKept
<1>5. CASE Open' /\ ~(f.seq <= sse.last)
  <2>1. sse' = [sse EXCEPT !.queue = Tail(@), !.last = f.seq] /\ sent' = Passed(f)
    <3>1. ~(sse' = NoStream)
      BY <1>5 DEF Open, NoStream
    <3>2. ~(sse' = [NoStream EXCEPT !.phase = "asked", !.cursor = Cursor([page EXCEPT !.seen = f.seq])])
      BY <1>5 DEF Open, NoStream
    <3> QED
      BY <1>5, <3>1, <3>2 DEF TakeQueued, AttachJournal, AttachStream, Truncated, f
  <2>2. /\ sse'.phase = "tail" /\ sse'.todo = sse.todo /\ sse'.last = f.seq
        /\ sent'.passed = sent.passed \cup {f.seq}
    BY <1>1, <2>1 DEF StreamType, Passed, SentType
  <2>3. sse.todo = <<>> /\ \A n \in sent.passed : n <= sse.last
    BY <1>1 DEF Ordered
  <2> QED
    BY <1>1, <1>2, <1>5, <2>2, <2>3 DEF Ordered, Advances
<1> QED
  BY <1>3, <1>4, <1>5

LEMMA OrderStep ==
  ASSUME TInv, Ordered, Next
  PROVE  Ordered' /\ Advances
<1>0. sse \in StreamType /\ sent \in SentType
  BY DEF TInv, TypeOK
<1>1. ASSUME UNCHANGED <<sse, sent>> \/ ~Open' PROVE Ordered' /\ Advances
  BY <1>1, OrderKept
<1> USE DEF server, stream
<1>2. CASE TurnStep
  <2>1. CASE \/ Pause \/ Approve \/ \E kind \in {"token", "note"} : Work(kind)
             \/ \E kind \in {"end", "error"} : Finish(kind)
    BY <2>1, OrderEmit DEF Pause, Approve, Work, Finish, Emit
  <2>2. CASE Send \/ StartTurn \/ Approved
    BY <1>0, <1>1, <2>2 DEF Send, StartTurn, Approved, AttachStream, NoStream, Open, StreamType
  <2>3. CASE Click
    BY <1>1, <2>3 DEF Click
  <2> QED
    BY <1>2, <2>1, <2>2, <2>3 DEF TurnStep
<1>3. CASE StreamStep
  <2>1. CASE EndReplay /\ (sse.live \/ parked)
    <3>1. /\ sse'.phase = "tail" /\ sse'.todo = <<>> /\ sse.phase = "replay" /\ sse'.last = sse.last
          /\ sent' = sent
      BY <1>0, <2>1 DEF EndReplay, StreamType
    <3> QED
      BY <3>1 DEF Ordered, Advances, Open
  <2>2. CASE EndReplay /\ ~(sse.live \/ parked)
    BY <1>1, <2>2 DEF EndReplay, Truncated, NoStream, Open
  <2>3. CASE IdleTick \/ LoseStream \/ HearGap
    <3>1. sse' = NoStream
      BY <2>3 DEF IdleTick, LoseStream, HearGap, Truncated
    <3>2. ~Open'
      BY <3>1 DEF NoStream, Open
    <3> QED
      BY <1>1, <3>2
  <2> QED
    BY <1>3, <2>1, <2>2, <2>3, OrderAttach, OrderReplay, OrderTake DEF StreamStep
<1>4. CASE SocketStep
  BY <1>1, <1>4
     DEF SocketStep, Connect, Welcome, ReadReplay, ReadHead, SendReplayed, Register,
         Hear, CutSocket, LoseSocket
<1>5. CASE ResyncStep
  <2>1. PICK status \in said \cup {"idle"}, closed \in BOOLEAN : Resynced(status, closed)
    BY <1>5 DEF ResyncStep
  <2> QED
    BY <1>1, <2>1 DEF Resynced, AttachJournal, AttachStream, NoStream, Open
<1>6. CASE DropThread
  BY <1>1, <1>6 DEF DropThread
<1>7. CASE Restart
  <2>1. ~Open'
    <3>1. CASE sse.phase = "off"
      BY <1>7, <3>1 DEF Restart, Open
    <3>2. CASE sse.phase # "off"
      BY <1>7, <3>2 DEF Restart, Truncated, NoStream, Open
    <3> QED
      BY <3>1, <3>2
  <2> QED
    BY <1>1, <2>1
<1> QED
  BY <1>2, <1>3, <1>4, <1>5, <1>6, <1>7 DEF Next

\* _sse_attach_stream: a stream passes its frames in the order of the journal and
\* none twice -- also where StreamIsWhole promises nothing, after the queue
\* overflowed or the journal was dropped and numbered anew under an open stream.
THEOREM StreamInOrder == Spec => PassedInOrder
<1>1. Init => Ordered
  BY DEF Init, Ordered, Open, NoStream
<1>2. TInv /\ Ordered /\ [Next]_vars => Ordered' /\ (Advances \/ UNCHANGED vars)
  <2>1. ASSUME Ordered, UNCHANGED vars PROVE Ordered'
    BY <2>1, OrderKept DEF vars
  <2> QED
    BY <2>1, OrderStep
<1> QED
  BY <1>1, <1>2, TypeInit, TypeStep, PTL DEF Spec, PassedInOrder
============================================================================
