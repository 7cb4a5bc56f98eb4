--------------------------- MODULE TurnDelivery ---------------------------
(***************************************************************************)
(* How the frames of a chat turn reach the page that asked.  The server    *)
(* numbers every frame of a thread in a bounded journal kept in memory     *)
(* (TurnJournal) and hands it to each stream and socket that watches the   *)
(* thread (TurnBroker).  The page has three ways to the answer: its stream *)
(* (POST /api/chat/stream, re-attached from a cursor), its WebSocket       *)
(* (resumed from a saved cursor), and resyncs, which read what the store   *)
(* holds.                                                                  *)
(*                                                                         *)
(* One thread and one page that has sent one prompt: pages do not change   *)
(* the journal, and meet only in it.  The journal starts again at 1 after  *)
(* a restart, an hour of silence or an eviction; base, a history variable, *)
(* counts the frames of the journals before and so names the journal.      *)
(*                                                                         *)
(* What the server sends on the socket is on its way until the page hears  *)
(* it.  A frame a stream passes on is heard in the same step, but for the  *)
(* word of a gap: a new stream supersedes the old one and all it had sent. *)
(* Resyncs are asked for at any time (a timer, a focus, a closed stream),  *)
(* run side by side and take as long as they like: an answer is any status *)
(* the server has had since the page last opened a stream.                 *)
(***************************************************************************)
EXTENDS Naturals, Sequences

CONSTANTS
  MaxEvents,   \* frames retained per thread
  QueueMax,    \* frames waiting in one stream's queue
  MaxReopens,  \* _REOPEN_MAX
  Earlier,     \* kinds of the frames journaled before the prompt
  SavedCursors,\* cursors the browser may hold from earlier visits
  MaxFrames,   \* bound: frames after which a turn only pauses or ends
  MaxFaults,   \* bound: how often something fails, the turn pauses or a socket opens
  None

Kinds == {"token", "note", "pause", "settled", "past", "end", "error"}

ASSUME DeliveryAssumption ==
  /\ MaxEvents \in Nat \ {0} /\ QueueMax \in Nat /\ MaxReopens \in Nat \ {0}
  /\ MaxFrames \in Nat
  /\ Earlier \in Seq(Kinds) /\ Len(Earlier) <= MaxEvents
  /\ SavedCursors \subseteq Nat
  /\ MaxFaults \in Nat
  /\ None \notin Nat

VARIABLES
  turn,     \* the prompt's turn: idle, running, paused for an approval, over
  parked,   \* the thread is in _paused_threads, which a restart empties
  journal,  \* kinds of the retained frames, oldest first
  head,     \* the highest number assigned
  base,     \* history: frames of earlier journals of this thread
  sse,      \* the page's stream
  sent,     \* history: what that stream passed on
  socket,   \* the page's WebSocket
  wire,     \* what the server sent on it and the page has not heard
  missed,   \* history: frames that fell into its handshake, and no resync since
  page,     \* what the page knows
  said,     \* answers a resync may bring
  told,     \* history: the journal whose head the page adopted from its stream
  faults    \* what is left of MaxFaults

vars == <<turn, parked, journal, head, base, sse, sent, socket, wire, missed, page, said,
          told, faults>>
server == <<turn, parked, journal, head, base>>
stream == <<sse, sent>>
channel == <<socket, wire, missed>>

Frame == [seq: Nat, kind: Kinds]

\* In phase "refused" the word of a gap is on its way, with the head in last.
StreamType == [phase: {"off", "posted", "asked", "replay", "tail", "refused"}, cursor: Nat,
               fresh: BOOLEAN, live: BOOLEAN, last: Nat,
               todo: Seq(Frame), queue: Seq(Frame)]
NoStream == [phase |-> "off", cursor |-> 0, fresh |-> FALSE, live |-> FALSE,
             last |-> 0, todo |-> <<>>, queue |-> <<>>]

SentType == [base: Nat, passed: SUBSET Nat, out: SUBSET Nat, full: BOOLEAN]
NothingSent == [base |-> 0, passed |-> {}, out |-> {}, full |-> FALSE]

\* base is the journal whose frames it replays.  History: of is the journal the page
\* connected in, None once a gap has moved its tracker; heard is the last live frame
\* the page heard on it.
SocketType == [phase: {"down", "asked", "read", "greeted", "up", "cut"}, from: Nat,
               frames: Seq(Frame), gap: BOOLEAN, base: Nat,
               of: Nat \cup {None}, heard: Nat]
NoSocket == [phase |-> "down", from |-> 0, frames |-> <<>>, gap |-> FALSE, base |-> 0,
             of |-> None, heard |-> 0]

\* The word "answer" is the catch-up of a page without a cursor.  History: of is the
\* journal the message is from.
Message == [word: {"resumed", "gap", "replayed", "live", "answer"}, seq: Nat,
            kind: Kinds, of: Nat]

\* seen is _lastSeqSeen, tracker and saved the socket's; awaiting stands for
\* _awaitingReply and _isGenerating, gate for _awaitingApproval, _serverPaused and
\* a live card; clicked: its Approve is on its way.
PageType == [seen: Nat, tracker: Nat \cup {None}, saved: Nat, reopens: 0 .. MaxReopens,
             awaiting: BOOLEAN, gate: BOOLEAN, clicked: BOOLEAN]

Statuses == {"running", "paused", "idle"}

Spend ==
  /\ faults > 0
  /\ faults' = faults - 1

----------------------------------------------------------------------------
(* The journal.                                                            *)

Live == turn \in {"running", "paused"}
Open == sse.phase \in {"replay", "tail"}
Replayable(kind) == kind \notin {"note", "error"}
Ends(kind) == kind \in {"end", "error"}

\* The kind of frame n, among those retained.
KindAt(n) == journal[Len(journal) - (head - n)]

Gap(cursor) ==
  IF journal = <<>> THEN cursor > 0
  ELSE cursor > head \/ cursor < head - Len(journal)

Slice(cursor) ==
  [i \in 1 .. head - cursor |-> [seq |-> cursor + i, kind |-> KindAt(cursor + i)]]

Replay(cursor) == IF Gap(cursor) \/ head <= cursor THEN <<>> ELSE Slice(cursor)

Append1(kind) ==
  /\ head' = head + 1
  /\ journal' = Append(IF Len(journal) < MaxEvents THEN journal ELSE Tail(journal), kind)
  /\ UNCHANGED base

Forget ==
  /\ base' = base + head
  /\ head' = 0
  /\ journal' = <<>>

----------------------------------------------------------------------------
(* What the page makes of a frame, and what is sent to it.                 *)

Painted(p, kind) ==
  CASE kind = "end" -> [p EXCEPT !.awaiting = FALSE]
    [] kind = "pause" -> [p EXCEPT !.gate = TRUE]
    [] kind = "settled" -> [p EXCEPT !.gate = FALSE]
    [] OTHER -> p

\* A pending approval among replayed frames is left to the gate registry.
PaintedHistory(p, kind) == IF kind = "pause" THEN p ELSE Painted(p, kind)

\* endTurn or a hydrate drops awaiting, if every flag behind it goes.
Lowered(p) == {p, [p EXCEPT !.awaiting = FALSE]}

\* observeSeq: the tracker does not move over a hole, the saved cursor does.
Tracked(p, n) ==
  [p EXCEPT !.tracker = IF @ = None \/ n = @ + 1 THEN n ELSE @, !.saved = n]
Hole(p, n) == p.tracker # None /\ n > p.tracker + 1

\* To a registered socket; before that, the frame falls into the handshake.
Sent(kind) ==
  /\ wire' = IF socket.phase = "up"
             THEN Append(wire, [word |-> "live", seq |-> head + 1, kind |-> kind, of |-> base])
             ELSE wire
  /\ missed' = IF socket.phase = "greeted" THEN missed \cup {head + 1} ELSE missed
  /\ UNCHANGED socket

\* Mutant: the queue is subscribed after the replay.
QueuedInTail(kind) ==
  IF sse.phase # "tail" THEN UNCHANGED <<sse, sent>>
  ELSE IF Len(sse.queue) < QueueMax
  THEN /\ sse' = [sse EXCEPT !.queue = Append(@, [seq |-> head + 1, kind |-> kind])]
       /\ UNCHANGED sent
  ELSE /\ sent' = [sent EXCEPT !.full = TRUE]
       /\ UNCHANGED sse

Queued(kind) ==
  IF ~Open THEN UNCHANGED <<sse, sent>>
  ELSE IF Len(sse.queue) < QueueMax
  THEN /\ sse' = [sse EXCEPT !.queue = Append(@, [seq |-> head + 1, kind |-> kind])]
       /\ UNCHANGED sent
  ELSE /\ sent' = [sent EXCEPT !.full = TRUE]
       /\ UNCHANGED sse

\* One lock orders the frames of a thread: journaled, queued, sent to sockets.
Emit(kind) == Append1(kind) /\ Queued(kind) /\ Sent(kind)

\* Mutant: the saved cursor and the socket's tracker keep the dead cursor.
AdoptHeadOnStreamOnly(p, n) == [p EXCEPT !.seen = n]

\* adoptHead: reading resumes at the head the server named, on every cursor.
AdoptHead(p, n) ==
  [p EXCEPT !.seen = n, !.saved = n, !.tracker = IF n = 0 THEN None ELSE n]

Cursor(p) ==
  LET read == IF p.tracker # None /\ p.tracker > 0 THEN p.tracker ELSE p.saved
  IN IF p.seen > read THEN p.seen ELSE read

MayAttach(p, waived) == waived \/ p.reopens < MaxReopens

Status(t) == IF t \in {"running", "paused"} THEN t ELSE "idle"
Becomes(t) ==
  /\ turn' = t
  /\ said' = said \cup {Status(t)}

\* A new stream supersedes the old one and the resyncs under way.
Attached(p, waived) == [p EXCEPT !.reopens = (IF waived THEN 0 ELSE @) + 1]
AttachStream(p) ==
  /\ sse' = [NoStream EXCEPT !.phase = "asked", !.cursor = Cursor(p)]
  /\ sent' = NothingSent
  /\ said' = {Status(turn)}
AttachJournal(p, waived) ==
  /\ page' = Attached(p, waived)
  /\ AttachStream(p)

\* The body ended without a terminal frame.
Truncated(p) ==
  /\ sse' = NoStream /\ sent' = NothingSent
  /\ page' \in Lowered(p)

----------------------------------------------------------------------------
(* The prompt and its turn.                                                *)

Send ==
  /\ turn = "idle" /\ sse.phase = "off"
  /\ page' = [page EXCEPT !.awaiting = TRUE, !.reopens = 0]
  /\ sse' = [NoStream EXCEPT !.phase = "posted"] /\ sent' = NothingSent
  /\ said' = {Status(turn)}
  /\ UNCHANGED <<server, channel, told, faults>>

\* The other tabs are told of the question; the turn's own stream starts after
\* that frame.
StartTurn ==
  /\ turn = "idle" /\ sse.phase = "posted"
  /\ Append1("note") /\ Sent("note")
  /\ Becomes("running")
  /\ sse' = [sse EXCEPT !.phase = "asked", !.cursor = head + 1, !.fresh = TRUE]
  /\ UNCHANGED <<parked, sent, page, told, faults>>

Work(kind) ==
  /\ turn = "running" /\ base + head < MaxFrames
  /\ Emit(kind)
  /\ UNCHANGED <<turn, parked, page, said, told, faults>>

Pause ==
  /\ turn = "running" /\ Spend
  /\ Emit("pause")
  /\ Becomes("paused") /\ parked' = TRUE
  /\ UNCHANGED <<page, told>>

Click ==
  /\ page.gate /\ ~page.clicked /\ turn = "paused"
  /\ page' = [page EXCEPT !.clicked = TRUE]
  /\ UNCHANGED <<server, stream, channel, said, told, faults>>

\* From this page or another surface.  Every page hears of the decision first; the
\* resumed turn is registered as running before the thread is no longer parked.
Approve ==
  /\ turn = "paused"
  /\ Emit("settled")
  /\ Becomes("running") /\ parked' = FALSE
  /\ UNCHANGED <<page, told, faults>>

\* _reattachAfterApproval, whatever stream the page holds.
Approved ==
  /\ page.clicked /\ turn # "paused"
  /\ page' = Attached([page EXCEPT !.awaiting = TRUE, !.clicked = FALSE], TRUE)
  /\ AttachStream(page)
  /\ UNCHANGED <<server, channel, told, faults>>

\* The reply is in the store before its last frame is journaled.
Finish(kind) ==
  /\ turn = "running"
  /\ Emit(kind)
  /\ Becomes("over") /\ parked' = FALSE
  /\ UNCHANGED <<page, told, faults>>

----------------------------------------------------------------------------
(* The stream: subscribe, replay from the cursor, then the live tail.      *)

ServeAttach ==
  /\ sse.phase = "asked"
  /\ IF Gap(sse.cursor)
     THEN /\ sse' = [NoStream EXCEPT !.phase = "refused", !.last = head]
          /\ sent' = [NothingSent EXCEPT !.base = base]
     ELSE /\ sse' = [sse EXCEPT !.phase = "replay", !.todo = Replay(sse.cursor),
                                !.last = sse.cursor, !.live = turn = "running"]
          /\ sent' = [base |-> base, passed |-> {}, full |-> FALSE,
                      out |-> {n \in sse.cursor + 1 .. head : ~Replayable(KindAt(n))}]
  /\ UNCHANGED <<server, channel, page, said, told, faults>>

\* The status "resync", with the head the server named, and the end of the body.
HearGap ==
  /\ sse.phase = "refused"
  /\ page' \in Lowered(AdoptHead(page, sse.last))
  /\ sse' = NoStream /\ sent' = NothingSent
  /\ told' = sent.base
  /\ socket' = [socket EXCEPT !.of = None]
  /\ UNCHANGED <<server, wire, missed, said, faults>>

Passed(f) == [sent EXCEPT !.passed = @ \cup {f.seq}]
Noted(p, f) == IF f.kind = "token" THEN [p EXCEPT !.seen = f.seq] ELSE p

ReplayOne ==
  /\ sse.phase = "replay" /\ sse.todo # <<>>
  /\ LET f == Head(sse.todo)
         rest == [sse EXCEPT !.todo = Tail(@), !.last = IF Replayable(f.kind) THEN f.seq ELSE @]
     IN \/ /\ ~Replayable(f.kind)
           /\ sse' = rest
           /\ UNCHANGED <<sent, page>>
        \/ /\ f.kind \in {"token", "pause", "settled"}
           /\ sse' = rest /\ sent' = Passed(f)
           /\ page' = Noted(IF sse.fresh THEN Painted(page, f.kind)
                            ELSE PaintedHistory(page, f.kind), f)
        \* The page takes a terminal frame for its own, whichever turn's it is.
        \/ /\ f.kind \in {"end", "past"}
           /\ sse' = NoStream /\ sent' = NothingSent
           /\ page' \in Lowered(Painted(page, f.kind))
  /\ UNCHANGED <<server, channel, said, told, faults>>

EndReplay ==
  /\ sse.phase = "replay" /\ sse.todo = <<>>
  /\ IF sse.live \/ parked
     THEN /\ sse' = [sse EXCEPT !.phase = "tail"]
          /\ UNCHANGED <<sent, page>>
     ELSE Truncated(page)
  /\ UNCHANGED <<server, channel, said, told, faults>>

TakeQueued ==
  /\ sse.phase = "tail" /\ sse.queue # <<>>
  /\ LET f == Head(sse.queue)
     IN IF f.seq <= sse.last
        THEN /\ sse' = [sse EXCEPT !.queue = Tail(@)]
             /\ UNCHANGED <<sent, page, said>>
        ELSE \/ /\ ~Ends(f.kind)
                /\ sse' = [sse EXCEPT !.queue = Tail(@), !.last = f.seq]
                /\ sent' = Passed(f)
                /\ page' = Noted(Painted(page, f.kind), f)
                /\ UNCHANGED said
             \/ /\ f.kind = "end"
                /\ sse' = NoStream /\ sent' = NothingSent
                /\ page' = Painted(page, "end")
                /\ UNCHANGED said
             \* A failed turn: one more attach while the reply is awaited, or a resync.
             \/ /\ f.kind = "error" /\ page.awaiting /\ MayAttach(page, page.gate)
                /\ AttachJournal([page EXCEPT !.seen = f.seq], page.gate)
             \/ /\ f.kind = "error"
                /\ Truncated([page EXCEPT !.seen = f.seq])
                /\ UNCHANGED said
  /\ UNCHANGED <<server, channel, told, faults>>

\* Ten seconds of silence.
IdleTick ==
  /\ sse.phase = "tail" /\ sse.queue = <<>> /\ turn # "running" /\ ~parked
  /\ Truncated(page)
  /\ UNCHANGED <<server, channel, said, told, faults>>

LoseStream ==
  /\ sse.phase \in {"asked", "replay", "tail", "refused"} /\ Spend
  /\ Truncated(page)
  /\ UNCHANGED <<server, channel, said, told>>

----------------------------------------------------------------------------
(* The socket: a thread reads what to replay and then, in a second look,   *)
(* the head; the page is sent the head and the frames one by one, and only *)
(* then is the socket registered for what comes.                           *)

Connect ==
  /\ socket.phase = "down" /\ Spend
  /\ socket' = [NoSocket EXCEPT !.phase = "asked", !.from = page.saved, !.of = base]
  /\ page' = [page EXCEPT !.tracker = None]
  /\ UNCHANGED <<server, stream, wire, missed, said, told>>

\* Without a cursor there is no handshake, only the last answer.
Welcome ==
  /\ socket.phase = "asked" /\ socket.from = 0
  /\ socket' = [socket EXCEPT !.phase = "greeted", !.of = None]
  /\ wire' = IF turn = "over"
             THEN <<[word |-> "answer", seq |-> 0, kind |-> "end", of |-> base]>> ELSE <<>>
  /\ UNCHANGED <<server, stream, missed, page, said, told, faults>>

ReadReplay ==
  /\ socket.phase = "asked" /\ socket.from > 0
  /\ socket' = [socket EXCEPT !.phase = "read", !.frames = Replay(socket.from),
                              !.gap = Gap(socket.from), !.base = base,
                              !.of = IF Gap(socket.from) THEN None ELSE @]
  /\ UNCHANGED <<server, stream, wire, missed, page, said, told, faults>>

ReadHead ==
  /\ socket.phase = "read"
  /\ socket' = [socket EXCEPT !.phase = "greeted"]
  /\ wire' = <<[word |-> IF socket.gap THEN "gap" ELSE "resumed", seq |-> head,
                kind |-> "note", of |-> base]>>
  /\ UNCHANGED <<server, stream, missed, page, said, told, faults>>

SendReplayed ==
  /\ socket.phase = "greeted" /\ socket.frames # <<>>
  /\ LET f == Head(socket.frames)
     IN wire' = IF Replayable(f.kind)
                THEN Append(wire, [word |-> "replayed", seq |-> f.seq, kind |-> f.kind,
                                   of |-> socket.base])
                ELSE wire
  /\ socket' = [socket EXCEPT !.frames = Tail(@)]
  /\ UNCHANGED <<server, stream, missed, page, said, told, faults>>

Register ==
  /\ socket.phase = "greeted" /\ socket.frames = <<>>
  /\ socket' = [socket EXCEPT !.phase = "up"]
  /\ UNCHANGED <<server, stream, wire, missed, page, said, told, faults>>

\* Mutant: the tracker is not seeded with the head of the handshake.
ResumedUnseeded(p, n) == [p EXCEPT !.saved = n]

\* Frames up to the head count as read, on the tracker and the saved cursor.
Resumed(p, n) ==
  [p EXCEPT !.tracker = IF @ = None \/ n > @ THEN n ELSE @, !.saved = n]

Hear ==
  /\ wire # <<>>
  /\ wire' = Tail(wire)
  /\ LET m == Head(wire)
     IN \/ /\ m.word = "resumed"
           /\ page' = Resumed(page, m.seq)
           /\ UNCHANGED <<socket, missed>>
        \/ /\ m.word = "gap"
           /\ page' = [AdoptHead(page, m.seq) EXCEPT !.seen = page.seen]
           /\ UNCHANGED <<socket, missed>>
        \/ /\ m.word = "answer"
           /\ page' = Painted(page, m.kind)
           /\ UNCHANGED <<socket, missed>>
        \* A hole makes the page resync.
        \/ /\ m.word \in {"replayed", "live"}
           /\ missed' = IF Hole(page, m.seq) THEN {} ELSE missed
           /\ page' = IF m.word = "live" THEN Painted(Tracked(page, m.seq), m.kind)
                      ELSE PaintedHistory(Tracked(page, m.seq), m.kind)
           /\ socket' = [socket EXCEPT !.heard = IF m.word = "live" THEN m.seq ELSE @]
  /\ told' = IF Head(wire).of = told THEN told ELSE None
  /\ UNCHANGED <<server, stream, said, faults>>

\* The server drops a socket that takes no frame; what it sent before may still come.
CutSocket ==
  /\ socket.phase = "up" /\ Spend
  /\ socket' = [socket EXCEPT !.phase = "cut"]
  /\ UNCHANGED <<server, stream, wire, missed, page, said, told>>

CloseSocket == socket' = NoSocket /\ wire' = <<>> /\ missed' = {}

LoseSocket ==
  /\ \/ socket.phase = "cut" /\ UNCHANGED faults
     \/ socket.phase \notin {"down", "cut"} /\ Spend
  /\ CloseSocket
  /\ UNCHANGED <<server, stream, page, said, told>>

----------------------------------------------------------------------------
(* Resyncs.                                                                *)

\* The server's word for the turn and the gate, and what the store holds.
Hydrated(status) ==
  CASE status = "paused" -> [page EXCEPT !.gate = TRUE]
    [] status = "running" -> page
    [] OTHER -> [page EXCEPT !.gate = FALSE]

\* A request that fails reads as an idle server.  After a stream that just closed, a
\* paused thread is left to a later resync.
Resynced(status, closed) ==
  LET live == status \in {"running", "paused"}
      reopen == live /\ sse.phase = "off" /\ ~(status = "paused" /\ closed)
      waiting == [Hydrated(status) EXCEPT !.awaiting = TRUE]
  IN \/ /\ reopen /\ MayAttach(waiting, waiting.gate)
        /\ AttachJournal(waiting, waiting.gate)
        /\ UNCHANGED <<server, channel, told, faults>>
     \/ /\ ~(reopen /\ MayAttach(waiting, waiting.gate))
        /\ page' \in IF reopen THEN {waiting} ELSE Lowered(Hydrated(status))
        /\ UNCHANGED <<server, stream, channel, said, told, faults>>

----------------------------------------------------------------------------
(* What empties the journal.                                               *)

\* An hour of silence, or 500 threads that are more recent.
DropThread ==
  /\ head > 0 /\ Spend
  /\ Forget
  /\ UNCHANGED <<turn, parked, stream, channel, page, said, told>>

\* The turn dies; a pending approval is durable.  What was sent on a socket before
\* may still be heard.
Restart ==
  /\ Spend
  /\ Forget
  /\ Becomes(IF turn = "running" THEN "over" ELSE turn)
  /\ parked' = FALSE
  /\ IF socket.phase \in {"greeted", "up", "cut"}
     THEN /\ socket' = [socket EXCEPT !.phase = "cut"]
          /\ UNCHANGED <<wire, missed>>
     ELSE CloseSocket
  /\ IF sse.phase = "off" THEN UNCHANGED <<stream, page>> ELSE Truncated(page)
  /\ UNCHANGED told

Init ==
  /\ turn = "idle" /\ parked = FALSE
  /\ journal \in {<<>>, Earlier} /\ head = Len(journal) /\ base = 0
  /\ sse = NoStream /\ sent = NothingSent
  /\ socket = NoSocket /\ wire = <<>> /\ missed = {}
  /\ page \in [seen: {0}, tracker: {None}, saved: SavedCursors, reopens: {0},
               awaiting: {FALSE}, gate: {FALSE}, clicked: {FALSE}]
  /\ said = {"idle"} /\ told = None /\ faults = MaxFaults

TurnStep ==
  \/ Send \/ StartTurn \/ Pause \/ Click \/ Approve \/ Approved
  \/ \E kind \in {"token", "note"} : Work(kind)
  \/ \E kind \in {"end", "error"} : Finish(kind)
StreamStep ==
  ServeAttach \/ HearGap \/ ReplayOne \/ EndReplay \/ TakeQueued \/ IdleTick \/ LoseStream
SocketStep ==
  \/ Connect \/ Welcome \/ ReadReplay \/ ReadHead \/ SendReplayed \/ Register
  \/ Hear \/ CutSocket \/ LoseSocket
ResyncStep ==
  \E status \in said \cup {"idle"}, closed \in BOOLEAN : Resynced(status, closed)

Next == TurnStep \/ StreamStep \/ SocketStep \/ ResyncStep \/ DropThread \/ Restart

Spec == Init /\ [][Next]_vars

----------------------------------------------------------------------------
(* Properties.                                                             *)

TypeOK ==
  /\ turn \in {"idle", "running", "paused", "over"} /\ parked \in BOOLEAN
  /\ journal \in Seq(Kinds) /\ Len(journal) <= MaxEvents
  /\ head \in Nat /\ base \in Nat /\ Len(journal) <= head
  /\ sse \in StreamType /\ Len(sse.queue) <= QueueMax
  /\ sent \in SentType /\ socket \in SocketType
  /\ wire \in Seq(Message) /\ missed \subseteq Nat
  /\ page \in PageType /\ said \subseteq Statuses
  /\ told \in Nat \cup {None} /\ faults \in Nat

Coming == {sse.todo[i].seq : i \in DOMAIN sse.todo}
            \cup {sse.queue[i].seq : i \in DOMAIN sse.queue}

\* _sse_attach_stream loses nothing between its replay and its live tail and
\* passes nothing twice: while its queue has not overflowed and the journal it
\* attached to is the thread's, every frame after the cursor is passed on, still
\* coming, or one a replay leaves out, and no frame passed on comes again.
StreamIsWhole ==
  Open /\ sent.base = base /\ ~sent.full =>
    /\ sse.cursor + 1 .. head \subseteq sent.passed \cup sent.out \cup Coming
    /\ sent.passed \cap Coming = {}

\* A page whose stream was told of a gap and of the head of this journal does not
\* come back with a dead cursor: for as long as the journal lives, none of the
\* cursors it keeps, on either mouth, is past its head.  The one thing that can
\* put a dead one back is a message of another journal that was still on its way
\* on the socket: told is None after it.
CursorRevived == told = base => Cursor(page) <= head

\* A frame that falls between the head a handshake names and the registration of
\* the socket is not passed over in silence: the first live frame the page hears
\* after it makes it resync, while the journal is the one the page connected in
\* and the handshake found its cursor there.
HoleNoticed == socket.of = base => \A n \in missed : socket.heard < n
============================================================================
