------------------------------- MODULE VideoPath -------------------------------
(***************************************************************************)
(* The way of the video frames from ffmpeg to the decoder of one viewer.   *)
(*                                                                         *)
(* A reader task per capture numbers the frames and broadcasts them        *)
(* (src/streamer.rs); forward_frames and write_socket (src/session.rs)     *)
(* move them to the viewer's transport.  On a WebSocket ("socket") they    *)
(* wait for the network; on a WebTransport stream ("stream") and on a      *)
(* WebRTC data channel ("channel") they go to a VideoQueue                 *)
(* (src/webtransport.rs), which keeps only the newest group of pictures,   *)
(* and a writer task drains that.  The browser (web/app.js) submits them   *)
(* to its decoder or waits for a keyframe.                                 *)
(*                                                                         *)
(* A capture that is replaced leaves a reader behind that may still find   *)
(* frames in its pipe.                                                     *)
(***************************************************************************)
EXTENDS Integers, Sequences, SequencesExt

CONSTANTS
  Vias,        \* the transports the viewer may come by
  Restarts,    \* bound: captures that replace another
  Gop,         \* frames from a keyframe to the next, at most (ffmpeg's -g)
  Ring,        \* room in the broadcast channel, 256
  Channel,     \* room in the media channel, 64, and in the hands at its ends
  MaxQueued,   \* MAX_QUEUED_VIDEO_FRAMES
  Wire,        \* frames the network holds before a writer has to wait
  SeqSpace,    \* 2^32, the sequence numbers
  Join,        \* the number the first capture has come to when the viewer comes
  MaxFrames,   \* bound: frames of each capture that the viewer is there for
  None

\* At most 60 frames a second and 4 s between keyframes make Gop <= 240, and
\* MAX_QUEUED_VIDEO_FRAMES is 300.  A viewer that is there for 2^32 frames, two
\* years, could take a number for another: the bound on the frames excludes it.
ASSUME PathAssumption ==
  /\ Vias \subseteq {"socket", "stream", "channel"}
  /\ Restarts \in Nat
  /\ {Gop, Ring, Channel, MaxQueued, Wire, SeqSpace, MaxFrames} \subseteq Nat \ {0}
  /\ Gop <= MaxQueued
  /\ Join \in Nat
  /\ MaxFrames < SeqSpace

Captures == 1..(Restarts + 1)

\* The first number of a capture's that the viewer may see.
First(c) == IF c = 1 THEN Join ELSE 0

\* `nth' is a frame's place in its group of pictures.  The packet has a flag for
\* the first place only, which is what Key reads; the code sees no more of it.
Frames ==
  {f \in [capture : Captures, number : Nat, nth : 1..Gop] :
     f.number \in First(f.capture)..(First(f.capture) + MaxFrames - 1)}
Key(f) == f.nth = 1

ASSUME NoneAssumption == None \notin Frames \cup 0..(SeqSpace - 1)

VARIABLES
  via,        \* the viewer's transport
  reader,     \* of each capture: frames read, frames since the last keyframe
              \* (with it), and whether it is still reading
  ring,       \* broadcast, not yet received by forward_frames
  channel,    \* sent to write_socket
  queue,      \* the VideoQueue: frames,
  closed,     \*   whether it is closed,
  permit,     \*   the permit of its Notify
  writer,     \* the task that drains it, and the frame in its hands
  wire,       \* in the network
  decoder,    \* the browser's: whether it is up, waitingForKeyframe, lastVideoSeq
  shown,      \* the frame last submitted to it
  disturbed   \* whether the viewer lagged behind the broadcast, or an old
              \* capture's frame was broadcast after the next one's first

vars == <<via, reader, ring, channel, queue, closed, permit, writer, wire, decoder,
          shown, disturbed>>

Seqno(f)     == f.number % SeqSpace
Newest(q, n) == IF Len(q) <= n THEN q ELSE SubSeq(q, Len(q) - n + 1, Len(q))

-----------------------------------------------------------------------------
(* The captures. *)

\* The last capture that was started.
Current == CHOOSE c \in Captures :
  reader[c].live /\ \A d \in Captures : reader[d].live => d <= c

\* A frame is read from ffmpeg, numbered and broadcast.
Read(c, key) ==
  LET r == reader[c] IN
  /\ r.live
  /\ r.number < First(c) + MaxFrames
  /\ r.number = 0 \/ r.age = Gop => key
  /\ LET nth == IF key THEN 1 ELSE r.age + 1 IN
       /\ reader' = [reader EXCEPT ![c] = [number |-> r.number + 1, age |-> nth, live |-> TRUE]]
       /\ ring' = Newest(Append(ring, [capture |-> c, number |-> r.number, nth |-> nth]), Ring)
  /\ disturbed' = (disturbed \/ Len(ring) = Ring
                             \/ \E d \in Captures : c < d /\ reader[d].number > 0)
  /\ UNCHANGED <<via, channel, queue, closed, permit, writer, wire, decoder, shown>>

\* The capture is replaced: a new reader counts from zero.
Replace ==
  /\ Current + 1 \in Captures
  /\ reader' = [reader EXCEPT ![Current + 1].live = TRUE]
  /\ UNCHANGED <<via, ring, channel, queue, closed, permit, writer, wire, decoder,
                 shown, disturbed>>

\* The reader of a replaced capture comes to the end of its pipe.
ReaderEnds(c) ==
  /\ reader[c].live
  /\ c < Current
  /\ reader' = [reader EXCEPT ![c].live = FALSE]
  /\ UNCHANGED <<via, ring, channel, queue, closed, permit, writer, wire, decoder,
                 shown, disturbed>>

-----------------------------------------------------------------------------
(* The session. *)

Forward ==
  /\ ring # <<>>
  /\ Len(channel) < Channel
  /\ channel' = Append(channel, Head(ring))
  /\ ring' = Tail(ring)
  /\ UNCHANGED <<via, reader, queue, closed, permit, writer, wire, decoder, shown,
                 disturbed>>

\* write_socket on a WebSocket waits for the network.
WriteSocket ==
  /\ via = "socket"
  /\ channel # <<>>
  /\ Len(wire) < Wire
  /\ wire' = Append(wire, Head(channel))
  /\ channel' = Tail(channel)
  /\ UNCHANGED <<via, reader, ring, queue, closed, permit, writer, decoder, shown,
                 disturbed>>

-----------------------------------------------------------------------------
(* The VideoQueue and the task that drains it. *)

Keys(q) == {i \in DOMAIN q : Key(q[i])}

\* Slip: the newest keyframe is dropped with what comes before it.
CoalescePast(q) ==
  IF Keys(q) = {} THEN q
  ELSE SubSeq(q, 1 + CHOOSE i \in Keys(q) : \A j \in Keys(q) : j <= i, Len(q))

\* Slip: from the oldest keyframe on.
CoalesceOldest(q) ==
  IF Keys(q) = {} THEN q
  ELSE SubSeq(q, CHOOSE i \in Keys(q) : \A j \in Keys(q) : i <= j, Len(q))

\* coalesce_to_latest_keyframe: from the newest keyframe on.
Coalesce(q) ==
  IF Keys(q) = {} THEN q
  ELSE SubSeq(q, CHOOSE i \in Keys(q) : \A j \in Keys(q) : j <= i, Len(q))

\* Slip: notify_waiters, which leaves no permit to a task that is about to wait.
PushToWaiters ==
  /\ via # "socket"
  /\ channel # <<>>
  /\ channel' = Tail(channel)
  /\ IF closed
     THEN UNCHANGED <<queue, permit>>
     ELSE /\ queue' = Newest(Coalesce(Append(queue, Head(channel))), MaxQueued)
          /\ permit' = (permit \/ writer.at = "waiting")
  /\ UNCHANGED <<via, reader, ring, closed, writer, wire, decoder, shown, disturbed>>

Push ==
  /\ via # "socket"
  /\ channel # <<>>
  /\ channel' = Tail(channel)
  /\ IF closed
     THEN UNCHANGED <<queue, permit>>
     ELSE queue' = Newest(Coalesce(Append(queue, Head(channel))), MaxQueued) /\ permit' = TRUE
  /\ UNCHANGED <<via, reader, ring, closed, writer, wire, decoder, shown, disturbed>>

Session == UNCHANGED <<via, reader, ring, channel, decoder, shown, disturbed>>

\* Slip: the writer is not told.
CloseUntold ==
  /\ via # "socket"
  /\ ~closed
  /\ closed' = TRUE
  /\ UNCHANGED <<queue, permit, writer, wire>> /\ Session

\* The session is over.
Close ==
  /\ via # "socket"
  /\ ~closed
  /\ closed' = TRUE
  /\ permit' = TRUE
  /\ UNCHANGED <<queue, writer, wire>> /\ Session

Writer(at) == writer' = [at |-> at, frame |-> None]

\* next() takes a frame, or finds none: it has looked, under the lock, before it
\* waits, without.
Take ==
  /\ writer.at = "looking"
  /\ queue # <<>>
  /\ writer' = [at |-> "writing", frame |-> Head(queue)]
  /\ queue' = Tail(queue)
  /\ UNCHANGED <<closed, permit, wire>> /\ Session

FindNone ==
  /\ writer.at = "looking"
  /\ queue = <<>>
  /\ Writer(IF closed THEN "done" ELSE "empty")
  /\ UNCHANGED <<queue, closed, permit, wire>> /\ Session

Await ==
  /\ writer.at = "empty"
  /\ IF permit THEN permit' = FALSE /\ Writer("looking")
               ELSE UNCHANGED permit /\ Writer("waiting")
  /\ UNCHANGED <<queue, closed, wire>> /\ Session

Wake ==
  /\ writer.at = "waiting"
  /\ permit
  /\ permit' = FALSE
  /\ Writer("looking")
  /\ UNCHANGED <<queue, closed, wire>> /\ Session

Write ==
  /\ writer.at = "writing"
  /\ Len(wire) < Wire
  /\ wire' = Append(wire, writer.frame)
  /\ Writer("looking")
  /\ UNCHANGED <<queue, closed, permit>> /\ Session

\* A data channel with too much buffered skips the frame.
Skip ==
  /\ via = "channel"
  /\ writer.at = "writing"
  /\ Len(wire) = Wire
  /\ Writer("looking")
  /\ UNCHANGED <<queue, closed, permit, wire>> /\ Session

\* The stream cannot be opened or written to, or the channel is gone: the task
\* ends, and the session goes on.
WriteFails ==
  /\ writer.at = "writing"
  /\ Writer("done")
  /\ UNCHANGED <<queue, closed, permit, wire>> /\ Session

-----------------------------------------------------------------------------
(* The browser. *)

Server == UNCHANGED <<via, reader, ring, channel, queue, closed, permit, writer, disturbed>>

\* recoverVideoDecoder: closed, until setupDecoder has configured it again.
Down == [up |-> FALSE, waiting |-> TRUE, last |-> None]

\* Slip: a gap is noted and the frame submitted all the same.
HandleBlindly(f) ==
  IF ~decoder.up \/ (decoder.waiting /\ ~Key(f))
  THEN UNCHANGED <<decoder, shown>>
  ELSE /\ decoder' = [decoder EXCEPT !.last = Seqno(f), !.waiting = FALSE]
       /\ shown' = f

Gap(f) == decoder.last # None /\ (decoder.last + 1) % SeqSpace # Seqno(f)

\* handleVideoFrame.
Handle(f) ==
  IF ~decoder.up THEN UNCHANGED <<decoder, shown>>
  ELSE IF Gap(f) /\ ~Key(f) THEN decoder' = Down /\ UNCHANGED shown
  ELSE IF decoder.waiting /\ ~Key(f)
  THEN decoder' = [decoder EXCEPT !.last = Seqno(f)] /\ UNCHANGED shown
  ELSE decoder' = [decoder EXCEPT !.last = Seqno(f), !.waiting = FALSE] /\ shown' = f

\* A data channel is not ordered.
Receive(i) ==
  /\ i \in DOMAIN wire
  /\ via # "channel" => i = 1
  /\ Handle(wire[i])
  /\ wire' = RemoveAt(wire, i)
  /\ Server

Lose(i) ==
  /\ via = "channel"
  /\ i \in DOMAIN wire
  /\ wire' = RemoveAt(wire, i)
  /\ UNCHANGED <<decoder, shown>> /\ Server

\* A frame that is too old, or comes to a decoder with too much to do, is dropped,
\* and the decoder with it.
CatchUp(i) ==
  /\ i \in DOMAIN wire
  /\ via # "channel" => i = 1
  /\ decoder.up
  /\ decoder' = Down
  /\ wire' = RemoveAt(wire, i)
  /\ UNCHANGED shown /\ Server

DecoderFails ==
  /\ decoder.up
  /\ decoder' = Down
  /\ UNCHANGED <<wire, shown>> /\ Server

SetupDecoder ==
  /\ ~decoder.up
  /\ decoder' = [Down EXCEPT !.up = TRUE]
  /\ UNCHANGED <<wire, shown>> /\ Server

-----------------------------------------------------------------------------
\* The viewer comes in the middle of a group of pictures or before the first.
Init ==
  /\ via \in Vias
  /\ \E age \in 0..Gop :
       /\ age <= Join
       /\ age = 0 <=> Join = 0
       /\ reader = [c \in Captures |->
            IF c = 1 THEN [number |-> Join, age |-> age, live |-> TRUE]
                     ELSE [number |-> 0, age |-> 0, live |-> FALSE]]
  /\ ring = <<>>
  /\ channel = <<>>
  /\ queue = <<>>
  /\ closed = FALSE
  /\ permit = FALSE
  /\ writer = [at |-> IF via = "socket" THEN "done" ELSE "looking", frame |-> None]
  /\ wire = <<>>
  /\ decoder = Down
  /\ shown = None
  /\ disturbed = FALSE

Drain == Take \/ FindNone \/ Await \/ Wake \/ Write \/ Skip \/ WriteFails

Browse ==
  \/ \E i \in 1..Wire : Receive(i) \/ Lose(i) \/ CatchUp(i)
  \/ DecoderFails \/ SetupDecoder

Next ==
  \/ \E c \in Captures : ReaderEnds(c) \/ \E key \in BOOLEAN : Read(c, key)
  \/ Replace
  \/ Forward \/ WriteSocket \/ Push \/ Close
  \/ Drain
  \/ Browse

Spec == Init /\ [][Next]_vars

\* The runtime polls the tasks and the network carries what it is given.  A
\* decoder need not come up, nor a stream fail.
Fairness ==
  /\ WF_vars(Forward) /\ WF_vars(WriteSocket) /\ WF_vars(Push)
  /\ WF_vars(Take) /\ WF_vars(FindNone) /\ WF_vars(Await) /\ WF_vars(Wake) /\ WF_vars(Write)
  /\ WF_vars(Receive(1))

FairSpec == Spec /\ Fairness

-----------------------------------------------------------------------------
(* Properties. *)

\* The state has its shape, and every queue its bound.
TypeOK ==
  /\ via \in Vias
  /\ reader \in [Captures -> [number : Nat, age : 0..Gop, live : BOOLEAN]]
  /\ \A c \in Captures : reader[c].number \in First(c)..(First(c) + MaxFrames)
  /\ ring \in Seq(Frames) /\ channel \in Seq(Frames)
  /\ queue \in Seq(Frames) /\ wire \in Seq(Frames)
  /\ Len(ring) <= Ring /\ Len(channel) <= Channel
  /\ Len(queue) <= MaxQueued /\ Len(wire) <= Wire
  /\ closed \in BOOLEAN /\ permit \in BOOLEAN /\ disturbed \in BOOLEAN
  /\ writer \in [at : {"writing"}, frame : Frames]
         \cup [at : {"looking", "empty", "waiting", "done"}, frame : {None}]
  /\ decoder \in [up : BOOLEAN, waiting : BOOLEAN, last : 0..(SeqSpace - 1) \cup {None}]
  /\ shown \in Frames \cup {None}

\* webtransport.rs, "Frames between keyframes are kept in order so the delta chain
\* stays decodable": on a reliable transport what comes to the decoder is a
\* keyframe or the frame after the one before, however slow the network is and
\* whatever the queue has dropped.
NoGap ==
  via # "channel" /\ ~disturbed /\ wire # <<>> /\ decoder.up
    => Key(wire[1]) \/ ~Gap(wire[1])

\* webtransport.rs, "Always the freshest decode point": nothing waits in front of
\* a keyframe.  A queue that saw every frame holds one group of pictures at most.
FreshestFirst ==
  /\ \A i \in Keys(queue) : i = 1
  /\ ~disturbed => Len(queue) <= Gop

\* The writer never waits for a word that was already said: a frame or the end
\* that comes between its look and its wait leaves a permit.
NoLostWakeup ==
  writer.at \in {"empty", "waiting"} /\ (queue # <<>> \/ closed) => permit

\* The decoder is never given a delta frame whose predecessor in the capture it
\* was not given, whatever is lost, skipped or comes out of order.
Submit ==
  /\ shown' \notin {shown, None}
  /\ shown # None
  /\ shown'.capture = shown.capture
Chained == Submit => Key(shown') \/ shown'.number = shown.number + 1
DecodesChain == [][Chained]_vars

\* What is queued goes out, and the writer ends with the session.
QueueDrains == queue # <<>> ~> queue = <<>> \/ writer.at = "done"
WriterEnds  == closed ~> writer.at = "done"
=============================================================================
