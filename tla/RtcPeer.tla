-------------------------------- MODULE RtcPeer --------------------------------
(***************************************************************************)
(* How the session behind one WebRTC peer connection ends (src/rtc.rs).    *)
(*                                                                         *)
(* The browser may vanish without a word.  What notices is the watchdog    *)
(* over the control channel's keepalives, which speaks once, and the peer  *)
(* connection's state, which need not.  Both speak through one             *)
(* tokio::sync::Notify, `shutdown'.  The session's inbound stream awaits   *)
(* it beside its messages, and in media mode with a native audio track so  *)
(* does the task that feeds the track from an ffmpeg of its own.           *)
(*                                                                         *)
(* notify_one wakes the waiter that has waited longest, or leaves a permit *)
(* when nobody waits.  A waiter that is dropped after it was woken, since  *)
(* select! took its other branch, passes the word on.                      *)
(*                                                                         *)
(* The control channel is created by the browser; CtrlDcSlot hands it to   *)
(* the task that writes to it.                                             *)
(***************************************************************************)
EXTENDS Naturals, Sequences, SequencesExt

CONSTANT
  InCap       \* INBOUND_CHANNEL_CAPACITY

ASSUME RtcAssumption == InCap \in Nat \ {0}

VARIABLES
  client,     \* whether the browser is "there" or "gone"
  ice,        \* the peer connection's state
  watchdog,   \* "watching", or "done" once it has spoken
  inbound,    \* messages on their way to the session
  session,    \* the reader of the inbound stream
  feed,       \* the audio track's task, "none" without one
  permit,     \* of the Notify,
  waiters,    \*   who awaits it, the longest first,
  woken,      \*   and who was woken but has not run since
  slot,       \* whether the control channel is attached
  ctrl,       \* the task that writes to it
  told        \* whether attach was heard by a registered ctrl

rtcVars == <<client, ice, watchdog, inbound, session, feed, permit, waiters, woken, slot, ctrl, told>>

Notified == <<permit, waiters, woken>>
Slot     == <<slot, ctrl, told>>

-----------------------------------------------------------------------------
(* The Notify. *)

NotifyOne ==
  IF waiters = <<>>
  THEN permit' = TRUE /\ UNCHANGED <<waiters, woken>>
  ELSE /\ woken' = woken \cup {Head(waiters)}
       /\ waiters' = Tail(waiters)
       /\ UNCHANGED permit

\* A waiter that goes without the word: out of the line, or the word goes on.
Drop(w) ==
  LET line == RemoveFirst(waiters, w) IN
  IF w \in woken
  THEN IF line = <<>>
       THEN permit' = TRUE /\ woken' = woken \ {w} /\ waiters' = line
       ELSE /\ woken' = (woken \ {w}) \cup {Head(line)}
            /\ waiters' = Tail(line)
            /\ UNCHANGED permit
  ELSE waiters' = line /\ UNCHANGED <<permit, woken>>

\* Slip: a word that comes to nobody is lost.
NotifyWaiters ==
  /\ woken' = woken \cup ToSet(waiters)
  /\ waiters' = <<>>
  /\ UNCHANGED permit

\* Hears(w): w takes the permit when it begins to wait, or was woken.
Hears(w) ==
  \/ w \in woken /\ woken' = woken \ {w} /\ UNCHANGED <<permit, waiters>>
  \/ /\ permit
     /\ w \notin woken
     /\ w \notin ToSet(waiters)
     /\ permit' = FALSE
     /\ UNCHANGED <<waiters, woken>>

Waits(w) ==
  /\ ~permit
  /\ w \notin woken \cup ToSet(waiters)
  /\ waiters' = Append(waiters, w)
  /\ UNCHANGED <<permit, woken>>

-----------------------------------------------------------------------------
(* The browser and the peer connection. *)

Send(m) ==
  /\ slot
  /\ client = "there"
  /\ Len(inbound) < InCap
  /\ inbound' = Append(inbound, m)
  /\ UNCHANGED <<client, ice, watchdog, session, feed, slot, ctrl, told>> /\ UNCHANGED Notified

\* The control channel closes: try_send, which does nothing when there is no room.
CtrlCloses ==
  /\ slot
  /\ client = "there"
  /\ client' = "gone"
  /\ inbound' = IF Len(inbound) < InCap THEN Append(inbound, "close") ELSE inbound
  /\ UNCHANGED <<ice, watchdog, session, feed>> /\ UNCHANGED Notified /\ UNCHANGED Slot

Vanish ==
  /\ client = "there"
  /\ client' = "gone"
  /\ UNCHANGED <<ice, watchdog, inbound, session, feed>> /\ UNCHANGED Notified /\ UNCHANGED Slot

\* The peer connection's state changes, and its handler speaks.
StateChanges(from, to) ==
  /\ ice \in from
  /\ ice' = to
  /\ IF to = "connected" THEN UNCHANGED Notified ELSE NotifyOne

IceTurns(from, to) ==
  /\ StateChanges(from, to)
  /\ UNCHANGED <<client, watchdog, inbound, session, feed>> /\ UNCHANGED Slot

IceMoves ==
  \/ IceTurns({"connected"}, "disconnected")
  \/ IceTurns({"disconnected"}, "connected")
  \/ IceTurns({"connected", "disconnected"}, "failed")

\* Slip: a word only for who waits.
WatchdogCalls ==
  /\ watchdog = "watching"
  /\ client = "gone"
  /\ watchdog' = "done"
  /\ NotifyWaiters
  /\ UNCHANGED <<client, ice, inbound, session, feed>> /\ UNCHANGED Slot

\* No message for CTRL_IDLE_TIMEOUT.
Watchdog ==
  /\ watchdog = "watching"
  /\ client = "gone"
  /\ watchdog' = "done"
  /\ NotifyOne
  /\ UNCHANGED <<client, ice, inbound, session, feed>> /\ UNCHANGED Slot

-----------------------------------------------------------------------------
(* The session: "ready" to poll its stream, "listening", in a message ("busy"),  *)
(* at its end ("closing"), and "over".                                           *)

Peer == UNCHANGED <<client, ice, watchdog>>

Listen ==
  /\ session = "ready"
  /\ inbound = <<>>
  /\ Waits("session")
  /\ session' = "listening"
  /\ UNCHANGED <<inbound, feed>> /\ Peer /\ UNCHANGED Slot

TakeMessage ==
  /\ session \in {"ready", "listening"}
  /\ inbound # <<>>
  /\ inbound' = Tail(inbound)
  /\ session' = IF Head(inbound) = "close" THEN "closing" ELSE "busy"
  /\ Drop("session")
  /\ UNCHANGED feed /\ Peer /\ UNCHANGED Slot

HearShutdown ==
  /\ session \in {"ready", "listening"}
  /\ Hears("session")
  /\ session' = "closing"
  /\ UNCHANGED <<inbound, feed>> /\ Peer /\ UNCHANGED Slot

Handled ==
  /\ session = "busy"
  /\ session' = "ready"
  /\ UNCHANGED <<inbound, feed>> /\ UNCHANGED Notified /\ Peer /\ UNCHANGED Slot

\* An error, or the client closed from another browser.
Quit ==
  /\ session \in {"ready", "listening", "busy"}
  /\ session' = "closing"
  /\ Drop("session")
  /\ UNCHANGED <<inbound, feed>> /\ Peer /\ UNCHANGED Slot

\* Slip: the peer connection is left open.
SessionEndsOpen ==
  /\ session = "closing"
  /\ session' = "over"
  /\ UNCHANGED <<inbound, feed>> /\ UNCHANGED Notified /\ Peer /\ UNCHANGED Slot

\* handle_socket returns and the detached task closes the peer connection; the
\* lease goes with the task.
PeerSessionEnds ==
  /\ session = "closing"
  /\ session' = "over"
  /\ StateChanges({"connected", "disconnected", "failed"}, "closed")
  /\ UNCHANGED <<client, watchdog, inbound, feed>> /\ UNCHANGED Slot

-----------------------------------------------------------------------------
(* The audio track's task: its ffmpeg, then the same choice over and over. *)

Feed(to) == feed' = to /\ UNCHANGED <<inbound, session>> /\ Peer /\ UNCHANGED Slot

FeedStarts ==
  /\ feed = "starting"
  /\ Feed("ready") \/ Feed("over")
  /\ UNCHANGED Notified

FeedWaits ==
  /\ feed = "ready"
  /\ Waits("feed")
  /\ Feed("reading")

FeedReads ==
  /\ feed \in {"ready", "reading"}
  /\ Drop("feed")
  /\ Feed("ready") \/ Feed("over")

FeedHears ==
  /\ feed \in {"ready", "reading"}
  /\ Hears("feed")
  /\ Feed("over")

-----------------------------------------------------------------------------
(* The control channel's slot.  The writer registers before it looks. *)

Ctrl(from, to) ==
  /\ ctrl = from
  /\ ctrl' = to
  /\ UNCHANGED <<slot, inbound, session, feed>> /\ UNCHANGED Notified /\ Peer

\* attach: notify_waiters.
Attach ==
  /\ ~slot
  /\ client = "there"
  /\ slot' = TRUE
  /\ told' = (ctrl \in {"registered", "waiting"})
  /\ UNCHANGED <<ctrl, inbound, session, feed>> /\ UNCHANGED Notified /\ Peer

Enlist == Ctrl("looking", "registered") /\ UNCHANGED told

\* Slip: the writer waits without a second look.
LookAway == Ctrl("registered", "waiting") /\ UNCHANGED told

Look ==
  \/ slot /\ Ctrl("registered", "writing") /\ UNCHANGED told
  \/ ~slot /\ Ctrl("registered", "waiting") /\ UNCHANGED told

CtrlWakes == told /\ Ctrl("waiting", "looking") /\ told' = FALSE

\* The session's end of the queue is gone, or the channel is.
CtrlEnds ==
  /\ session = "over" \/ client = "gone"
  /\ Ctrl("writing", "over")
  /\ UNCHANGED told

-----------------------------------------------------------------------------
RtcInit ==
  /\ client = "there"
  /\ ice = "connected"
  /\ watchdog = "watching"
  /\ inbound = <<>>
  /\ session = "ready"
  /\ feed \in {"none", "starting"}
  /\ permit = FALSE
  /\ waiters = <<>>
  /\ woken = {}
  /\ slot = FALSE
  /\ ctrl = "looking"
  /\ told = FALSE

RtcNext ==
  \/ Send("message") \/ Send("close") \/ CtrlCloses \/ Vanish
  \/ IceMoves \/ Watchdog
  \/ Listen \/ TakeMessage \/ HearShutdown \/ Handled \/ Quit \/ PeerSessionEnds
  \/ FeedStarts \/ FeedWaits \/ FeedReads \/ FeedHears
  \/ Attach \/ Enlist \/ Look \/ CtrlWakes \/ CtrlEnds

RtcSpec == RtcInit /\ [][RtcNext]_rtcVars

\* The runtime polls what can go on, select! picks among its ready branches at
\* random, messages get handled, and the watchdog's timer fires.  The peer
\* connection's state need not change: CTRL_IDLE_TIMEOUT's comment says so.
RtcFairness ==
  /\ WF_rtcVars(Watchdog)
  /\ WF_rtcVars(Listen) /\ WF_rtcVars(TakeMessage)
  /\ SF_rtcVars(HearShutdown) /\ WF_rtcVars(Handled)
  /\ WF_rtcVars(PeerSessionEnds)
  /\ WF_rtcVars(FeedStarts) /\ WF_rtcVars(FeedWaits) /\ SF_rtcVars(FeedHears)
  /\ WF_rtcVars(Enlist) /\ WF_rtcVars(Look) /\ WF_rtcVars(CtrlWakes)

RtcFairSpec == RtcSpec /\ RtcFairness

-----------------------------------------------------------------------------
(* Properties. *)

\* The state has its shape; who waits is one that does, and waits once.
RtcTypeOK ==
  /\ client \in {"there", "gone"}
  /\ ice \in {"connected", "disconnected", "failed", "closed"}
  /\ watchdog \in {"watching", "done"}
  /\ inbound \in Seq({"message", "close"}) /\ Len(inbound) <= InCap
  /\ session \in {"ready", "listening", "busy", "closing", "over"}
  /\ feed \in {"none", "starting", "ready", "reading", "over"}
  /\ permit \in BOOLEAN
  /\ waiters \in {<<>>, <<"session">>, <<"feed">>, <<"session", "feed">>, <<"feed", "session">>}
  /\ woken \subseteq {"session", "feed"}
  /\ slot \in BOOLEAN /\ told \in BOOLEAN
  /\ ctrl \in {"looking", "registered", "waiting", "writing", "over"}

\* rtc.rs, "`notify_one` stores a permit if the stream isn't awaiting at this
\* instant, so the signal can't be missed": without an audio track the watchdog's
\* word is kept until the session ends, whatever it is doing when it is spoken.
WordKept ==
  watchdog = "done" /\ feed = "none"
    => permit \/ "session" \in woken \/ session \in {"closing", "over"}

\* A session without an audio track ends once the browser is gone.
DataSessionEnds == client = "gone" /\ feed = "none" ~> session = "over"

\* rtc.rs, "guaranteeing the session loops terminate even if the browser vanished
\* without a clean close": so does any session.
SessionAlwaysEnds == client = "gone" ~> session = "over"

\* The audio track's task, and its ffmpeg, end with the session.
FeedEnds == session = "over" ~> feed \in {"none", "over"}

\* Both: what a browser that is gone has left behind ends.
PeerEnds == DataSessionEnds /\ FeedEnds

\* The writer gets the control channel whenever it comes.
ChannelFound == slot ~> ctrl \in {"writing", "over"}
=============================================================================
