----------------------------- MODULE WheelQueue -----------------------------
(***************************************************************************)
(* The wheel dispatcher (src/src/wheel.rs): a session's receiver submits    *)
(* wheel events to a bounded queue, and a thread of its own takes them out  *)
(* and injects them, as clicks or as high-resolution units.  The queue's    *)
(* lock is held for no more than a step; the I/O is done without it.        *)
(* The two axes are alike and independent, and one is modelled.             *)
(***************************************************************************)
EXTENDS Integers, Sequences, SequencesExt

CONSTANTS
  Wheels,       \* what the browser may send: [by, mode, speed], by in tenths
  MaxPending,   \* MAX_PENDING
  MaxAge,       \* MAX_AGE in ticks of the model's clock
  IdleAfter,    \* WHEEL_GESTURE_IDLE_INTERVAL in ticks
  MaxEvents     \* bound of the model: events submitted in all

Modes == {"none", "pixel", "line", "page"}

ASSUME WheelAssumption ==
  /\ Wheels \subseteq [by : Int, mode : Modes, speed : 1..5]
  /\ MaxPending \in Nat \ {0} /\ MaxAge \in Nat /\ MaxEvents \in Nat
  /\ IdleAfter \in Nat /\ IdleAfter > MaxAge

VARIABLES
  events,    \* Pending.events, with the age of each
  stopped,   \* Pending.stopped
  submitter, \* the receiver: idle, between push and notify, or gone
  thread,    \* where the worker is
  carried,   \* the event the worker has taken, or <<>>
  remainder, \* WheelAccumulator: x_steps, in fractions of a step
  quiet,     \* how long ago x_last_at was, IdleAfter + 1 when it is none or long ago
  lastSign,  \* x_last_sign
  smooth,    \* the injector: high-resolution units, or clicks
  submitted, \* how many events there were
  moved,     \* how far the wheel has been turned in this gesture ...
  stepped    \* ... and how far the desktop was told, both in fractions of a step

wheelVars == <<events, stopped, submitter, thread, carried, remainder, quiet, lastSign,
               smooth, submitted, moved, stepped>>
Accumulator == <<remainder, quiet, lastSign, moved, stepped>>

-----------------------------------------------------------------------------
(* The arithmetic.  A step is Unit fractions: a click, or a high-resolution  *)
(* unit: small enough for all that follows to be whole.                       *)

Unit == IF smooth THEN 10 ELSE 240

\* WHEEL_*_STEP(S) and SMOOTH_*: fractions of a step in a tenth of the browser's unit.
Scale == IF smooth
         THEN [none |-> 120, pixel |-> 1, line |-> 40, page |-> 800]
         ELSE [none |-> 24, pixel |-> 2, line |-> 8, page |-> 192]
Limit == IF smooth THEN 120 * Unit ELSE Unit

Clamp(x, limit) == IF x > limit THEN limit ELSE IF x < -limit THEN -limit ELSE x
Sign(x) == IF x > 0 THEN 1 ELSE -1

\* wheel_speed_scale: twice the distance for units, half of it for clicks; old
\* clients, which send no mode, get neither.
Distance(e) ==
  LET d == Clamp(e.by * Scale[e.mode], Limit) * e.speed
  IN  CASE e.mode = "none" -> d
        [] e.mode # "none" /\ smooth -> 2 * d
        [] OTHER -> d \div 2

\* Towards zero: floor of what is positive, ceil of what is not.
Whole(x) == IF x >= 0 THEN x \div Unit ELSE -((-x) \div Unit)

\* Slip: a reversal keeps what the other direction has left over.
AccumulateOn(d) ==
  LET idle  == quiet > IdleAfter
      sum   == (IF idle THEN 0 ELSE remainder) + d
      whole == Whole(sum)
      steps == IF ~smooth /\ idle /\ whole = 0 THEN Sign(d) ELSE whole
      turns == idle \/ lastSign = -Sign(d)
  IN  /\ remainder' = sum - steps * Unit
      /\ quiet' = 0
      /\ lastSign' = Sign(d)
      /\ moved' = (IF turns THEN 0 ELSE moved) + d
      /\ stepped' = (IF turns THEN 0 ELSE stepped) + steps * Unit

\* accumulate_wheel_steps.  A gesture ends with a pause or a reversal.  The first
\* event of one that follows a pause makes a click at once, on credit.
Accumulate(d) ==
  LET idle  == quiet > IdleAfter
      turns == idle \/ lastSign = -Sign(d)
      sum   == (IF turns THEN 0 ELSE remainder) + d
      whole == Whole(sum)
      steps == IF ~smooth /\ idle /\ whole = 0 THEN Sign(d) ELSE whole
  IN  /\ remainder' = sum - steps * Unit
      /\ quiet' = 0
      /\ lastSign' = Sign(d)
      /\ moved' = (IF turns THEN 0 ELSE moved) + d
      /\ stepped' = (IF turns THEN 0 ELSE stepped) + steps * Unit

-----------------------------------------------------------------------------
(* The session's side. *)

\* Pending::push: from the front go the events that are too old and those that
\* there is no room for.
Room(q) ==
  LET fresh == SelectInSeq(q, LAMBDA e : e.age <= MaxAge)
      kept  == IF fresh = 0 THEN <<>> ELSE SubSeq(q, fresh, Len(q))
  IN  IF Len(kept) < MaxPending THEN kept
      ELSE SubSeq(kept, Len(kept) - MaxPending + 2, Len(kept))

PushEvent(w) ==
  /\ submitter = "idle"
  /\ submitted < MaxEvents
  /\ submitted' = submitted + 1
  /\ events' = Append(Room(events), [by |-> w.by, mode |-> w.mode, speed |-> w.speed, age |-> 0])
  /\ submitter' = "notify"
  /\ UNCHANGED <<stopped, thread, carried, smooth>> /\ UNCHANGED Accumulator

NotifyWorker ==
  /\ submitter = "notify"
  /\ submitter' = "idle"
  /\ thread' = IF thread = "waiting" THEN "look" ELSE thread
  /\ UNCHANGED <<events, stopped, carried, smooth, submitted>> /\ UNCHANGED Accumulator

\* clear: reset_input, and the end of handle_client.
ClearEvents ==
  /\ submitter = "idle" /\ events # <<>>
  /\ events' = <<>>
  /\ UNCHANGED <<stopped, submitter, thread, carried, smooth, submitted>> /\ UNCHANGED Accumulator

\* Slip: the worker is not told.
DropQuietly ==
  /\ submitter = "idle"
  /\ submitter' = "gone"
  /\ stopped' = TRUE
  /\ events' = <<>>
  /\ UNCHANGED <<thread, carried, smooth, submitted>> /\ UNCHANGED Accumulator

\* Drop: at the end of handle_client, or when its task is aborted.
DropDispatcher ==
  /\ submitter = "idle"
  /\ submitter' = "gone"
  /\ stopped' = TRUE
  /\ events' = <<>>
  /\ thread' = IF thread = "waiting" THEN "look" ELSE thread
  /\ UNCHANGED <<carried, smooth, submitted>> /\ UNCHANGED Accumulator

-----------------------------------------------------------------------------
(* The worker. *)

\* Without a runtime the thread ends before its loop.
StartWorker ==
  /\ thread = "start"
  /\ thread' \in {"look", "ended"}
  /\ UNCHANGED <<events, stopped, submitter, carried, smooth, submitted>> /\ UNCHANGED Accumulator

\* Under the lock, before the wait and after it.
LookForEvent ==
  /\ thread = "look"
  /\ IF stopped THEN thread' = "ended" /\ UNCHANGED <<events, carried>>
     ELSE IF events = <<>> THEN thread' = "waiting" /\ UNCHANGED <<events, carried>>
     ELSE /\ carried' = <<Head(events)>>
          /\ events' = Tail(events)
          /\ thread' = "taken"
  /\ UNCHANGED <<stopped, submitter, smooth, submitted>> /\ UNCHANGED Accumulator

\* A Condvar may wake without a reason.
SpuriousWake ==
  /\ thread = "waiting"
  /\ thread' = "look"
  /\ UNCHANGED <<events, stopped, submitter, carried, smooth, submitted>> /\ UNCHANGED Accumulator

\* The age is read again, since the worker may have been away for long.
InjectEvent ==
  /\ thread = "taken"
  /\ IF carried[1].age > MaxAge \/ Distance(carried[1]) = 0
     THEN UNCHANGED Accumulator
     ELSE Accumulate(Distance(carried[1]))
  /\ thread' = IF carried[1].age > MaxAge THEN "look" ELSE "injecting"
  /\ carried' = <<>>
  /\ UNCHANGED <<events, stopped, submitter, smooth, submitted>>

\* emit_scroll or apply_wheel_clicks returns; an error is only logged.
Injected ==
  /\ thread = "injecting"
  /\ thread' = "look"
  /\ UNCHANGED <<events, stopped, submitter, carried, smooth, submitted>> /\ UNCHANGED Accumulator

-----------------------------------------------------------------------------

Older(e) == [e EXCEPT !.age = IF @ > MaxAge THEN @ ELSE @ + 1]
AgeAll(q) == [i \in DOMAIN q |-> Older(q[i])]
Passes ==
  /\ AgeAll(events) # events \/ AgeAll(carried) # carried \/ quiet <= IdleAfter
  /\ events' = AgeAll(events) /\ carried' = AgeAll(carried)
  /\ quiet' = IF quiet > IdleAfter THEN quiet ELSE quiet + 1
  /\ UNCHANGED <<stopped, submitter, thread, remainder, lastSign, smooth, submitted, moved, stepped>>

WheelInit ==
  /\ events = <<>> /\ carried = <<>>
  /\ stopped = FALSE
  /\ submitter = "idle"
  /\ thread = "start"
  /\ remainder = 0 /\ quiet = IdleAfter + 1 /\ lastSign = 0
  /\ smooth \in BOOLEAN
  /\ submitted = 0 /\ moved = 0 /\ stepped = 0

WheelNext ==
  \/ \E w \in Wheels : PushEvent(w)
  \/ NotifyWorker
  \/ ClearEvents
  \/ DropDispatcher
  \/ StartWorker
  \/ LookForEvent
  \/ SpuriousWake
  \/ InjectEvent
  \/ Injected
  \/ Passes

WheelSpec == WheelInit /\ [][WheelNext]_wheelVars

-----------------------------------------------------------------------------
(* Properties. *)

\* The state has its shape.
WheelTypeOK ==
  /\ events \in Seq([by : Int, mode : Modes, speed : 1..5, age : 0..MaxAge + 1])
  /\ Len(events) <= MaxPending
  /\ carried \in {<<>>} \cup Seq([by : Int, mode : Modes, speed : 1..5, age : 0..MaxAge + 1])
  /\ thread \in {"start", "look", "waiting", "taken", "injecting", "ended"}
  /\ carried # <<>> <=> thread = "taken"
  /\ submitter \in {"idle", "notify", "gone"}
  /\ stopped \in BOOLEAN /\ smooth \in BOOLEAN
  /\ remainder \in Int /\ quiet \in 0..IdleAfter + 1 /\ lastSign \in -1..1
  /\ submitted \in 0..MaxEvents /\ moved \in Int /\ stepped \in Int

\* The worker is not left waiting: not with an event in the queue, unless the call
\* that wakes it is under way, and not once the dispatcher is dropped.  push and
\* notify_one are two steps, and drop clears the queue it would have to look at.
WheelIsAwake == thread = "waiting" => submitter # "gone" /\ (events = <<>> \/ submitter = "notify")

\* Over a gesture, which is what a pause or a reversal ends, the desktop is scrolled
\* as far as the wheel was turned, give or take less than a step and whatever the
\* first click has borrowed, and never the other way.
StepsFollowWheel ==
  /\ stepped - moved < Unit /\ moved - stepped < Unit
  /\ moved > 0 => stepped >= 0
  /\ moved < 0 => stepped <= 0
=============================================================================
