---------------------------- MODULE Desktop_proofs ----------------------------
(***************************************************************************)
(* What is proved of the parts that stand around the sessions: WheelQueue, *)
(* AudioDevices, Clipboard and AuthTracker, for any number of events,      *)
(* switches, writes and wrong passwords; and then what is proved of        *)
(* MCDesktop, which puts these parts, those of Uplink_proofs and the parsers*)
(* of AnnexB_proofs beside each other.                                     *)
(***************************************************************************)
EXTENDS MCDesktop, Uplink_proofs, AnnexB_proofs

-----------------------------------------------------------------------------
(* The wheel.                                                              *)

\* Truncation toward zero leaves less than a unit, on the side of the number.
LEMMA WholeIs ==
  ASSUME NEW x \in Int, smooth \in BOOLEAN
  PROVE  /\ Whole(x) \in Int
         /\ x - Whole(x) * Unit < Unit /\ Whole(x) * Unit - x < Unit
         /\ x > 0 - Unit => Whole(x) >= 0
         /\ x < Unit => Whole(x) <= 0
<1>1. CASE smooth
  BY <1>1 DEF Whole, Unit
<1>2. CASE ~smooth
  BY <1>2 DEF Whole, Unit
<1> QED
  BY <1>1, <1>2

\* The scaled, limited and sped-up distance is a whole number of parts.
LEMMA DistanceIs ==
  ASSUME NEW e, e.by \in Int, e.mode \in Modes, e.speed \in 1..5, smooth \in BOOLEAN
  PROVE  Distance(e) \in Int
<1>1. Scale[e.mode] \in Int
  BY DEF Scale, Modes
<1>2. Limit \in Int
  BY DEF Limit, Unit
<1>3. \A x, y \in Int : Clamp(x, y) \in Int
  BY DEF Clamp
<1>4. \A x, y \in Int : x * y \in Int
  OBVIOUS
<1>5. Clamp(e.by * Scale[e.mode], Limit) * e.speed \in Int
  <2>1. e.by * Scale[e.mode] \in Int
    BY <1>1, <1>4
  <2>2. Clamp(e.by * Scale[e.mode], Limit) \in Int
    BY <1>2, <1>3, <2>1
  <2>3. e.speed \in Int
    OBVIOUS
  <2> QED
    BY <1>4, <2>2, <2>3
<1> DEFINE d == Clamp(e.by * Scale[e.mode], Limit) * e.speed
<1>6. Distance(e) = CASE e.mode = "none" -> d
        [] e.mode # "none" /\ smooth -> 2 * d
        [] OTHER -> d \div 2
  BY DEF Distance
<1>7. d \in Int
  BY <1>5
<1> HIDE DEF d
<1>8. 2 * d \in Int /\ d \div 2 \in Int
  BY <1>7
<1> QED
  BY <1>6, <1>7, <1>8

\* Where the wheel is in its gesture, and the desktop: apart by what is left over,
\* and on one side.
Follows ==
  /\ smooth \in BOOLEAN /\ remainder \in Int /\ moved \in Int /\ stepped \in Int /\ quiet \in Int
  /\ remainder = moved - stepped
  /\ remainder < Unit /\ -remainder < Unit
  /\ \/ lastSign = 1 /\ moved > 0 /\ stepped >= 0
     \/ lastSign = -1 /\ moved < 0 /\ stepped <= 0
     \/ lastSign = 0 /\ moved = 0 /\ stepped = 0

\* A click, on credit or not, leaves less than one over.
LEMMA AccumulateFollows ==
  ASSUME Follows, NEW d \in Int, d # 0, Accumulate(d), smooth' = smooth
  PROVE  Follows'
<1> DEFINE idle  == quiet > IdleAfter
           turns == idle \/ lastSign = -Sign(d)
           sum   == (IF turns THEN 0 ELSE remainder) + d
           steps == IF ~smooth /\ idle /\ Whole(sum) = 0 THEN Sign(d) ELSE Whole(sum)
<1>1. /\ remainder' = sum - steps * Unit
      /\ quiet' = 0
      /\ lastSign' = Sign(d)
      /\ moved' = (IF turns THEN 0 ELSE moved) + d
      /\ stepped' = (IF turns THEN 0 ELSE stepped) + steps * Unit
  BY DEF Accumulate
<1>2. sum \in Int /\ turns \in BOOLEAN /\ idle \in BOOLEAN
  BY DEF Follows
<1>3. Unit \in {10, 240} /\ Unit' = Unit
  BY DEF Unit
<1>4. /\ Whole(sum) \in Int
      /\ sum - Whole(sum) * Unit < Unit /\ Whole(sum) * Unit - sum < Unit
      /\ sum > 0 - Unit => Whole(sum) >= 0
      /\ sum < Unit => Whole(sum) <= 0
  BY <1>2, WholeIs DEF Follows
<1>5. Sign(d) = (IF d > 0 THEN 1 ELSE -1)
  BY DEF Sign
<1>6. turns => sum = d
  BY DEF Follows
<1>7. idle => turns
  OBVIOUS
<1>8. ~turns => sum = remainder + d /\ lastSign # -Sign(d)
  OBVIOUS
<1> HIDE DEF sum, idle, turns
<1>9. steps \in Int /\ sum - steps * Unit < Unit /\ steps * Unit - sum < Unit
  <2>1. CASE ~smooth /\ idle /\ Whole(sum) = 0
    BY <1>2, <1>3, <1>4, <1>5, <1>6, <1>7, <2>1
  <2>2. CASE ~(~smooth /\ idle /\ Whole(sum) = 0)
    BY <1>4, <2>2
  <2> QED
    BY <2>1, <2>2
<1>10. (d > 0 => steps >= 0) /\ (d < 0 => steps <= 0)
  <2>1. d > 0 => sum > 0 - Unit
    BY <1>3, <1>6, <1>8 DEF Follows
  <2>2. d < 0 => sum < Unit
    BY <1>3, <1>6, <1>8 DEF Follows
  <2> QED
    BY <1>4, <1>5, <2>1, <2>2
<1> HIDE DEF steps
<1> DEFINE w == steps * Unit
<1>11. w \in Int /\ (d > 0 => w >= 0) /\ (d < 0 => w <= 0) /\ sum - w < Unit /\ w - sum < Unit
  BY <1>3, <1>9, <1>10
<1>12. remainder' = sum - w /\ stepped' = (IF turns THEN 0 ELSE stepped) + w
  BY <1>1
<1> HIDE DEF w
<1>13. CASE turns
  BY <1>1, <1>2, <1>3, <1>5, <1>6, <1>11, <1>12, <1>13 DEF Follows
<1>14. CASE ~turns
  BY <1>1, <1>2, <1>3, <1>5, <1>8, <1>11, <1>12, <1>14 DEF Follows
<1> QED
  BY <1>2, <1>13, <1>14

\* What the queue holds.
QueuedEvents == [by : Int, mode : Modes, speed : 1..5, age : 0..MaxAge + 1]

\* The queue and the two threads.
WheelShape ==
  /\ events \in Seq(QueuedEvents) /\ Len(events) <= MaxPending
  /\ carried \in {<<>>} \cup {<<e>> : e \in QueuedEvents}
  /\ thread \in {"start", "look", "waiting", "taken", "injecting", "ended"}
  /\ carried # <<>> <=> thread = "taken"
  /\ submitter \in {"idle", "notify", "gone"}
  /\ stopped \in BOOLEAN /\ smooth \in BOOLEAN
  /\ quiet \in 0..IdleAfter + 1 /\ submitted \in 0..MaxEvents

\* Nothing waits that was to be woken.
Wakes == WheelIsAwake /\ (submitter = "gone" => stopped)

\* What is proved together.
WheelInv == WheelShape /\ Follows /\ Wakes

\* Pending::push keeps an end of the queue, and leaves room for one.
LEMMA RoomIsLeft ==
  ASSUME NEW q \in Seq(QueuedEvents), Len(q) <= MaxPending
  PROVE  Room(q) \in Seq(QueuedEvents) /\ Len(Room(q)) < MaxPending
<1> DEFINE I == {i \in 1..Len(q) : q[i].age <= MaxAge}
           fresh == SelectInSeq(q, LAMBDA e : e.age <= MaxAge)
           kept  == IF fresh = 0 THEN <<>> ELSE SubSeq(q, fresh, Len(q))
           over  == Len(kept) - MaxPending + 2
<1>1. MaxPending \in Nat \ {0} /\ MaxAge \in Nat /\ Len(q) \in Nat
  BY WheelAssumption
<1>2. fresh \in 0..Len(q)
  <2>1. fresh = IF I # {} THEN Min(I) ELSE 0
    BY DEF SelectInSeq
  <2>2. I # {} => Min(I) \in I
    <3> SUFFICES ASSUME I # {} PROVE Min(I) \in I
      OBVIOUS
    <3>1. I \in SUBSET Nat
      BY <1>1
    <3>2. \E n \in I : \A m \in I : n <= m
      <4> HIDE DEF I
      <4> QED
        BY <3>1, LeastOf
    <3>3. \E x \in I : \A y \in I : x <= y
      BY <3>2
    <3> HIDE DEF I
    <3> QED
      BY <3>3, Zenon DEF Min
  <2> QED
    BY <1>1, <2>1, <2>2
<1> HIDE DEF fresh
<1>3. kept \in Seq(QueuedEvents) /\ Len(kept) <= Len(q)
  <2>1. CASE fresh = 0
    BY <1>1, <2>1
  <2>2. CASE fresh # 0
    <3>1. \A i \in fresh..Len(q) : q[i] \in QueuedEvents
      BY <1>1, <1>2, <2>2
    <3> QED
      BY <1>1, <1>2, <2>2, <3>1, SubSeqProperties
  <2> QED
    BY <2>1, <2>2
<1>4. Room(q) = IF Len(kept) < MaxPending THEN kept ELSE SubSeq(kept, over, Len(kept))
  BY DEF Room, fresh
<1> HIDE DEF kept
<1>5. CASE Len(kept) < MaxPending
  BY <1>3, <1>4, <1>5
<1>6. CASE ~(Len(kept) < MaxPending)
  <2>1. Len(kept) = MaxPending /\ over = 2 /\ Len(kept) \in Nat
    BY <1>1, <1>3, <1>6
  <2>2. \A i \in 2..Len(kept) : kept[i] \in QueuedEvents
    BY <1>3
  <2>3. /\ SubSeq(kept, 2, Len(kept)) \in Seq(QueuedEvents)
        /\ Len(SubSeq(kept, 2, Len(kept))) = IF 2 <= Len(kept) THEN Len(kept) - 2 + 1 ELSE 0
    BY <2>1, <2>2, SubSeqProperties
  <2> QED
    BY <1>1, <1>4, <1>6, <2>1, <2>3
<1> QED
  BY <1>5, <1>6

\* The dispatcher begins so.
LEMMA WheelInitIsGood == WheelInit => WheelInv
<1> SUFFICES ASSUME WheelInit PROVE WheelInv
  OBVIOUS
<1> USE DEF WheelInit
<1>1. WheelShape
  <2>1. <<>> \in Seq(QueuedEvents) /\ Len(<<>>) = 0
    OBVIOUS
  <2>2. IdleAfter + 1 \in 0..IdleAfter + 1 /\ 0 \in 0..MaxEvents /\ 0 <= MaxPending
    BY WheelAssumption
  <2> QED
    BY <2>1, <2>2 DEF WheelShape
<1>2. Follows
  BY WheelAssumption DEF Follows, Unit
<1>3. Wakes
  BY DEF Wakes, WheelIsAwake
<1> QED
  BY <1>1, <1>2, <1>3 DEF WheelInv

\* A step that leaves the wheel where it is.
LEMMA StandingFollows ==
  ASSUME Follows, UNCHANGED <<Accumulator, smooth>>
  PROVE  Follows'
BY DEF Follows, Accumulator, Unit

\* What push appends belongs into the queue.
LEMMA QueuedIs ==
  ASSUME NEW w \in Wheels
  PROVE  [by |-> w.by, mode |-> w.mode, speed |-> w.speed, age |-> 0] \in QueuedEvents
<1>1. w \in [by : Int, mode : Modes, speed : 1..5] /\ MaxAge \in Nat
  BY WheelAssumption
<1> QED
  BY <1>1 DEF QueuedEvents

\* Push, which drops the first event when there is no room.
LEMMA PushIsGood ==
  ASSUME WheelInv, NEW w \in Wheels, PushEvent(w)
  PROVE  WheelInv'
<1>1. /\ events' = Append(Room(events), [by |-> w.by, mode |-> w.mode, speed |-> w.speed, age |-> 0])
      /\ submitted' = submitted + 1 /\ submitted < MaxEvents
      /\ submitter = "idle" /\ submitter' = "notify"
      /\ UNCHANGED <<stopped, thread, carried, smooth>> /\ UNCHANGED Accumulator
  BY DEF PushEvent
<1>2. Room(events) \in Seq(QueuedEvents) /\ Len(Room(events)) < MaxPending
  BY RoomIsLeft DEF WheelInv, WheelShape
<1>3. [by |-> w.by, mode |-> w.mode, speed |-> w.speed, age |-> 0] \in QueuedEvents
  BY QueuedIs
<1> DEFINE e == [by |-> w.by, mode |-> w.mode, speed |-> w.speed, age |-> 0]
<1> HIDE DEF e
<1>4. events' \in Seq(QueuedEvents) /\ Len(events') <= MaxPending
  <2>1. events' = Append(Room(events), e) /\ e \in QueuedEvents
    BY <1>1, <1>3 DEF e
  <2> QED
    BY <1>2, <2>1, WheelAssumption
<1>5. WheelShape'
  <2>1. submitted' \in 0..MaxEvents
    BY <1>1, WheelAssumption DEF WheelInv, WheelShape
  <2> QED
    BY <1>1, <1>4, <2>1 DEF WheelInv, WheelShape, Accumulator
<1>6. Follows'
  BY <1>1, StandingFollows DEF WheelInv
<1>7. Wakes'
  BY <1>1 DEF WheelInv, Wakes, WheelIsAwake
<1> QED
  BY <1>5, <1>6, <1>7 DEF WheelInv

\* The other steps that do not touch the events.
LEMMA TurnIsGood ==
  ASSUME WheelInv,
         NotifyWorker \/ ClearEvents \/ DropDispatcher \/ StartWorker \/ SpuriousWake \/ Injected
  PROVE  WheelInv'
<1> USE DEF NotifyWorker, ClearEvents, DropDispatcher, StartWorker, SpuriousWake, Injected
<1>1. Follows'
  BY StandingFollows DEF WheelInv
<1>2. events' \in Seq(QueuedEvents) /\ Len(events') <= MaxPending
  <2>1. <<>> \in Seq(QueuedEvents) /\ Len(<<>>) <= MaxPending
    BY WheelAssumption
  <2> QED
    BY <2>1 DEF WheelInv, WheelShape
<1>3. WheelShape'
  BY <1>2 DEF WheelInv, WheelShape, Accumulator
<1>4. Wakes'
  BY DEF WheelInv, Wakes, WheelIsAwake, WheelShape
<1> QED
  BY <1>1, <1>3, <1>4 DEF WheelInv

\* The worker looks for events.
LEMMA LookForIsGood ==
  ASSUME WheelInv, LookForEvent
  PROVE  WheelInv'
<1>1. Follows'
  BY StandingFollows DEF LookForEvent, WheelInv
<1>2. thread = "look" /\ UNCHANGED <<stopped, submitter, smooth, submitted, quiet>>
  BY DEF LookForEvent, Accumulator
<1>3. CASE ~stopped /\ events # <<>>
  <2>1. carried' = <<Head(events)>> /\ events' = Tail(events) /\ thread' = "taken"
    BY <1>3 DEF LookForEvent
  <2>2. /\ Head(events) \in QueuedEvents /\ events' \in Seq(QueuedEvents)
        /\ Len(events') <= MaxPending /\ carried' # <<>>
    BY <1>3, <2>1, HeadTailProperties, WheelAssumption DEF WheelInv, WheelShape
  <2>3. WheelShape'
    BY <1>2, <2>1, <2>2 DEF WheelInv, WheelShape
  <2>4. Wakes'
    BY <1>2, <2>1 DEF WheelInv, Wakes, WheelIsAwake
  <2> QED
    BY <1>1, <2>3, <2>4 DEF WheelInv
<1>4. CASE stopped \/ events = <<>>
  <2>1. UNCHANGED <<events, carried>> /\ thread' = (IF stopped THEN "ended" ELSE "waiting")
    BY <1>4 DEF LookForEvent
  <2>2. WheelShape'
    BY <1>2, <2>1 DEF WheelInv, WheelShape
  <2>3. Wakes'
    BY <1>2, <1>4, <2>1 DEF WheelInv, Wakes, WheelIsAwake, WheelShape
  <2> QED
    BY <1>1, <2>2, <2>3 DEF WheelInv
<1> QED
  BY <1>3, <1>4

\* The worker injects what it has taken.
LEMMA InjectIsGood ==
  ASSUME WheelInv, InjectEvent
  PROVE  WheelInv'
<1>1. /\ thread = "taken" /\ carried' = <<>> /\ thread' \in {"look", "injecting"}
      /\ UNCHANGED <<events, stopped, submitter, smooth, submitted>>
  BY DEF InjectEvent
<1>2. PICK e \in QueuedEvents : carried = <<e>>
  BY <1>1 DEF WheelInv, WheelShape
<1>3. Distance(e) \in Int /\ carried[1] = e
  BY <1>2, DistanceIs DEF QueuedEvents, WheelInv, WheelShape
<1>4. Follows' /\ quiet' \in 0..IdleAfter + 1
  <2>1. CASE UNCHANGED Accumulator
    BY <1>1, <2>1, StandingFollows DEF WheelInv, WheelShape, Accumulator
  <2>2. CASE Distance(e) # 0 /\ Accumulate(Distance(e))
    <3>1. quiet' = 0
      BY <2>2 DEF Accumulate
    <3> QED
      BY <1>1, <1>3, <2>2, <3>1, AccumulateFollows, WheelAssumption DEF WheelInv
  <2> QED
    BY <1>3, <2>1, <2>2 DEF InjectEvent
<1>5. WheelShape'
  BY <1>1, <1>4 DEF WheelInv, WheelShape
<1>6. Wakes'
  BY <1>1 DEF WheelInv, Wakes, WheelIsAwake
<1> QED
  BY <1>4, <1>5, <1>6 DEF WheelInv

\* Time makes events older, and nothing else of them.
LEMMA AgedIs ==
  ASSUME NEW q \in Seq(QueuedEvents)
  PROVE  AgeAll(q) \in Seq(QueuedEvents) /\ Len(AgeAll(q)) = Len(q)
<1>1. ASSUME NEW e \in QueuedEvents PROVE Older(e) \in QueuedEvents
  <2>1. (IF e.age > MaxAge THEN e.age ELSE e.age + 1) \in 0..MaxAge + 1
    BY WheelAssumption DEF QueuedEvents
  <2>2. Older(e) = [e EXCEPT !.age = IF e.age > MaxAge THEN e.age ELSE e.age + 1]
    BY DEF Older
  <2> QED
    BY <2>1, <2>2 DEF QueuedEvents
<1>2. AgeAll(q) = [i \in 1..Len(q) |-> Older(q[i])] /\ Len(q) \in Nat
  BY DEF AgeAll
<1>3. \A i \in 1..Len(q) : Older(q[i]) \in QueuedEvents
  BY <1>1
<1> QED
  BY <1>2, <1>3

\* Time passes.
LEMMA PassesIsGood ==
  ASSUME WheelInv, Passes
  PROVE  WheelInv'
<1>1. /\ events' = AgeAll(events) /\ carried' = AgeAll(carried)
      /\ quiet' = (IF quiet > IdleAfter THEN quiet ELSE quiet + 1)
      /\ UNCHANGED <<stopped, submitter, thread, remainder, lastSign, smooth, submitted, moved, stepped>>
  BY DEF Passes
<1>2. events' \in Seq(QueuedEvents) /\ Len(events') = Len(events)
  BY <1>1, AgedIs DEF WheelInv, WheelShape
<1>3. carried' \in {<<>>} \cup {<<e>> : e \in QueuedEvents} /\ (carried' = <<>> <=> carried = <<>>)
  <2>1. CASE carried = <<>>
    <3>0. carried \in Seq(QueuedEvents) /\ Len(carried) = 0
      BY <2>1
    <3>1. carried' \in Seq(QueuedEvents) /\ Len(carried') = 0
      BY <1>1, <3>0, AgedIs
    <3> QED
      BY <2>1, <3>1
  <2>2. CASE carried # <<>>
    <3>1. PICK e \in QueuedEvents : carried = <<e>>
      BY <2>2 DEF WheelInv, WheelShape
    <3>0. carried \in Seq(QueuedEvents) /\ Len(carried) = 1
      BY <3>1
    <3>2. carried' \in Seq(QueuedEvents) /\ Len(carried') = 1
      BY <1>1, <3>0, AgedIs
    <3>3. carried' = <<carried'[1]>> /\ carried'[1] \in QueuedEvents
      BY <3>2
    <3> QED
      BY <2>2, <3>3
  <2> QED
    BY <2>1, <2>2
<1>4. quiet' \in 0..IdleAfter + 1
  BY <1>1, WheelAssumption DEF WheelInv, WheelShape
<1>5. WheelShape'
  BY <1>1, <1>2, <1>3, <1>4 DEF WheelInv, WheelShape
<1>6. Follows'
  BY <1>1, <1>4, WheelAssumption DEF WheelInv, Follows, Unit
<1>7. Wakes'
  <2>1. events = <<>> => events' = <<>>
    BY <1>2
  <2> QED
    BY <1>1, <2>1 DEF WheelInv, Wakes, WheelIsAwake
<1> QED
  BY <1>5, <1>6, <1>7 DEF WheelInv

\* Every step keeps the invariant.
LEMMA WheelStepIsGood == WheelInv /\ [WheelNext]_wheelVars => WheelInv'
<1> SUFFICES ASSUME WheelInv, [WheelNext]_wheelVars PROVE WheelInv'
  OBVIOUS
<1>1. CASE UNCHANGED wheelVars
  <2>1. Follows'
    BY <1>1, StandingFollows DEF wheelVars, Accumulator, WheelInv
  <2>2. WheelShape' /\ Wakes'
    BY <1>1 DEF wheelVars, WheelInv, WheelShape, Wakes, WheelIsAwake
  <2> QED
    BY <2>1, <2>2 DEF WheelInv
<1>2. CASE WheelNext
  BY <1>2, PushIsGood, TurnIsGood, LookForIsGood, InjectIsGood, PassesIsGood DEF WheelNext
<1> QED
  BY <1>1, <1>2

\* Hence it always holds.
LEMMA WheelIsGood == WheelSpec => []WheelInv
BY WheelInitIsGood, WheelStepIsGood, PTL DEF WheelSpec

\* What the invariant says of the properties.
LEMMA WheelInvSays == WheelInv => WheelTypeOK /\ WheelIsAwake /\ StepsFollowWheel
<1> SUFFICES ASSUME WheelInv PROVE WheelTypeOK /\ WheelIsAwake /\ StepsFollowWheel
  OBVIOUS
<1>1. carried \in {<<>>} \cup Seq(QueuedEvents)
  <2>1. \A e \in QueuedEvents : <<e>> \in Seq(QueuedEvents)
    OBVIOUS
  <2> QED
    BY <2>1 DEF WheelInv, WheelShape
<1>2. WheelTypeOK
  BY <1>1 DEF WheelInv, WheelShape, Follows, WheelTypeOK, QueuedEvents
<1> QED
  BY <1>2 DEF WheelInv, Wakes, Follows, StepsFollowWheel

\* The state of the dispatcher keeps its shape, its queue its bound.
THEOREM WheelTypeCorrect == WheelSpec => []WheelTypeOK
BY WheelIsGood, WheelInvSays, PTL

\* No wakeup is lost between push and notify_one, nor at the drop.
THEOREM WorkerIsAwake == WheelSpec => []WheelIsAwake
BY WheelIsGood, WheelInvSays, PTL

\* Whatever is turned, however fast and in whatever unit: the desktop follows.
THEOREM DesktopFollowsWheel == WheelSpec => []StepsFollowWheel
BY WheelIsGood, WheelInvSays, PTL

-----------------------------------------------------------------------------
(* The audio output.                                                       *)

\* The state has a shape.
AudioShape ==
  /\ sinks \subseteq Sinks /\ default \in sinks
  /\ playing \in [Players -> Sinks \cup {NoSink}]
  /\ fixed \in {NoSink, Elsewhere}
  /\ switch \in [Switchers -> {"idle", "load", "choose", "default", "list", "move", "restart", "start", "over"}]
  /\ target \in [Switchers -> Sinks \cup {NoSink}]
  /\ moving \in [Switchers -> SUBSET Players]
  /\ hub \in Switchers \cup {NoSink} /\ source \in Sinks \cup {NoSink, Elsewhere}
  /\ captured \in Sinks \cup {Elsewhere} /\ left \subseteq Players
  /\ crossed \in BOOLEAN /\ spoilt \in BOOLEAN

\* What is to be captured.
ToCapture == IF fixed = NoSink THEN default ELSE fixed

\* A switch that has set the default and has not yet restarted the capture, or is at it.
Pending(w) == switch[w] \in {"list", "move", "restart", "start"} \/ hub = w

\* Who holds the hub has a source or makes one.
HubHeld ==
  /\ \A w \in Switchers : switch[w] = "start" => hub = w /\ source \in Sinks \cup {Elsewhere}
  /\ hub # NoSink => \/ switch[hub] = "start"
                     \/ switch[hub] \in {"load", "default", "list", "move"} /\ fixed = NoSink
  /\ \A w \in Switchers : switch[w] \in {"list", "move"} => target[w] \in Sinks

\* Another has set the default since, and will restart the capture in turn.
Outrun(w) == \E v \in Switchers \ {w} : Pending(v)

\* What is captured is what is to be captured, or a switch will see to it.
Captured ==
  ~spoilt =>
    /\ captured = ToCapture \/ \E w \in Switchers : Pending(w)
    /\ \A w \in Switchers :
         /\ switch[w] = "start" => source = ToCapture \/ Outrun(w)
         /\ hub = w /\ switch[w] \in {"list", "move"} => target[w] = default \/ Outrun(w)

\* One switch at a time moves all that plays, and that PulseAudio moves, to the sink it
\* has made the default.
MovesOn ==
  ~spoilt /\ ~crossed =>
    /\ \A v, w \in Switchers : Under(v) /\ Under(w) => v = w
    /\ \A w \in Switchers : switch[w] \in {"list", "move"} => target[w] = default
    /\ \A p \in Players \ left :
         \/ playing[p] \in {default, NoSink}
         \/ \E w \in Switchers : switch[w] = "list" \/ (switch[w] = "move" /\ p \in moving[w])

\* What is proved together.
AudioInv == AudioShape /\ HubHeld /\ Captured /\ MovesOn

\* The audio output begins so.
LEMMA AudioInitIsGood == AudioInit => AudioInv
<1> SUFFICES ASSUME AudioInit PROVE AudioInv
  OBVIOUS
<1> USE DEF AudioInit
<1>1. AudioShape
  BY DEF AudioShape, Sinks
<1>2. HubHeld /\ Captured /\ MovesOn
  BY DEF HubHeld, Captured, MovesOn, Under, ToCapture
<1> QED
  BY <1>1, <1>2 DEF AudioInv

\* What a step of one switch leaves of the others.
LEMMA OthersStay ==
  ASSUME NEW w \in Switchers, NEW p, AudioShape,
         p \in {"load", "choose", "default", "list", "move", "restart", "start", "over"}, Steps(w, p)
  PROVE  /\ switch' \in [Switchers -> {"idle", "load", "choose", "default", "list", "move", "restart", "start", "over"}]
         /\ switch'[w] = p
         /\ \A v \in Switchers : v # w => switch'[v] = switch[v]
BY DEF Steps, AudioShape

\* A switch that has not come to the default changes nothing of what is heard.
LEMMA SwitchStands ==
  ASSUME AudioInv, NEW w \in Switchers,
         NEW p, p \in {"load", "choose", "default", "over"}, Steps(w, p),
         UNCHANGED <<default, playing, fixed, hub, source, captured, left>>,
         AudioShape', switch[w] \in {"idle", "load", "choose", "default"},
         hub = w => p \in {"load", "default"},
         ~spoilt' => ~spoilt,
         ~crossed' => ~crossed /\ (Under(w) \/ \A v \in Switchers : ~Under(v)),
         \A v \in Switchers \ {w} : target'[v] = target[v] /\ moving'[v] = moving[v]
  PROVE  AudioInv'
<1>1. /\ switch'[w] = p /\ \A v \in Switchers : v # w => switch'[v] = switch[v]
  BY OthersStay DEF AudioInv
<1>2. HubHeld'
  BY <1>1, AudioAssumption DEF AudioInv, HubHeld, AudioShape
<1>3. \A v \in Switchers : Pending(v)' <=> Pending(v)
  BY <1>1 DEF Pending
<1>4. Captured'
  <2>1. ToCapture' = ToCapture /\ \A v \in Switchers : Outrun(v)' <=> Outrun(v)
    BY <1>3 DEF ToCapture, Outrun
  <2> QED
    BY <1>1, <1>3, <2>1 DEF AudioInv, Captured
<1>5. MovesOn'
  BY <1>1 DEF AudioInv, MovesOn, Under
<1> QED
  BY <1>2, <1>4, <1>5 DEF AudioInv

\* Up to the default.
LEMMA PreparesIsGood ==
  ASSUME AudioInv, NEW w \in Switchers, BeginSwitch(w) \/ LoadVirtual(w) \/ Choose(w)
  PROVE  AudioInv'
<1> USE DEF Hub
<1>0. AudioShape /\ HubHeld
  BY DEF AudioInv
<1>1. /\ UNCHANGED <<default, playing, fixed, hub, source, captured, moving, left, spoilt>>
      /\ switch[w] \in {"idle", "load", "choose"}
  BY DEF BeginSwitch, LoadVirtual, Choose
<1>2. hub = w => switch[w] = "load"
  BY <1>0, <1>1, AudioAssumption DEF HubHeld
<1>3. \E p \in {"load", "choose", "default"} : Steps(w, p) /\ (hub = w => p = "default")
  BY <1>2 DEF BeginSwitch, LoadVirtual, Choose
<1>4. sinks \subseteq sinks' /\ sinks' \subseteq Sinks
  BY <1>0 DEF BeginSwitch, LoadVirtual, Choose, AudioShape, Sinks
<1>5. /\ target' \in [Switchers -> Sinks \cup {NoSink}]
      /\ \A v \in Switchers \ {w} : target'[v] = target[v]
  <2>1. CASE Choose(w)
    <3> DEFINE found == IF Wanted[w] = Virtual THEN {Virtual}
                        ELSE IF Wanted[w] \in sinks THEN {Wanted[w]} ELSE sinks \cap Real
    <3>1. found \subseteq Sinks
      BY <1>0 DEF AudioShape, Sinks
    <3>2. \E k \in found : target' = [target EXCEPT ![w] = k]
      BY <2>1 DEF Choose
    <3> HIDE DEF found
    <3> QED
      BY <1>0, <3>1, <3>2 DEF AudioShape
  <2>2. CASE ~Choose(w)
    BY <1>0, <2>2 DEF BeginSwitch, LoadVirtual, AudioShape
  <2> QED
    BY <2>1, <2>2
<1>6. /\ crossed' \in BOOLEAN
      /\ ~crossed' => ~crossed /\ (Under(w) \/ \A v \in Switchers : ~Under(v))
  BY <1>0 DEF BeginSwitch, LoadVirtual, Choose, Under, AudioShape
<1>7. AudioShape'
  BY <1>0, <1>1, <1>3, <1>4, <1>5, <1>6, OthersStay DEF AudioShape
<1> QED
  BY <1>1, <1>3, <1>5, <1>6, <1>7, SwitchStands

\* The default moves: from here on the switch owes it to the streams.
LEMMA SetDefaultIsGood ==
  ASSUME AudioInv, NEW w \in Switchers, SetDefault(w)
  PROVE  AudioInv'
<1> USE DEF Hub, AudioInv
<1>1. /\ default' = target[w] /\ target[w] \in sinks /\ Steps(w, "list") /\ switch[w] = "default"
      /\ UNCHANGED <<sinks, playing, target, moving, left, crossed, spoilt, fixed, hub, source, captured>>
  BY DEF SetDefault
<1>2. /\ switch'[w] = "list" /\ \A v \in Switchers : v # w => switch'[v] = switch[v]
  BY <1>1, OthersStay
<1>3. AudioShape'
  BY <1>1, OthersStay DEF AudioShape
<1>4. HubHeld'
  BY <1>1, <1>2, AudioAssumption DEF HubHeld, AudioShape
<1>5. \A v \in Switchers : v # w => Outrun(v)'
  BY <1>2 DEF Outrun, Pending
<1>6. Captured'
  BY <1>1, <1>2, <1>5 DEF Captured, Pending
<1>7. MovesOn'
  BY <1>1, <1>2 DEF MovesOn, Under
<1> QED
  BY <1>3, <1>4, <1>6, <1>7

\* A switch that ends early spoils what is heard, or has changed nothing of it.
LEMMA GiveUpIsGood ==
  ASSUME AudioInv, NEW w \in Switchers, GiveUp(w)
  PROVE  AudioInv'
<1> USE DEF AudioInv
<1>1. /\ Under(w) /\ Steps(w, "over") /\ hub' = (IF hub = w THEN NoSink ELSE hub)
      /\ moving' = [moving EXCEPT ![w] = {}]
      /\ spoilt' = (spoilt \/ hub = w \/ switch[w] \notin {"load", "choose", "default"})
      /\ UNCHANGED <<sinks, default, playing, fixed, target, source, captured, left, crossed>>
  BY DEF GiveUp
<1>2. /\ switch'[w] = "over" /\ \A v \in Switchers : v # w => switch'[v] = switch[v]
      /\ \A v \in Switchers \ {w} : moving'[v] = moving[v]
  BY <1>1, OthersStay DEF AudioShape
<1>3. AudioShape'
  <2>1. spoilt' \in BOOLEAN
    BY <1>1
  <2>2. moving' \in [Switchers -> SUBSET Players]
    BY <1>1 DEF AudioShape
  <2> QED
    BY <1>1, <2>1, <2>2, OthersStay DEF AudioShape
<1>4. CASE spoilt'
  <2>1. HubHeld'
    BY <1>1, <1>2, AudioAssumption DEF HubHeld, AudioShape
  <2> QED
    BY <1>3, <1>4, <2>1 DEF Captured, MovesOn
<1>5. CASE ~spoilt'
  <2>1. hub # w /\ switch[w] \in {"load", "choose", "default"} /\ ~spoilt
    BY <1>1, <1>5
  <2> QED
    BY <1>1, <1>2, <1>3, <1>5, <2>1, SwitchStands
<1> QED
  BY <1>4, <1>5

\* The streams that play are listed, or taken not to be there.
LEMMA ListIsGood ==
  ASSUME AudioInv, NEW w \in Switchers, ListStreams(w)
  PROVE  AudioInv'
<1> USE DEF Hub, AudioInv
<1>1. /\ switch[w] = "list" /\ Steps(w, "move")
      /\ \/ moving' = [moving EXCEPT ![w] = {p \in Players : playing[p] # NoSink}] /\ left' = left
         \/ left' = left \cup {p \in Players : playing[p] \notin {NoSink, target[w]}} /\ moving' = moving
      /\ UNCHANGED <<sinks, default, playing, target, crossed, spoilt, fixed, hub, source, captured>>
  BY DEF ListStreams
<1>2. /\ switch'[w] = "move" /\ \A v \in Switchers : v # w => switch'[v] = switch[v]
      /\ \A v \in Switchers : v # w => moving'[v] = moving[v]
      /\ moving'[w] = {p \in Players : playing[p] # NoSink} \/ moving' = moving
  BY <1>1, OthersStay DEF AudioShape
<1>3. AudioShape'
  <2>1. moving' \in [Switchers -> SUBSET Players] /\ left' \subseteq Players /\ left \subseteq left'
    BY <1>1 DEF AudioShape
  <2> QED
    BY <1>1, <2>1, OthersStay DEF AudioShape
<1>4. HubHeld'
  BY <1>1, <1>2, AudioAssumption DEF HubHeld, AudioShape
<1>5. \A v \in Switchers : (Pending(v)' <=> Pending(v)) /\ (Outrun(v)' <=> Outrun(v))
  <2>1. \A v \in Switchers : Pending(v)' <=> Pending(v)
    BY <1>1, <1>2 DEF Pending
  <2> QED
    BY <2>1 DEF Outrun
<1>6. Captured'
  BY <1>1, <1>2, <1>5 DEF Captured, ToCapture
<1>7. MovesOn'
  <2> SUFFICES ASSUME ~spoilt, ~crossed PROVE MovesOn'
    BY <1>1 DEF MovesOn
  <2>1. /\ \A u, v \in Switchers : Under(u)' /\ Under(v)' => u = v
        /\ \A v \in Switchers : switch'[v] \in {"list", "move"} => target'[v] = default'
    BY <1>1, <1>2 DEF MovesOn, Under
  <2>2. target[w] = default
    BY <1>1 DEF MovesOn
  <2>3. ASSUME NEW p \in Players, p \notin left'
        PROVE  \/ playing[p] \in {default, NoSink}
               \/ switch'[w] = "move" /\ p \in moving'[w]
    <3>1. CASE moving' = [moving EXCEPT ![w] = {q \in Players : playing[q] # NoSink}]
      BY <1>2, <3>1 DEF AudioShape
    <3>2. CASE left' = left \cup {q \in Players : playing[q] \notin {NoSink, target[w]}}
      BY <2>2, <2>3, <3>2
    <3> QED
      BY <1>1, <3>1, <3>2
  <2> QED
    BY <1>1, <2>1, <2>3 DEF MovesOn
<1> QED
  BY <1>3, <1>4, <1>6, <1>7

\* One of them is moved, or left where it is.
LEMMA MoveIsGood ==
  ASSUME AudioInv, NEW w \in Switchers, NEW p \in Players, MoveStream(w, p)
  PROVE  AudioInv'
<1> USE DEF Hub, AudioInv
<1>1. /\ switch[w] = "move" /\ p \in moving[w]
      /\ moving' = [moving EXCEPT ![w] = moving[w] \ {p}]
      /\ UNCHANGED <<sinks, default, switch, target, crossed, spoilt, fixed, hub, source, captured>>
  BY DEF MoveStream
<1>2. /\ \A q \in Players \ {p} : playing'[q] = playing[q] /\ (q \in left' <=> q \in left)
      /\ p \in left' \/ playing'[p] = target[w]
      /\ playing' \in [Players -> Sinks \cup {NoSink}] /\ left' \subseteq Players
  BY DEF MoveStream, AudioShape
<1>3. /\ moving'[w] = moving[w] \ {p} /\ \A v \in Switchers \ {w} : moving'[v] = moving[v]
      /\ AudioShape'
  BY <1>1, <1>2 DEF AudioShape
<1>4. HubHeld' /\ Captured'
  BY <1>1 DEF HubHeld, Captured, Pending, Outrun, ToCapture
<1>5. MovesOn'
  <2> SUFFICES ASSUME ~spoilt, ~crossed PROVE MovesOn'
    BY <1>1 DEF MovesOn
  <2>1. target[w] = default
    BY <1>1 DEF MovesOn
  <2>2. ASSUME NEW q \in Players, q \notin left'
        PROVE  \/ playing'[q] \in {default, NoSink}
               \/ \E v \in Switchers : switch[v] = "list" \/ (switch[v] = "move" /\ q \in moving'[v])
    <3>1. CASE q = p
      BY <1>2, <2>1, <2>2, <3>1
    <3>2. CASE q # p
      BY <1>2, <1>3, <2>2, <3>2 DEF MovesOn
    <3> QED
      BY <3>1, <3>2
  <2> QED
    BY <1>1, <2>2 DEF MovesOn, Under
<1> QED
  BY <1>3, <1>4, <1>5

\* All of them are: the switch restarts the capture next, or has found a source for it.
LEMMA MovedIsGood ==
  ASSUME AudioInv, NEW w \in Switchers, Moved(w)
  PROVE  AudioInv'
<1> USE DEF AudioInv
<1>1. /\ switch[w] = "move" /\ moving[w] = {}
      /\ UNCHANGED <<sinks, default, playing, fixed, target, moving, hub, captured, left, crossed, spoilt>>
  BY DEF Moved
<1>2. PICK p \in {"start", "restart"} :
        /\ Steps(w, p)
        /\ p = "start" => hub = w /\ source' = target[w]
        /\ p = "restart" => hub # w /\ source' = source
  BY DEF Moved
<1>3. /\ switch'[w] = p /\ \A v \in Switchers : v # w => switch'[v] = switch[v]
  BY <1>2, OthersStay
<1>4. target[w] \in Sinks
  BY <1>1 DEF HubHeld
<1>5. AudioShape'
  BY <1>1, <1>2, <1>4, OthersStay DEF AudioShape
<1>6. \A v \in Switchers : switch[v] = "start" => hub = v
  BY DEF HubHeld
<1>7. HubHeld'
  BY <1>1, <1>2, <1>3, <1>4, <1>6, AudioAssumption DEF HubHeld, AudioShape
<1>8. \A v \in Switchers : (Pending(v)' <=> Pending(v)) /\ (Outrun(v)' <=> Outrun(v))
  <2>1. \A v \in Switchers : Pending(v)' <=> Pending(v)
    BY <1>1, <1>2, <1>3 DEF Pending
  <2> QED
    BY <2>1 DEF Outrun
<1>9. Captured'
  <2> SUFFICES ASSUME ~spoilt PROVE Captured'
    BY <1>1 DEF Captured
  <2>1. ToCapture' = ToCapture /\ (captured' = ToCapture' \/ \E v \in Switchers : Pending(v)')
    BY <1>1, <1>8 DEF Captured, ToCapture
  <2>2. ASSUME NEW v \in Switchers, switch'[v] = "start"
        PROVE  source' = ToCapture \/ Outrun(v)
    <3>1. CASE v = w
      <4>1. hub = w /\ source' = target[w] /\ fixed = NoSink
        BY <1>1, <1>2, <1>3, <2>2, <3>1, AudioAssumption DEF HubHeld
      <4> QED
        BY <1>1, <3>1, <4>1 DEF Captured, ToCapture
    <3>2. CASE v # w
      <4>1. switch[v] = "start" /\ hub = v /\ source' = source
        BY <1>2, <1>3, <1>6, <2>2, <3>2
      <4> QED
        BY <4>1 DEF Captured
    <3> QED
      BY <3>1, <3>2
  <2>3. ASSUME NEW v \in Switchers, hub' = v, switch'[v] \in {"list", "move"}
        PROVE  target'[v] = default' \/ Outrun(v)
    BY <1>1, <1>2, <1>3, <2>3 DEF Captured
  <2> QED
    BY <1>8, <2>1, <2>2, <2>3 DEF Captured
<1>10. MovesOn'
  BY <1>1, <1>2, <1>3 DEF MovesOn, Under
<1> QED
  BY <1>5, <1>7, <1>9, <1>10

\* Whatever the default has become since, the source is the one of this moment, or the
\* virtual sink will be the default.
LEMMA FindIsGood ==
  ASSUME AudioInv, NEW w \in Switchers, FindSource(w)
  PROVE  AudioInv'
<1> USE DEF AudioInv
<1>1. /\ switch[w] = "restart" /\ hub = NoSink /\ hub' = w
      /\ UNCHANGED <<sinks, default, playing, fixed, moving, captured, left, crossed, spoilt>>
  BY DEF FindSource
<1>2. PICK p \in {"start", "default", "load"} :
        /\ Steps(w, p)
        /\ p = "start" => source' = ToCapture /\ target' = target
        /\ p # "start" => fixed = NoSink /\ source' = source /\ target' = [target EXCEPT ![w] = Virtual]
  BY DEF FindSource, ToCapture
<1>3. /\ switch'[w] = p /\ \A v \in Switchers : v # w => switch'[v] = switch[v]
      /\ \A v \in Switchers : v # w => target'[v] = target[v]
  BY <1>2, OthersStay DEF AudioShape
<1>4. ToCapture' = ToCapture /\ ToCapture \in Sinks \cup {Elsewhere}
  BY <1>1 DEF ToCapture, AudioShape
<1>5. AudioShape'
  <2>1. target' \in [Switchers -> Sinks \cup {NoSink}]
    BY <1>2 DEF AudioShape, Sinks
  <2>2. source' \in Sinks \cup {NoSink, Elsewhere}
    BY <1>2, <1>4 DEF AudioShape
  <2> QED
    BY <1>1, <1>2, <2>1, <2>2, OthersStay DEF AudioShape
<1>6. \A v \in Switchers : switch[v] # "start"
  BY <1>1, AudioAssumption DEF HubHeld
<1>7. HubHeld'
  BY <1>1, <1>2, <1>3, <1>4, <1>6, AudioAssumption DEF HubHeld
<1>8. Captured'
  BY <1>1, <1>2, <1>3, <1>4, <1>6 DEF Captured, Pending
<1>9. MovesOn'
  BY <1>1, <1>2, <1>3 DEF MovesOn, Under
<1> QED
  BY <1>5, <1>7, <1>8, <1>9

\* The capture starts at the source that was found.
LEMMA StartIsGood ==
  ASSUME AudioInv, NEW w \in Switchers, StartAudio(w)
  PROVE  AudioInv'
<1> USE DEF AudioInv
<1>1. /\ switch[w] = "start" /\ hub = w /\ hub' = NoSink /\ Steps(w, "over") /\ captured' = source
      /\ UNCHANGED <<sinks, default, playing, fixed, target, moving, source, left, crossed, spoilt>>
  BY DEF StartAudio
<1>2. w # NoSink /\ source \in Sinks \cup {Elsewhere} /\ \A v \in Switchers : switch[v] = "start" => v = w
  BY <1>1, AudioAssumption DEF HubHeld
<1>3. switch'[w] = "over" /\ \A v \in Switchers : v # w => switch'[v] = switch[v]
  BY <1>1, OthersStay
<1>4. AudioShape'
  BY <1>1, <1>2, OthersStay DEF AudioShape
<1>5. HubHeld'
  BY <1>1, <1>2, <1>3 DEF HubHeld
<1>6. Captured'
  <2>1. ToCapture' = ToCapture /\ (Outrun(w) => \E v \in Switchers : Pending(v)')
    BY <1>1, <1>3 DEF ToCapture, Outrun, Pending
  <2> QED
    BY <1>1, <1>2, <1>3, <2>1, AudioAssumption DEF Captured
<1>7. MovesOn'
  BY <1>1, <1>3 DEF MovesOn, Under
<1> QED
  BY <1>4, <1>5, <1>6, <1>7

\* A player starts, at the default, or stops.
LEMMA PlayersAreGood ==
  ASSUME AudioInv, NEW p \in Players, Plays(p) \/ Falls(p)
  PROVE  AudioInv'
<1> USE DEF Hub, AudioInv
<1>1. UNCHANGED <<sinks, default, switch, target, crossed, spoilt, fixed, hub, source, captured>>
  BY DEF Plays, Falls
<1>2. /\ playing'[p] \in {default, NoSink} /\ \A q \in Players \ {p} : playing'[q] = playing[q]
      /\ playing' \in [Players -> Sinks \cup {NoSink}]
      /\ \A q \in Players \ {p} : q \in left' <=> q \in left
      /\ left' \subseteq Players
  BY DEF Plays, Falls, AudioShape
<1>3. /\ moving' \in [Switchers -> SUBSET Players]
      /\ \A v \in Switchers : \A q \in Players \ {p} : q \in moving'[v] <=> q \in moving[v]
  BY DEF Plays, Falls, AudioShape
<1>4. AudioShape' /\ HubHeld' /\ Captured'
  BY <1>1, <1>2, <1>3 DEF AudioShape, HubHeld, Captured, Pending, Outrun, ToCapture
<1>5. MovesOn'
  BY <1>1, <1>2, <1>3 DEF MovesOn, Under
<1> QED
  BY <1>4, <1>5

\* A device goes.
LEMMA UnplugIsGood ==
  ASSUME AudioInv, NEW k \in Real, Unplug(k)
  PROVE  AudioInv'
<1> USE DEF Hub, AudioInv
<1>1. /\ sinks' = sinks \ {k} /\ spoilt' = TRUE
      /\ UNCHANGED <<switch, target, moving, left, crossed, fixed, hub, source, captured>>
  BY DEF Unplug
<1>2. PICK other \in sinks \ {k} :
        /\ default' = IF default = k THEN other ELSE default
        /\ playing' = [p \in Players |-> IF playing[p] = k THEN default' ELSE playing[p]]
  BY DEF Unplug
<1>3. default' \in sinks' /\ default' \in Sinks
  BY <1>1, <1>2 DEF AudioShape
<1>4. playing' \in [Players -> Sinks \cup {NoSink}]
  BY <1>2, <1>3 DEF AudioShape
<1>5. AudioShape' /\ HubHeld' /\ Captured' /\ MovesOn'
  BY <1>1, <1>3, <1>4 DEF AudioShape, HubHeld, Captured, MovesOn
<1> QED
  BY <1>5

\* Every step keeps the invariant.
LEMMA AudioStepIsGood == AudioInv /\ [AudioNext]_audioVars => AudioInv'
<1> SUFFICES ASSUME AudioInv, [AudioNext]_audioVars PROVE AudioInv'
  OBVIOUS
<1>1. CASE UNCHANGED audioVars
  BY <1>1 DEF audioVars, AudioInv, AudioShape, HubHeld, Captured, MovesOn, Pending, Outrun, ToCapture, Under
<1>2. CASE AudioNext
  BY <1>2, PreparesIsGood, SetDefaultIsGood, GiveUpIsGood, ListIsGood, MoveIsGood, MovedIsGood, FindIsGood,
     StartIsGood, PlayersAreGood, UnplugIsGood DEF AudioNext
<1> QED
  BY <1>1, <1>2

\* Hence it always holds.
LEMMA AudioIsGood == AudioSpec => []AudioInv
BY AudioInitIsGood, AudioStepIsGood, PTL DEF AudioSpec

\* What the invariant says of the properties.
LEMMA AudioInvSays == AudioInv => AudioTypeOK /\ SoundIsHeard
<1>1. AudioInv => AudioTypeOK
  BY DEF AudioInv, AudioShape, AudioTypeOK
<1>2. AudioInv => SoundIsHeard
  <2> SUFFICES ASSUME AudioInv, \A w \in Switchers : ~Under(w), ~spoilt
               PROVE  /\ captured = ToCapture
                      /\ ~crossed => \A p \in Players \ left : playing[p] \in {default, NoSink}
    BY DEF SoundIsHeard, ToCapture
  <2>1. \A w \in Switchers : switch[w] \in {"idle", "over"}
    BY DEF Under
  <2>2. hub = NoSink
    BY <2>1 DEF AudioInv, HubHeld, AudioShape
  <2>3. \A w \in Switchers : ~Pending(w)
    BY <2>1, <2>2, AudioAssumption DEF Pending
  <2> QED
    BY <2>1, <2>3 DEF AudioInv, Captured, MovesOn
<1> QED
  BY <1>1, <1>2

\* What the switches keep keeps its shape, and the default is a sink there is.
THEOREM AudioTypeCorrect == AudioSpec => []AudioTypeOK
BY AudioIsGood, AudioInvSays, PTL

\* In whatever order any number of switches come through.
THEOREM CaptureFollowsSound == AudioSpec => []SoundIsHeard
BY AudioIsGood, AudioInvSays, PTL

-----------------------------------------------------------------------------
(* The clipboard.                                                          *)

\* Where a writer may be.
Stages == {"idle", "start", "claimed", "serving", "joining", "pasting", "over"}

\* The state has a shape.
ClipboardShape ==
  /\ selection \in Owners \cup {Nobody, App}
  /\ offered \in Contents /\ copied \in Contents
  /\ payload \in [Owners -> Contents] /\ before \in [Pastes -> Contents \cup {"unread"}]
  /\ server \in [Owners -> {"none", "running", "ended"}] /\ told \subseteq Owners
  /\ writer \in [Writers -> Stages] /\ nth \in [Writers -> {1, 2}]
  /\ current \in Owners \cup {Nobody} /\ previous \in Owners \cup {Nobody}
  /\ guard \in Writers \cup {Nobody}
  /\ claimed \in Seq(Owners)

\* Who has claimed the selection.
HasClaimed(o) == \E i \in DOMAIN claimed : claimed[i] = o

\* Only who has claimed is told, has the selection or is the current owner; each
\* writer claims once in a write, and is not the current owner before its turn.
Claimants ==
  /\ \A o \in told : HasClaimed(o)
  /\ selection \in Owners => HasClaimed(selection)
  /\ current \in Owners => HasClaimed(current)
  /\ \A w \in Writers :
       /\ writer[w] \in {"idle", "start"} => ~HasClaimed(Me(w))
       /\ nth[w] = 1 => ~HasClaimed(<<w, 2>>)
       /\ writer[w] \in {"claimed", "serving", "joining"} => HasClaimed(Me(w)) /\ current # Me(w)
       /\ writer[w] = "idle" => nth[w] = 1
       /\ writer[w] = "pasting" => nth[w] = 1 /\ w \in Pastes
       /\ w \in Copies => nth[w] = 1

\* The owner of the selection is the last to have claimed it, and nobody stops it.
LastHolds ==
  selection \in Owners => /\ Len(claimed) > 0 /\ claimed[Len(claimed)] = selection
                          /\ selection \notin told

\* A paste is alone, has read what was copied last, and restores it.
Restores(w) ==
  /\ \A v \in Busy \cap Pastes : v = w
  /\ before[w] = copied
  /\ nth[w] = 2 => payload[<<w, 2>>] = copied
  /\ writer[w] \in {"claimed", "serving", "joining"} => selection = Me(w)

Offers ==
  excused = {} =>
    /\ LastHolds
    /\ Busy \cap Pastes = {} => Content = copied
    /\ \A w \in Busy \cap Pastes : Restores(w)

\* What is proved together.
ClipboardInv == ClipboardShape /\ Claimants /\ Offers

-----------------------------------------------------------------------------
\* Owners differ from each other and from those who are none.
LEMMA OwnersAre ==
  /\ \A o \in Owners : o # Nobody /\ o # App
  /\ \A v, w \in Writers, i, j \in {1, 2} : <<v, i>> \in Owners /\ (<<v, i>> = <<w, j>> <=> v = w /\ i = j)
  /\ Nobody # App
BY DEF Owners, Nobody, App

\* A writer and its count make one owner.
LEMMA MeIs ==
  ASSUME ClipboardShape, NEW w \in Writers
  PROVE  /\ Me(w) \in Owners /\ Me(w) = <<w, nth[w]>> /\ nth[w] \in {1, 2}
         /\ \A v \in Writers : Me(v) = Me(w) => v = w
BY DEF ClipboardShape, Me, Owners

\* The clipboard begins so.
LEMMA ClipboardInitIsGood == ClipboardInit => ClipboardInv
<1> SUFFICES ASSUME ClipboardInit PROVE ClipboardInv
  OBVIOUS
<1> USE DEF ClipboardInit
<1>1. ClipboardShape
  <2>1. payload \in [Owners -> Contents]
    <3>1. \A o \in Owners : (IF o[1] \in Copies THEN Copy[o[1]] ELSE "text") \in Contents
      BY ClipboardAssumption DEF Contents
    <3> QED
      BY <3>1
  <2>2. <<>> \in Seq(Owners)
    OBVIOUS
  <2> QED
    BY <2>1, <2>2 DEF ClipboardShape, Contents, Stages
<1>2. Claimants
  BY OwnersAre DEF Claimants, HasClaimed
<1>3. Offers
  BY OwnersAre DEF Offers, LastHolds, Content, Busy, Writers
<1> QED
  BY <1>1, <1>2, <1>3 DEF ClipboardInv

\* What can be pasted is a content.
LEMMA ContentIs ==
  ASSUME ClipboardShape
  PROVE  Content \in Contents
BY OwnersAre DEF ClipboardShape, Content, Contents

\* A claim, by whomever.
LEMMA ClaimsAre ==
  ASSUME ClipboardInv, NEW o \in Owners, Claims(o), ~HasClaimed(o)
  PROVE  /\ selection' = o /\ claimed' \in Seq(Owners) /\ Len(claimed') = Len(claimed) + 1 /\ Len(claimed) \in Nat
         /\ claimed'[Len(claimed')] = o
         /\ \A p : HasClaimed(p)' <=> HasClaimed(p) \/ p = o
         /\ told' \subseteq Owners /\ o \notin told' /\ \A p \in told' : HasClaimed(p)
<1>1. claimed' = Append(claimed, o) /\ claimed \in Seq(Owners) /\ selection' = o
  BY DEF Claims, ClipboardInv, ClipboardShape
<1>2. /\ claimed' \in Seq(Owners) /\ Len(claimed') = Len(claimed) + 1 /\ Len(claimed) \in Nat
      /\ claimed'[Len(claimed')] = o /\ DOMAIN claimed = 1..Len(claimed) /\ DOMAIN claimed' = 1..Len(claimed')
      /\ \A i \in 1..Len(claimed) : claimed'[i] = claimed[i]
  BY <1>1
<1>3. ASSUME NEW p PROVE HasClaimed(p)' <=> HasClaimed(p) \/ p = o
  <2>1. \A i \in 1..Len(claimed') : i \in 1..Len(claimed) \/ i = Len(claimed')
    BY <1>2
  <2>2. Len(claimed') \in 1..Len(claimed') /\ 1..Len(claimed) \subseteq 1..Len(claimed')
    BY <1>2
  <2> QED
    BY <1>2, <2>1, <2>2 DEF HasClaimed
<1>4. told' = IF selection \in Owners THEN told \cup {selection} ELSE told
  BY DEF Claims
<1>5. told' \subseteq Owners /\ \A p \in told' : HasClaimed(p)
  BY <1>4 DEF ClipboardInv, ClipboardShape, Claimants
<1> QED
  BY <1>1, <1>2, <1>3, <1>5

\* After a copy is claimed no paste is excused.
LEMMA CopiedIs ==
  ASSUME NEW c, Copied(c), excused' = {}
  PROVE  Busy \cap Pastes = {} /\ copied' = c
BY DEF Copied

\* An application takes the selection.
LEMMA AppIsGood ==
  ASSUME ClipboardInv, NEW c \in {"text", "picture", "other"}, AppClaims(c)
  PROVE  ClipboardInv'
<1>1. /\ selection' = App /\ claimed' = claimed /\ offered' = c /\ copied' = c
      /\ told' = IF selection \in Owners THEN told \cup {selection} ELSE told
      /\ UNCHANGED <<payload, server, writer, nth, before, current, guard, previous>>
  BY OwnersAre DEF AppClaims, Claims, Copied, Guarded
<1>2. ClipboardShape'
  <2>1. told' \subseteq Owners /\ c \in Contents
    BY <1>1 DEF ClipboardInv, ClipboardShape, Contents
  <2> QED
    BY <1>1, <2>1 DEF ClipboardInv, ClipboardShape
<1>3. \A o : HasClaimed(o)' <=> HasClaimed(o)
  BY <1>1 DEF HasClaimed
<1>4. Claimants'
  <2>1. \A o \in told' : HasClaimed(o)
    BY <1>1 DEF ClipboardInv, Claimants
  <2>2. selection' \notin Owners
    BY <1>1, OwnersAre
  <2>3. \A w : Me(w)' = Me(w)
    BY <1>1 DEF Me
  <2> QED
    BY <1>1, <1>3, <2>1, <2>2, <2>3 DEF ClipboardInv, Claimants
<1>5. Offers'
  <2> SUFFICES ASSUME excused' = {} PROVE Offers'
    BY DEF Offers
  <2>1. Busy \cap Pastes = {} /\ Busy' = Busy
    BY <1>1, CopiedIs DEF AppClaims, Busy
  <2>2. Content' = copied' /\ selection' \notin Owners
    BY <1>1, OwnersAre DEF Content
  <2> QED
    BY <2>1, <2>2 DEF Offers, LastHolds
<1> QED
  BY <1>2, <1>4, <1>5 DEF ClipboardInv

\* A paste reads what it will put back.
LEMMA ReadIsGood ==
  ASSUME ClipboardInv, NEW w \in Writers, ReadFirst(w)
  PROVE  ClipboardInv'
<1>1. PICK c \in {"nothing", "unread"} \cup ({Content} \cap {"text", "picture"}) :
        /\ before' = [before EXCEPT ![w] = c]
        /\ excused' = excused \cup {"unread" : x \in {c} \ {Content}} \cup {"overtaken" : v \in Busy}
  BY DEF ReadFirst
<1>2. /\ w \in Pastes /\ writer[w] = "idle" /\ writer' = [writer EXCEPT ![w] = "start"]
      /\ payload' = [payload EXCEPT ![<<w, 1>>] = "text"]
      /\ UNCHANGED <<server, nth, selection, told, claimed, offered, apps, copied, current, guard, previous>>
  BY DEF ReadFirst, Moves, Selected, Intent, Guarded
<1>3. /\ writer'[w] = "start" /\ \A v \in Writers \ {w} : writer'[v] = writer[v]
      /\ writer' \in [Writers -> Stages]
  BY <1>2 DEF ClipboardInv, ClipboardShape, Stages
<1>4. /\ payload' \in [Owners -> Contents]
      /\ \A o \in Owners : o # <<w, 1>> => payload'[o] = payload[o]
  BY <1>2, OwnersAre DEF ClipboardInv, ClipboardShape, Contents
<1>5. /\ before' \in [Pastes -> Contents \cup {"unread"}] /\ before'[w] = c
  <2>1. c \in Contents \cup {"unread"}
    BY DEF Contents
  <2> QED
    BY <1>1, <1>2, <2>1 DEF ClipboardInv, ClipboardShape
<1>6. ClipboardShape'
  BY <1>2, <1>3, <1>4, <1>5 DEF ClipboardInv, ClipboardShape
<1>7. \A v : Me(v)' = Me(v) /\ (HasClaimed(v)' <=> HasClaimed(v))
  BY <1>2 DEF Me, HasClaimed
<1>8. Claimants'
  BY <1>2, <1>3, <1>7 DEF ClipboardInv, Claimants
<1>9. Offers'
  <2> SUFFICES ASSUME excused' = {} PROVE Offers'
    BY DEF Offers
  <2>1. excused = {} /\ Busy = {} /\ c = Content
    BY <1>1
  <2>2. LastHolds' /\ Content = copied
    BY <1>2, <2>1 DEF ClipboardInv, Offers, LastHolds
  <2>3. \A v \in Busy' : v = w
    BY <1>3, <2>1 DEF Busy
  <2>4. w \in Busy' \cap Pastes /\ nth'[w] = 1
    BY <1>2, <1>3 DEF Busy, ClipboardInv, Claimants
  <2>5. Restores(w)'
    BY <1>2, <1>3, <1>5, <2>1, <2>2, <2>3, <2>4 DEF Restores
  <2> QED
    BY <2>2, <2>3, <2>4, <2>5 DEF Offers
<1> QED
  BY <1>6, <1>8, <1>9 DEF ClipboardInv

\* A copy begins.
LEMMA BeginIsGood ==
  ASSUME ClipboardInv, NEW w \in Writers, BeginCopy(w)
  PROVE  ClipboardInv'
<1>1. /\ w \in Copies /\ writer[w] = "idle" /\ writer' = [writer EXCEPT ![w] = "start"]
      /\ UNCHANGED <<payload, server, nth, before, excused, selection, told, claimed, offered, apps, copied,
                     current, guard, previous>>
  BY DEF BeginCopy, Moves, Selected, Intent, Guarded
<1>2. /\ writer'[w] = "start" /\ \A v \in Writers \ {w} : writer'[v] = writer[v]
      /\ writer' \in [Writers -> Stages]
  BY <1>1 DEF ClipboardInv, ClipboardShape, Stages
<1>3. ClipboardShape'
  BY <1>1, <1>2 DEF ClipboardInv, ClipboardShape
<1>4. \A v : Me(v)' = Me(v) /\ (HasClaimed(v)' <=> HasClaimed(v))
  BY <1>1 DEF Me, HasClaimed
<1>5. Claimants'
  BY <1>1, <1>2, <1>4 DEF ClipboardInv, Claimants
<1>6. w \notin Pastes
  BY <1>1, ClipboardAssumption
<1>7. Busy' \cap Pastes = Busy \cap Pastes
  BY <1>2, <1>6 DEF Busy
<1>8. Content' = Content
  BY <1>1 DEF Content
<1>9. ASSUME NEW v \in Busy \cap Pastes, Restores(v) PROVE Restores(v)'
  <2>1. v # w /\ v \in Writers
    BY <1>6 DEF Busy
  <2> QED
    BY <1>1, <1>2, <1>4, <1>7, <1>9, <2>1 DEF Restores
<1>10. Offers'
  BY <1>1, <1>7, <1>8, <1>9 DEF ClipboardInv, Offers, LastHolds
<1> QED
  BY <1>3, <1>5, <1>10 DEF ClipboardInv

\* The thread of a write claims the selection.
LEMMA ClaimIsGood ==
  ASSUME ClipboardInv, NEW w \in Writers, Claim(w)
  PROVE  ClipboardInv'
<1> DEFINE o == Me(w)
<1>1. /\ writer[w] = "start" /\ writer' = [writer EXCEPT ![w] = "claimed"] /\ Claims(o)
      /\ IF w \in Copies THEN Copied(payload[o]) ELSE UNCHANGED <<copied, excused>>
      /\ UNCHANGED <<offered, apps, payload, server, nth, before, current, guard, previous>>
  BY DEF Claim, Moves, Guarded
<1>2. o \in Owners /\ ~HasClaimed(o) /\ o = <<w, nth[w]>>
  BY <1>1, MeIs DEF ClipboardInv, Claimants
<1> HIDE DEF o
<1>3. /\ selection' = o /\ claimed' \in Seq(Owners) /\ Len(claimed') = Len(claimed) + 1 /\ Len(claimed) \in Nat
      /\ claimed'[Len(claimed')] = o
      /\ \A p : HasClaimed(p)' <=> HasClaimed(p) \/ p = o
      /\ told' \subseteq Owners /\ o \notin told' /\ \A p \in told' : HasClaimed(p)
  BY <1>1, <1>2, ClaimsAre
<1>4. /\ writer'[w] = "claimed" /\ \A v \in Writers \ {w} : writer'[v] = writer[v]
      /\ writer' \in [Writers -> Stages]
  BY <1>1 DEF ClipboardInv, ClipboardShape, Stages
<1>5. \A v : Me(v)' = Me(v)
  BY <1>1 DEF Me
<1>6. copied' \in Contents
  BY <1>1, <1>2 DEF Copied, ClipboardInv, ClipboardShape
<1>7. ClipboardShape'
  BY <1>1, <1>2, <1>3, <1>4, <1>6 DEF ClipboardInv, ClipboardShape
<1>8. Claimants'
  <2>1. (\A p \in told' : HasClaimed(p)') /\ HasClaimed(selection)' /\ (current' \in Owners => HasClaimed(current)')
    BY <1>1, <1>3 DEF ClipboardInv, Claimants
  <2>2. HasClaimed(Me(w))' /\ current' # Me(w)
    BY <1>1, <1>2, <1>3, <1>5 DEF ClipboardInv, Claimants, o
  <2>3. ASSUME NEW v \in Writers
        PROVE  /\ writer'[v] \in {"idle", "start"} => ~HasClaimed(Me(v))'
               /\ nth'[v] = 1 => ~HasClaimed(<<v, 2>>)'
               /\ writer'[v] \in {"claimed", "serving", "joining"} => HasClaimed(Me(v))' /\ current' # Me(v)'
               /\ writer'[v] = "idle" => nth'[v] = 1
               /\ writer'[v] = "pasting" => nth'[v] = 1 /\ v \in Pastes
               /\ v \in Copies => nth'[v] = 1
    <3>1. nth[v] = 1 => <<v, 2>> # o
      BY <1>2, OwnersAre
    <3>2. v # w => Me(v) # o
      BY MeIs DEF o, ClipboardInv
    <3>3. CASE v = w
      BY <1>1, <1>3, <1>4, <1>5, <2>2, <3>1, <3>3 DEF ClipboardInv, Claimants
    <3>4. CASE v # w
      BY <1>1, <1>3, <1>4, <1>5, <3>1, <3>2, <3>4 DEF ClipboardInv, Claimants
    <3> QED
      BY <3>3, <3>4
  <2> QED
    BY <2>1, <2>3 DEF Claimants
<1>9. Offers'
  <2> SUFFICES ASSUME excused' = {} PROVE Offers'
    BY DEF Offers
  <2>1. LastHolds'
    BY <1>2, <1>3 DEF LastHolds
  <2>2. Busy' = Busy /\ w \in Busy
    BY <1>1, <1>4 DEF Busy
  <2>3. Content' = payload[o]
    BY <1>1, <1>2, <1>3, OwnersAre DEF Content
  <2>4. CASE w \in Copies
    <3>1. Busy \cap Pastes = {} /\ copied' = payload[o]
      BY <1>1, <2>4, CopiedIs
    <3> QED
      BY <2>1, <2>2, <2>3, <3>1 DEF Offers
  <2>5. CASE w \notin Copies
    <3>1. w \in Pastes /\ excused = {} /\ copied' = copied
      BY <1>1, <2>5 DEF Writers
    <3>2. Restores(w) /\ \A v \in Busy \cap Pastes : v = w
      BY <2>2, <3>1 DEF ClipboardInv, Offers, Restores
    <3>3. Restores(w)'
      BY <1>1, <1>3, <1>5, <2>2, <3>1, <3>2 DEF Restores, o
    <3> QED
      BY <2>1, <2>2, <3>1, <3>2, <3>3 DEF Offers
  <2> QED
    BY <2>4, <2>5
<1> QED
  BY <1>7, <1>8, <1>9 DEF ClipboardInv

\* It verifies that it has it.
LEMMA VerifyIsGood ==
  ASSUME ClipboardInv, NEW w \in Writers, Verify(w)
  PROVE  ClipboardInv'
<1>1. /\ writer[w] = "claimed"
      /\ UNCHANGED <<payload, nth, before, excused, selection, told, claimed, offered, apps, copied,
                     current, guard, previous>>
  BY DEF Verify, Selected, Intent, Guarded
<1>2. /\ writer' = [writer EXCEPT ![w] = writer'[w]] /\ writer'[w] \in {"serving", "over"}
      /\ writer'[w] = "over" => selection # Me(w)
      /\ server' \in [Owners -> {"none", "running", "ended"}]
  BY DEF Verify, Moves, ClipboardInv, ClipboardShape
<1>3. /\ \A v \in Writers \ {w} : writer'[v] = writer[v]
      /\ writer' \in [Writers -> Stages]
  BY <1>2 DEF ClipboardInv, ClipboardShape, Stages
<1>4. ClipboardShape'
  BY <1>1, <1>2, <1>3 DEF ClipboardInv, ClipboardShape
<1>5. \A v : Me(v)' = Me(v) /\ (HasClaimed(v)' <=> HasClaimed(v))
  BY <1>1 DEF Me, HasClaimed
<1>6. Claimants'
  BY <1>1, <1>2, <1>3, <1>5 DEF ClipboardInv, Claimants
<1>7. Offers'
  <2> SUFFICES ASSUME excused' = {} PROVE Offers'
    BY DEF Offers
  <2>1. excused = {} /\ LastHolds' /\ Content' = Content
    BY <1>1 DEF ClipboardInv, Offers, LastHolds, Content
  <2>2. Busy' \cap Pastes = Busy \cap Pastes
    <3>1. w \in Busy
      BY <1>1 DEF Busy
    <3>2. w \in Pastes => selection = Me(w)
      BY <1>1, <2>1, <3>1 DEF ClipboardInv, Offers, Restores
    <3> QED
      BY <1>2, <1>3, <3>1, <3>2 DEF Busy
  <2>3. ASSUME NEW v \in Busy \cap Pastes PROVE Restores(v)'
    <3>1. Restores(v) /\ v \in Writers
      BY <2>1 DEF ClipboardInv, Offers, Busy
    <3> QED
      BY <1>1, <1>2, <1>3, <1>5, <2>2, <3>1 DEF Restores
  <2> QED
    BY <1>1, <2>1, <2>2, <2>3 DEF ClipboardInv, Offers
<1> QED
  BY <1>4, <1>6, <1>7 DEF ClipboardInv

\* Who holds the selection is stopped under the lock by none but who has claimed before.
LEMMA LockIsGood ==
  ASSUME ClipboardInv, NEW w \in Writers, Lock(w)
  PROVE  ClipboardInv'
<1>1. /\ writer[w] = "serving" /\ writer' = [writer EXCEPT ![w] = "joining"]
      /\ guard' = w /\ previous' = current /\ current' = Nobody
      /\ told' = IF current # Nobody THEN told \cup {current} ELSE told
      /\ excused' = excused \cup {"crossed" : p \in {current} \cap {o \in Owners : Sooner(Me(w), o)}}
      /\ UNCHANGED <<selection, claimed, payload, server, nth, before, offered, apps, copied>>
  BY DEF Lock, Moves, Intent
<1>2. /\ writer'[w] = "joining" /\ \A v \in Writers \ {w} : writer'[v] = writer[v]
      /\ writer' \in [Writers -> Stages]
  BY <1>1 DEF ClipboardInv, ClipboardShape, Stages
<1>3. current # Nobody => current \in Owners /\ HasClaimed(current)
  BY DEF ClipboardInv, ClipboardShape, Claimants
<1>4. ClipboardShape'
  BY <1>1, <1>2, <1>3 DEF ClipboardInv, ClipboardShape
<1>5. \A v : Me(v)' = Me(v) /\ (HasClaimed(v)' <=> HasClaimed(v))
  BY <1>1 DEF Me, HasClaimed
<1>6. Claimants'
  <2>1. (\A o \in told' : HasClaimed(o)) /\ current' \notin Owners
    BY <1>1, <1>3, OwnersAre DEF ClipboardInv, Claimants
  <2>2. \A v \in Writers : Me(v) # Nobody
    BY MeIs, OwnersAre DEF ClipboardInv
  <2> QED
    BY <1>1, <1>2, <1>5, <2>1, <2>2 DEF ClipboardInv, Claimants
<1>7. Offers'
  <2> SUFFICES ASSUME excused' = {} PROVE Offers'
    BY DEF Offers
  <2>1. excused = {} /\ LastHolds /\ Content' = Content /\ ~(current \in Owners /\ Sooner(Me(w), current))
    BY <1>1 DEF ClipboardInv, Offers, Content
  <2>2. ASSUME selection \in Owners PROVE selection # current
    <3> SUFFICES ASSUME selection = current PROVE FALSE
      OBVIOUS
    <3>1. Len(claimed) > 0 /\ claimed[Len(claimed)] = current /\ claimed \in Seq(Owners)
      BY <2>1, <2>2 DEF LastHolds, ClipboardInv, ClipboardShape
    <3>2. PICK i \in DOMAIN claimed : claimed[i] = Me(w) /\ current # Me(w)
      BY <1>1 DEF ClipboardInv, Claimants, HasClaimed
    <3>3. i < Len(claimed) /\ Len(claimed) \in DOMAIN claimed
      BY <3>1, <3>2
    <3>4. Sooner(Me(w), current)
      BY <3>1, <3>2, <3>3 DEF Sooner
    <3> QED
      BY <2>1, <2>2, <3>4
  <2>3. LastHolds'
    BY <1>1, <2>1, <2>2 DEF LastHolds
  <2>4. Busy' = Busy
    BY <1>1, <1>2 DEF Busy
  <2>5. ASSUME NEW v \in Busy \cap Pastes PROVE Restores(v)'
    <3>1. Restores(v) /\ v \in Writers
      BY <2>1 DEF ClipboardInv, Offers, Busy
    <3> QED
      BY <1>1, <1>2, <1>5, <2>4, <3>1 DEF Restores
  <2> QED
    BY <1>1, <2>1, <2>3, <2>4, <2>5 DEF ClipboardInv, Offers
<1> QED
  BY <1>4, <1>6, <1>7 DEF ClipboardInv

\* The owner before is gone.
LEMMA JoinIsGood ==
  ASSUME ClipboardInv, NEW w \in Writers, Join(w)
  PROVE  ClipboardInv'
<1> DEFINE after == IF w \in Pastes /\ nth[w] = 1 THEN "pasting" ELSE "over"
<1>1. /\ writer[w] = "joining" /\ writer' = [writer EXCEPT ![w] = after]
      /\ current' = Me(w) /\ guard' = Nobody /\ previous' = Nobody
      /\ UNCHANGED <<payload, server, nth, before, excused, selection, told, claimed, offered, apps, copied>>
  BY DEF Join, Moves, Selected, Intent
<1>2. /\ writer'[w] = after /\ \A v \in Writers \ {w} : writer'[v] = writer[v]
      /\ writer' \in [Writers -> Stages]
  BY <1>1 DEF ClipboardInv, ClipboardShape, Stages
<1>3. Me(w) \in Owners /\ HasClaimed(Me(w)) /\ \A v \in Writers : Me(v) = Me(w) => v = w
  BY <1>1, MeIs DEF ClipboardInv, Claimants
<1>4. ClipboardShape'
  BY <1>1, <1>2, <1>3 DEF ClipboardInv, ClipboardShape
<1>5. \A v : Me(v)' = Me(v) /\ (HasClaimed(v)' <=> HasClaimed(v))
  BY <1>1 DEF Me, HasClaimed
<1>6. Claimants'
  BY <1>1, <1>2, <1>3, <1>5 DEF ClipboardInv, Claimants
<1>7. Offers'
  <2> SUFFICES ASSUME excused' = {} PROVE Offers'
    BY DEF Offers
  <2>1. excused = {} /\ LastHolds' /\ Content' = Content /\ w \in Busy
    BY <1>1 DEF ClipboardInv, Offers, LastHolds, Content, Busy
  <2>2. ASSUME NEW v \in Busy' \cap Pastes PROVE Restores(v)'
    <3>1. v \in Busy \cap Pastes /\ Busy' \subseteq Busy
      BY <1>1, <1>2, <2>1 DEF Busy
    <3>2. Restores(v) /\ v \in Writers
      BY <2>1, <3>1 DEF ClipboardInv, Offers, Busy
    <3> QED
      BY <1>1, <1>2, <1>5, <3>1, <3>2 DEF Restores
  <2>3. ASSUME Busy' \cap Pastes = {} PROVE Content = copied
    <3>1. CASE w \in Pastes
      <4>1. Restores(w) /\ w \in Busy \cap Pastes
        BY <2>1, <3>1 DEF ClipboardInv, Offers
      <4>2. nth[w] = 2
        <5>1. nth[w] = 1 => w \in Busy'
          BY <1>2, <3>1 DEF Busy
        <5> QED
          BY <2>3, <3>1, <5>1, MeIs DEF ClipboardInv
      <4>3. selection = Me(w) /\ Me(w) = <<w, 2>> /\ payload[<<w, 2>>] = copied
        BY <1>1, <4>1, <4>2 DEF Restores, Me
      <4> QED
        BY <1>3, <4>3, OwnersAre DEF Content
    <3>2. CASE w \notin Pastes
      <4>1. Busy \cap Pastes = Busy' \cap Pastes
        BY <1>2, <3>2 DEF Busy
      <4> QED
        BY <2>1, <2>3, <4>1 DEF ClipboardInv, Offers
    <3> QED
      BY <3>1, <3>2
  <2> QED
    BY <1>1, <2>1, <2>2, <2>3 DEF Offers
<1> QED
  BY <1>4, <1>6, <1>7 DEF ClipboardInv

\* The paste writes back what it has read.
LEMMA PastedIsGood ==
  ASSUME ClipboardInv, NEW w \in Writers, Pasted(w)
  PROVE  ClipboardInv'
<1>1. /\ writer[w] = "pasting" /\ w \in Pastes /\ nth[w] = 1
      /\ UNCHANGED <<server, before, excused, selection, told, claimed, offered, apps, copied,
                     current, guard, previous>>
  BY DEF Pasted, Selected, Intent, Guarded, ClipboardInv, Claimants
<1>2. \A o : HasClaimed(o)' <=> HasClaimed(o)
  BY <1>1 DEF HasClaimed
<1>3. ~HasClaimed(<<w, 2>>) /\ <<w, 2>> \in Owners /\ w \in Busy
  BY <1>1, OwnersAre DEF ClipboardInv, Claimants, Busy
<1>4. CASE before[w] = "unread"
  <2>1. writer' = [writer EXCEPT ![w] = "over"] /\ UNCHANGED <<nth, payload>>
    BY <1>4 DEF Pasted, Moves
  <2>2. /\ writer'[w] = "over" /\ \A v \in Writers \ {w} : writer'[v] = writer[v]
        /\ writer' \in [Writers -> Stages]
    BY <2>1 DEF ClipboardInv, ClipboardShape, Stages
  <2>3. ClipboardShape'
    BY <1>1, <2>1, <2>2 DEF ClipboardInv, ClipboardShape
  <2>4. \A v : Me(v)' = Me(v)
    BY <2>1 DEF Me
  <2>5. Claimants'
    BY <1>1, <1>2, <2>1, <2>2, <2>4 DEF ClipboardInv, Claimants
  <2>6. excused' # {}
    <3>1. excused = {} => before[w] = copied
      BY <1>1, <1>3 DEF ClipboardInv, Offers, Restores
    <3>2. copied # "unread"
      BY DEF ClipboardInv, ClipboardShape, Contents
    <3> QED
      BY <1>1, <1>4, <3>1, <3>2
  <2> QED
    BY <2>3, <2>5, <2>6 DEF ClipboardInv, Offers
<1>5. CASE before[w] # "unread"
  <2>1. /\ nth' = [nth EXCEPT ![w] = 2] /\ payload' = [payload EXCEPT ![<<w, 2>>] = before[w]]
        /\ writer' = [writer EXCEPT ![w] = "start"]
    BY <1>5 DEF Pasted, Moves
  <2>2. /\ writer'[w] = "start" /\ \A v \in Writers \ {w} : writer'[v] = writer[v]
        /\ writer' \in [Writers -> Stages]
    BY <2>1 DEF ClipboardInv, ClipboardShape, Stages
  <2>3. /\ nth'[w] = 2 /\ \A v \in Writers \ {w} : nth'[v] = nth[v] /\ Me(v)' = Me(v)
        /\ nth' \in [Writers -> {1, 2}] /\ Me(w)' = <<w, 2>>
    BY <2>1 DEF ClipboardInv, ClipboardShape, Me
  <2>4. /\ payload' \in [Owners -> Contents] /\ payload'[<<w, 2>>] = before[w]
        /\ \A o \in Owners : o # <<w, 2>> => payload'[o] = payload[o]
    BY <1>1, <1>3, <1>5, <2>1 DEF ClipboardInv, ClipboardShape
  <2>5. ClipboardShape'
    BY <1>1, <2>2, <2>3, <2>4 DEF ClipboardInv, ClipboardShape
  <2>6. Claimants'
    <3>1. w \notin Copies
      BY <1>1, ClipboardAssumption
    <3>2. ASSUME NEW v \in Writers
          PROVE  /\ writer'[v] \in {"idle", "start"} => ~HasClaimed(Me(v)')
                 /\ nth'[v] = 1 => ~HasClaimed(<<v, 2>>)
                 /\ writer'[v] \in {"claimed", "serving", "joining"} => HasClaimed(Me(v)') /\ current # Me(v)'
                 /\ writer'[v] = "idle" => nth'[v] = 1
                 /\ writer'[v] = "pasting" => nth'[v] = 1 /\ v \in Pastes
                 /\ v \in Copies => nth'[v] = 1
      BY <1>3, <2>2, <2>3, <3>1 DEF ClipboardInv, Claimants
    <3>3. \A v : HasClaimed(Me(v))' <=> HasClaimed(Me(v)')
      BY <1>1 DEF HasClaimed
    <3> QED
      BY <1>1, <1>2, <3>2, <3>3 DEF ClipboardInv, Claimants
  <2>7. Offers'
    <3> SUFFICES ASSUME excused' = {} PROVE Offers'
      BY DEF Offers
    <3>1. excused = {} /\ LastHolds' /\ Restores(w)
      BY <1>1, <1>3 DEF ClipboardInv, Offers, LastHolds
    <3>2. Busy' = Busy
      BY <1>1, <2>2 DEF Busy
    <3>3. Restores(w)'
      BY <1>1, <2>2, <2>3, <2>4, <3>1, <3>2 DEF Restores
    <3>4. \A v \in Busy' \cap Pastes : v = w
      BY <3>1, <3>2 DEF Restores
    <3> QED
      BY <1>1, <1>3, <3>1, <3>2, <3>3, <3>4 DEF Offers
  <2> QED
    BY <2>5, <2>6, <2>7 DEF ClipboardInv
<1> QED
  BY <1>4, <1>5

\* A paste breaks off.
LEMMA FailsIsGood ==
  ASSUME ClipboardInv, NEW w \in Writers, PasteFails(w)
  PROVE  ClipboardInv'
<1>1. /\ writer[w] = "pasting" /\ writer' = [writer EXCEPT ![w] = "over"] /\ excused' = excused \cup {"unread"}
      /\ UNCHANGED <<payload, server, nth, before, selection, told, claimed, offered, apps, copied,
                     current, guard, previous>>
  BY DEF PasteFails, Moves, Selected, Intent, Guarded
<1>2. /\ writer'[w] = "over" /\ \A v \in Writers \ {w} : writer'[v] = writer[v]
      /\ writer' \in [Writers -> Stages]
  BY <1>1 DEF ClipboardInv, ClipboardShape, Stages
<1>3. ClipboardShape'
  BY <1>1, <1>2 DEF ClipboardInv, ClipboardShape
<1>4. \A v : Me(v)' = Me(v) /\ (HasClaimed(v)' <=> HasClaimed(v))
  BY <1>1 DEF Me, HasClaimed
<1>5. Claimants'
  BY <1>1, <1>2, <1>4 DEF ClipboardInv, Claimants
<1> QED
  BY <1>1, <1>3, <1>5 DEF ClipboardInv, Offers

\* A thread that ends has been told, and who has the selection has not.
LEMMA EndsIsGood ==
  ASSUME ClipboardInv, NEW o \in Owners, ServerEnds(o)
  PROVE  ClipboardInv'
<1>1. /\ o \in told /\ server' = [server EXCEPT ![o] = "ended"]
      /\ selection' = IF selection = o THEN Nobody ELSE selection
      /\ UNCHANGED <<told, claimed, payload, writer, nth, before, excused, offered, apps, copied,
                     current, guard, previous>>
  BY DEF ServerEnds, Intent, Guarded
<1>2. ClipboardShape'
  BY <1>1 DEF ClipboardInv, ClipboardShape
<1>3. \A v : Me(v)' = Me(v) /\ (HasClaimed(v)' <=> HasClaimed(v))
  BY <1>1 DEF Me, HasClaimed
<1>4. Claimants'
  <2>1. selection' \in Owners => selection' = selection
    BY <1>1, OwnersAre
  <2> QED
    BY <1>1, <1>3, <2>1 DEF ClipboardInv, Claimants
<1>5. Offers'
  <2> SUFFICES ASSUME excused' = {} PROVE Offers'
    BY DEF Offers
  <2>1. selection' = selection
    BY <1>1 DEF ClipboardInv, Offers, LastHolds
  <2>2. Busy' = Busy /\ Content' = Content /\ (LastHolds' <=> LastHolds)
    BY <1>1, <2>1 DEF Busy, Content, LastHolds
  <2>3. ASSUME NEW v \in Busy \cap Pastes, Restores(v) PROVE Restores(v)'
    BY <1>1, <1>3, <2>1, <2>2, <2>3 DEF Restores
  <2> QED
    BY <1>1, <2>2, <2>3 DEF ClipboardInv, Offers
<1> QED
  BY <1>2, <1>4, <1>5 DEF ClipboardInv

\* Every step keeps the invariant.
LEMMA ClipboardStepIsGood == ClipboardInv /\ [ClipboardNext]_clipboardVars => ClipboardInv'
<1> SUFFICES ASSUME ClipboardInv, [ClipboardNext]_clipboardVars PROVE ClipboardInv'
  OBVIOUS
<1>1. CASE UNCHANGED clipboardVars
  BY <1>1 DEF clipboardVars, ClipboardInv, ClipboardShape, Claimants, HasClaimed, Me, Offers, LastHolds,
              Content, Busy, Restores
<1>2. CASE ClipboardNext
  BY <1>2, AppIsGood, ReadIsGood, BeginIsGood, ClaimIsGood, VerifyIsGood, LockIsGood, JoinIsGood, PastedIsGood,
     FailsIsGood, EndsIsGood DEF ClipboardNext
<1> QED
  BY <1>1, <1>2

\* Hence it always holds.
LEMMA ClipboardIsGood == ClipboardSpec => []ClipboardInv
BY ClipboardInitIsGood, ClipboardStepIsGood, PTL DEF ClipboardSpec

\* What the invariant says of the properties.
LEMMA ClipboardInvSays == ClipboardInv => ClipboardTypeOK /\ LastCopyIsOffered
<1>1. ClipboardInv => ClipboardTypeOK
  BY DEF ClipboardInv, ClipboardShape, ClipboardTypeOK, Stages
<1>2. ClipboardInv => LastCopyIsOffered
  BY DEF ClipboardInv, Offers, LastCopyIsOffered
<1> QED
  BY <1>1, <1>2

\* The state of the clipboard keeps its shape.
THEOREM ClipboardTypeCorrect == ClipboardSpec => []ClipboardTypeOK
BY ClipboardIsGood, ClipboardInvSays, PTL

\* For any number of writes, pastes and applications, and any order of their claims.
THEOREM LastCopyStays == ClipboardSpec => []LastCopyIsOffered
BY ClipboardIsGood, ClipboardInvSays, PTL

-----------------------------------------------------------------------------
(* The passwords.                                                          *)

\* How many wrong passwords ago the last pause was.
Since == IF locked_until > 0 THEN Tries ELSE failed

\* The n-th of the wrong passwords, counted from the last, which is 0.
Ago(s, n) == s[Len(s) - n]

\* The lock is a lockout after the last one.
LockedByLast ==
  locked_until > 0 => /\ wrong # <<>> /\ failed = 0
                      /\ locked_until = Ago(wrong, 0) + Lockout

\* The counter forgets none but those before a pause.
PauseBefore ==
  /\ Since <= Len(wrong) /\ Len(wrong) <= Tries + 1
  /\ Since = 0 => wrong = <<>>
  /\ 0 < Since /\ Since < Len(wrong) => Ago(wrong, Since - 1) >= Ago(wrong, Since) + Lockout

\* What is proved together.
AuthInv == AuthTypeOK /\ LockedByLast /\ PauseBefore

-----------------------------------------------------------------------------
\* What is kept of the wrong passwords, counted from the last.
LEMMA NotedShape ==
  ASSUME AuthTypeOK, Len(wrong) <= Tries + 1, NEW now \in 1..MaxTime
  PROVE  /\ Noted(now) \in Seq(1..MaxTime)
         /\ Noted(now) # <<>>
         /\ Len(Noted(now)) = IF Len(wrong) = Tries + 1 THEN Tries + 1 ELSE Len(wrong) + 1
         /\ Ago(Noted(now), 0) = now
         /\ \A n \in 1..Len(Noted(now)) - 1 : Ago(Noted(now), n) = Ago(wrong, n - 1)
<1> DEFINE all == Append(wrong, now)
<1>1. wrong \in Seq(1..MaxTime) /\ Len(wrong) \in Nat /\ Tries \in Nat \ {0}
  BY AuthAssumption DEF AuthTypeOK
<1>2. /\ all \in Seq(1..MaxTime)
      /\ Len(all) = Len(wrong) + 1
      /\ all[Len(wrong) + 1] = now
      /\ \A i \in 1..Len(wrong) : all[i] = wrong[i]
  BY <1>1
<1>3. CASE Len(all) > Tries + 1
  <2>1. Noted(now) = Tail(all) /\ all # <<>>
    BY <1>1, <1>2, <1>3 DEF Noted
  <2>2. /\ Tail(all) \in Seq(1..MaxTime)
        /\ Len(Tail(all)) = Len(wrong)
        /\ \A i \in 1..Len(wrong) : Tail(all)[i] = all[i + 1]
    BY <1>1, <1>2, <2>1
  <2>3. Len(wrong) = Tries + 1
    BY <1>1, <1>2, <1>3
  <2> HIDE DEF all
  <2>4. Ago(Tail(all), 0) = now
    BY <1>1, <1>2, <2>2, <2>3 DEF Ago
  <2>5. ASSUME NEW n \in 1..Len(wrong) - 1 PROVE Ago(Tail(all), n) = Ago(wrong, n - 1)
    BY <1>1, <1>2, <2>2, <2>3 DEF Ago
  <2> QED
    BY <1>1, <2>1, <2>2, <2>3, <2>4, <2>5
<1>4. CASE Len(all) <= Tries + 1
  <2>1. Noted(now) = all
    BY <1>1, <1>2, <1>4 DEF Noted
  <2> HIDE DEF all
  <2>2. Ago(all, 0) = now
    BY <1>1, <1>2 DEF Ago
  <2>3. ASSUME NEW n \in 1..Len(wrong) PROVE Ago(all, n) = Ago(wrong, n - 1)
    BY <1>1, <1>2 DEF Ago
  <2> QED
    BY <1>1, <1>2, <1>4, <2>1, <2>2, <2>3
<1> QED
  BY <1>1, <1>2, <1>3, <1>4

\* What a request has read is a time.
LEMMA AskedIsTime ==
  ASSUME AuthTypeOK, NEW c \in Callers, asked[c] # <<>>
  PROVE  asked[c][1] \in 1..MaxTime
BY DEF AuthTypeOK

-----------------------------------------------------------------------------
\* The invariant holds of the initial state.
LEMMA AuthInitIsGood == AuthInit => AuthInv
BY AuthAssumption DEF AuthInit, AuthInv, AuthTypeOK, LockedByLast, PauseBefore, Since

\* A step that touches neither the counter, nor the lock, nor the notes.
LEMMA SameNotes ==
  ASSUME AuthInv, UNCHANGED <<failed, locked_until, wrong>>, AuthTypeOK'
  PROVE  AuthInv'
BY DEF AuthInv, LockedByLast, PauseBefore, Since, Ago

\* A wrong password: the new note is the first since a pause when there was a
\* lock, and one more of those since the pause when there was none.
LEMMA WrongIsGood ==
  ASSUME AuthInv, NEW c \in Callers, Wrong(c)
  PROVE  AuthInv'
<1> DEFINE now == asked[c][1]
<1> DEFINE n == (IF locked_until > 0 THEN 0 ELSE failed) + 1
<1>1. /\ now \in 1..MaxTime /\ AuthTypeOK
      /\ Tries \in Nat \ {0} /\ Lockout \in Nat /\ MaxTime \in Nat \ {0}
      /\ failed \in 0..Tries - 1 /\ locked_until \in 0..MaxTime + Lockout
      /\ n \in 1..Tries
  BY AuthAssumption, AskedIsTime DEF AuthInv, AuthTypeOK, Wrong
<1>2. /\ IF n >= Tries THEN failed' = 0 /\ locked_until' = now + Lockout
                       ELSE failed' = n /\ locked_until' = 0
      /\ wrong' = Noted(now)
      /\ Answered(c) /\ ~Barred(c)
  BY DEF Wrong
<1>3. /\ wrong' \in Seq(1..MaxTime) /\ wrong' # <<>> /\ Len(wrong') \in Nat /\ Len(wrong) \in Nat
      /\ Len(wrong') = IF Len(wrong) = Tries + 1 THEN Tries + 1 ELSE Len(wrong) + 1
      /\ Ago(wrong', 0) = now
      /\ \A k \in 1..Len(wrong') - 1 : Ago(wrong', k) = Ago(wrong, k - 1)
  <2> HIDE DEF now
  <2>1. Len(wrong) <= Tries + 1 /\ Len(wrong) \in Nat
    BY <1>1 DEF AuthInv, PauseBefore, AuthTypeOK
  <2>2. wrong' = Noted(now)
    BY <1>2
  <2>3. /\ Noted(now) \in Seq(1..MaxTime) /\ Noted(now) # <<>>
        /\ Len(Noted(now)) = IF Len(wrong) = Tries + 1 THEN Tries + 1 ELSE Len(wrong) + 1
        /\ Ago(Noted(now), 0) = now
        /\ \A k \in 1..Len(Noted(now)) - 1 : Ago(Noted(now), k) = Ago(wrong, k - 1)
    BY <1>1, <2>1, NotedShape
  <2> QED
    BY <2>1, <2>2, <2>3
<1> HIDE DEF now
<1>4. Since' = n
  <2>1. CASE n >= Tries
    <3>1. n = Tries /\ locked_until' = now + Lockout /\ now + Lockout > 0
      BY <1>1, <1>2, <2>1
    <3> QED
      BY <3>1 DEF Since
  <2>2. CASE ~(n >= Tries)
    <3>1. failed' = n /\ locked_until' = 0
      BY <1>1, <1>2, <2>2
    <3> QED
      BY <3>1 DEF Since
  <2> QED
    BY <2>1, <2>2
<1>5. AuthTypeOK'
  <2>1. asked' \in [Callers -> {<<>>} \cup {<<t>> : t \in 1..MaxTime}] /\ clock' \in 1..MaxTime
    BY <1>1, <1>2 DEF Answered, AuthTypeOK
  <2>2. failed' \in 0..Tries - 1 /\ locked_until' \in 0..MaxTime + Lockout
    BY <1>1, <1>2
  <2> QED
    BY <1>3, <2>1, <2>2 DEF AuthTypeOK
<1>6. LockedByLast'
  BY <1>1, <1>2, <1>3 DEF LockedByLast
<1>7. PauseBefore'
  <2>1. Len(wrong) <= Tries + 1 /\ Since <= Len(wrong)
    BY DEF AuthInv, PauseBefore
  <2>2. Since' <= Len(wrong') /\ Len(wrong') <= Tries + 1 /\ Since' > 0
    <3>1. CASE locked_until > 0
      BY <1>1, <1>3, <1>4, <2>1, <3>1
    <3>2. CASE ~(locked_until > 0)
      <4>1. n = failed + 1 /\ Since = failed
        BY <3>2 DEF Since
      <4> HIDE DEF n
      <4> QED
        BY <1>1, <1>3, <1>4, <2>1, <4>1
    <3> QED
      BY <3>1, <3>2
  <2>3. ASSUME n < Len(wrong') PROVE Ago(wrong', n - 1) >= Ago(wrong', n) + Lockout
    <3>1. CASE locked_until > 0
      <4>1. n = 1 /\ locked_until = Ago(wrong, 0) + Lockout /\ now >= locked_until
        BY <1>1, <1>2, <3>1 DEF AuthInv, LockedByLast, Barred, now
      <4>2. Ago(wrong', 1) = Ago(wrong, 0)
        BY <1>3, <2>3, <4>1
      <4> QED
        BY <1>3, <4>1, <4>2
    <3>2. CASE ~(locked_until > 0)
      <4>1. n = failed + 1 /\ Since = failed
        BY <3>2 DEF Since
      <4>2. failed > 0
        <5>1. wrong # <<>>
          BY <1>1, <1>3, <2>3
        <5> QED
          BY <1>1, <4>1, <5>1 DEF AuthInv, PauseBefore
      <4>3. failed < Len(wrong)
        BY <1>1, <1>3, <2>3, <4>1
      <4>4. Ago(wrong', n) = Ago(wrong, failed) /\ Ago(wrong', n - 1) = Ago(wrong, failed - 1)
        BY <1>1, <1>3, <2>3, <4>1, <4>2
      <4> QED
        BY <4>1, <4>2, <4>3, <4>4 DEF AuthInv, PauseBefore
    <3> QED
      BY <3>1, <3>2
  <2> HIDE DEF n
  <2> QED
    BY <1>1, <1>4, <2>2, <2>3 DEF PauseBefore
<1> QED
  BY <1>5, <1>6, <1>7 DEF AuthInv

\* Every step keeps the invariant.
LEMMA AuthStepIsGood == AuthInv /\ [AuthNext]_authVars => AuthInv'
<1> SUFFICES ASSUME AuthInv, [AuthNext]_authVars PROVE AuthInv'
  OBVIOUS
<1>1. ASSUME NEW c \in Callers, Ask(c) PROVE AuthInv'
  <2>1. AuthTypeOK'
    BY <1>1 DEF Ask, AuthInv, AuthTypeOK
  <2> QED
    BY <1>1, <2>1, SameNotes DEF Ask
<1>2. ASSUME NEW c \in Callers, TurnedAway(c) PROVE AuthInv'
  <2>1. AuthTypeOK'
    BY <1>2 DEF TurnedAway, Answered, AuthInv, AuthTypeOK
  <2> QED
    BY <1>2, <2>1, SameNotes DEF TurnedAway
<1>3. ASSUME NEW c \in Callers, Right(c) PROVE AuthInv'
  BY <1>3, AuthAssumption
  DEF Right, Answered, AuthInv, AuthTypeOK, LockedByLast, PauseBefore, Since
<1>4. ASSUME NEW c \in Callers, Wrong(c) PROVE AuthInv'
  BY <1>4, WrongIsGood
<1>5. CASE Tick
  <2>1. AuthTypeOK'
    BY <1>5, AuthAssumption DEF Tick, AuthInv, AuthTypeOK
  <2> QED
    BY <1>5, <2>1, SameNotes DEF Tick
<1>6. CASE UNCHANGED authVars
  <2>1. AuthTypeOK'
    BY <1>6 DEF authVars, AuthInv, AuthTypeOK
  <2> QED
    BY <1>6, <2>1, SameNotes DEF authVars
<1> QED
  BY <1>1, <1>2, <1>3, <1>4, <1>5, <1>6 DEF AuthNext

\* Where more wrong passwords are kept than lock, the pause is among them.
LEMMA PauseIsKept == AuthInv => GuessesAreSlow
<1> SUFFICES ASSUME AuthInv, Len(wrong) > Tries
             PROVE  \E i \in 1..Tries : wrong[i + 1] >= wrong[i] + Lockout
  BY DEF GuessesAreSlow
<1>1. /\ Tries \in Nat \ {0} /\ Len(wrong) \in Nat /\ Len(wrong) = Tries + 1
      /\ Since \in 0..Tries
  BY AuthAssumption DEF AuthInv, AuthTypeOK, PauseBefore, Since
<1>2. Since > 0
  BY <1>1 DEF AuthInv, PauseBefore
<1>3. Ago(wrong, Since - 1) >= Ago(wrong, Since) + Lockout
  BY <1>1, <1>2 DEF AuthInv, PauseBefore
<1>4. wrong[(Tries + 1 - Since) + 1] >= wrong[Tries + 1 - Since] + Lockout
  <2>1. Len(wrong) - (Since - 1) = (Tries + 1 - Since) + 1 /\ Len(wrong) - Since = Tries + 1 - Since
    BY <1>1
  <2> QED
    BY <1>3, <2>1 DEF Ago
<1>5. Tries + 1 - Since \in 1..Tries
  BY <1>1, <1>2
<1> QED
  BY <1>4, <1>5

-----------------------------------------------------------------------------
\* Every state has its shape.
THEOREM AuthTypeCorrect == AuthSpec => []AuthTypeOK
<1>1. AuthInv => AuthTypeOK
  BY DEF AuthInv
<1> QED
  BY <1>1, AuthInitIsGood, AuthStepIsGood, PTL DEF AuthSpec

\* However the requests overtake each other between the clock and the lock
\* (verify_passwd), of more wrong passwords than lock two are a lockout apart.
THEOREM GuessingIsSlow == AuthSpec => []GuessesAreSlow
<1> QED
  BY AuthInitIsGood, AuthStepIsGood, PauseIsKept, PTL DEF AuthSpec

-----------------------------------------------------------------------------
(* All of them.                                                            *)

\* What is known of the parts, whichever of them moves.
DesktopInv ==
  /\ CameraInv /\ Minded /\ WheelInv /\ MicInv /\ Bounded
  /\ AudioInv /\ ClipboardInv /\ ParserInv /\ AuthInv

\* The invariants of the parts hold when they begin; the camera that nobody uses
\* could be in the midst of its work.
LEMMA DesktopInitIsGood == DesktopInit => DesktopInv
<1> SUFFICES ASSUME DesktopInit PROVE DesktopInv
  OBVIOUS
<1>1. WheelInv /\ MicInv /\ Bounded /\ AudioInv /\ ClipboardInv /\ ParserInv /\ AuthInv
  BY WheelInitIsGood, MicInitIsGood, BoundedAtFirst, AudioInitIsGood, ClipboardInitIsGood,
     ParserInitIsGood, AuthInitIsGood DEF DesktopInit
<1>2. CASE CameraInit
  BY <1>1, <1>2, CameraInitIsGood, InitIsMinded DEF DesktopInv
<1>3. CASE CameraRests
  <2> USE <1>3 DEF CameraRests
  <2>1. CameraShape
    <3>1. <<>> \in Seq(Commands)
      OBVIOUS
    <3>2. worker \in [at : {"waiting"}, try : 1..2]
      OBVIOUS
    <3> QED
      BY <3>1, <3>2 DEF CameraShape
  <2>2. QueueBound
    BY CameraAssumption DEF QueueBound
  <2>3. HandFits /\ RunsFit /\ NothingMissed
    BY DEF HandFits, RunsFit, NothingMissed
  <2>4. Minded
    BY CommandsMade, CameraAssumption, EmptyLeaves DEF Minded, Remains
  <2> QED
    BY <1>1, <2>1, <2>2, <2>3, <2>4 DEF DesktopInv, CameraInv
<1> QED
  BY <1>2, <1>3 DEF DesktopInit

\* A step is a step of one part, and the others stand still.
LEMMA DesktopStepIsGood == DesktopInv /\ [DesktopNext]_desktopVars => DesktopInv'
<1> SUFFICES ASSUME DesktopInv, [DesktopNext]_desktopVars PROVE DesktopInv'
  OBVIOUS
<1>1. [CameraNext]_cameraVars /\ [WheelNext]_wheelVars /\ [MicNext]_micVars
  BY DEF DesktopNext, desktopVars, deviceVars
<1>2. [AudioNext]_audioVars /\ [ClipboardNext]_clipboardVars /\ [ParserNext]_parserVars /\ [AuthNext]_authVars
  BY DEF DesktopNext, desktopVars, deviceVars, serviceVars
<1> QED
  BY <1>1, <1>2, CameraStepIsGood, StepIsMinded, WheelStepIsGood, MicStepIsGood, BoundedIsKept,
     AudioStepIsGood, ClipboardStepIsGood, ParserStepIsGood, AuthStepIsGood DEF DesktopInv

\* It goes on for ever.
LEMMA DesktopIsGood == DesktopSpec => []DesktopInv
BY DesktopInitIsGood, DesktopStepIsGood, PTL DEF DesktopSpec

\* The parts that stand around the sessions are beside each other what they are alone:
\* each keeps its shape.
THEOREM DesktopTypeCorrect == DesktopSpec => []DesktopTypeOK
<1>1. DesktopInv => DesktopTypeOK
  BY CameraInvSays, WheelInvSays, MicInvSays, AudioInvSays, ClipboardInvSays DEF DesktopInv, AuthInv, DesktopTypeOK
<1> QED
  BY <1>1, DesktopIsGood, PTL

\* And each has its properties, of which the run of MCDesktop shows an instance.
THEOREM DesktopIsSound ==
  DesktopSpec => [](/\ OneWriter /\ RelayIsMinded
                    /\ WheelIsAwake /\ StepsFollowWheel
                    /\ MicStreamsApart /\ MicIsMinded
                    /\ SoundIsHeard /\ LastCopyIsOffered
                    /\ CutsDoNotMatter /\ SetsAreWhole /\ GuessesAreSlow)
<1>1. DesktopInv => /\ OneWriter /\ RelayIsMinded
                    /\ WheelIsAwake /\ StepsFollowWheel
                    /\ MicStreamsApart /\ MicIsMinded
                    /\ SoundIsHeard /\ LastCopyIsOffered
                    /\ CutsDoNotMatter /\ SetsAreWhole /\ GuessesAreSlow
  BY CameraInvSays, MindedIs, WheelInvSays, MicInvSays, AudioInvSays, ClipboardInvSays,
     ParserInvSays, PauseIsKept DEF DesktopInv
<1> QED
  BY <1>1, DesktopIsGood, PTL
=============================================================================
