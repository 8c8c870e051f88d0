-------------------------- MODULE Connections_proofs --------------------------
(***************************************************************************)
(* What is proved of how a connection ends: of the input sessions, for any *)
(* number of them, of keys, logical modifiers and buttons; of the launcher,*)
(* for any modes the user may choose and any groups with other members; of *)
(* the registry of the clients, for any clients, roles, connections and    *)
(* channels; of the peer behind a WebRTC connection, for any bound of its  *)
(* queue.  At the end, the parts of MCConnections beside each other.       *)
(***************************************************************************)
EXTENDS MCConnections, FiniteSetTheorems, SequenceTheorems, TLAPS

------------------------------------------------------------------------------
(***************************************************************************)
(* The input sessions.                                                     *)
(*                                                                         *)
(* What a session claims to hold covers the keyboard, but only because of  *)
(* where the receiver can be: a plan is dropped half-way only where it has *)
(* no release left, and that rests on unmapped keys never being among the  *)
(* pressed ones while the receiver works, nor among those a key event      *)
(* presses on the side.  Shape says that.                                  *)
(***************************************************************************)

Stopped == {"off", "over", "cleaning"}
Working == {"off", "listening", "waiting", "replying", "applying"}

Shape ==
  \A s \in Sessions :
    /\ stage[s] \in {"off", "listening", "waiting", "replying", "leaving", "over"} => plan[s].release = {}
    /\ stage[s] \in Stopped => pressed[s] = {}
    /\ stage[s] = "cleaning" => plan[s].press = {} /\ plan[s].key = None
    /\ stage[s] \in Working => (pressed[s] \cup plan[s].release) \cap Unmapped = {}
    /\ plan[s].key # None => plan[s].press \subseteq Modifiers

\* Some receiver that may still sweep the buttons, or never will, accounts for
\* a button that is down.
ButtonsHaveOwner ==
  buttonsDown # {} => \E s \in Sessions : stage[s] \notin {"off", "cleaning", "over", "cut"}

\* A session alone on the display remembers only keys that are down.
LonePressedIsDown ==
  \A s \in Sessions :
    /\ stage[s] \in {"listening", "waiting", "replying", "applying"}
    /\ \A t \in Sessions \ {s} : stage[t] = "off"
    => pressed[s] \subseteq keysDown

IInv ==
  /\ TypeOK
  /\ Shape
  /\ HeldIsClaimed
  /\ ButtonsHaveOwner
  /\ LonePressedIsDown

-----------------------------------------------------------------------------
\* Facts about the constants and the two plans that are not read from the state.
LEMMA KeysAreKeys ==
  /\ Modifiers \subseteq Keys /\ Plain \subseteq Keys
  /\ None \notin Keys
  /\ Modifiers \cap Unmapped = {}
  /\ NoPlan \in Plans
  /\ \A l \in Logicals : Keysyms[l] \subseteq Modifiers /\ Fallback[l] \in Keysyms[l]
BY InputAssumption DEF Keys, Modifiers, NoPlan, Plans

\* The modifiers an event brings in line: those to release are pressed, those to
\* press have no pressed key in their family.
LEMMA SyncPlan ==
  ASSUME TypeOK, NEW s \in Sessions, NEW k, NEW flags \in SUBSET Logicals
  PROVE  /\ SyncModifiers(s, flags, k).release \subseteq pressed[s] \cap Modifiers
         /\ SyncModifiers(s, flags, k).press \in SUBSET Modifiers
         /\ Missing(s, flags) \in SUBSET Modifiers
         /\ Missing(s, flags) \cap pressed[s] = {}
<1>1. ASSUME NEW fs \in SUBSET Logicals
      PROVE  Missing(s, fs) \in SUBSET Modifiers /\ Missing(s, fs) \cap pressed[s] = {}
  BY <1>1, KeysAreKeys DEF Missing
<1>2. Others(k) \cap flags \in SUBSET Logicals
  BY DEF Others
<1>3. SyncModifiers(s, flags, k).press = Missing(s, Others(k) \cap flags)
  BY DEF SyncModifiers
<1>4. SyncModifiers(s, flags, k).release =
        pressed[s] \cap UNION {Keysyms[l] : l \in Others(k) \ flags}
  BY DEF SyncModifiers
<1>5. UNION {Keysyms[l] : l \in Others(k) \ flags} \subseteq Modifiers
  BY KeysAreKeys DEF Others
<1>. QED  BY <1>1, <1>2, <1>3, <1>4, <1>5

\* What a message or the watchdog does when it begins an operation: the keyboard
\* is left alone, and every pressed key stays remembered or planned for release.
Begins(s) ==
  /\ stage[s] = "listening"
  /\ stage' = [stage EXCEPT ![s] = "applying"]
  /\ keysDown' = keysDown
  /\ buttonsDown' \in SUBSET buttonsDown
  /\ UNCHANGED <<armed, transport, supervisor>>
  /\ \E p \in Plans, ks \in SUBSET pressed[s] :
       /\ plan' = [plan EXCEPT ![s] = p]
       /\ pressed' = [pressed EXCEPT ![s] = ks]
       /\ pressed[s] \subseteq ks \cup p.release
       /\ p.release \subseteq pressed[s] \cup Modifiers
       /\ p.key # None => p.press \subseteq Modifiers

LEMMA OperationsBegin ==
  ASSUME TypeOK, NEW s \in Sessions,
         \/ \E k \in Keys, down \in BOOLEAN, flags \in (SUBSET Logicals) \cup {None} :
              Key(s, k, down, flags)
         \/ \E desired \in SUBSET Keys : KeyState(s, desired)
         \/ ResetInput(s)
         \/ KeyWatchdog(s)
  PROVE  Begins(s)
<1>. USE KeysAreKeys DEF Begins, Go, Plan, Note, Outer, Receives
<1>0. pressed[s] \in SUBSET Keys /\ pressed = [pressed EXCEPT ![s] = pressed[s]]
  BY DEF TypeOK
<1>1. ASSUME NEW k \in Keys, NEW down \in BOOLEAN,
             NEW flags \in (SUBSET Logicals) \cup {None}, Key(s, k, down, flags)
      PROVE  Begins(s)
  <2>. DEFINE sync == IF flags = None THEN NoPlan ELSE SyncModifiers(s, flags, k)
              p    == [release |-> sync.release, press |-> sync.press, key |-> k, down |-> down]
  <2>1. /\ sync.release \subseteq pressed[s]
        /\ sync.press \in SUBSET Modifiers
    <3>1. CASE flags = None
      BY <3>1 DEF NoPlan
    <3>2. CASE flags # None
      BY <3>2, SyncPlan
    <3>. QED  BY <3>1, <3>2
  <2>2. p \in Plans /\ p.release \subseteq pressed[s] /\ p.press \subseteq Modifiers
    BY <1>0, <2>1 DEF Plans
  <2>3. plan' = [plan EXCEPT ![s] = p]
    BY <1>1 DEF Key
  <2>. HIDE DEF p
  <2>. QED  BY <1>0, <1>1, <2>2, <2>3 DEF Key
<1>2. ASSUME NEW desired \in SUBSET Keys, KeyState(s, desired)
      PROVE  Begins(s)
  <2>. DEFINE p == [NoPlan EXCEPT !.release = pressed[s] \ desired,
                                  !.press = desired \ pressed[s]]
  <2>1. p \in Plans /\ p.release \subseteq pressed[s] /\ p.key = None
    BY <1>0 DEF Plans, NoPlan
  <2>. QED  BY <1>0, <1>2, <2>1 DEF KeyState
<1>3. CASE ResetInput(s)
  <2>. DEFINE p == [NoPlan EXCEPT !.release = pressed[s] \cup Modifiers]
  <2>1. p \in Plans /\ p.release = pressed[s] \cup Modifiers /\ p.key = None
    BY <1>0 DEF Plans, NoPlan
  <2>. QED  BY <1>0, <1>3, <2>1 DEF ResetInput, Reset
<1>4. CASE KeyWatchdog(s)
  <2>. DEFINE p == [NoPlan EXCEPT !.release = pressed[s]]
  <2>1. p \in Plans /\ p.release = pressed[s] /\ p.key = None
    BY <1>0 DEF Plans, NoPlan
  <2>. QED  BY <1>0, <1>4, <2>1 DEF KeyWatchdog
<1>. QED  BY <1>1, <1>2, <1>3, <1>4

\* The end of a receiver begins the same way, from where it stands.
LEMMA CleanupBegins ==
  ASSUME TypeOK, NEW s \in Sessions, Cleanup(s)
  PROVE  /\ stage[s] \in {"listening", "leaving"}
         /\ stage' = [stage EXCEPT ![s] = "cleaning"]
         /\ keysDown' = keysDown /\ buttonsDown' = {}
         /\ UNCHANGED <<armed, transport, supervisor>>
         /\ pressed' = [pressed EXCEPT ![s] = {}]
         /\ \E p \in Plans :
              /\ plan' = [plan EXCEPT ![s] = p]
              /\ p.release = pressed[s] \cup Modifiers
              /\ p.press = {} /\ p.key = None
<1>. DEFINE p == [NoPlan EXCEPT !.release = pressed[s] \cup Modifiers]
<1>1. p \in Plans /\ p.release = pressed[s] \cup Modifiers /\ p.press = {} /\ p.key = None
  BY KeysAreKeys DEF TypeOK, Plans, NoPlan
<1>. QED  BY <1>1 DEF Cleanup, Reset, Go, Note, Plan, Outer

\* What one event of a plan does to the plan.
LEMMA KeyEvent ==
  ASSUME TypeOK, NEW s \in Sessions, NEW k \in Keys, ReleaseKey(s, k) \/ PressKey(s, k)
  PROVE  \E p \in Plans :
           /\ plan' = [plan EXCEPT ![s] = p]
           /\ p.key = plan[s].key
           /\ ReleaseKey(s, k) => p.release = plan[s].release \ {k} /\ p.press = plan[s].press
           /\ PressKey(s, k) => p.release = plan[s].release /\ p.press = plan[s].press \ {k}
<1>. plan[s] \in Plans
  BY DEF TypeOK
<1>1. CASE ReleaseKey(s, k)
  <2>. DEFINE p == [plan[s] EXCEPT !.release = @ \ {k}]
  <2>1. /\ p \in Plans /\ p.key = plan[s].key
        /\ p.release = plan[s].release \ {k} /\ p.press = plan[s].press
    BY DEF Plans
  <2>2. plan' = [plan EXCEPT ![s] = p]
    BY <1>1 DEF ReleaseKey, Plan
  <2>3. PressKey(s, k) => p.release = plan[s].release /\ p.press = plan[s].press \ {k}
    BY <1>1 DEF ReleaseKey, PressKey, FirstReleases, FirstPresses
  <2>. QED  BY <2>1, <2>2, <2>3
<1>2. CASE PressKey(s, k) /\ ~ReleaseKey(s, k)
  <2>. DEFINE p == [plan[s] EXCEPT !.press = @ \ {k}]
  <2>1. /\ p \in Plans /\ p.key = plan[s].key
        /\ p.release = plan[s].release /\ p.press = plan[s].press \ {k}
    BY DEF Plans
  <2>2. plan' = [plan EXCEPT ![s] = p]
    BY <1>2 DEF PressKey, Plan
  <2>. QED  BY <1>2, <2>1, <2>2
<1>. QED  BY <1>1, <1>2

\* The supervisor and the connection do not touch the keyboard or the receiver.
Around == UNCHANGED <<keysDown, buttonsDown, pressed, armed, plan, stage>>

Taps(s) ==
  \E k \in Keys, down \in BOOLEAN, flags \in (SUBSET Logicals) \cup {None} :
    LoneRelease(s, k, down, flags) /\ TapWithModifiers(s, k, flags)

Types(s) == \E ks \in SUBSET (Keys \ Unmapped) : TypeText(s, ks)

\* Every step is one of these.
LEMMA NextCases ==
  ASSUME TypeOK, Next
  PROVE  \E s \in Sessions :
           \/ Begins(s) \/ Taps(s) \/ Types(s)
           \/ \E b \in Buttons, down \in BOOLEAN : PointerButton(s, b, down)
           \/ Await(s) \/ Resume(s) \/ Reply(s)
           \/ \E k \in Keys : ReleaseKey(s, k)
           \/ \E k \in Keys : PressKey(s, k)
           \/ Strike(s) \/ Finish(s) \/ EventFails(s) \/ Cleanup(s)
           \/ Connect(s) \/ AbortReceiver(s)
           \/ Around /\ \/ \E to \in {"closing", "finishing"} :
                             supervisor' = [supervisor EXCEPT ![s] = to] /\ UNCHANGED transport
                        \/ \E to \in {"silent", "broken"} :
                             transport' = [transport EXCEPT ![s] = to] /\ UNCHANGED supervisor
<1>1. PICK s \in Sessions :
        \/ Connect(s) \/ Message(s) \/ KeyWatchdog(s) \/ Proceed(s) \/ Reply(s)
        \/ CloseClient(s) \/ CloseSent(s) \/ TaskEnded(s) \/ ForwarderFails(s)
        \/ AbortReceiver(s) \/ GoSilent(s) \/ Break(s)
  BY DEF Next
<1>2. ASSUME Message(s)
      PROVE  \/ Begins(s) \/ Taps(s) \/ Types(s) \/ Await(s)
             \/ \E b \in Buttons, down \in BOOLEAN : PointerButton(s, b, down)
  BY <1>2, OperationsBegin DEF Message, Taps, Types
<1>3. ASSUME KeyWatchdog(s) PROVE Begins(s)
  BY <1>3, OperationsBegin
<1>4. ASSUME CloseClient(s) \/ CloseSent(s) \/ TaskEnded(s) \/ ForwarderFails(s)
      PROVE  Around /\ \E to \in {"closing", "finishing"} :
               supervisor' = [supervisor EXCEPT ![s] = to] /\ UNCHANGED transport
  BY <1>4 DEF CloseClient, CloseSent, TaskEnded, ForwarderFails, Supervise, Around, Inner
<1>5. ASSUME GoSilent(s) \/ Break(s)
      PROVE  Around /\ \E to \in {"silent", "broken"} :
               transport' = [transport EXCEPT ![s] = to] /\ UNCHANGED supervisor
  BY <1>5 DEF GoSilent, Break, Turn, Around, Inner
<1>. QED  BY <1>1, <1>2, <1>3, <1>4, <1>5 DEF Proceed

-----------------------------------------------------------------------------
(* Types. *)

LEMMA InitInvariant == Init => IInv
<1>. SUFFICES ASSUME Init PROVE IInv
  OBVIOUS
<1>. USE KeysAreKeys DEF Init, NoPlan
<1>1. TypeOK
  BY DEF TypeOK
<1>2. Shape /\ HeldIsClaimed /\ ButtonsHaveOwner /\ LonePressedIsDown
  BY DEF Shape, Stopped, Working, HeldIsClaimed, ButtonsHaveOwner, LonePressedIsDown
<1>. QED  BY <1>1, <1>2 DEF IInv

LEMMA TypeStep == TypeOK /\ [Next]_vars => TypeOK'
<1>. SUFFICES ASSUME TypeOK, [Next]_vars PROVE TypeOK'
  OBVIOUS
<1>. USE KeysAreKeys DEF TypeOK, Go, Plan, Note, Outer, Receives
<1>1. CASE UNCHANGED vars
  BY <1>1 DEF vars
<1>2. ASSUME NEW s \in Sessions, Begins(s) PROVE TypeOK'
  <2>1. \A ks \in SUBSET pressed[s] : [pressed EXCEPT ![s] = ks] \in [Sessions -> SUBSET Keys]
    OBVIOUS
  <2>. QED  BY <1>2, <2>1 DEF Begins
<1>3. ASSUME NEW s \in Sessions, Taps(s) \/ Types(s) PROVE TypeOK'
  BY <1>3 DEF Taps, TapWithModifiers, Types, TypeText
<1>4. ASSUME NEW s \in Sessions, NEW b \in Buttons, NEW down \in BOOLEAN,
             PointerButton(s, b, down)
      PROVE  TypeOK'
  BY <1>4 DEF PointerButton
<1>5. ASSUME NEW s \in Sessions, Await(s) \/ Resume(s) \/ Reply(s) \/ Connect(s) \/ AbortReceiver(s)
      PROVE  TypeOK'
  BY <1>5 DEF Await, Resume, Reply, Connect, AbortReceiver, Inner
<1>6. ASSUME NEW s \in Sessions, NEW k \in Keys, ReleaseKey(s, k) \/ PressKey(s, k)
      PROVE  TypeOK'
  <2>1. \A p \in Plans : [plan EXCEPT ![s] = p] \in [Sessions -> Plans]
    OBVIOUS
  <2>2. plan' \in [Sessions -> Plans]
    BY <1>6, <2>1, KeyEvent
  <2>3. /\ keysDown' \in SUBSET Keys
        /\ pressed' \in [Sessions -> SUBSET Keys]
    BY <1>6 DEF ReleaseKey, PressKey
  <2>4. UNCHANGED <<buttonsDown, armed, stage, transport, supervisor>>
    BY <1>6 DEF ReleaseKey, PressKey
  <2>. QED  BY <2>2, <2>3, <2>4
<1>7. ASSUME NEW s \in Sessions, Strike(s) \/ Finish(s) \/ EventFails(s) PROVE TypeOK'
  <2>1. plan[s].key \in Unmapped => plan[s].key \in Keys
    BY InputAssumption
  <2>2. ASSUME Strike(s) PROVE TypeOK'
    BY <2>2 DEF Strike, NoteKey
  <2>3. ASSUME Finish(s) PROVE TypeOK'
    BY <2>3 DEF Finish
  <2>4. ASSUME EventFails(s) PROVE TypeOK'
    <3>1. pressed' \in [Sessions -> SUBSET Keys]
      BY <2>1, <2>4 DEF EventFails, NoteKey
    <3>. QED  BY <2>4, <3>1 DEF EventFails
  <2>. QED  BY <1>7, <2>2, <2>3, <2>4
<1>8. ASSUME NEW s \in Sessions, Cleanup(s) PROVE TypeOK'
  BY <1>8, CleanupBegins
<1>9. ASSUME NEW s \in Sessions, Around,
             \/ \E to \in {"closing", "finishing"} :
                  supervisor' = [supervisor EXCEPT ![s] = to] /\ UNCHANGED transport
             \/ \E to \in {"silent", "broken"} :
                  transport' = [transport EXCEPT ![s] = to] /\ UNCHANGED supervisor
      PROVE  TypeOK'
  BY <1>9 DEF Around
<1>. QED  BY <1>1, <1>2, <1>3, <1>4, <1>5, <1>6, <1>7, <1>8, <1>9, NextCases

-----------------------------------------------------------------------------
(* Where the receiver is tells what is left of its plan. *)

LEMMA ShapeStep == TypeOK /\ Shape /\ [Next]_vars => Shape'
<1>. SUFFICES ASSUME TypeOK, Shape, [Next]_vars PROVE Shape'
  OBVIOUS
<1>0. TypeOK'
  BY TypeStep
<1>. USE <1>0, KeysAreKeys DEF TypeOK, Shape, Stopped, Working, Go, Plan, Note, Outer, Receives
<1>1. ASSUME UNCHANGED vars
      PROVE  Shape'
  BY <1>1 DEF vars
<1>2. ASSUME NEW s \in Sessions, Begins(s)
      PROVE  Shape'
  BY <1>2 DEF Begins
<1>3. ASSUME NEW s \in Sessions, Taps(s) \/ Types(s)
      PROVE  Shape'
  BY <1>3 DEF Taps, TapWithModifiers, Types, TypeText
<1>4. ASSUME NEW s \in Sessions, NEW b \in Buttons, NEW down \in BOOLEAN,
             PointerButton(s, b, down)
      PROVE  Shape'
  BY <1>4 DEF PointerButton
<1>5. ASSUME NEW s \in Sessions, Await(s) \/ Resume(s) \/ Reply(s) \/ Connect(s) \/ AbortReceiver(s)
      PROVE  Shape'
  BY <1>5 DEF Await, Resume, Reply, Connect, AbortReceiver, Inner
<1>6. ASSUME NEW s \in Sessions, NEW k \in Keys, ReleaseKey(s, k)
      PROVE  Shape'
  BY <1>6, KeyEvent DEF ReleaseKey, FirstReleases, Busy
<1>7. ASSUME NEW s \in Sessions, NEW k \in Keys, PressKey(s, k)
      PROVE  Shape'
  BY <1>7, KeyEvent DEF PressKey, FirstPresses, Busy
<1>8. ASSUME NEW s \in Sessions, Strike(s)
      PROVE  Shape'
  BY <1>8 DEF Strike, Due, Busy, NoteKey, NoPlan
<1>9. ASSUME NEW s \in Sessions, Finish(s)
      PROVE  Shape'
  BY <1>9 DEF Finish, Due, Busy
<1>10. ASSUME NEW s \in Sessions, EventFails(s)
      PROVE  Shape'
  BY <1>10 DEF EventFails, Due, Busy, NoteKey, NoPlan, FirstReleases, FirstPresses
<1>11. ASSUME NEW s \in Sessions, Cleanup(s)
      PROVE  Shape'
  BY <1>11, CleanupBegins
<1>12. ASSUME Around
      PROVE  Shape'
  BY <1>12 DEF Around
<1>. QED  BY <1>1, <1>2, <1>3, <1>4, <1>5, <1>6, <1>7, <1>8, <1>9, <1>10, <1>11, <1>12, NextCases

-----------------------------------------------------------------------------
(* The keyboard is covered by what the sessions claim. *)

LEMMA ClaimStep == TypeOK /\ Shape /\ HeldIsClaimed /\ [Next]_vars => HeldIsClaimed'
<1>. SUFFICES ASSUME TypeOK, Shape, HeldIsClaimed, [Next]_vars PROVE HeldIsClaimed'
  OBVIOUS
<1>. USE KeysAreKeys DEF TypeOK, HeldIsClaimed, Claims, Go, Plan, Note, Outer, Receives
<1>1. ASSUME UNCHANGED vars
      PROVE  HeldIsClaimed'
  BY <1>1 DEF vars
<1>2. ASSUME NEW s \in Sessions, Begins(s)
      PROVE  HeldIsClaimed'
  <2>1. plan[s].release = {} /\ \A t \in Sessions \ {s} : Claims(t)' = Claims(t)
    BY <1>2 DEF Begins, Shape
  <2>2. Claims(s) \subseteq Claims(s)'
    BY <1>2, <2>1 DEF Begins
  <2>. QED  BY <1>2, <2>1, <2>2 DEF Begins
<1>3. ASSUME NEW s \in Sessions, Taps(s) \/ Types(s)
      PROVE  HeldIsClaimed'
  BY <1>3 DEF Taps, TapWithModifiers, Types, TypeText
<1>4. ASSUME NEW s \in Sessions, NEW b \in Buttons, NEW down \in BOOLEAN,
             PointerButton(s, b, down)
      PROVE  HeldIsClaimed'
  BY <1>4 DEF PointerButton
<1>5. ASSUME NEW s \in Sessions, Await(s) \/ Resume(s) \/ Reply(s) \/ Connect(s) \/ AbortReceiver(s)
      PROVE  HeldIsClaimed'
  BY <1>5 DEF Await, Resume, Reply, Connect, AbortReceiver, Inner
<1>6. ASSUME NEW s \in Sessions, NEW k \in Keys, ReleaseKey(s, k)
      PROVE  HeldIsClaimed'
  <2>1. Claims(s)' = Claims(s) \ {k} /\ \A t \in Sessions \ {s} : Claims(t)' = Claims(t)
    BY <1>6, KeyEvent DEF ReleaseKey
  <2>. QED  BY <1>6, <2>1 DEF ReleaseKey
<1>7. ASSUME NEW s \in Sessions, NEW k \in Keys, PressKey(s, k)
      PROVE  HeldIsClaimed'
  <2>1. Claims(s)' = Claims(s) \cup {k} /\ \A t \in Sessions \ {s} : Claims(t)' = Claims(t)
    BY <1>7, KeyEvent DEF PressKey
  <2>. QED  BY <1>7, <2>1 DEF PressKey
<1>8. ASSUME NEW s \in Sessions, Strike(s)
      PROVE  HeldIsClaimed'
  <2>1. plan[s].release = {} /\ plan'[s].release = {}
    BY <1>8 DEF Strike, Due, NoPlan
  <2>2. \A t \in Sessions \ {s} : Claims(t)' = Claims(t)
    BY <1>8 DEF Strike, NoteKey
  <2>3. pressed'[s] = IF plan[s].down THEN pressed[s] \cup {plan[s].key}
                                     ELSE pressed[s] \ {plan[s].key}
    BY <1>8 DEF Strike, NoteKey
  <2>. QED  BY <1>8, <2>1, <2>2, <2>3 DEF Strike
<1>9. ASSUME NEW s \in Sessions, Finish(s)
      PROVE  HeldIsClaimed'
  BY <1>9 DEF Finish
<1>10. ASSUME NEW s \in Sessions, EventFails(s)
      PROVE  HeldIsClaimed'
  <2>1. keysDown' = keysDown /\ \A t \in Sessions \ {s} : Claims(t)' = Claims(t)
    BY <1>10 DEF EventFails, NoteKey, NoPlan
  <2>2. CASE stage[s] = "applying"
    <3>1. plan[s].release = {}
      BY <1>10, <2>2 DEF EventFails, Shape, Working, FirstReleases, FirstPresses, Due
    <3>2. pressed[s] \subseteq pressed'[s]
      BY <1>10, <2>2 DEF EventFails, NoteKey, Shape, Working
    <3>. QED  BY <2>1, <3>1, <3>2
  <2>3. CASE stage[s] # "applying"
    <3>1. stage[s] = "cleaning"
      BY <1>10, <2>3 DEF EventFails, Busy, Due
    <3>2. UNCHANGED <<pressed, plan>>
      <4>1. plan[s].key \notin Unmapped
        BY <3>1, InputAssumption DEF Shape, Keys
      <4>. QED  BY <1>10, <2>3, <4>1 DEF EventFails
    <3>. QED  BY <2>1, <3>2
  <2>. QED  BY <2>2, <2>3
<1>11. ASSUME NEW s \in Sessions, Cleanup(s)
      PROVE  HeldIsClaimed'
  <2>1. plan[s].release = {} /\ \A t \in Sessions \ {s} : Claims(t)' = Claims(t)
    BY <1>11, CleanupBegins DEF Shape
  <2>2. Claims(s) \subseteq Claims(s)'
    BY <1>11, <2>1, CleanupBegins
  <2>. QED  BY <1>11, <2>1, <2>2, CleanupBegins
<1>12. ASSUME Around
      PROVE  HeldIsClaimed'
  BY <1>12 DEF Around
<1>. QED  BY <1>1, <1>2, <1>3, <1>4, <1>5, <1>6, <1>7, <1>8, <1>9, <1>10, <1>11, <1>12, NextCases

-----------------------------------------------------------------------------
(* The buttons, and a session alone. *)

LEMMA ButtonStep == TypeOK /\ ButtonsHaveOwner /\ [Next]_vars => ButtonsHaveOwner'
<1>. SUFFICES ASSUME TypeOK, ButtonsHaveOwner, [Next]_vars PROVE ButtonsHaveOwner'
  OBVIOUS
<1>. USE DEF TypeOK, ButtonsHaveOwner, Go, Receives
<1>1. ASSUME UNCHANGED vars
      PROVE  ButtonsHaveOwner'
  BY <1>1 DEF vars
<1>2. ASSUME NEW s \in Sessions, Begins(s)
      PROVE  ButtonsHaveOwner'
  BY <1>2 DEF Begins
<1>3. ASSUME NEW s \in Sessions, Taps(s) \/ Types(s)
      PROVE  ButtonsHaveOwner'
  BY <1>3 DEF Taps, TapWithModifiers, Types, TypeText
<1>4. ASSUME NEW s \in Sessions, NEW b \in Buttons, NEW down \in BOOLEAN,
             PointerButton(s, b, down)
      PROVE  ButtonsHaveOwner'
  BY <1>4 DEF PointerButton
<1>5. ASSUME NEW s \in Sessions, Await(s) \/ Resume(s) \/ Reply(s) \/ Connect(s) \/ AbortReceiver(s)
      PROVE  ButtonsHaveOwner'
  BY <1>5 DEF Await, Resume, Reply, Connect, AbortReceiver, Inner
<1>6. ASSUME NEW s \in Sessions, NEW k \in Keys, ReleaseKey(s, k)
      PROVE  ButtonsHaveOwner'
  BY <1>6 DEF ReleaseKey
<1>7. ASSUME NEW s \in Sessions, NEW k \in Keys, PressKey(s, k)
      PROVE  ButtonsHaveOwner'
  BY <1>7 DEF PressKey
<1>8. ASSUME NEW s \in Sessions, Strike(s)
      PROVE  ButtonsHaveOwner'
  BY <1>8 DEF Strike
<1>9. ASSUME NEW s \in Sessions, Finish(s)
      PROVE  ButtonsHaveOwner'
  BY <1>9 DEF Finish, Due, Busy
<1>10. ASSUME NEW s \in Sessions, EventFails(s)
      PROVE  ButtonsHaveOwner'
  BY <1>10 DEF EventFails, Due, Busy
<1>11. ASSUME NEW s \in Sessions, Cleanup(s)
      PROVE  ButtonsHaveOwner'
  BY <1>11, CleanupBegins
<1>12. ASSUME Around
      PROVE  ButtonsHaveOwner'
  BY <1>12 DEF Around
<1>. QED  BY <1>1, <1>2, <1>3, <1>4, <1>5, <1>6, <1>7, <1>8, <1>9, <1>10, <1>11, <1>12, NextCases

LEMMA LoneStep == TypeOK /\ Shape /\ LonePressedIsDown /\ [Next]_vars => LonePressedIsDown'
<1>. SUFFICES ASSUME TypeOK, Shape, LonePressedIsDown, [Next]_vars PROVE LonePressedIsDown'
  OBVIOUS
<1>. USE KeysAreKeys DEF TypeOK, LonePressedIsDown, Go, Plan, Note, Outer, Receives
<1>1. ASSUME UNCHANGED vars
      PROVE  LonePressedIsDown'
  BY <1>1 DEF vars
<1>2. ASSUME NEW s \in Sessions, Begins(s)
      PROVE  LonePressedIsDown'
  BY <1>2 DEF Begins
<1>3. ASSUME NEW s \in Sessions, Taps(s) \/ Types(s)
      PROVE  LonePressedIsDown'
  <2>1. CASE Taps(s)
    <3>1. PICK k \in Plain \ pressed[s], flags \in SUBSET Logicals : TapWithModifiers(s, k, flags)
      BY <2>1 DEF Taps, LoneRelease
    <3>2. CASE k \in Unmapped
      BY <3>1, <3>2 DEF TapWithModifiers
    <3>3. CASE k \notin Unmapped
      <4>. DEFINE hit == {k} \cup Missing(s, flags)
      <4>1. hit \cap pressed[s] = {}
        BY <3>1, SyncPlan
      <4>2. /\ keysDown' = keysDown \ hit
            /\ stage[s] = "listening"
            /\ UNCHANGED <<pressed, stage>>
        BY <3>1, <3>3 DEF TapWithModifiers
      <4>. HIDE DEF hit
      <4>3. ASSUME NEW t \in Sessions, stage[t] \in {"listening", "waiting", "replying", "applying"},
                   \A u \in Sessions \ {t} : stage[u] = "off"
            PROVE  pressed[t] \subseteq keysDown'
        <5>1. t = s
          BY <4>2, <4>3
        <5>2. pressed[s] \subseteq keysDown
          BY <4>3, <5>1
        <5>. QED  BY <4>1, <4>2, <5>1, <5>2
      <4>. QED  BY <4>2, <4>3
    <3>. QED  BY <3>2, <3>3
  <2>2. CASE Types(s)
    BY <2>2 DEF Types, TypeText
  <2>. QED  BY <1>3, <2>1, <2>2
<1>4. ASSUME NEW s \in Sessions, NEW b \in Buttons, NEW down \in BOOLEAN,
             PointerButton(s, b, down)
      PROVE  LonePressedIsDown'
  BY <1>4 DEF PointerButton
<1>5. ASSUME NEW s \in Sessions, Await(s) \/ Resume(s) \/ Reply(s) \/ Connect(s) \/ AbortReceiver(s)
      PROVE  LonePressedIsDown'
  BY <1>5 DEF Await, Resume, Reply, Connect, AbortReceiver, Inner, Shape, Stopped
<1>6. ASSUME NEW s \in Sessions, NEW k \in Keys, ReleaseKey(s, k)
      PROVE  LonePressedIsDown'
  BY <1>6 DEF ReleaseKey, Busy
<1>7. ASSUME NEW s \in Sessions, NEW k \in Keys, PressKey(s, k)
      PROVE  LonePressedIsDown'
  BY <1>7 DEF PressKey, Busy
<1>8. ASSUME NEW s \in Sessions, Strike(s)
      PROVE  LonePressedIsDown'
  BY <1>8 DEF Strike, Due, Busy, NoteKey
<1>9. ASSUME NEW s \in Sessions, Finish(s)
      PROVE  LonePressedIsDown'
  BY <1>9 DEF Finish, Due, Busy
<1>10. ASSUME NEW s \in Sessions, EventFails(s)
      PROVE  LonePressedIsDown'
  BY <1>10 DEF EventFails, Due, Busy
<1>11. ASSUME NEW s \in Sessions, Cleanup(s)
      PROVE  LonePressedIsDown'
  BY <1>11, CleanupBegins
<1>12. ASSUME Around
      PROVE  LonePressedIsDown'
  BY <1>12 DEF Around
<1>. QED  BY <1>1, <1>2, <1>3, <1>4, <1>5, <1>6, <1>7, <1>8, <1>9, <1>10, <1>11, <1>12, NextCases

-----------------------------------------------------------------------------
\* Every step keeps the invariant.
LEMMA StepInvariant == IInv /\ [Next]_vars => IInv'
BY TypeStep, ShapeStep, ClaimStep, ButtonStep, LoneStep DEF IInv

\* Who is alone claims all keys that are down, and has all those down that it presses.
LEMMA LoneKnows == IInv => LoneSessionKnows
<1>. SUFFICES ASSUME IInv, NEW s \in Sessions, stage[s] = "listening",
                     \A t \in Sessions \ {s} : stage[t] = "off"
              PROVE  pressed[s] = keysDown
  BY DEF LoneSessionKnows
<1>1. \A t \in Sessions \ {s} : Claims(t) = {}
  BY DEF IInv, Shape, Stopped, Claims
<1>2. Claims(s) = pressed[s]
  BY DEF IInv, Shape, Claims
<1>3. keysDown \subseteq pressed[s]
  BY <1>1, <1>2 DEF IInv, HeldIsClaimed
<1>4. pressed[s] \subseteq keysDown
  BY DEF IInv, LonePressedIsDown
<1>. QED  BY <1>3, <1>4

-----------------------------------------------------------------------------
(* The theorems. *)

\* Whatever the messages, their failures and the order of the sessions: the invariant.
THEOREM Invariance == Spec => []IInv
BY InitInvariant, StepInvariant, PTL DEF Spec

\* The state keeps its shape.
THEOREM InputTypeCorrect == Spec => []TypeOK
BY Invariance, PTL DEF IInv

\* No key that is down in X is forgotten by every session, whatever sessions
\* share the display and however their messages interleave (session.rs,
\* apply_client_message, the key watchdog and reset_input_state).
THEOREM NoKeyForgotten == Spec => []HeldIsClaimed
BY Invariance, PTL DEF IInv

\* When every session has cleaned up to the end, no key and no button is held
\* (session.rs, the end of handle_client).
THEOREM NothingHeldAtTheEnd == Spec => []CleanEndHoldsNothing
<1>1. IInv => CleanEndHoldsNothing
  <2>. SUFFICES ASSUME IInv, \A s \in Sessions : stage[s] \in {"off", "over"}
                PROVE  keysDown = {} /\ buttonsDown = {}
    BY DEF CleanEndHoldsNothing
  <2>1. \A s \in Sessions : Claims(s) = {}
    BY DEF IInv, Shape, Stopped, Claims
  <2>2. keysDown = {}
    BY <2>1 DEF IInv, HeldIsClaimed
  <2>3. buttonsDown = {}
    BY DEF IInv, ButtonsHaveOwner
  <2>. QED  BY <2>2, <2>3
<1>. QED  BY <1>1, Invariance, PTL

\* A session alone on the display knows the keyboard between two operations.
THEOREM LoneSessionIsRight == Spec => []LoneSessionKnows
BY Invariance, LoneKnows, PTL

------------------------------------------------------------------------------
(***************************************************************************)
(* The launcher.  Two arguments, one for each half of run(): the services  *)
(* are settled one after the other before the server starts, and Drop      *)
(* passes over all children twice, so that what it has passed is told the  *)
(* first time and reaped the second.                                       *)
(***************************************************************************)

Middle == {"x", "dbus", "audio"}

\* The state has a shape.
LauncherShape ==
  /\ at \in [task : Middle \cup {"wait", "desktop", "server", "watch", "terminate", "kill"}, n : Nat]
  /\ env \in [Middle -> Endpoints]
  /\ answered \in [Middle -> SUBSET Endpoints]
  /\ children \in Seq(Services)
  /\ leader \in [Services -> {"none", "running", "zombie", "reaped"}]
  /\ helpers \in [Services -> {"none", "mild", "deaf"}]
  /\ killed \subseteq Services

-----------------------------------------------------------------------------
(* The services. *)

Settled(k) == Unnamed(k) \/ env[k] \in answered[k]

\* The services are settled up to the one that is looked for or waited for.
Settling ==
  /\ at.task \in Middle => at.n # 0
  /\ at.task = "dbus"  => Settled("x")
  /\ at.task = "audio" => Settled("x") /\ Settled("dbus")
  /\ at.task = "wait"  => /\ at.n \in 1..3
                          /\ env[Kinds[at.n]] = "private"
                          /\ at.n > 1 => Settled("x")
                          /\ at.n > 2 => Settled("dbus")
  /\ at.task \in {"desktop", "server", "watch"} \/ leader["server"] # "none"
       => \A k \in Middle : Settled(k)
  /\ at.task \in Middle \cup {"wait", "desktop", "server"} => leader["server"] = "none"

-----------------------------------------------------------------------------
(* The groups. *)

\* What there is was started, and nobody is killed before the last pass.
Started ==
  /\ \A s \in Services : leader[s] # "none" \/ helpers[s] # "none" =>
       \E i \in 1..Len(children) : children[i] = s
  /\ \A i \in 1..Len(children) : leader[children[i]] # "none"
  /\ \A s \in killed : helpers[s] = "none"
  /\ at.task # "kill" => killed = {}

\* What the passes of Drop have behind them.
Passed ==
  /\ at.task \in {"terminate", "kill"} => at.n <= Len(children)
  /\ at.task = "terminate" => \A i \in at.n + 1..Len(children) :
       helpers[children[i]] # "none" => children[i] \in termed
  /\ at.task = "kill" => \A i \in 1..Len(children) :
       helpers[children[i]] # "none" => children[i] \in termed
  /\ at.task = "kill" => \A i \in at.n + 1..Len(children) : leader[children[i]] = "reaped"

LauncherInv == LauncherShape /\ Settling /\ Started /\ Passed

-----------------------------------------------------------------------------
\* The three services that are looked for, by number.
LEMMA KindsAre ==
  /\ DOMAIN Kinds = 1..3 /\ Len(Kinds) = 3
  /\ Kinds[1] = "x" /\ Kinds[2] = "dbus" /\ Kinds[3] = "audio"
  /\ \A i \in DOMAIN Kinds : Kinds[i] \in Middle
BY DEF Kinds, Middle

\* The places on the host are endpoints.
LEMMA HostsAre ==
  ASSUME NEW k \in Middle, NEW n \in Nat \ {0}, n <= Len(Hosts[k])
  PROVE  Hosts[k][n] \in Endpoints
BY DEF Hosts, Middle, Endpoints

\* Where run() goes after a service.
LEMMA NextIs ==
  ASSUME NEW i \in DOMAIN Kinds, NextService(i)
  PROVE  /\ at' \in [task : Middle \cup {"desktop"}, n : Nat] /\ at'.n = 1
         /\ i = 1 => at'.task = "dbus"
         /\ i = 2 => at'.task = "audio"
         /\ i = 3 => at'.task = "desktop"
BY KindsAre DEF NextService, Turns, Middle

-----------------------------------------------------------------------------
\* The invariant holds of the initial states.
LEMMA LauncherInitIsGood == LauncherInit => LauncherInv
<1> SUFFICES ASSUME LauncherInit PROVE LauncherInv
  OBVIOUS
<1>1. LauncherShape
  BY DEF LauncherInit, LauncherShape, Middle, Endpoints, Services
<1>2. Settling
  BY DEF LauncherInit, Settling, Middle, Services
<1>3. Started
  BY DEF LauncherInit, Started
<1>4. Passed
  BY DEF LauncherInit, Passed
<1> QED
  BY <1>1, <1>2, <1>3, <1>4 DEF LauncherInv

\* A step that leaves the groups and goes on before Drop, or begins it.
LEMMA SameGroups ==
  ASSUME LauncherInv, UNCHANGED Groups, LauncherShape', at.task # "kill", at'.task # "kill",
         at'.task = "terminate" => at'.n = Len(children)
  PROVE  Started' /\ Passed'
BY DEF LauncherInv, LauncherShape, Groups, Started, Passed

\* A step that begins Drop and leaves the services.
LEMMA BailIsGood ==
  ASSUME LauncherInv, Bail, UNCHANGED <<mode, env, answered>>, LauncherShape',
         leader'["server"] = "none" <=> leader["server"] = "none"
  PROVE  Settling'
BY DEF LauncherInv, Settling, Settled, Unnamed, Bail, Turns, Middle

\* Bail goes to the first pass.
LEMMA BailShape ==
  ASSUME LauncherShape, Bail
  PROVE  /\ at' \in [task : Middle \cup {"wait", "desktop", "server", "watch", "terminate", "kill"}, n : Nat]
         /\ at'.task = "terminate" /\ at'.n = Len(children)
BY DEF LauncherShape, Bail, Turns

\* One more group: it was started, and the others are as they were.
LEMMA SpawnedIsGood ==
  ASSUME LauncherInv, NEW s \in Services, Spawned(s), at.task \notin {"terminate", "kill"},
         at'.task \notin {"terminate", "kill"}
  PROVE  /\ children' \in Seq(Services)
         /\ leader' \in [Services -> {"none", "running", "zombie", "reaped"}]
         /\ helpers' \in [Services -> {"none", "mild", "deaf"}]
         /\ killed' \subseteq Services
         /\ s # "server" => leader'["server"] = leader["server"]
         /\ Started' /\ Passed'
<1>1. /\ children' \in Seq(Services)
      /\ Len(children') = Len(children) + 1 /\ Len(children) \in Nat
      /\ children'[Len(children) + 1] = s
      /\ \A i \in 1..Len(children) : children'[i] = children[i]
  BY DEF Spawned, LauncherInv, LauncherShape
<1>2. /\ leader' \in [Services -> {"none", "running", "zombie", "reaped"}]
      /\ helpers' \in [Services -> {"none", "mild", "deaf"}]
      /\ \A t \in Services \ {s} : leader'[t] = leader[t] /\ helpers'[t] = helpers[t]
      /\ leader'[s] = "running" /\ killed' = {}
  BY DEF Spawned, LauncherInv, LauncherShape, Started
<1>3. Started'
  <2>1. ASSUME NEW t \in Services, leader'[t] # "none" \/ helpers'[t] # "none"
        PROVE  \E i \in 1..Len(children') : children'[i] = t
    <3>1. CASE t = s
      BY <1>1, <3>1
    <3>2. CASE t # s
      <4>1. PICK i \in 1..Len(children) : children[i] = t
        BY <1>2, <2>1, <3>2 DEF LauncherInv, Started
      <4> QED
        BY <1>1, <4>1
    <3> QED
      BY <3>1, <3>2
  <2>2. ASSUME NEW i \in 1..Len(children') PROVE leader'[children'[i]] # "none"
    <3>1. CASE i = Len(children) + 1
      BY <1>1, <1>2, <3>1
    <3>2. CASE i # Len(children) + 1
      <4>1. i \in 1..Len(children) /\ children'[i] = children[i] /\ children[i] \in Services
        BY <1>1, <3>2 DEF LauncherInv, LauncherShape
      <4> QED
        BY <1>2, <4>1 DEF LauncherInv, Started
    <3> QED
      BY <3>1, <3>2
  <2> QED
    BY <1>2, <2>1, <2>2 DEF Started
<1>4. Passed'
  BY DEF Passed
<1> QED
  BY <1>1, <1>2, <1>3, <1>4 DEF Services

-----------------------------------------------------------------------------
(* How the services fare. *)

\* Run() goes on to the next service when this one is settled.
LEMMA GoingOn ==
  ASSUME LauncherInv, NEW i \in DOMAIN Kinds, NextService(i), leader' = leader,
         at.task = Kinds[i] \/ (at.task = "wait" /\ at.n = i),
         Settled(Kinds[i])',
         \A k \in Middle \ {Kinds[i]} : Settled(k) => Settled(k)'
  PROVE  Settling'
<1>1. /\ at'.n = 1 /\ at'.task \in Middle \cup {"desktop"}
      /\ i = 1 => at'.task = "dbus"
      /\ i = 2 => at'.task = "audio"
      /\ i = 3 => at'.task = "desktop"
  BY NextIs
<1>2. leader'["server"] = "none"
  BY KindsAre DEF LauncherInv, Settling
<1>3. CASE i = 1
  BY <1>1, <1>2, <1>3, KindsAre DEF Settling, Middle
<1>4. CASE i = 2
  <2>1. Settled("x")
    BY <1>4, KindsAre DEF LauncherInv, Settling
  <2> QED
    BY <1>1, <1>2, <1>4, <2>1, KindsAre DEF Settling, Middle
<1>5. CASE i = 3
  <2>1. Settled("x") /\ Settled("dbus")
    BY <1>5, KindsAre DEF LauncherInv, Settling
  <2>2. \A k \in Middle : Settled(k)'
    BY <1>5, <2>1, KindsAre DEF Middle
  <2> QED
    BY <1>1, <1>2, <1>5, <2>2 DEF Settling, Middle
<1> QED
  BY <1>3, <1>4, <1>5, KindsAre

\* Run() stays with a service that is not settled yet.
LEMMA Staying ==
  ASSUME LauncherInv, at.task \in Middle, at'.task = at.task, at'.n # 0, leader' = leader,
         \A k \in Middle \ {at.task} : Settled(k)' <=> Settled(k)
  PROVE  Settling'
BY DEF LauncherInv, Settling, Middle

\* Nothing of it changes.
LEMMA SettlingStays ==
  ASSUME LauncherInv, UNCHANGED <<at, mode, env, answered>>,
         leader'["server"] = "none" <=> leader["server"] = "none"
  PROVE  Settling'
BY DEF LauncherInv, Settling, Settled, Unnamed

\* Drop does not touch it.
LEMMA SettlingEnds ==
  ASSUME LauncherInv, UNCHANGED <<mode, env, answered>>,
         at.task \in {"terminate", "kill"}, at'.task \in {"terminate", "kill"},
         leader'["server"] = "none" <=> leader["server"] = "none"
  PROVE  Settling'
BY DEF LauncherInv, Settling, Settled, Unnamed, Middle

-----------------------------------------------------------------------------
(* The steps of run(). *)

LEMMA PassOverIsGood ==
  ASSUME LauncherInv, NEW i \in DOMAIN Kinds, PassOver(i)
  PROVE  LauncherInv'
<1>1. /\ at' \in [task : Middle \cup {"desktop"}, n : Nat]
      /\ at.task = Kinds[i] /\ at.task \in Middle
      /\ UNCHANGED <<mode, env, answered>> /\ UNCHANGED Groups
  BY NextIs, KindsAre DEF PassOver, Probing, Options, Found
<1>2. LauncherShape'
  BY <1>1 DEF LauncherInv, LauncherShape, Groups
<1>3. Settling'
  BY <1>1, GoingOn DEF PassOver, Settled, Unnamed, Groups
<1>4. Started' /\ Passed'
  BY <1>1, <1>2, SameGroups DEF Middle
<1> QED
  BY <1>2, <1>3, <1>4 DEF LauncherInv

LEMMA ProbeHostIsGood ==
  ASSUME LauncherInv, NEW i \in DOMAIN Kinds, ProbeHost(i)
  PROVE  LauncherInv'
<1> DEFINE k == Kinds[i]
<1> DEFINE place == Hosts[k][at.n]
<1>1. /\ at.task = k /\ k \in Middle /\ at.n \in Nat \ {0} /\ at.n <= Len(Hosts[k])
      /\ env' = [env EXCEPT ![k] = place]
      /\ UNCHANGED mode /\ UNCHANGED Groups
  BY KindsAre DEF ProbeHost, Probing, Options, LauncherInv, LauncherShape, Settling
<1>2. \/ answered' = [answered EXCEPT ![k] = @ \cup {place}] /\ NextService(i)
      \/ answered' = answered /\ Turns(k, at.n + 1)
  BY DEF ProbeHost
<1>3. /\ place \in Endpoints
      /\ env' \in [Middle -> Endpoints] /\ answered' \in [Middle -> SUBSET Endpoints]
  BY <1>1, <1>2, HostsAre DEF LauncherInv, LauncherShape
<1>4. at' \in [task : Middle \cup {"desktop"}, n : Nat]
  BY <1>1, <1>2, NextIs DEF Turns
<1>5. LauncherShape'
  BY <1>1, <1>3, <1>4 DEF LauncherInv, LauncherShape, Groups
<1>6. \A j \in Middle \ {k} : Settled(j)' <=> Settled(j)
  BY <1>1, <1>2 DEF Settled, Unnamed, LauncherInv, LauncherShape
<1>7. Settling'
  <2>1. CASE answered' = [answered EXCEPT ![k] = @ \cup {place}] /\ NextService(i)
    <3>1. Settled(k)'
      BY <1>1, <2>1 DEF Settled, LauncherInv, LauncherShape
    <3> QED
      BY <1>1, <1>6, <2>1, <3>1, GoingOn DEF Groups
  <2>2. CASE answered' = answered /\ Turns(k, at.n + 1)
    <3>1. at'.task = at.task /\ at'.n # 0
      BY <1>1, <2>2 DEF Turns
    <3> QED
      BY <1>1, <1>6, <3>1, Staying DEF Groups
  <2> QED
    BY <1>2, <2>1, <2>2
<1>8. Started' /\ Passed'
  BY <1>1, <1>4, <1>5, SameGroups DEF Middle
<1> QED
  BY <1>5, <1>7, <1>8 DEF LauncherInv

LEMMA NoSuchPlaceIsGood ==
  ASSUME LauncherInv, NEW i \in DOMAIN Kinds, NoSuchPlace(i)
  PROVE  LauncherInv'
<1>1. /\ at.task = Kinds[i] /\ at.task \in Middle /\ at.n \in Nat
      /\ at' = [task |-> at.task, n |-> at.n + 1]
      /\ UNCHANGED <<mode, env, answered>> /\ UNCHANGED Groups
  BY KindsAre DEF NoSuchPlace, Probing, Turns, Options, Found, LauncherInv, LauncherShape
<1>2. LauncherShape'
  BY <1>1 DEF LauncherInv, LauncherShape, Groups
<1>3. Settling'
  BY <1>1, Staying DEF Settled, Unnamed, Groups
<1>4. Started' /\ Passed'
  BY <1>1, <1>2, SameGroups DEF Middle
<1> QED
  BY <1>2, <1>3, <1>4 DEF LauncherInv

LEMMA StartPrivateIsGood ==
  ASSUME LauncherInv, NEW i \in DOMAIN Kinds, StartPrivate(i)
  PROVE  LauncherInv'
<1> DEFINE k == Kinds[i]
<1>1. /\ at.task = k /\ k \in Middle /\ k # "server" /\ k \in Services
      /\ at' = [task |-> "wait", n |-> i] /\ i \in 1..3
      /\ env' = [env EXCEPT ![k] = "private"]
      /\ UNCHANGED <<mode, answered>> /\ Spawned(k)
  BY KindsAre DEF StartPrivate, Probing, Turns, Options, Middle, Services
<1>2. /\ leader'["server"] = "none"
      /\ children' \in Seq(Services)
      /\ leader' \in [Services -> {"none", "running", "zombie", "reaped"}]
      /\ helpers' \in [Services -> {"none", "mild", "deaf"}]
      /\ killed' \subseteq Services
      /\ Started' /\ Passed'
  BY <1>1, SpawnedIsGood DEF LauncherInv, Settling, Middle
<1>3. LauncherShape'
  BY <1>1, <1>2 DEF LauncherInv, LauncherShape, Endpoints
<1>4. Settling'
  <2>1. \A j \in Middle \ {k} : Settled(j)' <=> Settled(j)
    BY <1>1 DEF Settled, Unnamed, LauncherInv, LauncherShape
  <2>2. env'[Kinds[i]] = "private"
    BY <1>1 DEF LauncherInv, LauncherShape
  <2>3. i > 1 => Settled("x")'
    BY <1>1, <2>1, KindsAre DEF LauncherInv, Settling, Middle
  <2>4. i > 2 => Settled("dbus")'
    BY <1>1, <2>1, KindsAre DEF LauncherInv, Settling, Middle
  <2> QED
    BY <1>1, <1>2, <2>2, <2>3, <2>4 DEF Settling, Middle
<1> QED
  BY <1>2, <1>3, <1>4 DEF LauncherInv

\* Whatever fails or ends in run() begins Drop.
LEMMA BailingIsGood ==
  ASSUME LauncherInv, Bail, at.task \notin {"terminate", "kill"},
         UNCHANGED <<mode, env, answered, children, helpers, termed, killed>>,
         leader' \in [Services -> {"none", "running", "zombie", "reaped"}],
         \A s \in Services : leader'[s] = "none" <=> leader[s] = "none"
  PROVE  LauncherInv'
<1>1. /\ at' \in [task : Middle \cup {"wait", "desktop", "server", "watch", "terminate", "kill"}, n : Nat]
      /\ at'.task = "terminate" /\ at'.n = Len(children)
  BY BailShape DEF LauncherInv
<1>2. LauncherShape'
  BY <1>1 DEF LauncherInv, LauncherShape
<1>3. Settling'
  BY <1>2, BailIsGood DEF Services
<1>4. Started'
  BY <1>1 DEF LauncherInv, LauncherShape, Started
<1>5. Passed'
  BY <1>1 DEF LauncherInv, LauncherShape, Passed
<1> QED
  BY <1>2, <1>3, <1>4, <1>5 DEF LauncherInv

LEMMA EnsureAliveIsGood ==
  ASSUME LauncherInv, EnsureAlive
  PROVE  LauncherInv'
<1>1. PICK i \in DOMAIN children :
        /\ leader[children[i]] = "zombie"
        /\ leader' = [leader EXCEPT ![children[i]] = "reaped"]
  BY DEF EnsureAlive
<1>2. /\ leader' \in [Services -> {"none", "running", "zombie", "reaped"}]
      /\ \A s \in Services : leader'[s] = "none" <=> leader[s] = "none"
  BY <1>1 DEF LauncherInv, LauncherShape
<1> QED
  BY <1>2, BailingIsGood DEF EnsureAlive, Options, Found

LEMMA BecomesReadyIsGood ==
  ASSUME LauncherInv, BecomesReady
  PROVE  LauncherInv'
<1>0. PICK i \in DOMAIN Kinds : i = at.n
  BY KindsAre DEF BecomesReady, LauncherInv, Settling
<1> DEFINE k == Kinds[i]
<1>1. /\ at.task = "wait" /\ at.n = i /\ k \in Middle /\ env[k] = "private"
      /\ answered' = [answered EXCEPT ![k] = @ \cup {"private"}]
      /\ NextService(i)
      /\ UNCHANGED <<mode, env>> /\ UNCHANGED Groups
  BY <1>0, KindsAre DEF BecomesReady, Options, LauncherInv, Settling
<1>2. at' \in [task : Middle \cup {"desktop"}, n : Nat]
  BY <1>1, NextIs
<1>3. LauncherShape'
  BY <1>1, <1>2 DEF LauncherInv, LauncherShape, Groups, Endpoints
<1>4. /\ Settled(k)'
      /\ \A j \in Middle \ {k} : Settled(j) => Settled(j)'
  BY <1>1 DEF Settled, Unnamed, LauncherInv, LauncherShape
<1>5. Settling'
  BY <1>1, <1>4, GoingOn DEF Groups
<1>6. Started' /\ Passed'
  BY <1>1, <1>2, <1>3, SameGroups DEF Middle
<1> QED
  BY <1>3, <1>5, <1>6 DEF LauncherInv

LEMMA StartDesktopIsGood ==
  ASSUME LauncherInv, StartDesktop
  PROVE  LauncherInv'
<1>1. /\ at.task = "desktop" /\ at' = [task |-> "server", n |-> 1]
      /\ UNCHANGED <<mode, env, answered>>
      /\ Spawned("desktop") \/ UNCHANGED Groups
  BY DEF StartDesktop, Turns, Options, Found
<1>2. /\ leader'["server"] = leader["server"]
      /\ LauncherShape' /\ Started' /\ Passed'
  <2>1. CASE Spawned("desktop")
    <3>1. /\ leader'["server"] = leader["server"]
          /\ children' \in Seq(Services)
          /\ leader' \in [Services -> {"none", "running", "zombie", "reaped"}]
          /\ helpers' \in [Services -> {"none", "mild", "deaf"}]
          /\ killed' \subseteq Services
          /\ Started' /\ Passed'
      BY <1>1, <2>1, SpawnedIsGood DEF Services
    <3> QED
      BY <1>1, <3>1 DEF LauncherInv, LauncherShape
  <2>2. CASE UNCHANGED Groups
    <3>1. LauncherShape'
      BY <1>1, <2>2 DEF LauncherInv, LauncherShape, Groups
    <3> QED
      BY <1>1, <2>2, <3>1, SameGroups DEF Groups
  <2> QED
    BY <1>1, <2>1, <2>2
<1>3. Settling'
  BY <1>1, <1>2 DEF LauncherInv, Settling, Settled, Unnamed, Middle
<1> QED
  BY <1>2, <1>3 DEF LauncherInv

LEMMA StartServerIsGood ==
  ASSUME LauncherInv, StartServer
  PROVE  LauncherInv'
<1>1. /\ at.task = "server" /\ at' = [task |-> "watch", n |-> 1]
      /\ UNCHANGED <<mode, env, answered>> /\ Spawned("server")
  BY DEF StartServer, Turns, Options, Found
<1>2. /\ children' \in Seq(Services)
      /\ leader' \in [Services -> {"none", "running", "zombie", "reaped"}]
      /\ helpers' \in [Services -> {"none", "mild", "deaf"}]
      /\ killed' \subseteq Services
      /\ Started' /\ Passed'
  BY <1>1, SpawnedIsGood DEF Services
<1>3. LauncherShape'
  BY <1>1, <1>2 DEF LauncherInv, LauncherShape
<1>4. Settling'
  BY <1>1 DEF LauncherInv, Settling, Settled, Unnamed, Middle
<1> QED
  BY <1>2, <1>3, <1>4 DEF LauncherInv

-----------------------------------------------------------------------------
(* The steps of Drop. *)

\* SIGTERM: the child the first pass has reached is told, if its group lives.
LEMMA TerminateIsGood ==
  ASSUME LauncherInv, Terminate
  PROVE  LauncherInv'
<1> DEFINE s == children[at.n]
<1>1. /\ at.task = "terminate" /\ at.n \in 1..Len(children) /\ Len(children) \in Nat
      /\ at' = [task |-> "terminate", n |-> at.n - 1]
      /\ termed' = IF GroupLives(s) THEN termed \cup {s} ELSE termed
      /\ UNCHANGED <<mode, env, answered, children, leader, helpers, killed>>
  BY DEF Terminate, Turns, Options, Found, LauncherInv, LauncherShape, Passed
<1>2. LauncherShape'
  BY <1>1 DEF LauncherInv, LauncherShape
<1>3. Settling'
  BY <1>1, SettlingEnds
<1>4. Started'
  BY <1>1 DEF LauncherInv, Started
<1>5. Passed'
  <2>1. ASSUME NEW i \in at.n - 1 + 1..Len(children), helpers[children[i]] # "none"
        PROVE  children[i] \in termed'
    <3>1. CASE i = at.n
      BY <1>1, <2>1, <3>1 DEF GroupLives
    <3>2. CASE i # at.n
      <4>1. i \in at.n + 1..Len(children)
        BY <1>1, <2>1, <3>2
      <4> QED
        BY <1>1, <2>1, <4>1 DEF LauncherInv, Passed
    <3> QED
      BY <3>1, <3>2
  <2> QED
    BY <1>1, <2>1 DEF Passed
<1> QED
  BY <1>2, <1>3, <1>4, <1>5 DEF LauncherInv

\* Between the passes children are reaped, and at some time the second begins.
LEMMA WaitingIsGood ==
  ASSUME LauncherInv, at = [task |-> "terminate", n |-> 0],
         at' = at \/ Turns("kill", Len(children)),
         UNCHANGED <<mode, env, answered, children, helpers, termed, killed>>,
         leader' \in [Services -> {"none", "running", "zombie", "reaped"}],
         \A s \in Services : leader'[s] = "none" <=> leader[s] = "none"
  PROVE  LauncherInv'
<1>1. /\ at'.task \in {"terminate", "kill"} /\ at'.n \in Nat
      /\ at' = [task |-> at'.task, n |-> at'.n]
      /\ at'.task = "terminate" => at'.n = 0
      /\ at'.task = "kill" => at'.n = Len(children)
      /\ Len(children) \in Nat
  BY DEF Turns, LauncherInv, LauncherShape
<1>2. LauncherShape'
  BY <1>1 DEF LauncherInv, LauncherShape
<1>3. Settling'
  BY <1>1, SettlingEnds DEF Services
<1>4. Started'
  BY <1>1 DEF LauncherInv, LauncherShape, Started
<1>5. Passed'
  BY <1>1 DEF LauncherInv, Passed
<1> QED
  BY <1>2, <1>3, <1>4, <1>5 DEF LauncherInv

\* try_wait reaps every child that has exited.
LEMMA PollIsGood ==
  ASSUME LauncherInv, Poll
  PROVE  LauncherInv'
<1>1. /\ leader' \in [Services -> {"none", "running", "zombie", "reaped"}]
      /\ \A s \in Services : leader'[s] = "none" <=> leader[s] = "none"
  BY DEF Poll, LauncherInv, LauncherShape
<1> QED
  BY <1>1, WaitingIsGood DEF Poll, Options, Found

\* SIGKILL: the child the second pass has reached is reaped, and its group is
\* killed with it if it still runs.
LEMMA KillIsGood ==
  ASSUME LauncherInv, Kill
  PROVE  LauncherInv'
<1> DEFINE s == children[at.n]
<1>1. /\ at.task = "kill" /\ at.n \in 1..Len(children) /\ Len(children) \in Nat
      /\ at' = [task |-> "kill", n |-> at.n - 1]
      /\ s \in Services
      /\ leader' = [leader EXCEPT ![s] = "reaped"]
      /\ IF leader[s] = "running"
         THEN killed' = killed \cup {s} /\ helpers' = [helpers EXCEPT ![s] = "none"]
         ELSE UNCHANGED <<killed, helpers>>
      /\ UNCHANGED <<mode, env, answered, children, termed>>
  BY DEF Kill, Turns, Options, Found, LauncherInv, LauncherShape, Passed
<1>2. LauncherShape'
  BY <1>1 DEF LauncherInv, LauncherShape
<1>3. /\ leader[s] # "none"
      /\ \A t \in Services : leader'[t] = "none" <=> leader[t] = "none"
      /\ \A t \in Services : helpers'[t] # "none" => helpers[t] # "none"
  BY <1>1 DEF LauncherInv, LauncherShape, Started
<1>4. Settling'
  BY <1>1, <1>3, SettlingEnds DEF Services
<1>5. Started'
  <2>1. \A t \in killed' : helpers'[t] = "none"
    BY <1>1 DEF LauncherInv, LauncherShape, Started
  <2>2. \A t \in Services : leader'[t] # "none" \/ helpers'[t] # "none" =>
          \E i \in 1..Len(children') : children'[i] = t
    BY <1>1, <1>3 DEF LauncherInv, Started
  <2>3. \A i \in 1..Len(children') : leader'[children'[i]] # "none"
    BY <1>1, <1>3 DEF LauncherInv, LauncherShape, Started
  <2> QED
    BY <1>1, <2>1, <2>2, <2>3 DEF Started
<1>6. Passed'
  <2>1. \A i \in 1..Len(children) : children[i] \in Services
    BY DEF LauncherInv, LauncherShape
  <2>2. \A i \in 1..Len(children) : helpers'[children[i]] # "none" => children[i] \in termed
    BY <1>1, <1>3, <2>1 DEF LauncherInv, Passed
  <2>3. ASSUME NEW i \in at.n - 1 + 1..Len(children) PROVE leader'[children[i]] = "reaped"
    <3>1. CASE i = at.n
      BY <1>1, <3>1 DEF LauncherInv, LauncherShape
    <3>2. CASE i # at.n
      <4>1. i \in at.n + 1..Len(children) /\ i \in 1..Len(children)
        BY <1>1, <2>3, <3>2
      <4>2. leader[children[i]] = "reaped"
        BY <1>1, <4>1 DEF LauncherInv, Passed
      <4> QED
        BY <1>1, <2>1, <4>1, <4>2 DEF LauncherInv, LauncherShape
    <3> QED
      BY <3>1, <3>2
  <2> QED
    BY <1>1, <2>2, <2>3 DEF Passed
<1> QED
  BY <1>2, <1>4, <1>5, <1>6 DEF LauncherInv

-----------------------------------------------------------------------------
(* The processes and the host. *)

\* run() stands still; who was reaped stays so, and helpers only go.
LEMMA StandingStill ==
  ASSUME LauncherInv, UNCHANGED <<mode, at, env, answered, children, termed, killed>>,
         leader' \in [Services -> {"none", "running", "zombie", "reaped"}],
         helpers' \in [Services -> {"none", "mild", "deaf"}],
         \A s \in Services : /\ leader'[s] = "none" <=> leader[s] = "none"
                             /\ leader[s] = "reaped" => leader'[s] = "reaped"
                             /\ helpers'[s] # "none" => helpers[s] # "none"
  PROVE  LauncherInv'
<1>1. LauncherShape'
  BY DEF LauncherInv, LauncherShape
<1>2. Settling'
  BY SettlingStays DEF Services
<1>3. \A i \in 1..Len(children) : children[i] \in Services
  BY DEF LauncherInv, LauncherShape
<1>4. Started'
  <2>1. \A t \in killed : helpers'[t] = "none"
    BY DEF LauncherInv, LauncherShape, Started
  <2> QED
    BY <1>3, <2>1 DEF LauncherInv, Started
<1>5. Passed'
  BY <1>3 DEF LauncherInv, LauncherShape, Passed
<1> QED
  BY <1>1, <1>2, <1>4, <1>5 DEF LauncherInv

\* A process exits, or its number is given to another.
LEMMA HostIsGood ==
  ASSUME LauncherInv, NEW s \in Services, LeaderExits(s) \/ HelpersExit(s) \/ Recycle(s)
  PROVE  LauncherInv'
<1>1. CASE LeaderExits(s)
  <2>1. /\ leader[s] = "running" /\ leader' = [leader EXCEPT ![s] = "zombie"]
        /\ UNCHANGED <<mode, at, env, answered, children, termed, killed, helpers>>
    BY <1>1 DEF LeaderExits, Options, Found
  <2>2. /\ leader' \in [Services -> {"none", "running", "zombie", "reaped"}]
        /\ helpers' \in [Services -> {"none", "mild", "deaf"}]
        /\ \A t \in Services : /\ leader'[t] = "none" <=> leader[t] = "none"
                               /\ leader[t] = "reaped" => leader'[t] = "reaped"
                               /\ helpers'[t] # "none" => helpers[t] # "none"
    BY <2>1 DEF LauncherInv, LauncherShape
  <2> QED
    BY <2>1, <2>2, StandingStill
<1>2. CASE HelpersExit(s)
  <2>1. /\ helpers' = [helpers EXCEPT ![s] = "none"]
        /\ UNCHANGED <<mode, at, env, answered, children, termed, killed, leader>>
    BY <1>2 DEF HelpersExit, Options, Found
  <2>2. /\ leader' \in [Services -> {"none", "running", "zombie", "reaped"}]
        /\ helpers' \in [Services -> {"none", "mild", "deaf"}]
        /\ \A t \in Services : /\ leader'[t] = "none" <=> leader[t] = "none"
                               /\ leader[t] = "reaped" => leader'[t] = "reaped"
                               /\ helpers'[t] # "none" => helpers[t] # "none"
    BY <2>1 DEF LauncherInv, LauncherShape
  <2> QED
    BY <2>1, <2>2, StandingStill
<1>3. CASE Recycle(s)
  BY <1>3, StandingStill DEF Recycle, Options, Found, LauncherInv, LauncherShape
<1> QED
  BY <1>1, <1>2, <1>3

-----------------------------------------------------------------------------
\* Every step of run() keeps the invariant.
LEMMA RunIsGood == LauncherInv /\ Run => LauncherInv'
<1> SUFFICES ASSUME LauncherInv, Run PROVE LauncherInv'
  OBVIOUS
<1>1. ASSUME NEW i \in DOMAIN Kinds, PassOver(i) PROVE LauncherInv'
  BY <1>1, PassOverIsGood
<1>2. ASSUME NEW i \in DOMAIN Kinds, ProbeHost(i) PROVE LauncherInv'
  BY <1>2, ProbeHostIsGood
<1>3. ASSUME NEW i \in DOMAIN Kinds, NoSuchPlace(i) PROVE LauncherInv'
  BY <1>3, NoSuchPlaceIsGood
<1>4. ASSUME NEW i \in DOMAIN Kinds, StartPrivate(i) PROVE LauncherInv'
  BY <1>4, StartPrivateIsGood
<1>5. CASE StartFails \/ NeverReady \/ SeeStop
  <2>1. /\ Bail /\ at.task \notin {"terminate", "kill"}
        /\ UNCHANGED <<mode, env, answered, children, helpers, termed, killed, leader>>
    BY <1>5, KindsAre DEF StartFails, NeverReady, SeeStop, Options, Found, Groups, Middle
  <2> QED
    BY <2>1, BailingIsGood DEF LauncherInv, LauncherShape
<1>6. CASE EnsureAlive
  BY <1>6, EnsureAliveIsGood
<1>7. CASE BecomesReady
  BY <1>7, BecomesReadyIsGood
<1>8. CASE StartDesktop
  BY <1>8, StartDesktopIsGood
<1>9. CASE StartServer
  BY <1>9, StartServerIsGood
<1>10. CASE Terminate
  BY <1>10, TerminateIsGood
<1>11. CASE Poll
  BY <1>11, PollIsGood
<1>12. CASE Deadline
  BY <1>12, WaitingIsGood DEF Deadline, Options, Found, Groups, LauncherInv, LauncherShape
<1>13. CASE Kill
  BY <1>13, KillIsGood
<1> QED
  BY <1>1, <1>2, <1>3, <1>4, <1>5, <1>6, <1>7, <1>8, <1>9, <1>10, <1>11, <1>12, <1>13 DEF Run

\* Every step keeps the invariant.
LEMMA NextIsGood == LauncherInv /\ [LauncherNext]_launcherVars => LauncherInv'
<1> SUFFICES ASSUME LauncherInv, [LauncherNext]_launcherVars PROVE LauncherInv'
  OBVIOUS
<1>1. CASE Run
  BY <1>1, RunIsGood
<1>2. CASE Signal
  BY <1>2, StandingStill DEF Signal, Options, Found, Groups, LauncherInv, LauncherShape
<1>3. ASSUME NEW s \in Services, LeaderExits(s) \/ HelpersExit(s) \/ Recycle(s) PROVE LauncherInv'
  BY <1>3, HostIsGood
<1>4. CASE UNCHANGED launcherVars
  BY <1>4, StandingStill DEF launcherVars, LauncherInv, LauncherShape
<1> QED
  BY <1>1, <1>2, <1>3, <1>4 DEF LauncherNext

\* The server starts when all services are settled.
LEMMA SettledIsServed == LauncherInv => ServerIsServed
BY DEF LauncherInv, Settling, Settled, ServerIsServed, Middle

\* When both passes are over every child was told and reaped.
LEMMA PassedIsClean == LauncherInv => NothingLeftBehind
<1> SUFFICES ASSUME LauncherInv, Over, NEW s \in Services
             PROVE  /\ leader[s] \in {"none", "reaped"}
                    /\ helpers[s] # "none" => s \in termed /\ s \notin killed
  BY DEF NothingLeftBehind
<1>1. at.task = "kill" /\ at.n = 0
  BY DEF Over
<1>2. CASE leader[s] = "none" /\ helpers[s] = "none"
  BY <1>2
<1>3. CASE leader[s] # "none" \/ helpers[s] # "none"
  <2>1. PICK i \in 1..Len(children) : children[i] = s
    BY <1>3 DEF LauncherInv, Started
  <2>2. leader[s] = "reaped" /\ (helpers[s] # "none" => s \in termed)
    BY <1>1, <2>1 DEF LauncherInv, Passed
  <2> QED
    BY <2>2 DEF LauncherInv, Started
<1> QED
  BY <1>2, <1>3

-----------------------------------------------------------------------------
(* The numbers. *)

\* No child is started twice, and run() has as many behind it as it has come to.
Few ==
  /\ at.task = "x" => Len(children) <= 0
  /\ at.task = "dbus" => Len(children) <= 1
  /\ at.task = "audio" => Len(children) <= 2
  /\ at.task = "wait" => Len(children) <= at.n
  /\ at.task = "desktop" => Len(children) <= 3
  /\ at.task = "server" => Len(children) <= 4
  /\ Len(children) <= 5

\* What at.n may count, and the groups that are noted.
Numbers ==
  /\ at.task \in Middle => at.n <= 4
  /\ at.task \in {"desktop", "server", "watch"} => at.n = 1
  /\ termed \subseteq Services /\ recycled \subseteq Services /\ struck \subseteq Services
  /\ stop \in BOOLEAN /\ bare \in BOOLEAN

\* The service is found, passed over, or its next place is tried.
LEMMA LookingIsFew ==
  ASSUME LauncherInv, Few, Numbers, NEW i \in DOMAIN Kinds,
         PassOver(i) \/ ProbeHost(i) \/ NoSuchPlace(i)
  PROVE  Few' /\ Numbers'
<1>1. /\ at.task = Kinds[i] /\ at.n \in Nat /\ Len(children) \in Nat
      /\ UNCHANGED <<children, termed, recycled, struck, stop, bare>>
  BY DEF PassOver, ProbeHost, NoSuchPlace, Probing, Options, Groups, LauncherInv, LauncherShape
<1>2. CASE NextService(i)
  BY <1>1, <1>2, NextIs, KindsAre DEF Few, Numbers, Middle
<1>3. CASE Turns(Kinds[i], at.n + 1) /\ at.n <= Len(Hosts[Kinds[i]])
  <2>1. Len(Hosts[Kinds[i]]) <= 3
    <3>1. Hosts[Kinds[i]] \in {<<"inherited">>, <<"inherited", "run">>, <<"inherited", "xdg", "run">>}
      BY KindsAre DEF Hosts, Middle
    <3>2. \A h \in {<<"inherited">>, <<"inherited", "run">>, <<"inherited", "xdg", "run">>} : Len(h) <= 3
      <4>1. \A h : h = <<"inherited">> => Len(h) = 1
        OBVIOUS
      <4>2. \A h : h = <<"inherited", "run">> => Len(h) = 2
        OBVIOUS
      <4>3. \A h : h = <<"inherited", "xdg", "run">> => Len(h) = 3
        OBVIOUS
      <4>4. 1 <= 3 /\ 2 <= 3 /\ 3 <= 3
        OBVIOUS
      <4> QED
        BY <4>1, <4>2, <4>3, <4>4, Zenon
    <3> QED
      BY <3>1, <3>2
  <2>2. at'.task = at.task /\ at'.n = at.n + 1 /\ at'.n <= 4
    BY <1>1, <1>3, <2>1 DEF Turns
  <2> QED
    BY <1>1, <2>2, KindsAre DEF Few, Numbers, Middle
<1> QED
  BY <1>2, <1>3 DEF PassOver, ProbeHost, NoSuchPlace

\* A child is started.
LEMMA StartingIsFew ==
  ASSUME LauncherInv, Few, Numbers,
         (\E i \in DOMAIN Kinds : StartPrivate(i)) \/ StartDesktop \/ StartServer
  PROVE  Few' /\ Numbers'
<1>1. children \in Seq(Services) /\ Len(children) \in Nat
  BY DEF LauncherInv, LauncherShape
<1>2. ASSUME NEW s \in Services, Spawned(s)
      PROVE  Len(children') = Len(children) + 1 /\ UNCHANGED <<termed, recycled, struck>>
  BY <1>1, <1>2 DEF Spawned
<1>3. ASSUME NEW i \in DOMAIN Kinds, StartPrivate(i) PROVE Few' /\ Numbers'
  <2>1. /\ Kinds[i] \in Services /\ at.task = Kinds[i] /\ Spawned(Kinds[i])
        /\ at' = [task |-> "wait", n |-> i] /\ UNCHANGED <<stop, bare>>
    BY <1>3, KindsAre DEF StartPrivate, Probing, Turns, Options, Services, Middle
  <2> QED
    BY <1>1, <1>2, <2>1, KindsAre DEF Few, Numbers, Middle
<1>4. CASE StartDesktop
  <2>1. /\ at.task = "desktop" /\ at' = [task |-> "server", n |-> 1] /\ UNCHANGED <<stop, bare>>
        /\ Spawned("desktop") \/ UNCHANGED Groups
    BY <1>4 DEF StartDesktop, Turns, Options
  <2>2. Len(children') <= Len(children) + 1 /\ UNCHANGED <<termed, recycled, struck>>
    BY <1>1, <1>2, <2>1 DEF Groups, Services
  <2>3. Len(children') <= 4
    BY <1>1, <2>1, <2>2 DEF Few, Groups, Spawned
  <2> QED
    BY <2>1, <2>2, <2>3 DEF Few, Numbers, Middle
<1>5. CASE StartServer
  <2>1. /\ at.task = "server" /\ at' = [task |-> "watch", n |-> 1] /\ UNCHANGED <<stop, bare>>
        /\ Spawned("server")
    BY <1>5 DEF StartServer, Turns, Options
  <2>2. Len(children') = Len(children) + 1 /\ UNCHANGED <<termed, recycled, struck>>
    BY <1>2, <2>1 DEF Services
  <2> QED
    BY <1>1, <2>1, <2>2 DEF Few, Numbers, Middle
<1> QED
  BY <1>3, <1>4, <1>5

\* The rest of run(), which starts nothing.
LEMMA EndingIsFew ==
  ASSUME LauncherInv, Few, Numbers,
         \/ StartFails \/ EnsureAlive \/ BecomesReady \/ NeverReady \/ SeeStop
         \/ Terminate \/ Poll \/ Deadline \/ Kill
  PROVE  Few' /\ Numbers'
<1>1. /\ children \in Seq(Services) /\ Len(children) \in Nat /\ at.n \in Nat
      /\ UNCHANGED <<children, stop, bare>>
  BY DEF LauncherInv, LauncherShape, StartFails, EnsureAlive, BecomesReady, NeverReady, SeeStop,
         Terminate, Poll, Deadline, Kill, Options, Groups
<1>2. CASE BecomesReady
  <2>1. /\ at.task = "wait" /\ at.n \in DOMAIN Kinds /\ NextService(at.n)
        /\ UNCHANGED <<termed, recycled, struck>>
    BY <1>2, KindsAre DEF BecomesReady, Groups, LauncherInv, Settling
  <2> QED
    BY <1>1, <2>1, NextIs, KindsAre DEF Few, Numbers, Middle
<1>3. CASE Terminate
  <2>1. at.n \in 1..Len(children)
    BY <1>1, <1>3 DEF Terminate, LauncherInv, Passed
  <2>2. children[at.n] \in Services /\ at'.task = "terminate"
    BY <1>1, <1>3, <2>1 DEF Terminate, Turns
  <2>3. termed' \subseteq Services /\ recycled' \subseteq Services /\ struck' \subseteq Services
    BY <1>3, <2>2 DEF Terminate, Numbers
  <2> QED
    BY <1>1, <2>2, <2>3 DEF Few, Numbers, Middle
<1>4. CASE StartFails \/ EnsureAlive \/ NeverReady \/ SeeStop \/ Poll \/ Deadline \/ Kill
  <2>1. at'.task \in {"terminate", "kill"} /\ UNCHANGED <<termed, recycled, struck>>
    BY <1>4 DEF StartFails, EnsureAlive, NeverReady, SeeStop, Poll, Deadline, Kill, Bail, Turns, Groups
  <2> QED
    BY <1>1, <2>1 DEF Few, Numbers, Middle
<1> QED
  BY <1>2, <1>3, <1>4

\* Every step.
LEMMA NextIsFew == LauncherInv /\ Few /\ Numbers /\ [LauncherNext]_launcherVars => Few' /\ Numbers'
<1> SUFFICES ASSUME LauncherInv, Few, Numbers, [LauncherNext]_launcherVars PROVE Few' /\ Numbers'
  OBVIOUS
<1>1. CASE Run
  BY <1>1, LookingIsFew, StartingIsFew, EndingIsFew DEF Run
<1>2. CASE Signal
  BY <1>2 DEF Signal, Options, Groups, Few, Numbers
<1>3. ASSUME NEW s \in Services, LeaderExits(s) \/ HelpersExit(s) \/ Recycle(s) PROVE Few' /\ Numbers'
  BY <1>3 DEF LeaderExits, HelpersExit, Recycle, Options, Few, Numbers
<1>4. CASE UNCHANGED launcherVars
  BY <1>4 DEF launcherVars, Few, Numbers
<1> QED
  BY <1>1, <1>2, <1>3, <1>4 DEF LauncherNext

\* It begins with nothing started.
LEMMA FewAtFirst == LauncherInit => Few /\ Numbers
<1> SUFFICES ASSUME LauncherInit PROVE Few /\ Numbers
  OBVIOUS
<1>1. children = <<>> /\ at.task = "x" /\ at.n = 1
  BY DEF LauncherInit
<1>2. Len(children) = 0
  BY <1>1
<1>3. Few
  BY <1>1, <1>2 DEF Few
<1>4. termed = {} /\ recycled = {} /\ struck = {} /\ stop = FALSE /\ bare \in BOOLEAN
  BY DEF LauncherInit
<1>5. stop \in BOOLEAN /\ bare \in BOOLEAN
  BY <1>4
<1>6. termed \subseteq Services /\ recycled \subseteq Services /\ struck \subseteq Services
  BY <1>4
<1> QED
  BY <1>1, <1>3, <1>5, <1>6, SMT DEF Numbers, Middle

\* Together: the shape of the state.
LEMMA FewIsTyped == LauncherInv /\ Few /\ Numbers => LauncherTypeOK
<1> SUFFICES ASSUME LauncherInv, Few, Numbers PROVE LauncherTypeOK
  OBVIOUS
<1>1. at.n \in Nat /\ Len(children) \in Nat
  BY DEF LauncherInv, LauncherShape
<1>2. at.n \in 0..5
  BY <1>1 DEF LauncherInv, LauncherShape, Settling, Passed, Few, Numbers, Middle
<1> QED
  BY <1>2 DEF LauncherInv, LauncherShape, Numbers, LauncherTypeOK, Middle

-----------------------------------------------------------------------------
\* However many places were tried in vain (x_probe, bus_probe, pulse_probe), the
\* server is started with places that have answered.
THEOREM ServedByAnswers == LauncherSpec => []ServerIsServed
<1> QED
  BY LauncherInitIsGood, NextIsGood, SettledIsServed, PTL DEF LauncherSpec

\* However children and helpers exit around Drop of Processes, the launcher leaves no
\* child, and of their groups nobody who was not told to end.
THEOREM LeavesNothing == LauncherSpec => []NothingLeftBehind
<1> QED
  BY LauncherInitIsGood, NextIsGood, PassedIsClean, PTL DEF LauncherSpec

\* No child is started twice, no group is noted that was not started here.
THEOREM LauncherTypeCorrect == LauncherSpec => []LauncherTypeOK
<1> QED
  BY LauncherInitIsGood, NextIsGood, FewAtFirst, NextIsFew, FewIsTyped, PTL DEF LauncherSpec

------------------------------------------------------------------------------
(* The registry.  Its two invariants hold each other up: a lease's entry   *)
(* stays because the counts still hold the lease, and the new entry of a   *)
(* client has a count of one because nobody of it was left.                *)

RegistryInv == RegistryTypeOK /\ CountsAreConnections /\ LeasesAreReached

-----------------------------------------------------------------------------
\* The connections counted for a client in a role are a finite set.
LEMMA CountedFinite ==
  \A c, r : IsFiniteSet(Counted(c, r)) /\ Cardinality(Counted(c, r)) \in Nat
<1> TAKE c, r
<1>1. IsFiniteSet(Connections)
  BY RegistryAssumption
<1>2. Counted(c, r) \subseteq Connections
  BY DEF Counted
<1>3. IsFiniteSet(Counted(c, r))
  BY <1>1, <1>2, FS_Subset
<1> QED
  BY <1>3, FS_CardinalityType

\* A set of connections is counted as empty exactly when it is.
LEMMA CountedZero ==
  \A c, r : Cardinality(Counted(c, r)) = 0 <=> Counted(c, r) = {}
BY CountedFinite, FS_EmptySet

\* A client's entry has a count for each role.
LEMMA EntryShape ==
  ASSUME RegistryTypeOK, NEW c \in Clients, clients[c] # Unlisted
  PROVE  /\ clients[c] = [roles |-> clients[c].roles, close_tx |-> clients[c].close_tx]
         /\ clients[c].roles \in [Roles -> Nat]
         /\ clients[c].close_tx \in Channels
BY DEF RegistryTypeOK, Entries

\* A record of counts and a channel is not Unlisted.
LEMMA EntryIsSome ==
  ASSUME NEW roles \in [Roles -> Nat], NEW ch \in Channels
  PROVE  [roles |-> roles, close_tx |-> ch] \in Entries /\ [roles |-> roles, close_tx |-> ch] # Unlisted
BY RegistryAssumption DEF Entries

-----------------------------------------------------------------------------
\* The invariant holds of the initial states (ClientManager::default).
LEMMA RegistryInitIsGood == RegistryInit => RegistryInv
<1> SUFFICES ASSUME RegistryInit PROVE RegistryInv
  OBVIOUS
<1>1. RegistryTypeOK
  BY DEF RegistryInit, RegistryTypeOK
<1>2. CountsAreConnections
  BY DEF RegistryInit, CountsAreConnections, Counted, Leased
<1>3. LeasesAreReached
  BY DEF RegistryInit, LeasesAreReached, Leased
<1> QED
  BY <1>1, <1>2, <1>3 DEF RegistryInv

\* A step that leaves the registry and the counted connections as they are
\* keeps the counts.
LEMMA SameCounts ==
  ASSUME CountsAreConnections, UNCHANGED clients,
         \A c, r : Counted(c, r)' = Counted(c, r)
  PROVE  CountsAreConnections'
BY DEF CountsAreConnections

\* register.
LEMMA RegisterIsGood ==
  ASSUME RegistryInv, NEW s \in Connections, Register(s)
  PROVE  RegistryInv'
<1> DEFINE c   == ClientOf[s]
           r   == RoleOf[s]
           old == IF clients[c] = Unlisted THEN NoRoles ELSE clients[c].roles
<1>1. c \in Clients /\ r \in Roles
  BY RegistryAssumption
<1>2. old \in [Roles -> Nat]
  BY <1>1, EntryShape DEF RegistryInv, NoRoles
<1> DEFINE new == [old EXCEPT ![r] = @ + 1]
<1>3. new \in [Roles -> Nat] /\ new[r] = old[r] + 1 /\ \A q \in Roles \ {r} : new[q] = old[q]
  BY <1>1, <1>2
<1>4. PICK ch \in Channels :
        /\ IF clients[c] = Unlisted
           THEN Fresh(ch) /\ closed' = [closed EXCEPT ![ch] = FALSE]
           ELSE ch = clients[c].close_tx /\ UNCHANGED closed
        /\ clients' = [clients EXCEPT ![c] = [roles |-> new, close_tx |-> ch]]
        /\ close_rx' = [close_rx EXCEPT ![s] = ch]
  BY DEF Register
<1>5. lease[s] = "off" /\ lease' = [lease EXCEPT ![s] = "opening"]
  BY DEF Register, Goes
<1> DEFINE entry == [roles |-> new, close_tx |-> ch]
<1>6. entry \in Entries /\ entry # Unlisted /\ entry.roles = new /\ entry.close_tx = ch
  BY <1>3, EntryIsSome
<1> HIDE DEF new, old, entry
<1>7. clients'[c] = entry /\ \A d \in Clients \ {c} : clients'[d] = clients[d]
  BY <1>1, <1>4 DEF RegistryInv, RegistryTypeOK, entry
<1>8. RegistryTypeOK'
  <2>1. clients' \in [Clients -> Entries \cup {Unlisted}]
    BY <1>1, <1>4, <1>6 DEF RegistryInv, RegistryTypeOK, entry
  <2>2. closed' \in [Channels -> BOOLEAN] /\ close_rx' \in [Connections -> Channels]
    BY <1>4 DEF RegistryInv, RegistryTypeOK
  <2> QED
    BY <2>1, <2>2, <1>5 DEF RegistryInv, RegistryTypeOK
<1>9. CountsAreConnections'
  <2>1. \A d, q : Counted(d, q)' = IF d = c /\ q = r THEN Counted(d, q) \cup {s} ELSE Counted(d, q)
    BY <1>5 DEF Counted, Leased, RegistryInv, RegistryTypeOK
  <2>2. s \notin Counted(c, r)
    BY <1>5 DEF Counted, Leased
  <2>3. Cardinality(Counted(c, r) \cup {s}) = Cardinality(Counted(c, r)) + 1
    BY <2>2, CountedFinite, FS_AddElement
  <2>4. \A q \in Roles : old[q] = Cardinality(Counted(c, q))
    <3>1. CASE clients[c] = Unlisted
      <4>1. \A q \in Roles : Counted(c, q) = {}
        BY <1>1, <3>1 DEF RegistryInv, CountsAreConnections
      <4> QED
        BY <4>1, <3>1, CountedZero DEF old, NoRoles
    <3>2. CASE clients[c] # Unlisted
      BY <1>1, <3>2 DEF RegistryInv, CountsAreConnections, old
    <3> QED
      BY <3>1, <3>2
  <2>5. ASSUME NEW q \in Roles PROVE new[q] = Cardinality(Counted(c, q)')
    BY <1>1, <1>3, <2>1, <2>3, <2>4
  <2>6. Counted(c, r)' # {}
    BY <2>1
  <2>7. ASSUME NEW d \in Clients \ {c}, NEW q PROVE Counted(d, q)' = Counted(d, q)
    BY <2>1
  <2> QED
    BY <1>1, <1>6, <1>7, <2>5, <2>6, <2>7 DEF RegistryInv, CountsAreConnections
<1>10. LeasesAreReached'
  <2> SUFFICES ASSUME NEW t \in Connections, Leased(t)'
               PROVE  clients'[ClientOf[t]] # Unlisted /\ close_rx'[t] = clients'[ClientOf[t]].close_tx
    BY DEF LeasesAreReached
  <2>1. ClientOf[t] \in Clients /\ RoleOf[t] \in Roles
    BY RegistryAssumption
  <2>2. CASE t = s
    BY <1>4, <1>6, <1>7, <2>2 DEF RegistryInv, RegistryTypeOK
  <2>3. CASE t # s
    <3>1. Leased(t) /\ close_rx'[t] = close_rx[t]
      BY <1>4, <1>5, <2>3 DEF Leased, RegistryInv, RegistryTypeOK
    <3>2. clients[ClientOf[t]] # Unlisted /\ close_rx[t] = clients[ClientOf[t]].close_tx
      BY <3>1 DEF RegistryInv, LeasesAreReached
    <3> QED
      BY <1>4, <1>6, <1>7, <2>1, <3>1, <3>2
  <2> QED
    BY <2>2, <2>3
<1> QED
  BY <1>8, <1>9, <1>10 DEF RegistryInv

\* close_client and close_other_clients.
LEMMA CloseIsGood ==
  ASSUME RegistryInv, NEW cs, Close(cs)
  PROVE  RegistryInv'
<1>1. RegistryTypeOK'
  BY DEF RegistryInv, RegistryTypeOK, Close
<1>2. CountsAreConnections'
  BY DEF RegistryInv, CountsAreConnections, Close, Counted, Leased
<1>3. LeasesAreReached'
  BY DEF RegistryInv, LeasesAreReached, Close, Leased
<1> QED
  BY <1>1, <1>2, <1>3 DEF RegistryInv

\* A lease changes its place and stays counted.
LEMMA MoveIsGood ==
  ASSUME RegistryInv, NEW s \in Connections, Open(s) \/ SeeClose(s) \/ DropLease(s)
  PROVE  RegistryInv'
<1>1. PICK place \in {"connected", "closing", "dropped"} : lease' = [lease EXCEPT ![s] = place]
  BY DEF Open, SeeClose, DropLease, Goes
<1>2. Leased(s) /\ UNCHANGED <<clients, closed, close_rx>>
  BY DEF Open, SeeClose, DropLease, Leased
<1>3. RegistryTypeOK'
  BY <1>1, <1>2 DEF RegistryInv, RegistryTypeOK
<1>4. \A t \in Connections : Leased(t)' => Leased(t)
  BY <1>1, <1>2 DEF Leased, RegistryInv, RegistryTypeOK
<1>5. \A c, r : Counted(c, r)' = Counted(c, r)
  BY <1>1, <1>2 DEF Counted, Leased, RegistryInv, RegistryTypeOK
<1>6. CountsAreConnections'
  BY <1>2, <1>5, SameCounts DEF RegistryInv
<1>7. LeasesAreReached'
  BY <1>2, <1>4 DEF RegistryInv, LeasesAreReached
<1> QED
  BY <1>3, <1>6, <1>7 DEF RegistryInv

\* unregister.
LEMMA UnregisterIsGood ==
  ASSUME RegistryInv, NEW s \in Connections, Unregister(s)
  PROVE  RegistryInv'
<1> DEFINE c     == ClientOf[s]
           r     == RoleOf[s]
           count == clients[c].roles[r]
           left  == [clients[c].roles EXCEPT ![r] = IF count = 0 THEN 0 ELSE count - 1]
           entry == [roles |-> left, close_tx |-> clients[c].close_tx]
<1>1. c \in Clients /\ r \in Roles
  BY RegistryAssumption
<1>2. lease[s] = "dropped" /\ lease' = [lease EXCEPT ![s] = "off"] /\ UNCHANGED <<closed, close_rx>>
  BY DEF Unregister, Goes
<1>3. s \in Counted(c, r)
  BY <1>2 DEF Counted
<1>4. clients[c] # Unlisted
  BY <1>1, <1>3 DEF RegistryInv, CountsAreConnections
<1>5. clients' = [clients EXCEPT ![c] = IF left = NoRoles THEN Unlisted ELSE entry]
  BY <1>4 DEF Unregister
<1>6. \A d, q : Counted(d, q)' = IF d = c /\ q = r THEN Counted(d, q) \ {s} ELSE Counted(d, q)
  BY <1>2 DEF Counted, Leased, RegistryInv, RegistryTypeOK
<1>7. \A q \in Roles : clients[c].roles[q] = Cardinality(Counted(c, q))
  BY <1>1, <1>4 DEF RegistryInv, CountsAreConnections
<1>8. Cardinality(Counted(c, r) \ {s}) = Cardinality(Counted(c, r)) - 1
  BY <1>3, CountedFinite, FS_RemoveElement
<1>9. clients[c].roles \in [Roles -> Nat] /\ clients[c].close_tx \in Channels
  BY <1>1, <1>4, EntryShape DEF RegistryInv
<1>10. count \in Nat /\ count # 0
  BY <1>1, <1>3, <1>7, <1>9, CountedZero
<1>11. left \in [Roles -> Nat] /\ left[r] = count - 1 /\ \A q \in Roles \ {r} : left[q] = clients[c].roles[q]
  BY <1>1, <1>9, <1>10
<1>12. \A q \in Roles : left[q] = Cardinality(Counted(c, q)')
  <2> SUFFICES ASSUME NEW q \in Roles PROVE left[q] = Cardinality(Counted(c, q)')
    OBVIOUS
  <2> HIDE DEF left
  <2>1. CASE q = r
    BY <1>1, <1>6, <1>7, <1>8, <1>11, <2>1
  <2>2. CASE q # r
    BY <1>6, <1>7, <1>11, <2>2
  <2> QED
    BY <2>1, <2>2
<1>13. entry \in Entries /\ entry # Unlisted /\ entry.roles = left /\ entry.close_tx = clients[c].close_tx
  BY <1>9, <1>11, EntryIsSome
<1> HIDE DEF left, entry, count
<1>14. /\ clients'[c] = IF left = NoRoles THEN Unlisted ELSE entry
       /\ \A d \in Clients \ {c} : clients'[d] = clients[d]
  BY <1>1, <1>5 DEF RegistryInv, RegistryTypeOK
<1>15. left = NoRoles <=> \A q \in Roles : Counted(c, q)' = {}
  <2>1. \A q \in Roles : left[q] = 0 <=> Counted(c, q)' = {}
    <3> SUFFICES ASSUME NEW q \in Roles PROVE left[q] = 0 <=> Counted(c, q)' = {}
      OBVIOUS
    <3>1. IsFiniteSet(Counted(c, q)')
      <4>1. Counted(c, q)' \subseteq Counted(c, q)
        BY <1>6
      <4> QED
        BY <4>1, CountedFinite, FS_Subset
    <3> QED
      BY <1>12, <3>1, FS_EmptySet
  <2>2. left = NoRoles <=> \A q \in Roles : left[q] = 0
    BY <1>11 DEF NoRoles
  <2> QED
    BY <2>1, <2>2
<1>16. RegistryTypeOK'
  BY <1>1, <1>2, <1>5, <1>13 DEF RegistryInv, RegistryTypeOK
<1>17. CountsAreConnections'
  <2> SUFFICES ASSUME NEW d \in Clients
               PROVE  IF clients'[d] = Unlisted
                      THEN \A q \in Roles : Counted(d, q)' = {}
                      ELSE /\ \A q \in Roles : clients'[d].roles[q] = Cardinality(Counted(d, q)')
                           /\ \E q \in Roles : Counted(d, q)' # {}
    BY DEF CountsAreConnections
  <2>1. CASE d = c
    BY <1>12, <1>13, <1>14, <1>15, <2>1
  <2>2. CASE d # c
    <3>1. clients'[d] = clients[d] /\ \A q \in Roles : Counted(d, q)' = Counted(d, q)
      BY <1>6, <1>14, <2>2
    <3> QED
      BY <3>1 DEF RegistryInv, CountsAreConnections
  <2> QED
    BY <2>1, <2>2
<1>18. LeasesAreReached'
  <2> SUFFICES ASSUME NEW t \in Connections, Leased(t)'
               PROVE  clients'[ClientOf[t]] # Unlisted /\ close_rx'[t] = clients'[ClientOf[t]].close_tx
    BY DEF LeasesAreReached
  <2>1. ClientOf[t] \in Clients /\ RoleOf[t] \in Roles
    BY RegistryAssumption
  <2>2. Leased(t) /\ close_rx'[t] = close_rx[t]
    BY <1>2 DEF Leased, RegistryInv, RegistryTypeOK
  <2>3. clients[ClientOf[t]] # Unlisted /\ close_rx[t] = clients[ClientOf[t]].close_tx
    BY <2>2 DEF RegistryInv, LeasesAreReached
  <2>4. t \in Counted(ClientOf[t], RoleOf[t])'
    BY DEF Counted
  <2>5. ClientOf[t] = c => left # NoRoles
    BY <1>15, <2>1, <2>4
  <2> QED
    BY <1>13, <1>14, <2>1, <2>2, <2>3, <2>5
<1> QED
  BY <1>16, <1>17, <1>18 DEF RegistryInv

-----------------------------------------------------------------------------
\* Every step keeps the invariant.
LEMMA RegistryStepIsGood == RegistryInv /\ [RegistryNext]_registryVars => RegistryInv'
<1> SUFFICES ASSUME RegistryInv, [RegistryNext]_registryVars PROVE RegistryInv'
  OBVIOUS
<1>1. ASSUME NEW s \in Connections, Register(s) PROVE RegistryInv'
  BY <1>1, RegisterIsGood
<1>2. ASSUME NEW s \in Connections, Open(s) \/ SeeClose(s) \/ DropLease(s) PROVE RegistryInv'
  BY <1>2, MoveIsGood
<1>3. ASSUME NEW s \in Connections, Unregister(s) PROVE RegistryInv'
  BY <1>3, UnregisterIsGood
<1>4. ASSUME NEW c \in Clients, CloseAll(c) \/ CloseOthers(c) PROVE RegistryInv'
  BY <1>4, CloseIsGood DEF CloseAll, CloseOthers
<1>5. CASE UNCHANGED registryVars
  BY <1>5 DEF RegistryInv, RegistryTypeOK, CountsAreConnections, LeasesAreReached, Counted, Leased, registryVars
<1> QED
  BY <1>1, <1>2, <1>3, <1>4, <1>5 DEF RegistryNext

\* The registry always has the shape its types give it, its counts are the
\* connections, and its leases listen to their client's channel.
THEOREM RegistryInvariance == RegistrySpec => []RegistryInv
BY RegistryInitIsGood, RegistryStepIsGood, PTL DEF RegistrySpec

\* The state keeps the shape the code's types give it.
THEOREM RegistryTypeCorrect == RegistrySpec => []RegistryTypeOK
<1>1. RegistryInv => RegistryTypeOK
  BY DEF RegistryInv
<1> QED
  BY <1>1, RegistryInvariance, PTL

\* The counts are the connections whose unregistration has not run, however
\* often and in however many roles a client connects again (register against
\* unregister).
THEOREM CountsAreExact == RegistrySpec => []CountsAreConnections
<1>1. RegistryInv => CountsAreConnections
  BY DEF RegistryInv
<1> QED
  BY <1>1, RegistryInvariance, PTL

\* Whoever closes a client reaches every connection of it: the channel in the
\* entry is the one each lease listens to.
THEOREM EveryLeaseIsReached == RegistrySpec => []LeasesAreReached
<1>1. RegistryInv => LeasesAreReached
  BY DEF RegistryInv
<1> QED
  BY <1>1, RegistryInvariance, PTL

------------------------------------------------------------------------------
(* The peer behind a WebRTC connection.                                    *)

\* The tasks that await the Notify, and the lines they can form.
Waiters == {"session", "feed"}
Lines   == {<<>>, <<"session">>, <<"feed">>, <<"session", "feed">>, <<"feed", "session">>}

-----------------------------------------------------------------------------
(* The line of those who wait. *)

LEMMA LineElements ==
  /\ ToSet(<<>>) = {}
  /\ \A v : ToSet(<<v>>) = {v}
  /\ \A v, w : ToSet(<<v, w>>) = {v, w}
<1>1. ToSet(<<>>) = {}
  BY DEF ToSet
<1>2. ASSUME NEW v PROVE ToSet(<<v>>) = {v}
  <2>1. DOMAIN <<v>> = {1} /\ <<v>>[1] = v
    OBVIOUS
  <2> QED
    BY <2>1 DEF ToSet
<1>3. ASSUME NEW v, NEW w PROVE ToSet(<<v, w>>) = {v, w}
  <2>1. DOMAIN <<v, w>> = {1, 2} /\ <<v, w>>[1] = v /\ <<v, w>>[2] = w
    OBVIOUS
  <2> QED
    BY <2>1 DEF ToSet
<1> QED
  BY <1>1, <1>2, <1>3

\* Taking w out of a line.
LEMMA FirstOut ==
  ASSUME NEW S, NEW q \in Seq(S), NEW w, NEW n \in 1 .. Len(q),
         \A i \in 1 .. Len(q) : q[i] = w <=> i = n
  PROVE  RemoveFirst(q, w) = SubSeq(q, 1, n - 1) \o SubSeq(q, n + 1, Len(q))
<1>1. Len(q) \in Nat
  BY LenProperties
<1>2. {i \in 1 .. Len(q) : q[i] = w} = {n}
  OBVIOUS
<1>3. Min({n}) = n
  BY <1>1 DEF Min
<1>4. \E i \in 1 .. Len(q) : q[i] = w
  OBVIOUS
<1> QED
  BY <1>2, <1>3, <1>4 DEF RemoveFirst, SelectInSeq, RemoveAt

LEMMA Single ==
  ASSUME NEW S, NEW q \in Seq(S), NEW n \in 1 .. Len(q)
  PROVE  SubSeq(q, n, n) = <<q[n]>>
<1> DEFINE u == SubSeq(q, n, n)
           v == <<q[n]>>
<1>1. n \in Int /\ \A i \in n .. n : q[i] \in S
  BY LenProperties, ElementOfSeq
<1>2. /\ u \in Seq(S)
      /\ Len(u) = IF n <= n THEN n - n + 1 ELSE 0
      /\ \A i \in 1 .. n - n + 1 : u[i] = q[n + i - 1]
  BY <1>1, SubSeqProperties
<1>3. Len(u) = 1 /\ u[1] = q[n]
  BY <1>1, <1>2
<1>4. v \in Seq(S) /\ Len(v) = 1 /\ v[1] = q[n]
  BY <1>1
<1>5. Len(u) = Len(v) /\ \A i \in 1 .. Len(u) : u[i] = v[i]
  BY <1>3, <1>4
<1> HIDE DEF u, v
<1>6. u = v
  BY <1>2, <1>4, <1>5, SeqEqual
<1> QED
  BY <1>6 DEF u, v

LEMMA NoneOut ==
  ASSUME NEW q, NEW w, \A i \in 1 .. Len(q) : q[i] # w
  PROVE  RemoveFirst(q, w) = q
BY DEF RemoveFirst

LEMMA LeftOut ==
  /\ \A w : RemoveFirst(<<>>, w) = <<>>
  /\ \A v, w : RemoveFirst(<<v>>, w) = IF v = w THEN <<>> ELSE <<v>>
  /\ \A u, v, w : u # v =>
       RemoveFirst(<<u, v>>, w) = IF u = w THEN <<v>> ELSE IF v = w THEN <<u>> ELSE <<u, v>>
<1>1. ASSUME NEW w PROVE RemoveFirst(<<>>, w) = <<>>
  BY NoneOut
<1>2. ASSUME NEW v, NEW w PROVE RemoveFirst(<<v>>, w) = IF v = w THEN <<>> ELSE <<v>>
  <2> DEFINE q == <<v>>
  <2>1. q \in Seq({v}) /\ Len(q) = 1 /\ q[1] = v /\ 1 \in 1 .. Len(q)
    OBVIOUS
  <2>2. SubSeq(q, 1, 0) = <<>> /\ SubSeq(q, 2, 1) = <<>> /\ <<>> \o <<>> = <<>>
    OBVIOUS
  <2> HIDE DEF q
  <2>3. CASE v = w
    <3>1. RemoveFirst(q, w) = SubSeq(q, 1, 1 - 1) \o SubSeq(q, 1 + 1, Len(q))
      <4>1. \A i \in 1 .. Len(q) : q[i] = w <=> i = 1
        BY <2>1, <2>3
      <4> QED
        BY <2>1, <4>1, FirstOut
    <3> QED
      BY <2>1, <2>2, <2>3, <3>1 DEF q
  <2>4. CASE v # w
    BY <2>1, <2>4, NoneOut DEF q
  <2> QED
    BY <2>3, <2>4
<1>3. ASSUME NEW u, NEW v, NEW w, u # v
      PROVE  RemoveFirst(<<u, v>>, w)
               = IF u = w THEN <<v>> ELSE IF v = w THEN <<u>> ELSE <<u, v>>
  <2> DEFINE q == <<u, v>>
  <2>1. q \in Seq({u, v}) /\ Len(q) = 2 /\ q[1] = u /\ q[2] = v
        /\ 1 \in 1 .. Len(q) /\ 2 \in 1 .. Len(q)
    OBVIOUS
  <2>2. /\ SubSeq(q, 1, 0) = <<>> /\ SubSeq(q, 2, 2) = <<v>>
        /\ SubSeq(q, 1, 1) = <<u>> /\ SubSeq(q, 3, 2) = <<>>
        /\ <<>> \o <<v>> = <<v>> /\ <<u>> \o <<>> = <<u>>
    <3>1. SubSeq(q, 1, 0) = <<>> /\ SubSeq(q, 3, 2) = <<>>
      OBVIOUS
    <3>2. SubSeq(q, 2, 2) = <<q[2]>> /\ SubSeq(q, 1, 1) = <<q[1]>>
      BY <2>1, Single
    <3>3. <<>> \o <<v>> = <<v>> /\ <<u>> \o <<>> = <<u>>
      OBVIOUS
    <3> QED
      BY <2>1, <3>1, <3>2, <3>3
  <2> HIDE DEF q
  <2>3. CASE u = w
    <3>1. RemoveFirst(q, w) = SubSeq(q, 1, 1 - 1) \o SubSeq(q, 1 + 1, Len(q))
      <4>1. \A i \in 1 .. Len(q) : q[i] = w <=> i = 1
        BY <1>3, <2>1, <2>3
      <4> QED
        BY <2>1, <4>1, FirstOut
    <3> QED
      BY <2>1, <2>2, <2>3, <3>1 DEF q
  <2>4. CASE v = w
    <3>1. RemoveFirst(q, w) = SubSeq(q, 1, 2 - 1) \o SubSeq(q, 2 + 1, Len(q))
      <4>1. \A i \in 1 .. Len(q) : q[i] = w <=> i = 2
        BY <1>3, <2>1, <2>4
      <4> QED
        BY <2>1, <4>1, FirstOut
    <3> QED
      BY <1>3, <2>1, <2>2, <2>4, <3>1 DEF q
  <2>5. CASE u # w /\ v # w
    BY <2>1, <2>5, NoneOut DEF q
  <2> QED
    BY <2>3, <2>4, <2>5
<1> QED
  BY <1>1, <1>2, <1>3

\* What the operations on a line make of it and of who is in it.
LEMMA LineFacts ==
  ASSUME NEW q \in Lines, NEW w \in Waiters
  PROVE  /\ q = <<>> <=> ToSet(q) = {}
         /\ ToSet(q) \subseteq Waiters
         /\ q # <<>> => /\ Head(q) \in ToSet(q) /\ Tail(q) \in Lines
                        /\ ToSet(Tail(q)) = ToSet(q) \ {Head(q)}
         /\ RemoveFirst(q, w) \in Lines
         /\ ToSet(RemoveFirst(q, w)) = ToSet(q) \ {w}
         /\ w \notin ToSet(q) => /\ Append(q, w) \in Lines
                                 /\ ToSet(Append(q, w)) = ToSet(q) \cup {w}
<1>0. w = "session" \/ w = "feed"
  BY DEF Waiters
<1>1. CASE q = <<>>
  <2>1. Append(<<>>, w) = <<w>>
    OBVIOUS
  <2> QED
    BY <1>0, <1>1, <2>1, LineElements, LeftOut DEF Lines
<1>2. ASSUME NEW v \in Waiters, q = <<v>>
      PROVE  /\ q # <<>> /\ ToSet(q) # {} /\ ToSet(q) \subseteq Waiters
             /\ Head(q) \in ToSet(q) /\ Tail(q) \in Lines
             /\ ToSet(Tail(q)) = ToSet(q) \ {Head(q)}
             /\ RemoveFirst(q, w) \in Lines
             /\ ToSet(RemoveFirst(q, w)) = ToSet(q) \ {w}
             /\ w \notin ToSet(q) => /\ Append(q, w) \in Lines
                                     /\ ToSet(Append(q, w)) = ToSet(q) \cup {w}
  <2>1. Head(q) = v /\ Tail(q) = <<>> /\ Append(q, w) = <<v, w>> /\ q # <<>>
    <3>1. <<v>> \in Seq({v}) /\ Len(<<v>>) = 1 /\ <<v>> # <<>>
      OBVIOUS
    <3>2. Tail(<<v>>) \in Seq({v}) /\ Len(Tail(<<v>>)) = 0
      BY <3>1, HeadTailProperties
    <3>3. Tail(<<v>>) = <<>>
      BY <3>2, EmptySeq
    <3>4. Head(<<v>>) = v
      OBVIOUS
    <3>5. Append(<<v>>, w) = <<v, w>>
      <4> DEFINE a == Append(<<v>>, w)
                 b == <<v, w>>
      <4>1. <<v>> \in Seq({v, w}) /\ Len(<<v>>) = 1 /\ <<v>>[1] = v
        OBVIOUS
      <4>2. a \in Seq({v, w}) /\ Len(a) = 2 /\ a[1] = v /\ a[2] = w
        BY <4>1, AppendProperties
      <4>3. b \in Seq({v, w}) /\ Len(b) = 2 /\ b[1] = v /\ b[2] = w
        OBVIOUS
      <4>4. Len(a) = Len(b) /\ \A i \in 1 .. Len(a) : a[i] = b[i]
        BY <4>2, <4>3
      <4> HIDE DEF a, b
      <4>5. a = b
        BY <4>2, <4>3, <4>4, SeqEqual
      <4> QED
        BY <4>5 DEF a, b
    <3> QED
      BY <1>2, <3>1, <3>3, <3>4, <3>5
  <2>2. ToSet(q) = {v} /\ ToSet(<<>>) = {} /\ ToSet(<<v, w>>) = {v, w}
    BY <1>2, LineElements
  <2>3. RemoveFirst(q, w) = IF v = w THEN <<>> ELSE <<v>>
    BY <1>2, LeftOut
  <2>4. v = "session" \/ v = "feed"
    BY DEF Waiters
  <2>5. w # v => <<v, w>> \in Lines
    BY <1>0, <2>4 DEF Lines
  <2> QED
    BY <1>2, <2>1, <2>2, <2>3, <2>5 DEF Lines
<1>3. ASSUME NEW u \in Waiters, NEW v \in Waiters, u # v, q = <<u, v>>
      PROVE  /\ q # <<>> /\ ToSet(q) # {} /\ ToSet(q) = Waiters
             /\ Head(q) \in ToSet(q) /\ Tail(q) \in Lines
             /\ ToSet(Tail(q)) = ToSet(q) \ {Head(q)}
             /\ RemoveFirst(q, w) \in Lines
             /\ ToSet(RemoveFirst(q, w)) = ToSet(q) \ {w}
  <2>1. Head(q) = u /\ Tail(q) = <<v>> /\ q # <<>>
    BY <1>3
  <2>2. ToSet(q) = {u, v} /\ ToSet(<<u>>) = {u} /\ ToSet(<<v>>) = {v}
    BY <1>3, LineElements
  <2>3. RemoveFirst(q, w) = IF u = w THEN <<v>> ELSE IF v = w THEN <<u>> ELSE <<u, v>>
    BY <1>3, LeftOut
  <2>4. {u, v} = Waiters
    BY <1>3 DEF Waiters
  <2>5. <<u>> \in Lines /\ <<v>> \in Lines /\ (w = u \/ w = v)
    BY <2>4 DEF Waiters, Lines
  <2> QED
    BY <1>3, <2>1, <2>2, <2>3, <2>4, <2>5
<1>4. \/ q = <<>>
      \/ \E v \in Waiters : q = <<v>>
      \/ \E u \in Waiters, v \in Waiters : u # v /\ q = <<u, v>>
  BY DEF Lines, Waiters
<1> QED
  BY <1>1, <1>2, <1>3, <1>4

-----------------------------------------------------------------------------
(* The Notify. *)

\* Who waits is in the line or was woken, not both.
Members == woken \cup ToSet(waiters)

Orderly ==
  /\ permit \in BOOLEAN /\ waiters \in Lines /\ woken \subseteq Waiters
  /\ woken \cap ToSet(waiters) = {}

\* The word is out: it waits for somebody, or was given to the session.
Word == permit \/ "session" \in woken

LEMMA NotifyOneSpeaks ==
  ASSUME Orderly, NotifyOne
  PROVE  Orderly' /\ Members' = Members /\ ("feed" \notin Members => Word') /\ (Word => Word')
<1>1. CASE waiters = <<>>
  BY <1>1 DEF NotifyOne, Orderly, Members, Word
<1>2. CASE waiters # <<>>
  <2>1. /\ Head(waiters) \in ToSet(waiters) /\ Tail(waiters) \in Lines
        /\ ToSet(Tail(waiters)) = ToSet(waiters) \ {Head(waiters)}
        /\ ToSet(waiters) \subseteq Waiters
    BY <1>2, LineFacts DEF Orderly, Waiters
  <2>2. woken' = woken \cup {Head(waiters)} /\ waiters' = Tail(waiters) /\ permit' = permit
    BY <1>2 DEF NotifyOne
  <2>3. Orderly' /\ Members' = Members
    BY <2>1, <2>2 DEF Orderly, Members
  <2>4. "feed" \notin Members => Head(waiters) = "session"
    BY <2>1 DEF Members, Waiters
  <2> QED
    BY <2>2, <2>3, <2>4 DEF Word
<1> QED
  BY <1>1, <1>2

LEMMA DropPassesOn ==
  ASSUME Orderly, NEW w \in Waiters, Drop(w)
  PROVE  /\ Orderly' /\ Members' = Members \ {w}
         /\ Members \subseteq {"session"} /\ Word => Word'
<1> DEFINE line == RemoveFirst(waiters, w)
<1>1. line \in Lines /\ ToSet(line) = ToSet(waiters) \ {w} /\ ToSet(line) \subseteq Waiters
  BY LineFacts DEF Orderly
<1>2. CASE w \in woken /\ line = <<>>
  <2>1. permit' = TRUE /\ woken' = woken \ {w} /\ waiters' = line
    BY <1>2 DEF Drop
  <2> HIDE DEF line
  <2>2. ToSet(waiters) \subseteq {w}
    BY <1>1, <1>2, LineElements
  <2> QED
    BY <1>1, <1>2, <2>1, <2>2 DEF Orderly, Members, Word
<1>3. CASE w \in woken /\ line # <<>>
  <2>1. woken' = (woken \ {w}) \cup {Head(line)} /\ waiters' = Tail(line) /\ permit' = permit
    BY <1>3 DEF Drop
  <2> HIDE DEF line
  <2>2. /\ Head(line) \in ToSet(line) /\ Tail(line) \in Lines
        /\ ToSet(Tail(line)) = ToSet(line) \ {Head(line)}
    BY <1>1, <1>3, LineFacts
  <2>3. Head(line) \in Members /\ w \in Members /\ Head(line) # w
    BY <1>1, <1>3, <2>2 DEF Members
  <2>4. Orderly'
    BY <1>1, <2>1, <2>2 DEF Orderly
  <2>5. Members' = Members \ {w}
    BY <1>1, <1>3, <2>1, <2>2 DEF Orderly, Members
  <2>6. ~(Members \subseteq {"session"})
    BY <2>3
  <2> QED
    BY <2>4, <2>5, <2>6
<1>4. CASE w \notin woken
  <2>1. waiters' = line /\ permit' = permit /\ woken' = woken
    BY <1>4 DEF Drop
  <2> HIDE DEF line
  <2> QED
    BY <1>1, <1>4, <2>1 DEF Orderly, Members, Word
<1> QED
  BY <1>2, <1>3, <1>4

LEMMA HearsOrWaits ==
  ASSUME Orderly, NEW w \in Waiters
  PROVE  /\ Hears(w) => Orderly' /\ Members' = Members \ {w}
         /\ Waits(w) => Orderly' /\ Members' = Members \cup {w} /\ (Word => Word')
<1>1. ASSUME Hears(w) PROVE Orderly' /\ Members' = Members \ {w}
  BY <1>1 DEF Hears, Orderly, Members
<1>2. ASSUME Waits(w) PROVE Orderly' /\ Members' = Members \cup {w} /\ (Word => Word')
  <2>1. Append(waiters, w) \in Lines /\ ToSet(Append(waiters, w)) = ToSet(waiters) \cup {w}
    BY <1>2, LineFacts DEF Waits, Orderly
  <2> QED
    BY <1>2, <2>1 DEF Waits, Orderly, Members, Word
<1> QED
  BY <1>1, <1>2

-----------------------------------------------------------------------------
(* Who waits does so. *)

\* Who is in the line or was woken awaits the word.
Waiting ==
  /\ "session" \in Members => session = "listening"
  /\ "feed" \in Members => feed = "reading"

PeerInv == RtcTypeOK /\ Orderly /\ Waiting

LEMMA InitPeer == RtcInit => PeerInv /\ WordKept
<1> SUFFICES ASSUME RtcInit PROVE PeerInv /\ WordKept
  OBVIOUS
<1>1. <<>> \in Seq({"message", "close"}) /\ Len(<<>>) = 0 /\ InCap \in Nat \ {0}
  BY RtcAssumption
<1>2. Orderly /\ Members = {}
  BY LineElements DEF RtcInit, Orderly, Members, Lines
<1>3. RtcTypeOK
  <2>1. inbound \in Seq({"message", "close"}) /\ Len(inbound) <= InCap
    BY <1>1 DEF RtcInit
  <2>2. waiters \in {<<>>, <<"session">>, <<"feed">>, <<"session", "feed">>, <<"feed", "session">>}
    BY DEF RtcInit
  <2>3. permit \in BOOLEAN /\ slot \in BOOLEAN /\ told \in BOOLEAN /\ woken \subseteq {"session", "feed"}
    BY DEF RtcInit
  <2>4. /\ client \in {"there", "gone"}
        /\ ice \in {"connected", "disconnected", "failed", "closed"}
        /\ watchdog \in {"watching", "done"}
        /\ session \in {"ready", "listening", "busy", "closing", "over"}
        /\ feed \in {"none", "starting", "ready", "reading", "over"}
        /\ ctrl \in {"looking", "registered", "waiting", "writing", "over"}
    BY DEF RtcInit
  <2> QED
    BY <2>1, <2>2, <2>3, <2>4 DEF RtcTypeOK
<1> QED
  BY <1>2, <1>3 DEF RtcInit, PeerInv, Waiting, WordKept

LEMMA StepPeer == PeerInv /\ WordKept /\ [RtcNext]_rtcVars => PeerInv' /\ WordKept'
<1> SUFFICES ASSUME PeerInv, WordKept, [RtcNext]_rtcVars PROVE PeerInv' /\ WordKept'
  OBVIOUS
<1>0. RtcTypeOK /\ Orderly /\ Waiting /\ InCap \in Nat
  BY RtcAssumption DEF PeerInv
<1>i. /\ inbound \in Seq({"message", "close"}) /\ Len(inbound) <= InCap /\ Len(inbound) \in Nat
      /\ inbound # <<>> => /\ Tail(inbound) \in Seq({"message", "close"})
                           /\ Len(Tail(inbound)) = Len(inbound) - 1
  BY <1>0, LenProperties, HeadTailProperties DEF RtcTypeOK
<1>a. ASSUME NEW m \in {"message", "close"}, Len(inbound) < InCap
      PROVE  Append(inbound, m) \in Seq({"message", "close"})
             /\ Len(Append(inbound, m)) <= InCap
  BY <1>0, <1>i, <1>a, AppendProperties
<1>w. feed = "none" => Members \subseteq {"session"}
  <2>1. Members \subseteq Waiters
    BY <1>0, LineFacts DEF Orderly, Members, Waiters
  <2> QED
    BY <1>0, <2>1 DEF Waiting, Waiters
<1>m. /\ feed # "reading" => "feed" \notin Members
      /\ session # "listening" => "session" \notin Members
  BY <1>0 DEF Waiting
<1>k. WordKept <=> (watchdog = "done" /\ feed = "none" => Word \/ session \in {"closing", "over"})
  BY DEF WordKept, Word
<1>l. WordKept' <=> (watchdog' = "done" /\ feed' = "none"
                       => Word' \/ session' \in {"closing", "over"})
  BY DEF WordKept, Word
<1>n. UNCHANGED Notified => Orderly' /\ Members' = Members /\ Word' = Word
  BY <1>0 DEF Notified, Orderly, Members, Word
<1>t. Orderly' => /\ permit' \in BOOLEAN /\ woken' \subseteq {"session", "feed"}
                  /\ waiters' \in {<<>>, <<"session">>, <<"feed">>, <<"session", "feed">>,
                                   <<"feed", "session">>}
  BY DEF Orderly, Waiters, Lines
\* What does not touch the Notify, the session or the audio track's task.
<1>1. CASE \/ Send("message") \/ Send("close") \/ CtrlCloses \/ Vanish
           \/ Attach \/ Enlist \/ Look \/ CtrlWakes \/ CtrlEnds
  <2>1. UNCHANGED Notified /\ UNCHANGED <<session, feed, ice, watchdog>>
    BY <1>1 DEF Send, CtrlCloses, Vanish, Attach, Enlist, Look, CtrlWakes, CtrlEnds, Ctrl, Peer
  <2>2. inbound' \in Seq({"message", "close"}) /\ Len(inbound') <= InCap
    <3>1. \/ UNCHANGED inbound
          \/ \E m \in {"message", "close"} : Len(inbound) < InCap /\ inbound' = Append(inbound, m)
      BY <1>1 DEF Send, CtrlCloses, Vanish, Attach, Enlist, Look, CtrlWakes, CtrlEnds, Ctrl
    <3> QED
      BY <1>i, <1>a, <3>1
  <2>3. /\ client' \in {"there", "gone"} /\ slot' \in BOOLEAN /\ told' \in BOOLEAN
        /\ ctrl' \in {"looking", "registered", "waiting", "writing", "over"}
    <3>1. CASE Send("message") \/ Send("close") \/ CtrlCloses \/ Vanish
      BY <1>0, <3>1 DEF Send, CtrlCloses, Vanish, Slot, RtcTypeOK
    <3>2. CASE Enlist \/ Look \/ CtrlWakes \/ CtrlEnds
      BY <1>0, <3>2 DEF Enlist, Look, CtrlWakes, CtrlEnds, Ctrl, Peer, RtcTypeOK
    <3>3. CASE Attach
      <4>1. told' \in BOOLEAN
        BY <3>3 DEF Attach
      <4> QED
        BY <1>0, <3>3, <4>1 DEF Attach, Peer, RtcTypeOK
    <3> QED
      BY <1>1, <3>1, <3>2, <3>3
  <2>4. RtcTypeOK'
    BY <1>0, <1>n, <1>t, <2>1, <2>2, <2>3 DEF RtcTypeOK
  <2> QED
    BY <1>0, <1>k, <1>l, <1>n, <2>1, <2>4 DEF PeerInv, Waiting
\* Who speaks.
<1>2. CASE IceMoves \/ Watchdog \/ PeerSessionEnds
  <2>1. /\ UNCHANGED <<client, inbound, feed>> /\ UNCHANGED Slot
        /\ session' = session \/ (session = "closing" /\ session' = "over")
        /\ ice' \in {"connected", "disconnected", "failed", "closed"}
        /\ watchdog' \in {"watching", "done"}
        /\ UNCHANGED Notified \/ NotifyOne
        /\ watchdog' # watchdog => NotifyOne
    BY <1>0, <1>2 DEF IceMoves, IceTurns, StateChanges, Watchdog, PeerSessionEnds, RtcTypeOK
  <2>2. /\ Orderly' /\ Members' = Members /\ (Word => Word')
        /\ NotifyOne /\ "feed" \notin Members => Word'
    BY <1>0, <1>n, <2>1, NotifyOneSpeaks
  <2>3. RtcTypeOK'
    BY <1>0, <1>t, <2>1, <2>2 DEF RtcTypeOK, Slot
  <2>4. Waiting'
    BY <1>0, <1>m, <2>1, <2>2 DEF Waiting
  <2>5. WordKept'
    BY <1>k, <1>l, <1>m, <2>1, <2>2
  <2> QED
    BY <2>2, <2>3, <2>4, <2>5 DEF PeerInv
\* The session.
<1>3. CASE Listen \/ TakeMessage \/ HearShutdown \/ Handled \/ Quit
  <2>1. /\ UNCHANGED <<client, ice, watchdog, feed>> /\ UNCHANGED Slot
        /\ session' \in {"ready", "listening", "busy", "closing", "over"}
        /\ inbound' = inbound \/ (inbound # <<>> /\ inbound' = Tail(inbound))
    BY <1>3 DEF Listen, TakeMessage, HearShutdown, Handled, Quit, Peer
  <2>2. inbound' \in Seq({"message", "close"}) /\ Len(inbound') <= InCap
    BY <1>0, <1>i, <2>1
  <2>3. "session" \in Waiters
    BY DEF Waiters
  <2>4. /\ Orderly'
        /\ \/ Members' = Members \ {"session"}
           \/ Members' = Members \cup {"session"} /\ session' = "listening"
           \/ Members' = Members /\ "session" \notin Members
        /\ session' = "closing" \/ (feed = "none" /\ Word => Word')
    <3>1. CASE Listen
      BY <1>0, <2>3, <3>1, HearsOrWaits DEF Listen
    <3>2. CASE TakeMessage \/ Quit
      BY <1>0, <1>w, <2>3, <3>2, DropPassesOn DEF TakeMessage, Quit
    <3>3. CASE HearShutdown
      BY <1>0, <2>3, <3>3, HearsOrWaits DEF HearShutdown
    <3>4. CASE Handled
      BY <1>m, <1>n, <3>4 DEF Handled
    <3> QED
      BY <1>3, <3>1, <3>2, <3>3, <3>4
  <2>5. RtcTypeOK'
    BY <1>0, <1>t, <2>1, <2>2, <2>4 DEF RtcTypeOK, Slot
  <2>6. Waiting'
    BY <1>0, <2>1, <2>4 DEF Waiting
  <2>7. session \notin {"closing", "over"}
    BY <1>3 DEF Listen, TakeMessage, HearShutdown, Handled, Quit
  <2>8. WordKept'
    BY <1>k, <1>l, <2>1, <2>4, <2>7
  <2> QED
    BY <2>4, <2>5, <2>6, <2>8 DEF PeerInv
\* The audio track's task.
<1>4. CASE FeedStarts \/ FeedWaits \/ FeedReads \/ FeedHears
  <2>1. /\ UNCHANGED <<client, ice, watchdog, inbound, session>> /\ UNCHANGED Slot
        /\ feed # "none" /\ feed' \in {"ready", "reading", "over"}
    BY <1>4 DEF FeedStarts, FeedWaits, FeedReads, FeedHears, Feed, Peer
  <2>2. "feed" \in Waiters
    BY DEF Waiters
  <2>3. /\ Orderly'
        /\ \/ Members' = Members \ {"feed"}
           \/ Members' = Members \cup {"feed"} /\ feed' = "reading"
           \/ Members' = Members /\ "feed" \notin Members
    <3>1. CASE FeedStarts
      BY <1>m, <1>n, <3>1 DEF FeedStarts
    <3>2. CASE FeedWaits
      BY <1>0, <2>2, <3>2, HearsOrWaits DEF FeedWaits, Feed
    <3>3. CASE FeedReads
      BY <1>0, <2>2, <3>3, DropPassesOn DEF FeedReads
    <3>4. CASE FeedHears
      BY <1>0, <2>2, <3>4, HearsOrWaits DEF FeedHears
    <3> QED
      BY <1>4, <3>1, <3>2, <3>3, <3>4
  <2>4. RtcTypeOK'
    BY <1>0, <1>t, <2>1, <2>3 DEF RtcTypeOK, Slot
  <2>5. Waiting'
    BY <1>0, <2>1, <2>3 DEF Waiting
  <2>6. WordKept'
    BY <1>l, <2>1
  <2> QED
    BY <2>3, <2>4, <2>5, <2>6 DEF PeerInv
<1>5. CASE UNCHANGED rtcVars
  <2>1. UNCHANGED Notified /\ UNCHANGED Slot
        /\ UNCHANGED <<client, ice, watchdog, inbound, session, feed>>
    BY <1>5 DEF rtcVars, Notified, Slot
  <2>2. RtcTypeOK'
    BY <1>0, <1>n, <1>t, <2>1 DEF RtcTypeOK, Slot
  <2> QED
    BY <1>0, <1>k, <1>l, <1>n, <2>1, <2>2 DEF PeerInv, Waiting
<1> QED
  BY <1>1, <1>2, <1>3, <1>4, <1>5 DEF RtcNext

\* The state keeps its shape: who waits for the word waits once, and the inbound
\* queue keeps its bound.
THEOREM PeerTypeCorrect == RtcSpec => []RtcTypeOK
<1>1. PeerInv => RtcTypeOK
  BY DEF PeerInv
<1> QED
  BY <1>1, InitPeer, StepPeer, PTL DEF RtcSpec

\* Without an audio track the watchdog's word is kept until the session ends,
\* whatever the session is doing when it is spoken (spawn_disconnect_watchdog,
\* build_stream).
THEOREM WatchdogsWordIsKept == RtcSpec => []WordKept
BY InitPeer, StepPeer, PTL DEF RtcSpec

------------------------------------------------------------------------------
(* All of them.                                                            *)

\* What is known of the parts, whichever of them moves.
ConnectionsInv ==
  /\ IInv /\ RegistryInv /\ PeerInv /\ WordKept
  /\ LauncherInv /\ Few /\ Numbers

\* A launcher that is over has nothing to answer for.
LEMMA RestIsGood == LauncherRests => LauncherInv /\ Few /\ Numbers
<1> SUFFICES ASSUME LauncherRests PROVE LauncherInv /\ Few /\ Numbers
  OBVIOUS
<1> USE DEF LauncherRests, Middle
<1>1. LauncherShape
  BY DEF LauncherShape, Endpoints, Services
<1>2. Settling /\ Started /\ Passed
  BY DEF Settling, Started, Passed, Services
<1>3. Few /\ Numbers
  BY DEF Few, Numbers
<1> QED
  BY <1>1, <1>2, <1>3 DEF LauncherInv

\* The invariants of the parts hold when they begin.
LEMMA ConnectionsInitIsGood == ConnectionsInit => ConnectionsInv
BY InitInvariant, RegistryInitIsGood, InitPeer, LauncherInitIsGood, FewAtFirst, RestIsGood
   DEF ConnectionsInit, ConnectionsInv

\* A step is a step of one part, and the others stand still.
LEMMA ConnectionsStepIsGood == ConnectionsInv /\ [ConnectionsNext]_connectionVars => ConnectionsInv'
<1> SUFFICES ASSUME ConnectionsInv, [ConnectionsNext]_connectionVars PROVE ConnectionsInv'
  OBVIOUS
<1>1. [Next]_vars /\ [RegistryNext]_registryVars /\ [RtcNext]_rtcVars /\ [LauncherNext]_launcherVars
  BY DEF ConnectionsNext, connectionVars
<1> QED
  BY <1>1, StepInvariant, RegistryStepIsGood, StepPeer, NextIsGood, NextIsFew DEF ConnectionsInv

\* Each part is beside the others what it is alone: for any sessions, clients and
\* places, what the run of MCConnections shows of an instance.
THEOREM ConnectionsAreSound ==
  ConnectionsSpec => [](/\ LoneSessionKnows
                        /\ CountsAreConnections /\ LeasesAreReached
                        /\ WordKept
                        /\ ServerIsServed /\ NothingLeftBehind)
<1>1. ConnectionsInv => /\ LoneSessionKnows
                        /\ CountsAreConnections /\ LeasesAreReached
                        /\ WordKept
                        /\ ServerIsServed /\ NothingLeftBehind
  BY LoneKnows, SettledIsServed, PassedIsClean DEF ConnectionsInv, RegistryInv
<1> QED
  BY <1>1, ConnectionsInitIsGood, ConnectionsStepIsGood, PTL DEF ConnectionsSpec
==============================================================================
