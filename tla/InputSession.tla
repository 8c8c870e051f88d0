----------------------------- MODULE InputSession -----------------------------
(***************************************************************************)
(* The keyboard and the pointer buttons of one X display, driven by the    *)
(* sessions of several clients (src/session.rs).  A session is two tasks:  *)
(* the receiver, handle_client, applies the client's messages and cleans   *)
(* up when it ends; its supervisor, one of the handle_..._socket           *)
(* functions, waits for the first of its tasks to end, or to be told to    *)
(* close the client, and then stops the others.                            *)
(*                                                                         *)
(* The receiver of a control or an input socket is aborted as soon as it   *)
(* has been told to stop; that of a combined socket (Patient) has a second *)
(* to clean up.                                                            *)
(*                                                                         *)
(* One key event is one action: the X display is shared, so the events of  *)
(* two sessions interleave, and where each event is a run of xdotool (no   *)
(* X connection of its own) an aborted receiver may stop between two.      *)
(***************************************************************************)
EXTENDS FiniteSets

CONSTANTS
  Sessions,  \* connections, each used once
  Patient,   \* those of combined sockets
  Plain,     \* keys that are no modifiers
  Logicals,  \* logical modifiers: Control, Shift, Alt, Meta
  Keysyms,   \* the (left and right) keys of each
  Fallback,  \* the left one
  Unmapped,  \* keys of which every event fails: the keyboard map lacks them
             \* and xdotool cannot be run
  Buttons,   \* the pointer buttons reset_input_state releases, 1 to 5
  None

Modifiers == UNION {Keysyms[l] : l \in Logicals}
Keys      == Plain \cup Modifiers

ASSUME InputAssumption ==
  /\ Patient \subseteq Sessions
  /\ Plain \cap Modifiers = {}
  /\ Fallback \in [Logicals -> Modifiers]
  /\ \A l \in Logicals : Fallback[l] \in Keysyms[l]
  /\ \A l, m \in Logicals : l # m => Keysyms[l] \cap Keysyms[m] = {}
  /\ Unmapped \subseteq Plain
  /\ None \notin Keys

VARIABLES
  keysDown,     \* the keys the X server has down
  buttonsDown,  \* the pointer buttons it has down
  pressed,      \* pressed_keys of each receiver
  armed,        \* whether its last_key_state_at is set
  stage,        \* where the receiver is
  plan,         \* the key events of the operation it is in that are still to come
  transport,    \* the client's connection: "silent" once the client is gone unnoticed
  supervisor    \* where the supervisor is

vars == <<keysDown, buttonsDown, pressed, armed, stage, plan, transport, supervisor>>

Plans  == [release : SUBSET Keys, press : SUBSET Keys, key : Keys \cup {None}, down : BOOLEAN]
NoPlan == [release |-> {}, press |-> {}, key |-> None, down |-> FALSE]

Ended(s) == stage[s] \in {"over", "aborted", "cut"}
Busy(s)  == stage[s] \in {"applying", "cleaning"}

Go(s, place) == stage' = [stage EXCEPT ![s] = place]
Plan(s, p)   == plan' = [plan EXCEPT ![s] = p]
Note(s, ks)  == pressed' = [pressed EXCEPT ![s] = ks]
Outer        == UNCHANGED <<transport, supervisor>>

-----------------------------------------------------------------------------
(* The client's messages, taken from the socket while it works. *)

Receives(s) == stage[s] = "listening" /\ transport[s] = "open"

\* Modifier keys that do not agree with the flags of an event: those of the
\* event's own key are left alone.
Others(k) == {l \in Logicals : k \notin Keysyms[l]}
Missing(s, flags) == {Fallback[l] : l \in {m \in flags : Keysyms[m] \cap pressed[s] = {}}}

SyncModifiers(s, flags, k) ==
  [release |-> pressed[s] \cap UNION {Keysyms[l] : l \in Others(k) \ flags},
   press   |-> Missing(s, Others(k) \cap flags)]

\* A key event: the modifiers are brought in line with its flags, if it has
\* any, before the key itself.
Key(s, k, down, flags) ==
  LET sync == IF flags = None THEN NoPlan ELSE SyncModifiers(s, flags, k) IN
  /\ Receives(s)
  /\ Plan(s, [release |-> sync.release, press |-> sync.press, key |-> k, down |-> down])
  /\ Go(s, "applying")
  /\ UNCHANGED <<keysDown, buttonsDown, pressed, armed>> /\ Outer

\* The release of a key that was never seen pressed, with modifiers: a chord
\* tapped in one go, which remembers nothing.
LoneRelease(s, k, down, flags) ==
  /\ ~down
  /\ flags \notin {None, {}}
  /\ k \in Plain \ pressed[s]

TapWithModifiers(s, k, flags) ==
  /\ Receives(s)
  /\ IF k \in Unmapped
     THEN Go(s, "leaving") /\ UNCHANGED <<keysDown, armed>>
     ELSE /\ keysDown' = keysDown \ ({k} \cup Missing(s, flags))
          /\ armed' = [armed EXCEPT ![s] = pressed[s] # {}]
          /\ UNCHANGED stage
  /\ UNCHANGED <<buttonsDown, pressed, plan>> /\ Outer

\* Text typed while no key is pressed: its keys are struck in one go.
TypeText(s, ks) ==
  /\ Receives(s)
  /\ pressed[s] = {}
  /\ keysDown' = keysDown \ ks
  /\ armed' = [armed EXCEPT ![s] = FALSE]
  /\ UNCHANGED <<buttonsDown, pressed, stage, plan>> /\ Outer

\* The whole set of pressed keys, which the client repeats while it holds any.
KeyState(s, desired) ==
  /\ Receives(s)
  /\ Plan(s, [NoPlan EXCEPT !.release = pressed[s] \ desired, !.press = desired \ pressed[s]])
  /\ Go(s, "applying")
  /\ UNCHANGED <<keysDown, buttonsDown, pressed, armed>> /\ Outer

PointerButton(s, b, down) ==
  /\ Receives(s)
  /\ buttonsDown' = IF down THEN buttonsDown \cup {b} ELSE buttonsDown \ {b}
  /\ UNCHANGED <<keysDown, pressed, armed, stage, plan>> /\ Outer

\* Slip: forget the pressed keys and release only the modifiers.
ResetModifiers(s) ==
  /\ buttonsDown' = {}
  /\ Note(s, {})
  /\ Plan(s, [NoPlan EXCEPT !.release = Modifiers])
  /\ UNCHANGED keysDown

\* Slip: the buttons are left alone.
ResetKeys(s) ==
  /\ Note(s, {})
  /\ Plan(s, [NoPlan EXCEPT !.release = pressed[s] \cup Modifiers])
  /\ UNCHANGED <<keysDown, buttonsDown>>

\* reset_input_state forgets the pressed keys before it releases them, and
\* releases every modifier, pressed or not.
Reset(s) ==
  /\ buttonsDown' = {}
  /\ Note(s, {})
  /\ Plan(s, [NoPlan EXCEPT !.release = pressed[s] \cup Modifiers])
  /\ UNCHANGED keysDown

\* ResetInput, and what Paste, PasteClipboard and pasted text do before Ctrl+V.
ResetInput(s) ==
  /\ Receives(s)
  /\ Reset(s)
  /\ Go(s, "applying")
  /\ UNCHANGED armed /\ Outer

\* A message whose handler awaits something else: what the server does by itself (a
\* settings change, the clipboard, xdotool), or room for its reply in the client's
\* queue, which only the writer makes.
Await(s) ==
  /\ Receives(s)
  /\ Go(s, "waiting") \/ Go(s, "replying")
  /\ UNCHANGED <<keysDown, buttonsDown, pressed, armed, plan>> /\ Outer

\* That is done, and there may be a reply.  An error there ends the receiver.
Resume(s) ==
  /\ stage[s] = "waiting"
  /\ Go(s, "listening") \/ Go(s, "replying") \/ Go(s, "leaving")
  /\ UNCHANGED <<keysDown, buttonsDown, pressed, armed, plan>> /\ Outer

\* There is room, or the writer is gone, which is an error.
Reply(s) ==
  /\ stage[s] = "replying"
  /\ Go(s, "listening") \/ Go(s, "leaving")
  /\ UNCHANGED <<keysDown, buttonsDown, pressed, armed, plan>> /\ Outer

\* No key state for half a second while keys are held.
KeyWatchdog(s) ==
  /\ stage[s] = "listening"
  /\ armed[s]
  /\ pressed[s] # {}
  /\ Note(s, {})
  /\ Plan(s, [NoPlan EXCEPT !.release = pressed[s]])
  /\ Go(s, "applying")
  /\ UNCHANGED <<keysDown, buttonsDown, armed>> /\ Outer

-----------------------------------------------------------------------------
(* The key events of an operation.  A key state and a reset release before *)
(* they press, plain keys released first, pressed last (key_chord_rank).   *)
(* A key event moves its modifiers one by one, then its own key.           *)

FirstReleases(s) ==
  IF plan[s].release \cap Plain # {} THEN plan[s].release \cap Plain ELSE plan[s].release

FirstPresses(s) ==
  IF plan[s].release # {} /\ plan[s].key = None THEN {}
  ELSE IF plan[s].press \cap Modifiers # {} THEN plan[s].press \cap Modifiers ELSE plan[s].press

ReleaseKey(s, k) ==
  /\ Busy(s)
  /\ k \in FirstReleases(s) \ Unmapped
  /\ keysDown' = keysDown \ {k}
  /\ Note(s, pressed[s] \ {k})
  /\ Plan(s, [plan[s] EXCEPT !.release = @ \ {k}])
  /\ UNCHANGED <<buttonsDown, armed, stage>> /\ Outer

\* Slip: a key pressed on behalf of the client is not remembered.
PressUnnoted(s, k) ==
  /\ Busy(s)
  /\ k \in FirstPresses(s) \ Unmapped
  /\ keysDown' = keysDown \cup {k}
  /\ Plan(s, [plan[s] EXCEPT !.press = @ \ {k}])
  /\ UNCHANGED <<buttonsDown, pressed, armed, stage>> /\ Outer

PressKey(s, k) ==
  /\ Busy(s)
  /\ k \in FirstPresses(s) \ Unmapped
  /\ keysDown' = keysDown \cup {k}
  /\ Note(s, pressed[s] \cup {k})
  /\ Plan(s, [plan[s] EXCEPT !.press = @ \ {k}])
  /\ UNCHANGED <<buttonsDown, armed, stage>> /\ Outer

Due(s) == Busy(s) /\ plan[s].release = {} /\ plan[s].press = {}

\* The event's own key, noted before the event is sent.
NoteKey(s) ==
  Note(s, IF plan[s].down THEN pressed[s] \cup {plan[s].key} ELSE pressed[s] \ {plan[s].key})

Strike(s) ==
  /\ Due(s)
  /\ plan[s].key \in Keys \ Unmapped
  /\ NoteKey(s)
  /\ keysDown' = IF plan[s].down THEN keysDown \cup {plan[s].key}
                                 ELSE keysDown \ {plan[s].key}
  /\ Plan(s, NoPlan)
  /\ UNCHANGED <<buttonsDown, armed, stage>> /\ Outer

\* Slip: the watchdog is not set.
FinishUnarmed(s) ==
  /\ Due(s)
  /\ plan[s].key = None
  /\ Go(s, IF stage[s] = "applying" THEN "listening" ELSE "over")
  /\ UNCHANGED <<keysDown, buttonsDown, pressed, armed, plan>> /\ Outer

Finish(s) ==
  /\ Due(s)
  /\ plan[s].key = None
  /\ IF stage[s] = "applying"
     THEN Go(s, "listening") /\ armed' = [armed EXCEPT ![s] = pressed[s] # {}]
     ELSE Go(s, "over") /\ UNCHANGED armed
  /\ UNCHANGED <<keysDown, buttonsDown, pressed, plan>> /\ Outer

\* An event fails.  The error ends the operation and, through `?', the
\* receiver; in the clean-up it ends the clean-up.
EventFails(s) ==
  /\ \/ Busy(s) /\ (FirstReleases(s) \cup FirstPresses(s)) \cap Unmapped # {}
        /\ UNCHANGED pressed
     \/ Due(s) /\ plan[s].key \in Unmapped /\ NoteKey(s)
  /\ IF stage[s] = "applying"
     THEN Go(s, "leaving") /\ Plan(s, NoPlan)
     ELSE Go(s, "cut") /\ UNCHANGED plan
  /\ UNCHANGED <<keysDown, buttonsDown, armed>> /\ Outer

\* Slip: the supervisor's word goes unheard.
CleanupUntold(s) ==
  /\ \/ stage[s] = "leaving"
     \/ stage[s] = "listening" /\ transport[s] = "broken"
  /\ Reset(s)
  /\ Go(s, "cleaning")
  /\ UNCHANGED armed /\ Outer

\* The receiver ends: an error, the connection's end, or the supervisor's word.
Cleanup(s) ==
  /\ \/ stage[s] = "leaving"
     \/ stage[s] = "listening" /\ (transport[s] = "broken" \/ supervisor[s] = "finishing")
  /\ Reset(s)
  /\ Go(s, "cleaning")
  /\ UNCHANGED armed /\ Outer

-----------------------------------------------------------------------------
(* The supervisor, and what happens to the connection. *)

Inner == UNCHANGED <<keysDown, buttonsDown, pressed, armed, plan>>

Supervise(s, from, to) ==
  /\ supervisor[s] = from
  /\ supervisor' = [supervisor EXCEPT ![s] = to]
  /\ stage[s] # "off"
  /\ Inner /\ UNCHANGED <<stage, transport>>

\* The client is closed from another browser: a Close frame and a short sleep.
CloseClient(s) == Supervise(s, "watching", "closing")
CloseSent(s)   == Supervise(s, "closing", "finishing")

\* The receiver ended, or the writer could not write.
TaskEnded(s) ==
  /\ Ended(s) \/ transport[s] = "broken"
  /\ Supervise(s, "watching", "finishing")

\* forward_frames of a combined socket gives up when it needs the video state
\* while the capture is being replaced.
ForwarderFails(s) == s \in Patient /\ Supervise(s, "watching", "finishing")

\* The receiver is dropped where it is.  A combined socket does so after a
\* second, which only something the receiver awaits can take.
AbortReceiver(s) ==
  /\ supervisor[s] = "finishing"
  /\ ~Ended(s)
  /\ s \in Patient => stage[s] \in {"waiting", "replying"}
  /\ Go(s, "aborted")
  /\ Inner /\ Outer

Connect(s) ==
  /\ stage[s] = "off"
  /\ Go(s, "listening")
  /\ Inner /\ Outer

Turn(s, from, to) ==
  /\ stage[s] # "off"
  /\ transport[s] \in from
  /\ transport' = [transport EXCEPT ![s] = to]
  /\ Inner /\ UNCHANGED <<stage, supervisor>>

GoSilent(s) == Turn(s, {"open"}, "silent")
Break(s)    == Turn(s, {"open", "silent"}, "broken")

-----------------------------------------------------------------------------
Init ==
  /\ keysDown = {}
  /\ buttonsDown = {}
  /\ pressed = [s \in Sessions |-> {}]
  /\ armed = [s \in Sessions |-> FALSE]
  /\ stage = [s \in Sessions |-> "off"]
  /\ plan = [s \in Sessions |-> NoPlan]
  /\ transport = [s \in Sessions |-> "open"]
  /\ supervisor = [s \in Sessions |-> "watching"]

Message(s) ==
  \/ \E k \in Keys, down \in BOOLEAN, flags \in (SUBSET Logicals) \cup {None} :
       IF LoneRelease(s, k, down, flags)
       THEN TapWithModifiers(s, k, flags)
       ELSE Key(s, k, down, flags)
  \/ \E ks \in SUBSET (Keys \ Unmapped) : TypeText(s, ks)
  \/ \E desired \in SUBSET Keys : KeyState(s, desired)
  \/ \E b \in Buttons, down \in BOOLEAN : PointerButton(s, b, down)
  \/ ResetInput(s)
  \/ Await(s)

\* What the receiver does without the client.
Proceed(s) ==
  \/ Resume(s)
  \/ \E k \in Keys : ReleaseKey(s, k) \/ PressKey(s, k)
  \/ Strike(s)
  \/ Finish(s)
  \/ EventFails(s)
  \/ Cleanup(s)

Next ==
  \E s \in Sessions :
    \/ Connect(s) \/ Message(s) \/ KeyWatchdog(s) \/ Proceed(s) \/ Reply(s)
    \/ CloseClient(s) \/ CloseSent(s) \/ TaskEnded(s) \/ ForwarderFails(s)
    \/ AbortReceiver(s)
    \/ GoSilent(s) \/ Break(s)

Spec == Init /\ [][Next]_vars

(***************************************************************************)
(* The runtime keeps polling tasks that can go on, select! picks among its *)
(* ready branches at random, so that messages do not starve a shutdown,    *)
(* what a handler awaits of the server ends, and the watchdog's timer      *)
(* fires once a client has been silent for long enough.  A client need not *)
(* send anything, nor a connection break.  A silent one's writer is stuck: *)
(* a reply to it and its Close frame may wait for room forever.            *)
(***************************************************************************)
Fairness ==
  \A s \in Sessions :
    /\ WF_vars(Proceed(s))
    /\ WF_vars(transport[s] # "silent" /\ Reply(s))
    /\ SF_vars(Cleanup(s))
    /\ WF_vars(transport[s] = "silent" /\ KeyWatchdog(s))
    /\ WF_vars(transport[s] # "silent" /\ CloseSent(s))
    /\ WF_vars(TaskEnded(s))
    /\ WF_vars(AbortReceiver(s))

FairSpec == Spec /\ Fairness

-----------------------------------------------------------------------------
(* Properties. *)

\* The state has the shape the code's types give it.
TypeOK ==
  /\ keysDown \in SUBSET Keys
  /\ buttonsDown \in SUBSET Buttons
  /\ pressed \in [Sessions -> SUBSET Keys]
  /\ armed \in [Sessions -> BOOLEAN]
  /\ stage \in [Sessions -> {"off", "listening", "waiting", "replying", "applying",
                             "leaving", "cleaning", "over", "aborted", "cut"}]
  /\ plan \in [Sessions -> Plans]
  /\ transport \in [Sessions -> {"open", "silent", "broken"}]
  /\ supervisor \in [Sessions -> {"watching", "closing", "finishing"}]

\* What a session still has to release, or had when it was stopped.
Claims(s) == pressed[s] \cup plan[s].release

\* No key is forgotten: a key that is down in X is one that some session
\* remembers or is about to release.  Whatever two sessions do to the same key,
\* only a session stopped in the middle can leave one down.
HeldIsClaimed == keysDown \subseteq UNION {Claims(s) : s \in Sessions}

\* Once every session has ended with its clean-up run to the end, no key and no
\* button is held.
CleanEndHoldsNothing ==
  (\A s \in Sessions : stage[s] \in {"off", "over"}) => keysDown = {} /\ buttonsDown = {}

\* A session alone on the display knows what is down: between two operations,
\* pressed_keys is the keyboard.
LoneSessionKnows ==
  \A s \in Sessions :
    /\ stage[s] = "listening"
    /\ \A t \in Sessions \ {s} : stage[t] = "off"
    => pressed[s] = keysDown

\* tests/input_disconnect_qa.py, "A broken client transport must not leave a
\* key or pointer button held": when every connection is broken and every
\* session has ended, nothing is.
BrokenHoldsNothing ==
  (\A s \in Sessions : stage[s] = "off" \/ (Ended(s) /\ transport[s] = "broken"))
    => keysDown = {} /\ buttonsDown = {}

\* The keys of a client that is gone without a word are released: the watchdog
\* does not depend on the connection.  A receiver that was stopped has none, nor is
\* it heard while the receiver is stuck with a reply that the client never takes.
SilentKeysReleased ==
  \A s \in Sessions :
    \/ <>[](stage[s] = "replying")
    \/ transport[s] = "silent" ~>
         Claims(s) = {} \/ transport[s] # "silent" \/ stage[s] \in {"aborted", "cut"}

\* A session ends when its connection is broken, and when it is closed from
\* another browser unless its client is silent.
SessionEnds ==
  \A s \in Sessions :
    /\ transport[s] = "broken" ~> Ended(s)
    /\ supervisor[s] = "closing" ~> Ended(s) \/ transport[s] = "silent"
=============================================================================
