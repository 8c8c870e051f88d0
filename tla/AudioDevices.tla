----------------------------- MODULE AudioDevices -----------------------------
(***************************************************************************)
(* Where the desktop's sound goes and where it is captured: the switch of    *)
(* the output device (src/src/ffmpeg.rs, set_audio_output_device, called by  *)
(* app.rs, set_audio_output) and the source of the audio capture.  Each      *)
(* request to PulseAudio is a process of its own, pactl, and anything may    *)
(* happen between two of them: other switches, applications that begin or    *)
(* end to play, a device that is unplugged.                                  *)
(***************************************************************************)
EXTENDS Naturals, FiniteSets

CONSTANTS
  Switchers, \* requests to switch, each made once
  Wanted,    \* of each: the sink it names, or "virtual"
  Real,      \* the sinks of the machine
  Players    \* applications that may play

\* The project's sink, and the one PulseAudio makes of it when it is loaded twice.
Virtual == "virtual"
Spare   == "virtual.2"
Sinks   == Real \cup {Virtual, Spare}
NoSink  == "none"

\* A source that is no sink's monitor: a microphone, say.
Elsewhere == "elsewhere"

ASSUME AudioAssumption ==
  /\ Wanted \in [Switchers -> Real \cup {Virtual}] /\ NoSink \notin Switchers
  /\ IsFiniteSet(Real) /\ Real # {} /\ Real \cap {Virtual, Spare, NoSink, Elsewhere} = {}

VARIABLES
  sinks,    \* those that exist
  default,  \* the default sink
  playing,  \* the sink each application plays on, or none
  fixed,    \* the source that the environment asks for (VIBE_RDESK_AUDIO_SOURCE), or none
  switch,   \* where each switch is
  target,   \* the sink it has settled for
  moving,   \* the streams it still has to move
  hub,      \* who holds the audio hub's lock for a restart, or none
  source,   \* what the next capture will read: the monitor of a sink, or what is fixed
  captured, \* what is captured
  left,     \* streams that a switch meant to move and did not, and went on
  crossed,  \* whether two switches have run at the same time
  spoilt    \* whether a device has gone or a switch has failed half-way since

audioVars == <<sinks, default, playing, fixed, switch, target, moving, hub, source, captured,
               left, crossed, spoilt>>
Hub == <<fixed, hub, source, captured>>

Steps(w, p) == switch' = [switch EXCEPT ![w] = p]
Under(w)    == switch[w] \notin {"idle", "over"}

\* ensure_virtual_sink_exists: it is looked for.
BeginSwitch(w) ==
  /\ switch[w] = "idle"
  /\ Steps(w, IF Virtual \in sinks THEN "choose" ELSE "load")
  /\ crossed' = (crossed \/ \E v \in Switchers : Under(v))
  /\ UNCHANGED <<sinks, default, playing, target, moving, left, spoilt>> /\ UNCHANGED Hub

\* And loaded: under another name, if somebody has been faster.
LoadVirtual(w) ==
  /\ switch[w] = "load"
  /\ sinks' = sinks \cup {IF Virtual \in sinks THEN Spare ELSE Virtual}
  /\ Steps(w, IF hub = w THEN "default" ELSE "choose")
  /\ UNCHANGED <<default, playing, target, moving, left, crossed, spoilt>> /\ UNCHANGED Hub

\* The sink that was named, or any real one.
Choose(w) ==
  /\ switch[w] = "choose"
  /\ \E k \in IF Wanted[w] = Virtual THEN {Virtual}
              ELSE IF Wanted[w] \in sinks THEN {Wanted[w]} ELSE sinks \cap Real :
       target' = [target EXCEPT ![w] = k]
  /\ Steps(w, "default")
  /\ UNCHANGED <<sinks, default, playing, moving, left, crossed, spoilt>> /\ UNCHANGED Hub

\* set-default-sink.
SetDefault(w) ==
  /\ switch[w] = "default" /\ target[w] \in sinks
  /\ default' = target[w]
  /\ Steps(w, "list")
  /\ UNCHANGED <<sinks, playing, target, moving, left, crossed, spoilt>> /\ UNCHANGED Hub

\* Nothing to choose, no such sink, ffmpeg does not start, pactl fails or says nothing for
\* two seconds, whether it has done its work or not.  A switch that has not come to the
\* default has changed nothing that is heard; a restart has stopped the capture.
GiveUp(w) ==
  /\ Under(w)
  /\ Steps(w, "over")
  /\ hub' = IF hub = w THEN NoSink ELSE hub
  /\ moving' = [moving EXCEPT ![w] = {}]
  /\ spoilt' = (spoilt \/ hub = w \/ switch[w] \notin {"load", "choose", "default"})
  /\ UNCHANGED <<sinks, default, playing, fixed, target, source, captured, left, crossed>>

\* move_sink_inputs: the list, then one after the other, in any order.  What fails is
\* passed over: without a list there are no streams.
ListStreams(w) ==
  /\ switch[w] = "list"
  /\ \/ moving' = [moving EXCEPT ![w] = {p \in Players : playing[p] # NoSink}] /\ UNCHANGED left
     \/ left' = left \cup {p \in Players : playing[p] \notin {NoSink, target[w]}} /\ UNCHANGED moving
  /\ Steps(w, "move")
  /\ UNCHANGED <<sinks, default, playing, target, crossed, spoilt>> /\ UNCHANGED Hub

\* Slip: one of them is enough.
MoveStreamLate(w, p) ==
  /\ switch[w] = "move" /\ p \in moving[w]
  /\ moving' = [moving EXCEPT ![w] = {}]
  /\ \/ /\ target[w] \in sinks
        /\ playing' = [playing EXCEPT ![p] = target[w]] /\ left' = left \ {p}
     \/ left' = left \cup {p} /\ UNCHANGED playing
  /\ UNCHANGED <<sinks, default, switch, target, crossed, spoilt>> /\ UNCHANGED Hub

MoveStream(w, p) ==
  /\ switch[w] = "move" /\ p \in moving[w]
  /\ moving' = [moving EXCEPT ![w] = @ \ {p}]
  /\ \/ /\ target[w] \in sinks
        /\ playing' = [playing EXCEPT ![p] = target[w]] /\ left' = left \ {p}
     \/ left' = left \cup {p} /\ UNCHANGED playing
  /\ UNCHANGED <<sinks, default, switch, target, crossed, spoilt>> /\ UNCHANGED Hub

\* The sink is looked up once more; the capture is restarted only if it is there.  A
\* restart that has made the virtual sink the default reads that.
Moved(w) ==
  /\ switch[w] = "move" /\ moving[w] = {}
  /\ \/ hub = w /\ source' = target[w] /\ Steps(w, "start")
     \/ hub # w /\ target[w] \in sinks /\ Steps(w, "restart") /\ UNCHANGED source
  /\ UNCHANGED <<sinks, default, playing, fixed, target, moving, hub, captured, left, crossed, spoilt>>

\* restart_audio, under the hub's lock: ensure_pulse_monitor_source takes what is fixed,
\* or reads the default; when it cannot, the virtual sink is made the default.
FindSource(w) ==
  /\ switch[w] = "restart" /\ hub = NoSink
  /\ hub' = w
  /\ \/ /\ source' = IF fixed = NoSink THEN default ELSE fixed
        /\ Steps(w, "start") /\ UNCHANGED target
     \/ /\ fixed = NoSink
        /\ target' = [target EXCEPT ![w] = Virtual]
        /\ Steps(w, IF Virtual \in sinks THEN "default" ELSE "load") /\ UNCHANGED source
  /\ UNCHANGED <<sinks, default, playing, fixed, moving, captured, left, crossed, spoilt>>

\* ffmpeg is started with it.
StartAudio(w) ==
  /\ switch[w] = "start" /\ hub = w
  /\ captured' = source /\ Steps(w, "over") /\ hub' = NoSink
  /\ UNCHANGED <<sinks, default, playing, fixed, target, moving, source, left, crossed, spoilt>>

\* An application's stream begins on the default sink.
Plays(p) ==
  /\ playing[p] = NoSink
  /\ playing' = [playing EXCEPT ![p] = default]
  /\ UNCHANGED <<sinks, default, switch, target, moving, left, crossed, spoilt>> /\ UNCHANGED Hub

\* It ends; who has it listed passes it over.
Falls(p) ==
  /\ playing[p] # NoSink
  /\ playing' = [playing EXCEPT ![p] = NoSink]
  /\ moving' = [w \in Switchers |-> moving[w] \ {p}] /\ left' = left \ {p}
  /\ UNCHANGED <<sinks, default, switch, target, crossed, spoilt>> /\ UNCHANGED Hub

\* PulseAudio moves the default and the streams to another sink.
Unplug(k) ==
  /\ k \in sinks \cap Real /\ sinks # {k}
  /\ sinks' = sinks \ {k}
  /\ \E other \in sinks \ {k} :
       /\ default' = IF default = k THEN other ELSE default
       /\ playing' = [p \in Players |-> IF playing[p] = k THEN default' ELSE playing[p]]
  /\ spoilt' = TRUE
  /\ UNCHANGED <<switch, target, moving, left, crossed>> /\ UNCHANGED Hub

AudioInit ==
  /\ sinks \in {Real, Real \cup {Virtual}}
  /\ default \in sinks
  /\ fixed \in {NoSink, Elsewhere} /\ captured = IF fixed = NoSink THEN default ELSE fixed
  /\ playing = [p \in Players |-> NoSink]
  /\ switch = [w \in Switchers |-> "idle"]
  /\ target = [w \in Switchers |-> NoSink] /\ moving = [w \in Switchers |-> {}]
  /\ hub = NoSink /\ source = NoSink
  /\ left = {} /\ crossed = FALSE /\ spoilt = FALSE

AudioNext ==
  \/ \E w \in Switchers :
       \/ BeginSwitch(w) \/ LoadVirtual(w) \/ Choose(w) \/ SetDefault(w) \/ GiveUp(w) \/ ListStreams(w)
       \/ \E p \in Players : MoveStream(w, p)
       \/ Moved(w) \/ FindSource(w) \/ StartAudio(w)
  \/ \E p \in Players : Plays(p) \/ Falls(p)
  \/ \E k \in Real : Unplug(k)

AudioSpec == AudioInit /\ [][AudioNext]_audioVars

-----------------------------------------------------------------------------
(* Properties. *)

\* The state has its shape.
AudioTypeOK ==
  /\ sinks \subseteq Sinks /\ default \in sinks
  /\ playing \in [Players -> Sinks \cup {NoSink}]
  /\ fixed \in {NoSink, Elsewhere}
  /\ switch \in [Switchers -> {"idle", "load", "choose", "default", "list", "move", "restart", "start", "over"}]
  /\ target \in [Switchers -> Sinks \cup {NoSink}]
  /\ moving \in [Switchers -> SUBSET Players]
  /\ hub \in Switchers \cup {NoSink} /\ source \in Sinks \cup {NoSink, Elsewhere}
  /\ captured \in Sinks \cup {Elsewhere} /\ left \subseteq Players

\* Between switches what plays is heard: the capture reads the monitor of the default
\* sink (or what the environment asks for), in whatever order several switches came
\* through, and everything plays there but streams that PulseAudio was asked in vain to
\* move: move_sink_inputs goes on without them.  Switches that have crossed may leave
\* streams on the sink of the one that was the last to move them.  Not after a device has
\* gone or a switch has failed half-way: then nobody restarts the capture.
SoundIsHeard ==
  (\A w \in Switchers : ~Under(w)) /\ ~spoilt =>
    /\ captured = IF fixed = NoSink THEN default ELSE fixed
    /\ ~crossed => \A p \in Players \ left : playing[p] \in {default, NoSink}
=============================================================================
