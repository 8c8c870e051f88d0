------------------------------ MODULE CameraRelay ------------------------------
(***************************************************************************)
(* The camera of the desktop (src/camera.rs).  One virtual device is fed   *)
(* by one ffmpeg at a time: the placeholder, which shows black, or a relay *)
(* for the browser session that has the camera.  Sessions send chunks and  *)
(* stops by HTTP requests, in any order; a worker task takes them from a   *)
(* queue.  A session that is silent for ten seconds has lost the camera,   *)
(* to the next one that asks or to nobody.                                 *)
(*                                                                         *)
(* Time is not kept: `stale' may become true whenever it is not, and the   *)
(* worker's timers may fire whenever it waits.                             *)
(***************************************************************************)
EXTENDS Naturals, Sequences, FiniteSets

CONSTANTS
  Sessions,    \* the browsers' sessions
  MaxQueue,    \* bound: commands in the queue, which the code does not limit
  None

Chunk(s) == [kind |-> "chunk", session |-> s]
StopOf(s) == [kind |-> "stop", session |-> s]
Commands == [kind : {"chunk", "stop"}, session : Sessions]

ASSUME CameraAssumption == None \notin Sessions \cup Commands /\ MaxQueue \in Nat \ {0}

VARIABLES
  queue,        \* CameraRelayState: the commands,
  active,       \*   the session that has the camera,
  stale,        \*   whether its last activity is long ago
  permit,       \* of the worker's Notify
  worker,       \* where the worker is, and the try of write_camera_chunk
  hand,         \* the command it has taken
  relay,        \* the session that its relay is for
  ffmpeg,       \* the relay's process: "none", "running", "eof" once its input is
                \* closed, or "dead" and not yet waited for
  placeholder,  \* the placeholder's process, likewise
  abandoned     \* whether the last session stopped before its turn came and has
                \* left the device to another, which it had taken it from

cameraVars == <<queue, active, stale, permit, worker, hand, relay, ffmpeg, placeholder, abandoned>>

Requests  == <<queue, active, stale, abandoned>>
Processes == <<relay, ffmpeg, placeholder>>

-----------------------------------------------------------------------------
(* The requests. *)

\* enqueue_media_chunk: refused while another session has the camera.  The lock
\* is given up before the notify_one; a worker that comes between finds the permit
\* at its next wait, as one does that was busy.
Enqueue(s) ==
  /\ Len(queue) < MaxQueue
  /\ active \in {s, None} \/ stale
  /\ active' = s
  /\ stale' = FALSE
  /\ queue' = Append(queue, Chunk(s))
  /\ permit' = TRUE
  /\ abandoned' = FALSE
  /\ UNCHANGED <<worker, hand>> /\ UNCHANGED Processes

\* What is retained of the queue: the commands of other sessions, in their order.
Others(s) ==
  LET kept    == {i \in DOMAIN queue : queue[i].session # s}
      Rank(i) == Cardinality({j \in kept : j <= i})
  IN  [n \in 1..Cardinality(kept) |-> queue[CHOOSE i \in kept : Rank(i) = n]]

\* q, after what the worker has done and has in hand, leaves a relay for s.
Before      == (IF relay = None THEN <<>> ELSE <<Chunk(relay)>>) \o (IF hand = None THEN <<>> ELSE <<hand>>)
Leaves(p, s) ==
  \E i \in DOMAIN p :
    p[i] = Chunk(s) /\ \A j \in i + 1..Len(p) : p[j].kind = "stop" /\ p[j].session # s
LeftBy(q) == {s \in Sessions : Leaves(Before \o q, s)}

\* stop_session: of nobody but the session that has the camera.
Stop(s) ==
  /\ active = s
  /\ active' = None
  /\ stale' = FALSE
  /\ queue' = Append(Others(s), StopOf(s))
  /\ permit' = TRUE
  /\ abandoned' = (abandoned \/ ~(LeftBy(Others(s)) \subseteq {s}))
  /\ UNCHANGED <<worker, hand>> /\ UNCHANGED Processes

\* Ten seconds without a chunk.  That is longer than the worker takes for a step
\* that waits for nothing but the lock.
Silence ==
  /\ ~stale
  /\ \/ worker.at \in {"placing", "command", "ending", "spawn", "write"}
     \/ worker.at = "waiting" /\ ~permit
  /\ stale' = TRUE
  /\ UNCHANGED <<queue, active, permit, worker, hand, abandoned>> /\ UNCHANGED Processes

-----------------------------------------------------------------------------
(* The worker. *)

At(p)       == worker.at = p
Go(p)       == worker' = [at |-> p, try |-> 1]
GoOn(p)     == worker' = [worker EXCEPT !.at = p]
Done        == Go("top") /\ hand' = None

\* The loop: maybe_start_placeholder_relay, when there is no relay.  The lock is
\* given up before the placeholder is started.
Top ==
  /\ At("top")
  /\ IF relay # None \/ placeholder = "running"
     THEN Go("next") /\ UNCHANGED placeholder
     ELSE /\ placeholder' = "none"
          /\ Go(IF active = None /\ queue = <<>> THEN "placing" ELSE "next")
  /\ UNCHANGED <<permit, hand, relay, ffmpeg>> /\ UNCHANGED Requests

PlaceholderStarts ==
  /\ At("placing")
  /\ placeholder' = "running"
  /\ Go("next")
  /\ UNCHANGED <<permit, hand, relay, ffmpeg>> /\ UNCHANGED Requests

\* No device, or no ffmpeg.
PlaceholderFails ==
  /\ At("placing")
  /\ Go("next")
  /\ UNCHANGED <<permit, hand>> /\ UNCHANGED Requests /\ UNCHANGED Processes

\* next_command_or_stale_wait, under the lock: before it waits, and once woken.
Look ==
  /\ worker.at \in {"next", "woken"}
  /\ IF queue # <<>>
     THEN /\ hand' = Head(queue)
          /\ queue' = Tail(queue)
          /\ Go("command")
     ELSE /\ Go(IF At("woken") \/ (active # None /\ stale) THEN "expire" ELSE "waiting")
          /\ UNCHANGED <<queue, hand>>
  /\ UNCHANGED <<active, stale, permit, abandoned>> /\ UNCHANGED Processes

Woken ==
  /\ At("waiting")
  /\ permit
  /\ permit' = FALSE
  /\ Go("woken")
  /\ UNCHANGED hand /\ UNCHANGED Requests /\ UNCHANGED Processes

Timer ==
  /\ At("waiting")
  /\ Go("expire")
  /\ UNCHANGED <<permit, hand>> /\ UNCHANGED Requests /\ UNCHANGED Processes

\* stop_active_relay: its input is closed, and it is waited for.
StopRelay ==
  /\ relay' = None
  /\ ffmpeg' = IF ffmpeg = "running" THEN "eof" ELSE ffmpeg
  /\ UNCHANGED placeholder

\* Slip: the session is forgotten and its relay goes on.
ExpireOnly ==
  /\ At("expire")
  /\ IF active # None /\ stale THEN active' = None ELSE UNCHANGED active
  /\ Go("top")
  /\ UNCHANGED <<queue, stale, permit, hand, abandoned>> /\ UNCHANGED Processes

\* Slip: only a session that has a relay is forgotten.
ExpireRelayed ==
  /\ At("expire")
  /\ IF active # None /\ stale /\ relay = active
     THEN active' = None /\ Go("ending") /\ StopRelay
     ELSE Go("top") /\ UNCHANGED active /\ UNCHANGED Processes
  /\ UNCHANGED <<queue, stale, permit, hand, abandoned>>

\* expire_stale_session.
Expire ==
  /\ At("expire")
  /\ IF active # None /\ stale
     THEN /\ active' = None
          /\ IF relay = active THEN Go("ending") /\ StopRelay
                               ELSE Go("top") /\ UNCHANGED Processes
     ELSE Go("top") /\ UNCHANGED active /\ UNCHANGED Processes
  /\ UNCHANGED <<queue, stale, permit, hand, abandoned>>

Command(kind) == At("command") /\ hand.kind = kind
Worker        == UNCHANGED permit /\ UNCHANGED Requests

TakeStop ==
  /\ Command("stop")
  /\ IF relay = hand.session THEN Go("ending") /\ StopRelay
                             ELSE Go("top") /\ UNCHANGED Processes
  /\ hand' = None
  /\ Worker

\* Slip: the placeholder stays.
TakeChunkBeside ==
  /\ Command("chunk")
  /\ Go("feeding")
  /\ UNCHANGED hand /\ UNCHANGED Processes /\ Worker

\* stop_placeholder_relay: killed and waited for.
TakeChunk ==
  /\ Command("chunk")
  /\ placeholder' = "none"
  /\ Go("feeding")
  /\ UNCHANGED <<hand, relay, ffmpeg>> /\ Worker

\* write_camera_chunk: a relay of another session is stopped first.
Feed ==
  /\ At("feeding")
  /\ IF relay = hand.session THEN Go("write") /\ UNCHANGED Processes
     ELSE IF relay # None THEN Go("ending") /\ StopRelay
     ELSE Go("spawn") /\ UNCHANGED Processes
  /\ UNCHANGED hand /\ Worker

\* The ffmpeg has been waited for; with a chunk in hand the next is started.
Ended ==
  /\ At("ending")
  /\ ffmpeg = "dead"
  /\ ffmpeg' = "none"
  /\ IF hand = None THEN Go("top") ELSE GoOn("spawn")
  /\ UNCHANGED <<hand, relay, placeholder>> /\ Worker

SpawnFails == At("spawn") /\ Done /\ UNCHANGED Processes /\ Worker

Spawn ==
  /\ At("spawn")
  /\ relay' = hand.session
  /\ ffmpeg' = "running"
  /\ GoOn("write")
  /\ UNCHANGED <<hand, placeholder>> /\ Worker

Write == At("write") /\ ffmpeg = "running" /\ Done /\ UNCHANGED Processes /\ Worker

\* Slip: until it works.
WriteFailsOn ==
  /\ At("write")
  /\ ffmpeg = "dead"
  /\ worker' = [at |-> "ending", try |-> worker.try + 1]
  /\ StopRelay
  /\ UNCHANGED hand /\ Worker

\* The first time the relay is replaced, the second it is left for the next chunk.
WriteFails ==
  /\ At("write")
  /\ ffmpeg = "dead"
  /\ IF worker.try = 1
     THEN worker' = [at |-> "ending", try |-> 2] /\ StopRelay /\ UNCHANGED hand
     ELSE Done /\ UNCHANGED Processes
  /\ Worker

\* A process ends by itself, or since its input has.
RelayExits ==
  /\ ffmpeg \in {"running", "eof"}
  /\ ffmpeg' = "dead"
  /\ UNCHANGED <<worker, hand, relay, placeholder>> /\ Worker

PlaceholderExits ==
  /\ placeholder = "running"
  /\ placeholder' = "dead"
  /\ UNCHANGED <<worker, hand, relay, ffmpeg>> /\ Worker

-----------------------------------------------------------------------------
CameraInit ==
  /\ queue = <<>>
  /\ active = None
  /\ stale = FALSE
  /\ permit = FALSE
  /\ worker = [at |-> "top", try |-> 1]
  /\ hand = None
  /\ relay = None
  /\ ffmpeg = "none"
  /\ placeholder = "none"
  /\ abandoned = FALSE

CameraNext ==
  \/ \E s \in Sessions : Enqueue(s) \/ Stop(s)
  \/ Silence
  \/ Top \/ PlaceholderStarts \/ PlaceholderFails
  \/ Look \/ Woken \/ Timer \/ Expire
  \/ TakeStop \/ TakeChunk \/ Feed \/ Ended \/ SpawnFails \/ Spawn \/ Write \/ WriteFails
  \/ RelayExits \/ PlaceholderExits

CameraSpec == CameraInit /\ [][CameraNext]_cameraVars

\* The runtime polls the worker, its timers fire, an ffmpeg whose input has ended
\* ends, and one that runs takes what it is given or ends.  Time goes by.  The
\* device is there every now and then.
CameraFairness ==
  /\ WF_cameraVars(Silence)
  /\ WF_cameraVars(Top) /\ WF_cameraVars(Look) /\ WF_cameraVars(Woken)
  /\ WF_cameraVars(Timer) /\ WF_cameraVars(Expire)
  /\ SF_cameraVars(PlaceholderStarts) /\ WF_cameraVars(PlaceholderFails)
  /\ WF_cameraVars(TakeStop) /\ WF_cameraVars(TakeChunk) /\ WF_cameraVars(Feed) /\ WF_cameraVars(Ended)
  /\ WF_cameraVars(Spawn) /\ WF_cameraVars(Write) /\ WF_cameraVars(WriteFails)
  /\ WF_cameraVars(ffmpeg = "eof" /\ RelayExits)

CameraFairSpec == CameraSpec /\ CameraFairness

-----------------------------------------------------------------------------
(* Properties. *)

\* The state has its shape.
CameraTypeOK ==
  /\ queue \in Seq(Commands) /\ Len(queue) <= MaxQueue + 1
  /\ active \in Sessions \cup {None}
  /\ stale \in BOOLEAN /\ permit \in BOOLEAN /\ abandoned \in BOOLEAN
  /\ worker \in [at : {"top", "placing", "next", "waiting", "woken", "expire", "command",
                       "feeding", "ending", "spawn", "write"}, try : 1..2]
  /\ hand \in Commands \cup {None}
  /\ relay \in Sessions \cup {None}
  /\ ffmpeg \in {"none", "running", "eof", "dead"}
  /\ placeholder \in {"none", "running", "dead"}

\* The device has one writer: the placeholder has gone when a relay is there, and
\* a relay when the next is started.
OneWriter ==
  /\ ffmpeg # "none" => placeholder # "running"
  /\ At("spawn") => ffmpeg = "none"

\* The relay of a session that has lost the camera is stopped by what waits: when
\* all is done, there is one for the session that has the camera, or none.  The
\* exception is a session that takes the camera over and stops before its turn
\* comes, see abandoned.
RelayIsMinded == ~abandoned => LeftBy(queue) \subseteq {active}

\* A silent session loses the camera.
SilentSessionEnds == active # None /\ stale ~> active = None \/ ~stale

\* README.md, "keeps a black placeholder feed open while no browser camera is
\* active": when nobody has the camera any more, the placeholder comes back.
PlaceholderReturns == <>[](active = None /\ ~abandoned) => []<>(placeholder = "running")
=============================================================================
