------------------------------ MODULE CaptureHub ------------------------------
(***************************************************************************)
(* One capture hub of src/media.rs: the ffmpeg process shared by every     *)
(* viewer of the desktop's video (VideoHub) or of its sound (AudioHub).    *)
(*                                                                         *)
(* The hub's runtime lives behind a tokio Mutex, which serves its waiters  *)
(* in order: `queue' is that order and its head holds the lock.  A task    *)
(* gives up the processor only where the code awaits, so an action is the  *)
(* code between two awaits.  The awaits that matter are the wait for the   *)
(* lock, for the old ffmpeg to go (under the lock in ensure_active, after  *)
(* unlocking in release and shutdown) and for the new one to start.        *)
(*                                                                         *)
(* The two hubs differ in two places.  The video hub falls back to H.264   *)
(* on the CPU when the wanted encoder does not start: Fallback, which is   *)
(* the identity for audio.  The audio hub can be restarted: HasRestart.    *)
(***************************************************************************)
EXTENDS Naturals, Sequences, FiniteSets, SequencesExt

CONSTANTS
  Viewers,     \* sessions that take a lease and later drop it
  Operators,   \* sessions that change settings (or restart the audio)
  Server,      \* the task that shuts the hubs down when the program ends
  Procs,       \* identities of ffmpeg processes; one is free when nothing names it
  Configs,     \* stream settings
  Default,     \* the settings a hub is created with
  Fallback,    \* h264_cpu_fallback: the settings tried when others do not start
  HasRestart,  \* TRUE for the audio hub
  None

ASSUME HubAssumption ==
  /\ IsFiniteSet(Viewers)
  /\ Viewers \cap Operators = {}
  /\ Server \notin Viewers \cup Operators
  /\ Default \in Configs
  /\ Fallback \in [Configs -> Configs]
  /\ HasRestart \in BOOLEAN
  /\ None \notin Procs \cup Configs \cup [proc : Procs, config : Configs]

Tasks == Viewers \cup Operators \cup {Server}

VARIABLES
  queue,        \* the tasks at the runtime lock, its holder first
  pc,           \* where each task is
  active,       \* runtime.active: the capture in use, or None
  published,    \* the watch channel `state': the settings viewers are told, or None
  subscribers,  \* runtime.subscribers
  desired,      \* runtime.desired_config
  explicit,     \* runtime.explicitly_configured
  running,      \* ffmpeg processes that have not exited
  killed,       \* those of them that were sent SIGKILL
  victim,       \* the capture a task has taken out of the runtime, or None
  shut          \* the server shutdown has passed through this hub

vars == <<queue, pc, active, published, subscribers, desired, explicit,
          running, killed, victim, shut>>

lock     == <<queue, pc>>
settings == <<desired, explicit>>
os       == <<running, killed>>

-----------------------------------------------------------------------------
(* The lock, and the places of a task. *)

AtLock   == {"acquire", "update", "restart", "release", "shutdown"}
Holding  == {"retire", "start"}
Outside  == {"signal", "reap"}
Places   == {"idle", "leased", "stopped"} \cup AtLock \cup Holding \cup Outside

Holds(t) == queue # <<>> /\ Head(queue) = t

Enter(t, place) ==
  /\ pc' = [pc EXCEPT ![t] = place]
  /\ queue' = Append(queue, t)

Leave(t, place) ==
  /\ pc' = [pc EXCEPT ![t] = place]
  /\ queue' = Tail(queue)

Stay(t, place) ==
  /\ pc' = [pc EXCEPT ![t] = place]
  /\ UNCHANGED queue

Rest(t) == IF t = Server THEN "stopped" ELSE "idle"

\* A viewer whose lease is in `subscribers': it holds the lease, has dropped
\* it without the release having run, or is inside acquire after the count.
Counted == {v \in Viewers : pc[v] \in {"leased", "release"} \cup Holding}

SaturatingPred(n) == IF n = 0 THEN 0 ELSE n - 1

-----------------------------------------------------------------------------
(* ensure_active.  Its caller holds the lock and has set subscribers' to   *)
(* subs and desired' to want.                                              *)

\* try_wait says the capture lives and it has the wanted settings.
Serving(want) ==
  /\ active # None
  /\ active.proc \in running
  /\ active.config = want

\* Slip: the old ffmpeg is waited for but not killed.
RetireWithoutKill(t) ==
  /\ active # None
  /\ victim' = [victim EXCEPT ![t] = active.proc]
  /\ active' = None
  /\ published' = None
  /\ Stay(t, "retire")
  /\ UNCHANGED killed

\* Take the capture out of the runtime.  A live one is sent SIGKILL before
\* the first await; a dead one is only drained.
Retire(t) ==
  /\ active # None
  /\ victim' = [victim EXCEPT ![t] = active.proc]
  /\ killed' = killed \cup ({active.proc} \cap running)
  /\ active' = None
  /\ published' = None
  /\ Stay(t, "retire")

\* The call of ensure_active has returned Ok: an acquirer has its lease.
Succeed(t) == Leave(t, IF t \in Viewers THEN "leased" ELSE "idle")

StartOrReturn(t, subs) ==
  IF subs = 0 THEN Succeed(t) ELSE Stay(t, "start")

Idle == UNCHANGED <<active, published, victim, killed>>

EnsureActive(t, subs, want) ==
  \/ /\ Serving(want)
     /\ Succeed(t)
     /\ Idle
  \/ /\ ~Serving(want)
     /\ Retire(t)
  \/ /\ active = None
     /\ StartOrReturn(t, subs)
     /\ Idle

-----------------------------------------------------------------------------
(* The operations, from the moment their task holds the lock. *)

\* Slip: the settings asked for always win.
AcquireOverrides(v, requested) ==
  /\ Holds(v) /\ pc[v] = "acquire"
  /\ desired' = requested
  /\ subscribers' = subscribers + 1
  /\ EnsureActive(v, subscribers + 1, requested)
  /\ UNCHANGED <<explicit, running, shut>>

Acquire(v, requested) ==
  LET want == IF explicit THEN desired ELSE requested IN
  /\ Holds(v) /\ pc[v] = "acquire"
  /\ desired' = want
  /\ subscribers' = subscribers + 1
  /\ EnsureActive(v, subscribers + 1, want)
  /\ UNCHANGED <<explicit, running, shut>>

UpdateConfig(o, config) ==
  /\ Holds(o) /\ pc[o] = "update"
  /\ desired' = config
  /\ explicit' = TRUE
  /\ EnsureActive(o, subscribers, config)
  /\ UNCHANGED <<subscribers, running, shut>>

Restart(o) ==
  /\ Holds(o) /\ pc[o] = "restart"
  /\ \/ Retire(o)
     \/ active = None /\ StartOrReturn(o, subscribers) /\ Idle
  /\ UNCHANGED <<subscribers, settings, running, shut>>

\* The old capture is gone: ensure_active goes on to start the new one.
Retired(t) ==
  /\ pc[t] = "retire"
  /\ victim[t] \notin running
  /\ victim' = [victim EXCEPT ![t] = None]
  /\ StartOrReturn(t, subscribers)
  /\ UNCHANGED <<active, published, subscribers, settings, os, shut>>

Fresh(p) ==
  /\ p \notin running
  /\ active # None => active.proc # p
  /\ \A t \in Tasks : victim[t] # p

\* ffmpeg started, with the wanted settings or with the fallback; the hub
\* remembers the settings that worked.
StartCapture(t, p, config) ==
  /\ pc[t] = "start"
  /\ Fresh(p)
  /\ config \in {desired, Fallback[desired]}
  /\ running' = running \cup {p}
  /\ active' = [proc |-> p, config |-> config]
  /\ published' = config
  /\ desired' = config
  /\ Succeed(t)
  /\ UNCHANGED <<subscribers, explicit, killed, victim, shut>>

\* Slip: the subscriber of a failed acquire stays counted.
StartFailsCounted(t) ==
  /\ pc[t] = "start"
  /\ published' = None
  /\ Leave(t, "idle")
  /\ UNCHANGED <<active, subscribers, settings, os, victim, shut>>

\* Neither the wanted settings nor the fallback started.
StartFails(t) ==
  /\ pc[t] = "start"
  /\ published' = None
  /\ subscribers' = IF t \in Viewers THEN SaturatingPred(subscribers) ELSE subscribers
  /\ Leave(t, "idle")
  /\ UNCHANGED <<active, settings, os, victim, shut>>

\* release and shutdown take the capture out under the lock and stop it
\* after unlocking.
TakeOut(t) ==
  IF active = None
  THEN Leave(t, Rest(t)) /\ UNCHANGED <<active, victim>>
  ELSE /\ Leave(t, "signal")
       /\ victim' = [victim EXCEPT ![t] = active.proc]
       /\ active' = None

\* Slip: viewers are still told of the capture that was taken away.
ReleaseUnannounced(v) ==
  /\ Holds(v) /\ pc[v] = "release"
  /\ subscribers' = SaturatingPred(subscribers)
  /\ IF subscribers' > 0
     THEN Leave(v, "idle") /\ UNCHANGED <<active, victim>>
     ELSE TakeOut(v)
  /\ UNCHANGED <<published, settings, os, shut>>

Release(v) ==
  /\ Holds(v) /\ pc[v] = "release"
  /\ subscribers' = SaturatingPred(subscribers)
  /\ IF subscribers' > 0
     THEN Leave(v, "idle") /\ UNCHANGED <<active, published, victim>>
     ELSE TakeOut(v) /\ published' = IF active = None THEN published ELSE None
  /\ UNCHANGED <<settings, os, shut>>

Shutdown ==
  /\ Holds(Server) /\ pc[Server] = "shutdown"
  /\ subscribers' = 0
  /\ published' = None
  /\ shut' = TRUE
  /\ TakeOut(Server)
  /\ UNCHANGED <<settings, os>>

\* Slip: wait for the process without killing it.
SignalNothing(t) ==
  /\ pc[t] = "signal"
  /\ Stay(t, "reap")
  /\ UNCHANGED <<active, published, subscribers, settings, os, victim, shut>>

Signal(t) ==
  /\ pc[t] = "signal"
  /\ killed' = killed \cup ({victim[t]} \cap running)
  /\ Stay(t, "reap")
  /\ UNCHANGED <<active, published, subscribers, settings, running, victim, shut>>

Reaped(t) ==
  /\ pc[t] = "reap"
  /\ victim[t] \notin running
  /\ victim' = [victim EXCEPT ![t] = None]
  /\ Stay(t, Rest(t))
  /\ UNCHANGED <<active, published, subscribers, settings, os, shut>>

-----------------------------------------------------------------------------
(* What sessions and the operating system do. *)

\* A session asks for a lease; its task joins the lock's waiters.
Connect(v) ==
  /\ pc[v] = "idle"
  /\ Enter(v, "acquire")
  /\ UNCHANGED <<active, published, subscribers, settings, os, victim, shut>>

\* Dropping the lease spawns the task that releases it.
DropLease(v) ==
  /\ pc[v] = "leased"
  /\ Enter(v, "release")
  /\ UNCHANGED <<active, published, subscribers, settings, os, victim, shut>>

Ask(o, operation) ==
  /\ pc[o] = "idle"
  /\ operation = "restart" => HasRestart
  /\ Enter(o, operation)
  /\ UNCHANGED <<active, published, subscribers, settings, os, victim, shut>>

AskShutdown ==
  /\ pc[Server] = "idle"
  /\ Enter(Server, "shutdown")
  /\ UNCHANGED <<active, published, subscribers, settings, os, victim, shut>>

\* The task of a settings change is aborted when its client goes away: its
\* future is dropped at the await where it is, and with it the lock or its
\* place in the line.
Abort(o) ==
  /\ pc[o] \in {"update", "restart"} \cup Holding
  /\ pc' = [pc EXCEPT ![o] = "idle"]
  /\ \E i \in DOMAIN queue : queue[i] = o /\ queue' = RemoveAt(queue, i)
  /\ victim' = [victim EXCEPT ![o] = None]
  /\ UNCHANGED <<active, published, subscribers, settings, os, shut>>

\* An ffmpeg process ends: killed, or by itself at any time.
Exit(p) ==
  /\ p \in running
  /\ running' = running \ {p}
  /\ killed' = killed \ {p}
  /\ UNCHANGED <<lock, active, published, subscribers, settings, victim, shut>>

-----------------------------------------------------------------------------
Init ==
  /\ queue = <<>>
  /\ pc = [t \in Tasks |-> "idle"]
  /\ active = None
  /\ published = None
  /\ subscribers = 0
  /\ desired = Default
  /\ explicit = FALSE
  /\ running = {}
  /\ killed = {}
  /\ victim = [t \in Tasks |-> None]
  /\ shut = FALSE

Next ==
  \/ \E v \in Viewers :
       \/ Connect(v)
       \/ DropLease(v)
       \/ Release(v)
       \/ \E c \in Configs : Acquire(v, c)
  \/ \E o \in Operators :
       \/ \E operation \in {"update", "restart"} : Ask(o, operation)
       \/ \E c \in Configs : UpdateConfig(o, c)
       \/ Restart(o)
       \/ Abort(o)
  \/ AskShutdown
  \/ Shutdown
  \/ \E t \in Tasks :
       \/ Retired(t)
       \/ \E p \in Procs, c \in Configs : StartCapture(t, p, c)
       \/ StartFails(t)
       \/ Signal(t)
       \/ Reaped(t)
  \/ \E p \in Procs : Exit(p)

Spec == Init /\ [][Next]_vars

(***************************************************************************)
(* A runtime keeps polling a task that can go on, an encoder probe and a   *)
(* process spawn end, and a process that was sent SIGKILL exits.  Nothing  *)
(* makes a viewer come or go, a client change settings or a healthy        *)
(* capture exit.                                                           *)
(***************************************************************************)
Proceed(t) ==
  \/ t \in Viewers /\ (Release(t) \/ \E c \in Configs : Acquire(t, c))
  \/ t \in Operators /\ (Restart(t) \/ \E c \in Configs : UpdateConfig(t, c))
  \/ t = Server /\ Shutdown
  \/ Retired(t)
  \/ \E p \in Procs, c \in Configs : StartCapture(t, p, c)
  \/ StartFails(t)
  \/ Signal(t)
  \/ Reaped(t)

Fairness ==
  /\ \A t \in Tasks : WF_vars(Proceed(t))
  /\ \A p \in Procs : WF_vars(p \in killed /\ Exit(p))

FairSpec == Spec /\ Fairness

-----------------------------------------------------------------------------
(* Properties. *)

\* The state has the shape the code's types give it.
TypeOK ==
  /\ queue \in Seq(Tasks)
  /\ pc \in [Tasks -> Places]
  /\ active \in [proc : Procs, config : Configs] \cup {None}
  /\ published \in Configs \cup {None}
  /\ subscribers \in Nat
  /\ desired \in Configs
  /\ explicit \in BOOLEAN
  /\ running \in SUBSET Procs
  /\ killed \in SUBSET running
  /\ victim \in [Tasks -> Procs \cup {None}]
  /\ shut \in BOOLEAN

\* Whoever is inside ensure_active holds the lock, so nobody else is.
LockHeld == \A t \in Tasks : pc[t] \in Holding => Holds(t)

\* What viewers are told is the capture in place; there is one only while
\* somebody is counted, none while it is being replaced, and it is started,
\* or a viewer waits for it, only while somebody is counted.
CaptureMatchesCount ==
  /\ active = None => published = None
  /\ active # None => published = active.config /\ subscribers > 0
  /\ \A t \in Tasks :
       /\ pc[t] \in Holding => active = None
       /\ pc[t] = "start" \/ (pc[t] = "retire" /\ t \in Viewers) => subscribers > 0

\* The subscriber count (media.rs, acquire, release and shutdown) is the
\* number of leases whose release has not run, whatever was aborted or failed
\* to start, until the server shuts down; after that it is at most that number.
Accounting ==
  /\ ~shut => subscribers = Cardinality(Counted)
  /\ subscribers <= Cardinality(Counted)

\* A capture is kept only for somebody: while the hub has one, some viewer
\* holds a lease, is being given one, or has one whose release is on its way.
CaptureHasViewer == active # None => Counted # {}

\* No ffmpeg is forgotten: one that runs and was not killed is the hub's
\* current capture, or release or shutdown is about to kill it.  Replacing,
\* aborting, failing and restarting leave none behind.
NoOrphanCapture ==
  \A p \in running \ killed :
    \/ active # None /\ active.proc = p
    \/ \E t \in Tasks : pc[t] = "signal" /\ victim[t] = p

\* Viewers do not lose their capture to somebody else's leaving: the hub
\* gives up its capture only to replace it, for the last lease, or at shutdown.
KeepStep ==
  active # None /\ active' = None =>
    \/ \E t \in Tasks : pc'[t] = "retire"
    \/ Counted' = {}
    \/ shut'
CaptureKept == [][KeepStep]_vars

\* acquire hands out a lease only for a capture that is in place, and tells
\* viewers the settings it runs with.
LeaseStep ==
  \A v \in Viewers :
    pc[v] # "leased" /\ pc'[v] = "leased" =>
      /\ active' # None
      /\ active'.config = desired'
      /\ published' = desired'
LeaseHasCapture == [][LeaseStep]_vars

\* Settings a client chose are not replaced by those a connecting viewer
\* asks for: only a settings change or the encoder fallback moves them.
SettingsStep ==
  explicit /\ desired' # desired =>
    /\ explicit'
    /\ \/ \E o \in Operators : Holds(o) /\ pc[o] = "update"
       \/ desired' = Fallback[desired] /\ published' = desired'
ExplicitSettingsStay == [][SettingsStep]_vars

\* The hub keeps what SharedCapture promises: a viewer in the lock's line or in
\* ensure_active is asking, the published settings are the capture.
Stage(place) ==
  CASE place \in {"acquire"} \cup Holding -> "asking"
    [] place = "leased"                    -> "held"
    [] place = "release"                   -> "returning"
    [] OTHER                               -> "none"

Shared == INSTANCE SharedCapture WITH
            lease   <- [v \in Viewers |-> Stage(pc[v])],
            capture <- published,
            closing <- shut

KeepsSharedCapture == Shared!SharedSpec

\* README.md, "One shared FFmpeg video capture pipeline for all connected
\* browsers": while the server runs, two processes that nobody has told to stop
\* never capture at once.
OneCapture == ~shut => Cardinality(running \ killed) <= 1

\* A viewer that asks is answered: acquire ends with a lease or an error.
AcquireEnds == \A v \in Viewers : pc[v] = "acquire" ~> pc[v] \in {"leased", "idle"}

\* A capture that is no longer the hub's current one stops.
RemovedCaptureStops ==
  \A p \in Procs :
    (p \in running /\ ~(active # None /\ active.proc = p)) ~> p \notin running

=============================================================================
