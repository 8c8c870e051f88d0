# A verification of aurora_xrdc

aurora_xrdc is a remote desktop server. It captures an X display and its sound
with ffmpeg, sends them to web browsers over WebSocket, WebTransport or WebRTC,
and injects the browsers' keyboard, pointer, camera and microphone into the
desktop. These TLA+ modules model the parts of it where tasks, processes,
connections and people interleave. TLC checks them on small instances, and
TLAPS proves the main invariants for every instance.

Everything below is read from the code under `src/src/` (Rust) and `src/web/`
(the browser). `PROJECT.json` maps each definition to its lines.

## 1. The system

| part | source | state | operations | in this project |
|---|---|---|---|---|
| Capture hubs | `media.rs` | runtime behind a tokio Mutex: active capture, subscriber count, wanted settings; a watch channel with the published settings; ffmpeg children | acquire, update_config, restart, release, shutdown | `CaptureHub`, `SharedCapture` |
| Input sessions | `session.rs`, `x11_input.rs` | `pressed_keys`, `last_key_state_at` of each receiver; the X keyboard and buttons; the supervisor of each socket | key, key state, text, button, reset; watchdog; clean-up; abort | `InputSession` |
| Client registry | `client_manager.rs` | per client id: role counts and a watch channel | register, close one, close others, unregister | `ClientRegistry` |
| Session output | `session.rs`, `streamer.rs` | broadcast ring, media channel | number, broadcast, forward, write | `VideoPath` (frames only) |
| WebTransport | `webtransport.rs` | `VideoQueue` and its Notify; the writer task | push with coalescing, next, close | `VideoPath` |
| WebRTC | `rtc.rs` | one Notify for the end, a keepalive watchdog, `CtrlDcSlot`, inbound queue, audio track task | answer, state change, watchdog, stream, feed, attach and get | `RtcPeer`; data channel in `VideoPath` |
| Web client | `web/app.js` | decoder, `waitingForKeyframe`, `lastVideoSeq`; the settings | handleVideoFrame, setupDecoder, recovery, connect | decoder in `VideoPath`, settings in `SettingsSync` |
| Camera relay | `camera.rs` | queue, active session, last activity, ffmpeg stdin | enqueue, stop, expiry, placeholder, one retry | `CameraRelay` |
| Wheel dispatcher | `wheel.rs`, `uinput.rs` | bounded queue, worker thread with a Condvar, the remainder of a gesture | submit, clear, drop, inject | `WheelQueue` |
| Microphone | `session.rs` | `MicInputState`, a child process per recording | chunk, restart, failure, abort | `MicInput` |
| Stream parsers | `annexb.rs`, `audio.rs`, Ogg in `rtc.rs` | a buffer, the parameter sets seen | push bytes, take frames, convert | `StreamParsers` |
| Stream settings | `app.js`, `session.rs`, `media.rs` | each page's controls, applied and pending keys and timers; what each hub runs | change, reconnect, hello, fallback | `SettingsSync` |
| Audio output | `ffmpeg.rs`, `app.rs` | PulseAudio's sinks, default and streams; the capture's source | switch, move streams, restart the capture | `AudioDevices` |
| Clipboard | `clipboard.rs`, `session.rs` | the X selection, one owner thread, a lock | copy, paste and restore, read | `Clipboard` |
| Authentication | `app.rs` | a count of wrong passwords, a time | authenticate, lock out | `AuthTracker` |
| Desktop launcher | `launcher/` | services found or started, their process groups | probe, start, watch, stop | `Launcher` |
| Encoder choice | `ffmpeg.rs`, `audio_streamer.rs` | cached probes | argument building, spawning | as the hubs see it: starts, fails, exits |
| HTTP, settings, statistics | `app.rs`, `settings.rs`, `system_stats.rs` | none that others depend on | routes, parsing, clamping, reading /proc | not modelled |

How they interact. A browser opens one connection per role (all, control, input,
video, audio, mic). Each takes a lease from `ClientRegistry` and, when it shows
video or plays sound, one from a `CaptureHub`. A session is a handful of tokio
tasks connected by channels: a receiver that applies the client's messages, a
forwarder that takes frames from the hub's broadcast channel, a writer that owns
the socket, and a supervisor that waits for the first of them to end. The wire
below is a WebSocket, or one of two transports that put a `VideoQueue` between
writer and network. Leases are given back by tasks their `Drop` spawns, so they
are given back late, and possibly after the same client has come back.

What is hard here:

* *Dropped futures.* A receiver is aborted at whatever await it is in, also
  inside `ensure_active` with the hub's lock held and the capture taken out.
* *Work after unlocking.* `release` stops ffmpeg after it has given up the lock.
* *Late releases.* Unregistering and releasing queue behind newer arrivals.
* *A shared keyboard.* X knows one keyboard. Each session keeps its own belief
  about it, and key events of two sessions interleave.
* *Look, then wait.* `VideoQueue::next`, `CtrlDcSlot::get` and the WebRTC
  shutdown word all rest on the permit semantics of `tokio::sync::Notify`.
* *Messages that tell of the past.* A hello says what ran when it was written.
* *Other people's processes.* PulseAudio, X, ffmpeg and the kernel change what a
  sequence of calls has just read.
* *Reads that end anywhere*, in parsers that look for patterns.
* *Frames dropped on purpose* in four places (broadcast ring, VideoQueue, data
  channel, browser), in front of a decoder that needs every predecessor.

The full list, with lines and the properties that cover each, is under
"hazards" in `PROJECT.json`.

## 2. The modules

### SharedCapture and CaptureHub (`media.rs`)

`SharedCapture` is the promise: viewers ask for a lease, are granted one only
with a published capture, and nobody's departure takes the capture from another
holder. It has no locks, tasks or processes.

`CaptureHub` is one hub as it is written. `VideoHub` and `AudioHub` are the same
code but for two things, which are constants: `Fallback` (h264_cpu_fallback, the
identity for audio) and `HasRestart`. `queue` is the tokio Mutex, fair, with the
holder at its head; `pc` is where each task is. An action is the code between
two awaits:

| code | actions |
|---|---|
| `acquire`, `update_config`, `restart` once they hold the lock, to the first await in `ensure_active` | `Acquire`, `UpdateConfig`, `Restart` with `EnsureActive` (`Serving`, `Retire`, `StartOrReturn`) |
| the wait for the old ffmpeg | `Retired` |
| spawn, encoder fallback, failure | `StartCapture`, `StartFails` |
| `release`, `shutdown` under the lock, then kill and wait without | `Release`, `Shutdown`, then `Signal`, `Reaped` |
| an aborted client task | `Abort`: the future is dropped with its lock or its place in the line |
| an ffmpeg that ends, killed or not | `Exit` |

A dropped lease joins the lock's line in `DropLease` (spawn and first poll are
one step). Not modelled: an error of `waitpid`, and the reading of stderr.

### InputSession (`session.rs`, `x11_input.rs`)

Every session has a receiver (`stage`) and a supervisor. A message becomes a
`plan` of key events, and each event is one action, so that two sessions'
events interleave. `FirstReleases` and `FirstPresses` keep the code's order
(`key_chord_rank`). `pressed` is `pressed_keys`; `keysDown` and `buttonsDown`
are X. `armed` is `last_key_state_at`; time is not kept, so the watchdog may
fire whenever it is armed. `Patient` sessions are combined sockets, whose
receiver has a second to clean up; the others are aborted in the same breath.
`Unmapped` keys are those whose every event fails. Failing pointer events
and pointer motion are left out; wheel, microphone and clipboard have modules of
their own. A handler that awaits (`Await`) waits for what the server does by itself
and then goes on (`Resume`), or for room for its reply in the client's queue (`Reply`),
which only a client that still reads makes; the watchdog is a branch of the same loop
and is not heard meanwhile.

### ClientRegistry (`client_manager.rs`)

No lock is held over an await, so each operation is one action. What is not
atomic is arriving (`Register`, then `Open`) and leaving (`DropLease`, then
`Unregister`, some time later). A watch channel is an identity; `Close` sets the
values of those that have receivers, since a `send` without any fails.

### VideoPath (`streamer.rs`, `session.rs`, `webtransport.rs`, `rtc.rs`, `app.js`)

One viewer's frames from ffmpeg's pipe to the browser's decoder:

    reader -> ring -> channel -> queue -> writer -> wire -> decoder
    Read      Forward WriteSocket / Push  Take      Write   Receive

`ring` is the broadcast channel, which overwrites the oldest frame; `channel`
the media channel with the frames in the hands at its two ends. On a WebSocket
there is no queue and the writer waits for the network. On WebTransport
("stream") and WebRTC ("channel") `Push` appends, coalesces to the newest
keyframe, and bounds. The writer looks under the lock (`Take`, `FindNone`) and
waits without it (`Await`, `Wake`). A data channel may lose and reorder, and its
writer skips when it is congested. `Replace` starts a new capture, whose frames
count from zero again, while the old reader may still find frames in its pipe.

Left out: hellos, the fragments of a frame, and the awaits in `setupDecoder`
(one step here). `disturbed` records what the browser cannot know: that the
viewer lagged behind the ring, or that an old capture's frame was broadcast
after the new capture's first.

### RtcPeer (`rtc.rs`)

How the session of a peer connection ends. `permit`, `waiters` and `woken` are
tokio's Notify: `notify_one` wakes the longest waiter or leaves a permit, and a
waiter that is dropped after it was woken passes the word on. The session's
stream and, with a native audio track, the task that feeds it await the same
Notify. That `pc.close()` leads to the state Closed, and its handler, is taken
from how the code uses the library. The `CtrlDcSlot` with `notify_waiters` is
modelled beside it.

### CameraRelay (`camera.rs`)

The requests are `Enqueue` and `Stop`; a refused one changes nothing and is no
action. The worker goes round: `Top` (the placeholder, when there is no relay),
`Look` before its wait and again once `Woken`, then `TakeStop`, `TakeChunk` with
`Feed`, or `Expire`. `Feed` to `WriteFails` are `write_camera_chunk`, whose
`try` says whether a relay has been replaced for this chunk; `ending` is the
wait for an ffmpeg whose input is closed. Processes may end at any time, and
starts may fail. Time is not kept: `stale` says that the last activity is ten
seconds old, and `Silence` lets that happen while the worker waits for something,
not between two steps that take microseconds. Reaping the placeholder's stderr
and refreshing the desktop's services have no effect here.

### SettingsSync (`app.js`, `session.rs`, `media.rs`)

How stream settings get about between pages and server. `tab` is each page: its
controls (`shows`), `appliedStreamSettingsKey`, `pendingStreamSettingsKey`,
whether the user's last change is less than three seconds old (`recent`), the
timer, and where it is between two connections. `conn` is what each `connect()`
has opened, as the server sees it: what was asked for in the URL, a lease of each
hub, and the sessions that have a hello to send. `capture` is what each hub runs.

| code | actions |
|---|---|
| `persistResolvedSettings` | `Edit` |
| three seconds after it; the timer | `Expire`, `TimerFires` |
| `connect`, up to the sockets, and from the last that is open | `Connects`, `Opened` |
| `handleRoleSocketClose`, a failing `connect` | `Lost` |
| `syncServerStreamSettings`, its four ways out | `Hear` |
| `acquire` of a hub, with the fallback of an encoder that does not start | `Acquire`, `Runs` |
| `send_hello` to a session that has not seen the state | `Tell` |
| a session that ends | `Leaves` |

`Combined` says whether one session has all media (WebRTC with media tracks) or
each has its own (every other transport): then the control session tells what
runs without having asked for anything. An acquire is one step here, `CaptureHub`
has its parts; a session that `forward_frames` ends while a capture is being
replaced is `Lost`. `picked` remembers what a user chose when all was settled.
Not modelled: clients on several URLs of one server, the REST calls and the
message that change settings at the server (no page sends them), and values that
the controls cannot show, but for the CPU encoder, which they show as
`CpuShown`.

### WheelQueue (`wheel.rs`)

The receiver's calls are `PushEvent` and, without the lock, `NotifyWorker`;
`ClearEvents`; `DropDispatcher`. The thread is `StartWorker`, `LookForEvent`,
`InjectEvent`, `Injected`, with `SpuriousWake` as Condvars have. Ages and the pause
that ends a gesture are ticks of `Passes`. `Accumulate` is `accumulate_wheel_steps`
in tenths of a unit, with the truncation, the first click that is borrowed and the
reversal. One axis is modelled of two that are alike.

### MicInput (`session.rs`)

Each session's `MicInputState` and the await its receiver is in. An injector is an
ffmpeg process; `input` is whether its stdin is open, and `fed` what it was given.
`MicAborted` drops the receiver at any await, which closes the input but, unlike
for captures, kills nothing (`LetGo`). `MicStreamsApart` is about one ffmpeg's
input, `MicIsMinded` about the processes of a session.

### AudioDevices (`ffmpeg.rs`, `app.rs`)

`set_audio_output_device` as the sequence of `pactl` calls it is: `BeginSwitch`,
`LoadVirtual`, `Choose`, `SetDefault`, `ListStreams`, a `MoveStream` for each stream
that was listed, `Moved`, then the restart of the capture with `FindSource` and
`StartAudio`. Between any two, applications play and fall silent, devices are
unplugged and other switches run. Any `pactl` may fail or time out: where the code
returns the error the switch ends there (`GiveUp`); where it goes on,
`move_sink_inputs`, the list is empty or the stream stays where it is, and `left` keeps
the streams that were to be moved and were not. `FindSource` takes the source that the
environment fixes (`fixed`), or the default sink's monitor, or, when the default cannot
be read, the project's sink, which it loads, makes the default and moves the streams to
with the same actions under the hub's lock. Three things are excepted in `SoundIsHeard`:
streams in `left`; switches that ran at once (`crossed`), which may leave streams on the
sink of the one that moved them last; and everything after a device has gone or a switch
has failed half-way (`spoilt`), when nobody restarts the capture.

### Clipboard (`clipboard.rs`, `session.rs`)

Writes claim the X selection in a thread of their own (`Claim`, `Verify`) and only
then, under the lock, stop the owner before them (`Lock`, `Join`). A paste is a read,
a write and a write of what was read (`ReadFirst`, `BeginCopy`, `Pasted`,
`PasteFails`). Applications claim too (`AppClaims`). `excused` names the three ways
in which what was copied last is not on offer: *crossed*, two writes claimed in one
order and locked in the other, so that the second at the lock stops the only owner;
*overtaken*, a copy between a paste's read and its restoring write; *unread*, a
selection the read cannot represent, or a paste that breaks off.

### StreamParsers (`annexb.rs`, `audio.rs`, `rtc.rs`)

Each parser as a function of its buffer: `PushAnnexB` (H.264 and H.265), `PushIvf`,
`PushAdts`, `PushOgg`, and what becomes of their frames on the way to a media track
(`MediaPayload`, `AvccToAnnexB`). `ReadPipe` gives the next bytes, any number of them,
so that TLC tries every way to cut a stream. `Meant` says from the stream's parts what
should come out. `torn` marks reads that end where the parser cannot help it: inside
an ADTS sync word, which is cleared with the buffer, and inside a parameter set, of
which an access unit that is complete before the next read is described by a part
(and the first bytes alone make `description_b64` index past the end).

`StreamsAssumption` says what an encoder writes: units in which no start code occurs
(`Units`, the emulation prevention of H.264 and H.265); H.264 with one SPS and one PPS,
which may come again, behind the first delimiter (`HasSets`); payloads of IVF that are
not empty. Of H.265 it says what `media_video_payload` rests on (`HasHeaders`):
`avcc_to_annex_b` gets samples with start codes and leaves them alone only because they
do not parse as lengths, which is so where the first start code is a long one, the
second byte of the header behind it is not 0 (the syntax wants a temporal id above 0
there), and the access unit is shorter than 16 MiB.

### AuthTracker (`app.rs`)

A request reads the clock (`Ask`) and waits for the lock; then it is `TurnedAway`,
`Right` or `Wrong`. `wrong` keeps the times of the last wrong passwords in a row, so
that `GuessesAreSlow` can say what the lockout is for.

### Launcher (`launcher/`)

`run` goes through the services in order: `PassOver`, `ProbeHost`, `NoSuchPlace`, then
`StartPrivate`, `BecomesReady` or `NeverReady`, then `StartDesktop`, `StartServer`, and
the watch (`EnsureAlive`, `SeeStop`). `Terminate`, `Poll`, `Deadline` and `Kill` are
`Drop for Processes`. A child is a process group: its `leader`, reaped or not, and
`helpers`, which SIGTERM may not impress. The kernel may use the number of a
group that is gone for another's (`Recycle`).

`MC...` modules give the constants' functions their values for TLC. `MCConnections`,
`MCDesktop` and `MCViewer` put several small modules beside each other: the parts share
no state, so a behaviour of the run is one of one part, and the others stand still
in a state in which no fair action of theirs is enabled (or their fairness is asked
for only where they move).

Operators that begin with the comment "Slip:" are not part of a specification.
Each is the mutated form of the operator below it, and the properties are shown
to notice it.

## 3. The runs

| run | instance | distinct states | shows |
|---|---|---|---|
| `hub_video` | 3 viewers, 1 operator, server shutdown, 4 processes, 2 settings with fallback; symmetric | 109 thousand | `Accounting`, `NoOrphanCapture`, `ExplicitSettingsStay`, and that it implements `SharedCapture` |
| `hub_audio_live` | 2 viewers, 1 operator that may restart, 3 processes; fairness | 165 thousand | `AcquireEnds`, `RemovedCaptureStops` |
| `hub_one_capture` | 2 viewers | violation | two ffmpeg capture at once (finding 1) |
| `input_shared` | a combined and an input session, a plain key, a modifier, a key whose events fail in one of them | 4.5 million | `HeldIsClaimed`, `CleanEndHoldsNothing` |
| `input_broken` | one input session | violation | a broken transport leaves a key down (finding 2; keys only, no buttons) |
| `video_path` | each transport, two captures, groups of 2 frames | 6.7 million | `NoGap`, `FreshestFirst`, `DecodesChain` |
| `viewer_live` | the two transports with a queue; or two browsers, three encoders of which one does not start, three connections at a time, one change or loss; fairness | 276 thousand | `QueueDrains`, `WriterEnds`, `Settles` |
| `connections` | a combined input session with a left and a right modifier; one client with three connections and a second; a peer with and without an audio track; a launcher with every outcome of its probes; fairness | 78 thousand | `LoneSessionKnows`, `CountsAreConnections`, `LeasesAreReached`, `WordKept`, `ServerIsServed`, `NothingLeftBehind`, `SilentKeysReleased`, `SessionEnds`, `ClosedConnectionsEnd`, `PeerEnds`, `ChannelFound`, `LauncherEnds` |
| `desktop` | three camera sessions; a wheel with two units and four events; two microphones; two switches; two copies, a paste and an application; five streams; three callers; fairness of the camera | 905 thousand | `DesktopTypeOK`, `OneWriter`, `RelayIsMinded`, `WheelIsAwake`, `StepsFollowWheel`, `MicStreamsApart`, `MicIsMinded`, `SoundIsHeard`, `CutsDoNotMatter`, `SetsAreWhole`, `GuessesAreSlow`, `LastCopyIsOffered`, `SilentSessionEnds`, `PlaceholderReturns` |
| `rtc_audio` | inbound queue of 1; fairness | violation | a session that never ends (finding 3) |
| `launcher_groups` | as `connections` | violation | a signal to another's group (finding 4) |
| `settings_lost` | one browser, a session for each medium, two encoders that work | violation | a change that takes itself back (finding 5) |

Deadlock is checked in the three hub runs and in `video_path`. The other runs switch it off because
what they model may be over: a session is used once, a launcher ends, a peer
connection that is over has nothing left to do, a bounded number of events is used up.

Bounds, and why they are enough:

* *Hubs.* Three viewers give a newcomer, a holder and one whose release is on
  its way at once; the operator and the server add the other two kinds of lock
  holder. Four processes are one per possible victim plus the current one, so a
  start is never blocked by a lack of identities where it matters. Two settings
  make "wanted", "running" and "fallback" differ.
* *Input.* Two sessions and one key are what a conflict takes. Left and right
  of a modifier are checked with one session, where their order matters. The key
  whose events fail is pressed in one of the two sessions only (the constraint
  `OthersPressMapped`); the run of the combined session alone has one as well.
* *Registry.* Two connections in one role are a client and its reconnection; a
  third channel would let an entry be made anew while old leases hold the first two,
  which a second already shows.
* *Video.* `Gop = 2` and `MaxFrames = 3` frames of each capture give a group
  boundary before and after a lost frame; the ring and the channel hold one frame,
  the queue a group, so that each fills and overflows, and `Wire = 2` lets a data
  channel reorder. The viewer comes when the first capture has read `Join = 2`
  frames and `SeqSpace = 4`, so the numbers wrap under its eyes.
  `PathAssumption` states what the code's numbers guarantee: a group of pictures
  has at most 240 frames (60 frames a second, 4 s) and the queue holds 300.
  `MaxFrames < SeqSpace` excludes a viewer that stays for 2^32 frames of one
  capture. A frame's place in its group, `nth`, is written down so that the length
  of a group can be reasoned about; of it the code sees only whether it is the
  first.
* *Peer.* An inbound queue of two holds a message and a close; the type invariant bounds
  everything else without a constant.
* *Settings.* One browser that looks and one that comes with other settings are the
  least that can disagree. `MaxConns = 3` lets an old connection of each linger while
  one of them has come again. `MaxInbox = 1` bounds the hellos in one socket (a session
  tells again what it could not tell). `MaxEvents = 1`: one change or one loss at any
  moment. Three encoders are what runs, what is picked and what does not start.
* *Launcher.* Each place may answer or not; the display and the session bus are looked
  for, the audio service is switched off, which is the same code again. One group has
  members besides its leader.
* *Camera.* Three sessions are one that is silent, one that takes the camera over
  and one that comes after; three commands hold chunks of two and a stop. The code
  does not bound this queue, so `MaxQueue` is of the model only.
* *Wheel.* A queue of two overflows; an event of 95 tenths makes clicks and a rest, one
  of 40 at double speed none, and one without a mode is taken as it is.
* *Microphone.* Two recordings of two chunks, two sessions of the two kinds, three
  processes: one that is being waited for, one that was let go, one in use.
* *Audio, clipboard.* Two switches or copies are what can cross; a paste and an
  application come between.
* *Parsers.* Each stream has what its parser tells apart: units with long and short
  start codes, an access unit without a picture, new parameter sets, an empty
  payload, a payload that looks like a header, a packet laced over two segments. Reads
  of every length at every place.
* *Passwords.* `Tries = 3`: the twenty of the code, three callers to overtake each
  other around the lock, and a clock of five ticks with a lockout of two.

Fairness. Weak fairness stands for "the runtime polls a task that can go on",
"a process that was sent SIGKILL exits" and "a timer fires". Strong fairness is
used where `select!` picks at random among ready branches (or, in `CameraRelay`, for
a device that is there every now and then): the shutdown branch
of a receiver (`Cleanup`) and of the two waiters (`HearShutdown`, `FeedHears`). In
`SettingsSync` it is asked for `Connects` only because the model's connections are
bounded: a page always may connect. `LauncherFairness` is that of the launcher's one
thread, `RtcFairness` is asked for only where the peer moves.
There is none for people (connecting, sending, changing settings, playing music), for
failures, for a healthy ffmpeg's exit, for changes of the ICE state (the comment at
`CTRL_IDLE_TIMEOUT` calls them unreliable), or for a Close frame to a client
that takes nothing: `send_server_close` waits for room, so `SessionEnds` and
`ClosedConnectionsEnd` except silent clients. Nor is there any for a reply to a silent
client (`Reply`): its receiver may wait for room for ever, deaf to its own watchdog, and
`SilentKeysReleased` excepts that receiver. What a handler awaits of the server itself
(`Resume`) is taken to end, with or without success.

## 4. What the checks found

1. *Two captures at once* (`hub_one_capture`, `media.rs:307`). The README
   promises one shared pipeline. `release` unlocks before it kills, so a viewer
   who connects in between starts a second ffmpeg beside the first, and both
   write to one broadcast channel. `RemovedCaptureStops` shows that it ends.
2. *Keys stay down* (`input_broken`, `session.rs:440`). The test
   `tests/input_disconnect_qa.py` says that a broken transport must not leave a
   key held. On control and input sockets, a writer that notices the broken
   transport first leads to signal and abort in one breath, and the clean-up of
   the receiver does not run; an aborted receiver has no watchdog either. The run has
   no buttons, so that what it shows is a key; a pointer button that is held stays down
   by the same steps.
3. *A session that never ends* (`rtc_audio`, `rtc.rs:735`). One `notify_one` is
   shared by the session and the audio track's task. When the watchdog speaks
   while the session is in a handler or between two polls, the audio task may
   take the word. The window is narrow: a session that has been waiting stands
   in front of the audio task, which waits anew for every read. Without an audio
   track the word cannot be lost (`WordKept`, `PeerEnds`).
4. *A signal to a stranger* (`launcher_groups`, `launcher/process.rs:76`).
   `doc/portable.md` says that only owned process groups are terminated.
   `ensure_alive` reaps a child that has exited and ends the launcher, whose `Drop`
   sends SIGTERM to the group of every child it ever had. If the group was empty its
   number may be another's by then.
5. *A change that takes itself back* (`settings_lost`, `app.js:3461`). Except over
   WebRTC with media tracks, the control session of a page that reconnects with new
   settings tells at once what runs, which is still the old capture. When the sockets
   are open the page forgets what it waits for; if it handles that hello afterwards it
   takes the old settings for somebody else's change and reconnects with them. With
   sessions for each medium nor do the pages settle in general, which is why `Settles`
   is checked for a combined session.

Disagreements that are excepted in a property and have no run of their own:

* A session that takes the camera over from a silent one, and stops before the worker
  has taken its first chunk, removes that chunk and names only itself in its stop
  (`camera.rs:123-141`). The silent session's relay goes on, nobody owns it, and no
  expiry will find it: the placeholder does not return until somebody sends a chunk.
  The README promises a placeholder "while no browser camera is active" (line 71).
  `abandoned` marks these behaviours in `RelayIsMinded` and `PlaceholderReturns`,
  both of which fail without it.
* Two clipboard writes that cross leave no owner, and what was copied last cannot be
  pasted (`crossed` in `Clipboard`).
* Two audio switches that cross leave streams on a sink that is not captured
  (`crossed` in `AudioDevices`).
* An audio switch reports success although PulseAudio gave it no list of the streams, or
  did not move some of them (`ffmpeg.rs:1547-1554`): they play on to a sink that is not
  captured (`left` in `AudioDevices`).
* A client that vanishes while its receiver waits for room for a reply keeps its keys
  down until the transport breaks: `KEY_STATE_TIMEOUT` is looked at in the loop that
  waits (`session.rs:1043`, 1313; `SilentKeysReleased`).
* A read that ends in an ADTS sync word loses a frame (`torn` in `StreamParsers`).
* An encoder that does not start stays on the page that picked it, when another page
  has taken over the fallback and asked for it before the first has heard: the hello
  no longer comes with force (`Settles`). Two browsers and a change of video and audio
  at once may end with neither as it was picked, and a change while a page connects
  waits for the next one (see "hazards").

## 5. What is proved

TLAPS checks the theorems of the `..._proofs` modules for every value of the
constants that satisfies the named assumptions of the modules
(`HubAssumption`, `InputAssumption`, `RegistryAssumption`, `PathAssumption`,
`NoneAssumption`, `RtcAssumption`, `LauncherAssumption`, `CameraAssumption`,
`MicAssumption`, `WheelAssumption`, `AudioAssumption`, `ClipboardAssumption`,
`AuthAssumption`, `SyncAssumption`, `StreamsAssumption`). Most say that identities differ (a task is not both a viewer and
an operator, "nobody" is not somebody) and that bounds are numbers; what else one asks
for is told below. `Connections_proofs` is about all parts of `MCConnections`
(`InputSession`, `Launcher`, `ClientRegistry`, `RtcPeer`), each alone and then together,
`Uplink_proofs` about what a browser sends (`CameraRelay`, `MicInput`),
`StreamParsers_proofs` and `AnnexB_proofs` about `StreamParsers`, and `Desktop_proofs`
about the other parts of `MCDesktop` (`WheelQueue`, `AudioDevices`, `Clipboard`,
`AuthTracker`) and about all seven together.

*CaptureHub* (`HubAssumption`: finitely many viewers; viewers, operators and the
server are different tasks). The invariants are proved in layers, each inductive
given those before it. First `TypeOK` with `LockHeld`: whoever is inside
`ensure_active` is at the head of the line, hence alone; nothing else can be
proved without it, since two tasks inside would each think the capture theirs
(`TypeCorrect`). Then `CaptureMatchesCount` (`PublishedIsCapture`), then
`Accounting` (`CountIsExact`), which needs that a count that fails to start is
above zero, and cardinality lemmas: a task that enters or leaves `Counted`
changes it by one. From these `NoCaptureForNobody`, and `NoOrphanCapture`
(`NoCaptureForgotten`), where an aborted `ensure_active` is the hard case. The
action properties `LeasesComeWithCapture`, `ChosenSettingsStay` and
`CaptureIsKept` follow from the invariants, and so does `HubKeepsPromise`: every
step of the hub is a step of `SharedCapture` or leaves it alone.

*InputSession* (`InputAssumption`). `IInv` is `TypeOK`, `HeldIsClaimed` and three
strengthenings. `Shape` says what a receiver can have planned and pressed in
each stage: a stopped or cleaning one has no pressed keys, a cleaning one only
releases, a working one has no key pressed that cannot be released.
`ButtonsHaveOwner` says that for every button that is down there is a receiver
whose clean-up has not begun, or that was aborted. `LonePressedIsDown` is the
other half of `LoneSessionKnows`. Every message is an operation that begins with
a plan that has this shape (`OperationsBegin`), so that the step proof need not
look into each kind of message. From `IInv`: `InputTypeCorrect`,
`NoKeyForgotten`, `NothingHeldAtTheEnd`, `LoneSessionIsRight`.

*ClientRegistry* (`RegistryAssumption`). `CountsAreConnections` and
`LeasesAreReached` are inductive together with `TypeOK`: a lease's entry stays
because the counts still hold the lease, and a new entry may begin with a count
of one because nobody of that client was left. (`RegistryTypeCorrect`,
`CountsAreExact`, `EveryLeaseIsReached`.)

*VideoPath* (`PathAssumption`, `NoneAssumption`; any transports, captures and sizes
of the buffers). `TypeOK` is inductive with `KeyFirst`, that the queue has a
keyframe at its front or nowhere (`PathTypeCorrect`); the lemma `Pushed` says what
`push` makes of such a queue. `NoLostWakeup` is inductive given these
(`NoWakeupIsLost`). `DecodesChain` rests on `DecoderKnows`, that a decoder that
waits for nothing has the number of the frame it was given last, and on the lemma
`Successor`: numbers modulo `SeqSpace` tell frames apart that are less than
`SeqSpace` apart (`DecoderIsFedInOrder`). `NoGap` is about the head of the wire only
and nowhere near inductive. Its strengthening `Chain` says for each place on the
way which frame may come next behind one that has passed it: the head of the
nearest place upstream that is not empty, or what the reader will number next. A
step moves a frame from one place to the next, and the lemmas `AfterRing` to
`AfterWriter` carry the rest of the chain along. In an undisturbed queue the i-th
frame is at least the i-th of its group of pictures, hence the queue, which has
room for a group, never drops one (`OneGroup`). `NothingIsMissing` and
`QueueIsFresh` follow.

*RtcPeer* (`RtcAssumption`). `WordKept` is inductive together with `TypeOK` and two
facts about the Notify: `Orderly`, who was woken has left the line, and `Waiting`,
who is in the line or was woken is a task that awaits the word. The lemmas
`NotifyOneSpeaks`, `DropPassesOn` and `HearsOrWaits` say what each operation of the
Notify does to its members. (`PeerTypeCorrect`, `WatchdogsWordIsKept`.)

*Launcher* (any modes the user may choose, any groups with other members). Two
arguments, one for each half of `run`. `Settling` says of every place in it which
services are settled, that is, will be looked for where something has answered; a
probe that fails may only spoil the entry of the service it is about. `Started` and
`Passed` say what Drop has behind it: every group of which something is left belongs to
a child in `children`; those the first pass has gone by were told, and those the second
has gone by are reaped. Exits in between only make the groups smaller
(`StandingStill`). That its numbers keep their bounds is an invariant of its own
(`Few`: how many children there are at each place of `run` and Drop), which
`LauncherTypeCorrect` needs. (`ServedByAnswers`, `LeavesNothing`.)

*The connections' parts together* (`ConnectionsSpec` of `MCConnections`).
`ConnectionsAreSound` says of every instance what the run `connections` checks of one,
but for what is about fairness: the six safety properties of the sessions, the registry,
the peer and the launcher, from `ConnectionsInv`, the conjunction of their invariants.

*SettingsSync* (`SyncAssumption`: the CPU's encoder starts, and what does not start is a
video encoder). `SyncShape` adds to the type that a page has a connection of its own
while it does not wait (`Linked`), that who holds a lease sees to it that there is a
capture (`Held`), and that nobody tells anything to sockets that are gone (`CutIsDeaf`);
`SyncTypeCorrect` follows. `PickedRuns` is the safety half of `Settles`, `LastPickRuns`
and `LastPickShown`, for a session that has all media and users who change one medium
at a time while the other runs as it was asked to (`OneChange`, of the steps; an instance
where the other medium has one value only, like the run's, fulfils it by itself). None
of it is near inductive. `Follows` says where a
change is: on its way from its page to its hub, when only that page moves (`Starts`), or
arrived, when nothing runs, is in a hello, is asked for or is about to be asked for but
what was picked or its fallback (`Spread`), and whoever shows something else still
listens and is about to be told (`Learns`). That a page listens rests on `Pending`: what
it waits for is what it shows; that all hellos speak of both media on `Whole`. A pick
that changes both media breaks `Starts`, and a medium with a session of its own breaks
`Whole`: the two ways in which a change is lost (section 4).

*CameraRelay* (any sessions, any commands, a queue of any size). `CameraInv` says of
each place of the worker what it has in hand (`HandFits`) and what runs (`RunsFit`:
never the placeholder beside a relay, which is `DeviceHasOneWriter`), and that a worker
that goes to wait for long leaves nothing behind in the queue but what a permit tells
of (`NothingMissed`). `RelaysAreMinded` takes `RelayIsMinded`, which is about
everything before the worker (the relay, the command in hand, the queue), apart into
these three (`Remains`): what comes behind only matters by what it leaves
(`LeavesAppend`), and `stop` sorts out of the queue in the order in which it was there
(`EachRankIsTaken`, `OthersAreCommands`, which rest on the finiteness of the queue). An
expired relay is the case that needs `NothingMissed`: the queue was empty.

*MicInput* (any sessions and injectors, recordings of any length). `ReceiverKnows` says
for each await of a receiver what its injector has been given: as many chunks of the
recording as the browser has sent, or one less while it writes. That this stays true
while others write follows from `InHands`: an injector whose input is open is held by
the session that started it, and by no other. `Alone` says that a receiver that goes on
has let go of no living injector, which holds since it waits for the exit first.
(`RecordingsStayApart`, `InjectorsAreMinded`, `MicTypeCorrect`.)

*WheelQueue* (any events, modes and queue sizes). `DesktopFollowsWheel` is arithmetic:
how far the wheel was turned and what the desktop was sent in a gesture differ by what
is left over, which is less than a step, and are on one side (`Follows`), through
truncation, the borrowed first click and the reversal (`AccumulateFollows`, over
`WholeIs` and `DistanceIs`). That the queue keeps its bound is the lemma `RoomIsLeft`.
`WorkerIsAwake` is inductive with `Wakes`: a submitter that is gone has stopped the
thread.

*AudioDevices* (any sinks, applications and switches; any request to PulseAudio may
fail). `AudioInv` carries the hub's lock, whose holder has a source or makes one
(`HubHeld`), what is captured (`Captured`: what is to be captured, or a switch that has
set the default has yet to restart; and a restart's source is that, unless it is
`Outrun` by another switch, which will restart in turn) and, while nothing crossed, that
one switch at a time moves everything that plays, and that PulseAudio moves, towards the
sink it has made the default (`MovesOn`). A switch that gives up before the default
changes none of it, and one that gives up later has spoilt it. `CaptureFollowsSound`
follows, with the three exceptions of `SoundIsHeard` and no other.

*Clipboard* (any copies, pastes and applications; a writer is not both). `Claimants`
keeps the stages of the writers apart from the claims they have made. `LastHolds` says
that the selection's owner is the last that claimed and was not told to stop, and
`Restores` that a paste, which is alone while nothing is excused, has read what was
copied last and gives it back. (`ClipboardTypeCorrect`, `LastCopyStays`.)

*AuthTracker* (`AuthAssumption`). The counter and the lock say how far back in the notes
the last pause lies (`Since`): as many wrong passwords ago as were counted, or `Tries`
while the lock is there. `PauseBefore` says that the two notes there are a lockout apart,
and `LockedByLast` that the lock was set by the last one. (`AuthTypeCorrect`,
`GuessingIsSlow`.)

*StreamParsers* (`StreamsAssumption`: any streams of any length, any payloads, any reads).
The parsers are functions of a buffer that go from frame to frame, so what they return
is an induction over data. The library's induction theorems take an operator and
cannot be used here; `LeastOf`, a set of numbers that is not empty has a least one, can,
and from it `Induction` follows, about a set of numbers in place of a predicate. All
recursion is over such sets: the functions `Taken`, `UpTo` and `FlattenSeq` are shown to
exist and to unfold (`TakenUnfolds`, `UpToAdds`, `FlattenUnfolds`), and `TakenAlong` says
of whoever takes frame after frame from the front that it takes k of them when each
begins where the one before it ends.

`ParserInv` is the invariant. For the three that take from the front it is `KeptUp`: there
is a k such that the first k parts are those that have been read to their ends (`AreRead`),
what is returned is what is meant by these, and the buffer is what was read of the rest
(`Unused`). A read adds to the unused bytes, and `PartsTaken` with `IvfStream`,
`AdtsStream` and `OggStream` (what each finds where a part begins, and where a part is
cut) says that the parser then takes the parts up to the next k; `IvfTakes`, `AdtsTakes`
and `OggTakes` put that into words of the parser. For Ogg, `PacketsAre` inverts the laces,
and `HeadersSkipped` and `FilledJoins` say that leaving out headers and empty packets
read by read is leaving them out of the whole. ADTS needs `Together`, that no sync
word is torn.

AnnexBParser looks at its whole buffer each time. `CodesInCut` and `StartCodesAre`: a
start code is found exactly where a unit begins, in any cut of the stream, which rests on
`Units` and on the four bytes that a start code needs to be seen. Hence `HeardAre`: the
delimiters, pictures and parameter sets that `push` finds are those of the stream whose
types have been read. `SlicedIs` and `AccessIs`: what it cuts out between two delimiters
is an access unit; `PrefixedIs`, `MediaOfH264` and `TrackIs`: what becomes of it is what is
meant, for viewers and for a media track. `PushKeeps` is the step: the buffer begins with
the last delimiter that was heard (`FollowedIs`), and what is returned is the pictures before it. That
this is the same however often `push` was called is `TogetherAre`: pictures in front of
one delimiter and from there on are the pictures of both. For `SetsAreWhole`, `SetsKeep`
says that the sets seen last are the stream's, for the first two units are sets, and a set
that is in the buffer is followed by a start code when no read tore it (`NotTorn`). (`ParserInvHolds`, `CutsDoNotMatterHolds`, `SetsAreWholeHolds`.)

*The desktop's parts together* (`DesktopSpec` of `MCDesktop`). `DesktopInv` is the
conjunction of the parts' invariants. The parts share no variable, so a step of one
leaves the others' invariants to their stuttering steps. `DesktopTypeCorrect` and
`DesktopIsSound` say of every instance what the run `desktop` checks of one: the type
invariant, and the safety properties of all seven parts.

Only proved, no longer run: `TypeOK` of the modules with proofs, `CaptureMatchesCount`,
`CaptureKept`, `LeaseHasCapture` and `NoLostWakeup`, which the invariants above rest on
and `KeepsSharedCapture` and `QueueDrains` would notice.

Only model-checked: everything under fairness, and `ENABLED`, which are out of this
prover's reach (`AcquireEnds`, `RemovedCaptureStops`, `SilentKeysReleased`, `SessionEnds`,
`QueueDrains`, `WriterEnds`, `Settles`, `ClosedConnectionsEnd`, `PeerEnds`,
`ChannelFound`, `LauncherEnds`, `SilentSessionEnds`, `PlaceholderReturns`; of `Settles`
that it gets quiet); and the properties that are violated, of course. Every invariant that
a passing run checks is a theorem.

## 6. What is not modelled, and the plan

The plan, in this order:

1. `DecoderSetup`: two hellos in flight through the awaits of `setupDecoder`;
   hellos and fragments added to `VideoPath`.
2. `MediaHub`: two hubs under one `update_stream_settings`, the first of which
   may fail; and sessions over hubs (`wait_for_role_tasks`).
3. Pointer batching and the worker of the browser's wheel queue.

Not planned: HTTP routes, uploads, SDP and TLS set-up, ffmpeg's arguments and the
choice of an encoder (tables and probes), value ranges of settings, the clipboard's
history file, /proc statistics and the browser's user interface. They are
I/O, layout or pure conversions, and what the modelled parts see of them is
nondeterminism.
