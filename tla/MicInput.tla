------------------------------ MODULE MicInput ------------------------------
(***************************************************************************)
(* The microphone of a session (src/src/session.rs): chunks of WebM that    *)
(* the browser records are written to an ffmpeg of the session's own, which *)
(* plays them into the virtual microphone.  Each browser recording is a     *)
(* stream with an id of its own, and each stream gets a new ffmpeg.         *)
(* A receiver may be dropped at any of its awaits.  A dropped handle closes *)
(* the ffmpeg's input; unlike the captures, it does not kill it.            *)
(***************************************************************************)
EXTENDS Naturals, Sequences, FiniteSets

CONSTANTS
  Uplinks,     \* sessions that may send a microphone
  MicSockets,  \* those on a socket of their own: handle_mic_client
  Injectors,   \* identities of ffmpeg processes
  MaxStream,   \* bound of the model: recordings a browser begins
  MaxChunk     \* bound of the model: chunks of a recording

ASSUME MicAssumption ==
  /\ Uplinks # {} /\ MicSockets \subseteq Uplinks /\ IsFiniteSet(Injectors)
  /\ MaxStream \in Nat /\ MaxChunk \in Nat \ {0}

VARIABLES
  mic,     \* MicInputState of each session: idle, active or failed
  micAt,   \* the await its receiver is in, or receive, over
  chunk,   \* the last chunk the browser sent: [stream, n]
  held,    \* the handle of each session: none or one injector
  life,    \* each injector: none, running, killed, dead
  input,   \* whether its stdin is open
  owner,   \* the session that started it
  fed      \* what it was given, in order

micVars == <<mic, micAt, chunk, held, life, input, owner, fed>>

Receiving == {"receive"}
Awaits    == {"starting", "writing", "switching", "failing", "ending"}

-----------------------------------------------------------------------------
(* forward_client_binary. *)

MicAt(s, p)  == micAt[s] = p
MicGo(s, p)  == micAt' = [micAt EXCEPT ![s] = p]
Injector(s)  == CHOOSE p \in held[s] : TRUE

\* child.kill(): the signal is sent at once, then the exit is awaited.
Killed(s) == life' = [p \in Injectors |-> IF p \in held[s] /\ life[p] = "running" THEN "killed" ELSE life[p]]
Exited(s) == \A p \in held[s] : life[p] = "dead"
\* The handle is dropped.
LetGo(s) ==
  /\ held' = [held EXCEPT ![s] = {}]
  /\ input' = [p \in Injectors |-> input[p] /\ p \notin held[s]]

\* What the browser sends next, in order and without loss: more of the recording,
\* or the beginning of another.
NextChunks(s) ==
  LET c == chunk[s]
  IN  (IF c.n < MaxChunk /\ c.stream > 0 THEN {[c EXCEPT !.n = @ + 1]} ELSE {})
      \cup (IF c.stream < MaxStream THEN {[stream |-> c.stream + 1, n |-> 1]} ELSE {})

MicChunk(s) ==
  /\ MicAt(s, "receive")
  /\ \E c \in NextChunks(s) :
       /\ chunk' = [chunk EXCEPT ![s] = c]
       /\ CASE mic[s] = "failed" -> UNCHANGED <<micAt, life>>
            [] mic[s] = "idle"   -> MicGo(s, "starting") /\ UNCHANGED life
            [] mic[s] = "active" /\ c.stream = chunk[s].stream -> MicGo(s, "writing") /\ UNCHANGED life
            [] OTHER             -> MicGo(s, "switching") /\ Killed(s)
  /\ UNCHANGED <<mic, held, input, owner, fed>>

\* The old stream's ffmpeg is gone.
MicSwitched(s) ==
  /\ MicAt(s, "switching") /\ Exited(s)
  /\ LetGo(s)
  /\ mic' = [mic EXCEPT ![s] = "idle"]
  /\ MicGo(s, "starting")
  /\ UNCHANGED <<chunk, life, owner, fed>>

\* spawn_mic_input_injector, the virtual source first.
MicStarts(s) ==
  /\ MicAt(s, "starting")
  /\ \E p \in Injectors :
       /\ life[p] = "none"
       /\ life' = [life EXCEPT ![p] = "running"]
       /\ input' = [input EXCEPT ![p] = TRUE]
       /\ owner' = [owner EXCEPT ![p] = s]
       /\ held' = [held EXCEPT ![s] = {p}]
  /\ MicGo(s, "writing")
  /\ UNCHANGED <<mic, chunk, fed>>

MicStartFails(s) ==
  /\ MicAt(s, "starting")
  /\ mic' = [mic EXCEPT ![s] = "failed"]
  /\ MicGo(s, "failing")
  /\ UNCHANGED <<chunk, held, life, input, owner, fed>>

\* write_all.
MicWrites(s) ==
  /\ MicAt(s, "writing") /\ life[Injector(s)] = "running"
  /\ fed' = [fed EXCEPT ![Injector(s)] = Append(@, chunk[s])]
  /\ mic' = [mic EXCEPT ![s] = "active"]
  /\ MicGo(s, "receive")
  /\ UNCHANGED <<chunk, held, life, input, owner>>

\* The ffmpeg is gone: the browser is told, which may wait for room in the queue.
MicWriteFails(s) ==
  /\ MicAt(s, "writing") /\ life[Injector(s)] # "running"
  /\ mic' = [mic EXCEPT ![s] = "failed"]
  /\ MicGo(s, "failing")
  /\ UNCHANGED <<chunk, held, life, input, owner, fed>>

\* Slip: the next chunk may try again.
MicFailedOnce(s) ==
  /\ MicAt(s, "failing") /\ Exited(s)
  /\ LetGo(s)
  /\ mic' = [mic EXCEPT ![s] = "idle"]
  /\ MicGo(s, "receive")
  /\ UNCHANGED <<chunk, life, owner, fed>>

\* shutdown_mic_child, of an ffmpeg that no longer takes anything; from here on the
\* session's chunks are ignored.
MicFailed(s) ==
  /\ MicAt(s, "failing") /\ Exited(s)
  /\ LetGo(s)
  /\ MicGo(s, "receive")
  /\ UNCHANGED <<mic, chunk, life, owner, fed>>

-----------------------------------------------------------------------------
(* The end of a session. *)

\* shutdown_mic_input: at a Close, the end of the stream, or the server's word.
MicEnds(s) ==
  /\ MicAt(s, "receive")
  /\ Killed(s)
  /\ MicGo(s, "ending")
  /\ UNCHANGED <<mic, chunk, held, input, owner, fed>>

MicEnded(s) ==
  /\ MicAt(s, "ending") /\ Exited(s)
  /\ LetGo(s)
  /\ mic' = [mic EXCEPT ![s] = "idle"]
  /\ MicGo(s, "over")
  /\ UNCHANGED <<chunk, life, owner, fed>>

\* An error from the transport: handle_client goes to its end all the same,
\* handle_mic_client returns.
MicBreaks(s) ==
  /\ MicAt(s, "receive")
  /\ IF s \in MicSockets
     THEN MicGo(s, "over") /\ LetGo(s) /\ UNCHANGED life
     ELSE MicGo(s, "ending") /\ Killed(s) /\ UNCHANGED <<held, input>>
  /\ UNCHANGED <<mic, chunk, owner, fed>>

\* Slip: the input stays open.
MicAbortedOpen(s) ==
  /\ micAt[s] \in Receiving \cup Awaits
  /\ held' = [held EXCEPT ![s] = {}]
  /\ MicGo(s, "over")
  /\ UNCHANGED <<mic, chunk, life, input, owner, fed>>

\* The supervisor aborts the receiver, at whatever await it is in.
MicAborted(s) ==
  /\ micAt[s] \in Receiving \cup Awaits
  /\ LetGo(s)
  /\ MicGo(s, "over")
  /\ UNCHANGED <<mic, chunk, life, owner, fed>>

\* Killed, at the end of its input, or by itself.
InjectorExits(p) ==
  /\ life[p] \in {"running", "killed"}
  /\ life' = [life EXCEPT ![p] = "dead"]
  /\ UNCHANGED <<mic, micAt, chunk, held, input, owner, fed>>

-----------------------------------------------------------------------------

MicInit ==
  /\ mic = [s \in Uplinks |-> "idle"]
  /\ micAt = [s \in Uplinks |-> "receive"]
  /\ chunk = [s \in Uplinks |-> [stream |-> 0, n |-> 0]]
  /\ held = [s \in Uplinks |-> {}]
  /\ life = [p \in Injectors |-> "none"]
  /\ input = [p \in Injectors |-> FALSE]
  /\ owner = [p \in Injectors |-> CHOOSE s \in Uplinks : TRUE]
  /\ fed = [p \in Injectors |-> <<>>]

MicNext ==
  \/ \E s \in Uplinks :
       \/ MicChunk(s) \/ MicSwitched(s) \/ MicStarts(s) \/ MicStartFails(s)
       \/ MicWrites(s) \/ MicWriteFails(s) \/ MicFailed(s)
       \/ MicEnds(s) \/ MicEnded(s) \/ MicBreaks(s) \/ MicAborted(s)
  \/ \E p \in Injectors : InjectorExits(p)

MicSpec == MicInit /\ [][MicNext]_micVars

-----------------------------------------------------------------------------
(* Properties. *)

\* The state has its shape.
MicTypeOK ==
  /\ mic \in [Uplinks -> {"idle", "active", "failed"}]
  /\ micAt \in [Uplinks -> Receiving \cup Awaits \cup {"over"}]
  /\ chunk \in [Uplinks -> [stream : 0..MaxStream, n : 0..MaxChunk]]
  /\ held \in [Uplinks -> {{}} \cup {{p} : p \in Injectors}]
  /\ life \in [Injectors -> {"none", "running", "killed", "dead"}]
  /\ input \in [Injectors -> BOOLEAN]
  /\ owner \in [Injectors -> Uplinks]
  /\ fed \in [Injectors -> Seq([stream : Nat, n : Nat])]

\* What an ffmpeg is given is one recording from its header on, with nothing missing
\* and nothing of another: through failures, changes of the stream and late exits.
MicStreamsApart ==
  \A p \in Injectors : \A i \in DOMAIN fed[p] :
    fed[p][i] = [stream |-> fed[p][1].stream, n |-> i]

\* A session has one living ffmpeg at most, for all its recordings, and one that
\* nobody has killed is in the session's hands or at the end of its input: none is
\* left that waits for more.
MicIsMinded ==
  /\ \A s \in Uplinks : Cardinality({p \in Injectors : owner[p] = s /\ life[p] \in {"running", "killed"}}) <= 1
  /\ \A p \in Injectors : life[p] = "running" => (p \in held[owner[p]] <=> input[p])
=============================================================================
