----------------------------- MODULE Uplink_proofs ----------------------------
(***************************************************************************)
(* What is proved of what browsers send into the host, camera and          *)
(* microphone: CameraRelay for any sessions and a queue of any length, and *)
(* MicInput for any sessions, any injectors and recordings of any length.  *)
(***************************************************************************)
EXTENDS CameraRelay, MicInput, FiniteSetTheorems, SequenceTheorems, TLAPS

-----------------------------------------------------------------------------
(* The camera: one writer.                                                 *)

\* The positions of a finite set of numbers, counted from below, are all the numbers
\* from one to its size, each once.
LEMMA EachRankIsTaken ==
  ASSUME NEW n \in Nat, NEW K \in SUBSET (1..n),
         NEW m \in 1..Cardinality(K)
  PROVE  \E i \in K : Cardinality({j \in K : j <= i}) = m
<1>0. \A j \in K : j \in Int
  OBVIOUS
<1> DEFINE Below(i) == {j \in K : j <= i}
           rank == [i \in K |-> Cardinality(Below(i))]
           N == 1..Cardinality(K)
<1>1. IsFiniteSet(1..n)
  BY FS_Interval
<1>2. IsFiniteSet(K) /\ Cardinality(K) \in Nat
  BY <1>1, FS_Subset, FS_CardinalityType
<1>3. \A i \in K : /\ IsFiniteSet(Below(i)) /\ i \in Below(i)
                   /\ Cardinality(Below(i)) \in N
  <2> TAKE i \in K
  <2>1. Below(i) \in SUBSET K /\ i \in Below(i)
    OBVIOUS
  <2>2. IsFiniteSet(Below(i)) /\ Cardinality(Below(i)) <= Cardinality(K)
    BY <1>2, <2>1, FS_Subset
  <2>3. Cardinality(Below(i)) \in Nat /\ (Cardinality(Below(i)) = 0 => Below(i) = {})
    BY <2>2, FS_CardinalityType, FS_EmptySet
  <2> HIDE DEF Below
  <2> QED
    BY <1>2, <2>1, <2>2, <2>3
<1>4. ASSUME NEW i \in K, NEW k \in K, i < k
      PROVE  rank[i] # rank[k]
  <2>1. Below(i) \in SUBSET Below(k) /\ k \in Below(k) /\ k \notin Below(i)
    <3>1. \A j \in K : (j <= i => j <= k) /\ (k <= k) /\ ~(k <= i)
      BY <1>0, <1>4
    <3> QED
      BY <3>1
  <2>2. IsFiniteSet(Below(k)) /\ Below(i) # Below(k)
    BY <1>3, <2>1
  <2> HIDE DEF Below
  <2>3. Cardinality(Below(k)) # Cardinality(Below(i))
    BY <2>1, <2>2, FS_Subset
  <2> QED
    BY <2>3
<1>5. rank \in [K -> N]
  BY <1>3
<1>6. rank \in Injection(K, N)
  <2>1. \A a, b \in K : rank[a] = rank[b] => a = b
    <3> SUFFICES ASSUME NEW a \in K, NEW b \in K, rank[a] = rank[b], a # b PROVE FALSE
      OBVIOUS
    <3>1. a < b \/ b < a
      OBVIOUS
    <3> HIDE DEF rank
    <3> QED
      BY <1>4, <3>1
  <2> HIDE DEF rank
  <2> QED
    BY <1>5, <2>1 DEF Injection, IsInjective
<1>7. IsFiniteSet(N) /\ Cardinality(N) = Cardinality(K)
  BY <1>2, FS_Interval
<1>8. rank \in Surjection(K, N)
  <2> HIDE DEF rank, N
  <2> QED
    BY <1>2, <1>6, <1>7, FS_Injection
<1>9. PICK i \in K : rank[i] = m
  <2> HIDE DEF rank
  <2> QED
    BY <1>8 DEF Surjection
<1> QED
  BY <1>9

\* What is retained of a queue is a queue, and no longer than it was.
LEMMA OthersAreCommands ==
  ASSUME NEW s, queue \in Seq(Commands)
  PROVE  /\ Others(s) \in Seq(Commands)
         /\ Len(Others(s)) <= Len(queue)
<1> DEFINE kept == {i \in DOMAIN queue : queue[i].session # s}
           Rank(i) == Cardinality({j \in kept : j <= i})
           At0(n) == CHOOSE i \in kept : Rank(i) = n
<1>1. kept \in SUBSET (1..Len(queue)) /\ Len(queue) \in Nat
  OBVIOUS
<1>2. Cardinality(kept) \in Nat /\ Cardinality(kept) <= Len(queue)
  <2> HIDE DEF kept
  <2>1. IsFiniteSet(1..Len(queue)) /\ Cardinality(1..Len(queue)) = Len(queue)
    BY <1>1, FS_Interval
  <2> QED
    BY <1>1, <2>1, FS_Subset, FS_CardinalityType
<1>3. ASSUME NEW n \in 1..Cardinality(kept)
      PROVE  queue[CHOOSE i \in kept : Rank(i) = n] \in Commands
  <2> HIDE DEF kept
  <2>1. \E i \in kept : Rank(i) = n
    BY <1>1, <1>3, EachRankIsTaken
  <2> HIDE DEF Rank
  <2>2. (CHOOSE i \in kept : Rank(i) = n) \in kept
    BY <2>1, Zenon
  <2>3. \A i \in 1..Len(queue) : queue[i] \in Commands
    OBVIOUS
  <2> QED
    BY <1>1, <2>2, <2>3
<1>4. Others(s) = [n \in 1..Cardinality(kept) |-> queue[CHOOSE i \in kept : Rank(i) = n]]
  BY DEF Others
<1> DEFINE F(n) == queue[CHOOSE i \in kept : Rank(i) = n]
<1> HIDE DEF kept, Rank
<1>5. \A n \in 1..Cardinality(kept) : F(n) \in Commands
  BY <1>3
<1>6. Others(s) = [n \in 1..Cardinality(kept) |-> F(n)]
  BY <1>4
<1> HIDE DEF F
<1> QED
  BY <1>2, <1>5, <1>6

-----------------------------------------------------------------------------
\* The worker's command, its relay and the two processes, by where the worker is.
CameraShape ==
  /\ queue \in Seq(Commands) /\ active \in Sessions \cup {None}
  /\ stale \in BOOLEAN /\ permit \in BOOLEAN /\ abandoned \in BOOLEAN
  /\ worker \in [at : {"top", "placing", "next", "waiting", "woken", "expire", "command",
                       "feeding", "ending", "spawn", "write"}, try : 1..2]
  /\ hand \in Commands \cup {None} /\ relay \in Sessions \cup {None}
  /\ ffmpeg \in {"none", "running", "eof", "dead"}
  /\ placeholder \in {"none", "running", "dead"}

\* A queue that has no room for a chunk may still take a stop, and only then is
\* nobody active.
QueueBound == Len(queue) <= MaxQueue + 1 /\ (active # None => Len(queue) <= MaxQueue)

\* What the worker has in its hand.
HandFits ==
  /\ worker.at = "command" => hand \in Commands
  /\ worker.at \in {"feeding", "spawn", "write"} => hand \in Commands /\ hand.kind = "chunk"
  /\ worker.at = "ending" => hand = None \/ hand.kind = "chunk"
  /\ worker.at \notin {"command", "feeding", "ending", "spawn", "write"} => hand = None

\* What runs.
RunsFit ==
  /\ worker.at \in {"placing", "ending", "spawn"} => relay = None
  /\ worker.at = "write" => relay = hand.session
  /\ relay = None /\ worker.at # "ending" => ffmpeg = "none"
  /\ relay # None => ffmpeg # "none"
  /\ worker.at \in {"feeding", "ending", "spawn", "write"} => placeholder # "running"
  /\ ffmpeg # "none" => placeholder # "running"

\* Before the worker waits for long, the queue is empty: a request that comes while
\* it goes to wait leaves a permit, and is an activity.
NothingMissed ==
  /\ worker.at = "waiting" /\ queue # <<>> => permit /\ ~stale
  /\ worker.at = "expire" /\ stale => queue = <<>>

\* What is proved together: each step needs the others.
CameraInv == CameraShape /\ QueueBound /\ HandFits /\ RunsFit /\ NothingMissed

LEMMA CommandHas ==
  \A c \in Commands : c.kind \in {"chunk", "stop"} /\ c.session \in Sessions
BY DEF Commands

\* What sessions put into the queue are commands.
LEMMA CommandsMade ==
  \A s \in Sessions : Chunk(s) \in Commands /\ StopOf(s) \in Commands
BY DEF Commands, Chunk, StopOf

\* The camera begins so.
LEMMA CameraInitIsGood == CameraInit => CameraInv
<1> SUFFICES ASSUME CameraInit PROVE CameraInv
  OBVIOUS
<1> USE DEF CameraInit
<1>1. CameraShape
  <2>1. <<>> \in Seq(Commands)
    OBVIOUS
  <2>2. worker \in [at : {"top"}, try : 1..2]
    OBVIOUS
  <2> QED
    BY <2>1, <2>2 DEF CameraShape
<1>2. QueueBound
  BY CameraAssumption DEF QueueBound
<1>3. HandFits /\ RunsFit /\ NothingMissed
  BY DEF HandFits, RunsFit, NothingMissed
<1> QED
  BY <1>1, <1>2, <1>3 DEF CameraInv

\* What a request adds to the queue.
LEMMA EnqueueIsGood ==
  ASSUME CameraInv, NEW s \in Sessions, Enqueue(s)
  PROVE  CameraInv'
<1> USE DEF Enqueue, Processes
<1>1. Chunk(s) \in Commands /\ queue \in Seq(Commands) /\ Len(queue) \in Nat /\ MaxQueue \in Nat
  BY CommandsMade, CameraAssumption DEF CameraInv, CameraShape
<1>2. queue' \in Seq(Commands) /\ Len(queue') = Len(queue) + 1
  BY <1>1
<1>3. CameraShape'
  BY <1>2 DEF CameraInv, CameraShape
<1>4. QueueBound'
  BY <1>1, <1>2 DEF QueueBound
<1>5. HandFits' /\ RunsFit'
  BY DEF CameraInv, HandFits, RunsFit
<1>6. NothingMissed'
  BY DEF NothingMissed
<1> QED
  BY <1>3, <1>4, <1>5, <1>6 DEF CameraInv

\* A stop takes the chunks of its session out, and its own place is free.
LEMMA StopIsGood ==
  ASSUME CameraInv, NEW s \in Sessions, Stop(s)
  PROVE  CameraInv'
<1>1. queue \in Seq(Commands) /\ StopOf(s) \in Commands /\ s # None /\ MaxQueue \in Nat
  BY CommandsMade, CameraAssumption DEF CameraInv, CameraShape
<1>2. Others(s) \in Seq(Commands) /\ Len(Others(s)) <= Len(queue)
  BY <1>1, OthersAreCommands
<1>3. /\ queue' = Append(Others(s), StopOf(s)) /\ active = s /\ active' = None /\ stale' = FALSE
      /\ permit' = TRUE /\ abandoned' \in BOOLEAN
      /\ UNCHANGED <<worker, hand, relay, ffmpeg, placeholder>>
  BY DEF Stop, Processes, CameraInv, CameraShape
<1>4. queue' \in Seq(Commands) /\ Len(queue') = Len(Others(s)) + 1
  BY <1>1, <1>2, <1>3
<1>5. CameraShape'
  BY <1>3, <1>4 DEF CameraInv, CameraShape
<1>6. QueueBound'
  BY <1>1, <1>2, <1>3, <1>4 DEF CameraInv, QueueBound
<1>7. HandFits' /\ RunsFit'
  BY <1>3 DEF CameraInv, HandFits, RunsFit
<1>8. NothingMissed'
  BY <1>3 DEF NothingMissed
<1> QED
  BY <1>5, <1>6, <1>7, <1>8 DEF CameraInv

LEMMA SilenceIsGood ==
  ASSUME CameraInv, Silence
  PROVE  CameraInv'
BY DEF Silence, Processes, CameraInv, CameraShape, QueueBound, HandFits, RunsFit, NothingMissed

\* The worker takes the next command, or finds that there is none.
LEMMA LookIsGood ==
  ASSUME CameraInv, Look
  PROVE  CameraInv'
<1> USE DEF CameraInv, CameraShape
<1>0. UNCHANGED <<active, stale, permit, abandoned, relay, ffmpeg, placeholder>>
  BY DEF Look, Processes
<1>1. CASE queue # <<>>
  <2>1. hand' = Head(queue) /\ queue' = Tail(queue) /\ worker' = [at |-> "command", try |-> 1]
    BY <1>1 DEF Look, Go
  <2>2. hand' \in Commands /\ queue' \in Seq(Commands) /\ Len(queue') = Len(queue) - 1 /\ Len(queue) \in Nat
    BY <1>1, <2>1
  <2>3. CameraShape'
    BY <1>0, <2>1, <2>2
  <2>4. QueueBound'
    BY <1>0, <2>2, CameraAssumption DEF QueueBound
  <2>5. HandFits'
    BY <2>1, <2>2 DEF HandFits
  <2>6. RunsFit'
    BY <1>0, <2>1 DEF RunsFit, Look
  <2>7. NothingMissed'
    BY <2>1 DEF NothingMissed
  <2> QED
    BY <2>3, <2>4, <2>5, <2>6, <2>7
<1>2. CASE queue = <<>>
  <2>1. /\ worker' \in [at : {"expire", "waiting"}, try : 1..2]
        /\ UNCHANGED <<queue, hand>>
    BY <1>2 DEF Look, Go, At
  <2>2. CameraShape'
    BY <1>0, <2>1
  <2>3. QueueBound'
    BY <1>0, <2>1 DEF QueueBound
  <2>4. HandFits' /\ RunsFit' /\ NothingMissed'
    BY <1>0, <1>2, <2>1 DEF Look, HandFits, RunsFit, NothingMissed
  <2> QED
    BY <2>2, <2>3, <2>4
<1> QED
  BY <1>1, <1>2

\* The steps between two waits.
LEMMA WaitingIsGood ==
  ASSUME CameraInv, Top \/ PlaceholderStarts \/ PlaceholderFails \/ Woken \/ Timer \/ Expire
  PROVE  CameraInv'
<1> USE DEF CameraInv, CameraShape, Requests, Processes, At, Go
<1>1. CASE Top
  <2>1. UNCHANGED <<queue, active, stale, permit, abandoned, hand, relay, ffmpeg>>
    BY <1>1 DEF Top
  <2>2. worker' \in [at : {"next", "placing"}, try : 1..2]
    BY <1>1 DEF Top
  <2>3. placeholder' \in {placeholder, "none"} /\ (worker'.at = "placing" => relay' = None) /\ worker.at = "top"
    BY <1>1 DEF Top
  <2>4. CameraShape'
    BY <2>1, <2>2, <2>3
  <2>5. QueueBound' /\ HandFits' /\ NothingMissed'
    BY <2>1, <2>2, <2>3 DEF QueueBound, HandFits, NothingMissed
  <2>6. RunsFit'
    BY <2>1, <2>2, <2>3 DEF RunsFit
  <2> QED
    BY <2>4, <2>5, <2>6
<1>2. CASE PlaceholderStarts \/ PlaceholderFails
  BY <1>2 DEF PlaceholderStarts, PlaceholderFails, QueueBound, HandFits, RunsFit, NothingMissed
<1>3. CASE Woken
  <2>1. /\ UNCHANGED <<queue, active, stale, abandoned, hand, relay, ffmpeg, placeholder>>
        /\ permit' = FALSE /\ worker.at = "waiting" /\ worker' \in [at : {"woken"}, try : 1..2]
    BY <1>3 DEF Woken
  <2>2. CameraShape'
    BY <2>1
  <2>5. QueueBound'
    BY <2>1 DEF QueueBound
  <2>3. HandFits'
    BY <2>1 DEF HandFits
  <2>4. RunsFit' /\ NothingMissed'
    BY <2>1 DEF RunsFit, NothingMissed
  <2> QED
    BY <2>2, <2>3, <2>4, <2>5
<1>4. CASE Timer
  BY <1>4 DEF Timer, QueueBound, HandFits, RunsFit, NothingMissed
<1>5. CASE Expire
  <2>1. /\ UNCHANGED <<queue, stale, permit, hand, abandoned, placeholder>>
        /\ active' \in {active, None} /\ worker' \in [at : {"top", "ending"}, try : 1..2]
        /\ worker'.at = "ending" => relay # None /\ relay' = None /\ ffmpeg' \in {"eof", ffmpeg}
        /\ ffmpeg = "none" => ffmpeg' = "none"
        /\ worker'.at = "top" => UNCHANGED <<relay, ffmpeg>>
        /\ worker.at = "expire"
    BY <1>5 DEF Expire, StopRelay
  <2>2. CameraShape'
    BY <2>1
  <2>3. QueueBound'
    BY <2>1 DEF QueueBound
  <2>4. HandFits' /\ NothingMissed'
    BY <2>1 DEF HandFits, NothingMissed
  <2>5. RunsFit'
    <3>1. ffmpeg' # "none" => placeholder' # "running"
      BY <2>1 DEF RunsFit
    <3>2. worker'.at = "ending" => placeholder' # "running" /\ relay' = None
      BY <1>5, <2>1 DEF RunsFit, Expire
    <3> QED
      BY <2>1, <3>1, <3>2 DEF RunsFit
  <2> QED
    BY <2>2, <2>3, <2>4, <2>5
<1> QED
  BY <1>1, <1>2, <1>3, <1>4, <1>5

\* The worker's command is carried out.
LEMMA CommandIsGood ==
  ASSUME CameraInv,
         TakeStop \/ TakeChunk \/ Feed \/ Ended \/ SpawnFails \/ Spawn \/ Write \/ WriteFails
  PROVE  CameraInv'
<1> USE DEF CameraInv, CameraShape, At, Go, GoOn, Done, Requests, Processes
<1>0. /\ UNCHANGED <<queue, active, stale, permit, abandoned>>
      /\ worker.at \notin {"waiting", "expire"} /\ worker'.at \notin {"waiting", "expire"}
  BY DEF TakeStop, TakeChunk, Feed, Ended, SpawnFails, Spawn, Write, WriteFails, Command, Worker
<1>1. QueueBound' /\ NothingMissed'
  BY <1>0 DEF QueueBound, NothingMissed
<1>2. hand # None => hand.session \in Sessions /\ hand.kind \in {"chunk", "stop"}
  BY CommandHas
<1>3. CASE TakeStop
  <2>1. CameraShape'
    BY <1>0, <1>3 DEF TakeStop, StopRelay
  <2>2. HandFits'
    BY <1>3 DEF TakeStop, HandFits
  <2>3. RunsFit'
    <3>1. hand.session # None /\ worker.at = "command"
      <4>1. worker.at = "command" /\ hand \in Commands
        BY <1>3 DEF TakeStop, Command, HandFits
      <4> QED
        BY <4>1, CommandHas, CameraAssumption
    <3>2. CASE relay = hand.session
      <4>1. relay' = None /\ worker'.at = "ending" /\ placeholder' = placeholder /\ ffmpeg # "none"
        BY <1>3, <3>1, <3>2 DEF TakeStop, StopRelay, RunsFit
      <4> QED
        BY <4>1 DEF RunsFit
    <3>3. CASE relay # hand.session
      <4>1. worker'.at = "top" /\ UNCHANGED <<relay, ffmpeg, placeholder>>
        BY <1>3, <3>3 DEF TakeStop
      <4> QED
        BY <3>1, <4>1 DEF RunsFit
    <3> QED
      BY <3>2, <3>3
  <2> QED
    BY <1>1, <2>1, <2>2, <2>3
<1>4. CASE TakeChunk
  <2>1. CameraShape'
    BY <1>0, <1>4 DEF TakeChunk
  <2>2. HandFits' /\ RunsFit'
    BY <1>4 DEF TakeChunk, Command, HandFits, RunsFit
  <2> QED
    BY <1>1, <2>1, <2>2
<1>5. CASE Feed
  <2>1. CameraShape'
    BY <1>0, <1>5 DEF Feed, StopRelay
  <2>2. HandFits' /\ RunsFit'
    BY <1>5 DEF Feed, StopRelay, HandFits, RunsFit
  <2> QED
    BY <1>1, <2>1, <2>2
<1>6. CASE Ended
  <2>1. CameraShape'
    BY <1>0, <1>6 DEF Ended
  <2>2. HandFits' /\ RunsFit'
    BY <1>6 DEF Ended, HandFits, RunsFit
  <2> QED
    BY <1>1, <2>1, <2>2
<1>7. CASE SpawnFails
  <2>1. CameraShape'
    BY <1>0, <1>7 DEF SpawnFails
  <2>2. HandFits' /\ RunsFit'
    BY <1>7 DEF SpawnFails, HandFits, RunsFit
  <2> QED
    BY <1>1, <2>1, <2>2
<1>8. CASE Spawn
  <2>1. hand \in Commands /\ hand.session \in Sessions
    BY <1>8, CommandHas DEF Spawn, HandFits
  <2>2. CameraShape'
    BY <1>0, <1>8, <2>1 DEF Spawn
  <2>3. HandFits' /\ RunsFit'
    BY <1>8, <2>1, CameraAssumption DEF Spawn, HandFits, RunsFit
  <2> QED
    BY <1>1, <2>2, <2>3
<1>9. CASE Write
  <2>1. CameraShape'
    BY <1>0, <1>9 DEF Write
  <2>2. HandFits' /\ RunsFit'
    BY <1>9 DEF Write, HandFits, RunsFit
  <2> QED
    BY <1>1, <2>1, <2>2
<1>10. CASE WriteFails
  <2>1. CameraShape'
    BY <1>0, <1>10 DEF WriteFails, StopRelay
  <2>2. HandFits' /\ RunsFit'
    BY <1>2, <1>10, CameraAssumption DEF WriteFails, StopRelay, HandFits, RunsFit
  <2> QED
    BY <1>1, <2>1, <2>2
<1> QED
  BY <1>3, <1>4, <1>5, <1>6, <1>7, <1>8, <1>9, <1>10

\* A process that exits by itself.
LEMMA ProcessExitIsGood ==
  ASSUME CameraInv, RelayExits \/ PlaceholderExits
  PROVE  CameraInv'
<1> USE DEF CameraInv, CameraShape, Worker, Requests
<1>1. CASE RelayExits
  BY <1>1 DEF RelayExits, QueueBound, HandFits, RunsFit, NothingMissed
<1>2. CASE PlaceholderExits
  BY <1>2 DEF PlaceholderExits, QueueBound, HandFits, RunsFit, NothingMissed
<1> QED
  BY <1>1, <1>2

\* Every step keeps the invariant.
LEMMA CameraStepIsGood == CameraInv /\ [CameraNext]_cameraVars => CameraInv'
<1> SUFFICES ASSUME CameraInv, [CameraNext]_cameraVars PROVE CameraInv'
  OBVIOUS
<1>1. CASE UNCHANGED cameraVars
  BY <1>1 DEF cameraVars, CameraInv, CameraShape, QueueBound, HandFits, RunsFit, NothingMissed
<1>2. CASE CameraNext
  BY <1>2, EnqueueIsGood, StopIsGood, SilenceIsGood, LookIsGood, WaitingIsGood, CommandIsGood, ProcessExitIsGood
     DEF CameraNext
<1> QED
  BY <1>1, <1>2

\* Hence it always holds.
LEMMA CameraIsGood == CameraSpec => []CameraInv
BY CameraInitIsGood, CameraStepIsGood, PTL DEF CameraSpec

\* What the invariant says of the properties.
LEMMA CameraInvSays == CameraInv => CameraTypeOK /\ OneWriter
<1>1. CameraInv => CameraTypeOK
  BY DEF CameraInv, CameraShape, QueueBound, CameraTypeOK
<1>2. CameraInv => OneWriter
  BY DEF CameraInv, RunsFit, OneWriter, At
<1> QED
  BY <1>1, <1>2

\* The state of the camera keeps its shape, and its queue its bound.
THEOREM CameraTypeCorrect == CameraSpec => []CameraTypeOK
BY CameraIsGood, CameraInvSays, PTL

\* Whatever the requests and however the processes end: one writer.
THEOREM DeviceHasOneWriter == CameraSpec => []OneWriter
BY CameraIsGood, CameraInvSays, PTL

-----------------------------------------------------------------------------
(* The camera: whom a relay is left to.                                    *)

\* The whole of q are stops of other sessions.
Quiet(q, s) == \A j \in 1..Len(q) : q[j].kind = "stop" /\ q[j].session # s

\* The same as Before, of a relay for r with h in hand.
Ahead(r, h) == (IF r = None THEN <<>> ELSE <<Chunk(r)>>) \o (IF h = None THEN <<>> ELSE <<h>>)

\* A relay for s is left, by the queue, by the hand or since it is there.
Remains(r, h, q, s) ==
  \/ Leaves(q, s)
  \/ h = Chunk(s) /\ Quiet(q, s)
  \/ r = s /\ (h # None => h.kind = "stop" /\ h.session # s) /\ Quiet(q, s)

\* What a command at the front leaves behind it.
LEMMA LeavesCons ==
  ASSUME NEW q \in Seq(Commands), NEW c \in Commands, NEW s \in Sessions
  PROVE  Leaves(<<c>> \o q, s) <=> Leaves(q, s) \/ (c = Chunk(s) /\ Quiet(q, s))
<1> DEFINE p == <<c>> \o q
<1>1. /\ p \in Seq(Commands) /\ Len(p) = Len(q) + 1 /\ Len(q) \in Nat
      /\ p[1] = c /\ \A j \in 1..Len(q) : p[j + 1] = q[j]
  OBVIOUS
<1>2. \A j \in 2..Len(p) : p[j] = q[j - 1] /\ j - 1 \in 1..Len(q)
  BY <1>1
<1> HIDE DEF p
<1>3. ASSUME Leaves(p, s) PROVE Leaves(q, s) \/ (c = Chunk(s) /\ Quiet(q, s))
  <2>1. PICK i \in DOMAIN p :
          p[i] = Chunk(s) /\ \A j \in i + 1..Len(p) : p[j].kind = "stop" /\ p[j].session # s
    BY <1>3 DEF Leaves
  <2>2. i \in 1..Len(p)
    BY <1>1
  <2>3. CASE i = 1
    <3>1. \A j \in 1..Len(q) : j + 1 \in i + 1..Len(p)
      BY <1>1, <2>3
    <3> QED
      BY <1>1, <2>1, <2>3, <3>1 DEF Quiet
  <2>4. CASE i # 1
    <3>1. i - 1 \in DOMAIN q /\ q[i - 1] = Chunk(s)
      BY <1>1, <1>2, <2>1, <2>2, <2>4
    <3>2. \A j \in (i - 1) + 1..Len(q) : j + 1 \in i + 1..Len(p) /\ q[j] = p[j + 1]
      BY <1>1, <2>2, <2>4
    <3> QED
      BY <2>1, <3>1, <3>2 DEF Leaves
  <2> QED
    BY <2>3, <2>4
<1>4. ASSUME Leaves(q, s) PROVE Leaves(p, s)
  <2>1. PICK i \in DOMAIN q :
          q[i] = Chunk(s) /\ \A j \in i + 1..Len(q) : q[j].kind = "stop" /\ q[j].session # s
    BY <1>4 DEF Leaves
  <2>2. i \in 1..Len(q) /\ i + 1 \in DOMAIN p /\ p[i + 1] = Chunk(s)
    BY <1>1, <2>1
  <2>3. \A j \in (i + 1) + 1..Len(p) : j - 1 \in i + 1..Len(q) /\ p[j] = q[j - 1]
    BY <1>1, <1>2, <2>2
  <2> QED
    BY <2>1, <2>2, <2>3 DEF Leaves
<1>5. ASSUME c = Chunk(s), Quiet(q, s) PROVE Leaves(p, s)
  <2>1. 1 \in DOMAIN p /\ p[1] = Chunk(s)
    BY <1>1, <1>5
  <2>2. \A j \in 1 + 1..Len(p) : p[j].kind = "stop" /\ p[j].session # s
    BY <1>2, <1>5 DEF Quiet
  <2> QED
    BY <2>1, <2>2 DEF Leaves
<1> QED
  BY <1>3, <1>4, <1>5 DEF p

\* And what it disturbs.
LEMMA QuietCons ==
  ASSUME NEW q \in Seq(Commands), NEW c \in Commands, NEW s \in Sessions
  PROVE  Quiet(<<c>> \o q, s) <=> c.kind = "stop" /\ c.session # s /\ Quiet(q, s)
<1> DEFINE p == <<c>> \o q
<1>1. /\ Len(p) = Len(q) + 1 /\ Len(q) \in Nat
      /\ p[1] = c /\ \A j \in 1..Len(q) : p[j + 1] = q[j] /\ j + 1 \in 1..Len(p)
  OBVIOUS
<1>2. \A j \in 2..Len(p) : p[j] = q[j - 1] /\ j - 1 \in 1..Len(q)
  BY <1>1
<1>3. 1 \in 1..Len(p) /\ \A j \in 1..Len(p) : j = 1 \/ j \in 2..Len(p)
  BY <1>1
<1> HIDE DEF p
<1>4. Quiet(p, s) <=> c.kind = "stop" /\ c.session # s /\ Quiet(q, s)
  BY <1>1, <1>2, <1>3 DEF Quiet
<1> QED
  BY <1>4 DEF p

\* What a command at the end leaves, which has the last word.
LEMMA LeavesAppend ==
  ASSUME NEW q \in Seq(Commands), NEW c \in Commands, NEW s \in Sessions
  PROVE  /\ c.kind = "stop" => (Leaves(Append(q, c), s) <=> Leaves(q, s) /\ c.session # s)
         /\ c.kind = "stop" => (Quiet(Append(q, c), s) <=> Quiet(q, s) /\ c.session # s)
         /\ c.kind = "chunk" => (Leaves(Append(q, c), s) => c = Chunk(s))
         /\ c.kind = "chunk" => ~Quiet(Append(q, c), s)
<1> DEFINE p == Append(q, c)
           n == Len(q) + 1
<1>1. /\ p \in Seq(Commands) /\ Len(p) = n /\ Len(q) \in Nat
      /\ p[n] = c /\ \A j \in 1..Len(q) : p[j] = q[j]
  OBVIOUS
<1>2. n \in 1..Len(p) /\ \A j \in 1..Len(p) : j = n \/ j \in 1..Len(q)
  BY <1>1
<1>3. \A i \in 1..Len(q) : /\ n \in i + 1..Len(p) /\ i \in 1..Len(p)
                           /\ \A j \in i + 1..Len(q) : j \in i + 1..Len(p) /\ j \in 1..Len(q)
                           /\ \A j \in i + 1..Len(p) : j = n \/ j \in i + 1..Len(q)
  BY <1>1
<1>4. DOMAIN p = 1..Len(p) /\ DOMAIN q = 1..Len(q)
  BY <1>1
<1>5. "stop" # "chunk" /\ Chunk(s).kind = "chunk"
  BY DEF Chunk
<1> HIDE DEF p, n
<1>6. ASSUME c.kind = "stop", Leaves(p, s) PROVE Leaves(q, s) /\ c.session # s
  <2>1. PICK i \in 1..Len(p) :
          p[i] = Chunk(s) /\ \A j \in i + 1..Len(p) : p[j].kind = "stop" /\ p[j].session # s
    BY <1>4, <1>6 DEF Leaves
  <2>2. i \in 1..Len(q)
    BY <1>1, <1>2, <1>5, <1>6, <2>1
  <2> QED
    BY <1>1, <1>3, <1>4, <2>1, <2>2 DEF Leaves
<1>7. ASSUME c.kind = "stop", Leaves(q, s), c.session # s PROVE Leaves(p, s)
  <2>1. PICK i \in 1..Len(q) :
          q[i] = Chunk(s) /\ \A j \in i + 1..Len(q) : q[j].kind = "stop" /\ q[j].session # s
    BY <1>4, <1>7 DEF Leaves
  <2>2. i \in 1..Len(p) /\ p[i] = Chunk(s)
    BY <1>1, <1>3, <2>1
  <2>3. \A j \in i + 1..Len(p) : p[j].kind = "stop" /\ p[j].session # s
    BY <1>1, <1>3, <1>7, <2>1
  <2> QED
    BY <1>4, <2>2, <2>3 DEF Leaves
<1>8. c.kind = "stop" => (Quiet(p, s) <=> Quiet(q, s) /\ c.session # s)
  BY <1>1, <1>2, <1>3 DEF Quiet
<1>9. ASSUME c.kind = "chunk", Leaves(p, s) PROVE c = Chunk(s)
  <2>1. PICK i \in 1..Len(p) :
          p[i] = Chunk(s) /\ \A j \in i + 1..Len(p) : p[j].kind = "stop" /\ p[j].session # s
    BY <1>4, <1>9 DEF Leaves
  <2> QED
    BY <1>1, <1>2, <1>3, <1>5, <1>9, <2>1
<1>10. c.kind = "chunk" => ~Quiet(p, s)
  BY <1>1, <1>2, <1>5 DEF Quiet
<1> QED
  BY <1>6, <1>7, <1>8, <1>9, <1>10 DEF p

\* Nothing in the queue leaves nothing.
LEMMA EmptyLeaves ==
  ASSUME NEW s
  PROVE  ~Leaves(<<>>, s) /\ Quiet(<<>>, s)
BY DEF Leaves, Quiet

\* Before and the queue, taken apart.
LEMMA LeavesApart ==
  ASSUME NEW r \in Sessions \cup {None}, NEW h \in Commands \cup {None},
         NEW q \in Seq(Commands), NEW s \in Sessions
  PROVE  Leaves(Ahead(r, h) \o q, s) <=> Remains(r, h, q, s)
<1>0. None \notin Sessions /\ Chunk(s) # None
  BY CameraAssumption, CommandsMade
<1>1. Ahead(r, h) = (IF r = None THEN <<>> ELSE <<Chunk(r)>>) \o (IF h = None THEN <<>> ELSE <<h>>)
  BY DEF Ahead
<1>2. CASE r = None /\ h = None
  <2>1. Ahead(r, h) = <<>>
    BY <1>1, <1>2
  <2>2. Ahead(r, h) \o q = q
    BY <2>1
  <2> QED
    BY <1>0, <1>2, <2>2 DEF Remains
<1>3. CASE r = None /\ h # None
  <2>1. Ahead(r, h) = <<h>> /\ h \in Commands
    BY <1>1, <1>3
  <2>2. Leaves(<<h>> \o q, s) <=> Leaves(q, s) \/ (h = Chunk(s) /\ Quiet(q, s))
    BY <2>1, LeavesCons
  <2> QED
    BY <1>0, <1>3, <2>1, <2>2 DEF Remains
<1>4. CASE r # None
  <2>1. r \in Sessions /\ Chunk(r) \in Commands
    BY <1>4, CommandsMade
  <2>2. Chunk(r) = Chunk(s) <=> r = s
    BY DEF Chunk
  <2>3. CASE h = None
    <3>1. Ahead(r, h) = <<Chunk(r)>>
      BY <1>1, <1>4, <2>3
    <3>2. Leaves(<<Chunk(r)>> \o q, s) <=> Leaves(q, s) \/ (Chunk(r) = Chunk(s) /\ Quiet(q, s))
      BY <2>1, LeavesCons
    <3> QED
      BY <1>0, <2>2, <2>3, <3>1, <3>2 DEF Remains
  <2>4. CASE h # None
    <3>1. h \in Commands /\ <<h>> \o q \in Seq(Commands)
      BY <2>4
    <3>2. Ahead(r, h) = <<Chunk(r)>> \o <<h>>
      BY <1>1, <1>4, <2>4
    <3>3. Ahead(r, h) \o q = <<Chunk(r)>> \o (<<h>> \o q)
      <4>1. <<Chunk(r)>> \in Seq(Commands) /\ <<h>> \in Seq(Commands)
        BY <2>1, <3>1
      <4> QED
        BY <3>2, <4>1, ConcatAssociative
    <3>4. Leaves(<<Chunk(r)>> \o (<<h>> \o q), s)
            <=> Leaves(<<h>> \o q, s) \/ (Chunk(r) = Chunk(s) /\ Quiet(<<h>> \o q, s))
      BY <2>1, <3>1, LeavesCons
    <3>5. Leaves(<<h>> \o q, s) <=> Leaves(q, s) \/ (h = Chunk(s) /\ Quiet(q, s))
      BY <3>1, LeavesCons
    <3>6. Quiet(<<h>> \o q, s) <=> h.kind = "stop" /\ h.session # s /\ Quiet(q, s)
      BY <3>1, QuietCons
    <3> QED
      BY <2>2, <2>4, <3>3, <3>4, <3>5, <3>6 DEF Remains
  <2> QED
    BY <2>3, <2>4
<1> QED
  BY <1>2, <1>3, <1>4

\* Who is left a relay, for sets of sessions.
LEMMA LeftByIs ==
  ASSUME relay \in Sessions \cup {None}, hand \in Commands \cup {None}
  PROVE  \A q \in Seq(Commands) : LeftBy(q) = {s \in Sessions : Remains(relay, hand, q, s)}
<1> SUFFICES ASSUME NEW q \in Seq(Commands)
             PROVE  LeftBy(q) = {s \in Sessions : Remains(relay, hand, q, s)}
  OBVIOUS
<1>1. Before = Ahead(relay, hand)
  BY DEF Before, Ahead
<1>2. \A s \in Sessions : Leaves(Before \o q, s) <=> Remains(relay, hand, q, s)
  BY <1>1, LeavesApart
<1> QED
  BY <1>2 DEF LeftBy

\* What is minded, taken apart.
Minded == ~abandoned => \A s \in Sessions : Remains(relay, hand, queue, s) => s = active

\* It is the property, while the state has its shape.
LEMMA MindedIs == CameraInv => (RelayIsMinded <=> Minded)
<1> SUFFICES ASSUME CameraInv PROVE RelayIsMinded <=> Minded
  OBVIOUS
<1>1. LeftBy(queue) = {s \in Sessions : Remains(relay, hand, queue, s)}
  BY LeftByIs DEF CameraInv, CameraShape
<1> QED
  BY <1>1 DEF RelayIsMinded, Minded

\* A step that leaves less behind than there was, and the session as it is.
LEMMA LeavesLess ==
  ASSUME Minded, UNCHANGED <<active, abandoned>>,
         \A s \in Sessions : Remains(relay', hand', queue', s) => Remains(relay, hand, queue, s)
  PROVE  Minded'
BY DEF Minded

\* Who sends a chunk becomes active, and its relay is the one that is left.
LEMMA EnqueueIsMinded ==
  ASSUME CameraInv, Minded, NEW s \in Sessions, Enqueue(s)
  PROVE  Minded'
<1>1. queue' = Append(queue, Chunk(s)) /\ active' = s /\ queue \in Seq(Commands) /\ Chunk(s) \in Commands
  BY CommandsMade DEF Enqueue, CameraInv, CameraShape
<1>2. ASSUME NEW t \in Sessions, Remains(relay', hand', queue', t) PROVE t = s
  <2>1. Chunk(s).kind = "chunk"
    BY DEF Chunk
  <2>2. Leaves(queue', t) => Chunk(s) = Chunk(t)
    BY <1>1, <2>1, LeavesAppend
  <2>3. ~Quiet(queue', t)
    BY <1>1, <2>1, LeavesAppend
  <2> QED
    BY <1>2, <2>2, <2>3 DEF Remains, Chunk
<1> QED
  BY <1>1, <1>2 DEF Minded

\* A stop is the last word on its session, unless it removes the chunk that another waits for.
LEMMA StopIsMinded ==
  ASSUME CameraInv, Minded, NEW s \in Sessions, Stop(s)
  PROVE  Minded'
<1> DEFINE q == Others(s)
<1>1. /\ queue' = Append(q, StopOf(s)) /\ active' = None /\ UNCHANGED <<relay, hand>>
      /\ abandoned' = (abandoned \/ ~(LeftBy(q) \subseteq {s}))
  BY DEF Stop, Processes
<1>2. q \in Seq(Commands) /\ StopOf(s) \in Commands
  BY OthersAreCommands, CommandsMade DEF CameraInv, CameraShape
<1>3. LeftBy(q) = {t \in Sessions : Remains(relay, hand, q, t)}
  BY <1>2, LeftByIs DEF CameraInv, CameraShape
<1> HIDE DEF q
<1>4. ASSUME NEW t \in Sessions, ~abandoned', Remains(relay, hand, queue', t) PROVE FALSE
  <2>1. StopOf(s).kind = "stop" /\ StopOf(s).session = s
    BY DEF StopOf
  <2>2. /\ Leaves(queue', t) <=> Leaves(q, t) /\ s # t
        /\ Quiet(queue', t) <=> Quiet(q, t) /\ s # t
    BY <1>1, <1>2, <2>1, LeavesAppend
  <2>3. Remains(relay, hand, q, t) /\ s # t
    BY <1>4, <2>2 DEF Remains
  <2> QED
    BY <1>1, <1>3, <1>4, <2>3
<1> QED
  BY <1>1, <1>4 DEF Minded

\* A command goes from the queue to the hand.
LEMMA LookIsMinded ==
  ASSUME CameraInv, Minded, Look
  PROVE  Minded'
<1>1. UNCHANGED <<active, abandoned, relay>> /\ hand = None
  BY DEF Look, Processes, CameraInv, HandFits
<1>2. CASE queue = <<>>
  BY <1>1, <1>2, LeavesLess DEF Look
<1>3. CASE queue # <<>>
  <2>1. /\ hand' = Head(queue) /\ queue' = Tail(queue) /\ queue \in Seq(Commands)
        /\ hand' \in Commands /\ queue' \in Seq(Commands) /\ relay \in Sessions \cup {None}
    BY <1>3 DEF Look, CameraInv, CameraShape
  <2>2. queue = <<hand'>> \o queue'
    BY <1>3, <2>1
  <2>3. ASSUME NEW s \in Sessions, Remains(relay', hand', queue', s)
        PROVE  Remains(relay, hand, queue, s)
    <3>1. Leaves(queue, s) <=> Leaves(queue', s) \/ (hand' = Chunk(s) /\ Quiet(queue', s))
      BY <2>1, <2>2, LeavesCons
    <3>2. Quiet(queue, s) <=> hand'.kind = "stop" /\ hand'.session # s /\ Quiet(queue', s)
      BY <2>1, <2>2, QuietCons
    <3>3. hand' # None
      BY <2>1, CameraAssumption
    <3> QED
      BY <1>1, <2>3, <3>1, <3>2, <3>3 DEF Remains
  <2> QED
    BY <1>1, <2>3, LeavesLess
<1> QED
  BY <1>2, <1>3

\* The silent session is stopped along with its chunks.
LEMMA ExpireIsMinded ==
  ASSUME CameraInv, Minded, Expire
  PROVE  Minded'
<1>1. worker.at = "expire" /\ UNCHANGED <<queue, hand, abandoned>> /\ hand = None
  BY DEF Expire, At, CameraInv, HandFits
<1>2. CASE active # None /\ stale
  <2>1. queue = <<>> /\ active' = None
    BY <1>1, <1>2 DEF Expire, CameraInv, NothingMissed
  <2>2. \A s \in Sessions : ~Leaves(queue, s) /\ Quiet(queue, s) /\ hand # Chunk(s)
    BY <1>1, <2>1, EmptyLeaves, CommandsMade, CameraAssumption
  <2>3. ASSUME ~abandoned PROVE relay' = None
    <3>1. relay # None => relay \in Sessions /\ Remains(relay, hand, queue, relay)
      BY <1>1, <2>2 DEF Remains, CameraInv, CameraShape
    <3>2. relay # None => relay = active
      BY <2>3, <3>1 DEF Minded
    <3> QED
      BY <1>2, <3>2 DEF Expire, StopRelay, Processes
  <2>4. \A s \in Sessions : relay' = None => ~Remains(relay', hand', queue', s)
    BY <1>1, <2>2, CameraAssumption DEF Remains
  <2> QED
    BY <1>1, <2>3, <2>4 DEF Minded
<1>3. CASE ~(active # None /\ stale)
  BY <1>1, <1>3, LeavesLess DEF Expire, Processes
<1> QED
  BY <1>2, <1>3

\* Once the worker has carried it out, its command leaves nothing it has not left.
LEMMA CommandIsMinded ==
  ASSUME CameraInv, Minded,
         TakeStop \/ TakeChunk \/ Feed \/ Ended \/ SpawnFails \/ Spawn \/ Write \/ WriteFails
  PROVE  Minded'
<1> USE DEF At, Done, Requests, Processes, Worker, Command
<1>0. UNCHANGED <<queue, active, abandoned>> /\ None \notin Sessions /\ \A s \in Sessions : Chunk(s) # None
  BY CameraAssumption, CommandsMade DEF TakeStop, TakeChunk, Feed, Ended, SpawnFails, Spawn, Write, WriteFails
<1>1. \A c \in Commands : c.kind = "chunk" => c = Chunk(c.session)
  BY DEF Commands, Chunk
<1>2. hand # None => hand \in Commands /\ hand.session \in Sessions /\ hand # None
  BY CommandHas DEF CameraInv, CameraShape
<1>3. \A s, t \in Sessions : Chunk(s) = Chunk(t) => s = t
  BY DEF Chunk
<1>4. "stop" # "chunk" /\ \A s \in Sessions : Chunk(s).kind = "chunk"
  BY DEF Chunk
<1>5. CASE UNCHANGED <<relay, hand>>
  BY <1>0, <1>5, LeavesLess
<1>6. CASE relay' = None /\ hand' \in {hand, None}
  <2>1. \A s \in Sessions : Remains(relay', hand', queue', s) => Remains(relay, hand, queue, s)
    BY <1>0, <1>6 DEF Remains
  <2> QED
    BY <1>0, <2>1, LeavesLess
<1>7. CASE Command("stop") /\ hand' = None /\ relay' = relay /\ relay # hand.session
  <2>1. \A s \in Sessions : Remains(relay', hand', queue', s) => Remains(relay, hand, queue, s)
    BY <1>0, <1>7 DEF Remains
  <2> QED
    BY <1>0, <2>1, LeavesLess
<1>8. CASE Spawn
  <2>1. hand' = hand /\ hand \in Commands /\ hand.kind = "chunk" /\ hand # None
    BY <1>8, CameraAssumption DEF Spawn, CameraInv, HandFits
  <2>2. \A s \in Sessions : Remains(relay', hand', queue', s) => Remains(relay, hand, queue, s)
    BY <1>0, <1>4, <2>1 DEF Remains
  <2> QED
    BY <1>0, <2>2, LeavesLess
<1>9. CASE worker.at = "write" /\ relay' = relay /\ hand' = None
  <2>1. hand \in Commands /\ hand = Chunk(relay) /\ relay \in Sessions
    BY <1>1, <1>2, <1>9, CameraAssumption DEF CameraInv, HandFits, RunsFit
  <2>2. \A s \in Sessions : Remains(relay', hand', queue', s) => Remains(relay, hand, queue, s)
    BY <1>0, <1>9, <2>1 DEF Remains
  <2> QED
    BY <1>0, <2>2, LeavesLess
<1> QED
  <2>1. CASE TakeStop
    BY <1>6, <1>7, <2>1 DEF TakeStop, StopRelay
  <2>2. CASE TakeChunk \/ Ended
    BY <1>5, <2>2 DEF TakeChunk, Ended
  <2>3. CASE Feed
    BY <1>5, <1>6, <2>3 DEF Feed, StopRelay
  <2>4. CASE SpawnFails
    BY <1>6, <2>4 DEF SpawnFails, CameraInv, RunsFit
  <2>5. CASE Write
    BY <1>9, <2>5 DEF Write
  <2>6. CASE WriteFails
    BY <1>6, <1>9, <2>6 DEF WriteFails, StopRelay
  <2> QED
    BY <1>8, <2>1, <2>2, <2>3, <2>4, <2>5, <2>6

\* Steps that touch neither queue, nor hand, nor relay.
LEMMA OtherStepsAreMinded ==
  ASSUME CameraInv, Minded,
         \/ Silence \/ Top \/ PlaceholderStarts \/ PlaceholderFails \/ Woken \/ Timer
         \/ RelayExits \/ PlaceholderExits \/ UNCHANGED cameraVars
  PROVE  Minded'
<1>1. UNCHANGED <<queue, hand, relay, active, abandoned>>
  BY DEF Silence, Top, PlaceholderStarts, PlaceholderFails, Woken, Timer, RelayExits, PlaceholderExits,
         cameraVars, Requests, Processes, Worker
<1> QED
  BY <1>1, LeavesLess

\* Every step keeps it.
LEMMA StepIsMinded == CameraInv /\ Minded /\ [CameraNext]_cameraVars => Minded'
<1> SUFFICES ASSUME CameraInv, Minded, [CameraNext]_cameraVars PROVE Minded'
  OBVIOUS
<1> QED
  BY EnqueueIsMinded, StopIsMinded, LookIsMinded, ExpireIsMinded, CommandIsMinded, OtherStepsAreMinded
     DEF CameraNext

\* It holds at first.
LEMMA InitIsMinded == CameraInit => Minded
<1> SUFFICES ASSUME CameraInit, NEW s \in Sessions PROVE ~Remains(relay, hand, queue, s)
  BY DEF Minded
<1>1. queue = <<>> /\ hand = None /\ relay = None /\ None \notin Sessions /\ Chunk(s) # None
  BY CommandsMade, CameraAssumption DEF CameraInit
<1> QED
  BY <1>1, EmptyLeaves DEF Remains

\* Whoever stops, falls silent or comes back, and in whatever order: no relay is left
\* to a session that does not have the camera, but by the one way abandoned names.
THEOREM RelaysAreMinded == CameraSpec => []RelayIsMinded
<1>1. CameraSpec => []Minded
  BY CameraIsGood, InitIsMinded, StepIsMinded, PTL DEF CameraSpec
<1> QED
  BY <1>1, CameraIsGood, MindedIs, PTL

-----------------------------------------------------------------------------
(* The microphone: the injector in hand.                                   *)

\* The state has a shape.
MicShape ==
  /\ mic \in [Uplinks -> {"idle", "active", "failed"}]
  /\ micAt \in [Uplinks -> Receiving \cup Awaits \cup {"over"}]
  /\ chunk \in [Uplinks -> [stream : Nat, n : Nat]]
  /\ held \in [Uplinks -> {{}} \cup {{p} : p \in Injectors}]
  /\ life \in [Injectors -> {"none", "running", "killed", "dead"}]
  /\ input \in [Injectors -> BOOLEAN]
  /\ owner = [p \in Injectors |-> owner[p]]
  /\ fed \in [Injectors -> Seq([stream : Nat, n : Nat])]

\* p was given a beginning of the recording c belongs to.
Recorded(p, c) == \A i \in 1..Len(fed[p]) : fed[p][i] = [stream |-> c.stream, n |-> i]

\* What a receiver knows where it is.
ReceiverKnows(s) ==
  /\ micAt[s] = "receive" /\ mic[s] = "idle" => chunk[s].stream = 0 /\ held[s] = {}
  /\ micAt[s] = "receive" /\ mic[s] = "active" =>
       \E p \in Injectors : held[s] = {p} /\ Len(fed[p]) = chunk[s].n /\ Recorded(p, chunk[s])
  /\ micAt[s] = "switching" => chunk[s].n = 1
  /\ micAt[s] = "starting"  => chunk[s].n = 1 /\ held[s] = {}
  /\ micAt[s] = "writing"   =>
       \E p \in Injectors : held[s] = {p} /\ Len(fed[p]) + 1 = chunk[s].n /\ Recorded(p, chunk[s])
  /\ micAt[s] = "failing"   => mic[s] = "failed"

\* An injector is in the hands of the session that has started it, as long as its
\* input is open.
InHands ==
  /\ \A s \in Uplinks : \A p \in held[s] : owner[p] = s /\ input[p]
  /\ \A p \in Injectors : input[p] => owner[p] \in Uplinks /\ p \in held[owner[p]]
  /\ \A p \in Injectors : life[p] = "none" => ~input[p] /\ fed[p] = <<>>
  /\ \A p \in Injectors : life[p] # "none" => owner[p] \in Uplinks

\* An injector of s whose process is there.
Living(p, s) == owner[p] = s /\ life[p] \in {"running", "killed"}

\* A receiver that goes on has let go of none that lives.
Alone ==
  \A s \in Uplinks :
    /\ micAt[s] # "over" => \A p \in Injectors : Living(p, s) => p \in held[s]
    /\ \A p, q \in Injectors : Living(p, s) /\ Living(q, s) => p = q

\* What is proved together.
MicInv == MicShape /\ (\A s \in Uplinks : ReceiverKnows(s)) /\ InHands /\ Alone /\ MicStreamsApart

-----------------------------------------------------------------------------
\* A session has one injector at most.
LEMMA OneHeld ==
  ASSUME MicShape, NEW s \in Uplinks
  PROVE  /\ held[s] \subseteq Injectors
         /\ \A p, q \in held[s] : p = q
<1>1. held[s] \in {{}} \cup {{p} : p \in Injectors}
  BY DEF MicShape
<1>2. CASE held[s] = {}
  BY <1>2
<1>3. CASE \E p \in Injectors : held[s] = {p}
  BY <1>3
<1> QED
  BY <1>1, <1>2, <1>3

\* The injector of a session is the one it holds.
LEMMA InjectorIs ==
  ASSUME NEW s \in Uplinks, NEW p \in Injectors, held[s] = {p}
  PROVE  Injector(s) = p
<1>1. \E q \in held[s] : TRUE
  OBVIOUS
<1>2. Injector(s) \in held[s]
  BY <1>1, Zenon DEF Injector
<1> QED
  BY <1>2

\* The invariant holds of the initial state.
LEMMA MicInitIsGood == MicInit => MicInv
<1> SUFFICES ASSUME MicInit PROVE MicInv
  OBVIOUS
<1>1. MicShape
  BY DEF MicInit, MicShape, Receiving, Awaits
<1>2. \A s \in Uplinks : ReceiverKnows(s)
  BY DEF MicInit, ReceiverKnows
<1>3. InHands
  BY DEF MicInit, InHands
<1>4. Alone
  BY DEF MicInit, Alone, Living
<1>5. MicStreamsApart
  BY DEF MicInit, MicStreamsApart
<1> QED
  BY <1>1, <1>2, <1>3, <1>4, <1>5 DEF MicInv

\* A session that takes no step knows what it knew, while its injector is given
\* nothing.
LEMMA Bystander ==
  ASSUME NEW s \in Uplinks, ReceiverKnows(s),
         micAt'[s] = micAt[s], mic'[s] = mic[s], chunk'[s] = chunk[s], held'[s] = held[s],
         \A p \in held[s] : fed'[p] = fed[p]
  PROVE  ReceiverKnows(s)'
BY DEF ReceiverKnows, Recorded

\* Nobody starts an injector, and none is given up by a receiver that goes on.
LEMMA NobodyNew ==
  ASSUME MicInv, MicShape', UNCHANGED owner,
         \A p \in Injectors : life'[p] \in {"running", "killed"} => life[p] \in {"running", "killed"},
         \A s \in Uplinks : /\ micAt'[s] # "over" => micAt[s] # "over"
                            /\ \/ held'[s] = held[s]
                               \/ micAt'[s] = "over"
                               \/ \A p \in held[s] : life'[p] \notin {"running", "killed"}
  PROVE  Alone'
<1> SUFFICES ASSUME NEW s \in Uplinks
             PROVE  /\ micAt'[s] # "over" => \A p \in Injectors : Living(p, s)' => p \in held'[s]
                    /\ \A p, q \in Injectors : Living(p, s)' /\ Living(q, s)' => p = q
  BY DEF Alone
<1>1. \A p \in Injectors : Living(p, s)' => Living(p, s)
  BY DEF Living
<1>2. \A p, q \in Injectors : Living(p, s)' /\ Living(q, s)' => p = q
  BY <1>1 DEF MicInv, Alone
<1>3. ASSUME micAt'[s] # "over", NEW p \in Injectors, Living(p, s)' PROVE p \in held'[s]
  <2>1. p \in held[s]
    BY <1>1, <1>3 DEF MicInv, Alone
  <2> QED
    BY <1>3, <2>1 DEF Living
<1> QED
  BY <1>2, <1>3

\* The sessions but s stand by.
LEMMA Bystanders ==
  ASSUME MicInv, NEW s \in Uplinks, ReceiverKnows(s)',
         \A t \in Uplinks \ {s} : /\ micAt'[t] = micAt[t] /\ mic'[t] = mic[t]
                                 /\ chunk'[t] = chunk[t] /\ held'[t] = held[t]
                                 /\ \A p \in held[t] : fed'[p] = fed[p]
  PROVE  \A t \in Uplinks : ReceiverKnows(t)'
BY Bystander DEF MicInv

\* LetGo keeps whose hands the injectors are in.
LEMMA LetGoHands ==
  ASSUME MicInv, NEW s \in Uplinks, LetGo(s), UNCHANGED <<owner, fed>>,
         \A p \in Injectors : life'[p] = "none" <=> life[p] = "none"
  PROVE  InHands'
<1>1. /\ held'[s] = {} /\ \A t \in Uplinks \ {s} : held'[t] = held[t]
      /\ \A p \in Injectors : input'[p] <=> input[p] /\ p \notin held[s]
  BY DEF LetGo, MicInv, MicShape
<1>2. ASSUME NEW t \in Uplinks, NEW p \in held'[t] PROVE owner'[p] = t /\ input'[p]
  <2>1. t # s /\ p \in held[t] /\ p \in Injectors
    BY <1>1, <1>2, OneHeld DEF MicInv
  <2>2. owner[p] = t /\ input[p]
    BY <2>1 DEF MicInv, InHands
  <2>3. p \notin held[s]
    BY <2>1, <2>2 DEF MicInv, InHands
  <2> QED
    BY <1>1, <2>1, <2>2, <2>3
<1>3. ASSUME NEW p \in Injectors, input'[p] PROVE owner'[p] \in Uplinks /\ p \in held'[owner'[p]]
  <2>1. input[p] /\ p \notin held[s]
    BY <1>1, <1>3
  <2>2. owner[p] \in Uplinks /\ p \in held[owner[p]]
    BY <2>1 DEF MicInv, InHands
  <2> QED
    BY <1>1, <2>1, <2>2
<1>4. ASSUME NEW p \in Injectors, life'[p] = "none" PROVE ~input'[p] /\ fed'[p] = <<>>
  BY <1>1, <1>4 DEF MicInv, InHands
<1>5. ASSUME NEW p \in Injectors, life'[p] # "none" PROVE owner'[p] \in Uplinks
  BY <1>5 DEF MicInv, InHands
<1> QED
  BY <1>2, <1>3, <1>4, <1>5 DEF InHands

\* Whoever holds what it held.
LEMMA SameHands ==
  ASSUME MicInv, UNCHANGED <<held, input, owner, fed>>,
         \A p \in Injectors : life'[p] = "none" <=> life[p] = "none"
  PROVE  InHands'
BY DEF MicInv, InHands

-----------------------------------------------------------------------------
(* The steps. *)

\* Killed sends a signal, no more.
LEMMA KilledIs ==
  ASSUME MicShape, NEW s \in Uplinks, Killed(s) \/ UNCHANGED life
  PROVE  /\ life' \in [Injectors -> {"none", "running", "killed", "dead"}]
         /\ \A p \in Injectors : /\ life'[p] = "none" <=> life[p] = "none"
                                 /\ life'[p] \in {"running", "killed"} <=> life[p] \in {"running", "killed"}
BY DEF Killed, MicShape

\* The next chunk: of the recording the receiver knows, or the first of another.
LEMMA MicChunkIsGood ==
  ASSUME MicInv, NEW s \in Uplinks, MicChunk(s)
  PROVE  MicInv'
<1>1. PICK c \in NextChunks(s) :
        /\ chunk' = [chunk EXCEPT ![s] = c]
        /\ CASE mic[s] = "failed" -> UNCHANGED <<micAt, life>>
             [] mic[s] = "idle"   -> MicGo(s, "starting") /\ UNCHANGED life
             [] mic[s] = "active" /\ c.stream = chunk[s].stream -> MicGo(s, "writing") /\ UNCHANGED life
             [] OTHER             -> MicGo(s, "switching") /\ Killed(s)
  BY DEF MicChunk
<1>2. micAt[s] = "receive" /\ UNCHANGED <<mic, held, input, owner, fed>>
  BY DEF MicChunk, MicAt
<1>3. /\ c \in [stream : Nat, n : Nat]
      /\ \/ c.stream = chunk[s].stream /\ c.n = chunk[s].n + 1 /\ chunk[s].stream > 0
         \/ c.stream = chunk[s].stream + 1 /\ c.n = 1
  BY DEF NextChunks, MicInv, MicShape
<1>4. /\ chunk'[s] = c /\ chunk' \in [Uplinks -> [stream : Nat, n : Nat]]
      /\ \A t \in Uplinks \ {s} : chunk'[t] = chunk[t]
  BY <1>1, <1>3 DEF MicInv, MicShape
<1>5. \/ mic[s] = "failed" /\ UNCHANGED <<micAt, life>>
      \/ mic[s] = "idle" /\ MicGo(s, "starting") /\ UNCHANGED life
      \/ mic[s] = "active" /\ c.stream = chunk[s].stream /\ MicGo(s, "writing") /\ UNCHANGED life
      \/ mic[s] = "active" /\ c.stream # chunk[s].stream /\ MicGo(s, "switching") /\ Killed(s)
  BY <1>1 DEF MicInv, MicShape
<1>6. /\ micAt' \in [Uplinks -> Receiving \cup Awaits \cup {"over"}]
      /\ micAt'[s] # "over"
      /\ \A t \in Uplinks \ {s} : micAt'[t] = micAt[t]
  BY <1>2, <1>5 DEF MicGo, MicInv, MicShape, Awaits
<1>7. /\ life' \in [Injectors -> {"none", "running", "killed", "dead"}]
      /\ \A p \in Injectors : /\ life'[p] = "none" <=> life[p] = "none"
                              /\ life'[p] \in {"running", "killed"} <=> life[p] \in {"running", "killed"}
  BY <1>5, KilledIs DEF MicInv
<1>8. MicShape'
  BY <1>2, <1>4, <1>6, <1>7 DEF MicInv, MicShape
<1>9. ReceiverKnows(s)'
  <2>1. CASE mic[s] = "failed" /\ UNCHANGED <<micAt, life>>
    BY <1>2, <2>1 DEF ReceiverKnows
  <2>2. CASE mic[s] = "idle" /\ MicGo(s, "starting")
    <3>1. micAt'[s] = "starting" /\ chunk'[s].n = 1 /\ held'[s] = {}
      BY <1>2, <1>3, <1>4, <2>2 DEF MicInv, MicShape, ReceiverKnows, MicGo
    <3> QED
      BY <3>1 DEF ReceiverKnows
  <2>3. CASE mic[s] = "active" /\ c.stream = chunk[s].stream /\ MicGo(s, "writing")
    <3>1. micAt'[s] = "writing" /\ c.n = chunk[s].n + 1
      BY <1>3, <2>3 DEF MicInv, MicShape, MicGo
    <3>2. PICK p \in Injectors : held[s] = {p} /\ Len(fed[p]) = chunk[s].n /\ Recorded(p, chunk[s])
      BY <1>2, <2>3 DEF MicInv, ReceiverKnows
    <3>3. held'[s] = {p} /\ Len(fed'[p]) + 1 = chunk'[s].n /\ Recorded(p, chunk[s])'
      BY <1>2, <1>4, <2>3, <3>1, <3>2 DEF Recorded
    <3> QED
      BY <3>1, <3>3 DEF ReceiverKnows
  <2>4. CASE mic[s] = "active" /\ c.stream # chunk[s].stream /\ MicGo(s, "switching")
    <3>1. micAt'[s] = "switching" /\ chunk'[s].n = 1
      BY <1>3, <1>4, <2>4 DEF MicInv, MicShape, MicGo
    <3> QED
      BY <3>1 DEF ReceiverKnows
  <2> QED
    BY <1>5, <2>1, <2>2, <2>3, <2>4
<1>10. \A t \in Uplinks : ReceiverKnows(t)'
  BY <1>2, <1>4, <1>6, <1>9, Bystanders
<1>11. InHands'
  BY <1>2, <1>7, SameHands
<1>12. Alone'
  BY <1>2, <1>6, <1>7, <1>8, NobodyNew
<1>13. MicStreamsApart'
  BY <1>2 DEF MicInv, MicStreamsApart
<1> QED
  BY <1>8, <1>10, <1>11, <1>12, <1>13 DEF MicInv

\* A receiver that lets go of its injector, which has exited unless it is over.
LEMMA LetGoIsGood ==
  ASSUME MicInv, NEW s \in Uplinks,
         NEW to \in {"starting", "receive", "over"}, NEW m \in {"idle", "active", "failed"},
         MicGo(s, to), mic' = [mic EXCEPT ![s] = m], LetGo(s), micAt[s] # "over",
         UNCHANGED <<chunk, life, owner, fed>>,
         Exited(s) \/ to = "over",
         to = "starting" => chunk[s].n = 1,
         to = "receive" => m = "failed"
  PROVE  MicInv'
<1>1. /\ micAt'[s] = to /\ mic'[s] = m /\ held'[s] = {}
      /\ \A t \in Uplinks \ {s} : micAt'[t] = micAt[t] /\ mic'[t] = mic[t] /\ held'[t] = held[t]
  BY DEF MicGo, LetGo, MicInv, MicShape
<1>2. MicShape'
  <2>1. micAt' \in [Uplinks -> Receiving \cup Awaits \cup {"over"}]
    BY DEF MicGo, MicInv, MicShape, Receiving, Awaits
  <2>2. held' \in [Uplinks -> {{}} \cup {{p} : p \in Injectors}]
    BY DEF LetGo, MicInv, MicShape
  <2>3. input' \in [Injectors -> BOOLEAN]
    BY DEF LetGo
  <2> QED
    BY <2>1, <2>2, <2>3 DEF MicInv, MicShape
<1>3. ReceiverKnows(s)'
  BY <1>1 DEF ReceiverKnows
<1>4. \A t \in Uplinks : ReceiverKnows(t)'
  BY <1>1, <1>3, Bystanders
<1>5. InHands'
  BY LetGoHands
<1>6. Alone'
  BY <1>1, <1>2, NobodyNew DEF Exited
<1>7. MicStreamsApart'
  BY DEF MicInv, MicStreamsApart
<1> QED
  BY <1>2, <1>4, <1>5, <1>6, <1>7 DEF MicInv

\* A receiver that goes to the end of its injector, or its own.
LEMMA KeptIsGood ==
  ASSUME MicInv, NEW s \in Uplinks,
         NEW to \in {"failing", "ending"}, NEW m \in {"idle", "active", "failed"},
         MicGo(s, to), mic' = [mic EXCEPT ![s] = m], micAt[s] # "over",
         Killed(s) \/ UNCHANGED life,
         UNCHANGED <<chunk, held, input, owner, fed>>,
         to = "failing" => m = "failed"
  PROVE  MicInv'
<1>1. /\ micAt'[s] = to /\ mic'[s] = m
      /\ \A t \in Uplinks \ {s} : micAt'[t] = micAt[t] /\ mic'[t] = mic[t]
  BY DEF MicGo, MicInv, MicShape
<1>2. /\ life' \in [Injectors -> {"none", "running", "killed", "dead"}]
      /\ \A p \in Injectors : /\ life'[p] = "none" <=> life[p] = "none"
                              /\ life'[p] \in {"running", "killed"} <=> life[p] \in {"running", "killed"}
  BY KilledIs DEF MicInv
<1>3. MicShape'
  <2>1. micAt' \in [Uplinks -> Receiving \cup Awaits \cup {"over"}]
    BY DEF MicGo, MicInv, MicShape, Receiving, Awaits
  <2> QED
    BY <1>2, <2>1 DEF MicInv, MicShape
<1>4. ReceiverKnows(s)'
  BY <1>1 DEF ReceiverKnows
<1>5. \A t \in Uplinks : ReceiverKnows(t)'
  BY <1>1, <1>4, Bystanders
<1>6. InHands'
  BY <1>2, SameHands
<1>7. Alone'
  BY <1>1, <1>2, <1>3, NobodyNew
<1>8. MicStreamsApart'
  BY DEF MicInv, MicStreamsApart
<1> QED
  BY <1>3, <1>5, <1>6, <1>7, <1>8 DEF MicInv

\* A new injector, for a session that has none left alive.
LEMMA MicStartsIsGood ==
  ASSUME MicInv, NEW s \in Uplinks, MicStarts(s)
  PROVE  MicInv'
<1>1. PICK p \in Injectors :
        /\ life[p] = "none"
        /\ life' = [life EXCEPT ![p] = "running"]
        /\ input' = [input EXCEPT ![p] = TRUE]
        /\ owner' = [owner EXCEPT ![p] = s]
        /\ held' = [held EXCEPT ![s] = {p}]
  BY DEF MicStarts
<1>2. /\ micAt[s] = "starting" /\ micAt' = [micAt EXCEPT ![s] = "writing"]
      /\ UNCHANGED <<mic, chunk, fed>>
  BY DEF MicStarts, MicAt, MicGo
<1>3. /\ chunk[s].n = 1 /\ held[s] = {} /\ fed[p] = <<>> /\ ~input[p]
  BY <1>1, <1>2 DEF MicInv, ReceiverKnows, InHands
<1>4. MicShape'
  <2>1. micAt' \in [Uplinks -> Receiving \cup Awaits \cup {"over"}]
    BY <1>2 DEF MicInv, MicShape, Awaits
  <2>2. held' \in [Uplinks -> {{}} \cup {{q} : q \in Injectors}]
    BY <1>1 DEF MicInv, MicShape
  <2>3. owner' = [q \in Injectors |-> owner'[q]]
    BY <1>1 DEF MicInv, MicShape
  <2>4. life' \in [Injectors -> {"none", "running", "killed", "dead"}] /\ input' \in [Injectors -> BOOLEAN]
    BY <1>1 DEF MicInv, MicShape
  <2> QED
    BY <1>2, <2>1, <2>2, <2>3, <2>4 DEF MicInv, MicShape
<1>5. /\ held'[s] = {p} /\ micAt'[s] = "writing"
      /\ owner'[p] = s /\ life'[p] = "running" /\ input'[p]
      /\ \A t \in Uplinks \ {s} : held'[t] = held[t] /\ micAt'[t] = micAt[t]
      /\ \A q \in Injectors \ {p} : owner'[q] = owner[q] /\ life'[q] = life[q] /\ input'[q] = input[q]
  BY <1>1, <1>2 DEF MicInv, MicShape
<1>6. \A t \in Uplinks : p \notin held[t]
  BY <1>3 DEF MicInv, InHands
<1>7. \A t \in Uplinks : ReceiverKnows(t)'
  <2>1. ReceiverKnows(s)'
    <3>1. Len(fed'[p]) + 1 = chunk'[s].n /\ Recorded(p, chunk[s])'
      BY <1>2, <1>3 DEF Recorded
    <3> QED
      BY <1>5, <3>1 DEF ReceiverKnows
  <2> QED
    BY <1>2, <1>5, <2>1, Bystanders
<1>8. InHands'
  <2>1. ASSUME NEW t \in Uplinks, NEW q \in held'[t] PROVE owner'[q] = t /\ input'[q]
    <3>1. CASE t = s
      BY <1>5, <2>1, <3>1
    <3>2. CASE t # s
      <4>1. q \in held[t] /\ q \in Injectors \ {p}
        BY <1>5, <1>6, <2>1, <3>2, OneHeld DEF MicInv
      <4> QED
        BY <1>5, <4>1 DEF MicInv, InHands
    <3> QED
      BY <3>1, <3>2
  <2>2. ASSUME NEW q \in Injectors, input'[q] PROVE owner'[q] \in Uplinks /\ q \in held'[owner'[q]]
    <3>1. CASE q = p
      BY <1>5, <3>1
    <3>2. CASE q # p
      <4>1. owner[q] \in Uplinks /\ q \in held[owner[q]]
        BY <1>5, <2>2, <3>2 DEF MicInv, InHands
      <4> QED
        BY <1>3, <1>5, <3>2, <4>1
    <3> QED
      BY <3>1, <3>2
  <2>3. ASSUME NEW q \in Injectors, life'[q] = "none" PROVE ~input'[q] /\ fed'[q] = <<>>
    BY <1>2, <1>5, <2>3 DEF MicInv, InHands
  <2>4. ASSUME NEW q \in Injectors, life'[q] # "none" PROVE owner'[q] \in Uplinks
    BY <1>5, <2>4 DEF MicInv, InHands
  <2> QED
    BY <2>1, <2>2, <2>3, <2>4 DEF InHands
<1>9. Alone'
  <2>1. \A q \in Injectors : ~Living(q, s)
    BY <1>2, <1>3 DEF MicInv, Alone
  <2>2. \A q \in Injectors : Living(q, s)' => q = p
    BY <1>5, <2>1 DEF Living
  <2>3. \A t \in Uplinks \ {s}, q \in Injectors : Living(q, t)' => Living(q, t)
    BY <1>5 DEF Living
  <2>4. ASSUME NEW t \in Uplinks \ {s}
        PROVE  /\ micAt'[t] # "over" => \A q \in Injectors : Living(q, t)' => q \in held'[t]
               /\ \A q, r \in Injectors : Living(q, t)' /\ Living(r, t)' => q = r
    BY <1>5, <2>3 DEF MicInv, Alone
  <2> QED
    BY <1>5, <2>2, <2>4 DEF Alone
<1>10. MicStreamsApart'
  BY <1>2 DEF MicInv, MicStreamsApart
<1> QED
  BY <1>4, <1>7, <1>8, <1>9, <1>10 DEF MicInv

\* The next chunk of the recording goes to the injector that has had those before.
LEMMA MicWritesIsGood ==
  ASSUME MicInv, NEW s \in Uplinks, MicWrites(s)
  PROVE  MicInv'
<1>1. micAt[s] = "writing"
  BY DEF MicWrites, MicAt
<1>2. PICK p \in Injectors : held[s] = {p} /\ Len(fed[p]) + 1 = chunk[s].n /\ Recorded(p, chunk[s])
  BY <1>1 DEF MicInv, ReceiverKnows
<1>3. Injector(s) = p
  BY <1>2, InjectorIs
<1>4. /\ fed' = [fed EXCEPT ![p] = Append(@, chunk[s])]
      /\ mic' = [mic EXCEPT ![s] = "active"]
      /\ micAt' = [micAt EXCEPT ![s] = "receive"]
      /\ UNCHANGED <<chunk, held, life, input, owner>>
      /\ life[p] = "running"
  BY <1>3 DEF MicWrites, MicGo
<1>5. /\ fed[p] \in Seq([stream : Nat, n : Nat]) /\ Len(fed[p]) \in Nat
      /\ chunk[s] \in [stream : Nat, n : Nat]
      /\ chunk[s] = [stream |-> chunk[s].stream, n |-> Len(fed[p]) + 1]
  BY <1>2 DEF MicInv, MicShape
<1>6. /\ fed'[p] = Append(fed[p], chunk[s])
      /\ \A q \in Injectors \ {p} : fed'[q] = fed[q]
      /\ fed' \in [Injectors -> Seq([stream : Nat, n : Nat])]
  BY <1>4, <1>5 DEF MicInv, MicShape
<1>7. /\ Len(fed'[p]) = Len(fed[p]) + 1
      /\ \A i \in 1..Len(fed'[p]) : fed'[p][i] = [stream |-> chunk[s].stream, n |-> i]
  <2>1. /\ Len(Append(fed[p], chunk[s])) = Len(fed[p]) + 1
        /\ Append(fed[p], chunk[s])[Len(fed[p]) + 1] = chunk[s]
        /\ \A i \in 1..Len(fed[p]) : Append(fed[p], chunk[s])[i] = fed[p][i]
    BY <1>5
  <2>2. ASSUME NEW i \in 1..Len(fed'[p]) PROVE fed'[p][i] = [stream |-> chunk[s].stream, n |-> i]
    <3>1. CASE i = Len(fed[p]) + 1
      BY <1>5, <1>6, <2>1, <3>1
    <3>2. CASE i # Len(fed[p]) + 1
      <4>1. i \in 1..Len(fed[p])
        BY <1>5, <1>6, <2>1, <3>2
      <4> QED
        BY <1>2, <1>6, <2>1, <4>1 DEF Recorded
    <3> QED
      BY <3>1, <3>2
  <2> QED
    BY <1>6, <2>1, <2>2
<1>8. MicShape'
  <2>1. micAt' \in [Uplinks -> Receiving \cup Awaits \cup {"over"}]
    BY <1>4 DEF MicInv, MicShape, Receiving
  <2> QED
    BY <1>4, <1>6, <2>1 DEF MicInv, MicShape
<1>9. /\ micAt'[s] = "receive" /\ mic'[s] = "active"
      /\ \A t \in Uplinks \ {s} : micAt'[t] = micAt[t] /\ mic'[t] = mic[t]
  BY <1>4 DEF MicInv, MicShape
<1>10. \A t \in Uplinks : ReceiverKnows(t)'
  <2>1. ReceiverKnows(s)'
    <3>1. held'[s] = {p} /\ Len(fed'[p]) = chunk'[s].n /\ Recorded(p, chunk[s])'
      BY <1>2, <1>4, <1>7 DEF Recorded
    <3> QED
      BY <1>9, <3>1 DEF ReceiverKnows
  <2>2. ASSUME NEW t \in Uplinks \ {s}, NEW q \in held[t] PROVE fed'[q] = fed[q]
    <3>1. owner[q] = t /\ owner[p] = s /\ q \in Injectors
      BY <1>2, OneHeld DEF MicInv, InHands
    <3> QED
      BY <1>6, <3>1
  <2> QED
    BY <1>4, <1>9, <2>1, <2>2, Bystanders
<1>11. InHands'
  <2>1. ASSUME NEW q \in Injectors, life'[q] = "none" PROVE ~input'[q] /\ fed'[q] = <<>>
    <3>1. q # p /\ life[q] = "none"
      BY <1>4, <2>1
    <3> QED
      BY <1>4, <1>6, <3>1 DEF MicInv, InHands
  <2> QED
    BY <1>4, <2>1 DEF MicInv, InHands
<1>12. Alone'
  BY <1>1, <1>4, <1>8, <1>9, NobodyNew
<1>13. MicStreamsApart'
  <2>1. ASSUME NEW q \in Injectors, NEW i \in DOMAIN fed'[q]
        PROVE  fed'[q][i] = [stream |-> fed'[q][1].stream, n |-> i]
    <3>1. CASE q = p
      <4>1. DOMAIN fed'[p] = 1..Len(fed'[p]) /\ 1 \in 1..Len(fed'[p])
        BY <1>5, <1>6, <1>7
      <4>2. i \in 1..Len(fed'[p])
        BY <2>1, <3>1, <4>1
      <4>3. fed'[p][i] = [stream |-> chunk[s].stream, n |-> i]
        BY <1>7, <4>2
      <4>4. fed'[p][1] = [stream |-> chunk[s].stream, n |-> 1]
        BY <1>7, <4>1
      <4>5. fed'[p][1].stream = chunk[s].stream
        BY <4>4
      <4> QED
        BY <3>1, <4>3, <4>5
    <3>2. CASE q # p
      <4>1. fed'[q] = fed[q] /\ i \in DOMAIN fed[q]
        BY <1>6, <2>1, <3>2
      <4>2. fed[q][i] = [stream |-> fed[q][1].stream, n |-> i]
        BY <4>1 DEF MicInv, MicStreamsApart
      <4> QED
        BY <4>1, <4>2
    <3> QED
      BY <3>1, <3>2
  <2> QED
    BY <2>1 DEF MicStreamsApart
<1> QED
  BY <1>8, <1>10, <1>11, <1>12, <1>13 DEF MicInv

\* An injector exits.
LEMMA MicExitIsGood ==
  ASSUME MicInv, NEW p \in Injectors, InjectorExits(p)
  PROVE  MicInv'
<1>1. /\ life' \in [Injectors -> {"none", "running", "killed", "dead"}]
      /\ \A q \in Injectors : /\ life'[q] = "none" <=> life[q] = "none"
                              /\ life'[q] \in {"running", "killed"} => life[q] \in {"running", "killed"}
      /\ UNCHANGED <<mic, micAt, chunk, held, input, owner, fed>>
  BY DEF InjectorExits, MicInv, MicShape
<1>2. MicShape'
  BY <1>1 DEF MicInv, MicShape
<1>3. \A s \in Uplinks : ReceiverKnows(s)'
  BY <1>1, Bystander DEF MicInv
<1>4. InHands'
  BY <1>1, SameHands
<1>5. Alone'
  BY <1>1, <1>2, NobodyNew
<1>6. MicStreamsApart'
  BY <1>1 DEF MicInv, MicStreamsApart
<1> QED
  BY <1>2, <1>3, <1>4, <1>5, <1>6 DEF MicInv

-----------------------------------------------------------------------------
\* Every step of a receiver keeps the invariant.
LEMMA ReceiverIsGood ==
  ASSUME MicInv, NEW s \in Uplinks,
         \/ MicChunk(s) \/ MicSwitched(s) \/ MicStarts(s) \/ MicStartFails(s)
         \/ MicWrites(s) \/ MicWriteFails(s) \/ MicFailed(s)
         \/ MicEnds(s) \/ MicEnded(s) \/ MicBreaks(s) \/ MicAborted(s)
  PROVE  MicInv'
<1>0. mic[s] \in {"idle", "active", "failed"} /\ mic = [mic EXCEPT ![s] = mic[s]]
  BY DEF MicInv, MicShape
<1>1. CASE MicChunk(s)
  BY <1>1, MicChunkIsGood
<1>2. CASE MicSwitched(s)
  <2>1. micAt[s] = "switching" /\ chunk[s].n = 1
    BY <1>2 DEF MicSwitched, MicAt, MicInv, ReceiverKnows
  <2> QED
    BY <1>2, <2>1, LetGoIsGood DEF MicSwitched
<1>3. CASE MicStarts(s)
  BY <1>3, MicStartsIsGood
<1>4. CASE MicStartFails(s)
  <2>1. /\ micAt[s] # "over" /\ mic' = [mic EXCEPT ![s] = "failed"] /\ MicGo(s, "failing")
        /\ UNCHANGED <<chunk, held, life, input, owner, fed>>
    BY <1>4 DEF MicStartFails, MicAt
  <2> QED
    BY <2>1, KeptIsGood
<1>5. CASE MicWrites(s)
  BY <1>5, MicWritesIsGood
<1>6. CASE MicWriteFails(s)
  <2>1. /\ micAt[s] # "over" /\ mic' = [mic EXCEPT ![s] = "failed"] /\ MicGo(s, "failing")
        /\ UNCHANGED <<chunk, held, life, input, owner, fed>>
    BY <1>6 DEF MicWriteFails, MicAt
  <2> QED
    BY <2>1, KeptIsGood
<1>7. CASE MicFailed(s)
  <2>1. micAt[s] = "failing" /\ mic[s] = "failed" /\ mic' = mic
    BY <1>7 DEF MicFailed, MicAt, MicInv, ReceiverKnows
  <2> QED
    BY <1>0, <1>7, <2>1, LetGoIsGood DEF MicFailed
<1>8. CASE MicEnds(s)
  <2>1. /\ micAt[s] # "over" /\ mic' = mic /\ MicGo(s, "ending") /\ Killed(s)
        /\ UNCHANGED <<chunk, held, input, owner, fed>>
    BY <1>8 DEF MicEnds, MicAt
  <2> QED
    BY <1>0, <2>1, KeptIsGood
<1>9. CASE MicEnded(s)
  <2>1. /\ micAt[s] # "over" /\ mic' = [mic EXCEPT ![s] = "idle"] /\ MicGo(s, "over") /\ LetGo(s)
        /\ UNCHANGED <<chunk, life, owner, fed>>
    BY <1>9 DEF MicEnded, MicAt
  <2> QED
    BY <2>1, LetGoIsGood
<1>10. CASE MicBreaks(s)
  <2>1. micAt[s] # "over" /\ UNCHANGED <<mic, chunk, owner, fed>>
    BY <1>10 DEF MicBreaks, MicAt
  <2>2. CASE s \in MicSockets
    <3>1. MicGo(s, "over") /\ LetGo(s) /\ UNCHANGED life
      BY <1>10, <2>2 DEF MicBreaks
    <3> QED
      BY <1>0, <2>1, <3>1, LetGoIsGood
  <2>3. CASE s \notin MicSockets
    <3>1. MicGo(s, "ending") /\ Killed(s) /\ UNCHANGED <<held, input>>
      BY <1>10, <2>3 DEF MicBreaks
    <3> QED
      BY <1>0, <2>1, <3>1, KeptIsGood
  <2> QED
    BY <2>2, <2>3
<1>11. CASE MicAborted(s)
  <2>1. micAt[s] # "over" /\ MicGo(s, "over") /\ LetGo(s) /\ UNCHANGED <<mic, chunk, life, owner, fed>>
    BY <1>11 DEF MicAborted, Receiving, Awaits
  <2> QED
    BY <1>0, <2>1, LetGoIsGood
<1> QED
  BY <1>1, <1>2, <1>3, <1>4, <1>5, <1>6, <1>7, <1>8, <1>9, <1>10, <1>11

\* Every step keeps the invariant.
LEMMA MicStepIsGood == MicInv /\ [MicNext]_micVars => MicInv'
<1> SUFFICES ASSUME MicInv, [MicNext]_micVars PROVE MicInv'
  OBVIOUS
<1>1. ASSUME NEW s \in Uplinks,
             \/ MicChunk(s) \/ MicSwitched(s) \/ MicStarts(s) \/ MicStartFails(s)
             \/ MicWrites(s) \/ MicWriteFails(s) \/ MicFailed(s)
             \/ MicEnds(s) \/ MicEnded(s) \/ MicBreaks(s) \/ MicAborted(s)
      PROVE  MicInv'
  BY <1>1, ReceiverIsGood
<1>2. ASSUME NEW p \in Injectors, InjectorExits(p) PROVE MicInv'
  BY <1>2, MicExitIsGood
<1>3. CASE UNCHANGED micVars
  <2>1. UNCHANGED <<mic, micAt, chunk, held, life, input, owner, fed>>
    BY <1>3 DEF micVars
  <2>2. MicShape' /\ InHands' /\ MicStreamsApart'
    BY <2>1 DEF MicInv, MicShape, InHands, MicStreamsApart
  <2>3. \A s \in Uplinks : ReceiverKnows(s)'
    BY <2>1, Bystander DEF MicInv
  <2>4. Alone'
    BY <2>1, <2>2, NobodyNew
  <2> QED
    BY <2>2, <2>3, <2>4 DEF MicInv
<1> QED
  BY <1>1, <1>2, <1>3 DEF MicNext

\* InHands and Alone say who minds an injector.
LEMMA AloneIsMinded == MicInv => MicIsMinded
<1> SUFFICES ASSUME MicInv PROVE MicIsMinded
  OBVIOUS
<1>1. ASSUME NEW s \in Uplinks
      PROVE  Cardinality({p \in Injectors : owner[p] = s /\ life[p] \in {"running", "killed"}}) <= 1
  <2> DEFINE living == {p \in Injectors : owner[p] = s /\ life[p] \in {"running", "killed"}}
  <2>1. \A p, q \in living : p = q
    BY DEF MicInv, Alone, Living
  <2> HIDE DEF living
  <2>2. Cardinality(living) <= 1
    <3>1. CASE living = {}
      BY <3>1, FS_EmptySet
    <3>2. CASE living # {}
      <4>1. PICK p : living = {p}
        BY <2>1, <3>2
      <4> QED
        BY <4>1, FS_Singleton
    <3> QED
      BY <3>1, <3>2
  <2> QED
    BY <2>2 DEF living
<1>2. ASSUME NEW p \in Injectors, life[p] = "running" PROVE p \in held[owner[p]] <=> input[p]
  <2>1. owner[p] \in Uplinks
    BY <1>2 DEF MicInv, InHands
  <2> QED
    BY <2>1 DEF MicInv, InHands
<1> QED
  BY <1>1, <1>2 DEF MicIsMinded

\* The chunks are within the model's bounds, and an injector's owner is a session.
Bounded ==
  /\ chunk \in [Uplinks -> [stream : 0..MaxStream, n : 0..MaxChunk]]
  /\ owner \in [Injectors -> Uplinks]

\* Only MicChunk changes the chunk and only MicStarts an owner.
LEMMA BoundedIsKept ==
  ASSUME Bounded, [MicNext]_micVars
  PROVE  Bounded'
<1>1. CASE UNCHANGED <<chunk, owner>>
  BY <1>1 DEF Bounded
<1>2. ASSUME NEW s \in Uplinks, MicChunk(s) PROVE Bounded'
  <2>1. PICK c \in NextChunks(s) : chunk' = [chunk EXCEPT ![s] = c]
    BY <1>2 DEF MicChunk
  <2>2. chunk[s] \in [stream : 0..MaxStream, n : 0..MaxChunk]
    BY DEF Bounded
  <2>3. c \in [stream : 0..MaxStream, n : 0..MaxChunk]
    BY <2>2, MicAssumption DEF NextChunks
  <2> QED
    BY <1>2, <2>1, <2>3 DEF Bounded, MicChunk
<1>3. ASSUME NEW s \in Uplinks, MicStarts(s) PROVE Bounded'
  BY <1>3 DEF Bounded, MicStarts
<1>4. CASE UNCHANGED micVars
  BY <1>1, <1>4 DEF micVars
<1>5. ASSUME NEW s \in Uplinks,
             \/ MicSwitched(s) \/ MicStartFails(s) \/ MicWrites(s) \/ MicWriteFails(s) \/ MicFailed(s)
             \/ MicEnds(s) \/ MicEnded(s) \/ MicBreaks(s) \/ MicAborted(s)
      PROVE  UNCHANGED <<chunk, owner>>
  BY <1>5 DEF MicSwitched, MicStartFails, MicWrites, MicWriteFails, MicFailed, MicEnds, MicEnded,
              MicBreaks, MicAborted
<1>6. ASSUME NEW p \in Injectors, InjectorExits(p) PROVE UNCHANGED <<chunk, owner>>
  BY <1>6 DEF InjectorExits
<1> QED
  BY <1>1, <1>2, <1>3, <1>4, <1>5, <1>6 DEF MicNext

\* It begins so.
LEMMA BoundedAtFirst == MicInit => Bounded
<1> SUFFICES ASSUME MicInit PROVE Bounded
  OBVIOUS
<1>1. (CHOOSE s \in Uplinks : TRUE) \in Uplinks
  <2>1. \E s \in Uplinks : TRUE
    BY MicAssumption
  <2> QED
    BY <2>1, Zenon
<1>2. owner \in [Injectors -> Uplinks]
  BY <1>1 DEF MicInit
<1> QED
  BY <1>2, MicAssumption DEF MicInit, Bounded

\* What the invariant says of the properties.
LEMMA MicInvSays == MicInv => MicStreamsApart /\ MicIsMinded /\ (Bounded => MicTypeOK)
<1>1. MicInv => MicStreamsApart
  BY DEF MicInv
<1>2. MicInv /\ Bounded => MicTypeOK
  BY DEF MicInv, MicShape, Bounded, MicTypeOK
<1> QED
  BY <1>1, <1>2, AloneIsMinded

-----------------------------------------------------------------------------
\* Whatever fails, is aborted or exits late (forward_client_binary), an injector is
\* given one recording from its header on.
THEOREM RecordingsStayApart == MicSpec => []MicStreamsApart
BY MicInitIsGood, MicStepIsGood, MicInvSays, PTL DEF MicSpec

\* A session has one living injector at most, in its hands or at the end of its input
\* (shutdown_mic_input).
THEOREM InjectorsAreMinded == MicSpec => []MicIsMinded
BY MicInitIsGood, MicStepIsGood, MicInvSays, PTL DEF MicSpec

\* The state of the microphone keeps its shape, and its bounds.
THEOREM MicTypeCorrect == MicSpec => []MicTypeOK
<1>1. MicSpec => [](MicInv /\ Bounded)
  BY MicInitIsGood, MicStepIsGood, BoundedAtFirst, BoundedIsKept, PTL DEF MicSpec
<1> QED
  BY <1>1, MicInvSays, PTL
=============================================================================
