--------------------------- MODULE CaptureHub_proofs ---------------------------
(***************************************************************************)
(* Proofs about CaptureHub, for any number of viewers, operators and       *)
(* settings.                                                               *)
(***************************************************************************)
EXTENDS CaptureHub, TLAPS, FiniteSetTheorems, SequenceTheorems

-----------------------------------------------------------------------------
(* The queue. *)

\* The queue and the places stay well typed when a task enters or leaves the
\* lock or moves on while it keeps it.
LEMMA LockTyping ==
  ASSUME TypeOK, NEW t \in Tasks, NEW place \in Places,
         Enter(t, place) \/ (queue # <<>> /\ Leave(t, place)) \/ Stay(t, place)
  PROVE  /\ queue' \in Seq(Tasks)
         /\ pc' \in [Tasks -> Places]
         /\ pc' = [pc EXCEPT ![t] = place]
<1>1. queue \in Seq(Tasks)
  BY DEF TypeOK
<1>2. /\ pc \in [Tasks -> Places]
      /\ pc' = [pc EXCEPT ![t] = place]
  BY DEF TypeOK, Enter, Leave, Stay
<1>3. queue' \in Seq(Tasks)
  <2>1. CASE Enter(t, place)
    BY <1>1, <2>1, AppendProperties DEF Enter
  <2>2. CASE queue # <<>> /\ Leave(t, place)
    BY <1>1, <2>2, HeadTailProperties DEF Leave
  <2>3. CASE Stay(t, place)
    BY <1>1, <2>3 DEF Stay
  <2>. QED  BY <2>1, <2>2, <2>3
<1>. QED  BY <1>2, <1>3

\* Taking a task out of the middle of the line leaves a line, with the same
\* head unless it was the head that went.
LEMMA RemoveFromLine ==
  ASSUME NEW S, NEW s \in Seq(S), NEW i \in DOMAIN s
  PROVE  /\ RemoveAt(s, i) \in Seq(S)
         /\ i # 1 => RemoveAt(s, i) # <<>> /\ Head(RemoveAt(s, i)) = Head(s)
<1>. DEFINE front == SubSeq(s, 1, i - 1)
            back  == SubSeq(s, i + 1, Len(s))
<1>1. /\ Len(s) \in Nat /\ i \in 1 .. Len(s)
      /\ \A j \in 1 .. Len(s) : s[j] \in S
  BY LenProperties, ElementOfSeq
<1>2. /\ front \in Seq(S) /\ Len(front) = IF 1 <= i - 1 THEN i - 1 ELSE 0
      /\ \A j \in 1 .. i - 1 : front[j] = s[j]
  <2>1. \A j \in 1 .. i - 1 : s[j] \in S
    BY <1>1
  <2>2. /\ 1 \in Int /\ i - 1 \in Int
    BY <1>1
  <2>. QED  BY <1>1, <2>1, <2>2, SubSeqProperties
<1>3. back \in Seq(S)
  <2>1. \A j \in i + 1 .. Len(s) : s[j] \in S
    BY <1>1
  <2>2. /\ i + 1 \in Int /\ Len(s) \in Int
    BY <1>1
  <2>. QED  BY <2>1, <2>2, SubSeqProperties
<1>4. /\ front \o back \in Seq(S)
      /\ Len(front \o back) = Len(front) + Len(back)
      /\ \A j \in 1 .. Len(front) + Len(back) :
           (front \o back)[j] = IF j <= Len(front) THEN front[j] ELSE back[j - Len(front)]
  BY <1>2, <1>3, ConcatProperties
<1>5. ASSUME i # 1
      PROVE  front \o back # <<>> /\ Head(front \o back) = Head(s)
  <2>1. Len(front) = i - 1 /\ i - 1 \in Nat \ {0} /\ Len(back) \in Nat
    BY <1>1, <1>2, <1>3, <1>5, LenProperties
  <2>2. (front \o back)[1] = s[1]
    BY <1>2, <1>4, <2>1
  <2>3. Len(front \o back) # 0
    BY <1>4, <2>1
  <2>. QED  BY <1>4, <2>2, <2>3, EmptySeq
<1>. QED  BY <1>4, <1>5 DEF RemoveAt

-----------------------------------------------------------------------------
(* Types. *)

LEMMA TasksAreTasks ==
  /\ Viewers \subseteq Tasks /\ Operators \subseteq Tasks /\ Server \in Tasks
  /\ \A v \in Viewers : v \notin Operators /\ v # Server
  /\ \A o \in Operators : o \notin Viewers /\ o # Server
BY HubAssumption DEF Tasks

LEMMA NoneIsNothing ==
  /\ None \notin Procs /\ None \notin Configs
  /\ None \notin [proc : Procs, config : Configs]
BY HubAssumption

\* ensure_active keeps the state well typed: it leaves the lock with an answer,
\* or waits for the old capture, or goes on to start a new one.
LEMMA EnsureActiveTyping ==
  ASSUME TypeOK, NEW t \in Tasks, NEW subs \in Nat, NEW want \in Configs,
         Holds(t), UNCHANGED running,
         EnsureActive(t, subs, want) \/ Retire(t) \/ (StartOrReturn(t, subs) /\ Idle)
  PROVE  /\ queue' \in Seq(Tasks)
         /\ pc' \in [Tasks -> Places]
         /\ active' \in [proc : Procs, config : Configs] \cup {None}
         /\ published' \in Configs \cup {None}
         /\ killed' \in SUBSET running'
         /\ victim' \in [Tasks -> Procs \cup {None}]
<1>1. CASE Retire(t)
  <2>1. active \in [proc : Procs, config : Configs]
    BY <1>1 DEF Retire, TypeOK
  <2>2. "retire" \in Places
    BY DEF Places, Holding
  <2>. QED  BY <1>1, <2>1, <2>2, LockTyping DEF Retire, TypeOK
<1>2. CASE Succeed(t) /\ Idle
  <2>1. /\ queue # <<>>
        /\ {"idle", "leased"} \subseteq Places
    BY DEF Holds, Places
  <2>. QED  BY <1>2, <2>1, LockTyping DEF Succeed, Idle, TypeOK
<1>3. CASE Stay(t, "start") /\ Idle
  <2>1. "start" \in Places
    BY DEF Places, Holding
  <2>. QED  BY <1>3, <2>1, LockTyping DEF Idle, TypeOK
<1>. QED  BY <1>1, <1>2, <1>3 DEF EnsureActive, StartOrReturn

\* The state always has the shape the code's types give it.  This is inductive
\* only together with the lock: a task that leaves the lock must be in the line.
LEMMA InitTyping == Init => TypeOK /\ LockHeld
<1>. SUFFICES ASSUME Init PROVE TypeOK /\ LockHeld
  OBVIOUS
<1>1. pc \in [Tasks -> Places] /\ \A t \in Tasks : pc[t] = "idle"
  BY DEF Init, Places
<1>2. victim \in [Tasks -> Procs \cup {None}]
  BY DEF Init
<1>3. queue \in Seq(Tasks)
  BY EmptySeq DEF Init
<1>4. desired \in Configs
  BY HubAssumption DEF Init
<1>. QED  BY <1>1, <1>2, <1>3, <1>4 DEF Init, TypeOK, LockHeld, Holding

LEMMA StepTyping == TypeOK /\ LockHeld /\ [Next]_vars => TypeOK'
<1>. SUFFICES ASSUME TypeOK, LockHeld, [Next]_vars PROVE TypeOK'
  OBVIOUS
<1>. USE TasksAreTasks DEF settings, os, lock
<1>0. {"idle", "leased", "stopped", "signal", "reap", "acquire", "release", "shutdown",
       "update", "restart", "retire", "start"} \subseteq Places
  BY DEF Places, AtLock, Outside, Holding
<1>1. ASSUME NEW v \in Viewers, Connect(v) \/ DropLease(v) PROVE TypeOK'
  BY <1>0, <1>1, LockTyping DEF Connect, DropLease, TypeOK
<1>2. ASSUME NEW v \in Viewers, NEW c \in Configs, Acquire(v, c) PROVE TypeOK'
  <2>. DEFINE want == IF explicit THEN desired ELSE c
  <2>1. /\ subscribers + 1 \in Nat /\ want \in Configs /\ v \in Tasks
        /\ Holds(v) /\ UNCHANGED running /\ EnsureActive(v, subscribers + 1, want)
    BY <1>2 DEF Acquire, TypeOK
  <2>2. /\ desired' \in Configs /\ subscribers' \in Nat
        /\ UNCHANGED <<explicit, running, shut>>
    BY <1>2, <2>1 DEF Acquire
  <2>. HIDE DEF want
  <2>. QED  BY <2>1, <2>2, EnsureActiveTyping DEF TypeOK
<1>3. ASSUME NEW v \in Viewers, Release(v) PROVE TypeOK'
  <2>1. queue # <<>> /\ subscribers' \in Nat
    BY <1>3 DEF Release, Holds, SaturatingPred, TypeOK
  <2>2. Rest(v) \in {"idle", "stopped"}
    BY DEF Rest
  <2>. QED  BY <1>0, <1>3, <2>1, <2>2, LockTyping DEF Release, TakeOut, TypeOK
<1>4. ASSUME NEW o \in Operators, NEW operation \in {"update", "restart"}, Ask(o, operation)
      PROVE TypeOK'
  BY <1>0, <1>4, LockTyping DEF Ask, TypeOK
<1>5. ASSUME NEW o \in Operators, NEW c \in Configs, UpdateConfig(o, c) PROVE TypeOK'
  <2>1. /\ Holds(o) /\ UNCHANGED running /\ EnsureActive(o, subscribers, c)
        /\ subscribers \in Nat /\ o \in Tasks
    BY <1>5 DEF UpdateConfig, TypeOK
  <2>2. desired' \in Configs /\ explicit' \in BOOLEAN /\ UNCHANGED <<subscribers, running, shut>>
    BY <1>5 DEF UpdateConfig
  <2>. QED  BY <2>1, <2>2, EnsureActiveTyping DEF TypeOK
<1>6. ASSUME NEW o \in Operators, Restart(o) PROVE TypeOK'
  <2>1. /\ Holds(o) /\ UNCHANGED running /\ subscribers \in Nat /\ o \in Tasks
        /\ desired \in Configs
        /\ Retire(o) \/ (StartOrReturn(o, subscribers) /\ Idle)
    BY <1>6 DEF Restart, TypeOK
  <2>2. UNCHANGED <<subscribers, settings, running, shut>>
    BY <1>6 DEF Restart
  <2>. QED  BY <2>1, <2>2, EnsureActiveTyping DEF TypeOK
<1>7. ASSUME NEW o \in Operators, Abort(o) PROVE TypeOK'
  <2>1. queue' \in Seq(Tasks)
    BY <1>7, RemoveFromLine DEF Abort, TypeOK
  <2>. QED  BY <1>0, <1>7, <2>1 DEF Abort, TypeOK
<1>8. ASSUME AskShutdown PROVE TypeOK'
  BY <1>0, <1>8, LockTyping DEF AskShutdown, TypeOK
<1>9. ASSUME Shutdown PROVE TypeOK'
  <2>1. Rest(Server) \in {"idle", "stopped"} /\ queue # <<>>
    BY <1>9 DEF Rest, Shutdown, Holds
  <2>. QED  BY <1>0, <1>9, <2>1, LockTyping DEF Shutdown, TakeOut, TypeOK
<1>10. ASSUME NEW t \in Tasks, Retired(t) PROVE TypeOK'
  <2>1. queue # <<>>
    BY <1>10 DEF Retired, LockHeld, Holding, Holds
  <2>. QED  BY <1>0, <1>10, <2>1, LockTyping DEF Retired, StartOrReturn, Succeed, TypeOK
<1>11. ASSUME NEW t \in Tasks, NEW p \in Procs, NEW c \in Configs, StartCapture(t, p, c)
       PROVE TypeOK'
  <2>1. queue # <<>>
    BY <1>11 DEF StartCapture, LockHeld, Holding, Holds
  <2>2. queue' \in Seq(Tasks) /\ pc' \in [Tasks -> Places]
    BY <1>0, <1>11, <2>1, LockTyping DEF StartCapture, Succeed
  <2>3. active' \in [proc : Procs, config : Configs]
    BY <1>11 DEF StartCapture
  <2>. QED  BY <1>11, <2>2, <2>3 DEF StartCapture, TypeOK
<1>12. ASSUME NEW t \in Tasks, StartFails(t) PROVE TypeOK'
  <2>1. queue # <<>> /\ subscribers' \in Nat
    BY <1>12 DEF StartFails, LockHeld, Holding, Holds, SaturatingPred, TypeOK
  <2>. QED  BY <1>0, <1>12, <2>1, LockTyping DEF StartFails, TypeOK
<1>13. ASSUME NEW t \in Tasks, Signal(t) PROVE TypeOK'
  BY <1>0, <1>13, LockTyping DEF Signal, TypeOK
<1>14. ASSUME NEW t \in Tasks, Reaped(t) PROVE TypeOK'
  <2>1. Rest(t) \in {"idle", "stopped"}
    BY DEF Rest
  <2>. QED  BY <1>0, <1>14, <2>1, LockTyping DEF Reaped, TypeOK
<1>15. ASSUME NEW p \in Procs, Exit(p) PROVE TypeOK'
  BY <1>15 DEF Exit, TypeOK
<1>16. CASE UNCHANGED vars
  BY <1>16 DEF vars, TypeOK
<1>. QED  BY <1>1, <1>2, <1>3, <1>4, <1>5, <1>6, <1>7, <1>8, <1>9, <1>10, <1>11, <1>12,
             <1>13, <1>14, <1>15, <1>16 DEF Next

-----------------------------------------------------------------------------
(* The lock. *)

\* The ways a task moves keep everybody inside ensure_active at the head.
LEMMA LockMoves ==
  ASSUME TypeOK, LockHeld, NEW t \in Tasks, NEW place,
         \/ Enter(t, place) /\ place \notin Holding
         \/ Holds(t) /\ Leave(t, place) /\ place \notin Holding
         \/ Holds(t) /\ Stay(t, place)
         \/ Stay(t, place) /\ place \notin Holding
  PROVE  LockHeld'
<1>1. pc' = [pc EXCEPT ![t] = place] /\ pc \in [Tasks -> Places] /\ queue \in Seq(Tasks)
  BY DEF Enter, Leave, Stay, TypeOK
<1>2. CASE Enter(t, place) /\ place \notin Holding
  <2>1. queue # <<>> => queue' # <<>> /\ Head(queue') = Head(queue)
    BY <1>1, <1>2, HeadTailAppend, AppendProperties DEF Enter
  <2>. QED  BY <1>1, <1>2, <2>1 DEF LockHeld, Holds
<1>3. CASE Holds(t) /\ Leave(t, place) /\ place \notin Holding
  BY <1>1, <1>3 DEF LockHeld, Holds
<1>4. CASE Stay(t, place) /\ (Holds(t) \/ place \notin Holding)
  BY <1>1, <1>4 DEF LockHeld, Holds, Stay
<1>. QED  BY <1>2, <1>3, <1>4

LEMMA StepLock == TypeOK /\ LockHeld /\ [Next]_vars => LockHeld'
<1>. SUFFICES ASSUME TypeOK, LockHeld, [Next]_vars PROVE LockHeld'
  OBVIOUS
<1>. USE TasksAreTasks DEF lock
<1>0. {"idle", "leased", "stopped", "signal", "reap", "acquire", "release", "shutdown",
       "update", "restart"} \cap Holding = {}
  BY DEF Holding
<1>1. ASSUME NEW v \in Viewers, Connect(v) \/ DropLease(v) PROVE LockHeld'
  BY <1>0, <1>1, LockMoves DEF Connect, DropLease
<1>2. ASSUME NEW t \in Tasks, Holds(t), NEW subs, NEW want,
             EnsureActive(t, subs, want) \/ Retire(t) \/ StartOrReturn(t, subs)
      PROVE LockHeld'
  BY <1>0, <1>2, LockMoves DEF EnsureActive, Retire, Succeed, StartOrReturn
<1>3. ASSUME NEW v \in Viewers, NEW c \in Configs, Acquire(v, c) PROVE LockHeld'
  BY <1>2, <1>3 DEF Acquire
<1>4. ASSUME NEW o \in Operators, NEW c \in Configs, UpdateConfig(o, c) PROVE LockHeld'
  BY <1>2, <1>4 DEF UpdateConfig
<1>5. ASSUME NEW o \in Operators, Restart(o) PROVE LockHeld'
  BY <1>2, <1>5 DEF Restart
<1>6. ASSUME NEW t \in Tasks, TakeOut(t), Holds(t) PROVE LockHeld'
  <2>1. Rest(t) \notin Holding
    BY <1>0 DEF Rest
  <2>. QED  BY <1>0, <1>6, <2>1, LockMoves DEF TakeOut
<1>7. ASSUME NEW v \in Viewers, Release(v) PROVE LockHeld'
  BY <1>0, <1>6, <1>7, LockMoves DEF Release
<1>8. ASSUME NEW o \in Operators, NEW operation \in {"update", "restart"}, Ask(o, operation)
      PROVE LockHeld'
  BY <1>0, <1>8, LockMoves DEF Ask
<1>9. ASSUME NEW o \in Operators, Abort(o) PROVE LockHeld'
  <2>1. PICK i \in DOMAIN queue : queue[i] = o /\ queue' = RemoveAt(queue, i)
    BY <1>9 DEF Abort
  <2>2. pc' = [pc EXCEPT ![o] = "idle"] /\ pc \in [Tasks -> Places] /\ queue \in Seq(Tasks)
    BY <1>9 DEF Abort, TypeOK
  <2>. SUFFICES ASSUME NEW t \in Tasks, pc'[t] \in Holding PROVE Holds(t)'
    BY DEF LockHeld
  <2>3. t # o /\ Holds(t)
    BY <1>0, <2>2 DEF LockHeld
  <2>4. i # 1
    BY <2>1, <2>2, <2>3 DEF Holds
  <2>. QED  BY <2>1, <2>2, <2>3, <2>4, RemoveFromLine DEF Holds
<1>10. CASE AskShutdown
  BY <1>0, <1>10, LockMoves DEF AskShutdown
<1>11. CASE Shutdown
  BY <1>6, <1>11 DEF Shutdown
<1>12. ASSUME NEW t \in Tasks, Retired(t) PROVE LockHeld'
  BY <1>2, <1>12 DEF Retired, LockHeld, Holding
<1>13. ASSUME NEW t \in Tasks, NEW p \in Procs, NEW c \in Configs, StartCapture(t, p, c)
       PROVE LockHeld'
  <2>1. Holds(t)
    BY <1>13 DEF StartCapture, LockHeld, Holding
  <2>. QED  BY <1>0, <1>13, <2>1, LockMoves DEF StartCapture, Succeed
<1>14. ASSUME NEW t \in Tasks, StartFails(t) PROVE LockHeld'
  <2>1. Holds(t)
    BY <1>14 DEF StartFails, LockHeld, Holding
  <2>. QED  BY <1>0, <1>14, <2>1, LockMoves DEF StartFails
<1>15. ASSUME NEW t \in Tasks, Signal(t) PROVE LockHeld'
  BY <1>0, <1>15, LockMoves DEF Signal
<1>16. ASSUME NEW t \in Tasks, Reaped(t) PROVE LockHeld'
  <2>1. Rest(t) \notin Holding
    BY <1>0 DEF Rest
  <2>. QED  BY <1>16, <2>1, LockMoves DEF Reaped
<1>17. ASSUME NEW p \in Procs, Exit(p) PROVE LockHeld'
  BY <1>17 DEF Exit, LockHeld, Holds
<1>18. CASE UNCHANGED vars
  BY <1>18 DEF vars, LockHeld, Holds
<1>. QED  BY <1>1, <1>3, <1>4, <1>5, <1>7, <1>8, <1>9, <1>10, <1>11, <1>12, <1>13, <1>14,
             <1>15, <1>16, <1>17, <1>18 DEF Next

\* TypeOK for every number of viewers, operators, processes and settings, and
\* with it that whoever is inside ensure_active is alone there.
THEOREM TypeCorrect == Spec => []TypeOK /\ []LockHeld
<1>. USE InitTyping, StepTyping, StepLock
<1>1. Init => TypeOK /\ LockHeld
  OBVIOUS
<1>2. TypeOK /\ LockHeld /\ [Next]_vars => TypeOK' /\ LockHeld'
  OBVIOUS
<1>. QED  BY <1>1, <1>2, PTL DEF Spec

-----------------------------------------------------------------------------
(* The capture, what is published about it, and the subscriber count. *)

LEMMA InitCapture == Init => CaptureMatchesCount
BY DEF Init, CaptureMatchesCount, Holding

\* A task that ends up outside the lock, and changes nothing else, keeps it.
LEMMA CaptureMoves ==
  ASSUME TypeOK, CaptureMatchesCount, NEW t \in Tasks, NEW place, place \notin Holding,
         Enter(t, place) \/ Leave(t, place) \/ Stay(t, place),
         UNCHANGED <<active, published, subscribers>>
  PROVE  CaptureMatchesCount'
BY DEF TypeOK, CaptureMatchesCount, Enter, Leave, Stay, Holding

\* ensure_active keeps it, whatever its caller did to the count, as long as
\* the caller counts a viewer whose lease it is and nobody else has the lock.
LEMMA CaptureEnsured ==
  ASSUME TypeOK, LockHeld, CaptureMatchesCount, NEW t \in Tasks, NEW want,
         Holds(t), subscribers' \in Nat, subscribers' >= subscribers,
         t \in Viewers => subscribers' > 0,
         \/ EnsureActive(t, subscribers', want)
         \/ Retire(t)
         \/ active = None /\ StartOrReturn(t, subscribers') /\ Idle
  PROVE  CaptureMatchesCount'
<1>1. \A u \in Tasks : u # t => pc'[u] = pc[u] /\ pc[u] \notin Holding
  BY DEF TypeOK, LockHeld, Holds, EnsureActive, Retire, StartOrReturn, Succeed, Leave, Stay
<1>2. "leased" \notin Holding /\ "idle" \notin Holding /\ subscribers \in Nat
  BY DEF Holding, TypeOK
<1>3. CASE Retire(t)
  BY <1>1, <1>3, NoneIsNothing DEF TypeOK, CaptureMatchesCount, Retire, Stay, Holding
<1>4. CASE Succeed(t) /\ Idle
  BY <1>1, <1>2, <1>4 DEF TypeOK, CaptureMatchesCount, Succeed, Leave, Idle, Holding
<1>5. CASE active = None /\ Stay(t, "start") /\ Idle /\ subscribers' # 0
  BY <1>1, <1>5 DEF TypeOK, CaptureMatchesCount, Stay, Idle, Holding
<1>. QED  BY <1>3, <1>4, <1>5 DEF EnsureActive, StartOrReturn

LEMMA StepCapture ==
  TypeOK /\ LockHeld /\ CaptureMatchesCount /\ [Next]_vars => CaptureMatchesCount'
<1>. SUFFICES ASSUME TypeOK, LockHeld, CaptureMatchesCount, [Next]_vars
              PROVE  CaptureMatchesCount'
  OBVIOUS
<1>. USE TasksAreTasks DEF lock
<1>0. {"idle", "leased", "stopped", "signal", "reap", "acquire", "release", "shutdown",
       "update", "restart"} \cap Holding = {}
  BY DEF Holding
<1>1. ASSUME NEW v \in Viewers, Connect(v) \/ DropLease(v) PROVE CaptureMatchesCount'
  BY <1>0, <1>1, CaptureMoves DEF Connect, DropLease
<1>2. ASSUME NEW v \in Viewers, NEW c \in Configs, Acquire(v, c) PROVE CaptureMatchesCount'
  <2>1. subscribers' = subscribers + 1 /\ subscribers \in Nat
    BY <1>2 DEF Acquire, TypeOK
  <2>. QED  BY <1>2, <2>1, CaptureEnsured DEF Acquire
<1>3. ASSUME NEW o \in Operators, NEW c \in Configs, UpdateConfig(o, c)
      PROVE CaptureMatchesCount'
  <2>1. subscribers' = subscribers /\ subscribers \in Nat
    BY <1>3 DEF UpdateConfig, TypeOK
  <2>. QED  BY <1>3, <2>1, CaptureEnsured DEF UpdateConfig
<1>4. ASSUME NEW o \in Operators, Restart(o) PROVE CaptureMatchesCount'
  <2>1. subscribers' = subscribers /\ subscribers \in Nat
    BY <1>4 DEF Restart, TypeOK
  <2>. QED  BY <1>4, <2>1, CaptureEnsured DEF Restart
<1>5. ASSUME NEW t \in Tasks, TakeOut(t), Holds(t), published' = IF active = None THEN published ELSE None,
             pc[t] \notin Holding
      PROVE CaptureMatchesCount'
  <2>1. \A u \in Tasks : pc[u] \notin Holding /\ pc'[u] \notin Holding
    BY <1>0, <1>5 DEF TakeOut, Leave, Rest, LockHeld, Holds, TypeOK
  <2>2. active' = None /\ published' = None
    BY <1>5 DEF TakeOut, CaptureMatchesCount
  <2>. QED  BY <2>1, <2>2 DEF CaptureMatchesCount, Holding
<1>6. ASSUME NEW v \in Viewers, Release(v) PROVE CaptureMatchesCount'
  <2>1. CASE subscribers' > 0
    <3>1. \A u \in Tasks : pc'[u] \notin Holding
      BY <1>0, <1>6, <2>1 DEF Release, Leave, LockHeld, Holds, TypeOK
    <3>. QED  BY <1>6, <2>1, <3>1 DEF Release, CaptureMatchesCount, Holding
  <2>2. CASE ~(subscribers' > 0)
    BY <1>0, <1>5, <1>6, <2>2 DEF Release
  <2>. QED  BY <2>1, <2>2
<1>7. CASE Shutdown
  <2>1. published' = None /\ pc[Server] \notin Holding
    BY <1>0, <1>7 DEF Shutdown
  <2>. QED  BY <1>5, <1>7, <2>1 DEF Shutdown, CaptureMatchesCount
<1>8. ASSUME NEW o \in Operators, NEW operation \in {"update", "restart"}, Ask(o, operation)
      PROVE CaptureMatchesCount'
  BY <1>0, <1>8, CaptureMoves DEF Ask
<1>9. ASSUME NEW o \in Operators, Abort(o) PROVE CaptureMatchesCount'
  BY <1>0, <1>9 DEF Abort, CaptureMatchesCount, TypeOK, Holding
<1>10. CASE AskShutdown
  BY <1>0, <1>10, CaptureMoves DEF AskShutdown
<1>11. ASSUME NEW t \in Tasks, Retired(t) PROVE CaptureMatchesCount'
  <2>1. /\ UNCHANGED <<active, published, subscribers>> /\ active = None /\ subscribers \in Nat
        /\ t \in Viewers => subscribers > 0
    BY <1>11 DEF Retired, CaptureMatchesCount, Holding, TypeOK
  <2>2. \A u \in Tasks : u # t => pc'[u] = pc[u] /\ pc[u] \notin Holding
    BY <1>11 DEF Retired, StartOrReturn, Succeed, Leave, Stay, LockHeld, Holds, Holding, TypeOK
  <2>3. pc'[t] \notin Holding \/ (pc'[t] = "start" /\ subscribers > 0)
    BY <1>0, <1>11, <2>1 DEF Retired, StartOrReturn, Succeed, Leave, Stay, TypeOK
  <2>. QED  BY <2>1, <2>2, <2>3 DEF CaptureMatchesCount, Holding
<1>12. ASSUME NEW t \in Tasks, NEW p \in Procs, NEW c \in Configs, StartCapture(t, p, c)
       PROVE CaptureMatchesCount'
  <2>1. \A u \in Tasks : pc'[u] \notin Holding
    BY <1>0, <1>12 DEF StartCapture, Succeed, Leave, LockHeld, Holds, Holding, TypeOK
  <2>2. subscribers' > 0 /\ published' = active'.config
    BY <1>12 DEF StartCapture, CaptureMatchesCount
  <2>3. active' # None
    BY <1>12, NoneIsNothing DEF StartCapture
  <2>. QED  BY <2>1, <2>2, <2>3 DEF CaptureMatchesCount, Holding
<1>13. ASSUME NEW t \in Tasks, StartFails(t) PROVE CaptureMatchesCount'
  <2>1. \A u \in Tasks : pc'[u] \notin Holding
    BY <1>0, <1>13 DEF StartFails, Leave, LockHeld, Holds, Holding, TypeOK
  <2>2. active' = None /\ published' = None
    BY <1>13 DEF StartFails, CaptureMatchesCount, Holding
  <2>. QED  BY <2>1, <2>2 DEF CaptureMatchesCount, Holding
<1>14. ASSUME NEW t \in Tasks, Signal(t) PROVE CaptureMatchesCount'
  BY <1>0, <1>14, CaptureMoves DEF Signal
<1>15. ASSUME NEW t \in Tasks, Reaped(t) PROVE CaptureMatchesCount'
  <2>1. Rest(t) \notin Holding
    BY <1>0 DEF Rest
  <2>. QED  BY <1>15, <2>1, CaptureMoves DEF Reaped
<1>16. ASSUME NEW p \in Procs, Exit(p) PROVE CaptureMatchesCount'
  BY <1>16 DEF Exit, CaptureMatchesCount, Holding
<1>17. CASE UNCHANGED vars
  BY <1>17 DEF vars, CaptureMatchesCount, Holding
<1>. QED  BY <1>1, <1>2, <1>3, <1>4, <1>6, <1>7, <1>8, <1>9, <1>10, <1>11, <1>12, <1>13,
             <1>14, <1>15, <1>16, <1>17 DEF Next

\* What viewers are told is the capture in place, and a capture exists or is
\* started only while the subscriber count is positive.
THEOREM PublishedIsCapture == Spec => []CaptureMatchesCount
<1>1. Init => CaptureMatchesCount
  BY InitCapture
<1>2. TypeOK /\ LockHeld /\ CaptureMatchesCount /\ [Next]_vars => CaptureMatchesCount'
  BY StepCapture
<1>. QED  BY <1>1, <1>2, TypeCorrect, PTL DEF Spec

-----------------------------------------------------------------------------
(* The subscriber count. *)

LEMMA CountedFinite ==
  /\ IsFiniteSet(Counted)
  /\ Cardinality(Counted) \in Nat
<1>1. Counted \subseteq Viewers
  BY DEF Counted
<1>. QED  BY <1>1, HubAssumption, FS_Subset, FS_CardinalityType

\* What a step that moves one task does to the set of counted viewers.
LEMMA CountedMoves ==
  ASSUME TypeOK, NEW t \in Tasks, NEW place, pc' = [pc EXCEPT ![t] = place]
  PROVE  Counted' = IF t \in Viewers /\ place \in {"leased", "release"} \cup Holding
                    THEN Counted \cup {t} ELSE Counted \ {t}
BY DEF Counted, TypeOK

LEMMA InitCount == Init => Accounting
<1>. SUFFICES ASSUME Init PROVE Accounting
  OBVIOUS
<1>1. Counted = {}
  BY TasksAreTasks DEF Init, Counted, Holding
<1>. QED  BY <1>1, FS_EmptySet DEF Init, Accounting

\* A step that neither counts nor uncounts a viewer.
LEMMA CountSame ==
  ASSUME TypeOK, Accounting, Counted' = Counted, UNCHANGED <<subscribers, shut>>
  PROVE  Accounting'
BY DEF Accounting

LEMMA StepCount ==
  TypeOK /\ LockHeld /\ CaptureMatchesCount /\ Accounting /\ [Next]_vars => Accounting'
<1>. SUFFICES ASSUME TypeOK, LockHeld, CaptureMatchesCount, Accounting, [Next]_vars
              PROVE  Accounting'
  OBVIOUS
<1>. USE TasksAreTasks DEF lock
<1>0. /\ {"idle", "stopped", "signal", "reap", "acquire", "shutdown", "update", "restart"}
           \cap ({"leased", "release"} \cup Holding) = {}
      /\ Cardinality(Counted) \in Nat /\ subscribers \in Nat
  BY CountedFinite DEF Holding, TypeOK
<1>1. ASSUME NEW v \in Viewers, Connect(v) \/ DropLease(v) PROVE Accounting'
  <2>1. Counted' = Counted
    BY <1>0, <1>1, CountedMoves DEF Connect, DropLease, Enter, Counted
  <2>. QED  BY <1>1, <2>1, CountSame DEF Connect, DropLease
<1>2. ASSUME NEW v \in Viewers, NEW c \in Configs, Acquire(v, c) PROVE Accounting'
  <2>1. v \notin Counted
    BY <1>0, <1>2 DEF Acquire, Counted
  <2>2. \E place \in {"leased"} \cup Holding : pc' = [pc EXCEPT ![v] = place]
    BY <1>2 DEF Acquire, EnsureActive, Retire, StartOrReturn, Succeed, Leave, Stay, Holding
  <2>3. Counted' = Counted \cup {v}
    BY <2>2, CountedMoves
  <2>4. Cardinality(Counted') = Cardinality(Counted) + 1
    BY <2>1, <2>3, CountedFinite, FS_AddElement
  <2>5. subscribers' = subscribers + 1 /\ shut' = shut
    BY <1>2 DEF Acquire
  <2>. QED  BY <1>0, <2>4, <2>5 DEF Accounting
<1>3. ASSUME NEW o \in Operators, UNCHANGED <<subscribers, shut>>,
             NEW place, pc' = [pc EXCEPT ![o] = place]
      PROVE Accounting'
  <2>1. Counted' = Counted
    BY <1>3, CountedMoves DEF Counted
  <2>. QED  BY <1>3, <2>1, CountSame
<1>4. ASSUME NEW o \in Operators, NEW c \in Configs, UpdateConfig(o, c) PROVE Accounting'
  BY <1>3, <1>4 DEF UpdateConfig, EnsureActive, Retire, StartOrReturn, Succeed, Leave, Stay
<1>5. ASSUME NEW o \in Operators, Restart(o) PROVE Accounting'
  BY <1>3, <1>5 DEF Restart, Retire, StartOrReturn, Succeed, Leave, Stay
<1>6. ASSUME NEW o \in Operators, NEW operation \in {"update", "restart"}, Ask(o, operation)
      PROVE Accounting'
  BY <1>3, <1>6 DEF Ask, Enter
<1>7. ASSUME NEW o \in Operators, Abort(o) PROVE Accounting'
  BY <1>3, <1>7 DEF Abort
<1>8. ASSUME NEW v \in Viewers, v \in Counted, Counted' = Counted \ {v},
             subscribers' = SaturatingPred(subscribers), shut' = shut
      PROVE Accounting'
  <2>1. Cardinality(Counted') = Cardinality(Counted) - 1
    BY <1>8, CountedFinite, FS_RemoveElement
  <2>2. Cardinality(Counted) # 0
    BY <1>8, CountedFinite, FS_EmptySet
  <2>. QED  BY <1>0, <1>8, <2>1, <2>2 DEF Accounting, SaturatingPred
<1>9. ASSUME NEW v \in Viewers, Release(v) PROVE Accounting'
  <2>1. v \in Counted
    BY <1>9 DEF Release, Counted
  <2>2. \E place \in {"idle", "signal"} : pc' = [pc EXCEPT ![v] = place]
    BY <1>9 DEF Release, TakeOut, Leave, Rest
  <2>3. Counted' = Counted \ {v}
    BY <1>0, <2>2, CountedMoves
  <2>4. subscribers' = SaturatingPred(subscribers) /\ shut' = shut
    BY <1>9 DEF Release
  <2>. QED  BY <1>8, <2>1, <2>3, <2>4
<1>10. CASE AskShutdown
  <2>1. Counted' = Counted
    BY <1>10, CountedMoves DEF AskShutdown, Enter, Counted
  <2>. QED  BY <1>10, <2>1, CountSame DEF AskShutdown
<1>11. CASE Shutdown
  <2>1. Counted' = Counted
    BY <1>11, CountedMoves DEF Shutdown, TakeOut, Leave, Counted
  <2>2. subscribers' = 0 /\ shut' = TRUE
    BY <1>11 DEF Shutdown
  <2>. QED  BY <1>0, <2>1, <2>2 DEF Accounting
<1>12. ASSUME NEW t \in Tasks, Retired(t) PROVE Accounting'
  <2>1. t \in Viewers => t \in Counted
    BY <1>12 DEF Retired, Counted, Holding
  <2>2. t \in Viewers => \E place \in {"leased", "start"} : pc' = [pc EXCEPT ![t] = place]
    BY <1>12 DEF Retired, StartOrReturn, Succeed, Leave, Stay
  <2>3. \E place : pc' = [pc EXCEPT ![t] = place]
    BY <1>12 DEF Retired, StartOrReturn, Succeed, Leave, Stay
  <2>4. Counted' = Counted
    BY <2>1, <2>2, <2>3, CountedMoves DEF Counted, Holding
  <2>. QED  BY <1>12, <2>4, CountSame DEF Retired
<1>13. ASSUME NEW t \in Tasks, NEW p \in Procs, NEW c \in Configs, StartCapture(t, p, c)
       PROVE Accounting'
  <2>1. t \in Viewers => t \in Counted
    BY <1>13 DEF StartCapture, Counted, Holding
  <2>2. pc' = [pc EXCEPT ![t] = IF t \in Viewers THEN "leased" ELSE "idle"]
    BY <1>13 DEF StartCapture, Succeed, Leave
  <2>3. Counted' = Counted
    BY <1>0, <2>1, <2>2, CountedMoves DEF Counted
  <2>. QED  BY <1>13, <2>3, CountSame DEF StartCapture
<1>14. ASSUME NEW t \in Tasks, StartFails(t) PROVE Accounting'
  <2>1. pc' = [pc EXCEPT ![t] = "idle"] /\ shut' = shut
    BY <1>14 DEF StartFails, Leave
  <2>2. Counted' = Counted \ {t}
    BY <1>0, <2>1, CountedMoves
  <2>3. CASE t \in Viewers
    <3>1. t \in Counted /\ subscribers' = SaturatingPred(subscribers)
      BY <1>14, <2>3 DEF StartFails, Counted, Holding
    <3>. QED  BY <1>8, <2>1, <2>2, <2>3, <3>1
  <2>4. CASE t \notin Viewers
    <3>1. Counted' = Counted /\ subscribers' = subscribers
      BY <1>14, <2>2, <2>4 DEF StartFails, Counted
    <3>. QED  BY <2>1, <3>1, CountSame
  <2>. QED  BY <2>3, <2>4
<1>15. ASSUME NEW t \in Tasks, Signal(t) \/ Reaped(t) PROVE Accounting'
  <2>1. t \notin Counted
    BY <1>0, <1>15 DEF Signal, Reaped, Counted
  <2>2. pc' = [pc EXCEPT ![t] = "reap"] \/ pc' = [pc EXCEPT ![t] = Rest(t)]
    BY <1>15 DEF Signal, Reaped, Stay
  <2>3. Counted' = Counted
    BY <1>0, <2>1, <2>2, CountedMoves DEF Rest
  <2>. QED  BY <1>15, <2>3, CountSame DEF Signal, Reaped
<1>16. ASSUME NEW p \in Procs, Exit(p) PROVE Accounting'
  BY <1>16, CountSame DEF Exit, Counted
<1>17. CASE UNCHANGED vars
  BY <1>17, CountSame DEF vars, Counted
<1>. QED  BY <1>1, <1>2, <1>4, <1>5, <1>6, <1>7, <1>9, <1>10, <1>11, <1>12, <1>13, <1>14,
             <1>15, <1>16, <1>17 DEF Next

\* The count the hub keeps is the number of leases outstanding, until the
\* server shuts down, and at most that number ever after.
THEOREM CountIsExact == Spec => []Accounting
<1>1. Init => Accounting
  BY InitCount
<1>2. TypeOK /\ LockHeld /\ CaptureMatchesCount /\ Accounting /\ [Next]_vars => Accounting'
  BY StepCount
<1>. QED  BY <1>1, <1>2, TypeCorrect, PublishedIsCapture, PTL DEF Spec

\* So a capture is kept only for somebody.
THEOREM NoCaptureForNobody == Spec => []CaptureHasViewer
<1>1. CaptureMatchesCount /\ Accounting /\ TypeOK => CaptureHasViewer
  <2>. SUFFICES ASSUME CaptureMatchesCount, Accounting, TypeOK, active # None
                PROVE  Counted # {}
    BY DEF CaptureHasViewer
  <2>1. Cardinality(Counted) # 0
    BY CountedFinite DEF CaptureMatchesCount, Accounting, TypeOK
  <2>. QED  BY <2>1, CountedFinite, FS_EmptySet
<1>. QED  BY <1>1, TypeCorrect, PublishedIsCapture, CountIsExact, PTL

-----------------------------------------------------------------------------
(* No ffmpeg is forgotten. *)

LEMMA StepOrphan ==
  TypeOK /\ LockHeld /\ CaptureMatchesCount /\ NoOrphanCapture /\ [Next]_vars
    => NoOrphanCapture'
<1>. SUFFICES ASSUME TypeOK, LockHeld, CaptureMatchesCount, NoOrphanCapture, [Next]_vars
              PROVE  NoOrphanCapture'
  OBVIOUS
<1>. USE TasksAreTasks DEF lock, os
\* A task that is not about to kill moves, and nothing else happens.
<1>1. ASSUME NEW t \in Tasks, NEW place, pc' = [pc EXCEPT ![t] = place],
             UNCHANGED <<active, running, killed>>, pc[t] # "signal",
             \A u \in Tasks : u # t => victim'[u] = victim[u]
      PROVE  NoOrphanCapture'
  BY <1>1 DEF NoOrphanCapture, TypeOK
<1>2. ASSUME NEW t \in Tasks, Retire(t), Holds(t), pc[t] # "signal", UNCHANGED running
      PROVE  NoOrphanCapture'
  <2>1. \A u \in Tasks : u # t => victim'[u] = victim[u] /\ pc'[u] = pc[u]
    BY <1>2 DEF Retire, Stay, TypeOK
  <2>2. running' \ killed' = (running \ killed) \ {active.proc}
    BY <1>2 DEF Retire
  <2>. QED  BY <1>2, <2>1, <2>2 DEF NoOrphanCapture
<1>3. ASSUME NEW t \in Tasks, NEW subs, NEW want, Holds(t), pc[t] # "signal", UNCHANGED running,
             EnsureActive(t, subs, want) \/ Retire(t) \/ (StartOrReturn(t, subs) /\ Idle)
      PROVE  NoOrphanCapture'
  <2>1. CASE Retire(t)
    BY <1>2, <1>3, <2>1
  <2>2. CASE (Succeed(t) \/ Stay(t, "start")) /\ Idle
    <3>1. \E place : pc' = [pc EXCEPT ![t] = place]
      BY <2>2 DEF Succeed, Leave, Stay
    <3>. QED  BY <1>1, <1>3, <2>2, <3>1 DEF Idle
  <2>. QED  BY <1>3, <2>1, <2>2 DEF EnsureActive, StartOrReturn
<1>4. ASSUME NEW v \in Viewers, NEW c \in Configs, Acquire(v, c) PROVE NoOrphanCapture'
  BY <1>3, <1>4 DEF Acquire
<1>5. ASSUME NEW o \in Operators, NEW c \in Configs, UpdateConfig(o, c) PROVE NoOrphanCapture'
  BY <1>3, <1>5 DEF UpdateConfig
<1>6. ASSUME NEW o \in Operators, Restart(o) PROVE NoOrphanCapture'
  BY <1>3, <1>6 DEF Restart
<1>7. ASSUME NEW v \in Viewers, Connect(v) \/ DropLease(v) PROVE NoOrphanCapture'
  BY <1>1, <1>7 DEF Connect, DropLease, Enter
<1>8. ASSUME NEW o \in Operators, NEW operation \in {"update", "restart"}, Ask(o, operation)
      PROVE NoOrphanCapture'
  BY <1>1, <1>8 DEF Ask, Enter
<1>9. ASSUME NEW o \in Operators, Abort(o) PROVE NoOrphanCapture'
  BY <1>1, <1>9 DEF Abort, Holding, TypeOK
<1>10. CASE AskShutdown
  BY <1>1, <1>10 DEF AskShutdown, Enter
<1>11. ASSUME NEW t \in Tasks, TakeOut(t), pc[t] # "signal", UNCHANGED os
       PROVE NoOrphanCapture'
  <2>1. CASE active = None
    BY <1>1, <1>11, <2>1 DEF TakeOut, Leave
  <2>2. CASE active # None
    <3>1. pc'[t] = "signal" /\ victim'[t] = active.proc
      BY <1>11, <2>2 DEF TakeOut, Leave, TypeOK
    <3>2. \A u \in Tasks : u # t => victim'[u] = victim[u] /\ pc'[u] = pc[u]
      BY <1>11, <2>2 DEF TakeOut, Leave, TypeOK
    <3>. QED  BY <1>11, <3>1, <3>2 DEF NoOrphanCapture
  <2>. QED  BY <2>1, <2>2
<1>12. ASSUME NEW v \in Viewers, Release(v) PROVE NoOrphanCapture'
  <2>1. CASE subscribers' > 0
    BY <1>1, <1>12, <2>1 DEF Release, Leave
  <2>2. CASE ~(subscribers' > 0)
    BY <1>11, <1>12, <2>2 DEF Release
  <2>. QED  BY <2>1, <2>2
<1>13. CASE Shutdown
  BY <1>11, <1>13 DEF Shutdown
<1>14. ASSUME NEW t \in Tasks, Retired(t) PROVE NoOrphanCapture'
  <2>1. \E place : pc' = [pc EXCEPT ![t] = place]
    BY <1>14 DEF Retired, StartOrReturn, Succeed, Leave, Stay
  <2>. QED  BY <1>1, <1>14, <2>1 DEF Retired, TypeOK
<1>15. ASSUME NEW t \in Tasks, NEW p \in Procs, NEW c \in Configs, StartCapture(t, p, c)
       PROVE NoOrphanCapture'
  <2>1. active = None /\ active' # None /\ active'.proc = p
    BY <1>15, NoneIsNothing DEF StartCapture, CaptureMatchesCount, Holding
  <2>2. \A u \in Tasks : pc[u] = "signal" => pc'[u] = "signal" /\ victim'[u] = victim[u]
    BY <1>15 DEF StartCapture, Succeed, Leave, TypeOK
  <2>3. running' \ killed' \subseteq (running \ killed) \cup {p}
    BY <1>15 DEF StartCapture
  <2>. QED  BY <2>1, <2>2, <2>3 DEF NoOrphanCapture
<1>16. ASSUME NEW t \in Tasks, StartFails(t) PROVE NoOrphanCapture'
  BY <1>1, <1>16 DEF StartFails, Leave
<1>17. ASSUME NEW t \in Tasks, Signal(t) PROVE NoOrphanCapture'
  <2>1. running' \ killed' = (running \ killed) \ {victim[t]}
    BY <1>17 DEF Signal
  <2>2. \A u \in Tasks : u # t => pc'[u] = pc[u] /\ victim'[u] = victim[u]
    BY <1>17 DEF Signal, Stay, TypeOK
  <2>. QED  BY <1>17, <2>1, <2>2 DEF Signal, NoOrphanCapture
<1>18. ASSUME NEW t \in Tasks, Reaped(t) PROVE NoOrphanCapture'
  BY <1>1, <1>18 DEF Reaped, Stay, TypeOK
<1>19. ASSUME NEW p \in Procs, Exit(p) PROVE NoOrphanCapture'
  BY <1>19 DEF Exit, NoOrphanCapture
<1>20. CASE UNCHANGED vars
  BY <1>20 DEF vars, NoOrphanCapture
<1>. QED  BY <1>4, <1>5, <1>6, <1>7, <1>8, <1>9, <1>10, <1>12, <1>13, <1>14, <1>15, <1>16,
             <1>17, <1>18, <1>19, <1>20 DEF Next

\* Every ffmpeg that runs and was not killed is the hub's capture or is about
\* to be killed, whatever fails, exits or is aborted.
THEOREM NoCaptureForgotten == Spec => []NoOrphanCapture
<1>1. Init => NoOrphanCapture
  BY DEF Init, NoOrphanCapture
<1>2. TypeOK /\ LockHeld /\ CaptureMatchesCount /\ NoOrphanCapture /\ [Next]_vars
        => NoOrphanCapture'
  BY StepOrphan
<1>. QED  BY <1>1, <1>2, TypeCorrect, PublishedIsCapture, PTL DEF Spec

-----------------------------------------------------------------------------
(* What a step may never do. *)

\* acquire hands out a lease only for a capture in place with the settings the
\* hub remembers and publishes.
THEOREM LeasesComeWithCapture == Spec => LeaseHasCapture
<1>. DEFINE Granted(v) == pc[v] # "leased" /\ pc'[v] = "leased"
            InPlace    == active' # None /\ active'.config = desired' /\ published' = desired'
<1>. USE TasksAreTasks DEF lock
<1>1. ASSUME TypeOK, LockHeld, CaptureMatchesCount, Next,
             NEW v \in Viewers, Granted(v)
      PROVE  InPlace
  <2>0. \A t \in Tasks : \A place : pc' = [pc EXCEPT ![t] = place] => t = v /\ place = "leased"
    BY <1>1 DEF TypeOK
  <2>1. ASSUME NEW w \in Viewers, Connect(w) \/ DropLease(w) \/ Release(w) PROVE InPlace
    BY <2>0, <2>1 DEF Connect, DropLease, Release, TakeOut, Enter, Leave, Rest
  <2>2. ASSUME NEW t \in Tasks, Succeed(t), Serving(desired'), Idle PROVE InPlace
    BY <1>1, <2>2 DEF Serving, Idle, CaptureMatchesCount
  <2>3. ASSUME NEW w \in Viewers, NEW c \in Configs, Acquire(w, c) PROVE InPlace
    <3>1. CASE Serving(desired') /\ Succeed(w) /\ Idle
      BY <2>2, <3>1
    <3>2. CASE Retire(w) \/ StartOrReturn(w, subscribers + 1)
      <4>1. subscribers + 1 # 0
        BY <1>1 DEF TypeOK
      <4>. QED  BY <2>0, <3>2, <4>1 DEF Retire, StartOrReturn, Stay
    <3>. QED  BY <2>3, <3>1, <3>2 DEF Acquire, EnsureActive
  <2>4. ASSUME NEW o \in Operators, NEW place, pc' = [pc EXCEPT ![o] = place] PROVE InPlace
    BY <2>0, <2>4
  <2>5. ASSUME NEW o \in Operators,
               \/ \E operation \in {"update", "restart"} : Ask(o, operation)
               \/ \E c \in Configs : UpdateConfig(o, c)
               \/ Restart(o) \/ Abort(o)
        PROVE InPlace
    BY <2>4, <2>5 DEF Ask, UpdateConfig, Restart, Abort, EnsureActive, Retire, StartOrReturn,
                      Succeed, Enter, Leave, Stay
  <2>6. CASE AskShutdown \/ Shutdown
    BY <2>0, <2>6 DEF AskShutdown, Shutdown, TakeOut, Enter, Leave, Rest
  <2>7. ASSUME NEW t \in Tasks, Retired(t) PROVE InPlace
    <3>1. t \in Viewers => subscribers # 0
      BY <1>1, <2>7 DEF Retired, CaptureMatchesCount
    <3>. QED  BY <2>0, <2>7, <3>1 DEF Retired, StartOrReturn, Succeed, Leave, Stay
  <2>8. ASSUME NEW t \in Tasks, NEW p \in Procs, NEW c \in Configs, StartCapture(t, p, c)
        PROVE InPlace
    BY <2>8, NoneIsNothing DEF StartCapture
  <2>9. ASSUME NEW t \in Tasks, StartFails(t) \/ Signal(t) \/ Reaped(t) PROVE InPlace
    BY <2>0, <2>9 DEF StartFails, Signal, Reaped, Leave, Stay, Rest
  <2>10. ASSUME NEW p \in Procs, Exit(p) PROVE InPlace
    BY <1>1, <2>10 DEF Exit
  <2>. QED  BY <1>1, <2>1, <2>3, <2>5, <2>6, <2>7, <2>8, <2>9, <2>10 DEF Next
<1>2. TypeOK /\ LockHeld /\ CaptureMatchesCount /\ [Next]_vars => [LeaseStep]_vars
  BY <1>1 DEF LeaseStep
<1>. QED  BY <1>2, TypeCorrect, PublishedIsCapture, PTL DEF Spec, LeaseHasCapture

\* A connecting viewer never overrides settings a client chose.
THEOREM ChosenSettingsStay == Spec => ExplicitSettingsStay
<1>1. Next => SettingsStep
  <2>. SUFFICES ASSUME Next, explicit, desired' # desired
                PROVE  /\ explicit'
                       /\ \/ \E o \in Operators : Holds(o) /\ pc[o] = "update"
                          \/ desired' = Fallback[desired] /\ published' = desired'
    BY DEF SettingsStep
  <2>1. ~UNCHANGED settings
    BY DEF settings
  <2>2. ASSUME NEW v \in Viewers PROVE ~(Connect(v) \/ DropLease(v) \/ Release(v))
    BY <2>1 DEF Connect, DropLease, Release
  <2>3. ASSUME NEW v \in Viewers, NEW c \in Configs PROVE ~Acquire(v, c)
    BY DEF Acquire
  <2>4. ASSUME NEW o \in Operators
        PROVE  ~(Restart(o) \/ Abort(o) \/ \E operation \in {"update", "restart"} : Ask(o, operation))
    BY <2>1 DEF Restart, Abort, Ask
  <2>5. ASSUME NEW o \in Operators, NEW c \in Configs, UpdateConfig(o, c)
        PROVE  explicit' /\ Holds(o) /\ pc[o] = "update"
    BY <2>5 DEF UpdateConfig
  <2>6. ~(AskShutdown \/ Shutdown)
    BY <2>1 DEF AskShutdown, Shutdown
  <2>7. ASSUME NEW t \in Tasks PROVE ~(Retired(t) \/ StartFails(t) \/ Signal(t) \/ Reaped(t))
    BY <2>1 DEF Retired, StartFails, Signal, Reaped
  <2>8. ASSUME NEW t \in Tasks, NEW p \in Procs, NEW c \in Configs, StartCapture(t, p, c)
        PROVE  explicit' /\ desired' = Fallback[desired] /\ published' = desired'
    BY <2>8 DEF StartCapture
  <2>9. ASSUME NEW p \in Procs PROVE ~Exit(p)
    BY <2>1 DEF Exit
  <2>. QED  BY <2>2, <2>3, <2>4, <2>5, <2>6, <2>7, <2>8, <2>9 DEF Next
<1>. QED  BY <1>1, PTL DEF Spec, ExplicitSettingsStay

\* Somebody else's leaving never takes the capture from a viewer.
THEOREM CaptureIsKept == Spec => CaptureKept
<1>. USE TasksAreTasks DEF lock
<1>1. ASSUME TypeOK, LockHeld, CaptureMatchesCount, Accounting, Accounting', TypeOK', Next
      PROVE  KeepStep
  <2>. SUFFICES ASSUME active # None, active' = None
                PROVE  (\E t \in Tasks : pc'[t] = "retire") \/ Counted' = {} \/ shut'
    BY DEF KeepStep
  <2>0. active' # active
    OBVIOUS
  <2>1. ASSUME NEW v \in Viewers PROVE ~(Connect(v) \/ DropLease(v))
    BY <2>0 DEF Connect, DropLease
  <2>2. ASSUME NEW t \in Tasks, NEW subs, NEW want,
               EnsureActive(t, subs, want) \/ Retire(t)
        PROVE  pc'[t] = "retire"
    BY <1>1, <2>0, <2>2 DEF EnsureActive, Retire, Stay, Idle, TypeOK
  <2>3. ASSUME NEW v \in Viewers, NEW c \in Configs, Acquire(v, c)
        PROVE  \E t \in Tasks : pc'[t] = "retire"
    BY <2>2, <2>3 DEF Acquire
  <2>4. ASSUME NEW o \in Operators,
               (\E c \in Configs : UpdateConfig(o, c)) \/ Restart(o)
        PROVE  \E t \in Tasks : pc'[t] = "retire"
    BY <2>0, <2>2, <2>4 DEF UpdateConfig, Restart
  <2>5. ASSUME NEW o \in Operators
        PROVE  ~(Abort(o) \/ \E operation \in {"update", "restart"} : Ask(o, operation))
    BY <2>0 DEF Abort, Ask
  <2>6. ASSUME NEW v \in Viewers, Release(v) PROVE Counted' = {} \/ shut'
    <3>1. ~(subscribers' > 0) /\ subscribers' \in Nat
      BY <1>1, <2>0, <2>6 DEF Release, TypeOK
    <3>2. ~shut' => Cardinality(Counted)' = 0
      BY <1>1, <3>1 DEF Accounting
    <3>3. Counted' \subseteq Viewers
      BY DEF Counted
    <3>4. IsFiniteSet(Counted')
      BY <3>3, HubAssumption, FS_Subset
    <3>. QED  BY <3>2, <3>4, FS_EmptySet
  <2>7. CASE AskShutdown \/ Shutdown
    BY <2>0, <2>7 DEF AskShutdown, Shutdown
  <2>8. ASSUME NEW t \in Tasks PROVE ~(Retired(t) \/ StartFails(t) \/ Signal(t) \/ Reaped(t))
    BY <2>0 DEF Retired, StartFails, Signal, Reaped
  <2>9. ASSUME NEW t \in Tasks, NEW p \in Procs, NEW c \in Configs PROVE ~StartCapture(t, p, c)
    BY <2>0, NoneIsNothing DEF StartCapture
  <2>10. ASSUME NEW p \in Procs PROVE ~Exit(p)
    BY <2>0 DEF Exit
  <2>. QED  BY <1>1, <2>1, <2>3, <2>4, <2>5, <2>6, <2>7, <2>8, <2>9, <2>10 DEF Next
<1>2. /\ TypeOK /\ LockHeld /\ CaptureMatchesCount /\ Accounting /\ [Next]_vars
      /\ Accounting' /\ TypeOK'
      => [KeepStep]_vars
  BY <1>1
<1>. QED  BY <1>2, TypeCorrect, PublishedIsCapture, CountIsExact, PTL DEF Spec, CaptureKept

-----------------------------------------------------------------------------
(* The hub implements SharedCapture.  Each step is a step of the promise or *)
(* leaves the mapped state alone.                                           *)

Mapped == [v \in Viewers |-> Stage(pc[v])]

\* How far a lease is, by the place of its viewer.
LEMMA Stages ==
  /\ Stage("idle") = "none" /\ Stage("signal") = "none" /\ Stage("reap") = "none"
  /\ Stage("acquire") = "asking" /\ Stage("retire") = "asking" /\ Stage("start") = "asking"
  /\ Stage("leased") = "held" /\ Stage("release") = "returning"
BY DEF Stage, Holding

\* A viewer's move is the move of its lease, another task's moves none.
LEMMA MappedMoves ==
  ASSUME TypeOK, NEW t \in Tasks, NEW place, pc' = [pc EXCEPT ![t] = place]
  PROVE  /\ t \in Viewers => /\ Mapped' = [Mapped EXCEPT ![t] = Stage(place)]
                             /\ Mapped[t] = Stage(pc[t])
         /\ t \notin Viewers => Mapped' = Mapped
         /\ t \in Viewers /\ Stage(place) = Stage(pc[t]) => Mapped' = Mapped
<1>1. Viewers \subseteq Tasks
  BY TasksAreTasks
<1>. QED  BY <1>1 DEF Mapped, TypeOK

LEMMA StepKeepsPromise ==
  TypeOK /\ LockHeld /\ CaptureMatchesCount /\ Accounting /\ CaptureHasViewer /\ [Next]_vars
    => [Shared!SharedNext]_(Shared!sharedVars)
<1>. SUFFICES ASSUME TypeOK, LockHeld, CaptureMatchesCount, Accounting, CaptureHasViewer, [Next]_vars
              PROVE  Shared!SharedNext \/ UNCHANGED <<Mapped, published, shut>>
  BY DEF Shared!sharedVars, Mapped
<1>. DEFINE Goal == Shared!SharedNext \/ UNCHANGED <<Mapped, published, shut>>
<1>. USE TasksAreTasks, Stages DEF lock
<1>a. ASSUME active # None \/ subscribers > 0 PROVE Shared!Users # {}
  <2>1. Counted # {}
    BY <1>a, CountedFinite, FS_EmptySet DEF CaptureHasViewer, Accounting, TypeOK
  <2>2. PICK v \in Viewers : pc[v] \in {"leased", "release", "retire", "start"}
    BY <2>1 DEF Counted, Holding
  <2>. QED  BY <2>2 DEF Shared!Users
<1>1. ASSUME NEW v \in Viewers, NEW from, NEW to, Mapped[v] = from,
             Mapped' = [Mapped EXCEPT ![v] = to], shut' = shut
      PROVE  Shared!Move(v, from, to)
  BY <1>1 DEF Shared!Move, Mapped
<1>2. ASSUME NEW v \in Viewers, Connect(v) PROVE Goal
  <2>1. Shared!Move(v, "none", "asking") /\ published' = published
    BY <1>1, <1>2, MappedMoves DEF Connect, Enter
  <2>. QED  BY <2>1 DEF Shared!SharedNext, Shared!AskLease
<1>3. ASSUME NEW v \in Viewers, DropLease(v) PROVE Goal
  <2>1. Shared!Move(v, "held", "returning") /\ published' = published
    BY <1>1, <1>3, MappedMoves DEF DropLease, Enter
  <2>. QED  BY <2>1 DEF Shared!SharedNext, Shared!GiveBack
<1>4. ASSUME NEW t \in Tasks, Retire(t), shut' = shut,
             t \in Viewers => Stage(pc[t]) = "asking"
      PROVE  Goal
  <2>1. Mapped' = Mapped
    <3>1. pc' = [pc EXCEPT ![t] = "retire"]
      BY <1>4 DEF Retire, Stay
    <3>2. t \in Viewers => Stage("retire") = Stage(pc[t])
      BY <1>4
    <3>. QED  BY <3>1, <3>2, MappedMoves
  <2>2. published # None /\ published' = None
    BY <1>4, NoneIsNothing DEF Retire, CaptureMatchesCount, TypeOK
  <2>3. Shared!Users # {}
    BY <1>4, <1>a DEF Retire
  <2>. QED  BY <1>4, <2>1, <2>2, <2>3 DEF Shared!SharedNext, Shared!Withdraw, Mapped
<1>5. ASSUME NEW t \in Tasks, Stay(t, "start"), UNCHANGED <<published, shut>>,
             t \in Viewers => Stage(pc[t]) = "asking"
      PROVE  Goal
  <2>1. pc' = [pc EXCEPT ![t] = "start"]
    BY <1>5 DEF Stay
  <2>2. t \in Viewers => Stage("start") = Stage(pc[t])
    BY <1>5
  <2>. QED  BY <1>5, <2>1, <2>2, MappedMoves
<1>6. ASSUME NEW v \in Viewers, Succeed(v), Stage(pc[v]) = "asking", shut' = shut,
             published' \in Configs, published # None => published' = published
      PROVE  Goal
  <2>1. Shared!Move(v, "asking", "held")
    BY <1>1, <1>6, MappedMoves DEF Succeed, Leave
  <2>. QED  BY <1>6, <2>1 DEF Shared!SharedNext, Shared!Grant
<1>7. ASSUME NEW v \in Viewers, NEW c \in Configs, Acquire(v, c) PROVE Goal
  <2>1. shut' = shut /\ Stage(pc[v]) = "asking" /\ subscribers + 1 # 0
    BY <1>7 DEF Acquire, TypeOK
  <2>2. CASE Retire(v)
    BY <1>4, <2>1, <2>2
  <2>3. CASE StartOrReturn(v, subscribers + 1) /\ Idle
    BY <1>5, <2>1, <2>3 DEF StartOrReturn, Idle
  <2>4. CASE active # None /\ Succeed(v) /\ Idle
    <3>1. published \in Configs /\ published' = published
      BY <2>4 DEF Idle, CaptureMatchesCount, TypeOK
    <3>. QED  BY <1>6, <2>1, <2>4, <3>1
  <2>. QED  BY <1>7, <2>2, <2>3, <2>4 DEF Acquire, EnsureActive, Serving
<1>8. ASSUME NEW o \in Operators, NEW place, pc' = [pc EXCEPT ![o] = place],
             UNCHANGED <<published, shut>>
      PROVE  Goal
  BY <1>8, MappedMoves
<1>9. ASSUME NEW o \in Operators,
             \/ \E operation \in {"update", "restart"} : Ask(o, operation)
             \/ \E c \in Configs : UpdateConfig(o, c)
             \/ Restart(o) \/ Abort(o)
      PROVE  Goal
  <2>1. CASE Retire(o) /\ shut' = shut
    BY <1>4, <2>1
  <2>2. CASE UNCHANGED <<published, shut>> /\ \E place : pc' = [pc EXCEPT ![o] = place]
    BY <1>8, <2>2
  <2>. QED  BY <1>9, <2>1, <2>2 DEF Ask, UpdateConfig, Restart, Abort, EnsureActive, StartOrReturn,
                                    Succeed, Idle, Enter, Leave, Stay
<1>10. ASSUME NEW v \in Viewers, Release(v) PROVE Goal
  <2>1. \E place \in {"idle", "signal"} : pc' = [pc EXCEPT ![v] = place]
    BY <1>10 DEF Release, TakeOut, Leave, Rest
  <2>2. Shared!Move(v, "returning", "none")
    <3>1. pc[v] = "release" /\ shut' = shut
      BY <1>10 DEF Release
    <3>2. Mapped[v] = "returning" /\ Mapped' = [Mapped EXCEPT ![v] = "none"]
      <4>1. PICK place \in {"idle", "signal"} : pc' = [pc EXCEPT ![v] = place]
        BY <2>1
      <4>2. Stage(place) = "none"
        OBVIOUS
      <4>3. Mapped' = [Mapped EXCEPT ![v] = Stage(place)] /\ Mapped[v] = Stage(pc[v])
        BY <4>1, MappedMoves
      <4>. QED  BY <3>1, <4>2, <4>3
    <3>. QED  BY <1>1, <3>1, <3>2
  <2>3. Shared!Holders(v) = Counted \ {v}
    <3>1. \A w \in Viewers : pc[w] \notin Holding
      BY <1>10 DEF Release, LockHeld, Holds, Holding
    <3>2. \A w \in Viewers : Stage(pc[w]) \in {"held", "returning"} <=> pc[w] \in {"leased", "release"}
      BY <3>1 DEF Stage
    <3>. QED  BY <3>1, <3>2 DEF Shared!Holders, Counted
  <2>4. v \in Counted
    BY <1>10 DEF Release, Counted
  <2>5. /\ IsFiniteSet(Counted \ {v}) /\ Cardinality(Counted \ {v}) = Cardinality(Counted) - 1
        /\ Cardinality(Counted) \in Nat /\ subscribers \in Nat
    BY <2>4, CountedFinite, FS_RemoveElement DEF TypeOK
  <2>6. CASE subscribers' > 0
    <3>1. Counted \ {v} # {} /\ published' = published
      BY <1>10, <2>5, <2>6, FS_EmptySet DEF Release, Accounting, SaturatingPred
    <3>. QED  BY <2>2, <2>3, <3>1 DEF Shared!SharedNext, Shared!Depart
  <2>7. CASE ~(subscribers' > 0)
    <3>1. published' = None
      BY <1>10, <2>7 DEF Release, CaptureMatchesCount
    <3>2. ~shut => Counted \ {v} = {}
      <4>1. ~shut => Cardinality(Counted \ {v}) = 0
        BY <1>10, <2>4, <2>5, <2>7, CountedFinite, FS_EmptySet DEF Release, Accounting, SaturatingPred
      <4>. QED  BY <2>5, <4>1, FS_EmptySet
    <3>3. shut \in BOOLEAN
      BY DEF TypeOK
    <3>. QED  BY <2>2, <2>3, <3>1, <3>2, <3>3 DEF Shared!SharedNext, Shared!Depart
  <2>. QED  BY <2>6, <2>7
<1>11. CASE AskShutdown
  BY <1>11, MappedMoves DEF AskShutdown, Enter
<1>12. CASE Shutdown
  <2>1. Mapped' = Mapped
    BY <1>12, MappedMoves DEF Shutdown, TakeOut, Leave
  <2>. QED  BY <1>12, <2>1 DEF Shutdown, Shared!SharedNext, Shared!Close, Mapped
<1>13. ASSUME NEW t \in Tasks, Retired(t) PROVE Goal
  <2>1. /\ UNCHANGED <<published, shut>> /\ pc[t] = "retire"
        /\ t \in Viewers => Stay(t, "start")
    BY <1>13 DEF Retired, StartOrReturn, CaptureMatchesCount
  <2>2. \E place : pc' = [pc EXCEPT ![t] = place]
    BY <1>13 DEF Retired, StartOrReturn, Succeed, Leave, Stay
  <2>. QED  BY <1>5, <2>1, <2>2, MappedMoves
<1>14. ASSUME NEW t \in Tasks, NEW p \in Procs, NEW c \in Configs, StartCapture(t, p, c)
       PROVE  Goal
  <2>1. published = None /\ published' \in Configs /\ shut' = shut /\ subscribers > 0
    BY <1>14 DEF StartCapture, CaptureMatchesCount, Holding
  <2>2. CASE t \in Viewers
    BY <1>6, <1>14, <2>1, <2>2 DEF StartCapture
  <2>3. CASE t \notin Viewers
    <3>1. Mapped' = Mapped
      BY <1>14, <2>3, MappedMoves DEF StartCapture, Succeed, Leave
    <3>. QED  BY <1>a, <2>1, <3>1 DEF Shared!SharedNext, Shared!Resume, Mapped
  <2>. QED  BY <2>2, <2>3
<1>15. ASSUME NEW t \in Tasks, StartFails(t) PROVE Goal
  <2>1. published = None /\ published' = None /\ shut' = shut
    BY <1>15 DEF StartFails, CaptureMatchesCount, Holding
  <2>2. CASE t \in Viewers
    <3>1. Shared!Move(t, "asking", "none")
      BY <1>1, <1>15, <2>1, <2>2, MappedMoves DEF StartFails, Leave
    <3>. QED  BY <2>1, <2>2, <3>1 DEF Shared!SharedNext, Shared!Refuse
  <2>3. CASE t \notin Viewers
    BY <1>15, <2>1, <2>3, MappedMoves DEF StartFails, Leave
  <2>. QED  BY <2>2, <2>3
<1>16. ASSUME NEW t \in Tasks, Signal(t) \/ Reaped(t) PROVE Goal
  <2>1. t \in Viewers => Rest(t) = "idle"
    BY DEF Rest
  <2>. QED  BY <1>16, <2>1, MappedMoves DEF Signal, Reaped, Stay
<1>17. ASSUME NEW p \in Procs, Exit(p) PROVE Goal
  BY <1>17 DEF Exit, Mapped
<1>18. CASE UNCHANGED vars
  BY <1>18 DEF vars, Mapped
<1>. QED  BY <1>2, <1>3, <1>7, <1>9, <1>10, <1>11, <1>12, <1>13, <1>14, <1>15, <1>16, <1>17, <1>18
          DEF Next

\* The hub implements SharedCapture for every number of viewers and settings.
THEOREM HubKeepsPromise == Spec => KeepsSharedCapture
<1>1. Init => Shared!SharedInit
  BY TasksAreTasks, Stages DEF Init, Shared!SharedInit
<1>2. TypeOK /\ LockHeld /\ CaptureMatchesCount /\ Accounting /\ CaptureHasViewer /\ [Next]_vars
        => [Shared!SharedNext]_(Shared!sharedVars)
  BY StepKeepsPromise
<1>. QED  BY <1>1, <1>2, TypeCorrect, PublishedIsCapture, CountIsExact, NoCaptureForNobody, PTL
          DEF Spec, KeepsSharedCapture, Shared!SharedSpec

=============================================================================
