--------------------------- MODULE VideoPath_proofs ---------------------------
(***************************************************************************)
(* What is proved of VideoPath for any transports, captures and sizes.     *)
(***************************************************************************)
EXTENDS VideoPath, SequenceTheorems, TLAPS

-----------------------------------------------------------------------------
(* The sequences. *)

\* A sequence's length and elements.
LEMMA Elements ==
  ASSUME NEW S, NEW q \in Seq(S)
  PROVE  /\ Len(q) \in Nat
         /\ DOMAIN q = 1 .. Len(q)
         /\ \A i \in 1 .. Len(q) : q[i] \in S
         /\ q = <<>> <=> Len(q) = 0
BY LenProperties, ElementOfSeq, EmptySeq

\* A sequence that gets another element.
LEMMA Grown ==
  ASSUME NEW S, NEW q \in Seq(S), NEW e \in S
  PROVE  /\ Append(q, e) \in Seq(S)
         /\ Append(q, e) # <<>>
         /\ Len(Append(q, e)) = Len(q) + 1
         /\ \A i \in 1 .. Len(q) : Append(q, e)[i] = q[i]
         /\ Append(q, e)[Len(q) + 1] = e
BY AppendProperties, Elements

\* A sequence that loses its first element.
LEMMA Shortened ==
  ASSUME NEW S, NEW q \in Seq(S), q # <<>>
  PROVE  /\ Tail(q) \in Seq(S)
         /\ Head(q) = q[1] /\ Head(q) \in S
         /\ Len(Tail(q)) = Len(q) - 1
         /\ \A i \in 1 .. Len(q) - 1 : Tail(q)[i] = q[i + 1]
BY HeadTailProperties, Elements

\* Keeping the newest n of a sequence.
LEMMA NewestTyping ==
  ASSUME NEW S, NEW q \in Seq(S), NEW n \in Nat \ {0}
  PROVE  /\ Newest(q, n) \in Seq(S)
         /\ Len(Newest(q, n)) <= n
         /\ Len(q) <= n => Newest(q, n) = q
<1>0. Len(q) \in Nat /\ \A i \in 1 .. Len(q) : q[i] \in S
  BY Elements
<1>1. CASE Len(q) <= n
  BY <1>1 DEF Newest
<1>2. CASE ~(Len(q) <= n)
  <2> DEFINE m == Len(q) - n + 1
  <2>1. m \in 1 .. Len(q)
    BY <1>0, <1>2
  <2>2. \A i \in m .. Len(q) : q[i] \in S
    BY <1>0, <2>1
  <2>3. m \in Int /\ Len(q) \in Int
    BY <1>0, <2>1
  <2>4. /\ SubSeq(q, m, Len(q)) \in Seq(S)
        /\ Len(SubSeq(q, m, Len(q))) = IF m <= Len(q) THEN Len(q) - m + 1 ELSE 0
    BY <2>2, <2>3, SubSeqProperties
  <2> QED
    BY <1>0, <1>2, <2>1, <2>4 DEF Newest
<1> QED
  BY <1>1, <1>2

\* Taking one element out.
LEMMA TakenOut ==
  ASSUME NEW S, NEW q \in Seq(S), NEW i \in DOMAIN q
  PROVE  /\ RemoveAt(q, i) \in Seq(S)
         /\ Len(RemoveAt(q, i)) = Len(q) - 1
<1> DEFINE front == SubSeq(q, 1, i - 1)
           back  == SubSeq(q, i + 1, Len(q))
<1>1. Len(q) \in Nat /\ i \in 1 .. Len(q) /\ \A j \in 1 .. Len(q) : q[j] \in S
  BY Elements
<1>2. front \in Seq(S) /\ Len(front) = i - 1
  <2>1. \A j \in 1 .. i - 1 : q[j] \in S
    BY <1>1
  <2>2. 1 \in Int /\ i - 1 \in Int
    BY <1>1
  <2>3. front \in Seq(S) /\ Len(front) = IF 1 <= i - 1 THEN (i - 1) - 1 + 1 ELSE 0
    BY <2>1, <2>2, SubSeqProperties
  <2> QED
    BY <1>1, <2>3
<1>3. back \in Seq(S) /\ Len(back) = Len(q) - i
  <2>1. \A j \in i + 1 .. Len(q) : q[j] \in S
    BY <1>1
  <2>2. i + 1 \in Int /\ Len(q) \in Int
    BY <1>1
  <2>3. back \in Seq(S) /\ Len(back) = IF i + 1 <= Len(q) THEN Len(q) - (i + 1) + 1 ELSE 0
    BY <2>1, <2>2, SubSeqProperties
  <2> QED
    BY <1>1, <2>3
<1>4. front \o back \in Seq(S) /\ Len(front \o back) = Len(front) + Len(back)
  BY <1>2, <1>3, ConcatProperties
<1>5. RemoveAt(q, i) = front \o back
  BY DEF RemoveAt
<1>6. Len(front) + Len(back) = Len(q) - 1
  BY <1>1, <1>2, <1>3
<1> HIDE DEF front, back
<1> QED
  BY <1>4, <1>5, <1>6

\* Taking the first one out.
LEMMA FirstTakenOut ==
  ASSUME NEW S, NEW q \in Seq(S), q # <<>>
  PROVE  RemoveAt(q, 1) = Tail(q)
<1>1. SubSeq(q, 1, 1 - 1) = <<>>
  BY SubSeqEmpty
<1>2. SubSeq(q, 2, Len(q)) = Tail(q)
  OBVIOUS
<1>3. Tail(q) \in Seq(S)
  BY Shortened
<1> QED
  BY <1>1, <1>2, <1>3, ConcatEmptySeq DEF RemoveAt

\* What the queue becomes when a frame is pushed onto one that has a keyframe at
\* its front at most: the new keyframe alone, or all of it.
LEMMA CoalescePushed ==
  ASSUME NEW q \in Seq(Frames), NEW f \in Frames, \A i \in Keys(q) : i = 1
  PROVE  Coalesce(Append(q, f)) = IF Key(f) THEN <<f>> ELSE Append(q, f)
<1> DEFINE p == Append(q, f)
           n == Len(q) + 1
<1>1. /\ Len(q) \in Nat
      /\ p \in Seq(Frames) /\ Len(p) = n /\ p[n] = f /\ DOMAIN p = 1 .. n
      /\ \A i \in 1 .. Len(q) : p[i] = q[i]
      /\ DOMAIN q = 1 .. Len(q)
  BY Elements, Grown
<1>2. \A i \in Keys(p) : i = 1 \/ i = n
  <2> SUFFICES ASSUME NEW i \in Keys(p), i # n PROVE i = 1
    OBVIOUS
  <2>1. i \in 1 .. Len(q) /\ Key(p[i])
    BY <1>1 DEF Keys
  <2>2. i \in Keys(q)
    BY <1>1, <2>1 DEF Keys
  <2> QED
    BY <2>2
<1>3. n \in Keys(p) <=> Key(f)
  BY <1>1 DEF Keys
<1> HIDE DEF p, n
<1>4. CASE Key(f)
  <2>1. (CHOOSE i \in Keys(p) : \A j \in Keys(p) : j <= i) = n
    <3>1. n \in Keys(p) /\ \A j \in Keys(p) : j <= n
      BY <1>1, <1>2, <1>3, <1>4 DEF n
    <3>2. \A i \in Keys(p) : (\A j \in Keys(p) : j <= i) => i = n
      BY <1>1, <1>2, <3>1 DEF n
    <3> QED
      BY <3>1, <3>2
  <2>2. Coalesce(p) = SubSeq(p, n, Len(p))
    BY <1>3, <1>4, <2>1 DEF Coalesce
  <2>3. SubSeq(p, n, n) = <<f>>
    <3>1. n \in Int /\ \A i \in n .. n : p[i] \in Frames
      BY <1>1 DEF n
    <3>2. /\ SubSeq(p, n, n) \in Seq(Frames)
          /\ Len(SubSeq(p, n, n)) = IF n <= n THEN n - n + 1 ELSE 0
          /\ \A i \in 1 .. n - n + 1 : SubSeq(p, n, n)[i] = p[n + i - 1]
      BY <3>1, SubSeqProperties
    <3>3. Len(SubSeq(p, n, n)) = 1 /\ SubSeq(p, n, n)[1] = f
      BY <1>1, <3>1, <3>2
    <3>4. <<f>> \in Seq(Frames) /\ Len(<<f>>) = 1 /\ <<f>>[1] = f
      OBVIOUS
    <3> DEFINE u == SubSeq(p, n, n)
               v == <<f>>
    <3>5. /\ u \in Seq(Frames) /\ v \in Seq(Frames) /\ Len(u) = Len(v)
          /\ \A i \in 1 .. Len(u) : u[i] = v[i]
      BY <3>1, <3>2, <3>3, <3>4
    <3> HIDE DEF u, v
    <3>6. u = v
      BY <3>5, SeqEqual
    <3> QED
      BY <3>6 DEF u, v
  <2> QED
    BY <1>1, <1>4, <2>2, <2>3 DEF p
<1>5. CASE ~Key(f) /\ Keys(p) = {}
  BY <1>5 DEF Coalesce, p
<1>6. CASE ~Key(f) /\ Keys(p) # {}
  <2>1. Keys(p) = {1}
    BY <1>2, <1>3, <1>6
  <2>2. (CHOOSE i \in Keys(p) : \A j \in Keys(p) : j <= i) = 1
    BY <2>1
  <2>3. Coalesce(p) = SubSeq(p, 1, Len(p))
    BY <1>6, <2>2 DEF Coalesce
  <2>4. SubSeq(p, 1, Len(p)) = p
    BY <1>1
  <2> QED
    BY <1>6, <2>3, <2>4 DEF p
<1> QED
  BY <1>4, <1>5, <1>6

\* The same with the bound: there is a frame, a keyframe is at the front, and
\* nothing is lost while there is room.
LEMMA Pushed ==
  ASSUME NEW q \in Seq(Frames), NEW f \in Frames, \A i \in Keys(q) : i = 1
  PROVE  LET r == Newest(Coalesce(Append(q, f)), MaxQueued) IN
         /\ r \in Seq(Frames) /\ r # <<>> /\ Len(r) <= MaxQueued
         /\ \A i \in Keys(r) : i = 1
         /\ Len(q) < MaxQueued => r = IF Key(f) THEN <<f>> ELSE Append(q, f)
<1> DEFINE p == Append(q, f)
           n == Len(q) + 1
           r == Newest(Coalesce(p), MaxQueued)
<1>0. MaxQueued \in Nat \ {0}
  BY PathAssumption
<1>1. /\ Len(q) \in Nat
      /\ p \in Seq(Frames) /\ Len(p) = n /\ DOMAIN p = 1 .. n
      /\ p # <<>>
      /\ p[n] = f
      /\ \A i \in 1 .. Len(q) : p[i] = q[i]
      /\ DOMAIN q = 1 .. Len(q)
  BY Elements, Grown
<1>2. Coalesce(p) = IF Key(f) THEN <<f>> ELSE p
  BY CoalescePushed
<1> HIDE DEF p
<1>3. CASE Key(f)
  <2>1. <<f>> \in Seq(Frames) /\ Len(<<f>>) = 1 /\ DOMAIN <<f>> = {1} /\ <<f>> # <<>>
    OBVIOUS
  <2>2. r = <<f>>
    <3>1. Newest(<<f>>, MaxQueued) = <<f>>
      BY <1>0, <2>1 DEF Newest
    <3> QED
      BY <1>2, <1>3, <3>1
  <2>3. \A i \in Keys(<<f>>) : i = 1
    BY <2>1 DEF Keys
  <2> QED
    BY <1>0, <1>3, <2>1, <2>2, <2>3 DEF p
<1>4. CASE ~Key(f) /\ n <= MaxQueued
  <2>1. r = p
    BY <1>0, <1>1, <1>2, <1>4, NewestTyping
  <2>2. \A i \in Keys(p) : i \in 1 .. Len(q)
    BY <1>1, <1>4 DEF Keys
  <2>3. \A i \in Keys(p) : i \in Keys(q)
    BY <1>1, <2>2 DEF Keys
  <2> QED
    BY <1>1, <1>4, <2>1, <2>3 DEF p
<1>5. CASE ~Key(f) /\ ~(n <= MaxQueued)
  <2> DEFINE m == n - MaxQueued + 1
  <2>1. r = SubSeq(p, m, n)
    BY <1>1, <1>2, <1>5 DEF Newest
  <2>2. m \in 2 .. n
    BY <1>0, <1>1, <1>5
  <2>3. \A i \in m .. n : p[i] \in Frames
    BY <1>1, <2>2, Elements
  <2>4. /\ r \in Seq(Frames)
        /\ Len(r) = IF m <= n THEN n - m + 1 ELSE 0
        /\ \A i \in 1 .. n - m + 1 : r[i] = p[m + i - 1]
    BY <1>1, <2>1, <2>2, <2>3, SubSeqProperties
  <2>5. Len(r) = MaxQueued /\ DOMAIN r = 1 .. MaxQueued /\ r # <<>>
    BY <1>0, <1>1, <2>2, <2>4, Elements
  <2>6. \A i \in Keys(r) : FALSE
    <3> SUFFICES ASSUME NEW i \in Keys(r) PROVE FALSE
      OBVIOUS
    <3>1. i \in 1 .. MaxQueued /\ Key(r[i])
      BY <2>5 DEF Keys
    <3>2. m + i - 1 \in 2 .. n /\ Key(p[m + i - 1])
      <4>1. i \in 1 .. n - m + 1 /\ m + i - 1 \in 2 .. n
        BY <1>0, <1>1, <2>2, <3>1
      <4>2. r[i] = p[m + i - 1]
        BY <2>4, <4>1
      <4> QED
        BY <3>1, <4>1, <4>2
    <3>3. m + i - 1 \in 1 .. Len(q)
      BY <1>1, <1>5, <3>2
    <3>4. m + i - 1 \in Keys(q)
      BY <1>1, <3>2, <3>3 DEF Keys
    <3> QED
      BY <3>2, <3>4
  <2> QED
    BY <1>0, <1>1, <1>5, <2>4, <2>5, <2>6 DEF p
<1> QED
  BY <1>3, <1>4, <1>5 DEF p

-----------------------------------------------------------------------------
(* Types. *)

LEMMA Constants ==
  /\ Gop \in Nat \ {0} /\ Ring \in Nat \ {0} /\ Channel \in Nat \ {0}
  /\ MaxQueued \in Nat \ {0} /\ Wire \in Nat \ {0} /\ SeqSpace \in Nat \ {0}
  /\ MaxFrames \in Nat \ {0} /\ Join \in Nat /\ Restarts \in Nat
  /\ Gop <= MaxQueued /\ MaxFrames < SeqSpace
  /\ None \notin Frames /\ None \notin 0 .. (SeqSpace - 1)
  /\ 1 \in Captures /\ \A c \in Captures : c \in Nat /\ First(c) \in Nat
BY PathAssumption, NoneAssumption DEF Captures, First

\* The states of the writer's task, as TypeOK has them.
Writers ==
  [at : {"writing"}, frame : Frames]
    \cup [at : {"looking", "empty", "waiting", "done"}, frame : {None}]

\* And those of the decoder.
Decoders == [up : BOOLEAN, waiting : BOOLEAN, last : 0..(SeqSpace - 1) \cup {None}]

LEMMA DownTyping == Down \in Decoders /\ [Down EXCEPT !.up = TRUE] \in Decoders
<1>1. Down \in Decoders
  BY DEF Down, Decoders
<1>2. \A d \in Decoders : [d EXCEPT !.up = TRUE] \in Decoders
  BY DEF Decoders
<1> QED
  BY <1>1, <1>2

\* What a frame is made of.
LEMMA FrameParts ==
  ASSUME NEW f \in Frames
  PROVE  /\ f.capture \in Captures /\ f.number \in Nat /\ f.nth \in 1 .. Gop
         /\ f.number >= First(f.capture) /\ f.number < First(f.capture) + MaxFrames
         /\ Seqno(f) \in 0 .. (SeqSpace - 1)
<1>1. /\ f.capture \in Captures /\ f.number \in Nat /\ f.nth \in 1 .. Gop
      /\ f.number \in First(f.capture) .. (First(f.capture) + MaxFrames - 1)
  BY DEF Frames
<1>2. First(f.capture) \in Nat
  BY <1>1, Constants
<1>3. Seqno(f) \in 0 .. (SeqSpace - 1)
  BY <1>1, Constants DEF Seqno
<1> QED
  BY <1>1, <1>2, <1>3, Constants

\* The frame that Read makes.
NewFrame(c, key) ==
  [capture |-> c, number |-> reader[c].number, nth |-> IF key THEN 1 ELSE reader[c].age + 1]

\* A keyframe waits at the front of the queue or not at all.
KeyFirst == \A i \in Keys(queue) : i = 1

TypeInv == TypeOK /\ KeyFirst

LEMMA ReadTyping ==
  ASSUME TypeOK, NEW c \in Captures, NEW key \in BOOLEAN, Read(c, key)
  PROVE  /\ NewFrame(c, key) \in Frames
         /\ reader' = [reader EXCEPT ![c] =
              [number |-> reader[c].number + 1, age |-> NewFrame(c, key).nth, live |-> TRUE]]
         /\ ring' = Newest(Append(ring, NewFrame(c, key)), Ring)
         /\ ring' \in Seq(Frames) /\ Len(ring') <= Ring
         /\ reader' \in [Captures -> [number : Nat, age : 0..Gop, live : BOOLEAN]]
         /\ \A d \in Captures : reader'[d].number \in First(d) .. (First(d) + MaxFrames)
<1>0. /\ reader \in [Captures -> [number : Nat, age : 0..Gop, live : BOOLEAN]]
      /\ \A d \in Captures : reader[d].number \in First(d)..(First(d) + MaxFrames)
      /\ ring \in Seq(Frames)
  BY DEF TypeOK
<1> DEFINE nth == IF key THEN 1 ELSE reader[c].age + 1
           f   == NewFrame(c, key)
<1>1. /\ reader[c].number \in Nat /\ reader[c].age \in 0 .. Gop
      /\ reader[c].number \in First(c) .. (First(c) + MaxFrames)
  BY <1>0
<1>2. reader[c].number < First(c) + MaxFrames /\ (reader[c].age = Gop => key)
  BY DEF Read
<1>3. nth \in 1 .. Gop
  BY <1>1, <1>2, Constants
<1>4. f \in Frames
  <2>1. reader[c].number \in First(c) .. (First(c) + MaxFrames - 1)
    BY <1>1, <1>2, Constants
  <2> QED
    BY <1>1, <1>3, <2>1 DEF Frames, NewFrame
<1>5. f.nth = nth
  BY DEF NewFrame
<1>6. /\ reader' = [reader EXCEPT ![c] =
           [number |-> reader[c].number + 1, age |-> f.nth, live |-> TRUE]]
      /\ ring' = Newest(Append(ring, f), Ring)
  BY <1>5 DEF Read, NewFrame
<1> HIDE DEF f, nth
<1>7. ring' \in Seq(Frames) /\ Len(ring') <= Ring
  BY <1>0, <1>4, <1>6, Grown, NewestTyping, Constants
<1>8. [number |-> reader[c].number + 1, age |-> f.nth, live |-> TRUE]
        \in [number : Nat, age : 0..Gop, live : BOOLEAN]
  BY <1>1, <1>3, <1>5, Constants
<1>9. reader' \in [Captures -> [number : Nat, age : 0..Gop, live : BOOLEAN]]
  BY <1>0, <1>6, <1>8
<1>10. reader[c].number + 1 \in First(c) .. (First(c) + MaxFrames)
  BY <1>1, <1>2, Constants
<1>11. \A d \in Captures : reader'[d].number \in First(d) .. (First(d) + MaxFrames)
  BY <1>0, <1>6, <1>10
<1> QED
  BY <1>4, <1>6, <1>7, <1>9, <1>11 DEF f

LEMMA InitTyping == Init => TypeInv
<1> SUFFICES ASSUME Init PROVE TypeInv
  OBVIOUS
<1>1. PICK age \in 0 .. Gop :
        /\ age <= Join
        /\ reader = [c \in Captures |->
             IF c = 1 THEN [number |-> Join, age |-> age, live |-> TRUE]
                      ELSE [number |-> 0, age |-> 0, live |-> FALSE]]
  BY DEF Init
<1>2. reader \in [Captures -> [number : Nat, age : 0..Gop, live : BOOLEAN]]
  BY <1>1, Constants
<1>3. \A c \in Captures : reader[c].number \in First(c) .. (First(c) + MaxFrames)
  BY <1>1, Constants DEF First
<1>4. <<>> \in Seq(Frames) /\ Len(<<>>) = 0 /\ DOMAIN <<>> = {}
  OBVIOUS
<1>5. KeyFirst
  BY <1>4 DEF Init, KeyFirst, Keys
<1>6. TypeOK
  <2>1. writer \in Writers
    BY DEF Init, Writers
  <2>2. decoder \in Decoders
    BY DownTyping DEF Init
  <2>3. /\ Len(ring) <= Ring /\ Len(channel) <= Channel
        /\ Len(queue) <= MaxQueued /\ Len(wire) <= Wire
    BY <1>4, Constants DEF Init
  <2> HIDE <1>1
  <2>4. /\ ring \in Seq(Frames) /\ channel \in Seq(Frames)
        /\ queue \in Seq(Frames) /\ wire \in Seq(Frames)
    BY <1>4 DEF Init
  <2>5. /\ via \in Vias /\ closed \in BOOLEAN /\ permit \in BOOLEAN /\ disturbed \in BOOLEAN
        /\ shown \in Frames \cup {None}
    BY DEF Init
  <2> QED
    BY <1>2, <1>3, <2>1, <2>2, <2>3, <2>4, <2>5 DEF TypeOK, Writers, Decoders
<1> QED
  BY <1>5, <1>6 DEF TypeInv

\* What handleVideoFrame makes of the decoder.
LEMMA HandleTyping ==
  ASSUME TypeOK, NEW f \in Frames, Handle(f)
  PROVE  /\ decoder' \in Decoders
         /\ shown' \in Frames \cup {None}
<1>1. /\ decoder \in Decoders
      /\ shown \in Frames \cup {None}
  BY DEF TypeOK, Decoders
<1>2. Seqno(f) \in 0..(SeqSpace - 1)
  BY FrameParts
<1>3. Down \in Decoders
  BY DownTyping
<1>4. \/ UNCHANGED decoder
      \/ decoder' = Down
      \/ decoder' = [decoder EXCEPT !.last = Seqno(f)]
      \/ decoder' = [decoder EXCEPT !.last = Seqno(f), !.waiting = FALSE]
  BY DEF Handle
<1>5. shown' = f \/ UNCHANGED shown
  BY DEF Handle
<1>6. /\ [decoder EXCEPT !.last = Seqno(f)] \in Decoders
      /\ [decoder EXCEPT !.last = Seqno(f), !.waiting = FALSE] \in Decoders
  BY <1>1, <1>2 DEF Decoders
<1> QED
  BY <1>1, <1>3, <1>4, <1>5, <1>6

\* The steps, each named once.
LEMMA NextCases ==
  ASSUME [Next]_vars
  PROVE  \/ \E c \in Captures, key \in BOOLEAN : Read(c, key)
         \/ (\E c \in Captures : ReaderEnds(c)) \/ Replace
         \/ Forward \/ WriteSocket \/ Push \/ Close
         \/ Take
         \/ FindNone \/ Await \/ Wake \/ Skip \/ WriteFails
         \/ Write
         \/ \E i \in DOMAIN wire : Receive(i) \/ Lose(i) \/ CatchUp(i)
         \/ DecoderFails \/ SetupDecoder
         \/ UNCHANGED vars
<1>1. \A i : Receive(i) \/ Lose(i) \/ CatchUp(i) => i \in DOMAIN wire
  BY DEF Receive, Lose, CatchUp
<1> QED
  BY <1>1 DEF Next, Drain, Browse

LEMMA StepTyping == TypeInv /\ [Next]_vars => TypeInv'
<1> SUFFICES ASSUME TypeInv, [Next]_vars PROVE TypeInv'
  OBVIOUS
<1>0. TypeOK /\ KeyFirst
  BY DEF TypeInv
<1>t. /\ via \in Vias
      /\ ring \in Seq(Frames) /\ channel \in Seq(Frames)
      /\ queue \in Seq(Frames) /\ wire \in Seq(Frames)
      /\ Len(ring) <= Ring /\ Len(channel) <= Channel
      /\ Len(queue) <= MaxQueued /\ Len(wire) <= Wire
      /\ writer \in Writers
  BY <1>0 DEF TypeOK, Writers
<1>s. UNCHANGED queue => KeyFirst'
  BY <1>0 DEF KeyFirst, Keys
<1>1. ASSUME NEW c \in Captures, NEW key \in BOOLEAN, Read(c, key) PROVE TypeInv'
  <2>1. disturbed' \in BOOLEAN
    BY <1>1 DEF Read
  <2>2. TypeOK'
    BY <1>0, <1>1, <2>1, ReadTyping DEF Read, TypeOK
  <2> QED
    BY <1>1, <1>s, <2>2 DEF Read, TypeInv
<1>2. ASSUME \/ \E c \in Captures : ReaderEnds(c)
             \/ Replace
      PROVE  TypeInv'
  <2>1. /\ reader' \in [Captures -> [number : Nat, age : 0..Gop, live : BOOLEAN]]
        /\ \A c \in Captures : reader'[c].number = reader[c].number
    <3>1. PICK c \in Captures, b \in BOOLEAN : reader' = [reader EXCEPT ![c].live = b]
      BY <1>2 DEF ReaderEnds, Replace
    <3>2. reader \in [Captures -> [number : Nat, age : 0..Gop, live : BOOLEAN]]
      BY <1>0 DEF TypeOK
    <3> QED
      BY <3>1, <3>2
  <2>2. TypeOK'
    BY <1>0, <1>2, <2>1 DEF TypeOK, ReaderEnds, Replace
  <2> QED
    BY <1>2, <1>s, <2>2 DEF ReaderEnds, Replace, TypeInv
<1>3. CASE Forward
  <2>1. /\ channel' \in Seq(Frames) /\ Len(channel') <= Channel
        /\ ring' \in Seq(Frames) /\ Len(ring') <= Ring
    BY <1>t, <1>3, Grown, Shortened, Elements, Constants DEF Forward
  <2>2. TypeOK'
    BY <1>0, <1>3, <2>1 DEF Forward, TypeOK
  <2> QED
    BY <1>3, <1>s, <2>2 DEF Forward, TypeInv
<1>4. CASE WriteSocket
  <2>1. /\ wire' \in Seq(Frames) /\ Len(wire') <= Wire
        /\ channel' \in Seq(Frames) /\ Len(channel') <= Channel
    BY <1>t, <1>4, Grown, Shortened, Elements, Constants DEF WriteSocket
  <2>2. TypeOK'
    BY <1>0, <1>4, <2>1 DEF WriteSocket, TypeOK
  <2> QED
    BY <1>4, <1>s, <2>2 DEF WriteSocket, TypeInv
<1>5. CASE Push
  <2>1. /\ channel' \in Seq(Frames) /\ Len(channel') <= Channel /\ Head(channel) \in Frames
    BY <1>t, <1>5, Shortened, Elements, Constants DEF Push
  <2>2. queue' \in Seq(Frames) /\ Len(queue') <= MaxQueued /\ KeyFirst'
    <3>1. CASE closed
      BY <1>t, <1>s, <1>5, <3>1 DEF Push
    <3>2. CASE ~closed
      <4>1. queue' = Newest(Coalesce(Append(queue, Head(channel))), MaxQueued)
        BY <1>5, <3>2 DEF Push
      <4>2. \A i \in Keys(queue) : i = 1
        BY <1>0 DEF KeyFirst
      <4>3. queue' \in Seq(Frames) /\ Len(queue') <= MaxQueued /\ \A i \in Keys(queue') : i = 1
        BY <1>t, <2>1, <4>1, <4>2, Pushed
      <4> QED
        BY <4>3 DEF KeyFirst, Keys
    <3> QED
      BY <3>1, <3>2
  <2>3. permit' \in BOOLEAN
    BY <1>0, <1>5 DEF Push, TypeOK
  <2>4. TypeOK'
    BY <1>0, <1>5, <2>1, <2>2, <2>3 DEF Push, TypeOK
  <2> QED
    BY <2>2, <2>4 DEF TypeInv
<1>6. CASE Close
  <2>1. TypeOK'
    BY <1>0, <1>6 DEF Close, Session, TypeOK
  <2> QED
    BY <1>6, <1>s, <2>1 DEF Close, TypeInv
<1>7. CASE Take
  <2>1. /\ queue' \in Seq(Frames) /\ Len(queue') <= MaxQueued /\ Head(queue) \in Frames
        /\ Len(queue') = Len(queue) - 1
        /\ \A i \in 1 .. Len(queue') : queue'[i] = queue[i + 1]
        /\ DOMAIN queue = 1 .. Len(queue) /\ Len(queue) \in Nat
        /\ DOMAIN queue' = 1 .. Len(queue')
    BY <1>t, <1>7, Shortened, Elements, Constants DEF Take
  <2>2. KeyFirst'
    <3> SUFFICES ASSUME NEW i \in Keys(queue') PROVE FALSE
      BY DEF KeyFirst, Keys
    <3>1. i \in 1 .. Len(queue') /\ Key(queue[i + 1])
      BY <2>1 DEF Keys
    <3>2. i + 1 \in Keys(queue)
      BY <2>1, <3>1 DEF Keys
    <3> QED
      BY <1>0, <3>1, <3>2 DEF KeyFirst
  <2>3. writer' \in Writers
    BY <1>7, <2>1 DEF Take, Writers
  <2>4. TypeOK'
    BY <1>0, <1>7, <2>1, <2>3 DEF Take, Session, TypeOK, Writers
  <2> QED
    BY <2>2, <2>4 DEF TypeInv
<1>8. CASE FindNone \/ Await \/ Wake \/ Skip \/ WriteFails
  <2>1. writer' \in Writers
    BY <1>8 DEF FindNone, Await, Wake, Skip, WriteFails, Writer, Writers
  <2>2. permit' \in BOOLEAN
    BY <1>0, <1>8 DEF FindNone, Await, Wake, Skip, WriteFails, TypeOK
  <2>3. UNCHANGED <<queue, closed, wire>> /\ Session
    BY <1>8 DEF FindNone, Await, Wake, Skip, WriteFails
  <2>4. TypeOK'
    BY <1>0, <2>1, <2>2, <2>3 DEF Session, TypeOK, Writers
  <2> QED
    BY <1>s, <2>3, <2>4 DEF TypeInv
<1>9. CASE Write
  <2>1. writer.frame \in Frames
    BY <1>t, <1>9 DEF Write, Writers
  <2>2. wire' \in Seq(Frames) /\ Len(wire') <= Wire
    BY <1>t, <1>9, <2>1, Grown, Elements, Constants DEF Write
  <2>3. writer' \in Writers
    BY <1>9 DEF Write, Writer, Writers
  <2>4. TypeOK'
    BY <1>0, <1>9, <2>2, <2>3 DEF Write, Session, TypeOK, Writers
  <2> QED
    BY <1>9, <1>s, <2>4 DEF Write, TypeInv
<1>10. ASSUME NEW i \in DOMAIN wire, Receive(i) \/ Lose(i) \/ CatchUp(i) PROVE TypeInv'
  <2>1. wire' \in Seq(Frames) /\ Len(wire') <= Wire /\ wire[i] \in Frames
    <3>1. wire' = RemoveAt(wire, i)
      BY <1>10 DEF Receive, Lose, CatchUp
    <3> QED
      BY <1>t, <1>10, <3>1, TakenOut, Elements, Constants
  <2>2. /\ decoder' \in Decoders
        /\ shown' \in Frames \cup {None}
    <3>1. CASE Receive(i)
      BY <1>0, <2>1, <3>1, HandleTyping DEF Receive
    <3>2. CASE Lose(i) \/ CatchUp(i)
      BY <1>0, <3>2, DownTyping DEF Lose, CatchUp, TypeOK, Decoders
    <3> QED
      BY <1>10, <3>1, <3>2
  <2>3. Server
    BY <1>10 DEF Receive, Lose, CatchUp
  <2>4. TypeOK'
    BY <1>0, <2>1, <2>2, <2>3 DEF Server, TypeOK, Decoders
  <2> QED
    BY <1>s, <2>3, <2>4 DEF Server, TypeInv
<1>11. CASE DecoderFails \/ SetupDecoder
  <2>1. decoder' \in Decoders
    BY <1>11, DownTyping DEF DecoderFails, SetupDecoder
  <2>2. Server /\ UNCHANGED <<wire, shown>>
    BY <1>11 DEF DecoderFails, SetupDecoder
  <2>3. TypeOK'
    BY <1>0, <2>1, <2>2 DEF Server, TypeOK, Decoders
  <2> QED
    BY <1>s, <2>2, <2>3 DEF Server, TypeInv
<1>12. CASE UNCHANGED vars
  <2>1. TypeOK'
    BY <1>0, <1>12 DEF vars, TypeOK
  <2> QED
    BY <1>12, <1>s, <2>1 DEF vars, TypeInv
<1> QED
  BY <1>1, <1>2, <1>3, <1>4, <1>5, <1>6, <1>7, <1>8, <1>9, <1>10, <1>11, <1>12, NextCases

LEMMA Typed == Spec => []TypeInv
BY InitTyping, StepTyping, PTL DEF Spec

\* The state keeps its shape, and every queue of the way its bound.
THEOREM PathTypeCorrect == Spec => []TypeOK
<1>1. TypeInv => TypeOK
  BY DEF TypeInv
<1> QED
  BY <1>1, Typed, PTL

-----------------------------------------------------------------------------
(* The writer's word. *)

LEMMA StepWakeup == TypeInv /\ NoLostWakeup /\ [Next]_vars => NoLostWakeup'
<1> SUFFICES ASSUME TypeInv, NoLostWakeup, [Next]_vars PROVE NoLostWakeup'
  OBVIOUS
<1>1. ASSUME UNCHANGED <<writer, queue, closed, permit>> PROVE NoLostWakeup'
  BY <1>1 DEF NoLostWakeup
<1>2. CASE Push
  <2>1. CASE closed
    BY <1>1, <1>2, <2>1 DEF Push
  <2>2. CASE ~closed
    BY <1>2, <2>2 DEF Push, NoLostWakeup
  <2> QED
    BY <2>1, <2>2
<1>3. CASE Close
  BY <1>3 DEF Close, NoLostWakeup
<1>4. CASE Take \/ Wake \/ Skip \/ WriteFails \/ Write
  <2>1. writer'.at \in {"looking", "writing", "done"}
    BY <1>4 DEF Take, Wake, Skip, WriteFails, Write, Writer
  <2> QED
    BY <2>1 DEF NoLostWakeup
<1>5. CASE FindNone
  <2>1. queue' = <<>> /\ closed' = closed /\ writer'.at = IF closed THEN "done" ELSE "empty"
    BY <1>5 DEF FindNone, Writer
  <2> QED
    BY <2>1 DEF NoLostWakeup
<1>6. CASE Await
  <2>1. CASE permit
    BY <1>6, <2>1 DEF Await, Writer, NoLostWakeup
  <2>2. CASE ~permit
    BY <1>6, <2>2 DEF Await, Writer, NoLostWakeup
  <2> QED
    BY <2>1, <2>2
<1>7. ASSUME \/ \E c \in Captures, key \in BOOLEAN : Read(c, key)
             \/ \E c \in Captures : ReaderEnds(c)
             \/ Replace \/ Forward \/ WriteSocket
             \/ \E i \in DOMAIN wire : Receive(i) \/ Lose(i) \/ CatchUp(i)
             \/ DecoderFails \/ SetupDecoder
             \/ UNCHANGED vars
      PROVE  NoLostWakeup'
  <2>1. UNCHANGED <<writer, queue, closed, permit>>
    BY <1>7 DEF Read, ReaderEnds, Replace, Forward, WriteSocket, Receive, Lose, CatchUp,
                DecoderFails, SetupDecoder, Server, vars
  <2> QED
    BY <1>1, <2>1
<1> QED
  BY <1>2, <1>3, <1>4, <1>5, <1>6, <1>7, NextCases

\* A frame or the end that comes between the writer's look and its wait leaves a
\* permit, whenever it comes (VideoQueue::push, close and next).
THEOREM NoWakeupIsLost == Spec => []NoLostWakeup
<1>1. Init => NoLostWakeup
  BY DEF Init, NoLostWakeup
<1> QED
  BY <1>1, Typed, StepWakeup, PTL DEF Spec

-----------------------------------------------------------------------------
(* What the decoder is given. *)

\* The browser has the number of the frame it submitted last, unless it waits.
DecoderKnows ==
  /\ ~decoder.up => decoder.waiting /\ decoder.last = None
  /\ decoder.up /\ ~decoder.waiting => shown \in Frames /\ decoder.last = Seqno(shown)

LEMMA StepDecoder == TypeInv /\ DecoderKnows /\ [Next]_vars => DecoderKnows'
<1> SUFFICES ASSUME TypeInv, DecoderKnows, [Next]_vars PROVE DecoderKnows'
  OBVIOUS
<1>0. decoder \in Decoders /\ wire \in Seq(Frames)
  BY DEF TypeInv, TypeOK, Decoders
<1>1. ASSUME UNCHANGED <<decoder, shown>> PROVE DecoderKnows'
  BY <1>1 DEF DecoderKnows, Seqno
<1>2. ASSUME decoder' = Down \/ decoder' = [Down EXCEPT !.up = TRUE] PROVE DecoderKnows'
  BY <1>2 DEF DecoderKnows, Down
<1>3. ASSUME NEW i \in DOMAIN wire, Receive(i) PROVE DecoderKnows'
  <2> DEFINE f == wire[i]
  <2>1. f \in Frames /\ Handle(f)
    BY <1>0, <1>3, Elements DEF Receive
  <2> HIDE DEF f
  <2>2. CASE UNCHANGED <<decoder, shown>>
    BY <1>1, <2>2
  <2>3. CASE decoder' = Down
    BY <1>2, <2>3
  <2>4. CASE decoder.up /\ decoder.waiting /\ decoder' = [decoder EXCEPT !.last = Seqno(f)]
    BY <1>0, <2>4 DEF DecoderKnows, Decoders
  <2>5. CASE decoder.up /\ shown' = f
             /\ decoder' = [decoder EXCEPT !.last = Seqno(f), !.waiting = FALSE]
    <3>1. decoder'.last = Seqno(f) /\ decoder'.up
      BY <1>0, <2>5 DEF Decoders
    <3> QED
      BY <2>1, <2>5, <3>1 DEF DecoderKnows, Seqno
  <2> QED
    BY <2>1, <2>2, <2>3, <2>4, <2>5 DEF Handle
<1>4. ASSUME NEW i \in DOMAIN wire, Lose(i) \/ CatchUp(i) PROVE DecoderKnows'
  BY <1>1, <1>2, <1>4 DEF Lose, CatchUp
<1>5. CASE DecoderFails \/ SetupDecoder
  BY <1>2, <1>5 DEF DecoderFails, SetupDecoder
<1>6. ASSUME \/ \E c \in Captures, key \in BOOLEAN : Read(c, key)
             \/ \E c \in Captures : ReaderEnds(c)
             \/ Replace \/ Forward \/ WriteSocket \/ Push \/ Close
             \/ Take \/ FindNone \/ Await \/ Wake \/ Skip \/ WriteFails \/ Write
             \/ UNCHANGED vars
      PROVE  DecoderKnows'
  <2>1. UNCHANGED <<decoder, shown>>
    BY <1>6 DEF Read, ReaderEnds, Replace, Forward, WriteSocket, Push, Close, Take, FindNone,
                Await, Wake, Skip, WriteFails, Write, Session, vars
  <2> QED
    BY <1>1, <2>1
<1> QED
  BY <1>3, <1>4, <1>5, <1>6, NextCases

\* Of numbers that are less than S apart, the one that follows modulo S follows.
LEMMA Successor ==
  ASSUME NEW a \in Nat, NEW b \in Nat, NEW low \in Nat, NEW n \in Nat, NEW S \in Nat \ {0},
         n < S, low <= a, a < low + n, low <= b, b < low + n,
         ((a % S) + 1) % S = b % S
  PROVE  b = a + 1
<1> DEFINE qa == a \div S
           qb == b \div S
           ra == a % S
           rb == b % S
<1>1. /\ a = S * qa + ra /\ ra \in 0 .. (S - 1) /\ qa \in Nat
      /\ b = S * qb + rb /\ rb \in 0 .. (S - 1) /\ qb \in Nat
  OBVIOUS
<1>2. (ra + 1) % S = rb
  OBVIOUS
<1>3. \A k \in Int : 0 - S < S * k /\ S * k < S => k = 0
  <2> SUFFICES ASSUME NEW k \in Int, 0 - S < S * k, S * k < S PROVE k = 0
    OBVIOUS
  <2>1. k >= 1 => S * k >= S
    OBVIOUS
  <2>2. k <= 0 - 1 => S * k <= 0 - S
    OBVIOUS
  <2> QED
    BY <2>1, <2>2
<1>4. 0 - S < b - a - 1 /\ b - a - 1 < S
  OBVIOUS
<1> HIDE DEF qa, qb, ra, rb
<1>5. CASE ra + 1 < S
  <2>1. rb = ra + 1
    BY <1>1, <1>2, <1>5
  <2>2. b - a - 1 = S * (qb - qa)
    BY <1>1, <2>1
  <2>3. qb - qa = 0
    BY <1>1, <1>3, <1>4, <2>2
  <2> QED
    BY <2>2, <2>3
<1>6. CASE ra + 1 = S
  <2>1. rb = 0
    BY <1>1, <1>2, <1>6
  <2>2. b - a - 1 = S * (qb - qa - 1)
    BY <1>1, <1>6, <2>1
  <2>3. qb - qa - 1 = 0
    BY <1>1, <1>3, <1>4, <2>2
  <2> QED
    BY <2>2, <2>3
<1> QED
  BY <1>1, <1>5, <1>6

\* The decoder is never given a delta frame whose predecessor in the capture it
\* was not given (handleVideoFrame), whatever the way has dropped, lost or
\* reordered.
THEOREM DecoderIsFedInOrder == Spec => DecodesChain
<1>1. Init => DecoderKnows
  BY DEF Init, DecoderKnows, Down
<1>2. ASSUME TypeInv, DecoderKnows, [Next]_vars, Submit, ~Key(shown')
      PROVE  shown'.number = shown.number + 1
  <2>0. decoder \in Decoders /\ wire \in Seq(Frames)
    BY <1>2 DEF TypeInv, TypeOK, Decoders
  <2>1. PICK i \in DOMAIN wire : Receive(i)
    <3>1. shown' # shown
      BY <1>2 DEF Submit
    <3> QED
      BY <1>2, <3>1, NextCases
         DEF Read, ReaderEnds, Replace, Forward, WriteSocket, Push, Close, Take, FindNone,
             Await, Wake, Skip, WriteFails, Write, Session, vars, Lose, CatchUp,
             DecoderFails, SetupDecoder
  <2> DEFINE f == wire[i]
  <2>2. f \in Frames /\ Handle(f)
    BY <2>0, <2>1, Elements DEF Receive
  <2> HIDE DEF f
  <2>3. shown' = f /\ decoder.up /\ ~Gap(f) /\ ~decoder.waiting
    <3>1. shown' # shown
      BY <1>2 DEF Submit
    <3>2. shown' = f
      BY <2>2, <3>1 DEF Handle
    <3>3. ~Key(f)
      BY <1>2, <3>2 DEF Key
    <3> QED
      BY <2>2, <3>1, <3>2, <3>3 DEF Handle
  <2>4. shown \in Frames /\ decoder.last = Seqno(shown) /\ shown.capture = f.capture
    BY <1>2, <2>3 DEF DecoderKnows, Submit
  <2>5. (Seqno(shown) + 1) % SeqSpace = Seqno(f)
    BY <2>3, <2>4, FrameParts, Constants DEF Gap
  <2>6. f.number = shown.number + 1
    <3>1. /\ f.number \in Nat /\ shown.number \in Nat /\ First(f.capture) \in Nat
          /\ First(f.capture) <= shown.number /\ shown.number < First(f.capture) + MaxFrames
          /\ First(f.capture) <= f.number /\ f.number < First(f.capture) + MaxFrames
      BY <2>2, <2>4, FrameParts, Constants
    <3>2. ((shown.number % SeqSpace) + 1) % SeqSpace = f.number % SeqSpace
      BY <2>5 DEF Seqno
    <3> QED
      BY <3>1, <3>2, Successor, Constants
  <2> QED
    BY <2>3, <2>6
<1>3. TypeInv /\ DecoderKnows /\ [Next]_vars => [Chained]_vars
  BY <1>2 DEF Chained
<1> QED
  BY <1>1, <1>3, Typed, StepDecoder, PTL DEF Spec, DecodesChain

-----------------------------------------------------------------------------
(* The chain of frames.  Each place on the way says which frame may come    *)
(* next behind a frame that has passed it: a keyframe or the successor.     *)

Links(f, g) ==
  Key(g) \/ (g.capture = f.capture /\ g.number = f.number + 1 /\ g.nth = f.nth + 1)

\* The newest capture that has read anything goes on behind f.
ReadNext(f) ==
  \A c \in Captures :
    reader[c].number > 0 /\ (\A d \in Captures : c < d => ~(reader[d].number > 0)) =>
      f.capture = c /\ reader[c].number = f.number + 1 /\ reader[c].age = f.nth

RingNext(f)    == IF ring # <<>> THEN Links(f, ring[1]) ELSE ReadNext(f)
ChannelNext(f) == IF channel # <<>> THEN Links(f, channel[1]) ELSE RingNext(f)
QueueNext(f)   == IF queue # <<>> THEN Links(f, queue[1]) ELSE closed \/ ChannelNext(f)

WriterNext(f) ==
  /\ via = "socket" => ChannelNext(f)
  /\ via # "socket" /\ writer.at = "writing" => Links(f, writer.frame)
  /\ via # "socket" /\ writer.at \notin {"writing", "done"} => QueueNext(f)

WireNext(f) == IF wire # <<>> THEN Links(f, wire[1]) ELSE WriterNext(f)

Linked(q) == \A i \in 1 .. Len(q) - 1 : Links(q[i], q[i + 1])
Final(q)  == q[Len(q)]

RingChain    == Linked(ring) /\ (ring # <<>> => ReadNext(Final(ring)))
ChannelChain == Linked(channel) /\ (channel # <<>> => RingNext(Final(channel)))
QueueChain ==
  /\ \A i \in 1 .. Len(queue) : queue[i].nth >= i
  /\ Linked(queue)
  /\ queue # <<>> /\ ~closed => ChannelNext(Final(queue))
WriterChain  == writer.at = "writing" => QueueNext(writer.frame)
WireChain    == Linked(wire) /\ (wire # <<>> => WriterNext(Final(wire)))
DecoderChain ==
  decoder.last # None => \E f \in Frames : decoder.last = Seqno(f) /\ WireNext(f)

ServerChain == RingChain /\ ChannelChain /\ QueueChain
ClientChain == WriterChain /\ WireChain /\ DecoderChain

\* On a WebSocket the queue and its writer are not there.
SocketIdle == via = "socket" => writer.at = "done" /\ queue = <<>>

Chain ==
  /\ SocketIdle
  /\ ~disturbed => ServerChain /\ (via # "channel" => ClientChain)

-----------------------------------------------------------------------------
\* Sequences of linked frames grow and shrink.
LEMMA LinkedGrown ==
  ASSUME NEW q \in Seq(Frames), NEW f \in Frames, Linked(q), q # <<>> => Links(Final(q), f)
  PROVE  Linked(Append(q, f)) /\ Final(Append(q, f)) = f
<1>1. /\ Append(q, f) \in Seq(Frames) /\ Len(Append(q, f)) = Len(q) + 1
      /\ Len(q) \in Nat /\ (q = <<>> <=> Len(q) = 0)
      /\ \A i \in 1 .. Len(q) : Append(q, f)[i] = q[i]
      /\ Append(q, f)[Len(q) + 1] = f
  BY Grown, Elements
<1> DEFINE p == Append(q, f)
<1> HIDE DEF p
<1>2. ASSUME NEW i \in 1 .. Len(p) - 1 PROVE Links(p[i], p[i + 1])
  <2>1. i \in 1 .. Len(q) /\ p[i] = q[i]
    BY <1>1, <1>2 DEF p
  <2>2. CASE i = Len(q)
    <3>1. q # <<>> /\ p[i + 1] = f /\ Final(q) = q[i]
      BY <1>1, <2>1, <2>2 DEF p, Final
    <3> QED
      BY <2>1, <3>1
  <2>3. CASE i # Len(q)
    <3>1. i \in 1 .. Len(q) - 1 /\ i + 1 \in 1 .. Len(q)
      BY <1>1, <2>1, <2>3
    <3>2. p[i + 1] = q[i + 1]
      BY <1>1, <3>1 DEF p
    <3> QED
      BY <2>1, <3>1, <3>2 DEF Linked
  <2> QED
    BY <2>2, <2>3
<1>3. Final(p) = f
  BY <1>1 DEF p, Final
<1> QED
  BY <1>2, <1>3 DEF Linked, p

LEMMA LinkedShortened ==
  ASSUME NEW q \in Seq(Frames), Linked(q), q # <<>>
  PROVE  /\ Linked(Tail(q))
         /\ Tail(q) # <<>> => /\ Final(Tail(q)) = Final(q)
                              /\ Links(Head(q), Tail(q)[1])
         /\ Tail(q) = <<>> => Head(q) = Final(q)
<1>1. /\ Tail(q) \in Seq(Frames) /\ Len(Tail(q)) = Len(q) - 1 /\ Head(q) = q[1]
      /\ Len(q) \in Nat /\ Len(q) # 0 /\ (Tail(q) = <<>> <=> Len(Tail(q)) = 0)
      /\ \A i \in 1 .. Len(q) - 1 : Tail(q)[i] = q[i + 1]
  <2>1. /\ Tail(q) \in Seq(Frames) /\ Len(Tail(q)) = Len(q) - 1 /\ Head(q) = q[1]
        /\ \A i \in 1 .. Len(q) - 1 : Tail(q)[i] = q[i + 1]
    BY Shortened
  <2>2. Len(q) \in Nat /\ Len(q) # 0
    BY Elements
  <2>3. Tail(q) = <<>> <=> Len(Tail(q)) = 0
    BY <2>1, Elements
  <2> QED
    BY <2>1, <2>2, <2>3
<1> DEFINE p == Tail(q)
<1> HIDE DEF p
<1>2. ASSUME NEW i \in 1 .. Len(p) - 1 PROVE Links(p[i], p[i + 1])
  <2>1. i \in 1 .. Len(q) - 1 /\ i + 1 \in 1 .. Len(q) - 1
    BY <1>1 DEF p
  <2>2. p[i] = q[i + 1] /\ p[i + 1] = q[i + 1 + 1]
    BY <1>1, <2>1 DEF p
  <2> QED
    BY <2>1, <2>2 DEF Linked
<1>3. ASSUME p # <<>> PROVE Final(p) = Final(q) /\ Links(Head(q), p[1])
  <2>1. Len(p) \in 1 .. Len(q) - 1 /\ 1 \in 1 .. Len(q) - 1 /\ Len(p) + 1 = Len(q)
    BY <1>1, <1>3 DEF p
  <2>2. p[Len(p)] = q[Len(p) + 1] /\ p[1] = q[1 + 1]
    BY <1>1, <2>1 DEF p
  <2> QED
    BY <1>1, <2>1, <2>2 DEF Final, Linked
<1>4. p = <<>> => Head(q) = Final(q)
  BY <1>1 DEF p, Final
<1> QED
  BY <1>2, <1>3, <1>4 DEF Linked, p

\* The frames of a sequence are frames.
LEMMA FinalTyping ==
  ASSUME NEW q \in Seq(Frames), q # <<>>
  PROVE  Final(q) \in Frames /\ q[1] \in Frames /\ Head(q) = q[1]
BY Elements, Shortened DEF Final

\* The shapes that the lemmas below use.
LEMMA Shapes ==
  ASSUME TypeInv
  PROVE  /\ ring \in Seq(Frames) /\ channel \in Seq(Frames)
         /\ queue \in Seq(Frames) /\ wire \in Seq(Frames)
         /\ writer \in Writers
         /\ writer.at = "writing" => writer.frame \in Frames
BY DEF TypeInv, TypeOK, Writers

-----------------------------------------------------------------------------
\* Whatever stays behind a frame in one place stays behind it in the places after,
\* if these are left alone.  First, from the writer on.
LEMMA AfterWriter ==
  ASSUME TypeInv, WireChain, DecoderChain,
         UNCHANGED <<wire, decoder>>,
         \A f \in Frames : WriterNext(f) => WriterNext(f)'
  PROVE  WireChain' /\ DecoderChain'
<1>1. wire \in Seq(Frames)
  BY Shapes
<1>2. WireChain'
  <2>1. CASE wire = <<>>
    BY <2>1 DEF WireChain, Linked
  <2>2. CASE wire # <<>>
    <3>1. PICK g \in Frames : g = Final(wire)
      BY <1>1, <2>2, FinalTyping
    <3>2. WriterNext(g)
      BY <2>2, <3>1 DEF WireChain
    <3>3. WriterNext(g)'
      BY <3>2
    <3>4. g = Final(wire')
      BY <3>1 DEF Final
    <3>5. WriterNext(Final(wire))'
      BY <3>3, <3>4
    <3> QED
      BY <3>5 DEF WireChain, Linked
  <2> QED
    BY <2>1, <2>2
<1>3. DecoderChain'
  <2>1. SUFFICES ASSUME decoder'.last # None
                 PROVE  \E f \in Frames : decoder'.last = Seqno(f) /\ WireNext(f)'
    BY DEF DecoderChain, Seqno
  <2>2. PICK f \in Frames : decoder.last = Seqno(f) /\ WireNext(f)
    BY <2>1 DEF DecoderChain
  <2>3. WireNext(f)'
    BY <2>2 DEF WireNext
  <2> QED
    BY <2>2, <2>3
<1> QED
  BY <1>2, <1>3

\* From the queue on.
LEMMA AfterQueue ==
  ASSUME TypeInv, SocketIdle, ClientChain,
         UNCHANGED <<via, writer, wire, decoder>>,
         \A f \in Frames : QueueNext(f) => QueueNext(f)',
         via = "socket" => \A f \in Frames : ChannelNext(f) => ChannelNext(f)'
  PROVE  ClientChain'
<1>1. WriterChain'
  <2>1. CASE writer.at = "writing"
    <3>1. PICK g \in Frames : g = writer.frame
      BY <2>1, Shapes
    <3>2. QueueNext(g)'
      BY <2>1, <3>1 DEF ClientChain, WriterChain
    <3> QED
      BY <3>1, <3>2 DEF WriterChain
  <2>2. CASE writer.at # "writing"
    BY <2>2 DEF WriterChain
  <2> QED
    BY <2>1, <2>2
<1>2. \A f \in Frames : WriterNext(f) => WriterNext(f)'
  BY DEF WriterNext
<1> QED
  BY <1>1, <1>2, AfterWriter DEF ClientChain

\* From the media channel on.
LEMMA AfterChannel ==
  ASSUME TypeInv, SocketIdle, QueueChain, via # "channel" => ClientChain,
         UNCHANGED <<via, queue, closed, writer, wire, decoder>>,
         \A f \in Frames : ChannelNext(f) => ChannelNext(f)'
  PROVE  QueueChain' /\ (via # "channel" => ClientChain')
<1>1. QueueChain'
  <2>1. queue # <<>> /\ ~closed => ChannelNext(Final(queue))'
    <3>1. SUFFICES ASSUME queue # <<>>, ~closed PROVE ChannelNext(Final(queue))'
      OBVIOUS
    <3>2. PICK g \in Frames : g = Final(queue)
      BY <3>1, FinalTyping, Shapes
    <3>3. ChannelNext(g)'
      BY <3>1, <3>2 DEF QueueChain
    <3>4. g = Final(queue')
      BY <3>2 DEF Final
    <3> QED
      BY <3>3, <3>4
  <2> QED
    BY <2>1 DEF QueueChain, Linked
<1>2. \A f \in Frames : QueueNext(f) => QueueNext(f)'
  BY DEF QueueNext
<1> QED
  BY <1>1, <1>2, AfterQueue

\* From the broadcast channel on.
LEMMA AfterRing ==
  ASSUME TypeInv, Chain, ~disturbed,
         UNCHANGED <<via, channel, queue, closed, writer, wire, decoder>>,
         RingChain', \A f \in Frames : RingNext(f) => RingNext(f)'
  PROVE  Chain'
<1>1. ChannelChain'
  <2>1. channel # <<>> => RingNext(Final(channel))'
    <3>1. SUFFICES ASSUME channel # <<>> PROVE RingNext(Final(channel))'
      OBVIOUS
    <3>2. PICK g \in Frames : g = Final(channel)
      BY <3>1, FinalTyping, Shapes
    <3>3. RingNext(g)'
      BY <3>1, <3>2 DEF Chain, ServerChain, ChannelChain
    <3>4. g = Final(channel')
      BY <3>2 DEF Final
    <3> QED
      BY <3>3, <3>4
  <2> QED
    BY <2>1 DEF Chain, ServerChain, ChannelChain, Linked
<1>2. \A f \in Frames : ChannelNext(f) => ChannelNext(f)'
  BY DEF ChannelNext
<1>3. QueueChain' /\ (via # "channel" => ClientChain')
  BY <1>2, AfterChannel DEF Chain, ServerChain
<1> QED
  BY <1>1, <1>3 DEF Chain, ServerChain, SocketIdle

-----------------------------------------------------------------------------
\* The broadcast: a frame that is read comes behind the newest one, unless the
\* way is disturbed by it.
LEMMA ChainRead ==
  ASSUME TypeInv, Chain, NEW c \in Captures, NEW key \in BOOLEAN, Read(c, key), ~disturbed'
  PROVE  Chain'
<1>1. PICK g \in Frames : g = NewFrame(c, key)
  BY ReadTyping DEF TypeInv
<1>t. /\ reader \in [Captures -> [number : Nat, age : 0..Gop, live : BOOLEAN]]
      /\ \A d \in Captures : d \in Nat
      /\ Len(ring) \in Nat /\ Len(ring) <= Ring /\ ring \in Seq(Frames)
  BY Elements, Constants DEF TypeInv, TypeOK
<1>2. /\ ~disturbed /\ Len(ring) < Ring
      /\ \A d \in Captures : c < d => ~(reader[d].number > 0)
  BY <1>t, Constants DEF Read
<1>3. ring' = Append(ring, g)
  <2>1. ring' = Newest(Append(ring, g), Ring)
    BY <1>1, ReadTyping DEF TypeInv
  <2>2. Append(ring, g) \in Seq(Frames) /\ Len(Append(ring, g)) <= Ring
    BY <1>t, <1>2, Grown, Constants
  <2> QED
    BY <2>1, <2>2, NewestTyping, Constants
<1>4. \A f \in Frames : ReadNext(f) => Links(f, g)
  <2> SUFFICES ASSUME NEW f \in Frames, ReadNext(f) PROVE Links(f, g)
    OBVIOUS
  <2>1. CASE key
    BY <1>1, <2>1 DEF Links, NewFrame, Key
  <2>2. CASE ~key
    <3>1. reader[c].number > 0
      BY <1>t, <2>2 DEF Read
    <3>2. f.capture = c /\ reader[c].number = f.number + 1 /\ reader[c].age = f.nth
      BY <1>2, <3>1 DEF ReadNext
    <3> QED
      BY <1>1, <2>2, <3>2 DEF Links, NewFrame
  <2> QED
    BY <2>1, <2>2
<1>5. ReadNext(g)'
  <2>1. /\ reader'[c].number = g.number + 1 /\ reader'[c].age = g.nth
        /\ reader'[c].number > 0 /\ g.capture = c
        /\ \A d \in Captures : d # c => reader'[d] = reader[d]
    <3>1. reader' = [reader EXCEPT ![c] = [number |-> reader[c].number + 1,
                                           age |-> g.nth, live |-> TRUE]]
      BY <1>1, ReadTyping DEF TypeInv
    <3>2. g.number = reader[c].number /\ g.capture = c /\ reader[c].number \in Nat
      BY <1>1, <1>t DEF NewFrame
    <3>3. reader'[c] = [number |-> reader[c].number + 1, age |-> g.nth, live |-> TRUE]
      BY <1>t, <3>1
    <3>4. \A d \in Captures : d # c => reader'[d] = reader[d]
      BY <1>t, <3>1
    <3> QED
      BY <3>2, <3>3, <3>4
  <2> SUFFICES ASSUME NEW e \in Captures, reader'[e].number > 0,
                      \A d \in Captures : e < d => ~(reader'[d].number > 0)
               PROVE  g.capture = e /\ reader'[e].number = g.number + 1 /\ reader'[e].age = g.nth
    BY DEF ReadNext
  <2>2. e = c
    BY <1>t, <1>2, <2>1
  <2> QED
    BY <2>1, <2>2
<1>6. RingChain'
  <2>1. Linked(ring) /\ (ring # <<>> => Links(Final(ring), g))
    BY <1>2, <1>4, <1>t, FinalTyping DEF Chain, ServerChain, RingChain
  <2>2. Linked(Append(ring, g)) /\ Final(Append(ring, g)) = g
    BY <1>t, <2>1, LinkedGrown
  <2>3. Linked(ring)' /\ Final(ring') = g
    BY <1>3, <2>2 DEF Linked
  <2> QED
    BY <1>5, <2>3 DEF RingChain, Final
<1>7. \A f \in Frames : RingNext(f) => RingNext(f)'
  <2>1. /\ Append(ring, g) # <<>>
        /\ Append(ring, g)[1] = IF ring # <<>> THEN ring[1] ELSE g
    BY <1>t, Grown, Elements
  <2> QED
    BY <1>3, <1>4, <2>1 DEF RingNext
<1> QED
  BY <1>2, <1>6, <1>7, AfterRing DEF Read

\* A capture that begins or ends has read what it has read.
LEMMA ChainReaders ==
  ASSUME TypeInv, Chain, Replace \/ \E c \in Captures : ReaderEnds(c), ~disturbed'
  PROVE  Chain'
<1>1. \A c \in Captures : reader'[c].number = reader[c].number /\ reader'[c].age = reader[c].age
  <2>1. PICK c \in Captures, b \in BOOLEAN : reader' = [reader EXCEPT ![c].live = b]
    BY DEF ReaderEnds, Replace
  <2>2. reader \in [Captures -> [number : Nat, age : 0..Gop, live : BOOLEAN]]
    BY DEF TypeInv, TypeOK
  <2> QED
    BY <2>1, <2>2
<1>2. UNCHANGED <<via, ring, channel, queue, closed, writer, wire, decoder, disturbed>>
  BY DEF ReaderEnds, Replace
<1>3. \A f : ReadNext(f) => ReadNext(f)'
  BY <1>1 DEF ReadNext
<1>4. \A f \in Frames : RingNext(f) => RingNext(f)'
  BY <1>2, <1>3 DEF RingNext
<1>5. RingChain'
  <2>1. ring # <<>> => ReadNext(Final(ring))'
    <3>1. SUFFICES ASSUME ring # <<>> PROVE ReadNext(Final(ring))'
      OBVIOUS
    <3>2. PICK g \in Frames : g = Final(ring)
      BY <3>1, FinalTyping, Shapes
    <3>3. ReadNext(g)'
      BY <1>2, <1>3, <3>1, <3>2 DEF Chain, ServerChain, RingChain
    <3>4. g = Final(ring')
      BY <1>2, <3>2 DEF Final
    <3> QED
      BY <3>3, <3>4
  <2> QED
    BY <1>2, <2>1 DEF Chain, ServerChain, RingChain, Linked
<1> QED
  BY <1>2, <1>4, <1>5, AfterRing

\* What comes to the head of the media channel is behind what left it.
LEMMA ChannelGoesOn ==
  ASSUME TypeInv, RingChain, ChannelChain, channel # <<>>, channel' = Tail(channel),
         UNCHANGED <<reader, ring>>, NEW g \in Frames, g = Head(channel)
  PROVE  ChannelChain' /\ ChannelNext(g)'
<1>1. channel \in Seq(Frames) /\ Linked(channel) /\ RingNext(Final(channel))
  BY Shapes DEF ChannelChain
<1>2. \A f : RingNext(f) => RingNext(f)'
  BY DEF RingNext, ReadNext
<1>3. PICK h \in Frames : h = Final(channel) /\ RingNext(h)'
  BY <1>1, <1>2, FinalTyping
<1>4. /\ Linked(Tail(channel))
      /\ Tail(channel) # <<>> => Final(Tail(channel)) = h /\ Links(g, Tail(channel)[1])
      /\ Tail(channel) = <<>> => g = h
  BY <1>1, <1>3, LinkedShortened
<1>5. Linked(channel)' /\ (channel' # <<>> => h = Final(channel'))
  BY <1>4 DEF Linked
<1>6. ChannelChain'
  BY <1>3, <1>5 DEF ChannelChain
<1>7. ChannelNext(g)'
  BY <1>3, <1>4 DEF ChannelNext
<1> QED
  BY <1>6, <1>7

\* forward_frames: from the broadcast channel to the media channel.
LEMMA ChainForward ==
  ASSUME TypeInv, Chain, Forward, ~disturbed'
  PROVE  Chain'
<1>1. /\ ring # <<>> /\ channel' = Append(channel, Head(ring)) /\ ring' = Tail(ring)
      /\ UNCHANGED <<via, reader, queue, closed, writer, wire, decoder, disturbed>>
  BY DEF Forward
<1>2. /\ ring \in Seq(Frames) /\ channel \in Seq(Frames)
      /\ RingChain /\ ChannelChain /\ QueueChain /\ SocketIdle
      /\ via # "channel" => ClientChain
  BY <1>1, Shapes DEF Chain, ServerChain
<1>3. PICK g \in Frames : g = Head(ring) /\ g = ring[1]
  BY <1>1, <1>2, Shortened
<1>4. PICK h \in Frames : h = Final(ring) /\ ReadNext(h)'
  <2>1. PICK h \in Frames : h = Final(ring) /\ ReadNext(h)
    BY <1>1, <1>2, FinalTyping DEF RingChain
  <2>2. ReadNext(h)'
    BY <1>1, <2>1 DEF ReadNext
  <2> QED
    BY <2>1, <2>2
<1>5. /\ Linked(Tail(ring))
      /\ Tail(ring) # <<>> => Final(Tail(ring)) = h /\ Links(g, Tail(ring)[1])
      /\ Tail(ring) = <<>> => g = h
  BY <1>1, <1>2, <1>3, <1>4, LinkedShortened DEF RingChain
<1>6. RingChain' /\ RingNext(g)'
  <2>1. Linked(ring)' /\ (ring' # <<>> => h = Final(ring'))
    BY <1>1, <1>5 DEF Linked
  <2>2. RingChain'
    BY <1>4, <2>1 DEF RingChain
  <2>3. RingNext(g)'
    BY <1>1, <1>4, <1>5 DEF RingNext
  <2> QED
    BY <2>2, <2>3
<1>7. \A f \in Frames : RingNext(f) => Links(f, g)
  BY <1>1, <1>3 DEF RingNext
<1>8. ChannelChain'
  <2>1. Linked(channel) /\ (channel # <<>> => Links(Final(channel), g))
    BY <1>2, <1>7, FinalTyping DEF ChannelChain
  <2>2. Linked(Append(channel, g)) /\ Final(Append(channel, g)) = g
    BY <1>2, <2>1, LinkedGrown
  <2>3. Linked(channel)' /\ Final(channel') = g
    BY <1>1, <1>3, <2>2 DEF Linked
  <2> QED
    BY <1>6, <2>3 DEF ChannelChain
<1>9. \A f \in Frames : ChannelNext(f) => ChannelNext(f)'
  <2>1. /\ Append(channel, g) # <<>>
        /\ Append(channel, g)[1] = IF channel # <<>> THEN channel[1] ELSE g
    BY <1>2, Grown, Elements
  <2> QED
    BY <1>1, <1>3, <1>7, <2>1 DEF ChannelNext
<1>10. QueueChain' /\ (via # "channel" => ClientChain')
  BY <1>1, <1>2, <1>9, AfterChannel
<1> QED
  BY <1>1, <1>2, <1>6, <1>8, <1>10 DEF Chain, ServerChain, SocketIdle

\* write_socket on a WebSocket: from the media channel to the network.
LEMMA ChainWriteSocket ==
  ASSUME TypeInv, Chain, WriteSocket, ~disturbed'
  PROVE  Chain'
<1>1. /\ via = "socket" /\ channel # <<>>
      /\ wire' = Append(wire, Head(channel)) /\ channel' = Tail(channel)
      /\ UNCHANGED <<via, reader, ring, queue, closed, writer, decoder, disturbed>>
  BY DEF WriteSocket
<1>2. /\ channel \in Seq(Frames) /\ wire \in Seq(Frames)
      /\ RingChain /\ ChannelChain /\ WireChain /\ DecoderChain
      /\ writer.at = "done" /\ queue = <<>>
  BY <1>1, Shapes DEF Chain, ServerChain, ClientChain, SocketIdle
<1>3. PICK g \in Frames : g = Head(channel) /\ g = channel[1]
  BY <1>1, <1>2, Shortened
<1>4. ChannelChain' /\ ChannelNext(g)'
  BY <1>1, <1>2, <1>3, ChannelGoesOn
<1>5. RingChain'
  BY <1>1, <1>2 DEF RingChain, Linked, ReadNext, Final
<1>6. QueueChain'
  BY <1>1, <1>2 DEF QueueChain, Linked
<1>7. WriterChain' /\ SocketIdle'
  BY <1>1, <1>2 DEF WriterChain, SocketIdle
<1>8. \A f \in Frames : WriterNext(f) => Links(f, g)
  BY <1>1, <1>3 DEF WriterNext, ChannelNext
<1>9. WriterNext(g)'
  BY <1>1, <1>2, <1>4 DEF WriterNext
<1>10. WireChain' /\ \A f \in Frames : WireNext(f) => WireNext(f)'
  <2>1. Linked(wire) /\ (wire # <<>> => Links(Final(wire), g))
    BY <1>2, <1>8, FinalTyping DEF WireChain
  <2>2. /\ Linked(Append(wire, g)) /\ Final(Append(wire, g)) = g
        /\ Append(wire, g) # <<>>
        /\ Append(wire, g)[1] = IF wire # <<>> THEN wire[1] ELSE g
    BY <1>2, <2>1, LinkedGrown, Grown, Elements
  <2>3. Linked(wire)' /\ Final(wire') = g
    BY <1>1, <1>3, <2>2 DEF Linked
  <2>4. WireChain'
    BY <1>9, <2>3 DEF WireChain
  <2>5. \A f \in Frames : WireNext(f) => WireNext(f)'
    BY <1>1, <1>3, <1>8, <2>2 DEF WireNext
  <2> QED
    BY <2>4, <2>5
<1>11. DecoderChain'
  BY <1>1, <1>2, <1>10 DEF DecoderChain, Seqno
<1> QED
  BY <1>4, <1>5, <1>6, <1>7, <1>10, <1>11 DEF Chain, ServerChain, ClientChain

\* An undisturbed queue holds one group of pictures at most.
LEMMA OneGroup ==
  ASSUME TypeInv, QueueChain
  PROVE  /\ Len(queue) <= Gop
         /\ queue # <<>> => Final(queue).nth >= Len(queue)
<1>1. queue \in Seq(Frames) /\ Len(queue) \in Nat
  BY Shapes, Elements
<1>2. CASE queue = <<>>
  BY <1>2, Constants
<1>3. CASE queue # <<>>
  <2>1. Len(queue) \in 1 .. Len(queue)
    BY <1>1, <1>3, Elements
  <2>2. Final(queue).nth >= Len(queue)
    BY <2>1 DEF QueueChain, Final
  <2>3. Final(queue).nth \in 1 .. Gop
    BY <1>1, <1>3, FinalTyping, FrameParts
  <2> QED
    BY <1>1, <2>2, <2>3, Constants
<1> QED
  BY <1>2, <1>3

\* push: what is pushed onto an undisturbed queue is behind its last frame, or
\* takes the place of all.
LEMMA ChainPush ==
  ASSUME TypeInv, Chain, Push, ~disturbed'
  PROVE  Chain'
<1>1. /\ via # "socket" /\ channel # <<>> /\ channel' = Tail(channel)
      /\ UNCHANGED <<via, reader, ring, closed, writer, wire, decoder, disturbed>>
  BY DEF Push
<1>2. /\ channel \in Seq(Frames) /\ queue \in Seq(Frames)
      /\ RingChain /\ ChannelChain /\ QueueChain /\ SocketIdle
      /\ via # "channel" => ClientChain
  BY <1>1, Shapes DEF Chain, ServerChain
<1>3. PICK g \in Frames : g = Head(channel) /\ g = channel[1]
  BY <1>1, <1>2, Shortened
<1>4. ChannelChain' /\ ChannelNext(g)'
  BY <1>1, <1>2, <1>3, ChannelGoesOn
<1>5. RingChain'
  BY <1>1, <1>2 DEF RingChain, Linked, ReadNext, Final
<1>6. \A f \in Frames : ChannelNext(f) => Links(f, g)
  BY <1>1, <1>3 DEF ChannelNext
<1>7. CASE closed
  <2>1. UNCHANGED queue
    BY <1>7 DEF Push
  <2>2. QueueChain'
    BY <1>1, <1>2, <1>7, <2>1 DEF QueueChain, Linked
  <2>3. \A f \in Frames : QueueNext(f) => QueueNext(f)'
    BY <1>1, <1>7, <2>1 DEF QueueNext
  <2>4. via # "channel" => ClientChain'
    BY <1>1, <1>2, <2>3, AfterQueue
  <2> QED
    BY <1>1, <1>4, <1>5, <2>2, <2>4 DEF Chain, ServerChain, SocketIdle
<1>8. CASE ~closed
  <2>0. /\ g.nth \in 1 .. Gop /\ Len(queue) \in Nat
        /\ (queue = <<>> <=> Len(queue) = 0)
    BY <1>2, FrameParts, Elements
  <2>1. queue # <<>> => Links(Final(queue), g)
    BY <1>2, <1>6, <1>8, FinalTyping DEF QueueChain
  <2>2. ~Key(g) => g.nth >= Len(queue) + 1
    <3>1. CASE queue = <<>>
      BY <2>0, <3>1
    <3>2. CASE queue # <<>>
      <4>1. Final(queue).nth \in 1 .. Gop /\ Final(queue).nth >= Len(queue)
        BY <1>2, <3>2, OneGroup, FinalTyping, FrameParts
      <4> QED
        BY <2>0, <2>1, <3>2, <4>1 DEF Links
    <3> QED
      BY <3>1, <3>2
  <2>3. queue' = IF Key(g) THEN <<g>> ELSE Append(queue, g)
    <3>1. queue' = Newest(Coalesce(Append(queue, g)), MaxQueued)
      BY <1>3, <1>8 DEF Push
    <3>2. \A i \in Keys(queue) : i = 1
      BY DEF TypeInv, KeyFirst
    <3>3. CASE Key(g)
      <4>1. Coalesce(Append(queue, g)) = <<g>>
        BY <1>2, <3>2, <3>3, CoalescePushed
      <4>2. Newest(<<g>>, MaxQueued) = <<g>>
        BY Constants DEF Newest
      <4> QED
        BY <3>1, <3>3, <4>1, <4>2
    <3>4. CASE ~Key(g)
      <4>1. Len(queue) < MaxQueued
        BY <2>0, <2>2, <3>4, Constants
      <4> QED
        BY <1>2, <3>1, <3>2, <4>1, Pushed
    <3> QED
      BY <3>3, <3>4
  <2>4. /\ Linked(queue)' /\ Final(queue') = g /\ queue' # <<>>
        /\ \A i \in 1 .. Len(queue') : queue'[i].nth >= i
        /\ \A f \in Frames : QueueNext(f) => Links(f, queue'[1])
    <3>1. CASE Key(g)
      <4>1. Len(<<g>>) = 1 /\ <<g>>[1] = g /\ <<g>> # <<>>
        OBVIOUS
      <4>2. \A f \in Frames : Links(f, g)
        BY <3>1 DEF Links
      <4> QED
        BY <2>0, <2>3, <3>1, <4>1, <4>2 DEF Linked, Final
    <3>2. CASE ~Key(g)
      <4>1. /\ Append(queue, g) \in Seq(Frames)
            /\ Append(queue, g) # <<>>
            /\ Len(Append(queue, g)) = Len(queue) + 1
            /\ \A i \in 1 .. Len(queue) : Append(queue, g)[i] = queue[i]
            /\ Append(queue, g)[Len(queue) + 1] = g
        BY <1>2, Grown
      <4>2. Linked(Append(queue, g)) /\ Final(Append(queue, g)) = g
        BY <1>2, <2>1, LinkedGrown DEF QueueChain
      <4>3. \A i \in 1 .. Len(queue) + 1 : Append(queue, g)[i].nth >= i
        <5> SUFFICES ASSUME NEW i \in 1 .. Len(queue) + 1
                     PROVE  Append(queue, g)[i].nth >= i
          OBVIOUS
        <5>1. CASE i = Len(queue) + 1
          BY <2>2, <3>2, <4>1, <5>1
        <5>2. CASE i # Len(queue) + 1
          <6>1. i \in 1 .. Len(queue)
            BY <2>0, <5>2
          <6> QED
            BY <1>2, <4>1, <6>1 DEF QueueChain
        <5> QED
          BY <5>1, <5>2
      <4>4. \A f \in Frames : QueueNext(f) => Links(f, Append(queue, g)[1])
        <5>1. CASE queue = <<>>
          BY <1>6, <1>8, <2>0, <4>1, <5>1 DEF QueueNext
        <5>2. CASE queue # <<>>
          <6>1. 1 \in 1 .. Len(queue)
            BY <2>0, <5>2
          <6> QED
            BY <4>1, <5>2, <6>1 DEF QueueNext
        <5> QED
          BY <5>1, <5>2
      <4>5. queue' = Append(queue, g)
        BY <2>3, <3>2
      <4> HIDE <2>3
      <4> QED
        BY <4>1, <4>2, <4>3, <4>4, <4>5 DEF Linked
    <3> QED
      BY <3>1, <3>2
  <2>5. QueueChain'
    BY <1>4, <2>4 DEF QueueChain
  <2>6. \A f \in Frames : QueueNext(f) => QueueNext(f)'
    BY <2>4 DEF QueueNext
  <2>7. via # "channel" => ClientChain'
    BY <1>1, <1>2, <2>6, AfterQueue
  <2>8. SocketIdle'
    BY <1>1 DEF SocketIdle
  <2> QED
    BY <1>1, <1>4, <1>5, <2>5, <2>7, <2>8 DEF Chain, ServerChain
<1> QED
  BY <1>7, <1>8

\* close: what is missing in a closed queue is missing at the end.
LEMMA ChainClose ==
  ASSUME TypeInv, Chain, Close, ~disturbed'
  PROVE  Chain'
<1>1. /\ via # "socket" /\ closed'
      /\ UNCHANGED <<via, reader, ring, channel, queue, writer, wire, decoder, disturbed>>
  BY DEF Close, Session
<1>2. ServerChain'
  BY <1>1 DEF Chain, ServerChain, RingChain, ChannelChain, QueueChain, Linked, RingNext,
              ReadNext, Final
<1>3. \A f \in Frames : QueueNext(f) => QueueNext(f)'
  BY <1>1 DEF QueueNext
<1>4. via # "channel" => ClientChain'
  BY <1>1, <1>3, AfterQueue DEF Chain
<1> QED
  BY <1>1, <1>2, <1>4 DEF Chain, SocketIdle

\* next finds a frame: it is behind the one that was written last.
LEMMA ChainTake ==
  ASSUME TypeInv, Chain, Take, ~disturbed'
  PROVE  Chain'
<1>1. /\ writer.at = "looking" /\ queue # <<>>
      /\ writer' = [at |-> "writing", frame |-> Head(queue)] /\ queue' = Tail(queue)
      /\ UNCHANGED <<via, reader, ring, channel, closed, wire, decoder, disturbed>>
  BY DEF Take, Session
<1>2. /\ queue \in Seq(Frames) /\ via # "socket"
      /\ RingChain /\ ChannelChain /\ QueueChain
      /\ via # "channel" => ClientChain
  BY <1>1, Shapes DEF Chain, ServerChain, SocketIdle
<1>3. PICK g \in Frames : g = Head(queue) /\ g = queue[1]
  BY <1>1, <1>2, Shortened
<1>4. PICK h \in Frames : h = Final(queue) /\ (~closed => ChannelNext(h)')
  <2>1. PICK h \in Frames : h = Final(queue) /\ (~closed => ChannelNext(h))
    BY <1>1, <1>2, FinalTyping DEF QueueChain
  <2>2. ChannelNext(h) => ChannelNext(h)'
    BY <1>1 DEF ChannelNext, RingNext, ReadNext
  <2> QED
    BY <2>1, <2>2
<1>5. /\ Linked(Tail(queue))
      /\ Tail(queue) # <<>> => Final(Tail(queue)) = h /\ Links(g, Tail(queue)[1])
      /\ Tail(queue) = <<>> => g = h
  BY <1>1, <1>2, <1>3, <1>4, LinkedShortened DEF QueueChain
<1>6. RingChain' /\ ChannelChain'
  BY <1>1, <1>2 DEF RingChain, ChannelChain, Linked, RingNext, ReadNext, Final
<1>7. QueueChain'
  <2>1. \A i \in 1 .. Len(Tail(queue)) : Tail(queue)[i].nth >= i
    <3> SUFFICES ASSUME NEW i \in 1 .. Len(Tail(queue)) PROVE Tail(queue)[i].nth >= i
      OBVIOUS
    <3>1. /\ Len(queue) \in Nat /\ i \in 1 .. Len(queue) - 1
          /\ Tail(queue)[i] = queue[i + 1]
      BY <1>1, <1>2, Shortened, Elements
    <3>2. i + 1 \in 1 .. Len(queue) /\ i \in Nat
      BY <3>1
    <3>3. queue[i + 1].nth >= i + 1 /\ queue[i + 1].nth \in 1 .. Gop
      BY <1>2, <3>2, Elements, FrameParts DEF QueueChain
    <3> QED
      BY <3>1, <3>2, <3>3, Constants
  <2>2. Linked(queue)' /\ (queue' # <<>> => h = Final(queue'))
    BY <1>1, <1>5 DEF Linked
  <2> QED
    BY <1>1, <1>4, <2>1, <2>2 DEF QueueChain
<1>8. QueueNext(g)'
  BY <1>1, <1>4, <1>5 DEF QueueNext
<1>9. WriterChain' /\ SocketIdle'
  BY <1>1, <1>2, <1>3, <1>8 DEF WriterChain, SocketIdle
<1>10. \A f \in Frames : WriterNext(f) => WriterNext(f)'
  <2>1. writer'.at = "writing" /\ writer'.frame = g
    BY <1>1, <1>3
  <2>2. \A f \in Frames : WriterNext(f) => Links(f, g)
    BY <1>1, <1>2, <1>3 DEF WriterNext, QueueNext
  <2> QED
    BY <1>1, <1>2, <2>1, <2>2 DEF WriterNext
<1>11. via # "channel" => WireChain' /\ DecoderChain'
  BY <1>1, <1>2, <1>10, AfterWriter DEF ClientChain
<1> QED
  BY <1>1, <1>6, <1>7, <1>9, <1>11 DEF Chain, ServerChain, ClientChain

\* next finds none, waits, is woken; or the writer gives up its frame.
LEMMA ChainIdle ==
  ASSUME TypeInv, Chain, FindNone \/ Await \/ Wake \/ WriteFails \/ Skip, ~disturbed'
  PROVE  Chain'
<1>1. /\ UNCHANGED <<via, reader, ring, channel, queue, closed, wire, decoder, disturbed>>
      /\ writer.at # "done" /\ writer'.at # "writing"
      /\ writer.at = "writing" => writer'.at = "done" \/ via = "channel"
  BY DEF FindNone, Await, Wake, WriteFails, Skip, Writer, Session
<1>2. via # "socket" /\ (via # "channel" => ClientChain) /\ ServerChain
  BY <1>1 DEF Chain, SocketIdle
<1>3. ServerChain'
  BY <1>1, <1>2 DEF ServerChain, RingChain, ChannelChain, QueueChain, Linked, ChannelNext,
                    RingNext, ReadNext, Final
<1>4. WriterChain' /\ SocketIdle'
  BY <1>1, <1>2 DEF WriterChain, SocketIdle
<1>5. ASSUME via # "channel" PROVE \A f \in Frames : WriterNext(f) => WriterNext(f)'
  BY <1>1, <1>2, <1>5 DEF WriterNext, QueueNext, ChannelNext, RingNext, ReadNext
<1>6. via # "channel" => WireChain' /\ DecoderChain'
  BY <1>1, <1>2, <1>5, AfterWriter DEF ClientChain
<1> QED
  BY <1>1, <1>3, <1>4, <1>6 DEF Chain, ClientChain

\* The writer's frame goes to the network.
LEMMA ChainWrite ==
  ASSUME TypeInv, Chain, Write, ~disturbed'
  PROVE  Chain'
<1>1. /\ writer.at = "writing" /\ wire' = Append(wire, writer.frame)
      /\ writer' = [at |-> "looking", frame |-> None]
      /\ UNCHANGED <<via, reader, ring, channel, queue, closed, decoder, disturbed>>
  BY DEF Write, Writer, Session
<1>2. /\ via # "socket" /\ wire \in Seq(Frames) /\ ServerChain
      /\ via # "channel" => ClientChain
  BY <1>1, Shapes DEF Chain, SocketIdle
<1>3. PICK g \in Frames : g = writer.frame
  BY <1>1, Shapes
<1>4. ServerChain'
  BY <1>1, <1>2 DEF ServerChain, RingChain, ChannelChain, QueueChain, Linked, ChannelNext,
                    RingNext, ReadNext, Final
<1>5. SocketIdle'
  BY <1>1, <1>2 DEF SocketIdle
<1>6. ASSUME via # "channel" PROVE ClientChain'
  <2>1. /\ WriterChain /\ WireChain /\ DecoderChain
        /\ \A f \in Frames : WriterNext(f) => Links(f, g)
    BY <1>1, <1>2, <1>3, <1>6 DEF ClientChain, WriterNext
  <2>2. WriterNext(g)'
    <3>1. QueueNext(g)
      BY <1>1, <1>3, <2>1 DEF WriterChain
    <3>2. QueueNext(g)'
      BY <1>1, <3>1 DEF QueueNext, ChannelNext, RingNext, ReadNext
    <3> QED
      BY <1>1, <1>2, <3>2 DEF WriterNext
  <2>3. /\ Linked(Append(wire, g)) /\ Final(Append(wire, g)) = g
        /\ Append(wire, g) # <<>>
        /\ Append(wire, g)[1] = IF wire # <<>> THEN wire[1] ELSE g
    <3>1. Linked(wire) /\ (wire # <<>> => Links(Final(wire), g))
      BY <1>2, <2>1, FinalTyping DEF WireChain
    <3> QED
      BY <1>2, <3>1, LinkedGrown, Grown, Elements
  <2>4. WireChain'
    <3>1. Linked(wire)' /\ Final(wire') = g
      BY <1>1, <1>3, <2>3 DEF Linked
    <3> QED
      BY <2>2, <3>1 DEF WireChain
  <2>5. \A f \in Frames : WireNext(f) => WireNext(f)'
    BY <1>1, <1>3, <2>1, <2>3 DEF WireNext
  <2>6. DecoderChain'
    BY <1>1, <2>1, <2>5 DEF DecoderChain, Seqno
  <2>7. WriterChain'
    BY <1>1 DEF WriterChain
  <2> QED
    BY <2>4, <2>6, <2>7 DEF ClientChain
<1> QED
  BY <1>1, <1>4, <1>5, <1>6 DEF Chain

\* The browser takes the first frame of the wire, or loses its decoder.
LEMMA ChainBrowse ==
  ASSUME TypeInv, DecoderKnows, Chain, ~disturbed',
         \/ \E i \in DOMAIN wire : Receive(i) \/ Lose(i) \/ CatchUp(i)
         \/ DecoderFails \/ SetupDecoder
  PROVE  Chain'
<1>1. UNCHANGED <<via, reader, ring, channel, queue, closed, writer, disturbed>>
  BY DEF Receive, Lose, CatchUp, DecoderFails, SetupDecoder, Server
<1>2. ServerChain'
  BY <1>1 DEF Chain, ServerChain, RingChain, ChannelChain, QueueChain, Linked, ChannelNext,
              RingNext, ReadNext, Final
<1>3. SocketIdle'
  BY <1>1 DEF Chain, SocketIdle
<1>4. \A f \in Frames : WriterNext(f) => WriterNext(f)'
  BY <1>1 DEF WriterNext, QueueNext, ChannelNext, RingNext, ReadNext
<1>5. ASSUME via # "channel" PROVE ClientChain'
  <2>1. WriterChain /\ WireChain /\ DecoderChain /\ wire \in Seq(Frames)
    BY <1>1, <1>5, Shapes DEF Chain, ClientChain
  <2>2. WriterChain'
    BY <1>1, <2>1 DEF WriterChain, QueueNext, ChannelNext, RingNext, ReadNext
  <2>3. Down.last = None /\ [Down EXCEPT !.up = TRUE].last = None
    BY DEF Down
  <2>4. CASE DecoderFails \/ SetupDecoder
    <3>1. UNCHANGED wire /\ decoder'.last = None
      BY <2>3, <2>4 DEF DecoderFails, SetupDecoder
    <3>2. WireChain'
      <4>1. CASE wire = <<>>
        BY <3>1, <4>1 DEF WireChain, Linked
      <4>2. CASE wire # <<>>
        <5>1. PICK h \in Frames : h = Final(wire) /\ WriterNext(h)'
          BY <1>4, <2>1, <4>2, FinalTyping DEF WireChain
        <5>2. Linked(wire)' /\ Final(wire') = h
          BY <2>1, <3>1, <5>1 DEF WireChain, Linked
        <5> QED
          BY <5>1, <5>2 DEF WireChain
      <4> QED
        BY <4>1, <4>2
    <3> QED
      BY <2>2, <3>1, <3>2 DEF ClientChain, DecoderChain
  <2>5. CASE \E i \in DOMAIN wire : Receive(i) \/ Lose(i) \/ CatchUp(i)
    <3>1. Receive(1) \/ CatchUp(1)
      BY <1>5, <2>5 DEF Receive, Lose, CatchUp
    <3>2. wire # <<>> /\ wire' = Tail(wire)
      BY <2>1, <3>1, Elements, FirstTakenOut DEF Receive, CatchUp
    <3>3. PICK g \in Frames : g = Head(wire) /\ g = wire[1]
      BY <2>1, <3>2, Shortened
    <3>4. PICK h \in Frames : h = Final(wire) /\ WriterNext(h)'
      BY <1>4, <2>1, <3>2, FinalTyping DEF WireChain
    <3>5. /\ Linked(Tail(wire))
          /\ Tail(wire) # <<>> => Final(Tail(wire)) = h /\ Links(g, Tail(wire)[1])
          /\ Tail(wire) = <<>> => g = h
      BY <2>1, <3>2, <3>3, <3>4, LinkedShortened DEF WireChain
    <3>6. WireChain'
      <4>1. Linked(wire)' /\ (wire' # <<>> => h = Final(wire'))
        BY <3>2, <3>5 DEF Linked
      <4> QED
        BY <3>4, <4>1 DEF WireChain
    <3>7. WireNext(g)'
      BY <3>2, <3>4, <3>5 DEF WireNext
    <3>8. decoder'.last = None \/ decoder'.last = Seqno(g)
      <4>1. CASE CatchUp(1)
        BY <2>3, <4>1 DEF CatchUp
      <4>2. CASE Receive(1) /\ ~decoder.up
        BY <3>3, <4>2 DEF Receive, Handle, DecoderKnows
      <4>3. CASE Receive(1) /\ decoder.up
        <5>1. decoder \in Decoders
          BY DEF TypeInv, TypeOK, Decoders
        <5>2. Handle(g)
          BY <3>3, <4>3 DEF Receive
        <5> QED
          BY <2>3, <4>3, <5>1, <5>2 DEF Handle, Decoders
      <4> QED
        BY <3>1, <4>1, <4>2, <4>3
    <3>9. DecoderChain'
      BY <3>7, <3>8 DEF DecoderChain, Seqno
    <3> QED
      BY <2>2, <3>6, <3>9 DEF ClientChain
  <2> QED
    BY <2>4, <2>5
<1> QED
  BY <1>1, <1>2, <1>3, <1>5 DEF Chain

LEMMA InitChain == Init => Chain
<1> SUFFICES ASSUME Init PROVE Chain
  OBVIOUS
<1>1. /\ ring = <<>> /\ channel = <<>> /\ queue = <<>> /\ wire = <<>>
      /\ Len(<<>>) = 0
      /\ writer.at \in {"looking", "done"} /\ (via = "socket" => writer.at = "done")
      /\ decoder.last = None
  BY DEF Init, Down
<1> QED
  BY <1>1 DEF Chain, SocketIdle, ServerChain, ClientChain, RingChain, ChannelChain, QueueChain,
              WriterChain, WireChain, DecoderChain, Linked

LEMMA StepChain == TypeInv /\ DecoderKnows /\ Chain /\ [Next]_vars => Chain'
<1> SUFFICES ASSUME TypeInv, DecoderKnows, Chain, [Next]_vars PROVE Chain'
  OBVIOUS
<1>1. CASE UNCHANGED vars
  BY <1>1 DEF vars, Chain, SocketIdle, ServerChain, ClientChain, RingChain, ChannelChain,
              QueueChain, WriterChain, WireChain, DecoderChain, Linked, Final, WireNext,
              WriterNext, QueueNext, ChannelNext, RingNext, ReadNext, Seqno
<1>2. CASE disturbed' /\ [Next]_vars /\ ~UNCHANGED vars
  <2>1. SocketIdle'
    <3>1. CASE via = "socket"
      <4>1. writer.at = "done" /\ queue = <<>>
        BY <3>1 DEF Chain, SocketIdle
      <4>2. UNCHANGED <<writer, queue>>
        BY <1>2, <3>1, <4>1, NextCases
           DEF Read, ReaderEnds, Replace, Forward, WriteSocket, Push, Close, Take, FindNone,
               Await, Wake, Skip, WriteFails, Write, Session, Receive, Lose, CatchUp,
               DecoderFails, SetupDecoder, Server
      <4> QED
        BY <4>1, <4>2 DEF SocketIdle
    <3>2. CASE via # "socket"
      <4>1. via' = via
        BY <1>2, NextCases
           DEF Read, ReaderEnds, Replace, Forward, WriteSocket, Push, Close, Take, FindNone,
               Await, Wake, Skip, WriteFails, Write, Session, Receive, Lose, CatchUp,
               DecoderFails, SetupDecoder, Server
      <4> QED
        BY <3>2, <4>1 DEF SocketIdle
    <3> QED
      BY <3>1, <3>2
  <2> QED
    BY <1>2, <2>1 DEF Chain
<1>3. CASE ~disturbed' /\ ~UNCHANGED vars
  BY <1>3, NextCases, ChainRead, ChainReaders, ChainForward, ChainWriteSocket, ChainPush,
     ChainClose, ChainTake, ChainIdle, ChainWrite, ChainBrowse
<1> QED
  BY <1>1, <1>2, <1>3

LEMMA AlwaysChained == Spec => [](TypeInv /\ Chain)
<1>1. Init => DecoderKnows
  BY DEF Init, DecoderKnows, Down
<1> QED
  BY <1>1, InitChain, StepChain, StepDecoder, Typed, PTL DEF Spec

\* Counting on from a number modulo S.
LEMMA CountsOn ==
  ASSUME NEW n \in Nat, NEW S \in Nat \ {0}
  PROVE  ((n % S) + 1) % S = (n + 1) % S
<1> DEFINE q == n \div S
           r == n % S
<1>1. n = S * q + r /\ r \in 0 .. (S - 1) /\ q \in Nat
  OBVIOUS
<1> HIDE DEF q, r
<1>2. CASE r + 1 < S
  <2>1. n + 1 = S * q + (r + 1)
    BY <1>1
  <2>2. (n + 1) % S = r + 1
    BY <1>1, <1>2, <2>1
  <2> QED
    BY <1>1, <1>2, <2>2 DEF r
<1>3. CASE r + 1 = S
  <2>1. n + 1 = S * (q + 1) + 0
    BY <1>1, <1>3
  <2>2. (n + 1) % S = 0
    BY <1>1, <2>1
  <2> QED
    BY <1>1, <1>3, <2>2 DEF r
<1> QED
  BY <1>1, <1>2, <1>3

\* On a reliable transport what comes to the decoder is a keyframe or the frame
\* after the one before, whatever VideoQueue has dropped, unless the viewer
\* lagged or an old capture spoke up (forward_frames, VideoQueue, write_payload).
THEOREM NothingIsMissing == Spec => []NoGap
<1>1. ASSUME TypeInv, Chain PROVE NoGap
  <2> SUFFICES ASSUME via # "channel", ~disturbed, wire # <<>>, decoder.up, Gap(wire[1])
               PROVE  Key(wire[1])
    BY DEF NoGap
  <2>1. PICK f \in Frames : decoder.last = Seqno(f) /\ WireNext(f)
    BY <1>1 DEF Chain, ClientChain, DecoderChain, Gap
  <2>2. PICK g \in Frames : g = wire[1]
    BY <1>1, Shapes, Elements
  <2>3. Links(f, g)
    BY <2>1, <2>2 DEF WireNext
  <2>4. CASE g.number = f.number + 1
    <3>1. (decoder.last + 1) % SeqSpace = Seqno(g)
      BY <2>1, <2>4, FrameParts, CountsOn, Constants DEF Seqno
    <3> QED
      BY <2>2, <3>1 DEF Gap
  <2> QED
    BY <2>2, <2>3, <2>4 DEF Links
<1> QED
  BY <1>1, AlwaysChained, PTL

\* Nothing waits in front of a keyframe, and a queue that saw every frame holds one
\* group of pictures at most (coalesce_to_latest_keyframe).
THEOREM QueueIsFresh == Spec => []FreshestFirst
<1>1. ASSUME TypeInv, Chain PROVE FreshestFirst
  BY <1>1, OneGroup DEF FreshestFirst, TypeInv, KeyFirst, Chain, ServerChain
<1> QED
  BY <1>1, AlwaysChained, PTL
=============================================================================
