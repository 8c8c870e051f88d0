---------------------------- MODULE StreamParsers ----------------------------
(***************************************************************************)
(* From the pipes of the capturing programs to frames: AnnexBParser and     *)
(* IvfParser (src/src/annexb.rs), AdtsParser (src/src/audio.rs) and          *)
(* OggOpusDemux (src/src/rtc.rs).  A pipe is read as it comes, so that what  *)
(* a program writes is cut anywhere; each parser keeps what it cannot use    *)
(* yet.  Then the conversions of what AnnexBParser returns.                  *)
(*                                                                           *)
(* Streams are given by what the program means, which is also what the       *)
(* result is compared with.  Bytes are numbers; the fixed headers of IVF and *)
(* Ogg are shorter than in the code, and a full lace is Lace, not 255.       *)
(***************************************************************************)
EXTENDS Integers, Sequences, SequencesExt, FiniteSetsExt

CONSTANTS
  Streams, \* what may be written: [format, parts]
  Lace     \* the lace of an Ogg segment that its packet goes on after

VARIABLES
  stream, \* the stream of this behaviour
  given,  \* how much of it has been read
  torn,   \* whether a read has ended where the parser cannot help it
  buffer, \* the parser's buffer,
  begun,  \*   header_seen, or headers_skipped,
  sps,    \*   and the parameter sets that AnnexBParser has seen, or <<>>
  pps,
  frames, \* what it has returned: [data, key, description]
  lost    \* the reader is gone or goes round for ever

parserVars == <<stream, given, torn, buffer, begun, sps, pps, frames, lost>>
H26x == {"h264", "h265"}

-----------------------------------------------------------------------------
(* The streams.  A part of an Annex B stream is a unit, of IVF and ADTS a    *)
(* frame's payload, of Ogg a page's packets.                                 *)

Code(n)   == IF n = 4 THEN <<0, 0, 0, 1>> ELSE <<0, 0, 1>>
Big(n)    == <<0, 0, 0, n>>
IvfFile   == <<68, 75, 73, 70>>
Page      == <<79, 103, 103, 83>>
Adts(p)   == <<255, 241, 80, 0, Len(p) + 7, 31, 252>> \o p

Laces(p)  == [k \in 1..Len(p) \div Lace + 1 |-> IF k * Lace <= Len(p) THEN Lace ELSE Len(p) % Lace]

Bytes(format, part) ==
  CASE format \in H26x  -> Code(part.code) \o part.unit
    [] format = "ivf"   -> <<Len(part), 0, 0>> \o part
    [] format = "adts"  -> Adts(part)
    [] format = "ogg"   -> LET laces == FlattenSeq([k \in DOMAIN part |-> Laces(part[k])])
                           IN  Page \o <<Len(laces)>> \o laces \o FlattenSeq(part)

AllBytes(s) ==
  (IF s.format = "ivf" THEN IvfFile ELSE <<>>)
    \o FlattenSeq([i \in DOMAIN s.parts |-> Bytes(s.format, s.parts[i])])

\* Where the i-th part begins.
Begins(s, i) == Len(AllBytes([s EXCEPT !.parts = SubSeq(@, 1, i - 1)])) + 1

UnitType(format, byte) == IF format = "h264" THEN byte % 32 ELSE (byte \div 2) % 64
Auds(format)       == IF format = "h264" THEN {9} ELSE {35}
Vcls(format)       == IF format = "h264" THEN 1..5 ELSE 0..31
Keys(format)       == IF format = "h264" THEN {5} ELSE {19, 20, 21}
SpsTypes(format)   == IF format = "h264" THEN {7} ELSE {33}
PpsTypes(format)   == IF format = "h264" THEN {8} ELSE {34}

TypeOf(s, i)       == UnitType(s.format, s.parts[i].unit[1])
Delimiters(s)      == {i \in DOMAIN s.parts : TypeOf(s, i) \in Auds(s.format)}

\* A unit has no start code in it, nor the beginning of one at its end.
Units ==
  {u \in Seq(Nat) \ {<<>>} :
     /\ u[Len(u)] # 0
     /\ \A i \in 1..Len(u) - 2 : ~(u[i] = 0 /\ u[i + 1] = 0 /\ u[i + 2] \in {0, 1})}

\* H.264 comes with one SPS and one PPS, which may be repeated, in front of the
\* pictures.
HasSets(s) ==
  /\ Len(s.parts) > 3 /\ Len(s.parts[2].unit) >= 4
  /\ TypeOf(s, 2) \in SpsTypes("h264") /\ TypeOf(s, 3) \in PpsTypes("h264")
  /\ \A i \in DOMAIN s.parts :
       /\ TypeOf(s, i) \in SpsTypes("h264") => s.parts[i].unit = s.parts[2].unit /\ i # Len(s.parts)
       /\ TypeOf(s, i) \in PpsTypes("h264") => s.parts[i].unit = s.parts[3].unit /\ i # Len(s.parts)

\* The first unit of an access unit has a long start code, the second byte of a header
\* of H.265 is not 0, and an access unit is not of 16 MiB.
HasHeaders(s) ==
  \A i \in Delimiters(s) :
    /\ s.parts[i].code = 4 /\ Len(s.parts[i].unit) >= 2 /\ s.parts[i].unit[2] > 0
    /\ \A j \in i..Len(s.parts) :
         Delimiters(s) \cap (i + 1..j) = {} => Begins(s, j + 1) - Begins(s, i) < 256 * 256 * 256

ASSUME StreamsAssumption ==
  /\ Lace \in Nat \ {0}
  /\ Streams \subseteq
       [format : {"ivf"}, parts : Seq(Seq(Nat) \ {<<>>})]
         \cup [format : {"adts"}, parts : Seq(Seq(Nat))]
         \cup [format : {"ogg"}, parts : Seq(Seq(Seq(Nat)))]
         \cup [format : H26x, parts : Seq([code : {3, 4}, unit : Units])]
  /\ \A s \in Streams : /\ s.format = "h264" => HasSets(s)
                        /\ s.format = "h265" => HasHeaders(s)

\* The members of a set of numbers, from the least to the greatest.
InOrder(S) == [k \in 1..Cardinality(S) |-> CHOOSE x \in S : Cardinality({y \in S : y < x}) = k - 1]

-----------------------------------------------------------------------------
(* Annex B. *)

Is4(b, i) == i + 3 <= Len(b) /\ SubSeq(b, i, i + 3) = <<0, 0, 0, 1>>
Is3(b, i) == i + 3 <= Len(b) /\ SubSeq(b, i, i + 2) = <<0, 0, 1>>

\* start_codes: one at the very end is not seen, nor the three bytes inside of four.
StartCodes(b) == {i \in DOMAIN b : Is4(b, i) \/ (Is3(b, i) /\ ~(i > 1 /\ Is4(b, i - 1)))}

From(b, i)    == SubSeq(b, i, Len(b))
NextStart(b, from) ==
  LET after == {i \in from..Len(b) : Is4(b, i) \/ Is3(b, i)}
  IN  IF after = {} THEN Len(b) + 1 ELSE Min(after)
Payload(b)    == IF Is4(b, 1) THEN From(b, 5) ELSE IF IsPrefix(<<0, 0, 1>>, b) THEN From(b, 4) ELSE b

\* nal_type: nothing for a start code with nothing behind it yet.
Typed(f, b, types) ==
  {i \in StartCodes(b) : Payload(From(b, i)) # <<>> /\ UnitType(f, Payload(From(b, i))[1]) \in types}

\* Slip: the end is looked for one byte in, where a long start code has a short one.
UnitWithin(b, i) == Payload(SubSeq(b, i, NextStart(b, i + 1) - 1))

\* capture_headers: up to the next start code, or all there is.
UnitAt(b, i) == Payload(SubSeq(b, i, NextStart(b, i + 3) - 1))

\* With less than two start codes push returns before it looks at any.
LastUnit(f, b, types, else) ==
  LET found == Typed(f, b, types)
  IN  IF found = {} \/ Cardinality(StartCodes(b)) < 2 THEN else ELSE UnitAt(b, Max(found))

\* annexb_sample_to_length_prefixed.
Prefixed(b) ==
  LET starts == InOrder(StartCodes(b))
      unit(k) == Payload(SubSeq(b, starts[k], IF k = Len(starts) THEN Len(b) ELSE starts[k + 1] - 1))
  IN  IF starts = <<>> THEN b
      ELSE FlattenSeq([k \in DOMAIN starts |-> IF unit(k) = <<>> THEN <<>> ELSE Big(Len(unit(k))) \o unit(k)])

Sample(format, b) == IF format = "h264" THEN Prefixed(b) ELSE b

\* avcc_from_sps_pps reads the first four bytes of the SPS.
Described(format) == IF format = "h264" /\ sps' # <<>> /\ pps' # <<>> THEN <<sps', pps'>> ELSE <<>>

\* From a member of a set of positions up to the next.
Slice(b, at, i) == SubSeq(b, i, Min({j \in at : j > i}) - 1)

\* The delimiters, but for the last, that have a picture behind them.
Pictures(f, b, auds) ==
  InOrder({i \in auds : i # Max(auds) /\ Typed(f, Slice(b, auds, i), Vcls(f)) # {}})

\* What they are sent as.
Sampled(f, b, auds) ==
  LET pictures == Pictures(f, b, auds)
  IN  [k \in DOMAIN pictures |->
        [data |-> Sample(f, Slice(b, auds, pictures[k])), description |-> Described(f),
         key |-> Typed(f, Slice(b, auds, pictures[k]), Keys(f)) # {}]]

\* Slip: everything that was looked at is done with.
PushAnnexBAll(f, b) ==
  LET auds == Typed(f, b, Auds(f))
      out  == Sampled(f, b, auds)
  IN  /\ sps' = LastUnit(f, b, SpsTypes(f), sps)
      /\ pps' = LastUnit(f, b, PpsTypes(f), pps)
      /\ frames' = frames \o out
      /\ buffer' = IF Cardinality(auds) < 2 THEN b ELSE <<>>
      /\ lost' = (out # <<>> /\ Described(f) # <<>> /\ Len(sps') < 4)
      /\ UNCHANGED begun

\* AnnexBParser::push.  A frame is what is between two delimiters, if there is a
\* picture in it; the parameter sets are those that were last seen in the buffer.
PushAnnexB(f, b) ==
  LET auds == Typed(f, b, Auds(f))
      out  == Sampled(f, b, auds)
  IN  /\ sps' = LastUnit(f, b, SpsTypes(f), sps)
      /\ pps' = LastUnit(f, b, PpsTypes(f), pps)
      /\ frames' = frames \o out
      /\ buffer' = IF Cardinality(auds) < 2 THEN b ELSE From(b, Max(auds))
      /\ lost' = (out # <<>> /\ Described(f) # <<>> /\ Len(sps') < 4)
      /\ UNCHANGED begun

-----------------------------------------------------------------------------
(* The others take frame after frame from the front, until what is left is   *)
(* not one.                                                                  *)

Plain(data) == [data |-> data, key |-> FALSE, description |-> <<>>]

\* found[i] is what is found at i: out, what is returned; next, up to where it is taken;
\* more, whether to look again from there.  Who looks again where it was never ends.
Taken(b, found) ==
  LET from[i \in 1..Len(b) + 1] ==
        IF found[i].more /\ found[i].next # i
        THEN [from[found[i].next] EXCEPT !.out = found[i].out \o @]
        ELSE [rest |-> From(b, found[i].next), out |-> <<>>, hung |-> found[i].more]
  IN  from[1]

Stops(i)      == [out |-> <<>>, next |-> i, more |-> FALSE]
Goes(out, i)  == [out |-> out, next |-> i, more |-> TRUE]

IvfFrames(b) ==
  Taken(b, [i \in 1..Len(b) + 1 |->
    IF Len(b) < i + 2 \/ Len(b) < i + 2 + b[i] THEN Stops(i)
    ELSE LET data == SubSeq(b, i + 3, i + 2 + b[i])
         \* ivf_keyframe of VP8.
         IN  Goes(<<[Plain(data) EXCEPT !.key = data # <<>> /\ data[1] % 2 = 0]>>, i + 3 + b[i])])

\* IvfParser::push.
PushIvf(b) ==
  IF begun = 0 /\ Len(b) < Len(IvfFile)
  THEN buffer' = b /\ UNCHANGED <<begun, sps, pps, frames, lost>>
  ELSE LET done == IvfFrames(IF begun = 0 THEN From(b, Len(IvfFile) + 1) ELSE b)
       IN  /\ buffer' = done.rest /\ frames' = frames \o done.out /\ begun' = 1
           /\ UNCHANGED <<sps, pps, lost>>

\* find_sync: two bytes are needed.
Syncs(b) == {i \in 1..Len(b) - 1 : b[i] = 255 /\ b[i + 1] >= 240}

\* A length of nothing is a frame that is found again.
AdtsFrames(b) ==
  Taken(b, [i \in 1..Len(b) + 1 |->
    LET syncs == {j \in Syncs(b) : j >= i}
        at    == Min(syncs)
    IN  IF syncs = {} THEN Stops(Len(b) + 1)
        ELSE IF Len(b) < at + 6 \/ Len(b) < at + b[at + 4] - 1 THEN Stops(at)
        ELSE Goes(<<Plain(SubSeq(b, at, at + b[at + 4] - 1))>>, at + b[at + 4])])

\* AdtsParser::push.
PushAdts(b) ==
  LET done == AdtsFrames(b)
  IN  /\ buffer' = done.rest /\ frames' = frames \o done.out /\ lost' = done.hung
      /\ UNCHANGED <<begun, sps, pps>>

\* How long what the first k laces are about is.
UpTo(laces) ==
  LET sum[k \in 0..Len(laces)] == IF k = 0 THEN 0 ELSE sum[k - 1] + laces[k]
  IN  sum

\* The packets of a page: a lace that is not full ends one.
Packets(laces, body) ==
  LET ends  == InOrder({k \in DOMAIN laces : laces[k] < Lace})
      begins(k) == IF k = 1 THEN 0 ELSE UpTo(laces)[ends[k - 1]]
  IN  [k \in DOMAIN ends |-> SubSeq(body, begins(k) + 1, UpTo(laces)[ends[k]])]

Pages(b) == {i \in 1..Len(b) - 3 : SubSeq(b, i, i + 3) = Page}

\* Out of step, the next page is looked for; what might begin one is kept.
OggPackets(b) ==
  Taken(b, [i \in 1..Len(b) + 1 |->
    LET pages  == {j \in Pages(b) : j >= i}
        header == i + 4 + b[i + 4]
        laces  == SubSeq(b, i + 5, header)
        size   == header + UpTo(laces)[Len(laces)]
    IN  IF Len(b) < i + 4 THEN Stops(i)
        ELSE IF pages = {} THEN Stops(Len(b) - 2)
        ELSE IF i \notin pages THEN Goes(<<>>, Min(pages))
        ELSE IF Len(b) < header \/ Len(b) < size THEN Stops(i)
        ELSE Goes(Packets(laces, SubSeq(b, header + 1, size)), size + 1)])

\* Empty packets are not sent.
Filled(packets) ==
  LET full == InOrder({k \in DOMAIN packets : packets[k] # <<>>})
  IN  [k \in DOMAIN full |-> packets[full[k]]]

\* OggOpusDemux::push: the first two packets are OpusHead and OpusTags.
PushOgg(b) ==
  LET done == OggPackets(b)
      skip == Min({2 - begun, Len(done.out)})
      left == Filled(From(done.out, skip + 1))
  IN  /\ buffer' = done.rest /\ begun' = begun + skip
      /\ frames' = frames \o [k \in DOMAIN left |-> Plain(left[k])]
      /\ UNCHANGED <<sps, pps, lost>>

-----------------------------------------------------------------------------
(* media_video_payload: for a media track, the lengths become start codes.   *)

LongCodes(b) ==
  Taken(b, [i \in 1..Len(b) + 1 |->
    LET n == 256 * (256 * (256 * b[i] + b[i + 1]) + b[i + 2]) + b[i + 3]
    IN  IF Len(b) < i + 3 \/ n = 0 \/ n > Len(b) - i - 3 THEN Stops(i)
        ELSE Goes(Code(4) \o SubSeq(b, i + 4, i + 3 + n), i + 4 + n)])

\* avcc_to_annex_b: what does not parse is left as it is.
AvccToAnnexB(b) == LET done == LongCodes(b) IN IF done.rest = <<>> /\ done.out # <<>> THEN done.out ELSE b

MediaPayload(format, b) == IF format \in H26x THEN AvccToAnnexB(b) ELSE b

-----------------------------------------------------------------------------
(* The readers: streamer::start, audio_streamer::start, spawn_opus_track_feed. *)

\* The places where no parser can do right with what it does: within a parameter
\* set, up to where the next unit is seen; and between the two bytes of a sync word.
Tears(s) ==
  CASE s.format = "h264" ->
         UNION {Begins(s, i) + s.parts[i].code..Begins(s, i + 1) + 2 :
                i \in {j \in 1..Len(s.parts) - 1 : TypeOf(s, j) \in SpsTypes("h264") \cup PpsTypes("h264")}}
    [] s.format = "adts" -> {Begins(s, i) : i \in DOMAIN s.parts}
    [] OTHER -> {}

ReadPipe(n) ==
  /\ ~lost
  /\ given + n <= Len(AllBytes(stream))
  /\ given' = given + n
  /\ torn' = (torn \/ given + n \in Tears(stream))
  /\ LET b == buffer \o SubSeq(AllBytes(stream), given + 1, given + n)
     IN  CASE stream.format \in H26x -> PushAnnexB(stream.format, b)
           [] stream.format = "ivf"  -> PushIvf(b)
           [] stream.format = "adts" -> PushAdts(b)
           [] stream.format = "ogg"  -> PushOgg(b)
  /\ UNCHANGED stream

ParserInit ==
  /\ stream \in Streams
  /\ given = 0 /\ torn = FALSE /\ lost = FALSE
  /\ buffer = <<>> /\ begun = 0 /\ sps = <<>> /\ pps = <<>>
  /\ frames = <<>>

ParserNext == \E n \in 1..Len(AllBytes(stream)) : ReadPipe(n)

ParserSpec == ParserInit /\ [][ParserNext]_parserVars

-----------------------------------------------------------------------------
(* Properties. *)

\* What the program means: of H.264 and H.265 the access units between delimiters
\* that hold a picture, of which the last goes on for as long as the program runs.
Within(s, i)  == i..Min({j \in Delimiters(s) : j > i}) - 1
Holds(s, i, types) == \E j \in Within(s, i) : TypeOf(s, j) \in types

\* The access unit from its delimiter on, with codes in front of its units.
Written(s, i, codes) ==
  FlattenSeq([j \in 1..Cardinality(Within(s, i)) |-> codes[i + j - 1] \o s.parts[i + j - 1].unit])

\* As the viewers get them, and as a media track does.
MeantPictures(s) ==
  LET shown == InOrder({i \in Delimiters(s) : i # Max(Delimiters(s)) /\ Holds(s, i, Vcls(s.format))})
      own   == [j \in DOMAIN s.parts |-> Code(s.parts[j].code)]
      sizes == [j \in DOMAIN s.parts |-> Big(Len(s.parts[j].unit))]
      long  == [j \in DOMAIN s.parts |-> Code(4)]
      h264  == s.format = "h264"
  IN  [k \in DOMAIN shown |->
        [data  |-> Written(s, shown[k], IF h264 THEN sizes ELSE own),
         key   |-> Holds(s, shown[k], Keys(s.format)),
         track |-> Written(s, shown[k], IF h264 THEN long ELSE own)]]

Same(d) == [data |-> d, key |-> FALSE, track |-> d]

Meant(s) ==
  LET packets == Filled(From(FlattenSeq(s.parts), 3))
  IN  CASE s.format \in H26x  -> MeantPictures(s)
        [] s.format = "ivf"  -> [i \in DOMAIN s.parts |-> [Same(s.parts[i]) EXCEPT !.key = s.parts[i][1] % 2 = 0]]
        [] s.format = "adts" -> [i \in DOMAIN s.parts |-> Same(Adts(s.parts[i]))]
        [] s.format = "ogg"  -> [i \in DOMAIN packets |-> Same(packets[i])]

\* However the pipe is cut into reads, what is returned is what the program means,
\* frame by frame and all of it in the end, and stays so for a media track, unless
\* a read has torn an ADTS sync word.  Nor does a parser fail or hang, but for the
\* reads that tear.
CutsDoNotMatter ==
  /\ lost => torn
  /\ stream.format # "adts" \/ ~torn =>
       LET got == [k \in DOMAIN frames |->
                    [data |-> frames[k].data, key |-> frames[k].key,
                     track |-> MediaPayload(stream.format, frames[k].data)]]
       IN  /\ IsPrefix(got, Meant(stream))
           /\ given = Len(AllBytes(stream)) /\ ~lost => got = Meant(stream)

\* Every H.264 frame describes the stream by its parameter sets, whole, unless a read
\* ended in one: then those before it may be described by a part of it.
SetsAreWhole ==
  stream.format = "h264" /\ ~torn =>
    \A k \in DOMAIN frames :
      frames[k].description = <<stream.parts[2].unit, stream.parts[3].unit>>
=============================================================================
