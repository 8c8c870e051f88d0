------------------------------- MODULE MCDesktop -------------------------------
(***************************************************************************)
(* What stands around the sessions, for TLC: the camera, the wheel, the    *)
(* microphone, the audio output, the clipboard, the parsers of what the    *)
(* encoders write, and the passwords.  They share no state, so that a      *)
(* behaviour is one of one of them and the others stand still.             *)
(***************************************************************************)
EXTENDS CameraRelay, WheelQueue, MicInput, AudioDevices,
        Clipboard, StreamParsers, AuthTracker, TLC

Wheel(by, how, speed) == [by |-> by, mode |-> how, speed |-> speed]
MCWheels == {Wheel(-95, "pixel", 1), Wheel(40, "pixel", 2), Wheel(10, "none", 3)}

CONSTANTS w1, w2

MCWanted == (w1 :> "real") @@ (w2 :> "virtual")

CONSTANTS b1, b2

MCCopy == (b1 :> "text") @@ (b2 :> "picture")

\* Annex B: the parts are units with their start codes, an access unit delimiter
\* in front of each access unit.
Nal(code, bytes) == [code |-> code, unit |-> bytes]

H264 == [format |-> "h264", parts |-> <<
  Nal(4, <<9, 16>>), Nal(4, <<103, 100, 0, 31>>), Nal(4, <<104, 238>>), Nal(4, <<101, 1, 2>>),
  Nal(4, <<9, 16>>), Nal(3, <<65, 3>>),
  Nal(4, <<9, 16>>),
  Nal(4, <<9, 16>>), Nal(4, <<103, 100, 0, 31>>), Nal(4, <<104, 238>>), Nal(3, <<101, 4>>), Nal(3, <<6>>),
  Nal(4, <<9, 16>>), Nal(4, <<65, 5>>)>>]

H265 == [format |-> "h265", parts |-> <<
  Nal(4, <<64, 1>>), Nal(4, <<66, 1>>), Nal(4, <<68, 1>>), Nal(4, <<70, 1>>), Nal(4, <<38, 1, 2>>),
  Nal(4, <<70, 1>>), Nal(3, <<2, 1>>), Nal(4, <<70, 1>>), Nal(4, <<2, 1>>)>>]

\* IVF: payloads.  ADTS: noise, frames and something like a header in a payload.
Ivf  == [format |-> "ivf", parts |-> <<<<0, 1>>, <<1, 0, 0>>, <<3>>>>]
ADTS == [format |-> "adts", parts |-> <<<<1>>, <<255, 241, 0, 0, 0, 0, 0>>, <<2, 255>>, <<3>>>>]

\* Ogg: pages of packets, one of which is laced over two, and a page that begins
\* in the middle of what looks like a capture pattern.
Ogg == [format |-> "ogg", parts |-> <<
  <<<<7>>>>, <<<<7, 7, 7, 7>>>>, <<<<79, 103>>, <<1, 2, 3>>, <<>>>>, <<<<79>>, <<103, 103>>>>>>]

MCStreams == {H264, H265, Ivf, ADTS, Ogg}

VARIABLE part

deviceVars  == <<cameraVars, wheelVars, micVars, audioVars>>
serviceVars == <<clipboardVars, parserVars, authVars>>
desktopVars == <<deviceVars, serviceVars, part>>

\* The camera while nobody uses it: the placeholder runs and the worker waits.
CameraRests ==
  /\ queue = <<>> /\ hand = None
  /\ active = None /\ stale = TRUE /\ permit = FALSE /\ abandoned = FALSE
  /\ worker = [at |-> "waiting", try |-> 1]
  /\ relay = None /\ ffmpeg = "none" /\ placeholder = "running"

\* The parts that stand still begin in one state.
DesktopInit ==
  /\ part \in {"camera", "wheel", "microphone", "audio", "clipboard", "parsers", "passwords"}
  /\ IF part = "camera" THEN CameraInit ELSE CameraRests
  /\ WheelInit /\ MicInit /\ AudioInit /\ ClipboardInit /\ ParserInit /\ AuthInit
  /\ part # "wheel" => ~smooth
  /\ part # "audio" => sinks = Real /\ default = "real" /\ fixed = NoSink
  /\ part # "parsers" => stream = Ivf

DesktopNext ==
  /\ UNCHANGED part
  /\ \/ part = "camera" /\ CameraNext /\ UNCHANGED <<wheelVars, micVars, audioVars, serviceVars>>
     \/ part = "wheel" /\ WheelNext /\ UNCHANGED <<cameraVars, micVars, audioVars, serviceVars>>
     \/ part = "microphone" /\ MicNext /\ UNCHANGED <<cameraVars, wheelVars, audioVars, serviceVars>>
     \/ part = "audio" /\ AudioNext /\ UNCHANGED <<cameraVars, wheelVars, micVars, serviceVars>>
     \/ part = "clipboard" /\ ClipboardNext /\ UNCHANGED <<deviceVars, parserVars, authVars>>
     \/ part = "parsers" /\ ParserNext /\ UNCHANGED <<deviceVars, clipboardVars, authVars>>
     \/ part = "passwords" /\ AuthNext /\ UNCHANGED <<deviceVars, clipboardVars, parserVars>>

DesktopSpec ==
  /\ DesktopInit /\ [][DesktopNext]_desktopVars
  /\ (part = "camera" => CameraFairness)

\* The state of each has its shape.
DesktopTypeOK ==
  /\ CameraTypeOK /\ WheelTypeOK /\ MicTypeOK /\ AudioTypeOK
  /\ ClipboardTypeOK /\ AuthTypeOK
=============================================================================
