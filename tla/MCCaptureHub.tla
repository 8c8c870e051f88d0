----------------------------- MODULE MCCaptureHub -----------------------------
(* CaptureHub for TLC: two settings, of which one is the CPU fallback. *)
EXTENDS CaptureHub, TLC

CONSTANTS hw, cpu

MCConfigs == {hw, cpu}

\* h264_cpu_fallback of the video settings: idempotent, one image.
VideoFallback == [c \in MCConfigs |-> cpu]

\* The audio hub tries nothing else.
AudioFallback == [c \in Configs |-> c]

Symmetry == Permutations(Viewers) \cup Permutations(Procs)
=============================================================================
