---------------------------- MODULE MCSettingsSync ----------------------------
(* SettingsSync for TLC: an encoder that works, and one that does not. *)
EXTENDS SettingsSync, TLC

CONSTANTS x264, nvenc, qsv, kbps

MCValues == [video |-> {x264, nvenc, qsv}, audio |-> {kbps}]
OfTwo    == [video |-> {x264, nvenc}, audio |-> {kbps}]

AtFirst  == [video |-> x264, audio |-> kbps]
MCStored == {AtFirst}
=============================================================================
