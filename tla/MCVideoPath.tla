----------------------------- MODULE MCVideoPath -----------------------------
(* VideoPath for TLC. *)
EXTENDS VideoPath
=============================================================================
