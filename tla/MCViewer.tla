------------------------------- MODULE MCViewer -------------------------------
(***************************************************************************)
(* What a viewer waits for, for TLC: frames, and settings that stay.  The  *)
(* two share no state, so that a behaviour is one of one of them and the   *)
(* other stands still.                                                     *)
(*                                                                         *)
(* Frames go by a stream or a data channel: a web socket has no queue and  *)
(* no writer.  The settings begin with one browser that looks at what it   *)
(* asked for, and another that comes with settings of its own; where they  *)
(* stand still both look, and nothing is under way.                        *)
(***************************************************************************)
EXTENDS VideoPath, MCSettingsSync

CONSTANTS here, coming

VARIABLE part

viewerVars == <<vars, syncVars, part>>

Looks(c) == [NewPage(AtFirst) EXCEPT !.at = "open", !.applied = AtFirst, !.uses = c]

Settled(looking) ==
  /\ conn = [c \in Conns |-> IF c \notin looking THEN Unset ELSE
               [asked |-> AtFirst, cut |-> FALSE, lease |-> [m \in Media |-> "held"], unseen |-> {}]]
  /\ inbox = [c \in Conns |-> [l \in Lanes |-> <<>>]]
  /\ capture = [m \in Media |-> [config |-> AtFirst[m], fallback |-> FALSE]]
  /\ happened = 0 /\ picked = Unset

ViewerInit ==
  /\ Init
  /\ \/ /\ part = "frames" /\ via # "socket" /\ Settled({1, 2})
        /\ tab = (here :> Looks(1)) @@ (coming :> Looks(2))
     \/ /\ part = "settings" /\ via = "socket" /\ Settled({1})
        /\ \E s \in Selectable : tab = (here :> Looks(1)) @@ (coming :> NewPage(s))

ViewerNext ==
  /\ UNCHANGED part
  /\ \/ part = "frames" /\ Next /\ UNCHANGED syncVars
     \/ part = "settings" /\ SyncNext /\ UNCHANGED vars

\* No fair action is enabled in the part that stands still.
ViewerSpec == ViewerInit /\ [][ViewerNext]_viewerVars /\ Fairness /\ SyncFairness
=============================================================================
