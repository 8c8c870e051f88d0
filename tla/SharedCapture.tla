----------------------------- MODULE SharedCapture -----------------------------
(***************************************************************************)
(* What a capture hub (src/media.rs) promises to the sessions that use it, *)
(* without locks, tasks or processes.  A session asks for a lease; it is   *)
(* granted one only when a capture is published, and granting it disturbs  *)
(* nobody else's capture.  A capture is published only while somebody uses *)
(* the hub; it is withdrawn when the last holder departs, to be replaced,  *)
(* or because the server closes.                                           *)
(***************************************************************************)
CONSTANTS Viewers, Configs, None

VARIABLES
  lease,    \* how far each viewer is with its lease
  capture,  \* the settings of the published capture, or None
  closing   \* the server is shutting down

sharedVars == <<lease, capture, closing>>

Stages == {"none", "asking", "held", "returning"}

Users      == {v \in Viewers : lease[v] # "none"}
Holders(v) == {w \in Viewers \ {v} : lease[w] \in {"held", "returning"}}

Move(v, from, to) ==
  /\ lease[v] = from
  /\ lease' = [lease EXCEPT ![v] = to]
  /\ UNCHANGED closing

SharedInit ==
  /\ lease = [v \in Viewers |-> "none"]
  /\ capture = None
  /\ closing = FALSE

AskLease(v) == Move(v, "none", "asking") /\ UNCHANGED capture

Grant(v) ==
  /\ Move(v, "asking", "held")
  /\ capture' \in Configs
  /\ capture # None => capture' = capture

Refuse(v) == Move(v, "asking", "none") /\ capture = None /\ UNCHANGED capture

GiveBack(v) == Move(v, "held", "returning") /\ UNCHANGED capture

\* The last holder takes the capture along; once the server is closing, an
\* earlier one may.
Depart(v) ==
  /\ Move(v, "returning", "none")
  /\ \/ capture' = IF Holders(v) = {} THEN None ELSE capture
     \/ closing /\ capture' = None

Withdraw ==
  /\ Users # {}
  /\ capture # None
  /\ capture' = None
  /\ UNCHANGED <<lease, closing>>

Resume ==
  /\ Users # {}
  /\ capture = None
  /\ capture' \in Configs
  /\ UNCHANGED <<lease, closing>>

Close ==
  /\ closing' = TRUE
  /\ capture' = None
  /\ UNCHANGED lease

SharedNext ==
  \/ \E v \in Viewers : AskLease(v) \/ Grant(v) \/ Refuse(v) \/ GiveBack(v) \/ Depart(v)
  \/ Withdraw \/ Resume \/ Close

SharedSpec == SharedInit /\ [][SharedNext]_sharedVars

=============================================================================
