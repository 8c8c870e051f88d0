---------------------------- MODULE MCInputSession ----------------------------
(* InputSession for TLC: one logical modifier, with two keys or one. *)
EXTENDS InputSession

CONSTANTS shift, left, right

BothSides  == [l \in {shift} |-> {left, right}]
LeftOnly   == [l \in {shift} |-> {left}]
MCFallback == [l \in {shift} |-> left]

CONSTANT Faulty  \* bound: the sessions whose clients press keys that fail

OthersPressMapped ==
  \A s \in Sessions \ Faulty :
    ({plan[s].key} \cup plan[s].press \cup pressed[s]) \cap Unmapped = {}
=============================================================================
