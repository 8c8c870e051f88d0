CONSTANTS
  Sessions = {comb, inp}
  Patient = {comb}
  Plain = {a, u}
  Logicals = {shift}
  shift = shift
  left = left
  right = right
  Keysyms <- LeftOnly
  Fallback <- MCFallback
  Unmapped = {u}
  Buttons = {left_button}
  None = None
  Faulty = {inp}
SPECIFICATION Spec
CONSTRAINT OthersPressMapped
INVARIANTS HeldIsClaimed CleanEndHoldsNothing
CHECK_DEADLOCK FALSE
