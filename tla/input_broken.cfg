CONSTANTS
  Sessions = {inp}
  Patient = {}
  Plain = {a}
  Logicals = {shift}
  shift = shift
  left = left
  right = right
  Keysyms <- BothSides
  Fallback <- MCFallback
  Unmapped = {}
  Buttons = {}
  None = None
  Faulty = {}
SPECIFICATION Spec
INVARIANTS BrokenHoldsNothing
CHECK_DEADLOCK FALSE
