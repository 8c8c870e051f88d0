CONSTANTS
  Sessions = {comb}
  Patient = {comb}
  Plain = {a, u}
  Logicals = {shift}
  shift = shift
  lshift = lshift
  rshift = rshift
  Keysyms <- BothSides
  Fallback <- MCFallback
  Unmapped = {u}
  Buttons = {left_button}
  None = None
  first = first
  second = second
  video = video
  input = input
  s1 = s1
  s2 = s2
  s3 = s3
  s4 = s4
  Connections = {s1, s2, s3, s4}
  Clients = {first, second}
  Roles = {video, input}
  ClientOf <- MCClientOf
  RoleOf <- MCRoleOf
  Channels = {c1, c2}
  Silent = {s3}
  Unlisted = Unlisted
  InCap = 2
  OptionModes <- MCOptionModes
  Helping = {"desktop"}
SPECIFICATION ConnectionsSpec
INVARIANT OnlyOwnGroups
CHECK_DEADLOCK FALSE
