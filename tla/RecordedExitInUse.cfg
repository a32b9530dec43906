CONSTANTS
  Exits = {m1, w1}
  WgExits = {w1}
  Operators = {p1}
  Local = local
  Boot = boot
  None = None
SPECIFICATION Spec
INVARIANT RecordedExitInUse
