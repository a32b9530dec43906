CONSTANTS
  MaxUpdates = 3
  MaxCrashes = 1
  Messages = {m1, m2}
  m1 = m1
  m2 = m2
  Workers = 3
  Services = 1
  Probes = 1
SPECIFICATION MCSpec
INVARIANTS TypeOK BusyHasOperation ResultShown ConfirmedWereHandled OncePerLife
PROPERTIES EveryUpdateHandled BusyClears
CHECK_DEADLOCK FALSE
