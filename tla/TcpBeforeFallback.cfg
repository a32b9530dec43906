CONSTANTS
  Queries = {1}
  Primary = {p1}
  Fallback = {f1}
  TcpDelay = 2
  FallbackDelay = 1
  Timeout = 3
SPECIFICATION Spec
INVARIANT TcpBeforeFallback
CHECK_DEADLOCK FALSE
