CONSTANTS
  Queries = {1, 2}
  Primary = {p1}
  Fallback = {f1}
  TcpDelay = 1
  FallbackDelay = 2
  Timeout = 3
SPECIFICATION MCSpec
INVARIANTS TypeOK ChannelSound NoneWaits
PROPERTIES WorkersExit 
\* The bounded number of queries comes to an end.
CHECK_DEADLOCK FALSE
