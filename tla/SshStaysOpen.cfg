CONSTANTS
  Openable = {"8080/tcp", "80/tcp", "8111/tcp"}
  SSHPort = "22/tcp"
  HttpPort = "80/tcp"
  Shipped <- ShippedRules
  Closers = {c1, c2}
  NoPort = NoPort
  MaxAsked = 2
SPECIFICATION FirewallSpec
INVARIANTS SshStaysOpen
CHECK_DEADLOCK FALSE
