CONSTANTS
  Usable = {"hk", "jp"}
  Names = {"hk", "jp", "AI", "OpenAI", "Proxy", "Speedtest", "ads"}
  BadUrls = {"srs"}
  None = None
  Nothing = None
  Keep = {"AI"}
  Forced = {}
  Hostile = {"ads"}
  Bare <- MCBare
  Procs = {p1, p2}
  Free = Free
  Default <- MCDefault
  FirstExit = "hk"
  First <- MCFirst
  Endings <- MCEndings
  Ops <- MCOps
  MaxOps = 3
  MaxRules = 4
  MaxKills = 1
  Exits = {hk}
  Categories = {ai}
  RuleTexts = {r1, r2}
  Comment = comment
  MaxLines = 2
  Ports = {ssh, web}
  SSH = ssh
  Values = {v1}
  Types = {domain, cidr}
  MaxDialogs = 3
  NoValue = NoValue
  Openable = {"8080/tcp", "80/tcp", "8111/tcp"}
  SSHPort = "22/tcp"
  HttpPort = "80/tcp"
  Shipped <- ShippedRules
  Closers = {c1, c2}
  NoPort = NoPort
  MaxAsked = 5
  Domains = {d1, d2}
  Writers = {w1, w2}
  Timer = timer
  Nobody = nobody
  MaxJobs = 3
  Ways = {local, hk, jp}
  Local = local
  Lookers = {l1, l2, l3}
  NoIp = NoIp
SPECIFICATION Spec
INVARIANTS TypesOK AtRestConsistent  RuleFromOneDialog OneOperationPerDialog AddedOnce ExtrasReachDns ShowsExitInUse
PROPERTIES PolicyChoiceKept EditKeepsOthers DeletesListedRule ClosesRuleOfPort
CHECK_DEADLOCK FALSE
