CONSTANTS
  Usable = {"hk", "jp"}
  Names = {"hk", "jp", "AI", "OpenAI", "Proxy", "Speedtest", "ads"}
  BadUrls = {"srs"}
  None = None
  Nothing = None
  Keep = {"AI"}
  Forced = {}
  Hostile = {"ads"}
  Bare <- MCBare
  Procs = {p1, p2}
  Free = Free
  Default <- MCDefault
  FirstExit = "hk"
  First <- MCFirst
  Endings <- MCEndings
  Ops <- AddOps
  MaxOps = 1
  MaxRules = 4
  MaxKills = 0
SPECIFICATION SmartSpec
INVARIANTS RuleGoesToItsExit

CHECK_DEADLOCK FALSE
