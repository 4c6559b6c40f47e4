SPECIFICATION FairSpec
CONSTANTS
  s1 = s1
  w1 = w1
  w2 = w2
  mac = mac
  Sids = {s1}
  Cwds = {repo}
  Hosts = {mac}
  Pids = {1, 2, 9}
  Unset = Unset
  None = None
  HashTTL = 3
  GraceTTL = 1
  RingTTL = 1
  GlobalTTL = 1
  RingSize = 1
  GlobalRingSize = 1
  AgeCap = 3
  Workers = {w1, w2}
  ChanCap = 1
  SweepTTL = 3
  Local = mac
  Here = mac
  Lives = 1
  HookPid = 9
  PidSource = "hook"
  Kinds = {"open", "activity", "close"}
  Faults = {}
  MaxLag = 1
  MaxInFlight = 2
PROPERTIES
  RunningIsNotEvicted
