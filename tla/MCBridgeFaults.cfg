SPECIFICATION SilenceSpec
CONSTANTS
  s1 = s1
  w1 = w1
  w2 = w2
  mac = mac
  Sids = {s1}
  Cwds = {repo}
  Hosts = {mac}
  Pids = {1, 2, 9}
  Unset = Unset
  None = None
  HashTTL = 2
  GraceTTL = 1
  RingTTL = 1
  GlobalTTL = 1
  RingSize = 1
  GlobalRingSize = 1
  AgeCap = 2
  Workers = {w1, w2}
  ChanCap = 1
  SweepTTL = 2
  Local = mac
  Here = mac
  Lives = 2
  HookPid = 9
  PidSource = "claude"
  Kinds = {"open", "activity", "close", "other"}
  Faults = {"worker", "ticker", "stop", "lose", "redeliver"}
  MaxLag = 1
  MaxInFlight = 1
SYMMETRY AnyWorkers
PROPERTIES
  EvictionNeedsSilence
