SPECIFICATION QuerySpec
CONSTANTS
  Sids = {s1, s2}
  s1 = s1
  s2 = s2
  main_go = main_go
  Cwds = {Unset}
  Hosts = {Unset}
  Pids = {Unset}
  Unset = Unset
  HashTTL = 2
  GraceTTL = 1
  RingTTL = 1
  GlobalTTL = 2
  RingSize = 1
  GlobalRingSize = 2
  AgeCap = 2
  Windows = {1, 2}
  Budget = 1
  Limit = 2
  Target <- MCTarget
  EventAges <- MCEventAges
INVARIANTS
  QueryTypeOK
  ScoreMatchesLastSeen
  RecentIsListed
  RingsBounded
  FreshIsReported
  ReportedWasVouchedFor
  ActivityIsListed
  TouchIsReported
