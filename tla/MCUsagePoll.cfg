SPECIFICATION UsageFairSpec
CONSTANTS
  Pollers = {mac, mini}
  WithApi = {mac, mini}
  Interval = 2
  TTL = 4
  MaxPoll = 1
  MaxWrite = 0
  Nothing = Nothing
INVARIANTS
  UsageTypeOK
  SourceNamesItsPoll
  WorkingPollIsVisible
  NothingStale
  SharpIsRight
PROPERTIES
  ApiWins
  ImplementsBoard
