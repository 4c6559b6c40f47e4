SPECIFICATION LockSpec
CONSTANTS
  Procs = {p1, p2, p3}
  NoFile = NoFile
  Empty = Empty
INVARIANTS
  AtMostOneDaemon
