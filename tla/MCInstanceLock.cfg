SPECIFICATION LockFairSpec
CONSTANTS
  Procs = {p1, p2, p3}
  NoFile = NoFile
  Empty = Empty
INVARIANTS
  LockTypeOK
  ExclusiveUnlessOverlapped
  AcquireSucceedsUnlessOverlapped
  LockInv
PROPERTIES
  StaleLockIsTaken
