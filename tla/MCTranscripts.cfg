SPECIFICATION TranscriptsSpec
CONSTANTS
  t1 = t1
  t2 = t2
  p1 = p1
  p2 = p2
  Files = {t1, t2}
  Projects = {p1, p2}
  ProjectOf <- MCProjectOf
  Shapes <- MCShapes
  FiveHours = 0
  Week = 1
  MaxLineBytes = 10
  ReadTailBytes = 8
  MaxLines = 2
  MaxScan = 1
  MaxWritten = 3
  None = None
SYMMETRY MCSymmetry
INVARIANTS
  TranscriptsTypeOK
  UsageIsCounted
  ContextIsFresh
