SPECIFICATION InstallerSpec
CONSTANTS
  Files <- MCFiles
  Binaries <- MCBinaries
  Events = {SessionStart}
  Hooks = {neurostack, closing}
  Naming = {closing}
  Servers = {mioboxtc}
  Places = {repository, elsewhere}
  NoFile = NoFile
  NotRead = NotRead
  Opened = Opened
  MaxEdits = 2
  Darwin = TRUE
SYMMETRY MCSymmetry
INVARIANTS
  InstallerTypeOK
  OneMeshGroup
  InstalledWhenDone
  UninstalledWhenDone
  UnrelatedKept
