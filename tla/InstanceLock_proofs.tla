------------------------- MODULE InstanceLock_proofs -------------------------
(* The guard excludes a second daemon as long as no two processes are      *)
(* inside Acquire at once, for any number of pids, kills, restarts, pids   *)
(* used again and strangers.                                               *)
EXTENDS InstanceLock, TLAPS

\* Every step of one process keeps every variable in its type.
LEMMA LockTypeStep ==
  ASSUME LockTypeOK, [LockNext]_lockVars
  PROVE  LockTypeOK'
<1> USE LockAssumption DEF LockTypeOK, Stages, Go
<1>1. CASE UNCHANGED lockVars
  BY <1>1 DEF lockVars
<1>2. ASSUME NEW p \in Procs, Launch(p) \/ Read(p) \/ ProbeHeld(p) \/ ProbeFree(p)
      PROVE  LockTypeOK'
  <2>1. CASE Launch(p)
    BY <2>1 DEF Launch
  <2>2. CASE Read(p)
    <3>1. overlapped' \in BOOLEAN
      BY <2>2 DEF Read
    <3>2. QED
      BY <2>2, <3>1 DEF Read
  <2>3. CASE ProbeHeld(p) \/ ProbeFree(p)
    BY <2>3 DEF ProbeHeld, ProbeFree, Probed
  <2>4. QED
    BY <1>2, <2>1, <2>2, <2>3
<1>3. ASSUME NEW p \in Procs, OpenTmp(p)
      PROVE  LockTypeOK'
  BY <1>3 DEF OpenTmp
<1>4. ASSUME NEW p \in Procs, WriteTmp(p)
      PROVE  LockTypeOK'
  BY <1>4 DEF WriteTmp
<1>5. ASSUME NEW p \in Procs, Rename(p) \/ RenameFails(p) \/ RemoveTmp(p)
      PROVE  LockTypeOK'
  BY <1>5 DEF Rename, RenameFails, RemoveTmp, Moved, Unlinked
<1>6. ASSUME NEW p \in Procs, Release(p) \/ Leave(p) \/ Die(p)
      PROVE  LockTypeOK'
  BY <1>6 DEF Release, Leave, Die, Probed, Unlinked
<1>7. ASSUME NEW p \in Procs, StrangerComes(p) \/ StrangerGoes(p)
      PROVE  LockTypeOK'
  BY <1>7 DEF StrangerComes, StrangerGoes
<1>8. QED
  BY <1>1, <1>2, <1>3, <1>4, <1>5, <1>6, <1>7 DEF LockNext, Acquire

\* A descriptor is open in a write only, and its file is where it says.
DescriptorsFit ==
  /\ \A p \in Procs : fd[p] # "closed" => pc[p] = "write"
  /\ \A p \in Procs : fd[p] = "tmp" => tmpFile # NoFile
  /\ \A p \in Procs : fd[p] = "lock" => lockFile # NoFile

\* No rename or removal leaves a descriptor at a path that has no file.
LEMMA DescriptorsFitStep ==
  ASSUME LockTypeOK, DescriptorsFit, [LockNext]_lockVars
  PROVE  DescriptorsFit'
<1> USE LockAssumption DEF LockTypeOK, DescriptorsFit, Stages, Go
<1>1. CASE UNCHANGED lockVars
  BY <1>1 DEF lockVars
<1>2. ASSUME NEW p \in Procs, Launch(p) \/ Read(p) \/ ProbeHeld(p) \/ ProbeFree(p)
      PROVE  DescriptorsFit'
  BY <1>2 DEF Launch, Read, ProbeHeld, ProbeFree, Probed, Alive
<1>3. ASSUME NEW p \in Procs, OpenTmp(p)
      PROVE  DescriptorsFit'
  BY <1>3 DEF OpenTmp
<1>4. ASSUME NEW p \in Procs, WriteTmp(p)
      PROVE  DescriptorsFit'
  BY <1>4 DEF WriteTmp
<1>5. ASSUME NEW p \in Procs, Rename(p)
      PROVE  DescriptorsFit'
  BY <1>5 DEF Rename, Moved, Unlinked
<1>6. ASSUME NEW p \in Procs, RenameFails(p) \/ RemoveTmp(p)
      PROVE  DescriptorsFit'
  BY <1>6 DEF RenameFails, RemoveTmp, Unlinked
<1>7. ASSUME NEW p \in Procs, Release(p)
      PROVE  DescriptorsFit'
  BY <1>7 DEF Release, Unlinked
<1>8. ASSUME NEW p \in Procs, Leave(p) \/ Die(p)
      PROVE  DescriptorsFit'
  BY <1>8 DEF Leave, Die, Probed
<1>9. ASSUME NEW p \in Procs, StrangerComes(p) \/ StrangerGoes(p)
      PROVE  DescriptorsFit'
  BY <1>9 DEF StrangerComes, StrangerGoes
<1>10. QED
  BY <1>1, <1>2, <1>3, <1>4, <1>5, <1>6, <1>7, <1>8, <1>9 DEF LockNext, Acquire

\* A process that finds the lock free runs into nobody.
LEMMA ProbeFreeAlone ==
  ASSUME LockTypeOK, AcquireIsAlone, NEW p \in Procs, ProbeFree(p)
  PROVE  AcquireIsAlone'
<1> USE DEF LockTypeOK, Stages, Acquiring, Overwriting, Running
<1>1. \A q \in Procs : ~Running(q)
  <2> SUFFICES ASSUME NEW q \in Procs, Running(q) PROVE FALSE
    OBVIOUS
  <2>1. seen[p] = q
    BY DEF AcquireIsAlone, ProbeFree
  <2>2. NamesLive(seen[p])
    BY <2>1 DEF NamesLive, Alive
  <2>3. QED
    BY <2>2 DEF ProbeFree
<1>2. \A q \in Procs : Acquiring(q) => q = p
  BY DEF AcquireIsAlone, ProbeFree
<1>3. \A q \in Procs : pc'[q] = IF q = p THEN "open" ELSE pc[q]
  BY DEF ProbeFree, Go
<1>4. QED
  BY <1>1, <1>2, <1>3 DEF AcquireIsAlone, RunningIsNamed, ProbeFree

\* Without an overlap every other step keeps AcquireIsAlone.
LEMMA AcquireIsAloneStep ==
  ASSUME LockTypeOK, DescriptorsFit, AcquireIsAlone, ~overlapped',
         [LockNext]_lockVars
  PROVE  AcquireIsAlone'
<1> USE LockAssumption DEF LockTypeOK, Stages, AcquireIsAlone, RunningIsNamed,
                           Acquiring, Overwriting, Running, Go
<1>1. CASE UNCHANGED lockVars
  BY <1>1 DEF lockVars
<1>2. ASSUME NEW p \in Procs, Launch(p) \/ Read(p) \/ ProbeHeld(p)
      PROVE  AcquireIsAlone'
  <2>1. CASE Launch(p)
    BY <2>1 DEF Launch, Alive
  <2>2. CASE Read(p)
    <3>1. \A q \in Procs : ~Acquiring(q)
      BY <2>2 DEF Read
    <3>2. \A q \in Procs : Running(q) => seen'[p] = q
      BY <2>2 DEF Read
    <3>3. QED
      BY <2>2, <3>1, <3>2 DEF Read
  <2>3. CASE ProbeHeld(p)
    BY <2>3 DEF ProbeHeld, Probed
  <2>4. QED
    BY <1>2, <2>1, <2>2, <2>3
<1>3. ASSUME NEW p \in Procs, ProbeFree(p)
      PROVE  AcquireIsAlone'
  BY <1>3, ProbeFreeAlone
<1>4. ASSUME NEW p \in Procs, OpenTmp(p)
      PROVE  AcquireIsAlone'
  BY <1>4 DEF OpenTmp
<1>5. ASSUME NEW p \in Procs, WriteTmp(p)
      PROVE  AcquireIsAlone'
  BY <1>5 DEF WriteTmp
<1>6. ASSUME NEW p \in Procs, Rename(p)
      PROVE  AcquireIsAlone'
  <2>1. \A q \in Procs : fd[q] = "closed"
    BY <1>6 DEF Rename, DescriptorsFit
  <2>2. QED
    BY <1>6, <2>1 DEF Rename
<1>7. ASSUME NEW p \in Procs, RenameFails(p) \/ RemoveTmp(p)
      PROVE  AcquireIsAlone'
  BY <1>7 DEF RenameFails, RemoveTmp
<1>8. ASSUME NEW p \in Procs, Release(p)
      PROVE  AcquireIsAlone'
  BY <1>8 DEF Release
<1>9. ASSUME NEW p \in Procs, Leave(p) \/ Die(p)
      PROVE  AcquireIsAlone'
  BY <1>9 DEF Leave, Die, Probed
<1>10. ASSUME NEW p \in Procs, StrangerComes(p) \/ StrangerGoes(p)
       PROVE  AcquireIsAlone'
  BY <1>10 DEF StrangerComes, StrangerGoes
<1>11. QED
  BY <1>1, <1>2, <1>3, <1>4, <1>5, <1>6, <1>7, <1>8, <1>9, <1>10 DEF LockNext, Acquire

\* An overlap is never forgotten.
LEMMA OverlapStays ==
  ASSUME [LockNext]_lockVars, overlapped
  PROVE  overlapped'
  BY DEF LockNext, lockVars, Launch, Acquire, Read, ProbeHeld, ProbeFree, OpenTmp, WriteTmp, Rename,
         RenameFails, RemoveTmp, Release, Leave, Die, StrangerComes, StrangerGoes

\* The inductive invariant of the lock holds for any set of pids
\* (internal/lock/lock.go).
THEOREM LockInvariant == LockSpec => []LockInv
<1>1. LockInit => LockInv
  BY LockAssumption DEF LockInit, LockInv, LockTypeOK, AcquireIsAlone,
     RunningIsNamed, Acquiring, Overwriting, Running, Stages
<1>2. LockInv /\ [LockNext]_lockVars => LockInv'
  <2> SUFFICES ASSUME LockInv, [LockNext]_lockVars PROVE LockInv'
    OBVIOUS
  <2>1. LockTypeOK /\ DescriptorsFit /\ (~overlapped => AcquireIsAlone)
    BY DEF LockInv, DescriptorsFit
  <2>2. LockTypeOK' /\ DescriptorsFit'
    BY <2>1, LockTypeStep, DescriptorsFitStep
  <2>3. ~overlapped' => AcquireIsAlone'
    BY <2>1, AcquireIsAloneStep, OverlapStays
  <2>4. QED
    BY <2>2, <2>3 DEF LockInv, DescriptorsFit
<1>3. QED
  BY <1>1, <1>2, PTL DEF LockSpec

\* At most one daemon runs as long as no two processes have been inside Acquire
\* at once (lock.go:33-67, main.go:114-129).
THEOREM LockExcludes == LockSpec => []ExclusiveUnlessOverlapped
<1>1. LockInv => ExclusiveUnlessOverlapped
  BY DEF LockInv, LockTypeOK, AcquireIsAlone, RunningIsNamed,
         ExclusiveUnlessOverlapped, OneRunning
<1>2. QED
  BY <1>1, LockInvariant, PTL

\* And an Acquire that got past its read then succeeds, whatever files killed
\* processes left behind (lock.go:57-66).
THEOREM LockAdmits == LockSpec => []AcquireSucceedsUnlessOverlapped
<1>1. LockInv => AcquireSucceedsUnlessOverlapped
  BY DEF LockInv, AcquireIsAlone, AcquireSucceedsUnlessOverlapped
<1>2. QED
  BY <1>1, LockInvariant, PTL

\* Every process and file has its type, whichever processes die where
\* (lock.go:27-85).
THEOREM LockTypes == LockSpec => []LockTypeOK
<1>1. LockInv => LockTypeOK
  BY DEF LockInv
<1>2. QED
  BY <1>1, LockInvariant, PTL

-----------------------------------------------------------------------------
(* Liveness, of a process that stays alone.                                *)

\* A process inside Acquire, where it always has a next step, is scheduled: weak
\* fairness of Acquire(p), with the states spelled out in which it is enabled.
AcquireGoesOn(p) ==
  \/ []<>~(pc[p] = "read" \/ Acquiring(p))
  \/ []<><<Acquire(p)>>_lockVars

Alone(p) == \A q \in Procs \ {p} : ~Alive(q)

\* Where StaleLockIsTaken leads to.
RunsOrMeets(p) == Running(p) \/ pc[p] = "killed" \/ NamesLive(lockFile) \/ ~Alone(p)

\* The stages of a lone Acquire that finds the lock free.  From the open on it has
\* the temp file to itself.
LoneRead(p) == pc[p] = "read" /\ Alone(p) /\ ~NamesLive(lockFile)
LoneProbe(p) == pc[p] = "probe" /\ Alone(p) /\ seen[p] = lockFile /\ ~NamesLive(lockFile)
LoneOpen(p) == pc[p] = "open" /\ Alone(p)
LoneWrite(p) == pc[p] = "write" /\ Alone(p) /\ fd[p] = "tmp"
LoneRename(p) == pc[p] = "rename" /\ Alone(p) /\ tmpFile # NoFile

\* Whatever other daemons do while p is alone, they are launched, and then it is not
\* alone any more.
LEMMA OthersMeet ==
  ASSUME LockTypeOK, NEW p \in Procs, Alone(p), NEW q \in Procs \ {p},
         Launch(q) \/ Acquire(q) \/ Release(q) \/ Leave(q) \/ Die(q)
  PROVE  RunsOrMeets(p)'
<1>1. pc[q] \in {"gone", "killed"}
  BY DEF Alone, Alive
<1>2. Launch(q)
  BY <1>1 DEF Acquire, Read, ProbeHeld, ProbeFree, OpenTmp, WriteTmp, Rename, RenameFails,
             RemoveTmp, Release, Leave, Die, Alive
<1>3. pc'[q] = "read"
  BY <1>2 DEF Launch, Go, LockTypeOK
<1>4. QED
  BY <1>3 DEF RunsOrMeets, Alone, Alive

\* A lone process that has not finished Acquire goes to its next stage or stays
\* where it is, unless a stranger gets the pid in the lock (lock.go:36-66).
LEMMA LoneStep ==
  ASSUME LockInv, NEW p \in Procs, [LockNext]_lockVars
  PROVE  /\ LoneRead(p) => LoneRead(p)' \/ LoneProbe(p)' \/ RunsOrMeets(p)'
         /\ LoneProbe(p) => LoneProbe(p)' \/ LoneOpen(p)' \/ RunsOrMeets(p)'
         /\ LoneOpen(p) => LoneOpen(p)' \/ LoneWrite(p)' \/ RunsOrMeets(p)'
         /\ LoneWrite(p) => LoneWrite(p)' \/ LoneRename(p)' \/ RunsOrMeets(p)'
         /\ LoneRename(p) => LoneRename(p)' \/ RunsOrMeets(p)'
<1> USE DEF LoneRead, LoneProbe, LoneOpen, LoneWrite, LoneRename
<1>1. SUFFICES ASSUME Alone(p), pc[p] \in {"read", "probe", "open", "write", "rename"},
                      ~RunsOrMeets(p)'
               PROVE  /\ LoneRead(p) => LoneRead(p)' \/ LoneProbe(p)'
                      /\ LoneProbe(p) => LoneProbe(p)' \/ LoneOpen(p)'
                      /\ LoneOpen(p) => LoneOpen(p)' \/ LoneWrite(p)'
                      /\ LoneWrite(p) => LoneWrite(p)' \/ LoneRename(p)'
                      /\ LoneRename(p) => LoneRename(p)'
  OBVIOUS
<1>2. Alone(p)' /\ pc'[p] # "run" /\ pc'[p] # "killed" /\ ~NamesLive(lockFile)'
  BY <1>1 DEF RunsOrMeets, Running
<1>3. LockTypeOK /\ (fd[p] = "tmp" => tmpFile # NoFile)
  BY DEF LockInv
<1>4. CASE UNCHANGED lockVars
  BY <1>1, <1>2, <1>4 DEF lockVars
<1>5. CASE Acquire(p)
  BY <1>1, <1>2, <1>3, <1>5, LockAssumption DEF Acquire, Read, ProbeHeld, ProbeFree, Probed,
     OpenTmp, WriteTmp, Rename, RenameFails, RemoveTmp, Go, LockTypeOK
<1>6. CASE Launch(p) \/ Release(p) \/ Leave(p) \/ Die(p)
  BY <1>1, <1>2, <1>3, <1>6 DEF Launch, Release, Leave, Die, Go, LockTypeOK, Alive
<1>7. ASSUME NEW q \in Procs \ {p},
             Launch(q) \/ Acquire(q) \/ Release(q) \/ Leave(q) \/ Die(q)
      PROVE  FALSE
  BY <1>1, <1>3, <1>7, OthersMeet
<1>8. ASSUME NEW q \in Procs, StrangerComes(q) \/ StrangerGoes(q)
      PROVE  /\ LoneRead(p) => LoneRead(p)' \/ LoneProbe(p)'
             /\ LoneProbe(p) => LoneProbe(p)' \/ LoneOpen(p)'
             /\ LoneOpen(p) => LoneOpen(p)' \/ LoneWrite(p)'
             /\ LoneWrite(p) => LoneWrite(p)' \/ LoneRename(p)'
             /\ LoneRename(p) => LoneRename(p)'
  BY <1>1, <1>2, <1>8 DEF StrangerComes, StrangerGoes
<1>9. QED
  BY <1>4, <1>5, <1>6, <1>7, <1>8 DEF LockNext

\* A step of Acquire leaves the stage.
LEMMA AcquireLeaves ==
  ASSUME LockTypeOK, NEW p \in Procs, <<Acquire(p)>>_lockVars
  PROVE  pc'[p] # pc[p]
  BY DEF Acquire, Read, ProbeHeld, ProbeFree, OpenTmp, WriteTmp, Rename, RenameFails,
         RemoveTmp, Go, LockTypeOK

\* StaleLockIsTaken: a daemon that is launched alone, when nobody has the pid in the
\* lock file, gets to run, whatever lock and temp files there are (lock.go:30-31, 50),
\* provided that a process inside Acquire is scheduled.
THEOREM LockIsTaken ==
  LockSpec /\ (\A p \in Procs : AcquireGoesOn(p)) => StaleLockIsTaken
<1>1. ASSUME NEW p \in Procs
      PROVE  LockSpec /\ AcquireGoesOn(p) =>
               ((pc[p] = "read" /\ ~NamesLive(lockFile) /\ \A q \in Procs \ {p} : ~Alive(q))
                  ~> (Running(p) \/ pc[p] = "killed" \/ NamesLive(lockFile)
                        \/ \E q \in Procs \ {p} : Alive(q)))
  <2>1. LockInv /\ [LockNext]_lockVars =>
          /\ LoneRead(p) => LoneRead(p)' \/ LoneProbe(p)' \/ RunsOrMeets(p)'
          /\ LoneProbe(p) => LoneProbe(p)' \/ LoneOpen(p)' \/ RunsOrMeets(p)'
          /\ LoneOpen(p) => LoneOpen(p)' \/ LoneWrite(p)' \/ RunsOrMeets(p)'
          /\ LoneWrite(p) => LoneWrite(p)' \/ LoneRename(p)' \/ RunsOrMeets(p)'
          /\ LoneRename(p) => LoneRename(p)' \/ RunsOrMeets(p)'
    BY LoneStep
  <2>2. LockInv /\ <<Acquire(p)>>_lockVars =>
          /\ LoneRead(p) => ~LoneRead(p)'
          /\ LoneProbe(p) => ~LoneProbe(p)'
          /\ LoneOpen(p) => ~LoneOpen(p)'
          /\ LoneWrite(p) => ~LoneWrite(p)'
          /\ LoneRename(p) => ~LoneRename(p)'
    BY AcquireLeaves DEF LockInv, LoneRead, LoneProbe, LoneOpen, LoneWrite, LoneRename
  <2>3. LoneRead(p) \/ LoneProbe(p) \/ LoneOpen(p) \/ LoneWrite(p) \/ LoneRename(p)
          => pc[p] = "read" \/ Acquiring(p)
    BY DEF LoneRead, LoneProbe, LoneOpen, LoneWrite, LoneRename, Acquiring,
     Overwriting
  <2>4. LockSpec /\ AcquireGoesOn(p) => (LoneRead(p) ~> RunsOrMeets(p))
    BY <2>1, <2>2, <2>3, LockInvariant, PTL DEF AcquireGoesOn, LockSpec
  <2>5. (pc[p] = "read" /\ ~NamesLive(lockFile) /\ \A q \in Procs \ {p} : ~Alive(q)) => LoneRead(p)
    BY DEF LoneRead, Alone
  <2>6. RunsOrMeets(p) =>
          Running(p) \/ pc[p] = "killed" \/ NamesLive(lockFile) \/ \E q \in Procs \ {p} : Alive(q)
    BY DEF RunsOrMeets, Alone
  <2>7. QED
    BY <2>4, <2>5, <2>6, PTL
<1>2. QED
  BY <1>1 DEF StaleLockIsTaken

=============================================================================
