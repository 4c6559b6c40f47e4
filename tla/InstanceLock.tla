----------------------------- MODULE InstanceLock -----------------------------
(***************************************************************************)
(* The PID-file guard that should keep a second daemon from running        *)
(* (internal/lock, main.go runBridge and --ensure-running).  Acquire reads *)
(* the lock file, probes the pid it names, writes <lock>.tmp and renames   *)
(* it over the lock file; each of these system calls is a step, and the    *)
(* temp file has ONE name for all processes.                               *)
(*                                                                         *)
(* A process writes to the file it opened, wherever a rename has moved it  *)
(* meanwhile: its descriptor follows the file from the temp path to the    *)
(* lock path and out of sight.  A pid is used again: by another daemon, or *)
(* by a process that is none (a stranger), and kill -0 tells neither from  *)
(* the daemon that wrote it.  A stranger of another user answers EPERM,    *)
(* which Acquire takes for dead; it is not modelled, since for the lock    *)
(* its pid is a free one.                                                  *)
(***************************************************************************)
EXTENDS Integers, FiniteSets

CONSTANTS
  Procs,     \* pids
  NoFile,    \* the path does not exist
  Empty      \* a file truncated and not written yet, or with invalid content

ASSUME LockAssumption == NoFile \notin Procs /\ Empty \notin Procs /\ Empty # NoFile

VARIABLES
  pc,          \* where the daemon with each pid is in runBridge, or how the last ended
  strangers,   \* the pids of live processes that are no daemons
  lockFile,    \* what the file at lockPath holds: a pid or Empty; or NoFile
  tmpFile,     \* the same for lockPath.tmp
  seen,        \* what each process read at lockPath, until it has probed that
  fd,          \* where the file is that each process has open for writing
  overlapped   \* history: two processes have been inside Acquire at once

lockVars == <<pc, strangers, lockFile, tmpFile, seen, fd, overlapped>>

Stages ==
  {"read", "probe", "open", "write", "rename", "remove", "run", "stop", "gone", "killed"}

Alive(p) == pc[p] \notin {"gone", "killed"}

\* Past the read of the lock file, in Acquire.
Overwriting(p) == pc[p] \in {"open", "write", "rename", "remove"}
Acquiring(p) == pc[p] = "probe" \/ Overwriting(p)
Running(p) == pc[p] = "run"

Go(p, stage) == pc' = [pc EXCEPT ![p] = stage]

LockInit ==
  /\ pc = [p \in Procs |-> "gone"]
  /\ strangers = {}
  /\ lockFile = NoFile
  /\ tmpFile = NoFile
  /\ seen = [p \in Procs |-> NoFile]
  /\ fd = [p \in Procs |-> "closed"]
  /\ overlapped = FALSE

-----------------------------------------------------------------------------

\* launchd, --ensure-running or a user starts `claude-mesh-bridge run', which gets
\* a free pid.
Launch(p) ==
  /\ ~Alive(p)
  /\ p \notin strangers
  /\ Go(p, "read")
  /\ UNCHANGED <<strangers, lockFile, tmpFile, seen, fd, overlapped>>

\* Another program gets a free pid, or ends.
StrangerComes(p) ==
  /\ ~Alive(p)
  /\ p \notin strangers
  /\ strangers' = strangers \cup {p}
  /\ UNCHANGED <<pc, lockFile, tmpFile, seen, fd, overlapped>>

StrangerGoes(p) ==
  /\ p \in strangers
  /\ strangers' = strangers \ {p}
  /\ UNCHANGED <<pc, lockFile, tmpFile, seen, fd, overlapped>>

\* Does f name a pid that kill -0 reaches?  It reaches any process with that pid, the
\* caller itself among them.
NamesLive(f) == f \in Procs /\ (Alive(f) \/ f \in strangers)

\* os.ReadFile.
Read(p) ==
  /\ pc[p] = "read"
  /\ seen' = [seen EXCEPT ![p] = lockFile]
  /\ Go(p, "probe")
  /\ overlapped' = (overlapped \/ \E q \in Procs : Acquiring(q))
  /\ UNCHANGED <<strangers, lockFile, tmpFile, fd>>

Probed(p) == seen' = [seen EXCEPT ![p] = NoFile]

ProbeHeldReleases(p) ==   \* bug: the Release is deferred before the check
  /\ pc[p] = "probe"
  /\ NamesLive(seen[p])
  /\ Probed(p)
  /\ lockFile' = NoFile
  /\ Go(p, "gone")
  /\ UNCHANGED <<strangers, tmpFile, fd, overlapped>>

ProbeHeldUnprobed(p) ==   \* bug: any pid in the file counts as held
  /\ pc[p] = "probe"
  /\ seen[p] \in Procs
  /\ Probed(p)
  /\ Go(p, "gone")
  /\ UNCHANGED <<strangers, lockFile, tmpFile, fd, overlapped>>

\* ErrAlreadyHeld: runBridge returns nil and the process exits.
ProbeHeld(p) ==
  /\ pc[p] = "probe"
  /\ NamesLive(seen[p])
  /\ Probed(p)
  /\ Go(p, "gone")
  /\ UNCHANGED <<strangers, lockFile, tmpFile, fd, overlapped>>

\* No file, a dead pid or invalid content: go on to overwrite what is there by now.
ProbeFree(p) ==
  /\ pc[p] = "probe"
  /\ ~NamesLive(seen[p])
  /\ Probed(p)
  /\ Go(p, "open")
  /\ UNCHANGED <<strangers, lockFile, tmpFile, fd, overlapped>>

\* os.WriteFile: open with O_CREATE and O_TRUNC ...
OpenTmp(p) ==
  /\ pc[p] = "open"
  /\ tmpFile' = Empty
  /\ fd' = [fd EXCEPT ![p] = "tmp"]
  /\ Go(p, "write")
  /\ UNCHANGED <<strangers, seen, lockFile, overlapped>>

WriteTmpIgnored(p) ==   \* bug: the error of a failed write is dropped
  /\ pc[p] = "write"
  /\ fd' = [fd EXCEPT ![p] = "closed"]
  /\ Go(p, "rename")
  /\ UNCHANGED <<strangers, seen, lockFile, tmpFile, overlapped>>

\* ... and write the pid, to the file wherever it is by now (pids of one length:
\* a shorter one written over a longer would leave its tail).
WriteTmp(p) ==
  /\ pc[p] = "write"
  /\ tmpFile' = IF fd[p] = "tmp" THEN p ELSE tmpFile
  /\ lockFile' = IF fd[p] = "lock" THEN p ELSE lockFile
  /\ fd' = [fd EXCEPT ![p] = "closed"]
  /\ Go(p, "rename")
  /\ UNCHANGED <<strangers, seen, overlapped>>

\* The file at the path becomes another one, or none.
Unlinked(path, files) == [q \in Procs |-> IF files[q] = path THEN "unlinked" ELSE files[q]]
Moved(files) == [q \in Procs |-> IF files[q] = "tmp" THEN "lock" ELSE files[q]]

Rename(p) ==
  /\ pc[p] = "rename"
  /\ tmpFile # NoFile
  /\ lockFile' = tmpFile
  /\ tmpFile' = NoFile
  /\ fd' = Moved(Unlinked("lock", fd))
  /\ Go(p, "run")
  /\ UNCHANGED <<strangers, seen, overlapped>>

\* Another process renamed or removed the temp file first.
RenameFails(p) ==
  /\ pc[p] = "rename"
  /\ tmpFile = NoFile
  /\ Go(p, "remove")
  /\ UNCHANGED <<strangers, lockFile, tmpFile, seen, fd, overlapped>>

\* Acquire removes whatever is at the temp path by now and returns an error; the
\* process exits without a Release.
RemoveTmp(p) ==
  /\ pc[p] = "remove"
  /\ tmpFile' = NoFile
  /\ fd' = Unlinked("tmp", fd)
  /\ Go(p, "gone")
  /\ UNCHANGED <<strangers, seen, lockFile, overlapped>>

ReleaseByZero(p) ==   \* bug: a 0 is written to the file, which stays
  /\ pc[p] = "run"
  /\ lockFile' = "0"
  /\ Go(p, "stop")
  /\ UNCHANGED <<strangers, seen, tmpFile, fd, overlapped>>

\* runBridge returns (SIGTERM, or an error after Acquire): the deferred Release
\* removes whatever is at lockPath, while the process is still alive.
Release(p) ==
  /\ pc[p] = "run"
  /\ lockFile' = NoFile
  /\ fd' = Unlinked("lock", fd)
  /\ Go(p, "stop")
  /\ UNCHANGED <<strangers, seen, tmpFile, overlapped>>

LeaveReleasing(p) ==   \* bug: Release is called a second time on the way out
  /\ pc[p] = "stop"
  /\ lockFile' = NoFile
  /\ fd' = Unlinked("lock", fd)
  /\ Go(p, "gone")
  /\ UNCHANGED <<strangers, seen, tmpFile, overlapped>>

Leave(p) ==
  /\ pc[p] = "stop"
  /\ Go(p, "gone")
  /\ UNCHANGED <<strangers, lockFile, tmpFile, seen, fd, overlapped>>

\* SIGKILL (launchctl kickstart -k ends so): nothing is cleaned up.
Die(p) ==
  /\ Alive(p)
  /\ Go(p, "killed")
  /\ Probed(p)
  /\ fd' = [fd EXCEPT ![p] = "closed"]
  /\ UNCHANGED <<strangers, lockFile, tmpFile, overlapped>>

Acquire(p) ==
  \/ Read(p) \/ ProbeHeld(p) \/ ProbeFree(p) \/ OpenTmp(p) \/ WriteTmp(p)
  \/ Rename(p) \/ RenameFails(p) \/ RemoveTmp(p)

LockNext ==
  \E p \in Procs :
    \/ Launch(p) \/ Acquire(p) \/ Release(p) \/ Leave(p) \/ Die(p)
    \/ StrangerComes(p) \/ StrangerGoes(p)

LockSpec == LockInit /\ [][LockNext]_lockVars

\* A process inside Acquire is scheduled; nothing makes it release or die.
LockFairSpec == LockSpec /\ \A p \in Procs : WF_lockVars(Acquire(p))

-----------------------------------------------------------------------------
(* Properties.                                                             *)

\* Every variable has its type (lock.go:33-77).
LockTypeOK ==
  /\ pc \in [Procs -> Stages]
  /\ strangers \in SUBSET Procs
  /\ lockFile \in Procs \cup {NoFile, Empty}
  /\ tmpFile \in Procs \cup {NoFile, Empty}
  /\ seen \in [Procs -> Procs \cup {NoFile, Empty}]
  /\ fd \in [Procs -> {"closed", "tmp", "lock", "unlinked"}]
  /\ overlapped \in BOOLEAN

OneRunning == \A p, q \in Procs : Running(p) /\ Running(q) => p = q

\* As long as no two processes were inside Acquire at once, at most one daemon
\* runs, whatever was killed, restarted or left behind, and whoever has a pid that
\* was a daemon's (lock.go:33-77).
ExclusiveUnlessOverlapped == ~overlapped => OneRunning

\* And the guard never locks everyone out: an Acquire that got past the read
\* finds its own pid in the temp file when it renames it, whatever a killed
\* process left at either path (lock.go:57-66).
AcquireSucceedsUnlessOverlapped ==
  ~overlapped => \A p \in Procs : pc[p] = "rename" => tmpFile = p

\* The lock file names the running daemon, so that every later Acquire is
\* refused (lock.go:36-49).
RunningIsNamed == \A p \in Procs : Running(p) => lockFile = p

\* What makes this inductive: without an overlap one process at a time is past its
\* read, with the temp file to itself; the daemon that runs is the one it is about to
\* probe, and none runs while it overwrites the lock; and no rename fails.
AcquireIsAlone ==
  /\ \A p, q \in Procs : Acquiring(p) /\ Acquiring(q) => p = q
  /\ \A p, q \in Procs : pc[p] = "probe" /\ Running(q) => seen[p] = q
  /\ \A p, q \in Procs : Overwriting(p) => ~Running(q)
  /\ RunningIsNamed
  /\ \A p \in Procs : pc[p] = "write" => fd[p] = "tmp"
  /\ \A p \in Procs : pc[p] = "rename" => tmpFile = p
  /\ \A p \in Procs : pc[p] # "remove"

\* The inductive invariant of the lock: a descriptor is open only in a write, onto a
\* file that is there (lock.go:33-77).
LockInv ==
  /\ LockTypeOK
  /\ \A p \in Procs : fd[p] # "closed" => pc[p] = "write"
  /\ \A p \in Procs : fd[p] = "tmp" => tmpFile # NoFile
  /\ \A p \in Procs : fd[p] = "lock" => lockFile # NoFile
  /\ ~overlapped => AcquireIsAlone

\* main.go:115-118, the guard should "prevent multiple bridge daemons from
\* competing": at most one daemon runs.
AtMostOneDaemon == OneRunning

\* The guard never locks everyone out for good: a daemon that is launched alone,
\* when no process has the pid in the lock file, gets to run whatever killed
\* processes left at either path, unless it is killed, another is launched, or
\* some process gets that pid before the probe (lock.go:30-31, 50).
StaleLockIsTaken ==
  \A p \in Procs :
    (pc[p] = "read" /\ ~NamesLive(lockFile) /\ \A q \in Procs \ {p} : ~Alive(q))
      ~> (Running(p) \/ pc[p] = "killed" \/ NamesLive(lockFile)
            \/ \E q \in Procs \ {p} : Alive(q))

=============================================================================
