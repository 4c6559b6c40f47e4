# claude-mesh: models, checks and proofs

claude-mesh shares what the Claude Code sessions of one user do across
terminals and hosts. Hooks publish events over MQTT, a daemon on each host
writes them to a Redis that all hosts share, and an MCP server and a status
line read them back. This directory holds TLA+ specifications of the parts
whose behaviour depends on the order in which things happen, TLC configurations
that check them on small instances, and proofs checked by TLAPS.

Line numbers below and in the modules refer to the files under `src/`.

## 1. The system

### 1.1 Components

| component | state it keeps | operations | talks to |
|---|---|---|---|
| **store** (`internal/store`) | in Redis: a sorted set of active sessions scored by time, a hash per session with a TTL, an activity ring per session and a global one, the MQTT health record, the usage keys | OpenSession, TouchSession, TouchOrCreateSession, CloseSession, PushActivity, TouchActiveSessions, SweepExpired, WriteMQTTHealth; the readers | Redis |
| **bridge** (`internal/bridge`) | a bounded channel of envelopes, worker goroutines, a ticker, the set of things one ticker pass has read | the subscribe callback, `handle`, `refreshLiveSessions`, the sweep, boot subscription with backoff | store, mqtt, the process table |
| **mqtt** (`internal/mqtt`) | paho's connection, the Subscriber's two flags and its stored handler | Connect, Subscribe, ResubscribeOnReconnect, Publish | the broker |
| **main** (`main.go`) | which command runs; the daemon's goroutines | `run`, `publish`, `status`, `statusline`, `install`, `uninstall`, `--ensure-running`, the usage poll | everything |
| **lock** (`internal/lock`) | a PID file and a temp file | Acquire, Release | the file system, the process table |
| **publisher and hooks** (`internal/publisher`, `hooks/*.sh`) | none: one process per event | session-start, pre-tool-use, stop; `publish` | the broker |
| **events** (`internal/events`) | the three message types | decoding | |
| **mcp** (`internal/mcp`, `cmd/claude-mesh-mcp`) | none between calls | mesh_status, mesh_sessions, mesh_recent, mesh_conflicts, mesh_announce | store, mqtt |
| **statusline** (`internal/statusline`) | none: one process per refresh | ReadUsage, Render | store, contextusage |
| **usage poll** (`main.go`, `internal/usagestats`) | the usage keys in Redis, a ticker | one poll a minute: the API, else the transcripts | anthropicapi, Redis |
| **anthropicapi** | none | FetchUsage through a Python subprocess | claude.ai |
| **contextusage** | none | the tokens of a transcript | a file |
| **installer** (`internal/installer`) | settings.json, .mcp.json, the copied files, the launchd agent | Install, Uninstall | the file system, launchctl |
| **config, logging** | none | environment to constants; output | |

### 1.2 How they interact, and what is hard about it

* Every hook publishes from a process and a connection of its own, so the
  events of one session reach the daemon in any order. The callback puts them
  on a channel that drops when it is full; two workers take them from it side
  by side; each store method is one or two Redis round trips. The ticker does
  its own round trips in between, and Redis expires keys whenever it likes.
  Nothing locks anything. (store, bridge)
* A daemon stops, crashes and is started again by launchd, and what it held is
  gone although the broker has been told it was handled. (bridge, main)
* Whether a session lives is decided by `kill -0` on a pid that was published
  by another process, some time ago, perhaps on another host. (bridge, hooks)
* Two daemons may start at the same time. The PID file must let one of them
  run, and must not lock everybody out after a kill, though the pid in it may be
  another program's by then. (lock)
* paho calls the OnConnect handler in a goroutine for every connection, ahead
  of main or behind it; the broker may forget the session. (mqtt, main)
* Daemons on several hosts write the same usage keys, from two sources whose sets
  of keys differ, and a status line reads them one GET at a time. (usage poll,
  statusline)
* A query reads a listing with one call per session while the daemon goes on
  writing, under one deadline; what it misses it does not say. (mcp, statusline)
* Transcripts are read while they are appended to, and the end of one may be
  half a line. (contextusage, usagestats)
* The installer edits files that others edit too, in many system calls, any of
  which can fail, loudly or not, or be its last; and which .mcp.json it edits
  depends on the directory it is run in. (installer)

### 1.3 What makes each component correct

* **store**: the copies of a session's last activity agree; a member of the
  sorted set that is recent has its hash; the rings are bounded.
* **bridge**: a session that can be probed as alive is not evicted; an eviction
  follows a silence; a session that ended goes away; no activity gets stuck; the
  global ring is in order up to the lag of a message.
* **lock**: one daemon runs, and a stale lock is no obstacle unless another process
  has its pid.
* **mqtt**: a connected daemon is subscribed or about to be; `status` forgets a
  dead daemon.
* **usage**: the source tells whose the figures are; a working poll stays visible and
  a stopped one does not; estimates are marked; the API wins when it can.
* **mcp, statusline**: a query reports who was there all the time it took, and
  nobody for whom neither an event nor a probe vouched; an activity is found until enough newer ones came.
* **contextusage, usagestats**: no line that was there is overlooked but for the
  limits of the reader.
* **installer**: idempotence in every interrupted state; a reported success is
  one, for the directory it was run in; uninstall leaves nothing of claude-mesh that
  it can see, and everything of others.

## 2. Modules

| module | models | extends | proofs |
|---|---|---|---|
| `SessionStore` | `internal/store/session.go`, `activity.go`: every method that writes | | `SessionStore_proofs` |
| `Bridge` | `internal/bridge`, the boot of `runBridge`, hooks and `publish` as its environment | `SessionStore` | `Bridge_proofs` |
| `BridgeSilence` | `Bridge` with one history variable | `Bridge` | `Bridge_proofs` |
| `MeshQueries` | the queries of `internal/mcp/handlers` and of the status line over the store | `SessionStore` | `MeshQueries_proofs` |
| `InstanceLock` | `internal/lock`, its use in `runBridge` and `--ensure-running` | | `InstanceLock_proofs` |
| `MqttLink` | `internal/mqtt`, the subscription in `runBridge` and `Bridge.Run`, the health record | | `MqttLink_proofs` |
| `UsageBoard` | what the usage keys promise their readers: the abstract specification | | |
| `UsagePoll` | `runUsagePoll`, `pollUsageOnce`, `ReadUsage`, `usagePart` | implements `UsageBoard` | `UsagePoll_proofs` |
| `Transcripts` | `internal/usagestats/parser.go`, `internal/contextusage/parser.go` | | `Transcripts_proofs` |
| `Installer` | `internal/installer` | | `Installer_proofs` |
| `MCBridge`, `MCBridgeSilence`, `MCMeshQueries`, `MCTranscripts`, `MCInstaller` | instances for TLC | | |

`SessionStore` has two roles. Alone, with any caller calling any method, it
says what holds of any client. `MeshQueries` is one, with queries beside it.
`Bridge` extends it and calls its actions from the daemon's goroutines. That a
behaviour of the daemon is one of `StoreSpec` is therefore little more than
that its arguments have the right types; it is a lemma (`BridgeIsStore`) which
carries the store's theorems over to the daemon, and no result of its own.

`UsageBoard` is the specification of the usage keys: one notice that is posted,
ages, falls off and is read as a whole. `UsagePoll` instantiates it (`Board`)
with a refinement mapping that takes the notice from the key of the source and
what is shown from the reader, and the property `ImplementsBoard` says that
several keys, two sources that write two sets of them and a reader that takes one
at a time behave like that to whoever is not disturbed.

### 2.1 SessionStore

`zset[s]`, `hash[s]`, `ring[s]`, `global` are the four kinds of key. Actions
carry the names of the methods. Each method's pipeline is one step: the client
sends it in one write of a few hundred bytes and Redis works off what it read
from one client before it turns to the next; `PushActivity` is two round
trips, and the answer of the first is a parameter of the action for the
second, so that a caller can act on a stale one.

Timestamps are **ages**: the model keeps now − ts, and `Elapse` makes every age
one older and every TTL one shorter. Ages saturate at `AgeCap`, at least the
hash TTL, past which no property tells them apart. So time never ends, and the
state space is finite. A timestamp in the future is not modelled: clocks of
different hosts are assumed to agree.

`rehydrated` is a history variable: the members whose score was written by the
boot touch last, which writes the score only.

### 2.2 Bridge

`net` is the set of published messages; no order, as every hook has its own
connection. `chan`, `worker`, `ticker` are the daemon's goroutines: a worker's
program counter says which round trip of `handle` is next, the ticker's which
part of a pass it is in, with the members and views it has read. `life` and
`running` are the claude processes; their pids are the numbers 1 .. `Lives` on
the host that `home` says, which need not be the daemon's. `strangers` are the
pids of the daemon's host that other processes have; `kill -0` does not tell
these apart (`Taken`). The daemon's host has two names: `Local`, as `os.Hostname` spells
it (`bridge.go:102`), and `Here`, as `hostname -s` does for the hooks
(`session-start.sh:48`).

`Faults` switches faults on: `"worker"` (a call of a worker fails; or is
served, its reply is lost and it is repeated or given up), `"ticker"` (a call of
the ticker or of the boot fails), `"stop"` (SIGTERM or crash at any point),
`"lose"` and `"redeliver"` (messages), `"reuse"` (strangers come and go).
`MaxLag` bounds the time that a message is under way and that a pass takes.

Not in this module: a second daemon. The subscription is in `MqttLink`; here the
daemon is subscribed whenever it is up.

### 2.3 MeshQueries

One query at a time, as queries write nothing. `query` is a listing under way:
`Ask` is the ZRANGE, `GetSession` one HGETALL, `Answer` the end, at which the
filter by age is applied (`status.go:67-77`). `took` counts ticks, and past
`Budget` every call fails, as the context's deadline makes it; a call that
fails for itself is `GetSessionFails`. The readers of a ring are one LRANGE,
hence operators (`Conflicts`, `RecentEvents`). Meanwhile any method of the
store may be called, with the timestamps `EventAges` allows, and time passes.

Three history variables: `fresh` are the sessions that have been listed, and
young enough for the filter, since the query was asked; `vouched` is the age of
what last said that the session is there: an event that was handled, or the
successful probe of its process, after which alone the ticker calls TouchSession
(`bridge.go:229-236`); `touch` follows one activity, chosen when it is pushed, and
counts its successors.

### 2.4 InstanceLock

`Procs` are pids. Daemons get them and give them back any number of times
(`Launch`, `Leave`, `Die`), and so do other programs: `strangers` are the pids
these have. `kill -0` asks whether any process has the pid (`NamesLive`), and so
the lock is held by whoever has got it, the relaunched daemon itself included.
`Acquire` is read, probe, open and truncate of the temp file, write, rename, and
the removal of the temp path after a rename that failed, each a step. A process
writes to the file it has opened wherever that is by now: `fd` says whether this
is the temp path, the lock path or neither. Processes are killed at every point.
`overlapped` is a history variable: two processes were inside `Acquire` at the
same time. A process of another user answers EPERM, which the code takes for
dead (`lock.go:47`); to the lock such a pid is a free one.

### 2.5 MqttLink

`main` is the main goroutine's program counter from Connect to the running
daemon, `callback[c]` that of the OnConnect goroutine of connection c. A SUBACK
can be lost with the connection. `brokerSub` is the broker's memory of the
subscription; the client id is new for each process, so a restart starts from
nothing. There is one daemon; the health record is one key for all hosts
(`redis_store.go:13`), so with several `status` shows whichever wrote last. `missed` records that a callback found no handler although main had
its SUBACK already.

### 2.6 UsagePoll and UsageBoard

One poller per host, with the first poll before the ticker is made and a tick
that waits while a poll is going on (Go's ticker keeps one, drops more). Each
source has its pipeline and its set of keys (`KeysOf`): both write the percentages
and the source (`Shared`), the local one alone the tokens and limits (`tokens5h`
stands for the four), the API's alone the end of the windows (`resetsAt`). What a
pipeline does not write stays until it expires. Of a value in Redis only its
source and age are kept. A status line reads four of the keys in the order of the
code; it can do without the tokens and the source (`BestEffort`). Percentages of 0,
which hide the block, are not told apart from others. `Shown` is what a status line
shows if nothing has changed or failed since it began to read. `api` says whether a
request would be answered now; it changes at any time, so between the requests
of two hosts too.

### 2.7 Transcripts

`files[f]` are the lines of a transcript, each with its kind, the offset in the
file where it starts, its length, its age and `left`: 0 for a line with its newline, 1 for one that lacks the newline
only and 2 for one that is cut earlier, which is no JSON yet. Sessions append
(`Write`, `Finish`) at any time.

`scan` is the daemon's: it lists the projects, then each project's files, then
reads line by line; an error of a directory, of an open or of the scanner
(`bufio.ErrTooLong`) costs what it costs in the code. The two windows are
computed when it is over, from a later clock (`main.go:344-354`).

`parse` is a status line's look at one file: the size is taken (`FileSize`), 16 KB
before it the reading starts (`seekPos`), the piece of a line that is cut there is a token like any
other, lines appended meanwhile are read as well, and of the last 15 tokens
(`maxLines`, `parser.go:25`) the newest that has a percentage counts. Blank lines are left out. The two readers
do not run at once in the model, as neither writes; time passes only while no
status line reads, to which it makes no difference.

### 2.8 Installer

`settings` keeps for each hook event the number of matcher groups of
claude-mesh, the user's hooks added to such a group and those in groups of their
own; the status line; and whether the file is JSON. `Naming` are user hooks
whose text contains `claude-mesh-`, which the code takes for its own. `cmd` is
the running command: its stage, the file it is at, the contents it has read,
and where it was started from: the build's directory, or the copy that an earlier
install has made (`~/.local/bin`), whose copying is one of a file onto itself
(`HasSource`, `CopyOpen`): it empties the binaries, and fails on the scripts,
which are elsewhere. There is a `.mcp.json` in each of the `Places`, the git
repositories and `~/.claude` for what is in none; a run edits the one of the
directory it is run in (`at`, `Here`), as `detectMCPJsonPath` finds it.
Edits are read, compute, rename; `atomicWrite` makes the last one step. Copies
truncate first. `Fail` ends an install and continues an uninstall with a message, as
the code does; an `Unload` may fail without one, because `launchctl` does or because
the plist by which it finds the agent is gone, and leaves the agent running
(`unheard`). `Kill` ends either command anywhere. `overtaken` records that a rename has undone
an edit made after the read. Left out: the `.bak` files (written, never read),
temp files, other top-level keys of `.mcp.json` (which the typed decode drops
as it drops a server's unknown fields), `launchctl`'s own state beyond loaded
or not.

## 3. The runs

Nine runs check properties that hold. Every action and every disjunct fires in
at least one of them.

| run | what it asks | instance |
|---|---|---|
| `store` | does any order of calls separate the copies or lose a recent session; what does a query miss, and whom does it report for whom nothing vouches? | `MeshQueries`: 2 sessions, one of which reports late, TTLs 2 and 1, rings of 1 and 2, windows 1 and none, budget 1 |
| `bridge_probe` | can a sweep evict a session that could be probed as alive; how far out of order can the ring get? | 2 workers, channel of 1, 2 messages under way, hash and sweep TTL 3, lag 1, faults `worker` and `stop` |
| `bridge_faults` | how much can a late event, a retry or a second delivery hasten an eviction? | 2 workers, 1 message under way, two claude processes in a row, TTLs 2, all faults but `reuse` |
| `bridge_live` | do ended sessions leave, is activity handled? | 2 workers, 1 message under way, 2 hosts, sweep TTL 1, faults `ticker`, `stop`, `lose`, `reuse`; fairness |
| `lock` | one daemon, and no lock-out? | 3 pids, of daemons and of strangers |
| `mqtt_link` | subscribed or about to be; subscribed in the end? | 3 connections in each of 2 processes |
| `usage` | does the source tell whose the figures are; visible while a poll works, gone when it does not; one board? | 2 daemons with the API, period 2, TTL 4, half-minute units; 777,000 states |
| `transcripts` | is what was there counted, is the newest found? | 2 files in 2 projects, 3 lines, short or too long, a tail of 2 short lines and a piece, the last 2 tokens |
| `installer` | idempotent, complete, careful? | 2 files, 1 event, 2 user hooks, 1 server, 2 directories, 2 edits; 4.7 million states, two and a half minutes |

Three runs end in a counterexample on purpose; section 6 says what they show.

**Why the bounds suffice.** No method of the store relates two sessions other
than through the global ring and the boot touch, which acts on each alone;
hence one session for the daemon, and two for the queries, where one session's
activities displace the other's in the ring and a listing reads one before the
other. Two workers are what the code starts (`bridge.go:22`), and three would
add no new pair of round trips to interleave. TTLs of 2 or 3 give each age a
fresh, a middle and an expired value, and `AgeCap` at the largest of them has
every age reach it. A channel of 1 with 2 messages under way is full while
another arrives (in `bridge_faults` a redelivered message finds it full). In
`bridge_live` the sweep TTL of 1 tells a score that has just been written from
any other; a longer one delays an eviction and changes nothing else about whether it
comes. Three pids around a lock: one of the process that holds it, one of
what takes over, one of what interferes. A write of the usage keys takes no unit of
time (`MaxWrite` = 0): its timeout is 2 seconds, the unit 30. Two directories: that
of this run and another. Three connections: one before the
subscription, one while it is made, one after it. Two transcripts: one is read while the other
grows; three lines are one before the tail, one in it and one that comes later. Two edits of the user's suffice
for all pairs of edit and removal, and one that breaks the file followed by one
that repairs it. The theorems of section 5 hold without any of these bounds.

In `bridge_probe` and `bridge_faults` the workers are symmetric: they run the
same code and nothing else mentions them. In `transcripts` the two files are,
each with its project, and in `installer` the two directories. No liveness is
checked there.

**Deadlock** is checked everywhere but in `mqtt_link`. There the model really may
stop: its connections and processes are bounded.

**Fairness.** Weak fairness of each worker, the ticker, main, the callbacks and
the pollers is Go's scheduler. Weak fairness of `Boot` is launchd's KeepAlive
(`launchd.go:21-24`), of `LinkUp` paho's automatic reconnection. Strong
fairness of the delivery of messages that are as old as `MaxLag` says that the
broker retries a QoS 1 message until it is acknowledged or its publisher has
given up: it is strong because the daemon may be down in between. Strong
fairness of `Tick` says that time passes although late messages hold it up; in
`UsagePoll` it is `[]<><<Tick>>`, no infinite number of restarts or reads between
two ticks.
Strong fairness of `SweepServed` says that Redis does not fail every sweep from
some time on; it may fail any number of other calls.
Nothing makes a process exit, the user act, an API answer or a fault end.

## 4. The properties

Type invariants aside, and `LockInv`, the inductive invariant of the lock, which
a run checks too (`StoreInv`, `UsageInv`, `LinkInv` and `TranscriptsInv` are only
proved):

* `ScoreMatchesLastSeen`, `RecentIsListed`: sorted set and hash are written by
  five methods and age separately. The second rests on `ScoreCoversHash`: a
  score and what is left of the hash's TTL add up to at least the TTL.
* `ActivityIsListed`: a member with an activity younger than the hash's TTL is
  listed, whatever boot touches and late events have made of its score.
* `RingsBounded`: unless a size is 0, which `LTRIM 0 -1` takes for everything.
* `FreshIsReported`: a session that was listed all the time a query took, and
  young enough with the whole budget added, is in the answer, if no call failed
  and the deadline did not pass. The score is what makes it fresh and
  `last_seen` what the filter looks at.
* `ReportedWasVouchedFor`: for whoever is reported under `max_age_seconds` an event
  or a successful probe came within it; neither a boot touch nor a hash that was
  read early, or that outlived its session, counts as that. A refresh does count:
  it follows a probe that found the process.
* `TouchIsReported`: an activity is found by `mesh_check_conflict` and among the
  recent events until newer ones have displaced it or the ring's TTL is over,
  behind whatever late events were pushed.
* `ImplementsBoard`: refinement, see above.
* `ProbeableSurvives`: whatever is written while a pass runs is fresh enough for
  its sweep, and what is not written the pass finds as it was listed. It needs
  twice MaxLag below the TTL, and breaks if the sweep does not wait for the end of
  the refresh.
* `EvictionNeedsSilence`: a sweep removes a session only if nothing the store
  was ever told of it is newer than the TTL **less one lag**. Without that
  lag it is false, since ZADD lets a late event lower a score.
* `RingNewestFirstUpToLag`: likewise, the newest-first order that
  `store.go:75` promises holds up to one lag.
* `EndedIsEvicted`, `EndedIsUnlisted`: liveness, of sessions whose processes are
  gone and whose pids nobody on the daemon's host has in the end; pids that are
  taken on another host, or were here for a while, do not keep them.
* `QueuedActivityIsListed`: liveness.
* `ExclusiveUnlessOverlapped`, `AcquireSucceedsUnlessOverlapped`,
  `StaleLockIsTaken`: a lone daemon gets in unless some process has the pid in the
  file, which the code cannot tell from a holder.
* `NotDeafUnlessMissed`, `BootSubscribes`, `DeadIsForgotten`.
* `SourceNamesItsPoll`: the sources write different keys and clear none of the
  other's, and still the source always names the poll that all keys of its pipeline
  are of, and goes no earlier than any leftover of the other. It breaks if one
  pipeline does not write the source.
* `WorkingPollIsVisible` (needs period + duration < TTL),
  `NothingStale`, `SharpIsRight`, `ApiWins`.
* `UsageIsCounted`: a usage line that was there when a scan began is in the
  windows it belongs to at the end, whatever is appended meanwhile, but for
  files that fail; one that fails does not take another with it.
* `ContextIsFresh`: a status line does not go by an older line than the newest
  usable one in the tail whose size it took, unless as many lines as it inspects
  come after.
* `OneMeshGroup`, `UnrelatedKept`.
* `InstalledWhenDone`, `UninstalledWhenDone`: what a reported success means, for the
  `.mcp.json` of the run's directory. An uninstall cannot see the other ones, nor
  that its unload has failed (`unheard`).

Each has a mutant: an operator named after the bug, next to the definition it
would replace, under which TLC finds the property violated.

## 5. Proofs

All for every value of the constants that their assumptions allow.

**SessionStore_proofs.** `StoreInvariant`: `StoreSpec => []StoreInv`.
`ScoreMatchesLastSeen` and the type are not enough for `RecentIsListed`: one
has to know that a member younger than the hash TTL cannot have lost its hash,
which is `ScoreCoversHash`. Every method writes score and TTL so that it holds,
and `Elapse` ages both by one; the saturation of ages needs HashTTL <= AgeCap.
`RecentMembersAreListed`, `CopiesAgree` and `RingsNeverOutgrow` follow.
`RecentActivityIsListed` needs one more fact, `ActivityCoversHash`: the age of an
activity in the global ring and what is left of its session's hash add up to
the hash's TTL, unless a close has taken the member out. The lemmas are one per
method, and typing lemmas of LPUSH, LTRIM and expiry. Assumed: the TTLs are
positive, the grace period is no longer than the hash TTL, HashTTL <= AgeCap.

**Bridge_proofs.** `BridgeIsStore`: a daemon's behaviour is one of the store's. Its
steps call the store's actions, so all there is to show is that a call's
arguments are what the method accepts, which is type correctness
(`BridgeTypes`): the message in a worker's hand is one that a hook published, of
the kind its program counter says. Hence every theorem of the store is one of
the daemon (`DaemonHidesNoRecentSession`, `DaemonKeepsThePromises`). `RingOrder` rests on `LagOK`: nothing
under way is older than MaxLag, since time waits for it, which is what MaxLag
means. A push is then at most MaxLag older than what it is put ahead of, and
ageing keeps the bound although ages saturate. `ScoreStep` says what any step
may do to a score: leave it with the hash, remove it, or write a timestamp no
older than MaxLag.

`ProbeablesSurvive` is the theorem about a pass of the ticker, which reads in
many calls what others write. Its invariant is `PassOK`: a session that is `Due`
(not heard of since the pass began, and probeable) is among the members still
to be read or is in the views with the pid of its process. That this stays so
is `DueBefore`: whatever writes a hash writes the score, so a session that is
due after a step was due before it, with the same hash; and its process is the
same, since no hash has a pid that its session has not had yet
(`MessagesOwn`, `HashesOwn`: an open carries the hook's pid or one of its
session's so far). The touch of such a view then ends that it is due, and
without views nobody is due at the sweep. Assumed: Redis answers the ticker
(`"ticker" \notin Faults`), `Here = Local`, `2 * MaxLag < SweepTTL`.

`EvictionFollowsSilence` is about `SilenceSpec` of `BridgeSilence`; the
invariant is that a member's score is at most MaxLag older than the newest
timestamp the store was told of (`ScoreNearHeard`). A score is overwritten only
by something no older than MaxLag (`UntimedStep`), and only the sweep evicts
(`OnlyTheSweepEvicts`). Assumed of the daemon: SweepTTL <= AgeCap and that the
pids are as named.

**MeshQueries_proofs.** `FreshSessionsAreReported`, `ReportedAreVouchedFor` and
`TouchesAreReported`, for any windows, budgets and limits. `SeenInTime`: of a
fresh session that has been read, the timestamp and what is left of the budget
stay within the window; both clocks advance together. `VouchedBeforeSeen`: no
hash, and nothing that was read of one, is younger than what vouches for its
session, as every method but the boot touch, which writes no hash, is given its
reason's timestamp.
`TouchInRing`: the followed activity is where its successors have pushed it,
and the ring lives as long as the count says. The store's invariant is used, not
proved again: what queries see is a store (`StoreGoesOn`).

**InstanceLock_proofs.** `LockInvariant`: `LockSpec => []LockInv`, for any
number of pids. `ExclusiveUnlessOverlapped` is not inductive. It needs that a
descriptor is open only in a write and onto a file that is there
(`DescriptorsFit`), and that without an overlap the one process past its read has
the temp file to itself, the daemon that runs is the one it is about to probe,
and the lock file names that daemon (`AcquireIsAlone`). Pids that are used again do
no harm to this: the pid of a running daemon is nobody else's. `LockExcludes`,
`LockAdmits` and `LockTypes` follow.

`LockIsTaken` is liveness: `StaleLockIsTaken` for any number of pids. A lone
process goes through `LoneRead`, `LoneProbe`, `LoneOpen`, `LoneWrite` and
`LoneRename`. That no process of any kind has the pid in the lock file is a
premise, and it may come to have it until the probe; both are in the property,
for `kill -0` gives no more. See below for the fairness.

**MqttLink_proofs.** `LinkInvariant`: `LinkSpec => []LinkInv`, for any number
of connections and processes. `LinkFacts` says which stages have a handler and
that a SUBSCRIBE under way belongs to a live connection. `NeverDeafOutsideTheWindow`
and `LinkTypes` follow.

`DaemonSubscribes` is liveness, `BootSubscribes` for any number of connections.
On a link that stays the process lives (`StepOnLink`) and main goes from stage to
stage until it runs (`MainRuns`). Were the daemon then deaf for good, one
callback would be under way (`NotDeafUnlessMissed`), find the handler and get its
SUBACK (`CallbackHears`), which ends it (`NotDeafForGood`).

**Fairness in the two liveness theorems.** The prover cannot reason about
`ENABLED`, hence not about `WF`. Their hypotheses (`AcquireGoesOn`, `MainGoesOn`,
`CallbacksGoOn`) are weak fairness with the states spelled out in which the
action is enabled. That these are the right states is seen in the guards, and
TLC has found `LockFairSpec` and `LinkFairSpec` to imply the hypotheses and the
other way round, on 3 processes and on 2 connections in each of 2 processes; no
run repeats that. The callbacks are fair one by one, which is what the Go
scheduler does for goroutines; `LinkFairSpec` asks it of all of them together,
which is the same while a process has finitely many.

**UsagePoll_proofs.** `UsageInvariant`: `UsageSpec => []UsageInv`, for any
number of daemons and reads. Four facts make it inductive. `PollsAreYoung`: an
answer in hand is no older than its write has taken, which bounds the age of a key
by MaxWrite + TTL (`NothingStaleIsRead`). `KeysOutlastPolls`: of a daemon whose polls
succeed, `SinceWrite` bounds the time since its last write by what its ticker
and its present poll have spent, and what is left of a key's TTL is the rest;
under `Interval + MaxPoll < TTL` the key cannot expire
(`WorkingPollStaysVisible`, the one theorem with that condition; in the code 60
and 120 seconds, so a poll may take almost a minute). `SourceIsTold`: the keys of
the pipeline that the source names are of one poll, in age too, and what the other
pipeline has left expires no later than the source, since every pipeline writes
the source and all with one TTL. `ReadsAreSharp`: what a status line
has read so far is what the keys still say unless something has changed since,
whence `SharpReadsAreRight`. `PollsImplementBoard` is the refinement: a write
of one set of keys posts a notice, and a step that changes no key shows or hides what
hangs there; that a shown pair of percentages is the notice's is again
`ReadsAreSharp`.

**Installer_proofs.** `OneMeshGroup` and `UnrelatedKept`, with the type, are
inductive together because they speak of the contents that the running command
has read and not written back. There is one lemma per edit of a file (it keeps
the type, at most one group, and what is the user's), and one per step; the
proof of a rename splits on whether the file is still what was read, which is
what `overtaken` records.

`InstallIsComplete` and `UninstallIsComplete` say that a command that reports
success has done all of it that it can see. They speak of the order of the stages, and of a
user who edits in between, so their invariant (`Progress`) says what a command
none of whose steps has failed has done so far: `InstallSoFar` and
`UninstallSoFar` what the stages behind it have left in each file and that the
user has not undone it, `FilesSoFar` the files before the one it is at,
`ReadSoFar` that contents it has read and not yet written back hold the edits
of the stages before. An install from the installed copy gets no further than
the first script, and so reports no success. `AgentOut` is why an agent may be left:
only the unload of this very run can have failed unheard. Assumed: the files are distinct,
the first is a binary and some are scripts, "no file" is no contents, and the
marks `Opened` and `NotRead` differ.

**Transcripts_proofs.** `TranscriptsInvariant`: `TranscriptsSpec =>
[]TranscriptsInv`, for any number of files and lines of any length, tails and
limits. `LinesInOrder` says that lines follow one another in the file and that
only the last may be cut, so that no line reaches beyond the file's end
(`FileSizeFact`) and a line that begins in the tail has a later number than one
that does not, which the seek of a status line needs.
`KnownIsAccounted` follows each usage line that a scan must not miss: it has been
taken, is too old, or is ahead of the scan, in a project, a file or a line that is
still to come. `NewestIsReached` does so for the newest line of the tail: it is
not ahead of the first token, it is among those read once the reader has passed
it, and no line on the way to it stops the scanner. What else changes a file,
appending, finishing a line and time, is in one fact (`Kept`): no line moves, or
loses what it counts for or what was written of it. `KnownUsageIsCounted` and
`ContextIsNewest` follow.
`Min` and `Max` of the community modules are a CHOOSE; that they are attained is
proved from the well-foundedness of `<` on the naturals (`LeastExists`).

**Model-checked only.** Liveness that counts: `EndedIsEvicted`,
`EndedIsUnlisted`, `QueuedActivityIsListed`, `DeadIsForgotten` and `ApiWins` rest
on a TTL that runs down, a place in a queue or a number of polls, hence on an
induction over temporal formulas, which none of the provers can do. Every safety
property that a passing run checks is proved.

## 6. Where code and comments disagree

Shown by a run:

* `finding_hook_pid`: `session-start.sh:49` publishes `$$`, the pid of the
  hook's own shell. By the time the ticker probes it that process is gone, and
  the refresh that `bridge.go:189-192` describes never keeps a session.
  `RunningIsNotEvicted` is violated by a session that is merely idle.
* `finding_lock`: `Acquire` checks, then writes and renames. Two processes that
  check together both acquire; `main.go:115` says this prevents it.
* `finding_unrelated`: `.mcp.json` is decoded into structs that know `command`,
  `args` and `env` only. A server that is a URL comes back without it, on
  install and on uninstall. Likewise a user's hook in the matcher group of
  claude-mesh goes with the group. `installer.go:167` and
  `integration_test.go:327` say unrelated entries stay.

Met while modelling, and visible in the modules:

* `store.go:72`: a push for a session without a hash only updates the global
  ring. The code also creates a minimal hash and registers the session
  (`activity.go:47-59`), and `PushActivity` does what the code does.
* `session.go:143`, `store.go:83`: members with score < cutoff are removed.
  ZREMRANGEBYSCORE is inclusive (`SweepExpired`).
* `activity.go:71`, `conflict.go:47`: the rings are newest first. They are in
  the order in which workers push.
* `bridge.go:307-309`: the cwd of an activity is used only if the hash is
  absent. An open handled between the EXISTS and the pipeline of a push has its
  cwd overwritten.
* `bridge.go:25`: an inactivity window. A late event lowers the score.
* `main.go:151-152`: the closure resubscribes on every reconnect. A callback
  that runs between the SUBACK and the store of the handler gives up
  (`subscriber.go:91-93`): `missed`.
* `subscriber.go:52-53`: the connected flag is reset by a connection-lost
  callback. None is set (`client.go:44-61`), so `status` reports connected for
  as long as the daemon runs.
* `session-start.sh:48`, `bridge.go:102`: the hooks publish `hostname -s` and
  the daemon compares with `os.Hostname`. Where these differ (`Here # Local`) no
  session is ever refreshed, and `ProbeableSurvives` is violated.
* `session.go:107`, `status.go:53-58`: a hash whose HGETALL fails is skipped like
  one that has expired; only a failed ZRANGE makes an answer "degraded".
* `mcp/server.go:47`: "Relative or absolute file path". `Conflicts` compares the
  two spellings as they are.
* `lock.go:24`, `lock.go:30`: held means that another live process owns the lock, and
  a dead pid is stale. The probe finds any process with that pid: a program that has
  got it since, or the relaunched daemon itself if it has got its predecessor's.
  `Acquire` then answers `ErrAlreadyHeld`, and no daemon runs (`NamesLive`,
  `ProbeHeld`).
* `installer.go:160-166`: uninstall removes the entry from `.mcp.json`. The file is
  that of the git root of its own directory (`installer.go:58`, 78-89). Run from
  another directory it leaves the entry and says "uninstalled".
* `installer.go:169-174`, `launchd.go:95-96`: an uninstall unloads the agent. That
  `launchctl unload` fails is dropped; the agent goes on without its plist, and a
  second uninstall, which would unload by that plist, cannot stop it (`Unload`).
* `statusline.go:76`: zero PlanUsage if any key is missing. Only without a
  percentage; tokens, plan and source are best-effort (lines 90-93). After a change
  to the API the tokens of the last local poll are still read for up to 120 seconds.
* `contextusage/parser.go:65`: the last maxLines lines. They are the last
  of the last 16 KB, a piece of a line at the front is counted as one, and the
  reading ends at a line that is too long.
* `statusline.go:186`: the newest usable line may be a "Context low" message,
  which has a percentage and no tokens, and a count of 0 hides the part.
* `usagestats/parser.go:117-129`: one line that is longer than the buffer costs
  its whole file, also the lines before it (`FileFails`).
* `usagestats/buckets.go:14` speaks of output tokens, which are not summed.
* `installer.go:61`: install run from the installed copy truncates the binaries
  it copies onto themselves, and then fails at the first hook (`CopyOpen`).
* `statusline.go:203`: local percentages are marked. Not if the GET of the
  source fails, or if another host's poll lands between the GETs.
* `installer.go:99-151`: an event with a user's hook whose text has
  `claude-mesh-` in it gets no hook of the installer's, which reports success.

## 7. Not modelled

* Formatting: what the status line, `status` and the MCP server print, and the
  percentages and limits of `usagestats/limits.go` and `contextusage`, which are
  tables and arithmetic on one value.
* Parsing of arguments, of stdin by the hooks and of JSON beyond what decides
  (`main.go`, `hooks/*.sh`, `internal/events`).
* `anthropicapi`: the Python subprocess and its HTTP request are one step whose
  outcome is arbitrary; the client has no state.
* Clocks of different hosts that disagree: an event from the future would lower
  no age below 0 and would count as new.
* The other top-level keys of `.mcp.json` and the `.bak` files, see 2.8.
* `liveness_windows.go`, where every process is alive.
* `config`, `logging`, `publisher.go` of `internal/mqtt` (called by no command).

## 8. What could come next

1. Timestamps from a host whose clock is ahead: `Age` would go below 0 by a
   bounded skew, and `ReportedWasVouchedFor` and `EvictionNeedsSilence` would lose as much.
2. A refinement of the lock by one with `O_EXCL` or `flock`, should the code
   adopt one: `AtMostOneDaemon` would be its abstract specification.
