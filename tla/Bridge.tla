------------------------------- MODULE Bridge -------------------------------
(***************************************************************************)
(* The daemon (internal/bridge, main.go runBridge) between the broker and  *)
(* the store: the subscribe callback puts messages on a bounded channel,   *)
(* worker goroutines turn each into calls of the store, and the ticker     *)
(* refreshes the sessions whose process is alive and sweeps the rest.      *)
(* Every Redis round trip is a step of its own, so the workers, the ticker *)
(* and Redis' expiry interleave wherever the goroutines can.               *)
(*                                                                         *)
(* Around it: Claude processes that start, publish and exit; a network     *)
(* that holds published messages in no order, since every hook publishes   *)
(* from a process and a connection of its own; and the faults the constant *)
(* Faults allows.                                                          *)
(***************************************************************************)
EXTENDS SessionStore, FiniteSets

CONSTANTS
  Workers,      \* workerCount goroutines
  ChanCap,      \* chanCap
  SweepTTL,     \* Bridge.sessionTTL
  Local,        \* Bridge.hostname: the daemon's host, as os.Hostname spells it
  Here,         \* the same host, as its hooks spell it (hostname -s)
  Lives,        \* bound: how many claude processes a session has, one after another
  HookPid,      \* the pid of the hook's shell, which exits once it has published
  PidSource,    \* whose pid a session-open carries: "claude" or "hook"
  Kinds,        \* the kinds of event that are published, a subset of AllKinds
  Faults,       \* the faults that may happen, a subset of AllFaults
  MaxLag,       \* bound: how old a message in flight or a ticker pass may get
  MaxInFlight,  \* bound: messages published and not yet handled
  None          \* no message

AllKinds == {"open", "activity", "close", "other"}
AllFaults == {"worker", "ticker", "stop", "lose", "redeliver", "reuse"}

ASSUME BridgeAssumption ==
  /\ ChanCap \in Nat \ {0} /\ SweepTTL \in Nat \ {0}
  /\ SweepTTL <= AgeCap
  /\ MaxLag \in Nat /\ MaxInFlight \in Nat
  /\ Local \in Hosts /\ Here \in Hosts
  /\ Lives \in Nat /\ 1 .. Lives \subseteq Pids
  /\ HookPid \in Pids \ (1 .. Lives) /\ Unset \notin Pids /\ PidSource \in {"claude", "hook"}
  /\ Kinds \subseteq AllKinds /\ Faults \subseteq AllFaults

VARIABLES
  home,     \* the host each session runs on
  life,     \* each session's claude processes so far; the last one's pid
  running,  \* the sessions whose claude process is running
  strangers, \* the pids that other processes of the daemon's host have now
  net,      \* messages published and not yet received
  phase,    \* the daemon: "up" or "down"
  chan,     \* the channel of envelopes
  worker,   \* each worker's program counter, message and EXISTS answer
  ticker    \* the ticker's program counter and what it has read

bridgeVars == <<home, life, running, strangers, net, phase, chan, worker, ticker>>
vars == <<storeVars, bridgeVars>>

Message ==
  [kind : {"open"}, sid : Sids, age : Age, cwd : Cwds, pid : Pids]
  \cup [kind : {"activity"}, sid : Sids, age : Age, cwd : Cwds, pid : {Unset}]
  \cup [kind : {"close", "other"}, sid : Sids, age : Age, cwd : {Unset}, pid : {Unset}]

Idle == [pc |-> "idle", msg |-> None, existed |-> FALSE]
Waiting == [pc |-> "wait", members |-> {}, views |-> {}, now |-> 0, pass |-> 0]

\* A worker between two messages and the ticker between two passes.
Busy == {w \in Workers : worker[w].pc # "idle"}
InPass == ticker.pc # "wait"

InFlight ==
  net \cup {chan[i] : i \in 1 .. Len(chan)} \cup {worker[w].msg : w \in Busy}
Load == Cardinality(net) + Len(chan) + Cardinality(Busy)

Init ==
  /\ StoreInit
  /\ home \in [Sids -> Hosts]
  /\ life = [s \in Sids |-> 0]
  /\ running = {}
  /\ strangers = {}
  /\ net = {}
  /\ phase = "up"
  /\ chan = <<>>
  /\ worker = [w \in Workers |-> Idle]
  /\ ticker = Waiting

-----------------------------------------------------------------------------
(* Claude processes and their hooks.                                       *)

\* The process table of the daemon's host: a claude or a stranger has the pid.
\* A hook's shell has exited by the time anyone asks.
Taken(pid) ==
  pid \in strangers \/ \E s \in running : home[s] = Here /\ life[s] = pid

\* A claude process starts, or a session that ended is resumed; its pid is free.
Start(s) ==
  /\ s \notin running /\ life[s] < Lives
  /\ home[s] = Here => ~Taken(life[s] + 1)
  /\ life' = [life EXCEPT ![s] = @ + 1]
  /\ running' = running \cup {s}
  /\ UNCHANGED <<storeVars, home, strangers, net, phase, chan, worker, ticker>>

Exit(s) ==
  /\ s \in running
  /\ running' = running \ {s}
  /\ UNCHANGED <<storeVars, home, life, strangers, net, phase, chan, worker, ticker>>

\* Some other process of the daemon's host gets a pid that no claude has, or
\* exits.
Reuse(pid) ==
  /\ "reuse" \in Faults
  /\ pid \in strangers \/ ~Taken(pid)
  /\ strangers' = IF pid \in strangers THEN strangers \ {pid} ELSE strangers \cup {pid}
  /\ UNCHANGED <<storeVars, home, life, running, net, phase, chan, worker, ticker>>

\* The hook stamps the event and hands it to `publish'.
Publish(m) ==
  /\ m.kind \in Kinds
  /\ Load < MaxInFlight
  /\ m \notin net
  /\ net' = net \cup {m}
  /\ UNCHANGED <<storeVars, home, life, running, strangers, phase, chan, worker, ticker>>

\* session-start.sh: startup, resume, clear and compact all fire it.  It stamps the
\* event with its own clock (line 50), and so does pre-tool-use.sh.
PublishOpen(s, cwd) ==
  LET pid == IF PidSource = "hook" THEN HookPid ELSE life[s] IN
  /\ s \in running
  /\ Publish([kind |-> "open", sid |-> s, age |-> 0, cwd |-> cwd, pid |-> pid])

\* pre-tool-use.sh, or mesh_announce, whose event carries no cwd.
PublishActivity(s, cwd) ==
  /\ s \in running
  /\ Publish([kind |-> "activity", sid |-> s, age |-> 0, cwd |-> cwd, pid |-> Unset])

\* `publish session-close', by hand: no hook calls it (stop.sh publishes nothing).
PublishClose(s) ==
  /\ life[s] > 0
  /\ Publish([kind |-> "close", sid |-> s, age |-> 0, cwd |-> Unset, pid |-> Unset])

\* Another event type, or a payload that is not JSON.
PublishOther(s) ==
  /\ s \in running
  /\ Publish([kind |-> "other", sid |-> s, age |-> 0, cwd |-> Unset, pid |-> Unset])

-----------------------------------------------------------------------------
(* The broker and the subscribe callback.                                  *)

ReceiveAlways(m) ==   \* bug: the channel has no bound
  chan' = Append(chan, m)

\* The callback never blocks: a message that finds the channel full is gone.
Receive(m) ==
  chan' = IF Len(chan) < ChanCap THEN Append(chan, m) ELSE chan

Deliver(m) ==
  /\ phase = "up"
  /\ m \in net
  /\ net' = net \ {m}
  /\ Receive(m)
  /\ UNCHANGED <<storeVars, home, life, running, strangers, phase, worker, ticker>>

\* QoS 1: the acknowledgement is lost and the broker will send m again.
Redeliver(m) ==
  /\ "redeliver" \in Faults
  /\ phase = "up"
  /\ m \in net
  /\ Receive(m)
  /\ UNCHANGED <<storeVars, home, life, running, strangers, net, phase, worker, ticker>>

\* The hook's timeout kills `publish', or nobody is subscribed.
Lose(m) ==
  /\ "lose" \in Faults
  /\ m \in net
  /\ net' = net \ {m}
  /\ UNCHANGED <<storeVars, home, life, running, strangers, phase, chan, worker, ticker>>

-----------------------------------------------------------------------------
(* The workers: handle, one Redis round trip at a time.                    *)

WorkerTake(w) ==
  /\ worker[w].pc = "idle"
  /\ chan # <<>>
  /\ chan' = Tail(chan)
  /\ worker' = [worker EXCEPT ![w] =
                  [pc |-> "handle", msg |-> Head(chan), existed |-> FALSE]]
  /\ UNCHANGED <<storeVars, home, life, running, strangers, net, phase, ticker>>

Handles(w, kind) == worker[w].pc = "handle" /\ worker[w].msg.kind = kind

WorkerDone(w) ==
  /\ worker' = [worker EXCEPT ![w] = Idle]
  /\ UNCHANGED <<home, life, running, strangers, net, phase, chan, ticker>>

\* The store call that a worker makes next, other than the EXISTS.
CallOpen(w) ==
  LET m == worker[w].msg IN
  Handles(w, "open") /\ OpenSession(m.sid, m.age, m.cwd, home[m.sid], m.pid)

CallClose(w) == Handles(w, "close") /\ CloseSession(worker[w].msg.sid)

CallPush(w) ==
  LET m == worker[w].msg IN
  worker[w].pc = "push" /\ PushActivity(m.sid, m.age, m.cwd, worker[w].existed)

CallTouch(w) ==
  LET m == worker[w].msg IN
  worker[w].pc = "touch" /\ TouchOrCreateSession(m.sid, m.age, m.cwd)

WorkerOpen(w) == CallOpen(w) /\ WorkerDone(w)

WorkerClose(w) == CallClose(w) /\ WorkerDone(w)

WorkerIgnore(w) ==
  /\ Handles(w, "other")
  /\ WorkerDone(w)
  /\ UNCHANGED storeVars

WorkerExistsDrops(w) ==   \* bug: an activity of an unknown session is ignored
  /\ Handles(w, "activity")
  /\ worker' = IF HashExists(worker[w].msg.sid)
               THEN [worker EXCEPT ![w].pc = "push", ![w].existed = TRUE]
               ELSE [worker EXCEPT ![w] = Idle]
  /\ UNCHANGED <<storeVars, home, life, running, strangers, net, phase, chan, ticker>>

\* PushActivity, first round trip.
WorkerExists(w) ==
  /\ Handles(w, "activity")
  /\ worker' = [worker EXCEPT ![w].pc = "push",
                              ![w].existed = HashExists(worker[w].msg.sid)]
  /\ UNCHANGED <<storeVars, home, life, running, strangers, net, phase, chan, ticker>>

\* PushActivity, second round trip: it acts on the answer to the first.
WorkerPush(w) ==
  /\ CallPush(w)
  /\ worker' = [worker EXCEPT ![w].pc = "touch", ![w].existed = FALSE]
  /\ UNCHANGED <<home, life, running, strangers, net, phase, chan, ticker>>

WorkerTouch(w) == CallTouch(w) /\ WorkerDone(w)

\* A store call fails: handle logs it and is done with the message.
WorkerError(w) ==
  /\ "worker" \in Faults
  /\ worker[w].pc # "idle"
  /\ WorkerDone(w)
  /\ UNCHANGED storeVars

\* Redis serves a call and its reply is lost: the client sends the call again,
\* or gives up and handle is done with the message.
WorkerNoReply(w) ==
  /\ "worker" \in Faults
  /\ CallOpen(w) \/ CallClose(w) \/ CallPush(w) \/ CallTouch(w)
  /\ \/ UNCHANGED bridgeVars
     \/ WorkerDone(w)

WorkerStep(w) ==
  \/ WorkerOpen(w) \/ WorkerClose(w) \/ WorkerIgnore(w)
  \/ WorkerExists(w) \/ WorkerPush(w) \/ WorkerTouch(w)

-----------------------------------------------------------------------------
(* The ticker: refreshLiveSessions, then the sweep.  (The health record it *)
(* writes last shares no state with the sessions.)                         *)

TickerTo(r) ==
  /\ ticker' = r
  /\ UNCHANGED <<home, life, running, strangers, net, phase, chan, worker>>

\* ListActiveSessions, the ZRANGE.
TickerRange ==
  /\ ticker.pc = "wait"
  /\ phase = "up"
  /\ TickerTo([ticker EXCEPT !.pc = "list", !.members = {s \in Sids : Active(s)}])
  /\ UNCHANGED storeVars

TickerGetAnyHost(s) ==   \* bug: no check of the host
  LET views == IF HashExists(s)
               THEN ticker.views \cup {[sid |-> s, pid |-> hash[s].pid]}
               ELSE ticker.views
  IN
  /\ ticker.pc = "list"
  /\ s \in ticker.members
  /\ TickerTo([ticker EXCEPT !.members = @ \ {s}, !.views = views])
  /\ UNCHANGED storeVars

\* ListActiveSessions, one HGETALL: the hash may be gone by now.  Of the view,
\* refreshLiveSessions uses the pid, and drops the sessions of other hosts.
TickerGet(s) ==
  LET views == IF HashExists(s) /\ hash[s].host = Local
               THEN ticker.views \cup {[sid |-> s, pid |-> hash[s].pid]}
               ELSE ticker.views
  IN
  /\ ticker.pc = "list"
  /\ s \in ticker.members
  /\ TickerTo([ticker EXCEPT !.members = @ \ {s}, !.views = views])
  /\ UNCHANGED storeVars

\* nowMs is read once, when the whole list is there.
TickerNow ==
  /\ ticker.pc = "list"
  /\ ticker.members = {}
  /\ TickerTo([ticker EXCEPT !.pc = "touch", !.now = 0])
  /\ UNCHANGED storeVars

\* isProcessAlive: kill -0; without a pid in the hash there is nothing to ask.
PidAlive(pid) == pid # Unset /\ Taken(pid)

TickerTouch(v) ==
  /\ ticker.pc = "touch"
  /\ v \in ticker.views
  /\ IF PidAlive(v.pid) THEN TouchSession(v.sid, ticker.now)
                               ELSE UNCHANGED storeVars
  /\ TickerTo([ticker EXCEPT !.views = @ \ {v}])

\* A round trip of the refresh fails: the ZRANGE (nothing is refreshed), a
\* HGETALL or a touch (that session is skipped).
TickerError ==
  /\ "ticker" \in Faults
  /\ \/ ticker.pc = "list" /\ \E s \in ticker.members :
          TickerTo([ticker EXCEPT !.members = @ \ {s}])
     \/ ticker.pc = "touch" /\ \E v \in ticker.views :
          TickerTo([ticker EXCEPT !.views = @ \ {v}])
     \/ ticker.pc = "wait" /\ phase = "up" /\ TickerTo([ticker EXCEPT !.pc = "touch"])
  /\ UNCHANGED storeVars

TickerSweepEarly ==   \* bug: the sweep does not wait for the refresh
  /\ ticker.pc = "touch"
  /\ \/ SweepExpired(SweepTTL)
     \/ "ticker" \in Faults /\ UNCHANGED storeVars
  /\ TickerTo(Waiting)

SweepServed ==
  /\ ticker.pc = "touch"
  /\ ticker.views = {}
  /\ SweepExpired(SweepTTL)
  /\ TickerTo(Waiting)

SweepFails ==
  /\ "ticker" \in Faults
  /\ ticker.pc = "touch"
  /\ ticker.views = {}
  /\ TickerTo(Waiting)
  /\ UNCHANGED storeVars

TickerSweep == SweepServed \/ SweepFails

TickerStep ==
  \/ TickerRange \/ TickerNow \/ TickerSweep
  \/ \E s \in Sids : TickerGet(s)
  \/ \E v \in ticker.views : TickerTouch(v)

-----------------------------------------------------------------------------
(* The daemon stops and starts.                                            *)

\* SIGTERM or a crash: what the channel and the workers hold is gone.
Stop ==
  /\ "stop" \in Faults
  /\ phase = "up"
  /\ phase' = "down"
  /\ chan' = <<>>
  /\ worker' = [w \in Workers |-> Idle]
  /\ ticker' = Waiting
  /\ UNCHANGED <<storeVars, home, life, running, strangers, net>>

\* launchd starts it again; it rehydrates the members before it subscribes, and
\* subscribes even if that fails.
Boot ==
  /\ phase = "down"
  /\ phase' = "up"
  /\ \/ TouchActiveSessions({s \in Sids : Active(s)}, 0)
     \/ "ticker" \in Faults /\ UNCHANGED storeVars
  /\ UNCHANGED <<home, life, running, strangers, net, chan, worker, ticker>>

-----------------------------------------------------------------------------
(* Time passes for the store, for the messages in flight, for a pass of    *)
(* the ticker and the nowMs it carries.  A message is handled, and a pass  *)
(* is over, before it is older than MaxLag.                                *)

OlderMessage(m) == [m EXCEPT !.age = Older(@)]

Timely == (\A m \in InFlight : m.age < MaxLag) /\ ticker.pass < MaxLag

Tick ==
  /\ Timely
  /\ Elapse
  /\ net' = {OlderMessage(m) : m \in net}
  /\ chan' = [i \in 1 .. Len(chan) |-> OlderMessage(chan[i])]
  /\ worker' = [w \in Workers |->
       IF w \in Busy THEN [worker[w] EXCEPT !.msg = OlderMessage(@)] ELSE worker[w]]
  /\ ticker' = CASE ticker.pc = "wait" -> ticker
                 [] ticker.pc = "list" -> [ticker EXCEPT !.pass = Older(@)]
                 [] ticker.pc = "touch" -> [ticker EXCEPT !.pass = Older(@), !.now = Older(@)]
  /\ UNCHANGED <<home, life, running, strangers, phase>>

Sessions ==
  \/ \E s \in Sids :
       \/ Start(s) \/ Exit(s) \/ PublishClose(s) \/ PublishOther(s)
       \/ \E c \in Cwds : PublishActivity(s, c) \/ PublishOpen(s, c)
  \/ \E pid \in 1 .. Lives : Reuse(pid)

Network == \E m \in net : Deliver(m) \/ Redeliver(m) \/ Lose(m)

NextUntimed ==
  \/ Sessions \/ Network
  \/ \E w \in Workers : WorkerTake(w) \/ WorkerStep(w) \/ WorkerError(w) \/ WorkerNoReply(w)
  \/ TickerStep \/ TickerError
  \/ Stop \/ Boot

Next == NextUntimed \/ Tick

Spec == Init /\ [][Next]_vars

-----------------------------------------------------------------------------
(* Fairness.  The goroutines are scheduled, the broker retries a QoS 1     *)
(* message until it is acknowledged (or its publisher gives up), launchd   *)
(* (KeepAlive) starts the daemon again, Redis does not fail every sweep    *)
(* from some time on, and time does not stop: it may be held up by late    *)
(* messages for a while, never for good.                                   *)

Fairness ==
  /\ \A w \in Workers : WF_vars(WorkerTake(w)) /\ WF_vars(WorkerStep(w))
  /\ WF_vars(TickerStep) /\ SF_vars(SweepServed)
  /\ SF_vars(\E m \in net : m.age >= MaxLag /\ (Deliver(m) \/ Lose(m)))
  /\ WF_vars(Boot)
  /\ SF_vars(Tick)

FairSpec == Spec /\ Fairness

-----------------------------------------------------------------------------
(* Properties.                                                             *)

\* Every variable of the daemon has its type (bridge.go:55-59, 128-209).
BridgeTypeOK ==
  /\ home \in [Sids -> Hosts] /\ strangers \subseteq 1 .. Lives
  /\ life \in [Sids -> 0 .. Lives] /\ running \subseteq {s \in Sids : life[s] > 0}
  /\ net \subseteq Message
  /\ phase \in {"up", "down"}
  /\ chan \in Seq(Message) /\ Len(chan) <= ChanCap
  /\ worker \in [Workers ->
       [pc : {"idle", "handle", "push", "touch"}, msg : Message \cup {None},
        existed : BOOLEAN]]
  /\ \A w \in Busy :
       /\ worker[w].msg \in Message
       /\ worker[w].pc # "handle" => worker[w].msg.kind = "activity"
  /\ ticker \in [pc : {"wait", "list", "touch"}, members : SUBSET Sids,
                 views : SUBSET [sid : Sids, pid : Pids \cup {Unset}], now : Age, pass : Age]

\* The sweep is happening in this step, and s is what it evicts.
Evicts(s) ==
  /\ ticker.pc = "touch" /\ ticker' = Waiting /\ phase' = "up"
  /\ Active(s) /\ zset'[s] = Absent

\* A session the daemon can probe: its claude process runs on the daemon's host
\* and its hash has the pid of that process.
Probeable(s) == home[s] = Here /\ s \in running /\ hash[s].pid = life[s]

\* The sweep never evicts a session it could have probed as alive, whatever
\* the workers and Redis' expiry do between the listing, the touches and the
\* sweep of the same pass (bridge.go:189-207), as long as a message and a pass
\* together take less than SweepTTL, Redis answers, and the hooks and the daemon
\* spell the host alike (session-start.sh:48, bridge.go:102).
ProbeableSurvives ==
  [][\A s \in Sids : Evicts(s) => ~(HashExists(s) /\ Probeable(s))]_vars

\* No process of the session is left, nor one that has taken its pid on the
\* daemon's host.
Over(s) ==
  /\ s \notin running
  /\ home[s] = Here => \A pid \in 1 .. life[s] : ~Taken(pid)

\* A session whose claude process is gone for good disappears from listings,
\* even if the daemon keeps crashing and every boot resets the scores: what
\* hides it then is its hash's TTL (session.go:97-141, main.go:200-207).
EndedIsUnlisted ==
  \A s \in Sids : <>[]Over(s) => <>[]~Listed(s)

\* And once the daemon stays up its sorted-set entry goes too: neither the
\* refresh, which goes by pid and host (bridge.go:229-242), nor a late message
\* keeps it (bridge.go:199-205), nor a process that has its pid on another host
\* than its own, or had it here for a while (liveness_unix.go:31).
EndedIsEvicted ==
  \A s \in Sids :
    <>[]Over(s) /\ <>[](phase = "up") => <>[]~Active(s)

\* An activity that reached the channel is not stranded there: its session is
\* listed sooner or later, though its hash expired or was closed meanwhile,
\* unless the daemon goes down first (bridge.go:164-177, 305-312).
QueuedActivityIsListed ==
  \A s \in Sids :
    (phase = "up" /\ \E i \in 1 .. Len(chan) :
        chan[i].sid = s /\ chan[i].kind = "activity")
      ~> (Listed(s) \/ phase = "down")

\* RecentActivity promises "newest first" (store.go:75, activity.go:71) and
\* conflict.go:47 relies on it.  The rings are in the order of the pushes, and two
\* workers push as they are scheduled; still no entry is ahead of one that is
\* younger by more than the lag of one message.
RingNewestFirstUpToLag ==
  \A i, j \in 1 .. Len(global.items) :
    i < j => global.items[i].age <= global.items[j].age + MaxLag

-----------------------------------------------------------------------------
(* What a comment of the code says and the code does not do: a run shows   *)
(* the steps that contradict it.                                           *)

\* bridge.go:189-192, the refresh "prevents idle sessions [...] from being
\* evicted while their claude process is still alive", and bridge.go:25-29: a
\* session whose opening was recorded is not evicted while its claude process
\* runs on this host.
RunningIsNotEvicted ==
  [][\A s \in Sids :
       Evicts(s) /\ home[s] = Here /\ hash[s].host # Unset => s \notin running]_vars

=============================================================================
