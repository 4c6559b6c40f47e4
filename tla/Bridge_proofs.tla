----------------------------- MODULE Bridge_proofs -----------------------------
(***************************************************************************)
(* Theorems about Bridge, for any number of sessions and workers, any      *)
(* capacity of the channel, any lag and any set of faults.  The daemon     *)
(* implements the store: each of its steps is a call of one method of the  *)
(* store, or Redis' own step, or leaves the store alone.  So the theorems  *)
(* of SessionStore_proofs are theorems about the daemon.  Then what needs  *)
(* the lag of messages: the order of the global ring, that no sweep evicts *)
(* what its pass could have probed as alive, and that an eviction follows  *)
(* a silence (BridgeSilence, the same behaviours with a history).          *)
(***************************************************************************)
EXTENDS BridgeSilence, SessionStore_proofs

-----------------------------------------------------------------------------
(* Messages and the channel.                                               *)

\* The daemon's part of the type, without the messages' origin.
BridgeInv == StoreInv /\ BridgeTypeOK

\* What the type of a message says of its fields.
LEMMA MessageFields ==
  ASSUME NEW m \in Message
  PROVE  /\ m.sid \in Sids /\ m.age \in Age
         /\ m.kind \in AllKinds
         /\ m.kind = "open" => m.cwd \in Cwds /\ m.pid \in Pids
         /\ m.kind = "activity" => m.cwd \in Cwds
BY DEF Message, AllKinds

\* A message that gets older is still a message, of the same kind.
LEMMA OlderMessageFact ==
  ASSUME NEW m \in Message
  PROVE  /\ OlderMessage(m) \in Message
         /\ OlderMessage(m).kind = m.kind
         /\ OlderMessage(m).age = Older(m.age)
<1>1. m.age \in Age /\ Older(m.age) \in Age
  BY MessageFields, OlderFact
<1>2. OlderMessage(m) = [m EXCEPT !.age = Older(m.age)]
  BY DEF OlderMessage
<1>3. CASE m \in [kind : {"open"}, sid : Sids, age : Age, cwd : Cwds, pid : Pids]
  BY <1>1, <1>2, <1>3 DEF Message
<1>4. CASE m \in [kind : {"activity"}, sid : Sids, age : Age, cwd : Cwds, pid : {Unset}]
  BY <1>1, <1>2, <1>4 DEF Message
<1>5. CASE m \in [kind : {"close", "other"}, sid : Sids, age : Age, cwd : {Unset}, pid : {Unset}]
  BY <1>1, <1>2, <1>5 DEF Message
<1> QED  BY <1>3, <1>4, <1>5 DEF Message

\* The callback appends the message it gets, or nothing (bridge.go:136-142).
LEMMA ReceiveFact ==
  ASSUME chan \in Seq(Message), Len(chan) <= ChanCap, NEW m \in Message, Receive(m)
  PROVE  /\ chan' \in Seq(Message) /\ Len(chan') <= ChanCap
         /\ \A i \in 1 .. Len(chan') : chan'[i] = m \/ \E j \in 1 .. Len(chan) : chan'[i] = chan[j]
<1>1. ChanCap \in Nat /\ Len(chan) \in Nat
  BY BridgeAssumption
<1>2. CASE Len(chan) < ChanCap
  <2>1. chan' = Append(chan, m)
    BY <1>2 DEF Receive
  <2>2. chan' \in Seq(Message) /\ Len(chan') = Len(chan) + 1
    BY <2>1
  <2>3. \A i \in 1 .. Len(chan') : chan'[i] = IF i = Len(chan) + 1 THEN m ELSE chan[i]
    BY <2>1, <2>2
  <2>4. Len(chan') <= ChanCap
    BY <1>1, <1>2, <2>2
  <2>5. ASSUME NEW i \in 1 .. Len(chan'), chan'[i] # m
        PROVE  \E j \in 1 .. Len(chan) : chan'[i] = chan[j]
    <3>1. i # Len(chan) + 1 /\ i \in 1 .. Len(chan) + 1
      BY <2>2, <2>3, <2>5
    <3>2. i \in 1 .. Len(chan)
      BY <1>1, <3>1
    <3> QED  BY <2>3, <3>1, <3>2
  <2> QED  BY <2>2, <2>4, <2>5
<1>3. CASE ~(Len(chan) < ChanCap)
  BY <1>3 DEF Receive
<1> QED  BY <1>2, <1>3

-----------------------------------------------------------------------------
(* The type, grouped by what a step changes.                               *)

ClaudeOK ==
  /\ home \in [Sids -> Hosts] /\ strangers \subseteq 1 .. Lives
  /\ life \in [Sids -> 0 .. Lives] /\ running \subseteq {s \in Sids : life[s] > 0}
NetOK == net \subseteq Message
ChanOK == chan \in Seq(Message) /\ Len(chan) <= ChanCap

\* The states a worker can be in.
WorkerState ==
  [pc : {"idle", "handle", "push", "touch"}, msg : Message \cup {None}, existed : BOOLEAN]
StateOK(q) ==
  /\ q \in WorkerState
  /\ q.pc # "idle" => q.msg \in Message
  /\ q.pc \in {"push", "touch"} => q.msg.kind = "activity"

WorkersOK == worker \in [Workers -> WorkerState] /\ \A w \in Workers : StateOK(worker[w])

TickerState ==
  [pc : {"wait", "list", "touch"}, members : SUBSET Sids,
   views : SUBSET [sid : Sids, pid : Pids \cup {Unset}], now : Age, pass : Age]
TickerOK == ticker \in TickerState

\* The type is the conjunction of the groups.
LEMMA TypeParts ==
  BridgeTypeOK <=>
    ClaudeOK /\ NetOK /\ ChanOK /\ WorkersOK /\ TickerOK /\ phase \in {"up", "down"}
<1>1. ASSUME worker \in [Workers -> WorkerState]
      PROVE  (\A w \in Workers : StateOK(worker[w])) <=>
               \A w \in Busy :
                 /\ worker[w].msg \in Message
                 /\ worker[w].pc # "handle" => worker[w].msg.kind = "activity"
  BY <1>1 DEF Busy, StateOK, WorkerState
<1> QED
  BY <1>1 DEF BridgeTypeOK, ClaudeOK, NetOK, ChanOK, WorkersOK, TickerOK, WorkerState, TickerState

\* The same, one step later.
LEMMA TypePartsNext ==
  ClaudeOK' /\ NetOK' /\ ChanOK' /\ WorkersOK' /\ TickerOK' /\ (phase \in {"up", "down"})'
    => BridgeTypeOK'
<1>1. ASSUME (worker \in [Workers -> WorkerState])'
      PROVE  (\A w \in Workers : StateOK(worker[w]))' =>
               (\A w \in Busy :
                 /\ worker[w].msg \in Message
                 /\ worker[w].pc # "handle" => worker[w].msg.kind = "activity")'
  BY <1>1 DEF Busy, StateOK, WorkerState
<1> QED
  BY <1>1 DEF BridgeTypeOK, ClaudeOK, NetOK, ChanOK, WorkersOK, TickerOK, WorkerState, TickerState

\* One worker goes to another state.
LEMMA OneWorker ==
  ASSUME WorkersOK, NEW w \in Workers, NEW q, StateOK(q), worker' = [worker EXCEPT ![w] = q]
  PROVE  WorkersOK'
<1>1. \A v \in Workers : worker'[v] = IF v = w THEN q ELSE worker[v]
  BY DEF WorkersOK
<1>2. worker' \in [Workers -> WorkerState]
  BY DEF WorkersOK, StateOK
<1> QED  BY <1>1, <1>2 DEF WorkersOK

\* A worker without a message is in a good state.
LEMMA IdleOK == StateOK(Idle)
BY DEF Idle, StateOK, WorkerState

\* A worker that is done with its message is idle.
LEMMA DoneFact ==
  ASSUME WorkersOK, NEW w \in Workers, WorkerDone(w)
  PROVE  WorkersOK' /\ UNCHANGED <<home, life, running, strangers, net, phase, chan, ticker>>
BY OneWorker, IdleOK DEF WorkerDone

\* The message a busy worker has in hand.
LEMMA InHand ==
  ASSUME WorkersOK, NEW w \in Workers, worker[w].pc # "idle"
  PROVE  /\ worker[w].msg \in Message /\ worker[w].existed \in BOOLEAN
         /\ worker[w].pc \in {"push", "touch"} => worker[w].msg.kind = "activity"
BY DEF WorkersOK, StateOK, WorkerState

-----------------------------------------------------------------------------
(* Refinement: what each step does to the store.                           *)

\* The four calls a worker makes are calls of the store's methods.
LEMMA CallsAreMethods ==
  ASSUME ClaudeOK, WorkersOK, NEW w \in Workers,
         CallOpen(w) \/ CallClose(w) \/ CallPush(w) \/ CallTouch(w)
  PROVE  StoreNext
<1> DEFINE m == worker[w].msg
<1>1. CASE CallOpen(w)
  <2>1. m \in Message /\ m.kind = "open"
    BY <1>1, InHand DEF CallOpen, Handles
  <2>2. m.sid \in Sids /\ m.age \in Age /\ m.cwd \in Cwds /\ m.pid \in Pids
    BY <2>1, MessageFields
  <2>3. home[m.sid] \in Hosts
    BY <2>2 DEF ClaudeOK
  <2> QED  BY <1>1, <2>2, <2>3 DEF CallOpen, StoreNext
<1>2. CASE CallClose(w)
  <2>1. m \in Message
    BY <1>2, InHand DEF CallClose, Handles
  <2> QED  BY <1>2, <2>1, MessageFields DEF CallClose, StoreNext
<1>3. CASE CallPush(w)
  <2>1. m \in Message /\ m.kind = "activity" /\ worker[w].existed \in BOOLEAN
    BY <1>3, InHand DEF CallPush
  <2>2. m.sid \in Sids /\ m.age \in Age /\ m.cwd \in Cwds
    BY <2>1, MessageFields
  <2> QED  BY <1>3, <2>1, <2>2 DEF CallPush, StoreNext
<1>4. CASE CallTouch(w)
  <2>1. m \in Message /\ m.kind = "activity"
    BY <1>4, InHand DEF CallTouch
  <2>2. m.sid \in Sids /\ m.age \in Age /\ m.cwd \in Cwds
    BY <2>1, MessageFields
  <2> QED  BY <1>4, <2>2 DEF CallTouch, StoreNext
<1> QED  BY <1>1, <1>2, <1>3, <1>4

\* A worker calls a method, or leaves the store alone.
LEMMA WorkerImplements ==
  ASSUME ClaudeOK, WorkersOK, NEW w \in Workers,
         WorkerTake(w) \/ WorkerStep(w) \/ WorkerError(w) \/ WorkerNoReply(w)
  PROVE  StoreNext \/ UNCHANGED storeVars
BY CallsAreMethods DEF WorkerTake, WorkerStep, WorkerError, WorkerNoReply, WorkerOpen,
   WorkerClose, WorkerIgnore, WorkerExists, WorkerPush, WorkerTouch

\* The ticker touches and sweeps (bridge.go:199-200, 236).
LEMMA TickerImplements ==
  ASSUME TickerOK, TickerStep \/ TickerError
  PROVE  StoreNext \/ UNCHANGED storeVars
<1>1. ASSUME NEW v \in ticker.views, TickerTouch(v)
      PROVE  StoreNext \/ UNCHANGED storeVars
  <2>1. v.sid \in Sids /\ ticker.now \in Age
    BY DEF TickerOK, TickerState
  <2> QED  BY <1>1, <2>1 DEF TickerTouch, StoreNext
<1>2. CASE SweepServed
  <2>1. SweepTTL \in Age
    BY BridgeAssumption, AgeCapAssumption DEF Age
  <2> QED  BY <1>2, <2>1 DEF SweepServed, StoreNext
<1>3. CASE TickerError \/ TickerRange \/ TickerNow \/ SweepFails \/ \E s \in Sids : TickerGet(s)
  BY <1>3 DEF TickerError, TickerRange, TickerNow, SweepFails, TickerGet
<1> QED  BY <1>1, <1>2, <1>3 DEF TickerStep, TickerSweep

\* Every step of the daemon and of what is around it is one of the store, or
\* none of the store's business.
LEMMA StepImplements ==
  ASSUME BridgeTypeOK, [Next]_vars
  PROVE  [StoreNext]_storeVars
<1>1. ClaudeOK /\ WorkersOK /\ TickerOK
  BY TypeParts
<1>2. CASE UNCHANGED vars
  BY <1>2 DEF vars
<1>3. CASE Sessions
  BY <1>3 DEF Sessions, Start, Exit, Reuse, PublishClose, PublishOther, PublishActivity, PublishOpen,
     Publish
<1>4. CASE Network
  BY <1>4 DEF Network, Deliver, Redeliver, Lose
<1>5. ASSUME NEW w \in Workers,
             WorkerTake(w) \/ WorkerStep(w) \/ WorkerError(w) \/ WorkerNoReply(w)
      PROVE  [StoreNext]_storeVars
  BY <1>1, <1>5, WorkerImplements
<1>6. CASE TickerStep \/ TickerError
  BY <1>1, <1>6, TickerImplements
<1>7. CASE Stop
  BY <1>7 DEF Stop
<1>8. CASE Boot
  <2>1. {s \in Sids : Active(s)} \in SUBSET Sids /\ 0 \in Age
    BY AgeCapAssumption DEF Age
  <2> QED  BY <1>8, <2>1 DEF Boot, StoreNext
<1>9. CASE Tick
  BY <1>9 DEF Tick, StoreNext
<1> QED  BY <1>2, <1>3, <1>4, <1>5, <1>6, <1>7, <1>8, <1>9 DEF Next, NextUntimed

-----------------------------------------------------------------------------
(* Type correctness, step by step.                                         *)

\* The sessions: a process that starts has a pid of its own.
LEMMA ClaudeStep ==
  ASSUME BridgeTypeOK, [Next]_vars
  PROVE  ClaudeOK'
<1>1. ClaudeOK /\ Lives \in Nat
  BY TypeParts, BridgeAssumption
<1>2. ASSUME NEW s \in Sids, Start(s)
      PROVE  ClaudeOK'
  <2>1. /\ life' = [life EXCEPT ![s] = life[s] + 1] /\ running' = running \cup {s}
        /\ life[s] < Lives
    BY <1>2 DEF Start
  <2>2. \A t \in Sids : life[t] \in 0 .. Lives
    BY <1>1 DEF ClaudeOK
  <2>3. life[s] + 1 \in 0 .. Lives /\ life[s] + 1 > 0
    BY <1>1, <2>1, <2>2
  <2>4. life' \in [Sids -> 0 .. Lives] /\ \A t \in Sids : life'[t] = IF t = s THEN life[s] + 1 ELSE life[t]
    BY <1>1, <2>1, <2>3 DEF ClaudeOK
  <2>5. \A t \in running' : t \in Sids /\ life'[t] > 0
    BY <1>1, <2>1, <2>3, <2>4 DEF ClaudeOK
  <2> QED  BY <1>1, <1>2, <2>4, <2>5 DEF ClaudeOK, Start
<1>3. ASSUME NEW s \in Sids, Exit(s)
      PROVE  ClaudeOK'
  BY <1>1, <1>3 DEF Exit, ClaudeOK
<1>a. ASSUME NEW pid \in 1 .. Lives, Reuse(pid)
      PROVE  ClaudeOK'
  BY <1>1, <1>a DEF Reuse, ClaudeOK
<1>4. CASE UNCHANGED <<home, life, running, strangers>>
  BY <1>1, <1>4 DEF ClaudeOK
<1>5. ASSUME NEW s \in Sids, \/ PublishClose(s) \/ PublishOther(s)
                             \/ \E c \in Cwds : PublishActivity(s, c) \/ PublishOpen(s, c)
      PROVE  UNCHANGED <<home, life, running, strangers>>
  BY <1>5 DEF PublishClose, PublishOther, PublishActivity, PublishOpen, Publish
<1>6. CASE Network
  BY <1>4, <1>6 DEF Network, Deliver, Redeliver, Lose
<1>7. ASSUME NEW w \in Workers,
             WorkerTake(w) \/ WorkerStep(w) \/ WorkerError(w) \/ WorkerNoReply(w)
      PROVE  UNCHANGED <<home, life, running, strangers>>
  BY <1>7 DEF WorkerTake, WorkerStep, WorkerError, WorkerNoReply, WorkerOpen, WorkerClose,
     WorkerIgnore, WorkerExists, WorkerPush, WorkerTouch, WorkerDone, bridgeVars
<1>8. CASE TickerStep \/ TickerError
  BY <1>4, <1>8 DEF TickerStep, TickerError, TickerRange, TickerGet, TickerNow, TickerTouch,
     TickerSweep, SweepServed, SweepFails, TickerTo
<1>9. CASE Stop \/ Boot \/ Tick \/ UNCHANGED vars
  BY <1>4, <1>9 DEF Stop, Boot, Tick, vars, bridgeVars
<1> QED
  BY <1>2, <1>3, <1>4, <1>5, <1>6, <1>7, <1>8, <1>9, <1>a DEF Next, NextUntimed, Sessions

\* What a hook publishes is a message.
LEMMA PublishedFact ==
  ASSUME ClaudeOK, NEW s \in Sids, NEW c \in Cwds
  PROVE  /\ s \in running =>
              [kind |-> "open", sid |-> s, age |-> 0, cwd |-> c,
               pid |-> IF PidSource = "hook" THEN HookPid ELSE life[s]] \in Message
         /\ [kind |-> "activity", sid |-> s, age |-> 0, cwd |-> c, pid |-> Unset] \in Message
<1>1. 0 \in Age
  BY AgeCapAssumption DEF Age
<1>2. ASSUME s \in running
      PROVE  (IF PidSource = "hook" THEN HookPid ELSE life[s]) \in Pids
  <2>1. life[s] \in 0 .. Lives /\ life[s] > 0 /\ Lives \in Nat
    BY <1>2, BridgeAssumption DEF ClaudeOK
  <2>2. life[s] \in 1 .. Lives
    BY <2>1
  <2> QED  BY <2>2, BridgeAssumption
<1> QED  BY <1>1, <1>2 DEF Message

\* What is published of a close or an unknown event is a message.
LEMMA SignalFact ==
  ASSUME NEW s \in Sids, NEW kind \in {"close", "other"}
  PROVE  [kind |-> kind, sid |-> s, age |-> 0, cwd |-> Unset, pid |-> Unset] \in Message
BY AgeCapAssumption DEF Age, Message

\* A publication leaves the daemon alone.
LEMMA PublishKeeps ==
  ASSUME BridgeTypeOK, NEW m \in Message, Publish(m)
  PROVE  BridgeTypeOK'
<1>1. ClaudeOK /\ NetOK /\ ChanOK /\ WorkersOK /\ TickerOK /\ phase \in {"up", "down"}
  BY TypeParts
<1>2. NetOK'
  BY <1>1 DEF Publish, NetOK
<1> QED
  BY <1>1, <1>2, TypePartsNext
     DEF Publish, ClaudeOK, ChanOK, WorkersOK, TickerOK

\* The claude processes and their hooks keep the type.
LEMMA SessionsKeep ==
  ASSUME BridgeTypeOK, Sessions
  PROVE  BridgeTypeOK'
<1>1. ClaudeOK /\ NetOK /\ ChanOK /\ WorkersOK /\ TickerOK /\ phase \in {"up", "down"}
  BY TypeParts
<1>2. ASSUME \/ \E s \in Sids : Start(s) \/ Exit(s)
             \/ \E pid \in 1 .. Lives : Reuse(pid)
      PROVE  BridgeTypeOK'
  <2>1. ClaudeOK'
    BY <1>2, ClaudeStep DEF Next, NextUntimed, Sessions
  <2> QED
    BY <1>1, <1>2, <2>1, TypePartsNext
       DEF Start, Exit, Reuse, NetOK, ChanOK, WorkersOK, TickerOK
<1>3. ASSUME NEW s \in Sids, PublishClose(s) \/ PublishOther(s)
      PROVE  BridgeTypeOK'
  BY <1>3, SignalFact, PublishKeeps DEF PublishClose, PublishOther
<1>4. ASSUME NEW s \in Sids, NEW c \in Cwds, PublishActivity(s, c) \/ PublishOpen(s, c)
      PROVE  BridgeTypeOK'
  BY <1>1, <1>4, PublishedFact, PublishKeeps DEF PublishActivity, PublishOpen
<1> QED  BY <1>2, <1>3, <1>4 DEF Sessions

\* So do delivery, redelivery and loss (bridge.go:136-142).
LEMMA NetworkKeeps ==
  ASSUME BridgeTypeOK, Network
  PROVE  BridgeTypeOK'
<1>1. ClaudeOK /\ NetOK /\ ChanOK /\ WorkersOK /\ TickerOK /\ phase \in {"up", "down"}
  BY TypeParts
<1>2. PICK m \in net : Deliver(m) \/ Redeliver(m) \/ Lose(m)
  BY DEF Network
<1>3. m \in Message
  BY <1>1, <1>2 DEF NetOK
<1>4. ChanOK'
  <2>1. CASE Receive(m)
    BY <1>1, <1>3, <2>1, ReceiveFact DEF ChanOK
  <2>2. CASE UNCHANGED chan
    BY <1>1, <2>2 DEF ChanOK
  <2> QED  BY <1>2, <2>1, <2>2 DEF Deliver, Redeliver, Lose
<1>5. NetOK'
  BY <1>1, <1>2 DEF NetOK, Deliver, Redeliver, Lose
<1> QED
  BY <1>1, <1>2, <1>4, <1>5, TypePartsNext
     DEF Deliver, Redeliver, Lose, ClaudeOK, WorkersOK, TickerOK

\* So do the workers (bridge.go:162-177, 267-330).
LEMMA WorkerKeeps ==
  ASSUME BridgeTypeOK, NEW w \in Workers,
         WorkerTake(w) \/ WorkerStep(w) \/ WorkerError(w) \/ WorkerNoReply(w)
  PROVE  BridgeTypeOK'
<1>1. ClaudeOK /\ NetOK /\ ChanOK /\ WorkersOK /\ TickerOK /\ phase \in {"up", "down"}
  BY TypeParts
<1> DEFINE m == worker[w].msg
<1>2. CASE WorkerTake(w)
  <2>1. chan # <<>> /\ chan \in Seq(Message) /\ chan' = Tail(chan)
    BY <1>1, <1>2 DEF WorkerTake, ChanOK
  <2>2. Head(chan) \in Message /\ chan' \in Seq(Message) /\ Len(chan') = Len(chan) - 1
    BY <2>1
  <2>3. ChanOK'
    BY <1>1, <2>2, BridgeAssumption DEF ChanOK
  <2>4. WorkersOK'
    <3> DEFINE q == [pc |-> "handle", msg |-> Head(chan), existed |-> FALSE]
    <3>1. StateOK(q)
      BY <2>2 DEF StateOK, WorkerState
    <3> QED  BY <1>1, <1>2, <3>1, OneWorker DEF WorkerTake
  <2> QED
    BY <1>1, <1>2, <2>3, <2>4, TypePartsNext DEF WorkerTake, ClaudeOK, NetOK, TickerOK
<1>3. CASE WorkerDone(w)
  BY <1>1, <1>3, DoneFact, TypePartsNext DEF ClaudeOK, NetOK, ChanOK, TickerOK
<1>4. CASE UNCHANGED bridgeVars
  BY <1>1, <1>4, TypePartsNext DEF bridgeVars, ClaudeOK, NetOK, ChanOK, WorkersOK, TickerOK
<1>5. CASE WorkerExists(w) \/ WorkerPush(w)
  <2>1. /\ worker[w].pc \in {"handle", "push"}
        /\ worker[w].msg.kind = "activity"
        /\ UNCHANGED <<home, life, running, strangers, net, phase, chan, ticker>>
    BY <1>1, <1>5, InHand DEF WorkerExists, WorkerPush, Handles, CallPush
  <2>2. worker[w] \in WorkerState /\ worker[w].msg \in Message
    BY <1>1, <2>1 DEF WorkersOK, StateOK
  <2>3. CASE WorkerExists(w)
    <3> DEFINE there == HashExists(worker[w].msg.sid)
               q == [worker[w] EXCEPT !.pc = "push", !.existed = there]
    <3>1. worker' = [worker EXCEPT ![w] = q]
      BY <1>1, <2>3 DEF WorkerExists, WorkersOK
    <3>2. there \in BOOLEAN
      BY DEF HashExists
    <3> HIDE DEF there
    <3>3. q \in WorkerState /\ q.msg = worker[w].msg
      BY <2>2, <3>2 DEF WorkerState
    <3>4. StateOK(q)
      BY <2>1, <2>2, <3>3 DEF StateOK
    <3> QED  BY <1>1, <3>1, <3>4, OneWorker, <2>1, TypePartsNext
                DEF ClaudeOK, NetOK, ChanOK, TickerOK
  <2>4. CASE WorkerPush(w)
    <3> DEFINE q == [worker[w] EXCEPT !.pc = "touch", !.existed = FALSE]
    <3>1. worker' = [worker EXCEPT ![w] = q]
      BY <1>1, <2>4 DEF WorkerPush, WorkersOK
    <3>2. q \in WorkerState /\ q.msg = worker[w].msg
      BY <2>2 DEF WorkerState
    <3>3. StateOK(q)
      BY <2>1, <2>2, <3>2 DEF StateOK
    <3> QED  BY <1>1, <3>1, <3>3, OneWorker, <2>1, TypePartsNext
                DEF ClaudeOK, NetOK, ChanOK, TickerOK
  <2> QED  BY <1>5, <2>3, <2>4
<1> QED
  BY <1>2, <1>3, <1>4, <1>5
     DEF WorkerStep, WorkerOpen, WorkerClose, WorkerIgnore, WorkerTouch, WorkerError,
         WorkerNoReply

\* So does the ticker, which reads pids out of hashes (bridge.go:187-245).
LEMMA TickerKeeps ==
  ASSUME BridgeTypeOK, StoreTypeOK, TickerStep \/ TickerError
  PROVE  BridgeTypeOK'
<1>1. ClaudeOK /\ NetOK /\ ChanOK /\ WorkersOK /\ TickerOK /\ phase \in {"up", "down"}
  BY TypeParts
<1>2. ASSUME NEW q \in TickerState, TickerTo(q)
      PROVE  BridgeTypeOK'
  BY <1>1, <1>2, TypePartsNext DEF TickerTo, ClaudeOK, NetOK, ChanOK, WorkersOK, TickerOK
<1>3. Waiting \in TickerState /\ 0 \in Age
  BY AgeCapAssumption DEF Waiting, TickerState, Age
<1>4. ticker \in TickerState
  BY <1>1 DEF TickerOK
<1>5. CASE TickerRange
  <2> DEFINE q == [ticker EXCEPT !.pc = "list", !.members = {s \in Sids : Active(s)}]
  <2>1. {s \in Sids : Active(s)} \in SUBSET Sids
    OBVIOUS
  <2>2. q \in TickerState
    BY <1>4, <2>1 DEF TickerState
  <2> QED  BY <1>2, <1>5, <2>2 DEF TickerRange
<1>6. ASSUME NEW s \in Sids, TickerGet(s)
      PROVE  BridgeTypeOK'
  <2> DEFINE view == [sid |-> s, pid |-> hash[s].pid]
             views == IF HashExists(s) /\ hash[s].host = Local
                      THEN ticker.views \cup {view} ELSE ticker.views
             q == [ticker EXCEPT !.members = @ \ {s}, !.views = views]
  <2>1. hash[s] \in HashRecord
    BY DEF StoreTypeOK
  <2>2. view \in [sid : Sids, pid : Pids \cup {Unset}]
    BY <2>1 DEF HashRecord
  <2> HIDE DEF view
  <2>3. views \in SUBSET [sid : Sids, pid : Pids \cup {Unset}]
    BY <1>4, <2>2 DEF TickerState
  <2>4. ticker.members \ {s} \in SUBSET Sids
    BY <1>4 DEF TickerState
  <2>5. TickerTo(q)
    BY <1>6 DEF TickerGet, view
  <2> HIDE DEF views
  <2>6. q \in TickerState
    BY <1>4, <2>3, <2>4 DEF TickerState
  <2> HIDE DEF q
  <2> QED  BY <1>2, <2>5, <2>6
<1>7. CASE TickerNow
  <2> DEFINE q == [ticker EXCEPT !.pc = "touch", !.now = 0]
  <2>1. q \in TickerState
    BY <1>3, <1>4 DEF TickerState
  <2> QED  BY <1>2, <1>7, <2>1 DEF TickerNow
<1>8. ASSUME NEW v, TickerTo([ticker EXCEPT !.views = @ \ {v}])
      PROVE  BridgeTypeOK'
  <2> DEFINE q == [ticker EXCEPT !.views = ticker.views \ {v}]
  <2>1. q \in TickerState
    BY <1>4 DEF TickerState
  <2> QED  BY <1>2, <1>8, <2>1
<1>9. CASE TickerSweep
  BY <1>2, <1>3, <1>9 DEF TickerSweep, SweepServed, SweepFails
<1>10. CASE TickerError
  <2>1. ASSUME NEW s, TickerTo([ticker EXCEPT !.members = @ \ {s}])
        PROVE  BridgeTypeOK'
    <3> DEFINE q == [ticker EXCEPT !.members = ticker.members \ {s}]
    <3>1. q \in TickerState
      BY <1>4 DEF TickerState
    <3> QED  BY <1>2, <2>1, <3>1
  <2>2. ASSUME TickerTo([ticker EXCEPT !.pc = "touch"])
        PROVE  BridgeTypeOK'
    <3> DEFINE q == [ticker EXCEPT !.pc = "touch"]
    <3>1. q \in TickerState
      BY <1>4 DEF TickerState
    <3> QED  BY <1>2, <2>2, <3>1
  <2> QED  BY <1>8, <1>10, <2>1, <2>2 DEF TickerError
<1>11. ASSUME NEW v \in ticker.views, TickerTouch(v)
       PROVE  BridgeTypeOK'
  BY <1>8, <1>11 DEF TickerTouch
<1> QED  BY <1>5, <1>6, <1>7, <1>9, <1>10, <1>11 DEF TickerStep

\* So do a stop, which empties channel and workers, and a boot.
LEMMA StopAndBootKeep ==
  ASSUME BridgeTypeOK, Stop \/ Boot
  PROVE  BridgeTypeOK'
<1>1. ClaudeOK /\ NetOK /\ ChanOK /\ WorkersOK /\ TickerOK /\ phase \in {"up", "down"}
  BY TypeParts
<1>2. CASE Stop
  <2>1. ChanOK'
    BY <1>2, BridgeAssumption DEF Stop, ChanOK
  <2>2. WorkersOK'
    BY <1>2, IdleOK DEF Stop, WorkersOK, StateOK
  <2>3. TickerOK'
    BY <1>2, AgeCapAssumption DEF Stop, Waiting, TickerOK, TickerState, Age
  <2> QED  BY <1>1, <1>2, <2>1, <2>2, <2>3, TypePartsNext DEF Stop, ClaudeOK, NetOK
<1>3. CASE Boot
  BY <1>1, <1>3, TypePartsNext DEF Boot, ClaudeOK, NetOK, ChanOK, WorkersOK, TickerOK
<1> QED  BY <1>2, <1>3

\* A worker's state, when its message gets older.
LEMMA OlderState ==
  ASSUME NEW q, StateOK(q), q.pc # "idle"
  PROVE  StateOK([q EXCEPT !.msg = OlderMessage(q.msg)])
<1> DEFINE m == OlderMessage(q.msg)
           r == [q EXCEPT !.msg = m]
<1>1. q \in WorkerState /\ q.msg \in Message
  BY DEF StateOK
<1>2. m \in Message /\ m.kind = q.msg.kind
  BY <1>1, OlderMessageFact
<1> HIDE DEF m
<1>3. r \in WorkerState /\ r.pc = q.pc /\ r.msg = m
  BY <1>1, <1>2 DEF WorkerState
<1> HIDE DEF r
<1>4. StateOK(r)
  BY <1>2, <1>3 DEF StateOK
<1> QED  BY <1>4 DEF r, m

\* What Tick does to a worker.
LEMMA TickWorker ==
  ASSUME WorkersOK, Tick, NEW w \in Workers
  PROVE  worker'[w] = IF worker[w].pc # "idle"
                      THEN [worker[w] EXCEPT !.msg = OlderMessage(worker[w].msg)]
                      ELSE worker[w]
BY DEF Tick, Busy

\* So does time.
LEMMA TickKeeps ==
  ASSUME BridgeTypeOK, Tick
  PROVE  BridgeTypeOK'
<1>1. ClaudeOK /\ NetOK /\ ChanOK /\ WorkersOK /\ TickerOK /\ phase \in {"up", "down"}
  BY TypeParts
<1>2. NetOK'
  <2>1. net' = {OlderMessage(m) : m \in net}
    BY DEF Tick
  <2> QED  BY <1>1, <2>1, OlderMessageFact DEF NetOK
<1>3. ChanOK'
  <2>1. chan' = [i \in 1 .. Len(chan) |-> OlderMessage(chan[i])]
    BY DEF Tick
  <2>2. Len(chan) \in Nat /\ \A i \in 1 .. Len(chan) : chan[i] \in Message
    BY <1>1 DEF ChanOK
  <2>3. \A i \in 1 .. Len(chan) : OlderMessage(chan[i]) \in Message
    BY <2>2, OlderMessageFact
  <2>4. chan' \in [1 .. Len(chan) -> Message]
    BY <2>1, <2>3
  <2>5. chan' \in Seq(Message) /\ Len(chan') = Len(chan)
    BY <2>2, <2>4
  <2> QED  BY <1>1, <2>5 DEF ChanOK
<1>4. WorkersOK'
  <2>1. ASSUME NEW w \in Workers
        PROVE  StateOK(worker'[w])
    <3>1. StateOK(worker[w])
      BY <1>1 DEF WorkersOK
    <3> QED  BY <1>1, <3>1, TickWorker, OlderState
  <2>2. worker' = [w \in Workers |-> worker'[w]]
    BY DEF Tick
  <2>3. worker' \in [Workers -> WorkerState]
    BY <2>1, <2>2 DEF StateOK
  <2> QED  BY <2>1, <2>3 DEF WorkersOK
<1>5. TickerOK'
  <2>1. ticker \in TickerState /\ ticker.pass \in Age /\ ticker.now \in Age
    BY <1>1 DEF TickerOK, TickerState
  <2>2. Older(ticker.pass) \in Age /\ Older(ticker.now) \in Age
    BY <2>1, OlderFact
  <2>3. CASE ticker.pc = "wait"
    BY <2>1, <2>3 DEF Tick, TickerOK
  <2>4. CASE ticker.pc = "list"
    <3>1. ticker' = [ticker EXCEPT !.pass = Older(ticker.pass)]
      BY <2>4 DEF Tick
    <3> QED  BY <2>1, <2>2, <3>1 DEF TickerOK, TickerState
  <2>5. CASE ticker.pc = "touch"
    <3>1. ticker' = [ticker EXCEPT !.pass = Older(ticker.pass), !.now = Older(ticker.now)]
      BY <2>5 DEF Tick
    <3> QED  BY <2>1, <2>2, <3>1 DEF TickerOK, TickerState
  <2> QED  BY <2>1, <2>3, <2>4, <2>5 DEF TickerState
<1> QED
  BY <1>1, <1>2, <1>3, <1>4, <1>5, TypePartsNext DEF Tick, ClaudeOK

-----------------------------------------------------------------------------
(* The theorems.                                                           *)

\* The type and the store's invariant hold of a daemon that has just started.
LEMMA BridgeInitInv == Init => BridgeInv
<1> SUFFICES ASSUME Init PROVE BridgeInv
  OBVIOUS
<1>1. StoreInv
  BY StoreInvInit DEF Init
<1>2. ClaudeOK /\ NetOK /\ ChanOK
  BY BridgeAssumption DEF Init, ClaudeOK, NetOK, ChanOK
<1>3. WorkersOK
  BY IdleOK DEF Init, WorkersOK, StateOK
<1>4. TickerOK
  BY AgeCapAssumption DEF Init, Waiting, TickerOK, TickerState, Age
<1> QED  BY <1>1, <1>2, <1>3, <1>4, TypeParts DEF BridgeInv, Init

\* Every step keeps the two.
LEMMA BridgeNextInv == BridgeInv /\ [Next]_vars => BridgeInv'
<1> SUFFICES ASSUME BridgeInv, [Next]_vars PROVE BridgeInv'
  OBVIOUS
<1>1. BridgeTypeOK /\ StoreInv /\ StoreTypeOK
  BY DEF BridgeInv, StoreInv
<1>2. StoreInv'
  BY <1>1, StepImplements, StoreInvNext
<1>3. BridgeTypeOK'
  <2>1. CASE UNCHANGED vars
    <3>1. ClaudeOK /\ NetOK /\ ChanOK /\ WorkersOK /\ TickerOK /\ phase \in {"up", "down"}
      BY <1>1, TypeParts
    <3> QED
      BY <2>1, <3>1, TypePartsNext
         DEF vars, bridgeVars, ClaudeOK, NetOK, ChanOK, WorkersOK, TickerOK
  <2>2. CASE Tick
    BY <1>1, <2>2, TickKeeps
  <2>3. CASE NextUntimed
    BY <1>1, <2>3, SessionsKeep, NetworkKeeps, WorkerKeeps, TickerKeeps, StopAndBootKeep
       DEF NextUntimed
  <2> QED  BY <2>1, <2>2, <2>3 DEF Next
<1> QED  BY <1>2, <1>3 DEF BridgeInv

\* So they hold for good.
LEMMA BridgeInvariant == Spec => []BridgeInv
BY BridgeInitInv, BridgeNextInv, PTL DEF Spec

\* Every variable of the daemon keeps its type, whatever faults occur.
THEOREM BridgeTypes == Spec => []BridgeTypeOK
<1>1. BridgeInv => BridgeTypeOK
  BY DEF BridgeInv
<1> QED  BY <1>1, BridgeInvariant, PTL

\* The bridge calls the store's own actions, so its behaviours are behaviours of the
\* store once the arguments of the calls are shown to be in the store's domains: what
\* lets the theorems on the store be used here.
LEMMA BridgeIsStore == Spec => StoreSpec
<1>1. Init => StoreInit
  BY DEF Init
<1>2. BridgeInv /\ [Next]_vars => [StoreNext]_storeVars
  BY StepImplements DEF BridgeInv
<1> QED  BY <1>1, <1>2, BridgeInvariant, PTL DEF Spec, StoreSpec

\* So what was proved of the store holds of the daemon's: no member of its
\* sorted set is hidden from a listing (session.go:107-110) while it is recent.
THEOREM DaemonHidesNoRecentSession == Spec => []RecentIsListed
BY BridgeIsStore, RecentMembersAreListed, PTL

\* Nor does the daemon ever separate the copies of a session's last activity, hide
\* a member with a recent activity in the global ring, or let a ring outgrow its
\* size (session.go:32-89, activity.go:33-68).
THEOREM DaemonKeepsThePromises ==
  Spec => [](ScoreMatchesLastSeen /\ ActivityIsListed /\ RingsBounded)
BY BridgeIsStore, CopiesAgree, RecentActivityIsListed, RingsNeverOutgrow, PTL

-----------------------------------------------------------------------------
(* How late a message can be.                                              *)

\* Time does not pass a message that is MaxLag old, nor such a pass of the
\* ticker; the nowMs of a pass is read in it.
LagOK ==
  /\ \A m \in net : m.age <= MaxLag
  /\ \A i \in 1 .. Len(chan) : chan[i].age <= MaxLag
  /\ \A w \in Workers : worker[w].pc # "idle" => worker[w].msg.age <= MaxLag
  /\ ticker.now <= ticker.pass /\ ticker.pass <= MaxLag

\* What is younger than MaxLag is not too old when it gets older.
LEMMA OlderLag ==
  ASSUME NEW a \in Age, a < MaxLag
  PROVE  Older(a) <= MaxLag
BY OlderFact, AgeCapAssumption, BridgeAssumption DEF Age

\* Of two ages the older one stays so.
LEMMA OlderMonotone ==
  ASSUME NEW a \in Age, NEW b \in Age, NEW d \in Nat, a <= b + d
  PROVE  Older(a) <= Older(b) + d
<1>1. a \in Nat /\ b \in Nat /\ AgeCap \in Nat /\ a <= AgeCap /\ b <= AgeCap
  BY AgeCapAssumption DEF Age
<1>2. CASE a < AgeCap /\ b < AgeCap
  BY <1>1, <1>2 DEF Older
<1>3. CASE a < AgeCap /\ b = AgeCap
  <2>1. a + 1 <= AgeCap
    BY <1>1, <1>3
  <2> QED  BY <1>1, <1>3, <2>1 DEF Older
<1>4. CASE a = AgeCap /\ b < AgeCap
  BY <1>1, <1>4 DEF Older
<1>5. CASE a = AgeCap /\ b = AgeCap
  BY <1>1, <1>5 DEF Older
<1> QED  BY <1>1, <1>2, <1>3, <1>4, <1>5

\* Nothing is under way at first.
LEMMA LagInit == Init => LagOK
BY BridgeAssumption DEF Init, Idle, Waiting, LagOK

\* An event is stamped when it is published.
LEMMA PublishLag ==
  ASSUME LagOK, NEW m, m.age = 0, Publish(m)
  PROVE  LagOK'
BY BridgeAssumption DEF Publish, LagOK

\* The claude processes and their hooks publish nothing old.
LEMMA SessionsLag ==
  ASSUME LagOK, Sessions
  PROVE  LagOK'
<1>1. ASSUME \/ \E s \in Sids : Start(s) \/ Exit(s)
             \/ \E pid \in 1 .. Lives : Reuse(pid)
      PROVE  LagOK'
  BY <1>1 DEF Start, Exit, Reuse, LagOK
<1>2. ASSUME NEW s \in Sids, NEW c \in Cwds, PublishOpen(s, c)
      PROVE  LagOK'
  <2> DEFINE pid == IF PidSource = "hook" THEN HookPid ELSE life[s]
             m == [kind |-> "open", sid |-> s, age |-> 0, cwd |-> c, pid |-> pid]
  <2>1. Publish(m) /\ m.age = 0
    BY <1>2 DEF PublishOpen
  <2> HIDE DEF m
  <2> QED  BY <2>1, PublishLag
<1>3. ASSUME NEW m, Publish(m), m.age = 0
      PROVE  LagOK'
  BY <1>3, PublishLag
<1>4. ASSUME NEW s \in Sids, NEW c \in Cwds, PublishActivity(s, c)
      PROVE  LagOK'
  BY <1>3, <1>4 DEF PublishActivity
<1>5. ASSUME NEW s \in Sids, PublishClose(s) \/ PublishOther(s)
      PROVE  LagOK'
  BY <1>3, <1>5 DEF PublishClose, PublishOther
<1> QED  BY <1>1, <1>2, <1>4, <1>5 DEF Sessions

\* What is delivered was published no longer than MaxLag ago.
LEMMA NetworkLag ==
  ASSUME BridgeTypeOK, LagOK, Network
  PROVE  LagOK'
<1>1. PICK m \in net : Deliver(m) \/ Redeliver(m) \/ Lose(m)
  BY DEF Network
<1>2. NetOK /\ ChanOK
  BY TypeParts
<1>3. m \in Message /\ m.age <= MaxLag
  BY <1>1, <1>2 DEF NetOK, LagOK
<1>4. (\A i \in 1 .. Len(chan) : chan[i].age <= MaxLag)'
  <2>1. CASE Receive(m)
    BY <1>2, <1>3, <2>1, ReceiveFact DEF ChanOK, LagOK
  <2>2. CASE UNCHANGED chan
    BY <2>2 DEF LagOK
  <2> QED  BY <1>1, <2>1, <2>2 DEF Deliver, Redeliver, Lose
<1>5. (\A n \in net : n.age <= MaxLag)'
  BY <1>1 DEF Deliver, Redeliver, Lose, LagOK
<1> QED  BY <1>1, <1>4, <1>5 DEF Deliver, Redeliver, Lose, LagOK

\* A worker that goes on with its message, or is done with it.
LEMMA WorkerGoesOn ==
  ASSUME WorkersOK, LagOK, NEW w \in Workers, NEW q,
         worker' = [worker EXCEPT ![w] = q],
         q.pc # "idle" => q.msg.age <= MaxLag
  PROVE  (\A v \in Workers : worker[v].pc # "idle" => worker[v].msg.age <= MaxLag)'
<1>1. \A v \in Workers : worker'[v] = IF v = w THEN q ELSE worker[v]
  BY DEF WorkersOK
<1> QED  BY <1>1 DEF LagOK

\* A worker takes what the channel holds, and keeps its timestamp.
LEMMA WorkerLag ==
  ASSUME BridgeTypeOK, LagOK, NEW w \in Workers,
         WorkerTake(w) \/ WorkerStep(w) \/ WorkerError(w) \/ WorkerNoReply(w)
  PROVE  LagOK'
<1>1. WorkersOK /\ ChanOK
  BY TypeParts
<1>2. CASE WorkerTake(w)
  <2>1. chan # <<>> /\ chan \in Seq(Message) /\ chan' = Tail(chan)
    BY <1>1, <1>2 DEF WorkerTake, ChanOK
  <2>2. /\ Head(chan) = chan[1] /\ 1 \in 1 .. Len(chan)
        /\ Len(chan') = Len(chan) - 1
        /\ \A i \in 1 .. Len(chan') : chan'[i] = chan[i + 1] /\ i + 1 \in 1 .. Len(chan)
    BY <2>1
  <2>3. (\A i \in 1 .. Len(chan) : chan[i].age <= MaxLag)'
    BY <2>2 DEF LagOK
  <2> DEFINE q == [pc |-> "handle", msg |-> Head(chan), existed |-> FALSE]
  <2>4. worker' = [worker EXCEPT ![w] = q] /\ q.msg.age <= MaxLag
    BY <1>2, <2>2 DEF WorkerTake, LagOK
  <2> HIDE DEF q
  <2>5. (\A v \in Workers : worker[v].pc # "idle" => worker[v].msg.age <= MaxLag)'
    BY <1>1, <2>4, WorkerGoesOn
  <2> QED  BY <1>2, <2>3, <2>5 DEF WorkerTake, LagOK
<1>3. CASE WorkerDone(w)
  <2>1. worker' = [worker EXCEPT ![w] = Idle] /\ Idle.pc = "idle"
    BY <1>3 DEF WorkerDone, Idle
  <2>2. (\A v \in Workers : worker[v].pc # "idle" => worker[v].msg.age <= MaxLag)'
    BY <1>1, <2>1, WorkerGoesOn
  <2> QED  BY <1>3, <2>2 DEF WorkerDone, LagOK
<1>4. CASE UNCHANGED bridgeVars
  BY <1>4 DEF bridgeVars, LagOK
<1>5. CASE WorkerExists(w) \/ WorkerPush(w)
  <2>1. worker[w] \in WorkerState /\ worker[w].pc # "idle"
        /\ UNCHANGED <<home, life, running, strangers, net, phase, chan, ticker>>
    BY <1>1, <1>5 DEF WorkersOK, WorkerExists, WorkerPush, Handles, CallPush
  <2>2. PICK q : worker' = [worker EXCEPT ![w] = q] /\ q.msg = worker[w].msg
    <3>1. CASE WorkerExists(w)
      <4> DEFINE there == HashExists(worker[w].msg.sid)
                 q == [worker[w] EXCEPT !.pc = "push", !.existed = there]
      <4>1. worker' = [worker EXCEPT ![w] = q]
        BY <1>1, <3>1 DEF WorkerExists, WorkersOK
      <4> HIDE DEF there
      <4>2. q.msg = worker[w].msg
        BY <2>1 DEF WorkerState
      <4> QED  BY <4>1, <4>2
    <3>2. CASE WorkerPush(w)
      <4> DEFINE q == [worker[w] EXCEPT !.pc = "touch", !.existed = FALSE]
      <4>1. worker' = [worker EXCEPT ![w] = q]
        BY <1>1, <3>2 DEF WorkerPush, WorkersOK
      <4>2. q.msg = worker[w].msg
        BY <2>1 DEF WorkerState
      <4> QED  BY <4>1, <4>2
    <3> QED  BY <1>5, <3>1, <3>2
  <2>3. (\A v \in Workers : worker[v].pc # "idle" => worker[v].msg.age <= MaxLag)'
    BY <1>1, <2>1, <2>2, WorkerGoesOn DEF LagOK
  <2> QED  BY <2>1, <2>3 DEF LagOK
<1> QED
  BY <1>2, <1>3, <1>4, <1>5
     DEF WorkerStep, WorkerOpen, WorkerClose, WorkerIgnore, WorkerTouch, WorkerError,
         WorkerNoReply

\* nowMs is read in the pass (bridge.go:228) and forgotten with it.
LEMMA TickerLag ==
  ASSUME BridgeTypeOK, LagOK, TickerStep \/ TickerError
  PROVE  LagOK'
<1>1. ticker \in TickerState /\ ticker.pass \in Age /\ ticker.now \in Age
  BY TypeParts DEF TickerOK, TickerState
<1>2. UNCHANGED <<net, chan, worker>>
  BY DEF TickerStep, TickerError, TickerRange, TickerGet, TickerNow, TickerTouch, TickerSweep,
     SweepServed, SweepFails, TickerTo
<1>3. SUFFICES ticker'.now <= ticker'.pass /\ ticker'.pass <= MaxLag
  BY <1>2 DEF LagOK
<1>4. CASE ticker'.now = ticker.now /\ ticker'.pass = ticker.pass
  BY <1>4 DEF LagOK
<1>5. ASSUME NEW s, NEW views, ticker' = [ticker EXCEPT !.members = @ \ {s}, !.views = views]
      PROVE  ticker'.now = ticker.now /\ ticker'.pass = ticker.pass
  BY <1>1, <1>5 DEF TickerState
<1>6. ASSUME NEW s \in Sids, TickerGet(s)
      PROVE  ticker'.now = ticker.now /\ ticker'.pass = ticker.pass
  BY <1>5, <1>6 DEF TickerGet, TickerTo
<1>7. CASE TickerRange
  BY <1>1, <1>4, <1>7 DEF TickerRange, TickerTo, TickerState
<1>8. CASE TickerNow
  <2>1. ticker' = [ticker EXCEPT !.pc = "touch", !.now = 0]
    BY <1>8 DEF TickerNow, TickerTo
  <2>2. ticker'.now = 0 /\ ticker'.pass = ticker.pass
    BY <1>1, <2>1 DEF TickerState
  <2> QED  BY <1>1, <2>2, AgeCapAssumption DEF LagOK, Age
<1>9. ASSUME NEW v \in ticker.views, TickerTouch(v)
      PROVE  ticker'.now = ticker.now /\ ticker'.pass = ticker.pass
  BY <1>1, <1>9 DEF TickerTouch, TickerTo, TickerState
<1>10. CASE TickerSweep
  BY <1>10, BridgeAssumption DEF TickerSweep, SweepServed, SweepFails, TickerTo, Waiting
<1>11. CASE TickerError
  BY <1>1, <1>4, <1>11 DEF TickerError, TickerTo, TickerState
<1> QED  BY <1>4, <1>6, <1>7, <1>8, <1>9, <1>10, <1>11 DEF TickerStep

\* Time waits for what is MaxLag old.
LEMMA TickLag ==
  ASSUME BridgeTypeOK, LagOK, Tick
  PROVE  LagOK'
<1>1. NetOK /\ ChanOK /\ WorkersOK /\ TickerOK
  BY TypeParts
<1>2. (\A m \in InFlight : m.age < MaxLag) /\ ticker.pass < MaxLag
  BY DEF Tick, Timely
<1>3. ASSUME NEW m \in Message, m.age < MaxLag
      PROVE  OlderMessage(m).age <= MaxLag
  BY <1>3, MessageFields, OlderMessageFact, OlderLag
<1>4. (\A m \in net : m.age <= MaxLag)'
  <2>1. \A m \in net : m \in Message /\ m.age < MaxLag
    BY <1>1, <1>2 DEF NetOK, InFlight
  <2>2. net' = {OlderMessage(m) : m \in net}
    BY DEF Tick
  <2> QED  BY <1>3, <2>1, <2>2
<1>5. (\A i \in 1 .. Len(chan) : chan[i].age <= MaxLag)'
  <2>1. \A i \in 1 .. Len(chan) : chan[i] \in Message /\ chan[i].age < MaxLag
    BY <1>1, <1>2 DEF ChanOK, InFlight
  <2>2. chan' = [i \in 1 .. Len(chan) |-> OlderMessage(chan[i])] /\ Len(chan) \in Nat
    BY <1>1 DEF Tick, ChanOK
  <2>3. Len(chan') = Len(chan)
    BY <2>2
  <2> QED  BY <1>3, <2>1, <2>2, <2>3
<1>6. ASSUME NEW w \in Workers, worker'[w].pc # "idle"
      PROVE  worker'[w].msg.age <= MaxLag
  <2>1. worker[w] \in WorkerState
    BY <1>1 DEF WorkersOK
  <2>2. worker[w].pc # "idle"
    BY <1>1, <1>6, TickWorker
  <2>3. worker[w].msg \in Message /\ worker[w].msg.age < MaxLag
    BY <1>1, <1>2, <2>2, InHand DEF InFlight, Busy
  <2>4. worker'[w] = [worker[w] EXCEPT !.msg = OlderMessage(worker[w].msg)]
    BY <1>1, <2>2, TickWorker
  <2>5. worker'[w].msg = OlderMessage(worker[w].msg)
    BY <2>1, <2>4 DEF WorkerState
  <2> QED  BY <1>3, <2>3, <2>5
<1>7. ticker'.now <= ticker'.pass /\ ticker'.pass <= MaxLag
  <2>1. ticker \in TickerState /\ ticker.pass \in Age /\ ticker.now \in Age
        /\ ticker.now <= ticker.pass
    BY <1>1 DEF TickerOK, TickerState, LagOK
  <2>2. Older(ticker.pass) <= MaxLag
    BY <1>2, <2>1, OlderLag
  <2>3. Older(ticker.pass) \in Age /\ Older(ticker.now) \in Age
    BY <2>1, OlderFact
  <2>4. Older(ticker.now) <= Older(ticker.pass) + 0
    BY <2>1, OlderMonotone, AgeCapAssumption DEF Age
  <2>5. Older(ticker.now) <= Older(ticker.pass)
    BY <2>3, <2>4, AgeCapAssumption DEF Age
  <2>6. ticker.now <= Older(ticker.pass)
    BY <2>1, OlderFact, AgeCapAssumption DEF Age
  <2>7. CASE ticker.pc = "wait"
    BY <2>7 DEF Tick, LagOK
  <2>8. CASE ticker.pc = "list"
    <3>1. ticker' = [ticker EXCEPT !.pass = Older(ticker.pass)]
      BY <2>8 DEF Tick
    <3> QED  BY <2>1, <2>2, <2>6, <3>1 DEF TickerState
  <2>9. CASE ticker.pc = "touch"
    <3>1. ticker' = [ticker EXCEPT !.pass = Older(ticker.pass), !.now = Older(ticker.now)]
      BY <2>9 DEF Tick
    <3>2. ticker'.pass = Older(ticker.pass) /\ ticker'.now = Older(ticker.now)
      BY <2>1, <3>1 DEF TickerState
    <3> QED  BY <2>2, <2>5, <3>2
  <2> QED  BY <2>1, <2>7, <2>8, <2>9 DEF TickerState
<1> QED  BY <1>4, <1>5, <1>6, <1>7 DEF LagOK

\* Every step keeps the lag.
LEMMA LagNext == BridgeTypeOK /\ LagOK /\ [Next]_vars => LagOK'
<1> SUFFICES ASSUME BridgeTypeOK, LagOK, [Next]_vars PROVE LagOK'
  OBVIOUS
<1>1. CASE UNCHANGED vars
  BY <1>1 DEF vars, bridgeVars, LagOK
<1>2. CASE Stop \/ Boot
  BY <1>2, BridgeAssumption DEF Stop, Boot, Idle, Waiting, LagOK
<1>3. CASE Tick
  BY <1>3, TickLag
<1>4. CASE NextUntimed
  BY <1>2, <1>4, SessionsLag, NetworkLag, WorkerLag, TickerLag DEF NextUntimed
<1> QED  BY <1>1, <1>3, <1>4 DEF Next

-----------------------------------------------------------------------------
(* The order of the global ring.                                           *)

\* No entry is ahead of one that is younger by more than MaxLag.
UpToLag(items) ==
  \A i, j \in 1 .. Len(items) : i < j => items[i].age <= items[j].age + MaxLag

\* A push of an entry no older than MaxLag keeps the order up to the lag.
LEMMA PushUpToLag ==
  ASSUME NEW items \in Seq(Entry), UpToLag(items), NEW e \in Entry, e.age <= MaxLag,
         NEW size \in Nat
  PROVE  UpToLag(LTrim(<<e>> \o items, size))
<1> DEFINE long == <<e>> \o items
<1>1. long \in Seq(Entry) /\ Len(long) = Len(items) + 1 /\ Len(items) \in Nat
  OBVIOUS
<1>2. long[1] = e /\ \A i \in 2 .. Len(long) : long[i] = items[i - 1] /\ i - 1 \in 1 .. Len(items)
  BY <1>1
<1> HIDE DEF long
<1>3. ASSUME NEW i \in 1 .. Len(long), NEW j \in 1 .. Len(long), i < j
      PROVE  long[i].age <= long[j].age + MaxLag
  <2>1. j \in 2 .. Len(long)
    BY <1>1, <1>3
  <2>2. long[j] \in Entry
    BY <1>1
  <2>3. long[j].age \in Nat /\ MaxLag \in Nat
    BY <2>2, BridgeAssumption, AgeCapAssumption DEF Entry, Age
  <2>4. CASE i = 1
    <3>1. e.age \in Nat
      BY AgeCapAssumption DEF Entry, Age
    <3>2. long[i].age <= MaxLag
      BY <1>2, <2>4
    <3> QED  BY <1>2, <2>3, <2>4, <3>1, <3>2
  <2>5. CASE i # 1
    <3>1. i \in 2 .. Len(long)
      BY <1>1, <2>5
    <3>2. i - 1 < j - 1
      BY <1>1, <1>3
    <3> QED  BY <1>2, <2>1, <3>1, <3>2 DEF UpToLag
  <2> QED  BY <2>4, <2>5
<1>4. CASE size = 0 \/ Len(long) <= size
  BY <1>3, <1>4 DEF LTrim, UpToLag, long
<1>5. CASE ~(size = 0 \/ Len(long) <= size)
  <2>1. size \in 1 .. Len(long) /\ LTrim(long, size) = SubSeq(long, 1, size)
    BY <1>1, <1>5 DEF LTrim
  <2>2. Len(SubSeq(long, 1, size)) = size
        /\ \A i \in 1 .. size : SubSeq(long, 1, size)[i] = long[i] /\ i \in 1 .. Len(long)
    BY <1>1, <2>1
  <2> QED  BY <1>3, <2>1, <2>2 DEF UpToLag, long
<1> QED  BY <1>4, <1>5

\* So do time and expiry.
LEMMA AgeUpToLag ==
  ASSUME NEW r, r.items \in Seq(Entry), UpToLag(r.items)
  PROVE  UpToLag(AgeRing(r).items)
<1>1. CASE r.ttl <= 1
  BY <1>1 DEF AgeRing, EmptyRing, UpToLag
<1>2. CASE ~(r.ttl <= 1)
  <2> DEFINE new == [i \in 1 .. Len(r.items) |->
                       [r.items[i] EXCEPT !.age = Older(r.items[i].age)]]
  <2>1. AgeRing(r).items = new
    BY <1>2 DEF AgeRing
  <2>2. Len(r.items) \in Nat /\ \A i \in 1 .. Len(r.items) : r.items[i] \in Entry
    OBVIOUS
  <2>3. \A i \in 1 .. Len(r.items) : new[i].age = Older(r.items[i].age)
    BY <2>2 DEF Entry
  <2>4. Len(new) = Len(r.items)
    BY <2>2
  <2> HIDE DEF new
  <2>5. ASSUME NEW i \in 1 .. Len(r.items), NEW j \in 1 .. Len(r.items), i < j
        PROVE  new[i].age <= new[j].age + MaxLag
    <3>1. r.items[i].age \in Age /\ r.items[j].age \in Age
      BY <2>2 DEF Entry
    <3>2. r.items[i].age <= r.items[j].age + MaxLag
      BY <2>5 DEF UpToLag
    <3> QED  BY <2>3, <3>1, <3>2, OlderMonotone, BridgeAssumption
  <2> QED  BY <2>1, <2>4, <2>5 DEF UpToLag
<1> QED  BY <1>1, <1>2

\* The ring changes when a worker pushes and when time passes, only then.
LEMMA GlobalSteps ==
  ASSUME [Next]_vars
  PROVE  UNCHANGED global \/ Elapse \/ \E w \in Workers : CallPush(w)
<1>1. CASE UNCHANGED vars
  BY <1>1 DEF vars, storeVars
<1>2. CASE Sessions
  BY <1>2 DEF Sessions, Start, Exit, Reuse, PublishClose, PublishOther, PublishActivity, PublishOpen,
     Publish, storeVars
<1>3. CASE Network
  BY <1>3 DEF Network, Deliver, Redeliver, Lose, storeVars
<1>4. ASSUME NEW w \in Workers,
             WorkerTake(w) \/ WorkerStep(w) \/ WorkerError(w) \/ WorkerNoReply(w)
      PROVE  UNCHANGED global \/ CallPush(w)
  <2>1. ASSUME CallOpen(w) \/ CallClose(w) \/ CallTouch(w)
        PROVE  UNCHANGED global
    BY <2>1 DEF CallOpen, CallClose, CallTouch, OpenSession, CloseSession, TouchOrCreateSession
  <2> QED
    BY <1>4, <2>1 DEF WorkerTake, WorkerStep, WorkerError, WorkerNoReply, WorkerOpen, WorkerClose,
       WorkerIgnore, WorkerExists, WorkerPush, WorkerTouch, storeVars
<1>5. CASE TickerStep \/ TickerError
  BY <1>5 DEF TickerStep, TickerError, TickerRange, TickerGet, TickerNow, TickerTouch, TickerSweep,
     SweepServed, SweepFails, TouchSession, SweepExpired, storeVars
<1>6. CASE Stop \/ Boot
  BY <1>6 DEF Stop, Boot, TouchActiveSessions, storeVars
<1>7. CASE Tick
  BY <1>7 DEF Tick
<1> QED  BY <1>1, <1>2, <1>3, <1>4, <1>5, <1>6, <1>7 DEF Next, NextUntimed

\* Every step keeps the order of the global ring up to the lag.
LEMMA RingNext ==
  ASSUME BridgeInv, LagOK, UpToLag(global.items), [Next]_vars
  PROVE  UpToLag(global.items)'
<1>1. global.items \in Seq(Entry) /\ BridgeTypeOK
  BY DEF BridgeInv, StoreInv, StoreTypeOK
<1>2. CASE UNCHANGED global
  BY <1>2 DEF UpToLag
<1>3. CASE Elapse
  BY <1>1, <1>3, AgeUpToLag DEF Elapse
<1>4. ASSUME NEW w \in Workers, CallPush(w)
      PROVE  UpToLag(global.items)'
  <2> DEFINE m == worker[w].msg
             e == [sid |-> m.sid, age |-> m.age]
  <2>1. m \in Message /\ worker[w].pc # "idle"
    BY <1>1, <1>4, TypeParts, InHand DEF CallPush
  <2>2. e \in Entry /\ e.age <= MaxLag
    BY <2>1, MessageFields DEF Entry, LagOK
  <2>3. global'.items = LTrim(<<e>> \o global.items, GlobalRingSize)
    BY <1>4 DEF CallPush, PushActivity, LPush
  <2> HIDE DEF e
  <2> QED  BY <1>1, <2>2, <2>3, PushUpToLag, RingSizeAssumption
<1> QED  BY <1>2, <1>3, <1>4, GlobalSteps

\* The global ring, which is read as newest first (store.go:75, conflict.go:47),
\* is out of order by no more than the lag of one message, however the workers
\* push (activity.go:61-65).
THEOREM RingOrder == Spec => []RingNewestFirstUpToLag
<1> DEFINE Inv == BridgeInv /\ LagOK /\ UpToLag(global.items)
<1>1. Init => Inv
  <2>1. Init => UpToLag(global.items)
    BY DEF Init, StoreInit, EmptyRing, UpToLag
  <2> QED  BY <2>1, BridgeInitInv, LagInit
<1>2. Inv /\ [Next]_vars => Inv'
  <2>1. BridgeInv => BridgeTypeOK
    BY DEF BridgeInv
  <2> QED  BY <2>1, BridgeNextInv, LagNext, RingNext
<1>3. Inv => RingNewestFirstUpToLag
  BY DEF UpToLag, RingNewestFirstUpToLag
<1> HIDE DEF Inv
<1> QED  BY <1>1, <1>2, <1>3, PTL DEF Spec

-----------------------------------------------------------------------------
(* What a step that lets no time pass does to a score.                     *)

\* It leaves it alone, and the hash, or removes it, or writes a timestamp no older
\* than MaxLag.
ScoreStep(s) ==
  \/ zset'[s] = zset[s] /\ hash'[s] = hash[s]
  \/ zset'[s] = Absent
  \/ zset'[s] \in Age /\ zset'[s] <= MaxLag

\* ZADD writes one score (session.go:46, 67, activity.go:59).
LEMMA ZAddStep ==
  ASSUME StoreTypeOK, NEW s \in Sids, NEW a \in Age, a <= MaxLag, ZAdd(s, a),
         \A t \in Sids \ {s} : hash'[t] = hash[t]
  PROVE  \A t \in Sids : ScoreStep(t)
BY DEF ZAdd, ScoreStep, StoreTypeOK

\* The calls of a worker write the timestamp of its message.
LEMMA CallStep ==
  ASSUME StoreTypeOK, WorkersOK, LagOK, NEW w \in Workers,
         CallOpen(w) \/ CallClose(w) \/ CallPush(w) \/ CallTouch(w)
  PROVE  \A t \in Sids : ScoreStep(t)
<1> DEFINE m == worker[w].msg
<1>1. worker[w].pc # "idle"
  BY DEF CallOpen, CallClose, CallPush, CallTouch, Handles
<1>2. m \in Message /\ m.age <= MaxLag
  BY <1>1, InHand DEF LagOK
<1>3. m.sid \in Sids /\ m.age \in Age
  BY <1>2, MessageFields
<1>4. CASE CallClose(w)
  BY <1>3, <1>4 DEF CallClose, CloseSession, ScoreStep, StoreTypeOK
<1>5. CASE CallOpen(w) \/ CallPush(w) \/ CallTouch(w)
  <2>1. ZAdd(m.sid, m.age)
    BY <1>5 DEF CallOpen, CallPush, CallTouch, OpenSession, PushActivity, TouchOrCreateSession
  <2>2. \A t \in Sids \ {m.sid} : hash'[t] = hash[t]
    BY <1>5 DEF CallOpen, CallPush, CallTouch, OpenSession, PushActivity, TouchOrCreateSession,
       StoreTypeOK
  <2> QED  BY <1>2, <1>3, <2>1, <2>2, ZAddStep
<1> QED  BY <1>4, <1>5

\* So does every step of the daemon and of what is around it.
LEMMA UntimedStep ==
  ASSUME StoreTypeOK, BridgeTypeOK, LagOK, NextUntimed
  PROVE  \A t \in Sids : ScoreStep(t)
<1>1. WorkersOK /\ TickerOK
  BY TypeParts
<1>2. CASE UNCHANGED storeVars
  BY <1>2 DEF storeVars, ScoreStep
<1>3. CASE Sessions
  BY <1>2, <1>3 DEF Sessions, Start, Exit, Reuse, PublishClose, PublishOther, PublishActivity,
     PublishOpen, Publish
<1>4. CASE Network
  BY <1>2, <1>4 DEF Network, Deliver, Redeliver, Lose
<1>5. ASSUME NEW w \in Workers,
             WorkerTake(w) \/ WorkerStep(w) \/ WorkerError(w) \/ WorkerNoReply(w)
      PROVE  \A t \in Sids : ScoreStep(t)
  <2>1. \/ UNCHANGED storeVars
        \/ CallOpen(w) \/ CallClose(w) \/ CallPush(w) \/ CallTouch(w)
    BY <1>5 DEF WorkerTake, WorkerStep, WorkerError, WorkerNoReply, WorkerOpen, WorkerClose,
       WorkerIgnore, WorkerExists, WorkerPush, WorkerTouch
  <2> QED  BY <1>1, <1>2, <2>1, CallStep
<1>6. ASSUME NEW v \in ticker.views, TickerTouch(v)
      PROVE  \A t \in Sids : ScoreStep(t)
  <2>1. v.sid \in Sids /\ ticker.now \in Age /\ ticker.pass \in Age
    BY <1>1, <1>6 DEF TickerOK, TickerState
  <2>2. ticker.now <= MaxLag
    BY <2>1, BridgeAssumption, AgeCapAssumption DEF LagOK, Age
  <2>3. CASE TouchSession(v.sid, ticker.now)
    <3>1. \A t \in Sids \ {v.sid} : hash'[t] = hash[t]
      BY <2>3 DEF TouchSession, StoreTypeOK
    <3> QED  BY <2>1, <2>2, <2>3, <3>1, ZAddStep DEF TouchSession
  <2> QED  BY <1>2, <1>6, <2>3 DEF TickerTouch
<1>7. CASE SweepServed
  BY <1>7 DEF SweepServed, SweepExpired, ScoreStep
<1>8. CASE TickerError \/ TickerRange \/ TickerNow \/ SweepFails \/ \E s \in Sids : TickerGet(s)
  BY <1>2, <1>8 DEF TickerError, TickerRange, TickerNow, SweepFails, TickerGet
<1>9. CASE Stop
  BY <1>2, <1>9 DEF Stop
<1>10. CASE Boot
  <2>1. 0 \in Age /\ 0 <= MaxLag
    BY AgeCapAssumption, BridgeAssumption DEF Age
  <2>2. CASE TouchActiveSessions({s \in Sids : Active(s)}, 0)
    BY <2>1, <2>2 DEF TouchActiveSessions, ScoreStep
  <2> QED  BY <1>2, <1>10, <2>2 DEF Boot
<1> QED
  BY <1>3, <1>4, <1>5, <1>6, <1>7, <1>8, <1>9, <1>10 DEF NextUntimed, TickerStep, TickerSweep

\* Only the sweep evicts: no other step ends a pass of the ticker while the
\* daemon is up and takes a member out (bridge.go:199-206).
LEMMA OnlyTheSweepEvicts ==
  ASSUME BridgeTypeOK, [Next]_vars, NEW s \in Sids, Evicts(s)
  PROVE  SweepServed
<1>1. /\ ticker.pc = "touch" /\ ticker'.pc = "wait" /\ ticker' # ticker
      /\ phase' = "up" /\ ticker' = Waiting /\ zset' # zset
  BY DEF Evicts, Waiting, Active
<1>2. ticker \in TickerState
  BY TypeParts DEF TickerOK
<1>3. ~UNCHANGED vars
  BY <1>1 DEF vars, bridgeVars
<1>4. ~Sessions
  BY <1>1 DEF Sessions, Start, Exit, Reuse, PublishClose, PublishOther, PublishActivity, PublishOpen,
     Publish
<1>5. ~Network
  BY <1>1 DEF Network, Deliver, Redeliver, Lose
<1>6. ASSUME NEW w \in Workers,
             WorkerTake(w) \/ WorkerStep(w) \/ WorkerError(w) \/ WorkerNoReply(w)
      PROVE  FALSE
  BY <1>1, <1>6 DEF WorkerTake, WorkerStep, WorkerError, WorkerNoReply, WorkerOpen, WorkerClose,
     WorkerIgnore, WorkerExists, WorkerPush, WorkerTouch, WorkerDone, bridgeVars
<1>7. ~Stop /\ ~Boot
  BY <1>1 DEF Stop, Boot
<1>8. ~Tick
  <2>1. ASSUME Tick PROVE FALSE
    <3>1. ticker' = [ticker EXCEPT !.pass = Older(ticker.pass), !.now = Older(ticker.now)]
      BY <1>1, <2>1 DEF Tick
    <3> QED  BY <1>1, <1>2, <3>1 DEF TickerState
  <2> QED  BY <2>1
<1>9. ~TickerError
  BY <1>1 DEF TickerError, storeVars
<1>10. ~TickerRange /\ ~TickerNow /\ ~SweepFails /\ \A t \in Sids : ~TickerGet(t)
  <2>1. ~TickerRange /\ ~TickerNow /\ \A t \in Sids : ~TickerGet(t)
    BY <1>1 DEF TickerRange, TickerNow, TickerGet
  <2>2. ~SweepFails
    BY <1>1 DEF SweepFails, storeVars
  <2> QED  BY <2>1, <2>2
<1>11. ASSUME NEW v \in ticker.views, TickerTouch(v)
       PROVE  FALSE
  <2>1. ticker' = [ticker EXCEPT !.views = @ \ {v}]
    BY <1>11 DEF TickerTouch, TickerTo
  <2> QED  BY <1>1, <1>2, <2>1 DEF TickerState
<1> QED
  BY <1>3, <1>4, <1>5, <1>6, <1>7, <1>8, <1>9, <1>10, <1>11
     DEF Next, NextUntimed, TickerStep, TickerSweep

-----------------------------------------------------------------------------
(* Whose pid and host a message, and then a hash, carries.                 *)

\* The pids that the hooks of a session have sent so far.
OwnPid(s, pid) == pid = HookPid \/ pid \in 1 .. life[s]

MessagesOwn == \A m \in InFlight : m.kind = "open" => OwnPid(m.sid, m.pid)

HashesOwn ==
  \A s \in Sids : hash[s].pid # Unset => hash[s].host = home[s] /\ OwnPid(s, hash[s].pid)

\* The sessions stay where they are, and one that has come to run is a new process.
LifeStep(s) ==
  /\ home'[s] = home[s]
  /\ \/ life'[s] = life[s] /\ (s \in running' => s \in running)
     \/ life'[s] = life[s] + 1

\* No step but a start changes that (session-start.sh:46-49).
LEMMA LivesStep ==
  ASSUME BridgeTypeOK, [Next]_vars, NEW s \in Sids
  PROVE  LifeStep(s)
<1>1. ClaudeOK
  BY TypeParts
<1>2. CASE UNCHANGED <<home, life, running>>
  BY <1>2 DEF LifeStep
<1>3. ASSUME NEW t \in Sids, Start(t)
      PROVE  LifeStep(s)
  BY <1>1, <1>3 DEF Start, LifeStep, ClaudeOK
<1>4. ASSUME NEW t \in Sids, Exit(t)
      PROVE  LifeStep(s)
  BY <1>4 DEF Exit, LifeStep
<1>5. ASSUME NEW t \in Sids, \/ PublishClose(t) \/ PublishOther(t)
                             \/ \E c \in Cwds : PublishActivity(t, c) \/ PublishOpen(t, c)
      PROVE  UNCHANGED <<home, life, running>>
  BY <1>5 DEF PublishClose, PublishOther, PublishActivity, PublishOpen, Publish
<1>6. CASE Network \/ \E pid \in 1 .. Lives : Reuse(pid)
  BY <1>2, <1>6 DEF Network, Deliver, Redeliver, Lose, Reuse
<1>7. ASSUME NEW w \in Workers,
             WorkerTake(w) \/ WorkerStep(w) \/ WorkerError(w) \/ WorkerNoReply(w)
      PROVE  UNCHANGED <<home, life, running>>
  BY <1>7 DEF WorkerTake, WorkerStep, WorkerError, WorkerNoReply, WorkerOpen, WorkerClose,
     WorkerIgnore, WorkerExists, WorkerPush, WorkerTouch, WorkerDone, bridgeVars
<1>8. CASE TickerStep \/ TickerError
  BY <1>2, <1>8 DEF TickerStep, TickerError, TickerRange, TickerGet, TickerNow, TickerTouch,
     TickerSweep, SweepServed, SweepFails, TickerTo
<1>9. CASE Stop \/ Boot \/ Tick \/ UNCHANGED vars
  BY <1>2, <1>9 DEF Stop, Boot, Tick, vars, bridgeVars
<1> QED
  BY <1>2, <1>3, <1>4, <1>5, <1>6, <1>7, <1>8, <1>9 DEF Next, NextUntimed, Sessions

\* What a hook has sent stays one of its session's.
LEMMA OwnStays ==
  ASSUME BridgeTypeOK, [Next]_vars, NEW s \in Sids, NEW pid, OwnPid(s, pid)
  PROVE  pid = HookPid \/ pid \in 1 .. life'[s]
<1>1. life[s] \in Nat
  BY TypeParts, BridgeAssumption DEF ClaudeOK
<1>2. life'[s] = life[s] \/ life'[s] = life[s] + 1
  BY LivesStep DEF LifeStep
<1> QED  BY <1>1, <1>2 DEF OwnPid

\* A worker that goes on with the message it has, or takes one that is there.
LEMMA TakesNoNew ==
  ASSUME WorkersOK, NEW w \in Workers, NEW q, NEW M,
         worker' = [worker EXCEPT ![w] = q], q.pc # "idle" => q.msg \in M,
         \A v \in Busy : worker[v].msg \in M
  PROVE  \A v \in Busy' : worker'[v].msg \in M
<1>1. \A v \in Workers : worker'[v] = IF v = w THEN q ELSE worker[v]
  BY DEF WorkersOK
<1> QED  BY <1>1 DEF Busy

\* Nobody but the hooks makes a message (bridge.go:136-142, 164-177).
LEMMA NoNewMessage ==
  ASSUME BridgeTypeOK, NextUntimed, ~Sessions
  PROVE  InFlight' \subseteq InFlight
<1>1. NetOK /\ ChanOK /\ WorkersOK
  BY TypeParts
<1>2. CASE UNCHANGED <<net, chan, worker>>
  BY <1>2 DEF InFlight, Busy
<1>3. CASE Network
  <2>1. PICK m \in net : Deliver(m) \/ Redeliver(m) \/ Lose(m)
    BY <1>3 DEF Network
  <2>2. m \in Message
    BY <1>1, <2>1 DEF NetOK
  <2>3. \A i \in 1 .. Len(chan') : chan'[i] = m \/ \E j \in 1 .. Len(chan) : chan'[i] = chan[j]
    <3>1. CASE Receive(m)
      BY <1>1, <2>2, <3>1, ReceiveFact DEF ChanOK
    <3>2. CASE UNCHANGED chan
      BY <3>2
    <3> QED  BY <2>1, <3>1, <3>2 DEF Deliver, Redeliver, Lose
  <2>4. net' \subseteq net /\ UNCHANGED worker
    BY <2>1 DEF Deliver, Redeliver, Lose
  <2> QED  BY <2>1, <2>3, <2>4 DEF InFlight, Busy
<1>4. ASSUME NEW w \in Workers,
             WorkerTake(w) \/ WorkerStep(w) \/ WorkerError(w) \/ WorkerNoReply(w)
      PROVE  InFlight' \subseteq InFlight
  <2>1. \A v \in Busy : worker[v].msg \in InFlight
    BY DEF InFlight
  <2>2. CASE WorkerTake(w)
    <3>1. chan # <<>> /\ chan \in Seq(Message) /\ chan' = Tail(chan) /\ net' = net
      BY <1>1, <2>2 DEF WorkerTake, ChanOK
    <3>2. /\ Head(chan) = chan[1] /\ 1 \in 1 .. Len(chan)
          /\ \A i \in 1 .. Len(chan') : chan'[i] = chan[i + 1] /\ i + 1 \in 1 .. Len(chan)
      BY <3>1
    <3>3. Head(chan) \in InFlight /\ \A i \in 1 .. Len(chan') : chan'[i] \in InFlight
      BY <3>2 DEF InFlight
    <3> DEFINE q == [pc |-> "handle", msg |-> Head(chan), existed |-> FALSE]
    <3>4. worker' = [worker EXCEPT ![w] = q] /\ q.msg \in InFlight
      BY <2>2, <3>3 DEF WorkerTake
    <3> HIDE DEF q
    <3>5. \A v \in Busy' : worker'[v].msg \in InFlight
      BY <1>1, <2>1, <3>4, TakesNoNew
    <3>6. \A m \in net' : m \in InFlight
      BY <3>1 DEF InFlight
    <3> QED  BY <3>3, <3>5, <3>6 DEF InFlight
  <2>3. ASSUME NEW q, worker' = [worker EXCEPT ![w] = q], UNCHANGED <<net, chan>>,
               q.pc # "idle" => worker[w].pc # "idle" /\ q.msg = worker[w].msg
        PROVE  InFlight' \subseteq InFlight
    <3>1. q.pc # "idle" => q.msg \in InFlight
      BY <2>1, <2>3 DEF Busy
    <3>2. \A v \in Busy' : worker'[v].msg \in InFlight
      BY <1>1, <2>1, <2>3, <3>1, TakesNoNew
    <3> QED  BY <2>3, <3>2 DEF InFlight
  <2>4. CASE WorkerDone(w)
    BY <2>3, <2>4 DEF WorkerDone, Idle
  <2>5. CASE WorkerExists(w)
    <3> DEFINE there == HashExists(worker[w].msg.sid)
               q == [worker[w] EXCEPT !.pc = "push", !.existed = there]
    <3>1. worker[w] \in WorkerState /\ worker[w].pc # "idle" /\ UNCHANGED <<net, chan>>
      BY <1>1, <2>5 DEF WorkersOK, WorkerExists, Handles
    <3>2. worker' = [worker EXCEPT ![w] = q]
      BY <1>1, <2>5 DEF WorkerExists, WorkersOK
    <3> HIDE DEF there
    <3>3. q.msg = worker[w].msg
      BY <3>1 DEF WorkerState
    <3> HIDE DEF q
    <3> QED  BY <2>3, <3>1, <3>2, <3>3
  <2>6. CASE WorkerPush(w)
    <3> DEFINE q == [worker[w] EXCEPT !.pc = "touch", !.existed = FALSE]
    <3>1. worker[w] \in WorkerState /\ worker[w].pc # "idle" /\ UNCHANGED <<net, chan>>
      BY <1>1, <2>6 DEF WorkersOK, WorkerPush, CallPush
    <3>2. worker' = [worker EXCEPT ![w] = q]
      BY <1>1, <2>6 DEF WorkerPush, WorkersOK
    <3>3. q.msg = worker[w].msg
      BY <3>1 DEF WorkerState
    <3> HIDE DEF q
    <3> QED  BY <2>3, <3>1, <3>2, <3>3
  <2>7. CASE UNCHANGED bridgeVars
    BY <1>2, <2>7 DEF bridgeVars
  <2> QED
    BY <1>4, <2>2, <2>4, <2>5, <2>6, <2>7
       DEF WorkerStep, WorkerOpen, WorkerClose, WorkerIgnore, WorkerTouch, WorkerError,
           WorkerNoReply
<1>5. CASE TickerStep \/ TickerError
  BY <1>2, <1>5 DEF TickerStep, TickerError, TickerRange, TickerGet, TickerNow, TickerTouch,
     TickerSweep, SweepServed, SweepFails, TickerTo
<1>6. CASE Boot
  BY <1>2, <1>6 DEF Boot
<1>7. CASE Stop
  <2>1. net' = net /\ chan' = <<>> /\ \A w \in Workers : worker'[w].pc = "idle"
    BY <1>7 DEF Stop, Idle
  <2> QED  BY <2>1 DEF InFlight, Busy
<1> QED  BY <1>3, <1>4, <1>5, <1>6, <1>7 DEF NextUntimed


\* A hook sends its own pid or that of the claude it runs for.
LEMMA SentOwn ==
  ASSUME BridgeTypeOK, Sessions, NEW m \in InFlight', m \notin InFlight, m.kind = "open"
  PROVE  OwnPid(m.sid, m.pid)
<1>1. ASSUME NEW n, Publish(n), n.kind # "open"
      PROVE  FALSE
  BY <1>1 DEF Publish, InFlight, Busy
<1>2. ASSUME NEW s \in Sids,
             PublishClose(s) \/ PublishOther(s) \/ \E c \in Cwds : PublishActivity(s, c)
      PROVE  FALSE
  BY <1>1, <1>2 DEF PublishClose, PublishOther, PublishActivity
<1>3. ASSUME NEW s \in Sids, NEW c \in Cwds, PublishOpen(s, c)
      PROVE  OwnPid(m.sid, m.pid)
  <2> DEFINE pid == IF PidSource = "hook" THEN HookPid ELSE life[s]
             n == [kind |-> "open", sid |-> s, age |-> 0, cwd |-> c, pid |-> pid]
  <2>1. Publish(n) /\ s \in running /\ n.sid = s /\ n.pid = pid
    BY <1>3 DEF PublishOpen
  <2>2. life[s] \in 1 .. life[s]
    BY <2>1, TypeParts, BridgeAssumption DEF ClaudeOK
  <2>3. OwnPid(s, pid)
    BY <2>2 DEF OwnPid
  <2> HIDE DEF n, pid
  <2>4. m = n
    BY <2>1 DEF Publish, InFlight, Busy
  <2> QED  BY <2>1, <2>3, <2>4
<1>4. CASE UNCHANGED <<net, chan, worker>>
  BY <1>4 DEF InFlight, Busy
<1> QED  BY <1>2, <1>3, <1>4 DEF Sessions, Start, Exit, Reuse

\* Time passes messages only.
LEMMA TickMessages ==
  ASSUME BridgeTypeOK, Tick, NEW m \in InFlight'
  PROVE  \E n \in InFlight : m = OlderMessage(n) /\ n \in Message
<1>1. NetOK /\ ChanOK /\ WorkersOK
  BY TypeParts
<1>2. CASE m \in net'
  BY <1>1, <1>2 DEF Tick, InFlight, NetOK
<1>3. ASSUME NEW i \in 1 .. Len(chan'), m = chan'[i]
      PROVE  \E n \in InFlight : m = OlderMessage(n) /\ n \in Message
  <2>1. chan' = [j \in 1 .. Len(chan) |-> OlderMessage(chan[j])] /\ Len(chan) \in Nat
    BY <1>1 DEF Tick, ChanOK
  <2>2. Len(chan') = Len(chan)
    BY <2>1
  <2>3. m = OlderMessage(chan[i]) /\ i \in 1 .. Len(chan) /\ chan[i] \in Message
    BY <1>1, <1>3, <2>1, <2>2 DEF ChanOK
  <2> QED  BY <2>3 DEF InFlight
<1>4. ASSUME NEW w \in Workers, worker'[w].pc # "idle", m = worker'[w].msg
      PROVE  \E n \in InFlight : m = OlderMessage(n) /\ n \in Message
  <2>1. worker[w] \in WorkerState /\ worker[w].pc # "idle"
    BY <1>1, <1>4, TickWorker DEF WorkersOK
  <2>2. worker'[w] = [worker[w] EXCEPT !.msg = OlderMessage(worker[w].msg)]
    BY <1>1, <2>1, TickWorker
  <2>3. m = OlderMessage(worker[w].msg)
    BY <1>4, <2>1, <2>2 DEF WorkerState
  <2> QED  BY <1>1, <2>1, <2>3, InHand DEF InFlight, Busy
<1> QED  BY <1>2, <1>3, <1>4 DEF InFlight, Busy

\* A message under way has a session.
LEMMA InFlightFact ==
  ASSUME BridgeTypeOK, NEW m \in InFlight
  PROVE  m \in Message /\ m.sid \in Sids
<1>1. m \in Message
  BY TypeParts, InHand DEF NetOK, ChanOK, InFlight, Busy
<1> QED  BY <1>1, MessageFields

\* Every message that is under way has been sent by a hook of its session.
LEMMA MessagesOwnNext ==
  ASSUME BridgeTypeOK, MessagesOwn, [Next]_vars
  PROVE  MessagesOwn'
<1> SUFFICES ASSUME NEW m \in InFlight', m.kind = "open"
             PROVE  OwnPid(m.sid, m.pid)'
  BY DEF MessagesOwn
<1>1. ASSUME NEW n \in InFlight, n.kind = "open", m.sid = n.sid, m.pid = n.pid
      PROVE  OwnPid(m.sid, m.pid)'
  BY <1>1, InFlightFact, OwnStays DEF MessagesOwn, OwnPid
<1>2. CASE m \in InFlight
  BY <1>1, <1>2
<1>3. CASE Tick
  <2>1. PICK n \in InFlight : m = OlderMessage(n) /\ n \in Message
    BY <1>3, TickMessages
  <2>2. OlderMessage(n).kind = n.kind
    BY <2>1, OlderMessageFact
  <2>3. OlderMessage(n) = [n EXCEPT !.age = Older(n.age)]
    BY DEF OlderMessage
  <2>4. n \in [kind : {"open"}, sid : Sids, age : Age, cwd : Cwds, pid : Pids]
    BY <2>1, <2>2 DEF Message
  <2>5. m.sid = n.sid /\ m.pid = n.pid
    BY <2>1, <2>3, <2>4
  <2> QED  BY <1>1, <2>1, <2>2, <2>5
<1>4. CASE Sessions /\ m \notin InFlight
  <2>1. OwnPid(m.sid, m.pid)
    BY <1>4, SentOwn
  <2>2. life' = life \/ m \in InFlight
    BY <1>4 DEF Sessions, Start, Exit, Reuse, PublishClose, PublishOther, PublishActivity,
       PublishOpen, Publish, InFlight, Busy
  <2> QED  BY <1>4, <2>1, <2>2 DEF OwnPid
<1>5. CASE UNCHANGED vars
  BY <1>2, <1>5 DEF vars, bridgeVars, InFlight, Busy
<1> QED  BY <1>2, <1>3, <1>4, <1>5, NoNewMessage DEF Next

\* A step leaves host and pid of a hash alone, or it has none then, or an open sets
\* them.
FieldStep(s) ==
  \/ hash'[s].pid = Unset
  \/ hash'[s].pid = hash[s].pid /\ hash'[s].host = hash[s].host
  \/ hash'[s].host = home[s] /\ OwnPid(s, hash'[s].pid)

\* The methods other than OpenSession (session.go:45-46, 65-67, 84-90,
\* activity.go:47-59).
LEMMA MethodsKeepFields ==
  ASSUME StoreTypeOK, NEW s \in Sids, NEW a \in Age, NEW t \in Sids,
         \/ TouchSession(s, a) \/ CloseSession(s)
         \/ \E c \in Cwds : TouchOrCreateSession(s, a, c)
         \/ \E c \in Cwds, existed \in BOOLEAN : PushActivity(s, a, c, existed)
  PROVE  FieldStep(t)
<1>1. hash \in [Sids -> HashRecord]
  BY DEF StoreTypeOK
<1>2. hash[s] \in HashRecord
  BY <1>1
<1>3. ASSUME NEW q, hash' = [hash EXCEPT ![s] = q], q.pid = hash[s].pid, q.host = hash[s].host
      PROVE  FieldStep(t)
  BY <1>1, <1>3 DEF FieldStep
<1>4. CASE TouchSession(s, a)
  <2> DEFINE q == [hash[s] EXCEPT !.ttl = HashTTL, !.lastSeen = a]
  <2>1. hash' = [hash EXCEPT ![s] = q]
    BY <1>1, <1>4 DEF TouchSession
  <2>2. q.pid = hash[s].pid /\ q.host = hash[s].host
    BY <1>2 DEF HashRecord
  <2> HIDE DEF q
  <2> QED  BY <1>3, <2>1, <2>2
<1>5. CASE CloseSession(s)
  <2> DEFINE q == [hash[s] EXCEPT !.ttl = GraceTTL]
  <2>1. hash' = [hash EXCEPT ![s] = q] \/ hash' = hash
    BY <1>1, <1>5 DEF CloseSession
  <2>2. q.pid = hash[s].pid /\ q.host = hash[s].host
    BY <1>2 DEF HashRecord
  <2> HIDE DEF q
  <2> QED  BY <1>3, <2>1, <2>2 DEF FieldStep
<1>6. ASSUME NEW c \in Cwds, TouchOrCreateSession(s, a, c)
      PROVE  FieldStep(t)
  <2> DEFINE cwd == IF hash[s].cwd = Unset THEN c ELSE hash[s].cwd
             q == [hash[s] EXCEPT !.ttl = HashTTL, !.lastSeen = a, !.cwd = cwd]
  <2>1. hash' = [hash EXCEPT ![s] = q]
    BY <1>1, <1>2, <1>6 DEF TouchOrCreateSession, HashRecord
  <2> HIDE DEF cwd
  <2>2. q.pid = hash[s].pid /\ q.host = hash[s].host
    BY <1>2 DEF HashRecord
  <2> HIDE DEF q
  <2> QED  BY <1>3, <2>1, <2>2
<1>7. ASSUME NEW c \in Cwds, NEW existed \in BOOLEAN, PushActivity(s, a, c, existed)
      PROVE  FieldStep(t)
  <2> DEFINE cwd == IF existed THEN hash[s].cwd ELSE c
             q == [hash[s] EXCEPT !.ttl = HashTTL, !.lastSeen = a, !.cwd = cwd]
  <2>1. hash' = [hash EXCEPT ![s] = q]
    BY <1>1, <1>2, <1>7 DEF PushActivity, HashRecord
  <2> HIDE DEF cwd
  <2>2. q.pid = hash[s].pid /\ q.host = hash[s].host
    BY <1>2 DEF HashRecord
  <2> HIDE DEF q
  <2> QED  BY <1>3, <2>1, <2>2
<1> QED  BY <1>4, <1>5, <1>6, <1>7

\* Every step of the daemon and of Redis.
LEMMA FieldsStep ==
  ASSUME StoreTypeOK, BridgeTypeOK, MessagesOwn, [Next]_vars, NEW s \in Sids
  PROVE  FieldStep(s)
<1>1. WorkersOK /\ ClaudeOK /\ TickerOK
  BY TypeParts
<1>2. CASE UNCHANGED hash
  BY <1>2 DEF FieldStep
<1>3. CASE UNCHANGED vars \/ Sessions \/ Network \/ Stop \/ Boot \/ TickerError \/ SweepServed
  BY <1>2, <1>3 DEF vars, storeVars, Sessions, Start, Exit, Reuse, PublishClose, PublishOther,
     PublishActivity, PublishOpen, Publish, Network, Deliver, Redeliver, Lose, Stop, Boot,
     TouchActiveSessions, TickerError, SweepServed, SweepExpired
<1>4. CASE TickerRange \/ TickerNow \/ SweepFails \/ \E t \in Sids : TickerGet(t)
  BY <1>2, <1>4 DEF TickerRange, TickerNow, SweepFails, TickerGet, storeVars
<1>5. ASSUME NEW v \in ticker.views, TickerTouch(v)
      PROVE  FieldStep(s)
  <2>1. v.sid \in Sids /\ ticker.now \in Age
    BY <1>1 DEF TickerOK, TickerState
  <2>2. TouchSession(v.sid, ticker.now) \/ UNCHANGED hash
    BY <1>5 DEF TickerTouch, storeVars
  <2> QED  BY <1>2, <2>1, <2>2, MethodsKeepFields
<1>6. ASSUME NEW w \in Workers,
             CallOpen(w) \/ CallClose(w) \/ CallPush(w) \/ CallTouch(w)
      PROVE  FieldStep(s)
  <2> DEFINE m == worker[w].msg
  <2>1. worker[w].pc # "idle"
    BY <1>6 DEF CallOpen, CallClose, CallPush, CallTouch, Handles
  <2>2. m \in Message /\ m.sid \in Sids /\ m.age \in Age /\ worker[w].existed \in BOOLEAN
    BY <1>1, <2>1, InHand, MessageFields
  <2>3. m.kind = "activity" => m.cwd \in Cwds
    BY <2>2, MessageFields
  <2>4. CASE CallOpen(w)
    <3>1. m.kind = "open" /\ OwnPid(m.sid, m.pid)
      BY <2>1, <2>4 DEF CallOpen, Handles, MessagesOwn, InFlight, Busy
    <3> DEFINE q == [ttl |-> HashTTL, cwd |-> m.cwd, host |-> home[m.sid], pid |-> m.pid,
                     lastSeen |-> m.age]
    <3>2. hash' = [hash EXCEPT ![m.sid] = q] /\ q.host = home[m.sid] /\ q.pid = m.pid
      BY <2>4 DEF CallOpen, OpenSession
    <3> HIDE DEF q
    <3> QED  BY <2>2, <3>1, <3>2 DEF FieldStep, StoreTypeOK
  <2>5. CASE CallClose(w)
    BY <2>2, <2>5, MethodsKeepFields DEF CallClose
  <2>6. CASE CallPush(w)
    <3>1. m.cwd \in Cwds
      BY <1>1, <2>3, <2>6, InHand DEF CallPush
    <3> QED  BY <2>2, <2>6, <3>1, MethodsKeepFields DEF CallPush
  <2>7. CASE CallTouch(w)
    <3>1. m.cwd \in Cwds
      BY <1>1, <2>3, <2>7, InHand DEF CallTouch
    <3> QED  BY <2>2, <2>7, <3>1, MethodsKeepFields DEF CallTouch
  <2> QED  BY <1>6, <2>4, <2>5, <2>6, <2>7
<1>7. ASSUME NEW w \in Workers,
             WorkerTake(w) \/ WorkerStep(w) \/ WorkerError(w) \/ WorkerNoReply(w)
      PROVE  FieldStep(s)
  BY <1>2, <1>6, <1>7 DEF WorkerTake, WorkerStep, WorkerError, WorkerNoReply, WorkerOpen,
     WorkerClose, WorkerIgnore, WorkerExists, WorkerPush, WorkerTouch, storeVars
<1>8. CASE Tick
  <2>1. hash'[s] = AgeHash(hash[s]) /\ hash[s] \in HashRecord
    BY <1>8 DEF Tick, Elapse, StoreTypeOK
  <2> DEFINE q == [hash[s] EXCEPT !.ttl = hash[s].ttl - 1, !.lastSeen = Older(hash[s].lastSeen)]
  <2>2. hash'[s] = NoHash \/ hash'[s] = q
    BY <2>1 DEF AgeHash
  <2>3. q.pid = hash[s].pid /\ q.host = hash[s].host /\ NoHash.pid = Unset
    BY <2>1 DEF NoHash, HashRecord
  <2> HIDE DEF q
  <2> QED  BY <2>2, <2>3 DEF FieldStep
<1> QED
  BY <1>3, <1>4, <1>5, <1>7, <1>8 DEF Next, NextUntimed, TickerStep, TickerSweep

\* The hash of a session has its host and a pid of its own.
LEMMA HashesOwnNext ==
  ASSUME StoreTypeOK, BridgeTypeOK, MessagesOwn, HashesOwn, [Next]_vars
  PROVE  HashesOwn'
<1> SUFFICES ASSUME NEW s \in Sids, hash'[s].pid # Unset
             PROVE  /\ hash'[s].host = home'[s]
                    /\ hash'[s].pid = HookPid \/ hash'[s].pid \in 1 .. life'[s]
  BY DEF HashesOwn, OwnPid
<1>1. home'[s] = home[s]
  BY LivesStep DEF LifeStep
<1>2. hash'[s].host = home[s] /\ OwnPid(s, hash'[s].pid)
  BY FieldsStep DEF FieldStep, HashesOwn
<1> QED  BY <1>1, <1>2, OwnStays

-----------------------------------------------------------------------------
(* A pass of the ticker spares what it can probe.                          *)

\* Nothing was heard of the session since the pass began, and it can be probed.
Due(s) ==
  /\ Active(s) /\ zset[s] > ticker.pass + MaxLag
  /\ HashExists(s) /\ Probeable(s)

View(s) == [sid |-> s, pid |-> life[s]]

\* So the pass will come to it: it is yet to be read, or it has been read as it is.
Pending(s) ==
  /\ ticker.pc = "list" => s \in ticker.members \/ View(s) \in ticker.views
  /\ ticker.pc = "touch" => View(s) \in ticker.views

PassOK == \A s \in Sids : Due(s) => Pending(s)

ProbeInv == BridgeInv /\ LagOK /\ MessagesOwn /\ HashesOwn /\ PassOK

\* A session that is due after a step of the pass was due before it, with the same
\* process and the same hash: whatever writes the hash writes the score, and a pid
\* is in no hash before its process runs.
LEMMA DueBefore ==
  ASSUME ProbeInv, NextUntimed, NEW s \in Sids, Due(s)', ticker'.pass = ticker.pass
  PROVE  /\ Due(s) /\ life'[s] = life[s]
         /\ zset'[s] # Absent /\ zset'[s] > ticker.pass + MaxLag
<1>1. StoreTypeOK /\ BridgeTypeOK /\ LagOK /\ ClaudeOK /\ HashesOwn
  BY TypeParts DEF ProbeInv, BridgeInv, StoreInv
<1>2. ticker.pass \in Nat /\ MaxLag \in Nat /\ Lives \in Nat
  BY <1>1, BridgeAssumption, AgeCapAssumption DEF BridgeTypeOK, Age
<1>3. /\ zset'[s] # Absent /\ zset'[s] > ticker.pass + MaxLag
      /\ hash'[s].ttl > 0 /\ home'[s] = Here /\ s \in running' /\ hash'[s].pid = life'[s]
  BY DEF Due, Active, HashExists, Probeable
<1>4. ~(zset'[s] \in Age /\ zset'[s] <= MaxLag)
  BY <1>2, <1>3, AgeCapAssumption DEF Age
<1>5. zset'[s] = zset[s] /\ hash'[s] = hash[s]
  BY <1>1, <1>3, <1>4, UntimedStep DEF ScoreStep
<1>6. LifeStep(s)
  BY <1>1, LivesStep DEF Next
<1>7. life'[s] = life[s] /\ s \in running
  <2>1. CASE life'[s] = life[s] + 1
    <3>1. life[s] \in 0 .. Lives /\ life'[s] \in 0 .. Lives
      BY <1>1, ClaudeStep DEF ClaudeOK, Next
    <3>2. life'[s] \in 1 .. Lives
      BY <1>2, <2>1, <3>1
    <3>3. hash[s].pid # Unset /\ hash[s].pid # HookPid
      BY <1>3, <1>5, <3>2, BridgeAssumption
    <3>4. hash[s].pid \in 1 .. life[s]
      BY <1>1, <3>3 DEF HashesOwn, OwnPid
    <3> QED  BY <1>2, <1>3, <1>5, <2>1, <3>1, <3>4
  <2>2. CASE life'[s] # life[s] + 1
    BY <1>3, <1>6, <2>2 DEF LifeStep
  <2> QED  BY <2>1, <2>2
<1> QED  BY <1>3, <1>5, <1>6, <1>7 DEF Due, Active, HashExists, Probeable, LifeStep

\* The hash of such a session leads to its process.
LEMMA DueFact ==
  ASSUME ProbeInv, NEW s \in Sids, Due(s), Here = Local
  PROVE  hash[s].pid = life[s] /\ hash[s].host = Local /\ PidAlive(life[s])
<1>1. life[s] \in 0 .. Lives /\ life[s] > 0 /\ Lives \in Nat
  BY TypeParts, BridgeAssumption DEF ProbeInv, BridgeInv, ClaudeOK, Due, Probeable
<1>2. life[s] \in 1 .. Lives
  BY <1>1
<1>3. life[s] # Unset
  BY <1>2, BridgeAssumption
<1> QED  BY <1>3 DEF ProbeInv, HashesOwn, Due, Probeable, PidAlive, Taken

\* The steps of the ticker keep a session that is due in sight, and the touch makes
\* it fresh (bridge.go:221-242).
LEMMA TickerKeepsPass ==
  ASSUME ProbeInv, TickerStep, NEW s \in Sids, Due(s)', Here = Local
  PROVE  Pending(s)'
<1>1. ticker \in TickerState
  BY TypeParts DEF ProbeInv, BridgeInv, TickerOK
<1>2. CASE TickerSweep
  BY <1>2 DEF TickerSweep, SweepServed, SweepFails, TickerTo, Waiting, Pending
<1> SUFFICES ASSUME ~TickerSweep PROVE Pending(s)'
  BY <1>2
<1>3. NextUntimed
  BY DEF NextUntimed
<1>4. ASSUME ticker'.pass = ticker.pass
      PROVE  /\ Due(s) /\ Pending(s) /\ View(s)' = View(s)
             /\ hash[s].pid = life[s] /\ hash[s].host = Local /\ PidAlive(life[s])
             /\ zset'[s] > ticker.pass + MaxLag
  BY <1>3, <1>4, DueBefore, DueFact DEF ProbeInv, PassOK, View
<1>5. CASE TickerRange
  <2> DEFINE all == {t \in Sids : Active(t)}
             q == [ticker EXCEPT !.pc = "list", !.members = all]
  <2>1. ticker' = q
    BY <1>5 DEF TickerRange, TickerTo
  <2> HIDE DEF all
  <2>2. ticker'.pass = ticker.pass /\ ticker'.pc = "list" /\ ticker'.members = all
    BY <1>1, <2>1 DEF TickerState
  <2>3. s \in all
    BY <1>4, <2>2 DEF all, Due
  <2> QED  BY <2>2, <2>3 DEF Pending
<1>6. ASSUME NEW t \in Sids, TickerGet(t)
      PROVE  Pending(s)'
  <2> DEFINE view == [sid |-> t, pid |-> hash[t].pid]
             views == IF HashExists(t) /\ hash[t].host = Local
                      THEN ticker.views \cup {view} ELSE ticker.views
             q == [ticker EXCEPT !.members = @ \ {t}, !.views = views]
  <2>1. ticker' = q /\ ticker.pc = "list"
    BY <1>6 DEF TickerGet, TickerTo
  <2> HIDE DEF views
  <2>2. /\ ticker'.pass = ticker.pass /\ ticker'.pc = "list"
        /\ ticker'.members = ticker.members \ {t} /\ ticker'.views = views
    BY <1>1, <2>1 DEF TickerState
  <2>3. ticker.views \subseteq views
    BY DEF views
  <2>4. s = t => View(s) \in views
    BY <1>4, <2>2 DEF views, View, Due
  <2>5. s \in ticker.members \/ View(s) \in ticker.views
    BY <1>4, <2>1, <2>2 DEF Pending
  <2>6. View(s)' = View(s)
    BY <1>4, <2>2
  <2> QED  BY <2>2, <2>3, <2>4, <2>5, <2>6 DEF Pending
<1>7. CASE TickerNow
  <2> DEFINE q == [ticker EXCEPT !.pc = "touch", !.now = 0]
  <2>1. ticker' = q /\ ticker.pc = "list" /\ ticker.members = {}
    BY <1>7 DEF TickerNow, TickerTo
  <2>2. ticker'.pass = ticker.pass /\ ticker'.pc = "touch" /\ ticker'.views = ticker.views
    BY <1>1, <2>1 DEF TickerState
  <2> QED  BY <1>4, <2>1, <2>2 DEF Pending
<1>8. ASSUME NEW v \in ticker.views, TickerTouch(v)
      PROVE  Pending(s)'
  <2> DEFINE q == [ticker EXCEPT !.views = @ \ {v}]
  <2>1. ticker' = q /\ ticker.pc = "touch"
    BY <1>8 DEF TickerTouch, TickerTo
  <2>2. /\ ticker'.pass = ticker.pass /\ ticker'.pc = "touch"
        /\ ticker'.views = ticker.views \ {v}
    BY <1>1, <2>1 DEF TickerState
  <2>3. View(s) \in ticker.views
    BY <1>4, <2>1, <2>2 DEF Pending
  <2>4. v # View(s)
    <3>1. ASSUME v = View(s) PROVE FALSE
      <4>1. TouchSession(s, ticker.now)
        BY <1>4, <1>8, <2>2, <3>1 DEF TickerTouch, View
      <4>2. zset'[s] = ticker.now
        BY <4>1 DEF TouchSession, ZAdd, ProbeInv, BridgeInv, StoreInv, StoreTypeOK
      <4>3. ticker.now \in Nat /\ ticker.pass \in Nat /\ MaxLag \in Nat /\ ticker.now <= ticker.pass
        BY <1>1, BridgeAssumption, AgeCapAssumption DEF TickerState, Age, ProbeInv, LagOK
      <4>4. ticker.now > ticker.pass + MaxLag
        BY <1>4, <2>2, <4>2
      <4> QED  BY <4>3, <4>4
    <3> QED  BY <3>1
  <2>5. View(s)' = View(s)
    BY <1>4, <2>2
  <2> QED  BY <2>2, <2>3, <2>4, <2>5 DEF Pending
<1> QED  BY <1>5, <1>6, <1>7, <1>8 DEF TickerStep

\* Time makes a score no older, compared with the pass, than it was.
LEMMA TickKeepsPass ==
  ASSUME ProbeInv, Tick, NEW s \in Sids, Due(s)', MaxLag < AgeCap
  PROVE  Pending(s)'
<1>1. StoreTypeOK /\ TickerOK /\ ticker \in TickerState
  BY TypeParts DEF ProbeInv, BridgeInv, StoreInv, TickerOK
<1>2. CASE ticker.pc = "wait"
  BY <1>2 DEF Tick, Pending
<1>3. CASE ticker.pc # "wait"
  <2>1. /\ ticker.pass \in Age /\ ticker.pass < MaxLag /\ MaxLag \in Nat /\ AgeCap \in Nat
        /\ ticker.pass \in Nat
    BY <1>1, BridgeAssumption, AgeCapAssumption DEF TickerState, Tick, Timely, Age
  <2>2. Older(ticker.pass) = ticker.pass + 1
    BY <2>1 DEF Older
  <2>3. /\ ticker'.pass = ticker.pass + 1 /\ ticker'.pc = ticker.pc
        /\ ticker'.members = ticker.members /\ ticker'.views = ticker.views
    <3>1. CASE ticker.pc = "list"
      <4>1. ticker' = [ticker EXCEPT !.pass = Older(ticker.pass)]
        BY <3>1 DEF Tick
      <4> QED  BY <1>1, <2>2, <4>1 DEF TickerState
    <3>2. CASE ticker.pc = "touch"
      <4>1. ticker' = [ticker EXCEPT !.pass = Older(ticker.pass), !.now = Older(ticker.now)]
        BY <3>2 DEF Tick
      <4> QED  BY <1>1, <2>2, <4>1 DEF TickerState
    <3> QED  BY <1>1, <1>3, <3>1, <3>2 DEF TickerState
  <2>4. /\ zset'[s] # Absent /\ zset'[s] > ticker.pass + 1 + MaxLag
        /\ hash'[s].ttl > 0 /\ home[s] = Here /\ s \in running /\ hash'[s].pid = life[s]
        /\ life' = life
    BY <2>3 DEF Due, Active, HashExists, Probeable, Tick
  <2>5. Active(s) /\ zset'[s] = Older(zset[s]) /\ zset[s] \in Age
    BY <1>1, <2>4 DEF Tick, Elapse, Active, StoreTypeOK
  <2>6. zset'[s] <= zset[s] + 1 /\ zset[s] \in Nat
    BY <2>1, <2>5, OlderFact DEF Age
  <2>7. zset[s] > ticker.pass + MaxLag
    <3>1. zset'[s] \in Nat
      BY <2>1, <2>5, OlderFact DEF Age
    <3> QED  BY <2>1, <2>4, <2>6, <3>1
  <2>8. HashExists(s) /\ hash[s].pid = hash'[s].pid
    <3>1. hash'[s] = AgeHash(hash[s]) /\ hash[s] \in HashRecord
      BY <1>1 DEF Tick, Elapse, StoreTypeOK
    <3> DEFINE q == [hash[s] EXCEPT !.ttl = hash[s].ttl - 1, !.lastSeen = Older(hash[s].lastSeen)]
    <3>2. ~(hash[s].ttl <= 1)
      BY <2>4, <3>1 DEF AgeHash, NoHash
    <3>3. hash'[s] = q
      BY <3>1, <3>2 DEF AgeHash
    <3>4. q.pid = hash[s].pid
      BY <3>1 DEF HashRecord
    <3>5. hash[s].ttl \in Nat
      BY <3>1, TTLAssumption DEF HashRecord
    <3> HIDE DEF q
    <3> QED  BY <3>2, <3>3, <3>4, <3>5 DEF HashExists
  <2>9. Due(s)
    BY <2>4, <2>5, <2>7, <2>8 DEF Due, Probeable
  <2> QED  BY <2>3, <2>4, <2>9 DEF ProbeInv, PassOK, Pending, View
<1> QED  BY <1>2, <1>3

\* Every step keeps what the pass has in sight, if no call of the ticker fails.
LEMMA ProbeNext ==
  ASSUME ProbeInv, [Next]_vars, Here = Local, "ticker" \notin Faults, MaxLag < AgeCap
  PROVE  ProbeInv'
<1>1. BridgeTypeOK /\ StoreTypeOK /\ LagOK
  BY DEF ProbeInv, BridgeInv, StoreInv
<1>2. BridgeInv' /\ LagOK' /\ MessagesOwn' /\ HashesOwn'
  BY <1>1, BridgeNextInv, LagNext, MessagesOwnNext, HashesOwnNext DEF ProbeInv
<1>3. ASSUME NEW s \in Sids, Due(s)'
      PROVE  Pending(s)'
  <2>1. CASE UNCHANGED vars
    BY <1>3, <2>1 DEF vars, bridgeVars, storeVars, ProbeInv, PassOK, Due, Pending, View, Active,
       HashExists, Probeable
  <2>2. CASE Tick
    BY <1>3, <2>2, TickKeepsPass
  <2>3. CASE TickerStep
    BY <1>3, <2>3, TickerKeepsPass
  <2>4. CASE Stop
    BY <2>4 DEF Stop, Waiting, Pending
  <2>5. CASE NextUntimed /\ UNCHANGED ticker
    <3>1. Due(s) /\ life'[s] = life[s]
      BY <1>3, <2>5, DueBefore
    <3>2. Pending(s)
      BY <3>1 DEF ProbeInv, PassOK
    <3> QED  BY <2>5, <3>1, <3>2 DEF Pending, View
  <2>6. UNCHANGED ticker \/ TickerStep \/ Stop \/ ~NextUntimed
    <3>1. CASE Sessions \/ Network \/ Boot
      BY <3>1 DEF Sessions, Start, Exit, Reuse, PublishClose, PublishOther, PublishActivity,
         PublishOpen, Publish, Network, Deliver, Redeliver, Lose, Boot
    <3>2. ASSUME NEW w \in Workers,
                 WorkerTake(w) \/ WorkerStep(w) \/ WorkerError(w) \/ WorkerNoReply(w)
          PROVE  UNCHANGED ticker
      BY <3>2 DEF WorkerTake, WorkerStep, WorkerError, WorkerNoReply, WorkerOpen,
         WorkerClose, WorkerIgnore, WorkerExists, WorkerPush, WorkerTouch, WorkerDone, bridgeVars
    <3> QED  BY <3>1, <3>2 DEF NextUntimed, TickerError
  <2> QED  BY <2>1, <2>2, <2>3, <2>4, <2>5, <2>6 DEF Next
<1> QED  BY <1>2, <1>3 DEF ProbeInv, PassOK

\* Nothing is read and nobody is listed at first.
LEMMA ProbeInit == Init => ProbeInv
<1> SUFFICES ASSUME Init PROVE ProbeInv
  OBVIOUS
<1>1. MessagesOwn
  BY DEF Init, MessagesOwn, InFlight, Busy, Idle
<1>2. HashesOwn
  BY DEF Init, StoreInit, NoHash, HashesOwn
<1>3. PassOK
  BY DEF Init, StoreInit, PassOK, Due, Active
<1> QED  BY <1>1, <1>2, <1>3, BridgeInitInv, LagInit DEF ProbeInv

\* The sweep evicts no session that could be probed as alive, whatever the workers
\* and Redis' expiry do between the listing, the touches and the sweep of a pass
\* (bridge.go:189-207, 216-245): as long as Redis answers the ticker, hooks and
\* daemon spell the host alike, and a late message and a pass together are shorter
\* than SweepTTL.
THEOREM ProbeablesSurvive ==
  ASSUME Here = Local, "ticker" \notin Faults, 2 * MaxLag < SweepTTL
  PROVE  Spec => ProbeableSurvives
<1>1. MaxLag \in Nat /\ SweepTTL \in Nat /\ AgeCap \in Nat /\ SweepTTL <= AgeCap /\ MaxLag < AgeCap
  BY BridgeAssumption, AgeCapAssumption
<1>2. ProbeInv /\ [Next]_vars => ProbeInv'
  BY <1>1, ProbeNext
<1>3. ProbeInv /\ [Next]_vars
        => [\A s \in Sids : Evicts(s) => ~(HashExists(s) /\ Probeable(s))]_vars
  <2> SUFFICES ASSUME ProbeInv, [Next]_vars, NEW s \in Sids, Evicts(s), HashExists(s),
                      Probeable(s)
               PROVE  FALSE
    OBVIOUS
  <2>1. BridgeTypeOK /\ StoreTypeOK /\ LagOK
    BY DEF ProbeInv, BridgeInv, StoreInv
  <2>2. SweepServed
    BY <2>1, OnlyTheSweepEvicts
  <2>3. zset[s] >= SweepTTL /\ Active(s)
    BY <2>2 DEF Evicts, SweepServed, SweepExpired, Active
  <2>4. zset[s] \in Nat /\ ticker.pass \in Nat /\ ticker.pass <= MaxLag
    BY <1>1, <2>1, <2>3 DEF StoreTypeOK, BridgeTypeOK, LagOK, Active, Age
  <2>5. zset[s] > ticker.pass + MaxLag
    BY <1>1, <2>3, <2>4
  <2>6. Pending(s)
    BY <2>3, <2>5 DEF ProbeInv, PassOK, Due
  <2> QED  BY <2>2, <2>6 DEF SweepServed, Pending
<1> QED  BY <1>2, <1>3, ProbeInit, PTL DEF Spec, ProbeableSurvives

-----------------------------------------------------------------------------
(* Silence.  The sweep goes by scores, the property by what the store was  *)
(* ever told; the invariant between the two is that a score is behind the  *)
(* newest timestamp by one lag at most, because whatever overwrites it is  *)
(* no older than that.                                                     *)

\* A member's score is at most one lag older than the newest timestamp.
ScoreNearHeard ==
  /\ heard \in [Sids -> Age]
  /\ \A s \in Sids : Active(s) => zset[s] <= heard[s] + MaxLag

SilenceInv == BridgeInv /\ LagOK /\ ScoreNearHeard

\* The invariant holds of an empty store.
LEMMA SilenceInitInv == SilenceInit => SilenceInv
<1> SUFFICES ASSUME SilenceInit PROVE SilenceInv
  OBVIOUS
<1>1. ScoreNearHeard
  BY AgeCapAssumption DEF SilenceInit, Init, StoreInit, ScoreNearHeard, Active, Age
<1> QED  BY <1>1, BridgeInitInv, LagInit DEF SilenceInit, SilenceInv

\* The smaller of two ages.
LEMMA MinFact ==
  ASSUME NEW a \in Age, NEW b \in Age
  PROVE  Min2(a, b) \in Age /\ (Min2(a, b) = a \/ Min2(a, b) = b)
BY DEF Min2

\* A step that lets no time pass keeps scores near what was heard.
LEMMA HearKeeps ==
  ASSUME SilenceInv, NextUntimed, Hear
  PROVE  ScoreNearHeard'
<1>1. StoreTypeOK /\ BridgeTypeOK /\ LagOK /\ ScoreNearHeard
  BY DEF SilenceInv, BridgeInv, StoreInv
<1>2. BridgeInv'
  BY BridgeNextInv DEF SilenceInv, Next
<1>3. zset' \in [Sids -> Age \cup {Absent}]
  BY <1>2 DEF BridgeInv, StoreInv, StoreTypeOK
<1>4. \A t \in Sids : ScoreStep(t)
  BY <1>1, UntimedStep
<1>5. MaxLag \in Nat /\ \A a \in Age : a \in Nat
  BY BridgeAssumption, AgeCapAssumption DEF Age
<1>6. ASSUME NEW s \in Sids
      PROVE  heard'[s] \in Age /\ (zset'[s] # Absent => zset'[s] <= heard'[s] + MaxLag)
  <2>1. heard[s] \in Age /\ heard'[s] = IF zset'[s] = Absent THEN heard[s]
                                        ELSE Min2(heard[s], zset'[s])
    BY <1>1 DEF ScoreNearHeard, Hear
  <2>2. CASE zset'[s] = Absent
    BY <2>1, <2>2
  <2>3. CASE zset'[s] # Absent
    <3>1. zset'[s] \in Age
      BY <1>3, <2>3
    <3>2. heard'[s] \in Age /\ (heard'[s] = heard[s] \/ heard'[s] = zset'[s])
      BY <2>1, <2>3, <3>1, MinFact
    <3>3. CASE heard'[s] = zset'[s]
      BY <1>5, <3>1, <3>3
    <3>4. CASE heard'[s] = heard[s] /\ zset'[s] = zset[s]
      <4>1. Active(s)
        BY <2>3, <3>4 DEF Active
      <4> QED  BY <1>1, <3>2, <3>4, <4>1 DEF ScoreNearHeard
    <3>5. CASE zset'[s] <= MaxLag
      BY <1>5, <3>1, <3>2, <3>5
    <3> QED  BY <1>4, <2>3, <3>2, <3>3, <3>4, <3>5 DEF ScoreStep
  <2> QED  BY <2>2, <2>3
<1>7. heard' \in [Sids -> Age]
  <2>1. heard' = [s \in Sids |-> heard'[s]]
    BY DEF Hear
  <2> QED  BY <1>6, <2>1
<1> QED  BY <1>6, <1>7 DEF ScoreNearHeard, Active

\* Time passes the score and what was heard alike, up to AgeCap.
LEMMA TickHears ==
  ASSUME SilenceInv, Tick, heard' = [s \in Sids |-> Older(heard[s])]
  PROVE  ScoreNearHeard'
<1>1. StoreTypeOK /\ ScoreNearHeard
  BY DEF SilenceInv, BridgeInv, StoreInv
<1>2. MaxLag \in Nat
  BY BridgeAssumption
<1>3. ASSUME NEW s \in Sids
      PROVE  heard'[s] \in Age /\ (zset'[s] # Absent => zset'[s] <= heard'[s] + MaxLag)
  <2>1. heard[s] \in Age /\ heard'[s] = Older(heard[s])
    BY <1>1 DEF ScoreNearHeard
  <2>2. zset'[s] = IF Active(s) THEN Older(zset[s]) ELSE Absent
    BY DEF Tick, Elapse
  <2>3. CASE Active(s)
    <3>1. zset[s] \in Age /\ zset[s] <= heard[s] + MaxLag
      BY <1>1, <2>3 DEF StoreTypeOK, ScoreNearHeard, Active
    <3> QED  BY <1>2, <2>1, <2>2, <2>3, <3>1, OlderFact, OlderMonotone
  <2>4. CASE ~Active(s)
    BY <2>1, <2>2, <2>4, OlderFact
  <2> QED  BY <2>3, <2>4
<1>4. heard' \in [Sids -> Age]
  BY <1>3
<1> QED  BY <1>3, <1>4 DEF ScoreNearHeard, Active

\* Every step keeps the invariant.
LEMMA SilenceNextInv == SilenceInv /\ [SilenceNext]_silenceVars => SilenceInv'
<1> SUFFICES ASSUME SilenceInv, [SilenceNext]_silenceVars PROVE SilenceInv'
  OBVIOUS
<1>1. [Next]_vars
  BY DEF SilenceNext, silenceVars, Next
<1>2. BridgeInv' /\ LagOK'
  BY <1>1, BridgeNextInv, LagNext DEF SilenceInv, BridgeInv
<1>3. ScoreNearHeard'
  <2>1. CASE UNCHANGED silenceVars
    BY <2>1 DEF SilenceInv, silenceVars, vars, storeVars, ScoreNearHeard, Active
  <2> QED  BY <2>1, HearKeeps, TickHears DEF SilenceNext
<1> QED  BY <1>2, <1>3 DEF SilenceInv

\* The sweep evicts only sessions of which the store was told nothing newer than
\* the TTL less one lag, by any event, refresh or boot, under any faults
\* (session.go:46, 67, activity.go:59, bridge.go:199-200).
THEOREM EvictionFollowsSilence == SilenceSpec => EvictionNeedsSilence
<1>1. SilenceSpec => []SilenceInv
  BY SilenceInitInv, SilenceNextInv, PTL DEF SilenceSpec
<1>2. SilenceInv /\ [SilenceNext]_silenceVars
        => [\A s \in Sids : Evicts(s) => heard[s] + MaxLag >= SweepTTL]_silenceVars
  <2> SUFFICES ASSUME SilenceInv, [SilenceNext]_silenceVars, NEW s \in Sids, Evicts(s)
               PROVE  heard[s] + MaxLag >= SweepTTL
    OBVIOUS
  <2>1. [Next]_vars /\ BridgeTypeOK /\ StoreTypeOK /\ ScoreNearHeard
    BY DEF SilenceNext, silenceVars, Next, SilenceInv, BridgeInv, StoreInv
  <2>2. SweepServed
    BY <2>1, OnlyTheSweepEvicts
  <2>3. Active(s) /\ zset'[s] = Absent
    BY DEF Evicts
  <2>4. zset[s] >= SweepTTL
    BY <2>2, <2>3 DEF SweepServed, SweepExpired, Active
  <2>5. zset[s] \in Age /\ heard[s] \in Age /\ zset[s] <= heard[s] + MaxLag
    BY <2>1, <2>3 DEF StoreTypeOK, ScoreNearHeard, Active
  <2>6. zset[s] \in Nat /\ heard[s] \in Nat /\ MaxLag \in Nat /\ SweepTTL \in Nat
    BY <2>5, AgeCapAssumption, BridgeAssumption DEF Age
  <2> QED  BY <2>4, <2>5, <2>6
<1> QED  BY <1>1, <1>2, PTL DEF SilenceSpec, EvictionNeedsSilence

===============================================================================
