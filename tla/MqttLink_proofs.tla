---------------------------- MODULE MqttLink_proofs ----------------------------
(* The daemon is never deaf on a live connection outside the window that     *)
(* Subscribe leaves open, for any number of connections and processes.       *)
EXTENDS MqttLink, TLAPS

\* The invariant holds before the daemon first connects.
LEMMA LinkInvInit == LinkInit => LinkInv
<1> SUFFICES ASSUME LinkInit PROVE LinkInv
  OBVIOUS
<1> USE LinkAssumption DEF LinkInit
<1>1. \A c \in Callbacks : callback[c] = "idle"
  OBVIOUS
<1>2. LinkTypeOK
  <2>1. process \in 1 .. Processes /\ connects \in 0 .. Connects /\ healthTTL \in 0 .. HealthTTL
    OBVIOUS
  <2>2. QED
    BY <2>1 DEF LinkTypeOK, MainStages
<1>3. LinkFacts
  BY <1>1 DEF LinkFacts, InFlight
<1>4. NotDeafUnlessMissed
  BY DEF NotDeafUnlessMissed, NotDeaf
<1>5. QED
  BY <1>2, <1>3, <1>4 DEF LinkInv

\* A step that changes nothing keeps it.
LEMMA LinkInvStutter ==
  ASSUME LinkInv, UNCHANGED linkVars
  PROVE  LinkInv'
  BY DEF LinkInv, LinkTypeOK, LinkFacts, NotDeafUnlessMissed, NotDeaf, InFlight, Active,
         linkVars, subscriberVars, redisVars

\* A new connection brings its own callback, so the daemon is not deaf.
LEMMA LinkUpStep ==
  ASSUME LinkInv, LinkUp
  PROVE  LinkInv'
<1> USE LinkAssumption DEF LinkInv, LinkUp, subscriberVars, redisVars, Callbacks
<1>1. connects + 1 \in Callbacks /\ callback'[connects + 1] = "fired"
  BY DEF LinkTypeOK
<1>2. LinkTypeOK'
  BY DEF LinkTypeOK
<1>3. \A c \in Callbacks : callback'[c] = "sent" => callback[c] = "sent"
  BY <1>1 DEF LinkTypeOK
<1>4. LinkFacts'
  BY <1>1, <1>3 DEF LinkFacts, InFlight, LinkTypeOK
<1>5. NotDeaf'
  BY <1>1 DEF NotDeaf, Active
<1>6. QED
  BY <1>2, <1>4, <1>5 DEF NotDeafUnlessMissed

\* A lost connection keeps it.
LEMMA LinkDownStep ==
  ASSUME LinkInv, LinkDown
  PROVE  LinkInv'
<1> USE DEF LinkInv, LinkDown, subscriberVars, redisVars
<1>1. LinkTypeOK'
  <2>1. brokerSub' \in BOOLEAN
    BY DEF LinkTypeOK
  <2>2. main' \in MainStages
    BY DEF LinkTypeOK, MainStages
  <2>3. callback' \in [Callbacks -> {"idle", "fired", "read", "sent", "done"}]
    BY DEF LinkTypeOK
  <2>4. QED
    BY <2>1, <2>2, <2>3 DEF LinkTypeOK
<1>2. \A c \in Callbacks : callback'[c] # "sent"
  BY DEF LinkTypeOK
<1>3. main' # "sent" /\ (main' = main \/ (main' = "backoff" /\ main = "sent"))
  OBVIOUS
<1>4. LinkFacts'
  BY <1>2, <1>3 DEF LinkFacts, InFlight, LinkTypeOK
<1>5. NotDeaf'
  BY DEF NotDeaf
<1>6. QED
  BY <1>1, <1>4, <1>5 DEF NotDeafUnlessMissed

\* A step of main changes no callback; it enters the subscribed stages with the
\* SUBACK only, which means that the broker holds the subscription.
LEMMA MainStepInv ==
  ASSUME LinkInv, MainStep
  PROVE  LinkInv'
<1> USE DEF LinkInv
<1>1. /\ UNCHANGED <<process, link, connects, callback, redisVars, missed>>
      /\ main' \in MainStages \ {"dead"}
  BY DEF MainStep, MainTo, MainStages, MainConnected, MainAssign, MainInit, MainSubscribe,
         MainBackoff, MainAck, MainStore, MainRun
<1>2. LinkTypeOK'
  BY <1>1 DEF LinkTypeOK, redisVars, subscriberVars, MainStep, MainConnected, MainAssign,
              MainInit, MainSubscribe, MainBackoff, MainAck, MainStore, MainRun
<1>3. LinkFacts'
  <2>1. handler' <=> main' \in {"stored", "running"}
    BY DEF LinkFacts, LinkTypeOK, subscriberVars, MainStep, MainTo, MainConnected, MainAssign,
           MainInit, MainSubscribe, MainBackoff, MainAck, MainStore, MainRun
  <2>2. subscribed' => main' = "running"
    BY DEF LinkFacts, LinkTypeOK, subscriberVars, MainStep, MainTo, MainConnected, MainAssign,
           MainInit, MainSubscribe, MainBackoff, MainAck, MainStore, MainRun
  <2>3. main' = "sent" => link' = "up"
    BY DEF MainStep, MainTo, MainConnected, MainAssign, MainInit, MainSubscribe,
           MainBackoff, MainAck, MainStore, MainRun
  <2>4. QED
    BY <1>1, <2>1, <2>2, <2>3 DEF LinkFacts, InFlight, redisVars, MainStages
<1>4. NotDeafUnlessMissed'
  <2>1. main' \in {"acked", "stored", "running"} =>
          brokerSub' \/ (main \in {"acked", "stored", "running"} /\ brokerSub' = brokerSub)
    BY DEF MainStep, MainTo, MainConnected, MainAssign, MainInit, MainSubscribe,
           MainBackoff, MainAck, MainStore, MainRun
  <2>2. QED
    BY <1>1, <2>1 DEF NotDeafUnlessMissed, NotDeaf, Active
<1>5. QED
  BY <1>2, <1>3, <1>4

\* A callback stops without a SUBACK only where there is nothing to restore yet,
\* where the connection is gone, or in the window that sets missed.
LEMMA CallbackStepInv ==
  ASSUME LinkInv, NEW c \in Callbacks,
         CallbackLook(c) \/ CallbackResubscribe(c) \/ CallbackAck(c)
  PROVE  LinkInv'
<1> USE DEF LinkInv
<1>1. /\ UNCHANGED <<process, main, link, connects, subscribed, handler, redisVars>>
      /\ callback' \in [Callbacks -> {"idle", "fired", "read", "sent", "done"}]
      /\ \A d \in Callbacks \ {c} : callback'[d] = callback[d]
      /\ callback[c] # "idle"
  BY DEF CallbackLook, CallbackResubscribe, CallbackAck, CallbackTo, LinkTypeOK
<1>2. LinkTypeOK'
  BY <1>1 DEF LinkTypeOK, redisVars, CallbackLook, CallbackResubscribe, CallbackAck
<1>3. callback'[c] = "sent" => link = "up"
  BY DEF CallbackLook, CallbackResubscribe, CallbackAck, CallbackTo, LinkTypeOK
<1>4. LinkFacts'
  BY <1>1, <1>3 DEF LinkFacts, InFlight, redisVars
<1>5. NotDeafUnlessMissed'
  <2>1. CASE CallbackAck(c)
    BY <2>1 DEF CallbackAck, NotDeafUnlessMissed, NotDeaf
  <2>2. CASE CallbackLook(c)
    <3>1. CASE SubExists
      <4>1. callback'[c] = "read" /\ UNCHANGED <<main, link, brokerSub, missed>>
        BY <2>2, <3>1 DEF CallbackLook, CallbackTo, LinkTypeOK
      <4>2. QED
        BY <4>1 DEF NotDeafUnlessMissed, NotDeaf, Active
    <3>2. CASE ~SubExists
      BY <1>1, <3>2 DEF SubExists, NotDeafUnlessMissed, NotDeaf
    <3>3. QED
      BY <3>1, <3>2
  <2>3. CASE CallbackResubscribe(c)
    <3>1. /\ UNCHANGED <<main, link, brokerSub>>
          /\ missed' = (missed \/ (main = "acked" /\ ~brokerSub))
          /\ callback'[c] = (IF handler /\ link = "up" THEN "sent" ELSE "done")
      BY <2>3 DEF CallbackResubscribe, CallbackTo, LinkTypeOK
    <3>2. main \in {"stored", "running"} => handler
      BY DEF LinkFacts
    <3>3. QED
      BY <3>1, <3>2 DEF NotDeafUnlessMissed, NotDeaf, Active
  <2>4. QED
    BY <2>1, <2>2, <2>3
<1>6. QED
  BY <1>2, <1>4, <1>5

\* So does the health record.
LEMMA HealthStepInv ==
  ASSUME LinkInv, WriteHealth \/ Tick
  PROVE  LinkInv'
<1> USE LinkAssumption DEF LinkInv
<1>1. UNCHANGED <<process, main, link, connects, callback, connected, subscribed, handler,
                  brokerSub, missed>>
  BY DEF WriteHealth, Tick, subscriberVars
<1>2. /\ health' \in [connected : BOOLEAN, subscribed : BOOLEAN] \cup {NoHealth}
      /\ healthTTL' \in 0 .. HealthTTL
  BY DEF WriteHealth, Tick, LinkTypeOK
<1>3. LinkTypeOK'
  BY <1>1, <1>2 DEF LinkTypeOK
<1>4. LinkFacts'
  BY <1>1 DEF LinkFacts, InFlight
<1>5. NotDeafUnlessMissed'
  BY <1>1 DEF NotDeafUnlessMissed, NotDeaf, Active
<1>6. QED
  BY <1>3, <1>4, <1>5

\* So do the death of the process and its restart.
LEMMA ProcessStepInv ==
  ASSUME LinkInv, Die \/ Restart
  PROVE  LinkInv'
<1> USE LinkAssumption DEF LinkInv, Die, Restart, Fresh, redisVars
<1>1. LinkTypeOK'
  <2>1. process' \in 1 .. Processes /\ connects' \in 0 .. Connects
    BY DEF LinkTypeOK
  <2>2. UNCHANGED <<health, healthTTL>> /\ main' \in MainStages
    BY DEF MainStages
  <2>3. callback' \in [Callbacks -> {"idle", "fired", "read", "sent", "done"}]
    OBVIOUS
  <2>4. QED
    BY <2>1, <2>2, <2>3 DEF LinkTypeOK
<1>2. LinkFacts'
  BY DEF LinkFacts, InFlight
<1>3. NotDeaf'
  BY DEF NotDeaf
<1>4. QED
  BY <1>1, <1>2, <1>3 DEF NotDeafUnlessMissed

\* The inductive invariant of the subscription (subscriber.go:61-101).
THEOREM LinkInvariant == LinkSpec => []LinkInv
<1>1. LinkInv /\ [LinkNext]_linkVars => LinkInv'
  BY LinkInvStutter, LinkUpStep, LinkDownStep, MainStepInv, CallbackStepInv, HealthStepInv,
     ProcessStepInv DEF LinkNext, CallbackStep
<1>2. QED
  BY LinkInvInit, <1>1, PTL DEF LinkSpec

\* Past its first SUBACK a connected daemon has its subscription or is about to
\* restore it, unless a reconnect fell into the window between the SUBACK and
\* the handler's store (main.go:156-172, subscriber.go:61-101).
THEOREM NeverDeafOutsideTheWindow == LinkSpec => []NotDeafUnlessMissed
<1>1. LinkInv => NotDeafUnlessMissed
  BY DEF LinkInv
<1>2. QED
  BY <1>1, LinkInvariant, PTL

\* The goroutines, the flags and the health record have their types
\* (subscriber.go:29-45, client.go:33-36).
THEOREM LinkTypes == LinkSpec => []LinkTypeOK
<1>1. LinkInv => LinkTypeOK
  BY DEF LinkInv
<1>2. QED
  BY <1>1, LinkInvariant, PTL

-----------------------------------------------------------------------------
(* Liveness, on a connection that stays.                                   *)

\* The steps of one OnConnect goroutine.
StepOf(c) == CallbackLook(c) \/ CallbackResubscribe(c) \/ CallbackAck(c)

\* Go schedules main and every callback that can go on: weak fairness of the two,
\* with the states spelled out in which they are enabled.
MainGoesOn ==
  \/ []<>(main \in {"dead", "running"} \/ (main = "connect" /\ connects = 0))
  \/ []<><<MainStep>>_linkVars

CallbackGoesOn(c) == []<>~Active(c) \/ []<><<StepOf(c)>>_linkVars

CallbacksGoOn == [](\A c \in Callbacks : CallbackGoesOn(c))

\* A connection has been counted (client.go:50-58).
UpIsCounted == link = "up" => connects > 0

\* Nobody answers a connected daemon that runs.
Deaf == link = "up" /\ main = "running" /\ ~brokerSub /\ ~missed

\* LinkUp counts a connection when it makes it, and a new process starts without.
LEMMA UpsAreCounted == LinkSpec => []UpIsCounted
<1>1. LinkInit => UpIsCounted
  BY DEF LinkInit, UpIsCounted
<1>2. LinkTypeOK /\ UpIsCounted /\ [LinkNext]_linkVars => UpIsCounted'
  BY LinkAssumption DEF LinkTypeOK, UpIsCounted, LinkNext, linkVars, LinkUp, LinkDown, MainStep,
     MainConnected, MainAssign, MainInit, MainSubscribe, MainBackoff, MainAck, MainStore, MainRun,
     MainTo, CallbackStep, CallbackLook, CallbackResubscribe, CallbackAck, CallbackTo, WriteHealth,
     Tick, Die, Restart, Fresh
<1>3. QED
  BY <1>1, <1>2, LinkTypes, PTL DEF LinkSpec

\* On a connection that stays, a step is one of main's, of a callback's or of the
\* health record, and the process lives.
LEMMA StepOnLink ==
  ASSUME LinkInv, [LinkNext]_linkVars, link = "up", link' = "up"
  PROVE  /\ main # "dead" /\ main' # "dead"
         /\ \/ MainStep
            \/ \E c \in Callbacks : StepOf(c) /\ main' = main
            \/ UNCHANGED <<main, link, callback, brokerSub, handler, missed>>
<1>1. main # "dead"
  BY DEF LinkInv, LinkFacts
<1>2. ~LinkUp /\ ~LinkDown /\ ~Die /\ ~Restart
  BY <1>1 DEF LinkUp, LinkDown, Die, Restart, Fresh
<1>3. \/ MainStep
      \/ \E c \in Callbacks : StepOf(c) /\ main' = main
      \/ UNCHANGED <<main, link, callback, brokerSub, handler, missed>>
  BY <1>2 DEF LinkNext, linkVars, subscriberVars, CallbackStep, StepOf, CallbackLook,
     CallbackResubscribe, CallbackAck, CallbackTo, WriteHealth, Tick
<1>4. QED
  BY <1>1, <1>3 DEF MainStep, MainConnected, MainAssign, MainInit, MainSubscribe, MainBackoff,
     MainAck, MainStore, MainRun, MainTo

\* main goes from stage to stage, and back to the next attempt from a failed one
\* (bridge.go:145-159).
LEMMA MainAdvances ==
  ASSUME LinkInv, link = "up", link' = "up", MainStep
  PROVE  /\ main = "connect" => main' = "assign"
         /\ main = "assign" => main' = "init"
         /\ main = "init" => main' = "send"
         /\ main = "backoff" => main' = "send"
         /\ main = "send" => main' = "sent"
         /\ main = "sent" => main' = "acked"
         /\ main = "acked" => main' = "stored"
         /\ main = "stored" => main' = "running"
         /\ main # "running"
  BY DEF MainStep, MainConnected, MainAssign, MainInit, MainSubscribe, MainBackoff, MainAck,
     MainStore, MainRun, MainTo

\* So main runs in the end (main.go:131-181, bridge.go:131-160).
LEMMA MainRuns ==
  LinkSpec /\ MainGoesOn /\ <>[](link = "up") => <>[](main = "running")
<1>1. LinkInv /\ link = "up" /\ (link = "up")' /\ [LinkNext]_linkVars =>
        /\ main = "connect" => (main = "connect")' \/ (main = "assign")'
        /\ main = "assign" => (main = "assign")' \/ (main = "init")'
        /\ main = "init" => (main = "init")' \/ (main = "send")'
        /\ main = "backoff" => (main = "backoff")' \/ (main = "send")'
        /\ main = "send" => (main = "send")' \/ (main = "sent")'
        /\ main = "sent" => (main = "sent")' \/ (main = "acked")'
        /\ main = "acked" => (main = "acked")' \/ (main = "stored")'
        /\ main = "stored" => (main = "stored")' \/ (main = "running")'
        /\ main = "running" => (main = "running")'
  BY StepOnLink, MainAdvances
<1>2. LinkInv /\ link = "up" /\ (link = "up")' /\ <<MainStep>>_linkVars =>
        /\ main = "connect" => (main = "assign")'
        /\ main = "assign" => (main = "init")'
        /\ main = "init" => (main = "send")'
        /\ main = "backoff" => (main = "send")'
        /\ main = "send" => (main = "sent")'
        /\ main = "sent" => (main = "acked")'
        /\ main = "acked" => (main = "stored")'
        /\ main = "stored" => (main = "running")'
  BY MainAdvances
<1>3. LinkInv /\ link = "up" =>
        \/ main = "connect" \/ main = "assign" \/ main = "init" \/ main = "backoff"
        \/ main = "send" \/ main = "sent" \/ main = "acked" \/ main = "stored"
        \/ main = "running"
  BY DEF LinkInv, LinkTypeOK, LinkFacts, MainStages
<1>4. LinkInv /\ UpIsCounted /\ link = "up" =>
        ((main \in {"dead", "running"} \/ (main = "connect" /\ connects = 0)) => main = "running")
  BY DEF LinkInv, LinkFacts, UpIsCounted
<1>5. QED
  BY <1>1, <1>2, <1>3, <1>4, LinkInvariant, UpsAreCounted, PTL DEF MainGoesOn, LinkSpec

\* One callback under way ends the deafness: main runs, so it finds the Subscriber
\* and the handler, and the connection stays until the SUBACK
\* (main.go:156-172, subscriber.go:81-101).
LEMMA CallbackHears ==
  ASSUME NEW c \in Callbacks
  PROVE  []LinkInv /\ [][LinkNext]_linkVars /\ []Deaf /\ CallbackGoesOn(c) => ~Active(c)
<1>1. ASSUME LinkInv, Deaf, Deaf', NEW d \in Callbacks, StepOf(d)
      PROVE  /\ callback[d] = "fired" => callback'[d] = "read"
             /\ callback[d] = "read" => callback'[d] = "sent"
             /\ callback[d] # "sent"
             /\ d # c => callback'[c] = callback[c]
  <2>1. SubExists /\ handler /\ link = "up" /\ ~brokerSub'
    BY <1>1 DEF Deaf, LinkInv, LinkFacts, SubExists
  <2>2. callback \in [Callbacks -> {"idle", "fired", "read", "sent", "done"}]
    BY <1>1 DEF LinkInv, LinkTypeOK
  <2>3. QED
    BY <1>1, <2>1, <2>2 DEF StepOf, CallbackLook, CallbackResubscribe, CallbackAck, CallbackTo
<1>2. LinkInv /\ Deaf /\ Deaf' /\ [LinkNext]_linkVars =>
        /\ callback[c] = "fired" => (callback[c] = "fired")' \/ (callback[c] = "read")'
        /\ callback[c] = "read" => (callback[c] = "read")' \/ (callback[c] = "sent")'
        /\ callback[c] = "sent" => (callback[c] = "sent")'
  <2>1. SUFFICES ASSUME LinkInv, Deaf, Deaf', [LinkNext]_linkVars
        PROVE  \/ callback'[c] = callback[c]
               \/ /\ callback[c] = "fired" => callback'[c] = "read"
                  /\ callback[c] = "read" => callback'[c] = "sent"
                  /\ callback[c] # "sent"
    OBVIOUS
  <2>2. MainStep => UNCHANGED callback
    BY DEF MainStep, MainConnected, MainAssign, MainInit, MainSubscribe, MainBackoff, MainAck,
       MainStore, MainRun, MainTo
  <2>3. QED
    BY <2>1, <2>2, <1>1, StepOnLink DEF Deaf
<1>3. LinkInv /\ Deaf /\ Deaf' /\ <<StepOf(c)>>_linkVars =>
        /\ callback[c] = "fired" => (callback[c] = "read")'
        /\ callback[c] = "read" => (callback[c] = "sent")'
        /\ ~(callback[c] = "sent")
  BY <1>1
<1>4. Active(c) <=> callback[c] = "fired" \/ callback[c] = "read" \/ callback[c] = "sent"
  BY DEF Active
<1>5. QED
  BY <1>2, <1>3, <1>4, PTL DEF CallbackGoesOn

\* Hence no daemon is deaf for good.
LEMMA NotDeafForGood ==
  LinkSpec /\ CallbacksGoOn => []~[]Deaf
<1>1. []LinkInv /\ [][LinkNext]_linkVars /\ []Deaf /\ (\A c \in Callbacks : CallbackGoesOn(c))
        => \A c \in Callbacks : ~Active(c)
  BY CallbackHears
<1>2. LinkInv /\ Deaf => \E c \in Callbacks : Active(c)
  BY DEF LinkInv, NotDeafUnlessMissed, NotDeaf, Deaf
<1>3. (\A c \in Callbacks : ~Active(c)) => ~(LinkInv /\ Deaf)
  BY <1>2
<1>4. QED
  BY <1>1, <1>3, LinkInvariant, PTL DEF CallbacksGoOn, LinkSpec

\* BootSubscribes: on a connection that stays, the daemon runs in the end and the
\* broker serves it, however often the first attempts failed, unless the window was
\* hit, provided that main and the callbacks are scheduled (bridge.go:131-160).
THEOREM DaemonSubscribes ==
  LinkSpec /\ MainGoesOn /\ CallbacksGoOn => BootSubscribes
<1>1. LinkInv /\ link = "up" /\ (link = "up")' /\ main = "running" /\ (main = "running")'
        /\ [LinkNext]_linkVars /\ (brokerSub \/ missed) => (brokerSub \/ missed)'
  <2>1. SUFFICES ASSUME LinkInv, link = "up", link' = "up", main = "running",
                        [LinkNext]_linkVars
                 PROVE  (brokerSub => brokerSub') /\ (missed => missed')
    OBVIOUS
  <2>2. ~MainStep
    BY <2>1, MainAdvances
  <2>3. ASSUME NEW c \in Callbacks, StepOf(c)
        PROVE  (brokerSub => brokerSub') /\ (missed => missed')
    <3>1. CASE CallbackLook(c)
      BY <3>1 DEF CallbackLook
    <3>2. CASE CallbackResubscribe(c)
      BY <3>2 DEF CallbackResubscribe
    <3>3. CASE CallbackAck(c)
      BY <3>3 DEF CallbackAck
    <3>4. QED
      BY <2>3, <3>1, <3>2, <3>3 DEF StepOf
  <2>4. CASE UNCHANGED <<main, link, callback, brokerSub, handler, missed>>
    BY <2>4
  <2>5. QED
    BY <2>1, <2>2, <2>3, <2>4, StepOnLink
<1>2. Deaf <=> link = "up" /\ main = "running" /\ ~(brokerSub \/ missed)
  BY DEF Deaf
<1>3. QED
  BY <1>1, <1>2, MainRuns, NotDeafForGood, LinkInvariant, PTL DEF BootSubscribes, LinkSpec

=============================================================================
