------------------------------- MODULE MqttLink -------------------------------
(***************************************************************************)
(* How the daemon gets and keeps its MQTT subscription (internal/mqtt,     *)
(* main.go runBridge, the boot loop of Bridge.Run), and what `status'      *)
(* reports about it.                                                       *)
(*                                                                         *)
(* Three kinds of goroutine: main, which connects, creates the Subscriber  *)
(* and subscribes with retries; one OnConnect callback per connection,     *)
(* which subscribes again; and the ticker, which copies the flags to       *)
(* Redis.  The callbacks run ahead of main or behind it, several at once.  *)
(* paho and the broker are external: the client reconnects on its own, and *)
(* the broker keeps the session of a client id (CleanSession is false)     *)
(* unless it restarts and forgets it.                                      *)
(***************************************************************************)
EXTENDS Integers

CONSTANTS
  Connects,     \* bound: how many times one process connects
  Processes,    \* bound: how many daemon processes there are, one after another
  HealthTTL,    \* the TTL of the health record
  NoHealth      \* the health key does not exist

ASSUME LinkAssumption ==
  /\ Connects \in Nat /\ Processes \in Nat \ {0} /\ HealthTTL \in Nat \ {0}

Callbacks == 1 .. Connects

VARIABLES
  process,      \* the daemon processes so far
  main,         \* the main goroutine's program counter; "dead" without a process
  link,         \* paho's connection: "up" or "down"
  connects,     \* the connections of this process so far
  callback,     \* the program counter of each connection's OnConnect goroutine
  connected, subscribed,  \* the Subscriber's flags
  handler,      \* has Subscribe stored wrappedHandler
  brokerSub,    \* the broker's session holds the subscription
  health,       \* the record in Redis
  healthTTL,    \* what is left of its TTL
  missed        \* history: a callback found no handler though main was subscribed

linkVars == <<process, main, link, connects, callback, connected, subscribed,
              handler, brokerSub, health, healthTTL, missed>>
subscriberVars == <<connected, subscribed, handler>>
redisVars == <<health, healthTTL>>

MainStages == {"dead", "connect", "assign", "init", "send", "sent", "acked", "stored",
               "backoff", "running"}

\* main has assigned `sub'; before, a callback sees nil.
SubExists == main \notin {"dead", "connect", "assign"}
Active(c) == callback[c] \in {"fired", "read", "sent"}
InFlight == main = "sent" \/ \E c \in Callbacks : callback[c] = "sent"

Fresh ==
  /\ link' = "down" /\ connects' = 0 /\ brokerSub' = FALSE
  /\ callback' = [c \in Callbacks |-> "idle"]
  /\ connected' = FALSE /\ subscribed' = FALSE /\ handler' = FALSE /\ missed' = FALSE

LinkInit ==
  /\ process = 1 /\ main = "connect" /\ link = "down" /\ connects = 0
  /\ callback = [c \in Callbacks |-> "idle"]
  /\ connected = FALSE /\ subscribed = FALSE /\ handler = FALSE
  /\ brokerSub = FALSE /\ health = NoHealth /\ healthTTL = 0 /\ missed = FALSE

-----------------------------------------------------------------------------
(* paho and the broker.                                                    *)

\* A connection is established, the first one (which ends Connect's wait: with
\* ConnectRetry it does not return before) or a later one, and the client
\* starts the OnConnect handler.
LinkUp ==
  /\ link = "down" /\ main # "dead" /\ connects < Connects
  /\ link' = "up"
  /\ connects' = connects + 1
  /\ callback' = [callback EXCEPT ![connects + 1] = "fired"]
  /\ UNCHANGED <<process, main, subscriberVars, brokerSub, redisVars, missed>>

\* The connection is lost: the SUBSCRIBEs in flight fail, served or not, and
\* the broker may forget the session.
LinkDown ==
  /\ link = "up"
  /\ link' = "down"
  /\ brokerSub' \in {FALSE, brokerSub, brokerSub \/ InFlight}
  /\ main' = IF main = "sent" THEN "backoff" ELSE main
  /\ callback' = [c \in Callbacks |-> IF callback[c] = "sent" THEN "done" ELSE callback[c]]
  /\ UNCHANGED <<process, connects, subscriberVars, redisVars, missed>>

-----------------------------------------------------------------------------
(* The main goroutine.                                                     *)

MainTo(stage) ==
  /\ main' = stage
  /\ UNCHANGED <<process, link, connects, callback, redisVars, missed>>

\* Connect returns once there has been a connection.
MainConnected ==
  /\ main = "connect" /\ connects > 0
  /\ MainTo("assign")
  /\ UNCHANGED <<subscriberVars, brokerSub>>

\* Redis answers and the sessions are rehydrated; then sub = NewSubscriber.
MainAssign ==
  /\ main = "assign"
  /\ MainTo("init")
  /\ UNCHANGED <<subscriberVars, brokerSub>>

\* SetConnected(initialConnectOK), for the callback that saw sub = nil.
MainInit ==
  /\ main = "init"
  /\ connected' = TRUE
  /\ MainTo("send")
  /\ UNCHANGED <<subscribed, handler, brokerSub>>

\* Without a connection Subscribe fails at once.
MainSubscribe ==
  /\ main = "send"
  /\ MainTo(IF link = "up" THEN "sent" ELSE "backoff")
  /\ UNCHANGED <<subscriberVars, brokerSub>>

MainBackoffGivesUp ==   \* bug: the loop is left after the first failure
  /\ main = "backoff"
  /\ MainTo("running")
  /\ UNCHANGED <<subscriberVars, brokerSub>>

MainBackoff ==
  /\ main = "backoff"
  /\ MainTo("send")
  /\ UNCHANGED <<subscriberVars, brokerSub>>

MainAckStored ==   \* bug: the handler is never stored
  /\ main = "sent"
  /\ brokerSub' = TRUE
  /\ MainTo("stored")
  /\ UNCHANGED subscriberVars

MainAck ==
  /\ main = "sent"
  /\ brokerSub' = TRUE
  /\ MainTo("acked")
  /\ UNCHANGED subscriberVars

\* The broker has acknowledged; only now is the handler stored ...
MainStore ==
  /\ main = "acked"
  /\ handler' = TRUE
  /\ MainTo("stored")
  /\ UNCHANGED <<connected, subscribed, brokerSub>>

\* ... and the subscription declared; then the workers and the ticker start.
MainRun ==
  /\ main = "stored"
  /\ subscribed' = TRUE
  /\ MainTo("running")
  /\ UNCHANGED <<connected, handler, brokerSub>>

MainStep ==
  \/ MainConnected \/ MainAssign \/ MainInit \/ MainSubscribe \/ MainBackoff
  \/ MainAck \/ MainStore \/ MainRun

-----------------------------------------------------------------------------
(* The OnConnect goroutine of connection c.                                *)

CallbackTo(c, stage) ==
  /\ callback' = [callback EXCEPT ![c] = stage]
  /\ UNCHANGED <<process, main, link, connects, subscribed, handler, redisVars>>

CallbackLookOnly(c) ==   \* bug: the callback sets the flag and does not resubscribe
  /\ callback[c] = "fired"
  /\ connected' = (connected \/ SubExists)
  /\ CallbackTo(c, "done")
  /\ UNCHANGED <<brokerSub, missed>>

\* if sub == nil { return }; sub.SetConnected(true)
CallbackLook(c) ==
  /\ callback[c] = "fired"
  /\ connected' = (connected \/ SubExists)
  /\ CallbackTo(c, IF SubExists THEN "read" ELSE "done")
  /\ UNCHANGED <<brokerSub, missed>>

\* ResubscribeOnReconnect: without a handler it gives up.
CallbackResubscribe(c) ==
  /\ callback[c] = "read"
  /\ CallbackTo(c, IF handler /\ link = "up" THEN "sent" ELSE "done")
  /\ missed' = (missed \/ (main = "acked" /\ ~brokerSub))
  /\ UNCHANGED <<connected, brokerSub>>

CallbackAck(c) ==
  /\ callback[c] = "sent"
  /\ brokerSub' = TRUE
  /\ CallbackTo(c, "done")
  /\ UNCHANGED <<connected, missed>>

CallbackStep == \E c \in Callbacks :
  CallbackLook(c) \/ CallbackResubscribe(c) \/ CallbackAck(c)

-----------------------------------------------------------------------------
(* The health record.                                                      *)

WriteHealthMillis ==   \* bug: the TTL is in the wrong unit
  /\ main = "running"
  /\ health' = [connected |-> connected, subscribed |-> subscribed]
  /\ healthTTL' = 1000 * HealthTTL
  /\ UNCHANGED <<process, main, link, connects, callback, subscriberVars, brokerSub, missed>>

WriteHealthForever ==   \* bug: no EXPIRE
  /\ main = "running"
  /\ health' = [connected |-> connected, subscribed |-> subscribed]
  /\ UNCHANGED <<healthTTL, process, main, link, connects, callback, subscriberVars,
                 brokerSub, missed>>

\* writeMQTTHealth, at the end of every pass of the ticker.
WriteHealth ==
  /\ main = "running"
  /\ health' = [connected |-> connected, subscribed |-> subscribed]
  /\ healthTTL' = HealthTTL
  /\ UNCHANGED <<process, main, link, connects, callback, subscriberVars, brokerSub, missed>>

Tick ==
  /\ healthTTL > 0
  /\ healthTTL' = healthTTL - 1
  /\ health' = IF healthTTL = 1 THEN NoHealth ELSE health
  /\ UNCHANGED <<process, main, link, connects, callback, subscriberVars, brokerSub, missed>>

-----------------------------------------------------------------------------
(* The process dies; the next one has a client id of its own, so the        *)
(* broker's session of the old one is of no use to it.                     *)

Die ==
  /\ main # "dead"
  /\ main' = "dead"
  /\ Fresh
  /\ UNCHANGED <<process, redisVars>>

Restart ==
  /\ main = "dead" /\ process < Processes
  /\ process' = process + 1
  /\ main' = "connect"
  /\ Fresh
  /\ UNCHANGED redisVars

LinkNext ==
  \/ LinkUp \/ LinkDown \/ MainStep \/ CallbackStep
  \/ WriteHealth \/ Tick \/ Die \/ Restart

LinkSpec == LinkInit /\ [][LinkNext]_linkVars

\* The goroutines are scheduled, the client keeps reconnecting, time passes.
LinkFairSpec ==
  /\ LinkSpec
  /\ WF_linkVars(MainStep) /\ WF_linkVars(CallbackStep)
  /\ WF_linkVars(WriteHealth) /\ WF_linkVars(Tick) /\ WF_linkVars(LinkUp)

-----------------------------------------------------------------------------
(* Properties.                                                             *)

\* Every variable has its type (subscriber.go:29-45, client.go:33-36).
LinkTypeOK ==
  /\ process \in 1 .. Processes
  /\ main \in MainStages
  /\ link \in {"up", "down"}
  /\ connects \in 0 .. Connects
  /\ callback \in [Callbacks -> {"idle", "fired", "read", "sent", "done"}]
  /\ connected \in BOOLEAN /\ subscribed \in BOOLEAN /\ handler \in BOOLEAN
  /\ brokerSub \in BOOLEAN /\ missed \in BOOLEAN
  /\ health \in [connected : BOOLEAN, subscribed : BOOLEAN] \cup {NoHealth}
  /\ healthTTL \in 0 .. HealthTTL

\* Past its first SUBACK, a connected daemon has its subscription or a callback
\* on its way to restore it, whatever the broker forgets and however callbacks of
\* several connections overlap (main.go:156-172, subscriber.go:61-101) ...
NotDeaf ==
  main \in {"acked", "stored", "running"} /\ link = "up" /\ ~brokerSub
    => \E c \in Callbacks : Active(c)

\* ... except after the one window that Subscribe leaves open between the SUBACK
\* and the handler's store (subscriber.go:68-74).
NotDeafUnlessMissed == missed \/ NotDeaf

\* What makes it inductive: the handler is there from the store on, and a
\* SUBSCRIBE is in flight on a live connection only.
LinkFacts ==
  /\ handler <=> main \in {"stored", "running"}
  /\ subscribed => main = "running"
  /\ InFlight => link = "up"
  /\ \A c \in Callbacks : c > connects => callback[c] = "idle"
  /\ main = "dead" => link = "down"

\* The inductive invariant of the subscription (subscriber.go:61-101).
LinkInv == LinkTypeOK /\ LinkFacts /\ NotDeafUnlessMissed

\* A broker that is there for good is subscribed to in the end, however often the
\* first attempts failed (bridge.go:131-160).
BootSubscribes ==
  <>[](link = "up") => <>[](main = "running" /\ (brokerSub \/ missed))

\* `status' stops reporting a daemon that died (redis_store.go:69, main.go:462-474).
DeadIsForgotten == <>[](main = "dead") => <>[](health = NoHealth)

=============================================================================
