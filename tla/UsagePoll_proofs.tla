--------------------------- MODULE UsagePoll_proofs ---------------------------
(***************************************************************************)
(* The invariants of UsagePoll, for any number of daemons and status-line  *)
(* reads, any period, TTL and duration of a poll.                          *)
(***************************************************************************)
EXTENDS UsagePoll, TLAPS

-----------------------------------------------------------------------------
(* Which keys there are, and how a key and a daemon get older.             *)

\* The keys of both pipelines, those of one, and those that are read.
LEMMA SharedAreKeys ==
  /\ ReadKeys \subseteq Keys /\ Shared \subseteq Keys
  /\ "source" \in Keys /\ "pct5h" \in Keys /\ "pctWeek" \in Keys /\ "tokens5h" \in Keys
  /\ \A by : Shared \subseteq KeysOf(by)
  /\ "tokens5h" \in KeysOf("local")
BY DEF ReadKeys, Shared, Keys, KeysOf, Sources

\* A key that does not expire has one unit less to live and is one older.
LEMMA AgeKeyFact ==
  ASSUME NEW v \in Written \cup {Nothing}
  PROVE  /\ AgeKey(v) \in Written \cup {Nothing}
         /\ AgeKey(v) # Nothing =>
              /\ v # Nothing
              /\ AgeKey(v).by = v.by
              /\ AgeKey(v).age = v.age + 1
              /\ AgeKey(v).ttl = v.ttl - 1
         /\ v # Nothing /\ v.ttl > 1 => AgeKey(v) # Nothing
<1>1. CASE v = Nothing
  BY <1>1 DEF AgeKey
<1>2. CASE v # Nothing /\ v.ttl = 1
  BY <1>2 DEF AgeKey
<1>3. CASE v # Nothing /\ v.ttl # 1
  <2>1. v \in Written /\ v.ttl \in 2 .. TTL /\ v.age \in Nat
    BY <1>3, UsageAssumption DEF Written
  <2>2. AgeKey(v) = [v EXCEPT !.ttl = v.ttl - 1, !.age = v.age + 1]
    BY <1>3 DEF AgeKey
  <2>3. AgeKey(v) \in Written
    <3>1. AgeKey(v) = [by |-> v.by, age |-> v.age + 1, ttl |-> v.ttl - 1]
      BY <2>1, <2>2 DEF Written
    <3>2. v.by \in Sources /\ v.age + 1 \in Nat /\ v.ttl - 1 \in 1 .. TTL
      BY <2>1, UsageAssumption DEF Written
    <3>3. QED
      BY <3>1, <3>2 DEF Written
  <2>4. AgeKey(v).by = v.by /\ AgeKey(v).age = v.age + 1 /\ AgeKey(v).ttl = v.ttl - 1
    BY <2>1, <2>2 DEF Written
  <2>5. QED
    BY <1>3, <2>3, <2>4, UsageAssumption
<1>4. QED
  BY <1>1, <1>2, <1>3

\* A daemon that Tick lets time pass for keeps its type, and the bound on the
\* time since its last write grows by one at least.
LEMMA AgePollerFact ==
  ASSUME NEW q \in PollerState, q.took < MaxPoll
  PROVE  /\ AgePoller(q) \in PollerState
         /\ AgePoller(q).pc = q.pc /\ AgePoller(q).by = q.by
         /\ AgePoller(q).age = IF q.pc = "write" THEN q.age + 1 ELSE q.age
         /\ AgePoller(q).took = IF Busy(q) THEN q.took + 1 ELSE q.took
         /\ q.timer # NoTimer =>
              /\ AgePoller(q).timer # NoTimer
              /\ SinceWrite(AgePoller(q)) >= SinceWrite(q) + 1
<1> DEFINE r == AgePoller(q)
<1>1. /\ q.timer \in 1 .. Interval \cup {NoTimer} /\ q.took \in 0 .. MaxPoll
      /\ q.due \in BOOLEAN /\ q.age \in Nat
  BY DEF PollerState
<1>2. r = [q EXCEPT !.timer = IF q.timer = 1 THEN Interval
                              ELSE IF q.timer = NoTimer THEN q.timer ELSE q.timer - 1,
                    !.due = q.due \/ q.timer = 1,
                    !.took = IF Busy(q) THEN q.took + 1 ELSE q.took,
                    !.age = IF q.pc = "write" THEN q.age + 1 ELSE q.age]
  BY DEF AgePoller
<1>3. /\ r.timer = IF q.timer = 1 THEN Interval
                   ELSE IF q.timer = NoTimer THEN q.timer ELSE q.timer - 1
      /\ r.due = (q.due \/ q.timer = 1)
      /\ r.took = IF Busy(q) THEN q.took + 1 ELSE q.took
      /\ r.age = IF q.pc = "write" THEN q.age + 1 ELSE q.age
      /\ r.pc = q.pc /\ r.by = q.by
  BY <1>2 DEF PollerState
<1>4. r.took \in 0 .. MaxPoll /\ r.age \in Nat
  BY <1>1, <1>3, UsageAssumption
<1>5. r.timer \in 1 .. Interval \cup {NoTimer}
  BY <1>1, <1>3, UsageAssumption DEF NoTimer
<1>6. r \in PollerState
  <2>1. r.due \in BOOLEAN
    BY <1>1, <1>3
  <2>2. DOMAIN r = DOMAIN q
    BY <1>2
  <2>3. QED
    BY <1>1, <1>2, <1>3, <1>4, <1>5, <2>1 DEF PollerState
<1>7. ASSUME q.timer # NoTimer
      PROVE  r.timer # NoTimer /\ SinceWrite(r) >= SinceWrite(q) + 1
  <2>1. q.timer \in 1 .. Interval /\ r.timer \in 1 .. Interval
    BY <1>1, <1>3, <1>7, UsageAssumption DEF NoTimer
  <2>2. r.timer # NoTimer
    BY <2>1, UsageAssumption DEF NoTimer
  <2>3. CASE Busy(q)
    <3>1. Busy(r)
      BY <1>3, <2>3 DEF Busy
    <3>2. SinceWrite(r) = Interval + (q.took + 1) /\ SinceWrite(q) = Interval + q.took
      BY <1>3, <2>3, <3>1 DEF SinceWrite
    <3>3. QED
      BY <1>1, <2>2, <3>2, UsageAssumption
  <2>4. CASE ~Busy(q) /\ q.timer = 1
    <3>1. Busy(r)
      BY <1>3, <2>4 DEF Busy
    <3>2. SinceWrite(r) = Interval + q.took /\ SinceWrite(q) = Interval - 1
      BY <1>3, <2>4, <3>1 DEF SinceWrite
    <3>3. QED
      BY <1>1, <2>2, <3>2, UsageAssumption
  <2>5. CASE ~Busy(q) /\ q.timer # 1
    <3>1. ~Busy(r)
      BY <1>3, <2>5 DEF Busy
    <3>2. SinceWrite(r) = Interval - (q.timer - 1) /\ SinceWrite(q) = Interval - q.timer
      BY <1>3, <1>7, <2>5, <3>1 DEF SinceWrite
    <3>3. QED
      BY <2>1, <2>2, <3>2, UsageAssumption
  <2>6. QED
    BY <2>3, <2>4, <2>5
<1>8. QED
  BY <1>3, <1>6, <1>7

-----------------------------------------------------------------------------
(* A daemon between two writes.                                            *)

\* The invariant holds before the first poll.
LEMMA UsageInvInitially ==
  UsageInit => UsageInv
<1> SUFFICES ASSUME UsageInit PROVE UsageInv
  OBVIOUS
<1> USE UsageAssumption
<1>1. Booting \in PollerState /\ NotReading \in ReaderState
  BY DEF Booting, PollerState, NoTimer, NotReading, ReaderState
<1>k. "source" \in Keys
  BY SharedAreKeys
<1>2. UsageTypeOK
  BY <1>1 DEF UsageInit, UsageTypeOK
<1>3. PollsAreYoung
  BY DEF UsageInit, PollsAreYoung, Booting
<1>4. SourceNamesItsPoll /\ NothingStale
  BY <1>k DEF UsageInit, SourceNamesItsPoll, NothingStale
<1>5. ReadsAreSharp
  BY DEF UsageInit, ReadsAreSharp, NotReading
<1>6. KeysOutlastPolls
  BY DEF UsageInit, KeysOutlastPolls
<1>7. QED
  BY <1>2, <1>3, <1>4, <1>5, <1>6 DEF UsageInv

\* A daemon that goes on collecting: nothing else changes, but it may no longer
\* count as one whose last poll was written.
LEMMA OnePollerMoves ==
  ASSUME UsageInv, NEW p \in Pollers, NEW q \in PollerState,
         poller' = [poller EXCEPT ![p] = q],
         UNCHANGED <<keys, api, reader, blurred>>,
         fresh' \subseteq fresh,
         q.pc = "write" => q.by \in Sources /\ q.age <= MaxWrite,
         p \in fresh' => /\ q.timer = poller[p].timer
                        /\ SinceWrite(q) = SinceWrite(poller[p])
  PROVE  UsageInv'
<1>1. UsageTypeOK'
  BY DEF UsageInv, UsageTypeOK
<1>2. PollsAreYoung'
  BY DEF UsageInv, UsageTypeOK, PollsAreYoung
<1>3. SourceNamesItsPoll' /\ NothingStale' /\ ReadsAreSharp'
  BY DEF UsageInv, SourceNamesItsPoll, LeftOver, NothingStale, ReadsAreSharp, Read
<1>4. ASSUME Interval + MaxPoll < TTL PROVE KeysOutlastPolls'
  <2> SUFFICES ASSUME NEW r \in fresh', NEW k \in Shared
               PROVE  /\ poller'[r].timer # NoTimer
                      /\ keys'[k] # Nothing
                      /\ keys'[k].ttl + SinceWrite(poller'[r]) >= TTL
    BY DEF KeysOutlastPolls, SinceWrite, Busy
  <2>1. r \in fresh /\ r \in Pollers
    BY DEF UsageInv, UsageTypeOK
  <2>2. /\ poller[r].timer # NoTimer
        /\ keys[k] # Nothing /\ keys[k].ttl + SinceWrite(poller[r]) >= TTL
    BY <1>4, <2>1 DEF UsageInv, KeysOutlastPolls
  <2>3. poller'[r].timer = poller[r].timer /\ SinceWrite(poller'[r]) = SinceWrite(poller[r])
    BY <2>1 DEF UsageInv, UsageTypeOK
  <2>4. QED
    BY <2>2, <2>3
<1>5. QED
  BY <1>1, <1>2, <1>3, <1>4 DEF UsageInv

\* The start of a poll keeps the invariant.
LEMMA PollKeeps ==
  ASSUME UsageInv, NEW p \in Pollers, Poll(p)
  PROVE  UsageInv'
<1> DEFINE q == [poller[p] EXCEPT !.pc = IF p \in WithApi THEN "fetch" ELSE "scan",
                                  !.due = FALSE]
<1>1. poller[p] \in PollerState
  BY DEF UsageInv, UsageTypeOK
<1>2. poller' = [poller EXCEPT ![p] = q]
  BY DEF Poll
<1>3. q \in PollerState /\ q.pc \in {"fetch", "scan"} /\ q.timer = poller[p].timer
      /\ q.took = poller[p].took
  BY <1>1 DEF PollerState
<1>4. SinceWrite(q) = SinceWrite(poller[p])
  BY <1>3 DEF Poll, SinceWrite, Busy
<1>5. QED
  BY <1>2, <1>3, <1>4, OnePollerMoves DEF Poll, ByPoller

\* A daemon with an answer in hand has its type, and the time since its last write stands.
LEMMA CollectedFact ==
  ASSUME UsageInv, NEW p \in Pollers, NEW source \in Sources,
         poller[p].pc \in {"fetch", "scan"}, Collected(p, source),
         UNCHANGED <<keys, api, fresh, reader, blurred>>
  PROVE  UsageInv'
<1> DEFINE q == [poller[p] EXCEPT !.pc = "write", !.by = source, !.age = 0]
<1>1. poller[p] \in PollerState
  BY DEF UsageInv, UsageTypeOK
<1>2. poller' = [poller EXCEPT ![p] = q]
  BY DEF Collected
<1>3. q \in PollerState
  BY <1>1 DEF PollerState
<1>4. /\ q.pc = "write" /\ q.by = source /\ q.age = 0
      /\ q.took = poller[p].took /\ q.timer = poller[p].timer
  BY <1>1 DEF PollerState
<1>5. q.pc = "write" /\ q.by \in Sources /\ q.age <= MaxWrite
  BY <1>4, UsageAssumption
<1>6. q.timer = poller[p].timer /\ SinceWrite(q) = SinceWrite(poller[p])
  BY <1>4 DEF SinceWrite, Busy
<1>7. QED
  BY <1>2, <1>3, <1>5, <1>6, OnePollerMoves

\* So does an answer of the API (main.go:272-341).
LEMMA FetchKeeps ==
  ASSUME UsageInv, NEW p \in Pollers, Fetch(p)
  PROVE  UsageInv'
<1>1. CASE api
  BY <1>1, CollectedFact DEF Fetch, ByPoller, Sources
<1>2. CASE ~api
  <2> DEFINE q == [poller[p] EXCEPT !.pc = "scan"]
  <2>1. poller[p] \in PollerState /\ poller[p].pc = "fetch"
    BY DEF UsageInv, UsageTypeOK, Fetch
  <2>2. poller' = [poller EXCEPT ![p] = q]
    BY <1>2 DEF Fetch
  <2>3. /\ q \in PollerState /\ q.pc = "scan"
        /\ q.timer = poller[p].timer /\ q.took = poller[p].took
    BY <2>1 DEF PollerState
  <2>4. SinceWrite(q) = SinceWrite(poller[p])
    BY <2>1, <2>3 DEF SinceWrite, Busy
  <2>5. QED
    BY <2>2, <2>3, <2>4, OnePollerMoves DEF Fetch, ByPoller
<1>3. QED
  BY <1>1, <1>2

\* So does a scan of the transcripts (main.go:343-367).
LEMMA ScanKeeps ==
  ASSUME UsageInv, NEW p \in Pollers, Scan(p)
  PROVE  UsageInv'
  BY CollectedFact DEF Scan, ByPoller, Sources

\* What the end of a poll leaves of a daemon.
LEMMA PollOverFact ==
  ASSUME UsageInv, NEW p \in Pollers, PollOver(p)
  PROVE  \E q \in PollerState :
           /\ poller' = [poller EXCEPT ![p] = q]
           /\ q.pc = "wait" /\ q.took = 0 /\ q.timer # NoTimer
<1> DEFINE q == [Booting EXCEPT
                   !.timer = IF poller[p].timer = NoTimer THEN Interval ELSE poller[p].timer,
                   !.due = poller[p].due]
<1>1. poller[p] \in PollerState
  BY DEF UsageInv, UsageTypeOK
<1>2. /\ q.pc = "wait" /\ q.took = 0 /\ q.age = 0 /\ q.by = Nothing
      /\ q.timer = IF poller[p].timer = NoTimer THEN Interval ELSE poller[p].timer
      /\ q.due = poller[p].due
  BY DEF Booting
<1>3. q.timer \in 1 .. Interval /\ q.due \in BOOLEAN
  BY <1>1, <1>2, UsageAssumption DEF PollerState
<1>4. q \in PollerState
  <2>1. Booting \in PollerState
    BY UsageAssumption DEF Booting, PollerState, NoTimer
  <2>2. QED
    BY <1>2, <1>3, <2>1 DEF PollerState
<1>5. q.timer # NoTimer
  BY <1>3, UsageAssumption DEF NoTimer
<1>6. QED
  BY <1>2, <1>4, <1>5 DEF PollOver

\* So does a poll that fails.
LEMMA PollFailsKeeps ==
  ASSUME UsageInv, NEW p \in Pollers, PollFails(p)
  PROVE  UsageInv'
<1>1. PICK q \in PollerState : /\ poller' = [poller EXCEPT ![p] = q]
                               /\ q.pc = "wait"
  BY PollOverFact DEF PollFails
<1>2. QED
  BY <1>1, OnePollerMoves DEF PollFails, ByPoller

\* So does a restart, which begins with a poll.
LEMMA RestartKeeps ==
  ASSUME UsageInv, NEW p \in Pollers, Restart(p)
  PROVE  UsageInv'
<1>1. Booting \in PollerState /\ Booting.pc = "wait"
  BY UsageAssumption DEF Booting, PollerState, NoTimer
<1>2. QED
  BY <1>1, OnePollerMoves DEF Restart, ByPoller

-----------------------------------------------------------------------------
(* The write, and the steps of the status line.                            *)

\* So does the write of a poll: all keys at once, with a full TTL.
LEMMA WriteKeeps ==
  ASSUME UsageInv, NEW p \in Pollers, Write(p)
  PROVE  UsageInv'
<1> DEFINE v == [by |-> poller[p].by, age |-> poller[p].age, ttl |-> TTL]
<1>1. PICK q \in PollerState : /\ poller' = [poller EXCEPT ![p] = q]
                               /\ q.pc = "wait" /\ q.took = 0 /\ q.timer # NoTimer
  BY PollOverFact DEF Write
<1>2. /\ poller[p].by \in Sources /\ poller[p].age \in Nat
      /\ poller[p].age <= MaxWrite
  BY DEF UsageInv, UsageTypeOK, PollsAreYoung, Write, PollerState
<1>3. v \in Written /\ v # Nothing
  BY <1>2, UsageAssumption DEF Written
<1>4. /\ keys' = [k \in Keys |-> IF k \in KeysOf(v.by) THEN v ELSE keys[k]]
      /\ keys'["source"] = v
  <2>1. keys' = [k \in Keys |-> IF k \in KeysOf(poller[p].by) THEN v ELSE keys[k]]
    BY DEF Write, SetKeys, NewKeys
  <2>2. "source" \in Keys /\ "source" \in KeysOf(poller[p].by)
    BY SharedAreKeys DEF KeysOf, Shared
  <2>3. QED
    BY <2>1, <2>2
<1>5. UsageTypeOK'
  <2>1. poller' \in [Pollers -> PollerState] /\ keys' \in [Keys -> Written \cup {Nothing}]
    BY <1>1, <1>3, <1>4 DEF UsageInv, UsageTypeOK
  <2>2. fresh' \subseteq Pollers /\ blurred' \in BOOLEAN
    BY DEF UsageInv, UsageTypeOK, Write
  <2>3. QED
    BY <2>1, <2>2 DEF UsageInv, UsageTypeOK, Write, ByPoller
<1>6. PollsAreYoung'
  BY <1>1 DEF UsageInv, UsageTypeOK, PollsAreYoung
<1>7. SourceNamesItsPoll'
  <2>1. \A k \in Keys : keys[k] # Nothing => keys[k].ttl <= TTL
    BY UsageAssumption DEF UsageInv, UsageTypeOK, Written
  <2>2. \A k \in Keys : IF k \in KeysOf(v.by) THEN keys'[k] = v
                        ELSE keys'[k] # Nothing => keys'[k].ttl <= v.ttl
    BY <1>4, <2>1
  <2>3. QED
    BY <1>3, <1>4, <2>2 DEF SourceNamesItsPoll, LeftOver
<1>8. NothingStale'
  <2>1. v.age + v.ttl <= MaxWrite + TTL
    BY <1>2, UsageAssumption
  <2>2. QED
    BY <1>4, <2>1 DEF UsageInv, NothingStale
<1>9. ReadsAreSharp'
  <2>1. ~blurred' => reader'.pc = "off"
    BY DEF Write, ByPoller
  <2>2. QED
    BY <2>1 DEF ReadsAreSharp
<1>10. ASSUME Interval + MaxPoll < TTL PROVE KeysOutlastPolls'
  <2> SUFFICES ASSUME NEW r \in fresh', NEW k \in Shared
               PROVE  /\ poller'[r].timer # NoTimer
                      /\ keys'[k] # Nothing
                      /\ keys'[k].ttl + SinceWrite(poller'[r]) >= TTL
    BY DEF KeysOutlastPolls, SinceWrite, Busy
  <2>1. r \in Pollers /\ (r = p \/ r \in fresh)
    BY DEF UsageInv, UsageTypeOK, Write
  <2>2. poller'[r].timer # NoTimer /\ poller'[r] \in PollerState
    <3>1. CASE r = p
      BY <1>1, <3>1 DEF UsageInv, UsageTypeOK
    <3>2. CASE r # p
      <4>1. poller'[r] = poller[r] /\ r \in fresh
        BY <1>1, <2>1, <3>2 DEF UsageInv, UsageTypeOK
      <4>2. QED
        BY <1>10, <2>1, <4>1 DEF UsageInv, UsageTypeOK, KeysOutlastPolls
    <3>3. QED
      BY <3>1, <3>2
  <2>3. poller'[r].timer \in 1 .. Interval /\ poller'[r].took \in Nat
    BY <2>2, UsageAssumption DEF PollerState
  <2>4. SinceWrite(poller'[r]) \in Nat
    <3>1. CASE Busy(poller'[r])
      BY <2>3, <3>1, UsageAssumption DEF SinceWrite
    <3>2. CASE ~Busy(poller'[r])
      BY <2>3, <3>2, UsageAssumption DEF SinceWrite
    <3>3. QED
      BY <3>1, <3>2
  <2>5. keys'[k] = v /\ v.ttl = TTL
    BY <1>4, SharedAreKeys DEF KeysOf
  <2>6. QED
    BY <1>3, <2>2, <2>4, <2>5, UsageAssumption
<1>11. QED
  BY <1>5, <1>6, <1>7, <1>8, <1>9, <1>10 DEF UsageInv

\* A step of the status line leaves all but its own two variables alone.
LEMMA ReaderMoves ==
  ASSUME UsageInv, ByReader, reader' \in ReaderState, blurred' \in BOOLEAN,
         ReadsAreSharp'
  PROVE  UsageInv'
<1>1. UsageTypeOK' /\ PollsAreYoung' /\ SourceNamesItsPoll' /\ NothingStale'
  BY DEF UsageInv, UsageTypeOK, PollsAreYoung, SourceNamesItsPoll, LeftOver, NothingStale, ByReader
<1>2. ASSUME Interval + MaxPoll < TTL PROVE KeysOutlastPolls'
  <2>1. KeysOutlastPolls
    BY <1>2 DEF UsageInv
  <2>2. keys' = keys /\ poller' = poller /\ fresh' = fresh
    BY DEF ByReader
  <2>3. QED
    BY <2>1, <2>2 DEF KeysOutlastPolls, SinceWrite, Busy
<1>3. QED
  BY <1>1, <1>2 DEF UsageInv

\* So does the start of a status line's reads.
LEMMA StartReadingKeeps ==
  ASSUME UsageInv, StartReading
  PROVE  UsageInv'
<1>1. reader' \in ReaderState /\ reader'.pc = "pct5h"
  BY DEF StartReading, NotReading, ReaderState, ReadKeys, Shared
<1>2. ReadsAreSharp'
  BY <1>1 DEF ReadsAreSharp
<1>3. QED
  BY <1>1, <1>2, ReaderMoves DEF StartReading

\* So does its end.
LEMMA ExitKeeps ==
  ASSUME UsageInv, Exit
  PROVE  UsageInv'
<1>1. reader' \in ReaderState /\ reader'.pc = "off"
  BY DEF Exit, NotReading, ReaderState
<1>2. ReadsAreSharp'
  BY <1>1 DEF ReadsAreSharp
<1>3. QED
  BY <1>1, <1>2, ReaderMoves DEF Exit

\* So does each of its GETs (statusline.go:81-102).
LEMMA GetKeeps ==
  ASSUME UsageInv, NEW k \in ReadKeys, Get(k)
  PROVE  UsageInv'
<1>1. /\ reader \in ReaderState /\ reader.pc = k /\ keys[k] \in Written
      /\ keys[k] # Nothing /\ blurred' = blurred /\ blurred \in BOOLEAN
  BY SharedAreKeys DEF UsageInv, UsageTypeOK, Get
<1>2. keys[k].by \in Sources /\ keys' = keys
  BY <1>1 DEF Written, Get, ByReader
<1>3. reader' = [reader EXCEPT ![k] = keys[k].by, !.pc = NextKey(k)]
  BY DEF Get
<1>4. reader' \in ReaderState /\ ReadsAreSharp'
  <2>1. CASE k = "pct5h"
    <3>1. reader' \in ReaderState /\ reader'.pc = "pctWeek" /\ reader'.pct5h = keys["pct5h"].by
      BY <1>1, <1>2, <1>3, <2>1 DEF NextKey, ReaderState, ReadKeys, Shared
    <3>2. QED
      BY <1>1, <1>2, <2>1, <3>1 DEF ReadsAreSharp, Read
  <2>2. CASE k = "pctWeek"
    <3>1. /\ reader' \in ReaderState /\ reader'.pc = "tokens5h"
          /\ reader'.pctWeek = keys["pctWeek"].by /\ reader'.pct5h = reader.pct5h
      BY <1>1, <1>2, <1>3, <2>2 DEF NextKey, ReaderState, ReadKeys, Shared
    <3>2. QED
      BY <1>1, <1>2, <2>2, <3>1 DEF UsageInv, ReadsAreSharp, Read
  <2>3. CASE k = "tokens5h"
    <3>1. /\ reader' \in ReaderState /\ reader'.pc = "source"
          /\ reader'.tokens5h = keys["tokens5h"].by
          /\ reader'.pct5h = reader.pct5h /\ reader'.pctWeek = reader.pctWeek
      BY <1>1, <1>2, <1>3, <2>3 DEF NextKey, ReaderState, ReadKeys, Shared
    <3>2. QED
      BY <1>1, <1>2, <2>3, <3>1 DEF UsageInv, ReadsAreSharp, Read
  <2>4. CASE k = "source"
    <3>1. /\ reader' \in ReaderState /\ reader'.pc = "shown"
          /\ reader'.source = keys["source"].by /\ reader'.tokens5h = reader.tokens5h
          /\ reader'.pct5h = reader.pct5h /\ reader'.pctWeek = reader.pctWeek
      BY <1>1, <1>2, <1>3, <2>4 DEF NextKey, ReaderState, ReadKeys, Shared
    <3>2. QED
      BY <1>1, <1>2, <2>4, <3>1 DEF UsageInv, ReadsAreSharp, Read
  <2>5. QED
    BY <2>1, <2>2, <2>3, <2>4 DEF ReadKeys, Shared
<1>5. QED
  BY <1>1, <1>4, ReaderMoves DEF Get

\* So does a GET that fails: without a percentage the reads are over, without the
\* tokens or the source they go on.
LEMMA GetFailsKeeps ==
  ASSUME UsageInv, NEW k \in ReadKeys, GetFails(k)
  PROVE  UsageInv'
<1>1. reader \in ReaderState /\ reader.pc = k /\ keys' = keys
  BY DEF UsageInv, UsageTypeOK, GetFails, ByReader
<1>2. blurred' \in BOOLEAN
  BY DEF GetFails
<1>3. CASE k \in BestEffort
  <2>1. reader' = [reader EXCEPT ![k] = Nothing, !.pc = NextKey(k)]
    BY <1>3 DEF GetFails
  <2>2. ~blurred' => ~blurred /\ keys[k] = Nothing
    BY <1>3 DEF GetFails
  <2>3. reader' \in ReaderState /\ ReadsAreSharp'
    <3>1. CASE k = "tokens5h"
      <4>1. reader' \in ReaderState /\ reader'.pc = "source"
        BY <1>1, <2>1, <3>1 DEF NextKey, ReaderState, ReadKeys, Shared
      <4>2. /\ reader'.pct5h = reader.pct5h /\ reader'.pctWeek = reader.pctWeek
            /\ reader'.tokens5h = Nothing
        BY <1>1, <2>1, <3>1 DEF ReaderState
      <4>3. QED
        BY <1>1, <2>2, <3>1, <4>1, <4>2 DEF UsageInv, ReadsAreSharp, Read
    <3>2. CASE k = "source"
      <4>1. reader' \in ReaderState /\ reader'.pc = "shown"
        BY <1>1, <2>1, <3>2 DEF NextKey, ReaderState, ReadKeys, Shared
      <4>2. blurred'
        <5>1. SUFFICES ASSUME ~blurred, keys["source"] = Nothing PROVE FALSE
          BY <2>2, <3>2
        <5>2. keys["pct5h"] # Nothing
          BY <1>1, <3>2, <5>1 DEF UsageInv, ReadsAreSharp
        <5>3. QED
          BY <5>1, <5>2, SharedAreKeys DEF UsageInv, SourceNamesItsPoll
      <4>3. QED
        BY <4>1, <4>2 DEF ReadsAreSharp
    <3>3. QED
      BY <1>3, <3>1, <3>2 DEF BestEffort
  <2>4. QED
    BY <1>2, <2>3, ReaderMoves DEF GetFails
<1>4. CASE k \notin BestEffort
  <2>1. reader' \in ReaderState /\ reader'.pc = "off"
    BY <1>4 DEF GetFails, NotReading, ReaderState
  <2>2. ReadsAreSharp'
    BY <2>1 DEF ReadsAreSharp
  <2>3. QED
    BY <1>2, <2>1, <2>2, ReaderMoves DEF GetFails
<1>5. QED
  BY <1>3, <1>4

\* So does a change of the API.
LEMMA ApiChangesKeeps ==
  ASSUME UsageInv, ApiChanges
  PROVE  UsageInv'
<1>1. UNCHANGED <<keys, poller, fresh, reader, blurred>> /\ api' \in BOOLEAN
  BY DEF ApiChanges
<1>2. UsageTypeOK' /\ PollsAreYoung' /\ SourceNamesItsPoll' /\ NothingStale' /\ ReadsAreSharp'
  BY <1>1 DEF UsageInv, UsageTypeOK, PollsAreYoung, SourceNamesItsPoll, LeftOver, NothingStale,
              ReadsAreSharp, Read
<1>3. ASSUME Interval + MaxPoll < TTL PROVE KeysOutlastPolls'
  <2>1. KeysOutlastPolls
    BY <1>3 DEF UsageInv
  <2>2. QED
    BY <1>1, <2>1 DEF KeysOutlastPolls, SinceWrite, Busy
<1>4. QED
  BY <1>2, <1>3 DEF UsageInv

-----------------------------------------------------------------------------
(* Time passes.                                                            *)

\* So do time and expiry: keys and tickers age alike.
LEMMA TickKeeps ==
  ASSUME UsageInv, Tick
  PROVE  UsageInv'
<1>1. /\ \A k \in Keys : keys[k] \in Written \cup {Nothing} /\ keys'[k] = AgeKey(keys[k])
      /\ keys' = [k \in Keys |-> AgeKey(keys[k])]
  BY DEF UsageInv, UsageTypeOK, Tick
<1>2. \A p \in Pollers : /\ poller[p] \in PollerState /\ poller[p].took < MaxPoll
                          /\ poller'[p] = AgePoller(poller[p])
  BY DEF UsageInv, UsageTypeOK, Tick
<1>3. UsageTypeOK'
  <2>1. keys' \in [Keys -> Written \cup {Nothing}]
    BY <1>1, AgeKeyFact
  <2>2. \A p \in Pollers : AgePoller(poller[p]) \in PollerState
    BY <1>2, AgePollerFact
  <2>3. poller' \in [Pollers -> PollerState]
    BY <2>2 DEF Tick
  <2>4. blurred' \in BOOLEAN /\ UNCHANGED <<api, fresh, reader>>
    BY DEF Tick
  <2>5. QED
    BY <2>1, <2>3, <2>4 DEF UsageInv, UsageTypeOK
<1>4. PollsAreYoung'
  <2> SUFFICES ASSUME NEW p \in Pollers, poller'[p].pc = "write"
               PROVE  poller'[p].by \in Sources /\ poller'[p].age <= MaxWrite
    BY DEF PollsAreYoung
  <2>1. /\ poller'[p].pc = poller[p].pc /\ poller'[p].by = poller[p].by
        /\ poller[p].pc = "write" => poller'[p].age = poller[p].age + 1
    BY <1>2, AgePollerFact
  <2>2. /\ poller[p].by \in Sources /\ poller[p].age < MaxWrite /\ poller[p].age \in Nat
    BY <1>2, <2>1 DEF UsageInv, PollsAreYoung, Tick, PollerState
  <2>3. QED
    BY <2>1, <2>2, UsageAssumption
<1>5. SourceNamesItsPoll'
  <2>1. CASE keys["source"] = Nothing
    BY <1>1, <2>1, SharedAreKeys DEF UsageInv, SourceNamesItsPoll, AgeKey
  <2>2. CASE keys["source"] # Nothing /\ keys'["source"] = Nothing
    <3>1. keys["source"].ttl = 1
      <4>1. keys["source"] \in Written /\ ~(keys["source"].ttl > 1)
        BY <1>1, <2>2, SharedAreKeys, AgeKeyFact
      <4>2. QED
        BY <4>1, UsageAssumption DEF Written
    <3>2. SUFFICES ASSUME NEW k \in Keys, keys[k] # Nothing PROVE AgeKey(keys[k]) = Nothing
      BY <1>1, <2>2 DEF SourceNamesItsPoll, AgeKey
    <3>3. keys[k].ttl <= 1 /\ keys[k].ttl \in 1 .. TTL
      BY <1>1, <2>2, <3>1, <3>2 DEF UsageInv, SourceNamesItsPoll, LeftOver, Written
    <3>4. keys[k].ttl = 1
      BY <3>3, UsageAssumption
    <3>5. QED
      BY <3>4 DEF AgeKey
  <2>3. CASE keys'["source"] # Nothing
    <3>1. /\ keys["source"] # Nothing /\ keys["source"] \in Written
          /\ keys'["source"].by = keys["source"].by
          /\ keys'["source"].ttl = keys["source"].ttl - 1
      BY <1>1, <2>3, AgeKeyFact, SharedAreKeys
    <3> SUFFICES ASSUME NEW k \in Keys
                 PROVE  IF k \in KeysOf(keys["source"].by) THEN keys'[k] = keys'["source"]
                        ELSE LeftOver(k)'
      BY <2>3, <3>1 DEF SourceNamesItsPoll
    <3>2. CASE k \in KeysOf(keys["source"].by)
      BY <1>1, <3>1, <3>2, SharedAreKeys DEF UsageInv, SourceNamesItsPoll
    <3>3. CASE k \notin KeysOf(keys["source"].by)
      <4> SUFFICES ASSUME keys'[k] # Nothing PROVE keys'[k].ttl <= keys'["source"].ttl
        BY <3>3 DEF LeftOver
      <4>1. /\ keys[k] # Nothing /\ keys'[k].ttl = keys[k].ttl - 1
            /\ keys[k].ttl \in Int /\ keys["source"].ttl \in Int
        BY <1>1, <3>1, AgeKeyFact, UsageAssumption DEF Written
      <4>2. keys[k].ttl <= keys["source"].ttl
        BY <3>1, <3>3, <4>1 DEF UsageInv, SourceNamesItsPoll, LeftOver
      <4>3. QED
        BY <3>1, <4>1, <4>2
    <3>4. QED
      BY <3>2, <3>3
  <2>4. QED
    BY <2>1, <2>2, <2>3
<1>6. NothingStale'
  <2> SUFFICES ASSUME NEW k \in Keys, keys'[k] # Nothing
               PROVE  keys'[k].age + keys'[k].ttl <= MaxWrite + TTL
    BY DEF NothingStale
  <2>1. /\ keys[k] # Nothing
        /\ keys'[k].age = keys[k].age + 1 /\ keys'[k].ttl = keys[k].ttl - 1
    BY <1>1, AgeKeyFact
  <2>2. keys[k].age \in Nat /\ keys[k].ttl \in 1 .. TTL
    BY <1>1, <2>1 DEF Written
  <2>3. keys[k].age + keys[k].ttl <= MaxWrite + TTL
    BY <2>1 DEF UsageInv, NothingStale
  <2>4. QED
    BY <2>1, <2>2, <2>3, UsageAssumption
<1>7. ReadsAreSharp'
  <2>1. ~blurred' => reader'.pc = "off"
    BY DEF Tick
  <2>2. QED
    BY <2>1 DEF ReadsAreSharp
<1>8. ASSUME Interval + MaxPoll < TTL PROVE KeysOutlastPolls'
  <2> SUFFICES ASSUME NEW p \in fresh', NEW k \in Shared
               PROVE  /\ poller'[p].timer # NoTimer
                      /\ keys'[k] # Nothing
                      /\ keys'[k].ttl + SinceWrite(poller'[p]) >= TTL
    BY DEF KeysOutlastPolls, SinceWrite, Busy
  <2>1. p \in fresh /\ p \in Pollers
    BY DEF UsageInv, UsageTypeOK, Tick
  <2>2. /\ poller[p].timer # NoTimer
        /\ keys[k] # Nothing /\ keys[k].ttl + SinceWrite(poller[p]) >= TTL
    BY <1>8, <2>1 DEF UsageInv, KeysOutlastPolls
  <2>3. k \in Keys /\ keys[k].ttl \in 1 .. TTL
    BY <1>1, <2>2, SharedAreKeys DEF Written
  <2>4. /\ poller[p].took \in 0 .. MaxPoll /\ poller[p].took < MaxPoll
        /\ poller[p].timer \in 1 .. Interval
    BY <1>2, <2>1, <2>2 DEF PollerState
  <2>5. SinceWrite(poller[p]) \in Int /\ SinceWrite(poller[p]) < Interval + MaxPoll
    <3>1. CASE Busy(poller[p])
      BY <2>4, <3>1, UsageAssumption DEF SinceWrite
    <3>2. CASE ~Busy(poller[p])
      BY <2>4, <3>2, UsageAssumption DEF SinceWrite
    <3>3. QED
      BY <3>1, <3>2
  <2>6. keys[k].ttl > 1
    BY <1>8, <2>2, <2>3, <2>5, UsageAssumption
  <2>7. keys'[k] # Nothing /\ keys'[k].ttl = keys[k].ttl - 1
    BY <1>1, <2>2, <2>3, <2>6, AgeKeyFact
  <2>8. /\ poller'[p].timer # NoTimer
        /\ SinceWrite(poller'[p]) >= SinceWrite(poller[p]) + 1
    BY <1>2, <2>1, <2>2, AgePollerFact
  <2>9. SinceWrite(poller'[p]) \in Int
    <3>1. poller'[p] \in PollerState
      BY <1>3, <2>1 DEF UsageTypeOK
    <3>2. poller'[p].took \in Int /\ poller'[p].timer \in Int
      BY <2>8, <3>1, UsageAssumption DEF PollerState
    <3>3. CASE Busy(poller'[p])
      BY <3>2, <3>3, UsageAssumption DEF SinceWrite
    <3>4. CASE ~Busy(poller'[p])
      BY <3>2, <3>4, UsageAssumption DEF SinceWrite
    <3>5. QED
      BY <3>3, <3>4
  <2>10. QED
    BY <2>2, <2>3, <2>5, <2>7, <2>8, <2>9, UsageAssumption
<1>9. QED
  BY <1>3, <1>4, <1>5, <1>6, <1>7, <1>8 DEF UsageInv

-----------------------------------------------------------------------------
(* The theorems.                                                           *)

\* The inductive invariant holds of every behaviour: of any number of daemons
\* that poll, fail, stop and start (main.go:253-394) and any reads of a status
\* line in between (statusline.go:77-102).
THEOREM UsageInvariant == UsageSpec => []UsageInv
<1>1. ASSUME UsageInv, [UsageNext]_usageVars PROVE UsageInv'
  <2>1. ASSUME NEW p \in Pollers, PollerStep(p) \/ PollFails(p) \/ Restart(p)
        PROVE  UsageInv'
    BY <1>1, <2>1, PollKeeps, FetchKeeps, ScanKeeps, WriteKeeps, PollFailsKeeps,
       RestartKeeps DEF PollerStep
  <2>2. CASE ApiChanges
    BY <1>1, <2>2, ApiChangesKeeps
  <2>3. CASE ReaderStep
    BY <1>1, <2>3, StartReadingKeeps, ExitKeeps, GetKeeps, GetFailsKeeps DEF ReaderStep
  <2>4. CASE Tick
    BY <1>1, <2>4, TickKeeps
  <2>5. CASE UNCHANGED usageVars
    <3>1. UNCHANGED <<keys, api, poller, fresh, reader, blurred>>
      BY <2>5 DEF usageVars
    <3>2. QED
      BY <1>1, <3>1 DEF UsageInv, UsageTypeOK, PollsAreYoung, SourceNamesItsPoll, LeftOver,
         NothingStale,
         ReadsAreSharp, Read, KeysOutlastPolls, SinceWrite, Busy
  <2>6. QED
    BY <1>1, <2>1, <2>2, <2>3, <2>4, <2>5 DEF UsageNext
<1>2. QED
  BY <1>1, UsageInvInitially, PTL DEF UsageSpec

\* Whatever mixture of the two pipelines, from however many hosts, has written the
\* keys: the source names a poll whose own keys are all there, unmixed, and what the
\* other source has left behind does not outlive it (main.go:314-320, 372-380).
THEOREM SourceIsTold == UsageSpec => []SourceNamesItsPoll
<1>1. UsageInv => SourceNamesItsPoll
  BY DEF UsageInv
<1>2. QED
  BY <1>1, UsageInvariant, PTL

\* Nothing that is older than the TTL and the duration of a write can be read,
\* whatever stopped (main.go:302, 311, 369).
THEOREM NothingStaleIsRead == UsageSpec => []NothingStale
<1>1. UsageInv => NothingStale
  BY DEF UsageInv
<1>2. QED
  BY <1>1, UsageInvariant, PTL

\* The numbers of a daemon whose polls work never expire in between, if the
\* period and the duration of a poll are together shorter than the TTL
\* (main.go:259, 302: 60 and 120 seconds, so a poll may take almost a minute).
THEOREM WorkingPollStaysVisible ==
  ASSUME Interval + MaxPoll < TTL
  PROVE  UsageSpec => []WorkingPollIsVisible
<1>1. UsageInv => WorkingPollIsVisible
  BY DEF UsageInv, KeysOutlastPolls, WorkingPollIsVisible
<1>2. QED
  BY <1>1, UsageInvariant, PTL

\* When a status line that nothing has come between has read the first percentage,
\* all keys of the poll that the source names are there.
LEMMA SharpKeys ==
  ASSUME UsageInv, reader.pc = "shown", ~blurred
  PROVE  /\ keys["source"] # Nothing
         /\ keys["pct5h"] = keys["source"] /\ keys["pctWeek"] = keys["source"]
         /\ keys["source"].by = "local" => keys["tokens5h"] = keys["source"]
<1>1. keys["pct5h"] # Nothing
  BY DEF UsageInv, ReadsAreSharp
<1>2. keys["source"] # Nothing
  BY <1>1, SharedAreKeys DEF UsageInv, SourceNamesItsPoll
<1>3. \A k \in Keys : k \in KeysOf(keys["source"].by) => keys[k] = keys["source"]
  BY <1>2 DEF UsageInv, SourceNamesItsPoll
<1>4. QED
  BY <1>2, <1>3, SharedAreKeys DEF Shared

\* What a status line shows when nothing came between its reads is the pair of
\* percentages of one poll, with the mark that they deserve (statusline.go:81-93,
\* 224-227).
THEOREM SharpReadsAreRight == UsageSpec => []SharpIsRight
<1>1. ASSUME UsageInv PROVE SharpIsRight
  <2> SUFFICES ASSUME reader.pc = "shown", ~blurred
               PROVE  /\ reader.pct5h = reader.pctWeek
                      /\ ShownExact <=> reader.pct5h = "anthropic"
                      /\ ~ShownExact => reader.tokens5h = "local"
    BY DEF SharpIsRight
  <2> DEFINE s == keys["source"]
  <2>1. /\ s # Nothing /\ keys["pct5h"] = s /\ keys["pctWeek"] = s
        /\ s.by = "local" => keys["tokens5h"] = s
    BY <1>1, SharpKeys
  <2>2. /\ reader.pct5h = s.by /\ reader.pctWeek = s.by /\ reader.source = s.by
        /\ s.by = "local" => reader.tokens5h = s.by
    BY <1>1, <2>1 DEF UsageInv, ReadsAreSharp, Read
  <2>3. s.by \in {"anthropic", "local"}
    BY <1>1, <2>1, SharedAreKeys DEF UsageInv, UsageTypeOK, Written, Sources
  <2>4. QED
    BY <2>2, <2>3 DEF ShownExact
<1>2. QED
  BY <1>1, UsageInvariant, PTL

-----------------------------------------------------------------------------
(* The keys are one notice on a board.                                     *)

ShowsTheBoard ==
  \/ Shown = Nothing
  \/ /\ keys["source"] # Nothing
     /\ Shown = [pct5h |-> keys["source"].by, pctWeek |-> keys["source"].by,
                 exact |-> keys["source"].by = "anthropic"]

\* What an undisturbed status line shows is the notice (statusline.go:77-102).
LEMMA ShownIsOnTheBoard == UsageInv => ShowsTheBoard
<1> SUFFICES ASSUME UsageInv, reader.pc = "shown", ~blurred
             PROVE  /\ keys["source"] # Nothing
                    /\ Shown = [pct5h |-> keys["source"].by, pctWeek |-> keys["source"].by,
                                exact |-> keys["source"].by = "anthropic"]
  BY DEF ShowsTheBoard, Shown
<1>1. /\ keys["source"] # Nothing
      /\ keys["pct5h"] = keys["source"] /\ keys["pctWeek"] = keys["source"]
  BY SharpKeys
<1>2. /\ reader.pct5h = keys["source"].by /\ reader.pctWeek = keys["source"].by
      /\ reader.source = keys["source"].by
  BY <1>1 DEF UsageInv, ReadsAreSharp, Read
<1>3. keys["source"].by \in {"anthropic", "local"}
  BY <1>1, SharedAreKeys DEF UsageInv, UsageTypeOK, Written, Sources
<1>4. ShownExact <=> keys["source"].by = "anthropic"
  BY <1>2, <1>3 DEF ShownExact
<1>5. ShownExact = (keys["source"].by = "anthropic")
  BY <1>4 DEF ShownExact
<1>6. Shown = [pct5h |-> reader.pct5h, pctWeek |-> reader.pctWeek, exact |-> ShownExact]
  BY DEF Shown
<1>7. QED
  BY <1>1, <1>2, <1>5, <1>6

\* A write replaces the notice; a status line that is being drawn is disturbed
\* (main.go:311-325, 369-385).
LEMMA WritePosts ==
  ASSUME UsageInv, NEW p \in Pollers, Write(p)
  PROVE  \E by \in Sources, age \in 0 .. MaxWrite : Board!Post(by, age)
<1>1. poller[p].by \in Sources /\ poller[p].age \in 0 .. MaxWrite
  <2>1. poller[p] \in PollerState
    BY DEF UsageInv, UsageTypeOK
  <2>2. poller[p].age \in Nat
    BY <2>1 DEF PollerState
  <2>3. poller[p].by \in Sources /\ poller[p].age <= MaxWrite
    BY DEF UsageInv, PollsAreYoung, Write
  <2>4. QED
    BY <2>2, <2>3, UsageAssumption
<1>2. keys'["source"] = [by |-> poller[p].by, age |-> poller[p].age, ttl |-> TTL]
  BY SharedAreKeys DEF Write, SetKeys, NewKeys, Shared
<1>3. Shown' = Nothing
  BY DEF Write, ByPoller, Shown, UsageInv, UsageTypeOK, ReaderState, ReadKeys, Shared
<1>4. Board!Post(poller[p].by, poller[p].age)
  BY <1>2, <1>3 DEF Board!Post
<1>5. QED
  BY <1>1, <1>4

\* Time takes the notice down with the keys (main.go:302).
LEMMA TickElapses ==
  ASSUME UsageInv, Tick
  PROVE  Board!Elapse
<1>1. keys'["source"] = AgeKey(keys["source"])
  BY SharedAreKeys DEF Tick
<1>2. Shown' = Nothing
  BY DEF Tick, Shown, UsageInv, UsageTypeOK, ReaderState, ReadKeys, Shared
<1>3. QED
  BY <1>1, <1>2 DEF Board!Elapse, AgeKey

\* Every other step leaves the keys alone, and shows the notice or nothing.
LEMMA RestShowsOrHides ==
  ASSUME UNCHANGED keys, ShowsTheBoard'
  PROVE  Board!Show \/ Board!Hide
BY DEF Board!Show, Board!Hide, ShowsTheBoard

\* Any number of daemons that poll two sources in several steps, fail and start
\* again, and a status line that reads key by key, implement one notice on a board
\* that is replaced, falls off and is shown as a whole (main.go:301-385,
\* statusline.go:77-102).
THEOREM PollsImplementBoard == UsageSpec => ImplementsBoard
<1>1. UsageInit => Board!BoardInit
  BY SharedAreKeys DEF UsageInit, Board!BoardInit, Shown, NotReading
<1>2. UsageInv' => ShowsTheBoard'
  BY ShownIsOnTheBoard, PTL
<1>3. UsageInv /\ UsageInv' /\ [UsageNext]_usageVars => [Board!BoardNext]_Board!boardVars
  <2> SUFFICES ASSUME UsageInv, UsageInv', [UsageNext]_usageVars
               PROVE  [Board!BoardNext]_Board!boardVars
    OBVIOUS
  <2>1. ASSUME UNCHANGED keys PROVE Board!BoardNext
    BY <1>2, <2>1, RestShowsOrHides DEF Board!BoardNext
  <2>2. CASE \E p \in Pollers : Write(p)
    BY <2>2, WritePosts DEF Board!BoardNext
  <2>3. CASE Tick
    BY <2>3, TickElapses DEF Board!BoardNext
  <2>4. CASE \E p \in Pollers : Poll(p) \/ Fetch(p) \/ Scan(p) \/ PollFails(p) \/ Restart(p)
    <3>1. UNCHANGED keys
      BY <2>4 DEF Poll, Fetch, Scan, PollFails, Restart
    <3>2. QED
      BY <2>1, <3>1
  <2>5. CASE ApiChanges \/ ReaderStep
    <3>1. UNCHANGED keys
      BY <2>5 DEF ApiChanges, ReaderStep, StartReading, Exit, Get, GetFails, ByReader
    <3>2. QED
      BY <2>1, <3>1
  <2>6. CASE UNCHANGED usageVars
    BY <2>1, <2>6 DEF usageVars
  <2>7. QED
    BY <2>2, <2>3, <2>4, <2>5, <2>6 DEF UsageNext, PollerStep
<1>4. QED
  BY <1>1, <1>3, UsageInvariant, PTL DEF UsageSpec, ImplementsBoard, Board!BoardSpec

\* The inductive invariant holds the types of the daemons, of the keys and of a
\* status line (main.go:253-394, statusline.go:53-102).
THEOREM UsageTypes == UsageSpec => []UsageTypeOK
<1>1. UsageInv => UsageTypeOK
  BY DEF UsageInv
<1>2. QED
  BY <1>1, UsageInvariant, PTL

=============================================================================
