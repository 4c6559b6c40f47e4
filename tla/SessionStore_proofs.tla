------------------------- MODULE SessionStore_proofs -------------------------
(* The session table stays consistent under any order of calls, for any    *)
(* sessions, any TTLs with GraceTTL <= HashTTL <= AgeCap and any ring sizes. *)
EXTENDS SessionStore, SequenceTheorems, TLAPS

-----------------------------------------------------------------------------
(* The rings.                                                              *)

\* LTRIM returns entries, no more of them than the size unless that is 0.
LEMMA LTrimFact ==
  ASSUME NEW items \in Seq(Entry), NEW size \in Nat
  PROVE  /\ LTrim(items, size) \in Seq(Entry)
         /\ size > 0 => Len(LTrim(items, size)) <= size
<1>1. CASE size = 0 \/ Len(items) <= size
  BY <1>1 DEF LTrim
<1>2. CASE ~(size = 0 \/ Len(items) <= size)
  <2>1. Len(items) \in Nat /\ 1 <= size /\ size < Len(items)
    BY <1>2, LenProperties
  <2>2. \A i \in 1 .. size : items[i] \in Entry
    BY <2>1, ElementOfSeq
  <2>3. /\ SubSeq(items, 1, size) \in Seq(Entry)
        /\ Len(SubSeq(items, 1, size)) = size
    BY <2>1, <2>2, SubSeqProperties
  <2>4. QED
    BY <1>2, <2>3 DEF LTrim
<1>3. QED
  BY <1>1, <1>2

\* LPUSH, LTRIM and EXPIRE make a ring of entries with the given TTL.
LEMMA LPushFact ==
  ASSUME NEW r \in [items : Seq(Entry), ttl : Nat], NEW e \in Entry,
         NEW size \in Nat, NEW ttl
  PROVE  /\ LPush(r, e, size, ttl).items \in Seq(Entry)
         /\ LPush(r, e, size, ttl) = [items |-> LPush(r, e, size, ttl).items, ttl |-> ttl]
         /\ size > 0 => Len(LPush(r, e, size, ttl).items) <= size
<1>1. <<e>> \in Seq(Entry) /\ r.items \in Seq(Entry)
  OBVIOUS
<1>2. <<e>> \o r.items \in Seq(Entry)
  BY <1>1, ConcatProperties
<1>3. QED
  BY <1>2, LTrimFact DEF LPush

\* An age that gets older is one more, or stays at AgeCap.
LEMMA OlderFact ==
  ASSUME NEW a \in Age
  PROVE  Older(a) \in Age /\ (Older(a) = a + 1 \/ (a = AgeCap /\ Older(a) = AgeCap))
  BY AgeCapAssumption DEF Age, Older

\* A ring that gets older, or expires, is a ring that is no longer.
LEMMA AgeRingFact ==
  ASSUME NEW top \in Nat, NEW r \in [items : Seq(Entry), ttl : 0 .. top]
  PROVE  /\ AgeRing(r) \in [items : Seq(Entry), ttl : 0 .. top]
         /\ Len(AgeRing(r).items) <= Len(r.items)
<1>1. Len(r.items) \in Nat /\ \A i \in 1 .. Len(r.items) : r.items[i] \in Entry
  BY LenProperties, ElementOfSeq
<1>2. CASE r.ttl <= 1
  BY <1>1, <1>2 DEF AgeRing, EmptyRing
<1>3. CASE ~(r.ttl <= 1)
  <2> DEFINE aged == [i \in 1 .. Len(r.items) |-> [r.items[i] EXCEPT !.age = Older(@)]]
  <2>1. \A i \in 1 .. Len(r.items) : [r.items[i] EXCEPT !.age = Older(@)] \in Entry
    BY <1>1, OlderFact DEF Entry
  <2>2. aged \in [1 .. Len(r.items) -> Entry]
    BY <2>1
  <2>3. aged \in Seq(Entry) /\ Len(aged) = Len(r.items)
    BY <1>1, <2>2
  <2>4. AgeRing(r) = [items |-> aged, ttl |-> r.ttl - 1]
    BY <1>3 DEF AgeRing
  <2>5. r.ttl - 1 \in 0 .. top
    BY <1>3
  <2> HIDE DEF aged
  <2>6. QED
    BY <1>1, <2>3, <2>4, <2>5
<1>4. QED
  BY <1>2, <1>3

-----------------------------------------------------------------------------
(* The hash.                                                               *)

\* A hash that gets older is a hash with one unit less to live, or none at all.
LEMMA AgeHashFact ==
  ASSUME NEW h \in HashRecord
  PROVE  /\ AgeHash(h) \in HashRecord
         /\ AgeHash(h).ttl = (IF h.ttl <= 1 THEN 0 ELSE h.ttl - 1)
         /\ AgeHash(h).ttl = 0 => AgeHash(h) = NoHash
         /\ AgeHash(h).ttl > 0 => AgeHash(h).lastSeen = Older(h.lastSeen)
<1>1. h.ttl \in 0 .. HashTTL /\ h.lastSeen \in Age /\ HashTTL \in Nat
  BY TTLAssumption DEF HashRecord
<1>2. NoHash \in HashRecord
  BY TTLAssumption, AgeCapAssumption DEF NoHash, HashRecord, Age
<1>3. CASE h.ttl <= 1
  BY <1>2, <1>3 DEF AgeHash, NoHash
<1>4. CASE ~(h.ttl <= 1)
  <2>1. Older(h.lastSeen) \in Age
    BY <1>1, OlderFact
  <2>2. AgeHash(h) = [h EXCEPT !.ttl = @ - 1, !.lastSeen = Older(@)]
    BY <1>4 DEF AgeHash
  <2>3. h.ttl - 1 \in 0 .. HashTTL /\ h.ttl - 1 > 0
    BY <1>1, <1>4
  <2>4. AgeHash(h) \in HashRecord
    BY <2>1, <2>2, <2>3 DEF HashRecord
  <2>5. AgeHash(h).ttl = h.ttl - 1 /\ AgeHash(h).lastSeen = Older(h.lastSeen)
    BY <2>2 DEF HashRecord
  <2>6. QED
    BY <1>4, <2>3, <2>4, <2>5
<1>5. QED
  BY <1>3, <1>4

\* A hash after any write that refreshes it: the fields the call does not name
\* stay what they were.
LEMMA RefreshFact ==
  ASSUME NEW old \in HashRecord, NEW a \in Age, NEW c \in Cwds \cup {Unset}
  PROVE  LET r == [old EXCEPT !.ttl = HashTTL, !.lastSeen = a, !.cwd = c] IN
         r \in HashRecord /\ r.ttl = HashTTL /\ r.lastSeen = a
<1> DEFINE r1 == [old EXCEPT !.ttl = HashTTL]
           r2 == [r1 EXCEPT !.lastSeen = a]
           r3 == [r2 EXCEPT !.cwd = c]
<1>1. r1 \in HashRecord /\ r1.ttl = HashTTL
  BY TTLAssumption DEF HashRecord
<1>2. r2 \in HashRecord /\ r2.ttl = HashTTL /\ r2.lastSeen = a
  <2> HIDE DEF r1
  <2>1. QED
    BY <1>1 DEF HashRecord
<1>3. r3 \in HashRecord /\ r3.ttl = HashTTL /\ r3.lastSeen = a
  <2> HIDE DEF r2
  <2>1. QED
    BY <1>2 DEF HashRecord
<1>4. [old EXCEPT !.ttl = HashTTL, !.lastSeen = a, !.cwd = c] = r3
  OBVIOUS
<1> HIDE DEF r3
<1>5. QED
  BY <1>3, <1>4

-----------------------------------------------------------------------------
(* StoreInv in two parts that no method relates: the table and the rings.  *)

TableInv ==
  /\ zset \in [Sids -> Age \cup {Absent}]
  /\ hash \in [Sids -> HashRecord]
  /\ rehydrated \subseteq Sids
  /\ StoreNormal /\ ScoreCoversHash /\ ScoreMatchesLastSeen

RingInv ==
  /\ ring \in [Sids -> [items : Seq(Entry), ttl : 0 .. RingTTL]]
  /\ global \in [items : Seq(Entry), ttl : 0 .. GlobalTTL]
  /\ RingsBounded

\* The invariant is the conjunction of what it says of the table and of the rings.
LEMMA StoreInvParts == StoreInv <=> TableInv /\ RingInv
  BY DEF StoreInv, StoreTypeOK, TableInv, RingInv

\* What OpenSession, the two touches and PushActivity do to the table: they
\* write the same timestamp to the score and to a hash with a full TTL.
LEMMA TableWrite ==
  ASSUME TableInv, NEW s \in Sids, NEW a \in Age, NEW h \in HashRecord,
         h.ttl = HashTTL, h.lastSeen = a,
         hash' = [hash EXCEPT ![s] = h],
         ZAdd(s, a)
  PROVE  TableInv'
<1> USE TTLAssumption, AgeCapAssumption DEF TableInv, Age, Absent
<1>1. /\ zset' \in [Sids -> Age \cup {Absent}]
      /\ hash' \in [Sids -> HashRecord]
      /\ rehydrated' \subseteq Sids
  BY DEF ZAdd
<1>2. hash'[s] = h /\ zset'[s] = a /\ s \notin rehydrated'
  BY DEF ZAdd
<1>3. ASSUME NEW t \in Sids, t # s
      PROVE  /\ hash'[t] = hash[t] /\ zset'[t] = zset[t]
             /\ t \in rehydrated' => t \in rehydrated
             /\ t \notin rehydrated' => t \notin rehydrated
  BY <1>3 DEF ZAdd
<1>4. HashTTL > 0 /\ a >= 0 /\ a + HashTTL >= HashTTL /\ a # Absent
  OBVIOUS
<1>5. StoreNormal'
  <2>1. \A t \in Sids : hash'[t].ttl = 0 => hash'[t] = NoHash
    BY <1>2, <1>3, <1>4 DEF StoreNormal
  <2>2. \A t \in rehydrated' : zset'[t] # Absent
    BY <1>1, <1>2, <1>3, <1>4 DEF StoreNormal, Active
  <2>3. QED
    BY <2>1, <2>2 DEF StoreNormal, Active
<1>6. ScoreCoversHash'
  BY <1>2, <1>3, <1>4 DEF ScoreCoversHash, Active
<1>7. ScoreMatchesLastSeen'
  BY <1>2, <1>3 DEF ScoreMatchesLastSeen, Listed, Active, HashExists
<1>8. QED
  BY <1>1, <1>5, <1>6, <1>7

\* OpenSession keeps the table's part (session.go:14-38).
LEMMA TableOpen ==
  ASSUME TableInv, NEW s \in Sids, NEW a \in Age, NEW c \in Cwds, NEW h \in Hosts,
         NEW p \in Pids, OpenSession(s, a, c, h, p)
  PROVE  TableInv'
<1> DEFINE r == [ttl |-> HashTTL, cwd |-> c, host |-> h, pid |-> p, lastSeen |-> a]
<1>1. r \in HashRecord /\ r.ttl = HashTTL /\ r.lastSeen = a
  BY TTLAssumption DEF HashRecord
<1>2. hash' = [hash EXCEPT ![s] = r] /\ ZAdd(s, a)
  BY DEF OpenSession
<1> HIDE DEF r
<1>3. QED
  BY <1>1, <1>2, TableWrite

\* So does TouchSession, also without a hash (session.go:40-49).
LEMMA TableTouch ==
  ASSUME TableInv, NEW s \in Sids, NEW a \in Age, TouchSession(s, a)
  PROVE  TableInv'
<1> DEFINE c0 == hash[s].cwd
           r == [hash[s] EXCEPT !.ttl = HashTTL, !.lastSeen = a, !.cwd = c0]
<1>1. hash[s] \in HashRecord /\ c0 \in Cwds \cup {Unset}
  BY DEF TableInv, HashRecord
<1>2. r \in HashRecord /\ r.ttl = HashTTL /\ r.lastSeen = a
  <2> HIDE DEF c0
  <2>1. QED
    BY <1>1, RefreshFact
<1>3. hash' = [hash EXCEPT ![s] = r] /\ ZAdd(s, a)
  BY <1>1 DEF TouchSession, TableInv, HashRecord
<1> HIDE DEF r
<1>4. QED
  BY <1>2, <1>3, TableWrite

\* So does TouchOrCreateSession (session.go:51-70).
LEMMA TableTouchOrCreate ==
  ASSUME TableInv, NEW s \in Sids, NEW a \in Age, NEW c \in Cwds,
         TouchOrCreateSession(s, a, c)
  PROVE  TableInv'
<1> DEFINE c0 == IF hash[s].cwd = Unset THEN c ELSE hash[s].cwd
           r == [hash[s] EXCEPT !.ttl = HashTTL, !.lastSeen = a, !.cwd = c0]
<1>1. hash[s] \in HashRecord /\ c0 \in Cwds \cup {Unset}
  BY DEF TableInv, HashRecord
<1>2. r \in HashRecord /\ r.ttl = HashTTL /\ r.lastSeen = a
  <2> HIDE DEF c0
  <2>1. QED
    BY <1>1, RefreshFact
<1>3. hash' = [hash EXCEPT ![s] = r] /\ ZAdd(s, a)
  BY <1>1 DEF TouchOrCreateSession, TableInv, HashRecord
<1> HIDE DEF r
<1>4. QED
  BY <1>2, <1>3, TableWrite

\* So does PushActivity, whatever its EXISTS had answered (activity.go:37-68).
LEMMA TablePush ==
  ASSUME TableInv, NEW s \in Sids, NEW a \in Age, NEW c \in Cwds,
         NEW existed \in BOOLEAN, PushActivity(s, a, c, existed)
  PROVE  TableInv'
<1> DEFINE c0 == IF existed THEN hash[s].cwd ELSE c
           r == [hash[s] EXCEPT !.ttl = HashTTL, !.lastSeen = a, !.cwd = c0]
<1>1. hash[s] \in HashRecord /\ c0 \in Cwds \cup {Unset}
  BY DEF TableInv, HashRecord
<1>2. r \in HashRecord /\ r.ttl = HashTTL /\ r.lastSeen = a
  <2> HIDE DEF c0
  <2>1. QED
    BY <1>1, RefreshFact
<1>3. hash' = [hash EXCEPT ![s] = r] /\ ZAdd(s, a)
  BY <1>1 DEF PushActivity, TableInv, HashRecord
<1> HIDE DEF r
<1>4. QED
  BY <1>2, <1>3, TableWrite

\* So does CloseSession, whose hash outlives its member (session.go:72-82).
LEMMA TableClose ==
  ASSUME TableInv, NEW s \in Sids, CloseSession(s)
  PROVE  TableInv'
<1> USE TTLAssumption DEF TableInv
<1>1. /\ zset'[s] = Absent /\ zset' \in [Sids -> Age \cup {Absent}]
      /\ \A t \in Sids \ {s} : zset'[t] = zset[t]
      /\ rehydrated' = rehydrated \ {s}
  BY DEF CloseSession
<1>2. \A t \in Sids \ {s} : hash'[t] = hash[t]
  BY DEF CloseSession
<1>3. hash' \in [Sids -> HashRecord] /\ (hash'[s] = hash[s] \/ hash'[s].ttl > 0)
  <2>1. GraceTTL \in 0 .. HashTTL /\ GraceTTL > 0
    OBVIOUS
  <2>2. hash[s] \in HashRecord /\ [hash[s] EXCEPT !.ttl = GraceTTL] \in HashRecord
        /\ [hash[s] EXCEPT !.ttl = GraceTTL].ttl > 0
    BY <2>1 DEF HashRecord
  <2>3. CASE HashExists(s)
    <3>1. hash' = [hash EXCEPT ![s] = [hash[s] EXCEPT !.ttl = GraceTTL]]
      BY <2>2, <2>3 DEF CloseSession, HashRecord
    <3>2. QED
      BY <2>2, <3>1
  <2>4. CASE ~HashExists(s)
    BY <2>4 DEF CloseSession
  <2>5. QED
    BY <2>3, <2>4
<1>4. StoreNormal'
  BY <1>1, <1>2, <1>3 DEF StoreNormal, Active
<1>5. ScoreCoversHash'
  BY <1>1, <1>2 DEF ScoreCoversHash, Active
<1>6. ScoreMatchesLastSeen'
  BY <1>1, <1>2 DEF ScoreMatchesLastSeen, Listed, Active, HashExists
<1>7. QED
  BY <1>1, <1>3, <1>4, <1>5, <1>6

\* So does the boot touch, which writes scores only (session.go:116-141).
LEMMA TableRehydrate ==
  ASSUME TableInv, NEW members \in SUBSET Sids, NEW a \in Age,
         TouchActiveSessions(members, a)
  PROVE  TableInv'
<1> USE DEF TableInv
<1>1. a \in Age /\ a # Absent
  BY DEF Age, Absent
<1>2. \A t \in Sids :
        /\ hash'[t] = hash[t]
        /\ (zset'[t] = Absent) <=> (zset[t] = Absent)
        /\ t \notin rehydrated' => t \notin rehydrated /\ zset'[t] = zset[t]
  BY <1>1 DEF TouchActiveSessions, Active
<1>3. /\ zset' \in [Sids -> Age \cup {Absent}]
      /\ hash' \in [Sids -> HashRecord]
      /\ rehydrated' \subseteq Sids
  BY DEF TouchActiveSessions
<1>4. StoreNormal'
  BY <1>1, <1>2 DEF StoreNormal, Active, TouchActiveSessions
<1>5. ScoreCoversHash' /\ ScoreMatchesLastSeen'
  BY <1>2 DEF ScoreCoversHash, ScoreMatchesLastSeen, Listed, Active, HashExists
<1>6. QED
  BY <1>3, <1>4, <1>5

\* So does the sweep (session.go:143-150).
LEMMA TableSweep ==
  ASSUME TableInv, NEW cutoff \in Age, SweepExpired(cutoff)
  PROVE  TableInv'
<1> USE DEF TableInv
<1>1. \A t \in Sids :
        /\ hash'[t] = hash[t]
        /\ zset'[t] # Absent =>
             zset'[t] = zset[t] /\ (t \in rehydrated' <=> t \in rehydrated)
        /\ t \in rehydrated' => t \in rehydrated /\ zset'[t] = zset[t]
  BY DEF SweepExpired, Active
<1>2. /\ zset' \in [Sids -> Age \cup {Absent}]
      /\ hash' \in [Sids -> HashRecord]
      /\ rehydrated' \subseteq Sids
  BY DEF SweepExpired
<1>3. StoreNormal'
  BY <1>1, <1>2 DEF StoreNormal, Active
<1>4. ScoreCoversHash' /\ ScoreMatchesLastSeen'
  BY <1>1 DEF ScoreCoversHash, ScoreMatchesLastSeen, Listed, Active, HashExists
<1>5. QED
  BY <1>2, <1>3, <1>4

\* A score and its hash age together, and a hash that expires had at most one
\* unit of TTL left, which the score's own aging makes up for.
\* So do time and expiry: a score ages as the TTL shrinks.
LEMMA TableElapse ==
  ASSUME TableInv, Elapse
  PROVE  TableInv'
<1> USE TTLAssumption, AgeCapAssumption DEF TableInv
<1>1. \A t \in Sids : hash'[t] = AgeHash(hash[t]) /\ hash[t] \in HashRecord
  BY DEF Elapse
<1>2. \A t \in Sids :
        /\ zset[t] # Absent => /\ zset[t] \in Age /\ Older(zset[t]) \in Age
                              /\ Older(zset[t]) # Absent
        /\ zset'[t] = (IF zset[t] = Absent THEN Absent ELSE Older(zset[t]))
  BY OlderFact DEF Elapse, Active, Age, Absent
<1>3. /\ zset' \in [Sids -> Age \cup {Absent}]
      /\ hash' \in [Sids -> HashRecord]
      /\ rehydrated' = rehydrated
  <2>1. \A t \in Sids : AgeHash(hash[t]) \in HashRecord
    BY <1>1, AgeHashFact
  <2>2. QED
    BY <1>2, <2>1 DEF Elapse, Active
<1>4. StoreNormal'
  BY <1>1, <1>2, <1>3, AgeHashFact DEF StoreNormal, Active
<1>5. ScoreCoversHash'
  <2> SUFFICES ASSUME NEW t \in Sids, zset'[t] # Absent, t \notin rehydrated'
               PROVE  zset'[t] + hash'[t].ttl >= HashTTL
    BY DEF ScoreCoversHash, Active
  <2>1. zset[t] # Absent /\ zset[t] + hash[t].ttl >= HashTTL
    BY <1>2, <1>3 DEF ScoreCoversHash, Active
  <2>2. zset[t] \in Age /\ hash[t].ttl \in 0 .. HashTTL
    BY <1>1, <1>2, <2>1 DEF HashRecord
  <2>3. hash'[t].ttl = (IF hash[t].ttl <= 1 THEN 0 ELSE hash[t].ttl - 1)
    BY <1>1, AgeHashFact
  <2>4. zset'[t] = zset[t] + 1 \/ (zset[t] = AgeCap /\ zset'[t] = AgeCap)
    BY <1>2, <2>1, <2>2, OlderFact
  <2>5. QED
    BY <2>1, <2>2, <2>3, <2>4 DEF Age
<1>6. ScoreMatchesLastSeen'
  <2> SUFFICES ASSUME NEW t \in Sids, zset'[t] # Absent, hash'[t].ttl > 0,
                      t \notin rehydrated'
               PROVE  zset'[t] = hash'[t].lastSeen
    BY DEF ScoreMatchesLastSeen, Listed, Active, HashExists
  <2>1. hash'[t].lastSeen = Older(hash[t].lastSeen)
    BY <1>1, AgeHashFact
  <2>2. hash[t].ttl > 0
    BY <1>1, AgeHashFact DEF HashRecord
  <2>3. zset[t] # Absent /\ zset'[t] = Older(zset[t])
    BY <1>2
  <2>4. zset[t] = hash[t].lastSeen
    BY <1>3, <2>2, <2>3 DEF ScoreMatchesLastSeen, Listed, Active, HashExists
  <2>5. QED
    BY <2>1, <2>3, <2>4
<1>7. QED
  BY <1>3, <1>4, <1>5, <1>6

-----------------------------------------------------------------------------
(* Only a push and time change the rings.                                  *)

\* PushActivity keeps the rings' part (activity.go:42-44, 61-65).
LEMMA RingPush ==
  ASSUME RingInv, NEW s \in Sids, NEW a \in Age, NEW c \in Cwds,
         NEW existed \in BOOLEAN, PushActivity(s, a, c, existed)
  PROVE  RingInv'
<1> DEFINE e == [sid |-> s, age |-> a]
           own == LPush(ring[s], e, RingSize, RingTTL)
           all == LPush(global, e, GlobalRingSize, GlobalTTL)
<1>1. e \in Entry
  BY DEF Entry
<1>2. /\ ring[s] \in [items : Seq(Entry), ttl : Nat]
      /\ global \in [items : Seq(Entry), ttl : Nat]
  BY DEF RingInv
<1>3. /\ own \in [items : Seq(Entry), ttl : 0 .. RingTTL]
      /\ RingSize > 0 => Len(own.items) <= RingSize
  BY <1>1, <1>2, LPushFact, RingSizeAssumption, TTLAssumption
<1>4. /\ all \in [items : Seq(Entry), ttl : 0 .. GlobalTTL]
      /\ GlobalRingSize > 0 => Len(all.items) <= GlobalRingSize
  BY <1>1, <1>2, LPushFact, RingSizeAssumption, TTLAssumption
<1>5. global' = all /\ ring' = (IF existed THEN [ring EXCEPT ![s] = own] ELSE ring)
  BY DEF PushActivity
<1> HIDE DEF own, all, e
<1>6. QED
  BY <1>3, <1>4, <1>5 DEF RingInv, RingsBounded

\* So do time and expiry.
LEMMA RingElapse ==
  ASSUME RingInv, Elapse
  PROVE  RingInv'
<1>1. RingTTL \in Nat /\ GlobalTTL \in Nat /\ RingSize \in Nat /\ GlobalRingSize \in Nat
  BY TTLAssumption, RingSizeAssumption
<1>2. \A t \in Sids : /\ ring'[t] = AgeRing(ring[t])
                     /\ AgeRing(ring[t]) \in [items : Seq(Entry), ttl : 0 .. RingTTL]
                     /\ Len(AgeRing(ring[t]).items) <= Len(ring[t].items)
                     /\ Len(ring[t].items) \in Nat
                     /\ Len(AgeRing(ring[t]).items) \in Nat
  BY <1>1, AgeRingFact, LenProperties DEF RingInv, Elapse
<1>3. /\ global' = AgeRing(global)
      /\ AgeRing(global) \in [items : Seq(Entry), ttl : 0 .. GlobalTTL]
      /\ Len(AgeRing(global).items) <= Len(global.items)
      /\ Len(global.items) \in Nat
      /\ Len(AgeRing(global).items) \in Nat
  BY <1>1, AgeRingFact, LenProperties DEF RingInv, Elapse
<1>4. ring' \in [Sids -> [items : Seq(Entry), ttl : 0 .. RingTTL]]
  BY <1>2 DEF Elapse
<1>5. RingsBounded'
  BY <1>1, <1>2, <1>3 DEF RingInv, RingsBounded
<1>6. QED
  BY <1>3, <1>4, <1>5 DEF RingInv

-----------------------------------------------------------------------------

\* The invariant holds of an empty store.
LEMMA StoreInvInit == StoreInit => StoreInv
<1> SUFFICES ASSUME StoreInit PROVE StoreInv
  OBVIOUS
<1>1. NoHash \in HashRecord /\ NoHash.ttl = 0
  BY TTLAssumption, AgeCapAssumption DEF NoHash, HashRecord, Age
<1>2. TableInv
  BY <1>1 DEF StoreInit, TableInv, StoreNormal, ScoreCoversHash, ScoreMatchesLastSeen,
              Listed, Active
<1>3. \A n \in Nat : EmptyRing \in [items : Seq(Entry), ttl : 0 .. n]
  BY DEF EmptyRing
<1>4. Len(EmptyRing.items) = 0
  BY DEF EmptyRing
<1>5. RingInv
  BY <1>3, <1>4, TTLAssumption, RingSizeAssumption DEF StoreInit, RingInv, RingsBounded
<1>6. QED
  BY <1>2, <1>5, StoreInvParts

\* Every step of the store keeps the table's part.
LEMMA TableStep ==
  ASSUME TableInv, StoreNext
  PROVE  TableInv'
  BY TableOpen, TableTouch, TableTouchOrCreate, TableClose, TablePush,
     TableRehydrate, TableSweep, TableElapse DEF StoreNext

\* Every step of the store keeps the rings' part.
LEMMA RingStep ==
  ASSUME RingInv, StoreNext
  PROVE  RingInv'
<1>1. ASSUME UNCHANGED <<ring, global>> PROVE RingInv'
  BY <1>1 DEF RingInv, RingsBounded
<1>2. ASSUME NEW s \in Sids, NEW a \in Age, NEW c \in Cwds, NEW h \in Hosts,
             NEW p \in Pids, OpenSession(s, a, c, h, p)
      PROVE  RingInv'
  BY <1>1, <1>2 DEF OpenSession
<1>3. ASSUME NEW s \in Sids, NEW a \in Age, NEW c \in Cwds,
             TouchSession(s, a) \/ TouchOrCreateSession(s, a, c) \/ CloseSession(s)
      PROVE  RingInv'
  BY <1>1, <1>3 DEF TouchSession, TouchOrCreateSession, CloseSession
<1>4. ASSUME NEW s \in Sids, NEW a \in Age, TouchSession(s, a)
      PROVE  RingInv'
  BY <1>1, <1>4 DEF TouchSession
<1>5. ASSUME NEW s \in Sids, CloseSession(s)
      PROVE  RingInv'
  BY <1>1, <1>5 DEF CloseSession
<1>6. ASSUME NEW members \in SUBSET Sids, NEW a \in Age, TouchActiveSessions(members, a)
      PROVE  RingInv'
  BY <1>1, <1>6 DEF TouchActiveSessions
<1>7. ASSUME NEW cutoff \in Age, SweepExpired(cutoff)
      PROVE  RingInv'
  BY <1>1, <1>7 DEF SweepExpired
<1>8. QED
  BY <1>2, <1>3, <1>4, <1>5, <1>6, <1>7, RingPush, RingElapse DEF StoreNext

\* Every call of a method, and a step of Redis' own, keeps the inductive
\* invariant; clients of the store cite this of their own steps.
LEMMA StoreInvNext == StoreInv /\ [StoreNext]_storeVars => StoreInv'
<1>1. CASE UNCHANGED storeVars
  BY <1>1 DEF storeVars, StoreInv, StoreTypeOK, StoreNormal, ScoreCoversHash,
              ScoreMatchesLastSeen, RingsBounded, Listed, Active, HashExists
<1>2. ASSUME StoreInv, StoreNext PROVE StoreInv'
  <2>1. TableInv' /\ RingInv'
    BY <1>2, StoreInvParts, TableStep, RingStep
  <2>2. QED
    BY <2>1 DEF StoreInv, StoreTypeOK, TableInv, RingInv
<1>3. QED
  BY <1>1, <1>2

-----------------------------------------------------------------------------
(* The global ring against the table.                                      *)

\* LTRIM keeps the newest entries where they are.
LEMMA LTrimKeeps ==
  ASSUME NEW items \in Seq(Entry), NEW size \in Nat
  PROVE  /\ Len(LTrim(items, size)) \in Nat
         /\ Len(LTrim(items, size)) <= Len(items)
         /\ \A i \in 1 .. Len(LTrim(items, size)) : LTrim(items, size)[i] = items[i]
         /\ size = 0 \/ Len(items) <= size => Len(LTrim(items, size)) = Len(items)
         /\ size > 0 /\ Len(items) >= size => Len(LTrim(items, size)) = size
<1>0. Len(items) \in Nat
  BY LenProperties
<1>1. CASE size = 0 \/ Len(items) <= size
  <2>1. LTrim(items, size) = items
    BY <1>1 DEF LTrim
  <2>2. QED
    BY <1>0, <1>1, <2>1
<1>2. CASE ~(size = 0 \/ Len(items) <= size)
  <2>1. 1 <= size /\ size < Len(items)
    BY <1>0, <1>2
  <2>2. \A i \in 1 .. size : items[i] \in Entry
    BY <1>0, <2>1, ElementOfSeq
  <2>3. /\ Len(SubSeq(items, 1, size)) = size
        /\ \A i \in 1 .. size : SubSeq(items, 1, size)[i] = items[i]
    BY <1>0, <2>1, <2>2, SubSeqProperties
  <2>4. LTrim(items, size) = SubSeq(items, 1, size)
    BY <1>2 DEF LTrim
  <2>5. QED
    BY <1>0, <2>1, <2>3, <2>4
<1>3. QED
  BY <1>1, <1>2

\* LPUSH and LTRIM put the entry first and move the others one place on.
LEMMA LPushKeeps ==
  ASSUME NEW r \in [items : Seq(Entry), ttl : Nat], NEW e \in Entry,
         NEW size \in Nat, NEW ttl
  PROVE  LET new == LPush(r, e, size, ttl).items IN
         /\ Len(new) \in Nat /\ Len(new) >= 1 /\ new[1] = e
         /\ \A i \in 2 .. Len(new) : i - 1 \in 1 .. Len(r.items) /\ new[i] = r.items[i - 1]
         /\ \A i \in Nat : /\ 1 <= i /\ i <= Len(r.items)
                           /\ size = 0 \/ i < size
                           => i + 1 <= Len(new)
<1> DEFINE all == <<e>> \o r.items
           new == LPush(r, e, size, ttl).items
<1>1. /\ <<e>> \in Seq(Entry) /\ Len(<<e>>) = 1 /\ <<e>>[1] = e
      /\ r.items \in Seq(Entry) /\ Len(r.items) \in Nat
  BY LenProperties
<1>2. /\ all \in Seq(Entry) /\ Len(all) = 1 + Len(r.items) /\ all[1] = e
      /\ \A i \in 2 .. Len(all) : all[i] = r.items[i - 1]
  BY <1>1, ConcatProperties
<1>3. new = LTrim(all, size)
  BY DEF LPush
<1> HIDE DEF all, new
<1>4. /\ Len(new) \in Nat /\ Len(new) <= Len(all)
      /\ \A i \in 1 .. Len(new) : new[i] = all[i]
      /\ size = 0 \/ Len(all) <= size => Len(new) = Len(all)
      /\ size > 0 /\ Len(all) >= size => Len(new) = size
  BY <1>2, <1>3, LTrimKeeps
<1>5. Len(new) >= 1
  BY <1>1, <1>2, <1>4
<1>6. new[1] = e
  BY <1>2, <1>4, <1>5
<1>7. \A i \in 2 .. Len(new) : i - 1 \in 1 .. Len(r.items) /\ new[i] = r.items[i - 1]
  BY <1>1, <1>2, <1>4
<1>8. ASSUME NEW i \in Nat, 1 <= i, i <= Len(r.items), size = 0 \/ i < size
      PROVE  i + 1 <= Len(new)
  BY <1>1, <1>2, <1>4, <1>8
<1>9. QED
  BY <1>4, <1>5, <1>6, <1>7, <1>8 DEF new

\* No call leaves a member with less than it had of its hash's TTL.
LEMMA MembersAreRenewed ==
  ASSUME TableInv, StoreNext, ~Elapse
  PROVE  \A t \in Sids : Active(t)' =>
           hash'[t].ttl = HashTTL \/ (Active(t) /\ hash'[t].ttl = hash[t].ttl)
<1> USE DEF TableInv, Active
<1>1. ASSUME NEW s \in Sids, NEW a \in Age, NEW h, h.ttl = HashTTL,
             hash' = [hash EXCEPT ![s] = h], ZAdd(s, a)
      PROVE  \A t \in Sids : Active(t)' =>
               hash'[t].ttl = HashTTL \/ (Active(t) /\ hash'[t].ttl = hash[t].ttl)
  BY <1>1 DEF ZAdd
<1>2. ASSUME NEW s \in Sids, NEW a \in Age, NEW c \in Cwds, NEW h \in Hosts,
             NEW p \in Pids, OpenSession(s, a, c, h, p)
      PROVE  \A t \in Sids : Active(t)' =>
               hash'[t].ttl = HashTTL \/ (Active(t) /\ hash'[t].ttl = hash[t].ttl)
  BY <1>2 DEF OpenSession, ZAdd
<1>3. ASSUME NEW s \in Sids, NEW a \in Age, TouchSession(s, a)
      PROVE  \A t \in Sids : Active(t)' =>
               hash'[t].ttl = HashTTL \/ (Active(t) /\ hash'[t].ttl = hash[t].ttl)
  BY <1>3 DEF TouchSession, ZAdd, HashRecord
<1>4. ASSUME NEW s \in Sids, NEW a \in Age, NEW c \in Cwds, TouchOrCreateSession(s, a, c)
      PROVE  \A t \in Sids : Active(t)' =>
               hash'[t].ttl = HashTTL \/ (Active(t) /\ hash'[t].ttl = hash[t].ttl)
  BY <1>4 DEF TouchOrCreateSession, ZAdd, HashRecord
<1>5. ASSUME NEW s \in Sids, CloseSession(s)
      PROVE  \A t \in Sids : Active(t)' =>
               hash'[t].ttl = HashTTL \/ (Active(t) /\ hash'[t].ttl = hash[t].ttl)
  BY <1>5 DEF CloseSession
<1>6. ASSUME NEW s \in Sids, NEW a \in Age, NEW c \in Cwds, NEW existed \in BOOLEAN,
             PushActivity(s, a, c, existed)
      PROVE  \A t \in Sids : Active(t)' =>
               hash'[t].ttl = HashTTL \/ (Active(t) /\ hash'[t].ttl = hash[t].ttl)
  BY <1>6 DEF PushActivity, ZAdd, HashRecord
<1>7. ASSUME NEW members \in SUBSET Sids, NEW a \in Age, TouchActiveSessions(members, a)
      PROVE  \A t \in Sids : Active(t)' =>
               hash'[t].ttl = HashTTL \/ (Active(t) /\ hash'[t].ttl = hash[t].ttl)
  BY <1>7 DEF TouchActiveSessions
<1>8. ASSUME NEW cutoff \in Age, SweepExpired(cutoff)
      PROVE  \A t \in Sids : Active(t)' =>
               hash'[t].ttl = HashTTL \/ (Active(t) /\ hash'[t].ttl = hash[t].ttl)
  BY <1>8 DEF SweepExpired
<1>9. QED
  BY <1>2, <1>3, <1>4, <1>5, <1>6, <1>7, <1>8 DEF StoreNext

\* An activity's age and what is left of the hash's TTL cover the whole of it:
\* under every call of a method,
LEMMA ActivityCoverCall ==
  ASSUME StoreInv, ActivityCoversHash, StoreNext, ~Elapse
  PROVE  ActivityCoversHash'
<1> USE TTLAssumption
<1>1. TableInv /\ RingInv /\ TableInv'
  BY StoreInvParts, TableStep
<1>2. \A t \in Sids : Active(t)' =>
        hash'[t].ttl = HashTTL \/ (Active(t) /\ hash'[t].ttl = hash[t].ttl)
  BY <1>1, MembersAreRenewed
<1>3. /\ global \in [items : Seq(Entry), ttl : Nat]
      /\ Len(global.items) \in Nat /\ DOMAIN global.items = 1 .. Len(global.items)
      /\ \A i \in 1 .. Len(global.items) : global.items[i] \in Entry
  <2>1. global \in [items : Seq(Entry), ttl : Nat] /\ global.items \in Seq(Entry)
    BY <1>1 DEF RingInv
  <2>2. QED
    BY <2>1, LenProperties, ElementOfSeq
<1>4. \A s \in Sids : hash[s].ttl \in 0 .. HashTTL
  BY <1>1 DEF TableInv, HashRecord
<1>5. ASSUME NEW e \in Entry, Active(e.sid)',
             Active(e.sid) => e.age + hash[e.sid].ttl >= HashTTL
      PROVE  e.age + hash'[e.sid].ttl >= HashTTL
  <2>1. e.sid \in Sids /\ e.age \in Nat
    BY AgeCapAssumption DEF Entry, Age
  <2>2. QED
    BY <1>2, <1>4, <1>5, <2>1
<1>6. CASE UNCHANGED global
  BY <1>3, <1>5, <1>6 DEF ActivityCoversHash, Active
<1>7. ASSUME NEW s \in Sids, NEW a \in Age, NEW c \in Cwds, NEW existed \in BOOLEAN,
             PushActivity(s, a, c, existed)
      PROVE  ActivityCoversHash'
  <2> DEFINE e == [sid |-> s, age |-> a]
             new == LPush(global, e, GlobalRingSize, GlobalTTL).items
  <2>1. e \in Entry /\ e.sid = s /\ e.age = a /\ a \in Nat
    BY AgeCapAssumption DEF Entry, Age
  <2>2. global'.items = new /\ hash'[s].ttl = HashTTL
    <3>1. hash[s] \in HashRecord /\ hash \in [Sids -> HashRecord]
      BY <1>1 DEF TableInv
    <3>2. global' = LPush(global, e, GlobalRingSize, GlobalTTL)
      BY <1>7 DEF PushActivity
    <3>3. hash'[s].ttl = HashTTL
      BY <1>7, <3>1 DEF PushActivity, HashRecord
    <3>4. QED
      BY <3>2, <3>3
  <2>3. /\ Len(new) \in Nat /\ Len(new) >= 1 /\ new[1] = e
        /\ \A i \in 2 .. Len(new) : i - 1 \in 1 .. Len(global.items)
                                    /\ new[i] = global.items[i - 1]
    BY <1>3, <2>1, LPushKeeps, RingSizeAssumption
  <2>4. global'.items \in Seq(Entry)
    <3>1. global \in [items : Seq(Entry), ttl : Nat] /\ GlobalRingSize \in Nat
      BY <1>3, RingSizeAssumption
    <3>2. new \in Seq(Entry)
      BY <3>1, <2>1, LPushFact
    <3>3. QED
      BY <2>2, <3>2
  <2> HIDE DEF e, new
  <2>5. SUFFICES ASSUME NEW i \in 1 .. Len(new), zset'[new[i].sid] # Absent
                 PROVE  new[i].age + hash'[new[i].sid].ttl >= HashTTL
    BY <2>2, <2>4, LenProperties DEF ActivityCoversHash, Active
  <2>6. CASE i = 1
    BY <2>1, <2>2, <2>3, <2>6
  <2>7. CASE i # 1
    <3>1. i - 1 \in 1 .. Len(global.items) /\ new[i] = global.items[i - 1]
      BY <2>3, <2>7
    <3>2. new[i] \in Entry /\ (Active(new[i].sid) => new[i].age + hash[new[i].sid].ttl >= HashTTL)
      BY <1>3, <3>1 DEF ActivityCoversHash
    <3>3. QED
      BY <1>5, <2>5, <3>2 DEF Active
  <2>8. QED
    BY <2>6, <2>7
<1>8. UNCHANGED global \/ \E s \in Sids, a \in Age, c \in Cwds, existed \in BOOLEAN :
                            PushActivity(s, a, c, existed)
  BY DEF StoreNext, OpenSession, TouchSession, TouchOrCreateSession, CloseSession,
         TouchActiveSessions, SweepExpired
<1>9. QED
  BY <1>6, <1>7, <1>8

\* and under time and expiry, which age the one as they shorten the other.
LEMMA ActivityCoverElapse ==
  ASSUME StoreInv, ActivityCoversHash, Elapse
  PROVE  ActivityCoversHash'
<1> USE TTLAssumption, AgeCapAssumption
<1>1. /\ global.items \in Seq(Entry) /\ Len(global.items) \in Nat
      /\ DOMAIN global.items = 1 .. Len(global.items)
      /\ \A i \in 1 .. Len(global.items) : global.items[i] \in Entry
  <2>1. global.items \in Seq(Entry)
    BY DEF StoreInv, StoreTypeOK
  <2>2. QED
    BY <2>1, LenProperties, ElementOfSeq
<1>2. \A t \in Sids :
        /\ hash[t] \in HashRecord /\ hash[t].ttl \in 0 .. HashTTL
        /\ hash'[t].ttl = (IF hash[t].ttl <= 1 THEN 0 ELSE hash[t].ttl - 1)
        /\ zset'[t] # Absent => Active(t)
  <2>1. \A t \in Sids : hash'[t] = AgeHash(hash[t]) /\ hash[t] \in HashRecord
    BY DEF Elapse, StoreInv, StoreTypeOK
  <2>2. \A t \in Sids : zset'[t] # Absent => Active(t)
    BY DEF Elapse, Active
  <2>3. QED
    BY <2>1, <2>2, AgeHashFact DEF HashRecord
<1>3. CASE global.ttl <= 1
  <2>1. global'.items = <<>>
    BY <1>3 DEF Elapse, AgeRing, EmptyRing
  <2>2. QED
    BY <2>1 DEF ActivityCoversHash
<1>4. CASE ~(global.ttl <= 1)
  <2>1. global'.items = [i \in 1 .. Len(global.items) |->
                           [global.items[i] EXCEPT !.age = Older(@)]]
    BY <1>4 DEF Elapse, AgeRing
  <2>2. SUFFICES ASSUME NEW i \in 1 .. Len(global.items), zset'[global'.items[i].sid] # Absent
                 PROVE  global'.items[i].age + hash'[global'.items[i].sid].ttl >= HashTTL
    BY <2>1 DEF ActivityCoversHash, Active
  <2>3. /\ global.items[i] \in Entry
        /\ global'.items[i].sid = global.items[i].sid
        /\ global'.items[i].age = Older(global.items[i].age)
    BY <1>1, <2>1 DEF Entry
  <2>4. /\ global.items[i].sid \in Sids /\ global.items[i].age \in Age
        /\ Active(global.items[i].sid)
    <3>1. global.items[i].sid \in Sids /\ global.items[i].age \in Age
      BY <2>3 DEF Entry
    <3>2. zset'[global.items[i].sid] # Absent
      BY <2>2, <2>3
    <3>3. QED
      BY <1>2, <3>1, <3>2
  <2>5. global.items[i].age + hash[global.items[i].sid].ttl >= HashTTL
    BY <1>1, <2>4 DEF ActivityCoversHash
  <2>6. ASSUME NEW a \in Age, NEW h \in 0 .. HashTTL, a + h >= HashTTL
        PROVE  Older(a) + (IF h <= 1 THEN 0 ELSE h - 1) >= HashTTL
    <3>1. a \in Nat /\ (Older(a) = a + 1 \/ Older(a) = AgeCap) /\ Older(a) \in Nat
      BY OlderFact DEF Age
    <3>2. QED
      BY <2>6, <3>1
  <2>7. /\ hash[global.items[i].sid].ttl \in 0 .. HashTTL
        /\ hash'[global.items[i].sid].ttl = (IF hash[global.items[i].sid].ttl <= 1 THEN 0
                                            ELSE hash[global.items[i].sid].ttl - 1)
    BY <1>2, <2>4
  <2>8. QED
    BY <2>3, <2>4, <2>5, <2>6, <2>7
<1>5. QED
  BY <1>3, <1>4

\* The inductive invariant holds under any order of calls of the store's
\* methods (internal/store/session.go, activity.go).
THEOREM StoreInvariant == StoreSpec => []StoreInv
BY StoreInvInit, StoreInvNext, PTL DEF StoreSpec

\* A member whose score is younger than the hash TTL is listed: no order of
\* calls makes a recent session invisible (session.go:97-114).
THEOREM RecentMembersAreListed == StoreSpec => []RecentIsListed
<1>1. StoreInv => RecentIsListed
  <2> SUFFICES ASSUME StoreInv, NEW s \in Sids, Active(s), s \notin rehydrated,
                      zset[s] < HashTTL
               PROVE  HashExists(s)
    BY DEF RecentIsListed
  <2>1. zset[s] \in Age /\ hash[s].ttl \in 0 .. HashTTL
    BY DEF StoreInv, StoreTypeOK, HashRecord, Active
  <2>2. zset[s] + hash[s].ttl >= HashTTL
    BY DEF StoreInv, ScoreCoversHash
  <2>3. QED
    BY <2>1, <2>2, TTLAssumption, AgeCapAssumption DEF Age, HashExists
<1>2. QED
  BY <1>1, StoreInvariant, PTL

\* The two copies of a session's last activity never disagree outside a boot
\* touch (session.go:41-70, 120-141, activity.go:46-59).
THEOREM CopiesAgree == StoreSpec => []ScoreMatchesLastSeen
<1>1. StoreInv => ScoreMatchesLastSeen
  BY DEF StoreInv
<1>2. QED
  BY <1>1, StoreInvariant, PTL

\* Together with StoreInv it is inductive.
LEMMA ActivityCoverNext ==
  StoreInv /\ ActivityCoversHash /\ [StoreNext]_storeVars => ActivityCoversHash'
<1>1. CASE UNCHANGED storeVars
  BY <1>1 DEF storeVars, ActivityCoversHash, Active
<1>2. QED
  BY <1>1, ActivityCoverCall, ActivityCoverElapse

\* A member that had an activity within the hash TTL is listed, whatever wrote its
\* score since (activity.go:17-18, 58-59, session.go:116-141).
THEOREM RecentActivityIsListed == StoreSpec => []ActivityIsListed
<1>1. StoreInit => ActivityCoversHash
  BY DEF StoreInit, EmptyRing, ActivityCoversHash
<1>2. StoreInv /\ ActivityCoversHash => ActivityIsListed
  <2> SUFFICES ASSUME StoreInv, ActivityCoversHash, NEW i \in DOMAIN global.items,
                      global.items[i].age < HashTTL, Active(global.items[i].sid)
               PROVE  HashExists(global.items[i].sid)
    BY DEF ActivityIsListed
  <2>1. global.items \in Seq(Entry)
    BY DEF StoreInv, StoreTypeOK
  <2>2. global.items[i] \in Entry
    BY <2>1, LenProperties, ElementOfSeq
  <2>3. global.items[i].sid \in Sids /\ global.items[i].age \in Nat
    BY <2>2, AgeCapAssumption DEF Entry, Age
  <2>4. hash[global.items[i].sid].ttl \in 0 .. HashTTL
    BY <2>3 DEF StoreInv, StoreTypeOK, HashRecord
  <2>5. global.items[i].age + hash[global.items[i].sid].ttl >= HashTTL
    BY DEF ActivityCoversHash
  <2>6. QED
    BY <2>3, <2>4, <2>5, TTLAssumption DEF HashExists
<1>3. QED
  BY <1>1, <1>2, StoreInvariant, ActivityCoverNext, PTL DEF StoreSpec

\* Every key has its type after any calls (keys.go: the key schema).
THEOREM StoreTypes == StoreSpec => []StoreTypeOK
<1>1. StoreInv => StoreTypeOK
  BY DEF StoreInv
<1>2. QED
  BY <1>1, StoreInvariant, PTL

\* No order of pushes and expiries lets a ring outgrow a configured size that is not
\* 0 (activity.go:41-64).
THEOREM RingsNeverOutgrow == StoreSpec => []RingsBounded
<1>1. StoreInv => RingsBounded
  BY DEF StoreInv
<1>2. QED
  BY <1>1, StoreInvariant, PTL

=============================================================================
