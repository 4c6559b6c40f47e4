-------------------------- MODULE MeshQueries_proofs --------------------------
(* What a query answers, for any sessions, windows, budgets, TTLs and ring  *)
(* sizes.  A listing is right because of two clocks that run together: the  *)
(* budget it has used and the timestamps it holds.                          *)
EXTENDS MeshQueries, SessionStore_proofs

-----------------------------------------------------------------------------
(* The inductive invariant.                                                *)

\* What is said to be fresh is, and no query leaves a trace.
FreshNow ==
  /\ query.asked => \A s \in fresh : FreshFor(s, query.window)
  /\ ~query.asked => query = NoQuery /\ fresh = {}

\* What was read of a fresh session leaves room for the rest of the budget.
SeenInTime ==
  query.asked /\ query.clean /\ ~Late =>
    \A s \in fresh \ query.todo :
      /\ query.seen[s] # Absent
      /\ query.window = NoFilter \/ query.seen[s] + Budget <= query.window + query.took

\* Whatever a hash says, or said when it was read, was vouched for no earlier.
VouchedBeforeSeen ==
  \A s \in Sids : /\ HashExists(s) => vouched[s] <= hash[s].lastSeen
                  /\ query.seen[s] # Absent => vouched[s] <= query.seen[s]

\* The activity that is followed is where its successors have pushed it.
TouchInRing ==
  touch # NoTouch =>
    /\ touch \in Touch
    /\ touch.newer + 1 <= Len(global.items)
    /\ global.items[touch.newer + 1].sid = touch.sid
    /\ global.items[touch.newer + 1].age <= touch.age
    /\ global.ttl + touch.age >= GlobalTTL

QueryInv ==
  /\ StoreInv
  /\ QueryTypeOK
  /\ FreshNow
  /\ SeenInTime
  /\ VouchedBeforeSeen
  /\ TouchInRing

-----------------------------------------------------------------------------
(* The store under a query's module.                                       *)

\* What the module adds to a write is bookkeeping.
LEMMA WriteIsACall == Write => StoreNext
<1>1. \A s \in Sids : \A a \in EventAges[s] : a \in Age
  BY EventAgesAssumption
<1>2. 0 \in Age
  BY AgeCapAssumption DEF Age
<1>3. QED
  BY <1>1, <1>2 DEF Write, StoreNext

\* So the store's own invariant holds while queries are asked.
LEMMA StoreGoesOn == StoreInv /\ [QueryNext]_queryVars => StoreInv'
<1>1. [QueryNext]_queryVars => [StoreNext]_storeVars
  BY WriteIsACall DEF QueryNext, queryVars, storeVars, Ask, GetSession, GetSessionFails,
     Answer, Serve, Pass, StoreNext
<1>2. QED
  BY <1>1, StoreInvNext

\* A step in which nobody writes leaves the hashes and the global ring alone,
\* except for time.
LEMMA QueryLeavesTheStore ==
  ASSUME QueryNext
  PROVE  \/ UNCHANGED storeVars /\ UNCHANGED <<vouched, touch>>
         \/ Serve
         \/ Pass
  BY DEF QueryNext, Ask, GetSession, GetSessionFails, Answer

-----------------------------------------------------------------------------
(* Time.                                                                   *)

\* Growing older keeps the order of two ages.
LEMMA OlderKeepsOrder ==
  ASSUME NEW a \in Age, NEW b \in Age, a <= b
  PROVE  Older(a) <= Older(b)
  BY AgeCapAssumption DEF Age, Older

\* A hash that is still there after a tick was there before it, and its last_seen
\* has aged with everything else.
LEMMA HashesAge ==
  ASSUME StoreInv, Elapse, NEW s \in Sids, HashExists(s)'
  PROVE  HashExists(s) /\ hash'[s].lastSeen = Older(hash[s].lastSeen)
         /\ hash[s].lastSeen \in Age
<1>1. hash[s] \in HashRecord /\ hash'[s] = AgeHash(hash[s])
  BY DEF StoreInv, StoreTypeOK, Elapse
<1>2. hash'[s].ttl > 0
  BY DEF HashExists
<1>3. QED
  BY <1>1, <1>2, AgeHashFact DEF HashExists, HashRecord

-----------------------------------------------------------------------------
(* What is vouched for.                                                    *)

\* A write never makes a session look as if it was last vouched for earlier, and
\* what it puts into a hash has been vouched for.
LEMMA WritesAreVouchedFor ==
  ASSUME StoreInv, vouched \in [Sids -> Age], Write
  PROVE  /\ vouched' \in [Sids -> Age]
         /\ \A t \in Sids :
              /\ vouched'[t] <= vouched[t]
              /\ HashExists(t)' => \/ vouched'[t] <= hash'[t].lastSeen
                                   \/ /\ HashExists(t)
                                      /\ hash'[t].lastSeen = hash[t].lastSeen
<1> USE AgeCapAssumption DEF Age
<1>1. \A t \in Sids : vouched[t] \in Age /\ vouched[t] \in Int
  OBVIOUS
<1>2. hash \in [Sids -> HashRecord]
  BY DEF StoreInv, StoreTypeOK
<1>3. ASSUME NEW s \in Sids, NEW a \in EventAges[s], Vouch(s, a), NEW h, h.lastSeen = a,
             hash' = [hash EXCEPT ![s] = h]
      PROVE  /\ vouched' \in [Sids -> Age]
             /\ \A t \in Sids :
                  /\ vouched'[t] <= vouched[t]
                  /\ HashExists(t)' => \/ vouched'[t] <= hash'[t].lastSeen
                                       \/ /\ HashExists(t)
                                          /\ hash'[t].lastSeen = hash[t].lastSeen
  <2>1. a \in Age /\ a \in Int
    BY EventAgesAssumption
  <2>2. vouched' = [vouched EXCEPT ![s] = IF a < vouched[s] THEN a ELSE vouched[s]]
    BY <1>3 DEF Vouch
  <2>3. hash'[s].lastSeen = a /\ \A t \in Sids \ {s} : hash'[t] = hash[t]
    BY <1>2, <1>3
  <2>4. vouched' \in [Sids -> Age]
    BY <1>1, <2>1, <2>2
  <2>5. vouched'[s] <= vouched[s] /\ vouched'[s] <= a
    BY <1>1, <2>1, <2>2
  <2>6. \A t \in Sids \ {s} : vouched'[t] = vouched[t]
    BY <2>2
  <2>7. \A t \in Sids : HashExists(t)' => hash'[t].ttl > 0
    BY DEF HashExists
  <2>8. QED
    BY <1>1, <2>3, <2>4, <2>5, <2>6, <2>7 DEF HashExists
<1>4. ASSUME NEW s \in Sids, NEW a \in EventAges[s], Vouch(s, a),
             NEW c \in Cwds, NEW h \in Hosts, NEW p \in Pids, OpenSession(s, a, c, h, p)
      PROVE  \E r : r.lastSeen = a /\ hash' = [hash EXCEPT ![s] = r]
  BY <1>4 DEF OpenSession
<1>5. ASSUME NEW s \in Sids, NEW a \in EventAges[s], TouchSession(s, a)
      PROVE  \E r : r.lastSeen = a /\ hash' = [hash EXCEPT ![s] = r]
  <2> DEFINE r == [hash[s] EXCEPT !.ttl = HashTTL, !.lastSeen = a]
  <2>1. hash' = [hash EXCEPT ![s] = r]
    BY <1>5 DEF TouchSession
  <2>2. r.lastSeen = a
    BY <1>2 DEF HashRecord
  <2>3. QED
    BY <2>1, <2>2
<1>6. ASSUME NEW s \in Sids, NEW a \in EventAges[s], NEW c \in Cwds,
             TouchOrCreateSession(s, a, c)
      PROVE  \E r : r.lastSeen = a /\ hash' = [hash EXCEPT ![s] = r]
  <2> DEFINE r == [hash[s] EXCEPT !.ttl = HashTTL, !.lastSeen = a,
                                  !.cwd = IF @ = Unset THEN c ELSE @]
  <2>1. hash' = [hash EXCEPT ![s] = r]
    BY <1>6 DEF TouchOrCreateSession
  <2>2. r.lastSeen = a
    BY <1>2 DEF HashRecord
  <2>3. QED
    BY <2>1, <2>2
<1>7. ASSUME NEW s \in Sids, NEW a \in EventAges[s], NEW c \in Cwds,
             NEW existed \in BOOLEAN, PushActivity(s, a, c, existed)
      PROVE  \E r : r.lastSeen = a /\ hash' = [hash EXCEPT ![s] = r]
  <2> DEFINE r == [hash[s] EXCEPT !.ttl = HashTTL, !.lastSeen = a,
                                  !.cwd = IF existed THEN @ ELSE c]
  <2>1. hash' = [hash EXCEPT ![s] = r]
    BY <1>7 DEF PushActivity
  <2>2. r.lastSeen = a
    BY <1>2 DEF HashRecord
  <2>3. QED
    BY <2>1, <2>2
<1>8. ASSUME UNCHANGED vouched, NEW members \in SUBSET Sids,
             \/ \E s \in Sids : CloseSession(s)
             \/ TouchActiveSessions(members, 0)
             \/ \E cutoff \in Age : SweepExpired(cutoff)
      PROVE  /\ vouched' \in [Sids -> Age]
             /\ \A t \in Sids :
                  /\ vouched'[t] <= vouched[t]
                  /\ HashExists(t)' => /\ HashExists(t)
                                       /\ hash'[t].lastSeen = hash[t].lastSeen
  <2>1. \A t \in Sids : vouched'[t] <= vouched[t]
    BY <1>1, <1>8
  <2>2. CASE \E s \in Sids : CloseSession(s)
    <3>1. PICK s \in Sids : CloseSession(s)
      BY <2>2
    <3>2. CASE HashExists(s)
      <4>1. hash' = [hash EXCEPT ![s].ttl = GraceTTL]
        BY <3>1, <3>2 DEF CloseSession
      <4>2. hash'[s].lastSeen = hash[s].lastSeen /\ \A t \in Sids \ {s} : hash'[t] = hash[t]
        BY <1>2, <4>1 DEF HashRecord
      <4>3. QED
        BY <1>8, <2>1, <3>2, <4>2 DEF HashExists
    <3>3. CASE ~HashExists(s)
      <4>1. hash' = hash
        BY <3>1, <3>3 DEF CloseSession
      <4>2. QED
        BY <1>8, <2>1, <4>1 DEF HashExists
    <3>4. QED
      BY <3>2, <3>3
  <2>3. CASE hash' = hash
    BY <1>8, <2>1, <2>3 DEF HashExists
  <2>4. QED
    BY <1>8, <2>2, <2>3 DEF TouchActiveSessions, SweepExpired
<1>9. QED
  BY <1>3, <1>4, <1>5, <1>6, <1>7, <1>8 DEF Write

\* What is vouched for, and what is read, stays no older than what the hashes say.
LEMMA VouchedNext == QueryInv /\ [QueryNext]_queryVars =>
                     VouchedBeforeSeen' /\ vouched' \in [Sids -> Age]
<1> SUFFICES ASSUME QueryInv, [QueryNext]_queryVars
             PROVE  VouchedBeforeSeen' /\ vouched' \in [Sids -> Age]
  OBVIOUS
<1> USE DEF QueryInv
<1>1. /\ vouched \in [Sids -> Age] /\ query.seen \in [Sids -> Age \cup {Absent}]
      /\ \A s \in Sids : vouched[s] \in Int /\ hash[s].lastSeen \in Age
      /\ \A s \in Sids : query.seen[s] \in Int
  <2>1. vouched \in [Sids -> Age] /\ query.seen \in [Sids -> Age \cup {Absent}]
    BY DEF QueryTypeOK, Query
  <2>2. \A s \in Sids : hash[s].lastSeen \in Age
    BY DEF StoreInv, StoreTypeOK, HashRecord
  <2>3. \A s \in Sids : vouched[s] \in Int /\ query.seen[s] \in Int
    BY <2>1, AgeCapAssumption DEF Age, Absent
  <2>4. QED
    BY <2>1, <2>2, <2>3
<1>2. CASE UNCHANGED queryVars
  BY <1>1, <1>2 DEF queryVars, storeVars, VouchedBeforeSeen, HashExists
<1>3. ASSUME NEW w \in Windows, Ask(w)
      PROVE  VouchedBeforeSeen' /\ vouched' \in [Sids -> Age]
  <2>1. query'.seen = [s \in Sids |-> Absent]
    BY <1>3 DEF Ask, NoQuery
  <2>2. QED
    BY <1>1, <1>3, <2>1 DEF Ask, storeVars, VouchedBeforeSeen, HashExists
<1>4. ASSUME NEW s \in Sids, GetSession(s)
      PROVE  VouchedBeforeSeen' /\ vouched' \in [Sids -> Age]
  <2>1. query'.seen = [query.seen EXCEPT ![s] = IF HashExists(s) THEN hash[s].lastSeen
                                                ELSE Absent]
    BY <1>4 DEF GetSession, QueryTypeOK, Query
  <2>2. \A t \in Sids : query'.seen[t] # Absent =>
          query'.seen[t] = query.seen[t] \/ (HashExists(t) /\ query'.seen[t] = hash[t].lastSeen)
    BY <1>1, <2>1
  <2>3. QED
    BY <1>1, <1>4, <2>2 DEF GetSession, storeVars, VouchedBeforeSeen, HashExists
<1>5. ASSUME NEW s \in Sids, GetSessionFails(s)
      PROVE  VouchedBeforeSeen' /\ vouched' \in [Sids -> Age]
  <2>1. query'.seen = query.seen
    BY <1>5 DEF GetSessionFails, QueryTypeOK, Query
  <2>2. QED
    BY <1>1, <1>5, <2>1 DEF GetSessionFails, storeVars, VouchedBeforeSeen, HashExists
<1>6. ASSUME Answer
      PROVE  VouchedBeforeSeen' /\ vouched' \in [Sids -> Age]
  <2>1. query'.seen = [s \in Sids |-> Absent]
    BY <1>6 DEF Answer, NoQuery
  <2>2. QED
    BY <1>1, <1>6, <2>1 DEF Answer, storeVars, VouchedBeforeSeen, HashExists
<1>7. ASSUME Serve
      PROVE  VouchedBeforeSeen' /\ vouched' \in [Sids -> Age]
  <2>1. query' = query /\ Write
    BY <1>7 DEF Serve
  <2>2. /\ vouched' \in [Sids -> Age]
        /\ \A t \in Sids :
              /\ vouched'[t] <= vouched[t]
              /\ HashExists(t)' => \/ vouched'[t] <= hash'[t].lastSeen
                                   \/ /\ HashExists(t)
                                      /\ hash'[t].lastSeen = hash[t].lastSeen
    BY <1>1, <2>1, WritesAreVouchedFor
  <2>3. \A t \in Sids : vouched'[t] \in Int
    BY <2>2, AgeCapAssumption DEF Age
  <2>4. ASSUME NEW t \in Sids, HashExists(t)'
        PROVE  vouched'[t] <= hash'[t].lastSeen
    <3>1. vouched'[t] <= hash'[t].lastSeen
          \/ (vouched[t] <= hash[t].lastSeen /\ hash'[t].lastSeen = hash[t].lastSeen)
      BY <2>2, <2>4 DEF VouchedBeforeSeen
    <3>2. hash[t].lastSeen \in Int
      BY <1>1, AgeCapAssumption DEF Age
    <3>3. QED
      BY <1>1, <2>2, <2>3, <3>1, <3>2
  <2>5. ASSUME NEW t \in Sids, query'.seen[t] # Absent
        PROVE  vouched'[t] <= query'.seen[t]
    <3>1. vouched[t] <= query.seen[t]
      BY <2>1, <2>5 DEF VouchedBeforeSeen
    <3>2. QED
      BY <1>1, <2>1, <2>2, <2>3, <3>1
  <2>6. QED
    BY <2>2, <2>4, <2>5 DEF VouchedBeforeSeen
<1>8. ASSUME Pass
      PROVE  VouchedBeforeSeen' /\ vouched' \in [Sids -> Age]
  <2>1. Elapse /\ vouched' = [s \in Sids |-> Older(vouched[s])]
    BY <1>8 DEF Pass
  <2>2. vouched' \in [Sids -> Age]
    BY <1>1, <2>1, OlderFact
  <2>3. ASSUME NEW t \in Sids, HashExists(t)'
        PROVE  vouched'[t] <= hash'[t].lastSeen
    <3>1. /\ HashExists(t) /\ hash'[t].lastSeen = Older(hash[t].lastSeen)
          /\ hash[t].lastSeen \in Age
      BY <2>1, <2>3, HashesAge
    <3>2. vouched[t] <= hash[t].lastSeen /\ vouched[t] \in Age
      BY <1>1, <3>1 DEF VouchedBeforeSeen
    <3>3. QED
      BY <2>1, <3>1, <3>2, OlderKeepsOrder
  <2>4. ASSUME NEW t \in Sids, query'.seen[t] # Absent
        PROVE  vouched'[t] <= query'.seen[t]
    <3>1. CASE ~query.asked
      <4>1. query' = query /\ query.seen[t] = Absent
        BY <1>8, <3>1 DEF Pass, FreshNow, NoQuery
      <4>2. QED
        BY <2>4, <4>1
    <3>2. CASE query.asked
      <4>1. query'.seen = [s \in Sids |-> IF query.seen[s] = Absent THEN Absent
                                          ELSE Older(query.seen[s])]
        BY <1>8, <3>2 DEF Pass, QueryTypeOK, Query
      <4>2. query.seen[t] # Absent /\ query'.seen[t] = Older(query.seen[t])
        BY <2>4, <4>1
      <4>3. vouched[t] <= query.seen[t] /\ vouched[t] \in Age /\ query.seen[t] \in Age
        BY <1>1, <4>2 DEF VouchedBeforeSeen
      <4>4. QED
        BY <2>1, <4>2, <4>3, OlderKeepsOrder
    <3>3. QED
      BY <3>1, <3>2
  <2>5. QED
    BY <2>2, <2>3, <2>4 DEF VouchedBeforeSeen
<1>9. QED
  BY <1>2, <1>3, <1>4, <1>5, <1>6, <1>7, <1>8 DEF QueryNext

-----------------------------------------------------------------------------
(* The activity that is followed.                                          *)

\* A push moves it one place, and its place is still within the ring.
LEMMA PushedOver ==
  ASSUME QueryInv, touch # NoTouch, NEW e \in Entry,
         touch.newer + 1 < Limit,
         GlobalRingSize > 0 => touch.newer + 1 < GlobalRingSize,
         global' = LPush(global, e, GlobalRingSize, GlobalTTL),
         touch' = [touch EXCEPT !.newer = @ + 1]
  PROVE  TouchInRing'
<1>1. touch \in Touch
  BY DEF QueryInv, TouchInRing
<1>2. /\ touch'.sid = touch.sid /\ touch'.age = touch.age
      /\ touch'.newer = touch.newer + 1 /\ touch' \in Touch
      /\ touch.newer \in Nat /\ touch.age \in Nat
  BY <1>1, LimitAssumption DEF Touch
<1>3. /\ touch.newer + 1 <= Len(global.items)
      /\ global.items[touch.newer + 1].sid = touch.sid
      /\ global.items[touch.newer + 1].age <= touch.age
  BY DEF QueryInv, TouchInRing
<1>4. global \in [items : Seq(Entry), ttl : Nat]
  BY TTLAssumption DEF QueryInv, StoreInv, StoreTypeOK
<1> DEFINE new == LPush(global, e, GlobalRingSize, GlobalTTL).items
           n == touch.newer + 1
<1>5. /\ \A i \in 2 .. Len(new) : new[i] = global.items[i - 1]
      /\ Len(new) \in Nat
      /\ \A i \in Nat : /\ 1 <= i /\ i <= Len(global.items)
                        /\ GlobalRingSize = 0 \/ i < GlobalRingSize
                        => i + 1 <= Len(new)
  BY <1>4, RingSizeAssumption, LPushKeeps
<1>6. global'.items = new /\ global'.ttl = GlobalTTL
  BY DEF LPush
<1> HIDE DEF new
<1>7. n \in Nat /\ 1 <= n /\ (GlobalRingSize = 0 \/ n < GlobalRingSize)
  BY <1>2, RingSizeAssumption
<1>8. n + 1 <= Len(new)
  BY <1>3, <1>5, <1>7
<1>9. new[n + 1] = global.items[n]
  <2>1. n + 1 \in 2 .. Len(new) /\ (n + 1) - 1 = n
    BY <1>5, <1>7, <1>8
  <2>2. QED
    BY <1>5, <2>1
<1>10. touch'.newer + 1 = n + 1
  BY <1>2
<1>11. /\ global'.items[touch'.newer + 1].sid = touch'.sid
       /\ global'.items[touch'.newer + 1].age <= touch'.age
  BY <1>2, <1>3, <1>6, <1>9, <1>10
<1>12. touch'.newer + 1 <= Len(global'.items)
  BY <1>6, <1>8, <1>10
<1>13. global'.ttl + touch'.age >= GlobalTTL
  BY <1>2, <1>6, TTLAssumption
<1>14. QED
  BY <1>2, <1>11, <1>12, <1>13 DEF TouchInRing

\* The newest activity is the head of the ring.
LEMMA PushedFirst ==
  ASSUME QueryInv, NEW s \in Sids, NEW a \in Age,
         global' = LPush(global, [sid |-> s, age |-> a], GlobalRingSize, GlobalTTL),
         touch' = [sid |-> s, age |-> a, newer |-> 0]
  PROVE  TouchInRing'
<1> DEFINE e == [sid |-> s, age |-> a]
           new == LPush(global, e, GlobalRingSize, GlobalTTL).items
<1>1. e \in Entry /\ a \in Nat
  BY AgeCapAssumption DEF Entry, Age
<1>2. global \in [items : Seq(Entry), ttl : Nat]
  BY TTLAssumption DEF QueryInv, StoreInv, StoreTypeOK
<1>3. Len(new) \in Nat /\ Len(new) >= 1 /\ new[1] = e
  BY <1>1, <1>2, RingSizeAssumption, LPushKeeps
<1>4. global'.items = new /\ global'.ttl = GlobalTTL
  BY DEF LPush
<1> HIDE DEF new
<1>5. /\ touch'.sid = s /\ touch'.age = a /\ touch'.newer = 0 /\ touch'.newer + 1 = 1
      /\ touch' \in Touch
  BY <1>1, LimitAssumption DEF Touch
<1>6. /\ global'.items[touch'.newer + 1].sid = touch'.sid
      /\ global'.items[touch'.newer + 1].age <= touch'.age
  BY <1>1, <1>3, <1>4, <1>5
<1>7. touch'.newer + 1 <= Len(global'.items)
  BY <1>3, <1>4, <1>5
<1>8. global'.ttl + touch'.age >= GlobalTTL
  BY <1>1, <1>4, <1>5, TTLAssumption
<1>9. QED
  BY <1>5, <1>6, <1>7, <1>8 DEF TouchInRing

\* Whatever the store does, the activity is where its successors pushed it or
\* it is followed no longer.
LEMMA TouchNext == QueryInv /\ [QueryNext]_queryVars => TouchInRing'
<1> SUFFICES ASSUME QueryInv, [QueryNext]_queryVars PROVE TouchInRing'
  OBVIOUS
<1> USE TTLAssumption
<1>1. CASE UNCHANGED <<touch, global>>
  BY <1>1 DEF QueryInv, TouchInRing
<1>2. CASE touch' = NoTouch
  BY <1>2 DEF TouchInRing, NoTouch
<1>3. CASE touch = NoTouch /\ Pass
  BY <1>2, <1>3 DEF Pass
<1>4. ASSUME touch # NoTouch, Pass PROVE TouchInRing'
  <2>1. CASE touch.age + 1 >= GlobalTTL
    BY <1>2, <1>4, <2>1 DEF Pass
  <2>2. CASE ~(touch.age + 1 >= GlobalTTL)
    <3>1. /\ touch \in Touch /\ touch.age \in Nat /\ touch.newer \in Nat
          /\ touch.newer + 1 <= Len(global.items)
          /\ global.items[touch.newer + 1].sid = touch.sid
          /\ global.items[touch.newer + 1].age <= touch.age
          /\ global.ttl + touch.age >= GlobalTTL
      BY <1>4, LimitAssumption DEF QueryInv, TouchInRing, Touch
    <3>2. global.items \in Seq(Entry) /\ global.ttl \in 0 .. GlobalTTL
      BY DEF QueryInv, StoreInv, StoreTypeOK
    <3>3. global.ttl > 1
      BY <2>2, <3>1, <3>2
    <3>4. global' = AgeRing(global)
      BY <1>4 DEF Pass, Elapse
    <3>5. /\ global'.items = [i \in 1 .. Len(global.items) |->
                                [global.items[i] EXCEPT !.age = Older(@)]]
          /\ global'.ttl = global.ttl - 1
      BY <3>2, <3>3, <3>4 DEF AgeRing
    <3>6. touch' = [touch EXCEPT !.age = @ + 1]
      BY <1>4, <2>2 DEF Pass
    <3>8. /\ touch'.sid = touch.sid /\ touch'.age = touch.age + 1
          /\ touch'.newer = touch.newer /\ touch' \in Touch
      BY <3>1, <3>6 DEF Touch
    <3>9. touch.newer + 1 \in 1 .. Len(global.items)
      BY <3>1, <3>2
    <3>10. Len(global'.items) = Len(global.items)
      <4>1. Len(global.items) \in Nat
        BY <3>2
      <4>2. global'.items \in [1 .. Len(global.items) -> Entry]
        <5>1. \A i \in 1 .. Len(global.items) : global.items[i] \in Entry
          BY <3>2
        <5>2. \A i \in 1 .. Len(global.items) :
                [global.items[i] EXCEPT !.age = Older(@)] \in Entry
          BY <5>1, OlderFact DEF Entry
        <5>3. QED
          BY <3>5, <5>2
      <4>3. QED
        BY <4>1, <4>2
    <3>11. global.items[touch.newer + 1] \in Entry
      BY <3>2, <3>9
    <3>12. /\ global'.items[touch.newer + 1].sid = touch.sid
           /\ global'.items[touch.newer + 1].age <= touch'.age
      <4>1. global'.items[touch.newer + 1] =
              [global.items[touch.newer + 1] EXCEPT !.age = Older(@)]
        BY <3>5, <3>9
      <4>2. global'.items[touch.newer + 1].sid = touch.sid
            /\ global'.items[touch.newer + 1].age = Older(global.items[touch.newer + 1].age)
        BY <3>1, <3>11, <4>1 DEF Entry
      <4>3. global.items[touch.newer + 1].age \in Age
        BY <3>11 DEF Entry
      <4>4. Older(global.items[touch.newer + 1].age) <= global.items[touch.newer + 1].age + 1
        BY <4>3, AgeCapAssumption DEF Age, Older
      <4>5. QED
        BY <3>1, <3>8, <4>2, <4>3, <4>4, AgeCapAssumption DEF Age, Older
    <3>13. global'.ttl + touch'.age >= GlobalTTL
      BY <3>1, <3>2, <3>5, <3>8
    <3>14. QED
      BY <3>1, <3>8, <3>10, <3>12, <3>13 DEF TouchInRing
  <2>3. QED
    BY <2>1, <2>2
<1>5. ASSUME NEW s \in Sids, NEW a \in EventAges[s], NEW c \in Cwds,
             NEW existed \in BOOLEAN, PushActivity(s, a, c, existed), Follow(s, a)
      PROVE  TouchInRing'
  <2>1. a \in Age
    BY EventAgesAssumption
  <2>2. global' = LPush(global, [sid |-> s, age |-> a], GlobalRingSize, GlobalTTL)
    BY <1>5 DEF PushActivity
  <2>3. CASE touch' = [sid |-> s, age |-> a, newer |-> 0]
    BY <2>1, <2>2, <2>3, PushedFirst
  <2>4. CASE /\ touch' = [touch EXCEPT !.newer = @ + 1] /\ touch # NoTouch
             /\ ~(touch.newer + 1 >= Limit)
             /\ ~(GlobalRingSize > 0 /\ touch.newer + 1 >= GlobalRingSize)
    <3>1. touch \in Touch
      BY <2>4 DEF QueryInv, TouchInRing
    <3>2. /\ touch.newer + 1 < Limit
          /\ GlobalRingSize > 0 => touch.newer + 1 < GlobalRingSize
      BY <2>4, <3>1, LimitAssumption, RingSizeAssumption DEF Touch
    <3>3. [sid |-> s, age |-> a] \in Entry
      BY <2>1 DEF Entry
    <3>4. QED
      BY <2>2, <2>4, <3>2, <3>3, PushedOver
  <2>5. QED
    BY <1>2, <1>5, <2>3, <2>4 DEF Follow
<1>6. CASE Serve
  <2>1. Write
    BY <1>6 DEF Serve
  <2>2. QED
    BY <1>1, <1>5, <2>1 DEF Write, OpenSession, TouchSession, TouchOrCreateSession,
       CloseSession, TouchActiveSessions, SweepExpired
<1>7. CASE UNCHANGED storeVars /\ UNCHANGED <<vouched, touch>>
  BY <1>1, <1>7 DEF storeVars
<1>8. CASE UNCHANGED queryVars
  BY <1>1, <1>8 DEF queryVars, storeVars
<1>9. QED
  BY <1>3, <1>4, <1>6, <1>7, <1>8, QueryLeavesTheStore

-----------------------------------------------------------------------------
(* The query itself.                                                       *)

\* A query has its type, asks under a window of one age, and what is said to be
\* fresh is a set of sessions.
LEMMA TypeNext == QueryInv /\ [QueryNext]_queryVars => QueryTypeOK'
<1> SUFFICES ASSUME QueryInv, [QueryNext]_queryVars PROVE QueryTypeOK'
  OBVIOUS
<1> USE BudgetAssumption, AgeCapAssumption
<1>1. StoreTypeOK' /\ vouched' \in [Sids -> Age]
  BY StoreGoesOn, VouchedNext DEF QueryInv, StoreInv
<1>a. touch' \in Touch \cup {NoTouch}
  BY TouchNext DEF TouchInRing
<1>2. SUFFICES query' \in Query /\ fresh' \subseteq Sids
  BY <1>1, <1>a DEF QueryTypeOK
<1> USE DEF QueryInv, QueryTypeOK
<1>3. NoQuery \in Query /\ AgeCap \in Age
  BY DEF NoQuery, NoFilter, Query, Age
<1>4. CASE UNCHANGED queryVars
  BY <1>4 DEF queryVars
<1>5. ASSUME NEW w \in Windows, Ask(w)
      PROVE  query' \in Query /\ fresh' \subseteq Sids
  <2>1. w \in Age
    BY WindowsAssumption
  <2>2. query' \in Query
    BY <1>3, <1>5, <2>1 DEF Ask, Query
  <2>3. QED
    BY <1>5, <2>2 DEF Ask
<1>6. ASSUME NEW s \in Sids, GetSession(s)
      PROVE  query' \in Query /\ fresh' \subseteq Sids
  <2>1. hash[s].lastSeen \in Age
    BY DEF StoreTypeOK, HashRecord
  <2>2. query' \in Query
    BY <1>6, <2>1 DEF GetSession, Query
  <2>3. QED
    BY <1>6, <2>2 DEF GetSession
<1>7. ASSUME NEW s \in Sids, GetSessionFails(s)
      PROVE  query' \in Query /\ fresh' \subseteq Sids
  <2>1. query' \in Query
    BY <1>7 DEF GetSessionFails, Query
  <2>2. QED
    BY <1>7, <2>1 DEF GetSessionFails
<1>8. CASE Answer
  BY <1>3, <1>8 DEF Answer
<1>9. CASE Serve
  BY <1>9 DEF Serve, FreshStill
<1>10. CASE Pass
  <2>1. fresh' \subseteq Sids
    BY <1>10 DEF Pass, FreshStill
  <2>2. CASE ~query.asked
    BY <1>10, <2>1, <2>2 DEF Pass
  <2>3. CASE query.asked
    <3> DEFINE took1 == IF Late THEN query.took ELSE query.took + 1
               seen1 == [s \in Sids |-> IF query.seen[s] = Absent THEN Absent
                                        ELSE Older(query.seen[s])]
    <3>1. took1 \in 0 .. Budget + 1
      BY DEF Late, Query
    <3>2. seen1 \in [Sids -> Age \cup {Absent}]
      <4>1. \A s \in Sids : query.seen[s] \in Age \cup {Absent}
        BY DEF Query
      <4>2. \A s \in Sids : query.seen[s] # Absent => Older(query.seen[s]) \in Age
        BY <4>1, OlderFact
      <4>3. QED
        BY <4>2
    <3>3. query' = [query EXCEPT !.took = took1, !.seen = seen1]
      BY <1>10, <2>3 DEF Pass
    <3> HIDE DEF took1, seen1
    <3>4. query' \in Query
      BY <3>1, <3>2, <3>3 DEF Query
    <3>5. QED
      BY <2>1, <3>4
  <2>4. QED
    BY <2>2, <2>3
<1>11. QED
  BY <1>4, <1>5, <1>6, <1>7, <1>8, <1>9, <1>10 DEF QueryNext

\* Freshness is dropped in the step that ends it.
LEMMA FreshNext == QueryInv /\ [QueryNext]_queryVars => FreshNow'
<1> SUFFICES ASSUME QueryInv, [QueryNext]_queryVars PROVE FreshNow'
  OBVIOUS
<1> USE DEF QueryInv, FreshNow
<1>1. CASE UNCHANGED queryVars
  BY <1>1 DEF queryVars, storeVars, FreshFor, Listed, Active, HashExists
<1>2. ASSUME NEW w \in Windows, Ask(w) PROVE FreshNow'
  <2>1. query'.asked /\ query'.window = w
    BY <1>2 DEF Ask, NoQuery
  <2>2. \A s \in fresh' : FreshFor(s, w)'
    BY <1>2 DEF Ask, storeVars, FreshFor, Listed, Active, HashExists
  <2>3. QED
    BY <2>1, <2>2 DEF FreshFor
<1>3. ASSUME NEW s \in Sids, GetSession(s) \/ GetSessionFails(s) PROVE FreshNow'
  <2>1. query.asked
    BY <1>3 DEF GetSession, GetSessionFails, NoQuery
  <2>2. query'.asked /\ query'.window = query.window
    BY <1>3, <2>1 DEF GetSession, GetSessionFails, QueryTypeOK, Query
  <2>3. fresh' = fresh /\ UNCHANGED storeVars
    BY <1>3 DEF GetSession, GetSessionFails
  <2>4. QED
    BY <2>1, <2>2, <2>3 DEF storeVars, FreshFor, Listed, Active, HashExists
<1>4. CASE Answer
  BY <1>4 DEF Answer, NoQuery
<1>5. CASE Serve
  <2>1. query' = query /\ FreshStill
    BY <1>5 DEF Serve
  <2>2. QED
    BY <2>1 DEF FreshStill
<1>6. CASE Pass
  <2>1. query'.asked = query.asked /\ query'.window = query.window
        /\ (~query.asked => query' = query)
    BY <1>6 DEF Pass, QueryTypeOK, Query
  <2>2. FreshStill
    BY <1>6 DEF Pass
  <2>3. \A s \in fresh' : FreshFor(s, query.window)' /\ s \in fresh
    BY <2>2 DEF FreshStill
  <2>4. QED
    BY <2>1, <2>3 DEF FreshFor
<1>7. QED
  BY <1>1, <1>2, <1>3, <1>4, <1>5, <1>6 DEF QueryNext

\* A hash that is read says what the score says, which leaves room for the whole
\* budget; from then on both clocks advance together.
LEMMA SeenNext == QueryInv /\ [QueryNext]_queryVars => SeenInTime'
<1> SUFFICES ASSUME QueryInv, [QueryNext]_queryVars PROVE SeenInTime'
  OBVIOUS
<1>a. fresh' \subseteq Sids
  BY TypeNext DEF QueryTypeOK
<1> SUFFICES ASSUME (query.asked /\ query.clean /\ ~Late)',
                    NEW s \in Sids, s \in fresh', s \notin query'.todo
             PROVE  /\ query'.seen[s] # Absent
                    /\ \/ query'.window = NoFilter
                       \/ query'.seen[s] + Budget <= query'.window + query'.took
  BY <1>a DEF SeenInTime
<1> USE BudgetAssumption, AgeCapAssumption
<1>0. /\ query \in Query /\ query.took \in 0 .. Budget + 1 /\ query.window \in Age
      /\ query.seen \in [Sids -> Age \cup {Absent}] /\ query.seen[s] \in Age \cup {Absent}
  <2>1. query \in Query
    BY DEF QueryInv, QueryTypeOK
  <2>2. QED
    BY <2>1 DEF Query
<1>1. CASE UNCHANGED queryVars
  BY <1>1 DEF queryVars, QueryInv, SeenInTime, Late
<1>2. ASSUME NEW w \in Windows, Ask(w) PROVE FALSE
  <2>1. query'.todo = {t \in Sids : Active(t)}
    BY <1>2 DEF Ask, NoQuery
  <2>2. Active(s)
    BY <1>2 DEF Ask, FreshFor, Listed
  <2>3. QED
    BY <2>1, <2>2
<1>3. ASSUME NEW t \in Sids, GetSession(t)
      PROVE  /\ query'.seen[s] # Absent
             /\ \/ query'.window = NoFilter
                \/ query'.seen[s] + Budget <= query'.window + query'.took
  <2>1. /\ query'.window = query.window /\ query'.took = query.took
        /\ query'.clean = query.clean /\ query'.asked = query.asked
        /\ query'.todo = query.todo \ {t} /\ fresh' = fresh
        /\ query'.seen = [query.seen EXCEPT ![t] = IF HashExists(t) THEN hash[t].lastSeen
                                                   ELSE Absent]
        /\ ~Late
    BY <1>0, <1>3 DEF GetSession, Query
  <2>2. CASE s # t
    <3>1. s \in fresh \ query.todo /\ query'.seen[s] = query.seen[s]
      BY <1>0, <2>1, <2>2
    <3>2. QED
      BY <2>1, <3>1 DEF QueryInv, SeenInTime
  <2>3. CASE s = t
    <3>1. FreshFor(s, query.window)
      BY <2>1 DEF QueryInv, FreshNow
    <3>2. HashExists(s) /\ Active(s)
      BY <3>1 DEF FreshFor, Listed
    <3>3. query'.seen[s] = hash[s].lastSeen /\ hash[s].lastSeen \in Age
      BY <1>0, <2>1, <2>3, <3>2 DEF QueryInv, StoreInv, StoreTypeOK, HashRecord
    <3>4. query'.seen[s] # Absent
      BY <3>3 DEF Age, Absent
    <3>5. CASE query.window # NoFilter
      <4>1. s \notin rehydrated /\ zset[s] + Budget <= query.window
        BY <3>1, <3>5 DEF FreshFor
      <4>2. zset[s] = hash[s].lastSeen
        BY <3>2, <4>1 DEF QueryInv, StoreInv, ScoreMatchesLastSeen, Listed
      <4>3. query'.seen[s] + Budget <= query.window
        BY <3>3, <4>1, <4>2
      <4>4. query'.seen[s] \in Int /\ query.window \in Int /\ query.took \in Nat
        BY <1>0, <3>3 DEF Age
      <4>5. query'.seen[s] + Budget <= query.window + query.took
        BY <4>3, <4>4
      <4>6. QED
        BY <2>1, <3>4, <4>5
    <3>6. QED
      BY <2>1, <3>4, <3>5
  <2>4. QED
    BY <2>2, <2>3
<1>4. ASSUME NEW t \in Sids, GetSessionFails(t) PROVE FALSE
  BY <1>0, <1>4 DEF GetSessionFails, Query
<1>5. ASSUME Answer PROVE FALSE
  BY <1>5 DEF Answer, NoQuery
<1>6. ASSUME Serve
      PROVE  /\ query'.seen[s] # Absent
             /\ \/ query'.window = NoFilter
                \/ query'.seen[s] + Budget <= query'.window + query'.took
  <2>1. query' = query /\ s \in fresh
    BY <1>6 DEF Serve, FreshStill
  <2>2. QED
    BY <2>1 DEF QueryInv, SeenInTime, Late
<1>7. ASSUME Pass
      PROVE  /\ query'.seen[s] # Absent
             /\ \/ query'.window = NoFilter
                \/ query'.seen[s] + Budget <= query'.window + query'.took
  <2>1. s \in fresh
    BY <1>7 DEF Pass, FreshStill
  <2>2. query.asked
    BY <1>7 DEF Pass
  <2>3. /\ query'.window = query.window /\ query'.todo = query.todo
        /\ query'.clean = query.clean
        /\ query'.took = (IF Late THEN query.took ELSE query.took + 1)
        /\ query'.seen = [t \in Sids |-> IF query.seen[t] = Absent THEN Absent
                                         ELSE Older(query.seen[t])]
    BY <1>0, <1>7, <2>2 DEF Pass, Query
  <2>4. ~Late /\ query'.took = query.took + 1
    BY <1>0, <2>3 DEF Late
  <2>5. /\ query.seen[s] # Absent
        /\ query.window = NoFilter \/ query.seen[s] + Budget <= query.window + query.took
    BY <2>1, <2>2, <2>3, <2>4 DEF QueryInv, SeenInTime
  <2>6. query'.seen[s] = Older(query.seen[s]) /\ query.seen[s] \in Age
    BY <1>0, <2>3, <2>5
  <2>7. /\ query'.seen[s] \in Age
        /\ query'.seen[s] <= query.seen[s] + 1
    BY <2>6, OlderFact DEF Age
  <2>8. query'.seen[s] # Absent
    BY <2>7 DEF Age, Absent
  <2>9. CASE query.window # NoFilter
    <3>1. /\ query.seen[s] \in Int /\ query'.seen[s] \in Int /\ query.window \in Int
          /\ query.took \in Int
      BY <1>0, <2>6, <2>7 DEF Age
    <3>2. query'.seen[s] + Budget <= query.window + (query.took + 1)
      BY <2>5, <2>7, <2>9, <3>1
    <3>3. QED
      BY <2>3, <2>4, <2>8, <3>2
  <2>10. QED
    BY <2>3, <2>8, <2>9
<1>8. QED
  BY <1>1, <1>2, <1>3, <1>4, <1>5, <1>6, <1>7 DEF QueryNext

-----------------------------------------------------------------------------
(* The theorems.                                                           *)

\* Nothing has been asked, vouched for or done.
LEMMA QueryInvInit == QueryInit => QueryInv
<1> SUFFICES ASSUME QueryInit PROVE QueryInv
  OBVIOUS
<1> USE BudgetAssumption, AgeCapAssumption
<1>1. StoreInv /\ StoreTypeOK
  BY StoreInvInit DEF QueryInit, StoreInv
<1>2. /\ query = NoQuery /\ fresh = {} /\ vouched = [s \in Sids |-> AgeCap]
      /\ touch = NoTouch /\ \A s \in Sids : hash[s] = NoHash
  BY DEF QueryInit, StoreInit
<1>3. query \in Query
  BY <1>2 DEF NoQuery, NoFilter, Query, Age
<1>4. vouched \in [Sids -> Age]
  BY <1>2 DEF Age
<1>5. QueryTypeOK
  BY <1>1, <1>2, <1>3, <1>4 DEF QueryTypeOK
<1>6. FreshNow /\ SeenInTime
  BY <1>2 DEF FreshNow, SeenInTime, NoQuery
<1>7. VouchedBeforeSeen
  <2>1. query.seen = [s \in Sids |-> Absent] /\ NoHash.ttl = 0
    BY <1>2 DEF NoQuery, NoHash
  <2>2. ASSUME NEW s \in Sids PROVE ~HashExists(s) /\ query.seen[s] = Absent
    <3>1. query.seen[s] = Absent
      BY <2>1
    <3>2. hash[s].ttl = 0
      BY <1>2, <2>1
    <3>3. QED
      BY <3>1, <3>2 DEF HashExists
  <2>3. QED
    BY <2>2 DEF VouchedBeforeSeen
<1>8. TouchInRing
  BY <1>2 DEF TouchInRing
<1>9. QED
  BY <1>1, <1>5, <1>6, <1>7, <1>8 DEF QueryInv

\* And no step of the store, of time or of a query disturbs any part of it.
LEMMA QueryInvNext == QueryInv /\ [QueryNext]_queryVars => QueryInv'
<1>1. QueryInv /\ [QueryNext]_queryVars => StoreInv'
  BY StoreGoesOn DEF QueryInv
<1>2. QED
  BY <1>1, TypeNext, FreshNext, SeenNext, VouchedNext, TouchNext DEF QueryInv

LEMMA QueryInvariant == QuerySpec => []QueryInv
<1>1. QED
  BY QueryInvInit, QueryInvNext, PTL DEF QuerySpec

\* Store, listing and bookkeeping keep their types under any interleaving.
THEOREM QueryTypes == QuerySpec => []QueryTypeOK
<1>1. QueryInv => QueryTypeOK
  BY DEF QueryInv
<1>2. QED
  BY <1>1, QueryInvariant, PTL

\* Whatever is written while a listing is read hash by hash (session.go:97-114),
\* a session that stays listed and recent is in the answer.
THEOREM FreshSessionsAreReported == QuerySpec => []FreshIsReported
<1>1. QueryInv => FreshIsReported
  <2> SUFFICES ASSUME QueryInv, Answering, query.clean, ~Late, NEW s \in fresh
               PROVE  s \in Reported
    BY DEF FreshIsReported
  <2> USE BudgetAssumption, AgeCapAssumption
  <2>1. /\ s \in Sids /\ query.seen[s] \in Age \cup {Absent} /\ query.window \in Age
        /\ query.took \in 0 .. Budget + 1
    BY DEF QueryInv, QueryTypeOK, Query
  <2>2. /\ query.seen[s] # Absent
        /\ query.window = NoFilter \/ query.seen[s] + Budget <= query.window + query.took
    BY DEF QueryInv, SeenInTime, Answering
  <2>3. query.took <= Budget
    BY <2>1 DEF Late
  <2>4. query.seen[s] \in 0 .. AgeCap /\ query.window \in 0 .. AgeCap
    BY <2>1, <2>2 DEF Age
  <2>5. query.seen[s] <= query.window
    BY <2>1, <2>2, <2>3, <2>4 DEF NoFilter
  <2>6. QED
    BY <2>1, <2>2, <2>5 DEF Reported
<1>2. QED
  BY <1>1, QueryInvariant, PTL

\* A filter by last_seen never reports a session that was silent for longer, in
\* spite of the touch at boot and of hashes raised by a refresh (session.go:116-141).
THEOREM ReportedAreVouchedFor == QuerySpec => []ReportedWasVouchedFor
<1>1. QueryInv => ReportedWasVouchedFor
  <2> SUFFICES ASSUME QueryInv, NEW s \in Reported PROVE vouched[s] <= query.window
    BY DEF ReportedWasVouchedFor
  <2>1. /\ s \in Sids /\ query.seen[s] # Absent /\ query.seen[s] <= query.window
        /\ query.seen[s] \in Age \cup {Absent} /\ query.window \in Age
        /\ vouched[s] \in Age
    BY DEF Reported, QueryInv, QueryTypeOK, Query
  <2>2. vouched[s] <= query.seen[s]
    BY <2>1 DEF QueryInv, VouchedBeforeSeen
  <2>3. vouched[s] \in Int /\ query.seen[s] \in Int /\ query.window \in Int
    BY <2>1, AgeCapAssumption DEF Age
  <2>4. QED
    BY <2>1, <2>2, <2>3
<1>2. QED
  BY <1>1, QueryInvariant, PTL

\* mesh_check_conflict names the session of every activity that is still within
\* the ring, its TTL and what a reader takes of it (conflict.go:38-58).
THEOREM TouchesAreReported == QuerySpec => []TouchIsReported
<1>1. QueryInv => TouchIsReported
  <2> SUFFICES ASSUME QueryInv, touch # NoTouch PROVE TouchIsReported
    BY DEF TouchIsReported
  <2> DEFINE n == touch.newer + 1
             acts == RecentActivity(global)
  <2>1. /\ touch.newer \in 0 .. Limit - 1 /\ n <= Len(global.items)
        /\ global.items[n].sid = touch.sid
        /\ global.items[n].age <= touch.age /\ touch.age \in Nat
    BY DEF QueryInv, TouchInRing, Touch
  <2>2. global.items \in Seq(Entry)
    BY DEF QueryInv, StoreInv, StoreTypeOK
  <2>3. n \in 1 .. Len(global.items) /\ n <= Limit
    BY <2>1, <2>2, LimitAssumption
  <2>a. global.items[n].age \in Age
    <3>1. global.items[n] \in Entry
      BY <2>2, <2>3
    <3>2. QED
      BY <3>1 DEF Entry
  <2>4. n \in DOMAIN acts /\ acts[n] = global.items[n]
    <3>1. CASE Len(global.items) <= Limit
      BY <2>2, <2>3, <3>1 DEF RecentActivity
    <3>2. CASE ~(Len(global.items) <= Limit)
      BY <2>2, <2>3, <3>2, LimitAssumption DEF RecentActivity
    <3>3. QED
      BY <3>1, <3>2
  <2> HIDE DEF n, acts
  <2>5. acts[n].sid = touch.sid
    BY <2>1, <2>4
  <2>6. ASSUME NEW caller \in Sids \ {touch.sid}
        PROVE  touch.sid \in Conflicts(Target[touch.sid], caller)
    <3>1. n \in {j \in DOMAIN acts : Target[acts[j].sid] = Target[touch.sid]}
      BY <2>4, <2>5
    <3>2. QED
      BY <2>5, <3>1 DEF Conflicts, acts
  <2>7. ASSUME NEW minutes \in Age, touch.age <= minutes
        PROVE  \E e \in RecentEvents(global, minutes) : e.sid = touch.sid
    <3>1. acts[n].age <= minutes
      BY <2>1, <2>4, <2>7, <2>a, AgeCapAssumption DEF Age
    <3>2. acts[n] \in RecentEvents(global, minutes)
      BY <2>4, <3>1 DEF RecentEvents, acts
    <3>3. QED
      BY <2>5, <3>2
  <2>8. QED
    BY <2>6, <2>7 DEF TouchIsReported
<1>2. QED
  BY <1>1, QueryInvariant, PTL

=============================================================================
