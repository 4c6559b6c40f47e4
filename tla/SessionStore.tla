----------------------------- MODULE SessionStore -----------------------------
(***************************************************************************)
(* The session table and the activity rings that the mesh keeps in Redis   *)
(* (internal/store).  One action per method of RedisStore that writes.     *)
(*                                                                         *)
(*   zset[s]   claude:mesh:sessions:active, the sorted set: the age of the *)
(*             score of s, or Absent                                       *)
(*   hash[s]   claude:mesh:session:<s>, the metadata hash with its TTL     *)
(*   ring[s]   claude:mesh:activity:<s>, newest arrival first              *)
(*   global    claude:mesh:activity:global, newest arrival first           *)
(*                                                                         *)
(* Timestamps are AGES: the model keeps "now - ts" and Elapse makes every  *)
(* age one older and every TTL one shorter, saturating at AgeCap, so that  *)
(* time never runs out.  A pipeline is one step: Redis serves what one     *)
(* client sent in one batch without serving another client in between.     *)
(***************************************************************************)
EXTENDS Integers, Sequences

CONSTANTS
  Sids, Cwds, Hosts, Pids,
  Unset,            \* a hash field that was never written
  HashTTL,          \* cfg.SessionTTL
  GraceTTL,         \* graceSeconds of CloseSession
  RingTTL,          \* cfg.ActivityPerSessTTL
  GlobalTTL,        \* cfg.ActivityGlobalTTL
  RingSize,         \* cfg.ActivityRingSize
  GlobalRingSize,   \* cfg.GlobalRingSize
  AgeCap            \* ages saturate here

ASSUME TTLAssumption ==
  /\ HashTTL \in Nat \ {0} /\ GraceTTL \in Nat \ {0}
  /\ RingTTL \in Nat \ {0} /\ GlobalTTL \in Nat \ {0}
  /\ GraceTTL <= HashTTL

ASSUME AgeCapAssumption == AgeCap \in Nat /\ HashTTL <= AgeCap

ASSUME RingSizeAssumption == RingSize \in Nat /\ GlobalRingSize \in Nat

VARIABLES
  zset, hash, ring, global,
  rehydrated        \* history: members whose score TouchActiveSessions wrote last

storeVars == <<zset, hash, ring, global, rehydrated>>

Absent == -1
Age == 0 .. AgeCap
Older(a) == IF a < AgeCap THEN a + 1 ELSE a

Entry == [sid : Sids, age : Age]

\* The fields of a session hash that the system reads back; ttl = 0 is "no key".
HashRecord ==
  [ttl : 0 .. HashTTL, cwd : Cwds \cup {Unset}, host : Hosts \cup {Unset},
   pid : Pids \cup {Unset}, lastSeen : Age]
NoHash == [ttl |-> 0, cwd |-> Unset, host |-> Unset, pid |-> Unset, lastSeen |-> 0]
EmptyRing == [items |-> <<>>, ttl |-> 0]

HashExists(s) == hash[s].ttl > 0
Active(s) == zset[s] # Absent

\* What ListActiveSessions returns: members whose hash is still there.
Listed(s) == Active(s) /\ HashExists(s)

StoreInit ==
  /\ zset = [s \in Sids |-> Absent]
  /\ hash = [s \in Sids |-> NoHash]
  /\ ring = [s \in Sids |-> EmptyRing]
  /\ global = EmptyRing
  /\ rehydrated = {}

-----------------------------------------------------------------------------
(* Helpers: the Redis commands the pipelines are made of.                  *)

ZAdd(s, age) ==
  /\ zset' = [zset EXCEPT ![s] = age]
  /\ rehydrated' = rehydrated \ {s}

LTrimOneMore(items, size) ==   \* bug: LTRIM 0 size
  IF size = 0 \/ Len(items) <= size + 1 THEN items ELSE SubSeq(items, 1, size + 1)

\* LTRIM 0 size-1; with size 0 that is LTRIM 0 -1, which keeps everything.
LTrim(items, size) ==
  IF size = 0 \/ Len(items) <= size THEN items ELSE SubSeq(items, 1, size)

RPush(r, e, size, ttl) ==   \* bug: the oldest comes first
  [items |-> LTrim(Append(r.items, e), size), ttl |-> ttl]

LPush(r, e, size, ttl) == [items |-> LTrim(<<e>> \o r.items, size), ttl |-> ttl]

-----------------------------------------------------------------------------
(* The methods of RedisStore.  "age" is how old the event's Ts is.         *)

\* An event without a Ts is taken to be of now, whenever it is handled: its age is 0.
OpenSession(s, age, cwd, host, pid) ==
  /\ hash' = [hash EXCEPT ![s] = [ttl |-> HashTTL, cwd |-> cwd, host |-> host,
                                  pid |-> pid, lastSeen |-> age]]
  /\ ZAdd(s, age)
  /\ UNCHANGED <<ring, global>>

TouchSessionNoExpire(s, age) ==   \* bug: the EXPIRE is forgotten
  /\ hash' = [hash EXCEPT ![s].lastSeen = age,
                          ![s].ttl = IF HashExists(s) THEN @ ELSE HashTTL]
  /\ ZAdd(s, age)
  /\ UNCHANGED <<ring, global>>

\* Without a hash this writes one that holds last_seen only.
TouchSession(s, age) ==
  /\ hash' = [hash EXCEPT ![s].ttl = HashTTL, ![s].lastSeen = age]
  /\ ZAdd(s, age)
  /\ UNCHANGED <<ring, global>>

\* HSETNX: the cwd is written only where the field is missing.
TouchOrCreateSession(s, age, cwd) ==
  /\ hash' = [hash EXCEPT ![s].ttl = HashTTL, ![s].lastSeen = age,
                          ![s].cwd = IF @ = Unset THEN cwd ELSE @]
  /\ ZAdd(s, age)
  /\ UNCHANGED <<ring, global>>

\* EXPIRE does nothing to a key that is not there.
CloseSession(s) ==
  /\ zset' = [zset EXCEPT ![s] = Absent]
  /\ rehydrated' = rehydrated \ {s}
  /\ hash' = IF HashExists(s) THEN [hash EXCEPT ![s].ttl = GraceTTL] ELSE hash
  /\ UNCHANGED <<ring, global>>

PushActivitySwapped(s, age, cwd, existed) ==   \* bug: the ring TTLs are swapped
  LET e == [sid |-> s, age |-> age] IN
  /\ ring' = IF existed
             THEN [ring EXCEPT ![s] = LPush(@, e, RingSize, GlobalTTL)]
             ELSE ring
  /\ hash' = [hash EXCEPT ![s].ttl = HashTTL, ![s].lastSeen = age,
                          ![s].cwd = IF existed THEN @ ELSE cwd]
  /\ global' = LPush(global, e, GlobalRingSize, RingTTL)
  /\ ZAdd(s, age)

PushActivityNoLastSeen(s, age, cwd, existed) ==   \* bug: HSET of a new hash only
  LET e == [sid |-> s, age |-> age] IN
  /\ ring' = IF existed
             THEN [ring EXCEPT ![s] = LPush(@, e, RingSize, RingTTL)]
             ELSE ring
  /\ hash' = [hash EXCEPT ![s].ttl = HashTTL,
                          ![s].lastSeen = IF existed THEN @ ELSE age,
                          ![s].cwd = IF existed THEN @ ELSE cwd]
  /\ global' = LPush(global, e, GlobalRingSize, GlobalTTL)
  /\ ZAdd(s, age)

PushActivityKnown(s, age, cwd, existed) ==   \* bug: the global ring, too, only if existed
  LET e == [sid |-> s, age |-> age] IN
  /\ ring' = IF existed
             THEN [ring EXCEPT ![s] = LPush(@, e, RingSize, RingTTL)]
             ELSE ring
  /\ hash' = [hash EXCEPT ![s].ttl = HashTTL, ![s].lastSeen = age,
                          ![s].cwd = IF existed THEN @ ELSE cwd]
  /\ global' = IF existed THEN LPush(global, e, GlobalRingSize, GlobalTTL) ELSE global
  /\ ZAdd(s, age)

\* The pipeline of PushActivity; existed is what its EXISTS answered earlier.
PushActivity(s, age, cwd, existed) ==
  LET e == [sid |-> s, age |-> age] IN
  /\ ring' = IF existed
             THEN [ring EXCEPT ![s] = LPush(@, e, RingSize, RingTTL)]
             ELSE ring
  /\ hash' = [hash EXCEPT ![s].ttl = HashTTL, ![s].lastSeen = age,
                          ![s].cwd = IF existed THEN @ ELSE cwd]
  /\ global' = LPush(global, e, GlobalRingSize, GlobalTTL)
  /\ ZAdd(s, age)

TouchActiveSessionsExpire(members, age) ==   \* bug: the boot touch renews the hashes
  LET hit == {s \in members : Active(s)} IN
  /\ zset' = [s \in Sids |-> IF s \in hit THEN age ELSE zset[s]]
  /\ hash' = [s \in Sids |-> IF s \in hit /\ HashExists(s)
                             THEN [hash[s] EXCEPT !.ttl = HashTTL] ELSE hash[s]]
  /\ rehydrated' = rehydrated \cup hit
  /\ UNCHANGED <<ring, global>>

TouchActiveSessionsAdds(members, age) ==   \* bug: ZADD without XX
  /\ zset' = [s \in Sids |-> IF s \in members THEN age ELSE zset[s]]
  /\ rehydrated' = rehydrated \cup members
  /\ UNCHANGED <<hash, ring, global>>

TouchActiveSessionsSeen(members, age) ==   \* bug: last_seen is written as well
  LET hit == {s \in members : Active(s)} IN
  /\ zset' = [s \in Sids |-> IF s \in hit THEN age ELSE zset[s]]
  /\ hash' = [s \in Sids |-> IF s \in hit /\ HashExists(s)
                             THEN [hash[s] EXCEPT !.lastSeen = age] ELSE hash[s]]
  /\ rehydrated' = rehydrated \cup hit
  /\ UNCHANGED <<ring, global>>

\* ZADD XX of the members an earlier ZRANGE returned.
TouchActiveSessions(members, age) ==
  LET hit == {s \in members : Active(s)} IN
  /\ zset' = [s \in Sids |-> IF s \in hit THEN age ELSE zset[s]]
  /\ rehydrated' = rehydrated \cup hit
  /\ UNCHANGED <<hash, ring, global>>

SweepExpiredEarly(cutoff) ==   \* bug: the cutoff is one unit too young
  LET stale == {s \in Sids : Active(s) /\ zset[s] + 1 >= cutoff} IN
  /\ zset' = [s \in Sids |-> IF s \in stale THEN Absent ELSE zset[s]]
  /\ rehydrated' = rehydrated \ stale
  /\ UNCHANGED <<hash, ring, global>>

\* ZREMRANGEBYSCORE -inf cutoff: the bound is inclusive.
SweepExpired(cutoff) ==
  LET stale == {s \in Sids : Active(s) /\ zset[s] >= cutoff} IN
  /\ zset' = [s \in Sids |-> IF s \in stale THEN Absent ELSE zset[s]]
  /\ rehydrated' = rehydrated \ stale
  /\ UNCHANGED <<hash, ring, global>>

-----------------------------------------------------------------------------
(* Redis' own step: time passes and keys whose TTL runs out disappear.     *)

AgeHash(h) ==
  IF h.ttl <= 1 THEN NoHash
  ELSE [h EXCEPT !.ttl = @ - 1, !.lastSeen = Older(@)]

AgeRing(r) ==
  IF r.ttl <= 1 THEN EmptyRing
  ELSE [items |-> [i \in 1 .. Len(r.items) |-> [r.items[i] EXCEPT !.age = Older(@)]],
        ttl |-> r.ttl - 1]

Elapse ==
  /\ zset' = [s \in Sids |-> IF Active(s) THEN Older(zset[s]) ELSE Absent]
  /\ hash' = [s \in Sids |-> AgeHash(hash[s])]
  /\ ring' = [s \in Sids |-> AgeRing(ring[s])]
  /\ global' = AgeRing(global)
  /\ UNCHANGED rehydrated

-----------------------------------------------------------------------------
(* The store on its own: any caller may call any method at any time, with  *)
(* any timestamp that is not in the future.                                *)

StoreNext ==
  \/ \E s \in Sids, a \in Age, c \in Cwds, h \in Hosts, p \in Pids :
       OpenSession(s, a, c, h, p)
  \/ \E s \in Sids, a \in Age : TouchSession(s, a)
  \/ \E s \in Sids, a \in Age, c \in Cwds : TouchOrCreateSession(s, a, c)
  \/ \E s \in Sids : CloseSession(s)
  \/ \E s \in Sids, a \in Age, c \in Cwds, existed \in BOOLEAN :
       PushActivity(s, a, c, existed)
  \/ \E members \in SUBSET Sids, a \in Age : TouchActiveSessions(members, a)
  \/ \E cutoff \in Age : SweepExpired(cutoff)
  \/ Elapse

StoreSpec == StoreInit /\ [][StoreNext]_storeVars

-----------------------------------------------------------------------------
(* Properties of the store under any order of calls.                       *)

\* Every variable has its type (internal/store/keys.go: the key schema).
StoreTypeOK ==
  /\ zset \in [Sids -> Age \cup {Absent}]
  /\ hash \in [Sids -> HashRecord]
  /\ ring \in [Sids -> [items : Seq(Entry), ttl : 0 .. RingTTL]]
  /\ global \in [items : Seq(Entry), ttl : 0 .. GlobalTTL]
  /\ rehydrated \subseteq Sids

\* The sorted set and the hash are two copies of one fact, written by five
\* methods and aged apart: a listed session's score is its last_seen, unless
\* the boot touch, which writes the score only, came last (session.go:120-141).
ScoreMatchesLastSeen ==
  \A s \in Sids : Listed(s) /\ s \notin rehydrated => zset[s] = hash[s].lastSeen

\* No member is invisible while it is recent: ListActiveSessions skips members
\* whose hash expired (session.go:107-110), and outside a boot touch that can
\* only happen to a member whose score is older than the hash's whole TTL.
RecentIsListed ==
  \A s \in Sids :
    Active(s) /\ s \notin rehydrated /\ zset[s] < HashTTL => HashExists(s)

\* A member that had an activity within the hash's TTL is listed, whatever boot
\* touches and late events wrote its score since: the sessions and the events
\* that one status line counts agree (activity.go:17-18, 58-59).
ActivityIsListed ==
  \A i \in DOMAIN global.items :
    LET e == global.items[i] IN
    e.age < HashTTL /\ Active(e.sid) => HashExists(e.sid)

\* Why ActivityIsListed holds: so do an activity's age and that TTL.
ActivityCoversHash ==
  \A i \in DOMAIN global.items :
    LET e == global.items[i] IN
    Active(e.sid) => e.age + hash[e.sid].ttl >= HashTTL

\* Why RecentIsListed holds: a score and what is left of the hash's TTL
\* together always cover the TTL a write gives (session.go:33-34, 45-46, 66-67).
ScoreCoversHash ==
  \A s \in Sids :
    Active(s) /\ s \notin rehydrated => zset[s] + hash[s].ttl >= HashTTL

\* A missing hash holds no field and a rehydrated member is a member: the
\* normal form the other invariants rest on.
StoreNormal ==
  /\ \A s \in Sids : hash[s].ttl = 0 => hash[s] = NoHash
  /\ \A s \in rehydrated : Active(s)

\* The rings never outgrow their configured size (activity.go:43-44, 63-64),
\* provided that size is not 0, which LTRIM takes for "keep everything".
RingsBounded ==
  /\ RingSize > 0 => \A s \in Sids : Len(ring[s].items) <= RingSize
  /\ GlobalRingSize > 0 => Len(global.items) <= GlobalRingSize

\* The inductive invariant: the properties above with what they rest on.  It
\* says of internal/store/session.go and activity.go that no order of calls
\* separates the two copies of a session or lets a ring grow.
StoreInv ==
  /\ StoreTypeOK
  /\ StoreNormal
  /\ ScoreCoversHash
  /\ ScoreMatchesLastSeen
  /\ RingsBounded

=============================================================================
