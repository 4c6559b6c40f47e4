------------------------------ MODULE MeshQueries ------------------------------
(***************************************************************************)
(* What a session learns about the others: the queries of the MCP server   *)
(* (internal/mcp/handlers) and of the status line over the store, while    *)
(* the daemon goes on writing and Redis goes on expiring.                  *)
(*                                                                         *)
(* mesh_status, mesh_active_sessions and the status line read the members  *)
(* with one call and then every hash with a call of its own, under one     *)
(* deadline; a hash that is gone and a call that fails are skipped alike.  *)
(* mesh_recent_activity, mesh_check_conflict and the count of events read  *)
(* a ring with a single LRANGE, so they are operators on the ring.         *)
(*                                                                         *)
(* A query writes nothing and none sees another: one of them is enough.    *)
(***************************************************************************)
EXTENDS SessionStore

CONSTANTS
  Windows,     \* max_age_seconds a caller may ask for; AgeCap is no filter
  Budget,      \* ticks until the deadline of a query's context
  Limit,       \* the 200 entries that every reader of a ring asks for
  Target,      \* the file each session works on, as its hook spells it
  EventAges    \* how old an event may be when the store is told of it

ASSUME WindowsAssumption == Windows \subseteq Age

ASSUME BudgetAssumption == Budget \in Nat

ASSUME LimitAssumption == Limit \in Nat \ {0}

ASSUME EventAgesAssumption == EventAges \in [Sids -> SUBSET Age]

VARIABLES
  query,       \* the listing under way
  fresh,       \* history: sessions that were fresh ever since it was asked
  vouched,     \* history: age of the latest event of a session, or probe of its process
  touch        \* history: one activity of the global ring, and its successors

queryVars == <<storeVars, query, fresh, vouched, touch>>

\* No age exceeds AgeCap, so that window lets every session pass.
NoFilter == AgeCap

Query == [asked : BOOLEAN, window : Age, took : 0 .. Budget + 1, clean : BOOLEAN,
          todo : SUBSET Sids, seen : [Sids -> Age \cup {Absent}]]

NoQuery == [asked |-> FALSE, window |-> NoFilter, took |-> 0, clean |-> TRUE,
            todo |-> {}, seen |-> [s \in Sids |-> Absent]]

Touch == [sid : Sids, age : Nat, newer : 0 .. Limit - 1]

NoTouch == [sid |-> Unset, age |-> 0, newer |-> 0]

QueryInit ==
  /\ StoreInit
  /\ query = NoQuery
  /\ fresh = {}
  /\ vouched = [s \in Sids |-> AgeCap]
  /\ touch = NoTouch

-----------------------------------------------------------------------------
(* The listing.                                                            *)

Late == query.took > Budget

\* Listed, and young enough to pass the filter even if the query takes as long
\* as it may.  Without a filter the timestamps do not matter.
FreshFor(s, window) ==
  /\ Listed(s)
  /\ \/ window = NoFilter
     \/ s \notin rehydrated /\ zset[s] + Budget <= window

\* ZRANGE.  When it fails the answer is empty and nothing else happens; only
\* mesh_status says that it is degraded then.
Ask(window) ==
  /\ ~query.asked
  /\ query' = [NoQuery EXCEPT !.asked = TRUE, !.window = window,
                              !.todo = {s \in Sids : Active(s)}]
  /\ fresh' = {s \in Sids : FreshFor(s, window)}
  /\ UNCHANGED <<storeVars, vouched, touch>>

\* HGETALL of one member; an empty hash is skipped.
GetSession(s) ==
  /\ s \in query.todo /\ ~Late
  /\ query' = [query EXCEPT !.todo = @ \ {s},
                            !.seen[s] = IF HashExists(s) THEN hash[s].lastSeen ELSE Absent]
  /\ UNCHANGED <<storeVars, fresh, vouched, touch>>

\* HGETALL fails, as every call does past the deadline: skipped as well.
GetSessionFails(s) ==
  /\ s \in query.todo
  /\ query' = [query EXCEPT !.todo = @ \ {s}, !.clean = FALSE]
  /\ UNCHANGED <<storeVars, fresh, vouched, touch>>

ReportedStrictly ==   \* bug: < for <=
  {s \in Sids : query.seen[s] # Absent /\ query.seen[s] < query.window}

\* The sessions of the answer; the clock is read after the last hash.
Reported == {s \in Sids : query.seen[s] # Absent /\ query.seen[s] <= query.window}

Answering == query.asked /\ query.todo = {}

Answer ==
  /\ Answering
  /\ query' = NoQuery
  /\ fresh' = {}
  /\ UNCHANGED <<storeVars, vouched, touch>>

-----------------------------------------------------------------------------
(* The readers of a ring.                                                  *)

\* LRANGE 0 limit-1.
RecentActivity(r) ==
  IF Len(r.items) <= Limit THEN r.items ELSE SubSeq(r.items, 1, Limit)

\* mesh_check_conflict: who touched the file; the caller is left out.
Conflicts(file, caller) ==
  LET acts == RecentActivity(global) IN
  {acts[i].sid : i \in {j \in DOMAIN acts : Target[acts[j].sid] = file}} \ {caller}

\* mesh_recent_activity, and the events of the last minutes that the status
\* line counts.
RecentEvents(r, minutes) ==
  LET acts == RecentActivity(r) IN
  {acts[i] : i \in {j \in DOMAIN acts : acts[j].age <= minutes}}

-----------------------------------------------------------------------------
(* The store goes on: the daemon's calls, and time.                        *)

\* An event that was handled, or the probe after which refreshLiveSessions touches a
\* session (the only caller of TouchSession), says that the session was there then.
Vouch(s, age) == vouched' = [vouched EXCEPT ![s] = IF age < @ THEN age ELSE @]

\* Any activity may be the one that is followed; later ones are counted until
\* they fill the ring or what a reader takes of it.
Follow(s, age) ==
  \/ touch' = [sid |-> s, age |-> age, newer |-> 0]
  \/ touch' = IF \/ touch = NoTouch
                 \/ touch.newer + 1 >= Limit
                 \/ GlobalRingSize > 0 /\ touch.newer + 1 >= GlobalRingSize
              THEN NoTouch ELSE [touch EXCEPT !.newer = @ + 1]

FreshStill == fresh' = {s \in fresh : FreshFor(s, query.window)'}

Write ==
  \/ \E s \in Sids : \E a \in EventAges[s] :
       /\ \/ \E c \in Cwds, h \in Hosts, p \in Pids : OpenSession(s, a, c, h, p)
          \/ TouchSession(s, a)
          \/ \E c \in Cwds : TouchOrCreateSession(s, a, c)
       /\ Vouch(s, a)
       /\ UNCHANGED touch
  \/ \E s \in Sids : \E a \in EventAges[s], c \in Cwds, existed \in BOOLEAN :
       PushActivity(s, a, c, existed) /\ Vouch(s, a) /\ Follow(s, a)
  \/ /\ \/ \E s \in Sids : CloseSession(s)
        \/ \E members \in SUBSET Sids : TouchActiveSessions(members, 0)
        \/ \E cutoff \in Age : SweepExpired(cutoff)
     /\ UNCHANGED <<vouched, touch>>

Serve == Write /\ UNCHANGED query /\ FreshStill

\* What the query holds is as old as the rest.
Pass ==
  /\ Elapse
  /\ vouched' = [s \in Sids |-> Older(vouched[s])]
  /\ touch' = IF touch = NoTouch \/ touch.age + 1 >= GlobalTTL
              THEN NoTouch ELSE [touch EXCEPT !.age = @ + 1]
  /\ query' = IF ~query.asked THEN query
              ELSE [query EXCEPT !.took = IF Late THEN @ ELSE @ + 1,
                                 !.seen = [s \in Sids |-> IF @[s] = Absent THEN Absent
                                                          ELSE Older(@[s])]]
  /\ FreshStill

QueryNext ==
  \/ \E w \in Windows : Ask(w)
  \/ \E s \in Sids : GetSession(s) \/ GetSessionFails(s)
  \/ Answer
  \/ Serve
  \/ Pass

QuerySpec == QueryInit /\ [][QueryNext]_queryVars

-----------------------------------------------------------------------------
(* Properties.                                                             *)

QueryTypeOK ==
  /\ StoreTypeOK
  /\ query \in Query
  /\ fresh \subseteq Sids
  /\ vouched \in [Sids -> Age]
  /\ touch \in Touch \cup {NoTouch}

\* A session that was listed all the time a query took, with a score young
\* enough for its filter, is in the answer unless a call failed or the deadline
\* passed (session.go:97-114, status.go:67-77): although it may have been
\* closed and reopened, swept and touched, and the filter looks at last_seen
\* and not at the score, when the reading is over.
FreshIsReported == Answering /\ query.clean /\ ~Late => fresh \subseteq Reported

\* Nobody is reported under max_age for whom, in that time, neither an event came
\* nor a probe found a process: not on account of a boot touch, which renews
\* scores without either, nor of a hash that was read early in a slow query or
\* outlived its session (status.go:74-76, session.go:116-141).
ReportedWasVouchedFor == Answering => \A s \in Reported : vouched[s] <= query.window

\* Until as many newer ones came as the ring keeps or a reader takes, or the
\* ring's own TTL passed, an activity is found: whoever asks about its file is told
\* of its session, and it is among the events of any window that covers it, behind
\* whatever late events were pushed (conflict.go:38-58, recent.go:50-62,
\* activity.go:61-65, 81).
TouchIsReported ==
  touch # NoTouch =>
    /\ \A caller \in Sids \ {touch.sid} :
         touch.sid \in Conflicts(Target[touch.sid], caller)
    /\ \A minutes \in Age :
         touch.age <= minutes => \E e \in RecentEvents(global, minutes) : e.sid = touch.sid

=============================================================================
