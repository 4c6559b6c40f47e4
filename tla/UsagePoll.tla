------------------------------ MODULE UsagePoll ------------------------------
(***************************************************************************)
(* The plan usage: every daemon polls it (main.go runUsagePoll) and writes *)
(* it to keys of Redis that all hosts share, from the usage API if that is *)
(* configured and answers, else from this host's transcripts; a status     *)
(* line reads the keys back one by one (internal/statusline).              *)
(*                                                                         *)
(* The two sources write two sets of keys: both write the percentages and  *)
(* the source, only the local one tokens (and limits), only the API's the  *)
(* end of the window; what a poll does not write stays until it expires.   *)
(* "tokens5h" stands for the four keys of the local poll alone, "resetsAt" *)
(* for the API's two; the plan, written by both and never shown, is left   *)
(* out.  Of a number the model keeps where it came from and how old it is. *)
(* One unit of time is half a minute.                                      *)
(***************************************************************************)
EXTENDS Integers

CONSTANTS
  Pollers,      \* the daemons, one on each host
  WithApi,      \* those with an organisation and a cookie
  Interval,     \* the period of the ticker
  TTL,          \* the TTL of the keys
  MaxPoll,      \* bound: how long a poll takes
  MaxWrite,     \* how long its write to Redis takes at most: a timeout of 2 seconds
  Nothing       \* a key that is not there, a GET without an answer

Sources == {"anthropic", "local"}
Shared == {"pct5h", "pctWeek", "source"}

\* The keys that the pipeline of a source sets.
KeysOf(by) == Shared \cup (IF by = "local" THEN {"tokens5h"} ELSE {"resetsAt"})

Keys == UNION {KeysOf(by) : by \in Sources}

\* Those that ReadUsage gets, in this order, and those it can do without.
ReadKeys == Shared \cup {"tokens5h"}
BestEffort == {"tokens5h", "source"}

\* What a key holds: where a number came from, how old it is, and its TTL.
Written == [by : Sources, age : Nat, ttl : 1 .. TTL]

ASSUME UsageAssumption ==
  /\ WithApi \subseteq Pollers
  /\ Interval \in Nat \ {0} /\ TTL \in Nat \ {0} /\ MaxPoll \in Nat \ {0}
  /\ MaxWrite \in Nat
  /\ Nothing \notin Written

VARIABLES
  keys,         \* the keys in Redis
  api,          \* would the usage API answer a request with 200 now
  poller,       \* each daemon's program counter, poll in hand and ticker
  fresh,        \* history: the daemons whose last poll has been written
  reader,       \* a status line: its program counter and what it has read
  blurred       \* history: what it reads has changed since, or a GET has failed

usageVars == <<keys, api, poller, fresh, reader, blurred>>

NoTimer == -1

\* pc "fetch" and "scan" collect, "write" has collected `by'; took is how long
\* the poll has been due or going on, age how old what it has collected is, and
\* due whether the ticker has ticked since it was begun.
Booting == [pc |-> "wait", by |-> Nothing, age |-> 0, took |-> 0,
            timer |-> NoTimer, due |-> TRUE]

NotReading == [pc |-> "off", pct5h |-> Nothing, pctWeek |-> Nothing,
               tokens5h |-> Nothing, source |-> Nothing]

UsageInit ==
  /\ keys = [k \in Keys |-> Nothing]
  /\ api \in BOOLEAN
  /\ poller = [p \in Pollers |-> Booting]
  /\ fresh = {}
  /\ reader = NotReading /\ blurred = FALSE

-----------------------------------------------------------------------------
(* A daemon's poll.                                                        *)

ByPoller == UNCHANGED <<api, reader>>

\* The first poll comes before the ticker is made; a tick that comes while a poll
\* is going on waits, a second one is dropped.
Poll(p) ==
  /\ poller[p].pc = "wait" /\ poller[p].due
  /\ poller' = [poller EXCEPT ![p].pc = IF p \in WithApi THEN "fetch" ELSE "scan",
                              ![p].due = FALSE]
  /\ UNCHANGED <<keys, fresh, blurred>> /\ ByPoller

Collected(p, source) ==
  poller' = [poller EXCEPT ![p].pc = "write", ![p].by = source, ![p].age = 0]

FetchAndScan(p) ==   \* bug: no return after the write of the API's answer
  /\ poller[p].pc = "fetch"
  /\ poller' = [poller EXCEPT ![p].pc = "scan"]
  /\ UNCHANGED <<keys, fresh, blurred>> /\ ByPoller

\* FetchUsage: on any error the poll falls through to the transcripts.
Fetch(p) ==
  /\ poller[p].pc = "fetch"
  /\ IF api THEN Collected(p, "anthropic") ELSE poller' = [poller EXCEPT ![p].pc = "scan"]
  /\ UNCHANGED <<keys, fresh, blurred>> /\ ByPoller

Scan(p) ==
  /\ poller[p].pc = "scan"
  /\ Collected(p, "local")
  /\ UNCHANGED <<keys, fresh, blurred>> /\ ByPoller

\* The poll is over; the ticker is made after the first one.
PollOver(p) ==
  poller' = [poller EXCEPT ![p] =
    [Booting EXCEPT !.timer = IF poller[p].timer = NoTimer THEN Interval ELSE poller[p].timer,
                    !.due = poller[p].due]]

NewKeys(by, age, ttl) ==
  [k \in Keys |-> IF k \in KeysOf(by) THEN [by |-> by, age |-> age, ttl |-> ttl] ELSE keys[k]]

SetKeysButSource(by, age) ==   \* bug: the API's pipeline does not write the source
  keys' = IF by = "local" THEN NewKeys(by, age, TTL)
          ELSE [NewKeys(by, age, TTL) EXCEPT !["source"] = keys["source"]]

SetKeysForever(by, age) ==   \* bug: without a TTL
  keys' = NewKeys(by, age, 0)

SetKeysWithInterval(by, age) ==   \* bug: they live as long as the ticker's period
  keys' = NewKeys(by, age, Interval)

SetKeysKeepTTL(by, age) ==   \* bug: a key that is there keeps its value
  keys' = [k \in Keys |-> IF k \in KeysOf(by) /\ keys[k] # Nothing
                          THEN [keys[k] EXCEPT !.ttl = TTL] ELSE NewKeys(by, age, TTL)[k]]

\* What the other source alone writes is left as it is.
SetKeys(by, age) == keys' = NewKeys(by, age, TTL)

\* The pipeline of SETs; whether its reply arrives makes no difference.
Write(p) ==
  /\ poller[p].pc = "write"
  /\ SetKeys(poller[p].by, poller[p].age)
  /\ fresh' = fresh \cup {p}
  /\ blurred' = (blurred \/ reader.pc # "off")
  /\ PollOver(p) /\ ByPoller

\* The projects directory cannot be read, or Redis does not answer in time: the
\* keys stay as they are.
PollFails(p) ==
  /\ poller[p].pc \in {"scan", "write"}
  /\ fresh' = fresh \ {p}
  /\ PollOver(p)
  /\ UNCHANGED <<keys, blurred>> /\ ByPoller

\* The daemon stops and is started again.
Restart(p) ==
  /\ poller' = [poller EXCEPT ![p] = Booting]
  /\ fresh' = fresh \ {p}
  /\ UNCHANGED <<keys, blurred>> /\ ByPoller

PollerStep(p) == Poll(p) \/ Fetch(p) \/ Scan(p) \/ Write(p)

\* A cookie expires or is renewed, the network comes and goes.  It may do so
\* between two daemons' requests, so that one is answered and the other is not.
ApiChanges ==
  /\ api' = ~api
  /\ UNCHANGED <<keys, poller, fresh, reader, blurred>>

-----------------------------------------------------------------------------
(* A status line: ReadUsage and usagePart.                                 *)

ByReader == UNCHANGED <<keys, api, poller, fresh>>

StartReading ==
  /\ reader.pc = "off"
  /\ reader' = [NotReading EXCEPT !.pc = "pct5h"]
  /\ blurred' = FALSE
  /\ ByReader

NextKey(k) ==
  CASE k = "pct5h" -> "pctWeek" [] k = "pctWeek" -> "tokens5h"
    [] k = "tokens5h" -> "source" [] k = "source" -> "shown"

Get(k) ==
  /\ reader.pc = k /\ keys[k] # Nothing
  /\ reader' = [reader EXCEPT ![k] = keys[k].by, !.pc = NextKey(k)]
  /\ UNCHANGED blurred /\ ByReader

\* The key is not there, or the budget is spent: without a percentage nothing is
\* shown; without tokens or source the percentages are shown all the same.
GetFails(k) ==
  /\ reader.pc = k
  /\ reader' = IF k \in BestEffort THEN [reader EXCEPT ![k] = Nothing, !.pc = NextKey(k)]
               ELSE NotReading
  /\ blurred' = (k \in BestEffort /\ (blurred \/ keys[k] # Nothing))
  /\ ByReader

Exit ==
  /\ reader.pc = "shown"
  /\ reader' = NotReading /\ blurred' = FALSE
  /\ ByReader

ReaderStep == StartReading \/ Exit \/ \E k \in ReadKeys : Get(k) \/ GetFails(k)

ShownExactSwapped == reader.source = "local"   \* bug

\* No "~" in front of the percentages.
ShownExact == reader.source # "local"

-----------------------------------------------------------------------------
(* Time passes.  A poll is over at most MaxPoll after it was due, its      *)
(* write at most MaxWrite after it was begun, and a status line reads      *)
(* across one tick at most.                                                *)

AgeKey(v) ==
  IF v = Nothing \/ v.ttl = 1 THEN Nothing ELSE [v EXCEPT !.ttl = @ - 1, !.age = @ + 1]

Busy(q) == q.due \/ q.pc # "wait"

AgePoller(q) ==
  LET tick == q.timer = 1
  IN  [q EXCEPT !.timer = IF tick THEN Interval ELSE IF @ = NoTimer THEN @ ELSE @ - 1,
                !.due = @ \/ tick,
                !.took = IF Busy(q) THEN @ + 1 ELSE @,
                !.age = IF q.pc = "write" THEN @ + 1 ELSE @]

Tick ==
  /\ \A p \in Pollers :
       poller[p].took < MaxPoll /\ (poller[p].pc = "write" => poller[p].age < MaxWrite)
  /\ reader.pc = "off" \/ ~blurred
  /\ keys' = [k \in Keys |-> AgeKey(keys[k])]
  /\ poller' = [p \in Pollers |-> AgePoller(poller[p])]
  /\ blurred' = (reader.pc # "off")
  /\ UNCHANGED <<api, fresh, reader>>

UsageNext ==
  \/ \E p \in Pollers : PollerStep(p) \/ PollFails(p) \/ Restart(p)
  \/ ApiChanges \/ ReaderStep \/ Tick

UsageSpec == UsageInit /\ [][UsageNext]_usageVars

\* The goroutines and the status line are scheduled, and time does not stop: no
\* infinite number of restarts or reads fits between two ticks.
UsageFairSpec ==
  /\ UsageSpec
  /\ \A p \in Pollers : WF_usageVars(PollerStep(p))
  /\ WF_usageVars(ReaderStep) /\ []<><<Tick>>_usageVars

-----------------------------------------------------------------------------
(* Properties.                                                             *)

PollerState ==
  [pc : {"wait", "fetch", "scan", "write"}, by : Sources \cup {Nothing}, age : Nat,
   took : 0 .. MaxPoll, timer : 1 .. Interval \cup {NoTimer}, due : BOOLEAN]
ReaderState ==
  [pc : ReadKeys \cup {"off", "shown"}, pct5h : Sources \cup {Nothing},
   pctWeek : Sources \cup {Nothing}, tokens5h : Sources \cup {Nothing},
   source : Sources \cup {Nothing}]

\* Every variable has its type (main.go:253-394, statusline.go:53-102).
UsageTypeOK ==
  /\ keys \in [Keys -> Written \cup {Nothing}]
  /\ api \in BOOLEAN /\ fresh \subseteq Pollers /\ blurred \in BOOLEAN
  /\ poller \in [Pollers -> PollerState]
  /\ reader \in ReaderState

\* What is left of a poll of the other source: nothing, or what expires no later
\* than the source that would belie it.
LeftOver(k) == keys[k] # Nothing => keys[k].ttl <= keys["source"].ttl

\* The two sources write different sets of keys, daemons of several hosts write
\* the same ones, and a poll clears nothing that the one before it has left.  Still,
\* whenever the source is there, every key of the pipeline it names is there too
\* and of that same poll, however the sources took turns; what the other source
\* has left behind never outlives it (main.go:314-320, 372-380).
SourceNamesItsPoll ==
  IF keys["source"] = Nothing THEN \A k \in Keys : keys[k] = Nothing
  ELSE \A k \in Keys : IF k \in KeysOf(keys["source"].by) THEN keys[k] = keys["source"]
                       ELSE LeftOver(k)

\* A daemon whose polls work keeps its numbers in Redis: the keys do not expire
\* before its next poll has renewed them, though a poll takes its time and the
\* ticker was made after the first one (main.go:253-270, 302).
WorkingPollIsVisible == \A p \in fresh, k \in Shared : keys[k] # Nothing

\* Nothing that is older than the TTL and the duration of a write can be read,
\* whoever stopped polling when: age and remaining TTL of a key never add up to
\* more (main.go:302, 311, 369).
NothingStale ==
  \A k \in Keys : keys[k] # Nothing => keys[k].age + keys[k].ttl <= MaxWrite + TTL

\* A status line whose reads no write, no expiry and no failure comes between
\* shows the two percentages of one poll, marked with "~" exactly if they are
\* local, and local ones come with their tokens (statusline.go:81-93, 210-228).
SharpIsRight ==
  reader.pc = "shown" /\ ~blurred =>
    /\ reader.pct5h = reader.pctWeek
    /\ ShownExact <=> reader.pct5h = "anthropic"
    /\ ~ShownExact => reader.tokens5h = "local"

\* Why NothingStale holds: what is written was collected just before.
PollsAreYoung ==
  \A p \in Pollers : poller[p].pc = "write" =>
    poller[p].by \in Sources /\ poller[p].age <= MaxWrite

\* Why WorkingPollIsVisible holds: how long ago a daemon that works has written
\* at most, if its poll is due or going on and if it is not.
SinceWrite(q) == IF Busy(q) THEN Interval + q.took ELSE Interval - q.timer

KeysOutlastPolls ==
  \A p \in fresh, k \in Shared :
    /\ poller[p].timer # NoTimer
    /\ keys[k] # Nothing /\ keys[k].ttl + SinceWrite(poller[p]) >= TTL

\* Why SharpIsRight holds: what was read is what is still there.
Read(k) == reader[k] = IF keys[k] = Nothing THEN Nothing ELSE keys[k].by
ReadsAreSharp ==
  ~blurred =>
    /\ reader.pc \in {"pctWeek", "tokens5h", "source", "shown"} =>
         Read("pct5h") /\ keys["pct5h"] # Nothing
    /\ reader.pc \in {"tokens5h", "source", "shown"} => Read("pctWeek")
    /\ reader.pc \in {"source", "shown"} => Read("tokens5h")
    /\ reader.pc = "shown" => Read("source")

\* The inductive invariant.  That the keys outlive the daemon's polls is up to the
\* three numbers in main.go:259, 302 and the time a poll takes.
UsageInv ==
  /\ UsageTypeOK /\ PollsAreYoung
  /\ SourceNamesItsPoll /\ NothingStale /\ ReadsAreSharp
  /\ Interval + MaxPoll < TTL => KeysOutlastPolls

\* Where every daemon may ask the API and it answers again for good,
\* what is shown comes from it in the end, and the local keys that no API poll
\* overwrites are gone, however many polls failed or fell back before and whichever
\* daemons are restarted (main.go:304-341).
ApiWins ==
  WithApi = Pollers /\ <>[]api =>
    <>[](\A k \in Keys : keys[k] # Nothing => keys[k].by = "anthropic")

-----------------------------------------------------------------------------
(* The keys together are one notice on a board.                            *)

\* What a status line shows whose reads nothing has come between.
Shown ==
  IF reader.pc = "shown" /\ ~blurred
  THEN [pct5h |-> reader.pct5h, pctWeek |-> reader.pctWeek, exact |-> ShownExact]
  ELSE Nothing

Board == INSTANCE UsageBoard
           WITH Exact <- "anthropic", MaxAge <- MaxWrite, board <- keys["source"], shown <- Shown

\* The keys behave like one register that is written and read as a whole: no
\* step of a poll, of an expiry or of a failed GET shows that they are several,
\* that they have two sets of writers and are read in turn (main.go:314-320,
\* 372-380, statusline.go:81-93).
ImplementsBoard == Board!BoardSpec

=============================================================================
