----------------------------- MODULE Suppressor -----------------------------
(***************************************************************************)
(* The event suppressor of internal/control/suppress.go and the goroutines *)
(* of the agent that share it: the main loop, whose RunOnce reloads the    *)
(* state file, asks Allow about everything it polled and saves the state   *)
(* again, and the deferred evaluation goroutine, which asks Allow about    *)
(* process events at any time.                                             *)
(*                                                                         *)
(* Time is counted in ticks and a bucket gains Rate tokens per tick.  A    *)
(* dedup key is a model value with the rule and the category it is built   *)
(* from; the agent uses no other categories than these three.              *)
(***************************************************************************)
EXTENDS Integers, FiniteSets

CONSTANTS
  Keys,        \* dedup keys
  Rules,       \* rule IDs
  RuleOf,      \* the rule of a key
  CategoryOf,  \* the category of a key
  Cooldown,    \* cooldownFor, in ticks
  Rate,        \* rate_per_sec; 0 turns the token bucket off
  Burst,       \* burst after normalisation (0 becomes the rate)
  EvictEvery,  \* allowed events between two sweeps (1000 in the code)
  Failures,    \* subset of {"crash", "save"} the environment may inject
  MaxStale,    \* bound: ticks a goroutine loses between time.Now and the lock
  MaxTime,     \* bound: the clock
  MaxEmits     \* bound: events of one key allowed in one tick

Categories == {"process", "file", "network"}

ASSUME SuppressorAssumption ==
  /\ RuleOf \in [Keys -> Rules]
  /\ CategoryOf \in [Keys -> Categories]
  /\ Cooldown \in [Categories -> Nat \ {0}]
  /\ Rate \in Nat
  /\ Burst \in Nat
  /\ EvictEvery \in Nat \ {0}
  /\ MaxTime \in Nat
  /\ MaxEmits \in Nat
  /\ MaxStale \in Nat
  /\ \E c \in Categories : MaxStale <= Cooldown[c]

VARIABLES
  clock,
  persist,       \* SuppressorStatePath is set
  lastSeen,      \* Suppressor.lastSeen; Never = no entry
  buckets,       \* Suppressor.buckets; NoBucket = no entry
  evictCounter,  \* Suppressor.evictCounter
  disk,          \* the state file; NoState when it is missing or not JSON
  asked,         \* asked[c]: the key caller c has asked Allow about
  now,           \* now[c]: the time that call has read; Never = no call
  loop,          \* where the main loop is
  image,         \* the state the main loop has read, or copied to write
  emits          \* history: events of key k allowed at time t

memory == <<lastSeen, buckets, evictCounter>>
suppressorVars == <<clock, persist, memory, disk, asked, now, loop, image, emits>>

Callers  == {"main", "deferred"}
Time     == 0 .. MaxTime
Never    == -1
NoBucket == [tokens |-> 0, last |-> Never]
Bucket   == [tokens : Int, last : Time \cup {Never}]
NoSeen   == [k \in Keys |-> Never]
NoState  == [ok |-> FALSE, seen |-> NoSeen, buckets |-> [r \in Rules |-> NoBucket]]
State    == [ok : BOOLEAN, seen : [Keys -> Time \cup {Never}], buckets : [Rules -> Bucket]]
AnyKey   == CHOOSE k \in Keys : TRUE
\* Both callers may have asked before the last event under the bound counted.
MostEmits == MaxEmits + 1
NoEmits  == [k \in Keys |-> [t \in Time |-> 0]]

CooldownFor(k) == Cooldown[CategoryOf[k]]
LongestCooldown ==
  CHOOSE m \in {Cooldown[c] : c \in Categories} : \A c \in Categories : Cooldown[c] <= m
-----------------------------------------------------------------------------
SuppressorInit ==
  /\ clock = 0
  /\ persist \in BOOLEAN
  /\ lastSeen = NoSeen
  /\ buckets = NoState.buckets
  /\ evictCounter = 0
  /\ disk = NoState
  /\ asked = [c \in Callers |-> AnyKey]
  /\ now = [c \in Callers |-> Never]
  /\ loop = "down"
  /\ image = NoState
  /\ emits = NoEmits

\* Time passes, but no goroutine waits for the lock longer than MaxStale.
Tick ==
  /\ clock < MaxTime
  /\ \A c \in Callers : now[c] # Never => clock + 1 - now[c] <= MaxStale
  /\ clock' = clock + 1
  /\ UNCHANGED <<persist, memory, disk, asked, now, loop, image, emits>>

\* RunOnce returns early when the collector's Snapshot fails.
Snapshot == loop' \in {"cycle", "idle"}

\* The process starts, or the ticker fires: RunOnce begins with Agent.Init and
\* LoadState, which reads and parses the file without the lock.
BeginCycle ==
  /\ loop \in {"down", "idle"}
  /\ IF persist /\ disk.ok THEN loop' = "install" /\ image' = disk
                           ELSE Snapshot /\ UNCHANGED image
  /\ UNCHANGED <<clock, persist, memory, disk, asked, now, emits>>

\* LoadState: the maps are replaced under the lock.
InstallState ==
  /\ loop = "install"
  /\ lastSeen' = image.seen
  /\ buckets' = image.buckets
  /\ Snapshot
  /\ image' = NoState
  /\ UNCHANGED <<clock, persist, evictCounter, disk, asked, now, emits>>

\* Allow, up to the lock.  Only the main loop evaluates files and connections;
\* processes reach Allow from the deferred goroutine as well.
Ask(c, k) ==
  /\ loop # "down"
  /\ c = "main" => loop = "cycle"
  /\ c = "deferred" => CategoryOf[k] = "process"
  /\ now[c] = Never
  /\ emits[k][clock] < MaxEmits
  /\ asked' = [asked EXCEPT ![c] = k]
  /\ now' = [now EXCEPT ![c] = clock]
  /\ UNCHANGED <<clock, persist, memory, disk, loop, image, emits>>

InCooldown(k, t) == lastSeen[k] # Never /\ t - lastSeen[k] < CooldownFor(k)

\* Faulty variant: the cap is missing.
RefillUncapped(r, t) ==
  IF buckets[r] = NoBucket THEN Burst
  ELSE buckets[r].tokens + (t - buckets[r].last) * Rate

\* consumeToken: the tokens of a rule at time t; elapsed is negative when a
\* goroutine that read an older time gets the lock second.
Refill(r, t) ==
  IF buckets[r] = NoBucket THEN Burst
  ELSE LET n == buckets[r].tokens + (t - buckets[r].last) * Rate
       IN  IF n > Burst THEN Burst ELSE n

SetBucket(r, n, t) == buckets' = [buckets EXCEPT ![r] = [tokens |-> n, last |-> t]]

\* Faulty variant: the sweep starts with an empty map.
EvictAll(seen, t) == NoSeen

\* Faulty variant: the counter starts again one sweep too late.
SweepLate == evictCounter >= EvictEvery

\* Allow sweeps lastSeen at every EvictEvery-th event it lets through.
Sweep == evictCounter + 1 >= EvictEvery

\* evictStale.
EvictStale(seen, t) ==
  [k \in Keys |-> IF seen[k] # Never /\ t - seen[k] > 2 * LongestCooldown
                    THEN Never ELSE seen[k]]

\* Allow, under the lock: suppressed by the cooldown, by the rate, or allowed.
Answer(c) ==
  LET k == asked[c]
      r == RuleOf[k]
      t == now[c]
      seen == [lastSeen EXCEPT ![k] = t]
  IN  /\ t # Never
      /\ now' = [now EXCEPT ![c] = Never]
      /\ asked' = [asked EXCEPT ![c] = AnyKey]
      /\ \/ InCooldown(k, t) /\ UNCHANGED <<memory, emits>>
         \/ /\ ~InCooldown(k, t)
            /\ Rate > 0
            /\ Refill(r, t) < 1
            /\ SetBucket(r, Refill(r, t), t)
            /\ UNCHANGED <<lastSeen, evictCounter, emits>>
         \/ /\ ~InCooldown(k, t)
            /\ IF Rate = 0 THEN UNCHANGED buckets
               ELSE Refill(r, t) >= 1 /\ SetBucket(r, Refill(r, t) - 1, t)
            /\ lastSeen' = IF Sweep THEN EvictStale(seen, t) ELSE seen
            /\ evictCounter' = IF Sweep THEN 0 ELSE evictCounter + 1
            /\ emits' = [emits EXCEPT ![k][t] = @ + 1]
      /\ UNCHANGED <<clock, persist, disk, loop, image>>

\* The end of RunOnce; SaveState copies the maps under the lock.  The buckets
\* are pointers, so only which rules have one is copied.
CopyState ==
  /\ loop = "cycle"
  /\ now["main"] = Never
  /\ IF persist THEN /\ loop' = "write"
                     /\ image' = [ok |-> TRUE, seen |-> lastSeen, buckets |-> buckets]
                ELSE loop' = "idle" /\ UNCHANGED image
  /\ UNCHANGED <<clock, persist, memory, disk, asked, now, emits>>

\* SaveState: Marshal reads the fields of the buckets without the lock, a data
\* race with consumeToken, so each field is as it was at the copy or as it is
\* now.  WriteFile may fail before or after it has truncated the file, and a
\* new history begins.
WriteState ==
  /\ loop = "write"
  /\ loop' = "idle"
  /\ image' = NoState
  /\ \/ /\ \E old, oldLast \in SUBSET Rules :
             disk' = [image EXCEPT !.buckets = [r \in Rules |->
               IF image.buckets[r] = NoBucket THEN NoBucket
               ELSE [tokens |-> IF r \in old THEN image.buckets[r].tokens
                                             ELSE buckets[r].tokens,
                     last   |-> IF r \in oldLast THEN image.buckets[r].last
                                                 ELSE buckets[r].last]]]
        /\ UNCHANGED emits
     \/ /\ "save" \in Failures
        /\ disk' \in {disk, NoState}
        /\ emits' = NoEmits
  /\ UNCHANGED <<clock, persist, memory, asked, now>>

\* The process ends: between two cycles, or killed anywhere, in WriteFile
\* included.  A kill, or an end without a state file, starts a new history.
Stop ==
  /\ loop # "down"
  /\ loop' = "down"
  /\ \/ loop = "idle" /\ UNCHANGED disk /\ emits' = (IF persist THEN emits ELSE NoEmits)
     \/ /\ "crash" \in Failures
        /\ UNCHANGED disk \/ (loop = "write" /\ disk' = NoState)
        /\ emits' = NoEmits
  /\ lastSeen' = NoSeen
  /\ buckets' = NoState.buckets
  /\ evictCounter' = 0
  /\ asked' = [c \in Callers |-> AnyKey]
  /\ now' = [c \in Callers |-> Never]
  /\ image' = NoState
  /\ UNCHANGED <<clock, persist>>

SuppressorNext ==
  \/ Tick
  \/ BeginCycle
  \/ InstallState
  \/ \E c \in Callers, k \in Keys : Ask(c, k)
  \/ \E c \in Callers : Answer(c)
  \/ CopyState
  \/ WriteState
  \/ Stop

SuppressorSpec == SuppressorInit /\ [][SuppressorNext]_suppressorVars
-----------------------------------------------------------------------------
SuppressorTypeOK ==
  /\ clock \in Time
  /\ persist \in BOOLEAN
  /\ lastSeen \in [Keys -> Time \cup {Never}]
  /\ buckets \in [Rules -> Bucket]
  /\ evictCounter \in 0 .. EvictEvery - 1
  /\ disk \in State
  /\ asked \in [Callers -> Keys]
  /\ now \in [Callers -> Time \cup {Never}]
  /\ loop \in {"down", "idle", "install", "cycle", "write"}
  /\ image \in State
  /\ emits \in [Keys -> [Time -> 0 .. MostEmits]]

OneEmitPerCooldown(k) ==
  \A s, t \in Time :
    emits[k][s] > 0 /\ emits[k][t] > 0 /\ s < t => t - s >= CooldownFor(k)
OneAtATime(k) == \A t \in Time : emits[k][t] <= 1

\* The events of rule r allowed so far, numbered within their tick.
Emitted(r) ==
  {e \in Keys \X Time \X (1 .. MostEmits) :
     RuleOf[e[1]] = r /\ e[3] <= emits[e[1]][e[2]]}

\* What only the main loop emits is in every state it reloads.
Kept(k) == ~persist \/ CategoryOf[k] # "process"

(***************************************************************************)
(* Suppressor.Allow lets one event of a key through per cooldown, whichever *)
(* goroutine asks, also when a goroutine comes late to the lock and after  *)
(* sweeps of old entries.  Without a state file this holds for the life of *)
(* the process; with one, for files and connections, as long as the file   *)
(* is written: over clean restarts, until a kill or a failed SaveState.    *)
(***************************************************************************)
CooldownRespected == \A k \in Keys : Kept(k) => OneEmitPerCooldown(k) /\ OneAtATime(k)

(***************************************************************************)
(* The token bucket of consumeToken: the events of a rule from any one to  *)
(* any later one, both included, are at most the burst and what the rate   *)
(* adds in between.                                                        *)
(***************************************************************************)
RateLimited ==
  Rate > 0 =>
    \A r \in Rules :
      (\A k \in Keys : RuleOf[k] = r => Kept(k)) =>
        LET all == Emitted(r)
        IN  \A first, last \in all :
              first[2] <= last[2] =>
                Cardinality({e \in all : e[2] \in first[2] .. last[2]})
                  <= Burst + Rate * (last[2] - first[2])

(***************************************************************************)
(* suppress.go: "Cooldown: at most one emit per process/file/network       *)
(* Cooldown window for the same dedup key."                                *)
(***************************************************************************)
CooldownForEveryKey == \A k \in Keys : OneEmitPerCooldown(k) /\ OneAtATime(k)
=============================================================================
