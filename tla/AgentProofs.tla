---------------------------- MODULE AgentProofs ----------------------------
(***************************************************************************)
(* What the goroutines of the agent do together, for every value of the    *)
(* constants of the two modules that model them.                           *)
(*                                                                         *)
(* The suppressor they share: one event of a key per cooldown, and no more *)
(* events of a rule than its burst and rate allow, for every set of keys   *)
(* and rules, every cooldown, rate, burst and period of the sweep, and     *)
(* every length of the history.                                            *)
(*                                                                         *)
(* The channels between them: nothing that enters them is lost or doubled, *)
(* and an orderly exit leaves nothing behind, for every capacity of the    *)
(* three channels and every number of events, responses and shutdown       *)
(* requests.                                                               *)
(***************************************************************************)
EXTENDS Suppressor, AgentPipeline, FiniteSetTheorems, SequenceTheorems, TLAPS

Stamps == [Keys -> Time \cup {Never}]

\* A state as LoadState and SaveState handle it.
IsState(s) ==
  /\ s = [ok |-> s.ok, seen |-> s.seen, buckets |-> s.buckets]
  /\ s.ok \in BOOLEAN
  /\ s.seen \in Stamps
  /\ ~s.ok => s.seen = NoSeen

SupType ==
  /\ clock \in Time
  /\ persist \in BOOLEAN
  /\ lastSeen \in Stamps
  /\ IsState(disk)
  /\ IsState(image)
  /\ asked = [c \in Callers |-> asked[c]]
  /\ now \in [Callers -> Time \cup {Never}]
  /\ loop \in {"down", "idle", "install", "cycle", "write"}
  /\ emits \in [Keys -> [Time -> Nat]]

\* What a goroutine that has read the time, and waits for the lock, may ask.
AskInv ==
  \A c \in Callers : now[c] # Never =>
    /\ asked[c] \in Keys
    /\ now[c] <= clock
    /\ clock - now[c] <= MaxStale
    /\ loop # "down"
    /\ c = "main" => loop = "cycle"
    /\ c = "deferred" => CategoryOf[asked[c]] = "process"

\* No call under way, and none to come, is within the cooldown of time t.
Old(k, t) ==
  /\ clock - t >= CooldownFor(k)
  /\ \A c \in Callers : now[c] # Never => now[c] - t >= CooldownFor(k)

\* The time stamps in seen keep every event of key k from being repeated.
Covers(seen, k) == \A t \in Time : emits[k][t] > 0 => t <= seen[k] \/ Old(k, t)

\* Which time stamps do so as the main loop reads, copies and writes them.
CoverInv(k) ==
  /\ ~persist => Covers(lastSeen, k)
  /\ loop \in {"idle", "cycle", "write"} => Covers(lastSeen, k)
  /\ persist /\ loop \in {"down", "idle", "install"} => Covers(disk.seen, k)
  /\ loop \in {"install", "write"} => Covers(image.seen, k)

LoopInv ==
  /\ loop = "down" => lastSeen = NoSeen
  /\ loop \in {"install", "write"} => persist
  /\ loop = "write" => image.ok

Spaced(k) == OneEmitPerCooldown(k) /\ OneAtATime(k)

SupInv ==
  /\ SupType
  /\ AskInv
  /\ LoopInv
  /\ \A k \in Keys : Kept(k) => CoverInv(k) /\ Spaced(k)
-----------------------------------------------------------------------------
LEMMA Cooldowns ==
  /\ LongestCooldown \in Nat
  /\ MaxStale <= LongestCooldown
  /\ \A k \in Keys : CooldownFor(k) \in Nat \ {0} /\ CooldownFor(k) <= LongestCooldown
<1> DEFINE M == {Cooldown[c] : c \in Categories}
           a == Cooldown["process"]
           b == Cooldown["file"]
           d == Cooldown["network"]
<1>1. a \in Nat \ {0} /\ b \in Nat \ {0} /\ d \in Nat \ {0} /\ M = {a, b, d}
  BY ZenonT(30), SuppressorAssumption DEF Categories
<1>2. \E m \in M : \A c \in Categories : Cooldown[c] <= m
  <2> HIDE DEF a, b, d
  <2>1. \E m \in {a, b, d} : a <= m /\ b <= m /\ d <= m
    BY <1>1
  <2>2. \A c \in Categories : Cooldown[c] \in {a, b, d}
    BY Zenon DEF Categories, a, b, d
  <2> QED BY Zenon, <1>1, <2>1, <2>2
<1>3. LongestCooldown \in M /\ \A c \in Categories : Cooldown[c] <= LongestCooldown
  BY Zenon, <1>2 DEF LongestCooldown
<1>4. LongestCooldown \in Nat
  BY Zenon, <1>1, <1>3
<1>5. MaxStale <= LongestCooldown
  <2>1. PICK c \in Categories : MaxStale <= Cooldown[c]
    BY Zenon, SuppressorAssumption
  <2>2. MaxStale \in Nat /\ Cooldown[c] \in Nat /\ Cooldown[c] <= LongestCooldown
    BY Zenon, <1>3, SuppressorAssumption
  <2> QED BY <1>4, <2>1, <2>2
<1>6. \A k \in Keys : CooldownFor(k) \in Nat \ {0} /\ CooldownFor(k) <= LongestCooldown
  BY Zenon, <1>3, SuppressorAssumption DEF CooldownFor
<1> QED BY Zenon, <1>4, <1>5, <1>6

LEMMA Times == Never = -1 /\ Never \notin Time /\ Time \subseteq Nat
BY SuppressorAssumption DEF Never, Time

LEMMA NoStateIsState == IsState(NoState) /\ NoState.seen = NoSeen /\ NoSeen \in Stamps
BY Zenon DEF IsState, NoState, NoSeen, Stamps

LEMMA NothingEmitted ==
  /\ NoEmits \in [Keys -> [Time -> Nat]]
  /\ \A k \in Keys, t \in Time : NoEmits[k][t] = 0
BY Zenon DEF NoEmits
-----------------------------------------------------------------------------
LEMMA SupInit == SuppressorInit => SupInv
<1> SUFFICES ASSUME SuppressorInit
             PROVE  SupInv
  BY Zenon
<1>1. SupType
  <2>1. clock \in Time
    BY SuppressorAssumption DEF SuppressorInit, Time
  <2>2. lastSeen \in Stamps /\ IsState(disk) /\ IsState(image)
    BY Zenon, NoStateIsState DEF SuppressorInit
  <2> QED BY Zenon, <2>1, <2>2, NothingEmitted DEF SuppressorInit, SupType
<1>2. AskInv /\ LoopInv
  BY Zenon DEF SuppressorInit, AskInv, LoopInv
<1>3. \A k \in Keys : CoverInv(k) /\ Spaced(k)
  <2>1. \A k \in Keys, t \in Time : emits[k][t] = 0
    BY Zenon, NothingEmitted DEF SuppressorInit
  <2> QED BY <2>1 DEF CoverInv, Covers, Spaced, OneEmitPerCooldown, OneAtATime
<1> QED BY Zenon, <1>1, <1>2, <1>3 DEF SupInv

\* Nothing that is old becomes young again.
LEMMA OldStays ==
  ASSUME SupType, [SuppressorNext]_suppressorVars
  PROVE  \A k \in Keys, t \in Time : Old(k, t) => Old(k, t)'
<1> SUFFICES ASSUME NEW k \in Keys, NEW t \in Time, Old(k, t)
             PROVE  Old(k, t)'
  BY Zenon
<1>1. clock' \in {clock, clock + 1}
  BY Zenon DEF SuppressorNext, suppressorVars, memory, Tick, BeginCycle, InstallState, Ask, Answer, CopyState, WriteState, Stop
<1>2. \A c \in Callers : now'[c] \in {now[c], clock, Never}
  <2>1. ASSUME NEW c \in Callers, NEW x \in Keys, Ask(c, x)
        PROVE  \A d \in Callers : now'[d] \in {now[d], clock, Never}
    BY Zenon, <2>1 DEF Ask, SupType
  <2>2. ASSUME NEW c \in Callers, Answer(c)
        PROVE  \A d \in Callers : now'[d] \in {now[d], clock, Never}
    BY Zenon, <2>2 DEF Answer, SupType
  <2>3. CASE Stop
    BY Zenon, <2>3 DEF Stop
  <2>4. CASE Tick \/ BeginCycle \/ InstallState \/ CopyState \/ WriteState \/ UNCHANGED suppressorVars
    BY Zenon, <2>4 DEF Tick, BeginCycle, InstallState, CopyState, WriteState, suppressorVars
  <2> QED BY Zenon, <2>1, <2>2, <2>3, <2>4 DEF SuppressorNext
<1>3. clock \in Nat /\ t \in Nat /\ CooldownFor(k) \in Nat
  BY Zenon, Cooldowns, Times DEF SupType
<1>4. clock' - t >= CooldownFor(k) /\ clock - t >= CooldownFor(k)
  BY <1>1, <1>3 DEF Old
<1> QED BY Zenon, <1>2, <1>4 DEF Old, CooldownFor
-----------------------------------------------------------------------------
\* What Allow does under the lock.
LEMMA AnswerShape ==
  ASSUME SupType, AskInv, NEW c \in Callers, Answer(c)
  PROVE  LET k == asked[c]
             t == now[c]
             seen == [lastSeen EXCEPT ![k] = t]
         IN  /\ k \in Keys /\ t \in Time
             /\ now' = [now EXCEPT ![c] = Never]
             /\ asked' = [asked EXCEPT ![c] = AnyKey]
             /\ UNCHANGED <<clock, persist, disk, loop, image>>
             /\ \/ UNCHANGED <<lastSeen, emits>>
                \/ /\ ~InCooldown(k, t)
                   /\ lastSeen' \in {seen, EvictStale(seen, t)}
                   /\ emits' = [emits EXCEPT ![k][t] = @ + 1]
<1>1. now[c] # Never /\ asked[c] \in Keys /\ now[c] \in Time
  BY Zenon DEF Answer, AskInv, SupType
<1> QED BY Zenon, <1>1 DEF Answer, memory

\* The sweep keeps the time stamp of the event just allowed, and drops only
\* stamps that are out of every cooldown.
LEMMA SweepShape ==
  ASSUME NEW seen \in Stamps, NEW t \in Time, NEW x \in Keys
  PROVE  /\ EvictStale(seen, t) \in Stamps
         /\ \/ EvictStale(seen, t)[x] = seen[x]
            \/ seen[x] # Never /\ t - seen[x] > 2 * LongestCooldown
         /\ seen[x] = t => EvictStale(seen, t)[x] = t
<1>1. seen[x] \in Time \cup {Never} /\ t \in Nat /\ t # Never
  BY Zenon, Times DEF Stamps
<1>2. LongestCooldown \in Nat
  BY Zenon, Cooldowns
<1>3. EvictStale(seen, t) \in Stamps
  BY Zenon DEF EvictStale, Stamps
<1>4. EvictStale(seen, t)[x] = IF seen[x] # Never /\ t - seen[x] > 2 * LongestCooldown
                                 THEN Never ELSE seen[x]
  BY Zenon DEF EvictStale
<1>5. seen[x] = t => ~(t - seen[x] > 2 * LongestCooldown)
  BY <1>1, <1>2
<1> QED BY Zenon, <1>3, <1>4, <1>5

LEMMA AnswerType ==
  ASSUME SupType, AskInv, NEW c \in Callers, Answer(c)
  PROVE  lastSeen' \in Stamps /\ emits' \in [Keys -> [Time -> Nat]]
<1> DEFINE k == asked[c]
           t == now[c]
           seen == [lastSeen EXCEPT ![k] = t]
<1>1. /\ k \in Keys /\ t \in Time
      /\ \/ UNCHANGED <<lastSeen, emits>>
         \/ /\ lastSeen' \in {seen, EvictStale(seen, t)}
            /\ emits' = [emits EXCEPT ![k][t] = @ + 1]
  BY Zenon, AnswerShape
<1>2. seen \in Stamps
  BY Zenon, <1>1 DEF Stamps, SupType
<1> HIDE DEF k, t, seen
<1>3. EvictStale(seen, t) \in Stamps
  BY Zenon, <1>1, <1>2 DEF EvictStale, Stamps
<1>4. [emits EXCEPT ![k][t] = @ + 1] \in [Keys -> [Time -> Nat]]
  <2>1. [emits[k] EXCEPT ![t] = @ + 1] \in [Time -> Nat]
    BY <1>1 DEF SupType
  <2> QED BY Zenon, <1>1, <2>1 DEF SupType
<1> QED BY Zenon, <1>1, <1>2, <1>3, <1>4 DEF SupType

LEMMA SupTypeNext ==
  ASSUME SupType, AskInv, [SuppressorNext]_suppressorVars
  PROVE  SupType'
<1> USE DEF SupType
<1>1. CASE Tick
  <2>1. clock' \in Time
    BY <1>1, SuppressorAssumption DEF Tick, Time
  <2> QED BY Zenon, <1>1, <2>1 DEF Tick, memory
<1>2. CASE BeginCycle
  BY Zenon, <1>2 DEF BeginCycle, Snapshot, memory
<1>3. CASE InstallState
  <2>1. lastSeen' \in Stamps /\ IsState(image')
    BY Zenon, <1>3, NoStateIsState DEF InstallState, IsState
  <2> QED BY Zenon, <1>3, <2>1 DEF InstallState, Snapshot
<1>4. ASSUME NEW c \in Callers, NEW k \in Keys, Ask(c, k)
      PROVE  SupType'
  BY Zenon, <1>4 DEF Ask, memory
<1>5. ASSUME NEW c \in Callers, Answer(c)
      PROVE  SupType'
  <2>1. /\ now' = [now EXCEPT ![c] = Never]
        /\ asked' = [asked EXCEPT ![c] = AnyKey]
        /\ UNCHANGED <<clock, persist, disk, loop, image>>
    BY Zenon, <1>5, AnswerShape
  <2>2. lastSeen' \in Stamps /\ emits' \in [Keys -> [Time -> Nat]]
    BY Zenon, <1>5, AnswerType
  <2> QED BY Zenon, <2>1, <2>2
<1>6. CASE CopyState
  <2>1. IsState(image')
    <3>1. CASE UNCHANGED image
      BY Zenon, <3>1
    <3>2. CASE image' = [ok |-> TRUE, seen |-> lastSeen, buckets |-> buckets]
      <4>1. image'.ok = TRUE /\ image'.seen = lastSeen /\ image'.buckets = buckets
        BY Zenon, <3>2
      <4> QED BY Zenon, <3>2, <4>1 DEF IsState
    <3> QED BY Zenon, <1>6, <3>1, <3>2 DEF CopyState
  <2> QED BY Zenon, <1>6, <2>1 DEF CopyState, memory
<1>7. CASE WriteState
  <2>1. IsState(disk') /\ IsState(image')
    <3>1. CASE disk' \in {disk, NoState}
      BY ZenonT(30), <1>7, <3>1, NoStateIsState DEF WriteState
    <3>2. ASSUME NEW bs, disk' = [image EXCEPT !.buckets = bs]
          PROVE  IsState(disk')
      <4>1. disk' = [ok |-> image.ok, seen |-> image.seen, buckets |-> bs]
        BY Zenon, <3>2 DEF IsState
      <4> QED BY ZenonT(30), <4>1 DEF IsState
    <3> QED BY Zenon, <1>7, <3>1, <3>2, NoStateIsState DEF WriteState
  <2> QED BY ZenonT(30), <1>7, <2>1, NothingEmitted DEF WriteState, memory
<1>8. CASE Stop
  <2>1. IsState(disk') /\ IsState(image') /\ lastSeen' \in Stamps
    BY Zenon, <1>8, NoStateIsState DEF Stop
  <2> QED BY Zenon, <1>8, <2>1, NothingEmitted DEF Stop
<1>9. CASE UNCHANGED suppressorVars
  BY Zenon, <1>9 DEF suppressorVars, memory
<1> QED BY Zenon, <1>1, <1>2, <1>3, <1>4, <1>5, <1>6, <1>7, <1>8, <1>9 DEF SuppressorNext

LEMMA AskNext ==
  ASSUME SupType, AskInv, [SuppressorNext]_suppressorVars
  PROVE  AskInv'
<1> USE DEF SupType, AskInv
<1>1. CASE Tick
  BY <1>1, Times, SuppressorAssumption DEF Tick
<1>2. CASE BeginCycle \/ InstallState
  BY Zenon, <1>2 DEF BeginCycle, InstallState, Snapshot, Callers
<1>3. ASSUME NEW c \in Callers, NEW k \in Keys, Ask(c, k)
      PROVE  AskInv'
  <2>1. clock \in Nat /\ clock - clock <= MaxStale
    BY Times, SuppressorAssumption
  <2> QED BY <1>3, <2>1 DEF Ask
<1>4. ASSUME NEW c \in Callers, Answer(c)
      PROVE  AskInv'
  <2>1. /\ now' = [now EXCEPT ![c] = Never]
        /\ asked' = [asked EXCEPT ![c] = AnyKey]
        /\ UNCHANGED <<clock, loop>>
    BY Zenon, <1>4, AnswerShape
  <2> QED BY Zenon, <2>1
<1>5. CASE CopyState \/ WriteState
  BY Zenon, <1>5 DEF CopyState, WriteState, Callers
<1>6. CASE Stop
  BY Zenon, <1>6 DEF Stop
<1>7. CASE UNCHANGED suppressorVars
  BY Zenon, <1>7 DEF suppressorVars
<1> QED BY ZenonT(30), <1>1, <1>2, <1>3, <1>4, <1>5, <1>6, <1>7 DEF SuppressorNext

LEMMA LoopNext ==
  ASSUME SupType, AskInv, LoopInv, [SuppressorNext]_suppressorVars
  PROVE  LoopInv'
<1> USE DEF SupType, LoopInv
<1>1. CASE Tick
  BY Zenon, <1>1 DEF Tick, memory
<1>2. CASE BeginCycle \/ InstallState
  BY Zenon, <1>2 DEF BeginCycle, InstallState, Snapshot, memory
<1>3. ASSUME NEW c \in Callers, NEW k \in Keys, Ask(c, k)
      PROVE  LoopInv'
  BY Zenon, <1>3 DEF Ask, memory
<1>4. ASSUME NEW c \in Callers, Answer(c)
      PROVE  LoopInv'
  <2>1. UNCHANGED <<persist, loop, image>> /\ loop # "down"
    BY Zenon, <1>4, AnswerShape DEF Answer, AskInv
  <2> QED BY ZenonT(30), <2>1
<1>5. CASE CopyState \/ WriteState
  BY <1>5 DEF CopyState, WriteState, memory
<1>6. CASE Stop
  BY Zenon, <1>6 DEF Stop
<1>7. CASE UNCHANGED suppressorVars
  BY Zenon, <1>7 DEF suppressorVars, memory
<1> QED BY Zenon, <1>1, <1>2, <1>3, <1>4, <1>5, <1>6, <1>7 DEF SuppressorNext
-----------------------------------------------------------------------------
(***************************************************************************)
(* The time stamps after a step                                            *)
(***************************************************************************)
Covered(seen, k) == \A t \in Time : emits'[k][t] > 0 => t <= seen[k] \/ Old(k, t)'

NoMoreEmits(k) == \A t \in Time : emits'[k][t] > 0 => emits[k][t] > 0

LEMMA CoversKept ==
  ASSUME SupType, [SuppressorNext]_suppressorVars, NEW k \in Keys, NoMoreEmits(k),
         NEW a, NEW b, a[k] = b[k], Covers(a, k)
  PROVE  Covered(b, k)
BY Zenon, OldStays DEF Covers, Covered, NoMoreEmits

\* CoverInv' in terms of Covered.
LEMMA CoverParts ==
  ASSUME NEW k \in Keys,
         ~persist' => Covered(lastSeen', k),
         loop' \in {"idle", "cycle", "write"} => Covered(lastSeen', k),
         persist' /\ loop' \in {"down", "idle", "install"} => Covered(disk'.seen, k),
         loop' \in {"install", "write"} => Covered(image'.seen, k)
  PROVE  CoverInv(k)'
BY Zenon DEF CoverInv, Covers, Covered

LEMMA SpacedKept ==
  ASSUME SupType, SupType', NEW k \in Keys, NoMoreEmits(k), Spaced(k),
         \A t \in Time : emits'[k][t] \in {0, emits[k][t]}
  PROVE  Spaced(k)'
<1>1. \A t \in Time : emits[k][t] \in Nat
  BY Zenon DEF SupType
<1>2. OneAtATime(k)'
  BY <1>1 DEF Spaced, OneAtATime
<1>3. OneEmitPerCooldown(k)'
  BY Zenon DEF Spaced, OneEmitPerCooldown, NoMoreEmits, CooldownFor
<1> QED BY Zenon, <1>2, <1>3 DEF Spaced

\* A step that forgets the history, or leaves it as it is.
LEMMA QuietStep ==
  ASSUME SupType, emits' \in {emits, NoEmits}, NEW k \in Keys
  PROVE  /\ NoMoreEmits(k)
         /\ \A t \in Time : emits'[k][t] \in {0, emits[k][t]}
         /\ emits' = NoEmits => \A seen : Covered(seen, k)
<1>1. CASE emits' = emits
  <2>1. emits' = NoEmits => \A t \in Time : emits'[k][t] = 0
    BY Zenon, NothingEmitted
  <2> QED BY <1>1, <2>1 DEF NoMoreEmits, Covered
<1>2. CASE emits' = NoEmits
  <2>1. \A t \in Time : emits'[k][t] = 0
    BY Zenon, <1>2, NothingEmitted
  <2> QED BY <2>1 DEF NoMoreEmits, Covered
<1> QED BY Zenon, <1>1, <1>2

\* The event of an answer is out of the cooldown of all earlier ones, and its
\* time stamp covers them.
LEMMA EmitStep ==
  ASSUME SupInv, [SuppressorNext]_suppressorVars, NEW c \in Callers, Answer(c),
         NEW k \in Keys, k = asked[c], Kept(k),
         NEW t \in Time, t = now[c], ~InCooldown(k, t),
         lastSeen' \in {[lastSeen EXCEPT ![k] = t], EvictStale([lastSeen EXCEPT ![k] = t], t)},
         emits' = [emits EXCEPT ![k][t] = @ + 1]
  PROVE  CoverInv(k)' /\ Spaced(k)'
<1> DEFINE seen == [lastSeen EXCEPT ![k] = t]
           C == CooldownFor(k)
<1>1. SupType /\ AskInv /\ LoopInv
  BY Zenon DEF SupInv
<1>2. /\ k \in Keys /\ t \in Time /\ t # Never
      /\ UNCHANGED <<clock, persist, disk, loop, image>>
  BY Zenon, <1>1, AnswerShape, Times
<1>3. C \in Nat \ {0} /\ Time \subseteq Nat /\ t \in Nat
  BY Zenon, <1>2, Cooldowns, Times
<1>4. CoverInv(k) /\ Spaced(k)
  BY Zenon, <1>2 DEF SupInv
<1>5. persist => loop = "cycle"
  <2>1. CASE c = "main"
    BY Zenon, <1>1, <1>2, <2>1 DEF AskInv
  <2>2. CASE c # "main"
    BY Zenon, <1>1, <1>2, <2>2 DEF AskInv, Callers, Kept
  <2> QED BY Zenon, <2>1, <2>2
<1>6. Covers(lastSeen, k)
  BY Zenon, <1>4, <1>5 DEF CoverInv
<1>7. lastSeen[k] \in Time \cup {Never} /\ \A s \in Time : emits[k][s] \in Nat
  BY Zenon, <1>1, <1>2 DEF SupType, Stamps
<1>8. \A s \in Time : emits[k][s] > 0 => t - s >= C
  <2> SUFFICES ASSUME NEW s \in Time, emits[k][s] > 0
               PROVE  t - s >= C
    BY Zenon
  <2>1. CASE Old(k, s)
    BY Zenon, <1>2, <2>1 DEF Old
  <2>2. CASE s <= lastSeen[k]
    <3>1. lastSeen[k] # Never
      BY <1>3, <2>2, Times
    <3>2. lastSeen[k] \in Nat
      BY ZenonT(30), <1>3, <1>7, <3>1
    <3>3. ~(t - lastSeen[k] < C)
      BY Zenon, <3>1 DEF InCooldown
    <3> QED BY <1>3, <2>2, <3>2, <3>3
  <2> QED BY Zenon, <1>6, <2>1, <2>2 DEF Covers
<1>9. emits[k][t] = 0
  BY <1>2, <1>3, <1>7, <1>8
<1>10. \A s \in Time : emits'[k][s] = IF s = t THEN 1 ELSE emits[k][s]
  <2>1. \A s \in Time : emits'[k][s] = IF s = t THEN emits[k][s] + 1 ELSE emits[k][s]
    BY Zenon, <1>1, <1>2 DEF SupType
  <2> QED BY <1>9, <2>1
<1>11. Spaced(k)'
  <2>1. OneAtATime(k)'
    BY <1>4, <1>10 DEF Spaced, OneAtATime
  <2>2. ASSUME NEW s \in Time, NEW u \in Time, emits'[k][s] > 0, emits'[k][u] > 0, s < u
        PROVE  u - s >= C
    <3>1. CASE s # t /\ u # t
      <4>1. emits[k][s] > 0 /\ emits[k][u] > 0
        BY ZenonT(30), <1>10, <2>2, <3>1
      <4> QED BY Zenon, <1>4, <2>2, <4>1 DEF Spaced, OneEmitPerCooldown
    <3>2. CASE u = t
      <4>1. s # t
        BY <1>3, <2>2, <3>2
      <4>2. emits[k][s] > 0
        BY Zenon, <1>10, <2>2, <4>1
      <4> QED BY Zenon, <1>8, <3>2, <4>2
    <3>3. CASE s = t /\ u # t
      <4>1. emits[k][u] > 0
        BY Zenon, <1>10, <2>2, <3>3
      <4>2. t - u >= C
        BY Zenon, <1>8, <4>1
      <4> QED BY <1>3, <2>2, <3>3, <4>2
    <3> QED BY Zenon, <3>1, <3>2, <3>3
  <2>3. OneEmitPerCooldown(k)'
    BY Zenon, <2>2 DEF OneEmitPerCooldown, CooldownFor
  <2> QED BY Zenon, <2>1, <2>3 DEF Spaced
<1>12. lastSeen'[k] = t
  <2>1. seen \in Stamps /\ seen[k] = t
    BY Zenon, <1>1, <1>2 DEF SupType, Stamps
  <2> HIDE DEF seen
  <2>2. EvictStale(seen, t)[k] = t
    BY ZenonT(30), <1>2, <2>1, SweepShape
  <2>3. lastSeen' \in {seen, EvictStale(seen, t)}
    BY Zenon DEF seen
  <2> QED BY ZenonT(30), <2>1, <2>2, <2>3
<1>13. Covered(lastSeen', k)
  <2> SUFFICES ASSUME NEW s \in Time, emits'[k][s] > 0
               PROVE  s <= lastSeen'[k]
    BY Zenon DEF Covered
  <2>1. CASE s = t
    BY <1>3, <1>12, <2>1
  <2>2. CASE s # t
    <3>1. t - s >= C
      BY Zenon, <1>8, <1>10, <2>2
    <3> QED BY <1>3, <1>12, <3>1
  <2> QED BY Zenon, <2>1, <2>2
<1>14. CoverInv(k)'
  <2>1. loop \in {"install", "write"} => persist
    BY Zenon, <1>1 DEF LoopInv
  <2> QED BY ZenonT(30), <1>2, <1>5, <1>13, <2>1 DEF CoverInv, Covers, Covered
<1> QED BY Zenon, <1>11, <1>14

\* An event of key k leaves the other keys alone, but for stamps the sweep drops.
LEMMA OtherKeyStep ==
  ASSUME SupInv, [SuppressorNext]_suppressorVars, AskInv', NEW c \in Callers, Answer(c),
         NEW k \in Keys, k = asked[c],
         NEW t \in Time, t = now[c],
         lastSeen' \in {[lastSeen EXCEPT ![k] = t], EvictStale([lastSeen EXCEPT ![k] = t], t)},
         emits' = [emits EXCEPT ![k][t] = @ + 1],
         NEW x \in Keys \ {k}, CoverInv(x), Spaced(x), SupType'
  PROVE  CoverInv(x)' /\ Spaced(x)'
<1> DEFINE seen == [lastSeen EXCEPT ![k] = t]
<1>1. SupType /\ AskInv
  BY Zenon DEF SupInv
<1>2. UNCHANGED <<clock, persist, disk, loop, image>>
  BY Zenon, <1>1, AnswerShape
<1>3. NoMoreEmits(x) /\ \A u \in Time : emits'[x][u] = emits[x][u]
  BY Zenon, <1>1 DEF SupType, NoMoreEmits
<1>4. Spaced(x)'
  BY Zenon, <1>1, <1>3, SpacedKept
<1>5. ASSUME Covers(lastSeen, x)
      PROVE  Covered(lastSeen', x)
  <2>1. seen \in Stamps /\ seen[x] = lastSeen[x]
    BY Zenon, <1>1 DEF SupType, Stamps
  <2>2. lastSeen' \in {seen, EvictStale(seen, t)}
    BY Zenon
  <2> HIDE DEF seen
  <2>3. CASE lastSeen'[x] = lastSeen[x]
    BY ZenonT(30), <1>1, <1>3, <1>5, <2>3, CoversKept
  <2>4. CASE lastSeen'[x] # lastSeen[x]
    <3>1. seen[x] # Never /\ t - seen[x] > 2 * LongestCooldown
      BY <2>1, <2>2, <2>4, SweepShape
    <3>2. lastSeen[x] \in Nat /\ t - lastSeen[x] > 2 * LongestCooldown
      BY Zenon, <1>1, <2>1, <3>1, Times DEF SupType, Stamps
    <3>3. /\ LongestCooldown \in Nat /\ MaxStale \in Nat /\ MaxStale <= LongestCooldown
          /\ CooldownFor(x) \in Nat /\ CooldownFor(x) <= LongestCooldown
      BY Zenon, Cooldowns, SuppressorAssumption
    <3>4. clock \in Nat /\ t \in Nat /\ t <= clock /\ clock' = clock
      BY ZenonT(30), <1>1, <1>2, Times DEF SupType, AskInv
    <3> SUFFICES ASSUME NEW s \in Time, emits'[x][s] > 0
                 PROVE  s <= lastSeen'[x] \/ Old(x, s)'
      BY Zenon DEF Covered
    <3>5. s \in Nat /\ emits[x][s] > 0
      BY Zenon, <1>3, Times
    <3>6. CASE Old(x, s)
      BY Zenon, <1>1, <3>6, OldStays
    <3>7. CASE s <= lastSeen[x]
      <4>1. clock' - s >= CooldownFor(x)
        BY <3>2, <3>3, <3>4, <3>5, <3>7
      <4>2. ASSUME NEW d \in Callers, now'[d] # Never
            PROVE  now'[d] - s >= CooldownFor(x)
        <5>1. now'[d] \in Nat /\ clock' - now'[d] <= MaxStale
          BY Zenon, <4>2, Times DEF AskInv, SupType
        <5> QED BY <3>2, <3>3, <3>4, <3>5, <3>7, <5>1
      <4> QED BY Zenon, <4>1, <4>2 DEF Old, CooldownFor
    <3> QED BY Zenon, <1>5, <3>5, <3>6, <3>7 DEF Covers
  <2> QED BY Zenon, <2>3, <2>4
<1>6. \A st : Covers(st, x) => Covered(st, x)
  BY Zenon, <1>1, <1>3, CoversKept
<1>7. disk' = disk /\ image' = image /\ loop' = loop /\ persist' = persist
  BY Zenon, <1>2
<1>8. CoverInv(x)'
  BY ZenonT(30), <1>5, <1>6, <1>7, CoverParts DEF CoverInv
<1> QED BY Zenon, <1>4, <1>8

LEMMA CoverNext ==
  ASSUME SupInv, [SuppressorNext]_suppressorVars, SupType', AskInv', NEW x \in Keys, Kept(x)
  PROVE  CoverInv(x)' /\ Spaced(x)'
<1>1. SupType /\ AskInv /\ LoopInv /\ CoverInv(x) /\ Spaced(x)
  BY Zenon DEF SupInv
<1>2. ASSUME NEW c \in Callers, Answer(c)
      PROVE  CoverInv(x)' /\ Spaced(x)'
  <2> DEFINE k == asked[c]
             t == now[c]
  <2>1. /\ k \in Keys /\ t \in Time
        /\ UNCHANGED <<clock, persist, disk, loop, image>>
        /\ \/ UNCHANGED <<lastSeen, emits>>
           \/ /\ ~InCooldown(k, t)
              /\ lastSeen' \in {[lastSeen EXCEPT ![k] = t], EvictStale([lastSeen EXCEPT ![k] = t], t)}
              /\ emits' = [emits EXCEPT ![k][t] = @ + 1]
    BY Zenon, <1>1, <1>2, AnswerShape
  <2>2. CASE UNCHANGED <<lastSeen, emits>>
    <3>1. NoMoreEmits(x) /\ \A u \in Time : emits'[x][u] = emits[x][u]
      BY Zenon, <2>2 DEF NoMoreEmits
    <3>2. \A st : Covers(st, x) => Covered(st, x)
      BY Zenon, <1>1, <3>1, CoversKept
    <3>3. CoverInv(x)'
      BY ZenonT(30), <1>1, <2>1, <2>2, <3>2, CoverParts DEF CoverInv
    <3> QED BY Zenon, <1>1, <3>1, <3>3, SpacedKept
  <2>3. CASE ~UNCHANGED <<lastSeen, emits>> /\ x = k
    <3> HIDE DEF k, t
    <3> QED BY Zenon, <1>2, <2>1, <2>3, EmitStep DEF k, t
  <2>4. CASE ~UNCHANGED <<lastSeen, emits>> /\ x # k
    <3> HIDE DEF k, t
    <3> QED BY Zenon, <1>1, <1>2, <2>1, <2>4, OtherKeyStep DEF k, t
  <2> QED BY Zenon, <2>2, <2>3, <2>4
<1>3. ASSUME emits' \in {emits, NoEmits}
      PROVE  /\ Spaced(x)'
             /\ \A st : Covers(st, x) => Covered(st, x)
             /\ emits' = NoEmits => \A st : Covered(st, x)
  <2>1. /\ NoMoreEmits(x)
        /\ \A t \in Time : emits'[x][t] \in {0, emits[x][t]}
        /\ emits' = NoEmits => \A st : Covered(st, x)
    BY Zenon, <1>1, <1>3, QuietStep
  <2> QED BY Zenon, <1>1, <2>1, SpacedKept, CoversKept
<1>4. CASE Tick \/ UNCHANGED suppressorVars
  <2>1. UNCHANGED <<persist, lastSeen, disk, image, loop, emits>>
    BY Zenon, <1>4 DEF Tick, suppressorVars, memory
  <2> QED BY ZenonT(30), <1>1, <1>3, <2>1, CoverParts DEF CoverInv
<1>5. ASSUME NEW c \in Callers, NEW k \in Keys, Ask(c, k)
      PROVE  CoverInv(x)' /\ Spaced(x)'
  <2>1. UNCHANGED <<persist, lastSeen, disk, image, loop, emits>>
    BY Zenon, <1>5 DEF Ask, memory
  <2> QED BY ZenonT(30), <1>1, <1>3, <2>1, CoverParts DEF CoverInv
<1>6. CASE BeginCycle
  <2>1. UNCHANGED <<persist, lastSeen, disk, emits>> /\ loop \in {"down", "idle"}
    BY Zenon, <1>6 DEF BeginCycle, memory
  <2>2. CASE persist /\ disk.ok
    <3>1. loop' = "install" /\ image' = disk
      BY Zenon, <1>6, <2>2 DEF BeginCycle
    <3> QED BY ZenonT(30), <1>1, <1>3, <2>1, <2>2, <3>1, CoverParts DEF CoverInv
  <2>3. CASE ~(persist /\ disk.ok)
    <3>1. loop' \in {"cycle", "idle"}
      BY Zenon, <1>6, <2>3 DEF BeginCycle, Snapshot
    <3>2. Covers(lastSeen, x)
      BY ZenonT(30), <1>1, <2>1, <2>3 DEF CoverInv, LoopInv, SupType, IsState
    <3> QED BY ZenonT(30), <1>1, <1>3, <2>1, <3>1, <3>2, CoverParts DEF CoverInv
  <2> QED BY Zenon, <2>2, <2>3
<1>7. CASE InstallState
  <2>1. /\ UNCHANGED <<persist, disk, emits>> /\ loop = "install" /\ loop' \in {"cycle", "idle"}
        /\ lastSeen' = image.seen
    BY Zenon, <1>7 DEF InstallState, Snapshot
  <2> QED BY Zenon, <1>1, <1>3, <2>1, CoverParts DEF CoverInv, LoopInv
<1>8. CASE CopyState
  <2>1. UNCHANGED <<persist, disk, lastSeen, emits>> /\ loop = "cycle"
    BY Zenon, <1>8 DEF CopyState, memory
  <2>2. CASE persist
    <3>1. loop' = "write" /\ image'.seen = lastSeen
      BY <1>8, <2>2 DEF CopyState
    <3> QED BY ZenonT(30), <1>1, <1>3, <2>1, <2>2, <3>1, CoverParts DEF CoverInv
  <2>3. CASE ~persist
    <3>1. loop' = "idle"
      BY Zenon, <1>8, <2>3 DEF CopyState
    <3> QED BY ZenonT(30), <1>1, <1>3, <2>1, <2>3, <3>1, CoverParts DEF CoverInv
  <2> QED BY Zenon, <2>2, <2>3
<1>9. CASE WriteState
  <2>1. UNCHANGED <<persist, lastSeen>> /\ loop = "write" /\ loop' = "idle"
    BY Zenon, <1>9 DEF WriteState, memory
  <2>2. CASE emits' = NoEmits
    BY Zenon, <1>3, <2>1, <2>2, CoverParts
  <2>3. CASE emits' # NoEmits
    <3>1. UNCHANGED emits /\ \E bs : disk' = [image EXCEPT !.buckets = bs]
      BY Zenon, <1>9, <2>3 DEF WriteState
    <3>2. disk'.seen = image.seen
      BY Zenon, <1>1, <3>1 DEF SupType, IsState
    <3> QED BY ZenonT(30), <1>1, <1>3, <2>1, <3>1, <3>2, CoverParts DEF CoverInv, LoopInv
  <2> QED BY Zenon, <2>2, <2>3
<1>10. CASE Stop
  <2>1. UNCHANGED persist /\ loop' = "down"
    BY Zenon, <1>10 DEF Stop
  <2>2. CASE emits' = NoEmits
    BY ZenonT(30), <1>3, <2>1, <2>2, CoverParts
  <2>3. CASE emits' # NoEmits
    <3>1. loop = "idle" /\ UNCHANGED <<disk, emits>> /\ persist
      BY Zenon, <1>10, <2>3 DEF Stop
    <3> QED BY ZenonT(30), <1>1, <1>3, <2>1, <3>1, CoverParts DEF CoverInv
  <2> QED BY <2>2, <2>3
<1> QED BY ZenonT(30), <1>2, <1>4, <1>5, <1>6, <1>7, <1>8, <1>9, <1>10 DEF SuppressorNext

LEMMA SupNext == SupInv /\ [SuppressorNext]_suppressorVars => SupInv'
<1> SUFFICES ASSUME SupInv, [SuppressorNext]_suppressorVars
             PROVE  SupInv'
  BY Zenon
<1>1. SupType' /\ AskInv' /\ LoopInv'
  BY ZenonT(30), SupTypeNext, AskNext, LoopNext DEF SupInv
<1>2. UNCHANGED persist
  BY Zenon DEF SuppressorNext, suppressorVars, Tick, BeginCycle, InstallState, Ask, Answer, CopyState, WriteState, Stop
<1>3. \A x \in Keys : Kept(x)' => CoverInv(x)' /\ Spaced(x)'
  BY Zenon, <1>1, <1>2, CoverNext DEF Kept
<1> QED BY Zenon, <1>1, <1>3 DEF SupInv

\* Suppressor.Allow lets one event of a key through per cooldown, whichever
\* goroutine asks and however late it comes to the lock, over sweeps and over
\* reloads of the state file by the main loop.
THEOREM CooldownKept == SuppressorSpec => []CooldownRespected
<1>1. SupInv => CooldownRespected
  BY Zenon DEF SupInv, Spaced, CooldownRespected
<1> QED BY <1>1, SupInit, SupNext, PTL DEF SuppressorSpec
-----------------------------------------------------------------------------
(***************************************************************************)
(* The token bucket                                                        *)
(*                                                                         *)
(* Counted back to time 0, the tokens of a bucket never increase: what the *)
(* rate adds in between is taken off again, an event takes one more, and   *)
(* the cap can only lower them.  A goroutine that comes late with an older *)
(* time changes nothing in this account.                                   *)
(***************************************************************************)
Level(b) == b.tokens - b.last * Rate

From(E, s) == {e \in E : s <= e[2]}

Between(E, s, u) == {e \in E : e[2] \in s .. u}

\* Bucket b knows of the events E: those since any time s have lowered it from
\* what the cap allowed at s.
Paid(E, b) ==
  /\ b = NoBucket => E = {}
  /\ b # NoBucket =>
       \A s \in Time : From(E, s) # {} => Level(b) + Cardinality(From(E, s)) <= Burst - s * Rate

Bounded(E) ==
  \A s, u \in Time : s <= u => Cardinality(Between(E, s, u)) <= Burst + Rate * (u - s)

RefillOf(b, t) ==
  IF b = NoBucket THEN Burst
  ELSE LET n == b.tokens + (t - b.last) * Rate
       IN  IF n > Burst THEN Burst ELSE n

LEMMA RateTimes ==
  /\ \A a, b \in Int : (a - b) * Rate = a * Rate - b * Rate /\ a * Rate \in Int
  /\ \A a, b \in Int : Rate * (a - b) = a * Rate - b * Rate
  /\ \A a, b \in Int : a <= b => a * Rate <= b * Rate
<1>1. Rate \in Nat
  BY Zenon, SuppressorAssumption
<1>2. \A a, b \in Int : (a - b) * Rate = a * Rate - b * Rate /\ a * Rate \in Int
  BY <1>1
<1>3. \A a, b \in Int : Rate * (a - b) = a * Rate - b * Rate
  BY <1>1
<1>4. ASSUME NEW a \in Int, NEW b \in Int, a <= b
      PROVE  a * Rate <= b * Rate
  <2>1. \A d \in Nat : d * Rate >= 0
    BY <1>1
  <2>2. b - a \in Nat /\ (b - a) * Rate = b * Rate - a * Rate
    BY <1>2, <1>4
  <2>3. (b - a) * Rate >= 0
    BY Zenon, <2>1, <2>2
  <2>4. PICK x \in Int, y \in Int : x = a * Rate /\ y = b * Rate
    BY Zenon, <1>2
  <2> QED BY <2>2, <2>3, <2>4
<1> QED BY Zenon, <1>2, <1>3, <1>4

LEMMA BucketFields ==
  ASSUME NEW b \in Bucket
  PROVE  b.tokens \in Int /\ b.last \in Int /\ Level(b) \in Int
<1>1. b.tokens \in Int /\ b.last \in Time \cup {Never}
  BY Zenon DEF Bucket
<1>2. b.last \in Int
  <2>1. Never \in Int /\ \A x \in Nat : x \in Int
    BY DEF Never
  <2> QED BY Zenon, <1>1, <2>1, Times
<1>3. PICK y \in Int : y = b.last * Rate
  BY Zenon, <1>2, RateTimes
<1>4. Level(b) = b.tokens - y
  BY Zenon, <1>3 DEF Level
<1> QED BY <1>1, <1>2, <1>4

\* A refill at time t: the level does not rise, and is at most the cap's at t.
LEMMA RefillLowers ==
  ASSUME NEW b \in Bucket, NEW t \in Time
  PROVE  /\ RefillOf(b, t) \in Int
         /\ RefillOf(b, t) <= Burst
         /\ b # NoBucket => RefillOf(b, t) - t * Rate <= Level(b)
<1>1. Burst \in Int /\ t \in Int /\ b.tokens \in Int /\ b.last \in Int
  <2>1. Burst \in Int /\ t \in Int
    BY SuppressorAssumption, Times
  <2> QED BY Zenon, <2>1, BucketFields
<1>2. PICK x \in Int, y \in Int :
        x = t * Rate /\ y = b.last * Rate /\ (t - b.last) * Rate = x - y
  <2>1. PICK x \in Int : x = t * Rate
    BY Zenon, <1>1, RateTimes
  <2>2. PICK y \in Int : y = b.last * Rate
    BY Zenon, <1>1, RateTimes
  <2>3. (t - b.last) * Rate = x - y
    BY Zenon, <1>1, <2>1, <2>2, RateTimes
  <2> QED BY Zenon, <2>1, <2>2, <2>3
<1>3. RefillOf(b, t) = IF b = NoBucket THEN Burst
                       ELSE IF b.tokens + (x - y) > Burst THEN Burst ELSE b.tokens + (x - y)
  BY Zenon, <1>2 DEF RefillOf
<1>4. Level(b) = b.tokens - y
  BY Zenon, <1>2 DEF Level
<1> QED BY <1>1, <1>2, <1>3, <1>4

\* Allow turns the event down: the events known stay paid for.
LEMMA PaidLower ==
  ASSUME NEW E, IsFiniteSet(E), NEW b \in Bucket, Paid(E, b), NEW t \in Time,
         NEW n \in Int, n <= RefillOf(b, t)
  PROVE  Paid(E, [tokens |-> n, last |-> t])
<1> DEFINE a == [tokens |-> n, last |-> t]
<1>1. a # NoBucket /\ a.tokens = n /\ a.last = t
  BY Zenon, Times DEF NoBucket
<1> HIDE DEF a
<1>2. SUFFICES ASSUME NEW s \in Time, From(E, s) # {}
               PROVE  Level(a) + Cardinality(From(E, s)) <= Burst - s * Rate
  BY Zenon, <1>1 DEF Paid, a
<1>3. b # NoBucket
  BY Zenon, <1>2 DEF Paid, From
<1>4. Level(b) + Cardinality(From(E, s)) <= Burst - s * Rate
  BY Zenon, <1>2, <1>3 DEF Paid
<1>5. Cardinality(From(E, s)) \in Nat
  BY Zenon, FS_Subset, FS_CardinalityType DEF From
<1>6. /\ t \in Int /\ s \in Int /\ Burst \in Int /\ RefillOf(b, t) \in Int
      /\ RefillOf(b, t) - t * Rate <= Level(b)
  BY <1>3, RefillLowers, Times, SuppressorAssumption
<1>7. PICK x \in Int, y \in Int : x = t * Rate /\ y = s * Rate
  BY Zenon, <1>6, RateTimes
<1>8. Level(b) \in Int
  BY Zenon, BucketFields
<1>9. Level(a) = n - x
  BY Zenon, <1>1, <1>7 DEF Level
<1>10. PICK c \in Nat, l \in Int, m \in Int :
         c = Cardinality(From(E, s)) /\ l = Level(b) /\ m = RefillOf(b, t)
  BY Zenon, <1>5, <1>6, <1>8
<1> QED BY <1>4, <1>6, <1>7, <1>9, <1>10

\* Allow lets an event e of time t through.
LEMMA PaidEvent ==
  ASSUME NEW E, IsFiniteSet(E), NEW b \in Bucket, Paid(E, b), Bounded(E), NEW t \in Time,
         RefillOf(b, t) >= 1, NEW e, e[2] = t, \A x \in E : x[2] \in Time
  PROVE  /\ Paid(E \cup {e}, [tokens |-> RefillOf(b, t) - 1, last |-> t])
         /\ Bounded(E \cup {e})
<1> DEFINE n == RefillOf(b, t)
           F == E \cup {e}
           a == [tokens |-> n - 1, last |-> t]
<1>1. /\ n \in Int /\ n >= 1 /\ n <= Burst /\ Burst \in Int /\ t \in Int
      /\ b # NoBucket => n - t * Rate <= Level(b)
  BY RefillLowers, Times, SuppressorAssumption
<1>2. a # NoBucket /\ a.tokens = n - 1 /\ a.last = t
  BY Zenon, Times DEF NoBucket
<1>3. Level(a) = n - 1 - t * Rate
  BY Zenon, <1>2 DEF Level
<1>4. IsFiniteSet(F)
  BY Zenon, FS_AddElement
<1>5. ASSUME NEW s \in Time
      PROVE  /\ From(E, s) \subseteq E /\ From(F, s) \subseteq F
             /\ IsFiniteSet(From(E, s)) /\ Cardinality(From(E, s)) \in Nat
             /\ IsFiniteSet(From(F, s)) /\ Cardinality(From(F, s)) \in Nat
             /\ s \in Int
  BY <1>4, FS_Subset, FS_CardinalityType, Times DEF From
<1>6. PICK x \in Int : x = t * Rate
  BY Zenon, <1>1, RateTimes
<1>7. Level(b) \in Int
  BY Zenon, BucketFields
<1> HIDE DEF n, a, F
<1>8. ASSUME NEW s \in Time, From(F, s) # {}
      PROVE  Level(a) + Cardinality(From(F, s)) <= Burst - s * Rate
  <2>1. PICK y \in Int : y = s * Rate
    BY Zenon, <1>5, RateTimes
  <2>2. CASE s <= t
    <3>1. From(F, s) = From(E, s) \cup {e}
      BY Zenon, <2>2 DEF From, F
    <3>2. Cardinality(From(F, s)) <= Cardinality(From(E, s)) + 1
      <4>1. Cardinality(From(F, s)) = IF e \in From(E, s) THEN Cardinality(From(E, s))
                                      ELSE Cardinality(From(E, s)) + 1
        BY Zenon, <1>5, <3>1, FS_AddElement
      <4>2. PICK c \in Nat : c = Cardinality(From(E, s))
        BY Zenon, <1>5
      <4> QED BY <4>1, <4>2
    <3>3. y <= x
      BY Zenon, <1>1, <1>5, <1>6, <2>1, <2>2, RateTimes
    <3>4. CASE From(E, s) = {}
      <4>1. Cardinality(From(E, s)) = 0
        BY Zenon, <3>4, FS_EmptySet
      <4> QED BY <1>1, <1>3, <1>5, <1>6, <2>1, <3>2, <3>3, <4>1
    <3>5. CASE From(E, s) # {}
      <4>1. b # NoBucket
        BY Zenon, <3>5 DEF Paid, From
      <4>2. Level(b) + Cardinality(From(E, s)) <= Burst - s * Rate
        BY Zenon, <3>5, <4>1 DEF Paid
      <4>3. PICK l \in Int, c \in Nat, d \in Nat :
              l = Level(b) /\ c = Cardinality(From(E, s)) /\ d = Cardinality(From(F, s))
        BY Zenon, <1>5, <1>7, <4>1
      <4> QED BY <1>1, <1>3, <1>6, <2>1, <3>2, <4>1, <4>2, <4>3
    <3> QED BY Zenon, <3>4, <3>5
  <2>3. CASE ~(s <= t)
    <3>1. From(F, s) = From(E, s)
      BY Zenon, <2>3 DEF From, F
    <3>2. b # NoBucket
      BY Zenon, <1>8, <3>1 DEF Paid, From
    <3>3. Level(b) + Cardinality(From(E, s)) <= Burst - s * Rate
      BY Zenon, <1>8, <3>1, <3>2 DEF Paid
    <3>4. PICK l \in Int, c \in Nat : l = Level(b) /\ c = Cardinality(From(E, s))
      BY Zenon, <1>5, <1>7, <3>2
    <3> QED BY <1>1, <1>3, <1>6, <2>1, <3>1, <3>2, <3>3, <3>4
  <2> QED BY Zenon, <2>2, <2>3
<1>9. Paid(F, a)
  BY Zenon, <1>2, <1>8 DEF Paid
<1>10. ASSUME NEW s \in Time, NEW u \in Time, s <= u
       PROVE  Cardinality(Between(F, s, u)) <= Burst + Rate * (u - s)
  <2>1. u \in Int /\ s \in Int
    BY Times
  <2>2. CASE t \in s .. u
    <3>1. e \in From(F, s) /\ Between(F, s, u) \subseteq From(F, s)
      <4>1. e \in F /\ e[2] = t /\ \A z \in F : z[2] \in s .. u => s <= z[2]
        BY DEF F
      <4>2. s <= t
        BY <2>2
      <4> QED BY Zenon, <4>1, <4>2 DEF From, Between
    <3>2. Level(a) + Cardinality(From(F, s)) <= Burst - s * Rate
      BY Zenon, <1>8, <3>1
    <3>3. IsFiniteSet(From(F, s)) /\ Cardinality(From(F, s)) \in Nat
      BY Zenon, <1>5
    <3>4. /\ Cardinality(Between(F, s, u)) \in Nat
          /\ Cardinality(Between(F, s, u)) <= Cardinality(From(F, s))
      BY ZenonT(30), <3>1, <3>3, FS_Subset, FS_CardinalityType
    <3>5. PICK y \in Int, z \in Int : y = s * Rate /\ z = u * Rate /\ Rate * (u - s) = z - y
      BY <2>1, RateTimes
    <3>6. x <= z
      BY <1>1, <1>6, <2>1, <2>2, <3>5, RateTimes
    <3>7. PICK c \in Nat, d \in Nat :
            c = Cardinality(From(F, s)) /\ d = Cardinality(Between(F, s, u))
      BY Zenon, <3>3, <3>4
    <3> QED BY <1>1, <1>3, <1>6, <3>2, <3>4, <3>5, <3>6, <3>7
  <2>3. CASE t \notin s .. u
    <3>1. Between(F, s, u) = Between(E, s, u)
      BY Zenon, <2>3 DEF Between, F
    <3> QED BY Zenon, <1>10, <3>1 DEF Bounded
  <2> QED BY Zenon, <2>2, <2>3
<1>11. Bounded(F)
  BY Zenon, <1>10 DEF Bounded
<1> QED BY Zenon, <1>9, <1>11 DEF F, a, n
LEMMA NothingPaid ==
  /\ IsFiniteSet({})
  /\ Bounded({})
  /\ \A b : Paid({}, b)
<1>1. \A s, u : From({}, s) = {} /\ Between({}, s, u) = {}
  BY Zenon DEF From, Between
<1>2. IsFiniteSet({}) /\ Cardinality({}) = 0
  BY Zenon, FS_EmptySet
<1>3. ASSUME NEW s \in Time, NEW u \in Time, s <= u
      PROVE  0 <= Burst + Rate * (u - s)
  <2>1. s \in Int /\ u \in Int /\ Burst \in Nat
    BY Times, SuppressorAssumption
  <2>2. PICK y \in Int, z \in Int : y = s * Rate /\ z = u * Rate
    BY Zenon, <2>1, RateTimes
  <2>3. Rate * (u - s) = z - y /\ y <= z
    BY Zenon, <1>3, <2>1, <2>2, RateTimes
  <2> QED BY <2>1, <2>2, <2>3
<1>4. Bounded({})
  BY Zenon, <1>1, <1>2, <1>3 DEF Bounded
<1>5. \A b : Paid({}, b)
  BY Zenon, <1>1 DEF Paid
<1> QED BY Zenon, <1>2, <1>4, <1>5

\* The events of a rule in a history.
EmittedIn(h, r) ==
  {e \in Keys \X Time \X (1 .. MostEmits) : RuleOf[e[1]] = r /\ e[3] <= h[e[1]][e[2]]}

LEMMA EmittedNever == \A r : EmittedIn(NoEmits, r) = {}
<1> SUFFICES ASSUME NEW r, NEW k \in Keys, NEW t \in Time, NEW n \in 1 .. MostEmits,
                    n <= NoEmits[k][t]
             PROVE  FALSE
  BY Zenon DEF EmittedIn
<1>1. n \in Int /\ n >= 1
  BY SuppressorAssumption DEF MostEmits
<1> QED BY <1>1, NothingEmitted

LEMMA EmittedTimes == \A h, r : \A e \in EmittedIn(h, r) : e[2] \in Time
BY Zenon DEF EmittedIn

\* One more event of key k at time t.
OneMore(g, h, k, t) == g = [h EXCEPT ![k][t] = @ + 1]
EqualSets(G, H)     == G = H
OneLarger(G, H, e)  == G = H \cup {e}

LEMMA EmittedOnce ==
  ASSUME NEW h \in [Keys -> [Time -> Nat]], NEW k \in Keys, NEW t \in Time, NEW r,
         NEW g, OneMore(g, h, k, t)
  PROVE  /\ RuleOf[k] # r => EqualSets(EmittedIn(g, r), EmittedIn(h, r))
         /\ \/ EqualSets(EmittedIn(g, r), EmittedIn(h, r))
            \/ OneLarger(EmittedIn(g, r), EmittedIn(h, r), <<k, t, h[k][t] + 1>>)
<1> DEFINE e == <<k, t, h[k][t] + 1>>
           H == EmittedIn(h, r)
           G == EmittedIn(g, r)
<1>1. \A x \in Keys, s \in Time :
        g[x][s] = IF x = k /\ s = t THEN h[k][t] + 1 ELSE h[x][s]
  BY Zenon DEF OneMore
<1>2. h[k][t] \in Nat /\ \A n \in 1 .. MostEmits : n \in Int
  OBVIOUS
<1>3. \A x \in Keys, s \in Time, n \in 1 .. MostEmits :
        n <= g[x][s] <=> n <= h[x][s] \/ (x = k /\ s = t /\ n = h[k][t] + 1)
  <2> SUFFICES ASSUME NEW x \in Keys, NEW s \in Time, NEW n \in 1 .. MostEmits
               PROVE  n <= g[x][s] <=> n <= h[x][s] \/ (x = k /\ s = t /\ n = h[k][t] + 1)
    BY Zenon
  <2>1. PICK v \in Nat : v = h[k][t]
    BY Zenon, <1>2
  <2>2. n \in Int
    BY Zenon, <1>2
  <2>3. CASE x = k /\ s = t
    <3>1. g[x][s] = v + 1 /\ h[x][s] = v
      BY Zenon, <1>1, <2>1, <2>3
    <3> QED BY <2>1, <2>2, <2>3, <3>1
  <2>4. CASE ~(x = k /\ s = t)
    BY Zenon, <1>1, <2>4
  <2> QED BY Zenon, <2>3, <2>4
<1>4. \A x, s, n : <<x, s, n>> \in G <=>
        /\ x \in Keys /\ s \in Time /\ n \in 1 .. MostEmits
        /\ RuleOf[x] = r /\ n <= g[x][s]
  BY ZenonT(30) DEF EmittedIn
<1>5. \A x, s, n : <<x, s, n>> \in H <=>
        /\ x \in Keys /\ s \in Time /\ n \in 1 .. MostEmits
        /\ RuleOf[x] = r /\ n <= h[x][s]
  BY Zenon DEF EmittedIn
<1>6. \A x, s, n : <<x, s, n>> = e <=> x = k /\ s = t /\ n = h[k][t] + 1
  BY Zenon
<1>7. \A y : y \in G \cup H \cup {e} => \E x, s, n : y = <<x, s, n>>
  BY DEF EmittedIn
<1> HIDE DEF e, G, H
<1>8. ASSUME NEW y \in G
      PROVE  y \in H \cup {e}
  <2>1. PICK x, s, n : y = <<x, s, n>>
    BY Zenon, <1>7
  <2>2. /\ x \in Keys /\ s \in Time /\ n \in 1 .. MostEmits
        /\ RuleOf[x] = r /\ n <= g[x][s]
    BY Zenon, <1>4, <2>1
  <2>3. n <= h[x][s] \/ (x = k /\ s = t /\ n = h[k][t] + 1)
    BY Zenon, <1>3, <2>2
  <2>4. CASE n <= h[x][s]
    BY Zenon, <1>5, <2>1, <2>2, <2>4
  <2>5. CASE x = k /\ s = t /\ n = h[k][t] + 1
    BY Zenon, <1>6, <2>1, <2>5
  <2> QED BY Zenon, <2>3, <2>4, <2>5
<1>9. ASSUME NEW y \in H
      PROVE  y \in G
  <2>1. PICK x, s, n : y = <<x, s, n>>
    BY Zenon, <1>7
  <2>2. /\ x \in Keys /\ s \in Time /\ n \in 1 .. MostEmits
        /\ RuleOf[x] = r /\ n <= h[x][s]
    BY Zenon, <1>5, <2>1
  <2>3. n <= g[x][s]
    BY Zenon, <1>3, <2>2
  <2> QED BY Zenon, <1>4, <2>1, <2>2, <2>3
<1>10. G \subseteq H \cup {e} /\ H \subseteq G
  BY Zenon, <1>8, <1>9
<1>11. G = H \/ G = H \cup {e}
  BY Zenon, <1>10
<1>12. ASSUME RuleOf[k] # r
       PROVE  e \notin G
  BY Zenon, <1>4, <1>12 DEF e
<1>13. RuleOf[k] # r => G = H
  BY ZenonT(40), <1>10, <1>11, <1>12
<1> QED BY ZenonT(40), <1>11, <1>13 DEF e, G, H, EqualSets, OneLarger
-----------------------------------------------------------------------------
KeptRule(r) == \A k \in Keys : RuleOf[k] = r => Kept(k)

BucketTypes ==
  /\ buckets \in [Rules -> Bucket]
  /\ disk.buckets \in [Rules -> Bucket]
  /\ image.buckets \in [Rules -> Bucket]
  /\ ~disk.ok => disk.buckets = NoState.buckets
  /\ loop = "down" => buckets = NoState.buckets

\* Which bucket of rule r knows of its events as the main loop reads, copies and
\* writes them.
BucketInv(r) ==
  /\ ~persist => Paid(Emitted(r), buckets[r])
  /\ loop \in {"idle", "cycle", "write"} => Paid(Emitted(r), buckets[r])
  /\ persist /\ loop \in {"down", "idle", "install"} => Paid(Emitted(r), disk.buckets[r])
  /\ loop = "install" => Paid(Emitted(r), image.buckets[r])
  /\ loop = "write" => image.buckets[r] = buckets[r]

RuleInv(r) == IsFiniteSet(Emitted(r)) /\ BucketInv(r) /\ Bounded(Emitted(r))

RateInv ==
  /\ BucketTypes
  /\ Rate > 0 => \A r \in Rules : KeptRule(r) => RuleInv(r)

LEMMA NoBuckets ==
  /\ NoState.buckets \in [Rules -> Bucket]
  /\ \A r \in Rules : NoState.buckets[r] = NoBucket
  /\ ~NoState.ok
<1>1. NoBucket \in Bucket
  BY DEF NoBucket, Bucket
<1> QED BY Zenon, <1>1 DEF NoState

\* What Allow leaves of the buckets.
LEMMA BucketsAnswer ==
  ASSUME SupInv, BucketTypes, NEW c \in Callers, Answer(c)
  PROVE  buckets' \in [Rules -> Bucket] /\ loop # "down"
<1> DEFINE k == asked[c]
           r == RuleOf[k]
           t == now[c]
<1>1. t # Never /\ t \in Time /\ k \in Keys /\ r \in Rules /\ loop # "down"
  <2>1. t # Never
    BY Zenon DEF Answer
  <2>2. k \in Keys /\ loop # "down"
    BY Zenon, <2>1 DEF SupInv, AskInv
  <2>3. t \in Time
    BY Zenon, <2>1 DEF SupInv, SupType
  <2> QED BY Zenon, <2>1, <2>2, <2>3, SuppressorAssumption
<1>2. Refill(r, t) \in Int /\ Refill(r, t) - 1 \in Int
  <2>1. buckets[r] \in Bucket
    BY Zenon, <1>1 DEF BucketTypes
  <2>2. RefillOf(buckets[r], t) \in Int
    BY Zenon, <1>1, <2>1, RefillLowers
  <2>3. Refill(r, t) = RefillOf(buckets[r], t)
    BY Zenon DEF Refill, RefillOf
  <2> QED BY <2>2, <2>3
<1>3. \A n \in Int : [tokens |-> n, last |-> t] \in Bucket
  BY Zenon, <1>1 DEF Bucket
<1>4. \/ UNCHANGED buckets
      \/ SetBucket(r, Refill(r, t), t)
      \/ SetBucket(r, Refill(r, t) - 1, t)
  BY Zenon DEF Answer, memory
<1> HIDE DEF r, t, k
<1>5. ASSUME NEW n \in Int, SetBucket(r, n, t)
      PROVE  buckets' \in [Rules -> Bucket]
  <2>1. PICK b \in Bucket : b = [tokens |-> n, last |-> t]
    BY Zenon, <1>3
  <2>2. buckets' = [buckets EXCEPT ![r] = b]
    BY Zenon, <1>5, <2>1 DEF SetBucket
  <2> QED BY Zenon, <1>1, <2>2 DEF BucketTypes
<1>6. buckets' \in [Rules -> Bucket]
  BY Zenon, <1>2, <1>4, <1>5 DEF BucketTypes
<1> QED BY Zenon, <1>1, <1>6

\* The bucket of rule r that SaveState writes: a field of those in old or oldLast
\* is as it was at the copy.
Written(old, oldLast, r) ==
  IF image.buckets[r] = NoBucket THEN NoBucket
  ELSE [tokens |-> IF r \in old THEN image.buckets[r].tokens ELSE buckets[r].tokens,
        last   |-> IF r \in oldLast THEN image.buckets[r].last ELSE buckets[r].last]

LEMMA WrittenType ==
  ASSUME BucketTypes, NEW r \in Rules, NEW old, NEW oldLast
  PROVE  Written(old, oldLast, r) \in Bucket
<1>1. image.buckets[r] \in Bucket /\ buckets[r] \in Bucket
  BY Zenon DEF BucketTypes
<1>2. NoBucket \in Bucket
  BY DEF NoBucket, Bucket
<1>3. PICK a \in Bucket, b \in Bucket : a = image.buckets[r] /\ b = buckets[r]
  BY Zenon, <1>1
<1>4. [tokens |-> IF r \in old THEN a.tokens ELSE b.tokens,
       last |-> IF r \in oldLast THEN a.last ELSE b.last] \in Bucket
  BY Zenon DEF Bucket
<1> QED BY Zenon, <1>2, <1>3, <1>4 DEF Written

LEMMA WrittenKept ==
  ASSUME NEW r \in Rules, NEW old, NEW oldLast, buckets[r] \in Bucket,
         image.buckets[r] = buckets[r]
  PROVE  Written(old, oldLast, r) = buckets[r]
<1>1. PICK b \in Bucket : b = buckets[r]
  BY Zenon
<1>2. b = [tokens |-> b.tokens, last |-> b.last]
  BY Zenon DEF Bucket
<1> QED BY Zenon, <1>1, <1>2 DEF Written

LEMMA BucketTypesNext ==
  ASSUME SupInv, BucketTypes, [SuppressorNext]_suppressorVars
  PROVE  BucketTypes'
<1>1. CASE Tick \/ (\E c \in Callers, k \in Keys : Ask(c, k)) \/ UNCHANGED suppressorVars
  <2>1. UNCHANGED <<buckets, disk, image, loop>>
    BY Zenon, <1>1 DEF Tick, Ask, suppressorVars, memory
  <2> QED BY Zenon, <2>1 DEF BucketTypes
<1>2. CASE BeginCycle
  <2>1. UNCHANGED <<buckets, disk>> /\ image' \in {image, disk} /\ loop' # "down"
    BY Zenon, <1>2 DEF BeginCycle, memory, Snapshot
  <2> QED BY Zenon, <2>1 DEF BucketTypes
<1>3. CASE InstallState
  <2>1. buckets' = image.buckets /\ UNCHANGED disk /\ image' = NoState /\ loop' # "down"
    BY Zenon, <1>3 DEF InstallState, Snapshot
  <2> QED BY Zenon, <2>1, NoBuckets DEF BucketTypes
<1>4. ASSUME NEW c \in Callers, Answer(c)
      PROVE  BucketTypes'
  <2>1. UNCHANGED <<disk, image, loop>>
    BY Zenon, <1>4 DEF Answer
  <2> QED BY Zenon, <1>4, <2>1, BucketsAnswer DEF BucketTypes
<1>5. CASE CopyState
  <2>1. UNCHANGED <<buckets, disk>> /\ loop' # "down"
    BY Zenon, <1>5 DEF CopyState, memory
  <2>2. image'.buckets \in {image.buckets, buckets}
    BY <1>5 DEF CopyState
  <2> QED BY Zenon, <2>1, <2>2 DEF BucketTypes
<1>6. CASE WriteState
  <2>1. UNCHANGED buckets /\ image' = NoState /\ loop' # "down"
    BY Zenon, <1>6 DEF WriteState, memory
  <2>2. CASE disk' \in {disk, NoState}
    BY Zenon, <2>1, <2>2, NoBuckets DEF BucketTypes
  <2>3. ASSUME NEW old \in SUBSET Rules, NEW oldLast \in SUBSET Rules,
               disk' = [image EXCEPT !.buckets = [r \in Rules |-> Written(old, oldLast, r)]]
        PROVE  BucketTypes'
    <3>1. \A r \in Rules : Written(old, oldLast, r) \in Bucket
      BY Zenon, WrittenType
    <3>2. [r \in Rules |-> Written(old, oldLast, r)] \in [Rules -> Bucket]
      BY Zenon, <3>1
    <3>3. disk'.buckets = [r \in Rules |-> Written(old, oldLast, r)] /\ disk'.ok = image.ok
      <4>1. image = [ok |-> image.ok, seen |-> image.seen, buckets |-> image.buckets]
        BY Zenon DEF SupInv, SupType, IsState
      <4>2. PICK f : f = [r \in Rules |-> Written(old, oldLast, r)]
        BY Zenon
      <4>3. disk' = [image EXCEPT !.buckets = f]
        BY Zenon, <2>3, <4>2
      <4> QED BY ZenonT(30), <4>1, <4>2, <4>3
    <3>4. image.ok
      BY Zenon, <1>6 DEF WriteState, SupInv, LoopInv
    <3> QED BY Zenon, <2>1, <3>2, <3>3, <3>4, NoBuckets DEF BucketTypes
  <2> QED BY Zenon, <1>6, <2>2, <2>3 DEF WriteState, Written
<1>7. CASE Stop
  <2>1. buckets' = NoState.buckets /\ image' = NoState /\ disk' \in {disk, NoState}
    BY Zenon, <1>7 DEF Stop
  <2> QED BY Zenon, <2>1, NoBuckets DEF BucketTypes
<1> QED BY Zenon, <1>1, <1>2, <1>3, <1>4, <1>5, <1>6, <1>7 DEF SuppressorNext

\* A rule of which every key is kept: of the goroutines that ask about it, the
\* deferred one does so only without a state file.
LEMMA RuleNext ==
  ASSUME SupInv, BucketTypes, [SuppressorNext]_suppressorVars, NEW r \in Rules, KeptRule(r), RuleInv(r), Rate > 0
  PROVE  RuleInv(r)'
<1> DEFINE E == EmittedIn(emits, r)
           F == EmittedIn(emits', r)
<1>1. Emitted(r) = E /\ Emitted(r)' = F
  BY Zenon DEF Emitted, EmittedIn
<1>2. /\ IsFiniteSet(E) /\ Bounded(E)
      /\ ~persist => Paid(E, buckets[r])
      /\ loop \in {"idle", "cycle", "write"} => Paid(E, buckets[r])
      /\ persist /\ loop \in {"down", "idle", "install"} => Paid(E, disk.buckets[r])
      /\ loop = "install" => Paid(E, image.buckets[r])
      /\ loop = "write" => image.buckets[r] = buckets[r]
  BY Zenon, <1>1 DEF RuleInv, BucketInv
<1>3. UNCHANGED persist
  BY Zenon DEF SuppressorNext, suppressorVars, Tick, BeginCycle, InstallState, Ask, Answer, CopyState, WriteState, Stop
<1>4. SUFFICES /\ IsFiniteSet(F) /\ Bounded(F)
               /\ ~persist => Paid(F, buckets'[r])
               /\ loop' \in {"idle", "cycle", "write"} => Paid(F, buckets'[r])
               /\ persist /\ loop' \in {"down", "idle", "install"} => Paid(F, disk'.buckets[r])
               /\ loop' = "install" => Paid(F, image'.buckets[r])
               /\ loop' = "write" => image'.buckets[r] = buckets'[r]
  BY Zenon, <1>1, <1>3 DEF RuleInv, BucketInv
<1>5. emits' = emits => F = E
  BY Zenon
<1>6. emits' = NoEmits => F = {}
  BY Zenon, EmittedNever
<1> HIDE DEF E, F
<1>7. CASE Tick \/ (\E c \in Callers, k \in Keys : Ask(c, k)) \/ UNCHANGED suppressorVars
  <2>1. UNCHANGED <<buckets, disk, image, loop, emits>>
    BY Zenon, <1>7 DEF Tick, Ask, suppressorVars, memory
  <2> QED BY Zenon, <1>2, <1>5, <2>1
<1>8. CASE BeginCycle
  <2>1. UNCHANGED <<buckets, disk, emits>> /\ loop \in {"down", "idle"}
    BY Zenon, <1>8 DEF BeginCycle, memory
  <2>2. CASE persist /\ disk.ok
    <3>1. loop' = "install" /\ image' = disk
      BY Zenon, <1>8, <2>2 DEF BeginCycle
    <3> QED BY Zenon, <1>2, <1>5, <2>1, <2>2, <3>1
  <2>3. CASE ~(persist /\ disk.ok)
    <3>1. loop' \in {"cycle", "idle"}
      BY Zenon, <1>8, <2>3 DEF BeginCycle, Snapshot
    <3>2. Paid(E, buckets[r])
      BY Zenon, <1>2, <2>1, <2>3 DEF BucketTypes
    <3> QED BY Zenon, <1>2, <1>5, <2>1, <3>1, <3>2
  <2> QED BY Zenon, <2>2, <2>3
<1>9. CASE InstallState
  <2>1. /\ buckets' = image.buckets /\ UNCHANGED <<disk, emits>>
        /\ loop = "install" /\ loop' \in {"cycle", "idle"} /\ persist
    BY Zenon, <1>9 DEF InstallState, Snapshot, SupInv, LoopInv
  <2> QED BY Zenon, <1>2, <1>5, <2>1
<1>10. ASSUME NEW c \in Callers, Answer(c)
       PROVE  /\ IsFiniteSet(F) /\ Bounded(F)
              /\ ~persist => Paid(F, buckets'[r])
              /\ loop' \in {"idle", "cycle", "write"} => Paid(F, buckets'[r])
              /\ persist /\ loop' \in {"down", "idle", "install"} => Paid(F, disk'.buckets[r])
              /\ loop' = "install" => Paid(F, image'.buckets[r])
              /\ loop' = "write" => image'.buckets[r] = buckets'[r]
  <2> DEFINE k == asked[c]
             t == now[c]
  <2>1. UNCHANGED <<disk, image, loop>>
    BY Zenon, <1>10 DEF Answer
  <2>2. /\ t \in Time /\ k \in Keys
        /\ c = "main" => loop = "cycle"
        /\ c = "deferred" => CategoryOf[k] = "process"
    <3>1. t # Never
      BY Zenon, <1>10 DEF Answer
    <3> QED BY Zenon, <3>1 DEF SupInv, SupType, AskInv
  <2>3. \/ UNCHANGED <<buckets, emits>>
        \/ SetBucket(RuleOf[k], Refill(RuleOf[k], t), t) /\ UNCHANGED emits
        \/ /\ Refill(RuleOf[k], t) >= 1
           /\ SetBucket(RuleOf[k], Refill(RuleOf[k], t) - 1, t)
           /\ emits' = [emits EXCEPT ![k][t] = @ + 1]
    <3>1. Rate # 0
      BY SuppressorAssumption
    <3> QED BY Zenon, <1>10, <3>1 DEF Answer, memory
  <2>4. emits \in [Keys -> [Time -> Nat]]
    BY Zenon DEF SupInv, SupType
  <2> HIDE DEF k, t
  <2>0. ASSUME emits' = [emits EXCEPT ![k][t] = @ + 1]
        PROVE  /\ RuleOf[k] # r => F = E
               /\ F = E \/ F = E \cup {<<k, t, emits[k][t] + 1>>}
    <3>1. PICK g : g = emits' /\ OneMore(g, emits, k, t)
      BY Zenon, <2>0 DEF OneMore
    <3>2. /\ RuleOf[k] # r => EqualSets(EmittedIn(g, r), EmittedIn(emits, r))
          /\ \/ EqualSets(EmittedIn(g, r), EmittedIn(emits, r))
             \/ OneLarger(EmittedIn(g, r), EmittedIn(emits, r), <<k, t, emits[k][t] + 1>>)
      BY ZenonT(40), <2>2, <2>4, <3>1, EmittedOnce
    <3> QED BY Zenon, <3>1, <3>2 DEF E, F, EqualSets, OneLarger
  <2>5. CASE RuleOf[k] # r
    <3>1. buckets'[r] = buckets[r]
      BY Zenon, <2>3, <2>5 DEF SetBucket, BucketTypes
    <3>2. F = E
      BY Zenon, <1>5, <2>0, <2>3, <2>5
    <3> QED BY Zenon, <1>2, <2>1, <3>1, <3>2
  <2>6. CASE RuleOf[k] = r
    <3>1. ~persist \/ loop = "cycle"
      BY Zenon, <2>2, <2>6 DEF KeptRule, Kept, Callers
    <3>2. loop # "install" /\ loop # "write"
      BY Zenon, <3>1 DEF SupInv, LoopInv
    <3>3. buckets[r] \in Bucket /\ Paid(E, buckets[r])
      BY Zenon, <1>2, <3>1 DEF BucketTypes
    <3>4. Refill(r, t) = RefillOf(buckets[r], t)
      BY Zenon DEF Refill, RefillOf
    <3>5. RefillOf(buckets[r], t) \in Int /\ RefillOf(buckets[r], t) <= RefillOf(buckets[r], t)
      <4>1. RefillOf(buckets[r], t) \in Int
        BY Zenon, <2>2, <3>3, RefillLowers
      <4> QED BY <4>1
    <3>6. \A n : SetBucket(r, n, t) => buckets'[r] = [tokens |-> n, last |-> t]
      BY Zenon DEF SetBucket, BucketTypes
    <3>7. IsFiniteSet(F) /\ Bounded(F) /\ Paid(F, buckets'[r])
      <4>1. CASE UNCHANGED <<buckets, emits>>
        BY Zenon, <1>2, <1>5, <3>3, <4>1
      <4>2. CASE SetBucket(r, Refill(r, t), t) /\ UNCHANGED emits
        BY Zenon, <1>2, <1>5, <2>2, <3>3, <3>4, <3>5, <3>6, <4>2, PaidLower
      <4>3. CASE /\ Refill(r, t) >= 1
                 /\ SetBucket(r, Refill(r, t) - 1, t)
                 /\ emits' = [emits EXCEPT ![k][t] = @ + 1]
        <5>1. buckets'[r] = [tokens |-> RefillOf(buckets[r], t) - 1, last |-> t]
          BY Zenon, <3>4, <3>6, <4>3
        <5>2. PICK e : e[2] = t /\ (F = E \/ F = E \cup {e})
          <6>1. <<k, t, emits[k][t] + 1>>[2] = t
            BY Zenon
          <6> QED BY Zenon, <2>0, <4>3, <6>1
        <5>3. CASE F = E
          <6>1. PICK m \in Int : m = RefillOf(buckets[r], t)
            BY Zenon, <3>5
          <6>2. m - 1 \in Int /\ m - 1 <= m
            OBVIOUS
          <6> QED BY Zenon, <1>2, <2>2, <3>3, <5>1, <5>3, <6>1, <6>2, PaidLower
        <5>4. CASE F = E \cup {e}
          <6>1. \A x \in E : x[2] \in Time
            BY Zenon, EmittedTimes DEF E
          <6>2. RefillOf(buckets[r], t) >= 1
            BY Zenon, <3>4, <4>3
          <6>3. Paid(F, buckets'[r]) /\ Bounded(F)
            BY ZenonT(40), <1>2, <2>2, <3>3, <5>1, <5>2, <5>4, <6>1, <6>2, PaidEvent
          <6>4. IsFiniteSet(F)
            BY Zenon, <1>2, <5>4, FS_AddElement
          <6> QED BY Zenon, <6>3, <6>4
        <5> QED BY Zenon, <5>2, <5>3, <5>4
      <4> QED BY Zenon, <2>3, <2>6, <4>1, <4>2, <4>3
    <3> QED BY Zenon, <2>1, <3>1, <3>2, <3>7
  <2> QED BY Zenon, <2>5, <2>6
<1>11. CASE CopyState
  <2>1. UNCHANGED <<buckets, disk, emits>> /\ loop = "cycle"
    BY Zenon, <1>11 DEF CopyState, memory
  <2>2. CASE persist
    <3>1. loop' = "write" /\ image'.buckets = buckets
      BY <1>11, <2>2 DEF CopyState
    <3> QED BY Zenon, <1>2, <1>5, <2>1, <3>1
  <2>3. CASE ~persist
    <3>1. loop' = "idle"
      BY Zenon, <1>11, <2>3 DEF CopyState
    <3> QED BY Zenon, <1>2, <1>5, <2>1, <2>3, <3>1
  <2> QED BY Zenon, <2>2, <2>3
<1>12. CASE WriteState
  <2>1. UNCHANGED buckets /\ loop = "write" /\ loop' = "idle"
    BY Zenon, <1>12 DEF WriteState, memory
  <2>2. CASE emits' = NoEmits
    BY Zenon, <1>6, <2>1, <2>2, NothingPaid
  <2>3. ASSUME NEW old \in SUBSET Rules, NEW oldLast \in SUBSET Rules, UNCHANGED emits,
               disk' = [image EXCEPT !.buckets = [x \in Rules |-> Written(old, oldLast, x)]]
        PROVE  F = E /\ disk'.buckets[r] = buckets[r]
    <3>1. Written(old, oldLast, r) = buckets[r]
      BY Zenon, <1>2, <2>1, WrittenKept DEF BucketTypes
    <3>2. image = [ok |-> image.ok, seen |-> image.seen, buckets |-> image.buckets]
      BY Zenon DEF SupInv, SupType, IsState
    <3>3. PICK f : f = [x \in Rules |-> Written(old, oldLast, x)]
      BY Zenon
    <3>4. f[r] = Written(old, oldLast, r)
      BY Zenon, <3>3
    <3>5. disk' = [image EXCEPT !.buckets = f]
      BY Zenon, <2>3, <3>3
    <3>6. disk'.buckets = f
      BY ZenonT(30), <3>2, <3>5
    <3> QED BY Zenon, <1>5, <2>3, <3>1, <3>4, <3>6
  <2>4. emits' = NoEmits \/ (F = E /\ disk'.buckets[r] = buckets[r])
    BY Zenon, <1>12, <2>3 DEF WriteState, Written
  <2> QED BY Zenon, <1>2, <2>1, <2>2, <2>4
<1>13. CASE Stop
  <2>1. loop' = "down" /\ (emits' = NoEmits \/ (loop = "idle" /\ persist /\ UNCHANGED <<disk, emits>>))
    BY Zenon, <1>13 DEF Stop
  <2>2. CASE emits' = NoEmits
    BY Zenon, <1>6, <2>1, <2>2, NothingPaid
  <2>3. CASE loop = "idle" /\ persist /\ UNCHANGED <<disk, emits>>
    BY Zenon, <1>2, <1>5, <2>1, <2>3
  <2> QED BY Zenon, <2>1, <2>2, <2>3
<1> QED BY Zenon, <1>7, <1>8, <1>9, <1>10, <1>11, <1>12, <1>13 DEF SuppressorNext

LEMMA RateInit == SuppressorInit => RateInv
<1> SUFFICES ASSUME SuppressorInit
             PROVE  RateInv
  OBVIOUS
<1>1. BucketTypes
  BY Zenon, NoBuckets DEF SuppressorInit, BucketTypes
<1>2. ASSUME NEW r \in Rules
      PROVE  RuleInv(r)
  <2>1. Emitted(r) = {}
    BY Zenon, EmittedNever DEF SuppressorInit, Emitted, EmittedIn
  <2>2. loop = "down"
    BY Zenon DEF SuppressorInit
  <2> QED BY Zenon, <2>1, <2>2, NothingPaid DEF RuleInv, BucketInv
<1> QED BY Zenon, <1>1, <1>2 DEF RateInv

LEMMA RateNext ==
  ASSUME SupInv, RateInv, [SuppressorNext]_suppressorVars
  PROVE  RateInv'
<1>1. \A r \in Rules : KeptRule(r)' => KeptRule(r)
  <2>1. UNCHANGED persist
    BY Zenon DEF SuppressorNext, suppressorVars, Tick, BeginCycle, InstallState, Ask, Answer, CopyState, WriteState, Stop
  <2> QED BY Zenon, <2>1 DEF KeptRule, Kept
<1> QED BY Zenon, <1>1, BucketTypesNext, RuleNext DEF RateInv

\* consumeToken: whichever goroutine asks, however late it comes to the lock and
\* whatever the main loop reads and writes in between, the events of a rule from
\* any one to any later one are at most the burst and what the rate adds.
THEOREM RateKept == SuppressorSpec => []RateLimited
<1>1. RateInv => RateLimited
  <2> SUFFICES ASSUME RateInv, Rate > 0, NEW r \in Rules, KeptRule(r),
                      NEW first \in Emitted(r), NEW last \in Emitted(r), first[2] <= last[2]
               PROVE  Cardinality({e \in Emitted(r) : e[2] \in first[2] .. last[2]})
                        <= Burst + Rate * (last[2] - first[2])
    BY Zenon DEF RateLimited, KeptRule
  <2>1. first[2] \in Time /\ last[2] \in Time
    BY Zenon DEF Emitted
  <2>2. Bounded(Emitted(r))
    BY Zenon DEF RateInv, RuleInv
  <2> QED BY Zenon, <2>1, <2>2 DEF Bounded, Between
<1> QED BY <1>1, SupInit, SupNext, RateInit, RateNext, PTL DEF SuppressorSpec
-----------------------------------------------------------------------------
(***************************************************************************)
(* Counting in a channel                                                   *)
(***************************************************************************)
LEMMA InSeqType ==
  ASSUME NEW S, NEW s \in Seq(S), NEW x
  PROVE  /\ IsFiniteSet({i \in DOMAIN s : s[i] = x})
         /\ InSeq(x, s) \in Nat
<1>1. DOMAIN s = 1 .. Len(s) /\ Len(s) \in Nat
  BY Zenon, LenProperties
<1>2. IsFiniteSet(1 .. Len(s))
  BY <1>1, FS_Interval
<1>3. {i \in DOMAIN s : s[i] = x} \in SUBSET (1 .. Len(s))
  BY ZenonT(30), <1>1
<1>4. IsFiniteSet({i \in DOMAIN s : s[i] = x})
  BY ZenonT(30), <1>2, <1>3, FS_Subset
<1> QED BY ZenonT(30), <1>4, FS_CardinalityType DEF InSeq

LEMMA InSeqEmpty ==
  ASSUME NEW x
  PROVE  InSeq(x, << >>) = 0
<1>1. {i \in DOMAIN << >> : << >>[i] = x} = {}
  OBVIOUS
<1> QED BY ZenonT(30), <1>1, FS_EmptySet DEF InSeq

LEMMA InSeqAppend ==
  ASSUME NEW S, NEW s \in Seq(S), NEW e \in S, NEW x
  PROVE  InSeq(x, Append(s, e)) = InSeq(x, s) + Is(x, e)
<1> DEFINE t == Append(s, e)
           A == {i \in DOMAIN s : s[i] = x}
           B == {i \in DOMAIN t : t[i] = x}
           n == Len(s)
<1>0. IsFiniteSet(A) /\ InSeq(x, s) \in Nat
  BY Zenon, InSeqType
<1>1. DOMAIN s = 1 .. n /\ n \in Nat /\ IsFiniteSet(A) /\ InSeq(x, s) \in Nat
  BY ZenonT(30), <1>0, LenProperties
<1>2. /\ t \in Seq(S) /\ Len(t) = n + 1
      /\ \A i \in 1 .. n : t[i] = s[i]
      /\ t[n + 1] = e
  BY AppendProperties
<1>3. DOMAIN t = 1 .. n + 1
  BY Zenon, <1>2, LenProperties
<1> HIDE DEF t, n
<1>4. n + 1 \notin A
  BY <1>1
<1>5. CASE e = x
  <2>1. B = A \cup {n + 1}
    BY <1>1, <1>2, <1>3, <1>5
  <2>2. Cardinality(B) = Cardinality(A) + 1
    BY Zenon, <1>1, <1>4, <2>1, FS_AddElement
  <2> QED BY Zenon, <1>5, <2>2 DEF InSeq, Is, t
<1>6. CASE e # x
  <2>1. B = A
    BY <1>1, <1>2, <1>3, <1>6
  <2>2. InSeq(x, t) = Cardinality(B) /\ InSeq(x, s) = Cardinality(A)
    BY Zenon DEF InSeq
  <2>3. InSeq(x, t) = InSeq(x, s) /\ Is(x, e) = 0
    BY Zenon, <1>6, <2>1, <2>2 DEF Is
  <2> QED BY <1>1, <2>3 DEF t
<1> QED BY ZenonT(30), <1>5, <1>6

LEMMA InSeqTail ==
  ASSUME NEW S, NEW s \in Seq(S), s # << >>, NEW x
  PROVE  InSeq(x, s) = InSeq(x, Tail(s)) + Is(x, Head(s))
<1> DEFINE t == Tail(s)
           A == {i \in DOMAIN s : s[i] = x}
           B == {i \in DOMAIN t : t[i] = x}
           n == Len(s)
           f == [i \in B |-> i + 1]
<1>1. /\ DOMAIN s = 1 .. n /\ n \in Nat /\ n # 0
  BY Zenon, LenProperties, EmptySeq
<1>2. /\ t \in Seq(S) /\ Len(t) = n - 1
      /\ \A i \in 1 .. n - 1 : t[i] = s[i + 1]
      /\ Head(s) = s[1] /\ Head(s) \in S
  BY HeadTailProperties
<1>3. DOMAIN t = 1 .. n - 1
  BY Zenon, <1>2, LenProperties
<1>4. IsFiniteSet(A) /\ IsFiniteSet(B) /\ InSeq(x, t) \in Nat
  BY ZenonT(40), <1>2, InSeqType
<1> HIDE DEF t, n
<1>5. f \in Bijection(B, A \ {1})
  <2>1. \A i \in B : i \in 1 .. n - 1 /\ i + 1 \in A \ {1}
    BY <1>1, <1>2, <1>3
  <2>2. \A j \in A \ {1} : j - 1 \in B /\ (j - 1) + 1 = j
    BY <1>1, <1>2, <1>3
  <2>3. f \in Injection(B, A \ {1})
    <3>1. f \in [B -> A \ {1}]
      BY Zenon, <2>1
    <3>2. \A i, j \in B : f[i] = f[j] => i = j
      BY <2>1
    <3> QED BY Zenon, <3>1, <3>2 DEF Injection, IsInjective
  <2>4. f \in Surjection(B, A \ {1})
    <3>1. \A j \in A \ {1} : \E i \in B : f[i] = j
      BY Zenon, <2>2
    <3> QED BY Zenon, <2>1, <3>1 DEF Surjection
  <2> QED BY Zenon, <2>3, <2>4 DEF Bijection
<1>6. Cardinality(A \ {1}) = Cardinality(B)
  BY ZenonT(30), <1>4, <1>5, FS_Bijection DEF ExistsBijection
<1>7. Cardinality(A \ {1}) = IF 1 \in A THEN Cardinality(A) - 1 ELSE Cardinality(A)
  BY Zenon, <1>4, FS_RemoveElement
<1>8. 1 \in A <=> Head(s) = x
  BY <1>1, <1>2
<1>9. Cardinality(A) \in Nat /\ Cardinality(B) \in Nat
  BY Zenon, <1>4, FS_CardinalityType
<1>10. InSeq(x, t) = Cardinality(B) /\ InSeq(x, s) = Cardinality(A)
  BY Zenon DEF InSeq
<1> HIDE DEF A, B
<1>11. CASE Head(s) = x
  BY <1>6, <1>7, <1>8, <1>9, <1>10, <1>11 DEF Is, t
<1>12. CASE Head(s) # x
  BY <1>6, <1>7, <1>8, <1>9, <1>10, <1>12 DEF Is, t
<1> QED BY Zenon, <1>11, <1>12
-----------------------------------------------------------------------------
(***************************************************************************)
(* Types, and which worker holds what                                      *)
(***************************************************************************)
Pos == Nat \ {0}

PipeType ==
  /\ main \in MainStates
  /\ fastCh \in Seq(Pos)
  /\ deferredCh \in Seq(Pos)
  /\ responseCh \in Seq(Pos)
  /\ stage \in [Workers -> {"idle", "busy", "send"}]
  /\ job \in [Workers -> Nat]
  /\ hand \in [Workers -> Nat]
  /\ writing \in Nat
  /\ file \in Seq(Pos)
  /\ events \in Nat
  /\ recorded \in Nat

\* A worker holds a record exactly between recordResponse's unlock and its send,
\* and an event from its receive to the end of its handler.
HoldInv ==
  /\ \A w \in Workers : hand[w] # 0 <=> stage[w] = "send"
  /\ \A w \in {"fast", "deferred"} : job[w] # 0 <=> stage[w] # "idle"
  /\ job["main"] = 0

\* The main loop polls only while it runs, and what has been waited for stays
\* empty behind the closed channel.
ExitInv ==
  /\ stage["main"] # "idle" => main \in {"run", "panic"}
  /\ main \in {"closeDeferred", "awaitDeferred", "closeLoader", "exit"} =>
       responseCh = << >> /\ writing = 0
  /\ main \in {"closeLoader", "exit"} =>
       deferredCh = << >> /\ stage["deferred"] = "idle"

PipeInv == PipeType /\ HoldInv /\ ExitInv

LEMMA PosAppend ==
  ASSUME NEW s \in Seq(Pos), NEW e \in Pos
  PROVE  Append(s, e) \in Seq(Pos)
BY Zenon, AppendProperties

LEMMA PipeInit == Init => PipeInv
BY SMTT(30) DEF Init, PipeInv, PipeType, HoldInv, ExitInv, MainStates, Workers

LEMMA PipeNext == PipeInv /\ [Next]_vars => PipeInv'
<1> SUFFICES ASSUME PipeInv, [Next]_vars
             PROVE  PipeInv'
  BY Zenon
<1> USE DEF PipeInv, PipeType, HoldInv, ExitInv, chans, work, fates, records
<1>1. CASE Deliver
  <2>1. events + 1 \in Pos /\ events' = events + 1 /\ events' \in Nat
    BY <1>1 DEF Deliver, Pos
  <2>2. fastCh' \in Seq(Pos)
    <3>1. fastCh' = fastCh \/ fastCh' = Append(fastCh, events + 1)
      BY Zenon, <1>1 DEF Deliver
    <3> QED BY Zenon, <2>1, <3>1, PosAppend
  <2> QED BY ZenonT(30), <1>1, <2>1, <2>2 DEF Deliver
<1>2. CASE FastTake
  <2>1. Head(fastCh) \in Pos /\ fastCh' \in Seq(Pos)
    BY <1>2 DEF FastTake
  <2>2. /\ stage["fast"] = "idle"
        /\ stage' = [stage EXCEPT !["fast"] = "busy"]
        /\ job' = [job EXCEPT !["fast"] = Head(fastCh)]
    BY Zenon, <1>2 DEF FastTake, Begin
  <2> HIDE DEF chans
  <2> QED BY ZenonT(30), <1>2, <2>1, <2>2 DEF FastTake, Workers, Pos
<1>3. CASE DeferredTake
  <2>1. Head(deferredCh) \in Pos /\ deferredCh' \in Seq(Pos)
    BY <1>3 DEF DeferredTake
  <2>2. /\ stage["deferred"] = "idle"
        /\ stage' = [stage EXCEPT !["deferred"] = "busy"]
        /\ job' = [job EXCEPT !["deferred"] = Head(deferredCh)]
        /\ deferredCh # << >>
        /\ main \notin {"closeLoader", "exit"}
    BY Zenon, <1>3 DEF DeferredTake, Begin
  <2> QED BY ZenonT(30), <1>3, <2>1, <2>2 DEF DeferredTake, Workers, Pos
<1>4. ASSUME Panic
      PROVE  PipeInv'
  BY Zenon, <1>4 DEF Panic, MainStates
<1>5. CASE FastDefer
  <2>1. CASE DeferredClosed
    BY Zenon, <1>4, <1>5, <2>1 DEF FastDefer
  <2>2. CASE ~DeferredClosed
    <3>1. /\ stage["fast"] = "busy" /\ main \notin {"closeLoader", "exit"}
          /\ stage' = [stage EXCEPT !["fast"] = "idle"]
          /\ job' = [job EXCEPT !["fast"] = 0]
      BY ZenonT(30), <1>5, <2>2 DEF FastDefer, Over, DeferredClosed, Alive
    <3>2. job["fast"] \in Pos
      BY Zenon, <3>1 DEF Pos, Workers
    <3>3. deferredCh' \in Seq(Pos)
      <4>1. deferredCh' = deferredCh \/ deferredCh' = Append(deferredCh, job["fast"])
        BY Zenon, <1>5, <2>2 DEF FastDefer
      <4> QED BY Zenon, <3>2, <4>1, PosAppend
    <3> QED BY ZenonT(30), <1>5, <2>2, <3>1, <3>3 DEF FastDefer, Workers
  <2> QED BY Zenon, <2>1, <2>2
<1>6. ASSUME NEW w \in Workers, Respond(w)
      PROVE  PipeInv'
  <2>1. /\ stage[w] = "busy" /\ recorded + 1 # 0 /\ recorded + 1 \in Nat
        /\ recorded' = recorded + 1
        /\ stage' = [stage EXCEPT ![w] = "send"]
        /\ hand' = [hand EXCEPT ![w] = recorded + 1]
        /\ main \notin {"exit", "panic"}
    BY <1>6 DEF Respond, Alive
  <2> QED BY SMTT(30), <1>6, <2>1 DEF Respond, Workers
<1>7. ASSUME NEW w \in Workers, Send(w)
      PROVE  PipeInv'
  <2>1. CASE ResponsesClosed
    BY Zenon, <1>4, <1>7, <2>1 DEF Send
  <2>2. CASE ~ResponsesClosed
    <3>1. /\ stage[w] = "send" /\ hand' = [hand EXCEPT ![w] = 0]
          /\ main \notin {"closeDeferred", "awaitDeferred", "closeLoader", "exit"}
          /\ UNCHANGED main
      BY ZenonT(30), <1>7, <2>2 DEF Send, ResponsesClosed, Alive
    <3>2. hand[w] \in Pos
      BY ZenonT(30), <3>1 DEF Pos
    <3>3. responseCh' \in Seq(Pos)
      <4>1. responseCh' = responseCh \/ responseCh' = Append(responseCh, hand[w])
        BY ZenonT(30), <1>7, <2>2 DEF Send
      <4> QED BY Zenon, <3>2, <4>1, PosAppend
    <3>4. CASE w = "main"
      <4>1. stage' = [stage EXCEPT !["main"] = "busy"] /\ UNCHANGED job
        BY ZenonT(30), <1>7, <2>2, <3>4 DEF Send
      <4> QED BY ZenonT(30), <1>7, <2>2, <3>1, <3>3, <3>4, <4>1 DEF Send, Workers
    <3>5. CASE w # "main"
      <4>1. stage' = [stage EXCEPT ![w] = "idle"] /\ job' = [job EXCEPT ![w] = 0]
        BY ZenonT(30), <1>7, <2>2, <3>5 DEF Send, Over
      <4> QED BY ZenonT(30), <1>7, <2>2, <3>1, <3>3, <3>5, <4>1 DEF Send, Workers
    <3> QED BY Zenon, <3>4, <3>5
  <2> QED BY Zenon, <2>1, <2>2
<1>8. ASSUME NEW w \in Workers, Finish(w)
      PROVE  PipeInv'
  <2>1. /\ w # "main" /\ stage[w] = "busy"
        /\ stage' = [stage EXCEPT ![w] = "idle"]
        /\ job' = [job EXCEPT ![w] = 0]
    BY ZenonT(30), <1>8 DEF Finish, Over
  <2> QED BY ZenonT(30), <1>8, <2>1 DEF Finish, Workers
<1>9. CASE WriterTake
  <2>1. Head(responseCh) \in Pos /\ responseCh' \in Seq(Pos) /\ responseCh # << >>
    BY <1>9 DEF WriterTake
  <2> QED BY ZenonT(30), <1>9, <2>1 DEF WriterTake, Pos
<1>10. CASE WriterWrite
  <2>1. file' \in Seq(Pos)
    <3>1. writing \in Pos /\ (file' = file \/ file' = Append(file, writing))
      BY Zenon, <1>10 DEF WriterWrite, Pos
    <3> QED BY Zenon, <3>1, PosAppend
  <2> QED BY Zenon, <1>10, <2>1 DEF WriterWrite
<1>11. CASE BeginRun
  <2>1. stage["main"] = "idle" /\ stage' = [stage EXCEPT !["main"] = "busy"]
        /\ job' = [job EXCEPT !["main"] = 0]
    BY Zenon, <1>11 DEF BeginRun, Begin
  <2> QED BY Zenon, <1>11, <2>1 DEF BeginRun, Workers, MainStates
<1>12. CASE EndRun
  <2>1. stage["main"] = "busy" /\ stage' = [stage EXCEPT !["main"] = "idle"]
        /\ job' = [job EXCEPT !["main"] = 0]
    BY Zenon, <1>12 DEF EndRun, Over
  <2> QED BY ZenonT(30), <1>12, <2>1 DEF EndRun, Workers, MainStates
<1>13. ASSUME NEW c \in Clients, AnswerShutdown(c) \/ RequestShutdown(c)
       PROVE  PipeInv'
  BY ZenonT(30), <1>13 DEF AnswerShutdown, RequestShutdown, MainStates
<1>14. CASE Shutdown
  BY Zenon, <1>14 DEF Shutdown, ClearAgentPID, StopServer, CleanupNFT, CloseResponses, AwaitWriter,
               CloseDeferred, AwaitDeferred, CloseLoader, MainStates
<1>15. CASE UNCHANGED vars
  BY Zenon, <1>15 DEF vars
<1> QED BY Zenon, <1>1, <1>2, <1>3, <1>5, <1>6, <1>7, <1>8, <1>9, <1>10, <1>11, <1>12, <1>13, <1>14, <1>15
       DEF Next, FastStep, DeferredStep, WriterStep, MainStep, Workers

LEMMA PipeAlways == Spec => []PipeInv
BY PipeInit, PipeNext, PTL DEF Spec

\* The order in which Agent.Shutdown closes and waits, and main calls it, leaves
\* nothing with the writer, the deferred evaluation or the main loop.
THEOREM CleanExit == Spec => []ExitIsClean
<1>1. PipeInv => ExitIsClean
  BY ZenonT(30) DEF PipeInv, PipeType, HoldInv, ExitInv, ExitIsClean, Workers
<1> QED BY <1>1, PipeAlways, PTL
-----------------------------------------------------------------------------
(***************************************************************************)
(* Where a response record is                                              *)
(***************************************************************************)
Hands(r) == Is(r, hand["main"]) + Is(r, hand["fast"]) + Is(r, hand["deferred"])

RecordPlaces(r) ==
  InSeq(r, responseCh) + InSeq(r, file) + Is(r, writing) + In(r, dropped) + Hands(r)

\* A record that was counted has one place, one that was not has none.
RecordInv == \A r \in Pos : RecordPlaces(r) = In(r, 1 .. recorded)

LEMMA IsType == \A x, y : Is(x, y) \in {0, 1}
BY Zenon DEF Is

LEMMA InType == \A x, S : In(x, S) \in {0, 1}
BY Zenon DEF In

\* A new element of a set that x was not in.
LEMMA InAdded ==
  ASSUME NEW x, NEW S, NEW y, In(x, S) + Is(x, y) <= 1
  PROVE  In(x, S \cup {y}) = In(x, S) + Is(x, y)
BY DEF In, Is

LEMMA InGrown ==
  ASSUME NEW x \in Pos, NEW n \in Nat
  PROVE  In(x, 1 .. n + 1) = In(x, 1 .. n) + Is(x, n + 1)
<1>1. CASE x = n + 1
  BY <1>1 DEF In, Is, Pos
<1>2. CASE x # n + 1
  <2>1. x \in 1 .. n + 1 <=> x \in 1 .. n
    BY <1>2 DEF Pos
  <2> QED BY <1>2, <2>1 DEF In, Is
<1> QED BY ZenonT(30), <1>1, <1>2

LEMMA NotZero ==
  ASSUME NEW x \in Pos
  PROVE  Is(x, 0) = 0
BY Zenon DEF Is, Pos

LEMMA HandsNext ==
  ASSUME hand \in [Workers -> Nat], NEW w \in Workers, NEW v, NEW r,
         hand' = [hand EXCEPT ![w] = v]
  PROVE  Hands(r)' = Hands(r) - Is(r, hand[w]) + Is(r, v)
<1>1. \A x \in Workers : hand'[x] = IF x = w THEN v ELSE hand[x]
  BY Zenon
<1>2. \A x \in Workers : Is(r, hand[x]) \in {0, 1} /\ Is(r, v) \in {0, 1}
  BY ZenonT(30), IsType
<1>3. /\ Is(r, hand'["main"]) = IF w = "main" THEN Is(r, v) ELSE Is(r, hand["main"])
      /\ Is(r, hand'["fast"]) = IF w = "fast" THEN Is(r, v) ELSE Is(r, hand["fast"])
      /\ Is(r, hand'["deferred"]) = IF w = "deferred" THEN Is(r, v) ELSE Is(r, hand["deferred"])
  BY ZenonT(30), <1>1 DEF Workers
<1>4. w \in {"main", "fast", "deferred"}
  BY Zenon DEF Workers
<1> QED BY <1>2, <1>3, <1>4 DEF Hands, Workers

LEMMA RecordTypes ==
  ASSUME PipeInv, NEW r
  PROVE  /\ InSeq(r, responseCh) \in Nat
         /\ InSeq(r, file) \in Nat
         /\ Is(r, writing) \in Nat
         /\ In(r, dropped) \in Nat
         /\ Hands(r) \in Nat
         /\ \A w \in Workers : Is(r, hand[w]) \in Nat /\ Is(r, hand[w]) <= Hands(r)
<1>1. InSeq(r, responseCh) \in Nat
  BY Zenon, InSeqType DEF PipeInv, PipeType
<1>2. InSeq(r, file) \in Nat
  BY Zenon, InSeqType DEF PipeInv, PipeType
<1>3. \A y : Is(r, y) \in Nat
  BY IsType
<1>4. In(r, dropped) \in Nat
  BY InType
<1>5. Hands(r) \in Nat /\ \A w \in Workers : Is(r, hand[w]) <= Hands(r)
  BY <1>3 DEF Hands, Workers
<1> QED BY ZenonT(30), <1>1, <1>2, <1>3, <1>4, <1>5

LEMMA RecordNext == PipeInv /\ RecordInv /\ [Next]_vars => RecordInv'
<1> SUFFICES ASSUME PipeInv, RecordInv, [Next]_vars, NEW r \in Pos
             PROVE  RecordPlaces(r)' = In(r, 1 .. recorded')
  BY Zenon DEF RecordInv
<1>1. RecordPlaces(r) = In(r, 1 .. recorded)
  BY Zenon DEF RecordInv
<1>2. /\ hand \in [Workers -> Nat] /\ recorded \in Nat
      /\ responseCh \in Seq(Pos) /\ file \in Seq(Pos) /\ writing \in Nat
      /\ \A w \in Workers : hand[w] # 0 <=> stage[w] = "send"
  BY Zenon DEF PipeInv, PipeType, HoldInv
<1>3. /\ InSeq(r, responseCh) \in Nat /\ InSeq(r, file) \in Nat /\ Is(r, writing) \in Nat
      /\ In(r, dropped) \in Nat /\ Hands(r) \in Nat
      /\ \A w \in Workers : Is(r, hand[w]) \in Nat /\ Is(r, hand[w]) <= Hands(r)
  BY ZenonT(30), RecordTypes
<1>4. In(r, 1 .. recorded) <= 1 /\ RecordPlaces(r) <= 1
  BY <1>1, InType
<1>5. ASSUME UNCHANGED <<responseCh, file, writing, dropped, hand, recorded>>
      PROVE  RecordPlaces(r)' = In(r, 1 .. recorded')
  BY ZenonT(30), <1>1, <1>5 DEF RecordPlaces, Hands
<1>6. ASSUME NEW w \in Workers, Respond(w)
      PROVE  RecordPlaces(r)' = In(r, 1 .. recorded')
  <2>1. /\ stage[w] = "busy"
        /\ recorded' = recorded + 1
        /\ hand' = [hand EXCEPT ![w] = recorded + 1]
        /\ UNCHANGED <<responseCh, file, writing, dropped>>
    BY ZenonT(30), <1>6 DEF Respond, chans
  <2>2. hand[w] = 0
    BY ZenonT(30), <1>2, <2>1
  <2>3. Is(r, hand[w]) = 0
    BY ZenonT(30), <2>2, NotZero
  <2>4. Hands(r)' = Hands(r) - Is(r, hand[w]) + Is(r, recorded + 1)
    BY ZenonT(30), <1>2, <2>1, HandsNext
  <2>5. In(r, 1 .. recorded') = In(r, 1 .. recorded) + Is(r, recorded + 1)
    BY ZenonT(30), <1>2, <2>1, InGrown
  <2>6. RecordPlaces(r)' = InSeq(r, responseCh) + InSeq(r, file) + Is(r, writing) + In(r, dropped)
                           + Hands(r)'
    BY ZenonT(30), <2>1 DEF RecordPlaces
  <2>7. Is(r, recorded + 1) \in Nat
    BY IsType
  <2> QED BY SMTT(30), <1>1, <1>3, <2>3, <2>4, <2>5, <2>6, <2>7 DEF RecordPlaces
<1>7. ASSUME NEW w \in Workers, Send(w)
      PROVE  RecordPlaces(r)' = In(r, 1 .. recorded')
  <2>1. CASE ResponsesClosed
    BY ZenonT(30), <1>5, <1>7, <2>1 DEF Send, Panic, chans, work, records
  <2>2. CASE ~ResponsesClosed
    <3>1. /\ stage[w] = "send" /\ hand' = [hand EXCEPT ![w] = 0]
          /\ UNCHANGED <<file, writing, recorded>>
          /\ \/ responseCh' = Append(responseCh, hand[w]) /\ UNCHANGED dropped
             \/ dropped' = dropped \cup {hand[w]} /\ UNCHANGED responseCh
      BY ZenonT(30), <1>7, <2>2 DEF Send
    <3>2. Hands(r)' = Hands(r) - Is(r, hand[w]) + Is(r, 0)
      BY Zenon, <1>2, <3>1, HandsNext
    <3>3. Is(r, 0) = 0
      BY ZenonT(30), NotZero
    <3>4. hand[w] \in Pos
      BY ZenonT(30), <1>2, <3>1 DEF Pos
    <3>5. In(r, dropped) + Is(r, hand[w]) <= 1
      BY SMTT(30), <1>3, <1>4 DEF RecordPlaces
    <3>6. InSeq(r, responseCh') + In(r, dropped') = InSeq(r, responseCh) + In(r, dropped) + Is(r, hand[w])
      <4>1. CASE responseCh' = Append(responseCh, hand[w]) /\ UNCHANGED dropped
        <5>1. InSeq(r, Append(responseCh, hand[w])) = InSeq(r, responseCh) + Is(r, hand[w])
          BY ZenonT(30), <1>2, <3>4, InSeqAppend
        <5> QED BY <1>3, <4>1, <5>1
      <4>2. CASE dropped' = dropped \cup {hand[w]} /\ UNCHANGED responseCh
        <5>1. In(r, dropped \cup {hand[w]}) = In(r, dropped) + Is(r, hand[w])
          BY ZenonT(30), <3>5, InAdded
        <5> QED BY <1>3, <4>2, <5>1
      <4> QED BY ZenonT(30), <3>1, <4>1, <4>2
    <3>7. RecordPlaces(r)' = InSeq(r, responseCh') + InSeq(r, file) + Is(r, writing) + In(r, dropped')
                             + Hands(r)'
      BY ZenonT(30), <3>1 DEF RecordPlaces
    <3>8. InSeq(r, responseCh') \in Nat /\ In(r, dropped') \in Nat
      <4>1. responseCh' \in Seq(Pos)
        BY ZenonT(30), PipeNext DEF PipeInv, PipeType
      <4>2. InSeq(r, responseCh') \in Nat
        BY ZenonT(40), <4>1, InSeqType
      <4> QED BY <4>2, InType
    <3>9. RecordPlaces(r)' = RecordPlaces(r)
      BY SMTT(30), <1>3, <3>2, <3>3, <3>6, <3>7, <3>8 DEF RecordPlaces
    <3> QED BY ZenonT(30), <1>1, <3>1, <3>9
  <2> QED BY ZenonT(30), <2>1, <2>2
<1>8. CASE WriterTake
  <2>1. /\ writing = 0 /\ responseCh # << >>
        /\ writing' = Head(responseCh) /\ responseCh' = Tail(responseCh)
        /\ UNCHANGED <<file, dropped, hand, recorded>>
    BY ZenonT(30), <1>8 DEF WriterTake, work
  <2>2. InSeq(r, responseCh) = InSeq(r, Tail(responseCh)) + Is(r, Head(responseCh))
    BY ZenonT(30), <1>2, <2>1, InSeqTail
  <2>3. Is(r, writing) = 0
    BY ZenonT(30), <2>1, NotZero
  <2>4. Hands(r)' = Hands(r)
    BY ZenonT(30), <2>1 DEF Hands
  <2>5. RecordPlaces(r)' = InSeq(r, Tail(responseCh)) + InSeq(r, file) + Is(r, Head(responseCh))
                           + In(r, dropped) + Hands(r)
    BY ZenonT(30), <2>1, <2>4 DEF RecordPlaces
  <2>6. InSeq(r, Tail(responseCh)) \in Nat /\ Is(r, Head(responseCh)) \in Nat
    <3>1. Tail(responseCh) \in Seq(Pos)
      BY <1>2, <2>1
    <3>2. InSeq(r, Tail(responseCh)) \in Nat
      BY Zenon, <3>1, InSeqType
    <3> QED BY <3>2, IsType
  <2>7. RecordPlaces(r)' = RecordPlaces(r)
    BY SMTT(30), <1>3, <2>2, <2>3, <2>5, <2>6 DEF RecordPlaces
  <2> QED BY ZenonT(30), <1>1, <2>1, <2>7
<1>9. CASE WriterWrite
  <2>1. /\ writing # 0 /\ writing' = 0
        /\ UNCHANGED <<responseCh, hand, recorded>>
        /\ \/ file' = Append(file, writing) /\ UNCHANGED dropped
           \/ dropped' = dropped \cup {writing} /\ UNCHANGED file
    BY ZenonT(30), <1>9 DEF WriterWrite, chans, work
  <2>2. Is(r, writing') = 0
    BY ZenonT(30), <2>1, NotZero
  <2>3. Hands(r)' = Hands(r)
    BY ZenonT(30), <2>1 DEF Hands
  <2>4. In(r, dropped) + Is(r, writing) <= 1
    BY SMTT(30), <1>3, <1>4 DEF RecordPlaces
  <2>5. InSeq(r, file') + In(r, dropped') = InSeq(r, file) + In(r, dropped) + Is(r, writing)
    <3>1. CASE file' = Append(file, writing) /\ UNCHANGED dropped
      <4>1. writing \in Pos
        BY ZenonT(30), <1>2, <2>1 DEF Pos
      <4>2. InSeq(r, Append(file, writing)) = InSeq(r, file) + Is(r, writing)
        BY ZenonT(30), <1>2, <4>1, InSeqAppend
      <4> QED BY <1>3, <3>1, <4>2
    <3>2. CASE dropped' = dropped \cup {writing} /\ UNCHANGED file
      <4>1. In(r, dropped \cup {writing}) = In(r, dropped) + Is(r, writing)
        BY ZenonT(30), <2>4, InAdded
      <4> QED BY SMTT(30), <1>3, <3>2, <4>1
    <3> QED BY ZenonT(30), <2>1, <3>1, <3>2
  <2>6. RecordPlaces(r)' = InSeq(r, responseCh) + InSeq(r, file') + Is(r, writing') + In(r, dropped')
                           + Hands(r)
    BY ZenonT(30), <2>1, <2>3 DEF RecordPlaces
  <2>7. InSeq(r, file') \in Nat /\ In(r, dropped') \in Nat
    <3>1. file' \in Seq(Pos)
      BY ZenonT(30), PipeNext DEF PipeInv, PipeType
    <3>2. InSeq(r, file') \in Nat
      BY ZenonT(30), <3>1, InSeqType
    <3> QED BY <3>2, InType
  <2>8. RecordPlaces(r)' = RecordPlaces(r)
    BY SMTT(30), <1>3, <2>2, <2>5, <2>6, <2>7 DEF RecordPlaces
  <2> QED BY ZenonT(30), <1>1, <2>1, <2>8
<1>10. ASSUME ~(\E w \in Workers : Respond(w) \/ Send(w)), ~WriterTake, ~WriterWrite
       PROVE  UNCHANGED <<responseCh, file, writing, dropped, hand, recorded>>
  <2>1. CASE FastTake \/ DeferredTake \/ FastDefer \/ Deliver
    BY ZenonT(30), <2>1 DEF FastTake, DeferredTake, FastDefer, Deliver, Panic, chans, work, records
  <2>2. ASSUME NEW w \in Workers, Finish(w)
        PROVE  UNCHANGED <<responseCh, file, writing, dropped, hand, recorded>>
    BY ZenonT(30), <2>2 DEF Finish, chans, records
  <2>3. CASE BeginRun \/ EndRun \/ Shutdown
    BY ZenonT(30), <2>3 DEF BeginRun, EndRun, Shutdown, ClearAgentPID, StopServer, CleanupNFT, CloseResponses,
                AwaitWriter, CloseDeferred, AwaitDeferred, CloseLoader, chans, work, records
  <2>4. ASSUME NEW c \in Clients, AnswerShutdown(c) \/ RequestShutdown(c)
        PROVE  UNCHANGED <<responseCh, file, writing, dropped, hand, recorded>>
    BY ZenonT(30), <2>4 DEF AnswerShutdown, RequestShutdown, chans, work, records
  <2>5. CASE UNCHANGED vars
    BY ZenonT(30), <2>5 DEF vars, chans, work, records
  <2> QED BY ZenonT(30), <1>10, <2>1, <2>2, <2>3, <2>4, <2>5
          DEF Next, FastStep, DeferredStep, WriterStep, MainStep, Workers
<1> QED BY ZenonT(30), <1>5, <1>6, <1>7, <1>8, <1>9, <1>10

\* No response of recordResponse is lost without a trace, or written twice by
\* responseWriter, whatever the capacity of the channel and however far a
\* shutdown has come.
THEOREM RecordsAreKept == Spec => []RecordsAccountedFor
<1>1. Init => RecordInv
  <2> SUFFICES ASSUME Init, NEW r \in Pos
               PROVE  RecordPlaces(r) = In(r, 1 .. recorded)
    BY Zenon DEF RecordInv
  <2>1. InSeq(r, responseCh) = 0 /\ InSeq(r, file) = 0
    BY ZenonT(30), InSeqEmpty DEF Init
  <2>2. Is(r, writing) = 0 /\ Hands(r) = 0
    BY NotZero DEF Init, Hands, Workers
  <2>3. In(r, dropped) = 0 /\ In(r, 1 .. recorded) = 0
    BY DEF Init, In
  <2> QED BY <2>1, <2>2, <2>3 DEF RecordPlaces
<1>2. PipeInv /\ RecordInv => RecordsAccountedFor
  <2> SUFFICES ASSUME PipeInv, RecordInv, NEW r \in 1 .. recorded
               PROVE  InSeq(r, responseCh) + InSeq(r, file) + Is(r, writing) + In(r, dropped)
                        + Is(r, hand["main"]) + Is(r, hand["fast"]) + Is(r, hand["deferred"]) = 1
    BY Zenon DEF RecordsAccountedFor
  <2>1. r \in Pos /\ In(r, 1 .. recorded) = 1
    BY DEF In, Pos, PipeInv, PipeType
  <2>2. RecordPlaces(r) = 1
    BY ZenonT(30), <2>1 DEF RecordInv
  <2>3. /\ InSeq(r, responseCh) \in Nat /\ InSeq(r, file) \in Nat /\ Is(r, writing) \in Nat
        /\ In(r, dropped) \in Nat
        /\ \A w \in Workers : Is(r, hand[w]) \in Nat
    BY ZenonT(30), RecordTypes
  <2> QED BY <2>2, <2>3 DEF RecordPlaces, Hands, Workers
<1> QED BY <1>1, <1>2, PipeAlways, RecordNext, PTL DEF Spec
-----------------------------------------------------------------------------
(***************************************************************************)
(* Where a ring0 event is                                                  *)
(***************************************************************************)
Jobs(e) == Is(e, job["fast"]) + Is(e, job["deferred"])

EventPlaces(e) ==
  InSeq(e, fastCh) + InSeq(e, deferredCh) + Jobs(e) + In(e, handled) + In(e, lost)

EventInv == \A e \in Pos : EventPlaces(e) = In(e, 1 .. events)

LEMMA JobsNext ==
  ASSUME job \in [Workers -> Nat], NEW w \in {"fast", "deferred"}, NEW v, NEW e,
         job' = [job EXCEPT ![w] = v]
  PROVE  Jobs(e)' = Jobs(e) - Is(e, job[w]) + Is(e, v)
<1>1. \A x \in Workers : job'[x] = IF x = w THEN v ELSE job[x]
  BY Zenon DEF Workers
<1>2. Is(e, job["fast"]) \in {0, 1} /\ Is(e, job["deferred"]) \in {0, 1} /\ Is(e, v) \in {0, 1}
  BY Zenon, IsType
<1>3. /\ Is(e, job'["fast"]) = IF w = "fast" THEN Is(e, v) ELSE Is(e, job["fast"])
      /\ Is(e, job'["deferred"]) = IF w = "deferred" THEN Is(e, v) ELSE Is(e, job["deferred"])
  BY Zenon, <1>1 DEF Workers
<1> QED BY <1>2, <1>3 DEF Jobs

LEMMA EventTypes ==
  ASSUME PipeInv, NEW e
  PROVE  /\ InSeq(e, fastCh) \in Nat
         /\ InSeq(e, deferredCh) \in Nat
         /\ Jobs(e) \in Nat
         /\ In(e, handled) \in Nat
         /\ In(e, lost) \in Nat
         /\ \A w \in {"fast", "deferred"} : Is(e, job[w]) \in Nat /\ Is(e, job[w]) <= Jobs(e)
<1>1. InSeq(e, fastCh) \in Nat
  BY Zenon, InSeqType DEF PipeInv, PipeType
<1>2. InSeq(e, deferredCh) \in Nat
  BY Zenon, InSeqType DEF PipeInv, PipeType
<1>3. \A y : Is(e, y) \in Nat
  BY IsType
<1>4. In(e, handled) \in Nat /\ In(e, lost) \in Nat
  BY InType
<1>5. Jobs(e) \in Nat /\ \A w \in {"fast", "deferred"} : Is(e, job[w]) <= Jobs(e)
  BY SMTT(30), <1>3 DEF Jobs
<1> QED BY Zenon, <1>1, <1>2, <1>3, <1>4, <1>5

LEMMA EventNext == PipeInv /\ EventInv /\ [Next]_vars => EventInv'
<1> SUFFICES ASSUME PipeInv, EventInv, [Next]_vars, NEW e \in Pos
             PROVE  EventPlaces(e)' = In(e, 1 .. events')
  BY DEF EventInv
<1>1. EventPlaces(e) = In(e, 1 .. events)
  BY DEF EventInv
<1>2. /\ job \in [Workers -> Nat] /\ events \in Nat
      /\ fastCh \in Seq(Pos) /\ deferredCh \in Seq(Pos)
      /\ \A w \in {"fast", "deferred"} : job[w] # 0 <=> stage[w] # "idle"
      /\ job["main"] = 0
  BY Zenon DEF PipeInv, PipeType, HoldInv
<1>3. /\ InSeq(e, fastCh) \in Nat /\ InSeq(e, deferredCh) \in Nat /\ Jobs(e) \in Nat
      /\ In(e, handled) \in Nat /\ In(e, lost) \in Nat
      /\ \A w \in {"fast", "deferred"} : Is(e, job[w]) \in Nat /\ Is(e, job[w]) <= Jobs(e)
  BY ZenonT(30), EventTypes
<1>4. EventPlaces(e) <= 1
  BY <1>1, InType
<1>5. Is(e, 0) = 0
  BY ZenonT(30), NotZero
<1>6. /\ InSeq(e, fastCh') \in Nat /\ InSeq(e, deferredCh') \in Nat
      /\ In(e, handled') \in Nat /\ In(e, lost') \in Nat
  <2>1. fastCh' \in Seq(Pos) /\ deferredCh' \in Seq(Pos)
    BY ZenonT(30), PipeNext DEF PipeInv, PipeType
  <2>2. InSeq(e, fastCh') \in Nat
    BY Zenon, <2>1, InSeqType
  <2>3. InSeq(e, deferredCh') \in Nat
    BY Zenon, <2>1, InSeqType
  <2> QED BY SMTT(30), <2>2, <2>3, InType
<1>7. EventPlaces(e)' = InSeq(e, fastCh') + InSeq(e, deferredCh') + Jobs(e)' + In(e, handled') + In(e, lost')
  BY ZenonT(30) DEF EventPlaces
<1>8. ASSUME UNCHANGED <<fastCh, deferredCh, handled, lost, events>>,
             job'["fast"] = job["fast"], job'["deferred"] = job["deferred"]
      PROVE  EventPlaces(e)' = In(e, 1 .. events')
  BY ZenonT(30), <1>1, <1>8 DEF EventPlaces, Jobs
<1>9. CASE Deliver
  <2>1. /\ events' = events + 1 /\ UNCHANGED <<deferredCh, job, handled>>
        /\ \/ fastCh' = Append(fastCh, events + 1) /\ UNCHANGED lost
           \/ lost' = lost \cup {events + 1} /\ UNCHANGED fastCh
    BY ZenonT(30), <1>9 DEF Deliver, work
  <2>2. In(e, 1 .. events') = In(e, 1 .. events) + Is(e, events + 1)
    BY ZenonT(30), <1>2, <2>1, InGrown
  <2>3. In(e, 1 .. events') <= 1 /\ Is(e, events + 1) \in Nat
    BY SMTT(30), InType, IsType
  <2>4. In(e, lost) + Is(e, events + 1) <= 1
    BY SMTT(30), <1>1, <1>3, <2>2, <2>3 DEF EventPlaces
  <2>5. InSeq(e, fastCh') + In(e, lost') = InSeq(e, fastCh) + In(e, lost) + Is(e, events + 1)
    <3>1. CASE fastCh' = Append(fastCh, events + 1) /\ UNCHANGED lost
      <4>1. events + 1 \in Pos
        BY <1>2 DEF Pos
      <4>2. InSeq(e, Append(fastCh, events + 1)) = InSeq(e, fastCh) + Is(e, events + 1)
        BY ZenonT(30), <1>2, <4>1, InSeqAppend
      <4> QED BY SMTT(30), <1>3, <2>3, <3>1, <4>2
    <3>2. CASE lost' = lost \cup {events + 1} /\ UNCHANGED fastCh
      <4>1. In(e, lost \cup {events + 1}) = In(e, lost) + Is(e, events + 1)
        BY Zenon, <2>4, InAdded
      <4> QED BY SMTT(30), <1>3, <2>3, <3>2, <4>1
    <3> QED BY ZenonT(30), <2>1, <3>1, <3>2
  <2>6. Jobs(e)' = Jobs(e) /\ InSeq(e, deferredCh') = InSeq(e, deferredCh)
        /\ In(e, handled') = In(e, handled)
    BY Zenon, <2>1 DEF Jobs
  <2>7. EventPlaces(e)' = InSeq(e, fastCh') + InSeq(e, deferredCh) + Jobs(e) + In(e, handled) + In(e, lost')
    BY Zenon, <1>7, <2>6
  <2>8. EventPlaces(e)' = EventPlaces(e) + Is(e, events + 1)
    <3>1. EventPlaces(e) = InSeq(e, fastCh) + InSeq(e, deferredCh) + Jobs(e) + In(e, handled) + In(e, lost)
      BY Zenon DEF EventPlaces
    <3> DEFINE k == Is(e, events + 1)
               a == InSeq(e, fastCh')
               z == In(e, lost')
    <3>2. a + z = InSeq(e, fastCh) + In(e, lost) + k /\ k \in Nat /\ a \in Nat /\ z \in Nat
      BY Zenon, <1>6, <2>3, <2>5
    <3>3. EventPlaces(e)' = a + InSeq(e, deferredCh) + Jobs(e) + In(e, handled) + z
      BY Zenon, <2>7
    <3> HIDE DEF k, a, z
    <3>4. EventPlaces(e)' = EventPlaces(e) + k
      BY SMTT(30), <1>3, <3>1, <3>2, <3>3
    <3> QED BY Zenon, <3>4 DEF k
  <2> QED BY ZenonT(30), <1>1, <2>2, <2>8
<1>10. CASE FastTake
  <2>1. /\ fastCh # << >> /\ stage["fast"] = "idle"
        /\ job' = [job EXCEPT !["fast"] = Head(fastCh)]
        /\ fastCh' = Tail(fastCh)
        /\ UNCHANGED <<deferredCh, handled, lost, events>>
    BY ZenonT(30), <1>10 DEF FastTake, Begin, fates
  <2>2. InSeq(e, fastCh) = InSeq(e, fastCh') + Is(e, Head(fastCh))
    BY ZenonT(30), <1>2, <2>1, InSeqTail
  <2>3. Is(e, job["fast"]) = 0
    BY ZenonT(30), <1>2, <1>5, <2>1
  <2>4. Jobs(e)' = Jobs(e) - Is(e, job["fast"]) + Is(e, Head(fastCh))
    BY ZenonT(30), <1>2, <2>1, JobsNext
  <2>5. Is(e, Head(fastCh)) \in Nat
    BY IsType
  <2>6. EventPlaces(e)' = InSeq(e, fastCh') + InSeq(e, deferredCh) + Jobs(e)' + In(e, handled) + In(e, lost)
    BY ZenonT(30), <1>7, <2>1
  <2>7. EventPlaces(e)' = EventPlaces(e)
    BY SMTT(30), <1>3, <1>6, <2>2, <2>3, <2>4, <2>5, <2>6 DEF EventPlaces
  <2> QED BY ZenonT(30), <1>1, <2>1, <2>7
<1>11. CASE DeferredTake
  <2>1. /\ deferredCh # << >> /\ stage["deferred"] = "idle"
        /\ job' = [job EXCEPT !["deferred"] = Head(deferredCh)]
        /\ deferredCh' = Tail(deferredCh)
        /\ UNCHANGED <<fastCh, handled, lost, events>>
    BY ZenonT(30), <1>11 DEF DeferredTake, Begin, fates
  <2>2. InSeq(e, deferredCh) = InSeq(e, deferredCh') + Is(e, Head(deferredCh))
    BY ZenonT(30), <1>2, <2>1, InSeqTail
  <2>3. Is(e, job["deferred"]) = 0
    BY ZenonT(30), <1>2, <1>5, <2>1
  <2>4. Jobs(e)' = Jobs(e) - Is(e, job["deferred"]) + Is(e, Head(deferredCh))
    BY ZenonT(30), <1>2, <2>1, JobsNext
  <2>5. Is(e, Head(deferredCh)) \in Nat
    BY IsType
  <2>6. EventPlaces(e)' = InSeq(e, fastCh) + InSeq(e, deferredCh') + Jobs(e)' + In(e, handled) + In(e, lost)
    BY ZenonT(30), <1>7, <2>1
  <2>7. EventPlaces(e)' = EventPlaces(e)
    BY SMTT(30), <1>3, <1>6, <2>2, <2>3, <2>4, <2>5, <2>6 DEF EventPlaces
  <2> QED BY ZenonT(30), <1>1, <2>1, <2>7
<1>12. CASE FastDefer
  <2>1. CASE DeferredClosed
    BY ZenonT(30), <1>8, <1>12, <2>1 DEF FastDefer, Panic, chans, work, fates
  <2>2. CASE ~DeferredClosed
    <3>1. /\ stage["fast"] = "busy" /\ job' = [job EXCEPT !["fast"] = 0]
          /\ UNCHANGED <<fastCh, handled, events>>
          /\ \/ deferredCh' = Append(deferredCh, job["fast"]) /\ UNCHANGED lost
             \/ lost' = lost \cup {job["fast"]} /\ UNCHANGED deferredCh
      BY ZenonT(30), <1>12, <2>2 DEF FastDefer, Over
    <3>2. job["fast"] \in Pos
      BY ZenonT(30), <1>2, <3>1 DEF Pos, Workers
    <3>3. Jobs(e)' = Jobs(e) - Is(e, job["fast"]) + Is(e, 0)
      BY ZenonT(40), <1>2, <3>1, JobsNext
    <3>4. In(e, lost) + Is(e, job["fast"]) <= 1
      BY SMTT(30), <1>3, <1>4 DEF EventPlaces
    <3>5. InSeq(e, deferredCh') + In(e, lost') = InSeq(e, deferredCh) + In(e, lost) + Is(e, job["fast"])
      <4>1. CASE deferredCh' = Append(deferredCh, job["fast"]) /\ UNCHANGED lost
        <5>1. InSeq(e, Append(deferredCh, job["fast"])) = InSeq(e, deferredCh) + Is(e, job["fast"])
          BY ZenonT(30), <1>2, <3>2, InSeqAppend
        <5> QED BY SMTT(30), <1>3, <4>1, <5>1
      <4>2. CASE lost' = lost \cup {job["fast"]} /\ UNCHANGED deferredCh
        <5>1. In(e, lost \cup {job["fast"]}) = In(e, lost) + Is(e, job["fast"])
          BY ZenonT(30), <3>4, InAdded
        <5> QED BY SMTT(30), <1>3, <4>2, <5>1
      <4> QED BY ZenonT(30), <3>1, <4>1, <4>2
    <3>6. EventPlaces(e)' = InSeq(e, fastCh) + InSeq(e, deferredCh') + Jobs(e)' + In(e, handled) + In(e, lost')
      BY ZenonT(30), <1>7, <3>1
    <3>7. EventPlaces(e)' = EventPlaces(e)
      BY SMTT(30), <1>3, <1>5, <1>6, <3>3, <3>5, <3>6 DEF EventPlaces
    <3> QED BY ZenonT(30), <1>1, <3>1, <3>7
  <2> QED BY ZenonT(30), <2>1, <2>2
<1>13. ASSUME NEW w \in {"fast", "deferred"},
              job' = [job EXCEPT ![w] = 0], handled' = handled \cup {job[w]},
              UNCHANGED <<fastCh, deferredCh, lost, events>>
       PROVE  EventPlaces(e)' = In(e, 1 .. events')
  <2>1. Jobs(e)' = Jobs(e) - Is(e, job[w]) + Is(e, 0)
    BY ZenonT(30), <1>2, <1>13, JobsNext
  <2>2. In(e, handled) + Is(e, job[w]) <= 1
    BY <1>3, <1>4 DEF EventPlaces
  <2>3. In(e, handled') = In(e, handled) + Is(e, job[w])
    BY ZenonT(30), <1>13, <2>2, InAdded
  <2>4. EventPlaces(e)' = InSeq(e, fastCh) + InSeq(e, deferredCh) + Jobs(e)' + In(e, handled') + In(e, lost)
    BY ZenonT(30), <1>7, <1>13
  <2>5. EventPlaces(e)' = EventPlaces(e)
    BY SMTT(30), <1>3, <1>5, <2>1, <2>3, <2>4 DEF EventPlaces
  <2> QED BY ZenonT(30), <1>1, <1>13, <2>5
<1>14. ASSUME NEW w \in Workers, Send(w)
       PROVE  EventPlaces(e)' = In(e, 1 .. events')
  <2>1. CASE ResponsesClosed
    BY ZenonT(30), <1>8, <1>14, <2>1 DEF Send, Panic, chans, work, fates
  <2>2. CASE ~ResponsesClosed /\ w = "main"
    BY ZenonT(30), <1>8, <1>14, <2>2 DEF Send
  <2>3. CASE ~ResponsesClosed /\ w # "main"
    BY ZenonT(30), <1>13, <1>14, <2>3 DEF Send, Over, Workers
  <2> QED BY ZenonT(30), <2>1, <2>2, <2>3
<1>15. ASSUME NEW w \in Workers, Finish(w)
       PROVE  EventPlaces(e)' = In(e, 1 .. events')
  BY ZenonT(30), <1>13, <1>15 DEF Finish, Over, Workers, chans
<1>16. ASSUME NEW w \in Workers, Respond(w)
       PROVE  EventPlaces(e)' = In(e, 1 .. events')
  BY ZenonT(30), <1>8, <1>16 DEF Respond, chans, fates
<1>17. CASE WriterTake \/ WriterWrite
  BY ZenonT(30), <1>8, <1>17 DEF WriterTake, WriterWrite, chans, work, fates
<1>18. CASE BeginRun \/ EndRun
  <2>1. job' = [job EXCEPT !["main"] = 0] /\ UNCHANGED <<fastCh, deferredCh, handled, lost, events>>
    BY ZenonT(30), <1>18 DEF BeginRun, EndRun, Begin, Over, chans, fates
  <2> QED BY ZenonT(30), <1>2, <1>8, <2>1 DEF Workers
<1>19. CASE Shutdown
  BY ZenonT(30), <1>8, <1>19 DEF Shutdown, ClearAgentPID, StopServer, CleanupNFT, CloseResponses,
                     AwaitWriter, CloseDeferred, AwaitDeferred, CloseLoader, chans, work, fates
<1>20. ASSUME NEW c \in Clients, AnswerShutdown(c) \/ RequestShutdown(c)
       PROVE  EventPlaces(e)' = In(e, 1 .. events')
  BY ZenonT(30), <1>8, <1>20 DEF AnswerShutdown, RequestShutdown, chans, work, fates
<1>21. CASE UNCHANGED vars
  BY ZenonT(30), <1>8, <1>21 DEF vars, chans, work, fates
<1> QED BY Zenon, <1>9, <1>10, <1>11, <1>12, <1>14, <1>15, <1>16, <1>17, <1>18, <1>19, <1>20, <1>21
       DEF Next, FastStep, DeferredStep, WriterStep, MainStep, Workers

\* An event that edr_deliver_event was called for is in one channel, with one
\* goroutine, handled or known to be lost, whatever the capacities.
THEOREM EventsAreKept == Spec => []EventsAccountedFor
<1>1. Init => EventInv
  <2> SUFFICES ASSUME Init, NEW e \in Pos
               PROVE  EventPlaces(e) = In(e, 1 .. events)
    BY DEF EventInv
  <2>1. InSeq(e, fastCh) = 0 /\ InSeq(e, deferredCh) = 0
    BY ZenonT(30), InSeqEmpty DEF Init
  <2>2. Jobs(e) = 0
    BY NotZero DEF Init, Jobs, Workers
  <2>3. In(e, handled) = 0 /\ In(e, lost) = 0 /\ In(e, 1 .. events) = 0
    BY DEF Init, In
  <2> QED BY <2>1, <2>2, <2>3 DEF EventPlaces
<1>2. PipeInv /\ EventInv => EventsAccountedFor
  <2> SUFFICES ASSUME PipeInv, EventInv, NEW e \in 1 .. events
               PROVE  InSeq(e, fastCh) + InSeq(e, deferredCh) + Is(e, job["fast"])
                        + Is(e, job["deferred"]) + In(e, handled) + In(e, lost) = 1
    BY Zenon DEF EventsAccountedFor
  <2>1. e \in Pos /\ In(e, 1 .. events) = 1
    BY DEF In, Pos, PipeInv, PipeType
  <2>2. EventPlaces(e) = 1
    BY <2>1 DEF EventInv
  <2>3. /\ InSeq(e, fastCh) \in Nat /\ InSeq(e, deferredCh) \in Nat
        /\ In(e, handled) \in Nat /\ In(e, lost) \in Nat
        /\ \A w \in {"fast", "deferred"} : Is(e, job[w]) \in Nat
    BY Zenon, EventTypes
  <2> QED BY <2>2, <2>3 DEF EventPlaces, Jobs
<1> QED BY <1>1, <1>2, PipeAlways, EventNext, PTL DEF Spec
=============================================================================
