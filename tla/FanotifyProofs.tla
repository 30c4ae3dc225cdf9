--------------------------- MODULE FanotifyProofs ---------------------------
(***************************************************************************)
(* The audit event of an open tells its outcome, and its verdict is the    *)
(* one of the policy in force, for every number of openers, every policy   *)
(* and clock and every size of the read buffer.                            *)
(***************************************************************************)
EXTENDS Fanotify, PolicyEngineProofs, SequenceTheorems

All == Openers \cup Writers

Opened == [st : Statuses, req : Requests \cup {LogRequest}]

FanType ==
  /\ opener \in [All -> Opened]
  /\ held \in Seq(All)
  /\ batch \in Seq(All)
  /\ loop \in {"top", "select", "handle", "respond", "audit", "done"}
  /\ allow \in BOOLEAN
  /\ stop \in {"no", "asked", "closed", "stopped"}
  /\ audit \in [All -> {"none", "allow", "block"}]

\* The buffer holds events exactly while the loop goes through it, and only the
\* loop's own audit event makes it hold Logger.mu.
LoopInv ==
  /\ loop \in {"handle", "respond", "audit"} <=> batch # << >>
  /\ mu = LoopLog => loop = "audit"

\* The places of the buffer that have no answer yet.
Rest == (IF loop = "audit" THEN 2 ELSE 1) .. Len(batch)

\* An opener whose event is still to be answered: nothing was audited for it, and
\* unless it waits it was killed or Stop has let it through.
Pending(o) ==
  /\ audit[o] = "none"
  /\ \/ opener[o].st \in {"waiting", "gone"}
     \/ opener[o].st = "granted" /\ ~GroupOpen

\* Every opener has at most one event that is still to be answered.
QueueInv ==
  /\ \A i \in DOMAIN held : held[i] \in Openers => Pending(held[i])
  /\ \A i \in Rest : batch[i] \in Openers => Pending(batch[i])
  /\ \A i, j \in DOMAIN held : held[i] \in Openers /\ held[i] = held[j] => i = j
  /\ \A i, j \in Rest : batch[i] \in Openers /\ batch[i] = batch[j] => i = j
  /\ \A i \in DOMAIN held, j \in Rest : held[i] \in Openers => held[i] # batch[j]

\* How far an opener has come and what was audited for it.
Fate(o) ==
  /\ opener[o].st \in {"idle", "waiting"} => audit[o] = "none"
  /\ opener[o].st \in {"denied", "stuck"} => audit[o] = "block"
  /\ opener[o].st = "granted" /\ audit[o] = "block" => ~GroupOpen
  /\ opener[o].st \in {"waiting", "stuck"} => GroupOpen

FateInv == \A o \in Openers : Fate(o)

FanInv == FanType /\ LoopInv /\ QueueInv /\ FateInv

----------------------------------------------------------------------------
\* What RemoveAt leaves of a sequence.
LEMMA RemovedAt ==
  ASSUME NEW S, NEW s \in Seq(S), NEW n \in DOMAIN s
  PROVE  /\ RemoveAt(s, n) \in Seq(S)
         /\ Len(RemoveAt(s, n)) = Len(s) - 1
         /\ \A i \in 1 .. Len(s) - 1 : RemoveAt(s, n)[i] = s[IF i < n THEN i ELSE i + 1]
<1> DEFINE l == SubSeq(s, 1, n - 1)
           m == SubSeq(s, n + 1, Len(s))
           r == l \o m
<1>1. Len(s) \in Nat /\ n \in 1 .. Len(s) /\ \A i \in 1 .. Len(s) : s[i] \in S
  BY ZenonT(30), LenProperties
<1>2. /\ l \in Seq(S)
      /\ Len(l) = n - 1
      /\ \A i \in 1 .. n - 1 : l[i] = s[i]
  <2>1. n - 1 \in Int /\ \A i \in 1 .. n - 1 : s[i] \in S
    BY <1>1
  <2>2. /\ l \in Seq(S)
        /\ Len(l) = IF 1 <= n - 1 THEN (n - 1) - 1 + 1 ELSE 0
        /\ \A i \in 1 .. (n - 1) - 1 + 1 : l[i] = s[1 + i - 1]
    BY <2>1, SubSeqProperties
  <2> HIDE DEF l
  <2> QED BY <1>1, <2>2
<1>3. /\ m \in Seq(S)
      /\ Len(m) = Len(s) - n
      /\ \A i \in 1 .. Len(s) - n : m[i] = s[n + i]
  <2>1. n + 1 \in Int /\ Len(s) \in Int /\ \A i \in n + 1 .. Len(s) : s[i] \in S
    BY <1>1
  <2>2. /\ m \in Seq(S)
        /\ Len(m) = IF n + 1 <= Len(s) THEN Len(s) - (n + 1) + 1 ELSE 0
        /\ \A i \in 1 .. Len(s) - (n + 1) + 1 : m[i] = s[(n + 1) + i - 1]
    BY <2>1, SubSeqProperties
  <2> HIDE DEF m
  <2>3. Len(m) = Len(s) - n
    BY <1>1, <2>2
  <2>4. ASSUME NEW i \in 1 .. Len(s) - n
        PROVE  m[i] = s[n + i]
    <3>1. i \in 1 .. Len(s) - (n + 1) + 1 /\ (n + 1) + i - 1 = n + i
      BY <1>1
    <3> QED BY Zenon, <2>2, <3>1
  <2> QED BY Zenon, <2>2, <2>3, <2>4
<1>4. RemoveAt(s, n) = r
  BY Zenon DEF RemoveAt
<1> HIDE DEF l, m
<1>5. /\ r \in Seq(S)
      /\ Len(r) = Len(l) + Len(m)
      /\ \A i \in 1 .. Len(l) + Len(m) : r[i] = IF i <= Len(l) THEN l[i] ELSE m[i - Len(l)]
  BY Zenon, <1>2, <1>3, ConcatProperties
<1> HIDE DEF r
<1>6. Len(l) + Len(m) = Len(s) - 1
  BY SMTT(30), <1>1, <1>2, <1>3
<1>7. ASSUME NEW i \in 1 .. Len(s) - 1
      PROVE  r[i] = s[IF i < n THEN i ELSE i + 1]
  <2>1. CASE i < n
    <3>1. i <= Len(l) /\ i \in 1 .. n - 1
      BY <1>1, <1>2, <2>1
    <3> QED BY Zenon, <1>2, <1>5, <1>6, <2>1, <3>1
  <2>2. CASE ~(i < n)
    <3>1. ~(i <= Len(l)) /\ i - Len(l) = i - (n - 1) /\ i - (n - 1) \in 1 .. Len(s) - n
          /\ n + (i - (n - 1)) = i + 1
      BY SMTT(30), <1>1, <1>2, <2>2
    <3>2. r[i] = m[i - (n - 1)]
      BY Zenon, <1>5, <1>6, <3>1
    <3> QED BY Zenon, <1>3, <2>2, <3>1, <3>2
  <2> QED BY Zenon, <2>1, <2>2
<1> QED BY ZenonT(30), <1>4, <1>5, <1>6, <1>7

\* A queue that lost the event of a killed opener has its events in the same
\* order and no new ones.
LEMMA WithoutProps ==
  ASSUME NEW S, NEW q \in Seq(S), NEW o
  PROVE  /\ Without(q, o) \in Seq(S)
         /\ \E f \in [DOMAIN Without(q, o) -> DOMAIN q] :
              /\ \A i \in DOMAIN Without(q, o) : Without(q, o)[i] = q[f[i]]
              /\ \A i, j \in DOMAIN Without(q, o) : f[i] = f[j] => i = j
<1>1. CASE o \in Range(q)
  <2> DEFINE n == CHOOSE i \in DOMAIN q : q[i] = o
             r == RemoveAt(q, n)
             f == [i \in DOMAIN r |-> IF i < n THEN i ELSE i + 1]
  <2>1. n \in DOMAIN q
    BY ZenonT(30), <1>1 DEF Range
  <2>2. Without(q, o) = r
    BY ZenonT(30), <1>1 DEF Without
  <2> HIDE DEF n
  <2>3. /\ r \in Seq(S)
        /\ Len(r) = Len(q) - 1
        /\ \A i \in 1 .. Len(q) - 1 : r[i] = q[IF i < n THEN i ELSE i + 1]
    BY Zenon, <2>1, RemovedAt
  <2> HIDE DEF r
  <2>4. DOMAIN r = 1 .. Len(q) - 1 /\ DOMAIN q = 1 .. Len(q) /\ Len(q) \in Nat
    BY ZenonT(30), <2>3, LenProperties
  <2>5. f \in [DOMAIN r -> DOMAIN q]
    BY <2>1, <2>4
  <2>6. \A i, j \in DOMAIN r : f[i] = f[j] => i = j
    BY <2>1, <2>4
  <2>7. \A i \in DOMAIN r : r[i] = q[f[i]]
    BY ZenonT(30), <2>3, <2>4
  <2> HIDE DEF f
  <2> QED BY SMTT(30), <2>2, <2>3, <2>5, <2>6, <2>7
<1>2. CASE o \notin Range(q)
  <2>1. Without(q, o) = q
    BY Zenon, <1>2 DEF Without
  <2> DEFINE f == [i \in DOMAIN q |-> i]
  <2>2. /\ f \in [DOMAIN q -> DOMAIN q]
        /\ \A i \in DOMAIN q : q[i] = q[f[i]]
        /\ \A i, j \in DOMAIN q : f[i] = f[j] => i = j
    BY Zenon
  <2> HIDE DEF f
  <2> QED BY ZenonT(30), <2>1, <2>2
<1> QED BY Zenon, <1>1, <1>2

----------------------------------------------------------------------------
LEMMA AskType ==
  ASSUME FanType, NEW o \in All, NEW req \in Requests \cup {LogRequest}, NEW marked,
         Ask(o, req, marked)
  PROVE  opener' \in [All -> Opened] /\ held' \in Seq(All)
<1>1. opener' \in [All -> Opened]
  BY Zenon DEF FanType, Ask, Opened, Statuses
<1>2. held' \in Seq(All)
  BY ZenonT(30), AppendProperties DEF FanType, Ask
<1> QED BY ZenonT(30), <1>1, <1>2

LEMMA FanTypeNext == FanType /\ LoopInv /\ [Next]_vars => FanType'
<1> SUFFICES ASSUME FanType, LoopInv, [Next]_vars
             PROVE  FanType'
  BY Zenon
<1>1. ASSUME NEW o \in Openers, NEW req \in Requests, Open(o, req)
      PROVE  FanType'
  <2>1. opener' \in [All -> Opened] /\ held' \in Seq(All)
    BY Zenon, <1>1, AskType DEF Open, All
  <2> QED BY ZenonT(30), <1>1, <2>1 DEF Open, FanType, agentVars, world
<1>2. ASSUME NEW o \in Openers, Killed(o)
      PROVE  FanType'
  <2>1. opener' \in [All -> Opened]
    BY ZenonT(40), <1>2 DEF Killed, FanType, Opened, Statuses, All
  <2>2. held' \in Seq(All)
    BY Zenon, <1>2, WithoutProps DEF Killed, FanType
  <2> QED BY ZenonT(30), <1>2, <2>1, <2>2 DEF Killed, FanType, agentVars, world
<1>3. CASE Change
  BY Zenon, <1>3 DEF Change, FanType, agentVars
<1>4. CASE CheckStop
  BY ZenonT(30), <1>4 DEF CheckStop, FanType, world
<1>5. CASE SelectRead
  <2> DEFINE n == IF Len(held) < BufCap THEN Len(held) ELSE BufCap
  <2>1. Len(held) \in Nat /\ n \in 0 .. Len(held) /\ \A i \in 1 .. Len(held) : held[i] \in All
    BY FanotifyAssumption, LenProperties DEF FanType
  <2>2. SubSeq(held, 1, n) \in Seq(All)
    <3>1. n \in Int /\ \A i \in 1 .. n : held[i] \in All
      BY <2>1
    <3> HIDE DEF n
    <3> QED BY <3>1, SubSeqProperties
  <2>3. SubSeq(held, n + 1, Len(held)) \in Seq(All)
    <3>1. n + 1 \in Int /\ Len(held) \in Int /\ \A i \in n + 1 .. Len(held) : held[i] \in All
      BY <2>1
    <3> HIDE DEF n
    <3> QED BY ZenonT(30), <3>1, SubSeqProperties
  <2>4. /\ batch' \in {SubSeq(held, 1, n), << >>}
        /\ held' \in {SubSeq(held, n + 1, Len(held)), held}
        /\ loop' \in {"top", "handle", "done"}
        /\ UNCHANGED <<opener, allow, audit, stop>>
    BY ZenonT(30), <1>5 DEF SelectRead, world
  <2> HIDE DEF n
  <2>5. << >> \in Seq(All)
    OBVIOUS
  <2> QED BY Zenon, <2>2, <2>3, <2>4, <2>5 DEF FanType
<1>6. CASE Handle \/ HandlerPanics
  <2>1. /\ allow' \in BOOLEAN
        /\ loop' = "respond"
        /\ UNCHANGED <<opener, held, batch, audit, stop>>
    BY Zenon, <1>6 DEF Handle, HandlerPanics, Decide, HandleFileAccess, world
  <2> QED BY ZenonT(30), <2>1 DEF FanType
<1>7. CASE Respond
  <2>1. PICK a \in Statuses, b \in {"allow", "block"} :
          /\ opener' \in {[opener EXCEPT ![Head(batch)].st = a], opener}
          /\ audit' = [audit EXCEPT ![Head(batch)] = b]
    BY Zenon, <1>7 DEF Respond, Answer, Statuses
  <2>2. opener' \in [All -> Opened]
    BY ZenonT(60), <2>1 DEF FanType, Opened
  <2>3. audit' \in [All -> {"none", "allow", "block"}]
    BY Zenon, <2>1 DEF FanType
  <2> QED BY ZenonT(30), <1>7, <2>2, <2>3 DEF Respond, FanType, world
<1>8. ASSUME NEW w \in Writers, Lock(w)
      PROVE  FanType'
  BY Zenon, <1>8 DEF Lock, FanType, agentVars, world
<1>9. ASSUME NEW w \in Writers, OpenLog(w)
      PROVE  FanType'
  <2>1. opener' \in [All -> Opened] /\ held' \in Seq(All)
    BY Zenon, <1>9, AskType DEF OpenLog, All
  <2> QED BY Zenon, <1>9, <2>1 DEF OpenLog, FanType, agentVars, world
<1>10. ASSUME NEW w \in Writers, Unlock(w)
       PROVE  FanType'
  <2>1. opener' \in [All -> Opened]
    BY Zenon, <1>10 DEF Unlock, FanType, Opened, Statuses, All
  <2>2. w = LoopLog => batch # << >>
    BY ZenonT(30), <1>10 DEF Unlock, LoopInv
  <2>3. batch' \in Seq(All) /\ allow' \in BOOLEAN
        /\ loop' \in {"top", "select", "handle", "respond", "audit", "done"}
    BY ZenonT(40), <1>10, <2>2, HeadTailProperties DEF Unlock, FanType
  <2> QED BY Zenon, <1>10, <2>1, <2>3 DEF Unlock, FanType, world
<1>11. CASE StopAsk \/ StopWait
  BY Zenon, <1>11 DEF StopAsk, StopWait, FanType, agentVars
<1>12. CASE StopClose
  <2>1. opener' \in [All -> Opened] /\ held' \in Seq(All)
    BY <1>12 DEF StopClose, Released, FanType, Opened, Statuses
  <2> QED BY ZenonT(30), <1>12, <2>1 DEF StopClose, FanType, agentVars
<1>13. CASE UNCHANGED vars
  BY Zenon, <1>13 DEF vars, agentVars, world, FanType
<1> QED
  BY SMTT(30), <1>1, <1>2, <1>3, <1>4, <1>5, <1>6, <1>7, <1>8, <1>9, <1>10, <1>11, <1>12, <1>13
  DEF Next, Loop, Log, Finish

LEMMA LoopNext == FanType /\ LoopInv /\ [Next]_vars => LoopInv'
<1> SUFFICES ASSUME FanType, LoopInv, [Next]_vars
             PROVE  LoopInv'
  BY Zenon
<1>1. ASSUME UNCHANGED <<loop, batch, mu>>
      PROVE  LoopInv'
  BY Zenon, <1>1 DEF LoopInv
<1>2. CASE CheckStop
  BY Zenon, <1>2 DEF CheckStop, LoopInv
<1>3. CASE SelectRead
  <2> DEFINE n == IF Len(held) < BufCap THEN Len(held) ELSE BufCap
  <2>1. Len(held) \in Nat /\ n \in 0 .. Len(held) /\ \A i \in 1 .. Len(held) : held[i] \in All
    BY FanotifyAssumption, LenProperties DEF FanType
  <2>2. SubSeq(held, 1, n) = << >> <=> n = 0
    <3>1. n \in Int /\ \A i \in 1 .. n : held[i] \in All
      BY <2>1
    <3> HIDE DEF n
    <3>2. SubSeq(held, 1, n) \in Seq(All) /\ Len(SubSeq(held, 1, n)) = IF 1 <= n THEN n - 1 + 1 ELSE 0
      BY SMTT(30), <3>1, SubSeqProperties
    <3> QED BY SMTT(30), <2>1, <3>2, EmptySeq
  <2>3. /\ loop = "select"
        /\ loop' = IF ~GroupOpen THEN "done" ELSE IF n = 0 THEN "top" ELSE "handle"
        /\ batch' = IF GroupOpen THEN SubSeq(held, 1, n) ELSE << >>
        /\ mu' = mu
    BY Zenon, <1>3 DEF SelectRead
  <2> HIDE DEF n
  <2> QED BY Zenon, <2>2, <2>3 DEF LoopInv
<1>4. CASE Handle \/ HandlerPanics
  BY Zenon, <1>4 DEF Handle, HandlerPanics, Decide, LoopInv
<1>5. CASE Respond
  BY Zenon, <1>5 DEF Respond, LoopInv
<1>6. ASSUME NEW w \in Writers, Lock(w)
      PROVE  LoopInv'
  BY Zenon, <1>6 DEF Lock, LoopInv, agentVars
<1>7. ASSUME NEW w \in Writers, Unlock(w)
      PROVE  LoopInv'
  <2>1. mu' = Nobody /\ Nobody # LoopLog
    BY Zenon, <1>7, FanotifyAssumption DEF Unlock, Writers
  <2>2. CASE w # LoopLog
    BY Zenon, <1>7, <2>1, <2>2 DEF Unlock, LoopInv
  <2>3. CASE w = LoopLog
    <3>1. batch # << >> /\ batch' = Tail(batch) /\ loop' = IF Len(batch) > 1 THEN "handle" ELSE "top"
      BY Zenon, <1>7, <2>3 DEF Unlock, LoopInv
    <3>2. Len(batch) \in Nat \ {0} /\ Tail(batch) \in Seq(All) /\ Len(Tail(batch)) = Len(batch) - 1
      BY ZenonT(30), <3>1, HeadTailProperties, LenProperties, EmptySeq DEF FanType
    <3> DEFINE t == Tail(batch)
    <3>3. t \in Seq(All) /\ (t = << >> => Len(t) = 0) /\ (t # << >> => Len(t) \in Nat \ {0})
      BY Zenon, <3>2, EmptySeq
    <3> HIDE DEF t
    <3>4. t = << >> <=> ~(Len(batch) > 1)
      <4>1. Len(t) = Len(batch) - 1
        BY ZenonT(30), <3>2 DEF t
      <4> QED BY SMTT(30), <3>2, <3>3, <4>1
    <3> QED BY Zenon, <2>1, <3>1, <3>4 DEF LoopInv, t
  <2> QED BY Zenon, <2>2, <2>3
<1>8. ASSUME NEW w \in Writers, OpenLog(w)
      PROVE  LoopInv'
  BY ZenonT(30), <1>8, <1>1 DEF OpenLog, agentVars
<1>9. ASSUME NEW o \in Openers, Killed(o) \/ \E req \in Requests : Open(o, req)
      PROVE  LoopInv'
  BY Zenon, <1>9, <1>1 DEF Killed, Open, agentVars
<1>10. CASE Change \/ StopAsk \/ Finish \/ UNCHANGED vars
  BY ZenonT(30), <1>10, <1>1 DEF Change, StopAsk, Finish, StopClose, StopWait, vars, agentVars
<1> QED
  BY Zenon, <1>2, <1>3, <1>4, <1>5, <1>6, <1>7, <1>8, <1>9, <1>10 DEF Next, Loop, Log

----------------------------------------------------------------------------
\* Steps that let the events where they are.
LEMMA QueueKept ==
  ASSUME QueueInv, UNCHANGED <<held, batch>>, (loop = "audit") <=> (loop' = "audit"),
         \A o \in Openers : Pending(o) => Pending(o)'
  PROVE  QueueInv'
<1>1. Rest' = Rest
  BY Zenon DEF Rest
<1> QED BY <1>1 DEF QueueInv

\* An opener that nothing happens to.
LEMMA PendingKept ==
  ASSUME NEW o, opener'[o] = opener[o], audit'[o] = audit[o], GroupOpen' => GroupOpen
  PROVE  (Pending(o) => Pending(o)') /\ (GroupOpen' = GroupOpen => (Fate(o) => Fate(o)'))
BY Zenon DEF Pending, Fate, GroupOpen

LEMMA AskNext ==
  ASSUME FanType, QueueInv, NEW o \in All, NEW req, NEW marked, Ask(o, req, marked),
         UNCHANGED <<batch, loop, audit, stop>>,
         o \in Openers => Fate(o)
  PROVE  QueueInv' /\ (o \in Openers => Fate(o)')
<1> DEFINE st == IF marked /\ GroupOpen THEN "waiting" ELSE "granted"
<1>1. /\ opener[o].st = "idle"
      /\ opener' = [opener EXCEPT ![o] = [st |-> st, req |-> req]]
      /\ held' = IF st = "waiting" THEN Append(held, o) ELSE held
  BY Zenon DEF Ask
<1>2. st \in {"waiting", "granted"} /\ (st = "waiting" => GroupOpen)
  BY Zenon
<1> HIDE DEF st
<1>3. opener'[o].st = st /\ \A x \in All \ {o} : opener'[x] = opener[x]
  BY Zenon, <1>1 DEF FanType
<1>4. GroupOpen' = GroupOpen /\ Rest' = Rest
  BY Zenon DEF GroupOpen, Rest
<1>5. o \in Openers => audit[o] = "none"
  BY ZenonT(30), <1>1 DEF Fate
<1>6. o \in Openers => Fate(o)'
  BY ZenonT(30), <1>2, <1>3, <1>4, <1>5 DEF Fate
<1>7. ~Pending(o)
  BY ZenonT(30), <1>1 DEF Pending
<1>8. \A x \in Openers : Pending(x) => Pending(x)'
  BY ZenonT(30), <1>3, <1>4, <1>7, PendingKept DEF All
<1>9. CASE st = "granted"
  <2>1. UNCHANGED <<held, batch>> /\ ((loop = "audit") <=> (loop' = "audit"))
    BY ZenonT(30), <1>1, <1>9
  <2> QED BY ZenonT(30), <1>6, <1>8, <2>1, QueueKept
<1>10. CASE st = "waiting"
  <2>1. held \in Seq(All) /\ held' = Append(held, o)
    BY ZenonT(30), <1>1, <1>10 DEF FanType
  <2>2. /\ Len(held) \in Nat /\ DOMAIN held = 1 .. Len(held)
        /\ held' \in Seq(All)
        /\ Len(held') = Len(held) + 1
        /\ \A i \in 1 .. Len(held) : held'[i] = held[i]
        /\ held'[Len(held) + 1] = o
    BY SMTT(30), <2>1, AppendProperties, LenProperties
  <2>3. DOMAIN held' = 1 .. Len(held) + 1
    BY Zenon, <2>2, LenProperties
  <2>4. o \in Openers => Pending(o)'
    BY Zenon, <1>3, <1>5, <1>10 DEF Pending
  <2>5. \A i \in DOMAIN held' : \/ i \in DOMAIN held /\ held'[i] = held[i]
                                \/ i = Len(held) + 1 /\ held'[i] = o
    BY SMTT(30), <2>2, <2>3
  <2>6. \A i \in DOMAIN held : held[i] \in Openers => held[i] # o
    BY Zenon, <1>7 DEF QueueInv
  <2>7. \A j \in Rest : batch[j] \in Openers => batch[j] # o
    BY Zenon, <1>7 DEF QueueInv
  <2>8. (\A i \in DOMAIN held : held[i] \in Openers => Pending(held[i]))'
    BY SMTT(30), <1>8, <2>4, <2>5 DEF QueueInv, Pending
  <2>9. (\A i \in Rest : batch[i] \in Openers => Pending(batch[i]))'
    BY ZenonT(30), <1>4, <1>8 DEF QueueInv, Pending
  <2>10. \A i, j \in DOMAIN held' : held'[i] \in Openers /\ held'[i] = held'[j] => i = j
    BY Zenon, <2>5, <2>6 DEF QueueInv
  <2>11. \A i, j \in Rest' : batch'[i] \in Openers /\ batch'[i] = batch'[j] => i = j
    BY ZenonT(30), <1>4 DEF QueueInv
  <2>12. \A i \in DOMAIN held', j \in Rest' : held'[i] \in Openers => held'[i] # batch'[j]
    BY ZenonT(30), <1>4, <2>5, <2>7 DEF QueueInv
  <2>13. QueueInv'
    BY ZenonT(30), <2>8, <2>9, <2>10, <2>11, <2>12 DEF QueueInv
  <2> QED BY ZenonT(30), <1>6, <2>13
<1> QED BY Zenon, <1>2, <1>6, <1>9, <1>10

LEMMA KilledNext ==
  ASSUME FanType, QueueInv, NEW o \in Openers, Killed(o)
  PROVE  QueueInv' /\ Fate(o)'
<1>1. o \in All /\ held \in Seq(All)
  BY Zenon DEF FanType, All
<1>2. /\ opener[o].st \in {"waiting", "stuck"}
      /\ opener' = [opener EXCEPT ![o].st = "gone"]
      /\ held' = Without(held, o)
      /\ UNCHANGED <<batch, loop, audit, stop>>
  BY Zenon DEF Killed, agentVars, world
<1>3. opener'[o].st = "gone" /\ \A x \in All \ {o} : opener'[x] = opener[x]
  BY ZenonT(30), <1>1, <1>2 DEF FanType, Opened
<1>4. GroupOpen' = GroupOpen /\ Rest' = Rest
  BY Zenon, <1>2 DEF GroupOpen, Rest
<1>5. \A x \in Openers : Pending(x) => Pending(x)'
  <2>1. Pending(o) => Pending(o)'
    BY ZenonT(30), <1>2, <1>3 DEF Pending
  <2>2. \A x \in Openers \ {o} : Pending(x) => Pending(x)'
    BY ZenonT(30), <1>2, <1>3, <1>4, PendingKept DEF All
  <2> QED BY ZenonT(30), <2>1, <2>2
<1>6. PICK f \in [DOMAIN held' -> DOMAIN held] :
        /\ \A i \in DOMAIN held' : held'[i] = held[f[i]]
        /\ \A i, j \in DOMAIN held' : f[i] = f[j] => i = j
  BY SMTT(30), <1>1, <1>2, WithoutProps
<1>7. \A i \in DOMAIN held' : f[i] \in DOMAIN held
  BY Zenon, <1>6
<1>8. (\A i \in DOMAIN held : held[i] \in Openers => Pending(held[i]))'
  BY <1>5, <1>6, <1>7 DEF QueueInv, Pending
<1>9. (\A i \in Rest : batch[i] \in Openers => Pending(batch[i]))'
  BY ZenonT(30), <1>2, <1>4, <1>5 DEF QueueInv, Pending
<1>10. \A i, j \in DOMAIN held' : held'[i] \in Openers /\ held'[i] = held'[j] => i = j
  BY SMTT(30), <1>6, <1>7 DEF QueueInv
<1>11. \A i, j \in Rest' : batch'[i] \in Openers /\ batch'[i] = batch'[j] => i = j
  BY Zenon, <1>2, <1>4 DEF QueueInv
<1>12. \A i \in DOMAIN held', j \in Rest' : held'[i] \in Openers => held'[i] # batch'[j]
  BY SMTT(30), <1>2, <1>4, <1>6, <1>7 DEF QueueInv
<1>13. QueueInv'
  BY Zenon, <1>8, <1>9, <1>10, <1>11, <1>12 DEF QueueInv
<1>14. Fate(o)'
  BY ZenonT(30), <1>3 DEF Fate
<1> QED BY ZenonT(30), <1>13, <1>14

LEMMA SelectReadNext ==
  ASSUME FanType, LoopInv, QueueInv, SelectRead
  PROVE  QueueInv'
<1> DEFINE n == IF Len(held) < BufCap THEN Len(held) ELSE BufCap
<1>1. /\ loop = "select" /\ batch = << >>
      /\ loop' # "audit"
      /\ batch' = IF GroupOpen THEN SubSeq(held, 1, n) ELSE << >>
      /\ held' = IF GroupOpen THEN SubSeq(held, n + 1, Len(held)) ELSE held
      /\ UNCHANGED <<opener, audit, stop>>
  BY Zenon DEF SelectRead, LoopInv, world
<1>2. \A x \in Openers : Pending(x) => Pending(x)'
  BY ZenonT(30), <1>1 DEF Pending, GroupOpen
<1>3. /\ Len(held) \in Nat /\ n \in 0 .. Len(held) /\ DOMAIN held = 1 .. Len(held)
      /\ \A i \in 1 .. Len(held) : held[i] \in All
  BY FanotifyAssumption, LenProperties DEF FanType
<1>4. Rest' = 1 .. Len(batch')
  BY Zenon, <1>1 DEF Rest
<1>5. CASE ~GroupOpen
  <2>1. Rest' = {} /\ held' = held
    BY SMTT(30), <1>1, <1>4, <1>5
  <2> QED BY ZenonT(30), <1>2, <2>1 DEF QueueInv, Pending
<1>6. CASE GroupOpen
  <2>1. Rest' = 1 .. n /\ \A i \in 1 .. n : batch'[i] = held[i]
    <3>1. n \in Int /\ \A i \in 1 .. n : held[i] \in All
      BY <1>3
    <3>2. batch' = SubSeq(held, 1, n)
      BY Zenon, <1>1, <1>6
    <3> HIDE DEF n
    <3>3. /\ Len(batch') = IF 1 <= n THEN n - 1 + 1 ELSE 0
          /\ \A i \in 1 .. n - 1 + 1 : batch'[i] = held[1 + i - 1]
      BY <3>1, <3>2, SubSeqProperties
    <3>4. Len(batch') = n
      BY <1>3, <3>3
    <3>5. ASSUME NEW i \in 1 .. n
          PROVE  batch'[i] = held[i]
      <4>1. i \in 1 .. n - 1 + 1 /\ 1 + i - 1 = i
        BY <1>3
      <4> QED BY Zenon, <3>3, <4>1
    <3> QED BY Zenon, <1>4, <3>4, <3>5
  <2>2. DOMAIN held' = 1 .. Len(held) - n /\ \A i \in 1 .. Len(held) - n : held'[i] = held[n + i]
    <3>1. n + 1 \in Int /\ Len(held) \in Int /\ \A i \in n + 1 .. Len(held) : held[i] \in All
      BY <1>3
    <3>2. held' = SubSeq(held, n + 1, Len(held))
      BY Zenon, <1>1, <1>6
    <3> HIDE DEF n
    <3>3. /\ held' \in Seq(All)
          /\ Len(held') = IF n + 1 <= Len(held) THEN Len(held) - (n + 1) + 1 ELSE 0
          /\ \A i \in 1 .. Len(held) - (n + 1) + 1 : held'[i] = held[(n + 1) + i - 1]
      BY <3>1, <3>2, SubSeqProperties
    <3>4. Len(held') = Len(held) - n
      <4>1. Len(held') = IF n + 1 <= Len(held) THEN Len(held) - (n + 1) + 1 ELSE 0
        BY Zenon, <3>3
      <4>2. Len(held) \in Nat /\ n \in 0 .. Len(held)
        BY Zenon, <1>3
      <4> QED BY <4>1, <4>2
    <3>5. DOMAIN held' = 1 .. Len(held) - n
      BY Zenon, <3>3, <3>4, LenProperties
    <3>6. ASSUME NEW i \in 1 .. Len(held) - n
          PROVE  held'[i] = held[n + i]
      <4>1. i \in 1 .. Len(held) - (n + 1) + 1 /\ (n + 1) + i - 1 = n + i
        BY <1>3
      <4> QED BY Zenon, <3>3, <4>1
    <3> QED BY Zenon, <3>5, <3>6
  <2> HIDE DEF n
  <2>3. /\ \A i \in Rest' : i \in DOMAIN held /\ batch'[i] = held[i]
        /\ \A i \in DOMAIN held' : n + i \in DOMAIN held /\ held'[i] = held[n + i]
        /\ \A i, j \in DOMAIN held' : n + i = n + j => i = j
        /\ \A i \in DOMAIN held', j \in Rest' : n + i # j
    BY SMTT(30), <1>3, <2>1, <2>2
  <2> HIDE DEF QueueInv
  <2>4. (\A i \in DOMAIN held : held[i] \in Openers => Pending(held[i]))'
    BY SMTT(30), <1>2, <2>3 DEF QueueInv, Pending
  <2>5. (\A i \in Rest : batch[i] \in Openers => Pending(batch[i]))'
    BY SMTT(30), <1>2, <2>3 DEF QueueInv, Pending
  <2>6. \A i, j \in DOMAIN held' : held'[i] \in Openers /\ held'[i] = held'[j] => i = j
    BY <2>3 DEF QueueInv
  <2>7. \A i, j \in Rest' : batch'[i] \in Openers /\ batch'[i] = batch'[j] => i = j
    BY Zenon, <2>3 DEF QueueInv
  <2>8. \A i \in DOMAIN held', j \in Rest' : held'[i] \in Openers => held'[i] # batch'[j]
    BY ZenonT(30), <2>3 DEF QueueInv
  <2> QED BY Zenon, <2>4, <2>5, <2>6, <2>7, <2>8 DEF QueueInv
<1> QED BY ZenonT(30), <1>5, <1>6

LEMMA RespondNext ==
  ASSUME FanType, LoopInv, QueueInv, FateInv, Respond
  PROVE  QueueInv' /\ FateInv'
<1>0. PICK o : o = Head(batch)
  BY Zenon
<1>1. /\ loop = "respond" /\ loop' = "audit" /\ batch # << >>
      /\ opener' = IF GroupOpen /\ opener[o].st = "waiting"
                   THEN [opener EXCEPT ![o].st = Answer(allow)] ELSE opener
      /\ audit' = [audit EXCEPT ![o] = IF allow THEN "allow" ELSE "block"]
      /\ UNCHANGED <<held, batch, stop>>
  BY ZenonT(30), <1>0 DEF Respond, LoopInv, world
<1>2. o = batch[1] /\ Len(batch) \in Nat \ {0} /\ o \in All
  BY <1>0, <1>1, LenProperties, EmptySeq DEF FanType
<1>3. Rest = 1 .. Len(batch) /\ Rest' = 2 .. Len(batch)
  BY Zenon, <1>1 DEF Rest
<1>4. 1 \in Rest /\ \A i \in Rest' : i \in Rest /\ i # 1
  BY <1>2, <1>3
<1>5. GroupOpen' = GroupOpen
  BY Zenon, <1>1 DEF GroupOpen
<1>6. \A x \in All \ {o} : opener'[x] = opener[x] /\ audit'[x] = audit[x]
  BY Zenon, <1>1 DEF FanType
<1>7. \A x \in Openers \ {o} : (Pending(x) => Pending(x)') /\ (Fate(x) => Fate(x)')
  BY Zenon, <1>5, <1>6, PendingKept DEF All
<1>8. (\A i \in DOMAIN held : held[i] # o \/ o \notin Openers)
      /\ (\A i \in Rest' : batch[i] # o \/ o \notin Openers)
  BY Zenon, <1>2, <1>4 DEF QueueInv
<1>9. (\A i \in DOMAIN held : held[i] \in Openers => Pending(held[i]))'
  BY SMTT(30), <1>1, <1>7, <1>8 DEF QueueInv, Pending
<1>10. (\A i \in Rest : batch[i] \in Openers => Pending(batch[i]))'
  BY SMTT(30), <1>1, <1>4, <1>7, <1>8 DEF QueueInv, Pending
<1>11. QueueInv'
  <2>1. \A i, j \in DOMAIN held' : held'[i] \in Openers /\ held'[i] = held'[j] => i = j
    BY Zenon, <1>1 DEF QueueInv
  <2>2. \A i, j \in Rest' : batch'[i] \in Openers /\ batch'[i] = batch'[j] => i = j
    BY Zenon, <1>1, <1>4 DEF QueueInv
  <2>3. \A i \in DOMAIN held', j \in Rest' : held'[i] \in Openers => held'[i] # batch'[j]
    BY Zenon, <1>1, <1>4 DEF QueueInv
  <2> QED BY Zenon, <1>9, <1>10, <2>1, <2>2, <2>3 DEF QueueInv
<1>12. ASSUME o \in Openers
       PROVE  Fate(o)'
  <2>1. Pending(o) /\ Fate(o)
    BY Zenon, <1>2, <1>4, <1>12 DEF QueueInv, FateInv
  <2>2. audit'[o] = IF allow THEN "allow" ELSE "block"
    BY Zenon, <1>1, <1>2 DEF FanType
  <2>3. CASE GroupOpen /\ opener[o].st = "waiting"
    <3>1. opener'[o].st = Answer(allow)
      BY ZenonT(30), <1>1, <1>2, <2>3 DEF FanType, Opened
    <3> QED BY Zenon, <1>5, <2>2, <2>3, <3>1 DEF Fate, Answer
  <2>4. CASE ~(GroupOpen /\ opener[o].st = "waiting")
    <3>1. opener'[o].st \in {"gone", "granted"} /\ (opener'[o].st = "granted" => ~GroupOpen)
      BY ZenonT(30), <1>1, <2>1, <2>4 DEF Pending, Fate
    <3> QED BY ZenonT(30), <1>5, <3>1 DEF Fate
  <2> QED BY Zenon, <2>3, <2>4
<1>13. FateInv'
  BY ZenonT(30), <1>7, <1>12 DEF FateInv
<1> QED BY ZenonT(30), <1>11, <1>13

LEMMA UnlockNext ==
  ASSUME FanType, LoopInv, QueueInv, FateInv, NEW w \in Writers, Unlock(w)
  PROVE  QueueInv' /\ FateInv'
<1>1. /\ mu = w
      /\ opener' = [opener EXCEPT ![w] = [st |-> "idle", req |-> LogRequest]]
      /\ UNCHANGED <<held, audit, stop>>
  BY Zenon DEF Unlock, world
<1>2. \A x \in Openers : opener'[x] = opener[x]
  BY ZenonT(30), <1>1, FanotifyAssumption DEF FanType, All
<1>3. GroupOpen' = GroupOpen
  BY ZenonT(30), <1>1 DEF GroupOpen
<1>4. \A x \in Openers : (Pending(x) => Pending(x)') /\ (Fate(x) => Fate(x)')
  BY ZenonT(30), <1>1, <1>2, <1>3, PendingKept
<1>5. FateInv'
  BY ZenonT(30), <1>4 DEF FateInv
<1>6. CASE w # LoopLog
  <2>1. UNCHANGED <<held, batch>> /\ ((loop = "audit") <=> (loop' = "audit"))
    BY ZenonT(30), <1>6 DEF Unlock
  <2> QED BY ZenonT(30), <1>4, <1>5, <2>1, QueueKept
<1>7. CASE w = LoopLog
  <2>1. /\ loop = "audit" /\ batch # << >> /\ loop' # "audit"
        /\ batch' = Tail(batch)
    BY ZenonT(30), <1>1, <1>7 DEF Unlock, LoopInv
  <2>2. /\ Len(batch) \in Nat \ {0}
        /\ Len(batch') = Len(batch) - 1
        /\ \A i \in 1 .. Len(batch) - 1 : batch'[i] = batch[i + 1]
    BY ZenonT(30), <2>1, HeadTailProperties, LenProperties, EmptySeq DEF FanType
  <2>3. Rest = 2 .. Len(batch) /\ Rest' = 1 .. Len(batch) - 1
    BY ZenonT(30), <2>1, <2>2 DEF Rest
  <2>4. /\ \A i \in Rest' : i + 1 \in Rest /\ batch'[i] = batch[i + 1]
        /\ \A i, j \in Rest' : i + 1 = j + 1 => i = j
    BY SMTT(30), <2>2, <2>3
  <2>5. (\A i \in DOMAIN held : held[i] \in Openers => Pending(held[i]))'
    BY ZenonT(30), <1>1, <1>4 DEF QueueInv, Pending
  <2>6. (\A i \in Rest : batch[i] \in Openers => Pending(batch[i]))'
    BY <1>4, <2>4 DEF QueueInv, Pending
  <2>7. \A i, j \in DOMAIN held' : held'[i] \in Openers /\ held'[i] = held'[j] => i = j
    BY Zenon, <1>1 DEF QueueInv
  <2>8. \A i, j \in Rest' : batch'[i] \in Openers /\ batch'[i] = batch'[j] => i = j
    BY ZenonT(30), <2>4 DEF QueueInv
  <2>9. \A i \in DOMAIN held', j \in Rest' : held'[i] \in Openers => held'[i] # batch'[j]
    BY <1>1, <2>4 DEF QueueInv
  <2>10. QueueInv'
    BY Zenon, <2>5, <2>6, <2>7, <2>8, <2>9 DEF QueueInv
  <2> QED BY ZenonT(30), <1>5, <2>10
<1> QED BY ZenonT(30), <1>6, <1>7

LEMMA StopCloseNext ==
  ASSUME FanType, QueueInv, FateInv, StopClose
  PROVE  QueueInv' /\ FateInv'
<1>1. /\ held' = << >> /\ ~GroupOpen'
      /\ UNCHANGED <<batch, loop, audit>>
      /\ \A o \in All : opener'[o].st = IF opener[o].st \in {"waiting", "stuck"}
                                        THEN "granted" ELSE opener[o].st
  BY Zenon DEF StopClose, Released, GroupOpen, agentVars, FanType, Opened
<1>2. \A o \in Openers : (Pending(o) => Pending(o)') /\ (Fate(o) => Fate(o)')
  BY Zenon, <1>1 DEF All, Pending, Fate
<1>3. Rest' = Rest /\ DOMAIN held' = {}
  BY SMTT(30), <1>1 DEF Rest
<1>4. QueueInv'
  BY SMTT(30), <1>1, <1>2, <1>3 DEF QueueInv, Pending
<1> QED BY Zenon, <1>2, <1>4 DEF FateInv

LEMMA FanNext == FanInv /\ [Next]_vars => FanInv'
<1> SUFFICES ASSUME FanInv, [Next]_vars
             PROVE  QueueInv' /\ FateInv'
  BY ZenonT(30), FanTypeNext, LoopNext DEF FanInv
<1> USE DEF FanInv
<1>1. ASSUME UNCHANGED <<opener, audit, held, batch>>, GroupOpen' = GroupOpen,
             (loop = "audit") <=> (loop' = "audit")
      PROVE  QueueInv' /\ FateInv'
  <2>1. \A o \in Openers : (Pending(o) => Pending(o)') /\ (Fate(o) => Fate(o)')
    BY ZenonT(30), <1>1, PendingKept
  <2> QED BY ZenonT(30), <1>1, <2>1, QueueKept DEF FateInv
<1>2. ASSUME NEW o \in Openers, NEW req \in Requests, Open(o, req)
      PROVE  QueueInv' /\ FateInv'
  <2>1. /\ Ask(o, req, TRUE)
        /\ UNCHANGED <<batch, loop, audit, stop>>
    BY Zenon, <1>2 DEF Open, agentVars, world
  <2>2. o \in All /\ Fate(o)
    BY Zenon DEF All, FateInv
  <2>3. QueueInv' /\ Fate(o)'
    BY ZenonT(30), <2>1, <2>2, AskNext
  <2>4. \A x \in Openers \ {o} : opener'[x] = opener[x] /\ audit'[x] = audit[x]
    BY ZenonT(30), <2>1 DEF Ask, FanType, All
  <2>5. \A x \in Openers \ {o} : Fate(x) => Fate(x)'
    BY ZenonT(30), <2>1, <2>4, PendingKept DEF GroupOpen
  <2> QED BY ZenonT(30), <2>3, <2>5 DEF FateInv
<1>3. ASSUME NEW o \in Openers, Killed(o)
      PROVE  QueueInv' /\ FateInv'
  <2>1. QueueInv' /\ Fate(o)'
    BY ZenonT(30), <1>3, KilledNext
  <2>2. \A x \in Openers \ {o} : opener'[x] = opener[x] /\ audit'[x] = audit[x]
    BY ZenonT(30), <1>3 DEF Killed, FanType, All, agentVars
  <2>3. GroupOpen' = GroupOpen
    BY ZenonT(30), <1>3 DEF Killed, world, GroupOpen
  <2>4. \A x \in Openers \ {o} : Fate(x) => Fate(x)'
    BY ZenonT(30), <2>2, <2>3, PendingKept
  <2> QED BY ZenonT(30), <2>1, <2>4 DEF FateInv
<1>4. ASSUME NEW w \in Writers, OpenLog(w)
      PROVE  QueueInv' /\ FateInv'
  <2>1. /\ Ask(w, LogRequest, env.logMarked)
        /\ UNCHANGED <<batch, loop, audit, stop>>
    BY ZenonT(30), <1>4 DEF OpenLog, agentVars, world
  <2>2. w \in All /\ w \notin Openers
    BY ZenonT(30), FanotifyAssumption DEF All
  <2>3. QueueInv'
    BY ZenonT(30), <2>1, <2>2, AskNext
  <2>4. \A x \in Openers : opener'[x] = opener[x] /\ audit'[x] = audit[x]
    BY ZenonT(30), <2>1, <2>2 DEF Ask, FanType, All
  <2>5. \A x \in Openers : Fate(x) => Fate(x)'
    BY ZenonT(30), <2>1, <2>4, PendingKept DEF GroupOpen
  <2> QED BY ZenonT(30), <2>3, <2>5 DEF FateInv
<1>5. CASE SelectRead
  <2>1. QueueInv'
    BY ZenonT(30), <1>5, SelectReadNext
  <2>2. UNCHANGED <<opener, audit, stop>>
    BY ZenonT(30), <1>5 DEF SelectRead, world
  <2> QED BY ZenonT(30), <2>1, <2>2 DEF FateInv, Fate, GroupOpen
<1>6. CASE Respond
  BY ZenonT(30), <1>6, RespondNext
<1>7. ASSUME NEW w \in Writers, Unlock(w)
      PROVE  QueueInv' /\ FateInv'
  BY ZenonT(30), <1>7, UnlockNext
<1>8. CASE StopClose
  BY ZenonT(30), <1>8, StopCloseNext
<1>9. CASE CheckStop \/ Handle \/ HandlerPanics \/ Change \/ UNCHANGED vars
  <2>1. UNCHANGED <<opener, audit, held, batch>> /\ GroupOpen' = GroupOpen
        /\ ((loop = "audit") <=> (loop' = "audit"))
    BY ZenonT(30), <1>9 DEF CheckStop, Handle, HandlerPanics, Decide, Change, vars, agentVars, world, GroupOpen
  <2> QED BY ZenonT(30), <1>1, <2>1
<1>10. CASE StopAsk \/ StopWait \/ \E w \in Writers : Lock(w)
  <2>1. UNCHANGED <<opener, audit, held, batch>> /\ GroupOpen' = GroupOpen
        /\ ((loop = "audit") <=> (loop' = "audit"))
    BY <1>10 DEF StopAsk, StopWait, Lock, agentVars, world, GroupOpen
  <2> QED BY <1>1, <2>1
<1> QED
  BY Zenon, <1>2, <1>3, <1>4, <1>5, <1>6, <1>7, <1>8, <1>9, <1>10 DEF Next, Loop, Log, Finish

\* What the audit log says of an open is what happened to it, however opens,
\* kills, answers, panics of the handler, writes of the log and Stop alternate.
THEOREM AuditIsTrue == Spec => []AuditTellsOutcome
<1>1. Init => FanInv
  <2> SUFFICES ASSUME Init
               PROVE  FanInv
    BY Zenon
  <2>1. FanType
    BY DEF Init, FanType, All, Opened, Statuses
  <2>2. LoopInv
    BY Zenon, FanotifyAssumption DEF Init, LoopInv, Writers
  <2>3. QueueInv
    <3>1. DOMAIN held = {} /\ Rest = {}
      BY DEF Init, Rest
    <3> QED BY Zenon, <3>1 DEF QueueInv
  <2>4. FateInv
    BY Zenon DEF Init, FateInv, Fate
  <2> QED BY ZenonT(30), <2>1, <2>2, <2>3, <2>4 DEF FanInv
<1>2. FanInv => AuditTellsOutcome
  <2> SUFFICES ASSUME FanInv, NEW o \in Openers
               PROVE  /\ audit[o] = "block" /\ opener[o].st = "granted" => ~GroupOpen
                      /\ audit[o] = "allow" => opener[o].st \notin {"denied", "stuck", "waiting"}
                      /\ opener[o].st = "denied" => audit[o] = "block"
    BY Zenon DEF AuditTellsOutcome
  <2> QED BY Zenon DEF FanInv, FateInv, Fate
<1> QED BY <1>1, <1>2, FanNext, PTL DEF Spec

----------------------------------------------------------------------------
\* What the last step judged, it judged by a policy that was in force.
Judged(v) ==
  /\ v.policy \in DOMAIN Pol
  /\ v.minute \in Minutes
  /\ v.allow = HandleFileAccess(Pol[v.policy], v.minute, v.view)

VerdictInv ==
  /\ policy \in DOMAIN Pol
  /\ minute \in Minutes
  /\ verdict = Unjudged \/ Judged(verdict)

LEMMA VerdictNext == VerdictInv /\ [Next]_vars => VerdictInv'
<1> SUFFICES ASSUME VerdictInv, [Next]_vars
             PROVE  VerdictInv'
  BY Zenon
<1>1. CASE Change
  <2>1. policy' \in Reloads \cup {policy} /\ minute' \in Minutes /\ verdict' = Unjudged
    BY Zenon, <1>1 DEF Change, Quiet, VerdictInv
  <2> QED BY Zenon, <2>1, PolicyAssumption DEF VerdictInv
<1>2. CASE Handle
  <2>1. UNCHANGED <<policy, minute>>
    BY Zenon, <1>2 DEF Handle, Decide, world
  <2>2. PICK view, ok : /\ ok = HandleFileAccess(Pol[policy], minute, view)
                        /\ verdict' = [req |-> opener[Head(batch)].req, allow |-> ok,
                                       policy |-> policy, minute |-> minute, view |-> view]
    BY Zenon, <1>2 DEF Handle
  <2>3. /\ verdict'.policy = policy /\ verdict'.minute = minute
        /\ verdict'.allow = ok /\ verdict'.view = view
    BY ZenonT(30), <2>2
  <2>4. Judged(verdict')
    BY Zenon, <2>2, <2>3 DEF VerdictInv, Judged
  <2> QED BY Zenon, <2>1, <2>4 DEF VerdictInv
<1>3. CASE UNCHANGED vars
  BY Zenon, <1>3 DEF vars, world, VerdictInv
<1>4. ASSUME UNCHANGED world, Quiet
      PROVE  VerdictInv'
  BY Zenon, <1>4 DEF world, Quiet, VerdictInv
<1>5. CASE CheckStop \/ SelectRead \/ HandlerPanics \/ Respond
  BY Zenon, <1>4, <1>5 DEF CheckStop, SelectRead, HandlerPanics, Decide, Respond
<1>6. ASSUME NEW w \in Writers, Lock(w) \/ Log(w)
      PROVE  VerdictInv'
  BY Zenon, <1>4, <1>6 DEF Lock, Log, OpenLog, Unlock
<1>7. ASSUME NEW o \in Openers, Killed(o) \/ \E req \in Requests : Open(o, req)
      PROVE  VerdictInv'
  BY Zenon, <1>4, <1>7 DEF Killed, Open
<1>8. CASE StopAsk \/ Finish
  BY ZenonT(40), <1>8 DEF StopAsk, Finish, StopClose, StopWait, Quiet, VerdictInv
<1> QED BY ZenonT(40), <1>1, <1>2, <1>3, <1>5, <1>6, <1>7, <1>8 DEF Next, Loop

\* An open is refused exactly if the rule that the policy in force puts first
\* blocks, of whatever rules that policy has, whenever it was loaded and
\* whatever of the process could still be read (HandleFileAccess of main.go).
THEOREM OpensFollowPolicy == Spec => []OpenFollowsPolicy
<1>1. Init => VerdictInv
  BY Zenon DEF Init, VerdictInv
<1>2. VerdictInv => OpenFollowsPolicy
  <2> SUFFICES ASSUME VerdictInv, verdict.req # ""
               PROVE  LET p == Pol[verdict.policy]
                          id == ReferenceResponse(p, verdict.minute, verdict.view)
                      IN  verdict.allow <=> ~\E r \in Range(p.rules) : r.id = id /\ r.decision = "block"
    BY Zenon DEF OpenFollowsPolicy
  <2>1. Judged(verdict)
    <3>1. Unjudged.req = ""
      BY Zenon DEF Unjudged
    <3> QED BY Zenon, <3>1 DEF VerdictInv
  <2>2. PICK p, m, v : /\ p = Pol[verdict.policy] /\ m = verdict.minute /\ v = verdict.view
                       /\ m \in ClockTimes /\ Loaded(p)
    BY Zenon, <2>1, PolicyAssumption DEF Judged, Loaded
  <2>3. verdict.allow = (ResponseRule(evaluateAll(p, m, v)).decision # "block")
    BY Zenon, <2>1, <2>2 DEF Judged, HandleFileAccess
  <2> QED BY ZenonT(40), <2>2, <2>3, BlockIsReference
<1> QED BY <1>1, <1>2, VerdictNext, PTL DEF Spec
=============================================================================
